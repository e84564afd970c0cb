----------------------------- MODULE MCMemoryCache -----------------------------
(***************************************************************************)
(* Three identities, data of one, three and four bytes, two entries and    *)
(* three bytes at most.                                                    *)
(***************************************************************************)
EXTENDS EvictionLoop, TLC

CONSTANTS k1, k2, k3, small, medium, large

MCSize == (small :> 1) @@ (medium :> 3) @@ (large :> 4)
=============================================================================
