------------------------------ MODULE MCRpcFetch ------------------------------
(***************************************************************************)
(* The resource is as large as any may be, three bytes, and an honest      *)
(* gateway serves it in as many windows as there may be, three.            *)
(***************************************************************************)
EXTENDS RpcFetch

MCTotals == {0, Length - 1, Length, MaxResource + 1}
MCSizes == 0..2
MCNexts == 0..4
=============================================================================
