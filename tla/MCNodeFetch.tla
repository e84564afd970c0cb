------------------------------ MODULE MCNodeFetch ------------------------------
(***************************************************************************)
(* Every response a node can give, for a public and a private resource.    *)
(***************************************************************************)
EXTENDS NodeFetch

CONSTANTS public, private, r1, r2, s, sh, v1, p1

C1 == [key |-> [chain |-> "chia", resource |-> public, salt |-> NoSalt], text |-> v1]
P1 == [key |-> [chain |-> "chia", resource |-> private, salt |-> s], text |-> p1]
Junk == [key |-> NoKey, text |-> v1]

MCCiphertexts == {C1, P1, Junk}
MCCommitted == [r \in Roots |-> IF r = r1 THEN {C1} ELSE {P1}]

Urn(resource, root, salt) ==
    [chain |-> "chia", resource |-> resource, root |-> root, salt |-> salt]

MCUrns == {Urn(public, r1, NoSalt), Urn(public, NoRoot, NoSalt),
           Urn(private, r2, s), Urn(private, r2, NoSalt), Urn(private, NoRoot, sh)}

AllHeaders == HeaderNames
WasmHeaders == {"x-dig-verified"}
NothingOnTheWire == {}
=============================================================================
