------------------------------ MODULE MCResolver ------------------------------
(***************************************************************************)
(* Small stores for the Resolver runs: a public resource that two roots    *)
(* publish in different versions, and a private one under a secret salt.   *)
(***************************************************************************)
EXTENDS ResolverProperties

CONSTANTS public, private, r1, r2, s, sh, v1, v2, p1, i1, i2, c1, c2

Key(chain, resource, salt) == [chain |-> chain, resource |-> resource, salt |-> salt]
C1 == [key |-> Key("chia", public, NoSalt), text |-> v1]
C2 == [key |-> Key("chia", public, NoSalt), text |-> v2]
P1 == [key |-> Key("chia", private, s), text |-> p1]
P2 == [key |-> Key("chia", private, s), text |-> v2]
Junk == [key |-> NoKey, text |-> v1]

MCCiphertexts == {C1, C2, P1, P2, Junk}
MCCommitted == [r \in Roots |-> IF r = r1 THEN {C1, P1} ELSE {C2, P2}]

Urn(resource, root, salt) ==
    [chain |-> "chia", resource |-> resource, root |-> root, salt |-> salt]
Mainnet(u) == [u EXCEPT !.chain = "mainnet"]

\* Two versions, and the rootless tip.
VersionUrns == {Urn(public, r1, NoSalt), Urn(public, r2, NoSalt), Urn(public, NoRoot, NoSalt)}
TwoUrns == {Urn(public, r1, NoSalt), Urn(public, NoRoot, NoSalt)}
PinnedUrn == {Urn(public, r1, NoSalt)}
TwoLabels == {Urn(public, r1, NoSalt), Mainnet(Urn(public, r1, NoSalt))}
\* The private resource with its salt, without it and with an unusable one.
SaltUrns == {Urn(private, r1, s), Urn(private, r1, NoSalt), Urn(private, r1, sh)}

Art(ciphertext, proof, lens) ==
    [ciphertext |-> ciphertext, proof_b64 |-> proof, chunk_lens |-> lens]
Proof(leaf, root) == [leaf |-> leaf, root |-> root]

\* Honest bytes, another version's, altered bytes, and lying chunk lengths.
MCWire == {Art(C1, Proof(C1, r1), "matching"), Art(C2, Proof(C2, r2), "matching"),
           Art(P1, Proof(P1, r1), "matching"), Art(Junk, Proof(C1, r1), "matching"),
           Art(C1, Proof(C1, r1), "inconsistent"), Art(C1, Garbled, "matching")}
\* The private resource, altered bytes of it, another resource and another version.
TamperedWire == {Art(P1, Proof(P1, r1), "matching"), Art(Junk, Proof(P1, r1), "matching"),
                 Art(C1, Proof(C1, r1), "matching"), Art(P2, Proof(P2, r2), "matching")}
HonestWire == {Art(C1, Proof(C1, r1), "matching"), Art(Junk, Proof(C1, r1), "matching")}

AllHeaders == HeaderNames
WasmHeaders == {"x-dig-verified"}

OneOwner == [c \in Calls |-> i1]
TwoOwners == [c \in Calls |-> IF c = c1 THEN i1 ELSE i2]
Ladder == [i \in Instances |-> NoOverride]
AllRemote == [i \in Instances |-> Remote]
LocalAndRemote == [i \in Instances |-> IF i = i1 THEN DigLocal ELSE Remote]
=============================================================================
