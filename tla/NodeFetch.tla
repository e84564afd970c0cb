------------------------------- MODULE NodeFetch -------------------------------
(***************************************************************************)
(* node::fetch of src/src/node.rs on its own: one request for a URN to a   *)
(* loopback node, and whatever response comes back through the transport   *)
(* of this build (VisibleHeaders).  The native transport hands on every    *)
(* header; the wasm FetchTransport hands on Content-Type and               *)
(* X-Dig-Verified.                                                         *)
(*                                                                         *)
(* The module asks what Resolver cannot: whether the classification is     *)
(* complete (a response that can be served is served) besides being sound. *)
(***************************************************************************)
EXTENDS FetchResults

CONSTANTS Pending, NoResponse

ASSUME PendingAssumption == Pending \notin Results /\ NoResponse \notin NodeResponses

VARIABLES
    asked,      \* the URN of the request in flight
    response,   \* what the node sent, as it sent it
    result      \* what node::fetch returned

vars == <<asked, response, result>>

Init ==
    /\ asked \in Urns
    /\ response = NoResponse
    /\ result = Pending

\* The node answers; node::fetch classifies what the transport lets it see.
Receive(resp) ==
    /\ result = Pending
    /\ response' = resp
    /\ result' = NodeResult(asked, SeenBy(resp))
    /\ UNCHANGED asked

\* The next fetch, of any URN.
FetchAgain ==
    /\ result # Pending
    /\ asked' \in Urns
    /\ response' = NoResponse
    /\ result' = Pending

Next == (\E resp \in NodeResponses : Receive(resp)) \/ FetchAgain

Spec == Init /\ [][Next]_vars

-----------------------------------------------------------------------------
\* Every variable keeps its type (the result of node.rs fetch).
TypeOK ==
    /\ asked \in Urns
    /\ response \in NodeResponses \cup {NoResponse}
    /\ result \in Results \cup {Pending}

Answered == result # Pending

\* A loopback node is trusted to decrypt only where it says so: bytes it does not
\* attest are served only if their artifacts pass gate-then-decrypt again, from
\* scratch, against the root they are going to be cached under.
UnattestedBytesReverify ==
    Answered /\ result.verdict = "Ok" /\ ~ response.verified =>
        /\ result.artifacts # NoArtifacts
        /\ VerifyAndDecrypt(asked, result.artifacts, result.root) = "Ok"
        /\ result.bytes \in Authentic(asked, result.root)

\* A node that relays authentic ciphertext with everything the client needs to open
\* it (the proof, and the root unless the URN pins it) is served, whether or not it
\* also says X-Dig-Encrypted.  SPEC.md: a node CIPHERTEXT response MUST be client-side
\* verified and decrypted.
HonestRelay(u, resp) ==
    /\ resp.status = "2xx"
    /\ ~ resp.verified
    /\ resp.proof # NoProof
    /\ NodeRoot(u, resp) \in Roots
    /\ resp.chunk_lens = "matching"
    /\ resp.body \in Ciphertexts
    /\ resp.proof = [leaf |-> resp.body, root |-> NodeRoot(u, resp)]
    /\ resp.body \in Committed[NodeRoot(u, resp)]
    /\ resp.body.key = KeyOf(u)

RelayedCiphertextIsServed ==
    Answered /\ HonestRelay(asked, response) =>
        /\ result.verdict = "Ok"
        /\ result.bytes = response.body.text

\* Absence and unreachability, the only verdicts the ladder falls through on, come
\* from the HTTP status alone: no body or header of a reachable node can send the
\* resolve on to the next tier.
OnlyStatusFallsThrough ==
    Answered /\ result.verdict \in {"NotFound", "Transport"} => response.status # "2xx"
=============================================================================
