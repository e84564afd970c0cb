----------------------------- MODULE FetchResults -----------------------------
(***************************************************************************)
(* What one attempt at one endpoint can come to: the Result<Fetched> of    *)
(* node::fetch and rpc::fetch (src/src/node.rs, src/src/rpc.rs), the       *)
(* responses a dig-node can give, and how node.rs classifies each.         *)
(***************************************************************************)
EXTENDS ReadCrypto

CONSTANTS
    Urns,            \* the URNs that are resolved
    Wire,            \* artifacts an untrusted peer can assemble
    NoBytes,         \* a failure carries no bytes
    NoArtifacts,     \* nothing to verify again (attested plaintext)
    NoProof,         \* the response has no X-Dig-Inclusion-Proof
    VisibleHeaders   \* the response headers this build's transport hands on

HeaderNames == {"x-dig-verified", "x-dig-encrypted", "x-dig-root",
                "x-dig-inclusion-proof", "x-dig-chunk-lens"}

ASSUME FetchAssumption ==
    /\ Urns \subseteq UrnForms
    /\ Wire \subseteq DiskArtifacts
    /\ NoBytes \notin Texts
    /\ NoArtifacts \notin DiskArtifacts
    /\ NoProof \notin Proofs
    /\ VisibleHeaders \subseteq HeaderNames

-----------------------------------------------------------------------------
Bytes == Texts \cup Ciphertexts

Verdicts == {"Ok", "Parse", "VerifyFailed", "DecryptFailed",
             "NotFound", "Transport", "Rpc"}

Fetched(bytes, root, artifacts) ==
    [verdict |-> "Ok", bytes |-> bytes, root |-> root, artifacts |-> artifacts]

Failure(verdict) ==
    [verdict |-> verdict, bytes |-> NoBytes, root |-> NoRoot, artifacts |-> NoArtifacts]

Results == [verdict : Verdicts, bytes : Bytes \cup {NoBytes},
            root : Roots \cup {NoRoot, BadRoot},
            artifacts : DiskArtifacts \cup {NoArtifacts}]

\* Slip: decryption without the gate in front of it.
Opened_NoGate(u, art, root) ==
    IF art.ciphertext \in Ciphertexts /\ Decrypts(u, art.ciphertext, art.chunk_lens)
    THEN Fetched(art.ciphertext.text, root, art)
    ELSE Failure("DecryptFailed")

\* Served bytes put through gate-then-decrypt, with the artifacts kept.
Opened(u, art, root) ==
    IF VerifyAndDecrypt(u, art, root) = "Ok"
    THEN Fetched(art.ciphertext.text, root, art)
    ELSE Failure(VerifyAndDecrypt(u, art, root))

-----------------------------------------------------------------------------
\* The loopback dig-node.

\* Every way GET /s/<store>[:<root>]/<resource> can end.
NodeResponses ==
    [status : {"no_answer", "404", "other", "2xx"},
     verified : BOOLEAN, encrypted : BOOLEAN,
     root : Roots \cup {NoRoot, BadRoot},
     proof : Proofs \cup {NoProof},
     chunk_lens : {"matching", "inconsistent", "malformed"},
     body : Bytes]

\* The response with the headers the transport does not expose gone.  Without a
\* proof header the chunk lengths are not read.
SeenBy(resp) ==
    [resp EXCEPT
        !.verified = @ /\ "x-dig-verified" \in VisibleHeaders,
        !.encrypted = @ /\ "x-dig-encrypted" \in VisibleHeaders,
        !.root = IF "x-dig-root" \in VisibleHeaders THEN @ ELSE NoRoot,
        !.proof = IF "x-dig-inclusion-proof" \in VisibleHeaders THEN @ ELSE NoProof,
        !.chunk_lens = IF "x-dig-chunk-lens" \in VisibleHeaders THEN @ ELSE "matching"]

\* The concrete root served: the URN's own, else what the node's header says.
NodeRoot(u, resp) == IF Pinned(u) THEN u.root ELSE resp.root

\* Slip: only the explicit marker makes a response ciphertext.
IsCiphertext_Marked(resp) == resp.encrypted

IsCiphertext(resp) == resp.encrypted \/ resp.proof # NoProof

NodeArtifacts(resp) ==
    [ciphertext |-> resp.body, proof_b64 |-> resp.proof, chunk_lens |-> resp.chunk_lens]

\* Slip: a relay without its proof or root is taken for absence.
NodeCiphertextResult_Lenient(u, resp) ==
    IF resp.proof = NoProof \/ NodeRoot(u, resp) = NoRoot THEN Failure("NotFound")
    ELSE IF resp.chunk_lens = "malformed" THEN Failure("VerifyFailed")
    ELSE Opened(u, NodeArtifacts(resp), NodeRoot(u, resp))

\* The blind path: opaque ciphertext, verified and decrypted by the client.
NodeCiphertextResult(u, resp) ==
    IF resp.proof = NoProof \/ NodeRoot(u, resp) = NoRoot \/ resp.chunk_lens = "malformed"
    THEN Failure("VerifyFailed")
    ELSE Opened(u, NodeArtifacts(resp), NodeRoot(u, resp))

\* Slip: attested plaintext is kept with whatever else the response carries.
NodeResult_KeepsArtifacts(u, resp) ==
    CASE resp.status = "404" -> Failure("NotFound")
      [] resp.status \in {"no_answer", "other"} -> Failure("Transport")
      [] resp.status = "2xx" /\ resp.verified ->
            Fetched(resp.body, NodeRoot(u, resp), NodeArtifacts(resp))
      [] resp.status = "2xx" /\ ~ resp.verified /\ IsCiphertext(resp) ->
            NodeCiphertextResult(u, resp)
      [] OTHER -> Failure("VerifyFailed")

\* node::fetch: attested plaintext is trusted, ciphertext verified, the rest refused.
NodeResult(u, resp) ==
    CASE resp.status = "404" -> Failure("NotFound")
      [] resp.status \in {"no_answer", "other"} -> Failure("Transport")
      [] resp.status = "2xx" /\ resp.verified ->
            Fetched(resp.body, NodeRoot(u, resp), NoArtifacts)
      [] resp.status = "2xx" /\ ~ resp.verified /\ IsCiphertext(resp) ->
            NodeCiphertextResult(u, resp)
      [] OTHER -> Failure("VerifyFailed")

\* The trust placed in a loopback node, which is asked for a store, a root and a
\* resource and never told the chain label or the salt: what it attests is what
\* the root it names (when it names one) publishes for that resource.
AttestedRoots(u, resp) ==
    IF NodeRoot(u, resp) \in Roots THEN {NodeRoot(u, resp)} ELSE Roots

Attests(u, resp) ==
    resp.verified =>
        \E root \in AttestedRoots(u, resp) : resp.body \in Published(u.resource, root)

-----------------------------------------------------------------------------
\* The results an endpoint of each kind can give for a URN, as pairs of the two.

NodeExchanges == {x \in Urns \X NodeResponses : Attests(x[1], x[2])}

NodeAnswers == {<<x[1], NodeResult(x[1], SeenBy(x[2]))>> : x \in NodeExchanges}

\* The untrusted gateway: paging ends in absence, a transport or a protocol
\* failure, or in bytes and a proof that are opened against the pinned root.
GatewayAnswers ==
    (Urns \X {Failure(v) : v \in {"NotFound", "Transport", "Rpc"}})
        \cup {<<x[1], Opened(x[1], x[2], x[1].root)>> : x \in Urns \X Wire}

AnswersTo(u, answers) == {a[2] : a \in {b \in answers : b[1] = u}}

-----------------------------------------------------------------------------
\* What resolve comes to in the end, and by which route.
Outcome(kind, bytes, via) == [kind |-> kind, bytes |-> bytes, via |-> via]
Kinds == {"Success", "IntegrityFailure", "Unreachable", "NotFound", "RootRequired",
          "Rpc", "Parse"}
Outcomes == [kind : Kinds, bytes : Bytes \cup {NoBytes},
             via : {"none", "memory", "disk", "node", "rpc"}]
=============================================================================
