---------------------------- MODULE NodeFetchProofs ----------------------------
(***************************************************************************)
(* node::fetch classifies every response of every node soundly, whatever   *)
(* headers the transport hides, and completely if it hides none.           *)
(***************************************************************************)
EXTENDS NodeFetch, TLAPS

-----------------------------------------------------------------------------
\* The operators that node.rs is built from.

LEMMA SeenTyped ==
    ASSUME NEW resp \in NodeResponses
    PROVE  /\ SeenBy(resp) \in NodeResponses
           /\ SeenBy(resp).status = resp.status
           /\ SeenBy(resp).body = resp.body
           /\ SeenBy(resp).verified => resp.verified
  <1> DEFINE seen == SeenBy(resp)
  <1>1. seen \in NodeResponses
    BY ZenonT(60) DEF SeenBy, NodeResponses
  <1>2. seen.status = resp.status /\ seen.body = resp.body
    BY DEF SeenBy, NodeResponses
  <1>3. seen.verified => resp.verified
    BY DEF SeenBy, NodeResponses
  <1> QED
    BY <1>1, <1>2, <1>3

\* What opening comes to.
LEMMA OpenedTyped ==
    ASSUME NEW u \in Urns, NEW art \in DiskArtifacts, NEW root \in Roots \cup {NoRoot, BadRoot}
    PROVE  /\ Opened(u, art, root) \in Results
           /\ Opened(u, art, root).verdict \notin {"NotFound", "Transport"}
           /\ Opened(u, art, root).verdict = "Ok" =>
                /\ VerifyAndDecrypt(u, art, root) = "Ok"
                /\ Opened(u, art, root) = Fetched(art.ciphertext.text, root, art)
                /\ art.ciphertext.text \in Authentic(u, root)
  <1>1. CASE VerifyAndDecrypt(u, art, root) = "Ok"
    <2>1. art.ciphertext \in Committed[root] /\ root \in Roots /\ art.ciphertext.key = KeyOf(u)
      BY <1>1 DEF VerifyAndDecrypt, VerifyInclusion, FoldsTo, Decrypts
    <2>2. art.ciphertext \in Ciphertexts
      BY <2>1, CryptoAssumption
    <2>3. art.ciphertext.text \in Texts
      BY <2>2, CryptoAssumption
    <2>4. art.ciphertext.text \in Authentic(u, root)
      BY <2>1 DEF Authentic
    <2> QED
      BY <1>1, <2>3, <2>4 DEF Opened, Fetched, Results, Verdicts, Bytes
  <1>2. CASE VerifyAndDecrypt(u, art, root) # "Ok"
    <2>1. VerifyAndDecrypt(u, art, root) \in {"Parse", "VerifyFailed", "DecryptFailed"}
      BY <1>2 DEF VerifyAndDecrypt
    <2> QED
      BY <1>2, <2>1 DEF Opened, Failure, Results, Verdicts
  <1> QED
    BY <1>1, <1>2

\* The ways in which a response can be classified.
Classified(u, seen, r) ==
    \/ \E v \in {"NotFound", "Transport"} : r = Failure(v) /\ seen.status # "2xx"
    \/ r = Failure("VerifyFailed")
    \/ r = Fetched(seen.body, NodeRoot(u, seen), NoArtifacts) /\ seen.verified
    \/ /\ NodeArtifacts(seen) \in DiskArtifacts
       /\ r = Opened(u, NodeArtifacts(seen), NodeRoot(u, seen))

LEMMA NodeResultClassified ==
    ASSUME NEW u \in Urns, NEW seen \in NodeResponses
    PROVE  /\ Classified(u, seen, NodeResult(u, seen))
           /\ NodeRoot(u, seen) \in Roots \cup {NoRoot, BadRoot}
  <1>1. NodeRoot(u, seen) \in Roots \cup {NoRoot, BadRoot}
    BY FetchAssumption DEF NodeRoot, NodeResponses, UrnForms
  <1> DEFINE r == NodeResult(u, seen)
  <1> SUFFICES Classified(u, seen, r)
    BY <1>1
  <1>2. CASE seen.status = "2xx" /\ ~ seen.verified /\ IsCiphertext(seen)
    <2>1. r = NodeCiphertextResult(u, seen)
      BY <1>2 DEF NodeResult
    <2> HIDE DEF r
    <2>2. CASE seen.proof = NoProof \/ NodeRoot(u, seen) = NoRoot \/ seen.chunk_lens = "malformed"
      <3>1. r = Failure("VerifyFailed")
        BY <2>1, <2>2 DEF NodeCiphertextResult
      <3> QED
        BY <3>1 DEF Classified
    <2>3. CASE ~ (seen.proof = NoProof \/ NodeRoot(u, seen) = NoRoot \/ seen.chunk_lens = "malformed")
      <3>1. NodeArtifacts(seen) \in DiskArtifacts
        BY <2>3 DEF NodeArtifacts, DiskArtifacts, NodeResponses, Bytes
      <3>2. r = Opened(u, NodeArtifacts(seen), NodeRoot(u, seen))
        BY <2>1, <2>3 DEF NodeCiphertextResult
      <3> QED
        BY <3>1, <3>2 DEF Classified
    <2> QED
      BY <2>2, <2>3
  <1>3. CASE seen.status # "2xx"
    <2>1. seen.status \in {"404", "no_answer", "other"}
      BY <1>3 DEF NodeResponses
    <2>2. r \in {Failure("NotFound"), Failure("Transport")}
      BY <2>1 DEF NodeResult
    <2> QED
      BY <1>3, <2>2 DEF Classified
  <1>4. CASE seen.status = "2xx" /\ seen.verified
    <2>1. r = Fetched(seen.body, NodeRoot(u, seen), NoArtifacts)
      BY <1>4 DEF NodeResult
    <2> QED
      BY <1>4, <2>1 DEF Classified
  <1>5. CASE seen.status = "2xx" /\ ~ seen.verified /\ ~ IsCiphertext(seen)
    <2>1. r = Failure("VerifyFailed")
      BY <1>5 DEF NodeResult
    <2> QED
      BY <2>1 DEF Classified
  <1> QED
    BY <1>2, <1>3, <1>4, <1>5

LEMMA NodeResultTyped ==
    ASSUME NEW u \in Urns, NEW seen \in NodeResponses
    PROVE  NodeResult(u, seen) \in Results
  <1>1. NodeRoot(u, seen) \in Roots \cup {NoRoot, BadRoot}
        /\ Classified(u, seen, NodeResult(u, seen))
    BY NodeResultClassified
  <1>2. \A v \in Verdicts : Failure(v) \in Results
    BY DEF Failure, Results
  <1>3. Fetched(seen.body, NodeRoot(u, seen), NoArtifacts) \in Results
    BY <1>1 DEF Fetched, Results, Verdicts, NodeResponses
  <1> QED
    BY <1>1, <1>2, <1>3, OpenedTyped DEF Classified, Verdicts

-----------------------------------------------------------------------------
\* The invariant: the result is the classification of the response.
NInv ==
    /\ asked \in Urns
    /\ \/ response = NoResponse /\ result = Pending
       \/ response \in NodeResponses /\ result = NodeResult(asked, SeenBy(response))

LEMMA NodeFetchKeeps == NInv /\ [Next]_vars => NInv'
  <1> SUFFICES ASSUME NInv, [Next]_vars PROVE NInv'
    OBVIOUS
  <1>1. ASSUME NEW resp \in NodeResponses, Receive(resp) PROVE NInv'
    BY <1>1 DEF NInv, Receive
  <1>2. CASE FetchAgain
    BY <1>2 DEF NInv, FetchAgain
  <1>3. CASE UNCHANGED vars
    BY <1>3 DEF NInv, vars
  <1> QED
    BY <1>1, <1>2, <1>3 DEF Next

THEOREM NodeFetchInvariant == Spec => []NInv
  <1>1. Init => NInv
    BY DEF Init, NInv
  <1> QED
    BY <1>1, NodeFetchKeeps, PTL DEF Spec

\* The result of node.rs fetch keeps its type.
THEOREM NodeFetchTypeCorrect == Spec => []TypeOK
  <1>1. NInv => TypeOK
    BY SeenTyped, NodeResultTyped DEF NInv, TypeOK
  <1> QED
    BY <1>1, NodeFetchInvariant, PTL

\* An answered fetch has a response that was classified.
LEMMA AnsweredClassified ==
    ASSUME NInv, Answered
    PROVE  /\ asked \in Urns /\ response \in NodeResponses
           /\ SeenBy(response) \in NodeResponses
           /\ result = NodeResult(asked, SeenBy(response))
           /\ Classified(asked, SeenBy(response), result)
           /\ NodeRoot(asked, SeenBy(response)) \in Roots \cup {NoRoot, BadRoot}
  <1>1. asked \in Urns /\ response \in NodeResponses
        /\ result = NodeResult(asked, SeenBy(response))
    BY DEF NInv, Answered
  <1> QED
    BY <1>1, SeenTyped, NodeResultClassified

\* Bytes that a node does not attest are served only after node.rs has opened them, with
\* artifacts that open again under the root they will be cached under.
THEOREM UnattestedReverifies == Spec => []UnattestedBytesReverify
  <1>1. NInv => UnattestedBytesReverify
    <2> SUFFICES ASSUME NInv, Answered, result.verdict = "Ok", ~ response.verified
                 PROVE  /\ result.artifacts # NoArtifacts
                        /\ VerifyAndDecrypt(asked, result.artifacts, result.root) = "Ok"
                        /\ result.bytes \in Authentic(asked, result.root)
      BY DEF UnattestedBytesReverify
    <2> DEFINE seen == SeenBy(response)
               art == NodeArtifacts(seen)
    <2>1. asked \in Urns /\ response \in NodeResponses /\ seen \in NodeResponses
          /\ Classified(asked, seen, result)
          /\ NodeRoot(asked, seen) \in Roots \cup {NoRoot, BadRoot}
      BY AnsweredClassified
    <2>2. ~ seen.verified
      BY <2>1, SeenTyped
    <2> HIDE DEF seen
    <2>3. art \in DiskArtifacts /\ result = Opened(asked, art, NodeRoot(asked, seen))
      BY <2>1, <2>2 DEF Classified, Failure
    <2>4. /\ VerifyAndDecrypt(asked, art, NodeRoot(asked, seen)) = "Ok"
          /\ result = Fetched(art.ciphertext.text, NodeRoot(asked, seen), art)
          /\ art.ciphertext.text \in Authentic(asked, NodeRoot(asked, seen))
      BY <2>1, <2>3, OpenedTyped
    <2> HIDE DEF art
    <2> QED
      BY <2>3, <2>4, FetchAssumption DEF Fetched
  <1> QED
    BY <1>1, NodeFetchInvariant, PTL

\* node.rs maps nothing but an HTTP status, or its lack, to absence and unreachability.
THEOREM StatusAloneFallsThrough == Spec => []OnlyStatusFallsThrough
  <1>1. NInv => OnlyStatusFallsThrough
    <2> SUFFICES ASSUME NInv, Answered, result.verdict \in {"NotFound", "Transport"}
                 PROVE  response.status # "2xx"
      BY DEF OnlyStatusFallsThrough
    <2> DEFINE seen == SeenBy(response)
    <2>1. asked \in Urns /\ response \in NodeResponses
          /\ Classified(asked, seen, result)
          /\ NodeRoot(asked, seen) \in Roots \cup {NoRoot, BadRoot}
      BY AnsweredClassified
    <2>2. seen.status = response.status
      BY <2>1, SeenTyped
    <2> HIDE DEF seen
    <2> QED
      BY <2>1, <2>2, OpenedTyped DEF Classified, Failure, Fetched
  <1> QED
    BY <1>1, NodeFetchInvariant, PTL

\* A relay that has all the client needs is served through a transport that hands on
\* every header, as native.rs does and wasm.rs does not.
THEOREM HonestRelayIsServed ==
    VisibleHeaders = HeaderNames => (Spec => []RelayedCiphertextIsServed)
  <1> SUFFICES ASSUME VisibleHeaders = HeaderNames PROVE Spec => []RelayedCiphertextIsServed
    OBVIOUS
  <1>1. NInv => RelayedCiphertextIsServed
    <2> SUFFICES ASSUME NInv, Answered, HonestRelay(asked, response)
                 PROVE  result.verdict = "Ok" /\ result.bytes = response.body.text
      BY DEF RelayedCiphertextIsServed
    <2> DEFINE art == NodeArtifacts(response)
               root == NodeRoot(asked, response)
    <2>1. asked \in Urns /\ response \in NodeResponses
          /\ result = NodeResult(asked, SeenBy(response))
      BY AnsweredClassified
    <2>2. SeenBy(response) = response
      BY <2>1 DEF SeenBy, NodeResponses, HeaderNames
    <2>3. result = Opened(asked, art, root)
      <3>1. root # NoRoot /\ IsCiphertext(response)
        BY CryptoAssumption DEF HonestRelay, IsCiphertext
      <3>2. result = NodeCiphertextResult(asked, response)
        BY <2>1, <2>2, <3>1 DEF NodeResult, HonestRelay
      <3> QED
        BY <3>1, <3>2 DEF NodeCiphertextResult, HonestRelay
    <2>4. asked.salt \notin ShortSalts
      <3>1. response.body.key \in Keys \cup {NoKey} /\ response.body.key = KeyOf(asked)
        BY CryptoAssumption DEF HonestRelay
      <3>2. asked.salt \in ShortSalts =>
                KeyOf(asked) \in [chain : Chains, resource : Resources, salt : ShortSalts]
        BY <2>1, FetchAssumption DEF KeyOf, UrnForms
      <3>3. KeyOf(asked) \in Keys => asked.salt \notin ShortSalts
        BY CryptoAssumption DEF KeyOf, Keys
      <3> QED
        BY <3>1, <3>2, <3>3, CryptoAssumption
    <2>5. VerifyAndDecrypt(asked, art, root) = "Ok"
      <3>1. response.proof # Garbled /\ response.proof.root = root
            /\ response.proof.leaf = response.body
        BY CryptoAssumption DEF HonestRelay
      <3>2. VerifyInclusion(art.ciphertext, art.proof_b64, root)
        BY <3>1 DEF HonestRelay, VerifyInclusion, FoldsTo, NodeArtifacts
      <3>3. Decrypts(asked, art.ciphertext, art.chunk_lens)
        BY DEF HonestRelay, Decrypts, NodeArtifacts
      <3> QED
        BY <2>4, <3>2, <3>3 DEF VerifyAndDecrypt
    <2> QED
      BY <2>3, <2>5 DEF Opened, Fetched, NodeArtifacts
  <1> QED
    BY <1>1, NodeFetchInvariant, PTL
=============================================================================
