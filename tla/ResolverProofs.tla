---------------------------- MODULE ResolverProofs ----------------------------
(***************************************************************************)
(* Resolver::resolve is type-correct and authentic for any number of       *)
(* instances and calls, any URNs, roots, salts and artifacts, any          *)
(* behaviour of nodes, gateway and disk, and any crashes.                  *)
(***************************************************************************)
EXTENDS ResolverProperties, TLAPS

-----------------------------------------------------------------------------
\* Gate-then-decrypt.

\* Bytes opened for a URN are bytes that the root commits to under its key.
LEMMA OpenedIsAuthentic ==
    ASSUME NEW u \in Urns, NEW art \in DiskArtifacts, NEW root,
           VerifyAndDecrypt(u, art, root) = "Ok"
    PROVE  /\ root \in Roots
           /\ art.ciphertext.text \in Texts
           /\ art.ciphertext.text \in Authentic(u, root)
           /\ art.ciphertext.text \in Published(u.resource, root)
  <1>1. VerifyInclusion(art.ciphertext, art.proof_b64, root)
        /\ Decrypts(u, art.ciphertext, art.chunk_lens)
    BY DEF VerifyAndDecrypt
  <1>2. root \in Roots /\ art.ciphertext \in Committed[root]
    BY <1>1 DEF VerifyInclusion, FoldsTo
  <1>3. art.ciphertext.key = KeyOf(u)
    BY <1>1 DEF Decrypts
  <1>4. art.ciphertext \in Ciphertexts
    BY <1>2, CryptoAssumption
  <1>5. art.ciphertext.text \in Texts
    BY <1>4, CryptoAssumption
  <1>6. KeyOf(u).resource = u.resource
    BY DEF KeyOf
  <1>7. u.salt \in Salts \cup {NoSalt}
    BY FetchAssumption DEF UrnForms, VerifyAndDecrypt
  <1>8. KeyOf(u) \in Keys
    BY <1>7, FetchAssumption DEF KeyOf, Keys, UrnForms
  <1>9. KeyOf(u) # NoKey
    BY <1>8, CryptoAssumption
  <1>10. art.ciphertext.text \in Authentic(u, root)
    BY <1>2, <1>3 DEF Authentic
  <1>11. art.ciphertext.text \in Published(u.resource, root)
    BY <1>2, <1>3, <1>6, <1>9 DEF Published
  <1> QED
    BY <1>2, <1>5, <1>10, <1>11

\* What opening artifacts comes to: a typed result, and authentic bytes if Ok.
LEMMA OpenedResult ==
    ASSUME NEW u \in Urns, NEW art \in DiskArtifacts, NEW root
    PROVE  /\ Opened(u, art, root) \in Results
           /\ Opened(u, art, root).verdict = VerifyAndDecrypt(u, art, root)
           /\ Opened(u, art, root).verdict = "Parse" => u.salt \in ShortSalts
           /\ Opened(u, art, root).verdict = "Ok" =>
                /\ root \in Roots
                /\ Opened(u, art, root).root = root
                /\ Opened(u, art, root).artifacts = art
                /\ Opened(u, art, root).bytes \in Texts
                /\ Opened(u, art, root).bytes \in Authentic(u, root)
                /\ Opened(u, art, root).bytes \in Published(u.resource, root)
  <1>0. VerifyAndDecrypt(u, art, root) = "Parse" => u.salt \in ShortSalts
    BY DEF VerifyAndDecrypt
  <1>1. CASE VerifyAndDecrypt(u, art, root) = "Ok"
    BY <1>1, OpenedIsAuthentic DEF Opened, Fetched, Results, Verdicts, Bytes
  <1>2. CASE VerifyAndDecrypt(u, art, root) # "Ok"
    <2>1. VerifyAndDecrypt(u, art, root) \in {"Parse", "VerifyFailed", "DecryptFailed"}
      BY <1>2 DEF VerifyAndDecrypt
    <2> QED
      BY <1>0, <1>2, <2>1 DEF Opened, Failure, Results, Verdicts
  <1> QED
    BY <1>1, <1>2

-----------------------------------------------------------------------------
\* What an endpoint answers.

\* The answers that the invariant can absorb for a URN on a route.
Sound(u, via, r) ==
    /\ r \in Results
    /\ r.verdict = "Parse" => u.salt \in ShortSalts
    /\ r.verdict = "Ok" =>
        /\ r.bytes \in Bytes
        /\ r.bytes \in Allowed(u, via)
        /\ r.root \in Roots => r.bytes \in Published(u.resource, r.root)
        /\ r.artifacts # NoArtifacts =>
            r.root \in Roots /\ VerifyAndDecrypt(u, r.artifacts, r.root) = "Ok"

\* A loopback node's response is sound: attested plaintext by the node's honesty,
\* anything else by verification.
LEMMA NodeAnswerIsSound ==
    ASSUME NEW u \in Urns, NEW resp \in NodeResponses, Attests(u, resp)
    PROVE  Sound(u, "node", NodeResult(u, SeenBy(resp)))
  <1> DEFINE seen == SeenBy(resp)
  <1>1. u \in UrnForms /\ u.root \in Roots \cup {NoRoot}
    BY FetchAssumption DEF UrnForms
  <1>2. seen \in NodeResponses
    BY ZenonT(60) DEF SeenBy, NodeResponses
  <1>3. seen.body = resp.body /\ (seen.verified => resp.verified)
        /\ seen.root \in {resp.root, NoRoot}
    BY DEF SeenBy, NodeResponses
  <1>4. NodeRoot(u, seen) \in Roots \cup {NoRoot, BadRoot}
    BY <1>1, <1>2 DEF NodeRoot, NodeResponses
  <1>5. NodeRoot(u, seen) \in Roots => NodeRoot(u, seen) = NodeRoot(u, resp)
    BY <1>3, CryptoAssumption DEF NodeRoot
  <1>6. Pinned(u) => u.root \in Roots /\ NodeRoot(u, seen) = u.root
    BY <1>1 DEF Pinned, NodeRoot
  <1> HIDE DEF seen
  <1>7. CASE seen.status = "2xx" /\ seen.verified
    <2> DEFINE r == Fetched(seen.body, NodeRoot(u, seen), NoArtifacts)
    <2>1. NodeResult(u, seen) = r
      BY <1>7 DEF NodeResult
    <2>2. r \in Results /\ r.bytes \in Bytes
      BY <1>2, <1>4 DEF Fetched, Results, Verdicts, NodeResponses
    <2>3. PICK root \in AttestedRoots(u, resp) : resp.body \in Published(u.resource, root)
      BY <1>3, <1>7 DEF Attests
    <2>4. NodeRoot(u, seen) \in Roots => root = NodeRoot(u, seen)
      BY <1>5, <2>3 DEF AttestedRoots
    <2>5. root \in Roots
      BY <2>3 DEF AttestedRoots
    <2>6. NodeRoot(u, seen) \in Roots => r.bytes \in Published(u.resource, NodeRoot(u, seen))
      BY <1>3, <2>3, <2>4 DEF Fetched
    <2>7. r.bytes \in Allowed(u, "node")
      <3>1. CASE Pinned(u)
        BY <1>6, <2>6, <3>1 DEF Allowed
      <3>2. CASE ~ Pinned(u)
        BY <1>3, <2>3, <2>5, <3>2 DEF Allowed, Fetched
      <3> QED
        BY <3>1, <3>2
    <2>8. r.root = NodeRoot(u, seen) /\ r.artifacts = NoArtifacts /\ r.verdict = "Ok"
      BY DEF Fetched
    <2> HIDE DEF r
    <2>9. Sound(u, "node", r)
      BY <2>2, <2>6, <2>7, <2>8 DEF Sound
    <2> QED
      BY <2>1, <2>9 DEF seen
  <1>8. ASSUME NEW art \in DiskArtifacts, NodeResult(u, seen) = Opened(u, art, NodeRoot(u, seen))
        PROVE  Sound(u, "node", NodeResult(u, seen))
    <2> DEFINE r == Opened(u, art, NodeRoot(u, seen))
    <2>1. r \in Results /\ (r.verdict = "Parse" => u.salt \in ShortSalts)
      BY OpenedResult
    <2>2. SUFFICES ASSUME r.verdict = "Ok"
                   PROVE  /\ r.bytes \in Bytes
                          /\ r.bytes \in Allowed(u, "node")
                          /\ r.root \in Roots => r.bytes \in Published(u.resource, r.root)
                          /\ r.root \in Roots
                          /\ VerifyAndDecrypt(u, r.artifacts, r.root) = "Ok"
      BY <1>8, <2>1 DEF Sound
    <2>3. /\ NodeRoot(u, seen) \in Roots
          /\ r.root = NodeRoot(u, seen)
          /\ VerifyAndDecrypt(u, r.artifacts, r.root) = "Ok"
          /\ r.bytes \in Texts
          /\ r.bytes \in Published(u.resource, NodeRoot(u, seen))
      BY <2>2, OpenedResult
    <2> HIDE DEF r
    <2>4. r.bytes \in Allowed(u, "node")
      BY <1>6, <2>3 DEF Allowed
    <2> QED
      BY <2>3, <2>4 DEF Bytes
  <1>9. ASSUME NEW v \in Verdicts \ {"Ok", "Parse"}, NodeResult(u, seen) = Failure(v)
        PROVE  Sound(u, "node", NodeResult(u, seen))
    BY <1>9 DEF Sound, Failure, Results
  <1>10. CASE seen.status = "2xx" /\ ~ seen.verified /\ IsCiphertext(seen)
    <2>1. NodeResult(u, seen) = NodeCiphertextResult(u, seen)
      BY <1>10 DEF NodeResult
    <2>2. CASE seen.proof = NoProof \/ NodeRoot(u, seen) = NoRoot
               \/ seen.chunk_lens = "malformed"
      BY <1>9, <2>1, <2>2 DEF NodeCiphertextResult, Verdicts, seen
    <2>3. CASE ~ (seen.proof = NoProof \/ NodeRoot(u, seen) = NoRoot
                  \/ seen.chunk_lens = "malformed")
      <3>1. NodeArtifacts(seen) \in DiskArtifacts
        BY <1>2, <2>3 DEF NodeArtifacts, DiskArtifacts, NodeResponses, Bytes
      <3>2. NodeResult(u, seen) = Opened(u, NodeArtifacts(seen), NodeRoot(u, seen))
        BY <2>1, <2>3 DEF NodeCiphertextResult
      <3> QED
        BY <1>8, <3>1, <3>2 DEF seen
    <2> QED
      BY <2>2, <2>3
  <1>11. CASE ~ (seen.status = "2xx" /\ (seen.verified \/ IsCiphertext(seen)))
    <2>1. \E v \in {"NotFound", "Transport", "VerifyFailed"} : NodeResult(u, seen) = Failure(v)
      BY <1>2, <1>11 DEF NodeResult, NodeResponses
    <2> QED
      BY <1>9, <2>1 DEF Verdicts, seen
  <1> QED
    BY <1>7, <1>10, <1>11

\* So is whatever the gateway answers to a URN, pinned or not.
LEMMA GatewayAnswerIsSound ==
    ASSUME NEW u \in Urns, NEW r \in AnswersTo(u, GatewayAnswers)
    PROVE  Sound(u, "rpc", r)
  <1>1. CASE \E v \in {"NotFound", "Transport", "Rpc"} : r = Failure(v)
    BY <1>1 DEF Sound, Failure, Results, Verdicts
  <1>2. ASSUME NEW art \in Wire, r = Opened(u, art, u.root) PROVE Sound(u, "rpc", r)
    <2>1. art \in DiskArtifacts
      BY FetchAssumption
    <2>2. r \in Results /\ (r.verdict = "Parse" => u.salt \in ShortSalts)
      BY <1>2, <2>1, OpenedResult
    <2>3. r.verdict = "Ok" =>
            /\ u.root \in Roots /\ r.root = u.root /\ r.bytes \in Texts
            /\ VerifyAndDecrypt(u, r.artifacts, r.root) = "Ok"
            /\ r.bytes \in Authentic(u, u.root)
            /\ r.bytes \in Published(u.resource, u.root)
      BY <1>2, <2>1, OpenedResult
    <2> QED
      BY <2>2, <2>3 DEF Sound, Allowed, Bytes
  <1>3. (\E v \in {"NotFound", "Transport", "Rpc"} : r = Failure(v))
        \/ (\E art \in Wire : r = Opened(u, art, u.root))
    BY DEF AnswersTo, GatewayAnswers
  <1> QED
    BY <1>1, <1>2, <1>3

\* Every answer the ladder can get is sound for its route.
LEMMA AnswerIsSound ==
    ASSUME NEW u \in Urns, NEW e \in Endpoints, NEW r \in Answers(e, u)
    PROVE  Sound(u, e.kind, r) /\ e.kind \in {"node", "rpc"}
  <1>1. e.kind \in {"node", "rpc"}
    BY DEF Endpoints, Node, Rpc
  <1>2. CASE r = Failure("Transport")
    BY <1>1, <1>2 DEF Sound, Failure, Results, Verdicts
  <1>3. CASE e.kind = "node" /\ r \in AnswersTo(u, NodeAnswers)
    <2>1. PICK resp \in NodeResponses : Attests(u, resp) /\ r = NodeResult(u, SeenBy(resp))
      BY <1>3 DEF AnswersTo, NodeAnswers, NodeExchanges
    <2> QED
      BY <1>1, <1>3, <2>1, NodeAnswerIsSound
  <1>4. CASE e.kind = "rpc" /\ r \in AnswersTo(u, GatewayAnswers)
    BY <1>1, <1>4, GatewayAnswerIsSound
  <1> QED
    BY <1>1, <1>2, <1>3, <1>4 DEF Answers

-----------------------------------------------------------------------------
\* The invariant.

\* The plan and the tier fit the place where the call is suspended.
Scheduled(c) ==
    /\ pc[c] = "probe" => tier[c] \in 1..Len(LocalTiers)
    /\ pc[c] = "fetch" => tier[c] \in 1..Len(plan[c])

\* A call between two file operations knows the entry that it works on.
HasEntry(c) ==
    /\ pc[c] # "idle" => urn[c] \in Urns
    /\ pc[c] \in {"drop", "write", "writing"} => got[c].root \in Roots
    /\ pc[c] \in {"write", "writing"} => got[c].artifacts \in DiskArtifacts

\* The variables of the walk through the plan.
WalkOK ==
    /\ plan_cache \in [Instances -> Plans]
    /\ pc \in [Calls -> PCs]
    /\ plan \in [Calls -> Plans]
    /\ tier \in [Calls -> {0, 1, 2}]
    /\ outcome \in [Calls -> Outcomes]
    /\ \A c \in Calls : Scheduled(c)

\* The variables of the lookups and the answers.
StoreOK ==
    /\ DOMAIN memory = Instances
    /\ \A i \in Instances : IsCache(memory[i], ContentIds, Bytes)
    /\ IsCache(disk, ContentIds, DiskArtifacts \cup {Torn})
    /\ tampered \in SUBSET ContentIds
    /\ MemoryHoldsPublished

EnvOK ==
    /\ heard \in [Calls -> Seq(Verdicts)]
    /\ up \in SUBSET Hosts
    /\ loopback \in SUBSET {DigLocal, Localhost}

EntriesOK ==
    /\ urn \in [Calls -> Urns \cup {NoUrn}]
    /\ got \in [Calls -> Results]
    /\ \A c \in Calls : HasEntry(c)

IInv == WalkOK /\ StoreOK /\ EnvOK /\ EntriesOK /\ SuccessIsAuthentic

-----------------------------------------------------------------------------
\* Walking the plan.

\* The tiers of a plan are endpoints, and there are at most two of them.
LEMMA PlanTiers ==
    ASSUME NEW p \in Plans, NEW k \in 1..Len(p)
    PROVE  p[k] \in Endpoints /\ k \in {1, 2} /\ Len(p) \in {1, 2}
  <1>1. CASE p = <<>>
    BY <1>1
  <1>2. CASE \E e \in Endpoints : p = <<e>>
    BY <1>2
  <1>3. CASE \E h \in Hosts : p = NodeFirst(h)
    <2>1. PICK h \in Hosts : p = <<Node(h), Rpc(Gateway)>>
      BY <1>3 DEF NodeFirst
    <2>2. Node(h) \in Endpoints /\ Rpc(Gateway) \in Endpoints
      BY DEF Endpoints, Hosts
    <2>3. Len(p) = 2 /\ p[1] = Node(h) /\ p[2] = Rpc(Gateway)
      BY <2>1
    <2>4. k = 1 \/ k = 2
      BY <2>3
    <2> QED
      BY <2>2, <2>3, <2>4
  <1> QED
    BY <1>1, <1>2, <1>3 DEF Plans

\* A walk in which one call moves on, as c does, while the others stay.
Moves(c) ==
    /\ \A d \in Calls \ {c} : /\ pc'[d] = pc[d] /\ plan'[d] = plan[d]
                             /\ tier'[d] = tier[d] /\ outcome'[d] = outcome[d]

\* A future that ends with a typed outcome stays scheduled.
LEMMA FinishWalks ==
    ASSUME WalkOK, NEW c \in Calls, NEW o \in Outcomes, Finish(c, o),
           UNCHANGED <<plan_cache, plan, tier>>
    PROVE  WalkOK' /\ Moves(c) /\ pc'[c] = "done" /\ outcome'[c] = o
  <1>1. pc' = [pc EXCEPT ![c] = "done"] /\ outcome' = [outcome EXCEPT ![c] = o]
    BY DEF Finish
  <1>2. pc' \in [Calls -> PCs] /\ outcome' \in [Calls -> Outcomes]
    BY <1>1 DEF WalkOK, PCs
  <1>3. Moves(c) /\ pc'[c] = "done" /\ outcome'[c] = o
    BY <1>1 DEF WalkOK, Moves
  <1>4. \A d \in Calls : Scheduled(d)'
    BY <1>3 DEF WalkOK, Moves, Scheduled
  <1> QED
    BY <1>2, <1>3, <1>4 DEF WalkOK

\* The call goes on without success: it waits again, or it ends in another outcome.
GoesOn(c) ==
    /\ Moves(c)
    /\ pc'[c] \in {"probe", "fetch", "done"}
    /\ pc'[c] = "done" => outcome'[c].kind # "Success"

\* Outcomes that carry no bytes are typed, and no success.
LEMMA EmptyOutcome ==
    ASSUME NEW kind \in Kinds, NEW via \in {"none", "memory", "disk", "node", "rpc"}
    PROVE  /\ Outcome(kind, NoBytes, via) \in Outcomes
           /\ Outcome(kind, NoBytes, via).kind = kind
  BY DEF Outcome, Outcomes

\* Asking a tier of a plan.
LEMMA StartTierWalks ==
    ASSUME WalkOK, NEW c \in Calls, NEW u, NEW p \in Plans, NEW k \in 1..Len(p),
           StartTier(c, u, p, k), plan_cache' \in [Instances -> Plans]
    PROVE  WalkOK' /\ GoesOn(c)
  <1>1. plan' = [plan EXCEPT ![c] = p] /\ tier' = [tier EXCEPT ![c] = k]
    BY DEF StartTier
  <1>2. k \in {1, 2}
    BY PlanTiers
  <1>3. plan' \in [Calls -> Plans] /\ tier' \in [Calls -> {0, 1, 2}]
    BY <1>1, <1>2 DEF WalkOK
  <1>4. plan'[c] = p /\ tier'[c] = k
    BY <1>1 DEF WalkOK
  <1>5. CASE Finish(c, Outcome("RootRequired", NoBytes, "none"))
    <2> DEFINE o == Outcome("RootRequired", NoBytes, "none")
    <2>1. o \in Outcomes /\ o.kind # "Success"
      BY EmptyOutcome DEF Kinds
    <2> HIDE DEF o
    <2>2. pc' = [pc EXCEPT ![c] = "done"] /\ outcome' = [outcome EXCEPT ![c] = o]
      BY <1>5 DEF Finish, o
    <2>3. pc' \in [Calls -> PCs] /\ outcome' \in [Calls -> Outcomes]
      BY <2>1, <2>2 DEF WalkOK, PCs
    <2>4. Moves(c) /\ pc'[c] = "done" /\ outcome'[c] = o
      BY <1>1, <2>2 DEF WalkOK, Moves
    <2>5. \A d \in Calls : Scheduled(d)'
      BY <2>4 DEF WalkOK, Moves, Scheduled
    <2> QED
      BY <1>3, <2>1, <2>3, <2>4, <2>5 DEF WalkOK, GoesOn
  <1>6. CASE pc' = [pc EXCEPT ![c] = "fetch"] /\ outcome' = outcome
    <2>1. pc' \in [Calls -> PCs] /\ outcome' \in [Calls -> Outcomes]
      BY <1>6 DEF WalkOK, PCs
    <2>2. Moves(c) /\ pc'[c] = "fetch"
      BY <1>1, <1>6 DEF WalkOK, Moves
    <2>3. \A d \in Calls : Scheduled(d)'
      BY <1>4, <2>2 DEF WalkOK, Moves, Scheduled
    <2> QED
      BY <1>3, <2>1, <2>2, <2>3 DEF WalkOK, GoesOn
  <1> QED
    BY <1>5, <1>6 DEF StartTier

\* Adopting a plan that is not empty.
LEMMA AdoptPlanWalks ==
    ASSUME WalkOK, NEW c \in Calls, NEW u, NEW p \in Plans, 1 \in 1..Len(p),
           AdoptPlan(c, u, p)
    PROVE  WalkOK' /\ GoesOn(c)
  <1>1. plan_cache' \in [Instances -> Plans]
    BY ResolverAssumption DEF AdoptPlan, WalkOK
  <1> QED
    BY <1>1, StartTierWalks DEF AdoptPlan

\* The plans that are adopted are plans of one or two tiers.
LEMMA PlansBuilt ==
    /\ GatewayOnly \in Plans /\ 1 \in 1..Len(GatewayOnly)
    /\ \A h \in Hosts : NodeFirst(h) \in Plans /\ 1 \in 1..Len(NodeFirst(h))
    /\ \A h \in Hosts : <<Classify(h)>> \in Plans /\ 1 \in 1..Len(<<Classify(h)>>)
  <1>1. Rpc(Gateway) \in Endpoints
    BY DEF Endpoints, Hosts
  <1>2. GatewayOnly \in Plans /\ 1 \in 1..Len(GatewayOnly)
    BY <1>1 DEF GatewayOnly, Plans
  <1>3. ASSUME NEW h \in Hosts
        PROVE  NodeFirst(h) \in Plans /\ 1 \in 1..Len(NodeFirst(h))
    <2>1. Len(NodeFirst(h)) = 2
      BY DEF NodeFirst
    <2> QED
      BY <2>1 DEF Plans
  <1>4. ASSUME NEW h \in Hosts
        PROVE  <<Classify(h)>> \in Plans /\ 1 \in 1..Len(<<Classify(h)>>)
    <2>1. Classify(h) \in Endpoints
      BY DEF Classify, Endpoints
    <2> QED
      BY <2>1 DEF Plans
  <1> QED
    BY <1>2, <1>3, <1>4

\* Building a plan, probe by probe.
LEMMA ProbeFromWalks ==
    ASSUME WalkOK, NEW c \in Calls, NEW u, NEW k \in 1..3, ProbeFrom(c, u, k)
    PROVE  WalkOK' /\ GoesOn(c)
  <1>1. Len(LocalTiers) = 2
    BY DEF LocalTiers
  <1>2. ASSUME NEW j \in 1..2,
               pc' = [pc EXCEPT ![c] = "probe"],
               tier' = [tier EXCEPT ![c] = j],
               UNCHANGED <<plan_cache, plan, outcome>>
        PROVE  WalkOK' /\ GoesOn(c)
    <2>1. pc' \in [Calls -> PCs] /\ tier' \in [Calls -> {0, 1, 2}]
      BY <1>2 DEF WalkOK, PCs
    <2>2. Moves(c) /\ pc'[c] = "probe" /\ tier'[c] = j
      BY <1>2 DEF WalkOK, Moves
    <2>3. \A d \in Calls : Scheduled(d)'
      BY <1>1, <2>2 DEF WalkOK, Moves, Scheduled
    <2> QED
      BY <1>2, <2>1, <2>2, <2>3 DEF WalkOK, GoesOn
  <1>3. CASE AdoptPlan(c, u, GatewayOnly)
    BY <1>3, AdoptPlanWalks, PlansBuilt
  <1> QED
    BY <1>1, <1>2, <1>3 DEF ProbeFrom

\* Resolver::plan, up to its first await.
LEMMA BeginPlanWalks ==
    ASSUME WalkOK, NEW c \in Calls, NEW u, BeginPlan(c, u)
    PROVE  WalkOK' /\ GoesOn(c)
  <1> DEFINE i == Owner[c]
  <1>1. i \in Instances
    BY ResolverAssumption
  <1>2. CASE plan_cache[i] # <<>> /\ StartTier(c, u, plan_cache[i], 1) /\ UNCHANGED plan_cache
    <2>1. plan_cache[i] \in Plans
      BY <1>1 DEF WalkOK
    <2>2. 1 \in 1..Len(plan_cache[i])
      BY <1>2, <2>1, PlansBuilt DEF Plans
    <2> QED
      BY <1>2, <2>1, <2>2, StartTierWalks DEF WalkOK
  <1>3. CASE Override[i] # NoOverride /\ AdoptPlan(c, u, <<Classify(Override[i])>>)
    <2>1. Override[i] \in Hosts
      BY <1>1, <1>3, ResolverAssumption DEF Hosts
    <2> QED
      BY <1>3, <2>1, AdoptPlanWalks, PlansBuilt
  <1>4. CASE ProbeFrom(c, u, 1)
    BY <1>4, ProbeFromWalks
  <1> QED
    BY <1>2, <1>3, <1>4 DEF BeginPlan

\* A tier that fails ends the walk or moves it to the next tier.
LEMMA TierFailsWalks ==
    ASSUME WalkOK, NEW c \in Calls, pc[c] = "fetch", NEW verdict,
           TierFails(c, verdict), UNCHANGED plan_cache
    PROVE  WalkOK' /\ GoesOn(c)
  <1>1. plan[c] \in Plans /\ tier[c] \in 1..Len(plan[c])
    BY DEF WalkOK, Scheduled
  <1>2. plan[c][tier[c]].kind \in {"node", "rpc"}
    BY <1>1, PlanTiers DEF Endpoints, Node, Rpc
  <1>3. ASSUME NEW kind \in Kinds \ {"Success"}, Stop(c, kind)
        PROVE  WalkOK' /\ GoesOn(c)
    <2> DEFINE o == Outcome(kind, NoBytes, plan[c][tier[c]].kind)
    <2>1. o \in Outcomes /\ o.kind # "Success"
      BY <1>2, EmptyOutcome
    <2>2. Finish(c, o) /\ UNCHANGED <<plan_cache, plan, tier>>
      BY <1>3 DEF Stop
    <2> HIDE DEF o
    <2> QED
      BY <2>1, <2>2, FinishWalks DEF GoesOn
  <1>4. CASE ~ LastTier(c) /\ NextTier(c)
    <2>1. tier[c] + 1 \in 1..Len(plan[c])
      BY <1>1, <1>4, PlanTiers DEF LastTier
    <2> QED
      BY <1>1, <1>4, <2>1, StartTierWalks DEF NextTier, WalkOK
  <1> QED
    BY <1>3, <1>4 DEF TierFails, Kinds

-----------------------------------------------------------------------------
\* Lookups, answers and files.

\* The identity of a URN under a concrete root.
LEMMA IdentityTyped ==
    ASSUME NEW u \in Urns, NEW root \in Roots \cup {BadRoot}
    PROVE  /\ ContentId(u, root) \in ContentIds
           /\ ContentId(u, root).root = root
           /\ ContentId(u, root).resource = u.resource
  BY FetchAssumption DEF ContentId, ContentIds, UrnForms

\* A put of published bytes keeps every memory cache in order.
LEMMA PutKeepsStore ==
    ASSUME StoreOK, NEW i \in Instances, NEW id \in ContentIds, NEW data \in Bytes,
           id.root \in Roots => data \in Published(id.resource, id.root),
           NEW m \in Puts(memory[i], id, data), memory' = [memory EXCEPT ![i] = m],
           UNCHANGED <<disk, tampered>>
    PROVE  StoreOK'
  <1>1. IsCache(memory[i], ContentIds, Bytes)
    BY DEF StoreOK
  <1>2. m = memory[i] \/ \E kept \in SUBSET DOMAIN memory[i] :
            m = [k \in kept \cup {id} |-> IF k = id THEN data ELSE memory[i][k]]
    BY DEF Puts
  <1>3. IsCache(m, ContentIds, Bytes)
    BY <1>1, <1>2 DEF IsCache
  <1>4. \A k \in DOMAIN m : k.root \in Roots => m[k] \in Published(k.resource, k.root)
    BY <1>2 DEF StoreOK, MemoryHoldsPublished
  <1>5. DOMAIN memory' = Instances
        /\ \A j \in Instances : memory'[j] = IF j = i THEN m ELSE memory[j]
    BY DEF StoreOK
  <1>6. \A j \in Instances : IsCache(memory'[j], ContentIds, Bytes)
    BY <1>3, <1>5 DEF StoreOK
  <1>7. MemoryHoldsPublished'
    BY <1>4, <1>5 DEF StoreOK, MemoryHoldsPublished
  <1> QED
    BY <1>5, <1>6, <1>7 DEF StoreOK

\* Writing or removing a file keeps the directory in order.
LEMMA FileKeepsStore ==
    ASSUME StoreOK, NEW id \in ContentIds, UNCHANGED memory,
           \/ \E file \in DiskArtifacts \cup {Torn} :
                disk' = [k \in DOMAIN disk \cup {id} |-> IF k = id THEN file ELSE disk[k]]
           \/ disk' = [k \in DOMAIN disk \ {id} |-> disk[k]]
           \/ disk' = disk,
           tampered' \in {tampered, tampered \ {id}, tampered \cup {id}}
    PROVE  StoreOK'
  <1>1. IsCache(disk', ContentIds, DiskArtifacts \cup {Torn})
    BY DEF StoreOK, IsCache
  <1>2. tampered' \in SUBSET ContentIds
    BY DEF StoreOK
  <1>3. MemoryHoldsPublished'
    BY DEF StoreOK, MemoryHoldsPublished
  <1> QED
    BY <1>1, <1>2, <1>3 DEF StoreOK

\* Authenticity is kept if the one call that moves has authentic bytes.
LEMMA StaysAuthentic ==
    ASSUME SuccessIsAuthentic, NEW c \in Calls, Moves(c),
           \A d \in Calls \ {c} : urn'[d] = urn[d],
           pc'[c] \in {"write", "writing", "done"} /\ outcome'[c].kind = "Success" =>
                outcome'[c].bytes \in Allowed(urn'[c], outcome'[c].via)
    PROVE  SuccessIsAuthentic'
  BY DEF SuccessIsAuthentic, Moves

\* The entries of the calls that do not move stay as they are.
LEMMA EntriesKept ==
    ASSUME EntriesOK, NEW c \in Calls, Moves(c),
           urn' \in [Calls -> Urns \cup {NoUrn}], got' \in [Calls -> Results],
           \A d \in Calls \ {c} : urn'[d] = urn[d] /\ got'[d] = got[d],
           HasEntry(c)'
    PROVE  EntriesOK'
  BY DEF EntriesOK, HasEntry, Moves

\* A start of a call that finds no other state to change.
LEMMA StartCallKeeps ==
    ASSUME IInv, NEW c \in Calls, NEW u \in Urns, StartCall(c, u)
    PROVE  /\ EnvOK'
           /\ urn' \in [Calls -> Urns \cup {NoUrn}]
           /\ urn'[c] = u /\ \A d \in Calls \ {c} : urn'[d] = urn[d]
           /\ UNCHANGED <<disk, tampered>>
  <1>1. urn' = [urn EXCEPT ![c] = u] /\ urn \in [Calls -> Urns \cup {NoUrn}]
    BY DEF StartCall, IInv, EntriesOK
  <1>2. UNCHANGED <<heard, up, loopback>>
    BY DEF StartCall, envVars
  <1>3. EnvOK'
    BY <1>2 DEF IInv, EnvOK
  <1> QED
    BY <1>1, <1>3 DEF StartCall, envVars

-----------------------------------------------------------------------------
\* The actions, one by one.

\* A memory hit returns what memory holds, and memory holds published bytes.
LEMMA ResolveFromMemoryKeeps ==
    ASSUME IInv, NEW c \in Calls, NEW u \in Urns, ResolveFromMemory(c, u)
    PROVE  IInv'
  <1> DEFINE i == Owner[c]
             id == ContentId(u, u.root)
             o == Outcome("Success", memory[i][id], "memory")
  <1>1. i \in Instances
    BY ResolverAssumption
  <1>2. Pinned(u) /\ id \in DOMAIN memory[i] /\ u.root \in Roots
    BY FetchAssumption DEF ResolveFromMemory, MemoryHit, Pinned, UrnForms
  <1>3. id.root = u.root /\ id.resource = u.resource
    BY <1>2, IdentityTyped
  <1>4. memory[i][id] \in Bytes /\ memory[i][id] \in Published(u.resource, u.root)
    BY <1>1, <1>2, <1>3 DEF IInv, StoreOK, IsCache, MemoryHoldsPublished
  <1>5. o \in Outcomes /\ o.kind = "Success" /\ o.via = "memory" /\ o.bytes = memory[i][id]
    BY <1>4 DEF Outcome, Outcomes, Kinds
  <1>6. Finish(c, o) /\ UNCHANGED <<plan_cache, memory, plan, tier, got>>
    BY DEF ResolveFromMemory
  <1> HIDE DEF o
  <1>7. WalkOK' /\ Moves(c) /\ pc'[c] = "done" /\ outcome'[c] = o
    BY <1>5, <1>6, FinishWalks DEF IInv
  <1>8. /\ EnvOK'
        /\ urn' \in [Calls -> Urns \cup {NoUrn}]
        /\ urn'[c] = u /\ \A d \in Calls \ {c} : urn'[d] = urn[d]
        /\ UNCHANGED <<disk, tampered>>
    BY StartCallKeeps DEF ResolveFromMemory
  <1>9. EntriesOK'
    BY <1>6, <1>7, <1>8, EntriesKept DEF IInv, EntriesOK, HasEntry
  <1>10. StoreOK'
    BY <1>6, <1>8 DEF IInv, StoreOK, MemoryHoldsPublished
  <1>11. o.bytes \in Allowed(u, "memory")
    BY <1>2, <1>4, <1>5 DEF Allowed
  <1>12. SuccessIsAuthentic'
    BY <1>5, <1>7, <1>8, <1>11, StaysAuthentic DEF IInv
  <1> QED
    BY <1>7, <1>8, <1>9, <1>10, <1>12 DEF IInv

\* A disk hit is a typed entry, opened against the URN's own root.
LEMMA DiskHitOpens ==
    ASSUME IInv, NEW i \in Instances, NEW u \in Urns, DiskHit(i, u)
    PROVE  /\ u.root \in Roots
           /\ DiskResult(u) \in Results
           /\ DiskResult(u).verdict = "Ok" =>
                /\ DiskResult(u).bytes \in Texts
                /\ DiskResult(u).bytes \in Authentic(u, u.root)
                /\ DiskResult(u).bytes \in Published(u.resource, u.root)
  <1>1. u.root \in Roots
    BY FetchAssumption DEF DiskHit, Pinned, UrnForms
  <1>2. disk[ContentId(u, u.root)] \in DiskArtifacts
    BY DEF DiskHit, OnDisk, IInv, StoreOK, IsCache
  <1> QED
    BY <1>1, <1>2, OpenedResult DEF DiskResult

\* A disk hit that verifies is authentic, and so is what it leaves in memory.
LEMMA ResolveFromDiskKeeps ==
    ASSUME IInv, NEW c \in Calls, NEW u \in Urns, ResolveFromDisk(c, u)
    PROVE  IInv'
  <1> DEFINE i == Owner[c]
             id == ContentId(u, u.root)
             r == DiskResult(u)
             o == Outcome("Success", r.bytes, "disk")
  <1>1. i \in Instances
    BY ResolverAssumption
  <1>2. /\ u.root \in Roots
        /\ r.bytes \in Texts
        /\ r.bytes \in Authentic(u, u.root)
        /\ r.bytes \in Published(u.resource, u.root)
    BY <1>1, DiskHitOpens DEF ResolveFromDisk
  <1>3. id \in ContentIds /\ id.root = u.root /\ id.resource = u.resource
    BY <1>2, IdentityTyped
  <1>4. PICK m \in Puts(memory[i], id, r.bytes) : memory' = [memory EXCEPT ![i] = m]
    BY DEF ResolveFromDisk
  <1>5. Finish(c, o) /\ UNCHANGED <<plan_cache, plan, tier, got>>
    BY DEF ResolveFromDisk
  <1>6. /\ EnvOK'
        /\ urn' \in [Calls -> Urns \cup {NoUrn}]
        /\ urn'[c] = u /\ \A d \in Calls \ {c} : urn'[d] = urn[d]
        /\ UNCHANGED <<disk, tampered>>
    BY StartCallKeeps DEF ResolveFromDisk
  <1> HIDE DEF r, id
  <1>7. o \in Outcomes /\ o.kind = "Success" /\ o.via = "disk" /\ o.bytes = r.bytes
    BY <1>2 DEF Outcome, Outcomes, Kinds, Bytes
  <1> HIDE DEF o
  <1>8. WalkOK' /\ Moves(c) /\ pc'[c] = "done" /\ outcome'[c] = o
    BY <1>5, <1>7, FinishWalks DEF IInv
  <1>9. StoreOK'
    BY <1>1, <1>2, <1>3, <1>4, <1>6, PutKeepsStore DEF IInv, Bytes
  <1>10. EntriesOK'
    BY <1>5, <1>6, <1>8, EntriesKept DEF IInv, EntriesOK, HasEntry
  <1>11. o.bytes \in Allowed(u, "disk")
    BY <1>2, <1>7 DEF Allowed
  <1>12. SuccessIsAuthentic'
    BY <1>6, <1>7, <1>8, <1>11, StaysAuthentic DEF IInv
  <1> QED
    BY <1>6, <1>8, <1>9, <1>10, <1>12 DEF IInv

\* A refused disk entry leaves its identity behind, to be removed.
LEMMA ResolveRefusesDiskKeeps ==
    ASSUME IInv, NEW c \in Calls, NEW u \in Urns, ResolveRefusesDisk(c, u)
    PROVE  IInv'
  <1>1. Owner[c] \in Instances
    BY ResolverAssumption
  <1>2. u.root \in Roots /\ DiskResult(u) \in Results
    BY <1>1, DiskHitOpens DEF ResolveRefusesDisk
  <1>3. Refused(u) \in Results /\ Refused(u).root = u.root
    BY <1>2 DEF Refused, Results
  <1>4. /\ EnvOK'
        /\ urn' \in [Calls -> Urns \cup {NoUrn}]
        /\ urn'[c] = u /\ \A d \in Calls \ {c} : urn'[d] = urn[d]
        /\ UNCHANGED <<disk, tampered>>
    BY StartCallKeeps DEF ResolveRefusesDisk
  <1>5. /\ got' = [got EXCEPT ![c] = Refused(u)]
        /\ pc' = [pc EXCEPT ![c] = "drop"]
        /\ UNCHANGED <<plan_cache, memory, plan, tier, outcome>>
    BY DEF ResolveRefusesDisk
  <1>6. Moves(c) /\ pc'[c] = "drop" /\ pc' \in [Calls -> PCs]
    BY <1>5 DEF IInv, WalkOK, Moves, PCs
  <1>7. WalkOK'
    <2>1. \A d \in Calls : Scheduled(d)'
      BY <1>5, <1>6 DEF IInv, WalkOK, Moves, Scheduled
    <2> QED
      BY <1>5, <1>6, <2>1 DEF IInv, WalkOK
  <1>8. got' \in [Calls -> Results] /\ got'[c].root \in Roots
        /\ \A d \in Calls \ {c} : got'[d] = got[d]
    BY <1>2, <1>3, <1>5 DEF IInv, EntriesOK
  <1>9. EntriesOK'
    BY <1>4, <1>6, <1>8, EntriesKept DEF IInv, HasEntry
  <1>10. StoreOK'
    BY <1>4, <1>5 DEF IInv, StoreOK, MemoryHoldsPublished
  <1>11. SuccessIsAuthentic'
    BY <1>4, <1>6, StaysAuthentic DEF IInv
  <1> QED
    BY <1>4, <1>7, <1>9, <1>10, <1>11 DEF IInv

\* A call that goes on without success, on any walk, keeps everything else.
LEMMA GoingOnKeeps ==
    ASSUME IInv, NEW c \in Calls, WalkOK', GoesOn(c),
           urn' \in [Calls -> Urns \cup {NoUrn}], urn'[c] \in Urns,
           \A d \in Calls \ {c} : urn'[d] = urn[d], UNCHANGED got
    PROVE  EntriesOK' /\ SuccessIsAuthentic'
  <1>1. Moves(c) /\ pc'[c] \in {"probe", "fetch", "done"}
        /\ (pc'[c] = "done" => outcome'[c].kind # "Success")
    BY DEF GoesOn
  <1>2. HasEntry(c)'
    BY <1>1 DEF HasEntry
  <1>3. EntriesOK'
    BY <1>1, <1>2, EntriesKept DEF IInv, EntriesOK
  <1>4. SuccessIsAuthentic'
    BY <1>1, StaysAuthentic DEF IInv
  <1> QED
    BY <1>3, <1>4

LEMMA ResolveMissesKeeps ==
    ASSUME IInv, NEW c \in Calls, NEW u \in Urns, ResolveMisses(c, u)
    PROVE  IInv'
  <1>1. /\ EnvOK'
        /\ urn' \in [Calls -> Urns \cup {NoUrn}]
        /\ urn'[c] = u /\ \A d \in Calls \ {c} : urn'[d] = urn[d]
        /\ UNCHANGED <<disk, tampered>>
    BY StartCallKeeps DEF ResolveMisses
  <1>2. BeginPlan(c, u) /\ UNCHANGED <<memory, got>>
    BY DEF ResolveMisses
  <1>3. WalkOK' /\ GoesOn(c)
    BY <1>2, BeginPlanWalks DEF IInv
  <1>4. EntriesOK' /\ SuccessIsAuthentic'
    BY <1>1, <1>2, <1>3, GoingOnKeeps
  <1>5. StoreOK'
    BY <1>1, <1>2 DEF IInv, StoreOK, MemoryHoldsPublished
  <1> QED
    BY <1>1, <1>3, <1>4, <1>5 DEF IInv

\* Dropping a refused entry ends the call or sends it to the plan.
LEMMA DropEntryKeeps ==
    ASSUME IInv, NEW c \in Calls, DropEntry(c)
    PROVE  IInv'
  <1>1. pc[c] = "drop" /\ urn[c] \in Urns /\ got[c].root \in Roots
    BY DEF DropEntry, IInv, EntriesOK, HasEntry
  <1>2. Id(c) \in ContentIds
    BY <1>1, IdentityTyped DEF Id
  <1>3. UNCHANGED <<memory, urn, got, heard, up, loopback>>
    BY DEF DropEntry
  <1>4. StoreOK'
    <2>1. \/ disk' = [k \in DOMAIN disk \ {Id(c)} |-> disk[k]]
             /\ tampered' = tampered \ {Id(c)}
          \/ disk' = disk /\ tampered' = tampered
      BY DEF DropEntry
    <2> QED
      BY <1>2, <1>3, <2>1, FileKeepsStore DEF IInv
  <1>5. WalkOK' /\ GoesOn(c)
    <2> DEFINE o == Outcome("IntegrityFailure", NoBytes, "disk")
    <2>1. o \in Outcomes /\ o.kind # "Success"
      BY EmptyOutcome DEF Kinds
    <2>2. CASE Finish(c, o) /\ UNCHANGED <<plan_cache, plan, tier>>
      <3> HIDE DEF o
      <3> QED
        BY <2>1, <2>2, FinishWalks DEF IInv, GoesOn
    <2>3. CASE BeginPlan(c, urn[c])
      BY <2>3, BeginPlanWalks DEF IInv
    <2> QED
      BY <2>2, <2>3 DEF DropEntry
  <1>6. EntriesOK' /\ SuccessIsAuthentic'
    <2>1. urn' \in [Calls -> Urns \cup {NoUrn}] /\ urn'[c] \in Urns
          /\ \A d \in Calls \ {c} : urn'[d] = urn[d]
      BY <1>1, <1>3 DEF IInv, EntriesOK
    <2> QED
      BY <1>3, <1>5, <2>1, GoingOnKeeps
  <1>7. EnvOK'
    BY <1>3 DEF IInv, EnvOK
  <1> QED
    BY <1>4, <1>5, <1>6, <1>7 DEF IInv

\* A probe adopts a plan or goes on to the next probe.
LEMMA ProbeAnswersKeeps ==
    ASSUME IInv, NEW c \in Calls, ProbeAnswers(c)
    PROVE  IInv'
  <1>1. pc[c] = "probe" /\ urn[c] \in Urns /\ tier[c] \in 1..2
    BY DEF ProbeAnswers, IInv, WalkOK, EntriesOK, HasEntry, Scheduled, LocalTiers
  <1>2. UNCHANGED <<memory, disk, urn, got, heard, up, loopback, tampered>>
    BY DEF ProbeAnswers, envVars
  <1>3. WalkOK' /\ GoesOn(c)
    <2>1. CASE AdoptPlan(c, urn[c], NodeFirst(LocalTiers[tier[c]]))
      <3>1. LocalTiers[tier[c]] \in Hosts
        BY <1>1 DEF LocalTiers, Hosts
      <3> QED
        BY <2>1, <3>1, PlansBuilt, AdoptPlanWalks DEF IInv
    <2>2. CASE ProbeFrom(c, urn[c], tier[c] + 1)
      <3>1. tier[c] + 1 \in 1..3
        BY <1>1
      <3> QED
        BY <2>2, <3>1, ProbeFromWalks DEF IInv
    <2> QED
      BY <2>1, <2>2 DEF ProbeAnswers
  <1>4. EntriesOK' /\ SuccessIsAuthentic'
    <2>1. urn' \in [Calls -> Urns \cup {NoUrn}] /\ urn'[c] \in Urns
          /\ \A d \in Calls \ {c} : urn'[d] = urn[d]
      BY <1>1, <1>2 DEF IInv, EntriesOK
    <2> QED
      BY <1>2, <1>3, <2>1, GoingOnKeeps
  <1>5. EnvOK'
    BY <1>2 DEF IInv, EnvOK
  <1>6. StoreOK'
    BY <1>2 DEF IInv, StoreOK, MemoryHoldsPublished
  <1> QED
    BY <1>3, <1>4, <1>5, <1>6 DEF IInv

\* A sound answer is served, kept in memory and, if it can be verified again, on
\* its way to the disk.
LEMMA CacheSuccessKeeps ==
    ASSUME IInv, NEW c \in Calls, pc[c] = "fetch", NEW r,
           Sound(urn[c], plan[c][tier[c]].kind, r), r.verdict = "Ok",
           plan[c][tier[c]].kind \in {"node", "rpc"},
           CacheSuccess(c, r), UNCHANGED <<plan_cache, plan, tier, disk, urn, tampered>>
    PROVE  WalkOK' /\ StoreOK' /\ EntriesOK' /\ SuccessIsAuthentic'
  <1> DEFINE i == Owner[c]
             id == ContentId(urn[c], r.root)
             via == plan[c][tier[c]].kind
             o == Outcome("Success", r.bytes, via)
  <1>1. i \in Instances /\ urn[c] \in Urns
    BY ResolverAssumption DEF IInv, EntriesOK, HasEntry
  <1>2. /\ r \in Results /\ r.bytes \in Bytes
        /\ r.bytes \in Allowed(urn[c], via)
        /\ r.root \in Roots => r.bytes \in Published(urn[c].resource, r.root)
        /\ r.artifacts # NoArtifacts => r.root \in Roots
    BY DEF Sound
  <1>3. o \in Outcomes /\ o.kind = "Success" /\ o.via = via /\ o.bytes = r.bytes
    BY <1>2 DEF Outcome, Outcomes, Kinds
  <1>4. StoreOK'
    <2>1. CASE r.root = NoRoot
      <3>1. UNCHANGED memory
        BY <2>1 DEF CacheSuccess
      <3> QED
        BY <3>1 DEF IInv, StoreOK, MemoryHoldsPublished
    <2>2. CASE r.root # NoRoot
      <3>1. r.root \in Roots \cup {BadRoot}
        BY <1>2, <2>2 DEF Results
      <3>2. id \in ContentIds /\ id.root = r.root /\ id.resource = urn[c].resource
        BY <1>1, <3>1, IdentityTyped
      <3>3. PICK m \in Puts(memory[i], id, r.bytes) : memory' = [memory EXCEPT ![i] = m]
        BY <2>2 DEF CacheSuccess
      <3> HIDE DEF id
      <3> QED
        BY <1>1, <1>2, <3>2, <3>3, PutKeepsStore DEF IInv
    <2> QED
      BY <2>1, <2>2
  <1> HIDE DEF o, via
  <1>5. CASE Finish(c, o) /\ UNCHANGED got
    <2>1. WalkOK' /\ Moves(c) /\ pc'[c] = "done" /\ outcome'[c] = o
      BY <1>3, <1>5, FinishWalks DEF IInv
    <2>2. EntriesOK'
      BY <1>1, <1>5, <2>1, EntriesKept DEF IInv, EntriesOK, HasEntry
    <2>3. SuccessIsAuthentic'
      BY <1>2, <1>3, <2>1, StaysAuthentic DEF IInv
    <2> QED
      BY <1>4, <2>1, <2>2, <2>3
  <1>6. CASE /\ r.artifacts # NoArtifacts
             /\ pc' = [pc EXCEPT ![c] = "write"]
             /\ got' = [got EXCEPT ![c] = r]
             /\ outcome' = [outcome EXCEPT ![c] = o]
    <2>1. pc' \in [Calls -> PCs] /\ outcome' \in [Calls -> Outcomes]
      BY <1>3, <1>6 DEF IInv, WalkOK, PCs
    <2>2. Moves(c) /\ pc'[c] = "write" /\ outcome'[c] = o
      BY <1>6 DEF IInv, WalkOK, Moves
    <2>3. \A d \in Calls : Scheduled(d)'
      BY <2>2 DEF IInv, WalkOK, Moves, Scheduled
    <2>4. WalkOK'
      BY <2>1, <2>3 DEF IInv, WalkOK
    <2>5. got' \in [Calls -> Results] /\ got'[c] = r
          /\ \A d \in Calls \ {c} : got'[d] = got[d]
      BY <1>2, <1>6 DEF IInv, EntriesOK
    <2>6. r.root \in Roots /\ r.artifacts \in DiskArtifacts
      BY <1>2, <1>6 DEF Results
    <2>7. HasEntry(c)'
      BY <1>1, <2>2, <2>5, <2>6 DEF HasEntry
    <2>8. EntriesOK'
      BY <2>2, <2>5, <2>7, EntriesKept DEF IInv, EntriesOK
    <2>9. SuccessIsAuthentic'
      BY <1>2, <1>3, <2>2, StaysAuthentic DEF IInv
    <2> QED
      BY <1>4, <2>4, <2>8, <2>9
  <1> QED
    BY <1>5, <1>6 DEF CacheSuccess, o, via

\* An answer from any endpoint, and what becomes of it.
LEMMA FetchAnswersKeeps ==
    ASSUME IInv, NEW c \in Calls, FetchAnswers(c)
    PROVE  IInv'
  <1>1. pc[c] = "fetch" /\ urn[c] \in Urns
        /\ UNCHANGED <<plan_cache, disk, urn, up, loopback, tampered>>
    BY DEF FetchAnswers, envVars, IInv, EntriesOK, HasEntry
  <1>2. plan[c][tier[c]] \in Endpoints
    BY <1>1, PlanTiers DEF IInv, WalkOK, Scheduled
  <1>3. PICK r \in Answers(plan[c][tier[c]], urn[c]) :
            /\ heard' = [heard EXCEPT ![c] = Append(@, r.verdict)]
            /\ \/ r.verdict = "Ok" /\ CacheSuccess(c, r) /\ UNCHANGED <<plan, tier>>
               \/ r.verdict # "Ok" /\ TierFails(c, r.verdict) /\ UNCHANGED <<memory, got>>
    BY DEF FetchAnswers
  <1>4. Sound(urn[c], plan[c][tier[c]].kind, r) /\ plan[c][tier[c]].kind \in {"node", "rpc"}
    BY <1>1, <1>2, AnswerIsSound
  <1>5. EnvOK'
    <2>1. r.verdict \in Verdicts
      BY <1>4 DEF Sound, Results
    <2>2. heard' \in [Calls -> Seq(Verdicts)]
      BY <1>3, <2>1 DEF IInv, EnvOK
    <2> QED
      BY <1>1, <2>2 DEF IInv, EnvOK
  <1>6. CASE r.verdict = "Ok" /\ CacheSuccess(c, r) /\ UNCHANGED <<plan, tier>>
    BY <1>1, <1>4, <1>5, <1>6, CacheSuccessKeeps DEF IInv
  <1>7. CASE TierFails(c, r.verdict) /\ UNCHANGED <<memory, got>>
    <2>1. WalkOK' /\ GoesOn(c)
      BY <1>1, <1>7, TierFailsWalks DEF IInv
    <2>2. urn' \in [Calls -> Urns \cup {NoUrn}] /\ urn'[c] \in Urns
          /\ \A d \in Calls \ {c} : urn'[d] = urn[d]
      BY <1>1 DEF IInv, EntriesOK
    <2>3. EntriesOK' /\ SuccessIsAuthentic'
      BY <1>7, <2>1, <2>2, GoingOnKeeps
    <2>4. StoreOK'
      BY <1>1, <1>7 DEF IInv, StoreOK, MemoryHoldsPublished
    <2> QED
      BY <1>5, <2>1, <2>3, <2>4 DEF IInv
  <1> QED
    BY <1>3, <1>6, <1>7

\* A step of a write: the call stays in the segment or ends it, the file changes.
LEMMA WriteKeeps ==
    ASSUME IInv, NEW c \in Calls, WriteBegins(c) \/ WriteEnds(c)
    PROVE  IInv'
  <1>1. pc[c] \in {"write", "writing"} /\ urn[c] \in Urns /\ got[c].root \in Roots
        /\ got[c].artifacts \in DiskArtifacts
    BY DEF WriteBegins, WriteEnds, IInv, EntriesOK, HasEntry
  <1>2. Id(c) \in ContentIds
    BY <1>1, IdentityTyped DEF Id
  <1>3. UNCHANGED <<plan_cache, memory, urn, plan, tier, got, outcome, heard, up, loopback>>
    BY DEF WriteBegins, WriteEnds, instanceVars
  <1>4. pc' = [pc EXCEPT ![c] = "writing"] \/ pc' = [pc EXCEPT ![c] = "done"]
    BY DEF WriteBegins, WriteEnds
  <1>5. StoreOK'
    <2>1. \/ /\ \E file \in DiskArtifacts \cup {Torn} :
                    disk' = [k \in DOMAIN disk \cup {Id(c)} |->
                                IF k = Id(c) THEN file ELSE disk[k]]
             /\ tampered' = tampered \ {Id(c)}
          \/ disk' = disk /\ tampered' = tampered
      BY <1>1 DEF WriteBegins, WriteEnds
    <2> QED
      BY <1>2, <1>3, <2>1, FileKeepsStore DEF IInv
  <1>6. Moves(c) /\ pc'[c] \in {"writing", "done"} /\ pc' \in [Calls -> PCs]
    BY <1>3, <1>4 DEF IInv, WalkOK, Moves, PCs
  <1>7. WalkOK'
    <2>1. \A d \in Calls : Scheduled(d)'
      BY <1>3, <1>6 DEF IInv, WalkOK, Moves, Scheduled
    <2> QED
      BY <1>3, <1>6, <2>1 DEF IInv, WalkOK
  <1>8. HasEntry(c)'
    BY <1>1, <1>3, <1>6 DEF HasEntry
  <1>9. EntriesOK'
    BY <1>3, <1>6, <1>8, EntriesKept DEF IInv, EntriesOK
  <1>10. SuccessIsAuthentic'
    BY <1>1, <1>3, <1>6, StaysAuthentic DEF IInv, SuccessIsAuthentic
  <1>11. EnvOK'
    BY <1>3 DEF IInv, EnvOK
  <1> QED
    BY <1>5, <1>7, <1>9, <1>10, <1>11 DEF IInv

\* Futures that are gone leave a walk of the others.
LEMMA ForgetKeeps ==
    ASSUME IInv, NEW calls \in SUBSET Calls, Forget(calls),
           plan_cache' \in [Instances -> Plans], StoreOK', UNCHANGED <<up, loopback>>
    PROVE  IInv'
  <1>1. /\ pc' = [d \in Calls |-> IF d \in calls THEN "idle" ELSE pc[d]]
        /\ urn' = [d \in Calls |-> IF d \in calls THEN NoUrn ELSE urn[d]]
        /\ plan' = [d \in Calls |-> IF d \in calls THEN <<>> ELSE plan[d]]
        /\ tier' = [d \in Calls |-> IF d \in calls THEN 0 ELSE tier[d]]
        /\ got' = [d \in Calls |-> IF d \in calls THEN NoResult ELSE got[d]]
        /\ outcome' = [d \in Calls |-> IF d \in calls THEN NoOutcome ELSE outcome[d]]
        /\ heard' = [d \in Calls |-> IF d \in calls THEN <<>> ELSE heard[d]]
    BY DEF Forget
  <1>2. NoOutcome \in Outcomes
    BY EmptyOutcome DEF NoOutcome, Kinds
  <1>3. NoResult \in Results
    BY DEF NoResult, Failure, Results, Verdicts
  <1>4. <<>> \in Plans /\ <<>> \in Seq(Verdicts) /\ "idle" \in PCs
    BY DEF Plans, PCs
  <1>5. pc' \in [Calls -> PCs] /\ plan' \in [Calls -> Plans]
        /\ tier' \in [Calls -> {0, 1, 2}] /\ outcome' \in [Calls -> Outcomes]
    BY <1>1, <1>2, <1>4 DEF IInv, WalkOK
  <1>6. \A d \in Calls : Scheduled(d)'
    BY <1>1 DEF IInv, WalkOK, Scheduled
  <1>7. urn' \in [Calls -> Urns \cup {NoUrn}] /\ got' \in [Calls -> Results]
    BY <1>1, <1>3 DEF IInv, EntriesOK
  <1>8. \A d \in Calls : HasEntry(d)'
    BY <1>1 DEF IInv, EntriesOK, HasEntry
  <1>9. heard' \in [Calls -> Seq(Verdicts)]
    BY <1>1, <1>4 DEF IInv, EnvOK
  <1>10. SuccessIsAuthentic'
    BY <1>1 DEF IInv, SuccessIsAuthentic
  <1> QED
    BY <1>5, <1>6, <1>7, <1>8, <1>9, <1>10 DEF IInv, WalkOK, EntriesOK, EnvOK

\* A caller takes its outcome or drops its future.
LEMMA LeavesKeep ==
    ASSUME IInv, NEW c \in Calls, Return(c) \/ Abandon(c)
    PROVE  IInv'
  <1>1. Forget({c}) /\ UNCHANGED <<plan_cache, memory, disk, up, loopback, tampered>>
    BY DEF Return, Abandon, instanceVars, envVars
  <1>2. StoreOK' /\ plan_cache' \in [Instances -> Plans]
    BY <1>1 DEF IInv, StoreOK, MemoryHoldsPublished, WalkOK
  <1> QED
    BY <1>1, <1>2, ForgetKeeps

\* A new process starts with an empty memory and no plan.
LEMMA CrashKeeps ==
    ASSUME IInv, NEW i \in Instances, Crash(i)
    PROVE  IInv'
  <1>1. Forget({c \in Calls : Owner[c] = i}) /\ UNCHANGED <<disk, up, loopback, tampered>>
    BY DEF Crash, envVars
  <1>2. plan_cache' = [plan_cache EXCEPT ![i] = <<>>]
        /\ memory' = [memory EXCEPT ![i] = NoEntries]
    BY DEF Crash
  <1>3. plan_cache' \in [Instances -> Plans]
    BY <1>2 DEF IInv, WalkOK, Plans
  <1>4. DOMAIN NoEntries = {} /\ IsCache(NoEntries, ContentIds, Bytes)
    BY DEF NoEntries, IsCache
  <1>5. DOMAIN memory' = Instances
        /\ \A j \in Instances : memory'[j] = IF j = i THEN NoEntries ELSE memory[j]
    BY <1>2 DEF IInv, StoreOK
  <1>6. \A j \in Instances : IsCache(memory'[j], ContentIds, Bytes)
    BY <1>4, <1>5 DEF IInv, StoreOK
  <1>7. MemoryHoldsPublished'
    BY <1>4, <1>5 DEF IInv, StoreOK, MemoryHoldsPublished
  <1>8. StoreOK'
    BY <1>1, <1>5, <1>6, <1>7 DEF IInv, StoreOK
  <1> QED
    BY <1>1, <1>3, <1>8, ForgetKeeps

\* Hosts come and go.
LEMMA HostChangesKeeps ==
    ASSUME IInv, HostChanges
    PROVE  IInv'
  <1>1. PICK h \in Unsteady :
            /\ up' = IF h \in up THEN up \ {h} ELSE up \cup {h}
            /\ UNCHANGED <<plan_cache, memory, disk, pc, urn, plan, tier, got, outcome,
                           heard, loopback, tampered>>
    BY DEF HostChanges, instanceVars, callVars
  <1>2. h \in Hosts
    BY ResolverAssumption
  <1>3. EnvOK'
    BY <1>1, <1>2 DEF IInv, EnvOK
  <1>4. WalkOK' /\ EntriesOK'
    BY <1>1 DEF IInv, WalkOK, Scheduled, EntriesOK, HasEntry
  <1>5. StoreOK'
    BY <1>1 DEF IInv, StoreOK, MemoryHoldsPublished
  <1>6. SuccessIsAuthentic'
    BY <1>1 DEF IInv, SuccessIsAuthentic
  <1> QED
    BY <1>3, <1>4, <1>5, <1>6 DEF IInv

\* A file written by somebody else is at worst a well-formed entry.
LEMMA TamperKeeps ==
    ASSUME IInv, Tamper
    PROVE  IInv'
  <1>1. PICK u \in Urns, file \in Wire \cup {Torn} :
            /\ Pinned(u)
            /\ disk' = [k \in DOMAIN disk \cup {ContentId(u, u.root)} |->
                            IF k = ContentId(u, u.root) THEN file ELSE disk[k]]
            /\ tampered' = tampered \cup {ContentId(u, u.root)}
    BY DEF Tamper
  <1>2. UNCHANGED <<plan_cache, memory, pc, urn, plan, tier, got, outcome, heard,
                    up, loopback>>
    BY DEF Tamper, instanceVars, callVars
  <1>3. u.root \in Roots
    BY <1>1, FetchAssumption DEF Pinned, UrnForms
  <1>4. ContentId(u, u.root) \in ContentIds
    BY <1>3, IdentityTyped
  <1>5. file \in DiskArtifacts \cup {Torn}
    BY FetchAssumption
  <1>6. StoreOK'
    BY <1>1, <1>2, <1>4, <1>5, FileKeepsStore DEF IInv
  <1>7. WalkOK' /\ EntriesOK'
    BY <1>2 DEF IInv, WalkOK, Scheduled, EntriesOK, HasEntry
  <1>8. EnvOK'
    BY <1>2 DEF IInv, EnvOK
  <1>9. SuccessIsAuthentic'
    BY <1>2 DEF IInv, SuccessIsAuthentic
  <1> QED
    BY <1>6, <1>7, <1>8, <1>9 DEF IInv

-----------------------------------------------------------------------------
\* No call runs, and nothing is stored.
LEMMA InitInvariant == Init => IInv
  <1> SUFFICES ASSUME Init PROVE IInv
    OBVIOUS
  <1>1. NoOutcome \in Outcomes /\ NoResult \in Results
    BY EmptyOutcome DEF NoOutcome, Kinds, NoResult, Failure, Results, Verdicts
  <1>2. WalkOK
    BY <1>1 DEF Init, WalkOK, Plans, PCs, Scheduled
  <1>3. IsCache(NoEntries, ContentIds, Bytes) /\ DOMAIN NoEntries = {}
    BY DEF NoEntries, IsCache
  <1>4. StoreOK
    BY <1>3 DEF Init, StoreOK, IsCache, MemoryHoldsPublished
  <1>5. EnvOK
    BY DEF Init, EnvOK, Hosts
  <1>6. EntriesOK
    BY <1>1 DEF Init, EntriesOK, HasEntry
  <1>7. SuccessIsAuthentic
    BY DEF Init, SuccessIsAuthentic
  <1> QED
    BY <1>2, <1>4, <1>5, <1>6, <1>7 DEF IInv

\* Every step keeps the invariant.
LEMMA StepInvariant == IInv /\ [Next]_vars => IInv'
  <1> SUFFICES ASSUME IInv, [Next]_vars PROVE IInv'
    OBVIOUS
  <1>1. ASSUME NEW c \in Calls, Resolve(c) PROVE IInv'
    BY <1>1, ResolveFromMemoryKeeps, ResolveFromDiskKeeps, ResolveRefusesDiskKeeps,
       ResolveMissesKeeps DEF Resolve
  <1>2. ASSUME NEW c \in Calls, DropEntry(c) PROVE IInv'
    BY <1>2, DropEntryKeeps
  <1>3. ASSUME NEW c \in Calls, ProbeAnswers(c) PROVE IInv'
    BY <1>3, ProbeAnswersKeeps
  <1>4. ASSUME NEW c \in Calls, FetchAnswers(c) PROVE IInv'
    BY <1>4, FetchAnswersKeeps
  <1>5. ASSUME NEW c \in Calls, WriteBegins(c) \/ WriteEnds(c) PROVE IInv'
    BY <1>5, WriteKeeps
  <1>6. ASSUME NEW c \in Calls, Return(c) \/ Abandon(c) PROVE IInv'
    BY <1>6, LeavesKeep
  <1>7. ASSUME NEW i \in Instances, Crash(i) PROVE IInv'
    BY <1>7, CrashKeeps
  <1>8. CASE HostChanges
    BY <1>8, HostChangesKeeps
  <1>9. CASE Tamper
    BY <1>9, TamperKeeps
  <1>10. CASE UNCHANGED vars
    <2>1. UNCHANGED <<plan_cache, memory, disk, pc, urn, plan, tier, got, outcome, heard,
                      up, loopback, tampered>>
      BY <1>10 DEF vars, instanceVars, callVars, envVars
    <2>2. WalkOK' /\ EntriesOK' /\ EnvOK'
      BY <2>1 DEF IInv, WalkOK, Scheduled, EntriesOK, HasEntry, EnvOK
    <2>3. StoreOK' /\ SuccessIsAuthentic'
      BY <2>1 DEF IInv, StoreOK, MemoryHoldsPublished, SuccessIsAuthentic
    <2> QED
      BY <2>2, <2>3 DEF IInv
  <1> QED
    BY <1>1, <1>2, <1>3, <1>4, <1>5, <1>6, <1>7, <1>8, <1>9, <1>10 DEF Next, Client

\* The invariant holds through any interleaving of calls, crashes and tampering.
THEOREM Invariant == Spec => []IInv
  BY InitInvariant, StepInvariant, PTL DEF Spec

\* The RefCells, the cache directory and the locals of resolver.rs keep their types.
THEOREM TypeCorrect == Spec => []TypeOK
  <1>1. IInv => TypeOK
    BY DEF IInv, WalkOK, StoreOK, EnvOK, EntriesOK, TypeOK
  <1> QED
    BY Invariant, <1>1, PTL

\* No route of resolve ever returns bytes that the publisher did not commit to:
\* gate-then-decrypt on the gateway and the disk, the node's word on loopback, and
\* in memory whatever went through either.
THEOREM Authenticity == Spec => []SuccessIsAuthentic
  BY Invariant, PTL DEF IInv

\* Memory entries, which resolve serves without verification, hold published bytes.
THEOREM MemoryIsTrustworthy == Spec => []MemoryHoldsPublished
  <1>1. IInv => MemoryHoldsPublished
    BY DEF IInv, StoreOK
  <1> QED
    BY Invariant, <1>1, PTL
=============================================================================
