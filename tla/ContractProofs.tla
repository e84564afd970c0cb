---------------------------- MODULE ContractProofs ----------------------------
(***************************************************************************)
(* Resolver::resolve implements ResolveContract: seen from outside, a call *)
(* is asked for one URN, waits, and answers once with an outcome that is   *)
(* allowed for it, whatever the other calls, the caches and the world do.  *)
(***************************************************************************)
EXTENDS LadderProofs

Phase(c) == CASE pc[c] = "idle" -> "idle"
              [] pc[c] = "done" -> "answered"
              [] OTHER -> "asked"
Reply(c) == IF pc[c] = "done" THEN outcome[c] ELSE NoOutcome

-----------------------------------------------------------------------------
\* The contract speaks of URNs, outcomes and publishers as the resolver does.
LEMMA SameWords ==
    /\ Contract!Outcomes = Outcomes
    /\ \A u : Contract!Pinned(u) <=> Pinned(u)
    /\ \A u, via : Contract!Allowed(u, via) = Allowed(u, via)
  <1>1. Contract!Outcomes = Outcomes
    BY DEF Contract!Outcomes, Outcomes, Contract!Kinds, Kinds, Contract!Bytes, Bytes
  <1>2. \A u : Contract!Pinned(u) <=> Pinned(u)
    BY DEF Contract!Pinned, Pinned
  <1>3. \A u, root : Contract!Authentic(u, root) = Authentic(u, root)
    BY DEF Contract!Authentic, Authentic, Contract!KeyOf, KeyOf
  <1>4. \A resource, root : Contract!Published(resource, root) = Published(resource, root)
    BY DEF Contract!Published, Published
  <1>5. \A u, via : Contract!Allowed(u, via) = Allowed(u, via)
    BY <1>2, <1>3, <1>4 DEF Contract!Allowed, Allowed
  <1> QED
    BY <1>1, <1>2, <1>5

\* What a finished call holds is an answer that the contract allows.
AnswersAllowed ==
    \A c \in Calls : pc[c] = "done" =>
        /\ outcome[c] \in Contract!Outcomes
        /\ urn[c] \in Urns
        /\ Contract!MayAnswer(urn[c], outcome[c])

LEMMA DoneMayAnswer == IInv /\ LInv => AnswersAllowed
  <1> SUFFICES ASSUME IInv, LInv, NEW c \in Calls, pc[c] = "done"
               PROVE  /\ outcome[c] \in Contract!Outcomes
                      /\ urn[c] \in Urns
                      /\ Contract!MayAnswer(urn[c], outcome[c])
    BY DEF AnswersAllowed
  <1>1. urn[c] \in Urns /\ outcome[c] \in Outcomes
    BY DEF IInv, EntriesOK, HasEntry, WalkOK
  <1>2. FairAnswer(c)
    BY DEF LInv, Walk
  <1>3. outcome[c].kind = "Success" => outcome[c].bytes \in Allowed(urn[c], outcome[c].via)
    BY DEF IInv, SuccessIsAuthentic
  <1> QED
    BY <1>1, <1>2, <1>3, SameWords DEF Contract!MayAnswer, FairAnswer

LEMMA DoneMayAnswerNext == (IInv /\ LInv)' => AnswersAllowed'
  BY DoneMayAnswer, PTL

-----------------------------------------------------------------------------
\* The steps of the contract.

\* One call moves on for the observer.
Alone(c) == \A d \in Calls \ {c} : pc'[d] = pc[d] /\ outcome'[d] = outcome[d]

\* The three state functions of the contract, one call at a time.
LEMMA View ==
    ASSUME NEW c \in Calls, Alone(c)
    PROVE  /\ [d \in Calls |-> Phase(d)]' = [[d \in Calls |-> Phase(d)] EXCEPT ![c] = Phase(c)']
           /\ [d \in Calls |-> Reply(d)]' = [[d \in Calls |-> Reply(d)] EXCEPT ![c] = Reply(c)']
  <1>1. \A d \in Calls \ {c} : Phase(d)' = Phase(d) /\ Reply(d)' = Reply(d)
    BY DEF Alone, Phase, Reply
  <1> HIDE DEF Phase, Reply
  <1> QED
    BY <1>1

\* A call of an idle future starts to wait.
LEMMA IsAsked ==
    ASSUME NEW c \in Calls, NEW u \in Urns, Alone(c),
           pc[c] = "idle", pc'[c] \notin {"idle", "done"}, urn' = [urn EXCEPT ![c] = u]
    PROVE  Contract!Next
  <1>1. Phase(c) = "idle" /\ Phase(c)' = "asked" /\ Reply(c)' = NoOutcome /\ Reply(c) = NoOutcome
    BY DEF Phase, Reply
  <1>2. Contract!Ask(c)
    BY <1>1, View DEF Contract!Ask, Phase, Reply
  <1> QED
    BY <1>2 DEF Contract!Next

\* A call answers, after it has waited or at once, with what it is asked for now.
LEMMA IsAnswered ==
    ASSUME NEW c \in Calls, Alone(c), pc'[c] = "done",
           outcome'[c] \in Contract!Outcomes, urn'[c] \in Urns,
           Contract!MayAnswer(urn'[c], outcome'[c]),
           \/ pc[c] \notin {"idle", "done"} /\ urn' = urn
           \/ pc[c] = "idle" /\ urn' = [urn EXCEPT ![c] = urn'[c]]
    PROVE  Contract!Next
  <1>1. Phase(c)' = "answered" /\ Reply(c)' = outcome'[c]
    BY DEF Phase, Reply
  <1>2. CASE pc[c] \notin {"idle", "done"} /\ urn' = urn
    <2>1. Phase(c) = "asked"
      BY <1>2 DEF Phase
    <2>2. Contract!Answer(c)
      BY <1>1, <1>2, <2>1, View DEF Contract!Answer, Phase, Reply
    <2> QED
      BY <2>2 DEF Contract!Next
  <1>3. CASE pc[c] = "idle" /\ urn' = [urn EXCEPT ![c] = urn'[c]]
    <2>1. Phase(c) = "idle"
      BY <1>3 DEF Phase
    <2>2. Contract!AnswerAtOnce(c)
      BY <1>1, <1>3, <2>1, View DEF Contract!AnswerAtOnce, Phase, Reply
    <2> QED
      BY <2>2 DEF Contract!Next
  <1> QED
    BY <1>2, <1>3

\* A step in which nobody starts, ends or leaves is none of the contract's.
LEMMA Stutters ==
    ASSUME \A c \in Calls : Phase(c)' = Phase(c) /\ Reply(c)' = Reply(c), urn' = urn
    PROVE  UNCHANGED Contract!vars
  <1>1. [c \in Calls |-> Phase(c)]' = [c \in Calls |-> Phase(c)]
        /\ [c \in Calls |-> Reply(c)]' = [c \in Calls |-> Reply(c)]
    OBVIOUS
  <1> QED
    BY <1>1 DEF Contract!vars, Phase, Reply

LEMMA KeepsWaiting ==
    ASSUME NEW c \in Calls, Alone(c), pc[c] \notin {"idle", "done"},
           pc'[c] \notin {"idle", "done"}, urn' = urn
    PROVE  UNCHANGED Contract!vars
  <1>1. \A d \in Calls : Phase(d)' = Phase(d) /\ Reply(d)' = Reply(d)
    BY DEF Alone, Phase, Reply
  <1> QED
    BY <1>1, Stutters

\* Futures that are gone are calls that left.
LEMMA HaveLeft ==
    ASSUME NEW calls \in SUBSET Calls, Forget(calls), urn \in [Calls -> Urns \cup {NoUrn}]
    PROVE  Contract!Next
  <1>1. /\ pc' = [c \in Calls |-> IF c \in calls THEN "idle" ELSE pc[c]]
        /\ urn' = [c \in Calls |-> IF c \in calls THEN NoUrn ELSE urn[c]]
        /\ outcome' = [c \in Calls |-> IF c \in calls THEN NoOutcome ELSE outcome[c]]
    BY DEF Forget
  <1>2. \A c \in Calls : /\ Phase(c)' = IF c \in calls THEN "idle" ELSE Phase(c)
                         /\ Reply(c)' = IF c \in calls THEN NoOutcome ELSE Reply(c)
    BY <1>1 DEF Phase, Reply
  <1>3. /\ [c \in Calls |-> Phase(c)]'
                = [c \in Calls |-> IF c \in calls THEN "idle" ELSE [d \in Calls |-> Phase(d)][c]]
        /\ [c \in Calls |-> Reply(c)]'
                = [c \in Calls |-> IF c \in calls THEN NoOutcome ELSE [d \in Calls |-> Reply(d)][c]]
    BY <1>2
  <1>4. Contract!Leave(calls)
    BY <1>1, <1>3 DEF Contract!Leave, Phase, Reply
  <1> QED
    BY <1>4 DEF Contract!Next

-----------------------------------------------------------------------------
\* The steps of the resolver.

\* A step that moves one call between the places where a future is suspended.
LEMMA MovesOn ==
    ASSUME AnswersAllowed', NEW c \in Calls, Alone(c), pc'[c] # "idle",
           \/ pc[c] \notin {"idle", "done"} /\ urn' = urn
           \/ pc[c] = "idle" /\ \E u \in Urns : urn' = [urn EXCEPT ![c] = u],
           urn \in [Calls -> Urns \cup {NoUrn}]
    PROVE  [Contract!Next]_Contract!vars
  <1>1. CASE pc'[c] = "done"
    <2>1. /\ outcome'[c] \in Contract!Outcomes /\ urn'[c] \in Urns
          /\ Contract!MayAnswer(urn'[c], outcome'[c])
      BY <1>1 DEF AnswersAllowed, Contract!MayAnswer
    <2>2. pc[c] = "idle" => urn' = [urn EXCEPT ![c] = urn'[c]]
      OBVIOUS
    <2> QED
      BY <1>1, <2>1, <2>2, IsAnswered
  <1>2. CASE pc'[c] # "done" /\ pc[c] = "idle"
    BY <1>2, IsAsked
  <1>3. CASE pc'[c] # "done" /\ pc[c] # "idle"
    BY <1>3, KeepsWaiting
  <1> QED
    BY <1>1, <1>2, <1>3

\* Starting a call moves that call, for one URN.
LEMMA ResolveMoves ==
    ASSUME IInv, NEW c \in Calls, Resolve(c)
    PROVE  /\ Alone(c) /\ pc[c] = "idle" /\ pc'[c] # "idle"
           /\ \E u \in Urns : urn' = [urn EXCEPT ![c] = u]
  <1>1. PICK u \in Urns : \/ ResolveFromMemory(c, u) \/ ResolveFromDisk(c, u)
                          \/ ResolveRefusesDisk(c, u) \/ ResolveMisses(c, u)
    BY DEF Resolve
  <1>2. pc[c] = "idle" /\ urn' = [urn EXCEPT ![c] = u]
    BY <1>1 DEF ResolveFromMemory, ResolveFromDisk, ResolveRefusesDisk, ResolveMisses, StartCall
  <1>3. CASE ResolveMisses(c, u)
    <2>1. GoesOn(c)
      BY <1>3, BeginPlanWalks DEF ResolveMisses, IInv
    <2> QED
      BY <1>2, <2>1 DEF GoesOn, Moves, Alone
  <1>4. CASE ResolveFromMemory(c, u) \/ ResolveFromDisk(c, u)
    <2>1. /\ pc' = [pc EXCEPT ![c] = "done"]
          /\ \E o : outcome' = [outcome EXCEPT ![c] = o]
      BY <1>4 DEF ResolveFromMemory, ResolveFromDisk, Finish
    <2> QED
      BY <1>2, <2>1 DEF IInv, WalkOK, Alone
  <1>5. CASE ResolveRefusesDisk(c, u)
    <2>1. pc' = [pc EXCEPT ![c] = "drop"] /\ outcome' = outcome
      BY <1>5 DEF ResolveRefusesDisk
    <2> QED
      BY <1>2, <2>1 DEF IInv, WalkOK, Alone
  <1> QED
    BY <1>1, <1>3, <1>4, <1>5

\* An answer of a host or of the file system moves one suspended call.
LEMMA GoingOnMoves ==
    ASSUME IInv, NEW c \in Calls,
           \/ DropEntry(c) \/ ProbeAnswers(c) \/ FetchAnswers(c)
           \/ WriteBegins(c) \/ WriteEnds(c)
    PROVE  Alone(c) /\ pc[c] \notin {"idle", "done"} /\ pc'[c] # "idle" /\ urn' = urn
  <1>1. pc[c] \notin {"idle", "done"} /\ urn' = urn
    BY DEF DropEntry, ProbeAnswers, FetchAnswers, WriteBegins, WriteEnds
  <1> SUFFICES Alone(c) /\ pc'[c] # "idle"
    BY <1>1
  <1>2. ASSUME GoesOn(c) PROVE Alone(c) /\ pc'[c] # "idle"
    BY <1>2 DEF GoesOn, Moves, Alone
  <1>3. ASSUME NEW place \in {"writing", "done", "write"}, pc' = [pc EXCEPT ![c] = place],
               outcome' = outcome \/ \E o : outcome' = [outcome EXCEPT ![c] = o]
        PROVE  Alone(c) /\ pc'[c] # "idle"
    BY <1>3 DEF IInv, WalkOK, Alone
  <1>4. CASE DropEntry(c)
    <2>1. CASE BeginPlan(c, urn[c])
      BY <1>2, <2>1, BeginPlanWalks DEF IInv
    <2>2. CASE Finish(c, Outcome("IntegrityFailure", NoBytes, "disk"))
      BY <1>3, <2>2 DEF Finish
    <2> QED
      BY <1>4, <2>1, <2>2 DEF DropEntry
  <1>5. CASE ProbeAnswers(c)
    <2>1. tier[c] \in 1..2
      BY <1>5 DEF ProbeAnswers, IInv, WalkOK, Scheduled, LocalTiers
    <2>2. CASE AdoptPlan(c, urn[c], NodeFirst(LocalTiers[tier[c]]))
      <3>1. LocalTiers[tier[c]] \in Hosts
        BY <2>1 DEF LocalTiers, Hosts
      <3> QED
        BY <1>2, <2>2, <3>1, PlansBuilt, AdoptPlanWalks DEF IInv
    <2>3. CASE ProbeFrom(c, urn[c], tier[c] + 1)
      <3>1. tier[c] + 1 \in 1..3
        BY <2>1
      <3> QED
        BY <1>2, <2>3, <3>1, ProbeFromWalks DEF IInv
    <2> QED
      BY <1>5, <2>2, <2>3 DEF ProbeAnswers
  <1>6. CASE FetchAnswers(c)
    <2>1. PICK r : \/ CacheSuccess(c, r)
                   \/ TierFails(c, r.verdict)
      BY <1>6 DEF FetchAnswers
    <2>2. CASE TierFails(c, r.verdict)
      <3>1. GoesOn(c)
        BY <1>6, <2>2, TierFailsWalks DEF FetchAnswers, IInv
      <3> QED
        BY <1>2, <3>1
    <2>3. CASE CacheSuccess(c, r)
      BY <1>3, <2>3 DEF CacheSuccess, Finish
    <2> QED
      BY <2>1, <2>2, <2>3
  <1>7. CASE WriteBegins(c) \/ WriteEnds(c)
    BY <1>3, <1>7 DEF WriteBegins, WriteEnds
  <1> QED
    BY <1>4, <1>5, <1>6, <1>7

-----------------------------------------------------------------------------
LEMMA ContractInit == Init => Contract!Init
  BY DEF Init, Contract!Init

LEMMA ContractStep ==
    IInv /\ LInv /\ AnswersAllowed' /\ [Next]_vars => [Contract!Next]_Contract!vars
  <1> SUFFICES ASSUME IInv, LInv, AnswersAllowed', [Next]_vars
               PROVE  [Contract!Next]_Contract!vars
    OBVIOUS
  <1>1. urn \in [Calls -> Urns \cup {NoUrn}]
    BY DEF IInv, EntriesOK
  <1>2. ASSUME NEW c \in Calls, Resolve(c) PROVE [Contract!Next]_Contract!vars
    BY <1>1, <1>2, ResolveMoves, MovesOn
  <1>3. ASSUME NEW c \in Calls,
               \/ DropEntry(c) \/ ProbeAnswers(c) \/ FetchAnswers(c)
               \/ WriteBegins(c) \/ WriteEnds(c)
        PROVE  [Contract!Next]_Contract!vars
    BY <1>1, <1>3, GoingOnMoves, MovesOn
  <1>4. ASSUME NEW calls \in SUBSET Calls, Forget(calls) PROVE Contract!Next
    BY <1>1, <1>4, HaveLeft
  <1>5. ASSUME NEW c \in Calls, Return(c) \/ Abandon(c) PROVE Contract!Next
    BY <1>4, <1>5 DEF Return, Abandon
  <1>6. ASSUME NEW i \in Instances, Crash(i) PROVE Contract!Next
    BY <1>4, <1>6 DEF Crash
  <1>7. CASE HostChanges \/ Tamper \/ UNCHANGED vars
    <2>1. UNCHANGED <<pc, urn, outcome>>
      BY <1>7 DEF HostChanges, Tamper, vars, callVars
    <2>2. \A c \in Calls : Phase(c)' = Phase(c) /\ Reply(c)' = Reply(c)
      BY <2>1 DEF Phase, Reply
    <2> QED
      BY <2>1, <2>2, Stutters
  <1> QED
    BY <1>2, <1>3, <1>5, <1>6, <1>7 DEF Next, Client

\* Through plans, tiers, caches, files, crashes and other calls, resolve keeps the
\* contract that its signature and documentation make with a caller: one URN, one
\* allowed outcome.
THEOREM KeepsContract == Spec => ImplementsContract
  <1>1. Spec => [](IInv /\ LInv)
    BY WalksWell
  <1> QED
    BY <1>1, DoneMayAnswerNext, ContractInit, ContractStep, PTL
       DEF Spec, ImplementsContract, Contract!Spec
=============================================================================
