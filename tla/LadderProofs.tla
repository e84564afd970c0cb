----------------------------- MODULE LadderProofs -----------------------------
(***************************************************************************)
(* The walk of Resolver::resolve through the ladder, for any number of     *)
(* calls and instances: trust stays on loopback, an integrity failure is   *)
(* never masked, absence is a verdict on the whole ladder, rootless URNs   *)
(* are answered by nodes, and the resolver implements ResolveContract.     *)
(***************************************************************************)
EXTENDS ResolverProofs

-----------------------------------------------------------------------------
\* The invariant of the walk.

\* An instance may ask this endpoint, with this trust.
MayAsk(i, e) ==
    /\ e.kind = "node" => e.host \in loopback
    /\ Override[i] # NoOverride => e.host = Override[i]

\* Without an override the gateway is the last resort.
EndsAtGateway(i, p) ==
    Override[i] = NoOverride /\ p # <<>> => p[Len(p)] = Rpc(Gateway)

TrustedPlan(i, p) == EndsAtGateway(i, p) /\ \A k \in 1..Len(p) : MayAsk(i, p[k])

\* A call that was refused something, on the disk or by a tier.
Refusal(c) ==
    \/ got[c].verdict \in IntegrityVerdicts
    \/ \E k \in 1..Len(heard[c]) : heard[c][k] \in IntegrityVerdicts

Quiet(c) == \A k \in 1..Len(heard[c]) : heard[c][k] \in {"NotFound", "Transport"}

\* A call that asks a tier has heard one absence from each tier before it.
Asking(c) ==
    /\ Len(heard[c]) = tier[c] - 1
    /\ Quiet(c)
    /\ outcome[c] = NoOutcome
    /\ TrustedPlan(Owner[c], plan[c])
    /\ ~ Pinned(urn[c]) => plan[c][tier[c]].kind = "node"

FairAnswer(c) ==
    /\ outcome[c].kind = "Success" /\ ~ Pinned(urn[c]) => outcome[c].via = "node"
    /\ outcome[c].kind # "Success" => outcome[c].bytes = NoBytes
    /\ outcome[c].kind = "RootRequired" => ~ Pinned(urn[c])
    /\ outcome[c].kind = "Parse" => urn[c].salt \in ShortSalts

\* The outcome accounts for everything the call has heard.
HeardWell(c) ==
    /\ Refusal(c) <=> outcome[c].kind = "IntegrityFailure"
    /\ \A k \in 1..Len(heard[c]) : heard[c][k] \in IntegrityVerdicts => k = Len(heard[c])
    /\ outcome[c].kind \in {"NotFound", "Unreachable"} =>
        /\ Len(heard[c]) = Len(plan[c])
        /\ Quiet(c)
        /\ heard[c][Len(plan[c])] =
                IF outcome[c].kind = "NotFound" THEN "NotFound" ELSE "Transport"
        /\ plan[c] # <<>> /\ EndsAtGateway(Owner[c], plan[c])

Walk(c) ==
    /\ pc[c] \in {"idle", "probe", "drop"} => heard[c] = <<>> /\ outcome[c] = NoOutcome
    /\ pc[c] \in {"idle", "probe", "fetch"} => got[c].verdict \notin IntegrityVerdicts
    /\ pc[c] = "probe" => /\ LocalTiers[tier[c]] \in loopback
                          /\ Override[Owner[c]] = NoOverride
    /\ pc[c] = "fetch" => Asking(c)
    /\ pc[c] \in {"write", "writing"} => outcome[c].kind = "Success"
    /\ pc[c] \in {"write", "writing", "done"} => FairAnswer(c) /\ HeardWell(c)

PlansTrusted == \A i \in Instances : TrustedPlan(i, plan_cache[i])

LInv == PlansTrusted /\ \A c \in Calls : Walk(c)

-----------------------------------------------------------------------------
\* One call walks at a time.

Still(c) ==
    /\ Moves(c)
    /\ \A d \in Calls \ {c} :
            urn'[d] = urn[d] /\ got'[d] = got[d] /\ heard'[d] = heard[d]
    /\ loopback' = loopback

\* It is enough to look at the call that moves and at the cached plans.
LEMMA OneWalks ==
    ASSUME LInv, NEW c \in Calls, Still(c), PlansTrusted', Walk(c)'
    PROVE  LInv'
  <1>1. ASSUME NEW d \in Calls \ {c} PROVE Walk(d)'
    <2>1. /\ pc'[d] = pc[d] /\ plan'[d] = plan[d] /\ tier'[d] = tier[d]
          /\ outcome'[d] = outcome[d] /\ urn'[d] = urn[d] /\ got'[d] = got[d]
          /\ heard'[d] = heard[d] /\ loopback' = loopback
      BY DEF Still, Moves
    <2>2. Walk(d)
      BY DEF LInv
    <2> QED
      BY <2>1, <2>2 DEF Walk, Asking, Quiet, TrustedPlan, MayAsk, FairAnswer, HeardWell, Refusal
  <1> QED
    BY <1>1 DEF LInv

\* Plans stay trusted as long as the one that is cached now is.
LEMMA PlansKept ==
    ASSUME WalkOK, LInv, NEW i \in Instances, NEW p, loopback' = loopback,
           plan_cache' = [plan_cache EXCEPT ![i] = p], TrustedPlan(i, p)
    PROVE  PlansTrusted'
  <1>1. \A j \in Instances : plan_cache'[j] = IF j = i THEN p ELSE plan_cache[j]
    BY DEF WalkOK
  <1> QED
    BY <1>1 DEF LInv, PlansTrusted, TrustedPlan, MayAsk

LEMMA PlansUnchanged ==
    ASSUME LInv, UNCHANGED <<plan_cache, loopback>>
    PROVE  PlansTrusted'
  BY DEF LInv, PlansTrusted, TrustedPlan, MayAsk

-----------------------------------------------------------------------------
\* From the plan to the question.

\* What a call knows when it is about to ask tier k for URN u.
Ready(c, u, k) ==
    /\ urn'[c] = u
    /\ got'[c].verdict \notin IntegrityVerdicts
    /\ outcome[c] = NoOutcome
    /\ loopback' = loopback
    /\ Len(heard'[c]) = k - 1
    /\ \A j \in 1..Len(heard'[c]) : heard'[c][j] \in {"NotFound", "Transport"}

LEMMA StartTierAsks ==
    ASSUME WalkOK, NEW c \in Calls, NEW u, NEW p \in Plans, NEW k \in 1..Len(p),
           StartTier(c, u, p, k), Ready(c, u, k), TrustedPlan(Owner[c], p)
    PROVE  Walk(c)'
  <1>1. plan'[c] = p /\ tier'[c] = k
    BY DEF StartTier, WalkOK
  <1>2. Quiet(c)' /\ ~ Refusal(c)'
    BY DEF Ready, Quiet, Refusal, IntegrityVerdicts
  <1>3. p[k].kind \in {"node", "rpc"}
    BY PlanTiers DEF Endpoints, Node, Rpc
  <1>4. CASE p[k].kind = "rpc" /\ ~ Pinned(u)
    <2> DEFINE o == Outcome("RootRequired", NoBytes, "none")
    <2>1. pc'[c] = "done" /\ outcome'[c] = o
      BY <1>4 DEF StartTier, Finish, WalkOK
    <2>2. o.kind = "RootRequired" /\ o.bytes = NoBytes
      BY DEF Outcome
    <2> HIDE DEF o
    <2>3. FairAnswer(c)'
      BY <1>4, <2>1, <2>2 DEF FairAnswer, Ready, Pinned
    <2>4. HeardWell(c)'
      BY <1>2, <2>1, <2>2 DEF HeardWell, Refusal
    <2> QED
      BY <2>1, <2>3, <2>4 DEF Walk
  <1>5. CASE ~ (p[k].kind = "rpc" /\ ~ Pinned(u))
    <2>1. pc'[c] = "fetch" /\ outcome'[c] = outcome[c]
      BY <1>5 DEF StartTier, WalkOK
    <2>2. TrustedPlan(Owner[c], p)'
      BY DEF TrustedPlan, MayAsk, Ready
    <2>3. ~ Pinned(urn'[c]) => p[k].kind = "node"
      BY <1>3, <1>5 DEF Ready
    <2>4. Asking(c)'
      BY <1>1, <1>2, <2>1, <2>2, <2>3 DEF Asking, Ready, TrustedPlan, MayAsk, Pinned, NoOutcome
    <2> QED
      BY <2>1, <2>4 DEF Walk, Ready
  <1> QED
    BY <1>4, <1>5

LEMMA AdoptPlanAsks ==
    ASSUME WalkOK, LInv, NEW c \in Calls, NEW u, NEW p \in Plans, 1 \in 1..Len(p),
           AdoptPlan(c, u, p), Ready(c, u, 1), TrustedPlan(Owner[c], p)
    PROVE  Walk(c)' /\ PlansTrusted'
  <1>1. Walk(c)'
    BY StartTierAsks DEF AdoptPlan
  <1>2. PlansTrusted'
    BY PlansKept, ResolverAssumption DEF AdoptPlan, Ready
  <1> QED
    BY <1>1, <1>2

\* The gateway alone, or behind a local tier that is loopback, may be asked by an
\* instance without an override; with one, the overriding host may.
LEMMA TrustedPlansBuilt ==
    ASSUME NEW i \in Instances
    PROVE  /\ Override[i] = NoOverride => TrustedPlan(i, GatewayOnly)
           /\ \A h \in loopback : Override[i] = NoOverride => TrustedPlan(i, NodeFirst(h))
           /\ Override[i] # NoOverride => TrustedPlan(i, <<Classify(Override[i])>>)
  <1>1. Override[i] = NoOverride => TrustedPlan(i, GatewayOnly)
    BY DEF TrustedPlan, EndsAtGateway, MayAsk, GatewayOnly, Rpc
  <1>2. ASSUME NEW h \in loopback, Override[i] = NoOverride
        PROVE  TrustedPlan(i, NodeFirst(h))
    <2>1. Len(NodeFirst(h)) = 2 /\ NodeFirst(h)[1] = Node(h) /\ NodeFirst(h)[2] = Rpc(Gateway)
      BY DEF NodeFirst
    <2> QED
      BY <1>2, <2>1 DEF TrustedPlan, EndsAtGateway, MayAsk, Node, Rpc
  <1>3. ASSUME Override[i] # NoOverride PROVE TrustedPlan(i, <<Classify(Override[i])>>)
    <2>1. MayAsk(i, Classify(Override[i]))
      BY DEF MayAsk, Classify, Node, Rpc
    <2> QED
      BY <1>3, <2>1 DEF TrustedPlan, EndsAtGateway
  <1> QED
    BY <1>1, <1>2, <1>3

LEMMA ProbeFromAsks ==
    ASSUME WalkOK, LInv, NEW c \in Calls, NEW u, NEW k \in 1..3, ProbeFrom(c, u, k),
           Ready(c, u, 1), heard'[c] = <<>>, Override[Owner[c]] = NoOverride
    PROVE  Walk(c)' /\ PlansTrusted'
  <1>1. CASE AdoptPlan(c, u, GatewayOnly)
    BY <1>1, AdoptPlanAsks, PlansBuilt, TrustedPlansBuilt, ResolverAssumption
  <1>2. ASSUME NEW j \in k..Len(LocalTiers), LocalTiers[j] \in loopback,
               pc' = [pc EXCEPT ![c] = "probe"], tier' = [tier EXCEPT ![c] = j],
               UNCHANGED <<plan_cache, plan, outcome>>
        PROVE  Walk(c)' /\ PlansTrusted'
    <2>1. pc'[c] = "probe" /\ tier'[c] = j /\ outcome'[c] = NoOutcome
      BY <1>2 DEF WalkOK, Ready
    <2>2. Walk(c)'
      BY <1>2, <2>1 DEF Walk, Ready, NoOutcome
    <2> QED
      BY <1>2, <2>2, PlansUnchanged DEF Ready
  <1> QED
    BY <1>1, <1>2 DEF ProbeFrom

LEMMA BeginPlanAsks ==
    ASSUME WalkOK, LInv, NEW c \in Calls, NEW u, BeginPlan(c, u), Ready(c, u, 1),
           heard'[c] = <<>>
    PROVE  Walk(c)' /\ PlansTrusted'
  <1> DEFINE i == Owner[c]
  <1>1. i \in Instances /\ plan_cache[i] \in Plans /\ TrustedPlan(i, plan_cache[i])
    BY ResolverAssumption DEF WalkOK, LInv, PlansTrusted
  <1>2. CASE plan_cache[i] # <<>> /\ StartTier(c, u, plan_cache[i], 1) /\ UNCHANGED plan_cache
    <2>1. 1 \in 1..Len(plan_cache[i])
      BY <1>1, <1>2, PlansBuilt DEF Plans
    <2>2. Walk(c)'
      BY <1>1, <1>2, <2>1, StartTierAsks
    <2> QED
      BY <1>2, <2>2, PlansUnchanged DEF Ready
  <1>3. CASE Override[i] # NoOverride /\ AdoptPlan(c, u, <<Classify(Override[i])>>)
    <2>1. Override[i] \in Hosts
      BY <1>1, <1>3, ResolverAssumption DEF Hosts
    <2> QED
      BY <1>1, <1>3, <2>1, AdoptPlanAsks, PlansBuilt, TrustedPlansBuilt
  <1>4. CASE Override[i] = NoOverride /\ ProbeFrom(c, u, 1)
    BY <1>4, ProbeFromAsks
  <1> QED
    BY <1>2, <1>3, <1>4 DEF BeginPlan

-----------------------------------------------------------------------------
\* What a call hears.

\* A fetching call that hears one more verdict has heard an absence from each of the
\* tiers before.
Hears(c, verdict) ==
    /\ heard' = [heard EXCEPT ![c] = Append(@, verdict)]
    /\ verdict \in Verdicts
    /\ verdict = "Parse" => urn[c].salt \in ShortSalts
    /\ UNCHANGED <<urn, loopback>>

LEMMA HearsOneMore ==
    ASSUME IInv, LInv, NEW c \in Calls, pc[c] = "fetch", NEW verdict, Hears(c, verdict)
    PROVE  /\ Asking(c)
           /\ tier[c] \in 1..Len(plan[c]) /\ plan[c] \in Plans
           /\ Len(heard'[c]) = tier[c]
           /\ heard'[c][tier[c]] = verdict
           /\ \A k \in 1..Len(heard'[c]) :
                k = tier[c] \/ heard'[c][k] \in {"NotFound", "Transport"}
  <1>1. Asking(c) /\ tier[c] \in 1..Len(plan[c]) /\ plan[c] \in Plans
        /\ heard \in [Calls -> Seq(Verdicts)]
    BY DEF IInv, LInv, Walk, WalkOK, Scheduled, EnvOK
  <1>2. heard'[c] = Append(heard[c], verdict) /\ heard[c] \in Seq(Verdicts)
    BY <1>1 DEF Hears
  <1>3. tier[c] \in Nat /\ Len(heard[c]) = tier[c] - 1
    BY <1>1 DEF Asking
  <1>4. Len(heard'[c]) = Len(heard[c]) + 1 /\ heard'[c][Len(heard[c]) + 1] = verdict
        /\ \A k \in 1..Len(heard[c]) : heard'[c][k] = heard[c][k]
    BY <1>2 DEF Hears
  <1>5. Len(heard'[c]) = tier[c] /\ heard'[c][tier[c]] = verdict
    BY <1>3, <1>4
  <1>6. ASSUME NEW k \in 1..Len(heard'[c]), k # tier[c]
        PROVE  heard'[c][k] \in {"NotFound", "Transport"}
    <2>1. k \in 1..Len(heard[c])
      BY <1>3, <1>5, <1>6
    <2> QED
      BY <1>1, <1>4, <2>1 DEF Asking, Quiet
  <1> QED
    BY <1>1, <1>5, <1>6

LEMMA TierFailsWell ==
    ASSUME IInv, LInv, NEW c \in Calls, pc[c] = "fetch", NEW verdict,
           TierFails(c, verdict), Hears(c, verdict), UNCHANGED <<plan_cache, got>>
    PROVE  Walk(c)'
  <1>1. /\ Asking(c)
        /\ tier[c] \in 1..Len(plan[c]) /\ plan[c] \in Plans
        /\ Len(heard'[c]) = tier[c]
        /\ heard'[c][tier[c]] = verdict
        /\ \A k \in 1..Len(heard'[c]) :
                k = tier[c] \/ heard'[c][k] \in {"NotFound", "Transport"}
    BY HearsOneMore
  <1>2. WalkOK /\ got'[c].verdict \notin IntegrityVerdicts
    BY DEF IInv, LInv, Walk
  <1>3. urn'[c] = urn[c] /\ loopback' = loopback
        /\ (verdict = "Parse" => urn[c].salt \in ShortSalts)
    BY DEF Hears
  <1>4. ASSUME NEW kind \in Kinds, Stop(c, kind),
               verdict \in IntegrityVerdicts <=> kind = "IntegrityFailure",
               kind = "Parse" => verdict = "Parse",
               kind \notin {"Success", "RootRequired"},
               kind \in {"NotFound", "Unreachable"} =>
                    /\ tier[c] = Len(plan[c])
                    /\ verdict = IF kind = "NotFound" THEN "NotFound" ELSE "Transport"
        PROVE  Walk(c)'
    <2> DEFINE o == Outcome(kind, NoBytes, plan[c][tier[c]].kind)
    <2>1. pc'[c] = "done" /\ outcome'[c] = o /\ plan'[c] = plan[c] /\ tier'[c] = tier[c]
      BY <1>2, <1>4 DEF Stop, Finish, WalkOK
    <2>2. o.kind = kind /\ o.bytes = NoBytes
      BY DEF Outcome
    <2> HIDE DEF o
    <2>3. Refusal(c)' <=> verdict \in IntegrityVerdicts
      BY <1>1, <1>2 DEF Refusal, IntegrityVerdicts
    <2>4. \A k \in 1..Len(heard'[c]) :
                heard'[c][k] \in IntegrityVerdicts => k = Len(heard'[c])
      BY <1>1 DEF IntegrityVerdicts
    <2>5. kind \in {"NotFound", "Unreachable"} => Quiet(c)'
      BY <1>1, <1>4 DEF Quiet
    <2>8. plan[c] # <<>> /\ EndsAtGateway(Owner[c], plan[c])
      <3>1. TrustedPlan(Owner[c], plan[c])
        BY DEF LInv, Walk, Asking
      <3>2. plan[c] # <<>>
        BY <1>1
      <3> QED
        BY <3>1, <3>2 DEF TrustedPlan
    <2>6. HeardWell(c)'
      BY <1>1, <1>4, <2>1, <2>2, <2>3, <2>4, <2>5, <2>8 DEF HeardWell, EndsAtGateway
    <2>7. FairAnswer(c)'
      BY <1>3, <1>4, <2>1, <2>2 DEF FairAnswer
    <2> QED
      BY <2>1, <2>6, <2>7 DEF Walk
  <1>5. CASE verdict \in {"NotFound", "Transport"} /\ ~ LastTier(c) /\ NextTier(c)
    <2>1. tier[c] \in {1, 2} /\ Len(plan[c]) \in {1, 2} /\ tier[c] # Len(plan[c])
      BY <1>1, <1>5, PlanTiers DEF LastTier
    <2>2. tier[c] + 1 \in 1..Len(plan[c])
      BY <1>1, <2>1
    <2>3. Ready(c, urn[c], tier[c] + 1)
      <3>1. \A j \in 1..Len(heard'[c]) : heard'[c][j] \in {"NotFound", "Transport"}
        BY <1>1, <1>5
      <3>2. Len(heard'[c]) = (tier[c] + 1) - 1
        BY <1>1, <2>1
      <3>3. outcome[c] = NoOutcome
        BY <1>1 DEF Asking
      <3> QED
        BY <1>2, <1>3, <3>1, <3>2, <3>3 DEF Ready
    <2>4. TrustedPlan(Owner[c], plan[c])
      BY <1>1 DEF Asking
    <2> QED
      BY <1>1, <1>2, <1>5, <2>2, <2>3, <2>4, StartTierAsks DEF NextTier
  <1>6. CASE verdict \in IntegrityVerdicts /\ Stop(c, "IntegrityFailure")
    BY <1>4, <1>6 DEF Kinds
  <1>7. CASE verdict = "NotFound" /\ LastTier(c) /\ Stop(c, "NotFound")
    BY <1>4, <1>7 DEF Kinds, IntegrityVerdicts, LastTier
  <1>8. CASE verdict = "Transport" /\ LastTier(c) /\ Stop(c, "Unreachable")
    BY <1>4, <1>8 DEF Kinds, IntegrityVerdicts, LastTier
  <1>9. CASE verdict \in {"Rpc", "Parse"} /\ Stop(c, verdict)
    BY <1>4, <1>9 DEF Kinds, IntegrityVerdicts
  <1> QED
    BY <1>5, <1>6, <1>7, <1>8, <1>9 DEF TierFails

LEMMA CacheSuccessWell ==
    ASSUME IInv, LInv, NEW c \in Calls, pc[c] = "fetch", NEW r, r.verdict = "Ok",
           CacheSuccess(c, r), Hears(c, "Ok"), UNCHANGED <<plan, tier>>
    PROVE  Walk(c)' /\ Still(c)
  <1> DEFINE o == Outcome("Success", r.bytes, plan[c][tier[c]].kind)
  <1>1. /\ Asking(c)
        /\ Len(heard'[c]) = tier[c]
        /\ heard'[c][tier[c]] = "Ok"
        /\ \A k \in 1..Len(heard'[c]) :
                k = tier[c] \/ heard'[c][k] \in {"NotFound", "Transport"}
    BY HearsOneMore
  <1>2. got[c].verdict \notin IntegrityVerdicts
    BY DEF LInv, Walk
  <1>3. o.kind = "Success" /\ o.via = plan[c][tier[c]].kind
    BY DEF Outcome
  <1>4. \/ pc' = [pc EXCEPT ![c] = "done"] /\ got' = got
        \/ pc' = [pc EXCEPT ![c] = "write"] /\ got' = [got EXCEPT ![c] = r]
    BY DEF CacheSuccess, Finish
  <1>5. outcome' = [outcome EXCEPT ![c] = o]
    BY DEF CacheSuccess, Finish
  <1> HIDE DEF o
  <1>6. pc'[c] \in {"done", "write"} /\ outcome'[c] = o
        /\ got'[c].verdict \notin IntegrityVerdicts
    BY <1>2, <1>4, <1>5 DEF IInv, WalkOK, EntriesOK, IntegrityVerdicts
  <1>7. Still(c)
    BY <1>4, <1>5 DEF Still, Moves, Hears, IInv, WalkOK, EntriesOK, EnvOK
  <1>8. FairAnswer(c)'
    BY <1>1, <1>3, <1>6 DEF FairAnswer, Asking, Hears, Pinned
  <1>9. HeardWell(c)'
    BY <1>1, <1>3, <1>6 DEF HeardWell, Refusal, IntegrityVerdicts
  <1> QED
    BY <1>3, <1>6, <1>7, <1>8, <1>9 DEF Walk

-----------------------------------------------------------------------------
\* The actions, one by one.

\* A call that starts has heard nothing and was refused nothing.
LEMMA StartsClean ==
    ASSUME IInv, LInv, NEW c \in Calls, NEW u \in Urns, StartCall(c, u)
    PROVE  /\ pc[c] = "idle" /\ heard[c] = <<>> /\ outcome[c] = NoOutcome
           /\ got[c].verdict \notin IntegrityVerdicts
           /\ urn'[c] = u /\ heard'[c] = <<>>
           /\ loopback' = loopback
           /\ \A d \in Calls \ {c} : urn'[d] = urn[d] /\ heard'[d] = heard[d]
  <1>1. pc[c] = "idle" /\ UNCHANGED <<heard, loopback>>
    BY DEF StartCall, envVars
  <1>2. heard[c] = <<>> /\ outcome[c] = NoOutcome /\ got[c].verdict \notin IntegrityVerdicts
    BY <1>1 DEF LInv, Walk
  <1> QED
    BY <1>1, <1>2, StartCallKeeps

LEMMA ResolveWalksWell ==
    ASSUME IInv, LInv, NEW c \in Calls, Resolve(c)
    PROVE  LInv'
  <1>1. PICK u \in Urns : \/ ResolveFromMemory(c, u) \/ ResolveFromDisk(c, u)
                          \/ ResolveRefusesDisk(c, u) \/ ResolveMisses(c, u)
    BY DEF Resolve
  <1>2. StartCall(c, u)
    BY <1>1 DEF ResolveFromMemory, ResolveFromDisk, ResolveRefusesDisk, ResolveMisses
  <1>3. /\ heard[c] = <<>> /\ outcome[c] = NoOutcome
        /\ got[c].verdict \notin IntegrityVerdicts
        /\ urn'[c] = u /\ heard'[c] = <<>>
        /\ loopback' = loopback
        /\ \A d \in Calls \ {c} : urn'[d] = urn[d] /\ heard'[d] = heard[d]
    BY <1>2, StartsClean
  <1>4. ASSUME NEW bytes, NEW via, Pinned(u), UNCHANGED <<plan_cache, plan, tier, got>>,
               Finish(c, Outcome("Success", bytes, via))
        PROVE  LInv'
    <2> DEFINE o == Outcome("Success", bytes, via)
    <2>1. o.kind = "Success"
      BY DEF Outcome
    <2>2. pc'[c] = "done" /\ outcome'[c] = o /\ Still(c)
      BY <1>3, <1>4 DEF Finish, IInv, WalkOK, Still, Moves
    <2> HIDE DEF o
    <2>3. FairAnswer(c)' /\ HeardWell(c)'
      BY <1>3, <1>4, <2>1, <2>2 DEF FairAnswer, HeardWell, Refusal, Pinned
    <2>4. Walk(c)'
      BY <2>2, <2>3 DEF Walk
    <2> QED
      BY <1>3, <1>4, <2>2, <2>4, OneWalks, PlansUnchanged
  <1>5. CASE ResolveFromMemory(c, u)
    BY <1>4, <1>5 DEF ResolveFromMemory, MemoryHit
  <1>6. CASE ResolveFromDisk(c, u)
    BY <1>4, <1>6 DEF ResolveFromDisk, DiskHit
  <1>7. CASE ResolveRefusesDisk(c, u)
    <2>1. /\ pc' = [pc EXCEPT ![c] = "drop"]
          /\ got' = [got EXCEPT ![c] = Refused(u)]
          /\ UNCHANGED <<plan_cache, plan, tier, outcome>>
      BY <1>7 DEF ResolveRefusesDisk
    <2>2. pc'[c] = "drop" /\ Still(c)
      BY <1>3, <2>1 DEF IInv, WalkOK, EntriesOK, Still, Moves
    <2>3. Walk(c)'
      BY <1>3, <2>1, <2>2 DEF Walk, NoOutcome
    <2> QED
      BY <1>3, <2>1, <2>2, <2>3, OneWalks, PlansUnchanged
  <1>8. CASE ResolveMisses(c, u)
    <2>1. BeginPlan(c, u) /\ got' = got
      BY <1>8 DEF ResolveMisses
    <2>2. Still(c)
      BY <1>3, <2>1, BeginPlanWalks DEF Still, GoesOn, IInv
    <2>3. Ready(c, u, 1)
      BY <1>3, <2>1 DEF Ready
    <2>4. Walk(c)' /\ PlansTrusted'
      BY <1>3, <2>1, <2>3, BeginPlanAsks DEF IInv
    <2> QED
      BY <2>2, <2>4, OneWalks
  <1> QED
    BY <1>1, <1>5, <1>6, <1>7, <1>8

\* A refused entry ends the call as an integrity failure, unless it was merely malformed.
LEMMA DropEntryWalksWell ==
    ASSUME IInv, LInv, NEW c \in Calls, DropEntry(c)
    PROVE  LInv'
  <1>1. UNCHANGED <<memory, urn, got, heard, loopback>>
    BY DEF DropEntry
  <1>2. heard[c] = <<>> /\ outcome[c] = NoOutcome
    BY DEF DropEntry, LInv, Walk
  <1>3. CASE /\ got[c].verdict \in IntegrityVerdicts
             /\ Finish(c, Outcome("IntegrityFailure", NoBytes, "disk"))
             /\ UNCHANGED <<plan_cache, plan, tier>>
    <2> DEFINE o == Outcome("IntegrityFailure", NoBytes, "disk")
    <2>1. o.kind = "IntegrityFailure" /\ o.bytes = NoBytes
      BY DEF Outcome
    <2>2. pc'[c] = "done" /\ outcome'[c] = o /\ Still(c)
      BY <1>1, <1>3 DEF Finish, IInv, WalkOK, Still, Moves
    <2> HIDE DEF o
    <2>3. FairAnswer(c)' /\ HeardWell(c)'
      BY <1>1, <1>2, <1>3, <2>1, <2>2 DEF FairAnswer, HeardWell, Refusal
    <2>4. Walk(c)'
      BY <2>2, <2>3 DEF Walk
    <2> QED
      BY <1>1, <1>3, <2>2, <2>4, OneWalks, PlansUnchanged
  <1>4. CASE got[c].verdict \notin IntegrityVerdicts /\ BeginPlan(c, urn[c])
    <2>1. Still(c)
      BY <1>1, <1>4, BeginPlanWalks DEF Still, GoesOn, IInv
    <2>2. Ready(c, urn[c], 1)
      BY <1>1, <1>2, <1>4 DEF Ready
    <2>3. Walk(c)' /\ PlansTrusted'
      BY <1>1, <1>2, <1>4, <2>2, BeginPlanAsks DEF IInv
    <2> QED
      BY <2>1, <2>3, OneWalks
  <1> QED
    BY <1>3, <1>4 DEF DropEntry

LEMMA ProbeAnswersWalksWell ==
    ASSUME IInv, LInv, NEW c \in Calls, ProbeAnswers(c)
    PROVE  LInv'
  <1>1. UNCHANGED <<memory, urn, got, heard, loopback>>
    BY DEF ProbeAnswers, envVars
  <1>2. /\ tier[c] \in 1..2 /\ heard[c] = <<>> /\ outcome[c] = NoOutcome
        /\ got[c].verdict \notin IntegrityVerdicts
        /\ LocalTiers[tier[c]] \in loopback /\ Override[Owner[c]] = NoOverride
    BY DEF ProbeAnswers, LInv, Walk, IInv, WalkOK, Scheduled, LocalTiers
  <1>3. Ready(c, urn[c], 1) /\ heard'[c] = <<>>
    BY <1>1, <1>2 DEF Ready
  <1>4. Owner[c] \in Instances
    BY ResolverAssumption
  <1>5. CASE AdoptPlan(c, urn[c], NodeFirst(LocalTiers[tier[c]]))
    <2> DEFINE p == NodeFirst(LocalTiers[tier[c]])
    <2>1. p \in Plans /\ 1 \in 1..Len(p)
      BY <1>2, PlansBuilt DEF LocalTiers, Hosts
    <2>2. TrustedPlan(Owner[c], p)
      BY <1>2, <1>4, TrustedPlansBuilt
    <2> HIDE DEF p
    <2>3. Walk(c)' /\ PlansTrusted'
      BY <1>3, <1>5, <2>1, <2>2, AdoptPlanAsks DEF IInv, p
    <2>4. Still(c)
      BY <1>1, <1>5, <2>1, AdoptPlanWalks DEF Still, GoesOn, IInv, p
    <2> QED
      BY <2>3, <2>4, OneWalks
  <1>6. CASE ProbeFrom(c, urn[c], tier[c] + 1)
    <2>1. tier[c] + 1 \in 1..3
      BY <1>2
    <2>2. Walk(c)' /\ PlansTrusted'
      BY <1>2, <1>3, <1>6, <2>1, ProbeFromAsks DEF IInv
    <2>3. Still(c)
      BY <1>1, <1>6, <2>1, ProbeFromWalks DEF Still, GoesOn, IInv
    <2> QED
      BY <2>2, <2>3, OneWalks
  <1> QED
    BY <1>5, <1>6 DEF ProbeAnswers

LEMMA FetchAnswersWalksWell ==
    ASSUME IInv, LInv, NEW c \in Calls, FetchAnswers(c)
    PROVE  LInv'
  <1>1. pc[c] = "fetch" /\ urn[c] \in Urns
        /\ UNCHANGED <<plan_cache, urn, loopback>>
    BY DEF FetchAnswers, envVars, IInv, EntriesOK, HasEntry
  <1>2. plan[c][tier[c]] \in Endpoints
    BY <1>1, PlanTiers DEF IInv, WalkOK, Scheduled
  <1>3. PICK r \in Answers(plan[c][tier[c]], urn[c]) :
            /\ heard' = [heard EXCEPT ![c] = Append(@, r.verdict)]
            /\ \/ r.verdict = "Ok" /\ CacheSuccess(c, r) /\ UNCHANGED <<plan, tier>>
               \/ r.verdict # "Ok" /\ TierFails(c, r.verdict) /\ UNCHANGED <<memory, got>>
    BY DEF FetchAnswers
  <1>4. Hears(c, r.verdict)
    <2>1. Sound(urn[c], plan[c][tier[c]].kind, r)
      BY <1>1, <1>2, AnswerIsSound
    <2> QED
      BY <1>1, <1>3, <2>1 DEF Hears, Sound, Results
  <1>5. CASE r.verdict = "Ok" /\ CacheSuccess(c, r) /\ UNCHANGED <<plan, tier>>
    <2>1. Walk(c)' /\ Still(c)
      BY <1>1, <1>4, <1>5, CacheSuccessWell
    <2> QED
      BY <1>1, <2>1, OneWalks, PlansUnchanged
  <1>6. CASE TierFails(c, r.verdict) /\ UNCHANGED <<memory, got>>
    <2>1. Walk(c)'
      BY <1>1, <1>4, <1>6, TierFailsWell
    <2>2. GoesOn(c)
      BY <1>1, <1>6, TierFailsWalks DEF IInv
    <2>3. \A d \in Calls \ {c} : heard'[d] = heard[d]
      BY <1>3 DEF IInv, EnvOK
    <2>4. Still(c)
      BY <1>1, <1>6, <2>2, <2>3 DEF Still, GoesOn
    <2> QED
      BY <1>1, <2>1, <2>4, OneWalks, PlansUnchanged
  <1> QED
    BY <1>3, <1>5, <1>6

LEMMA WriteWalksWell ==
    ASSUME IInv, LInv, NEW c \in Calls, WriteBegins(c) \/ WriteEnds(c)
    PROVE  LInv'
  <1>1. UNCHANGED <<plan_cache, urn, plan, tier, got, outcome, heard, loopback>>
    BY DEF WriteBegins, WriteEnds, instanceVars
  <1>2. pc[c] \in {"write", "writing"}
        /\ (pc' = [pc EXCEPT ![c] = "writing"] \/ pc' = [pc EXCEPT ![c] = "done"])
    BY DEF WriteBegins, WriteEnds
  <1>3. Still(c) /\ pc'[c] \in {"writing", "done"}
    BY <1>1, <1>2 DEF Still, Moves, IInv, WalkOK
  <1>4. outcome[c].kind = "Success" /\ FairAnswer(c) /\ HeardWell(c)
    BY <1>2 DEF LInv, Walk
  <1>5. Walk(c)'
    BY <1>1, <1>3, <1>4 DEF Walk, FairAnswer, HeardWell, Refusal, Quiet, Pinned
  <1> QED
    BY <1>1, <1>3, <1>5, OneWalks, PlansUnchanged

\* Futures that are gone leave nothing behind, and the cached plans are as they were
\* or empty.
LEMMA ForgetWalksWell ==
    ASSUME LInv, NEW calls \in SUBSET Calls, Forget(calls), PlansTrusted', UNCHANGED loopback
    PROVE  LInv'
  <1>1. ASSUME NEW d \in calls PROVE Walk(d)'
    <2>1. pc'[d] = "idle" /\ heard'[d] = <<>> /\ outcome'[d] = NoOutcome
          /\ got'[d].verdict = "Transport"
      BY DEF Forget, NoResult, Failure
    <2> QED
      BY <2>1 DEF Walk, IntegrityVerdicts, NoOutcome
  <1>2. ASSUME NEW d \in Calls \ calls PROVE Walk(d)'
    <2>1. /\ pc'[d] = pc[d] /\ plan'[d] = plan[d] /\ tier'[d] = tier[d]
          /\ outcome'[d] = outcome[d] /\ urn'[d] = urn[d] /\ got'[d] = got[d]
          /\ heard'[d] = heard[d] /\ loopback' = loopback
      BY DEF Forget
    <2>2. Walk(d)
      BY DEF LInv
    <2> QED
      BY <2>1, <2>2 DEF Walk, Asking, Quiet, TrustedPlan, MayAsk, FairAnswer, HeardWell, Refusal
  <1> QED
    BY <1>1, <1>2 DEF LInv

LEMMA CrashWalksWell ==
    ASSUME IInv, LInv, NEW i \in Instances, Crash(i)
    PROVE  LInv'
  <1>1. loopback' = loopback /\ plan_cache' = [plan_cache EXCEPT ![i] = <<>>]
        /\ Forget({c \in Calls : Owner[c] = i})
    BY DEF Crash, envVars
  <1>2. TrustedPlan(i, <<>>)
    BY DEF TrustedPlan, EndsAtGateway
  <1>3. PlansTrusted'
    BY <1>1, <1>2, PlansKept DEF IInv
  <1> QED
    BY <1>1, <1>3, ForgetWalksWell

-----------------------------------------------------------------------------
LEMMA InitWalksWell == Init => LInv
  <1> SUFFICES ASSUME Init PROVE LInv
    OBVIOUS
  <1>1. PlansTrusted
    BY DEF Init, PlansTrusted, TrustedPlan, EndsAtGateway
  <1>2. ASSUME NEW c \in Calls PROVE Walk(c)
    <2>1. pc[c] = "idle" /\ heard[c] = <<>> /\ outcome[c] = NoOutcome
          /\ got[c].verdict = "Transport"
      BY DEF Init, NoResult, Failure
    <2> QED
      BY <2>1 DEF Walk, IntegrityVerdicts
  <1> QED
    BY <1>1, <1>2 DEF LInv

LEMMA StepWalksWell == IInv /\ LInv /\ [Next]_vars => LInv'
  <1> SUFFICES ASSUME IInv, LInv, [Next]_vars PROVE LInv'
    OBVIOUS
  <1>1. ASSUME NEW c \in Calls, Resolve(c) PROVE LInv'
    BY <1>1, ResolveWalksWell
  <1>2. ASSUME NEW c \in Calls, DropEntry(c) PROVE LInv'
    BY <1>2, DropEntryWalksWell
  <1>3. ASSUME NEW c \in Calls, ProbeAnswers(c) PROVE LInv'
    BY <1>3, ProbeAnswersWalksWell
  <1>4. ASSUME NEW c \in Calls, FetchAnswers(c) PROVE LInv'
    BY <1>4, FetchAnswersWalksWell
  <1>5. ASSUME NEW c \in Calls, WriteBegins(c) \/ WriteEnds(c) PROVE LInv'
    BY <1>5, WriteWalksWell
  <1>6. ASSUME NEW c \in Calls, Return(c) \/ Abandon(c) PROVE LInv'
    <2>1. Forget({c}) /\ UNCHANGED <<plan_cache, loopback>>
      BY <1>6 DEF Return, Abandon, instanceVars, envVars
    <2> QED
      BY <2>1, ForgetWalksWell, PlansUnchanged
  <1>7. ASSUME NEW i \in Instances, Crash(i) PROVE LInv'
    BY <1>7, CrashWalksWell
  <1>8. CASE HostChanges \/ Tamper \/ UNCHANGED vars
    <2>1. UNCHANGED <<plan_cache, pc, urn, plan, tier, got, outcome, heard, loopback>>
      BY <1>8 DEF HostChanges, Tamper, vars, instanceVars, callVars, envVars
    <2>2. \A c \in Calls : Walk(c)'
      BY <2>1 DEF LInv, Walk, Asking, Quiet, TrustedPlan, MayAsk, FairAnswer, HeardWell, Refusal
    <2> QED
      BY <2>1, <2>2, PlansUnchanged DEF LInv
  <1> QED
    BY <1>1, <1>2, <1>3, <1>4, <1>5, <1>6, <1>7, <1>8 DEF Next, Client

\* Every call walks the ladder as it should, through any interleaving, abandoned
\* future, crash and change of the world.
THEOREM WalksWell == Spec => [](IInv /\ LInv)
  <1>1. Init => IInv /\ LInv
    BY InitInvariant, InitWalksWell
  <1>2. IInv /\ LInv /\ [Next]_vars => (IInv /\ LInv)'
    BY StepInvariant, StepWalksWell
  <1> QED
    BY <1>1, <1>2, PTL DEF Spec

-----------------------------------------------------------------------------
\* An integrity verdict of a tier ends the resolve and is its outcome: the loop of
\* resolver.rs never asks another tier after it and never returns anything else.
THEOREM NeverMasked == Spec => []IntegrityNeverMasked
  <1>1. IInv /\ LInv => IntegrityNeverMasked
    <2> SUFFICES ASSUME IInv, LInv, NEW c \in Calls, NEW k \in 1..Len(heard[c]),
                        heard[c][k] \in IntegrityVerdicts
                 PROVE  /\ k = Len(heard[c])
                        /\ pc[c] = "done"
                        /\ outcome[c].kind = "IntegrityFailure"
      BY DEF IntegrityNeverMasked
    <2>1. Walk(c) /\ pc[c] \in PCs
      BY DEF LInv, IInv, WalkOK
    <2>2. heard[c] # <<>> /\ ~ Quiet(c) /\ Refusal(c)
      BY DEF Quiet, Refusal, IntegrityVerdicts
    <2>3. pc[c] \in {"write", "writing", "done"} /\ HeardWell(c)
      BY <2>1, <2>2 DEF Walk, Asking, PCs
    <2> QED
      BY <2>1, <2>2, <2>3 DEF Walk, HeardWell
  <1> QED
    BY <1>1, WalksWell, PTL

\* NotFound and Unreachable come from the last tier of resolver.rs's loop, after an
\* absence or a transport failure of every other one.
THEOREM LadderIsExhausted == Spec => []ExhaustedLadder
  <1>1. LInv => ExhaustedLadder
    BY DEF LInv, Walk, HeardWell, Quiet, EndsAtGateway, ExhaustedLadder
  <1> QED
    BY <1>1, WalksWell, PTL

\* Whatever plan an instance cached, rpc.rs's refusal of a rootless URN leaves only
\* loopback nodes to answer one.
THEOREM RootlessFromNodes == Spec => []RootlessOnlyFromNode
  <1>1. LInv => RootlessOnlyFromNode
    BY DEF LInv, Walk, Asking, FairAnswer, RootlessOnlyFromNode, NoOutcome, Outcome
  <1> QED
    BY <1>1, WalksWell, PTL

\* ladder.rs gives node trust to asserted loopback hosts only, and an override leaves
\* no other host to ask; plans that other calls cached included.
THEOREM TrustStaysLocal == Spec => []TrustedHostsOnly
  <1>1. IInv /\ LInv => TrustedHostsOnly
    <2> SUFFICES ASSUME IInv, LInv, NEW c \in Calls, pc[c] = "fetch"
                 PROVE  MayAsk(Owner[c], plan[c][tier[c]])
      BY DEF TrustedHostsOnly, MayAsk
    <2>1. tier[c] \in 1..Len(plan[c]) /\ TrustedPlan(Owner[c], plan[c])
      BY DEF IInv, WalkOK, Scheduled, LInv, Walk, Asking
    <2> QED
      BY <2>1 DEF TrustedPlan
  <1> QED
    BY <1>1, WalksWell, PTL
-----------------------------------------------------------------------------
\* Every step of a call gets it further.

\* The call c gains, and the others stay where they are.
Gains(c) ==
    /\ Progress(c)' > Progress(c)
    /\ \A d \in Calls \ {c} :
            /\ pc'[d] = pc[d] /\ urn'[d] = urn[d] /\ plan'[d] = plan[d] /\ tier'[d] = tier[d]
            /\ got'[d] = got[d] /\ outcome'[d] = outcome[d] /\ heard'[d] = heard[d]

LEMMA StartTierGains ==
    ASSUME WalkOK, NEW c \in Calls, NEW u, NEW p \in Plans, NEW k \in 1..Len(p),
           StartTier(c, u, p, k)
    PROVE  Progress(c)' \in Nat /\ Progress(c)' >= 3 + k
  <1>1. k \in {1, 2}
    BY PlanTiers
  <1>2. tier'[c] = k /\ (pc'[c] = "done" \/ pc'[c] = "fetch")
    BY DEF StartTier, Finish, WalkOK
  <1> QED
    BY <1>1, <1>2 DEF Progress

LEMMA AdoptPlanGains ==
    ASSUME WalkOK, NEW c \in Calls, NEW u, NEW p \in Plans, 1 \in 1..Len(p),
           AdoptPlan(c, u, p)
    PROVE  Progress(c)' \in Nat /\ Progress(c)' >= 4
  <1>1. StartTier(c, u, p, 1)
    BY DEF AdoptPlan
  <1>2. Progress(c)' \in Nat /\ Progress(c)' >= 3 + 1
    BY <1>1, StartTierGains
  <1> QED
    BY <1>2

LEMMA FinishGains ==
    ASSUME WalkOK, NEW c \in Calls, NEW o, Finish(c, o), UNCHANGED <<plan, tier>>
    PROVE  Moves(c) /\ Progress(c)' = 8
  <1>1. pc' = [pc EXCEPT ![c] = "done"] /\ outcome' = [outcome EXCEPT ![c] = o]
    BY DEF Finish
  <1>2. Moves(c) /\ pc'[c] = "done"
    BY <1>1 DEF WalkOK, Moves
  <1> QED
    BY <1>2 DEF Progress

LEMMA ProbeFromGains ==
    ASSUME WalkOK, NEW c \in Calls, NEW u, NEW k \in 1..3, ProbeFrom(c, u, k)
    PROVE  Progress(c)' \in Nat /\ Progress(c)' >= 1 + k
  <1>1. CASE AdoptPlan(c, u, GatewayOnly)
    BY <1>1, AdoptPlanGains, PlansBuilt
  <1>2. ASSUME NEW j \in k..2, pc' = [pc EXCEPT ![c] = "probe"],
               tier' = [tier EXCEPT ![c] = j]
        PROVE  Progress(c)' \in Nat /\ Progress(c)' >= 1 + k
    <2>1. pc'[c] = "probe" /\ tier'[c] = j
      BY <1>2 DEF WalkOK
    <2> QED
      BY <2>1 DEF Progress
  <1>3. Len(LocalTiers) = 2
    BY DEF LocalTiers
  <1> QED
    BY <1>1, <1>2, <1>3 DEF ProbeFrom

LEMMA BeginPlanGains ==
    ASSUME WalkOK, NEW c \in Calls, NEW u, BeginPlan(c, u)
    PROVE  Progress(c)' \in Nat /\ Progress(c)' >= 2
  <1> DEFINE i == Owner[c]
  <1>1. i \in Instances
    BY ResolverAssumption
  <1>2. CASE plan_cache[i] # <<>> /\ StartTier(c, u, plan_cache[i], 1)
    <2>1. plan_cache[i] \in Plans
      BY <1>1 DEF WalkOK
    <2>2. 1 \in 1..Len(plan_cache[i])
      BY <1>2, <2>1, PlansBuilt DEF Plans
    <2> QED
      BY <1>2, <2>1, <2>2, StartTierGains
  <1>3. CASE Override[i] # NoOverride /\ AdoptPlan(c, u, <<Classify(Override[i])>>)
    <2>1. Override[i] \in Hosts
      BY <1>1, <1>3, ResolverAssumption DEF Hosts
    <2> DEFINE p == <<Classify(Override[i])>>
    <2>2. p \in Plans /\ 1 \in 1..Len(p) /\ AdoptPlan(c, u, p)
      BY <1>3, <2>1, PlansBuilt
    <2> HIDE DEF p
    <2>3. Progress(c)' \in Nat /\ Progress(c)' >= 4
      BY <2>2, AdoptPlanGains
    <2> QED
      BY <2>3
  <1>4. CASE ProbeFrom(c, u, 1)
    BY <1>4, ProbeFromGains
  <1> QED
    BY <1>2, <1>3, <1>4 DEF BeginPlan

LEMMA ResolveGains ==
    ASSUME IInv, LInv, NEW c \in Calls, Resolve(c)
    PROVE  Gains(c)
  <1>1. PICK u \in Urns : \/ ResolveFromMemory(c, u) \/ ResolveFromDisk(c, u)
                          \/ ResolveRefusesDisk(c, u) \/ ResolveMisses(c, u)
    BY DEF Resolve
  <1>2. /\ pc[c] = "idle"
        /\ \A d \in Calls \ {c} : urn'[d] = urn[d] /\ heard'[d] = heard[d]
    BY <1>1, StartsClean DEF ResolveFromMemory, ResolveFromDisk, ResolveRefusesDisk, ResolveMisses
  <1>3. Progress(c) = 0
    BY <1>2 DEF Progress
  <1>4. CASE ResolveFromMemory(c, u) \/ ResolveFromDisk(c, u)
    <2>1. UNCHANGED <<plan, tier, got>>
      BY <1>4 DEF ResolveFromMemory, ResolveFromDisk
    <2>2. PICK bytes, via : Finish(c, Outcome("Success", bytes, via))
      BY <1>4 DEF ResolveFromMemory, ResolveFromDisk
    <2>3. Moves(c) /\ Progress(c)' = 8
      BY <2>1, <2>2, FinishGains DEF IInv
    <2> QED
      BY <1>2, <1>3, <2>1, <2>3 DEF Gains, Moves
  <1>5. CASE ResolveRefusesDisk(c, u)
    <2>1. pc'[c] = "drop" /\ Moves(c) /\ \A d \in Calls \ {c} : got'[d] = got[d]
      BY <1>5 DEF ResolveRefusesDisk, Moves, IInv, WalkOK, EntriesOK
    <2>2. Progress(c)' = 1
      BY <2>1 DEF Progress
    <2> QED
      BY <1>2, <1>3, <2>1, <2>2 DEF Gains, Moves
  <1>6. CASE ResolveMisses(c, u)
    <2>1. Moves(c) /\ got' = got
      BY <1>6, BeginPlanWalks DEF ResolveMisses, GoesOn, IInv
    <2>2. Progress(c)' \in Nat /\ Progress(c)' >= 2
      BY <1>6, BeginPlanGains DEF ResolveMisses, IInv
    <2> QED
      BY <1>2, <1>3, <2>1, <2>2 DEF Gains, Moves
  <1> QED
    BY <1>1, <1>4, <1>5, <1>6

LEMMA DropEntryGains ==
    ASSUME IInv, NEW c \in Calls, DropEntry(c)
    PROVE  Gains(c)
  <1>1. pc[c] = "drop" /\ UNCHANGED <<urn, got, heard>>
    BY DEF DropEntry
  <1>2. Progress(c) = 1
    BY <1>1 DEF Progress
  <1>3. CASE /\ Finish(c, Outcome("IntegrityFailure", NoBytes, "disk"))
             /\ UNCHANGED <<plan_cache, plan, tier>>
    <2>1. Moves(c) /\ Progress(c)' = 8
      BY <1>3, FinishGains DEF IInv
    <2> QED
      BY <1>1, <1>2, <2>1 DEF Gains, Moves
  <1>4. CASE BeginPlan(c, urn[c])
    <2>1. Moves(c)
      BY <1>4, BeginPlanWalks DEF GoesOn, IInv
    <2>2. Progress(c)' \in Nat /\ Progress(c)' >= 2
      BY <1>4, BeginPlanGains DEF IInv
    <2> QED
      BY <1>1, <1>2, <2>1, <2>2 DEF Gains, Moves
  <1> QED
    BY <1>3, <1>4 DEF DropEntry

LEMMA ProbeAnswersGains ==
    ASSUME IInv, NEW c \in Calls, ProbeAnswers(c)
    PROVE  Gains(c)
  <1>1. pc[c] = "probe" /\ UNCHANGED <<urn, got, heard>> /\ tier[c] \in 1..2
    BY DEF ProbeAnswers, IInv, WalkOK, Scheduled, LocalTiers
  <1>2. Progress(c) = 1 + tier[c]
    BY <1>1 DEF Progress
  <1>3. CASE AdoptPlan(c, urn[c], NodeFirst(LocalTiers[tier[c]]))
    <2> DEFINE p == NodeFirst(LocalTiers[tier[c]])
    <2>1. p \in Plans /\ 1 \in 1..Len(p)
      BY <1>1, PlansBuilt DEF LocalTiers, Hosts
    <2> HIDE DEF p
    <2>2. Moves(c)
      BY <1>3, <2>1, AdoptPlanWalks DEF GoesOn, IInv, p
    <2>3. Progress(c)' \in Nat /\ Progress(c)' >= 4
      BY <1>3, <2>1, AdoptPlanGains DEF IInv, p
    <2> QED
      BY <1>1, <1>2, <2>2, <2>3 DEF Gains, Moves
  <1>4. CASE ProbeFrom(c, urn[c], tier[c] + 1)
    <2>1. tier[c] + 1 \in 1..3
      BY <1>1
    <2>2. Moves(c)
      BY <1>4, <2>1, ProbeFromWalks DEF GoesOn, IInv
    <2>3. Progress(c)' \in Nat /\ Progress(c)' >= 1 + (tier[c] + 1)
      BY <1>4, <2>1, ProbeFromGains DEF IInv
    <2> QED
      BY <1>1, <1>2, <2>2, <2>3 DEF Gains, Moves
  <1> QED
    BY <1>3, <1>4 DEF ProbeAnswers

LEMMA FetchAnswersGains ==
    ASSUME IInv, NEW c \in Calls, FetchAnswers(c)
    PROVE  Gains(c)
  <1>1. pc[c] = "fetch" /\ UNCHANGED <<plan_cache, urn>>
    BY DEF FetchAnswers
  <1>2. plan[c] \in Plans /\ tier[c] \in 1..Len(plan[c])
    BY <1>1 DEF IInv, WalkOK, Scheduled
  <1>3. tier[c] \in {1, 2} /\ Len(plan[c]) \in {1, 2}
    BY <1>2, PlanTiers
  <1>4. Progress(c) = 3 + tier[c]
    BY <1>1 DEF Progress
  <1>5. PICK r \in Answers(plan[c][tier[c]], urn[c]) :
            /\ heard' = [heard EXCEPT ![c] = Append(@, r.verdict)]
            /\ \/ r.verdict = "Ok" /\ CacheSuccess(c, r) /\ UNCHANGED <<plan, tier>>
               \/ r.verdict # "Ok" /\ TierFails(c, r.verdict) /\ UNCHANGED <<memory, got>>
    BY DEF FetchAnswers
  <1>6. \A d \in Calls \ {c} : heard'[d] = heard[d]
    BY <1>5 DEF IInv, EnvOK
  <1>7. CASE CacheSuccess(c, r) /\ UNCHANGED <<plan, tier>>
    <2>1. /\ pc'[c] \in {"write", "done"}
          /\ Moves(c) /\ \A d \in Calls \ {c} : got'[d] = got[d]
      BY <1>7 DEF CacheSuccess, Finish, Moves, IInv, WalkOK, EntriesOK
    <2>2. Progress(c)' \in {6, 8}
      BY <2>1 DEF Progress
    <2> QED
      BY <1>1, <1>3, <1>4, <1>6, <2>1, <2>2 DEF Gains, Moves
  <1>8. CASE TierFails(c, r.verdict) /\ UNCHANGED <<memory, got>>
    <2>1. Moves(c)
      BY <1>1, <1>8, TierFailsWalks DEF GoesOn, IInv
    <2>2. CASE \E kind \in Kinds : Stop(c, kind)
      <3>1. Progress(c)' = 8
        BY <2>2, FinishGains DEF Stop, IInv
      <3> QED
        BY <1>1, <1>3, <1>4, <1>6, <1>8, <2>1, <3>1 DEF Gains, Moves
    <2>3. CASE ~ LastTier(c) /\ NextTier(c)
      <3>1. tier[c] + 1 \in 1..Len(plan[c])
        BY <1>2, <1>3, <2>3 DEF LastTier
      <3>2. Progress(c)' \in Nat /\ Progress(c)' >= 3 + (tier[c] + 1)
        BY <1>2, <2>3, <3>1, StartTierGains DEF NextTier, IInv
      <3> QED
        BY <1>1, <1>3, <1>4, <1>6, <1>8, <2>1, <3>2 DEF Gains, Moves
    <2> QED
      BY <1>8, <2>2, <2>3 DEF TierFails, Kinds
  <1> QED
    BY <1>5, <1>7, <1>8

LEMMA WriteGains ==
    ASSUME IInv, NEW c \in Calls, WriteBegins(c) \/ WriteEnds(c)
    PROVE  Gains(c)
  <1>1. UNCHANGED <<urn, plan, tier, got, outcome, heard>>
    BY DEF WriteBegins, WriteEnds
  <1>2. \/ pc[c] = "write" /\ pc' = [pc EXCEPT ![c] = "writing"]
        \/ pc[c] \in {"write", "writing"} /\ pc' = [pc EXCEPT ![c] = "done"]
    BY DEF WriteBegins, WriteEnds
  <1>3. Progress(c)' > Progress(c)
    BY <1>2 DEF Progress, IInv, WalkOK
  <1> QED
    BY <1>1, <1>2, <1>3 DEF Gains, IInv, WalkOK

\* Whatever happens to a call of Resolver::resolve gets it further, unless the call is
\* gone: it asks no tier twice, however many calls share the plan cache, and so makes
\* at most two probes and two fetches.  With answers to every request, which only the
\* run can assume, this is why it returns.
THEOREM NoTierTwice == Spec => WalkAdvances
  <1>1. IInv /\ LInv /\ [Next]_vars =>
            [\A c \in Calls :
                (/\ pc'[c] # "idle"
                 /\ <<pc'[c], urn'[c], plan'[c], tier'[c], got'[c], outcome'[c], heard'[c]>> #
                    <<pc[c], urn[c], plan[c], tier[c], got[c], outcome[c], heard[c]>>)
                => Progress(c)' > Progress(c)]_vars
    <2> SUFFICES ASSUME IInv, LInv, [Next]_vars, NEW d \in Calls, pc'[d] # "idle",
                        <<pc'[d], urn'[d], plan'[d], tier'[d], got'[d], outcome'[d], heard'[d]>> #
                        <<pc[d], urn[d], plan[d], tier[d], got[d], outcome[d], heard[d]>>
                 PROVE  Progress(d)' > Progress(d)
      OBVIOUS
    <2>1. ASSUME NEW c \in Calls, Gains(c) PROVE Progress(d)' > Progress(d)
      BY <2>1 DEF Gains
    <2>2. ASSUME NEW calls \in SUBSET Calls, Forget(calls) PROVE FALSE
      BY <2>2 DEF Forget, IInv, WalkOK, EntriesOK, EnvOK
    <2>3. CASE \E c \in Calls : Client(c)
      <3>1. PICK c \in Calls : Client(c)
        BY <2>3
      <3>2. CASE Return(c) \/ Abandon(c)
        BY <2>2, <3>2 DEF Return, Abandon
      <3> QED
        BY <2>1, <3>1, <3>2, ResolveGains, DropEntryGains, ProbeAnswersGains,
           FetchAnswersGains, WriteGains DEF Client
    <2>4. ASSUME NEW i \in Instances, Crash(i) PROVE FALSE
      BY <2>2, <2>4 DEF Crash
    <2>5. CASE HostChanges \/ Tamper \/ UNCHANGED vars
      BY <2>5 DEF HostChanges, Tamper, vars, instanceVars, callVars
    <2> QED
      BY <2>3, <2>4, <2>5 DEF Next
  <1> QED
    BY <1>1, WalksWell, PTL DEF Spec, WalkAdvances
=============================================================================
