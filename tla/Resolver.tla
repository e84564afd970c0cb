------------------------------- MODULE Resolver -------------------------------
(***************************************************************************)
(* Resolver::resolve of src/src/resolver.rs with the plan construction of  *)
(* src/src/ladder.rs and the disk cache of src/src/cache.rs: concurrent    *)
(* calls on resolver instances, one instance per process, that share a     *)
(* cache directory.                                                        *)
(*                                                                         *)
(* An instance is not Sync: its calls are futures of one thread, and only  *)
(* an await lets another call of the same instance run.  The awaits are    *)
(* the health probes and the fetches, so a step of the model is what the   *)
(* code does from one await to the next.  The file operations at the ends  *)
(* of such a segment are steps of their own, because another process can   *)
(* touch the same file between them; a call inside a segment keeps the     *)
(* other calls of its instance out (Busy).                                 *)
(***************************************************************************)
EXTENDS FetchResults, CacheContract, Naturals, Sequences

CONSTANTS
    Instances,         \* resolver instances, one per process
    Calls,             \* futures
    Owner,             \* the instance each call belongs to
    Override,          \* each instance's options.endpoint, or NoOverride
    NoOverride,
    DiskUsers,         \* the instances with options.cache_path set
    Remote,            \* an override host that is not loopback
    Unsteady,          \* the hosts that go up and down
    DiskTampering,     \* BOOLEAN: the cache directory is written by others
    TransportTimesOut, \* BOOLEAN: a request that gets no answer fails in time
    NoUrn,
    Torn               \* a file that holds no complete entry

DigLocal == "dig.local"
Localhost == "localhost"
Gateway == "rpc.dig.net"
LocalTiers == <<DigLocal, Localhost>>
Hosts == {DigLocal, Localhost, Gateway, Remote}

ASSUME ResolverAssumption ==
    /\ Owner \in [Calls -> Instances]
    /\ Override \in [Instances -> {NoOverride, DigLocal, Localhost, Remote}]
    /\ NoOverride \notin {DigLocal, Localhost, Remote}
    /\ Remote \notin {DigLocal, Localhost, Gateway}
    /\ DiskUsers \subseteq Instances
    /\ Unsteady \subseteq Hosts
    /\ DiskTampering \in BOOLEAN
    /\ TransportTimesOut \in BOOLEAN
    /\ NoUrn \notin Urns
    /\ Torn \notin DiskArtifacts

VARIABLES
    plan_cache,   \* per instance: the cached plan, <<>> before there is one
    memory,       \* per instance: the in-memory cache
    disk,         \* the cache directory: identity -> artifacts or Torn
    pc,           \* per call: where the future is suspended
    urn,          \* per call: the URN asked for
    plan,         \* per call: the plan it walks
    tier,         \* per call: the probed or fetched tier
    got,          \* per call: the result it is working on
    outcome,      \* per call: what resolve returned
    heard,        \* per call: the verdicts of the tiers, in order (history)
    up,           \* hosts that answer now
    loopback,     \* local tiers that resolve to loopback
    tampered      \* identities whose file somebody else wrote last (history)

instanceVars == <<plan_cache, memory>>
callVars == <<pc, urn, plan, tier, got, outcome, heard>>
envVars == <<up, loopback, tampered>>
vars == <<instanceVars, disk, callVars, envVars>>

-----------------------------------------------------------------------------
\* Endpoints and plans.

Node(host) == [host |-> host, kind |-> "node"]
Rpc(host) == [host |-> host, kind |-> "rpc"]
Endpoints == {Node(h) : h \in Hosts} \cup {Rpc(h) : h \in Hosts}

\* Slip: node trust by name, without the loopback assertion.
Classify_ByName(host) == IF host \in {DigLocal, Localhost} THEN Node(host) ELSE Rpc(host)

\* ladder::classify: node trust for an asserted-loopback host only.
Classify(host) == IF host \in loopback THEN Node(host) ELSE Rpc(host)

GatewayOnly == <<Rpc(Gateway)>>
NodeFirst(host) == <<Node(host), Rpc(Gateway)>>

Plans == {<<>>} \cup {<<e>> : e \in Endpoints} \cup {NodeFirst(h) : h \in Hosts}

NoOutcome == Outcome("Unreachable", NoBytes, "none")
NoResult == Failure("Transport")

Id(c) == ContentId(urn[c], got[c].root)

\* A call in the middle of a segment holds the instance's thread.
Busy(i) == \E c \in Calls : Owner[c] = i /\ pc[c] \in {"drop", "write", "writing"}

Disk(i) == i \in DiskUsers

-----------------------------------------------------------------------------
Init ==
    /\ plan_cache = [i \in Instances |-> <<>>]
    /\ memory = [i \in Instances |-> NoEntries]
    /\ disk = [id \in {} |-> Torn]
    /\ pc = [c \in Calls |-> "idle"]
    /\ urn = [c \in Calls |-> NoUrn]
    /\ plan = [c \in Calls |-> <<>>]
    /\ tier = [c \in Calls |-> 0]
    /\ got = [c \in Calls |-> NoResult]
    /\ outcome = [c \in Calls |-> NoOutcome]
    /\ heard = [c \in Calls |-> <<>>]
    /\ up = Hosts
    /\ loopback \in {{Localhost}, {DigLocal, Localhost}}
    /\ tampered = {}

\* A future that is gone leaves nothing behind.
Forget(calls) ==
    LET reset(f, value) == [c \in Calls |-> IF c \in calls THEN value ELSE f[c]]
    IN  /\ pc' = reset(pc, "idle")
        /\ urn' = reset(urn, NoUrn)
        /\ plan' = reset(plan, <<>>)
        /\ tier' = reset(tier, 0)
        /\ got' = reset(got, NoResult)
        /\ outcome' = reset(outcome, NoOutcome)
        /\ heard' = reset(heard, <<>>)

\* resolve returns: the future is ready.
Finish(c, result) ==
    /\ pc' = [pc EXCEPT ![c] = "done"]
    /\ outcome' = [outcome EXCEPT ![c] = result]

\* Slip: a rootless URN goes to the gateway like any other.
StartTier_AnyUrn(c, u, p, k) ==
    /\ plan' = [plan EXCEPT ![c] = p]
    /\ tier' = [tier EXCEPT ![c] = k]
    /\ pc' = [pc EXCEPT ![c] = "fetch"]
    /\ UNCHANGED outcome

\* The call c, for URN u, asks tier k of plan p.  The rpc path refuses a rootless URN
\* before it sends anything; every other fetch suspends on its first request.
StartTier(c, u, p, k) ==
    /\ plan' = [plan EXCEPT ![c] = p]
    /\ tier' = [tier EXCEPT ![c] = k]
    /\ IF p[k].kind = "rpc" /\ ~ Pinned(u)
       THEN Finish(c, Outcome("RootRequired", NoBytes, "none"))
       ELSE /\ pc' = [pc EXCEPT ![c] = "fetch"]
            /\ UNCHANGED outcome

\* The plan is known: cache it and ask its first tier.
AdoptPlan(c, u, p) ==
    /\ plan_cache' = [plan_cache EXCEPT ![Owner[c]] = p]
    /\ StartTier(c, u, p, 1)

\* The health probe of the first local tier from k on that is asserted loopback;
\* with none left, the gateway alone.
ProbeFrom(c, u, k) ==
    LET tiers == {j \in k..Len(LocalTiers) : LocalTiers[j] \in loopback}
    IN  \/ \E j \in tiers :
            /\ \A other \in tiers : j <= other
            /\ pc' = [pc EXCEPT ![c] = "probe"]
            /\ tier' = [tier EXCEPT ![c] = j]
            /\ UNCHANGED <<plan_cache, plan, outcome>>
        \/ tiers = {} /\ AdoptPlan(c, u, GatewayOnly)

\* Resolver::plan: the cached plan, else an override's one tier, else the ladder.
BeginPlan(c, u) ==
    LET i == Owner[c] IN
    \/ plan_cache[i] # <<>> /\ StartTier(c, u, plan_cache[i], 1) /\ UNCHANGED plan_cache
    \/ /\ plan_cache[i] = <<>>
       /\ Override[i] # NoOverride
       /\ AdoptPlan(c, u, <<Classify(Override[i])>>)
    \/ /\ plan_cache[i] = <<>>
       /\ Override[i] = NoOverride
       /\ ProbeFrom(c, u, 1)

-----------------------------------------------------------------------------
\* The lookups in front of the network.

MemoryHit(i, u) == Pinned(u) /\ ContentId(u, u.root) \in DOMAIN memory[i]

\* DiskCache::get: a missing, unreadable or torn file is a miss.
OnDisk(id) == id \in DOMAIN disk /\ disk[id] # Torn

DiskHit(i, u) ==
    Disk(i) /\ Pinned(u) /\ ~ MemoryHit(i, u) /\ OnDisk(ContentId(u, u.root))

\* Slip: a disk entry is decrypted and served unverified.
DiskResult_Trusted(u) == Opened_NoGate(u, disk[ContentId(u, u.root)], u.root)

\* A disk entry is opened against the URN's own root, exactly like a fetch.
DiskResult(u) == Opened(u, disk[ContentId(u, u.root)], u.root)

StartCall(c, u) ==
    /\ pc[c] = "idle"
    /\ ~ Busy(Owner[c])
    /\ urn' = [urn EXCEPT ![c] = u]
    /\ UNCHANGED <<disk, heard, envVars>>

\* A memory hit is process-trusted.
ResolveFromMemory(c, u) ==
    /\ StartCall(c, u)
    /\ MemoryHit(Owner[c], u)
    /\ Finish(c, Outcome("Success", memory[Owner[c]][ContentId(u, u.root)], "memory"))
    /\ UNCHANGED <<plan_cache, memory, plan, tier, got>>

\* A disk hit that verifies is served and put in memory.
ResolveFromDisk(c, u) ==
    /\ StartCall(c, u)
    /\ DiskHit(Owner[c], u)
    /\ DiskResult(u).verdict = "Ok"
    /\ \E m \in Puts(memory[Owner[c]], ContentId(u, u.root), DiskResult(u).bytes) :
            memory' = [memory EXCEPT ![Owner[c]] = m]
    /\ Finish(c, Outcome("Success", DiskResult(u).bytes, "disk"))
    /\ UNCHANGED <<plan_cache, plan, tier, got>>

\* The verdict on the entry at u's own identity.
Refused(u) == [verdict |-> DiskResult(u).verdict, bytes |-> NoBytes, root |-> u.root,
               artifacts |-> NoArtifacts]

\* A disk hit that does not: the file is about to be dropped.
ResolveRefusesDisk(c, u) ==
    /\ StartCall(c, u)
    /\ DiskHit(Owner[c], u)
    /\ DiskResult(u).verdict # "Ok"
    /\ got' = [got EXCEPT ![c] = Refused(u)]
    /\ pc' = [pc EXCEPT ![c] = "drop"]
    /\ UNCHANGED <<plan_cache, memory, plan, tier, outcome>>

ResolveMisses(c, u) ==
    /\ StartCall(c, u)
    /\ ~ MemoryHit(Owner[c], u)
    /\ ~ DiskHit(Owner[c], u)
    /\ BeginPlan(c, u)
    /\ UNCHANGED <<memory, got>>

Resolve(c) ==
    \E u \in Urns :
        \/ ResolveFromMemory(c, u)
        \/ ResolveFromDisk(c, u)
        \/ ResolveRefusesDisk(c, u)
        \/ ResolveMisses(c, u)

\* DiskCache::remove, best-effort; then an integrity failure is the outcome and
\* a malformed entry was a miss.
DropEntry(c) ==
    /\ pc[c] = "drop"
    /\ \/ /\ disk' = [id \in DOMAIN disk \ {Id(c)} |-> disk[id]]
          /\ tampered' = tampered \ {Id(c)}
       \/ UNCHANGED <<disk, tampered>>
    /\ \/ /\ got[c].verdict \in IntegrityVerdicts
          /\ Finish(c, Outcome("IntegrityFailure", NoBytes, "disk"))
          /\ UNCHANGED <<plan_cache, plan, tier>>
       \/ /\ got[c].verdict \notin IntegrityVerdicts
          /\ BeginPlan(c, urn[c])
    /\ UNCHANGED <<memory, urn, got, heard, up, loopback>>

-----------------------------------------------------------------------------
\* Answers.

\* Slip: a tier is probed until it is healthy.
ProbeAnswers_Retrying(c) ==
    /\ pc[c] = "probe"
    /\ ~ Busy(Owner[c])
    /\ LocalTiers[tier[c]] \in up
    /\ AdoptPlan(c, urn[c], NodeFirst(LocalTiers[tier[c]]))
    /\ UNCHANGED <<memory, disk, urn, got, heard, envVars>>

\* The probe of tier[c] ends: 2xx settles the plan, anything else tries the next.
ProbeAnswers(c) ==
    /\ pc[c] = "probe"
    /\ ~ Busy(Owner[c])
    /\ \/ /\ LocalTiers[tier[c]] \in up
          /\ AdoptPlan(c, urn[c], NodeFirst(LocalTiers[tier[c]]))
       \/ ProbeFrom(c, urn[c], tier[c] + 1)
    /\ UNCHANGED <<memory, disk, urn, got, heard, envVars>>

Answers(endpoint, u) ==
    IF endpoint.host \notin up THEN {Failure("Transport")}
    ELSE IF endpoint.kind = "node" THEN AnswersTo(u, NodeAnswers)
    ELSE AnswersTo(u, GatewayAnswers)

Stop(c, kind) ==
    /\ Finish(c, Outcome(kind, NoBytes, plan[c][tier[c]].kind))
    /\ UNCHANGED <<plan, tier>>

LastTier(c) == tier[c] = Len(plan[c])

NextTier(c) == StartTier(c, urn[c], plan[c], tier[c] + 1)

\* Slips: a decrypt failure falls through; the first absence is final.
TierFails_Masking(c, verdict) ==
    \/ verdict = "VerifyFailed" /\ Stop(c, "IntegrityFailure")
    \/ verdict \in {"NotFound", "Transport", "DecryptFailed"} /\ ~ LastTier(c) /\ NextTier(c)
    \/ verdict \in {"Transport", "DecryptFailed"} /\ LastTier(c) /\ Stop(c, "Unreachable")
    \/ verdict = "NotFound" /\ LastTier(c) /\ Stop(c, "NotFound")
    \/ verdict \in {"Rpc", "Parse"} /\ Stop(c, verdict)
TierFails_FirstAbsence(c, verdict) ==
    \/ verdict \in IntegrityVerdicts /\ Stop(c, "IntegrityFailure")
    \/ verdict = "NotFound" /\ Stop(c, "NotFound")
    \/ verdict = "Transport" /\ LastTier(c) /\ Stop(c, "Unreachable")
    \/ verdict = "Transport" /\ ~ LastTier(c) /\ NextTier(c)
    \/ verdict \in {"Rpc", "Parse"} /\ Stop(c, verdict)

\* Slip: an unreachable tier is asked again.
TierFails_Retrying(c, verdict) ==
    \/ verdict \in IntegrityVerdicts /\ Stop(c, "IntegrityFailure")
    \/ verdict = "NotFound" /\ LastTier(c) /\ Stop(c, "NotFound")
    \/ verdict = "NotFound" /\ ~ LastTier(c) /\ NextTier(c)
    \/ verdict = "Transport" /\ StartTier(c, urn[c], plan[c], tier[c])
    \/ verdict \in {"Rpc", "Parse"} /\ Stop(c, verdict)

\* What a failed tier means: an integrity failure aborts the ladder, absence and
\* unreachability fall through to the next tier, everything else is an error.
TierFails(c, verdict) ==
    \/ verdict \in IntegrityVerdicts /\ Stop(c, "IntegrityFailure")
    \/ verdict = "NotFound" /\ LastTier(c) /\ Stop(c, "NotFound")
    \/ verdict = "Transport" /\ LastTier(c) /\ Stop(c, "Unreachable")
    \/ verdict \in {"NotFound", "Transport"} /\ ~ LastTier(c) /\ NextTier(c)
    \/ verdict \in {"Rpc", "Parse"} /\ Stop(c, verdict)

\* Slip: a result without a concrete root is cached all the same.
CacheSuccess_Rootless(c, r) ==
    /\ \E m \in Puts(memory[Owner[c]], ContentId(urn[c], r.root), r.bytes) :
            memory' = [memory EXCEPT ![Owner[c]] = m]
    /\ Finish(c, Outcome("Success", r.bytes, plan[c][tier[c]].kind))
    /\ UNCHANGED got

\* Resolver::cache_success: bytes without a concrete root are not cached; memory
\* always takes them, the disk when they can be verified again.
CacheSuccess(c, r) ==
    LET id == ContentId(urn[c], r.root)
        success == Outcome("Success", r.bytes, plan[c][tier[c]].kind)
    IN  /\ IF r.root = NoRoot
           THEN UNCHANGED memory
           ELSE \E m \in Puts(memory[Owner[c]], id, r.bytes) :
                    memory' = [memory EXCEPT ![Owner[c]] = m]
        /\ IF r.root # NoRoot /\ Disk(Owner[c]) /\ r.artifacts # NoArtifacts
           THEN /\ pc' = [pc EXCEPT ![c] = "write"]
                /\ got' = [got EXCEPT ![c] = r]
                /\ outcome' = [outcome EXCEPT ![c] = success]
           ELSE Finish(c, success) /\ UNCHANGED got

FetchAnswers(c) ==
    /\ pc[c] = "fetch"
    /\ ~ Busy(Owner[c])
    /\ \E r \in Answers(plan[c][tier[c]], urn[c]) :
        /\ heard' = [heard EXCEPT ![c] = Append(@, r.verdict)]
        /\ \/ r.verdict = "Ok" /\ CacheSuccess(c, r) /\ UNCHANGED <<plan, tier>>
           \/ r.verdict # "Ok" /\ TierFails(c, r.verdict) /\ UNCHANGED <<memory, got>>
    /\ UNCHANGED <<plan_cache, disk, urn, envVars>>

\* DiskCache::put is std::fs::write: the file is truncated and then written, and
\* every error is ignored.
WriteBegins(c) ==
    /\ pc[c] = "write"
    /\ \/ /\ disk' = [id \in DOMAIN disk \cup {Id(c)} |->
                        IF id = Id(c) THEN Torn ELSE disk[id]]
          /\ tampered' = tampered \ {Id(c)}
          /\ pc' = [pc EXCEPT ![c] = "writing"]
       \/ pc' = [pc EXCEPT ![c] = "done"] /\ UNCHANGED <<disk, tampered>>
    /\ UNCHANGED <<instanceVars, urn, plan, tier, got, outcome, heard, up, loopback>>

\* Slip: the chunk plan is left out of the file.
WriteEnds_NoPlan(c) ==
    /\ pc[c] = "writing"
    /\ disk' = [id \in DOMAIN disk \cup {Id(c)} |->
                    IF id = Id(c) THEN [got[c].artifacts EXCEPT !.chunk_lens = "inconsistent"]
                    ELSE disk[id]]
    /\ tampered' = tampered \ {Id(c)}
    /\ pc' = [pc EXCEPT ![c] = "done"]
    /\ UNCHANGED <<instanceVars, urn, plan, tier, got, outcome, heard, up, loopback>>

\* The bytes land, or the write fails half way or overlaps another process's.
WriteEnds(c) ==
    /\ pc[c] = "writing"
    /\ \E file \in {got[c].artifacts, Torn} :
            disk' = [id \in DOMAIN disk \cup {Id(c)} |->
                        IF id = Id(c) THEN file ELSE disk[id]]
    /\ tampered' = tampered \ {Id(c)}
    /\ pc' = [pc EXCEPT ![c] = "done"]
    /\ UNCHANGED <<instanceVars, urn, plan, tier, got, outcome, heard, up, loopback>>

\* The caller takes the outcome and may resolve again.
Return(c) ==
    /\ pc[c] = "done"
    /\ Forget({c})
    /\ UNCHANGED <<instanceVars, disk, envVars>>

-----------------------------------------------------------------------------
\* Cancellation, crashes and the world outside.

\* The caller drops a future at an await: no cleanup runs.
Abandon(c) ==
    /\ pc[c] \in {"probe", "fetch"}
    /\ ~ Busy(Owner[c])
    /\ Forget({c})
    /\ UNCHANGED <<instanceVars, disk, envVars>>

\* The process dies, wherever its calls are, and a new instance takes its place.
Crash(i) ==
    /\ plan_cache' = [plan_cache EXCEPT ![i] = <<>>]
    /\ memory' = [memory EXCEPT ![i] = NoEntries]
    /\ Forget({c \in Calls : Owner[c] = i})
    /\ UNCHANGED <<disk, envVars>>

HostChanges ==
    \E h \in Unsteady :
        /\ up' = IF h \in up THEN up \ {h} ELSE up \cup {h}
        /\ UNCHANGED <<instanceVars, disk, callVars, loopback, tampered>>

\* Somebody else writes an entry, or cuts one short.
Tamper ==
    /\ DiskTampering
    /\ \E u \in {v \in Urns : Pinned(v)}, file \in Wire \cup {Torn} :
        LET id == ContentId(u, u.root) IN
        /\ disk' = [k \in DOMAIN disk \cup {id} |-> IF k = id THEN file ELSE disk[k]]
        /\ tampered' = tampered \cup {id}
    /\ UNCHANGED <<instanceVars, callVars, up, loopback>>

Client(c) ==
    \/ Resolve(c) \/ DropEntry(c) \/ ProbeAnswers(c) \/ FetchAnswers(c)
    \/ WriteBegins(c) \/ WriteEnds(c) \/ Return(c) \/ Abandon(c)

Next ==
    \/ \E c \in Calls : Client(c)
    \/ \E i \in Instances : Crash(i)
    \/ HostChanges
    \/ Tamper

Spec == Init /\ [][Next]_vars

\* A polled future runs to its next await; a transport with a timeout answers every
\* request in the end, and the executor polls a woken future even if other futures
\* of its thread keep running in between (hence strong fairness: Busy disables it
\* for a while).  Nobody has to start a call, drop it, crash or change anything.
Fairness ==
    \A c \in Calls :
        /\ WF_vars(DropEntry(c))
        /\ WF_vars(WriteBegins(c))
        /\ WF_vars(WriteEnds(c))
        /\ TransportTimesOut => SF_vars(ProbeAnswers(c)) /\ SF_vars(FetchAnswers(c))

FairSpec == Spec /\ Fairness
=============================================================================
