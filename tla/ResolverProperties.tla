-------------------------- MODULE ResolverProperties --------------------------
(***************************************************************************)
(* What must be true of Resolver::resolve: the type invariant, the safety  *)
(* properties, the action properties and liveness, and the claims of the   *)
(* documentation that the code does not keep.                              *)
(***************************************************************************)
EXTENDS Resolver

PCs == {"idle", "probe", "fetch", "drop", "write", "writing", "done"}

\* Every variable keeps its type (the RefCells and locals of resolver.rs).
TypeOK ==
    /\ plan_cache \in [Instances -> Plans]
    /\ DOMAIN memory = Instances
    /\ \A i \in Instances : IsCache(memory[i], ContentIds, Bytes)
    /\ IsCache(disk, ContentIds, DiskArtifacts \cup {Torn})
    /\ pc \in [Calls -> PCs]
    /\ urn \in [Calls -> Urns \cup {NoUrn}]
    /\ plan \in [Calls -> Plans]
    /\ tier \in [Calls -> {0, 1, 2}]
    /\ got \in [Calls -> Results]
    /\ outcome \in [Calls -> Outcomes]
    /\ heard \in [Calls -> Seq(Verdicts)]
    /\ up \in SUBSET Hosts
    /\ loopback \in SUBSET {DigLocal, Localhost}
    /\ tampered \in SUBSET ContentIds

-----------------------------------------------------------------------------
\* Authenticity.

\* No route ever returns bytes that the publisher did not commit to for this URN:
\* not the gateway or the disk whatever they hold, not memory whatever an earlier
\* call (of another URN, another root, another salt) left there.
SuccessIsAuthentic ==
    \A c \in Calls :
        pc[c] \in {"write", "writing", "done"} /\ outcome[c].kind = "Success" =>
            outcome[c].bytes \in Allowed(urn[c], outcome[c].via)

\* A memory hit is served without verification (resolver.rs "process-trusted"), so
\* every entry must hold bytes its root publishes for its resource, through any
\* interleaving of calls, rootless ones included.
MemoryHoldsPublished ==
    \A i \in Instances : \A id \in DOMAIN memory[i] :
        id.root \in Roots => memory[i][id] \in Published(id.resource, id.root)

\* Content identities are immutable: two instances that have the same identity in
\* memory, by whatever routes and whenever they fetched it, have the same bytes.
RoutesAgree ==
    \A i, j \in Instances : \A id \in DOMAIN memory[i] \cap DOMAIN memory[j] :
        id.root \in Roots => memory[i][id] = memory[j][id]

\* A live cache entry is never overwritten with other bytes: a store whose tip
\* advances changes what a rootless URN resolves to, never what an identity maps to.
MemoryIsImmutable ==
    [][\A i \in Instances : \A id \in DOMAIN memory[i] \cap DOMAIN memory'[i] :
            id.root \in Roots => memory'[i][id] = memory[i][id]]_vars

-----------------------------------------------------------------------------
\* Failing closed.

\* An integrity verdict at any tier is the last thing a resolve hears, and what it
\* returns: no later tier, cached plan or other call turns it into anything else.
IntegrityNeverMasked ==
    \A c \in Calls : \A k \in 1..Len(heard[c]) :
        heard[c][k] \in IntegrityVerdicts =>
            /\ k = Len(heard[c])
            /\ pc[c] = "done"
            /\ outcome[c].kind = "IntegrityFailure"

\* NotFound and Unreachable are verdicts on the whole ladder: every tier of the plan
\* was asked, every one was absent or unreachable, and the outcome is the last one's.
\* However old the plan of resolver.rs plan_cache is, without an override the last one
\* is the gateway, so a node that went away does not take the network with it.
ExhaustedLadder ==
    \A c \in Calls :
        pc[c] = "done" /\ outcome[c].kind \in {"NotFound", "Unreachable"} =>
            /\ Len(heard[c]) = Len(plan[c])
            /\ \A k \in 1..Len(heard[c]) : heard[c][k] \in {"NotFound", "Transport"}
            /\ heard[c][Len(plan[c])] =
                    IF outcome[c].kind = "NotFound" THEN "NotFound" ELSE "Transport"
            /\ Override[Owner[c]] = NoOverride => plan[c][Len(plan[c])] = Rpc(Gateway)

\* Bytes for a rootless URN come from a loopback node alone: neither the gateway, a
\* remote override nor a cache in front of them ever answers one.
RootlessOnlyFromNode ==
    \A c \in Calls :
        (pc[c] \in {"fetch", "write", "writing", "done"} /\ ~ Pinned(urn[c])) =>
            /\ pc[c] = "fetch" => plan[c][tier[c]].kind = "node"
            /\ outcome[c].kind = "Success" => outcome[c].via = "node"

\* Crypto-free node trust goes to loopback hosts only, and an override is the only
\* host that is ever asked, also through a plan that another call cached.
TrustedHostsOnly ==
    \A c \in Calls : pc[c] = "fetch" =>
        LET e == plan[c][tier[c]] IN
        /\ e.kind = "node" => e.host \in loopback
        /\ Override[Owner[c]] # NoOverride => e.host = Override[Owner[c]]

\* resolver.rs "Tampered on-disk artifacts": a resolve refuses a disk entry for its
\* integrity only if somebody else wrote that entry.  Writes that a crash or another
\* process cut short, and entries of other URNs, never look like an attack.
DiskFailureMeansTampering ==
    [][\A c \in Calls :
            /\ pc[c] = "idle"
            /\ pc'[c] = "drop"
            /\ got'[c].verdict \in IntegrityVerdicts
            => ContentId(urn'[c], urn'[c].root) \in tampered]_vars

\* cache.rs "a cache written by one is readable by the other": a whole entry that only
\* resolvers have touched is served, whatever URN, rootless or pinned, process and
\* route brought it there and whatever was written, torn or removed there before.
IntactDiskEntryIsServed ==
    [][\A c \in Calls :
            (/\ pc[c] = "idle" /\ pc'[c] # "idle"
             /\ Disk(Owner[c]) /\ Pinned(urn'[c])
             /\ OnDisk(ContentId(urn'[c], urn'[c].root))
             /\ ContentId(urn'[c], urn'[c].root) \notin tampered)
            => (/\ pc'[c] = "done"
                /\ outcome'[c].kind = "Success"
                /\ outcome'[c].via \in {"memory", "disk"})]_vars

-----------------------------------------------------------------------------
\* Termination.

\* How far a resolve has come: past the disk, through at most two probes and two
\* fetches, past the file.
Progress(c) ==
    CASE pc[c] = "drop" -> 1
      [] pc[c] = "probe" -> 1 + tier[c]
      [] pc[c] = "fetch" -> 3 + tier[c]
      [] pc[c] = "write" -> 6
      [] pc[c] = "writing" -> 7
      [] pc[c] = "done" -> 8
      [] OTHER -> 0

\* The loops of Resolver::plan and resolve ask no tier twice: whatever happens to a
\* call gets it further, unless it is gone.  A plan another call caches meanwhile, an
\* entry dropped before or a host that comes back never sends it back to an earlier
\* await, so a resolve makes a bounded number of requests.
WalkAdvances ==
    [][\A c \in Calls :
            (/\ pc'[c] # "idle"
             /\ <<pc'[c], urn'[c], plan'[c], tier'[c], got'[c], outcome'[c], heard'[c]>> #
                <<pc[c], urn[c], plan[c], tier[c], got[c], outcome[c], heard[c]>>)
            => Progress(c)' > Progress(c)]_vars

\* Every resolve that is not abandoned returns, if the transport times out.
EveryResolveReturns ==
    \A c \in Calls : pc[c] # "idle" ~> pc[c] \in {"idle", "done"}

\* README.md, of the ladder's probe in a browser: "The probe is caught/timed-out, so the
\* ladder simply falls through".  No probe of build_plan keeps a resolve waiting.
EveryProbeEnds ==
    \A c \in Calls : pc[c] = "probe" ~> pc[c] # "probe"

-----------------------------------------------------------------------------
\* Seen from outside, every call is asked for one URN, waits, and holds one answer that
\* the contract allows until it is taken or lost; no other call's step changes it.
Contract == INSTANCE ResolveContract WITH
    phase <- [c \in Calls |-> CASE pc[c] = "idle" -> "idle"
                                [] pc[c] = "done" -> "answered"
                                [] OTHER -> "asked"],
    asked <- urn,
    answer <- [c \in Calls |-> IF pc[c] = "done" THEN outcome[c] ELSE NoOutcome]
ImplementsContract == Contract!Spec

-----------------------------------------------------------------------------
\* What the documentation says and the code does not keep.

\* SPEC.md: NotFound "after EVERY tier reported absence".
NotFoundMeansEveryTierAbsent ==
    \A c \in Calls :
        pc[c] = "done" /\ outcome[c].kind = "NotFound" =>
            \A k \in 1..Len(heard[c]) : heard[c][k] = "NotFound"

\* cache.rs: the cache never weakens fail-closed.  A pinned URN that no node ever
\* answered is served from memory only what opens under its own key.
WarmIsAsStrictAsCold ==
    \A c \in Calls :
        pc[c] = "done" /\ outcome[c].kind = "Success" /\ outcome[c].via = "memory" =>
            outcome[c].bytes \in Authentic(urn[c], urn[c].root)
=============================================================================
