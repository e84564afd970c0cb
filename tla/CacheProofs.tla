----------------------------- MODULE CacheProofs -----------------------------
(***************************************************************************)
(* What the caches hold: a file that only resolvers have written opens for *)
(* every URN of its identity, and an identity has one content in memory.   *)
(*                                                                         *)
(* Both need an assumption that the cache identity of cache.rs makes and   *)
(* the code does not check, so it is a premise here and not an ASSUME.     *)
(***************************************************************************)
EXTENDS ContractProofs

\* The URNs that are resolved name a resource, with a salt, under one chain label:
\* the identity has no label, the key derivation has (finding Doc_warm_cache).
OneLabel ==
    \A u, v \in Urns : u.resource = v.resource /\ u.salt = v.salt => u.chain = v.chain

\* A generation publishes one plaintext per resource.
OneText ==
    \A resource \in Resources, root \in Roots :
        \A x, y \in Published(resource, root) : x = y

-----------------------------------------------------------------------------
\* A file that a resolver left whole verifies and opens for whoever looks it up.
Opens(id, art) ==
    \A u \in Urns : Pinned(u) /\ ContentId(u, u.root) = id =>
        VerifyAndDecrypt(u, art, u.root) = "Ok"

FilesOpen ==
    \A id \in DOMAIN disk : disk[id] # Torn /\ id \notin tampered => Opens(id, disk[id])

WritesOpen ==
    \A c \in Calls : pc[c] \in {"write", "writing"} =>
        VerifyAndDecrypt(urn[c], got[c].artifacts, got[c].root) = "Ok"

FInv == FilesOpen /\ WritesOpen

\* Under one label, what opens for one URN of an identity opens for all.
LEMMA OpensForAll ==
    ASSUME OneLabel, NEW w \in Urns, NEW art, NEW root,
           VerifyAndDecrypt(w, art, root) = "Ok"
    PROVE  Opens(ContentId(w, root), art)
  <1> SUFFICES ASSUME NEW u \in Urns, ContentId(u, u.root) = ContentId(w, root)
               PROVE  VerifyAndDecrypt(u, art, u.root) = "Ok"
    BY DEF Opens
  <1>1. u.resource = w.resource /\ u.root = root /\ u.salt = w.salt
    BY DEF ContentId
  <1>2. KeyOf(u) = KeyOf(w)
    BY <1>1 DEF OneLabel, KeyOf
  <1> QED
    BY <1>1, <1>2 DEF VerifyAndDecrypt, Decrypts

\* Only what the call c writes changes what c will write; nothing else is about to
\* be written.
LEMMA WritesKept ==
    ASSUME FInv, NEW c \in Calls, Alone(c), urn' = urn, pc'[c] # "write",
           \A d \in Calls \ {c} : got'[d] = got[d],
           pc'[c] = "writing" => pc[c] = "write" /\ got'[c] = got[c]
    PROVE  WritesOpen'
  BY DEF FInv, WritesOpen, Alone

LEMMA ResolveKeepsFiles ==
    ASSUME IInv, FInv, NEW c \in Calls, Resolve(c)
    PROVE  FInv'
  <1>1. PICK u \in Urns : \/ ResolveFromMemory(c, u) \/ ResolveFromDisk(c, u)
                          \/ ResolveRefusesDisk(c, u) \/ ResolveMisses(c, u)
    BY DEF Resolve
  <1>2. UNCHANGED <<disk, tampered>>
    BY <1>1 DEF ResolveFromMemory, ResolveFromDisk, ResolveRefusesDisk, ResolveMisses,
       StartCall, envVars
  <1>3. pc'[c] \notin {"write", "writing"}
    <2>1. CASE ResolveMisses(c, u)
      BY <2>1, BeginPlanWalks DEF ResolveMisses, IInv, GoesOn
    <2> QED
      BY <1>1, <2>1 DEF ResolveFromMemory, ResolveFromDisk, ResolveRefusesDisk, Finish,
         IInv, WalkOK
  <1>4. \A d \in Calls \ {c} : got'[d] = got[d]
    BY <1>1 DEF ResolveFromMemory, ResolveFromDisk, ResolveRefusesDisk, ResolveMisses,
       IInv, EntriesOK
  <1>5. \A d \in Calls \ {c} : pc'[d] = pc[d] /\ urn'[d] = urn[d]
    BY ResolveMoves DEF Alone, IInv, EntriesOK
  <1> QED
    BY <1>2, <1>3, <1>4, <1>5 DEF FInv, FilesOpen, WritesOpen

LEMMA DropEntryKeepsFiles ==
    ASSUME IInv, FInv, NEW c \in Calls, DropEntry(c)
    PROVE  FInv'
  <1>1. Alone(c) /\ urn' = urn /\ got' = got
    BY GoingOnMoves DEF DropEntry
  <1>2. pc'[c] \notin {"write", "writing"}
    <2>1. CASE BeginPlan(c, urn[c])
      BY <2>1, BeginPlanWalks DEF IInv, GoesOn
    <2>2. CASE Finish(c, Outcome("IntegrityFailure", NoBytes, "disk"))
      BY <2>2 DEF Finish, IInv, WalkOK
    <2> QED
      BY <2>1, <2>2 DEF DropEntry
  <1>3. WritesOpen'
    BY <1>1, <1>2, WritesKept
  <1>4. \/ /\ disk' = [id \in DOMAIN disk \ {Id(c)} |-> disk[id]]
           /\ tampered' = tampered \ {Id(c)}
        \/ disk' = disk /\ tampered' = tampered
    BY DEF DropEntry
  <1>5. FilesOpen'
    BY <1>4 DEF FInv, FilesOpen, Opens
  <1> QED
    BY <1>3, <1>5 DEF FInv

LEMMA ProbeMoves ==
    ASSUME IInv, NEW c \in Calls, ProbeAnswers(c)
    PROVE  pc'[c] \in {"probe", "fetch", "done"}
  <1>1. tier[c] \in 1..2
    BY DEF ProbeAnswers, IInv, WalkOK, Scheduled, LocalTiers
  <1>2. CASE AdoptPlan(c, urn[c], NodeFirst(LocalTiers[tier[c]]))
    <2>1. LocalTiers[tier[c]] \in Hosts
      BY <1>1 DEF LocalTiers, Hosts
    <2> QED
      BY <1>2, <2>1, PlansBuilt, AdoptPlanWalks DEF IInv, GoesOn
  <1>3. CASE ProbeFrom(c, urn[c], tier[c] + 1)
    <2>1. tier[c] + 1 \in 1..3
      BY <1>1
    <2> QED
      BY <1>3, <2>1, ProbeFromWalks DEF IInv, GoesOn
  <1> QED
    BY <1>2, <1>3 DEF ProbeAnswers

\* Only verified artifacts are on their way to the disk.
LEMMA FetchAnswersKeepsFiles ==
    ASSUME IInv, FInv, NEW c \in Calls, FetchAnswers(c)
    PROVE  FInv'
  <1>1. /\ pc[c] = "fetch" /\ urn[c] \in Urns
        /\ UNCHANGED <<disk, tampered>>
        /\ Alone(c) /\ urn' = urn
    BY GoingOnMoves DEF FetchAnswers, envVars, IInv, EntriesOK, HasEntry
  <1>2. plan[c][tier[c]] \in Endpoints
    BY <1>1, PlanTiers DEF IInv, WalkOK, Scheduled
  <1>3. PICK r \in Answers(plan[c][tier[c]], urn[c]) :
            \/ r.verdict = "Ok" /\ CacheSuccess(c, r)
            \/ TierFails(c, r.verdict) /\ got' = got
    BY DEF FetchAnswers
  <1>4. Sound(urn[c], plan[c][tier[c]].kind, r)
    BY <1>1, <1>2, AnswerIsSound
  <1>5. FilesOpen'
    BY <1>1 DEF FInv, FilesOpen
  <1>6. CASE TierFails(c, r.verdict) /\ got' = got
    <2>1. pc'[c] \notin {"write", "writing"}
      <3>1. GoesOn(c)
        BY <1>1, <1>6, TierFailsWalks DEF FetchAnswers, IInv
      <3> QED
        BY <3>1 DEF GoesOn
    <2>2. WritesOpen'
      BY <1>1, <1>6, <2>1, WritesKept
    <2> QED
      BY <1>5, <2>2 DEF FInv
  <1>7. CASE r.verdict = "Ok" /\ CacheSuccess(c, r)
    <2>1. \/ pc' = [pc EXCEPT ![c] = "done"] /\ got' = got
          \/ /\ r.artifacts # NoArtifacts
             /\ pc' = [pc EXCEPT ![c] = "write"] /\ got' = [got EXCEPT ![c] = r]
      BY <1>7 DEF CacheSuccess, Finish
    <2>2. CASE pc' = [pc EXCEPT ![c] = "done"] /\ got' = got
      <3>1. pc'[c] = "done"
        BY <2>2 DEF IInv, WalkOK
      <3> QED
        BY <1>1, <1>5, <2>2, <3>1, WritesKept DEF FInv
    <2>3. CASE /\ r.artifacts # NoArtifacts
               /\ pc' = [pc EXCEPT ![c] = "write"] /\ got' = [got EXCEPT ![c] = r]
      <3>1. VerifyAndDecrypt(urn[c], r.artifacts, r.root) = "Ok"
        BY <1>4, <1>7, <2>3 DEF Sound
      <3>2. got'[c] = r /\ \A d \in Calls \ {c} : got'[d] = got[d] /\ pc'[d] = pc[d]
        BY <2>3 DEF IInv, EntriesOK, WalkOK
      <3>3. WritesOpen'
        BY <1>1, <3>1, <3>2 DEF FInv, WritesOpen
      <3> QED
        BY <1>5, <3>3 DEF FInv
    <2> QED
      BY <2>1, <2>2, <2>3
  <1> QED
    BY <1>3, <1>6, <1>7

\* Half a file is torn, and a whole one holds what was verified.
LEMMA WriteKeepsFiles ==
    ASSUME OneLabel, IInv, FInv, NEW c \in Calls, WriteBegins(c) \/ WriteEnds(c)
    PROVE  FInv'
  <1>1. /\ pc[c] \in {"write", "writing"} /\ urn[c] \in Urns
        /\ VerifyAndDecrypt(urn[c], got[c].artifacts, got[c].root) = "Ok"
    BY DEF WriteBegins, WriteEnds, IInv, EntriesOK, HasEntry, FInv, WritesOpen
  <1>2. Opens(Id(c), got[c].artifacts)
    BY <1>1, OpensForAll DEF Id
  <1>3. \/ /\ \E file \in {got[c].artifacts, Torn} :
                disk' = [id \in DOMAIN disk \cup {Id(c)} |->
                            IF id = Id(c) THEN file ELSE disk[id]]
           /\ tampered' = tampered \ {Id(c)}
        \/ disk' = disk /\ tampered' = tampered
    BY DEF WriteBegins, WriteEnds
  <1>4. FilesOpen'
    BY <1>2, <1>3 DEF FInv, FilesOpen, Opens
  <1>5. /\ \/ pc' = [pc EXCEPT ![c] = "writing"]
           \/ pc' = [pc EXCEPT ![c] = "done"]
        /\ pc[c] \in {"write", "writing"} /\ got' = got /\ urn' = urn
    BY DEF WriteBegins, WriteEnds
  <1>6. WritesOpen'
    BY <1>5 DEF FInv, WritesOpen, IInv, WalkOK
  <1> QED
    BY <1>4, <1>6 DEF FInv

LEMMA ForgetKeepsFiles ==
    ASSUME FInv, NEW calls \in SUBSET Calls, Forget(calls), UNCHANGED <<disk, tampered>>
    PROVE  FInv'
  <1>1. \A d \in Calls : \/ pc'[d] = "idle"
                         \/ pc'[d] = pc[d] /\ urn'[d] = urn[d] /\ got'[d] = got[d]
    BY DEF Forget
  <1>2. FilesOpen'
    BY DEF FInv, FilesOpen
  <1>3. WritesOpen'
    BY <1>1 DEF FInv, WritesOpen
  <1> QED
    BY <1>2, <1>3 DEF FInv

LEMMA StepKeepsFiles ==
    OneLabel /\ IInv /\ FInv /\ [Next]_vars => FInv'
  <1> SUFFICES ASSUME OneLabel, IInv, FInv, [Next]_vars PROVE FInv'
    OBVIOUS
  <1>1. ASSUME NEW c \in Calls, Resolve(c) PROVE FInv'
    BY <1>1, ResolveKeepsFiles
  <1>2. ASSUME NEW c \in Calls, DropEntry(c) PROVE FInv'
    BY <1>2, DropEntryKeepsFiles
  <1>3. ASSUME NEW c \in Calls, ProbeAnswers(c) PROVE FInv'
    <2>1. UNCHANGED <<disk, tampered, urn, got>> /\ Alone(c)
      BY <1>3, GoingOnMoves DEF ProbeAnswers, envVars
    <2>2. pc'[c] \in {"probe", "fetch", "done"}
      BY <1>3, ProbeMoves
    <2>3. WritesOpen'
      BY <2>1, <2>2, WritesKept
    <2> QED
      BY <2>1, <2>3 DEF FInv, FilesOpen
  <1>4. ASSUME NEW c \in Calls, FetchAnswers(c) PROVE FInv'
    BY <1>4, FetchAnswersKeepsFiles
  <1>5. ASSUME NEW c \in Calls, WriteBegins(c) \/ WriteEnds(c) PROVE FInv'
    BY <1>5, WriteKeepsFiles
  <1>6. ASSUME NEW c \in Calls, Return(c) \/ Abandon(c) PROVE FInv'
    BY <1>6, ForgetKeepsFiles DEF Return, Abandon, envVars
  <1>7. ASSUME NEW i \in Instances, Crash(i) PROVE FInv'
    BY <1>7, ForgetKeepsFiles DEF Crash, envVars
  <1>8. CASE Tamper
    <2>1. PICK id, file : /\ disk' = [k \in DOMAIN disk \cup {id} |->
                                            IF k = id THEN file ELSE disk[k]]
                          /\ tampered' = tampered \cup {id}
      BY <1>8 DEF Tamper
    <2>2. FilesOpen'
      BY <2>1 DEF FInv, FilesOpen
    <2>3. WritesOpen'
      BY <1>8 DEF Tamper, callVars, FInv, WritesOpen
    <2> QED
      BY <2>2, <2>3 DEF FInv
  <1>9. CASE HostChanges \/ UNCHANGED vars
    <2>1. UNCHANGED <<disk, tampered, pc, urn, got>>
      BY <1>9 DEF HostChanges, vars, callVars, envVars
    <2> QED
      BY <2>1 DEF FInv, FilesOpen, WritesOpen
  <1> QED
    BY <1>1, <1>2, <1>3, <1>4, <1>5, <1>6, <1>7, <1>8, <1>9 DEF Next, Client

\* Every file of the resolvers opens, under one label per resource and salt.
THEOREM FilesAreSound == OneLabel => (Spec => [](IInv /\ FInv))
  <1> SUFFICES ASSUME OneLabel PROVE Spec => [](IInv /\ FInv)
    OBVIOUS
  <1>1. Init => IInv /\ FInv
    BY InitInvariant DEF Init, FInv, FilesOpen, WritesOpen
  <1>2. IInv /\ FInv /\ [Next]_vars => (IInv /\ FInv)'
    BY StepInvariant, StepKeepsFiles
  <1> QED
    BY <1>1, <1>2, PTL DEF Spec

-----------------------------------------------------------------------------
\* Only resolve itself wakes an idle call.
LEMMA OnlyResolveStarts ==
    ASSUME IInv, [Next]_vars, NEW c \in Calls, pc[c] = "idle", pc'[c] # "idle"
    PROVE  Resolve(c)
  <1>1. ASSUME NEW d \in Calls, d # c, Client(d) PROVE FALSE
    <2>1. CASE Resolve(d)
      BY <1>1, <2>1, ResolveMoves DEF Alone
    <2>2. CASE Return(d) \/ Abandon(d)
      BY <1>1, <2>2 DEF Return, Abandon, Forget
    <2>3. CASE \/ DropEntry(d) \/ ProbeAnswers(d) \/ FetchAnswers(d)
               \/ WriteBegins(d) \/ WriteEnds(d)
      BY <1>1, <2>3, GoingOnMoves DEF Alone
    <2> QED
      BY <1>1, <2>1, <2>2, <2>3 DEF Client
  <1>2. ASSUME Client(c) PROVE Resolve(c)
    BY <1>2, GoingOnMoves DEF Client, Return, Abandon
  <1>3. ASSUME NEW i \in Instances, Crash(i) PROVE FALSE
    BY <1>3 DEF Crash, Forget
  <1>4. pc' # pc
    OBVIOUS
  <1>5. ~ (HostChanges \/ Tamper \/ UNCHANGED vars)
    BY <1>4 DEF HostChanges, Tamper, vars, callVars
  <1> QED
    BY <1>1, <1>2, <1>3, <1>5 DEF Next

\* A whole file that nobody else wrote opens for the URN that finds it.
LEMMA IntactOpens ==
    ASSUME IInv, FInv, NEW i \in Instances, NEW u \in Urns, DiskHit(i, u),
           ContentId(u, u.root) \notin tampered
    PROVE  DiskResult(u).verdict = "Ok"
  <1>1. VerifyAndDecrypt(u, disk[ContentId(u, u.root)], u.root) = "Ok"
    BY DEF FInv, FilesOpen, Opens, DiskHit, OnDisk
  <1> QED
    BY <1>1 DEF DiskResult, Opened, Fetched

LEMMA RefusalMeansTampering ==
    IInv /\ FInv /\ [Next]_vars =>
        \A c \in Calls :
            pc[c] = "idle" /\ pc'[c] = "drop" => ContentId(urn'[c], urn'[c].root) \in tampered
  <1> SUFFICES ASSUME IInv, FInv, [Next]_vars, NEW c \in Calls, pc[c] = "idle", pc'[c] = "drop"
               PROVE  ContentId(urn'[c], urn'[c].root) \in tampered
    OBVIOUS
  <1>1. Resolve(c)
    BY OnlyResolveStarts
  <1>2. PICK u \in Urns : \/ ResolveFromMemory(c, u) \/ ResolveFromDisk(c, u)
                          \/ ResolveRefusesDisk(c, u) \/ ResolveMisses(c, u)
    BY <1>1 DEF Resolve
  <1>3. ~ (ResolveFromMemory(c, u) \/ ResolveFromDisk(c, u))
    BY DEF ResolveFromMemory, ResolveFromDisk, Finish, IInv, WalkOK
  <1>4. ~ ResolveMisses(c, u)
    BY BeginPlanWalks DEF ResolveMisses, IInv, GoesOn
  <1>5. ResolveRefusesDisk(c, u)
    BY <1>2, <1>3, <1>4
  <1>6. urn'[c] = u
    BY <1>5, StartCallKeeps DEF ResolveRefusesDisk
  <1>7. Owner[c] \in Instances
    BY ResolverAssumption
  <1> QED
    BY <1>5, <1>6, <1>7, IntactOpens DEF ResolveRefusesDisk

\* resolver.rs takes an entry that does not verify for tampered: it is right, for any
\* interleaving of processes, torn writes and removals, under one label per resource
\* and salt (in fact every refused entry was somebody else's, integrity failure or not).
THEOREM RefusedMeansTampered == OneLabel => (Spec => DiskFailureMeansTampering)
  <1> SUFFICES ASSUME OneLabel PROVE Spec => DiskFailureMeansTampering
    OBVIOUS
  <1>1. Spec => [](IInv /\ FInv)
    BY FilesAreSound
  <1>2. IInv /\ FInv /\ [Next]_vars =>
            [\A c \in Calls :
                /\ pc[c] = "idle"
                /\ pc'[c] = "drop"
                /\ got'[c].verdict \in IntegrityVerdicts
                => ContentId(urn'[c], urn'[c].root) \in tampered]_vars
    BY RefusalMeansTampering
  <1> QED
    BY <1>1, <1>2, PTL DEF Spec, DiskFailureMeansTampering

LEMMA IntactIsServed ==
    IInv /\ FInv /\ [Next]_vars =>
        \A c \in Calls :
            (/\ pc[c] = "idle" /\ pc'[c] # "idle"
             /\ Disk(Owner[c]) /\ Pinned(urn'[c])
             /\ OnDisk(ContentId(urn'[c], urn'[c].root))
             /\ ContentId(urn'[c], urn'[c].root) \notin tampered)
            => (/\ pc'[c] = "done"
                /\ outcome'[c].kind = "Success"
                /\ outcome'[c].via \in {"memory", "disk"})
  <1> SUFFICES ASSUME IInv, FInv, [Next]_vars, NEW c \in Calls,
                      pc[c] = "idle", pc'[c] # "idle",
                      Disk(Owner[c]), Pinned(urn'[c]),
                      OnDisk(ContentId(urn'[c], urn'[c].root)),
                      ContentId(urn'[c], urn'[c].root) \notin tampered
               PROVE  /\ pc'[c] = "done"
                      /\ outcome'[c].kind = "Success"
                      /\ outcome'[c].via \in {"memory", "disk"}
    OBVIOUS
  <1>1. Resolve(c)
    BY OnlyResolveStarts
  <1>2. PICK u \in Urns : \/ ResolveFromMemory(c, u) \/ ResolveFromDisk(c, u)
                          \/ ResolveRefusesDisk(c, u) \/ ResolveMisses(c, u)
    BY <1>1 DEF Resolve
  <1>3. urn'[c] = u
    BY <1>2, StartCallKeeps
       DEF ResolveFromMemory, ResolveFromDisk, ResolveRefusesDisk, ResolveMisses
  <1>4. Owner[c] \in Instances
    BY ResolverAssumption
  <1>5. MemoryHit(Owner[c], u) \/ DiskHit(Owner[c], u)
    BY <1>3 DEF DiskHit
  <1>6. ~ ResolveMisses(c, u)
    BY <1>5 DEF ResolveMisses
  <1>7. ~ ResolveRefusesDisk(c, u)
    BY <1>3, <1>4, IntactOpens DEF ResolveRefusesDisk
  <1>8. ASSUME NEW bytes, NEW via \in {"memory", "disk"},
               Finish(c, Outcome("Success", bytes, via))
        PROVE  /\ pc'[c] = "done"
               /\ outcome'[c].kind = "Success"
               /\ outcome'[c].via \in {"memory", "disk"}
    BY <1>8 DEF Finish, Outcome, IInv, WalkOK
  <1>9. CASE ResolveFromMemory(c, u)
    <2>1. Finish(c, Outcome("Success", memory[Owner[c]][ContentId(u, u.root)], "memory"))
      BY <1>9 DEF ResolveFromMemory
    <2> QED
      BY <1>8, <2>1
  <1>10. CASE ResolveFromDisk(c, u)
    <2>1. Finish(c, Outcome("Success", DiskResult(u).bytes, "disk"))
      BY <1>10 DEF ResolveFromDisk
    <2> QED
      BY <1>8, <2>1
  <1> QED
    BY <1>2, <1>6, <1>7, <1>9, <1>10

\* cache.rs's directory is interchangeable between processes and builds: a whole file of
\* theirs is served to any of them, under one label per resource and salt.
THEOREM WholeFilesAreServed == OneLabel => (Spec => IntactDiskEntryIsServed)
  <1> SUFFICES ASSUME OneLabel PROVE Spec => IntactDiskEntryIsServed
    OBVIOUS
  <1>1. Spec => [](IInv /\ FInv)
    BY FilesAreSound
  <1>2. IInv /\ FInv /\ [Next]_vars =>
            [\A c \in Calls :
                (/\ pc[c] = "idle" /\ pc'[c] # "idle"
                 /\ Disk(Owner[c]) /\ Pinned(urn'[c])
                 /\ OnDisk(ContentId(urn'[c], urn'[c].root))
                 /\ ContentId(urn'[c], urn'[c].root) \notin tampered)
                => (/\ pc'[c] = "done"
                    /\ outcome'[c].kind = "Success"
                    /\ outcome'[c].via \in {"memory", "disk"})]_vars
    BY IntactIsServed
  <1> QED
    BY <1>1, <1>2, PTL DEF Spec, IntactDiskEntryIsServed

-----------------------------------------------------------------------------
\* The identities in memory are typed, with published bytes: one text for each.
LEMMA MemoryTyped ==
    ASSUME IInv, NEW i \in Instances, NEW id \in DOMAIN memory[i], id.root \in Roots
    PROVE  id.resource \in Resources /\ memory[i][id] \in Published(id.resource, id.root)
  <1>1. id \in ContentIds
    BY DEF IInv, StoreOK, IsCache
  <1>2. id.resource \in Resources
    BY <1>1 DEF ContentIds
  <1> QED
    BY <1>2 DEF IInv, StoreOK, MemoryHoldsPublished

\* The memory caches of all instances agree, whichever route (node, gateway or disk of
\* resolver.rs) filled them, where a generation publishes one text per resource.
THEOREM CachesAgree == OneText => (Spec => []RoutesAgree)
  <1> SUFFICES ASSUME OneText PROVE Spec => []RoutesAgree
    OBVIOUS
  <1>1. IInv => RoutesAgree
    <2> SUFFICES ASSUME IInv, NEW i \in Instances, NEW j \in Instances,
                        NEW id \in DOMAIN memory[i] \cap DOMAIN memory[j], id.root \in Roots
                 PROVE  memory[i][id] = memory[j][id]
      BY DEF RoutesAgree
    <2> QED
      BY MemoryTyped DEF OneText
  <1> QED
    BY Invariant, <1>1, PTL

\* The two states of a step hold what the same roots publish.
LEMMA MemoryKeepsContent ==
    OneText /\ IInv /\ IInv' =>
        \A i \in Instances : \A id \in DOMAIN memory[i] \cap DOMAIN memory'[i] :
            id.root \in Roots => memory'[i][id] = memory[i][id]
  <1> SUFFICES ASSUME OneText, IInv, IInv', NEW i \in Instances,
                      NEW id \in DOMAIN memory[i] \cap DOMAIN memory'[i], id.root \in Roots
               PROVE  memory'[i][id] = memory[i][id]
    OBVIOUS
  <1>1. id.resource \in Resources /\ memory[i][id] \in Published(id.resource, id.root)
    BY MemoryTyped
  <1>2. memory'[i][id] \in Published(id.resource, id.root)
    BY DEF IInv, StoreOK, MemoryHoldsPublished, Published
  <1> QED
    BY <1>1, <1>2 DEF OneText

\* cache_success and the disk path of resolver.rs overwrite a live entry with the same
\* bytes only: an identity never changes its content.
THEOREM ContentIsImmutable == OneText => (Spec => MemoryIsImmutable)
  <1> SUFFICES ASSUME OneText PROVE Spec => MemoryIsImmutable
    OBVIOUS
  <1>1. IInv /\ IInv' =>
            [\A i \in Instances : \A id \in DOMAIN memory[i] \cap DOMAIN memory'[i] :
                id.root \in Roots => memory'[i][id] = memory[i][id]]_vars
    BY MemoryKeepsContent
  <1> QED
    BY Invariant, <1>1, PTL DEF MemoryIsImmutable
-----------------------------------------------------------------------------
\* Memory is as strict as the network where no node is trusted.

\* The one endpoint of this instance is remote, so it is asked for ciphertext only.
TrustsNoNode(i) == Override[i] = Remote

\* What memory holds is what each URN of the identity opens to under its own key.
MemoryOpens ==
    \A i \in Instances : TrustsNoNode(i) =>
        \A id \in DOMAIN memory[i], u \in Urns :
            Pinned(u) /\ ContentId(u, u.root) = id => memory[i][id] \in Authentic(u, u.root)

\* A call that returns a memory hit, at once or one day.
HitsOpen ==
    \A c \in Calls :
        (/\ TrustsNoNode(Owner[c])
         /\ pc[c] \in {"write", "writing", "done"}
         /\ outcome[c].kind = "Success" /\ outcome[c].via = "memory")
        => outcome[c].bytes \in Authentic(urn[c], urn[c].root)

WInv == MemoryOpens /\ HitsOpen

\* Under one label the URNs of an identity have one key.
LEMMA OneAuthentic ==
    ASSUME OneLabel, NEW u \in Urns, NEW w \in Urns,
           ContentId(u, u.root) = ContentId(w, w.root)
    PROVE  Authentic(u, u.root) = Authentic(w, w.root)
  <1>1. u.resource = w.resource /\ u.root = w.root /\ u.salt = w.salt
    BY DEF ContentId
  <1>2. KeyOf(u) = KeyOf(w)
    BY <1>1 DEF OneLabel, KeyOf
  <1> QED
    BY <1>1, <1>2 DEF Authentic

\* A put of authentic bytes.
LEMMA PutOpens ==
    ASSUME OneLabel, IInv, MemoryOpens, NEW i \in Instances, NEW id, NEW bytes,
           TrustsNoNode(i) => \E w \in Urns :
                id = ContentId(w, w.root) /\ bytes \in Authentic(w, w.root),
           NEW m \in Puts(memory[i], id, bytes), memory' = [memory EXCEPT ![i] = m]
    PROVE  MemoryOpens'
  <1>1. \A j \in Instances : memory'[j] = IF j = i THEN m ELSE memory[j]
    BY DEF IInv, StoreOK
  <1>2. SUFFICES ASSUME TrustsNoNode(i), NEW k \in DOMAIN m, NEW u \in Urns,
                        Pinned(u), ContentId(u, u.root) = k
                 PROVE  m[k] \in Authentic(u, u.root)
    BY <1>1 DEF MemoryOpens, TrustsNoNode
  <1>3. \/ k \in DOMAIN memory[i] /\ m[k] = memory[i][k]
        \/ k = id /\ m[k] = bytes
    BY DEF Puts
  <1>4. CASE k \in DOMAIN memory[i] /\ m[k] = memory[i][k]
    BY <1>2, <1>4 DEF MemoryOpens
  <1>5. CASE k = id /\ m[k] = bytes
    BY <1>2, <1>5, OneAuthentic
  <1> QED
    BY <1>3, <1>4, <1>5

LEMMA MemoryOpensKept ==
    ASSUME MemoryOpens, memory' = memory
    PROVE  MemoryOpens'
  BY DEF MemoryOpens, TrustsNoNode

\* Only the call c moves, and what it returns from memory, if it does, is authentic.
LEMMA HitsKept ==
    ASSUME HitsOpen, NEW c \in Calls, Alone(c), \A d \in Calls \ {c} : urn'[d] = urn[d],
           (/\ TrustsNoNode(Owner[c])
            /\ pc'[c] \in {"write", "writing", "done"}
            /\ outcome'[c].kind = "Success" /\ outcome'[c].via = "memory")
           => outcome'[c].bytes \in Authentic(urn'[c], urn'[c].root)
    PROVE  HitsOpen'
  BY DEF HitsOpen, Alone, TrustsNoNode

\* A call that goes on without success.
LEMMA GoingOnOpens ==
    ASSUME WInv, NEW c \in Calls, GoesOn(c), \A d \in Calls \ {c} : urn'[d] = urn[d],
           memory' = memory
    PROVE  WInv'
  <1>1. Alone(c) /\ (pc'[c] \in {"write", "writing", "done"} => outcome'[c].kind # "Success")
    BY DEF GoesOn, Moves, Alone
  <1>2. HitsOpen'
    BY <1>1, HitsKept DEF WInv
  <1> QED
    BY <1>2, MemoryOpensKept DEF WInv

LEMMA ResolveOpens ==
    ASSUME OneLabel, IInv, WInv, NEW c \in Calls, NEW u \in Urns,
           \/ ResolveFromMemory(c, u) \/ ResolveFromDisk(c, u)
           \/ ResolveRefusesDisk(c, u) \/ ResolveMisses(c, u)
    PROVE  WInv'
  <1> DEFINE i == Owner[c]
             id == ContentId(u, u.root)
  <1>1. i \in Instances
    BY ResolverAssumption
  <1>2. urn'[c] = u /\ \A d \in Calls \ {c} : urn'[d] = urn[d]
    BY StartCallKeeps
       DEF ResolveFromMemory, ResolveFromDisk, ResolveRefusesDisk, ResolveMisses
  <1>3. Alone(c)
    BY ResolveMoves DEF Resolve
  <1>4. CASE ResolveFromMemory(c, u)
    <2>1. Pinned(u) /\ id \in DOMAIN memory[i] /\ memory' = memory
      BY <1>4 DEF ResolveFromMemory, MemoryHit
    <2>2. outcome'[c] = Outcome("Success", memory[i][id], "memory")
      BY <1>4 DEF ResolveFromMemory, Finish, IInv, WalkOK
    <2>3. TrustsNoNode(i) => memory[i][id] \in Authentic(u, u.root)
      BY <1>1, <2>1 DEF WInv, MemoryOpens
    <2>4. outcome'[c].bytes = memory[i][id]
      BY <2>2 DEF Outcome
    <2>5. HitsOpen'
      BY <1>2, <1>3, <2>3, <2>4, HitsKept DEF WInv
    <2> QED
      BY <2>1, <2>5, MemoryOpensKept DEF WInv
  <1>5. CASE ResolveFromDisk(c, u)
    <2>1. DiskResult(u).bytes \in Authentic(u, u.root)
      BY <1>1, <1>5, DiskHitOpens DEF ResolveFromDisk
    <2>2. PICK m \in Puts(memory[i], id, DiskResult(u).bytes) :
                memory' = [memory EXCEPT ![i] = m]
      BY <1>5 DEF ResolveFromDisk
    <2>3. MemoryOpens'
      BY <1>1, <2>1, <2>2, PutOpens DEF WInv
    <2>4. outcome'[c] = Outcome("Success", DiskResult(u).bytes, "disk")
      BY <1>5 DEF ResolveFromDisk, Finish, IInv, WalkOK
    <2>5. outcome'[c].via # "memory"
      BY <2>4 DEF Outcome
    <2>6. HitsOpen'
      BY <1>2, <1>3, <2>5, HitsKept DEF WInv
    <2> QED
      BY <2>3, <2>6 DEF WInv
  <1>6. CASE ResolveRefusesDisk(c, u)
    <2>1. pc'[c] = "drop" /\ memory' = memory
      BY <1>6 DEF ResolveRefusesDisk, IInv, WalkOK
    <2>2. HitsOpen'
      BY <1>2, <1>3, <2>1, HitsKept DEF WInv
    <2> QED
      BY <2>1, <2>2, MemoryOpensKept DEF WInv
  <1>7. CASE ResolveMisses(c, u)
    <2>1. GoesOn(c) /\ memory' = memory
      BY <1>7, BeginPlanWalks DEF ResolveMisses, IInv
    <2> QED
      BY <1>2, <2>1, GoingOnOpens
  <1> QED
    BY <1>4, <1>5, <1>6, <1>7

\* The one tier of such an instance is no node: it is asked for pinned URNs only, and
\* what it answers is opened against the root of the URN.
LEMMA RemoteAnswers ==
    ASSUME IInv, LInv, NEW c \in Calls, pc[c] = "fetch", TrustsNoNode(Owner[c]),
           NEW r \in Answers(plan[c][tier[c]], urn[c]), r.verdict = "Ok"
    PROVE  /\ plan[c][tier[c]].kind = "rpc"
           /\ r.root = urn[c].root /\ r.bytes \in Authentic(urn[c], urn[c].root)
  <1> DEFINE e == plan[c][tier[c]]
  <1>1. urn[c] \in Urns /\ tier[c] \in 1..Len(plan[c]) /\ e \in Endpoints
    BY PlanTiers DEF IInv, EntriesOK, HasEntry, WalkOK, Scheduled
  <1>2. MayAsk(Owner[c], e)
    BY <1>1 DEF LInv, Walk, Asking, TrustedPlan
  <1>3. e.host = Remote /\ Remote \notin loopback
    BY <1>2, ResolverAssumption DEF MayAsk, TrustsNoNode, IInv, EnvOK
  <1>4. e.kind = "rpc"
    BY <1>1, <1>2, <1>3 DEF MayAsk, Endpoints, Node, Rpc
  <1>5. Sound(urn[c], "rpc", r)
    BY <1>1, <1>4, AnswerIsSound
  <1>6. r.bytes \in Authentic(urn[c], urn[c].root)
    BY <1>5 DEF Sound, Allowed
  <1>7. r \in AnswersTo(urn[c], GatewayAnswers)
    <2>1. r # Failure("Transport")
      BY DEF Failure
    <2> QED
      BY <1>4, <2>1 DEF Answers
  <1>8. PICK art \in Wire : r = Opened(urn[c], art, urn[c].root)
    <2>1. \A v \in {"NotFound", "Transport", "Rpc"} : r # Failure(v)
      BY DEF Failure
    <2> QED
      BY <1>7, <2>1 DEF AnswersTo, GatewayAnswers
  <1>9. r.root = urn[c].root
    BY <1>1, <1>8, OpenedResult, FetchAssumption
  <1> QED
    BY <1>4, <1>6, <1>9

LEMMA FetchAnswersOpens ==
    ASSUME OneLabel, IInv, LInv, WInv, NEW c \in Calls, FetchAnswers(c)
    PROVE  WInv'
  <1>1. pc[c] = "fetch" /\ urn[c] \in Urns /\ Owner[c] \in Instances
        /\ Alone(c) /\ urn' = urn
    BY GoingOnMoves, ResolverAssumption DEF FetchAnswers, IInv, EntriesOK, HasEntry
  <1>2. PICK r \in Answers(plan[c][tier[c]], urn[c]) :
            \/ r.verdict = "Ok" /\ CacheSuccess(c, r)
            \/ TierFails(c, r.verdict) /\ memory' = memory
    BY DEF FetchAnswers
  <1>3. CASE TierFails(c, r.verdict) /\ memory' = memory
    <2>1. GoesOn(c)
      BY <1>1, <1>3, TierFailsWalks DEF FetchAnswers, IInv
    <2> QED
      BY <1>1, <1>3, <2>1, GoingOnOpens
  <1>4. CASE r.verdict = "Ok" /\ CacheSuccess(c, r)
    <2>1. plan[c][tier[c]].kind \in {"node", "rpc"}
      BY <1>1, PlanTiers DEF IInv, WalkOK, Scheduled, Endpoints, Node, Rpc
    <2>2. outcome'[c] = Outcome("Success", r.bytes, plan[c][tier[c]].kind)
      BY <1>4 DEF CacheSuccess, Finish, IInv, WalkOK
    <2>3. outcome'[c].via # "memory"
      BY <2>1, <2>2 DEF Outcome
    <2>4. HitsOpen'
      BY <1>1, <2>3, HitsKept DEF WInv
    <2>5. CASE memory' = memory
      BY <2>4, <2>5, MemoryOpensKept DEF WInv
    <2>6. ASSUME NEW m \in Puts(memory[Owner[c]], ContentId(urn[c], r.root), r.bytes),
                 memory' = [memory EXCEPT ![Owner[c]] = m]
          PROVE  MemoryOpens'
      <3>1. TrustsNoNode(Owner[c]) =>
                /\ ContentId(urn[c], r.root) = ContentId(urn[c], urn[c].root)
                /\ r.bytes \in Authentic(urn[c], urn[c].root)
        BY <1>1, <1>4, RemoteAnswers
      <3> QED
        BY <1>1, <2>6, <3>1, PutOpens DEF WInv
    <2> QED
      BY <1>4, <2>4, <2>5, <2>6 DEF WInv, CacheSuccess
  <1> QED
    BY <1>2, <1>3, <1>4

LEMMA DropEntryOpens ==
    ASSUME IInv, WInv, NEW c \in Calls, DropEntry(c)
    PROVE  WInv'
  <1>1. urn' = urn /\ memory' = memory /\ Alone(c)
    BY GoingOnMoves DEF DropEntry
  <1>2. CASE BeginPlan(c, urn[c])
    <2>1. GoesOn(c)
      BY <1>2, BeginPlanWalks DEF IInv
    <2> QED
      BY <1>1, <2>1, GoingOnOpens
  <1>3. CASE Finish(c, Outcome("IntegrityFailure", NoBytes, "disk"))
    <2>1. outcome'[c] = Outcome("IntegrityFailure", NoBytes, "disk")
      BY <1>3 DEF Finish, IInv, WalkOK
    <2>2. outcome'[c].kind # "Success"
      BY <2>1 DEF Outcome
    <2>3. HitsOpen'
      BY <1>1, <2>2, HitsKept DEF WInv
    <2> QED
      BY <1>1, <2>3, MemoryOpensKept DEF WInv
  <1> QED
    BY <1>2, <1>3 DEF DropEntry

LEMMA ForgetOpens ==
    ASSUME HitsOpen, NEW calls \in SUBSET Calls, Forget(calls)
    PROVE  HitsOpen'
  <1>1. \A d \in Calls : \/ pc'[d] = "idle"
                         \/ pc'[d] = pc[d] /\ urn'[d] = urn[d] /\ outcome'[d] = outcome[d]
    BY DEF Forget
  <1> QED
    BY <1>1 DEF HitsOpen, TrustsNoNode

LEMMA StepOpens ==
    OneLabel /\ IInv /\ LInv /\ WInv /\ [Next]_vars => WInv'
  <1> SUFFICES ASSUME OneLabel, IInv, LInv, WInv, [Next]_vars PROVE WInv'
    OBVIOUS
  <1>1. ASSUME NEW c \in Calls, Resolve(c) PROVE WInv'
    BY <1>1, ResolveOpens DEF Resolve
  <1>2. ASSUME NEW c \in Calls, DropEntry(c) PROVE WInv'
    BY <1>2, DropEntryOpens
  <1>3. ASSUME NEW c \in Calls, ProbeAnswers(c) PROVE WInv'
    <2>1. urn' = urn /\ memory' = memory
      BY <1>3 DEF ProbeAnswers
    <2>2. GoesOn(c)
      <3>1. tier[c] \in 1..2
        BY <1>3 DEF ProbeAnswers, IInv, WalkOK, Scheduled, LocalTiers
      <3>2. CASE AdoptPlan(c, urn[c], NodeFirst(LocalTiers[tier[c]]))
        <4>1. LocalTiers[tier[c]] \in Hosts
          BY <3>1 DEF LocalTiers, Hosts
        <4> QED
          BY <3>2, <4>1, PlansBuilt, AdoptPlanWalks DEF IInv
      <3>3. CASE ProbeFrom(c, urn[c], tier[c] + 1)
        <4>1. tier[c] + 1 \in 1..3
          BY <3>1
        <4> QED
          BY <3>3, <4>1, ProbeFromWalks DEF IInv
      <3> QED
        BY <1>3, <3>2, <3>3 DEF ProbeAnswers
    <2> QED
      BY <2>1, <2>2, GoingOnOpens
  <1>4. ASSUME NEW c \in Calls, FetchAnswers(c) PROVE WInv'
    BY <1>4, FetchAnswersOpens
  <1>5. ASSUME NEW c \in Calls, WriteBegins(c) \/ WriteEnds(c) PROVE WInv'
    <2>1. /\ pc[c] \in {"write", "writing"} /\ Alone(c)
          /\ UNCHANGED <<urn, outcome, memory>>
      BY <1>5, GoingOnMoves DEF WriteBegins, WriteEnds, instanceVars
    <2>2. HitsOpen'
      BY <2>1, HitsKept DEF WInv, HitsOpen
    <2> QED
      BY <2>1, <2>2, MemoryOpensKept DEF WInv
  <1>6. ASSUME NEW c \in Calls, Return(c) \/ Abandon(c) PROVE WInv'
    <2>1. Forget({c}) /\ memory' = memory
      BY <1>6 DEF Return, Abandon, instanceVars
    <2> QED
      BY <2>1, ForgetOpens, MemoryOpensKept DEF WInv
  <1>7. ASSUME NEW i \in Instances, Crash(i) PROVE WInv'
    <2>1. Forget({c \in Calls : Owner[c] = i}) /\ memory' = [memory EXCEPT ![i] = NoEntries]
      BY <1>7 DEF Crash
    <2>2. \A j \in Instances : memory'[j] = IF j = i THEN NoEntries ELSE memory[j]
      BY <2>1 DEF IInv, StoreOK
    <2>3. DOMAIN NoEntries = {}
      BY DEF NoEntries
    <2>4. MemoryOpens'
      BY <2>2, <2>3 DEF WInv, MemoryOpens, TrustsNoNode
    <2> QED
      BY <2>1, <2>4, ForgetOpens DEF WInv
  <1>8. CASE HostChanges \/ Tamper \/ UNCHANGED vars
    <2>1. UNCHANGED <<pc, urn, outcome, memory>>
      BY <1>8 DEF HostChanges, Tamper, vars, callVars, instanceVars
    <2> QED
      BY <2>1, MemoryOpensKept DEF WInv, HitsOpen
  <1> QED
    BY <1>1, <1>2, <1>3, <1>4, <1>5, <1>6, <1>7, <1>8 DEF Next, Client

\* The memory hit of resolver.rs, which verifies nothing, is as strict as a fetch in an
\* instance that asks a remote endpoint only, under one label per resource and salt: the
\* label that cache.rs leaves out of the identity is all there is to Doc_warm_cache.
THEOREM WarmIsStrict ==
    OneLabel /\ (\A i \in Instances : TrustsNoNode(i)) => (Spec => []WarmIsAsStrictAsCold)
  <1> SUFFICES ASSUME OneLabel, \A i \in Instances : TrustsNoNode(i)
               PROVE  Spec => []WarmIsAsStrictAsCold
    OBVIOUS
  <1>1. Init => WInv
    BY DEF Init, WInv, MemoryOpens, HitsOpen, NoEntries
  <1>2. OneLabel /\ IInv /\ LInv /\ WInv /\ [Next]_vars => WInv'
    BY StepOpens
  <1>3. WInv => WarmIsAsStrictAsCold
    BY ResolverAssumption DEF WInv, HitsOpen, WarmIsAsStrictAsCold
  <1> QED
    BY <1>1, <1>2, <1>3, WalksWell, PTL DEF Spec
=============================================================================
