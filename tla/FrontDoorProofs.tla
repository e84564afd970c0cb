---------------------------- MODULE FrontDoorProofs ----------------------------
(***************************************************************************)
(* Behind every entry point works a Resolver, so what is proved of it is   *)
(* true of them; and what they show for an outcome is content that the     *)
(* publisher committed to, or a brand that says what happened.             *)
(***************************************************************************)
EXTENDS FrontDoor, CacheProofs

-----------------------------------------------------------------------------
LEMMA DoorStep == [DoorNext]_frontVars => [Next]_vars
  <1> SUFFICES ASSUME [DoorNext]_frontVars PROVE [Next]_vars
    OBVIOUS
  <1>1. ASSUME NEW c \in Calls, NEW fn \in EntryPoints, Call(c, fn) PROVE Next
    BY <1>1 DEF Call, Next, Client
  <1>2. ASSUME NEW c \in Calls, NEW fn \in EntryPoints, CallMalformed(c, fn)
        PROVE  UNCHANGED vars
    BY <1>2 DEF CallMalformed
  <1>3. ASSUME NEW c \in Calls, GoOn(c) PROVE Next
    BY <1>3 DEF GoOn, Next, Client
  <1>4. ASSUME NEW c \in Calls, Settle(c) \/ Lose(c) PROVE Next
    BY <1>4, ResolverAssumption DEF Settle, Lose, Next
  <1>5. CASE World
    BY <1>5 DEF World, Next
  <1>6. CASE UNCHANGED frontVars
    BY <1>6 DEF frontVars
  <1> QED
    BY <1>1, <1>2, <1>3, <1>4, <1>5, <1>6 DEF DoorNext

\* wasm.rs's do_resolve and native.rs's resolve_with build a Resolver, await it and
\* drop it: to the resolver that is a process that starts, resolves and ends.  This
\* holds by the shape of DoorNext; it carries the resolver's invariants over.
LEMMA DoorIsResolver == DoorSpec => Spec
  <1>1. DoorInit => Init
    BY DEF DoorInit
  <1> QED
    BY <1>1, DoorStep, PTL DEF DoorSpec, Spec

\* So every walk behind a door is in order.
LEMMA WalksBehindTheDoor == DoorSpec => [](IInv /\ LInv)
  BY DoorIsResolver, WalksWell, PTL

-----------------------------------------------------------------------------
\* What a promise shows.

LEMMA PromiseTyped ==
    ASSUME NEW fn \in EntryPoints, NEW u \in Urns \cup {NoUrn}, NEW o \in Outcomes,
           o.kind # "Success" => o.bytes = NoBytes
    PROVE  /\ Promise(fn, u, o) \in Promises
           /\ Promise(fn, u, o).urn = u /\ Promise(fn, u, o).via = o.via
           /\ Promise(fn, u, o).shows.bytes # NoBytes =>
                /\ o.kind = "Success"
                /\ Promise(fn, u, o).shows = Content(o.bytes)
  <1> DEFINE p == Promise(fn, u, o)
  <1>1. fn \in {"resolve", "resolve_image_url", "resolve_with"}
    BY DEF EntryPoints
  <1>2. o.kind \in Kinds /\ o.bytes \in Bytes \cup {NoBytes}
        /\ o.via \in {"none", "memory", "disk", "node", "rpc"}
    BY DEF Outcomes
  <1>3. CASE o.kind = "Success"
    <2>1. p.shows = Content(o.bytes)
      BY <1>1, <1>3 DEF Promise, ImageFor, Render, OutcomeKinds
    <2>2. p.shows \in Shown
      BY <1>2, <2>1 DEF Content, Shown
    <2> QED
      BY <1>2, <1>3, <2>1, <2>2 DEF Promise, Promises
  <1>4. CASE o.kind # "Success"
    <2>1. \E what \in {"page", "image", "text"}, brand \in ErrorImages \cup {"none"} :
            p.shows = Branded(what, brand)
      BY <1>1, <1>2, <1>4 DEF Promise, ImageFor, Render, OutcomeKinds, ForOutcome, ForError,
         Kinds, ErrorImages, ErrorText
    <2>2. p.shows \in Shown /\ p.shows.bytes = NoBytes
      BY <2>1 DEF Branded, Shown
    <2> QED
      BY <1>2, <2>2 DEF Promise, Promises
  <1> QED
    BY <1>3, <1>4

-----------------------------------------------------------------------------
\* The invariant: a resolve that runs was called through an entry point.
Entered == \A c \in Calls : pc[c] # "idle" => entry[c] \in EntryPoints

DInv == DoorTypeOK /\ Entered /\ OnlyContentIsShown

\* A promise that settles on an answer of resolve.
LEMMA SettlesWell ==
    ASSUME IInv, LInv, DInv, NEW c \in Calls, Settle(c)
    PROVE  DInv'
  <1>1. /\ pc[c] = "done" /\ urn[c] \in Urns /\ outcome[c] \in Outcomes
        /\ entry[c] \in EntryPoints
    BY DEF Settle, IInv, EntriesOK, HasEntry, WalkOK, DInv, Entered
  <1>2. outcome[c].kind # "Success" => outcome[c].bytes = NoBytes
    BY <1>1 DEF LInv, Walk, FairAnswer
  <1>3. outcome[c].kind = "Success" => outcome[c].bytes \in Allowed(urn[c], outcome[c].via)
    BY <1>1 DEF IInv, SuccessIsAuthentic
  <1> DEFINE p == Promise(entry[c], urn[c], outcome[c])
  <1>4. /\ p \in Promises /\ p.urn = urn[c] /\ p.via = outcome[c].via
        /\ p.shows.bytes # NoBytes =>
                outcome[c].kind = "Success" /\ p.shows = Content(outcome[c].bytes)
    BY <1>1, <1>2, PromiseTyped
  <1>5. promise' = [promise EXCEPT ![c] = p] /\ entry' = [entry EXCEPT ![c] = "none"]
        /\ Forget({d \in Calls : Owner[d] = Owner[c]})
    BY DEF Settle, Crash
  <1>6. p.shows.bytes # NoBytes =>
            p.shows.what = "content" /\ p.shows.bytes \in Allowed(p.urn, p.via)
    BY <1>3, <1>4 DEF Content
  <1> HIDE DEF p
  <1>7. DoorTypeOK'
    BY <1>4, <1>5 DEF DInv, DoorTypeOK
  <1>8. pc'[c] = "idle" /\ \A d \in Calls : pc'[d] \in {"idle", pc[d]}
    BY <1>5 DEF Forget
  <1>9. Entered'
    BY <1>5, <1>8 DEF DInv, DoorTypeOK, Entered
  <1>10. OnlyContentIsShown'
    BY <1>4, <1>5, <1>6 DEF DInv, DoorTypeOK, OnlyContentIsShown
  <1> QED
    BY <1>7, <1>9, <1>10 DEF DInv

\* A promise that settles on an error of ParsedUrn::parse.
LEMMA MalformedSettlesWell ==
    ASSUME DInv, NEW c \in Calls, NEW fn \in EntryPoints, CallMalformed(c, fn)
    PROVE  DInv'
  <1> DEFINE o == Outcome("Parse", NoBytes, "none")
             p == Promise(fn, NoUrn, o)
  <1>1. o \in Outcomes /\ o.kind = "Parse" /\ o.bytes = NoBytes
    BY EmptyOutcome DEF Kinds, Outcome
  <1>2. p \in Promises /\ (p.shows.bytes # NoBytes => o.kind = "Success")
    BY <1>1, PromiseTyped
  <1>3. p.shows.bytes = NoBytes
    BY <1>1, <1>2
  <1>4. promise' = [promise EXCEPT ![c] = p] /\ entry' = entry /\ pc' = pc
    BY DEF CallMalformed, vars, callVars
  <1> HIDE DEF p, o
  <1>5. DoorTypeOK' /\ Entered'
    BY <1>2, <1>4 DEF DInv, DoorTypeOK, Entered
  <1>6. OnlyContentIsShown'
    BY <1>3, <1>4 DEF DInv, DoorTypeOK, OnlyContentIsShown
  <1> QED
    BY <1>5, <1>6 DEF DInv

LEMMA DoorKeeps ==
    IInv /\ LInv /\ DInv /\ [DoorNext]_frontVars => DInv'
  <1> SUFFICES ASSUME IInv, LInv, DInv, [DoorNext]_frontVars PROVE DInv'
    OBVIOUS
  <1>1. ASSUME NEW c \in Calls, NEW fn \in EntryPoints, Call(c, fn) PROVE DInv'
    <2>1. entry' = [entry EXCEPT ![c] = fn] /\ promise' = [promise EXCEPT ![c] = NoPromise]
          /\ Resolve(c)
      BY <1>1 DEF Call
    <2>2. \A d \in Calls \ {c} : pc'[d] = pc[d]
      BY <2>1, ResolveMoves DEF Alone
    <2>3. DoorTypeOK' /\ Entered'
      BY <2>1, <2>2 DEF DInv, DoorTypeOK, Entered
    <2>4. OnlyContentIsShown'
      BY <2>1 DEF DInv, DoorTypeOK, OnlyContentIsShown
    <2> QED
      BY <2>3, <2>4 DEF DInv
  <1>2. ASSUME NEW c \in Calls, NEW fn \in EntryPoints, CallMalformed(c, fn) PROVE DInv'
    BY <1>2, MalformedSettlesWell
  <1>3. ASSUME NEW c \in Calls, GoOn(c) PROVE DInv'
    <2>1. UNCHANGED <<entry, promise>>
      BY <1>3 DEF GoOn, doorVars
    <2>2. pc[c] # "idle" /\ \A d \in Calls \ {c} : pc'[d] = pc[d]
      BY <1>3, GoingOnMoves DEF GoOn, Alone
    <2> QED
      BY <2>1, <2>2 DEF DInv, DoorTypeOK, Entered, OnlyContentIsShown
  <1>4. ASSUME NEW c \in Calls, Settle(c) PROVE DInv'
    BY <1>4, SettlesWell
  <1>5. ASSUME NEW c \in Calls, Lose(c) PROVE DInv'
    <2>1. entry' = [entry EXCEPT ![c] = "none"] /\ promise' = promise
          /\ Forget({d \in Calls : Owner[d] = Owner[c]})
      BY <1>5 DEF Lose, Crash
    <2>2. pc'[c] = "idle" /\ \A d \in Calls : pc'[d] \in {"idle", pc[d]}
      BY <2>1 DEF Forget
    <2> QED
      BY <2>1, <2>2 DEF DInv, DoorTypeOK, Entered, OnlyContentIsShown
  <1>6. CASE World \/ UNCHANGED frontVars
    <2>1. UNCHANGED <<pc, entry, promise>>
      BY <1>6 DEF World, HostChanges, Tamper, frontVars, doorVars, vars, callVars
    <2> QED
      BY <2>1 DEF DInv, DoorTypeOK, Entered, OnlyContentIsShown
  <1> QED
    BY <1>1, <1>2, <1>3, <1>4, <1>5, <1>6 DEF DoorNext

LEMMA DoorInitially == DoorInit => DInv
  <1> SUFFICES ASSUME DoorInit PROVE DInv
    OBVIOUS
  <1>1. /\ entry = [c \in Calls |-> "none"] /\ promise = [c \in Calls |-> NoPromise]
        /\ pc = [c \in Calls |-> "idle"]
    BY DEF DoorInit, Init
  <1> QED
    BY <1>1 DEF DInv, DoorTypeOK, Entered, OnlyContentIsShown

\* Whatever is called, in whatever order, the invariant of the door holds.
THEOREM DoorInvariant == DoorSpec => [](IInv /\ LInv /\ DInv)
  BY WalksBehindTheDoor, DoorInitially, DoorKeeps, PTL DEF DoorSpec

\* What wasm.rs and native.rs hand to a caller keeps its type.
THEOREM DoorTypeCorrect == DoorSpec => []DoorTypeOK
  BY DoorInvariant, PTL DEF DInv

\* No entry point shows bytes that the publisher did not commit to for the URN that
\* was asked for, whatever gateway, node or cache directory they came from.
THEOREM ContentIsAuthentic == DoorSpec => []OnlyContentIsShown
  BY DoorInvariant, PTL DEF DInv

-----------------------------------------------------------------------------
\* From the verdict that was heard to the page: the outcome accounts for it (HeardWell),
\* and its tag, page and image account for the outcome.
LEMMA SaysWhatWasHeard ==
    IInv /\ LInv /\ DInv =>
        \A c \in Calls : Settle(c) =>
            IF HeardVerdict(c) THEN SaysIntegrity(promise'[c])
            ELSE SaysNothingOfIt(promise'[c])
  <1> SUFFICES ASSUME IInv, LInv, DInv, NEW c \in Calls, Settle(c)
               PROVE  IF HeardVerdict(c) THEN SaysIntegrity(promise'[c])
                      ELSE SaysNothingOfIt(promise'[c])
    OBVIOUS
  <1> DEFINE o == outcome[c]
  <1>1. pc[c] = "done" /\ o \in Outcomes /\ entry[c] \in EntryPoints
    BY DEF Settle, IInv, WalkOK, DInv, Entered
  <1>2. HeardVerdict(c) <=> o.kind = "IntegrityFailure"
    BY <1>1 DEF LInv, Walk, HeardWell, Refusal, HeardVerdict
  <1>3. promise'[c] = Promise(entry[c], urn[c], o)
    BY DEF Settle, DInv, DoorTypeOK
  <1>4. o.kind \in Kinds
    BY <1>1 DEF Outcomes
  <1>5. /\ Build = "wasm" => entry[c] \in {"resolve", "resolve_image_url"}
        /\ entry[c] \in {"resolve", "resolve_image_url", "resolve_with"}
    BY <1>1 DEF EntryPoints
  <1> HIDE DEF o
  <1>6. CASE HeardVerdict(c)
    BY <1>2, <1>3, <1>5, <1>6 DEF SaysIntegrity, Promise, ImageFor, Render, ForOutcome,
       OutcomeKinds, Branded, ErrorText
  <1>7. CASE ~ HeardVerdict(c)
    BY <1>2, <1>3, <1>4, <1>5, <1>7 DEF SaysNothingOfIt, Promise, ImageFor, Render, ForOutcome,
       ForError, OutcomeKinds, Kinds, Content, Branded, ErrorText
  <1> QED
    BY <1>6, <1>7

\* An integrity failure of any tier or of the disk is told to the user as one, in the
\* outcome tag, on the page and in the image, and nothing else is.
THEOREM VerdictReachesTheUser == DoorSpec => VerdictIsShown
  <1>1. DoorSpec => [](IInv /\ LInv /\ DInv)
    BY DoorInvariant
  <1> QED
    BY <1>1, SaysWhatWasHeard, PTL DEF VerdictIsShown

-----------------------------------------------------------------------------
\* A wasm or native client is told of tampered artifacts (resolver.rs, the disk branch
\* of resolve) only when somebody other than a resolver wrote them, however many calls,
\* lost ones included, wrote to the directory before.  Premise: one chain label, as for
\* the Resolver itself.
THEOREM DoorBlamesTamperingOnly == OneLabel => (DoorSpec => DiskFailureMeansTampering)
  <1> SUFFICES ASSUME OneLabel PROVE DoorSpec => DiskFailureMeansTampering
    OBVIOUS
  <1>1. Spec => DiskFailureMeansTampering
    BY RefusedMeansTampered
  <1> QED
    BY <1>1, DoorIsResolver, PTL

-----------------------------------------------------------------------------
\* Between its calls a front door remembers nothing, and a call that is about to store
\* its result was told it in this very call.
Fresh(c) ==
    /\ pc[c] = "idle" => memory[Owner[c]] = NoEntries
    /\ pc[c] \in {"write", "writing"} => Delivered(heard[c])

AllFresh == \A c \in Calls : Fresh(c)

\* No two calls share a Resolver, so a call leaves what the others know alone.
LEMMA OthersStayFresh ==
    ASSUME AllFresh, NEW c \in Calls, Fresh(c)',
           \A d \in Calls \ {c} : pc'[d] = pc[d] /\ heard'[d] = heard[d],
           \A i \in Instances \ {Owner[c]} : memory'[i] = memory[i]
    PROVE  AllFresh'
  <1>1. ASSUME NEW d \in Calls \ {c} PROVE Fresh(d)'
    <2>1. Owner[d] \in Instances \ {Owner[c]}
      BY ResolverAssumption, FrontDoorAssumption
    <2>2. memory'[Owner[d]] = memory[Owner[d]] /\ pc'[d] = pc[d] /\ heard'[d] = heard[d]
      BY <2>1
    <2> QED
      BY <2>2 DEF AllFresh, Fresh
  <1> QED
    BY <1>1 DEF AllFresh

\* The last verdict that is heard is the last of the list.
LEMMA HeardLast ==
    ASSUME NEW h \in Seq(Verdicts)
    PROVE  Delivered(Append(h, "Ok"))
  BY DEF Delivered

\* The answer of a call, as AnswersAreFresh has it.
AnswerIsFresh(c) ==
    pc[c] # "done" /\ pc'[c] = "done" /\ outcome'[c].kind = "Success" =>
        \/ Delivered(heard'[c])
        \/ OpensNow(Owner[c], urn'[c], outcome'[c].bytes)

\* A call starts with an empty memory, so at once it can only be served from the disk.
LEMMA ResolveIsFresh ==
    ASSUME IInv, AllFresh, NEW c \in Calls, Resolve(c)
    PROVE  AllFresh' /\ AnswerIsFresh(c)
  <1>1. PICK u \in Urns : \/ ResolveFromMemory(c, u) \/ ResolveFromDisk(c, u)
                          \/ ResolveRefusesDisk(c, u) \/ ResolveMisses(c, u)
    BY DEF Resolve
  <1>2. /\ pc[c] = "idle" /\ urn'[c] = u /\ heard' = heard
        /\ memory[Owner[c]] = NoEntries
    BY <1>1 DEF ResolveFromMemory, ResolveFromDisk, ResolveRefusesDisk, ResolveMisses,
       StartCall, IInv, EntriesOK, AllFresh, Fresh
  <1>3. Alone(c) /\ pc'[c] # "idle"
    BY ResolveMoves
  <1>4. ~ ResolveFromMemory(c, u)
    BY <1>2 DEF ResolveFromMemory, MemoryHit, NoEntries
  <1>5. /\ pc'[c] \notin {"write", "writing"} /\ AnswerIsFresh(c)
        /\ \A i \in Instances \ {Owner[c]} : memory'[i] = memory[i]
    <2>1. CASE ResolveMisses(c, u)
      <3>1. GoesOn(c)
        BY <2>1, BeginPlanWalks DEF ResolveMisses, IInv
      <3> QED
        BY <2>1, <3>1 DEF ResolveMisses, GoesOn, AnswerIsFresh
    <2>2. CASE ResolveRefusesDisk(c, u)
      <3>1. pc'[c] = "drop"
        BY <2>2 DEF ResolveRefusesDisk, IInv, WalkOK
      <3> QED
        BY <2>2, <3>1 DEF ResolveRefusesDisk, AnswerIsFresh
    <2>3. CASE ResolveFromDisk(c, u)
      <3>1. /\ pc'[c] = "done"
            /\ outcome'[c] = Outcome("Success", DiskResult(u).bytes, "disk")
        BY <2>3 DEF ResolveFromDisk, Finish, IInv, WalkOK
      <3>2. outcome'[c].bytes = DiskResult(u).bytes
        BY <3>1 DEF Outcome
      <3>3. OpensNow(Owner[c], u, DiskResult(u).bytes)
        BY <2>3 DEF ResolveFromDisk, DiskHit, OpensNow
      <3>4. PICK m : memory' = [memory EXCEPT ![Owner[c]] = m]
        BY <2>3 DEF ResolveFromDisk
      <3>5. \A i \in Instances \ {Owner[c]} : memory'[i] = memory[i]
        BY <3>4 DEF IInv, StoreOK
      <3> QED
        BY <1>2, <3>1, <3>2, <3>3, <3>5 DEF AnswerIsFresh
    <2> QED
      BY <1>1, <1>4, <2>1, <2>2, <2>3
  <1>6. Fresh(c)'
    BY <1>3, <1>5 DEF Fresh
  <1> QED
    BY <1>2, <1>3, <1>5, <1>6, OthersStayFresh DEF Alone

\* A call that goes on succeeds only by an answer of a tier.
LEMMA GoOnIsFresh ==
    ASSUME IInv, AllFresh, NEW c \in Calls, GoOn(c)
    PROVE  AllFresh' /\ AnswerIsFresh(c)
  <1>1. Alone(c) /\ pc[c] \notin {"idle", "done"} /\ pc'[c] # "idle"
    BY GoingOnMoves DEF GoOn
  <1>2. ASSUME GoesOn(c) PROVE Fresh(c)' /\ AnswerIsFresh(c)
    BY <1>1, <1>2 DEF GoesOn, Fresh, AnswerIsFresh
  <1>3. ASSUME Delivered(heard'[c]) PROVE Fresh(c)' /\ AnswerIsFresh(c)
    BY <1>1, <1>3 DEF Fresh, AnswerIsFresh
  <1>4. ASSUME Fresh(c)', heard' = heard, memory' = memory PROVE AllFresh'
    BY <1>1, <1>4, OthersStayFresh DEF Alone
  <1>5. CASE DropEntry(c)
    <2>1. heard' = heard /\ memory' = memory
      BY <1>5 DEF DropEntry
    <2>2. CASE BeginPlan(c, urn[c])
      BY <1>2, <1>4, <2>1, <2>2, BeginPlanWalks DEF IInv
    <2>3. CASE Finish(c, Outcome("IntegrityFailure", NoBytes, "disk"))
      <3>1. pc'[c] = "done" /\ outcome'[c].kind = "IntegrityFailure"
        BY <2>3 DEF Finish, Outcome, IInv, WalkOK
      <3>2. Fresh(c)' /\ AnswerIsFresh(c)
        BY <3>1 DEF Fresh, AnswerIsFresh
      <3> QED
        BY <1>4, <2>1, <3>2
    <2> QED
      BY <1>5, <2>2, <2>3 DEF DropEntry
  <1>6. CASE ProbeAnswers(c)
    <2>1. heard' = heard /\ memory' = memory /\ tier[c] \in 1..2
      BY <1>6 DEF ProbeAnswers, IInv, WalkOK, Scheduled, LocalTiers
    <2>2. GoesOn(c)
      <3>1. CASE AdoptPlan(c, urn[c], NodeFirst(LocalTiers[tier[c]]))
        <4>1. LocalTiers[tier[c]] \in Hosts
          BY <2>1 DEF LocalTiers, Hosts
        <4> QED
          BY <3>1, <4>1, PlansBuilt, AdoptPlanWalks DEF IInv
      <3>2. CASE ProbeFrom(c, urn[c], tier[c] + 1)
        <4>1. tier[c] + 1 \in 1..3
          BY <2>1
        <4> QED
          BY <3>2, <4>1, ProbeFromWalks DEF IInv
      <3> QED
        BY <1>6, <3>1, <3>2 DEF ProbeAnswers
    <2> QED
      BY <1>2, <1>4, <2>1, <2>2
  <1>7. CASE FetchAnswers(c)
    <2>1. PICK r \in Answers(plan[c][tier[c]], urn[c]) :
            /\ heard' = [heard EXCEPT ![c] = Append(@, r.verdict)]
            /\ \/ r.verdict = "Ok" /\ CacheSuccess(c, r)
               \/ TierFails(c, r.verdict) /\ UNCHANGED memory
      BY <1>7 DEF FetchAnswers
    <2>2. /\ heard[c] \in Seq(Verdicts) /\ heard'[c] = Append(heard[c], r.verdict)
          /\ \A d \in Calls \ {c} : heard'[d] = heard[d]
      BY <2>1 DEF IInv, EnvOK
    <2>3. CASE r.verdict = "Ok" /\ CacheSuccess(c, r)
      <3>1. Fresh(c)' /\ AnswerIsFresh(c)
        BY <1>3, <2>2, <2>3, HeardLast
      <3>2. \A i \in Instances \ {Owner[c]} : memory'[i] = memory[i]
        BY <2>3 DEF CacheSuccess, IInv, StoreOK
      <3> QED
        BY <1>1, <2>2, <3>1, <3>2, OthersStayFresh DEF Alone
    <2>4. CASE TierFails(c, r.verdict) /\ UNCHANGED memory
      <3>1. GoesOn(c)
        BY <1>7, <2>4, TierFailsWalks DEF FetchAnswers, IInv
      <3> QED
        BY <1>1, <1>2, <2>2, <2>4, <3>1, OthersStayFresh DEF Alone
    <2> QED
      BY <2>1, <2>3, <2>4
  <1>8. CASE WriteBegins(c) \/ WriteEnds(c)
    <2>1. heard' = heard /\ memory' = memory /\ pc[c] \in {"write", "writing"}
      BY <1>8 DEF WriteBegins, WriteEnds, instanceVars
    <2>2. Delivered(heard'[c])
      BY <2>1 DEF AllFresh, Fresh
    <2> QED
      BY <1>3, <1>4, <2>1, <2>2
  <1> QED
    BY <1>5, <1>6, <1>7, <1>8 DEF GoOn

\* A call that settles or is lost takes its Resolver's memory with it.
LEMMA LeavesFresh ==
    ASSUME IInv, AllFresh, NEW c \in Calls, Crash(Owner[c])
    PROVE  AllFresh' /\ \A d \in Calls : pc'[d] \in {"idle", pc[d]}
  <1>1. /\ memory' = [memory EXCEPT ![Owner[c]] = NoEntries]
        /\ Forget({d \in Calls : Owner[d] = Owner[c]})
    BY DEF Crash
  <1>2. /\ pc' = [d \in Calls |-> IF Owner[d] = Owner[c] THEN "idle" ELSE pc[d]]
        /\ heard' = [d \in Calls |-> IF Owner[d] = Owner[c] THEN <<>> ELSE heard[d]]
    BY <1>1 DEF Forget
  <1>3. Owner[c] \in Instances /\ DOMAIN memory = Instances
    BY ResolverAssumption DEF IInv, StoreOK
  <1>4. pc'[c] = "idle" /\ memory'[Owner[c]] = NoEntries
        /\ \A i \in Instances \ {Owner[c]} : memory'[i] = memory[i]
    BY <1>1, <1>2, <1>3
  <1>5. \A d \in Calls \ {c} : pc'[d] = pc[d] /\ heard'[d] = heard[d]
    BY <1>2, FrontDoorAssumption
  <1>6. Fresh(c)'
    BY <1>4 DEF Fresh
  <1> QED
    BY <1>2, <1>4, <1>5, <1>6, OthersStayFresh

LEMMA DoorStaysFresh ==
    IInv /\ AllFresh /\ [DoorNext]_frontVars =>
        AllFresh' /\ \A c \in Calls : AnswerIsFresh(c)
  <1> SUFFICES ASSUME IInv, AllFresh, [DoorNext]_frontVars
               PROVE  AllFresh' /\ \A c \in Calls : AnswerIsFresh(c)
    OBVIOUS
  <1>1. ASSUME NEW c \in Calls, AnswerIsFresh(c), Alone(c)
        PROVE  \A d \in Calls : AnswerIsFresh(d)
    BY <1>1 DEF Alone, AnswerIsFresh
  <1>2. ASSUME \A d \in Calls : pc'[d] \in {"idle", pc[d]}
        PROVE  \A d \in Calls : AnswerIsFresh(d)
    BY <1>2 DEF AnswerIsFresh
  <1>3. ASSUME NEW c \in Calls, NEW fn \in EntryPoints, Call(c, fn)
        PROVE  AllFresh' /\ \A d \in Calls : AnswerIsFresh(d)
    BY <1>1, <1>3, ResolveIsFresh, ResolveMoves DEF Call
  <1>4. ASSUME NEW c \in Calls, GoOn(c)
        PROVE  AllFresh' /\ \A d \in Calls : AnswerIsFresh(d)
    <2>1. Alone(c)
      BY <1>4, GoingOnMoves DEF GoOn
    <2> QED
      BY <1>1, <1>4, <2>1, GoOnIsFresh
  <1>5. ASSUME NEW c \in Calls, Settle(c) \/ Lose(c)
        PROVE  AllFresh' /\ \A d \in Calls : AnswerIsFresh(d)
    <2>1. Crash(Owner[c])
      BY <1>5 DEF Settle, Lose
    <2> QED
      BY <1>2, <2>1, LeavesFresh
  <1>6. ASSUME UNCHANGED <<pc, memory, heard>>
        PROVE  AllFresh' /\ \A d \in Calls : AnswerIsFresh(d)
    BY <1>2, <1>6 DEF AllFresh, Fresh
  <1>7. ASSUME NEW c \in Calls, NEW fn \in EntryPoints, CallMalformed(c, fn)
        PROVE  UNCHANGED <<pc, memory, heard>>
    BY <1>7 DEF CallMalformed, vars, callVars, instanceVars
  <1>8. CASE World \/ UNCHANGED frontVars
    <2>1. UNCHANGED <<pc, memory, heard>>
      BY <1>8 DEF World, HostChanges, Tamper, frontVars, vars, callVars, instanceVars
    <2> QED
      BY <1>6, <2>1
  <1> QED
    BY <1>3, <1>4, <1>5, <1>6, <1>7, <1>8 DEF DoorNext

\* A wasm or native caller (do_resolve, resolve_with) is never given content because an
\* earlier call had it: a host has just delivered it, or the file opens as it is now.
THEOREM AnswersComeAnew == DoorSpec => AnswersAreFresh
  <1>1. DoorInit => AllFresh
    BY ResolverAssumption DEF DoorInit, Init, AllFresh, Fresh
  <1>2. DoorSpec => []IInv
    BY WalksBehindTheDoor, PTL
  <1>3. DoorSpec => []AllFresh
    BY <1>1, <1>2, DoorStaysFresh, PTL DEF DoorSpec
  <1>4. IInv /\ AllFresh /\ [DoorNext]_frontVars =>
            [\A c \in Calls :
                pc[c] # "done" /\ pc'[c] = "done" /\ outcome'[c].kind = "Success" =>
                    \/ Delivered(heard'[c])
                    \/ OpensNow(Owner[c], urn'[c], outcome'[c].bytes)]_frontVars
    BY DoorStaysFresh DEF AnswerIsFresh
  <1> QED
    BY <1>2, <1>3, <1>4, PTL DEF DoorSpec, AnswersAreFresh
=============================================================================
