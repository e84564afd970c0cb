------------------------------- MODULE FrontDoor -------------------------------
(***************************************************************************)
(* What an application calls: the DigNetwork client and the free functions *)
(* of src/src/wasm.rs, the entry points of src/src/native.rs, and the      *)
(* branded pages and images (pages.rs, images.rs) they show instead of     *)
(* content.                                                                *)
(*                                                                         *)
(* Every call builds a Resolver of its own and drops it when the call      *)
(* settles, so only the cache directory outlives a call.  Calls may be of  *)
(* one process or of several; a process with one thread takes fewer        *)
(* interleavings than are allowed here.                                    *)
(***************************************************************************)
EXTENDS ResolverProperties

CONSTANTS
    Build,      \* "wasm" or "native"
    NoPromise   \* the call has not settled

ASSUME FrontDoorAssumption ==
    /\ Build \in {"wasm", "native"}
    /\ Build = "wasm" => VisibleHeaders \subseteq {"x-dig-verified"}
    /\ \A c, d \in Calls : Owner[c] = Owner[d] => c = d

VARIABLES
    entry,    \* per call: the function that is awaited
    promise   \* per call: what its settled promise holds, until it is called again

doorVars == <<entry, promise>>
frontVars == <<vars, doorVars>>

EntryPoints ==
    IF Build = "wasm" THEN {"resolve", "resolve_image_url"} ELSE {"resolve_with"}

-----------------------------------------------------------------------------
\* Outcomes, as they are shown.

OutcomeKinds == {"Success", "IntegrityFailure", "Unreachable"}
ErrorImages == {"Integrity", "Unreachable", "NotFound", "InvalidUrn", "Generic"}

\* What the caller gets to see: content, a branded page or image, or an error text.
Shown == [what : {"content", "page", "image", "text"},
          bytes : Bytes \cup {NoBytes}, brand : ErrorImages \cup {"none"}]

Content(bytes) == [what |-> "content", bytes |-> bytes, brand |-> "none"]
Branded(what, brand) == [what |-> what, bytes |-> NoBytes, brand |-> brand]
ErrorText == Branded("text", "none")

\* Slip: an integrity failure is rendered as a broken network, with a way to go on.
Render_Retryable(o) ==
    IF o.kind = "Success" THEN Content(o.bytes) ELSE Branded("page", "Unreachable")

\* ResolveOutcome::render: the content, or one of the two pages.
Render(o) ==
    CASE o.kind = "Success" -> Content(o.bytes)
      [] o.kind = "IntegrityFailure" -> Branded("page", "Integrity")
      [] o.kind = "Unreachable" -> Branded("page", "Unreachable")

\* Slip: the outcome's own tag is taken for the name of its image.
ForOutcome_Tag(kind) == kind

\* images.rs for_outcome and for_error.
ForOutcome(kind) == IF kind = "IntegrityFailure" THEN "Integrity" ELSE "Unreachable"
ForError(kind) ==
    CASE kind \in {"Parse", "RootRequired"} -> "InvalidUrn"
      [] kind = "NotFound" -> "NotFound"
      [] kind = "Rpc" -> "Generic"

\* DigNetwork::resolve_image_url, which never rejects.
ImageFor(o) ==
    CASE o.kind = "Success" -> Content(o.bytes)
      [] o.kind \in OutcomeKinds \ {"Success"} -> Branded("image", ForOutcome(o.kind))
      [] o.kind \notin OutcomeKinds -> Branded("image", ForError(o.kind))

\* The promise of a call for URN u through the function fn: what it shows, and for
\* resolve the outcome tag or the error it rejects with.  A native caller gets the
\* outcome itself.
Promise(fn, u, o) ==
    [entry |-> fn, urn |-> u, via |-> o.via,
     tag |-> IF fn = "resolve_image_url" THEN "none" ELSE o.kind,
     shows |-> CASE fn = "resolve_image_url" -> ImageFor(o)
                 [] fn = "resolve" /\ o.kind \in OutcomeKinds -> Render(o)
                 [] fn = "resolve_with" /\ o.kind = "Success" -> Content(o.bytes)
                 [] OTHER -> ErrorText]

Promises == [entry : EntryPoints, urn : Urns \cup {NoUrn},
             via : {"none", "memory", "disk", "node", "rpc"},
             tag : Kinds \cup {"none"}, shows : Shown]

-----------------------------------------------------------------------------
\* In wasm a host name is never looked up, so dig.local is not asserted loopback.
DoorInit ==
    /\ Init
    /\ Build = "wasm" => DigLocal \notin loopback
    /\ entry = [c \in Calls |-> "none"]
    /\ promise = [c \in Calls |-> NoPromise]

\* A call on a well-formed URN: a new Resolver starts to resolve it.
Call(c, fn) ==
    /\ Resolve(c)
    /\ entry' = [entry EXCEPT ![c] = fn]
    /\ promise' = [promise EXCEPT ![c] = NoPromise]

\* Anything that is not a URN ends in ParsedUrn::parse, before the first lookup.
CallMalformed(c, fn) ==
    /\ pc[c] = "idle"
    /\ promise' = [promise EXCEPT ![c] =
                        Promise(fn, NoUrn, Outcome("Parse", NoBytes, "none"))]
    /\ UNCHANGED <<vars, entry>>

\* The Resolver goes on to its next await or file operation.
GoOn(c) ==
    /\ \/ DropEntry(c) \/ ProbeAnswers(c) \/ FetchAnswers(c)
       \/ WriteBegins(c) \/ WriteEnds(c)
    /\ UNCHANGED doorVars

\* Slip: the verified data outlive the Resolver that holds them.
Settle_KeepsMemory(c) ==
    /\ pc[c] = "done"
    /\ promise' = [promise EXCEPT ![c] = Promise(entry[c], urn[c], outcome[c])]
    /\ entry' = [entry EXCEPT ![c] = "none"]
    /\ plan_cache' = [plan_cache EXCEPT ![Owner[c]] = <<>>]
    /\ Forget({c})
    /\ UNCHANGED <<memory, disk, envVars>>

\* resolve is over: the promise settles and the Resolver is dropped, its plan and
\* its in-memory cache with it.
Settle(c) ==
    /\ pc[c] = "done"
    /\ promise' = [promise EXCEPT ![c] = Promise(entry[c], urn[c], outcome[c])]
    /\ entry' = [entry EXCEPT ![c] = "none"]
    /\ Crash(Owner[c])

\* The caller drops its future, or its process dies: the call never settles.
Lose(c) ==
    /\ pc[c] # "idle"
    /\ entry' = [entry EXCEPT ![c] = "none"]
    /\ Crash(Owner[c])
    /\ UNCHANGED promise

World == (HostChanges \/ Tamper) /\ UNCHANGED doorVars

DoorNext ==
    \/ \E c \in Calls :
        \/ \E fn \in EntryPoints : Call(c, fn) \/ CallMalformed(c, fn)
        \/ GoOn(c) \/ Settle(c) \/ Lose(c)
    \/ World

DoorSpec == DoorInit /\ [][DoorNext]_frontVars

-----------------------------------------------------------------------------
\* Every variable keeps its type (what wasm.rs and native.rs hand to a caller).
DoorTypeOK ==
    /\ entry \in [Calls -> EntryPoints \cup {"none"}]
    /\ promise \in [Calls -> Promises \cup {NoPromise}]

\* wasm.rs "never unverified content": whatever function was called, bytes other than
\* a branded page or image are shown only as content, and only if the publisher
\* committed to them for the URN that was asked for; not what a gateway, a node that
\* attests nothing, or somebody with access to the cache directory supplied.
OnlyContentIsShown ==
    \A c \in Calls : promise[c] # NoPromise /\ promise[c].shows.bytes # NoBytes =>
        /\ promise[c].shows.what = "content"
        /\ promise[c].shows.bytes \in Allowed(promise[c].urn, promise[c].via)

\* An integrity verdict, of any tier or of the disk, reaches the user as one, without
\* a byte of what was refused, and nothing else looks like one: from the verdict that
\* was heard to the outcome, its tag, the page and the image.
HeardVerdict(c) ==
    \/ got[c].verdict \in IntegrityVerdicts
    \/ \E k \in 1..Len(heard[c]) : heard[c][k] \in IntegrityVerdicts

SaysIntegrity(p) ==
    /\ p.tag \in {"IntegrityFailure", "none"}
    /\ Build = "wasm" => p.shows.brand = "Integrity"
    /\ p.shows.bytes = NoBytes

SaysNothingOfIt(p) == p.tag # "IntegrityFailure" /\ p.shows.brand # "Integrity"

VerdictIsShown ==
    [][\A c \in Calls : Settle(c) =>
            IF HeardVerdict(c) THEN SaysIntegrity(promise'[c])
            ELSE SaysNothingOfIt(promise'[c])]_frontVars

\* What the file of a URN opens to as it is now.
OpensNow(i, u, bytes) ==
    /\ Disk(i) /\ OnDisk(ContentId(u, u.root))
    /\ DiskResult(u).verdict = "Ok" /\ DiskResult(u).bytes = bytes

\* The last tier that was asked delivered.
Delivered(verdicts) == verdicts # <<>> /\ verdicts[Len(verdicts)] = "Ok"

\* do_resolve of wasm.rs and resolve_with of native.rs hand on nothing from call to
\* call, while others remove, cut short and rewrite what a call has left on the disk.
\* So content that an earlier call verified is never shown for that reason: every call
\* that succeeds was told it by a host itself, or opened the file as it found it.
AnswersAreFresh ==
    [][\A c \in Calls :
            pc[c] # "done" /\ pc'[c] = "done" /\ outcome'[c].kind = "Success" =>
                \/ Delivered(heard'[c])
                \/ OpensNow(Owner[c], urn'[c], outcome'[c].bytes)]_frontVars

\* wasm.rs: "Construct once and reuse - the ladder plan AND verified results are
\* cached per instance".  A client that was given the content of a pinned URN and
\* asks for it again is answered without the network.
ResultsAreCached ==
    [][\A c \in Calls :
            /\ pc[c] = "idle"
            /\ pc'[c] \in {"probe", "fetch"}
            /\ promise[c] # NoPromise
            /\ promise[c].shows.what = "content"
            /\ Pinned(promise[c].urn)
            => urn'[c] # promise[c].urn]_frontVars
=============================================================================
