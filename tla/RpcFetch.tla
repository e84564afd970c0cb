------------------------------- MODULE RpcFetch -------------------------------
(***************************************************************************)
(* rpc::fetch of src/src/rpc.rs: windowed dig.getContent calls to a        *)
(* gateway that may answer anything at all, assembled into one buffer that *)
(* is then verified and decrypted against the pinned root.                 *)
(*                                                                         *)
(* Bytes are counted, not stored.  The buffer is its length and whether it *)
(* is a prefix of the committed ciphertext (faithful); a window's chunk is *)
(* its length and whether it carries that prefix on.                       *)
(***************************************************************************)
EXTENDS Integers

CONSTANTS
    MaxResource,    \* MAX_RESOURCE_BYTES
    MaxWindows,     \* MAX_WINDOWS
    Length,         \* the length of the committed ciphertext
    ChunkPlan,      \* the chunk_lens that open it: "empty" for a single chunk
    ServerWindow,   \* the most bytes an honest gateway puts in a window
    Totals,         \* what gateways say in total_length
    Sizes,          \* the sizes of the chunks they send
    Nexts,          \* what they say in next_offset
    NoOffset        \* next_offset is absent

ASSUME PagerAssumption ==
    /\ MaxResource \in Nat \ {0}
    /\ MaxWindows \in Nat \ {0}
    /\ Length \in 1..MaxResource
    /\ ChunkPlan \in {"empty", "matching"}
    /\ ServerWindow \in Nat \ {0}
    /\ Totals \subseteq Nat
    /\ Sizes \subseteq Nat
    /\ Nexts \subseteq Nat
    /\ NoOffset \notin Nat

Chunks == [size : Sizes, valid : BOOLEAN, continues : BOOLEAN]

\* A dig.getContent result, with its serde defaults filled in.
Windows == [total : Totals, chunk : Chunks,
            proof : {"none", "good", "bad"},
            lens : {"empty", "matching", "inconsistent"},
            complete : BOOLEAN, next : Nexts \cup {NoOffset}]

Requests == [pinned : BOOLEAN, salt : {"right", "wrong", "short"}]

Results == {"Ok", "RootRequired", "NotFound", "Transport", "Rpc", "Parse",
            "VerifyFailed", "DecryptFailed"}

VARIABLES
    pc,         \* "idle", "asking" (a request is in flight), "done"
    asked,      \* the URN: pinned or not, and its salt
    windows,    \* requests sent
    offset,     \* the client's cursor: the offset of the request in flight
    total,      \* the declared total, 0 until the first window
    length,     \* buf.len()
    faithful,   \* buf is a prefix of the committed ciphertext
    proof,      \* the last non-empty inclusion proof
    lens,       \* the first non-empty chunk_lens
    result,     \* what rpc::fetch returned
    honest,     \* every answer received was an honest gateway's (history)
    lost        \* a call got no answer (history)

buffer == <<total, length, faithful, proof, lens>>
vars == <<pc, asked, windows, offset, buffer, result, honest, lost>>

Init ==
    /\ pc = "idle"
    /\ asked \in Requests
    /\ windows = 0
    /\ offset = 0
    /\ total = 0
    /\ length = 0
    /\ faithful = TRUE
    /\ proof = "none"
    /\ lens = "empty"
    /\ result = "Rpc"
    /\ honest = TRUE
    /\ lost = FALSE

Return(verdict) == pc' = "done" /\ result' = verdict

\* trusted_root, before anything is sent: only a pinned root is trusted.
Begin ==
    /\ pc = "idle"
    /\ \/ ~ asked.pinned /\ Return("RootRequired") /\ UNCHANGED windows
       \/ asked.pinned /\ pc' = "asking" /\ windows' = 1 /\ UNCHANGED result
    /\ UNCHANGED <<asked, offset, buffer, honest, lost>>

-----------------------------------------------------------------------------
\* One window.

\* What an honest gateway answers: the bytes at the offset asked for, which carry the
\* buffer on if it ends there, a proof and a chunk plan by the last window, and where
\* to go on.
HonestSize == IF Length - offset < ServerWindow THEN Length - offset ELSE ServerWindow
HonestWindow(w) ==
    LET end == offset + HonestSize IN
    /\ w.total = Length
    /\ w.chunk = [size |-> HonestSize, valid |-> TRUE,
                   continues |-> (length = offset)]
    /\ w.proof # "bad"
    /\ w.lens \in {"empty", ChunkPlan}
    /\ w.complete = (end = Length)
    /\ w.next = IF end = Length THEN NoOffset ELSE end
    /\ w.complete =>
        /\ proof # "good" => w.proof = "good"
        /\ lens # ChunkPlan => w.lens = ChunkPlan

\* Slip: every window's total is believed.
Declared_Latest(w) == w.total

\* The total of the first window holds for the whole fetch.
Declared(w) == IF total = 0 THEN w.total ELSE total

Absent(w) == Declared(w) = 0
TooLarge(w) == Declared(w) > MaxResource
\* Slip: only this chunk is held against the declared total.
Overrun_ChunkOnly(w) == w.chunk.size > Declared(w)
Overrun(w) == length + w.chunk.size > Declared(w)
Last(w) == w.complete \/ w.next = NoOffset
Stuck(w) == ~ Last(w) /\ w.next <= offset
\* Slip: the last allowed window is refused.
TooMany_Early(w) == ~ Last(w) /\ windows + 1 >= MaxWindows
TooMany(w) == ~ Last(w) /\ windows + 1 > MaxWindows

Acceptable(w) ==
    /\ ~ Absent(w) /\ ~ TooLarge(w) /\ w.chunk.valid
    /\ ~ Overrun(w) /\ ~ Stuck(w) /\ ~ TooMany(w)

\* The window joins the buffer; an empty proof or plan changes neither.
Assemble(w) ==
    /\ total' = Declared(w)
    /\ length' = length + w.chunk.size
    /\ faithful' = (faithful /\ (w.chunk.size > 0 => w.chunk.continues))
    /\ proof' = IF w.proof # "none" THEN w.proof ELSE proof
    /\ lens' = IF lens = "empty" THEN w.lens ELSE lens

\* Slip: the gate comes first, so a URN with an unusable salt looks tampered with.
Verdict_GateFirst(len, intact, prf, plan) ==
    IF prf # "good" \/ len # Length \/ ~ intact THEN "VerifyFailed"
    ELSE IF asked.salt = "short" THEN "Parse"
    ELSE IF asked.salt = "wrong" \/ plan # ChunkPlan THEN "DecryptFailed"
    ELSE "Ok"

\* gate-then-decrypt over what was assembled.
Verdict(len, intact, prf, plan) ==
    IF asked.salt = "short" THEN "Parse"
    ELSE IF prf # "good" \/ len # Length \/ ~ intact THEN "VerifyFailed"
    ELSE IF asked.salt = "wrong" \/ plan # ChunkPlan THEN "DecryptFailed"
    ELSE "Ok"

\* Slip: next_offset is taken for the last byte sent, not for the first one missing.
Continue_Inclusive(w) ==
    /\ Acceptable(w) /\ ~ Last(w)
    /\ Assemble(w)
    /\ offset' = w.next + 1
    /\ windows' = windows + 1
    /\ UNCHANGED <<pc, result>>

\* A window that asks for another one.
Continue(w) ==
    /\ Acceptable(w) /\ ~ Last(w)
    /\ Assemble(w)
    /\ offset' = w.next
    /\ windows' = windows + 1
    /\ UNCHANGED <<pc, result>>

\* The last window: verify and decrypt.
Complete(w) ==
    /\ Acceptable(w) /\ Last(w)
    /\ Assemble(w)
    /\ Return(Verdict(length', faithful', proof', lens'))
    /\ UNCHANGED <<offset, windows>>

\* Slip: the pager answers with an outcome of the ladder.
Reject_Outcome(w) ==
    /\ ~ Acceptable(w)
    /\ Return(IF Absent(w) THEN "NotFound" ELSE "Unreachable")
    /\ UNCHANGED <<buffer, offset, windows>>

\* Slip: a window that breaks the protocol starts the fetch over.
Reject_Restarts(w) ==
    /\ ~ Acceptable(w)
    /\ \/ Absent(w) /\ Return("NotFound") /\ UNCHANGED <<buffer, offset, windows>>
       \/ /\ ~ Absent(w)
          /\ windows' = 1 /\ offset' = 0 /\ total' = 0 /\ length' = 0
          /\ faithful' = TRUE /\ proof' = "none" /\ lens' = "empty"
          /\ UNCHANGED <<pc, result>>

\* A window that ends the fetch: nothing there, or a protocol violation.
Reject(w) ==
    /\ ~ Acceptable(w)
    /\ Return(IF Absent(w) THEN "NotFound" ELSE "Rpc")
    /\ UNCHANGED <<buffer, offset, windows>>

Answer ==
    /\ pc = "asking"
    /\ \E w \in Windows :
        /\ Continue(w) \/ Complete(w) \/ Reject(w)
        /\ honest' = (honest /\ HonestWindow(w))
    /\ UNCHANGED <<asked, lost>>

\* Slip: a failed call is taken for the end of the content.
CallFails_Ends ==
    /\ pc = "asking"
    /\ Return(Verdict(length, faithful, proof, lens))
    /\ lost' = TRUE
    /\ UNCHANGED <<asked, windows, offset, buffer, honest>>

\* No answer, a non-2xx, or an answer that is no getContent result: no retry.
CallFails ==
    /\ pc = "asking"
    /\ \E verdict \in {"Transport", "Rpc"} : Return(verdict)
    /\ lost' = TRUE
    /\ UNCHANGED <<asked, windows, offset, buffer, honest>>

Next == Begin \/ Answer \/ CallFails

Spec == Init /\ [][Next]_vars

\* A transport with a timeout answers or fails every request.
FairSpec == Spec /\ WF_vars(Begin) /\ WF_vars(Answer \/ CallFails)

-----------------------------------------------------------------------------
\* Every variable keeps its type (the locals of rpc.rs fetch).
TypeOK ==
    /\ pc \in {"idle", "asking", "done"}
    /\ asked \in Requests
    /\ windows \in Nat
    /\ offset \in Nat
    /\ total \in Nat
    /\ length \in Nat
    /\ faithful \in BOOLEAN
    /\ proof \in {"none", "good", "bad"}
    /\ lens \in {"empty", "matching", "inconsistent"}
    /\ result \in Results
    /\ honest \in BOOLEAN
    /\ lost \in BOOLEAN

\* Availability against any gateway (MAX_WINDOWS, MAX_RESOURCE_BYTES): no fetch
\* sends more than MaxWindows requests or holds more bytes than the first window
\* declared, and that is at most MaxResource.
Bounded ==
    /\ windows <= MaxWindows
    /\ length <= total
    /\ total <= MaxResource

\* Absence makes the ladder fall through, so a gateway may claim it only before it
\* has delivered anything: not in a later window with a zero total.
AbsenceIsImmediate ==
    pc = "done" /\ result = "NotFound" => windows = 1 /\ total = 0 /\ length = 0

\* An honest gateway that answers every call is served: no bound, order or bookkeeping
\* of the pager turns a resource within the limits into a failure, up to the very last
\* byte and window allowed.  Windows so small that MaxWindows of them do not hold the
\* resource are the limit.
HonestGatewayIsServed ==
    /\ pc = "done" /\ asked.pinned /\ honest /\ ~ lost
    /\ MaxWindows * ServerWindow >= Length
    => result = CASE asked.salt = "right" -> "Ok"
                  [] asked.salt = "wrong" -> "DecryptFailed"
                  [] asked.salt = "short" -> "Parse"

\* Whatever call is lost in mid-stream, and however small its windows, a gateway that
\* answers honestly is never mistaken for an attacker, whose bytes fail the gate, nor
\* for one without the resource: what fetch assembled in part it never verifies, and
\* the bytes it does verify are assembled with no gap and no byte twice.
HonestGatewayIsNotBlamed ==
    pc = "done" /\ honest =>
        /\ result \notin {"NotFound", "VerifyFailed"}
        /\ result = "DecryptFailed" => asked.salt = "wrong"

\* Every fetch ends, whatever the gateway does.
EveryFetchEnds == <>(pc = "done")

\* The whole exchange is one step to the ladder, which sees none of the windows and
\* one of the results that Resolver counts on.
OneShot == INSTANCE OneShotFetch WITH
    Pending <- "pending",
    result <- IF pc = "done" THEN result ELSE "pending"
ImplementsOneShot == OneShot!Spec
=============================================================================
