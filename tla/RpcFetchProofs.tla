---------------------------- MODULE RpcFetchProofs ----------------------------
(***************************************************************************)
(* The pager against any gateway, for every value of its constants: the    *)
(* windows may carry any totals, sizes and offsets there are.              *)
(***************************************************************************)
EXTENDS RpcFetch, TLAPS

\* The inductive invariant.  The bounds are inductive only together with what the
\* buffer is before the first window and after a later one: a request in flight is
\* either the first, with nothing assembled, or follows a window that settled a
\* positive total.
Progress ==
    /\ pc = "idle" => windows = 0
    /\ pc = "asking" => asked.pinned /\ windows >= 1
    /\ windows <= 1 /\ pc # "done" => total = 0 /\ length = 0
    /\ windows > 1 => total > 0
    /\ total = 0 => length = 0

IInv == TypeOK /\ Bounded /\ Progress /\ AbsenceIsImmediate

\* The fetch starts with nothing assembled.
LEMMA InitInvariant == Init => IInv
  <1>1. Init => TypeOK
    <2>1. Init => honest \in BOOLEAN /\ lost \in BOOLEAN /\ faithful \in BOOLEAN
      BY Zenon DEF Init
    <2> QED
      BY <2>1 DEF Init, TypeOK, Results
  <1>2. Init => Bounded /\ Progress /\ AbsenceIsImmediate
    BY PagerAssumption DEF Init, Bounded, Progress, AbsenceIsImmediate
  <1> QED
    BY <1>1, <1>2 DEF IInv

\* A window keeps the types of what it is assembled into.
LEMMA AssembleTypes ==
    ASSUME TypeOK, NEW w \in Windows, Assemble(w)
    PROVE  /\ total' \in Nat
           /\ length' \in Nat
           /\ faithful' \in BOOLEAN
           /\ proof' \in {"none", "good", "bad"}
           /\ lens' \in {"empty", "matching", "inconsistent"}
  <1>1. w.total \in Nat /\ w.chunk.size \in Nat /\ w.chunk.continues \in BOOLEAN
    BY PagerAssumption DEF Windows, Chunks
  <1>2. w.proof \in {"none", "good", "bad"} /\ w.lens \in {"empty", "matching", "inconsistent"}
    BY DEF Windows
  <1>3. total' \in Nat /\ length' \in Nat
    BY <1>1 DEF TypeOK, Assemble, Declared
  <1>4. faithful' \in BOOLEAN
    BY DEF Assemble
  <1>5. proof' \in {"none", "good", "bad"} /\ lens' \in {"empty", "matching", "inconsistent"}
    BY <1>2 DEF TypeOK, Assemble
  <1> QED
    BY <1>3, <1>4, <1>5

\* An acceptable window leaves a positive total within the maximum, and no more
\* bytes than that.
LEMMA AssembleBounds ==
    ASSUME TypeOK, Bounded, NEW w \in Windows, Acceptable(w), Assemble(w)
    PROVE  0 < total' /\ total' <= MaxResource /\ length' <= total'
  <1>1. w.total \in Nat /\ w.chunk.size \in Nat
    BY PagerAssumption DEF Windows, Chunks
  <1> QED
    BY <1>1, PagerAssumption
       DEF TypeOK, Bounded, Acceptable, Assemble, Declared, Absent, TooLarge, Overrun

\* Every step keeps the invariant, one window at a time.
LEMMA StepInvariant == IInv /\ [Next]_vars => IInv'
  <1> SUFFICES ASSUME IInv, [Next]_vars PROVE IInv'
    OBVIOUS
  <1> USE PagerAssumption
  <1>1. CASE Begin
    BY <1>1 DEF Begin, Return, IInv, TypeOK, Bounded, Progress, AbsenceIsImmediate, buffer, Results,
                Requests
  <1>2. CASE Answer
    <2> PICK w \in Windows :
            /\ Continue(w) \/ Complete(w) \/ Reject(w)
            /\ honest' = (honest /\ HonestWindow(w))
      BY <1>2 DEF Answer
    <2>0. pc = "asking" /\ asked' = asked /\ asked.pinned
          /\ honest' \in BOOLEAN /\ lost' \in BOOLEAN
      BY <1>2 DEF Answer, IInv, TypeOK, Progress
    <2>1. CASE Continue(w)
      <3>1. Acceptable(w) /\ Assemble(w) /\ offset' = w.next /\ windows' = windows + 1
            /\ pc' = pc /\ result' = result /\ ~ Last(w)
        BY <2>1 DEF Continue
      <3>2. w.next \in Nat
        BY <3>1 DEF Windows, Last
      <3>3. TypeOK'
        BY <2>0, <3>1, <3>2, AssembleTypes DEF IInv, TypeOK
      <3>4. 0 < total' /\ Bounded'
        BY <3>1, AssembleBounds DEF IInv, Bounded, Acceptable, TooMany, TypeOK
      <3>5. Progress' /\ AbsenceIsImmediate'
        BY <2>0, <3>1, <3>3, <3>4 DEF IInv, TypeOK, Progress, AbsenceIsImmediate
      <3> QED
        BY <3>3, <3>4, <3>5 DEF IInv
    <2>2. CASE Complete(w)
      <3>1. Acceptable(w) /\ Assemble(w) /\ offset' = offset /\ windows' = windows
            /\ pc' = "done" /\ result' = Verdict(length', faithful', proof', lens')
        BY <2>2 DEF Complete, Return
      <3>2. TypeOK'
        BY <2>0, <3>1, AssembleTypes DEF IInv, TypeOK, Verdict, Results
      <3>3. 0 < total' /\ Bounded'
        BY <3>1, AssembleBounds DEF IInv, Bounded
      <3>4. result' # "NotFound"
        BY <3>1 DEF Verdict
      <3>5. Progress' /\ AbsenceIsImmediate'
        BY <3>1, <3>2, <3>3, <3>4 DEF TypeOK, Progress, AbsenceIsImmediate
      <3> QED
        BY <3>2, <3>3, <3>5 DEF IInv
    <2>3. CASE Reject(w)
      <3>1. pc' = "done" /\ result' = (IF Absent(w) THEN "NotFound" ELSE "Rpc")
            /\ UNCHANGED <<buffer, offset, windows>>
        BY <2>3 DEF Reject, Return
      <3>2. TypeOK' /\ Bounded'
        BY <2>0, <3>1 DEF IInv, TypeOK, Bounded, buffer, Results
      <3>3. Absent(w) => total = 0 /\ windows = 1 /\ length = 0
        BY <2>0 DEF Absent, Declared, IInv, Progress, TypeOK
      <3>4. Progress' /\ AbsenceIsImmediate'
        BY <2>0, <3>1, <3>2, <3>3 DEF IInv, Progress, AbsenceIsImmediate, buffer, TypeOK
      <3> QED
        BY <3>2, <3>4 DEF IInv
    <2> QED
      BY <2>1, <2>2, <2>3
  <1>3. CASE CallFails
    BY <1>3 DEF CallFails, Return, IInv, TypeOK, Bounded, Progress, AbsenceIsImmediate, buffer, Results
  <1>4. CASE UNCHANGED vars
    BY <1>4 DEF vars, IInv, TypeOK, Bounded, Progress, AbsenceIsImmediate, buffer
  <1> QED
    BY <1>1, <1>2, <1>3, <1>4 DEF Next

\* The invariant holds of every state of every fetch.
THEOREM Invariant == Spec => []IInv
  BY InitInvariant, StepInvariant, PTL DEF Spec

\* The locals of rpc::fetch keep their types, whatever the gateway answers.
THEOREM TypeCorrect == Spec => []TypeOK
  BY Invariant, PTL DEF IInv

\* No gateway makes a fetch send more than MaxWindows requests, or hold more bytes
\* than it declared in its first window or than MaxResource.
THEOREM FetchIsBounded == Spec => []Bounded
  BY Invariant, PTL DEF IInv

\* The ladder falls through on absence only before anything was delivered.
THEOREM AbsenceOnlyAtOnce == Spec => []AbsenceIsImmediate
  BY Invariant, PTL DEF IInv

-----------------------------------------------------------------------------
\* What opening the buffer comes to is what the ladder counts on.
LEMMA VerdictPossible ==
    ASSUME TypeOK, asked.pinned, NEW len, NEW intact, NEW prf, NEW plan
    PROVE  Verdict(len, intact, prf, plan) \in OneShot!Possible(asked)
  <1>1. asked.salt \in {"right", "wrong", "short"}
    BY DEF TypeOK, Requests
  <1> QED
    BY <1>1 DEF Verdict, OneShot!Possible, OneShot!OpenedAs

\* To the ladder the windows of a fetch are one step, with a result that it knows:
\* rpc.rs fetch implements the fetch of the Resolver module.
THEOREM FetchIsOneShot == Spec => ImplementsOneShot
  <1> DEFINE shown == IF pc = "done" THEN result ELSE "pending"
  <1>1. Init => OneShot!Init
    BY DEF Init, OneShot!Init
  <1>2. IInv /\ [Next]_vars => [OneShot!Fetch]_<<asked, shown>>
    <2> SUFFICES ASSUME IInv, [Next]_vars PROVE [OneShot!Fetch]_<<asked, shown>>
      OBVIOUS
    <2>1. ASSUME pc # "done", pc' = "done", asked' = asked,
                 result' \in OneShot!Possible(asked)
          PROVE  OneShot!Fetch
      BY <2>1 DEF OneShot!Fetch
    <2>2. CASE Begin
      <3>1. CASE ~ asked.pinned /\ Return("RootRequired")
        BY <2>1, <2>2, <3>1 DEF Begin, Return, OneShot!Possible
      <3>2. CASE asked.pinned /\ pc' = "asking"
        BY <2>2, <3>2 DEF Begin
      <3> QED
        BY <2>2, <3>1, <3>2 DEF Begin
    <2>3. CASE Answer
      <3> PICK w \in Windows : Continue(w) \/ Complete(w) \/ Reject(w)
        BY <2>3 DEF Answer
      <3>1. pc = "asking" /\ asked' = asked /\ asked.pinned /\ TypeOK
        BY <2>3 DEF Answer, IInv, Progress
      <3>2. CASE Continue(w)
        BY <3>1, <3>2 DEF Continue
      <3>3. CASE Complete(w)
        <4>1. pc' = "done" /\ result' = Verdict(length', faithful', proof', lens')
          BY <3>3 DEF Complete, Return
        <4> QED
          BY <2>1, <3>1, <4>1, VerdictPossible
      <3>4. CASE Reject(w)
        <4>1. pc' = "done" /\ result' \in {"NotFound", "Rpc"}
          BY <3>4 DEF Reject, Return
        <4> QED
          BY <2>1, <3>1, <4>1 DEF OneShot!Possible
      <3> QED
        BY <3>2, <3>3, <3>4
    <2>4. CASE CallFails
      <3>1. pc = "asking" /\ asked' = asked /\ asked.pinned
            /\ pc' = "done" /\ result' \in {"Transport", "Rpc"}
        BY <2>4 DEF CallFails, Return, IInv, Progress
      <3> QED
        BY <2>1, <3>1 DEF OneShot!Possible
    <2>5. CASE UNCHANGED vars
      BY <2>5 DEF vars
    <2> QED
      BY <2>2, <2>3, <2>4, <2>5 DEF Next
  <1> QED
    BY <1>1, <1>2, Invariant, PTL DEF Spec, ImplementsOneShot, OneShot!Spec

-----------------------------------------------------------------------------
\* Against a gateway that has been honest so far the buffer is a prefix of the
\* committed ciphertext that ends at the cursor, and every window before was full.
Honest ==
    honest /\ pc # "done" =>
        /\ faithful /\ length = offset /\ offset < Length
        /\ windows <= 1 => offset = 0
        /\ windows > 1 => total = Length /\ offset = (windows - 1) * ServerWindow
        /\ proof # "bad" /\ lens \in {"empty", ChunkPlan}

\* The windows that MaxWindows allows hold the whole resource.
LEMMA WindowsSuffice ==
    ASSUME NEW n \in Nat, NEW m \in Nat, NEW s \in Nat, NEW l \in Nat,
           m * s >= l, n * s < l
    PROVE  n + 1 <= m
  <1>1. n >= m => n * s >= m * s
    <2> SUFFICES ASSUME n >= m PROVE n * s >= m * s
      OBVIOUS
    <2> DEFINE d == n - m
    <2>1. d \in Nat /\ n = m + d
      OBVIOUS
    <2> HIDE DEF d
    <2>2. d * s \in Nat
      BY <2>1
    <2>3. (m + d) * s = m * s + d * s
      BY <2>1
    <2> QED
      BY <2>1, <2>2, <2>3
  <1> QED
    BY <1>1

\* The next window of an honest gateway starts where this one ends.
LEMMA NextStart ==
    ASSUME NEW n \in Nat, NEW s \in Nat
    PROVE  (n - 1) * s + s = n * s
  OBVIOUS

\* An honest window settles the total, continues the buffer and ends where the next
\* one starts, or at the end of the ciphertext.
LEMMA HonestStep ==
    ASSUME IInv, Honest, honest, pc = "asking", NEW w \in Windows, HonestWindow(w)
    PROVE  /\ HonestSize \in Nat /\ HonestSize > 0
           /\ w.chunk.size = HonestSize /\ w.chunk.valid /\ w.chunk.continues
           /\ offset + HonestSize <= Length
           /\ Declared(w) = Length
           /\ ~ Last(w) => /\ w.next = offset + HonestSize
                           /\ w.next = windows * ServerWindow
                           /\ w.next < Length
           /\ Last(w) => w.complete /\ offset + HonestSize = Length
  <1>1. offset \in Nat /\ windows \in Nat /\ windows >= 1 /\ offset < Length
        /\ Length \in Nat /\ ServerWindow \in Nat /\ ServerWindow > 0
    BY PagerAssumption DEF IInv, TypeOK, Progress, Honest
  <1>2. HonestSize \in Nat /\ HonestSize > 0 /\ offset + HonestSize <= Length
    BY <1>1 DEF HonestSize
  <1>3. w.chunk.size = HonestSize /\ w.chunk.valid /\ w.chunk.continues /\ w.total = Length
    <2>1. length = offset
      BY PagerAssumption DEF IInv, Progress, Honest
    <2>2. w.chunk = [size |-> HonestSize, valid |-> TRUE, continues |-> (length = offset)]
          /\ w.total = Length
      BY DEF HonestWindow
    <2>3. w.chunk = [size |-> HonestSize, valid |-> TRUE, continues |-> TRUE]
      BY <2>1, <2>2, Zenon
    <2> QED
      BY <2>2, <2>3
  <1>4. Declared(w) = Length
    BY <1>1, <1>3 DEF Declared, Honest, IInv, Progress
  <1>5. /\ w.complete = (offset + HonestSize = Length)
        /\ w.next = IF offset + HonestSize = Length THEN NoOffset ELSE offset + HonestSize
    BY DEF HonestWindow
  <1>6. Last(w) <=> offset + HonestSize = Length
    <2>1. offset + HonestSize \in Nat
      BY <1>1, <1>2
    <2>2. CASE offset + HonestSize = Length
      BY <1>5, <2>2 DEF Last
    <2>3. CASE offset + HonestSize # Length
      <3>1. ~ w.complete /\ w.next \in Nat
        BY <1>5, <2>1, <2>3
      <3> QED
        BY <2>3, <3>1, PagerAssumption DEF Last
    <2> QED
      BY <2>2, <2>3
  <1>7. ASSUME ~ Last(w)
        PROVE  w.next = offset + HonestSize /\ HonestSize = ServerWindow /\ w.next < Length
    BY <1>1, <1>2, <1>6, <1>7 DEF HonestWindow, HonestSize
  <1>8. offset = (windows - 1) * ServerWindow
    <2>1. CASE windows <= 1
      BY <1>1, <2>1 DEF Honest
    <2>2. CASE windows > 1
      BY <2>2 DEF Honest
    <2> QED
      BY <1>1, <2>1, <2>2
  <1>9. ~ Last(w) => w.next = windows * ServerWindow
    BY <1>1, <1>7, <1>8, NextStart
  <1>10. Last(w) => w.complete
    BY <1>5, <1>6
  <1> QED
    BY <1>2, <1>3, <1>4, <1>6, <1>7, <1>9, <1>10

\* The pager refuses no honest window, if there are enough of them.
LEMMA HonestAccepted ==
    ASSUME IInv, Honest, honest, pc = "asking", NEW w \in Windows, HonestWindow(w),
           MaxWindows * ServerWindow >= Length
    PROVE  Acceptable(w)
  <1>1. offset \in Nat /\ windows \in Nat /\ Length \in Nat /\ Length > 0
        /\ Length <= MaxResource /\ MaxResource \in Nat /\ MaxWindows \in Nat
        /\ ServerWindow \in Nat /\ length = offset
    BY PagerAssumption DEF IInv, TypeOK, Honest
  <1>2. ~ Absent(w) /\ ~ TooLarge(w) /\ w.chunk.valid /\ ~ Overrun(w)
    BY <1>1, HonestStep DEF Absent, TooLarge, Overrun
  <1>3. ~ Stuck(w)
    <2> SUFFICES ASSUME ~ Last(w) PROVE ~ (w.next <= offset)
      BY DEF Stuck
    <2> QED
      BY <1>1, HonestStep
  <1>4. ~ TooMany(w)
    <2> SUFFICES ASSUME ~ Last(w) PROVE ~ (windows + 1 > MaxWindows)
      BY DEF TooMany
    <2>1. windows * ServerWindow < Length
      BY HonestStep
    <2>2. windows + 1 <= MaxWindows
      BY <1>1, <2>1, WindowsSuffice
    <2> QED
      BY <1>1, <2>2
  <1> QED
    BY <1>2, <1>3, <1>4 DEF Acceptable

\* What is assembled in part is never verified, so the two properties of an honest
\* gateway rest on the same prefix.
HInv == IInv /\ Honest /\ HonestGatewayIsServed /\ HonestGatewayIsNotBlamed

LEMMA StepHonest == HInv /\ [Next]_vars => HInv'
  <1> SUFFICES ASSUME HInv, [Next]_vars PROVE HInv'
    OBVIOUS
  <1>0. IInv'
    BY StepInvariant DEF HInv
  <1> USE PagerAssumption
  <1>1. CASE Begin
    <2>1. Honest'
      BY <1>1 DEF Begin, Return, HInv, Honest, IInv, TypeOK, Progress, buffer
    <2>2. HonestGatewayIsServed'
      BY <1>1 DEF Begin, HonestGatewayIsServed
    <2>3. HonestGatewayIsNotBlamed'
      BY <1>1 DEF Begin, Return, HonestGatewayIsNotBlamed
    <2> QED
      BY <1>0, <2>1, <2>2, <2>3 DEF HInv
  <1>2. CASE Answer
    <2> PICK w \in Windows :
            /\ Continue(w) \/ Complete(w) \/ Reject(w)
            /\ honest' = (honest /\ HonestWindow(w))
      BY <1>2 DEF Answer
    <2>0. pc = "asking" /\ asked' = asked /\ IInv /\ Honest
      BY <1>2 DEF Answer, HInv
    <2> SUFFICES ASSUME honest, HonestWindow(w)
                 PROVE  Honest' /\ HonestGatewayIsServed' /\ HonestGatewayIsNotBlamed'
      BY <1>0 DEF HInv, Honest, HonestGatewayIsServed, HonestGatewayIsNotBlamed
    <2>1. length = offset /\ offset \in Nat /\ windows \in Nat /\ windows >= 1 /\ faithful
          /\ proof # "bad" /\ lens \in {"empty", ChunkPlan}
      BY <2>0 DEF Honest, IInv, TypeOK, Progress
    <2>2. /\ HonestSize \in Nat /\ HonestSize > 0
          /\ w.chunk.size = HonestSize /\ w.chunk.continues
          /\ Declared(w) = Length
      BY <2>0, HonestStep
    <2>3. w.proof # "bad" /\ w.lens \in {"empty", ChunkPlan}
      BY DEF HonestWindow
    <2>4. Assemble(w) => /\ total' = Length /\ length' = offset + HonestSize /\ faithful'
                         /\ proof' # "bad" /\ lens' \in {"empty", ChunkPlan}
      BY <2>1, <2>2, <2>3 DEF Assemble
    <2>5. CASE Continue(w)
      <3>1. Assemble(w) /\ ~ Last(w) /\ offset' = w.next /\ windows' = windows + 1
            /\ pc' = "asking"
        BY <2>0, <2>5 DEF Continue
      <3>2. w.next = offset + HonestSize /\ w.next = windows * ServerWindow
            /\ w.next < Length
        BY <2>0, <3>1, HonestStep
      <3>3. windows' - 1 = windows
        BY <2>1, <3>1
      <3>4. offset' = (windows' - 1) * ServerWindow
        BY <3>1, <3>2, <3>3
      <3>5. ~ (windows' <= 1)
        BY <2>1, <3>1
      <3>6. Honest'
        BY <2>4, <3>1, <3>2, <3>4, <3>5 DEF Honest
      <3> QED
        BY <3>1, <3>6 DEF HonestGatewayIsServed, HonestGatewayIsNotBlamed
    <2>6. CASE Complete(w)
      <3>1. Assemble(w) /\ Last(w) /\ pc' = "done"
            /\ result' = Verdict(length', faithful', proof', lens')
        BY <2>6 DEF Complete, Return
      <3>2. w.complete /\ offset + HonestSize = Length
        BY <2>0, <3>1, HonestStep
      <3>3. proof' = "good"
        <4>1. proof # "good" => w.proof = "good"
          BY <3>2 DEF HonestWindow
        <4>2. w.proof \in {"none", "good", "bad"}
          BY DEF Windows
        <4> QED
          BY <2>3, <3>1, <4>1, <4>2 DEF Assemble
      <3>4. lens' = ChunkPlan
        <4>1. lens # ChunkPlan => w.lens = ChunkPlan
          BY <3>2 DEF HonestWindow
        <4> QED
          BY <2>1, <2>3, <3>1, <4>1 DEF Assemble
      <3>5. length' = Length /\ faithful'
        BY <2>4, <3>1, <3>2
      <3>6. asked.salt \in {"right", "wrong", "short"}
        BY <2>0 DEF IInv, TypeOK, Requests
      <3>7. result' = IF asked.salt = "short" THEN "Parse"
                      ELSE IF asked.salt = "wrong" THEN "DecryptFailed" ELSE "Ok"
        BY <3>1, <3>3, <3>4, <3>5 DEF Verdict
      <3>8. HonestGatewayIsServed'
        BY <2>0, <3>6, <3>7 DEF HonestGatewayIsServed
      <3>9. HonestGatewayIsNotBlamed'
        BY <2>0, <3>6, <3>7 DEF HonestGatewayIsNotBlamed
      <3> QED
        BY <3>1, <3>8, <3>9 DEF Honest
    <2>7. CASE Reject(w)
      <3>1. pc' = "done" /\ ~ Acceptable(w)
            /\ result' = (IF Absent(w) THEN "NotFound" ELSE "Rpc")
        BY <2>7 DEF Reject, Return
      <3>2. ~ (MaxWindows * ServerWindow >= Length)
        BY <2>0, <3>1, HonestAccepted
      <3>3. ~ Absent(w)
        BY <2>2 DEF Absent
      <3> QED
        BY <3>1, <3>2, <3>3 DEF Honest, HonestGatewayIsServed, HonestGatewayIsNotBlamed
    <2> QED
      BY <2>5, <2>6, <2>7
  <1>3. CASE CallFails
    <2>1. lost' /\ pc' = "done" /\ result' \in {"Transport", "Rpc"}
      BY <1>3 DEF CallFails, Return
    <2>2. HonestGatewayIsNotBlamed'
      BY <2>1 DEF HonestGatewayIsNotBlamed
    <2> QED
      BY <1>0, <2>1, <2>2 DEF HInv, Honest, HonestGatewayIsServed
  <1>4. CASE UNCHANGED vars
    <2>1. Honest' /\ HonestGatewayIsServed' /\ HonestGatewayIsNotBlamed'
      BY <1>4 DEF vars, buffer, HInv, Honest, HonestGatewayIsServed, HonestGatewayIsNotBlamed
    <2> QED
      BY <1>0, <2>1 DEF HInv
  <1> QED
    BY <1>1, <1>2, <1>3, <1>4 DEF Next

\* The invariant of every fetch; its last parts speak of one whose answers were all
\* honest.
THEOREM HonestInvariant == Spec => []HInv
  <1>1. Init => HInv
    <2>1. Init => Honest /\ HonestGatewayIsServed /\ HonestGatewayIsNotBlamed
      BY PagerAssumption DEF Init, Honest, HonestGatewayIsServed, HonestGatewayIsNotBlamed
    <2> QED
      BY <2>1, InitInvariant DEF HInv
  <1> QED
    BY <1>1, StepHonest, PTL DEF Spec

\* A gateway that is honest throughout is served, whatever the size of its windows, as
\* long as MAX_WINDOWS of them hold the resource: no check of rpc.rs fetch is too strict.
THEOREM HonestGateway == Spec => []HonestGatewayIsServed
  BY HonestInvariant, PTL DEF HInv

\* Whichever call of an honest gateway is lost, and however small its windows, rpc.rs
\* fetch neither reports an attack nor lets the ladder fall through to NotFound.
THEOREM HonestIsNotBlamed == Spec => []HonestGatewayIsNotBlamed
  BY HonestInvariant, PTL DEF HInv

=============================================================================
