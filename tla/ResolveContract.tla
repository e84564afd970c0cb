---------------------------- MODULE ResolveContract ----------------------------
(***************************************************************************)
(* What a caller of Resolver::resolve may count on, without plans, tiers,  *)
(* caches or files: each call is asked for a URN and answers once, with an *)
(* outcome that is allowed for that URN.  Calls do not influence one       *)
(* another; any of them may be lost at any time.                           *)
(***************************************************************************)
EXTENDS FetchResults

CONSTANTS Calls, NoUrn, NoOutcome

VARIABLES phase, asked, answer

vars == <<phase, asked, answer>>

Init ==
    /\ phase = [c \in Calls |-> "idle"]
    /\ asked = [c \in Calls |-> NoUrn]
    /\ answer = [c \in Calls |-> NoOutcome]

\* Bytes only for a success, and then bytes that are the publisher's; a rootless URN
\* only from a loopback node; a complaint about the URN only if it deserves it.
MayAnswer(u, o) ==
    /\ o.kind = "Success" =>
        /\ ~ Pinned(u) => o.via = "node"
        /\ o.bytes \in Allowed(u, o.via)
    /\ o.kind # "Success" => o.bytes = NoBytes
    /\ o.kind = "RootRequired" => ~ Pinned(u)
    /\ o.kind = "Parse" => u.salt \in ShortSalts

\* A call is asked, and suspended.
Ask(c) ==
    /\ phase[c] = "idle"
    /\ phase' = [phase EXCEPT ![c] = "asked"]
    /\ \E u \in Urns : asked' = [asked EXCEPT ![c] = u]
    /\ UNCHANGED answer

\* A suspended call answers.
Answer(c) ==
    /\ phase[c] = "asked"
    /\ phase' = [phase EXCEPT ![c] = "answered"]
    /\ \E o \in Outcomes :
        MayAnswer(asked[c], o) /\ answer' = [answer EXCEPT ![c] = o]
    /\ UNCHANGED asked

\* A call answers without being suspended.
AnswerAtOnce(c) ==
    /\ phase[c] = "idle"
    /\ phase' = [phase EXCEPT ![c] = "answered"]
    /\ \E u \in Urns, o \in Outcomes :
        /\ MayAnswer(u, o)
        /\ asked' = [asked EXCEPT ![c] = u]
        /\ answer' = [answer EXCEPT ![c] = o]

\* Answers are taken; calls are dropped, or lost with their process.
Leave(calls) ==
    /\ phase' = [c \in Calls |-> IF c \in calls THEN "idle" ELSE phase[c]]
    /\ asked' = [c \in Calls |-> IF c \in calls THEN NoUrn ELSE asked[c]]
    /\ answer' = [c \in Calls |-> IF c \in calls THEN NoOutcome ELSE answer[c]]

Next ==
    \/ \E c \in Calls : Ask(c) \/ Answer(c) \/ AnswerAtOnce(c)
    \/ \E calls \in SUBSET Calls : Leave(calls)

Spec == Init /\ [][Next]_vars
=============================================================================
