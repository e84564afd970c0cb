----------------------------- MODULE OneShotFetch -----------------------------
(***************************************************************************)
(* A gateway fetch as the ladder sees it: one request that comes back with *)
(* one of the results that FetchResults!GatewayAnswers has for it, however *)
(* many windows that took.                                                 *)
(***************************************************************************)
CONSTANTS Requests, Pending

VARIABLES asked, result

\* The salt is looked at before the root, the root before the key.  Bytes that open
\* under the key of another URN, or with another chunk plan, do not open.
OpenedAs(salt) ==
    CASE salt = "short" -> {"Parse"}
      [] salt = "wrong" -> {"VerifyFailed", "DecryptFailed"}
      [] salt = "right" -> {"Ok", "VerifyFailed", "DecryptFailed"}

Possible(request) ==
    IF request.pinned THEN {"NotFound", "Transport", "Rpc"} \cup OpenedAs(request.salt)
    ELSE {"RootRequired"}

Init == asked \in Requests /\ result = Pending

Fetch ==
    /\ result = Pending
    /\ result' \in Possible(asked)
    /\ UNCHANGED asked

Spec == Init /\ [][Fetch]_<<asked, result>>
=============================================================================
