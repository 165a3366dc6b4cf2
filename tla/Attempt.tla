------------------------------- MODULE Attempt -------------------------------
(***************************************************************************)
(* What one attempt to get a client for a device promises its caller, with  *)
(* none of the strategies, retries or timeouts it goes through: sessions    *)
(* come one after the other, and the attempt is over either with the one    *)
(* that is open handed over, or with nothing open.                          *)
(***************************************************************************)
CONSTANT Clients

VARIABLES
    live,       \* the clients with an open session: none, or one
    result      \* "pending", "ready" (its session is the caller's) or "given up"

attemptVars == <<live, result>>

AttemptInit ==
    /\ live = {} \/ \E c \in Clients : live = {c}
    /\ result = "pending"

\* A session is opened, only once the one before it is gone.
Open ==
    /\ result = "pending" /\ live = {}
    /\ \E c \in Clients : live' = {c}
    /\ UNCHANGED result

\* The session is given up; the attempt may go on.
Close ==
    /\ result = "pending" /\ live # {}
    /\ live' = {}
    /\ UNCHANGED result

\* The caller gets the client that is open.  It may have been opened by this very step.
Ready ==
    /\ result = "pending"
    /\ \E c \in Clients : live \in {{}, {c}} /\ live' = {c}
    /\ result' = "ready"

\* The attempt ends with nothing open; the last session may be given up by this step.
GiveUp ==
    /\ result = "pending"
    /\ live' = {}
    /\ result' = "given up"

AttemptNext == Open \/ Close \/ Ready \/ GiveUp

AttemptSpec == AttemptInit /\ [][AttemptNext]_attemptVars
==============================================================================
