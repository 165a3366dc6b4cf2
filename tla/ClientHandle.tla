----------------------------- MODULE ClientHandle -----------------------------
(***************************************************************************)
(* What the device manager and the poller together promise about a client,  *)
(* with no word of how: a handle that is counted.  It is live from the      *)
(* moment it is registered until it is dropped; only a live handle gets a   *)
(* new user; a dropped one is closed by whoever is last, the dropper or its *)
(* last user, and by nobody before.  Each client follows its own machine,   *)
(* and several may move in one step (a swap makes one and drops another).   *)
(* Of the clients it excuses nothing is promised, and those stay excused.   *)
(***************************************************************************)
EXTENDS Naturals

CONSTANT Clients

VARIABLES
    life,    \* "none", "new" (made, not live yet), "live", "leaving" (dropped, in use),
             \* "closing" or "lost"
    users,   \* how many use the client
    excused  \* the clients the promise leaves out

handleVars == <<life, users, excused>>

HandleInit ==
    life = [c \in Clients |-> "none"] /\ users = [c \in Clients |-> 0] /\ excused = {}

Moves(c, from, to) == life[c] = from /\ life'[c] = to
Idle(c) == users[c] = 0 /\ users'[c] = 0

\* Connected: live, to be live later, or closed again at once.
Connect(c) == Idle(c) /\ \E to \in {"live", "new", "closing"} : Moves(c, "none", to)

\* What was made is live now, or its maker was cancelled.
Settle(c) == Idle(c) /\ \E to \in {"live", "lost"} : Moves(c, "new", to)

Use(c) == Moves(c, "live", "live") /\ users'[c] = users[c] + 1

\* A user leaves; the last one of a dropped client begins its close.
Leave(c) ==
    /\ users[c] > 0
    /\ users'[c] = users[c] - 1
    /\ \/ Moves(c, "live", "live")
       \/ users[c] > 1 /\ Moves(c, "leaving", "leaving")
       \/ users[c] = 1 /\ Moves(c, "leaving", "closing")

\* Dropped: closed now, or by its last user.
Drop(c) ==
    \/ Idle(c) /\ Moves(c, "live", "closing")
    \/ users[c] > 0 /\ users'[c] = users[c] /\ Moves(c, "live", "leaving")

\* The close is over, or was cancelled by a shutdown; a shutdown closes what is live.
Close(c) ==
    /\ Idle(c)
    /\ Moves(c, "closing", "none") \/ Moves(c, "closing", "lost") \/ Moves(c, "live", "none")

Stays(c) == life'[c] = life[c] /\ users'[c] = users[c]

HandleStep(c) ==
    Connect(c) \/ Settle(c) \/ Use(c) \/ Leave(c) \/ Drop(c) \/ Close(c) \/ Stays(c)

HandleNext == excused \subseteq excused' /\ \A c \in Clients \ excused' : HandleStep(c)

HandleSpec == HandleInit /\ [][HandleNext]_handleVars
===============================================================================
