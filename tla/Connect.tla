------------------------------- MODULE Connect -------------------------------
(***************************************************************************)
(* Getting a client for one address.  DeviceManager authenticates a device  *)
(* the broadcast found: it probes the client discovery built, then calls    *)
(* KasaAPI.get_device under a time limit, a few times, and once more        *)
(* without credentials.  A reclaim, a manual add and a reconnect call       *)
(* get_device once, with no limit.  get_device itself goes through          *)
(* discover_single, Device.connect with credentials, and without.           *)
(*                                                                          *)
(* A step is the code between two awaits.  The time limit of a call and a   *)
(* cancelled discovery pass both arrive as a CancelledError at an await,    *)
(* the await of a close included.  python-kasa closes what it builds and    *)
(* does not return.  An update and the rebuild of a plug as a strip that    *)
(* may follow it are on one session and have one handler: they are one      *)
(* await here.  Registering a client raises nothing.                        *)
(***************************************************************************)
EXTENDS Naturals, FiniteSets

CONSTANTS
    Clients,    \* the clients an attempt builds; a closed one is made anew
    None,       \* no client
    MaxTries    \* DeviceManager.max_retries

ASSUME ConnectAssumption == None \notin Clients /\ MaxTries \in Nat \ {0}

VARIABLES
    pc,         \* the await the attempt is in, "naming" or "over" once it has a result
    hand,       \* the client in the local variable `device`, or None
    after,      \* what follows the close that is under way
    tries,      \* calls of get_device left under the time limit; 0: one without limit
    creds,      \* whether this call was given credentials
    withheld,   \* a SmartDevice that may not be sent credentials
    open,       \* the clients whose session is open
    outcome,    \* "pending", "registered", "refused", "withheld", "failed", "cancelled"
    lost        \* history: clients a cancellation left open in nobody's hands

connectVars ==
    <<pc, hand, after, tries, creds, withheld, open, outcome, lost>>

\* The awaits with no client in hand, and those of an update on the one in hand.
Bare == {"resolving", "single", "direct", "plain"}
Updates == {"probing", "updating", "settling"}
Fallbacks == {"retry", "withheld", "direct", "raise", "refused"}

\* The type invariant: every variable of an attempt is in its range; the calls left
\* never exceed max_retries (_authenticate_device_with_retry's loop).
TypeOK ==
    /\ pc \in Bare \cup Updates \cup {"closing", "naming", "over"}
    /\ hand \in Clients \cup {None}
    /\ after \in Fallbacks \cup {"timeout", "cancelled", "none"}
    /\ tries \in 0..MaxTries
    /\ creds \in BOOLEAN /\ withheld \in BOOLEAN
    /\ open \subseteq Clients
    /\ outcome \in
         {"pending", "registered", "refused", "withheld", "failed", "cancelled"}
    /\ lost \subseteq Clients

\* Discovery hands over a client that is probed first, or get_device is called once.
ConnectInit ==
    /\ after = "none" /\ outcome = "pending" /\ lost = {}
    /\ creds \in BOOLEAN
    /\ \/ /\ pc = "probing" /\ tries = MaxTries
          /\ withheld \in {FALSE, ~creds}
          /\ hand \in Clients /\ open = {hand}
       \/ /\ pc = "resolving" /\ tries = 0
          /\ withheld = FALSE
          /\ hand = None /\ open = {}

-----------------------------------------------------------------------------
(* How a call of get_device, and the whole attempt, can end. *)

Ends(result) ==
    /\ pc' = "over" /\ outcome' = result
    /\ hand' = None /\ after' = "none"
    /\ UNCHANGED <<tries, creds>>

\* The caller registers the client; an authentication then looks up its host name.
Returns(c) ==
    /\ pc' = "naming" /\ outcome' = "registered"
    /\ hand' = c /\ after' = "none"
    /\ UNCHANGED <<tries, creds, withheld, lost>>

CallAgain(left, withCreds) ==
    /\ pc' = "resolving" /\ tries' = left /\ creds' = withCreds
    /\ hand' = None /\ after' = "none"
    /\ UNCHANGED outcome

\* Mutants of TriesLeft: a failed call is not counted, or is counted the wrong way.
TriesUncounted == tries
TriesCountedUp == tries + 1

TriesLeft == tries - 1

\* An exception leaves get_device.  One about credentials is not tried again with
\* them; a call without a time limit is the caller's last.
Raises(aboutCredentials) ==
    \/ /\ tries > 1 /\ ~aboutCredentials
       /\ CallAgain(TriesLeft, creds)
    \/ /\ tries = 1 \/ (tries > 1 /\ aboutCredentials)
       /\ CallAgain(0, FALSE)
    \/ /\ tries = 0
       /\ Ends("failed")

\* `await _close_quietly(device)`, then what the handler goes on with.
Closes(then) ==
    /\ pc' = "closing" /\ after' = then
    /\ UNCHANGED <<hand, tries, creds, withheld, open, outcome, lost>>

Builds(c) == c \notin open /\ open' = open \cup {c}

-----------------------------------------------------------------------------
(* The awaits of an attempt, as they end on their own. *)

\* authenticate_discovered_device: the discovered client answers, or is closed.
ProbeAnswers == pc = "probing" /\ Returns(hand) /\ UNCHANGED open

ProbeFails ==
    /\ pc = "probing"
    /\ Closes(IF withheld THEN "withheld" ELSE "retry")

Resolved ==
    /\ pc = "resolving" /\ pc' = "single"
    /\ UNCHANGED <<hand, after, tries, creds, withheld, open, outcome, lost>>

ResolveFails ==
    /\ pc = "resolving" /\ Raises(FALSE)
    /\ UNCHANGED <<withheld, open, lost>>

\* discover_single answers: the client is updated, or refused before its login.
SingleAnswers(c) ==
    /\ pc = "single" /\ Builds(c) /\ hand' = c
    /\ \/ pc' = "updating" /\ after' = "none"
       \/ creds /\ pc' = "closing" /\ after' = "refused"
    /\ UNCHANGED <<tries, creds, withheld, outcome, lost>>

\* It answers nothing, or fails: the fallback is a direct connection.
SingleFails ==
    /\ pc = "single" /\ pc' = "direct"
    /\ UNCHANGED <<hand, after, tries, creds, withheld, open, outcome, lost>>

UpdateAnswers == pc \in {"updating", "settling"} /\ Returns(hand) /\ UNCHANGED open

\* Mutant of UpdateFails: the fallback replaces the client without closing it.
UpdateFailsUnclosed ==
    /\ pc = "updating" /\ pc' = "direct" /\ hand' = None
    /\ UNCHANGED <<after, tries, creds, withheld, open, outcome, lost>>

UpdateFails == pc = "updating" /\ Closes("direct")

SettleFails == pc = "settling" /\ Closes("raise")

\* Device.connect, with the credentials and, when that fails, without.
DirectAnswers(c) ==
    /\ pc \in {"direct", "plain"} /\ Builds(c)
    /\ pc' = "settling" /\ hand' = c
    /\ UNCHANGED <<after, tries, creds, withheld, outcome, lost>>

DirectFails(aboutCredentials) ==
    /\ pc \in {"direct", "plain"}
    /\ \/ /\ pc = "direct" /\ creds /\ pc' = "plain"
          /\ UNCHANGED <<hand, after, tries, creds, outcome>>
       \/ /\ ~(pc = "direct" /\ creds)
          /\ Raises(aboutCredentials)
    /\ UNCHANGED <<withheld, open, lost>>

Closed(aboutCredentials) ==
    /\ pc = "closing"
    /\ open' = open \ {hand}
    /\ \/ after = "retry" /\ CallAgain(tries, creds)
       \/ after \in {"withheld", "refused", "cancelled"} /\ Ends(after)
       \/ /\ after = "direct" /\ pc' = "direct" /\ hand' = None /\ after' = "none"
          /\ UNCHANGED <<tries, creds, outcome>>
       \/ after = "raise" /\ Raises(aboutCredentials)
       \/ after = "timeout" /\ Raises(FALSE)
    /\ UNCHANGED <<withheld, lost>>

-----------------------------------------------------------------------------
(* Cancellation: `why` is "timeout" (asyncio.wait_for) or "cancelled" (the pass). *)

\* wait_for covers a call of get_device; its timer goes off once.
TimerRuns == tries > 0 /\ pc \notin {"probing", "naming", "over"}
                       /\ after \notin {"retry", "withheld", "timeout"}

\* A TaskGroup, and poller.close, cancel a task once.
Reaches(why) == IF why = "cancelled" THEN after # "cancelled" ELSE TimerRuns

\* get_device's CancelledError handlers: close the client in hand, for a refused one once
\* more, then stop.
HasHandler == pc \in {"updating", "settling"} \/ (pc = "closing" /\ after = "refused")

Interrupted(why) == Reaches(why) /\ HasHandler /\ Closes(why)

\* A timeout is retried; a cancelled pass wins over a timeout.
Unwinds(why) ==
    \/ why = "timeout" /\ after # "cancelled" /\ Raises(FALSE)
    \/ "cancelled" \in {why, after} /\ Ends("cancelled")

\* Nothing is in hand at these awaits.
InterruptedBare(why) ==
    /\ Reaches(why) /\ pc \in Bare
    /\ Unwinds(why)
    /\ UNCHANGED <<withheld, open, lost>>

\* The probe has no handler for a cancellation, nor has a close but that of a refused
\* client: the client in hand is let go of, its session as it was.
InterruptedForgets(why) ==
    /\ Reaches(why) /\ pc \in {"probing", "closing"} /\ ~HasHandler
    /\ lost' = lost \cup {hand}
    /\ Unwinds(why)
    /\ UNCHANGED <<withheld, open>>

Answers ==
    \/ ProbeAnswers \/ ProbeFails \/ Resolved \/ ResolveFails
    \/ SingleFails \/ UpdateAnswers \/ UpdateFails \/ SettleFails
    \/ \E c \in Clients : SingleAnswers(c) \/ DirectAnswers(c)
    \/ \E aboutCredentials \in BOOLEAN :
         DirectFails(aboutCredentials) \/ Closed(aboutCredentials)

Interrupts ==
    \E why \in {"timeout", "cancelled"} :
        Interrupted(why) \/ InterruptedBare(why) \/ InterruptedForgets(why)

-----------------------------------------------------------------------------
(* Properties. *)

Result ==
    CASE outcome = "pending" -> "pending"
      [] outcome = "registered" -> "ready"
      [] OTHER -> "given up"

A == INSTANCE Attempt WITH live <- open \ lost, result <- Result

\* An attempt never opens a session beside one it holds, and is over with the session of
\* the client it returns, or with none: every failure, retry, fallback, timeout and
\* cancellation on the way closes what it built, but for the clients in `lost`
\* (KasaAPI.get_device and its callers implement Attempt).
ImplementsAttempt == A!AttemptSpec

\* However its steps fail, an attempt ends: retries and fallbacks are bounded.
AttemptEnds == <>(pc = "over")
==============================================================================
