----------------------------- MODULE Orchestrator -----------------------------
(***************************************************************************)
(* The collector's process (main.py): it opens the InfluxDB connection,     *)
(* acquires the devices, runs the two poll loops and periodic_discover,     *)
(* and on a signal cancels them, waits for them for SHUTDOWN_TIMEOUT,       *)
(* cancels again, waits on, and closes what is open.                        *)
(*                                                                          *)
(* A loop's cycle is FetchCycle's, a pass DeviceRegistry's and Connect's:   *)
(* here one is no more than the awaits a cancellation finds it at.  What a  *)
(* cancelled one holds is closed in CloseTime, of which python-kasa is the  *)
(* judge: the collector sets no limit to it.                                *)
(***************************************************************************)
EXTENDS Integers

CONSTANTS
    Loops,              \* the two poll loops
    ShutdownTimeout,    \* KASA_COLLECTOR_SHUTDOWN_TIMEOUT
    DiscoveryInterval,  \* KASA_COLLECTOR_DEVICE_DISCOVERY_INTERVAL
    CloseTime           \* bound: the longest a cancelled cycle or pass closes clients

ASSUME ShutdownAssumption ==
    /\ ShutdownTimeout \in Nat \ {0} /\ DiscoveryInterval \in Nat \ {0}
    /\ CloseTime \in Nat

VARIABLES
    proc,       \* "down", "opening", "acquiring", "running", "cancelling", "closing"
    stop,       \* stop_event: a signal came
    storage,    \* whether write_api is set: "open" or "closed"
    loop,       \* each poll loop: where it is, and what its cycle's write came to
    discovery,  \* periodic_discover: where it is, and what is left of its last pause
    waited,     \* ticks since the tasks were cancelled
    again,      \* what periodic_discover was at when the tasks were cancelled again, or
                \* "none": they were not
    stored      \* history: this process put data of a device in InfluxDB

procVars == <<proc, stop, storage, loop, discovery, waited, again, stored>>

\* `ok`: the cycle counts a device as stored; `landed` (history): its batch is in InfluxDB.
At(place) == [at |-> place, ok |-> FALSE, landed |-> FALSE]
Awaits(place) == [at |-> place, left |-> 0]

ProcInit ==
    /\ proc = "down" /\ stop = FALSE /\ storage = "closed"
    /\ loop = [l \in Loops |-> At("ended")] /\ discovery = Awaits("ended")
    /\ waited = 0 /\ again = "none" /\ stored = FALSE

Ended(l) == loop[l].at = "ended"
TasksEnded == discovery.at = "ended" /\ \A l \in Loops : Ended(l)

-----------------------------------------------------------------------------
(* Starting: main and KasaCollector.start.  A signal meanwhile waits for its end. *)

ProcStarts ==
    /\ proc = "down" /\ proc' = "opening"
    /\ stop' = FALSE /\ stored' = FALSE /\ waited' = 0 /\ again' = "none"
    /\ UNCHANGED <<storage, loop, discovery>>

Signal ==
    /\ proc # "down" /\ ~stop /\ stop' = TRUE
    /\ UNCHANGED <<proc, storage, loop, discovery, waited, again, stored>>

PingAnswers ==
    /\ proc = "opening" /\ proc' = "acquiring"
    /\ storage' = "open"
    /\ UNCHANGED <<stop, loop, discovery, waited, again, stored>>

\* Mutant of PingFails: the collector starts without its InfluxDB.
PingIgnored ==
    /\ proc = "opening" /\ proc' = "acquiring"
    /\ UNCHANGED <<stop, storage, loop, discovery, waited, again, stored>>

\* An InfluxDB that cannot be reached, or is not healthy, ends the process.
PingFails ==
    /\ proc = "opening" /\ proc' = "closing"
    /\ UNCHANGED <<stop, storage, loop, discovery, waited, again, stored>>

Acquired ==
    /\ proc = "acquiring" /\ proc' = "running"
    /\ loop' = [l \in Loops |-> At("fetching")]
    /\ discovery' = Awaits("delay")
    /\ UNCHANGED <<stop, storage, waited, again, stored>>

AcquireFails ==
    /\ proc = "acquiring" /\ proc' = "closing"
    /\ UNCHANGED <<stop, storage, loop, discovery, waited, again, stored>>

-----------------------------------------------------------------------------
(* The tasks. *)

\* send_to_influxdb: without a connection there is nothing to do, and that is no failure.
Write(l) ==
    /\ loop[l].at = "fetching"
    /\ loop' = [loop EXCEPT ![l] =
           IF storage = "open" THEN At("writing") ELSE [At("counted") EXCEPT !.ok = TRUE]]
    /\ UNCHANGED <<proc, stop, storage, discovery, waited, again, stored>>

WriteReturns(l) ==
    /\ loop[l].at = "writing"
    /\ \E written \in BOOLEAN :
         /\ loop' = [loop EXCEPT ![l] =
                [at |-> "counted", ok |-> written, landed |-> written]]
         /\ stored' = (stored \/ written)
    /\ UNCHANGED <<proc, stop, storage, discovery, waited, again>>

\* The metrics are written; the loop sleeps, then reads the devices again.
CycleEnds(l) ==
    /\ loop[l].at = "counted"
    /\ loop' = [loop EXCEPT ![l] = At("fetching")]
    /\ UNCHANGED <<proc, stop, storage, discovery, waited, again, stored>>

\* The catch-up delay, then passes, each followed by a pause.
DiscoveryGoesOn ==
    /\ discovery.at \in {"delay", "pass", "pause"}
    /\ discovery' = Awaits(IF discovery.at = "pass" THEN "pause" ELSE "pass")
    /\ UNCHANGED <<proc, stop, storage, loop, waited, again, stored>>

\* A cancelled cycle, or pass, has closed what it held.  The pass's finally then sleeps.
LoopUnwound(l) ==
    /\ loop[l].at = "unwinding"
    /\ loop' = [loop EXCEPT ![l] = At("ended")]
    /\ UNCHANGED <<proc, stop, storage, discovery, waited, again, stored>>

LastPause == [at |-> "last pause", left |-> DiscoveryInterval]

PassUnwound ==
    /\ discovery.at = "unwinding"
    /\ discovery' = LastPause
    /\ UNCHANGED <<proc, stop, storage, loop, waited, again, stored>>

LastPauseEnds ==
    /\ discovery = [at |-> "last pause", left |-> 0]
    /\ discovery' = Awaits("ended")
    /\ UNCHANGED <<proc, stop, storage, loop, waited, again, stored>>

-----------------------------------------------------------------------------
(* KasaCollector.shutdown. *)

\* A cancellation ends the discovery task at a sleep, and a pass only after its pause.
CancelDiscovery ==
    IF discovery.at = "pass" THEN Awaits("unwinding") ELSE Awaits("ended")

\* Mutant of ShutdownBegins: it lets the writes under way come to their end first.
ShutdownWaits ==
    /\ proc = "running" /\ stop /\ proc' = "cancelling"
    /\ \A l \in Loops : loop[l].at # "writing"
    /\ loop' = [l \in Loops |-> At("unwinding")]
    /\ discovery' = CancelDiscovery
    /\ UNCHANGED <<stop, storage, waited, again, stored>>

ShutdownBegins ==
    /\ proc = "running" /\ stop /\ proc' = "cancelling"
    /\ loop' = [l \in Loops |-> At("unwinding")]
    /\ discovery' = CancelDiscovery
    /\ UNCHANGED <<stop, storage, waited, again, stored>>

TimeIsUp ==
    proc = "cancelling" /\ waited = ShutdownTimeout /\ again = "none" /\ ~TasksEnded

\* Mutant of SecondCancel: the tasks are only waited for.
NoSecondCancel == discovery

\* wait_for cancels the tasks again, which ends a pause.  A cycle or a pass that still
\* closes clients waits for the tasks of a TaskGroup, which has cancelled them once: it
\* swallows this cancellation, the closes go on, and the pass's whole pause follows.
SecondCancel ==
    IF discovery.at = "last pause" THEN Awaits("ended") ELSE discovery

CancelAgain ==
    /\ TimeIsUp
    /\ discovery' = SecondCancel
    /\ again' = discovery.at
    /\ UNCHANGED <<proc, stop, storage, loop, waited, stored>>

\* asyncio.wait_for returns, or raises, when every task has ended.
TasksGathered ==
    /\ proc = "cancelling" /\ TasksEnded /\ proc' = "closing"
    /\ UNCHANGED <<stop, storage, loop, discovery, waited, again, stored>>

Closes ==
    /\ proc = "closing" /\ storage = "open" /\ storage' = "closed"
    /\ UNCHANGED <<proc, stop, loop, discovery, waited, again, stored>>

Exits ==
    /\ proc = "closing" /\ storage = "closed" /\ proc' = "down"
    /\ UNCHANGED <<stop, storage, loop, discovery, waited, again, stored>>

\* The process is killed, or the machine goes down, at any await.
Dies ==
    /\ proc' = "down" /\ storage' = "closed"
    /\ loop' = [l \in Loops |-> At("ended")] /\ discovery' = Awaits("ended")
    /\ UNCHANGED <<stop, waited, again, stored>>

Unwinding == discovery.at = "unwinding" \/ \E l \in Loops : loop[l].at = "unwinding"

\* A tick, while nothing is due.
ProcTick ==
    /\ Unwinding => waited < CloseTime
    /\ ~(TimeIsUp \/ discovery = [at |-> "last pause", left |-> 0])
    /\ ~(proc = "cancelling" /\ TasksEnded)
    /\ waited' = IF proc = "cancelling" THEN waited + 1 ELSE waited
    /\ discovery' = IF discovery.at = "last pause"
                    THEN [discovery EXCEPT !.left = @ - 1] ELSE discovery
    /\ UNCHANGED <<proc, stop, storage, loop, again, stored>>

ProcSteps ==
    \/ PingAnswers \/ PingFails \/ Acquired \/ AcquireFails
    \/ ShutdownBegins \/ CancelAgain \/ TasksGathered \/ Closes \/ Exits
    \/ PassUnwound \/ LastPauseEnds
    \/ \E l \in Loops : LoopUnwound(l)

\* What goes on without the heartbeat: all but a cycle's end.
ProcNext ==
    \/ ProcSteps \/ Signal \/ DiscoveryGoesOn
    \/ \E l \in Loops : Write(l) \/ WriteReturns(l)

-----------------------------------------------------------------------------
\* A cycle that counts a device as stored has its data in InfluxDB: no loop runs before
\* the connection is open, or after it is closed, when a write would count as one that
\* succeeded (send_to_influxdb returns True without a connection; start and shutdown).
StoredOnlyWhenOpen == \A l \in Loops : loop[l].ok => loop[l].landed

\* Waiting for the cancelled tasks takes no more than SHUTDOWN_TIMEOUT, in spite of the
\* pause at the end of a cancelled pass, or than their closes do.  Only when those of the
\* pass last beyond SHUTDOWN_TIMEOUT does a whole pause come on top of them (shutdown,
\* periodic_discover).
WaitIsBounded ==
    \/ waited <= ShutdownTimeout
    \/ waited <= CloseTime + (IF again = "unwinding" THEN DiscoveryInterval ELSE 0)

\* A process told to stop stops, whatever its loops and its pass were doing (shutdown).
ShutdownEnds == stop /\ proc # "down" ~> proc = "down"
==============================================================================
