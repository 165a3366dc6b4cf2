----------------------------- MODULE FetchCycle -----------------------------
(***************************************************************************)
(* One of the poller's two loops (collector/poller.py): a cycle fetches     *)
(* from every device at once, waits for all of them, writes its metrics,    *)
(* beats the heartbeat when something was stored (the emeter loop alone:    *)
(* the sysinfo loop is the same without it), and sleeps what is left of the *)
(* interval.  A fetch reads (with retries), has 80% of the interval for     *)
(* that, then writes, with the same again for the write.                    *)
(*                                                                          *)
(* Time is in ticks.  What a device answers, and what InfluxDB does with a  *)
(* batch, is open: in particular a batch whose write failed, or ran out of  *)
(* time, may have landed all the same.                                      *)
(***************************************************************************)
EXTENDS Naturals, FiniteSets, Doubling

CONSTANTS
    Devices,      \* the addresses in emeter_devices
    Interval,     \* KASA_COLLECTOR_DATA_FETCH_INTERVAL
    Budget,       \* interval * 0.8
    Tries,        \* KASA_COLLECTOR_FETCH_MAX_RETRIES
    BaseDelay,    \* KASA_COLLECTOR_FETCH_RETRY_DELAY
    MaxDelay,     \* KASA_COLLECTOR_MAX_RETRY_DELAY
    MetricsTime   \* the longest write of the cycle's metrics: the InfluxDB client's timeout

ASSUME CycleAssumption ==
    /\ IsFiniteSet(Devices)
    /\ Interval \in Nat \ {0} /\ Budget \in Nat \ {0} /\ Tries \in Nat \ {0}
    /\ BaseDelay \in Nat /\ MaxDelay \in Nat \ {0} /\ MetricsTime \in Nat
    /\ Budget <= Interval

VARIABLES
    loop,      \* "fetching", "metrics" or "sleeping"
    task,      \* each device's fetch
    outcome,   \* which counter of the cycle the fetch went to
    reached,   \* the devices reported to on_reachable this cycle
    elapsed,   \* ticks since the cycle began; while sleeping, until the next begins
    age,       \* ticks since the last heartbeat, or the start, up to AgeCap
    landed,    \* history: how many batches of each device InfluxDB took this cycle
    answered,  \* history: the devices that gave an answer of any kind this cycle
    storing    \* history: no cycle since the last heartbeat stored nothing

vars == <<loop, task, outcome, reached, elapsed, age, landed, answered, storing>>
history == <<landed, answered, storing>>

\* The longest a collector that stores every cycle goes between two heartbeats.
Gap == Interval + 2 * Budget + MetricsTime
AgeCap == Gap + 1

Smaller(m, n) == IF m <= n THEN m ELSE n
SleepFor(e) == IF e < Interval THEN Interval - e ELSE 0

\* Mutants, here and below: the next definition with a bug the properties find.
RetryDelayUncapped(n) == BaseDelay * Doubled[n]

\* The delay before attempt n + 1, as async_retry doubles and caps it.
RetryDelay(n) == Smaller(BaseDelay * Doubled[n], MaxDelay)

Reading == [pc |-> "reading", tries |-> 0, left |-> Budget, wait |-> 0, readsDone |-> FALSE]
Spawned == [Reading EXCEPT !.pc = "spawned"]
Finished(d) == [task EXCEPT ![d].pc = "done"]

Active(d) == task[d].pc \in {"reading", "backoff", "writing"}

Init ==
    /\ loop = "sleeping" /\ elapsed = 0
    /\ task = [d \in Devices |-> [Spawned EXCEPT !.pc = "done"]]
    /\ outcome = [d \in Devices |-> "none"]
    /\ reached = {} /\ answered = {}
    /\ landed = [d \in Devices |-> 0]
    /\ age = 0 /\ storing = TRUE

-----------------------------------------------------------------------------
CycleStart ==
    /\ loop = "sleeping" /\ elapsed = 0
    /\ loop' = "fetching"
    /\ task' = [d \in Devices |-> Spawned]
    /\ outcome' = [d \in Devices |-> "none"]
    /\ reached' = {} /\ answered' = {}
    /\ landed' = [d \in Devices |-> 0]
    /\ UNCHANGED <<elapsed, age, storing>>

\* _fetch_counted: a client replaced since the cycle began is skipped, and not counted.
Skip(d) ==
    /\ task[d].pc = "spawned"
    /\ task' = [task EXCEPT ![d].pc = "skipped"]
    /\ UNCHANGED <<loop, outcome, reached, elapsed, age, history>>

Begin(d) ==
    /\ task[d].pc = "spawned"
    /\ task' = [task EXCEPT ![d] = Reading]
    /\ UNCHANGED <<loop, outcome, reached, elapsed, age, history>>

\* Every reading is in hand: _reads_done gives the write a budget of its own.
ReadsDone(d) ==
    /\ task[d].pc = "reading"
    /\ task' = [task EXCEPT ![d].pc = "writing", ![d].readsDone = TRUE, ![d].left = Budget]
    /\ answered' = answered \cup {d}
    /\ UNCHANGED <<loop, outcome, reached, elapsed, age, landed, storing>>

\* A transient network error: tried again after a delay, until the tries are used up.
NetworkError(d) ==
    LET tries == task[d].tries + 1 IN
    /\ task[d].pc = "reading"
    /\ IF tries < Tries
       THEN /\ task' = [task EXCEPT ![d].pc = "backoff", ![d].tries = tries,
                                    ![d].wait = RetryDelay(tries)]
            /\ outcome' = outcome
       ELSE /\ task' = Finished(d)
            /\ outcome' = [outcome EXCEPT ![d] = "failed"]
    /\ UNCHANGED <<loop, reached, elapsed, age, history>>

RetryAfresh(d) ==
    /\ task[d].pc = "backoff" /\ task[d].wait = 0
    /\ task' = [task EXCEPT ![d].pc = "reading", ![d].left = Budget]
    /\ UNCHANGED <<loop, outcome, reached, elapsed, age, history>>

Retry(d) ==
    /\ task[d].pc = "backoff" /\ task[d].wait = 0
    /\ task' = [task EXCEPT ![d].pc = "reading"]
    /\ UNCHANGED <<loop, outcome, reached, elapsed, age, history>>

\* Any other exception of the read is not retried, and is no evidence of the device.
ReadFails(d) ==
    /\ task[d].pc = "reading"
    /\ task' = Finished(d)
    /\ outcome' = [outcome EXCEPT ![d] = "failed"]
    /\ UNCHANGED <<loop, reached, elapsed, age, history>>

\* UnstorableReading: the device answered with what cannot be stored.
Unstorable(d) ==
    /\ task[d].pc = "reading"
    /\ task' = Finished(d)
    /\ outcome' = [outcome EXCEPT ![d] = "failed"]
    /\ reached' = reached \cup {d}
    /\ answered' = answered \cup {d}
    /\ UNCHANGED <<loop, elapsed, age, landed, storing>>

WrittenUnchecked(stored) == "ok"

Written(stored) == IF stored THEN "ok" ELSE "write_failed"

\* The write came back: the batch landed, or send_to_influxdb reported that it failed.
WriteEnds(d, stored) ==
    /\ task[d].pc = "writing"
    /\ task' = Finished(d)
    /\ reached' = reached \cup {d}
    /\ outcome' = [outcome EXCEPT ![d] = Written(stored)]
    /\ landed' = [landed EXCEPT ![d] = IF stored THEN @ + 1 ELSE @]
    /\ UNCHANGED <<loop, elapsed, age, answered, storing>>

WriteLostRetried(d) ==
    /\ task[d].pc = "writing"
    /\ landed' = [landed EXCEPT ![d] = @ + 1]
    /\ task' = IF landed[d] + 1 < Tries THEN task ELSE Finished(d)
    /\ UNCHANGED <<loop, outcome, reached, elapsed, age, answered, storing>>

\* The server took the batch, but its answer was lost.
WriteLost(d) ==
    /\ task[d].pc = "writing"
    /\ landed' = [landed EXCEPT ![d] = @ + 1]
    /\ task' = Finished(d)
    /\ reached' = reached \cup {d}
    /\ outcome' = [outcome EXCEPT ![d] = "write_failed"]
    /\ UNCHANGED <<loop, elapsed, age, answered, storing>>

ExpiredWhileReading(d) == task[d].left = 0 /\ ~task[d].readsDone
AnsweredNever(d) == {}

Expired(d) == task[d].left = 0
Answered(d) == IF task[d].readsDone THEN {d} ELSE {}

\* The deadline expired: of the read, back-off included, or of the write.
ReadExpires(d) ==
    /\ task[d].pc \in {"reading", "backoff"} /\ Expired(d)
    /\ task' = Finished(d)
    /\ outcome' = [outcome EXCEPT ![d] = "failed"]
    /\ UNCHANGED <<loop, reached, elapsed, age, history>>

WriteExpires(d) ==
    /\ task[d].pc = "writing" /\ Expired(d)
    /\ task' = Finished(d)
    /\ reached' = reached \cup Answered(d)
    /\ outcome' = [outcome EXCEPT ![d] = IF task[d].readsDone THEN "write_failed" ELSE "failed"]
    /\ landed' \in {landed, [landed EXCEPT ![d] = @ + 1]}
    /\ UNCHANGED <<loop, elapsed, age, answered, storing>>

\* Every task of the cycle's TaskGroup is over: the cycle's duration is taken here, and
\* the cycle's metrics are written, or not, in m ticks.
CycleFetched(m) ==
    /\ loop = "fetching"
    /\ \A d \in Devices : task[d].pc \in {"done", "skipped"}
    /\ loop' = "metrics"
    /\ age' = Smaller(age + m, AgeCap)
    /\ UNCHANGED <<task, outcome, reached, elapsed, history>>

Stored == \E d \in Devices : outcome[d] = "ok"

BeatsWhenNoneFailed == \A d \in Devices : outcome[d] \in {"ok", "none"}

Beats == Stored

\* The heartbeat beats when a device's data was stored, and the loop sleeps what the
\* fetches left of the interval.
MetricsWritten ==
    /\ loop = "metrics"
    /\ loop' = "sleeping"
    /\ elapsed' = SleepFor(elapsed)
    /\ age' = IF Beats THEN 0 ELSE age
    /\ storing' = Stored
    /\ UNCHANGED <<task, outcome, reached, landed, answered>>

\* A tick: no step is due, and the loop has something to wait for.
Due(d) == \/ task[d].pc = "spawned"
          \/ Active(d) /\ task[d].left = 0
          \/ task[d].pc = "backoff" /\ task[d].wait = 0

Tick ==
    /\ \/ loop = "fetching" /\ \E d \in Devices : Active(d)
       \/ loop = "sleeping" /\ elapsed > 0
    /\ \A d \in Devices : ~Due(d)
    /\ task' = [d \in Devices |->
                  IF Active(d)
                  THEN [task[d] EXCEPT !.left = @ - 1,
                                       !.wait = IF @ > 0 THEN @ - 1 ELSE 0]
                  ELSE task[d]]
    /\ elapsed' = IF loop = "sleeping" THEN elapsed - 1 ELSE elapsed + 1
    /\ age' = Smaller(age + 1, AgeCap)
    /\ UNCHANGED <<loop, outcome, reached, history>>

-----------------------------------------------------------------------------
FetchNext(d) ==
    \/ Skip(d) \/ Begin(d) \/ ReadsDone(d) \/ NetworkError(d) \/ Retry(d)
    \/ ReadFails(d) \/ Unstorable(d)
    \/ \E stored \in BOOLEAN : WriteEnds(d, stored)
    \/ WriteLost(d) \/ ReadExpires(d) \/ WriteExpires(d)

CycleEnd == (\E m \in 0 .. MetricsTime : CycleFetched(m)) \/ MetricsWritten

Next == CycleStart \/ (\E d \in Devices : FetchNext(d)) \/ CycleEnd \/ Tick

Spec == Init /\ [][Next]_vars

\* The clock runs, a timer that is due fires, and the event loop runs every task that can
\* be run.  That a device or InfluxDB ever answers is not assumed.
FairSpec ==
    /\ Spec
    /\ WF_vars(Tick) /\ WF_vars(CycleStart) /\ WF_vars(CycleEnd)
    /\ \A d \in Devices :
        /\ WF_vars(Skip(d) \/ Begin(d)) /\ WF_vars(Retry(d))
        /\ WF_vars(ReadExpires(d)) /\ WF_vars(WriteExpires(d))

-----------------------------------------------------------------------------
(* Properties. *)

Task == [pc : {"spawned", "reading", "backoff", "writing", "done", "skipped"},
         tries : 0 .. Tries, left : 0 .. Budget, wait : 0 .. MaxDelay, readsDone : BOOLEAN]

TypeOK ==
    /\ loop \in {"fetching", "metrics", "sleeping"}
    /\ task \in [Devices -> Task]
    /\ outcome \in [Devices -> {"none", "ok", "failed", "write_failed"}]
    /\ reached \subseteq Devices /\ answered \subseteq Devices
    /\ landed \in [Devices -> Nat]
    /\ elapsed \in Nat /\ age \in 0 .. AgeCap /\ storing \in BOOLEAN

\* What the metrics count is what happened: a device counted ok has its batch in InfluxDB,
\* one counted failed has none there, and write_failed is only said of a device that
\* answered (_fetch_held, "an InfluxDB outage never reads as every device succeeding").
OutcomeTellsTruth ==
    \A d \in Devices :
        /\ outcome[d] = "ok" => landed[d] = 1
        /\ outcome[d] = "failed" => landed[d] = 0
        /\ outcome[d] = "write_failed" => d \in answered

\* A cycle stores a device's reading at most once, even when InfluxDB's answer was lost:
\* no write is retried.
StoredOnce == \A d \in Devices : landed[d] <= 1

\* At the end of a cycle a device was reported reachable, the evidence pruning goes by,
\* exactly when it answered: never for an InfluxDB fault, never in spite of a dead read.
ReachedIffAnswered == loop # "fetching" => reached = answered

\* Retries, back-off and writes together hold a cycle for no more than twice its budget.
CycleBounded == loop # "sleeping" => elapsed <= 2 * Budget

\* A collector that stores data in every cycle beats at least once every Gap.
BeatsInTime == loop = "metrics" /\ storing /\ Stored => age <= Gap

\* The floor of KASA_COLLECTOR_HEALTH_CHECK_MAX_AGE, two intervals, keeps a collector that
\* stores every cycle healthy (config.py).  It is less than Gap, and does not.
FloorIsEnough == loop = "metrics" /\ storing /\ Stored => age <= 2 * Interval

\* No device, and no InfluxDB, holds a cycle for ever: the loop comes round again.
CycleEnds == loop = "fetching" ~> loop = "sleeping"
=============================================================================
