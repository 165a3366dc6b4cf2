--------------------------- MODULE FetchCycleProofs ---------------------------
(***************************************************************************)
(* For any devices, times and number of tries: no fetch is tried more often *)
(* or backs off for longer than it may; a cycle's counters, writes and      *)
(* reports agree with what happened, a cycle is bounded by two budgets, and *)
(* heartbeats by Gap.                                                       *)
(*                                                                          *)
(* CycleInv is what these rest on.  TasksTell says for each stage of a      *)
(* fetch what has and has not been counted, stored and reported yet;        *)
(* TimesAddUp that the time a fetch has left and the time the cycle has     *)
(* taken add up to its budgets; BeatsAddUp the same of the heartbeat's age. *)
(* None of them needs a back-off's length: any would do, as the deadline    *)
(* runs on during it.  That it stays within the cap is part of TypeOK.      *)
(*                                                                          *)
(* StepsLeft bounds the steps a fetch may still take: no step raises it,    *)
(* and while a cycle fetches, every step lowers it for some fetch.          *)
(***************************************************************************)
EXTENDS FetchCycle, DoublingProofs

USE CycleAssumption

Places == {"spawned", "reading", "backoff", "writing", "done", "skipped"}
Over == {"done", "skipped"}

Uncounted(d) == outcome[d] = "none" /\ landed[d] = 0 /\ d \notin reached

TaskTells(d) ==
    /\ task[d].pc \in {"spawned", "reading", "backoff", "skipped"} =>
         Uncounted(d) /\ d \notin answered /\ ~task[d].readsDone
    /\ task[d].pc = "writing" =>
         Uncounted(d) /\ d \in answered /\ task[d].readsDone
    /\ task[d].pc = "done" =>
         /\ outcome[d] = "ok" => landed[d] = 1
         /\ outcome[d] = "failed" => landed[d] = 0
         /\ outcome[d] = "write_failed" => d \in answered
         /\ landed[d] <= 1
         /\ d \in reached <=> d \in answered

TasksTell ==
    /\ \A d \in Devices : TaskTells(d)
    /\ loop # "fetching" => \A d \in Devices : task[d].pc \in Over

TaskTimes(d) ==
    /\ task[d].pc = "spawned" => elapsed = 0 /\ task[d].left = Budget
    /\ task[d].pc \in {"reading", "backoff"} => elapsed + task[d].left <= Budget
    /\ task[d].pc = "writing" => elapsed + task[d].left <= 2 * Budget

TimesAddUp ==
    /\ \A d \in Devices : TaskTimes(d)
    /\ loop # "sleeping" => elapsed <= 2 * Budget

BeatsAddUp ==
    storing =>
        /\ loop = "sleeping" => age + elapsed <= Interval
        /\ loop = "fetching" => age <= Interval + elapsed
        /\ loop = "metrics" => age <= Gap

CycleInv == TypeOK /\ TasksTell /\ TimesAddUp /\ BeatsAddUp

-----------------------------------------------------------------------------
(* A fetch's record, and what the changes made to one leave it. *)

LEMMA ReadingType == Reading \in Task
  BY DEF Reading, Task, Places

LEMMA FetchMoves ==
  ASSUME NEW t \in Task, NEW p \in Places
  PROVE  [t EXCEPT !.pc = p] \in Task
  BY DEF Task, Places

LEMMA FetchWrites ==
  ASSUME NEW t \in Task
  PROVE  [t EXCEPT !.pc = "writing", !.readsDone = TRUE, !.left = Budget] \in Task
<1> DEFINE u == [t EXCEPT !.pc = "writing"]
           v == [u EXCEPT !.readsDone = TRUE]
<1>1. u \in Task
  BY FetchMoves DEF Places
<1> HIDE DEF u
<1>2. v \in Task
  BY <1>1 DEF Task
<1> HIDE DEF v
<1>3. [v EXCEPT !.left = Budget] \in Task
  BY <1>2 DEF Task
<1> QED
  BY <1>3 DEF u, v

LEMMA FetchTicks ==
  ASSUME NEW t \in Task, t.left # 0
  PROVE  [t EXCEPT !.left = @ - 1, !.wait = IF @ > 0 THEN @ - 1 ELSE 0] \in Task
<1>1. t.left - 1 \in 0 .. Budget /\ (IF t.wait > 0 THEN t.wait - 1 ELSE 0) \in 0 .. MaxDelay
  BY DEF Task
<1> QED
  BY <1>1 DEF Task

LEMMA SpawnedType == Spawned \in Task /\ Spawned.pc = "spawned" /\ Spawned.left = Budget
                     /\ ~Spawned.readsDone
<1>1. Spawned \in Task
  BY ReadingType, FetchMoves DEF Spawned, Places
<1> QED
  BY <1>1 DEF Spawned, Reading

-----------------------------------------------------------------------------
LEMMA AgeCapType == AgeCap \in Nat
  BY DEF AgeCap, Gap

LEMMA CycleInvInit == Init => CycleInv
<1> SUFFICES ASSUME Init PROVE CycleInv
  OBVIOUS
<1>1. [Spawned EXCEPT !.pc = "done"] \in Task
  BY SpawnedType, FetchMoves DEF Places
<1>2. \A d \in Devices : task[d].pc = "done"
  BY DEF Init, Spawned, Reading
<1>3. TypeOK
  BY <1>1, AgeCapType DEF Init, TypeOK
<1>4. TasksTell /\ TimesAddUp /\ BeatsAddUp
  BY <1>2 DEF Init, TasksTell, TaskTells, TimesAddUp, TaskTimes, BeatsAddUp, Over
<1> QED
  BY <1>3, <1>4 DEF CycleInv

\* A step of one fetch is told by what it does to that device's part of the state.
LEMMA OneFetch ==
  ASSUME CycleInv, TypeOK', NEW d \in Devices,
         task[d].pc \notin Over, UNCHANGED <<loop, elapsed, age, storing>>,
         TaskTells(d)', TaskTimes(d)',
         \A b \in Devices \ {d} :
           /\ task'[b] = task[b] /\ outcome'[b] = outcome[b] /\ landed'[b] = landed[b]
           /\ b \in reached' <=> b \in reached
           /\ b \in answered' <=> b \in answered
  PROVE  CycleInv'
<1>1. \A b \in Devices : TaskTells(b)' /\ TaskTimes(b)'
  BY DEF CycleInv, TasksTell, TaskTells, TimesAddUp, TaskTimes, Uncounted
<1>2. loop = "fetching"
  BY DEF CycleInv, TasksTell
<1> QED
  BY <1>1, <1>2 DEF CycleInv, TasksTell, TimesAddUp, BeatsAddUp

\* The delays double up to the cap, and are never less than nothing.
LEMMA DelayType == ASSUME NEW n \in Nat PROVE RetryDelay(n) \in 0 .. MaxDelay
<1>1. Doubled[n] \in Nat
  BY DoublesEachTime
<1>2. BaseDelay * Doubled[n] \in Nat
  BY <1>1
<1> QED
  BY <1>2 DEF RetryDelay, Smaller

LEMMA CycleInvReads ==
  ASSUME CycleInv, NEW d \in Devices,
         Skip(d) \/ Begin(d) \/ ReadsDone(d) \/ NetworkError(d) \/ Retry(d) \/ ReadFails(d)
           \/ Unstorable(d) \/ ReadExpires(d)
  PROVE  CycleInv'
<1> DEFINE Rest ==
      \A b \in Devices \ {d} :
        /\ task'[b] = task[b] /\ outcome'[b] = outcome[b] /\ landed'[b] = landed[b]
        /\ b \in reached' <=> b \in reached
        /\ b \in answered' <=> b \in answered
<1> USE DEF CycleInv, TasksTell, TimesAddUp
<1>1. CASE Skip(d) \/ Begin(d) \/ Retry(d)
  <2>1. PICK t \in Task :
          /\ task' = [task EXCEPT ![d] = t]
          /\ t = Reading \/ \E p \in {"skipped", "reading"} : t = [task[d] EXCEPT !.pc = p]
    <3>1. task[d] \in Task
      BY DEF TypeOK
    <3>2. /\ [task[d] EXCEPT !.pc = "skipped"] \in Task
          /\ [task[d] EXCEPT !.pc = "reading"] \in Task
      BY <3>1, FetchMoves DEF Places
    <3> QED
      BY <1>1, <3>2, ReadingType DEF Skip, Begin, Retry
  <2>2. /\ TypeOK' /\ Rest /\ task[d].pc \notin Over
        /\ UNCHANGED <<loop, elapsed, age, storing>>
    BY <1>1, <2>1 DEF Skip, Begin, Retry, TypeOK, Over, history
  <2>3. TaskTells(d)' /\ TaskTimes(d)'
    BY <1>1 DEF Skip, Begin, Retry, TypeOK, Task, TaskTells, TaskTimes, Uncounted,
                Reading, history
  <2> QED
    BY <2>2, <2>3, OneFetch
<1>2. CASE ReadsDone(d)
  <2>1. PICK t \in Task :
          /\ task' = [task EXCEPT ![d] = t]
          /\ t = [task[d] EXCEPT !.pc = "writing", !.readsDone = TRUE, !.left = Budget]
    <3>1. task[d] \in Task
      BY DEF TypeOK
    <3> QED
      BY <1>2, <3>1, FetchWrites DEF ReadsDone, TypeOK
  <2>2. /\ TypeOK' /\ Rest /\ task[d].pc \notin Over
        /\ UNCHANGED <<loop, elapsed, age, storing>>
    BY <1>2, <2>1 DEF ReadsDone, TypeOK, Over
  <2>3. TaskTells(d)' /\ TaskTimes(d)'
    BY <1>2 DEF ReadsDone, TypeOK, Task, TaskTells, TaskTimes, Uncounted
  <2> QED
    BY <2>2, <2>3, OneFetch
<1>3. CASE NetworkError(d)
  <2> DEFINE tries == task[d].tries + 1
  <2>1. tries \in Nat /\ RetryDelay(tries) \in 0 .. MaxDelay
    BY DelayType DEF TypeOK, Task
  <2>2. CASE tries < Tries
    <3>1. /\ task' = [task EXCEPT ![d] = [task[d] EXCEPT
                        !.pc = "backoff", !.tries = tries, !.wait = RetryDelay(tries)]]
          /\ UNCHANGED <<loop, outcome, reached, elapsed, age, history>>
          /\ task[d].pc = "reading"
      BY <1>3, <2>2 DEF NetworkError, TypeOK, Task
    <3>2. tries \in 0 .. Tries
      BY <2>1, <2>2
    <3> HIDE DEF tries
    <3>3. /\ TypeOK' /\ Rest /\ task[d].pc \notin Over
          /\ UNCHANGED <<loop, elapsed, age, storing>>
      BY <2>1, <3>1, <3>2 DEF TypeOK, Task, Places, Over, history
    <3>4. TaskTells(d)' /\ TaskTimes(d)'
      BY <2>1, <3>1 DEF TypeOK, Task, TaskTells, TaskTimes, Uncounted, history
    <3> QED
      BY <3>3, <3>4, OneFetch
  <2>3. CASE ~(tries < Tries)
    <3>1. /\ task' = Finished(d) /\ outcome' = [outcome EXCEPT ![d] = "failed"]
          /\ UNCHANGED <<loop, reached, elapsed, age, history>>
          /\ task[d].pc = "reading"
      BY <1>3, <2>3 DEF NetworkError
    <3>2. /\ TypeOK' /\ Rest /\ task[d].pc \notin Over
          /\ UNCHANGED <<loop, elapsed, age, storing>>
      BY <3>1 DEF TypeOK, Task, Places, Over, Finished, history
    <3>3. TaskTells(d)' /\ TaskTimes(d)'
      BY <3>1 DEF TypeOK, Task, TaskTells, TaskTimes, Uncounted, Finished, history
    <3> QED
      BY <3>2, <3>3, OneFetch
  <2> QED
    BY <2>2, <2>3
<1>4. CASE ReadFails(d) \/ Unstorable(d) \/ ReadExpires(d)
  <2>1. /\ TypeOK' /\ Rest /\ task[d].pc \notin Over
        /\ UNCHANGED <<loop, elapsed, age, storing>>
    BY <1>4 DEF ReadFails, Unstorable, ReadExpires, Finished, TypeOK, Task, Places, Over,
                history
  <2>2. TaskTells(d)' /\ TaskTimes(d)'
    BY <1>4 DEF ReadFails, Unstorable, ReadExpires, Finished, TypeOK, Task, TaskTells,
                TaskTimes, Uncounted, history
  <2> QED
    BY <2>1, <2>2, OneFetch
<1> QED
  BY <1>1, <1>2, <1>3, <1>4

LEMMA CycleInvWrites ==
  ASSUME CycleInv, NEW d \in Devices,
         (\E stored \in BOOLEAN : WriteEnds(d, stored)) \/ WriteLost(d) \/ WriteExpires(d)
  PROVE  CycleInv'
<1> USE DEF CycleInv, TasksTell, TimesAddUp
<1>1. /\ task[d].pc = "writing" /\ task' = Finished(d)
      /\ UNCHANGED <<loop, elapsed, age, answered, storing>>
  BY DEF WriteEnds, WriteLost, WriteExpires
<1>2. Uncounted(d) /\ d \in answered /\ task[d].readsDone
  BY <1>1 DEF TaskTells
<1>3. reached' = reached \cup {d}
  BY <1>1, <1>2 DEF WriteEnds, WriteLost, WriteExpires, Answered
<1>4. PICK o \in {"ok", "write_failed"}, n \in {0, 1} :
        /\ outcome' = [outcome EXCEPT ![d] = o] /\ landed' = [landed EXCEPT ![d] = n]
        /\ o = "ok" => n = 1
  <2>1. landed = [landed EXCEPT ![d] = 0] /\ landed[d] = 0
    BY <1>2 DEF TypeOK, Uncounted
  <2>2. ASSUME NEW stored \in BOOLEAN, WriteEnds(d, stored)
        PROVE  /\ outcome' = [outcome EXCEPT ![d] = IF stored THEN "ok" ELSE "write_failed"]
               /\ landed' = [landed EXCEPT ![d] = IF stored THEN 1 ELSE 0]
    BY <2>1, <2>2 DEF WriteEnds, Written
  <2>3. CASE WriteLost(d)
    BY <2>1, <2>3 DEF WriteLost
  <2>4. CASE WriteExpires(d)
    BY <1>2, <2>1, <2>4 DEF WriteExpires
  <2> QED
    BY <2>2, <2>3, <2>4
<1>5. TypeOK'
  BY <1>1, <1>3, <1>4 DEF TypeOK, Task, Places, Finished
<1>6. TaskTells(d)' /\ TaskTimes(d)'
  BY <1>1, <1>2, <1>3, <1>4 DEF TypeOK, TaskTells, TaskTimes, Finished, Task
<1>7. \A b \in Devices \ {d} :
        /\ task'[b] = task[b] /\ outcome'[b] = outcome[b] /\ landed'[b] = landed[b]
        /\ b \in reached' <=> b \in reached
        /\ b \in answered' <=> b \in answered
  BY <1>1, <1>3, <1>4 DEF TypeOK, Finished
<1> QED
  BY <1>1, <1>5, <1>6, <1>7, OneFetch DEF Over

LEMMA CycleInvStart == ASSUME CycleInv, CycleStart PROVE CycleInv'
<1>1. TypeOK'
  BY SpawnedType DEF CycleStart, CycleInv, TypeOK
<1>2. \A d \in Devices : TaskTells(d)' /\ TaskTimes(d)'
  BY SpawnedType DEF CycleStart, TaskTells, TaskTimes, Uncounted
<1> QED
  BY <1>1, <1>2
  DEF CycleStart, CycleInv, TypeOK, TasksTell, TimesAddUp, BeatsAddUp

LEMMA CycleInvEnds ==
  ASSUME CycleInv, CycleEnd PROVE CycleInv'
<1> USE DEF CycleInv, TypeOK
<1>1. ASSUME NEW m \in 0 .. MetricsTime, CycleFetched(m) PROVE CycleInv'
  <2>1. age' \in 0 .. AgeCap /\ age' <= age + m
    BY <1>1 DEF CycleFetched, Smaller, AgeCap, Gap
  <2>2. TypeOK' /\ TasksTell' /\ TimesAddUp'
    BY <1>1, <2>1
    DEF CycleFetched, TasksTell, TaskTells, TimesAddUp, TaskTimes, Uncounted, Over, history
  <2>3. BeatsAddUp'
    BY <1>1, <2>1 DEF CycleFetched, BeatsAddUp, TimesAddUp, Gap, history
  <2> QED
    BY <2>2, <2>3
<1>2. ASSUME MetricsWritten PROVE CycleInv'
  <2>1. /\ SleepFor(elapsed) \in 0 .. Interval /\ storing' \in BOOLEAN
        /\ age' \in 0 .. AgeCap
    BY <1>2, AgeCapType DEF MetricsWritten, SleepFor, Stored
  <2>2. \A d \in Devices : task[d].pc \in Over
    BY <1>2 DEF MetricsWritten, TasksTell
  <2>3. TypeOK' /\ TasksTell' /\ TimesAddUp'
    BY <1>2, <2>1, <2>2
    DEF MetricsWritten, TasksTell, TaskTells, TimesAddUp, TaskTimes, Uncounted, Over
  <2>4. BeatsAddUp'
    BY <1>2, <2>1 DEF MetricsWritten, BeatsAddUp, Beats
  <2> QED
    BY <2>3, <2>4
<1> QED
  BY <1>1, <1>2 DEF CycleEnd

LEMMA CycleInvTick == ASSUME CycleInv, Tick PROVE CycleInv'
<1>1. TypeOK
  BY DEF CycleInv
<1>2. /\ UNCHANGED <<loop, outcome, reached, landed, answered, storing>>
      /\ elapsed' = IF loop = "sleeping" THEN elapsed - 1 ELSE elapsed + 1
      /\ age' = Smaller(age + 1, AgeCap)
      /\ \/ loop = "fetching" /\ \E d \in Devices : Active(d)
         \/ loop = "sleeping" /\ elapsed > 0
  <2>1. UNCHANGED <<loop, outcome, reached, landed, answered, storing>>
    BY DEF Tick, history
  <2>2. elapsed' = IF loop = "sleeping" THEN elapsed - 1 ELSE elapsed + 1
    BY DEF Tick
  <2>3. age' = Smaller(age + 1, AgeCap)
    BY DEF Tick
  <2>4. \/ loop = "fetching" /\ \E d \in Devices : Active(d)
        \/ loop = "sleeping" /\ elapsed > 0
    BY DEF Tick
  <2> QED
    BY <2>1, <2>2, <2>3, <2>4
<1>3. age' \in 0 .. AgeCap /\ age' <= age + 1 /\ elapsed' \in Nat
  BY <1>1, <1>2 DEF TypeOK, Smaller, AgeCap, Gap
<1>4. \A d \in Devices :
        /\ task[d].pc # "spawned"
        /\ Active(d) => task[d].left # 0
        /\ task'[d] = IF Active(d)
                      THEN [task[d] EXCEPT !.left = @ - 1, !.wait = IF @ > 0 THEN @ - 1 ELSE 0]
                      ELSE task[d]
  BY DEF Tick, Due
<1>5. \A d \in Devices : task'[d] \in Task
  <2> SUFFICES ASSUME NEW d \in Devices PROVE task'[d] \in Task
    OBVIOUS
  <2>1. task[d] \in Task
    BY <1>1 DEF TypeOK
  <2> QED
    BY <1>4, <2>1, FetchTicks
<1>6. \A d \in Devices :
        /\ task'[d].pc = task[d].pc /\ task'[d].readsDone = task[d].readsDone
        /\ Active(d) => task[d].left > 0 /\ task'[d].left = task[d].left - 1
  <2> SUFFICES ASSUME NEW d \in Devices
               PROVE  /\ task'[d].pc = task[d].pc
                      /\ task'[d].readsDone = task[d].readsDone
                      /\ Active(d) => task[d].left > 0 /\ task'[d].left = task[d].left - 1
    OBVIOUS
  <2>1. task[d] \in Task
    BY <1>1 DEF TypeOK
  <2>2. CASE Active(d)
    <3> DEFINE w == IF task[d].wait > 0 THEN task[d].wait - 1 ELSE 0
    <3>1. task'[d] = [task[d] EXCEPT !.left = task[d].left - 1, !.wait = w]
      BY <1>4, <2>2
    <3> HIDE DEF w
    <3>2. task[d].left \in Nat /\ task[d].left # 0
      <4>1. task[d].left \in Nat
        BY <2>1 DEF Task
      <4> QED
        BY <1>4, <2>2, <4>1
    <3>3. /\ task'[d].pc = task[d].pc /\ task'[d].readsDone = task[d].readsDone
          /\ task'[d].left = task[d].left - 1
      BY <2>1, <3>1 DEF Task
    <3> QED
      BY <3>2, <3>3
  <2>3. CASE ~Active(d)
    BY <1>4, <2>3
  <2> QED
    BY <2>2, <2>3
<1>7. TypeOK'
  <2>1. task' \in [Devices -> Task]
    <3>1. task' = [d \in Devices |-> task'[d]]
      BY DEF Tick
    <3> QED
      BY <1>5, <3>1
  <2> QED
    BY <1>1, <1>2, <1>3, <2>1 DEF TypeOK
<1>8. TasksTell'
  BY <1>2, <1>6 DEF CycleInv, TasksTell, TaskTells, Uncounted
<1>9. TimesAddUp'
  <2>1. CASE loop = "fetching"
    <3>1. elapsed' = elapsed + 1 /\ elapsed \in Nat /\ loop' = loop
      BY <1>1, <1>2, <2>1 DEF TypeOK
    <3>2. ASSUME NEW d \in Devices
          PROVE  TaskTimes(d)' /\ (Active(d) => elapsed' <= 2 * Budget)
      <4>1. TaskTimes(d) /\ task[d].left \in Nat
        BY <1>1 DEF CycleInv, TypeOK, TimesAddUp, Task
      <4>2. task'[d].pc = task[d].pc /\ task[d].pc # "spawned"
        BY <1>4, <1>6
      <4> QED
        BY <1>6, <3>1, <4>1, <4>2 DEF TaskTimes, Active
    <3> QED
      BY <1>2, <2>1, <3>1, <3>2 DEF TimesAddUp
  <2>2. CASE loop = "sleeping"
    BY <1>1, <1>2, <1>6, <2>2 DEF CycleInv, TypeOK, TimesAddUp, TaskTimes, TasksTell, Over
  <2> QED
    BY <1>2, <2>1, <2>2
<1>10. BeatsAddUp'
  BY <1>1, <1>2, <1>3 DEF CycleInv, TypeOK, BeatsAddUp
<1> QED
  BY <1>7, <1>8, <1>9, <1>10 DEF CycleInv

LEMMA CycleInvNext == CycleInv /\ [Next]_vars => CycleInv'
<1> SUFFICES ASSUME CycleInv, [Next]_vars PROVE CycleInv'
  OBVIOUS
<1>1. CASE UNCHANGED vars
  BY <1>1 DEF vars, CycleInv, TypeOK, TasksTell, TaskTells, TimesAddUp, TaskTimes,
              BeatsAddUp, Uncounted
<1>2. ASSUME NEW d \in Devices, FetchNext(d) PROVE CycleInv'
  BY <1>2, CycleInvReads, CycleInvWrites DEF FetchNext
<1> QED
  BY <1>1, <1>2, CycleInvStart, CycleInvEnds, CycleInvTick DEF Next

-----------------------------------------------------------------------------
(* Theorems. *)

LEMMA Invariance == Spec => []CycleInv
  BY CycleInvInit, CycleInvNext, PTL DEF Spec

\* A fetch is tried no more than Tries times, and backs off for no longer than MaxDelay
\* (async_retry).
THEOREM RetriesBounded == Spec => []TypeOK
<1>1. CycleInv => TypeOK
  BY DEF CycleInv
<1> QED
  BY <1>1, Invariance, PTL

\* The cycle's counters tell what happened to each device's batch (_fetch_held).
THEOREM CountersTellTruth == Spec => []OutcomeTellsTruth
<1>1. CycleInv => OutcomeTellsTruth
  BY DEF CycleInv, TypeOK, Task, Places, TasksTell, TaskTells, Uncounted,
         OutcomeTellsTruth
<1> QED
  BY <1>1, Invariance, PTL

\* No batch is written twice in a cycle (send_to_influxdb, which is not retried).
THEOREM WrittenOnce == Spec => []StoredOnce
<1>1. CycleInv => StoredOnce
  BY DEF CycleInv, TypeOK, Task, Places, TasksTell, TaskTells, Uncounted, StoredOnce
<1> QED
  BY <1>1, Invariance, PTL

\* Pruning's evidence of a device is that it answered, no more and no less (_fetch_held).
THEOREM ReportsReached == Spec => []ReachedIffAnswered
<1>1. CycleInv => ReachedIffAnswered
  <2> SUFFICES ASSUME CycleInv, loop # "fetching" PROVE reached = answered
    BY DEF ReachedIffAnswered
  <2>1. \A d \in Devices : d \in reached <=> d \in answered
    BY DEF CycleInv, TasksTell, TaskTells, Uncounted, Over
  <2> QED
    BY <2>1 DEF CycleInv, TypeOK
<1> QED
  BY <1>1, Invariance, PTL

\* However reads, retries, back-offs and writes fall, a cycle's fetches are over after
\* twice the budget (_FetchDeadline).
THEOREM BoundedCycle == Spec => []CycleBounded
<1>1. CycleInv => CycleBounded
  BY DEF CycleInv, TimesAddUp, CycleBounded
<1> QED
  BY <1>1, Invariance, PTL

\* A collector that stores data in every cycle beats at least every Gap (_run_fetch_loop).
THEOREM BoundedBeats == Spec => []BeatsInTime
<1>1. CycleInv => BeatsInTime
  BY DEF CycleInv, BeatsAddUp, BeatsInTime
<1> QED
  BY <1>1, Invariance, PTL

-----------------------------------------------------------------------------
(* A cycle's fetches run down: what safety says of CycleEnds. *)

\* A bound on the steps a fetch may still take, those of the clock included.
StepsLeft(d) ==
    LET t == task[d] IN
    CASE t.pc = "spawned" -> 2 * Budget + 2 * Tries + 4
      [] t.pc = "backoff" -> Budget + 2 * (Tries - t.tries) + t.left + 4
      [] t.pc = "reading" -> Budget + 2 * (Tries - t.tries) + t.left + 3
      [] t.pc = "writing" -> t.left + 1
      [] t.pc \in Over -> 0

\* A fetch that may be tried again has tries left.
TryRemains(d) == task[d].pc \in {"spawned", "reading", "backoff"} => task[d].tries < Tries
TriesRemain == \A d \in Devices : TryRemains(d)

StepsBounded == \A d \in Devices : StepsLeft(d) \in 0 .. (2 * Budget + 2 * Tries + 4)

\* While a cycle fetches, every step takes one of its fetches further, and none back.
FetchesRunDown ==
    [][loop = "fetching" /\ loop' = "fetching" =>
         /\ task' # task
         /\ \A d \in Devices : task'[d] = task[d] \/ StepsLeft(d)' < StepsLeft(d)]_vars

LEMMA TriesRemainInit == Init => TriesRemain
  BY DEF Init, TriesRemain, TryRemains, Spawned, Reading

\* A step of a fetch is the fetch's own.
LEMMA FetchAlone ==
  ASSUME TypeOK, NEW d \in Devices, FetchNext(d)
  PROVE  /\ \A b \in Devices \ {d} : task'[b] = task[b]
         /\ loop' = loop
  BY DEF TypeOK, FetchNext, Skip, Begin, ReadsDone, NetworkError, Retry, ReadFails, Unstorable,
         WriteEnds, WriteLost, ReadExpires, WriteExpires, Finished

\* What a step makes of the record of its fetch: Goes lists where a fetch can go.
Becomes(d, p, n, l) ==
    task'[d].pc = p /\ task'[d].tries = n /\ task'[d].left = l

Goes(d) ==
    LET t == task[d] IN
    \/ t.pc \notin Over /\ Becomes(d, "done", t.tries, t.left)
    \/ t.pc = "spawned" /\ Becomes(d, "skipped", t.tries, t.left)
    \/ t.pc = "spawned" /\ Becomes(d, "reading", 0, Budget)
    \/ t.pc = "reading" /\ Becomes(d, "writing", t.tries, Budget)
    \/ t.pc = "reading" /\ t.tries + 1 < Tries /\ Becomes(d, "backoff", t.tries + 1, t.left)
    \/ t.pc = "backoff" /\ Becomes(d, "reading", t.tries, t.left)
    \/ /\ t.pc \in {"reading", "backoff", "writing"} /\ t.left > 0
       /\ Becomes(d, t.pc, t.tries, t.left - 1)

LEMMA FetchGoes ==
  ASSUME TypeOK, NEW d \in Devices, FetchNext(d)
  PROVE  Goes(d)
<1> DEFINE t == task[d]
<1>1. t \in Task /\ d \in DOMAIN task
  BY DEF TypeOK
<1>2. CASE Skip(d)
  BY <1>1, <1>2 DEF Skip, Goes, Becomes, Task
<1>3. CASE Begin(d)
  BY <1>1, <1>3 DEF Begin, Goes, Becomes, Reading
<1>4. CASE ReadsDone(d)
  BY <1>1, <1>4 DEF ReadsDone, Goes, Becomes, Task
<1>5. CASE NetworkError(d)
  <2> DEFINE n == t.tries + 1
             w == RetryDelay(n)
  <2>1. t.pc = "reading"
    BY <1>5 DEF NetworkError
  <2>2. CASE n < Tries
    <3>1. task' = [task EXCEPT ![d].pc = "backoff", ![d].tries = n, ![d].wait = w]
      BY <1>5, <2>2 DEF NetworkError
    <3> HIDE DEF w
    <3>2. task'[d].pc = "backoff" /\ task'[d].tries = n /\ task'[d].left = t.left
      BY <1>1, <3>1 DEF Task
    <3> QED
      BY <2>1, <2>2, <3>2 DEF Goes, Becomes
  <2>3. CASE ~(n < Tries)
    <3>1. task' = Finished(d)
      BY <1>5, <2>3 DEF NetworkError
    <3>2. task'[d].pc = "done" /\ task'[d].tries = t.tries /\ task'[d].left = t.left
      BY <1>1, <3>1 DEF Finished, Task
    <3> QED
      BY <2>1, <3>2 DEF Goes, Becomes, Over
  <2> QED
    BY <2>2, <2>3
<1>6. CASE Retry(d)
  BY <1>1, <1>6 DEF Retry, Goes, Becomes, Task
<1>7. CASE ReadFails(d) \/ Unstorable(d) \/ ReadExpires(d)
  BY <1>1, <1>7 DEF ReadFails, Unstorable, ReadExpires, Finished, Goes, Becomes, Task, Over
<1>8. CASE (\E stored \in BOOLEAN : WriteEnds(d, stored)) \/ WriteLost(d) \/ WriteExpires(d)
  BY <1>1, <1>8 DEF WriteEnds, WriteLost, WriteExpires, Finished, Goes, Becomes, Task, Over
<1> QED
  BY <1>2, <1>3, <1>4, <1>5, <1>6, <1>7, <1>8 DEF FetchNext

LEMMA TickRecord ==
  ASSUME TypeOK, Tick, NEW d \in Devices, Active(d)
  PROVE  /\ Becomes(d, task[d].pc, task[d].tries, task[d].left - 1)
         /\ task[d].left \in Nat /\ task[d].left > 0
<1>1. task[d] \in Task /\ task[d].left # 0
  BY DEF TypeOK, Tick, Due
<1>2. task'[d] = [task[d] EXCEPT !.left = @ - 1, !.wait = IF @ > 0 THEN @ - 1 ELSE 0]
  BY DEF Tick
<1>3. task[d].left \in Nat /\ task[d].left > 0
  BY <1>1 DEF Task
<1>4. Becomes(d, task[d].pc, task[d].tries, task[d].left - 1)
  BY <1>1, <1>2 DEF Becomes, Task
<1> QED
  BY <1>3, <1>4

LEMMA TickGoes ==
  ASSUME TypeOK, Tick, NEW d \in Devices
  PROVE  IF Active(d) THEN Goes(d) ELSE task'[d] = task[d]
<1>1. CASE Active(d)
  BY <1>1, TickRecord DEF Active, Goes
<1>2. CASE ~Active(d)
  BY <1>2 DEF Tick
<1> QED
  BY <1>1, <1>2

\* A record that goes on has fewer steps left, and is another.
LEMMA GoesDown ==
  ASSUME TypeOK, NEW d \in Devices, TryRemains(d), Goes(d)
  PROVE  TryRemains(d)' /\ StepsLeft(d)' < StepsLeft(d) /\ task'[d] # task[d]
<1> DEFINE t == task[d]
           u == task'[d]
<1>1. /\ t.pc \in Places /\ t.tries \in Nat /\ t.left \in Nat /\ t.left <= Budget
      /\ t.tries <= Tries
  BY DEF TypeOK, Task, Places
<1>2. Budget \in Nat /\ Tries \in Nat /\ Tries > 0
  OBVIOUS
<1>3. TryRemains(d)'
  BY <1>1, <1>2 DEF Goes, Becomes, TryRemains, Over, Places
<1>4. StepsLeft(d)' < StepsLeft(d)
  BY <1>1, <1>2 DEF Goes, Becomes, TryRemains, StepsLeft, Over, Places
<1>5. u # t
  BY <1>1, <1>2 DEF Goes, Becomes, Over, Places
<1> QED
  BY <1>3, <1>4, <1>5

LEMMA TriesRemainNext == TypeOK /\ TriesRemain /\ [Next]_vars => TriesRemain'
<1> SUFFICES ASSUME TypeOK, TriesRemain, [Next]_vars PROVE TriesRemain'
  OBVIOUS
<1> USE DEF TriesRemain
<1>1. ASSUME NEW d \in Devices, task'[d] = task[d] PROVE TryRemains(d)'
  BY <1>1 DEF TryRemains
<1>2. CASE CycleStart
  BY <1>2 DEF CycleStart, TryRemains, Spawned, Reading
<1>3. ASSUME NEW d \in Devices, FetchNext(d) PROVE TriesRemain'
  BY <1>1, <1>3, FetchAlone, FetchGoes, GoesDown
<1>4. CASE Tick
  BY <1>1, <1>4, TickGoes, GoesDown
<1>5. CASE CycleEnd \/ UNCHANGED vars
  BY <1>1, <1>5 DEF CycleEnd, CycleFetched, MetricsWritten, vars
<1> QED
  BY <1>2, <1>3, <1>4, <1>5 DEF Next

LEMMA TriesRemainHolds == Spec => []TriesRemain
<1>1. CycleInv => TypeOK
  BY DEF CycleInv
<1> QED
  BY <1>1, Invariance, TriesRemainInit, TriesRemainNext, PTL DEF Spec

\* A fetch has a bounded number of steps left, whatever happens to it.
THEOREM FetchIsShort == Spec => []StepsBounded
<1>1. CycleInv /\ TriesRemain => StepsBounded
  <2> SUFFICES ASSUME CycleInv, TriesRemain, NEW d \in Devices
               PROVE  StepsLeft(d) \in 0 .. (2 * Budget + 2 * Tries + 4)
    BY DEF StepsBounded
  <2>1. /\ task[d].pc \in Places /\ task[d].tries \in Nat /\ task[d].left \in Nat
        /\ task[d].left <= Budget /\ TryRemains(d)
    BY DEF CycleInv, TypeOK, Task, Places, TriesRemain
  <2> QED
    BY <2>1 DEF StepsLeft, TryRemains, Over, Places
<1> QED
  BY <1>1, Invariance, TriesRemainHolds, PTL

\* While a cycle fetches, each step, a tick of the clock included, takes a fetch nearer to
\* its end, and no step takes one back (_fetch_held, async_retry, _FetchDeadline).
THEOREM CycleRunsDown == Spec => FetchesRunDown
<1> DEFINE Down == loop = "fetching" /\ loop' = "fetching" =>
                     /\ task' # task
                     /\ \A d \in Devices : task'[d] = task[d] \/ StepsLeft(d)' < StepsLeft(d)
<1>1. CycleInv /\ TriesRemain /\ [Next]_vars => [Down]_vars
  <2> SUFFICES ASSUME TypeOK, TriesRemain, Next, loop = "fetching", loop' = "fetching"
               PROVE  /\ \E d \in Devices : task'[d] # task[d]
                      /\ \A d \in Devices : task'[d] = task[d] \/ StepsLeft(d)' < StepsLeft(d)
    BY DEF CycleInv
  <2> USE DEF TriesRemain
  <2>1. CASE \E d \in Devices : FetchNext(d)
    BY <2>1, FetchAlone, FetchGoes, GoesDown
  <2>2. CASE Tick
    <3>1. PICK d \in Devices : Active(d)
      BY <2>2 DEF Tick
    <3> QED
      BY <2>2, <3>1, TickGoes, GoesDown
  <2> QED
    BY <2>1, <2>2 DEF Next, CycleStart, CycleEnd, CycleFetched, MetricsWritten
<1> QED
  BY <1>1, Invariance, TriesRemainHolds, PTL DEF Spec, FetchesRunDown
===============================================================================
