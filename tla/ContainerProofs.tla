---------------------------- MODULE ContainerProofs ----------------------------
(***************************************************************************)
(* For every set of loops, every timeout, age and bound: no cycle counts as *)
(* stored what InfluxDB does not have, a shutdown's wait is bounded, and    *)
(* the health check is healthy only for this process's data.                *)
(*                                                                          *)
(* ProcInv says when a loop may run, and that what one counts has landed.   *)
(* WaitInv bounds the ticks waited by what has still to end: the closes, or *)
(* a last pause, with the ticks it has left.                                *)
(* BeatInv orders the runs: the heartbeat is never from a later run than    *)
(* this one, and if it is from this one, this process has stored data; it   *)
(* is of a cycle whose data landed; and unless the clock was stepped back,  *)
(* it is no older than it looks.                                            *)
(***************************************************************************)
EXTENDS Container, TLAPS

LoopState == [at : {"fetching", "writing", "counted", "unwinding", "ended"},
              ok : BOOLEAN, landed : BOOLEAN]

ProcInv ==
    /\ loop \in [Loops -> LoopState]
    /\ stored \in BOOLEAN
    /\ proc \in {"acquiring", "running", "cancelling"} => storage = "open"
    /\ proc \notin {"running", "cancelling"} => \A l \in Loops : Ended(l)
    /\ \A l \in Loops : loop[l].landed => loop[l].at = "counted" /\ stored
    /\ StoredOnlyWhenOpen

LEMMA AtIsLoop ==
  ASSUME NEW p \in {"fetching", "writing", "counted", "unwinding", "ended"}
  PROVE  At(p) \in LoopState /\ At(p).at = p /\ ~At(p).ok /\ ~At(p).landed
  BY DEF At, LoopState

LEMMA ProcInvInit == Init => ProcInv
  BY AtIsLoop DEF Init, ProcInit, ProcInv, StoredOnlyWhenOpen, Ended

\* Steps that change nothing the invariant speaks of, but where the process is.
LEMMA ProcInvMoves ==
  ASSUME ProcInv, UNCHANGED <<loop, stored>>,
         \/ PingAnswers \/ PingFails \/ AcquireFails \/ TasksGathered \/ Closes \/ Exits
         \/ Signal \/ DiscoveryGoesOn \/ PassUnwound \/ LastPauseEnds \/ CancelAgain
         \/ ProcTick
  PROVE  ProcInv'
  BY DEF ProcInv, StoredOnlyWhenOpen, Ended, PingAnswers, PingFails, AcquireFails,
         TasksGathered, TasksEnded, Closes, Exits, Signal, DiscoveryGoesOn, PassUnwound,
         LastPauseEnds, CancelAgain, ProcTick

\* Steps of every loop at once: all of them start, are cancelled, or die.
LEMMA ProcInvAll ==
  ASSUME ProcInv, Acquired \/ ShutdownBegins \/ Dies \/ ProcStarts
  PROVE  ProcInv'
<1> USE DEF ProcInv, StoredOnlyWhenOpen, Ended
<1>1. CASE Acquired
  BY <1>1, AtIsLoop DEF Acquired
<1>2. CASE ShutdownBegins
  BY <1>2, AtIsLoop DEF ShutdownBegins
<1>3. CASE Dies
  BY <1>3, AtIsLoop DEF Dies
<1>4. CASE ProcStarts
  <2>1. \A l \in Loops : ~loop[l].landed /\ ~loop[l].ok
    BY <1>4 DEF ProcStarts
  <2> QED
    BY <1>4, <2>1 DEF ProcStarts
<1> QED
  BY <1>1, <1>2, <1>3, <1>4

\* Steps of one loop: a write begins, returns, a cycle ends, a cancelled one is unwound.
LEMMA ProcInvLoop ==
  ASSUME ProcInv, NEW l \in Loops,
         Write(l) \/ WriteReturns(l) \/ CycleEnds(l) \/ LoopUnwound(l)
  PROVE  ProcInv'
<1> USE DEF ProcInv, StoredOnlyWhenOpen, Ended
<1>1. CASE Write(l)
  <2>1. storage = "open"
    BY <1>1 DEF Write
  <2> QED
    BY <1>1, <2>1, AtIsLoop DEF Write
<1>2. CASE WriteReturns(l)
  <2>1. PICK written \in BOOLEAN :
          /\ loop' = [loop EXCEPT ![l] = [at |-> "counted", ok |-> written, landed |-> written]]
          /\ stored' = (stored \/ written)
    BY <1>2 DEF WriteReturns
  <2>2. stored' \in BOOLEAN
    BY <2>1, Zenon
  <2>3. loop' \in [Loops -> LoopState]
    BY <2>1 DEF LoopState
  <2>4. proc' = proc /\ storage' = storage /\ loop[l].at = "writing"
    BY <1>2 DEF WriteReturns
  <2>5. ASSUME NEW k \in Loops
        PROVE  /\ loop'[k].landed => loop'[k].at = "counted" /\ stored'
               /\ loop'[k].ok => loop'[k].landed
    BY <2>1
  <2> QED
    BY <2>2, <2>3, <2>4, <2>5
<1>3. CASE CycleEnds(l)
  BY <1>3, AtIsLoop DEF CycleEnds
<1>4. CASE LoopUnwound(l)
  BY <1>4, AtIsLoop DEF LoopUnwound
<1> QED
  BY <1>1, <1>2, <1>3, <1>4

LEMMA ProcInvNext == ProcInv /\ [Next]_vars => ProcInv'
<1> SUFFICES ASSUME ProcInv, [Next]_vars PROVE ProcInv'
  OBVIOUS
<1>1. CASE Starts \/ Killed
  BY <1>1, ProcInvAll DEF Starts, Killed
<1>2. CASE Collects
  BY <1>2, ProcInvAll, ProcInvLoop, ProcInvMoves
     DEF Collects, ProcNext, ProcSteps, PingAnswers, PingFails, AcquireFails,
         TasksGathered, Closes, Exits, Signal, DiscoveryGoesOn, PassUnwound,
         LastPauseEnds, CancelAgain
<1>3. CASE EmeterCycleEnds
  BY <1>3, ProcInvLoop, EmeterAssumption DEF EmeterCycleEnds
<1>4. CASE Checks \/ Clock \/ UNCHANGED vars
  <2>1. CASE ProcTick
    BY <2>1, ProcInvMoves DEF ProcTick
  <2>2. CASE UNCHANGED procVars
    BY <2>2 DEF ProcInv, StoredOnlyWhenOpen, Ended, procVars
  <2> QED
    BY <1>4, <2>1, <2>2 DEF Checks, Clock, vars
<1> QED
  BY <1>1, <1>2, <1>3, <1>4 DEF Next

\* A cycle that counts a device as stored has its batch in InfluxDB, however starting,
\* writing, cancelling and closing interleave (start, shutdown, send_to_influxdb).
THEOREM CountedIsStored == Spec => []StoredOnlyWhenOpen
<1>1. ProcInv => StoredOnlyWhenOpen
  BY DEF ProcInv
<1> QED
  BY <1>1, ProcInvInit, ProcInvNext, PTL DEF Spec

-----------------------------------------------------------------------------
(* The shutdown's wait.  WaitInv: ticks are counted only between the first cancellation and *)
(* the tasks' end; what still closes clients has not had its CloseTime; and when the tasks  *)
(* were cancelled again, a last pause is there only because the pass was closing then, and  *)
(* the ticks it has left end within the bound.                                              *)

Waiting ==
    /\ \A l \in Loops : loop[l].at \in {"unwinding", "ended"}
    /\ discovery.at \in {"unwinding", "last pause", "ended"}
    /\ Unwinding => waited <= CloseTime
    /\ discovery.at # "ended" => again \in {"none", "unwinding"}
    /\ discovery.at = "last pause" =>
         /\ discovery.left \in Nat
         /\ discovery = [at |-> "last pause", left |-> discovery.left]
         /\ again = "unwinding" => waited + discovery.left <= CloseTime + DiscoveryInterval

WaitInv ==
    /\ DOMAIN loop = Loops
    /\ waited \in Nat
    /\ again = "none" => waited <= ShutdownTimeout
    /\ WaitIsBounded
    /\ proc \in {"opening", "acquiring", "running"} => waited = 0 /\ again = "none"
    /\ proc = "cancelling" => Waiting

LEMMA Times == ShutdownTimeout \in Nat /\ DiscoveryInterval \in Nat /\ CloseTime \in Nat
  BY ShutdownAssumption DEF ShutdownAssumption

LEMMA WaitInvInit == Init => WaitInv
  BY Times DEF Init, ProcInit, WaitInv, WaitIsBounded

\* Before and after the wait.
LEMMA WaitInvOutside ==
  ASSUME WaitInv,
         \/ ProcStarts \/ PingAnswers \/ PingFails \/ Acquired \/ AcquireFails \/ Signal
         \/ DiscoveryGoesOn \/ TasksGathered \/ Closes \/ Exits \/ Dies \/ UNCHANGED procVars
         \/ \E l \in Loops : Write(l) \/ WriteReturns(l) \/ CycleEnds(l)
  PROVE  WaitInv'
<1> USE Times DEF WaitInv, WaitIsBounded
<1>1. CASE ProcStarts
  BY <1>1 DEF ProcStarts
<1>2. CASE PingAnswers \/ PingFails \/ AcquireFails \/ TasksGathered \/ Closes \/ Exits
  BY <1>2 DEF PingAnswers, PingFails, AcquireFails, TasksGathered, Closes, Exits
<1>3. CASE Signal \/ UNCHANGED procVars
  <2>1. UNCHANGED <<proc, waited, loop, discovery, again>>
    BY <1>3 DEF Signal, procVars
  <2>2. Waiting' <=> Waiting
    BY <2>1 DEF Waiting, Unwinding
  <2> QED
    BY <2>1, <2>2
<1>4. CASE Acquired
  BY <1>4 DEF Acquired
<1>5. CASE Dies
  BY <1>5 DEF Dies
<1>6. CASE DiscoveryGoesOn
  <2>1. proc # "cancelling"
    BY <1>6 DEF DiscoveryGoesOn, Waiting
  <2> QED
    BY <1>6, <2>1 DEF DiscoveryGoesOn
<1>7. ASSUME NEW l \in Loops, Write(l) \/ WriteReturns(l) \/ CycleEnds(l) PROVE WaitInv'
  <2>1. loop[l].at \in {"fetching", "writing", "counted"}
    BY <1>7 DEF Write, WriteReturns, CycleEnds
  <2>2. proc # "cancelling"
    BY <2>1 DEF Waiting
  <2>3. UNCHANGED <<proc, waited, again>>
    BY <1>7 DEF Write, WriteReturns, CycleEnds
  <2>4. DOMAIN loop' = Loops
    BY <1>7 DEF Write, WriteReturns, CycleEnds
  <2> QED
    BY <2>2, <2>3, <2>4
<1> QED
  BY <1>1, <1>2, <1>3, <1>4, <1>5, <1>6, <1>7

\* SHUTDOWN_TIMEOUT is over: a pause ends, and what still closes clients goes on.
LEMMA WaitInvAgain == WaitInv /\ CancelAgain => WaitInv'
<1> SUFFICES ASSUME WaitInv, CancelAgain PROVE WaitInv'
  OBVIOUS
<1>1. /\ UNCHANGED <<proc, waited, loop>> /\ waited = ShutdownTimeout
      /\ proc = "cancelling" /\ discovery' = SecondCancel
  BY DEF CancelAgain, TimeIsUp
<1>2. again' = discovery.at /\ discovery.at \in {"unwinding", "last pause", "ended"}
  BY <1>1 DEF CancelAgain, WaitInv, Waiting
<1>3. discovery'.at = (IF discovery.at = "unwinding" THEN "unwinding" ELSE "ended")
  BY <1>1, <1>2 DEF SecondCancel, Awaits
<1>4. Unwinding' => Unwinding
  BY <1>1, <1>3 DEF Unwinding
<1>5. Waiting'
  BY <1>1, <1>2, <1>3, <1>4 DEF WaitInv, Waiting
<1>6. WaitIsBounded' /\ (again' = "none" => waited' <= ShutdownTimeout)
  BY <1>1, Times DEF WaitIsBounded
<1> QED
  BY <1>1, <1>5, <1>6 DEF WaitInv

\* What is left of a pause comes on top of what was waited.
LEMMA Sooner ==
  ASSUME NEW m \in Nat, NEW n \in Nat, NEW k \in Nat, m + n <= k
  PROVE  m <= k
  OBVIOUS

\* A tick of the wait: of the closes, or of the pause that is left.
LEMMA WaitInvTick == WaitInv /\ ProcTick => WaitInv'
<1> SUFFICES ASSUME WaitInv, ProcTick PROVE WaitInv'
  OBVIOUS
<1>1. CASE proc # "cancelling"
  BY <1>1 DEF ProcTick, WaitInv, WaitIsBounded
<1>2. CASE proc = "cancelling"
  <2>1. /\ UNCHANGED <<proc, loop, again>> /\ DOMAIN loop = Loops
        /\ waited \in Nat /\ waited' = waited + 1
    BY <1>2 DEF ProcTick, WaitInv
  <2>2. ~TasksEnded /\ Waiting
    BY <1>2 DEF ProcTick, WaitInv
  <2>3. again = "none" => waited' <= ShutdownTimeout
    <3>1. again = "none" => waited # ShutdownTimeout /\ waited <= ShutdownTimeout
      BY <1>2, <2>2 DEF ProcTick, TimeIsUp, WaitInv
    <3> QED
      BY <2>1, <3>1, Times
  <2>4. Unwinding => waited' <= CloseTime
    <3>1. Unwinding => waited < CloseTime
      BY DEF ProcTick
    <3> QED
      BY <2>1, <3>1, Times
  <2>5. CASE discovery.at # "last pause"
    <3>1. discovery' = discovery
      BY <2>5 DEF ProcTick
    <3>2. Unwinding' <=> Unwinding
      BY <2>1, <3>1 DEF Unwinding
    <3>3. Waiting'
      BY <2>1, <2>2, <2>4, <2>5, <3>1, <3>2 DEF Waiting
    <3>4. Unwinding
      BY <2>2, <2>5 DEF Waiting, Unwinding, TasksEnded, Ended
    <3>5. WaitIsBounded'
      BY <2>1, <2>4, <3>4, Times DEF WaitIsBounded
    <3> QED
      BY <1>2, <2>1, <2>3, <3>3, <3>5 DEF WaitInv
  <2>6. CASE discovery.at = "last pause"
    <3>1. PICK n \in Nat :
            /\ discovery = [at |-> "last pause", left |-> n]
            /\ again = "unwinding" => waited + n <= CloseTime + DiscoveryInterval
      BY <2>2, <2>6 DEF Waiting
    <3>2. n # 0
      BY <3>1 DEF ProcTick
    <3>3. discovery' = [at |-> "last pause", left |-> n - 1]
      BY <3>1 DEF ProcTick
    <3>4. discovery'.at = "last pause" /\ discovery'.left = n - 1 /\ n - 1 \in Nat
      <4>1. discovery'.at = "last pause" /\ discovery'.left = n - 1
        BY <3>3
      <4>2. n - 1 \in Nat
        BY <3>2
      <4> QED
        BY <4>1, <4>2
    <3>5. again = "unwinding" => waited' + (n - 1) <= CloseTime + DiscoveryInterval
      <4>1. again = "unwinding" => waited + n <= CloseTime + DiscoveryInterval
        BY <3>1
      <4> QED
        BY <2>1, <4>1, Times
    <3>6. Unwinding' => Unwinding
      BY <2>1, <3>4 DEF Unwinding
    <3>7. Waiting'
      BY <2>1, <2>2, <2>4, <2>6, <3>3, <3>4, <3>5, <3>6 DEF Waiting
    <3>8. again = "unwinding" => waited' <= CloseTime + DiscoveryInterval
      <4>1. waited' \in Nat
        BY <2>1
      <4>2. CloseTime + DiscoveryInterval \in Nat
        BY Times
      <4> QED
        BY <3>4, <3>5, <4>1, <4>2, Sooner
    <3>9. WaitIsBounded'
      <4>1. again \in {"none", "unwinding"}
        BY <2>2, <2>6 DEF Waiting
      <4> QED
        BY <2>1, <2>3, <3>8, <4>1 DEF WaitIsBounded
    <3> QED
      BY <1>2, <2>1, <2>3, <3>7, <3>9 DEF WaitInv
  <2> QED
    BY <2>5, <2>6
<1> QED
  BY <1>1, <1>2

\* The wait begins, and what was cancelled unwinds.
LEMMA WaitInvInside ==
  ASSUME WaitInv,
         \/ ShutdownBegins \/ PassUnwound \/ LastPauseEnds
         \/ \E l \in Loops : LoopUnwound(l)
  PROVE  WaitInv'
<1> USE DEF WaitInv
<1>1. CASE ShutdownBegins
  <2>1. /\ loop' = [l \in Loops |-> [at |-> "unwinding", ok |-> FALSE, landed |-> FALSE]]
        /\ discovery'.at \in {"unwinding", "ended"}
        /\ UNCHANGED <<waited, again>> /\ waited = 0 /\ again = "none"
    BY <1>1 DEF ShutdownBegins, At, CancelDiscovery, Awaits
  <2>2. \A l \in Loops : loop'[l].at = "unwinding"
    BY <2>1
  <2>3. waited' <= CloseTime /\ waited' <= ShutdownTimeout
    <3>1. waited' = 0
      BY <2>1
    <3> QED
      BY <3>1, Times
  <2>4. Waiting'
    BY <2>1, <2>2, <2>3 DEF Waiting
  <2>5. WaitIsBounded'
    BY <2>3 DEF WaitIsBounded
  <2> QED
    BY <2>1, <2>3, <2>4, <2>5
<1>2. CASE PassUnwound
  <2>1. /\ discovery' = [at |-> "last pause", left |-> DiscoveryInterval]
        /\ discovery.at = "unwinding" /\ UNCHANGED <<proc, waited, loop, again>>
    BY <1>2 DEF PassUnwound, LastPause
  <2>2. discovery'.at = "last pause" /\ discovery'.left = DiscoveryInterval
    BY <2>1
  <2>3. ASSUME Waiting PROVE Waiting'
    <3>1. waited <= CloseTime /\ again \in {"none", "unwinding"}
      BY <2>1, <2>3 DEF Waiting, Unwinding
    <3>2. waited' + DiscoveryInterval <= CloseTime + DiscoveryInterval
      <4>1. waited' = waited /\ waited \in Nat
        BY <2>1
      <4> QED
        BY <3>1, <4>1, Times
    <3> QED
      BY <2>1, <2>2, <2>3, <3>1, <3>2, Times DEF Waiting, Unwinding
  <2> QED
    BY <2>1, <2>3 DEF WaitIsBounded
<1>3. CASE LastPauseEnds
  <2>1. discovery'.at = "ended" /\ UNCHANGED <<proc, waited, loop, again>>
    BY <1>3 DEF LastPauseEnds, Awaits
  <2> QED
    BY <2>1 DEF WaitIsBounded, Waiting, Unwinding
<1>4. ASSUME NEW l \in Loops, LoopUnwound(l) PROVE WaitInv'
  <2>1. loop' = [loop EXCEPT ![l] = [at |-> "ended", ok |-> FALSE, landed |-> FALSE]]
        /\ UNCHANGED <<proc, waited, discovery, again>>
    BY <1>4 DEF LoopUnwound, At
  <2>2. DOMAIN loop' = Loops
        /\ \A k \in Loops : loop'[k].at = loop[k].at \/ loop'[k].at = "ended"
    BY <2>1
  <2>3. Unwinding' => Unwinding
    BY <2>1, <2>2 DEF Unwinding
  <2> QED
    BY <2>1, <2>2, <2>3 DEF WaitIsBounded, Waiting
<1> QED
  BY <1>1, <1>2, <1>3, <1>4

LEMMA WaitInvNext == WaitInv /\ [Next]_vars => WaitInv'
  BY WaitInvOutside, WaitInvInside, WaitInvAgain, WaitInvTick, EmeterAssumption
  DEF Next, Starts, Killed, Collects, ProcNext, ProcSteps, EmeterCycleEnds, Checks, Clock, vars

\* Waiting for the cancelled tasks takes at most SHUTDOWN_TIMEOUT, or as long as their closes
\* do; and one DISCOVERY_INTERVAL more only when the pass was still closing as it was
\* cancelled again (shutdown, periodic_discover).
THEOREM WaitBounded == Spec => []WaitIsBounded
<1>1. WaitInv => WaitIsBounded
  BY DEF WaitInv
<1> QED
  BY <1>1, WaitInvInit, WaitInvNext, PTL DEF Spec

-----------------------------------------------------------------------------
(* The health check. *)

Record == [written : {TRUE}, boot : Nat, start : Nat, age : Int, real : 0 .. MaxAge + 1,
           back : BOOLEAN, landed : {TRUE}]
Opening == [at : {"opening"}, age : Int, real : Nat, back : BOOLEAN]

\* The heartbeat is of a cycle that stored data, in this run or an earlier one; of this run
\* only if it has stored data.
WrittenBy ==
    file.written =>
        /\ file \in Record
        /\ file.boot < boot \/ (file.boot = boot /\ file.start <= born)
        /\ file.boot = boot /\ file.start = born => stored
        /\ ~file.back => file.real <= file.age

CheckInv ==
    check.at = "opening" =>
        /\ file.written /\ check \in Opening
        /\ ~check.back => check.real <= check.age

BeatInv ==
    /\ boot \in Nat /\ born \in Nat
    /\ file.written \in BOOLEAN
    /\ check.at \in {"start", "opening"}
    /\ WrittenBy /\ CheckInv

LEMMA BeatInvInit == Init => BeatInv
  BY DEF Init, BeatInit, BeatInv, WrittenBy, CheckInv, NoFile, NoCheck

LEMMA CapIsAbove == AgeCap \in Nat /\ AgeCap >= MaxAge + 1 /\ MaxAge \in Nat /\ Step \in Nat
<1>1. Step * MaxSteps \in Nat
  BY HeartbeatAssumption
<1> QED
  BY <1>1, HeartbeatAssumption DEF AgeCap

\* A new process is later than the one that wrote the heartbeat.
LEMMA BeatInvStarts == ASSUME BeatInv, Starts PROVE BeatInv'
<1>1. boot' \in Nat /\ born' \in Nat /\ file' = file
      /\ ((boot' = boot /\ born' > born) \/ boot' = boot + 1)
  BY HeartbeatAssumption DEF Starts, Born, BeatInv
<1>2. check'.at = "start"
  BY DEF Starts, Born, NoCheck
<1>3. ASSUME file.written PROVE WrittenBy'
  <2>1. /\ file \in Record
        /\ file.boot < boot \/ (file.boot = boot /\ file.start <= born)
        /\ ~file.back => file.real <= file.age
    BY <1>3 DEF BeatInv, WrittenBy
  <2>2. file.boot \in Nat /\ file.start \in Nat /\ boot \in Nat /\ born \in Nat
    BY <2>1 DEF Record, BeatInv
  <2>3. file.boot < boot' \/ (file.boot = boot' /\ file.start < born')
    BY <1>1, <2>1, <2>2
  <2>4. ~(file.boot = boot' /\ file.start = born')
    BY <1>1, <2>2, <2>3
  <2>5. file.boot < boot' \/ (file.boot = boot' /\ file.start <= born')
    BY <1>1, <2>2, <2>3
  <2> QED
    BY <1>1, <2>1, <2>4, <2>5 DEF WrittenBy
<1>4. WrittenBy'
  BY <1>1, <1>3 DEF WrittenBy
<1> QED
  BY <1>1, <1>2, <1>4 DEF BeatInv, CheckInv

\* A heartbeat is written after a cycle that stored data.
LEMMA BeatInvBeat == ASSUME BeatInv, ProcInv, EmeterCycleEnds PROVE BeatInv'
<1>1. stored' = stored
  BY DEF EmeterCycleEnds, CycleEnds
<1>2. CASE UNCHANGED beatVars
  BY <1>1, <1>2 DEF BeatInv, WrittenBy, CheckInv, Record, Opening, beatVars
<1>3. CASE Beats /\ Beat(loop[Emeter].landed)
  <2>1. stored /\ loop[Emeter].landed
    BY <1>3, EmeterAssumption DEF Beats, ProcInv, StoredOnlyWhenOpen
  <2>2. file' \in Record /\ file'.written /\ file'.boot = boot /\ file'.start = born
        /\ file'.real <= file'.age
    BY <1>3, <2>1, HeartbeatAssumption DEF Beat, Record, BeatInv
  <2>3. boot' = boot /\ born' = born /\ check' = check
    BY <1>3 DEF Beat
  <2>4. WrittenBy'
    BY <1>1, <2>1, <2>2, <2>3 DEF WrittenBy, BeatInv
  <2>5. CheckInv'
    BY <2>2, <2>3 DEF CheckInv, BeatInv, Opening
  <2> QED
    BY <2>2, <2>3, <2>4, <2>5 DEF BeatInv
<1> QED
  BY <1>2, <1>3 DEF EmeterCycleEnds, BeatFails

\* The check's own steps: it takes the age the heartbeat has.
LEMMA BeatInvChecks == ASSUME BeatInv, Checks PROVE BeatInv'
<1>1. UNCHANGED <<boot, born, file, stored>>
  BY DEF Checks, CheckStats, CheckReads, procVars
<1>2. WrittenBy'
  BY <1>1 DEF BeatInv, WrittenBy, Record
<1>3. check'.at \in {"start", "opening"} /\ CheckInv'
  <2>1. CASE CheckReads
    BY <2>1, Zenon DEF CheckReads, CheckInv
  <2>2. CASE CheckStats /\ ~file.written
    BY <2>2, Zenon DEF CheckStats, NoCheck, CheckInv
  <2>3. CASE CheckStats /\ file.written
    <3>1. check' = [at |-> "opening", age |-> file.age, real |-> file.real,
                    back |-> file.back]
      BY <2>3 DEF CheckStats
    <3>2. file \in Record /\ (~file.back => file.real <= file.age)
      BY <2>3 DEF BeatInv, WrittenBy
    <3>3. file.age \in Int /\ file.real \in Nat /\ file.back \in BOOLEAN
      BY <3>2, HeartbeatAssumption DEF Record
    <3>4. check' \in Opening
      BY <3>1, <3>3 DEF Opening
    <3> QED
      BY <1>1, <2>3, <3>1, <3>2, <3>4 DEF CheckInv
  <2> QED
    BY <2>1, <2>2, <2>3 DEF Checks
<1> QED
  BY <1>1, <1>2, <1>3 DEF BeatInv

\* Time passes, or the wall clock is stepped.
LEMMA BeatInvClock == ASSUME BeatInv, Clock PROVE BeatInv'
<1>1. UNCHANGED <<boot, born, check, stored>>
  BY DEF Clock, ClockSteps, BeatTick, ProcTick, procVars
<1>2. ASSUME file.written PROVE file'.written /\ WrittenBy'
  <2>1. /\ file \in Record
        /\ ~file.back => file.real <= file.age
        /\ file.boot < boot \/ (file.boot = boot /\ file.start <= born)
        /\ file.boot = boot /\ file.start = born => stored
    BY <1>2 DEF BeatInv, WrittenBy
  <2>2. /\ file.age \in Int /\ file.real \in Nat /\ file.real <= MaxAge + 1
        /\ file.back \in BOOLEAN
    BY <2>1, CapIsAbove DEF Record
  <2>3. PICK age \in Int, real \in 0 .. MaxAge + 1, back \in BOOLEAN :
          /\ file' = [file EXCEPT !.age = age, !.real = real, !.back = back]
          /\ ~back => real <= age
    <3>1. CASE file' = [file EXCEPT !.age = Smaller(@ + 1, AgeCap),
                                    !.real = Smaller(@ + 1, MaxAge + 1)]
      <4>1. /\ Smaller(file.age + 1, AgeCap) \in Int
            /\ Smaller(file.real + 1, MaxAge + 1) \in 0 .. MaxAge + 1
            /\ ~file.back => Smaller(file.real + 1, MaxAge + 1) <= Smaller(file.age + 1, AgeCap)
        BY <2>1, <2>2, CapIsAbove DEF Smaller
      <4>2. file' = [file EXCEPT !.age = Smaller(file.age + 1, AgeCap),
                                 !.real = Smaller(file.real + 1, MaxAge + 1),
                                 !.back = file.back]
        BY <2>1, <3>1 DEF Record
      <4> QED
        BY <2>2, <4>1, <4>2
    <3>2. CASE file' = [file EXCEPT !.age = @ - Step, !.back = TRUE]
      <4>1. file.age - Step \in Int /\ file.real \in 0 .. MaxAge + 1
        BY <2>2, CapIsAbove
      <4>2. file' = [file EXCEPT !.age = file.age - Step, !.real = file.real, !.back = TRUE]
        BY <2>1, <3>2 DEF Record
      <4> QED
        BY <4>1, <4>2
    <3>3. CASE file' = [file EXCEPT !.age = Smaller(@ + Step, AgeCap)]
      <4>1. /\ Smaller(file.age + Step, AgeCap) \in Int /\ file.real \in 0 .. MaxAge + 1
            /\ ~file.back => file.real <= Smaller(file.age + Step, AgeCap)
        BY <2>1, <2>2, CapIsAbove DEF Smaller
      <4>2. file' = [file EXCEPT !.age = Smaller(file.age + Step, AgeCap),
                                 !.real = file.real, !.back = file.back]
        BY <2>1, <3>3 DEF Record
      <4> QED
        BY <2>2, <4>1, <4>2
    <3> QED
      BY <1>2, <3>1, <3>2, <3>3 DEF Clock, ClockSteps, BeatTick
  <2>4. /\ file' \in Record /\ file'.written /\ file'.real = real /\ file'.age = age
        /\ file'.back = back /\ file'.boot = file.boot /\ file'.start = file.start
    BY <2>1, <2>3 DEF Record
  <2> QED
    BY <1>1, <2>1, <2>3, <2>4 DEF WrittenBy
<1>3. ASSUME ~file.written PROVE file' = file
  BY <1>3 DEF Clock, ClockSteps, BeatTick
<1>4. WrittenBy' /\ file'.written \in BOOLEAN
  BY <1>2, <1>3 DEF BeatInv, WrittenBy
<1>5. CheckInv'
  BY <1>1, <1>2 DEF BeatInv, CheckInv, Opening
<1> QED
  BY <1>1, <1>4, <1>5 DEF BeatInv

LEMMA BeatInvNext == ProcInv /\ BeatInv /\ [Next]_vars => BeatInv'
<1> SUFFICES ASSUME ProcInv, BeatInv, [Next]_vars PROVE BeatInv'
  OBVIOUS
<1>1. CASE Collects
  <2>1. stored => stored'
    BY <1>1 DEF Collects, ProcNext, ProcSteps, PingAnswers, PingFails, Acquired,
                AcquireFails, ShutdownBegins, CancelAgain, TasksGathered, Closes, Exits,
                PassUnwound, LastPauseEnds, LoopUnwound, Signal, DiscoveryGoesOn, Write,
                WriteReturns, CycleEnds
  <2> QED
    BY <1>1, <2>1 DEF Collects, BeatInv, WrittenBy, CheckInv, Record, Opening, beatVars
<1>2. CASE Killed
  <2>1. UNCHANGED <<boot, born, file, stored>> /\ check'.at = "start"
    BY <1>2 DEF Killed, Dies, NoCheck
  <2> QED
    BY <2>1 DEF BeatInv, WrittenBy, CheckInv, Record
<1>3. CASE UNCHANGED vars
  BY <1>3 DEF vars, procVars, beatVars, BeatInv, WrittenBy, CheckInv, Record, Opening
<1> QED
  BY <1>1, <1>2, <1>3, BeatInvStarts, BeatInvBeat, BeatInvChecks, BeatInvClock DEF Next

\* The step that finds the container healthy does so for this process's own data.
LEMMA VerdictIsHonest ==
  ASSUME BeatInv, [Next]_vars, check.at = "opening", check'.at = "start", check'.healthy
  PROVE  stored /\ file.landed /\ (check.real <= MaxAge \/ check.back)
<1>1. CheckReads
  BY DEF Next, Starts, Born, Killed, NoCheck, Collects, EmeterCycleEnds, Beat, BeatFails,
         Checks, CheckStats, Clock, BeatTick, ClockSteps, vars, beatVars
<1>2. check.age <= MaxAge /\ ~WrittenByAPreviousRun
  BY <1>1 DEF CheckReads
<1>3. file.written /\ check.age \in Int /\ check.real \in Nat
      /\ (~check.back => check.real <= check.age)
  BY DEF BeatInv, CheckInv, Opening
<1>4. stored /\ file.landed
  <2>1. /\ file \in Record
        /\ file.boot < boot \/ (file.boot = boot /\ file.start <= born)
        /\ file.boot = boot /\ file.start = born => stored
    BY <1>3 DEF BeatInv, WrittenBy
  <2>2. file.landed /\ file.boot \in Nat /\ file.start \in Nat
    BY <2>1 DEF Record
  <2>3. file.boot = boot /\ ~(file.start < born)
    BY <1>2 DEF WrittenByAPreviousRun
  <2>4. file.start = born
    BY <2>1, <2>2, <2>3 DEF BeatInv
  <2> QED
    BY <2>1, <2>2, <2>3, <2>4
<1> QED
  BY <1>2, <1>3, <1>4, HeartbeatAssumption

\* The container is found healthy only when this very process has stored data, and beat, for
\* a cycle that did, no longer than MAX_AGE before, unless the wall clock was stepped back
\* (check_heartbeat).
THEOREM HealthIsHonest == Spec => HealthyIsHonest
<1>1. Init => ProcInv /\ BeatInv
  BY ProcInvInit, BeatInvInit
<1>2. ProcInv /\ BeatInv /\ [Next]_vars => ProcInv' /\ BeatInv'
  BY ProcInvNext, BeatInvNext
<1>3. BeatInv /\ [Next]_vars =>
        [check.at = "opening" /\ check'.at = "start" /\ check'.healthy =>
           stored /\ file.landed /\ (check.real <= MaxAge \/ check.back)]_vars
  BY VerdictIsHonest
<1> QED
  BY <1>1, <1>2, <1>3, PTL DEF Spec, HealthyIsHonest
==============================================================================
