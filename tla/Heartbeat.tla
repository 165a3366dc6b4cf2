------------------------------- MODULE Heartbeat -------------------------------
(***************************************************************************)
(* The heartbeat file (health/heartbeat.py) and the container's health      *)
(* check (health/check.py), a process of its own: it reads the file's age,  *)
(* by the wall clock, then the file, and compares who wrote it with the     *)
(* container's PID 1.  The file outlives the process and the boot; it is    *)
(* replaced whole.  With /proc: without it the last check is left out.      *)
(*                                                                          *)
(* A process is known by its boot and its start, in clock ticks since that  *)
(* boot.  The wall clock may be stepped, at most MaxSteps times, by Step.   *)
(***************************************************************************)
EXTENDS Integers

CONSTANTS
    MaxAge,     \* KASA_COLLECTOR_HEALTH_CHECK_MAX_AGE
    Step,       \* ticks the wall clock is stepped by, back or forth
    MaxSteps, MaxBoots, MaxStart    \* bounds

ASSUME HeartbeatAssumption ==
    MaxAge \in Nat /\ Step \in Nat /\ MaxSteps \in Nat /\ MaxBoots \in Nat /\ MaxStart \in Nat

VARIABLES
    boot,       \* boot_id
    born,       \* start_ticks("1")
    file,       \* the heartbeat: who wrote it, its age by the wall clock, and (history)
                \* its real age, whether the clock was stepped back since, and whether
                \* the cycle it is for put data in InfluxDB; or NoFile
    check,      \* the health check: at its start, or between stat and open; its verdict
    steps       \* steps of the wall clock so far

beatVars == <<boot, born, file, check, steps>>

NoFile == [written |-> FALSE]
NoCheck == [at |-> "start", healthy |-> FALSE]

\* No step brings an age beyond this back to MaxAge.
AgeCap == MaxAge + 1 + Step * MaxSteps
Smaller(m, n) == IF m <= n THEN m ELSE n

BeatInit ==
    /\ boot = 0 /\ born = 0
    /\ file = NoFile /\ check = NoCheck /\ steps = 0

\* beat(): a temporary file is written, and replaces the heartbeat.
Beat(landed) ==
    /\ file' = [written |-> TRUE, boot |-> boot, start |-> born,
                age |-> 0, real |-> 0, back |-> FALSE, landed |-> landed]
    /\ UNCHANGED <<boot, born, check, steps>>

\* A full disk: the heartbeat stays as it was.
BeatFails == UNCHANGED beatVars

\* The container starts: in this boot later than the process before, after a reboot any
\* number of ticks into the new one.
Born ==
    /\ \/ boot' = boot /\ born' \in (born + 1) .. MaxStart
       \/ boot' \in {b \in {boot + 1} : b <= MaxBoots} /\ born' \in 1 .. MaxStart
    /\ check' = NoCheck
    /\ UNCHANGED <<file, steps>>

CheckStats ==
    /\ check.at = "start"
    /\ check' = IF ~file.written THEN NoCheck
                ELSE [at |-> "opening", age |-> file.age, real |-> file.real,
                      back |-> file.back]
    /\ UNCHANGED <<boot, born, file, steps>>

\* Mutant of WrittenByAPreviousRun: the boot is not compared.
StartedEarlier == file.start < born

WrittenByAPreviousRun == file.boot # boot \/ file.start < born

CheckReads ==
    /\ check.at = "opening"
    /\ check' = [at |-> "start",
                 healthy |-> check.age <= MaxAge /\ ~WrittenByAPreviousRun]
    /\ UNCHANGED <<boot, born, file, steps>>

ClockSteps ==
    /\ steps < MaxSteps /\ steps' = steps + 1
    /\ file.written
    /\ \/ file' = [file EXCEPT !.age = @ - Step, !.back = TRUE]
       \/ file' = [file EXCEPT !.age = Smaller(@ + Step, AgeCap)]
    /\ UNCHANGED <<boot, born, check>>

BeatTick ==
    /\ file' = IF file.written
               THEN [file EXCEPT !.age = Smaller(@ + 1, AgeCap),
                                 !.real = Smaller(@ + 1, MaxAge + 1)]
               ELSE file
    /\ UNCHANGED <<boot, born, check, steps>>
==============================================================================
