------------------------------- MODULE Container -------------------------------
(***************************************************************************)
(* The container: the collector's process (Orchestrator), which is stopped, *)
(* killed and started again, the heartbeat file it writes and the health    *)
(* check that reads it (Heartbeat).  After a cycle that stored data the     *)
(* emeter loop beats.                                                       *)
(***************************************************************************)
EXTENDS Orchestrator, Heartbeat

CONSTANT Emeter     \* the loop that beats
ASSUME EmeterAssumption == Emeter \in Loops

vars == <<procVars, beatVars>>

Init == ProcInit /\ BeatInit

Starts == ProcStarts /\ Born

\* Mutant of Beats: every cycle that has come to its end beats.
BeatsEachCycle == loop[Emeter].at = "counted"

Beats == loop[Emeter].ok

EmeterCycleEnds ==
    /\ CycleEnds(Emeter)
    /\ IF Beats THEN Beat(loop[Emeter].landed) \/ BeatFails ELSE UNCHANGED beatVars

Collects ==
    /\ \/ ProcNext
       \/ \E l \in Loops \ {Emeter} : CycleEnds(l)
    /\ UNCHANGED beatVars

Killed ==
    /\ proc # "down" /\ Dies
    /\ check' = NoCheck
    /\ UNCHANGED <<boot, born, file, steps>>

\* The check runs in the container, that is beside its process.
Checks == proc # "down" /\ (CheckStats \/ CheckReads) /\ UNCHANGED procVars

Clock == (ProcTick /\ BeatTick) \/ (ClockSteps /\ UNCHANGED procVars)

Next == Starts \/ Collects \/ EmeterCycleEnds \/ Killed \/ Checks \/ Clock

\* Every await of the process ends, and time passes.
Spec ==
    /\ Init /\ [][Next]_vars
    /\ WF_vars(ProcSteps /\ UNCHANGED beatVars)
    /\ WF_vars(ProcTick /\ BeatTick)

\* The check finds the container healthy only when this very process has stored data, its
\* last heartbeat is of a cycle that did, and that is no older than MAX_AGE: never for a
\* cycle whose writes failed, or a heartbeat an earlier process, or boot, left, and however
\* the beats and restarts fall between the steps of the check.
\* A wall clock stepped back since that heartbeat is the exception (check_heartbeat).
HealthyIsHonest ==
    [][check.at = "opening" /\ check'.at = "start" /\ check'.healthy =>
          stored /\ file.landed /\ (check.real <= MaxAge \/ check.back)]_vars
==============================================================================
