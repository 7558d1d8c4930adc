----------------------------- MODULE MCEngines ------------------------------
(***************************************************************************)
(* Three engines of the backend that share no state, checked in one run: a *)
(* behaviour is one of held calls, of load tests or of a run with several  *)
(* workers, its `engine', while the others stay as they begin.             *)
(***************************************************************************)
EXTENDS Holds, MCLoadTest, Schedule

VARIABLE engine

EnginesInit ==
    /\ engine \in {"holds", "load", "schedule"}
    /\ Init
    /\ LoadInit /\ (engine # "load" => config = Rivals)
    /\ ScheduleInit /\ (engine # "schedule" => crew = 1)

EnginesNext ==
    /\ \/ engine = "holds" /\ Next /\ UNCHANGED <<loadVars, scheduleVars>>
       \/ engine = "load" /\ LoadNext /\ UNCHANGED <<vars, scheduleVars>>
       \/ engine = "schedule" /\ ScheduleNext /\ UNCHANGED <<vars, loadVars>>
    /\ UNCHANGED engine

(* While nothing is held and no test runs nothing has to happen, so that   *)
(* these engines are fair while they stay as they begin.  Of the run with  *)
(* several workers only safety is asked.                                   *)
EnginesSpec ==
    /\ EnginesInit /\ [][EnginesNext]_<<vars, loadVars, scheduleVars, engine>>
    /\ Fairness /\ LoadFairness
=============================================================================
