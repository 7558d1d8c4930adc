---------------------------- MODULE MCRunsWatch -----------------------------
(***************************************************************************)
(* Three parts that work on their own and share no state, checked in one   *)
(* run: a behaviour is one of a flow, of a run whose requests follow each  *)
(* other, or of the watcher of the open folder, its `part', while the      *)
(* others stay as they begin.                                              *)
(***************************************************************************)
EXTENDS MCFlows, Schedule, DiskWatch

VARIABLE part

RunsWatchInit ==
    /\ part \in {"flow", "run", "watch"}
    /\ FlInit /\ (part # "flow" => program = Quiet)
    /\ ScheduleInit
    /\ Init

RunsWatchNext ==
    /\ \/ part = "flow" /\ FlNext /\ UNCHANGED <<scheduleVars, vars>>
       \/ part = "run" /\ ScheduleNext /\ UNCHANGED <<flVars, vars>>
       \/ part = "watch" /\ Next /\ UNCHANGED <<flVars, scheduleVars>>
    /\ UNCHANGED part

(* FlFairness for a flow, ScheduleFairness for a run, Fairness for the     *)
(* watcher.                                                                *)
RunsWatchFairness ==
    /\ WF_flVars(part = "flow" /\ \E n \in DOMAIN tasks : TaskStep(n))
    /\ WF_flVars(part = "flow" /\ FlowReturns)
    /\ WF_scheduleVars(part = "run" /\ (StartWave \/ Return))
    /\ \A w \in Crew : WF_scheduleVars(part = "run" /\ Worker(w))
    /\ SF_vars(part = "watch" /\ Poll)
    /\ WF_vars(part = "watch" /\ (SaveWrites \/ SaveEnds))
    /\ WF_vars(part = "watch" /\ Activate)

RunsWatchSpec ==
    /\ RunsWatchInit
    /\ [][RunsWatchNext]_<<flVars, scheduleVars, vars, part>>
    /\ RunsWatchFairness

(* A flow that is run ends, with the exceptions of FlowsEnd.               *)
FlowRunsEnd == part = "flow" => FlowsEnd

(* A run ends, see RunEnds.                                                *)
RequestRunsEnd == part = "run" => RunEnds
=============================================================================
