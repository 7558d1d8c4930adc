------------------------------ MODULE MCRunner ------------------------------
EXTENDS Runner

(* A run that iterates without a data file gives the numbers of its        *)
(* iterations, the rows of a file may give any text.                       *)
MCRunTexts == {"1", "2"}

RunPlanOf(runner, requests, parallel, rows, asking) ==
    [runner |-> runner, requests |-> requests, parallel |-> parallel, rows |-> rows,
     asking |-> asking, stopOnFailure |-> FALSE, isDelayed |-> FALSE]

RunBudget(writes, jumps, clears) == [writes |-> writes, jumps |-> jumps, clears |-> clears]

(* Two lanes over two rows, run again after Stop; two lanes that prompt    *)
(* for the same value; a run that waits between requests and stops on a    *)
(* failure beside a monitor's other row; a monitor and the dialog that     *)
(* prompt and give the same row.                                           *)
MCRunPlans ==
    { [runs |-> <<RunPlanOf("dialog", 2, 2, <<"1", "2">>, {}), RunPlanOf("dialog", 1, 1, <<>>, {})>>,
       budget |-> RunBudget(1, 0, 0)],
      [runs |-> <<RunPlanOf("dialog", 2, 2, <<"1">>, {1, 2})>>, budget |-> RunBudget(0, 1, 0)],
      [runs |-> <<[RunPlanOf("dialog", 2, 1, <<"1">>, {})
                      EXCEPT !.stopOnFailure = TRUE, !.isDelayed = TRUE],
                  RunPlanOf("monitor", 1, 1, <<"2">>, {})>>,
       budget |-> RunBudget(0, 1, 1)],
      [runs |-> <<RunPlanOf("dialog", 1, 1, <<"2">>, {1}), RunPlanOf("monitor", 1, 1, <<"2", "2">>, {1})>>,
       budget |-> RunBudget(1, 0, 0)] }
=============================================================================
