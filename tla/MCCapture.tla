----------------------------- MODULE MCCapture ------------------------------
(* Capture for TLC, with one plan for each thing rules can do.             *)
EXTENDS Capture

Fires == [EmptyPlan EXCEPT !.fired = TRUE]

BreakBoth == [Fires EXCEPT !.breakRequest = TRUE, !.breakResponse = TRUE,
                           !.delay = TRUE]

Edits == [Fires EXCEPT !.editsBody = TRUE]

Fails == [Fires EXCEPT !.fault = "status", !.breakResponse = TRUE]

Drops == [Fires EXCEPT !.fault = "drop", !.answer = TRUE]

MCPlans == {BreakBoth, Edits, Fails, Drops}

(* Two shapes of a run: two calls that meet breakpoints on both sides of   *)
(* one server, and one call of any plan while two servers follow on each   *)
(* other.  What a shape leaves out, a start or an arrival, nothing in      *)
(* Fairness asks for.                                                      *)
VARIABLE shape

TheCall == CHOOSE c \in Calls : TRUE

MCInit == Init /\ shape \in {"calls", "servers"}

MCNext ==
    /\ Next
    /\ shape = "calls" => started' <= 1 /\ \A s \in 1..started' : rules'[s] = BreakBoth
    /\ shape = "servers" => {c \in Calls : pc'[c] # "idle"} \cup gone' \subseteq {TheCall}
    /\ UNCHANGED shape

MCSpec == MCInit /\ [][MCNext]_<<vars, shape>> /\ Fairness
=============================================================================
