----------------------------- MODULE MCLoadTest -----------------------------
(* LoadTest for TLC: three suites, each a different way to run a test.     *)
EXTENDS LoadTest, TLC

CONSTANTS t1, t2

Plain(workers, requests) ==
    [workers |-> workers, requests |-> requests,
     isPaced |-> FALSE, isTimed |-> FALSE, isStaged |-> FALSE]

(* A rate cap, a limit and a duration that may end first.                  *)
Paced == t1 :> [Plain(2, 3) EXCEPT !.isPaced = TRUE, !.isTimed = TRUE]

(* Two calls for the one slot, each with nothing but a limit.              *)
Rivals == t1 :> Plain(2, 2) @@ t2 :> Plain(2, 2)

(* Workers that come and go, and no limit.                                 *)
Staged == t1 :> [Plain(3, 0) EXCEPT !.isTimed = TRUE, !.isStaged = TRUE]

MCSuites == {Paced, Rivals, Staged}
=============================================================================
