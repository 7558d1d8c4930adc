----------------------------- MODULE Breakpoint -----------------------------
(***************************************************************************)
(* What a breakpoint of the capture proxy promises the calls that meet it, *)
(* without ids, channels, timers or locks: a call either waits inside or   *)
(* is let through at once because MaxHeld calls are already waiting, and a *)
(* waiting call comes out once, with exactly one verdict.  The module      *)
(* Holds shows that capture/hold.go implements this.                       *)
(***************************************************************************)
EXTENDS Naturals, FiniteSets

CONSTANTS Calls,    \* the calls the proxy is serving
          MaxHeld   \* maxHeld, 25 in the code

VARIABLE gate       \* gate[c]: "out", "held", or the verdict c came out with

Verdicts == {"edited", "timedOut", "dropped", "skipped"}

States == {"out", "held"} \cup Verdicts

HeldCalls == {c \in Calls : gate[c] = "held"}

Init == gate = [c \in Calls |-> "out"]

Hold(c) ==
    /\ gate[c] # "held"
    /\ Cardinality(HeldCalls) < MaxHeld
    /\ gate' = [gate EXCEPT ![c] = "held"]

Skip(c) ==
    /\ gate[c] # "held"
    /\ Cardinality(HeldCalls) >= MaxHeld
    /\ gate' = [gate EXCEPT ![c] = "skipped"]

Settle(c) ==
    /\ gate[c] = "held"
    /\ \E v \in Verdicts \ {"skipped"} : gate' = [gate EXCEPT ![c] = v]

Next == \E c \in Calls : Hold(c) \/ Skip(c) \/ Settle(c)

Spec == Init /\ [][Next]_gate /\ \A c \in Calls : WF_gate(Settle(c))
=============================================================================
