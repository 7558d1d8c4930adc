------------------------------- MODULE Holds --------------------------------
(***************************************************************************)
(* The breakpoints of the capture proxy: capture/hold.go.  The handler of  *)
(* every call runs Server.hold in a goroutine of its own; the desktop app  *)
(* answers through Server.Release and Server.DropHeld (holds.settle), each *)
(* call of the app in another goroutine.  holds.mu guards pending and last *)
(* but settle unlocks it before it sends into the answer channel, and hold *)
(* leaves the table only after its select has already chosen a case.       *)
(***************************************************************************)
EXTENDS Naturals, FiniteSets

CONSTANTS
    Calls,       \* handlers that meet a breakpoint, any number of times each
    Deciders,    \* goroutines of the app that answer held calls
    MaxHeld,     \* maxHeld
    MaxHolds     \* bound on the ids handed out (last is an int64 in the code)

ASSUME HoldsAssumption ==
    /\ IsFiniteSet(Calls)
    /\ MaxHeld \in Nat \ {0}
    /\ MaxHolds \in Nat

VARIABLES
    last,        \* holds.last
    pending,     \* the keys of holds.pending
    answer,      \* answer[id]: the buffered answers, a channel of capacity one
    pc,          \* pc[c]: where the handler of c is inside Server.hold
    ticket,      \* ticket[c]: waiting.held.ID of c's current or latest hold
    outcome,     \* outcome[c]: what hold returned with, or is about to
    gone,        \* the calls whose context is done (client left, or Stop)
    shown,       \* the ids the app shows: announced by Held, not yet Settled
    desk         \* desk[d]: a call of settle in progress

vars == <<last, pending, answer, pc, ticket, outcome, gone, shown, desk>>

-----------------------------------------------------------------------------
Ids == 1..MaxHolds

(* Decision: only whether it drops the call and whether check accepts it   *)
(* matter here; the edited method, URL, headers and body are carried along *)
(* unread.  aim is history: the call the user was looking at.              *)
Kinds == {"edit", "drop", "malformed"}

Decision == [kind : Kinds, aim : Calls]

Phases == {"out", "entered", "select", "settled", "leaving"}

Verdicts == {"none", "edited", "timedOut", "dropped", "skipped"}

(* A channel of capacity one, and a decision that may be absent.           *)
Slots == {{}} \cup {{d} : d \in Decision}

(* The value hold returns: its verdict, and the decision it took, if any.  *)
Outcomes == [verdict : Verdicts, taken : Slots]

Outcome(v, taken) == [verdict |-> v, taken |-> taken]

Idle == [at |-> "idle"]

Desks == {Idle} \cup [at : {"chosen", "found"}, id : Ids, decision : Decision]

Init ==
    /\ last = 0
    /\ pending = {}
    /\ answer = [i \in Ids |-> {}]
    /\ pc = [c \in Calls |-> "out"]
    /\ ticket = [c \in Calls |-> 0]
    /\ outcome = [c \in Calls |-> Outcome("none", {})]
    /\ gone = {}
    /\ shown = {}
    /\ desk = [d \in Deciders |-> Idle]

-----------------------------------------------------------------------------
(* The handler of one call, in Server.hold.                                *)

(* Faulty variants of an operation are named for their fault.  They are    *)
(* not part of the specification: each shows that a property notices it.   *)
LeaveNothing(c) ==
    /\ pc[c] = "leaving"
    /\ pc' = [pc EXCEPT ![c] = "out"]
    /\ UNCHANGED <<last, pending, answer, ticket, outcome, gone, shown, desk>>

TimeOutAsReleased(c) ==
    /\ pc[c] = "select"
    /\ outcome' = [outcome EXCEPT ![c] = Outcome("edited", {})]
    /\ pc' = [pc EXCEPT ![c] = "settled"]
    /\ UNCHANGED <<last, pending, answer, ticket, gone, shown, desk>>

TimeOutOnlyWhenGone(c) ==
    /\ pc[c] = "select"
    /\ c \in gone
    /\ outcome' = [outcome EXCEPT ![c] = Outcome("timedOut", {})]
    /\ pc' = [pc EXCEPT ![c] = "settled"]
    /\ UNCHANGED <<last, pending, answer, ticket, gone, shown, desk>>

WithdrawUnannounced(c) ==
    /\ pc[c] = "settled"
    /\ pc' = [pc EXCEPT ![c] = "leaving"]
    /\ UNCHANGED <<last, pending, answer, ticket, outcome, gone, shown, desk>>

(* holds.enter finds room: the call gets the next id and a channel.        *)
Enter(c) ==
    /\ pc[c] = "out"
    /\ Cardinality(pending) < MaxHeld
    /\ last < MaxHolds
    /\ last' = last + 1
    /\ pending' = pending \cup {last'}
    /\ ticket' = [ticket EXCEPT ![c] = last']
    /\ pc' = [pc EXCEPT ![c] = "entered"]
    /\ outcome' = [outcome EXCEPT ![c] = Outcome("none", {})]
    /\ UNCHANGED <<answer, gone, shown, desk>>

(* holds.enter finds the table full: hold returns at once.                 *)
Skip(c) ==
    /\ pc[c] = "out"
    /\ Cardinality(pending) >= MaxHeld
    /\ outcome' = [outcome EXCEPT ![c] = Outcome("skipped", {})]
    /\ UNCHANGED <<last, pending, answer, pc, ticket, gone, shown, desk>>

(* The Held hook announces the call, then the timer starts.                *)
Announce(c) ==
    /\ pc[c] = "entered"
    /\ shown' = shown \cup {ticket[c]}
    /\ pc' = [pc EXCEPT ![c] = "select"]
    /\ UNCHANGED <<last, pending, answer, ticket, outcome, gone, desk>>

(* The cases of the select.  When several are ready any of them is chosen. *)
TakeAnswer(c) ==
    /\ pc[c] = "select"
    /\ \E d \in answer[ticket[c]] :
         outcome' = [outcome EXCEPT ![c] =
             Outcome(IF d.kind = "drop" THEN "dropped" ELSE "edited", {d})]
    /\ answer' = [answer EXCEPT ![ticket[c]] = {}]
    /\ pc' = [pc EXCEPT ![c] = "settled"]
    /\ UNCHANGED <<last, pending, ticket, gone, shown, desk>>

(* The timer may fire any time after it was started.                       *)
TimeOut(c) ==
    /\ pc[c] = "select"
    /\ outcome' = [outcome EXCEPT ![c] = Outcome("timedOut", {})]
    /\ pc' = [pc EXCEPT ![c] = "settled"]
    /\ UNCHANGED <<last, pending, answer, ticket, gone, shown, desk>>

Abandon(c) ==
    /\ pc[c] = "select"
    /\ c \in gone
    /\ outcome' = [outcome EXCEPT ![c] = Outcome("dropped", {})]
    /\ pc' = [pc EXCEPT ![c] = "settled"]
    /\ UNCHANGED <<last, pending, answer, ticket, gone, shown, desk>>

(* The deferred calls run last to first: timer.Stop, the Settled hook ...  *)
Withdraw(c) ==
    /\ pc[c] = "settled"
    /\ shown' = shown \ {ticket[c]}
    /\ pc' = [pc EXCEPT ![c] = "leaving"]
    /\ UNCHANGED <<last, pending, answer, ticket, outcome, gone, desk>>

(* ... and holds.leave; then hold returns.                                 *)
Leave(c) ==
    /\ pc[c] = "leaving"
    /\ pending' = pending \ {ticket[c]}
    /\ pc' = [pc EXCEPT ![c] = "out"]
    /\ UNCHANGED <<last, answer, ticket, outcome, gone, shown, desk>>

Handler(c) == \/ Enter(c) \/ Skip(c) \/ Announce(c) \/ TakeAnswer(c)
              \/ TimeOut(c) \/ Abandon(c) \/ Withdraw(c) \/ Leave(c)

-----------------------------------------------------------------------------
(* The app: Server.Release and Server.DropHeld, that is, holds.settle.     *)

(* The user decides about a call the Held view shows.                      *)
Choose(d) ==
    /\ desk[d] = Idle
    /\ \E c \in Calls, k \in Kinds :
         /\ pc[c] # "out"
         /\ ticket[c] \in shown
         /\ desk' = [desk EXCEPT ![d] =
               [at |-> "chosen", id |-> ticket[c],
                decision |-> [kind |-> k, aim |-> c]]]
    /\ UNCHANGED <<last, pending, answer, pc, ticket, outcome, gone, shown>>

(* Under the mutex settle looks the id up, which may have left meanwhile.  *)
Lookup(d) ==
    /\ desk[d].at = "chosen"
    /\ desk' = [desk EXCEPT ![d] =
          IF desk[d].id \in pending THEN [desk[d] EXCEPT !.at = "found"] ELSE Idle]
    /\ UNCHANGED <<last, pending, answer, pc, ticket, outcome, gone, shown>>

(* Without the mutex: check refuses a malformed decision, a full channel   *)
(* means "already released", otherwise the decision is accepted.           *)
Reply(d) ==
    /\ desk[d].at = "found"
    /\ LET i == desk[d].id
           decision == desk[d].decision
           isAccepted == decision.kind # "malformed" /\ answer[i] = {}
       IN answer' = IF isAccepted THEN [answer EXCEPT ![i] = {decision}] ELSE answer
    /\ desk' = [desk EXCEPT ![d] = Idle]
    /\ UNCHANGED <<last, pending, pc, ticket, outcome, gone, shown>>

(* The client closes its connection, or StopCapture cancels the lifetime.  *)
Cancel(c) ==
    /\ c \notin gone
    /\ gone' = gone \cup {c}
    /\ UNCHANGED <<last, pending, answer, pc, ticket, outcome, shown, desk>>

Next ==
    \/ \E c \in Calls : Handler(c) \/ Cancel(c)
    \/ \E d \in Deciders : Choose(d) \/ Lookup(d) \/ Reply(d)

(* A goroutine that can go on does go on, and a timer that was started     *)
(* fires; nobody has to arrive, to answer or to hang up.                   *)
Progress(c) == Announce(c) \/ TakeAnswer(c) \/ TimeOut(c) \/ Abandon(c)
               \/ Withdraw(c) \/ Leave(c)

Fairness ==
    /\ \A c \in Calls : WF_vars(Progress(c))
    /\ \A d \in Deciders : WF_vars(Lookup(d) \/ Reply(d))

Spec == Init /\ [][Next]_vars /\ Fairness

-----------------------------------------------------------------------------
TypeOK ==
    /\ last \in 0..MaxHolds
    /\ pending \in SUBSET Ids
    /\ answer \in [Ids -> Slots]
    /\ pc \in [Calls -> Phases]
    /\ ticket \in [Calls -> 0..MaxHolds]
    /\ outcome \in [Calls -> Outcomes]
    /\ gone \in SUBSET Calls
    /\ shown \in SUBSET Ids
    /\ desk \in [Deciders -> Desks]

(* The table of holds never has more than MaxHeld entries, however many    *)
(* calls meet a breakpoint at once (hold.go enter: "len(h.pending) >=      *)
(* maxHeld", docs/workspaces-and-mock.md "At most 25 calls are held").     *)
HeldBound == Cardinality(pending) <= MaxHeld

(* The table holds exactly the calls that are inside hold, each under an   *)
(* id of its own: no call waits without being reachable, and no entry      *)
(* outlives its call (the deferred leave).                                 *)
Inside == {c \in Calls : pc[c] # "out"}

TableIsTheWaitingCalls ==
    /\ pending = {ticket[c] : c \in Inside}
    /\ \A c, e \in Inside : ticket[c] = ticket[e] => c = e

(* An id the app shows is still in the table, so that the app never offers *)
(* a call that can no longer be answered for want of an entry: the Settled *)
(* hook runs before leave.                                                 *)
ShownAreHeld == shown \subseteq pending

(* A call comes out edited or dropped only for a reason of its own: a      *)
(* well-formed decision that the user made while looking at that very      *)
(* call, or, for a drop without a decision, its own context.               *)
VerdictIsTheCallsOwn ==
    \A c \in Calls :
        /\ \A d \in outcome[c].taken : d.aim = c /\ d.kind # "malformed"
        /\ outcome[c].verdict = "edited" => outcome[c].taken # {}
        /\ outcome[c].verdict = "dropped" /\ outcome[c].taken = {} => c \in gone

(* A decision that settle accepted does not stay in the channel when its   *)
(* call has come out: it was the one the call came out with.  This is what *)
(* docs/workspaces-and-mock.md says of Release and Drop; it does NOT hold. *)
AcceptedDecisionIsApplied ==
    \A c \in Calls : pc[c] = "out" /\ ticket[c] # 0 => answer[ticket[c]] = {}

(* Holds implements Breakpoint: a call is at the gate while its id is in   *)
(* the table, and has come out with its verdict when hold returns; and     *)
(* every held call does come out, whether or not anybody answers it (the   *)
(* timer of hold sees to it).                                              *)
Gate == [c \in Calls |->
            IF pc[c] # "out" THEN "held"
            ELSE IF outcome[c].verdict = "none" THEN "out" ELSE outcome[c].verdict]

Abstract == INSTANCE Breakpoint WITH gate <- Gate

ImplementsBreakpoint == Abstract!Spec
=============================================================================
