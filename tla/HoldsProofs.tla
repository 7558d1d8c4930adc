----------------------------- MODULE HoldsProofs -----------------------------
(***************************************************************************)
(* Proofs about Holds, for any number of calls, deciders and holds and any *)
(* limit: the table of holds is exact and bounded, the app shows only what *)
(* is in it, and a verdict is the call's own.                              *)
(***************************************************************************)
EXTENDS Holds, FiniteSetTheorems, TLAPS

(* Ids are handed out in order, and the app shows a call only between the  *)
(* Held and the Settled hook.                                              *)
TicketsAreIssued ==
    /\ \A c \in Calls : ticket[c] <= last
    /\ \A i \in shown : \E c \in Calls : ticket[c] = i /\ pc[c] \in {"select", "settled"}

(* An answer that waits in a channel is well formed and meant for the call *)
(* that waits on that channel; no answer and no decision is about an id    *)
(* that was not handed out yet.                                            *)
AnswersFindTheirCall ==
    /\ \A i \in Ids : i > last => answer[i] = {}
    /\ \A i \in Ids : \A a \in answer[i] : a.kind # "malformed"
    /\ \A c \in Inside : \A a \in answer[ticket[c]] : a.aim = c

DecisionsFindTheirCall ==
    \A d \in Deciders : desk[d] # Idle =>
        /\ desk[d].id <= last
        /\ \A c \in Inside : ticket[c] = desk[d].id => desk[d].decision.aim = c

(* A call whose select has chosen a case comes out with that verdict.      *)
SettledHaveAVerdict ==
    \A c \in Calls : pc[c] \in {"settled", "leaving"} =>
        outcome[c].verdict \in {"edited", "timedOut", "dropped"}

(* The inductive invariant.                                                *)
IInv == /\ TypeOK
        /\ TableIsTheWaitingCalls
        /\ TicketsAreIssued
        /\ AnswersFindTheirCall
        /\ DecisionsFindTheirCall
        /\ VerdictIsTheCallsOwn
        /\ SettledHaveAVerdict

-----------------------------------------------------------------------------
(* The invariant holds when the proxy starts, with an empty table.         *)
LEMMA InitInvariant == Init => IInv
<1> SUFFICES ASSUME Init PROVE IInv
  OBVIOUS
<1> USE HoldsAssumption DEF Init
<1>1. TypeOK
  BY DEF TypeOK, Ids, Phases, Slots, Outcomes, Outcome, Verdicts, Desks, Idle
<1>2. TableIsTheWaitingCalls
  BY DEF TableIsTheWaitingCalls, Inside
<1>3. TicketsAreIssued
  BY DEF TicketsAreIssued
<1>4. AnswersFindTheirCall
  BY DEF AnswersFindTheirCall, Inside
<1>5. DecisionsFindTheirCall
  BY DEF DecisionsFindTheirCall
<1>6. VerdictIsTheCallsOwn
  BY DEF VerdictIsTheCallsOwn, Outcome
<1>7. SettledHaveAVerdict
  BY DEF SettledHaveAVerdict
<1> QED BY <1>1, <1>2, <1>3, <1>4, <1>5, <1>6, <1>7 DEF IInv

(* What hold returns with is an outcome.                                   *)
LEMMA OutcomeType == \A v \in Verdicts, t \in Slots : Outcome(v, t) \in Outcomes
BY DEF Outcome, Outcomes

(* A call inside hold has an id from the table.                            *)
LEMMA InsideHasId == ASSUME IInv, NEW c \in Calls, pc[c] # "out"
                     PROVE  c \in Inside /\ ticket[c] \in pending /\ ticket[c] \in Ids
BY DEF IInv, TypeOK, TableIsTheWaitingCalls, Inside

(* Entering hands out an id no call, answer or decision knows yet.         *)
LEMMA EnterKeeps == ASSUME IInv, NEW c \in Calls, Enter(c) PROVE IInv'
<1> USE HoldsAssumption
<1>1. TypeOK'
  <2>1. last' \in 0..MaxHolds /\ last' \in Ids
    BY DEF Enter, IInv, TypeOK, Ids
  <2>2. outcome' \in [Calls -> Outcomes]
    BY OutcomeType DEF Enter, IInv, TypeOK, Verdicts, Slots
  <2> QED BY <2>1, <2>2 DEF Enter, IInv, TypeOK, Phases
<1>2. TableIsTheWaitingCalls'
  BY DEF Enter, IInv, TypeOK, TicketsAreIssued, TableIsTheWaitingCalls, Inside, Ids
<1>3. TicketsAreIssued'
  BY DEF Enter, IInv, TypeOK, TicketsAreIssued, TableIsTheWaitingCalls, Inside, Ids
<1>4. AnswersFindTheirCall'
  <2>1. answer' = answer /\ answer[last'] = {} /\ last' > last /\ last' \in Nat /\ last \in Nat
    BY DEF Enter, IInv, TypeOK, AnswersFindTheirCall, Ids
  <2>2. \A e \in Inside' : e = c \/ (e \in Inside /\ ticket'[e] = ticket[e])
    BY DEF Enter, IInv, TypeOK, Inside
  <2>3. ticket'[c] = last'
    BY DEF Enter, IInv, TypeOK
  <2> QED BY <2>1, <2>2, <2>3 DEF IInv, AnswersFindTheirCall, Ids
<1>5. DecisionsFindTheirCall'
  BY DEF Enter, IInv, TypeOK, TicketsAreIssued, TableIsTheWaitingCalls, DecisionsFindTheirCall, Inside, Ids, Idle, Desks
<1>6. VerdictIsTheCallsOwn'
  BY DEF Enter, IInv, TypeOK, VerdictIsTheCallsOwn, Outcome
<1>7. SettledHaveAVerdict'
  BY DEF Enter, IInv, TypeOK, Outcome, SettledHaveAVerdict
<1> QED BY <1>1, <1>2, <1>3, <1>4, <1>5, <1>6, <1>7 DEF IInv

(* A call that finds the table full changes nothing but its own outcome.   *)
LEMMA SkipKeeps == ASSUME IInv, NEW c \in Calls, Skip(c) PROVE IInv'
<1> USE HoldsAssumption
<1>1. TypeOK'
  BY OutcomeType DEF Skip, IInv, TypeOK, Verdicts, Slots
<1>2. TableIsTheWaitingCalls'
  BY DEF Skip, IInv, TableIsTheWaitingCalls, Inside
<1>3. TicketsAreIssued'
  BY DEF Skip, IInv, TicketsAreIssued
<1>4. AnswersFindTheirCall'
  BY DEF Skip, IInv, AnswersFindTheirCall, Inside
<1>5. DecisionsFindTheirCall'
  BY DEF Skip, IInv, DecisionsFindTheirCall, Inside
<1>6. VerdictIsTheCallsOwn'
  BY DEF Skip, IInv, TypeOK, VerdictIsTheCallsOwn, Outcome
<1>7. SettledHaveAVerdict'
  BY DEF Skip, IInv, TypeOK, Outcome, SettledHaveAVerdict
<1> QED BY <1>1, <1>2, <1>3, <1>4, <1>5, <1>6, <1>7 DEF IInv

(* The Held hook shows an entry that is in the table.                      *)
LEMMA AnnounceKeeps == ASSUME IInv, NEW c \in Calls, Announce(c) PROVE IInv'
<1> USE HoldsAssumption
<1>1. TypeOK'
  BY DEF Announce, IInv, TypeOK, Phases, TableIsTheWaitingCalls, Inside
<1>2. TableIsTheWaitingCalls'
  BY DEF Announce, IInv, TypeOK, TableIsTheWaitingCalls, Inside
<1>3. TicketsAreIssued'
  BY DEF Announce, IInv, TypeOK, TicketsAreIssued, TableIsTheWaitingCalls, Inside, Ids
<1>4. AnswersFindTheirCall'
  BY DEF Announce, IInv, TypeOK, AnswersFindTheirCall, Inside
<1>5. DecisionsFindTheirCall'
  BY DEF Announce, IInv, TypeOK, DecisionsFindTheirCall, Inside
<1>6. VerdictIsTheCallsOwn'
  BY DEF Announce, IInv, VerdictIsTheCallsOwn
<1>7. SettledHaveAVerdict'
  BY DEF Announce, IInv, TypeOK, SettledHaveAVerdict
<1> QED BY <1>1, <1>2, <1>3, <1>4, <1>5, <1>6, <1>7 DEF IInv

(* The answer a call takes is the one meant for it.                        *)
LEMMA TakeAnswerKeeps == ASSUME IInv, NEW c \in Calls, TakeAnswer(c) PROVE IInv'
<1> USE HoldsAssumption
<1>1. TypeOK'
  <2>1. PICK a \in answer[ticket[c]] :
          outcome' = [outcome EXCEPT ![c] = Outcome(IF a.kind = "drop" THEN "dropped" ELSE "edited", {a})]
    BY DEF TakeAnswer
  <2>2. {a} \in Slots
    BY InsideHasId DEF TakeAnswer, IInv, TypeOK, Slots
  <2>3. outcome' \in [Calls -> Outcomes]
    BY <2>1, <2>2, OutcomeType DEF IInv, TypeOK, Verdicts
  <2> QED BY <2>3 DEF TakeAnswer, IInv, TypeOK, Phases, Slots
<1>2. TableIsTheWaitingCalls'
  BY DEF TakeAnswer, IInv, TypeOK, TicketsAreIssued, TableIsTheWaitingCalls, Inside, Ids
<1>3. TicketsAreIssued'
  BY DEF TakeAnswer, IInv, TypeOK, TicketsAreIssued, TableIsTheWaitingCalls, Inside, Ids
<1>4. AnswersFindTheirCall'
  <2>1. \A i \in Ids : answer'[i] \in {answer[i], {}}
    BY DEF TakeAnswer, IInv, TypeOK
  <2>2. Inside' = Inside /\ ticket' = ticket /\ last' = last
    BY DEF TakeAnswer, IInv, TypeOK, Inside
  <2>3. \A e \in Inside : ticket[e] \in Ids
    BY DEF IInv, TypeOK, TableIsTheWaitingCalls
  <2> QED BY <2>1, <2>2, <2>3 DEF IInv, AnswersFindTheirCall
<1>5. DecisionsFindTheirCall'
  BY DEF TakeAnswer, IInv, TypeOK, TicketsAreIssued, TableIsTheWaitingCalls, DecisionsFindTheirCall, Inside, Ids, Idle, Desks
<1>6. VerdictIsTheCallsOwn'
  <2>1. PICK a \in answer[ticket[c]] :
          outcome' = [outcome EXCEPT ![c] = Outcome(IF a.kind = "drop" THEN "dropped" ELSE "edited", {a})]
    BY DEF TakeAnswer
  <2>2. a.aim = c /\ a.kind # "malformed"
    BY InsideHasId DEF TakeAnswer, IInv, AnswersFindTheirCall
  <2>3. outcome'[c].taken = {a} /\ \A e \in Calls \ {c} : outcome'[e] = outcome[e]
    BY <2>1 DEF IInv, TypeOK, Outcome
  <2>4. gone' = gone
    BY DEF TakeAnswer
  <2> QED BY <2>2, <2>3, <2>4 DEF IInv, VerdictIsTheCallsOwn
<1>7. SettledHaveAVerdict'
  BY DEF TakeAnswer, IInv, TypeOK, Outcome, SettledHaveAVerdict
<1> QED BY <1>1, <1>2, <1>3, <1>4, <1>5, <1>6, <1>7 DEF IInv

(* A timer leaves table and answers as they are.                           *)
LEMMA TimeOutKeeps == ASSUME IInv, NEW c \in Calls, TimeOut(c) PROVE IInv'
<1> USE HoldsAssumption
<1>1. TypeOK'
  BY OutcomeType DEF TimeOut, IInv, TypeOK, Phases, Verdicts, Slots
<1>2. TableIsTheWaitingCalls'
  BY DEF TimeOut, IInv, TypeOK, TableIsTheWaitingCalls, Inside
<1>3. TicketsAreIssued'
  BY DEF TimeOut, IInv, TypeOK, TicketsAreIssued, TableIsTheWaitingCalls, Inside, Ids
<1>4. AnswersFindTheirCall'
  <2>1. Inside' = Inside
    BY DEF TimeOut, IInv, TypeOK, Inside
  <2> QED BY <2>1 DEF TimeOut, IInv, AnswersFindTheirCall
<1>5. DecisionsFindTheirCall'
  BY DEF TimeOut, IInv, TypeOK, DecisionsFindTheirCall, Inside
<1>6. VerdictIsTheCallsOwn'
  BY DEF TimeOut, IInv, TypeOK, VerdictIsTheCallsOwn, Outcome
<1>7. SettledHaveAVerdict'
  BY DEF TimeOut, IInv, TypeOK, Outcome, SettledHaveAVerdict
<1> QED BY <1>1, <1>2, <1>3, <1>4, <1>5, <1>6, <1>7 DEF IInv

(* A call is dropped without a decision only when its context is done.     *)
LEMMA AbandonKeeps == ASSUME IInv, NEW c \in Calls, Abandon(c) PROVE IInv'
<1> USE HoldsAssumption
<1>1. TypeOK'
  BY OutcomeType DEF Abandon, IInv, TypeOK, Phases, Verdicts, Slots
<1>2. TableIsTheWaitingCalls'
  BY DEF Abandon, IInv, TypeOK, TableIsTheWaitingCalls, Inside
<1>3. TicketsAreIssued'
  BY DEF Abandon, IInv, TypeOK, TicketsAreIssued, TableIsTheWaitingCalls, Inside, Ids
<1>4. AnswersFindTheirCall'
  BY DEF Abandon, IInv, TypeOK, AnswersFindTheirCall, Inside
<1>5. DecisionsFindTheirCall'
  BY DEF Abandon, IInv, TypeOK, DecisionsFindTheirCall, Inside
<1>6. VerdictIsTheCallsOwn'
  BY DEF Abandon, IInv, TypeOK, VerdictIsTheCallsOwn, Outcome
<1>7. SettledHaveAVerdict'
  BY DEF Abandon, IInv, TypeOK, Outcome, SettledHaveAVerdict
<1> QED BY <1>1, <1>2, <1>3, <1>4, <1>5, <1>6, <1>7 DEF IInv

(* The Settled hook hides no other call: ids are unique.                   *)
LEMMA WithdrawKeeps == ASSUME IInv, NEW c \in Calls, Withdraw(c) PROVE IInv'
<1> USE HoldsAssumption
<1>1. TypeOK'
  BY DEF Withdraw, IInv, TypeOK, Phases
<1>2. TableIsTheWaitingCalls'
  BY DEF Withdraw, IInv, TypeOK, TableIsTheWaitingCalls, Inside
<1>3. TicketsAreIssued'
  BY DEF Withdraw, IInv, TypeOK, TicketsAreIssued, TableIsTheWaitingCalls, Inside, Ids
<1>4. AnswersFindTheirCall'
  BY DEF Withdraw, IInv, TypeOK, AnswersFindTheirCall, Inside
<1>5. DecisionsFindTheirCall'
  BY DEF Withdraw, IInv, TypeOK, DecisionsFindTheirCall, Inside
<1>6. VerdictIsTheCallsOwn'
  BY DEF Withdraw, IInv, VerdictIsTheCallsOwn
<1>7. SettledHaveAVerdict'
  BY DEF Withdraw, IInv, TypeOK, SettledHaveAVerdict
<1> QED BY <1>1, <1>2, <1>3, <1>4, <1>5, <1>6, <1>7 DEF IInv

(* Leaving removes the call's own entry, which is no longer shown.         *)
LEMMA LeaveKeeps == ASSUME IInv, NEW c \in Calls, Leave(c) PROVE IInv'
<1> USE HoldsAssumption
<1>1. TypeOK'
  BY DEF Leave, IInv, TypeOK, Phases
<1>2. TableIsTheWaitingCalls'
  BY DEF Leave, IInv, TypeOK, TicketsAreIssued, TableIsTheWaitingCalls, Inside, Ids
<1>3. TicketsAreIssued'
  BY DEF Leave, IInv, TypeOK, TicketsAreIssued, TableIsTheWaitingCalls, Inside, Ids
<1>4. AnswersFindTheirCall'
  BY DEF Leave, IInv, TypeOK, AnswersFindTheirCall, Inside
<1>5. DecisionsFindTheirCall'
  BY DEF Leave, IInv, TypeOK, DecisionsFindTheirCall, Inside
<1>6. VerdictIsTheCallsOwn'
  BY DEF Leave, IInv, VerdictIsTheCallsOwn
<1>7. SettledHaveAVerdict'
  BY DEF Leave, IInv, TypeOK, SettledHaveAVerdict
<1> QED BY <1>1, <1>2, <1>3, <1>4, <1>5, <1>6, <1>7 DEF IInv

(* A client that leaves changes nothing but its context.                   *)
LEMMA CancelKeeps == ASSUME IInv, NEW c \in Calls, Cancel(c) PROVE IInv'
<1> USE HoldsAssumption
<1>1. TypeOK'
  BY DEF Cancel, IInv, TypeOK
<1>2. TableIsTheWaitingCalls'
  BY DEF Cancel, IInv, TableIsTheWaitingCalls, Inside
<1>3. TicketsAreIssued'
  BY DEF Cancel, IInv, TicketsAreIssued
<1>4. AnswersFindTheirCall'
  BY DEF Cancel, IInv, AnswersFindTheirCall, Inside
<1>5. DecisionsFindTheirCall'
  BY DEF Cancel, IInv, DecisionsFindTheirCall, Inside
<1>6. VerdictIsTheCallsOwn'
  BY DEF Cancel, IInv, VerdictIsTheCallsOwn
<1>7. SettledHaveAVerdict'
  BY DEF Cancel, IInv, SettledHaveAVerdict
<1> QED BY <1>1, <1>2, <1>3, <1>4, <1>5, <1>6, <1>7 DEF IInv

(* The user decides about a call that is shown.                            *)
LEMMA ChooseKeeps == ASSUME IInv, NEW d \in Deciders, Choose(d) PROVE IInv'
<1> USE HoldsAssumption
<1>1. TypeOK'
  <2>1. PICK c \in Calls, k \in Kinds :
          /\ ticket[c] \in shown
          /\ desk' = [desk EXCEPT ![d] = [at |-> "chosen", id |-> ticket[c],
                                        decision |-> [kind |-> k, aim |-> c]]]
    BY DEF Choose
  <2>2. ticket[c] \in Ids /\ [kind |-> k, aim |-> c] \in Decision
    BY <2>1 DEF IInv, TypeOK, Decision
  <2>3. desk' \in [Deciders -> Desks]
    BY <2>1, <2>2 DEF IInv, TypeOK, Desks
  <2> QED BY <2>3 DEF Choose, IInv, TypeOK
<1>2. TableIsTheWaitingCalls'
  BY DEF Choose, IInv, TableIsTheWaitingCalls, Inside
<1>3. TicketsAreIssued'
  BY DEF Choose, IInv, TicketsAreIssued
<1>4. AnswersFindTheirCall'
  BY DEF Choose, IInv, AnswersFindTheirCall, Inside
<1>5. DecisionsFindTheirCall'
  BY DEF Choose, IInv, TypeOK, TicketsAreIssued, TableIsTheWaitingCalls, DecisionsFindTheirCall, Inside, Ids, Idle, Desks
<1>6. VerdictIsTheCallsOwn'
  BY DEF Choose, IInv, VerdictIsTheCallsOwn
<1>7. SettledHaveAVerdict'
  BY DEF Choose, IInv, SettledHaveAVerdict
<1> QED BY <1>1, <1>2, <1>3, <1>4, <1>5, <1>6, <1>7 DEF IInv

(* Looking an id up changes only the desk.                                 *)
LEMMA LookupKeeps == ASSUME IInv, NEW d \in Deciders, Lookup(d) PROVE IInv'
<1> USE HoldsAssumption
<1>1. TypeOK'
  <2>1. desk[d] \in [at : {"chosen", "found"}, id : Ids, decision : Decision]
    BY DEF Lookup, IInv, TypeOK, Desks, Idle
  <2>2. [desk[d] EXCEPT !.at = "found"] \in Desks /\ Idle \in Desks
    BY <2>1 DEF Desks
  <2> QED BY <2>2 DEF Lookup, IInv, TypeOK
<1>2. TableIsTheWaitingCalls'
  BY DEF Lookup, IInv, TableIsTheWaitingCalls, Inside
<1>3. TicketsAreIssued'
  BY DEF Lookup, IInv, TicketsAreIssued
<1>4. AnswersFindTheirCall'
  BY DEF Lookup, IInv, AnswersFindTheirCall, Inside
<1>5. DecisionsFindTheirCall'
  BY DEF Lookup, IInv, TypeOK, TicketsAreIssued, TableIsTheWaitingCalls, DecisionsFindTheirCall, Inside, Ids, Idle, Desks
<1>6. VerdictIsTheCallsOwn'
  BY DEF Lookup, IInv, VerdictIsTheCallsOwn
<1>7. SettledHaveAVerdict'
  BY DEF Lookup, IInv, SettledHaveAVerdict
<1> QED BY <1>1, <1>2, <1>3, <1>4, <1>5, <1>6, <1>7 DEF IInv

(* An accepted decision goes to the channel of the call it is about.       *)
LEMMA ReplyKeeps == ASSUME IInv, NEW d \in Deciders, Reply(d) PROVE IInv'
<1> USE HoldsAssumption
<1>1. TypeOK'
  <2>1. desk[d].decision \in Decision /\ desk[d].id \in Ids
    BY DEF Reply, IInv, TypeOK, Desks, Idle
  <2>2. {desk[d].decision} \in Slots
    BY <2>1 DEF Slots
  <2>3. answer' \in [Ids -> Slots]
    BY <2>1, <2>2 DEF Reply, IInv, TypeOK
  <2>4. desk' \in [Deciders -> Desks]
    BY DEF Reply, IInv, TypeOK, Desks
  <2> QED BY <2>3, <2>4 DEF Reply, IInv, TypeOK
<1>2. TableIsTheWaitingCalls'
  BY DEF Reply, IInv, TableIsTheWaitingCalls, Inside
<1>3. TicketsAreIssued'
  BY DEF Reply, IInv, TicketsAreIssued
<1>4. AnswersFindTheirCall'
  <2>1. desk[d].id \in Ids /\ desk[d].id <= last /\ desk[d] # Idle
    BY DEF Reply, IInv, TypeOK, Desks, Idle, DecisionsFindTheirCall
  <2>2. \A i \in Ids : \/ answer'[i] = answer[i]
                       \/ /\ i = desk[d].id /\ answer'[i] = {desk[d].decision}
                          /\ desk[d].decision.kind # "malformed"
    BY <2>1 DEF Reply, IInv, TypeOK
  <2>3. Inside' = Inside /\ ticket' = ticket /\ last' = last /\ last \in Nat
    BY DEF Reply, Inside, IInv, TypeOK
  <2>4. \A e \in Inside : ticket[e] \in Ids
    BY DEF IInv, TypeOK, TableIsTheWaitingCalls
  <2>5. \A e \in Inside : ticket[e] = desk[d].id => desk[d].decision.aim = e
    BY <2>1 DEF IInv, DecisionsFindTheirCall
  <2> QED BY <2>1, <2>2, <2>3, <2>4, <2>5 DEF IInv, AnswersFindTheirCall, Ids
<1>5. DecisionsFindTheirCall'
  BY DEF Reply, IInv, TypeOK, TicketsAreIssued, TableIsTheWaitingCalls, DecisionsFindTheirCall, Inside, Ids, Idle, Desks
<1>6. VerdictIsTheCallsOwn'
  BY DEF Reply, IInv, VerdictIsTheCallsOwn
<1>7. SettledHaveAVerdict'
  BY DEF Reply, IInv, SettledHaveAVerdict
<1> QED BY <1>1, <1>2, <1>3, <1>4, <1>5, <1>6, <1>7 DEF IInv

-----------------------------------------------------------------------------
(* Every step of the proxy, the app or a client keeps the invariant.       *)
LEMMA StepKeepsInvariant == IInv /\ [Next]_vars => IInv'
<1> SUFFICES ASSUME IInv, [Next]_vars PROVE IInv'
  OBVIOUS
<1>1. CASE UNCHANGED vars
  BY <1>1 DEF vars, IInv, TypeOK, TableIsTheWaitingCalls, Inside, TicketsAreIssued,
     AnswersFindTheirCall, DecisionsFindTheirCall, VerdictIsTheCallsOwn, SettledHaveAVerdict
<1>2. ASSUME NEW c \in Calls, Handler(c) \/ Cancel(c) PROVE IInv'
  BY <1>2, EnterKeeps, SkipKeeps, AnnounceKeeps, TakeAnswerKeeps, TimeOutKeeps,
     AbandonKeeps, WithdrawKeeps, LeaveKeeps, CancelKeeps DEF Handler
<1>3. ASSUME NEW d \in Deciders, Choose(d) \/ Lookup(d) \/ Reply(d) PROVE IInv'
  BY <1>3, ChooseKeeps, LookupKeeps, ReplyKeeps
<1> QED BY <1>1, <1>2, <1>3 DEF Next

(* The inductive invariant holds of every behaviour of hold.go.            *)
THEOREM Invariance == Spec => []IInv
BY InitInvariant, StepKeepsInvariant, PTL DEF Spec

(* Every variable keeps its type: in particular a channel never holds more *)
(* than the one answer it has room for.                                    *)
THEOREM TypeCorrect == Spec => []TypeOK
<1>1. IInv => TypeOK
  BY DEF IInv
<1> QED BY <1>1, Invariance, PTL

(* The table is exactly the set of the calls inside hold, each under an id *)
(* of its own, whatever the interleaving of enter, leave and settle.       *)
THEOREM TableIsExact == Spec => []TableIsTheWaitingCalls
<1>1. IInv => TableIsTheWaitingCalls
  BY DEF IInv
<1> QED BY <1>1, Invariance, PTL

(* The app never shows a call that has left the table.                     *)
THEOREM NothingStaleIsShown == Spec => []ShownAreHeld
<1>1. IInv => ShownAreHeld
  BY DEF IInv, TicketsAreIssued, TableIsTheWaitingCalls, Inside, ShownAreHeld
<1> QED BY <1>1, Invariance, PTL

(* A call comes out edited or dropped for a reason of its own, however the *)
(* answers race the timer and each other.                                  *)
THEOREM VerdictsAreOwn == Spec => []VerdictIsTheCallsOwn
<1>1. IInv => VerdictIsTheCallsOwn
  BY DEF IInv
<1> QED BY <1>1, Invariance, PTL

-----------------------------------------------------------------------------
(* The table is finite: its ids are.                                       *)
LEMMA TableIsFinite == IInv => IsFiniteSet(pending)
<1> SUFFICES ASSUME IInv PROVE IsFiniteSet(pending)
  OBVIOUS
<1>1. IsFiniteSet(Ids)
  BY HoldsAssumption, FS_Interval DEF Ids
<1>2. pending \in SUBSET Ids
  BY DEF IInv, TypeOK
<1> QED BY <1>1, <1>2, FS_Subset

(* The table of holds never exceeds MaxHeld.                               *)
THEOREM HeldIsBounded == Spec => []HeldBound
<1>1. Init => HeldBound
  BY HoldsAssumption, FS_EmptySet DEF Init, HeldBound
<1>2. IInv /\ HeldBound /\ [Next]_vars => HeldBound'
  <2> SUFFICES ASSUME IInv, HeldBound, [Next]_vars PROVE HeldBound'
    OBVIOUS
  <2>1. IsFiniteSet(pending)
    BY TableIsFinite
  <2>2. ASSUME NEW c \in Calls, Enter(c) PROVE HeldBound'
    <3>1. Cardinality(pending) \in Nat
      BY <2>1, FS_CardinalityType
    <3>2. Cardinality(pending') \in {Cardinality(pending), Cardinality(pending) + 1}
      BY <2>1, <2>2, FS_AddElement, Zenon DEF Enter
    <3> QED BY <2>2, <3>1, <3>2, HoldsAssumption DEF Enter, HeldBound
  <2>3. ASSUME NEW c \in Calls, Leave(c) PROVE HeldBound'
    <3>1. Cardinality(pending) \in Nat
      BY <2>1, FS_CardinalityType
    <3>2. Cardinality(pending') \in {Cardinality(pending), Cardinality(pending) - 1}
      BY <2>1, <2>3, FS_RemoveElement, Zenon DEF Leave
    <3> QED BY <3>1, <3>2, HoldsAssumption DEF HeldBound
  <2>4. CASE UNCHANGED pending
    BY <2>4 DEF HeldBound
  <2> QED BY <2>2, <2>3, <2>4
      DEF Next, vars, Handler, Skip, Announce, TakeAnswer, TimeOut, Abandon,
          Withdraw, Cancel, Choose, Lookup, Reply
<1> QED BY <1>1, <1>2, Invariance, PTL DEF Spec

-----------------------------------------------------------------------------
(* The refinement: what Holds does is what Breakpoint allows.              *)

(* Breakpoint has the Cardinality of FiniteSets too.                       *)
LEMMA SameCardinality == \A S : Abstract!Cardinality(S) = Cardinality(S)
BY DEF Cardinality, Abstract!Cardinality

(* As many calls are inside as there are entries in the table.             *)
LEMMA TableCountsTheInside ==
    ASSUME IInv PROVE Cardinality(pending) = Cardinality(Abstract!HeldCalls)
<1>1. Abstract!HeldCalls = Inside
  <2>1. \A c \in Calls : outcome[c].verdict # "held"
    BY DEF IInv, TypeOK, Outcomes, Verdicts
  <2>2. \A c \in Calls : Gate[c] = "held" <=> pc[c] # "out"
    BY <2>1 DEF Gate
  <2> QED BY <2>2 DEF Abstract!HeldCalls, Inside
<1> DEFINE f == [c \in Inside |-> ticket[c]]
<1>2. f \in Bijection(Inside, pending)
  BY DEF IInv, TableIsTheWaitingCalls, Bijection, Injection, Surjection, IsInjective
<1>3. IsFiniteSet(Inside)
  BY HoldsAssumption, FS_Subset DEF Inside
<1> QED BY <1>1, <1>2, <1>3, FS_Bijection DEF ExistsBijection

(* The safety part of the refinement: initial states are those of          *)
(* Breakpoint, and every step of a handler, of the app or of a client is a *)
(* step of Breakpoint or leaves the gate as it is.                         *)
THEOREM HoldsImplementsBreakpoint == Spec => Abstract!Init /\ [][Abstract!Next]_Gate
<1>1. Init => Abstract!Init
  BY DEF Init, Abstract!Init, Gate, Outcome
<1>2. IInv /\ [Next]_vars => [Abstract!Next]_Gate
  <2> SUFFICES ASSUME IInv, [Next]_vars PROVE [Abstract!Next]_Gate
    OBVIOUS
  <2>1. \A c \in Calls : outcome[c].verdict # "held"
    BY DEF IInv, TypeOK, Outcomes, Verdicts
  <2>2. ASSUME NEW c \in Calls, Enter(c) PROVE Abstract!Hold(c)
    <3>1. Gate[c] # "held" /\ Gate' = [Gate EXCEPT ![c] = "held"]
      BY <2>1, <2>2 DEF Enter, Gate, IInv, TypeOK
    <3> QED BY <2>2, <3>1, TableCountsTheInside, SameCardinality DEF Enter, Abstract!Hold
  <2>3. ASSUME NEW c \in Calls, Skip(c) PROVE Abstract!Skip(c)
    <3>1. Gate[c] # "held" /\ Gate' = [Gate EXCEPT ![c] = "skipped"]
      BY <2>1, <2>3 DEF Skip, Gate, IInv, TypeOK, Outcomes, Outcome
    <3> QED BY <2>3, <3>1, TableCountsTheInside, SameCardinality DEF Skip, Abstract!Skip
  <2>4. ASSUME NEW c \in Calls, Leave(c) PROVE Abstract!Settle(c)
    BY <2>1, <2>4 DEF Leave, Abstract!Settle, Abstract!Verdicts, Gate, IInv, TypeOK, SettledHaveAVerdict
  <2>5. ASSUME NEW c \in Calls, Announce(c) \/ Withdraw(c) \/ Cancel(c) PROVE UNCHANGED Gate
    BY <2>5 DEF Announce, Withdraw, Cancel, Gate, IInv, TypeOK
  <2>6. ASSUME NEW c \in Calls, TakeAnswer(c) \/ TimeOut(c) \/ Abandon(c) PROVE UNCHANGED Gate
    BY <2>6 DEF TakeAnswer, TimeOut, Abandon, Gate, IInv, TypeOK
  <2>7. ASSUME NEW d \in Deciders, Choose(d) \/ Lookup(d) \/ Reply(d) PROVE UNCHANGED Gate
    BY <2>7 DEF Choose, Lookup, Reply, Gate
  <2>8. CASE UNCHANGED vars
    BY <2>8 DEF vars, Gate
  <2> QED BY <2>2, <2>3, <2>4, <2>5, <2>6, <2>7, <2>8 DEF Next, Handler, Abstract!Next
<1> QED BY <1>1, <1>2, Invariance, PTL DEF Spec
==============================================================================
