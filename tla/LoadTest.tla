------------------------------ MODULE LoadTest ------------------------------
(***************************************************************************)
(* Load tests: loadtest/run.go, pacer.go and collector.go, run by the      *)
(* desktop app through gostman-gui/loadtest.go.  A call of RunLoadTest     *)
(* takes the one slot (loadTestCancel), starts a goroutine per worker and  *)
(* one that reports progress, waits for all of them and returns a report.  *)
(* The workers share three atomics or locked values: the pacer's reserved  *)
(* slots, the number of issued requests and the collector.                 *)
(*                                                                         *)
(* Sending stops with the test's context (StopLoadTest); issuing stops     *)
(* with the duration too.  Time is a count of pacer intervals.             *)
(***************************************************************************)
EXTENDS Naturals, FiniteSets

CONSTANTS
    Tests,       \* names of calls of RunLoadTest
    Workers,     \* bound on the workers of a test
    Suites,      \* the sets of calls that are made, see config
    MaxSends,    \* bound on the requests of a test
    MaxTicks     \* bound on the pacer intervals of a test

(* What matters of a normalized Config.  Config.Normalized gives a test    *)
(* without a limit a duration, and takes the duration of a staged one from *)
(* its stages; workers starts no more workers than there are requests.     *)
Config == {c \in [workers : 1..Workers, requests : 0..MaxSends,
                  isPaced : BOOLEAN, isTimed : BOOLEAN, isStaged : BOOLEAN] :
              /\ c.requests = 0 \/ c.isStaged => c.isTimed
              /\ c.requests # 0 => c.workers <= c.requests}

ASSUME LoadTestAssumption ==
    /\ IsFiniteSet(Tests)
    /\ Workers \in Nat \ {0}
    /\ MaxSends \in Nat
    /\ MaxTicks \in Nat
    /\ Suites \subseteq UNION {[S -> Config] : S \in SUBSET Tests}

VARIABLES
    config,      \* config[t]: the configuration t is called with, if it is called
    slot,        \* loadTestCancel: the test it cancels, at most one
    phase,       \* phase[t]: where RunLoadTest is
    stopped,     \* the tests whose context is cancelled
    expired,     \* the tests whose duration is over
    clock,       \* clock[t]: pacer intervals since the test began
    reserved,    \* reserved[t]: pacer.reserved
    issued,      \* issued[t]: run.issued
    workerAt,          \* workerAt[t][w]: where worker w of test t is
    pass,        \* pass[t][w]: the pacer slot w waits for
    sentCount,        \* sentCount[t]: requests handed to engine.Send (history)
    total,       \* total[t]: the collector's count of samples
    reporter,    \* reporter[t]: the progress goroutine and the count it read
    shownCount,  \* shownCount[t]: the count in the last progress event
    report       \* report[t]: what RunLoadTest returned

workerVars == <<config, reserved, issued, workerAt, pass, sentCount, total>>
guiVars == <<config, slot, phase, stopped, expired, clock, reporter, shownCount, report>>
loadVars == <<config, slot, phase, stopped, expired, clock, reserved, issued, workerAt, pass,
          sentCount, total, reporter, shownCount, report>>

-----------------------------------------------------------------------------
(* The workers of t: execute starts config.workers() goroutines.           *)
W(t) == 1..config[t].workers

TestPhases == {"idle", "running", "reported", "refused", "done"}

Spots == {"unstarted", "ramp", "stage", "claim", "pacing", "waiting",
          "paced", "sending", "answered", "off"}

(* The most requests a test can send.                                      *)
Limit(t) == IF config[t].requests = 0 THEN MaxSends ELSE config[t].requests

Reporters == [at : {"none", "ticking", "read", "finished"}, count : 0..MaxSends]

Reports == {{}} \cup {{r} : r \in [total : 0..MaxSends, isStopped : BOOLEAN]}

LoadInit ==
    /\ config \in Suites
    /\ slot = {}
    /\ phase = [t \in Tests |-> "idle"]
    /\ stopped = {}
    /\ expired = {}
    /\ clock = [t \in Tests |-> 0]
    /\ reserved = [t \in Tests |-> 0]
    /\ issued = [t \in Tests |-> 0]
    /\ workerAt = [t \in Tests |-> [w \in 1..Workers |-> "unstarted"]]
    /\ pass = [t \in Tests |-> [w \in 1..Workers |-> 0]]
    /\ sentCount = [t \in Tests |-> 0]
    /\ total = [t \in Tests |-> 0]
    /\ reporter = [t \in Tests |-> [at |-> "none", count |-> 0]]
    /\ shownCount = [t \in Tests |-> 0]
    /\ report = [t \in Tests |-> {}]

(* The issuing context is done.                                            *)
IsOver(t) == t \in stopped \/ t \in expired

Move(t, w, spot) == workerAt' = [workerAt EXCEPT ![t][w] = spot]

(* A worker starts over: workStaged asks for the target of the moment,     *)
(* work claims at once.                                                    *)
Again(t) == IF config[t].isStaged THEN "stage" ELSE "claim"

-----------------------------------------------------------------------------
(* Faulty variants, each named for its fault; not part of the              *)
(* specification.                                                          *)
RefuseAndEnd(t) ==
    /\ t \in DOMAIN config
    /\ phase[t] = "idle"
    /\ slot # {}
    /\ phase' = [phase EXCEPT ![t] = "refused"]
    /\ slot' = {}
    /\ stopped' = stopped \cup slot
    /\ UNCHANGED <<expired, clock, reporter, shownCount, report>>
    /\ UNCHANGED workerVars

ClaimOneTooMany(t, w) ==
    /\ workerAt[t][w] = "paced"
    /\ issued' = [issued EXCEPT ![t] = @ + 1]
    /\ IF issued[t] <= Limit(t)
       THEN Move(t, w, "sending") /\ sentCount' = [sentCount EXCEPT ![t] = @ + 1]
       ELSE Move(t, w, "off") /\ UNCHANGED sentCount
    /\ UNCHANGED <<reserved, pass, total>>
    /\ UNCHANGED guiVars

ReturnUnlessOver(t, w) ==
    /\ workerAt[t][w] = "sending"
    /\ Move(t, w, IF IsOver(t) THEN Again(t) ELSE "answered")
    /\ UNCHANGED <<reserved, issued, pass, sentCount, total>>
    /\ UNCHANGED guiVars

ReserveTheSameSlot(t, w) ==
    /\ workerAt[t][w] = "claim"
    /\ config[t].isPaced
    /\ pass' = [pass EXCEPT ![t][w] = reserved[t]]
    /\ reserved' = [reserved EXCEPT ![t] = IF w = 1 THEN @ + 1 ELSE @]
    /\ Move(t, w, "pacing")
    /\ UNCHANGED <<issued, sentCount, total>>
    /\ UNCHANGED guiVars

IdleUntilStopped(t, w) ==
    /\ workerAt[t][w] = "stage"
    /\ t \in stopped
    /\ Move(t, w, "off")
    /\ UNCHANGED <<reserved, issued, pass, sentCount, total>>
    /\ UNCHANGED guiVars

-----------------------------------------------------------------------------
(* One call of RunLoadTest, and StopLoadTest.                              *)

(* beginLoadTest finds the slot free, the configuration is valid, and      *)
(* execute starts the workers and the progress goroutine.                  *)
RunLoadTest(t) ==
    /\ t \in DOMAIN config
    /\ phase[t] = "idle"
    /\ slot = {}
    /\ slot' = {t}
    /\ phase' = [phase EXCEPT ![t] = "running"]
    /\ workerAt' = [workerAt EXCEPT ![t] = [w \in 1..Workers |->
          IF w \notin W(t) THEN "unstarted"
          ELSE IF config[t].isStaged THEN "stage" ELSE "ramp"]]
    /\ reporter' = [reporter EXCEPT ![t].at = "ticking"]
    /\ UNCHANGED <<config, stopped, expired, clock, shownCount, report>>
    /\ UNCHANGED <<reserved, issued, pass, sentCount, total>>

(* loadtest.Run refuses the configuration or the request; endLoadTest is   *)
(* deferred already.                                                       *)
Reject(t) ==
    /\ t \in DOMAIN config
    /\ phase[t] = "idle"
    /\ slot = {}
    /\ slot' = {t}
    /\ phase' = [phase EXCEPT ![t] = "reported"]
    /\ UNCHANGED <<stopped, expired, clock, reporter, shownCount, report>>
    /\ UNCHANGED workerVars

(* A second test is refused: only its own context is cancelled, and        *)
(* endLoadTest is not yet deferred.                                        *)
Refuse(t) ==
    /\ t \in DOMAIN config
    /\ phase[t] = "idle"
    /\ slot # {}
    /\ phase' = [phase EXCEPT ![t] = "refused"]
    /\ UNCHANGED <<slot, stopped, expired, clock, reporter, shownCount, report>>
    /\ UNCHANGED workerVars

StopLoadTest ==
    /\ slot # {}
    /\ stopped' = stopped \cup slot
    /\ UNCHANGED <<slot, phase, expired, clock, reporter, shownCount, report>>
    /\ UNCHANGED workerVars

(* The timer of issuingContext.                                            *)
Expire(t) ==
    /\ phase[t] = "running"
    /\ config[t].isTimed
    /\ t \notin expired
    /\ expired' = expired \cup {t}
    /\ UNCHANGED <<slot, phase, stopped, clock, reporter, shownCount, report>>
    /\ UNCHANGED workerVars

Tick(t) ==
    /\ phase[t] = "running"
    /\ config[t].isPaced
    /\ clock[t] < MaxTicks
    /\ clock' = [clock EXCEPT ![t] = @ + 1]
    /\ UNCHANGED <<slot, phase, stopped, expired, reporter, shownCount, report>>
    /\ UNCHANGED workerVars

(* workers.Wait returns and finished is closed; reporting.Wait waits for   *)
(* the progress goroutine; then the collector reports and the context      *)
(* tells whether the test was stopped.                                     *)
Finish(t) ==
    /\ phase[t] = "running"
    /\ \A w \in W(t) : workerAt[t][w] = "off"
    /\ reporter[t].at = "finished"
    /\ report' = [report EXCEPT ![t] = {[total |-> total[t], isStopped |-> t \in stopped]}]
    /\ phase' = [phase EXCEPT ![t] = "reported"]
    /\ UNCHANGED <<slot, stopped, expired, clock, reporter, shownCount>>
    /\ UNCHANGED workerVars

(* endLoadTest, deferred: cancels and empties the slot, whoever's it is.   *)
EndLoadTest(t) ==
    /\ phase[t] = "reported"
    /\ phase' = [phase EXCEPT ![t] = "done"]
    /\ stopped' = stopped \cup slot
    /\ slot' = {}
    /\ UNCHANGED <<expired, clock, reporter, shownCount, report>>
    /\ UNCHANGED workerVars

-----------------------------------------------------------------------------
(* The progress goroutine, run.report: a tick reads the collector, then    *)
(* the event is emitted; finished ends it between two ticks.               *)
ReadProgress(t) ==
    /\ reporter[t].at = "ticking"
    /\ reporter' = [reporter EXCEPT ![t] = [at |-> "read", count |-> total[t]]]
    /\ UNCHANGED <<slot, phase, stopped, expired, clock, shownCount, report>>
    /\ UNCHANGED workerVars

EmitProgress(t) ==
    /\ reporter[t].at = "read"
    /\ shownCount' = [shownCount EXCEPT ![t] = reporter[t].count]
    /\ reporter' = [reporter EXCEPT ![t].at = "ticking"]
    /\ UNCHANGED <<slot, phase, stopped, expired, clock, report>>
    /\ UNCHANGED workerVars

EndProgress(t) ==
    /\ reporter[t].at = "ticking"
    /\ \A w \in W(t) : workerAt[t][w] = "off"
    /\ reporter' = [reporter EXCEPT ![t].at = "finished"]
    /\ UNCHANGED <<slot, phase, stopped, expired, clock, shownCount, report>>
    /\ UNCHANGED workerVars

-----------------------------------------------------------------------------
(* A worker: work or workStaged, claim, pacer.wait and send.               *)

(* pause over the ramp delay, which is zero for the first worker: then     *)
(* only the context is asked.  Otherwise, when the timer and the context   *)
(* are both ready, the select takes either.                                *)
Ramp(t, w) ==
    /\ workerAt[t][w] = "ramp"
    /\ \/ (w # 1 \/ ~IsOver(t)) /\ Move(t, w, "claim")
       \/ IsOver(t) /\ Move(t, w, "off")
    /\ UNCHANGED <<reserved, issued, pass, sentCount, total>>
    /\ UNCHANGED guiVars

(* workStaged finds the worker below the target of the moment.             *)
Join(t, w) ==
    /\ workerAt[t][w] = "stage"
    /\ ~IsOver(t)
    /\ Move(t, w, "claim")
    /\ UNCHANGED <<reserved, issued, pass, sentCount, total>>
    /\ UNCHANGED guiVars

(* A worker above the target polls until the issuing context is done.      *)
LeaveStages(t, w) ==
    /\ workerAt[t][w] = "stage"
    /\ IsOver(t)
    /\ Move(t, w, "off")
    /\ UNCHANGED <<reserved, issued, pass, sentCount, total>>
    /\ UNCHANGED guiVars

(* pacer.wait without a rate only looks at the context ...                 *)
PassUnpaced(t, w) ==
    /\ workerAt[t][w] = "claim"
    /\ ~config[t].isPaced
    /\ Move(t, w, IF IsOver(t) THEN "off" ELSE "paced")
    /\ UNCHANGED <<reserved, issued, pass, sentCount, total>>
    /\ UNCHANGED guiVars

(* ... and with one reserves the next slot first.                          *)
Reserve(t, w) ==
    /\ workerAt[t][w] = "claim"
    /\ config[t].isPaced
    /\ pass' = [pass EXCEPT ![t][w] = reserved[t]]
    /\ reserved' = [reserved EXCEPT ![t] = @ + 1]
    /\ Move(t, w, "pacing")
    /\ UNCHANGED <<issued, sentCount, total>>
    /\ UNCHANGED guiVars

(* pause until the slot: one whose time has come only asks the context ... *)
Pace(t, w) ==
    /\ workerAt[t][w] = "pacing"
    /\ IF pass[t][w] > clock[t] THEN Move(t, w, "waiting")
       ELSE Move(t, w, IF IsOver(t) THEN "off" ELSE "paced")
    /\ UNCHANGED <<reserved, issued, pass, sentCount, total>>
    /\ UNCHANGED guiVars

(* ... and one still to come is waited for.                                *)
Await(t, w) ==
    /\ workerAt[t][w] = "waiting"
    /\ \/ pass[t][w] <= clock[t] /\ Move(t, w, "paced")
       \/ IsOver(t) /\ Move(t, w, "off")
    /\ UNCHANGED <<reserved, issued, pass, sentCount, total>>
    /\ UNCHANGED guiVars

(* claim: one more request is issued unless the limit is reached.  (When   *)
(* there is none the code does not count; the model counts to its bound.)  *)
Claim(t, w) ==
    /\ workerAt[t][w] = "paced"
    /\ issued' = [issued EXCEPT ![t] = @ + 1]
    /\ IF issued[t] < Limit(t)
       THEN Move(t, w, "sending") /\ sentCount' = [sentCount EXCEPT ![t] = @ + 1]
       ELSE Move(t, w, "off") /\ UNCHANGED sentCount
    /\ UNCHANGED <<reserved, pass, total>>
    /\ UNCHANGED guiVars

(* engine.Send returns with a response or an error; once the test is       *)
(* stopped the outcome is thrown away.                                     *)
SendReturns(t, w) ==
    /\ workerAt[t][w] = "sending"
    /\ Move(t, w, IF t \in stopped THEN Again(t) ELSE "answered")
    /\ UNCHANGED <<reserved, issued, pass, sentCount, total>>
    /\ UNCHANGED guiVars

Record(t, w) ==
    /\ workerAt[t][w] = "answered"
    /\ total' = [total EXCEPT ![t] = @ + 1]
    /\ Move(t, w, Again(t))
    /\ UNCHANGED <<reserved, issued, pass, sentCount>>
    /\ UNCHANGED guiVars

Work(t, w) == \/ Ramp(t, w) \/ Join(t, w) \/ LeaveStages(t, w)
              \/ PassUnpaced(t, w) \/ Reserve(t, w) \/ Pace(t, w) \/ Await(t, w)
              \/ Claim(t, w) \/ SendReturns(t, w) \/ Record(t, w)

Main(t) == RunLoadTest(t) \/ Reject(t) \/ Refuse(t) \/ Finish(t) \/ EndLoadTest(t)

Report(t) == ReadProgress(t) \/ EmitProgress(t) \/ EndProgress(t)

AllReturned == \A t \in DOMAIN config : phase[t] \in {"refused", "done"}

(* When every call has returned nothing is left to do.                     *)
Rest == AllReturned /\ UNCHANGED loadVars

LoadNext ==
    \/ \E t \in Tests : \/ Main(t) \/ Report(t) \/ Expire(t) \/ Tick(t)
                        \/ \E w \in 1..Workers : Work(t, w)
    \/ StopLoadTest
    \/ Rest

(* Goroutines that can go on do, time passes and engine.Send returns (its  *)
(* policy has a timeout).  No worker need ever be below the target of its  *)
(* stage, nobody need press Stop, and the progress goroutine's select may  *)
(* prefer a ready ticker to finished, but not for ever.                    *)
LoadFairness ==
    \A t \in Tests :
        /\ WF_loadVars(Finish(t) \/ EndLoadTest(t))
        /\ WF_loadVars(EmitProgress(t)) /\ SF_loadVars(EndProgress(t))
        /\ WF_loadVars(Expire(t)) /\ WF_loadVars(Tick(t))
        /\ \A w \in 1..Workers : WF_loadVars(\/ Ramp(t, w) \/ LeaveStages(t, w)
                                \/ PassUnpaced(t, w) \/ Reserve(t, w)
                                \/ Pace(t, w) \/ Await(t, w) \/ Claim(t, w)
                                \/ SendReturns(t, w) \/ Record(t, w))

LoadSpec == LoadInit /\ [][LoadNext]_loadVars /\ LoadFairness

-----------------------------------------------------------------------------
LoadTypeOK ==
    /\ config \in Suites
    /\ slot \in SUBSET Tests
    /\ phase \in [Tests -> TestPhases]
    /\ stopped \in SUBSET Tests
    /\ expired \in SUBSET Tests
    /\ clock \in [Tests -> 0..MaxTicks]
    /\ reserved \in [Tests -> Nat]
    /\ issued \in [Tests -> Nat]
    /\ workerAt \in [Tests -> [1..Workers -> Spots]]
    /\ pass \in [Tests -> [1..Workers -> Nat]]
    /\ sentCount \in [Tests -> Nat]
    /\ total \in [Tests -> 0..MaxSends]
    /\ reporter \in [Tests -> Reporters]
    /\ shownCount \in [Tests -> 0..MaxSends]
    /\ report \in [Tests -> Reports]

(* However many workers claim at once, a test sends no more requests than  *)
(* its configuration asks for (claim: issued.Add(1) <= limit).             *)
LimitIsKept == \A t \in DOMAIN config : sentCount[t] <= Limit(t)

(* One load test at a time: the slot is that of the test whose call has    *)
(* not returned, so StopLoadTest reaches the running test and no other,    *)
(* and a refused call disturbs nothing.                                    *)
OneTestAtATime == slot = {t \in Tests : phase[t] \in {"running", "reported"}}
                  /\ Cardinality(slot) <= 1

(* A report that does not say "stopped" is complete: every request that    *)
(* was sent is counted, those in flight when the duration ended included,  *)
(* and a test without a duration has sent all it was asked for.  Progress  *)
(* never runs ahead of a report and none follows it: when the report is    *)
(* there the progress goroutine is gone and no event has shown more        *)
(* requests than the report counts.                                        *)
ReportIsComplete ==
    \A t \in Tests : \A r \in report[t] :
        /\ ~r.isStopped => /\ r.total = sentCount[t]
                           /\ ~config[t].isTimed => r.total = config[t].requests
        /\ reporter[t].at = "finished" /\ shownCount[t] <= r.total

(* The rate cap holds at every moment, for all workers together: k         *)
(* intervals into the test at most k + 1 requests have been sent.          *)
RateIsKept ==
    \A t \in DOMAIN config : config[t].isPaced => sentCount[t] <= clock[t] + 1

(* A test that was begun ends, at its limit, its duration or Stop.         *)
TestsEnd == \A t \in Tests : phase[t] = "running" ~> phase[t] = "done"
=============================================================================
