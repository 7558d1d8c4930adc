------------------------------- MODULE Monitors -------------------------------
(***************************************************************************)
(* Monitors of the interface (lib/monitors/monitorSession.js): timers, a   *)
(* queue of runs, the history that is kept for each workspace, what is     *)
(* announced, and the environment a run switches on.                       *)
(*                                                                         *)
(* What a run does is its verdict.  A record is [monitor, passed].  The    *)
(* monitors shown are always those stored for the workspace, as both       *)
(* change together.  Data files, drafts in the dialog and failures shown   *)
(* are left out.                                                           *)
(***************************************************************************)
EXTENDS Naturals, SequencesExt

CONSTANTS Spaces,          \* workspaces
          Definitions,     \* the monitors at the start: their workspaces and environments
          Chosen,          \* the environment chosen in each workspace at the start
          Retention,       \* RETENTION
          MonitorBudgets   \* bounds: how often things happen

NoEnvironment == "in use"
Environments == {NoEnvironment} \cup {Chosen[w] : w \in Spaces} \cup {Definitions[id].environment : id \in DOMAIN Definitions}

ASSUME MonitorsAssumption ==
  /\ Retention \in Nat \ {0}
  /\ Chosen \in [Spaces -> Environments]
  /\ Definitions \in [DOMAIN Definitions -> [home : Spaces, environment : Environments, isPaused : BOOLEAN]]

NoRun == [phase |-> "none"]

VARIABLES
  space,          \* workspaceStatus.path
  monitors,       \* the monitors by id: [home, environment, isPaused], in every workspace's storage
  timers,         \* monitors whose timer is set
  runQueue,       \* the chain of runs: [id, isTimer]
  monitorRun,     \* perform under way
  histories,      \* the histories shown
  runsKept,       \* the records kept, by workspace
  reads,          \* history.runs of adopt under way
  removing,       \* monitors whose address is being removed
  environment,    \* the environment in use
  chosen,         \* ghost: the one the user chose, by workspace
  lastVerdict,    \* ghost: how the last kept run of a monitor went
  announcement,   \* what the last run announced, and what it should have
  allowance,      \* what is left of the bounds
  excused         \* ghost: parts the code does not protect that have been hit

moVars == <<space, monitors, timers, runQueue, monitorRun, histories, runsKept, reads, removing, environment, chosen,
            lastVerdict, announcement, allowance, excused>>

Here(w) == {id \in DOMAIN monitors : monitors[id].home = w}
Due(w) == {id \in Here(w) : ~monitors[id].isPaused}
Of(id, kept) ==
  LET From[i \in 0..Len(kept)] ==
        IF i = 0 THEN <<>> ELSE IF kept[i].monitor = id THEN Append(From[i - 1], kept[i]) ELSE From[i - 1]
  IN  From[Len(kept)]
LastOf(s, n) == SubSeq(s, IF Len(s) > n THEN Len(s) - n + 1 ELSE 1, Len(s))

SpendAllowance(k) == allowance[k] > 0 /\ allowance' = [allowance EXCEPT ![k] = @ - 1]

Read(w) == [scope |-> w, ids |-> Here(w), isServed |-> FALSE, got |-> <<>>]

MoInit ==
  /\ space \in Spaces /\ monitors = Definitions /\ chosen = Chosen /\ environment = Chosen[space]
  /\ timers = {id \in DOMAIN Definitions : Definitions[id].home = space /\ ~Definitions[id].isPaused}
  /\ runQueue = <<>> /\ monitorRun = NoRun /\ removing = {}
  /\ histories = <<>> /\ runsKept = [w \in Spaces |-> <<>>]
  /\ reads = <<[scope |-> space, ids |-> {id \in DOMAIN Definitions : Definitions[id].home = space},
                isServed |-> FALSE, got |-> <<>>]>>
  /\ lastVerdict = [id \in DOMAIN Definitions |-> "none"]
  /\ announcement = [is |-> FALSE, should |-> FALSE]
  /\ allowance \in MonitorBudgets /\ excused = {}

-----------------------------------------------------------------------------
(* Timers and the queue *)

\* Faulty: the timer is not set again after a run.
ScheduleNever(id) == timers

\* schedule, after a run: only monitors of this workspace are known, and paused ones wait
Schedule(id) == IF id \in Due(space) THEN timers \cup {id} ELSE timers \ {id}

\* the timer fires: runNow, and schedule afterwards
TimerFires(id) ==
  /\ id \in timers /\ SpendAllowance("runs")
  /\ timers' = timers \ {id}
  /\ runQueue' = Append(runQueue, [id |-> id, isTimer |-> TRUE])
  /\ UNCHANGED <<space, monitors, monitorRun, histories, runsKept, reads, removing, environment, chosen, lastVerdict,
                 announcement, excused>>

RunNow(id) ==
  /\ id \in Here(space) /\ SpendAllowance("runs")
  /\ runQueue' = Append(runQueue, [id |-> id, isTimer |-> FALSE])
  /\ UNCHANGED <<space, monitors, timers, monitorRun, histories, runsKept, reads, removing, environment, chosen,
                 lastVerdict, announcement, excused>>

\* after perform: the timer of a run that a timer began is set again
AfterRun(entry) == timers' = IF entry.isTimer THEN Schedule(entry.id) ELSE timers

\* perform: a monitor that is gone does not run; useEnvironment
BeginRun ==
  /\ monitorRun = NoRun /\ runQueue # <<>>
  /\ LET entry == Head(runQueue) IN
     /\ runQueue' = Tail(runQueue)
     /\ \/ /\ entry.id \notin Here(space) /\ AfterRun(entry)
           /\ UNCHANGED <<monitorRun, environment>>
        \/ /\ entry.id \in Here(space) /\ UNCHANGED timers
           /\ monitorRun' = [phase |-> "running", entry |-> entry, before |-> environment,
                             wanted |-> monitors[entry.id].environment, started |-> space]
           /\ environment' = IF monitors[entry.id].environment = NoEnvironment THEN environment
                             ELSE monitors[entry.id].environment
  /\ UNCHANGED <<space, monitors, histories, runsKept, reads, removing, chosen, lastVerdict, announcement, allowance,
                 excused>>

\* Faulty: the environment is put back only when the run succeeded.
RestoreOnSuccess(isDone) ==
  IF ~isDone \/ monitorRun.wanted = NoEnvironment THEN environment ELSE monitorRun.before

\* the finally of execution
Restore(isDone) == IF monitorRun.wanted = NoEnvironment THEN environment ELSE monitorRun.before

Previous(id) == IF id \in DOMAIN histories /\ histories[id] # <<>> THEN Last(histories[id]).passed ELSE TRUE

\* execution returns: the verdict, and history.save is called for the workspace of now
RunEnds(passed) ==
  /\ monitorRun.phase = "running"
  /\ environment' = Restore(TRUE)
  /\ monitorRun' = [phase |-> "saving", entry |-> monitorRun.entry, passed |-> passed, scope |-> space,
                    hadPassed |-> Previous(monitorRun.entry.id), isServed |-> FALSE]
  /\ excused' = excused \cup (IF reads # <<>> THEN {"history"} ELSE {})
                        \cup (IF monitorRun.started # space THEN {"history"} ELSE {})
  /\ UNCHANGED <<space, monitors, timers, runQueue, histories, runsKept, reads, removing, chosen, lastVerdict, announcement,
                 allowance>>

\* execution throws
RunBreaks ==
  /\ monitorRun.phase = "running"
  /\ environment' = Restore(FALSE)
  /\ AfterRun(monitorRun.entry) /\ monitorRun' = NoRun
  /\ UNCHANGED <<space, monitors, runQueue, histories, runsKept, reads, removing, chosen, lastVerdict, announcement,
                 allowance, excused>>

\* the record is kept; the oldest of the workspace goes
KeepRecord ==
  /\ monitorRun.phase = "saving" /\ ~monitorRun.isServed
  /\ LET id == monitorRun.entry.id IN
     /\ runsKept' = [runsKept EXCEPT ![monitorRun.scope] =
                       LastOf(Append(@, [monitor |-> id, passed |-> monitorRun.passed]), Retention)]
     /\ lastVerdict' = [lastVerdict EXCEPT ![id] = IF monitorRun.passed THEN "passed" ELSE "failed"]
     /\ monitorRun' = [monitorRun EXCEPT !.isServed = TRUE]
     /\ announcement' = [is |-> FALSE, should |-> IF monitorRun.passed THEN lastVerdict[id] = "failed"
                                               ELSE lastVerdict[id] # "failed"]
  /\ UNCHANGED <<space, monitors, timers, runQueue, histories, reads, removing, environment, chosen, allowance, excused>>

\* history.save fails: nothing is shown or announced
KeepFails ==
  /\ monitorRun.phase = "saving" /\ ~monitorRun.isServed
  /\ AfterRun(monitorRun.entry) /\ monitorRun' = NoRun
  /\ UNCHANGED <<space, monitors, runQueue, histories, runsKept, reads, removing, environment, chosen, lastVerdict,
                 announcement, allowance, excused>>

\* Faulty: a failure is announced each time.
AnnouncesAll(passed, hadPassed) == ~passed \/ ~hadPassed

\* announce: only a change
Announces(passed, hadPassed) == passed # hadPassed

\* history.save returns: the history shown, and announce
RunIsKept ==
  /\ monitorRun.phase = "saving" /\ monitorRun.isServed
  /\ LET id == monitorRun.entry.id
         shown == IF id \in DOMAIN histories THEN histories[id] ELSE <<>>
         longer == LastOf(Append(shown, [monitor |-> id, passed |-> monitorRun.passed]), Retention)
     IN  /\ histories' = [m \in DOMAIN histories \cup {id} |-> IF m = id THEN longer ELSE histories[m]]
         /\ announcement' = [announcement EXCEPT !.is = Announces(monitorRun.passed, monitorRun.hadPassed)]
  /\ monitorRun' = [phase |-> "announcing", entry |-> monitorRun.entry]
  /\ UNCHANGED <<space, monitors, timers, runQueue, runsKept, reads, removing, environment, chosen, lastVerdict, allowance>>
  /\ excused' = excused \cup IF reads # <<>> THEN {"history"} ELSE {}

\* the webhook has been called, with or without success
RunIsOver ==
  /\ monitorRun.phase = "announcing"
  /\ AfterRun(monitorRun.entry) /\ monitorRun' = NoRun
  /\ UNCHANGED <<space, monitors, runQueue, histories, runsKept, reads, removing, environment, chosen, lastVerdict,
                 announcement, allowance, excused>>

-----------------------------------------------------------------------------
(* Workspaces *)

\* adopt, called when the workspace changes; a run under way goes on
EnterSpace(w) ==
  /\ w # space /\ SpendAllowance("switches")
  /\ space' = w /\ timers' = Due(w) /\ histories' = <<>>
  /\ reads' = Append(reads, Read(w))
  /\ environment' = chosen[w]
  /\ excused' = excused
       \cup (IF monitorRun.phase = "running" /\ monitorRun.wanted # NoEnvironment THEN {"environment"} ELSE {})
       \cup (IF monitorRun # NoRun \/ reads # <<>> THEN {"history"} ELSE {})
  /\ UNCHANGED <<monitors, runQueue, monitorRun, runsKept, removing, chosen, lastVerdict, announcement>>

\* history.runs; one that fails is taken for an empty history, whatever is kept
ServeRead(i) ==
  /\ i \in DOMAIN reads /\ ~reads[i].isServed
  /\ LET kept == runsKept[reads[i].scope] IN
     \E got \in {kept, <<>>} :
       /\ reads' = [reads EXCEPT ![i].isServed = TRUE, ![i].got = got]
       /\ excused' = excused \cup IF got # kept THEN {"history"} ELSE {}
  /\ UNCHANGED <<space, monitors, timers, runQueue, monitorRun, histories, runsKept, removing, environment, chosen,
                 lastVerdict, announcement, allowance>>

HistoriesOf(read) == [id \in read.ids |-> Of(id, read.got)]

\* The records of a workspace share its Retention: runs of other monitors have pushed out
\* the failure of one that now begins without a history.
FailureIsForgotten(read) == \E id \in read.ids : Of(id, read.got) = <<>> /\ lastVerdict[id] = "failed"

\* the end of adopt, for the monitors it was called with
AdoptHistories(i) ==
  /\ i \in DOMAIN reads /\ reads[i].isServed
  /\ histories' = HistoriesOf(reads[i])
  /\ reads' = RemoveAt(reads, i)
  /\ excused' = excused \cup IF FailureIsForgotten(reads[i]) THEN {"history"} ELSE {}
  /\ UNCHANGED <<space, monitors, timers, runQueue, monitorRun, runsKept, removing, environment, chosen, lastVerdict,
                 announcement, allowance>>

\* the program is closed and started again; the environment in use is kept
RestartApp ==
  /\ SpendAllowance("restarts")
  /\ timers' = Due(space) /\ runQueue' = <<>> /\ monitorRun' = NoRun /\ removing' = {}
  /\ histories' = <<>> /\ reads' = <<Read(space)>>
  /\ announcement' = [is |-> FALSE, should |-> FALSE]
  /\ excused' = excused
       \cup (IF monitorRun.phase = "running" /\ monitorRun.wanted # NoEnvironment THEN {"environment"} ELSE {})
       \cup (IF monitorRun # NoRun THEN {"history"} ELSE {})
  /\ UNCHANGED <<space, monitors, runsKept, environment, chosen, lastVerdict>>

-----------------------------------------------------------------------------
(* The user *)

ChooseEnvironment(e) ==
  /\ e # environment /\ SpendAllowance("choices")
  /\ environment' = e /\ chosen' = [chosen EXCEPT ![space] = e]
  /\ excused' = excused \cup IF monitorRun.phase = "running" /\ monitorRun.wanted # NoEnvironment
                             THEN {"environment"} ELSE {}
  /\ UNCHANGED <<space, monitors, timers, runQueue, monitorRun, histories, runsKept, reads, removing, lastVerdict,
                 announcement>>

TogglePause(id) ==
  /\ id \in Here(space) \ removing /\ SpendAllowance("edits")
  /\ monitors' = [monitors EXCEPT ![id].isPaused = ~@]
  /\ timers' = IF monitors[id].isPaused THEN timers \cup {id} ELSE timers \ {id}
  /\ UNCHANGED <<space, runQueue, monitorRun, histories, runsKept, reads, removing, environment, chosen, lastVerdict,
                 announcement, excused>>

\* save of a monitor that was edited
SaveMonitor(id, e) ==
  /\ id \in Here(space) \ removing /\ e # monitors[id].environment /\ SpendAllowance("edits")
  /\ monitors' = [monitors EXCEPT ![id].environment = e]
  /\ timers' = Schedule(id)
  /\ UNCHANGED <<space, runQueue, monitorRun, histories, runsKept, reads, removing, environment, chosen, lastVerdict,
                 announcement, excused>>

\* remove: the timer goes first, the monitor when its address is gone
RemoveMonitor(id) ==
  /\ id \in Here(space) \ removing /\ SpendAllowance("edits")
  /\ timers' = timers \ {id} /\ removing' = removing \cup {id}
  /\ UNCHANGED <<space, monitors, runQueue, monitorRun, histories, runsKept, reads, environment, chosen, lastVerdict,
                 announcement, excused>>

\* commit stores the monitors of the workspace of now: one of another workspace stays
RemoveReturns(id) ==
  /\ id \in removing /\ removing' = removing \ {id}
  /\ IF monitors[id].home # space THEN UNCHANGED <<monitors, histories>>
     ELSE /\ monitors' = [m \in DOMAIN monitors \ {id} |-> monitors[m]]
          /\ histories' = [m \in DOMAIN histories \ {id} |-> histories[m]]
  /\ UNCHANGED <<space, timers, runQueue, monitorRun, runsKept, reads, environment, chosen, lastVerdict, announcement,
                 allowance, excused>>

MoNext ==
  \/ \E id \in DOMAIN monitors :
       \/ TimerFires(id) \/ RunNow(id) \/ TogglePause(id) \/ RemoveMonitor(id) \/ RemoveReturns(id)
       \/ \E w \in Spaces : SaveMonitor(id, chosen[w])
  \/ BeginRun \/ (\E passed \in BOOLEAN : RunEnds(passed)) \/ RunBreaks
  \/ KeepRecord \/ KeepFails \/ RunIsKept \/ RunIsOver
  \/ \E w \in Spaces : EnterSpace(w) \/ ChooseEnvironment(Chosen[w])
  \/ \E i \in DOMAIN reads : ServeRead(i) \/ AdoptHistories(i)
  \/ RestartApp

MoSpec == MoInit /\ [][MoNext]_moVars

-----------------------------------------------------------------------------
(* Properties *)

\* docs/runner-load-and-scan.md: a monitor "runs a folder or a flow on a timer": each monitor
\* of the workspace that is not paused and not being removed has a timer or is in the queue
\* because of one, however often it was edited, paused, run by hand or left behind by a
\* change of the workspace.
EveryMonitorIsDue ==
  \A id \in Due(space) \ removing :
    \/ id \in timers
    \/ \E i \in DOMAIN runQueue : runQueue[i] = [id |-> id, isTimer |-> TRUE]
    \/ monitorRun # NoRun /\ monitorRun.entry = [id |-> id, isTimer |-> TRUE]

\* docs/runner-load-and-scan.md: the environment of a monitor is "switched on only for the
\* run": between runs the one the user chose is in use, also after runs that broke; excepted
\* are choices, changes of the workspace and restarts during such a run.
ChoiceStands ==
  monitorRun.phase # "running" => environment = chosen[space] \/ "environment" \in excused

\* docs/runner-load-and-scan.md: "when a run starts failing and when it passes again": the
\* history shown ends as the records kept do and a run announces a change and nothing else,
\* as long as no history was being read and the workspace did not change around a run, no
\* history was read after runs of other monitors had pushed out a failure (webMonitors), and
\* no read failed where records are kept: adopt takes that for an empty history, so that a
\* failure is announced again and a recovery is not.
HistoryIsTold ==
  "history" \notin excused =>
    /\ (monitorRun.phase = "announcing" /\ monitorRun.entry.id \in Here(space)) => announcement.is = announcement.should
    /\ (reads = <<>> /\ monitorRun.phase # "saving") =>
         \A id \in DOMAIN histories \cap Here(space) : IsSuffix(Of(id, runsKept[space]), histories[id])

=============================================================================
