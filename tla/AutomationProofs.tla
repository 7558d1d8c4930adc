-------------------------- MODULE AutomationProofs --------------------------
(***************************************************************************)
(* Proofs about what runs on its own, for any workspaces, monitors, limits *)
(* and budgets.  The monitors: every timer is set again, a run leaves the  *)
(* user's choice of environment alone, and the history shown ends with the *)
(* records that are kept.  The collection runner, for any plans and any    *)
(* number of rows, requests and lanes: a request is sent with its row,     *)
(* rows are withdrawn, and every request of a run is told.                 *)
(***************************************************************************)
EXTENDS Monitors, Runner, FiniteSetTheorems, SequenceTheorems, WellFoundedInduction, TLAPS

-----------------------------------------------------------------------------
(* Sequences *)

\* every non-empty set of natural numbers has a least element
LEMMA LeastNumber ==
  ASSUME NEW T \in SUBSET Nat, T # {}
  PROVE  \E n \in T : \A m \in T : n <= m
<1> DEFINE R == {ss \in Nat \X Nat : ss[1] < ss[2]}
<1>1. IsWellFoundedOn(R, Nat)
  BY NatLessThanWellFounded DEF OpToRel
<1> HIDE DEF R
<1>2. PICK n \in T : \A m \in T : ~(<<m, n>> \in R)
  BY <1>1, WFMin
<1>3. ASSUME NEW m \in T PROVE n <= m
  <2>1. m \in Nat /\ n \in Nat OBVIOUS
  <2>2. ~(m < n) BY <1>2, <2>1 DEF R
  <2> QED BY <2>1, <2>2
<1> QED BY <1>3

-----------------------------------------------------------------------------
(* The monitors: timers and the environment in use *)

Ids == DOMAIN Definitions
Definition == [home : Spaces, environment : Environments, isPaused : BOOLEAN]
Entry == [id : Ids, isTimer : BOOLEAN]

\* perform, by how far it has come
RunIsFormed ==
  \/ monitorRun = NoRun
  \/ monitorRun.phase = "running" /\ monitorRun.entry \in Entry
  \/ monitorRun.phase = "announcing" /\ monitorRun.entry \in Entry
  \/ /\ monitorRun.entry \in Entry
     /\ monitorRun = [phase |-> "saving", entry |-> monitorRun.entry, passed |-> monitorRun.passed,
                      scope |-> monitorRun.scope, hadPassed |-> monitorRun.hadPassed,
                      isServed |-> monitorRun.isServed]

MonitorTypes ==
  /\ space \in Spaces
  /\ DOMAIN monitors \subseteq Ids
  /\ monitors \in [DOMAIN monitors -> Definition]
  /\ runQueue \in Seq(Entry)
  /\ RunIsFormed
  /\ chosen \in [Spaces -> Environments]

-----------------------------------------------------------------------------
(* Types *)

LEMMA DefinitionsAreKnown ==
  /\ Definitions \in [Ids -> Definition]
  /\ Chosen \in [Spaces -> Environments]
BY MonitorsAssumption DEF Ids, Definition

LEMMA InitTypes == MoInit => MonitorTypes
BY DefinitionsAreKnown DEF MoInit, MonitorTypes, RunIsFormed, Ids

LEMMA BeginRunKeepsTypes ==
  ASSUME MonitorTypes, BeginRun
  PROVE  MonitorTypes'
<1> DEFINE entry == Head(runQueue)
<1>1. entry \in Entry /\ runQueue' \in Seq(Entry)
  BY DEF MonitorTypes, BeginRun
<1>2. RunIsFormed'
  <2>1. CASE UNCHANGED monitorRun
    BY <2>1 DEF MonitorTypes, RunIsFormed
  <2>2. CASE monitorRun' = [phase |-> "running", entry |-> entry, before |-> environment,
                            wanted |-> monitors[entry.id].environment, started |-> space]
    BY <1>1, <2>2 DEF RunIsFormed
  <2> QED BY <2>1, <2>2 DEF BeginRun
<1> QED BY <1>1, <1>2 DEF MonitorTypes, BeginRun

LEMMA RunKeepsTypes ==
  ASSUME MonitorTypes,
         \/ \E passed \in BOOLEAN : RunEnds(passed)
         \/ RunBreaks \/ KeepRecord \/ KeepFails \/ RunIsKept \/ RunIsOver
  PROVE  MonitorTypes'
<1>1. RunIsFormed'
  <2>1. CASE \E passed \in BOOLEAN : RunEnds(passed)
    <3> PICK passed \in BOOLEAN : RunEnds(passed)
      BY <2>1
    <3>1. monitorRun.phase = "running"
      BY DEF RunEnds
    <3>2. monitorRun.entry \in Entry
      BY <3>1 DEF MonitorTypes, RunIsFormed, NoRun
    <3> DEFINE had == Previous(monitorRun.entry.id)
    <3>3. monitorRun' = [phase |-> "saving", entry |-> monitorRun.entry, passed |-> passed,
                         scope |-> space, hadPassed |-> had, isServed |-> FALSE]
      BY DEF RunEnds
    <3> HIDE DEF had
    <3> QED BY <3>2, <3>3 DEF RunIsFormed
  <2>2. CASE KeepRecord
    <3>1. monitorRun.phase = "saving" /\ monitorRun' = [monitorRun EXCEPT !.isServed = TRUE]
      BY <2>2 DEF KeepRecord
    <3> QED BY <3>1 DEF MonitorTypes, RunIsFormed, NoRun
  <2>3. CASE RunIsKept
    BY <2>3 DEF RunIsKept, MonitorTypes, RunIsFormed, NoRun
  <2>4. CASE RunBreaks \/ KeepFails \/ RunIsOver
    BY <2>4 DEF RunBreaks, KeepFails, RunIsOver, RunIsFormed
  <2> QED BY <2>1, <2>2, <2>3, <2>4
<1>2. UNCHANGED <<space, monitors, runQueue, chosen>>
  BY DEF RunEnds, RunBreaks, KeepRecord, KeepFails, RunIsKept, RunIsOver
<1> QED BY <1>1, <1>2 DEF MonitorTypes

LEMMA EditsKeepTypes ==
  ASSUME MonitorTypes, NEW id \in DOMAIN monitors,
         \/ TogglePause(id) \/ RemoveMonitor(id) \/ RemoveReturns(id)
         \/ \E w \in Spaces : SaveMonitor(id, chosen[w])
  PROVE  MonitorTypes'
<1>1. DOMAIN monitors' \subseteq Ids /\ monitors' \in [DOMAIN monitors' -> Definition]
  <2>1. CASE TogglePause(id)
    <3>1. monitors' = [monitors EXCEPT ![id] = [monitors[id] EXCEPT !.isPaused = ~monitors[id].isPaused]]
      BY <2>1 DEF TogglePause
    <3>2. monitors[id] \in Definition
      BY DEF MonitorTypes
    <3>3. [monitors[id] EXCEPT !.isPaused = ~monitors[id].isPaused] \in Definition
      BY <3>2 DEF Definition
    <3> QED BY <3>1, <3>3 DEF MonitorTypes
  <2>2. CASE \E w \in Spaces : SaveMonitor(id, chosen[w])
    <3> PICK w \in Spaces : SaveMonitor(id, chosen[w])
      BY <2>2
    <3>1. monitors' = [monitors EXCEPT ![id] = [monitors[id] EXCEPT !.environment = chosen[w]]]
      BY DEF SaveMonitor
    <3>2. monitors[id] \in Definition /\ chosen[w] \in Environments
      BY DEF MonitorTypes
    <3>3. [monitors[id] EXCEPT !.environment = chosen[w]] \in Definition
      BY <3>2 DEF Definition
    <3> QED BY <3>1, <3>3 DEF MonitorTypes
  <2>3. CASE RemoveMonitor(id) \/ RemoveReturns(id)
    BY <2>3 DEF MonitorTypes, RemoveMonitor, RemoveReturns
  <2> QED BY <2>1, <2>2, <2>3
<1>2. UNCHANGED <<space, runQueue, monitorRun, chosen>>
  BY DEF TogglePause, RemoveMonitor, RemoveReturns, SaveMonitor
<1> QED BY <1>1, <1>2 DEF MonitorTypes, RunIsFormed

LEMMA RestKeepsTypes ==
  ASSUME MonitorTypes,
         \/ \E id \in DOMAIN monitors : TimerFires(id) \/ RunNow(id)
         \/ \E w \in Spaces : EnterSpace(w) \/ ChooseEnvironment(Chosen[w])
         \/ \E i \in DOMAIN reads : ServeRead(i) \/ AdoptHistories(i)
         \/ RestartApp
  PROVE  MonitorTypes'
<1>1. CASE \E id \in DOMAIN monitors : TimerFires(id) \/ RunNow(id)
  <2> PICK id \in DOMAIN monitors : TimerFires(id) \/ RunNow(id)
    BY <1>1
  <2>1. id \in Ids
    BY DEF MonitorTypes
  <2>a. PICK entry \in Entry : runQueue' = Append(runQueue, entry)
    BY <2>1 DEF Entry, TimerFires, RunNow
  <2>2. runQueue' \in Seq(Entry)
    BY <2>a DEF MonitorTypes
  <2> QED BY <2>2 DEF MonitorTypes, RunIsFormed, TimerFires, RunNow
<1>2. CASE \E w \in Spaces : EnterSpace(w) \/ ChooseEnvironment(Chosen[w])
  BY <1>2, DefinitionsAreKnown DEF MonitorTypes, RunIsFormed, EnterSpace, ChooseEnvironment
<1>3. CASE \E i \in DOMAIN reads : ServeRead(i) \/ AdoptHistories(i)
  BY <1>3 DEF MonitorTypes, RunIsFormed, ServeRead, AdoptHistories
<1>4. CASE RestartApp
  BY <1>4 DEF MonitorTypes, RunIsFormed, RestartApp
<1> QED BY <1>1, <1>2, <1>3, <1>4

LEMMA StepKeepsTypes == MonitorTypes /\ [MoNext]_moVars => MonitorTypes'
<1> SUFFICES ASSUME MonitorTypes, [MoNext]_moVars PROVE MonitorTypes'
  OBVIOUS
<1>1. CASE UNCHANGED moVars
  BY <1>1 DEF moVars, MonitorTypes, RunIsFormed
<1> QED BY <1>1, BeginRunKeepsTypes, RunKeepsTypes, EditsKeepTypes, RestKeepsTypes DEF MoNext

-----------------------------------------------------------------------------
(* Timers *)

TimerEntry(id) == [id |-> id, isTimer |-> TRUE]

\* The chain holds a run of id that its timer began: the timer is set again after it.
IsChained(id) ==
  \/ \E i \in DOMAIN runQueue : runQueue[i] = TimerEntry(id)
  \/ monitorRun # NoRun /\ monitorRun.entry = TimerEntry(id)

LEMMA DueIsChained ==
  EveryMonitorIsDue <=> \A id \in Due(space) \ removing : id \in timers \/ IsChained(id)
BY DEF EveryMonitorIsDue, IsChained, TimerEntry

LEMMA QueueGrows ==
  ASSUME runQueue \in Seq(Entry), NEW entry \in Entry, runQueue' = Append(runQueue, entry),
         UNCHANGED monitorRun
  PROVE  /\ \A id : IsChained(id) => IsChained(id)'
         /\ \E i \in DOMAIN runQueue' : runQueue'[i] = entry
BY DEF IsChained

LEMMA FiringKeepsDue ==
  ASSUME MonitorTypes, EveryMonitorIsDue, NEW id \in DOMAIN monitors,
         TimerFires(id) \/ RunNow(id)
  PROVE  EveryMonitorIsDue'
<1>1. TimerEntry(id) \in Entry /\ [id |-> id, isTimer |-> FALSE] \in Entry
  BY DEF MonitorTypes, Entry, TimerEntry
<1>2. runQueue \in Seq(Entry)
  BY DEF MonitorTypes
<1>3. UNCHANGED <<monitorRun, space, removing, monitors>>
  BY DEF TimerFires, RunNow
<1>4. Due(space)' = Due(space)
  BY <1>3 DEF Due, Here
<1>5. CASE TimerFires(id)
  <2>1. runQueue' = Append(runQueue, TimerEntry(id)) /\ timers' = timers \ {id}
    BY <1>5 DEF TimerFires, TimerEntry
  <2>2. (\A m : IsChained(m) => IsChained(m)') /\ IsChained(id)'
    BY <1>1, <1>2, <1>3, <2>1, QueueGrows DEF IsChained
  <2> QED BY <1>3, <1>4, <2>1, <2>2, DueIsChained DEF EveryMonitorIsDue, IsChained, TimerEntry
<1>6. CASE RunNow(id)
  <2>1. runQueue' = Append(runQueue, [id |-> id, isTimer |-> FALSE]) /\ timers' = timers
    BY <1>6 DEF RunNow
  <2>2. \A m : IsChained(m) => IsChained(m)'
    BY <1>1, <1>2, <1>3, <2>1, QueueGrows
  <2> QED BY <1>3, <1>4, <2>1, <2>2, DueIsChained DEF EveryMonitorIsDue, IsChained, TimerEntry
<1> QED BY <1>5, <1>6

\* The end of a run that a timer began sets it again, if it is still due.
LEMMA AfterRunKeepsDue ==
  ASSUME NEW entry \in Entry, AfterRun(entry), UNCHANGED <<space, monitors, removing>>,
         \A id \in Due(space) \ removing :
           id \in timers \/ IsChained(id)' \/ entry = TimerEntry(id)
  PROVE  EveryMonitorIsDue'
<1>1. Due(space)' = Due(space)
  BY DEF Due, Here
<1>2. SUFFICES ASSUME NEW id \in Due(space) \ removing
               PROVE  id \in timers' \/ IsChained(id)'
  BY <1>1 DEF EveryMonitorIsDue, IsChained, TimerEntry
<1>3. CASE entry = TimerEntry(id)
  BY <1>3 DEF AfterRun, Schedule, TimerEntry
<1>4. CASE id \in timers
  BY <1>4 DEF AfterRun, Schedule
<1> QED BY <1>3, <1>4

LEMMA BeginRunKeepsDue ==
  ASSUME MonitorTypes, EveryMonitorIsDue, BeginRun
  PROVE  EveryMonitorIsDue'
<1> DEFINE entry == Head(runQueue)
<1>1. /\ entry \in Entry /\ runQueue \in Seq(Entry) /\ runQueue # <<>>
      /\ runQueue' = Tail(runQueue) /\ monitorRun = NoRun
      /\ UNCHANGED <<space, monitors, removing>>
  BY DEF MonitorTypes, BeginRun
<1>2. \A i \in DOMAIN runQueue : runQueue[i] = entry \/ \E j \in DOMAIN runQueue' : runQueue'[j] = runQueue[i]
  <2> SUFFICES ASSUME NEW i \in DOMAIN runQueue, i # 1
               PROVE  \E j \in DOMAIN runQueue' : runQueue'[j] = runQueue[i]
    BY <1>1
  <2>1. i - 1 \in DOMAIN runQueue' /\ runQueue'[i - 1] = runQueue[i]
    BY <1>1
  <2> QED BY <2>1
<1>3. \A id : IsChained(id) => IsChained(id)' \/ entry = TimerEntry(id)
  BY <1>1, <1>2 DEF IsChained
<1>4. CASE AfterRun(entry)
  BY <1>1, <1>3, <1>4, AfterRunKeepsDue, DueIsChained
<1>5. CASE UNCHANGED timers /\ monitorRun' = [phase |-> "running", entry |-> entry, before |-> environment,
                            wanted |-> monitors[entry.id].environment, started |-> space]
  <2>1. monitorRun' # NoRun /\ monitorRun'.entry = entry
    BY <1>5 DEF NoRun
  <2>2. \A id : IsChained(id) => IsChained(id)'
    BY <1>3, <2>1 DEF IsChained
  <2>3. Due(space)' = Due(space)
    BY <1>1 DEF Due, Here
  <2> QED BY <1>1, <1>5, <2>2, <2>3, DueIsChained DEF EveryMonitorIsDue, IsChained, TimerEntry
<1> QED BY <1>4, <1>5 DEF BeginRun

LEMMA RunKeepsDue ==
  ASSUME MonitorTypes, EveryMonitorIsDue,
         \/ \E passed \in BOOLEAN : RunEnds(passed)
         \/ RunBreaks \/ KeepRecord \/ KeepFails \/ RunIsKept \/ RunIsOver
  PROVE  EveryMonitorIsDue'
<1>1. UNCHANGED <<space, monitors, runQueue, removing>>
  BY DEF RunEnds, RunBreaks, KeepRecord, KeepFails, RunIsKept, RunIsOver
<1>a. monitorRun.phase \in {"running", "saving", "announcing"}
  BY DEF RunEnds, RunBreaks, KeepRecord, KeepFails, RunIsKept, RunIsOver
<1>2. monitorRun # NoRun /\ monitorRun.entry \in Entry
  BY <1>a DEF MonitorTypes, RunIsFormed, NoRun
<1>3. Due(space)' = Due(space)
  BY <1>1 DEF Due, Here
<1>4. CASE RunBreaks \/ KeepFails \/ RunIsOver
  <2>1. AfterRun(monitorRun.entry) /\ monitorRun' = NoRun
    BY <1>4 DEF RunBreaks, KeepFails, RunIsOver
  <2>2. \A id : IsChained(id) => IsChained(id)' \/ monitorRun.entry = TimerEntry(id)
    BY <1>1 DEF IsChained
  <2> QED BY <1>1, <1>2, <2>1, <2>2, AfterRunKeepsDue, DueIsChained
<1>5. CASE (\E passed \in BOOLEAN : RunEnds(passed)) \/ KeepRecord \/ RunIsKept
  <2>1. monitorRun'.entry = monitorRun.entry /\ monitorRun'.phase # "none"
    <3>1. CASE KeepRecord
      BY <3>1 DEF KeepRecord, MonitorTypes, RunIsFormed, NoRun
    <3>2. CASE RunIsKept
      BY <3>2 DEF RunIsKept
    <3>3. CASE \E passed \in BOOLEAN : RunEnds(passed)
      <4> PICK passed \in BOOLEAN : RunEnds(passed)
        BY <3>3
      <4> DEFINE had == Previous(monitorRun.entry.id)
      <4>1. monitorRun' = [phase |-> "saving", entry |-> monitorRun.entry, passed |-> passed,
                           scope |-> space, hadPassed |-> had, isServed |-> FALSE]
        BY DEF RunEnds
      <4> HIDE DEF had
      <4> QED BY <4>1
    <3> QED BY <1>5, <3>1, <3>2, <3>3
  <2>2. monitorRun' # NoRun
    BY <2>1 DEF NoRun
  <2>3. UNCHANGED timers
    BY <1>5 DEF RunEnds, KeepRecord, RunIsKept
  <2>4. \A id : IsChained(id) => IsChained(id)'
    BY <1>1, <2>1, <2>2 DEF IsChained
  <2> QED BY <1>1, <1>3, <2>3, <2>4, DueIsChained DEF EveryMonitorIsDue, IsChained, TimerEntry
<1> QED BY <1>4, <1>5

LEMMA DueIsKept ==
  ASSUME EveryMonitorIsDue, UNCHANGED <<runQueue, monitorRun>>,
         \A m \in Due(space)' \ removing' :
           m \in timers' \/ (m \in Due(space) \ removing /\ (m \in timers => m \in timers'))
  PROVE  EveryMonitorIsDue'
<1>1. \A m : IsChained(m) => IsChained(m)'
  BY DEF IsChained
<1> QED BY <1>1, DueIsChained DEF EveryMonitorIsDue, IsChained, TimerEntry

LEMMA EditsKeepDue ==
  ASSUME MonitorTypes, EveryMonitorIsDue, NEW id \in DOMAIN monitors,
         \/ TogglePause(id) \/ RemoveMonitor(id) \/ RemoveReturns(id)
         \/ \E w \in Spaces : SaveMonitor(id, chosen[w])
  PROVE  EveryMonitorIsDue'
<1>1. UNCHANGED <<space, runQueue, monitorRun>>
  BY DEF TogglePause, RemoveMonitor, RemoveReturns, SaveMonitor
<1>2. SUFFICES ASSUME NEW m \in Due(space)' \ removing'
               PROVE  m \in timers' \/ (m \in Due(space) \ removing /\ (m \in timers => m \in timers'))
  BY <1>1, DueIsKept
<1>3. m \in DOMAIN monitors' /\ monitors'[m].home = space /\ ~monitors'[m].isPaused
  BY <1>1, <1>2 DEF Due, Here
<1>4. \A k \in DOMAIN monitors : monitors[k] \in Definition
  BY DEF MonitorTypes
<1>5. CASE TogglePause(id)
  <2>1. /\ monitors' = [monitors EXCEPT ![id] = [monitors[id] EXCEPT !.isPaused = ~monitors[id].isPaused]]
        /\ timers' = IF monitors[id].isPaused THEN timers \cup {id} ELSE timers \ {id}
        /\ UNCHANGED removing
    BY <1>5 DEF TogglePause
  <2>2. CASE m = id
    BY <1>3, <1>4, <2>1, <2>2 DEF Definition
  <2>3. CASE m # id
    BY <1>2, <1>3, <2>1, <2>3 DEF Due, Here
  <2> QED BY <2>2, <2>3
<1>6. CASE \E w \in Spaces : SaveMonitor(id, chosen[w])
  <2> PICK w \in Spaces : SaveMonitor(id, chosen[w])
    BY <1>6
  <2>1. /\ monitors' = [monitors EXCEPT ![id] = [monitors[id] EXCEPT !.environment = chosen[w]]]
        /\ timers' = Schedule(id) /\ UNCHANGED removing
    BY DEF SaveMonitor
  <2>2. m \in Due(space)
    BY <1>3, <1>4, <2>1 DEF Due, Here, Definition
  <2> QED BY <1>2, <2>1, <2>2 DEF Schedule
<1>7. CASE RemoveMonitor(id)
  BY <1>1, <1>2, <1>7 DEF RemoveMonitor, Due, Here
<1>8. CASE RemoveReturns(id)
  <2>1. UNCHANGED timers /\ removing' = removing \ {id}
    BY <1>8 DEF RemoveReturns
  <2>2. m # id
    BY <1>3, <1>8 DEF RemoveReturns
  <2>3. m \in Due(space)
    BY <1>3, <1>8 DEF RemoveReturns, Due, Here
  <2> QED BY <1>2, <2>1, <2>2, <2>3
<1> QED BY <1>5, <1>6, <1>7, <1>8

LEMMA SpacesKeepDue ==
  ASSUME EveryMonitorIsDue,
         \/ \E w \in Spaces : EnterSpace(w) \/ ChooseEnvironment(Chosen[w])
         \/ \E i \in DOMAIN reads : ServeRead(i) \/ AdoptHistories(i)
         \/ RestartApp \/ UNCHANGED moVars
  PROVE  EveryMonitorIsDue'
<1>1. CASE (\E w \in Spaces : EnterSpace(w)) \/ RestartApp
  <2>1. timers' = Due(space)'
    BY <1>1 DEF EnterSpace, RestartApp, Due, Here
  <2> QED BY <2>1 DEF EveryMonitorIsDue
<1>2. CASE \/ \E w \in Spaces : ChooseEnvironment(Chosen[w])
           \/ \E i \in DOMAIN reads : ServeRead(i) \/ AdoptHistories(i)
           \/ UNCHANGED moVars
  <2>1. UNCHANGED <<space, monitors, timers, runQueue, monitorRun, removing>>
    BY <1>2 DEF ChooseEnvironment, ServeRead, AdoptHistories, moVars
  <2> QED BY <2>1 DEF EveryMonitorIsDue, Due, Here
<1> QED BY <1>1, <1>2

LEMMA StepKeepsDue == MonitorTypes /\ EveryMonitorIsDue /\ [MoNext]_moVars => EveryMonitorIsDue'
BY FiringKeepsDue, BeginRunKeepsDue, RunKeepsDue, EditsKeepDue, SpacesKeepDue DEF MoNext

LEMMA InitDue == MoInit => EveryMonitorIsDue
BY DEF MoInit, EveryMonitorIsDue, Due, Here

(* However often monitors are edited, paused, run by hand, removed or left *)
(* behind by a change of the workspace, each one that should run has a     *)
(* timer or a place in the chain because of it: the timer that fires is    *)
(* gone until its run is over, and every end of a run sets it again.       *)
THEOREM EveryTimerIsSetAgain == MoSpec => []EveryMonitorIsDue
BY InitTypes, InitDue, StepKeepsTypes, StepKeepsDue, PTL DEF MoSpec

-----------------------------------------------------------------------------
(* The environment in use *)

IsExcused == "environment" \in excused

\* What a run that switched an environment on puts back is the user's choice; one that
\* did not leaves the choice in use.
SwitchInv ==
  IF monitorRun.phase = "running" /\ monitorRun.wanted # NoEnvironment
  THEN monitorRun.before = chosen[space] \/ IsExcused
  ELSE environment = chosen[space] \/ IsExcused

LEMMA SwitchSuffices == ASSUME SwitchInv PROVE ChoiceStands
BY DEF SwitchInv, ChoiceStands, IsExcused

LEMMA InitSwitch == MoInit => SwitchInv
BY DEF MoInit, SwitchInv, NoRun

LEMMA StepKeepsSwitch == MonitorTypes /\ SwitchInv /\ [MoNext]_moVars => SwitchInv'
<1> SUFFICES ASSUME MonitorTypes, SwitchInv, [MoNext]_moVars PROVE SwitchInv'
  OBVIOUS
<1>1. CASE BeginRun
  <2>1. CASE UNCHANGED <<monitorRun, environment>>
    BY <1>1, <2>1 DEF BeginRun, SwitchInv, IsExcused
  <2>2. CASE ~UNCHANGED <<monitorRun, environment>>
    <3> DEFINE entry == Head(runQueue)
    <3>1. /\ monitorRun' = [phase |-> "running", entry |-> entry, before |-> environment,
                            wanted |-> monitors[entry.id].environment, started |-> space]
          /\ environment' = IF monitors[entry.id].environment = NoEnvironment THEN environment
                            ELSE monitors[entry.id].environment
          /\ monitorRun = NoRun /\ UNCHANGED <<space, chosen, excused>>
      BY <1>1, <2>2 DEF BeginRun
    <3> QED BY <3>1 DEF SwitchInv, IsExcused, NoRun
  <2> QED BY <2>1, <2>2
<1>2. CASE (\E passed \in BOOLEAN : RunEnds(passed)) \/ RunBreaks
  <2>1. /\ monitorRun.phase = "running" /\ monitorRun'.phase # "running"
        /\ environment' = IF monitorRun.wanted = NoEnvironment THEN environment ELSE monitorRun.before
        /\ UNCHANGED <<space, chosen>> /\ excused \subseteq excused'
    BY <1>2 DEF RunEnds, RunBreaks, Restore, NoRun
  <2> QED BY <2>1 DEF SwitchInv, IsExcused
<1>3. CASE KeepRecord \/ KeepFails \/ RunIsKept \/ RunIsOver
  <2>1. /\ monitorRun.phase # "running" /\ UNCHANGED <<environment, space, chosen>>
        /\ excused \subseteq excused'
    BY <1>3 DEF KeepRecord, KeepFails, RunIsKept, RunIsOver
  <2>2. monitorRun'.phase # "running"
    BY <1>3 DEF KeepRecord, KeepFails, RunIsKept, RunIsOver, MonitorTypes, RunIsFormed, NoRun
  <2> QED BY <2>1, <2>2 DEF SwitchInv, IsExcused
<1>4. CASE \E w \in Spaces : EnterSpace(w) \/ ChooseEnvironment(Chosen[w])
  <2>1. /\ environment' = chosen'[space'] /\ UNCHANGED monitorRun /\ excused \subseteq excused'
        /\ monitorRun.phase = "running" /\ monitorRun.wanted # NoEnvironment => IsExcused'
    BY <1>4 DEF EnterSpace, ChooseEnvironment, IsExcused, MonitorTypes
  <2> QED BY <2>1 DEF SwitchInv
<1>5. CASE RestartApp
  BY <1>5 DEF RestartApp, SwitchInv, IsExcused, NoRun
<1>6. CASE UNCHANGED <<monitorRun, environment, space, chosen>> /\ excused \subseteq excused'
  BY <1>6 DEF SwitchInv, IsExcused
<1>7. CASE \/ \E id \in DOMAIN monitors :
                \/ TimerFires(id) \/ RunNow(id) \/ TogglePause(id) \/ RemoveMonitor(id) \/ RemoveReturns(id)
                \/ \E w \in Spaces : SaveMonitor(id, chosen[w])
           \/ \E i \in DOMAIN reads : ServeRead(i) \/ AdoptHistories(i)
           \/ UNCHANGED moVars
  <2>1. UNCHANGED <<monitorRun, environment, space, chosen>> /\ excused \subseteq excused'
    BY <1>7 DEF TimerFires, RunNow, TogglePause, RemoveMonitor, RemoveReturns, SaveMonitor, ServeRead,
                AdoptHistories, moVars
  <2> QED BY <1>6, <2>1
<1> QED BY <1>1, <1>2, <1>3, <1>4, <1>5, <1>7 DEF MoNext

(* The environment of a monitor is in use only during its run: whatever    *)
(* breaks, the one the user chose is in use afterwards, unless the user    *)
(* chose, changed the workspace or ended the program during the run.       *)
THEOREM ChoicesStand == MoSpec => []ChoiceStands
BY InitTypes, InitSwitch, StepKeepsTypes, StepKeepsSwitch, SwitchSuffices, PTL DEF MoSpec

-----------------------------------------------------------------------------
(* The records of a monitor among those that are kept *)

Record == [monitor : Ids, passed : BOOLEAN]

\* g is the function Of is defined with, for the first n records
OfUpTo(g, id, s, n) ==
  g = [i \in 0..n |-> IF i = 0 THEN <<>> ELSE IF s[i].monitor = id THEN Append(g[i - 1], s[i]) ELSE g[i - 1]]

LEMMA OfExists ==
  ASSUME NEW id, NEW s, NEW n \in Nat
  PROVE  \E g : OfUpTo(g, id, s, n)
<1> DEFINE T == {k \in Nat : ~\E g : OfUpTo(g, id, s, k)}
<1> SUFFICES ASSUME T # {} PROVE FALSE
  OBVIOUS
<1>1. PICK k \in T : \A m \in T : k <= m
  BY LeastNumber
<1>2. k # 0
  <2> DEFINE g == [i \in 0..0 |-> <<>>]
  <2>1. OfUpTo(g, id, s, 0) BY DEF OfUpTo
  <2> QED BY <2>1
<1>3. k - 1 \in Nat /\ k - 1 \notin T
  BY <1>1, <1>2
<1>4. PICK g : OfUpTo(g, id, s, k - 1)
  BY <1>3
<1> DEFINE h == [i \in 0..k |-> IF i < k THEN g[i] ELSE IF s[k].monitor = id THEN Append(g[k - 1], s[k]) ELSE g[k - 1]]
<1>5. OfUpTo(h, id, s, k)
  <2>1. \A i \in 0..(k-1) : h[i] = g[i]
    BY <1>3
  <2>2. ASSUME NEW i \in 0..k
        PROVE  h[i] = IF i = 0 THEN <<>> ELSE IF s[i].monitor = id THEN Append(h[i - 1], s[i]) ELSE h[i - 1]
    <3>1. CASE i = 0
      BY <3>1, <1>2, <1>4, <1>3, <2>1 DEF OfUpTo
    <3>2. CASE i # 0 /\ i < k
      <4>1. i \in 0..(k-1) /\ i - 1 \in 0..(k-1) BY <3>2, <1>3
      <4>2. g[i] = IF i = 0 THEN <<>> ELSE IF s[i].monitor = id THEN Append(g[i - 1], s[i]) ELSE g[i - 1]
        BY <4>1, <1>4 DEF OfUpTo
      <4> HIDE DEF h
      <4> QED BY <4>1, <4>2, <2>1, <3>2
    <3>3. CASE i = k
      <4>1. k - 1 \in 0..(k-1) /\ ~(k < k) /\ k \in 0..k BY <1>3
      <4>2. h[k] = IF s[k].monitor = id THEN Append(g[k - 1], s[k]) ELSE g[k - 1] BY <4>1
      <4> HIDE DEF h
      <4> QED BY <4>1, <4>2, <2>1, <3>3, <1>2
    <3> QED BY <3>1, <3>2, <3>3, <1>1
  <2> DEFINE r == [i \in 0..k |-> IF i = 0 THEN <<>> ELSE IF s[i].monitor = id THEN Append(h[i - 1], s[i]) ELSE h[i - 1]]
  <2>3. h = [i \in 0..k |-> h[i]] OBVIOUS
  <2> HIDE DEF h
  <2>4. r = [i \in 0..k |-> h[i]] BY <2>2
  <2>5. h = r BY <2>3, <2>4
  <2> QED BY <2>5 DEF OfUpTo
<1> QED BY <1>1, <1>5

LEMMA OfIs ==
  ASSUME NEW id, NEW s, Len(s) \in Nat
  PROVE  \E g : OfUpTo(g, id, s, Len(s)) /\ Of(id, s) = g[Len(s)]
<1> DEFINE F == CHOOSE g : OfUpTo(g, id, s, Len(s))
<1>1. OfUpTo(F, id, s, Len(s))
  BY OfExists
<1>2. Of(id, s) = F[Len(s)]
  BY DEF Of, OfUpTo
<1> QED BY <1>1, <1>2

\* what g is, step by step
LEMMA OfSteps ==
  ASSUME NEW id, NEW s \in Seq(Record), NEW g, OfUpTo(g, id, s, Len(s))
  PROVE  /\ g[0] = <<>>
         /\ \A n \in 1..Len(s) : g[n] = IF s[n].monitor = id THEN Append(g[n - 1], s[n]) ELSE g[n - 1]
         /\ \A n \in 0..Len(s) : g[n] \in Seq(Record) /\ Len(g[n]) <= n
<1>1. g[0] = <<>>
  BY DEF OfUpTo
<1>2. \A n \in 1..Len(s) : g[n] = IF s[n].monitor = id THEN Append(g[n - 1], s[n]) ELSE g[n - 1]
  <2> SUFFICES ASSUME NEW n \in 1..Len(s)
               PROVE  g[n] = IF s[n].monitor = id THEN Append(g[n - 1], s[n]) ELSE g[n - 1]
    OBVIOUS
  <2>1. n \in 0..Len(s) /\ n # 0
    OBVIOUS
  <2> QED BY <2>1 DEF OfUpTo
<1>3. \A n \in 0..Len(s) : g[n] \in Seq(Record) /\ Len(g[n]) <= n
  <2> DEFINE T == {n \in 0..Len(s) : ~(g[n] \in Seq(Record) /\ Len(g[n]) <= n)}
  <2> SUFFICES ASSUME T # {} PROVE FALSE
    OBVIOUS
  <2>1. PICK n \in T : \A m \in T : n <= m
    <3>1. T \in SUBSET Nat OBVIOUS
    <3> QED BY <3>1, LeastNumber
  <2>2. n # 0
    <3>1. <<>> \in Seq(Record) /\ Len(<<>>) <= 0
      BY EmptySeq
    <3> QED BY <1>1, <3>1
  <2>3. n \in 1..Len(s) /\ n - 1 \in 0..Len(s) /\ n - 1 \notin T
    BY <2>1, <2>2
  <2>4. g[n - 1] \in Seq(Record) /\ Len(g[n - 1]) <= n - 1 /\ s[n] \in Record
    BY <2>3
  <2>5. g[n] = Append(g[n - 1], s[n]) \/ g[n] = g[n - 1]
    BY <1>2, <2>3
  <2>6. g[n] \in Seq(Record) /\ Len(g[n]) <= n
    <3> HIDE DEF T
    <3>1. CASE g[n] = g[n - 1]
      BY <2>3, <2>4, <3>1
    <3>2. CASE g[n] = Append(g[n - 1], s[n])
      <4>1. Append(g[n - 1], s[n]) \in Seq(Record) /\ Len(Append(g[n - 1], s[n])) = Len(g[n - 1]) + 1
        BY <2>4, AppendProperties
      <4>2. Len(g[n - 1]) \in Nat
        BY <2>4
      <4> QED BY <2>3, <2>4, <3>2, <4>1, <4>2
    <3> QED BY <2>5, <3>1, <3>2
  <2> QED BY <2>1, <2>6
<1> QED BY <1>1, <1>2, <1>3

LEMMA OfTypes ==
  ASSUME NEW id, NEW s \in Seq(Record)
  PROVE  Of(id, s) \in Seq(Record) /\ Len(Of(id, s)) <= Len(s)
<1>1. PICK g : OfUpTo(g, id, s, Len(s)) /\ Of(id, s) = g[Len(s)]
  BY OfIs
<1>2. \A n \in 0..Len(s) : g[n] \in Seq(Record) /\ Len(g[n]) <= n
  BY <1>1, OfSteps
<1> QED BY <1>1, <1>2

LEMMA OfAppend ==
  ASSUME NEW id, NEW s \in Seq(Record), NEW r \in Record
  PROVE  Of(id, Append(s, r)) = IF r.monitor = id THEN Append(Of(id, s), r) ELSE Of(id, s)
<1> DEFINE t == Append(s, r)
<1>1. t \in Seq(Record) /\ Len(t) = Len(s) + 1 /\ t[Len(s) + 1] = r /\ \A n \in 1..Len(s) : t[n] = s[n]
  OBVIOUS
<1> HIDE DEF t
<1>2. PICK g : OfUpTo(g, id, s, Len(s)) /\ Of(id, s) = g[Len(s)]
  BY OfIs
<1>3. PICK h : OfUpTo(h, id, t, Len(t)) /\ Of(id, t) = h[Len(t)]
  BY <1>1, OfIs
<1>4. /\ g[0] = <<>>
      /\ \A n \in 1..Len(s) : g[n] = IF s[n].monitor = id THEN Append(g[n - 1], s[n]) ELSE g[n - 1]
  BY <1>2, OfSteps
<1>5. /\ h[0] = <<>>
      /\ \A n \in 1..Len(t) : h[n] = IF t[n].monitor = id THEN Append(h[n - 1], t[n]) ELSE h[n - 1]
  BY <1>1, <1>3, OfSteps
<1>6. \A n \in 0..Len(s) : h[n] = g[n]
  <2> DEFINE T == {n \in 0..Len(s) : h[n] # g[n]}
  <2> SUFFICES ASSUME T # {} PROVE FALSE
    OBVIOUS
  <2>1. PICK n \in T : \A m \in T : n <= m
    <3>1. T \in SUBSET Nat OBVIOUS
    <3> QED BY <3>1, LeastNumber
  <2>2. n # 0
    BY <1>4, <1>5
  <2>3. n \in 1..Len(s) /\ n - 1 \in 0..Len(s) /\ n - 1 \notin T
    BY <2>1, <2>2
  <2>4. n \in 1..Len(t) /\ t[n] = s[n] /\ h[n - 1] = g[n - 1]
    BY <1>1, <2>3
  <2>5. h[n] = g[n]
    BY <1>4, <1>5, <2>3, <2>4
  <2> QED BY <2>1, <2>5
<1>7. Len(s) \in 0..Len(s) /\ Len(s) + 1 \in 1..Len(t) /\ (Len(s) + 1) - 1 = Len(s)
  BY <1>1
<1>8. h[Len(s)] = g[Len(s)]
  BY <1>6, <1>7
<1>9. h[Len(s) + 1] = IF r.monitor = id THEN Append(h[Len(s)], r) ELSE h[Len(s)]
  BY <1>1, <1>5, <1>7
<1> QED BY <1>1, <1>2, <1>3, <1>8, <1>9 DEF t

\* the first record goes, or does not matter
LEMMA OfTail ==
  ASSUME NEW id, NEW s \in Seq(Record), s # <<>>
  PROVE  Of(id, s) = Of(id, Tail(s)) \/ Of(id, s) = <<Head(s)>> \o Of(id, Tail(s))
<1> DEFINE t == Tail(s)
           x == Head(s)
<1>1. /\ t \in Seq(Record) /\ Len(s) \in Nat \ {0} /\ Len(t) = Len(s) - 1 /\ s[1] = x /\ x \in Record
      /\ \A n \in 1..Len(t) : t[n] = s[n + 1]
  OBVIOUS
<1> HIDE DEF t, x
<1>2. PICK g : OfUpTo(g, id, s, Len(s)) /\ Of(id, s) = g[Len(s)]
  BY <1>1, OfIs
<1>3. PICK h : OfUpTo(h, id, t, Len(t)) /\ Of(id, t) = h[Len(t)]
  BY <1>1, OfIs
<1>4. /\ g[0] = <<>>
      /\ \A n \in 1..Len(s) : g[n] = IF s[n].monitor = id THEN Append(g[n - 1], s[n]) ELSE g[n - 1]
  BY <1>2, OfSteps
<1>5. /\ h[0] = <<>>
      /\ \A n \in 1..Len(t) : h[n] = IF t[n].monitor = id THEN Append(h[n - 1], t[n]) ELSE h[n - 1]
      /\ \A n \in 0..Len(t) : h[n] \in Seq(Record) /\ Len(h[n]) <= n
  <2>1. t \in Seq(Record) /\ OfUpTo(h, id, t, Len(t))
    BY <1>1, <1>3
  <2> QED BY <2>1, OfSteps
<1>6. g[1] = IF x.monitor = id THEN <<x>> ELSE <<>>
  <2>1. g[1] = IF s[1].monitor = id THEN Append(g[1 - 1], s[1]) ELSE g[1 - 1]
    BY <1>1, <1>4
  <2>2. g[1 - 1] = <<>> /\ s[1] = x
    BY <1>1, <1>4
  <2>3. Append(<<>>, x) = <<x>>
    OBVIOUS
  <2> QED BY <2>1, <2>2, <2>3
<1>7. \A n \in 0..Len(t) : g[n + 1] = IF x.monitor = id THEN <<x>> \o h[n] ELSE h[n]
  <2> DEFINE T == {n \in 0..Len(t) : g[n + 1] # IF x.monitor = id THEN <<x>> \o h[n] ELSE h[n]}
  <2> SUFFICES ASSUME T # {} PROVE FALSE
    OBVIOUS
  <2>1. PICK n \in T : \A m \in T : n <= m
    <3>1. T \in SUBSET Nat BY <1>1
    <3> QED BY <3>1, LeastNumber
  <2>2. n # 0
    <3>1. <<x>> \o <<>> = <<x>>
      BY <1>1
    <3>2. g[0 + 1] = IF x.monitor = id THEN <<x>> \o h[0] ELSE h[0]
      BY <1>5, <1>6, <3>1
    <3> QED BY <3>2
  <2>3. n \in 1..Len(t) /\ n - 1 \in 0..Len(t) /\ n - 1 \notin T
    BY <1>1, <2>1, <2>2
  <2>4. n + 1 \in 1..Len(s) /\ t[n] = s[n + 1] /\ (n + 1) - 1 = n /\ (n - 1) + 1 = n /\ t[n] \in Record
    BY <1>1, <2>3
  <2>5. g[n] = IF x.monitor = id THEN <<x>> \o h[n - 1] ELSE h[n - 1]
    BY <2>3, <2>4
  <2>6. g[n + 1] = IF t[n].monitor = id THEN Append(g[n], t[n]) ELSE g[n]
    BY <1>4, <2>4
  <2>7. h[n] = IF t[n].monitor = id THEN Append(h[n - 1], t[n]) ELSE h[n - 1]
    BY <1>5, <2>3
  <2>8. h[n - 1] \in Seq(Record)
    BY <1>5, <2>3
  <2>9. Append(<<x>> \o h[n - 1], t[n]) = <<x>> \o Append(h[n - 1], t[n])
    <3> DEFINE a == <<x>>
               b == h[n - 1]
               c == t[n]
    <3>1. a \in Seq(Record) /\ b \in Seq(Record) /\ c \in Record
      BY <1>1, <2>4, <2>8
    <3> HIDE DEF a, b, c
    <3>2. a \o b \in Seq(Record) /\ <<c>> \in Seq(Record)
      BY <3>1
    <3>3. Append(a \o b, c) = (a \o b) \o <<c>> /\ Append(b, c) = b \o <<c>>
      BY <3>1, <3>2, AppendIsConcat
    <3>4. (a \o b) \o <<c>> = a \o (b \o <<c>>)
      BY <3>1, <3>2, ConcatAssociative
    <3>5. Append(a \o b, c) = a \o Append(b, c)
      BY <3>3, <3>4
    <3> QED BY <3>5 DEF a, b, c
  <2>10. g[n + 1] = IF x.monitor = id THEN <<x>> \o h[n] ELSE h[n]
    BY <2>5, <2>6, <2>7, <2>9
  <2> QED BY <2>1, <2>10
<1>8. g[Len(t) + 1] = IF x.monitor = id THEN <<x>> \o h[Len(t)] ELSE h[Len(t)]
  BY <1>1, <1>7
<1>9. Of(id, s) = Of(id, t) \/ Of(id, s) = <<x>> \o Of(id, t)
  <2>1. Len(t) + 1 = Len(s)
    BY <1>1
  <2> QED BY <1>2, <1>3, <1>8, <2>1
<1> QED BY <1>9 DEF t, x

-----------------------------------------------------------------------------
(* Endings *)

EndsWith(t, s) == Len(s) <= Len(t) /\ \A i \in 1..Len(s) : s[i] = t[(Len(t) - Len(s)) + i]

LEMMA EndsSuffix ==
  ASSUME NEW X, NEW s \in Seq(X), NEW t \in Seq(X), EndsWith(t, s)
  PROVE  IsSuffix(s, t)
<1> DEFINE r == Reverse(s)
           q == Reverse(t)
<1>1. /\ Len(r) = Len(s) /\ Len(q) = Len(t)
      /\ \A i \in 1..Len(s) : r[i] = s[(Len(s) - i) + 1]
      /\ \A i \in 1..Len(t) : q[i] = t[(Len(t) - i) + 1]
  BY DEF Reverse
<1>2. r \in Seq(X) /\ q \in Seq(X)
  BY DEF Reverse
<1> HIDE DEF r, q
<1>3. ASSUME NEW i \in 1..Len(s) PROVE r[i] = q[i]
  <2> DEFINE k == (Len(s) - i) + 1
  <2>1. k \in 1..Len(s) /\ i \in 1..Len(t) /\ (Len(t) - Len(s)) + k = (Len(t) - i) + 1
    BY DEF EndsWith
  <2>2. s[k] = t[(Len(t) - Len(s)) + k]
    BY <2>1 DEF EndsWith
  <2> QED BY <1>1, <2>1, <2>2
<1>4. Len(r) <= Len(q)
  BY <1>1 DEF EndsWith
<1>5. SubSeq(r, 1, Len(r)) = SubSeq(q, 1, Len(r))
  BY <1>1, <1>2, <1>3, <1>4
<1> QED BY <1>4, <1>5 DEF IsSuffix, IsPrefix, r, q

LEMMA EndsTransitively ==
  ASSUME NEW X, NEW s \in Seq(X), NEW t \in Seq(X), NEW u \in Seq(X), EndsWith(t, s), EndsWith(u, t)
  PROVE  EndsWith(u, s)
<1>1. Len(s) \in Nat /\ Len(t) \in Nat /\ Len(u) \in Nat /\ Len(s) <= Len(t) /\ Len(t) <= Len(u)
  BY DEF EndsWith
<1>2. ASSUME NEW i \in 1..Len(s) PROVE s[i] = u[(Len(u) - Len(s)) + i]
  <2> DEFINE k == (Len(t) - Len(s)) + i
  <2>1. k \in 1..Len(t) /\ (Len(u) - Len(t)) + k = (Len(u) - Len(s)) + i
    BY <1>1
  <2>2. s[i] = t[k] /\ t[k] = u[(Len(u) - Len(t)) + k]
    BY <2>1 DEF EndsWith
  <2> QED BY <2>1, <2>2
<1> QED BY <1>1, <1>2 DEF EndsWith

LEMMA EndsWithItself ==
  ASSUME NEW X, NEW s \in Seq(X)
  PROVE  EndsWith(s, s)
BY DEF EndsWith

LEMMA EndsAppended ==
  ASSUME NEW X, NEW s \in Seq(X), NEW t \in Seq(X), NEW r \in X, EndsWith(t, s)
  PROVE  EndsWith(Append(t, r), Append(s, r))
<1> DEFINE p == Append(s, r)
           q == Append(t, r)
<1>1. /\ Len(p) = Len(s) + 1 /\ Len(q) = Len(t) + 1 /\ Len(s) \in Nat /\ Len(t) \in Nat
      /\ p[Len(s) + 1] = r /\ q[Len(t) + 1] = r
      /\ \A i \in 1..Len(s) : p[i] = s[i]
      /\ \A i \in 1..Len(t) : q[i] = t[i]
  OBVIOUS
<1> HIDE DEF p, q
<1>2. Len(s) <= Len(t)
  BY DEF EndsWith
<1>3. ASSUME NEW i \in 1..Len(p) PROVE p[i] = q[(Len(q) - Len(p)) + i]
  <2>1. CASE i = Len(s) + 1
    <3>1. (Len(q) - Len(p)) + i = Len(t) + 1
      BY <1>1, <2>1
    <3> QED BY <1>1, <2>1, <3>1
  <2>2. CASE i # Len(s) + 1
    <3> DEFINE k == (Len(t) - Len(s)) + i
    <3>1. i \in 1..Len(s) /\ k \in 1..Len(t) /\ (Len(q) - Len(p)) + i = k
      BY <1>1, <1>2, <2>2
    <3>2. s[i] = t[k]
      BY <3>1 DEF EndsWith
    <3> QED BY <1>1, <3>1, <3>2
  <2> QED BY <2>1, <2>2
<1>4. Len(p) <= Len(q)
  BY <1>1, <1>2
<1> QED BY <1>3, <1>4 DEF EndsWith, p, q

LEMMA LastOfEnds ==
  ASSUME NEW X, NEW t \in Seq(X), NEW n \in Nat \ {0}
  PROVE  /\ LastOf(t, n) \in Seq(X) /\ Len(LastOf(t, n)) <= n
         /\ EndsWith(t, LastOf(t, n))
         /\ \A s \in Seq(X) : EndsWith(t, s) /\ Len(s) <= n => EndsWith(LastOf(t, n), s)
         /\ t # <<>> => LastOf(t, n) # <<>>
<1> DEFINE m == IF Len(t) > n THEN Len(t) - n + 1 ELSE 1
           l == SubSeq(t, m, Len(t))
<1>1. l = LastOf(t, n)
  BY DEF LastOf
<1>2. Len(t) \in Nat /\ m \in 1..(Len(t) + 1) /\ (Len(t) - m) + 1 <= n
  OBVIOUS
<1>3. /\ l \in Seq(X) /\ Len(l) = (Len(t) - m) + 1
      /\ \A i \in 1..Len(l) : l[i] = t[(m - 1) + i]
  <2> HIDE DEF m
  <2>1. \A i \in m..Len(t) : t[i] \in X
    BY <1>2
  <2>2. /\ l \in Seq(X) /\ Len(l) = IF m <= Len(t) THEN Len(t) - m + 1 ELSE 0
        /\ \A i \in 1..(Len(t) - m + 1) : l[i] = t[m + i - 1]
    BY <1>2, <2>1, SubSeqProperties
  <2> HIDE DEF l
  <2>3. Len(l) = (Len(t) - m) + 1 /\ Len(l) = Len(t) - m + 1
    BY <1>2, <2>2
  <2>4. ASSUME NEW i \in 1..Len(l) PROVE l[i] = t[(m - 1) + i]
    <3>1. m + i - 1 = (m - 1) + i /\ i \in 1..(Len(t) - m + 1)
      BY <1>2, <2>3
    <3> QED BY <2>2, <3>1
  <2> QED BY <2>2, <2>3, <2>4
<1>a. Len(l) = Len(t) \/ Len(l) = n
  BY <1>2, <1>3
<1>b. t # <<>> => Len(t) # 0
  OBVIOUS
<1> HIDE DEF l, m
<1>4. Len(l) <= n /\ Len(l) <= Len(t) /\ Len(t) - Len(l) = m - 1
  BY <1>2, <1>3
<1>5. EndsWith(t, l)
  BY <1>3, <1>4 DEF EndsWith
<1>6. ASSUME NEW s \in Seq(X), EndsWith(t, s), Len(s) <= n PROVE EndsWith(l, s)
  <2>1. Len(s) \in Nat /\ Len(s) <= Len(t) /\ Len(l) \in Nat
    BY <1>3, <1>6 DEF EndsWith
  <2>2. Len(s) <= Len(l)
    BY <1>6, <1>a, <2>1
  <2>3. ASSUME NEW i \in 1..Len(s) PROVE s[i] = l[(Len(l) - Len(s)) + i]
    <3> DEFINE k == (Len(l) - Len(s)) + i
    <3>1. k \in 1..Len(l) /\ (m - 1) + k = (Len(t) - Len(s)) + i
      BY <1>2, <1>4, <2>1, <2>2
    <3>2. l[k] = t[(m - 1) + k] /\ s[i] = t[(Len(t) - Len(s)) + i]
      BY <1>3, <1>6, <3>1 DEF EndsWith
    <3> QED BY <3>1, <3>2
  <2> QED BY <2>2, <2>3 DEF EndsWith
<1>7. t # <<>> => l # <<>>
  <2>1. Len(<<>>) = 0
    OBVIOUS
  <2> QED BY <1>2, <1>a, <1>b, <2>1
<1> QED BY <1>1, <1>3, <1>4, <1>5, <1>6, <1>7

LEMMA LastOfAppended ==
  ASSUME NEW X, NEW s \in Seq(X), NEW r \in X, NEW n \in Nat \ {0}, Len(s) <= n
  PROVE  LastOf(Append(s, r), n) = Append(s, r) \/ LastOf(Append(s, r), n) = Tail(Append(s, r))
<1> DEFINE t == Append(s, r)
<1>1. t \in Seq(X) /\ Len(t) = Len(s) + 1 /\ t # <<>>
  OBVIOUS
<1> HIDE DEF t
<1>2. CASE Len(t) > n
  <2>1. Len(t) - n + 1 = 2
    BY <1>1, <1>2
  <2>2. LastOf(t, n) = SubSeq(t, 2, Len(t))
    BY <1>2, <2>1 DEF LastOf
  <2>3. Tail(t) = SubSeq(t, 2, Len(t))
    BY <1>1
  <2> QED BY <2>2, <2>3 DEF t
<1>3. CASE ~(Len(t) > n)
  <2>1. LastOf(t, n) = SubSeq(t, 1, Len(t))
    BY <1>3 DEF LastOf
  <2>2. SubSeq(t, 1, Len(t)) = t
    BY <1>1
  <2> QED BY <2>1, <2>2 DEF t
<1> QED BY <1>2, <1>3

LEMMA EndsWithTail ==
  ASSUME NEW X, NEW t \in Seq(X), NEW x \in X
  PROVE  EndsWith(<<x>> \o t, t)
BY DEF EndsWith

LEMMA EndsAlike ==
  ASSUME NEW X, NEW s \in Seq(X), NEW t \in Seq(X), EndsWith(t, s), s # <<>>
  PROVE  t # <<>> /\ Last(t) = Last(s)
<1>1. Len(s) \in Nat /\ Len(t) \in Nat /\ Len(s) <= Len(t) /\ Len(s) # 0 /\ Len(<<>>) = 0
  BY DEF EndsWith
<1>2. Len(s) \in 1..Len(s) /\ (Len(t) - Len(s)) + Len(s) = Len(t)
  BY <1>1
<1>3. s[Len(s)] = t[Len(t)]
  BY <1>2 DEF EndsWith
<1> QED BY <1>1, <1>3 DEF Last

\* what is kept of a monitor when a record is added and the oldest goes
LEMMA KeptEnds ==
  ASSUME NEW id, NEW s \in Seq(Record), NEW r \in Record, NEW n \in Nat \ {0}, Len(s) <= n
  PROVE  LET kept == LastOf(Append(s, r), n) IN
         /\ kept \in Seq(Record) /\ Len(kept) <= n
         /\ Of(id, kept) \in Seq(Record) /\ Len(Of(id, kept)) <= n
         /\ Of(id, s) \in Seq(Record)
         /\ EndsWith(IF r.monitor = id THEN Append(Of(id, s), r) ELSE Of(id, s), Of(id, kept))
<1> DEFINE t == Append(s, r)
           kept == LastOf(t, n)
<1>1. t \in Seq(Record) /\ t # <<>>
  OBVIOUS
<1>2. kept = t \/ kept = Tail(t)
  BY LastOfAppended
<1>3. Of(id, t) = IF r.monitor = id THEN Append(Of(id, s), r) ELSE Of(id, s)
  BY OfAppend
<1> HIDE DEF t
<1>4. kept \in Seq(Record) /\ Len(kept) <= n
  BY <1>1, LastOfEnds
<1> HIDE DEF kept
<1>5. Of(id, kept) \in Seq(Record) /\ Len(Of(id, kept)) <= Len(kept) /\ Of(id, t) \in Seq(Record) /\ Of(id, s) \in Seq(Record)
  BY <1>1, <1>4, OfTypes
<1>6. EndsWith(Of(id, t), Of(id, kept))
  <2>1. CASE kept = t
    BY <1>5, <2>1, EndsWithItself
  <2>2. CASE kept = Tail(t)
    <3>1. Of(id, t) = Of(id, kept) \/ Of(id, t) = <<Head(t)>> \o Of(id, kept)
      BY <1>1, <2>2, OfTail
    <3>2. Head(t) \in Record
      BY <1>1
    <3> QED BY <1>5, <3>1, <3>2, EndsWithItself, EndsWithTail
  <2> QED BY <1>2, <2>1, <2>2
<1>7. Len(kept) \in Nat /\ Len(Of(id, kept)) \in Nat
  BY <1>4, <1>5
<1>8. Len(Of(id, kept)) <= n
  BY <1>4, <1>5, <1>7
<1> QED BY <1>3, <1>4, <1>5, <1>6, <1>8 DEF t, kept

-----------------------------------------------------------------------------
(* The history shown *)

ReadRecord == [scope : Spaces, ids : SUBSET Ids, isServed : BOOLEAN, got : Seq(Record)]
HomeOf(id) == Definitions[id].home

HistoryTypes ==
  /\ runsKept \in [Spaces -> Seq(Record)]
  /\ \A w \in Spaces : Len(runsKept[w]) <= Retention
  /\ lastVerdict \in [Ids -> {"none", "passed", "failed"}]
  /\ \A id \in DOMAIN histories : histories[id] \in Seq(Record)
  /\ \A id \in DOMAIN monitors : monitors[id].home = HomeOf(id)
  /\ reads \in Seq(ReadRecord)
  /\ monitorRun.phase = "saving" =>
       /\ monitorRun.passed \in BOOLEAN /\ monitorRun.hadPassed \in BOOLEAN /\ monitorRun.isServed \in BOOLEAN
       /\ monitorRun.scope \in Spaces

IsKnown == "history" \notin excused
KeptBy(id) == Of(id, runsKept[HomeOf(id)])
HasPassed(id) == lastVerdict[id] # "failed"
OwnRecord == [monitor |-> monitorRun.entry.id, passed |-> monitorRun.passed]

\* the record of the run is kept and not shown yet
IsRecorded(id) == monitorRun.phase = "saving" /\ monitorRun.isServed /\ monitorRun.entry.id = id

\* At most the history of this workspace is being read, and no run is being kept meanwhile.
ReadInv ==
  reads # <<>> =>
    /\ Len(reads) = 1 /\ reads[1].scope = space
    /\ Here(space) \subseteq reads[1].ids
    /\ \A id \in reads[1].ids : HomeOf(id) = space
    /\ reads[1].isServed => reads[1].got = runsKept[space]
    /\ monitorRun.phase \notin {"saving", "announcing"}

\* A run is of this workspace.
HomeInv ==
  monitorRun # NoRun =>
    /\ HomeOf(monitorRun.entry.id) = space
    /\ monitorRun.phase = "running" => monitorRun.started = space
    /\ monitorRun.phase = "saving" => monitorRun.scope = space

\* What a run compares its verdict with is how the last one kept went.
ChangeInv ==
  (monitorRun # NoRun /\ monitorRun.entry.id \in Here(space)) =>
    /\ monitorRun.phase = "saving" /\ ~monitorRun.isServed =>
         (monitorRun.hadPassed <=> HasPassed(monitorRun.entry.id))
    /\ monitorRun.phase = "saving" /\ monitorRun.isServed =>
         announcement = [is |-> FALSE, should |-> monitorRun.passed # monitorRun.hadPassed]
    /\ monitorRun.phase = "announcing" => announcement.is = announcement.should

\* The last record of a monitor that is still kept is its last run.
VerdictInv ==
  /\ \A id \in Ids : KeptBy(id) # <<>> => (Last(KeptBy(id)).passed <=> HasPassed(id))
  /\ monitorRun.phase = "saving" /\ monitorRun.isServed => (monitorRun.passed <=> HasPassed(monitorRun.entry.id))

\* the history of id once the run that is being kept is shown
Shown(id) == IF IsRecorded(id) THEN LastOf(Append(histories[id], OwnRecord), Retention) ELSE histories[id]

ShownInv ==
  reads = <<>> =>
    \A id \in Here(space) :
      /\ id \in DOMAIN histories
      /\ EndsWith(Shown(id), KeptBy(id))
      /\ ~IsRecorded(id) => (Previous(id) <=> HasPassed(id))

HistoryInv == IsKnown => ReadInv /\ HomeInv /\ ChangeInv /\ VerdictInv /\ ShownInv

LEMMA InitHistory == MoInit => HistoryTypes /\ HistoryInv
<1> SUFFICES ASSUME MoInit PROVE HistoryTypes /\ HistoryInv
  OBVIOUS
<1> DEFINE r == [scope |-> space, ids |-> {id \in DOMAIN Definitions : Definitions[id].home = space},
                 isServed |-> FALSE, got |-> <<>>]
<1>1. reads = <<r>> /\ r \in ReadRecord
  BY DEF MoInit, ReadRecord, Ids
<1>2. reads \in Seq(ReadRecord) /\ Len(reads) = 1 /\ reads[1] = r /\ reads # <<>>
  BY <1>1
<1>3. runsKept = [w \in Spaces |-> <<>>] /\ <<>> \in Seq(Record) /\ Len(<<>>) = 0
  BY DEF MoInit
<1>4. Retention \in Nat \ {0}
  BY MonitorsAssumption
<1>5. HistoryTypes
  <2>1. runsKept \in [Spaces -> Seq(Record)] /\ \A w \in Spaces : Len(runsKept[w]) <= Retention
    BY <1>3, <1>4
  <2>2. \A id \in DOMAIN histories : histories[id] \in Seq(Record)
    BY DEF MoInit
  <2>3. lastVerdict \in [Ids -> {"none", "passed", "failed"}]
    BY DEF MoInit, Ids
  <2>4. \A id \in DOMAIN monitors : monitors[id].home = HomeOf(id)
    BY DEF MoInit, HomeOf
  <2>5. monitorRun.phase # "saving"
    BY DEF MoInit, NoRun
  <2> QED BY <1>2, <2>1, <2>2, <2>3, <2>4, <2>5 DEF HistoryTypes
<1>6. ReadInv
  BY <1>2 DEF MoInit, ReadInv, Here, HomeOf, NoRun
<1>7. HomeInv /\ ChangeInv
  BY DEF MoInit, HomeInv, ChangeInv
<1>8. VerdictInv
  <2>1. ASSUME NEW id \in Ids PROVE KeptBy(id) = <<>>
    <3>1. HomeOf(id) \in Spaces
      BY MonitorsAssumption DEF HomeOf, Ids
    <3>2. runsKept[HomeOf(id)] = <<>>
      BY <1>3, <3>1
    <3>3. Of(id, <<>>) \in Seq(Record) /\ Len(Of(id, <<>>)) <= 0
      BY <1>3, OfTypes
    <3>4. Of(id, <<>>) = <<>>
      BY <3>3, EmptySeq
    <3> QED BY <3>2, <3>4 DEF KeptBy
  <2>2. monitorRun.phase # "saving"
    BY DEF MoInit, NoRun
  <2> QED BY <2>1, <2>2 DEF VerdictInv
<1>9. ShownInv
  BY <1>2 DEF ShownInv
<1> QED BY <1>5, <1>6, <1>7, <1>8, <1>9 DEF HistoryInv

-----------------------------------------------------------------------------
(* Steps that leave runs, records and reads alone *)

LEMMA HomesAreKnown == \A id \in Ids : HomeOf(id) \in Spaces
BY MonitorsAssumption DEF HomeOf, Ids

LEMMA KeptByStays ==
  ASSUME UNCHANGED runsKept
  PROVE  \A id : KeptBy(id)' = KeptBy(id)
BY DEF KeptBy, HomeOf

\* monitors stay or go, with their histories
LEMMA QuietKeepsHistory ==
  ASSUME HistoryTypes, HistoryInv,
         UNCHANGED <<space, monitorRun, runsKept, reads, lastVerdict, announcement>>,
         excused \subseteq excused',
         DOMAIN monitors' \subseteq DOMAIN monitors,
         \A id \in DOMAIN monitors' : monitors'[id].home = monitors[id].home,
         DOMAIN histories' \subseteq DOMAIN histories,
         \A id \in DOMAIN histories' : histories'[id] = histories[id],
         \A id \in DOMAIN monitors' : id \in DOMAIN histories => id \in DOMAIN histories'
  PROVE  HistoryTypes' /\ HistoryInv'
<1>1. HistoryTypes'
  BY DEF HistoryTypes, HomeOf
<1>2. SUFFICES ASSUME IsKnown' PROVE (ReadInv /\ HomeInv /\ ChangeInv /\ VerdictInv /\ ShownInv)'
  BY <1>1 DEF HistoryInv
<1>3. ReadInv /\ HomeInv /\ ChangeInv /\ VerdictInv /\ ShownInv
  BY <1>2 DEF HistoryInv, IsKnown
<1>4. Here(space)' \subseteq Here(space) /\ \A id \in Here(space)' : id \in DOMAIN monitors'
  BY DEF Here
<1>5. /\ \A id : KeptBy(id)' = KeptBy(id)
      /\ \A id : HasPassed(id)' = HasPassed(id)
      /\ \A id : IsRecorded(id)' = IsRecorded(id)
      /\ OwnRecord' = OwnRecord
  BY KeptByStays DEF HasPassed, IsRecorded, OwnRecord
<1>6. ReadInv'
  BY <1>3, <1>4 DEF ReadInv, HomeOf
<1>7. HomeInv'
  BY <1>3 DEF HomeInv, HomeOf
<1>8. ChangeInv'
  BY <1>3, <1>4, <1>5 DEF ChangeInv
<1>9. VerdictInv'
  BY <1>3, <1>5 DEF VerdictInv
<1>10. ShownInv'
  <2> SUFFICES ASSUME reads = <<>>, NEW id \in Here(space)'
               PROVE  /\ id \in DOMAIN histories'
                      /\ EndsWith(Shown(id)', KeptBy(id)')
                      /\ ~IsRecorded(id)' => (Previous(id)' <=> HasPassed(id)')
    BY DEF ShownInv, EndsWith
  <2>1. /\ id \in DOMAIN histories /\ EndsWith(Shown(id), KeptBy(id))
        /\ ~IsRecorded(id) => (Previous(id) <=> HasPassed(id))
    BY <1>3, <1>4 DEF ShownInv
  <2>2. id \in DOMAIN histories' /\ histories'[id] = histories[id]
    BY <1>4, <2>1
  <2>3. Shown(id)' = Shown(id)
    BY <1>5, <2>2 DEF Shown
  <2>4. Previous(id)' = Previous(id)
    BY <2>1, <2>2 DEF Previous
  <2> QED BY <1>5, <2>1, <2>2, <2>3, <2>4
<1> QED BY <1>6, <1>7, <1>8, <1>9, <1>10

LEMMA EditsKeepHistory ==
  ASSUME MonitorTypes, HistoryTypes, HistoryInv,
         \/ \E id \in DOMAIN monitors :
              \/ TimerFires(id) \/ RunNow(id) \/ TogglePause(id) \/ RemoveMonitor(id) \/ RemoveReturns(id)
              \/ \E w \in Spaces : SaveMonitor(id, chosen[w])
         \/ \E w \in Spaces : ChooseEnvironment(Chosen[w])
         \/ UNCHANGED moVars
  PROVE  HistoryTypes' /\ HistoryInv'
<1>1. UNCHANGED <<space, monitorRun, runsKept, reads, lastVerdict, announcement>> /\ excused \subseteq excused'
  BY DEF TimerFires, RunNow, TogglePause, RemoveMonitor, RemoveReturns, SaveMonitor, ChooseEnvironment, moVars
<1>2. CASE \E id \in DOMAIN monitors : RemoveReturns(id)
  <2> PICK id \in DOMAIN monitors : RemoveReturns(id)
    BY <1>2
  <2>1. CASE monitors[id].home # space
    <3>1. UNCHANGED <<monitors, histories>>
      BY <2>1 DEF RemoveReturns
    <3> QED BY <1>1, <3>1, QuietKeepsHistory
  <2>2. CASE monitors[id].home = space
    <3>1. /\ monitors' = [m \in DOMAIN monitors \ {id} |-> monitors[m]]
          /\ histories' = [m \in DOMAIN histories \ {id} |-> histories[m]]
      BY <2>2 DEF RemoveReturns
    <3>2. /\ DOMAIN monitors' = DOMAIN monitors \ {id} /\ DOMAIN histories' = DOMAIN histories \ {id}
          /\ \A m \in DOMAIN monitors' : monitors'[m] = monitors[m]
          /\ \A m \in DOMAIN histories' : histories'[m] = histories[m]
      BY <3>1
    <3> QED BY <1>1, <3>2, QuietKeepsHistory
  <2> QED BY <2>1, <2>2
<1>3. CASE ~\E id \in DOMAIN monitors : RemoveReturns(id)
  <2>1. UNCHANGED histories
    BY <1>3 DEF TimerFires, RunNow, TogglePause, RemoveMonitor, SaveMonitor, ChooseEnvironment, moVars
  <2>2. DOMAIN monitors' = DOMAIN monitors /\ \A m \in DOMAIN monitors' : monitors'[m].home = monitors[m].home
    <3>1. ASSUME NEW id \in DOMAIN monitors, NEW x,
                 monitors' = [monitors EXCEPT ![id] = x], x.home = monitors[id].home
          PROVE  DOMAIN monitors' = DOMAIN monitors /\ \A m \in DOMAIN monitors' : monitors'[m].home = monitors[m].home
      BY <3>1 DEF MonitorTypes
    <3>2. ASSUME NEW id \in DOMAIN monitors, TogglePause(id)
          PROVE  DOMAIN monitors' = DOMAIN monitors /\ \A m \in DOMAIN monitors' : monitors'[m].home = monitors[m].home
      <4> DEFINE x == [monitors[id] EXCEPT !.isPaused = ~monitors[id].isPaused]
      <4>1. monitors' = [monitors EXCEPT ![id] = x]
        BY <3>2 DEF TogglePause
      <4>2. x.home = monitors[id].home
        BY DEF MonitorTypes, Definition
      <4> HIDE DEF x
      <4> QED BY <3>1, <4>1, <4>2
    <3>3. ASSUME NEW id \in DOMAIN monitors, NEW w \in Spaces, SaveMonitor(id, chosen[w])
          PROVE  DOMAIN monitors' = DOMAIN monitors /\ \A m \in DOMAIN monitors' : monitors'[m].home = monitors[m].home
      <4> DEFINE x == [monitors[id] EXCEPT !.environment = chosen[w]]
      <4>1. monitors' = [monitors EXCEPT ![id] = x]
        BY <3>3 DEF SaveMonitor
      <4>2. x.home = monitors[id].home
        BY DEF MonitorTypes, Definition
      <4> HIDE DEF x
      <4> QED BY <3>1, <4>1, <4>2
    <3>4. CASE UNCHANGED monitors
      BY <3>4
    <3> QED BY <1>3, <3>2, <3>3, <3>4 DEF TimerFires, RunNow, RemoveMonitor, ChooseEnvironment, moVars
  <2> QED BY <1>1, <2>1, <2>2, QuietKeepsHistory
<1> QED BY <1>2, <1>3

-----------------------------------------------------------------------------
(* Runs *)

\* a run that is over without a record that is not shown
LEMMA EndKeepsHistory ==
  ASSUME HistoryTypes, HistoryInv,
         UNCHANGED <<space, monitors, histories, runsKept, reads, lastVerdict, announcement, excused>>,
         monitorRun' = NoRun, \A id : ~IsRecorded(id)
  PROVE  HistoryTypes' /\ HistoryInv'
<1>1. monitorRun'.phase = "none"
  BY DEF NoRun
<1>2. HistoryTypes'
  BY <1>1 DEF HistoryTypes, HomeOf
<1>3. SUFFICES ASSUME IsKnown' PROVE (ReadInv /\ HomeInv /\ ChangeInv /\ VerdictInv /\ ShownInv)'
  BY <1>2 DEF HistoryInv
<1>4. ReadInv /\ VerdictInv /\ ShownInv
  BY <1>3 DEF HistoryInv, IsKnown
<1>5. Here(space)' = Here(space)
  BY DEF Here
<1>6. /\ \A id : KeptBy(id)' = KeptBy(id)
      /\ \A id : HasPassed(id)' = HasPassed(id)
      /\ \A id : ~IsRecorded(id)'
      /\ \A id : Previous(id)' = Previous(id)
  BY <1>1, KeptByStays DEF HasPassed, IsRecorded, Previous
<1>7. \A id : Shown(id)' = Shown(id)
  BY <1>6 DEF Shown
<1>8. ReadInv'
  BY <1>1, <1>4, <1>5 DEF ReadInv, HomeOf
<1>9. HomeInv' /\ ChangeInv'
  BY DEF HomeInv, ChangeInv
<1>10. VerdictInv'
  BY <1>1, <1>4, <1>6 DEF VerdictInv
<1>11. ShownInv'
  BY <1>4, <1>5, <1>6, <1>7 DEF ShownInv
<1> QED BY <1>8, <1>9, <1>10, <1>11

LEMMA EndsKeepHistory ==
  ASSUME MonitorTypes, HistoryTypes, HistoryInv, RunBreaks \/ KeepFails \/ RunIsOver
  PROVE  HistoryTypes' /\ HistoryInv'
<1>1. /\ UNCHANGED <<space, monitors, histories, runsKept, reads, lastVerdict, announcement, excused>>
      /\ monitorRun' = NoRun
  BY DEF RunBreaks, KeepFails, RunIsOver
<1>2. \A id : ~IsRecorded(id)
  BY DEF RunBreaks, KeepFails, RunIsOver, IsRecorded
<1> QED BY <1>1, <1>2, EndKeepsHistory

LEMMA BeginKeepsHistory ==
  ASSUME MonitorTypes, HistoryTypes, HistoryInv, BeginRun
  PROVE  HistoryTypes' /\ HistoryInv'
<1> DEFINE entry == Head(runQueue)
<1>1. /\ UNCHANGED <<space, monitors, histories, runsKept, reads, lastVerdict, announcement, excused>>
      /\ monitorRun = NoRun
  BY DEF BeginRun
<1>2. CASE UNCHANGED monitorRun
  BY <1>1, <1>2, QuietKeepsHistory
<1>3. CASE /\ entry.id \in Here(space)
           /\ monitorRun' = [phase |-> "running", entry |-> entry, before |-> environment,
                             wanted |-> monitors[entry.id].environment, started |-> space]
  <2>1. monitorRun'.phase = "running" /\ monitorRun'.entry = entry /\ monitorRun'.started = space
    BY <1>3
  <2>2. HomeOf(entry.id) = space
    BY <1>3 DEF HistoryTypes, Here
  <2>3. HistoryTypes'
    BY <1>1, <2>1 DEF HistoryTypes, HomeOf
  <2>4. SUFFICES ASSUME IsKnown' PROVE (ReadInv /\ HomeInv /\ ChangeInv /\ VerdictInv /\ ShownInv)'
    BY <2>3 DEF HistoryInv
  <2>5. ReadInv /\ VerdictInv /\ ShownInv
    BY <1>1, <2>4 DEF HistoryInv, IsKnown
  <2>6. Here(space)' = Here(space)
    BY <1>1 DEF Here
  <2>7. /\ \A id : KeptBy(id)' = KeptBy(id)
        /\ \A id : HasPassed(id)' = HasPassed(id)
        /\ \A id : ~IsRecorded(id)' /\ ~IsRecorded(id)
        /\ \A id : Previous(id)' = Previous(id)
    BY <1>1, <2>1, KeptByStays DEF HasPassed, IsRecorded, Previous, NoRun
  <2>8. \A id : Shown(id)' = Shown(id)
    BY <1>1, <2>7 DEF Shown
  <2>9. ReadInv'
    BY <1>1, <2>1, <2>5, <2>6 DEF ReadInv, HomeOf
  <2>10. HomeInv'
    BY <1>1, <2>1, <2>2 DEF HomeInv, HomeOf
  <2>11. ChangeInv'
    BY <2>1 DEF ChangeInv
  <2>12. VerdictInv'
    BY <2>1, <2>5, <2>7 DEF VerdictInv
  <2>13. ShownInv'
    BY <1>1, <2>5, <2>6, <2>7, <2>8 DEF ShownInv
  <2> QED BY <2>9, <2>10, <2>11, <2>12, <2>13
<1> QED BY <1>2, <1>3 DEF BeginRun

LEMMA RunEndsKeepsHistory ==
  ASSUME MonitorTypes, HistoryTypes, HistoryInv, NEW passed \in BOOLEAN, RunEnds(passed)
  PROVE  HistoryTypes' /\ HistoryInv'
<1> DEFINE id == monitorRun.entry.id
           had == Previous(id)
<1>1. /\ monitorRun.phase = "running"
      /\ UNCHANGED <<space, monitors, histories, runsKept, reads, lastVerdict, announcement>>
      /\ monitorRun' = [phase |-> "saving", entry |-> monitorRun.entry, passed |-> passed, scope |-> space,
                        hadPassed |-> had, isServed |-> FALSE]
      /\ excused \subseteq excused'
      /\ reads # <<>> \/ monitorRun.started # space => "history" \in excused'
  BY DEF RunEnds
<1>2. had \in BOOLEAN
  <2>1. CASE id \in DOMAIN histories /\ histories[id] # <<>>
    <3>1. histories[id] \in Seq(Record)
      BY <2>1 DEF HistoryTypes
    <3>2. Last(histories[id]) \in Record
      BY <2>1, <3>1 DEF Last
    <3> QED BY <2>1, <3>2 DEF Previous, Record
  <2>2. CASE ~(id \in DOMAIN histories /\ histories[id] # <<>>)
    BY <2>2 DEF Previous
  <2> QED BY <2>1, <2>2
<1> HIDE DEF had
<1>3. /\ monitorRun'.phase = "saving" /\ monitorRun'.entry = monitorRun.entry /\ monitorRun'.passed = passed
      /\ monitorRun'.scope = space /\ monitorRun'.hadPassed = had /\ monitorRun'.isServed = FALSE
  BY <1>1
<1>4. HistoryTypes'
  BY <1>1, <1>2, <1>3 DEF HistoryTypes, HomeOf, MonitorTypes
<1>5. SUFFICES ASSUME IsKnown' PROVE (ReadInv /\ HomeInv /\ ChangeInv /\ VerdictInv /\ ShownInv)'
  BY <1>4 DEF HistoryInv
<1>6. ReadInv /\ HomeInv /\ VerdictInv /\ ShownInv
  BY <1>1, <1>5 DEF HistoryInv, IsKnown
<1>7. reads = <<>>
  BY <1>1, <1>5 DEF IsKnown
<1>8. Here(space)' = Here(space)
  BY <1>1 DEF Here
<1>9. /\ \A m : KeptBy(m)' = KeptBy(m)
      /\ \A m : HasPassed(m)' = HasPassed(m)
      /\ \A m : ~IsRecorded(m)' /\ ~IsRecorded(m)
      /\ \A m : Previous(m)' = Previous(m)
  BY <1>1, <1>3, KeptByStays DEF HasPassed, IsRecorded, Previous
<1>10. \A m : Shown(m)' = Shown(m)
  BY <1>1, <1>9 DEF Shown
<1>11. ReadInv'
  BY <1>1, <1>7 DEF ReadInv
<1>12. HomeInv'
  <2>1. monitorRun # NoRun
    BY <1>1 DEF NoRun
  <2> QED BY <1>1, <1>3, <1>6, <2>1 DEF HomeInv, HomeOf
<1>13. ChangeInv'
  <2>1. ASSUME id \in Here(space) PROVE had <=> HasPassed(id)
    BY <1>6, <1>7, <1>9, <2>1 DEF ShownInv, had
  <2> QED BY <1>3, <1>8, <1>9, <2>1 DEF ChangeInv
<1>14. VerdictInv'
  BY <1>3, <1>6, <1>9 DEF VerdictInv
<1>15. ShownInv'
  BY <1>1, <1>6, <1>8, <1>9, <1>10 DEF ShownInv
<1> QED BY <1>11, <1>12, <1>13, <1>14, <1>15

LEMMA KeepRecordKeepsHistory ==
  ASSUME MonitorTypes, HistoryTypes, HistoryInv, KeepRecord
  PROVE  HistoryTypes' /\ HistoryInv'
<1> DEFINE id == monitorRun.entry.id
           w == monitorRun.scope
           rec == [monitor |-> id, passed |-> monitorRun.passed]
           kept == LastOf(Append(runsKept[w], rec), Retention)
           verdict == IF monitorRun.passed THEN "passed" ELSE "failed"
           should == IF monitorRun.passed THEN lastVerdict[id] = "failed" ELSE lastVerdict[id] # "failed"
<1>1. /\ monitorRun.phase = "saving" /\ ~monitorRun.isServed
      /\ UNCHANGED <<space, monitors, histories, reads, excused>>
      /\ runsKept' = [runsKept EXCEPT ![w] = kept]
      /\ lastVerdict' = [lastVerdict EXCEPT ![id] = verdict]
      /\ announcement' = [is |-> FALSE, should |-> should]
      /\ monitorRun' = [monitorRun EXCEPT !.isServed = TRUE]
  BY DEF KeepRecord
<1>2. /\ monitorRun.passed \in BOOLEAN /\ monitorRun.hadPassed \in BOOLEAN /\ w \in Spaces
  BY <1>1 DEF HistoryTypes
<1>3. monitorRun.entry \in Entry /\ id \in Ids
  BY <1>1 DEF MonitorTypes, RunIsFormed, NoRun, Entry
<1>4. /\ monitorRun'.phase = "saving" /\ monitorRun'.entry = monitorRun.entry
      /\ monitorRun'.passed = monitorRun.passed /\ monitorRun'.scope = w
      /\ monitorRun'.hadPassed = monitorRun.hadPassed /\ monitorRun'.isServed = TRUE
  BY <1>1 DEF MonitorTypes, RunIsFormed, NoRun
<1>5. rec \in Record /\ rec.monitor = id /\ rec.passed = monitorRun.passed
  BY <1>2, <1>3 DEF Record
<1>6. runsKept[w] \in Seq(Record) /\ Len(runsKept[w]) <= Retention /\ Retention \in Nat \ {0}
  BY <1>2, MonitorsAssumption DEF HistoryTypes
<1> HIDE DEF rec
<1>7. kept \in Seq(Record) /\ Len(kept) <= Retention
  BY <1>5, <1>6, KeptEnds
<1>8. /\ verdict \in {"none", "passed", "failed"}
      /\ verdict # "failed" <=> monitorRun.passed
  BY <1>2
<1>a. ASSUME NEW m
      PROVE  /\ Of(m, kept) \in Seq(Record) /\ Len(Of(m, kept)) <= Retention /\ Of(m, runsKept[w]) \in Seq(Record)
             /\ EndsWith(IF m = id THEN Append(Of(m, runsKept[w]), rec) ELSE Of(m, runsKept[w]), Of(m, kept))
  BY <1>5, <1>6, KeptEnds
<1> HIDE DEF kept, verdict
<1>9. HistoryTypes'
  <2>1. runsKept' \in [Spaces -> Seq(Record)]
    BY <1>1, <1>7 DEF HistoryTypes
  <2>2. \A v \in Spaces : Len(runsKept'[v]) <= Retention
    BY <1>1, <1>7 DEF HistoryTypes
  <2>3. lastVerdict' \in [Ids -> {"none", "passed", "failed"}]
    BY <1>1, <1>8 DEF HistoryTypes
  <2> QED BY <1>1, <1>2, <1>4, <2>1, <2>2, <2>3 DEF HistoryTypes, HomeOf
<1>10. SUFFICES ASSUME IsKnown' PROVE (ReadInv /\ HomeInv /\ ChangeInv /\ VerdictInv /\ ShownInv)'
  BY <1>9 DEF HistoryInv
<1>11. ReadInv /\ HomeInv /\ ChangeInv /\ VerdictInv /\ ShownInv
  BY <1>1, <1>10 DEF HistoryInv, IsKnown
<1>12. reads = <<>> /\ w = space /\ HomeOf(id) = space
  BY <1>1, <1>11 DEF ReadInv, HomeInv, NoRun
<1>13. Here(space)' = Here(space)
  BY <1>1 DEF Here
<1>14. /\ \A m : Previous(m)' = Previous(m)
       /\ \A m : ~IsRecorded(m)
       /\ \A m : IsRecorded(m)' <=> m = id
       /\ OwnRecord' = rec
  BY <1>1, <1>4 DEF Previous, IsRecorded, OwnRecord, rec
<1>15. /\ \A m \in Ids : HomeOf(m) = space => KeptBy(m)' = Of(m, kept) /\ KeptBy(m) = Of(m, runsKept[w])
       /\ \A m \in Ids : HomeOf(m) # space => KeptBy(m)' = KeptBy(m)
  <2>1. runsKept'[space] = kept /\ \A v \in Spaces : v # space => runsKept'[v] = runsKept[v]
    BY <1>1, <1>2, <1>12 DEF HistoryTypes
  <2> QED BY <1>12, <2>1, HomesAreKnown DEF KeptBy, HomeOf
<1>16. (HasPassed(id)' <=> monitorRun.passed) /\ \A m \in Ids : m # id => HasPassed(m)' = HasPassed(m)
  BY <1>1, <1>3, <1>8 DEF HasPassed, HistoryTypes
<1>17. ReadInv'
  BY <1>1, <1>12 DEF ReadInv
<1>18. HomeInv'
  BY <1>1, <1>4, <1>12 DEF HomeInv, HomeOf
<1>19. ChangeInv'
  <2>1. ASSUME id \in Here(space) PROVE should = (monitorRun.passed # monitorRun.hadPassed)
    <3>1. monitorRun.hadPassed <=> lastVerdict[id] # "failed"
      BY <1>1, <1>11, <2>1 DEF ChangeInv, HasPassed, NoRun
    <3> QED BY <1>2, <3>1
  <2> HIDE DEF should
  <2> QED BY <1>1, <1>4, <1>13, <2>1 DEF ChangeInv
<1>20. VerdictInv'
  <2>1. ASSUME NEW m \in Ids, KeptBy(m)' # <<>> PROVE Last(KeptBy(m)').passed <=> HasPassed(m)'
    <3>1. CASE HomeOf(m) # space
      BY <1>11, <1>12, <1>15, <1>16, <2>1, <3>1 DEF VerdictInv
    <3>2. CASE m = id
      <4> DEFINE long == Append(Of(id, runsKept[w]), rec)
      <4>1. long \in Seq(Record) /\ Last(long) = rec
        BY <1>5, <1>a DEF Last
      <4>2. EndsWith(long, Of(id, kept))
        BY <1>a
      <4> HIDE DEF long
      <4>3. Last(Of(id, kept)) = rec
        BY <1>12, <1>15, <1>a, <2>1, <3>2, <4>1, <4>2, EndsAlike
      <4>4. KeptBy(m)' = Of(id, kept)
        BY <1>3, <1>12, <1>15, <3>2
      <4>5. HasPassed(m)' <=> rec.passed
        BY <1>4, <1>5, <1>16, <3>2
      <4> QED BY <4>3, <4>4, <4>5
    <3>3. CASE HomeOf(m) = space /\ m # id
      <4>1. EndsWith(Of(m, runsKept[w]), Of(m, kept)) /\ Of(m, runsKept[w]) \in Seq(Record) /\ Of(m, kept) \in Seq(Record)
        BY <1>a, <3>3
      <4>2. KeptBy(m) # <<>> /\ Last(KeptBy(m)) = Last(KeptBy(m)')
        BY <1>15, <2>1, <3>3, <4>1, EndsAlike
      <4> QED BY <1>11, <1>16, <3>3, <4>2 DEF VerdictInv
    <3> QED BY <3>1, <3>2, <3>3
  <2>2. monitorRun'.passed <=> HasPassed(id)'
    BY <1>4, <1>16
  <2> QED BY <1>4, <2>1, <2>2 DEF VerdictInv
<1>21. ShownInv'
  <2> SUFFICES ASSUME NEW m \in Here(space)
               PROVE  /\ m \in DOMAIN histories'
                      /\ EndsWith(Shown(m)', KeptBy(m)')
                      /\ ~IsRecorded(m)' => (Previous(m)' <=> HasPassed(m)')
    BY <1>13 DEF ShownInv, EndsWith
  <2>1. /\ m \in DOMAIN histories /\ EndsWith(Shown(m), KeptBy(m)) /\ (Previous(m) <=> HasPassed(m))
        /\ Shown(m) = histories[m]
    BY <1>11, <1>12, <1>14 DEF ShownInv, Shown
  <2>2. m \in Ids /\ HomeOf(m) = space /\ histories[m] \in Seq(Record)
    BY <2>1 DEF Here, HistoryTypes, MonitorTypes
  <2>3. EndsWith(histories[m], Of(m, runsKept[w]))
    BY <1>15, <2>1, <2>2
  <2>4. CASE m = id
    <3> DEFINE long == Append(Of(m, runsKept[w]), rec)
               next == Append(histories[m], rec)
    <3>1. long \in Seq(Record) /\ next \in Seq(Record)
      BY <1>5, <1>a, <2>2
    <3>2. EndsWith(next, long)
      BY <1>5, <1>a, <2>2, <2>3, EndsAppended
    <3>3. EndsWith(long, Of(m, kept))
      BY <1>a, <2>4
    <3>4. Shown(m)' = LastOf(next, Retention)
      BY <1>1, <1>14, <2>4 DEF Shown
    <3> HIDE DEF long, next
    <3>5. EndsWith(next, Of(m, kept))
      BY <1>a, <3>1, <3>2, <3>3, EndsTransitively
    <3>6. EndsWith(LastOf(next, Retention), Of(m, kept))
      BY <1>6, <1>a, <3>1, <3>5, LastOfEnds
    <3> QED BY <1>1, <1>14, <1>15, <2>1, <2>2, <2>4, <3>4, <3>6
  <2>5. CASE m # id
    <3>1. EndsWith(Of(m, runsKept[w]), Of(m, kept))
      BY <1>a, <2>5
    <3>2. EndsWith(histories[m], Of(m, kept))
      BY <1>a, <2>2, <2>3, <3>1, EndsTransitively
    <3>3. Shown(m)' = histories[m]
      BY <1>1, <1>14, <2>5 DEF Shown
    <3> QED BY <1>1, <1>14, <1>15, <1>16, <2>1, <2>2, <2>5, <3>2, <3>3
  <2> QED BY <2>4, <2>5
<1> QED BY <1>17, <1>18, <1>19, <1>20, <1>21

LEMMA RunIsKeptKeepsHistory ==
  ASSUME MonitorTypes, HistoryTypes, HistoryInv, RunIsKept
  PROVE  HistoryTypes' /\ HistoryInv'
<1> DEFINE id == monitorRun.entry.id
           rec == [monitor |-> id, passed |-> monitorRun.passed]
           shown == IF id \in DOMAIN histories THEN histories[id] ELSE <<>>
           line == LastOf(Append(shown, rec), Retention)
           said == Announces(monitorRun.passed, monitorRun.hadPassed)
<1>1. /\ monitorRun.phase = "saving" /\ monitorRun.isServed
      /\ UNCHANGED <<space, monitors, runsKept, reads, lastVerdict>>
      /\ histories' = [m \in DOMAIN histories \cup {id} |-> IF m = id THEN line ELSE histories[m]]
      /\ announcement' = [announcement EXCEPT !.is = said]
      /\ monitorRun' = [phase |-> "announcing", entry |-> monitorRun.entry]
      /\ excused \subseteq excused'
  BY DEF RunIsKept
<1>2. /\ monitorRun.passed \in BOOLEAN /\ monitorRun.hadPassed \in BOOLEAN
  BY <1>1 DEF HistoryTypes
<1>3. monitorRun.entry \in Entry /\ id \in Ids
  BY <1>1 DEF MonitorTypes, RunIsFormed, NoRun, Entry
<1>4. monitorRun'.phase = "announcing" /\ monitorRun'.entry = monitorRun.entry /\ monitorRun' # NoRun
  BY <1>1 DEF NoRun
<1>5. rec \in Record /\ rec.passed = monitorRun.passed /\ Retention \in Nat \ {0}
  BY <1>2, <1>3, MonitorsAssumption DEF Record
<1> HIDE DEF rec
<1>6. shown \in Seq(Record)
  BY DEF HistoryTypes
<1> HIDE DEF shown
<1>7. line \in Seq(Record) /\ line # <<>> /\ Last(line) = rec
  <2> DEFINE long == Append(shown, rec)
  <2>1. long \in Seq(Record) /\ long # <<>> /\ Last(long) = rec
    BY <1>5, <1>6 DEF Last
  <2> HIDE DEF long
  <2>2. LastOf(long, Retention) \in Seq(Record) /\ LastOf(long, Retention) # <<>> /\ EndsWith(long, LastOf(long, Retention))
    BY <1>5, <2>1, LastOfEnds
  <2>3. Last(LastOf(long, Retention)) = rec
    BY <2>1, <2>2, EndsAlike
  <2> QED BY <2>2, <2>3 DEF long
<1> HIDE DEF line
<1>8. /\ DOMAIN histories' = DOMAIN histories \cup {id} /\ histories'[id] = line
      /\ \A m \in DOMAIN histories : m # id => histories'[m] = histories[m]
  BY <1>1
<1>9. HistoryTypes'
  <2>1. \A m \in DOMAIN histories' : histories'[m] \in Seq(Record)
    BY <1>7, <1>8 DEF HistoryTypes
  <2> QED BY <1>1, <1>4, <2>1 DEF HistoryTypes, HomeOf
<1>10. SUFFICES ASSUME IsKnown' PROVE (ReadInv /\ HomeInv /\ ChangeInv /\ VerdictInv /\ ShownInv)'
  BY <1>9 DEF HistoryInv
<1>11. ReadInv /\ HomeInv /\ ChangeInv /\ VerdictInv /\ ShownInv
  BY <1>1, <1>10 DEF HistoryInv, IsKnown
<1>12. reads = <<>> /\ HomeOf(id) = space
  BY <1>1, <1>11 DEF ReadInv, HomeInv, NoRun
<1>13. Here(space)' = Here(space)
  BY <1>1 DEF Here
<1>14. /\ \A m : KeptBy(m)' = KeptBy(m)
       /\ \A m : HasPassed(m)' = HasPassed(m)
       /\ \A m : ~IsRecorded(m)'
       /\ \A m : IsRecorded(m) <=> m = id
       /\ OwnRecord = rec
  BY <1>1, <1>4, KeptByStays DEF HasPassed, IsRecorded, OwnRecord, rec
<1>15. ReadInv'
  BY <1>1, <1>12 DEF ReadInv
<1>16. HomeInv'
  BY <1>1, <1>4, <1>12 DEF HomeInv, HomeOf
<1>17. ChangeInv'
  <2>1. ASSUME id \in Here(space) PROVE announcement'.is = announcement'.should
    <3>1. announcement = [is |-> FALSE, should |-> monitorRun.passed # monitorRun.hadPassed]
      BY <1>1, <1>11, <2>1 DEF ChangeInv, NoRun
    <3>2. said = (monitorRun.passed # monitorRun.hadPassed)
      BY DEF Announces
    <3> HIDE DEF said
    <3> QED BY <1>1, <3>1, <3>2
  <2> QED BY <1>4, <1>13, <2>1 DEF ChangeInv
<1>18. VerdictInv'
  BY <1>4, <1>11, <1>14 DEF VerdictInv
<1>19. ShownInv'
  <2> SUFFICES ASSUME NEW m \in Here(space)
               PROVE  /\ m \in DOMAIN histories'
                      /\ EndsWith(Shown(m)', KeptBy(m)')
                      /\ ~IsRecorded(m)' => (Previous(m)' <=> HasPassed(m)')
    BY <1>13 DEF ShownInv, EndsWith
  <2>1. /\ m \in DOMAIN histories /\ EndsWith(Shown(m), KeptBy(m))
        /\ ~IsRecorded(m) => (Previous(m) <=> HasPassed(m))
    BY <1>11, <1>12 DEF ShownInv
  <2>2. Shown(m)' = histories'[m]
    BY <1>14 DEF Shown
  <2>3. CASE m = id
    <3>1. Shown(m) = line
      BY <1>14, <2>1, <2>3 DEF Shown, line, shown
    <3>2. Previous(m)' <=> rec.passed
      BY <1>7, <1>8, <2>3 DEF Previous
    <3>3. rec.passed <=> HasPassed(m)
      BY <1>1, <1>5, <1>11, <2>3 DEF VerdictInv
    <3> QED BY <1>8, <1>14, <2>1, <2>2, <2>3, <3>1, <3>2, <3>3
  <2>4. CASE m # id
    <3>1. Shown(m) = histories[m] /\ histories'[m] = histories[m] /\ m \in DOMAIN histories'
      BY <1>8, <1>14, <2>1, <2>4 DEF Shown
    <3>2. Previous(m)' = Previous(m)
      BY <2>1, <3>1 DEF Previous
    <3> QED BY <1>14, <2>1, <2>2, <2>4, <3>1, <3>2
  <2> QED BY <2>3, <2>4
<1> QED BY <1>15, <1>16, <1>17, <1>18, <1>19

-----------------------------------------------------------------------------
(* Reads, and changes of the workspace *)

LEMMA ReadsAreFormed ==
  ASSUME MonitorTypes, HistoryTypes, NEW w \in Spaces
  PROVE  /\ Read(w) \in ReadRecord /\ Read(w).scope = w /\ Read(w).ids = Here(w)
         /\ ~Read(w).isServed
         /\ \A id \in Here(w) : HomeOf(id) = w
BY EmptySeq DEF Read, ReadRecord, Here, MonitorTypes, HistoryTypes

\* a workspace is entered, or the program begins again: its history is read
LEMMA ReadingKeepsHistory ==
  ASSUME MonitorTypes, HistoryTypes, HistoryInv, space' \in Spaces,
         UNCHANGED <<monitors, runsKept, lastVerdict>>, histories' = <<>>,
         excused \subseteq excused',
         \/ UNCHANGED monitorRun /\ reads' = Append(reads, Read(space'))
            /\ (monitorRun # NoRun \/ reads # <<>> => "history" \in excused')
         \/ monitorRun' = NoRun /\ reads' = <<Read(space')>>
            /\ (monitorRun # NoRun => "history" \in excused')
  PROVE  HistoryTypes' /\ HistoryInv'
<1> DEFINE r == Read(space')
<1>1. /\ r \in ReadRecord /\ r.scope = space' /\ r.ids = Here(space') /\ ~r.isServed
      /\ \A id \in Here(space') : HomeOf(id) = space'
  BY ReadsAreFormed
<1>2. Here(space)' = Here(space')
  BY DEF Here
<1> HIDE DEF r
<1>3. reads \in Seq(ReadRecord)
  BY DEF HistoryTypes
<1>4. reads' = Append(reads, r) \/ reads' = <<r>>
  BY DEF r
<1>5. reads' \in Seq(ReadRecord)
  <2>1. Append(reads, r) \in Seq(ReadRecord) /\ <<r>> \in Seq(ReadRecord)
    BY <1>1, <1>3, AppendProperties
  <2> QED BY <1>4, <2>1
<1>6. HistoryTypes'
  <2>1. \A id \in DOMAIN histories' : histories'[id] \in Seq(Record)
    OBVIOUS
  <2>2. monitorRun'.phase = "saving" => monitorRun' = monitorRun
    BY DEF NoRun
  <2> QED BY <1>5, <2>1, <2>2 DEF HistoryTypes, HomeOf
<1>7. SUFFICES ASSUME IsKnown' PROVE (ReadInv /\ HomeInv /\ ChangeInv /\ VerdictInv /\ ShownInv)'
  BY <1>6 DEF HistoryInv
<1>8. VerdictInv /\ monitorRun = NoRun /\ monitorRun' = NoRun
  BY <1>7 DEF HistoryInv, IsKnown
<1>9. reads' = <<r>>
  <2>1. CASE reads' = Append(reads, Read(space')) /\ reads = <<>>
    BY <2>1 DEF r
  <2>2. CASE reads' = <<Read(space')>>
    BY <2>2 DEF r
  <2> QED BY <1>7, <2>1, <2>2 DEF IsKnown
<1>10. Len(reads') = 1 /\ reads'[1] = r /\ reads' # <<>>
  BY <1>9
<1>11. ReadInv'
  BY <1>1, <1>2, <1>8, <1>10 DEF ReadInv, HomeOf, NoRun
<1>12. HomeInv' /\ ChangeInv'
  BY <1>8 DEF HomeInv, ChangeInv
<1>13. VerdictInv'
  <2>1. (\A id : KeptBy(id)' = KeptBy(id)) /\ (\A id : HasPassed(id)' = HasPassed(id)) /\ monitorRun'.phase # "saving"
    BY <1>8, KeptByStays DEF HasPassed, NoRun
  <2> QED BY <1>8, <2>1 DEF VerdictInv
<1>14. ShownInv'
  BY <1>10 DEF ShownInv
<1> QED BY <1>11, <1>12, <1>13, <1>14

LEMMA SpacesKeepHistory ==
  ASSUME MonitorTypes, HistoryTypes, HistoryInv, (\E w \in Spaces : EnterSpace(w)) \/ RestartApp
  PROVE  HistoryTypes' /\ HistoryInv'
<1>1. CASE \E w \in Spaces : EnterSpace(w)
  BY <1>1, ReadingKeepsHistory DEF EnterSpace
<1>2. CASE RestartApp
  BY <1>2, ReadingKeepsHistory DEF RestartApp, MonitorTypes
<1> QED BY <1>1, <1>2

LEMMA ServeReadKeepsHistory ==
  ASSUME MonitorTypes, HistoryTypes, HistoryInv, NEW i \in DOMAIN reads, ServeRead(i)
  PROVE  HistoryTypes' /\ HistoryInv'
<1>0. PICK got \in {runsKept[reads[i].scope], <<>>} :
        /\ reads' = [reads EXCEPT ![i].isServed = TRUE, ![i].got = got]
        /\ excused' = excused \cup IF got # runsKept[reads[i].scope] THEN {"history"} ELSE {}
  BY DEF ServeRead
<1> DEFINE r == [reads[i] EXCEPT !.isServed = TRUE, !.got = got]
<1>1. /\ UNCHANGED <<space, monitors, monitorRun, histories, runsKept, lastVerdict, announcement>>
      /\ reads' = [reads EXCEPT ![i] = r] /\ excused \subseteq excused'
  BY <1>0 DEF ServeRead
<1>2. reads \in Seq(ReadRecord) /\ i \in 1..Len(reads) /\ reads[i] \in ReadRecord
  BY DEF HistoryTypes
<1>3. /\ r.scope = reads[i].scope /\ r.ids = reads[i].ids /\ r.isServed = TRUE
      /\ IsKnown' => r.got = runsKept[reads[i].scope]
  BY <1>0, <1>2 DEF ReadRecord, IsKnown
<1>4. r \in ReadRecord
  <2>1. got \in Seq(Record)
    <3>1. runsKept[reads[i].scope] \in Seq(Record)
      BY <1>2 DEF ReadRecord, HistoryTypes
    <3> QED BY <1>0, <3>1, EmptySeq
  <2> QED BY <1>2, <2>1 DEF ReadRecord
<1> HIDE DEF r
<1>5. reads' \in Seq(ReadRecord) /\ Len(reads') = Len(reads) /\ reads'[i] = r /\ reads # <<>> /\ reads' # <<>>
  BY <1>1, <1>2, <1>4
<1>6. HistoryTypes'
  BY <1>1, <1>5 DEF HistoryTypes, HomeOf
<1>7. SUFFICES ASSUME IsKnown' PROVE (ReadInv /\ HomeInv /\ ChangeInv /\ VerdictInv /\ ShownInv)'
  BY <1>6 DEF HistoryInv
<1>8. ReadInv /\ HomeInv /\ ChangeInv /\ VerdictInv
  BY <1>1, <1>7 DEF HistoryInv, IsKnown
<1>9. Here(space)' = Here(space)
  BY <1>1 DEF Here
<1>10. ReadInv'
  <2>a. Len(reads) = 1
    BY <1>5, <1>8 DEF ReadInv
  <2>1. Len(reads) = 1 /\ i = 1
    BY <1>2, <2>a
  <2> QED BY <1>1, <1>3, <1>5, <1>7, <1>8, <1>9, <2>1 DEF ReadInv, HomeOf
<1>11. HomeInv'
  BY <1>1, <1>8 DEF HomeInv, HomeOf
<1>12. ChangeInv' /\ VerdictInv'
  <2>1. (\A id : KeptBy(id)' = KeptBy(id)) /\ (\A id : HasPassed(id)' = HasPassed(id))
    BY <1>1, KeptByStays DEF HasPassed
  <2> QED BY <1>1, <1>8, <1>9, <2>1 DEF ChangeInv, VerdictInv
<1>13. ShownInv'
  BY <1>5 DEF ShownInv
<1> QED BY <1>10, <1>11, <1>12, <1>13

LEMMA AdoptKeepsHistory ==
  ASSUME MonitorTypes, HistoryTypes, HistoryInv, NEW i \in DOMAIN reads, AdoptHistories(i)
  PROVE  HistoryTypes' /\ HistoryInv'
<1> DEFINE r == reads[i]
<1>1. /\ UNCHANGED <<space, monitors, monitorRun, runsKept, lastVerdict, announcement>>
      /\ r.isServed /\ histories' = HistoriesOf(r) /\ reads' = RemoveAt(reads, i)
      /\ excused \subseteq excused' /\ (FailureIsForgotten(r) => "history" \in excused')
  BY DEF AdoptHistories
<1>2. reads \in Seq(ReadRecord) /\ i \in 1..Len(reads) /\ r \in ReadRecord /\ reads # <<>>
  BY DEF HistoryTypes
<1>3. r.ids \subseteq Ids /\ r.got \in Seq(Record)
  BY <1>2 DEF ReadRecord
<1>4. DOMAIN histories' = r.ids /\ \A id \in r.ids : histories'[id] = Of(id, r.got)
  BY <1>1 DEF HistoriesOf
<1>5. reads' \in Seq(ReadRecord)
  <2>1. SubSeq(reads, 1, i - 1) \in Seq(ReadRecord) /\ SubSeq(reads, i + 1, Len(reads)) \in Seq(ReadRecord)
    BY <1>2, SubSeqProperties
  <2> QED BY <1>1, <2>1, ConcatProperties DEF RemoveAt
<1>6. HistoryTypes'
  <2>1. \A id \in DOMAIN histories' : histories'[id] \in Seq(Record)
    BY <1>3, <1>4, OfTypes
  <2> QED BY <1>1, <1>5, <2>1 DEF HistoryTypes, HomeOf
<1>7. SUFFICES ASSUME IsKnown' PROVE (ReadInv /\ HomeInv /\ ChangeInv /\ VerdictInv /\ ShownInv)'
  BY <1>6 DEF HistoryInv
<1>8. ReadInv /\ HomeInv /\ ChangeInv /\ VerdictInv /\ ~FailureIsForgotten(r)
  BY <1>1, <1>7 DEF HistoryInv, IsKnown
<1>9. Here(space)' = Here(space)
  BY <1>1 DEF Here
<1>10. i = 1 /\ Len(reads) = 1
  BY <1>2, <1>8 DEF ReadInv
<1>11. /\ Here(space) \subseteq r.ids /\ r.got = runsKept[space]
       /\ \A id \in r.ids : HomeOf(id) = space
       /\ monitorRun.phase \notin {"saving", "announcing"}
  BY <1>1, <1>2, <1>8, <1>10 DEF ReadInv
<1>12. reads' = <<>>
  <2>1. SubSeq(reads, 1, 1 - 1) = <<>> /\ SubSeq(reads, 1 + 1, 1) = <<>>
    BY SubSeqEmpty
  <2>2. <<>> \o <<>> = <<>>
    OBVIOUS
  <2> QED BY <1>1, <1>10, <2>1, <2>2 DEF RemoveAt
<1>13. ReadInv'
  BY <1>12 DEF ReadInv
<1>14. HomeInv'
  BY <1>1, <1>8 DEF HomeInv, HomeOf
<1>15. (\A id : KeptBy(id)' = KeptBy(id)) /\ (\A id : HasPassed(id)' = HasPassed(id)) /\ \A id : ~IsRecorded(id)'
  BY <1>1, <1>11, KeptByStays DEF HasPassed, IsRecorded
<1>16. ChangeInv' /\ VerdictInv'
  BY <1>1, <1>8, <1>9, <1>15 DEF ChangeInv, VerdictInv
<1>17. ShownInv'
  <2> SUFFICES ASSUME NEW id \in Here(space)
               PROVE  /\ id \in DOMAIN histories'
                      /\ EndsWith(Shown(id)', KeptBy(id)')
                      /\ ~IsRecorded(id)' => (Previous(id)' <=> HasPassed(id)')
    BY <1>9 DEF ShownInv, EndsWith
  <2>1. id \in r.ids /\ id \in Ids /\ HomeOf(id) = space
    BY <1>3, <1>11
  <2>2. histories'[id] = KeptBy(id) /\ id \in DOMAIN histories'
    BY <1>4, <1>11, <2>1 DEF KeptBy
  <2>3. KeptBy(id) \in Seq(Record)
    BY <1>3, <1>11, <2>1, OfTypes DEF KeptBy
  <2>4. Shown(id)' = KeptBy(id)
    BY <1>15, <2>2 DEF Shown
  <2>5. EndsWith(KeptBy(id), KeptBy(id))
    BY <2>3, EndsWithItself
  <2>6. Previous(id)' <=> HasPassed(id)
    <3>1. CASE KeptBy(id) # <<>>
      BY <1>8, <2>1, <2>2, <3>1 DEF Previous, VerdictInv
    <3>2. CASE KeptBy(id) = <<>>
      <4>1. HasPassed(id)
        BY <1>8, <1>11, <2>1, <3>2 DEF FailureIsForgotten, HasPassed, KeptBy
      <4> QED BY <2>2, <3>2, <4>1 DEF Previous
    <3> QED BY <3>1, <3>2
  <2> QED BY <1>15, <2>2, <2>4, <2>5, <2>6
<1> QED BY <1>13, <1>14, <1>16, <1>17

LEMMA StepKeepsHistory ==
  MonitorTypes /\ HistoryTypes /\ HistoryInv /\ [MoNext]_moVars => HistoryTypes' /\ HistoryInv'
BY EditsKeepHistory, EndsKeepHistory, BeginKeepsHistory, RunEndsKeepsHistory, KeepRecordKeepsHistory,
   RunIsKeptKeepsHistory, SpacesKeepHistory, ServeReadKeepsHistory, AdoptKeepsHistory DEF MoNext

LEMMA HistorySuffices ==
  ASSUME MonitorTypes, HistoryTypes, HistoryInv
  PROVE  HistoryIsTold
<1> SUFFICES ASSUME IsKnown
             PROVE  /\ (monitorRun.phase = "announcing" /\ monitorRun.entry.id \in Here(space)) =>
                         announcement.is = announcement.should
                    /\ (reads = <<>> /\ monitorRun.phase # "saving") =>
                         \A id \in DOMAIN histories \cap Here(space) : IsSuffix(Of(id, runsKept[space]), histories[id])
  BY DEF HistoryIsTold, IsKnown
<1>1. (monitorRun.phase = "announcing" /\ monitorRun.entry.id \in Here(space)) => announcement.is = announcement.should
  BY DEF HistoryInv, ChangeInv, NoRun
<1>2. ASSUME reads = <<>>, monitorRun.phase # "saving", NEW id \in DOMAIN histories \cap Here(space)
      PROVE  IsSuffix(Of(id, runsKept[space]), histories[id])
  <2>1. id \in Ids /\ HomeOf(id) = space /\ histories[id] \in Seq(Record) /\ runsKept[space] \in Seq(Record)
    BY DEF Here, HistoryTypes, MonitorTypes
  <2>2. KeptBy(id) = Of(id, runsKept[space]) /\ Of(id, runsKept[space]) \in Seq(Record)
    BY <2>1, OfTypes DEF KeptBy
  <2>3. EndsWith(histories[id], KeptBy(id))
    BY <1>2 DEF HistoryInv, ShownInv, Shown, IsRecorded
  <2> QED BY <2>1, <2>2, <2>3, EndsSuffix
<1> QED BY <1>1, <1>2

(* Outside the excused cases the history shown of every monitor ends with  *)
(* the records kept of it, however many there are and whatever runs of the *)
(* others push out, and a run announces exactly the changes of its verdict.*)
THEOREM HistoriesAreTold == MoSpec => []HistoryIsTold
BY InitTypes, InitHistory, StepKeepsTypes, StepKeepsHistory, HistorySuffices, PTL DEF MoSpec

-----------------------------------------------------------------------------
(* The collection runner: types *)

Values == [of : {"nobody", "user", "script", "row", "nothing"}, run : Nat, iteration : Nat,
           text : RunTexts \union {"none"}]
RowValues == [of : {"row"}, run : Nat, iteration : Nat, text : RunTexts]
GivenValues == RowValues \union {Nothing}
Owned == {Forgotten} \union Before \union FromScript
Writable == {Nothing, Forgotten} \union FromScript
Stages == {"done", "preparing", "waiting", "asking", "renewing", "sending", "checking", "pausing"}
Lane == [at : Stages, request : Nat]
RunRecord(r) ==
    [isStopped : BOOLEAN, isHalted : BOOLEAN, isOver : BOOLEAN,
     before : Values, given : GivenValues, iteration : Nat,
     queue : Seq(Nat), lanes : [Lanes(r) -> Lane], sent : Nat,
     passedOver : SUBSET Nat, attempted : SUBSET Nat,
     values : {"unasked", "given", "declined"}, turn : Seq(Lanes(r)), asks : Nat]
Results == [run : Nat, iteration : Nat, request : Nat, kind : {"sent", "skipped", "passedOver"}]
Sink == [isRunning : BOOLEAN, results : SUBSET Results]

IsTurn(t) ==
    /\ t.id \in RunIds
    /\ t \in [id : RunIds, run : RunRecord(t.id), session : Values, sink : Sink]

PlanType == plan \in Seq(RunPlan)

LEMMA PlanFacts ==
    ASSUME PlanType, NEW r \in RunIds
    PROVE  /\ r \in Nat \ {0}
           /\ plan[r].runner \in Runners /\ plan[r].requests \in Nat \ {0} /\ plan[r].rows \in Seq(RunTexts)
           /\ LaneCount(r) \in 1 .. plan[r].requests
           /\ IterationCount(r) \in Nat \ {0}
<1>1. plan[r] \in RunPlan /\ r \in Nat \ {0}
  BY DEF PlanType, RunIds
<1> QED BY <1>1 DEF RunPlan, LaneCount, IterationCount

(* Values that differ. *)
LEMMA ValueFacts ==
    /\ Nothing \in Values /\ Owned \subseteq Values /\ Writable \subseteq Values
    /\ Nothing \in GivenValues /\ GivenValues \subseteq Values /\ Nothing \in Writable
    /\ Nothing \notin Owned /\ Forgotten \in Owned
    /\ \A v \in Writable : v = Nothing \/ v \in Owned
    /\ \A r, i : RowOf(r, i) \notin Owned /\ RowOf(r, i) # Nothing
    /\ \A r, i, q, j : RowOf(r, i) = RowOf(q, j) => r = q /\ i = j
    /\ \A r, i : RowOf(r, i).of = "row"
    /\ \A v \in Owned : v.of # "row"
    /\ Nothing.of # "row"
<1>1. Nothing \in Values /\ Owned \subseteq Values /\ Writable \subseteq Values
  BY DEF Values, Nothing, Forgotten, Before, FromScript, Value, Owned, Writable
<1>2. Nothing \in GivenValues /\ GivenValues \subseteq Values /\ Nothing \in Writable
  BY <1>1 DEF GivenValues, RowValues, Values, Writable
<1>3. \A r, i : RowOf(r, i).of = "row" /\ RowOf(r, i).run = r /\ RowOf(r, i).iteration = i
  BY DEF RowOf, Value
<1>4. Nothing.of = "nothing" /\ \A v \in Owned : v.of \in {"nobody", "user", "script"}
  BY DEF Nothing, Forgotten, Before, FromScript, Value, Owned
<1>5. Forgotten \in Owned /\ \A v \in Writable : v = Nothing \/ v \in Owned
  BY DEF Owned, Writable
<1> QED BY <1>1, <1>2, <1>3, <1>4, <1>5

(* The row of an iteration has the text the file gives it. *)
LEMMA RowIsValue ==
    ASSUME PlanType, NEW r \in RunIds, IsIterating(r), NEW i \in 1 .. IterationCount(r)
    PROVE  RowOf(r, i) \in GivenValues
<1>1. plan[r].rows \in Seq(RunTexts) /\ r \in Nat
  BY PlanFacts
<1>2. i \in 1 .. Len(plan[r].rows) /\ i \in Nat
  BY <1>1 DEF IterationCount, IsIterating
<1>3. plan[r].rows[i] \in RunTexts
  BY <1>1, <1>2
<1> QED BY <1>1, <1>2, <1>3 DEF RowOf, Value, RowValues, GivenValues

-----------------------------------------------------------------------------
(* The steps of a turn.  A turn is taken apart once: after that a step is  *)
(* known by the fields of the run that it changes.                         *)

LEMMA TurnFields ==
    ASSUME NEW t, IsTurn(t)
    PROVE  /\ t.id \in RunIds /\ t.run \in RunRecord(t.id) /\ t.session \in Values /\ t.sink \in Sink
           /\ t = [id |-> t.id, run |-> t.run, session |-> t.session, sink |-> t.sink]
BY DEF IsTurn

LEMMA MakeTurn ==
    ASSUME NEW u, u = [id |-> u.id, run |-> u.run, session |-> u.session, sink |-> u.sink],
           u.id \in RunIds, u.run \in RunRecord(u.id), u.session \in Values, u.sink \in Sink
    PROVE  IsTurn(u)
BY DEF IsTurn

(* Nothing but the queue, the lanes and their books has changed. *)
Quiet(x, y) ==
    /\ y.isStopped = x.isStopped /\ y.isOver = x.isOver /\ y.before = x.before /\ y.given = x.given
    /\ y.iteration = x.iteration /\ y.values = x.values /\ y.turn = x.turn /\ y.asks = x.asks

(* The lane w has taken the next request, or it is done. *)
Takes(t, u, w) ==
    /\ IsTurn(u)
    /\ u.id = t.id /\ u.session = t.session /\ u.sink = t.sink
    /\ Quiet(t.run, u.run) /\ u.run.isHalted = t.run.isHalted /\ u.run.passedOver = t.run.passedOver
    /\ \A v \in Lanes(t.id) : v # w => u.run.lanes[v] = t.run.lanes[v]
    /\ \/ /\ u.run.lanes[w] = IdleLane /\ u.run.queue = t.run.queue /\ u.run.attempted = t.run.attempted
          /\ t.run.queue = <<>> \/ t.run.isStopped \/ t.run.isHalted
       \/ /\ t.run.queue # <<>> /\ ~t.run.isStopped /\ ~t.run.isHalted
          /\ u.run.queue = Tail(t.run.queue) /\ u.run.attempted = t.run.attempted \union {Head(t.run.queue)}
          /\ u.run.lanes[w] = [at |-> "preparing", request |-> Head(t.run.queue)]

LEMMA TakeNextFacts ==
    ASSUME NEW t, IsTurn(t), NEW w \in Lanes(t.id), NEW u, u = TakeNext(t, w)
    PROVE  Takes(t, u, w)
<1> DEFINE x == t.run
<1>0. x \in RunRecord(t.id) /\ t.id \in RunIds /\ t.session \in Values /\ t.sink \in Sink
  BY TurnFields
<1>5. x.lanes \in [Lanes(t.id) -> Lane]
  BY <1>0 DEF RunRecord
<1>1. CASE x.queue # <<>> /\ ~x.isStopped /\ ~x.isHalted
  <2> DEFINE y == [x EXCEPT !.queue = Tail(@), !.attempted = @ \union {Head(x.queue)},
                            !.lanes[w] = [at |-> "preparing", request |-> Head(x.queue)]]
  <2>1. /\ u.id = t.id /\ u.session = t.session /\ u.sink = t.sink /\ u.run = y
        /\ u = [id |-> u.id, run |-> u.run, session |-> u.session, sink |-> u.sink]
    BY <1>1 DEF TakeNext, IsTurn
  <2>2. Tail(x.queue) \in Seq(Nat) /\ Head(x.queue) \in Nat
    BY <1>0, <1>1 DEF RunRecord
  <2>3. [at |-> "preparing", request |-> Head(x.queue)] \in Lane
    BY <2>2 DEF Lane, Stages
  <2>4. /\ y \in RunRecord(t.id) /\ Quiet(x, y) /\ y.isHalted = x.isHalted /\ y.passedOver = x.passedOver
        /\ y.queue = Tail(x.queue) /\ y.attempted = x.attempted \union {Head(x.queue)}
        /\ y.lanes = [x.lanes EXCEPT ![w] = [at |-> "preparing", request |-> Head(x.queue)]]
    BY <1>0, <2>2, <2>3 DEF RunRecord, Quiet
  <2> HIDE DEF y
  <2>6. IsTurn(u)
    BY <2>1, <2>4, <1>0, MakeTurn
  <2> QED BY <2>1, <2>4, <1>5, <2>6, <1>1 DEF Takes
<1>2. CASE ~(x.queue # <<>> /\ ~x.isStopped /\ ~x.isHalted)
  <2> DEFINE y == [x EXCEPT !.lanes[w] = IdleLane]
  <2>1. /\ u.id = t.id /\ u.session = t.session /\ u.sink = t.sink /\ u.run = y
        /\ u = [id |-> u.id, run |-> u.run, session |-> u.session, sink |-> u.sink]
    BY <1>2 DEF TakeNext, IsTurn
  <2>3. IdleLane \in Lane
    BY DEF Lane, Stages, IdleLane
  <2>4. /\ y \in RunRecord(t.id) /\ Quiet(x, y) /\ y.isHalted = x.isHalted /\ y.passedOver = x.passedOver
        /\ y.queue = x.queue /\ y.attempted = x.attempted
        /\ y.lanes = [x.lanes EXCEPT ![w] = IdleLane]
    BY <1>0, <2>3 DEF RunRecord, Quiet
  <2> HIDE DEF y
  <2>6. IsTurn(u)
    BY <2>1, <2>4, <1>0, MakeTurn
  <2> QED BY <2>1, <2>4, <1>5, <2>6, <1>2 DEF Takes
<1> QED BY <1>1, <1>2

(* The lane w is in another stage. *)
Moves(t, u, w, stage) ==
    /\ IsTurn(u)
    /\ u.id = t.id /\ u.session = t.session /\ u.sink = t.sink
    /\ Quiet(t.run, u.run) /\ u.run.isHalted = t.run.isHalted /\ u.run.passedOver = t.run.passedOver
    /\ u.run.queue = t.run.queue /\ u.run.attempted = t.run.attempted
    /\ u.run.lanes[w] = [at |-> stage, request |-> t.run.lanes[w].request]
    /\ \A v \in Lanes(t.id) : v # w => u.run.lanes[v] = t.run.lanes[v]

LEMMA MoveToFacts ==
    ASSUME NEW t, IsTurn(t), NEW w \in Lanes(t.id), NEW stage \in Stages, NEW u, u = MoveTo(t, w, stage)
    PROVE  Moves(t, u, w, stage)
<1> DEFINE x == t.run
           y == [x EXCEPT !.lanes[w].at = stage]
<1>0. x \in RunRecord(t.id) /\ t.id \in RunIds /\ t.session \in Values /\ t.sink \in Sink
  BY TurnFields
<1>5. x.lanes \in [Lanes(t.id) -> Lane]
  BY <1>0 DEF RunRecord
<1>1. /\ u.id = t.id /\ u.session = t.session /\ u.sink = t.sink /\ u.run = y
      /\ u = [id |-> u.id, run |-> u.run, session |-> u.session, sink |-> u.sink]
  BY DEF MoveTo, IsTurn
<1>2. [x.lanes EXCEPT ![w].at = stage] \in [Lanes(t.id) -> Lane]
  BY <1>5 DEF Lane
<1>3. /\ y.lanes = [x.lanes EXCEPT ![w].at = stage]
      /\ Quiet(x, y) /\ y.isHalted = x.isHalted /\ y.passedOver = x.passedOver
      /\ y.queue = x.queue /\ y.attempted = x.attempted
      /\ y = [x EXCEPT !.lanes = y.lanes]
  BY <1>0 DEF RunRecord, Quiet
<1>4. y \in RunRecord(t.id)
  BY <1>0, <1>2, <1>3 DEF RunRecord
<1>6. [x.lanes EXCEPT ![w].at = stage][w] = [at |-> stage, request |-> x.lanes[w].request]
  BY <1>5 DEF Lane
<1> HIDE DEF y
<1>7. IsTurn(u)
  BY <1>0, <1>1, <1>4, MakeTurn
<1> QED BY <1>1, <1>3, <1>5, <1>6, <1>7 DEF Moves

LEMMA GiveSessionFacts ==
    ASSUME NEW t, IsTurn(t), NEW next \in GivenValues, NEW u, u = GiveSession(t, next)
    PROVE  /\ IsTurn(u)
           /\ u.id = t.id /\ u.sink = t.sink /\ u.run = [t.run EXCEPT !.given = next]
           /\ u.session = IF next = Nothing THEN WithdrawnValues(t.run.before, t.run.given, t.session) ELSE next
<1> DEFINE x == t.run
           y == [x EXCEPT !.given = next]
           s == IF next = Nothing THEN WithdrawnValues(x.before, x.given, t.session) ELSE next
<1>0. x \in RunRecord(t.id) /\ t.id \in RunIds /\ t.session \in Values /\ t.sink \in Sink
  BY TurnFields
<1>1. /\ u.id = t.id /\ u.session = s /\ u.sink = t.sink /\ u.run = y
      /\ u = [id |-> u.id, run |-> u.run, session |-> u.session, sink |-> u.sink]
  BY DEF GiveSession, IsTurn
<1>2. y \in RunRecord(t.id) /\ x.before \in Values
  BY <1>0 DEF RunRecord
<1>3. s \in Values
  BY <1>0, <1>2, ValueFacts DEF WithdrawnValues
<1> HIDE DEF y, s
<1>4. IsTurn(u)
  BY <1>0, <1>1, <1>2, <1>3, MakeTurn
<1> QED BY <1>1, <1>4 DEF y, s

LEMMA AddFacts ==
    ASSUME NEW t, IsTurn(t), NEW results \in SUBSET Results, NEW u, u = Add(t, results)
    PROVE  /\ IsTurn(u)
           /\ u.id = t.id /\ u.session = t.session /\ u.run = t.run
           /\ u.sink.isRunning = t.sink.isRunning /\ u.sink.results = t.sink.results \union results
<1> DEFINE k == [t.sink EXCEPT !.results = @ \union results]
<1>0. t.run \in RunRecord(t.id) /\ t.id \in RunIds /\ t.session \in Values /\ t.sink \in Sink
  BY TurnFields
<1>1. /\ u.id = t.id /\ u.session = t.session /\ u.sink = k /\ u.run = t.run
      /\ u = [id |-> u.id, run |-> u.run, session |-> u.session, sink |-> u.sink]
  BY DEF Add, IsTurn
<1>2. k \in Sink /\ k.isRunning = t.sink.isRunning /\ k.results = t.sink.results \union results
  BY <1>0 DEF Sink
<1> HIDE DEF k
<1>4. IsTurn(u)
  BY <1>0, <1>1, <1>2, MakeTurn
<1> QED BY <1>1, <1>2, <1>4

(* What follow leaves alone. *)
Follows(t, u) ==
    /\ u.id = t.id /\ u.session = t.session /\ u.sink = t.sink
    /\ Quiet(t.run, u.run) /\ u.run.lanes = t.run.lanes /\ u.run.attempted = t.run.attempted

LEMMA HaltFacts ==
    ASSUME NEW t, IsTurn(t), NEW u, u = Halt(t)
    PROVE  IsTurn(u) /\ Follows(t, u) /\ u.run.isHalted = TRUE /\ u.run.queue = t.run.queue
           /\ u.run.passedOver = t.run.passedOver /\ u.run.sent = t.run.sent
<1> DEFINE x == t.run
           y == [x EXCEPT !.isHalted = TRUE]
<1>0. x \in RunRecord(t.id) /\ t.id \in RunIds /\ t.session \in Values /\ t.sink \in Sink
  BY TurnFields
<1>1. /\ u.id = t.id /\ u.session = t.session /\ u.sink = t.sink /\ u.run = y
      /\ u = [id |-> u.id, run |-> u.run, session |-> u.session, sink |-> u.sink]
  BY DEF Halt, IsTurn
<1>2. /\ y \in RunRecord(t.id)
      /\ Quiet(x, y) /\ y.lanes = x.lanes /\ y.attempted = x.attempted /\ y.isHalted = TRUE /\ y.queue = x.queue
           /\ y.passedOver = x.passedOver /\ y.sent = x.sent
  BY <1>0 DEF RunRecord, Quiet
<1> HIDE DEF y
<1>3. IsTurn(u)
  BY <1>0, <1>1, <1>2, MakeTurn
<1> QED BY <1>1, <1>2, <1>3 DEF Follows

LEMMA PassFacts ==
    ASSUME NEW t, IsTurn(t), NEW dropped \in SUBSET Nat, NEW u, u = Pass(t, dropped)
    PROVE  IsTurn(u) /\ Follows(t, u) /\ u.run.isHalted = t.run.isHalted /\ u.run.queue = t.run.queue
           /\ u.run.passedOver = t.run.passedOver \union dropped /\ u.run.sent = t.run.sent
<1> DEFINE x == t.run
           y == [x EXCEPT !.passedOver = @ \union dropped]
<1>0. x \in RunRecord(t.id) /\ t.id \in RunIds /\ t.session \in Values /\ t.sink \in Sink
  BY TurnFields
<1>1. /\ u.id = t.id /\ u.session = t.session /\ u.sink = t.sink /\ u.run = y
      /\ u = [id |-> u.id, run |-> u.run, session |-> u.session, sink |-> u.sink]
  BY DEF Pass, IsTurn
<1>2. /\ y \in RunRecord(t.id)
      /\ Quiet(x, y) /\ y.lanes = x.lanes /\ y.attempted = x.attempted /\ y.isHalted = x.isHalted /\ y.queue = x.queue
           /\ y.passedOver = x.passedOver \union dropped /\ y.sent = x.sent
  BY <1>0 DEF RunRecord, Quiet
<1> HIDE DEF y
<1>3. IsTurn(u)
  BY <1>0, <1>1, <1>2, MakeTurn
<1> QED BY <1>1, <1>2, <1>3 DEF Follows

LEMMA QueueFacts ==
    ASSUME NEW t, IsTurn(t), NEW s \in Seq(Nat), NEW u, u = Requeue(t, s)
    PROVE  IsTurn(u) /\ Follows(t, u) /\ u.run.isHalted = t.run.isHalted /\ u.run.queue = s
           /\ u.run.passedOver = t.run.passedOver /\ u.run.sent = t.run.sent
<1> DEFINE x == t.run
           y == [x EXCEPT !.queue = s]
<1>0. x \in RunRecord(t.id) /\ t.id \in RunIds /\ t.session \in Values /\ t.sink \in Sink
  BY TurnFields
<1>1. /\ u.id = t.id /\ u.session = t.session /\ u.sink = t.sink /\ u.run = y
      /\ u = [id |-> u.id, run |-> u.run, session |-> u.session, sink |-> u.sink]
  BY DEF Requeue, IsTurn
<1>2. /\ y \in RunRecord(t.id)
      /\ Quiet(x, y) /\ y.lanes = x.lanes /\ y.attempted = x.attempted /\ y.isHalted = x.isHalted /\ y.queue = s
           /\ y.passedOver = x.passedOver /\ y.sent = x.sent
  BY <1>0 DEF RunRecord, Quiet
<1> HIDE DEF y
<1>3. IsTurn(u)
  BY <1>0, <1>1, <1>2, MakeTurn
<1> QED BY <1>1, <1>2, <1>3 DEF Follows

LEMMA CountFacts ==
    ASSUME NEW t, IsTurn(t), NEW u, u = [t EXCEPT !.run.sent = @ + 1]
    PROVE  IsTurn(u) /\ Follows(t, u) /\ u.run.isHalted = t.run.isHalted /\ u.run.queue = t.run.queue
           /\ u.run.passedOver = t.run.passedOver /\ u.run.sent = t.run.sent + 1
<1> DEFINE x == t.run
           k == x.sent + 1
           y == [x EXCEPT !.sent = k]
<1>0. x \in RunRecord(t.id) /\ t.id \in RunIds /\ t.session \in Values /\ t.sink \in Sink
  BY TurnFields
<1>1. /\ u.id = t.id /\ u.session = t.session /\ u.sink = t.sink /\ u.run = y
      /\ u = [id |-> u.id, run |-> u.run, session |-> u.session, sink |-> u.sink]
  BY DEF IsTurn
<1>k. k \in Nat
  BY <1>0 DEF RunRecord
<1> HIDE DEF k
<1>2. /\ y \in RunRecord(t.id)
      /\ Quiet(x, y) /\ y.lanes = x.lanes /\ y.attempted = x.attempted /\ y.isHalted = x.isHalted /\ y.queue = x.queue
           /\ y.passedOver = x.passedOver /\ y.sent = k
  BY <1>0, <1>k DEF RunRecord, Quiet
<1> HIDE DEF y
<1>3. IsTurn(u)
  BY <1>0, <1>1, <1>2, MakeTurn
<1> QED BY <1>1, <1>2, <1>3 DEF Follows, k

LEMMA BookTypes ==
    ASSUME NEW t, IsTurn(t)
    PROVE  /\ t.run.isHalted \in BOOLEAN /\ t.run.queue \in Seq(Nat)
           /\ t.run.passedOver \in SUBSET Nat /\ t.run.sent \in Nat
           /\ Queued(t) \in SUBSET Nat
<1>1. t.run \in RunRecord(t.id)
  BY TurnFields
<1>2. t.run.queue \in Seq(Nat)
  BY <1>1 DEF RunRecord
<1> QED BY <1>1, <1>2 DEF RunRecord, Queued

FlowOf(r) == [action : {"", "stop", "end", "next"}, target : 0 .. plan[r].requests]

LEMMA RequestsFromFacts ==
    ASSUME PlanType, NEW r \in RunIds, NEW position \in Nat \ {0}
    PROVE  LET s == RequestsFrom(r, position) IN
           /\ plan[r].requests + 1 >= position => s \in Seq(Nat) 
           /\ \A q \in position .. plan[r].requests : q \in {s[i] : i \in DOMAIN s}
<1> DEFINE n == plan[r].requests
           m == n - position + 1
           s == RequestsFrom(r, position)
<1>1. n \in Nat
  BY PlanFacts
<1>2. s = [i \in 1 .. m |-> position + i - 1]
  BY DEF RequestsFrom
<1>3. ASSUME n + 1 >= position PROVE s \in Seq(Nat)
  <2>1. m \in Nat /\ \A i \in 1 .. m : position + i - 1 \in Nat
    BY <1>1, <1>3
  <2> QED BY <1>2, <2>1
<1>4. ASSUME NEW q \in position .. n PROVE q \in {s[i] : i \in DOMAIN s}
  <2>1. q - position + 1 \in 1 .. m /\ position + (q - position + 1) - 1 = q
    BY <1>1
  <2>2. s[q - position + 1] = q /\ q - position + 1 \in DOMAIN s
    BY <2>1, <1>2
  <2> QED BY <2>2
<1> QED BY <1>3, <1>4

(* A request that was queued is still queued, it is passed over, or the    *)
(* run has halted.                                                         *)
KeepsBooks(t, u) ==
    /\ t.run.isHalted => u.run.isHalted
    /\ t.run.passedOver \subseteq u.run.passedOver
    /\ \A q \in Queued(t) : q \in 1 .. plan[t.id].requests =>
          u.run.isHalted \/ q \in Queued(u) \/ q \in u.run.passedOver

LEMMA FollowsTransitive ==
    ASSUME NEW t, NEW u, NEW v, Follows(t, u), Follows(u, v)
    PROVE  Follows(t, v)
BY DEF Follows, Quiet

LEMMA JumpToFacts ==
    ASSUME PlanType, NEW t, IsTurn(t), NEW target \in 1 .. plan[t.id].requests, NEW u, u = JumpTo(t, target)
    PROVE  IsTurn(u) /\ Follows(t, u) /\ KeepsBooks(t, u)
<1> DEFINE dropped == {q \in Queued(t) : q < target}
           s == RequestsFrom(t.id, target)
           v == Pass(t, dropped)
<1>0. t.id \in RunIds /\ plan[t.id].requests \in Nat \ {0}
  BY TurnFields, PlanFacts
<1>1. dropped \in SUBSET Nat /\ Queued(t) \in SUBSET Nat
  BY BookTypes
<1>2. s \in Seq(Nat) /\ \A q \in target .. plan[t.id].requests : q \in {s[i] : i \in DOMAIN s}
  BY <1>0, RequestsFromFacts
<1> HIDE DEF s
<1>3. IsTurn(v) /\ Follows(t, v) /\ v.run.isHalted = t.run.isHalted
      /\ v.run.passedOver = t.run.passedOver \union dropped
  BY <1>1, PassFacts
<1>4. u = Requeue(v, s)
  BY DEF JumpTo, s
<1> HIDE DEF v
<1>5. IsTurn(u) /\ Follows(v, u) /\ u.run.isHalted = v.run.isHalted /\ u.run.queue = s
      /\ u.run.passedOver = v.run.passedOver
  BY <1>2, <1>3, <1>4, QueueFacts
<1>6. Follows(t, u)
  BY <1>3, <1>5, FollowsTransitive
<1>7. ASSUME NEW q \in Queued(t), q \in 1 .. plan[t.id].requests
      PROVE  q \in Queued(u) \/ q \in u.run.passedOver
  <2>1. CASE q < target
    BY <2>1, <1>3, <1>5
  <2>2. CASE ~(q < target)
    BY <2>2, <1>0, <1>2, <1>5, <1>7 DEF Queued
  <2> QED BY <2>1, <2>2
<1> QED BY <1>3, <1>5, <1>6, <1>7 DEF KeepsBooks

LEMMA RepeatFacts ==
    ASSUME NEW t, IsTurn(t), NEW target, NEW request \in Nat, NEW u, u = Repeat(t, target, request)
    PROVE  IsTurn(u) /\ Follows(t, u) /\ KeepsBooks(t, u)
<1>1. CASE target # request
  <2>1. u = Halt(t)
    BY <1>1 DEF Repeat
  <2> QED BY <2>1, HaltFacts DEF KeepsBooks
<1>2. CASE target = request
  <2> DEFINE s == <<request>> \o t.run.queue
  <2>1. u = Requeue(t, s)
    BY <1>2 DEF Repeat
  <2>2. s \in Seq(Nat) /\ t.run.queue \in Seq(Nat)
    BY BookTypes
  <2>3. \A i \in DOMAIN t.run.queue : i + 1 \in DOMAIN s /\ s[i + 1] = t.run.queue[i]
    <3> DEFINE q == t.run.queue
    <3> HIDE DEF q
    <3>1. q \in Seq(Nat) /\ <<request>> \in Seq(Nat) /\ Len(<<request>>) = 1
      BY <2>2 DEF q
    <3>2. \A i \in DOMAIN q : i + 1 \in DOMAIN (<<request>> \o q) /\ (<<request>> \o q)[i + 1] = q[i]
      BY <3>1
    <3> QED BY <3>2 DEF q
  <2> HIDE DEF s
  <2>4. IsTurn(u) /\ Follows(t, u) /\ u.run.isHalted = t.run.isHalted /\ u.run.queue = s
        /\ u.run.passedOver = t.run.passedOver
    BY <2>1, <2>2, QueueFacts
  <2> QED BY <2>3, <2>4 DEF KeepsBooks, Queued
<1> QED BY <1>1, <1>2

LEMMA FollowFacts ==
    ASSUME PlanType, MaxFlowSteps \in Nat, NEW t, IsTurn(t), NEW flow \in FlowOf(t.id), NEW request \in Nat,
           NEW u, u = Follow(t, flow, request)
    PROVE  IsTurn(u) /\ Follows(t, u) /\ KeepsBooks(t, u)
<1> DEFINE v == [t EXCEPT !.run.sent = @ + 1]
           n == plan[v.id].requests
<1>0. IsTurn(v) /\ Follows(t, v) /\ v.run.isHalted = t.run.isHalted /\ v.run.queue = t.run.queue
      /\ v.run.passedOver = t.run.passedOver /\ v.run.sent = t.run.sent + 1
  BY CountFacts
<1>1. u = CASE flow.action = "stop" -> Halt(Pass(v, Queued(v)))
            [] flow.action = "end" -> Requeue(Pass(v, Queued(v)), <<>>)
            [] flow.action = "next" /\ v.run.sent >= n + MaxFlowSteps -> Halt(v)
            [] flow.action = "next" /\ v.run.sent < n + MaxFlowSteps /\ IsParallel(v.id) ->
                   Repeat(v, flow.target, request)
            [] flow.action = "next" /\ v.run.sent < n + MaxFlowSteps /\ ~IsParallel(v.id) ->
                   IF flow.target = 0 THEN Halt(v) ELSE JumpTo(v, flow.target)
            [] OTHER -> v
  BY DEF Follow
<1> HIDE DEF v
<1>n. n \in Nat /\ v.run.sent \in Nat /\ v.id = t.id
  BY <1>0, BookTypes, PlanFacts, TurnFields DEF Follows
<1> HIDE DEF n
<1>2. SUFFICES IsTurn(u) /\ Follows(v, u) /\ KeepsBooks(v, u)
  BY <1>0, FollowsTransitive DEF KeepsBooks, Queued, Follows
<1>q. Queued(v) \in SUBSET Nat
  BY <1>0, BookTypes
<1>p. /\ IsTurn(Pass(v, Queued(v))) /\ Follows(v, Pass(v, Queued(v)))
      /\ Pass(v, Queued(v)).run.passedOver = v.run.passedOver \union Queued(v)
      /\ Pass(v, Queued(v)).run.isHalted = v.run.isHalted
  BY <1>0, <1>q, PassFacts
<1>3. CASE flow.action = "stop"
  <2>1. u = Halt(Pass(v, Queued(v)))
    BY <1>1, <1>3
  <2>2. IsTurn(u) /\ Follows(Pass(v, Queued(v)), u) /\ u.run.isHalted = TRUE
        /\ u.run.passedOver = Pass(v, Queued(v)).run.passedOver
    BY <2>1, <1>p, HaltFacts
  <2> QED BY <2>2, <1>p, FollowsTransitive DEF KeepsBooks
<1>4. CASE flow.action = "end"
  <2> DEFINE p == Pass(v, Queued(v))
  <2>1. u = Requeue(p, <<>>)
    BY <1>1, <1>4
  <2>e. IsTurn(p)
    BY <1>p
  <2>s. <<>> \in Seq(Nat)
    OBVIOUS
  <2> HIDE DEF p
  <2>t. PICK s \in Seq(Nat) : u = Requeue(p, s)
    BY <2>1, <2>s, Zenon
  <2>2. IsTurn(u) /\ Follows(p, u) /\ u.run.isHalted = p.run.isHalted
        /\ u.run.passedOver = p.run.passedOver
    BY <2>e, <2>t, QueueFacts
  <2> QED BY <2>2, <1>p, FollowsTransitive DEF KeepsBooks, p
<1>5. CASE flow.action = "next" /\ v.run.sent >= n + MaxFlowSteps
  <2>1. u = Halt(v)
    BY <1>1, <1>5, <1>n
  <2> QED BY <2>1, <1>0, HaltFacts DEF KeepsBooks
<1>6. CASE flow.action = "next" /\ v.run.sent < n + MaxFlowSteps /\ IsParallel(v.id)
  <2>1. u = Repeat(v, flow.target, request)
    BY <1>1, <1>6, <1>n
  <2> QED BY <2>1, <1>0, RepeatFacts
<1>7. CASE flow.action = "next" /\ v.run.sent < n + MaxFlowSteps /\ ~IsParallel(v.id)
  <2>1. u = IF flow.target = 0 THEN Halt(v) ELSE JumpTo(v, flow.target)
    BY <1>1, <1>7, <1>n
  <2>2. CASE flow.target = 0
    BY <2>1, <2>2, <1>0, HaltFacts DEF KeepsBooks
  <2>3. CASE flow.target # 0
    <3>1. flow.target \in 0 .. plan[v.id].requests
      BY <1>n DEF FlowOf
    <3>2. flow.target \in 1 .. plan[v.id].requests
      BY <3>1, <2>3, <1>n DEF n
    <3> QED BY <2>1, <2>3, <3>2, <1>0, JumpToFacts
  <2> QED BY <2>2, <2>3
<1>8. CASE flow.action = ""
  <2>1. u = v
    BY <1>1, <1>8
  <2> QED BY <2>1, <1>0 DEF KeepsBooks, Follows, Quiet
<1>9. flow.action \in {"", "stop", "end", "next"}
  BY DEF FlowOf
<1>10. v.run.sent >= n + MaxFlowSteps \/ v.run.sent < n + MaxFlowSteps
  BY <1>n
<1> QED BY <1>3, <1>4, <1>5, <1>6, <1>7, <1>8, <1>9, <1>10

-----------------------------------------------------------------------------
(* The end of an iteration. *)

(* The values go back, and nothing of the lanes' books is touched. *)
EndsTask(t, u) ==
    /\ u.id = t.id
    /\ u.run.isOver = TRUE /\ u.run.isStopped = t.run.isStopped /\ u.run.isHalted = t.run.isHalted
    /\ u.run.before = t.run.before /\ u.run.iteration = t.run.iteration /\ u.run.lanes = t.run.lanes
    /\ u.run.values = t.run.values /\ u.run.turn = t.run.turn /\ u.run.asks = t.run.asks
    /\ u.sink.results = t.sink.results
    /\ u.sink.isRunning <=> t.sink.isRunning /\ current[plan[t.id].runner] # t.id
    /\ u.run.given = IF IsIterating(t.id) THEN Nothing ELSE t.run.given
    /\ u.session = IF IsIterating(t.id) THEN WithdrawnValues(t.run.before, t.run.given, t.session)
                   ELSE t.session

(* The row of the next iteration is given, and every lane has a request. *)
Advances(t, u) ==
    /\ u.id = t.id
    /\ ~t.run.isStopped /\ ~t.run.isHalted /\ t.run.iteration < IterationCount(t.id)
    /\ u.run.isOver = t.run.isOver /\ u.run.isStopped = t.run.isStopped /\ u.run.isHalted = t.run.isHalted
    /\ u.run.before = t.run.before /\ u.run.iteration = t.run.iteration + 1
    /\ u.run.values = t.run.values /\ u.run.turn = t.run.turn /\ u.run.asks = t.run.asks
    /\ u.sink = t.sink
    /\ u.run.queue = RequestsFrom(t.id, LaneCount(t.id) + 1)
    /\ u.run.attempted = Lanes(t.id)
    /\ \A w \in Lanes(t.id) : u.run.lanes[w] = [at |-> "preparing", request |-> w]
    /\ u.run.given = IF IsIterating(t.id) THEN RowOf(t.id, u.run.iteration) ELSE t.run.given
    /\ u.session = IF IsIterating(t.id) THEN RowOf(t.id, u.run.iteration) ELSE t.session

LEMMA FinishRunFacts ==
    ASSUME PlanType, NEW t, IsTurn(t), NEW u, u = FinishRun(t)
    PROVE  IsTurn(u) /\ EndsTask(t, u)
<1> DEFINE v == IF IsIterating(t.id) THEN GiveSession(t, Nothing) ELSE t
           x == v.run
           y == [x EXCEPT !.isOver = TRUE]
           k == [v.sink EXCEPT !.isRunning = @ /\ current[plan[t.id].runner] # t.id]
<1>t. t.run \in RunRecord(t.id)
  BY TurnFields
<1>1. /\ IsTurn(v) /\ v.id = t.id /\ v.sink = t.sink
      /\ v.run = [t.run EXCEPT !.given = IF IsIterating(t.id) THEN Nothing ELSE t.run.given]
      /\ v.session = IF IsIterating(t.id) THEN WithdrawnValues(t.run.before, t.run.given, t.session)
                     ELSE t.session
  <2>1. CASE IsIterating(t.id)
    BY <2>1, ValueFacts, GiveSessionFacts
  <2>2. CASE ~IsIterating(t.id)
    <3>1. t.run = [t.run EXCEPT !.given = t.run.given]
      BY <1>t DEF RunRecord
    <3> QED BY <2>2, <3>1
  <2> QED BY <2>1, <2>2
<1>2. u = [v EXCEPT !.run.isOver = TRUE,
                    !.sink.isRunning = @ /\ current[plan[t.id].runner] # t.id]
  BY DEF FinishRun
<1> HIDE DEF v
<1>0. x \in RunRecord(v.id) /\ v.id \in RunIds /\ v.session \in Values /\ v.sink \in Sink
  BY <1>1, TurnFields
<1>3. /\ u.id = v.id /\ u.session = v.session /\ u.sink = k /\ u.run = y
      /\ u = [id |-> u.id, run |-> u.run, session |-> u.session, sink |-> u.sink]
  BY <1>1, <1>2 DEF IsTurn
<1>4. /\ y \in RunRecord(t.id) /\ y.isOver = TRUE /\ y.isHalted = x.isHalted /\ y.lanes = x.lanes
      /\ y.isStopped = x.isStopped /\ y.before = x.before /\ y.given = x.given
      /\ y.iteration = x.iteration /\ y.values = x.values /\ y.turn = x.turn /\ y.asks = x.asks
  BY <1>0, <1>1 DEF RunRecord
<1>5. /\ x.isHalted = t.run.isHalted /\ x.lanes = t.run.lanes
      /\ x.isStopped = t.run.isStopped /\ x.before = t.run.before
      /\ x.given = (IF IsIterating(t.id) THEN Nothing ELSE t.run.given)
      /\ x.iteration = t.run.iteration /\ x.values = t.run.values /\ x.turn = t.run.turn /\ x.asks = t.run.asks
  BY <1>t, <1>1 DEF RunRecord
<1>6. /\ k \in Sink /\ k.results = v.sink.results
      /\ k.isRunning <=> v.sink.isRunning /\ current[plan[t.id].runner] # t.id
  BY <1>0 DEF Sink
<1> HIDE DEF x, y, k
<1>7. IsTurn(u)
  BY <1>0, <1>1, <1>3, <1>4, <1>6, MakeTurn
<1> QED BY <1>1, <1>3, <1>4, <1>5, <1>6, <1>7 DEF EndsTask

LEMMA BeginIterationFacts ==
    ASSUME PlanType, NEW t, IsTurn(t), NEW u, u = BeginIteration(t)
    PROVE  /\ IsTurn(u)
           /\ \/ Advances(t, u)
              \/ EndsTask(t, u) /\ (t.run.isStopped \/ t.run.isHalted \/ t.run.iteration >= IterationCount(t.id))
<1> DEFINE i == t.run.iteration + 1
<1>0. /\ t.id \in RunIds /\ t.run \in RunRecord(t.id) /\ t.id \in Nat
      /\ plan[t.id].requests \in Nat \ {0} /\ LaneCount(t.id) \in 1 .. plan[t.id].requests
      /\ IterationCount(t.id) \in Nat
  BY TurnFields, PlanFacts
<1>i. t.run.iteration \in Nat
  BY <1>0 DEF RunRecord
<1>1. CASE i > IterationCount(t.id) \/ t.run.isStopped \/ t.run.isHalted
  <2>1. u = FinishRun(t)
    BY <1>1 DEF BeginIteration
  <2> QED BY <2>1, <1>1, <1>0, <1>i, FinishRunFacts
<1>2. CASE ~(i > IterationCount(t.id) \/ t.run.isStopped \/ t.run.isHalted)
  <2> DEFINE v == IF IsIterating(t.id) THEN GiveSession(t, RowOf(t.id, i)) ELSE t
             x == v.run
             s == RequestsFrom(t.id, LaneCount(t.id) + 1)
             lanes == [w \in Lanes(t.id) |-> [at |-> "preparing", request |-> w]]
             y == [x EXCEPT !.iteration = i, !.queue = s, !.attempted = Lanes(t.id),
                            !.lanes = lanes, !.sent = 0, !.passedOver = {}]
             g == IF IsIterating(t.id) THEN RowOf(t.id, i) ELSE t.run.given
  <2>1. /\ IsTurn(v) /\ v.id = t.id /\ v.sink = t.sink
        /\ v.run = [t.run EXCEPT !.given = g]
        /\ v.session = IF IsIterating(t.id) THEN RowOf(t.id, i) ELSE t.session
    <3>1. CASE IsIterating(t.id)
      <4>0. i \in 1 .. IterationCount(t.id)
        BY <1>0, <1>i, <1>2
      <4>1. RowOf(t.id, i) \in GivenValues /\ RowOf(t.id, i) # Nothing
        BY <1>0, <3>1, <4>0, ValueFacts, RowIsValue
      <4> QED BY <3>1, <4>1, GiveSessionFacts
    <3>2. CASE ~IsIterating(t.id)
      <4>1. t.run = [t.run EXCEPT !.given = t.run.given]
        BY <1>0 DEF RunRecord
      <4> QED BY <3>2, <4>1
    <3> QED BY <3>1, <3>2
  <2>2. u = [v EXCEPT !.run.iteration = i, !.run.queue = s, !.run.attempted = Lanes(t.id),
                      !.run.lanes = lanes, !.run.sent = 0, !.run.passedOver = {}]
    BY <1>2 DEF BeginIteration
  <2> HIDE DEF v
  <2>0. x \in RunRecord(v.id) /\ v.id \in RunIds /\ v.session \in Values /\ v.sink \in Sink
    BY <2>1, TurnFields
  <2>s. s \in Seq(Nat)
    BY <1>0, RequestsFromFacts
  <2>l. lanes \in [Lanes(t.id) -> Lane] /\ Lanes(t.id) \in SUBSET Nat
    BY <1>0 DEF Lanes, Lane, Stages
  <2>m. \A w \in Lanes(t.id) : lanes[w] = [at |-> "preparing", request |-> w]
    OBVIOUS
  <2>i. i \in Nat
    BY <1>i
  <2> HIDE DEF s, lanes, i
  <2>3. /\ u.id = v.id /\ u.session = v.session /\ u.sink = v.sink /\ u.run = y
        /\ u = [id |-> u.id, run |-> u.run, session |-> u.session, sink |-> u.sink]
    BY <2>1, <2>2 DEF IsTurn
  <2>4. y \in RunRecord(t.id)
    BY <2>0, <2>1, <2>s, <2>l, <2>i DEF RunRecord
  <2>5. /\ y.isOver = x.isOver /\ y.isHalted = x.isHalted /\ y.lanes = lanes
        /\ y.isStopped = x.isStopped /\ y.before = x.before /\ y.given = x.given
        /\ y.iteration = i /\ y.values = x.values /\ y.turn = x.turn /\ y.asks = x.asks
        /\ y.queue = s /\ y.attempted = Lanes(t.id)
    BY <2>0 DEF RunRecord
  <2> HIDE DEF g
  <2>6. /\ x.isHalted = t.run.isHalted /\ x.isOver = t.run.isOver
        /\ x.isStopped = t.run.isStopped /\ x.before = t.run.before /\ x.given = g
        /\ x.values = t.run.values /\ x.turn = t.run.turn /\ x.asks = t.run.asks
    BY <1>0, <2>1 DEF RunRecord
  <2> HIDE DEF x, y
  <2>7. IsTurn(u)
    BY <2>0, <2>1, <2>3, <2>4, MakeTurn
  <2>8. t.run.iteration < IterationCount(t.id) /\ ~t.run.isStopped /\ ~t.run.isHalted
    BY <1>0, <1>i, <1>2 DEF i
  <2>9. Advances(t, u)
    BY <2>1, <2>3, <2>5, <2>6, <2>m, <2>8 DEF Advances, i, g, s
  <2> QED BY <2>7, <2>9
<1> QED BY <1>1, <1>2

LEMMA LaneTypes ==
    ASSUME NEW t, IsTurn(t), NEW w \in Lanes(t.id)
    PROVE  t.run.lanes[w] \in Lane /\ t.run.lanes[w].at \in Stages /\ t.run.lanes[w].request \in Nat
<1>1. t.run.lanes \in [Lanes(t.id) -> Lane]
  BY TurnFields DEF RunRecord
<1> QED BY <1>1 DEF Lane

LEMMA ResultTypes ==
    ASSUME PlanType, NEW t, IsTurn(t), NEW q \in Nat, NEW kind, kind \in {"sent", "skipped", "passedOver"},
           NEW e, e = Result(t, q, kind)
    PROVE  e \in Results /\ e.run = t.id /\ e.iteration = t.run.iteration /\ e.request = q /\ e.kind = kind
<1>1. t.id \in Nat /\ t.run.iteration \in Nat
  BY TurnFields, PlanFacts DEF RunRecord
<1> QED BY <1>1 DEF Result, Results

(* What was known of the turn that goes on to the next iteration: the      *)
(* requests that were passed over are told of.                             *)
Wrapped(t, v) ==
    /\ IsTurn(v) /\ v.id = t.id /\ v.run = t.run /\ v.session = t.session
    /\ v.sink.isRunning = t.sink.isRunning
    /\ v.sink.results = IF t.run.isStopped THEN t.sink.results
                        ELSE t.sink.results \union PassedOverResults(t)

LEMMA AfterLanesFacts ==
    ASSUME PlanType, NEW t, IsTurn(t), NEW u, u = AfterLanes(t)
    PROVE  /\ IsTurn(u)
           /\ \/ u = t /\ ~AllLanesAreDone(t)
              \/ /\ AllLanesAreDone(t)
                 /\ \E v : /\ Wrapped(t, v)
                           /\ \/ Advances(v, u)
                              \/ /\ EndsTask(v, u)
                                 /\ t.run.isStopped \/ t.run.isHalted \/ t.run.iteration >= IterationCount(t.id)
<1>1. CASE ~AllLanesAreDone(t)
  BY <1>1 DEF AfterLanes
<1>2. CASE AllLanesAreDone(t)
  <2> DEFINE v == IF t.run.isStopped THEN t ELSE Add(t, PassedOverResults(t))
  <2>1. u = BeginIteration(v)
    BY <1>2 DEF AfterLanes
  <2>2. t.run.passedOver \in SUBSET Nat
    BY BookTypes
  <2>3. PassedOverResults(t) \in SUBSET Results
    <3>1. \A q \in Nat : Result(t, q, "passedOver") \in Results
      BY ResultTypes
    <3> QED BY <2>2, <3>1 DEF PassedOverResults
  <2>4. Wrapped(t, v)
    <3>1. CASE t.run.isStopped
      BY <3>1 DEF Wrapped
    <3>2. CASE ~t.run.isStopped
      <4>1. v = Add(t, PassedOverResults(t))
        BY <3>2
      <4> HIDE DEF v
      <4> QED BY <3>2, <4>1, <2>3, AddFacts DEF Wrapped
    <3> QED BY <3>1, <3>2
  <2> HIDE DEF v
  <2>5. /\ IsTurn(u)
        /\ \/ Advances(v, u)
           \/ EndsTask(v, u) /\ (v.run.isStopped \/ v.run.isHalted \/ v.run.iteration >= IterationCount(v.id))
    BY <2>1, <2>4, BeginIterationFacts DEF Wrapped
  <2> QED BY <1>2, <2>4, <2>5 DEF Wrapped
<1> QED BY <1>1, <1>2

OutcomeOf(r) == [kind : {"sent", "skipped"}, flow : FlowOf(r), hasFailed : BOOLEAN]

(* The lane w has its outcome, and the run goes on with u: the books of    *)
(* the lanes have changed, and the result is told.                         *)
HasOutcome(t, u, w) ==
    /\ IsTurn(u) /\ u.id = t.id /\ u.session = t.session /\ u.sink.isRunning = t.sink.isRunning
    /\ Quiet(t.run, u.run) /\ u.run.lanes = t.run.lanes /\ u.run.attempted = t.run.attempted
    /\ KeepsBooks(t, u)
    /\ \E e \in Results :
          /\ u.sink.results = t.sink.results \union {e}
          /\ e.run = t.id /\ e.iteration = t.run.iteration
          /\ e.request = t.run.lanes[w].request /\ e.kind # "passedOver"

LEMMA AfterOutcomeFacts ==
    ASSUME PlanType, MaxFlowSteps \in Nat, NEW t, IsTurn(t), NEW w \in Lanes(t.id),
           NEW outcome \in OutcomeOf(t.id), NEW u, u = AfterOutcome(t, w, outcome)
    PROVE  \/ t.run.isStopped /\ u = AfterLanes([t EXCEPT !.run.lanes[w] = IdleLane])
           \/ /\ ~t.run.isStopped
              /\ \E v : /\ HasOutcome(t, v, w)
                        /\ u = MoveTo(v, w, "pausing") \/ u = AfterLanes(TakeNext(v, w))
<1>1. CASE t.run.isStopped
  BY <1>1 DEF AfterOutcome
<1>2. CASE ~t.run.isStopped
  <2> DEFINE request == t.run.lanes[w].request
             hasFailed == outcome.hasFailed \/ HasProblem(t, outcome.flow, request)
             followed == Follow(t, outcome.flow, request)
             e == Result(t, request, outcome.kind)
             added == Add(followed, {e})
             halted == IF plan[t.id].stopOnFailure /\ hasFailed THEN Halt(added) ELSE added
  <2>1. u = IF plan[t.id].isDelayed /\ ~halted.run.isHalted
            THEN MoveTo(halted, w, "pausing") ELSE AfterLanes(TakeNext(halted, w))
    BY <1>2 DEF AfterOutcome, MoveTo
  <2>2. request \in Nat
    BY LaneTypes
  <2>o. outcome.flow \in FlowOf(t.id) /\ outcome.kind \in {"sent", "skipped"}
    BY DEF OutcomeOf
  <2> HIDE DEF request, hasFailed
  <2>3. IsTurn(followed) /\ Follows(t, followed) /\ KeepsBooks(t, followed)
    BY <2>2, <2>o, FollowFacts
  <2>4. e \in Results /\ e.run = t.id /\ e.iteration = t.run.iteration /\ e.request = request
        /\ e.kind # "passedOver"
    <3>1. outcome.kind \in {"sent", "skipped", "passedOver"} /\ outcome.kind # "passedOver"
      BY <2>o
    <3>2. e \in Results /\ e.run = t.id /\ e.iteration = t.run.iteration /\ e.request = request
          /\ e.kind = outcome.kind
      <4>1. t.id \in Nat /\ t.run.iteration \in Nat
        BY TurnFields, PlanFacts DEF RunRecord
      <4> QED BY <2>2, <3>1, <4>1 DEF Result, Results
    <3> QED BY <3>1, <3>2
  <2> HIDE DEF followed, e
  <2>5. /\ IsTurn(added)
        /\ added.id = followed.id /\ added.session = followed.session /\ added.run = followed.run
        /\ added.sink.isRunning = followed.sink.isRunning
        /\ added.sink.results = followed.sink.results \union {e}
    <3>1. {e} \in SUBSET Results
      BY <2>4
    <3> QED BY <2>3, <3>1, AddFacts
  <2> HIDE DEF added
  <2>6. HasOutcome(t, added, w)
    BY <2>3, <2>4, <2>5 DEF HasOutcome, Follows, KeepsBooks, Queued, request
  <2>7. HasOutcome(t, halted, w)
    <3>1. CASE plan[t.id].stopOnFailure /\ hasFailed
      <4>1. halted = Halt(added)
        BY <3>1
      <4> HIDE DEF halted
      <4>2. /\ IsTurn(halted) /\ Follows(added, halted) /\ halted.run.isHalted = TRUE
            /\ halted.run.passedOver = added.run.passedOver
        BY <4>1, <2>5, HaltFacts
      <4> QED BY <4>2, <2>6 DEF HasOutcome, Follows, KeepsBooks, Quiet
    <3>2. CASE ~(plan[t.id].stopOnFailure /\ hasFailed)
      BY <3>2, <2>6
    <3> QED BY <3>1, <3>2
  <2> HIDE DEF halted
  <2> QED BY <1>2, <2>1, <2>7
<1> QED BY <1>1, <1>2

-----------------------------------------------------------------------------
(* What a lane does to its run, seen from outside. *)

(* Only the lane w and the books have changed. *)
Near(t, v, w) ==
    /\ IsTurn(v) /\ v.id = t.id /\ v.session = t.session /\ v.sink.isRunning = t.sink.isRunning
    /\ Quiet(t.run, v.run)
    /\ \A l \in Lanes(t.id) : l # w => v.run.lanes[l] = t.run.lanes[l]
    /\ t.run.isStopped => v.sink.results = t.sink.results
    /\ \A e \in v.sink.results : e \in t.sink.results \/ e.run = t.id

Remains(t, u) ==
    /\ u.run.isOver = t.run.isOver /\ u.run.iteration = t.run.iteration /\ u.run.given = t.run.given
    /\ u.session = t.session /\ u.sink.isRunning = t.sink.isRunning

CarriesOn(t, u) ==
    /\ u.run.isOver = t.run.isOver /\ ~t.run.isStopped
    /\ t.run.iteration < IterationCount(t.id) /\ u.run.iteration = t.run.iteration + 1
    /\ u.sink.isRunning = t.sink.isRunning
    /\ u.run.given = IF IsIterating(t.id) THEN RowOf(t.id, u.run.iteration) ELSE t.run.given
    /\ u.session = IF IsIterating(t.id) THEN RowOf(t.id, u.run.iteration) ELSE t.session

IsFinished(t, u) ==
    /\ u.run.isOver = TRUE /\ u.run.iteration = t.run.iteration
    /\ \A l \in Lanes(t.id) : u.run.lanes[l].at = "done"
    /\ u.sink.isRunning <=> t.sink.isRunning /\ current[plan[t.id].runner] # t.id
    /\ u.run.given = IF IsIterating(t.id) THEN Nothing ELSE t.run.given
    /\ u.session = IF IsIterating(t.id) THEN WithdrawnValues(t.run.before, t.run.given, t.session)
                   ELSE t.session

Passes(t, u, w) ==
    /\ IsTurn(u) /\ u.id = t.id
    /\ u.run.isStopped = t.run.isStopped /\ u.run.before = t.run.before
    /\ u.run.values = t.run.values /\ u.run.turn = t.run.turn /\ u.run.asks = t.run.asks
    /\ \A l \in Lanes(t.id) : l # w /\ t.run.lanes[l].at # "done" => u.run.lanes[l] = t.run.lanes[l]
    /\ t.run.isStopped => u.sink.results = t.sink.results
    /\ \A e \in u.sink.results : e \in t.sink.results \/ e.run = t.id
    /\ Remains(t, u) \/ CarriesOn(t, u) \/ IsFinished(t, u)

LEMMA NearPasses ==
    ASSUME NEW t, NEW u, NEW w, Near(t, u, w)
    PROVE  Passes(t, u, w)
BY DEF Near, Passes, Remains, Quiet

LEMMA NearTakeNext ==
    ASSUME NEW t, NEW v, NEW w \in Lanes(t.id), Near(t, v, w), NEW u, u = TakeNext(v, w)
    PROVE  Near(t, u, w)
<1>1. IsTurn(v) /\ v.id = t.id /\ w \in Lanes(v.id)
  BY DEF Near
<1>2. Takes(v, u, w)
  BY <1>1, TakeNextFacts
<1> QED BY <1>1, <1>2 DEF Near, Quiet, Takes

LEMMA NearMoveTo ==
    ASSUME NEW t, NEW v, NEW w \in Lanes(t.id), Near(t, v, w), NEW stage \in Stages, NEW u, u = MoveTo(v, w, stage)
    PROVE  Near(t, u, w)
<1>1. IsTurn(v) /\ v.id = t.id /\ w \in Lanes(v.id)
  BY DEF Near
<1>2. Moves(v, u, w, stage)
  BY <1>1, MoveToFacts
<1> QED BY <1>1, <1>2 DEF Near, Quiet, Moves

LEMMA NearAfterLanes ==
    ASSUME PlanType, NEW t, NEW v, NEW w \in Lanes(t.id), Near(t, v, w), NEW u, u = AfterLanes(v)
    PROVE  Passes(t, u, w)
<1>1. IsTurn(v) /\ v.id = t.id
  BY DEF Near
<1>2. CASE u = v
  BY <1>2, NearPasses
<1>3. ASSUME AllLanesAreDone(v), IsTurn(u), NEW z, Wrapped(v, z),
             Advances(z, u) \/ EndsTask(z, u)
      PROVE  Passes(t, u, w)
  <2>1. \A l \in Lanes(t.id) : l # w => t.run.lanes[l].at = "done"
    BY <1>1, <1>3 DEF AllLanesAreDone, Near
  <2>2. /\ z.id = t.id /\ z.session = t.session /\ z.sink.isRunning = t.sink.isRunning
        /\ z.run = v.run /\ Quiet(t.run, z.run)
    BY <1>3 DEF Wrapped, Near
  <2>3. /\ t.run.isStopped => z.sink.results = t.sink.results
        /\ \A e \in z.sink.results : e \in t.sink.results \/ e.run = t.id
    <3>1. \A e \in PassedOverResults(v) : e.run = t.id
      <4>1. \A q : Result(v, q, "passedOver").run = v.id
        BY DEF Result
      <4> QED BY <1>1, <4>1 DEF PassedOverResults
    <3> QED BY <1>3, <3>1 DEF Wrapped, Near, Quiet
  <2>4. CASE Advances(z, u)
    <3>1. CarriesOn(t, u)
      BY <2>2, <2>4 DEF Advances, CarriesOn, Quiet
    <3> QED BY <1>3, <2>1, <2>2, <2>3, <2>4, <3>1 DEF Passes, Advances, Quiet
  <2>5. CASE EndsTask(z, u)
    <3>1. \A l \in Lanes(t.id) : u.run.lanes[l].at = "done"
      BY <1>1, <1>3, <2>2, <2>5 DEF EndsTask, AllLanesAreDone
    <3>2. IsFinished(t, u)
      BY <2>2, <2>5, <3>1 DEF EndsTask, IsFinished, Quiet
    <3> QED BY <1>3, <2>1, <2>2, <2>3, <2>5, <3>2 DEF Passes, EndsTask, Quiet
  <2> QED BY <1>3, <2>4, <2>5
<1> QED BY <1>1, <1>2, <1>3, AfterLanesFacts

LEMMA NearItself ==
    ASSUME NEW t, IsTurn(t), NEW w
    PROVE  Near(t, t, w)
BY DEF Near, Quiet

LEMMA OutcomePasses ==
    ASSUME PlanType, MaxFlowSteps \in Nat, NEW t, IsTurn(t), NEW w \in Lanes(t.id),
           NEW outcome \in OutcomeOf(t.id), NEW u, u = AfterOutcome(t, w, outcome)
    PROVE  Passes(t, u, w)
<1>1. CASE t.run.isStopped /\ u = AfterLanes([t EXCEPT !.run.lanes[w] = IdleLane])
  <2>1. TakeNext(t, w) = [t EXCEPT !.run.lanes[w] = IdleLane]
    BY <1>1 DEF TakeNext
  <2>2. Near(t, TakeNext(t, w), w)
    BY NearItself, NearTakeNext
  <2> QED BY <1>1, <2>1, <2>2, NearAfterLanes
<1>2. ASSUME ~t.run.isStopped, NEW v, HasOutcome(t, v, w),
             u = MoveTo(v, w, "pausing") \/ u = AfterLanes(TakeNext(v, w))
      PROVE  Passes(t, u, w)
  <2>1. Near(t, v, w)
    BY <1>2 DEF HasOutcome, Near
  <2>2. CASE u = MoveTo(v, w, "pausing")
    <3>1. "pausing" \in Stages
      BY DEF Stages
    <3> QED BY <2>1, <2>2, <3>1, NearMoveTo, NearPasses
  <2>3. CASE u = AfterLanes(TakeNext(v, w))
    BY <2>1, <2>3, NearTakeNext, NearAfterLanes
  <2> QED BY <1>2, <2>2, <2>3
<1> QED BY <1>1, <1>2, AfterOutcomeFacts

-----------------------------------------------------------------------------
(* The inductive invariant *)

RunnerTypes ==
    /\ PlanType
    /\ runs = [r \in RunIds |-> runs[r]] /\ \A r \in RunIds : runs[r] \in RunRecord(r)
    /\ current \in [Runners -> RunIds \union {0}]
    /\ sink \in [Runners -> Sink]
    /\ session \in Values /\ standing \in Values
    /\ written \subseteq Owned
    /\ disturbed \subseteq RunIds

(* A run has lanes at work from its start to its end, and its row is given *)
(* from its start to its end or to Stop.                                   *)
LaneInv ==
    \A r \in RunIds :
        /\ ~HasStarted(r) => runs[r] = NewRun(r, Forgotten)
        /\ runs[r].isOver => \A w \in Lanes(r) : runs[r].lanes[w].at = "done"
        /\ runs[r].given = IF IsGoing(r) /\ IsIterating(r) THEN RowOf(r, runs[r].iteration) ELSE Nothing

(* One run has the prompt, and it has asked once. *)
AskInv ==
    /\ asker # Nobody =>
         \E r \in RunIds : \E w \in Lanes(r) : asker = <<r, w>> /\ runs[r].lanes[w].at = "asking"
    /\ \A r \in RunIds :
         /\ \A w \in Lanes(r) : runs[r].lanes[w].at = "asking" => runs[r].turn # <<>> /\ w = Head(runs[r].turn)
         /\ \/ runs[r].asks = 0
            \/ /\ runs[r].asks = 1
               /\ \/ runs[r].values # "unasked"
                  \/ runs[r].turn # <<>> /\ runs[r].lanes[Head(runs[r].turn)].at = "asking"

(* Where the value of the session comes from. *)
IsInPlace(v) == \E r \in RunIds : runs[r].given # Nothing /\ v = runs[r].given

ValueInv ==
    /\ session \in written \/ session.of = "row"
    /\ \A r \in RunIds : HasStarted(r) => runs[r].before \in written \/ runs[r].before.of = "row"
    /\ HaveCrossed \/ session \in written \/ IsInPlace(session)
    /\ standing # Nothing => session = standing /\ standing \in written /\ ~IsRowText(standing.text)

PlaceInv ==
    \A r \in RunIds : runs[r].given # Nothing /\ r \notin disturbed => session = runs[r].given

(* The run a runner holds on to has started. *)
CurrentInv == \A x \in Runners : current[x] # 0 => HasStarted(current[x])

RowInv == RunnerTypes /\ LaneInv /\ AskInv /\ CurrentInv /\ ValueInv /\ PlaceInv

(* The sink of a runner and its latest run. *)
SinkInv ==
    /\ \A r, q \in RunIds : r < q /\ plan[r].runner = plan[q].runner /\ HasStarted(q) => HasStarted(r)
    /\ \A x \in Runners :
         /\ current[x] # 0 => current[x] \in Latest(x) /\ ~runs[current[x]].isStopped
         /\ sink[x].isRunning <=> current[x] # 0 /\ IsGoing(current[x])
         /\ \A e \in sink[x].results : e.run \in Latest(x)
    /\ \A r \in RunIds : IsGoing(r) => current[plan[r].runner] = r

IsBusy(lane) == lane.at \notin {"done", "pausing"}

IsToldOf(t, i, q) == \E e \in t.sink.results : e.iteration = i /\ e.request = q

(* The iterations before this one. *)
Past(t) ==
    /\ \A e \in t.sink.results : e.run = t.id /\ e.iteration <= t.run.iteration
    /\ \A a, b \in t.sink.results :
         a.iteration = b.iteration /\ a.request = b.request /\ a.kind = "passedOver" => b.kind = "passedOver"
    /\ \A i \in 1 .. t.run.iteration - 1, q \in 1 .. plan[t.id].requests : IsToldOf(t, i, q)

(* This one, when the lanes W are at work. *)
Present(t, W) ==
    /\ \A q \in 1 .. plan[t.id].requests :
         t.run.isHalted \/ q \in Queued(t) \/ q \in t.run.passedOver \/ q \in t.run.attempted
    /\ \A q \in t.run.attempted :
         \/ IsToldOf(t, t.run.iteration, q)
         \/ \E w \in W : IsBusy(t.run.lanes[w]) /\ t.run.lanes[w].request = q
    /\ \A e \in t.sink.results :
         e.iteration = t.run.iteration => e.kind # "passedOver" /\ e.request \in t.run.attempted
    /\ \A w \in Lanes(t.id) : IsBusy(t.run.lanes[w]) => t.run.lanes[w].request \in t.run.attempted

IsReported(t) ==
    \/ t.run.isHalted
    \/ /\ t.run.iteration >= IterationCount(t.id)
       /\ \A q \in 1 .. plan[t.id].requests : IsToldOf(t, t.run.iteration, q)

Tells(t) == Past(t) /\ IF t.run.isOver THEN IsReported(t) ELSE Present(t, Lanes(t.id))

TellInv ==
    \A r \in RunIds :
        r \in Latest(plan[r].runner) /\ ~runs[r].isStopped =>
            runs[r].iteration \in 1 .. IterationCount(r) /\ Tells(TurnOf(r))

RunnerInv == RowInv /\ SinkInv /\ TellInv

-----------------------------------------------------------------------------
(* The actions of the lanes *)

(* A turn whose prompt has changed. *)
Prompting(s, t) ==
    /\ IsTurn(t) /\ t.id = s.id /\ t.session = s.session /\ t.sink = s.sink
    /\ t.run.isStopped = s.run.isStopped /\ t.run.isHalted = s.run.isHalted /\ t.run.isOver = s.run.isOver
    /\ t.run.before = s.run.before /\ t.run.given = s.run.given /\ t.run.iteration = s.run.iteration
    /\ t.run.queue = s.run.queue /\ t.run.lanes = s.run.lanes
    /\ t.run.passedOver = s.run.passedOver /\ t.run.attempted = s.run.attempted

Reprompts(s, t, turn, values, asks) ==
    /\ t.id = s.id /\ t.session = s.session /\ t.sink = s.sink
    /\ t = [id |-> t.id, run |-> t.run, session |-> t.session, sink |-> t.sink]
    /\ t.run = [s.run EXCEPT !.turn = turn, !.values = values, !.asks = asks]

PromptIs(t, turn, values, asks) == t.run.turn = turn /\ t.run.values = values /\ t.run.asks = asks

LEMMA PromptFacts ==
    ASSUME NEW s, IsTurn(s), NEW turn \in Seq(Lanes(s.id)), NEW values \in {"unasked", "given", "declined"},
           NEW asks \in Nat, NEW t, Reprompts(s, t, turn, values, asks)
    PROVE  Prompting(s, t) /\ PromptIs(t, turn, values, asks)
<1>0. s.run \in RunRecord(s.id) /\ s.id \in RunIds /\ s.session \in Values /\ s.sink \in Sink
  BY TurnFields
<1> DEFINE x == s.run
           y == [x EXCEPT !.turn = turn, !.values = values, !.asks = asks]
<1>1. y \in RunRecord(s.id)
  BY <1>0 DEF RunRecord
<1>2. /\ y.isStopped = x.isStopped /\ y.isHalted = x.isHalted /\ y.isOver = x.isOver
      /\ y.before = x.before /\ y.given = x.given /\ y.iteration = x.iteration
      /\ y.queue = x.queue /\ y.lanes = x.lanes /\ y.passedOver = x.passedOver /\ y.attempted = x.attempted
      /\ y.turn = turn /\ y.values = values /\ y.asks = asks
  BY <1>0 DEF RunRecord
<1> HIDE DEF y
<1>3. IsTurn(t)
  BY <1>0, <1>1, MakeTurn DEF Reprompts, y
<1> QED BY <1>2, <1>3 DEF Prompting, PromptIs, Reprompts, y

PromptTypes(x, r) ==
    /\ x.turn \in Seq(Lanes(r)) /\ x.values \in {"unasked", "given", "declined"} /\ x.asks \in Nat
    /\ x = [x EXCEPT !.turn = x.turn, !.values = x.values, !.asks = x.asks]

LEMMA PromptFields ==
    ASSUME NEW s, IsTurn(s)
    PROVE  PromptTypes(s.run, s.id)
<1>1. s.run \in RunRecord(s.id)
  BY TurnFields
<1> QED BY <1>1 DEF PromptTypes, RunRecord

LEMMA SamePrompt ==
    ASSUME NEW s, IsTurn(s)
    PROVE  Prompting(s, s)
BY DEF Prompting

(* What a lane may do to its turn. *)
LaneEffect(t, u, w) ==
    \/ /\ IsBusy(t.run.lanes[w])
       /\ \E outcome \in OutcomeOf(t.id) : u = AfterOutcome(t, w, outcome)
    \/ /\ IsBusy(t.run.lanes[w])
       /\ \E stage \in Stages \ {"done", "pausing", "asking"} : u = MoveTo(t, w, stage)
    \/ /\ t.run.lanes[w].at = "pausing"
       /\ u = AfterLanes(TakeNext(t, w))

LEMMA EffectPasses ==
    ASSUME PlanType, MaxFlowSteps \in Nat, NEW t, IsTurn(t), NEW w \in Lanes(t.id), NEW u, LaneEffect(t, u, w)
    PROVE  Passes(t, u, w)
<1>1. ASSUME NEW outcome \in OutcomeOf(t.id), u = AfterOutcome(t, w, outcome) PROVE Passes(t, u, w)
  BY <1>1, OutcomePasses
<1>2. ASSUME NEW stage \in Stages \ {"done", "pausing", "asking"}, u = MoveTo(t, w, stage) PROVE Passes(t, u, w)
  BY <1>2, NearItself, NearMoveTo, NearPasses
<1>3. ASSUME u = AfterLanes(TakeNext(t, w)) PROVE Passes(t, u, w)
  BY <1>3, NearItself, NearTakeNext, NearAfterLanes
<1> QED BY <1>1, <1>2, <1>3 DEF LaneEffect

(* What happens to the prompt of the run and to the one prompt of the app. *)
PromptStep(r, w, t) ==
    \/ /\ t.run.values = runs[r].values /\ t.run.asks = runs[r].asks
       /\ runs[r].lanes[w].at # "asking" /\ asker' = asker
       /\ \/ t.run.turn = runs[r].turn
          \/ t.run.turn = Append(runs[r].turn, w)
          \/ /\ t.run.values # "unasked" /\ t.run.turn = Tail(runs[r].turn)
             /\ runs[r].turn # <<>> /\ w = Head(runs[r].turn)
    \/ /\ t.run.values # "unasked" /\ t.run.asks = runs[r].asks /\ t.run.turn = Tail(runs[r].turn)
       /\ runs[r].turn # <<>> /\ runs[r].lanes[w].at = "asking" /\ asker' = Nobody

AskStep(r, w, t) ==
    /\ t.run.values = runs[r].values /\ runs[r].values = "unasked" /\ t.run.asks = runs[r].asks + 1
    /\ t.run.turn = runs[r].turn /\ runs[r].turn # <<>> /\ w = Head(runs[r].turn)
    /\ runs[r].lanes[w].at = "waiting" /\ asker' = <<r, w>>

LaneMoves(r, w, value, s, t, u) ==
    /\ r \in RunIds /\ w \in Lanes(r) /\ value \in Writable
    /\ s = Written(TurnOf(r), value) /\ IsTurn(s)
    /\ Prompting(s, t)
    /\ \/ LaneEffect(t, u, w) /\ PromptStep(r, w, t)
       \/ u = MoveTo(t, w, "asking") /\ AskStep(r, w, t)
    /\ CommitWrite(value, u)
    /\ written' = written \union ({value} \ {Nothing})
    /\ plan' = plan /\ current' = current

LEMMA TurnOfFacts ==
    ASSUME RunnerTypes, NEW r \in RunIds, NEW value \in Writable,
           NEW s, s = Written(TurnOf(r), value)
    PROVE  /\ IsTurn(s) /\ s.id = r /\ s.run = runs[r] /\ s.sink = sink[plan[r].runner]
           /\ s.session = IF value = Nothing THEN session ELSE value
<1> DEFINE t == TurnOf(r)
<1>0. runs[r] \in RunRecord(r) /\ sink[plan[r].runner] \in Sink /\ session \in Values /\ value \in Values
  BY PlanFacts, ValueFacts DEF RunnerTypes
<1>1. /\ t.id = r /\ t.run = runs[r] /\ t.session = session /\ t.sink = sink[plan[r].runner]
      /\ t = [id |-> t.id, run |-> t.run, session |-> t.session, sink |-> t.sink]
  BY DEF TurnOf
<1> HIDE DEF t
<1>2. IsTurn(t)
  BY <1>0, <1>1, MakeTurn
<1>3. CASE value = Nothing
  <2>1. s = t
    BY <1>3 DEF Written, t
  <2> QED BY <1>1, <1>2, <1>3, <2>1
<1>4. CASE value # Nothing
  <2>1. s = [t EXCEPT !.session = value]
    BY <1>4 DEF Written, t
  <2>2. /\ s.id = r /\ s.run = runs[r] /\ s.session = value /\ s.sink = sink[plan[r].runner]
        /\ s = [id |-> s.id, run |-> s.run, session |-> s.session, sink |-> s.sink]
    BY <1>1, <1>2, <2>1 DEF IsTurn
  <2> QED BY <1>0, <1>4, <2>2, MakeTurn
<1> QED BY <1>3, <1>4

LEMMA FlowTypes ==
    ASSUME RunnerTypes, NEW r \in RunIds, NEW flow \in Flows(r), NEW hasFailed \in BOOLEAN
    PROVE  flow \in FlowOf(r) /\ SentOutcome(flow, hasFailed) \in OutcomeOf(r) /\ Skipped(flow) \in OutcomeOf(r)
<1>1. plan[r].requests \in Nat
  BY PlanFacts DEF RunnerTypes
<1>2. flow \in FlowOf(r)
  <2>1. NoFlow \in FlowOf(r)
    BY <1>1 DEF FlowOf, NoFlow
  <2>2. ASSUME NEW f \in [action : {"stop", "end"}, target : {0}] PROVE f \in FlowOf(r)
    <3>1. 0 \in 0 .. plan[r].requests
      BY <1>1
    <3>2. \A n : n \in {0} => n \in 0 .. plan[r].requests
      BY <3>1
    <3>3. \A a : a \in {"stop", "end"} => a \in {"", "stop", "end", "next"}
      OBVIOUS
    <3> QED BY <3>2, <3>3 DEF FlowOf
  <2>3. \A f \in [action : {"next"}, target : 0 .. plan[r].requests] : f \in FlowOf(r)
    BY <1>1 DEF FlowOf
  <2> QED BY <2>1, <2>2, <2>3 DEF Flows
<1> QED BY <1>2 DEF SentOutcome, Skipped, OutcomeOf

LEMMA FailsEffect ==
    ASSUME RunnerTypes, NEW r \in RunIds, NEW w \in Lanes(r), NEW t, IsTurn(t), t.id = r,
           IsBusy(t.run.lanes[w]), Fails(r, w, t)
    PROVE  \E u : LaneEffect(t, u, w) /\ CommitWrite(Nothing, u) /\ written' = written \union ({Nothing} \ {Nothing})
<1>1. PICK flow \in Flows(r) : /\ CommitWrite(Nothing, AfterOutcome(t, w, SentOutcome(flow, TRUE)))
                               /\ SpendRun(Nothing, flow)
  BY DEF Fails, Commit
<1>2. SentOutcome(flow, TRUE) \in OutcomeOf(t.id)
  BY FlowTypes
<1>3. LaneEffect(t, AfterOutcome(t, w, SentOutcome(flow, TRUE)), w)
  BY <1>2 DEF LaneEffect
<1> QED BY <1>1, <1>3 DEF SpendRun

IsLaneStep == \E r, w, value, s, t, u : LaneMoves(r, w, value, s, t, u)

LEMMA MoveEffect ==
    ASSUME NEW t, NEW w, IsBusy(t.run.lanes[w]), NEW stage \in {"waiting", "renewing", "sending", "checking"}
    PROVE  LaneEffect(t, MoveTo(t, w, stage), w)
BY DEF LaneEffect, Stages

LEMMA PrepareEndsMoves ==
    ASSUME RunnerTypes, NEW r \in RunIds, NEW w \in Lanes(r), PrepareEnds(r, w)
    PROVE  IsLaneStep
<1>1. PICK value \in Writes, flow \in Flows(r) :
        LET t == Written(TurnOf(r), value)
            asks == t.run.lanes[w].request \in plan[r].asking
        IN  /\ \/ CommitWrite(value, AfterOutcome(t, w, SentOutcome(flow, TRUE)))
               \/ /\ flow.action \in {"", "stop"}
                  /\ CommitWrite(value, AfterOutcome(t, w, Skipped(flow)))
               \/ /\ flow = NoFlow
                  /\ CommitWrite(value,
                        IF asks THEN MoveTo([t EXCEPT !.run.turn = Append(@, w)], w, "waiting")
                        ELSE MoveTo(t, w, "renewing"))
            /\ SpendRun(value, flow)
  BY DEF PrepareEnds
<1> DEFINE s == Written(TurnOf(r), value)
<1>2. value \in Writable
  BY DEF Writes, Writable
<1>3. IsTurn(s) /\ s.id = r /\ s.run = runs[r]
  BY <1>2, ValueFacts, TurnOfFacts
<1>4. runs[r].lanes[w].at = "preparing" /\ asker' = asker /\ plan' = plan /\ current' = current
  BY DEF PrepareEnds, InStage
<1>5. IsBusy(s.run.lanes[w])
  BY <1>3, <1>4 DEF IsBusy
<1>6. written' = written \union ({value} \ {Nothing})
  BY <1>1 DEF SpendRun
<1>7. SentOutcome(flow, TRUE) \in OutcomeOf(s.id) /\ Skipped(flow) \in OutcomeOf(s.id)
  BY <1>3, FlowTypes
<1>p. PromptStep(r, w, s)
  BY <1>3, <1>4 DEF PromptStep
<1>8. ASSUME NEW u, CommitWrite(value, u), LaneEffect(s, u, w) PROVE IsLaneStep
  BY <1>2, <1>3, <1>4, <1>6, <1>8, <1>p, SamePrompt DEF IsLaneStep, LaneMoves
<1>9. ASSUME NEW outcome \in OutcomeOf(s.id) PROVE LaneEffect(s, AfterOutcome(s, w, outcome), w)
  BY <1>5 DEF LaneEffect
<1>a. CASE CommitWrite(value, AfterOutcome(s, w, SentOutcome(flow, TRUE)))
  BY <1>a, <1>7, <1>8, <1>9
<1>b. CASE CommitWrite(value, AfterOutcome(s, w, Skipped(flow)))
  BY <1>b, <1>7, <1>8, <1>9
<1>c. CASE CommitWrite(value, MoveTo(s, w, "renewing"))
  BY <1>c, <1>5, <1>8, MoveEffect
<1>d. CASE CommitWrite(value, MoveTo([s EXCEPT !.run.turn = Append(@, w)], w, "waiting"))
  <2> DEFINE t == [s EXCEPT !.run.turn = Append(@, w)]
             x == s.run
             turn == Append(x.turn, w)
  <2>x. x.turn \in Seq(Lanes(r)) /\ x.values \in {"unasked", "given", "declined"} /\ x.asks \in Nat
        /\ x \in RunRecord(r)
    BY <1>3, PromptFields, TurnFields DEF PromptTypes
  <2>t. turn \in Seq(Lanes(s.id))
    BY <2>x, <1>3
  <2> HIDE DEF s
  <2>1. /\ t.id = s.id /\ t.session = s.session /\ t.sink = s.sink
        /\ t = [id |-> t.id, run |-> t.run, session |-> t.session, sink |-> t.sink]
        /\ t.run = [x EXCEPT !.turn = turn]
    BY <1>3 DEF IsTurn
  <2> HIDE DEF turn
  <2>2. [x EXCEPT !.turn = turn] = [x EXCEPT !.turn = turn, !.values = x.values, !.asks = x.asks]
    BY <2>x DEF RunRecord
  <2>3. Reprompts(s, t, turn, x.values, x.asks)
    BY <2>1, <2>2 DEF Reprompts
  <2> HIDE DEF t
  <2>p. Prompting(s, t) /\ PromptIs(t, turn, x.values, x.asks)
    BY <1>3, <2>x, <2>t, <2>3, PromptFacts
  <2>4. Prompting(s, t) /\ t.run.turn = turn /\ t.run.values = x.values /\ t.run.asks = x.asks
    BY <2>p DEF PromptIs
  <2>5. IsBusy(t.run.lanes[w])
    BY <1>5, <2>4 DEF Prompting
  <2>6. LaneEffect(t, MoveTo(t, w, "waiting"), w)
    BY <2>5, MoveEffect
  <2>7. PromptStep(r, w, t)
    BY <2>4, <1>3, <1>4 DEF PromptStep, turn
  <2> QED BY <1>d, <1>2, <1>3, <1>4, <1>6, <2>4, <2>6, <2>7 DEF IsLaneStep, LaneMoves, s, t
<1> QED BY <1>1, <1>a, <1>b, <1>c, <1>d

LEMMA TransmitMoves ==
    ASSUME RunnerTypes, NEW r \in RunIds, NEW w \in Lanes(r), Transmit(r, w) \/ Respond(r, w) \/ PauseEnds(r, w)
    PROVE  IsLaneStep
<1> DEFINE s == TurnOf(r)
<1>1. s = Written(s, Nothing)
  BY DEF Written
<1>2. IsTurn(s) /\ s.id = r /\ s.run = runs[r]
  BY <1>1, ValueFacts, TurnOfFacts
<1>3. asker' = asker /\ plan' = plan /\ current' = current
  BY DEF Transmit, Respond, PauseEnds
<1>4. runs[r].lanes[w].at \in {"renewing", "sending", "pausing"}
  BY DEF Transmit, Respond, PauseEnds, InStage
<1>p. PromptStep(r, w, s)
  BY <1>2, <1>3, <1>4 DEF PromptStep
<1> HIDE DEF s
<1>5. ASSUME NEW u, CommitWrite(Nothing, u), LaneEffect(s, u, w), written' = written \union ({Nothing} \ {Nothing})
      PROVE  IsLaneStep
  BY <1>1, <1>2, <1>3, <1>5, <1>p, SamePrompt, ValueFacts DEF IsLaneStep, LaneMoves, s
<1>6. ASSUME runs[r].lanes[w].at \in {"renewing", "sending"}, NEW stage \in {"sending", "checking"},
             \/ Commit(MoveTo(s, w, stage)) /\ UNCHANGED <<runBudget, written>>
             \/ Fails(r, w, s)
      PROVE  IsLaneStep
  <2>1. IsBusy(s.run.lanes[w])
    BY <1>2, <1>6 DEF IsBusy
  <2>2. CASE Commit(MoveTo(s, w, stage)) /\ UNCHANGED <<runBudget, written>>
    <3>1. LaneEffect(s, MoveTo(s, w, stage), w)
      BY <2>1, MoveEffect
    <3>2. written' = written \union ({Nothing} \ {Nothing})
      BY <2>2
    <3> QED BY <1>5, <2>2, <3>1, <3>2 DEF Commit
  <2>3. CASE Fails(r, w, s)
    BY <1>2, <1>5, <2>1, <2>3, FailsEffect
  <2> QED BY <1>6, <2>2, <2>3
<1>7. CASE Transmit(r, w)
  BY <1>6, <1>7 DEF Transmit, InStage, s
<1>8. CASE Respond(r, w)
  BY <1>6, <1>8 DEF Respond, InStage, s
<1>9. CASE PauseEnds(r, w)
  <2>1. LaneEffect(s, AfterLanes(TakeNext(s, w)), w)
    BY <1>2, <1>9 DEF LaneEffect, PauseEnds, InStage
  <2>2. written' = written \union ({Nothing} \ {Nothing}) /\ CommitWrite(Nothing, AfterLanes(TakeNext(s, w)))
    BY <1>9 DEF PauseEnds, Commit, s
  <2> QED BY <1>5, <2>1, <2>2
<1> QED BY <1>7, <1>8, <1>9

LEMMA CheckedMoves ==
    ASSUME RunnerTypes, NEW r \in RunIds, NEW w \in Lanes(r), Checked(r, w)
    PROVE  IsLaneStep
<1>1. PICK value \in Writes, flow \in Flows(r), hasFailed \in BOOLEAN :
        /\ CommitWrite(value, AfterOutcome(Written(TurnOf(r), value), w, SentOutcome(flow, hasFailed)))
        /\ SpendRun(value, flow)
  BY DEF Checked
<1> DEFINE s == Written(TurnOf(r), value)
           u == AfterOutcome(s, w, SentOutcome(flow, hasFailed))
<1>2. value \in Writable
  BY DEF Writes, Writable
<1>3. IsTurn(s) /\ s.id = r /\ s.run = runs[r]
  BY <1>2, ValueFacts, TurnOfFacts
<1>4. runs[r].lanes[w].at = "checking" /\ asker' = asker /\ plan' = plan /\ current' = current
  BY DEF Checked, InStage
<1>6. written' = written \union ({value} \ {Nothing})
  BY <1>1 DEF SpendRun
<1>7. SentOutcome(flow, hasFailed) \in OutcomeOf(s.id)
  BY <1>3, FlowTypes
<1>p. PromptStep(r, w, s)
  BY <1>3, <1>4 DEF PromptStep
<1>8. LaneEffect(s, u, w)
  BY <1>3, <1>4, <1>7 DEF LaneEffect, IsBusy
<1> QED BY <1>1, <1>2, <1>3, <1>4, <1>6, <1>8, <1>p, SamePrompt DEF IsLaneStep, LaneMoves

LEMMA SeqParts ==
    ASSUME NEW S, NEW z \in Seq(S), z # <<>>
    PROVE  Tail(z) \in Seq(S) /\ Head(z) \in S
OBVIOUS

(* The prompt of the run is answered, or it asks. *)
LEMMA TailPrompt ==
    ASSUME NEW s, IsTurn(s), s.run.turn # <<>>, NEW values \in {"unasked", "given", "declined"},
           NEW t, \/ t = [s EXCEPT !.run.turn = Tail(@), !.run.values = values]
                  \/ t = [s EXCEPT !.run.turn = Tail(@)] /\ values = s.run.values
    PROVE  Prompting(s, t) /\ PromptIs(t, Tail(s.run.turn), values, s.run.asks)
<1> DEFINE x == s.run
           turn == Tail(x.turn)
<1>x. x.turn \in Seq(Lanes(s.id)) /\ x.values \in {"unasked", "given", "declined"} /\ x.asks \in Nat
      /\ x \in RunRecord(s.id)
  BY PromptFields, TurnFields DEF PromptTypes
<1>t. turn \in Seq(Lanes(s.id))
  BY <1>x, SeqParts
<1>1. /\ t.id = s.id /\ t.session = s.session /\ t.sink = s.sink
      /\ t = [id |-> t.id, run |-> t.run, session |-> t.session, sink |-> t.sink]
      /\ \/ t.run = [x EXCEPT !.turn = turn, !.values = values]
         \/ t.run = [x EXCEPT !.turn = turn] /\ values = x.values
  BY DEF IsTurn
<1> HIDE DEF turn
<1>2. /\ [x EXCEPT !.turn = turn, !.values = values] =
            [x EXCEPT !.turn = turn, !.values = values, !.asks = x.asks]
      /\ [x EXCEPT !.turn = turn] = [x EXCEPT !.turn = turn, !.values = x.values, !.asks = x.asks]
  BY <1>x DEF RunRecord
<1>3. Reprompts(s, t, turn, values, x.asks)
  BY <1>1, <1>2 DEF Reprompts
<1>4. Prompting(s, t) /\ PromptIs(t, turn, values, x.asks)
  BY <1>x, <1>t, <1>3, PromptFacts
<1> QED BY <1>4 DEF turn

LEMMA AskPrompt ==
    ASSUME NEW s, IsTurn(s), NEW t, t = [s EXCEPT !.run.asks = @ + 1]
    PROVE  Prompting(s, t) /\ PromptIs(t, s.run.turn, s.run.values, s.run.asks + 1)
<1> DEFINE x == s.run
           asks == x.asks + 1
<1>x. x.turn \in Seq(Lanes(s.id)) /\ x.values \in {"unasked", "given", "declined"} /\ x.asks \in Nat
      /\ x \in RunRecord(s.id)
  BY PromptFields, TurnFields DEF PromptTypes
<1>t. asks \in Nat
  BY <1>x
<1>1. /\ t.id = s.id /\ t.session = s.session /\ t.sink = s.sink
      /\ t = [id |-> t.id, run |-> t.run, session |-> t.session, sink |-> t.sink]
      /\ t.run = [x EXCEPT !.asks = asks]
  BY DEF IsTurn
<1> HIDE DEF asks
<1>2. [x EXCEPT !.asks = asks] = [x EXCEPT !.turn = x.turn, !.values = x.values, !.asks = asks]
  BY <1>x DEF RunRecord
<1>3. Reprompts(s, t, x.turn, x.values, asks)
  BY <1>1, <1>2 DEF Reprompts
<1>4. Prompting(s, t) /\ PromptIs(t, x.turn, x.values, asks)
  BY <1>x, <1>t, <1>3, PromptFacts
<1> QED BY <1>4 DEF asks

LEMMA AnswerTurnMoves ==
    ASSUME RunnerTypes, NEW r \in RunIds, AnswerTurn(r)
    PROVE  IsLaneStep
<1> DEFINE s == TurnOf(r)
           w == Head(runs[r].turn)
           t == [s EXCEPT !.run.turn = Tail(@)]
<1>1. s = Written(s, Nothing) /\ s = Written(TurnOf(r), Nothing)
  BY DEF Written
<1>2. IsTurn(s) /\ s.id = r /\ s.run = runs[r]
  BY <1>1, ValueFacts, TurnOfFacts
<1>3. /\ runs[r].turn # <<>> /\ runs[r].lanes[w].at = "waiting"
      /\ plan' = plan /\ current' = current
  BY DEF AnswerTurn, InStage
<1>w. w \in Lanes(r) /\ runs[r].values \in {"unasked", "given", "declined"}
  BY <1>2, <1>3, PromptFields, SeqParts DEF PromptTypes
<1>4. /\ \/ runs[r].values = "declined" /\ Fails(r, w, t) /\ UNCHANGED asker
         \/ /\ runs[r].values = "given"
            /\ Commit(MoveTo(t, w, "renewing"))
            /\ UNCHANGED <<asker, runBudget, written>>
         \/ /\ runs[r].values = "unasked"
            /\ Commit(MoveTo([s EXCEPT !.run.asks = @ + 1], w, "asking"))
            /\ asker' = <<r, w>>
            /\ UNCHANGED <<runBudget, written>>
  BY DEF AnswerTurn
<1> HIDE DEF s, w
<1>5. Prompting(s, t) /\ PromptIs(t, Tail(s.run.turn), s.run.values, s.run.asks)
  BY <1>2, <1>3, <1>w, TailPrompt
<1> HIDE DEF t
<1>6. IsTurn(t) /\ t.id = r /\ IsBusy(t.run.lanes[w])
  BY <1>2, <1>3, <1>5 DEF Prompting, IsBusy
<1>7. CASE runs[r].values # "unasked"
  <2>1. asker' = asker => PromptStep(r, w, t)
    BY <1>2, <1>3, <1>5, <1>7 DEF PromptStep, PromptIs, w
  <2>2. ASSUME NEW u, CommitWrite(Nothing, u), LaneEffect(t, u, w), asker' = asker,
               written' = written \union ({Nothing} \ {Nothing})
        PROVE  IsLaneStep
    BY <1>1, <1>2, <1>3, <1>w, <1>5, <2>1, <2>2, ValueFacts DEF IsLaneStep, LaneMoves
  <2>3. CASE Fails(r, w, t) /\ UNCHANGED asker
    <3>1. PICK u : LaneEffect(t, u, w) /\ CommitWrite(Nothing, u)
                   /\ written' = written \union ({Nothing} \ {Nothing})
      BY <1>6, <1>w, <2>3, FailsEffect
    <3> QED BY <2>2, <2>3, <3>1
  <2>4. CASE Commit(MoveTo(t, w, "renewing")) /\ UNCHANGED <<asker, runBudget, written>>
    <3>1. LaneEffect(t, MoveTo(t, w, "renewing"), w)
      BY <1>6, MoveEffect
    <3>2. written' = written \union ({Nothing} \ {Nothing}) /\ asker' = asker
      BY <2>4
    <3> QED BY <2>2, <2>4, <3>1, <3>2 DEF Commit
  <2> QED BY <1>4, <1>7, <2>3, <2>4
<1>8. CASE runs[r].values = "unasked"
  <2> DEFINE a == [s EXCEPT !.run.asks = @ + 1]
             u == MoveTo(a, w, "asking")
  <2>1. Prompting(s, a) /\ PromptIs(a, s.run.turn, s.run.values, s.run.asks + 1)
    BY <1>2, AskPrompt
  <2>2. CommitWrite(Nothing, u) /\ asker' = <<r, w>> /\ written' = written \union ({Nothing} \ {Nothing})
    BY <1>4, <1>8 DEF Commit
  <2> HIDE DEF a
  <2>3. AskStep(r, w, a)
    BY <1>2, <1>3, <1>8, <2>1, <2>2 DEF AskStep, PromptIs, w
  <2> QED BY <1>1, <1>2, <1>3, <1>w, <2>1, <2>2, <2>3, ValueFacts DEF IsLaneStep, LaneMoves
<1> QED BY <1>7, <1>8

LEMMA AnswerVariablesMoves ==
    ASSUME RunnerTypes, AskInv, NEW isGiven \in BOOLEAN, AnswerVariables(isGiven)
    PROVE  IsLaneStep
<1>0. PICK r \in RunIds : \E w \in Lanes(r) : asker = <<r, w>> /\ runs[r].lanes[w].at = "asking"
  BY DEF AnswerVariables, AskInv
<1>1. PICK w \in Lanes(r) : asker = <<r, w>> /\ runs[r].lanes[w].at = "asking"
  BY <1>0
<1> DEFINE s == TurnOf(r)
           values == IF isGiven THEN "given" ELSE "declined"
           t == [s EXCEPT !.run.turn = Tail(@), !.run.values = values]
<1>2. s = Written(s, Nothing) /\ s = Written(TurnOf(r), Nothing)
  BY DEF Written
<1>3. IsTurn(s) /\ s.id = r /\ s.run = runs[r]
  BY <1>2, ValueFacts, TurnOfFacts
<1>4. /\ IF isGiven
         THEN Commit(MoveTo(t, w, "renewing")) /\ UNCHANGED <<runBudget, written>>
         ELSE Fails(r, w, t)
      /\ asker' = Nobody /\ plan' = plan /\ current' = current
  BY <1>1 DEF AnswerVariables
<1>5. s.run.turn # <<>>
  BY <1>1, <1>3 DEF AskInv
<1>v. values \in {"unasked", "given", "declined"} /\ values # "unasked"
  OBVIOUS
<1> HIDE DEF s, values
<1>6. Prompting(s, t) /\ PromptIs(t, Tail(s.run.turn), values, s.run.asks)
  BY <1>3, <1>5, <1>v, TailPrompt
<1> HIDE DEF t
<1>7. IsTurn(t) /\ t.id = r /\ IsBusy(t.run.lanes[w])
  BY <1>1, <1>3, <1>6 DEF Prompting, IsBusy
<1>8. PromptStep(r, w, t)
  BY <1>1, <1>3, <1>4, <1>5, <1>6, <1>v DEF PromptStep, PromptIs
<1>9. ASSUME NEW u, CommitWrite(Nothing, u), LaneEffect(t, u, w), written' = written \union ({Nothing} \ {Nothing})
      PROVE  IsLaneStep
  BY <1>2, <1>3, <1>4, <1>6, <1>8, <1>9, ValueFacts DEF IsLaneStep, LaneMoves
<1>10. CASE isGiven
  <2>1. LaneEffect(t, MoveTo(t, w, "renewing"), w)
    BY <1>7, MoveEffect
  <2>2. written' = written \union ({Nothing} \ {Nothing}) /\ CommitWrite(Nothing, MoveTo(t, w, "renewing"))
    BY <1>4, <1>10 DEF Commit
  <2> QED BY <1>9, <2>1, <2>2
<1>11. CASE ~isGiven
  <2>1. PICK u : LaneEffect(t, u, w) /\ CommitWrite(Nothing, u)
                 /\ written' = written \union ({Nothing} \ {Nothing})
    BY <1>4, <1>7, <1>11, FailsEffect
  <2> QED BY <1>9, <2>1
<1> QED BY <1>10, <1>11

-----------------------------------------------------------------------------
(* The value of the session.  Every step of a run keeps its row, gives one *)
(* or takes it back.                                                       *)

StandsAfter(value) ==
    IF value = Nothing THEN standing ELSE IF IsRowText(value.text) THEN Nothing ELSE value

RecalledWith(r, y) ==
    {q \in RunIds \ {r} : /\ y.given = Nothing /\ runs[r].given # Nothing /\ runs[q].given # Nothing
                          /\ runs[q].given.text = runs[r].given.text}

RowStep(r, value) ==
    LET now == IF value = Nothing THEN session ELSE value
        givesRow == runs'[r].given \notin {Nothing, runs[r].given}
    IN  /\ r \in RunIds /\ value \in Writable /\ plan' = plan
        /\ \A q \in RunIds : q # r => runs'[q] = runs[q]
        /\ HasStarted(r)'
        /\ \/ HasStarted(r) /\ runs'[r].before = runs[r].before
           \/ ~HasStarted(r) /\ runs'[r].before = session /\ value = Nothing
        /\ \/ runs'[r].given = runs[r].given /\ session' = now
           \/ /\ \E i \in Nat : runs'[r].given = RowOf(r, i)
              /\ runs'[r].given # runs[r].given /\ session' = runs'[r].given
           \/ runs'[r].given = Nothing /\ session' = WithdrawnValues(runs[r].before, runs[r].given, now)
        /\ standing' = IF givesRow THEN Nothing ELSE StandsAfter(value)
        /\ disturbed' = ((disturbed \union {q \in RunIds : value # Nothing /\ runs[q].given # Nothing})
                            \ (IF givesRow THEN {r} ELSE {}))
                            \union {q \in RunIds \ {r} : givesRow /\ runs[q].given # Nothing}
                            \union RecalledWith(r, runs'[r])
        /\ written' = written \union ({value} \ {Nothing})

LEMMA GivenFacts ==
    ASSUME RunnerTypes, LaneInv, NEW r \in RunIds
    PROVE  /\ runs[r].given = Nothing \/ \E i \in Nat : runs[r].given = RowOf(r, i)
           /\ ~HasStarted(r) => runs[r].given = Nothing
<1>1. runs[r].iteration \in Nat
  BY DEF RunnerTypes, RunRecord
<1>2. runs[r].given = IF IsGoing(r) /\ IsIterating(r) THEN RowOf(r, runs[r].iteration) ELSE Nothing
  BY DEF LaneInv
<1>3. ~HasStarted(r) => ~IsGoing(r)
  BY DEF IsGoing
<1> QED BY <1>1, <1>2, <1>3

LEMMA VariableFacts ==
    ASSUME RunnerTypes, ValueInv
    PROVE  /\ session # Nothing
           /\ \A v \in written : v # Nothing /\ v.of # "row"
           /\ \A r \in RunIds : HasStarted(r) => runs[r].before # Nothing
<1>1. \A v \in written : v # Nothing /\ v.of # "row"
  BY ValueFacts DEF RunnerTypes
<1>2. Nothing.of # "row"
  BY ValueFacts
<1> QED BY <1>1, <1>2 DEF ValueInv

LEMMA RowStepKeepsValues ==
    ASSUME RunnerTypes, LaneInv, ValueInv, NEW r, NEW value, RowStep(r, value)
    PROVE  ValueInv'
<1> DEFINE now == IF value = Nothing THEN session ELSE value
           g == runs[r].given
           h == runs'[r].given
<1>0. /\ r \in RunIds /\ value \in Writable /\ RunIds' = RunIds
      /\ written' = written \union ({value} \ {Nothing})
      /\ \A q \in RunIds : q # r => runs'[q] = runs[q]
      /\ HasStarted(r)'
  BY DEF RowStep, RunIds
<1>b. \/ HasStarted(r) /\ runs'[r].before = runs[r].before
      \/ ~HasStarted(r) /\ runs'[r].before = session /\ value = Nothing
  BY DEF RowStep
<1>c. \/ h = g /\ session' = now
      \/ (\E i \in Nat : h = RowOf(r, i)) /\ h # g /\ session' = h
      \/ h = Nothing /\ session' = WithdrawnValues(runs[r].before, g, now)
  BY DEF RowStep
<1>s. standing' = IF h \notin {Nothing, g} THEN Nothing ELSE StandsAfter(value)
  BY DEF RowStep
<1>1. /\ g = Nothing \/ \E i \in Nat : g = RowOf(r, i)
      /\ ~HasStarted(r) => g = Nothing
  BY <1>0, GivenFacts
<1>2. /\ session # Nothing /\ \A v \in written : v # Nothing /\ v.of # "row"
      /\ \A q \in RunIds : HasStarted(q) => runs[q].before # Nothing
  BY VariableFacts
<1>3. now # Nothing /\ (value # Nothing => now \in written')
  BY <1>0, <1>1, <1>2, ValueFacts
<1>w. written \subseteq written'
  BY <1>0
<1>4. \A q \in RunIds : q # r => (HasStarted(q)' <=> HasStarted(q))
  BY <1>0 DEF HasStarted
<1>5. HaveCrossed => HaveCrossed'
  BY <1>0, <1>4, <1>b DEF HaveCrossed
<1>6. now \in written' \/ now.of = "row"
  BY <1>3, <1>w DEF ValueInv
<1>7. session' \in written' \/ session'.of = "row"
  <2>1. CASE session' = now
    BY <2>1, <1>6
  <2>2. CASE \E i \in Nat : session' = RowOf(r, i)
    BY <2>2, ValueFacts
  <2>3. CASE session' = WithdrawnValues(runs[r].before, g, now) /\ session' # now
    <3>1. session' = runs[r].before /\ g # Nothing
      BY <2>3 DEF WithdrawnValues
    <3>2. HasStarted(r)
      BY <3>1, <1>1
    <3> QED BY <3>1, <3>2, <1>0, <1>w DEF ValueInv
  <2> QED BY <1>c, <2>1, <2>2, <2>3
<1>8. ASSUME NEW q \in RunIds, HasStarted(q)'
      PROVE  runs'[q].before \in written' \/ runs'[q].before.of = "row"
  <2>1. CASE q # r
    BY <2>1, <1>8, <1>0, <1>4, <1>w DEF ValueInv
  <2>2. CASE q = r
    BY <2>2, <1>b, <1>w, <1>0 DEF ValueInv
  <2> QED BY <2>1, <2>2
<1>9. HaveCrossed' \/ session' \in written' \/ IsInPlace(session)'
  <2>0. SUFFICES ASSUME ~HaveCrossed' PROVE session' \in written' \/ IsInPlace(session)'
    OBVIOUS
  <2>1. ~HaveCrossed
    BY <2>0, <1>5
  <2>p. ASSUME NEW q \in RunIds, runs'[q].given # Nothing, session' = runs'[q].given PROVE IsInPlace(session)'
    BY <2>p, <1>0 DEF IsInPlace
  <2>2. now \in written' \/ (value = Nothing /\ \E q \in RunIds : runs[q].given # Nothing /\ session = runs[q].given)
    BY <2>1, <1>3, <1>w DEF ValueInv, IsInPlace
  <2>3. CASE h = g /\ session' = now
    <3>1. \A q \in RunIds : runs'[q].given = runs[q].given
      BY <2>3, <1>0
    <3> QED BY <2>2, <2>3, <2>p, <3>1
  <2>4. CASE (\E i \in Nat : h = RowOf(r, i)) /\ h # g /\ session' = h
    <3>1. h # Nothing
      BY <2>4, ValueFacts
    <3> QED BY <2>4, <2>p, <3>1, <1>0
  <2>5. CASE h = Nothing /\ session' = WithdrawnValues(runs[r].before, g, now)
    <3>1. CASE g # Nothing /\ now.text = g.text
      <4>1. session' = runs[r].before
        BY <2>5, <3>1 DEF WithdrawnValues
      <4>2. HasStarted(r)
        BY <3>1, <1>1
      <4>3. runs[r].before.of # "row"
        BY <4>2, <2>1, <1>0 DEF HaveCrossed
      <4> QED BY <4>1, <4>2, <4>3, <1>0, <1>w DEF ValueInv
    <3>2. CASE ~(g # Nothing /\ now.text = g.text)
      <4>1. session' = now
        BY <2>5, <3>2 DEF WithdrawnValues
      <4>2. \A q \in RunIds : runs[q].given = now => q # r /\ runs'[q].given = runs[q].given
        BY <3>2, <1>0, <1>3
      <4> QED BY <2>2, <2>p, <4>1, <4>2
    <3> QED BY <3>1, <3>2
  <2> QED BY <1>c, <2>3, <2>4, <2>5
<1>10. standing' # Nothing =>
         session' = standing' /\ standing' \in written' /\ ~IsRowText(standing.text)'
  <2>0. SUFFICES ASSUME standing' # Nothing
                 PROVE  session' = standing' /\ standing' \in written' /\ ~IsRowText(standing.text)'
    OBVIOUS
  <2>1. h \in {Nothing, g} /\ standing' = StandsAfter(value)
    BY <2>0, <1>s
  <2>2. standing' = now /\ now \in written' /\ ~IsRowText(now.text)
    <3>1. CASE value # Nothing
      BY <3>1, <2>0, <2>1, <1>3 DEF StandsAfter
    <3>2. CASE value = Nothing
      BY <3>2, <2>0, <2>1, <1>w DEF ValueInv, StandsAfter
    <3> QED BY <3>1, <3>2
  <2> HIDE DEF now
  <2>3. session' = now
    <3>1. ~(g # Nothing /\ now.text = g.text)
      BY <2>2, <1>0 DEF IsRowText
    <3>2. h \notin {Nothing, g} \/ session' = now
      BY <1>c, <3>1, ValueFacts DEF WithdrawnValues
    <3> QED BY <3>2, <2>1
  <2>4. ~IsRowText(standing.text)'
    <3>1. ASSUME NEW q \in RunIds, runs'[q].given # Nothing PROVE runs'[q].given.text # now.text
      <4>1. runs'[q].given = runs[q].given
        BY <3>1, <2>1, <1>0
      <4> QED BY <4>1, <3>1, <2>2 DEF IsRowText
    <3> QED BY <3>1, <2>2, <1>0 DEF IsRowText
  <2> QED BY <2>2, <2>3, <2>4
<1>11. \A q \in RunIds' : HasStarted(q)' => runs'[q].before \in written' \/ runs'[q].before.of = "row"
  BY <1>0, <1>8
<1> QED BY <1>7, <1>9, <1>10, <1>11 DEF ValueInv

LEMMA RowStepKeepsPlace ==
    ASSUME RunnerTypes, LaneInv, PlaceInv, NEW r, NEW value, RowStep(r, value)
    PROVE  PlaceInv'
<1> DEFINE now == IF value = Nothing THEN session ELSE value
           g == runs[r].given
           h == runs'[r].given
           givesRow == h \notin {Nothing, g}
<1>0. /\ r \in RunIds /\ value \in Writable /\ RunIds' = RunIds
      /\ \A q \in RunIds : q # r => runs'[q] = runs[q]
  BY DEF RowStep, RunIds
<1>c. \/ h = g /\ session' = now
      \/ (\E i \in Nat : h = RowOf(r, i)) /\ h # g /\ session' = h
      \/ h = Nothing /\ session' = WithdrawnValues(runs[r].before, g, now)
  BY DEF RowStep
<1>d. disturbed' = ((disturbed \union {q \in RunIds : value # Nothing /\ runs[q].given # Nothing})
                            \ (IF givesRow THEN {r} ELSE {}))
                            \union {q \in RunIds \ {r} : givesRow /\ runs[q].given # Nothing}
                            \union RecalledWith(r, runs'[r])
  BY DEF RowStep
<1>1. ASSUME NEW q \in RunIds, runs'[q].given # Nothing, q \notin disturbed'
      PROVE  session' = runs'[q].given
  <2>1. CASE q = r
    <3>1. CASE h = g
      <4>1. value = Nothing /\ q \notin disturbed
        BY <1>0, <1>1, <1>d, <2>1, <3>1
      <4>2. session = g
        BY <4>1, <1>0, <1>1, <2>1, <3>1 DEF PlaceInv
      <4> QED BY <4>1, <4>2, <1>1, <1>c, <2>1, <3>1
    <3>2. CASE h # g
      BY <1>1, <1>c, <2>1, <3>2
    <3> QED BY <3>1, <3>2
  <2>2. CASE q # r
    <3>1. runs'[q].given = runs[q].given
      BY <1>0, <2>2
    <3>2. ~givesRow /\ value = Nothing /\ q \notin disturbed
      BY <1>0, <1>1, <1>d, <2>2, <3>1
    <3>3. session = runs[q].given
      BY <1>1, <3>1, <3>2 DEF PlaceInv
    <3>4. ~(h = Nothing /\ g # Nothing /\ session.text = g.text)
      BY <1>0, <1>1, <1>d, <2>2, <3>1, <3>3 DEF RecalledWith
    <3>5. session' = session
      <4>1. CASE h = Nothing /\ session' = WithdrawnValues(runs[r].before, g, session)
        BY <3>4, <4>1 DEF WithdrawnValues
      <4> QED BY <4>1, <1>c, <3>2, ValueFacts
    <3> QED BY <3>1, <3>3, <3>5
  <2> QED BY <2>1, <2>2
<1> QED BY <1>0, <1>1 DEF PlaceInv

-----------------------------------------------------------------------------
(* The next state *)

LEMMA SamePlan ==
    ASSUME plan' = plan
    PROVE  /\ RunIds' = RunIds /\ (PlanType <=> PlanType')
           /\ \A q : /\ Lanes(q)' = Lanes(q) /\ RunRecord(q)' = RunRecord(q)
                     /\ IsIterating(q)' <=> IsIterating(q)
                     /\ IterationCount(q)' = IterationCount(q)
           /\ \A q, before : NewRun(q, before)' = NewRun(q, before)
           /\ \A q, i : RowOf(q, i)' = RowOf(q, i)
<1>6. \A q, i : RowOf(q, i)' = RowOf(q, i)
  BY DEF RowOf
<1>1. RunIds' = RunIds /\ (PlanType <=> PlanType')
  BY DEF RunIds, PlanType
<1>2. \A q : Lanes(q)' = Lanes(q)
  BY DEF Lanes, LaneCount
<1>3. \A q : (IsIterating(q)' <=> IsIterating(q)) /\ IterationCount(q)' = IterationCount(q)
  BY DEF IsIterating, IterationCount
<1>4. \A q : RunRecord(q)' = RunRecord(q)
  BY <1>2 DEF RunRecord
<1>5. \A q, before : NewRun(q, before)' = NewRun(q, before)
  BY <1>2 DEF NewRun
<1> QED BY <1>1, <1>2, <1>3, <1>4, <1>5, <1>6

IsCommitted(r, value, u) ==
    /\ runs'[r] = u.run /\ \A q \in RunIds : q # r => runs'[q] = runs[q]
    /\ session' = u.session /\ sink'[plan[r].runner] = u.sink
    /\ \A x \in Runners : x # plan[r].runner => sink'[x] = sink[x]

LEMMA CommitFacts ==
    ASSUME RunnerTypes, NEW r \in RunIds, NEW u, IsTurn(u), u.id = r, plan' = plan,
           NEW value \in Writable, CommitWrite(value, u),
           current' \in [Runners -> RunIds \union {0}],
           written' = written \union ({value} \ {Nothing})
    PROVE  IsCommitted(r, value, u) /\ RunnerTypes'
<1>1. u.run \in RunRecord(r) /\ u.session \in Values /\ u.sink \in Sink
  BY TurnFields
<1>2. /\ runs' = [runs EXCEPT ![r] = u.run] /\ session' = u.session
      /\ sink' = [sink EXCEPT ![plan[r].runner] = u.sink]
      /\ standing' \in {Nothing, value, standing}
  BY DEF CommitWrite
<1>3. runs = [q \in RunIds |-> runs[q]] /\ plan[r].runner \in Runners /\ sink \in [Runners -> Sink]
  BY PlanFacts DEF RunnerTypes
<1>4. runs' = [q \in RunIds |-> IF q = r THEN u.run ELSE runs[q]]
  BY <1>2, <1>3
<1>5. /\ runs'[r] = u.run /\ \A q \in RunIds : q # r => runs'[q] = runs[q]
      /\ runs' = [q \in RunIds |-> runs'[q]]
  BY <1>4
<1>6. IsCommitted(r, value, u)
  BY <1>2, <1>3, <1>5 DEF IsCommitted
<1>7. disturbed' \subseteq RunIds
  BY DEF CommitWrite, Displaced, Recalled, RunnerTypes
<1>8. standing' \in Values /\ written' \subseteq Owned
  BY <1>2, ValueFacts DEF RunnerTypes, Owned, Writable
<1>9. sink' \in [Runners -> Sink]
  BY <1>1, <1>2, <1>3
<1>10. \A q \in RunIds : runs'[q] \in RunRecord(q)
  BY <1>1, <1>5 DEF RunnerTypes
<1>11. RunIds' = RunIds /\ PlanType' /\ \A q : RunRecord(q)' = RunRecord(q)
  BY SamePlan DEF RunnerTypes
<1>12. RunnerTypes'
  BY <1>1, <1>2, <1>5, <1>7, <1>8, <1>9, <1>10, <1>11 DEF RunnerTypes
<1> QED BY <1>6, <1>12

LEMMA IdleRuns ==
    ASSUME RunnerTypes, LaneInv, NEW r \in RunIds, NEW w \in Lanes(r), runs[r].lanes[w].at # "done"
    PROVE  HasStarted(r) /\ ~runs[r].isOver /\ runs[r].iteration \in Nat \ {0}
<1>1. runs[r].iteration \in Nat
  BY DEF RunnerTypes, RunRecord
<1>2. ~runs[r].isOver
  BY DEF LaneInv
<1>3. ASSUME ~HasStarted(r) PROVE FALSE
  <2>1. runs[r] = NewRun(r, Forgotten)
    BY <1>3 DEF LaneInv
  <2>2. runs[r].lanes = [l \in Lanes(r) |-> IdleLane]
    BY <2>1 DEF NewRun
  <2> QED BY <2>2 DEF IdleLane
<1> QED BY <1>1, <1>2, <1>3 DEF HasStarted

(* What is known of a move of a lane, from the run to the next state. *)
LEMMA LaneMoveFacts ==
    ASSUME RunnerAssumption, RunnerTypes, LaneInv, NEW r, NEW w, NEW value, NEW s, NEW t, NEW u,
           LaneMoves(r, w, value, s, t, u)
    PROVE  /\ r \in RunIds /\ w \in Lanes(r) /\ value \in Writable
           /\ IsTurn(t) /\ t.id = r /\ t.sink = sink[plan[r].runner]
           /\ t.session = IF value = Nothing THEN session ELSE value
           /\ t.run.isStopped = runs[r].isStopped /\ t.run.isHalted = runs[r].isHalted
           /\ t.run.isOver = runs[r].isOver /\ t.run.before = runs[r].before /\ t.run.given = runs[r].given
           /\ t.run.iteration = runs[r].iteration /\ t.run.lanes = runs[r].lanes
           /\ Passes(t, u, w) /\ IsCommitted(r, value, u) /\ RunnerTypes'
           /\ HasStarted(r) /\ ~runs[r].isOver /\ runs[r].iteration \in Nat \ {0} /\ runs[r].lanes[w].at # "done"
<1>0. PlanType /\ MaxFlowSteps \in Nat
  BY DEF RunnerTypes, RunnerAssumption
<1>1. /\ r \in RunIds /\ w \in Lanes(r) /\ value \in Writable
      /\ s = Written(TurnOf(r), value) /\ Prompting(s, t)
      /\ LaneEffect(t, u, w) \/ (u = MoveTo(t, w, "asking") /\ AskStep(r, w, t))
      /\ CommitWrite(value, u) /\ written' = written \union ({value} \ {Nothing})
      /\ plan' = plan /\ current' = current
  BY DEF LaneMoves
<1>2. /\ IsTurn(s) /\ s.id = r /\ s.run = runs[r] /\ s.sink = sink[plan[r].runner]
      /\ s.session = IF value = Nothing THEN session ELSE value
  BY <1>1, TurnOfFacts
<1>3. /\ IsTurn(t) /\ t.id = r /\ t.sink = sink[plan[r].runner]
      /\ t.session = IF value = Nothing THEN session ELSE value
      /\ t.run.isStopped = runs[r].isStopped /\ t.run.isHalted = runs[r].isHalted
      /\ t.run.isOver = runs[r].isOver /\ t.run.before = runs[r].before /\ t.run.given = runs[r].given
      /\ t.run.iteration = runs[r].iteration /\ t.run.lanes = runs[r].lanes
  BY <1>1, <1>2 DEF Prompting
<1>4. Passes(t, u, w)
  <2>1. CASE LaneEffect(t, u, w)
    BY <2>1, <1>0, <1>1, <1>3, EffectPasses
  <2>2. CASE u = MoveTo(t, w, "asking")
    <3>1. "asking" \in Stages
      BY DEF Stages
    <3> QED BY <2>2, <3>1, <1>1, <1>3, NearItself, NearMoveTo, NearPasses
  <2> QED BY <1>1, <2>1, <2>2
<1>5. IsTurn(u) /\ u.id = r
  BY <1>3, <1>4 DEF Passes
<1>6. current' \in [Runners -> RunIds \union {0}]
  BY <1>1 DEF RunnerTypes
<1>7. IsCommitted(r, value, u) /\ RunnerTypes'
  BY <1>1, <1>5, <1>6, CommitFacts
<1>8. runs[r].lanes[w].at # "done"
  BY <1>1, <1>3 DEF LaneEffect, IsBusy, AskStep
<1>9. HasStarted(r) /\ ~runs[r].isOver /\ runs[r].iteration \in Nat \ {0}
  BY <1>1, <1>8, IdleRuns
<1> QED BY <1>1, <1>3, <1>4, <1>7, <1>8, <1>9

LEMMA LaneMoveKeepsRows ==
    ASSUME RunnerAssumption, RunnerTypes, LaneInv, NEW r, NEW w, NEW value, NEW s, NEW t, NEW u,
           LaneMoves(r, w, value, s, t, u)
    PROVE  LaneInv' /\ RowStep(r, value)
<1> DEFINE x == runs[r]
           y == runs'[r]
           now == IF value = Nothing THEN session ELSE value
<1>0. /\ r \in RunIds /\ w \in Lanes(r) /\ value \in Writable
      /\ t.id = r /\ t.session = now
      /\ t.run.isStopped = x.isStopped /\ t.run.isOver = x.isOver /\ t.run.before = x.before
      /\ t.run.given = x.given /\ t.run.iteration = x.iteration /\ t.run.lanes = x.lanes
      /\ Passes(t, u, w) /\ IsCommitted(r, value, u)
      /\ HasStarted(r) /\ ~x.isOver /\ x.iteration \in Nat \ {0} /\ x.lanes[w].at # "done"
  BY LaneMoveFacts
<1>1. /\ y = u.run /\ session' = u.session /\ \A q \in RunIds : q # r => runs'[q] = runs[q]
  BY <1>0 DEF IsCommitted
<1>2. /\ plan' = plan /\ u.id = r /\ CommitWrite(value, u) /\ written' = written \union ({value} \ {Nothing})
      /\ y.isStopped = x.isStopped /\ y.before = x.before
  BY <1>0, <1>1 DEF LaneMoves, Passes
<1>3. /\ RunIds' = RunIds /\ \A q : Lanes(q)' = Lanes(q)
      /\ \A q : (IsIterating(q)' <=> IsIterating(q)) /\ NewRun(q, Forgotten)' = NewRun(q, Forgotten)
      /\ \A q, i : RowOf(q, i)' = RowOf(q, i)
  BY <1>2, SamePlan
<1>g. x.given = IF ~x.isStopped /\ IsIterating(r) THEN RowOf(r, x.iteration) ELSE Nothing
  BY <1>0 DEF LaneInv, IsGoing
<1>4. /\ HasStarted(r)' /\ y.iteration \in Nat \ {0}
      /\ y.isOver => \A l \in Lanes(r) : y.lanes[l].at = "done"
      /\ y.given = IF ~y.isOver /\ ~y.isStopped /\ IsIterating(r) THEN RowOf(r, y.iteration) ELSE Nothing
      /\ \/ y.given = x.given /\ session' = now
         \/ (\E i \in Nat : y.given = RowOf(r, i)) /\ y.given # x.given /\ session' = y.given
         \/ y.given = Nothing /\ session' = WithdrawnValues(x.before, x.given, now)
  <2>1. CASE Remains(t, u)
    BY <2>1, <1>0, <1>1, <1>2, <1>g DEF Remains, HasStarted
  <2>2. CASE CarriesOn(t, u)
    <3>1. y.iteration = x.iteration + 1 /\ y.iteration \in Nat \ {0} /\ y.iteration # x.iteration
          /\ y.isOver = x.isOver /\ ~x.isStopped
      BY <2>2, <1>0, <1>1 DEF CarriesOn
    <3>2. RowOf(r, y.iteration) # RowOf(r, x.iteration)
      BY <3>1, ValueFacts
    <3>3. /\ y.given = IF IsIterating(r) THEN RowOf(r, y.iteration) ELSE x.given
          /\ session' = IF IsIterating(r) THEN RowOf(r, y.iteration) ELSE now
      BY <2>2, <1>0, <1>1 DEF CarriesOn
    <3> QED BY <3>1, <3>2, <3>3, <1>0, <1>2, <1>g DEF HasStarted
  <2>3. CASE IsFinished(t, u)
    <3>1. y.iteration = x.iteration /\ y.isOver = TRUE /\ \A l \in Lanes(r) : y.lanes[l].at = "done"
      BY <2>3, <1>0, <1>1 DEF IsFinished
    <3>3. /\ y.given = IF IsIterating(r) THEN Nothing ELSE x.given
          /\ session' = IF IsIterating(r) THEN WithdrawnValues(x.before, x.given, now) ELSE now
      BY <2>3, <1>0, <1>1 DEF IsFinished
    <3> QED BY <3>1, <3>3, <1>0, <1>2, <1>g DEF HasStarted
  <2> QED BY <2>1, <2>2, <2>3, <1>0 DEF Passes
<1>5. IsGoing(r)' <=> ~y.isOver /\ ~y.isStopped
  BY <1>4 DEF IsGoing
<1>6. LaneInv'
  <2>1. ASSUME NEW q \in RunIds
        PROVE  /\ ~HasStarted(q)' => runs'[q] = NewRun(q, Forgotten)
               /\ runs'[q].isOver => \A l \in Lanes(q) : runs'[q].lanes[l].at = "done"
               /\ runs'[q].given = IF IsGoing(q)' /\ IsIterating(q) THEN RowOf(q, runs'[q].iteration) ELSE Nothing
    <3>1. CASE q = r
      BY <3>1, <1>4, <1>5
    <3>2. CASE q # r
      <4>1. (HasStarted(q)' <=> HasStarted(q)) /\ (IsGoing(q)' <=> IsGoing(q)) /\ runs'[q] = runs[q]
        BY <3>2, <1>1 DEF HasStarted, IsGoing
      <4> QED BY <4>1 DEF LaneInv
    <3> QED BY <3>1, <3>2
  <2> QED BY <2>1, <1>3 DEF LaneInv
<1>7. RowStep(r, value)
  <2>1. /\ GivesRow(u) <=> y.given \notin {Nothing, x.given}
        /\ standing' = IF GivesRow(u) THEN Nothing ELSE StandsAfter(value)
    BY <1>1, <1>2 DEF GivesRow, CommitWrite, StandsAfter
  <2>2. disturbed' = ((disturbed \union {q \in RunIds : value # Nothing /\ runs[q].given # Nothing})
                            \ (IF GivesRow(u) THEN {r} ELSE {}))
                            \union {q \in RunIds \ {r} : GivesRow(u) /\ runs[q].given # Nothing}
                            \union RecalledWith(r, y)
    BY <1>1, <1>2 DEF CommitWrite, Displaced, Recalled, RecalledWith
  <2> QED BY <1>0, <1>1, <1>2, <1>4, <2>1, <2>2 DEF RowStep
<1> QED BY <1>6, <1>7

(* No lane asks that did not ask before. *)
AsksNoMore(t, u, w) ==
    \A l \in Lanes(t.id) : u.run.lanes[l].at = "asking" => l # w /\ t.run.lanes[l].at = "asking"

LEMMA AfterLanesAsks ==
    ASSUME PlanType, NEW t, NEW v, IsTurn(v), v.id = t.id, NEW w, AsksNoMore(t, v, w), NEW u, u = AfterLanes(v)
    PROVE  AsksNoMore(t, u, w)
<1>1. CASE u = v
  BY <1>1
<1>2. ASSUME NEW z, AllLanesAreDone(v), Wrapped(v, z), Advances(z, u) \/ EndsTask(z, u)
      PROVE  AsksNoMore(t, u, w)
  <2>1. z.id = t.id /\ z.run = v.run
    BY <1>2 DEF Wrapped
  <2>2. CASE Advances(z, u)
    <3>1. \A l \in Lanes(t.id) : u.run.lanes[l] = [at |-> "preparing", request |-> l]
      BY <2>1, <2>2 DEF Advances
    <3>2. ASSUME NEW l \in Lanes(t.id) PROVE u.run.lanes[l].at = "preparing"
      <4>1. u.run.lanes[l] = [at |-> "preparing", request |-> l]
        BY <3>1
      <4> QED BY <4>1
    <3> QED BY <3>2 DEF AsksNoMore
  <2>3. CASE EndsTask(z, u)
    BY <1>2, <2>1, <2>3 DEF EndsTask, AsksNoMore, AllLanesAreDone
  <2> QED BY <1>2, <2>2, <2>3
<1> QED BY <1>1, <1>2, AfterLanesFacts

LEMMA TakeNextAsks ==
    ASSUME NEW t, NEW v, IsTurn(v), v.id = t.id, v.run.lanes = t.run.lanes, NEW w \in Lanes(v.id), NEW u, u = TakeNext(v, w)
    PROVE  IsTurn(u) /\ u.id = t.id /\ AsksNoMore(t, u, w)
<1>1. Takes(v, u, w)
  BY TakeNextFacts
<1>2. u.run.lanes[w].at # "asking"
  BY <1>1 DEF Takes, IdleLane
<1> QED BY <1>1, <1>2 DEF Takes, AsksNoMore

LEMMA MoveToAsks ==
    ASSUME NEW t, NEW v, IsTurn(v), v.id = t.id, v.run.lanes = t.run.lanes, NEW w \in Lanes(v.id),
           NEW stage \in Stages \ {"asking"}, NEW u, u = MoveTo(v, w, stage)
    PROVE  AsksNoMore(t, u, w)
<1>1. Moves(v, u, w, stage)
  BY MoveToFacts
<1>2. u.run.lanes[w].at # "asking"
  BY <1>1 DEF Moves
<1> QED BY <1>1, <1>2 DEF Moves, AsksNoMore

LEMMA EffectAsks ==
    ASSUME PlanType, MaxFlowSteps \in Nat, NEW t, IsTurn(t), NEW w \in Lanes(t.id), NEW u, LaneEffect(t, u, w)
    PROVE  AsksNoMore(t, u, w)
<1>1. ASSUME NEW outcome \in OutcomeOf(t.id), u = AfterOutcome(t, w, outcome) PROVE AsksNoMore(t, u, w)
  <2>1. CASE t.run.isStopped /\ u = AfterLanes([t EXCEPT !.run.lanes[w] = IdleLane])
    <3>1. TakeNext(t, w) = [t EXCEPT !.run.lanes[w] = IdleLane]
      BY <2>1 DEF TakeNext
    <3>2. IsTurn(TakeNext(t, w)) /\ TakeNext(t, w).id = t.id /\ AsksNoMore(t, TakeNext(t, w), w)
      BY TakeNextAsks
    <3>3. u = AfterLanes(TakeNext(t, w))
      BY <2>1, <3>1
    <3> QED BY <3>2, <3>3, AfterLanesAsks
  <2>2. ASSUME NEW v, HasOutcome(t, v, w),
               u = MoveTo(v, w, "pausing") \/ u = AfterLanes(TakeNext(v, w))
        PROVE  AsksNoMore(t, u, w)
    <3>1. IsTurn(v) /\ v.id = t.id /\ v.run.lanes = t.run.lanes /\ w \in Lanes(v.id)
      BY <2>2 DEF HasOutcome
    <3>2. CASE u = MoveTo(v, w, "pausing")
      <4>1. "pausing" \in Stages \ {"asking"}
        BY DEF Stages
      <4> QED BY <3>1, <3>2, <4>1, MoveToAsks
    <3>3. CASE u = AfterLanes(TakeNext(v, w))
      BY <3>1, <3>3, TakeNextAsks, AfterLanesAsks
    <3> QED BY <2>2, <3>2, <3>3
  <2> QED BY <1>1, <2>1, <2>2, AfterOutcomeFacts
<1>2. ASSUME NEW stage \in Stages \ {"done", "pausing", "asking"}, u = MoveTo(t, w, stage) PROVE AsksNoMore(t, u, w)
  BY <1>2, MoveToAsks
<1>3. ASSUME u = AfterLanes(TakeNext(t, w)) PROVE AsksNoMore(t, u, w)
  BY <1>3, TakeNextAsks, AfterLanesAsks
<1> QED BY <1>1, <1>2, <1>3 DEF LaneEffect

LEMMA LaneMoveKeepsAsks ==
    ASSUME RunnerAssumption, RunnerTypes, LaneInv, AskInv, NEW r, NEW w, NEW value, NEW s, NEW t, NEW u,
           LaneMoves(r, w, value, s, t, u)
    PROVE  AskInv'
<1> DEFINE x == runs[r]
           y == runs'[r]
<1>0. /\ r \in RunIds /\ w \in Lanes(r) /\ IsTurn(t) /\ t.id = r /\ t.run.lanes = x.lanes
      /\ Passes(t, u, w) /\ IsCommitted(r, value, u)
  BY LaneMoveFacts
<1>1. /\ y = u.run /\ \A q \in RunIds : q # r => runs'[q] = runs[q]
  BY <1>0 DEF IsCommitted
<1>2. /\ y.values = t.run.values /\ y.turn = t.run.turn /\ y.asks = t.run.asks
      /\ \A l \in Lanes(r) : l # w /\ x.lanes[l].at # "done" => y.lanes[l] = x.lanes[l]
  BY <1>0, <1>1 DEF Passes
<1>3. plan' = plan /\ RunIds' = RunIds /\ \A q : Lanes(q)' = Lanes(q)
  BY SamePlan DEF LaneMoves
<1>x. x.turn \in Seq(Lanes(r)) /\ x.asks \in Nat
  BY <1>0 DEF RunnerTypes, RunRecord
<1>4. /\ \A l \in Lanes(r) : x.lanes[l].at = "asking" => x.turn # <<>> /\ l = Head(x.turn)
      /\ \/ x.asks = 0
         \/ /\ x.asks = 1
            /\ \/ x.values # "unasked"
               \/ x.turn # <<>> /\ x.lanes[Head(x.turn)].at = "asking"
  BY <1>0 DEF AskInv
<1>h. x.turn # <<>> => Head(x.turn) \in Lanes(r)
  BY <1>x, SeqParts
<1>5. /\ asker' # Nobody =>
           \E q \in RunIds : \E l \in Lanes(q) : asker' = <<q, l>> /\ runs'[q].lanes[l].at = "asking"
      /\ \A l \in Lanes(r) : y.lanes[l].at = "asking" => y.turn # <<>> /\ l = Head(y.turn)
      /\ \/ y.asks = 0
         \/ /\ y.asks = 1
            /\ \/ y.values # "unasked"
               \/ y.turn # <<>> /\ y.lanes[Head(y.turn)].at = "asking"
  <2>1. CASE LaneEffect(t, u, w) /\ PromptStep(r, w, t)
    <3>1. \A l \in Lanes(r) : y.lanes[l].at = "asking" => l # w /\ x.lanes[l].at = "asking"
      <4>1. PlanType /\ MaxFlowSteps \in Nat /\ w \in Lanes(t.id)
        BY <1>0 DEF RunnerTypes, RunnerAssumption
      <4>2. AsksNoMore(t, u, w)
        BY <2>1, <4>1, <1>0, EffectAsks
      <4> QED BY <4>2, <1>0, <1>1 DEF AsksNoMore
    <3>2. CASE /\ t.run.values = x.values /\ t.run.asks = x.asks
               /\ x.lanes[w].at # "asking" /\ asker' = asker
               /\ \/ t.run.turn = x.turn
                  \/ t.run.turn = Append(x.turn, w)
                  \/ /\ t.run.values # "unasked" /\ t.run.turn = Tail(x.turn)
                     /\ x.turn # <<>> /\ w = Head(x.turn)
      <4>1. ASSUME asker # Nobody
            PROVE  \E q \in RunIds : \E l \in Lanes(q) : asker = <<q, l>> /\ runs'[q].lanes[l].at = "asking"
        <5>1. PICK q \in RunIds : \E l \in Lanes(q) : asker = <<q, l>> /\ runs[q].lanes[l].at = "asking"
          BY <4>1 DEF AskInv
        <5>2. PICK l \in Lanes(q) : asker = <<q, l>> /\ runs[q].lanes[l].at = "asking"
          BY <5>1
        <5>3. runs'[q].lanes[l].at = "asking"
          BY <5>2, <3>2, <1>1, <1>2
        <5> QED BY <5>2, <5>3
      <4>2. t.run.turn = x.turn \/ t.run.turn = Append(x.turn, w) =>
              (x.turn # <<>> => t.run.turn # <<>> /\ Head(t.run.turn) = Head(x.turn))
        BY <1>0, <1>x
      <4>3. CASE t.run.turn = x.turn \/ t.run.turn = Append(x.turn, w)
        <5>1. \A l \in Lanes(r) : y.lanes[l].at = "asking" => y.turn # <<>> /\ l = Head(y.turn)
          BY <3>1, <4>2, <4>3, <1>2, <1>4
        <5>2. ASSUME x.turn # <<>>, x.lanes[Head(x.turn)].at = "asking"
              PROVE  y.turn # <<>> /\ y.lanes[Head(y.turn)].at = "asking"
          BY <5>2, <3>2, <4>2, <4>3, <1>2, <1>h
        <5> QED BY <5>1, <5>2, <4>1, <3>2, <1>2, <1>4
      <4>4. CASE t.run.values # "unasked" /\ x.turn # <<>> /\ w = Head(x.turn)
        <5>1. \A l \in Lanes(r) : y.lanes[l].at # "asking"
          BY <3>1, <4>4, <1>4
        <5> QED BY <5>1, <4>1, <4>4, <3>2, <1>2, <1>4
      <4> QED BY <3>2, <4>3, <4>4
    <3>3. CASE /\ t.run.values # "unasked" /\ t.run.asks = x.asks /\ t.run.turn = Tail(x.turn)
               /\ x.turn # <<>> /\ x.lanes[w].at = "asking" /\ asker' = Nobody
      <4>1. \A l \in Lanes(r) : y.lanes[l].at # "asking"
        BY <3>1, <3>3, <1>0, <1>4
      <4> QED BY <4>1, <3>3, <1>2, <1>4
    <3> QED BY <2>1, <3>2, <3>3 DEF PromptStep
  <2>2. CASE u = MoveTo(t, w, "asking") /\ AskStep(r, w, t)
    <3>1. Moves(t, u, w, "asking")
      <4>1. "asking" \in Stages
        BY DEF Stages
      <4> QED BY <2>2, <4>1, <1>0, MoveToFacts
    <3>2. y.lanes[w].at = "asking" /\ \A l \in Lanes(r) : l # w => y.lanes[l] = x.lanes[l]
      BY <3>1, <1>0, <1>1 DEF Moves
    <3>3. /\ x.values = "unasked" /\ y.asks = x.asks + 1 /\ y.turn = x.turn /\ x.turn # <<>> /\ w = Head(x.turn)
          /\ x.lanes[w].at = "waiting" /\ asker' = <<r, w>>
      BY <2>2, <1>2 DEF AskStep
    <3>4. x.asks = 0
      BY <3>3, <1>4
    <3>5. \A l \in Lanes(r) : x.lanes[l].at # "asking"
      BY <3>3, <1>4
    <3>6. \A l \in Lanes(r) : y.lanes[l].at = "asking" => l = w
      BY <3>2, <3>5
    <3>7. \E q \in RunIds : \E l \in Lanes(q) : asker' = <<q, l>> /\ runs'[q].lanes[l].at = "asking"
      BY <3>2, <3>3, <1>0
    <3> QED BY <3>2, <3>3, <3>4, <3>6, <3>7
  <2> QED BY <2>1, <2>2 DEF LaneMoves
<1>6. \A q \in RunIds : q # r =>
        /\ \A l \in Lanes(q) : runs'[q].lanes[l].at = "asking" => runs'[q].turn # <<>> /\ l = Head(runs'[q].turn)
        /\ \/ runs'[q].asks = 0
           \/ /\ runs'[q].asks = 1
              /\ \/ runs'[q].values # "unasked"
                 \/ runs'[q].turn # <<>> /\ runs'[q].lanes[Head(runs'[q].turn)].at = "asking"
  BY <1>1 DEF AskInv
<1>7. Nobody' = Nobody
  BY DEF Nobody
<1> QED BY <1>3, <1>5, <1>6, <1>7 DEF AskInv

-----------------------------------------------------------------------------
(* The start of a run, Stop, and the values the user clears *)

Begun(r) == [TurnOf(r) EXCEPT !.run = NewRun(r, session), !.sink = [isRunning |-> TRUE, results |-> {}]]

IsNew(x, r, before) ==
    /\ x \in RunRecord(r)
    /\ x.isStopped = FALSE /\ x.isHalted = FALSE /\ x.isOver = FALSE /\ x.before = before
    /\ x.given = Nothing /\ x.iteration = 0 /\ x.turn = <<>> /\ x.asks = 0 /\ x.values = "unasked"
    /\ x.lanes = [w \in Lanes(r) |-> IdleLane]

LEMMA NewRunFacts ==
    ASSUME RunnerTypes, NEW r \in RunIds, NEW before \in Values, NEW x, x = NewRun(r, before)
    PROVE  IsNew(x, r, before)
<1>1. IdleLane \in Lane /\ Nothing \in Values
  BY ValueFacts DEF IdleLane, Lane, Stages
<1>2. [w \in Lanes(r) |-> IdleLane] \in [Lanes(r) -> Lane]
  BY <1>1
<1>3. <<>> \in Seq(Nat) /\ <<>> \in Seq(Lanes(r))
  OBVIOUS
<1> DEFINE lanes == [w \in Lanes(r) |-> IdleLane]
<1>4. x = [isStopped |-> FALSE, isHalted |-> FALSE, isOver |-> FALSE,
           before |-> before, given |-> Nothing, iteration |-> 0,
           queue |-> <<>>, lanes |-> lanes, sent |-> 0,
           passedOver |-> {}, attempted |-> {},
           values |-> "unasked", turn |-> <<>>, asks |-> 0]
  BY DEF NewRun
<1> HIDE DEF lanes
<1>5. x \in RunRecord(r)
  BY ValueFacts, <1>1, <1>2, <1>3, <1>4 DEF RunRecord, lanes
<1>6. /\ x.isStopped = FALSE /\ x.isHalted = FALSE /\ x.isOver = FALSE /\ x.before = before
      /\ x.given = Nothing /\ x.iteration = 0 /\ x.turn = <<>> /\ x.asks = 0 /\ x.values = "unasked"
      /\ x.lanes = lanes
  BY <1>4
<1> QED BY <1>5, <1>6 DEF lanes, IsNew

LEMMA BegunFacts ==
    ASSUME RunnerTypes, NEW r \in RunIds, NEW t, t = Begun(r)
    PROVE  /\ IsTurn(t) /\ t.id = r /\ t.session = session /\ t.run = NewRun(r, session)
           /\ t.sink.isRunning = TRUE /\ t.sink.results = {}
<1> DEFINE x == NewRun(r, session)
           s == TurnOf(r)
           k == [isRunning |-> TRUE, results |-> {}]
<1>1. session \in Values
  BY DEF RunnerTypes
<1>2. x \in RunRecord(r)
  BY <1>1, NewRunFacts DEF IsNew
<1>3. k \in Sink /\ k.isRunning = TRUE /\ k.results = {}
  BY DEF Sink
<1>4. s = [id |-> r, run |-> runs[r], session |-> session, sink |-> sink[plan[r].runner]]
  BY DEF TurnOf
<1>5. /\ t = [s EXCEPT !.run = x, !.sink = k]
  BY DEF Begun
<1> HIDE DEF x, k, s
<1>6. /\ t.id = r /\ t.session = session /\ t.run = x /\ t.sink = k
      /\ t = [id |-> t.id, run |-> t.run, session |-> t.session, sink |-> t.sink]
  BY <1>4, <1>5
<1>7. IsTurn(t)
  BY <1>1, <1>2, <1>3, <1>6, MakeTurn
<1> QED BY <1>3, <1>6, <1>7 DEF x

(* A run starts with its first iteration. *)
Starts(r, t, u) ==
    /\ IsTurn(t) /\ IsTurn(u) /\ Advances(t, u) /\ u.id = r
    /\ t.id = r /\ t.session = session /\ t.run = NewRun(r, session)
    /\ t.sink.isRunning = TRUE /\ t.sink.results = {}
    /\ ~HasStarted(r) /\ plan' = plan /\ asker' = asker /\ written' = written
    /\ current' = [current EXCEPT ![plan[r].runner] = r]
    /\ CommitWrite(Nothing, u) /\ IsCommitted(r, Nothing, u) /\ RunnerTypes'
    /\ u.run.iteration = 1 /\ u.run.isOver = FALSE /\ u.run.isStopped = FALSE /\ u.run.isHalted = FALSE
    /\ u.run.before = session /\ u.run.turn = <<>> /\ u.run.asks = 0

LEMMA StartFacts ==
    ASSUME RunnerTypes, NEW r \in RunIds, StartRun(r), NEW t, t = Begun(r), NEW u, u = BeginIteration(t)
    PROVE  Starts(r, t, u)
<1>1. /\ IsTurn(t) /\ t.id = r /\ t.session = session /\ t.run = NewRun(r, session)
      /\ t.sink.isRunning = TRUE /\ t.sink.results = {}
  BY BegunFacts
<1>2. session \in Values /\ PlanType
  BY DEF RunnerTypes
<1>3. /\ t.run.isStopped = FALSE /\ t.run.isHalted = FALSE /\ t.run.isOver = FALSE /\ t.run.before = session
      /\ t.run.iteration = 0 /\ t.run.turn = <<>> /\ t.run.asks = 0
  <2>1. IsNew(t.run, r, session)
    BY <1>1, <1>2, NewRunFacts
  <2> QED BY <2>1 DEF IsNew
<1>4. IterationCount(r) \in Nat \ {0} /\ plan[r].runner \in Runners
  BY <1>2, PlanFacts
<1>5. IsTurn(u) /\ Advances(t, u)
  <2>1. ~(t.run.isStopped \/ t.run.isHalted \/ t.run.iteration >= IterationCount(t.id))
    BY <1>1, <1>3, <1>4
  <2> QED BY <2>1, <1>1, <1>2, BeginIterationFacts
<1>6. /\ u.id = r /\ u.run.iteration = 1 /\ u.run.isOver = FALSE /\ u.run.isStopped = FALSE /\ u.run.isHalted = FALSE
      /\ u.run.before = session /\ u.run.turn = <<>> /\ u.run.asks = 0
  BY <1>1, <1>3, <1>5 DEF Advances
<1>7. /\ ~HasStarted(r) /\ plan' = plan /\ asker' = asker /\ written' = written
      /\ current' = [current EXCEPT ![plan[r].runner] = r] /\ CommitWrite(Nothing, u)
  BY DEF StartRun, Commit, Begun
<1>8. current' \in [Runners -> RunIds \union {0}] /\ written' = written \union ({Nothing} \ {Nothing})
  BY <1>4, <1>7 DEF RunnerTypes
<1>9. IsCommitted(r, Nothing, u) /\ RunnerTypes'
  BY <1>5, <1>6, <1>7, <1>8, ValueFacts, CommitFacts
<1> QED BY <1>1, <1>5, <1>6, <1>7, <1>9 DEF Starts

LEMMA StartKeepsRows ==
    ASSUME RunnerTypes, LaneInv, AskInv, NEW r \in RunIds, StartRun(r)
    PROVE  LaneInv' /\ AskInv' /\ RowStep(r, Nothing)
<1> DEFINE t == Begun(r)
           u == BeginIteration(t)
           y == runs'[r]
<1>0. /\ Advances(t, u) /\ t.id = r /\ t.session = session /\ t.run = NewRun(r, session)
      /\ u.id = r /\ ~HasStarted(r) /\ plan' = plan /\ asker' = asker /\ written' = written
      /\ CommitWrite(Nothing, u) /\ IsCommitted(r, Nothing, u)
      /\ u.run.iteration = 1 /\ u.run.isOver = FALSE /\ u.run.isStopped = FALSE
      /\ u.run.before = session /\ u.run.turn = <<>> /\ u.run.asks = 0
  <2>1. Starts(r, t, u)
    BY StartFacts
  <2> QED BY <2>1 DEF Starts
<1> HIDE DEF t, u
<1>1. y = u.run /\ session' = u.session /\ \A q \in RunIds : q # r => runs'[q] = runs[q]
  BY <1>0 DEF IsCommitted
<1>2. t.run.given = Nothing
  BY <1>0 DEF NewRun
<1>3. /\ RunIds' = RunIds /\ \A q : Lanes(q)' = Lanes(q)
      /\ \A q : (IsIterating(q)' <=> IsIterating(q)) /\ NewRun(q, Forgotten)' = NewRun(q, Forgotten)
      /\ \A q, i : RowOf(q, i)' = RowOf(q, i)
  BY <1>0, SamePlan
<1>4. /\ y.given = IF IsIterating(r) THEN RowOf(r, 1) ELSE Nothing
      /\ session' = IF IsIterating(r) THEN RowOf(r, 1) ELSE session
  BY <1>0, <1>1, <1>2 DEF Advances
<1>5. HasStarted(r)' /\ IsGoing(r)' /\ y.iteration = 1 /\ ~y.isOver
  BY <1>0, <1>1 DEF HasStarted, IsGoing
<1>6. runs[r].given = Nothing /\ runs[r] = NewRun(r, Forgotten)
  BY <1>0, GivenFacts DEF LaneInv
<1>o. \A q \in RunIds : q # r =>
        (HasStarted(q)' <=> HasStarted(q)) /\ (IsGoing(q)' <=> IsGoing(q)) /\ runs'[q] = runs[q]
  BY <1>1 DEF HasStarted, IsGoing
<1>7. LaneInv'
  <2>1. ASSUME NEW q \in RunIds
        PROVE  /\ ~HasStarted(q)' => runs'[q] = NewRun(q, Forgotten)
               /\ runs'[q].isOver => \A l \in Lanes(q) : runs'[q].lanes[l].at = "done"
               /\ runs'[q].given = IF IsGoing(q)' /\ IsIterating(q) THEN RowOf(q, runs'[q].iteration) ELSE Nothing
    <3>1. CASE q = r
      BY <3>1, <1>4, <1>5
    <3>2. CASE q # r
      BY <3>2, <1>o DEF LaneInv
    <3> QED BY <3>1, <3>2
  <2> QED BY <2>1, <1>3 DEF LaneInv
<1>8. AskInv'
  <2>1. ASSUME NEW l \in Lanes(r) PROVE y.lanes[l].at # "asking" /\ runs[r].lanes[l].at # "asking"
    <3>1. y.lanes[l] = [at |-> "preparing", request |-> l]
      BY <1>0, <1>1 DEF Advances
    <3>2. runs[r].lanes = [w \in Lanes(r) |-> IdleLane]
      BY <1>6 DEF NewRun
    <3>3. runs[r].lanes[l] = IdleLane
      BY <3>2
    <3> QED BY <3>1, <3>3 DEF IdleLane
  <2>2. ASSUME asker' # Nobody
        PROVE  \E q \in RunIds : \E l \in Lanes(q) : asker' = <<q, l>> /\ runs'[q].lanes[l].at = "asking"
    <3>1. PICK q \in RunIds : \E l \in Lanes(q) : asker = <<q, l>> /\ runs[q].lanes[l].at = "asking"
      BY <2>2, <1>0 DEF AskInv
    <3> QED BY <3>1, <2>1, <1>0, <1>1
  <2>3. \A q \in RunIds :
          /\ \A l \in Lanes(q) : runs'[q].lanes[l].at = "asking" => runs'[q].turn # <<>> /\ l = Head(runs'[q].turn)
          /\ \/ runs'[q].asks = 0
             \/ /\ runs'[q].asks = 1
                /\ \/ runs'[q].values # "unasked"
                   \/ runs'[q].turn # <<>> /\ runs'[q].lanes[Head(runs'[q].turn)].at = "asking"
    BY <2>1, <1>0, <1>1 DEF AskInv
  <2> QED BY <2>2, <2>3, <1>3 DEF AskInv, Nobody
<1>9. RowStep(r, Nothing)
  <2>1. /\ GivesRow(u) <=> y.given \notin {Nothing, runs[r].given}
        /\ standing' = IF GivesRow(u) THEN Nothing ELSE StandsAfter(Nothing)
    BY <1>0, <1>1 DEF GivesRow, CommitWrite, StandsAfter
  <2>2. disturbed' = ((disturbed \union {q \in RunIds : Nothing # Nothing /\ runs[q].given # Nothing})
                            \ (IF GivesRow(u) THEN {r} ELSE {}))
                            \union {q \in RunIds \ {r} : GivesRow(u) /\ runs[q].given # Nothing}
                            \union RecalledWith(r, y)
    BY <1>0, <1>1 DEF CommitWrite, Displaced, Recalled, RecalledWith
  <2>3. \/ y.given = runs[r].given /\ session' = session
        \/ (\E i \in Nat : y.given = RowOf(r, i)) /\ y.given # runs[r].given /\ session' = y.given
    <3>1. RowOf(r, 1) # Nothing
      BY ValueFacts
    <3> QED BY <3>1, <1>4, <1>6
  <2>4. written' = written \union ({Nothing} \ {Nothing})
    BY <1>0
  <2> QED BY <1>0, <1>1, <1>5, <2>1, <2>2, <2>3, <2>4, ValueFacts DEF RowStep
<1> QED BY <1>7, <1>8, <1>9

(* Stop leaves the lanes and takes the row back. *)
Stops(r, u) ==
    /\ r \in RunIds /\ r = current["dialog"] /\ IsTurn(u) /\ u.id = r /\ CommitWrite(Nothing, u)
    /\ u.run = [runs[r] EXCEPT !.isStopped = TRUE, !.given = Nothing]
    /\ u.session = WithdrawnValues(runs[r].before, runs[r].given, session)
    /\ u.sink.isRunning = FALSE /\ u.sink.results = sink[plan[r].runner].results
    /\ plan' = plan /\ asker' = asker /\ written' = written
    /\ current' = [current EXCEPT !["dialog"] = 0]
    /\ IsCommitted(r, Nothing, u) /\ RunnerTypes'

LEMMA StopFacts ==
    ASSUME RunnerTypes, Stop
    PROVE  \E r, u : Stops(r, u)
<1> DEFINE r == current["dialog"]
<1>0. r \in RunIds /\ "dialog" \in Runners
  BY DEF Stop, RunnerTypes, Runners
<1>s. PICK s : s = TurnOf(r)
  OBVIOUS
<1>a. PICK t : t = [s EXCEPT !.run.isStopped = TRUE]
  OBVIOUS
<1>b. PICK v : v = GiveSession(t, Nothing)
  OBVIOUS
<1>c. PICK u : u = [v EXCEPT !.sink.isRunning = FALSE]
  OBVIOUS
<1>1. /\ CommitWrite(Nothing, u) /\ plan' = plan /\ asker' = asker /\ written' = written
      /\ current' = [current EXCEPT !["dialog"] = 0]
  BY <1>s, <1>a, <1>b, <1>c DEF Stop, Commit
<1>2. IsTurn(s) /\ s.id = r /\ s.run = runs[r] /\ s.sink = sink[plan[r].runner] /\ s.session = session
  <2>1. s = Written(TurnOf(r), Nothing)
    BY <1>s DEF Written
  <2> QED BY <2>1, <1>0, ValueFacts, TurnOfFacts
<1> HIDE DEF r
<1>t. s.run \in RunRecord(r) /\ s.session \in Values /\ s.sink \in Sink
  BY <1>2, TurnFields
<1>3. /\ t.id = s.id /\ t.session = s.session /\ t.sink = s.sink /\ t.run = [s.run EXCEPT !.isStopped = TRUE]
      /\ t = [id |-> t.id, run |-> t.run, session |-> t.session, sink |-> t.sink]
  BY <1>2, <1>a DEF IsTurn
<1>4. t.run \in RunRecord(r) /\ t.run.before = s.run.before /\ t.run.given = s.run.given
  BY <1>t, <1>3 DEF RunRecord
<1>5. IsTurn(t)
  BY <1>0, <1>2, <1>t, <1>3, <1>4, MakeTurn
<1>6. /\ IsTurn(v) /\ v.id = t.id /\ v.sink = t.sink /\ v.run = [t.run EXCEPT !.given = Nothing]
      /\ v.session = WithdrawnValues(t.run.before, t.run.given, t.session)
  BY <1>b, <1>5, GiveSessionFacts, ValueFacts
<1>7. v.run \in RunRecord(r) /\ v.session \in Values /\ v.sink \in Sink
  BY <1>2, <1>3, <1>6, TurnFields
<1>8. /\ u.id = v.id /\ u.session = v.session /\ u.run = v.run /\ u.sink = [v.sink EXCEPT !.isRunning = FALSE]
      /\ u = [id |-> u.id, run |-> u.run, session |-> u.session, sink |-> u.sink]
  BY <1>6, <1>c DEF IsTurn
<1>9. u.sink \in Sink /\ u.sink.isRunning = FALSE /\ u.sink.results = v.sink.results
  BY <1>7, <1>8 DEF Sink
<1>10. IsTurn(u) /\ u.id = r
  BY <1>0, <1>2, <1>3, <1>6, <1>7, <1>8, <1>9, MakeTurn
<1>11. u.run = [runs[r] EXCEPT !.isStopped = TRUE, !.given = Nothing]
  BY <1>2, <1>3, <1>6, <1>8
<1>12. current' \in [Runners -> RunIds \union {0}] /\ written' = written \union ({Nothing} \ {Nothing})
  BY <1>0, <1>1 DEF RunnerTypes
<1>13. IsCommitted(r, Nothing, u) /\ RunnerTypes'
  BY <1>0, <1>1, <1>10, <1>12, ValueFacts, CommitFacts
<1>14. /\ u.session = WithdrawnValues(runs[r].before, runs[r].given, session)
       /\ u.sink.results = sink[plan[r].runner].results
  BY <1>2, <1>3, <1>4, <1>6, <1>8, <1>9
<1>15. Stops(r, u)
  BY <1>0, <1>1, <1>9, <1>10, <1>11, <1>13, <1>14 DEF Stops, r
<1> QED BY <1>15

LEMMA StopKeepsRows ==
    ASSUME RunnerTypes, LaneInv, AskInv, CurrentInv, NEW r, NEW u, Stops(r, u)
    PROVE  LaneInv' /\ AskInv' /\ RowStep(r, Nothing)
<1> DEFINE x == runs[r]
           y == runs'[r]
<1>0. /\ r \in RunIds /\ r = current["dialog"] /\ u.id = r /\ CommitWrite(Nothing, u)
      /\ u.run = [x EXCEPT !.isStopped = TRUE, !.given = Nothing]
      /\ u.session = WithdrawnValues(x.before, x.given, session)
      /\ plan' = plan /\ asker' = asker /\ written' = written
      /\ IsCommitted(r, Nothing, u)
  BY DEF Stops
<1>1. y = u.run /\ session' = u.session /\ \A q \in RunIds : q # r => runs'[q] = runs[q]
  BY <1>0 DEF IsCommitted
<1>2. HasStarted(r)
  <2>1. r # 0 /\ "dialog" \in Runners
    BY <1>0, PlanFacts DEF RunnerTypes, Runners
  <2> QED BY <1>0, <2>1 DEF CurrentInv
<1>3. x \in RunRecord(r)
  BY <1>0 DEF RunnerTypes
<1>4. /\ y.isStopped = TRUE /\ y.given = Nothing /\ y.isOver = x.isOver /\ y.iteration = x.iteration
      /\ y.before = x.before /\ y.lanes = x.lanes /\ y.turn = x.turn /\ y.asks = x.asks /\ y.values = x.values
  <2> HIDE DEF x, y
  <2> QED BY <1>0, <1>1, <1>3 DEF RunRecord
<1>5. /\ RunIds' = RunIds /\ \A q : Lanes(q)' = Lanes(q)
      /\ \A q : (IsIterating(q)' <=> IsIterating(q)) /\ NewRun(q, Forgotten)' = NewRun(q, Forgotten)
      /\ \A q, i : RowOf(q, i)' = RowOf(q, i)
  BY <1>0, SamePlan
<1>6. HasStarted(r)' /\ ~IsGoing(r)'
  BY <1>2, <1>4 DEF HasStarted, IsGoing
<1>o. \A q \in RunIds : q # r =>
        (HasStarted(q)' <=> HasStarted(q)) /\ (IsGoing(q)' <=> IsGoing(q)) /\ runs'[q] = runs[q]
  BY <1>1 DEF HasStarted, IsGoing
<1>7. LaneInv'
  <2>1. ASSUME NEW q \in RunIds
        PROVE  /\ ~HasStarted(q)' => runs'[q] = NewRun(q, Forgotten)
               /\ runs'[q].isOver => \A l \in Lanes(q) : runs'[q].lanes[l].at = "done"
               /\ runs'[q].given = IF IsGoing(q)' /\ IsIterating(q) THEN RowOf(q, runs'[q].iteration) ELSE Nothing
    <3>1. CASE q = r
      BY <3>1, <1>4, <1>6 DEF LaneInv
    <3>2. CASE q # r
      BY <3>2, <1>o DEF LaneInv
    <3> QED BY <3>1, <3>2
  <2> QED BY <2>1, <1>5 DEF LaneInv
<1>8. AskInv'
  <2>1. \A q \in RunIds : runs'[q].lanes = runs[q].lanes /\ runs'[q].turn = runs[q].turn
                          /\ runs'[q].asks = runs[q].asks /\ runs'[q].values = runs[q].values
    BY <1>1, <1>4
  <2> QED BY <2>1, <1>0, <1>5 DEF AskInv, Nobody
<1>9. RowStep(r, Nothing)
  <2>1. ~GivesRow(u) /\ y.given \in {Nothing, x.given}
    BY <1>0, <1>1, <1>4 DEF GivesRow
  <2>2. standing' = StandsAfter(Nothing)
    BY <2>1 , <1>0 DEF CommitWrite, StandsAfter
  <2>3. disturbed' = ((disturbed \union {q \in RunIds : Nothing # Nothing /\ runs[q].given # Nothing})
                            \ (IF GivesRow(u) THEN {r} ELSE {}))
                            \union {q \in RunIds \ {r} : GivesRow(u) /\ runs[q].given # Nothing}
                            \union RecalledWith(r, y)
    BY <1>0, <1>1 DEF CommitWrite, Displaced, Recalled, RecalledWith
  <2>4. written' = written \union ({Nothing} \ {Nothing})
    BY <1>0
  <2> QED BY <1>0, <1>1, <1>2, <1>4, <1>6, <2>1, <2>2, <2>3, <2>4, ValueFacts DEF RowStep
<1> QED BY <1>7, <1>8, <1>9

LEMMA RowStepKeepsCurrent ==
    ASSUME RunnerTypes, CurrentInv, NEW r, NEW value, RowStep(r, value),
           \A x \in Runners : current'[x] \in {0, r, current[x]}
    PROVE  CurrentInv'
<1>1. ASSUME NEW x \in Runners, NEW c, c = current'[x], c # 0
      PROVE  HasStarted(c)'
  <2>1. CASE c = r
    BY <2>1 DEF RowStep
  <2>2. CASE c # r
    <3>1. c \in RunIds /\ HasStarted(c)
      BY <1>1, <2>2 DEF RunnerTypes, CurrentInv
    <3>2. runs'[c] = runs[c]
      BY <2>2, <3>1 DEF RowStep
    <3> QED BY <3>1, <3>2 DEF HasStarted
  <2> QED BY <2>1, <2>2
<1>2. \A x \in Runners : current'[x] # 0 => runs'[current'[x]].iteration > 0 \/ runs'[current'[x]].isOver
  BY <1>1 DEF HasStarted
<1> QED BY <1>2 DEF CurrentInv, HasStarted, Runners

LEMMA ClearKeepsRows ==
    ASSUME RowInv, ClearSessionVariables
    PROVE  RowInv'
<1>1. /\ session' = Forgotten /\ written' = written \union {Forgotten} /\ standing' = Forgotten
      /\ disturbed' = disturbed \union {r \in RunIds : runs[r].given # Nothing}
      /\ plan' = plan /\ runs' = runs /\ current' = current /\ sink' = sink /\ asker' = asker
  BY DEF ClearSessionVariables
<1>2. /\ RunIds' = RunIds /\ (PlanType <=> PlanType')
      /\ \A q : Lanes(q)' = Lanes(q) /\ RunRecord(q)' = RunRecord(q)
      /\ \A q : (IsIterating(q)' <=> IsIterating(q)) /\ NewRun(q, Forgotten)' = NewRun(q, Forgotten)
      /\ \A q, i : RowOf(q, i)' = RowOf(q, i)
      /\ \A q : (HasStarted(q)' <=> HasStarted(q)) /\ (IsGoing(q)' <=> IsGoing(q))
  BY <1>1, SamePlan DEF HasStarted, IsGoing
<1>3. RunnerTypes'
  BY <1>1, <1>2, ValueFacts DEF RowInv, RunnerTypes
<1>4. LaneInv' /\ CurrentInv'
  BY <1>1, <1>2 DEF RowInv, LaneInv, CurrentInv
<1>5. AskInv'
  BY <1>1, <1>2 DEF RowInv, AskInv, Nobody
<1>6. ValueInv'
  <2>1. ASSUME NEW q \in RunIds, runs[q].given # Nothing PROVE runs[q].given.text # Forgotten.text
    <3>1. runs[q].given \in RowValues
      BY <2>1 DEF RowInv, RunnerTypes, RunRecord, GivenValues
    <3> QED BY <3>1, RunnerAssumption DEF RowValues, Forgotten, Value
  <2> QED BY <1>1, <1>2, <2>1 DEF RowInv, ValueInv, IsRowText
<1>7. PlaceInv'
  BY <1>1, <1>2 DEF RowInv, PlaceInv
<1> QED BY <1>3, <1>4, <1>5, <1>6, <1>7 DEF RowInv

LEMMA RunnerInitially ==
    ASSUME RunnerAssumption, RunnerInit
    PROVE  RowInv
<1>1. PICK p \in RunPlans : plan = p.runs
  BY DEF RunnerInit
<1>2. PlanType
  BY <1>1 DEF RunnerAssumption, PlanType
<1>3. /\ runs = [r \in RunIds |-> NewRun(r, Forgotten)] /\ current = [x \in Runners |-> 0]
      /\ sink = [x \in Runners |-> [isRunning |-> FALSE, results |-> {}]]
      /\ session \in {Forgotten} \union Before /\ asker = Nobody /\ written = {session}
      /\ standing = Nothing /\ disturbed = {}
  BY DEF RunnerInit, RunIds
<1>4. session \in Values /\ standing \in Values /\ Forgotten \in Values /\ session \in Owned
  BY <1>3, ValueFacts DEF Owned
<1>5. [isRunning |-> FALSE, results |-> {}] \in Sink
  BY DEF Sink
<1>6. ASSUME NEW r \in RunIds
      PROVE  /\ runs[r] = NewRun(r, Forgotten) /\ runs[r] \in RunRecord(r)
             /\ ~HasStarted(r) /\ ~IsGoing(r) /\ runs[r].given = Nothing /\ runs[r].isOver = FALSE
             /\ runs[r].asks = 0 /\ \A w \in Lanes(r) : runs[r].lanes[w] = IdleLane
  <2> DEFINE x == NewRun(r, Forgotten)
  <2>1. runs[r] = x
    BY <1>3
  <2>2. IdleLane \in Lane /\ Nothing \in Values
    BY ValueFacts DEF IdleLane, Lane, Stages
  <2>3. [w \in Lanes(r) |-> IdleLane] \in [Lanes(r) -> Lane] /\ <<>> \in Seq(Nat) /\ <<>> \in Seq(Lanes(r))
    BY <2>2
  <2>4. x \in RunRecord(r)
    BY ValueFacts, <1>4, <2>2, <2>3 DEF NewRun, RunRecord
  <2>5. /\ x.given = Nothing /\ x.isOver = FALSE /\ x.asks = 0 /\ x.iteration = 0
        /\ x.lanes = [w \in Lanes(r) |-> IdleLane]
    BY DEF NewRun
  <2> HIDE DEF x
  <2> QED BY <2>1, <2>4, <2>5 DEF HasStarted, IsGoing, x
<1>7. RunnerTypes
  <2>1. runs = [r \in RunIds |-> runs[r]]
    BY <1>3
  <2>2. current \in [Runners -> RunIds \union {0}] /\ sink \in [Runners -> Sink]
    BY <1>3, <1>5
  <2> QED BY <1>2, <1>3, <1>4, <1>6, <2>1, <2>2 DEF RunnerTypes
<1>8. LaneInv /\ CurrentInv
  BY <1>3, <1>6 DEF LaneInv, CurrentInv
<1>9. AskInv
  <2>1. \A r \in RunIds : runs[r].asks = 0 /\ \A w \in Lanes(r) : runs[r].lanes[w] = IdleLane
    BY <1>6
  <2>2. IdleLane.at # "asking"
    BY DEF IdleLane
  <2> QED BY <1>3, <2>1, <2>2 DEF AskInv
<1>10. ValueInv /\ PlaceInv
  BY <1>3, <1>6 DEF ValueInv, PlaceInv
<1> QED BY <1>7, <1>8, <1>9, <1>10 DEF RowInv

-----------------------------------------------------------------------------
(* The theorems about the rows *)

LEMMA NextCases ==
    ASSUME RunnerTypes, AskInv, RunnerNext
    PROVE  IsLaneStep \/ (\E r \in RunIds : StartRun(r)) \/ Stop \/ ClearSessionVariables
<1>1. CASE \E r \in RunIds : StartRun(r) \/ AnswerTurn(r)
  BY <1>1, AnswerTurnMoves
<1>2. CASE \E isGiven \in BOOLEAN : AnswerVariables(isGiven)
  BY <1>2, AnswerVariablesMoves
<1>3. ASSUME NEW r \in RunIds, NEW w \in Lanes(r),
             PrepareEnds(r, w) \/ Transmit(r, w) \/ Respond(r, w) \/ Checked(r, w) \/ PauseEnds(r, w)
      PROVE  IsLaneStep
  BY <1>3, PrepareEndsMoves, TransmitMoves, CheckedMoves
<1> QED BY <1>1, <1>2, <1>3 DEF RunnerNext

LEMMA StepKeepsRows ==
    ASSUME RunnerAssumption, RowInv, [RunnerNext]_runnerVars
    PROVE  RowInv'
<1>0. RunnerTypes /\ LaneInv /\ AskInv /\ CurrentInv /\ ValueInv /\ PlaceInv
  BY DEF RowInv
<1>d. "dialog" \in Runners /\ \A r \in RunIds : plan[r].runner \in Runners
  BY <1>0, PlanFacts DEF Runners, RunnerTypes
<1>1. ASSUME RunnerTypes', LaneInv', AskInv', NEW r, NEW value, RowStep(r, value),
             \A x \in Runners : current'[x] \in {0, r, current[x]}
      PROVE  RowInv'
  BY <1>0, <1>1, RowStepKeepsValues, RowStepKeepsPlace, RowStepKeepsCurrent DEF RowInv
<1>2. CASE IsLaneStep
  <2>1. PICK r, w, value, s, t, u : LaneMoves(r, w, value, s, t, u)
    BY <1>2 DEF IsLaneStep
  <2>2. RunnerTypes' /\ LaneInv' /\ AskInv' /\ RowStep(r, value)
    BY <1>0, <2>1, LaneMoveFacts, LaneMoveKeepsRows, LaneMoveKeepsAsks
  <2>3. current' = current
    BY <2>1 DEF LaneMoves
  <2> QED BY <2>2, <2>3, <1>1
<1>3. ASSUME NEW r \in RunIds, StartRun(r) PROVE RowInv'
  <2>1. RunnerTypes' /\ current' = [current EXCEPT ![plan[r].runner] = r]
    BY <1>0, <1>3, StartFacts DEF Starts
  <2>2. LaneInv' /\ AskInv' /\ RowStep(r, Nothing)
    BY <1>0, <1>3, StartKeepsRows
  <2>3. \A x \in Runners : current'[x] \in {0, r, current[x]}
    BY <1>0, <1>d, <2>1 DEF RunnerTypes
  <2> QED BY <2>1, <2>2, <2>3, <1>1
<1>4. CASE Stop
  <2>1. PICK r, u : Stops(r, u)
    BY <1>0, <1>4, StopFacts
  <2>2. LaneInv' /\ AskInv' /\ RowStep(r, Nothing)
    BY <1>0, <2>1, StopKeepsRows
  <2>3. RunnerTypes' /\ current' = [current EXCEPT !["dialog"] = 0]
    BY <2>1 DEF Stops
  <2>4. \A x \in Runners : current'[x] \in {0, r, current[x]}
    BY <1>0, <1>d, <2>3 DEF RunnerTypes
  <2> QED BY <2>2, <2>3, <2>4, <1>1
<1>5. CASE ClearSessionVariables
  BY <1>5, ClearKeepsRows
<1>6. CASE UNCHANGED runnerVars
  <2>1. /\ plan' = plan /\ runs' = runs /\ current' = current /\ sink' = sink /\ asker' = asker
        /\ session' = session /\ written' = written /\ standing' = standing /\ disturbed' = disturbed
    BY <1>6 DEF runnerVars
  <2>2. /\ RunIds' = RunIds /\ (PlanType <=> PlanType')
        /\ \A q : Lanes(q)' = Lanes(q) /\ RunRecord(q)' = RunRecord(q)
        /\ \A q : (IsIterating(q)' <=> IsIterating(q)) /\ NewRun(q, Forgotten)' = NewRun(q, Forgotten)
        /\ \A q, i : RowOf(q, i)' = RowOf(q, i)
        /\ \A q : (HasStarted(q)' <=> HasStarted(q)) /\ (IsGoing(q)' <=> IsGoing(q))
    BY <2>1, SamePlan DEF HasStarted, IsGoing
  <2>3. RunnerTypes' /\ LaneInv' /\ CurrentInv'
    BY <1>0, <2>1, <2>2 DEF RunnerTypes, LaneInv, CurrentInv
  <2>4. AskInv'
    BY <1>0, <2>1, <2>2 DEF AskInv, Nobody
  <2>5. ValueInv' /\ PlaceInv'
    BY <1>0, <2>1, <2>2 DEF ValueInv, PlaceInv, HaveCrossed, IsInPlace, IsRowText
  <2> QED BY <2>3, <2>4, <2>5 DEF RowInv
<1> QED BY <1>0, <1>2, <1>3, <1>4, <1>5, <1>6, NextCases

(* For any plans, any number of rows, requests and lanes, and any order in *)
(* which the runs, the scripts and the user come, the value of the session *)
(* is a written one or the row of a run that still gives it, and a run     *)
(* prompts once (sessionGiver, rememberPrompts).                           *)
THEOREM RunnerRows == RunnerSpec => []RowInv
<1>1. RunnerInit => RowInv
  BY RunnerAssumption, RunnerInitially
<1>2. RowInv /\ [RunnerNext]_runnerVars => RowInv'
  BY RunnerAssumption, StepKeepsRows
<1> QED BY <1>1, <1>2, PTL DEF RunnerSpec

(* Once no run is going, no row of a data file is left in the session, and *)
(* a value written since the last row was given is kept (withdrawnValues,  *)
(* sessionGiver, start and stop).                                          *)
THEOREM RunnerWithdraws == RunnerSpec => []RowsAreWithdrawn
<1>1. RowInv => RowsAreWithdrawn
  <2> SUFFICES ASSUME RowInv, \A r \in RunIds : ~IsGoing(r), ~HaveCrossed
               PROVE  session \in written /\ (standing # Nothing => session = standing)
    BY DEF RowsAreWithdrawn
  <2>1. \A r \in RunIds : runs[r].given = Nothing
    BY DEF RowInv, LaneInv
  <2>2. ~IsInPlace(session)
    BY <2>1 DEF IsInPlace
  <2> QED BY <2>2 DEF RowInv, ValueInv
<1> QED BY <1>1, RunnerRows, PTL

(* A request of a run that was not stopped goes out with the row of its    *)
(* own iteration unless somebody has replaced the value since: the end of  *)
(* another run does not (withdrawnValues).                                 *)
THEOREM RunnerSends == RunnerSpec => SentWithItsRow
<1> DEFINE Sends == \A r \in RunIds : \A w \in Lanes(r) :
                /\ InStage(r, w, "renewing") /\ runs'[r].lanes[w].at = "sending"
                /\ IsGoing(r) /\ IsIterating(r) /\ r \notin disturbed
                => session = RowOf(r, runs[r].iteration)
<1>1. RowInv => Sends
  <2> SUFFICES ASSUME RowInv, NEW r \in RunIds, IsGoing(r), IsIterating(r), r \notin disturbed
               PROVE  session = RowOf(r, runs[r].iteration)
    OBVIOUS
  <2>1. runs[r].given = RowOf(r, runs[r].iteration)
    BY DEF RowInv, LaneInv
  <2>2. runs[r].given # Nothing
    BY <2>1, ValueFacts
  <2> QED BY <2>1, <2>2 DEF RowInv, PlaceInv
<1>2. RowInv /\ [RunnerNext]_runnerVars => [Sends]_runnerVars
  BY <1>1
<1> HIDE DEF Sends
<1>3. RunnerSpec => [][Sends]_runnerVars
  BY <1>2, RunnerRows, PTL DEF RunnerSpec
<1> QED BY <1>3 DEF SentWithItsRow, Sends

-----------------------------------------------------------------------------
(* The sink of a runner *)

LEMMA SameLatest ==
    ASSUME plan' = plan, \A q \in RunIds : HasStarted(q)' <=> HasStarted(q)
    PROVE  \A x : Latest(x)' = Latest(x)
BY DEF Latest, RunIds

LEMMA OneLatest ==
    ASSUME RunnerTypes, NEW x, NEW r \in Latest(x), NEW q \in Latest(x)
    PROVE  r = q
<1>1. r \in Nat /\ q \in Nat
  BY PlanFacts DEF RunnerTypes, Latest
<1> QED BY <1>1 DEF Latest

LEMMA GoingIsLatest ==
    ASSUME RunnerTypes, SinkInv, NEW r \in RunIds, IsGoing(r)
    PROVE  r = current[plan[r].runner] /\ r \in Latest(plan[r].runner) /\ plan[r].runner \in Runners
<1>1. plan[r].runner \in Runners /\ r # 0
  BY PlanFacts DEF RunnerTypes
<1>2. current[plan[r].runner] = r
  BY DEF SinkInv
<1> QED BY <1>1, <1>2 DEF SinkInv

(* Whose lane moves. *)
LEMMA LaneMoveKeepsSinks ==
    ASSUME RunnerAssumption, RunnerTypes, LaneInv, SinkInv, NEW r, NEW w, NEW value, NEW s, NEW t, NEW u,
           LaneMoves(r, w, value, s, t, u)
    PROVE  SinkInv' /\ \A q \in RunIds : HasStarted(q)' <=> HasStarted(q)
<1> DEFINE k == plan[r].runner
<1>p. plan' = plan /\ current' = current
  BY DEF LaneMoves
<1>0. /\ r \in RunIds /\ t.id = r /\ t.sink = sink[k]
      /\ t.run.isStopped = runs[r].isStopped /\ t.run.isOver = runs[r].isOver
      /\ t.run.iteration = runs[r].iteration
      /\ Passes(t, u, w) /\ IsCommitted(r, value, u)
      /\ HasStarted(r) /\ ~runs[r].isOver /\ runs[r].iteration \in Nat \ {0}
      /\ plan' = plan /\ current' = current
  BY <1>p, LaneMoveFacts
<1>1. /\ runs'[r] = u.run /\ \A q \in RunIds : q # r => runs'[q] = runs[q]
      /\ sink'[k] = u.sink /\ \A x \in Runners : x # k => sink'[x] = sink[x]
  BY <1>0 DEF IsCommitted
<1>2. HasStarted(r)' /\ runs'[r].isStopped = runs[r].isStopped
  BY <1>0, <1>1, LaneMoveKeepsRows DEF RowStep, Passes
<1>3. \A q \in RunIds : HasStarted(q)' <=> HasStarted(q)
  BY <1>0, <1>1, <1>2 DEF HasStarted
<1>4. RunIds' = RunIds /\ \A x : Latest(x)' = Latest(x)
  BY <1>0, <1>3, SameLatest, SamePlan
<1>5. /\ \A q \in RunIds : q # r => (IsGoing(q)' <=> IsGoing(q))
      /\ IsGoing(r) <=> ~runs[r].isStopped
      /\ IsGoing(r)' <=> ~u.run.isStopped /\ ~u.run.isOver
  BY <1>0, <1>1, <1>2, <1>3 DEF IsGoing, HasStarted
<1>6. u.run.isStopped = runs[r].isStopped
  BY <1>1, <1>2
<1>7. ASSUME NEW x \in Runners, NEW c, c = current'[x]
      PROVE  /\ c # 0 => c \in Latest(x) /\ ~runs'[c].isStopped
             /\ sink'[x].isRunning <=> c # 0 /\ IsGoing(c)'
             /\ \A e \in sink'[x].results : e.run \in Latest(x)
  <2>c. c = current[x]
    BY <1>0, <1>7
  <2>1. /\ c # 0 => c \in RunIds /\ c \in Latest(x) /\ ~runs[c].isStopped /\ plan[c].runner = x
        /\ sink[x].isRunning <=> c # 0 /\ IsGoing(c)
        /\ \A e \in sink[x].results : e.run \in Latest(x)
    BY <2>c DEF SinkInv, Latest
  <2>2. c # 0 => ~runs'[c].isStopped
    BY <2>1, <1>1, <1>2
  <2>3. sink'[x].isRunning <=> c # 0 /\ IsGoing(c)'
    <3>1. CASE x # k
      <4>1. c # 0 => c # r
        BY <3>1, <2>1
      <4> QED BY <3>1, <4>1, <2>1, <1>1, <1>5
    <3>2. CASE x = k /\ (Remains(t, u) \/ CarriesOn(t, u))
      <4>1. u.sink.isRunning = sink[x].isRunning /\ u.run.isOver = FALSE
        BY <3>2, <1>0 DEF Remains, CarriesOn, Passes
      <4>2. c # 0 => (IsGoing(c)' <=> IsGoing(c))
        BY <4>1, <2>1, <1>5, <1>6
      <4> QED BY <3>2, <4>1, <4>2, <2>1, <1>1
    <3>3. CASE x = k /\ IsFinished(t, u)
      <4>1. (u.sink.isRunning <=> sink[x].isRunning /\ c # r) /\ u.run.isOver = TRUE
        BY <3>3, <2>c, <1>0 DEF IsFinished
      <4>2. ~IsGoing(r)' /\ r # 0
        BY <4>1, <1>0, <1>5, PlanFacts DEF RunnerTypes
      <4>3. c # 0 /\ c # r => (IsGoing(c)' <=> IsGoing(c))
        BY <2>1, <1>5
      <4> QED BY <3>3, <4>1, <4>2, <4>3, <2>1, <1>1
    <3> QED BY <3>1, <3>2, <3>3, <1>0 DEF Passes
  <2>4. \A e \in sink'[x].results : e.run \in Latest(x)
    <3>1. CASE x # k
      BY <3>1, <2>1, <1>1
    <3>2. CASE x = k /\ runs[r].isStopped
      BY <3>2, <2>1, <1>0, <1>1 DEF Passes
    <3>3. CASE x = k /\ ~runs[r].isStopped
      <4>1. r \in Latest(x)
        BY <3>3, <1>0, <1>5, GoingIsLatest
      <4> QED BY <3>3, <4>1, <2>1, <1>0, <1>1 DEF Passes
    <3> QED BY <3>1, <3>2, <3>3
  <2> QED BY <1>0, <2>1, <2>2, <2>3, <2>4
<1>8. \A q \in RunIds : IsGoing(q)' => current'[plan[q].runner] = q
  BY <1>0, <1>5, <1>6 DEF SinkInv
<1>9. \A q, p \in RunIds : q < p /\ plan[q].runner = plan[p].runner /\ HasStarted(p)' => HasStarted(q)'
  BY <1>3 DEF SinkInv
<1>10. /\ \A x \in Runners :
           /\ current'[x] # 0 => current'[x] \in Latest(x) /\ ~runs'[current'[x]].isStopped
           /\ \A e \in sink'[x].results : e.run \in Latest(x)
       /\ \A x \in Runners : (sink[x].isRunning <=> current[x] # 0 /\ IsGoing(current[x]))'
  BY <1>7 DEF IsGoing, HasStarted
<1>11. Runners' = Runners
  BY DEF Runners
<1>12. SinkInv'
  BY <1>0, <1>4, <1>8, <1>9, <1>10, <1>11 DEF SinkInv
<1> QED BY <1>3, <1>12

LEMMA StartKeepsSinks ==
    ASSUME RunnerTypes, LaneInv, AskInv, SinkInv, NEW r \in RunIds, StartRun(r)
    PROVE  /\ SinkInv' /\ r \in Latest(plan[r].runner)'
           /\ \A x \in Runners : x # plan[r].runner => Latest(x)' = Latest(x)
<1> DEFINE k == plan[r].runner
           t == Begun(r)
           u == BeginIteration(t)
<1>0. Starts(r, t, u)
  BY StartFacts
<1> HIDE DEF t, u
<1>1. /\ plan' = plan /\ current' = [current EXCEPT ![k] = r] /\ IsCommitted(r, Nothing, u) /\ ~HasStarted(r)
      /\ u.run.iteration = 1 /\ u.run.isOver = FALSE /\ u.run.isStopped = FALSE
      /\ u.sink.isRunning = TRUE /\ u.sink.results = {}
  BY <1>0 DEF Starts, Advances
<1>2. /\ runs'[r] = u.run /\ \A q \in RunIds : q # r => runs'[q] = runs[q]
      /\ sink'[k] = u.sink /\ \A x \in Runners : x # k => sink'[x] = sink[x]
  BY <1>1 DEF IsCommitted
<1>3. k \in Runners /\ r # 0 /\ current \in [Runners -> RunIds \union {0}] /\ RunIds \subseteq Nat
  BY PlanFacts DEF RunnerTypes
<1>4. current'[k] = r /\ \A x \in Runners : x # k => current'[x] = current[x]
  BY <1>1, <1>3
<1>5. /\ ~sink[k].isRunning
      /\ \A q \in RunIds : q < r => HasStarted(q) \/ plan[q].runner # k
  BY DEF StartRun
<1>6. /\ HasStarted(r)' /\ IsGoing(r)'
      /\ \A q \in RunIds : q # r => (HasStarted(q)' <=> HasStarted(q)) /\ (IsGoing(q)' <=> IsGoing(q))
  BY <1>1, <1>2 DEF HasStarted, IsGoing
<1>7. RunIds' = RunIds /\ Runners' = Runners
  BY <1>1 DEF RunIds, Runners
<1>8. r \in Latest(k)'
  <2>1. \A q \in RunIds : q > r /\ plan[q].runner = k => ~HasStarted(q)
    BY <1>1, <1>3 DEF SinkInv
  <2>2. \A q \in RunIds : q > r => q # r
    BY <1>3
  <2> QED BY <2>1, <2>2, <1>1, <1>6, <1>7 DEF Latest
<1>9. \A x \in Runners : x # k => Latest(x)' = Latest(x)
  BY <1>1, <1>6, <1>7 DEF Latest
<1>10. ASSUME NEW x \in Runners, NEW c, c = current'[x]
       PROVE  /\ c # 0 => c \in Latest(x)' /\ ~runs'[c].isStopped
              /\ sink'[x].isRunning <=> c # 0 /\ IsGoing(c)'
              /\ \A e \in sink'[x].results : e.run \in Latest(x)'
  <2>1. CASE x = k
    BY <2>1, <1>1, <1>2, <1>3, <1>4, <1>6, <1>8, <1>10
  <2>2. CASE x # k
    <3>1. /\ c = current[x] /\ Latest(x)' = Latest(x) /\ sink'[x] = sink[x]
      BY <2>2, <1>2, <1>4, <1>9, <1>10
    <3>2. c # 0 => c \in RunIds /\ plan[c].runner = x /\ c # r
      BY <2>2, <3>1 DEF SinkInv, Latest
    <3>3. c # 0 => runs'[c] = runs[c] /\ (IsGoing(c)' <=> IsGoing(c))
      BY <3>2, <1>2, <1>6
    <3> QED BY <3>1, <3>3 DEF SinkInv
  <2> QED BY <2>1, <2>2
<1>11. /\ \A x \in Runners :
            /\ (current[x] # 0 => current[x] \in Latest(x) /\ ~runs[current[x]].isStopped)'
            /\ (\A e \in sink[x].results : e.run \in Latest(x))'
       /\ \A x \in Runners : (sink[x].isRunning <=> current[x] # 0 /\ IsGoing(current[x]))'
  BY <1>10 DEF IsGoing, HasStarted
<1>12. ASSUME NEW q \in RunIds, IsGoing(q)' PROVE current'[plan[q].runner] = q
  <2>1. CASE q = r
    BY <2>1, <1>4
  <2>2. CASE q # r
    <3>1. IsGoing(q)
      BY <2>2, <1>6, <1>12
    <3>2. q = current[plan[q].runner] /\ plan[q].runner \in Runners /\ q # 0
      BY <3>1, <1>3, GoingIsLatest, PlanFacts DEF RunnerTypes
    <3>3. plan[q].runner # k
      BY <3>1, <3>2, <1>5 DEF SinkInv
    <3> QED BY <3>2, <3>3, <1>4
  <2> QED BY <2>1, <2>2
<1>13. \A q, p \in RunIds : q < p /\ plan[q].runner = plan[p].runner /\ HasStarted(p)' => HasStarted(q)'
  BY <1>5, <1>6 DEF SinkInv
<1>14. SinkInv'
  BY <1>1, <1>7, <1>11, <1>12, <1>13 DEF SinkInv
<1> QED BY <1>8, <1>9, <1>14

LEMMA StopKeepsSinks ==
    ASSUME RunnerTypes, SinkInv, NEW r, NEW u, Stops(r, u)
    PROVE  SinkInv' /\ \A x : Latest(x)' = Latest(x)
<1> DEFINE k == "dialog"
<1>0. /\ r \in RunIds /\ r = current[k]
      /\ u.run = [runs[r] EXCEPT !.isStopped = TRUE, !.given = Nothing]
      /\ u.sink.isRunning = FALSE /\ u.sink.results = sink[plan[r].runner].results
      /\ plan' = plan /\ current' = [current EXCEPT !["dialog"] = 0]
      /\ IsCommitted(r, Nothing, u)
  BY DEF Stops
<1>1. r # 0 /\ k \in Runners /\ current \in [Runners -> RunIds \union {0}]
  BY <1>0, PlanFacts DEF RunnerTypes, Runners
<1>2. plan[r].runner = k /\ HasStarted(r)
  BY <1>0, <1>1 DEF SinkInv, Latest
<1>3. /\ runs'[r] = u.run /\ \A q \in RunIds : q # r => runs'[q] = runs[q]
      /\ sink'[k] = u.sink /\ \A x \in Runners : x # k => sink'[x] = sink[x]
  BY <1>0, <1>2 DEF IsCommitted
<1>4. u.run.isStopped = TRUE /\ u.run.iteration = runs[r].iteration /\ u.run.isOver = runs[r].isOver
  <2>1. runs[r] \in RunRecord(r)
    BY <1>0 DEF RunnerTypes
  <2> QED BY <2>1, <1>0 DEF RunRecord
<1>5. /\ \A q \in RunIds : HasStarted(q)' <=> HasStarted(q)
      /\ ~IsGoing(r)' /\ \A q \in RunIds : q # r => (IsGoing(q)' <=> IsGoing(q))
  BY <1>3, <1>4 DEF HasStarted, IsGoing
<1>6. RunIds' = RunIds /\ Runners' = Runners /\ \A x : Latest(x)' = Latest(x)
  BY <1>0, <1>5, SameLatest DEF RunIds, Runners
<1>7. current'[k] = 0 /\ \A x \in Runners : x # k => current'[x] = current[x]
  BY <1>0, <1>1
<1>8. ASSUME NEW x \in Runners, NEW c, c = current'[x]
      PROVE  /\ c # 0 => c \in Latest(x) /\ ~runs'[c].isStopped
             /\ sink'[x].isRunning <=> c # 0 /\ IsGoing(c)'
             /\ \A e \in sink'[x].results : e.run \in Latest(x)
  <2>1. CASE x = k
    BY <2>1, <1>0, <1>2, <1>3, <1>7, <1>8 DEF SinkInv
  <2>2. CASE x # k
    <3>1. c = current[x] /\ sink'[x] = sink[x]
      BY <2>2, <1>3, <1>7, <1>8
    <3>2. c # 0 => c \in RunIds /\ plan[c].runner = x /\ c # r
      BY <2>2, <3>1, <1>2 DEF SinkInv, Latest
    <3>3. c # 0 => runs'[c] = runs[c] /\ (IsGoing(c)' <=> IsGoing(c))
      BY <3>2, <1>3, <1>5
    <3> QED BY <3>1, <3>3 DEF SinkInv
  <2> QED BY <2>1, <2>2
<1>9. /\ \A x \in Runners :
           /\ current'[x] # 0 => current'[x] \in Latest(x) /\ ~runs'[current'[x]].isStopped
           /\ \A e \in sink'[x].results : e.run \in Latest(x)
      /\ \A x \in Runners : (sink[x].isRunning <=> current[x] # 0 /\ IsGoing(current[x]))'
  BY <1>8 DEF IsGoing, HasStarted
<1>10. ASSUME NEW q \in RunIds, IsGoing(q)' PROVE current'[plan[q].runner] = q
  <2>1. q # r /\ IsGoing(q)
    BY <1>5, <1>10
  <2>2. q = current[plan[q].runner] /\ plan[q].runner \in Runners
    BY <2>1, GoingIsLatest
  <2> QED BY <2>1, <2>2, <1>0, <1>7
<1>11. \A q, p \in RunIds : q < p /\ plan[q].runner = plan[p].runner /\ HasStarted(p)' => HasStarted(q)'
  BY <1>5 DEF SinkInv
<1>12. SinkInv'
  BY <1>0, <1>6, <1>9, <1>10, <1>11 DEF SinkInv
<1> QED BY <1>6, <1>12

-----------------------------------------------------------------------------
(* The results of a run: a request of the iteration waits in the queue, is *)
(* passed over or has been taken, and one that was taken is told of or a   *)
(* lane is busy with it.                                                   *)

(* Every iteration up to this one is told of. *)
IsTelling(t) ==
    /\ \A e \in t.sink.results : e.run = t.id /\ e.iteration <= t.run.iteration
    /\ \A a, b \in t.sink.results :
         a.iteration = b.iteration /\ a.request = b.request /\ a.kind = "passedOver" => b.kind = "passedOver"
    /\ \A i \in 1 .. t.run.iteration, q \in 1 .. plan[t.id].requests : IsToldOf(t, i, q)

LEMMA IterationTypes ==
    ASSUME PlanType, NEW t, IsTurn(t)
    PROVE  /\ t.id \in RunIds /\ t.run.iteration \in Nat /\ plan[t.id].requests \in Nat
           /\ IterationCount(t.id) \in Nat
           /\ \A e \in t.sink.results : e.iteration \in Nat /\ e.request \in Nat
<1>1. t.id \in RunIds /\ t.run \in RunRecord(t.id) /\ t.sink \in Sink
  BY TurnFields
<1>2. t.sink.results \subseteq Results
  BY <1>1 DEF Sink
<1> QED BY <1>1, <1>2, PlanFacts DEF RunRecord, Results

LEMMA AdvanceTells ==
    ASSUME PlanType, NEW t, IsTurn(t), NEW u, IsTurn(u), Advances(t, u), IsTelling(t)
    PROVE  Past(u) /\ Present(u, Lanes(u.id))
<1>0. /\ t.id \in RunIds /\ t.run.iteration \in Nat /\ plan[t.id].requests \in Nat \ {0}
      /\ \A e \in t.sink.results : e.iteration \in Nat /\ e.request \in Nat
      /\ LaneCount(t.id) \in 1 .. plan[t.id].requests
  BY IterationTypes, PlanFacts, TurnFields
<1>1. /\ u.id = t.id /\ u.run.iteration = t.run.iteration + 1 /\ u.sink = t.sink
      /\ u.run.queue = RequestsFrom(t.id, LaneCount(t.id) + 1) /\ u.run.attempted = Lanes(t.id)
      /\ \A w \in Lanes(t.id) : u.run.lanes[w] = [at |-> "preparing", request |-> w]
  BY DEF Advances
<1>2. \A e \in u.sink.results : e.run = u.id /\ e.iteration < u.run.iteration
  BY <1>0, <1>1 DEF IsTelling
<1>3. Past(u)
  <2>1. \A i \in 1 .. u.run.iteration - 1, q \in 1 .. plan[u.id].requests : IsToldOf(u, i, q)
    BY <1>0, <1>1 DEF IsTelling, IsToldOf
  <2>2. \A e \in u.sink.results : e.iteration <= u.run.iteration
    BY <1>0, <1>1, <1>2
  <2> QED BY <1>1, <1>2, <2>1, <2>2 DEF Past, IsTelling
<1>4. ASSUME NEW w \in Lanes(t.id) PROVE IsBusy(u.run.lanes[w]) /\ u.run.lanes[w].request = w
  <2>1. u.run.lanes[w] = [at |-> "preparing", request |-> w]
    BY <1>1
  <2> QED BY <2>1 DEF IsBusy
<1>5. ASSUME NEW q \in 1 .. plan[u.id].requests
      PROVE  q \in Queued(u) \/ q \in u.run.attempted
  <2>1. q \in Lanes(t.id) \/ q \in LaneCount(t.id) + 1 .. plan[t.id].requests
    BY <1>0, <1>1 DEF Lanes
  <2>2. LaneCount(t.id) + 1 \in Nat \ {0}
    BY <1>0
  <2>3. \A p \in LaneCount(t.id) + 1 .. plan[t.id].requests : p \in Queued(u)
    BY <2>2, <1>0, <1>1, RequestsFromFacts DEF Queued
  <2> QED BY <2>1, <2>3, <1>1
<1>6. \A e \in u.sink.results : e.iteration # u.run.iteration
  BY <1>0, <1>1, <1>2
<1> QED BY <1>1, <1>3, <1>4, <1>5, <1>6 DEF Present

LEMMA TailElements ==
    ASSUME NEW s \in Seq(Nat), s # <<>>, NEW i \in DOMAIN s
    PROVE  s[i] = Head(s) \/ \E j \in DOMAIN Tail(s) : Tail(s)[j] = s[i]
<1>1. Len(s) \in Nat \ {0} /\ i \in 1 .. Len(s)
  OBVIOUS
<1>2. CASE i = 1
  BY <1>2
<1>3. CASE i # 1
  <2>1. Tail(s) \in Seq(Nat) /\ Len(Tail(s)) = Len(s) - 1 /\ DOMAIN Tail(s) = 1 .. Len(Tail(s))
    BY <1>1
  <2>2. i - 1 \in 1 .. Len(s) - 1 /\ (i - 1) + 1 = i
    BY <1>1, <1>3
  <2>3. Tail(s)[i - 1] = s[(i - 1) + 1]
    BY <1>1, <2>1, <2>2
  <2> QED BY <2>1, <2>2, <2>3
<1> QED BY <1>2, <1>3

LEMMA TakeNextTells ==
    ASSUME NEW t, IsTurn(t), NEW w \in Lanes(t.id), NEW u, Takes(t, u, w), ~t.run.isStopped,
           Past(t), Present(t, Lanes(t.id) \ {w})
    PROVE  /\ Past(u) /\ Present(u, Lanes(u.id))
           /\ u.run.lanes[w].at = "done" => u.run.queue = <<>> \/ u.run.isHalted
<1>0. /\ u.id = t.id /\ u.sink = t.sink /\ u.run.iteration = t.run.iteration
      /\ u.run.isHalted = t.run.isHalted /\ u.run.passedOver = t.run.passedOver
      /\ \A v \in Lanes(t.id) : v # w => u.run.lanes[v] = t.run.lanes[v]
  BY DEF Takes, Quiet
<1>1. Past(u)
  BY <1>0 DEF Past, IsToldOf
<1>2. /\ t.run.attempted \subseteq u.run.attempted
      /\ IsBusy(u.run.lanes[w]) => u.run.lanes[w].request \in u.run.attempted
      /\ \A q \in u.run.attempted : q \in t.run.attempted \/ (IsBusy(u.run.lanes[w]) /\ u.run.lanes[w].request = q)
      /\ \A q \in Queued(t) : q \in Queued(u) \/ q \in u.run.attempted
      /\ u.run.lanes[w].at = "done" => u.run.queue = <<>> \/ u.run.isHalted
  <2>1. CASE /\ u.run.lanes[w] = IdleLane /\ u.run.queue = t.run.queue /\ u.run.attempted = t.run.attempted
             /\ t.run.queue = <<>> \/ t.run.isStopped \/ t.run.isHalted
    BY <2>1, <1>0 DEF IdleLane, IsBusy, Queued
  <2>2. CASE /\ t.run.queue # <<>>
             /\ u.run.queue = Tail(t.run.queue) /\ u.run.attempted = t.run.attempted \union {Head(t.run.queue)}
             /\ u.run.lanes[w] = [at |-> "preparing", request |-> Head(t.run.queue)]
    <3>1. t.run.queue \in Seq(Nat)
      BY BookTypes
    <3>2. ASSUME NEW q \in Queued(t) PROVE q \in Queued(u) \/ q = Head(t.run.queue)
      <4>1. PICK i \in DOMAIN t.run.queue : q = t.run.queue[i]
        BY DEF Queued
      <4>2. q = Head(t.run.queue) \/ \E j \in DOMAIN Tail(t.run.queue) : Tail(t.run.queue)[j] = q
        BY <2>2, <3>1, <4>1, TailElements
      <4> QED BY <2>2, <4>2 DEF Queued
    <3>3. u.run.lanes[w].at = "preparing" /\ u.run.lanes[w].request = Head(t.run.queue)
      BY <2>2
    <3> QED BY <2>2, <3>2, <3>3 DEF IsBusy
  <2> QED BY <2>1, <2>2 DEF Takes
<1>3. Present(u, Lanes(u.id))
  <2>1. \A q \in 1 .. plan[u.id].requests :
          u.run.isHalted \/ q \in Queued(u) \/ q \in u.run.passedOver \/ q \in u.run.attempted
    BY <1>0, <1>2 DEF Present
  <2>2. ASSUME NEW q \in u.run.attempted
        PROVE  \/ IsToldOf(u, u.run.iteration, q)
               \/ \E v \in Lanes(u.id) : IsBusy(u.run.lanes[v]) /\ u.run.lanes[v].request = q
    <3>1. CASE q \in t.run.attempted
      BY <3>1, <1>0 DEF Present, IsToldOf
    <3>2. CASE IsBusy(u.run.lanes[w]) /\ u.run.lanes[w].request = q
      BY <3>2, <1>0
    <3> QED BY <3>1, <3>2, <1>2
  <2>3. \A e \in u.sink.results :
          e.iteration = u.run.iteration => e.kind # "passedOver" /\ e.request \in u.run.attempted
    BY <1>0, <1>2 DEF Present
  <2>4. \A v \in Lanes(u.id) : IsBusy(u.run.lanes[v]) => u.run.lanes[v].request \in u.run.attempted
    BY <1>0, <1>2 DEF Present
  <2> QED BY <2>1, <2>2, <2>3, <2>4 DEF Present
<1> QED BY <1>1, <1>2, <1>3

LEMMA MoveToTells ==
    ASSUME NEW t, NEW w \in Lanes(t.id), NEW u, NEW stage, Moves(t, u, w, stage), Past(t),
           \/ stage \notin {"done", "pausing"} /\ IsBusy(t.run.lanes[w]) /\ Present(t, Lanes(t.id))
           \/ stage = "pausing" /\ Present(t, Lanes(t.id) \ {w})
    PROVE  Past(u) /\ Present(u, Lanes(u.id))
<1>0. /\ u.id = t.id /\ u.sink = t.sink /\ u.run.iteration = t.run.iteration
      /\ u.run.isHalted = t.run.isHalted /\ u.run.passedOver = t.run.passedOver
      /\ u.run.queue = t.run.queue /\ u.run.attempted = t.run.attempted
      /\ u.run.lanes[w].at = stage /\ u.run.lanes[w].request = t.run.lanes[w].request
      /\ \A v \in Lanes(t.id) : v # w => u.run.lanes[v] = t.run.lanes[v]
  BY DEF Moves, Quiet
<1>1. Past(u) /\ Queued(u) = Queued(t)
  BY <1>0 DEF Past, IsToldOf, Queued
<1>2. Present(u, Lanes(u.id))
  <2>1. ASSUME NEW q \in u.run.attempted
        PROVE  \/ IsToldOf(u, u.run.iteration, q)
               \/ \E v \in Lanes(u.id) : IsBusy(u.run.lanes[v]) /\ u.run.lanes[v].request = q
    BY <1>0 DEF Present, IsToldOf, IsBusy
  <2>2. \A v \in Lanes(u.id) : IsBusy(u.run.lanes[v]) => u.run.lanes[v].request \in u.run.attempted
    BY <1>0 DEF Present, IsBusy
  <2> QED BY <1>0, <1>1, <2>1, <2>2 DEF Present
<1> QED BY <1>1, <1>2

LEMMA OutcomeTells ==
    ASSUME PlanType, NEW t, IsTurn(t), NEW w \in Lanes(t.id), NEW u, HasOutcome(t, u, w), IsBusy(t.run.lanes[w]),
           Past(t), Present(t, Lanes(t.id))
    PROVE  Past(u) /\ Present(u, Lanes(u.id) \ {w})
<1>0. /\ u.id = t.id /\ u.run.iteration = t.run.iteration /\ t.run.iteration \in Nat
      /\ u.run.lanes = t.run.lanes /\ u.run.attempted = t.run.attempted /\ KeepsBooks(t, u)
  BY IterationTypes DEF HasOutcome, Quiet
<1>1. PICK e \in Results :
          /\ u.sink.results = t.sink.results \union {e}
          /\ e.run = t.id /\ e.iteration = t.run.iteration
          /\ e.request = t.run.lanes[w].request /\ e.kind # "passedOver"
  BY DEF HasOutcome
<1>2. e.request \in t.run.attempted
  BY <1>1 DEF Present
<1>3. Past(u)
  <2>1. \A d \in u.sink.results : d.run = u.id /\ d.iteration <= u.run.iteration
    BY <1>0, <1>1 DEF Past
  <2>2. ASSUME NEW a \in u.sink.results, NEW b \in u.sink.results,
               a.iteration = b.iteration, a.request = b.request, a.kind = "passedOver"
        PROVE  b.kind = "passedOver"
    <3>1. a \in t.sink.results /\ a.iteration # t.run.iteration
      BY <1>1, <2>2 DEF Present
    <3>2. b \in t.sink.results
      BY <3>1, <1>1, <2>2
    <3> QED BY <3>1, <3>2, <2>2 DEF Past
  <2>3. \A i \in 1 .. u.run.iteration - 1, q \in 1 .. plan[u.id].requests : IsToldOf(u, i, q)
    BY <1>0, <1>1 DEF Past, IsToldOf
  <2> QED BY <2>1, <2>2, <2>3 DEF Past
<1>4. Present(u, Lanes(u.id) \ {w})
  <2>1. ASSUME NEW q \in 1 .. plan[u.id].requests
        PROVE  u.run.isHalted \/ q \in Queued(u) \/ q \in u.run.passedOver \/ q \in u.run.attempted
    BY <1>0 DEF Present, KeepsBooks
  <2>2. ASSUME NEW q \in u.run.attempted
        PROVE  \/ IsToldOf(u, u.run.iteration, q)
               \/ \E v \in Lanes(u.id) \ {w} : IsBusy(u.run.lanes[v]) /\ u.run.lanes[v].request = q
    <3>1. CASE q = t.run.lanes[w].request
      BY <3>1, <1>0, <1>1 DEF IsToldOf
    <3>2. CASE q # t.run.lanes[w].request
      BY <3>2, <1>0, <1>1 DEF Present, IsToldOf
    <3> QED BY <3>1, <3>2
  <2>3. \A d \in u.sink.results :
          d.iteration = u.run.iteration => d.kind # "passedOver" /\ d.request \in u.run.attempted
    BY <1>0, <1>1, <1>2 DEF Present
  <2>4. \A v \in Lanes(u.id) : IsBusy(u.run.lanes[v]) => u.run.lanes[v].request \in u.run.attempted
    BY <1>0 DEF Present
  <2> QED BY <2>1, <2>2, <2>3, <2>4 DEF Present
<1> QED BY <1>3, <1>4

(* The end of the iteration tells of what was passed over. *)
LEMMA WrappedTells ==
    ASSUME PlanType, NEW t, IsTurn(t), NEW v, Wrapped(t, v), AllLanesAreDone(t), ~t.run.isStopped,
           Past(t), Present(t, Lanes(t.id)), t.run.queue = <<>> \/ t.run.isHalted
    PROVE  /\ Past(v)
           /\ t.run.isHalted \/ \A q \in 1 .. plan[t.id].requests : IsToldOf(v, t.run.iteration, q)
<1>0. /\ v.id = t.id /\ v.run = t.run /\ t.run.iteration \in Nat
      /\ v.sink.results = t.sink.results \union PassedOverResults(t)
  BY IterationTypes DEF Wrapped
<1>1. \A e \in PassedOverResults(t) :
        /\ e.run = t.id /\ e.iteration = t.run.iteration /\ e.kind = "passedOver"
        /\ e.request \in t.run.passedOver \ t.run.attempted
  <2>1. \A q : LET e == Result(t, q, "passedOver")
               IN  e.run = t.id /\ e.iteration = t.run.iteration /\ e.kind = "passedOver" /\ e.request = q
    BY DEF Result
  <2> QED BY <2>1 DEF PassedOverResults
<1>2. \A q \in t.run.passedOver \ t.run.attempted :
        \E e \in PassedOverResults(t) : e.iteration = t.run.iteration /\ e.request = q
  <2>1. \A q : LET e == Result(t, q, "passedOver") IN e.iteration = t.run.iteration /\ e.request = q
    BY DEF Result
  <2> QED BY <2>1 DEF PassedOverResults
<1>3. Past(v)
  <2>1. \A e \in v.sink.results : e.run = v.id /\ e.iteration <= v.run.iteration
    BY <1>0, <1>1 DEF Past
  <2>2. ASSUME NEW a \in v.sink.results, NEW b \in v.sink.results,
               a.iteration = b.iteration, a.request = b.request, a.kind = "passedOver"
        PROVE  b.kind = "passedOver"
    <3>1. CASE b \in PassedOverResults(t)
      BY <3>1, <1>1
    <3>2. CASE b \in t.sink.results /\ a \in t.sink.results
      BY <3>2, <2>2 DEF Past
    <3>3. CASE b \in t.sink.results /\ a \in PassedOverResults(t)
      <4>1. b.iteration = t.run.iteration /\ b.request \notin t.run.attempted
        BY <3>3, <2>2, <1>1
      <4> QED BY <3>3, <4>1 DEF Present
    <3> QED BY <3>1, <3>2, <3>3, <1>0
  <2>3. \A i \in 1 .. v.run.iteration - 1, q \in 1 .. plan[v.id].requests : IsToldOf(v, i, q)
    BY <1>0 DEF Past, IsToldOf
  <2> QED BY <2>1, <2>2, <2>3 DEF Past
<1>4. ASSUME ~t.run.isHalted, NEW q \in 1 .. plan[t.id].requests
      PROVE  IsToldOf(v, t.run.iteration, q)
  <2>1. q \notin Queued(t)
    BY <1>4 DEF Queued
  <2>2. \A w \in Lanes(t.id) : ~IsBusy(t.run.lanes[w])
    BY DEF AllLanesAreDone, IsBusy
  <2>3. CASE q \in t.run.attempted
    BY <2>2, <2>3, <1>0 DEF Present, IsToldOf
  <2>4. CASE q \in t.run.passedOver \ t.run.attempted
    BY <2>4, <1>0, <1>2 DEF IsToldOf
  <2> QED BY <2>1, <2>3, <2>4, <1>4 DEF Present
<1> QED BY <1>3, <1>4

LEMMA AfterLanesTells ==
    ASSUME PlanType, NEW t, IsTurn(t), NEW u, u = AfterLanes(t), ~t.run.isStopped, ~t.run.isOver,
           t.run.iteration \in 1 .. IterationCount(t.id),
           Past(t), Present(t, Lanes(t.id)),
           AllLanesAreDone(t) => t.run.queue = <<>> \/ t.run.isHalted
    PROVE  u.run.iteration \in 1 .. IterationCount(u.id) /\ Tells(u)
<1>0. t.run.iteration \in Nat /\ IterationCount(t.id) \in Nat
  BY IterationTypes
<1>1. CASE u = t
  BY <1>1 DEF Tells
<1>2. ASSUME AllLanesAreDone(t), IsTurn(u), NEW v, Wrapped(t, v),
             \/ Advances(v, u)
             \/ EndsTask(v, u) /\ (t.run.isStopped \/ t.run.isHalted \/ t.run.iteration >= IterationCount(t.id))
      PROVE  u.run.iteration \in 1 .. IterationCount(u.id) /\ Tells(u)
  <2>1. IsTurn(v) /\ v.id = t.id /\ v.run = t.run
    BY <1>2 DEF Wrapped
  <2>2. /\ Past(v)
        /\ t.run.isHalted \/ \A q \in 1 .. plan[t.id].requests : IsToldOf(v, t.run.iteration, q)
    BY <1>2, WrappedTells
  <2>3. CASE Advances(v, u)
    <3>1. ~t.run.isHalted /\ u.id = t.id /\ u.run.iteration = t.run.iteration + 1 /\ ~u.run.isOver
          /\ t.run.iteration < IterationCount(t.id)
      BY <2>1, <2>3 DEF Advances
    <3>2. IsTelling(v)
      <4>1. \A i \in 1 .. v.run.iteration, q \in 1 .. plan[v.id].requests : IsToldOf(v, i, q)
        BY <1>0, <2>1, <2>2, <3>1 DEF Past
      <4> QED BY <4>1, <2>2 DEF Past, IsTelling
    <3>3. Past(u) /\ Present(u, Lanes(u.id))
      BY <1>2, <2>1, <2>3, <3>2, AdvanceTells
    <3> QED BY <1>0, <3>1, <3>3 DEF Tells
  <2>4. CASE EndsTask(v, u) /\ (t.run.isHalted \/ t.run.iteration >= IterationCount(t.id))
    <3>1. /\ u.id = t.id /\ u.run.iteration = t.run.iteration /\ u.run.isOver = TRUE
          /\ u.run.isHalted = t.run.isHalted /\ u.sink.results = v.sink.results
      BY <2>1, <2>4 DEF EndsTask
    <3>2. Past(u)
      BY <2>1, <2>2, <3>1 DEF Past, IsToldOf
    <3>3. IsReported(u)
      BY <2>2, <2>4, <3>1 DEF IsReported, IsToldOf
    <3> QED BY <3>1, <3>2, <3>3 DEF Tells
  <2> QED BY <1>2, <2>3, <2>4
<1> QED BY <1>1, <1>2, AfterLanesFacts

LEMMA TakeNextEnds ==
    ASSUME PlanType, NEW t, IsTurn(t), NEW w \in Lanes(t.id), ~t.run.isStopped, ~t.run.isOver,
           t.run.iteration \in 1 .. IterationCount(t.id), Past(t), Present(t, Lanes(t.id) \ {w}),
           NEW u, u = AfterLanes(TakeNext(t, w))
    PROVE  u.run.iteration \in 1 .. IterationCount(u.id) /\ Tells(u)
<1>1. PICK v : v = TakeNext(t, w)
  OBVIOUS
<1>2. Takes(t, v, w)
  BY <1>1, TakeNextFacts
<1>3. /\ Past(v) /\ Present(v, Lanes(v.id))
      /\ v.run.lanes[w].at = "done" => v.run.queue = <<>> \/ v.run.isHalted
  BY <1>2, TakeNextTells
<1>4. /\ IsTurn(v) /\ v.id = t.id /\ v.run.iteration = t.run.iteration
      /\ ~v.run.isStopped /\ ~v.run.isOver
  BY <1>2 DEF Takes, Quiet
<1>5. AllLanesAreDone(v) => v.run.queue = <<>> \/ v.run.isHalted
  BY <1>3, <1>4 DEF AllLanesAreDone
<1> QED BY <1>1, <1>3, <1>4, <1>5, AfterLanesTells

(* Whatever a lane of the latest run does, the run goes on telling. *)
LEMMA EffectTells ==
    ASSUME PlanType, MaxFlowSteps \in Nat, NEW t, IsTurn(t), NEW w \in Lanes(t.id), NEW u,
           LaneEffect(t, u, w) \/ (IsBusy(t.run.lanes[w]) /\ u = MoveTo(t, w, "asking")),
           ~t.run.isStopped, ~t.run.isOver,
           t.run.iteration \in 1 .. IterationCount(t.id), Past(t), Present(t, Lanes(t.id))
    PROVE  u.run.iteration \in 1 .. IterationCount(u.id) /\ Tells(u)
<1>1. ASSUME IsBusy(t.run.lanes[w]), NEW outcome \in OutcomeOf(t.id), u = AfterOutcome(t, w, outcome)
      PROVE  u.run.iteration \in 1 .. IterationCount(u.id) /\ Tells(u)
  <2>1. PICK v : /\ HasOutcome(t, v, w)
                 /\ u = MoveTo(v, w, "pausing") \/ u = AfterLanes(TakeNext(v, w))
    <3>1. \/ t.run.isStopped /\ u = AfterLanes([t EXCEPT !.run.lanes[w] = IdleLane])
          \/ /\ ~t.run.isStopped
             /\ \E v : /\ HasOutcome(t, v, w)
                       /\ u = MoveTo(v, w, "pausing") \/ u = AfterLanes(TakeNext(v, w))
      BY <1>1, AfterOutcomeFacts
    <3> QED BY <3>1, Zenon
  <2>2. /\ IsTurn(v) /\ v.id = t.id /\ v.run.iteration = t.run.iteration
        /\ ~v.run.isStopped /\ ~v.run.isOver
    BY <2>1 DEF HasOutcome, Quiet
  <2>3. Past(v) /\ Present(v, Lanes(v.id) \ {w})
    BY <1>1, <2>1, OutcomeTells
  <2>4. CASE u = MoveTo(v, w, "pausing")
    <3>1. "pausing" \in Stages
      BY DEF Stages
    <3>2. Moves(v, u, w, "pausing")
      BY <2>2, <2>4, <3>1, MoveToFacts
    <3>3. Past(u) /\ Present(u, Lanes(u.id))
      BY <2>2, <2>3, <3>2, MoveToTells
    <3> QED BY <2>2, <3>2, <3>3 DEF Moves, Quiet, Tells
  <2>5. CASE u = AfterLanes(TakeNext(v, w))
    BY <2>2, <2>3, <2>5, TakeNextEnds
  <2> QED BY <2>1, <2>4, <2>5
<1>2. ASSUME IsBusy(t.run.lanes[w]), NEW stage \in Stages \ {"done", "pausing"}, u = MoveTo(t, w, stage)
      PROVE  u.run.iteration \in 1 .. IterationCount(u.id) /\ Tells(u)
  <2>1. Moves(t, u, w, stage)
    BY <1>2, MoveToFacts
  <2>2. Past(u) /\ Present(u, Lanes(u.id))
    BY <1>2, <2>1, MoveToTells
  <2> QED BY <2>1, <2>2 DEF Moves, Quiet, Tells
<1>3. ASSUME t.run.lanes[w].at = "pausing", u = AfterLanes(TakeNext(t, w))
      PROVE  u.run.iteration \in 1 .. IterationCount(u.id) /\ Tells(u)
  <2>1. Present(t, Lanes(t.id) \ {w})
    BY <1>3 DEF Present, IsBusy
  <2> QED BY <1>3, <2>1, TakeNextEnds
<1>4. "asking" \in Stages \ {"done", "pausing"}
  BY DEF Stages
<1> QED BY <1>1, <1>2, <1>3, <1>4 DEF LaneEffect

-----------------------------------------------------------------------------
(* The theorem about the results *)

(* What a run tells depends on its books and its results. *)
LEMMA SameTells ==
    ASSUME NEW t, NEW u, u.id = t.id, u.sink.results = t.sink.results,
           u.run.isHalted = t.run.isHalted, u.run.isOver = t.run.isOver, u.run.iteration = t.run.iteration,
           u.run.queue = t.run.queue, u.run.lanes = t.run.lanes,
           u.run.passedOver = t.run.passedOver, u.run.attempted = t.run.attempted
    PROVE  Tells(t) => Tells(u)
<1>1. Queued(u) = Queued(t) /\ \A i, q : IsToldOf(u, i, q) <=> IsToldOf(t, i, q)
  BY DEF Queued, IsToldOf
<1>2. Past(t) => Past(u)
  BY <1>1 DEF Past
<1>3. Present(t, Lanes(t.id)) => Present(u, Lanes(u.id))
  BY <1>1 DEF Present
<1> QED BY <1>1, <1>2, <1>3 DEF Tells, IsReported

LEMMA TellsNext ==
    ASSUME NEW r, plan' = plan, NEW t, Tells(t),
           t.id = r, t.run = runs'[r], t.sink = sink'[plan[r].runner]
    PROVE  Tells(TurnOf(r))'
<1> DEFINE c == TurnOf(r)
<1>1. c'.id = r /\ c'.run = t.run /\ c'.sink = t.sink
  BY DEF TurnOf
<1>2. Lanes(r)' = Lanes(r) /\ IterationCount(r)' = IterationCount(r)
  BY SamePlan
<1>3. \A i, q : IsToldOf(c, i, q)' <=> IsToldOf(t, i, q)
  BY <1>1 DEF IsToldOf
<1>4. Past(t) => Past(c)'
  BY <1>1, <1>3 DEF Past
<1>5. Queued(c)' = Queued(t)
  BY <1>1 DEF Queued
<1>6. Present(t, Lanes(t.id)) => Present(c, Lanes(c.id))'
  BY <1>1, <1>2, <1>3, <1>5 DEF Present
<1>7. IsReported(t) => IsReported(c)'
  BY <1>1, <1>2, <1>3 DEF IsReported
<1> QED BY <1>1, <1>4, <1>6, <1>7 DEF Tells

LEMMA OthersTell ==
    ASSUME NEW q, plan' = plan, runs'[q] = runs[q],
           sink'[plan[q].runner].results = sink[plan[q].runner].results, Tells(TurnOf(q))
    PROVE  Tells(TurnOf(q))'
<1>1. PICK c : c = [id |-> q, run |-> runs'[q], session |-> session, sink |-> sink'[plan[q].runner]]
  OBVIOUS
<1>2. c.id = q /\ c.run = runs'[q] /\ c.sink = sink'[plan[q].runner]
  BY <1>1
<1>3. PICK t : t = TurnOf(q)
  OBVIOUS
<1>4. t.id = q /\ t.run = runs[q] /\ t.sink = sink[plan[q].runner] /\ Tells(t)
  BY <1>3 DEF TurnOf
<1>5. Tells(c)
  BY <1>2, <1>4, SameTells
<1> QED BY <1>2, <1>5, TellsNext

LEMMA LaneMoveKeepsTelling ==
    ASSUME RunnerAssumption, RunnerTypes, LaneInv, SinkInv, TellInv,
           NEW r, NEW w, NEW value, NEW s, NEW t, NEW u, LaneMoves(r, w, value, s, t, u)
    PROVE  TellInv'
<1>p. plan' = plan
  BY DEF LaneMoves
<1>0. /\ r \in RunIds /\ w \in Lanes(r) /\ IsTurn(t) /\ t.id = r /\ t.sink = sink[plan[r].runner]
      /\ t.run.isStopped = runs[r].isStopped /\ t.run.isOver = runs[r].isOver
      /\ t.run.isHalted = runs[r].isHalted /\ t.run.iteration = runs[r].iteration /\ t.run.lanes = runs[r].lanes
      /\ Passes(t, u, w) /\ IsCommitted(r, value, u)
      /\ HasStarted(r) /\ ~runs[r].isOver
  BY LaneMoveFacts
<1>1. /\ runs'[r] = u.run /\ \A q \in RunIds : q # r => runs'[q] = runs[q]
      /\ sink'[plan[r].runner] = u.sink /\ \A x \in Runners : x # plan[r].runner => sink'[x] = sink[x]
  BY <1>0 DEF IsCommitted
<1>2. /\ RunIds' = RunIds /\ (\A x : Latest(x)' = Latest(x)) /\ IterationCount(r)' = IterationCount(r)
      /\ \A q : IterationCount(q)' = IterationCount(q)
  BY <1>p, LaneMoveKeepsSinks, SameLatest, SamePlan
<1>3. ASSUME NEW q \in RunIds, q \in Latest(plan[q].runner), ~runs'[q].isStopped
      PROVE  runs'[q].iteration \in 1 .. IterationCount(q) /\ Tells(TurnOf(q))'
  <2>1. CASE q # r
    <3>1. runs'[q] = runs[q] /\ plan[q].runner \in Runners
      BY <2>1, <1>1, PlanFacts DEF RunnerTypes
    <3>2. runs[q].iteration \in 1 .. IterationCount(q) /\ Tells(TurnOf(q))
      BY <3>1, <1>3 DEF TellInv
    <3>3. sink'[plan[q].runner].results = sink[plan[q].runner].results
      <4>1. CASE plan[q].runner # plan[r].runner
        BY <4>1, <3>1, <1>1
      <4>2. CASE plan[q].runner = plan[r].runner
        <5>1. ~IsGoing(r)
          BY <4>2, <2>1, <1>0, <1>3, GoingIsLatest, OneLatest
        <5>2. t.run.isStopped
          BY <5>1, <1>0 DEF IsGoing
        <5> QED BY <4>2, <5>2, <1>0, <1>1 DEF Passes
      <4> QED BY <4>1, <4>2
    <3> QED BY <3>1, <3>2, <3>3, <1>p, OthersTell
  <2>2. CASE q = r
    <3>1. ~runs[r].isStopped
      BY <2>2, <1>0, <1>1, <1>3 DEF Passes
    <3>2. runs[r].iteration \in 1 .. IterationCount(r) /\ Tells(TurnOf(r))
      BY <2>2, <3>1, <1>3 DEF TellInv
    <3>3. /\ t.run.queue = runs[r].queue
          /\ t.run.passedOver = runs[r].passedOver /\ t.run.attempted = runs[r].attempted
      <4>1. s = Written(TurnOf(r), value) /\ Prompting(s, t)
        BY DEF LaneMoves
      <4>2. s.run = runs[r]
        BY <4>1, <1>0, TurnOfFacts DEF LaneMoves
      <4> QED BY <4>1, <4>2 DEF Prompting
    <3>4. Tells(t)
      <4>1. PICK c : c = TurnOf(r)
        OBVIOUS
      <4>2. c.id = r /\ c.run = runs[r] /\ c.sink = sink[plan[r].runner] /\ Tells(c)
        BY <3>2, <4>1 DEF TurnOf
      <4> QED BY <4>2, <3>3, <1>0, SameTells
    <3>5. Past(t) /\ Present(t, Lanes(t.id))
      BY <3>4, <1>0 DEF Tells
    <3>6. LaneEffect(t, u, w) \/ (IsBusy(t.run.lanes[w]) /\ u = MoveTo(t, w, "asking"))
      BY <1>0 DEF LaneMoves, AskStep, IsBusy
    <3>7. PlanType /\ MaxFlowSteps \in Nat
      BY DEF RunnerTypes, RunnerAssumption
    <3>8. u.run.iteration \in 1 .. IterationCount(u.id) /\ Tells(u)
      BY <3>1, <3>2, <3>5, <3>6, <3>7, <1>0, EffectTells
    <3>9. u.id = r
      BY <1>0 DEF Passes
    <3> QED BY <2>2, <3>8, <3>9, <1>p, <1>1, TellsNext
  <2> QED BY <2>1, <2>2
<1> QED BY <1>p, <1>2, <1>3 DEF TellInv

LEMMA StartKeepsTelling ==
    ASSUME RunnerTypes, LaneInv, AskInv, SinkInv, TellInv, NEW r \in RunIds, StartRun(r)
    PROVE  TellInv'
<1> DEFINE k == plan[r].runner
           t == Begun(r)
           u == BeginIteration(t)
<1>0. Starts(r, t, u)
  BY StartFacts
<1> HIDE DEF t, u
<1>1. /\ plan' = plan /\ IsCommitted(r, Nothing, u) /\ IsTurn(t) /\ IsTurn(u) /\ Advances(t, u)
      /\ t.id = r /\ u.id = r /\ t.run = NewRun(r, session) /\ t.sink.results = {}
      /\ u.run.iteration = 1 /\ u.run.isOver = FALSE /\ RunnerTypes'
  BY <1>0 DEF Starts
<1>2. /\ runs'[r] = u.run /\ \A q \in RunIds : q # r => runs'[q] = runs[q]
      /\ sink'[k] = u.sink /\ \A x \in Runners : x # k => sink'[x] = sink[x]
  BY <1>1 DEF IsCommitted
<1>3. /\ SinkInv' /\ r \in Latest(k)' /\ \A x \in Runners : x # k => Latest(x)' = Latest(x)
  BY StartKeepsSinks
<1>4. RunIds' = RunIds /\ \A q : IterationCount(q)' = IterationCount(q)
  BY <1>1, SamePlan
<1>5. ASSUME NEW q \in RunIds, q \in Latest(plan[q].runner)', ~runs'[q].isStopped
      PROVE  runs'[q].iteration \in 1 .. IterationCount(q) /\ Tells(TurnOf(q))'
  <2>1. CASE q = r
    <3>1. t.run.iteration = 0
      BY <1>1 DEF NewRun
    <3>2. IsTelling(t)
      BY <3>1, <1>1 DEF IsTelling
    <3>3. Past(u) /\ Present(u, Lanes(u.id))
      BY <3>2, <1>1, AdvanceTells DEF RunnerTypes
    <3>4. Tells(u)
      BY <3>3, <1>1 DEF Tells
    <3>5. IterationCount(r) \in Nat \ {0}
      BY PlanFacts DEF RunnerTypes
    <3> QED BY <2>1, <3>4, <3>5, <1>1, <1>2, TellsNext
  <2>2. CASE q # r
    <3>1. plan[q].runner \in Runners
      BY PlanFacts DEF RunnerTypes
    <3>2. plan[q].runner # k
      <4>1. \A a, b \in Latest(k)' : a = b
        <5>1. \A a, b \in RunIds : a < b \/ b < a \/ a = b
          BY PlanFacts DEF RunnerTypes
        <5> QED BY <5>1, <1>1, <1>4 DEF Latest
      <4>2. plan[q].runner = k => q \in Latest(k)'
        BY <1>1, <1>5 DEF Latest
      <4> QED BY <4>1, <4>2, <2>2, <1>3
    <3>3. /\ runs'[q] = runs[q] /\ sink'[plan[q].runner] = sink[plan[q].runner]
          /\ q \in Latest(plan[q].runner)
      BY <2>2, <3>1, <3>2, <1>1, <1>2, <1>3, <1>5
    <3>4. runs[q].iteration \in 1 .. IterationCount(q) /\ Tells(TurnOf(q))
      BY <3>3, <1>5 DEF TellInv
    <3> QED BY <3>3, <3>4, <1>1, OthersTell
  <2> QED BY <2>1, <2>2
<1> QED BY <1>1, <1>4, <1>5 DEF TellInv

LEMMA StopKeepsTelling ==
    ASSUME RunnerTypes, SinkInv, TellInv, NEW r, NEW u, Stops(r, u)
    PROVE  TellInv'
<1>1. /\ r \in RunIds /\ plan' = plan /\ IsCommitted(r, Nothing, u)
      /\ u.run = [runs[r] EXCEPT !.isStopped = TRUE, !.given = Nothing]
      /\ u.sink.results = sink[plan[r].runner].results
  BY DEF Stops
<1>2. /\ runs'[r] = u.run /\ \A q \in RunIds : q # r => runs'[q] = runs[q]
      /\ sink'[plan[r].runner] = u.sink /\ \A x \in Runners : x # plan[r].runner => sink'[x] = sink[x]
  BY <1>1 DEF IsCommitted
<1>3. runs'[r].isStopped
  <2>1. runs[r] \in RunRecord(r)
    BY <1>1 DEF RunnerTypes
  <2> QED BY <2>1, <1>1, <1>2 DEF RunRecord
<1>4. /\ RunIds' = RunIds /\ (\A x : Latest(x)' = Latest(x)) /\ \A q : IterationCount(q)' = IterationCount(q)
  BY <1>1, StopKeepsSinks, SamePlan
<1>5. ASSUME NEW q \in RunIds, q \in Latest(plan[q].runner), ~runs'[q].isStopped
      PROVE  runs'[q].iteration \in 1 .. IterationCount(q) /\ Tells(TurnOf(q))'
  <2>1. q # r /\ runs'[q] = runs[q] /\ plan[q].runner \in Runners
    BY <1>2, <1>3, <1>5, PlanFacts DEF RunnerTypes
  <2>2. sink'[plan[q].runner].results = sink[plan[q].runner].results
    BY <2>1, <1>1, <1>2
  <2>3. runs[q].iteration \in 1 .. IterationCount(q) /\ Tells(TurnOf(q))
    BY <2>1, <1>5 DEF TellInv
  <2> QED BY <2>1, <2>2, <2>3, <1>1, OthersTell
<1> QED BY <1>1, <1>4, <1>5 DEF TellInv

LEMMA RestKeepsTelling ==
    ASSUME RunnerTypes, SinkInv, TellInv, plan' = plan, runs' = runs, sink' = sink, current' = current
    PROVE  SinkInv' /\ TellInv'
<1>1. \A q : (HasStarted(q)' <=> HasStarted(q)) /\ (IsGoing(q)' <=> IsGoing(q))
  BY DEF HasStarted, IsGoing
<1>2. /\ RunIds' = RunIds /\ (\A x : Latest(x)' = Latest(x)) /\ \A q : IterationCount(q)' = IterationCount(q)
  BY <1>1, SameLatest, SamePlan
<1>3. \A x \in Runners : (sink[x].isRunning <=> current[x] # 0 /\ IsGoing(current[x]))'
  BY <1>1 DEF SinkInv, IsGoing, HasStarted
<1>4. SinkInv'
  BY <1>1, <1>2, <1>3 DEF SinkInv, Runners
<1>5. ASSUME NEW q \in RunIds, q \in Latest(plan[q].runner), ~runs[q].isStopped
      PROVE  runs'[q].iteration \in 1 .. IterationCount(q) /\ Tells(TurnOf(q))'
  <2>1. runs[q].iteration \in 1 .. IterationCount(q) /\ Tells(TurnOf(q))
    BY <1>5 DEF TellInv
  <2> QED BY <2>1, OthersTell
<1>6. TellInv'
  BY <1>2, <1>5 DEF TellInv
<1> QED BY <1>4, <1>6

LEMMA StepKeepsTelling ==
    ASSUME RunnerAssumption, RunnerInv, [RunnerNext]_runnerVars
    PROVE  RunnerInv'
<1>0. RowInv /\ RunnerTypes /\ LaneInv /\ AskInv /\ SinkInv /\ TellInv
  BY DEF RunnerInv, RowInv
<1>1. RowInv'
  BY <1>0, StepKeepsRows
<1>2. CASE IsLaneStep
  <2>1. PICK r, w, value, s, t, u : LaneMoves(r, w, value, s, t, u)
    BY <1>2 DEF IsLaneStep
  <2> QED BY <2>1, <1>0, <1>1, LaneMoveKeepsSinks, LaneMoveKeepsTelling DEF RunnerInv
<1>3. ASSUME NEW r \in RunIds, StartRun(r) PROVE RunnerInv'
  BY <1>0, <1>1, <1>3, StartKeepsSinks, StartKeepsTelling DEF RunnerInv
<1>4. CASE Stop
  <2>1. PICK r, u : Stops(r, u)
    BY <1>0, <1>4, StopFacts
  <2> QED BY <2>1, <1>0, <1>1, StopKeepsSinks, StopKeepsTelling DEF RunnerInv
<1>5. CASE ClearSessionVariables
  <2>1. plan' = plan /\ runs' = runs /\ sink' = sink /\ current' = current
    BY <1>5 DEF ClearSessionVariables
  <2> QED BY <2>1, <1>0, <1>1, RestKeepsTelling DEF RunnerInv
<1>6. CASE UNCHANGED runnerVars
  <2>1. plan' = plan /\ runs' = runs /\ sink' = sink /\ current' = current
    BY <1>6 DEF runnerVars
  <2> QED BY <2>1, <1>0, <1>1, RestKeepsTelling DEF RunnerInv
<1> QED BY <1>0, <1>2, <1>3, <1>4, <1>5, <1>6, NextCases

LEMMA TellingInitially ==
    ASSUME RunnerAssumption, RunnerInit
    PROVE  RunnerInv
<1>1. RowInv
  BY RunnerInitially
<1>2. /\ runs = [r \in RunIds |-> NewRun(r, Forgotten)] /\ current = [x \in Runners |-> 0]
      /\ sink = [x \in Runners |-> [isRunning |-> FALSE, results |-> {}]]
  BY DEF RunnerInit, RunIds
<1>3. ASSUME NEW r \in RunIds PROVE ~HasStarted(r) /\ ~IsGoing(r)
  <2>1. runs[r] = NewRun(r, Forgotten)
    BY <1>2
  <2>2. runs[r].iteration = 0 /\ runs[r].isOver = FALSE
    BY <2>1 DEF NewRun
  <2> QED BY <2>2 DEF HasStarted, IsGoing
<1>4. \A x : Latest(x) = {}
  BY <1>3 DEF Latest
<1>5. \A x \in Runners : current[x] = 0 /\ sink[x].isRunning = FALSE /\ sink[x].results = {}
  BY <1>2
<1> QED BY <1>1, <1>3, <1>4, <1>5 DEF RunnerInv, SinkInv, TellInv

LEMMA TellingIsTold ==
    ASSUME RunnerInv
    PROVE  RunsAreTold
<1>0. RunnerTypes /\ AskInv /\ SinkInv /\ TellInv
  BY DEF RunnerInv, RowInv
<1>1. ASSUME NEW x \in Runners
      PROVE  sink[x].isRunning <=> \E r \in Latest(x) : IsGoing(r)
  <2>1. ASSUME sink[x].isRunning PROVE \E r \in Latest(x) : IsGoing(r)
    BY <1>0, <2>1 DEF SinkInv
  <2>2. ASSUME NEW r \in Latest(x), IsGoing(r) PROVE sink[x].isRunning
    <3>1. r \in RunIds /\ plan[r].runner = x
      BY DEF Latest
    <3>2. current[x] = r /\ r # 0
      BY <3>1, <2>2, <1>0, PlanFacts DEF SinkInv, RunnerTypes
    <3> QED BY <3>2, <2>2, <1>0 DEF SinkInv
  <2> QED BY <2>1, <2>2
<1>2. \A x \in Runners : \A e \in sink[x].results : e.run \in Latest(x)
  BY <1>0 DEF SinkInv
<1>3. ASSUME NEW r \in RunIds, runs[r].isOver, ~runs[r].isStopped, r \in Latest(plan[r].runner),
             NEW i \in 1 .. IterationCount(r), NEW q \in 1 .. plan[r].requests
      PROVE  LET results == sink[plan[r].runner].results
                 about == {e \in results : e.iteration = i /\ e.request = q}
             IN  /\ ~runs[r].isHalted => about # {}
                 /\ \A a, b \in about : a.kind = "passedOver" => b.kind = "passedOver"
  <2>1. PICK t : t = TurnOf(r)
    OBVIOUS
  <2>2. t.id = r /\ t.run = runs[r] /\ t.sink = sink[plan[r].runner]
    BY <2>1 DEF TurnOf
  <2>3. runs[r].iteration \in 1 .. IterationCount(r) /\ Past(t) /\ IsReported(t)
    BY <2>1, <2>2, <1>0, <1>3 DEF TellInv, Tells
  <2>4. IterationCount(r) \in Nat
    BY <1>0, PlanFacts DEF RunnerTypes
  <2>5. ~runs[r].isHalted => IsToldOf(t, i, q)
    BY <2>2, <2>3, <2>4 DEF Past, IsReported
  <2> QED BY <2>2, <2>3, <2>5 DEF Past, IsToldOf
<1>4. \A r \in RunIds : runs[r].asks <= 1
  BY <1>0 DEF AskInv
<1> QED BY <1>1, <1>2, <1>3, <1>4 DEF RunsAreTold

(* For any plans: a run that ended by itself has told of every request of  *)
(* every iteration, and of none as passed over that it sent; it has        *)
(* prompted once at most; a sink shows nothing of a run that is not its    *)
(* runner's last, and it says that a run is going exactly as long as one   *)
(* is (runIteration, follow, rememberPrompts, start and stop).             *)
THEOREM RunnerTells == RunnerSpec => []RunsAreTold
<1>1. RunnerInit => RunnerInv
  BY RunnerAssumption, TellingInitially
<1>2. RunnerInv /\ [RunnerNext]_runnerVars => RunnerInv'
  BY RunnerAssumption, StepKeepsTelling
<1>3. RunnerInv => RunsAreTold
  BY TellingIsTold
<1> QED BY <1>1, <1>2, <1>3, PTL DEF RunnerSpec

=============================================================================
