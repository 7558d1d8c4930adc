-------------------------------- MODULE Flows --------------------------------
(***************************************************************************)
(* A run of a flow: the engine that decides the next step                  *)
(* (lib/flows/engine.js) and the runner that carries it out                *)
(* (lib/flows/flowRunner.js), with loops, retries, nested flows, branches  *)
(* side by side and a stop at any moment.                                  *)
(*                                                                         *)
(* A task is one call of drive (the run itself, a nested flow) or one      *)
(* branch of a parallel step, named by the path of steps to it.  What      *)
(* the engine computes in one turn is one or more steps of its task, as    *)
(* nothing else can see them before the turn is adopted.  Conditions,      *)
(* responses, inputs and the lengths of lists are chosen.  Of the          *)
(* variables only the pass variable of Repeat is kept, in the layers it    *)
(* may be found in: given by a Run flow step, in the session, and in an    *)
(* environment or another layer beneath the session, which no request of   *)
(* the flow writes.  Flows and requests are not deleted while the run      *)
(* goes on.                                                                *)
(***************************************************************************)
EXTENDS Integers, FiniteSets, SequencesExt

CONSTANTS Programs,    \* flows to run, see below
          None, End,   \* no step; END_TARGET
          MaxQuiet,    \* MAX_QUIET_STEPS
          MaxItems     \* bound: length of a list

(* A program is [root, isSequential, values, limit, first, step]: the flow that is   *)
(* run, whether no branches run side by side, what the pass variable may hold at the *)
(* start in the session and beneath it, maxSends and the first step of each flow,    *)
(* and the steps by id, each with its kind, the one after it in its list, the        *)
(* container it is in and all that are around it, its targets and the fields of its  *)
(* kind.                                                                             *)

Kinds == {"request", "set", "choice", "forEach", "repeat", "flow", "parallel", "wait", "end"}
LoopKinds == {"forEach", "repeat"}

\* what indexSteps and validateFlow make sure of: lists and containers form a tree, a jump
\* does not lead into a container, loops are not empty and branches are requests or flows
IsValid(p, id) ==
  LET s == p.step[id]
      around(other) == p.step[other].around
  IN  /\ s.kind \in Kinds
      /\ {s.hasUntil, s.isPaused, s.isTimed} \subseteq BOOLEAN /\ {s.times, s.attempts} \subseteq Nat \ {0}
      /\ IF s.parent = None THEN s.around = {}
         ELSE /\ s.parent \in DOMAIN p.step /\ p.step[s.parent].kind \in LoopKinds \cup {"parallel"}
              /\ s.around = {s.parent} \cup around(s.parent)
      /\ id \notin s.around /\ \A other \in s.around : other \in DOMAIN p.step /\ around(other) \subseteq s.around
      /\ s.after = None \/ (s.after \in DOMAIN p.step /\ p.step[s.after].parent = s.parent)
      /\ \A target \in {s.next, s.onFailure} \cup s.targets :
           target \in {None, End} \/ (target \in DOMAIN p.step /\ around(target) \subseteq s.around)
      /\ s.kind \in LoopKinds => s.inner \in DOMAIN p.step /\ p.step[s.inner].parent = id
      /\ s.kind = "flow" => s.called \in DOMAIN p.first /\ s.gives \in Nat
      /\ s.kind = "parallel" =>
           /\ IsFiniteSet(s.branches) /\ ~p.isSequential
           /\ \A b \in s.branches : b \in DOMAIN p.step /\ p.step[b].kind \in {"request", "flow"}

ASSUME FlowsAssumption ==
  /\ {MaxQuiet, MaxItems} \subseteq Nat \ {0} /\ None # End
  /\ \A p \in Programs :
       /\ p.isSequential \in BOOLEAN /\ p.values \subseteq Nat \X Nat
       /\ p.root \in DOMAIN p.first /\ p.limit \in [DOMAIN p.first -> Nat \ {0}]
       /\ None \notin DOMAIN p.step /\ End \notin DOMAIN p.step
       /\ \A f \in DOMAIN p.first : p.first[f] \in DOMAIN p.step /\ p.step[p.first[f]].parent = None
       /\ \A id \in DOMAIN p.step : IsValid(p, id)

VARIABLES
  program,
  tasks,      \* the tasks by the path of steps that leads to them; <<>> is the run
  flowStatus, \* what the tab shows of the run
  flowSends,  \* run.sends, up to one above the limit
  session,    \* the pass variable in the session
  beneath,    \* the pass variable in the layers beneath the session
  before,     \* ghost: what it was resolved to when the run started
  uncounted,  \* ghost: sends of a cancelled branch were left out of the count
  quietJoin   \* ghost: a parallel step that had sent nothing began the count of quiet steps anew

flVars == <<program, tasks, flowStatus, flowSends, session, beneath, before, uncounted, quietJoin>>

StepOf(id) == program.step[id]
Kind(id) == StepOf(id).kind

LoopsAround(id) == StepOf(id).around

\* values of the pass variable: none, one of the user's in the session, in an environment or
\* in a Run flow step, the number of a pass
Absent == 0
InSession == 1
InEnvironment == 2
InStep == 3
Pass(index) == 4 + index

\* context of a turn: the layers, of which the last that has the variable counts
Merged(given, inSession) ==
  IF given # Absent THEN given ELSE IF inSession # Absent THEN inSession ELSE beneath

\* what a turn writes to the variable, where a variable that is forgotten is absent
NoChange == [isWritten |-> FALSE, value |-> Absent]
Written(v) == [isWritten |-> TRUE, value |-> v]
After(value, change) == IF change.isWritten THEN change.value ELSE value

\* a task that drives a flow, and what its first turn reads
Driver(flow, left, given, value) ==
  [isDriver |-> TRUE, flow |-> flow, left |-> left, given |-> given, isCancelled |-> FALSE,
   phase |-> "begin", at |-> program.first[flow], frames |-> <<>>, attempt |-> 1, sends |-> 0,
   quiet |-> 0, seen |-> value, change |-> NoChange, action |-> "none",
   made |-> 0, outcome |-> "none", isOverBudget |-> FALSE, isAsked |-> FALSE, isStopping |-> FALSE]

\* a branch that sends one request
Sender(step) ==
  [isDriver |-> FALSE, isCancelled |-> FALSE, phase |-> "sendable", at |-> step, made |-> 0,
   outcome |-> "none", isOverBudget |-> FALSE, isAsked |-> FALSE]

Ancestors(n) == {SubSeq(n, 1, k) : k \in 0..Len(n)}
Children(n) == {m \in DOMAIN tasks : Len(m) = Len(n) + 1 /\ SubSeq(m, 1, Len(n)) = n}

\* isLive: the run goes on and no branch around the task has been cancelled
IsLive(n) ==
  flowStatus = "running" /\ \A m \in Ancestors(n) \cap DOMAIN tasks : ~tasks[m].isCancelled

FlInit ==
  /\ program \in Programs
  /\ \E value \in program.values : session = value[1] /\ beneath = value[2]
  /\ before = Merged(Absent, session)
  /\ tasks = [n \in {<<>>} |-> Driver(program.root, program.limit[program.root], Absent, before)]
  /\ flowStatus = "running" /\ flowSends = 0 /\ uncounted = FALSE /\ quietJoin = FALSE

-----------------------------------------------------------------------------
(* The engine: what happens to the state of a task within one turn *)

SendLimit(t) == IF program.limit[t.flow] < t.left THEN program.limit[t.flow] ELSE t.left

Value(t) == After(t.seen, t.change)

\* Faulty: the pass variable is always removed.
CloseLoopForgetting(t, frame) ==
  IF Kind(frame.step) # "repeat" THEN t ELSE [t EXCEPT !.change = Written(Absent)]

\* closeLoop: a Repeat puts into the session what its pass variable hid in whatever layer,
\* or removes it
CloseLoop(t, frame) ==
  IF Kind(frame.step) # "repeat" THEN t
  ELSE [t EXCEPT !.change = Written(frame.hid)]

\* leaveLoops, from the innermost loop outwards: what the outermost Repeat gives back remains
LeaveLoops(t, kept) ==
  LET repeats == {i \in kept + 1 .. Len(t.frames) : Kind(t.frames[i].step) = "repeat"}
      closed  == IF repeats = {} THEN t ELSE CloseLoop(t, t.frames[Min(repeats)])
  IN  [closed EXCEPT !.frames = SubSeq(t.frames, 1, kept)]

Finished(t, outcome) ==
  [LeaveLoops(t, 0) EXCEPT !.phase = "decided", !.action = "done", !.outcome = outcome]

OverBudget(t) == [Finished(t, "failed") EXCEPT !.isOverBudget = TRUE]

\* enter: loops that are not around the step are left
Enter(t, id) ==
  LET outside == {i \in 1..Len(t.frames) : t.frames[i].step \notin LoopsAround(id)}
      inside  == IF outside = {} THEN t ELSE LeaveLoops(t, Min(outside) - 1)
  IN  [inside EXCEPT !.at = id, !.attempt = 1, !.phase = "run"]

GoTo(t, target) ==
  CASE target = End -> Finished(t, "passed")
    [] target = None -> [t EXCEPT !.phase = "follow"]
    [] OTHER -> Enter(t, target)

\* continueAfter(step, target)
ContinueAfter(t, target) == GoTo(t, IF target # None THEN target ELSE StepOf(t.at).next)

\* failOrReroute, inputsFailed and the ends of afterSend and afterFlow
FailOrReroute(t) ==
  IF StepOf(t.at).onFailure # None THEN GoTo(t, StepOf(t.at).onFailure) ELSE Finished(t, "failed")

BeginPass(t, loop, index) ==
  [t EXCEPT !.frames[Len(t.frames)].index = index, !.at = StepOf(loop).inner, !.attempt = 1, !.phase = "run",
            !.change = IF Kind(loop) = "repeat" THEN Written(Pass(index)) ELSE @]

\* sendAction
RequestTurns(t) ==
  {FailOrReroute(t)}    \* the inputs cannot be read
  \cup {IF t.sends >= SendLimit(t) THEN OverBudget(t)
        ELSE [t EXCEPT !.sends = @ + 1, !.phase = "decided", !.action = "send"]}

\* runSet, runIf and runSwitch
ChoiceTurns(t) ==
  {ContinueAfter(t, target) : target \in StepOf(t.at).targets}
  \cup IF Kind(t.at) = "set" THEN {Finished(t, "failed")} ELSE {}

\* runForEach: a list that cannot be read, an empty one, or some items
ForEachTurns(t) ==
  {Finished(t, "failed"), ContinueAfter(t, None)}
  \cup {BeginPass([t EXCEPT !.frames = Append(@, [step |-> t.at, index |-> 0, count |-> n, hid |-> Absent])],
                  t.at, 0) : n \in 1..MaxItems}

\* runRepeat and shadowOf
RepeatTurns(t) ==
  {BeginPass([t EXCEPT !.frames = Append(@, [step |-> t.at, index |-> 0, count |-> StepOf(t.at).times,
                                             hid |-> Value(t)])], t.at, 0)}

FlowTurns(t) ==
  {IF t.sends >= SendLimit(t) THEN OverBudget(t) ELSE [t EXCEPT !.phase = "decided", !.action = "flow"]}

RequestBranches(id) == {b \in StepOf(id).branches : Kind(b) = "request"}
FlowBranches(id) == {b \in StepOf(id).branches : Kind(b) = "flow"}

ParallelTurns(t) ==
  LET n == Cardinality(RequestBranches(t.at)) IN
  {FailOrReroute(t)}
  \cup {IF t.sends + n > SendLimit(t) THEN OverBudget(t)
        ELSE [t EXCEPT !.sends = @ + n, !.phase = "decided", !.action = "parallel"]}

EndTurns(t) == {Finished(t, outcome) : outcome \in {"passed", "failed"}}

WaitTurns(t) == {[t EXCEPT !.phase = "decided", !.action = "wait"]}

\* flowBegin: the flow has problems, or its first step is entered
Begin(t) == {Finished(t, "failed"), Enter(t, t.at)}

\* one round of proceed
Proceed(t) ==
  LET u == [t EXCEPT !.quiet = @ + 1] IN
  IF t.quiet >= MaxQuiet THEN {Finished(t, "failed")}
  ELSE CASE Kind(t.at) = "request"  -> RequestTurns(u)
         [] Kind(t.at) \in {"set", "choice"} -> ChoiceTurns(u)
         [] Kind(t.at) = "forEach"  -> ForEachTurns(u)
         [] Kind(t.at) = "repeat"   -> RepeatTurns(u)
         [] Kind(t.at) = "flow"     -> FlowTurns(u)
         [] Kind(t.at) = "parallel" -> ParallelTurns(u)
         [] Kind(t.at) = "wait"     -> WaitTurns(u)
         [] Kind(t.at) = "end"      -> EndTurns(u)

\* endOfItem and endOfPass: another pass, perhaps after a pause, or on after the loop; a
\* condition that never holds fails the loop
LoopTurns(t, loop) ==
  LET frame   == t.frames[Len(t.frames)]
      isLast  == frame.index + 1 >= frame.count
      isUntil == Kind(loop) = "repeat" /\ StepOf(loop).hasUntil
      left    == [LeaveLoops(t, Len(t.frames) - 1) EXCEPT !.at = loop]
      again   == IF Kind(loop) = "repeat" /\ StepOf(loop).isPaused
                 THEN [t EXCEPT !.frames[Len(t.frames)].index = @ + 1, !.at = loop,
                                !.phase = "decided", !.action = "wait"]
                 ELSE BeginPass(t, loop, frame.index + 1)
  IN  (IF isUntil \/ isLast THEN {ContinueAfter(left, None)} ELSE {})
      \cup (IF isUntil /\ isLast THEN {FailOrReroute(left)} ELSE {})
      \cup (IF isLast THEN {} ELSE {again})

\* following and nextInLoop
Follow(t) ==
  LET loop == StepOf(t.at).parent IN
  IF StepOf(t.at).after # None THEN {Enter(t, StepOf(t.at).after)}
  ELSE IF loop = None THEN {Finished(t, "passed")}
  ELSE IF t.frames = <<>> \/ t.frames[Len(t.frames)].step # loop
       THEN {[t EXCEPT !.at = loop]}
  ELSE LoopTurns(t, loop)

\* a turn begins with what the layers hold now
Reread(t) == [t EXCEPT !.seen = Merged(t.given, session), !.change = NoChange, !.action = "none"]

\* afterSend; a send whose inputs could not be put in is taken back
AfterSend(t) ==
  LET u == [Reread(t) EXCEPT !.quiet = 0] IN
  {ContinueAfter(u, None),
   IF u.attempt < StepOf(u.at).attempts THEN [u EXCEPT !.attempt = @ + 1, !.phase = "run"]
   ELSE FailOrReroute(u)}

NotFilled(t) == FailOrReroute([Reread(t) EXCEPT !.sends = @ - 1])

\* Faulty: a wait begins the count of quiet steps anew.
AfterWaitAnew(t) ==
  LET u == [Reread(t) EXCEPT !.quiet = 0] IN
  IF Kind(t.at) # "repeat" THEN ContinueAfter(u, None)
  ELSE BeginPass(u, t.at, t.frames[Len(t.frames)].index)

\* afterWait and afterPause
AfterWait(t) ==
  LET u == Reread(t) IN
  IF Kind(t.at) # "repeat" \/ t.frames = <<>> \/ t.frames[Len(t.frames)].step # t.at
  THEN ContinueAfter(u, None) ELSE BeginPass(u, t.at, t.frames[Len(t.frames)].index)

\* afterFlow; values of a passed flow may not fit the variables they are for
AfterFlow(t, child) ==
  LET u == [Reread(t) EXCEPT !.sends = @ + child.made, !.quiet = IF child.made > 0 THEN 0 ELSE @] IN
  IF child.isOverBudget THEN {OverBudget(u)}
  ELSE {FailOrReroute(u)} \cup IF child.outcome = "passed" THEN {ContinueAfter(u, None)} ELSE {}

\* what a branch reports of its sends: nothing if it was cancelled, and a request of its
\* own was counted when the step began
Reported(m) == IF ~tasks[m].isDriver \/ tasks[m].outcome = "null" THEN 0 ELSE tasks[m].made

\* the sum of what they report
Count(kids) == Cardinality(UNION {{m} \X (1..Reported(m)) : m \in kids})

\* settleParallel; without a condition every branch has to pass
AfterParallel(t, kids) ==
  LET u == [Reread(t) EXCEPT !.sends = @ + Count(kids), !.quiet = 0, !.isStopping = FALSE] IN
  IF \E m \in kids : tasks[m].isOverBudget THEN {OverBudget(u)}
  ELSE {FailOrReroute(u)}
       \cup IF StepOf(t.at).hasUntil \/ \A m \in kids : tasks[m].outcome = "passed"
            THEN {ContinueAfter(u, None)} ELSE {}

-----------------------------------------------------------------------------
(* The runner *)

\* drive returns null
NullEnd(t) == [t EXCEPT !.phase = "ended", !.outcome = "null", !.isOverBudget = FALSE]

Update(n, t) == tasks' = [tasks EXCEPT ![n] = t]

kept == <<program, flowStatus, flowSends, session, beneath, before, uncounted, quietJoin>>

\* a step of the engine within a turn
Decide(n) ==
  /\ tasks[n].phase \in {"begin", "run", "follow"}
  /\ \E t \in CASE tasks[n].phase = "begin" -> Begin(tasks[n])
              [] tasks[n].phase = "run"   -> Proceed(tasks[n])
              [] OTHER                    -> Follow(tasks[n]) : Update(n, t)
  /\ UNCHANGED kept

\* a branch of the parallel step n has ended, is not the last and has not been asked about
IsToAsk(n, m) ==
  /\ tasks[n].phase = "calling" /\ tasks[n].action = "parallel"
  /\ m \in Children(n) /\ tasks[m].phase = "ended" /\ ~tasks[m].isAsked
  /\ \E other \in Children(n) : tasks[other].phase # "ended"

\* the sandbox cannot decide a turn, or the question of a parallel step: the error goes up
\* through every drive and every parallel, which cancel their branches without waiting for
\* them
DecideFails(n) ==
  /\ flowStatus = "running"
  /\ \/ tasks[n].phase \in {"begin", "run", "follow"}
     \/ (\E m \in Children(n) : IsToAsk(n, m)) /\ ~tasks[n].isStopping
  /\ tasks' = [m \in DOMAIN tasks \ Ancestors(n) |-> [tasks[m] EXCEPT !.isCancelled = TRUE]]
  /\ flowStatus' = "failed"
  /\ UNCHANGED <<program, flowSends, session, beneath, before, uncounted, quietJoin>>

\* Faulty: every branch may use all that is left.
ShareAll(left, branches) == left

\* what each flow branch may send
Share(left, branches) == left \div branches

CallsOf(n) ==
  {Append(n, id) : id \in IF tasks[n].action = "flow" THEN {tasks[n].at} ELSE StepOf(tasks[n].at).branches}

\* nestedScope and branchScope: the task for a call of t to the flow or the request of a step
Called(t, id) ==
  LET left  == SendLimit(t) - t.sends
      share == IF t.action = "flow" THEN left ELSE Share(left, Cardinality(FlowBranches(t.at)))
      given == IF StepOf(id).gives # Absent THEN StepOf(id).gives ELSE t.given
  IN  IF Kind(id) = "flow"
      THEN Driver(StepOf(id).called, share, given, Merged(given, After(session, t.change))) ELSE Sender(id)

Call(n, t) ==
  tasks' = [m \in DOMAIN tasks \cup CallsOf(n) |->
              IF m \in CallsOf(n) THEN Called(t, m[Len(m)])
              ELSE IF m = n THEN [t EXCEPT !.phase = "calling"] ELSE tasks[m]]

\* adopt the turn and begin its action; what the turn wrote replaces what the flow was given
AdoptTurn(n) ==
  LET t == [tasks[n] EXCEPT !.given = IF tasks[n].change.isWritten THEN Absent ELSE @] IN
  /\ tasks[n].phase = "decided"
  /\ IF ~IsLive(n) THEN Update(n, NullEnd(t)) /\ UNCHANGED session
     ELSE /\ session' = After(session, t.change)
          /\ \/ t.action = "done" /\ Update(n, [t EXCEPT !.phase = "ended"])
             \/ t.action = "done" /\ t.outcome = "passed"    \* its outputs cannot be read
                /\ Update(n, [t EXCEPT !.phase = "ended", !.outcome = "failed"])
             \/ t.action = "send" /\ Update(n, [t EXCEPT !.phase =
                   IF t.attempt > 1 /\ StepOf(t.at).isPaused THEN "pausing" ELSE "sendable"])
             \/ t.action = "wait" /\ Update(n, [t EXCEPT !.phase = "pausing"])
             \/ t.action \in {"flow", "parallel"} /\ Call(n, t)
  /\ UNCHANGED <<program, flowStatus, flowSends, beneath, before, uncounted, quietJoin>>

\* the timer fires, or a stop or a cancellation wakes the task
Wake(n) ==
  LET t == tasks[n] IN
  /\ t.phase = "pausing"
  /\ Update(n, IF t.action = "send" THEN [t EXCEPT !.phase = "sendable"]
               ELSE IF IsLive(n) THEN AfterWait(t) ELSE NullEnd(t))
  /\ UNCHANGED kept

BranchEnd(n, outcome) == [tasks[n] EXCEPT !.phase = "ended", !.outcome = outcome]

\* Faulty: a stop during the pause before a retry is not noticed.
MaySendAnyway(n) == TRUE

MaySend(n) == IsLive(n)

\* send: given up, not fillable, or sent and counted for every flow around it
Send(n) ==
  LET t == tasks[n] IN
  /\ t.phase = "sendable"
  /\ \/ /\ ~MaySend(n)
        /\ Update(n, IF t.isDriver THEN NullEnd(t) ELSE BranchEnd(n, "failed"))
        /\ UNCHANGED flowSends
     \/ /\ MaySend(n)
        /\ Update(n, IF t.isDriver THEN NotFilled(t) ELSE BranchEnd(n, "failed"))
        /\ UNCHANGED flowSends
     \/ /\ MaySend(n)
        /\ tasks' = [m \in DOMAIN tasks |->
                       LET u == IF m \in Ancestors(n) THEN [tasks[m] EXCEPT !.made = @ + 1] ELSE tasks[m]
                       IN  IF m = n THEN [u EXCEPT !.phase = "sending"] ELSE u]
        /\ flowSends' = IF flowSends <= program.limit[program.root] THEN flowSends + 1 ELSE flowSends
  /\ UNCHANGED <<program, flowStatus, session, beneath, before, uncounted, quietJoin>>

\* execute returns, with a response or because it was cancelled
SendReturns(n) ==
  LET t == tasks[n] IN
  /\ t.phase = "sending"
  /\ IF ~t.isDriver THEN \E outcome \in {"passed", "failed"} : Update(n, BranchEnd(n, outcome))
     ELSE IF ~IsLive(n) THEN Update(n, NullEnd(t))
     ELSE \E u \in AfterSend(t) : Update(n, u)
  /\ UNCHANGED kept

Without(gone) == [m \in DOMAIN tasks \ gone |-> tasks[m]]

\* a nested flow is over
CallReturns(n) ==
  LET t == tasks[n]
      m == Append(n, t.at)
  IN  /\ t.phase = "calling" /\ t.action = "flow" /\ tasks[m].phase = "ended"
      /\ \E u \in IF IsLive(n) THEN AfterFlow(t, tasks[m]) ELSE {NullEnd(t)} :
           tasks' = [Without({m}) EXCEPT ![n] = u]
      /\ UNCHANGED kept

StopAll(n) ==
  [m \in DOMAIN tasks |-> IF m = n THEN [tasks[m] EXCEPT !.isStopping = TRUE]
                          ELSE IF m \in Children(n) THEN [tasks[m] EXCEPT !.isCancelled = TRUE]
                          ELSE tasks[m]]

\* ask: the condition does not hold yet, or everything else is cancelled
Ask(n) ==
  /\ \E m \in Children(n) :
       /\ IsToAsk(n, m)
       /\ \/ Update(m, [tasks[m] EXCEPT !.isAsked = TRUE])
          \/ StepOf(tasks[n].at).hasUntil /\ ~tasks[n].isStopping
             /\ tasks' = [StopAll(n) EXCEPT ![m].isAsked = TRUE]
  /\ UNCHANGED kept

TimeOut(n) ==
  /\ tasks[n].phase = "calling" /\ tasks[n].action = "parallel"
  /\ StepOf(tasks[n].at).isTimed /\ ~tasks[n].isStopping
  /\ tasks' = StopAll(n)
  /\ UNCHANGED kept

\* all branches are over
Join(n) ==
  LET t == tasks[n]
      kids == Children(n)
  IN  /\ t.phase = "calling" /\ t.action = "parallel"
      /\ \A m \in kids : tasks[m].phase = "ended"
      /\ \E u \in IF IsLive(n) THEN AfterParallel(t, kids) ELSE {NullEnd(t)} :
           tasks' = [Without(kids) EXCEPT ![n] = u]
      /\ uncounted' = (uncounted \/ \E m \in kids : tasks[m].isDriver /\ tasks[m].made > Reported(m))
      /\ quietJoin' = (quietJoin \/ (IsLive(n) /\ Count(kids) = 0 /\ \A m \in kids : tasks[m].isDriver))
      /\ UNCHANGED <<program, flowStatus, flowSends, session, beneath, before>>

\* the end of start
FlowReturns ==
  /\ flowStatus = "running" /\ <<>> \in DOMAIN tasks /\ tasks[<<>>].phase = "ended"
  /\ flowStatus' = tasks[<<>>].outcome
  /\ UNCHANGED <<program, tasks, flowSends, session, beneath, before, uncounted, quietJoin>>

Stop ==
  /\ flowStatus = "running" /\ flowStatus' = "stopped"
  /\ UNCHANGED <<program, tasks, flowSends, session, beneath, before, uncounted, quietJoin>>

TaskStep(n) ==
  \/ Decide(n) \/ AdoptTurn(n) \/ Wake(n) \/ Send(n) \/ SendReturns(n) \/ CallReturns(n) \/ Join(n)

FlNext ==
  \/ \E n \in DOMAIN tasks : TaskStep(n) \/ DecideFails(n) \/ Ask(n) \/ TimeOut(n)
  \/ FlowReturns \/ Stop

\* turns, timers and sends end, and promises resolve; nothing is assumed of Stop, of
\* timeouts and of conditions
FlFairness == WF_flVars(\E n \in DOMAIN tasks : TaskStep(n)) /\ WF_flVars(FlowReturns)

FlSpec == FlInit /\ [][FlNext]_flVars /\ FlFairness

-----------------------------------------------------------------------------
(* Properties *)

\* docs/flows.md: "A run stops after 1,000 requests", "Each request counts against the
\* request limit."
LimitOfTheRun == flowSends <= program.limit[program.root]

\* A flow never sends more than its limit, nor more than was left to it, with retries,
\* nested flows and branches side by side that share what is left; excepted are runs in
\* which a branch that was cancelled had sent requests.
SendLimitIsKept ==
  uncounted \/
    /\ LimitOfTheRun
    /\ \A n \in DOMAIN tasks : tasks[n].isDriver => tasks[n].made <= SendLimit(tasks[n])

\* the pass variable is what it was before the run
VariableIsBack == Merged(Absent, session) = before

\* some Run flow step of the program gives the pass variable
IsGiven == \E id \in DOMAIN program.step : StepOf(id).gives # Absent

\* The loops a flow has open are those around the step it is at, however it got there:
\* by jumps out of loops, failures, ends of passes or pauses (frames, enter, leaveLoops).
\* And the pass variable: docs/flows.md, "it is removed when the loop ends, and a value
\* it hid is set back": after a run that passed it is resolved to what it was before, from
\* whatever layer, whichever way the run left its loops; the session may now hold a copy of
\* what an environment holds.  Branches that count passes at the same time share the
\* variable and are excepted, and so are flows that are given it by a Run flow step, see
\* GivenForThatFlowOnly.
LoopsAreLeft ==
  /\ flowStatus = "passed" /\ program.isSequential /\ ~IsGiven => VariableIsBack
  /\ \A n \in DOMAIN tasks :
       (tasks[n].isDriver /\ tasks[n].phase = "run") =>
         /\ {tasks[n].frames[i].step : i \in 1..Len(tasks[n].frames)} = LoopsAround(tasks[n].at)
         /\ IsInjective([i \in 1..Len(tasks[n].frames) |-> tasks[n].frames[i].step])

\* After Stop, after an error and in a branch that was cancelled nothing more is sent,
\* although tasks are then in the middle of pauses, turns and sends.
NothingIsSentAfterStop ==
  [][flowSends' # flowSends =>
       \E n \in DOMAIN tasks : tasks[n].phase # "sending" /\ tasks'[n].phase = "sending" /\ IsLive(n)]_flVars

\* docs/flows.md: "Variables for this run set values for the steps of that flow only."
\* After a run that passed nothing of what was given to a flow is left.
GivenForThatFlowOnly == flowStatus = "passed" /\ program.isSequential => VariableIsBack

\* docs/flows.md: "A loop that sends no request at all stops after 10,000 steps."
QuietLoopsStop == <>(flowStatus # "running" \/ flowSends > 0)

\* A run ends, as its loops use up the limit of sends or of quiet steps.  Two kinds of runs
\* go on for ever and are excepted: a parallel step whose branches sent nothing begins the
\* count of quiet steps anew (QuietLoopsStop does not hold), and the sends of branches that
\* were cancelled are not counted (nor does LimitOfTheRun).
FlowsEnd == <>(flowStatus # "running" \/ uncounted \/ quietJoin)

=============================================================================
