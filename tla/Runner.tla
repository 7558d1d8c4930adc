------------------------------- MODULE Runner -------------------------------
(***************************************************************************)
(* The runner of the interface: lib/runner.js, the part of it in           *)
(* lib/runFlow.js and lib/runData.js, and the stages of one send in        *)
(* lib/execution.js.  The run dialog keeps one runner; every run of a      *)
(* monitor makes its own.  All of them share the session values of the     *)
(* store and its one prompt for values.                                    *)
(*                                                                         *)
(* JavaScript runs to completion between two awaits, so an action is what  *)
(* happens from one await to the next.  A session variable that the rows   *)
(* of a data file set is one value, `session': a text, with who wrote it   *)
(* as history.  Of the results only what they tell of which request is     *)
(* kept, not their order.                                                  *)
(***************************************************************************)
EXTENDS Integers, Sequences

CONSTANTS
    RunPlans,        \* what each run is started with and by whom, and how often
                     \* a script writes, a script jumps, a value is cleared
    RunTexts,        \* what the variable can hold
    MaxFlowSteps     \* MAX_FLOW_STEPS of scripting/limits.js

Runners == {"dialog", "monitor"}

(* What start is called with: `rows' is the text of the variable in each   *)
(* iteration, none for a run that is not iterating, and a folder without   *)
(* requests is not run.                                                    *)
RunPlan ==
    [runner : Runners, requests : Nat \ {0}, parallel : Nat \ {0}, rows : Seq(RunTexts),
     asking : SUBSET Nat, stopOnFailure : BOOLEAN, isDelayed : BOOLEAN]

ASSUME RunnerAssumption ==
    /\ MaxFlowSteps \in Nat
    /\ "none" \notin RunTexts
    /\ \A p \in RunPlans :
         /\ p.runs \in Seq(RunPlan)
         /\ p.budget \in [writes : Nat, jumps : Nat, clears : Nat]

VARIABLES
    plan,        \* the runs of this behaviour
    runs,        \* the `run' objects with the variables of their functions
    current,     \* `current' of each runner, 0 for null
    sink,        \* what each runner's sink shows
    session,     \* the value of the variable in store().sessionVariables
    asker,       \* whose promise variablePrompt.resolve answers
    runBudget,
    written,     \* history: values written by scripts and by the user
    standing,    \* history: the one written since a row was last given
    latest,      \* history: the one a script of a run wrote last
    disturbed    \* history: runs whose row somebody else has replaced

runnerVars == <<plan, runs, current, sink, session, asker, runBudget, written,
                standing, latest, disturbed>>

RunIds == DOMAIN plan
Nobody == <<0, 0>>

(* Values of the session variable: the text, and as history whose it is.   *)
Value(of, run, iteration, text) ==
    [of |-> of, run |-> run, iteration |-> iteration, text |-> text]
Forgotten == Value("nobody", 0, 0, "none")          \* the name has no session value
Before == {Value("user", 0, 0, x) : x \in RunTexts}  \* a value the user had
FromScript == {Value("script", 0, 0, x) : x \in RunTexts}   \* a script or extract rule wrote it
RowOf(run, iteration) == Value("row", run, iteration, plan[run].rows[iteration])
Nothing == Value("nothing", 0, 0, "none")           \* `given' is empty

(* workers of runIteration *)
LaneCount(r) == IF plan[r].parallel < plan[r].requests THEN plan[r].parallel ELSE plan[r].requests
Lanes(r) == 1 .. LaneCount(r)
IsParallel(r) == LaneCount(r) > 1

IdleLane == [at |-> "done", request |-> 0]

NewRun(r, before) ==
    [isStopped |-> FALSE, isHalted |-> FALSE, isOver |-> FALSE,
     before |-> before, given |-> Nothing, iteration |-> 0,
     queue |-> <<>>, lanes |-> [w \in Lanes(r) |-> IdleLane], sent |-> 0,
     passedOver |-> {}, attempted |-> {},
     values |-> "unasked", turn |-> <<>>, asks |-> 0]

HasStarted(r) == runs[r].iteration > 0 \/ runs[r].isOver
IsGoing(r) == HasStarted(r) /\ ~runs[r].isOver /\ ~runs[r].isStopped

-----------------------------------------------------------------------------
(* What a runner does from one await to the next is a function of a turn: *)
(* the run, the session value and the results of its sink.                *)

TurnOf(r) == [id |-> r, run |-> runs[r], session |-> session,
              sink |-> sink[plan[r].runner]]

(* The requests of the run from a position on. *)
RequestsFrom(r, position) == [i \in 1 .. plan[r].requests - position + 1 |-> position + i - 1]

IsIterating(r) == plan[r].rows # <<>>
IterationCount(r) == IF plan[r].rows # <<>> THEN Len(plan[r].rows) ELSE 1

(* Faulty: the value from before comes back whatever is there now. *)
WithdrawnAlways(before, given, now) == IF given = Nothing THEN now ELSE before

(* withdrawnValues: a value with another text than the one given stays.    *)
(* Whose it is the code does not know.                                     *)
WithdrawnValues(before, given, now) ==
    IF given # Nothing /\ now.text = given.text THEN before ELSE now

(* sessionGiver *)
GiveSession(t, next) ==
    LET withdrawn == WithdrawnValues(t.run.before, t.run.given, t.session)
    IN  [t EXCEPT !.session = IF next = Nothing THEN withdrawn ELSE next,
                  !.run.given = next]

Result(t, request, kind) ==
    [run |-> t.id, iteration |-> t.run.iteration, request |-> request, kind |-> kind]

Add(t, results) == [t EXCEPT !.sink.results = @ \union results]

(* The loop head of a lane: the next request of the queue, or the end. *)
TakeNext(t, w) ==
    IF t.run.queue # <<>> /\ ~t.run.isStopped /\ ~t.run.isHalted
    THEN [t EXCEPT !.run.queue = Tail(@),
                   !.run.attempted = @ \union {Head(t.run.queue)},
                   !.run.lanes[w] = [at |-> "preparing", request |-> Head(t.run.queue)]]
    ELSE [t EXCEPT !.run.lanes[w] = IdleLane]

(* Faulty: the sink is finished although a later run uses it. *)
FinishRunAnyway(t) ==
    LET withdrawn == IF IsIterating(t.id) THEN GiveSession(t, Nothing) ELSE t
    IN  [withdrawn EXCEPT !.run.isOver = TRUE, !.sink.isRunning = FALSE]

(* The end of start: the values go back, and the sink is finished when no  *)
(* later run has taken its place.                                         *)
FinishRun(t) ==
    LET withdrawn == IF IsIterating(t.id) THEN GiveSession(t, Nothing) ELSE t
    IN  [withdrawn EXCEPT
            !.run.isOver = TRUE,
            !.sink.isRunning = @ /\ current[plan[t.id].runner] # t.id]

(* One turn of the loop of start, up to the first await of its lanes: each *)
(* of them has taken a request.                                            *)
BeginIteration(t) ==
    LET iteration == t.run.iteration + 1
        given == IF IsIterating(t.id) THEN GiveSession(t, RowOf(t.id, iteration)) ELSE t
    IN  IF iteration > IterationCount(t.id) \/ t.run.isStopped \/ t.run.isHalted
        THEN FinishRun(t)
        ELSE [given EXCEPT
                !.run.iteration = iteration,
                !.run.queue = RequestsFrom(t.id, LaneCount(t.id) + 1),
                !.run.attempted = Lanes(t.id),
                !.run.lanes = [w \in Lanes(t.id) |-> [at |-> "preparing", request |-> w]],
                !.run.sent = 0, !.run.passedOver = {}]

PassedOverResults(t) ==
    {Result(t, q, "passedOver") : q \in t.run.passedOver \ t.run.attempted}

AllLanesAreDone(t) == \A w \in Lanes(t.id) : t.run.lanes[w].at = "done"

(* The rest of runIteration once Promise.all(lanes) has settled. *)
AfterLanes(t) ==
    IF ~AllLanesAreDone(t) THEN t
    ELSE BeginIteration(IF t.run.isStopped THEN t ELSE Add(t, PassedOverResults(t)))

-----------------------------------------------------------------------------
(* follow of runFlow.js; a flow is [action, target] and target 0 is a name *)
(* no request of the run has.                                             *)

Halt(t) == [t EXCEPT !.run.isHalted = TRUE]
Pass(t, dropped) == [t EXCEPT !.run.passedOver = @ \union dropped]
Queued(t) == {t.run.queue[i] : i \in DOMAIN t.run.queue}

Requeue(t, queue) == [t EXCEPT !.run.queue = queue]

JumpTo(t, target) ==
    Requeue(Pass(t, {q \in Queued(t) : q < target}), RequestsFrom(t.id, target))

Repeat(t, target, request) ==
    IF target # request THEN Halt(t)
    ELSE Requeue(t, <<request>> \o t.run.queue)

Follow(t0, flow, request) ==
    LET t == [t0 EXCEPT !.run.sent = @ + 1]
        n == plan[t.id].requests
    IN  CASE flow.action = "stop" -> Halt(Pass(t, Queued(t)))
          [] flow.action = "end" -> Requeue(Pass(t, Queued(t)), <<>>)
          [] flow.action = "next" /\ t.run.sent >= n + MaxFlowSteps -> Halt(t)
          [] flow.action = "next" /\ t.run.sent < n + MaxFlowSteps /\ IsParallel(t.id) ->
                 Repeat(t, flow.target, request)
          [] flow.action = "next" /\ t.run.sent < n + MaxFlowSteps /\ ~IsParallel(t.id) ->
                 IF flow.target = 0 THEN Halt(t) ELSE JumpTo(t, flow.target)
          [] OTHER -> t

(* follow returns a problem with these halts, and the result is flagged. *)
HasProblem(t, flow, request) ==
    /\ flow.action = "next"
    /\ \/ t.run.sent + 1 >= plan[t.id].requests + MaxFlowSteps
       \/ flow.target = 0
       \/ IsParallel(t.id) /\ flow.target # request

(* What a lane does when execute has returned. *)
AfterOutcome(t, w, outcome) ==
    LET request == t.run.lanes[w].request
        hasFailed == outcome.hasFailed \/ HasProblem(t, outcome.flow, request)
        added == Add(Follow(t, outcome.flow, request), {Result(t, request, outcome.kind)})
        halted == IF plan[t.id].stopOnFailure /\ hasFailed THEN Halt(added) ELSE added
    IN  IF t.run.isStopped THEN AfterLanes([t EXCEPT !.run.lanes[w] = IdleLane])
        ELSE IF plan[t.id].isDelayed /\ ~halted.run.isHalted
             THEN [halted EXCEPT !.run.lanes[w].at = "pausing"]
             ELSE AfterLanes(TakeNext(halted, w))

NoFlow == [action |-> "", target |-> 0]
Skipped(flow) == [kind |-> "skipped", flow |-> flow, hasFailed |-> FALSE]
SentOutcome(flow, hasFailed) == [kind |-> "sent", flow |-> flow, hasFailed |-> hasFailed]

-----------------------------------------------------------------------------
(* CommitWrite makes the state of a turn the next state.                   *)

GivesRow(t) == t.run.given \notin {Nothing, runs[t.id].given}

(* A text that is a row in place. *)
IsRowText(text) == \E q \in RunIds : runs[q].given # Nothing /\ runs[q].given.text = text

(* Other runs whose row has the text of the one this run takes back. *)
Recalled(t) ==
    {q \in RunIds \ {t.id} :
        /\ t.run.given = Nothing /\ runs[t.id].given # Nothing /\ runs[q].given # Nothing
        /\ runs[q].given.text = runs[t.id].given.text}

(* Other runs whose row this one's row replaces. *)
Displaced(t) ==
    {q \in RunIds \ {t.id} : GivesRow(t) /\ runs[q].given # Nothing}

(* A write of a script touches the session at the script's end, before     *)
(* perform goes on; a row that was given is then no longer in place.       *)
CommitWrite(value, t) ==
    /\ runs' = [runs EXCEPT ![t.id] = t.run]
    /\ session' = t.session
    /\ sink' = [sink EXCEPT ![plan[t.id].runner] = t.sink]
    /\ standing' = IF GivesRow(t) THEN Nothing
                   ELSE IF value = Nothing THEN standing
                   ELSE IF IsRowText(value.text) THEN Nothing ELSE value
    /\ latest' = IF value = Nothing THEN latest ELSE value
    /\ disturbed' = ((disturbed \union {q \in RunIds : value # Nothing /\ runs[q].given # Nothing})
                        \ (IF GivesRow(t) THEN {t.id} ELSE {}))
                        \union Displaced(t) \union Recalled(t)

Commit(t) == CommitWrite(Nothing, t)

RunnerInit ==
    /\ \E p \in RunPlans : plan = p.runs /\ runBudget = p.budget
    /\ runs = [r \in DOMAIN plan |-> NewRun(r, Forgotten)]
    /\ current = [x \in Runners |-> 0]
    /\ sink = [x \in Runners |-> [isRunning |-> FALSE, results |-> {}]]
    /\ session \in {Forgotten} \union Before
    /\ asker = Nobody
    /\ written = {session}
    /\ standing = Nothing
    /\ latest = Nothing
    /\ disturbed = {}

(* start: the dialog's Run button is there while no run is going; a monitor *)
(* waits for its own queue.                                               *)
StartRun(r) ==
    LET runner == plan[r].runner
        begun == [TurnOf(r) EXCEPT !.run = NewRun(r, session),
                                   !.sink = [isRunning |-> TRUE, results |-> {}]]
    IN  /\ ~HasStarted(r)
        /\ \A q \in RunIds : q < r => HasStarted(q) \/ plan[q].runner # runner
        /\ ~sink[runner].isRunning
        /\ current' = [current EXCEPT ![runner] = r]
        /\ Commit(BeginIteration(begun))
        /\ UNCHANGED <<plan, asker, runBudget, written>>

(* stop: the dialog's Stop button, or closing the dialog at any time.  The *)
(* sends it cancels may fail or may already have their response; Respond   *)
(* allows both for every send.                                             *)
Stop ==
    LET r == current["dialog"]
        t == TurnOf(r)
        stopped == GiveSession([t EXCEPT !.run.isStopped = TRUE], Nothing)
    IN  /\ r # 0
        /\ Commit([stopped EXCEPT !.sink.isRunning = FALSE])
        /\ current' = [current EXCEPT !["dialog"] = 0]
        /\ UNCHANGED <<plan, asker, runBudget, written>>

-----------------------------------------------------------------------------
(* The stages of perform.  Writes is what the scripts of a stage leave     *)
(* in the session: nothing, a value, or, when they write the name to a     *)
(* lasting scope, no value (applyVariableWrites).                          *)

Writes == {Nothing} \union (IF runBudget.writes > 0 THEN FromScript \union {Forgotten} ELSE {})

Written(t, value) == IF value = Nothing THEN t ELSE [t EXCEPT !.session = value]

Flows(r) ==
    {NoFlow} \union (IF runBudget.jumps > 0
                     THEN [action : {"stop", "end"}, target : {0}]
                          \union [action : {"next"}, target : 0 .. plan[r].requests]
                     ELSE {})

SpendRun(value, flow) ==
    /\ runBudget' = [runBudget EXCEPT !.writes = @ - (IF value = Nothing THEN 0 ELSE 1),
                                      !.jumps = @ - (IF flow = NoFlow THEN 0 ELSE 1)]
    /\ written' = written \union ({value} \ {Nothing})

InStage(r, w, stage) == runs[r].lanes[w].at = stage

MoveTo(t, w, stage) == [t EXCEPT !.run.lanes[w].at = stage]

(* The outcome of a send that did not get a usable response.  A script     *)
(* that had run before may have changed the order all the same.            *)
Fails(r, w, t) ==
    \E flow \in Flows(r) :
        /\ Commit(AfterOutcome(t, w, SentOutcome(flow, TRUE)))
        /\ SpendRun(Nothing, flow)

(* resolveReferences, loadModules and the pre-request scripts have run: a  *)
(* problem ends the send, skipRequest and stopExecution hold it back, a    *)
(* request of a socket is skipped, and the others go on.                   *)
PrepareEnds(r, w) ==
    /\ InStage(r, w, "preparing")
    /\ \E value \in Writes, flow \in Flows(r) :
        LET t == Written(TurnOf(r), value)
            asks == t.run.lanes[w].request \in plan[r].asking
        IN  /\ \/ CommitWrite(value, AfterOutcome(t, w, SentOutcome(flow, TRUE)))
               \/ /\ flow.action \in {"", "stop"}
                  /\ CommitWrite(value, AfterOutcome(t, w, Skipped(flow)))
               \/ /\ flow = NoFlow
                  /\ CommitWrite(value,
                        IF asks THEN MoveTo([t EXCEPT !.run.turn = Append(@, w)], w, "waiting")
                        ELSE MoveTo(t, w, "renewing"))
            /\ SpendRun(value, flow)
    /\ UNCHANGED <<plan, current, asker>>

(* rememberPrompts: the prompts of a run are answered one after another.   *)
(* The first asks, the others use its answer or its refusal.  A prompt     *)
(* replaces the one another run has open.                                  *)
AnswerTurn(r) ==
    LET w == Head(runs[r].turn)
        t == [TurnOf(r) EXCEPT !.run.turn = Tail(@)]
    IN  /\ runs[r].turn # <<>>
        /\ InStage(r, w, "waiting")
        /\ \/ runs[r].values = "declined" /\ Fails(r, w, t) /\ UNCHANGED asker
           \/ /\ runs[r].values = "given"
              /\ Commit(MoveTo(t, w, "renewing"))
              /\ UNCHANGED <<asker, runBudget, written>>
           \/ /\ runs[r].values = "unasked"
              /\ Commit(MoveTo([TurnOf(r) EXCEPT !.run.asks = @ + 1], w, "asking"))
              /\ asker' = <<r, w>>
              /\ UNCHANGED <<runBudget, written>>
        /\ UNCHANGED <<plan, current>>

(* answerVariables: the user fills in the prompt or declines it. *)
AnswerVariables(isGiven) ==
    LET r == asker[1]
        w == asker[2]
        t == [TurnOf(r) EXCEPT !.run.turn = Tail(@),
                               !.run.values = IF isGiven THEN "given" ELSE "declined"]
    IN  /\ asker # Nobody
        /\ IF isGiven
           THEN Commit(MoveTo(t, w, "renewing")) /\ UNCHANGED <<runBudget, written>>
           ELSE Fails(r, w, t)
        /\ asker' = Nobody
        /\ UNCHANGED <<plan, current>>

(* renewAuth returned a token, and the request goes out with the session   *)
(* values of this moment; or it failed.                                    *)
Transmit(r, w) ==
    /\ InStage(r, w, "renewing")
    /\ \/ Commit(MoveTo(TurnOf(r), w, "sending")) /\ UNCHANGED <<runBudget, written>>
       \/ Fails(r, w, TurnOf(r))
    /\ UNCHANGED <<plan, current, asker>>

(* The response is back.  A usable one goes through the extract rules and  *)
(* the post-response scripts, another one is the outcome.                  *)
Respond(r, w) ==
    /\ InStage(r, w, "sending")
    /\ \/ Commit(MoveTo(TurnOf(r), w, "checking")) /\ UNCHANGED <<runBudget, written>>
       \/ Fails(r, w, TurnOf(r))
    /\ UNCHANGED <<plan, current, asker>>

Checked(r, w) ==
    /\ InStage(r, w, "checking")
    /\ \E value \in Writes, flow \in Flows(r), hasFailed \in BOOLEAN :
        LET t == Written(TurnOf(r), value)
        IN  /\ CommitWrite(value, AfterOutcome(t, w, SentOutcome(flow, hasFailed)))
            /\ SpendRun(value, flow)
    /\ UNCHANGED <<plan, current, asker>>

(* The delay after a request is over. *)
PauseEnds(r, w) ==
    /\ InStage(r, w, "pausing")
    /\ Commit(AfterLanes(TakeNext(TurnOf(r), w)))
    /\ UNCHANGED <<plan, current, asker, runBudget, written>>

(* clearSessionVariables: the user empties the session values. *)
ClearSessionVariables ==
    /\ runBudget.clears > 0 /\ session # Forgotten
    /\ session' = Forgotten
    /\ runBudget' = [runBudget EXCEPT !.clears = @ - 1]
    /\ written' = written \union {Forgotten}
    /\ standing' = Forgotten
    /\ latest' = Nothing
    /\ disturbed' = disturbed \union {r \in RunIds : runs[r].given # Nothing}
    /\ UNCHANGED <<plan, runs, current, sink, asker>>

RunnerNext ==
    \/ \E r \in RunIds : StartRun(r) \/ AnswerTurn(r)
    \/ Stop
    \/ \E isGiven \in BOOLEAN : AnswerVariables(isGiven)
    \/ \E r \in RunIds : \E w \in Lanes(r) :
        \/ PrepareEnds(r, w) \/ Transmit(r, w) \/ Respond(r, w)
        \/ Checked(r, w) \/ PauseEnds(r, w)
    \/ ClearSessionVariables

RunnerSpec == RunnerInit /\ [][RunnerNext]_runnerVars

-----------------------------------------------------------------------------
(* Two runs gave rows at the same time: the later one took the earlier     *)
(* one's row for the value to put back.                                    *)
HaveCrossed ==
    \E r \in RunIds : HasStarted(r) /\ runs[r].before.of = "row"

(* Once no run is going, no row of a data file is left in the session: the *)
(* value there is the one from before the runs or one a script or the user *)
(* has written meanwhile, and one written since the last row was given is  *)
(* kept (withdrawnValues, sessionGiver and the two ends of a run, in start *)
(* and in stop).  The exceptions: runs that gave rows at the same time,    *)
(* and a value with the text of a row in place, which withdrawnValues      *)
(* takes for the row.                                                      *)
RowsAreWithdrawn ==
    (\A r \in RunIds : ~IsGoing(r)) /\ ~HaveCrossed =>
        /\ session \in written
        /\ standing # Nothing => session = standing

(* docs/runner-load-and-scan.md: what scripts and Extract rules write      *)
(* during the run is kept after it, only the data file's values are put    *)
(* back.  It is not when the value has the text of the row, or when a      *)
(* later row has taken its place (withdrawnValues, sessionGiver).          *)
ScriptValuesAreKept ==
    (\A r \in RunIds : ~IsGoing(r)) /\ ~HaveCrossed /\ latest # Nothing =>
        session.text = latest.text

(* A request of a run that was not stopped goes out with the row of its    *)
(* own iteration, unless a script, the user or the row of another run has  *)
(* replaced the value since the row was given.  The end of another run,    *)
(* stopped or not, does not, unless its own row had the very same text     *)
(* (withdrawnValues).                                                      *)
SentWithItsRow ==
    [][\A r \in RunIds : \A w \in Lanes(r) :
        /\ InStage(r, w, "renewing") /\ runs'[r].lanes[w].at = "sending"
        /\ IsGoing(r) /\ IsIterating(r) /\ r \notin disturbed
        => session = RowOf(r, runs[r].iteration)]_runnerVars

Latest(runner) ==
    {r \in RunIds : /\ plan[r].runner = runner /\ HasStarted(r)
                    /\ \A q \in RunIds : q > r /\ plan[q].runner = runner => ~HasStarted(q)}

(* A run that ended by itself has told of every request of every           *)
(* iteration, and what it tells as passed over it did not send in that     *)
(* iteration (passedOver and attempted); and a run prompts for a value     *)
(* once, however many sends wait for it and whatever the answer            *)
(* (rememberPrompts).  A sink shows the run its runner started last and    *)
(* nothing of an earlier one that still awaits its answers, and it says    *)
(* that a run is going exactly as long as one is (isStopped, `current !==  *)
(* run').                                                                  *)
RunsAreTold ==
    /\ \A runner \in Runners :
         /\ \A result \in sink[runner].results : result.run \in Latest(runner)
         /\ sink[runner].isRunning <=> \E r \in Latest(runner) : IsGoing(r)
    /\ \A r \in RunIds :
         LET results == sink[plan[r].runner].results
             Of(i, q) == {result \in results : result.iteration = i /\ result.request = q}
         IN  /\ runs[r].isOver /\ ~runs[r].isStopped /\ r \in Latest(plan[r].runner) =>
                 \A i \in 1 .. IterationCount(r), q \in 1 .. plan[r].requests :
                     /\ ~runs[r].isHalted => Of(i, q) # {}
                     /\ \A a, b \in Of(i, q) : a.kind = "passedOver" => b.kind = "passedOver"
             /\ runs[r].asks <= 1
=============================================================================
