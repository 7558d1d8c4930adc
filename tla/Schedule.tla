------------------------------ MODULE Schedule ------------------------------
(***************************************************************************)
(* A run of a collection: runner/schedule.go with the run-order calls of   *)
(* scripts in runner/flow.go.  The requests of a run are planned as units; *)
(* one unit is a whole iteration when requests go one after another, and a *)
(* single request when Parallel is above 1.  Each iteration is a wave: its *)
(* units are queued, the workers of the crew empty the queue, and the next *)
(* wave starts when all of them are through.                               *)
(*                                                                         *)
(* What a request's scripts decide, whether the request is held back and   *)
(* whether it fails is chosen freely (worker.attempt).                     *)
(***************************************************************************)
EXTENDS Integers, Sequences, FiniteSets

CONSTANTS
    N,           \* requests in the run
    Iterations,  \* iterationCount
    Parallel,    \* options.Parallel
    Repeats,     \* Limits().FlowSteps, 1000 in the code
    Bail         \* options.Bail

ASSUME ScheduleAssumption ==
    /\ N \in Nat \ {0}
    /\ Iterations \in Nat \ {0}
    /\ Parallel \in Nat
    /\ Repeats \in Nat
    /\ Bail \in BOOLEAN

Least(a, b) == IF a <= b THEN a ELSE b

IsSequential == Parallel <= 1

(* planUnits: the positions, and the iteration and requests of each.       *)
Positions == 1..(IF IsSequential THEN Iterations ELSE Iterations * N)

IterationOf(p) == IF IsSequential THEN p ELSE ((p - 1) \div N) + 1

Size == IF IsSequential THEN N ELSE 1

IndexOf(p, cursor) == IF IsSequential THEN cursor ELSE ((p - 1) % N) + 1

Wave(i) == IF IsSequential THEN <<i>> ELSE [k \in 1..N |-> (i - 1) * N + k]

Crew == 1..Least(IF Parallel > 1 THEN Parallel ELSE 1, N)

VARIABLES
    crew,        \* how many workers crew() could spawn
    wave,        \* the iteration under way, 0 before the first
    queue,       \* the positions of the wave no worker has taken
    at,          \* at[w]: what worker w is doing
    position, cursor, sent, attempted, passed,   \* its locals in work
    halted, ended, cancelled,
    outputs,     \* outputs[p]: the results recorded for the unit at p
    cut,         \* history: what cut the run short
    done         \* runAll has returned

locals == <<position, cursor, sent, attempted, passed>>
scheduleVars == <<crew, wave, queue, at, locals, halted, ended, cancelled, outputs, cut, done>>

ScheduleInit ==
    /\ crew \in Crew
    /\ wave = 0
    /\ queue = <<>>
    /\ at = [w \in Crew |-> "off"]
    /\ position = [w \in Crew |-> 1]
    /\ cursor = [w \in Crew |-> 1]
    /\ sent = [w \in Crew |-> 0]
    /\ attempted = [w \in Crew |-> {}]
    /\ passed = [w \in Crew |-> {}]
    /\ halted = FALSE
    /\ ended = {}
    /\ cancelled = FALSE
    /\ outputs = [p \in Positions |-> <<>>]
    /\ cut = {}
    /\ done = FALSE

-----------------------------------------------------------------------------
(* Faulty variants of an operation are named for their fault.  They are    *)
(* not part of the specification: each shows that a property notices it.   *)
StartWaveBeforeAllAreThrough ==
    /\ ~done
    /\ queue = <<>>
    /\ ~halted /\ ~cancelled
    /\ wave < Iterations
    /\ wave' = wave + 1
    /\ queue' = Wave(wave')
    /\ at' = [w \in Crew |-> IF at[w] = "off" /\ w <= Least(crew, Len(queue'))
                             THEN "idle" ELSE at[w]]
    /\ UNCHANGED <<crew, locals, halted, ended, cancelled, outputs, cut, done>>

(* runAll: the next iteration is queued when every worker is through, and  *)
(* perform starts no more workers than the wave has units.                 *)
StartWave ==
    /\ ~done
    /\ \A w \in Crew : at[w] = "off"
    /\ ~halted /\ ~cancelled
    /\ wave < Iterations
    /\ wave' = wave + 1
    /\ queue' = Wave(wave')
    /\ at' = [w \in Crew |-> IF w <= Least(crew, Len(queue')) THEN "idle" ELSE "off"]
    /\ UNCHANGED <<crew, locals, halted, ended, cancelled, outputs, cut, done>>

Return ==
    /\ ~done
    /\ \A w \in Crew : at[w] = "off"
    /\ halted \/ cancelled \/ wave = Iterations
    /\ done' = TRUE
    /\ UNCHANGED <<crew, wave, queue, at, locals, halted, ended, cancelled, outputs, cut>>

-----------------------------------------------------------------------------
TakeAndLeaveQueued(w) ==
    /\ at[w] = "idle"
    /\ queue # <<>>
    /\ at' = [at EXCEPT ![w] = "sending"]
    /\ position' = [position EXCEPT ![w] = Head(queue)]
    /\ cursor' = [cursor EXCEPT ![w] = 1]
    /\ sent' = [sent EXCEPT ![w] = 0]
    /\ attempted' = [attempted EXCEPT ![w] = {}]
    /\ passed' = [passed EXCEPT ![w] = {}]
    /\ UNCHANGED <<crew, wave, queue, halted, ended, cancelled, outputs, cut, done>>

(* work: a worker takes a position, and passes by it when the run or its   *)
(* iteration is over.                                                      *)
Take(w) ==
    /\ at[w] = "idle"
    /\ queue # <<>>
    /\ queue' = Tail(queue)
    /\ IF halted \/ cancelled \/ IterationOf(Head(queue)) \in ended
       THEN UNCHANGED <<at, locals>>
       ELSE /\ at' = [at EXCEPT ![w] = "sending"]
            /\ position' = [position EXCEPT ![w] = Head(queue)]
            /\ cursor' = [cursor EXCEPT ![w] = 1]
            /\ sent' = [sent EXCEPT ![w] = 0]
            /\ attempted' = [attempted EXCEPT ![w] = {}]
            /\ passed' = [passed EXCEPT ![w] = {}]
    /\ UNCHANGED <<crew, wave, halted, ended, cancelled, outputs, cut, done>>

RetireUnlessCancelled(w) ==
    /\ at[w] = "idle"
    /\ queue = <<>>
    /\ ~cancelled
    /\ at' = [at EXCEPT ![w] = "off"]
    /\ UNCHANGED <<crew, wave, queue, locals, halted, ended, cancelled, outputs, cut, done>>

Retire(w) ==
    /\ at[w] = "idle"
    /\ queue = <<>>
    /\ at' = [at EXCEPT ![w] = "off"]
    /\ UNCHANGED <<crew, wave, queue, locals, halted, ended, cancelled, outputs, cut, done>>

(* What attempt can come back with: the run-order call of the scripts (a   *)
(* target of 0 is a name no request has), whether they held the request    *)
(* back, and whether it failed.                                            *)
Attempts ==
    {o \in [action : {"none", "next", "skip", "stop", "end"}, target : 0..N,
            isSkipped : BOOLEAN, failed : BOOLEAN] :
        /\ o.action # "next" => o.target = 0
        /\ o.action = "skip" => o.isSkipped
        /\ o.isSkipped => o.action \in {"skip", "stop"} /\ ~o.failed}

(* locate: the cursor of the target inside the unit.                       *)
Targets(p, target) == {k \in 1..Size : IndexOf(p, k) = target}

IsEndlessTooLate(count) == count > Size + Repeats

(* follow, the endless loop: a jump asked for too late.                    *)
IsEndless(count) == count >= Size + Repeats

(* follow: a jump that cannot be made becomes a problem of the request.    *)
HasProblem(p, o, count) ==
    o.action = "next" /\ (IsEndless(count) \/ Targets(p, o.target) = {})

(* follow: where the worker goes next; beyond Size is the end of the unit. *)
Following(p, here, o, count) ==
    CASE o.action \in {"stop", "end"} -> Size + 1
      [] o.action = "next" /\ HasProblem(p, o, count) -> Size + 1
      [] o.action = "next" /\ ~HasProblem(p, o, count) ->
            CHOOSE k \in Targets(p, o.target) : TRUE
      [] OTHER -> here + 1

PassedByWithoutTheFirst(p, here, o, count) ==
    IF o.action \in {"next", "stop", "end"} /\ ~HasProblem(p, o, count)
    THEN {k \in 1..Size : here + 1 < k /\ k < Following(p, here, o, count)}
    ELSE {}

(* unitProgress.note: what a jump, a stop or an end leaves out.            *)
PassedBy(p, here, o, count) ==
    IF o.action \in {"next", "stop", "end"} /\ ~HasProblem(p, o, count)
    THEN {k \in 1..Size : here < k /\ k < Following(p, here, o, count)}
    ELSE {}

(* One request, from attempt to the end of record and the checks after it. *)
Attempt(w) ==
    /\ at[w] = "sending"
    /\ \E o \in Attempts :
         LET p == position[w]
             here == cursor[w]
             count == sent[w] + 1
             problem == HasProblem(p, o, count)
             bails == Bail /\ (o.failed \/ problem)
             following == Following(p, here, o, count)
         IN /\ sent' = [sent EXCEPT ![w] = count]
            /\ attempted' = [attempted EXCEPT ![w] = @ \cup {here}]
            /\ passed' = [passed EXCEPT ![w] = @ \cup PassedBy(p, here, o, count)]
            /\ outputs' = [outputs EXCEPT ![p] = Append(@,
                  [index |-> IndexOf(p, here),
                   kind |-> IF o.isSkipped THEN "skipped" ELSE "ran"])]
            /\ halted' = (halted \/ o.action = "stop" \/ problem \/ (bails /\ ~cancelled))
            /\ ended' = IF o.action = "end" THEN ended \cup {IterationOf(p)} ELSE ended
            /\ cut' = cut \cup (IF problem THEN {"problem"} ELSE {})
                          \cup (IF o.action = "stop" THEN {"stop"} ELSE {})
                          \cup (IF bails THEN {"bail"} ELSE {})
            /\ cursor' = [cursor EXCEPT ![w] = IF bails THEN here ELSE following]
            /\ at' = [at EXCEPT ![w] =
                  IF cancelled THEN "off" ELSE IF bails THEN "passing" ELSE "paused"]
    /\ UNCHANGED <<crew, wave, queue, position, cancelled, done>>

(* pause has ended, by its timer or by the context.                        *)
Resume(w) ==
    /\ at[w] = "paused"
    /\ at' = [at EXCEPT ![w] =
          IF cancelled \/ halted \/ cursor[w] > Size THEN "passing" ELSE "sending"]
    /\ UNCHANGED <<crew, wave, queue, locals, halted, ended, cancelled, outputs, cut, done>>

(* A set of cursors in increasing order: the j-th has j members up to it.  *)
InOrder(S) == [j \in 1..Cardinality(S) |->
                 CHOOSE k \in S : Cardinality({i \in S : i <= k}) = j]

(* recordPassedOver: in the order of the unit.                             *)
PassOver(w) ==
    /\ at[w] = "passing"
    /\ LET p == position[w]
           cursors == InOrder(passed[w] \ attempted[w])
       IN outputs' = [outputs EXCEPT ![p] = @ \o
            [j \in DOMAIN cursors |-> [index |-> IndexOf(p, cursors[j]), kind |-> "passed"]]]
    /\ at' = [at EXCEPT ![w] = "idle"]
    /\ UNCHANGED <<crew, wave, queue, locals, halted, ended, cancelled, cut, done>>

(* The user stops the run, or its time is up.                              *)
CancelRun ==
    /\ ~cancelled
    /\ ~done
    /\ cancelled' = TRUE
    /\ UNCHANGED <<crew, wave, queue, at, locals, halted, ended, outputs, cut, done>>

Worker(w) == Take(w) \/ Retire(w) \/ Attempt(w) \/ Resume(w) \/ PassOver(w)

ScheduleNext == StartWave \/ Return \/ CancelRun \/ \E w \in Crew : Worker(w)

(* Workers and the goroutine that waits for them keep going; every attempt *)
(* ends, because requests and scripts have a time limit.                   *)
ScheduleFairness == WF_scheduleVars(StartWave \/ Return) /\ \A w \in Crew : WF_scheduleVars(Worker(w))

ScheduleSpec == ScheduleInit /\ [][ScheduleNext]_scheduleVars /\ ScheduleFairness

-----------------------------------------------------------------------------
Results == [index : 1..N, kind : {"ran", "skipped", "passed"}]

ScheduleTypeOK ==
    /\ crew \in Crew
    /\ wave \in 0..Iterations
    /\ queue \in Seq(Positions)
    /\ at \in [Crew -> {"off", "idle", "sending", "paused", "passing"}]
    /\ position \in [Crew -> Positions]
    /\ cursor \in [Crew -> 1..(Size + 1)]
    /\ sent \in [Crew -> Nat]
    /\ attempted \in [Crew -> SUBSET (1..Size)]
    /\ passed \in [Crew -> SUBSET (1..Size)]
    /\ halted \in BOOLEAN
    /\ ended \in SUBSET (1..Iterations)
    /\ cancelled \in BOOLEAN
    /\ outputs \in [Positions -> Seq(Results)]
    /\ cut \in SUBSET {"problem", "stop", "bail"}
    /\ done \in BOOLEAN

Busy == {w \in Crew : at[w] \in {"sending", "paused", "passing"}}

(* However scripts jump, one pass through a unit sends no more than twice  *)
(* the requests it holds, less one, and Repeats more: a jump is refused    *)
(* from Size + Repeats requests on, but the last one that was allowed may  *)
(* go back to the first request and the whole unit then runs once more.    *)
PassSendBound == \A w \in Crew : sent[w] <= 2 * Size + Repeats - 1

(* What docs/runner-load-and-scan.md says of the same limit: "A pass       *)
(* through the run may send at most 1000 more requests than it holds".     *)
(* It does NOT hold.                                                       *)
DocumentedSendBound == \A w \in Crew : sent[w] <= Size + Repeats

(* Iterations run one after another: whatever a worker is busy with, and   *)
(* whatever waits in the queue, belongs to the wave under way, and nothing *)
(* of a later iteration has been recorded (docs/cli.md, --parallel).       *)
IterationsDoNotOverlap ==
    /\ \A w \in Busy : IterationOf(position[w]) = wave
    /\ \A k \in DOMAIN queue : IterationOf(queue[k]) = wave
    /\ \A p \in Positions : outputs[p] # <<>> => IterationOf(p) <= wave

(* No two workers are busy with the same unit, and a unit a worker is busy *)
(* with is not queued: outputs[position] is appended to without a lock.    *)
UnitsHaveOneWorker ==
    /\ \A v, w \in Busy : position[v] = position[w] => v = w
    /\ \A w \in Busy : \A k \in DOMAIN queue : queue[k] # position[w]

Recorded(p, kinds) == {outputs[p][j].index :
                         j \in {j \in DOMAIN outputs[p] : outputs[p][j].kind \in kinds}}

(* A request reported as passed over was not sent in that pass, and is     *)
(* reported once, even if the run jumped over it, back and over it again;  *)
(* and when a run ends by itself, every request of every pass is in the    *)
(* report as sent, held back or passed over, unless an iteration was ended *)
(* among requests sent side by side.                                       *)
CompletedRunReportsAll ==
    /\ \A p \in Positions :
         /\ Recorded(p, {"passed"}) \cap Recorded(p, {"ran", "skipped"}) = {}
         /\ \A j, k \in DOMAIN outputs[p] :
              outputs[p][j].kind = "passed" /\ outputs[p][j] = outputs[p][k] => j = k
    /\ done /\ ~cancelled /\ cut = {} =>
         \A p \in Positions :
             \/ Recorded(p, {"ran", "skipped", "passed"}) = {IndexOf(p, k) : k \in 1..Size}
             \/ ~IsSequential /\ IterationOf(p) \in ended

(* Every run ends, even one whose scripts jump back again and again, and   *)
(* even when it is cancelled while workers are in the middle of a pass.    *)
RunEnds == <>done
=============================================================================
