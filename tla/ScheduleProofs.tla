--------------------------- MODULE ScheduleProofs ---------------------------
(***************************************************************************)
(* Proofs about Schedule, for any number of requests, iterations and       *)
(* workers and any limit: a pass sends a bounded number of requests, no    *)
(* two workers are ever busy with the same unit, iterations follow one     *)
(* another, and a run that ends by itself reports every request once.      *)
(***************************************************************************)
EXTENDS Schedule, FiniteSetTheorems, SequenceTheorems, TLAPS

(* What the proofs need of the types of a worker's locals.                 *)
WorkerTypes ==
    /\ at \in [Crew -> {"off", "idle", "sending", "paused", "passing"}]
    /\ cursor \in [Crew -> 1..(Size + 1)]
    /\ sent \in [Crew -> Nat]
    /\ \A w \in Crew : at[w] = "sending" => cursor[w] <= Size

(* A jump happens only while fewer than Size + Repeats requests were sent; *)
(* from then on every request also moves the cursor on.                    *)
SentFollowsCursor ==
    \A w \in Crew : at[w] \in {"sending", "paused"} =>
        sent[w] <= Size + Repeats - 1 + (cursor[w] - 1)

(* The inductive invariant of the send bound.                              *)
SendInv == WorkerTypes /\ SentFollowsCursor /\ PassSendBound

(* A unit has at least one request.                                        *)
LEMMA SizeType == Size \in Nat \ {0} /\ Repeats \in Nat
BY ScheduleAssumption DEF Size

(* Where follow sends a worker: on by one, to the end, or, while the limit *)
(* allows it, to any request of the unit.                                  *)
LEMMA FollowingType ==
    ASSUME NEW p, NEW here \in 1..Size, NEW o \in Attempts, NEW count \in Nat
    PROVE  LET k == Following(p, here, o, count) IN
           /\ k \in 1..(Size + 1)
           /\ k = here + 1 \/ k = Size + 1 \/ count < Size + Repeats
<1>1. CASE o.action \in {"stop", "end"}
  BY <1>1, SizeType DEF Following
<1>2. CASE o.action = "next" /\ HasProblem(p, o, count)
  BY <1>2, SizeType DEF Following
<1>3. CASE o.action = "next" /\ ~HasProblem(p, o, count)
  <2>1. Targets(p, o.target) # {} /\ count < Size + Repeats
    BY <1>3, SizeType DEF HasProblem, IsEndless
  <2>2. (CHOOSE k \in Targets(p, o.target) : TRUE) \in 1..Size
    BY <2>1 DEF Targets
  <2>3. Following(p, here, o, count) = (CHOOSE k \in Targets(p, o.target) : TRUE)
    BY <1>3 DEF Following
  <2> QED BY <2>1, <2>2, <2>3, SizeType
<1>4. CASE o.action \notin {"next", "stop", "end"}
  BY <1>4, SizeType DEF Following
<1> QED BY <1>1, <1>2, <1>3, <1>4

(* A request that is attempted keeps the bound, whatever its scripts ask.  *)
LEMMA AttemptKeepsBound == ASSUME SendInv, NEW w \in Crew, Attempt(w) PROVE SendInv'
<1> DEFINE here == cursor[w]
           count == sent[w] + 1
<1>1. PICK o \in Attempts :
        LET bails == Bail /\ (o.failed \/ HasProblem(position[w], o, count))
        IN /\ sent' = [sent EXCEPT ![w] = count]
           /\ cursor' = [cursor EXCEPT ![w] =
                 IF bails THEN here ELSE Following(position[w], here, o, count)]
           /\ at' = [at EXCEPT ![w] =
                 IF cancelled THEN "off" ELSE IF bails THEN "passing" ELSE "paused"]
  BY DEF Attempt
<1>2. here \in 1..Size /\ count \in Nat /\ count <= Size + Repeats - 1 + here
  BY SizeType DEF Attempt, SendInv, WorkerTypes, SentFollowsCursor
<1>3. WorkerTypes'
  BY <1>1, <1>2, FollowingType, SizeType DEF SendInv, WorkerTypes
<1>4. SentFollowsCursor'
  <2>1. \A v \in Crew \ {w} : at'[v] = at[v] /\ cursor'[v] = cursor[v] /\ sent'[v] = sent[v]
    BY <1>1 DEF SendInv, WorkerTypes
  <2>2. at'[w] = "paused" => cursor'[w] = Following(position[w], here, o, count)
    BY <1>1 DEF SendInv, WorkerTypes
  <2>3. sent'[w] = count /\ at'[w] # "sending"
    BY <1>1 DEF SendInv, WorkerTypes
  <2>4. at'[w] = "paused" => count <= Size + Repeats - 1 + (cursor'[w] - 1)
    BY <1>2, <2>2, FollowingType, SizeType
  <2> QED BY <2>1, <2>3, <2>4 DEF SendInv, SentFollowsCursor
<1>5. PassSendBound'
  BY <1>1, <1>2, SizeType DEF SendInv, WorkerTypes, PassSendBound
<1> QED BY <1>3, <1>4, <1>5 DEF SendInv

(* Every step of a run keeps the bound.                                    *)
LEMMA StepKeepsBound == SendInv /\ [ScheduleNext]_scheduleVars => SendInv'
<1> SUFFICES ASSUME SendInv, [ScheduleNext]_scheduleVars PROVE SendInv'
  OBVIOUS
<1> USE SizeType DEF SendInv, WorkerTypes, SentFollowsCursor, PassSendBound
<1>1. CASE StartWave
  BY <1>1 DEF StartWave, locals
<1>2. CASE Return \/ CancelRun
  BY <1>2 DEF Return, CancelRun, locals
<1>3. ASSUME NEW w \in Crew, Take(w) PROVE SendInv'
  <2>1. \/ UNCHANGED <<at, cursor, sent>>
        \/ /\ at' = [at EXCEPT ![w] = "sending"]
           /\ cursor' = [cursor EXCEPT ![w] = 1]
           /\ sent' = [sent EXCEPT ![w] = 0]
    BY <1>3, Zenon DEF Take, locals
  <2> QED BY <2>1
<1>4. ASSUME NEW w \in Crew, Retire(w) \/ PassOver(w) PROVE SendInv'
  BY <1>4 DEF Retire, PassOver, locals
<1>5. ASSUME NEW w \in Crew, Attempt(w) PROVE SendInv'
  BY <1>5, AttemptKeepsBound
<1>6. ASSUME NEW w \in Crew, Resume(w) PROVE SendInv'
  BY <1>6 DEF Resume, locals
<1>7. CASE UNCHANGED scheduleVars
  BY <1>7 DEF scheduleVars, locals
<1> QED BY <1>1, <1>2, <1>3, <1>4, <1>5, <1>6, <1>7 DEF ScheduleNext, Worker

(* However scripts jump, one pass sends fewer requests than twice the unit *)
(* and Repeats together.                                                   *)
THEOREM PassesAreBounded == ScheduleSpec => []PassSendBound
<1>1. ScheduleInit => SendInv
  BY SizeType DEF ScheduleInit, SendInv, WorkerTypes, SentFollowsCursor, PassSendBound
<1>2. SendInv => PassSendBound
  BY DEF SendInv
<1> QED BY <1>1, <1>2, StepKeepsBound, PTL DEF ScheduleSpec
-----------------------------------------------------------------------------
(* A queue holds each of its units once.                                   *)
QueueHasNoRepeats ==
    \A j, k \in 1..Len(queue) : queue[j] = queue[k] => j = k

(* The inductive invariant of the exclusive use of units.                  *)
UnitInv ==
    /\ at \in [Crew -> {"off", "idle", "sending", "paused", "passing"}]
    /\ position \in [Crew -> Int]
    /\ queue \in Seq(Int)
    /\ wave \in Nat
    /\ QueueHasNoRepeats
    /\ UnitsHaveOneWorker

(* The units of an iteration are different from each other.                *)
LEMMA WaveHasNoRepeats ==
    ASSUME NEW i \in Nat
    PROVE  /\ Wave(i) \in Seq(Int)
           /\ \A j, k \in 1..Len(Wave(i)) : Wave(i)[j] = Wave(i)[k] => j = k
<1>1. CASE IsSequential
  BY <1>1 DEF Wave
<1>2. CASE ~IsSequential
  <2> DEFINE base == (i - 1) * N
  <2>1. base \in Int /\ N \in Nat
    BY ScheduleAssumption
  <2> HIDE DEF base
  <2>2. [k \in 1..N |-> base + k] \in Seq(Int) /\ Len([k \in 1..N |-> base + k]) = N
    BY <2>1
  <2>3. Wave(i) = [k \in 1..N |-> base + k]
    BY <1>2 DEF Wave, base
  <2>4. \A j, k \in 1..N : base + j = base + k => j = k
    BY <2>1
  <2> QED BY <2>1, <2>2, <2>3, <2>4
<1> QED BY <1>1, <1>2

(* Every step of a run keeps units exclusive.                              *)
LEMMA StepKeepsUnits == UnitInv /\ [ScheduleNext]_scheduleVars => UnitInv'
<1> SUFFICES ASSUME UnitInv, [ScheduleNext]_scheduleVars PROVE UnitInv'
  OBVIOUS
<1> USE DEF UnitInv, QueueHasNoRepeats, UnitsHaveOneWorker, Busy
<1>1. CASE StartWave
  <2>1. wave' \in Nat /\ queue' = Wave(wave') /\ position' = position
    BY <1>1 DEF StartWave, locals
  <2>2. at' \in [Crew -> {"off", "idle", "sending", "paused", "passing"}] /\ Busy' = {}
    BY <1>1 DEF StartWave
  <2>3. queue' \in Seq(Int) /\ QueueHasNoRepeats'
    BY <2>1, WaveHasNoRepeats
  <2> QED BY <2>1, <2>2, <2>3
<1>2. CASE Return \/ CancelRun
  BY <1>2 DEF Return, CancelRun, locals
<1>3. ASSUME NEW w \in Crew, Take(w) PROVE UnitInv'
  <2>1. queue # <<>> /\ queue' = Tail(queue) /\ at[w] = "idle" /\ wave' = wave
    BY <1>3 DEF Take
  <2>2. \/ UNCHANGED <<at, position>>
        \/ /\ at' = [at EXCEPT ![w] = "sending"]
           /\ position' = [position EXCEPT ![w] = Head(queue)]
    BY <1>3, Zenon DEF Take, locals
  <2>3. /\ queue' \in Seq(Int) /\ Len(queue) \in Nat /\ Len(queue') = Len(queue) - 1
        /\ \A k \in 1..Len(queue') : k + 1 \in 1..Len(queue) /\ queue'[k] = queue[k + 1]
        /\ Head(queue) = queue[1] /\ 1 \in 1..Len(queue) /\ Head(queue) \in Int
    BY <2>1
  <2>4. QueueHasNoRepeats'
    <3> SUFFICES ASSUME NEW j \in 1..Len(queue'), NEW k \in 1..Len(queue'), queue'[j] = queue'[k]
                 PROVE  j = k
      OBVIOUS
    <3>1. queue[j + 1] = queue[k + 1] /\ j + 1 \in 1..Len(queue) /\ k + 1 \in 1..Len(queue)
      BY <2>3
    <3>2. j + 1 = k + 1
      BY <3>1
    <3> QED BY <3>2, <2>3
  <2>5. \A k \in 1..Len(queue') : queue'[k] # Head(queue)
    <3> SUFFICES ASSUME NEW k \in 1..Len(queue'), queue'[k] = Head(queue) PROVE FALSE
      OBVIOUS
    <3>1. queue[k + 1] = queue[1] /\ k + 1 \in 1..Len(queue)
      BY <2>3
    <3>2. k + 1 = 1
      BY <2>3, <3>1
    <3> QED BY <2>3, <3>2
  <2>6. DOMAIN queue = 1..Len(queue) /\ DOMAIN queue' = 1..Len(queue')
    BY <2>3
  <2>7. \A v \in Busy : /\ position[v] # Head(queue)
                       /\ \A k \in 1..Len(queue') : queue'[k] # position[v]
    <3>1. \A v \in Busy : \A k \in 1..Len(queue) : queue[k] # position[v]
      BY <2>6
    <3> QED BY <2>3, <3>1, SMTT(20)
  <2>8. \A v \in Busy' :
          \/ v \in Busy /\ position'[v] = position[v]
          \/ v = w /\ position'[v] = Head(queue)
    <3>1. CASE UNCHANGED <<at, position>>
      BY <3>1
    <3>2. CASE /\ at' = [at EXCEPT ![w] = "sending"]
               /\ position' = [position EXCEPT ![w] = Head(queue)]
      BY <3>2
    <3> QED BY <2>2, <3>1, <3>2
  <2>9. UnitsHaveOneWorker'
    <3>1. \A v \in Busy' : \A k \in DOMAIN queue' : queue'[k] # position'[v]
      BY <2>5, <2>6, <2>7, <2>8
    <3>2. \A u, v \in Busy' : position'[u] = position'[v] => u = v
      <4> SUFFICES ASSUME NEW u \in Busy', NEW v \in Busy', position'[u] = position'[v]
                   PROVE  u = v
        BY Zenon
      <4>1. CASE u \in Busy /\ position'[u] = position[u]
        BY <2>7, <2>8, <4>1
      <4>2. CASE u = w /\ position'[u] = Head(queue)
        BY <2>7, <2>8, <4>2
      <4> QED BY <2>8, <4>1, <4>2
    <3> QED BY <3>1, <3>2
  <2>10. position' \in [Crew -> Int]
         /\ at' \in [Crew -> {"off", "idle", "sending", "paused", "passing"}]
    BY <2>2, <2>3
  <2> QED BY <2>1, <2>3, <2>4, <2>9, <2>10
<1>4. ASSUME NEW w \in Crew, Retire(w) \/ PassOver(w) \/ Resume(w) PROVE UnitInv'
  BY <1>4, ZenonT(30) DEF Retire, PassOver, Resume, locals
<1>5. ASSUME NEW w \in Crew, Attempt(w) PROVE UnitInv'
  <2>1. /\ at[w] = "sending"
        /\ UNCHANGED <<queue, position, wave>>
        /\ \E x \in {"off", "passing", "paused"} : at' = [at EXCEPT ![w] = x]
    BY <1>5 DEF Attempt
  <2> QED BY <2>1
<1>6. CASE UNCHANGED scheduleVars
  BY <1>6 DEF scheduleVars, locals
<1> QED BY <1>1, <1>2, <1>3, <1>4, <1>5, <1>6 DEF ScheduleNext, Worker

(* No two workers are ever busy with one unit, so the unlocked append to   *)
(* outputs[position] never races another.                                  *)
THEOREM UnitsAreExclusive == ScheduleSpec => []UnitsHaveOneWorker
<1>1. ScheduleInit => UnitInv
  BY DEF ScheduleInit, UnitInv, QueueHasNoRepeats, UnitsHaveOneWorker, Busy
<1>2. UnitInv => UnitsHaveOneWorker
  BY DEF UnitInv
<1> QED BY <1>1, <1>2, StepKeepsUnits, PTL DEF ScheduleSpec
-----------------------------------------------------------------------------
(* Division by the number of requests, as planUnits relies on it.          *)
LEMMA Division ==
    ASSUME NEW n \in Nat \ {0}, NEW x \in Int
    PROVE  /\ x \div n \in Int
           /\ x % n \in 0..(n - 1)
           /\ x = n * (x \div n) + (x % n)
BY SMT

LEMMA Quotient ==
    ASSUME NEW n \in Nat \ {0}, NEW q \in Int, NEW r \in 0..(n - 1)
    PROVE  (n * q + r) \div n = q
BY SMT

(* A unit belongs to an iteration of the run, and its requests are         *)
(* different requests of it.                                               *)
LEMMA UnitType ==
    ASSUME NEW p \in Positions
    PROVE  /\ p \in Int
           /\ IterationOf(p) \in 1..Iterations
           /\ \A k \in 1..Size : IndexOf(p, k) \in 1..N
           /\ \A j, k \in 1..Size : IndexOf(p, j) = IndexOf(p, k) => j = k
<1> USE ScheduleAssumption
<1>1. CASE IsSequential
  BY <1>1 DEF Positions, IterationOf, IndexOf, Size
<1>2. CASE ~IsSequential
  <2>1. Size = 1 /\ p \in 1..(Iterations * N)
    BY <1>2 DEF Size, Positions
  <2> DEFINE q == (p - 1) \div N
             r == (p - 1) % N
  <2>2. q \in Int /\ r \in 0..(N - 1) /\ p - 1 = N * q + r
    BY <2>1, Division
  <2> HIDE DEF q, r
  <2>3. 0 <= p - 1 /\ p - 1 < Iterations * N /\ p \in Int
    BY <2>1
  <2>4. 0 <= q
    <3> SUFFICES ASSUME q <= -1 PROVE FALSE
      BY <2>2
    <3>1. N * q <= -N
      BY <2>2
    <3> QED BY <2>2, <2>3, <3>1
  <2>5. q < Iterations
    <3> SUFFICES ASSUME q >= Iterations PROVE FALSE
      BY <2>2
    <3>1. N * q >= Iterations * N
      BY <2>2
    <3> QED BY <2>2, <2>3, <3>1
  <2>6. IterationOf(p) = q + 1 /\ \A k \in 1..Size : IndexOf(p, k) = r + 1
    BY <1>2 DEF IterationOf, IndexOf, q, r
  <2> QED BY <2>1, <2>2, <2>3, <2>4, <2>5, <2>6
<1> QED BY <1>1, <1>2

(* A wave holds the units of its iteration, all of them and no others.     *)
LEMMA WaveIsItsIteration ==
    ASSUME NEW i \in 1..Iterations
    PROVE  /\ Wave(i) \in Seq(Positions)
           /\ Len(Wave(i)) \in Nat \ {0}
           /\ \A k \in 1..Len(Wave(i)) : IterationOf(Wave(i)[k]) = i
           /\ \A p \in Positions : IterationOf(p) = i => \E k \in 1..Len(Wave(i)) : Wave(i)[k] = p
<1> USE ScheduleAssumption
<1>1. CASE IsSequential
  <2>1. i \in Positions /\ Wave(i) = <<i>> /\ \A p \in Positions : IterationOf(p) = p
    BY <1>1 DEF Wave, Positions, IterationOf
  <2> QED BY <2>1
<1>2. CASE ~IsSequential
  <2> DEFINE base == N * (i - 1)
             Plan == [k \in 1..N |-> base + k]
  <2>1. base \in Nat /\ base + N <= Iterations * N /\ base = (i - 1) * N
    <3>1. N * (i - 1) >= 0 /\ N * (i - 1) + N = N * i
      BY SMT
    <3>2. N * i <= Iterations * N
      BY SMT
    <3> QED BY <3>1, <3>2
  <2>2. Wave(i) = Plan
    BY <1>2, <2>1 DEF Wave
  <2> HIDE DEF base
  <2>3. \A k \in 1..N : base + k \in Positions
    BY <1>2, <2>1 DEF Positions
  <2>4. Plan \in Seq(Positions) /\ Len(Plan) = N /\ \A k \in 1..N : Plan[k] = base + k
    BY <2>3
  <2>5. ASSUME NEW k \in 1..N PROVE IterationOf(base + k) = i
    <3>1. base + k - 1 = N * (i - 1) + (k - 1) /\ k - 1 \in 0..(N - 1) /\ i - 1 \in Int
      BY <2>1 DEF base
    <3>2. (base + k - 1) \div N = i - 1
      BY <3>1, Quotient
    <3>3. IterationOf(base + k) = ((base + k - 1) \div N) + 1
      BY <1>2, <2>1 DEF IterationOf
    <3> QED BY <3>2, <3>3
  <2>6. ASSUME NEW p \in Positions, IterationOf(p) = i PROVE \E k \in 1..N : base + k = p
    <3>4. p \in Int /\ p - 1 \in Int
      BY UnitType
    <3>5. /\ (p - 1) \div N \in Int /\ (p - 1) % N \in 0..(N - 1)
          /\ p - 1 = N * ((p - 1) \div N) + ((p - 1) % N)
      BY <3>4, Division
    <3>6. i = ((p - 1) \div N) + 1
      BY <1>2, <2>6 DEF IterationOf
    <3>1. p \in Int /\ (p - 1) \div N = i - 1
      BY <3>4, <3>5, <3>6
    <3>2. p - 1 = N * (i - 1) + ((p - 1) % N) /\ (p - 1) % N \in 0..(N - 1)
      BY <3>1, <3>5
    <3>3. p = base + (((p - 1) % N) + 1) /\ ((p - 1) % N) + 1 \in 1..N
      BY <3>1, <3>2 DEF base
    <3> QED BY <3>3
  <2> HIDE DEF Plan
  <2> QED BY <2>2, <2>4, <2>5, <2>6
<1> QED BY <1>1, <1>2

(* InOrder lists the whole set, in increasing order.                       *)
LEMMA InOrderListsAll ==
    ASSUME NEW n \in Nat, NEW S \in SUBSET (1..n)
    PROVE  /\ Cardinality(S) \in Nat
           /\ InOrder(S) \in [1..Cardinality(S) -> S]
           /\ \A k \in S : \E j \in 1..Cardinality(S) : InOrder(S)[j] = k
           /\ \A j, k \in 1..Cardinality(S) : j < k => InOrder(S)[j] < InOrder(S)[k]
<1> DEFINE UpTo(k) == {i \in S : i <= k}
           rank == [k \in S |-> Cardinality(UpTo(k))]
           size == Cardinality(S)
<1>0. \A k \in S : k \in Int
  OBVIOUS
<1>1. IsFiniteSet(S) /\ size \in Nat
  <2>1. IsFiniteSet(1..n)
    BY FS_Interval
  <2> QED BY <2>1, FS_Subset, FS_CardinalityType
<1>2. \A k \in S : IsFiniteSet(UpTo(k)) /\ Cardinality(UpTo(k)) \in 1..size
  <2> SUFFICES ASSUME NEW k \in S PROVE IsFiniteSet(UpTo(k)) /\ Cardinality(UpTo(k)) \in 1..size
    OBVIOUS
  <2>1. UpTo(k) \in SUBSET S /\ k \in UpTo(k)
    OBVIOUS
  <2>2. IsFiniteSet(UpTo(k)) /\ Cardinality(UpTo(k)) <= size
    BY <1>1, <2>1, FS_Subset
  <2>3. Cardinality(UpTo(k)) \in Nat /\ Cardinality(UpTo(k)) # 0
    BY <2>1, <2>2, FS_CardinalityType, FS_EmptySet
  <2> QED BY <1>1, <2>2, <2>3
<1>3. ASSUME NEW j \in S, NEW k \in S, j < k
      PROVE  Cardinality(UpTo(j)) < Cardinality(UpTo(k))
  <2>0. j \in Int /\ k \in Int
    BY <1>0
  <2>1. UpTo(j) \in SUBSET UpTo(k) /\ k \in UpTo(k) /\ k \notin UpTo(j)
    <3>1. \A i \in S : i <= j => i <= k
      BY <1>0, <1>3, <2>0
    <3>2. k <= k /\ ~(k <= j)
      BY <1>3, <2>0
    <3> QED BY <3>1, <3>2
  <2>2. Cardinality(UpTo(j)) <= Cardinality(UpTo(k)) /\ Cardinality(UpTo(j)) # Cardinality(UpTo(k))
    BY <1>2, <2>1, FS_Subset
  <2> QED BY <1>2, <2>2
<1>4. rank \in Injection(S, 1..size)
  <2>1. rank \in [S -> 1..size]
    BY <1>2
  <2>2. ASSUME NEW j \in S, NEW k \in S, rank[j] = rank[k] PROVE j = k
    <3>1. j < k \/ k < j \/ j = k
      OBVIOUS
    <3>2. Cardinality(UpTo(j)) = Cardinality(UpTo(k)) /\ Cardinality(UpTo(k)) \in Nat
      BY <1>2, <2>2
    <3> QED BY <1>3, <3>1, <3>2
  <2> QED BY <2>1, <2>2 DEF Injection, IsInjective
<1>5. rank \in Surjection(S, 1..size)
  <2>1. IsFiniteSet(1..size) /\ Cardinality(1..size) = size
    BY <1>1, FS_Interval
  <2> QED BY <1>4, <2>1, FS_Injection
<1>6. \A j \in 1..size : \E k \in S : Cardinality(UpTo(k)) = j
  BY <1>5 DEF Surjection
<1>7. \A j \in 1..size : InOrder(S)[j] \in S /\ Cardinality(UpTo(InOrder(S)[j])) = j
  BY <1>6 DEF InOrder
<1>8. InOrder(S) \in [1..size -> S]
  BY <1>7 DEF InOrder
<1>9. ASSUME NEW k \in S PROVE \E j \in 1..size : InOrder(S)[j] = k
  <2>1. PICK j \in 1..size : j = Cardinality(UpTo(k))
    BY <1>2
  <2>2. InOrder(S)[j] \in S /\ rank[InOrder(S)[j]] = rank[k]
    BY <1>7, <2>1
  <2> QED BY <1>4, <2>2 DEF Injection, IsInjective
<1>10. ASSUME NEW j \in 1..size, NEW k \in 1..size, j < k
       PROVE  InOrder(S)[j] < InOrder(S)[k]
  <2>1. PICK a \in S : a = InOrder(S)[j] /\ Cardinality(UpTo(a)) = j
    BY <1>7
  <2>2. PICK b \in S : b = InOrder(S)[k] /\ Cardinality(UpTo(b)) = k
    BY <1>7
  <2>3. a # b
    BY <1>10, <2>1, <2>2
  <2>4. ~(b < a)
    <3> SUFFICES ASSUME b < a PROVE FALSE
      OBVIOUS
    <3>1. Cardinality(UpTo(b)) < Cardinality(UpTo(a))
      BY <1>3
    <3> HIDE DEF UpTo
    <3> QED BY <1>10, <2>1, <2>2, <3>1
  <2>5. a \in Int /\ b \in Int
    BY <1>0
  <2>6. a < b
    BY <2>3, <2>4, <2>5
  <2> QED BY <2>1, <2>2, <2>6
<1> QED BY <1>1, <1>8, <1>9, <1>10
-----------------------------------------------------------------------------
(* The types, with what makes them inductive: a worker sends only from a   *)
(* cursor inside its unit.                                                 *)
RunTypes ==
    /\ ScheduleTypeOK
    /\ \A w \in Crew : at[w] = "sending" => cursor[w] <= Size

(* What is recorded of a unit is recorded of its requests, and what was    *)
(* passed over is recorded once and of nothing that was sent.              *)
RecordsFit(p) ==
    /\ \A j \in 1..Len(outputs[p]) : \E k \in 1..Size : outputs[p][j].index = IndexOf(p, k)
    /\ \A j, k \in 1..Len(outputs[p]) :
          outputs[p][j].kind = "passed" /\ outputs[p][j].index = outputs[p][k].index => j = k

(* Every request of the unit is recorded.                                  *)
IsToldInFull(p) ==
    \A k \in 1..Size : \E j \in 1..Len(outputs[p]) : outputs[p][j].index = IndexOf(p, k)

IsUncut == cut = {} /\ ~cancelled

(* While a worker is in a unit, what is recorded there is what it has      *)
(* attempted, and unless the run is cut short everything before its cursor *)
(* was attempted or passed over.                                           *)
PassFits(w) ==
    LET p == position[w] IN
    /\ \A j \in 1..Len(outputs[p]) :
          /\ outputs[p][j].kind # "passed"
          /\ \E k \in attempted[w] : outputs[p][j].index = IndexOf(p, k)
    /\ \A k \in attempted[w] : \E j \in 1..Len(outputs[p]) : outputs[p][j].index = IndexOf(p, k)
    /\ IsUncut => \A k \in 1..Size :
          k < cursor[w] \/ at[w] = "passing" => k \in attempted[w] \cup passed[w]

Queued == {queue[k] : k \in 1..Len(queue)}
Taken == {position[w] : w \in Busy}

(* A unit that is queued is untouched, and one of this or an earlier wave  *)
(* that nobody has is told in full, unless its iteration was ended.        *)
UnitsFit ==
    /\ \A p \in Queued : outputs[p] = <<>>
    /\ IsUncut => \A p \in Positions :
          IterationOf(p) <= wave /\ p \notin Queued \cup Taken =>
              IsToldInFull(p) \/ (~IsSequential /\ IterationOf(p) \in ended)

(* How a run can be over: halted tells why, an iteration that was ended    *)
(* was begun, the queue is not left alone and done is final.               *)
EndingFits ==
    /\ halted => cut # {}
    /\ \A i \in ended : IsSequential => outputs[i] # <<>>
    /\ ~cancelled /\ queue # <<>> => \E w \in Crew : at[w] # "off"
    /\ done => /\ \A w \in Crew : at[w] = "off"
               /\ halted \/ cancelled \/ wave = Iterations

TellingInv ==
    /\ IterationsDoNotOverlap
    /\ \A p \in Positions : RecordsFit(p)
    /\ \A w \in Busy : PassFits(w)
    /\ UnitsFit
    /\ EndingFits

(* The inductive invariant of the report.                                  *)
RunInv == RunTypes /\ QueueHasNoRepeats /\ UnitsHaveOneWorker /\ TellingInv

(* The steps of a run keep the types.                                      *)
LEMMA TakeKeepsTypes == ASSUME RunTypes, NEW w \in Crew, Take(w) PROVE RunTypes'
<1> USE DEF RunTypes, ScheduleTypeOK
<1>1. queue # <<>> /\ queue' = Tail(queue) /\ UNCHANGED <<crew, wave, halted, ended, cancelled, outputs, cut, done>>
  BY DEF Take
<1>2. \/ UNCHANGED <<at, position, cursor, sent, attempted, passed>>
      \/ /\ at' = [at EXCEPT ![w] = "sending"]
         /\ position' = [position EXCEPT ![w] = Head(queue)]
         /\ cursor' = [cursor EXCEPT ![w] = 1]
         /\ sent' = [sent EXCEPT ![w] = 0]
         /\ attempted' = [attempted EXCEPT ![w] = {}]
         /\ passed' = [passed EXCEPT ![w] = {}]
  BY Zenon DEF Take, locals
<1>3. queue' \in Seq(Positions) /\ Head(queue) \in Positions
  BY <1>1
<1>4. at' \in [Crew -> {"off", "idle", "sending", "paused", "passing"}]
  BY <1>2
<1>9. sent' \in [Crew -> Nat]
  <2>1. sent' = sent \/ sent' = [sent EXCEPT ![w] = 0]
    BY <1>2
  <2> QED BY <2>1
<1>7. position' \in [Crew -> Positions]
  BY <1>2, <1>3
<1>8. cursor' \in [Crew -> 1..(Size + 1)]
  <2>1. 1 \in 1..(Size + 1)
    BY SizeType
  <2>2. cursor' = cursor \/ cursor' = [cursor EXCEPT ![w] = 1]
    BY <1>2
  <2> QED BY <2>1, <2>2
<1>5. attempted' \in [Crew -> SUBSET (1..Size)] /\ passed' \in [Crew -> SUBSET (1..Size)]
  BY <1>2
<1>6. \A v \in Crew : at'[v] = "sending" => cursor'[v] <= Size
  BY <1>2, SizeType
<1> QED BY <1>1, <1>3, <1>4, <1>5, <1>6, <1>7, <1>8, <1>9

LEMMA AttemptKeepsTypes == ASSUME RunTypes, NEW w \in Crew, Attempt(w) PROVE RunTypes'
<1> USE DEF RunTypes, ScheduleTypeOK
<1> DEFINE p == position[w]
           here == cursor[w]
           count == sent[w] + 1
<1>1. PICK o \in Attempts :
        LET problem == HasProblem(p, o, count)
            bails == Bail /\ (o.failed \/ problem)
        IN /\ sent' = [sent EXCEPT ![w] = count]
           /\ attempted' = [attempted EXCEPT ![w] = @ \cup {here}]
           /\ passed' = [passed EXCEPT ![w] = @ \cup PassedBy(p, here, o, count)]
           /\ outputs' = [outputs EXCEPT ![p] = Append(@,
                 [index |-> IndexOf(p, here), kind |-> IF o.isSkipped THEN "skipped" ELSE "ran"])]
           /\ halted' = (halted \/ o.action = "stop" \/ problem \/ (bails /\ ~cancelled))
           /\ ended' = IF o.action = "end" THEN ended \cup {IterationOf(p)} ELSE ended
           /\ cut' = cut \cup (IF problem THEN {"problem"} ELSE {})
                         \cup (IF o.action = "stop" THEN {"stop"} ELSE {})
                         \cup (IF bails THEN {"bail"} ELSE {})
           /\ cursor' = [cursor EXCEPT ![w] = IF bails THEN here ELSE Following(p, here, o, count)]
           /\ at' = [at EXCEPT ![w] =
                 IF cancelled THEN "off" ELSE IF bails THEN "passing" ELSE "paused"]
  BY Zenon DEF Attempt
<1>2. here \in 1..Size /\ count \in Nat /\ p \in Positions
  BY SizeType DEF Attempt
<1> HIDE DEF p, here, count
<1>3. IterationOf(p) \in 1..Iterations /\ IndexOf(p, here) \in 1..N
  BY <1>2, UnitType
<1>4. Following(p, here, o, count) \in 1..(Size + 1) /\ here \in 1..(Size + 1)
  BY <1>2, FollowingType, SizeType
<1>5. PassedBy(p, here, o, count) \subseteq 1..Size
  BY DEF PassedBy
<1>6. /\ sent' \in [Crew -> Nat] /\ cursor' \in [Crew -> 1..(Size + 1)]
      /\ at' \in [Crew -> {"off", "idle", "sending", "paused", "passing"}]
  BY <1>1, <1>2, <1>4
<1>7. attempted' \in [Crew -> SUBSET (1..Size)] /\ passed' \in [Crew -> SUBSET (1..Size)]
  BY <1>1, <1>2, <1>5
<1>8. outputs' \in [Positions -> Seq(Results)]
  <2>1. [index |-> IndexOf(p, here), kind |-> IF o.isSkipped THEN "skipped" ELSE "ran"] \in Results
    BY <1>3 DEF Results
  <2> QED BY <1>1, <1>2, <2>1
<1>9. ended' \in SUBSET (1..Iterations) /\ cut' \in SUBSET {"problem", "stop", "bail"}
  BY <1>1, <1>3
<1>10. halted' \in BOOLEAN
  BY <1>1, Zenon
<1>11. \A v \in Crew : at'[v] = "sending" => cursor'[v] <= Size
  <2>1. at'[w] # "sending"
    BY <1>1
  <2>2. \A v \in Crew \ {w} : at'[v] = at[v] /\ cursor'[v] = cursor[v]
    BY <1>1
  <2> QED BY <2>1, <2>2
<1>12. UNCHANGED <<crew, wave, queue, position, cancelled, done>>
  BY DEF Attempt
<1> QED BY <1>6, <1>7, <1>8, <1>9, <1>10, <1>11, <1>12

(* The results of requests passed over.                                    *)
LEMMA PassedOverType ==
    ASSUME NEW p \in Positions, NEW S \in SUBSET (1..Size)
    PROVE  LET cursors == InOrder(S) IN
           /\ [j \in DOMAIN cursors |-> [index |-> IndexOf(p, cursors[j]), kind |-> "passed"]]
                 \in Seq(Results)
           /\ DOMAIN cursors = 1..Cardinality(S)
           /\ Cardinality(S) \in Nat
<1>1. Size \in Nat
  BY SizeType
<1>2. Cardinality(S) \in Nat /\ InOrder(S) \in [1..Cardinality(S) -> S]
  BY <1>1, InOrderListsAll
<1>3. \A j \in 1..Cardinality(S) : IndexOf(p, InOrder(S)[j]) \in 1..N
  BY <1>2, UnitType
<1>4. DOMAIN InOrder(S) = 1..Cardinality(S)
  BY <1>2
<1>5. \A j \in 1..Cardinality(S) : [index |-> IndexOf(p, InOrder(S)[j]), kind |-> "passed"] \in Results
  BY <1>3 DEF Results
<1> DEFINE result(j) == [index |-> IndexOf(p, InOrder(S)[j]), kind |-> "passed"]
<1>6. [j \in 1..Cardinality(S) |-> result(j)] \in [1..Cardinality(S) -> Results]
  BY <1>5
<1> HIDE DEF result
<1>7. [j \in 1..Cardinality(S) |-> result(j)] \in Seq(Results)
  BY <1>2, <1>6
<1> QED BY <1>2, <1>4, <1>7 DEF result

LEMMA StepKeepsTypes == RunTypes /\ [ScheduleNext]_scheduleVars => RunTypes'
<1> SUFFICES ASSUME RunTypes, [ScheduleNext]_scheduleVars PROVE RunTypes'
  OBVIOUS
<1> USE DEF RunTypes, ScheduleTypeOK
<1>1. CASE StartWave
  <2>1. wave' \in 1..Iterations /\ queue' = Wave(wave') /\ UNCHANGED <<crew, locals, halted, ended, cancelled, outputs, cut, done>>
    BY <1>1, ScheduleAssumption DEF StartWave
  <2>2. at' \in [Crew -> {"off", "idle"}]
    BY <1>1 DEF StartWave
  <2>3. queue' \in Seq(Positions)
    BY <2>1, WaveIsItsIteration
  <2>4. at' \in [Crew -> {"off", "idle", "sending", "paused", "passing"}]
        /\ \A w \in Crew : at'[w] # "sending"
    BY <2>2
  <2>5. wave' \in 0..Iterations
    BY <2>1, ScheduleAssumption
  <2> QED BY <2>1, <2>3, <2>4, <2>5 DEF locals
<1>2. CASE Return \/ CancelRun
  BY <1>2 DEF Return, CancelRun, locals
<1>3. ASSUME NEW w \in Crew, Take(w) PROVE RunTypes'
  BY <1>3, TakeKeepsTypes
<1>4. ASSUME NEW w \in Crew, Retire(w) PROVE RunTypes'
  BY <1>4 DEF Retire, locals
<1>5. ASSUME NEW w \in Crew, Attempt(w) PROVE RunTypes'
  BY <1>5, AttemptKeepsTypes
<1>6. ASSUME NEW w \in Crew, Resume(w) PROVE RunTypes'
  BY <1>6, SizeType DEF Resume, locals
<1>7. ASSUME NEW w \in Crew, PassOver(w) PROVE RunTypes'
  <2> DEFINE cursors == InOrder(passed[w] \ attempted[w])
             more == [j \in DOMAIN cursors |-> [index |-> IndexOf(position[w], cursors[j]), kind |-> "passed"]]
  <2>1. outputs' = [outputs EXCEPT ![position[w]] = @ \o more]
    BY <1>7, Zenon DEF PassOver
  <2>2. more \in Seq(Results)
    BY PassedOverType, ZenonT(30)
  <2> HIDE DEF more
  <2>3. outputs' \in [Positions -> Seq(Results)]
    BY <2>1, <2>2
  <2> QED BY <1>7, <2>3 DEF PassOver, locals
<1>8. CASE UNCHANGED scheduleVars
  BY <1>8 DEF scheduleVars, locals
<1> QED BY <1>1, <1>2, <1>3, <1>4, <1>5, <1>6, <1>7, <1>8 DEF ScheduleNext, Worker

LEMMA InitTypes == ScheduleInit => RunTypes
<1> SUFFICES ASSUME ScheduleInit PROVE RunTypes
  OBVIOUS
<1>1. 1 \in Positions
  <2>1. Iterations * N \in Nat /\ Iterations * N >= 1
    BY ScheduleAssumption
  <2> QED BY <2>1, ScheduleAssumption DEF Positions
<1>2. 1 \in 1..(Size + 1) /\ 0 \in 0..Iterations
  BY SizeType, ScheduleAssumption
<1>3. <<>> \in Seq(Positions) /\ <<>> \in Seq(Results)
  OBVIOUS
<1> QED BY <1>1, <1>2, <1>3 DEF ScheduleInit, RunTypes, ScheduleTypeOK

(* The variables of a run keep their types: a worker's position is one of  *)
(* the plan and its cursor inside the unit or just beyond it, wherever its *)
(* scripts send it.                                                        *)
THEOREM TypesHold == ScheduleSpec => []ScheduleTypeOK
<1>1. RunTypes => ScheduleTypeOK
  BY DEF RunTypes
<1> QED BY <1>1, InitTypes, StepKeepsTypes, PTL DEF ScheduleSpec
-----------------------------------------------------------------------------
(* The parts of the invariant about a unit and about a worker depend on    *)
(* what is recorded of the unit and on the worker's locals only.           *)
LEMMA UnitAside ==
    ASSUME NEW p, outputs'[p] = outputs[p]
    PROVE  /\ RecordsFit(p) => RecordsFit(p)'
           /\ IsToldInFull(p) => IsToldInFull(p)'
BY DEF RecordsFit, IsToldInFull

LEMMA WorkerAside ==
    ASSUME NEW v, PassFits(v), IsUncut' => IsUncut,
           position'[v] = position[v], cursor'[v] = cursor[v], at'[v] = at[v],
           attempted'[v] = attempted[v], passed'[v] = passed[v],
           outputs'[position[v]] = outputs[position[v]]
    PROVE  PassFits(v)'
<1> DEFINE told(p, out, tried) ==
        /\ \A j \in 1..Len(out) : /\ out[j].kind # "passed"
                                  /\ \E k \in tried : out[j].index = IndexOf(p, k)
        /\ \A k \in tried : \E j \in 1..Len(out) : out[j].index = IndexOf(p, k)
<1>1. told(position[v], outputs[position[v]], attempted[v])
  BY DEF PassFits
<1>2. told(position'[v], outputs'[position'[v]], attempted'[v])
  BY <1>1
<1>3. IsUncut' => \A k \in 1..Size :
         k < cursor'[v] \/ at'[v] = "passing" => k \in attempted'[v] \cup passed'[v]
  BY DEF PassFits
<1> QED BY <1>2, <1>3 DEF PassFits

(* Steps that record nothing and take nothing.                             *)
LEMMA ReturnKeepsTelling == ASSUME RunInv, Return PROVE TellingInv'
<1> USE DEF RunInv, TellingInv
<1>1. UNCHANGED <<crew, wave, queue, at, locals, halted, ended, cancelled, outputs, cut>>
  BY DEF Return
<1>2. IterationsDoNotOverlap' /\ UnitsFit' /\ \A p \in Positions : RecordsFit(p)'
  BY <1>1 DEF IterationsDoNotOverlap, UnitsFit, RecordsFit, Busy, Taken, Queued, IsUncut,
     IsToldInFull, locals
<1>3. \A w \in Busy' : PassFits(w)'
  BY <1>1 DEF PassFits, Busy, IsUncut, locals
<1>4. EndingFits'
  BY <1>1 DEF Return, EndingFits
<1> QED BY <1>2, <1>3, <1>4

LEMMA CancelKeepsTelling == ASSUME RunInv, CancelRun PROVE TellingInv'
<1> USE DEF RunInv, TellingInv
<1>1. /\ ~done /\ cancelled' = TRUE
      /\ UNCHANGED <<crew, wave, queue, at, locals, halted, ended, outputs, cut, done>>
  BY DEF CancelRun
<1>2. ~IsUncut'
  BY <1>1 DEF IsUncut
<1>3. IterationsDoNotOverlap' /\ UnitsFit' /\ \A p \in Positions : RecordsFit(p)'
  BY <1>1, <1>2 DEF IterationsDoNotOverlap, UnitsFit, RecordsFit, Busy, Queued, locals
<1>4. \A w \in Busy' : PassFits(w)'
  BY <1>1, <1>2 DEF PassFits, Busy, locals
<1>5. EndingFits'
  BY <1>1 DEF EndingFits
<1> QED BY <1>3, <1>4, <1>5

LEMMA RetireKeepsTelling == ASSUME RunInv, NEW w \in Crew, Retire(w) PROVE TellingInv'
<1> USE DEF RunInv, TellingInv
<1>1. /\ at[w] = "idle" /\ queue = <<>> /\ at' = [at EXCEPT ![w] = "off"]
      /\ UNCHANGED <<crew, wave, queue, locals, halted, ended, cancelled, outputs, cut, done>>
  BY DEF Retire
<1>2. /\ Busy' = Busy
      /\ \A v \in Busy : at'[v] = at[v]
  BY <1>1 DEF Busy, RunTypes, ScheduleTypeOK
<1>3. IterationsDoNotOverlap' /\ UnitsFit' /\ \A p \in Positions : RecordsFit(p)'
  BY <1>1, <1>2 DEF IterationsDoNotOverlap, UnitsFit, RecordsFit, Taken, Queued, IsUncut,
     IsToldInFull, locals
<1>4. \A v \in Busy' : PassFits(v)'
  BY <1>1, <1>2 DEF PassFits, IsUncut, locals
<1>5. EndingFits'
  BY <1>1 DEF EndingFits
<1> QED BY <1>3, <1>4, <1>5

(* A worker that goes on; one that leaves its unit has covered it.         *)
LEMMA ResumeKeepsTelling == ASSUME RunInv, NEW w \in Crew, Resume(w) PROVE TellingInv'
<1> USE DEF RunInv, TellingInv
<1>1. /\ at[w] = "paused"
      /\ UNCHANGED <<crew, wave, queue, locals, halted, ended, cancelled, outputs, cut, done>>
  BY DEF Resume
<1>2. PICK x \in {"passing", "sending"} :
         /\ at' = [at EXCEPT ![w] = x]
         /\ x = "passing" => cancelled \/ halted \/ cursor[w] > Size
  BY DEF Resume
<1>3. /\ Busy' = Busy /\ w \in Busy
      /\ \A v \in Busy \ {w} : at'[v] = at[v]
      /\ at'[w] = x
  BY <1>1, <1>2 DEF Busy, RunTypes, ScheduleTypeOK
<1>4. IterationsDoNotOverlap' /\ UnitsFit' /\ \A p \in Positions : RecordsFit(p)'
  BY <1>1, <1>3 DEF IterationsDoNotOverlap, UnitsFit, RecordsFit, Taken, Queued, IsUncut,
     IsToldInFull, locals
<1>5. \A v \in Busy \ {w} : PassFits(v)'
  BY <1>1, <1>3 DEF PassFits, IsUncut, locals
<1>6. PassFits(w)'
  <2>1. IsUncut /\ x = "passing" => \A k \in 1..Size : k < cursor[w]
    BY <1>2, SizeType DEF EndingFits, IsUncut, RunTypes, ScheduleTypeOK
  <2>2. PassFits(w)
    BY <1>3
  <2> QED BY <1>1, <1>3, <2>1, <2>2 DEF PassFits, IsUncut, locals
<1>7. EndingFits'
  BY <1>1, <1>2, <1>3 DEF EndingFits, Busy
<1> QED BY <1>3, <1>4, <1>5, <1>6, <1>7

(* The next iteration: nothing of it was touched, and nothing of the ones  *)
(* before is left over.                                                    *)
LEMMA StartWaveKeepsTelling ==
    ASSUME RunInv, RunTypes', StartWave
    PROVE  TellingInv'
<1> USE DEF RunInv, TellingInv
<1>1. /\ ~done /\ ~halted /\ ~cancelled /\ wave' = wave + 1 /\ queue' = Wave(wave')
      /\ \A w \in Crew : at[w] = "off"
      /\ UNCHANGED <<crew, locals, halted, ended, cancelled, outputs, cut, done>>
  BY DEF StartWave
<1>2. wave \in 0..Iterations /\ wave' \in 1..Iterations
  BY <1>1, ScheduleAssumption DEF StartWave, RunTypes, ScheduleTypeOK
<1>3. /\ \A k \in 1..Len(queue') : IterationOf(queue'[k]) = wave' /\ queue'[k] \in Positions
      /\ \A p \in Positions : IterationOf(p) = wave' => p \in Queued'
      /\ Len(queue') \in Nat \ {0}
      /\ DOMAIN queue' = 1..Len(queue')
  BY <1>1, <1>2, WaveIsItsIteration DEF Queued
<1>4. Busy = {} /\ Busy' = {} /\ Taken = {} /\ Taken' = {}
  BY <1>1 DEF StartWave, Busy, Taken
<1>5. queue = <<>> /\ Queued = {}
  BY <1>1 DEF EndingFits, Queued, RunTypes, ScheduleTypeOK
<1>6. \A p \in Positions : IterationOf(p) \in Int
  BY UnitType
<1>7. IterationsDoNotOverlap'
  BY <1>1, <1>2, <1>3, <1>4, <1>6 DEF IterationsDoNotOverlap
<1>8. \A p \in Positions : RecordsFit(p)'
  BY <1>1, UnitAside
<1>9. UnitsFit'
  <2>1. \A p \in Queued' : outputs'[p] = <<>>
    <3> SUFFICES ASSUME NEW p \in Queued' PROVE outputs[p] = <<>>
      BY <1>1
    <3>1. p \in Positions /\ IterationOf(p) = wave'
      BY <1>3 DEF Queued
    <3> QED BY <1>1, <1>2, <3>1 DEF IterationsDoNotOverlap
  <2>2. ASSUME IsUncut', NEW p \in Positions, IterationOf(p) <= wave', p \notin Queued'
        PROVE  IsToldInFull(p)' \/ (~IsSequential /\ IterationOf(p) \in ended')
    <3>1. IterationOf(p) # wave'
      BY <1>3, <2>2
    <3>2. IterationOf(p) <= wave
      BY <1>1, <1>2, <1>6, <2>2, <3>1
    <3>3. IsUncut
      BY <1>1, <2>2 DEF IsUncut
    <3>4. IsToldInFull(p) \/ (~IsSequential /\ IterationOf(p) \in ended)
      BY <1>4, <1>5, <3>2, <3>3 DEF UnitsFit
    <3> QED BY <1>1, <3>4, UnitAside
  <2> QED BY <2>1, <2>2 DEF UnitsFit
<1>10. EndingFits'
  <2>1. 1 \in Crew /\ 1 <= Least(crew, Len(queue'))
    BY <1>3, ScheduleAssumption, SMTT(20) DEF Crew, Least, RunTypes, ScheduleTypeOK
  <2>2. at'[1] # "off"
    BY <2>1 DEF StartWave
  <2> QED BY <1>1, <2>1, <2>2 DEF EndingFits
<1> QED BY <1>4, <1>7, <1>8, <1>9, <1>10

(* A worker takes the first unit of the queue.                             *)
LEMMA TakeSplitsQueue ==
    ASSUME RunTypes, QueueHasNoRepeats, queue # <<>>, queue' = Tail(queue)
    PROVE  /\ Head(queue) \in Positions
           /\ Head(queue) \in Queued
           /\ Queued' = Queued \ {Head(queue)}
           /\ \A k \in DOMAIN queue' : k + 1 \in DOMAIN queue /\ queue'[k] = queue[k + 1]
           /\ 1 \in DOMAIN queue /\ Head(queue) = queue[1]
<1>1. /\ Len(queue) \in Nat /\ Len(queue') = Len(queue) - 1 /\ 1 \in 1..Len(queue)
      /\ \A k \in 1..Len(queue') : k + 1 \in 1..Len(queue) /\ queue'[k] = queue[k + 1]
      /\ Head(queue) = queue[1]
      /\ Head(queue) \in Positions
      /\ DOMAIN queue = 1..Len(queue) /\ DOMAIN queue' = 1..Len(queue')
  BY DEF RunTypes, ScheduleTypeOK
<1>2. \A k \in 1..Len(queue) : k # 1 => k - 1 \in 1..Len(queue') /\ queue[k] = queue'[k - 1]
  BY <1>1
<1>3. \A k \in 1..Len(queue') : queue'[k] # queue[1]
  <2> SUFFICES ASSUME NEW k \in 1..Len(queue'), queue'[k] = queue[1] PROVE FALSE
    OBVIOUS
  <2>1. k + 1 = 1
    BY <1>1 DEF QueueHasNoRepeats
  <2> QED BY <1>1, <2>1
<1>4. Queued' \subseteq Queued \ {queue[1]}
  BY <1>1, <1>3 DEF Queued
<1>5. Queued \ {queue[1]} \subseteq Queued'
  BY <1>1, <1>2 DEF Queued
<1>6. queue[1] \in Queued
  BY <1>1 DEF Queued
<1> QED BY <1>1, <1>4, <1>5, <1>6

(* A unit that is passed by belongs to a run cut short or to an iteration  *)
(* another unit has ended; one that is taken has nothing recorded yet.     *)
LEMMA TakeKeepsTelling == ASSUME RunInv, NEW w \in Crew, Take(w) PROVE TellingInv'
<1> USE DEF RunInv, TellingInv
<1> DEFINE head == Head(queue)
<1>1. /\ at[w] = "idle" /\ queue # <<>> /\ queue' = Tail(queue)
      /\ UNCHANGED <<crew, wave, halted, ended, cancelled, outputs, cut, done>>
  BY DEF Take
<1>2. /\ head \in Positions /\ head \in Queued /\ Queued' = Queued \ {head}
      /\ \A k \in DOMAIN queue' : k + 1 \in DOMAIN queue /\ queue'[k] = queue[k + 1]
      /\ 1 \in DOMAIN queue /\ head = queue[1]
  BY <1>1, TakeSplitsQueue
<1> HIDE DEF head
<1>3. IterationOf(head) = wave /\ \A k \in DOMAIN queue' : IterationOf(queue'[k]) = wave
  BY <1>2 DEF IterationsDoNotOverlap
<1>4. ~done /\ IsUncut' = IsUncut /\ outputs[head] = <<>>
  BY <1>1, <1>2 DEF EndingFits, IsUncut, UnitsFit
<1>5. \A p \in Positions : /\ RecordsFit(p)'
                           /\ IsToldInFull(p) => IsToldInFull(p)'
  BY <1>1, UnitAside
<1>6. CASE UNCHANGED <<at, locals>> /\ (halted \/ cancelled \/ IterationOf(head) \in ended)
  <2>1. Busy' = Busy /\ Taken' = Taken
    BY <1>6 DEF Busy, Taken, locals
  <2>2. IterationsDoNotOverlap'
    BY <1>1, <1>3, <1>6, <2>1 DEF IterationsDoNotOverlap, locals
  <2>3. \A v \in Busy' : PassFits(v)'
    BY <1>1, <1>4, <1>6, <2>1, WorkerAside DEF locals
  <2>4. IsUncut => ~IsSequential /\ IterationOf(head) \in ended
    <3> SUFFICES ASSUME IsUncut PROVE ~IsSequential /\ IterationOf(head) \in ended
      OBVIOUS
    <3>1. IterationOf(head) \in ended
      BY <1>6 DEF IsUncut, EndingFits
    <3>2. IsSequential => IterationOf(head) = head
      BY DEF IterationOf
    <3> QED BY <1>4, <3>1, <3>2 DEF EndingFits
  <2>5. UnitsFit'
    BY <1>1, <1>2, <1>4, <1>5, <2>1, <2>4 DEF UnitsFit
  <2>6. EndingFits'
    BY <1>1, <1>4, <1>6 DEF EndingFits
  <2> QED BY <1>5, <2>2, <2>3, <2>5, <2>6
<1>7. CASE /\ at' = [at EXCEPT ![w] = "sending"]
           /\ position' = [position EXCEPT ![w] = head]
           /\ cursor' = [cursor EXCEPT ![w] = 1]
           /\ attempted' = [attempted EXCEPT ![w] = {}]
           /\ passed' = [passed EXCEPT ![w] = {}]
  <2>1. /\ Busy' = Busy \cup {w} /\ w \notin Busy
        /\ position'[w] = head /\ cursor'[w] = 1 /\ attempted'[w] = {} /\ at'[w] = "sending"
        /\ \A v \in Busy : /\ position'[v] = position[v] /\ cursor'[v] = cursor[v]
                           /\ at'[v] = at[v] /\ attempted'[v] = attempted[v]
                           /\ passed'[v] = passed[v]
    BY <1>1, <1>7 DEF Busy, RunTypes, ScheduleTypeOK
  <2>2. Taken' = Taken \cup {head}
    BY <2>1 DEF Taken
  <2>3. IterationsDoNotOverlap'
    BY <1>1, <1>3, <2>1 DEF IterationsDoNotOverlap
  <2>4. \A v \in Busy : PassFits(v)'
    BY <1>1, <1>4, <2>1, WorkerAside
  <2>5. PassFits(w)'
    <3>1. outputs'[position'[w]] = <<>> /\ \A k \in 1..Size : ~(k < cursor'[w])
      BY <1>1, <1>4, <2>1, SizeType
    <3> QED BY <2>1, <3>1 DEF PassFits
  <2>6. UnitsFit'
    BY <1>1, <1>2, <1>4, <1>5, <2>2 DEF UnitsFit
  <2>7. EndingFits'
    BY <1>1, <1>4, <2>1 DEF EndingFits
  <2> QED BY <1>5, <2>1, <2>3, <2>4, <2>5, <2>6, <2>7
<1> QED BY <1>6, <1>7 DEF Take, head

(* What follow leaves before the new cursor was before the old one, or is  *)
(* the request itself, or is passed over.                                  *)
LEMMA FollowingCovers ==
    ASSUME NEW p, NEW here \in 1..Size, NEW o \in Attempts, NEW count \in Nat,
           ~HasProblem(p, o, count), o.action # "stop",
           NEW k \in 1..Size, k < Following(p, here, o, count)
    PROVE  k < here \/ k = here \/ k \in PassedBy(p, here, o, count)
<1>1. CASE o.action \in {"next", "end"}
  BY <1>1, SizeType DEF PassedBy
<1>2. CASE o.action \notin {"next", "stop", "end"}
  <2>1. Following(p, here, o, count) = here + 1
    BY <1>2 DEF Following
  <2> QED BY <2>1, SizeType
<1> QED BY <1>1, <1>2

(* One more request is recorded where its worker is, and nowhere else.     *)
LEMMA AttemptKeepsTelling == ASSUME RunInv, NEW w \in Crew, Attempt(w) PROVE TellingInv'
<1> USE DEF RunInv, TellingInv
<1>0. PICK p, here, count : p = position[w] /\ here = cursor[w] /\ count = sent[w] + 1
  OBVIOUS
<1>1. PICK o \in Attempts :
        LET problem == HasProblem(p, o, count)
            bails == Bail /\ (o.failed \/ problem)
        IN /\ attempted' = [attempted EXCEPT ![w] = @ \cup {here}]
           /\ passed' = [passed EXCEPT ![w] = @ \cup PassedBy(p, here, o, count)]
           /\ outputs' = [outputs EXCEPT ![p] = Append(@,
                 [index |-> IndexOf(p, here), kind |-> IF o.isSkipped THEN "skipped" ELSE "ran"])]
           /\ halted' = (halted \/ o.action = "stop" \/ problem \/ (bails /\ ~cancelled))
           /\ ended' = IF o.action = "end" THEN ended \cup {IterationOf(p)} ELSE ended
           /\ cut' = cut \cup (IF problem THEN {"problem"} ELSE {})
                         \cup (IF o.action = "stop" THEN {"stop"} ELSE {})
                         \cup (IF bails THEN {"bail"} ELSE {})
           /\ cursor' = [cursor EXCEPT ![w] = IF bails THEN here ELSE Following(p, here, o, count)]
           /\ at' = [at EXCEPT ![w] =
                 IF cancelled THEN "off" ELSE IF bails THEN "passing" ELSE "paused"]
  BY <1>0, ZenonT(30) DEF Attempt
<1>2. /\ here \in 1..Size /\ count \in Nat /\ p \in Positions /\ at[w] = "sending" /\ w \in Busy
      /\ UNCHANGED <<crew, wave, queue, position, cancelled, done>>
  BY <1>0, SizeType DEF Attempt, RunTypes, ScheduleTypeOK, Busy
<1> DEFINE result == [index |-> IndexOf(p, here), kind |-> IF o.isSkipped THEN "skipped" ELSE "ran"]
<1>17. PICK out : out = outputs[p]
  OBVIOUS
<1>3. result.index = IndexOf(p, here) /\ result.kind # "passed"
  OBVIOUS
<1> HIDE DEF result
<1>4. /\ outputs'[p] = Append(out, result)
      /\ \A q \in Positions \ {p} : outputs'[q] = outputs[q]
      /\ out \in Seq(Results)
  BY <1>1, <1>2, <1>17 DEF RunTypes, ScheduleTypeOK, result
<1>5. /\ Len(out) \in Nat /\ Len(outputs'[p]) = Len(out) + 1
      /\ \A j \in 1..Len(out) : outputs'[p][j] = out[j]
      /\ outputs'[p][Len(out) + 1] = result
      /\ outputs'[p] # <<>>
  BY <1>4
<1>6. ASSUME NEW j \in 1..Len(outputs'[p])
      PROVE  (j \in 1..Len(out) /\ outputs'[p][j] = out[j]) \/ outputs'[p][j] = result
  BY <1>5
<1>7. IterationOf(p) = wave /\ p \notin Queued /\ ~done
  <2>1. IterationOf(p) = wave
    BY <1>0, <1>2 DEF IterationsDoNotOverlap
  <2>2. p \notin Queued
    BY <1>0, <1>2 DEF UnitsHaveOneWorker, Queued, RunTypes, ScheduleTypeOK
  <2> QED BY <1>2, <2>1, <2>2 DEF EndingFits
<1>8. PassFits(w)
  BY <1>2
<1>9. /\ \A j \in 1..Len(out) : /\ out[j].kind # "passed"
                                /\ \E k \in attempted[w] : out[j].index = IndexOf(p, k)
      /\ \A k \in attempted[w] : \E j \in 1..Len(out) : out[j].index = IndexOf(p, k)
  BY <1>0, <1>8, <1>17 DEF PassFits
<1>10. /\ Busy' \subseteq Busy /\ (~cancelled => Busy' = Busy)
       /\ \A v \in Busy \ {w} : at'[v] = at[v] /\ cursor'[v] = cursor[v]
             /\ attempted'[v] = attempted[v] /\ passed'[v] = passed[v]
       /\ attempted'[w] = attempted[w] \cup {here}
       /\ passed'[w] = passed[w] \cup PassedBy(p, here, o, count)
       /\ ended \subseteq ended' /\ cut \subseteq cut'
  BY <1>0, <1>1, <1>2 DEF Busy, RunTypes, ScheduleTypeOK
<1>11. IsUncut' => IsUncut
  BY <1>2, <1>10 DEF IsUncut
<1>12. IterationsDoNotOverlap'
  <2>1. \A q \in Positions : outputs'[q] # <<>> => IterationOf(q) <= wave
    <3>1. wave <= wave
      BY DEF RunTypes, ScheduleTypeOK
    <3> QED BY <1>4, <1>7, <3>1 DEF IterationsDoNotOverlap
  <2> QED BY <1>2, <1>10, <2>1 DEF IterationsDoNotOverlap
<1>13. \A q \in Positions : RecordsFit(q)'
  <2>1. RecordsFit(p)'
    <3>1. \A j \in 1..Len(out) : \E k \in 1..Size : out[j].index = IndexOf(p, k)
      BY <1>2, <1>17 DEF RecordsFit
    <3>2. \A j \in 1..Len(outputs'[p]) : \E k \in 1..Size : outputs'[p][j].index = IndexOf(p, k)
      BY <1>2, <1>3, <1>6, <3>1
    <3>3. \A j \in 1..Len(outputs'[p]) : outputs'[p][j].kind # "passed"
      BY <1>3, <1>6, <1>9
    <3> QED BY <3>2, <3>3 DEF RecordsFit
  <2> QED BY <1>4, <2>1, UnitAside
<1>14. \A v \in Busy' : PassFits(v)'
  <2>1. ASSUME NEW v \in Busy \ {w} PROVE PassFits(v)'
    <3>1. position[v] # p /\ position[v] \in Positions
      BY <1>0, <1>2 DEF UnitsHaveOneWorker, RunTypes, ScheduleTypeOK, Busy
    <3> QED BY <1>2, <1>4, <1>10, <1>11, <3>1, WorkerAside
  <2>2. PassFits(w)'
    <3>1. \A j \in 1..Len(outputs'[p]) :
             /\ outputs'[p][j].kind # "passed"
             /\ \E k \in attempted'[w] : outputs'[p][j].index = IndexOf(p, k)
      BY <1>3, <1>6, <1>9, <1>10
    <3>2. \A k \in attempted'[w] : \E j \in 1..Len(outputs'[p]) : outputs'[p][j].index = IndexOf(p, k)
      <4>1. \A j \in 1..Len(out) : j \in 1..Len(outputs'[p]) /\ outputs'[p][j] = out[j]
        BY <1>5
      <4>2. Len(out) + 1 \in 1..Len(outputs'[p])
        BY <1>5
      <4> QED BY <1>3, <1>5, <1>9, <1>10, <4>1, <4>2
    <3>3. ASSUME IsUncut', NEW k \in 1..Size, k < cursor'[w] \/ at'[w] = "passing"
          PROVE  k \in attempted'[w] \cup passed'[w]
      <4>1. ~HasProblem(p, o, count) /\ o.action # "stop" /\ ~(Bail /\ o.failed) /\ ~cancelled
        BY <1>1, <1>2, <3>3 DEF IsUncut
      <4>2. at'[w] = "paused" /\ cursor'[w] = Following(p, here, o, count)
        BY <1>1, <1>2, <4>1 DEF RunTypes, ScheduleTypeOK
      <4>3. k < here \/ k = here \/ k \in PassedBy(p, here, o, count)
        BY <1>2, <3>3, <4>1, <4>2, FollowingCovers
      <4>4. k < here => k \in attempted[w] \cup passed[w]
        BY <1>0, <1>8, <1>11, <3>3 DEF PassFits
      <4> QED BY <1>10, <4>3, <4>4
    <3>4. position'[w] = p
      BY <1>0, <1>2
    <3> QED BY <3>1, <3>2, <3>3, <3>4 DEF PassFits
  <2> QED BY <1>10, <2>1, <2>2
<1>15. UnitsFit'
  <2>1. Queued' = Queued /\ (~cancelled => Taken' = Taken) /\ p \in Taken
    BY <1>0, <1>2, <1>10 DEF Queued, Taken
  <2>2. \A q \in Queued' : outputs'[q] = <<>>
    <3>1. Queued \subseteq Positions
      BY DEF Queued, RunTypes, ScheduleTypeOK
    <3> QED BY <1>4, <1>7, <2>1, <3>1 DEF UnitsFit
  <2>3. ASSUME IsUncut', NEW q \in Positions, IterationOf(q) <= wave', q \notin Queued' \cup Taken'
        PROVE  IsToldInFull(q)' \/ (~IsSequential /\ IterationOf(q) \in ended')
    <3>1. IsUncut /\ ~cancelled
      BY <1>11, <2>3 DEF IsUncut
    <3>2. q # p /\ (IsToldInFull(q) \/ (~IsSequential /\ IterationOf(q) \in ended))
      BY <1>2, <2>1, <2>3, <3>1 DEF UnitsFit
    <3> QED BY <1>4, <1>10, <3>2, UnitAside
  <2> QED BY <2>2, <2>3 DEF UnitsFit
<1>16. EndingFits'
  <2>1. halted' => cut' # {}
    BY <1>1 DEF EndingFits
  <2>2. ASSUME NEW i \in ended', IsSequential PROVE outputs'[i] # <<>>
    <3>1. IterationOf(p) = p
      BY <2>2 DEF IterationOf
    <3>2. i \in ended \/ i = p
      BY <1>1, <3>1
    <3>3. ended \subseteq Positions
      BY <2>2 DEF RunTypes, ScheduleTypeOK, Positions
    <3> QED BY <1>4, <1>5, <2>2, <3>2, <3>3 DEF EndingFits
  <2>3. ~cancelled' => at'[w] # "off"
    BY <1>1, <1>2 DEF RunTypes, ScheduleTypeOK
  <2> QED BY <1>2, <1>7, <2>1, <2>2, <2>3 DEF EndingFits
<1> QED BY <1>12, <1>13, <1>14, <1>15, <1>16

(* The requests passed over are recorded at the end of the unit, each once *)
(* and none that was attempted.                                            *)
LEMMA PassOverKeepsTelling == ASSUME RunInv, NEW w \in Crew, PassOver(w) PROVE TellingInv'
<1> USE DEF RunInv, TellingInv
<1>1. PICK p, S, out : p = position[w] /\ S = passed[w] \ attempted[w] /\ out = outputs[p]
  OBVIOUS
<1>2. /\ p \in Positions /\ S \in SUBSET (1..Size) /\ out \in Seq(Results)
      /\ at[w] = "passing" /\ w \in Busy
      /\ at' = [at EXCEPT ![w] = "idle"]
      /\ UNCHANGED <<crew, wave, queue, locals, halted, ended, cancelled, cut, done>>
  BY <1>1 DEF PassOver, RunTypes, ScheduleTypeOK, Busy
<1>3. PICK more : more = [j \in DOMAIN InOrder(S) |-> [index |-> IndexOf(p, InOrder(S)[j]), kind |-> "passed"]]
  OBVIOUS
<1>4. outputs' = [outputs EXCEPT ![p] = @ \o more]
  BY <1>1, <1>3, Zenon DEF PassOver
<1>5. /\ more \in Seq(Results) /\ Len(more) = Cardinality(S) /\ Cardinality(S) \in Nat
      /\ \A j \in 1..Len(more) : more[j].kind = "passed" /\ more[j].index = IndexOf(p, InOrder(S)[j])
      /\ DOMAIN more = 1..Cardinality(S)
  <2>1. more \in Seq(Results) /\ DOMAIN InOrder(S) = 1..Cardinality(S) /\ Cardinality(S) \in Nat
    BY <1>2, <1>3, PassedOverType
  <2>2. Len(more) = Cardinality(S)
    BY <1>3, <2>1
  <2> QED BY <1>3, <2>1, <2>2
<1>6. /\ \A j \in 1..Len(more) : InOrder(S)[j] \in S
      /\ \A k \in S : \E j \in 1..Len(more) : InOrder(S)[j] = k
      /\ \A j, k \in 1..Len(more) : InOrder(S)[j] = InOrder(S)[k] => j = k
  <2>1. Size \in Nat
    BY SizeType
  <2>2. /\ InOrder(S) \in [1..Cardinality(S) -> S]
        /\ \A k \in S : \E j \in 1..Cardinality(S) : InOrder(S)[j] = k
        /\ \A j, k \in 1..Cardinality(S) : j < k => InOrder(S)[j] < InOrder(S)[k]
    BY <1>2, <2>1, InOrderListsAll
  <2>5. \A j \in 1..Cardinality(S) : InOrder(S)[j] \in Int
    <3>1. \A k \in S : k \in Int
      BY <1>2
    <3> QED BY <2>2, <3>1
  <2>3. \A j, k \in 1..Cardinality(S) : j < k => InOrder(S)[j] # InOrder(S)[k]
    BY <2>2, <2>5
  <2>4. \A j, k \in 1..Cardinality(S) : InOrder(S)[j] = InOrder(S)[k] => j = k
    BY <2>3
  <2> QED BY <1>5, <2>2, <2>4
<1>7. /\ outputs'[p] = out \o more
      /\ \A q \in Positions \ {p} : outputs'[q] = outputs[q]
  BY <1>1, <1>2, <1>4 DEF RunTypes, ScheduleTypeOK
<1>8. /\ Len(out) \in Nat /\ Len(more) \in Nat /\ Len(outputs'[p]) = Len(out) + Len(more)
      /\ \A j \in 1..Len(out) : outputs'[p][j] = out[j]
      /\ \A j \in 1..Len(more) : outputs'[p][Len(out) + j] = more[j]
  <2> HIDE DEF RunInv, TellingInv
  <2>1. outputs'[p] = out \o more /\ out \in Seq(Results) /\ more \in Seq(Results)
    BY <1>2, <1>5, <1>7
  <2> QED BY <2>1
<1>9. /\ \A j \in 1..Len(out) : /\ out[j].kind # "passed"
                                /\ \E k \in attempted[w] : out[j].index = IndexOf(p, k)
      /\ \A k \in attempted[w] : \E j \in 1..Len(out) : out[j].index = IndexOf(p, k)
      /\ IsUncut => 1..Size \subseteq attempted[w] \cup S
  <2>1. PassFits(w)
    BY <1>2
  <2> QED BY <1>1, <1>2, <2>1 DEF PassFits
<1>10. attempted[w] \subseteq 1..Size /\ \A j, k \in 1..Size : IndexOf(p, j) = IndexOf(p, k) => j = k
  BY <1>2, UnitType DEF RunTypes, ScheduleTypeOK
<1>11. ASSUME NEW j \in 1..Len(outputs'[p])
       PROVE  \/ j \in 1..Len(out) /\ outputs'[p][j] = out[j]
              \/ j - Len(out) \in 1..Len(more) /\ outputs'[p][j] = more[j - Len(out)]
  <2>1. j \in 1..Len(out) \/ (j - Len(out) \in 1..Len(more) /\ j = Len(out) + (j - Len(out)))
    BY <1>8
  <2> QED BY <1>8, <2>1
<1>12. RecordsFit(p)'
  <2>1. \A j \in 1..Len(out) : \E k \in 1..Size : out[j].index = IndexOf(p, k)
    BY <1>9, <1>10
  <2>2. \A j \in 1..Len(more) : \E k \in 1..Size : more[j].index = IndexOf(p, k)
    BY <1>2, <1>5, <1>6
  <2>3. \A j \in 1..Len(outputs'[p]) : \E k \in 1..Size : outputs'[p][j].index = IndexOf(p, k)
    BY <1>11, <2>1, <2>2
  <2>4. ASSUME NEW j \in 1..Len(more), NEW k \in 1..Len(out) PROVE more[j].index # out[k].index
    <3>1. PICK a \in attempted[w] : out[k].index = IndexOf(p, a)
      BY <1>9
    <3>2. PICK b \in S : more[j].index = IndexOf(p, b)
      BY <1>5, <1>6
    <3>3. a # b /\ a \in 1..Size /\ b \in 1..Size
      BY <1>1, <1>2, <1>10
    <3> QED BY <1>10, <3>1, <3>2, <3>3
  <2>5. ASSUME NEW j \in 1..Len(more), NEW k \in 1..Len(more), more[j].index = more[k].index PROVE j = k
    <3>1. InOrder(S)[j] \in 1..Size /\ InOrder(S)[k] \in 1..Size
      BY <1>2, <1>6
    <3>2. IndexOf(p, InOrder(S)[j]) = IndexOf(p, InOrder(S)[k])
      BY <1>5, <2>5
    <3> QED BY <1>6, <1>10, <3>1, <3>2
  <2>6. ASSUME NEW j \in 1..Len(outputs'[p]), NEW k \in 1..Len(outputs'[p]),
               outputs'[p][j].kind = "passed", outputs'[p][j].index = outputs'[p][k].index
        PROVE  j = k
    <3>1. j - Len(out) \in 1..Len(more) /\ outputs'[p][j] = more[j - Len(out)]
      BY <1>9, <1>11, <2>6
    <3>2. k - Len(out) \in 1..Len(more) /\ outputs'[p][k] = more[k - Len(out)]
      BY <1>11, <2>4, <2>6, <3>1
    <3>3. j - Len(out) = k - Len(out)
      BY <2>5, <2>6, <3>1, <3>2
    <3> QED BY <1>8, <3>3
  <2> QED BY <2>3, <2>6 DEF RecordsFit
<1>13. IsUncut => IsToldInFull(p)'
  <2> SUFFICES ASSUME IsUncut, NEW k \in 1..Size
               PROVE  \E j \in 1..Len(outputs'[p]) : outputs'[p][j].index = IndexOf(p, k)
    BY DEF IsToldInFull
  <2>1. CASE k \in attempted[w]
    <3>1. PICK j \in 1..Len(out) : out[j].index = IndexOf(p, k)
      BY <1>9, <2>1
    <3>2. j \in 1..Len(outputs'[p]) /\ outputs'[p][j] = out[j]
      BY <1>8
    <3> QED BY <3>1, <3>2
  <2>2. CASE k \in S
    <3>1. PICK j \in 1..Len(more) : more[j].index = IndexOf(p, k)
      BY <1>5, <1>6, <2>2
    <3>2. Len(out) + j \in 1..Len(outputs'[p]) /\ outputs'[p][Len(out) + j] = more[j]
      BY <1>8
    <3> QED BY <3>1, <3>2
  <2> QED BY <1>9, <2>1, <2>2
<1>14. /\ Busy' = Busy \ {w} /\ \A v \in Busy' : at'[v] = at[v] /\ position[v] # p /\ position[v] \in Positions
       /\ Taken \subseteq Taken' \cup {p}
       /\ IterationOf(p) = wave /\ p \notin Queued /\ Queued' = Queued /\ IsUncut' = IsUncut /\ ~done
  <2>1. Busy' = Busy \ {w} /\ \A v \in Busy' : at'[v] = at[v] /\ position[v] # p /\ position[v] \in Positions
    BY <1>1, <1>2 DEF Busy, RunTypes, ScheduleTypeOK, UnitsHaveOneWorker
  <2>2. Taken \subseteq Taken' \cup {p}
    BY <1>1, <1>2, <2>1 DEF Taken, locals
  <2>3. IterationOf(p) = wave /\ p \notin Queued
    BY <1>1, <1>2 DEF IterationsDoNotOverlap, UnitsHaveOneWorker, Queued, RunTypes, ScheduleTypeOK
  <2>4. Queued' = Queued /\ IsUncut' = IsUncut /\ ~done
    BY <1>2 DEF Queued, IsUncut, EndingFits
  <2> QED BY <2>1, <2>2, <2>3, <2>4
<1>15. IterationsDoNotOverlap'
  <2>1. wave <= wave
    BY DEF RunTypes, ScheduleTypeOK
  <2> QED BY <1>2, <1>7, <1>14, <2>1 DEF IterationsDoNotOverlap, locals
<1>16. \A q \in Positions : RecordsFit(q)'
  BY <1>7, <1>12, UnitAside
<1>17. \A v \in Busy' : PassFits(v)'
  BY <1>2, <1>7, <1>14, WorkerAside DEF locals
<1>18. UnitsFit'
  <2>1. \A q \in Queued' : outputs'[q] = <<>>
    <3>1. Queued \subseteq Positions
      BY DEF Queued, RunTypes, ScheduleTypeOK
    <3> QED BY <1>7, <1>14, <3>1 DEF UnitsFit
  <2>2. ASSUME IsUncut', NEW q \in Positions, IterationOf(q) <= wave', q \notin Queued' \cup Taken'
        PROVE  IsToldInFull(q)' \/ (~IsSequential /\ IterationOf(q) \in ended')
    <3>1. CASE q = p
      BY <1>13, <1>14, <2>2, <3>1
    <3>2. CASE q # p
      <4>1. IsToldInFull(q) \/ (~IsSequential /\ IterationOf(q) \in ended)
        BY <1>2, <1>14, <2>2, <3>2 DEF UnitsFit
      <4> QED BY <1>2, <1>7, <3>2, <4>1, UnitAside
    <3> QED BY <3>1, <3>2
  <2> QED BY <2>1, <2>2 DEF UnitsFit
<1>19. EndingFits'
  <2>1. ASSUME NEW i \in ended, IsSequential PROVE outputs'[i] # <<>>
    <3>1. i \in Positions /\ outputs[i] # <<>>
      BY <2>1 DEF RunTypes, ScheduleTypeOK, Positions, EndingFits
    <3>2. out # <<>> => outputs'[p] # <<>>
      BY <1>2, <1>5, <1>7
    <3> QED BY <1>1, <1>7, <3>1, <3>2
  <2>2. at'[w] # "off"
    BY <1>2 DEF RunTypes, ScheduleTypeOK
  <2> QED BY <1>2, <1>14, <2>1, <2>2 DEF EndingFits
<1> QED BY <1>15, <1>16, <1>17, <1>18, <1>19

LEMMA StepKeepsRun == RunInv /\ [ScheduleNext]_scheduleVars => RunInv'
<1> SUFFICES ASSUME RunInv, [ScheduleNext]_scheduleVars PROVE RunInv'
  OBVIOUS
<1>1. RunTypes'
  BY StepKeepsTypes DEF RunInv
<1>2. QueueHasNoRepeats' /\ UnitsHaveOneWorker'
  <2>1. Positions \subseteq Int /\ 0..Iterations \subseteq Nat
    BY UnitType, ScheduleAssumption
  <2>3. position \in [Crew -> Positions] /\ queue \in Seq(Positions) /\ wave \in 0..Iterations
    BY DEF RunInv, RunTypes, ScheduleTypeOK
  <2>4. position \in [Crew -> Int] /\ wave \in Nat
    BY <2>1, <2>3
  <2>5. queue \in Seq(Int)
    BY <2>1, <2>3, SeqMonotonic
  <2>2. UnitInv
    BY <2>4, <2>5 DEF RunInv, RunTypes, ScheduleTypeOK, UnitInv
  <2> QED BY <2>2, StepKeepsUnits DEF UnitInv
<1>3. TellingInv'
  <2>1. CASE UNCHANGED scheduleVars
    <3>1. IterationsDoNotOverlap' /\ UnitsFit' /\ EndingFits' /\ \A p \in Positions : RecordsFit(p)'
      BY <2>1 DEF RunInv, TellingInv, IterationsDoNotOverlap, UnitsFit, RecordsFit, Busy, Taken,
         Queued, IsUncut, IsToldInFull, EndingFits, scheduleVars, locals
    <3>2. \A w \in Busy' : PassFits(w)'
      BY <2>1 DEF RunInv, TellingInv, PassFits, Busy, IsUncut, scheduleVars, locals
    <3> QED BY <3>1, <3>2 DEF TellingInv
  <2> QED BY <1>1, <2>1, StartWaveKeepsTelling, ReturnKeepsTelling, CancelKeepsTelling,
             TakeKeepsTelling, RetireKeepsTelling, AttemptKeepsTelling, ResumeKeepsTelling,
             PassOverKeepsTelling DEF ScheduleNext, Worker
<1> QED BY <1>1, <1>2, <1>3 DEF RunInv

LEMMA InitRun == ScheduleInit => RunInv
<1> SUFFICES ASSUME ScheduleInit PROVE RunInv
  OBVIOUS
<1>1. RunTypes
  BY InitTypes
<1>2. Busy = {} /\ Queued = {} /\ DOMAIN queue = {} /\ \A p \in Positions : outputs[p] = <<>>
  BY DEF ScheduleInit, Busy, Queued
<1>3. QueueHasNoRepeats /\ UnitsHaveOneWorker /\ IterationsDoNotOverlap
  BY <1>2 DEF ScheduleInit, QueueHasNoRepeats, UnitsHaveOneWorker, IterationsDoNotOverlap
<1>4. \A p \in Positions : RecordsFit(p)
  BY <1>2 DEF RecordsFit
<1>5. \A p \in Positions : ~(IterationOf(p) <= wave)
  BY UnitType DEF ScheduleInit
<1>6. UnitsFit /\ EndingFits
  BY <1>2, <1>5 DEF ScheduleInit, UnitsFit, EndingFits
<1> QED BY <1>1, <1>2, <1>3, <1>4, <1>6 DEF RunInv, TellingInv

(* Iterations run one after another, however many workers share a wave.    *)
THEOREM IterationsAreOrdered == ScheduleSpec => []IterationsDoNotOverlap
<1>1. RunInv => IterationsDoNotOverlap
  BY DEF RunInv, TellingInv
<1> QED BY <1>1, InitRun, StepKeepsRun, PTL DEF ScheduleSpec

(* A run that ends by itself reports every request of every pass, and what *)
(* it reports as passed over is reported once and was not sent.            *)
THEOREM RunsReportAll == ScheduleSpec => []CompletedRunReportsAll
<1>1. RunInv => CompletedRunReportsAll
  <2> SUFFICES ASSUME RunInv PROVE CompletedRunReportsAll
    OBVIOUS
  <2>1. \A p \in Positions : DOMAIN outputs[p] = 1..Len(outputs[p])
    BY DEF RunInv, RunTypes, ScheduleTypeOK
  <2>2. ASSUME NEW p \in Positions
        PROVE  /\ Recorded(p, {"passed"}) \cap Recorded(p, {"ran", "skipped"}) = {}
               /\ \A j, k \in DOMAIN outputs[p] :
                     outputs[p][j].kind = "passed" /\ outputs[p][j] = outputs[p][k] => j = k
    <3>1. RecordsFit(p)
      BY DEF RunInv, TellingInv
    <3> QED BY <2>1, <3>1 DEF RecordsFit, Recorded
  <2>3. ASSUME done, ~cancelled, cut = {}, NEW p \in Positions
        PROVE  \/ Recorded(p, {"ran", "skipped", "passed"}) = {IndexOf(p, k) : k \in 1..Size}
               \/ ~IsSequential /\ IterationOf(p) \in ended
    <3>1. wave = Iterations /\ queue = <<>> /\ \A w \in Crew : at[w] = "off"
      BY <2>3 DEF RunInv, TellingInv, EndingFits
    <3>2. Queued = {} /\ Taken = {} /\ IsUncut
      BY <2>3, <3>1 DEF Queued, Taken, Busy, IsUncut
    <3>3. IterationOf(p) <= wave
      BY <3>1, UnitType, ScheduleAssumption
    <3>4. IsToldInFull(p) \/ (~IsSequential /\ IterationOf(p) \in ended)
      BY <3>2, <3>3 DEF RunInv, TellingInv, UnitsFit
    <3>5. ASSUME IsToldInFull(p)
          PROVE  Recorded(p, {"ran", "skipped", "passed"}) = {IndexOf(p, k) : k \in 1..Size}
      <4>1. \A j \in 1..Len(outputs[p]) : outputs[p][j].kind \in {"ran", "skipped", "passed"}
        <5>1. outputs[p] \in Seq(Results)
          BY DEF RunInv, RunTypes, ScheduleTypeOK
        <5>2. \A j \in 1..Len(outputs[p]) : outputs[p][j] \in Results
          BY <5>1
        <5> QED BY <5>2 DEF Results
      <4>2. RecordsFit(p)
        BY DEF RunInv, TellingInv
      <4>3. Recorded(p, {"ran", "skipped", "passed"}) = {outputs[p][j].index : j \in 1..Len(outputs[p])}
        BY <2>1, <4>1 DEF Recorded
      <4>4. {outputs[p][j].index : j \in 1..Len(outputs[p])} \subseteq {IndexOf(p, k) : k \in 1..Size}
        BY <4>2 DEF RecordsFit
      <4>5. {IndexOf(p, k) : k \in 1..Size} \subseteq {outputs[p][j].index : j \in 1..Len(outputs[p])}
        BY <3>5 DEF IsToldInFull
      <4> QED BY <4>3, <4>4, <4>5
    <3> QED BY <3>4, <3>5
  <2> QED BY <2>2, <2>3 DEF CompletedRunReportsAll
<1> QED BY <1>1, InitRun, StepKeepsRun, PTL DEF ScheduleSpec
=============================================================================
