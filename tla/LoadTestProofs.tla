--------------------------- MODULE LoadTestProofs ---------------------------
(***************************************************************************)
(* Proofs about LoadTest, for any number of tests, workers and requests:   *)
(* one test runs at a time, it sends no more than it was asked to and no   *)
(* faster than it is paced, and its report counts all that was sent.       *)
(***************************************************************************)
EXTENDS LoadTest, FiniteSetTheorems, TLAPS

Running == {t \in Tests : phase[t] \in {"running", "reported"}}

(* The inductive invariant of the slot: beginLoadTest fills it and         *)
(* endLoadTest empties it, so it never holds two tests.                    *)
SlotInv ==
    /\ phase \in [Tests -> TestPhases]
    /\ slot = Running
    /\ \A s, t \in slot : s = t

(* Only the calls of the app touch the slot, and they keep the invariant.  *)
LEMMA StepKeepsSlot == SlotInv /\ [LoadNext]_loadVars => SlotInv'
<1> SUFFICES ASSUME SlotInv, [LoadNext]_loadVars PROVE SlotInv'
  OBVIOUS
<1> USE DEF SlotInv, Running, TestPhases
<1>1. ASSUME NEW t \in Tests, RunLoadTest(t) PROVE SlotInv'
  BY <1>1 DEF RunLoadTest
<1>2. ASSUME NEW t \in Tests, Reject(t) PROVE SlotInv'
  BY <1>2 DEF Reject
<1>3. ASSUME NEW t \in Tests, Refuse(t) PROVE SlotInv'
  BY <1>3 DEF Refuse
<1>4. ASSUME NEW t \in Tests, Finish(t) PROVE SlotInv'
  BY <1>4 DEF Finish
<1>5. ASSUME NEW t \in Tests, EndLoadTest(t) PROVE SlotInv'
  BY <1>5 DEF EndLoadTest
<1>6. CASE UNCHANGED <<slot, phase>>
  BY <1>6
<1>7. ASSUME NEW t \in Tests, NEW w \in 1..Workers, Work(t, w) PROVE UNCHANGED <<slot, phase>>
  BY <1>7 DEF Work, Ramp, Join, LeaveStages, PassUnpaced, Reserve, Pace, Await,
     Claim, SendReturns, Record, guiVars
<1> QED BY <1>1, <1>2, <1>3, <1>4, <1>5, <1>6, <1>7
    DEF LoadNext, Main, Report, ReadProgress, EmitProgress, EndProgress, Expire, Tick,
        StopLoadTest, Rest, loadVars

(* One load test at a time, and the slot is its own.                       *)
THEOREM OneAtATime == LoadSpec => []OneTestAtATime
<1>1. LoadInit => SlotInv
  BY DEF LoadInit, SlotInv, Running, TestPhases
<1>2. SlotInv => OneTestAtATime
  <2> SUFFICES ASSUME SlotInv PROVE Cardinality(slot) <= 1
    BY DEF SlotInv, Running, OneTestAtATime
  <2>1. CASE slot = {}
    BY <2>1, FS_EmptySet
  <2>2. CASE slot # {}
    <3>1. PICK t \in slot : slot = {t}
      BY <2>2 DEF SlotInv
    <3> QED BY <3>1, FS_Singleton
  <2> QED BY <2>1, <2>2
<1> QED BY <1>1, <1>2, StepKeepsSlot, PTL DEF LoadSpec

-----------------------------------------------------------------------------
(* A request is sent only for an increment of issued that stayed within    *)
(* the limit.                                                              *)
SendInv ==
    /\ config \in Suites
    /\ issued \in [Tests -> Nat]
    /\ sentCount \in [Tests -> Nat]
    /\ \A t \in Tests : sentCount[t] <= issued[t]
    /\ LimitIsKept

(* The limit of a test that is called is a number.                         *)
LEMMA LimitType == config \in Suites => \A t \in DOMAIN config : t \in Tests /\ Limit(t) \in Nat
<1> SUFFICES ASSUME config \in Suites, NEW t \in DOMAIN config
             PROVE  t \in Tests /\ Limit(t) \in Nat
  OBVIOUS
<1>1. PICK S \in SUBSET Tests : config \in [S -> Config]
  BY LoadTestAssumption
<1>2. t \in Tests /\ config[t] \in Config
  BY <1>1
<1>3. config[t].requests \in Nat
  BY <1>2, LoadTestAssumption DEF Config
<1> QED BY <1>2, <1>3, LoadTestAssumption DEF Limit

(* Only claim sends, and it asks first.                                    *)
LEMMA StepKeepsLimit == SendInv /\ [LoadNext]_loadVars => SendInv'
<1> SUFFICES ASSUME SendInv, [LoadNext]_loadVars PROVE SendInv'
  OBVIOUS
<1>1. ASSUME NEW t \in Tests, NEW w \in 1..Workers, Claim(t, w) PROVE SendInv'
  <2> USE DEF SendInv, LimitIsKept
  <2>1. config' = config /\ \A s \in DOMAIN config : s \in Tests /\ Limit(s)' = Limit(s) /\ Limit(s) \in Nat
    BY <1>1, LimitType DEF Claim, guiVars, Limit
  <2>2. CASE issued[t] < Limit(t)
    BY <1>1, <2>1, <2>2 DEF Claim
  <2>3. CASE ~(issued[t] < Limit(t))
    BY <1>1, <2>1, <2>3 DEF Claim
  <2> QED BY <2>2, <2>3
<1>2. CASE UNCHANGED <<config, issued, sentCount>>
  BY <1>2 DEF SendInv, LimitIsKept, Limit
<1>3. ASSUME NEW t \in Tests, NEW w \in 1..Workers, Work(t, w), ~Claim(t, w)
      PROVE  UNCHANGED <<config, issued, sentCount>>
  BY <1>3 DEF Work, Ramp, Join, LeaveStages, PassUnpaced, Reserve, Pace, Await,
     SendReturns, Record, guiVars
<1> QED BY <1>1, <1>2, <1>3
    DEF LoadNext, Main, RunLoadTest, Reject, Refuse, Finish, EndLoadTest, Report,
        ReadProgress, EmitProgress, EndProgress, Expire, Tick, StopLoadTest, Rest,
        workerVars, loadVars

(* However many workers claim at once, the limit is kept.                  *)
THEOREM LimitHolds == LoadSpec => []LimitIsKept
<1>1. LoadInit => SendInv
  BY LimitType DEF LoadInit, SendInv, LimitIsKept
<1>2. SendInv => LimitIsKept
  BY DEF SendInv
<1> QED BY <1>1, <1>2, StepKeepsLimit, PTL DEF LoadSpec

-----------------------------------------------------------------------------
(* The configuration of a test that is called.                             *)
LEMMA ConfigType ==
    ASSUME config \in Suites, NEW t \in DOMAIN config
    PROVE  /\ t \in Tests
           /\ config[t] \in Config
           /\ config[t].workers \in 1..Workers
           /\ W(t) \subseteq 1..Workers
           /\ W(t) # {}
           /\ config[t].requests \in Nat
           /\ ~config[t].isTimed => config[t].requests # 0 /\ ~config[t].isStaged
<1>1. PICK S \in SUBSET Tests : config \in [S -> Config]
  BY LoadTestAssumption
<1>2. t \in Tests /\ config[t] \in Config
  BY <1>1
<1>3. config[t].workers \in 1..Workers
  BY <1>2 DEF Config
<1>4. W(t) \subseteq 1..Workers /\ 1 \in W(t)
  BY <1>3, LoadTestAssumption DEF W
<1> QED BY <1>2, <1>3, <1>4, LoadTestAssumption DEF Config

(* The workers of t that hold a slot of the pacer, and the slots whose     *)
(* time has come that were handed out and are not held any more.           *)
Holding(t) == {w \in 1..Workers : workerAt[t][w] \in {"pacing", "waiting", "paced"}}
Used(t) == {k \in 0..clock[t] : k < reserved[t] /\ \A w \in Holding(t) : pass[t][w] # k}

PaceTypes ==
    /\ config \in Suites
    /\ clock \in [Tests -> Nat]
    /\ reserved \in [Tests -> Nat]
    /\ workerAt \in [Tests -> [1..Workers -> Spots]]
    /\ pass \in [Tests -> [1..Workers -> Nat]]
    /\ sentCount \in [Tests -> Nat]

(* Every worker in the pacer holds a slot of its own, and one that has     *)
(* passed it holds a slot whose time has come.                             *)
SlotsAreOwn(t) ==
    /\ \A v, w \in Holding(t) : pass[t][v] = pass[t][w] => v = w
    /\ \A w \in Holding(t) : pass[t][w] < reserved[t]
    /\ \A w \in Holding(t) : workerAt[t][w] = "paced" => pass[t][w] <= clock[t]

(* RateIsKept is not inductive: that the next request may be sent is known *)
(* from the slots.  Each request used up one of its own.                   *)
PaceInv ==
    /\ PaceTypes
    /\ \A t \in DOMAIN config : config[t].isPaced =>
          /\ SlotsAreOwn(t)
          /\ sentCount[t] <= Cardinality(Used(t))

(* A set of slots that have come has at most as many as the clock counts,  *)
(* and no more than a set it is part of.                                   *)
LEMMA SlotCount ==
    ASSUME NEW n \in Nat, NEW S, S \subseteq 0..n, NEW T, T \subseteq S
    PROVE  /\ IsFiniteSet(T)
           /\ Cardinality(S) \in Nat
           /\ Cardinality(T) \in Nat
           /\ Cardinality(S) <= n + 1
           /\ Cardinality(T) <= Cardinality(S)
<1>1. IsFiniteSet(0..n) /\ Cardinality(0..n) = n + 1
  BY FS_Interval
<1>2. IsFiniteSet(S) /\ Cardinality(S) <= n + 1
  BY <1>1, FS_Subset
<1> QED BY <1>2, FS_Subset, FS_CardinalityType

(* A step that sends nothing and gives no slot back keeps the account.     *)
LEMMA UsedGrows ==
    ASSUME PaceInv, PaceTypes', NEW t \in DOMAIN config, config' = config,
           config[t].isPaced, sentCount'[t] = sentCount[t], Used(t) \subseteq Used(t)'
    PROVE  sentCount'[t] <= Cardinality(Used(t)')
<1>1. t \in Tests /\ clock'[t] \in Nat /\ sentCount[t] \in Nat
  BY ConfigType DEF PaceInv, PaceTypes
<1>2. Used(t)' \subseteq 0..clock'[t]
  BY DEF Used
<1>3. sentCount[t] <= Cardinality(Used(t))
  BY DEF PaceInv
<1>4. /\ Cardinality(Used(t)') \in Nat
      /\ Cardinality(Used(t)) \in Nat
      /\ Cardinality(Used(t)) <= Cardinality(Used(t)')
  BY <1>1, <1>2, SlotCount
<1> QED BY <1>1, <1>3, <1>4

(* Reserve hands out the next slot: it was never held and is not used up.  *)
LEMMA ReserveKeepsRate ==
    ASSUME PaceInv, NEW u \in Tests, NEW v \in 1..Workers, Reserve(u, v)
    PROVE  PaceInv'
<1> USE DEF PaceInv, PaceTypes
<1>1. PaceTypes'
  BY DEF Reserve, Move, guiVars, Spots
<1>2. config' = config /\ sentCount' = sentCount /\ clock' = clock
  BY DEF Reserve, guiVars
<1>3. ASSUME NEW t \in DOMAIN config, config[t].isPaced
      PROVE  SlotsAreOwn(t)' /\ sentCount'[t] <= Cardinality(Used(t)')
  <2>1. t \in Tests
    BY ConfigType
  <2>2. CASE t # u
    BY <1>1, <1>2, <1>3, <2>1, <2>2, UsedGrows DEF Reserve, Move, SlotsAreOwn, Used, Holding
  <2>3. CASE t = u
    <3>1. Holding(t)' = Holding(t) \cup {v} /\ v \notin Holding(t)
      BY <2>1, <2>3 DEF Reserve, Move, Holding
    <3>2. /\ \A w \in Holding(t) : pass'[t][w] = pass[t][w] /\ workerAt'[t][w] = workerAt[t][w] /\ w \in 1..Workers
          /\ pass'[t][v] = reserved[t]
          /\ reserved'[t] = reserved[t] + 1
          /\ workerAt'[t][v] = "pacing"
      BY <3>1, <2>1, <2>3 DEF Reserve, Move, Holding
    <3>3. SlotsAreOwn(t)'
      <4>1. /\ \A w \in Holding(t) : pass[t][w] \in Nat /\ pass[t][w] < reserved[t]
            /\ reserved[t] \in Nat
        BY <1>3, <2>1, <3>2 DEF SlotsAreOwn
      <4> HIDE DEF PaceInv, PaceTypes
      <4>5. \A x, w \in Holding(t) : pass[t][x] = pass[t][w] => x = w
        BY <1>3 DEF SlotsAreOwn, PaceInv
      <4>2. \A x, w \in Holding(t)' : pass'[t][x] = pass'[t][w] => x = w
        BY <4>5, <3>1, <3>2, <4>1
      <4>3. \A w \in Holding(t)' : pass'[t][w] < reserved'[t]
        BY <3>1, <3>2, <4>1
      <4> USE DEF PaceInv, PaceTypes
      <4>4. \A w \in Holding(t)' : workerAt'[t][w] = "paced" => pass'[t][w] <= clock'[t]
        BY <1>2, <1>3, <3>1, <3>2 DEF SlotsAreOwn
      <4> QED BY <4>2, <4>3, <4>4 DEF SlotsAreOwn
    <3>4. Used(t) \subseteq Used(t)'
      <4>1. ASSUME NEW k \in Used(t) PROVE k \in 0..clock[t] /\ k < reserved'[t] /\ k # pass'[t][v]
        BY <2>1, <3>2, <4>1 DEF Used
      <4> QED BY <1>2, <3>1, <3>2, <4>1 DEF Used
    <3> QED BY <1>1, <1>2, <1>3, <3>3, <3>4, UsedGrows
  <2> QED BY <2>2, <2>3
<1> QED BY <1>1, <1>2, <1>3

(* A claimed request uses up the slot its worker held.                     *)
LEMMA ClaimKeepsRate ==
    ASSUME PaceInv, NEW u \in Tests, NEW v \in 1..Workers, Claim(u, v)
    PROVE  PaceInv'
<1> USE DEF PaceInv, PaceTypes
<1>2. config' = config /\ clock' = clock /\ reserved' = reserved /\ pass' = pass
  BY DEF Claim, guiVars
<1>3. PICK spot \in {"sending", "off"} : workerAt' = [workerAt EXCEPT ![u] = [@ EXCEPT ![v] = spot]]
  BY DEF Claim, Move
<1>4. \/ sentCount' = sentCount
      \/ sentCount' = [sentCount EXCEPT ![u] = @ + 1]
  BY DEF Claim
<1>1. PaceTypes'
  <2>1. workerAt' \in [Tests -> [1..Workers -> Spots]]
    BY <1>3 DEF Spots
  <2>2. sentCount' \in [Tests -> Nat]
    BY <1>4
  <2> QED BY <1>2, <2>1, <2>2
<1>6. workerAt[u][v] = "paced"
  BY DEF Claim
<1>5. ASSUME NEW t \in DOMAIN config, config[t].isPaced
      PROVE  SlotsAreOwn(t)' /\ sentCount'[t] <= Cardinality(Used(t)')
  <2>1. t \in Tests
    BY ConfigType
  <2>2. CASE t # u
    BY <1>1, <1>2, <1>3, <1>4, <1>5, <2>1, <2>2, UsedGrows DEF SlotsAreOwn, Used, Holding
  <2>3. CASE t = u
    <3>1. Holding(t)' = Holding(t) \ {v} /\ v \in Holding(t)
      BY <1>3, <1>6, <2>1, <2>3 DEF Holding
    <3>2. \A w \in Holding(t)' : workerAt'[t][w] = workerAt[t][w]
      BY <1>3, <2>1, <2>3, <3>1 DEF Holding
    <3>3. SlotsAreOwn(t)'
      BY <1>2, <1>5, <3>1, <3>2 DEF SlotsAreOwn
    <3>4. pass[t][v] \in 0..clock[t] /\ pass[t][v] < reserved[t]
      <4>1. pass[t][v] <= clock[t] /\ pass[t][v] < reserved[t]
        BY <1>5, <1>6, <2>3, <3>1 DEF SlotsAreOwn
      <4>2. pass[t][v] \in Nat /\ clock[t] \in Nat
        BY <2>1
      <4> QED BY <4>1, <4>2
    <3>5. Used(t)' = Used(t) \cup {pass[t][v]} /\ pass[t][v] \notin Used(t)
      <4>1. pass[t][v] \notin Used(t)
        BY <3>1 DEF Used
      <4>2. ASSUME NEW k \in 0..clock[t], k < reserved[t]
            PROVE  k \in Used(t)' <=> k \in Used(t) \/ k = pass[t][v]
        BY <1>2, <1>5, <3>1, <4>2 DEF Used, SlotsAreOwn
      <4>3. \A k \in Used(t)' \cup Used(t) \cup {pass[t][v]} : k \in 0..clock[t] /\ k < reserved[t]
        BY <1>2, <3>4 DEF Used
      <4> QED BY <4>1, <4>2, <4>3
    <3>6. IsFiniteSet(Used(t)) /\ Cardinality(Used(t)) \in Nat
      <4>1. clock[t] \in Nat /\ Used(t) \subseteq 0..clock[t]
        BY <2>1 DEF Used
      <4> QED BY <4>1, SlotCount
    <3>7. Cardinality(Used(t)') = Cardinality(Used(t)) + 1
      BY <3>5, <3>6, FS_AddElement
    <3> QED BY <1>4, <1>5, <2>1, <2>3, <3>3, <3>6, <3>7
  <2> QED BY <2>2, <2>3
<1> QED BY <1>1, <1>2, <1>5

(* What every other step does to the pacer: time goes on, a worker leaves  *)
(* it, or passes once its slot has come.                                   *)
Calm(t) ==
    /\ clock[t] <= clock'[t]
    /\ Holding(t)' \subseteq Holding(t)
    /\ \A w \in Holding(t)' : workerAt'[t][w] = "paced" => workerAt[t][w] = "paced" \/ pass[t][w] <= clock[t]

LEMMA CalmKeepsRate ==
    ASSUME PaceInv, PaceTypes', UNCHANGED <<config, reserved, pass, sentCount>>,
           \A t \in DOMAIN config : t \in Tests /\ config[t].isPaced => Calm(t)
    PROVE  PaceInv'
<1>1. ASSUME NEW t \in DOMAIN config, config[t].isPaced
      PROVE  SlotsAreOwn(t)' /\ sentCount'[t] <= Cardinality(Used(t)')
  <2>1. t \in Tests /\ clock[t] \in Nat /\ clock'[t] \in Nat /\ Calm(t)
    BY <1>1, ConfigType DEF PaceInv, PaceTypes
  <2>2. \A w \in Holding(t) : pass[t][w] \in Nat
    BY <2>1, ZenonT(30) DEF PaceInv, PaceTypes, Holding
  <2>3. SlotsAreOwn(t)
    BY <1>1 DEF PaceInv
  <2>4. SlotsAreOwn(t)'
    BY <2>1, <2>2, <2>3 DEF SlotsAreOwn, Calm
  <2>5. Used(t) \subseteq Used(t)'
    BY <2>1 DEF Used, Calm
  <2> QED BY <1>1, <2>4, <2>5, UsedGrows
<1> QED BY <1>1 DEF PaceInv

(* Only Reserve hands out slots and only Claim sends.                      *)
LEMMA StepKeepsRate == PaceInv /\ [LoadNext]_loadVars => PaceInv'
<1> SUFFICES ASSUME PaceInv, [LoadNext]_loadVars PROVE PaceInv'
  OBVIOUS
<1> USE DEF PaceTypes, Spots
<1>p. PaceTypes
  BY DEF PaceInv
<1>1. ASSUME NEW u \in Tests, RunLoadTest(u) PROVE PaceInv'
  <2>1. /\ UNCHANGED <<config, reserved, pass, sentCount, clock>>
        /\ \A w \in 1..Workers : workerAt'[u][w] \in {"unstarted", "stage", "ramp"}
        /\ \A t \in Tests \ {u} : workerAt'[t] = workerAt[t]
        /\ workerAt' \in [Tests -> [1..Workers -> Spots]]
    BY <1>p, <1>1 DEF RunLoadTest
  <2>2. \A t \in Tests \ {u} : Calm(t)
    BY <1>p, <2>1 DEF Calm, Holding
  <2>3. Calm(u)
    <3>1. Holding(u)' = {}
      BY <2>1 DEF Holding
    <3>2. clock[u] <= clock'[u]
      BY <1>p, <2>1
    <3> QED BY <3>1, <3>2 DEF Calm
  <2> QED BY <1>p, <2>1, <2>2, <2>3, CalmKeepsRate
<1>2. ASSUME NEW u \in Tests, Tick(u) PROVE PaceInv'
  <2>1. UNCHANGED <<config, reserved, pass, sentCount, workerAt>> /\ clock' = [clock EXCEPT ![u] = @ + 1]
    BY <1>2 DEF Tick, workerVars
  <2>2. \A t \in Tests : Calm(t)
    BY <1>p, <2>1 DEF Calm, Holding
  <2> QED BY <1>p, <2>1, <2>2, CalmKeepsRate
<1>3. ASSUME NEW u \in Tests, NEW v \in 1..Workers, Work(u, v) PROVE PaceInv'
  <2>1. CASE Reserve(u, v)
    BY <2>1, ReserveKeepsRate
  <2>2. CASE Claim(u, v)
    BY <2>2, ClaimKeepsRate
  <2>3. ASSUME NEW spot \in Spots, UNCHANGED <<config, reserved, pass, sentCount, clock>>,
               Move(u, v, spot),
               spot \in {"pacing", "waiting", "paced"} => v \in Holding(u),
               spot = "paced" => pass[u][v] <= clock[u]
        PROVE  PaceInv'
    <3>1. PaceTypes'
      BY <1>p, <2>3 DEF Move
    <3>2. \A t \in Tests : Calm(t)
      BY <1>p, <2>3 DEF Calm, Holding, Move
    <3> QED BY <2>3, <3>1, <3>2, CalmKeepsRate
  <2>4. CASE Ramp(u, v) \/ Join(u, v) \/ LeaveStages(u, v)
    BY <2>3, <2>4 DEF Ramp, Join, LeaveStages, guiVars
  <2>5. CASE SendReturns(u, v) \/ Record(u, v)
    BY <2>3, <2>5 DEF SendReturns, Record, Again, guiVars
  <2>6. CASE Pace(u, v)
    <3>1. v \in Holding(u) /\ UNCHANGED <<config, reserved, pass, sentCount, clock>>
      BY <2>6 DEF Pace, Holding, guiVars
    <3>2. pass[u][v] \in Nat /\ clock[u] \in Nat
      BY <1>p
    <3>3. CASE pass[u][v] > clock[u]
      BY <2>3, <2>6, <3>1, <3>3 DEF Pace
    <3>4. CASE pass[u][v] <= clock[u]
      BY <2>3, <2>6, <3>1, <3>2, <3>4 DEF Pace
    <3> QED BY <3>2, <3>3, <3>4
  <2>7. CASE Await(u, v)
    BY <1>p, <2>3, <2>7 DEF Await, Holding, guiVars
  <2>8. CASE PassUnpaced(u, v)
    <3>1. PICK spot \in Spots : Move(u, v, spot)
      BY <2>8 DEF PassUnpaced
    <3>2. ~config[u].isPaced /\ UNCHANGED <<config, reserved, pass, sentCount, clock>>
      BY <2>8 DEF PassUnpaced, guiVars
    <3>3. PaceTypes'
      BY <1>p, <3>1, <3>2 DEF Move
    <3>4. \A t \in Tests \ {u} : Calm(t)
      BY <1>p, <3>1, <3>2 DEF Calm, Holding, Move
    <3> QED BY <3>2, <3>3, <3>4, CalmKeepsRate
  <2> QED BY <1>3, <2>1, <2>2, <2>4, <2>5, <2>6, <2>7, <2>8 DEF Work
<1>4. CASE UNCHANGED <<config, reserved, pass, sentCount, clock, workerAt>>
  <2>1. \A t \in Tests : Calm(t)
    BY <1>p, <1>4 DEF Calm, Holding
  <2> QED BY <1>p, <1>4, <2>1, CalmKeepsRate
<1> QED BY <1>1, <1>2, <1>3, <1>4
    DEF LoadNext, Main, Reject, Refuse, Finish, EndLoadTest, Report, ReadProgress,
        EmitProgress, EndProgress, Expire, StopLoadTest, Rest, workerVars, loadVars

(* The rate cap holds at every moment, for all workers together.           *)
THEOREM RateHolds == LoadSpec => []RateIsKept
<1>1. LoadInit => PaceInv
  <2> SUFFICES ASSUME LoadInit PROVE PaceInv
    OBVIOUS
  <2>1. PaceTypes /\ \A t \in Tests : Holding(t) = {} /\ sentCount[t] = 0 /\ clock[t] = 0
    BY DEF LoadInit, PaceTypes, Spots, Holding
  <2>2. \A t \in Tests : Used(t) \subseteq 0..0
    BY <2>1 DEF Used
  <2>3. \A t \in Tests : sentCount[t] <= Cardinality(Used(t))
    BY <2>1, <2>2, SlotCount
  <2> QED BY <2>1, <2>3, ConfigType DEF PaceInv, PaceTypes, SlotsAreOwn
<1>2. PaceInv => RateIsKept
  <2> SUFFICES ASSUME PaceInv, NEW t \in DOMAIN config, config[t].isPaced
               PROVE  sentCount[t] <= clock[t] + 1
    BY DEF RateIsKept
  <2>1. t \in Tests /\ clock[t] \in Nat /\ sentCount[t] \in Nat
    BY ConfigType DEF PaceInv, PaceTypes
  <2>2. Used(t) \subseteq 0..clock[t]
    BY DEF Used
  <2>3. Cardinality(Used(t)) \in Nat /\ Cardinality(Used(t)) <= clock[t] + 1
    BY <2>1, <2>2, SlotCount
  <2> QED BY <2>1, <2>3 DEF PaceInv
<1> QED BY <1>1, <1>2, StepKeepsRate, PTL DEF LoadSpec

-----------------------------------------------------------------------------
(* The workers of t whose request is sent and not yet counted.             *)
InFlight(t) == {w \in 1..Workers : workerAt[t][w] \in {"sending", "answered"}}

CountTypes ==
    /\ config \in Suites
    /\ phase \in [Tests -> TestPhases]
    /\ issued \in [Tests -> Nat]
    /\ workerAt \in [Tests -> [1..Workers -> Spots]]
    /\ sentCount \in [Tests -> Nat]
    /\ total \in [Tests -> Nat]
    /\ reporter \in [Tests -> [at : {"none", "ticking", "read", "finished"}, count : Nat]]
    /\ shownCount \in [Tests -> Nat]
    /\ report \in [Tests -> SUBSET [total : Nat, isStopped : BOOLEAN]]

(* Where the workers of t can be, by what the call has come to.            *)
WorkersFit(t) ==
    /\ phase[t] = "running" => t \in DOMAIN config
    /\ phase[t] = "idle" => report[t] = {} /\ \A w \in 1..Workers : workerAt[t][w] = "unstarted"
    /\ t \in DOMAIN config => \A w \in (1..Workers) \ W(t) : workerAt[t][w] = "unstarted"

(* A request that was sent is counted or in flight; only a stopped test    *)
(* throws outcomes away.                                                   *)
SendsAreCounted(t) ==
    /\ total[t] + Cardinality(InFlight(t)) <= sentCount[t]
    /\ t \notin stopped => total[t] + Cardinality(InFlight(t)) = sentCount[t]

(* The requests sent are the claims within the limit, and without Stop or  *)
(* a duration a worker leaves only after one beyond it.                    *)
ClaimsAreSent(t) ==
    t \in DOMAIN config =>
        /\ sentCount[t] = IF issued[t] < Limit(t) THEN issued[t] ELSE Limit(t)
        /\ ~config[t].isTimed =>
              /\ t \notin expired
              /\ t \notin stopped => \A w \in 1..Workers :
                                        workerAt[t][w] = "off" => issued[t] >= Limit(t)

ProgressIsBehind(t) == shownCount[t] <= total[t] /\ reporter[t].count <= total[t]

(* Once the report is there nothing it is about changes any more.          *)
ReportStands(t) ==
    \A r \in report[t] :
        /\ \A w \in 1..Workers : workerAt[t][w] \in {"off", "unstarted"}
        /\ reporter[t].at = "finished"
        /\ r.total = total[t]
        /\ ~r.isStopped => r.total = sentCount[t]
        /\ ~r.isStopped /\ ~config[t].isTimed => r.total = config[t].requests

CountsFit(t) == /\ WorkersFit(t) /\ SendsAreCounted(t) /\ ClaimsAreSent(t)
                /\ ProgressIsBehind(t) /\ ReportStands(t)

CountInv == CountTypes /\ \A t \in Tests : CountsFit(t)

(* Counting the workers in flight.                                         *)
LEMMA WorkerCount ==
    ASSUME NEW S, S \subseteq 1..Workers, NEW v \in 1..Workers
    PROVE  /\ Cardinality(S) \in Nat
           /\ v \notin S => Cardinality(S \cup {v}) = Cardinality(S) + 1
           /\ v \in S => Cardinality(S \ {v}) = Cardinality(S) - 1
<1>1. IsFiniteSet(1..Workers)
  BY FS_Interval, LoadTestAssumption
<1>2. IsFiniteSet(S)
  BY <1>1, FS_Subset
<1> QED BY <1>2, FS_CardinalityType, FS_AddElement, FS_RemoveElement

(* What a step does to the tests it is not about: another may be stopped.  *)
Aside(t) ==
    /\ phase'[t] = phase[t]
    /\ issued'[t] = issued[t]
    /\ workerAt'[t] = workerAt[t]
    /\ sentCount'[t] = sentCount[t]
    /\ total'[t] = total[t]
    /\ reporter'[t] = reporter[t]
    /\ shownCount'[t] = shownCount[t]
    /\ report'[t] = report[t]
    /\ t \in stopped => t \in stopped'
    /\ t \in expired' => t \in expired

LEMMA AsideKeepsCounts ==
    ASSUME NEW t, CountsFit(t), config' = config, Aside(t)
    PROVE  CountsFit(t)'
<1> USE DEF CountsFit, Aside
<1>1. WorkersFit(t)'
  BY DEF WorkersFit, W
<1>2. InFlight(t)' = InFlight(t)
  BY DEF InFlight
<1>3. SendsAreCounted(t)'
  BY <1>2 DEF SendsAreCounted
<1>4. ClaimsAreSent(t)'
  BY DEF ClaimsAreSent, Limit
<1>5. ProgressIsBehind(t)' /\ ReportStands(t)'
  BY DEF ProgressIsBehind, ReportStands
<1> QED BY <1>1, <1>3, <1>4, <1>5

(* A call of RunLoadTest that begins: no worker has done anything yet.     *)
LEMMA RunKeepsCounts ==
    ASSUME CountInv, NEW u \in Tests, RunLoadTest(u)
    PROVE  CountInv'
<1> USE DEF CountInv, CountTypes
<1>1. /\ u \in DOMAIN config /\ phase[u] = "idle"
      /\ phase' = [phase EXCEPT ![u] = "running"]
      /\ reporter' = [reporter EXCEPT ![u].at = "ticking"]
      /\ UNCHANGED <<config, stopped, expired, shownCount, report, issued, sentCount, total>>
  BY DEF RunLoadTest
<1>2. /\ \A w \in 1..Workers : workerAt'[u][w] \in {"unstarted", "stage", "ramp"}
      /\ \A w \in (1..Workers) \ W(u) : workerAt'[u][w] = "unstarted"
      /\ \A t \in Tests \ {u} : workerAt'[t] = workerAt[t]
      /\ workerAt' \in [Tests -> [1..Workers -> Spots]]
  BY DEF RunLoadTest, Spots
<1>3. CountTypes'
  BY <1>1, <1>2 DEF TestPhases
<1>4. ASSUME NEW t \in Tests \ {u} PROVE CountsFit(t)'
  BY <1>1, <1>2, AsideKeepsCounts DEF Aside
<1>5. CountsFit(u)'
  <2>1. report[u] = {} /\ InFlight(u) = {} /\ InFlight(u)' = {}
    BY <1>1, <1>2 DEF CountsFit, WorkersFit, InFlight
  <2>2. WorkersFit(u)'
    BY <1>1, <1>2 DEF WorkersFit, W
  <2>3. SendsAreCounted(u)'
    BY <1>1, <2>1 DEF CountsFit, SendsAreCounted
  <2>4. ClaimsAreSent(u)'
    BY <1>1, <1>2 DEF CountsFit, ClaimsAreSent, Limit
  <2>5. ProgressIsBehind(u)' /\ ReportStands(u)'
    BY <1>1, <2>1 DEF CountsFit, ProgressIsBehind, ReportStands
  <2> QED BY <2>2, <2>3, <2>4, <2>5 DEF CountsFit
<1> QED BY <1>3, <1>4, <1>5

(* The report: every worker is off, so nothing is in flight and, unless    *)
(* the test was stopped, the limit is reached or the duration over.        *)
LEMMA FinishKeepsCounts ==
    ASSUME CountInv, NEW u \in Tests, Finish(u)
    PROVE  CountInv'
<1> USE DEF CountInv, CountTypes
<1>1. /\ phase[u] = "running" /\ reporter[u].at = "finished"
      /\ \A w \in W(u) : workerAt[u][w] = "off"
      /\ phase' = [phase EXCEPT ![u] = "reported"]
      /\ report' = [report EXCEPT ![u] = {[total |-> total[u], isStopped |-> u \in stopped]}]
      /\ UNCHANGED <<config, stopped, expired, reporter, shownCount, issued, sentCount, total, workerAt>>
  BY DEF Finish, workerVars
<1>2. CountTypes'
  BY <1>1 DEF TestPhases
<1>3. ASSUME NEW t \in Tests \ {u} PROVE CountsFit(t)'
  BY <1>1, AsideKeepsCounts DEF Aside
<1>4. CountsFit(u)'
  <2>1. u \in DOMAIN config /\ CountsFit(u)
    BY <1>1 DEF CountsFit, WorkersFit
  <2>2. \A w \in 1..Workers : workerAt[u][w] \in {"off", "unstarted"}
    BY <1>1, <2>1 DEF CountsFit, WorkersFit
  <2>3. InFlight(u) = {}
    BY <2>2 DEF InFlight
  <2>4. u \notin stopped => total[u] = sentCount[u]
    BY <2>1, <2>3, FS_EmptySet DEF CountsFit, SendsAreCounted
  <2>5. u \notin stopped /\ ~config[u].isTimed => sentCount[u] = config[u].requests
    <3> SUFFICES ASSUME u \notin stopped, ~config[u].isTimed PROVE sentCount[u] = config[u].requests
      OBVIOUS
    <3>1. PICK w \in 1..Workers : workerAt[u][w] = "off"
      BY <1>1, <2>1, ConfigType
    <3>2. issued[u] >= Limit(u) /\ sentCount[u] = IF issued[u] < Limit(u) THEN issued[u] ELSE Limit(u)
      BY <2>1, <3>1 DEF CountsFit, ClaimsAreSent
    <3>3. Limit(u) = config[u].requests /\ Limit(u) \in Nat
      BY <2>1, ConfigType DEF Limit
    <3> QED BY <3>2, <3>3
  <2>6. ReportStands(u)'
    <3> SUFFICES ASSUME NEW r \in report'[u]
                 PROVE  /\ r.total = total[u]
                        /\ ~r.isStopped => u \notin stopped
      BY <1>1, <2>2, <2>4, <2>5 DEF ReportStands
    <3>1. r = [total |-> total[u], isStopped |-> u \in stopped]
      BY <1>1
    <3> QED BY <3>1, Zenon
  <2>7. WorkersFit(u)' /\ SendsAreCounted(u)' /\ ClaimsAreSent(u)' /\ ProgressIsBehind(u)'
    BY <1>1, <2>1 DEF CountsFit, WorkersFit, SendsAreCounted, ClaimsAreSent, ProgressIsBehind,
       InFlight, Limit, W
  <2> QED BY <2>6, <2>7 DEF CountsFit
<1> QED BY <1>2, <1>3, <1>4

(* The progress goroutine shows no more than it read from the collector.   *)
LEMMA ReportKeepsCounts ==
    ASSUME CountInv, NEW u \in Tests, Report(u)
    PROVE  CountInv'
<1> USE DEF CountInv, CountTypes
<1>1. UNCHANGED <<config, phase, stopped, expired, report, issued, sentCount, total, workerAt>>
  BY DEF Report, ReadProgress, EmitProgress, EndProgress, workerVars
<1>2. reporter[u].at # "finished"
  BY DEF Report, ReadProgress, EmitProgress, EndProgress
<1>3. /\ shownCount'[u] <= total[u] /\ reporter'[u].count <= total[u]
      /\ \A t \in Tests \ {u} : reporter'[t] = reporter[t] /\ shownCount'[t] = shownCount[t]
      /\ shownCount' \in [Tests -> Nat]
      /\ reporter' \in [Tests -> [at : {"none", "ticking", "read", "finished"}, count : Nat]]
  <2>1. CountsFit(u)
    OBVIOUS
  <2>2. CASE ReadProgress(u)
    BY <2>1, <2>2 DEF ReadProgress, CountsFit, ProgressIsBehind
  <2>3. CASE EmitProgress(u)
    BY <2>1, <2>3 DEF EmitProgress, CountsFit, ProgressIsBehind
  <2>4. CASE EndProgress(u)
    BY <2>1, <2>4 DEF EndProgress, CountsFit, ProgressIsBehind
  <2> QED BY <2>2, <2>3, <2>4 DEF Report
<1>4. CountTypes'
  BY <1>1, <1>3
<1>5. ASSUME NEW t \in Tests \ {u} PROVE CountsFit(t)'
  BY <1>1, <1>3, AsideKeepsCounts DEF Aside
<1>6. CountsFit(u)'
  <2>1. CountsFit(u)
    OBVIOUS
  <2>2. report[u] = {}
    BY <1>2, <2>1 DEF CountsFit, ReportStands
  <2>3. ReportStands(u)' /\ ProgressIsBehind(u)'
    BY <1>1, <1>3, <2>2 DEF ReportStands, ProgressIsBehind
  <2>4. WorkersFit(u)' /\ SendsAreCounted(u)' /\ ClaimsAreSent(u)'
    BY <1>1, <2>1 DEF CountsFit, WorkersFit, SendsAreCounted, ClaimsAreSent, InFlight, Limit, W
  <2> QED BY <2>3, <2>4 DEF CountsFit
<1> QED BY <1>4, <1>5, <1>6

(* The steps of a call and of its context that touch no count.             *)
LEMMA CallKeepsCounts ==
    ASSUME CountInv, UNCHANGED <<config, issued, workerAt, sentCount, total, reporter, shownCount, report>>,
           stopped \subseteq stopped', phase' \in [Tests -> TestPhases],
           \A t \in Tests : /\ phase'[t] \in {"running", "idle"} => phase'[t] = phase[t]
                            /\ t \in expired' => t \in expired \/ config[t].isTimed
    PROVE  CountInv'
<1> USE DEF CountInv, CountTypes
<1>1. ASSUME NEW t \in Tests PROVE CountsFit(t)'
  <2>1. CountsFit(t)
    OBVIOUS
  <2>2. WorkersFit(t)'
    BY <2>1 DEF CountsFit, WorkersFit, W
  <2>3. SendsAreCounted(t)'
    BY <2>1 DEF CountsFit, SendsAreCounted, InFlight
  <2>4. ClaimsAreSent(t)'
    BY <2>1 DEF CountsFit, ClaimsAreSent, Limit
  <2>5. ProgressIsBehind(t)' /\ ReportStands(t)'
    BY <2>1 DEF CountsFit, ProgressIsBehind, ReportStands
  <2> QED BY <2>2, <2>3, <2>4, <2>5 DEF CountsFit
<1> QED BY <1>1

(* A worker that moves between the places where it has nothing in flight   *)
(* keeps every count; without Stop and a duration it does not leave.       *)
LEMMA MoveKeepsCounts ==
    ASSUME CountInv, NEW u \in Tests, NEW v \in 1..Workers, NEW spot \in Spots,
           workerAt[u][v] \notin {"off", "unstarted", "sending", "answered"},
           spot \notin {"unstarted", "sending", "answered"},
           Move(u, v, spot), spot = "off" => IsOver(u),
           UNCHANGED <<issued, sentCount, total>>, UNCHANGED guiVars
    PROVE  CountInv'
<1> USE DEF CountInv, CountTypes
<1>1. /\ \A t \in Tests \ {u} : workerAt'[t] = workerAt[t]
      /\ workerAt' \in [Tests -> [1..Workers -> Spots]]
      /\ workerAt'[u] = [workerAt[u] EXCEPT ![v] = spot]
      /\ workerAt[u] \in [1..Workers -> Spots]
  BY DEF Move
<1>2. UNCHANGED <<config, phase, stopped, expired, reporter, shownCount, report, issued, sentCount, total>>
  BY DEF guiVars
<1>3. CountTypes'
  BY <1>1, <1>2
<1>4. ASSUME NEW t \in Tests \ {u} PROVE CountsFit(t)'
  BY <1>1, <1>2, AsideKeepsCounts DEF Aside
<1>5. CountsFit(u)'
  <2>1. CountsFit(u)
    OBVIOUS
  <2>2. WorkersFit(u)' /\ ReportStands(u)' /\ ProgressIsBehind(u)'
    BY <1>1, <1>2, <2>1 DEF CountsFit, WorkersFit, W, ReportStands, ProgressIsBehind
  <2>3. InFlight(u)' = InFlight(u)
    BY <1>1 DEF InFlight
  <2>4. SendsAreCounted(u)'
    BY <1>2, <2>1, <2>3 DEF CountsFit, SendsAreCounted
  <2>5. ClaimsAreSent(u)'
    BY <1>1, <1>2, <2>1 DEF CountsFit, ClaimsAreSent, Limit, IsOver
  <2> QED BY <2>2, <2>4, <2>5 DEF CountsFit
<1> QED BY <1>3, <1>4, <1>5

(* A claim within the limit puts one more request in flight; one beyond it *)
(* ends the worker with the limit reached.                                 *)
LEMMA ClaimKeepsCounts ==
    ASSUME CountInv, NEW u \in Tests, NEW v \in 1..Workers, Claim(u, v)
    PROVE  CountInv'
<1> USE DEF CountInv, CountTypes
<1>1. /\ workerAt[u][v] = "paced"
      /\ issued' = [issued EXCEPT ![u] = @ + 1]
      /\ UNCHANGED <<config, phase, stopped, expired, reporter, shownCount, report, total>>
  BY DEF Claim, guiVars
<1>2. /\ issued[u] < Limit(u) => workerAt' = [workerAt EXCEPT ![u][v] = "sending"] /\ sentCount' = [sentCount EXCEPT ![u] = @ + 1]
      /\ ~(issued[u] < Limit(u)) => workerAt' = [workerAt EXCEPT ![u][v] = "off"] /\ sentCount' = sentCount
  BY DEF Claim, Move
<1> DEFINE spot == IF issued[u] < Limit(u) THEN "sending" ELSE "off"
<1>8. workerAt' = [workerAt EXCEPT ![u][v] = spot] /\ spot \in Spots
  BY <1>2 DEF Spots
<1> HIDE DEF spot
<1>3. /\ workerAt' \in [Tests -> [1..Workers -> Spots]]
      /\ workerAt'[u] = [workerAt[u] EXCEPT ![v] = spot]
      /\ \A t \in Tests \ {u} : workerAt'[t] = workerAt[t]
  BY <1>8
<1>9. /\ issued[u] < Limit(u) => spot = "sending"
      /\ ~(issued[u] < Limit(u)) => spot = "off"
  BY DEF spot
<1>4. /\ sentCount' \in [Tests -> Nat]
      /\ \A t \in Tests \ {u} : sentCount'[t] = sentCount[t]
      /\ sentCount'[u] = IF issued[u] < Limit(u) THEN sentCount[u] + 1 ELSE sentCount[u]
  <2>1. CASE issued[u] < Limit(u)
    BY <1>2, <2>1
  <2>2. CASE ~(issued[u] < Limit(u))
    BY <1>2, <2>2
  <2> QED BY <2>1, <2>2
<1>5. CountTypes'
  <2>1. issued' \in [Tests -> Nat]
    BY <1>1
  <2> QED BY <1>1, <1>3, <1>4, <2>1
<1>6. ASSUME NEW t \in Tests \ {u} PROVE CountsFit(t)'
  BY <1>1, <1>3, <1>4, AsideKeepsCounts DEF Aside
<1>7. CountsFit(u)'
  <2>1. CountsFit(u) /\ workerAt[u] \in [1..Workers -> Spots] /\ issued[u] \in Nat
    OBVIOUS
  <2>2. WorkersFit(u)' /\ ReportStands(u)' /\ ProgressIsBehind(u)'
    BY <1>1, <1>3, <1>9, <2>1, ZenonT(30) DEF CountsFit, WorkersFit, W, ReportStands, ProgressIsBehind
  <2>3. SendsAreCounted(u)'
    <3>1. CASE issued[u] < Limit(u)
      <4>1. InFlight(u)' = InFlight(u) \cup {v} /\ v \notin InFlight(u)
        BY <1>1, <1>3, <1>9, <2>1, <3>1 DEF InFlight
      <4>2. Cardinality(InFlight(u)') = Cardinality(InFlight(u)) + 1 /\ Cardinality(InFlight(u)) \in Nat
        BY <4>1, WorkerCount DEF InFlight
      <4>3. sentCount'[u] = sentCount[u] + 1 /\ total'[u] = total[u] /\ sentCount[u] \in Nat /\ total[u] \in Nat
        BY <1>1, <1>4, <3>1
      <4>4. SendsAreCounted(u)
        BY <2>1 DEF CountsFit
      <4> HIDE DEF CountInv, CountTypes
      <4> QED BY <1>1, <4>2, <4>3, <4>4 DEF SendsAreCounted
    <3>2. CASE ~(issued[u] < Limit(u))
      <4>1. InFlight(u)' = InFlight(u)
        BY <1>1, <1>3, <1>9, <2>1, <3>2 DEF InFlight
      <4> QED BY <1>1, <1>4, <2>1, <3>2, <4>1 DEF CountsFit, SendsAreCounted
    <3> QED BY <3>1, <3>2
  <2>4. ClaimsAreSent(u)'
    <3> SUFFICES ASSUME u \in DOMAIN config PROVE ClaimsAreSent(u)'
      BY <1>1 DEF ClaimsAreSent
    <3>1. Limit(u) \in Nat /\ Limit(u)' = Limit(u)
      BY <1>1, LimitType DEF Limit
    <3>2. issued'[u] = issued[u] + 1
      BY <1>1
    <3>3. sentCount'[u] = IF issued'[u] < Limit(u) THEN issued'[u] ELSE Limit(u)
      BY <1>4, <2>1, <3>1, <3>2 DEF CountsFit, ClaimsAreSent
    <3>4. \A w \in 1..Workers : workerAt'[u][w] = "off" => workerAt[u][w] = "off" \/ issued[u] >= Limit(u)
      <4>1. Limit(u) <= issued[u] \/ issued[u] < Limit(u)
        BY <2>1, <3>1
      <4> QED BY <1>3, <1>9, <2>1, <4>1
    <3>5. ASSUME ~config[u].isTimed
          PROVE  /\ u \notin expired'
                 /\ u \notin stopped' => \A w \in 1..Workers :
                                         workerAt'[u][w] = "off" => issued'[u] >= Limit(u)
      <4>1. /\ u \notin expired
            /\ u \notin stopped => \A w \in 1..Workers : workerAt[u][w] = "off" => issued[u] >= Limit(u)
        BY <2>1, <3>5 DEF CountsFit, ClaimsAreSent
      <4> HIDE DEF CountInv, CountTypes
      <4> QED BY <1>1, <2>1, <3>1, <3>2, <3>4, <4>1
    <3> QED BY <1>1, <3>1, <3>3, <3>5 DEF ClaimsAreSent
  <2> QED BY <2>2, <2>3, <2>4 DEF CountsFit
<1> QED BY <1>5, <1>6, <1>7

(* An answer is kept to be counted, unless the test was stopped.           *)
LEMMA ReturnKeepsCounts ==
    ASSUME CountInv, NEW u \in Tests, NEW v \in 1..Workers, SendReturns(u, v)
    PROVE  CountInv'
<1> USE DEF CountInv, CountTypes
<1>1. /\ workerAt[u][v] = "sending"
      /\ UNCHANGED <<config, phase, stopped, expired, reporter, shownCount, report, issued, sentCount, total>>
  BY DEF SendReturns, guiVars
<1>2. PICK spot \in {"stage", "claim", "answered"} :
         /\ workerAt' \in [Tests -> [1..Workers -> Spots]]
         /\ workerAt'[u] = [workerAt[u] EXCEPT ![v] = spot]
         /\ \A t \in Tests \ {u} : workerAt'[t] = workerAt[t]
         /\ u \notin stopped => spot = "answered"
  BY DEF SendReturns, Move, Again, Spots
<1>3. CountTypes'
  BY <1>1, <1>2
<1>4. ASSUME NEW t \in Tests \ {u} PROVE CountsFit(t)'
  BY <1>1, <1>2, AsideKeepsCounts DEF Aside
<1>5. CountsFit(u)'
  <2>1. CountsFit(u) /\ workerAt[u] \in [1..Workers -> Spots] /\ sentCount[u] \in Nat /\ total[u] \in Nat
    OBVIOUS
  <2>2. WorkersFit(u)' /\ ReportStands(u)' /\ ProgressIsBehind(u)'
    BY <1>1, <1>2, <2>1 DEF CountsFit, WorkersFit, W, ReportStands, ProgressIsBehind
  <2>3. SendsAreCounted(u)'
    <3>1. CASE spot = "answered"
      <4>1. InFlight(u)' = InFlight(u)
        BY <1>1, <1>2, <2>1, <3>1 DEF InFlight
      <4> QED BY <1>1, <2>1, <4>1 DEF CountsFit, SendsAreCounted
    <3>2. CASE spot # "answered"
      <4>1. InFlight(u)' = InFlight(u) \ {v} /\ v \in InFlight(u)
        BY <1>1, <1>2, <2>1, <3>2 DEF InFlight
      <4>2. Cardinality(InFlight(u)') = Cardinality(InFlight(u)) - 1 /\ Cardinality(InFlight(u)) \in Nat
        BY <4>1, WorkerCount DEF InFlight
      <4> QED BY <1>1, <1>2, <2>1, <3>2, <4>2 DEF CountsFit, SendsAreCounted
    <3> QED BY <3>1, <3>2
  <2>4. ClaimsAreSent(u)'
    BY <1>1, <1>2, <2>1 DEF CountsFit, ClaimsAreSent, Limit
  <2> QED BY <2>2, <2>3, <2>4 DEF CountsFit
<1> QED BY <1>3, <1>4, <1>5

(* What was in flight is counted.                                          *)
LEMMA RecordKeepsCounts ==
    ASSUME CountInv, NEW u \in Tests, NEW v \in 1..Workers, Record(u, v)
    PROVE  CountInv'
<1> USE DEF CountInv, CountTypes
<1>1. /\ workerAt[u][v] = "answered"
      /\ total' = [total EXCEPT ![u] = @ + 1]
      /\ UNCHANGED <<config, phase, stopped, expired, reporter, shownCount, report, issued, sentCount>>
  BY DEF Record, guiVars
<1>2. PICK spot \in {"stage", "claim"} :
         /\ workerAt' \in [Tests -> [1..Workers -> Spots]]
         /\ workerAt'[u] = [workerAt[u] EXCEPT ![v] = spot]
         /\ \A t \in Tests \ {u} : workerAt'[t] = workerAt[t]
  BY DEF Record, Move, Again, Spots
<1>3. CountTypes'
  <2>1. total' \in [Tests -> Nat]
    BY <1>1
  <2> QED BY <1>1, <1>2, <2>1
<1>4. ASSUME NEW t \in Tests \ {u} PROVE CountsFit(t)'
  BY <1>1, <1>2, AsideKeepsCounts DEF Aside
<1>5. CountsFit(u)'
  <2>1. CountsFit(u) /\ workerAt[u] \in [1..Workers -> Spots] /\ sentCount[u] \in Nat /\ total[u] \in Nat
    OBVIOUS
  <2>2. WorkersFit(u)' /\ ReportStands(u)'
    BY <1>1, <1>2, <2>1, ZenonT(30) DEF CountsFit, WorkersFit, W, ReportStands
  <2>3. InFlight(u)' = InFlight(u) \ {v} /\ v \in InFlight(u)
    BY <1>1, <1>2, <2>1 DEF InFlight
  <2>4. Cardinality(InFlight(u)') = Cardinality(InFlight(u)) - 1 /\ Cardinality(InFlight(u)) \in Nat
    BY <2>3, WorkerCount DEF InFlight
  <2>7. total'[u] = total[u] + 1 /\ sentCount'[u] = sentCount[u] /\ stopped' = stopped
    BY <1>1
  <2>8. SendsAreCounted(u)'
    <3>1. SendsAreCounted(u)
      BY <2>1 DEF CountsFit
    <3> HIDE DEF CountInv, CountTypes
    <3> QED BY <2>1, <2>4, <2>7, <3>1 DEF SendsAreCounted
  <2>9. shownCount[u] \in Nat /\ reporter[u].count \in Nat
    OBVIOUS
  <2>5. ProgressIsBehind(u)'
    BY <1>1, <2>1, <2>7, <2>9 DEF CountsFit, ProgressIsBehind
  <2>6. ClaimsAreSent(u)'
    BY <1>1, <1>2, <2>1 DEF CountsFit, ClaimsAreSent, Limit
  <2> QED BY <2>2, <2>5, <2>6, <2>8 DEF CountsFit
<1> QED BY <1>3, <1>4, <1>5

LEMMA StepKeepsCounts == CountInv /\ [LoadNext]_loadVars => CountInv'
<1> SUFFICES ASSUME CountInv, [LoadNext]_loadVars PROVE CountInv'
  OBVIOUS
<1>1. ASSUME NEW u \in Tests, Main(u) PROVE CountInv'
  <2>1. CASE RunLoadTest(u)
    BY <2>1, RunKeepsCounts
  <2>2. CASE Finish(u)
    BY <2>2, FinishKeepsCounts
  <2>3. CASE Reject(u) \/ Refuse(u) \/ EndLoadTest(u)
    BY <2>3, CallKeepsCounts DEF Reject, Refuse, EndLoadTest, workerVars, CountInv, CountTypes, TestPhases
  <2> QED BY <1>1, <2>1, <2>2, <2>3 DEF Main
<1>2. ASSUME NEW u \in Tests, Expire(u) PROVE CountInv'
  BY <1>2, CallKeepsCounts DEF Expire, workerVars, CountInv, CountTypes
<1>3. ASSUME NEW u \in Tests, NEW v \in 1..Workers, Work(u, v) PROVE CountInv'
  <2>1. CASE Ramp(u, v) \/ Join(u, v) \/ LeaveStages(u, v)
    BY <2>1, MoveKeepsCounts DEF Ramp, Join, LeaveStages, Spots
  <2>2. CASE PassUnpaced(u, v) \/ Reserve(u, v)
    BY <2>2, MoveKeepsCounts DEF PassUnpaced, Reserve, Spots
  <2>3. CASE Pace(u, v) \/ Await(u, v)
    BY <2>3, MoveKeepsCounts DEF Pace, Await, Spots
  <2> QED BY <1>3, <2>1, <2>2, <2>3, ClaimKeepsCounts, ReturnKeepsCounts, RecordKeepsCounts DEF Work
<1>4. CASE StopLoadTest
  BY <1>4, CallKeepsCounts DEF StopLoadTest, workerVars, CountInv, CountTypes
<1>5. CASE UNCHANGED <<config, phase, stopped, expired, issued, workerAt, sentCount, total, reporter, shownCount, report>>
  BY <1>5, CallKeepsCounts DEF CountInv, CountTypes
<1> QED BY <1>1, <1>2, <1>3, <1>4, <1>5, ReportKeepsCounts DEF LoadNext, Tick, Rest, workerVars, loadVars

(* A report that does not say "stopped" counts every request that was sent *)
(* and all that was asked for, and progress never ran ahead of it.         *)
THEOREM ReportsAreComplete == LoadSpec => []ReportIsComplete
<1>1. LoadInit => CountInv
  <2> SUFFICES ASSUME LoadInit PROVE CountInv
    OBVIOUS
  <2>1. CountTypes
    BY DEF LoadInit, CountTypes, TestPhases, Spots
  <2>2. ASSUME NEW t \in Tests PROVE CountsFit(t)
    <3>1. InFlight(t) = {}
      BY DEF LoadInit, InFlight
    <3>2. SendsAreCounted(t)
      BY <3>1, FS_EmptySet DEF LoadInit, SendsAreCounted
    <3>3. ClaimsAreSent(t)
      BY <2>1, LimitType DEF LoadInit, ClaimsAreSent, CountTypes
    <3>4. WorkersFit(t) /\ ProgressIsBehind(t) /\ ReportStands(t)
      BY <2>1, ConfigType DEF LoadInit, WorkersFit, ProgressIsBehind, ReportStands, CountTypes
    <3> QED BY <3>2, <3>3, <3>4 DEF CountsFit
  <2> QED BY <2>1, <2>2 DEF CountInv
<1>2. CountInv => ReportIsComplete
  BY DEF CountInv, CountsFit, ReportStands, ProgressIsBehind, ReportIsComplete
<1> QED BY <1>1, <1>2, StepKeepsCounts, PTL DEF LoadSpec
=============================================================================
