--------------------------- MODULE InterfaceProofs --------------------------
(***************************************************************************)
(* Proofs about two parts of the interface, for any limits and budgets.    *)
(* The capture window: once events and replies have arrived it shows the   *)
(* capture, and edits reach the disk, with any number of operations under  *)
(* way at once.  The sockets: links, timers and connections are accounted  *)
(* for, and the traffic is in order.                                       *)
(***************************************************************************)
EXTENDS CaptureWindow, Sockets, FiniteSetTheorems, SequenceTheorems, TLAPS

-----------------------------------------------------------------------------
(* The capture window: types *)

EventKinds == {"exchange", "held", "settled"}
OperationNames == {"none", "resume", "open", "stop", "start", "save", "clear", "trust", "inspect"}
CallNames ==
  {"none", "status", "loadConfig", "held", "list", "details", "clear", "saveConfig", "start", "stop"}
Operation ==
  [op : OperationNames, call : CallNames, isServed : BOOLEAN, got : BOOLEAN, ids : SUBSET Nat,
   config : SUBSET Nat, id : Nat, isLast : BOOLEAN]
CaptureEvent == [kind : EventKinds, id : Nat]

CwTypes ==
  /\ proxyOn \in BOOLEAN /\ isLeft \in BOOLEAN
  /\ journal \in SUBSET Nat /\ heldNow \in SUBSET (1..holds) /\ rulesOnDisk \in SUBSET Nat
  /\ eventsSent \in Seq(CaptureEvent)
  /\ operations \in [Slots -> Operation]
  /\ captureOpen \in BOOLEAN /\ shownOn \in BOOLEAN /\ isStarting \in BOOLEAN
  /\ log \in SUBSET Nat /\ shownHeld \in SUBSET Nat /\ rules \in SUBSET Nat
  /\ detail \in Nat /\ inspection \in Nat
  /\ listens \in BOOLEAN /\ listensHeld \in BOOLEAN /\ saveTimer \in BOOLEAN
  /\ recorded \in Nat /\ holds \in Nat /\ edits \in Nat
  /\ stale \in SUBSET {"running", "held", "log", "rules"}

(* An operation is formed when it is begun and goes on to the next call.   *)
LEMMA WaitingIsFormed ==
  ASSUME NEW op \in OperationNames, NEW call \in CallNames
  PROVE  Waiting(op, call) \in Operation
BY DEF Waiting, Operation

LEMMA InitCwTypes == CwInit => CwTypes
<1> SUFFICES ASSUME CwInit PROVE CwTypes
  OBVIOUS
<1>1. NoOperation \in Operation /\ Waiting("resume", "status") \in Operation
  BY WaitingIsFormed DEF NoOperation, OperationNames, CallNames
<1>2. operations \in [Slots -> Operation]
  BY <1>1 DEF CwInit
<1>3. eventsSent \in Seq(CaptureEvent)
  BY DEF CwInit
<1>4. proxyOn \in BOOLEAN /\ captureOpen \in BOOLEAN /\ shownOn \in BOOLEAN /\ isStarting \in BOOLEAN
      /\ listens \in BOOLEAN /\ listensHeld \in BOOLEAN /\ saveTimer \in BOOLEAN
  BY DEF CwInit
<1> QED BY <1>2, <1>3, <1>4 DEF CwInit, CwTypes

(* A reply touches one operation only, and only what the call is about.    *)
LEMMA ServeFacts ==
  ASSUME CwTypes, NEW s \in Slots, Serve(s)
  PROVE  /\ operations' \in [Slots -> Operation]
         /\ \A r \in Slots : r # s => operations'[r] = operations[r]
         /\ operations'[s].isServed /\ ~operations[s].isServed
         /\ operations'[s].op = operations[s].op /\ operations'[s].call = operations[s].call
         /\ operations'[s].config = operations[s].config
         /\ operations'[s].id = operations[s].id /\ operations'[s].isLast = operations[s].isLast
<1> DEFINE o == operations[s]
<1>1. o \in Operation
  BY DEF CwTypes
<1>2. PICK got \in BOOLEAN, ids \in SUBSET Nat : Answered(s, got, ids)
  <2>1. \/ Answered(s, proxyOn, {}) \/ Answered(s, o.id \in journal, {})
        \/ Answered(s, TRUE, {}) \/ Answered(s, FALSE, {})
        \/ Answered(s, TRUE, rulesOnDisk) \/ Answered(s, TRUE, heldNow) \/ Answered(s, TRUE, journal)
    BY Zenon DEF Serve, ServeConfig, ServeSave, ServeStop
  <2>2. rulesOnDisk \in SUBSET Nat /\ heldNow \in SUBSET Nat /\ journal \in SUBSET Nat /\ {} \in SUBSET Nat
    BY DEF CwTypes
  <2>3. proxyOn \in BOOLEAN /\ (o.id \in journal) \in BOOLEAN /\ TRUE \in BOOLEAN /\ FALSE \in BOOLEAN
    BY DEF CwTypes
  <2> QED BY <2>1, <2>2, <2>3, Zenon
<1>3. operations' = [operations EXCEPT ![s] = [o EXCEPT !.isServed = TRUE, !.got = got, !.ids = ids]]
  BY <1>1, <1>2 DEF Answered, CwTypes, Operation
<1>4. [o EXCEPT !.isServed = TRUE, !.got = got, !.ids = ids] \in Operation
  BY <1>1 DEF Operation
<1>5. ~o.isServed
  BY DEF Serve, ServeConfig, ServeSave, ServeStop
<1> QED BY <1>1, <1>3, <1>4, <1>5 DEF CwTypes, Operation

LEMMA OneOperation ==
  ASSUME CwTypes, NEW s \in Slots, NEW o \in Operation, operations' = [operations EXCEPT ![s] = o]
  PROVE  /\ operations' \in [Slots -> Operation] /\ operations'[s] = o
         /\ \A r \in Slots : r # s => operations'[r] = operations[r]
BY DEF CwTypes

LEMMA BeginFacts ==
  ASSUME CwTypes, NEW o \in Operation, Begin(o)
  PROVE  \E s \in Slots :
           /\ operations[s] = NoOperation
           /\ operations' \in [Slots -> Operation] /\ operations'[s] = o
           /\ \A r \in Slots : r # s => operations'[r] = operations[r]
<1>1. PICK s \in Slots : operations[s] = NoOperation /\ operations' = [operations EXCEPT ![s] = o]
  BY DEF Begin
<1> QED BY <1>1, OneOperation

(* What goes on after a reply, and what is begun, is formed.               *)
LEMMA FormedOperations ==
  ASSUME CwTypes
  PROVE  /\ NoOperation \in Operation
         /\ \A s \in Slots : operations[s] \in Operation
         /\ \A op \in OperationNames, call \in CallNames : Waiting(op, call) \in Operation
         /\ \A op \in OperationNames : Saving(op) \in Operation
         /\ \A s \in Slots : [Waiting(operations[s].op, "held") EXCEPT !.config = operations[s].ids] \in Operation
<1>1. NoOperation \in Operation
  BY WaitingIsFormed DEF NoOperation, OperationNames, CallNames
<1>2. \A op \in OperationNames : Saving(op) \in Operation
  <2> SUFFICES ASSUME NEW op \in OperationNames PROVE Saving(op) \in Operation
    OBVIOUS
  <2>1. Waiting(op, "saveConfig") \in Operation
    BY WaitingIsFormed DEF CallNames
  <2> QED BY <2>1 DEF Saving, Operation, CwTypes
<1>3. ASSUME NEW s \in Slots
      PROVE [Waiting(operations[s].op, "held") EXCEPT !.config = operations[s].ids] \in Operation
  <2>1. operations[s] \in Operation
    BY DEF CwTypes
  <2>2. operations[s].op \in OperationNames /\ operations[s].ids \in SUBSET Nat
    BY <2>1 DEF Operation
  <2>3. Waiting(operations[s].op, "held") \in Operation
    BY <2>2, WaitingIsFormed DEF CallNames
  <2> QED BY <2>2, <2>3 DEF Operation
<1>4. \A s \in Slots : operations[s] \in Operation
  BY DEF CwTypes
<1> QED BY <1>1, <1>2, <1>3, <1>4, WaitingIsFormed, Zenon

LEMMA NextOperation ==
  ASSUME CwTypes, NEW s \in Slots, Reply(s)
  PROVE  \E o \in Operation :
           /\ operations' \in [Slots -> Operation] /\ operations'[s] = o
           /\ \A r \in Slots : r # s => operations'[r] = operations[r]
<1> DEFINE o == operations[s]
<1>1. o.op \in OperationNames
  BY FormedOperations DEF Operation
<1>2. \/ operations' = [operations EXCEPT ![s] = NoOperation]
      \/ \E call \in CallNames : operations' = [operations EXCEPT ![s] = Waiting(o.op, call)]
      \/ operations' = [operations EXCEPT ![s] = Waiting("start", "start")]
      \/ operations' = [operations EXCEPT ![s] = Waiting("stop", "status")]
      \/ operations' = [operations EXCEPT ![s] = [Waiting(o.op, "held") EXCEPT !.config = o.ids]]
  <2>1. {"loadConfig", "list", "status", "start"} \subseteq CallNames
    BY DEF CallNames
  <2>2. CASE ReplyStatus(s, o) \/ ReplyHeld(s, o)
    BY <2>1, <2>2, Zenon DEF ReplyStatus, ReplyHeld, Goes, Ends
  <2>3. CASE ReplyConfig(s, o)
    BY <2>3, Zenon DEF ReplyConfig, Ends
  <2>4. CASE ReplySave(s, o) \/ ReplyStop(s, o)
    BY <2>4, Zenon DEF ReplySave, ReplyStop, Goes, Ends
  <2>5. CASE ReplyList(s, o) \/ ReplyStart(s, o) \/ ReplyClear(s, o) \/ ReplyDetails(s, o)
    BY <2>5, Zenon DEF ReplyList, ReplyStart, ReplyClear, ReplyDetails, Ends
  <2> QED BY <2>2, <2>3, <2>4, <2>5, Zenon DEF Reply
<1>3. {"start", "stop"} \subseteq OperationNames /\ {"start", "status"} \subseteq CallNames
  BY DEF OperationNames, CallNames
<1>4. PICK x \in Operation : operations' = [operations EXCEPT ![s] = x]
  BY <1>1, <1>2, <1>3, FormedOperations
<1> QED BY <1>4, OneOperation

(* After a reply the operation waits for its next call or is over.         *)
LEMMA GoesOn ==
  ASSUME CwTypes, NEW s \in Slots, Reply(s)
  PROVE  /\ ~operations'[s].isLast /\ ~operations'[s].isServed /\ operations'[s].ids = {}
         /\ (ReplyConfig(s, operations[s]) /\ operations[s].got) \/ operations'[s].config = {}
         /\ operations'[s].call = "status" => operations'[s].op = "stop"
<1> DEFINE o == operations[s]
<1>1. CASE ReplyConfig(s, o) /\ o.got
  <2>1. operations'[s] = [Waiting(o.op, "held") EXCEPT !.config = o.ids]
    BY <1>1 DEF ReplyConfig, CwTypes
  <2> QED BY <1>1, <2>1 DEF Waiting
<1>2. CASE ~(ReplyConfig(s, o) /\ o.got)
  <2>1. \E op, call : operations'[s] = Waiting(op, call) /\ (call = "status" => op = "stop")
    <3>1. CASE ReplyStatus(s, o)
      BY <3>1 DEF ReplyStatus, Goes, Ends, NoOperation, CwTypes
    <3>2. CASE ReplyHeld(s, o)
      BY <3>2 DEF ReplyHeld, Goes, Ends, NoOperation, CwTypes
    <3>3. CASE ReplySave(s, o) \/ ReplyStop(s, o)
      <4>1. operations'[s] \in {Waiting("none", "none"), Waiting("start", "start"), Waiting("stop", "status")}
        BY <3>3 DEF ReplySave, ReplyStop, Goes, Ends, NoOperation, CwTypes
      <4> QED BY <4>1
    <3>4. CASE ReplyList(s, o) \/ ReplyStart(s, o) \/ ReplyClear(s, o) \/ ReplyDetails(s, o)
      <4>1. operations'[s] = Waiting("none", "none")
        BY <3>4 DEF ReplyList, ReplyStart, ReplyClear, ReplyDetails, Ends, NoOperation, CwTypes
      <4> QED BY <4>1
    <3>5. CASE ReplyConfig(s, o)
      <4>1. operations'[s] = Waiting("none", "none")
        BY <1>2, <3>5 DEF ReplyConfig, Ends, NoOperation, CwTypes
      <4> QED BY <4>1
    <3> QED BY <1>2, <3>1, <3>2, <3>3, <3>4, <3>5 DEF Reply
  <2> QED BY <2>1 DEF Waiting
<1> QED BY <1>1, <1>2

(* An inspection begins and supersedes the ones under way.                 *)
LEMMA InspectFacts ==
  ASSUME CwTypes, Inspect
  PROVE  \E s \in Slots :
           /\ operations[s] = NoOperation /\ inspection' \in log
           /\ operations' \in [Slots -> Operation]
           /\ operations'[s].op = "inspect" /\ operations'[s].call = "details" /\ ~operations'[s].isServed
           /\ operations'[s].id = inspection' /\ operations'[s].isLast /\ operations'[s].config = {}
           /\ \A r \in Slots : r # s => operations'[r] = [operations[r] EXCEPT !.isLast = FALSE]
<1>1. PICK id \in log, s \in Slots :
        /\ operations[s] = NoOperation /\ inspection' = id
        /\ operations' = [r \in Slots |-> IF r = s
                            THEN [Waiting("inspect", "details") EXCEPT !.id = id, !.isLast = TRUE]
                            ELSE Supersede(r)]
  BY DEF Inspect
<1>2. Waiting("inspect", "details") \in Operation
  BY WaitingIsFormed DEF OperationNames, CallNames
<1>3. id \in Nat
  BY DEF CwTypes
<1> DEFINE o == [Waiting("inspect", "details") EXCEPT !.id = id, !.isLast = TRUE]
<1>4. o \in Operation /\ o.op = "inspect" /\ o.call = "details" /\ ~o.isServed /\ o.id = id /\ o.isLast /\ o.config = {}
  BY <1>3 DEF Operation, Waiting, OperationNames, CallNames
<1>5. \A r \in Slots : Supersede(r) \in Operation
  BY FormedOperations DEF Supersede, Operation
<1> HIDE DEF o
<1>6. operations' \in [Slots -> Operation]
  BY <1>1, <1>4, <1>5 DEF o
<1>7. operations'[s] = o /\ \A r \in Slots : r # s => operations'[r] = [operations[r] EXCEPT !.isLast = FALSE]
  BY <1>1 DEF o, Supersede
<1> QED BY <1>1, <1>4, <1>6, <1>7

LEMMA UseKeepsTypes ==
  ASSUME CwTypes,
         OpenWindow \/ CloseWindow \/ SaveTimerFires \/ StartCapture \/ Ask \/ Inspect
  PROVE  operations' \in [Slots -> Operation]
<1>1. OperationNames = {"none", "resume", "open", "stop", "start", "save", "clear", "trust", "inspect"}
      /\ {"status", "start", "stop", "clear", "loadConfig"} \subseteq CallNames
  BY DEF OperationNames, CallNames
<1>2. \/ Inspect \/ UNCHANGED operations
      \/ \E o \in Operation : Begin(o)
  <2>1. CASE OpenWindow \/ Ask
    BY <2>1, <1>1, FormedOperations DEF OpenWindow, Ask
  <2>2. CASE CloseWindow \/ SaveTimerFires \/ StartCapture
    BY <2>2, <1>1, FormedOperations DEF CloseWindow, SaveTimerFires, StartCapture
  <2> QED BY <2>1, <2>2
<1>3. CASE \E o \in Operation : Begin(o)
  BY <1>3, BeginFacts
<1>4. CASE Inspect
  BY <1>4, InspectFacts
<1>5. CASE UNCHANGED operations
  BY <1>5 DEF CwTypes
<1> QED BY <1>2, <1>3, <1>4, <1>5

LEMMA TrimmedIsPart == \A S : Trimmed(S) \subseteq S
BY DEF Trimmed

LEMMA EventsKeepTypes ==
  ASSUME CwTypes, RecordExchange \/ Hold \/ Settle \/ DeliverEvent
  PROVE  CwTypes'
<1> USE DEF CwTypes, appVars, storeVars, listenVars, countVars
<1>0. /\ \A n \in Nat : /\ Event("exchange", n) \in CaptureEvent
                        /\ Event("held", n) \in CaptureEvent /\ Event("settled", n) \in CaptureEvent
      /\ \A e \in CaptureEvent : e.id \in Nat
  BY DEF EventKinds, CaptureEvent, Event
<1>1. CASE RecordExchange
  <2>1. recorded' \in Nat /\ journal' \in SUBSET Nat
    <3>1. recorded' \in Nat
      BY <1>1 DEF RecordExchange
    <3>2. journal' \subseteq journal \cup {recorded'}
      BY <1>1, TrimmedIsPart DEF RecordExchange
    <3> QED BY <3>1, <3>2
  <2>2. eventsSent' \in Seq(CaptureEvent)
    BY <1>0, <1>1, <2>1 DEF RecordExchange
  <2> QED BY <1>1, <2>1, <2>2 DEF RecordExchange
<1>2. CASE Hold
  <2>1. holds' \in Nat /\ heldNow' \in SUBSET (1..holds')
    BY <1>2 DEF Hold
  <2>2. eventsSent' \in Seq(CaptureEvent)
    BY <1>0, <1>2, <2>1 DEF Hold
  <2> QED BY <1>2, <2>1, <2>2 DEF Hold
<1>3. CASE Settle
  <2>1. PICK id \in heldNow : heldNow' = heldNow \ {id} /\ eventsSent' = Append(eventsSent, Event("settled", id))
    BY <1>3 DEF Settle
  <2>2. Event("settled", id) \in CaptureEvent
    BY <1>0
  <2>3. eventsSent' \in Seq(CaptureEvent) /\ heldNow' \in SUBSET (1..holds)
    BY <2>1, <2>2
  <2> QED BY <1>3, <2>3 DEF Settle
<1>4. CASE DeliverEvent
  <2>1. Head(eventsSent) \in CaptureEvent /\ eventsSent' \in Seq(CaptureEvent)
    BY <1>4 DEF DeliverEvent
  <2>2. log' \in SUBSET Nat /\ shownHeld' \in SUBSET Nat
    BY <1>0, <1>4, <2>1, TrimmedIsPart DEF DeliverEvent, MergeLogs
  <2> QED BY <1>4, <2>1, <2>2 DEF DeliverEvent
<1> QED BY <1>1, <1>2, <1>3, <1>4

LEMMA UserKeepsTypes ==
  ASSUME CwTypes,
         \/ OpenWindow \/ CloseWindow \/ OpenAsRequest \/ CloseDetail \/ EditRules \/ SaveTimerFires
         \/ StartCapture \/ Ask \/ Inspect
  PROVE  CwTypes'
<1> USE DEF appVars, storeVars, listenVars, countVars
<1>1. CASE OpenWindow
  BY <1>1, UseKeepsTypes DEF CwTypes, OpenWindow
<1>2. CASE CloseWindow
  BY <1>2, UseKeepsTypes DEF CwTypes, CloseWindow
<1>3. CASE OpenAsRequest
  BY <1>3 DEF CwTypes, OpenAsRequest
<1>4. CASE CloseDetail
  BY <1>4 DEF CwTypes, CloseDetail
<1>5. CASE EditRules
  BY <1>5 DEF CwTypes, EditRules
<1>6. CASE SaveTimerFires
  BY <1>6, UseKeepsTypes DEF CwTypes, SaveTimerFires
<1>7. CASE StartCapture
  BY <1>7, UseKeepsTypes DEF CwTypes, StartCapture
<1>8. CASE Ask
  BY <1>8, UseKeepsTypes DEF CwTypes, Ask
<1>9. CASE Inspect
  <2>1. inspection' \in Nat
    BY <1>9, InspectFacts DEF CwTypes
  <2> QED BY <1>9, <2>1, UseKeepsTypes DEF CwTypes, Inspect
<1> QED BY <1>1, <1>2, <1>3, <1>4, <1>5, <1>6, <1>7, <1>8, <1>9

LEMMA EventFields == \A kind, id : Event(kind, id).kind = kind /\ Event(kind, id).id = id
BY DEF Event

(* The settlements of a stop are one event for every call that was held.   *)
LEMMA SettlementFacts ==
  ASSUME NEW ids \in SUBSET Nat, IsFiniteSet(ids), NEW order \in Settlements(ids)
  PROVE  /\ order \in Seq(CaptureEvent)
         /\ \A i \in 1..Len(order) : order[i].kind = "settled" /\ order[i].id \in ids
         /\ \A id \in ids : \E i \in 1..Len(order) : order[i].id = id
<1> DEFINE n == Cardinality(ids)
<1>1. n \in Nat
  BY FS_CardinalityType
<1>2. PICK f \in Surjection(1..n, ids) : order = [i \in 1..n |-> Event("settled", f[i])]
  BY DEF Settlements
<1>3. f \in [1..n -> ids] /\ \A id \in ids : \E i \in 1..n : f[i] = id
  BY <1>2 DEF Surjection
<1> HIDE DEF n
<1>4. \A i \in 1..n : order[i] = Event("settled", f[i]) /\ order[i] \in CaptureEvent
  BY <1>2, <1>3 DEF Event, CaptureEvent, EventKinds
<1>5. DOMAIN order = 1..n
  BY <1>2
<1>6. order \in Seq(CaptureEvent) /\ Len(order) = n
  BY <1>1, <1>2, <1>4, <1>5
<1>7. \A i \in 1..n : order[i].kind = "settled" /\ order[i].id = f[i]
  BY <1>4, EventFields
<1> QED BY <1>3, <1>6, <1>7

LEMMA HeldIsFinite == ASSUME CwTypes PROVE heldNow \in SUBSET Nat /\ IsFiniteSet(heldNow)
<1>1. IsFiniteSet(1..holds)
  BY FS_Interval DEF CwTypes
<1>2. heldNow \subseteq 1..holds
  BY DEF CwTypes
<1>3. IsFiniteSet(heldNow)
  BY <1>1, <1>2, FS_Subset
<1> QED BY <1>2, <1>3

LEMMA ServeKeepsTypes ==
  ASSUME CwTypes, NEW s \in Slots, Serve(s)
  PROVE  CwTypes'
<1>1. operations[s] \in Operation /\ operations' \in [Slots -> Operation]
  BY ServeFacts, FormedOperations
<1>2. eventsSent' \in Seq(CaptureEvent)
  <2>1. CASE UNCHANGED eventsSent
    BY <2>1 DEF CwTypes
  <2>2. CASE \E order \in Settlements(heldNow) : eventsSent' = eventsSent \o order
    BY <2>2, HeldIsFinite, SettlementFacts DEF CwTypes
  <2> QED BY <2>1, <2>2 DEF Serve, ServeConfig, ServeSave, ServeStop
<1>3. /\ proxyOn' \in BOOLEAN /\ isLeft' \in BOOLEAN
      /\ journal' \in SUBSET Nat /\ heldNow' \in SUBSET (1..holds) /\ rulesOnDisk' \in SUBSET Nat
  <2>1. operations[s].config \in SUBSET Nat
    BY <1>1 DEF Operation
  <2> QED BY <2>1 DEF Serve, ServeConfig, ServeSave, ServeStop, CwTypes, appVars
<1>4. stale' \in SUBSET {"running", "held", "log", "rules"}
  BY DEF Serve, ServeConfig, ServeSave, ServeStop, CwTypes
<1> QED BY <1>1, <1>2, <1>3, <1>4 DEF Serve, ServeConfig, ServeSave, ServeStop, CwTypes, storeVars, listenVars, countVars

LEMMA ReplyKeepsTypes ==
  ASSUME CwTypes, NEW s \in Slots, Reply(s)
  PROVE  CwTypes'
<1> DEFINE o == operations[s]
<1>1. o.got \in BOOLEAN /\ o.ids \in SUBSET Nat /\ o.config \in SUBSET Nat /\ o.id \in Nat
  BY FormedOperations DEF Operation
<1>2. operations' \in [Slots -> Operation]
  BY NextOperation
<1>3. UNCHANGED <<proxyOn, isLeft, journal, heldNow, rulesOnDisk, eventsSent, recorded, holds, edits>>
  BY DEF Reply, appVars, countVars
<1>4. stale' \in SUBSET {"running", "held", "log", "rules"}
  BY DEF Reply, ReplyStatus, ReplyConfig, ReplyHeld, ReplyList, ReplySave, ReplyStart, ReplyStop, ReplyClear,
         ReplyDetails, Mark, Overlooked, CwTypes
<1>5. log' \in SUBSET Nat /\ shownHeld' \in SUBSET Nat /\ rules' \in SUBSET Nat
      /\ detail' \in Nat /\ inspection' \in Nat
  <2>1. CASE ReplyList(s, o)
    <3>1. log' \subseteq o.ids \cup log
      BY <2>1, TrimmedIsPart DEF ReplyList, MergeLogs
    <3> QED BY <2>1, <3>1, <1>1 DEF ReplyList, CwTypes
  <2>2. CASE ReplyHeld(s, o) \/ ReplyClear(s, o) \/ ReplyDetails(s, o)
    <3>1. CASE ReplyHeld(s, o)
      BY <3>1, <1>1 DEF ReplyHeld, CwTypes
    <3>2. CASE ReplyClear(s, o)
      BY <3>2, <1>1 DEF ReplyClear, CwTypes
    <3>3. CASE ReplyDetails(s, o)
      BY <3>3, <1>1 DEF ReplyDetails, CwTypes
    <3> QED BY <2>2, <3>1, <3>2, <3>3
  <2>3. CASE UNCHANGED <<log, shownHeld, rules, detail, inspection>>
    BY <2>3 DEF CwTypes
  <2> QED BY <2>1, <2>2, <2>3 DEF Reply, ReplyStatus, ReplyConfig, ReplySave, ReplyStart, ReplyStop, storeVars
<1>6. captureOpen' \in BOOLEAN /\ shownOn' \in BOOLEAN /\ isStarting' \in BOOLEAN
      /\ listens' \in BOOLEAN /\ listensHeld' \in BOOLEAN /\ saveTimer' \in BOOLEAN
  <2>1. CASE ReplyStatus(s, o) \/ ReplyStart(s, o)
    BY <2>1, <1>1 DEF ReplyStatus, ReplyStart, Adopt, CwTypes
  <2>2. CASE ReplyHeld(s, o)
    BY <2>2 DEF ReplyHeld, CwTypes
  <2>3. CASE ~(ReplyStatus(s, o) \/ ReplyStart(s, o) \/ ReplyHeld(s, o))
    BY <2>3 DEF Reply, ReplyConfig, ReplyList, ReplySave, ReplyStop, ReplyClear, ReplyDetails, CwTypes,
                storeVars, listenVars
  <2> QED BY <2>1, <2>2, <2>3
<1> QED BY <1>2, <1>3, <1>4, <1>5, <1>6 DEF CwTypes

LEMMA StepKeepsCwTypes == CwTypes /\ [CwNext]_cwVars => CwTypes'
<1> SUFFICES ASSUME CwTypes, [CwNext]_cwVars PROVE CwTypes'
  OBVIOUS
<1>1. CASE \E s \in Slots : Serve(s) \/ Reply(s)
  BY <1>1, ServeKeepsTypes, ReplyKeepsTypes
<1>2. CASE UNCHANGED cwVars
  BY <1>2 DEF CwTypes, cwVars, appVars, storeVars, listenVars, countVars
<1> QED BY <1>1, <1>2, EventsKeepTypes, UserKeepsTypes DEF CwNext

-----------------------------------------------------------------------------
(* The capture window: edits reach the disk *)

\* a save that has not reached the app and has every edit in it
SavesAll(o) == o.call = "saveConfig" /\ ~o.isServed /\ o.config = 1..edits

\* the rules an operation holds: the ones it saves, and the ones it loads
HoldsEdits(o) == o.config \subseteq 1..edits /\ (o.call = "loadConfig" => o.ids \subseteq 1..edits)

(* The inductive invariant of the edits.  Unless they were overtaken, the  *)
(* window has all of them, the disk and the operations no other, and the   *)
(* ones the disk lacks are due to be saved.                                *)
EditsInv ==
  "rules" \notin stale =>
    /\ rules = 1..edits /\ rulesOnDisk \subseteq 1..edits
    /\ \A s \in Slots : HoldsEdits(operations[s])
    /\ rulesOnDisk = 1..edits \/ saveTimer \/ \E s \in Slots : SavesAll(operations[s])

LEMMA EditsInvSuffices == EditsInv => EditsAreSaved
BY DEF EditsInv, EditsAreSaved, SavesAll, NoOperation, Waiting

LEMMA InitEdits == CwInit => EditsInv
BY DEF CwInit, EditsInv, HoldsEdits, NoOperation, Waiting

(* Beginning an operation that loads nothing disturbs no save under way.   *)
LEMMA BeginKeepsEdits ==
  ASSUME CwTypes, EditsInv, "rules" \notin stale, NEW o \in Operation, Begin(o),
         o.config \subseteq 1..edits, o.ids = {}, edits' = edits
  PROVE  /\ \A s \in Slots : HoldsEdits(operations[s])'
         /\ SavesAll(o) => \E s \in Slots : SavesAll(operations[s])'
         /\ (\E s \in Slots : SavesAll(operations[s])) => \E s \in Slots : SavesAll(operations[s])'
<1>1. PICK s \in Slots :
           /\ operations[s] = NoOperation
           /\ operations' \in [Slots -> Operation] /\ operations'[s] = o
           /\ \A r \in Slots : r # s => operations'[r] = operations[r]
  BY BeginFacts
<1>2. ~SavesAll(operations[s])
  BY <1>1 DEF SavesAll, NoOperation, Waiting
<1> QED BY <1>1, <1>2 DEF EditsInv, HoldsEdits, SavesAll

LEMMA UserKeepsEdits ==
  ASSUME CwTypes, EditsInv,
         OpenWindow \/ CloseWindow \/ OpenAsRequest \/ CloseDetail \/ SaveTimerFires \/ StartCapture \/ Ask
  PROVE  EditsInv'
<1> SUFFICES ASSUME "rules" \notin stale PROVE EditsInv'
  BY DEF EditsInv, OpenWindow, CloseWindow, OpenAsRequest, CloseDetail, SaveTimerFires, StartCapture, Ask
<1>0. UNCHANGED <<rules, edits, rulesOnDisk, stale>>
  BY DEF OpenWindow, CloseWindow, OpenAsRequest, CloseDetail, SaveTimerFires, StartCapture, Ask, appVars,
         storeVars, countVars
<1>1. /\ \A op, call : Waiting(op, call).config = {} /\ Waiting(op, call).ids = {}
      /\ \A op : Saving(op).config = rules /\ Saving(op).ids = {} /\ Saving(op).call = "saveConfig" /\ ~Saving(op).isServed
  BY DEF Waiting, Saving
<1>2. /\ \A op \in OperationNames, call \in CallNames : Waiting(op, call) \in Operation
      /\ \A op \in OperationNames : Saving(op) \in Operation
  BY FormedOperations
<1>3. OperationNames = {"none", "resume", "open", "stop", "start", "save", "clear", "trust", "inspect"}
      /\ {"status", "start", "stop", "clear", "loadConfig"} \subseteq CallNames
  BY DEF OperationNames, CallNames
<1>4. rules = 1..edits
  BY DEF EditsInv
<1>5. \/ UNCHANGED <<operations, saveTimer>>
      \/ ~saveTimer /\ ~saveTimer' /\ UNCHANGED operations
      \/ /\ saveTimer' = saveTimer \/ ~saveTimer
         /\ \E o \in Operation : Begin(o) /\ o.config = {} /\ o.ids = {}
      \/ \E o \in Operation : Begin(o) /\ o.config = rules /\ o.ids = {} /\ o.call = "saveConfig" /\ ~o.isServed
  <2>1. CASE OpenWindow \/ Ask
    BY <2>1, <1>1, <1>2, <1>3 DEF OpenWindow, Ask, listenVars
  <2>2. CASE OpenAsRequest \/ CloseDetail
    BY <2>2 DEF OpenAsRequest, CloseDetail, listenVars
  <2>3. CASE CloseWindow \/ SaveTimerFires \/ StartCapture
    BY <2>3, <1>1, <1>2, <1>3 DEF CloseWindow, SaveTimerFires, StartCapture
  <2> QED BY <2>1, <2>2, <2>3
<1>6. CASE UNCHANGED operations /\ (saveTimer' = saveTimer \/ ~saveTimer)
  BY <1>0, <1>6 DEF EditsInv, HoldsEdits, SavesAll
<1>7. CASE \E o \in Operation : Begin(o) /\ o.config = {} /\ o.ids = {} /\ (saveTimer' = saveTimer \/ ~saveTimer)
  <2>1. PICK o \in Operation : Begin(o) /\ o.config = {} /\ o.ids = {} /\ (saveTimer' = saveTimer \/ ~saveTimer)
    BY <1>7
  <2>2. o.config \subseteq 1..edits
    BY <2>1
  <2>3. /\ \A s \in Slots : HoldsEdits(operations[s])'
        /\ (\E s \in Slots : SavesAll(operations[s])) => \E s \in Slots : SavesAll(operations[s])'
    BY <1>0, <2>1, <2>2, BeginKeepsEdits
  <2> QED BY <1>0, <2>1, <2>3 DEF EditsInv
<1>8. CASE \E o \in Operation : Begin(o) /\ o.config = rules /\ o.ids = {} /\ o.call = "saveConfig" /\ ~o.isServed
  <2>1. PICK o \in Operation : Begin(o) /\ o.config = rules /\ o.ids = {} /\ o.call = "saveConfig" /\ ~o.isServed
    BY <1>8
  <2>2. SavesAll(o) /\ o.config \subseteq 1..edits
    BY <2>1, <1>4 DEF SavesAll
  <2>3. (\A s \in Slots : HoldsEdits(operations[s])') /\ \E s \in Slots : SavesAll(operations[s])'
    BY <1>0, <2>1, <2>2, BeginKeepsEdits
  <2> QED BY <1>0, <2>3 DEF EditsInv
<1> QED BY <1>5, <1>6, <1>7, <1>8

LEMMA EditRulesKeepsEdits == ASSUME CwTypes, EditsInv, EditRules PROVE EditsInv'
<1> SUFFICES ASSUME "rules" \notin stale PROVE EditsInv'
  BY DEF EditsInv, EditRules
<1>1. edits' = edits + 1 /\ rules' = rules \cup {edits'} /\ saveTimer' /\ UNCHANGED <<rulesOnDisk, operations, stale>>
  BY DEF EditRules, appVars
<1>2. edits \in Nat /\ 1..edits \subseteq 1..edits' /\ 1..edits' = (1..edits) \cup {edits'}
  BY <1>1 DEF CwTypes
<1>3. \A s \in Slots : HoldsEdits(operations[s])'
  BY <1>1, <1>2 DEF EditsInv, HoldsEdits
<1> QED BY <1>1, <1>2, <1>3 DEF EditsInv

LEMMA InspectKeepsEdits == ASSUME CwTypes, EditsInv, Inspect PROVE EditsInv'
<1> SUFFICES ASSUME "rules" \notin stale PROVE EditsInv'
  BY DEF EditsInv, Inspect
<1>0. UNCHANGED <<rules, edits, rulesOnDisk, stale, saveTimer>>
  BY DEF Inspect, appVars, listenVars
<1>1. PICK s \in Slots :
           /\ operations[s] = NoOperation /\ operations' \in [Slots -> Operation]
           /\ operations'[s].call = "details" /\ operations'[s].config = {}
           /\ \A r \in Slots : r # s => operations'[r] = [operations[r] EXCEPT !.isLast = FALSE]
  BY InspectFacts
<1>2. \A r \in Slots : r # s => /\ operations'[r].call = operations[r].call
                                /\ operations'[r].isServed = operations[r].isServed
                                /\ operations'[r].config = operations[r].config
                                /\ operations'[r].ids = operations[r].ids
  BY <1>1, FormedOperations DEF Operation
<1>3. ~SavesAll(operations[s])
  BY <1>1 DEF SavesAll, NoOperation, Waiting
<1>4. \A r \in Slots : HoldsEdits(operations[r])'
  BY <1>0, <1>1, <1>2 DEF EditsInv, HoldsEdits
<1>5. \A r \in Slots : SavesAll(operations[r]) => SavesAll(operations[r])'
  BY <1>0, <1>2, <1>3 DEF SavesAll
<1> QED BY <1>0, <1>4, <1>5 DEF EditsInv

LEMMA ServeKeepsEdits ==
  ASSUME CwTypes, EditsInv, NEW s \in Slots, Serve(s)
  PROVE  EditsInv'
<1> DEFINE o == operations[s]
<1>0. UNCHANGED <<rules, edits, saveTimer>> /\ stale \subseteq stale'
  BY DEF Serve, ServeConfig, ServeSave, ServeStop, storeVars, listenVars, countVars
<1> SUFFICES ASSUME "rules" \notin stale' PROVE EditsInv'
  BY DEF EditsInv
<1>1. /\ "rules" \notin stale /\ rules = 1..edits /\ rulesOnDisk \subseteq 1..edits
      /\ \A r \in Slots : HoldsEdits(operations[r])
      /\ rulesOnDisk = 1..edits \/ saveTimer \/ \E r \in Slots : SavesAll(operations[r])
  BY <1>0 DEF EditsInv
<1>2. /\ \A r \in Slots : r # s => operations'[r] = operations[r]
      /\ operations'[s].isServed /\ ~o.isServed /\ operations'[s].call = o.call /\ operations'[s].config = o.config
  BY ServeFacts
<1>3. o.call = "loadConfig" => operations'[s].ids \in {rulesOnDisk, {}}
  <2>1. SUFFICES ASSUME o.call = "loadConfig" PROVE operations'[s].ids \in {rulesOnDisk, {}}
    OBVIOUS
  <2>2. Answered(s, TRUE, rulesOnDisk) \/ Answered(s, FALSE, {})
    BY <2>1 DEF Serve, ServeConfig, ServeSave, ServeStop
  <2> QED BY <2>2, FormedOperations DEF Answered, Operation, CwTypes
<1>4. \A r \in Slots : HoldsEdits(operations[r])'
  BY <1>0, <1>1, <1>2, <1>3 DEF HoldsEdits
<1>5. CASE o.call = "saveConfig"
  <2>1. rulesOnDisk' = o.config /\ rulesOnDisk \subseteq o.config
    BY <1>5, <1>1, <1>0 DEF Serve, ServeConfig, ServeSave, ServeStop
  <2>2. o.config \subseteq 1..edits
    BY <1>1 DEF HoldsEdits
  <2>3. \A r \in Slots : SavesAll(operations[r]) => rulesOnDisk' = 1..edits \/ SavesAll(operations[r])'
    BY <1>0, <1>2, <2>1 DEF SavesAll
  <2> QED BY <1>0, <1>1, <1>4, <2>1, <2>2, <2>3 DEF EditsInv
<1>6. CASE o.call # "saveConfig"
  <2>1. rulesOnDisk' = rulesOnDisk
    BY <1>6 DEF Serve, ServeConfig, ServeSave, ServeStop, appVars
  <2>2. \A r \in Slots : SavesAll(operations[r]) => SavesAll(operations[r])'
    BY <1>0, <1>2, <1>6 DEF SavesAll
  <2> QED BY <1>0, <1>1, <1>4, <2>1, <2>2 DEF EditsInv
<1> QED BY <1>5, <1>6

LEMMA ReplyKeepsEdits ==
  ASSUME CwTypes, EditsInv, NEW s \in Slots, Reply(s)
  PROVE  EditsInv'
<1> DEFINE o == operations[s]
<1>0. UNCHANGED <<edits, saveTimer, rulesOnDisk>> /\ ("rules" \in stale => "rules" \in stale')
  BY DEF Reply, ReplyStatus, ReplyConfig, ReplyHeld, ReplyList, ReplySave, ReplyStart, ReplyStop, ReplyClear,
         ReplyDetails, Mark, Overlooked, countVars, appVars, listenVars
<1> SUFFICES ASSUME "rules" \notin stale' PROVE EditsInv'
  BY DEF EditsInv
<1>1. /\ "rules" \notin stale /\ rules = 1..edits /\ rulesOnDisk \subseteq 1..edits
      /\ \A r \in Slots : HoldsEdits(operations[r])
      /\ rulesOnDisk = 1..edits \/ saveTimer \/ \E r \in Slots : SavesAll(operations[r])
  BY <1>0 DEF EditsInv
<1>2. /\ \A r \in Slots : r # s => operations'[r] = operations[r]
      /\ o.isServed
  BY NextOperation DEF Reply
<1>3. rules' = 1..edits
  <2>1. CASE ReplyHeld(s, o)
    <3>1. rules' = o.config /\ rules \subseteq o.config
      BY <2>1 DEF ReplyHeld
    <3>2. o.config \subseteq 1..edits
      BY <1>1 DEF HoldsEdits
    <3> QED BY <1>1, <3>1, <3>2
  <2>2. CASE ~ReplyHeld(s, o)
    BY <2>2, <1>1 DEF Reply, ReplyStatus, ReplyConfig, ReplyList, ReplySave, ReplyStart, ReplyStop, ReplyClear,
                ReplyDetails, storeVars
  <2> QED BY <2>1, <2>2
<1>4. HoldsEdits(operations[s])'
  <2>1. CASE ReplyConfig(s, o) /\ o.got
    <3>1. o.call = "loadConfig" /\ operations'[s] = [Waiting(o.op, "held") EXCEPT !.config = o.ids]
      BY <2>1 DEF ReplyConfig, CwTypes
    <3>2. operations'[s].config = o.ids /\ operations'[s].ids = {}
      BY <3>1 DEF Waiting
    <3> QED BY <1>0, <1>1, <3>1, <3>2 DEF HoldsEdits
  <2>2. CASE ~(ReplyConfig(s, o) /\ o.got)
    <3>1. operations'[s].config = {} /\ operations'[s].ids = {}
      BY <2>2, GoesOn
    <3> QED BY <3>1 DEF HoldsEdits
  <2> QED BY <2>1, <2>2
<1>5. \A r \in Slots : HoldsEdits(operations[r])'
  BY <1>0, <1>1, <1>2, <1>4 DEF HoldsEdits
<1>6. \A r \in Slots : SavesAll(operations[r]) => SavesAll(operations[r])'
  BY <1>0, <1>2 DEF SavesAll
<1> QED BY <1>0, <1>1, <1>3, <1>5, <1>6 DEF EditsInv

LEMMA StepKeepsEdits == CwTypes /\ EditsInv /\ [CwNext]_cwVars => EditsInv'
<1> SUFFICES ASSUME CwTypes, EditsInv, [CwNext]_cwVars PROVE EditsInv'
  OBVIOUS
<1>1. CASE \E s \in Slots : Serve(s) \/ Reply(s)
  BY <1>1, ServeKeepsEdits, ReplyKeepsEdits
<1>2. CASE UNCHANGED <<rules, edits, saveTimer, rulesOnDisk, operations>> /\ stale \subseteq stale'
  BY <1>2 DEF EditsInv, HoldsEdits, SavesAll
<1>3. CASE RecordExchange \/ Hold \/ Settle \/ DeliverEvent \/ UNCHANGED cwVars
  BY <1>2, <1>3 DEF RecordExchange, Hold, Settle, DeliverEvent, cwVars, appVars, storeVars, listenVars, countVars
<1> QED BY <1>1, <1>3, UserKeepsEdits, EditRulesKeepsEdits, InspectKeepsEdits DEF CwNext

-----------------------------------------------------------------------------
(* The capture window: what it shows *)

UserActions ==
  \/ OpenWindow \/ CloseWindow \/ OpenAsRequest \/ CloseDetail \/ EditRules \/ SaveTimerFires
  \/ StartCapture \/ Ask

SameCall(o, q) ==
  q.op = o.op /\ q.call = o.call /\ q.isServed = o.isServed /\ q.got = o.got /\ q.ids = o.ids

(* The user begins one operation at the most.                              *)
LEMMA UserBegins ==
  ASSUME CwTypes, UserActions
  PROVE  \/ UNCHANGED operations
         \/ \E s \in Slots :
              /\ operations[s] = NoOperation /\ operations' \in [Slots -> Operation]
              /\ ~operations'[s].isLast /\ ~operations'[s].isServed /\ operations'[s].ids = {}
              /\ operations'[s].call = "status" => operations'[s].op = "open"
              /\ \A r \in Slots : r # s => operations'[r] = operations[r]
<1>1. \/ UNCHANGED operations
      \/ \E op, call : /\ Begin(Waiting(op, call)) /\ Waiting(op, call) \in Operation
                       /\ call = "status" => op = "open"
      \/ \E op : Begin(Saving(op)) /\ Saving(op) \in Operation
  <2>1. OperationNames = {"none", "resume", "open", "stop", "start", "save", "clear", "trust", "inspect"}
        /\ {"status", "start", "stop", "clear", "loadConfig"} \subseteq CallNames
    BY DEF OperationNames, CallNames
  <2>2. CASE OpenWindow \/ Ask
    BY <2>1, <2>2, FormedOperations DEF OpenWindow, Ask
  <2>3. CASE CloseWindow \/ SaveTimerFires \/ StartCapture
    BY <2>1, <2>3, FormedOperations DEF CloseWindow, SaveTimerFires, StartCapture
  <2>4. CASE OpenAsRequest \/ CloseDetail \/ EditRules
    BY <2>4 DEF OpenAsRequest, CloseDetail, EditRules
  <2> QED BY <2>2, <2>3, <2>4 DEF UserActions
<1>2. \A op, call : /\ ~Waiting(op, call).isLast /\ ~Waiting(op, call).isServed /\ Waiting(op, call).ids = {}
                    /\ Waiting(op, call).op = op /\ Waiting(op, call).call = call
  BY DEF Waiting
<1>3. \A op : ~Saving(op).isLast /\ ~Saving(op).isServed /\ Saving(op).ids = {} /\ Saving(op).call = "saveConfig"
  BY DEF Waiting, Saving
<1> QED BY <1>1, <1>2, <1>3, BeginFacts

(* An operation under way is at the same call after what the user does.    *)
LEMMA UserKeepsCalls ==
  ASSUME CwTypes, UserActions \/ Inspect
  PROVE  \A r \in Slots : operations[r] # NoOperation => SameCall(operations[r], operations'[r])
<1>1. CASE UserActions
  BY <1>1, UserBegins DEF SameCall
<1>2. CASE Inspect
  <2>1. PICK s \in Slots :
          /\ operations[s] = NoOperation
          /\ \A r \in Slots : r # s => operations'[r] = [operations[r] EXCEPT !.isLast = FALSE]
    BY <1>2, InspectFacts
  <2>2. \A r \in Slots : SameCall(operations[r], [operations[r] EXCEPT !.isLast = FALSE])
    BY FormedOperations DEF SameCall, Operation
  <2> QED BY <2>1, <2>2
<1> QED BY <1>1, <1>2

(* The detail is the one inspected last, unless that one is on its way.    *)
DetailInv ==
  /\ \A s \in Slots : operations[s].isLast => operations[s].call = "details" /\ operations[s].id = inspection
  /\ detail \in {0, inspection} \/ \E s \in Slots : operations[s].isLast

LEMMA InitDetail == CwInit => DetailInv
BY DEF CwInit, DetailInv, NoOperation, Waiting

LEMMA StepKeepsDetail == CwTypes /\ DetailInv /\ [CwNext]_cwVars => DetailInv'
<1> SUFFICES ASSUME CwTypes, DetailInv, [CwNext]_cwVars PROVE DetailInv'
  OBVIOUS
<1>1. ASSUME NEW s \in Slots, Serve(s) PROVE DetailInv'
  <2>1. UNCHANGED <<detail, inspection>>
    BY <1>1 DEF Serve, ServeConfig, ServeSave, ServeStop, storeVars
  <2>2. \A r \in Slots : /\ operations'[r].call = operations[r].call /\ operations'[r].id = operations[r].id
                         /\ operations'[r].isLast = operations[r].isLast
    BY <1>1, ServeFacts
  <2> QED BY <2>1, <2>2 DEF DetailInv
<1>2. ASSUME NEW s \in Slots, Reply(s) PROVE DetailInv'
  <2> DEFINE o == operations[s]
  <2>1. /\ inspection' = inspection
        /\ \A r \in Slots : r # s => operations'[r] = operations[r]
    BY <1>2, NextOperation
       DEF Reply, ReplyStatus, ReplyConfig, ReplyHeld, ReplyList, ReplySave, ReplyStart, ReplyStop, ReplyClear,
           ReplyDetails, storeVars
  <2>2. ~operations'[s].isLast
    BY <1>2, GoesOn
  <2>3. CASE o.call = "details"
    <3>1. detail' = IF ~o.isLast THEN detail ELSE IF o.got THEN o.id ELSE 0
      BY <1>2, <2>3 DEF Reply, ReplyStatus, ReplyConfig, ReplyHeld, ReplyList, ReplySave, ReplyStart, ReplyStop,
                        ReplyClear, ReplyDetails
    <3> QED BY <2>1, <2>2, <3>1 DEF DetailInv
  <2>4. CASE o.call # "details"
    <3>1. detail' \in {0, detail} /\ ~o.isLast
      BY <1>2, <2>4 DEF Reply, ReplyStatus, ReplyConfig, ReplyHeld, ReplyList, ReplySave, ReplyStart, ReplyStop,
                        ReplyClear, ReplyDetails, storeVars, DetailInv
    <3> QED BY <2>1, <2>2, <3>1 DEF DetailInv
  <2> QED BY <2>3, <2>4
<1>3. CASE UserActions
  <2>1. inspection' = inspection /\ detail' \in {0, detail}
    BY <1>3 DEF UserActions, OpenWindow, CloseWindow, OpenAsRequest, CloseDetail, EditRules, SaveTimerFires,
                StartCapture, Ask, storeVars
  <2>2. ~NoOperation.isLast
    BY DEF NoOperation, Waiting
  <2> QED BY <1>3, <2>1, <2>2, UserBegins DEF DetailInv
<1>4. CASE Inspect
  <2>1. PICK s \in Slots :
           /\ operations'[s].call = "details" /\ operations'[s].id = inspection' /\ operations'[s].isLast
           /\ \A r \in Slots : r # s => operations'[r] = [operations[r] EXCEPT !.isLast = FALSE]
    BY <1>4, InspectFacts
  <2>2. \A r \in Slots : r # s => ~operations'[r].isLast
    BY <2>1, FormedOperations DEF Operation
  <2> QED BY <2>1, <2>2 DEF DetailInv
<1>5. CASE UNCHANGED <<detail, inspection, operations>>
  BY <1>5 DEF DetailInv
<1>6. CASE RecordExchange \/ Hold \/ Settle \/ DeliverEvent \/ UNCHANGED cwVars
  BY <1>5, <1>6 DEF RecordExchange, Hold, Settle, DeliverEvent, cwVars, appVars, storeVars, listenVars, countVars
<1> QED BY <1>1, <1>2, <1>3, <1>4, <1>6 DEF CwNext, UserActions

-----------------------------------------------------------------------------
(* The capture window: the events on their way *)

LEMMA EventIsSent ==
  ASSUME CwTypes, NEW e \in CaptureEvent, eventsSent' = Append(eventsSent, e)
  PROVE  /\ Len(eventsSent') = Len(eventsSent) + 1
         /\ \A i \in 1..Len(eventsSent) : eventsSent'[i] = eventsSent[i]
         /\ eventsSent'[Len(eventsSent) + 1] = e
         /\ \A kind : OnTheirWay(kind)' = OnTheirWay(kind) \cup (IF e.kind = kind THEN {e.id} ELSE {})
<1>1. eventsSent \in Seq(CaptureEvent)
  BY DEF CwTypes
<1>2. /\ Len(eventsSent') = Len(eventsSent) + 1 /\ Len(eventsSent) \in Nat
      /\ \A i \in 1..Len(eventsSent) : eventsSent'[i] = eventsSent[i]
      /\ eventsSent'[Len(eventsSent) + 1] = e
  BY <1>1
<1>3. 1..Len(eventsSent') = (1..Len(eventsSent)) \cup {Len(eventsSent) + 1}
  BY <1>2
<1>4. \A kind : OnTheirWay(kind)' = OnTheirWay(kind) \cup (IF e.kind = kind THEN {e.id} ELSE {})
  BY <1>2, <1>3 DEF OnTheirWay
<1> QED BY <1>2, <1>4

LEMMA KindIsSent ==
  ASSUME CwTypes, NEW kind \in EventKinds, NEW id \in Nat, eventsSent' = Append(eventsSent, Event(kind, id))
  PROVE  /\ Len(eventsSent') = Len(eventsSent) + 1
         /\ \A i \in 1..Len(eventsSent) : eventsSent'[i] = eventsSent[i]
         /\ eventsSent'[Len(eventsSent) + 1].kind = kind /\ eventsSent'[Len(eventsSent) + 1].id = id
         /\ OnTheirWay(kind)' = OnTheirWay(kind) \cup {id}
         /\ \A k \in EventKinds \ {kind} : OnTheirWay(k)' = OnTheirWay(k)
<1> DEFINE e == Event(kind, id)
<1>1. e \in CaptureEvent /\ e.kind = kind /\ e.id = id
  BY DEF CaptureEvent, Event
<1> HIDE DEF e
<1>2. eventsSent' = Append(eventsSent, e)
  BY DEF e
<1>3. /\ Len(eventsSent') = Len(eventsSent) + 1
      /\ \A i \in 1..Len(eventsSent) : eventsSent'[i] = eventsSent[i]
      /\ eventsSent'[Len(eventsSent) + 1] = e
      /\ \A k : OnTheirWay(k)' = OnTheirWay(k) \cup (IF e.kind = k THEN {e.id} ELSE {})
  BY <1>1, <1>2, EventIsSent
<1> QED BY <1>1, <1>3

LEMMA EventArrives ==
  ASSUME CwTypes, eventsSent # <<>>, eventsSent' = Tail(eventsSent)
  PROVE  /\ Head(eventsSent) = eventsSent[1] /\ Head(eventsSent) \in CaptureEvent
         /\ Len(eventsSent) \in Nat \ {0} /\ Len(eventsSent') = Len(eventsSent) - 1
         /\ \A i \in 1..Len(eventsSent') : eventsSent'[i] = eventsSent[i + 1] /\ i + 1 \in 1..Len(eventsSent)
         /\ \A kind : OnTheirWay(kind) =
              OnTheirWay(kind)' \cup (IF Head(eventsSent).kind = kind THEN {Head(eventsSent).id} ELSE {})
<1>1. eventsSent \in Seq(CaptureEvent)
  BY DEF CwTypes
<1>2. Head(eventsSent) = eventsSent[1] /\ Head(eventsSent) \in CaptureEvent
  BY <1>1
<1>3. Len(eventsSent) \in Nat \ {0} /\ Len(eventsSent') = Len(eventsSent) - 1
  BY <1>1
<1>4. \A i \in 1..Len(eventsSent') : eventsSent'[i] = eventsSent[i + 1] /\ i + 1 \in 1..Len(eventsSent)
  BY <1>1, <1>3
<1>5. \A i \in 1..Len(eventsSent) : i = 1 \/ (i - 1 \in 1..Len(eventsSent') /\ eventsSent'[i - 1] = eventsSent[i])
  BY <1>1, <1>3
<1>6. ASSUME NEW kind, NEW x
      PROVE  x \in OnTheirWay(kind) <=>
               x \in OnTheirWay(kind)' \/ (eventsSent[1].kind = kind /\ x = eventsSent[1].id)
  <2>1. ASSUME NEW i \in 1..Len(eventsSent), eventsSent[i].kind = kind, x = eventsSent[i].id
        PROVE  x \in OnTheirWay(kind)' \/ (eventsSent[1].kind = kind /\ x = eventsSent[1].id)
    BY <2>1, <1>5 DEF OnTheirWay
  <2>2. ASSUME NEW i \in 1..Len(eventsSent'), eventsSent'[i].kind = kind, x = eventsSent'[i].id
        PROVE  x \in OnTheirWay(kind)
    BY <2>2, <1>4 DEF OnTheirWay
  <2>3. 1 \in 1..Len(eventsSent)
    BY <1>3
  <2> QED BY <2>1, <2>2, <2>3 DEF OnTheirWay
<1>7. \A kind : OnTheirWay(kind) = OnTheirWay(kind)' \cup (IF eventsSent[1].kind = kind THEN {eventsSent[1].id} ELSE {})
  BY <1>6
<1> QED BY <1>2, <1>3, <1>4, <1>7

LEMMA SettlementsAreSent ==
  ASSUME CwTypes, NEW order \in Settlements(heldNow), eventsSent' = eventsSent \o order
  PROVE  /\ \A i \in 1..Len(eventsSent') :
              \/ i \in 1..Len(eventsSent) /\ eventsSent'[i] = eventsSent[i]
              \/ i > Len(eventsSent) /\ eventsSent'[i].kind = "settled" /\ eventsSent'[i].id \in heldNow
         /\ OnTheirWay("settled")' = OnTheirWay("settled") \cup heldNow
         /\ \A kind : kind # "settled" => OnTheirWay(kind)' = OnTheirWay(kind)
<1>1. /\ eventsSent \in Seq(CaptureEvent) /\ order \in Seq(CaptureEvent)
      /\ \A i \in 1..Len(order) : order[i].kind = "settled" /\ order[i].id \in heldNow
      /\ \A id \in heldNow : \E i \in 1..Len(order) : order[i].id = id
  <2>1. heldNow \in SUBSET Nat /\ IsFiniteSet(heldNow)
    BY HeldIsFinite
  <2>2. /\ order \in Seq(CaptureEvent)
        /\ \A i \in 1..Len(order) : order[i].kind = "settled" /\ order[i].id \in heldNow
        /\ \A id \in heldNow : \E i \in 1..Len(order) : order[i].id = id
    BY <2>1, SettlementFacts
  <2>3. eventsSent \in Seq(CaptureEvent)
    BY DEF CwTypes
  <2> QED BY <2>2, <2>3
<1> DEFINE n == Len(eventsSent)
           m == Len(order)
<1>2. n \in Nat /\ m \in Nat /\ Len(eventsSent') = n + m
  BY <1>1
<1>3. \A i \in 1..n : i \in 1..Len(eventsSent') /\ eventsSent'[i] = eventsSent[i]
  BY <1>1, <1>2
<1>4. \A i \in 1..m : n + i \in 1..Len(eventsSent') /\ eventsSent'[n + i] = order[i]
  BY <1>1, <1>2
<1>5. \A i \in 1..Len(eventsSent') : i \in 1..n \/ (i - n \in 1..m /\ i = n + (i - n))
  BY <1>2
<1> HIDE DEF n, m
<1>6. \A i \in 1..Len(eventsSent') : i \in 1..n \/ (i > n /\ \E k \in 1..m : eventsSent'[i] = order[k])
  <2> SUFFICES ASSUME NEW i \in 1..Len(eventsSent'), i \notin 1..n
               PROVE  i > n /\ \E k \in 1..m : eventsSent'[i] = order[k]
    OBVIOUS
  <2>1. i - n \in 1..m /\ i = n + (i - n)
    BY <1>5
  <2>2. eventsSent'[n + (i - n)] = order[i - n]
    BY <2>1, <1>4
  <2>3. i > n
    BY <2>1, <1>2
  <2> QED BY <2>1, <2>2, <2>3
<1>7. \A i \in 1..Len(eventsSent') :
              \/ i \in 1..n /\ eventsSent'[i] = eventsSent[i]
              \/ i > n /\ eventsSent'[i].kind = "settled" /\ eventsSent'[i].id \in heldNow
  <2> SUFFICES ASSUME NEW i \in 1..Len(eventsSent'), i \notin 1..n
               PROVE  i > n /\ eventsSent'[i].kind = "settled" /\ eventsSent'[i].id \in heldNow
    BY <1>3
  <2>1. PICK k \in 1..Len(order) : i > n /\ eventsSent'[i] = order[k]
    BY <1>6 DEF m
  <2>2. order[k].kind = "settled" /\ order[k].id \in heldNow
    BY <1>1
  <2> QED BY <2>1, <2>2
<1>8. \A id \in heldNow : \E i \in 1..Len(eventsSent') : eventsSent'[i].kind = "settled" /\ eventsSent'[i].id = id
  BY <1>1, <1>4 DEF m
<1>9. OnTheirWay("settled")' = OnTheirWay("settled") \cup heldNow
  <2>1. ASSUME NEW x \in OnTheirWay("settled")' PROVE x \in OnTheirWay("settled") \cup heldNow
    BY <2>1, <1>7 DEF OnTheirWay, n
  <2>2. ASSUME NEW x \in OnTheirWay("settled") PROVE x \in OnTheirWay("settled")'
    BY <2>2, <1>3 DEF OnTheirWay, n
  <2>3. ASSUME NEW x \in heldNow PROVE x \in OnTheirWay("settled")'
    BY <2>3, <1>8 DEF OnTheirWay
  <2> QED BY <2>1, <2>2, <2>3
<1>10. ASSUME NEW kind, kind # "settled" PROVE OnTheirWay(kind)' = OnTheirWay(kind)
  <2>1. ASSUME NEW x \in OnTheirWay(kind)' PROVE x \in OnTheirWay(kind)
    BY <2>1, <1>7, <1>10 DEF OnTheirWay, n
  <2>2. ASSUME NEW x \in OnTheirWay(kind) PROVE x \in OnTheirWay(kind)'
    BY <2>2, <1>3 DEF OnTheirWay, n
  <2> QED BY <2>1, <2>2
<1> QED BY <1>7, <1>9, <1>10 DEF n

-----------------------------------------------------------------------------
(* The capture window: whether the capture runs *)

\* an operation whose reply will say whether it does
TellsRunning(o) == o.call \in {"status", "stop"} \/ (o.call = "start" /\ o.isServed /\ o.got)

IsToldRunning == \E s \in Slots : TellsRunning(operations[s])

RunningInv ==
  /\ listens = shownOn
  /\ "running" \in stale \/ shownOn = proxyOn \/ IsToldRunning

LEMMA InitRunning == CwInit => RunningInv
<1> SUFFICES ASSUME CwInit PROVE RunningInv
  OBVIOUS
<1>1. operations[1] = Waiting("resume", "status")
  BY WindowAssumption DEF CwInit
<1>2. TellsRunning(operations[1])
  BY <1>1 DEF TellsRunning, Waiting
<1> QED BY <1>2, WindowAssumption DEF CwInit, RunningInv, IsToldRunning

LEMMA NoOperationIsIdle == NoOperation.op = "none" /\ NoOperation.call = "none"
BY DEF NoOperation, Waiting

LEMMA UserLeavesRunning ==
  ASSUME CwTypes, UserActions \/ Inspect
  PROVE  /\ UNCHANGED <<appVars, eventsSent, shownOn, log, shownHeld, listens, listensHeld, stale, recorded, holds>>
         /\ IsToldRunning => IsToldRunning'
<1>1. UNCHANGED <<appVars, eventsSent, shownOn, log, shownHeld, listens, listensHeld, stale, recorded, holds>>
  BY DEF UserActions, OpenWindow, CloseWindow, OpenAsRequest, CloseDetail, EditRules, SaveTimerFires,
                StartCapture, Ask, Inspect, storeVars, listenVars, countVars
<1>2. \A s \in Slots : TellsRunning(operations[s]) => TellsRunning(operations[s])'
  BY UserKeepsCalls, NoOperationIsIdle DEF SameCall, TellsRunning
<1> QED BY <1>1, <1>2 DEF IsToldRunning

(* An answer tells of the capture as it is when the call reaches the app.  *)
LEMMA ServeKeepsTelling ==
  ASSUME CwTypes, NEW s \in Slots, Serve(s)
  PROVE  /\ IsToldRunning => IsToldRunning'
         /\ proxyOn' # proxyOn => IsToldRunning'
<1> DEFINE o == operations[s]
<1>1. /\ \A r \in Slots : r # s => operations'[r] = operations[r]
      /\ operations'[s].isServed /\ ~o.isServed /\ operations'[s].call = o.call
  BY ServeFacts
<1>2. \A r \in Slots : TellsRunning(operations[r]) => TellsRunning(operations[r])'
  BY <1>1 DEF TellsRunning
<1>3. ASSUME proxyOn' # proxyOn PROVE TellsRunning(operations[s])'
  <2>1. o.call = "stop" \/ (o.call = "start" /\ Answered(s, TRUE, {}))
    BY <1>3 DEF Serve, ServeConfig, ServeSave, ServeStop, appVars
  <2>2. Answered(s, TRUE, {}) => operations'[s].got
    BY FormedOperations DEF Answered, Operation, CwTypes
  <2> QED BY <1>1, <2>1, <2>2 DEF TellsRunning
<1> QED BY <1>2, <1>3 DEF IsToldRunning

LEMMA ReplyTellsRunning ==
  ASSUME CwTypes, RunningInv, NEW s \in Slots, Reply(s)
  PROVE  RunningInv'
<1> DEFINE o == operations[s]
<1>0. UNCHANGED <<proxyOn, journal, eventsSent>> /\ o.got \in BOOLEAN
  BY FormedOperations DEF Reply, appVars, Operation
<1>1. \A r \in Slots : r # s => operations'[r] = operations[r]
  BY NextOperation
<1>2. CASE ReplyStatus(s, o)
  <2>1. shownOn' = o.got /\ listens' = o.got
    BY <1>2 DEF ReplyStatus, Adopt
  <2>2. o.got # proxyOn => "running" \in stale'
    BY <1>2 DEF ReplyStatus, Mark
  <2> QED BY <1>0, <2>1, <2>2 DEF RunningInv
<1>3. CASE ReplyStart(s, o)
  <2>1. CASE o.got
    <3>1. shownOn' = TRUE /\ listens' = TRUE /\ (~proxyOn => "running" \in stale')
      BY <1>3, <2>1 DEF ReplyStart, Adopt, Mark
    <3> QED BY <1>0, <3>1 DEF RunningInv, CwTypes
  <2>2. CASE ~o.got
    <3>1. UNCHANGED <<shownOn, listens, stale>> /\ ~TellsRunning(o)
      BY <1>3, <2>2 DEF ReplyStart, TellsRunning
    <3> QED BY <1>0, <1>1, <3>1 DEF RunningInv, IsToldRunning
  <2> QED BY <2>1, <2>2
<1>4. CASE ReplyStop(s, o) /\ o.got
  <2>1. operations'[s] = Waiting("stop", "status")
    BY <1>4 DEF ReplyStop, Goes, CwTypes
  <2>2. TellsRunning(operations[s])'
    BY <2>1 DEF TellsRunning, Waiting
  <2> QED BY <1>4, <2>2 DEF RunningInv, IsToldRunning, ReplyStop, storeVars, listenVars
<1>6. CASE ReplyStop(s, o) /\ ~o.got
  <2>1. UNCHANGED <<shownOn, listens>> /\ (shownOn # proxyOn => "running" \in stale')
    BY <1>6 DEF ReplyStop, Mark, storeVars, listenVars
  <2> QED BY <1>0, <2>1 DEF RunningInv
<1>5. CASE ~(ReplyStatus(s, o) \/ ReplyStart(s, o) \/ ReplyStop(s, o))
  <2>1. UNCHANGED <<shownOn, listens>> /\ ("running" \in stale => "running" \in stale')
    BY <1>5 DEF Reply, ReplyConfig, ReplyHeld, ReplyList, ReplySave, ReplyClear, ReplyDetails, Mark,
                storeVars, listenVars
  <2>2. ~TellsRunning(o)
    BY <1>5 DEF Reply, ReplyConfig, ReplyHeld, ReplyList, ReplySave, ReplyClear, ReplyDetails, TellsRunning
  <2> QED BY <1>0, <1>1, <2>1, <2>2 DEF RunningInv, IsToldRunning
<1> QED BY <1>2, <1>3, <1>4, <1>5, <1>6

LEMMA EventsLeaveRunning ==
  ASSUME RecordExchange \/ Hold \/ Settle \/ DeliverEvent \/ UNCHANGED cwVars
  PROVE  UNCHANGED <<proxyOn, operations, captureOpen, shownOn, listens, listensHeld>> /\ stale \subseteq stale'
BY DEF RecordExchange, Hold, Settle, DeliverEvent, cwVars, appVars, storeVars, listenVars, countVars

LEMMA StepKeepsRunning == CwTypes /\ RunningInv /\ [CwNext]_cwVars => RunningInv'
<1> SUFFICES ASSUME CwTypes, RunningInv, [CwNext]_cwVars PROVE RunningInv'
  OBVIOUS
<1>1. ASSUME NEW s \in Slots, Serve(s) PROVE RunningInv'
  <2>1. UNCHANGED <<shownOn, listens>> /\ stale \subseteq stale'
    BY <1>1 DEF Serve, ServeConfig, ServeSave, ServeStop, storeVars, listenVars
  <2> QED BY <1>1, <2>1, ServeKeepsTelling DEF RunningInv
<1>2. CASE UserActions \/ Inspect
  BY <1>2, UserLeavesRunning DEF RunningInv, appVars
<1>3. CASE RecordExchange \/ Hold \/ Settle \/ DeliverEvent \/ UNCHANGED cwVars
  BY <1>3, EventsLeaveRunning DEF RunningInv, IsToldRunning
<1> QED BY <1>1, <1>2, <1>3, ReplyTellsRunning DEF CwNext, UserActions

-----------------------------------------------------------------------------
(* The capture window: the calls that are held *)

\* an operation that will read them for the first time
OpensHeld(o) == o.op = "open" /\ o.call \in {"status", "loadConfig", "held"}

\* events name calls that were held, and a call is settled after it was held
HeldInOrder ==
  /\ \A i \in 1..Len(eventsSent) : eventsSent[i].kind # "exchange" => eventsSent[i].id \in 1..holds
  /\ \A i, j \in 1..Len(eventsSent) :
       (i < j /\ eventsSent[i].kind = "settled" /\ eventsSent[j].kind = "held") => eventsSent[i].id # eventsSent[j].id

HeldInv ==
  /\ HeldInOrder
  /\ listensHeld => "held" \in stale \/ HeldAfter(shownHeld) = heldNow
  /\ ~listensHeld /\ captureOpen => "held" \in stale \/ \E s \in Slots : OpensHeld(operations[s])

LEMMA InitHeld == CwInit => HeldInv
BY DEF CwInit, HeldInv, HeldInOrder

LEMMA HeldOnTheirWay == HeldInOrder => OnTheirWay("held") \cup OnTheirWay("settled") \subseteq 1..holds
BY DEF HeldInOrder, OnTheirWay

LEMMA EventsKeepHeld ==
  ASSUME CwTypes, HeldInv, RecordExchange \/ Hold \/ Settle \/ DeliverEvent
  PROVE  HeldInv'
<1>0. UNCHANGED <<operations, captureOpen, listensHeld>> /\ stale \subseteq stale'
  BY EventsLeaveRunning
<1>1. EventKinds = {"exchange", "held", "settled"}
  BY DEF EventKinds
<1>2. Len(eventsSent) \in Nat /\ holds \in Nat /\ heldNow \subseteq 1..holds
  BY DEF CwTypes
<1>3. CASE RecordExchange
  <2>1. recorded' \in Nat /\ eventsSent' = Append(eventsSent, Event("exchange", recorded')) /\ UNCHANGED <<heldNow, holds, shownHeld>>
    BY <1>3 DEF RecordExchange, CwTypes, storeVars
  <2>2. /\ Len(eventsSent') = Len(eventsSent) + 1
        /\ \A i \in 1..Len(eventsSent) : eventsSent'[i] = eventsSent[i]
        /\ eventsSent'[Len(eventsSent) + 1].kind = "exchange"
        /\ OnTheirWay("held")' = OnTheirWay("held") /\ OnTheirWay("settled")' = OnTheirWay("settled")
    BY <1>1, <2>1, KindIsSent
  <2>3. HeldInOrder'
    BY <1>2, <2>1, <2>2 DEF HeldInv, HeldInOrder
  <2> QED BY <1>0, <2>1, <2>2, <2>3 DEF HeldInv, HeldAfter
<1>4. CASE Hold
  <2>1. holds' = holds + 1 /\ heldNow' = heldNow \cup {holds'} /\ eventsSent' = Append(eventsSent, Event("held", holds')) /\ shownHeld' = shownHeld
    BY <1>4 DEF Hold, storeVars
  <2>2. /\ Len(eventsSent') = Len(eventsSent) + 1
        /\ \A i \in 1..Len(eventsSent) : eventsSent'[i] = eventsSent[i]
        /\ eventsSent'[Len(eventsSent) + 1].kind = "held" /\ eventsSent'[Len(eventsSent) + 1].id = holds'
        /\ OnTheirWay("held")' = OnTheirWay("held") \cup {holds'} /\ OnTheirWay("settled")' = OnTheirWay("settled")
    BY <1>1, <1>2, <2>1, KindIsSent
  <2>3. HeldInOrder'
    BY <1>2, <2>1, <2>2 DEF HeldInv, HeldInOrder
  <2>4. holds' \notin OnTheirWay("settled")
    BY <1>2, <2>1, HeldOnTheirWay DEF HeldInv
  <2>5. HeldAfter(shownHeld)' = HeldAfter(shownHeld) \cup {holds'}
    BY <2>1, <2>2, <2>4 DEF HeldAfter
  <2> QED BY <1>0, <2>1, <2>3, <2>5 DEF HeldInv
<1>5. CASE Settle
  <2>1. PICK id \in heldNow : heldNow' = heldNow \ {id} /\ eventsSent' = Append(eventsSent, Event("settled", id))
    BY <1>5 DEF Settle
  <2>2. UNCHANGED <<holds, shownHeld>>
    BY <1>5 DEF Settle, storeVars, countVars
  <2>3. id \in Nat
    BY <1>2
  <2>4. /\ Len(eventsSent') = Len(eventsSent) + 1
        /\ \A i \in 1..Len(eventsSent) : eventsSent'[i] = eventsSent[i]
        /\ eventsSent'[Len(eventsSent) + 1].kind = "settled" /\ eventsSent'[Len(eventsSent) + 1].id = id
        /\ OnTheirWay("settled")' = OnTheirWay("settled") \cup {id} /\ OnTheirWay("held")' = OnTheirWay("held")
    BY <1>1, <2>1, <2>3, KindIsSent
  <2>5. HeldInOrder'
    BY <1>2, <2>1, <2>2, <2>4 DEF HeldInv, HeldInOrder
  <2>6. HeldAfter(shownHeld)' = HeldAfter(shownHeld) \ {id}
    BY <2>2, <2>4 DEF HeldAfter
  <2> QED BY <1>0, <2>1, <2>5, <2>6 DEF HeldInv
<1>6. CASE DeliverEvent
  <2> DEFINE e == Head(eventsSent)
  <2>1. eventsSent # <<>> /\ eventsSent' = Tail(eventsSent) /\ UNCHANGED <<holds, heldNow>>
    BY <1>6 DEF DeliverEvent, appVars, countVars
  <2>2. /\ e = eventsSent[1] /\ Len(eventsSent) \in Nat \ {0} /\ Len(eventsSent') = Len(eventsSent) - 1
        /\ \A i \in 1..Len(eventsSent') : eventsSent'[i] = eventsSent[i + 1] /\ i + 1 \in 1..Len(eventsSent)
        /\ \A kind : OnTheirWay(kind) = OnTheirWay(kind)' \cup (IF e.kind = kind THEN {e.id} ELSE {})
    BY <2>1, EventArrives
  <2> HIDE DEF e
  <2>3. HeldInOrder'
    BY <2>1, <2>2 DEF HeldInv, HeldInOrder
  <2>4. e.kind = "settled" => e.id \notin OnTheirWay("held")'
    <3>1. \A i \in 1..Len(eventsSent') :
            eventsSent[1].kind = "settled" /\ eventsSent'[i].kind = "held" => eventsSent[1].id # eventsSent'[i].id
      BY <2>2 DEF HeldInv, HeldInOrder
    <3> QED BY <2>2, <3>1 DEF OnTheirWay
  <2>5. ASSUME listensHeld PROVE HeldAfter(shownHeld)' = HeldAfter(shownHeld)
    <3>1. shownHeld' = CASE e.kind = "held" -> shownHeld \cup {e.id}
                         [] e.kind = "settled" -> shownHeld \ {e.id}
                         [] OTHER -> shownHeld
      BY <1>6, <2>5 DEF DeliverEvent, e
    <3>2. CASE e.kind = "held"
      BY <3>1, <3>2, <2>2 DEF HeldAfter
    <3>3. CASE e.kind = "settled"
      BY <3>1, <3>3, <2>2, <2>4 DEF HeldAfter
    <3>4. CASE e.kind # "held" /\ e.kind # "settled"
      BY <3>1, <3>4, <2>2 DEF HeldAfter
    <3> QED BY <3>2, <3>3, <3>4
  <2> QED BY <1>0, <2>1, <2>3, <2>5 DEF HeldInv
<1> QED BY <1>3, <1>4, <1>5, <1>6

LEMMA ServeKeepsHeld ==
  ASSUME CwTypes, HeldInv, NEW s \in Slots, Serve(s)
  PROVE  HeldInv'
<1>0. UNCHANGED <<holds, shownHeld, listensHeld, captureOpen>> /\ stale \subseteq stale'
  BY DEF Serve, ServeConfig, ServeSave, ServeStop, storeVars, listenVars, countVars
<1>1. \A r \in Slots : OpensHeld(operations[r]) => OpensHeld(operations[r])'
  BY ServeFacts DEF OpensHeld
<1>2. CASE UNCHANGED <<eventsSent, heldNow>>
  BY <1>0, <1>1, <1>2 DEF HeldInv, HeldInOrder, HeldAfter, OnTheirWay
<1>3. CASE ~UNCHANGED <<eventsSent, heldNow>>
  <2>1. heldNow' = {} /\ \E order \in Settlements(heldNow) : eventsSent' = eventsSent \o order
    BY <1>3 DEF Serve, ServeConfig, ServeSave, ServeStop, appVars
  <2>2. /\ \A i \in 1..Len(eventsSent') :
              \/ i \in 1..Len(eventsSent) /\ eventsSent'[i] = eventsSent[i]
              \/ i > Len(eventsSent) /\ eventsSent'[i].kind = "settled" /\ eventsSent'[i].id \in heldNow
        /\ OnTheirWay("settled")' = OnTheirWay("settled") \cup heldNow
        /\ OnTheirWay("held")' = OnTheirWay("held")
    BY <2>1, SettlementsAreSent
  <2>3. Len(eventsSent) \in Nat /\ Len(eventsSent') \in Nat /\ heldNow \subseteq 1..holds
    BY ServeKeepsTypes DEF CwTypes
  <2>4. HeldInOrder'
    <3>1. \A i \in 1..Len(eventsSent') : eventsSent'[i].kind # "exchange" => eventsSent'[i].id \in 1..holds'
      BY <1>0, <2>2, <2>3 DEF HeldInv, HeldInOrder
    <3>2. ASSUME NEW i \in 1..Len(eventsSent'), NEW j \in 1..Len(eventsSent'),
                 i < j, eventsSent'[i].kind = "settled", eventsSent'[j].kind = "held"
          PROVE  eventsSent'[i].id # eventsSent'[j].id
      <4>1. j \in 1..Len(eventsSent) /\ eventsSent'[j] = eventsSent[j]
        BY <2>2, <3>2
      <4>2. i \in 1..Len(eventsSent) /\ eventsSent'[i] = eventsSent[i]
        BY <2>2, <2>3, <3>2, <4>1
      <4> QED BY <3>2, <4>1, <4>2 DEF HeldInv, HeldInOrder
    <3> QED BY <3>1, <3>2 DEF HeldInOrder
  <2>5. HeldAfter(shownHeld)' = HeldAfter(shownHeld) \ heldNow
    BY <1>0, <2>2 DEF HeldAfter
  <2> QED BY <1>0, <1>1, <2>1, <2>4, <2>5 DEF HeldInv
<1> QED BY <1>2, <1>3

LEMMA ReplyKeepsHeld ==
  ASSUME CwTypes, HeldInv, NEW s \in Slots, Reply(s)
  PROVE  HeldInv'
<1> DEFINE o == operations[s]
<1>0. UNCHANGED <<holds, heldNow, eventsSent, captureOpen>>
  BY DEF Reply, appVars, countVars, ReplyStatus, ReplyConfig, ReplyHeld, ReplyList, ReplySave, ReplyStart,
         ReplyStop, ReplyClear, ReplyDetails, storeVars
<1>1. HeldInOrder' /\ HeldAfter(shownHeld)' = HeldAfter(shownHeld')
  BY <1>0 DEF HeldInv, HeldInOrder, HeldAfter, OnTheirWay
<1>2. CASE ReplyHeld(s, o)
  <2>1. shownHeld' = o.ids /\ listensHeld' /\ (HeldAfter(o.ids) # heldNow => "held" \in stale')
    BY <1>2 DEF ReplyHeld, Mark
  <2> QED BY <1>0, <1>1, <2>1 DEF HeldInv
<1>3. CASE ~ReplyHeld(s, o)
  <2>1. UNCHANGED <<shownHeld, listensHeld>> /\ ("held" \in stale => "held" \in stale')
    BY <1>3 DEF Reply, ReplyStatus, ReplyConfig, ReplyList, ReplySave, ReplyStart, ReplyStop, ReplyClear,
                ReplyDetails, Mark, Overlooked, storeVars, listenVars
  <2>2. OpensHeld(o) => listensHeld' \/ "held" \in stale' \/ OpensHeld(operations[s])'
    <3>1. SUFFICES ASSUME OpensHeld(o) PROVE listensHeld' \/ "held" \in stale' \/ OpensHeld(operations[s])'
      OBVIOUS
    <3>2. ReplyStatus(s, o) \/ ReplyConfig(s, o)
      BY <1>3, <3>1 DEF OpensHeld, Reply, ReplyHeld, ReplyList, ReplySave, ReplyStart, ReplyStop, ReplyClear,
                        ReplyDetails
    <3>3. CASE ReplyStatus(s, o)
      <4>1. operations'[s] = Waiting("open", "loadConfig")
        BY <3>1, <3>3 DEF ReplyStatus, Goes, OpensHeld, CwTypes
      <4> QED BY <4>1 DEF OpensHeld, Waiting
    <3>4. CASE ReplyConfig(s, o) /\ o.got
      <4>1. operations'[s] = [Waiting("open", "held") EXCEPT !.config = o.ids]
        BY <3>1, <3>4 DEF ReplyConfig, OpensHeld, CwTypes
      <4> QED BY <4>1 DEF OpensHeld, Waiting
    <3>5. CASE ReplyConfig(s, o) /\ ~o.got
      BY <3>5, <2>1 DEF ReplyConfig
    <3> QED BY <3>2, <3>3, <3>4, <3>5
  <2>3. \A r \in Slots : r # s => operations'[r] = operations[r]
    BY NextOperation
  <2>4. \A r \in Slots : OpensHeld(operations[r]) => listensHeld' \/ "held" \in stale' \/ OpensHeld(operations[r])'
    BY <2>2, <2>3 DEF OpensHeld
  <2> QED BY <1>0, <1>1, <2>1, <2>4 DEF HeldInv
<1> QED BY <1>2, <1>3

LEMMA UserKeepsHeld ==
  ASSUME CwTypes, HeldInv, UserActions \/ Inspect
  PROVE  HeldInv'
<1>1. UNCHANGED <<heldNow, eventsSent, shownHeld, listensHeld, stale, holds>>
  BY UserLeavesRunning DEF appVars
<1>2. HeldInOrder' /\ HeldAfter(shownHeld)' = HeldAfter(shownHeld)
  BY <1>1 DEF HeldInv, HeldInOrder, HeldAfter, OnTheirWay
<1>3. \A r \in Slots : OpensHeld(operations[r]) => OpensHeld(operations[r])'
  BY UserKeepsCalls, NoOperationIsIdle DEF SameCall, OpensHeld
<1>4. CASE OpenWindow
  <2>1. {"open"} \subseteq OperationNames /\ {"status"} \subseteq CallNames
    BY DEF OperationNames, CallNames
  <2>2. Begin(Waiting("open", "status"))
    BY <1>4 DEF OpenWindow
  <2>3. \E r \in Slots : operations'[r] = Waiting("open", "status")
    BY <2>1, <2>2, WaitingIsFormed, BeginFacts
  <2>4. \E r \in Slots : OpensHeld(operations[r])'
    BY <2>3 DEF OpensHeld, Waiting
  <2> QED BY <1>1, <1>2, <2>4 DEF HeldInv
<1>5. CASE ~OpenWindow
  <2>1. captureOpen' => captureOpen
    BY <1>5 DEF UserActions, CloseWindow, OpenAsRequest, CloseDetail, EditRules, SaveTimerFires,
                StartCapture, Ask, Inspect, storeVars
  <2> QED BY <1>1, <1>2, <1>3, <2>1 DEF HeldInv
<1> QED BY <1>4, <1>5

LEMMA StepKeepsHeld == CwTypes /\ HeldInv /\ [CwNext]_cwVars => HeldInv'
<1> SUFFICES ASSUME CwTypes, HeldInv, [CwNext]_cwVars PROVE HeldInv'
  OBVIOUS
<1>1. CASE UNCHANGED cwVars
  BY <1>1 DEF HeldInv, HeldInOrder, HeldAfter, OnTheirWay, cwVars, appVars, storeVars, listenVars, countVars
<1> QED BY <1>1, EventsKeepHeld, ServeKeepsHeld, ReplyKeepsHeld, UserKeepsHeld DEF CwNext, UserActions

-----------------------------------------------------------------------------
(* The capture window: the calls that were recorded *)

(* Trimming keeps what is among the newest, and of a set without gaps it   *)
(* keeps nothing else.                                                     *)
LEMMA NewestStays ==
  ASSUME NEW n \in Nat, NEW S \in SUBSET (1..n), NEW j \in S, n - j < CaptureLimit
  PROVE  j \in Trimmed(S)
<1> DEFINE newer == {k \in S : k > j}
<1>0. S \subseteq 1..n /\ j \in Nat /\ j \in 1..n
  OBVIOUS
<1>1. newer \subseteq (j + 1)..n
  <2> SUFFICES ASSUME NEW k \in S, k > j PROVE k \in (j + 1)..n
    OBVIOUS
  <2>1. k \in 1..n
    BY <1>0
  <2> QED BY <1>0, <2>1
<1>2. IsFiniteSet((j + 1)..n) /\ Cardinality((j + 1)..n) = IF j + 1 > n THEN 0 ELSE n - (j + 1) + 1
  BY <1>0, FS_Interval
<1>3. Cardinality(newer) \in Nat /\ Cardinality(newer) <= Cardinality((j + 1)..n)
  BY <1>1, <1>2, FS_Subset, FS_CardinalityType
<1>4. Cardinality((j + 1)..n) = n - j
  BY <1>0, <1>2
<1>5. Cardinality(newer) < CaptureLimit
  BY <1>0, <1>3, <1>4, WindowAssumption
<1> QED BY <1>5 DEF Trimmed

LEMMA TrimmedIsNewest ==
  ASSUME NEW n \in Nat, NEW S \in SUBSET (1..n), \A i \in S : (i + 1)..n \subseteq S, NEW j \in Trimmed(S)
  PROVE  n - j < CaptureLimit /\ (j + 1)..n \subseteq Trimmed(S)
<1>1. j \in S /\ j \in 1..n /\ Cardinality({k \in S : k > j}) < CaptureLimit
  BY DEF Trimmed
<1>2. {k \in S : k > j} = (j + 1)..n
  <2>1. ASSUME NEW k \in S, k > j PROVE k \in (j + 1)..n
    <3>1. k \in 1..n
      OBVIOUS
    <3> QED BY <1>1, <2>1, <3>1
  <2>2. ASSUME NEW k \in (j + 1)..n PROVE k \in S /\ k > j
    BY <1>1
  <2> QED BY <2>1, <2>2
<1>3. IsFiniteSet((j + 1)..n) /\ Cardinality((j + 1)..n) = IF j + 1 > n THEN 0 ELSE n - (j + 1) + 1
  BY <1>1, FS_Interval
<1>4. n - j < CaptureLimit
  <2>1. Cardinality((j + 1)..n) < CaptureLimit
    BY <1>1, <1>2
  <2> QED BY <1>1, <1>3, <2>1, WindowAssumption
<1>5. ASSUME NEW k \in (j + 1)..n PROVE k \in Trimmed(S)
  <2>1. k \in S /\ n - k < CaptureLimit
    BY <1>1, <1>4, WindowAssumption
  <2> QED BY <2>1, NewestStays
<1> QED BY <1>4, <1>5

\* the journal is the newest of what was recorded, without gaps; nothing else is shown or listed
KeptInv ==
  /\ journal \subseteq 1..recorded /\ log \subseteq 1..recorded /\ OnTheirWay("exchange") \subseteq 1..recorded
  /\ \A j \in journal : recorded - j < CaptureLimit /\ (j + 1)..recorded \subseteq journal
  /\ \A s \in Slots : operations[s].call = "list" => operations[s].ids \subseteq 1..recorded
  /\ \A s \in Slots : operations[s].call = "status" => operations[s].op \in {"resume", "open", "stop"}

\* an operation that will read the list
WillList(o) == o.op \in {"open", "stop"} /\ o.call \in {"status", "loadConfig", "held", "list", "stop"}

IsListed == \E s \in Slots : WillList(operations[s])

LogInv == {"running", "log"} \cap stale # {} \/ Missing(log, listens) = {} \/ IsToldRunning \/ IsListed

LEMMA InitLog == CwInit => KeptInv /\ LogInv
<1> SUFFICES ASSUME CwInit PROVE KeptInv /\ LogInv
  OBVIOUS
<1>1. ASSUME NEW s \in Slots
      PROVE  operations[s].ids = {} /\ (operations[s].call = "status" => operations[s].op \in {"resume", "open", "stop"})
  BY DEF CwInit, NoOperation, Waiting
<1>2. OnTheirWay("exchange") = {}
  BY DEF CwInit, OnTheirWay
<1>3. KeptInv
  <2>1. journal = {} /\ log = {} /\ recorded = 0
    BY DEF CwInit
  <2>2. \A s \in Slots : operations[s].ids \subseteq 1..recorded
    BY <1>1, Zenon
  <2>3. \A j \in journal : recorded - j < CaptureLimit /\ (j + 1)..recorded \subseteq journal
    BY <2>1
  <2>4. journal \subseteq 1..recorded /\ log \subseteq 1..recorded /\ OnTheirWay("exchange") \subseteq 1..recorded
    BY <1>2, <2>1
  <2> QED BY <1>1, <2>2, <2>3, <2>4, Zenon DEF KeptInv
<1>4. LogInv
  BY DEF CwInit, LogInv, Missing
<1> QED BY <1>3, <1>4

(* What the window merges into its log it keeps, as far as the journal     *)
(* keeps it.                                                               *)
LEMMA MergeKeepsJournal ==
  ASSUME CwTypes, KeptInv, NEW S \in SUBSET (1..recorded)
  PROVE  Trimmed(S) \subseteq 1..recorded /\ journal \cap S \subseteq Trimmed(S)
<1>1. recorded \in Nat /\ S \subseteq 1..recorded
  BY DEF CwTypes
<1>2. ASSUME NEW j \in journal, j \in S PROVE j \in Trimmed(S)
  BY <1>1, <1>2, NewestStays DEF KeptInv
<1> QED BY <1>1, <1>2, TrimmedIsPart

LEMMA RecordKeepsLog ==
  ASSUME CwTypes, RunningInv, KeptInv, LogInv, RecordExchange
  PROVE  KeptInv' /\ LogInv'
<1> DEFINE n == recorded + 1
           S == journal \cup {n}
<1>1. /\ recorded' = n /\ journal' = Trimmed(S) /\ eventsSent' = Append(eventsSent, Event("exchange", n))
      /\ UNCHANGED <<operations, log, listens, shownOn>>
      /\ stale \subseteq stale' /\ (proxyOn \/ listens \/ "log" \in stale')
  BY DEF RecordExchange, storeVars, listenVars
<1>2. recorded \in Nat /\ n \in Nat /\ 1..recorded \subseteq 1..n /\ n \in 1..n
  BY DEF CwTypes
<1>3. S \subseteq 1..n /\ \A i \in S : (i + 1)..n \subseteq S
  <2>1. S \subseteq 1..n
    BY <1>2 DEF KeptInv
  <2>2. ASSUME NEW i \in S, NEW k \in (i + 1)..n PROVE k \in S
    <3>1. i \in 1..n
      BY <2>1
    <3>2. CASE k = n
      BY <3>2
    <3>3. CASE k # n
      <4>1. i \in journal /\ k \in (i + 1)..recorded
        BY <1>2, <3>1, <3>3
      <4> QED BY <4>1 DEF KeptInv
    <3> QED BY <3>2, <3>3
  <2> QED BY <2>1, <2>2
<1>4. "exchange" \in EventKinds
  BY DEF EventKinds
<1>5. OnTheirWay("exchange")' = OnTheirWay("exchange") \cup {n}
  BY <1>1, <1>2, <1>4, KindIsSent
<1>6. KeptInv'
  <2>1. journal' \subseteq 1..n /\ \A j \in journal' : n - j < CaptureLimit /\ (j + 1)..n \subseteq journal'
    BY <1>1, <1>2, <1>3, TrimmedIsPart, TrimmedIsNewest
  <2>2. log' \subseteq 1..n /\ OnTheirWay("exchange")' \subseteq 1..n
    BY <1>1, <1>2, <1>5 DEF KeptInv
  <2>3. \A s \in Slots : operations'[s].call = "list" => operations'[s].ids \subseteq 1..n
    BY <1>1, <1>2 DEF KeptInv
  <2> QED BY <1>1, <2>1, <2>2, <2>3 DEF KeptInv
<1>7. LogInv'
  <2>1. CASE listens
    <3>1. journal' \subseteq journal \cup {n}
      BY <1>1, TrimmedIsPart
    <3>2. Missing(log, listens) = {} => Missing(log, listens)' = {}
      BY <1>1, <1>5, <2>1, <3>1 DEF Missing
    <3> QED BY <1>1, <3>2 DEF LogInv, IsToldRunning, IsListed
  <2>2. CASE ~listens
    <3>1. {"running", "log"} \cap stale' # {} \/ IsToldRunning
      BY <1>1, <2>2 DEF RunningInv, CwTypes
    <3> QED BY <1>1, <3>1 DEF LogInv, IsToldRunning
  <2> QED BY <2>1, <2>2
<1> QED BY <1>6, <1>7

LEMMA DeliverKeepsLog ==
  ASSUME CwTypes, KeptInv, LogInv, DeliverEvent
  PROVE  KeptInv' /\ LogInv'
<1> DEFINE e == Head(eventsSent)
<1>1. /\ eventsSent # <<>> /\ eventsSent' = Tail(eventsSent)
      /\ UNCHANGED <<journal, recorded, operations, listens, stale>>
      /\ log' = IF e.kind = "exchange" /\ listens THEN Trimmed({e.id} \cup log) ELSE log
  BY DEF DeliverEvent, MergeLogs, appVars, listenVars, countVars
<1>2. OnTheirWay("exchange") = OnTheirWay("exchange")' \cup (IF e.kind = "exchange" THEN {e.id} ELSE {})
  BY <1>1, EventArrives
<1> HIDE DEF e
<1>3. CASE e.kind = "exchange" /\ listens
  <2>1. {e.id} \cup log \subseteq 1..recorded
    BY <1>2, <1>3 DEF KeptInv
  <2>2. log' \subseteq 1..recorded /\ journal \cap ({e.id} \cup log) \subseteq log'
    BY <1>1, <1>3, <2>1, MergeKeepsJournal
  <2>3. KeptInv'
    BY <1>1, <1>2, <2>2 DEF KeptInv
  <2>4. Missing(log, listens) = {} => Missing(log, listens)' = {}
    BY <1>1, <1>2, <1>3, <2>2 DEF Missing
  <2> QED BY <1>1, <2>3, <2>4 DEF LogInv, IsToldRunning, IsListed
<1>4. CASE ~(e.kind = "exchange" /\ listens)
  <2>1. KeptInv'
    BY <1>1, <1>2, <1>4 DEF KeptInv
  <2>2. Missing(log, listens) = {} => Missing(log, listens)' = {}
    BY <1>1, <1>2, <1>4 DEF Missing
  <2> QED BY <1>1, <2>1, <2>2 DEF LogInv, IsToldRunning, IsListed
<1> QED BY <1>3, <1>4

LEMMA HoldKeepsLog ==
  ASSUME CwTypes, KeptInv, LogInv, Hold \/ Settle
  PROVE  KeptInv' /\ LogInv'
<1>1. UNCHANGED <<journal, recorded, operations, listens, stale, log>>
  BY DEF Hold, Settle, storeVars, listenVars, countVars
<1>2. \E kind \in {"held", "settled"}, id \in Nat : eventsSent' = Append(eventsSent, Event(kind, id))
  BY DEF Hold, Settle, CwTypes
<1>3. EventKinds = {"exchange", "held", "settled"}
  BY DEF EventKinds
<1>4. OnTheirWay("exchange")' = OnTheirWay("exchange")
  BY <1>2, <1>3, KindIsSent
<1> QED BY <1>1, <1>4 DEF KeptInv, LogInv, Missing, IsToldRunning, IsListed

LEMMA ServeKeepsLog ==
  ASSUME CwTypes, KeptInv, LogInv, NEW s \in Slots, Serve(s)
  PROVE  KeptInv' /\ LogInv'
<1> DEFINE o == operations[s]
<1>1. UNCHANGED <<recorded, listens, log>> /\ stale \subseteq stale' /\ journal' \in {journal, {}}
  BY DEF Serve, ServeConfig, ServeSave, ServeStop, appVars, storeVars, listenVars, countVars
<1>2. OnTheirWay("exchange")' = OnTheirWay("exchange")
  <2>1. CASE UNCHANGED eventsSent
    BY <2>1 DEF OnTheirWay
  <2>2. CASE \E order \in Settlements(heldNow) : eventsSent' = eventsSent \o order
    BY <2>2, SettlementsAreSent
  <2> QED BY <2>1, <2>2 DEF Serve, ServeConfig, ServeSave, ServeStop
<1>3. /\ \A r \in Slots : r # s => operations'[r] = operations[r]
      /\ operations'[s].op = o.op /\ operations'[s].call = o.call
  BY ServeFacts
<1>4. o.call = "list" => operations'[s].ids = journal
  <2>1. SUFFICES ASSUME o.call = "list" PROVE operations'[s].ids = journal
    OBVIOUS
  <2>2. Answered(s, TRUE, journal)
    BY <2>1 DEF Serve, ServeConfig, ServeSave, ServeStop
  <2> QED BY <2>2, FormedOperations DEF Answered, Operation, CwTypes
<1>5. KeptInv'
  BY <1>1, <1>2, <1>3, <1>4 DEF KeptInv
<1>6. IsListed => IsListed'
  BY <1>3 DEF IsListed, WillList
<1>7. Missing(log, listens) = {} => Missing(log, listens)' = {}
  BY <1>1, <1>2 DEF Missing
<1>8. {"running", "log"} \cap stale # {} => {"running", "log"} \cap stale' # {}
  BY <1>1
<1> QED BY <1>5, <1>6, <1>7, <1>8, ServeKeepsTelling DEF LogInv

(* A reply that ends an operation that was to list or to tell leaves the   *)
(* log marked, or without a gap.                                           *)
LEMMA ReplyKeepsLog ==
  ASSUME CwTypes, KeptInv, LogInv, NEW s \in Slots, Reply(s)
  PROVE  KeptInv' /\ LogInv'
<1> DEFINE o == operations[s]
<1>0. UNCHANGED <<recorded, journal, eventsSent>> /\ OnTheirWay("exchange")' = OnTheirWay("exchange")
  BY DEF Reply, appVars, countVars, OnTheirWay
<1>1. \A r \in Slots : r # s => operations'[r] = operations[r]
  BY NextOperation
<1>2. operations'[s].ids = {} /\ (operations'[s].call = "status" => operations'[s].op = "stop")
  BY GoesOn
<1>3. \A shown, hears : Missing(shown, hears)' = Missing(shown', hears')
  BY <1>0 DEF Missing
<1>4. log' \subseteq 1..recorded => KeptInv'
  BY <1>0, <1>1, <1>2 DEF KeptInv
<1>5. CASE ReplyStatus(s, o)
  <2>1. log' = log /\ listens' = o.got
    BY <1>5 DEF ReplyStatus, Adopt
  <2>2. CASE o.op = "resume"
    <3>1. Missing(log, o.got) = {} \/ "log" \in stale'
      BY <1>5, <2>2 DEF ReplyStatus, Overlooked
    <3> QED BY <1>3, <1>4, <2>1, <3>1 DEF LogInv, KeptInv
  <2>3. CASE o.op \in {"open", "stop"}
    <3>1. operations'[s] = Waiting(o.op, "loadConfig")
      BY <1>5, <2>3 DEF ReplyStatus, Goes, CwTypes
    <3>2. WillList(operations[s])'
      BY <2>3, <3>1 DEF WillList, Waiting
    <3> QED BY <1>4, <2>1, <3>2 DEF LogInv, IsListed, KeptInv
  <2>4. CASE o.op \notin {"resume", "open", "stop"}
    BY <2>4, <1>5 DEF ReplyStatus, KeptInv
  <2> QED BY <2>2, <2>3, <2>4
<1>6. CASE ReplyStart(s, o)
  <2>1. log' = log
    BY <1>6 DEF ReplyStart
  <2>2. CASE o.got
    <3>1. listens' = TRUE /\ (Missing(log, TRUE) = {} \/ "log" \in stale')
      BY <1>6, <2>2 DEF ReplyStart, Adopt, Overlooked
    <3> QED BY <1>3, <1>4, <2>1, <3>1 DEF LogInv, KeptInv
  <2>3. CASE ~o.got
    <3>1. UNCHANGED <<listens, stale>> /\ ~TellsRunning(o) /\ ~WillList(o)
      BY <1>6, <2>3 DEF ReplyStart, TellsRunning, WillList
    <3> QED BY <1>1, <1>3, <1>4, <2>1, <3>1 DEF LogInv, KeptInv, IsToldRunning, IsListed
  <2> QED BY <2>2, <2>3
<1>7. CASE ReplyStop(s, o) /\ o.got
  <2>1. log' = log /\ operations'[s] = Waiting("stop", "status")
    BY <1>7 DEF ReplyStop, Goes, CwTypes, storeVars
  <2>2. WillList(operations[s])'
    BY <2>1 DEF WillList, Waiting
  <2> QED BY <1>4, <2>1, <2>2 DEF LogInv, IsListed, KeptInv
<1>13. CASE ReplyStop(s, o) /\ ~o.got
  <2>1. UNCHANGED <<log, listens>> /\ (Missing(log, listens) = {} \/ "log" \in stale')
    BY <1>13 DEF ReplyStop, Overlooked, storeVars, listenVars
  <2> QED BY <1>3, <1>4, <2>1 DEF LogInv, KeptInv
<1>8. CASE ReplyList(s, o)
  <2>1. /\ log' = Trimmed(o.ids \cup log) /\ listens' = listens
        /\ Missing(o.ids \cup log, listens) = {} \/ "log" \in stale'
    BY <1>8 DEF ReplyList, MergeLogs, Mark, listenVars
  <2>2. o.ids \cup log \subseteq 1..recorded
    BY <1>8 DEF ReplyList, KeptInv
  <2>3. log' \subseteq 1..recorded /\ journal \cap (o.ids \cup log) \subseteq log'
    BY <2>1, <2>2, MergeKeepsJournal
  <2>4. Missing(o.ids \cup log, listens) = {} => Missing(log, listens)' = {}
    BY <1>0, <2>1, <2>3 DEF Missing
  <2> QED BY <1>4, <2>1, <2>3, <2>4 DEF LogInv
<1>9. CASE ReplyClear(s, o)
  <2>1. log' = {} /\ listens' = listens /\ (Missing({}, listens) = {} \/ "log" \in stale')
    BY <1>9 DEF ReplyClear, Mark, listenVars
  <2>2. Missing({}, listens) = {} => Missing(log, listens)' = {}
    BY <1>0, <2>1 DEF Missing
  <2> QED BY <1>4, <2>1, <2>2 DEF LogInv
<1>10. CASE ReplyConfig(s, o) /\ o.got
  <2>1. /\ UNCHANGED <<log, listens, stale>> /\ o.call = "loadConfig"
        /\ operations'[s] = [Waiting(o.op, "held") EXCEPT !.config = o.ids]
    BY <1>10 DEF ReplyConfig, storeVars, listenVars, CwTypes
  <2>2. operations'[s].op = o.op /\ operations'[s].call = "held"
    BY <2>1 DEF Waiting
  <2>3. ~TellsRunning(o) /\ (WillList(o) => WillList(operations[s])')
    BY <2>1, <2>2 DEF TellsRunning, WillList
  <2> QED BY <1>1, <1>3, <1>4, <2>1, <2>3 DEF LogInv, KeptInv, IsToldRunning, IsListed
<1>14. CASE ReplyConfig(s, o) /\ ~o.got
  <2>1. UNCHANGED <<log, listens>> /\ o.call = "loadConfig" /\ stale \subseteq stale'
    BY <1>14 DEF ReplyConfig, storeVars, listenVars
  <2>2. WillList(o) => Missing(log, listens) = {} \/ "log" \in stale'
    BY <1>14 DEF ReplyConfig, WillList, Overlooked
  <2>3. ~TellsRunning(o)
    BY <2>1 DEF TellsRunning
  <2> QED BY <1>1, <1>3, <1>4, <2>1, <2>2, <2>3 DEF LogInv, KeptInv, IsToldRunning, IsListed
<1>11. CASE ReplyHeld(s, o)
  <2>1. /\ UNCHANGED <<log, listens>> /\ o.call = "held"
        /\ {"running", "log"} \cap stale # {} => {"running", "log"} \cap stale' # {}
    BY <1>11 DEF ReplyHeld, Mark
  <2>2. WillList(o) => WillList(operations[s])'
    <3>1. SUFFICES ASSUME WillList(o) PROVE WillList(operations[s])'
      OBVIOUS
    <3>2. operations'[s] = Waiting(o.op, "list")
      BY <1>11, <3>1 DEF ReplyHeld, Goes, WillList, CwTypes
    <3> QED BY <3>1, <3>2 DEF WillList, Waiting
  <2>3. ~TellsRunning(o)
    BY <2>1 DEF TellsRunning
  <2> QED BY <1>1, <1>3, <1>4, <2>1, <2>2, <2>3 DEF LogInv, KeptInv, IsToldRunning, IsListed
<1>12. CASE ReplySave(s, o) \/ ReplyDetails(s, o)
  <2>1. UNCHANGED <<log, listens, stale>> /\ ~TellsRunning(o) /\ ~WillList(o)
    BY <1>12 DEF ReplySave, ReplyDetails, TellsRunning, WillList, storeVars, listenVars
  <2> QED BY <1>1, <1>3, <1>4, <2>1 DEF LogInv, KeptInv, IsToldRunning, IsListed
<1> QED BY <1>5, <1>6, <1>7, <1>8, <1>9, <1>10, <1>11, <1>12, <1>13, <1>14 DEF Reply

LEMMA UserKeepsLog ==
  ASSUME CwTypes, KeptInv, LogInv, UserActions \/ Inspect
  PROVE  KeptInv' /\ LogInv'
<1>1. UNCHANGED <<journal, eventsSent, log, listens, stale, recorded>> /\ (IsToldRunning => IsToldRunning')
  BY UserLeavesRunning DEF appVars
<1>2. OnTheirWay("exchange")' = OnTheirWay("exchange")
  BY <1>1 DEF OnTheirWay
<1>3. \A r \in Slots : WillList(operations[r]) => WillList(operations[r])'
  BY UserKeepsCalls, NoOperationIsIdle DEF SameCall, WillList
<1>4. \A r \in Slots :
        \/ SameCall(operations[r], operations'[r])
        \/ operations'[r].ids = {} /\ (operations'[r].call = "status" => operations'[r].op = "open")
        \/ operations'[r].call = "details"
  <2>1. CASE UserActions
    BY <2>1, UserBegins DEF SameCall
  <2>2. CASE Inspect
    <3>1. PICK s \in Slots : /\ operations'[s].call = "details"
                             /\ \A r \in Slots : r # s => operations'[r] = [operations[r] EXCEPT !.isLast = FALSE]
      BY <2>2, InspectFacts
    <3>2. \A r \in Slots : SameCall(operations[r], [operations[r] EXCEPT !.isLast = FALSE])
      BY FormedOperations DEF SameCall, Operation
    <3> QED BY <3>1, <3>2
  <2> QED BY <2>1, <2>2
<1>5. KeptInv'
  BY <1>1, <1>2, <1>4 DEF KeptInv, SameCall
<1> QED BY <1>1, <1>2, <1>3, <1>5 DEF LogInv, Missing, IsListed

LEMMA StepKeepsLog ==
  CwTypes /\ RunningInv /\ KeptInv /\ LogInv /\ [CwNext]_cwVars => KeptInv' /\ LogInv'
<1> SUFFICES ASSUME CwTypes, RunningInv, KeptInv, LogInv, [CwNext]_cwVars PROVE KeptInv' /\ LogInv'
  OBVIOUS
<1>1. CASE UNCHANGED cwVars
  BY <1>1 DEF KeptInv, LogInv, Missing, OnTheirWay, IsToldRunning, IsListed, cwVars, appVars, storeVars, listenVars,
              countVars
<1> QED BY <1>1, RecordKeepsLog, DeliverKeepsLog, HoldKeepsLog, ServeKeepsLog, ReplyKeepsLog, UserKeepsLog
        DEF CwNext, UserActions

-----------------------------------------------------------------------------
(* The capture window: theorems *)

CaptureInv == CwTypes /\ EditsInv /\ DetailInv /\ RunningInv /\ HeldInv /\ KeptInv /\ LogInv

(* With no operation under way nobody is to tell, to open or to list.      *)
LEMMA SettledIsShown == CaptureInv => WindowShowsTheCapture
<1> SUFFICES ASSUME CaptureInv PROVE WindowShowsTheCapture
  OBVIOUS
<1>0. CASE ~IsSettled
  BY <1>0 DEF WindowShowsTheCapture
<1> SUFFICES ASSUME IsSettled PROVE WindowShowsTheCapture
  BY <1>0
<1>1. \A s \in Slots : /\ ~operations[s].isLast /\ ~TellsRunning(operations[s])
                        /\ ~OpensHeld(operations[s]) /\ ~WillList(operations[s])
  BY DEF IsSettled, NoOperation, Waiting, TellsRunning, OpensHeld, WillList
<1>2. OnTheirWay("held") = {} /\ OnTheirWay("settled") = {} /\ OnTheirWay("exchange") = {}
  BY DEF IsSettled, OnTheirWay
<1>3. detail \in {0, inspection}
  BY <1>1 DEF CaptureInv, DetailInv
<1>4. "running" \in stale \/ shownOn = proxyOn
  BY <1>1 DEF CaptureInv, RunningInv, IsToldRunning
<1>5. "held" \in stale \/ shownHeld = heldNow
  BY <1>1, <1>2 DEF CaptureInv, HeldInv, HeldAfter, IsSettled
<1>6. {"running", "log"} \cap stale # {} \/ journal \subseteq log
  BY <1>1, <1>2 DEF CaptureInv, LogInv, Missing, IsToldRunning, IsListed
<1> QED BY <1>3, <1>4, <1>5, <1>6 DEF WindowShowsTheCapture

LEMMA CaptureInvIsInductive ==
  /\ CwInit => CaptureInv
  /\ CaptureInv /\ [CwNext]_cwVars => CaptureInv'
BY InitCwTypes, InitEdits, InitDetail, InitRunning, InitHeld, InitLog,
   StepKeepsCwTypes, StepKeepsEdits, StepKeepsDetail, StepKeepsRunning, StepKeepsHeld, StepKeepsLog
   DEF CaptureInv

(* Every variable of the capture window and of the app it talks to keeps   *)
(* its type, calls and events included.                                    *)
THEOREM CaptureWindowTypes == CwSpec => []CwTypes
<1>1. CaptureInv => CwTypes
  BY DEF CaptureInv
<1> QED BY <1>1, CaptureInvIsInductive, PTL DEF CwSpec

(* Once events and replies have arrived the window shows whether the       *)
(* capture runs, the calls it holds, everything the journal keeps and the  *)
(* detail asked for last, except for the part of which a reply was         *)
(* overtaken, rules could not be read, a stop failed or a stopped capture  *)
(* still recorded a call, until the next reply about it: whatever the      *)
(* order of replies and the number of operations under way.                *)
THEOREM WindowIsFaithful == CwSpec => []WindowShowsTheCapture
BY SettledIsShown, CaptureInvIsInductive, PTL DEF CwSpec

(* Every edit of the rules is on the disk once no save is due or under     *)
(* way, except after a save that was refused or overtaken.                 *)
THEOREM NoEditIsForgotten == CwSpec => []EditsAreSaved
<1>1. CaptureInv => EditsAreSaved
  BY EditsInvSuffices DEF CaptureInv
<1> QED BY <1>1, CaptureInvIsInductive, PTL DEF CwSpec

-----------------------------------------------------------------------------
(* The sockets: links, timers, connections and the traffic on them *)

FrameEntry == [kind : {"frame"}, dial : Nat, number : Nat]
SocketEvent == [kind : {"open", "closed"}] \cup FrameEntry
LogEntry == {Note} \cup FrameEntry \cup [kind : {"sent"}, message : Nat]

Dial ==
  [tab : SocketTabs, at : {"preparing", "opening", "over"},
   conn : {"none", "failed", "opening", "open", "closing", "closed"},
   inbox : Seq(SocketEvent), early : Seq(SocketEvent), pings : BOOLEAN, isReady : BOOLEAN, frames : Nat]

Session ==
  [status : {"idle", "connecting", "open", "waiting"}, entries : Seq(LogEntry), dropped : Nat,
   auto : BOOLEAN, draft : BOOLEAN, cleared : BOOLEAN]

SocketTypes ==
  /\ socketSessions \in [SocketTabs -> {NoSession} \cup Session]
  /\ links \in [SocketTabs -> Nat] /\ retrying \subseteq SocketTabs
  /\ queued \in [SocketTabs -> Seq(LogEntry)]
  /\ outgoing \in [SocketTabs -> Seq(Nat)]
  /\ dials \in Seq(Dial) /\ receivers \subseteq 1..Len(dials)
  /\ wire \in Seq([dial : Nat, message : Nat])
  /\ platform \in Platforms /\ socketBudget \in [SocketUses -> Nat]

SessionAt(t) == SessionOfTab(socketSessions, t)

\* the status, the link and the timer of a tab agree; a tab that is closed has neither
TabIsLinked(status, link, waits, isOpen) ==
  /\ link = 0 <=> status \in {"idle", "waiting"}
  /\ waits <=> status = "waiting"
  /\ ~isOpen => link = 0 /\ ~waits

\* and the link is a dial of its own
TabInv ==
  \A t \in SocketTabs :
    /\ TabIsLinked(SessionAt(t).status, links[t], t \in retrying, t \in openTabs)
    /\ links[t] # 0 => links[t] \in 1..Len(dials) /\ dials[links[t]].tab = t
    /\ SessionAt(t).status = "open" => dials[links[t]].isReady

\* what is known of a dial, by how far it has come; `isCurrent' when its tab is linked to it,
\* `isRouted' when its events are routed to it, `on' the platform
DialIsSound(d, isCurrent, isRouted, on) ==
  /\ d.at = "preparing" => d.conn = "none"
  /\ d.at = "opening" /\ on = "browser" => d.conn = "none"
  /\ d.at # "over" => ~d.pings /\ ~d.isReady /\ ~isRouted
  /\ d.at = "over" => d.early = <<>> /\ (isCurrent => d.isReady)
  /\ d.at = "over" /\ ~isRouted => d.inbox = <<>> /\ d.conn \in {"failed", "closed"}
  /\ d.conn \in {"opening", "open"} => isCurrent \/ d.at = "opening"
  /\ d.conn \in {"none", "failed", "opening"} => d.early = <<>> /\ d.inbox = <<>> /\ d.frames = 0
  /\ d.pings => isCurrent

DialInv == \A n \in 1..Len(dials) : DialIsSound(dials[n], IsCurrent(n), n \in receivers, platform)

\* how many frames of a dial have been shown; one less before its connection has opened
Delivered(d) == d.frames - BeforeClosed(Pending(d))

\* the events of a dial that are on their way: its frames in order, up to the last, after them
\* its end and, in a browser, before them its opening
IsStream(n, events, delivered, isClosed, on) ==
  \A i \in 1..Len(events) :
    /\ events[i].kind = "closed" => i = Len(events) /\ isClosed
    /\ events[i].kind = "open" => delivered + i = 0 /\ on = "browser"
    /\ events[i].kind = "frame" => events[i] = Frame(n, delivered + i) /\ delivered + i > 0

HasStream(n, d, on) == IsStream(n, Pending(d), Delivered(d), d.conn = "closed", on)

StreamInv ==
  \A n \in 1..Len(dials) :
    HasStream(n, dials[n], platform)

HasFrames(entries) == \E i \in 1..Len(entries) : IsFrame(entries[i])

\* a log that may be followed by the frames of a dial from `delivered' + 1 on
MayGoOn(entries, n, delivered, isWhole) ==
  /\ \A i \in 1..Len(entries) : IsFrame(entries[i]) =>
       entries[i].dial < n \/ (entries[i].dial = n /\ entries[i].number <= delivered)
  /\ delivered > 0 =>
       (\E i \in 1..Len(entries) : entries[i] = Frame(n, delivered)) \/ (~HasFrames(entries) /\ ~isWhole)

IsOrdered(entries) ==
  \A i, j \in 1..Len(entries) :
    i < j /\ IsFrame(entries[i]) /\ IsFrame(entries[j]) => Precedes(entries[i], entries[j])

\* each frame follows the one before it, and only the first may follow nothing
HasNoGap(entries, isWhole) ==
  \A i \in 1..Len(entries) : IsFrame(entries[i]) =>
    \/ entries[i].number = 1
    \/ \E h \in 1..i-1 : entries[h] = Frame(entries[i].dial, entries[i].number - 1)
    \/ (\A h \in 1..i-1 : ~IsFrame(entries[h])) /\ ~isWhole

AreOfTab(entries, t) ==
  \A i \in 1..Len(entries) : IsFrame(entries[i]) =>
    /\ entries[i].dial \in 1..Len(dials) /\ dials[entries[i].dial].tab = t
    /\ entries[i].number > 0

LogIsSound(t) ==
  /\ AreOfTab(Shown(t), t) /\ IsOrdered(Shown(t)) /\ HasNoGap(Shown(t), IsWhole(SessionAt(t)))
  /\ links[t] # 0 => MayGoOn(Shown(t), links[t], Delivered(dials[links[t]]), IsWhole(SessionAt(t)))

ShownInv == \A t \in SocketTabs : LogIsSound(t)

\* messages are numbered downwards: those on their way are above the next one, and those
\* written above all of the tab that are on their way
MessageInv ==
  /\ \A t \in SocketTabs : \A i \in 1..Len(outgoing[t]) :
       /\ outgoing[t][i] > socketBudget["message"]
       /\ \A j \in 1..i-1 : outgoing[t][j] > outgoing[t][i]
  /\ \A j \in 1..Len(wire) : wire[j].message # 0 =>
       /\ wire[j].dial \in 1..Len(dials)
       /\ wire[j].message > socketBudget["message"]
       /\ \A i \in 1..Len(outgoing[dials[wire[j].dial].tab]) :
            wire[j].message > outgoing[dials[wire[j].dial].tab][i]
  /\ \A t \in SocketTabs : SessionAt(t).status = "open" =>
       \E i \in 1..Len(wire) : wire[i] = [dial |-> links[t], message |-> 0]
  /\ MessagesInOrder

SocketInv == SocketTypes /\ TabInv /\ DialInv /\ StreamInv /\ ShownInv /\ MessageInv

-----------------------------------------------------------------------------
(* Logs: what cutting, adding a note and adding frames leaves in order *)

LEMMA FrameFacts ==
  ASSUME NEW e \in LogEntry, IsFrame(e)
  PROVE  e.dial \in Nat /\ e.number \in Nat /\ e = Frame(e.dial, e.number)
BY DEF LogEntry, FrameEntry, IsFrame, Note, Frame

LEMMA NothingBetween ==
  ASSUME NEW n \in Nat, NEW m \in Nat, NEW p \in Nat, NEW q \in Nat,
         n < p \/ (n = p /\ m - 1 < q), p < n \/ (p = n /\ q < m)
  PROVE  FALSE
OBVIOUS

LEMMA OneEntryAdded ==
  ASSUME NEW S, NEW e \in Seq(S), NEW x \in S, NEW f, f = e \o <<x>>
  PROVE  /\ f \in Seq(S) /\ Len(f) = Len(e) + 1 /\ f[Len(e) + 1] = x
         /\ \A i \in 1..Len(e) : f[i] = e[i]
OBVIOUS

\* a log f after e that has no other frames and may be followed by the same ones
Carries(e, w, f, v) ==
  /\ f \in Seq(LogEntry) /\ v \in BOOLEAN
  /\ \A i \in 1..Len(f) : IsFrame(f[i]) => \E j \in 1..Len(e) : f[i] = e[j]
  /\ IsOrdered(f) /\ HasNoGap(f, v)
  /\ \A n \in Nat, k \in Int : MayGoOn(e, n, k, w) => MayGoOn(f, n, k, v)

LEMMA NoteIsAdded ==
  ASSUME NEW e \in Seq(LogEntry), NEW x \in LogEntry, ~IsFrame(x), NEW f, f = e \o <<x>>,
         NEW w \in BOOLEAN, IsOrdered(e), HasNoGap(e, w)
  PROVE  Carries(e, w, f, w)
<1>1. /\ f \in Seq(LogEntry) /\ Len(f) = Len(e) + 1 /\ f[Len(e) + 1] = x
      /\ \A i \in 1..Len(e) : f[i] = e[i]
  BY OneEntryAdded
<1>2. Len(e) \in Nat
  OBVIOUS
<1>3. \A i \in 1..Len(f) : IsFrame(f[i]) => i \in 1..Len(e) /\ f[i] = e[i]
  BY <1>1, <1>2
<1>4. \A i \in 1..Len(e) : i \in 1..Len(f) /\ \A h \in 1..i-1 : h \in 1..Len(e) /\ f[h] = e[h]
  BY <1>1, <1>2
<1>5. IsOrdered(f)
  BY <1>3 DEF IsOrdered
<1>6. ASSUME NEW i \in 1..Len(f), IsFrame(f[i])
      PROVE  \/ f[i].number = 1
             \/ \E h \in 1..i-1 : f[h] = Frame(f[i].dial, f[i].number - 1)
             \/ (\A h \in 1..i-1 : ~IsFrame(f[h])) /\ ~w
  <2>1. i \in 1..Len(e) /\ f[i] = e[i] /\ \A h \in 1..i-1 : f[h] = e[h]
    BY <1>3, <1>4, <1>6
  <2> QED BY <2>1, <1>6 DEF HasNoGap
<1>7. ASSUME NEW n \in Nat, NEW k \in Int, MayGoOn(e, n, k, w) PROVE MayGoOn(f, n, k, w)
  <2>1. HasFrames(f) => HasFrames(e)
    BY <1>3 DEF HasFrames
  <2>2. \A i \in 1..Len(f) : IsFrame(f[i]) => f[i].dial < n \/ (f[i].dial = n /\ f[i].number <= k)
    BY <1>3, <1>7 DEF MayGoOn
  <2>3. k > 0 => (\E i \in 1..Len(f) : f[i] = Frame(n, k)) \/ (~HasFrames(f) /\ ~w)
    BY <1>1, <1>4, <1>7, <2>1 DEF MayGoOn
  <2> QED BY <2>2, <2>3 DEF MayGoOn
<1>8. HasNoGap(f, w)
  BY <1>6 DEF HasNoGap
<1> QED BY <1>1, <1>3, <1>5, <1>7, <1>8 DEF Carries

AreFrames(a, n, k) == \A i \in 1..Len(a) : a[i] = Frame(n, k + i)

\* a log that is in order so far and goes on with the frames of dial n after number k
LogOn(e, n, k, w) == e \in Seq(LogEntry) /\ IsOrdered(e) /\ HasNoGap(e, w) /\ MayGoOn(e, n, k, w)

LEMMA FramesAreAdded ==
  ASSUME NEW e, NEW a \in Seq(LogEntry), NEW n \in Nat, NEW k \in Nat, NEW w \in BOOLEAN,
         LogOn(e, n, k, w), AreFrames(a, n, k)
  PROVE  LogOn(e \o a, n, k + Len(a), w)
<1> DEFINE l == Len(e)
           m == Len(a)
<1>0. PICK f : f = e \o a
  OBVIOUS
<1>a. e \in Seq(LogEntry) /\ IsOrdered(e) /\ HasNoGap(e, w) /\ MayGoOn(e, n, k, w)
  BY DEF LogOn
<1>1. l \in Nat /\ m \in Nat /\ f \in Seq(LogEntry) /\ Len(f) = l + m
  BY <1>0, <1>a
<1>2. \A i \in 1..l : i \in 1..Len(f) /\ f[i] = e[i]
  BY <1>0, <1>a
<1>3. ASSUME NEW i \in 1..Len(f), i \notin 1..l
      PROVE  /\ i - l \in 1..m /\ f[i] = Frame(n, k + (i - l))
             /\ f[i].dial = n /\ f[i].number = k + (i - l)
  <2>1. i - l \in 1..m /\ f[i] = a[i - l]
    BY <1>0, <1>a, <1>1, <1>3
  <2>2. f[i] = Frame(n, k + (i - l))
    BY <2>1 DEF AreFrames
  <2> QED BY <2>1, <2>2 DEF Frame
<1>4. \A i \in 1..l : IsFrame(e[i]) =>
        /\ e[i].dial \in Nat /\ e[i].number \in Nat
        /\ e[i].dial < n \/ (e[i].dial = n /\ e[i].number <= k)
  BY <1>a, FrameFacts DEF MayGoOn
<1> HIDE DEF l, m
<1>5. IsOrdered(f)
  <2> SUFFICES ASSUME NEW i \in 1..Len(f), NEW j \in 1..Len(f), i < j, IsFrame(f[i]), IsFrame(f[j])
               PROVE  Precedes(f[i], f[j])
    BY DEF IsOrdered
  <2>1. CASE j \in 1..l
    <3>1. i \in 1..l
      BY <2>1, <1>1
    <3> QED BY <2>1, <3>1, <1>a, <1>2 DEF IsOrdered, l
  <2>2. CASE j \notin 1..l /\ i \in 1..l
    <3>1. f[j].dial = n /\ f[j].number = k + (j - l) /\ j - l \in 1..m
      BY <2>2, <1>3
    <3>2. f[i].dial \in Nat /\ f[i].number \in Nat /\ (f[i].dial < n \/ (f[i].dial = n /\ f[i].number <= k))
      BY <2>2, <1>2, <1>4
    <3>3. j - l \in Int /\ j - l > 0
      BY <3>1, <1>1
    <3>4. f[j].number > k
      BY <3>1, <3>3
    <3> QED BY <3>1, <3>2, <3>3, <3>4 DEF Precedes
  <2>3. CASE j \notin 1..l /\ i \notin 1..l
    <3>1. f[j].dial = n /\ f[j].number = k + (j - l) /\ f[i].dial = n /\ f[i].number = k + (i - l)
      BY <2>3, <1>3
    <3>2. i \in Int /\ j \in Int
      BY <1>1
    <3> QED BY <3>1, <3>2, <1>1 DEF Precedes
  <2> QED BY <2>1, <2>2, <2>3
<1>6. HasNoGap(f, w)
  <2> SUFFICES ASSUME NEW i \in 1..Len(f), IsFrame(f[i])
               PROVE  \/ f[i].number = 1
                      \/ \E h \in 1..i-1 : f[h] = Frame(f[i].dial, f[i].number - 1)
                      \/ (\A h \in 1..i-1 : ~IsFrame(f[h])) /\ ~w
    BY DEF HasNoGap
  <2>1. CASE i \in 1..l
    <3>1. f[i] = e[i] /\ \A h \in 1..i-1 : f[h] = e[h]
      BY <2>1, <1>1, <1>2
    <3> QED BY <2>1, <3>1, <1>a DEF HasNoGap, l
  <2>2. CASE i \notin 1..l
    <3>1. i - l \in 1..m /\ f[i] = Frame(n, k + (i - l))
      BY <2>2, <1>3
    <3>2. f[i].dial = n /\ f[i].number = k + (i - l)
      BY <3>1 DEF Frame
    <3>3. CASE i - l > 1
      <4>1. i - 1 \in 1..Len(f) /\ i - 1 \notin 1..l
        BY <3>3, <1>1
      <4>2. f[i - 1] = Frame(n, k + ((i - 1) - l))
        BY <4>1, <1>3
      <4>3. k + ((i - 1) - l) = (k + (i - l)) - 1
        BY <1>1, <3>1
      <4>4. i - 1 \in 1..i-1
        BY <4>1, <1>1
      <4> QED BY <4>2, <4>3, <4>4, <3>2
    <3>4. CASE i - l = 1
      <4>1. i = l + 1 /\ f[i].number = k + 1
        BY <3>4, <3>2, <1>1
      <4>2. CASE k = 0
        BY <4>1, <4>2
      <4>3. CASE \E h \in 1..l : e[h] = Frame(n, k)
        <5>1. PICK h \in 1..l : e[h] = Frame(n, k)
          BY <4>3
        <5>2. h \in 1..i-1 /\ f[h] = Frame(n, f[i].number - 1)
          BY <5>1, <4>1, <1>1, <1>2
        <5> QED BY <5>2, <3>2
      <4>4. CASE ~HasFrames(e) /\ ~w
        <5>1. \A h \in 1..i-1 : h \in 1..l
          BY <4>1, <1>1
        <5> QED BY <4>4, <5>1, <1>2 DEF HasFrames, l
      <4>5. k > 0 => (\E h \in 1..l : e[h] = Frame(n, k)) \/ (~HasFrames(e) /\ ~w)
        BY <1>a DEF MayGoOn, l
      <4>6. k = 0 \/ k > 0
        OBVIOUS
      <4> QED BY <4>2, <4>3, <4>4, <4>5, <4>6
    <3>5. i - l > 1 \/ i - l = 1
      BY <3>1, <1>1
    <3> QED BY <3>3, <3>4, <3>5
  <2> QED BY <2>1, <2>2
<1>7. MayGoOn(f, n, k + m, w)
  <2>1. \A i \in 1..Len(f) : IsFrame(f[i]) => f[i].dial < n \/ (f[i].dial = n /\ f[i].number <= k + m)
    <3> SUFFICES ASSUME NEW i \in 1..Len(f), IsFrame(f[i])
                 PROVE  f[i].dial < n \/ (f[i].dial = n /\ f[i].number <= k + m)
      OBVIOUS
    <3>1. CASE i \in 1..l
      BY <3>1, <1>1, <1>2, <1>4
    <3>2. CASE i \notin 1..l
      <4>1. f[i].dial = n /\ f[i].number = k + (i - l) /\ i - l \in 1..m
        BY <3>2, <1>3
      <4> QED BY <4>1, <1>1
    <3> QED BY <3>1, <3>2
  <2>2. CASE m = 0
    <3>1. k + m = k /\ \A i \in 1..Len(f) : i \in 1..l /\ f[i] = e[i]
      BY <2>2, <1>1, <1>2
    <3>2. HasFrames(f) => HasFrames(e)
      BY <3>1 DEF HasFrames, l
    <3> QED BY <2>1, <3>1, <3>2, <1>a, <1>2 DEF MayGoOn, l
  <2>3. CASE m > 0
    <3>1. l + m \in 1..Len(f) /\ l + m \notin 1..l /\ (l + m) - l = m
      BY <2>3, <1>1
    <3>2. f[l + m] = Frame(n, k + m)
      BY <3>1, <1>3
    <3> QED BY <2>1, <3>1, <3>2 DEF MayGoOn
  <2> QED BY <2>2, <2>3, <1>1
<1> QED BY <1>0, <1>1, <1>5, <1>6, <1>7 DEF m, LogOn

LEMMA LogIsCut ==
  ASSUME NEW e \in Seq(LogEntry), NEW c \in 0..Len(e), NEW f, f = SubSeq(e, c + 1, Len(e)),
         NEW w \in BOOLEAN, NEW v \in BOOLEAN, v => w, c > 0 => ~v, IsOrdered(e), HasNoGap(e, w)
  PROVE  Carries(e, w, f, v)
<1> DEFINE l == Len(e)
<1>1. l \in Nat /\ c \in Nat /\ c <= l
  OBVIOUS
<1>2. f \in Seq(LogEntry) /\ Len(f) = l - c /\ \A i \in 1..l - c : f[i] = e[i + c]
  <2>1. c + 1 \in Int /\ l \in Int /\ \A i \in c+1..l : e[i] \in LogEntry
    BY <1>1, ElementOfSeq
  <2>2. /\ SubSeq(e, c + 1, l) \in Seq(LogEntry)
        /\ Len(SubSeq(e, c + 1, l)) = IF c + 1 <= l THEN l - (c + 1) + 1 ELSE 0
        /\ \A i \in 1..l - (c + 1) + 1 : SubSeq(e, c + 1, l)[i] = e[c + 1 + i - 1]
    BY <2>1, SubSeqProperties
  <2> QED BY <2>2, <1>1
<1> HIDE DEF l
<1>3. \A i \in 1..Len(f) : i + c \in 1..l /\ f[i] = e[i + c]
  BY <1>1, <1>2
<1>4. \A i \in 1..l : i > c => i - c \in 1..Len(f) /\ f[i - c] = e[i]
  BY <1>1, <1>2
<1>5. \A i \in 1..l : e[i] \in LogEntry
  BY ElementOfSeq DEF l
<1>6. IsOrdered(f)
  <2> SUFFICES ASSUME NEW i \in 1..Len(f), NEW j \in 1..Len(f), i < j, IsFrame(f[i]), IsFrame(f[j])
               PROVE  Precedes(f[i], f[j])
    BY DEF IsOrdered
  <2>0. i \in Int /\ j \in Int /\ c \in Int
    BY <1>1, <1>2
  <2>1. i + c \in 1..l /\ j + c \in 1..l /\ f[i] = e[i + c] /\ f[j] = e[j + c]
    BY <1>3
  <2>2. i + c < j + c
    BY <2>0
  <2> QED BY <2>1, <2>2 DEF IsOrdered, l
<1>7. ASSUME NEW h \in 1..l, h <= c, NEW j \in 1..l, j > c, IsFrame(e[h]), IsFrame(e[j]) PROVE Precedes(e[h], e[j])
  BY <1>1, <1>7 DEF IsOrdered, l
<1>8. HasNoGap(f, v)
  <2> SUFFICES ASSUME NEW i \in 1..Len(f), IsFrame(f[i]), f[i].number # 1,
                      \A h \in 1..i-1 : f[h] # Frame(f[i].dial, f[i].number - 1)
               PROVE  (\A h \in 1..i-1 : ~IsFrame(f[h])) /\ ~v
    BY DEF HasNoGap
  <2> DEFINE j == i + c
  <2>1. j \in 1..l /\ j > c /\ f[i] = e[j]
    BY <1>1, <1>2, <1>3
  <2>2. \A h \in 1..i-1 : h \in 1..Len(f) /\ h + c \in 1..j-1 /\ f[h] = e[h + c]
    BY <1>1, <1>2, <1>3
  <2> HIDE DEF j
  <2>3. \/ \E h \in 1..j-1 : e[h] = Frame(e[j].dial, e[j].number - 1)
        \/ (\A h \in 1..j-1 : ~IsFrame(e[h])) /\ ~w
    BY <2>1 DEF HasNoGap, l
  <2>4. CASE (\A h \in 1..j-1 : ~IsFrame(e[h])) /\ ~w
    BY <2>4, <2>2
  <2>5. ASSUME NEW h \in 1..j-1, e[h] = Frame(e[j].dial, e[j].number - 1)
        PROVE  (\A g \in 1..i-1 : ~IsFrame(f[g])) /\ ~v
    <3>1. h \in 1..l /\ h <= c
      <4>1. CASE h > c
        <5>1. h - c \in 1..i-1 /\ f[h - c] = e[h]
          BY <4>1, <2>1, <1>1, <1>4 DEF j
        <5> QED BY <5>1, <2>5, <2>1
      <4> QED BY <4>1, <2>1, <1>1
    <3>2. c > 0 /\ ~v
      BY <3>1, <1>1
    <3>3. ASSUME NEW g \in 1..i-1, IsFrame(f[g]) PROVE FALSE
      <4>1. g + c \in 1..l /\ g + c > c /\ g + c < j /\ f[g] = e[g + c]
        <5>1. g + c \in 1..j-1 /\ f[g] = e[g + c]
          BY <2>2
        <5>2. g \in Int /\ g > 0
          BY <1>1, <1>2
        <5>3. j \in Int /\ l \in Int /\ c \in Int /\ j <= l
          BY <2>1, <1>1
        <5>4. g + c \in Int /\ g + c >= 1 /\ g + c <= j - 1
          BY <5>1, <5>3
        <5>5. g + c > c /\ g + c < j /\ g + c <= l
          BY <5>2, <5>3, <5>4
        <5> QED BY <5>1, <5>3, <5>4, <5>5
      <4>2. IsFrame(e[h]) /\ e[h].dial = e[j].dial /\ e[h].number = e[j].number - 1
        BY <2>5 DEF IsFrame, Frame
      <4>3. Precedes(e[h], e[g + c]) /\ Precedes(e[g + c], e[j])
        BY <4>1, <4>2, <2>1, <3>1, <3>3, <1>7, <1>1 DEF IsOrdered, l
      <4>4. e[j].dial \in Nat /\ e[j].number \in Nat /\ e[g + c].dial \in Nat /\ e[g + c].number \in Nat
        BY <4>1, <2>1, <3>3, <1>5, FrameFacts
      <4> QED BY <4>2, <4>3, <4>4, NothingBetween DEF Precedes
    <3> QED BY <3>2, <3>3
  <2> QED BY <2>3, <2>4, <2>5
<1>9. ASSUME NEW n \in Nat, NEW k \in Int, MayGoOn(e, n, k, w) PROVE MayGoOn(f, n, k, v)
  <2>1. \A i \in 1..Len(f) : IsFrame(f[i]) => f[i].dial < n \/ (f[i].dial = n /\ f[i].number <= k)
    BY <1>3, <1>9 DEF MayGoOn, l
  <2>2. ASSUME k > 0, \A i \in 1..Len(f) : f[i] # Frame(n, k) PROVE ~HasFrames(f) /\ ~v
    <3>1. CASE ~HasFrames(e) /\ ~w
      BY <3>1, <1>3 DEF HasFrames, l
    <3>2. ASSUME NEW i \in 1..l, e[i] = Frame(n, k) PROVE ~HasFrames(f) /\ ~v
      <4>1. i <= c
        <5>1. CASE i > c
          <6>1. i - c \in 1..Len(f) /\ f[i - c] = e[i]
            BY <5>1, <1>4
          <6> QED BY <6>1, <3>2, <2>2
        <5> QED BY <5>1, <1>1
      <4>2. c > 0 /\ ~v
        BY <4>1, <1>1
      <4>3. ASSUME NEW g \in 1..Len(f), IsFrame(f[g]) PROVE FALSE
        <5>1. g + c \in 1..l /\ g + c > c /\ f[g] = e[g + c]
          BY <1>1, <1>2, <1>3
        <5>2. IsFrame(e[i]) /\ e[i].dial = n /\ e[i].number = k
          BY <3>2 DEF IsFrame, Frame
        <5>3. Precedes(e[i], e[g + c])
          BY <5>1, <5>2, <4>1, <4>3, <1>7
        <5>4. e[g + c].dial \in Nat /\ e[g + c].number \in Nat
          BY <5>1, <4>3, <1>5, FrameFacts
        <5>5. f[g].dial < n \/ (f[g].dial = n /\ f[g].number <= k)
          BY <2>1, <4>3
        <5>6. PICK a \in Nat, b \in Nat : a = e[g + c].dial /\ b = e[g + c].number
          BY <5>4
        <5>7. n < a \/ (n = a /\ k < b)
          BY <5>2, <5>3, <5>6 DEF Precedes
        <5>8. a < n \/ (a = n /\ b <= k)
          BY <5>1, <5>5, <5>6
        <5> QED BY <5>7, <5>8
      <4> QED BY <4>2, <4>3 DEF HasFrames
    <3> QED BY <2>2, <3>1, <3>2, <1>9 DEF MayGoOn, l
  <2> QED BY <2>1, <2>2 DEF MayGoOn
<1>10. \A i \in 1..Len(f) : \E j \in 1..l : f[i] = e[j]
  BY <1>3
<1> QED BY <1>2, <1>6, <1>8, <1>9, <1>10 DEF Carries, l

-----------------------------------------------------------------------------
(* What a step does to a tab: its session, its log and its link *)

Sessions == [SocketTabs -> {NoSession} \cup Session]

LEMMA SessionFacts ==
  ASSUME NEW all \in Sessions, NEW t \in SocketTabs
  PROVE  /\ SessionOfTab(all, t) \in Session
         /\ all[t] \in Session => SessionOfTab(all, t) = all[t] /\ all[t] # NoSession
         /\ all[t] = NoSession => SessionOfTab(all, t) = IdleSession
<1>1. IdleSession \in Session
  BY DEF IdleSession, Session
<1>2. ASSUME NEW s \in Session PROVE s # NoSession
  <2>1. s.status # "none"
    BY DEF Session
  <2> QED BY <2>1 DEF NoSession
<1>3. all[t] \in {NoSession} \cup Session
  BY DEF Sessions
<1> QED BY <1>1, <1>2, <1>3 DEF SessionOfTab

LEMMA SessionAtFacts ==
  ASSUME SocketTypes, NEW t \in SocketTabs
  PROVE  /\ SessionAt(t) \in Session /\ SessionAt(t).entries \in Seq(LogEntry) /\ SessionAt(t).dropped \in Nat
         /\ SessionAt(t).cleared \in BOOLEAN /\ IsWhole(SessionAt(t)) \in BOOLEAN
         /\ queued[t] \in Seq(LogEntry) /\ Shown(t) \in Seq(LogEntry)
<1>1. SessionAt(t) \in Session
  BY SessionFacts DEF SocketTypes, Sessions, SessionAt
<1>2. /\ SessionAt(t).entries \in Seq(LogEntry) /\ SessionAt(t).dropped \in Nat
      /\ SessionAt(t).cleared \in BOOLEAN
  BY <1>1 DEF Session
<1>3. queued[t] \in Seq(LogEntry)
  BY DEF SocketTypes
<1>4. Shown(t) \in Seq(LogEntry)
  BY <1>2, <1>3 DEF Shown, SessionAt
<1> QED BY <1>1, <1>2, <1>3, <1>4 DEF IsWhole

\* a session before and after, with the same log and the same switch
KeepsLog(s, u) == u.entries = s.entries /\ u.dropped = s.dropped /\ u.cleared = s.cleared

\* only tab's session changes
OthersRest(all, new, tab) ==
  \A t \in SocketTabs : t # tab => SessionOfTab(new, t) = SessionOfTab(all, t)

\* the sessions once a tab's is s
IsPatched(all, tab, s, new) == new \in Sessions /\ SessionOfTab(new, tab) = s /\ OthersRest(all, new, tab)

LEMMA OneSessionChanges ==
  ASSUME NEW all \in Sessions, NEW tab \in SocketTabs, NEW s \in Session
  PROVE  IsPatched(all, tab, s, [all EXCEPT ![tab] = s])
<1>0. PICK new : new = [all EXCEPT ![tab] = s]
  OBVIOUS
<1>1. new \in Sessions /\ new[tab] = s /\ \A t \in SocketTabs : t # tab => new[t] = all[t]
  BY <1>0 DEF Sessions
<1>2. SessionOfTab(new, tab) = s /\ OthersRest(all, new, tab)
  BY <1>1, SessionFacts DEF OthersRest, SessionOfTab
<1>3. IsPatched(all, tab, s, new)
  BY <1>1, <1>2 DEF IsPatched
<1> QED BY <1>0, <1>3

\* the sessions once a tab's has a status
StatusIs(all, tab, status, new) ==
  /\ new \in Sessions /\ OthersRest(all, new, tab)
  /\ SessionOfTab(new, tab).status = status
  /\ SessionOfTab(new, tab).auto = SessionOfTab(all, tab).auto
  /\ KeepsLog(SessionOfTab(all, tab), SessionOfTab(new, tab))

LEMMA StatusFacts ==
  ASSUME NEW all \in Sessions, NEW tab \in SocketTabs, NEW status \in {"idle", "connecting", "open", "waiting"}
  PROVE  StatusIs(all, tab, status, Status(all, tab, status))
<1>1. PICK s \in Session : s = SessionOfTab(all, tab)
  BY SessionFacts
<1>2. PICK v : v = [s EXCEPT !.status = status]
  OBVIOUS
<1>3. v \in Session /\ v.status = status /\ v.auto = s.auto /\ KeepsLog(s, v)
  BY <1>2 DEF Session, KeepsLog
<1>4. PICK u \in Session : u = v
  BY <1>3
<1>5. Status(all, tab, status) = [all EXCEPT ![tab] = u]
  BY <1>1, <1>2, <1>4 DEF Status
<1>6. PICK new : new = Status(all, tab, status)
  OBVIOUS
<1>7. IsPatched(all, tab, u, new)
  BY <1>5, <1>6, OneSessionChanges
<1>8. StatusIs(all, tab, status, new)
  BY <1>1, <1>3, <1>4, <1>7 DEF StatusIs, IsPatched
<1> QED BY <1>6, <1>8

\* the log of a tab stays, has a note more, or loses its oldest entries
LogRests(t) == Shown(t)' = Shown(t) /\ IsWhole(SessionAt(t))' = IsWhole(SessionAt(t))
LogIsNoted(t) ==
  /\ \E x \in LogEntry : ~IsFrame(x) /\ Shown(t)' = Shown(t) \o <<x>>
  /\ IsWhole(SessionAt(t))' = IsWhole(SessionAt(t))
LogLoses(t) ==
  \E c \in 0..Len(Shown(t)) :
    /\ Shown(t)' = SubSeq(Shown(t), c + 1, Len(Shown(t)))
    /\ IsWhole(SessionAt(t))' => IsWhole(SessionAt(t)) /\ c = 0
LogGoesOn(t) == LogRests(t) \/ LogIsNoted(t) \/ LogLoses(t)

\* its link stays, ends or is a new dial
LinkRests(t) ==
  /\ links'[t] = links[t]
  /\ links[t] # 0 =>
       \/ Delivered(dials'[links[t]]) = Delivered(dials[links[t]])
       \/ Delivered(dials'[links[t]]) \in {-1, 0} /\ Delivered(dials[links[t]]) \in {-1, 0}
LinkBegins(t) == links'[t] = Len(dials) + 1 /\ Delivered(dials'[Len(dials) + 1]) = 0

DialsKeepTabs ==
  /\ Len(dials) \in Nat /\ Len(dials') \in Nat /\ Len(dials) <= Len(dials')
  /\ \A n \in 1..Len(dials) : dials'[n].tab = dials[n].tab

LEMMA LogStays ==
  ASSUME SocketTypes, NEW t \in SocketTabs, KeepsLog(SessionAt(t), SessionAt(t)'), queued'[t] = queued[t]
  PROVE  LogRests(t)
BY DEF KeepsLog, LogRests, Shown, SessionAt, IsWhole

LEMMA LogIsAppended ==
  ASSUME SocketTypes, NEW t \in SocketTabs, KeepsLog(SessionAt(t), SessionAt(t)'),
         NEW a \in Seq(LogEntry), queued'[t] = queued[t] \o a
  PROVE  Shown(t)' = Shown(t) \o a /\ IsWhole(SessionAt(t))' = IsWhole(SessionAt(t))
<1>1. PICK e \in Seq(LogEntry), q \in Seq(LogEntry) : e = SessionAt(t).entries /\ q = queued[t]
  BY SessionAtFacts
<1>2. Shown(t) = e \o q /\ Shown(t)' = e \o (q \o a)
  BY <1>1 DEF KeepsLog, Shown, SessionAt
<1>3. (e \o q) \o a = e \o (q \o a)
  BY ConcatAssociative
<1> QED BY <1>2, <1>3 DEF KeepsLog, IsWhole

LEMMA NoteIsLogged ==
  ASSUME SocketTypes, NEW t \in SocketTabs, KeepsLog(SessionAt(t), SessionAt(t)'),
         NEW x \in LogEntry, ~IsFrame(x), queued'[t] = queued[t] \o <<x>>
  PROVE  LogIsNoted(t)
<1>1. <<x>> \in Seq(LogEntry)
  OBVIOUS
<1> QED BY <1>1, LogIsAppended DEF LogIsNoted

LEMMA NoteFacts == Note \in LogEntry /\ ~IsFrame(Note) /\ \A m \in Nat : SentEntry(m) \in LogEntry /\ ~IsFrame(SentEntry(m))
BY DEF LogEntry, Note, IsFrame, SentEntry

LEMMA TabsAreKept ==
  ASSUME DialsKeepTabs, NEW t, NEW e, AreOfTab(e, t)
  PROVE  AreOfTab(e, t)'
BY DEF DialsKeepTabs, AreOfTab

\* the same before and after a connection opens
LEMMA NothingDelivered ==
  ASSUME NEW e \in Seq(LogEntry), NEW t, AreOfTab(e, t), NEW n \in Nat, NEW k \in {-1, 0}, NEW l \in {-1, 0},
         NEW w, MayGoOn(e, n, k, w)
  PROVE  MayGoOn(e, n, l, w)
<1>1. ASSUME NEW i \in 1..Len(e), IsFrame(e[i]) PROVE e[i].dial < n
  <2>1. e[i].number \in Nat /\ e[i].number > 0 /\ e[i].dial \in Nat
    BY <1>1, ElementOfSeq, FrameFacts DEF AreOfTab
  <2>2. e[i].dial < n \/ (e[i].dial = n /\ e[i].number <= k)
    BY <1>1 DEF MayGoOn
  <2> QED BY <2>1, <2>2
<1> QED BY <1>1 DEF MayGoOn

LEMMA DeliveredIsInt == ASSUME NEW d \in Dial PROVE Delivered(d) \in Int
<1>1. PICK f \in Nat, e \in Seq(SocketEvent), b \in Seq(SocketEvent) :
        f = d.frames /\ e = d.early /\ b = d.inbox
  BY DEF Dial
<1>2. Len(e \o b) \in Nat
  BY ConcatProperties, LenProperties
<1>3. BeforeClosed(e \o b) \in Int
  BY <1>2 DEF BeforeClosed
<1> QED BY <1>1, <1>3 DEF Delivered, Pending

LEMMA LogKeepsSound ==
  ASSUME SocketTypes, DialsKeepTabs, NEW t \in SocketTabs, LogIsSound(t), LogGoesOn(t),
         links[t] # 0 => links[t] \in 1..Len(dials),
         LinkRests(t) \/ links'[t] = 0 \/ LinkBegins(t)
  PROVE  LogIsSound(t)'
<1> DEFINE e == Shown(t)
           w == IsWhole(SessionAt(t))
<1>1. e \in Seq(LogEntry) /\ w \in BOOLEAN /\ links[t] \in Nat /\ Len(dials) \in Nat
  BY SessionAtFacts DEF SocketTypes, DialsKeepTabs
<1>2. AreOfTab(e, t) /\ IsOrdered(e) /\ HasNoGap(e, w)
  BY DEF LogIsSound
<1>3. PICK f, v : f = Shown(t)' /\ v = IsWhole(SessionAt(t))'
  OBVIOUS
<1>4. Carries(e, w, f, v)
  <2> HIDE DEF e, w
  <2>1. CASE f = e /\ v = w
    BY <1>1, <1>2, <2>1 DEF Carries
  <2>2. ASSUME NEW x \in LogEntry, ~IsFrame(x), f = e \o <<x>>, v = w
        PROVE  Carries(e, w, f, v)
    BY <1>1, <1>2, <2>2, NoteIsAdded
  <2>3. ASSUME NEW c \in 0..Len(e), f = SubSeq(e, c + 1, Len(e)), v => w /\ c = 0, v \in BOOLEAN
        PROVE  Carries(e, w, f, v)
    <3>1. (v => w) /\ (c > 0 => ~v)
      BY <2>3
    <3> QED BY <1>1, <1>2, <2>3, <3>1, LogIsCut
  <2>4. v \in BOOLEAN
    BY <1>3 DEF IsWhole
  <2>5. CASE LogRests(t)
    BY <1>3, <2>1, <2>5 DEF LogRests, e, w
  <2>6. CASE LogIsNoted(t)
    <3>1. PICK x \in LogEntry : ~IsFrame(x) /\ f = e \o <<x>>
      BY <1>3, <2>6 DEF LogIsNoted, e
    <3>2. v = w
      BY <1>3, <2>6 DEF LogIsNoted, w
    <3> QED BY <3>1, <3>2, <2>2
  <2>7. CASE LogLoses(t)
    <3>1. PICK c \in 0..Len(e) : f = SubSeq(e, c + 1, Len(e)) /\ (v => w /\ c = 0)
      BY <1>3, <2>7 DEF LogLoses, e, w
    <3> QED BY <3>1, <2>3, <2>4
  <2> QED BY <2>5, <2>6, <2>7 DEF LogGoesOn
<1>5. AreOfTab(f, t)
  BY <1>2, <1>4 DEF AreOfTab, Carries
<1>6. AreOfTab(f, t)'
  BY <1>5, TabsAreKept
<1>7. ASSUME links'[t] # 0 PROVE MayGoOn(f, links'[t], Delivered(dials'[links'[t]]), v)
  <2>1. CASE LinkRests(t)
    <3>1. links'[t] = links[t] /\ links[t] \in 1..Len(dials)
      BY <1>7, <2>1 DEF LinkRests
    <3>2. PICK n \in Nat, k \in Int : n = links[t] /\ k = Delivered(dials[links[t]])
      <4>1. dials[links[t]] \in Dial
        BY <3>1 DEF SocketTypes
      <4> QED BY <4>1, <1>1, DeliveredIsInt
    <3>3. MayGoOn(f, n, k, v)
      BY <1>4, <3>1, <3>2, <1>7 DEF LogIsSound, Carries
    <3>4. CASE Delivered(dials'[links[t]]) = k
      BY <3>1, <3>2, <3>3, <3>4
    <3>5. CASE Delivered(dials'[links[t]]) \in {-1, 0} /\ k \in {-1, 0}
      <4>1. MayGoOn(f, n, Delivered(dials'[links[t]]), v)
        BY <3>3, <3>5, <1>4, <1>5, NothingDelivered DEF Carries
      <4> QED BY <4>1, <3>1, <3>2
    <3> QED BY <2>1, <3>1, <3>2, <3>4, <3>5, <1>7 DEF LinkRests
  <2>2. CASE LinkBegins(t)
    <3>1. links'[t] = Len(dials) + 1 /\ Delivered(dials'[links'[t]]) = 0
      BY <2>2 DEF LinkBegins
    <3>2. ASSUME NEW i \in 1..Len(f), IsFrame(f[i]) PROVE f[i].dial < Len(dials) + 1
      <4>1. f[i].dial \in 1..Len(dials)
        BY <3>2, <1>5 DEF AreOfTab
      <4> QED BY <4>1, <1>1
    <3> QED BY <3>1, <3>2 DEF MayGoOn
  <2> QED BY <1>7, <2>1, <2>2
<1> QED BY <1>3, <1>4, <1>6, <1>7 DEF LogIsSound, Carries

-----------------------------------------------------------------------------
(* Dials and the events that are on their way *)

LEMMA DialFacts ==
  ASSUME NEW d \in Dial
  PROVE  /\ d.early \in Seq(SocketEvent) /\ d.inbox \in Seq(SocketEvent) /\ d.frames \in Nat
         /\ Pending(d) \in Seq(SocketEvent)
<1>1. d.early \in Seq(SocketEvent) /\ d.inbox \in Seq(SocketEvent) /\ d.frames \in Nat
  BY DEF Dial
<1> QED BY <1>1 DEF Pending

LEMMA ConcatFacts ==
  ASSUME NEW S, NEW a \in Seq(S), NEW b \in Seq(S), NEW c, c = a \o b
  PROVE  /\ c \in Seq(S) /\ Len(c) = Len(a) + Len(b) /\ Len(a) \in Nat /\ Len(b) \in Nat
         /\ \A i \in 1..Len(a) : i \in 1..Len(c) /\ c[i] = a[i]
         /\ \A i \in 1..Len(b) : Len(a) + i \in 1..Len(c) /\ c[Len(a) + i] = b[i]
OBVIOUS

\* a stream in two parts: what the first has and what is left of it after that
Splits(n, a, b, k, z, on) ==
  /\ HasClosed(a) => b = <<>>
  /\ BeforeClosed(a) \in Nat /\ BeforeClosed(b) \in Int
  /\ BeforeClosed(a \o b) = BeforeClosed(a) + BeforeClosed(b)
  /\ \A i \in 1..BeforeClosed(a) : i \in 1..Len(a) /\ a[i].kind # "closed"
  /\ \A i \in 1..Len(a) : /\ a[i].kind = "frame" => a[i] = Frame(n, k + i) /\ k + i > 0
                          /\ a[i].kind = "open" => k + i = 0 /\ on = "browser"
                          /\ a[i].kind = "closed" => i = Len(a)
  /\ IsStream(n, b, k + BeforeClosed(a), z, on)

LEMMA StreamParts ==
  ASSUME NEW a \in Seq(SocketEvent), NEW b \in Seq(SocketEvent), NEW n, NEW k \in Int, NEW z, NEW on,
         IsStream(n, a \o b, k, z, on)
  PROVE  Splits(n, a, b, k, z, on)
<1>0. PICK c : c = a \o b
  OBVIOUS
<1>a. IsStream(n, c, k, z, on)
  BY <1>0
<1> DEFINE l == Len(a)
           m == Len(b)
<1>1. /\ c \in Seq(SocketEvent) /\ Len(c) = l + m /\ l \in Nat /\ m \in Nat
      /\ \A i \in 1..l : i \in 1..Len(c) /\ c[i] = a[i]
      /\ \A i \in 1..m : l + i \in 1..Len(c) /\ c[l + i] = b[i]
  BY <1>0, ConcatFacts
<1> HIDE DEF l, m
<1>2. \A i \in 1..l : a[i].kind = "closed" => i = l /\ m = 0
  <2> SUFFICES ASSUME NEW i \in 1..l, a[i].kind = "closed" PROVE i = l /\ m = 0
    OBVIOUS
  <2>1. i = Len(c)
    BY <1>a, <1>1 DEF IsStream
  <2> QED BY <2>1, <1>1
<1>3. HasClosed(a) => m = 0 /\ l > 0
  BY <1>1, <1>2 DEF HasClosed, l
<1>4. m = 0 => b = <<>>
  BY DEF m
<1>5. HasClosed(c) <=> HasClosed(a) \/ HasClosed(b)
  <2>1. HasClosed(c) => HasClosed(a) \/ HasClosed(b)
    <3> SUFFICES ASSUME NEW i \in 1..Len(c), c[i].kind = "closed" PROVE HasClosed(a) \/ HasClosed(b)
      BY DEF HasClosed
    <3>1. CASE i \in 1..l
      BY <3>1, <1>1 DEF HasClosed, l
    <3>2. CASE i \notin 1..l
      <4>1. i - l \in 1..m /\ l + (i - l) = i
        BY <3>2, <1>1
      <4>2. b[i - l].kind = "closed"
        BY <4>1, <1>1
      <4> QED BY <4>1, <4>2 DEF HasClosed, m
    <3> QED BY <3>1, <3>2
  <2>2. HasClosed(a) => HasClosed(c)
    BY <1>1 DEF HasClosed, l
  <2>3. HasClosed(b) => HasClosed(c)
    BY <1>1 DEF HasClosed, m
  <2> QED BY <2>1, <2>2, <2>3
<1>6. HasClosed(b) => m > 0
  BY <1>1 DEF HasClosed, m
<1>7. BeforeClosed(a) \in Nat /\ BeforeClosed(b) \in Int /\ BeforeClosed(c) = BeforeClosed(a) + BeforeClosed(b)
  <2>1. /\ BeforeClosed(a) = IF HasClosed(a) THEN l - 1 ELSE l
        /\ BeforeClosed(b) = IF HasClosed(b) THEN m - 1 ELSE m
        /\ BeforeClosed(c) = IF HasClosed(c) THEN (l + m) - 1 ELSE l + m
    BY <1>1 DEF BeforeClosed, l, m
  <2>2. CASE HasClosed(a)
    BY <2>1, <2>2, <1>1, <1>3, <1>5, <1>6
  <2>3. CASE ~HasClosed(a)
    BY <2>1, <2>3, <1>1, <1>5
  <2> QED BY <2>2, <2>3
<1>8. ASSUME NEW i \in 1..BeforeClosed(a) PROVE i \in 1..l /\ a[i].kind # "closed"
  <2>1. i \in 1..l
    BY <1>1, <1>3 DEF BeforeClosed, l
  <2>2. CASE a[i].kind = "closed"
    <3>1. HasClosed(a) /\ i = l
      BY <2>1, <2>2, <1>2 DEF HasClosed, l
    <3>2. i \in 1..l - 1
      BY <3>1 DEF BeforeClosed, l
    <3> QED BY <3>1, <3>2, <1>1
  <2> QED BY <2>1, <2>2
<1>9. \A i \in 1..l : /\ a[i].kind = "frame" => a[i] = Frame(n, k + i) /\ k + i > 0
                      /\ a[i].kind = "open" => k + i = 0 /\ on = "browser"
                      /\ a[i].kind = "closed" => i = l
  BY <1>a, <1>1, <1>2 DEF IsStream
<1>10. IsStream(n, b, k + BeforeClosed(a), z, on)
  <2> SUFFICES ASSUME NEW i \in 1..m
               PROVE  /\ b[i].kind = "closed" => i = m /\ z
                      /\ b[i].kind = "open" => (k + BeforeClosed(a)) + i = 0 /\ on = "browser"
                      /\ b[i].kind = "frame" => /\ b[i] = Frame(n, (k + BeforeClosed(a)) + i)
                                                /\ (k + BeforeClosed(a)) + i > 0
    BY DEF IsStream, m
  <2>1. BeforeClosed(a) = l
    BY <1>1, <1>3 DEF BeforeClosed, l
  <2>2. i \in Int /\ (k + l) + i = k + (l + i) /\ (l + i = Len(c) => i = m)
    BY <1>1
  <2>3. l + i \in 1..Len(c) /\ c[l + i] = b[i]
    BY <1>1
  <2>4. /\ b[i].kind = "closed" => l + i = Len(c) /\ z
        /\ b[i].kind = "open" => k + (l + i) = 0 /\ on = "browser"
        /\ b[i].kind = "frame" => b[i] = Frame(n, k + (l + i)) /\ k + (l + i) > 0
    BY <1>a, <2>3 DEF IsStream
  <2> QED BY <2>1, <2>2, <2>4
<1> QED BY <1>0, <1>3, <1>4, <1>7, <1>8, <1>9, <1>10 DEF l, Splits

\* at most the opening of the connection is ahead of its first frame
LEMMA DeliveredBounds ==
  ASSUME NEW n, NEW d \in Dial, NEW on, HasStream(n, d, on)
  PROVE  Delivered(d) \in Int /\ Delivered(d) >= -1 /\ (on = "desktop" => Delivered(d) \in Nat)
<1>1. PICK p \in Seq(SocketEvent), f \in Nat, k \in Int :
        p = Pending(d) /\ f = d.frames /\ k = Delivered(d) /\ k = f - BeforeClosed(p)
  BY DialFacts, DeliveredIsInt DEF Delivered
<1>2. CASE p = <<>>
  <2>1. BeforeClosed(p) = 0
    BY <1>2 DEF BeforeClosed, HasClosed
  <2> QED BY <1>1, <2>1
<1>3. CASE p # <<>>
  <2>1. Len(p) \in Nat /\ Len(p) > 0 /\ p[1] \in SocketEvent
    BY <1>3
  <2>2. p[1].kind \in {"open", "closed", "frame"}
    BY <2>1 DEF SocketEvent, FrameEntry
  <2>3. CASE p[1].kind = "closed"
    <3>0. 1 \in 1..Len(p)
      BY <2>1
    <3>1. Len(p) = 1 /\ HasClosed(p)
      BY <3>0, <2>3, <1>1 DEF HasStream, IsStream, HasClosed
    <3>2. BeforeClosed(p) = 0
      BY <3>1 DEF BeforeClosed
    <3> QED BY <1>1, <3>2
  <2>4. CASE p[1].kind = "open"
    <3>1. k + 1 = 0 /\ on = "browser"
      BY <2>1, <2>4, <1>1 DEF HasStream, IsStream
    <3> QED BY <1>1, <3>1
  <2>5. CASE p[1].kind = "frame"
    <3>1. k + 1 > 0
      BY <2>1, <2>5, <1>1 DEF HasStream, IsStream
    <3> QED BY <1>1, <3>1
  <2> QED BY <2>2, <2>3, <2>4, <2>5
<1> QED BY <1>2, <1>3

\* nothing moves but the state of the connection
LEMMA StreamStays ==
  ASSUME NEW n, NEW d \in Dial, NEW on, HasStream(n, d, on), NEW e \in Dial,
         Pending(e) = Pending(d), e.frames = d.frames, d.conn = "closed" => e.conn = "closed"
  PROVE  HasStream(n, e, on) /\ Delivered(e) = Delivered(d)
BY DEF HasStream, Delivered, IsStream

LEMMA EventsAssociate ==
  ASSUME NEW a \in Seq(SocketEvent), NEW b \in Seq(SocketEvent), NEW c \in Seq(SocketEvent)
  PROVE  (a \o b) \o c = a \o (b \o c)
BY ConcatAssociative

\* one event more, of a connection that has not ended
LEMMA StreamGrows ==
  ASSUME NEW n, NEW d \in Dial, NEW on, HasStream(n, d, on), NEW e \in Dial, d.conn # "closed",
         NEW x \in SocketEvent, e.early = d.early, e.inbox = Append(d.inbox, x),
         \/ x = Frame(n, e.frames) /\ e.frames = d.frames + 1
         \/ x.kind = "closed" /\ e.frames = d.frames /\ e.conn = "closed"
  PROVE  HasStream(n, e, on) /\ Delivered(e) = Delivered(d)
<1>1. PICK p \in Seq(SocketEvent), q \in Seq(SocketEvent), f \in Nat, g \in Nat :
        p = Pending(d) /\ q = Pending(e) /\ f = d.frames /\ g = e.frames
  BY DialFacts
<1>2. q = p \o <<x>>
  <2>1. PICK a \in Seq(SocketEvent), b \in Seq(SocketEvent) : a = d.early /\ b = d.inbox
    BY DialFacts
  <2>2. Append(b, x) = b \o <<x>>
    BY <2>1
  <2>3. a \o (b \o <<x>>) = (a \o b) \o <<x>>
    <3>1. <<x>> \in Seq(SocketEvent)
      OBVIOUS
    <3>2. ASSUME NEW y \in Seq(SocketEvent) PROVE (a \o b) \o y = a \o (b \o y)
      BY EventsAssociate
    <3> QED BY <3>1, <3>2
  <2> QED BY <2>1, <2>2, <2>3, <1>1 DEF Pending
<1>3. /\ Len(q) = Len(p) + 1 /\ Len(p) \in Nat /\ q[Len(p) + 1] = x
      /\ \A i \in 1..Len(p) : q[i] = p[i]
  BY <1>2, OneEntryAdded
<1>4. ~HasClosed(p)
  BY <1>1 DEF HasStream, IsStream, HasClosed
<1>5. BeforeClosed(p) = Len(p) /\ Delivered(d) = f - Len(p)
  BY <1>4, <1>1 DEF BeforeClosed, Delivered
<1>6. \A i \in 1..Len(q) : i = Len(p) + 1 \/ i \in 1..Len(p)
  BY <1>3
<1>7. ASSUME NEW i \in 1..Len(p)
      PROVE  /\ q[i].kind # "closed"
             /\ q[i].kind = "open" => (f - Len(p)) + i = 0 /\ on = "browser"
             /\ q[i].kind = "frame" => q[i] = Frame(n, (f - Len(p)) + i) /\ (f - Len(p)) + i > 0
  BY <1>1, <1>3, <1>4, <1>5 DEF HasStream, IsStream, HasClosed
<1>8. CASE x = Frame(n, e.frames) /\ e.frames = d.frames + 1
  <2>1. x.kind = "frame"
    BY <1>8 DEF Frame
  <2>2. ~HasClosed(q)
    BY <2>1, <1>3, <1>4, <1>6 DEF HasClosed
  <2>3. BeforeClosed(q) = Len(p) + 1 /\ g = f + 1
    BY <2>2, <1>1, <1>3, <1>8 DEF BeforeClosed
  <2>4. Delivered(e) = f - Len(p)
    <3>1. Delivered(e) = g - BeforeClosed(q)
      BY <1>1 DEF Delivered
    <3>2. PICK l \in Nat : l = Len(p)
      BY <1>3
    <3>3. Delivered(e) = (f + 1) - (l + 1)
      BY <3>1, <3>2, <2>3
    <3> QED BY <3>2, <3>3
  <2>5. (f - Len(p)) + (Len(p) + 1) = g /\ g > 0
    BY <2>3, <1>1, <1>3
  <2>6. IsStream(n, q, f - Len(p), e.conn = "closed", on)
    <3> SUFFICES ASSUME NEW i \in 1..Len(q)
                 PROVE  /\ q[i].kind = "closed" => i = Len(q) /\ e.conn = "closed"
                        /\ q[i].kind = "open" => (f - Len(p)) + i = 0 /\ on = "browser"
                        /\ q[i].kind = "frame" => q[i] = Frame(n, (f - Len(p)) + i) /\ (f - Len(p)) + i > 0
      BY DEF IsStream
    <3>1. CASE i \in 1..Len(p)
      BY <3>1, <1>7
    <3>2. CASE i = Len(p) + 1
      BY <3>2, <2>1, <2>5, <1>1, <1>3, <1>8
    <3> QED BY <3>1, <3>2, <1>6
  <2> QED BY <2>4, <2>6, <1>1, <1>5 DEF HasStream
<1>9. CASE x.kind = "closed" /\ e.frames = d.frames /\ e.conn = "closed"
  <2>1. Len(p) + 1 \in 1..Len(q)
    BY <1>3
  <2>2. HasClosed(q)
    BY <2>1, <1>3, <1>9 DEF HasClosed
  <2>3. BeforeClosed(q) = Len(p) /\ g = f
    BY <2>2, <1>1, <1>3, <1>9 DEF BeforeClosed
  <2>4. Delivered(e) = f - Len(p)
    BY <2>3, <1>1 DEF Delivered
  <2>5. IsStream(n, q, f - Len(p), e.conn = "closed", on)
    <3> SUFFICES ASSUME NEW i \in 1..Len(q)
                 PROVE  /\ q[i].kind = "closed" => i = Len(q) /\ e.conn = "closed"
                        /\ q[i].kind = "open" => (f - Len(p)) + i = 0 /\ on = "browser"
                        /\ q[i].kind = "frame" => q[i] = Frame(n, (f - Len(p)) + i) /\ (f - Len(p)) + i > 0
      BY DEF IsStream
    <3>1. CASE i \in 1..Len(p)
      BY <3>1, <1>7
    <3>2. CASE i = Len(p) + 1
      BY <3>2, <1>3, <1>9
    <3> QED BY <3>1, <3>2, <1>6
  <2> QED BY <2>4, <2>5, <1>1, <1>5 DEF HasStream
<1> QED BY <1>8, <1>9

-----------------------------------------------------------------------------
(* One dial takes a step *)

\* dial n becomes d; the others stay what they are to their tabs
DialTurns(n, d) ==
  /\ dials' = [dials EXCEPT ![n] = d] /\ d.tab = dials[n].tab /\ platform' = platform
  /\ \A m \in 1..Len(dials) : m # n =>
       (IsCurrent(m)' <=> IsCurrent(m)) /\ (m \in receivers' <=> m \in receivers)

LEMMA DialTurnsFacts ==
  ASSUME SocketTypes, NEW n \in 1..Len(dials), NEW d \in Dial, DialTurns(n, d)
  PROVE  /\ DialsKeepTabs /\ dials' \in Seq(Dial) /\ Len(dials') = Len(dials) /\ dials'[n] = d
         /\ \A m \in 1..Len(dials) : m # n => dials'[m] = dials[m]
<1>1. dials \in Seq(Dial) /\ dials' = [dials EXCEPT ![n] = d] /\ d.tab = dials[n].tab
  BY DEF SocketTypes, DialTurns
<1>2. dials' \in Seq(Dial) /\ Len(dials') = Len(dials) /\ dials'[n] = d
  BY <1>1
<1>3. \A m \in 1..Len(dials) : m # n => dials'[m] = dials[m]
  BY <1>1
<1>4. DialsKeepTabs
  BY <1>1, <1>2, <1>3 DEF DialsKeepTabs
<1> QED BY <1>2, <1>3, <1>4

LEMMA OneDialChanges ==
  ASSUME SocketTypes, DialInv, StreamInv, NEW n \in 1..Len(dials), NEW d \in Dial, DialTurns(n, d),
         DialIsSound(d, IsCurrent(n)', n \in receivers', platform), HasStream(n, d, platform)
  PROVE  DialInv' /\ StreamInv'
<1>1. /\ Len(dials') = Len(dials) /\ dials'[n] = d /\ platform' = platform
      /\ \A m \in 1..Len(dials) : m # n => dials'[m] = dials[m]
  BY DialTurnsFacts DEF DialTurns
<1>2. ASSUME NEW m \in 1..Len(dials)
      PROVE  DialIsSound(dials'[m], IsCurrent(m)', m \in receivers', platform)
  <2>1. CASE m = n
    BY <1>1, <2>1
  <2>2. CASE m # n
    <3>1. DialIsSound(dials[m], IsCurrent(m), m \in receivers, platform)
      BY DEF DialInv
    <3>2. (IsCurrent(m)' <=> IsCurrent(m)) /\ (m \in receivers' <=> m \in receivers)
      BY <2>2 DEF DialTurns
    <3>3. dials'[m] = dials[m]
      BY <1>1, <2>2
    <3> QED BY <3>1, <3>2, <3>3 DEF DialIsSound
  <2> QED BY <2>1, <2>2
<1>3. \A m \in 1..Len(dials) : HasStream(m, dials'[m], platform)
  BY <1>1 DEF StreamInv
<1> QED BY <1>1, <1>2, <1>3 DEF DialInv, StreamInv

LEMMA MessageKeeps ==
  ASSUME SocketTypes, MessageInv, DialsKeepTabs, UNCHANGED <<wire, outgoing>>,
         socketBudget'["message"] = socketBudget["message"],
         \A t \in SocketTabs : SessionAt(t)'.status = "open" =>
           SessionAt(t).status = "open" /\ links'[t] = links[t]
  PROVE  MessageInv'
<1>1. \A j \in 1..Len(wire) : wire[j].message # 0 =>
        wire[j].dial \in 1..Len(dials) /\ wire[j].dial \in 1..Len(dials') /\ dials'[wire[j].dial].tab = dials[wire[j].dial].tab
  BY DEF MessageInv, DialsKeepTabs
<1>2. \A t \in SocketTabs : \A i \in 1..Len(outgoing'[t]) :
        /\ outgoing'[t][i] > socketBudget'["message"]
        /\ \A j \in 1..i-1 : outgoing'[t][j] > outgoing'[t][i]
  BY DEF MessageInv
<1>3. \A j \in 1..Len(wire') : wire'[j].message # 0 =>
        /\ wire'[j].dial \in 1..Len(dials')
        /\ wire'[j].message > socketBudget'["message"]
        /\ \A i \in 1..Len(outgoing'[dials'[wire'[j].dial].tab]) :
             wire'[j].message > outgoing'[dials'[wire'[j].dial].tab][i]
  BY <1>1 DEF MessageInv
<1>4. \A t \in SocketTabs : SessionAt(t)'.status = "open" =>
        \E i \in 1..Len(wire') : wire'[i] = [dial |-> links'[t], message |-> 0]
  BY DEF MessageInv
<1>5. MessagesInOrder'
  <2> SUFFICES ASSUME NEW j \in 1..Len(wire), wire[j].message # 0
               PROVE  /\ \E i \in 1..j : wire[i] = [dial |-> wire[j].dial, message |-> 0]
                      /\ \A i \in 1..j-1 :
                           wire[i].message # 0 /\ dials'[wire[i].dial].tab = dials'[wire[j].dial].tab
                             => wire[i].message > wire[j].message
    BY DEF MessagesInOrder
  <2>1. \A i \in 1..j-1 : i \in 1..Len(wire)
    BY DEF SocketTypes
  <2> QED BY <1>1, <2>1 DEF MessageInv, MessagesInOrder
<1> QED BY <1>2, <1>3, <1>4, <1>5 DEF MessageInv

\* a step that changes nothing but a dial
LEMMA QuietStep ==
  ASSUME SocketInv, NEW n \in 1..Len(dials), NEW d \in Dial,
         dials' = [dials EXCEPT ![n] = d], d.tab = dials[n].tab,
         UNCHANGED <<openTabs, socketSessions, links, retrying, queued, outgoing, wire, platform>>,
         receivers' \subseteq 1..Len(dials), \A m \in 1..Len(dials) : m # n => (m \in receivers' <=> m \in receivers),
         socketBudget' \in [SocketUses -> Nat], socketBudget'["message"] = socketBudget["message"],
         dials[n].isReady => d.isReady,
         DialIsSound(d, IsCurrent(n), n \in receivers', platform), HasStream(n, d, platform),
         IsCurrent(n) => \/ Delivered(d) = Delivered(dials[n])
                         \/ Delivered(d) \in {-1, 0} /\ Delivered(dials[n]) \in {-1, 0}
  PROVE  SocketInv'
<1> USE DEF SocketInv
<1>0. dials \in Seq(Dial) /\ Len(dials) \in Nat
  BY DEF SocketTypes
<1>1. \A m \in 1..Len(dials) : dials'[m].tab = dials[m].tab /\ (IsCurrent(m)' <=> IsCurrent(m))
  BY <1>0 DEF IsCurrent
<1>2. DialTurns(n, d)
  BY <1>1 DEF DialTurns
<1>3. /\ DialsKeepTabs /\ dials' \in Seq(Dial) /\ Len(dials') = Len(dials) /\ dials'[n] = d
      /\ \A m \in 1..Len(dials) : m # n => dials'[m] = dials[m]
  BY <1>2, DialTurnsFacts
<1>4. DialInv' /\ StreamInv'
  <2>1. DialIsSound(d, IsCurrent(n)', n \in receivers', platform)
    BY <1>1 DEF DialIsSound
  <2> QED BY <1>2, <2>1, OneDialChanges
<1>5. SocketTypes'
  BY <1>3 DEF SocketTypes
<1>6. \A t \in SocketTabs : SessionAt(t)' = SessionAt(t)
  BY DEF SessionAt
<1>7. TabInv'
  <2> SUFFICES ASSUME NEW t \in SocketTabs
               PROVE  /\ TabIsLinked(SessionAt(t).status, links[t], t \in retrying, t \in openTabs)
                      /\ links[t] # 0 => links[t] \in 1..Len(dials') /\ dials'[links[t]].tab = t
                      /\ SessionAt(t).status = "open" => dials'[links[t]].isReady
    BY <1>6 DEF TabInv
  <2>1. /\ TabIsLinked(SessionAt(t).status, links[t], t \in retrying, t \in openTabs)
        /\ links[t] # 0 => links[t] \in 1..Len(dials) /\ dials[links[t]].tab = t
        /\ SessionAt(t).status = "open" => dials[links[t]].isReady
    BY DEF TabInv
  <2>2. SessionAt(t).status = "open" => links[t] # 0
    BY <2>1 DEF TabIsLinked
  <2>3. links[t] # 0 => links[t] \in 1..Len(dials') /\ dials'[links[t]].tab = t
    BY <2>1, <1>1, <1>3
  <2>4. SessionAt(t).status = "open" => dials'[links[t]].isReady
    BY <2>1, <2>2, <1>3
  <2> QED BY <2>1, <2>3, <2>4
<1>8. ShownInv'
  <2> SUFFICES ASSUME NEW t \in SocketTabs PROVE LogIsSound(t)'
    BY DEF ShownInv
  <2>1. LogIsSound(t) /\ (links[t] # 0 => links[t] \in 1..Len(dials) /\ (links[t] = n => IsCurrent(n)))
    BY DEF ShownInv, TabInv, IsCurrent
  <2>2. LogRests(t)
    BY <1>6 DEF LogRests, Shown
  <2>3. LinkRests(t)
    BY <2>1, <1>3 DEF LinkRests
  <2> QED BY <2>1, <2>2, <2>3, <1>3, LogKeepsSound DEF LogGoesOn
<1>9. MessageInv'
  BY <1>3, <1>6, MessageKeeps
<1> QED BY <1>4, <1>5, <1>7, <1>8, <1>9

LEMMA DialAt ==
  ASSUME SocketInv, NEW n \in 1..Len(dials)
  PROVE  /\ dials[n] \in Dial /\ DialIsSound(dials[n], IsCurrent(n), n \in receivers, platform)
         /\ HasStream(n, dials[n], platform) /\ Delivered(dials[n]) \in Int
         /\ dials[n].tab \in SocketTabs
<1>1. dials[n] \in Dial
  BY DEF SocketInv, SocketTypes
<1>2. dials[n].tab \in SocketTabs
  BY <1>1 DEF Dial
<1> QED BY <1>1, <1>2, DeliveredIsInt DEF SocketInv, DialInv, StreamInv

LEMMA FrameIsEvent == \A n \in Nat, k \in Nat : Frame(n, k) \in SocketEvent /\ Frame(n, k) \in LogEntry /\ IsFrame(Frame(n, k))
BY DEF Frame, SocketEvent, FrameEntry, LogEntry, IsFrame

\* d is the dial c with one event more on its way
HasEmitted(c, x, d) ==
  /\ d \in Dial /\ d.tab = c.tab /\ d.at = c.at /\ d.inbox = Append(c.inbox, x) /\ d.early = c.early
  /\ d.pings = c.pings /\ d.isReady = c.isReady /\ d.frames = c.frames /\ d.conn = c.conn

LEMMA EmitsFacts ==
  ASSUME NEW c \in Dial, NEW x \in SocketEvent PROVE HasEmitted(c, x, Emits(c, x))
<1>a. PICK d : d = Emits(c, x)
  OBVIOUS
<1>0. c.inbox \in Seq(SocketEvent)
  BY DialFacts
<1>1. PICK q \in Seq(SocketEvent) : q = Append(c.inbox, x)
  <2>1. \A b \in Seq(SocketEvent) : Append(b, x) \in Seq(SocketEvent)
    OBVIOUS
  <2> QED BY <1>0, <2>1
<1>2. d = [c EXCEPT !.inbox = q]
  BY <1>a, <1>1 DEF Emits
<1>3. HasEmitted(c, x, d)
  BY <1>1, <1>2 DEF Dial, HasEmitted
<1> QED BY <1>a, <1>3

LEMMA PreparedSessionKeeps ==
  ASSUME SocketInv, NEW n \in 1..Len(dials), PreparedSession(n) PROVE SocketInv'
<1>1. PICK o \in Dial : o = dials[n]
  BY DialAt
<1>2. DialIsSound(o, IsCurrent(n), n \in receivers, platform) /\ HasStream(n, o, platform)
  BY <1>1, DialAt
<1>3. PICK d : d = [o EXCEPT !.at = "opening"]
  OBVIOUS
<1>4. /\ d \in Dial /\ d.tab = o.tab /\ d.at = "opening" /\ d.conn = o.conn /\ d.inbox = o.inbox /\ d.early = o.early
      /\ d.pings = o.pings /\ d.isReady = o.isReady /\ d.frames = o.frames
  BY <1>3 DEF Dial
<1>5. dials' = [dials EXCEPT ![n] = d] /\ o.at = "preparing"
  BY <1>1, <1>3 DEF PreparedSession
<1>6. HasStream(n, d, platform) /\ Delivered(d) = Delivered(o)
  <2>1. Pending(d) = Pending(o)
    BY <1>4 DEF Pending
  <2> QED BY <1>2, <1>4, <2>1, StreamStays
<1>7. DialIsSound(d, IsCurrent(n), n \in receivers, platform)
  BY <1>2, <1>4, <1>5 DEF DialIsSound
<1>8. /\ UNCHANGED <<openTabs, socketSessions, links, retrying, queued, outgoing, wire, platform>>
      /\ receivers' = receivers /\ receivers \subseteq 1..Len(dials)
      /\ socketBudget' = socketBudget /\ socketBudget \in [SocketUses -> Nat]
  BY DEF PreparedSession, SocketInv, SocketTypes
<1> QED BY <1>1, <1>4, <1>5, <1>6, <1>7, <1>8, QuietStep

LEMMA BrowserDialsKeeps ==
  ASSUME SocketInv, NEW n \in 1..Len(dials), BrowserDials(n) PROVE SocketInv'
<1>1. PICK o \in Dial : o = dials[n]
  BY DialAt
<1>2. DialIsSound(o, IsCurrent(n), n \in receivers, platform) /\ HasStream(n, o, platform)
  BY <1>1, DialAt
<1>3. PICK d : d = [o EXCEPT !.at = "over", !.isReady = IsCurrent(n),
                             !.conn = IF IsCurrent(n) THEN "opening" ELSE "closing"]
  OBVIOUS
<1>4. /\ d \in Dial /\ d.tab = o.tab /\ d.at = "over" /\ d.inbox = o.inbox /\ d.early = o.early
      /\ d.pings = o.pings /\ d.isReady = IsCurrent(n) /\ d.frames = o.frames
      /\ d.conn = IF IsCurrent(n) THEN "opening" ELSE "closing"
  BY <1>3 DEF Dial, IsCurrent
<1>5. dials' = [dials EXCEPT ![n] = d] /\ o.at = "opening" /\ platform = "browser"
  BY <1>1, <1>3 DEF BrowserDials
<1>6. o.conn = "none" /\ ~o.isReady /\ ~o.pings /\ o.early = <<>> /\ o.inbox = <<>> /\ o.frames = 0
  BY <1>2, <1>5 DEF DialIsSound
<1>7. HasStream(n, d, platform) /\ Delivered(d) = Delivered(o)
  <2>1. Pending(d) = Pending(o)
    BY <1>4 DEF Pending
  <2> QED BY <1>2, <1>4, <1>6, <2>1, StreamStays
<1>8. DialIsSound(d, IsCurrent(n), n \in receivers \cup {n}, platform)
  BY <1>4, <1>6 DEF DialIsSound
<1>9. /\ UNCHANGED <<openTabs, socketSessions, links, retrying, queued, outgoing, wire, platform>>
      /\ receivers' = receivers \cup {n} /\ receivers' \subseteq 1..Len(dials)
      /\ socketBudget' = socketBudget /\ socketBudget \in [SocketUses -> Nat]
  BY DEF BrowserDials, SocketInv, SocketTypes
<1> QED BY <1>1, <1>4, <1>5, <1>6, <1>7, <1>8, <1>9, QuietStep

LEMMA AcceptKeeps ==
  ASSUME SocketInv, NEW n \in 1..Len(dials), Accept(n) PROVE SocketInv'
<1>1. PICK o \in Dial : o = dials[n]
  BY DialAt
<1>2. DialIsSound(o, IsCurrent(n), n \in receivers, platform) /\ HasStream(n, o, platform)
  BY <1>1, DialAt
<1>3. /\ UNCHANGED <<openTabs, socketSessions, links, retrying, queued, outgoing, wire, platform>>
      /\ receivers' = receivers /\ receivers \subseteq 1..Len(dials)
      /\ socketBudget' = socketBudget /\ socketBudget \in [SocketUses -> Nat]
  BY DEF Accept, linkVars, SocketInv, SocketTypes
<1>4. CASE platform = "desktop" /\ o.at = "opening" /\ o.conn = "none" /\ dials' = [dials EXCEPT ![n].conn = "open"]
  <2>1. PICK d : d = [o EXCEPT !.conn = "open"]
    OBVIOUS
  <2>2. /\ d \in Dial /\ d.tab = o.tab /\ d.at = o.at /\ d.inbox = o.inbox /\ d.early = o.early
        /\ d.pings = o.pings /\ d.isReady = o.isReady /\ d.frames = o.frames /\ d.conn = "open"
    BY <2>1 DEF Dial
  <2>3. dials' = [dials EXCEPT ![n] = d]
    BY <2>1, <1>1, <1>4
  <2>4. Pending(d) = Pending(o)
    BY <2>2 DEF Pending
  <2>5. HasStream(n, d, platform) /\ Delivered(d) = Delivered(o)
    BY <1>2, <1>4, <2>2, <2>4, StreamStays
  <2>6. DialIsSound(d, IsCurrent(n), n \in receivers, platform)
    BY <1>2, <1>4, <2>2 DEF DialIsSound
  <2> QED BY <1>1, <1>3, <2>2, <2>3, <2>5, <2>6, QuietStep
<1>5. CASE platform = "browser" /\ o.conn = "opening"
           /\ dials' = [dials EXCEPT ![n] = Emits([@ EXCEPT !.conn = "open"], [kind |-> "open"])]
  <2>1. PICK c, d : c = [o EXCEPT !.conn = "open"] /\ d = Emits(c, [kind |-> "open"])
    OBVIOUS
  <2>2. o.early = <<>> /\ o.inbox = <<>> /\ o.frames = 0 /\ o.at = "over"
    BY <1>2, <1>5 DEF DialIsSound, Dial
  <2>3. PICK x \in SocketEvent : x = [kind |-> "open"]
    BY DEF SocketEvent
  <2>4. /\ d \in Dial /\ d.tab = o.tab /\ d.at = o.at /\ d.inbox = <<x>> /\ d.early = <<>>
        /\ d.pings = o.pings /\ d.isReady = o.isReady /\ d.frames = 0 /\ d.conn = "open"
    <3>1. /\ c \in Dial /\ c.tab = o.tab /\ c.at = o.at /\ c.inbox = o.inbox /\ c.early = o.early
          /\ c.pings = o.pings /\ c.isReady = o.isReady /\ c.frames = o.frames /\ c.conn = "open"
      BY <2>1 DEF Dial
    <3>2. Append(o.inbox, x) = <<x>> /\ d = Emits(c, x)
      BY <2>1, <2>2, <2>3
    <3>3. HasEmitted(c, x, d)
      BY <2>2, <3>1, <3>2, EmitsFacts
    <3> QED BY <2>2, <3>1, <3>2, <3>3 DEF HasEmitted
  <2>5. dials' = [dials EXCEPT ![n] = d]
    BY <1>1, <1>5, <2>1
  <2>6. Pending(d) = <<x>> /\ Pending(o) = <<>>
    BY <2>2, <2>4 DEF Pending
  <2>7. Delivered(o) = 0 /\ Delivered(d) = -1
    <3>1. ~HasClosed(<<x>>)
      BY <2>3 DEF HasClosed
    <3>2. BeforeClosed(<<x>>) = 1 /\ BeforeClosed(<<>>) = 0
      BY <3>1 DEF BeforeClosed, HasClosed
    <3> QED BY <2>2, <2>4, <2>6, <3>2 DEF Delivered
  <2>8. HasStream(n, d, platform)
    BY <2>3, <2>6, <2>7, <1>5 DEF HasStream, IsStream
  <2>9. DialIsSound(d, IsCurrent(n), n \in receivers, platform)
    BY <1>2, <1>5, <2>2, <2>4 DEF DialIsSound
  <2> QED BY <1>1, <1>3, <2>4, <2>5, <2>7, <2>8, <2>9, QuietStep
<1> QED BY <1>1, <1>4, <1>5 DEF Accept

LEMMA ServerSendsKeeps ==
  ASSUME SocketInv, NEW n \in 1..Len(dials), ServerSends(n) PROVE SocketInv'
<1>1. PICK o \in Dial : o = dials[n]
  BY DialAt
<1>2. DialIsSound(o, IsCurrent(n), n \in receivers, platform) /\ HasStream(n, o, platform)
  BY <1>1, DialAt
<1>3. PICK x \in SocketEvent : x = Frame(n, o.frames + 1)
  <2>1. n \in Nat /\ o.frames + 1 \in Nat
    <3>1. Len(dials) \in Nat
      BY DEF SocketInv, SocketTypes
    <3>2. o.frames \in Nat
      BY DialFacts
    <3> QED BY <3>1, <3>2
  <2> QED BY <2>1, FrameIsEvent
<1>a. PICK g \in Nat : g = o.frames + 1
  <2>1. o.frames \in Nat
    BY DialFacts
  <2> QED BY <2>1
<1>b. PICK c \in Dial : /\ c = [o EXCEPT !.frames = g]
                        /\ c.tab = o.tab /\ c.at = o.at /\ c.inbox = o.inbox /\ c.early = o.early
                        /\ c.pings = o.pings /\ c.isReady = o.isReady /\ c.frames = g /\ c.conn = o.conn
  <2>1. PICK e : e = [o EXCEPT !.frames = g]
    OBVIOUS
  <2>2. /\ e \in Dial /\ e.tab = o.tab /\ e.at = o.at /\ e.inbox = o.inbox /\ e.early = o.early
        /\ e.pings = o.pings /\ e.isReady = o.isReady /\ e.frames = g /\ e.conn = o.conn
    BY <2>1 DEF Dial
  <2> QED BY <2>1, <2>2
<1>4. PICK d : d = Emits(c, x)
  OBVIOUS
<1>5. /\ d \in Dial /\ d.tab = o.tab /\ d.at = o.at /\ d.inbox = Append(o.inbox, x) /\ d.early = o.early
      /\ d.pings = o.pings /\ d.isReady = o.isReady /\ d.frames = o.frames + 1 /\ d.conn = o.conn
  <2>1. HasEmitted(c, x, d)
    BY <1>4, EmitsFacts
  <2> QED BY <1>a, <1>b, <2>1 DEF HasEmitted
<1>6. dials' = [dials EXCEPT ![n] = d] /\ o.conn = "open"
  <2>1. d = NextFrame(n)
    BY <1>1, <1>3, <1>a, <1>b, <1>4 DEF NextFrame
  <2>2. o.conn = "open"
    BY <1>1 DEF ServerSends
  <2>3. dials' = [dials EXCEPT ![n] = d]
    BY <2>1 DEF ServerSends
  <2> QED BY <2>2, <2>3
<1>7. HasStream(n, d, platform) /\ Delivered(d) = Delivered(o)
  BY <1>2, <1>3, <1>5, <1>6, StreamGrows
<1>8. DialIsSound(d, IsCurrent(n), n \in receivers, platform)
  BY <1>2, <1>5, <1>6 DEF DialIsSound
<1>9. /\ UNCHANGED <<openTabs, socketSessions, links, retrying, queued, outgoing, wire, platform>>
      /\ receivers' = receivers /\ receivers \subseteq 1..Len(dials)
  BY DEF ServerSends, linkVars, SocketInv, SocketTypes
<1>10. socketBudget' \in [SocketUses -> Nat] /\ socketBudget'["message"] = socketBudget["message"]
  BY DEF ServerSends, SpendSocket, SocketInv, SocketTypes, SocketUses
<1> QED BY <1>1, <1>5, <1>6, <1>7, <1>8, <1>9, <1>10, QuietStep

LEMMA ConnectionEndsKeeps ==
  ASSUME SocketInv, NEW n \in 1..Len(dials), ConnectionEnds(n) PROVE SocketInv'
<1>1. PICK o \in Dial : o = dials[n]
  BY DialAt
<1>2. DialIsSound(o, IsCurrent(n), n \in receivers, platform) /\ HasStream(n, o, platform)
  BY <1>1, DialAt
<1>3. PICK x \in SocketEvent : x = [kind |-> "closed"]
  BY DEF SocketEvent
<1>4. PICK c, d : c = [o EXCEPT !.conn = "closed"] /\ d = Emits(c, x)
  OBVIOUS
<1>5. /\ d \in Dial /\ d.tab = o.tab /\ d.at = o.at /\ d.inbox = Append(o.inbox, x) /\ d.early = o.early
      /\ d.pings = o.pings /\ d.isReady = o.isReady /\ d.frames = o.frames /\ d.conn = "closed"
  <2>1. /\ c \in Dial /\ c.tab = o.tab /\ c.at = o.at /\ c.inbox = o.inbox /\ c.early = o.early
        /\ c.pings = o.pings /\ c.isReady = o.isReady /\ c.frames = o.frames /\ c.conn = "closed"
    BY <1>4 DEF Dial
  <2>2. d = Emits(c, x)
    BY <1>4
  <2>3. HasEmitted(c, x, d)
    BY <2>1, <2>2, EmitsFacts
  <2> QED BY <2>1, <2>3 DEF HasEmitted
<1>6. dials' = [dials EXCEPT ![n] = d] /\ o.conn \in {"opening", "open", "closing"}
  BY <1>1, <1>3, <1>4 DEF ConnectionEnds
<1>7. HasStream(n, d, platform) /\ Delivered(d) = Delivered(o)
  BY <1>2, <1>3, <1>5, <1>6, StreamGrows
<1>8. DialIsSound(d, IsCurrent(n), n \in receivers, platform)
  BY <1>2, <1>5, <1>6 DEF DialIsSound
<1>9. /\ UNCHANGED <<openTabs, socketSessions, links, retrying, queued, outgoing, wire, platform>>
      /\ receivers' = receivers /\ receivers \subseteq 1..Len(dials)
      /\ socketBudget' = socketBudget /\ socketBudget \in [SocketUses -> Nat]
  BY DEF ConnectionEnds, linkVars, SocketInv, SocketTypes
<1> QED BY <1>1, <1>5, <1>6, <1>7, <1>8, <1>9, QuietStep

-----------------------------------------------------------------------------
(* One tab takes a step *)

OnlyTab(tab) ==
  \A t \in SocketTabs : t # tab =>
    /\ SessionAt(t)' = SessionAt(t) /\ queued'[t] = queued[t] /\ links'[t] = links[t]
    /\ t \in retrying' <=> t \in retrying
    /\ t \in openTabs' <=> t \in openTabs

OnlyItsDials(tab) == \A m \in 1..Len(dials) : dials[m].tab # tab => dials'[m] = dials[m]

TabIsSound(t) ==
  /\ TabIsLinked(SessionAt(t).status, links[t], t \in retrying, t \in openTabs)
  /\ links[t] # 0 => links[t] \in 1..Len(dials) /\ dials[links[t]].tab = t
  /\ SessionAt(t).status = "open" => dials[links[t]].isReady

LEMMA TabStep ==
  ASSUME SocketInv, SocketTypes', DialsKeepTabs, DialInv', StreamInv', MessageInv',
         NEW tab \in SocketTabs, OnlyTab(tab), OnlyItsDials(tab), TabIsSound(tab)', LogIsSound(tab)'
  PROVE  SocketInv'
<1>1. ASSUME NEW t \in SocketTabs, t # tab PROVE TabIsSound(t)' /\ LogIsSound(t)'
  <2>1. TabIsSound(t) /\ LogIsSound(t)
    BY DEF SocketInv, TabInv, ShownInv, TabIsSound
  <2>2. /\ SessionAt(t)' = SessionAt(t) /\ queued'[t] = queued[t] /\ links'[t] = links[t]
        /\ t \in retrying' <=> t \in retrying
        /\ t \in openTabs' <=> t \in openTabs
    BY <1>1 DEF OnlyTab
  <2>3. links[t] # 0 => links[t] \in 1..Len(dials) /\ dials[links[t]].tab = t /\ dials'[links[t]] = dials[links[t]]
    BY <1>1, <2>1 DEF TabIsSound, OnlyItsDials
  <2>4. SessionAt(t).status = "open" => links[t] # 0
    BY <2>1 DEF TabIsSound, TabIsLinked
  <2>5. \A m \in 1..Len(dials) : m \in 1..Len(dials')
    BY DEF DialsKeepTabs
  <2>6. TabIsSound(t)'
    <3>1. TabIsLinked(SessionAt(t).status, links[t], t \in retrying', t \in openTabs')
      BY <2>1, <2>2 DEF TabIsSound, TabIsLinked
    <3> QED BY <3>1, <2>1, <2>2, <2>3, <2>4, <2>5 DEF TabIsSound
  <2>7. LogRests(t)
    BY <2>2 DEF LogRests, Shown, SessionAt
  <2>8. LinkRests(t)
    BY <2>2, <2>3 DEF LinkRests
  <2>9. LogIsSound(t)'
    BY <2>1, <2>3, <2>7, <2>8, LogKeepsSound DEF LogGoesOn, SocketInv
  <2> QED BY <2>6, <2>9
<1>2. TabInv'
  BY <1>1 DEF TabInv, TabIsSound
<1>3. ShownInv'
  BY <1>1 DEF ShownInv
<1> QED BY <1>2, <1>3 DEF SocketInv

LEMMA ClosedFacts ==
  ASSUME NEW o \in Dial, NEW d, d = Closed(o)
  PROVE  /\ d \in Dial /\ d.tab = o.tab /\ d.at = o.at /\ d.inbox = o.inbox /\ d.early = o.early
         /\ d.pings = o.pings /\ d.isReady = o.isReady /\ d.frames = o.frames
         /\ d.conn = IF o.conn \in {"opening", "open"} THEN "closing" ELSE o.conn
BY DEF Closed, Dial

\* the dials once a tab has let go of its own: that one stops its timer and closes, and no
\* dial of the tab is current
LEMMA LetGoFacts ==
  ASSUME SocketInv, NEW tab \in SocketTabs, NEW D, D = LetGo(tab)
  PROVE  /\ D \in Seq(Dial) /\ Len(D) = Len(dials)
         /\ \A m \in 1..Len(dials) :
              /\ D[m].tab = dials[m].tab /\ (dials[m].tab # tab => D[m] = dials[m])
              /\ Delivered(D[m]) = Delivered(dials[m]) /\ HasStream(m, D[m], platform)
              /\ DialIsSound(D[m], IsCurrent(m) /\ dials[m].tab # tab, m \in receivers, platform)
<1>0. dials \in Seq(Dial) /\ Len(dials) \in Nat
  BY DEF SocketInv, SocketTypes
<1>1. ASSUME NEW m \in 1..Len(dials)
      PROVE  /\ D[m] \in Dial /\ D[m].tab = dials[m].tab /\ (dials[m].tab # tab => D[m] = dials[m])
             /\ Delivered(D[m]) = Delivered(dials[m]) /\ HasStream(m, D[m], platform)
             /\ DialIsSound(D[m], IsCurrent(m) /\ dials[m].tab # tab, m \in receivers, platform)
  <2>1. PICK o \in Dial : o = dials[m]
    BY DialAt
  <2>2. DialIsSound(o, IsCurrent(m), m \in receivers, platform) /\ HasStream(m, o, platform)
    BY <2>1, DialAt
  <2>3. CASE links[tab] # m
    <3>1. D[m] = o
      BY <2>1, <2>3 DEF LetGo
    <3>2. o.tab = tab => ~IsCurrent(m)
      BY <2>1, <2>3 DEF IsCurrent
    <3>3. DialIsSound(o, IsCurrent(m) /\ o.tab # tab, m \in receivers, platform)
      <4>1. (IsCurrent(m) /\ o.tab # tab) <=> IsCurrent(m)
        BY <3>2
      <4> QED BY <2>2, <4>1 DEF DialIsSound
    <3> QED BY <2>1, <2>2, <3>1, <3>3
  <2>4. CASE links[tab] = m
    <3>1. o.tab = tab /\ IsCurrent(m)
      <4>1. links[tab] # 0
        BY <2>4, <1>0
      <4>2. dials[links[tab]].tab = tab
        BY <4>1 DEF SocketInv, TabInv
      <4> QED BY <4>2, <2>1, <2>4 DEF IsCurrent
    <3>2. PICK p : p = [o EXCEPT !.pings = FALSE]
      OBVIOUS
    <3>3. /\ p \in Dial /\ p.tab = o.tab /\ p.at = o.at /\ p.inbox = o.inbox /\ p.early = o.early
          /\ ~p.pings /\ p.isReady = o.isReady /\ p.frames = o.frames /\ p.conn = o.conn
      BY <3>2 DEF Dial
    <3>4. PICK d : d = IF o.isReady THEN Closed(p) ELSE p
      OBVIOUS
    <3>5. D[m] = d
      BY <2>1, <2>4, <3>2, <3>4 DEF LetGo
    <3>6. /\ d \in Dial /\ d.tab = o.tab /\ d.at = o.at /\ d.inbox = o.inbox /\ d.early = o.early
          /\ ~d.pings /\ d.isReady = o.isReady /\ d.frames = o.frames
          /\ d.conn = IF o.isReady /\ o.conn \in {"opening", "open"} THEN "closing" ELSE o.conn
      BY <3>3, <3>4, ClosedFacts
    <3>7. Pending(d) = Pending(o)
      BY <3>6 DEF Pending
    <3>8. HasStream(m, d, platform) /\ Delivered(d) = Delivered(o)
      BY <2>2, <3>6, <3>7, StreamStays
    <3>9. DialIsSound(d, IsCurrent(m) /\ o.tab # tab, m \in receivers, platform)
      <4>1. o.at \in {"preparing", "opening", "over"}
        BY DEF Dial
      <4> QED BY <2>2, <3>1, <3>6, <4>1 DEF DialIsSound
    <3> QED BY <2>1, <3>1, <3>5, <3>6, <3>8, <3>9
  <2> QED BY <2>3, <2>4
<1>2. D \in Seq(Dial) /\ Len(D) = Len(dials)
  <2>1. D = [m \in 1..Len(dials) |-> D[m]]
    BY DEF LetGo
  <2> HIDE DEF LetGo
  <2>2. D \in [1..Len(dials) -> Dial]
    BY <2>1, <1>1
  <2> QED BY <2>2, <1>0
<1> QED BY <1>1, <1>2

LEMMA ReleaseKeepsDials ==
  ASSUME SocketInv, NEW tab \in SocketTabs, dials' = LetGo(tab), links' = [links EXCEPT ![tab] = 0],
         UNCHANGED <<receivers, platform>>
  PROVE  /\ dials' \in Seq(Dial) /\ Len(dials') = Len(dials) /\ links' \in [SocketTabs -> Nat] /\ links'[tab] = 0
         /\ DialsKeepTabs /\ DialInv' /\ StreamInv' /\ OnlyItsDials(tab)
         /\ \A t \in SocketTabs : t # tab => links'[t] = links[t]
<1>1. PICK D : D = LetGo(tab)
  OBVIOUS
<1>2. /\ D \in Seq(Dial) /\ Len(D) = Len(dials)
      /\ \A m \in 1..Len(dials) :
           /\ D[m].tab = dials[m].tab /\ (dials[m].tab # tab => D[m] = dials[m])
           /\ HasStream(m, D[m], platform)
           /\ DialIsSound(D[m], IsCurrent(m) /\ dials[m].tab # tab, m \in receivers, platform)
  BY <1>1, LetGoFacts
<1>3. dials' = D
  BY <1>1
<1>4. /\ links' \in [SocketTabs -> Nat] /\ links'[tab] = 0 /\ links \in [SocketTabs -> Nat]
      /\ \A t \in SocketTabs : t # tab => links'[t] = links[t]
  BY DEF SocketInv, SocketTypes
<1>5. dials \in Seq(Dial) /\ Len(dials) \in Nat
  BY DEF SocketInv, SocketTypes
<1>6. \A m \in 1..Len(dials) : IsCurrent(m)' <=> (IsCurrent(m) /\ dials[m].tab # tab)
  <2> SUFFICES ASSUME NEW m \in 1..Len(dials) PROVE IsCurrent(m)' <=> (IsCurrent(m) /\ dials[m].tab # tab)
    OBVIOUS
  <2>1. dials[m].tab \in SocketTabs /\ m # 0
    BY <1>5, DialAt
  <2> QED BY <2>1, <1>2, <1>3, <1>4 DEF IsCurrent
<1>7. DialInv'
  <2> SUFFICES ASSUME NEW m \in 1..Len(dials)
               PROVE  DialIsSound(dials'[m], IsCurrent(m)', m \in receivers, platform)
    BY <1>2, <1>3 DEF DialInv
  <2>1. DialIsSound(D[m], IsCurrent(m) /\ dials[m].tab # tab, m \in receivers, platform)
    BY <1>2
  <2> QED BY <2>1, <1>3, <1>6 DEF DialIsSound
<1>8. StreamInv'
  BY <1>2, <1>3 DEF StreamInv
<1>9. DialsKeepTabs /\ OnlyItsDials(tab)
  BY <1>2, <1>3, <1>5 DEF DialsKeepTabs, OnlyItsDials
<1> QED BY <1>2, <1>3, <1>4, <1>7, <1>8, <1>9

LEMMA NewDialFacts ==
  ASSUME NEW tab \in SocketTabs, NEW d, d = NewDial(tab), NEW n, NEW on
  PROVE  /\ d \in Dial /\ d.tab = tab /\ Delivered(d) = 0 /\ ~d.isReady
         /\ HasStream(n, d, on) /\ DialIsSound(d, TRUE, FALSE, on)
<1>1. /\ d \in Dial /\ d.tab = tab /\ d.at = "preparing" /\ d.conn = "none" /\ d.inbox = <<>> /\ d.early = <<>>
      /\ ~d.pings /\ ~d.isReady /\ d.frames = 0
  BY DEF NewDial, Dial
<1>2. Pending(d) = <<>>
  BY <1>1 DEF Pending
<1>3. BeforeClosed(<<>>) = 0
  BY DEF BeforeClosed, HasClosed
<1>4. Delivered(d) = 0
  BY <1>1, <1>2, <1>3 DEF Delivered
<1>5. HasStream(n, d, on)
  BY <1>2 DEF HasStream, IsStream
<1>6. DialIsSound(d, TRUE, FALSE, on)
  BY <1>1 DEF DialIsSound
<1> QED BY <1>1, <1>4, <1>5, <1>6

LEMMA BeginKeepsDials ==
  ASSUME SocketInv, NEW tab \in SocketTabs, dials' = Append(LetGo(tab), NewDial(tab)),
         links' = [links EXCEPT ![tab] = Len(dials) + 1], UNCHANGED <<receivers, platform>>
  PROVE  /\ dials' \in Seq(Dial) /\ Len(dials') = Len(dials) + 1 /\ Len(dials) \in Nat
         /\ links' \in [SocketTabs -> Nat] /\ links'[tab] = Len(dials) + 1
         /\ dials'[Len(dials) + 1].tab = tab /\ LinkBegins(tab)
         /\ DialsKeepTabs /\ DialInv' /\ StreamInv' /\ OnlyItsDials(tab)
         /\ \A t \in SocketTabs : t # tab => links'[t] = links[t]
<1>1. PICK D, d : D = LetGo(tab) /\ d = NewDial(tab)
  OBVIOUS
<1>2. /\ D \in Seq(Dial) /\ Len(D) = Len(dials)
      /\ \A m \in 1..Len(dials) :
           /\ D[m].tab = dials[m].tab /\ (dials[m].tab # tab => D[m] = dials[m])
           /\ HasStream(m, D[m], platform)
           /\ DialIsSound(D[m], IsCurrent(m) /\ dials[m].tab # tab, m \in receivers, platform)
  BY <1>1, LetGoFacts
<1>3. PICK l \in Nat : l = Len(dials)
  BY DEF SocketInv, SocketTypes
<1>4. /\ d \in Dial /\ d.tab = tab /\ Delivered(d) = 0
      /\ HasStream(l + 1, d, platform) /\ DialIsSound(d, TRUE, FALSE, platform)
  BY <1>1, NewDialFacts
<1>5. /\ dials' \in Seq(Dial) /\ Len(dials') = l + 1 /\ dials'[l + 1] = d
      /\ \A m \in 1..l : dials'[m] = D[m]
  <2>1. dials' = Append(D, d)
    BY <1>1
  <2> QED BY <2>1, <1>2, <1>3, <1>4
<1>6. /\ links' \in [SocketTabs -> Nat] /\ links'[tab] = l + 1 /\ links \in [SocketTabs -> Nat]
      /\ \A t \in SocketTabs : t # tab => links'[t] = links[t]
  BY <1>3 DEF SocketInv, SocketTypes
<1>7. \A m \in 1..l : IsCurrent(m)' <=> (IsCurrent(m) /\ dials[m].tab # tab)
  <2> SUFFICES ASSUME NEW m \in 1..l PROVE IsCurrent(m)' <=> (IsCurrent(m) /\ dials[m].tab # tab)
    OBVIOUS
  <2>1. dials[m].tab \in SocketTabs /\ m # l + 1
    BY <1>3, DialAt
  <2> QED BY <2>1, <1>2, <1>3, <1>5, <1>6 DEF IsCurrent
<1>8. IsCurrent(l + 1)' /\ l + 1 \notin receivers
  <2>1. receivers \subseteq 1..l
    BY <1>3 DEF SocketInv, SocketTypes
  <2> QED BY <2>1, <1>4, <1>5, <1>6 DEF IsCurrent
<1>9. \A m \in 1..l+1 : m \in 1..l \/ m = l + 1
  OBVIOUS
<1>10. DialInv'
  <2> SUFFICES ASSUME NEW m \in 1..l+1
               PROVE  DialIsSound(dials'[m], IsCurrent(m)', m \in receivers, platform)
    BY <1>5 DEF DialInv
  <2>1. CASE m \in 1..l
    <3>1. DialIsSound(D[m], IsCurrent(m) /\ dials[m].tab # tab, m \in receivers, platform)
      BY <2>1, <1>2, <1>3
    <3> QED BY <3>1, <2>1, <1>5, <1>7 DEF DialIsSound
  <2>2. CASE m = l + 1
    BY <2>2, <1>4, <1>5, <1>8 DEF DialIsSound
  <2> QED BY <2>1, <2>2, <1>9
<1>11. StreamInv'
  BY <1>2, <1>3, <1>4, <1>5, <1>9 DEF StreamInv
<1>12. DialsKeepTabs /\ OnlyItsDials(tab)
  <2>1. \A m \in 1..l : dials'[m].tab = dials[m].tab /\ (dials[m].tab # tab => dials'[m] = dials[m])
    BY <1>2, <1>3, <1>5
  <2>2. Len(dials) \in Nat /\ Len(dials') \in Nat /\ Len(dials) <= Len(dials')
    BY <1>3, <1>5
  <2> QED BY <2>1, <2>2, <1>3 DEF DialsKeepTabs, OnlyItsDials
<1>13. LinkBegins(tab)
  BY <1>3, <1>4, <1>5, <1>6 DEF LinkBegins
<1> QED BY <1>3, <1>4, <1>5, <1>6, <1>10, <1>11, <1>12, <1>13

-----------------------------------------------------------------------------
(* The actions of the user and of the timers *)

LEMMA BudgetFacts ==
  ASSUME SocketInv, NEW kind \in SocketUses, SpendSocket(kind)
  PROVE  /\ socketBudget' \in [SocketUses -> Nat] /\ socketBudget[kind] > 0
         /\ kind # "message" => socketBudget'["message"] = socketBudget["message"]
         /\ kind = "message" => socketBudget'["message"] = socketBudget["message"] - 1
<1>1. socketBudget \in [SocketUses -> Nat]
  BY DEF SocketInv, SocketTypes
<1>2. socketBudget[kind] \in Nat /\ socketBudget[kind] > 0 /\ "message" \in SocketUses
  BY <1>1 DEF SpendSocket, SocketUses
<1>3. socketBudget[kind] - 1 \in Nat
  BY <1>2
<1> QED BY <1>1, <1>2, <1>3 DEF SpendSocket

\* r is the queue q after the entries `a' were added for a tab
IsQueued(q, tab, a, r) ==
  /\ r \in [SocketTabs -> Seq(LogEntry)] /\ r[tab] = q[tab] \o a
  /\ \A t \in SocketTabs : t # tab => r[t] = q[t]

LEMMA NoteInQueue ==
  ASSUME NEW q \in [SocketTabs -> Seq(LogEntry)], NEW tab \in SocketTabs, NEW x \in LogEntry
  PROVE  IsQueued(q, tab, <<x>>, Logged(q, tab, <<x>>))
<1>1. q[tab] \in Seq(LogEntry) /\ <<x>> \in Seq(LogEntry)
  OBVIOUS
<1>2. PICK e \in Seq(LogEntry) : e = q[tab] \o <<x>>
  <2>1. q[tab] \o <<x>> \in Seq(LogEntry)
    BY <1>1
  <2> QED BY <2>1
<1> QED BY <1>2 DEF Logged, IsQueued

\* a tab lets go of its link
LEMMA ReleaseKeeps ==
  ASSUME SocketInv, NEW tab \in SocketTabs, Release(tab), UNCHANGED <<openTabs, outgoing, receivers, wire, platform>>,
         socketBudget' \in [SocketUses -> Nat], socketBudget'["message"] = socketBudget["message"],
         socketSessions' \in Sessions, OthersRest(socketSessions, socketSessions', tab),
         SessionAt(tab)'.status = "idle", KeepsLog(SessionAt(tab), SessionAt(tab)'),
         queued' = queued \/ queued' = Logged(queued, tab, <<Note>>)
  PROVE  SocketInv'
<1>1. /\ dials' \in Seq(Dial) /\ Len(dials') = Len(dials) /\ links' \in [SocketTabs -> Nat] /\ links'[tab] = 0
      /\ DialsKeepTabs /\ DialInv' /\ StreamInv' /\ OnlyItsDials(tab)
      /\ \A t \in SocketTabs : t # tab => links'[t] = links[t]
  BY ReleaseKeepsDials DEF Release
<1>2. SocketTypes /\ queued \in [SocketTabs -> Seq(LogEntry)]
  BY DEF SocketInv, SocketTypes
<1>3. /\ queued' \in [SocketTabs -> Seq(LogEntry)]
      /\ queued'[tab] = queued[tab] \/ queued'[tab] = queued[tab] \o <<Note>>
      /\ \A t \in SocketTabs : t # tab => queued'[t] = queued[t]
  <2>1. CASE queued' = queued
    BY <2>1, <1>2
  <2>2. CASE queued' = Logged(queued, tab, <<Note>>)
    BY <2>2, <1>2, NoteInQueue, NoteFacts DEF IsQueued
  <2> QED BY <2>1, <2>2
<1>4. SocketTypes'
  <2>1. retrying' \subseteq SocketTabs /\ receivers' \subseteq 1..Len(dials')
    BY <1>1, <1>2 DEF SocketTypes, Release
  <2> QED BY <2>1, <1>1, <1>2, <1>3 DEF SocketTypes, Sessions
<1>5. OnlyTab(tab)
  <2>1. \A t \in SocketTabs : t # tab => SessionAt(t)' = SessionAt(t)
    BY DEF OthersRest, SessionAt
  <2>2. retrying' = retrying \ {tab}
    BY DEF Release
  <2> QED BY <2>1, <2>2, <1>1, <1>3 DEF OnlyTab
<1>6. TabIsSound(tab)'
  BY <1>1 DEF TabIsSound, TabIsLinked, Release
<1>7. LogIsSound(tab)'
  <2>1. LogRests(tab) \/ LogIsNoted(tab)
    BY <1>2, <1>3, LogStays, NoteIsLogged, NoteFacts
  <2>2. LogIsSound(tab) /\ (links[tab] # 0 => links[tab] \in 1..Len(dials))
    BY DEF SocketInv, ShownInv, TabInv
  <2> QED BY <2>1, <2>2, <1>1, <1>2, LogKeepsSound DEF LogGoesOn
<1>8. MessageInv'
  <2>1. \A t \in SocketTabs : SessionAt(t)'.status = "open" =>
          SessionAt(t).status = "open" /\ links'[t] = links[t]
    BY <1>1, <1>5 DEF OnlyTab
  <2> QED BY <2>1, <1>1, MessageKeeps DEF SocketInv
<1> QED BY <1>1, <1>4, <1>5, <1>6, <1>7, <1>8, TabStep

\* and links to a new dial
LEMMA BeginDialKeeps ==
  ASSUME SocketInv, NEW tab \in SocketTabs, tab \in openTabs, BeginDial(tab), queued' = Logged(queued, tab, <<Note>>),
         UNCHANGED <<openTabs, outgoing, receivers, wire, platform>>,
         socketBudget' \in [SocketUses -> Nat], socketBudget'["message"] = socketBudget["message"]
  PROVE  SocketInv'
<1>1. /\ dials' \in Seq(Dial) /\ Len(dials') = Len(dials) + 1 /\ Len(dials) \in Nat
      /\ links' \in [SocketTabs -> Nat] /\ links'[tab] = Len(dials) + 1
      /\ dials'[Len(dials) + 1].tab = tab /\ LinkBegins(tab)
      /\ DialsKeepTabs /\ DialInv' /\ StreamInv' /\ OnlyItsDials(tab)
      /\ \A t \in SocketTabs : t # tab => links'[t] = links[t]
  BY BeginKeepsDials DEF BeginDial
<1>2. SocketTypes /\ queued \in [SocketTabs -> Seq(LogEntry)] /\ socketSessions \in Sessions
  BY DEF SocketInv, SocketTypes, Sessions
<1>3. /\ queued' \in [SocketTabs -> Seq(LogEntry)] /\ queued'[tab] = queued[tab] \o <<Note>>
      /\ \A t \in SocketTabs : t # tab => queued'[t] = queued[t]
  BY <1>2, NoteInQueue, NoteFacts DEF IsQueued
<1>4. /\ socketSessions' \in Sessions /\ OthersRest(socketSessions, socketSessions', tab)
      /\ SessionAt(tab)'.status = "connecting" /\ KeepsLog(SessionAt(tab), SessionAt(tab)')
  BY <1>2, StatusFacts DEF BeginDial, SessionAt, StatusIs
<1>5. SocketTypes'
  <2>1. retrying' \subseteq SocketTabs /\ receivers' \subseteq 1..Len(dials')
    BY <1>1, <1>2 DEF SocketTypes, BeginDial
  <2> QED BY <2>1, <1>1, <1>2, <1>3, <1>4 DEF SocketTypes, Sessions
<1>6. OnlyTab(tab)
  <2>1. \A t \in SocketTabs : t # tab => SessionAt(t)' = SessionAt(t)
    BY <1>4 DEF OthersRest, SessionAt
  <2>2. retrying' = retrying \ {tab}
    BY DEF BeginDial
  <2> QED BY <2>1, <2>2, <1>1, <1>3 DEF OnlyTab
<1>7. TabIsSound(tab)'
  <2>1. links'[tab] # 0 /\ links'[tab] \in 1..Len(dials') /\ tab \notin retrying'
    BY <1>1 DEF BeginDial
  <2> QED BY <2>1, <1>1, <1>4 DEF TabIsSound, TabIsLinked
<1>8. LogIsSound(tab)'
  <2>1. LogIsNoted(tab)
    BY <1>2, <1>3, <1>4, NoteIsLogged, NoteFacts
  <2>2. LogIsSound(tab) /\ (links[tab] # 0 => links[tab] \in 1..Len(dials))
    BY DEF SocketInv, ShownInv, TabInv
  <2> QED BY <2>1, <2>2, <1>1, <1>2, LogKeepsSound DEF LogGoesOn
<1>9. MessageInv'
  <2>1. \A t \in SocketTabs : SessionAt(t)'.status = "open" =>
          SessionAt(t).status = "open" /\ links'[t] = links[t]
    BY <1>1, <1>4, <1>6 DEF OnlyTab
  <2> QED BY <2>1, <1>1, MessageKeeps DEF SocketInv
<1> QED BY <1>1, <1>5, <1>6, <1>7, <1>8, <1>9, TabStep

LEMMA CannotResolveKeeps ==
  ASSUME SocketInv, NEW tab \in SocketTabs, Release(tab), socketSessions' = Status(socketSessions, tab, "idle"),
         UNCHANGED <<openTabs, outgoing, receivers, wire, platform>>,
         socketBudget' \in [SocketUses -> Nat], socketBudget'["message"] = socketBudget["message"],
         queued' = queued \/ queued' = Logged(queued, tab, <<Note>>)
  PROVE  SocketInv'
<1>1. socketSessions \in Sessions
  BY DEF SocketInv, SocketTypes, Sessions
<1>2. /\ socketSessions' \in Sessions /\ OthersRest(socketSessions, socketSessions', tab)
      /\ SessionAt(tab)'.status = "idle" /\ KeepsLog(SessionAt(tab), SessionAt(tab)')
  BY <1>1, StatusFacts DEF SessionAt, StatusIs
<1> QED BY <1>2, ReleaseKeeps

LEMMA ConnectKeeps ==
  ASSUME SocketInv, NEW tab \in SocketTabs, Connect(tab) PROVE SocketInv'
<1>1. socketBudget' \in [SocketUses -> Nat] /\ socketBudget'["message"] = socketBudget["message"]
  BY BudgetFacts DEF Connect, SocketUses
<1>2. CASE BeginDial(tab)
  BY <1>1, <1>2, BeginDialKeeps DEF Connect
<1>3. CASE CannotResolve(tab)
  BY <1>1, <1>3, CannotResolveKeeps DEF Connect, CannotResolve
<1> QED BY <1>2, <1>3 DEF Connect

LEMMA RetryKeeps ==
  ASSUME SocketInv, NEW tab \in SocketTabs, Retry(tab) PROVE SocketInv'
<1>1. socketBudget' \in [SocketUses -> Nat] /\ socketBudget'["message"] = socketBudget["message"]
  BY DEF Retry, SocketInv, SocketTypes
<1>2. tab \in openTabs
  BY DEF Retry, SocketInv, TabInv, TabIsLinked
<1>3. CASE BeginDial(tab)
  BY <1>1, <1>2, <1>3, BeginDialKeeps DEF Retry
<1>4. CASE CannotResolve(tab)
  BY <1>1, <1>2, <1>4, CannotResolveKeeps DEF Retry, CannotResolve
<1> QED BY <1>2, <1>3, <1>4 DEF Retry

LEMMA PressDisconnectKeeps ==
  ASSUME SocketInv, NEW tab \in SocketTabs, PressDisconnect(tab) PROVE SocketInv'
<1>1. socketBudget' \in [SocketUses -> Nat] /\ socketBudget'["message"] = socketBudget["message"]
  BY BudgetFacts DEF PressDisconnect, SocketUses
<1> QED BY <1>1, CannotResolveKeeps DEF PressDisconnect, Disconnect

\* a step of a session or of a log: no dial and no link changes
StillDials == UNCHANGED <<dials, links, receivers, platform>>

LEMMA StillDialsFacts ==
  ASSUME SocketInv, StillDials
  PROVE  /\ DialInv' /\ StreamInv' /\ DialsKeepTabs
         /\ \A t \in SocketTabs : OnlyItsDials(t) /\ LinkRests(t)
<1>1. Len(dials) \in Nat
  BY DEF SocketInv, SocketTypes
<1>2. DialInv'
  BY DEF SocketInv, DialInv, StillDials, IsCurrent
<1>3. StreamInv'
  BY DEF SocketInv, StreamInv, StillDials
<1> QED BY <1>1, <1>2, <1>3 DEF StillDials, DialsKeepTabs, OnlyItsDials, LinkRests

\* the session changes its log, its draft or its switch and keeps its status
LEMMA SessionStep ==
  ASSUME SocketInv, StillDials, NEW tab \in SocketTabs, UNCHANGED <<openTabs, retrying>>, SocketTypes', MessageInv',
         OthersRest(socketSessions, socketSessions', tab), SessionAt(tab)'.status = SessionAt(tab).status,
         \A t \in SocketTabs : t # tab => queued'[t] = queued[t],
         LogGoesOn(tab) \/ LogIsSound(tab)'
  PROVE  SocketInv'
<1>1. /\ DialInv' /\ StreamInv' /\ DialsKeepTabs
      /\ \A t \in SocketTabs : OnlyItsDials(t) /\ LinkRests(t)
  BY StillDialsFacts
<1>2. OnlyTab(tab)
  BY DEF OnlyTab, OthersRest, SessionAt, StillDials
<1>3. TabIsSound(tab)'
  BY DEF SocketInv, TabInv, TabIsSound, StillDials
<1>4. LogIsSound(tab)'
  <2>1. LogIsSound(tab) /\ (links[tab] # 0 => links[tab] \in 1..Len(dials))
    BY DEF SocketInv, ShownInv, TabInv
  <2> QED BY <2>1, <1>1, LogKeepsSound DEF SocketInv
<1> QED BY <1>1, <1>2, <1>3, <1>4, TabStep

LEMMA SameStatus ==
  ASSUME SocketInv, StillDials, UNCHANGED <<wire, outgoing>>,
         socketBudget'["message"] = socketBudget["message"],
         \A t \in SocketTabs : SessionAt(t)'.status = SessionAt(t).status
  PROVE  MessageInv'
<1>1. DialsKeepTabs /\ links' = links
  BY StillDialsFacts DEF StillDials
<1> QED BY <1>1, MessageKeeps DEF SocketInv

\* patchSession of a switch
LEMMA PatchFacts ==
  ASSUME NEW s \in Session, NEW b \in BOOLEAN, NEW u, u = [s EXCEPT !.auto = b] \/ u = [s EXCEPT !.draft = b]
  PROVE  u \in Session /\ u.status = s.status /\ KeepsLog(s, u)
BY DEF Session, KeepsLog

LEMMA SessionIsPatched ==
  \A all \in Sessions, s \in Session : \A tab \in SocketTabs : \A new : new = [all EXCEPT ![tab] = s] =>
    new \in Sessions /\ SessionOfTab(new, tab) = s /\ OthersRest(all, new, tab)
<1> SUFFICES ASSUME NEW all \in Sessions, NEW s \in Session, NEW tab \in SocketTabs, NEW new, new = [all EXCEPT ![tab] = s]
             PROVE  new \in Sessions /\ SessionOfTab(new, tab) = s /\ OthersRest(all, new, tab)
  OBVIOUS
<1>1. IsPatched(all, tab, s, new)
  BY OneSessionChanges
<1> QED BY <1>1 DEF IsPatched

LEMMA PatchKeeps ==
  ASSUME SocketInv, StillDials, NEW tab \in SocketTabs,
         UNCHANGED <<openTabs, retrying, queued, outgoing, wire>>,
         socketBudget' \in [SocketUses -> Nat], socketBudget'["message"] = socketBudget["message"],
         socketSessions' \in Sessions, OthersRest(socketSessions, socketSessions', tab),
         SessionAt(tab)'.status = SessionAt(tab).status, KeepsLog(SessionAt(tab), SessionAt(tab)')
  PROVE  SocketInv'
<1>1. SocketTypes'
  BY DEF SocketInv, SocketTypes, StillDials, Sessions
<1>2. MessageInv'
  <2>1. \A t \in SocketTabs : SessionAt(t)'.status = SessionAt(t).status
    BY DEF OthersRest, SessionAt
  <2> QED BY <2>1, SameStatus
<1>3. LogGoesOn(tab)
  BY LogStays DEF SocketInv, LogGoesOn
<1> QED BY <1>1, <1>2, <1>3, SessionStep

LEMMA SetAutoReconnectKeeps ==
  ASSUME SocketInv, NEW tab \in SocketTabs, SetAutoReconnect(tab) PROVE SocketInv'
<1>1. PICK s \in Session : s = SessionAt(tab)
  BY SessionAtFacts DEF SocketInv
<1>2. PICK b \in BOOLEAN : b = ~s.auto
  OBVIOUS
<1>3. PICK u : u = [s EXCEPT !.auto = b]
  OBVIOUS
<1>4. u \in Session /\ u.status = s.status /\ KeepsLog(s, u)
  BY <1>3, PatchFacts
<1>5. PICK all : all = [socketSessions EXCEPT ![tab] = u]
  OBVIOUS
<1>6. socketSessions \in Sessions
  BY DEF SocketInv, SocketTypes, Sessions
<1>7. all \in Sessions /\ SessionOfTab(all, tab) = u /\ OthersRest(socketSessions, all, tab)
  <2>1. u \in Session
    BY <1>4
  <2> QED BY <2>1, <1>5, <1>6, SessionIsPatched
<1>8. socketBudget' \in [SocketUses -> Nat] /\ socketBudget'["message"] = socketBudget["message"]
  BY BudgetFacts DEF SetAutoReconnect, SocketUses
<1>9. UNCHANGED <<openTabs, outgoing, receivers, wire, platform>>
  BY DEF SetAutoReconnect
<1>10. \/ /\ Release(tab) /\ socketSessions' = Status(all, tab, "idle")
          /\ queued' = Logged(queued, tab, <<Note>>)
       \/ socketSessions' = all /\ UNCHANGED <<links, retrying, dials, queued>>
  <2>1. all = [socketSessions EXCEPT ![tab] = [SessionOfTab(socketSessions, tab) EXCEPT !.auto = ~SessionOfTab(socketSessions, tab).auto]]
    BY <1>1, <1>2, <1>3, <1>5 DEF SessionAt
  <2> QED BY <2>1 DEF SetAutoReconnect
<1>11. CASE socketSessions' = all /\ UNCHANGED <<links, retrying, dials, queued>>
  <2>1. SessionAt(tab)'.status = SessionAt(tab).status /\ KeepsLog(SessionAt(tab), SessionAt(tab)')
    BY <1>1, <1>4, <1>7, <1>11 DEF SessionAt
  <2> QED BY <2>1, <1>7, <1>8, <1>9, <1>11, PatchKeeps DEF StillDials
<1>12. CASE Release(tab) /\ socketSessions' = Status(all, tab, "idle") /\ queued' = Logged(queued, tab, <<Note>>)
  <2>1. PICK new : new = Status(all, tab, "idle")
    OBVIOUS
  <2>2. /\ new \in Sessions /\ OthersRest(all, new, tab) /\ SessionOfTab(new, tab).status = "idle"
        /\ KeepsLog(u, SessionOfTab(new, tab))
    BY <2>1, <1>7, StatusFacts DEF StatusIs
  <2>3. OthersRest(socketSessions, new, tab) /\ KeepsLog(s, SessionOfTab(new, tab))
    BY <2>2, <1>4, <1>7 DEF OthersRest, KeepsLog
  <2>4. socketSessions' = new
    BY <2>1, <1>12
  <2>5. /\ socketSessions' \in Sessions /\ OthersRest(socketSessions, socketSessions', tab)
        /\ SessionAt(tab)'.status = "idle" /\ KeepsLog(SessionAt(tab), SessionAt(tab)')
    BY <2>2, <2>3, <2>4, <1>1 DEF SessionAt
  <2> QED BY <2>5, <1>8, <1>9, <1>12, ReleaseKeeps
<1> QED BY <1>10, <1>11, <1>12

LEMMA SetDraftKeeps ==
  ASSUME SocketInv, NEW tab \in SocketTabs, SetDraft(tab) PROVE SocketInv'
<1>1. PICK s \in Session : s = SessionAt(tab)
  BY SessionAtFacts DEF SocketInv
<1>2. PICK u : u = [s EXCEPT !.draft = TRUE]
  OBVIOUS
<1>3. u \in Session /\ u.status = s.status /\ KeepsLog(s, u)
  BY <1>2, PatchFacts
<1>4. socketSessions' = [socketSessions EXCEPT ![tab] = u] /\ socketSessions \in Sessions
  BY <1>1, <1>2 DEF SetDraft, SessionAt, SocketInv, SocketTypes, Sessions
<1>5. socketSessions' \in Sessions /\ SessionAt(tab)' = u /\ OthersRest(socketSessions, socketSessions', tab)
  <2>1. u \in Session
    BY <1>3
  <2>2. PICK all : all = [socketSessions EXCEPT ![tab] = u]
    OBVIOUS
  <2>3. all \in Sessions /\ SessionOfTab(all, tab) = u /\ OthersRest(socketSessions, all, tab)
    BY <2>1, <2>2, <1>4, SessionIsPatched
  <2> QED BY <2>2, <2>3, <1>4 DEF SessionAt
<1>6. socketBudget' = socketBudget /\ socketBudget \in [SocketUses -> Nat]
  BY DEF SetDraft, SocketInv, SocketTypes
<1> QED BY <1>1, <1>3, <1>5, <1>6, PatchKeeps DEF SetDraft, StillDials

\* an empty log
LEMMA EmptyLogIsSound ==
  ASSUME NEW t \in SocketTabs, Shown(t)' = <<>>, links'[t] = 0 \/ ~IsWhole(SessionAt(t))'
  PROVE  LogIsSound(t)'
<1>1. \A i : i \notin 1..Len(<<>>)
  OBVIOUS
<1>2. AreOfTab(<<>>, t)'
  BY <1>1 DEF AreOfTab
<1>3. \A w : IsOrdered(<<>>) /\ HasNoGap(<<>>, w) /\ ~HasFrames(<<>>)
  BY <1>1 DEF IsOrdered, HasNoGap, HasFrames
<1>4. \A n, k, w : ~w => MayGoOn(<<>>, n, k, w)
  BY <1>1, <1>3 DEF MayGoOn
<1> QED BY <1>2, <1>3, <1>4 DEF LogIsSound

LEMMA ClearLogKeeps ==
  ASSUME SocketInv, NEW tab \in SocketTabs, ClearLog(tab) PROVE SocketInv'
<1>1. PICK s \in Session : s = SessionAt(tab)
  BY SessionAtFacts DEF SocketInv
<1>2. PICK u : u = [s EXCEPT !.entries = <<>>, !.dropped = 0, !.cleared = TRUE]
  OBVIOUS
<1>3. u \in Session /\ u.status = s.status /\ u.entries = <<>> /\ u.cleared
  <2>1. <<>> \in Seq(LogEntry)
    OBVIOUS
  <2> QED BY <2>1, <1>2 DEF Session
<1>4. socketSessions' = [socketSessions EXCEPT ![tab] = u] /\ socketSessions \in Sessions
  BY <1>1, <1>2 DEF ClearLog, SessionAt, SocketInv, SocketTypes, Sessions
<1>5. socketSessions' \in Sessions /\ SessionAt(tab)' = u /\ OthersRest(socketSessions, socketSessions', tab)
  <2>1. u \in Session
    BY <1>3
  <2>2. PICK all : all = [socketSessions EXCEPT ![tab] = u]
    OBVIOUS
  <2>3. all \in Sessions /\ SessionOfTab(all, tab) = u /\ OthersRest(socketSessions, all, tab)
    BY <2>1, <2>2, <1>4, SessionIsPatched
  <2> QED BY <2>2, <2>3, <1>4 DEF SessionAt
<1>6. socketBudget' \in [SocketUses -> Nat] /\ socketBudget'["message"] = socketBudget["message"]
  BY BudgetFacts DEF ClearLog, SocketUses
<1>7. /\ queued' \in [SocketTabs -> Seq(LogEntry)] /\ queued'[tab] = <<>>
      /\ \A t \in SocketTabs : t # tab => queued'[t] = queued[t]
  BY DEF ClearLog, SocketInv, SocketTypes
<1>8. StillDials /\ UNCHANGED <<openTabs, retrying, outgoing, wire>>
  BY DEF ClearLog, StillDials
<1>9. SocketTypes'
  BY <1>5, <1>6, <1>7, <1>8 DEF SocketInv, SocketTypes, StillDials, Sessions
<1>10. MessageInv'
  <2>1. \A t \in SocketTabs : SessionAt(t)'.status = SessionAt(t).status
    BY <1>1, <1>3, <1>5 DEF OthersRest, SessionAt
  <2> QED BY <2>1, <1>6, <1>8, SameStatus
<1>11. LogIsSound(tab)'
  <2>1. Shown(tab)' = <<>> \o <<>>
    BY <1>3, <1>5, <1>7 DEF Shown, SessionAt
  <2>2. <<>> \o <<>> = <<>>
    OBVIOUS
  <2>3. ~IsWhole(SessionAt(tab))'
    BY <1>3, <1>5 DEF IsWhole
  <2> QED BY <2>1, <2>2, <2>3, EmptyLogIsSound
<1> QED BY <1>1, <1>3, <1>5, <1>7, <1>8, <1>9, <1>10, <1>11, SessionStep

-----------------------------------------------------------------------------
(* Messages, the flush of the log and closed tabs *)

LEMMA MessageFacts ==
  ASSUME SocketInv, NEW t \in SocketTabs
  PROVE  /\ outgoing[t] \in Seq(Nat) /\ Len(outgoing[t]) \in Nat /\ socketBudget["message"] \in Nat
         /\ \A i \in 1..Len(outgoing[t]) : outgoing[t][i] \in Nat
         /\ wire \in Seq([dial : Nat, message : Nat]) /\ Len(wire) \in Nat
         /\ \A j \in 1..Len(wire) : wire[j] \in [dial : Nat, message : Nat] /\ wire[j].message \in Nat
<1>1. outgoing[t] \in Seq(Nat) /\ socketBudget["message"] \in Nat /\ wire \in Seq([dial : Nat, message : Nat])
  BY DEF SocketInv, SocketTypes, SocketUses
<1>2. Len(outgoing[t]) \in Nat /\ \A i \in 1..Len(outgoing[t]) : outgoing[t][i] \in Nat
  BY <1>1, ElementOfSeq, LenProperties
<1>3. Len(wire) \in Nat /\ \A j \in 1..Len(wire) : wire[j] \in [dial : Nat, message : Nat]
  <2>1. \A S : \A w \in Seq(S) : Len(w) \in Nat /\ \A j \in 1..Len(w) : w[j] \in S
    OBVIOUS
  <2> QED BY <1>1, <2>1
<1>4. \A j \in 1..Len(wire) : wire[j].message \in Nat
  BY <1>3
<1> QED BY <1>1, <1>2, <1>3, <1>4

\* what is said of the messages before a step, one by one
LEMMA MessageInvFacts ==
  ASSUME SocketInv
  PROVE  /\ \A t \in SocketTabs : \A i \in 1..Len(outgoing[t]) :
              /\ outgoing[t][i] > socketBudget["message"]
              /\ \A j \in 1..i-1 : outgoing[t][j] > outgoing[t][i]
         /\ \A j \in 1..Len(wire) : wire[j].message # 0 =>
              /\ wire[j].dial \in 1..Len(dials) /\ dials[wire[j].dial].tab \in SocketTabs
              /\ wire[j].message > socketBudget["message"]
              /\ \A t \in SocketTabs : dials[wire[j].dial].tab = t =>
                   \A i \in 1..Len(outgoing[t]) : wire[j].message > outgoing[t][i]
         /\ \A t \in SocketTabs : SessionAt(t).status = "open" =>
              \E i \in 1..Len(wire) : wire[i] = [dial |-> links[t], message |-> 0]
         /\ MessagesInOrder
<1>1. MessageInv
  BY DEF SocketInv
<1>2. \A n \in 1..Len(dials) : dials[n].tab \in SocketTabs
  BY DialAt
<1> QED BY <1>1, <1>2 DEF MessageInv

LEMMA SendMessageKeeps ==
  ASSUME SocketInv, NEW tab \in SocketTabs, SendMessage(tab) PROVE SocketInv'
<1>1. PICK s \in Session : s = SessionAt(tab)
  BY SessionAtFacts DEF SocketInv
<1>2. socketSessions[tab] = s /\ socketSessions \in Sessions
  <2>1. s.status = "open" /\ socketSessions \in Sessions
    BY <1>1 DEF SendMessage, OpenSession, SessionAt, SocketInv, SocketTypes, Sessions
  <2>2. IdleSession.status = "idle"
    BY DEF IdleSession
  <2> QED BY <1>1, <2>1, <2>2 DEF SessionAt, SessionOfTab
<1>3. PICK u : u = [s EXCEPT !.draft = FALSE]
  OBVIOUS
<1>4. u \in Session /\ u.status = s.status /\ KeepsLog(s, u)
  BY <1>3, PatchFacts
<1>5. socketSessions' = [socketSessions EXCEPT ![tab] = u]
  BY <1>2, <1>3 DEF SendMessage
<1>6. socketSessions' \in Sessions /\ SessionAt(tab)' = u /\ OthersRest(socketSessions, socketSessions', tab)
  <2>1. u \in Session
    BY <1>4
  <2>2. PICK all : all = [socketSessions EXCEPT ![tab] = u]
    OBVIOUS
  <2>3. all \in Sessions /\ SessionOfTab(all, tab) = u /\ OthersRest(socketSessions, all, tab)
    BY <2>1, <2>2, <1>2, SessionIsPatched
  <2> QED BY <2>2, <2>3, <1>5 DEF SessionAt
<1>7. PICK b \in Nat : b = socketBudget["message"]
  BY MessageFacts
<1>8. socketBudget' \in [SocketUses -> Nat] /\ b > 0 /\ socketBudget'["message"] = b - 1
  BY <1>7, BudgetFacts DEF SendMessage, SocketUses
<1>9. PICK o \in Seq(Nat) : o = outgoing[tab]
  BY MessageFacts
<1>10. PICK p : p = Append(o, b)
  OBVIOUS
<1>11. p \in Seq(Nat) /\ Len(p) = Len(o) + 1 /\ Len(o) \in Nat /\ p[Len(o) + 1] = b /\ \A i \in 1..Len(o) : p[i] = o[i]
  BY <1>10
<1>12. /\ outgoing' \in [SocketTabs -> Seq(Nat)] /\ outgoing'[tab] = p
       /\ \A t \in SocketTabs : t # tab => outgoing'[t] = outgoing[t]
  <2>1. outgoing' = [outgoing EXCEPT ![tab] = p] /\ outgoing \in [SocketTabs -> Seq(Nat)]
    BY <1>7, <1>9, <1>10 DEF SendMessage, Chained, SocketInv, SocketTypes
  <2> QED BY <2>1, <1>11
<1>13. StillDials /\ UNCHANGED <<openTabs, retrying, queued, wire>>
  BY DEF SendMessage, StillDials
<1>14. SocketTypes'
  BY <1>6, <1>8, <1>12, <1>13 DEF SocketInv, SocketTypes, StillDials, Sessions
<1>15. MessageInv'
  <2>1. ASSUME NEW t \in SocketTabs, NEW i \in 1..Len(outgoing'[t])
        PROVE  outgoing'[t][i] > b - 1 /\ \A j \in 1..i-1 : outgoing'[t][j] > outgoing'[t][i]
    <3>1. CASE t # tab
      <4>1. i \in 1..Len(outgoing[t]) /\ outgoing'[t] = outgoing[t] /\ outgoing[t][i] \in Nat
        BY <3>1, <2>1, <1>12, MessageFacts
      <4>2. outgoing[t][i] > b /\ \A j \in 1..i-1 : outgoing[t][j] > outgoing[t][i]
        BY <4>1, <1>7, MessageInvFacts
      <4> QED BY <4>1, <4>2, <1>7
    <3>2. CASE t = tab
      <4>1. \A j \in 1..Len(o) : o[j] \in Nat /\ o[j] > b /\ \A h \in 1..j-1 : o[h] > o[j]
        BY <1>7, <1>9, MessageFacts, MessageInvFacts
      <4>2. CASE i \in 1..Len(o)
        <5>1. \A j \in 1..i-1 : j \in 1..Len(o)
          BY <4>2, <1>11
        <5>2. p[i] = o[i] /\ \A j \in 1..i-1 : p[j] = o[j]
          BY <4>2, <5>1, <1>11
        <5>3. o[i] > b - 1 /\ \A j \in 1..i-1 : o[j] > o[i]
          BY <4>1, <4>2
        <5> QED BY <3>2, <5>2, <5>3, <1>12
      <4>3. CASE i = Len(o) + 1
        <5>1. \A j \in 1..i-1 : j \in 1..Len(o)
          BY <4>3, <1>11
        <5> QED BY <3>2, <4>1, <4>3, <5>1, <1>7, <1>11, <1>12
      <4>4. i \in 1..Len(o) \/ i = Len(o) + 1
        BY <3>2, <2>1, <1>11, <1>12
      <4> QED BY <4>2, <4>3, <4>4
    <3> QED BY <3>1, <3>2
  <2>2. ASSUME NEW j \in 1..Len(wire), wire[j].message # 0
        PROVE  /\ wire[j].dial \in 1..Len(dials) /\ wire[j].message > b - 1
               /\ \A i \in 1..Len(outgoing'[dials[wire[j].dial].tab]) :
                    wire[j].message > outgoing'[dials[wire[j].dial].tab][i]
    <3>1. /\ wire[j].dial \in 1..Len(dials) /\ dials[wire[j].dial].tab \in SocketTabs
          /\ wire[j].message \in Nat /\ wire[j].message > b
      BY <2>2, <1>7, MessageInvFacts, MessageFacts
    <3>2. PICK t \in SocketTabs : t = dials[wire[j].dial].tab
      BY <3>1
    <3>3. \A i \in 1..Len(outgoing[t]) : wire[j].message > outgoing[t][i]
      BY <2>2, <3>2, MessageInvFacts
    <3>4. \A i \in 1..Len(outgoing'[t]) : wire[j].message > outgoing'[t][i]
      <4>1. CASE t # tab
        BY <3>3, <4>1, <1>12
      <4>2. CASE t = tab
        <5>1. \A i \in 1..Len(p) : i \in 1..Len(o) \/ i = Len(o) + 1
          BY <1>11
        <5> QED BY <3>1, <3>3, <4>2, <5>1, <1>9, <1>11, <1>12
      <4> QED BY <4>1, <4>2
    <3> QED BY <3>1, <3>2, <3>4, <1>7
  <2>3. \A t \in SocketTabs : SessionAt(t)'.status = SessionAt(t).status
    BY <1>1, <1>4, <1>6 DEF OthersRest, SessionAt
  <2>4. \A t \in SocketTabs : SessionAt(t)'.status = "open" =>
          \E i \in 1..Len(wire) : wire[i] = [dial |-> links[t], message |-> 0]
    BY <2>3, MessageInvFacts
  <2>5. MessagesInOrder'
    BY <1>13, MessageInvFacts DEF MessagesInOrder, StillDials
  <2> QED BY <2>1, <2>2, <2>4, <2>5, <1>8, <1>13 DEF MessageInv, StillDials
<1>16. LogGoesOn(tab)
  <2>1. KeepsLog(SessionAt(tab), SessionAt(tab)') /\ queued' = queued
    BY <1>1, <1>4, <1>6, <1>13
  <2> QED BY <2>1, LogStays DEF SocketInv, LogGoesOn
<1> QED BY <1>1, <1>4, <1>6, <1>13, <1>14, <1>15, <1>16, SessionStep

\* the messages of a tab without their first
LEMMA FirstMessageLeaves ==
  ASSUME SocketInv, NEW tab \in SocketTabs, outgoing[tab] # <<>>, outgoing' = [outgoing EXCEPT ![tab] = Tail(@)],
         UNCHANGED <<dials, socketBudget>>, NEW m, m = Head(outgoing[tab])
  PROVE  /\ m \in Nat /\ m > socketBudget["message"] /\ m # 0 /\ outgoing' \in [SocketTabs -> Seq(Nat)]
         /\ \A t \in SocketTabs : \A i \in 1..Len(outgoing'[t]) :
              /\ outgoing'[t][i] > socketBudget'["message"]
              /\ \A j \in 1..i-1 : outgoing'[t][j] > outgoing'[t][i]
         /\ \A i \in 1..Len(outgoing'[tab]) : m > outgoing'[tab][i]
         /\ \A j \in 1..Len(wire) : wire[j].message # 0 =>
              /\ \A i \in 1..Len(outgoing'[dials[wire[j].dial].tab]) :
                   wire[j].message > outgoing'[dials[wire[j].dial].tab][i]
              /\ dials[wire[j].dial].tab = tab => wire[j].message > m
<1>1. PICK o \in Seq(Nat), b \in Nat : o = outgoing[tab] /\ b = socketBudget["message"]
  BY MessageFacts
<1>2. PICK p : p = Tail(o)
  OBVIOUS
<1>3. /\ Len(o) \in Nat /\ Len(o) > 0 /\ m = o[1] /\ p \in Seq(Nat) /\ Len(p) = Len(o) - 1
      /\ \A i \in 1..Len(p) : p[i] = o[i + 1]
  BY <1>1, <1>2
<1>4. \A i \in 1..Len(p) : i + 1 \in 1..Len(o) /\ 1 \in 1..(i + 1) - 1 /\ \A j \in 1..i-1 : j + 1 \in 1..(i + 1) - 1 /\ j \in 1..Len(p)
  BY <1>3
<1>5. 1 \in 1..Len(o)
  BY <1>3
<1>6. \A i \in 1..Len(o) : o[i] \in Nat /\ o[i] > b /\ \A j \in 1..i-1 : o[j] > o[i]
  BY <1>1, MessageFacts, MessageInvFacts
<1>7. /\ outgoing' \in [SocketTabs -> Seq(Nat)] /\ outgoing'[tab] = p
      /\ \A t \in SocketTabs : t # tab => outgoing'[t] = outgoing[t]
  <2>1. outgoing' = [outgoing EXCEPT ![tab] = p] /\ outgoing \in [SocketTabs -> Seq(Nat)]
    BY <1>1, <1>2 DEF SocketInv, SocketTypes
  <2> QED BY <2>1, <1>3
<1>8. m \in Nat /\ m > b /\ m # 0
  BY <1>1, <1>3, <1>5, <1>6
<1>9. \A i \in 1..Len(p) : p[i] > b /\ m > p[i] /\ \A j \in 1..i-1 : p[j] > p[i]
  BY <1>3, <1>4, <1>6
<1>10. ASSUME NEW t \in SocketTabs, NEW i \in 1..Len(outgoing'[t])
       PROVE  outgoing'[t][i] > b /\ \A j \in 1..i-1 : outgoing'[t][j] > outgoing'[t][i]
  <2>1. CASE t # tab
    BY <2>1, <1>1, <1>7, <1>10, MessageInvFacts
  <2>2. CASE t = tab
    BY <2>2, <1>7, <1>9, <1>10
  <2> QED BY <2>1, <2>2
<1>11. ASSUME NEW j \in 1..Len(wire), wire[j].message # 0
       PROVE  /\ \A i \in 1..Len(outgoing'[dials[wire[j].dial].tab]) :
                   wire[j].message > outgoing'[dials[wire[j].dial].tab][i]
              /\ dials[wire[j].dial].tab = tab => wire[j].message > m
  <2>1. PICK t \in SocketTabs : t = dials[wire[j].dial].tab
    BY <1>11, MessageInvFacts
  <2>2. \A i \in 1..Len(outgoing[t]) : wire[j].message > outgoing[t][i]
    BY <1>11, <2>1, MessageInvFacts
  <2>3. CASE t # tab
    BY <2>1, <2>2, <2>3, <1>7
  <2>4. CASE t = tab
    BY <2>1, <2>2, <2>4, <1>1, <1>3, <1>4, <1>5, <1>7
  <2> QED BY <2>3, <2>4
<1> QED BY <1>1, <1>7, <1>8, <1>9, <1>10, <1>11

\* a write more
LEMMA WriteFacts ==
  ASSUME SocketInv, NEW x \in [dial : Nat, message : Nat], wire' = Append(wire, x)
  PROVE  /\ wire' \in Seq([dial : Nat, message : Nat]) /\ Len(wire') = Len(wire) + 1 /\ Len(wire) \in Nat
         /\ wire'[Len(wire) + 1] = x /\ \A j \in 1..Len(wire) : wire'[j] = wire[j]
         /\ \A j \in 1..Len(wire') : j \in 1..Len(wire) \/ j = Len(wire) + 1
         /\ \A j \in 1..Len(wire) : j \in 1..Len(wire') /\ \A i \in 1..j : i \in 1..Len(wire)
<1>1. PICK w \in Seq([dial : Nat, message : Nat]) : w = wire
  BY DEF SocketInv, SocketTypes
<1>2. PICK v : v = Append(w, x)
  OBVIOUS
<1>3. v \in Seq([dial : Nat, message : Nat]) /\ Len(v) = Len(w) + 1 /\ Len(w) \in Nat /\ v[Len(w) + 1] = x
  BY <1>2
<1>4. \A j \in 1..Len(w) : v[j] = w[j]
  BY <1>2
<1>5. /\ \A j \in 1..Len(v) : j \in 1..Len(w) \/ j = Len(w) + 1
      /\ \A j \in 1..Len(w) : j \in 1..Len(v) /\ \A i \in 1..j : i \in 1..Len(w)
  <2>1. \A l \in Nat : /\ \A j \in 1..l+1 : j \in 1..l \/ j = l + 1
                       /\ \A j \in 1..l : j \in 1..l+1 /\ \A i \in 1..j : i \in 1..l
    OBVIOUS
  <2> QED BY <2>1, <1>3
<1> QED BY <1>1, <1>2, <1>3, <1>4, <1>5

LEMMA DeliverMessageKeeps ==
  ASSUME SocketInv, NEW tab \in SocketTabs, DeliverMessage(tab) PROVE SocketInv'
<1>1. PICK m : m = Head(outgoing[tab])
  OBVIOUS
<1>2. /\ StillDials /\ UNCHANGED <<openTabs, retrying, socketBudget, dials, links>>
      /\ outgoing[tab] # <<>> /\ outgoing' = [outgoing EXCEPT ![tab] = Tail(@)]
  BY DEF DeliverMessage, StillDials
<1>3. /\ m \in Nat /\ m > socketBudget["message"] /\ m # 0 /\ outgoing' \in [SocketTabs -> Seq(Nat)]
      /\ \A t \in SocketTabs : \A i \in 1..Len(outgoing'[t]) :
           /\ outgoing'[t][i] > socketBudget'["message"]
           /\ \A j \in 1..i-1 : outgoing'[t][j] > outgoing'[t][i]
      /\ \A i \in 1..Len(outgoing'[tab]) : m > outgoing'[tab][i]
      /\ \A j \in 1..Len(wire) : wire[j].message # 0 =>
           /\ \A i \in 1..Len(outgoing'[dials[wire[j].dial].tab]) :
                wire[j].message > outgoing'[dials[wire[j].dial].tab][i]
           /\ dials[wire[j].dial].tab = tab => wire[j].message > m
  BY <1>1, <1>2, FirstMessageLeaves
<1>4. queued \in [SocketTabs -> Seq(LogEntry)] /\ socketSessions \in Sessions /\ SocketTypes
  BY DEF SocketInv, SocketTypes, Sessions
<1>5. CASE /\ OpenSession(tab) /\ wire' = Append(wire, [dial |-> links[tab], message |-> m])
           /\ queued' = Logged(queued, tab, <<SentEntry(m)>>) /\ UNCHANGED socketSessions
  <2>1. /\ queued' \in [SocketTabs -> Seq(LogEntry)] /\ queued'[tab] = queued[tab] \o <<SentEntry(m)>>
        /\ \A t \in SocketTabs : t # tab => queued'[t] = queued[t]
    <3>1. SentEntry(m) \in LogEntry
      BY <1>3, NoteFacts
    <3> QED BY <3>1, <1>4, <1>5, NoteInQueue DEF IsQueued
  <2>2. links[tab] \in 1..Len(dials) /\ dials[links[tab]].tab = tab /\ SessionAt(tab).status = "open"
    BY <1>5 DEF OpenSession, SessionAt, SocketInv, TabInv
  <2>3. PICK x \in [dial : Nat, message : Nat] : x = [dial |-> links[tab], message |-> m]
    BY <1>3, <1>4 DEF SocketTypes
  <2>4. x.dial = links[tab] /\ x.message = m
    BY <2>3
  <2>5. /\ wire' \in Seq([dial : Nat, message : Nat]) /\ Len(wire') = Len(wire) + 1 /\ Len(wire) \in Nat
        /\ wire'[Len(wire) + 1] = x /\ \A j \in 1..Len(wire) : wire'[j] = wire[j]
        /\ \A j \in 1..Len(wire') : j \in 1..Len(wire) \/ j = Len(wire) + 1
        /\ \A j \in 1..Len(wire) : j \in 1..Len(wire') /\ \A i \in 1..j : i \in 1..Len(wire)
    BY <2>3, <1>5, WriteFacts
  <2>6. SocketTypes'
    BY <2>1, <2>5, <1>2, <1>3, <1>4, <1>5 DEF SocketTypes, StillDials
  <2>7. \A t \in SocketTabs : SessionAt(t)' = SessionAt(t)
    BY <1>5 DEF SessionAt
  <2>8. ASSUME NEW j \in 1..Len(wire'), wire'[j].message # 0
        PROVE  /\ wire'[j].dial \in 1..Len(dials) /\ wire'[j].message > socketBudget["message"]
               /\ \A i \in 1..Len(outgoing'[dials[wire'[j].dial].tab]) :
                    wire'[j].message > outgoing'[dials[wire'[j].dial].tab][i]
    <3>1. CASE j \in 1..Len(wire)
      BY <2>8, <3>1, <2>5, <1>3, MessageInvFacts
    <3>2. CASE j = Len(wire) + 1
      BY <3>2, <2>2, <2>4, <2>5, <1>3
    <3> QED BY <3>1, <3>2, <2>5
  <2>9. \A t \in SocketTabs : SessionAt(t)'.status = "open" =>
          \E i \in 1..Len(wire') : wire'[i] = [dial |-> links'[t], message |-> 0]
    BY <2>5, <2>7, <1>2, MessageInvFacts
  <2>10. MessagesInOrder'
    <3> SUFFICES ASSUME NEW j \in 1..Len(wire'), wire'[j].message # 0
                 PROVE  /\ \E i \in 1..j : wire'[i] = [dial |-> wire'[j].dial, message |-> 0]
                        /\ \A i \in 1..j-1 :
                             wire'[i].message # 0 /\ dials[wire'[i].dial].tab = dials[wire'[j].dial].tab
                               => wire'[i].message > wire'[j].message
      BY <1>2 DEF MessagesInOrder
    <3>1. CASE j \in 1..Len(wire)
      <4>1. \A i \in 1..j : wire'[i] = wire[i]
        BY <3>1, <2>5
      <4>2. \A i \in 1..j-1 : i \in 1..j
        BY <3>1, <2>5
      <4>3. /\ \E i \in 1..j : wire[i] = [dial |-> wire[j].dial, message |-> 0]
            /\ \A i \in 1..j-1 :
                 wire[i].message # 0 /\ dials[wire[i].dial].tab = dials[wire[j].dial].tab
                   => wire[i].message > wire[j].message
        <5>1. wire[j].message # 0
          BY <3>1, <2>5
        <5> QED BY <5>1, <3>1, MessageInvFacts DEF MessagesInOrder
      <4>4. wire'[j] = wire[j]
        BY <3>1, <2>5
      <4> QED BY <4>1, <4>2, <4>3, <4>4
    <3>2. CASE j = Len(wire) + 1
      <4>1. wire'[j].dial = links[tab] /\ wire'[j].message = m
        BY <3>2, <2>4, <2>5
      <4>2. \A i \in 1..j-1 : i \in 1..Len(wire) /\ wire'[i] = wire[i]
        BY <3>2, <2>5
      <4>3. PICK i \in 1..Len(wire) : wire[i] = [dial |-> links[tab], message |-> 0]
        BY <2>2, MessageInvFacts
      <4>4. i \in 1..j /\ wire'[i] = wire[i]
        BY <4>3, <3>2, <2>5
      <4>5. \E h \in 1..j : wire'[h] = [dial |-> wire'[j].dial, message |-> 0]
        BY <4>1, <4>3, <4>4
      <4>6. \A h \in 1..j-1 : wire'[h].message # 0 /\ dials[wire'[h].dial].tab = dials[wire'[j].dial].tab
              => wire'[h].message > wire'[j].message
        BY <4>1, <4>2, <2>2, <1>3
      <4> QED BY <4>5, <4>6
    <3> QED BY <3>1, <3>2, <2>5
  <2>11. MessageInv'
    BY <2>8, <2>9, <2>10, <1>2, <1>3 DEF MessageInv
  <2>12. LogGoesOn(tab)
    <3>1. KeepsLog(SessionAt(tab), SessionAt(tab)')
      BY <2>7 DEF KeepsLog
    <3> QED BY <3>1, <2>1, <1>3, <1>4, NoteIsLogged, NoteFacts DEF LogGoesOn
  <2>13. OthersRest(socketSessions, socketSessions', tab)
    BY <1>5 DEF OthersRest
  <2> QED BY <2>1, <2>6, <2>7, <2>11, <2>12, <2>13, <1>2, SessionStep
<1>6. CASE /\ queued' = Logged(queued, tab, <<Note>>) /\ UNCHANGED wire
           /\ socketSessions' = [socketSessions EXCEPT ![tab] = [SessionOfTab(socketSessions, tab) EXCEPT !.draft = TRUE]]
  <2>1. /\ queued' \in [SocketTabs -> Seq(LogEntry)] /\ queued'[tab] = queued[tab] \o <<Note>>
        /\ \A t \in SocketTabs : t # tab => queued'[t] = queued[t]
    BY <1>4, <1>6, NoteInQueue, NoteFacts DEF IsQueued
  <2>2. PICK s \in Session : s = SessionAt(tab)
    BY <1>4, SessionAtFacts
  <2>3. PICK u : u = [s EXCEPT !.draft = TRUE]
    OBVIOUS
  <2>4. u \in Session /\ u.status = s.status /\ KeepsLog(s, u)
    BY <2>3, PatchFacts
  <2>5. socketSessions' \in Sessions /\ SessionAt(tab)' = u /\ OthersRest(socketSessions, socketSessions', tab)
    <3>1. u \in Session
      BY <2>4
    <3>2. PICK all : all = [socketSessions EXCEPT ![tab] = u]
      OBVIOUS
    <3>3. all \in Sessions /\ SessionOfTab(all, tab) = u /\ OthersRest(socketSessions, all, tab)
      BY <3>1, <3>2, <1>4, SessionIsPatched
    <3>4. socketSessions' = all
      BY <3>2, <2>2, <2>3, <1>6 DEF SessionAt
    <3> QED BY <3>3, <3>4 DEF SessionAt
  <2>6. SocketTypes'
    BY <2>1, <2>5, <1>2, <1>3, <1>4, <1>6 DEF SocketTypes, StillDials, Sessions
  <2>7. \A t \in SocketTabs : SessionAt(t)'.status = SessionAt(t).status
    BY <2>2, <2>4, <2>5 DEF OthersRest, SessionAt
  <2>8. MessageInv'
    <3>1. \A j \in 1..Len(wire') : wire'[j].message # 0 =>
            /\ wire'[j].dial \in 1..Len(dials') /\ wire'[j].message > socketBudget'["message"]
            /\ \A i \in 1..Len(outgoing'[dials'[wire'[j].dial].tab]) :
                 wire'[j].message > outgoing'[dials'[wire'[j].dial].tab][i]
      BY <1>2, <1>3, <1>6, MessageInvFacts
    <3>2. \A t \in SocketTabs : SessionAt(t)'.status = "open" =>
            \E i \in 1..Len(wire') : wire'[i] = [dial |-> links'[t], message |-> 0]
      BY <2>7, <1>2, <1>6, MessageInvFacts
    <3>3. MessagesInOrder'
      BY <1>2, <1>6, MessageInvFacts DEF MessagesInOrder
    <3> QED BY <3>1, <3>2, <3>3, <1>3 DEF MessageInv
  <2>9. LogGoesOn(tab)
    <3>1. KeepsLog(SessionAt(tab), SessionAt(tab)')
      BY <2>2, <2>4, <2>5
    <3> QED BY <3>1, <2>1, <1>4, NoteIsLogged, NoteFacts DEF LogGoesOn
  <2> QED BY <2>1, <2>5, <2>6, <2>7, <2>8, <2>9, <1>2, SessionStep
<1> QED BY <1>1, <1>5, <1>6 DEF DeliverMessage

LEMMA AppendEntriesFacts ==
  ASSUME NEW s \in Session, NEW q \in Seq(LogEntry), NEW u, u = AppendEntries(s, q)
  PROVE  /\ u \in Session /\ u.status = s.status /\ u.cleared = s.cleared /\ u.dropped \in Nat
         /\ \E c \in 0..Len(s.entries \o q) :
              u.entries = SubSeq(s.entries \o q, c + 1, Len(s.entries \o q)) /\ u.dropped = s.dropped + c
<1>1. PICK e \in Seq(LogEntry), d \in Nat : e = s.entries /\ d = s.dropped
  BY DEF Session
<1>2. PICK f \in Seq(LogEntry) : f = e \o q
  <2>1. e \o q \in Seq(LogEntry)
    BY ConcatProperties
  <2> QED BY <2>1
<1>3. PICK c : c = IF Len(f) > LogLimit THEN Len(f) - LogLimit ELSE 0
  OBVIOUS
<1>4. Len(f) \in Nat /\ c \in 0..Len(f) /\ d + c \in Nat
  BY <1>3, SocketsAssumption
<1>5. PICK g : g = SubSeq(f, c + 1, Len(f))
  OBVIOUS
<1>6. g \in Seq(LogEntry)
  <2>1. c + 1 \in Int /\ Len(f) \in Int /\ \A i \in c+1..Len(f) : f[i] \in LogEntry
    BY <1>4, ElementOfSeq
  <2> QED BY <2>1, <1>5, SubSeqProperties
<1>7. u = [s EXCEPT !.entries = g, !.dropped = d + c]
  BY <1>1, <1>2, <1>3, <1>5 DEF AppendEntries
<1>8. /\ u \in Session /\ u.status = s.status /\ u.cleared = s.cleared
      /\ u.entries = g /\ u.dropped = d + c
  BY <1>4, <1>6, <1>7 DEF Session
<1> QED BY <1>1, <1>2, <1>4, <1>5, <1>8

LEMMA FlushEntriesKeeps ==
  ASSUME SocketInv, FlushEntries PROVE SocketInv'
<1>1. SocketTypes /\ socketSessions \in Sessions /\ queued \in [SocketTabs -> Seq(LogEntry)]
  BY DEF SocketInv, SocketTypes, Sessions
<1>2. StillDials /\ UNCHANGED <<openTabs, retrying, outgoing, wire, socketBudget, links, dials>>
  BY DEF FlushEntries, StillDials
<1>3. ASSUME NEW t \in SocketTabs
      PROVE  /\ socketSessions'[t] \in {NoSession} \cup Session /\ queued'[t] = <<>>
             /\ SessionAt(t)'.status = SessionAt(t).status /\ LogGoesOn(t)
  <2>1. PICK s \in Session, q \in Seq(LogEntry) : s = SessionAt(t) /\ q = queued[t]
    BY <1>1, SessionAtFacts
  <2>2. queued'[t] = <<>>
    BY DEF FlushEntries
  <2>3. s.entries \in Seq(LogEntry) /\ s.dropped \in Nat /\ s.cleared \in BOOLEAN
    BY DEF Session
  <2>4. CASE q = <<>>
    <3>1. socketSessions'[t] = socketSessions[t]
      BY <2>1, <2>4 DEF FlushEntries
    <3>2. SessionAt(t)' = SessionAt(t)
      BY <3>1 DEF SessionAt, SessionOfTab
    <3>3. KeepsLog(SessionAt(t), SessionAt(t)') /\ queued'[t] = queued[t]
      BY <3>2, <2>1, <2>2, <2>4 DEF KeepsLog
    <3> QED BY <3>1, <3>2, <3>3, <2>2, <1>1, LogStays DEF LogGoesOn, Sessions
  <2>5. CASE q # <<>>
    <3>1. PICK u : u = AppendEntries(s, q)
      OBVIOUS
    <3>2. /\ u \in Session /\ u.status = s.status /\ u.cleared = s.cleared /\ u.dropped \in Nat
          /\ \E c \in 0..Len(s.entries \o q) :
               u.entries = SubSeq(s.entries \o q, c + 1, Len(s.entries \o q)) /\ u.dropped = s.dropped + c
      BY <3>1, AppendEntriesFacts
    <3>3. socketSessions'[t] = u
      BY <3>1, <2>1, <2>5 DEF FlushEntries, SessionAt
    <3>4. u # NoSession
      <4>1. u.status # "none"
        BY <3>2 DEF Session
      <4> QED BY <4>1 DEF NoSession
    <3>5. SessionAt(t)' = u
      BY <3>3, <3>4 DEF SessionAt, SessionOfTab
    <3>6. PICK c \in 0..Len(s.entries \o q) :
            u.entries = SubSeq(s.entries \o q, c + 1, Len(s.entries \o q)) /\ u.dropped = s.dropped + c
      BY <3>2
    <3>7. Shown(t) = s.entries \o q
      BY <2>1 DEF Shown, SessionAt
    <3>8. Shown(t)' = u.entries
      <4>1. u.entries \in Seq(LogEntry)
        BY <3>2 DEF Session
      <4>2. u.entries \o <<>> = u.entries
        BY <4>1, ConcatEmptySeq
      <4> QED BY <4>2, <3>5, <2>2 DEF Shown, SessionAt
    <3>9. IsWhole(u) => IsWhole(s) /\ c = 0
      <4>1. c \in Nat
        BY <3>6, <2>3
      <4> QED BY <4>1, <3>2, <3>6, <2>3 DEF IsWhole
    <3>10. LogLoses(t)
      BY <3>5, <3>6, <3>7, <3>8, <3>9, <2>1 DEF LogLoses
    <3> QED BY <3>2, <3>3, <3>5, <3>10, <2>1, <2>2 DEF LogGoesOn
  <2> QED BY <2>4, <2>5
<1>4. SocketTypes'
  <2>1. socketSessions' \in [SocketTabs -> {NoSession} \cup Session]
    <3>1. socketSessions' = [t \in SocketTabs |-> socketSessions'[t]]
      BY DEF FlushEntries
    <3> QED BY <3>1, <1>3
  <2>2. queued' \in [SocketTabs -> Seq(LogEntry)]
    BY DEF FlushEntries
  <2> QED BY <2>1, <2>2, <1>1, <1>2 DEF SocketTypes, StillDials
<1>5. DialInv' /\ StreamInv' /\ DialsKeepTabs /\ \A t \in SocketTabs : LinkRests(t)
  BY <1>2, StillDialsFacts
<1>6. TabInv'
  BY <1>2, <1>3 DEF SocketInv, TabInv
<1>7. ShownInv'
  <2>1. \A t \in SocketTabs : LogIsSound(t) /\ (links[t] # 0 => links[t] \in 1..Len(dials))
    BY DEF SocketInv, ShownInv, TabInv
  <2> QED BY <2>1, <1>1, <1>3, <1>5, LogKeepsSound DEF ShownInv
<1>8. MessageInv'
  BY <1>2, <1>3, SameStatus
<1> QED BY <1>4, <1>5, <1>6, <1>7, <1>8 DEF SocketInv

LEMMA CloseTabKeeps ==
  ASSUME SocketInv, NEW tab \in SocketTabs, CloseTab(tab) PROVE SocketInv'
<1>1. /\ dials' \in Seq(Dial) /\ Len(dials') = Len(dials) /\ links' \in [SocketTabs -> Nat] /\ links'[tab] = 0
      /\ DialsKeepTabs /\ DialInv' /\ StreamInv' /\ OnlyItsDials(tab)
      /\ \A t \in SocketTabs : t # tab => links'[t] = links[t]
  BY ReleaseKeepsDials DEF CloseTab, Release
<1>2. /\ SocketTypes /\ socketSessions \in Sessions /\ queued \in [SocketTabs -> Seq(LogEntry)]
      /\ UNCHANGED <<outgoing, receivers, wire, platform>> /\ openTabs' = openTabs \ {tab} /\ retrying' = retrying \ {tab}
  BY DEF CloseTab, Release, SocketInv, SocketTypes, Sessions
<1>3. socketBudget' \in [SocketUses -> Nat] /\ socketBudget'["message"] = socketBudget["message"]
  BY BudgetFacts DEF CloseTab, SocketUses
<1>4. \A t \in SocketTabs :
        /\ socketSessions'[t] = IF t \in openTabs' THEN socketSessions[t] ELSE NoSession
        /\ queued'[t] = IF t \in openTabs' \/ socketSessions[t] = NoSession THEN queued[t] ELSE <<>>
  BY DEF CloseTab
<1>5. SocketTypes'
  <2>1. socketSessions' \in Sessions
    BY <1>2, <1>4 DEF CloseTab, Sessions
  <2>2. queued' \in [SocketTabs -> Seq(LogEntry)]
    <3>1. <<>> \in Seq(LogEntry)
      OBVIOUS
    <3> QED BY <3>1, <1>2 DEF CloseTab
  <2> QED BY <2>1, <2>2, <1>1, <1>2, <1>3 DEF SocketTypes, Sessions
<1>6. ASSUME NEW t \in SocketTabs
      PROVE  /\ TabIsSound(t)' /\ LogIsSound(t)'
             /\ SessionAt(t)'.status = "open" => SessionAt(t).status = "open" /\ links'[t] = links[t]
  <2>1. TabIsSound(t) /\ LogIsSound(t)
    BY DEF SocketInv, TabInv, ShownInv, TabIsSound
  <2>2. links[t] # 0 => links[t] \in 1..Len(dials)
    BY <2>1 DEF TabIsSound
  <2>3. CASE t \in openTabs'
    <3>1. /\ t # tab /\ t \in openTabs /\ (t \in retrying' <=> t \in retrying) /\ links'[t] = links[t]
          /\ socketSessions'[t] = socketSessions[t] /\ queued'[t] = queued[t]
      BY <2>3, <1>1, <1>2, <1>4
    <3>2. SessionAt(t)' = SessionAt(t)
      BY <3>1 DEF SessionAt, SessionOfTab
    <3>3. links[t] # 0 => dials'[links[t]] = dials[links[t]] /\ dials[links[t]].tab = t
      BY <3>1, <2>1, <1>1 DEF TabIsSound, OnlyItsDials
    <3>4. SessionAt(t).status = "open" => links[t] # 0
      BY <2>1 DEF TabIsSound, TabIsLinked
    <3>5. TabIsSound(t)'
      <4>1. TabIsLinked(SessionAt(t).status, links[t], t \in retrying', t \in openTabs')
        BY <2>1, <2>3, <3>1 DEF TabIsSound, TabIsLinked
      <4> QED BY <4>1, <2>1, <3>1, <3>2, <3>3, <3>4, <1>1 DEF TabIsSound
    <3>6. LogRests(t) /\ LinkRests(t)
      BY <3>1, <3>2, <3>3 DEF LogRests, LinkRests, Shown, SessionAt
    <3>7. LogIsSound(t)'
      BY <2>1, <2>2, <3>6, <1>1, <1>2, LogKeepsSound DEF LogGoesOn
    <3> QED BY <3>1, <3>2, <3>5, <3>7
  <2>4. CASE t \notin openTabs'
    <3>1. links'[t] = 0 /\ t \notin retrying'
      <4>1. CASE t = tab
        BY <4>1, <1>1, <1>2
      <4>2. CASE t # tab
        <5>1. t \notin openTabs
          BY <2>4, <4>2, <1>2
        <5>2. links[t] = 0 /\ t \notin retrying
          BY <2>1, <5>1 DEF TabIsSound, TabIsLinked
        <5> QED BY <4>2, <5>2, <1>1, <1>2
      <4> QED BY <4>1, <4>2
    <3>2. socketSessions'[t] = NoSession
      BY <2>4, <1>4
    <3>3. SessionAt(t)' = IdleSession
      BY <3>2 DEF SessionAt, SessionOfTab
    <3>4. IdleSession.status = "idle" /\ IdleSession.entries = <<>>
      BY DEF IdleSession
    <3>5. TabIsSound(t)'
      BY <2>4, <3>1, <3>3, <3>4 DEF TabIsSound, TabIsLinked
    <3>6. CASE socketSessions[t] = NoSession
      <4>1. SessionAt(t)' = SessionAt(t) /\ queued'[t] = queued[t]
        BY <3>3, <3>6, <1>4 DEF SessionAt, SessionOfTab
      <4>2. LogRests(t)
        BY <4>1 DEF LogRests, Shown, SessionAt
      <4>3. LogIsSound(t)'
        BY <2>1, <2>2, <3>1, <4>2, <1>1, <1>2, LogKeepsSound DEF LogGoesOn
      <4> QED BY <3>3, <3>4, <3>5, <4>3
    <3>7. CASE socketSessions[t] # NoSession
      <4>1. queued'[t] = <<>>
        BY <2>4, <3>7, <1>4
      <4>2. Shown(t)' = <<>> \o <<>>
        BY <4>1, <3>3, <3>4 DEF Shown, SessionAt
      <4>3. <<>> \o <<>> = <<>>
        OBVIOUS
      <4>4. LogIsSound(t)'
        BY <4>2, <4>3, <3>1, EmptyLogIsSound
      <4> QED BY <3>3, <3>4, <3>5, <4>4
    <3> QED BY <3>6, <3>7
  <2> QED BY <2>3, <2>4
<1>7. TabInv' /\ ShownInv'
  BY <1>6 DEF TabInv, TabIsSound, ShownInv
<1>8. MessageInv'
  BY <1>1, <1>2, <1>3, <1>6, MessageKeeps DEF SocketInv
<1> QED BY <1>1, <1>5, <1>7, <1>8 DEF SocketInv

-----------------------------------------------------------------------------
(* The link is lost, or its connection is open *)

\* what is shared once a connection of the tab is lost
IsLoss(tab, all, q, v) ==
  /\ v.socketSessions \in Sessions /\ OthersRest(all, v.socketSessions, tab)
  /\ SessionOfTab(v.socketSessions, tab).status \in {"idle", "waiting"}
  /\ KeepsLog(SessionOfTab(all, tab), SessionOfTab(v.socketSessions, tab))
  /\ v.queued \in [SocketTabs -> Seq(LogEntry)] /\ v.queued[tab] = q[tab] \o <<Note>>
  /\ \A t \in SocketTabs : t # tab => v.queued[t] = q[t]
  /\ v.links = [links EXCEPT ![tab] = 0]
  /\ v.retrying = IF SessionOfTab(v.socketSessions, tab).status = "waiting" THEN retrying \cup {tab} ELSE retrying

LEMMA HandleLossFacts ==
  ASSUME NEW all \in Sessions, NEW q \in [SocketTabs -> Seq(LogEntry)], NEW tab \in SocketTabs, NEW s,
         s.socketSessions = all, s.queued = q, s.links = links, s.retrying = retrying, NEW v, v = HandleLoss(s, tab)
  PROVE  IsLoss(tab, all, q, v)
<1>1. PICK a \in BOOLEAN : a = SessionOfTab(all, tab).auto
  <2>1. SessionOfTab(all, tab) \in Session
    BY SessionFacts
  <2> QED BY <2>1 DEF Session
<1>2. PICK status \in {"idle", "waiting"} : status = IF a THEN "waiting" ELSE "idle"
  OBVIOUS
<1>3. PICK new : new = Status(all, tab, status)
  OBVIOUS
<1>4. /\ new \in Sessions /\ OthersRest(all, new, tab) /\ SessionOfTab(new, tab).status = status
      /\ KeepsLog(SessionOfTab(all, tab), SessionOfTab(new, tab))
  BY <1>2, <1>3, StatusFacts DEF StatusIs
<1>5. PICK r : r = Logged(q, tab, <<Note>>)
  OBVIOUS
<1>6. /\ r \in [SocketTabs -> Seq(LogEntry)] /\ r[tab] = q[tab] \o <<Note>>
      /\ \A t \in SocketTabs : t # tab => r[t] = q[t]
  BY <1>5, NoteInQueue, NoteFacts DEF IsQueued
<1>7. /\ v.socketSessions = new /\ v.queued = r /\ v.links = [links EXCEPT ![tab] = 0]
      /\ v.retrying = IF a THEN retrying \cup {tab} ELSE retrying
  BY <1>1, <1>2, <1>3, <1>5 DEF HandleLoss
<1> QED BY <1>2, <1>4, <1>6, <1>7 DEF IsLoss

\* dial n, the link of its tab, becomes d
LinkTurns(n, d) ==
  /\ IsCurrent(n) /\ dials' = [dials EXCEPT ![n] = d] /\ d.tab = dials[n].tab
  /\ UNCHANGED <<openTabs, outgoing, platform, socketBudget>>
  /\ receivers' \subseteq 1..Len(dials) /\ \A m \in 1..Len(dials) : m # n => (m \in receivers' <=> m \in receivers)

LEMMA LinkFacts ==
  ASSUME SocketInv, NEW n \in 1..Len(dials), IsCurrent(n), NEW tab, tab = dials[n].tab
  PROVE  /\ tab \in SocketTabs /\ links[tab] = n /\ n # 0 /\ n \in Nat /\ tab \notin retrying /\ tab \in openTabs
         /\ SessionAt(tab).status \in {"connecting", "open"}
<1>1. tab \in SocketTabs /\ links[tab] = n
  BY DialAt DEF IsCurrent
<1>2. n # 0 /\ n \in Nat
  BY DEF SocketInv, SocketTypes
<1>3. TabIsLinked(SessionAt(tab).status, n, tab \in retrying, tab \in openTabs)
  BY <1>1 DEF SocketInv, TabInv
<1>4. SessionAt(tab).status \in {"idle", "connecting", "open", "waiting"}
  BY <1>1, SessionAtFacts DEF SocketInv, Session
<1> QED BY <1>1, <1>2, <1>3, <1>4 DEF TabIsLinked

LEMMA LossStep ==
  ASSUME SocketInv, NEW n \in 1..Len(dials), NEW d \in Dial, LinkTurns(n, d), UNCHANGED wire,
         DialIsSound(d, FALSE, n \in receivers', platform), HasStream(n, d, platform),
         NEW tab, tab = dials[n].tab, NEW all, NEW q, NEW v, IsLoss(tab, all, q, v), Share(v),
         OthersRest(socketSessions, all, tab), \A t \in SocketTabs : t # tab => q[t] = queued[t],
         LogIsSound(tab)'
  PROVE  SocketInv'
<1>1. /\ tab \in SocketTabs /\ links[tab] = n /\ n # 0 /\ n \in Nat /\ tab \notin retrying /\ tab \in openTabs
  BY LinkFacts DEF LinkTurns
<1>2. /\ socketSessions' = v.socketSessions /\ queued' = v.queued /\ links' = v.links /\ retrying' = v.retrying
  BY DEF Share
<1>3. /\ links \in [SocketTabs -> Nat] /\ retrying \subseteq SocketTabs /\ SocketTypes
  BY DEF SocketInv, SocketTypes
<1>4. /\ links' \in [SocketTabs -> Nat] /\ links'[tab] = 0
      /\ \A t \in SocketTabs : t # tab => links'[t] = links[t]
  BY <1>1, <1>2, <1>3 DEF IsLoss
<1>5. DialTurns(n, d)
  <2>1. ASSUME NEW m \in 1..Len(dials), m # n PROVE IsCurrent(m)' <=> IsCurrent(m)
    <3>1. dials'[m] = dials[m] /\ dials[m].tab \in SocketTabs /\ m # 0
      BY <2>1, <1>3, DialAt DEF LinkTurns, SocketTypes
    <3> QED BY <2>1, <3>1, <1>1, <1>4 DEF IsCurrent
  <2> QED BY <2>1 DEF DialTurns, LinkTurns
<1>6. /\ DialsKeepTabs /\ dials' \in Seq(Dial) /\ Len(dials') = Len(dials) /\ dials'[n] = d
      /\ \A m \in 1..Len(dials) : m # n => dials'[m] = dials[m]
  BY <1>3, <1>5, DialTurnsFacts
<1>7. DialInv' /\ StreamInv'
  <2>1. ~IsCurrent(n)'
    BY <1>1, <1>4, <1>6 DEF IsCurrent, LinkTurns
  <2>2. DialIsSound(d, IsCurrent(n)', n \in receivers', platform)
    BY <2>1 DEF DialIsSound
  <2> QED BY <2>2, <1>3, <1>5, OneDialChanges DEF SocketInv
<1>8. SocketTypes'
  <2>1. retrying' \subseteq SocketTabs
    BY <1>1, <1>2, <1>3 DEF IsLoss
  <2>2. socketSessions' \in Sessions /\ queued' \in [SocketTabs -> Seq(LogEntry)]
    BY <1>2 DEF IsLoss
  <2> QED BY <2>1, <2>2, <1>3, <1>4, <1>6 DEF SocketTypes, LinkTurns, Sessions
<1>9. OnlyTab(tab)
  <2> SUFFICES ASSUME NEW t \in SocketTabs, t # tab
               PROVE  /\ SessionAt(t)' = SessionAt(t) /\ queued'[t] = queued[t] /\ links'[t] = links[t]
                      /\ t \in retrying' <=> t \in retrying
                      /\ t \in openTabs' <=> t \in openTabs
    BY DEF OnlyTab
  <2>1. SessionAt(t)' = SessionAt(t)
    BY <1>2 DEF IsLoss, OthersRest, SessionAt
  <2>2. queued'[t] = queued[t]
    BY <1>2 DEF IsLoss
  <2>3. t \in retrying' <=> t \in retrying
    BY <1>2 DEF IsLoss
  <2> QED BY <2>1, <2>2, <2>3, <1>4 DEF LinkTurns
<1>10. OnlyItsDials(tab)
  BY <1>6 DEF OnlyItsDials
<1>11. SessionAt(tab)'.status \in {"idle", "waiting"} /\ (tab \in retrying' <=> SessionAt(tab)'.status = "waiting")
  BY <1>1, <1>2 DEF IsLoss, SessionAt
<1>12. TabIsSound(tab)'
  BY <1>1, <1>4, <1>11 DEF TabIsSound, TabIsLinked, LinkTurns
<1>13. MessageInv'
  <2>1. \A t \in SocketTabs : SessionAt(t)'.status = "open" =>
          SessionAt(t).status = "open" /\ links'[t] = links[t]
    BY <1>9, <1>11 DEF OnlyTab
  <2> QED BY <2>1, <1>3, <1>6, MessageKeeps DEF SocketInv, LinkTurns
<1> QED BY <1>1, <1>6, <1>7, <1>8, <1>9, <1>10, <1>12, <1>13, TabStep

\* the greeting of the protocol is written
LEMMA GreetingKeeps ==
  ASSUME SocketInv, DialsKeepTabs, NEW n \in Nat, wire' = Append(wire, [dial |-> n, message |-> 0]),
         UNCHANGED <<outgoing, socketBudget, links>>, NEW tab \in SocketTabs, links[tab] = n,
         \A t \in SocketTabs : t # tab => SessionAt(t)' = SessionAt(t)
  PROVE  MessageInv' /\ wire' \in Seq([dial : Nat, message : Nat])
<1>1. PICK x \in [dial : Nat, message : Nat] : x = [dial |-> n, message |-> 0]
  OBVIOUS
<1>2. x.message = 0
  BY <1>1
<1>3. /\ wire' \in Seq([dial : Nat, message : Nat]) /\ Len(wire') = Len(wire) + 1 /\ Len(wire) \in Nat
      /\ wire'[Len(wire) + 1] = x /\ \A j \in 1..Len(wire) : wire'[j] = wire[j]
      /\ \A j \in 1..Len(wire') : j \in 1..Len(wire) \/ j = Len(wire) + 1
      /\ \A j \in 1..Len(wire) : j \in 1..Len(wire') /\ \A i \in 1..j : i \in 1..Len(wire)
  BY <1>1, WriteFacts
<1>4. \A j \in 1..Len(wire') : wire'[j].message # 0 => j \in 1..Len(wire) /\ wire'[j] = wire[j]
  BY <1>2, <1>3
<1>5. \A m \in 1..Len(dials) : m \in 1..Len(dials') /\ dials'[m].tab = dials[m].tab
  BY DEF DialsKeepTabs
<1>6. ASSUME NEW j \in 1..Len(wire'), wire'[j].message # 0
      PROVE  /\ wire'[j].dial \in 1..Len(dials') /\ wire'[j].message > socketBudget'["message"]
             /\ \A i \in 1..Len(outgoing'[dials'[wire'[j].dial].tab]) :
                  wire'[j].message > outgoing'[dials'[wire'[j].dial].tab][i]
  <2>1. j \in 1..Len(wire) /\ wire'[j] = wire[j] /\ wire[j].message # 0
    BY <1>4, <1>6
  <2>2. PICK t \in SocketTabs : t = dials[wire[j].dial].tab
    BY <2>1, MessageInvFacts
  <2>3. /\ wire[j].dial \in 1..Len(dials) /\ wire[j].message > socketBudget["message"]
        /\ \A i \in 1..Len(outgoing[t]) : wire[j].message > outgoing[t][i]
    BY <2>1, <2>2, MessageInvFacts
  <2>4. dials'[wire[j].dial].tab = t
    BY <2>2, <2>3, <1>5
  <2> QED BY <2>1, <2>3, <2>4, <1>5
<1>7. \A t \in SocketTabs : SessionAt(t)'.status = "open" =>
        \E i \in 1..Len(wire') : wire'[i] = [dial |-> links'[t], message |-> 0]
  <2> SUFFICES ASSUME NEW t \in SocketTabs, SessionAt(t)'.status = "open"
               PROVE  \E i \in 1..Len(wire') : wire'[i] = [dial |-> links[t], message |-> 0]
    OBVIOUS
  <2>1. CASE t = tab
    <3>1. Len(wire) + 1 \in 1..Len(wire') /\ wire'[Len(wire) + 1] = [dial |-> links[t], message |-> 0]
      BY <2>1, <1>1, <1>3
    <3> QED BY <3>1
  <2>2. CASE t # tab
    BY <2>2, <1>3, MessageInvFacts
  <2> QED BY <2>1, <2>2
<1>8. MessagesInOrder'
  <2> SUFFICES ASSUME NEW j \in 1..Len(wire'), wire'[j].message # 0
               PROVE  /\ \E i \in 1..j : wire'[i] = [dial |-> wire'[j].dial, message |-> 0]
                      /\ \A i \in 1..j-1 :
                           wire'[i].message # 0 /\ dials'[wire'[i].dial].tab = dials'[wire'[j].dial].tab
                             => wire'[i].message > wire'[j].message
    BY DEF MessagesInOrder
  <2>1. j \in 1..Len(wire) /\ wire'[j] = wire[j]
    BY <1>4
  <2>2. \A i \in 1..j : i \in 1..Len(wire) /\ wire'[i] = wire[i]
    BY <2>1, <1>3
  <2>3. \A i \in 1..j-1 : i \in 1..j
    BY <2>1, <1>3
  <2>4. \A i \in 1..j : wire[i].message # 0 => dials'[wire[i].dial].tab = dials[wire[i].dial].tab
    BY <2>2, <1>5, MessageInvFacts
  <2>5. j \in 1..j
    BY <2>1, <1>3
  <2>6. /\ \E i \in 1..j : wire[i] = [dial |-> wire[j].dial, message |-> 0]
        /\ \A i \in 1..j-1 :
             wire[i].message # 0 /\ dials[wire[i].dial].tab = dials[wire[j].dial].tab
               => wire[i].message > wire[j].message
    BY <2>1, MessageInvFacts DEF MessagesInOrder
  <2> QED BY <2>1, <2>2, <2>3, <2>4, <2>5, <2>6
<1>9. \A t \in SocketTabs : \A i \in 1..Len(outgoing'[t]) :
        /\ outgoing'[t][i] > socketBudget'["message"]
        /\ \A j \in 1..i-1 : outgoing'[t][j] > outgoing'[t][i]
  BY MessageInvFacts
<1> QED BY <1>3, <1>6, <1>7, <1>8, <1>9 DEF MessageInv

LEMMA StatusIsSet ==
  ASSUME NEW all \in Sessions, NEW tab \in SocketTabs PROVE StatusIs(all, tab, "open", Status(all, tab, "open"))
BY StatusFacts

LEMMA OpenStep ==
  ASSUME SocketInv, NEW n \in 1..Len(dials), NEW d \in Dial, LinkTurns(n, d), d.isReady,
         DialIsSound(d, TRUE, n \in receivers', platform), HasStream(n, d, platform),
         NEW tab, tab = dials[n].tab, socketSessions' = Status(socketSessions, tab, "open"),
         UNCHANGED <<links, retrying>>, wire' = Append(wire, [dial |-> n, message |-> 0]),
         queued' \in [SocketTabs -> Seq(LogEntry)], \A t \in SocketTabs : t # tab => queued'[t] = queued[t],
         LogIsSound(tab)'
  PROVE  SocketInv'
<1>1. /\ tab \in SocketTabs /\ links[tab] = n /\ n # 0 /\ n \in Nat /\ tab \notin retrying /\ tab \in openTabs
  BY LinkFacts DEF LinkTurns
<1>2. SocketTypes /\ socketSessions \in Sessions
  BY DEF SocketInv, SocketTypes, Sessions
<1>3. /\ socketSessions' \in Sessions /\ OthersRest(socketSessions, socketSessions', tab)
      /\ SessionAt(tab)'.status = "open"
  <2>1. PICK new : new = Status(socketSessions, tab, "open")
    OBVIOUS
  <2>2. new \in Sessions /\ OthersRest(socketSessions, new, tab) /\ SessionOfTab(new, tab).status = "open"
    BY <2>1, <1>1, <1>2, StatusIsSet DEF StatusIs
  <2> QED BY <2>1, <2>2 DEF SessionAt
<1>4. dials' = [dials EXCEPT ![n] = d] /\ d.tab = dials[n].tab /\ dials \in Seq(Dial)
  BY <1>2 DEF LinkTurns, SocketTypes
<1>5. \A m \in 1..Len(dials) : IsCurrent(m)' <=> IsCurrent(m)
  BY <1>4 DEF IsCurrent
<1>6. DialTurns(n, d)
  BY <1>5 DEF DialTurns, LinkTurns
<1>7. /\ DialsKeepTabs /\ dials' \in Seq(Dial) /\ Len(dials') = Len(dials) /\ dials'[n] = d
      /\ \A m \in 1..Len(dials) : m # n => dials'[m] = dials[m]
  BY <1>2, <1>6, DialTurnsFacts
<1>8. DialInv' /\ StreamInv'
  <2>1. DialIsSound(d, IsCurrent(n)', n \in receivers', platform)
    BY <1>5 DEF DialIsSound, LinkTurns
  <2> QED BY <2>1, <1>2, <1>6, OneDialChanges DEF SocketInv
<1>9. \A t \in SocketTabs : t # tab => SessionAt(t)' = SessionAt(t)
  BY <1>3 DEF OthersRest, SessionAt
<1>10. MessageInv' /\ wire' \in Seq([dial : Nat, message : Nat])
  BY <1>1, <1>7, <1>9, GreetingKeeps DEF LinkTurns
<1>11. SocketTypes'
  BY <1>2, <1>3, <1>7, <1>10 DEF SocketTypes, LinkTurns, Sessions
<1>12. OnlyTab(tab) /\ OnlyItsDials(tab)
  BY <1>7, <1>9 DEF OnlyTab, OnlyItsDials, LinkTurns
<1>13. TabIsSound(tab)'
  BY <1>1, <1>3, <1>4, <1>7 DEF TabIsSound, TabIsLinked, LinkTurns
<1> QED BY <1>1, <1>7, <1>8, <1>10, <1>11, <1>12, <1>13, TabStep

LEMMA SharedFacts ==
  Shared.socketSessions = socketSessions /\ Shared.queued = queued /\ Shared.links = links /\ Shared.retrying = retrying
BY DEF Shared

\* the connection of a link is lost, and nothing else is shown but that
LEMMA LossIsShown ==
  ASSUME SocketInv, NEW n \in 1..Len(dials), NEW d \in Dial, LinkTurns(n, d), UNCHANGED wire,
         DialIsSound(d, FALSE, n \in receivers', platform), HasStream(n, d, platform),
         Share(HandleLoss(Shared, dials[n].tab))
  PROVE  SocketInv'
<1>1. PICK tab : tab = dials[n].tab
  OBVIOUS
<1>2. tab \in SocketTabs /\ links[tab] = n
  BY <1>1, LinkFacts DEF LinkTurns
<1>3. SocketTypes /\ socketSessions \in Sessions /\ queued \in [SocketTabs -> Seq(LogEntry)] /\ links \in [SocketTabs -> Nat]
  BY DEF SocketInv, SocketTypes, Sessions
<1>4. PICK v : v = HandleLoss(Shared, tab)
  OBVIOUS
<1>5. IsLoss(tab, socketSessions, queued, v)
  BY <1>2, <1>3, <1>4, SharedFacts, HandleLossFacts
<1>6. Share(v)
  BY <1>1, <1>4
<1>7. /\ queued'[tab] = queued[tab] \o <<Note>> /\ links'[tab] = 0
      /\ KeepsLog(SessionAt(tab), SessionAt(tab)')
  BY <1>2, <1>3, <1>5, <1>6 DEF IsLoss, Share, SessionAt
<1>8. DialsKeepTabs
  BY <1>3 DEF LinkTurns, SocketTypes, DialsKeepTabs
<1>9. LogIsSound(tab)'
  <2>1. LogIsNoted(tab)
    BY <1>2, <1>3, <1>7, NoteIsLogged, NoteFacts
  <2>2. LogIsSound(tab) /\ (links[tab] # 0 => links[tab] \in 1..Len(dials))
    BY <1>2 DEF SocketInv, ShownInv
  <2> QED BY <2>1, <2>2, <1>2, <1>3, <1>7, <1>8, LogKeepsSound DEF LogGoesOn
<1>10. OthersRest(socketSessions, socketSessions, tab)
  BY DEF OthersRest
<1> QED BY <1>1, <1>5, <1>6, <1>9, <1>10, LossStep

LEMMA DialFailsKeeps ==
  ASSUME SocketInv, NEW n \in 1..Len(dials), DialFails(n) PROVE SocketInv'
<1>1. PICK o \in Dial : o = dials[n]
  BY DialAt
<1>2. DialIsSound(o, IsCurrent(n), n \in receivers, platform) /\ HasStream(n, o, platform)
  BY <1>1, DialAt
<1>3. PICK d : d = [o EXCEPT !.at = "over", !.conn = "failed"]
  OBVIOUS
<1>4. /\ d \in Dial /\ d.tab = o.tab /\ d.at = "over" /\ d.conn = "failed" /\ d.inbox = o.inbox /\ d.early = o.early
      /\ d.pings = o.pings /\ d.isReady = o.isReady /\ d.frames = o.frames
  BY <1>3 DEF Dial
<1>5. /\ dials' = [dials EXCEPT ![n] = d] /\ o.at \in {"preparing", "opening"} /\ o.conn \in {"none", "failed"}
  BY <1>1, <1>3 DEF DialFails
<1>6. HasStream(n, d, platform) /\ Delivered(d) = Delivered(o)
  <2>1. Pending(d) = Pending(o)
    BY <1>4 DEF Pending
  <2> QED BY <1>2, <1>4, <1>5, <2>1, StreamStays
<1>7. DialIsSound(d, FALSE, n \in receivers, platform)
  BY <1>2, <1>4, <1>5 DEF DialIsSound
<1>8. /\ UNCHANGED <<openTabs, outgoing, wire, platform, socketBudget>> /\ receivers' = receivers
      /\ receivers \subseteq 1..Len(dials) /\ socketBudget \in [SocketUses -> Nat]
  BY DEF DialFails, SocketInv, SocketTypes
<1>9. CASE IsCurrent(n)
  <2>1. LinkTurns(n, d)
    BY <1>1, <1>4, <1>5, <1>8, <1>9 DEF LinkTurns
  <2>2. Share(HandleLoss(Shared, dials[n].tab))
    BY <1>9 DEF DialFails
  <2> QED BY <2>1, <2>2, <1>4, <1>6, <1>7, <1>8, LossIsShown
<1>10. CASE ~IsCurrent(n)
  <2>1. UNCHANGED <<socketSessions, queued, links, retrying>>
    BY <1>10 DEF DialFails
  <2>2. DialIsSound(d, IsCurrent(n), n \in receivers', platform)
    BY <1>7, <1>8, <1>10 DEF DialIsSound
  <2> QED BY <2>1, <2>2, <1>1, <1>4, <1>5, <1>6, <1>8, QuietStep
<1> QED BY <1>9, <1>10

LEMMA NoteKeepsLog ==
  ASSUME NEW e, NEW w \in BOOLEAN, NEW t, NEW n \in Nat, NEW k \in Int, LogOn(e, n, k, w), AreOfTab(e, t)
  PROVE  LogOn(e \o <<Note>>, n, k, w) /\ AreOfTab(e \o <<Note>>, t)
<1>1. PICK f : f = e \o <<Note>>
  OBVIOUS
<1>2. Carries(e, w, f, w)
  BY <1>1, NoteFacts, NoteIsAdded DEF LogOn
<1>3. AreOfTab(f, t)
  BY <1>2 DEF Carries, AreOfTab
<1> QED BY <1>1, <1>2, <1>3 DEF Carries, LogOn

LEMMA FramesAreOfTab ==
  ASSUME NEW e \in Seq(LogEntry), NEW n \in 1..Len(dials), NEW k \in Nat, NEW a \in Seq(LogEntry), AreFrames(a, n, k),
         AreOfTab(e, dials[n].tab)
  PROVE  AreOfTab(e \o a, dials[n].tab)
<1> DEFINE t == dials[n].tab
<1>1. PICK f : f = e \o a
  OBVIOUS
<1>2. /\ Len(f) = Len(e) + Len(a) /\ Len(e) \in Nat /\ Len(a) \in Nat
      /\ \A i \in 1..Len(e) : f[i] = e[i]
      /\ \A i \in 1..Len(a) : f[Len(e) + i] = a[i]
  BY <1>1, ConcatFacts
<1>3. AreOfTab(f, t)
  <2> SUFFICES ASSUME NEW i \in 1..Len(f), IsFrame(f[i])
               PROVE  f[i].dial \in 1..Len(dials) /\ dials[f[i].dial].tab = t /\ f[i].number > 0
    BY DEF AreOfTab
  <2>1. CASE i \in 1..Len(e)
    BY <2>1, <1>2 DEF AreOfTab
  <2>2. CASE i \notin 1..Len(e)
    <3>1. i - Len(e) \in 1..Len(a) /\ Len(e) + (i - Len(e)) = i
      BY <2>2, <1>2
    <3>2. f[i] = Frame(n, k + (i - Len(e)))
      BY <3>1, <1>2 DEF AreFrames
    <3>3. f[i].dial = n /\ f[i].number = k + (i - Len(e))
      BY <3>2 DEF Frame
    <3>4. k + (i - Len(e)) > 0
      BY <3>1, <1>2
    <3> QED BY <3>3, <3>4
  <2> QED BY <2>1, <2>2
<1> QED BY <1>1, <1>3

-----------------------------------------------------------------------------
(* Events reach the page *)

LEMMA KindsOfEvents == \A x \in SocketEvent : x.kind \in {"open", "closed", "frame"} /\ (IsFrame(x) => x \in LogEntry)
BY DEF SocketEvent, FrameEntry, IsFrame, LogEntry

LEMMA HeadAndTail ==
  ASSUME NEW S, NEW s \in Seq(S), s # <<>>
  PROVE  /\ Head(s) \in S /\ Tail(s) \in Seq(S) /\ <<Head(s)>> \in Seq(S) /\ s = <<Head(s)>> \o Tail(s)
         /\ Len(<<Head(s)>>) = 1 /\ <<Head(s)>>[1] = Head(s)
<1>1. Head(s) \in S /\ Tail(s) \in Seq(S) /\ Len(s) \in Nat /\ Len(s) > 0 /\ Head(s) = s[1]
      /\ Len(Tail(s)) = Len(s) - 1 /\ \A i \in 1..Len(s) - 1 : Tail(s)[i] = s[i + 1]
  OBVIOUS
<1>2. PICK h \in S, t \in Seq(S) : h = Head(s) /\ t = Tail(s)
  BY <1>1
<1>3. <<h>> \in Seq(S) /\ Len(<<h>>) = 1 /\ <<h>>[1] = h
  OBVIOUS
<1>4. PICK u : u = <<h>> \o t
  OBVIOUS
<1>5. u \in Seq(S) /\ Len(u) = 1 + Len(t) /\ u[1] = h /\ \A i \in 1..Len(t) : u[1 + i] = t[i]
  BY <1>4
<1>6. Len(u) = Len(s) /\ \A i \in 1..Len(s) : u[i] = s[i]
  <2>1. Len(u) = Len(s)
    BY <1>1, <1>2, <1>5
  <2>2. ASSUME NEW i \in 1..Len(s) PROVE u[i] = s[i]
    <3>1. CASE i = 1
      BY <3>1, <1>1, <1>2, <1>5
    <3>2. CASE i # 1
      <4>1. i - 1 \in 1..Len(t) /\ i - 1 \in 1..Len(s) - 1 /\ 1 + (i - 1) = i /\ (i - 1) + 1 = i
        BY <3>2, <1>1, <1>2
      <4>2. u[i] = t[i - 1] /\ t[i - 1] = s[i]
        BY <4>1, <1>1, <1>2, <1>5
      <4> QED BY <4>2
    <3> QED BY <3>1, <3>2
  <2> QED BY <2>1, <2>2
<1>7. u = s
  BY <1>5, <1>6, SeqEqual
<1> QED BY <1>1, <1>2, <1>3, <1>4, <1>7

\* what the dial, d, is after its oldest event, x, was handled, k frames having been shown
IsHandled(n, x, d, k) ==
  /\ d \in Dial /\ d.tab = dials[n].tab /\ d.isReady = dials[n].isReady /\ HasStream(n, d, platform)
  /\ x \in SocketEvent /\ (IsCurrent(n) => d.isReady) /\ k \in Int
  /\ x.kind = "closed" => d.inbox = <<>> /\ d.conn = "closed" /\ Delivered(d) = k
  /\ x.kind = "open" => k = -1 /\ Delivered(d) = 0
  /\ x.kind = "frame" => x = Frame(n, k + 1) /\ k \in Nat /\ Delivered(d) = k + 1
  /\ x.kind # "closed" => DialIsSound(d, IsCurrent(n), TRUE, platform)
  /\ x.kind = "closed" => DialIsSound(d, FALSE, FALSE, platform)

LEMMA HandledFacts ==
  ASSUME SocketInv, NEW n \in 1..Len(dials), dials[n].inbox # <<>>, n \in receivers
  PROVE  IsHandled(n, Head(dials[n].inbox), Handled(n, Head(dials[n].inbox)), Delivered(dials[n]))
<1>a. PICK x, d, k : x = Head(dials[n].inbox) /\ d = Handled(n, x) /\ k = Delivered(dials[n])
  OBVIOUS
<1>1. PICK o \in Dial : o = dials[n]
  BY DialAt
<1>2. DialIsSound(o, IsCurrent(n), TRUE, platform) /\ HasStream(n, o, platform) /\ k \in Int
  <2>1. (n \in receivers) = TRUE
    OBVIOUS
  <2> QED BY <1>a, <1>1, <2>1, DialAt
<1>3. o.at = "over" /\ o.early = <<>> /\ (IsCurrent(n) => o.isReady) /\ o.conn \notin {"none", "failed", "opening"}
  BY <1>1, <1>2 DEF DialIsSound
<1>4. PICK b \in Seq(SocketEvent), f \in Nat : b = o.inbox /\ f = o.frames
  BY DialFacts
<1>5. PICK c : c = Tail(b)
  OBVIOUS
<1>6. /\ x \in SocketEvent /\ c \in Seq(SocketEvent) /\ <<x>> \in Seq(SocketEvent) /\ b = <<x>> \o c
      /\ Len(<<x>>) = 1 /\ <<x>>[1] = x
  BY <1>a, <1>1, <1>4, <1>5, HeadAndTail
<1>7. PICK p \in BOOLEAN : p = IF IsCurrent(n) THEN x.kind # "closed" /\ (o.pings \/ x.kind = "open") ELSE o.pings
  BY DEF Dial
<1>8. d = [o EXCEPT !.inbox = c, !.pings = p]
  BY <1>a, <1>1, <1>4, <1>5, <1>7 DEF Handled
<1>9. /\ d \in Dial /\ d.tab = o.tab /\ d.at = o.at /\ d.conn = o.conn /\ d.inbox = c /\ d.early = o.early
      /\ d.pings = p /\ d.isReady = o.isReady /\ d.frames = f
  BY <1>4, <1>6, <1>8 DEF Dial
<1>10. Pending(o) = b /\ Pending(d) = c
  <2>1. <<>> \o b = b /\ <<>> \o c = c
    BY <1>6, ConcatEmptySeq
  <2> QED BY <2>1, <1>3, <1>4, <1>9 DEF Pending
<1>0. PICK z : z = (o.conn = "closed")
  OBVIOUS
<1>11. k = f - BeforeClosed(b) /\ Delivered(d) = f - BeforeClosed(c) /\ IsStream(n, b, k, z, platform)
  BY <1>a, <1>0, <1>1, <1>2, <1>4, <1>9, <1>10 DEF Delivered, HasStream
<1>12. PICK a \in Seq(SocketEvent) : a = <<x>>
  BY <1>6
<1>13. Splits(n, a, c, k, z, platform) /\ b = a \o c
  <2>1. b = a \o c
    BY <1>6, <1>12
  <2>2. IsStream(n, a \o c, k, z, platform)
    BY <2>1, <1>11
  <2> QED BY <2>1, <2>2, <1>2, <1>6, StreamParts
<1>14. Len(a) = 1 /\ a[1] = x /\ 1 \in 1..Len(a)
  BY <1>6, <1>12
<1>15. HasClosed(a) <=> x.kind = "closed"
  BY <1>14 DEF HasClosed
<1>16. BeforeClosed(a) = IF x.kind = "closed" THEN 0 ELSE 1
  BY <1>14, <1>15 DEF BeforeClosed
<1>17. Delivered(d) = k + BeforeClosed(a)
  <2>1. BeforeClosed(b) \in Int
    BY <1>13 DEF Splits
  <2>2. BeforeClosed(a) \in Nat /\ BeforeClosed(c) \in Int /\ BeforeClosed(b) = BeforeClosed(a) + BeforeClosed(c)
    BY <1>13 DEF Splits
  <2>3. k = f - BeforeClosed(b) /\ Delivered(d) = f - BeforeClosed(c)
    BY <1>11
  <2> QED BY <2>2, <2>3
<1>18. HasStream(n, d, platform)
  BY <1>0, <1>9, <1>10, <1>13, <1>17 DEF HasStream, Splits
<1>19. /\ x.kind = "open" => k = -1 /\ Delivered(d) = 0
       /\ x.kind = "frame" => x = Frame(n, k + 1) /\ k \in Nat /\ Delivered(d) = k + 1
  <2>1. /\ x.kind = "frame" => x = Frame(n, k + 1) /\ k + 1 > 0
        /\ x.kind = "open" => k + 1 = 0
    BY <1>13, <1>14 DEF Splits
  <2>2. x.kind # "closed" => Delivered(d) = k + 1
    BY <1>16, <1>17
  <2> QED BY <2>1, <2>2, <1>2
<1>20. x.kind = "closed" => c = <<>> /\ o.conn = "closed" /\ Delivered(d) = k
  <2>1. ASSUME x.kind = "closed" PROVE o.conn = "closed"
    <3>1. Len(b) \in Nat /\ 1 \in 1..Len(b) /\ b[1] = x
      BY <1>a, <1>1, <1>4
    <3> QED BY <2>1, <3>1, <1>0, <1>11 DEF IsStream
  <2> QED BY <2>1, <1>2, <1>13, <1>15, <1>16, <1>17 DEF Splits
<1>21. x.kind # "closed" => DialIsSound(d, IsCurrent(n), TRUE, platform)
  BY <1>2, <1>3, <1>7, <1>9 DEF DialIsSound
<1>22. x.kind = "closed" => DialIsSound(d, FALSE, FALSE, platform)
  BY <1>2, <1>3, <1>7, <1>9, <1>20 DEF DialIsSound
<1>23. IsHandled(n, x, d, k)
  BY <1>1, <1>2, <1>3, <1>6, <1>9, <1>18, <1>19, <1>20, <1>21, <1>22 DEF IsHandled
<1> QED BY <1>a, <1>23

LEMMA EntriesInQueue ==
  ASSUME NEW q \in [SocketTabs -> Seq(LogEntry)], NEW tab \in SocketTabs, NEW a \in Seq(LogEntry)
  PROVE  IsQueued(q, tab, a, Logged(q, tab, a))
<1>1. q[tab] \in Seq(LogEntry)
  OBVIOUS
<1>2. PICK e \in Seq(LogEntry) : e = q[tab] \o a
  <2>1. q[tab] \o a \in Seq(LogEntry)
    BY <1>1
  <2> QED BY <2>1
<1> QED BY <1>2 DEF Logged, IsQueued

LEMMA OneEntry == \A x \in LogEntry : <<x>> \in Seq(LogEntry) /\ \E a \in Seq(LogEntry) : a = <<x>>
<1> SUFFICES ASSUME NEW x \in LogEntry PROVE <<x>> \in Seq(LogEntry)
  OBVIOUS
<1> QED OBVIOUS

\* the log of a tab that is linked to dial n
LogIsOn(t, n) ==
  /\ LogOn(Shown(t), n, Delivered(dials[n]), IsWhole(SessionAt(t))) /\ AreOfTab(Shown(t), t)
  /\ Shown(t) \in Seq(LogEntry) /\ IsWhole(SessionAt(t)) \in BOOLEAN

LEMMA LogBefore ==
  ASSUME SocketInv, NEW t \in SocketTabs, NEW n, links[t] = n, n # 0
  PROVE  LogIsOn(t, n)
<1>1. Shown(t) \in Seq(LogEntry) /\ IsWhole(SessionAt(t)) \in BOOLEAN
  BY SessionAtFacts DEF SocketInv
<1>2. LogIsSound(t)
  BY DEF SocketInv, ShownInv
<1> QED BY <1>1, <1>2 DEF LogIsSound, LogOn, LogIsOn

LEMMA LogAfter ==
  ASSUME DialsKeepTabs, NEW t \in SocketTabs, NEW n, links'[t] \in {0, n}, AreOfTab(Shown(t)', t),
         LogOn(Shown(t)', n, Delivered(dials'[n]), IsWhole(SessionAt(t))')
  PROVE  LogIsSound(t)'
<1>0. PICK f : f = Shown(t)'
  OBVIOUS
<1>1. AreOfTab(f, t)'
  BY <1>0, TabsAreKept
<1>2. AreOfTab(Shown(t), t)'
  BY <1>0, <1>1
<1> QED BY <1>2 DEF LogIsSound, LogOn

\* the link stays as it is and its dial has shown a frame more
LEMMA FrameStep ==
  ASSUME SocketInv, NEW n \in 1..Len(dials), NEW d \in Dial, LinkTurns(n, d), d.isReady,
         UNCHANGED <<socketSessions, links, retrying, wire>>,
         DialIsSound(d, TRUE, n \in receivers', platform), HasStream(n, d, platform),
         NEW tab, tab = dials[n].tab, NEW x, queued' = Logged(queued, tab, <<x>>),
         NEW k \in Nat, k = Delivered(dials[n]), x = Frame(n, k + 1), Delivered(d) = k + 1
  PROVE  SocketInv'
<1>1. /\ tab \in SocketTabs /\ links[tab] = n /\ n # 0 /\ n \in Nat /\ tab \notin retrying /\ tab \in openTabs
  BY LinkFacts DEF LinkTurns
<1>2. SocketTypes /\ queued \in [SocketTabs -> Seq(LogEntry)]
  BY DEF SocketInv, SocketTypes
<1>3. x \in LogEntry
  <2>1. k + 1 \in Nat
    OBVIOUS
  <2> QED BY <2>1, <1>1, FrameIsEvent
<1>4. /\ queued' \in [SocketTabs -> Seq(LogEntry)] /\ queued'[tab] = queued[tab] \o <<x>>
      /\ \A t \in SocketTabs : t # tab => queued'[t] = queued[t]
  <2>1. PICK a \in Seq(LogEntry) : a = <<x>>
    BY <1>3, OneEntry
  <2>2. IsQueued(queued, tab, a, Logged(queued, tab, a))
    BY <1>1, <1>2, EntriesInQueue
  <2> QED BY <2>1, <2>2 DEF IsQueued
<1>5. dials' = [dials EXCEPT ![n] = d] /\ d.tab = dials[n].tab /\ dials \in Seq(Dial)
  BY <1>2 DEF LinkTurns, SocketTypes
<1>6. \A m \in 1..Len(dials) : IsCurrent(m)' <=> IsCurrent(m)
  BY <1>5 DEF IsCurrent
<1>7. DialTurns(n, d)
  BY <1>6 DEF DialTurns, LinkTurns
<1>8. /\ DialsKeepTabs /\ dials' \in Seq(Dial) /\ Len(dials') = Len(dials) /\ dials'[n] = d
      /\ \A m \in 1..Len(dials) : m # n => dials'[m] = dials[m]
  BY <1>2, <1>7, DialTurnsFacts
<1>9. DialInv' /\ StreamInv'
  <2>1. DialIsSound(d, IsCurrent(n)', n \in receivers', platform)
    BY <1>6 DEF DialIsSound, LinkTurns
  <2> QED BY <2>1, <1>2, <1>7, OneDialChanges DEF SocketInv
<1>10. \A t \in SocketTabs : SessionAt(t)' = SessionAt(t)
  BY DEF SessionAt
<1>11. MessageInv'
  BY <1>8, <1>10, MessageKeeps DEF SocketInv, LinkTurns
<1>12. SocketTypes'
  BY <1>2, <1>4, <1>8 DEF SocketTypes, LinkTurns
<1>13. OnlyTab(tab) /\ OnlyItsDials(tab)
  BY <1>4, <1>8, <1>10 DEF OnlyTab, OnlyItsDials, LinkTurns
<1>14. TabIsSound(tab)'
  <2>1. TabIsSound(tab)
    BY <1>1 DEF SocketInv, TabInv, TabIsSound
  <2> QED BY <2>1, <1>1, <1>5, <1>8, <1>10 DEF TabIsSound, LinkTurns
<1>15. LogIsSound(tab)'
  <2>1. PICK e, w : e = Shown(tab) /\ w = IsWhole(SessionAt(tab))
    OBVIOUS
  <2>2. LogOn(e, n, k, w) /\ AreOfTab(e, tab) /\ e \in Seq(LogEntry) /\ w \in BOOLEAN
    <3>1. LogIsOn(tab, n)
      BY <1>1, LogBefore
    <3> QED BY <3>1, <2>1 DEF LogIsOn
  <2>3. PICK a \in Seq(LogEntry) : a = <<x>>
    BY <1>3, OneEntry
  <2>4. Len(a) = 1 /\ AreFrames(a, n, k)
    BY <2>3 DEF AreFrames
  <2>5. Shown(tab)' = e \o a /\ IsWhole(SessionAt(tab))' = w
    <3>1. KeepsLog(SessionAt(tab), SessionAt(tab)') /\ queued'[tab] = queued[tab] \o a
      BY <2>3, <1>1, <1>4, <1>10 DEF KeepsLog
    <3> QED BY <3>1, <2>1, <1>1, <1>2, LogIsAppended
  <2>6. LogOn(e \o a, n, k + Len(a), w)
    BY <2>2, <2>4, <1>1, FramesAreAdded
  <2>7. AreOfTab(e \o a, tab)
    BY <2>2, <2>4, FramesAreOfTab
  <2>8. LogOn(Shown(tab)', n, Delivered(dials'[n]), IsWhole(SessionAt(tab))')
    BY <2>4, <2>5, <2>6, <1>8
  <2>9. AreOfTab(Shown(tab)', tab) /\ links'[tab] \in {0, n}
    BY <2>5, <2>7, <1>1
  <2> QED BY <2>8, <2>9, <1>1, <1>8, LogAfter
<1> QED BY <1>1, <1>8, <1>9, <1>11, <1>12, <1>13, <1>14, <1>15, TabStep

\* an event that is kept for later
LEMMA BufferedFacts ==
  ASSUME SocketInv, NEW n \in 1..Len(dials), dials[n].inbox # <<>>, n \notin receivers, NEW d, d = Buffered(dials[n])
  PROVE  /\ d \in Dial /\ d.tab = dials[n].tab /\ d.isReady = dials[n].isReady
         /\ HasStream(n, d, platform) /\ Delivered(d) = Delivered(dials[n])
         /\ DialIsSound(d, IsCurrent(n), FALSE, platform)
<1>1. PICK o \in Dial : o = dials[n]
  BY DialAt
<1>2. DialIsSound(o, IsCurrent(n), FALSE, platform) /\ HasStream(n, o, platform)
  <2>1. (n \in receivers) = FALSE
    OBVIOUS
  <2> QED BY <1>1, <2>1, DialAt
<1>3. o.at = "opening" /\ o.conn \notin {"none", "failed", "opening"} /\ ~o.isReady /\ ~o.pings
  <2>1. o.at \in {"preparing", "opening", "over"}
    BY DEF Dial
  <2> QED BY <2>1, <1>1, <1>2 DEF DialIsSound
<1>4. PICK a \in Seq(SocketEvent), b \in Seq(SocketEvent) : a = o.early /\ b = o.inbox
  BY DialFacts
<1>5. PICK x, c : x = Head(b) /\ c = Tail(b)
  OBVIOUS
<1>6. x \in SocketEvent /\ c \in Seq(SocketEvent) /\ <<x>> \in Seq(SocketEvent) /\ b = <<x>> \o c
  BY <1>1, <1>4, <1>5, HeadAndTail
<1>7. PICK h \in Seq(SocketEvent) : h = Append(a, x)
  <2>1. Append(a, x) \in Seq(SocketEvent)
    BY <1>6
  <2> QED BY <2>1
<1>8. d = [o EXCEPT !.inbox = c, !.early = h]
  BY <1>1, <1>3, <1>4, <1>5, <1>7 DEF Buffered
<1>9. /\ d \in Dial /\ d.tab = o.tab /\ d.at = o.at /\ d.conn = o.conn /\ d.inbox = c /\ d.early = h
      /\ d.pings = o.pings /\ d.isReady = o.isReady /\ d.frames = o.frames
  BY <1>6, <1>7, <1>8 DEF Dial
<1>10. Pending(d) = Pending(o)
  <2>1. h = a \o <<x>>
    BY <1>4, <1>6, <1>7
  <2>2. PICK y \in Seq(SocketEvent) : y = <<x>>
    BY <1>6
  <2>3. (a \o y) \o c = a \o (y \o c)
    BY <1>6, EventsAssociate
  <2> QED BY <2>1, <2>2, <2>3, <1>4, <1>6, <1>9 DEF Pending
<1>11. HasStream(n, d, platform) /\ Delivered(d) = Delivered(o)
  BY <1>2, <1>9, <1>10, StreamStays
<1>12. DialIsSound(d, IsCurrent(n), FALSE, platform)
  BY <1>2, <1>3, <1>9 DEF DialIsSound
<1> QED BY <1>1, <1>9, <1>11, <1>12

LEMMA DeliverEventsKeeps ==
  ASSUME SocketInv, NEW n \in 1..Len(dials), DeliverEvents(n) PROVE SocketInv'
<1>1. PICK x : x = Head(dials[n].inbox)
  OBVIOUS
<1>2. /\ dials[n].inbox # <<>> /\ UNCHANGED <<openTabs, outgoing, platform, socketBudget>>
      /\ receivers \subseteq 1..Len(dials) /\ socketBudget \in [SocketUses -> Nat]
  BY DEF DeliverEvents, SocketInv, SocketTypes
<1>3. CASE n \notin receivers
  <2>1. PICK d : d = Buffered(dials[n])
    OBVIOUS
  <2>2. /\ d \in Dial /\ d.tab = dials[n].tab /\ d.isReady = dials[n].isReady
        /\ HasStream(n, d, platform) /\ Delivered(d) = Delivered(dials[n])
        /\ DialIsSound(d, IsCurrent(n), FALSE, platform)
    BY <2>1, <1>2, <1>3, BufferedFacts
  <2>3. dials' = [dials EXCEPT ![n] = d] /\ UNCHANGED <<socketSessions, queued, links, retrying, receivers, wire>>
    BY <2>1, <1>3 DEF DeliverEvents
  <2>4. DialIsSound(d, IsCurrent(n), n \in receivers', platform)
    BY <2>2, <2>3, <1>3 DEF DialIsSound
  <2> QED BY <2>2, <2>3, <2>4, <1>2, QuietStep
<1>4. CASE n \in receivers
  <2>1. PICK d, k : d = Handled(n, x) /\ k = Delivered(dials[n])
    OBVIOUS
  <2>2. /\ d \in Dial /\ d.tab = dials[n].tab /\ d.isReady = dials[n].isReady /\ HasStream(n, d, platform)
        /\ x \in SocketEvent /\ (IsCurrent(n) => d.isReady) /\ k \in Int
        /\ x.kind = "closed" => d.inbox = <<>> /\ d.conn = "closed" /\ Delivered(d) = k
        /\ x.kind = "open" => k = -1 /\ Delivered(d) = 0
        /\ x.kind = "frame" => x = Frame(n, k + 1) /\ k \in Nat /\ Delivered(d) = k + 1
        /\ x.kind # "closed" => DialIsSound(d, IsCurrent(n), TRUE, platform)
        /\ x.kind = "closed" => DialIsSound(d, FALSE, FALSE, platform)
    <3>1. IsHandled(n, x, d, k)
      BY <2>1, <1>1, <1>2, <1>4, HandledFacts
    <3> QED BY <3>1 DEF IsHandled
  <2>3. /\ Share(IF x.kind # "open" THEN ReceiveFrame(Shared, n, x)
                 ELSE IF x.kind = "open" /\ IsCurrent(n) THEN OnOpen(Shared, n) ELSE Shared)
        /\ receivers' = IF x.kind = "closed" THEN receivers \ {n} ELSE receivers
        /\ dials' = [dials EXCEPT ![n] = d]
        /\ wire' = IF x.kind = "open" /\ IsCurrent(n) THEN Append(wire, [dial |-> n, message |-> 0]) ELSE wire
    BY <2>1, <1>1, <1>4 DEF DeliverEvents
  <2>4. receivers' \subseteq 1..Len(dials) /\ \A m \in 1..Len(dials) : m # n => (m \in receivers' <=> m \in receivers)
    BY <2>3, <1>2
  <2>5. x.kind \in {"open", "closed", "frame"}
    BY <2>2, KindsOfEvents
  <2>6. n \in receivers' <=> x.kind # "closed"
    BY <2>3, <1>4
  <2>7. CASE ~IsCurrent(n)
    <3>1. Share(Shared) /\ wire' = wire
      BY <2>3, <2>5, <2>7, SharedFacts DEF ReceiveFrame, IsCurrent
    <3>2. UNCHANGED <<socketSessions, queued, links, retrying>>
      BY <3>1, SharedFacts DEF Share
    <3>3. DialIsSound(d, IsCurrent(n), n \in receivers', platform)
      BY <2>2, <2>6, <2>7 DEF DialIsSound
    <3> QED BY <3>1, <3>2, <3>3, <2>2, <2>3, <2>4, <2>7, <1>2, QuietStep
  <2>8. CASE IsCurrent(n)
    <3>1. LinkTurns(n, d)
      BY <2>2, <2>3, <2>4, <2>8, <1>2 DEF LinkTurns
    <3>2. CASE x.kind = "closed"
      <4>1. Share(HandleLoss(Shared, dials[n].tab)) /\ wire' = wire
        BY <2>3, <2>8, <3>2, SharedFacts DEF ReceiveFrame, IsCurrent
      <4>2. DialIsSound(d, FALSE, n \in receivers', platform)
        BY <2>2, <2>6, <3>2 DEF DialIsSound
      <4> QED BY <4>1, <4>2, <3>1, <2>2, LossIsShown
    <3>3. CASE x.kind = "frame"
      <4>1. Share(OnFrame(Shared, n, x)) /\ wire' = wire
        BY <2>3, <2>8, <3>3, SharedFacts DEF ReceiveFrame, IsCurrent
      <4>2. queued' = Logged(queued, dials[n].tab, <<x>>) /\ UNCHANGED <<socketSessions, links, retrying>>
        BY <4>1 DEF Share, OnFrame, Shared
      <4>3. DialIsSound(d, TRUE, n \in receivers', platform)
        BY <2>2, <2>6, <2>8, <3>3 DEF DialIsSound
      <4> QED BY <4>1, <4>2, <4>3, <3>1, <3>3, <2>1, <2>2, <2>8, FrameStep
    <3>4. CASE x.kind = "open"
      <4>1. PICK tab : tab = dials[n].tab
        OBVIOUS
      <4>2. tab \in SocketTabs /\ links[tab] = n
        BY <4>1, <2>8, LinkFacts
      <4>3. /\ socketSessions' = Status(socketSessions, tab, "open") /\ queued' = Logged(queued, tab, <<Note>>)
            /\ UNCHANGED <<links, retrying>> /\ wire' = Append(wire, [dial |-> n, message |-> 0])
        <5>1. Share(OnOpen(Shared, n)) /\ wire' = Append(wire, [dial |-> n, message |-> 0])
          BY <2>3, <2>8, <3>4
        <5> QED BY <4>1, <5>1 DEF Share, OnOpen, Shared
      <4>4. SocketTypes /\ queued \in [SocketTabs -> Seq(LogEntry)] /\ socketSessions \in Sessions
        BY DEF SocketInv, SocketTypes, Sessions
      <4>5. /\ queued' \in [SocketTabs -> Seq(LogEntry)] /\ queued'[tab] = queued[tab] \o <<Note>>
            /\ \A t \in SocketTabs : t # tab => queued'[t] = queued[t]
        BY <4>2, <4>3, <4>4, NoteInQueue, NoteFacts DEF IsQueued
      <4>6. DialIsSound(d, TRUE, n \in receivers', platform)
        BY <2>2, <2>6, <2>8, <3>4 DEF DialIsSound
      <4>7. DialsKeepTabs /\ dials'[n] = d
        BY <4>4, <2>2, <2>3 DEF DialsKeepTabs, SocketTypes
      <4>8. LogIsSound(tab)'
        <5>1. KeepsLog(SessionAt(tab), SessionAt(tab)')
          BY <4>2, <4>3, <4>4, StatusIsSet DEF SessionAt, StatusIs
        <5>2. LogIsNoted(tab)
          BY <5>1, <4>2, <4>4, <4>5, NoteIsLogged, NoteFacts
        <5>3. LinkRests(tab)
          BY <4>2, <4>3, <4>7, <2>1, <2>2, <3>4 DEF LinkRests
        <5>4. LogIsSound(tab)
          BY <4>2 DEF SocketInv, ShownInv
        <5> QED BY <5>2, <5>3, <5>4, <4>2, <4>4, <4>7, LogKeepsSound DEF LogGoesOn
      <4> QED BY <4>1, <4>3, <4>5, <4>6, <4>8, <3>1, <2>2, <2>8, OpenStep
    <3> QED BY <2>5, <3>2, <3>3, <3>4
  <2> QED BY <2>7, <2>8
<1> QED BY <1>3, <1>4

\* the reply of WSConnect: what came before it
EarlyFrames(n) == SubSeq(dials[n].early, 1, BeforeClosed(dials[n].early))

IsEarly(n) ==
  /\ ~dials[n].isReady /\ ~dials[n].pings /\ n \notin receivers /\ Delivered(dials[n]) \in Nat
  /\ EarlyFrames(n) \in Seq(LogEntry) /\ Len(EarlyFrames(n)) = BeforeClosed(dials[n].early)
  /\ AreFrames(EarlyFrames(n), n, Delivered(dials[n]))
  /\ HasClosed(dials[n].early) => dials[n].inbox = <<>> /\ dials[n].conn = "closed"
  /\ Splits(n, dials[n].early, dials[n].inbox, Delivered(dials[n]), dials[n].conn = "closed", platform)

LEMMA EarlyFacts ==
  ASSUME SocketInv, NEW n \in 1..Len(dials), platform = "desktop", dials[n].at = "opening"
  PROVE  IsEarly(n)
<1>1. PICK o \in Dial : o = dials[n]
  BY DialAt
<1>2. /\ DialIsSound(o, IsCurrent(n), n \in receivers, platform) /\ HasStream(n, o, platform)
  BY <1>1, DialAt
<1>3. ~o.isReady /\ ~o.pings /\ n \notin receivers
  BY <1>1, <1>2 DEF DialIsSound
<1>4. PICK k \in Nat : k = Delivered(o)
  BY <1>2, DeliveredBounds
<1>5. PICK a \in Seq(SocketEvent), b \in Seq(SocketEvent) : a = o.early /\ b = o.inbox
  BY DialFacts
<1>6. PICK z : z = (o.conn = "closed")
  OBVIOUS
<1>7. IsStream(n, a \o b, k, z, platform)
  BY <1>2, <1>4, <1>5, <1>6 DEF HasStream, Pending
<1>8. Splits(n, a, b, k, z, platform)
  BY <1>7, StreamParts
<1>9. PICK c \in Nat : c = BeforeClosed(a)
  BY <1>8 DEF Splits
<1>10. \A i \in 1..c : i \in 1..Len(a) /\ a[i].kind = "frame" /\ a[i] = Frame(n, k + i) /\ a[i] \in LogEntry
  <2> SUFFICES ASSUME NEW i \in 1..c
               PROVE  i \in 1..Len(a) /\ a[i].kind = "frame" /\ a[i] = Frame(n, k + i) /\ a[i] \in LogEntry
    OBVIOUS
  <2>1. i \in 1..Len(a) /\ a[i].kind # "closed"
    BY <1>8, <1>9 DEF Splits
  <2>2. PICK x \in SocketEvent : x = a[i]
    BY <2>1
  <2>3. x.kind \in {"open", "closed", "frame"} /\ (IsFrame(x) => x \in LogEntry)
    BY KindsOfEvents
  <2>4. x.kind # "open"
    BY <2>1, <2>2, <1>8 DEF Splits
  <2>5. x.kind = "frame"
    BY <2>1, <2>2, <2>3, <2>4
  <2>6. a[i] = Frame(n, k + i)
    BY <2>1, <2>2, <2>5, <1>8 DEF Splits
  <2> QED BY <2>1, <2>2, <2>3, <2>5, <2>6 DEF IsFrame
<1>11. c <= Len(a) /\ Len(a) \in Nat
  <2>1. Len(a) \in Nat
    OBVIOUS
  <2> QED BY <2>1, <1>9 DEF BeforeClosed
<1>12. PICK s : s = SubSeq(a, 1, c)
  OBVIOUS
<1>13. /\ s \in Seq(SocketEvent) /\ Len(s) = c /\ \A i \in 1..c : s[i] = a[i]
  <2>1. /\ s \in Seq(SocketEvent) /\ Len(s) = IF 1 <= c THEN c - 1 + 1 ELSE 0
        /\ \A i \in 1..c - 1 + 1 : s[i] = a[1 + i - 1]
    BY <1>11, <1>12, SubSeqProperties
  <2> QED BY <2>1
<1>14. s \in Seq(LogEntry)
  <2>1. s = [i \in 1..c |-> s[i]]
    BY <1>13
  <2>2. \A i \in 1..c : s[i] \in LogEntry
    BY <1>10, <1>13
  <2> QED BY <1>13, <2>2, SeqDef
<1>15. AreFrames(s, n, k)
  BY <1>10, <1>13 DEF AreFrames
<1>16. HasClosed(a) => b = <<>> /\ z
  <2>1. HasClosed(a) => b = <<>>
    BY <1>8 DEF Splits
  <2>2. ASSUME HasClosed(a) PROVE z
    <3>1. PICK i \in 1..Len(a) : a[i].kind = "closed"
      BY <2>2 DEF HasClosed
    <3>2. i \in 1..Len(a \o b) /\ (a \o b)[i] = a[i]
      BY ConcatFacts
    <3> QED BY <3>1, <3>2, <1>7 DEF IsStream
  <2> QED BY <2>1, <2>2
<1>17. EarlyFrames(n) = s
  BY <1>1, <1>5, <1>9, <1>12 DEF EarlyFrames
<1> QED BY <1>1, <1>3, <1>4, <1>5, <1>6, <1>8, <1>9, <1>13, <1>14, <1>15, <1>16, <1>17 DEF IsEarly

\* the dial once its transport is there, kept when c and closed if not
IsTransport(n, c, d) ==
  /\ d \in Dial /\ d.tab = dials[n].tab /\ d.isReady = c /\ HasStream(n, d, platform)
  /\ Delivered(d) = Delivered(dials[n]) + Len(EarlyFrames(n))
  /\ DialIsSound(d, c, ~HasClosed(dials[n].early), platform)

LEMMA TransportFacts ==
  ASSUME SocketInv, NEW n \in 1..Len(dials), platform = "desktop", dials[n].at = "opening",
         dials[n].conn \notin {"none", "failed"}, NEW c \in BOOLEAN
  PROVE  IsTransport(n, c, Transport(n, c))
<1>1. PICK o \in Dial : o = dials[n]
  BY DialAt
<1>2. /\ DialIsSound(o, IsCurrent(n), n \in receivers, platform) /\ IsEarly(n)
  BY <1>1, DialAt, EarlyFacts
<1>0. PICK m \in Seq(SocketEvent) : m = <<>>
  BY EmptySeq
<1>3. PICK e : e = [o EXCEPT !.at = "over", !.early = m, !.isReady = c, !.pings = c]
  OBVIOUS
<1>4. /\ e \in Dial /\ e.tab = o.tab /\ e.at = "over" /\ e.conn = o.conn /\ e.inbox = o.inbox /\ e.early = m
      /\ e.pings = c /\ e.isReady = c /\ e.frames = o.frames
  BY <1>3 DEF Dial
<1>5. PICK d : d = IF c THEN e ELSE Closed(e)
  OBVIOUS
<1>6. /\ d \in Dial /\ d.tab = o.tab /\ d.at = "over" /\ d.inbox = o.inbox /\ d.early = <<>>
      /\ d.pings = c /\ d.isReady = c /\ d.frames = o.frames
      /\ d.conn = IF ~c /\ o.conn \in {"opening", "open"} THEN "closing" ELSE o.conn
  <2>1. CASE c
    BY <2>1, <1>0, <1>4, <1>5
  <2>2. CASE ~c
    BY <2>2, <1>0, <1>4, <1>5, ClosedFacts
  <2> QED BY <2>1, <2>2
<1>7. d = Transport(n, c)
  BY <1>0, <1>1, <1>3, <1>5 DEF Transport
<1>8. PICK a \in Seq(SocketEvent), b \in Seq(SocketEvent), f \in Nat : a = o.early /\ b = o.inbox /\ f = o.frames
  BY DialFacts
<1>9. PICK k \in Nat : k = Delivered(o)
  BY <1>1, <1>2 DEF IsEarly
<1>10. Pending(o) = a \o b /\ Pending(d) = b
  <2>1. <<>> \o b = b
    BY ConcatEmptySeq
  <2> QED BY <2>1, <1>6, <1>8 DEF Pending
<1>11. PICK z : z = (o.conn = "closed")
  OBVIOUS
<1>12. Splits(n, a, b, k, z, platform)
  BY <1>1, <1>2, <1>8, <1>9, <1>11 DEF IsEarly
<1>13. Delivered(d) = k + BeforeClosed(a)
  <2>1. k = f - BeforeClosed(a \o b) /\ Delivered(d) = f - BeforeClosed(b)
    BY <1>6, <1>8, <1>9, <1>10 DEF Delivered
  <2>2. BeforeClosed(a) \in Nat /\ BeforeClosed(b) \in Int /\ BeforeClosed(a \o b) = BeforeClosed(a) + BeforeClosed(b)
    BY <1>12 DEF Splits
  <2> QED BY <2>1, <2>2
<1>14. HasStream(n, d, platform)
  <2>1. (d.conn = "closed") = z
    BY <1>6, <1>11
  <2>2. IsStream(n, b, k + BeforeClosed(a), z, platform)
    BY <1>12 DEF Splits
  <2> QED BY <2>1, <2>2, <1>10, <1>13 DEF HasStream
<1>15. DialIsSound(d, c, ~HasClosed(a), platform)
  <2>1. HasClosed(a) => d.inbox = <<>> /\ d.conn = "closed"
    BY <1>1, <1>2, <1>6, <1>8 DEF IsEarly
  <2>2. d.conn \in {"none", "failed", "opening"} => d.inbox = <<>> /\ d.frames = 0
    BY <1>2, <1>6 DEF DialIsSound
  <2>3. d.conn \in {"opening", "open"} => c
    BY <1>6
  <2>4. HasClosed(a) \in BOOLEAN
    BY DEF HasClosed
  <2> QED BY <2>1, <2>2, <2>3, <2>4, <1>6 DEF DialIsSound
<1>16. Len(EarlyFrames(n)) = BeforeClosed(a)
  BY <1>1, <1>2, <1>8 DEF IsEarly
<1> QED BY <1>1, <1>6, <1>7, <1>8, <1>9, <1>13, <1>14, <1>15, <1>16 DEF IsTransport

\* what the handlers of a dial share, put together
FourOf(all, q, l, r) == [socketSessions |-> all, queued |-> q, links |-> l, retrying |-> r]

LEMMA SharedIsFour == Shared = FourOf(socketSessions, queued, links, retrying)
BY DEF Shared, FourOf

LEMMA FourFacts ==
  ASSUME NEW all, NEW q, NEW l, NEW r
  PROVE  /\ FourOf(all, q, l, r).socketSessions = all /\ FourOf(all, q, l, r).queued = q
         /\ FourOf(all, q, l, r).links = l /\ FourOf(all, q, l, r).retrying = r
BY DEF FourOf

Opened(s, a, b) == [s EXCEPT !.socketSessions = a, !.queued = b]

LEMMA OpenedLater ==
  ASSUME NEW all, NEW q, NEW l, NEW r, NEW a, NEW b
  PROVE  Opened(FourOf(all, q, l, r), a, b) = FourOf(a, b, l, r)
<1> DEFINE R == [socketSessions : {all, a}, queued : {q, b}, links : {l}, retrying : {r}]
<1>1. PICK s \in R : s = FourOf(all, q, l, r)
  BY DEF FourOf
<1>2. PICK g : g = [s EXCEPT !.socketSessions = a, !.queued = b]
  OBVIOUS
<1>3. g \in R /\ g.socketSessions = a /\ g.queued = b /\ g.links = l /\ g.retrying = r
  BY <1>2
<1>4. g = FourOf(a, b, l, r)
  BY <1>3 DEF FourOf
<1> QED BY <1>1, <1>2, <1>4 DEF Opened

LEMMA OnOpenFacts ==
  ASSUME NEW n, NEW tab, tab = dials[n].tab
  PROVE  OnOpen(Shared, n) = FourOf(Status(socketSessions, tab, "open"), Logged(queued, tab, <<Note>>), links, retrying)
<1>1. PICK a, b : a = Status(socketSessions, tab, "open") /\ b = Logged(queued, tab, <<Note>>)
  OBVIOUS
<1>2. Opened(FourOf(socketSessions, queued, links, retrying), a, b) = FourOf(a, b, links, retrying)
  BY OpenedLater
<1>3. OnOpen(Shared, n) = Opened(Shared, a, b)
  BY <1>1, SharedFacts DEF OnOpen, Opened
<1> QED BY <1>1, <1>2, <1>3, SharedIsFour

LEMMA QueuedLater ==
  ASSUME NEW all, NEW q, NEW l, NEW r, NEW p
  PROVE  [FourOf(all, q, l, r) EXCEPT !.queued = p] = FourOf(all, p, l, r)
BY DEF FourOf

Associate(a, b) == \A z \in Seq(LogEntry) : (z \o a) \o b = z \o (a \o b)

LEMMA EntriesAssociate ==
  ASSUME NEW a \in Seq(LogEntry), NEW b \in Seq(LogEntry) PROVE Associate(a, b)
BY ConcatAssociative DEF Associate

LEMMA ReceiveAllFacts ==
  ASSUME NEW all, NEW q, NEW l, NEW r, NEW n, NEW events, NEW tab, tab = dials[n].tab,
         NEW later, later = FourOf(all, Logged(q, tab, SubSeq(events, 1, BeforeClosed(events))), l, r)
  PROVE  ReceiveAll(FourOf(all, q, l, r), n, events) =
           IF l[tab] # n THEN FourOf(all, q, l, r) ELSE IF HasClosed(events) THEN HandleLoss(later, tab) ELSE later
<1>1. PICK s : s = FourOf(all, q, l, r)
  OBVIOUS
<1>2. s.links = l /\ s.queued = q
  BY <1>1, FourFacts
<1>3. [s EXCEPT !.queued = Logged(s.queued, tab, SubSeq(events, 1, BeforeClosed(events)))] = later
  BY <1>1, <1>2, QueuedLater
<1> QED BY <1>1, <1>2, <1>3 DEF ReceiveAll

LEMMA DesktopOpensKeeps ==
  ASSUME SocketInv, NEW n \in 1..Len(dials), DesktopOpens(n) PROVE SocketInv'
<1>1. PICK tab \in SocketTabs : tab = dials[n].tab
  BY DialAt
<1>2. PICK v, c, early : /\ v = ReceiveAll(IF IsCurrent(n) THEN OnOpen(Shared, n) ELSE Shared, n, dials[n].early)
                         /\ c = (v.links[tab] = n) /\ early = dials[n].early
  OBVIOUS
<1>3. /\ platform = "desktop" /\ dials[n].at = "opening" /\ dials[n].conn \notin {"none", "failed"}
      /\ Share(v) /\ dials' = [dials EXCEPT ![n] = Transport(n, c)]
      /\ receivers' = IF HasClosed(early) THEN receivers ELSE receivers \cup {n}
      /\ wire' = IF c THEN Append(wire, [dial |-> n, message |-> 0]) ELSE wire
      /\ UNCHANGED <<openTabs, outgoing, platform, socketBudget>>
  BY <1>1, <1>2 DEF DesktopOpens
<1>4. c \in BOOLEAN
  BY <1>2
<1>5. PICK d : d = Transport(n, c)
  OBVIOUS
<1>6. IsTransport(n, c, d) /\ IsEarly(n)
  BY <1>3, <1>4, <1>5, TransportFacts, EarlyFacts
<1>7. /\ d \in Dial /\ d.tab = dials[n].tab /\ d.isReady = c /\ HasStream(n, d, platform)
      /\ DialIsSound(d, c, ~HasClosed(early), platform)
      /\ ~dials[n].isReady /\ n \notin receivers
  BY <1>2, <1>6 DEF IsTransport, IsEarly
<1>8. /\ receivers' \subseteq 1..Len(dials) /\ \A m \in 1..Len(dials) : m # n => (m \in receivers' <=> m \in receivers)
      /\ n \in receivers' <=> ~HasClosed(early)
      /\ socketBudget \in [SocketUses -> Nat]
  BY <1>3, <1>7 DEF SocketInv, SocketTypes
<1>9. DialIsSound(d, c, n \in receivers', platform)
  BY <1>7, <1>8 DEF DialIsSound
<1>10. PICK s \in Seq(LogEntry), k \in Nat :
         /\ s = EarlyFrames(n) /\ k = Delivered(dials[n]) /\ AreFrames(s, n, k) /\ Delivered(d) = k + Len(s)
  BY <1>6 DEF IsTransport, IsEarly
<1>11. SocketTypes /\ socketSessions \in Sessions /\ queued \in [SocketTabs -> Seq(LogEntry)] /\ links \in [SocketTabs -> Nat]
  BY DEF SocketInv, SocketTypes, Sessions
<1>12. CASE ~IsCurrent(n)
  <2>1. links[tab] # n
    BY <1>1, <1>12 DEF IsCurrent
  <2>2. v = Shared
    <3>1. v = ReceiveAll(FourOf(socketSessions, queued, links, retrying), n, early)
      BY <1>2, <1>12, SharedIsFour
    <3>2. v = FourOf(socketSessions, queued, links, retrying)
      BY <3>1, <2>1, <1>1, ReceiveAllFacts
    <3> QED BY <3>2, SharedIsFour
  <2>3. ~c /\ UNCHANGED <<socketSessions, queued, links, retrying, wire>>
    BY <2>1, <2>2, <1>2, <1>3, SharedFacts DEF Share
  <2>4. DialIsSound(d, IsCurrent(n), n \in receivers', platform)
    BY <2>3, <1>9, <1>12 DEF DialIsSound
  <2> QED BY <2>3, <2>4, <1>3, <1>5, <1>7, <1>8, <1>12, QuietStep
<1>13. CASE IsCurrent(n)
  <2>1. /\ links[tab] = n /\ n # 0 /\ n \in Nat
    BY <1>1, <1>13, LinkFacts
  <2>2. PICK all, q : all = Status(socketSessions, tab, "open") /\ q = Logged(queued, tab, <<Note>>)
    OBVIOUS
  <2>3. /\ all \in Sessions /\ OthersRest(socketSessions, all, tab)
        /\ KeepsLog(SessionAt(tab), SessionOfTab(all, tab))
    BY <2>2, <1>11, StatusIsSet DEF SessionAt, StatusIs
  <2>4. PICK nt \in Seq(LogEntry) : nt = <<Note>>
    BY NoteFacts, OneEntry
  <2>5. IsQueued(queued, tab, nt, q)
    BY <2>2, <2>4, <1>11, EntriesInQueue
  <2>6. PICK p : p = Logged(q, tab, s)
    OBVIOUS
  <2>7. q \in [SocketTabs -> Seq(LogEntry)] /\ IsQueued(q, tab, s, p)
    <3>1. q \in [SocketTabs -> Seq(LogEntry)]
      BY <2>5 DEF IsQueued
    <3> QED BY <3>1, <2>6, EntriesInQueue
  <2>8. PICK later : later = FourOf(all, p, links, retrying)
    OBVIOUS
  <2>9. v = IF HasClosed(early) THEN HandleLoss(later, tab) ELSE later
    <3>1. v = ReceiveAll(FourOf(all, q, links, retrying), n, early)
      BY <1>1, <1>2, <1>13, <2>2, OnOpenFacts
    <3>2. later = FourOf(all, Logged(q, tab, SubSeq(early, 1, BeforeClosed(early))), links, retrying)
      BY <2>6, <2>8, <1>2, <1>10 DEF EarlyFrames
    <3> QED BY <3>1, <3>2, <2>1, <1>1, ReceiveAllFacts
  <2>10. LinkTurns(n, d)
    BY <1>3, <1>5, <1>7, <1>8, <1>13 DEF LinkTurns
  <2>11. DialsKeepTabs /\ dials'[n] = d
    BY <1>3, <1>5, <1>7, <1>11 DEF DialsKeepTabs, SocketTypes
  <2>12. LogIsOn(tab, n)
    BY <2>1, LogBefore
  <2>13. PICK e \in Seq(LogEntry), w \in BOOLEAN :
           e = Shown(tab) /\ w = IsWhole(SessionAt(tab)) /\ LogOn(e, n, k, w) /\ AreOfTab(e, tab)
    BY <2>12, <1>10 DEF LogIsOn
  <2>14. PICK g \in Seq(LogEntry) : g = e \o nt /\ LogOn(g, n, k, w) /\ AreOfTab(g, tab)
    <3>1. LogOn(e \o <<Note>>, n, k, w) /\ AreOfTab(e \o <<Note>>, tab)
      BY <2>13, <2>1, <1>10, NoteKeepsLog
    <3> QED BY <3>1, <2>4 DEF LogOn
  <2>15. PICK h \in Seq(LogEntry) : h = g \o s /\ LogOn(h, n, k + Len(s), w) /\ AreOfTab(h, tab)
    <3>1. LogOn(g \o s, n, k + Len(s), w)
      BY <2>13, <2>14, <2>1, <1>10, FramesAreAdded
    <3>2. AreOfTab(g \o s, tab)
      BY <2>14, <1>1, <1>10, FramesAreOfTab
    <3> QED BY <3>1, <3>2 DEF LogOn
  <2>16. p[tab] = queued[tab] \o (nt \o s) /\ nt \o s \in Seq(LogEntry) /\ h = e \o (nt \o s)
    <3>1. p[tab] = q[tab] \o s /\ q[tab] = queued[tab] \o nt /\ queued[tab] \in Seq(LogEntry)
      BY <2>5, <2>7, <1>11 DEF IsQueued
    <3>2. Associate(nt, s)
      BY EntriesAssociate
    <3>3. nt \o s \in Seq(LogEntry)
      OBVIOUS
    <3> QED BY <3>1, <3>2, <3>3, <2>14, <2>15 DEF Associate
  <2>17. PICK u \in Seq(LogEntry) : u = nt \o s
    BY <2>16
  <2>20. Associate(u, nt)
    BY EntriesAssociate
  <2>18. CASE ~HasClosed(early)
    <3>1. /\ socketSessions' = all /\ queued' = p /\ UNCHANGED <<links, retrying>>
      BY <2>8, <2>9, <2>18, <1>3, FourFacts DEF Share
    <3>2. c
      <4>1. v.links = links
        BY <2>8, <2>9, <2>18, FourFacts
      <4> QED BY <4>1, <2>1, <1>2
    <3>3. Shown(tab)' = h /\ IsWhole(SessionAt(tab))' = w
      <4>1. KeepsLog(SessionAt(tab), SessionAt(tab)') /\ queued'[tab] = queued[tab] \o u
        BY <3>1, <2>3, <2>16, <2>17 DEF SessionAt
      <4>2. Shown(tab)' = Shown(tab) \o u /\ IsWhole(SessionAt(tab))' = IsWhole(SessionAt(tab))
        BY <4>1, <1>11, LogIsAppended
      <4> QED BY <4>2, <2>13, <2>16, <2>17
    <3>4. LogIsSound(tab)'
      <4>1. LogOn(Shown(tab)', n, Delivered(dials'[n]), IsWhole(SessionAt(tab))')
        BY <3>3, <2>11, <2>15, <1>10
      <4>2. AreOfTab(Shown(tab)', tab) /\ links'[tab] \in {0, n}
        BY <3>1, <3>3, <2>1, <2>15
      <4> QED BY <4>1, <4>2, <2>11, LogAfter
    <3>5. queued' \in [SocketTabs -> Seq(LogEntry)] /\ \A t \in SocketTabs : t # tab => queued'[t] = queued[t]
      BY <3>1, <2>5, <2>7 DEF IsQueued
    <3>6. wire' = Append(wire, [dial |-> n, message |-> 0]) /\ DialIsSound(d, TRUE, n \in receivers', platform) /\ d.isReady
      BY <3>2, <1>3, <1>7, <1>9 DEF DialIsSound
    <3> QED BY <3>1, <3>4, <3>5, <3>6, <2>2, <2>10, <1>1, <1>7, OpenStep
  <2>19. CASE HasClosed(early)
    <3>1. v = HandleLoss(later, tab)
      BY <2>9, <2>19
    <3>2. IsLoss(tab, all, p, v)
      <4>1. p \in [SocketTabs -> Seq(LogEntry)]
        BY <2>7 DEF IsQueued
      <4>2. later.socketSessions = all /\ later.queued = p /\ later.links = links /\ later.retrying = retrying
        BY <2>8, FourFacts
      <4> QED BY <3>1, <4>1, <4>2, <2>3, HandleLossFacts
    <3>3. /\ queued'[tab] = p[tab] \o <<Note>> /\ links'[tab] = 0 /\ v.links[tab] = 0
          /\ KeepsLog(SessionOfTab(all, tab), SessionAt(tab)')
      BY <3>2, <1>3, <1>11 DEF IsLoss, Share, SessionAt
    <3>4. ~c
      BY <3>3, <2>1, <1>2
    <3>5. PICK f : f = h \o nt
      OBVIOUS
    <3>6. LogOn(f, n, k + Len(s), w) /\ AreOfTab(f, tab)
      <4>1. k + Len(s) \in Int
        BY <1>10
      <4>2. LogOn(h \o <<Note>>, n, k + Len(s), w) /\ AreOfTab(h \o <<Note>>, tab)
        BY <4>1, <2>1, <2>13, <2>15, NoteKeepsLog
      <4> QED BY <4>2, <3>5, <2>4
    <3>7. Shown(tab)' = f /\ IsWhole(SessionAt(tab))' = w
      <4>1. PICK y \in Seq(LogEntry) : y = u \o nt
        <5>1. u \o nt \in Seq(LogEntry)
          OBVIOUS
        <5> QED BY <5>1
      <4>2. PICK x \in Seq(LogEntry) : x = queued[tab]
        BY <1>11
      <4>4. queued'[tab] = queued[tab] \o y /\ f = e \o y
        BY <3>3, <3>5, <4>1, <4>2, <2>20, <2>4, <2>16, <2>17 DEF Associate
      <4>5. KeepsLog(SessionAt(tab), SessionAt(tab)')
        BY <3>3, <2>3 DEF KeepsLog
      <4>6. Shown(tab)' = Shown(tab) \o y /\ IsWhole(SessionAt(tab))' = IsWhole(SessionAt(tab))
        BY <4>4, <4>5, <1>11, LogIsAppended
      <4> QED BY <4>4, <4>6, <2>13
    <3>8. LogIsSound(tab)'
      <4>1. LogOn(Shown(tab)', n, Delivered(dials'[n]), IsWhole(SessionAt(tab))')
        BY <3>6, <3>7, <2>11, <1>10
      <4>2. AreOfTab(Shown(tab)', tab) /\ links'[tab] \in {0, n}
        BY <3>3, <3>6, <3>7
      <4> QED BY <4>1, <4>2, <2>11, LogAfter
    <3>9. \A t \in SocketTabs : t # tab => p[t] = queued[t]
      BY <2>5, <2>7 DEF IsQueued
    <3>10. UNCHANGED wire /\ DialIsSound(d, FALSE, n \in receivers', platform)
      BY <3>4, <1>3, <1>9 DEF DialIsSound
    <3> QED BY <3>2, <3>8, <3>9, <3>10, <2>3, <2>10, <1>1, <1>3, <1>7, LossStep
  <2> QED BY <2>18, <2>19
<1> QED BY <1>12, <1>13

-----------------------------------------------------------------------------
(* What follows from the invariant *)

\* the numbers of a dial's events that are on their way
PendingIs(p, n, k, c) ==
  /\ c \in Nat /\ c <= Len(p)
  /\ \A i \in 1..Len(p) : IsFrame(p[i]) => p[i] = Frame(n, k + i) /\ k + i > 0 /\ i <= c
  /\ \A i \in 1..c : IsFrame(p[i]) \/ k + i = 0

LEMMA PendingFacts ==
  ASSUME NEW p \in Seq(SocketEvent), NEW n, NEW k \in Int, NEW z, NEW on, IsStream(n, p, k, z, on)
  PROVE  PendingIs(p, n, k, BeforeClosed(p))
<1>1. Len(p) \in Nat /\ \A i \in 1..Len(p) : p[i] \in SocketEvent
  OBVIOUS
<1>2. \A i \in 1..Len(p) : p[i].kind \in {"open", "closed", "frame"}
  BY <1>1, KindsOfEvents
<1>3. /\ \A i \in 1..Len(p) : p[i].kind = "closed" => i = Len(p)
      /\ \A i \in 1..Len(p) : p[i].kind = "open" => k + i = 0
      /\ \A i \in 1..Len(p) : p[i].kind = "frame" => p[i] = Frame(n, k + i) /\ k + i > 0
  BY DEF IsStream
<1>4. PICK c : c = BeforeClosed(p)
  OBVIOUS
<1>5. CASE HasClosed(p)
  <2>1. PICK j \in 1..Len(p) : p[j].kind = "closed"
    BY <1>5 DEF HasClosed
  <2>2. j = Len(p) /\ Len(p) > 0 /\ c = Len(p) - 1
    BY <2>1, <1>1, <1>3, <1>4, <1>5 DEF BeforeClosed
  <2>3. c \in Nat /\ c <= Len(p)
    BY <2>2, <1>1
  <2>4. \A i \in 1..Len(p) : p[i].kind = "frame" => i <= c
    BY <2>1, <2>2, <1>1
  <2>5. \A i \in 1..c : i \in 1..Len(p) /\ i # Len(p)
    BY <2>2, <1>1
  <2>6. \A i \in 1..c : p[i].kind = "frame" \/ k + i = 0
    BY <2>5, <1>2, <1>3
  <2> QED BY <2>3, <2>4, <2>6, <1>3, <1>4 DEF PendingIs, IsFrame
<1>6. CASE ~HasClosed(p)
  <2>1. c = Len(p)
    BY <1>4, <1>6 DEF BeforeClosed
  <2>2. \A i \in 1..Len(p) : p[i].kind # "closed"
    BY <1>6 DEF HasClosed
  <2>3. \A i \in 1..c : p[i].kind = "frame" \/ k + i = 0
    BY <2>1, <2>2, <1>2, <1>3
  <2>4. \A i \in 1..Len(p) : i <= c
    BY <2>1, <1>1
  <2> QED BY <2>1, <2>3, <2>4, <1>1, <1>3, <1>4 DEF PendingIs, IsFrame
<1> QED BY <1>5, <1>6

\* a story that is in order and ends with the last frame, number m of dial n
IsTold(f, n, m, w) ==
  /\ IsOrdered(f) /\ HasNoGap(f, w)
  /\ m > 0 => (\E i \in 1..Len(f) : f[i] = Frame(n, m)) \/ (~HasFrames(f) /\ ~w)

LEMMA FrameFields == \A n, k : IsFrame(Frame(n, k)) /\ Frame(n, k).dial = n /\ Frame(n, k).number = k
BY DEF Frame, IsFrame

LEMMA StoryIsTold ==
  ASSUME NEW e \in Seq(LogEntry), NEW p \in Seq(SocketEvent), NEW n \in Nat, NEW k \in Int, NEW m \in Nat, NEW w \in BOOLEAN,
         LogOn(e, n, k, w), NEW c, PendingIs(p, n, k, c), m = k + c
  PROVE  IsTold(e \o p, n, m, w)
<1> DEFINE l == Len(e)
           r == Len(p)
<1>1. PICK f : f = e \o p
  OBVIOUS
<1>2. /\ l \in Nat /\ r \in Nat /\ Len(f) = l + r /\ c \in Nat /\ c <= r
      /\ \A i \in 1..l : i \in 1..Len(f) /\ f[i] = e[i]
      /\ \A i \in 1..r : l + i \in 1..Len(f) /\ f[l + i] = p[i]
  BY <1>1 DEF PendingIs
<1>3. /\ \A i \in 1..r : IsFrame(p[i]) => p[i] = Frame(n, k + i) /\ k + i > 0 /\ i <= c
      /\ \A i \in 1..c : IsFrame(p[i]) \/ k + i = 0
  BY DEF PendingIs
<1>4. IsOrdered(e) /\ HasNoGap(e, w) /\ MayGoOn(e, n, k, w)
  BY DEF LogOn
<1> HIDE DEF l, r
<1>5. ASSUME NEW i \in 1..Len(f), IsFrame(f[i])
      PROVE  \/ i \in 1..l /\ f[i] = e[i] /\ IsFrame(e[i])
             \/ i - l \in 1..r /\ f[i] = Frame(n, k + (i - l)) /\ k + (i - l) > 0 /\ i - l <= c
  <2>1. CASE i <= l
    BY <2>1, <1>2, <1>5
  <2>2. CASE i > l
    <3>1. i - l \in 1..r /\ l + (i - l) = i
      BY <2>2, <1>2
    <3>2. f[i] = p[i - l]
      BY <3>1, <1>2
    <3> QED BY <3>1, <3>2, <1>3, <1>5
  <2> QED BY <2>1, <2>2, <1>2
<1>6. IsOrdered(f)
  <2> SUFFICES ASSUME NEW i \in 1..Len(f), NEW j \in 1..Len(f), i < j, IsFrame(f[i]), IsFrame(f[j])
               PROVE  Precedes(f[i], f[j])
    BY DEF IsOrdered
  <2>1. CASE j \in 1..l /\ f[j] = e[j] /\ IsFrame(e[j])
    <3>1. i \in 1..l /\ f[i] = e[i]
      BY <2>1, <1>2
    <3> QED BY <3>1, <2>1, <1>4 DEF IsOrdered, l
  <2>2. CASE j - l \in 1..r /\ f[j] = Frame(n, k + (j - l))
    <3>1. f[j].dial = n /\ f[j].number = k + (j - l)
      BY <2>2, FrameFields
    <3>2. CASE i \in 1..l /\ f[i] = e[i] /\ IsFrame(e[i])
      <4>1. e[i].dial < n \/ (e[i].dial = n /\ e[i].number <= k)
        BY <3>2, <1>4 DEF MayGoOn, l
      <4>2. e[i] \in LogEntry
        BY <3>2 DEF l
      <4>3. e[i].number \in Nat
        BY <3>2, <4>2 DEF LogEntry, FrameEntry, IsFrame, Note
      <4>4. e[i].dial = n /\ e[i].number <= k => e[i].number < k + (j - l)
        BY <4>3, <2>2, <1>2
      <4> QED BY <4>1, <4>4, <3>1, <3>2 DEF Precedes
    <3>3. CASE i - l \in 1..r /\ f[i] = Frame(n, k + (i - l))
      <4>1. f[i].dial = n /\ f[i].number = k + (i - l)
        BY <3>3, FrameFields
      <4>2. k + (i - l) < k + (j - l)
        BY <2>2, <3>3, <1>2
      <4> QED BY <4>1, <4>2, <3>1 DEF Precedes
    <3> QED BY <3>2, <3>3, <1>5
  <2> QED BY <2>1, <2>2, <1>5
<1>7. HasNoGap(f, w)
  <2> SUFFICES ASSUME NEW i \in 1..Len(f), IsFrame(f[i])
               PROVE  \/ f[i].number = 1
                      \/ \E h \in 1..i-1 : f[h] = Frame(f[i].dial, f[i].number - 1)
                      \/ (\A h \in 1..i-1 : ~IsFrame(f[h])) /\ ~w
    BY DEF HasNoGap
  <2>1. CASE i \in 1..l /\ f[i] = e[i] /\ IsFrame(e[i])
    <3>1. \A h \in 1..i-1 : f[h] = e[h]
      <4>1. \A h \in 1..i-1 : h \in 1..l
        BY <2>1, <1>2
      <4> QED BY <4>1, <1>2
    <3>2. \/ e[i].number = 1
          \/ \E h \in 1..i-1 : e[h] = Frame(e[i].dial, e[i].number - 1)
          \/ (\A h \in 1..i-1 : ~IsFrame(e[h])) /\ ~w
      BY <2>1, <1>4 DEF HasNoGap, l
    <3> QED BY <3>1, <3>2, <2>1
  <2>2. CASE i - l \in 1..r /\ f[i] = Frame(n, k + (i - l)) /\ k + (i - l) > 0 /\ i - l <= c
    <3>0. PICK o \in 1..r : o = i - l
      BY <2>2
    <3>1. f[i].dial = n /\ f[i].number = k + o /\ o <= c /\ k + o > 0 /\ i = l + o
      BY <2>2, <3>0, <1>2, FrameFields
    <3>2. CASE k + o = 1
      BY <3>1, <3>2
    <3>3. CASE k + o > 1 /\ o > 1
      <4>1. o - 1 \in 1..c /\ o - 1 \in 1..r /\ k + (o - 1) # 0 /\ k + (o - 1) = k + o - 1
        BY <3>1, <3>3, <1>2
      <4>2. p[o - 1] = Frame(n, k + o - 1)
        BY <4>1, <1>3
      <4>3. l + (o - 1) \in 1..i-1 /\ f[l + (o - 1)] = p[o - 1]
        BY <4>1, <3>1, <3>3, <1>2
      <4> QED BY <4>2, <4>3, <3>1
    <3>4. CASE k + o > 1 /\ o = 1
      <4>1. k > 0 /\ k + o - 1 = k /\ i - 1 = l
        BY <3>4, <3>1, <1>2
      <4>2. (\E h \in 1..l : e[h] = Frame(n, k)) \/ (~HasFrames(e) /\ ~w)
        BY <4>1, <1>4 DEF MayGoOn, l
      <4>3. \A h \in 1..l : f[h] = e[h]
        BY <1>2
      <4>4. ~HasFrames(e) => \A h \in 1..l : ~IsFrame(e[h])
        BY DEF HasFrames, l
      <4>5. CASE \E h \in 1..l : e[h] = Frame(n, k)
        <5>1. PICK h \in 1..l : e[h] = Frame(n, k)
          BY <4>5
        <5>2. f[h] = Frame(f[i].dial, f[i].number - 1) /\ h \in 1..i-1
          BY <5>1, <4>1, <4>3, <3>1
        <5> QED BY <5>2
      <4>6. CASE ~HasFrames(e) /\ ~w
        <5>1. \A h \in 1..i-1 : ~IsFrame(f[h])
          BY <4>1, <4>3, <4>4, <4>6
        <5> QED BY <5>1, <4>6
      <4> QED BY <4>2, <4>5, <4>6
    <3> QED BY <3>1, <3>2, <3>3, <3>4, <1>2
  <2> QED BY <2>1, <2>2, <1>5
<1>8. ASSUME m > 0 PROVE (\E i \in 1..Len(f) : f[i] = Frame(n, m)) \/ (~HasFrames(f) /\ ~w)
  <2>1. CASE c = 0
    <3>1. k > 0 /\ k = m
      BY <2>1, <1>8
    <3>2. (\E h \in 1..l : e[h] = Frame(n, m)) \/ (~HasFrames(e) /\ ~w)
      BY <3>1, <1>4 DEF MayGoOn, l
    <3>3. CASE \E h \in 1..l : e[h] = Frame(n, m)
      BY <3>3, <1>2
    <3>4. CASE ~HasFrames(e) /\ ~w
      <4>1. \A i \in 1..Len(f) : ~IsFrame(f[i])
        <5> SUFFICES ASSUME NEW i \in 1..Len(f), IsFrame(f[i]) PROVE FALSE
          OBVIOUS
        <5>1. ~(i \in 1..l /\ IsFrame(e[i]))
          BY <3>4 DEF HasFrames, l
        <5>2. ~(i - l \in 1..r /\ i - l <= c)
          BY <2>1, <1>2
        <5> QED BY <5>1, <5>2, <1>5
      <4> QED BY <4>1, <3>4 DEF HasFrames
    <3> QED BY <3>2, <3>3, <3>4
  <2>2. CASE c # 0
    <3>1. c \in 1..c /\ c \in 1..r /\ k + c # 0
      BY <2>2, <1>2, <1>8
    <3>2. p[c] = Frame(n, m)
      BY <3>1, <1>3
    <3> QED BY <3>1, <3>2, <1>2
  <2> QED BY <2>1, <2>2
<1>9. IsTold(f, n, m, w)
  BY <1>6, <1>7, <1>8 DEF IsTold
<1> QED BY <1>1, <1>9

LEMMA FramesAreInOrder == ASSUME SocketInv PROVE FramesInOrder
<1> SUFFICES ASSUME NEW t \in SocketTabs
             PROVE  LET story == Story(t)
                        owned == SessionOfTab(socketSessions, t)
                        IsFirst(i) == \A h \in 1..i-1 : ~IsFrame(story[h])
                    IN  /\ \A i \in 1..Len(story) : IsFrame(story[i]) =>
                             /\ dials[story[i].dial].tab = t
                             /\ \A j \in i+1..Len(story) : IsFrame(story[j]) => Precedes(story[i], story[j])
                             /\ \/ story[i].number = 1
                                \/ \E h \in 1..i-1 : story[h] = Frame(story[i].dial, story[i].number - 1)
                                \/ IsFirst(i) /\ ~IsWhole(owned)
                        /\ links[t] # 0 /\ dials[links[t]].frames > 0 =>
                             \/ \E i \in 1..Len(story) : story[i] = Frame(links[t], dials[links[t]].frames)
                             \/ IsFirst(Len(story) + 1) /\ ~IsWhole(owned)
  BY DEF FramesInOrder
<1>1. PICK e \in Seq(LogEntry), w \in BOOLEAN : e = Shown(t) /\ w = IsWhole(SessionAt(t))
  BY SessionAtFacts DEF SocketInv
<1>2. LogIsSound(t)
  BY DEF SocketInv, ShownInv
<1>3. PICK n, f : n = links[t] /\ f = Story(t)
  OBVIOUS
<1>4. /\ Len(f) \in Nat /\ IsOrdered(f) /\ HasNoGap(f, w) /\ AreOfTab(f, t)
      /\ n # 0 => IsTold(f, n, dials[n].frames, w)
  <2>1. CASE n = 0
    <3>1. f = e
      BY <2>1, <1>1, <1>3 DEF Story
    <3> QED BY <3>1, <2>1, <1>1, <1>2 DEF LogIsSound
  <2>2. CASE n # 0
    <3>1. n \in 1..Len(dials) /\ dials[n].tab = t /\ Len(dials) \in Nat
      BY <2>2, <1>3 DEF SocketInv, TabInv, SocketTypes
    <3>2. PICK d \in Dial : d = dials[n] /\ HasStream(n, d, platform)
      BY <3>1, DialAt
    <3>3. PICK p \in Seq(SocketEvent), m \in Nat, k \in Int :
            p = Pending(d) /\ m = d.frames /\ k = Delivered(d) /\ k = m - BeforeClosed(p)
      BY DialFacts, DeliveredIsInt DEF Delivered
    <3>4. LogOn(e, n, k, w) /\ AreOfTab(e, t)
      <4>1. LogIsOn(t, n)
        BY <2>2, <1>3, LogBefore
      <4> QED BY <4>1, <3>2, <3>3, <1>1 DEF LogIsOn
    <3>5. PICK z : z = (d.conn = "closed")
      OBVIOUS
    <3>6. IsStream(n, p, k, z, platform)
      BY <3>2, <3>3, <3>5 DEF HasStream
    <3>7. PICK c : c = BeforeClosed(p) /\ PendingIs(p, n, k, c)
      BY <3>6, PendingFacts
    <3>8. n \in Nat /\ m = k + c
      <4>1. c \in Nat
        BY <3>7 DEF PendingIs
      <4> QED BY <4>1, <3>1, <3>3, <3>7
    <3>9. IsTold(e \o p, n, m, w)
      BY <3>4, <3>7, <3>8, StoryIsTold
    <3>10. f = e \o p
      BY <2>2, <3>2, <3>3, <1>1, <1>3 DEF Story
    <3>11. AreOfTab(f, t)
      <4>1. /\ Len(e) \in Nat /\ Len(p) \in Nat /\ Len(f) = Len(e) + Len(p)
            /\ \A i \in 1..Len(e) : f[i] = e[i]
            /\ \A i \in 1..Len(p) : f[Len(e) + i] = p[i]
        BY <3>10
      <4> SUFFICES ASSUME NEW i \in 1..Len(f), IsFrame(f[i])
                   PROVE  f[i].dial \in 1..Len(dials) /\ dials[f[i].dial].tab = t /\ f[i].number > 0
        BY DEF AreOfTab
      <4>2. CASE i <= Len(e)
        <5>1. i \in 1..Len(e) /\ f[i] = e[i]
          BY <4>1, <4>2
        <5> QED BY <5>1, <3>4 DEF AreOfTab
      <4>3. CASE i > Len(e)
        <5>1. PICK j \in 1..Len(p) : i = Len(e) + j
          <6>1. i - Len(e) \in 1..Len(p) /\ i = Len(e) + (i - Len(e))
            BY <4>1, <4>3
          <6> QED BY <6>1
        <5>2. f[i] = p[j]
          BY <4>1, <5>1
        <5>3. f[i] = Frame(n, k + j) /\ k + j > 0
          BY <5>2, <3>7 DEF PendingIs
        <5>4. f[i].dial = n /\ f[i].number = k + j
          BY <5>3, FrameFields
        <5> QED BY <5>3, <5>4, <3>1
      <4> QED BY <4>1, <4>2, <4>3
    <3>12. IsTold(f, n, dials[n].frames, w)
      BY <3>2, <3>3, <3>9, <3>10
    <3>13. Len(f) \in Nat
      BY <3>10
    <3> QED BY <3>11, <3>12, <3>13 DEF IsTold
  <2> QED BY <2>1, <2>2
<1>5. ASSUME NEW i \in 1..Len(f), IsFrame(f[i])
      PROVE  /\ dials[f[i].dial].tab = t
             /\ \A j \in i+1..Len(f) : IsFrame(f[j]) => Precedes(f[i], f[j])
             /\ \/ f[i].number = 1
                \/ \E h \in 1..i-1 : f[h] = Frame(f[i].dial, f[i].number - 1)
                \/ (\A h \in 1..i-1 : ~IsFrame(f[h])) /\ ~w
  <2>1. dials[f[i].dial].tab = t
    BY <1>4, <1>5 DEF AreOfTab
  <2>2. ASSUME NEW j \in i+1..Len(f), IsFrame(f[j]) PROVE Precedes(f[i], f[j])
    <3>1. j \in 1..Len(f) /\ i < j
      BY <1>4
    <3> QED BY <3>1, <2>2, <1>4, <1>5 DEF IsOrdered
  <2>3. \/ f[i].number = 1
        \/ \E h \in 1..i-1 : f[h] = Frame(f[i].dial, f[i].number - 1)
        \/ (\A h \in 1..i-1 : ~IsFrame(f[h])) /\ ~w
    BY <1>4, <1>5 DEF HasNoGap
  <2> QED BY <2>1, <2>2, <2>3
<1>6. ASSUME n # 0, dials[n].frames > 0
      PROVE  \/ \E i \in 1..Len(f) : f[i] = Frame(n, dials[n].frames)
             \/ (\A h \in 1..(Len(f) + 1) - 1 : ~IsFrame(f[h])) /\ ~w
  <2>1. (\E i \in 1..Len(f) : f[i] = Frame(n, dials[n].frames)) \/ (~HasFrames(f) /\ ~w)
    BY <1>4, <1>6 DEF IsTold
  <2>2. (Len(f) + 1) - 1 = Len(f)
    BY <1>4
  <2> QED BY <2>1, <2>2 DEF HasFrames
<1>7. w = IsWhole(SessionOfTab(socketSessions, t))
  BY <1>1 DEF SessionAt
<1> QED BY <1>3, <1>5, <1>6, <1>7

LEMMA LinksFollow == ASSUME SocketInv PROVE LinksAreAccountedFor
<1>1. StatusTellsTheLink
  <2> SUFFICES ASSUME NEW t \in SocketTabs
               PROVE  LET status == SessionOfTab(socketSessions, t).status
                      IN  /\ links[t] = 0 <=> status \in {"idle", "waiting"}
                          /\ t \in retrying <=> status = "waiting"
                          /\ status = "open" => dials[links[t]].isReady
                          /\ t \notin openTabs => links[t] = 0 /\ t \notin retrying
    BY DEF StatusTellsTheLink
  <2>1. /\ TabIsLinked(SessionAt(t).status, links[t], t \in retrying, t \in openTabs)
        /\ SessionAt(t).status = "open" => dials[links[t]].isReady
    BY DEF SocketInv, TabInv
  <2> QED BY <2>1 DEF TabIsLinked, SessionAt
<1>2. ASSUME NEW n \in 1..Len(dials)
      PROVE  /\ dials[n].conn \in {"opening", "open"} => IsCurrent(n) \/ dials[n].at = "opening"
             /\ dials[n].pings => IsCurrent(n)
  <2>1. DialIsSound(dials[n], IsCurrent(n), n \in receivers, platform)
    BY DEF SocketInv, DialInv
  <2> QED BY <2>1 DEF DialIsSound
<1> QED BY <1>1, <1>2 DEF LinksAreAccountedFor, NoConnectionIsLeftBehind, PingsOnlyWhileLinked

-----------------------------------------------------------------------------
(* The theorems *)

LEMMA SocketInit == ASSUME SoInit PROVE SocketInv
<1>1. /\ socketSessions = [t \in SocketTabs |-> NoSession] /\ links = [t \in SocketTabs |-> 0]
      /\ queued = [t \in SocketTabs |-> <<>>] /\ outgoing = [t \in SocketTabs |-> <<>>]
      /\ retrying = {} /\ dials = <<>> /\ receivers = {} /\ wire = <<>>
  BY DEF SoInit
<1>2. SocketTypes
  <2>1. <<>> \in Seq(LogEntry) /\ <<>> \in Seq(Nat) /\ <<>> \in Seq(Dial) /\ <<>> \in Seq([dial : Nat, message : Nat])
    BY EmptySeq
  <2>2. platform \in Platforms /\ socketBudget \in [SocketUses -> Nat]
    BY SocketsAssumption DEF SoInit
  <2>3. links \in [SocketTabs -> Nat] /\ socketSessions \in [SocketTabs -> {NoSession} \cup Session]
    BY <1>1
  <2>4. queued \in [SocketTabs -> Seq(LogEntry)] /\ outgoing \in [SocketTabs -> Seq(Nat)]
    BY <1>1, <2>1
  <2> QED BY <1>1, <2>1, <2>2, <2>3, <2>4 DEF SocketTypes
<1>3. \A t \in SocketTabs : SessionAt(t) = IdleSession
  BY <1>1 DEF SessionAt, SessionOfTab
<1>4. IdleSession.status = "idle" /\ IdleSession.entries = <<>>
  BY DEF IdleSession
<1>5. TabInv
  BY <1>1, <1>3, <1>4 DEF TabInv, TabIsLinked
<1>6. Len(dials) = 0 /\ Len(wire) = 0
  BY <1>1
<1>7. DialInv /\ StreamInv
  BY <1>6 DEF DialInv, StreamInv
<1>8. ShownInv
  <2> SUFFICES ASSUME NEW t \in SocketTabs PROVE LogIsSound(t)
    BY DEF ShownInv
  <2>1. Shown(t) = <<>>
    <3>1. Shown(t) = <<>> \o <<>>
      BY <1>1, <1>3, <1>4 DEF Shown, SessionAt
    <3> QED BY <3>1
  <2>2. Len(Shown(t)) = 0
    BY <2>1
  <2>3. AreOfTab(Shown(t), t) /\ IsOrdered(Shown(t)) /\ HasNoGap(Shown(t), IsWhole(SessionAt(t)))
    BY <2>2 DEF AreOfTab, IsOrdered, HasNoGap
  <2> QED BY <2>3, <1>1 DEF LogIsSound
<1>9. MessageInv
  <2>1. \A t \in SocketTabs : Len(outgoing[t]) = 0
    BY <1>1
  <2> QED BY <2>1, <1>3, <1>4, <1>6 DEF MessageInv, MessagesInOrder
<1> QED BY <1>2, <1>5, <1>7, <1>8, <1>9 DEF SocketInv

LEMMA SocketStep == ASSUME SocketInv, SoNext PROVE SocketInv'
<1>1. CASE FlushEntries
  BY <1>1, FlushEntriesKeeps
<1>2. ASSUME NEW t \in SocketTabs,
             \/ Connect(t) \/ Retry(t) \/ PressDisconnect(t) \/ SetAutoReconnect(t) \/ CloseTab(t)
             \/ SetDraft(t) \/ SendMessage(t) \/ DeliverMessage(t) \/ ClearLog(t)
      PROVE  SocketInv'
  <2>1. CASE Connect(t)
    BY <2>1, ConnectKeeps
  <2>2. CASE Retry(t)
    BY <2>2, RetryKeeps
  <2>3. CASE PressDisconnect(t)
    BY <2>3, PressDisconnectKeeps
  <2>4. CASE SetAutoReconnect(t)
    BY <2>4, SetAutoReconnectKeeps
  <2>5. CASE CloseTab(t)
    BY <2>5, CloseTabKeeps
  <2>6. CASE SetDraft(t)
    BY <2>6, SetDraftKeeps
  <2>7. CASE SendMessage(t)
    BY <2>7, SendMessageKeeps
  <2>8. CASE DeliverMessage(t)
    BY <2>8, DeliverMessageKeeps
  <2>9. CASE ClearLog(t)
    BY <2>9, ClearLogKeeps
  <2> QED BY <1>2, <2>1, <2>2, <2>3, <2>4, <2>5, <2>6, <2>7, <2>8, <2>9
<1>3. ASSUME NEW n \in 1..Len(dials),
             \/ PreparedSession(n) \/ DialFails(n) \/ DesktopOpens(n) \/ BrowserDials(n) \/ DeliverEvents(n)
             \/ Accept(n) \/ ServerSends(n) \/ ConnectionEnds(n)
      PROVE  SocketInv'
  <2>1. CASE PreparedSession(n)
    BY <2>1, PreparedSessionKeeps
  <2>2. CASE DialFails(n)
    BY <2>2, DialFailsKeeps
  <2>3. CASE DesktopOpens(n)
    BY <2>3, DesktopOpensKeeps
  <2>4. CASE BrowserDials(n)
    BY <2>4, BrowserDialsKeeps
  <2>5. CASE DeliverEvents(n)
    BY <2>5, DeliverEventsKeeps
  <2>6. CASE Accept(n)
    BY <2>6, AcceptKeeps
  <2>7. CASE ServerSends(n)
    BY <2>7, ServerSendsKeeps
  <2>8. CASE ConnectionEnds(n)
    BY <2>8, ConnectionEndsKeeps
  <2> QED BY <1>3, <2>1, <2>2, <2>3, <2>4, <2>5, <2>6, <2>7, <2>8
<1> QED BY <1>1, <1>2, <1>3 DEF SoNext

LEMMA SocketStutters == ASSUME SocketInv, UNCHANGED soVars PROVE SocketInv'
<1> USE DEF soVars, SocketInv
<1>1. \A t \in SocketTabs : SessionAt(t)' = SessionAt(t) /\ Shown(t)' = Shown(t)
  BY DEF SessionAt, Shown
<1>2. SocketTypes'
  BY DEF SocketTypes
<1>3. TabInv'
  BY <1>1 DEF TabInv
<1>4. DialInv' /\ StreamInv'
  BY DEF DialInv, StreamInv, IsCurrent
<1>5. ShownInv'
  BY <1>1 DEF ShownInv, LogIsSound, AreOfTab
<1>6. MessageInv'
  BY <1>1 DEF MessageInv, MessagesInOrder
<1> QED BY <1>2, <1>3, <1>4, <1>5, <1>6

(* The inductive invariant of the sockets: whatever the user, the server, the two timers and *)
(* the replies do, in whatever order, the four maps of socketSessions.js, the buffers of      *)
(* desktopSocket.js and the log fit together.                                                 *)
THEOREM SocketsStaySound == SoSpec => []SocketInv
<1>1. SoInit => SocketInv
  BY SocketInit
<1>2. SocketInv /\ [SoNext]_soVars => SocketInv'
  BY SocketStep, SocketStutters
<1> QED BY <1>1, <1>2, PTL DEF SoSpec

(* Status, link and reconnect timer of a tab agree, a closed tab has none of them, and no     *)
(* connection and no keep-alive timer outlives its link but while its dial is awaited         *)
(* (release, handleLoss, dial), for any number of tabs, dials and uses.                       *)
THEOREM LinksAreKept == SoSpec => []LinksAreAccountedFor
<1>1. SocketInv => LinksAreAccountedFor
  BY LinksFollow
<1> QED BY <1>1, SocketsStaySound, PTL

(* The log shows the server's frames in order and without a gap, those that overtook the reply *)
(* of WSConnect included, and the messages are written in the order they were sent (route,     *)
(* earlyEvents, appendEntries, outgoing), for any limit of the log and any amount of traffic.  *)
THEOREM TrafficIsOrdered == SoSpec => []TrafficInOrder
<1>1. SocketInv => TrafficInOrder
  <2>1. SocketInv => FramesInOrder
    BY FramesAreInOrder
  <2> QED BY <2>1 DEF TrafficInOrder, SocketInv, MessageInv
<1> QED BY <1>1, SocketsStaySound, PTL

=============================================================================
