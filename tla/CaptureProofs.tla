--------------------------- MODULE CaptureProofs ----------------------------
(***************************************************************************)
(* Proofs about Capture, for any calls, plans, number of servers and limit *)
(* of held calls: every variable keeps its type, at most one server        *)
(* listens, and what the journal says of a call is what happened to it.    *)
(***************************************************************************)
EXTENDS Capture, FiniteSetTheorems, TLAPS

(***************************************************************************)
(* The server.                                                             *)
(***************************************************************************)

(* The inductive invariant of the listener.  A server that was replaced is *)
(* shut, and only the latest one can be running or stopping; with none of  *)
(* either, every server that was started is shut.                          *)
ListenerInv ==
    /\ started \in 0..MaxServers
    /\ shut \in SUBSET Servers
    /\ server \in {0, started}
    /\ stopping \in {0, started}
    /\ server # 0 => stopping = 0
    /\ \A s \in 1..started : s \notin shut => s \in {server, stopping}

LEMMA StepKeepsListener == ListenerInv /\ [Next]_vars => ListenerInv'
<1> SUFFICES ASSUME ListenerInv, [Next]_vars PROVE ListenerInv'
  OBVIOUS
<1>0. MaxServers \in Nat
  BY CaptureAssumption
<1> USE <1>0 DEF ListenerInv, Servers
<1>1. CASE StartCapture
  BY <1>1 DEF StartCapture
<1>2. CASE UpdateRules
  BY <1>2 DEF UpdateRules
<1>3. CASE StopCapture
  BY <1>3 DEF StopCapture
<1>4. CASE Shutdown
  BY <1>4 DEF Shutdown
<1>5. CASE StopReturns
  BY <1>5 DEF StopReturns
<1>6. CASE UNCHANGED lifecycle
  BY <1>6 DEF lifecycle
<1>7. ASSUME NEW c \in Calls, HangUp(c) \/ Refuse(c) \/ Arrive(c) \/ Handler(c) \/ Upstream(c)
      PROVE UNCHANGED lifecycle
  BY <1>7 DEF HangUp, Refuse, Arrive, Handler, Upstream, CancelDelay, ServeLocal,
     FailByRule, Prepare, HoldRequest, SettleRequest, Forward, Cancelled, HoldResponse,
     SettleResponse, CutShort, Finish, Unreachable, Upgrade, Observe, Relay, Answered,
     Note, Goto, Step
<1> QED BY <1>1, <1>2, <1>3, <1>4, <1>5, <1>6, <1>7 DEF Next, vars

(* The servers that listen are among the running and the stopping one, and *)
(* of those there is one at the most.                                      *)
LEMMA ListenerInvSuffices == ListenerInv => OneListener
<1> SUFFICES ASSUME ListenerInv PROVE OneListener
  OBVIOUS
<1>1. MaxServers \in Nat /\ started \in Nat
  BY CaptureAssumption DEF ListenerInv
<1>2. 1..started \ shut \subseteq {started}
  BY <1>1 DEF ListenerInv
<1>3. IsFiniteSet({started}) /\ Cardinality({started}) = 1
  BY FS_Singleton
<1>4. Cardinality(1..started \ shut) <= 1
  BY <1>2, <1>3, FS_Subset
<1> QED BY <1>4 DEF OneListener

(* For any number of restarts, at most one capture listens: the mutex that *)
(* StopCapture holds to its end keeps StartCapture out.                    *)
THEOREM OneListens == Spec => []OneListener
<1>1. Init => ListenerInv
  BY CaptureAssumption DEF Init, ListenerInv
<1>2. ListenerInv /\ [Next]_vars => ListenerInv'
  BY StepKeepsListener
<1>3. ListenerInv => OneListener
  BY ListenerInvSuffices
<1> QED BY <1>1, <1>2, <1>3, PTL DEF Spec

(***************************************************************************)
(* The record.                                                             *)
(***************************************************************************)

(* What an exchange e with the notes n may say, when the call reached the  *)
(* upstream as r and its client got k.                                     *)
NotesFit(n, r) ==
    /\ <<"request", "dropped">> \in n => r = "no"
    /\ r = "edited" => <<"request", "released">> \in n
    /\ r = "original" => <<"request", "released">> \notin n

ExchangeFits(e, r, k) ==
    /\ e.error = "dropped" => k = "closed" /\ e.status = "0"
    /\ e.status \in {"upstream", "edited"} <=> k = "answered"
    /\ e.status = "local" <=> k = "local"
    /\ e.status = "502" => k = "badGateway"
    /\ e.status = "101" => r # "no"
    /\ k = "upgraded" => e.status = "101"
    /\ k = "badGateway" => e.status \in {"502", "101"}
    /\ k \in {"nobody", "empty200"} => e.status \in {"0", "101"}
    /\ k = "closed" => e.status = "0"

(* Nothing was sent on, said or recorded before the call is forwarded, and *)
(* nothing said or recorded before the upstream answers.                   *)
BeforeForward == {"idle", "prepare", "holdRequest", "heldRequest", "forward"}

BeforeAnswer == {"upstream", "holdResponse", "heldResponse"}

IsRecordedAt(l, e, n, r, k, d) ==
    /\ NotesFit(n, r)
    /\ l \in BeforeForward =>
          r = "no" /\ k = "waiting" /\ e = Blank /\ d = <<>>
          /\ <<"request", "dropped">> \notin n
    /\ l \in BeforeAnswer =>
          r # "no" /\ k = "waiting" /\ e = Blank /\ d = <<>>
    /\ l = "relay" =>
          \/ d = <<>> /\ e.error = "" /\ ExchangeFits(e, r, k) /\ k # "forbidden"
          \/ \E x \in Exchanges : d = <<x>> /\ ExchangeFits(x, r, k) /\ k # "forbidden"
    /\ l = "finish" =>
          \/ d = <<>> /\ ExchangeFits(e, r, k) /\ k # "forbidden"
          \/ \E x \in Exchanges : d = <<x>> /\ ExchangeFits(x, r, k) /\ k # "forbidden"
    /\ l = "done" =>
          \/ d = <<>> /\ k = "forbidden"
          \/ \E x \in Exchanges : d = <<x>> /\ ExchangeFits(x, r, k) /\ k # "forbidden"

(* The inductive invariant of the record: where the handler of a call is   *)
(* decides what can have been said of it.                                  *)
RecordTypes ==
    /\ pc \in [Calls -> Labels]
    /\ notes \in [Calls -> SUBSET ({"request", "response"} \X Remarks)]
    /\ exchange \in [Calls -> Exchanges]
    /\ delivered \in [Calls -> Seq(Exchanges)]
    /\ reached \in [Calls -> {"no", "original", "edited"}]
    /\ client \in [Calls -> {"waiting", "forbidden", "local", "closed", "nobody",
                             "empty200", "badGateway", "upgraded", "answered"}]

IsRecorded(c) ==
    IsRecordedAt(pc[c], exchange[c], notes[c], reached[c], client[c], delivered[c])

RecordInv == RecordTypes /\ \A c \in Calls : IsRecorded(c)

(* A step of the handler of c keeps the invariant when what it leads to    *)
(* can be recorded; the other calls do not change.                         *)
NotesOf == SUBSET ({"request", "response"} \X Remarks)

Reaches == {"no", "original", "edited"}

Clients == {"waiting", "forbidden", "local", "closed", "nobody",
            "empty200", "badGateway", "upgraded", "answered"}

LEMMA StepIsRecorded ==
    ASSUME NEW c \in Calls, RecordInv,
           NEW l \in Labels, NEW e \in Exchanges, NEW n \in NotesOf,
           NEW r \in Reaches, NEW k \in Clients,
           IsRecordedAt(l, e, n, r, k, delivered[c]),
           Step(c, l, e, n, r, k)
    PROVE  RecordInv'
<1>1. RecordTypes'
  BY DEF RecordInv, RecordTypes, Step, NotesOf, Reaches, Clients
<1>2. ASSUME NEW d \in Calls PROVE IsRecorded(d)'
  <2>1. CASE d = c
    <3>1. /\ pc'[c] = l /\ exchange'[c] = e /\ notes'[c] = n
          /\ reached'[c] = r /\ client'[c] = k /\ delivered'[c] = delivered[c]
      BY DEF RecordInv, RecordTypes, Step
    <3> QED BY <2>1, <3>1 DEF IsRecorded
  <2>2. CASE d # c
    <3>1. /\ pc'[d] = pc[d] /\ exchange'[d] = exchange[d] /\ notes'[d] = notes[d]
          /\ reached'[d] = reached[d] /\ client'[d] = client[d]
          /\ delivered'[d] = delivered[d]
      BY <2>2 DEF RecordInv, RecordTypes, Step
    <3> QED BY <3>1 DEF IsRecorded, RecordInv
  <2> QED BY <2>1, <2>2
<1> QED BY <1>1, <1>2 DEF RecordInv

(* What the invariant says of one call.                                    *)
LEMMA OneCall ==
    ASSUME NEW c \in Calls, RecordInv
    PROVE  /\ pc[c] \in Labels /\ exchange[c] \in Exchanges /\ notes[c] \in NotesOf
           /\ reached[c] \in Reaches /\ client[c] \in Clients
           /\ IsRecordedAt(pc[c], exchange[c], notes[c], reached[c], client[c], delivered[c])
BY DEF RecordInv, RecordTypes, IsRecorded, NotesOf, Reaches, Clients

(* A remark is about one side of the call.                                 *)
LEMMA RemarkIsTyped ==
    ASSUME NEW n \in NotesOf, NEW s \in {"request", "response"}, NEW v \in Remarks
    PROVE  n \cup {<<s, v>>} \in NotesOf
BY DEF NotesOf

(* A handler may end, before anything was recorded, with any exchange that *)
(* fits what the client got.                                               *)
LEMMA EndIsRecorded ==
    ASSUME NEW c \in Calls, RecordInv, delivered[c] = <<>>,
           NEW e \in Exchanges, NEW n \in NotesOf, NEW r \in Reaches, NEW k \in Clients,
           NotesFit(n, r), ExchangeFits(e, r, k), k # "forbidden",
           Step(c, "finish", e, n, r, k)
    PROVE  RecordInv'
<1>1. IsRecordedAt("finish", e, n, r, k, <<>>)
  BY DEF IsRecordedAt, BeforeForward, BeforeAnswer
<1> QED BY <1>1, StepIsRecorded DEF Labels

(* One lemma for each step of the handler, in the order of a call.         *)
LEMMA BlankIsExchange == Blank \in Exchanges
BY DEF Blank, Exchanges

LEMMA PrepareIsRecorded ==
    ASSUME NEW c \in Calls, RecordInv,
           CancelDelay(c) \/ ServeLocal(c) \/ FailByRule(c) \/ Prepare(c)
    PROVE  RecordInv'
<1> USE OneCall, BlankIsExchange
<1>0. /\ pc[c] = "prepare" /\ exchange[c] = Blank /\ client[c] = "waiting"
      /\ reached[c] = "no" /\ delivered[c] = <<>> /\ <<"request", "dropped">> \notin notes[c]
  BY DEF CancelDelay, ServeLocal, FailByRule, Prepare, IsRecordedAt, BeforeForward
<1>5. NotesFit(notes[c], "no")
  BY <1>0 DEF NotesFit
<1>1. CASE CancelDelay(c)
  <2>1. Unwritten(c) \in {"nobody", "empty200"}
    BY DEF Unwritten
  <2>2. ExchangeFits(Blank, "no", Unwritten(c))
    <3>1. Blank.status = "0" /\ Blank.error = ""
      BY DEF Blank
    <3> QED BY <2>1, <3>1 DEF ExchangeFits
  <2>3. Step(c, "finish", Blank, notes[c], "no", Unwritten(c))
    BY <1>0, <1>1 DEF CancelDelay
  <2> QED BY <1>0, <1>5, <2>1, <2>2, <2>3, EndIsRecorded DEF Clients, Reaches
<1>2. CASE ServeLocal(c)
  <2> DEFINE e == [Blank EXCEPT !.status = "local", !.answered = TRUE, !.whole = TRUE]
  <2>1. e \in Exchanges /\ e.status = "local" /\ e.error = ""
    BY DEF Blank, Exchanges
  <2>2. Step(c, "finish", e, notes[c], "no", "local")
    BY <1>0, <1>2 DEF ServeLocal
  <2> HIDE DEF e
  <2>3. ExchangeFits(e, "no", "local")
    BY <2>1 DEF ExchangeFits
  <2> QED BY <1>0, <1>5, <2>1, <2>2, <2>3, EndIsRecorded DEF Clients, Reaches
<1>3. CASE FailByRule(c)
  <2> DEFINE e == Failed(Blank, "0", "closed")
  <2>1. e \in Exchanges /\ e.status = "0" /\ e.error = "closed"
    BY DEF Blank, Exchanges, Failed
  <2>2. Step(c, "finish", e, notes[c], "no", "closed")
    BY <1>0, <1>3 DEF FailByRule
  <2> HIDE DEF e
  <2>3. ExchangeFits(e, "no", "closed")
    BY <2>1 DEF ExchangeFits
  <2> QED BY <1>0, <1>5, <2>1, <2>2, <2>3, EndIsRecorded DEF Clients, Reaches
<1>4. CASE Prepare(c)
  <2>1. PICK l \in {"forward", "holdRequest"},
             n \in {notes[c], notes[c] \cup {<<"request", "too large">>}} :
          Step(c, l, Blank, n, "no", "waiting")
    <3>1. Goto(c, "forward") \/ Note(c, "forward", <<"request", "too large">>)
          \/ Goto(c, "holdRequest")
      BY <1>4 DEF Prepare
    <3> QED BY <1>0, <3>1 DEF Goto, Note
  <2>2. n \in NotesOf /\ <<"request", "dropped">> \notin n
    BY <1>0, RemarkIsTyped DEF Remarks
  <2>3. IsRecordedAt(l, Blank, n, "no", "waiting", <<>>)
    BY <2>2 DEF IsRecordedAt, BeforeForward, BeforeAnswer, NotesFit
  <2>4. l \in Labels /\ "waiting" \in Clients /\ "no" \in Reaches
    BY DEF Labels, Clients, Reaches
  <2> QED BY <1>0, <2>1, <2>2, <2>3, <2>4, StepIsRecorded
<1> QED BY <1>1, <1>2, <1>3, <1>4

LEMMA HoldRequestIsRecorded ==
    ASSUME NEW c \in Calls, RecordInv, HoldRequest(c) \/ SettleRequest(c)
    PROVE  RecordInv'
<1> USE OneCall, BlankIsExchange
<1>0. /\ pc[c] \in {"holdRequest", "heldRequest"} /\ exchange[c] = Blank
      /\ client[c] = "waiting" /\ reached[c] = "no" /\ delivered[c] = <<>>
      /\ <<"request", "dropped">> \notin notes[c]
  BY DEF HoldRequest, SettleRequest, IsRecordedAt, BeforeForward
<1>1. ASSUME NEW l \in {"heldRequest", "forward"}, NEW n \in NotesOf,
             <<"request", "dropped">> \notin n,
             Step(c, l, Blank, n, "no", "waiting")
      PROVE  RecordInv'
  <2>1. IsRecordedAt(l, Blank, n, "no", "waiting", <<>>)
    BY <1>1 DEF IsRecordedAt, BeforeForward, BeforeAnswer, NotesFit
  <2> QED BY <1>0, <1>1, <2>1, StepIsRecorded DEF Labels, Clients, Reaches
<1>2. ASSUME NEW v \in {"skipped", "released", "timed out"}, Note(c, "forward", <<"request", v>>)
      PROVE  RecordInv'
  <2>1. Step(c, "forward", Blank, notes[c] \cup {<<"request", v>>}, "no", "waiting")
    BY <1>0, <1>2 DEF Note
  <2>2. v \in Remarks /\ v # "dropped"
    BY DEF Remarks
  <2>3. notes[c] \cup {<<"request", v>>} \in NotesOf
    BY <2>2, RemarkIsTyped
  <2>4. <<"request", "dropped">> \notin notes[c] \cup {<<"request", v>>}
    BY <1>0, <2>2
  <2> QED BY <1>1, <2>1, <2>3, <2>4
<1>3. ASSUME Goto(c, "heldRequest") PROVE RecordInv'
  BY <1>0, <1>1, <1>3 DEF Goto
<1>4. ASSUME Step(c, "finish", Failed(exchange[c], "0", "dropped"),
                  notes[c] \cup {<<"request", "dropped">>}, reached[c], "closed")
      PROVE  RecordInv'
  <2> DEFINE e == Failed(Blank, "0", "dropped")
             n == notes[c] \cup {<<"request", "dropped">>}
  <2>1. e \in Exchanges /\ e.status = "0" /\ e.error = "dropped"
    BY DEF Blank, Exchanges, Failed
  <2>2. n \in NotesOf
    BY RemarkIsTyped DEF Remarks
  <2>3. Step(c, "finish", e, n, "no", "closed")
    BY <1>0, <1>4
  <2> HIDE DEF e, n
  <2>4. ExchangeFits(e, "no", "closed") /\ NotesFit(n, "no")
    BY <2>1 DEF ExchangeFits, NotesFit
  <2> QED BY <1>0, <2>1, <2>2, <2>3, <2>4, EndIsRecorded DEF Clients, Reaches
<1>5. CASE HoldRequest(c)
  BY <1>2, <1>3, <1>5 DEF HoldRequest
<1>6. CASE SettleRequest(c)
  BY <1>2, <1>4, <1>6 DEF SettleRequest
<1> QED BY <1>5, <1>6

LEMMA ForwardIsRecorded ==
    ASSUME NEW c \in Calls, RecordInv, Forward(c) \/ Cancelled(c) \/ Unreachable(c)
    PROVE  RecordInv'
<1> USE OneCall, BlankIsExchange
<1>0. /\ pc[c] \in {"forward", "upstream"} /\ exchange[c] = Blank
      /\ client[c] = "waiting" /\ delivered[c] = <<>> /\ NotesFit(notes[c], reached[c])
      /\ pc[c] = "forward" => <<"request", "dropped">> \notin notes[c]
  BY DEF Forward, Cancelled, Unreachable, IsRecordedAt, BeforeForward, BeforeAnswer
<1>1. CASE Forward(c)
  <2> DEFINE r == IF <<"request", "released">> \in notes[c] THEN "edited" ELSE "original"
  <2>1. r \in Reaches /\ r # "no"
    BY DEF Reaches
  <2>2. NotesFit(notes[c], r)
    BY <1>0, <1>1 DEF NotesFit, Forward
  <2>3. Step(c, "upstream", Blank, notes[c], r, "waiting")
    BY <1>0, <1>1 DEF Forward
  <2> HIDE DEF r
  <2>4. IsRecordedAt("upstream", Blank, notes[c], r, "waiting", <<>>)
    BY <2>1, <2>2 DEF IsRecordedAt, BeforeForward, BeforeAnswer
  <2> QED BY <1>0, <2>1, <2>3, <2>4, StepIsRecorded DEF Labels, Clients
<1>3. CASE Cancelled(c)
  <2> DEFINE e == Failed(Blank, "0", "cancelled")
  <2>1. e \in Exchanges /\ e.status = "0" /\ e.error = "cancelled"
    BY DEF Blank, Exchanges, Failed
  <2>2. Unwritten(c) \in {"nobody", "empty200"}
    BY DEF Unwritten
  <2>3. Step(c, "finish", e, notes[c], reached[c], Unwritten(c))
    BY <1>0, <1>3 DEF Cancelled
  <2> HIDE DEF e
  <2>4. ExchangeFits(e, reached[c], Unwritten(c))
    BY <2>1, <2>2 DEF ExchangeFits
  <2> QED BY <1>0, <2>1, <2>2, <2>3, <2>4, EndIsRecorded DEF Clients
<1>4. CASE Unreachable(c)
  <2> DEFINE e == Failed(Blank, "502", "unreachable")
  <2>1. e \in Exchanges /\ e.status = "502" /\ e.error = "unreachable"
    BY DEF Blank, Exchanges, Failed
  <2>3. Step(c, "finish", e, notes[c], reached[c], "badGateway")
    BY <1>0, <1>4 DEF Unreachable
  <2> HIDE DEF e
  <2>4. ExchangeFits(e, reached[c], "badGateway")
    BY <2>1 DEF ExchangeFits
  <2> QED BY <1>0, <2>1, <2>3, <2>4, EndIsRecorded DEF Clients
<1> QED BY <1>1, <1>3, <1>4

(* The answer of the upstream, passed on as it is or after a breakpoint.   *)
LEMMA ResponseIsRecorded ==
    ASSUME NEW c \in Calls, RecordInv, Observe(c) \/ HoldResponse(c) \/ SettleResponse(c)
    PROVE  RecordInv'
<1> USE OneCall, BlankIsExchange
<1>0. /\ pc[c] \in BeforeAnswer /\ exchange[c] = Blank /\ reached[c] # "no"
      /\ client[c] = "waiting" /\ delivered[c] = <<>> /\ NotesFit(notes[c], reached[c])
  BY DEF Observe, HoldResponse, SettleResponse, IsRecordedAt, BeforeForward, BeforeAnswer
<1>1. ASSUME NEW v \in Remarks
      PROVE  /\ notes[c] \cup {<<"response", v>>} \in NotesOf
             /\ NotesFit(notes[c] \cup {<<"response", v>>}, reached[c])
  <2>1. notes[c] \cup {<<"response", v>>} \in NotesOf
    BY RemarkIsTyped
  <2>2. NotesFit(notes[c] \cup {<<"response", v>>}, reached[c])
    BY <1>0 DEF NotesFit
  <2> QED BY <2>1, <2>2
<1>2. ASSUME NEW status \in {"upstream", "edited"}, NEW n \in NotesOf,
             NotesFit(n, reached[c]), Answered(c, status, n)
      PROVE  RecordInv'
  <2> DEFINE e == [Blank EXCEPT !.status = status, !.answered = TRUE]
  <2>1. e \in Exchanges /\ e.status = status /\ e.error = ""
    BY DEF Blank, Exchanges
  <2>2. Step(c, "relay", e, n, reached[c], "answered")
    BY <1>0, <1>2 DEF Answered
  <2> HIDE DEF e
  <2>3. ExchangeFits(e, reached[c], "answered")
    BY <2>1 DEF ExchangeFits
  <2>4. IsRecordedAt("relay", e, n, reached[c], "answered", <<>>)
    BY <1>2, <2>1, <2>3 DEF IsRecordedAt, BeforeForward, BeforeAnswer
  <2>5. "relay" \in Labels /\ "answered" \in Clients
    BY DEF Labels, Clients
  <2> QED BY <1>0, <2>1, <2>2, <2>4, <2>5, StepIsRecorded
<1>3. ASSUME NEW l \in {"holdResponse", "heldResponse"}, Goto(c, l) PROVE RecordInv'
  <2>1. IsRecordedAt(l, Blank, notes[c], reached[c], "waiting", <<>>)
    BY <1>0 DEF IsRecordedAt, BeforeForward, BeforeAnswer
  <2>2. Step(c, l, Blank, notes[c], reached[c], "waiting")
    BY <1>0, <1>3 DEF Goto
  <2>3. l \in Labels /\ "waiting" \in Clients
    BY DEF Labels, Clients
  <2> QED BY <1>0, <2>1, <2>2, <2>3, StepIsRecorded
<1>4. ASSUME Step(c, "finish", Failed(exchange[c], "0", "dropped"),
                  notes[c] \cup {<<"response", "dropped">>}, reached[c], "closed")
      PROVE  RecordInv'
  <2> DEFINE e == Failed(Blank, "0", "dropped")
             n == notes[c] \cup {<<"response", "dropped">>}
  <2>1. e \in Exchanges /\ e.status = "0" /\ e.error = "dropped"
    BY DEF Blank, Exchanges, Failed
  <2>2. n \in NotesOf /\ NotesFit(n, reached[c])
    BY <1>1 DEF Remarks
  <2>3. Step(c, "finish", e, n, reached[c], "closed")
    BY <1>0, <1>4
  <2> HIDE DEF e, n
  <2>4. ExchangeFits(e, reached[c], "closed")
    BY <2>1 DEF ExchangeFits
  <2> QED BY <1>0, <2>1, <2>2, <2>3, <2>4, EndIsRecorded DEF Clients
<1>5. {"too large", "not decoded", "skipped", "released", "timed out"} \subseteq Remarks
  BY DEF Remarks
<1>6. CASE Observe(c)
  <2>1. CASE Answered(c, "upstream", notes[c])
    BY <1>0, <1>2, <2>1
  <2>2. CASE \E n \in {"too large", "not decoded"} :
               Answered(c, "upstream", notes[c] \cup {<<"response", n>>})
    BY <1>1, <1>2, <1>5, <2>2
  <2>3. CASE Goto(c, "holdResponse")
    BY <1>3, <2>3
  <2> QED BY <1>6, <2>1, <2>2, <2>3 DEF Observe
<1>7. CASE HoldResponse(c)
  <2>1. CASE Answered(c, "upstream", notes[c] \cup {<<"response", "skipped">>})
    BY <1>1, <1>2, <1>5, <2>1
  <2> QED BY <1>3, <1>7, <2>1 DEF HoldResponse
<1>8. CASE SettleResponse(c)
  <2>1. CASE Answered(c, "edited", notes[c] \cup {<<"response", "released">>})
    BY <1>1, <1>2, <1>5, <2>1
  <2>2. CASE Answered(c, "upstream", notes[c] \cup {<<"response", "timed out">>})
    BY <1>1, <1>2, <1>5, <2>2
  <2> QED BY <1>4, <1>8, <2>1, <2>2 DEF SettleResponse
<1> QED BY <1>6, <1>7, <1>8

(* The body, copied to its end or not.                                     *)
LEMMA RelayIsRecorded ==
    ASSUME NEW c \in Calls, RecordInv, Relay(c) \/ CutShort(c)
    PROVE  RecordInv'
<1> USE OneCall
<1>0. pc[c] = "relay"
  BY DEF Relay, CutShort
<1>1. PICK e \in {exchange[c], [exchange[c] EXCEPT !.whole = TRUE]} :
        Step(c, "finish", e, notes[c], reached[c], client[c])
  BY DEF Relay, CutShort, Goto
<1>2. e \in Exchanges /\ e.status = exchange[c].status /\ e.error = exchange[c].error
  BY DEF Exchanges
<1>3. IsRecordedAt("finish", e, notes[c], reached[c], client[c], delivered[c])
  <2>1. IsRecordedAt("relay", exchange[c], notes[c], reached[c], client[c], delivered[c])
    BY <1>0
  <2>2. ExchangeFits(exchange[c], reached[c], client[c]) => ExchangeFits(e, reached[c], client[c])
    BY <1>2 DEF ExchangeFits
  <2> QED BY <2>1, <2>2 DEF IsRecordedAt, BeforeForward, BeforeAnswer
<1> QED BY <1>1, <1>2, <1>3, StepIsRecorded DEF Labels

(* The steps that also touch srv, plan or delivered: for one call c, with  *)
(* what they lead to.                                                      *)
LEMMA OneCallIsRecorded ==
    ASSUME NEW c \in Calls, RecordInv,
           NEW l \in Labels, NEW e \in Exchanges, NEW k \in Clients,
           NEW d \in Seq(Exchanges),
           IsRecordedAt(l, e, notes[c], reached[c], k, d),
           pc' = [pc EXCEPT ![c] = l],
           exchange' = [exchange EXCEPT ![c] = e],
           client' = [client EXCEPT ![c] = k],
           delivered' = [delivered EXCEPT ![c] = d],
           UNCHANGED <<notes, reached>>
    PROVE  RecordInv'
<1>1. RecordTypes'
  BY DEF RecordInv, RecordTypes, Clients
<1>2. ASSUME NEW f \in Calls PROVE IsRecorded(f)'
  <2>1. CASE f = c
    <3>1. /\ pc'[c] = l /\ exchange'[c] = e /\ notes'[c] = notes[c]
          /\ reached'[c] = reached[c] /\ client'[c] = k /\ delivered'[c] = d
      BY DEF RecordInv, RecordTypes
    <3> QED BY <2>1, <3>1 DEF IsRecorded
  <2>2. CASE f # c
    <3>1. /\ pc'[f] = pc[f] /\ exchange'[f] = exchange[f] /\ notes'[f] = notes[f]
          /\ reached'[f] = reached[f] /\ client'[f] = client[f]
          /\ delivered'[f] = delivered[f]
      BY <2>2 DEF RecordInv, RecordTypes
    <3> QED BY <3>1 DEF IsRecorded, RecordInv
  <2> QED BY <2>1, <2>2
<1> QED BY <1>1, <1>2 DEF RecordInv

LEMMA ArrivalIsRecorded ==
    ASSUME NEW c \in Calls, RecordInv, Refuse(c) \/ Arrive(c)
    PROVE  RecordInv'
<1> USE OneCall, BlankIsExchange
<1>0. /\ pc[c] = "idle" /\ exchange[c] = Blank /\ client[c] = "waiting"
      /\ reached[c] = "no" /\ delivered[c] = <<>> /\ NotesFit(notes[c], "no")
      /\ <<"request", "dropped">> \notin notes[c]
  BY DEF Refuse, Arrive, IsRecordedAt, BeforeForward
<1>1. /\ exchange = [exchange EXCEPT ![c] = Blank] /\ client = [client EXCEPT ![c] = "waiting"]
      /\ delivered = [delivered EXCEPT ![c] = <<>>] /\ <<>> \in Seq(Exchanges)
  BY <1>0 DEF RecordInv, RecordTypes
<1>2. CASE Refuse(c)
  <2>1. IsRecordedAt("done", Blank, notes[c], reached[c], "forbidden", <<>>)
    BY <1>0 DEF IsRecordedAt, BeforeForward, BeforeAnswer
  <2>2. "done" \in Labels /\ "forbidden" \in Clients
    BY DEF Labels, Clients
  <2> QED BY <1>1, <1>2, <2>1, <2>2, OneCallIsRecorded DEF Refuse
<1>3. CASE Arrive(c)
  <2>1. IsRecordedAt("prepare", Blank, notes[c], reached[c], "waiting", <<>>)
    BY <1>0 DEF IsRecordedAt, BeforeForward, BeforeAnswer
  <2>2. "prepare" \in Labels /\ "waiting" \in Clients
    BY DEF Labels, Clients
  <2> QED BY <1>1, <1>3, <2>1, <2>2, OneCallIsRecorded DEF Arrive
<1> QED BY <1>2, <1>3

(* The journal entry of a call that had none.                              *)
LEMMA FirstEntry ==
    ASSUME NEW x \in Exchanges
    PROVE  <<x>> \in Seq(Exchanges) /\ Append(<<>>, x) = <<x>> /\ <<x>> # <<>>
OBVIOUS

(* An upgrade is recorded while the connection still stands, whatever      *)
(* becomes of it then.                                                     *)
LEMMA UpgradeIsRecorded ==
    ASSUME NEW c \in Calls, RecordInv, Upgrade(c)
    PROVE  RecordInv'
<1> USE OneCall, BlankIsExchange
<1>0. /\ exchange[c] = Blank /\ delivered[c] = <<>> /\ NotesFit(notes[c], reached[c])
      /\ reached[c] # "no"
  BY DEF Upgrade, IsRecordedAt, BeforeAnswer
<1> DEFINE e == [Blank EXCEPT !.status = "101", !.upgraded = TRUE, !.answered = TRUE]
<1>1. e \in Exchanges /\ e.status = "101" /\ e.error = ""
  BY DEF Blank, Exchanges
<1>2. Failed(e, "502", "unreachable") \in Exchanges
  BY <1>1 DEF Exchanges, Failed
<1>12. Failed(e, "0", "cancelled") \in Exchanges
  BY <1>1 DEF Exchanges, Failed
<1>13. Unwritten(c) \in {"nobody", "empty200"}
  BY DEF Unwritten
<1>3. /\ delivered' = [delivered EXCEPT ![c] = Append(@, e)]
      /\ \/ /\ exchange' = [exchange EXCEPT ![c] = e]
            /\ pc' = [pc EXCEPT ![c] = "relay"]
            /\ client' = [client EXCEPT ![c] = "upgraded"]
         \/ /\ exchange' = [exchange EXCEPT ![c] = Failed(e, "502", "unreachable")]
            /\ pc' = [pc EXCEPT ![c] = "finish"]
            /\ client' = [client EXCEPT ![c] = "badGateway"]
         \/ /\ exchange' = [exchange EXCEPT ![c] = Failed(e, "0", "cancelled")]
            /\ pc' = [pc EXCEPT ![c] = "finish"]
            /\ client' = [client EXCEPT ![c] = Unwritten(c)]
      /\ UNCHANGED <<notes, reached>>
  BY <1>0 DEF Upgrade
<1> HIDE DEF e
<1>5. <<e>> \in Seq(Exchanges) /\ Append(delivered[c], e) = <<e>>
  BY <1>0, <1>1, FirstEntry
<1>4. delivered' = [delivered EXCEPT ![c] = <<e>>]
  BY <1>3, <1>5
<1>6. /\ ExchangeFits(e, reached[c], "upgraded") /\ ExchangeFits(e, reached[c], "badGateway")
      /\ ExchangeFits(e, reached[c], Unwritten(c))
  BY <1>0, <1>1, <1>13 DEF ExchangeFits
<1>7. IsRecordedAt("relay", e, notes[c], reached[c], "upgraded", <<e>>)
  BY <1>0, <1>1, <1>6 DEF IsRecordedAt, BeforeForward, BeforeAnswer
<1>8. IsRecordedAt("finish", Failed(e, "502", "unreachable"), notes[c], reached[c],
                   "badGateway", <<e>>)
  BY <1>0, <1>1, <1>6 DEF IsRecordedAt, BeforeForward, BeforeAnswer
<1>14. IsRecordedAt("finish", Failed(e, "0", "cancelled"), notes[c], reached[c],
                    Unwritten(c), <<e>>)
  BY <1>0, <1>1, <1>6, <1>13 DEF IsRecordedAt, BeforeForward, BeforeAnswer
<1>9. /\ {"relay", "finish"} \subseteq Labels /\ {"upgraded", "badGateway"} \subseteq Clients
      /\ Unwritten(c) \in Clients
  BY <1>13 DEF Labels, Clients
<1>10. CASE pc' = [pc EXCEPT ![c] = "relay"] /\ client' = [client EXCEPT ![c] = "upgraded"]
            /\ exchange' = [exchange EXCEPT ![c] = e]
  BY <1>1, <1>3, <1>4, <1>5, <1>7, <1>9, <1>10, OneCallIsRecorded
<1>11. CASE pc' = [pc EXCEPT ![c] = "finish"] /\ client' = [client EXCEPT ![c] = "badGateway"]
            /\ exchange' = [exchange EXCEPT ![c] = Failed(e, "502", "unreachable")]
  BY <1>2, <1>3, <1>4, <1>5, <1>8, <1>9, <1>11, OneCallIsRecorded
<1>15. CASE pc' = [pc EXCEPT ![c] = "finish"] /\ client' = [client EXCEPT ![c] = Unwritten(c)]
            /\ exchange' = [exchange EXCEPT ![c] = Failed(e, "0", "cancelled")]
  BY <1>3, <1>4, <1>5, <1>9, <1>12, <1>14, <1>15, OneCallIsRecorded
<1> QED BY <1>3, <1>10, <1>11, <1>15

(* take.finish delivers what was not delivered yet.                        *)
LEMMA FinishIsRecorded ==
    ASSUME NEW c \in Calls, RecordInv, Finish(c)
    PROVE  RecordInv'
<1> USE OneCall
<1>0. pc[c] = "finish"
  BY DEF Finish
<1> DEFINE d == IF delivered[c] = <<>> THEN <<exchange[c]>> ELSE delivered[c]
<1>1. /\ delivered' = [delivered EXCEPT ![c] = d]
      /\ pc' = [pc EXCEPT ![c] = "done"]
      /\ UNCHANGED <<notes, exchange, reached, client>>
  BY DEF Finish
<1>2. d \in Seq(Exchanges)
  BY DEF RecordInv, RecordTypes
<1>3. IsRecordedAt("finish", exchange[c], notes[c], reached[c], client[c], delivered[c])
  BY <1>0
<1>4. IsRecordedAt("done", exchange[c], notes[c], reached[c], client[c], d)
  <2>1. \E x \in Exchanges : d = <<x>> /\ ExchangeFits(x, reached[c], client[c]) /\ client[c] # "forbidden"
    <3>1. CASE delivered[c] = <<>>
      <4>1. ExchangeFits(exchange[c], reached[c], client[c]) /\ client[c] # "forbidden"
        BY <1>3, <3>1, FirstEntry DEF IsRecordedAt
      <4> QED BY <3>1, <4>1
    <3>2. CASE delivered[c] # <<>>
      BY <1>3, <3>2 DEF IsRecordedAt
    <3> QED BY <3>1, <3>2
  <2>2. NotesFit(notes[c], reached[c])
    BY <1>3 DEF IsRecordedAt
  <2> HIDE DEF d
  <2> QED BY <2>1, <2>2 DEF IsRecordedAt, BeforeForward, BeforeAnswer
<1>5. exchange = [exchange EXCEPT ![c] = exchange[c]] /\ client = [client EXCEPT ![c] = client[c]]
  BY DEF RecordInv, RecordTypes
<1> HIDE DEF d
<1> QED BY <1>1, <1>2, <1>4, <1>5, OneCallIsRecorded DEF Labels

(* The app and the clients change nothing that is recorded.                *)
LEMMA StepKeepsRecord == RecordInv /\ [Next]_vars => RecordInv'
<1> SUFFICES ASSUME RecordInv, [Next]_vars PROVE RecordInv'
  OBVIOUS
<1>1. CASE UNCHANGED <<pc, notes, exchange, delivered, reached, client>>
  BY <1>1 DEF RecordInv, RecordTypes, IsRecorded
<1>2. CASE StartCapture \/ UpdateRules \/ StopCapture \/ Shutdown \/ StopReturns
  BY <1>1, <1>2 DEF StartCapture, UpdateRules, StopCapture, Shutdown, StopReturns, handling
<1>3. ASSUME NEW c \in Calls, HangUp(c) PROVE RecordInv'
  BY <1>1, <1>3 DEF HangUp
<1>4. ASSUME NEW c \in Calls, Handler(c) PROVE RecordInv'
  BY <1>4, PrepareIsRecorded, HoldRequestIsRecorded, ForwardIsRecorded,
     ResponseIsRecorded, RelayIsRecorded, FinishIsRecorded DEF Handler
<1>5. ASSUME NEW c \in Calls, Upstream(c) PROVE RecordInv'
  BY <1>5, ForwardIsRecorded, UpgradeIsRecorded, ResponseIsRecorded, RelayIsRecorded
     DEF Upstream
<1> QED BY <1>1, <1>2, <1>3, <1>4, <1>5, ArrivalIsRecorded DEF Next, vars, handling

LEMMA RecordInvSuffices == RecordInv => RecordTellsWhatHappened
<1> SUFFICES ASSUME RecordInv, NEW c \in Calls
             PROVE  /\ Len(delivered[c]) <= 1
                    /\ pc[c] = "done" => (delivered[c] = <<>>) = (client[c] = "forbidden")
                    /\ \A i \in DOMAIN delivered[c] :
                          /\ NotesFit(notes[c], reached[c])
                          /\ ExchangeFits(delivered[c][i], reached[c], client[c])
  BY DEF RecordTellsWhatHappened, NotesFit, ExchangeFits
<1>0. IsRecordedAt(pc[c], exchange[c], notes[c], reached[c], client[c], delivered[c])
      /\ pc[c] \in Labels
  BY OneCall
<1>1. \/ delivered[c] = <<>> /\ (pc[c] = "done" => client[c] = "forbidden")
      \/ \E x \in Exchanges : delivered[c] = <<x>> /\ ExchangeFits(x, reached[c], client[c])
                               /\ client[c] # "forbidden"
  BY <1>0 DEF IsRecordedAt, BeforeForward, BeforeAnswer, Labels
<1>2. NotesFit(notes[c], reached[c])
  BY <1>0 DEF IsRecordedAt
<1>3. CASE delivered[c] = <<>> /\ (pc[c] = "done" => client[c] = "forbidden")
  BY <1>3
<1>4. ASSUME NEW x \in Exchanges, delivered[c] = <<x>>, ExchangeFits(x, reached[c], client[c]),
             client[c] # "forbidden"
      PROVE  /\ Len(delivered[c]) <= 1 /\ delivered[c] # <<>>
             /\ \A i \in DOMAIN delivered[c] : ExchangeFits(delivered[c][i], reached[c], client[c])
  BY <1>4
<1> QED BY <1>1, <1>2, <1>3, <1>4

(* However the handler of a call ends, by returning, by a panic or after   *)
(* an upgrade, with or without its client and in the middle of a Stop, the *)
(* one exchange in the journal tells what the upstream and the client saw. *)
THEOREM RecordIsTrue == Spec => []RecordTellsWhatHappened
<1>1. Init => RecordInv
  <2> SUFFICES ASSUME Init PROVE RecordInv
    OBVIOUS
  <2>1. RecordTypes
    BY BlankIsExchange DEF Init, RecordTypes, Labels
  <2>2. ASSUME NEW c \in Calls PROVE IsRecorded(c)
    BY DEF Init, IsRecorded, IsRecordedAt, BeforeForward, BeforeAnswer, NotesFit
  <2> QED BY <2>1, <2>2 DEF RecordInv
<1>2. RecordInv /\ [Next]_vars => RecordInv'
  BY StepKeepsRecord
<1>3. RecordInv => RecordTellsWhatHappened
  BY RecordInvSuffices
<1> QED BY <1>1, <1>2, <1>3, PTL DEF Spec

(***************************************************************************)
(* Types.                                                                  *)
(***************************************************************************)

(* What the two invariants above leave out of TypeOK.                      *)
RestTypes ==
    /\ cancelled \in SUBSET Servers
    /\ rules \in [Servers -> Plan]
    /\ srv \in [Calls -> 0..MaxServers]
    /\ plan \in [Calls -> Plan]
    /\ gone \in SUBSET Calls

LEMMA EmptyPlanIsPlan == EmptyPlan \in Plan
BY DEF EmptyPlan, Plan

LEMMA StepKeepsRest == ListenerInv /\ RestTypes /\ [Next]_vars => RestTypes'
<1> SUFFICES ASSUME ListenerInv, RestTypes, [Next]_vars PROVE RestTypes'
  OBVIOUS
<1>0. MaxServers \in Nat /\ Plans \subseteq Plan
  BY CaptureAssumption
<1>1. CASE StartCapture
  <2>1. started + 1 \in Servers
    BY <1>0, <1>1 DEF StartCapture, ListenerInv, Servers
  <2> QED BY <1>0, <1>1, <2>1, EmptyPlanIsPlan DEF StartCapture, RestTypes, handling
<1>2. CASE UpdateRules
  BY <1>0, <1>2, EmptyPlanIsPlan DEF UpdateRules, RestTypes, handling
<1>3. CASE StopCapture
  BY <1>0, <1>3 DEF StopCapture, RestTypes, ListenerInv, Servers, handling
<1>4. CASE Shutdown
  BY <1>4 DEF Shutdown, RestTypes, handling
<1>5. CASE StopReturns
  BY <1>5 DEF StopReturns, RestTypes
<1>6. ASSUME NEW c \in Calls, HangUp(c) PROVE RestTypes'
  BY <1>6 DEF HangUp, RestTypes, lifecycle
<1>7. ASSUME NEW c \in Calls, Refuse(c) PROVE RestTypes'
  <2>1. PICK s \in 1..started \ shut : srv' = [srv EXCEPT ![c] = s]
    BY <1>7 DEF Refuse
  <2>2. s \in 0..MaxServers
    BY <1>0 DEF ListenerInv
  <2> QED BY <1>7, <2>1, <2>2 DEF Refuse, RestTypes, lifecycle
<1>8. ASSUME NEW c \in Calls, Arrive(c) PROVE RestTypes'
  <2>1. PICK s \in 1..started \ shut :
          /\ srv' = [srv EXCEPT ![c] = s]
          /\ \E p \in {EmptyPlan, rules[s], [rules[s] EXCEPT !.fault = "none"]} :
               plan' = [plan EXCEPT ![c] = p]
    BY <1>8 DEF Arrive
  <2>2. s \in 0..MaxServers /\ s \in Servers
    BY <1>0 DEF ListenerInv, Servers
  <2>3. rules[s] \in Plan
    BY <2>2 DEF RestTypes
  <2>4. [rules[s] EXCEPT !.fault = "none"] \in Plan
    BY <2>3 DEF Plan
  <2>5. plan' \in [Calls -> Plan]
    BY <2>1, <2>3, <2>4, EmptyPlanIsPlan DEF RestTypes
  <2>6. srv' \in [Calls -> 0..MaxServers]
    BY <2>1, <2>2 DEF RestTypes
  <2> QED BY <1>8, <2>5, <2>6 DEF Arrive, RestTypes, lifecycle
<1>9. CASE UNCHANGED <<cancelled, rules, srv, plan, gone>>
  BY <1>9 DEF RestTypes
<1>10. ASSUME NEW c \in Calls, Handler(c) \/ Upstream(c)
       PROVE  UNCHANGED <<cancelled, rules, srv, plan, gone>>
  BY <1>10 DEF Handler, Upstream, CancelDelay, ServeLocal, FailByRule, Prepare,
     HoldRequest, SettleRequest, Forward, Cancelled, HoldResponse, SettleResponse,
     CutShort, Finish, Unreachable, Upgrade, Observe, Relay, Answered, Note, Goto,
     Step, lifecycle
<1> QED BY <1>1, <1>2, <1>3, <1>4, <1>5, <1>6, <1>7, <1>8, <1>9, <1>10
    DEF Next, vars, lifecycle, handling

(* Every variable of the proxy keeps its type, the label of every handler  *)
(* and the fields of every recorded exchange included.                     *)
THEOREM TypesHold == Spec => []TypeOK
<1>1. Init => ListenerInv /\ RecordInv /\ RestTypes
  <2> SUFFICES ASSUME Init PROVE ListenerInv /\ RecordInv /\ RestTypes
    OBVIOUS
  <2>1. RecordTypes
    BY BlankIsExchange DEF Init, RecordTypes, Labels
  <2>2. ASSUME NEW c \in Calls PROVE IsRecorded(c)
    BY DEF Init, IsRecorded, IsRecordedAt, BeforeForward, BeforeAnswer, NotesFit
  <2>3. ListenerInv
    BY CaptureAssumption DEF Init, ListenerInv
  <2>4. RestTypes
    BY CaptureAssumption, EmptyPlanIsPlan DEF Init, RestTypes
  <2> QED BY <2>1, <2>2, <2>3, <2>4 DEF RecordInv
<1>2. ListenerInv /\ RestTypes /\ [Next]_vars => RestTypes'
  BY StepKeepsRest
<1>3. ListenerInv /\ RecordInv /\ RestTypes => TypeOK
  BY CaptureAssumption DEF ListenerInv, RecordInv, RecordTypes, RestTypes, TypeOK
<1> QED BY <1>1, <1>2, <1>3, StepKeepsListener, StepKeepsRecord, PTL DEF Spec

=============================================================================
