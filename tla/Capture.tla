------------------------------ MODULE Capture -------------------------------
(***************************************************************************)
(* The capture proxy: its server as the desktop app starts and stops it    *)
(* (gostman-gui/capture.go), the handler of a call from the first look at  *)
(* its rules to the recorded exchange (capture/server.go, flow.go,         *)
(* recording.go), and the calls it holds.  A breakpoint is taken in the    *)
(* abstract form of module Breakpoint, which Holds shows hold.go to        *)
(* implement.  http.Server, ReverseProxy and the transport are external.   *)
(*                                                                         *)
(* What an exchange carries is reduced to what tells outcomes apart.  The  *)
(* variables reached and client are history: what the upstream API and the *)
(* calling app really got to see.                                          *)
(***************************************************************************)
EXTENDS Naturals, Sequences, FiniteSets

CONSTANTS
    Calls,        \* the calls made to the proxy
    MaxServers,   \* bound on how often the capture is started
    MaxHeld,      \* maxHeld
    Plans         \* what matching rules can ask for, see Plan

Servers == 1..MaxServers

(* plan: what the rules that match a call add up to.                       *)
Plan == [fired : BOOLEAN, delay : BOOLEAN, fault : {"none", "status", "drop"},
         answer : BOOLEAN, editsBody : BOOLEAN,
         breakRequest : BOOLEAN, breakResponse : BOOLEAN]

EmptyPlan == [fired |-> FALSE, delay |-> FALSE, fault |-> "none", answer |-> FALSE,
              editsBody |-> FALSE, breakRequest |-> FALSE, breakResponse |-> FALSE]

ASSUME CaptureAssumption ==
    /\ MaxServers \in Nat \ {0}
    /\ MaxHeld \in Nat
    /\ Plans \subseteq {p \in Plan : p.fired}
    /\ Plans # {}

VARIABLES
    server,      \* captureServer, 0 for nil
    started,     \* how many servers were started
    stopping,    \* the server whose Stop is under way: captureMutex is taken
    cancelled,   \* servers whose lifetime context is cancelled
    shut,        \* servers whose listener is closed
    rules,       \* rules[s]: what the rules in force ask of a matching call
    pc, srv, plan,
    gone,        \* calls whose client closed the connection
    notes,       \* notes[c]: exchange.Breakpoint
    exchange,    \* exchange[c]: the rest of take.exchange, take.answer, take.received
    delivered,   \* delivered[c]: the exchanges handed to the Exchange hook
    reached,     \* how c reached the upstream
    client       \* what the client of c got

handling == <<pc, srv, plan, gone, notes, exchange, delivered, reached, client>>
lifecycle == <<server, started, stopping, cancelled, shut, rules>>
vars == <<lifecycle, handling>>

-----------------------------------------------------------------------------
Blank == [status |-> "0", error |-> "", upgraded |-> FALSE,
          answered |-> FALSE, whole |-> FALSE]

Exchanges == [status : {"0", "local", "502", "101", "upstream", "edited"},
              error : {"", "dropped", "closed", "cancelled", "unreachable"},
              upgraded : BOOLEAN, answered : BOOLEAN, whole : BOOLEAN]

Init ==
    /\ server = 0
    /\ started = 0
    /\ stopping = 0
    /\ cancelled = {}
    /\ shut = {}
    /\ rules = [s \in Servers |-> EmptyPlan]
    /\ pc = [c \in Calls |-> "idle"]
    /\ srv = [c \in Calls |-> 0]
    /\ plan = [c \in Calls |-> EmptyPlan]
    /\ gone = {}
    /\ notes = [c \in Calls |-> {}]
    /\ exchange = [c \in Calls |-> Blank]
    /\ delivered = [c \in Calls |-> <<>>]
    /\ reached = [c \in Calls |-> "no"]
    /\ client = [c \in Calls |-> "waiting"]

-----------------------------------------------------------------------------
(* The app.  captureMutex is held from the first step of StopCapture to    *)
(* its last; every other operation takes and releases it in one step.      *)

(* Faulty variants of an operation are named for their fault.  They are    *)
(* not part of the specification: each shows that a property notices it.   *)
StartCaptureDuringStop ==
    /\ server = 0
    /\ started < MaxServers
    /\ started' = started + 1
    /\ server' = started'
    /\ \E p \in Plans \cup {EmptyPlan} : rules' = [rules EXCEPT ![started'] = p]
    /\ UNCHANGED <<stopping, cancelled, shut>>
    /\ UNCHANGED handling

StartCapture ==
    /\ stopping = 0
    /\ server = 0
    /\ started < MaxServers
    /\ started' = started + 1
    /\ server' = started'
    /\ \E p \in Plans \cup {EmptyPlan} : rules' = [rules EXCEPT ![started'] = p]
    /\ UNCHANGED <<stopping, cancelled, shut>>
    /\ UNCHANGED handling

(* SaveCaptureConfig reaches Server.UpdateRules of a running server.       *)
UpdateRules ==
    /\ stopping = 0
    /\ server # 0
    /\ \E p \in Plans \cup {EmptyPlan} :
         /\ p # rules[server]
         /\ rules' = [rules EXCEPT ![server] = p]
    /\ UNCHANGED <<server, started, stopping, cancelled, shut>>
    /\ UNCHANGED handling

(* StopCapture forgets the server and Stop cancels the lifetime context.   *)
StopCapture ==
    /\ stopping = 0
    /\ server # 0
    /\ stopping' = server
    /\ server' = 0
    /\ cancelled' = cancelled \cup {server}
    /\ UNCHANGED <<started, shut, rules>>
    /\ UNCHANGED handling

(* Shutdown closes the listener at once ...                                *)
Shutdown ==
    /\ stopping # 0
    /\ stopping \notin shut
    /\ shut' = shut \cup {stopping}
    /\ UNCHANGED <<server, started, stopping, cancelled, rules>>
    /\ UNCHANGED handling

(* A connection taken over by an upgrade, which net/http no longer tracks. *)
IsHijacked(c) == client[c] = "upgraded"

(* ... and waits for the handlers, stopGrace at the most; then Close cuts  *)
(* the connections that are left, whose handlers go on without a client.   *)
(* Neither of them knows of hijacked connections.                          *)
StopReturns ==
    /\ stopping \in shut
    /\ stopping' = 0
    /\ LET left == {c \in Calls : srv[c] = stopping /\ pc[c] # "done" /\ ~IsHijacked(c)}
       IN gone' = gone \cup left
    /\ UNCHANGED <<server, started, cancelled, shut, rules>>
    /\ UNCHANGED <<pc, srv, plan, notes, exchange, delivered, reached, client>>

(* The client of a call closes its connection.                             *)
HangUp(c) ==
    /\ pc[c] \notin {"idle", "done"}
    /\ c \notin gone
    /\ gone' = gone \cup {c}
    /\ UNCHANGED lifecycle
    /\ UNCHANGED <<pc, srv, plan, notes, exchange, delivered, reached, client>>

-----------------------------------------------------------------------------
IsDoneWithTheClient(c) == c \in gone

(* The handler of one call.  Its context ends with the client or the       *)
(* server, whichever is first: BaseContext is the server's lifetime.       *)
IsDone(c) == c \in gone \/ srv[c] \in cancelled

(* The handler moves to label l; e, n, r and k are the new exchange, notes,*)
(* upstream and client side of c.                                          *)
Step(c, l, e, n, r, k) ==
    /\ pc' = [pc EXCEPT ![c] = l]
    /\ exchange' = [exchange EXCEPT ![c] = e]
    /\ notes' = [notes EXCEPT ![c] = n]
    /\ reached' = [reached EXCEPT ![c] = r]
    /\ client' = [client EXCEPT ![c] = k]
    /\ UNCHANGED <<srv, plan, gone, delivered>>
    /\ UNCHANGED lifecycle

Goto(c, l) == Step(c, l, exchange[c], notes[c], reached[c], client[c])

Note(c, l, n) == Step(c, l, exchange[c], notes[c] \cup {n}, reached[c], client[c])

(* recording.failed, and the connection closed without an answer (a panic  *)
(* with ErrAbortHandler, or mock.Drop).  The deferred finish still runs.   *)
Failed(e, status, reason) == [e EXCEPT !.status = status, !.error = reason]

(* net/http answers 200 by itself when a handler returns without writing.  *)
Unwritten(c) == IF c \in gone THEN "nobody" ELSE "empty200"

(* ServeHTTP refuses what is not addressed to, or comes from, localhost.   *)
Refuse(c) ==
    /\ pc[c] = "idle"
    /\ \E s \in 1..started \ shut : srv' = [srv EXCEPT ![c] = s]
    /\ pc' = [pc EXCEPT ![c] = "done"]
    /\ client' = [client EXCEPT ![c] = "forbidden"]
    /\ UNCHANGED lifecycle
    /\ UNCHANGED <<plan, gone, notes, exchange, delivered, reached>>

(* ServeHTTP opens a recording and plans the call by the rules of this     *)
(* moment; a rule may not match, and a fault may not be rolled.            *)
Arrive(c) ==
    /\ pc[c] = "idle"
    /\ \E s \in 1..started \ shut :
         /\ srv' = [srv EXCEPT ![c] = s]
         /\ \E p \in {EmptyPlan, rules[s], [rules[s] EXCEPT !.fault = "none"]} :
              plan' = [plan EXCEPT ![c] = p]
    /\ pc' = [pc EXCEPT ![c] = "prepare"]
    /\ UNCHANGED lifecycle
    /\ UNCHANGED <<gone, notes, exchange, delivered, reached, client>>

(* prepare, before anything of the plan is carried out: the delay.         *)
CancelDelay(c) ==
    /\ pc[c] = "prepare"
    /\ plan[c].fired /\ plan[c].delay
    /\ IsDone(c)
    /\ Step(c, "finish", exchange[c], notes[c], reached[c], Unwritten(c))

ServesLocally(p) == p.fault = "status" \/ (p.fault = "none" /\ p.answer)

ServeLocal(c) ==
    /\ pc[c] = "prepare"
    /\ ServesLocally(plan[c])
    /\ Step(c, "finish",
            [exchange[c] EXCEPT !.status = "local", !.answered = TRUE, !.whole = TRUE],
            notes[c], reached[c], "local")

FailByRule(c) ==
    /\ pc[c] = "prepare"
    /\ plan[c].fault = "drop"
    /\ Step(c, "finish", Failed(exchange[c], "0", "closed"), notes[c], reached[c], "closed")

Prepare(c) ==
    /\ pc[c] = "prepare"
    /\ plan[c].fault = "none" /\ ~plan[c].answer
    /\ \/ /\ ~plan[c].breakRequest
          /\ Goto(c, "forward")
       \/ /\ plan[c].editsBody \/ plan[c].breakRequest
          /\ Note(c, "forward", <<"request", "too large">>)
       \/ /\ plan[c].breakRequest
          /\ Goto(c, "holdRequest")

HeldOn(s) == {c \in Calls : srv[c] = s /\ pc[c] \in {"heldRequest", "heldResponse"}}

HasRoom(c) == Cardinality(HeldOn(srv[c])) < MaxHeld

SettleRequestWithoutAbort(c) ==
    /\ pc[c] = "heldRequest"
    /\ \/ \E v \in {"released", "timed out"} : Note(c, "forward", <<"request", v>>)
       \/ Step(c, "forward", Failed(exchange[c], "0", "dropped"),
               notes[c] \cup {<<"request", "dropped">>}, reached[c], "closed")

HoldRequest(c) ==
    /\ pc[c] = "holdRequest"
    /\ \/ HasRoom(c) /\ Goto(c, "heldRequest")
       \/ ~HasRoom(c) /\ Note(c, "forward", <<"request", "skipped">>)

SettleRequest(c) ==
    /\ pc[c] = "heldRequest"
    /\ \/ \E v \in {"released", "timed out"} : Note(c, "forward", <<"request", v>>)
       \/ Step(c, "finish", Failed(exchange[c], "0", "dropped"),
               notes[c] \cup {<<"request", "dropped">>}, reached[c], "closed")

(* ReverseProxy sends the call on, unless its context is already done.     *)
Forward(c) ==
    /\ pc[c] = "forward"
    /\ ~IsDone(c)
    /\ Step(c, "upstream", exchange[c], notes[c],
            IF <<"request", "released">> \in notes[c] THEN "edited" ELSE "original",
            client[c])

(* refuse: the context was cancelled before the upstream answered.         *)
Cancelled(c) ==
    /\ pc[c] \in {"forward", "upstream"}
    /\ IsDone(c)
    /\ Step(c, "finish", Failed(exchange[c], "0", "cancelled"),
            notes[c], reached[c], Unwritten(c))

(* refuse: the upstream could not be reached.                              *)
Unreachable(c) ==
    /\ pc[c] = "upstream"
    /\ ~IsDone(c)
    /\ Step(c, "finish", Failed(exchange[c], "502", "unreachable"),
            notes[c], reached[c], "badGateway")

(* observe, take.answered: an upgraded connection is recorded before its   *)
(* bytes flow.  The ReverseProxy may still find that the upstream switched *)
(* to a protocol nobody asked for, or that the client's connection cannot  *)
(* be taken over, and then calls refuse, which answers 502 or, when the    *)
(* context is cancelled by then, nothing; neither reaches the record.      *)
Upgrade(c) ==
    /\ pc[c] = "upstream"
    /\ LET e == [exchange[c] EXCEPT !.status = "101", !.upgraded = TRUE, !.answered = TRUE]
       IN /\ delivered' = [delivered EXCEPT ![c] = Append(@, e)]
          /\ \/ /\ exchange' = [exchange EXCEPT ![c] = e]
                /\ pc' = [pc EXCEPT ![c] = "relay"]
                /\ client' = [client EXCEPT ![c] = "upgraded"]
             \/ /\ ~IsDone(c)
                /\ exchange' = [exchange EXCEPT ![c] = Failed(e, "502", "unreachable")]
                /\ pc' = [pc EXCEPT ![c] = "finish"]
                /\ client' = [client EXCEPT ![c] = "badGateway"]
             \/ /\ IsDone(c)
                /\ exchange' = [exchange EXCEPT ![c] = Failed(e, "0", "cancelled")]
                /\ pc' = [pc EXCEPT ![c] = "finish"]
                /\ client' = [client EXCEPT ![c] = Unwritten(c)]
    /\ UNCHANGED lifecycle
    /\ UNCHANGED <<srv, plan, gone, notes, reached>>

(* take.answered: status and headers go to the client, the body follows.   *)
Answered(c, status, n) ==
    Step(c, "relay", [exchange[c] EXCEPT !.status = status, !.answered = TRUE],
         n, reached[c], "answered")

(* observe, with reshape and reworkResponse: a response without a body,    *)
(* too large, not decodable, merely edited, or to be held.                 *)
Observe(c) ==
    /\ pc[c] = "upstream"
    /\ \/ Answered(c, "upstream", notes[c])
       \/ /\ plan[c].editsBody \/ plan[c].breakResponse
          /\ \E n \in {"too large", "not decoded"} :
               Answered(c, "upstream", notes[c] \cup {<<"response", n>>})
       \/ /\ plan[c].breakResponse
          /\ Goto(c, "holdResponse")

HoldResponse(c) ==
    /\ pc[c] = "holdResponse"
    /\ \/ HasRoom(c) /\ Goto(c, "heldResponse")
       \/ ~HasRoom(c) /\ Answered(c, "upstream", notes[c] \cup {<<"response", "skipped">>})

SettleResponse(c) ==
    /\ pc[c] = "heldResponse"
    /\ \/ Answered(c, "edited", notes[c] \cup {<<"response", "released">>})
       \/ Answered(c, "upstream", notes[c] \cup {<<"response", "timed out">>})
       \/ Step(c, "finish", Failed(exchange[c], "0", "dropped"),
               notes[c] \cup {<<"response", "dropped">>}, reached[c], "closed")

(* ReverseProxy copies the body to its end, or the upstream breaks off.    *)
Relay(c) ==
    /\ pc[c] = "relay"
    /\ \/ Step(c, "finish", [exchange[c] EXCEPT !.whole = TRUE], notes[c], reached[c], client[c])
       \/ Goto(c, "finish")

(* The copying also ends when the context does.                            *)
CutShort(c) ==
    /\ pc[c] = "relay"
    /\ IsDone(c)
    /\ Goto(c, "finish")

(* The deferred take.finish, whose sync.Once lets it deliver only once.    *)
Finish(c) ==
    /\ pc[c] = "finish"
    /\ delivered' = [delivered EXCEPT ![c] =
          IF @ = <<>> THEN <<exchange[c]>> ELSE @]
    /\ pc' = [pc EXCEPT ![c] = "done"]
    /\ UNCHANGED lifecycle
    /\ UNCHANGED <<srv, plan, gone, notes, exchange, reached, client>>

Handler(c) ==
    \/ CancelDelay(c) \/ ServeLocal(c) \/ FailByRule(c) \/ Prepare(c)
    \/ HoldRequest(c) \/ SettleRequest(c) \/ Forward(c) \/ Cancelled(c)
    \/ HoldResponse(c) \/ SettleResponse(c) \/ CutShort(c) \/ Finish(c)

(* What only the upstream can bring about.                                 *)
Upstream(c) == Unreachable(c) \/ Upgrade(c) \/ Observe(c) \/ Relay(c)

Next ==
    \/ StartCapture \/ UpdateRules \/ StopCapture \/ Shutdown \/ StopReturns
    \/ \E c \in Calls : HangUp(c) \/ Refuse(c) \/ Arrive(c) \/ Handler(c) \/ Upstream(c)

(* Goroutines and timers make progress; clients, users and the upstream    *)
(* need not.                                                               *)
Fairness ==
    /\ WF_vars(Shutdown)
    /\ WF_vars(StopReturns)
    /\ \A c \in Calls : WF_vars(Handler(c))

Spec == Init /\ [][Next]_vars /\ Fairness

-----------------------------------------------------------------------------
Labels == {"idle", "prepare", "holdRequest", "heldRequest", "forward", "upstream",
           "holdResponse", "heldResponse", "relay", "finish", "done"}

Remarks == {"released", "timed out", "dropped", "skipped", "too large", "not decoded"}

TypeOK ==
    /\ server \in 0..MaxServers
    /\ started \in 0..MaxServers
    /\ stopping \in 0..MaxServers
    /\ cancelled \in SUBSET Servers
    /\ shut \in SUBSET Servers
    /\ rules \in [Servers -> Plan]
    /\ pc \in [Calls -> Labels]
    /\ srv \in [Calls -> 0..MaxServers]
    /\ plan \in [Calls -> Plan]
    /\ gone \in SUBSET Calls
    /\ notes \in [Calls -> SUBSET ({"request", "response"} \X Remarks)]
    /\ exchange \in [Calls -> Exchanges]
    /\ delivered \in [Calls -> Seq(Exchanges)]
    /\ reached \in [Calls -> {"no", "original", "edited"}]
    /\ client \in [Calls -> {"waiting", "forbidden", "local", "closed", "nobody",
                             "empty200", "badGateway", "upgraded", "answered"}]

(* The journal is right about both sides of a call: what it reports as     *)
(* dropped at the request never reached the API, what it reports as        *)
(* released reached it edited or not at all, a status it reports was sent  *)
(* to the client, and a call it reports as dropped got no answer.  Every   *)
(* call that was not refused is recorded once, however its handler ended:  *)
(* by returning, by a panic, or after an upgrade that was already recorded *)
(* (recording.finish behind its sync.Once and the defer).  The exception   *)
(* is the upgrade: recorded before it is carried out, its 101 says that    *)
(* the upstream agreed to it, not that the client got it.  A client that   *)
(* did get it is always recorded so.                                       *)
RecordTellsWhatHappened ==
    \A c \in Calls :
        /\ Len(delivered[c]) <= 1
        /\ pc[c] = "done" => (delivered[c] = <<>>) = (client[c] = "forbidden")
        /\ \A i \in DOMAIN delivered[c] :
             LET e == delivered[c][i] IN
             /\ <<"request", "dropped">> \in notes[c] => reached[c] = "no"
             /\ reached[c] = "edited" => <<"request", "released">> \in notes[c]
             /\ reached[c] = "original" => <<"request", "released">> \notin notes[c]
             /\ e.error = "dropped" => client[c] = "closed" /\ e.status = "0"
             /\ (e.status \in {"upstream", "edited"}) = (client[c] = "answered")
             /\ (e.status = "local") = (client[c] = "local")
             /\ e.status = "502" => client[c] = "badGateway"
             /\ e.status = "101" => reached[c] # "no"
             /\ client[c] = "upgraded" => e.status = "101"
             /\ client[c] = "badGateway" => e.status \in {"502", "101"}
             /\ client[c] \in {"nobody", "empty200"} => e.status \in {"0", "101"}
             /\ client[c] = "closed" => e.status = "0"

(* At most one capture listens: StartCapture waits behind captureMutex     *)
(* until the Stop of the server before it has closed its listener.         *)
OneListener == Cardinality(1..started \ shut) <= 1

(* Stopping the capture ends every call it was serving, held ones and      *)
(* streams included, even if the upstream never answers and the clients    *)
(* never hang up, and StopCapture itself returns.                          *)
StopEndsEverything ==
    \A s \in Servers :
        s \in cancelled ~> /\ stopping # s
                          /\ \A c \in Calls : srv[c] = s => pc[c] = "done"
=============================================================================
