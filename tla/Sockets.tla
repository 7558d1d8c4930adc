------------------------------- MODULE Sockets -------------------------------
(***************************************************************************)
(* The realtime sockets of the tabs (lib/socketSessions.js), the two ways  *)
(* they reach the network (lib/backend/desktopSocket.js, browserSocket.js) *)
(* and what the protocols on top of them keep running (lib/realtime/).     *)
(*                                                                         *)
(* A dial is one run of dial(): it is numbered, and its number stands for  *)
(* its link, its protocol session and its connection.  An action is what   *)
(* runs between two awaits.  In the desktop app the connection lives in    *)
(* the backend: its events reach the page in order, the reply of WSConnect *)
(* comes on its own.  In the browser the transport is there at once and    *)
(* opens later.  A log entry is a received frame, a sent message or a      *)
(* note; its wording is left out.                                          *)
(***************************************************************************)
EXTENDS Naturals, Sequences

CONSTANTS SocketTabs,    \* ids of tabs
          Platforms,     \* subset of {"desktop", "browser"}
          LogLimit,      \* LOG_LIMIT
          MaxDials,      \* bound: dials in a behaviour
          SocketBudgets  \* bound: how often the user and the server do each thing

SocketUses == {"connect", "disconnect", "auto", "close", "message", "clear", "frame"}

ASSUME SocketsAssumption ==
  /\ {LogLimit, MaxDials} \subseteq Nat \ {0}
  /\ SocketBudgets \subseteq [SocketUses -> Nat]
  /\ Platforms \subseteq {"desktop", "browser"}

VARIABLES
  openTabs,   \* the tabs of the strip
  socketSessions,   \* the socket store: one session for each tab that has one
  links,      \* the dial each tab is linked to, 0 for none
  retrying,   \* tabs whose reconnect timer runs
  queued,     \* entries that wait for the flush timer
  outgoing,   \* messages whose delivery has been chained
  dials,      \* all dials: [tab, at, conn, inbox, early, pings, isReady, frames]
  receivers,  \* connections whose events are routed to their dial
  wire,       \* [dial, message] writes, in the order they were made
  platform, socketBudget

soVars == <<openTabs, socketSessions, links, retrying, queued, outgoing, dials, receivers, wire,
            platform, socketBudget>>

NoSession == [status |-> "none"]
IdleSession == [status |-> "idle", entries |-> <<>>, dropped |-> 0, auto |-> FALSE, draft |-> FALSE,
                cleared |-> FALSE]   \* ghost

SessionOfTab(all, tab) == IF all[tab] = NoSession THEN IdleSession ELSE all[tab]

\* patchSession: whatever is patched exists afterwards
Status(all, tab, status) == [all EXCEPT ![tab] = [SessionOfTab(all, tab) EXCEPT !.status = status]]

Note == [kind |-> "note"]
Frame(n, k) == [kind |-> "frame", dial |-> n, number |-> k]
SentEntry(m) == [kind |-> "sent", message |-> m]

Logged(queue, tab, entries) == [queue EXCEPT ![tab] = @ \o entries]

AppendEntries(session, added) ==
  LET entries  == session.entries \o added
      overflow == IF Len(entries) > LogLimit THEN Len(entries) - LogLimit ELSE 0
  IN  [session EXCEPT !.entries = SubSeq(entries, overflow + 1, Len(entries)),
                      !.dropped = @ + overflow]

SoInit ==
  /\ openTabs \in {SocketTabs, {CHOOSE t \in SocketTabs : TRUE}}
  /\ socketSessions = [t \in SocketTabs |-> NoSession]
  /\ links = [t \in SocketTabs |-> 0]
  /\ retrying = {}
  /\ queued = [t \in SocketTabs |-> <<>>]
  /\ outgoing = [t \in SocketTabs |-> <<>>]
  /\ dials = <<>> /\ receivers = {} /\ wire = <<>>
  /\ platform \in Platforms
  /\ socketBudget \in SocketBudgets

SpendSocket(kind) ==
  /\ socketBudget[kind] > 0
  /\ socketBudget' = [socketBudget EXCEPT ![kind] = @ - 1]

IsCurrent(n) == links[dials[n].tab] = n

\* transport.close(): the connection ends later, with a closed event
Closed(dial) ==
  IF dial.conn \in {"opening", "open"} THEN [dial EXCEPT !.conn = "closing"] ELSE dial

FlushEntries ==
  /\ \E t \in SocketTabs : queued[t] # <<>>
  /\ socketSessions' = [t \in SocketTabs |-> IF queued[t] = <<>> THEN socketSessions[t]
                     ELSE AppendEntries(SessionOfTab(socketSessions, t), queued[t])]
  /\ queued' = [t \in SocketTabs |-> <<>>]
  /\ UNCHANGED <<openTabs, links, retrying, outgoing, dials, receivers, wire, platform, socketBudget>>

-----------------------------------------------------------------------------
(* Connecting and letting go *)

\* the protocol's own timer stops, and the transport closes if there is one yet
LetGo(tab) ==
  [n \in 1..Len(dials) |->
     IF links[tab] # n THEN dials[n]
     ELSE IF dials[n].isReady THEN Closed([dials[n] EXCEPT !.pings = FALSE])
     ELSE [dials[n] EXCEPT !.pings = FALSE]]

Release(tab) ==
  links' = [links EXCEPT ![tab] = 0] /\ dials' = LetGo(tab) /\ retrying' = retrying \ {tab}

NewDial(tab) ==
  [tab |-> tab, at |-> "preparing", conn |-> "none", inbox |-> <<>>, early |-> <<>>,
   pings |-> FALSE, isReady |-> FALSE, frames |-> 0]

\* release, then a new link: an earlier dial of the tab goes on without one
BeginDial(tab) ==
  /\ Len(dials) < MaxDials
  /\ retrying' = retrying \ {tab}
  /\ dials' = Append(LetGo(tab), NewDial(tab))
  /\ links' = [links EXCEPT ![tab] = Len(dials) + 1]
  /\ socketSessions' = Status(socketSessions, tab, "connecting")

\* an address with an unknown variable ends here, a reconnect included
CannotResolve(tab) ==
  /\ Release(tab)
  /\ socketSessions' = Status(socketSessions, tab, "idle")

\* the button, or openFromAddressBar for a session that is idle
Connect(tab) ==
  /\ tab \in openTabs /\ SpendSocket("connect")
  /\ BeginDial(tab) \/ CannotResolve(tab)
  /\ queued' = Logged(queued, tab, <<Note>>)
  /\ UNCHANGED <<openTabs, outgoing, receivers, wire, platform>>

\* the reconnect timer; a timer of a closed tab finds no tab
Retry(tab) ==
  /\ tab \in retrying
  /\ IF tab \in openTabs
     THEN /\ BeginDial(tab) \/ CannotResolve(tab)
          /\ queued' = Logged(queued, tab, <<Note>>)
     ELSE /\ retrying' = retrying \ {tab}
          /\ UNCHANGED <<links, dials, socketSessions, queued>>
  /\ UNCHANGED <<openTabs, outgoing, receivers, wire, platform, socketBudget>>

Disconnect(tab) ==
  /\ Release(tab)
  /\ socketSessions' = Status(socketSessions, tab, "idle")
  /\ queued' = IF SessionOfTab(socketSessions, tab).status = "idle" THEN queued
               ELSE Logged(queued, tab, <<Note>>)
  /\ UNCHANGED <<openTabs, outgoing, receivers, wire, platform>>

PressDisconnect(tab) == tab \in openTabs /\ SpendSocket("disconnect") /\ Disconnect(tab)

\* switching reconnection off while it waits is a disconnect
SetAutoReconnect(tab) ==
  LET auto   == ~SessionOfTab(socketSessions, tab).auto
      patched == [socketSessions EXCEPT ![tab] = [SessionOfTab(socketSessions, tab) EXCEPT !.auto = auto]]
  IN  /\ tab \in openTabs /\ SpendSocket("auto")
      /\ IF ~auto /\ SessionOfTab(socketSessions, tab).status = "waiting"
         THEN /\ Release(tab)
              /\ socketSessions' = Status(patched, tab, "idle")
              /\ queued' = Logged(queued, tab, <<Note>>)
         ELSE socketSessions' = patched /\ UNCHANGED <<links, retrying, dials, queued>>
      /\ UNCHANGED <<openTabs, outgoing, receivers, wire, platform>>

\* dispose, for every session whose tab the strip no longer has; outgoing.delete drops the end
\* of the chain and not what hangs on it, so a message on its way goes on, and may bring back
\* a session without a tab until the strip changes again
CloseTab(tab) ==
  /\ tab \in openTabs /\ SpendSocket("close")
  /\ openTabs' = openTabs \ {tab}
  /\ Release(tab)
  /\ socketSessions' = [t \in SocketTabs |-> IF t \in openTabs' THEN socketSessions[t] ELSE NoSession]
  /\ queued' = [t \in SocketTabs |-> IF t \in openTabs' \/ socketSessions[t] = NoSession THEN queued[t] ELSE <<>>]
  /\ UNCHANGED <<outgoing, receivers, wire, platform>>

-----------------------------------------------------------------------------
(* What the handlers of a dial do; d is the dial, s what it shares *)

Shared == [socketSessions |-> socketSessions, queued |-> queued, links |-> links, retrying |-> retrying]

Share(s) ==
  /\ socketSessions' = s.socketSessions /\ queued' = s.queued /\ links' = s.links /\ retrying' = s.retrying

HandleLoss(s, tab) ==
  LET auto == SessionOfTab(s.socketSessions, tab).auto
  IN  [socketSessions |-> Status(s.socketSessions, tab, IF auto THEN "waiting" ELSE "idle"),
       queued   |-> Logged(s.queued, tab, <<Note>>),
       links    |-> [s.links EXCEPT ![tab] = 0],
       retrying |-> IF auto THEN s.retrying \cup {tab} ELSE s.retrying]

\* onMessage: what the protocols show; an answer to a frame is written as well
OnFrame(s, n, frame) == [s EXCEPT !.queued = Logged(@, dials[n].tab, <<frame>>)]

OnOpen(s, n) ==
  [s EXCEPT !.socketSessions = Status(@, dials[n].tab, "open"),
            !.queued = Logged(@, dials[n].tab, <<Note>>)]

\* receive: one event, ignored when the link is another one by now
ReceiveFrame(s, n, event) ==
  IF s.links[dials[n].tab] # n THEN s
  ELSE IF event.kind = "frame" THEN OnFrame(s, n, event)
  ELSE HandleLoss(s, dials[n].tab)

HasClosed(events) == \E i \in 1..Len(events) : events[i].kind = "closed"

\* all of a connection's events but the closed one, which is its last
BeforeClosed(events) == IF HasClosed(events) THEN Len(events) - 1 ELSE Len(events)

\* receive, for the events that came early
ReceiveAll(s, n, events) ==
  LET shown == [s EXCEPT !.queued = Logged(@, dials[n].tab, SubSeq(events, 1, BeforeClosed(events)))]
  IN  IF s.links[dials[n].tab] # n THEN s
      ELSE IF HasClosed(events) THEN HandleLoss(shown, dials[n].tab) ELSE shown

-----------------------------------------------------------------------------
(* The dial *)

\* prepareSession returns: the session exists and openSocket is called, for a link that
\* was let go of as well
PreparedSession(n) ==
  /\ dials[n].at = "preparing"
  /\ dials' = [dials EXCEPT ![n].at = "opening"]
  /\ UNCHANGED <<openTabs, socketSessions, links, retrying, queued, outgoing, receivers, wire, platform, socketBudget>>

\* preparing or opening fails
DialFails(n) ==
  /\ dials[n].at \in {"preparing", "opening"} /\ dials[n].conn \in {"none", "failed"}
  /\ dials' = [dials EXCEPT ![n].at = "over", ![n].conn = "failed"]
  /\ IF IsCurrent(n) THEN Share(HandleLoss(Shared, dials[n].tab))
                     ELSE UNCHANGED <<socketSessions, queued, links, retrying>>
  /\ UNCHANGED <<openTabs, outgoing, receivers, wire, platform, socketBudget>>

\* Faulty: the transport of a link that was let go of is kept.
TransportForGood(n, isCurrent) ==
  [dials[n] EXCEPT !.at = "over", !.early = <<>>, !.isReady = isCurrent, !.pings = isCurrent]

\* openSocket has returned: the transport belongs to the link or is closed at once
Transport(n, isCurrent) ==
  LET d == [dials[n] EXCEPT !.at = "over", !.early = <<>>, !.isReady = isCurrent,
                            !.pings = isCurrent]
  IN  IF isCurrent THEN d ELSE Closed(d)

\* the reply of WSConnect: onOpen, the events that came before it, the transport, and
\* then the protocol's greeting, which waited for the transport
DesktopOpens(n) ==
  LET opened == ReceiveAll(IF IsCurrent(n) THEN OnOpen(Shared, n) ELSE Shared, n, dials[n].early)
      isCurrent == opened.links[dials[n].tab] = n
  IN  /\ platform = "desktop" /\ dials[n].at = "opening" /\ dials[n].conn \notin {"none", "failed"}
      /\ Share(opened)
      /\ dials' = [dials EXCEPT ![n] = Transport(n, isCurrent)]
      /\ receivers' = IF HasClosed(dials[n].early) THEN receivers ELSE receivers \cup {n}
      /\ wire' = IF isCurrent THEN Append(wire, [dial |-> n, message |-> 0]) ELSE wire
      /\ UNCHANGED <<openTabs, outgoing, platform, socketBudget>>

\* new WebSocket(): the transport is there before the connection
BrowserDials(n) ==
  /\ platform = "browser" /\ dials[n].at = "opening"
  /\ dials' = [dials EXCEPT ![n] = [@ EXCEPT !.at = "over", !.isReady = IsCurrent(n),
                                             !.conn = IF IsCurrent(n) THEN "opening" ELSE "closing"]]
  /\ receivers' = receivers \cup {n}
  /\ UNCHANGED <<openTabs, socketSessions, links, retrying, queued, outgoing, wire, platform, socketBudget>>

\* the dial after its oldest event was handled, or kept until the reply of WSConnect is here
Handled(n, event) ==
  [dials[n] EXCEPT !.inbox = Tail(@),
                   !.pings = IF IsCurrent(n) THEN event.kind # "closed" /\ (@ \/ event.kind = "open")
                                             ELSE @]
Buffered(dial) ==
  [dial EXCEPT !.inbox = Tail(@),
               !.early = IF dial.at = "opening" THEN Append(@, Head(dial.inbox)) ELSE @]

\* an event reaches the page
DeliverEvents(n) ==
  /\ dials[n].inbox # <<>>
  /\ LET event == Head(dials[n].inbox)
         opens == event.kind = "open" /\ IsCurrent(n)
     IN  IF n \in receivers
         THEN /\ Share(IF event.kind # "open" THEN ReceiveFrame(Shared, n, event)
                       ELSE IF opens THEN OnOpen(Shared, n) ELSE Shared)
              /\ receivers' = IF event.kind = "closed" THEN receivers \ {n} ELSE receivers
              /\ dials' = [dials EXCEPT ![n] = Handled(n, event)]
              /\ wire' = IF opens THEN Append(wire, [dial |-> n, message |-> 0]) ELSE wire
         ELSE /\ dials' = [dials EXCEPT ![n] = Buffered(@)]
              /\ UNCHANGED <<socketSessions, queued, links, retrying, receivers, wire>>
  /\ UNCHANGED <<openTabs, outgoing, platform, socketBudget>>

-----------------------------------------------------------------------------
(* The other end *)

linkVars == <<openTabs, socketSessions, links, retrying, queued, outgoing, receivers, wire, platform>>

\* an event is on its way to the page
Emits(dial, event) == [dial EXCEPT !.inbox = Append(@, event)]

\* the backend has dialled; its reply and its events travel apart
Accept(n) ==
  /\ \/ platform = "desktop" /\ dials[n].at = "opening" /\ dials[n].conn = "none"
        /\ dials' = [dials EXCEPT ![n].conn = "open"]
     \/ platform = "browser" /\ dials[n].conn = "opening"
        /\ dials' = [dials EXCEPT ![n] = Emits([@ EXCEPT !.conn = "open"], [kind |-> "open"])]
  /\ UNCHANGED <<linkVars, socketBudget>>

NextFrame(n) == Emits([dials[n] EXCEPT !.frames = @ + 1], Frame(n, dials[n].frames + 1))

ServerSends(n) ==
  /\ dials[n].conn = "open" /\ SpendSocket("frame")
  /\ dials' = [dials EXCEPT ![n] = NextFrame(n)]
  /\ UNCHANGED linkVars

\* the peer goes away, or the close that was asked for is through
ConnectionEnds(n) ==
  /\ dials[n].conn \in {"opening", "open", "closing"}
  /\ dials' = [dials EXCEPT ![n] = Emits([@ EXCEPT !.conn = "closed"], [kind |-> "closed"])]
  /\ UNCHANGED <<linkVars, socketBudget>>

-----------------------------------------------------------------------------
(* Messages *)

OpenSession(tab) == links[tab] # 0 /\ SessionOfTab(socketSessions, tab).status = "open"

SetDraft(tab) ==
  /\ tab \in openTabs /\ ~SessionOfTab(socketSessions, tab).draft
  /\ socketBudget["message"] > 0
  /\ socketSessions' = [socketSessions EXCEPT ![tab] = [SessionOfTab(socketSessions, tab) EXCEPT !.draft = TRUE]]
  /\ UNCHANGED <<openTabs, links, retrying, queued, outgoing, dials, receivers, wire, platform,
                 socketBudget>>

\* Faulty: a message overtakes the ones whose placeholders are being filled.
Unchained(chain, m) == <<m>> \o chain

Chained(chain, m) == Append(chain, m)

\* messages are numbered downwards in the order they are sent
SendMessage(tab) ==
  /\ tab \in openTabs /\ OpenSession(tab) /\ socketSessions[tab].draft /\ SpendSocket("message")
  /\ socketSessions' = [socketSessions EXCEPT ![tab].draft = FALSE]
  /\ outgoing' = [outgoing EXCEPT ![tab] = Chained(@, socketBudget["message"])]
  /\ UNCHANGED <<openTabs, links, retrying, queued, dials, receivers, wire, platform>>

\* deliver after filledTexts: the session that is open by now takes the message; a
\* message that cannot be sent goes back into an empty draft
DeliverMessage(tab) ==
  /\ outgoing[tab] # <<>>
  /\ outgoing' = [outgoing EXCEPT ![tab] = Tail(@)]
  /\ LET m == Head(outgoing[tab])
     IN  \/ /\ OpenSession(tab)
            /\ wire' = Append(wire, [dial |-> links[tab], message |-> m])
            /\ queued' = Logged(queued, tab, <<SentEntry(m)>>)
            /\ UNCHANGED socketSessions
         \/ /\ queued' = Logged(queued, tab, <<Note>>)   \* not connected, not filled or no target
            /\ socketSessions' = [socketSessions EXCEPT ![tab] = [SessionOfTab(socketSessions, tab) EXCEPT !.draft = TRUE]]
            /\ UNCHANGED wire
  /\ UNCHANGED <<openTabs, links, retrying, dials, receivers, platform, socketBudget>>

ClearLog(tab) ==
  /\ tab \in openTabs /\ SpendSocket("clear")
  /\ queued' = [queued EXCEPT ![tab] = <<>>]
  /\ socketSessions' = [socketSessions EXCEPT ![tab] =
                    [SessionOfTab(socketSessions, tab) EXCEPT !.entries = <<>>, !.dropped = 0,
                                                         !.cleared = TRUE]]
  /\ UNCHANGED <<openTabs, links, retrying, outgoing, dials, receivers, wire, platform>>

-----------------------------------------------------------------------------
SoNext ==
  \/ FlushEntries
  \/ \E t \in SocketTabs :
       \/ Connect(t) \/ Retry(t) \/ PressDisconnect(t) \/ SetAutoReconnect(t) \/ CloseTab(t)
       \/ SetDraft(t) \/ SendMessage(t) \/ DeliverMessage(t) \/ ClearLog(t)
  \/ \E n \in 1..Len(dials) :
       \/ PreparedSession(n) \/ DialFails(n) \/ DesktopOpens(n) \/ BrowserDials(n) \/ DeliverEvents(n)
       \/ Accept(n) \/ ServerSends(n) \/ ConnectionEnds(n)

SoSpec == SoInit /\ [][SoNext]_soVars

-----------------------------------------------------------------------------
(* Properties *)

\* the status, the link and the timer of a tab agree, and a closed tab has neither
StatusTellsTheLink ==
  \A t \in SocketTabs :
    LET status == SessionOfTab(socketSessions, t).status IN
    /\ links[t] = 0 <=> status \in {"idle", "waiting"}
    /\ t \in retrying <=> status = "waiting"
    /\ status = "open" => dials[links[t]].isReady
    /\ t \notin openTabs => links[t] = 0 /\ t \notin retrying

\* an open connection is its tab's, or its dial is still awaited
NoConnectionIsLeftBehind ==
  \A n \in 1..Len(dials) :
    dials[n].conn \in {"opening", "open"} => IsCurrent(n) \/ dials[n].at = "opening"

\* the keep-alive timer of MQTT and SignalR runs for a linked connection only
PingsOnlyWhileLinked == \A n \in 1..Len(dials) : dials[n].pings => IsCurrent(n)

\* However a tab connects, loses, retries, disconnects and closes: its status, its link
\* and its reconnect timer agree, a closed tab has none of them, and no connection and no
\* keep-alive timer is left behind by a link that was let go of while its dial was under
\* way (release, handleLoss and dial change four maps that have to stay in step).
LinksAreAccountedFor == StatusTellsTheLink /\ NoConnectionIsLeftBehind /\ PingsOnlyWhileLinked

IsFrame(entry) == entry.kind = "frame"

Precedes(frame, next) ==
  frame.dial < next.dial \/ (frame.dial = next.dial /\ frame.number < next.number)

\* what a tab's log shows and will show once it is flushed, and the events of its connection
\* that have not been shown yet
Shown(t) == SessionOfTab(socketSessions, t).entries \o queued[t]
Pending(dial) == dial.early \o dial.inbox
Story(t) == IF links[t] = 0 THEN Shown(t) ELSE Shown(t) \o Pending(dials[links[t]])

IsWhole(session) == session.dropped = 0 /\ ~session.cleared

\* The log shows the frames of a tab's connections in the order the server sent them and
\* without a gap, those that overtook the reply of WSConnect included and never one of
\* another tab's connection; with what is still on its way it ends with the last frame the
\* server has sent (route, dialBuffers and earlyEvents of desktopSocket.js, appendEntries).
\* Only the beginning may be missing, from a log that was cut or cleared.
FramesInOrder ==
  \A t \in SocketTabs :
    LET story == Story(t)
        session == SessionOfTab(socketSessions, t)
        IsFirst(i) == \A h \in 1..i-1 : ~IsFrame(story[h])
    IN  /\ \A i \in 1..Len(story) : IsFrame(story[i]) =>
             /\ dials[story[i].dial].tab = t
             /\ \A j \in i+1..Len(story) : IsFrame(story[j]) => Precedes(story[i], story[j])
             /\ \/ story[i].number = 1
                \/ \E h \in 1..i-1 : story[h] = Frame(story[i].dial, story[i].number - 1)
                \/ IsFirst(i) /\ ~IsWhole(session)
        /\ links[t] # 0 /\ dials[links[t]].frames > 0 =>
             \/ \E i \in 1..Len(story) : story[i] = Frame(links[t], dials[links[t]].frames)
             \/ IsFirst(Len(story) + 1) /\ ~IsWhole(session)

\* The messages of a tab are written in the order they were sent, each at most once and
\* none before the greeting of the protocol, although filling the placeholders takes time
\* and the transport may come later than the session (outgoing, link.ready).
MessagesInOrder ==
  \A j \in 1..Len(wire) : wire[j].message # 0 =>
    /\ \E i \in 1..j : wire[i] = [dial |-> wire[j].dial, message |-> 0]
    /\ \A i \in 1..j-1 :
         wire[i].message # 0 /\ dials[wire[i].dial].tab = dials[wire[j].dial].tab
           => wire[i].message > wire[j].message

\* Both directions of a tab's traffic: what the server sends is shown in its order and
\* without a gap, what the user sends is written in its order and at most once.
TrafficInOrder == FramesInOrder /\ MessagesInOrder

=============================================================================
