---------------------------- MODULE CaptureWindow ----------------------------
(***************************************************************************)
(* The capture window (lib/captureSession.js) and the desktop app it talks *)
(* to (capture.go): calls that are answered in any order, events that      *)
(* arrive in between, and rules that are saved some time after an edit.    *)
(*                                                                         *)
(* A call reaches the app some time after it is made and its reply some    *)
(* time after that; events arrive in the order they were emitted.  The     *)
(* rules are the set of edits they contain.  Left out are the address and  *)
(* the port, exports, imports and what is made from an exchange, none of   *)
(* which changes what is shown of the capture, and a call of a stopped     *)
(* capture that meets a breakpoint, which is let go at once (Holds).  Held *)
(* calls are numbered through, where the code counts anew in each capture. *)
(***************************************************************************)
EXTENDS Naturals, SequencesExt

CONSTANTS CaptureLimit,   \* LOG_LIMIT and the limit of the journal
          CaptureBudgets, \* bounds: how many exchanges, holds, edits and uses there are
          Slots           \* bound: operations under way at once

ASSUME WindowAssumption ==
  /\ CaptureLimit \in Nat \ {0}
  /\ 1 \in Slots                \* where the program's own resume is under way

VARIABLES
  proxyOn, isLeft, journal, heldNow, rulesOnDisk,    \* the app; isLeft: a stop has left handlers running
  eventsSent,                                \* events on their way to the window
  operations,                                \* the async functions under way, by slot
  captureOpen, shownOn, isStarting, log, shownHeld, rules, detail,   \* the store
  inspection,                                \* the exchange inspected last
  listens, listensHeld, saveTimer,           \* stopListening, stopHeld, saveTimer
  recorded, holds, edits, uses,              \* counters
  captureBudget,                                    \* their bounds
  stale      \* ghost: parts the window shows wrongly since a reply that was overtaken, refused or not waited
             \* for, until the next reply about them

appVars    == <<proxyOn, isLeft, journal, heldNow, rulesOnDisk>>
storeVars  == <<captureOpen, shownOn, isStarting, log, shownHeld, rules, detail, inspection>>
listenVars == <<listens, listensHeld, saveTimer>>
countVars  == <<recorded, holds, edits, uses, captureBudget>>
cwVars == <<appVars, eventsSent, operations, storeVars, listenVars, countVars, stale>>

\* an async function at the await of a call: `got' and `ids' are what the call answered, `config'
\* the rules it saves or has loaded, `id' the exchange it inspects
Waiting(op, call) ==
  [op |-> op, call |-> call, isServed |-> FALSE, got |-> FALSE, ids |-> {}, config |-> {}, id |-> 0, isLast |-> FALSE]

NoOperation == Waiting("none", "none")

CwInit ==
  /\ proxyOn \in BOOLEAN /\ isLeft = FALSE /\ journal = {} /\ heldNow = {} /\ rulesOnDisk = {}
  /\ eventsSent = <<>>
  \* the program calls resume when it starts; a reload finds the capture running
  /\ operations = [s \in Slots |-> IF s = 1 THEN Waiting("resume", "status") ELSE NoOperation]
  /\ captureOpen = FALSE /\ shownOn = FALSE /\ isStarting = FALSE
  /\ log = {} /\ shownHeld = {} /\ rules = {} /\ detail = 0 /\ inspection = 0
  /\ listens = FALSE /\ listensHeld = FALSE /\ saveTimer = FALSE
  /\ captureBudget \in CaptureBudgets
  /\ recorded = 0 /\ holds = 0 /\ edits = 0 /\ uses = 0 /\ stale = {}

\* the newest CaptureLimit
Trimmed(ids) == {i \in ids : Cardinality({j \in ids : j > i}) < CaptureLimit}

\* Faulty: the list replaces what has arrived in the meantime.
ListReplaces(new, old) == Trimmed(new)

\* mergeLogs
MergeLogs(new, old) == Trimmed(new \cup old)

\* what the window would show of held calls and exchanges once the events have arrived
OnTheirWay(kind) == {eventsSent[i].id : i \in {j \in 1..Len(eventsSent) : eventsSent[j].kind = kind}}
HeldAfter(shown) == (shown \cup OnTheirWay("held")) \ OnTheirWay("settled")
Missing(shown, hears) == journal \ (shown \cup IF hears THEN OnTheirWay("exchange") ELSE {})

Mark(part, isStale) == IF isStale THEN stale \cup {part} ELSE stale \ {part}

-----------------------------------------------------------------------------
(* The app *)

Event(kind, id) == [kind |-> kind, id |-> id]

\* keepExchange, by a handler of the capture or by one its stop has not waited for: of that one
\* a window that listens no more is not told
RecordExchange ==
  /\ proxyOn \/ isLeft
  /\ recorded < captureBudget.exchanges /\ recorded' = recorded + 1
  /\ journal' = Trimmed(journal \cup {recorded'})
  /\ eventsSent' = Append(eventsSent, Event("exchange", recorded'))
  /\ stale' = IF proxyOn \/ listens THEN stale ELSE stale \cup {"log"}
  /\ UNCHANGED <<proxyOn, isLeft, heldNow, rulesOnDisk, operations, storeVars, listenVars, holds, edits, uses,
                 captureBudget>>

\* a breakpoint holds a call
Hold ==
  /\ proxyOn /\ holds < captureBudget.holds /\ holds' = holds + 1
  /\ heldNow' = heldNow \cup {holds'}
  /\ eventsSent' = Append(eventsSent, Event("held", holds'))
  /\ UNCHANGED <<proxyOn, isLeft, journal, rulesOnDisk, operations, storeVars, listenVars, recorded, edits, uses, captureBudget, stale>>

\* it is released, dropped or waits too long
Settle ==
  /\ \E id \in heldNow :
       /\ heldNow' = heldNow \ {id}
       /\ eventsSent' = Append(eventsSent, Event("settled", id))
  /\ UNCHANGED <<proxyOn, isLeft, journal, rulesOnDisk, operations, storeVars, listenVars, countVars, stale>>

\* the events of a stop, in any order
Settlements(ids) ==
  {[i \in 1..Cardinality(ids) |-> Event("settled", order[i])] : order \in Surjection(1..Cardinality(ids), ids)}

Answered(s, got, ids) ==
  operations' = [operations EXCEPT ![s].isServed = TRUE, ![s].got = got, ![s].ids = ids]

\* CaptureConfig: the file of rules may not be readable
ServeConfig(s) ==
  /\ \/ Answered(s, TRUE, rulesOnDisk) \/ Answered(s, FALSE, {})
  /\ UNCHANGED <<appVars, eventsSent, stale>>

\* SaveCaptureConfig: refused or not written; written; or written and then refused by the
\* running capture
ServeSave(s, o) ==
  /\ \/ /\ \E got \in BOOLEAN : Answered(s, got, {}) /\ (proxyOn \/ got)
        /\ rulesOnDisk' = o.config
        /\ stale' = IF rulesOnDisk \subseteq o.config THEN stale ELSE stale \cup {"rules"}
     \/ Answered(s, FALSE, {}) /\ stale' = stale \cup {"rules"} /\ UNCHANGED rulesOnDisk
  /\ UNCHANGED <<proxyOn, isLeft, journal, heldNow, eventsSent>>

\* StopCapture: the capture is over before its server is stopped, so also when that fails; Stop
\* waits no longer than stopGrace for the handlers
ServeStop(s) ==
  /\ \E got \in BOOLEAN : Answered(s, got, {})
  /\ proxyOn' = FALSE /\ heldNow' = {}
  /\ isLeft' \in IF proxyOn THEN {isLeft, TRUE} ELSE {isLeft}
  /\ \E order \in Settlements(heldNow) : eventsSent' = eventsSent \o order
  /\ UNCHANGED <<journal, rulesOnDisk, stale>>

\* a call reaches the app; StartCapture fails when a capture runs, or the port is taken
Serve(s) ==
  LET o == operations[s] IN
  /\ o.op # "none" /\ ~o.isServed
  /\ \/ o.call = "status" /\ Answered(s, proxyOn, {}) /\ UNCHANGED <<appVars, eventsSent, stale>>
     \/ o.call = "loadConfig" /\ ServeConfig(s)
     \/ o.call = "held" /\ Answered(s, TRUE, heldNow) /\ UNCHANGED <<appVars, eventsSent, stale>>
     \/ o.call = "list" /\ Answered(s, TRUE, journal) /\ UNCHANGED <<appVars, eventsSent, stale>>
     \/ o.call = "details" /\ Answered(s, o.id \in journal, {})
        /\ UNCHANGED <<appVars, eventsSent, stale>>
     \/ /\ o.call = "clear" /\ Answered(s, TRUE, {}) /\ journal' = {}
        /\ UNCHANGED <<proxyOn, isLeft, heldNow, rulesOnDisk, eventsSent, stale>>
     \/ o.call = "saveConfig" /\ ServeSave(s, o)
     \/ /\ o.call = "start" /\ ~proxyOn /\ Answered(s, TRUE, {}) /\ proxyOn' = TRUE
        /\ UNCHANGED <<isLeft, journal, heldNow, rulesOnDisk, eventsSent, stale>>
     \/ o.call = "start" /\ Answered(s, FALSE, {}) /\ UNCHANGED <<appVars, eventsSent, stale>>
     \/ o.call = "stop" /\ ServeStop(s)
  /\ UNCHANGED <<storeVars, listenVars, countVars>>

-----------------------------------------------------------------------------
(* Events *)

\* record and the listeners of listenHeld
DeliverEvent ==
  /\ eventsSent # <<>> /\ eventsSent' = Tail(eventsSent)
  /\ LET e == Head(eventsSent) IN
       /\ log' = IF e.kind = "exchange" /\ listens THEN MergeLogs({e.id}, log) ELSE log
       /\ shownHeld' = CASE e.kind = "held" /\ listensHeld -> shownHeld \cup {e.id}
                         [] e.kind = "settled" /\ listensHeld -> shownHeld \ {e.id}
                         [] OTHER -> shownHeld
  /\ UNCHANGED <<appVars, operations, captureOpen, shownOn, isStarting, rules, detail, inspection, listenVars,
                 countVars, stale>>

-----------------------------------------------------------------------------
(* Replies *)

Goes(s, op, call) == operations' = [operations EXCEPT ![s] = Waiting(op, call)]
Ends(s) == operations' = [operations EXCEPT ![s] = NoOperation]

\* adopt: what a status says of the capture
Adopt(on) == shownOn' = on /\ listens' = on

\* resume reads no list: calls nobody listened for stay away until the next one
Overlooked(on) == IF Missing(log, on) = {} THEN {} ELSE {"log"}

ReplyStatus(s, o) ==
  /\ o.call = "status" /\ Adopt(o.got)
  /\ stale' = Mark("running", o.got # proxyOn) \cup IF o.op = "resume" THEN Overlooked(o.got) ELSE {}
  /\ IF o.op = "resume" /\ ~o.got THEN Ends(s) ELSE Goes(s, o.op, "loadConfig")
  /\ UNCHANGED <<captureOpen, isStarting, log, shownHeld, rules, detail, inspection, listensHeld, saveTimer>>

\* loadWorkbench: the rules are kept until the held calls are there as well; rules that cannot be
\* read end the operation, so that neither the held calls nor the list are asked for
ReplyConfig(s, o) ==
  /\ o.call = "loadConfig"
  /\ \/ /\ o.got /\ operations' = [operations EXCEPT ![s] = [Waiting(o.op, "held") EXCEPT !.config = o.ids]]
        /\ UNCHANGED stale
     \/ /\ ~o.got /\ Ends(s)
        /\ stale' = stale \cup (IF listensHeld THEN {} ELSE {"held"})
                         \cup IF o.op \in {"open", "stop"} THEN Overlooked(listens) ELSE {}
  /\ UNCHANGED <<storeVars, listenVars>>

ReplyHeld(s, o) ==
  /\ o.call = "held"
  /\ rules' = o.config /\ shownHeld' = o.ids /\ listensHeld' = TRUE
  /\ stale' = Mark("held", HeldAfter(o.ids) # heldNow) \cup IF rules \subseteq o.config THEN {} ELSE {"rules"}
  /\ IF o.op \in {"open", "stop"} THEN Goes(s, o.op, "list") ELSE Ends(s)
  /\ UNCHANGED <<captureOpen, shownOn, isStarting, log, detail, inspection, listens, saveTimer>>

ReplyList(s, o) ==
  /\ o.call = "list"
  /\ log' = MergeLogs(o.ids, log)
  /\ stale' = Mark("log", Missing(o.ids \cup log, listens) # {})
  /\ Ends(s)
  /\ UNCHANGED <<captureOpen, shownOn, isStarting, shownHeld, rules, detail, inspection, listenVars>>

\* save within start goes on to the start, whatever became of it
ReplySave(s, o) ==
  /\ o.call = "saveConfig"
  /\ IF o.op = "start" THEN Goes(s, "start", "start") ELSE Ends(s)
  /\ UNCHANGED <<storeVars, listenVars, stale>>

ReplyStart(s, o) ==
  /\ o.call = "start" /\ isStarting' = FALSE /\ Ends(s)
  /\ \/ o.got /\ Adopt(TRUE) /\ stale' = Mark("running", ~proxyOn) \cup Overlooked(TRUE)
     \/ ~o.got /\ UNCHANGED <<shownOn, listens, stale>>
  /\ UNCHANGED <<captureOpen, log, shownHeld, rules, detail, inspection, listensHeld, saveTimer>>

\* a stop that fails asks for nothing more: the window goes on saying that the capture runs
ReplyStop(s, o) ==
  /\ o.call = "stop"
  /\ \/ o.got /\ Goes(s, "stop", "status") /\ UNCHANGED stale
     \/ ~o.got /\ Ends(s) /\ stale' = Mark("running", shownOn # proxyOn) \cup Overlooked(listens)
  /\ UNCHANGED <<storeVars, listenVars>>

ReplyClear(s, o) ==
  /\ o.call = "clear" /\ log' = {} /\ detail' = 0 /\ Ends(s)
  /\ stale' = Mark("log", Missing({}, listens) # {})
  /\ UNCHANGED <<captureOpen, shownOn, isStarting, shownHeld, rules, inspection, listenVars>>

\* inspect: only the answer for the last exchange inspected counts
ReplyDetails(s, o) ==
  /\ o.call = "details" /\ Ends(s)
  /\ detail' = IF ~o.isLast THEN detail ELSE IF o.got THEN o.id ELSE 0
  /\ UNCHANGED <<captureOpen, shownOn, isStarting, log, shownHeld, rules, inspection, listenVars, stale>>

Reply(s) ==
  LET o == operations[s] IN
  /\ o.op # "none" /\ o.isServed
  /\ \/ ReplyStatus(s, o) \/ ReplyConfig(s, o) \/ ReplyHeld(s, o) \/ ReplyList(s, o) \/ ReplySave(s, o)
     \/ ReplyStart(s, o) \/ ReplyStop(s, o) \/ ReplyClear(s, o) \/ ReplyDetails(s, o)
  /\ UNCHANGED <<appVars, eventsSent, countVars>>

-----------------------------------------------------------------------------
(* The user *)

Begin(o) == \E s \in Slots : operations[s] = NoOperation /\ operations' = [operations EXCEPT ![s] = o]

Saving(op) == [Waiting(op, "saveConfig") EXCEPT !.config = rules]

Use == uses < captureBudget.uses /\ uses' = uses + 1

OpenWindow ==
  /\ ~captureOpen /\ Use /\ captureOpen' = TRUE
  /\ Begin(Waiting("open", "status"))
  /\ UNCHANGED <<appVars, eventsSent, shownOn, isStarting, log, shownHeld, rules, detail, inspection, listenVars,
                 recorded, holds, edits, captureBudget, stale>>

\* Faulty: an edit that is not saved yet is forgotten when the window closes.
CloseWithoutSaving ==
  /\ captureOpen /\ Use /\ captureOpen' = FALSE /\ saveTimer' = FALSE
  /\ UNCHANGED <<appVars, eventsSent, operations, shownOn, isStarting, log, shownHeld, rules, detail, inspection,
                 listens, listensHeld, recorded, holds, edits, captureBudget, stale>>

CloseWindow ==
  /\ captureOpen /\ Use /\ captureOpen' = FALSE /\ saveTimer' = FALSE
  /\ IF saveTimer THEN Begin(Saving("save")) ELSE UNCHANGED operations
  /\ UNCHANGED <<appVars, eventsSent, shownOn, isStarting, log, shownHeld, rules, detail, inspection,
                 listens, listensHeld, recorded, holds, edits, captureBudget, stale>>

\* openAsRequest closes the window and leaves the timer running
OpenAsRequest ==
  /\ captureOpen /\ detail # 0 /\ Use /\ captureOpen' = FALSE
  /\ UNCHANGED <<appVars, eventsSent, operations, shownOn, isStarting, log, shownHeld, rules, detail, inspection,
                 listenVars, recorded, holds, edits, captureBudget, stale>>

CloseDetail ==
  /\ captureOpen /\ detail # 0 /\ Use /\ detail' = 0
  /\ UNCHANGED <<appVars, eventsSent, operations, captureOpen, shownOn, isStarting, log, shownHeld, rules, inspection,
                 listenVars, recorded, holds, edits, captureBudget, stale>>

\* change: rules are added, edited, moved or removed
EditRules ==
  /\ captureOpen /\ edits < captureBudget.edits /\ edits' = edits + 1
  /\ rules' = rules \cup {edits'} /\ saveTimer' = TRUE
  /\ UNCHANGED <<appVars, eventsSent, operations, captureOpen, shownOn, isStarting, log, shownHeld, detail,
                 inspection, listens, listensHeld, recorded, holds, uses, captureBudget, stale>>

SaveTimerFires ==
  /\ saveTimer /\ saveTimer' = FALSE
  /\ Begin(Saving("save"))
  /\ UNCHANGED <<appVars, eventsSent, storeVars, listens, listensHeld, countVars, stale>>

StartCapture ==
  /\ captureOpen /\ ~shownOn /\ ~isStarting /\ Use
  /\ isStarting' = TRUE /\ saveTimer' = FALSE
  /\ Begin(IF saveTimer THEN Saving("start") ELSE Waiting("start", "start"))
  /\ UNCHANGED <<appVars, eventsSent, captureOpen, shownOn, log, shownHeld, rules, detail, inspection, listens,
                 listensHeld, recorded, holds, edits, captureBudget, stale>>

\* stop and clear; trusting the folder calls loadWorkbench
Ask ==
  /\ captureOpen /\ Use
  /\ \/ shownOn /\ Begin(Waiting("stop", "stop"))
     \/ log # {} /\ Begin(Waiting("clear", "clear"))
     \/ Begin(Waiting("trust", "loadConfig"))
  /\ UNCHANGED <<appVars, eventsSent, storeVars, listenVars, recorded, holds, edits, captureBudget, stale>>

\* current !== inspection, from now on for the inspections under way
Supersede(s) == [operations[s] EXCEPT !.isLast = FALSE]

Inspect ==
  /\ captureOpen /\ Use
  /\ \E id \in log, s \in Slots :
       /\ operations[s] = NoOperation /\ inspection' = id
       /\ operations' = [r \in Slots |-> IF r = s THEN [Waiting("inspect", "details") EXCEPT !.id = id, !.isLast = TRUE]
                                         ELSE Supersede(r)]
  /\ UNCHANGED <<appVars, eventsSent, captureOpen, shownOn, isStarting, log, shownHeld, rules, detail, listenVars,
                 recorded, holds, edits, captureBudget, stale>>

CwNext ==
  \/ RecordExchange \/ Hold \/ Settle \/ DeliverEvent
  \/ \E s \in Slots : Serve(s) \/ Reply(s)
  \/ OpenWindow \/ CloseWindow \/ OpenAsRequest \/ CloseDetail \/ EditRules \/ SaveTimerFires \/ StartCapture \/ Ask \/ Inspect

CwSpec == CwInit /\ [][CwNext]_cwVars

-----------------------------------------------------------------------------
(* Properties *)

\* nothing is under way and the window has asked for everything once
IsSettled ==
  /\ captureOpen /\ eventsSent = <<>>
  /\ \A s \in Slots : operations[s] = NoOperation

\* docs/workspaces-and-mock.md: "Each call appears as a row", "Held lists the calls that a
\* rule with a breakpoint is holding": once events and replies have arrived the window shows
\* whether the capture runs, the calls it is holding and all it keeps, and the detail is the
\* one asked for last.  A part is excepted, until the next reply about it, when the reply it was
\* last taken from no longer fits the app it arrives from, when it was not asked for because
\* the rules could not be read, when a stop failed and the window goes on saying that the
\* capture runs, and when a handler its stop did not wait for records a call afterwards.
WindowShowsTheCapture ==
  IsSettled =>
    /\ detail \in {0, inspection}
    /\ "running" \in stale \/ shownOn = proxyOn
    /\ "held" \in stale \/ shownHeld = heldNow
    /\ {"running", "log"} \cap stale # {} \/ journal \subseteq log

\* docs/workspaces-and-mock.md: "Rules take effect on the running capture as soon as they are
\* saved": every edit is on disk once no save is due or under way, also when the window was
\* closed or a capture started in between; excepted are refused saves, saves that overtake
\* each other and edits replaced by rules read before they were saved.
EditsAreSaved ==
  (~saveTimer /\ \A s \in Slots : operations[s] = NoOperation) =>
    "rules" \in stale \/ rulesOnDisk = 1..edits

=============================================================================
