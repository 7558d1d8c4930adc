# A TLA+ verification of Gostman

Gostman is a desktop API client (Go behind a Wails interface in JavaScript, which
also runs as a web app), with a command line, a collection runner, flows, a load
tester, a capture proxy, a mock server, monitors and collections kept as files
in a folder. This directory holds TLA+ models of the
parts whose correctness depends on the order in which goroutines, timers,
clients, users and other programs act, TLC configurations that check them on
small instances, and TLAPS proofs of the properties that matter most.

`PROJECT.json` is the index: every definition that models code is listed under
`map` with the lines it stands for.

Contents: [1 Inventory](#1-inventory) · [2 Modules](#2-modules) ·
[3 Runs](#3-runs) · [4 Fairness](#4-fairness) · [5 Proofs](#5-proofs) ·
[6 Divergences](#6-where-code-and-documentation-differ) ·
[7 Not modelled](#7-what-is-not-modelled) · [8 Plan](#8-plan)

## 1 Inventory

### The parts and how they meet

| Part | State it keeps | Operations | Meets |
|---|---|---|---|
| Breakpoints (`capture/hold.go`) | table of held calls under a mutex, one answer channel of capacity one per hold, the last id | `Server.hold`, `enter`, `leave`, `settle` | handlers of the proxy; `ReleaseHeld`, `DropHeld` of the app; the Held and Settled events |
| Capture proxy (`capture/server.go`, `flow.go`, `recording.go`, `plan.go`) | listener, lifetime context, rules behind an atomic, one recording per call | `Start`, `UpdateRules`, `Stop`, `ServeHTTP` | `httputil.ReverseProxy`, the client, the API, the journal through the Exchange hook |
| Capture in the app (`gostman-gui/capture.go`) | the one server behind `captureMutex` | `StartCapture`, `StopCapture`, `SaveCaptureConfig` | the proxy, the interface |
| Capture journal (`capture/journal.go`) and its window (`lib/captureSession.js`) | the last exchanges; the list, held calls, rules and state shown | open, start, stop, clear, inspect, edit rules and save them 400 ms later | events that may overtake replies |
| Run schedule (`runner/schedule.go`, `flow.go`) | units, queue, `halted`, `ended`, `outputs` | `runAll`, `perform`, `work`, `follow`, `recordPassedOver` | workers side by side, scripts that choose the order |
| Flow engine and runner (`lib/flows/engine.js`, `flowRunner.js`) | place, loops, attempts, sends of each flow; scopes of branches | one turn of a flow; send, pause, nested flow, parallel, stop | the session variables, the sandbox |
| Collection runner (`lib/runner.js`, `runFlow.js`, `runData.js`, `execution.js`) | the current run of each runner, its lanes, the row given to the session | start, stop, the stages of a send, prompts | session variables, one prompt, monitors |
| Tabs and workspaces (`store/appStore.js`, `lib/tabReconcile.js`, `lib/workspaceActions.js`, `lib/storageActions.js`) | the strip of tabs, the requests as last loaded, kept strips of other workspaces, drafts on disk | open, edit, send, save, close, switch, reload, restart | the backend, the disk watcher's announcements |
| Realtime sockets (`lib/socketSessions.js`, `backend/desktopSocket.js`, `browserSocket.js`) | session, link, reconnect timer and queued entries of each tab | connect, retry, disconnect, send, close | Wails events, the browser's WebSocket |
| Monitors (`lib/monitors/monitorSession.js`) | timers, queue of runs, histories, the borrowed environment | schedule, perform, save, remove, pause, enter a workspace | collection runner, the store of records |
| Web storage (`lib/backend/web.js`, `webRecords.js`, `webBackups.js`) | the document in IndexedDB or local storage, a cached copy per window, backups | serialized saves, load, restore, reset, move of older data | other windows, through a channel |
| Load test (`loadtest/`) | pacer slots, issued count, collector | `Run`, `work`, `workStaged`, `claim`, `send`, `report` | the app's one slot (`gostman-gui/loadtest.go`), progress events |
| Disk watcher (`gostman-gui/workspace_watch.go`) | root, baseline, candidate under a mutex | `poll`, `settled`, `forget`, `ownWrite` | the open `Workspace`, saves, editors and git |
| Workspace files (`workspace/`) | the collection in memory, the files | save, move, delete, reload | disk watcher, git |
| App data, backups, trash (`storage.go`, `backups.go`, `trash.go`) | one data file, ten backups | read-modify-write, restore, prune | every store of the interface |
| Secret vault (`secretstore.go`, `secrets/`) | index of secrets kept in the system's store | keep, reconcile, forget | saves of requests |
| Sending (`gostman-gui/app.go`, `engine/`) | table of requests in flight | send, cancel | the interface, scripts |
| Mock server, monitors, MCP server and client, RPC, OAuth tokens, self-update | see `PROJECT.json` | | |
| Importers, exporters, OpenAPI, scan, redaction, AI, command line, views | none, or only what a view shows | conversions | |

### What is hard, and what makes each part correct

* **Breakpoints.** A held call can come out by an answer, its timer or its
  context, while the app is about to answer it; `settle` looks a hold up under
  the mutex and sends after unlocking it. Correct means: the table is exactly
  the calls that wait and never larger than the limit, the app shows nothing
  that left it, a verdict belongs to the call it was meant for, and every held
  call comes out.
* **Capture proxy.** A handler may end by returning, by a panic that closes the
  connection, by a cancelled context or after an upgrade; the capture may be
  stopped meanwhile. Correct means: one record per call, one answer per client,
  a record that agrees with what the API and the client saw, one listener, and
  a stop that ends everything.
* **Run schedule.** Scripts jump, skip, stop and end; workers share a queue and
  append to `outputs` without a lock; a run can be cancelled or can bail.
  Correct means: a bounded number of sends, iterations that do not overlap, one
  worker per unit, a complete and truthful report, and an end.
* **Load test.** Workers claim at once near the limit, the duration ends while
  requests are in flight, progress is read by another goroutine, and a second
  test is refused while the first runs. Correct means: limit and rate are kept,
  the report counts all that was sent, no progress follows it, one test at a
  time, and an end.
* **Disk watcher.** Three parties write the same files, one of them without any
  lock. Correct means: changes are picked up, own saves are not announced, and
  what the watcher takes for unchanged is what is loaded.
* **Flows.** Loops, retries, nested flows and branches spend one limit of
  requests; a stop, a timeout or another branch cancels tasks in pauses, sends
  and turns. Correct means: the limit is kept, loops are left as they were
  entered, nothing is sent after a stop, and flows end.
* **Tabs and workspaces.** A single thread, but every call is awaited: replies
  meet other tabs, other workspaces and other texts than they were asked for.
  Correct means: responses and texts stay with their tab, drafts survive reloads,
  switches and restarts, and the window ends up with what the open folder holds.
* **Sockets.** A dial is awaited while its tab redials, disconnects or closes;
  events overtake the reply that names their connection. Correct means: status,
  link, timer and connection agree, nothing is left open, and traffic keeps its
  order in both directions.
* **Capture window, monitors, collection runner.** Copies of what the backend
  knows, timers that are set again after a run, values lent to shared state and
  taken back. Correct means: the copy ends up true, no monitor is forgotten,
  nothing that was lent is left behind, and results are told once.
* **Web storage.** Two windows, one document, writes that fail or never return.
  Correct means: what is stored is what was saved, and what was replaced can be
  got back.
* **Files and data of the desktop app**: a crash between two writes, a check made
  before a lock.

`PROJECT.json` lists these as hazards, each at its line, with the properties
that watch it or the reason why none does yet.

## 2 Modules

`Capture` is built on what `Breakpoint` promises, and `Holds` is shown to
implement `Breakpoint`. The modules of the interface keep disjoint parts of its
state; `MCInterface` puts the six of them side by side for one run, one `area` per
behaviour. In the same way `MCEngines` joins Holds, LoadTest and a Schedule of
several workers, and `MCRunsWatch` joins Flows, a sequential Schedule and
DiskWatch: a behaviour is one of one part while the others stay as they begin, so
what is checked of a part is what its own specification says. Definitions
marked "Faulty" (`EnterOneTooMany`, `ReconcileAlways`, ...) are not part of any
specification: they are plausible bugs, kept to show that a property would
notice them.

In the modules of the interface an action is what JavaScript runs between two
awaits. A call of the backend takes effect at its own moment and its reply is
adopted at another; replies of different calls come in any order, events in the
order they were emitted. Where the code leaves a window unguarded, a history
variable records that it was hit, and the properties say which hits they except:
`crossed` and `overtaken` (Workbench), `stale` (CaptureWindow), `excused`
(Monitors), `HaveCrossed` and `disturbed` (Runner), `isExcused` (WebStore),
`uncounted` and `quietJoin` (Flows). Section 6 lists them and says which of them
contradict a document.

### Breakpoint, Holds: `capture/hold.go`

`Breakpoint` is the abstract specification: a call that meets a breakpoint is
held, or let through when `MaxHeld` calls already are, and a held call comes out
once with one verdict. `Holds` is the code. `pc[c]` walks through
`Server.hold`; what happens under `holds.mu` is one action, and the pieces in
between are separate: `Enter` or `Skip`, `Announce` (the Held hook), the select
(`TakeAnswer`, `TimeOut`, `Abandon`), then the deferred calls in their order,
`Withdraw` (Settled) and `Leave`. A goroutine of the app goes through `Choose`,
`Lookup` (under the mutex) and `Reply` (after it). A decision is an edit, a drop
or malformed; `aim` is history, the call the user was looking at. A call may
meet a breakpoint again, so ids and channels are not calls. `Gate` is the
refinement mapping.

### Capture: the proxy and its life

One action per decision of the handler: `Arrive` plans the call by the rules in
force at that moment, `Prepare`, `ServeLocal`, `FailByRule` and `CancelDelay` are
`prepare` and `reworkRequest`, then the breakpoint on the request, `Forward`,
the answer of the API (`Observe`, `Upgrade`, `Unreachable`), the breakpoint on
the response, the body, and the deferred `Finish` with its `sync.Once`. The
matching of rules is a free choice of plan, and bodies are reduced to whether
they were too large, not decodable, edited or whole. An upgrade is recorded before
it is made: `Upgrade` then succeeds, or fails in the ReverseProxy, which makes
`refuse` answer 502 or, when the call was cancelled meanwhile, nothing. `reached` and `client` are
history: what the API and the client really saw. The app starts, reconfigures
and stops the server; `StopCapture` holds `captureMutex` from its first step to
its last. `Shutdown` and `Close` do not know of upgraded connections, which only
the server's lifetime context ends. `http.Server`, `ReverseProxy` and the connections are external and
modelled from how this code uses them.

### Schedule: `runner/schedule.go`, `runner/flow.go`

A unit is an iteration when requests go one after another, and one request when
they go side by side; a wave is the units of an iteration. `StartWave` and
`Return` are the loop of `runAll`; a worker takes a position (`Take`), attempts
requests (`Attempt`, one step from `attempt` to the checks after `record`),
pauses (`Resume`) and ends with `PassOver`. What a request comes back with is a
free choice from `Attempts`: a run-order call of its scripts, held back or not,
failed or not. `crew` is chosen in `Init`, because spawning workers may give
fewer than asked for.

### DiskWatch: `gostman-gui/workspace_watch.go`

A file is a stamp that every write renews; walking a folder is one step. The
watcher's poll is `Look` (without a lock), one of the cases of `settled`, and
`Reload` or `FailToReload`, then `Announce`; with no folder open it is `FindNone`
and then `Forget`, between which a folder may be opened. A save is `SaveBegins` (the mutex,
and the comparison with the baseline), `SaveWrites` and `SaveEnds`. Opening is
`OpenScan` and then `Activate`. An editor writes at any moment. `raced` is
history: it records that something fell into one of the windows the `IsSafeTo`
definitions name (a folder scanned and not yet walked, a save under way, a poll
that began with another folder or none and is about to forget this one,
`IsPollElsewhere`), or that a reload failed. Properties that are only true
outside these windows say so.

### LoadTest: `loadtest/`, `gostman-gui/loadtest.go`

A suite is a set of calls of `RunLoadTest`, each with its normalized
configuration. Workers go through ramp or stage, pacer (`Reserve`, `Pace`,
`Await`), `Claim`, `Return` and `Record`; the progress goroutine reads and then
emits; `Finish` waits for both. Time is counted in intervals of the pacer, and
the expiry of the duration may come at any moment. Which workers a stage wants is
a free choice (`Join` may or may not happen).

### Flows: `lib/flows/engine.js`, `lib/flows/flowRunner.js`

A task is one call of `drive` or one branch of a parallel step, named by the path
of steps that leads to it. The engine's turn is `Begin`, `Proceed` and `Follow`
in as many steps as it has to take; `AdoptTurn` applies it, and `Send`, `Wake`,
`CallReturns`, `Ask`, `TimeOut` and `Join` carry its action out. `DecideFails` is
a sandbox that gives no answer. Conditions, responses, inputs and lengths of
lists are chosen; of the variables only the one a Repeat counts in is kept,
because it is the one that has to be put back, in the three layers it may be found
in: given by a Run flow step, in the session, and beneath the session (`Merged`).
A Repeat hides what it finds in any of them and puts it back into the session
(`RepeatTurns`, `CloseLoop`). `IsValid` says what `validateFlow` makes sure of
before a run.

### Workbench: tabs, drafts, workspaces

A tab has a request id, a text, the send it waits for, the response it shows and
the notice of a change on disk. `desk` is the strip and the requests of the open
workspace, `sessions` the strips of the others, `drafts` what a restart brings
back. `SwitchStorage`, `OpenFolder`, `EnterWorkspace`, `LoadReads` and
`LoadReturns` are one switch with its awaits; `ReloadReads` and `ReloadReturns`
answer the disk watcher's announcement. `SaveTab`/`SaveReturns` and
`DeleteRequest`/`DeleteReturns` are calls whose replies may come after a switch.
`Finish` writes a renewed token into the tab that has the id by then, in whatever
workspace (`SetToken`). A folder may be untrusted: while it is restricted every
load takes the active content out of what a tab keeps of its own (`Carried`, with
`Plain` for the text without it), until `Trust` and `LiftRestriction`. A token and
active content are told apart by the functions `Core` and `Plain` on texts.
The ghost `touched` says that the user typed since a tab was loaded or saved, and
`apart` why a tab nobody typed into may differ from what is saved: a save
from another tab or while it was closed, a renewed token, or content taken out by a
load.

Left out: tokens the user asks for (`getToken`), which are edits of the tab; tokens
renewed into the settings of a folder count as `EditFolders`. One reload is under
way at a time, which is a bound.

### Sockets

A dial is one run of `dial()`, numbered; its number stands for its link, session
and connection. The desktop's connection lives in the backend (`DesktopOpens`,
`DeliverEvents`, with events that arrive before the reply of `WSConnect`), the
browser's in the page (`BrowserDials`). `Accept`, `ServerSends` and
`ConnectionEnds` are the other side. What the other side sends are frames, each
with its dial and its number; an event carries a frame, or says that the
connection is open or closed. `Buffered` keeps what comes before the reply of
`WSConnect`, `Handled` is the listener of a link. The story of a tab is its log
with the entries still queued for it. Messages are chained (`Chained`), filled in
and then delivered; log entries are queued and flushed. `CloseTab` does not forget a
closed tab's chain of messages (`outgoing.delete`): ids of tabs do not come back, so
nothing is ever added to it.

### CaptureWindow

Each function of `captureSession.js` that awaits is an operation in a slot: it is
begun, the app serves its call (`Serve`), and `Reply` goes on, perhaps to the next
call. An operation has one form whatever it does: its name, the call it waits for,
whether that was served, and what it got. `DeliverEvent` brings the events in
order. Rules are the set of edits they contain. Rules may not be readable
(`ServeConfig`), which ends the operation before the held calls and the list are
read; a save may be refused, or written and then refused by the running capture
(`ServeSave`); a stop may fail, or give up waiting for handlers, which then record
exchanges of a capture that is over (`ServeStop`, `isLeft`).

### Monitors

`timers`, the promise chain `runQueue` and the run under way with its phases
(running, saving, announcing). `KeepRecord` is the store of records, trimmed to
`Retention`, which all monitors of a workspace share. `EnterSpace` changes the workspace at any moment, `RestartApp`
restarts the app, a run can break or fail to be kept, and a read of the records
can fail, which the code takes for an empty history (`ServeRead`). The calls that
save or remove a monitor's web hook are left out.

### Runner

Runs of the dialog and of a monitor, each with lanes (the workers of `runFlow`)
that go through preparing (`PrepareEnds`, prompts, script writes), `Transmit`,
`Respond` and `Checked`. Results are a set: their order is the order of arrival,
which no property speaks of.
The variable a data file's rows set is one value, `session`, shared by all runs;
a value carries its text and who wrote it. `WithdrawnValues` is what a run puts back: it
compares texts, as the code does, and who wrote a value is there for the properties
only.

### WebStore

Every window has its chain of changes (`serially`), its cached document and its
choice of storage. A write is two steps, landing and returning, and may fail or
be cut off by the window closing. `DatabaseOpens`, `CopyLands` and `CopyIsRead`
move older data into the database, and note where it is if local storage takes
the note (`RemembersDatabase`); `SetAside` and `BeginRestore` replace a text.
`accepted`, `replaced` and `backups` are history: what the stored changes amount
to, each text that was replaced, and how many backups were made by then.
`LeavesBehind` is what a reset does not remove. A reset is one step: its removals
are awaited one by one in the code, and one that fails or is cut short between them is
left out, as is a restore whose backup could not be made, which replaces nothing.

## 3 Runs

| Run | Checks | Bounds |
|---|---|---|
| `engines` | holds: `TableIsTheWaitingCalls`, `ShownAreHeld`, `VerdictIsTheCallsOwn`, `ImplementsBreakpoint`; load tests: `LimitIsKept`, `OneTestAtATime`, `ReportIsComplete`, `RateIsKept`, `TestsEnd`; a run with several workers: `IterationsDoNotOverlap`, `UnitsHaveOneWorker` | 2 calls, 1 place, 2 holds, 1 decider; paced: 2 workers, 3 requests, rivals: 2 tests of 2 requests, staged: 3 workers, up to 3 requests; 2 iterations of 2 requests, 2 workers, bail |
| `runs_watch` | flows: `SendLimitIsKept`, `LoopsAreLeft`, `NothingIsSentAfterStop`, `FlowRunsEnd`; a sequential run: `PassSendBound`, `CompletedRunReportsAll`, `RequestRunsEnd`; disk watcher: `QuietMeansLoaded`, `AnnouncementsAreTrue`, `ChangesArePickedUp` | the seven programs of MCFlows, limits of 2 to 4 requests, 6 quiet steps, lists of up to 2; 3 requests, 2 repeats; 2 folders of 2 files, 2 edits, 1 save, 2 opens, reloads may fail |
| `capture` | `RecordTellsWhatHappened`, `OneListener`, `StopEndsEverything` | either 2 calls with both breakpoints, 1 server, or 1 call of four plans, 2 servers (`shape`); 1 place |
| `interface` | tabs: `TabsAreSound`, `StoreMatchesDisk`, `ResponsesAreOwn`, `DraftsAreKept`; sockets: `LinksAreAccountedFor`, `TrafficInOrder`; capture window: `WindowShowsTheCapture`, `EditsAreSaved`; monitors: `EveryMonitorIsDue`, `ChoiceStands`, `HistoryIsTold`; runner: `RowsAreWithdrawn`, `SentWithItsRow`, `RunsAreTold`; web store: `StoredIsWhatWasSaved`, `ReplacedIsKept` | one area at a time (`area`), each with the budgets of its MC module |
| `holds_answered` | violation of `AcceptedDecisionIsApplied` | 1 call, 2 deciders |
| `schedule_doc` | violation of `DocumentedSendBound` | 2 requests, 1 repeat |
| `disk_watch_missed` | violation of `AllChangesArePickedUp` | 1 folder, 1 edit, 1 save, 1 open |
| `flow_limit` | violation of `LimitOfTheRun` | the programs of MCFlows |
| `flow_quiet` | violation of `QuietLoopsStop` | one program: a parallel step of a flow that only waits, in a loop |
| `flow_given` | violation of `GivenForThatFlowOnly` | one program: a flow that counts in a variable it is given |
| `runner_kept` | violation of `ScriptValuesAreKept` | the plans of MCRunner |
| `drafts_kept` | violation of `UnsavedEditsAreKept` | the budgets of MCWorkbench |

The temporal properties of parts that are run together ask something only of the
behaviours of their part: `FlowRunsEnd` is `FlowsEnd`, `RequestRunsEnd` is `RunEnds`.

The types of Holds, Schedule, Capture, DiskWatch, CaptureWindow, Monitors,
Sockets, Runner and WebStore and the bound on held calls are proved (section 5)
rather than checked; the `TypeOK` of the other modules state the types for a
reader.

Why the bounds are enough for the questions asked:

* Holds: with one place, two calls already compete, one is let through, and a
  call comes back under a new id while an answer to its old one is on its way.
  Several holds at once are covered by the proofs, for any number.
* `capture`: two calls compete for one place on either side. One call is enough
  for the life of servers, which differ only in their number.
* Schedule: three requests give jumps forward over a request, back, and over
  it again; two repeats let the endless-loop limit be met, passed by and refused.
  Two waves of two units on two workers are the least in which waves could overlap.
* DiskWatch: two files tell a snapshot from a half-seen change, two folders
  and two opens give a Workspace that is no longer the one in use.
* LoadTest: the suites differ in what ends a test: limit or duration, limit
  alone, duration alone. `MaxTicks` covers every slot that can be reserved.
* Flows: the programs are two nested loops in the same variable with a retry, a
  pause, a way out of both and a way back; a list with a nested flow for each
  item; a flow that counts, called while its caller counts in the same variable; a flow
  that is given the variable it counts in; a request and two flows side by side, and
  a request and a flow with a condition and a timeout, again and again; and branches
  that send nothing. The variable may be in the session, beneath it, in both or in
  neither. Every limit is
  smaller than what the program would send without it.
* `interface`: all actions of one kind of story at once would not finish, so each
  area has a set of budgets: a budget says how often each kind of event may
  happen, and the set covers the pairs and triples of kinds that can disturb each
  other (sends with switches, saves with edits on disk, drafts with restarts,
  edits with trust, restarts and switches, dials with closing and retries, replies with
  events, runs with edits of the
  monitor, two runs with rows, saves with failures and a window that closes).
  Two tabs, two workspaces, three requests, two windows, two lanes and two kept
  records are the least in which one can be taken for another. Two backups are
  kept, so that a third pushes one out, and four runs of two monitors around a
  restart push a failure out of the records.

A bound can make a property true that the code does not keep. Besides the runs,
the modules of the interface were simulated with larger budgets, and the
inductive invariants of section 5 were checked on the runs' instances before they
were proved. What came of it is in the models: the window of a poll that is about
to forget a folder, tabs whose request was saved by another tab, failures that
other monitors' runs push out of the records, a reset that leaves data behind,
and a replaced text that is kept for the next `KeptSnapshots` backups and not for
ever.

`CHECK_DEADLOCK FALSE` is given where the system may rest: no client calls, no
user acts, the run is over, the bounded environment has nothing left to do.
That a held call, a load test, a run or a flow does not stop halfway is what the
liveness properties say.

Bounds on counters are `MaxHolds`, `MaxServers`, `MaxEdits`, `MaxSaves`,
`MaxOpens`, `MaxSends`, `MaxTicks`, `MaxTabs`, `MaxDials`, `MaxItems`, `Slots` and
the budgets. Limits of the code that are smaller here: `Repeats` (1000), `MaxHeld`
(25), `MaxQuiet` (10,000 steps), `MaxClosed`, `MaxSessions`, `LogLimit`,
`CaptureLimit`, `Retention`, `KeptSnapshots` and `MaxFlowSteps`.

## 4 Fairness

* Goroutines that can go on do (`WF` on the steps of handlers, workers, savers).
* A timer that was started fires: the breakpoint's timer is part of
  `Holds!Progress`, the duration is `WF(Expire)`, time passes by `WF(Tick)`.
* `engine.Send` and scripts return, because both have a time limit
  (`Schedule!Attempt`, `LoadTest!SendReturns`).
* `SF(Poll)` in DiskWatch: a poll waits for the mutex that saves take and
  release; Go's `sync.Mutex` hands itself to a waiter that was passed over.
* `SF(EndProgress)` in LoadTest: the select between the ticker and `finished`
  chooses at random among the ready cases, so it does not prefer the ticker for
  ever.
* `FlFairness`: turns, timers and sends of a flow end and promises resolve. The
  sandbox has a watchdog, every send a time limit. Stop, timeouts and the outcome
  of conditions are left open.
* In the runs of several parts a part is fair only in its own behaviours
  (`RunsWatchFairness`), or has nothing to do in the others (`EnginesSpec`).
* The modules of `interface` state safety only and assume no fairness.
* No client has to call or hang up, no API has to answer, no user has to act, no
  editor has to write: nothing is assumed of them. `StopEndsEverything` holds
  though the API never answers.

## 5 Proofs

Proved by TLAPS for every value of the constants that the modules' named
assumptions allow. These ask for finite sets where something is counted (calls,
tests), natural numbers for counters and limits, positive ones where the code's
limit is positive, and inputs of the right form (the plans of a capture are plans
whose rules fired, the definitions of monitors and the first contents of the
browser are well formed). Each proof module names its inductive invariant,
shows that `Init` implies it and that each action keeps it, one lemma or step per
action, and derives the properties.

**HoldsProofs.** `IInv` is inductive: the types, `TableIsTheWaitingCalls`, that
every id in use was issued (`TicketsAreIssued`), that an answer in a channel and
a decision on a desk are about the call whose id they carry (`AnswersFindTheirCall`,
`DecisionsFindTheirCall`), and that a call past its select has its verdict.
`VerdictIsTheCallsOwn` alone is not inductive: it needs that what lies in the
channel was meant for the call, which needs that the desk held it, which needs
that ids are never reused.
From it: `TypeCorrect`, `TableIsExact`, `NothingStaleIsShown`, `VerdictsAreOwn`;
`HeldIsBounded`, with the library's facts on cardinalities, from `Enter`'s
guard. `HoldsImplementsBreakpoint` is the safety part of the refinement: each
step of `Holds` is a step of `Breakpoint` or changes nothing there. It needs
the table to have as many entries as there are held calls, which is the
bijection in `TableIsTheWaitingCalls`.

**ScheduleProofs.** `PassesAreBounded`: `SentFollowsCursor` relates the requests
sent to where the cursor is: once jumps are refused, every further request
moves the cursor on. So a pass sends at most `2 * Size + Repeats - 1`.
`UnitsAreExclusive`: the queue has no repeats and holds nothing a worker has.
`IterationsAreOrdered`: an iteration is begun when every worker is off, so all
results so far belong to earlier waves; the invariant places every position that
was attempted in the present wave or a finished one. `RunsReportAll` needs most:
what a worker has already put into the output of its unit, for every place of the
worker in its pass, that a unit not taken yet has no output, and how the run may
have come to its end; with it a run that was neither cancelled nor stopped has
reported every request, and what it reports as passed over once and unsent.

**LoadTestProofs.** `OneAtATime`: the slot is the test that runs, and it is one.
`LimitHolds`: a request is sent only for an increment of `issued` below the limit.
`RateHolds`: `RateIsKept` is not inductive, because nothing in it says that the
next request may go. `PaceInv` adds that workers at or past the pacer hold
different slots, all handed out, and that every request used up a slot whose time
has come; the bound is then the size of a set of slots. `ReportsAreComplete`:
`CountInv` says that what was sent is what was counted plus what is in flight,
that what was claimed is sent before a worker ends, and that progress is behind
the counts; when the last worker is done nothing is in flight.

**CaptureProofs.** `OneListens`: only the latest server can run or stop, every
other is shut (`ListenerInv`). `RecordIsTrue`: `RecordInv` says, for every label of
the handler, what may be in the notes, the exchange, the journal, at the upstream
and at the client (`IsRecordedAt`). A record of 101 says that the upstream agreed to
an upgrade: the handler may still fail to make it, and then the client got 502 or, when
the call was cancelled, nothing, which the property names as its one exception. One
lemma (`StepIsRecorded`) turns that into one obligation per path through the handler: a step keeps the invariant if what
it leads to may be recorded there. `TypesHold` for the rest.

**DiskWatchProofs.** `WatchInv` has five parts. The types. `DiskIsAhead`: stamps
only grow, so a copy is never ahead of the disk. `GenerationsAreOwn`: a poll or
save that works for a Workspace object works in that object's folder, and an
object that is still being opened is in no use. `LoadedInv`: as long as nothing fell
into a window, memory is the disk while the folder is unwatched, and never older
than the baseline while it is watched (`KeepsUp`). `ToldInv`: a folder nobody else
touched differs from its baseline only during a save (`OwnSavesAreKnown`).
From it `TypesHold`, `QuietFoldersAreLoaded` and `NoticesAreTrue`. The third window
of section 6 is a finding of this proof: the run had not reached it, because its
model let a poll find nothing open and forget in one step.

**InterfaceProofs** is about the capture window and the sockets of the interface,
**AutomationProofs** about its monitors and its collection runner.

*Capture window.* `CaptureInv` says of every difference between the window and the
app which operation or event will still put it right: edits the disk lacks are
waiting for the timer or in a save that was not served yet (`EditsInv`); a detail
that is not the one inspected last is being read (`DetailInv`); a state shown that
is not the app's has an operation whose reply will tell it (`RunningInv`); a call
held and not shown, or shown and not held, has its event on the way or is about to
be read (`HeldInv`); an exchange missing from the list is among the events or will
be listed (`KeptInv`, `LogInv`). A reply that came late, a call that failed or a
handler that outlived a stop breaks one of these for a part of the window, and `stale`
names that part until a later answer has put it right. `WindowIsFaithful` and `NoEditIsForgotten` are the
case of a window with nothing under way, so neither property is inductive itself.

*Monitors.* `EveryTimerIsSetAgain`: given the types, `EveryMonitorIsDue` is
inductive: the timer that fires leaves an entry in the chain, and each way a run
ends sets it again or finds the monitor paused, removed or elsewhere. `ChoicesStand`
needs `SwitchInv`: what a run that switched an environment on will put back is the
user's choice. `HistoriesAreTold` takes the records of one monitor out of those of its
workspace (`Of`, a recursive function) by an induction over its last argument, done by
the least place where the claim would fail (`LeastNumber`); `HistoryInv` says what a
read, a record under way and the verdict of the run before have to do with each other.

*Sockets.* `SocketInv`: status, link and timer of a tab agree, and the link is a
dial of its own (`TabInv`); what may be true of a dial is given by how far it has
come, in particular a connection that is open belongs to the current link or to a
dial that has not looked at it yet (`DialInv`); the events of a dial on their way,
those kept before the reply included, are the frames that follow the delivered
ones, in order, and closing comes last (`StreamInv`); what a tab shows is ordered
and without gaps and may go on with the next frame of its link (`ShownInv`);
messages are numbered, and those written come before those on their way
(`MessageInv`). That the log is in order is not inductive: the next frame fits only
because of `StreamInv`, and events that overtake the reply of `WSConnect` are
accounted for only if they count as not yet delivered. From it `LinksAreKept` and
`TrafficIsOrdered`, for any tabs, budgets, limits of the log and both platforms.

*Runner.* `RowInv`: lanes are done when the run is over, and a row is in
place exactly from the start of its iteration to its end or to a stop (`LaneInv`);
one lane of a run asks, once (`AskInv`); a value in the session was written by
somebody or is a row, and unless runs have crossed a row in the session is in place
(`ValueInv`); the row of a run nobody disturbed is what the session holds
(`PlaceInv`). A text does not say who wrote it: a value with the text of a row in place may be put
back with it, which `standing` (what was written since and has another text) leaves
out. From it `RunnerWithdraws`, and `RunnerSends`, an action property: the
value a request is sent with is its own row's. `RunnerTells` needs `SinkInv` (a
runner's sink is that of its latest run) and `TellInv`: iterations that are past
are told in full, of the present one each request is told, with a lane, or still
to be taken. With results in a set, "told once" is that a lane and a result never
stand for the same request.

**StoreProofs** is about the two stores of the interface.

*Workbench.* `WbInv`, for any tabs, requests, workspaces, limits and budgets. The
strip on screen, those kept for other workspaces and those written for a restart
have a tab, distinct ids below the next one and an active tab of their own, and no
workspace has two kept strips (`DesksInv`). Unless `crossed`, a tab nobody typed
into and nothing set `apart` (a save elsewhere, a renewed token, content taken out)
shows what was last saved of its request, where "last
saved" survives a request that vanished and, as a mark in the drafts, a restart
(`CleanInv`): this has to be said of every strip, because a kept or written one comes
back later. A tab that waits does so for a send it made itself in this workspace
(`PendingInv`). `SwitchInv` says which workspace the backend has open at each point of a
switch; with it the folders in the store, and those a load or a reload has read, are
those of the workspace they will be written to (`FoldersInv`). What a filled store and
the backend differ in is being saved, deleted or read, or a change is announced
(`StoreInv`). Each operation on a strip has its lemma (opening, closing, moving,
reopening, typing, reconciling, saving, deleting, persisting, restoring) that says
what becomes of soundness, of clean tabs, of pending sends and of drafts; `DeskStep`
collects them. From these `TabsStaySound`, `StoreFollowsDisk` and the action properties
`ResponsesStayOwn` and `DraftsStayKept`. Filtered strips (`Only`) take an induction: it
is done by the least place at which the claim would fail (`LeastNumber`).

The proof found four things about the model: a strip of one workspace that a restart
brought back in another is replaced when that workspace is next left; an object's entry
that is written again keeps its place, so the oldest kept workspace is not always the one
entered first (`WithSession`); a load that reads while the store is filled does not make an
announcement void; and a tab reopened after its request was saved again is behind,
though nobody typed.

*WebStore.* `WebInv`. As long as nothing was excused at most one window is
busy (`OneIsBusy`), so what it has read stays true until it is done. All
windows work in one place and nothing older lies in the other (`PlaceInv`), a
window that may save has found the document (`LoadedInv`), what the busy window is
about to write is the accepted data with its change (`WritesInv`), and a cached
document is current unless news are on their way (`CachedInv`). For `ReplacedIsHeld`
the k-th backup after a replacement has pushed the text k places down (`IsKept`),
and a text about to be replaced is already kept (`BackedUp`). `SavedIsStored` and
`ReplacedIsHeld` are for any windows, fields, first contents and budgets.

Only model-checked:

* Liveness: `RequestRunsEnd`, `TestsEnd`, `FlowRunsEnd`, `ChangesArePickedUp`,
  `StopEndsEverything`, and the liveness half of `ImplementsBreakpoint`. It is out of
  this prover's reach.
* Flows: the sums in `SendLimitIsKept`, the loops in `LoopsAreLeft` and
  `NothingIsSentAfterStop`. The number of tasks is not bounded by a constant, and what
  a branch may send is a sum over its siblings.

## 6 Where code and documentation differ

1. **A decision can be accepted and lost** (`holds_answered`). `settle` finds the
   hold under the mutex and sends after unlocking. If the call's select has chosen its
   timer or its context and the call has not left the table when `settle` looks, the
   send still succeeds, `ReleaseHeld` returns no error, and the call goes on
   unedited, or is not dropped.
2. **A pass may send more than documented** (`schedule_doc`). The documentation
   says at most 1000 more requests than the run holds. The limit is only looked at
   when a script jumps, so the last permitted jump can run the whole pass again.
   The true bound is `PassSendBound`, which is proved.
3. **A change can go unnoticed** (`disk_watch_missed`). The watcher takes its
   first snapshot of a folder as the baseline, though the folder was scanned
   before; and it takes the folder after a save as the baseline, though somebody
   else may have written meanwhile. A change in either window is not reloaded
   until another one happens. A third window came out of the proof: a poll that
   found another folder open, or none, takes the mutex after this folder was
   opened, walked and changed, and makes it unknown again, so that its next
   snapshot becomes the baseline.
4. **A flow can send more than its limit** (`flow_limit`). A parallel step with a
   condition or a timeout cancels a branch in the middle of its flow; `runNested`
   then reports nothing, so the requests the branch has sent are not counted.
   `SendLimitIsKept` shows that this is the only way past the limit.
5. **A loop that sends nothing may not end** (`flow_quiet`). `settleParallel` starts
   the count of quiet steps again though its branches sent nothing, so a loop around
   such a step never reaches the documented 10,000 steps. `FlowRunsEnd` excepts these
   runs and those of 4, and shows that all others end.
6. **A value given to one flow can outlive it** (`flow_given`). A Repeat hides what it
   finds in any layer and puts it back into the session. With a value given by a
   Run flow step, the session holds it after the flow. With one of an environment, the
   session holds a copy of it, and later changes of the environment are hidden by it:
   the documentation asks only that the value is set back, which `LoopsAreLeft`
   checks as what the name resolves to.
7. **What a script wrote may be put back with the row** (`runner_kept`). The runner
   knows a row by its text: a value equal to the row's is taken for it, and a value
   written in one iteration is replaced by the next row and not restored.
   `RowsAreWithdrawn` is what remains true.
8. **Unsaved edits in an untrusted folder lose scripts and auth** (`drafts_kept`).
   Every load after a restricted folder takes active content out of the text a tab
   keeps. `DraftsAreKept` excepts it, leaves the rest of the text in place, and names the
   other ways a draft may change or go.

Related, and visible in `DiskWatch` as windows that set `raced`: a save that
overlaps the watcher's first walk of a folder is announced as somebody else's
change (the windows of `IsSafeToSave` and `IsSafeToLook`), and a change whose
reload failed is not tried again.

A reset of the web app's data leaves some behind (`LeavesBehind` of WebStore): keys
of the first version that a migration cut short had left, and, in a window that works
in local storage, a copy in the database that could not be read back.
`docs/preferences-and-shortcuts.md:209-212` lists what is deleted and says that the
app starts empty afterwards; after such a reset it does not. The property
`StoredIsWhatWasSaved` excepts it by name.

Windows of the interface that no document speaks of, that the properties except
and that the models show to be reachable:

* Workbench: the reply of a save or a delete is applied to the workspace and the
  tab id of the moment it arrives (`crossed`), and with save-and-close what was
  typed meanwhile is closed away; data read before a later change is adopted
  after it (`overtaken`); drafts written in the middle of a switch do not say
  which workspace they belong to, and a strip restored in the wrong one replaces the
  kept strip of that workspace at the next switch; a token renewed by a send is
  written into the tab with that id of the workspace open by then.
* CaptureWindow: held calls are read before their events are listened to,
  `clear` empties the list after the journal, and a resume whose status comes late
  leaves the list without the calls recorded while nobody listened. Rules that cannot
  be read keep the held calls and the list from being read, a stop that fails leaves
  the window saying that the capture runs, and calls recorded by handlers a stop did
  not wait for are missing (`stale`, until the next answer about that part). Saves of
  rules may overtake each other.
* Monitors: a choice of environment or a change of workspace during a run is
  undone when the run puts the earlier choice back (`excused`). The records of a
  workspace share one limit: after other monitors' runs have pushed a failure out
  and the history was read anew, the next failure is announced once more and a
  pass that ends it is not. A read of the records that fails counts as an empty history,
  with the same effect.
* Runner: of two runs that give rows at the same time the second takes the
  first one's row for the value to put back (`HaveCrossed`).
* WebStore: of two windows that save at the same time the later takes the whole
  document; a window that closes before its write returns may have written it.
  When local storage is too full to note that the data is in the database, a later start without the database begins empty.

## 7 What is not modelled

* In the modelled parts: texts, headers, bodies and their edits, matching of
  rules, the content of exchanges and of reports beyond their counts,
  percentiles, thresholds, and the straight line between the targets of two
  stages. Walking a folder is one step, though the code reads file by file; a
  write always changes a file's stamp, though size and time could agree.
* Stages of less than a millisecond in all (`loadtest/config.go:44`) give a
  duration of 0; `Config` leaves them out.
* Parsing, formatting and conversions (importers, exporters, OpenAPI, HAR),
  cryptography and HTTP itself: without state, or libraries.
* In the interface: tabs of flows and specifications, history, cookies, settings
  and environments beyond the active choice; tokens the user asks for; framing of Socket.IO, MQTT and
  SignalR; export, import and filters of the capture window; data files, web hooks
  and the content of records of monitors; sign-in, checks and reports of the
  collection runner; the trash of the web app. They have no part in the
  properties above, and a budget already bounds what TLC can hold.
* Views of the interface, code generation, window handling, packaging, editor
  extensions: most of the repository's lines, without state that outlives a call.
* Known hazards outside the modelled parts: two sends with one id replace each
  other's cancel function (`gostman-gui/app.go:385`); `SaveCaptureConfig` may save
  what a running server cannot take (`gostman-gui/capture.go:117`); the index of
  kept secrets is read and rewritten (`gostman-gui/secretstore.go:207`); a crash
  between moving and writing a request (`workspace/save.go:145`); a backup pruned
  while it is restored (`gostman-gui/backups.go:186`); the Go runner's flow
  branches (`runner/flowparallel.go:65`).
* The parts the plan below still has to reach.

## 8 Plan

Done, in order: Breakpoint and Holds; Capture; Schedule; DiskWatch; LoadTest;
proofs for Holds, Schedule and LoadTest; Flows; Workbench, Sockets, CaptureWindow,
Monitors, Runner and WebStore; proofs for Capture, DiskWatch, Monitors and
WebStore and for the rest of Schedule's and LoadTest's invariants; proofs for
Runner, CaptureWindow, Sockets and Workbench.

Next proof: `SendLimitIsKept` of Flows, by the sum of what branches were given, once the
sum is written so that the provers can take it apart.

Next modules: **WorkspaceFiles** (`storeRequest`, `relocate`, `freePath`, temporary
file and rename, with a crash between two steps and names that collide);
**AppData and SecretVault** (read-modify-write under the data lock, backups and
restore, the index of kept secrets); **Sending** (the table of requests in flight).
