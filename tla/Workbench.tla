------------------------------ MODULE Workbench ------------------------------
(***************************************************************************)
(* The open tabs of the interface: the store of tabs and requests          *)
(* (store/appStore.js), the tabs kept for each workspace                   *)
(* (store/workspaceSessions.js), what a reload does to open drafts         *)
(* (lib/tabReconcile.js), sending and saving (lib/workspaceActions.js),    *)
(* switching the workspace (lib/storageActions.js) and the drafts that     *)
(* survive a restart.                                                      *)
(*                                                                         *)
(* The interface is one thread: an action is what runs between two awaits. *)
(* A call of the backend takes effect when it is made and its reply comes  *)
(* at any later moment, after replies of later calls too.  A request is an *)
(* id and one of Texts.  Folders are abstracted to the workspace they came *)
(* from.  Ghosts: a tab's `touched' (the user typed since it was last      *)
(* loaded or saved) and `apart' (something else set it apart from what is  *)
(* saved: a save from another tab or since it was closed, the token a send *)
(* renewed, active content that was taken out), crossed and overtaken,     *)
(* which name the two windows described at their definitions.              *)
(***************************************************************************)
EXTENDS Naturals, SequencesExt

CONSTANTS Paths,        \* workspaces: the app's own storage and folders
          Home,         \* the one that is open first
          Rids,         \* ids of saved requests
          Texts, Blank, \* contents of a request; Blank is an untouched one
          None,         \* no id, no text
          Signed,       \* the contents that use a token of their own (auth.type is OAuth 2.0)
          Core,         \* a content apart from its token (auth.oauth2)
          Plain,        \* a content without its active parts (withoutActiveContent)
          Untrusted,    \* the folders that open as restricted
          Collection,   \* what every workspace holds at first (copies of a repository)
          MaxTabs,      \* bound: tabs in a strip
          MaxClosed,    \* MAX_CLOSED_TABS
          MaxSessions,  \* MAX_SESSIONS
          Budgets       \* bound: how often each kind of event may happen

ASSUME WorkbenchAssumption ==
  /\ Collection \in [Rids -> Texts \cup {None}]
  /\ Plain \in [Texts -> Texts] /\ DOMAIN Core = Texts
  /\ Home \in Paths /\ Blank \in Texts /\ None \notin Texts \cup Rids
  /\ {MaxTabs, MaxClosed, MaxSessions} \subseteq Nat \ {0}

VARIABLES
  desk,       \* the open workspace's [tabs, active, next, requests]
  path,       \* workspaceStatus.path
  sessions,   \* the desks of the other workspaces, oldest first
  hydrated,   \* the store has been filled from the backend
  folders,    \* [of |-> whose folders the store holds, edited |-> unsaved?]
  closed,     \* requests of closed tabs, latest first
  last,       \* the last response of each saved request, as a send's number
  sends,      \* the sends of this page, in order
  asking,     \* the tab whose command waits for approval, or 0
  saves,      \* save calls whose reply has not come
  deletes,    \* ids whose deletion has not been answered
  switch,     \* the workspace switch under way
  load,       \* the load after a switch or a start
  reload,     \* the load after a change on disk
  open,       \* the workspace the backend has open
  disk,       \* what each workspace holds
  given,      \* ids given to requests so far; an id is never given twice
  announced,  \* the watcher has announced a change that no reload has read
  drafts,     \* what the browser's storage holds of the tabs
  isRestricted, \* the folder in the store is not trusted
  lifting,    \* the user has trusted the folder, and the reply has not come
  budget, crossed, overtaken

wbVars == <<desk, path, sessions, hydrated, folders, closed, last, sends, asking,
            saves, deletes, switch, load, reload, open, disk, given, announced, drafts,
            isRestricted, lifting, budget, crossed, overtaken>>

-----------------------------------------------------------------------------
(* Tabs *)

CreateTab(id, rid, text, preview) ==
  [id |-> id, rid |-> rid, text |-> text, preview |-> preview, pending |-> 0,
   resp |-> IF rid \in Rids THEN last[rid] ELSE 0,
   disk |-> None, vanished |-> None, touched |-> FALSE, apart |-> FALSE]

IsBlank(tab) == tab.rid = None /\ tab.text = Blank

IsReusable(tab) == IsBlank(tab) /\ tab.pending = 0

\* isRequestDirty(request, saved)
IsDirty(tab, saved) == IF saved # None THEN tab.text # saved ELSE ~IsBlank(tab)

SavedOf(tab, requests) == IF tab.rid = None THEN None ELSE requests[tab.rid]

\* the content the tab was last known to share with the backend
LastSaved(tab, requests) ==
  IF SavedOf(tab, requests) # None THEN SavedOf(tab, requests) ELSE tab.vanished

Tabs == desk.tabs
TabIds(strip) == {strip[i].id : i \in 1..Len(strip)}
IndexOf(strip, id) == CHOOSE i \in 1..Len(strip) : strip[i].id = id
ActiveTab == Tabs[IndexOf(Tabs, desk.active)]

MapTabs(strip, Update(_)) == [i \in 1..Len(strip) |-> Update(strip[i])]

MapTab(strip, id, Update(_)) ==
  MapTabs(strip, LAMBDA t : IF t.id = id THEN Update(t) ELSE t)

FreshDesk ==
  [tabs |-> <<[id |-> 1, rid |-> None, text |-> Blank, preview |-> FALSE, pending |-> 0,
               resp |-> 0, disk |-> None, vanished |-> None, touched |-> FALSE, apart |-> FALSE]>>,
   active |-> 1, next |-> 2, requests |-> [r \in Rids |-> None]]

AppendTab(d, rid, text, preview) ==
  [d EXCEPT !.tabs = Append(@, CreateTab(d.next, rid, text, preview)),
            !.active = d.next, !.next = @ + 1]

\* a saved request is opened: its tab if it has one, else the blank active tab,
\* else the tab of another preview, else a new tab
TabsWithOpened(d, rid, preview) ==
  LET Holds(t) == t.rid = rid
      Replaceable(t) == t.pending = 0 /\ t.preview
      FirstOf(P(_)) == d.tabs[SelectInSeq(d.tabs, P)].id
      Opened(t) == CreateTab(t.id, rid, d.requests[rid], preview)
      front == d.tabs[IndexOf(d.tabs, d.active)]
  IN  IF SelectInSeq(d.tabs, Holds) # 0
      THEN [d EXCEPT !.active = FirstOf(Holds),
                     !.tabs = MapTab(@, FirstOf(Holds),
                                LAMBDA t : [t EXCEPT !.preview = @ /\ preview])]
      ELSE IF IsReusable(front) THEN [d EXCEPT !.tabs = MapTab(@, front.id, Opened)]
      ELSE IF preview /\ SelectInSeq(d.tabs, Replaceable) # 0
      THEN [d EXCEPT !.tabs = MapTab(@, FirstOf(Replaceable), Opened),
                     !.active = FirstOf(Replaceable)]
      ELSE AppendTab(d, rid, d.requests[rid], preview)

\* the elements of a sequence that are in S, in their order
Only(s, S) ==
  LET From[i \in 0..Len(s)] ==
        IF i = 0 THEN <<>> ELSE IF s[i] \in S THEN Append(From[i - 1], s[i]) ELSE From[i - 1]
  IN  From[Len(s)]

Without(strip, closing) == Only(strip, {t \in Range(strip) : t.id \notin closing})

\* the strip is never empty, and the tab left of a closed active one takes over
WithoutTabs(d, closing) ==
  LET rest == Without(d.tabs, closing)
      left == Without(SubSeq(d.tabs, 1, IndexOf(d.tabs, d.active)), closing)
  IN  IF rest = <<>> THEN AppendTab([d EXCEPT !.tabs = <<>>], None, Blank, FALSE)
      ELSE IF d.active \notin closing THEN [d EXCEPT !.tabs = rest]
      ELSE [d EXCEPT !.tabs = rest,
                     !.active = IF left = <<>> THEN rest[1].id ELSE left[Len(left)].id]

Remembered(d, closing) ==
  LET shut == Only(d.tabs, {t \in Range(d.tabs) : t.id \in closing /\ ~IsBlank(t)})
      all  == Reverse([i \in 1..Len(shut) |->
                         [rid |-> shut[i].rid, text |-> shut[i].text, touched |-> shut[i].touched]])
              \o closed
  IN  SubSeq(all, 1, IF Len(all) < MaxClosed THEN Len(all) ELSE MaxClosed)

ReorderTabs(strip, id, target, after) ==
  LET rest == Without(strip, {id})
      at   == IndexOf(rest, target) - (IF after THEN 0 ELSE 1)
  IN  SubSeq(rest, 1, at) \o <<strip[IndexOf(strip, id)]>> \o SubSeq(rest, at + 1, Len(rest))

-----------------------------------------------------------------------------
(* Filling the store *)

\* Faulty: every tab follows the new content.
ReconcileAlways(tab, before, now) ==
  LET current == SavedOf(tab, now)
  IN  [tab EXCEPT !.text = IF current # None THEN current ELSE @,
                  !.touched = @ /\ current = None, !.apart = @ /\ current = None]

\* what a tab keeps when the store was restricted until now
Carried(text) == IF isRestricted THEN Plain[text] ELSE text

\* a tab that was clean follows the new content; a draft stays, as far as it is carried,
\* with a notice when the content changed under it
Reconcile(tab, before, now) ==
  LET current == SavedOf(tab, now)
      saved   == LastSaved(tab, before)
      stays   == current = None \/ saved = None \/ IsDirty(tab, saved)
      clashes == /\ current # None /\ tab.text # current
                 /\ \/ saved # None /\ tab.text # saved /\ current # saved
                    \/ tab.disk # None
  IN  [tab EXCEPT
         !.text = IF stays THEN Carried(@) ELSE current,
         !.touched = @ /\ stays,
         !.apart = stays /\ (@ \/ Carried(tab.text) # tab.text),
         !.disk = IF clashes THEN current ELSE None,
         !.vanished = IF tab.rid # None /\ current = None THEN saved ELSE None]

Reconciled(d, now) ==
  [d EXCEPT !.tabs = MapTabs(@, LAMBDA t : Reconcile(t, d.requests, now)),
            !.requests = now]

\* overtaken: what is adopted is older than what the backend holds by now, and no
\* announcement is due that would have it read again
Hydrate(data) ==
  /\ desk' = Reconciled(desk, data.requests)
  /\ folders' = [of |-> data.folders, edited |-> FALSE]
  /\ hydrated' = TRUE /\ isRestricted' = data.restricted
  /\ overtaken' = (data.requests # disk[open].requests /\ ~announced)

-----------------------------------------------------------------------------
(* What survives a restart *)

\* isSaved says of a clean tab that a newer content may replace its text
PersistableTab(tab, requests) ==
  [id |-> tab.id, rid |-> tab.rid, text |-> tab.text, preview |-> tab.preview,
   isSaved |-> LastSaved(tab, requests) # None /\ ~IsDirty(tab, LastSaved(tab, requests)),
   touched |-> tab.touched, apart |-> tab.apart]

Persistable(d) ==
  [tabs |-> MapTabs(d.tabs, LAMBDA t : PersistableTab(t, d.requests)),
   active |-> d.active, next |-> d.next]

\* Faulty: a restored tab has forgotten that it was clean.
RestoreTabAsDraft(kept) ==
  [id |-> kept.id, rid |-> kept.rid, text |-> kept.text, preview |-> kept.preview,
   pending |-> 0, resp |-> 0, disk |-> None, vanished |-> None, touched |-> kept.touched,
   apart |-> kept.apart]

RestoreTab(kept) ==
  [id |-> kept.id, rid |-> kept.rid, text |-> kept.text, preview |-> kept.preview,
   pending |-> 0, resp |-> 0, disk |-> None,
   vanished |-> IF kept.isSaved THEN kept.text ELSE None, touched |-> kept.touched,
   apart |-> kept.apart]

NextIdAfter(kept) == 1 + Max({0} \cup TabIds(kept))

RestoreDesk(kept) ==
  [tabs |-> MapTabs(kept.tabs, RestoreTab),
   active |-> kept.active,
   next |-> IF kept.next > NextIdAfter(kept.tabs) THEN kept.next ELSE NextIdAfter(kept.tabs),
   requests |-> [r \in Rids |-> None]]

Drafts ==
  [path |-> path, desk |-> Persistable(desk), isRestricted |-> isRestricted,
   sessions |-> [i \in 1..Len(sessions) |->
                   [path |-> sessions[i].path, desk |-> Persistable(sessions[i].desk)]]]

-----------------------------------------------------------------------------
Idle == [at |-> "idle"]

WbInit ==
  /\ desk = FreshDesk /\ path = Home /\ sessions = <<>>
  /\ hydrated = FALSE /\ folders = [of |-> Home, edited |-> FALSE]
  /\ closed = <<>> /\ last = [r \in Rids |-> 0] /\ sends = <<>> /\ asking = 0
  /\ saves = {} /\ deletes = {} /\ switch = Idle /\ load = Idle /\ reload = Idle
  /\ open = Home
  /\ disk = [p \in Paths |-> [requests |-> Collection, folders |-> p, restricted |-> p \in Untrusted]]
  /\ given = {r \in Rids : Collection[r] # None}
  /\ announced = FALSE
  /\ isRestricted = FALSE /\ lifting = FALSE
  /\ drafts = Drafts
  /\ budget \in Budgets
  /\ crossed = FALSE /\ overtaken = FALSE

Spend(kind) == budget[kind] > 0 /\ budget' = [budget EXCEPT ![kind] = @ - 1]

\* the views are mounted only while the store is filled; a question is modal
User == hydrated /\ asking = 0

trust == <<isRestricted, lifting>>

background == <<path, sessions, hydrated, switch, load, reload, open, announced, drafts, trust,
                crossed, overtaken>>

-----------------------------------------------------------------------------
(* The tab strip *)

NewTab ==
  /\ User /\ Spend("open") /\ Len(Tabs) < MaxTabs
  /\ desk' = AppendTab(desk, None, Blank, FALSE)
  /\ UNCHANGED <<given, background, folders, closed, last, sends, asking, saves, deletes, disk>>

OpenRequestTab(rid, preview) ==
  /\ User /\ Spend("open") /\ desk.requests[rid] # None
  /\ desk' = TabsWithOpened(desk, rid, preview)
  /\ Len(desk'.tabs) <= MaxTabs
  /\ UNCHANGED <<given, background, folders, closed, last, sends, asking, saves, deletes, disk>>

\* cycleTab, activateTabAt and a click
SetActiveTab(id) ==
  /\ User /\ id # desk.active /\ id \in TabIds(Tabs)
  /\ desk' = [desk EXCEPT !.active = id]
  /\ UNCHANGED <<given, background, budget, folders, closed, last, sends, asking, saves, deletes, disk>>

MoveTab(id, target, after) ==
  /\ User /\ Spend("open") /\ {id, target} \subseteq TabIds(Tabs) /\ id # target
  /\ desk' = [desk EXCEPT !.tabs = ReorderTabs(@, id, target, after)]
  /\ UNCHANGED <<given, background, folders, closed, last, sends, asking, saves, deletes, disk>>

\* closing a tab cancels its send; the answer still comes
Close(closing) ==
  /\ desk' = WithoutTabs(desk, closing)
  /\ closed' = Remembered(desk, closing)

\* closing asks about unsaved text first: the user agreed to lose it
CloseTabs(closing) ==
  /\ User /\ Spend("close") /\ closing # {} /\ closing \subseteq TabIds(Tabs)
  /\ Close(closing)
  /\ UNCHANGED <<given, background, folders, last, sends, asking, saves, deletes, disk>>

\* "close saved tabs" asks nothing
CloseSaved ==
  LET clean == {t \in Range(Tabs) : ~IsDirty(t, SavedOf(t, desk.requests))}
  IN  /\ User /\ Spend("close") /\ clean # {}
      /\ Close({t.id : t \in clean})
      /\ UNCHANGED <<given, background, folders, last, sends, asking, saves, deletes, disk>>

ReopenClosedTab ==
  /\ User /\ closed # <<>> /\ Len(Tabs) < MaxTabs
  /\ LET request == Head(closed)
         Opened(t) == [CreateTab(t.id, request.rid, request.text, FALSE)
                         EXCEPT !.touched = request.touched,
                                !.apart = request.rid # None /\ request.text # desk.requests[request.rid]]
         d == IF IsReusable(ActiveTab) THEN desk ELSE AppendTab(desk, None, Blank, FALSE)
     IN  desk' = [d EXCEPT !.tabs = MapTab(@, d.active, Opened)]
  /\ closed' = Tail(closed)
  /\ UNCHANGED <<given, background, budget, folders, last, sends, asking, saves, deletes, disk>>

\* updateActiveRequest: the user types
Edit(text) ==
  /\ User /\ Spend("edit") /\ text # ActiveTab.text
  /\ desk' = [desk EXCEPT !.tabs = MapTab(@, desk.active,
                LAMBDA t : [t EXCEPT !.text = text, !.preview = FALSE, !.touched = TRUE])]
  /\ UNCHANGED <<given, background, folders, closed, last, sends, asking, saves, deletes, disk>>

\* the notice is shown while the change it is about is what the store holds
HasNotice(tab) == tab.disk # None /\ tab.disk = SavedOf(tab, desk.requests) /\ tab.text # tab.disk

\* the user answers the notice of a tab whose request changed under its draft
ResolveDiskChange(loadsDisk) ==
  /\ User /\ HasNotice(ActiveTab)
  /\ desk' = [desk EXCEPT !.tabs = MapTab(@, desk.active,
                LAMBDA t : [t EXCEPT !.text = IF loadsDisk THEN t.disk ELSE @,
                                     !.touched = @ /\ ~loadsDisk, !.apart = @ /\ ~loadsDisk,
                                     !.disk = None])]
  /\ UNCHANGED <<given, background, budget, folders, closed, last, sends, asking, saves, deletes, disk>>

-----------------------------------------------------------------------------
(* Sending *)

StartTabRequest(id) ==
  /\ sends' = Append(sends, [tab |-> id, path |-> path, isRunning |-> TRUE,
                             isSigned |-> ~isRestricted /\ Tabs[IndexOf(Tabs, id)].text \in Signed])
  /\ desk' = [desk EXCEPT !.tabs = MapTab(@, id,
                LAMBDA t : [t EXCEPT !.pending = Len(sends) + 1])]

Send ==
  /\ User /\ Spend("send") /\ ActiveTab.pending = 0
  /\ \/ StartTabRequest(desk.active) /\ UNCHANGED asking
     \/ ~isRestricted /\ asking' = desk.active /\ UNCHANGED <<sends, desk>>
  /\ UNCHANGED <<given, background, folders, closed, last, saves, deletes, disk>>

\* mayRunCommand: the question about a local command is answered
Approve(isApproved) ==
  /\ asking # 0 /\ asking' = 0
  /\ IF isApproved THEN StartTabRequest(asking) ELSE UNCHANGED <<sends, desk>>
  /\ UNCHANGED <<given, background, budget, folders, closed, last, saves, deletes, disk>>

\* Faulty: the tab shows whichever send of its id ends.
FinishAnyTabRequest(strip, n) ==
  MapTab(strip, sends[n].tab, LAMBDA t : [t EXCEPT !.pending = 0, !.resp = n])

\* the response is shown by the tab that still waits for this send, if the
\* workspace on screen has it
FinishTabRequest(strip, n) ==
  MapTab(strip, sends[n].tab,
    LAMBDA t : IF t.pending # n THEN t ELSE [t EXCEPT !.pending = 0, !.resp = n])

\* keepLastResponse, for the request the tab shows when its send ends
KeepLastResponse(n) ==
  [r \in Rids |-> IF \E t \in Range(Tabs) : t.id = sends[n].tab /\ t.pending = n /\ t.rid = r
                  THEN n ELSE last[r]]

\* the contents that differ from a text at most in their token
WithToken(text) == {x \in Texts : Core[x] = Core[text]}

\* setToken: whatever the tab with that id shows by now
SetToken(strip, id, renewed) ==
  MapTab(strip, id, LAMBDA t : [t EXCEPT !.text = renewed, !.preview = FALSE,
                                         !.apart = @ \/ renewed # t.text])

\* a send that renewed its token writes it into the tab after the response
Finish(n) ==
  /\ n \in 1..Len(sends) /\ sends[n].isRunning
  /\ sends' = [sends EXCEPT ![n].isRunning = FALSE]
  /\ \/ desk' = [desk EXCEPT !.tabs = FinishTabRequest(@, n)]
     \/ /\ sends[n].isSigned
        /\ \E renewed \in Texts :
             /\ \E t \in Range(Tabs) : t.id = sends[n].tab /\ renewed \in WithToken(t.text)
             /\ desk' = [desk EXCEPT !.tabs = SetToken(FinishTabRequest(@, n), sends[n].tab, renewed)]
  /\ last' = KeepLastResponse(n)
  /\ UNCHANGED <<given, background, budget, folders, closed, asking, saves, deletes, disk>>

-----------------------------------------------------------------------------
(* Saving and deleting *)

\* saveTab up to its await: the backend stores the text, under a new id if there is none
SaveTab(id, closes) ==
  /\ User /\ Spend("save") /\ id \in TabIds(Tabs)
  /\ IF closes THEN IsDirty(Tabs[IndexOf(Tabs, id)], SavedOf(Tabs[IndexOf(Tabs, id)], desk.requests))
               ELSE id = desk.active
  /\ LET tab == Tabs[IndexOf(Tabs, id)] IN
     \E r \in IF tab.rid # None THEN {tab.rid} ELSE Rids \ given :
       /\ given' = given \cup {r}
       /\ disk' = [disk EXCEPT ![open].requests[r] = tab.text]
       /\ saves' = saves \cup {[tab |-> id, rid |-> r, was |-> tab.rid, text |-> tab.text,
                                path |-> path, closes |-> closes]}
  /\ UNCHANGED <<background, desk, folders, closed, last, sends, asking, deletes>>

\* crossed: a reply is applied to another workspace, or to a tab that meanwhile shows
\* another request, than its call was made for; or the drafts of one workspace are
\* restored in another
SaveReturns(save) ==
  LET SavedAs(t) == [t EXCEPT !.rid = save.rid, !.preview = FALSE,
                              !.touched = @ /\ t.text # save.text, !.apart = @ /\ t.text # save.text]
      LeftBehind(t) == [t EXCEPT !.apart = @ \/ (t.rid = save.rid /\ t.text # save.text)]
      d == [desk EXCEPT !.requests[save.rid] = save.text,
                        !.tabs = MapTabs(@, LAMBDA t : IF t.id = save.tab THEN SavedAs(t) ELSE LeftBehind(t))]
      closing == {save.tab} \cap TabIds(d.tabs)
  IN  /\ save \in saves /\ saves' = saves \ {save}
      /\ IF save.closes /\ closing # {}
         THEN desk' = WithoutTabs(d, closing) /\ closed' = Remembered(d, closing)
         ELSE desk' = d /\ UNCHANGED closed
      /\ crossed' = (\/ crossed \/ save.path # path
                     \/ \E t \in Range(Tabs) :
                          /\ t.id = save.tab
                          /\ t.rid \notin {save.was, save.rid} \/ ~(t.touched \/ t.apart \/ t.text = save.text))
      /\ overtaken' = (overtaken \/ disk[open].requests[save.rid] # save.text)
      /\ UNCHANGED <<given, path, sessions, hydrated, switch, load, reload, open, announced, drafts, trust, budget, folders, last, sends, asking, deletes, disk>>

\* the request is first kept in the trash (keepRequest), then deleted where the backend is
DeleteRequest(rid) ==
  /\ User /\ Spend("delete") /\ desk.requests[rid] # None
  /\ deletes' = deletes \cup {[rid |-> rid, path |-> path, isMade |-> FALSE]}
  /\ UNCHANGED <<given, background, desk, folders, closed, last, sends, asking, saves, disk>>

DeleteIsMade(delete) ==
  /\ delete \in deletes /\ ~delete.isMade
  /\ disk' = [disk EXCEPT ![open].requests[delete.rid] = None]
  /\ deletes' = (deletes \ {delete})
                \cup {[rid |-> delete.rid, path |-> delete.path, isMade |-> TRUE]}
  /\ crossed' = (crossed \/ delete.path # open)
  /\ UNCHANGED <<given, path, sessions, hydrated, switch, load, reload, open, announced, drafts, trust,
                 budget, desk, folders, closed, last, sends, asking, saves, overtaken>>

DeleteReturns(delete) ==
  /\ delete \in deletes /\ delete.isMade /\ deletes' = deletes \ {delete}
  /\ desk' = [desk EXCEPT !.requests[delete.rid] = None,
                          !.tabs = MapTabs(@, LAMBDA t :
                             IF t.rid = delete.rid THEN [t EXCEPT !.rid = None] ELSE t)]
  /\ crossed' = (crossed \/ delete.path # path)
  /\ overtaken' = (overtaken \/ disk[open].requests[delete.rid] # None)
  /\ UNCHANGED <<given, path, sessions, hydrated, switch, load, reload, open, announced, drafts, trust, budget, folders, closed, last, sends, asking, saves, disk>>

EditFolders ==
  /\ User /\ Spend("folders")
  /\ folders' = [folders EXCEPT !.edited = TRUE]
  /\ UNCHANGED <<given, background, desk, closed, last, sends, asking, saves, deletes, disk>>

\* the timer of useAutoSave: persist writes only what a filled store holds
AutoSave ==
  /\ folders.edited /\ hydrated
  /\ disk' = [disk EXCEPT ![open].folders = folders.of]
  /\ folders' = [folders EXCEPT !.edited = FALSE]
  /\ UNCHANGED <<given, background, budget, desk, closed, last, sends, asking, saves, deletes>>

-----------------------------------------------------------------------------
(* Switching and loading *)

tabState == <<closed, last, sends, asking, saves, deletes, given>>

\* switchStorage up to its await: the folders are saved, the store is suspended,
\* which starts a load that waits for the gate
SwitchStorage(to) ==
  /\ User /\ Spend("switch") /\ switch.at = "idle" /\ to # path
  /\ disk' = [disk EXCEPT ![open].folders = folders.of]
  /\ switch' = [at |-> "saving", to |-> to]
  /\ hydrated' = FALSE /\ load' = [at |-> "waiting"]
  /\ UNCHANGED <<desk, path, sessions, folders, tabState, trust, reload, open, announced, drafts,
                 crossed, overtaken>>

OpenFolder ==
  /\ switch.at = "saving"
  /\ \/ open' = switch.to /\ switch' = [switch EXCEPT !.at = "opened"]
     \/ UNCHANGED open /\ switch' = Idle     \* the folder cannot be opened
  /\ announced' = (announced /\ open' = open)
  /\ UNCHANGED <<desk, path, sessions, hydrated, folders, tabState, trust, load, reload, disk, drafts,
                 budget, crossed, overtaken>>

Newest(kept) == SubSeq(kept, IF Len(kept) > MaxSessions THEN Len(kept) - MaxSessions + 1 ELSE 1,
                       Len(kept))

\* { ...kept, [s.path]: s.desk }: an entry of that path is replaced where it stands
WithSession(kept, s) ==
  IF \E i \in 1..Len(kept) : kept[i].path = s.path
  THEN [i \in 1..Len(kept) |-> IF kept[i].path = s.path THEN s ELSE kept[i]]
  ELSE Append(kept, s)

SessionOf(p) == Only(sessions, {s \in Range(sessions) : s.path = p})
OtherSessions(p) == Only(sessions, {s \in Range(sessions) : s.path # p})

EnterWorkspace ==
  /\ switch.at = "opened" /\ switch' = Idle
  /\ path' = switch.to
  /\ desk' = IF SessionOf(path') = <<>> THEN FreshDesk ELSE SessionOf(path')[1].desk
  /\ sessions' = Newest(WithSession(OtherSessions(path'), [path |-> path, desk |-> desk]))
  /\ UNCHANGED <<hydrated, folders, tabState, trust, load, reload, open, disk, announced, drafts,
                 budget, crossed, overtaken>>

\* "Remove from list": the tabs kept for a folder are given up
LeaveWorkspace(p) ==
  /\ User /\ Spend("switch") /\ SessionOf(p) # <<>>
  /\ sessions' = OtherSessions(p)
  /\ last' = [r \in Rids |-> 0]
  /\ UNCHANGED <<given, desk, path, hydrated, folders, closed, sends, asking, saves, deletes, switch, trust,
                 load, reload, open, disk, announced, drafts, crossed, overtaken>>

\* Faulty: nothing waits for the switch.
GateIsAlwaysOpen == TRUE

\* storageGate.settled
GateIsOpen == switch.at = "idle"

\* LoadData reads everything; an announcement that came while the store was not filled
\* was listened to in vain and has nothing to add
LoadReads ==
  /\ load.at = "waiting" /\ GateIsOpen
  /\ load' = [at |-> "read", data |-> disk[open]]
  /\ announced' = (announced /\ hydrated)
  /\ UNCHANGED <<desk, path, sessions, hydrated, folders, tabState, trust, switch, reload, open, disk,
                 drafts, budget, crossed, overtaken>>

\* the reply is dropped when something else filled the store meanwhile
LoadReturns ==
  /\ load.at = "read" /\ load' = Idle
  /\ IF hydrated THEN UNCHANGED <<desk, folders, hydrated, isRestricted, overtaken>> ELSE Hydrate(load.data)
  /\ UNCHANGED <<path, sessions, tabState, lifting, switch, reload, open, disk, announced, drafts,
                 budget, crossed>>

\* adoptDiskChange up to its await; bound: one such reload is under way at a time
ReloadReads ==
  /\ announced /\ hydrated /\ reload.at = "idle" /\ GateIsOpen
  /\ reload' = [at |-> "read", data |-> disk[open], path |-> path]
  /\ announced' = FALSE
  /\ UNCHANGED <<desk, path, sessions, hydrated, folders, tabState, trust, switch, load, open, disk,
                 drafts, budget, crossed, overtaken>>

ReloadReturns ==
  /\ reload.at = "read" /\ reload' = Idle
  /\ Hydrate(reload.data)
  /\ crossed' = (crossed \/ reload.path # path \/ switch.at # "idle")
  /\ UNCHANGED <<path, sessions, tabState, lifting, switch, load, open, disk, announced, drafts, budget>>

\* an editor or git changes a request of the open folder, and the watcher says so;
\* nobody listens while the store is not filled
DiskEdit(rid, text) ==
  /\ Spend("disk") /\ rid \in given /\ text \notin {Blank, disk[open].requests[rid]}
  /\ disk' = [disk EXCEPT ![open].requests[rid] = text]
  /\ announced' = hydrated
  /\ UNCHANGED <<desk, path, sessions, hydrated, folders, tabState, trust, switch, load, reload, open,
                 drafts, crossed, overtaken>>

\* "Trust this folder": the backend trusts the folder it has open, and the reply lifts the
\* restriction of the folder in the store
Trust ==
  /\ User /\ Spend("trust") /\ isRestricted /\ ~lifting
  /\ disk' = [disk EXCEPT ![open].restricted = FALSE]
  /\ lifting' = TRUE
  /\ UNCHANGED <<desk, path, sessions, hydrated, folders, tabState, isRestricted, switch, load, reload,
                 open, announced, drafts, crossed, overtaken>>

LiftRestriction ==
  /\ lifting /\ lifting' = FALSE /\ isRestricted' = FALSE
  /\ UNCHANGED <<desk, path, sessions, hydrated, folders, tabState, switch, load, reload, open, disk,
                 announced, drafts, budget, crossed, overtaken>>

-----------------------------------------------------------------------------
(* The drafts *)

FlushWrites ==
  /\ budget["restart"] > 0 /\ drafts # Drafts /\ drafts' = Drafts
  /\ UNCHANGED <<desk, path, sessions, hydrated, folders, tabState, trust, switch, load, reload, open,
                 disk, announced, budget, crossed, overtaken>>

\* the app ends at any moment and starts again with the drafts written last, which do
\* not say of which workspace they are; pagehide writes them when it has the time
Restart ==
  /\ Spend("restart")
  /\ path' = open /\ switch' = Idle
  /\ \E kept \in {drafts, Drafts} :
       /\ desk' = RestoreDesk(kept.desk)
       /\ sessions' = [i \in 1..Len(kept.sessions) |->
                         [path |-> kept.sessions[i].path, desk |-> RestoreDesk(kept.sessions[i].desk)]]
       /\ drafts' = kept /\ isRestricted' = kept.isRestricted
       /\ crossed' = (crossed \/ kept.path # open)
  /\ hydrated' = FALSE /\ load' = [at |-> "waiting"] /\ reload' = Idle
  /\ closed' = <<>> /\ last' = [r \in Rids |-> 0] /\ sends' = <<>> /\ asking' = 0
  /\ saves' = {} /\ deletes' = {} /\ announced' = FALSE /\ lifting' = FALSE
  /\ UNCHANGED <<given, folders, open, disk, overtaken>>

\* useStoredData starts the first load
Start ==
  /\ ~hydrated /\ load.at = "idle" /\ load' = [at |-> "waiting"]
  /\ UNCHANGED <<desk, path, sessions, hydrated, folders, tabState, trust, switch, reload, open, disk,
                 announced, drafts, budget, crossed, overtaken>>

-----------------------------------------------------------------------------
Strip ==
  \/ NewTab \/ CloseSaved \/ ReopenClosedTab
  \/ \E r \in Rids, preview \in BOOLEAN : OpenRequestTab(r, preview)
  \/ \E id, target \in 1..desk.next, after \in BOOLEAN : MoveTab(id, target, after)
  \/ \E id \in 1..desk.next : SetActiveTab(id)
  \/ \E closing \in SUBSET TabIds(Tabs) : CloseTabs(closing)
  \/ \E text \in Texts : Edit(text)
  \/ \E loadsDisk \in BOOLEAN : ResolveDiskChange(loadsDisk)

Requesting ==
  \/ Send
  \/ \E isApproved \in BOOLEAN : Approve(isApproved)
  \/ \E n \in 1..Len(sends) : Finish(n)
  \/ \E id \in 1..desk.next, closes \in BOOLEAN : SaveTab(id, closes)
  \/ \E save \in saves : SaveReturns(save)
  \/ \E r \in Rids : DeleteRequest(r)
  \/ \E delete \in deletes : DeleteIsMade(delete) \/ DeleteReturns(delete)
  \/ EditFolders \/ AutoSave

Storage ==
  \/ \E p \in Paths : SwitchStorage(p) \/ LeaveWorkspace(p)
  \/ OpenFolder \/ EnterWorkspace
  \/ LoadReads \/ LoadReturns \/ ReloadReads \/ ReloadReturns
  \/ \E r \in Rids, text \in Texts \cup {None} : DiskEdit(r, text)
  \/ Trust \/ LiftRestriction
  \/ FlushWrites \/ Restart \/ Start

WbNext == Strip \/ Requesting \/ Storage

WbSpec == WbInit /\ [][WbNext]_wbVars

-----------------------------------------------------------------------------
(* Properties *)

WellFormed(d) ==
  /\ Len(d.tabs) > 0 /\ IsInjective([i \in 1..Len(d.tabs) |-> d.tabs[i].id])
  /\ d.active \in TabIds(d.tabs)
  /\ \A t \in Range(d.tabs) : t.id < d.next

Desks == Range(sessions) \cup {[path |-> path, desk |-> desk]}

\* A tab shows a new response only when its own send has ended, or when it opens a
\* request whose last response this was: the pendingId guard of finishTabRequest, with
\* tab ids that every workspace starts again at 1.
ResponsesAreOwn ==
  [][path' = path => \A t \in Range(Tabs') :
       \/ t.resp = 0
       \/ \E u \in Range(Tabs) : u.id = t.id /\ u.resp = t.resp
       \/ sends[t.resp].tab = t.id /\ sends[t.resp].path = path
       \/ t.rid # None /\ last[t.rid] = t.resp]_wbVars

IsDraft(t, d) == t.touched /\ ~IsBlank(t) /\ IsDirty(t, LastSaved(t, d.requests))

HasDraft(s, t) == \E u \in Range(s.desk.tabs) : u.id = t.id /\ u.text = t.text

\* the user gives up the text of a tab on screen: closes it, types over it, loads what is on
\* disk, or has it saved and closed
UserGivesUp(t) ==
  \/ \E closing \in SUBSET TabIds(Tabs) : t.id \in closing /\ CloseTabs(closing)
  \/ t.id = desk.active /\ \E text \in Texts : Edit(text)
  \/ t.id = desk.active /\ ResolveDiskChange(TRUE)
  \/ \E save \in saves : save.closes /\ save.tab = t.id /\ SaveReturns(save)

\* the store was restricted until this load: the text has lost its active parts
IsStripped(t) ==
  /\ isRestricted /\ (LoadReturns \/ ReloadReturns)
  /\ \E u \in Range(Tabs') : u.id = t.id /\ u.text = Plain[t.text]

\* a send that was begun in a tab with that id has renewed its token: the rest has stayed
IsRenewed(t) ==
  /\ \E n \in 1..Len(sends) : sends[n].tab = t.id /\ sends[n].isSigned /\ Finish(n)
  /\ \E u \in Range(Tabs') : u.id = t.id /\ u.text \in WithToken(t.text)

\* Unsaved text (a blank tab has none) stays in its tab whatever is reloaded, switched, saved,
\* previewed or closed as saved, unless the user gives up that very tab or removes its
\* workspace from the list.  The app itself writes into a draft in two cases only: a load
\* after a restricted folder, be it of another workspace, leaves the plain part, and the end
\* of a send may replace the token, and nothing else.  A restart loses only what was not yet
\* written, and during a switch it may bring the text back in the other workspace, whose own
\* strip then goes when that one is left (tabReconcile.js, tabsWithOpened, setToken,
\* enterWorkspace, persistableTab).
DraftsAreKept ==
  [][\A s \in Desks : \A t \in Range(s.desk.tabs) :
       IsDraft(t, s.desk) =>
         \/ \E next \in Desks' : next.path = s.path /\ HasDraft(next, t)
         \/ s.path = path /\ s.desk = desk /\ (UserGivesUp(t) \/ IsStripped(t) \/ IsRenewed(t))
         \/ LeaveWorkspace(s.path)
         \/ Restart /\ crossed' /\ \E next \in Desks' : HasDraft(next, t)
         \/ Restart /\ ~\E k \in Range(drafts.sessions) \cup {[path |-> drafts.path, desk |-> drafts.desk]} :
                          k.path = s.path /\ HasDraft(k, t)
         \/ EnterWorkspace /\ Len(sessions) = MaxSessions
         \/ EnterWorkspace /\ crossed /\ \E k \in Range(sessions) : k.path = path]_wbVars

\* What docs/workspaces-and-mock.md:15 says of a reload after a change on disk, "A tab with
\* unsaved edits keeps them".  It does not hold: in a restricted folder the reload takes the
\* active parts out of every draft (carried in tabReconcile.js).
UnsavedEditsAreKept ==
  [][ReloadReturns /\ ~crossed' =>
       \A t \in Range(Tabs) : IsDraft(t, desk) => HasDraft([path |-> path', desk |-> desk'], t)]_wbVars

\* A tab looks unsaved only when the user changed it, its request was saved from another tab
\* or after it was closed, a send wrote a renewed token into it, or a load after a restricted
\* folder took its active parts out: through reloads, switches and restarts every other clean
\* tab stays clean, so that saving it cannot write an old text over a newer one.  And every
\* strip, the one on screen, the kept ones and the one a restart would bring back, has a
\* tab, distinct ids below the next one, and an active tab of its own; every workspace has
\* one desk.
TabsAreSound ==
  /\ \A s \in Desks : WellFormed(s.desk)
  /\ WellFormed(drafts.desk)
  /\ \A i, j \in 1..Len(sessions) : sessions[i].path = sessions[j].path => i = j
  /\ Len(sessions) <= MaxSessions /\ (crossed \/ \A s \in Range(sessions) : s.path # path)
  /\ crossed \/ \A t \in Range(Tabs) :
                  SavedOf(t, desk.requests) \notin {None, t.text} => t.touched \/ t.apart

NothingUnderWay ==
  /\ hydrated /\ ~announced /\ saves = {} /\ deletes = {}
  /\ switch.at = "idle" /\ load.at = "idle" /\ reload.at = "idle"

\* Once every call has been answered, the store holds the requests of the workspace the
\* backend has open: a load waits for the gate of a switch (storageGate.js).  The two
\* windows where a late reply is applied are excepted by name.  And the folders of one
\* workspace are never written into another: persistence is suspended while a switch is
\* under way (usePersistence, suspendPersistence).
StoreMatchesDisk ==
  /\ NothingUnderWay /\ ~crossed /\ ~overtaken =>
       path = open /\ desk.requests = disk[open].requests
  /\ crossed \/ \A p \in Paths : disk[p].folders = p

=============================================================================
