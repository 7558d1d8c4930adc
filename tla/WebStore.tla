------------------------------ MODULE WebStore ------------------------------
(***************************************************************************)
(* The collection of the web app: lib/backend/web.js, webRecords.js,       *)
(* webBackups.js and storageGate.js.  Every browser window keeps a chain   *)
(* of changes (serially) and a copy of the document (cachedDocument); the  *)
(* windows share the browser's database, its local storage and a channel   *)
(* that says the document has changed.                                     *)
(*                                                                         *)
(* A text is Null, Damaged or a document, and a document tells for every   *)
(* field which save it holds, 0 for none.  A write is two steps: it is in  *)
(* the storage, and later the window that waits for it goes on.            *)
(***************************************************************************)
EXTENDS Integers, Sequences, FiniteSets

CONSTANTS
    Windows,
    Fields,            \* what the save functions replace: requests, folders, ...
    KeptSnapshots,     \* KEPT_SNAPSHOTS
    StoreStarts        \* what the browser holds at first, and the budgets

VARIABLES
    windows,     \* the variables of web.js in each browser window
    inbox,       \* windows the channel's message has not reached yet
    database,    \* the document's text in the database
    local,       \* and in local storage
    isLocated,   \* DATA_LOCATION_KEY says the data is in the database
    legacy,      \* the keys of the first version
    aside,       \* texts under DAMAGED_DATA_PREFIX
    snapshots,   \* backups, newest first
    storeBudget,
    accepted,    \* history: the document the user's changes amount to
    backups,     \* history: how many backups were made
    replaced,    \* history: texts a repair or a restore has replaced, and after how many backups
    isExcused    \* history: one of the cases named at Mixes, RemembersDatabase, LeavesBehind, WindowCloses

webVars == <<windows, inbox, database, local, isLocated, legacy, aside, snapshots,
               storeBudget, accepted, backups, replaced, isExcused>>

Data == [Fields -> Nat]
NoData == [f \in Fields |-> 0]
Null == [kind |-> "null", of |-> NoData]
Damaged == [kind |-> "damaged", of |-> NoData]
Document(data) == [kind |-> "document", of |-> data]
IsDocument(text) == text.kind = "document"
StoreTexts == {Null, Damaged} \union [kind : {"document"}, of : Data]

(* Data in the database and not in local storage was moved there, and the  *)
(* keys of the first version are whole or not there.                       *)
ASSUME WebStoreAssumption ==
    /\ KeptSnapshots \in Nat \ {0}
    /\ \A s \in StoreStarts :
        /\ {s.database, s.local, s.legacy} \subseteq StoreTexts /\ s.isLocated \in BOOLEAN
        /\ s.legacy # Damaged
        /\ s.local = Null /\ s.database # Null => s.isLocated
        /\ s.budget \in [saves : Nat, loads : Nat, restores : Nat, resets : Nat,
                         failures : Nat, closes : Nat, refusals : Nat]

ClosedWindow == [records |-> "unopened", usedDatabase |-> FALSE, cached |-> Null,
                 jobs |-> <<>>, step |-> "idle", held |-> Null,
                 isRestoring |-> FALSE, isLoaded |-> FALSE]

IsOpen(w) == windows[w].records # "unopened"
IsIdle(w) == windows[w].step = "idle"
Others(w) == Windows \ {w}

Becomes(w, window) == windows' = [windows EXCEPT ![w] = window]

(* The text of the place a window has chosen. *)
TextFor(w) == IF windows[w].records = "local" THEN local ELSE database

Put(w, text) ==
    IF windows[w].records = "local" THEN local' = text /\ UNCHANGED database
    ELSE database' = text /\ UNCHANGED local

(* Two windows mix their changes when one begins while another is not done *)
(* or has news that did not arrive, or when they keep them in two places.  *)
Mixes(w, isStale) ==
    \/ isStale
    \/ \E v \in Others(w) : ~IsIdle(v)
    \/ \E v \in Others(w) : IsOpen(v) /\ IsOpen(w) /\ windows[v].records # windows[w].records

(* What a window that opens now would show. *)
Effective ==
    IF local # Null THEN local
    ELSE IF database # Null THEN database
    ELSE IF legacy # Null THEN legacy ELSE Document(NoData)

Spends(what) ==
    /\ storeBudget[what] > 0
    /\ storeBudget' = [storeBudget EXCEPT ![what] = @ - 1]

-----------------------------------------------------------------------------
(* chooseRecords: data of an earlier version moves into the database.      *)

StoreInit ==
    /\ windows = [w \in Windows |-> ClosedWindow]
    /\ inbox = {}
    /\ \E s \in StoreStarts :
        /\ database = s.database /\ local = s.local /\ isLocated = s.isLocated
        /\ legacy = s.legacy /\ storeBudget = s.budget
        /\ accepted = Effective.of
    /\ aside = {} /\ snapshots = <<>> /\ isExcused = FALSE
    /\ backups = 0 /\ replaced = {}

(* rememberDatabase, which gives up when local storage is full: a later    *)
(* start that finds no database then takes local storage for the place.    *)
RemembersDatabase == isLocated' = TRUE \/ UNCHANGED isLocated

DatabaseOpens(w) ==
    /\ ~IsOpen(w) /\ IsIdle(w)
    /\ IF local = Null
       THEN Becomes(w, [windows[w] EXCEPT !.records = "database"]) /\ RemembersDatabase
       ELSE /\ Becomes(w, [windows[w] EXCEPT !.step = "copying", !.held = local,
                                             !.usedDatabase = isLocated])
            /\ UNCHANGED isLocated
    /\ isExcused' = (\/ isExcused \/ (local = Null /\ ~isLocated')
                     \/ Mixes(w, \E v \in Others(w) : windows[v].records = "local"))
    /\ UNCHANGED <<inbox, database, local, legacy, aside, snapshots, storeBudget, accepted, backups, replaced>>

CopyLands(w) ==
    /\ windows[w].step = "copying"
    /\ database' = windows[w].held
    /\ Becomes(w, [windows[w] EXCEPT !.step = "copied"])
    /\ UNCHANGED <<inbox, local, isLocated, legacy, aside, snapshots, storeBudget, accepted, backups,
                   replaced, isExcused>>

(* The local text goes only when it is still the one that was copied. *)
LocalAfterCopy(w) == IF local = windows[w].held THEN Null ELSE local

CopyIsRead(w) ==
    /\ windows[w].step = "copied" /\ database = windows[w].held
    /\ local' = LocalAfterCopy(w)
    /\ RemembersDatabase
    /\ Becomes(w, [windows[w] EXCEPT !.step = "idle", !.records = "database", !.held = Null])
    /\ isExcused' = (isExcused \/ ~isLocated')
    /\ UNCHANGED <<inbox, database, legacy, aside, snapshots, storeBudget, accepted, backups, replaced>>

(* The database does not open, or the copy cannot be written or read back: *)
(* local storage serves unless the data was in the database before.        *)
WithoutDatabase(used) == IF used THEN "unopened" ELSE "local"

DatabaseRefuses(w) ==
    /\ ~IsOpen(w)
    /\ LET used == IF IsIdle(w) THEN isLocated ELSE windows[w].usedDatabase
       IN  Becomes(w, [windows[w] EXCEPT !.step = "idle", !.records = WithoutDatabase(used), !.held = Null])
    /\ Spends("refusals")
    /\ isExcused' = (isExcused \/ Mixes(w, \E v \in Others(w) : windows[v].records = "database"))
    /\ UNCHANGED <<inbox, database, local, isLocated, legacy, aside, snapshots, accepted, backups, replaced>>

-----------------------------------------------------------------------------
(* The functions of webBackend put their changes on the window's chain.    *)
(* The interface loads first, and again after a restore (Workspace.jsx,    *)
(* suspendPersistence).                                                    *)

Asks(w, job, window) ==
    /\ IsOpen(w)
    /\ Becomes(w, [window EXCEPT !.jobs = Append(@, job)])
    /\ UNCHANGED <<inbox, database, local, isLocated, legacy, aside, snapshots, accepted, backups,
                   replaced, isExcused>>

(* saveRequests, saveFolders and the others; saves are numbered. *)
Save(w, f) ==
    /\ windows[w].isLoaded /\ Spends("saves")
    /\ Asks(w, [kind |-> "save", field |-> f, id |-> storeBudget.saves], windows[w])

(* load waits for a restore of its window (storageGate). *)
Load(w) ==
    /\ ~windows[w].isLoaded /\ ~windows[w].isRestoring /\ Spends("loads")
    /\ Asks(w, [kind |-> "load"], windows[w])

Reset(w) ==
    /\ windows[w].isLoaded /\ Spends("resets")
    /\ Asks(w, [kind |-> "reset"], [windows[w] EXCEPT !.isLoaded = FALSE])

(* restoreSnapshot reads the backup and queues the replacement. *)
RestoreBackup(w) ==
    /\ windows[w].isLoaded /\ Spends("restores")
    /\ \E i \in DOMAIN snapshots :
        /\ IsDocument(snapshots[i])
        /\ Asks(w, [kind |-> "restore", text |-> snapshots[i]],
                [windows[w] EXCEPT !.isLoaded = FALSE, !.isRestoring = TRUE])

-----------------------------------------------------------------------------
(* The chain of a window: one change at a time.                            *)

IsNext(w, kind) == IsOpen(w) /\ IsIdle(w) /\ windows[w].jobs # <<>> /\ Head(windows[w].jobs).kind = kind
Done(w, window) == Becomes(w, [window EXCEPT !.jobs = Tail(@), !.step = "idle", !.held = Null])

WithSnapshot(text) ==
    LET all == <<text>> \o snapshots
    IN  SubSeq(all, 1, IF Len(all) < KeptSnapshots THEN Len(all) ELSE KeptSnapshots)

(* mutateData takes the cached document or reads it, and changes it in     *)
(* place.  A text it cannot read fails the save.                           *)
BeginSave(w) ==
    LET cached == windows[w].cached
        base == IF IsDocument(cached) THEN cached ELSE TextFor(w)
        job == Head(windows[w].jobs)
        data == Document([base.of EXCEPT ![job.field] = job.id])
    IN  /\ IsNext(w, "save")
        /\ IF base = Damaged THEN Done(w, windows[w])
           ELSE Becomes(w, [windows[w] EXCEPT !.step = "writing", !.held = data,
                              !.cached = IF IsDocument(cached) THEN data ELSE cached])
        /\ isExcused' = (isExcused \/ Mixes(w, IsDocument(cached) /\ w \in inbox))
        /\ UNCHANGED <<inbox, database, local, isLocated, legacy, aside, snapshots, storeBudget,
                       accepted, backups, replaced>>

(* readStoredData *)
BeginLoad(w) ==
    /\ IsNext(w, "load")
    /\ LET text == TextFor(w)
       IN  \/ text = Null /\ legacy = Null /\ Done(w, [windows[w] EXCEPT !.isLoaded = TRUE]) /\ UNCHANGED <<snapshots, backups>>
           \/ /\ text = Null /\ legacy # Null
              /\ Becomes(w, [windows[w] EXCEPT !.step = "writing", !.held = legacy]) /\ UNCHANGED <<snapshots, backups>>
           \/ /\ text = Damaged
              /\ Becomes(w, [windows[w] EXCEPT !.step = "setting aside", !.held = text]) /\ UNCHANGED <<snapshots, backups>>
           \/ /\ IsDocument(text)
              /\ Done(w, [windows[w] EXCEPT !.cached = text, !.isLoaded = TRUE])
              /\ \/ UNCHANGED <<snapshots, backups>>
                 \/ snapshots' = WithSnapshot(text) /\ backups' = backups + 1
    /\ isExcused' = (isExcused \/ Mixes(w, FALSE))
    /\ UNCHANGED <<inbox, database, local, isLocated, legacy, aside, storeBudget, accepted, replaced>>

(* setAsideDamagedData keeps the text under a key of its own first. *)
SetAside(w) ==
    /\ windows[w].step = "setting aside"
    /\ aside' = aside \union {windows[w].held}
    /\ Becomes(w, [windows[w] EXCEPT !.step = "writing", !.held = Document(NoData)])
    /\ UNCHANGED <<inbox, database, local, isLocated, legacy, snapshots, storeBudget, accepted,
                   backups, replaced, isExcused>>

(* Faulty: nothing is kept of the text a restore replaces. *)
SnapshotsBeforeRestore(current) == snapshots

SnapshotsWith(current) == IF current = Null THEN snapshots ELSE WithSnapshot(current)

(* replaceDocument.  When the backup it takes first does not succeed,      *)
(* nothing is replaced and the call is rejected, which is not a step here. *)
BeginRestore(w) ==
    /\ IsNext(w, "restore")
    /\ snapshots' = SnapshotsWith(TextFor(w))
    /\ backups' = IF TextFor(w) = Null THEN backups ELSE backups + 1
    /\ Becomes(w, [windows[w] EXCEPT !.step = "writing", !.held = Head(windows[w].jobs).text, !.cached = Null])
    /\ isExcused' = (isExcused \/ Mixes(w, FALSE))
    /\ UNCHANGED <<inbox, database, local, isLocated, legacy, aside, storeBudget, accepted, replaced>>

(* Not among what a reset removes: keys of the first version that a        *)
(* migration cut short has left behind, and, for a window that works in    *)
(* local storage, a copy in the database chooseRecords could not read back.*)
LeavesBehind(w) == legacy # Null \/ (windows[w].records = "local" /\ database # Null)

(* clearStoredData, the backups after it, and the window loads anew.  No   *)
(* other window is told.  The awaits between these removals are one step:  *)
(* a reset that fails or is cut short between them is left out.            *)
BeginReset(w) ==
    /\ IsNext(w, "reset")
    /\ windows' = [windows EXCEPT ![w] = ClosedWindow]
    /\ database' = (IF windows[w].records = "database" THEN Null ELSE database)
    /\ local' = Null
    /\ aside' = {} /\ snapshots' = <<>> /\ backups' = 0 /\ replaced' = {}
    /\ accepted' = NoData
    /\ isExcused' = (isExcused \/ Mixes(w, \E v \in Others(w) : IsOpen(v)) \/ LeavesBehind(w))
    /\ inbox' = inbox \ {w}
    /\ UNCHANGED <<isLocated, legacy, storeBudget>>

(* The write is in the storage. *)
WriteLands(w) ==
    LET job == Head(windows[w].jobs)
        text == TextFor(w)
    IN  /\ windows[w].step = "writing"
        /\ Put(w, windows[w].held)
        /\ Becomes(w, [windows[w] EXCEPT !.step = "written"])
        /\ accepted' = CASE job.kind = "save" -> [accepted EXCEPT ![job.field] = job.id]
                         [] job.kind = "restore" -> job.text.of
                         [] OTHER -> accepted
        /\ replaced' = IF job.kind = "restore" \/ text = Damaged
                       THEN replaced \union {[text |-> t, since |-> backups] : t \in {text} \ {Null}}
                       ELSE replaced
        /\ UNCHANGED <<inbox, isLocated, legacy, aside, snapshots, storeBudget, backups, isExcused>>

(* Faulty: the document that was not stored stays cached. *)
CachedAfterAll(w) == windows[w].cached

(* A failed change leaves no cached document behind. *)
CachedAfterError(w) == IF Head(windows[w].jobs).kind = "load" THEN windows[w].cached ELSE Null

(* There is no room: the change is rejected. *)
WriteFails(w) ==
    /\ windows[w].step \in {"writing", "setting aside"}
    /\ Spends("failures")
    /\ Done(w, [windows[w] EXCEPT !.cached = CachedAfterError(w),
                                  !.isRestoring = @ /\ Head(windows[w].jobs).kind # "restore"])
    /\ UNCHANGED <<inbox, database, local, isLocated, legacy, aside, snapshots, accepted, backups, replaced, isExcused>>

(* The window that wrote tells the others and goes on. *)
WriteResolves(w) ==
    LET job == Head(windows[w].jobs)
        migrates == job.kind = "load" /\ legacy # Null /\ windows[w].held = legacy
    IN  /\ windows[w].step = "written"
        /\ inbox' = inbox \union {v \in Others(w) : IsOpen(v)}
        /\ Done(w, [windows[w] EXCEPT !.cached = IF job.kind = "save" THEN windows[w].held ELSE @,
                                      !.isLoaded = @ \/ job.kind = "load",
                                      !.isRestoring = @ /\ job.kind # "restore"])
        /\ legacy' = IF migrates THEN Null ELSE legacy
        /\ UNCHANGED <<database, local, isLocated, aside, snapshots, storeBudget, accepted,
                       backups, replaced, isExcused>>

(* forgetDocument *)
ForgetDocument(w) == Null

ReceiveNews(w) ==
    /\ w \in inbox
    /\ inbox' = inbox \ {w}
    /\ Becomes(w, [windows[w] EXCEPT !.cached = ForgetDocument(w)])
    /\ UNCHANGED <<database, local, isLocated, legacy, aside, snapshots, storeBudget, accepted,
                   backups, replaced, isExcused>>

(* The window is closed or reloaded.  A write it did not tell of stays     *)
(* unknown to the others.                                                  *)
WindowCloses(w) ==
    /\ Spends("closes") /\ windows[w] # ClosedWindow
    /\ windows' = [windows EXCEPT ![w] = ClosedWindow]
    /\ inbox' = inbox \ {w}
    /\ isExcused' = (isExcused \/ (windows[w].step = "written" /\ \E v \in Others(w) : IsOpen(v)))
    /\ UNCHANGED <<database, local, isLocated, legacy, aside, snapshots, accepted, backups, replaced>>

StoreNext ==
    \E w \in Windows :
        \/ DatabaseOpens(w) \/ CopyLands(w) \/ CopyIsRead(w) \/ DatabaseRefuses(w)
        \/ \E f \in Fields : Save(w, f)
        \/ Load(w) \/ Reset(w) \/ RestoreBackup(w)
        \/ BeginSave(w) \/ BeginLoad(w) \/ BeginRestore(w) \/ BeginReset(w)
        \/ SetAside(w) \/ WriteLands(w) \/ WriteFails(w) \/ WriteResolves(w)
        \/ ReceiveNews(w) \/ WindowCloses(w)

StoreSpec == StoreInit /\ [][StoreNext]_webVars

-----------------------------------------------------------------------------
(* The browser holds what the changes that were stored amount to: no save  *)
(* brings back what another one replaced or adds one that was rejected,    *)
(* across failures, windows closed halfway, the move into the database and *)
(* news from other windows.  Windows that changed the document at the same *)
(* time are an exception, since the later write takes the whole document,  *)
(* and so are the cases named at RemembersDatabase, LeavesBehind and       *)
(* WindowCloses.                                                           *)
StoredIsWhatWasSaved ==
    ~isExcused /\ IsDocument(Effective) => Effective.of = accepted

(* A text that a repair or a restore has replaced can be got back: it is   *)
(* set aside (setAsideDamagedData), or among the backups (replaceDocument) *)
(* until KeptSnapshots later backups have pushed it out (saveSnapshot).    *)
(* Excepted are the cases of isExcused, among them another window that was *)
(* busy with the document at the same time: what it saves between the copy *)
(* and the write is replaced without having been copied.                   *)
ReplacedIsKept ==
    ~isExcused =>
        \A r \in replaced :
            \/ r.text \in aside
            \/ \E i \in DOMAIN snapshots : snapshots[i] = r.text
            \/ backups - r.since >= KeptSnapshots
=============================================================================
