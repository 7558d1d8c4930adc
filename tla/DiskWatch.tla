----------------------------- MODULE DiskWatch ------------------------------
(***************************************************************************)
(* How the desktop app notices that the files of its open folder were      *)
(* changed by somebody else: gostman-gui/workspace_watch.go, with opening, *)
(* closing and reloading a folder (gostman-gui/workspace.go) and the saves *)
(* of the app, which all go through folderStore.write and ownWrite.        *)
(*                                                                         *)
(* Three parties act on the same files: the watcher's goroutine, which     *)
(* walks the folder without any lock; the goroutine of a save, which holds *)
(* diskWatcher.mu across its walk, its write and its second walk; and an   *)
(* editor or git, which knows of no lock at all.  A file is reduced to a   *)
(* stamp: every write of whatever origin gives it one it never had.        *)
(***************************************************************************)
EXTENDS Naturals, FiniteSets

CONSTANTS
    Folders, Files,
    MaxEdits,      \* bound on changes made outside the app
    MaxSaves,      \* bound on saves by the app
    MaxOpens,      \* bound on folders being opened
    ReloadFails    \* whether Workspace.Reload may fail

ASSUME DiskWatchAssumption ==
    /\ MaxEdits \in Nat /\ MaxSaves \in Nat /\ MaxOpens \in Nat
    /\ ReloadFails \in BOOLEAN

VARIABLES
    disk,       \* disk[r]: the stamps of the files of folder r
    open,       \* the open folder, as {} or {[folder, gen]}: storage.current
    memory,     \* the stamps of what the open Workspace object has loaded
    opening,    \* a Workspace that was scanned and is not in use yet
    opens,      \* how many Workspace objects were made: gen numbers them
    root, baseline, candidate,     \* diskWatcher; {} is "" and nil
    watcher,    \* the goroutine of watch
    saver,      \* the goroutine of a save: it holds diskWatcher.mu
    edits, saves,
    foreign,    \* history: folders changed outside the app
    raced       \* history: something fell into a window, or a reload failed

watch == <<root, baseline, candidate>>
vars == <<disk, open, memory, opening, opens, watch, watcher, saver, edits, saves, foreign, raced>>

-----------------------------------------------------------------------------
Stamps == 0..(MaxEdits + MaxSaves)

Snapshot == [Files -> Stamps]

Option(S) == {{}} \cup {{x} : x \in S}

Fresh == edits + saves + 1

Idle == [at |-> "idle"]

Opened == [folder : Folders, gen : 1..MaxOpens]

Init ==
    /\ disk = [r \in Folders |-> [f \in Files |-> 0]]
    /\ open = {}
    /\ memory = [f \in Files |-> 0]
    /\ opening = {}
    /\ opens = 0
    /\ root = {} /\ baseline = {} /\ candidate = {}
    /\ watcher = Idle
    /\ saver = Idle
    /\ edits = 0 /\ saves = 0
    /\ foreign = {}
    /\ raced = FALSE

IsOpen(r) == \E o \in open : o.folder = r

(* A poll is under way that began with another folder, or with none, and   *)
(* has yet to make that the one it watches.                                *)
IsPollElsewhere(r) ==
    \/ watcher.at = "none"
    \/ watcher.at = "seen" /\ watcher.folder # r

(* The windows in which a change goes unnoticed: r was scanned and the     *)
(* watcher has not yet taken its first snapshot, or is about to forget r   *)
(* for what was open when its poll began, or a save is under way.          *)
IsSafeToEdit(r) ==
    /\ \A o \in opening : o.folder # r
    /\ IsOpen(r) => root = {r} /\ ~IsPollElsewhere(r)
    /\ saver # Idle => saver.folder # r

(* The windows in which a save is missing from what was scanned, or is     *)
(* taken for somebody else's change: the watcher's first walk of a folder  *)
(* overlaps it.                                                            *)
IsSafeToSave(r) ==
    /\ \A o \in opening : o.folder # r
    /\ watcher.at = "seen" /\ watcher.folder = r => root = {r}

IsSafeToScan(r) == ~(saver # Idle /\ saver.folder = r)

IsSafeToLook(r) == saver # Idle /\ saver.folder = r => root = {r}

-----------------------------------------------------------------------------
(* An editor, git, or a sync client writes a file.                         *)
Edit(r, f) ==
    /\ edits < MaxEdits
    /\ raced' = (raced \/ ~IsSafeToEdit(r))
    /\ disk' = [disk EXCEPT ![r][f] = Fresh]
    /\ edits' = edits + 1
    /\ foreign' = foreign \cup {r}
    /\ UNCHANGED <<open, memory, opening, opens, watch, watcher, saver, saves>>

(* OpenWorkspace: workspace.Open scans the folder ...                      *)
OpenScan(r) ==
    /\ opening = {}
    /\ opens < MaxOpens
    /\ raced' = (raced \/ ~IsSafeToScan(r))
    /\ opens' = opens + 1
    /\ opening' = {[folder |-> r, copy |-> disk[r]]}
    /\ UNCHANGED <<disk, open, memory, watch, watcher, saver, edits, saves, foreign>>

(* ... and activate puts it in use, after the state file was written.      *)
Activate ==
    /\ \E o \in opening : /\ open' = {[folder |-> o.folder, gen |-> opens]}
                          /\ memory' = o.copy
    /\ opening' = {}
    /\ UNCHANGED <<disk, opens, watch, watcher, saver, edits, saves, foreign, raced>>

CloseWorkspace ==
    /\ open # {}
    /\ open' = {}
    /\ UNCHANGED <<disk, memory, opening, opens, watch, watcher, saver, edits, saves, foreign, raced>>

(* ReloadWorkspace, and reloadFiles after a git command.                   *)
ReloadWorkspace ==
    /\ \E o \in open : memory' = disk[o.folder]
    /\ memory' # memory
    /\ UNCHANGED <<disk, open, opening, opens, watch, watcher, saver, edits, saves, foreign, raced>>

-----------------------------------------------------------------------------
(* ownWrite: the mutex is taken and, if the watcher knows this folder, its *)
(* files are compared with the baseline.                                   *)
SaveBegins ==
    /\ saver = Idle
    /\ saves < MaxSaves
    /\ \E o \in open :
         /\ raced' = (raced \/ ~IsSafeToSave(o.folder))
         /\ saver' = [at |-> "write", folder |-> o.folder, gen |-> o.gen,
                      untouched |-> root = {o.folder} /\ baseline = {disk[o.folder]}]
    /\ UNCHANGED <<disk, open, memory, opening, opens, watch, watcher, edits, saves, foreign>>

(* write: one file of the collection is stored and remembered.  A save     *)
(* that fails, or finds nothing to do, writes nothing.                     *)
SaveWrites ==
    /\ saver.at = "write"
    /\ saver' = [saver EXCEPT !.at = "check"]
    /\ \/ UNCHANGED <<disk, memory, saves>>
       \/ \E f \in Files :
            /\ disk' = [disk EXCEPT ![saver.folder][f] = Fresh]
            /\ memory' = IF \E o \in open : o.gen = saver.gen
                         THEN [memory EXCEPT ![f] = Fresh] ELSE memory
            /\ saves' = saves + 1
    /\ UNCHANGED <<open, opening, opens, watch, watcher, edits, foreign, raced>>

(* Faulty variants of an operation are named for their fault.  They are    *)
(* not part of the specification: each shows that a property notices it.   *)
SaveEndsWithoutAsking ==
    /\ saver.at = "check"
    /\ saver' = Idle
    /\ baseline' = IF root = {saver.folder} THEN {disk[saver.folder]} ELSE baseline
    /\ candidate' = {}
    /\ UNCHANGED <<disk, open, memory, opening, opens, root, watcher, edits, saves, foreign, raced>>

(* ownWrite: the files of an untouched folder become the baseline.         *)
SaveEnds ==
    /\ saver.at = "check"
    /\ saver' = Idle
    /\ IF saver.untouched
       THEN /\ baseline' = {disk[saver.folder]}
            /\ candidate' = {}
       ELSE UNCHANGED <<baseline, candidate>>
    /\ UNCHANGED <<disk, open, memory, opening, opens, root, watcher, edits, saves, foreign, raced>>

-----------------------------------------------------------------------------
(* poll: no folder is open.  With nothing to forget, forget does nothing.  *)
FindNone ==
    /\ watcher = Idle
    /\ open = {}
    /\ root # {}
    /\ watcher' = [at |-> "none"]
    /\ UNCHANGED <<disk, open, memory, opening, opens, watch, saver, edits, saves, foreign, raced>>

(* forget, under the mutex: by now a folder may be open again.             *)
Forget ==
    /\ watcher.at = "none"
    /\ saver = Idle
    /\ root' = {} /\ baseline' = {} /\ candidate' = {}
    /\ watcher' = Idle
    /\ UNCHANGED <<disk, open, memory, opening, opens, saver, edits, saves, foreign, raced>>

(* poll: the open folder is walked, without a lock.                        *)
Look ==
    /\ watcher = Idle
    /\ \E o \in open :
         /\ raced' = (raced \/ ~IsSafeToLook(o.folder))
         /\ watcher' = [at |-> "seen", folder |-> o.folder, gen |-> o.gen,
                        seen |-> disk[o.folder]]
    /\ UNCHANGED <<disk, open, memory, opening, opens, watch, saver, edits, saves, foreign>>

(* settled: a folder it did not watch before.                              *)
Adopt ==
    /\ watcher.at = "seen" /\ saver = Idle
    /\ root # {watcher.folder}
    /\ root' = {watcher.folder}
    /\ baseline' = {watcher.seen}
    /\ candidate' = {}
    /\ watcher' = Idle
    /\ UNCHANGED <<disk, open, memory, opening, opens, saver, edits, saves, foreign, raced>>

(* settled: nothing changed.                                               *)
Unchanged ==
    /\ watcher.at = "seen" /\ saver = Idle
    /\ root = {watcher.folder}
    /\ baseline = {watcher.seen}
    /\ candidate' = {}
    /\ watcher' = Idle
    /\ UNCHANGED <<disk, open, memory, opening, opens, root, baseline, saver, edits, saves, foreign, raced>>

SuspectAndForget ==
    /\ watcher.at = "seen" /\ saver = Idle
    /\ root = {watcher.folder}
    /\ baseline # {watcher.seen}
    /\ candidate # {watcher.seen}
    /\ candidate' = {}
    /\ watcher' = Idle
    /\ UNCHANGED <<disk, open, memory, opening, opens, root, baseline, saver, edits, saves, foreign, raced>>

(* settled: something changed, and may go on changing.                     *)
Suspect ==
    /\ watcher.at = "seen" /\ saver = Idle
    /\ root = {watcher.folder}
    /\ baseline # {watcher.seen}
    /\ candidate # {watcher.seen}
    /\ candidate' = {watcher.seen}
    /\ watcher' = Idle
    /\ UNCHANGED <<disk, open, memory, opening, opens, root, baseline, saver, edits, saves, foreign, raced>>

(* settled: the same change as a poll ago.                                 *)
Settle ==
    /\ watcher.at = "seen" /\ saver = Idle
    /\ root = {watcher.folder}
    /\ baseline # {watcher.seen}
    /\ candidate = {watcher.seen}
    /\ baseline' = {watcher.seen}
    /\ candidate' = {}
    /\ watcher' = [watcher EXCEPT !.at = "reload"]
    /\ UNCHANGED <<disk, open, memory, opening, opens, root, saver, edits, saves, foreign, raced>>

(* poll: Workspace.Reload of the object the poll began with, which may no  *)
(* longer be the one in use.                                               *)
Reload ==
    /\ watcher.at = "reload"
    /\ memory' = IF \E o \in open : o.gen = watcher.gen THEN disk[watcher.folder] ELSE memory
    /\ watcher' = [watcher EXCEPT !.at = "announce"]
    /\ UNCHANGED <<disk, open, opening, opens, watch, saver, edits, saves, foreign, raced>>

FailToReloadSilently ==
    /\ watcher.at = "reload"
    /\ ReloadFails
    /\ watcher' = [watcher EXCEPT !.at = "announce"]
    /\ UNCHANGED <<disk, open, memory, opening, opens, watch, saver, edits, saves, foreign, raced>>

FailToReload ==
    /\ watcher.at = "reload"
    /\ ReloadFails
    /\ watcher' = Idle
    /\ raced' = TRUE
    /\ UNCHANGED <<disk, open, memory, opening, opens, watch, saver, edits, saves, foreign>>

(* watch: onChange tells the interface.                                    *)
Announce ==
    /\ watcher.at = "announce"
    /\ watcher' = Idle
    /\ UNCHANGED <<disk, open, memory, opening, opens, watch, saver, edits, saves, foreign, raced>>

Poll == FindNone \/ Forget \/ Look \/ Adopt \/ Unchanged \/ Suspect \/ Settle \/ Reload
        \/ FailToReload \/ Announce

Save == SaveBegins \/ SaveWrites \/ SaveEnds

Next ==
    \/ \E r \in Folders, f \in Files : Edit(r, f)
    \/ \E r \in Folders : OpenScan(r)
    \/ Activate \/ CloseWorkspace \/ ReloadWorkspace
    \/ Save
    \/ Poll

(* The ticker keeps polling, and a save or an opening that has begun ends; *)
(* nobody has to edit, save, open, close or reload.  A poll that waits for *)
(* the mutex gets it however often saves take it: sync.Mutex hands itself  *)
(* to a waiter that has been passed over.                                  *)
Fairness ==
    /\ SF_vars(Poll)
    /\ WF_vars(SaveWrites \/ SaveEnds)
    /\ WF_vars(Activate)

Spec == Init /\ [][Next]_vars /\ Fairness

-----------------------------------------------------------------------------
TypeOK ==
    /\ disk \in [Folders -> Snapshot]
    /\ open \in Option(Opened)
    /\ memory \in Snapshot
    /\ opening \in Option([folder : Folders, copy : Snapshot])
    /\ opens \in 0..MaxOpens
    /\ root \in Option(Folders)
    /\ baseline \in Option(Snapshot)
    /\ candidate \in Option(Snapshot)
    /\ \/ watcher \in {Idle, [at |-> "none"]}
       \/ watcher \in [at : {"seen", "reload", "announce"}, folder : Folders,
                       gen : 1..MaxOpens, seen : Snapshot]
    /\ \/ saver = Idle
       \/ saver \in [at : {"write", "check"}, folder : Folders,
                     gen : 1..MaxOpens, untouched : BOOLEAN]
    /\ edits \in 0..MaxEdits
    /\ saves \in 0..MaxSaves
    /\ foreign \in SUBSET Folders
    /\ raced \in BOOLEAN

(* What the watcher takes for unchanged is what the app has loaded: when   *)
(* the files of the open folder are the baseline, and neither a reload nor *)
(* a save is under way, the collection in memory is the one on disk, as    *)
(* long as nothing fell into one of the windows above.                     *)
QuietMeansLoaded ==
    ~raced => \A o \in open :
        /\ root = {o.folder} /\ baseline = {disk[o.folder]}
        /\ saver = Idle
        /\ watcher.at # "reload"
        => memory = disk[o.folder]

(* Outside those windows a change made outside the app to the open folder  *)
(* reaches the collection in memory without any help, or the folder is     *)
(* closed or exchanged before (settled, called by poll on every tick).     *)
ChangesArePickedUp ==
    \A r \in Folders :
        (IsOpen(r) /\ memory # disk[r]) ~> (~IsOpen(r) \/ memory = disk[r] \/ raced)

(* What docs/workspaces-and-mock.md says of every change: made outside the *)
(* app, they "are picked up within a few seconds".  It does NOT hold.      *)
AllChangesArePickedUp ==
    \A r \in Folders :
        (IsOpen(r) /\ memory # disk[r]) ~> (~IsOpen(r) \/ memory = disk[r])

(* The notice that the files changed tells the truth: it is only shown for *)
(* a folder somebody else changed (same page, "the app's own saves do not  *)
(* count"), unless a save fell into the watcher's first walk of the        *)
(* folder; and the collection in memory is then at least as recent as the  *)
(* files that made the watcher reload, whatever raced with it and whether  *)
(* or not reloading can fail (poll returns false then).                    *)
AnnouncementsAreTrue ==
    watcher.at = "announce" =>
        /\ ~raced => watcher.folder \in foreign
        /\ (\E o \in open : o.gen = watcher.gen) =>
             \A f \in Files : memory[f] >= watcher.seen[f]
=============================================================================
