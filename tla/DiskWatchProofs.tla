-------------------------- MODULE DiskWatchProofs ---------------------------
(***************************************************************************)
(* Proofs about DiskWatch, for any folders and files and any number of     *)
(* edits, saves and openings: outside the windows the model names, what    *)
(* the watcher takes for unchanged is what the app has loaded, and a       *)
(* notice is only shown for a change somebody else made.                   *)
(***************************************************************************)
EXTENDS DiskWatch, TLAPS

(* The goroutines while they have something in hand.                       *)
IsPolling == watcher.at \in {"seen", "reload", "announce"}

IsSaving(r) == saver # Idle /\ saver.folder = r

IsReloading(o) == watcher.at = "reload" /\ watcher.gen = o.gen

Leq(a, b) == \A f \in Files : a[f] <= b[f]

(* A save that has begun may still take a stamp, and finds the watcher as  *)
(* it left it, whose mutex it has; an opening was counted.                 *)
Types ==
    /\ TypeOK
    /\ opening # {} => opens > 0
    /\ saver # Idle /\ saver.untouched => root = {saver.folder}
    /\ saver # Idle /\ saver.at = "write" => saves < MaxSaves

(* Stamps only grow, so that whatever was read from disk is behind it.     *)
DiskIsAhead ==
    /\ \A r \in Folders, f \in Files : disk[r][f] <= edits + saves
    /\ \A o \in opening : Leq(o.copy, disk[o.folder])
    /\ \A o \in open : Leq(memory, disk[o.folder])
    /\ \A r \in root, b \in baseline : Leq(b, disk[r])
    /\ IsPolling => Leq(watcher.seen, disk[watcher.folder])

(* A Workspace object is used for one folder, and a new one is in no use   *)
(* before it is activated.                                                 *)
GenerationsAreOwn ==
    /\ \A o \in open : o.gen <= opens /\ (opening # {} => o.gen < opens)
    /\ IsPolling => watcher.gen <= opens /\ (opening # {} => watcher.gen < opens)
    /\ saver # Idle => saver.gen <= opens /\ (opening # {} => saver.gen < opens)
    /\ \A o \in open : IsPolling /\ watcher.gen = o.gen => watcher.folder = o.folder
    /\ \A o \in open : saver # Idle /\ saver.gen = o.gen => saver.folder = o.folder

(* What an opening has scanned is still what is on disk, and a save in the *)
(* open folder is one of the object in use.                                *)
OpeningIsCurrent ==
    /\ \A o \in opening : o.copy = disk[o.folder] /\ ~IsSaving(o.folder)
    /\ \A o \in open : IsSaving(o.folder) => saver.gen = o.gen

(* The collection in memory is the one on disk while the watcher does not  *)
(* watch its folder, or is about to stop; while it does, the collection is *)
(* never older than the baseline.                                          *)
KeepsUp(o) ==
    /\ root # {o.folder} => memory = disk[o.folder]
    /\ IsPollElsewhere(o.folder) => memory = disk[o.folder]
    /\ root = {o.folder} => (\A b \in baseline : Leq(b, memory)) \/ IsReloading(o)
    /\ watcher.at = "seen" /\ watcher.folder = o.folder /\ watcher.gen # o.gen
          => Leq(watcher.seen, memory)
    /\ IsSaving(o.folder) /\ saver.untouched => memory = disk[o.folder] \/ IsReloading(o)

(* The inductive invariant of a quiet folder.                              *)
LoadedInv == ~raced => OpeningIsCurrent /\ \A o \in open : KeepsUp(o)

(* A folder nobody else touched differs from its baseline only during a    *)
(* save, which then sets the baseline; a candidate for it can be left over *)
(* from before a save, but is not seen a second time.                      *)
OwnSavesAreKnown ==
    /\ \A r \in root : r \notin foreign =>
          /\ IsSaving(r) => saver.untouched /\ (saver.at = "write" => baseline = {disk[r]})
          /\ ~IsSaving(r) => baseline = {disk[r]}
    /\ watcher.at = "seen" /\ watcher.folder \notin foreign =>
          /\ root # {watcher.folder} =>
                watcher.seen = disk[watcher.folder] /\ ~IsSaving(watcher.folder)
          /\ root = {watcher.folder} /\ candidate # {} /\ ~IsSaving(watcher.folder) =>
                baseline = {watcher.seen}
    /\ watcher.at \in {"reload", "announce"} => watcher.folder \in foreign

(* The inductive invariant of the notices.                                 *)
ToldInv ==
    /\ ~raced => OwnSavesAreKnown
    /\ watcher.at = "announce" =>
          \A o \in open : o.gen = watcher.gen => Leq(watcher.seen, memory)

WatchInv == Types /\ DiskIsAhead /\ GenerationsAreOwn /\ LoadedInv /\ ToldInv

-----------------------------------------------------------------------------
(* Types.                                                                  *)

Polls == [at : {"seen", "reload", "announce"}, folder : Folders,
          gen : 1..MaxOpens, seen : Snapshot]

Saves == [at : {"write", "check"}, folder : Folders,
          gen : 1..MaxOpens, untouched : BOOLEAN]

Scans == [folder : Folders, copy : Snapshot]

None == [at |-> "none"]

LEMMA RecordsDiffer ==
    /\ Idle.at = "idle" /\ None.at = "none"
    /\ \A w \in Polls : w # Idle /\ w # None /\ w.at \in {"seen", "reload", "announce"}
                        /\ w.folder \in Folders /\ w.gen \in 1..MaxOpens /\ w.seen \in Snapshot
    /\ \A s \in Saves : s # Idle /\ s.at \in {"write", "check"} /\ s.folder \in Folders
                        /\ s.gen \in 1..MaxOpens /\ s.untouched \in BOOLEAN
BY DEF Idle, None, Polls, Saves

(* What Types says of the goroutines.                                      *)
LEMMA Goroutines ==
    ASSUME Types
    PROVE  /\ IsPolling => watcher \in Polls
           /\ ~IsPolling => watcher \in {Idle, None}
           /\ saver # Idle => saver \in Saves
           /\ watcher.at = "none" => watcher = None
BY RecordsDiffer DEF Types, TypeOK, IsPolling, Polls, Saves, None

LEMMA StampIsFresh ==
    ASSUME Types
    PROVE  /\ edits < MaxEdits => Fresh \in Stamps
           /\ saver # Idle /\ saver.at = "write" => Fresh \in Stamps
           /\ edits \in Nat /\ saves \in Nat /\ Fresh = edits + saves + 1
BY DiskWatchAssumption DEF Types, TypeOK, Fresh, Stamps

(* Writing a stamp into a file of a folder.                                *)
LEMMA WriteIsTyped ==
    ASSUME NEW d \in [Folders -> Snapshot], NEW r \in Folders, NEW f \in Files, NEW n \in Stamps
    PROVE  /\ [d EXCEPT ![r][f] = n] \in [Folders -> Snapshot]
           /\ [d EXCEPT ![r][f] = n][r] = [d[r] EXCEPT ![f] = n]
           /\ \A q \in Folders : q # r => [d EXCEPT ![r][f] = n][q] = d[q]
BY DEF Snapshot

LEMMA StepKeepsTypes == Types /\ [Next]_vars => Types'
<1> SUFFICES ASSUME Types, [Next]_vars PROVE Types'
  OBVIOUS
<1> USE DiskWatchAssumption DEF Types
<1>1. ASSUME NEW r \in Folders, NEW f \in Files, Edit(r, f) PROVE Types'
  <2>1. disk' \in [Folders -> Snapshot]
    BY <1>1, StampIsFresh, WriteIsTyped DEF Edit, TypeOK
  <2>2. edits' \in 0..MaxEdits /\ raced' \in BOOLEAN
    BY <1>1 DEF Edit, TypeOK
  <2> QED BY <1>1, <2>1, <2>2 DEF Edit, TypeOK, watch
<1>2. ASSUME NEW r \in Folders, OpenScan(r) PROVE Types'
  <2>1. [folder |-> r, copy |-> disk[r]] \in Scans
    BY DEF TypeOK, Scans
  <2>2. opening' \in Option(Scans)
    BY <1>2, <2>1 DEF OpenScan, Option
  <2>3. opens' \in 0..MaxOpens /\ raced' \in BOOLEAN /\ opens' > 0
    BY <1>2 DEF OpenScan, TypeOK
  <2> QED BY <1>2, <2>2, <2>3 DEF OpenScan, TypeOK, watch, Scans
<1>3. CASE Activate
  <2>1. PICK o \in opening : open' = {[folder |-> o.folder, gen |-> opens]} /\ memory' = o.copy
    BY <1>3 DEF Activate
  <2>2. o \in Scans
    BY DEF TypeOK, Scans, Option
  <2>3. opens \in 1..MaxOpens
    BY DEF TypeOK
  <2>4. [folder |-> o.folder, gen |-> opens] \in Opened /\ memory' \in Snapshot
    BY <2>1, <2>2, <2>3 DEF Opened, Scans
  <2>5. open' \in Option(Opened) /\ opening' \in Option(Scans) /\ opening' = {}
    BY <1>3, <2>1, <2>4 DEF Option, Activate
  <2> QED BY <1>3, <2>4, <2>5 DEF Activate, TypeOK, watch, Scans
<1>4. CASE CloseWorkspace
  <2>1. open' \in Option(Opened)
    BY <1>4 DEF CloseWorkspace, Option
  <2> QED BY <1>4, <2>1 DEF CloseWorkspace, TypeOK, watch
<1>5. CASE ReloadWorkspace
  <2>1. PICK o \in open : memory' = disk[o.folder]
    BY <1>5 DEF ReloadWorkspace
  <2>2. o.folder \in Folders
    BY DEF TypeOK, Option, Opened
  <2> QED BY <1>5, <2>1, <2>2 DEF ReloadWorkspace, TypeOK, watch
<1>6. CASE SaveBegins
  <2>1. PICK o \in open :
          /\ raced' = (raced \/ ~IsSafeToSave(o.folder))
          /\ saver' = [at |-> "write", folder |-> o.folder, gen |-> o.gen,
                       untouched |-> root = {o.folder} /\ baseline = {disk[o.folder]}]
    BY <1>6 DEF SaveBegins
  <2>2. o.folder \in Folders /\ o.gen \in 1..MaxOpens
    BY DEF TypeOK, Option, Opened
  <2>3. saver' \in Saves
    BY <2>1, <2>2, Zenon DEF Saves
  <2>4. raced' \in BOOLEAN
    BY <2>1 DEF TypeOK
  <2>5. UNCHANGED <<disk, open, memory, opening, opens, watch, watcher, edits, saves, foreign>>
        /\ saves < MaxSaves
    BY <1>6 DEF SaveBegins
  <2>6. saver'.untouched => root = {saver'.folder}
    BY <2>1
  <2> QED BY <2>3, <2>4, <2>5, <2>6 DEF TypeOK, Saves, watch
<1>7. CASE SaveWrites
  <2>1. saver # Idle /\ saver \in Saves /\ saver.at = "write"
    BY <1>7, Goroutines, RecordsDiffer DEF SaveWrites
  <2>2. saver' \in Saves /\ saver'.at = "check"
        /\ saver'.untouched = saver.untouched /\ saver'.folder = saver.folder
    BY <1>7, <2>1 DEF SaveWrites, Saves
  <2>3. disk' \in [Folders -> Snapshot] /\ memory' \in Snapshot /\ saves' \in 0..MaxSaves
    <3>1. CASE UNCHANGED <<disk, memory, saves>>
      BY <3>1 DEF TypeOK
    <3>2. ASSUME NEW f \in Files, disk' = [disk EXCEPT ![saver.folder][f] = Fresh],
                 memory' = IF \E o \in open : o.gen = saver.gen
                           THEN [memory EXCEPT ![f] = Fresh] ELSE memory,
                 saves' = saves + 1
          PROVE  disk' \in [Folders -> Snapshot] /\ memory' \in Snapshot /\ saves' \in 0..MaxSaves
      <4>1. Fresh \in Stamps /\ saver.folder \in Folders
        BY <2>1, StampIsFresh, RecordsDiffer
      <4>2. disk' \in [Folders -> Snapshot]
        BY <3>2, <4>1, WriteIsTyped DEF TypeOK
      <4>3. memory' \in Snapshot
        BY <3>2, <4>1 DEF TypeOK, Snapshot
      <4>4. saves' \in 0..MaxSaves
        BY <2>1, <3>2 DEF TypeOK
      <4> QED BY <4>2, <4>3, <4>4
    <3> QED BY <1>7, <3>1, <3>2 DEF SaveWrites
  <2>4. UNCHANGED <<open, opening, opens, watch, watcher, edits, foreign, raced>>
    BY <1>7 DEF SaveWrites
  <2> QED BY <2>1, <2>2, <2>3, <2>4 DEF TypeOK, Saves, watch
<1>8. CASE SaveEnds
  <2>1. saver # Idle /\ saver \in Saves
    BY <1>8, Goroutines, RecordsDiffer DEF SaveEnds
  <2>2. disk[saver.folder] \in Snapshot
    BY <2>1 DEF Saves, TypeOK
  <2>3. baseline' \in Option(Snapshot) /\ candidate' \in Option(Snapshot)
    BY <1>8, <2>2 DEF SaveEnds, TypeOK, Option
  <2>4. UNCHANGED <<disk, open, memory, opening, opens, root, watcher, edits, saves, foreign, raced>>
        /\ saver' = Idle
    BY <1>8 DEF SaveEnds
  <2> QED BY <2>3, <2>4 DEF TypeOK
<1>9. CASE FindNone
  BY <1>9 DEF FindNone, TypeOK, watch
<1>10. CASE Forget
  <2>1. {} \in Option(Folders) /\ {} \in Option(Snapshot)
    BY DEF Option
  <2> QED BY <1>10, <2>1 DEF Forget, TypeOK
<1>11. CASE Look
  <2>1. PICK o \in open :
          /\ raced' = (raced \/ ~IsSafeToLook(o.folder))
          /\ watcher' = [at |-> "seen", folder |-> o.folder, gen |-> o.gen,
                         seen |-> disk[o.folder]]
    BY <1>11 DEF Look
  <2>2. o.folder \in Folders /\ o.gen \in 1..MaxOpens
    BY DEF TypeOK, Option, Opened
  <2>3. watcher' \in Polls
    BY <2>1, <2>2 DEF Polls, TypeOK
  <2>4. raced' \in BOOLEAN
    BY <2>1 DEF TypeOK
  <2>5. UNCHANGED <<disk, open, memory, opening, opens, watch, saver, edits, saves, foreign>>
    BY <1>11 DEF Look
  <2> QED BY <2>3, <2>4, <2>5 DEF TypeOK, Polls, watch
<1>12. CASE Adopt \/ Unchanged \/ Suspect \/ Settle
  <2>1. watcher \in Polls /\ watcher.seen \in Snapshot /\ watcher.folder \in Folders
    BY <1>12, Goroutines, RecordsDiffer DEF Adopt, Unchanged, Suspect, Settle, IsPolling
  <2>2. /\ {} \in Option(Folders) /\ {watcher.folder} \in Option(Folders)
        /\ {} \in Option(Snapshot) /\ {watcher.seen} \in Option(Snapshot)
    BY <2>1 DEF Option
  <2>3. watcher' = Idle \/ watcher' \in Polls
    BY <1>12, <2>1 DEF Adopt, Unchanged, Suspect, Settle, Polls
  <2>4. root' \in Option(Folders) /\ baseline' \in Option(Snapshot) /\ candidate' \in Option(Snapshot)
    BY <1>12, <2>2 DEF Adopt, Unchanged, Suspect, Settle, TypeOK
  <2>5. UNCHANGED <<disk, open, memory, opening, opens, saver, edits, saves, foreign, raced>>
        /\ saver = Idle
    BY <1>12 DEF Adopt, Unchanged, Suspect, Settle
  <2> QED BY <2>3, <2>4, <2>5 DEF TypeOK, Polls
<1>13. CASE Reload \/ FailToReload \/ Announce
  <2>1. watcher \in Polls /\ disk[watcher.folder] \in Snapshot
    BY <1>13, Goroutines, RecordsDiffer DEF Reload, FailToReload, Announce, IsPolling, TypeOK
  <2>2. watcher' = Idle \/ watcher' \in Polls
    BY <1>13, <2>1 DEF Reload, FailToReload, Announce, Polls
  <2>3. memory' \in Snapshot /\ raced' \in BOOLEAN
    BY <1>13, <2>1 DEF Reload, FailToReload, Announce, TypeOK
  <2>4. UNCHANGED <<disk, open, opening, opens, watch, saver, edits, saves, foreign>>
    BY <1>13 DEF Reload, FailToReload, Announce
  <2> QED BY <2>2, <2>3, <2>4 DEF TypeOK, Polls, watch
<1>14. CASE UNCHANGED vars
  BY <1>14 DEF vars, watch, TypeOK
<1> QED BY <1>1, <1>2, <1>3, <1>4, <1>5, <1>6, <1>7, <1>8, <1>9, <1>10, <1>11, <1>12,
       <1>13, <1>14 DEF Next, Save, Poll

-----------------------------------------------------------------------------
(* The disk is ahead of whatever was read from it.                         *)

LEMMA SnapshotOrder ==
    /\ \A a \in Snapshot : Leq(a, a)
    /\ \A a, b, c \in Snapshot : Leq(a, b) /\ Leq(b, c) => Leq(a, c)
    /\ \A a, b \in Snapshot : Leq(a, b) /\ Leq(b, a) => a = b
<1>1. \A a \in Snapshot, f \in Files : a[f] \in Nat
  BY DiskWatchAssumption DEF Snapshot, Stamps
<1>2. \A a, b \in Snapshot : Leq(a, b) /\ Leq(b, a) => a = b
  <2> SUFFICES ASSUME NEW a \in Snapshot, NEW b \in Snapshot, Leq(a, b), Leq(b, a) PROVE a = b
    OBVIOUS
  <2>1. \A f \in Files : a[f] = b[f]
    BY <1>1 DEF Leq
  <2> QED BY <2>1 DEF Snapshot
<1> QED BY <1>1, <1>2 DEF Leq

(* Types of what is in use.                                                *)
LEMMA InUse ==
    ASSUME Types
    PROVE  /\ \A o \in open : o.folder \in Folders /\ o.gen \in 1..MaxOpens /\ open = {o}
           /\ \A o \in opening : o.folder \in Folders /\ o.copy \in Snapshot /\ opening = {o}
           /\ \A r \in root : r \in Folders /\ root = {r}
           /\ \A b \in baseline : b \in Snapshot /\ baseline = {b}
           /\ \A r \in Folders : disk[r] \in Snapshot
           /\ memory \in Snapshot /\ opens \in Nat
           /\ IsPolling => /\ watcher \in Polls /\ watcher.folder \in Folders
                           /\ watcher.gen \in 1..MaxOpens /\ watcher.seen \in Snapshot
           /\ saver # Idle => saver \in Saves /\ saver.folder \in Folders /\ saver.gen \in 1..MaxOpens
<1>1. \A o \in open : o.folder \in Folders /\ o.gen \in 1..MaxOpens /\ open = {o}
  BY DEF Types, TypeOK, Option, Opened
<1>2. \A o \in opening : o.folder \in Folders /\ o.copy \in Snapshot /\ opening = {o}
  BY DEF Types, TypeOK, Option
<1>3. \A r \in root : r \in Folders /\ root = {r}
  BY DEF Types, TypeOK, Option
<1>4. \A b \in baseline : b \in Snapshot /\ baseline = {b}
  BY DEF Types, TypeOK, Option
<1>5. \A r \in Folders : disk[r] \in Snapshot
  BY DEF Types, TypeOK
<1>6. memory \in Snapshot /\ opens \in Nat
  BY DiskWatchAssumption DEF Types, TypeOK
<1> QED BY <1>1, <1>2, <1>3, <1>4, <1>5, <1>6, Goroutines, RecordsDiffer

(* A write outdates one folder and leaves the others alone.                *)
LEMMA WriteIsAhead ==
    ASSUME Types, DiskIsAhead, NEW r \in Folders, NEW f \in Files, Fresh \in Stamps,
           disk' = [disk EXCEPT ![r][f] = Fresh], edits' + saves' = Fresh
    PROVE  /\ \A q \in Folders : disk'[q] \in Snapshot /\ Leq(disk[q], disk'[q])
           /\ \A q \in Folders, g \in Files : disk'[q][g] <= edits' + saves'
           /\ \A q \in Folders : q # r => disk'[q] = disk[q]
           /\ disk'[r] = [disk[r] EXCEPT ![f] = Fresh]
<1>1. disk \in [Folders -> Snapshot]
  BY DEF Types, TypeOK
<1>2. /\ disk' \in [Folders -> Snapshot]
      /\ disk'[r] = [disk[r] EXCEPT ![f] = Fresh]
      /\ \A q \in Folders : q # r => disk'[q] = disk[q]
  BY <1>1, WriteIsTyped
<1>3. edits \in Nat /\ saves \in Nat /\ Fresh = edits + saves + 1
  BY StampIsFresh
<1>4. \A q \in Folders, g \in Files : disk[q][g] \in Nat /\ disk[q][g] <= edits + saves
  BY <1>1, DiskWatchAssumption DEF Snapshot, Stamps, DiskIsAhead
<1>5. \A q \in Folders, g \in Files : disk'[q][g] = disk[q][g] \/ disk'[q][g] = Fresh
  BY <1>1, <1>2 DEF Snapshot
<1>6. \A q \in Folders, g \in Files : disk'[q][g] <= edits' + saves' /\ disk[q][g] <= disk'[q][g]
  BY <1>3, <1>4, <1>5
<1> QED BY <1>2, <1>6 DEF Leq

(* Steps that write nothing, or write ahead of everything that was read.   *)
LEMMA StepWritesAhead ==
    ASSUME Types, DiskIsAhead, [Next]_vars
    PROVE  /\ \A q \in Folders : disk'[q] \in Snapshot /\ Leq(disk[q], disk'[q])
           /\ \A q \in Folders, g \in Files : disk'[q][g] <= edits' + saves'
<1> DEFINE Goal == /\ \A q \in Folders : disk'[q] \in Snapshot /\ Leq(disk[q], disk'[q])
                   /\ \A q \in Folders, g \in Files : disk'[q][g] <= edits' + saves'
<1>1. CASE UNCHANGED <<disk, edits, saves>>
  BY <1>1, InUse, SnapshotOrder DEF DiskIsAhead
<1>2. ASSUME NEW r \in Folders, NEW f \in Files, Edit(r, f) PROVE Goal
  <2>1. Fresh \in Stamps /\ edits' + saves' = Fresh /\ disk' = [disk EXCEPT ![r][f] = Fresh]
    BY <1>2, StampIsFresh DEF Edit, Fresh
  <2> QED BY <2>1, WriteIsAhead
<1>3. CASE SaveWrites
  <2>1. saver # Idle /\ saver.at = "write" /\ saver.folder \in Folders
    BY <1>3, InUse, RecordsDiffer DEF SaveWrites
  <2>2. ASSUME NEW f \in Files, disk' = [disk EXCEPT ![saver.folder][f] = Fresh], saves' = saves + 1
        PROVE  Goal
    <3>1. Fresh \in Stamps /\ edits' + saves' = Fresh
      BY <1>3, <2>1, <2>2, StampIsFresh DEF SaveWrites, Fresh
    <3> QED BY <2>1, <2>2, <3>1, WriteIsAhead
  <2> QED BY <1>1, <1>3, <2>2 DEF SaveWrites
<1>4. CASE \/ \E r \in Folders : OpenScan(r)
           \/ Activate \/ CloseWorkspace \/ ReloadWorkspace \/ SaveBegins \/ SaveEnds \/ Poll
           \/ UNCHANGED vars
  <2>1. UNCHANGED <<disk, edits, saves>>
    BY <1>4 DEF OpenScan, Activate, CloseWorkspace, ReloadWorkspace, SaveBegins, SaveEnds, Poll,
       FindNone, Forget, Look, Adopt, Unchanged, Suspect, Settle, Reload, FailToReload,
       Announce, vars
  <2> QED BY <1>1, <2>1
<1> QED BY <1>2, <1>3, <1>4 DEF Next, Save

-----------------------------------------------------------------------------
(* Generations.                                                            *)

(* A goroutine goes on with the object it began with.                      *)
PollGoesOn ==
    \/ ~IsPolling'
    \/ IsPolling /\ watcher'.gen = watcher.gen /\ watcher'.folder = watcher.folder
                 /\ watcher'.seen = watcher.seen

SaveGoesOn ==
    \/ saver' = Idle
    \/ saver # Idle /\ saver'.gen = saver.gen /\ saver'.folder = saver.folder
                    /\ saver'.untouched = saver.untouched

LEMMA GoesOn ==
    ASSUME Types, [Next]_vars
    PROVE  /\ ~Look => PollGoesOn
           /\ ~SaveBegins => SaveGoesOn
<1>1. ASSUME UNCHANGED watcher PROVE PollGoesOn
  BY <1>1 DEF PollGoesOn, IsPolling
<1>2. ASSUME UNCHANGED saver PROVE SaveGoesOn
  BY <1>2 DEF SaveGoesOn
<1>3. CASE FindNone \/ Forget \/ Adopt \/ Unchanged \/ Suspect \/ FailToReload \/ Announce
  <2>1. watcher' \in {Idle, None}
    BY <1>3 DEF FindNone, Forget, Adopt, Unchanged, Suspect, FailToReload, Announce, None
  <2>2. UNCHANGED saver
    BY <1>3 DEF FindNone, Forget, Adopt, Unchanged, Suspect, FailToReload, Announce
  <2> QED BY <1>2, <2>1, <2>2, RecordsDiffer DEF PollGoesOn, IsPolling
<1>4. CASE Settle \/ Reload
  <2>1. IsPolling /\ UNCHANGED saver
    BY <1>4 DEF Settle, Reload, IsPolling
  <2>2. watcher \in Polls
    BY <2>1, InUse
  <2>3. watcher'.gen = watcher.gen /\ watcher'.folder = watcher.folder /\ watcher'.seen = watcher.seen
    BY <1>4, <2>2 DEF Settle, Reload, Polls
  <2> QED BY <1>2, <2>1, <2>3 DEF PollGoesOn
<1>5. CASE SaveWrites
  <2>1. saver # Idle /\ UNCHANGED watcher
    BY <1>5, RecordsDiffer DEF SaveWrites
  <2>2. saver \in Saves
    BY <2>1, InUse
  <2>3. saver'.gen = saver.gen /\ saver'.folder = saver.folder /\ saver'.untouched = saver.untouched
    BY <1>5, <2>2 DEF SaveWrites, Saves
  <2> QED BY <1>1, <2>1, <2>3 DEF SaveGoesOn
<1>6. CASE SaveEnds
  BY <1>1, <1>6 DEF SaveEnds, SaveGoesOn
<1>7. ASSUME NEW r \in Folders, OpenScan(r) \/ \E f \in Files : Edit(r, f)
      PROVE  UNCHANGED <<watcher, saver>>
  BY <1>7 DEF OpenScan, Edit
<1>8. CASE Activate \/ CloseWorkspace \/ ReloadWorkspace \/ UNCHANGED vars
  BY <1>1, <1>2, <1>8 DEF Activate, CloseWorkspace, ReloadWorkspace, vars
<1>9. CASE Look
  <2>1. UNCHANGED saver
    BY <1>9 DEF Look
  <2> QED BY <1>2, <1>9, <2>1
<1>10. CASE SaveBegins
  <2>1. UNCHANGED watcher
    BY <1>10 DEF SaveBegins
  <2> QED BY <1>1, <1>10, <2>1
<1> QED BY <1>1, <1>2, <1>3, <1>4, <1>5, <1>6, <1>7, <1>8, <1>9, <1>10 DEF Next, Save, Poll

LEMMA StepKeepsGenerations ==
    Types /\ GenerationsAreOwn /\ [Next]_vars => GenerationsAreOwn'
<1> SUFFICES ASSUME Types, GenerationsAreOwn, [Next]_vars PROVE GenerationsAreOwn'
  OBVIOUS
<1>0. opens \in Nat /\ (\A o \in open : o.gen \in Nat) /\ (IsPolling => watcher.gen \in Nat)
      /\ (saver # Idle => saver.gen \in Nat)
  BY InUse, DiskWatchAssumption
<1>1. ASSUME NEW r \in Folders, OpenScan(r) PROVE GenerationsAreOwn'
  <2>1. opening = {} /\ opens' = opens + 1 /\ UNCHANGED <<open, watcher, saver>>
    BY <1>1 DEF OpenScan
  <2> QED BY <1>0, <2>1 DEF GenerationsAreOwn, IsPolling
<1>2. CASE Activate
  <2>1. PICK o \in opening : open' = {[folder |-> o.folder, gen |-> opens]}
    BY <1>2 DEF Activate
  <2>2. opening # {} /\ opening' = {} /\ UNCHANGED <<opens, watcher, saver>>
    BY <1>2 DEF Activate
  <2>3. \A p \in open' : p.gen = opens
    BY <2>1
  <2>4. (IsPolling => watcher.gen < opens) /\ (saver # Idle => saver.gen < opens)
    BY <2>2 DEF GenerationsAreOwn
  <2> QED BY <1>0, <2>2, <2>3, <2>4 DEF GenerationsAreOwn, IsPolling
<1>3. CASE CloseWorkspace
  BY <1>3 DEF CloseWorkspace, GenerationsAreOwn, IsPolling
<1>4. CASE Look
  <2>1. PICK o \in open : watcher' = [at |-> "seen", folder |-> o.folder, gen |-> o.gen,
                                      seen |-> disk[o.folder]]
    BY <1>4 DEF Look
  <2>2. open = {o} /\ watcher'.gen = o.gen /\ watcher'.folder = o.folder
    BY <2>1, InUse
  <2>3. UNCHANGED <<open, opening, opens, saver>>
    BY <1>4 DEF Look
  <2> QED BY <2>2, <2>3 DEF GenerationsAreOwn
<1>5. CASE SaveBegins
  <2>1. PICK o \in open :
          saver' = [at |-> "write", folder |-> o.folder, gen |-> o.gen,
                    untouched |-> root = {o.folder} /\ baseline = {disk[o.folder]}]
    BY <1>5 DEF SaveBegins
  <2>2. open = {o} /\ saver'.gen = o.gen /\ saver'.folder = o.folder
    BY <2>1, InUse
  <2>3. UNCHANGED <<open, opening, opens, watcher>>
    BY <1>5 DEF SaveBegins
  <2> QED BY <2>2, <2>3 DEF GenerationsAreOwn, IsPolling
<1>6. CASE UNCHANGED <<open, opening, opens>> /\ PollGoesOn /\ SaveGoesOn
  BY <1>6 DEF GenerationsAreOwn, PollGoesOn, SaveGoesOn
<1>7. CASE \/ \E r \in Folders, f \in Files : Edit(r, f)
           \/ ReloadWorkspace \/ SaveWrites \/ SaveEnds \/ FindNone \/ Forget \/ Adopt
           \/ Unchanged \/ Suspect \/ Settle \/ Reload \/ FailToReload \/ Announce
           \/ UNCHANGED vars
  <2>1. UNCHANGED <<open, opening, opens>>
    BY <1>7 DEF Edit, ReloadWorkspace, SaveWrites, SaveEnds, FindNone, Forget, Adopt,
       Unchanged, Suspect, Settle, Reload, FailToReload, Announce, vars
  <2> QED BY <1>4, <1>5, <1>6, <2>1, GoesOn
<1> QED BY <1>1, <1>2, <1>3, <1>4, <1>5, <1>7 DEF Next, Save, Poll

-----------------------------------------------------------------------------
LEMMA StepKeepsDiskAhead ==
    Types /\ DiskIsAhead /\ GenerationsAreOwn /\ [Next]_vars => DiskIsAhead'
<1> SUFFICES ASSUME Types, DiskIsAhead, GenerationsAreOwn, [Next]_vars PROVE DiskIsAhead'
  OBVIOUS
<1>0. /\ \A q \in Folders : disk'[q] \in Snapshot /\ Leq(disk[q], disk'[q])
      /\ \A q \in Folders, g \in Files : disk'[q][g] <= edits' + saves'
  BY StepWritesAhead
<1>1. ASSUME NEW x \in Snapshot, NEW q \in Folders, Leq(x, disk[q]) PROVE Leq(x, disk'[q])
  BY <1>0, <1>1, InUse, SnapshotOrder
<1>2. ASSUME NEW q \in Folders PROVE Leq(disk[q], disk'[q]) /\ disk[q] \in Snapshot
  BY <1>0, InUse
<1>3. (\A o \in opening : Leq(o.copy, disk[o.folder]))'
  <2>1. CASE opening' \subseteq opening
    BY <1>1, <2>1, InUse DEF DiskIsAhead
  <2>2. ASSUME NEW r \in Folders, OpenScan(r)
        PROVE  \A o \in opening' : o.folder = r /\ o.copy = disk[r]
    BY <2>2 DEF OpenScan
  <2>3. \/ opening' \subseteq opening
        \/ \E r \in Folders : OpenScan(r)
    BY DEF Next, Save, Poll, Edit, Activate, CloseWorkspace, ReloadWorkspace, SaveBegins,
       SaveWrites, SaveEnds, FindNone, Forget, Look, Adopt, Unchanged, Suspect, Settle,
       Reload, FailToReload, Announce, vars
  <2> QED BY <1>2, <2>1, <2>2, <2>3
<1>4. (\A o \in open : Leq(memory, disk[o.folder]))'
  <2>1. CASE UNCHANGED memory /\ open' \subseteq open
    BY <1>1, <2>1, InUse DEF DiskIsAhead
  <2>2. CASE Activate
    <3>1. PICK o \in opening : open' = {[folder |-> o.folder, gen |-> opens]} /\ memory' = o.copy
      BY <2>2 DEF Activate
    <3>2. Leq(o.copy, disk'[o.folder])
      BY <1>1, InUse DEF DiskIsAhead
    <3> QED BY <3>1, <3>2
  <2>3. CASE ReloadWorkspace
    <3>1. PICK o \in open : memory' = disk[o.folder] /\ open' = {o}
      BY <2>3, InUse DEF ReloadWorkspace
    <3> QED BY <1>2, <3>1, InUse
  <2>4. CASE SaveWrites
    <3>1. saver # Idle /\ saver.at = "write" /\ saver.folder \in Folders /\ open' = open
      BY <2>4, InUse, RecordsDiffer DEF SaveWrites
    <3>2. ASSUME NEW f \in Files, disk' = [disk EXCEPT ![saver.folder][f] = Fresh],
                 saves' = saves + 1, NEW o \in open, o.gen = saver.gen,
                 memory' = [memory EXCEPT ![f] = Fresh]
          PROVE  Leq(memory', disk'[o.folder])
      <4>1. Fresh \in Stamps /\ edits' + saves' = Fresh
        BY <2>4, <3>1, <3>2, StampIsFresh DEF SaveWrites, Fresh
      <4>2. o.folder = saver.folder
        BY <3>1, <3>2 DEF GenerationsAreOwn
      <4>3. disk'[o.folder] = [disk[o.folder] EXCEPT ![f] = Fresh]
        BY <3>1, <3>2, <4>1, <4>2, WriteIsAhead
      <4>4. Leq(memory, disk[o.folder]) /\ memory \in Snapshot /\ disk[o.folder] \in Snapshot
        BY <3>1, <4>2, InUse DEF DiskIsAhead
      <4>5. Fresh \in Nat
        BY <4>1, DiskWatchAssumption DEF Stamps
      <4> QED BY <3>2, <4>3, <4>4, <4>5 DEF Leq, Snapshot
    <3>3. CASE memory' = memory
      BY <2>1, <3>1, <3>3
    <3>4. \/ memory' = memory
          \/ \E f \in Files : /\ disk' = [disk EXCEPT ![saver.folder][f] = Fresh] /\ saves' = saves + 1
                             /\ memory' = [memory EXCEPT ![f] = Fresh]
                             /\ \E o \in open : o.gen = saver.gen
      BY <2>4 DEF SaveWrites
    <3>5. \A o, p \in open : o = p
      BY InUse
    <3>6. CASE memory' # memory
      <4>1. PICK f \in Files : /\ disk' = [disk EXCEPT ![saver.folder][f] = Fresh] /\ saves' = saves + 1
                               /\ memory' = [memory EXCEPT ![f] = Fresh]
                               /\ \E o \in open : o.gen = saver.gen
        BY <3>4, <3>6
      <4>2. \A o \in open : o.gen = saver.gen
        BY <3>5, <4>1
      <4>3. \A o \in open : Leq(memory', disk'[o.folder])
        BY <3>2, <4>1, <4>2
      <4> QED BY <3>1, <4>3
    <3> QED BY <3>3, <3>6
  <2>5. CASE Reload
    <3>1. IsPolling /\ open' = open
      BY <2>5 DEF Reload, IsPolling
    <3>2. ASSUME NEW o \in open, o.gen = watcher.gen, memory' = disk[watcher.folder]
          PROVE  Leq(memory', disk'[o.folder])
      BY <1>2, <3>1, <3>2, InUse DEF GenerationsAreOwn
    <3>3. CASE memory' = memory
      BY <2>1, <3>1, <3>3
    <3> QED BY <2>5, <3>1, <3>2, <3>3, InUse DEF Reload
  <2>6. \/ UNCHANGED memory /\ open' \subseteq open
        \/ Activate \/ ReloadWorkspace \/ SaveWrites \/ Reload
    BY DEF Next, Save, Poll, Edit, OpenScan, CloseWorkspace, SaveBegins, SaveEnds, FindNone,
       Forget, Look, Adopt, Unchanged, Suspect, Settle, FailToReload, Announce, vars
  <2> QED BY <2>1, <2>2, <2>3, <2>4, <2>5, <2>6
<1>5. (\A r \in root, b \in baseline : Leq(b, disk[r]))'
  <2>1. CASE UNCHANGED <<root, baseline>>
    BY <1>1, <2>1, InUse DEF DiskIsAhead
  <2>2. CASE Forget
    BY <2>2 DEF Forget
  <2>3. CASE Adopt \/ Settle
    <3>1. IsPolling /\ root' = {watcher.folder} /\ baseline' = {watcher.seen}
      BY <2>3 DEF Adopt, Settle, IsPolling
    <3> QED BY <1>1, <3>1, InUse DEF DiskIsAhead
  <2>4. CASE SaveEnds
    <3>1. saver # Idle /\ root' = root
      BY <2>4, RecordsDiffer DEF SaveEnds
    <3>2. CASE saver.untouched
      <4>1. root = {saver.folder} /\ baseline' = {disk[saver.folder]}
        BY <2>4, <3>1, <3>2 DEF SaveEnds, Types
      <4> QED BY <1>2, <3>1, <4>1, InUse
    <3>3. CASE ~saver.untouched
      BY <2>1, <2>4, <3>3 DEF SaveEnds
    <3> QED BY <3>2, <3>3
  <2>5. UNCHANGED <<root, baseline>> \/ Forget \/ Adopt \/ Settle \/ SaveEnds
    BY DEF Next, Save, Poll, Edit, OpenScan, Activate, CloseWorkspace, ReloadWorkspace,
       SaveBegins, SaveWrites, FindNone, Look, Unchanged, Suspect, Reload, FailToReload,
       Announce, vars, watch
  <2> QED BY <2>1, <2>2, <2>3, <2>4, <2>5
<1>6. (IsPolling => Leq(watcher.seen, disk[watcher.folder]))'
  <2>1. CASE PollGoesOn
    BY <1>1, <2>1, InUse DEF DiskIsAhead, PollGoesOn
  <2>2. CASE Look
    <3>1. PICK o \in open : watcher' = [at |-> "seen", folder |-> o.folder, gen |-> o.gen,
                                        seen |-> disk[o.folder]]
      BY <2>2 DEF Look
    <3> QED BY <1>2, <3>1, InUse
  <2> QED BY <2>1, <2>2, GoesOn
<1> QED BY <1>0, <1>3, <1>4, <1>5, <1>6 DEF DiskIsAhead

-----------------------------------------------------------------------------
(* A quiet folder is a loaded one.                                         *)

(* Nothing undoes a race.                                                  *)
LEMMA RacesAreRemembered ==
    ASSUME Types, [Next]_vars, ~raced'
    PROVE  /\ ~raced
           /\ \A r \in Folders, f \in Files : Edit(r, f) => IsSafeToEdit(r)
           /\ \A r \in Folders : OpenScan(r) => IsSafeToScan(r)
           /\ \A o \in open : SaveBegins => IsSafeToSave(o.folder)
           /\ \A o \in open : Look => IsSafeToLook(o.folder)
           /\ ~FailToReload
<1>0. raced \in BOOLEAN
  BY DEF Types, TypeOK
<1>1. ASSUME NEW r \in Folders, NEW f \in Files, Edit(r, f) PROVE ~raced /\ IsSafeToEdit(r)
  BY <1>0, <1>1 DEF Edit
<1>2. ASSUME NEW r \in Folders, OpenScan(r) PROVE ~raced /\ IsSafeToScan(r)
  BY <1>0, <1>2 DEF OpenScan
<1>3. ASSUME NEW o \in open, SaveBegins PROVE ~raced /\ IsSafeToSave(o.folder)
  <2>1. open = {o}
    BY InUse
  <2> QED BY <1>0, <1>3, <2>1 DEF SaveBegins
<1>4. ASSUME NEW o \in open, Look PROVE ~raced /\ IsSafeToLook(o.folder)
  <2>1. open = {o}
    BY InUse
  <2> QED BY <1>0, <1>4, <2>1 DEF Look
<1>5. ~FailToReload
  BY DEF FailToReload
<1>6. CASE UNCHANGED raced
  BY <1>1, <1>2, <1>3, <1>4, <1>5, <1>6
<1>7. SaveBegins \/ Look => open # {}
  BY DEF SaveBegins, Look
<1>8. \/ \E r \in Folders, f \in Files : Edit(r, f)
      \/ \E r \in Folders : OpenScan(r)
      \/ SaveBegins \/ Look \/ UNCHANGED raced
  BY <1>5 DEF Next, Save, Poll, Activate, CloseWorkspace, ReloadWorkspace, SaveWrites,
     SaveEnds, FindNone, Forget, Adopt, Unchanged, Suspect, Settle, Reload, Announce, vars
<1> QED BY <1>1, <1>2, <1>3, <1>4, <1>5, <1>6, <1>7, <1>8

(* What a step that writes does to the disk and to the collection.         *)
LEMMA Written ==
    ASSUME Types, DiskIsAhead, SaveWrites
    PROVE  /\ saver # Idle /\ saver.folder \in Folders
           /\ \A q \in Folders : q # saver.folder => disk'[q] = disk[q]
           /\ \A o \in open :
                /\ o.gen = saver.gen /\ o.folder = saver.folder =>
                     /\ memory = disk[o.folder] => memory' = disk'[o.folder]
                     /\ Leq(memory, memory')
                /\ o.gen # saver.gen => memory' = memory
<1>1. saver # Idle /\ saver.folder \in Folders /\ saver.at = "write"
  BY InUse, RecordsDiffer DEF SaveWrites
<1>2. CASE UNCHANGED <<disk, memory>>
  BY <1>1, <1>2, InUse, SnapshotOrder
<1>3. ASSUME NEW f \in Files, disk' = [disk EXCEPT ![saver.folder][f] = Fresh],
             memory' = IF \E o \in open : o.gen = saver.gen
                       THEN [memory EXCEPT ![f] = Fresh] ELSE memory,
             saves' = saves + 1
      PROVE  /\ \A q \in Folders : q # saver.folder => disk'[q] = disk[q]
             /\ \A o \in open :
                  /\ o.gen = saver.gen /\ o.folder = saver.folder =>
                       /\ memory = disk[o.folder] => memory' = disk'[o.folder]
                       /\ Leq(memory, memory')
                  /\ o.gen # saver.gen => memory' = memory
  <2>1. Fresh \in Stamps /\ edits' + saves' = Fresh
    BY <1>1, <1>3, StampIsFresh DEF SaveWrites, Fresh
  <2>2. /\ \A q \in Folders : q # saver.folder => disk'[q] = disk[q]
        /\ disk'[saver.folder] = [disk[saver.folder] EXCEPT ![f] = Fresh]
    BY <1>1, <1>3, <2>1, WriteIsAhead
  <2>3. ASSUME NEW o \in open, o.gen # saver.gen PROVE memory' = memory
    <3>1. open = {o}
      BY InUse
    <3> QED BY <1>3, <2>3, <3>1
  <2>4. ASSUME NEW o \in open, o.gen = saver.gen, o.folder = saver.folder
        PROVE  /\ memory = disk[o.folder] => memory' = disk'[o.folder]
               /\ Leq(memory, memory')
    <3>1. memory' = [memory EXCEPT ![f] = Fresh]
      BY <1>3, <2>4
    <3>2. \A g \in Files : memory[g] \in Nat /\ memory[g] <= Fresh
      <4>1. memory \in Snapshot /\ disk[o.folder] \in Snapshot /\ Leq(memory, disk[o.folder])
        BY <1>1, <2>4, InUse DEF DiskIsAhead
      <4>2. \A g \in Files : disk[o.folder][g] <= edits + saves
        BY <1>1, <2>4 DEF DiskIsAhead
      <4>3. edits \in Nat /\ saves \in Nat /\ Fresh = edits + saves + 1
        BY StampIsFresh
      <4>4. \A g \in Files : memory[g] \in Nat /\ disk[o.folder][g] \in Nat
        BY <4>1, DiskWatchAssumption DEF Snapshot, Stamps
      <4> QED BY <4>1, <4>2, <4>3, <4>4 DEF Leq
    <3>3. Leq(memory, memory')
      BY <3>1, <3>2, InUse DEF Leq, Snapshot
    <3> QED BY <2>2, <2>4, <3>1, <3>3
  <2> QED BY <2>2, <2>3, <2>4
<1> QED BY <1>1, <1>2, <1>3 DEF SaveWrites

LEMMA StepKeepsOpening ==
    ASSUME Types, DiskIsAhead, GenerationsAreOwn, OpeningIsCurrent, [Next]_vars, ~raced'
    PROVE  OpeningIsCurrent'
<1> USE DEF OpeningIsCurrent, IsSaving
<1>1. ASSUME NEW r \in Folders, NEW f \in Files, Edit(r, f) PROVE OpeningIsCurrent'
  <2>1. \A o \in opening : o.folder # r /\ o.folder \in Folders
    BY <1>1, RacesAreRemembered, InUse DEF IsSafeToEdit
  <2>2. \A q \in Folders : q # r => disk'[q] = disk[q]
    BY <1>1 DEF Edit, Types, TypeOK
  <2>3. UNCHANGED <<open, opening, saver>>
    BY <1>1 DEF Edit
  <2> QED BY <2>1, <2>2, <2>3
<1>2. ASSUME NEW r \in Folders, OpenScan(r) PROVE OpeningIsCurrent'
  <2>1. opening' = {[folder |-> r, copy |-> disk[r]]} /\ UNCHANGED <<disk, open, saver>>
    BY <1>2 DEF OpenScan
  <2>2. ~(saver # Idle /\ saver.folder = r)
    BY <1>2, RacesAreRemembered DEF IsSafeToScan
  <2> QED BY <2>1, <2>2
<1>3. CASE Activate
  <2>1. PICK o \in opening : open' = {[folder |-> o.folder, gen |-> opens]}
    BY <1>3 DEF Activate
  <2>2. opening' = {} /\ UNCHANGED saver
    BY <1>3 DEF Activate
  <2> QED BY <2>1, <2>2
<1>4. CASE SaveBegins
  <2>1. PICK o \in open :
          saver' = [at |-> "write", folder |-> o.folder, gen |-> o.gen,
                    untouched |-> root = {o.folder} /\ baseline = {disk[o.folder]}]
    BY <1>4 DEF SaveBegins
  <2>2. open = {o} /\ UNCHANGED <<disk, open, opening>>
    BY <1>4, InUse DEF SaveBegins
  <2>3. \A x \in opening : x.folder # o.folder
    BY <1>4, RacesAreRemembered DEF IsSafeToSave
  <2>4. saver'.gen = o.gen /\ saver'.folder = o.folder
    BY <2>1
  <2> QED BY <2>2, <2>3, <2>4
<1>5. CASE SaveWrites
  <2>1. SaveGoesOn /\ saver # Idle
    BY <1>5, Written, GoesOn, RecordsDiffer DEF SaveBegins, SaveWrites
  <2>2. UNCHANGED <<open, opening>>
    BY <1>5 DEF SaveWrites
  <2>3. \A o \in opening : disk'[o.folder] = disk[o.folder]
    BY <1>5, <2>1, Written, InUse
  <2> QED BY <2>1, <2>2, <2>3 DEF SaveGoesOn
<1>6. CASE UNCHANGED <<disk, opening>> /\ open' \subseteq open /\ (saver' = saver \/ saver' = Idle)
  BY <1>6
<1>7. CASE \/ CloseWorkspace \/ ReloadWorkspace \/ SaveEnds \/ Poll \/ UNCHANGED vars
  <2>1. UNCHANGED <<disk, opening>> /\ open' \subseteq open /\ (saver' = saver \/ saver' = Idle)
    BY <1>7 DEF CloseWorkspace, ReloadWorkspace, SaveEnds, Poll, FindNone, Forget, Look, Adopt,
       Unchanged, Suspect, Settle, Reload, FailToReload, Announce, vars
  <2> QED BY <1>6, <2>1
<1> QED BY <1>1, <1>2, <1>3, <1>4, <1>5, <1>7 DEF Next, Save

(* A collection that was just read from disk is as good as it can be.      *)
LEMMA FreshlyReadKeepsUp ==
    ASSUME Types, DiskIsAhead, NEW o, memory' = disk[o.folder], o.folder \in Folders,
           UNCHANGED <<disk, root, baseline, saver, watcher>>
    PROVE  KeepsUp(o)'
<1>1. root = {o.folder} => \A b \in baseline : Leq(b, disk[o.folder])
  BY DEF DiskIsAhead
<1>2. watcher.at = "seen" /\ watcher.folder = o.folder => Leq(watcher.seen, disk[o.folder])
  BY DEF DiskIsAhead, IsPolling
<1> QED BY <1>1, <1>2 DEF KeepsUp, IsPollElsewhere, IsSaving, IsReloading

(* Opening, closing, reloading and editing.                                *)
LEMMA UserKeepsUp ==
    ASSUME Types, DiskIsAhead, GenerationsAreOwn, OpeningIsCurrent,
           \A o \in open : KeepsUp(o), [Next]_vars, ~raced',
           \/ \E r \in Folders, f \in Files : Edit(r, f)
           \/ \E r \in Folders : OpenScan(r)
           \/ Activate \/ CloseWorkspace \/ ReloadWorkspace \/ UNCHANGED vars
    PROVE  \A o \in open' : KeepsUp(o)'
<1>1. ASSUME NEW r \in Folders, NEW f \in Files, Edit(r, f), NEW o \in open PROVE KeepsUp(o)'
  <2>1. UNCHANGED <<open, memory, root, baseline, watcher, saver>>
    BY <1>1 DEF Edit, watch
  <2>2. IsSafeToEdit(r)
    BY <1>1, RacesAreRemembered
  <2>3. \A q \in Folders : q # r => disk'[q] = disk[q]
    BY <1>1 DEF Edit, Types, TypeOK
  <2>4. CASE o.folder = r
    <3>1. root = {o.folder} /\ ~IsPollElsewhere(o.folder) /\ ~IsSaving(o.folder)
      BY <2>2, <2>4 DEF IsSafeToEdit, IsOpen, IsSaving
    <3> QED BY <2>1, <3>1 DEF KeepsUp, IsPollElsewhere, IsSaving, IsReloading
  <2>5. CASE o.folder # r
    <3>1. disk'[o.folder] = disk[o.folder]
      BY <2>3, <2>5, InUse
    <3> QED BY <2>1, <3>1 DEF KeepsUp, IsPollElsewhere, IsSaving, IsReloading
  <2> QED BY <2>4, <2>5
<1>2. CASE UNCHANGED <<disk, open, memory, root, baseline, watcher, saver>>
  BY <1>2 DEF KeepsUp, IsPollElsewhere, IsSaving, IsReloading
<1>3. CASE Activate
  <2>1. PICK x \in opening : open' = {[folder |-> x.folder, gen |-> opens]} /\ memory' = x.copy
    BY <1>3 DEF Activate
  <2>2. memory' = disk[x.folder] /\ x.folder \in Folders
    BY <2>1, InUse DEF OpeningIsCurrent
  <2>3. UNCHANGED <<disk, root, baseline, saver, watcher>>
    BY <1>3 DEF Activate, watch
  <2>4. ASSUME NEW o \in open' PROVE o.folder = x.folder
    BY <2>1
  <2> QED BY <2>2, <2>3, <2>4, FreshlyReadKeepsUp
<1>4. CASE CloseWorkspace
  BY <1>4 DEF CloseWorkspace
<1>5. CASE ReloadWorkspace
  <2>1. PICK x \in open : memory' = disk[x.folder] /\ open' = {x}
    BY <1>5, InUse DEF ReloadWorkspace
  <2>2. UNCHANGED <<disk, root, baseline, saver, watcher>>
    BY <1>5 DEF ReloadWorkspace, watch
  <2> QED BY <2>1, <2>2, InUse, FreshlyReadKeepsUp
<1>6. ASSUME NEW r \in Folders, OpenScan(r)
      PROVE  UNCHANGED <<disk, open, memory, root, baseline, watcher, saver>>
  BY <1>6 DEF OpenScan, watch
<1>7. ASSUME NEW r \in Folders, NEW f \in Files, Edit(r, f) PROVE UNCHANGED open
  BY <1>7 DEF Edit
<1> QED BY <1>1, <1>2, <1>3, <1>4, <1>5, <1>6, <1>7 DEF vars, watch

(* Saving: a save of the open folder is written to both sides.             *)
LEMMA SaverKeepsUp ==
    ASSUME Types, DiskIsAhead, GenerationsAreOwn, OpeningIsCurrent,
           \A o \in open : KeepsUp(o), [Next]_vars, ~raced', Save
    PROVE  \A o \in open' : KeepsUp(o)'
<1>0. open' = open
  BY DEF Save, SaveBegins, SaveWrites, SaveEnds
<1> SUFFICES ASSUME NEW o \in open PROVE KeepsUp(o)'
  BY <1>0
<1>1. KeepsUp(o) /\ open = {o} /\ o.folder \in Folders /\ disk[o.folder] \in Snapshot
      /\ memory \in Snapshot /\ Leq(memory, disk[o.folder])
  BY InUse DEF DiskIsAhead
<1>2. CASE SaveBegins
  <2>1. saver' = [at |-> "write", folder |-> o.folder, gen |-> o.gen,
                  untouched |-> root = {o.folder} /\ baseline = {disk[o.folder]}]
    BY <1>1, <1>2 DEF SaveBegins
  <2>2. UNCHANGED <<disk, memory, root, baseline, watcher>>
    BY <1>2 DEF SaveBegins, watch
  <2>3. saver'.untouched => memory = disk[o.folder] \/ IsReloading(o)
    <3> SUFFICES ASSUME saver'.untouched, ~IsReloading(o) PROVE memory = disk[o.folder]
      OBVIOUS
    <3>1. root = {o.folder} /\ baseline = {disk[o.folder]}
      BY <2>1
    <3>2. Leq(disk[o.folder], memory)
      BY <1>1, <3>1 DEF KeepsUp
    <3> QED BY <1>1, <3>2, SnapshotOrder
  <2> HIDE <2>1
  <2> QED BY <1>1, <2>2, <2>3 DEF KeepsUp, IsPollElsewhere, IsReloading
<1>3. CASE SaveWrites
  <2>1. UNCHANGED <<root, baseline, watcher>> /\ saver # Idle
    BY <1>3, Written DEF SaveWrites, watch
  <2>2. SaveGoesOn
    BY <1>3, GoesOn, RecordsDiffer DEF SaveBegins, SaveWrites
  <2>3. CASE o.folder = saver.folder
    <3>1. o.gen = saver.gen
      BY <2>1, <2>3 DEF OpeningIsCurrent, IsSaving
    <3>2. (memory = disk[o.folder] => memory' = disk'[o.folder]) /\ Leq(memory, memory')
      BY <1>3, <2>3, <3>1, Written
    <3>3. memory' \in Snapshot
      BY StepKeepsTypes DEF Types, TypeOK
    <3>4. ASSUME NEW b \in Snapshot, Leq(b, memory) PROVE Leq(b, memory')
      BY <1>1, <3>2, <3>3, <3>4, SnapshotOrder
    <3>5. \A b \in baseline : b \in Snapshot
      BY InUse
    <3>6. watcher.at = "seen" => watcher.seen \in Snapshot
      BY InUse DEF IsPolling
    <3> QED BY <1>1, <2>1, <2>2, <3>2, <3>4, <3>5, <3>6
        DEF KeepsUp, IsPollElsewhere, IsReloading, IsSaving, SaveGoesOn
  <2>4. CASE o.folder # saver.folder
    <3>1. o.gen # saver.gen
      BY <2>1, <2>4 DEF GenerationsAreOwn
    <3>2. memory' = memory /\ disk'[o.folder] = disk[o.folder]
      BY <1>1, <1>3, <2>4, <3>1, Written
    <3> QED BY <1>1, <2>1, <2>2, <2>4, <3>2
        DEF KeepsUp, IsPollElsewhere, IsReloading, IsSaving, SaveGoesOn
  <2> QED BY <2>3, <2>4
<1>4. CASE SaveEnds
  <2>1. UNCHANGED <<disk, memory, root, watcher>> /\ saver' = Idle /\ saver # Idle
    BY <1>4, RecordsDiffer DEF SaveEnds
  <2>2. CASE saver.untouched /\ o.folder = saver.folder
    <3>1. baseline' = {disk[o.folder]}
      BY <1>4, <2>2 DEF SaveEnds
    <3>2. memory = disk[o.folder] \/ IsReloading(o)
      BY <1>1, <2>1, <2>2 DEF KeepsUp, IsSaving
    <3>3. (\A b \in baseline' : Leq(b, memory)) \/ IsReloading(o)
      BY <1>1, <3>1, <3>2, SnapshotOrder
    <3> QED BY <1>1, <2>1, <3>3 DEF KeepsUp, IsPollElsewhere, IsReloading, IsSaving
  <2>3. CASE saver.untouched /\ o.folder # saver.folder
    <3>1. root # {o.folder}
      BY <2>1, <2>3 DEF Types
    <3> QED BY <1>1, <2>1, <3>1 DEF KeepsUp, IsPollElsewhere, IsReloading, IsSaving
  <2>4. CASE ~saver.untouched
    <3>1. baseline' = baseline
      BY <1>4, <2>4 DEF SaveEnds
    <3> QED BY <1>1, <2>1, <3>1 DEF KeepsUp, IsPollElsewhere, IsReloading, IsSaving
  <2> QED BY <2>2, <2>3, <2>4
<1> QED BY <1>2, <1>3, <1>4 DEF Save

(* Polling: what the watcher makes its baseline the app has loaded, or is  *)
(* about to load.                                                          *)
LEMMA PollKeepsUp ==
    ASSUME Types, DiskIsAhead, GenerationsAreOwn, OpeningIsCurrent,
           \A o \in open : KeepsUp(o), [Next]_vars, ~raced', Poll
    PROVE  \A o \in open' : KeepsUp(o)'
<1>0. open' = open /\ UNCHANGED <<disk, saver>>
  BY DEF Poll, FindNone, Forget, Look, Adopt, Unchanged, Suspect, Settle, Reload,
     FailToReload, Announce
<1> SUFFICES ASSUME NEW o \in open PROVE KeepsUp(o)'
  BY <1>0
<1>1. KeepsUp(o) /\ open = {o} /\ o.folder \in Folders /\ disk[o.folder] \in Snapshot
      /\ memory \in Snapshot
  BY InUse
<1> USE DEF KeepsUp, IsPollElsewhere, IsReloading, IsSaving
<1>2. CASE FindNone
  BY <1>1, <1>2 DEF FindNone
<1>3. CASE Forget
  <2>1. /\ watcher.at = "none" /\ saver = Idle /\ root' = {} /\ baseline' = {}
        /\ watcher' = Idle /\ memory' = memory
    BY <1>3 DEF Forget
  <2> QED BY <1>0, <1>1, <2>1, RecordsDiffer
<1>4. CASE Look
  <2>1. watcher' = [at |-> "seen", folder |-> o.folder, gen |-> o.gen, seen |-> disk[o.folder]]
    BY <1>1, <1>4 DEF Look
  <2>2. watcher = Idle /\ UNCHANGED <<memory, root, baseline>>
    BY <1>4 DEF Look, watch
  <2>3. /\ watcher'.at = "seen" /\ watcher'.folder = o.folder /\ watcher'.gen = o.gen
        /\ watcher.at = "idle"
    BY <2>1, <2>2, RecordsDiffer
  <2> HIDE <2>1
  <2> QED BY <1>0, <1>1, <2>2, <2>3
<1>5. CASE Adopt
  <2>1. /\ watcher.at = "seen" /\ saver = Idle /\ root # {watcher.folder}
        /\ root' = {watcher.folder} /\ baseline' = {watcher.seen}
        /\ watcher' = Idle /\ memory' = memory
    BY <1>5 DEF Adopt
  <2>2. Leq(watcher.seen, disk[watcher.folder])
    BY <2>1 DEF DiskIsAhead, IsPolling
  <2>3. CASE o.folder = watcher.folder
    BY <1>0, <1>1, <2>1, <2>2, <2>3, RecordsDiffer
  <2>4. CASE o.folder # watcher.folder
    BY <1>0, <1>1, <2>1, <2>4, RecordsDiffer
  <2> QED BY <2>3, <2>4
<1>6. CASE Unchanged \/ Suspect
  <2>1. watcher.at = "seen" /\ watcher' = Idle /\ UNCHANGED <<memory, root, baseline>>
    BY <1>6 DEF Unchanged, Suspect
  <2> QED BY <1>0, <1>1, <2>1, RecordsDiffer
<1>7. CASE Settle
  <2>1. /\ watcher.at = "seen" /\ saver = Idle /\ root = {watcher.folder} /\ root' = root
        /\ baseline' = {watcher.seen} /\ memory' = memory /\ watcher \in Polls
        /\ watcher' = [watcher EXCEPT !.at = "reload"]
    BY <1>7, InUse DEF Settle, IsPolling
  <2>2. watcher'.at = "reload" /\ watcher'.gen = watcher.gen
    BY <2>1 DEF Polls
  <2>3. root = {o.folder} => watcher.gen = o.gen \/ Leq(watcher.seen, memory)
    BY <1>1, <2>1
  <2> QED BY <1>0, <1>1, <2>1, <2>2, <2>3
<1>8. CASE Reload
  <2>1. /\ watcher.at = "reload" /\ UNCHANGED <<root, baseline>> /\ watcher \in Polls
        /\ watcher' = [watcher EXCEPT !.at = "announce"]
    BY <1>8, InUse DEF Reload, IsPolling, watch
  <2>2. watcher'.at = "announce"
    BY <2>1 DEF Polls
  <2>3. CASE o.gen = watcher.gen
    <3>1. o.folder = watcher.folder
      BY <2>1, <2>3 DEF GenerationsAreOwn, IsPolling
    <3>2. memory' = disk[o.folder]
      BY <1>8, <2>3, <3>1 DEF Reload
    <3>3. root = {o.folder} => \A b \in baseline : Leq(b, disk[o.folder])
      BY DEF DiskIsAhead
    <3> QED BY <1>0, <2>1, <2>2, <3>2, <3>3
  <2>4. CASE o.gen # watcher.gen
    <3>1. memory' = memory
      BY <1>1, <1>8, <2>4 DEF Reload
    <3> QED BY <1>0, <1>1, <2>1, <2>2, <2>4, <3>1
  <2> QED BY <2>3, <2>4
<1>9. CASE Announce
  <2>1. watcher.at = "announce" /\ watcher' = Idle /\ UNCHANGED <<memory, root, baseline>>
    BY <1>9 DEF Announce, watch
  <2> QED BY <1>0, <1>1, <2>1, RecordsDiffer
<1> QED BY <1>2, <1>3, <1>4, <1>5, <1>6, <1>7, <1>8, <1>9, RacesAreRemembered DEF Poll

LEMMA StepKeepsLoaded ==
    Types /\ DiskIsAhead /\ GenerationsAreOwn /\ LoadedInv /\ [Next]_vars => LoadedInv'
<1> SUFFICES ASSUME Types, DiskIsAhead, GenerationsAreOwn, LoadedInv, [Next]_vars, ~raced'
             PROVE  OpeningIsCurrent' /\ \A o \in open' : KeepsUp(o)'
  BY DEF LoadedInv
<1>1. OpeningIsCurrent /\ \A o \in open : KeepsUp(o)
  BY RacesAreRemembered DEF LoadedInv
<1>2. OpeningIsCurrent'
  BY <1>1, StepKeepsOpening
<1>3. \A o \in open' : KeepsUp(o)'
  BY <1>1, UserKeepsUp, SaverKeepsUp, PollKeepsUp DEF Next
<1> QED BY <1>2, <1>3

(* With memory between the baseline and the disk, a baseline that is the   *)
(* disk leaves nothing in between.                                         *)
LEMMA LoadedInvSuffices == Types /\ DiskIsAhead /\ LoadedInv => QuietMeansLoaded
<1> SUFFICES ASSUME Types, DiskIsAhead, LoadedInv, ~raced, NEW o \in open,
                    root = {o.folder}, baseline = {disk[o.folder]}, watcher.at # "reload"
             PROVE  memory = disk[o.folder]
  BY DEF QuietMeansLoaded
<1>1. KeepsUp(o) /\ ~IsReloading(o)
  BY DEF LoadedInv, IsReloading
<1>2. Leq(disk[o.folder], memory) /\ Leq(memory, disk[o.folder])
  BY <1>1 DEF KeepsUp, DiskIsAhead
<1> QED BY <1>2, InUse, SnapshotOrder

-----------------------------------------------------------------------------
(* Notices are true.                                                       *)

(* The three parts of OwnSavesAreKnown: about a folder the watcher knows,  *)
(* about a walk that is not settled yet, and about a change that is.       *)
BaselineIsOwn(r) ==
    r \notin foreign =>
        /\ IsSaving(r) => saver.untouched /\ (saver.at = "write" => baseline = {disk[r]})
        /\ ~IsSaving(r) => baseline = {disk[r]}

WalkIsOwn ==
    watcher.at = "seen" /\ watcher.folder \notin foreign =>
        /\ root # {watcher.folder} =>
              watcher.seen = disk[watcher.folder] /\ ~IsSaving(watcher.folder)
        /\ root = {watcher.folder} /\ candidate # {} /\ ~IsSaving(watcher.folder) =>
              baseline = {watcher.seen}

ChangeIsForeign == watcher.at \in {"reload", "announce"} => watcher.folder \in foreign

LEMMA KnownParts ==
    OwnSavesAreKnown <=> (\A r \in root : BaselineIsOwn(r)) /\ WalkIsOwn /\ ChangeIsForeign
BY DEF OwnSavesAreKnown, BaselineIsOwn, WalkIsOwn, ChangeIsForeign

LEMMA UserIsKnown ==
    ASSUME Types, OwnSavesAreKnown, [Next]_vars, ~raced',
           \/ \E r \in Folders, f \in Files : Edit(r, f)
           \/ \E r \in Folders : OpenScan(r)
           \/ Activate \/ CloseWorkspace \/ ReloadWorkspace \/ UNCHANGED vars
    PROVE  OwnSavesAreKnown'
<1>1. ASSUME NEW r \in Folders, NEW f \in Files, Edit(r, f) PROVE OwnSavesAreKnown'
  <2>1. UNCHANGED <<root, baseline, candidate, watcher, saver>> /\ foreign' = foreign \cup {r}
    BY <1>1 DEF Edit, watch
  <2>2. \A q \in Folders : q # r => disk'[q] = disk[q]
    BY <1>1 DEF Edit, Types, TypeOK
  <2>3. \A q \in root : q \in Folders
    BY InUse
  <2>4. watcher.at = "seen" => watcher.folder \in Folders
    BY InUse DEF IsPolling
  <2> QED BY <2>1, <2>2, <2>3, <2>4 DEF OwnSavesAreKnown, IsSaving
<1>2. CASE UNCHANGED <<disk, root, baseline, candidate, watcher, saver, foreign>>
  BY <1>2 DEF OwnSavesAreKnown, IsSaving
<1>3. ASSUME NEW r \in Folders, OpenScan(r)
      PROVE  UNCHANGED <<disk, root, baseline, candidate, watcher, saver, foreign>>
  BY <1>3 DEF OpenScan, watch
<1> QED BY <1>1, <1>2, <1>3 DEF Activate, CloseWorkspace, ReloadWorkspace, vars, watch

LEMMA SaverIsKnown ==
    ASSUME Types, DiskIsAhead, OwnSavesAreKnown, [Next]_vars, ~raced', Save
    PROVE  OwnSavesAreKnown'
<1>0. UNCHANGED <<root, watcher, foreign>>
  BY DEF Save, SaveBegins, SaveWrites, SaveEnds, watch
<1>1. (\A r \in root : BaselineIsOwn(r)) /\ WalkIsOwn /\ ChangeIsForeign
  BY KnownParts
<1>2. ChangeIsForeign'
  BY <1>0, <1>1 DEF ChangeIsForeign
<1>3. CASE SaveBegins
  <2>1. PICK o \in open :
          saver' = [at |-> "write", folder |-> o.folder, gen |-> o.gen,
                    untouched |-> root = {o.folder} /\ baseline = {disk[o.folder]}]
    BY <1>3 DEF SaveBegins
  <2>2. /\ saver'.at = "write" /\ saver'.folder = o.folder /\ saver' # Idle
        /\ saver'.untouched = (root = {o.folder} /\ baseline = {disk[o.folder]})
    BY <2>1 DEF Idle
  <2>3. saver = Idle /\ UNCHANGED <<disk, baseline, candidate>>
    BY <1>3 DEF SaveBegins, watch
  <2>4. IsSafeToSave(o.folder)
    BY <1>3, RacesAreRemembered
  <2> HIDE <2>1
  <2>5. ASSUME NEW r \in root PROVE BaselineIsOwn(r)'
    BY <1>0, <1>1, <2>2, <2>3, InUse DEF BaselineIsOwn, IsSaving
  <2>6. WalkIsOwn'
    BY <1>0, <1>1, <2>2, <2>3, <2>4 DEF WalkIsOwn, IsSaving, IsSafeToSave
  <2> QED BY <1>0, <1>2, <2>5, <2>6, KnownParts DEF OwnSavesAreKnown, BaselineIsOwn,
          WalkIsOwn, ChangeIsForeign
<1>4. CASE SaveWrites
  <2>1. saver \in Saves /\ saver # Idle /\ saver.at = "write" /\ saver' = [saver EXCEPT !.at = "check"]
    BY <1>4, InUse, RecordsDiffer DEF SaveWrites
  <2>2. /\ saver'.at = "check" /\ saver'.folder = saver.folder /\ saver' # Idle
        /\ saver'.untouched = saver.untouched
    BY <2>1 DEF Saves, Idle
  <2>3. UNCHANGED <<baseline, candidate>>
    BY <1>4 DEF SaveWrites, watch
  <2>4. \A q \in Folders : q # saver.folder => disk'[q] = disk[q]
    BY <1>4, Written
  <2>5. ASSUME NEW r \in root PROVE BaselineIsOwn(r)'
    BY <1>0, <1>1, <2>1, <2>2, <2>3, <2>4, InUse DEF BaselineIsOwn, IsSaving
  <2>6. WalkIsOwn'
    <3>1. watcher.at = "seen" => watcher.folder \in Folders
      BY InUse DEF IsPolling
    <3> QED BY <1>0, <1>1, <2>1, <2>2, <2>3, <2>4, <3>1 DEF WalkIsOwn, IsSaving
  <2> QED BY <1>0, <1>2, <2>5, <2>6 DEF OwnSavesAreKnown, BaselineIsOwn,
          WalkIsOwn, ChangeIsForeign
<1>5. CASE SaveEnds
  <2>1. saver # Idle /\ saver' = Idle /\ UNCHANGED disk
    BY <1>5, RecordsDiffer DEF SaveEnds
  <2>2. CASE saver.untouched
    <3>1. root = {saver.folder} /\ baseline' = {disk[saver.folder]} /\ candidate' = {}
      BY <1>5, <2>1, <2>2 DEF SaveEnds, Types
    <3>2. ASSUME NEW r \in root PROVE BaselineIsOwn(r)'
      BY <1>0, <2>1, <3>1 DEF BaselineIsOwn, IsSaving
    <3>3. WalkIsOwn'
      BY <1>0, <1>1, <2>1, <3>1 DEF WalkIsOwn, IsSaving
    <3> QED BY <1>0, <1>2, <3>2, <3>3 DEF OwnSavesAreKnown, BaselineIsOwn,
            WalkIsOwn, ChangeIsForeign
  <2>3. CASE ~saver.untouched
    <3>1. UNCHANGED <<baseline, candidate>>
      BY <1>5, <2>3 DEF SaveEnds
    <3>2. ASSUME NEW r \in root PROVE BaselineIsOwn(r)'
      BY <1>0, <1>1, <2>1, <2>3, <3>1 DEF BaselineIsOwn, IsSaving
    <3>3. WalkIsOwn'
      <4>1. ASSUME watcher.at = "seen", watcher.folder \notin foreign, root = {watcher.folder}
            PROVE  saver.folder # watcher.folder
        BY <1>1, <2>1, <2>3, <4>1 DEF BaselineIsOwn, IsSaving
      <4> QED BY <1>0, <1>1, <2>1, <3>1, <4>1 DEF WalkIsOwn, IsSaving
    <3> QED BY <1>0, <1>2, <3>2, <3>3 DEF OwnSavesAreKnown, BaselineIsOwn,
            WalkIsOwn, ChangeIsForeign
  <2> QED BY <2>2, <2>3
<1> QED BY <1>3, <1>4, <1>5 DEF Save

LEMMA PollIsKnown ==
    ASSUME Types, OwnSavesAreKnown, [Next]_vars, ~raced', Poll
    PROVE  OwnSavesAreKnown'
<1>0. UNCHANGED <<disk, saver, foreign>>
  BY DEF Poll, FindNone, Forget, Look, Adopt, Unchanged, Suspect, Settle, Reload,
     FailToReload, Announce
<1>1. (\A r \in root : BaselineIsOwn(r)) /\ WalkIsOwn /\ ChangeIsForeign
  BY KnownParts
<1>2. ASSUME (\A r \in root : BaselineIsOwn(r))', WalkIsOwn', ChangeIsForeign'
      PROVE  OwnSavesAreKnown'
  BY <1>2 DEF OwnSavesAreKnown, BaselineIsOwn, WalkIsOwn, ChangeIsForeign
<1>3. CASE UNCHANGED <<root, baseline>> /\ watcher' \in {Idle, None}
  BY <1>0, <1>1, <1>2, <1>3, RecordsDiffer DEF BaselineIsOwn, WalkIsOwn, ChangeIsForeign, IsSaving
<1>4. CASE FindNone \/ Unchanged \/ Suspect \/ Announce
  BY <1>3, <1>4 DEF FindNone, Unchanged, Suspect, Announce, watch, None
<1>5. CASE Forget
  <2>1. root' = {} /\ watcher' = Idle
    BY <1>5 DEF Forget
  <2> QED BY <1>2, <2>1, RecordsDiffer DEF WalkIsOwn, ChangeIsForeign
<1>6. CASE Look
  <2>1. PICK o \in open : watcher' = [at |-> "seen", folder |-> o.folder, gen |-> o.gen,
                                      seen |-> disk[o.folder]]
    BY <1>6 DEF Look
  <2>2. watcher'.at = "seen" /\ watcher'.folder = o.folder /\ watcher'.seen = disk[o.folder]
    BY <2>1
  <2>3. UNCHANGED <<root, baseline, candidate>>
    BY <1>6 DEF Look, watch
  <2>4. IsSafeToLook(o.folder)
    BY <1>6, RacesAreRemembered
  <2> HIDE <2>1
  <2>5. WalkIsOwn'
    <3>1. root = {o.folder} => BaselineIsOwn(o.folder)
      BY <1>1
    <3> QED BY <1>0, <2>2, <2>3, <2>4, <3>1 DEF WalkIsOwn, BaselineIsOwn, IsSaving, IsSafeToLook
  <2>6. (\A r \in root : BaselineIsOwn(r))'
    BY <1>0, <1>1, <2>3 DEF BaselineIsOwn, IsSaving
  <2> QED BY <1>2, <2>2, <2>5, <2>6 DEF ChangeIsForeign
<1>7. CASE Adopt
  <2>1. /\ watcher.at = "seen" /\ saver = Idle /\ root # {watcher.folder}
        /\ root' = {watcher.folder} /\ baseline' = {watcher.seen} /\ watcher' = Idle
    BY <1>7 DEF Adopt
  <2>2. (\A r \in root : BaselineIsOwn(r))'
    BY <1>0, <1>1, <2>1 DEF BaselineIsOwn, WalkIsOwn, IsSaving
  <2> QED BY <1>2, <2>1, <2>2, RecordsDiffer DEF WalkIsOwn, ChangeIsForeign
<1>8. CASE Settle
  <2>1. /\ watcher.at = "seen" /\ saver = Idle /\ root = {watcher.folder} /\ root' = root
        /\ baseline # {watcher.seen} /\ candidate = {watcher.seen} /\ watcher \in Polls
        /\ watcher' = [watcher EXCEPT !.at = "reload"]
    BY <1>8, InUse DEF Settle, IsPolling
  <2>2. watcher.folder \in foreign
    BY <1>1, <2>1 DEF WalkIsOwn, IsSaving
  <2>3. watcher'.at = "reload" /\ watcher'.folder = watcher.folder
    BY <2>1 DEF Polls
  <2> QED BY <1>0, <1>2, <2>1, <2>2, <2>3 DEF BaselineIsOwn, WalkIsOwn, ChangeIsForeign
<1>9. CASE Reload
  <2>1. /\ watcher.at = "reload" /\ UNCHANGED <<root, baseline>> /\ watcher \in Polls
        /\ watcher' = [watcher EXCEPT !.at = "announce"]
    BY <1>9, InUse DEF Reload, IsPolling, watch
  <2>2. watcher'.at = "announce" /\ watcher'.folder = watcher.folder
    BY <2>1 DEF Polls
  <2> QED BY <1>0, <1>1, <1>2, <2>1, <2>2 DEF BaselineIsOwn, WalkIsOwn, ChangeIsForeign, IsSaving
<1> QED BY <1>4, <1>5, <1>6, <1>7, <1>8, <1>9, RacesAreRemembered DEF Poll

(* While a notice is being shown, the collection of the reloaded object    *)
(* only becomes more recent.                                               *)
IsReloaded ==
    watcher.at = "announce" =>
        \A o \in open : o.gen = watcher.gen => Leq(watcher.seen, memory)

LEMMA StepKeepsReloaded ==
    ASSUME Types, DiskIsAhead, GenerationsAreOwn, IsReloaded, [Next]_vars
    PROVE  IsReloaded'
<1>0. IsPolling => Leq(watcher.seen, disk[watcher.folder]) /\ watcher.seen \in Snapshot
  BY InUse DEF DiskIsAhead
<1>1. CASE watcher'.at # "announce"
  BY <1>1 DEF IsReloaded
<1>2. CASE UNCHANGED watcher /\ UNCHANGED memory /\ open' \subseteq open
  BY <1>2 DEF IsReloaded
<1>3. CASE Activate
  <2>1. PICK o \in opening : open' = {[folder |-> o.folder, gen |-> opens]}
    BY <1>3 DEF Activate
  <2>2. watcher' = watcher /\ opening # {}
    BY <1>3 DEF Activate
  <2>3. watcher.at = "announce" => watcher.gen < opens /\ watcher.gen \in Nat /\ opens \in Nat
    BY <2>2, InUse DEF GenerationsAreOwn, IsPolling
  <2> QED BY <2>1, <2>2, <2>3 DEF IsReloaded
<1>4. CASE ReloadWorkspace
  <2>1. PICK o \in open : memory' = disk[o.folder] /\ open' = {o} /\ watcher' = watcher
    BY <1>4, InUse DEF ReloadWorkspace
  <2>2. watcher.at = "announce" /\ o.gen = watcher.gen => watcher.folder = o.folder
    BY DEF GenerationsAreOwn, IsPolling
  <2> QED BY <1>0, <2>1, <2>2 DEF IsReloaded, IsPolling
<1>5. CASE SaveWrites
  <2>1. open' = open /\ watcher' = watcher /\ saver # Idle
    BY <1>5, Written DEF SaveWrites
  <2>2. ASSUME NEW o \in open PROVE Leq(memory, memory')
    <3>1. o.gen = saver.gen => o.folder = saver.folder
      BY <2>1 DEF GenerationsAreOwn
    <3> QED BY <1>5, <3>1, Written, InUse, SnapshotOrder
  <2>3. memory \in Snapshot /\ memory' \in Snapshot
    BY InUse, StepKeepsTypes DEF Types, TypeOK
  <2> QED BY <1>0, <2>1, <2>2, <2>3, SnapshotOrder DEF IsReloaded, IsPolling
<1>6. CASE Reload
  <2>1. watcher.at = "reload" /\ watcher \in Polls /\ open' = open
        /\ watcher' = [watcher EXCEPT !.at = "announce"]
    BY <1>6, InUse DEF Reload, IsPolling
  <2>2. watcher'.gen = watcher.gen /\ watcher'.seen = watcher.seen
    BY <2>1 DEF Polls
  <2>3. ASSUME NEW o \in open, o.gen = watcher.gen PROVE Leq(watcher.seen, memory')
    BY <1>0, <1>6, <2>1, <2>3 DEF Reload, IsPolling
  <2> QED BY <2>1, <2>2, <2>3 DEF IsReloaded
<1>7. CASE \/ \E r \in Folders, f \in Files : Edit(r, f)
           \/ \E r \in Folders : OpenScan(r)
           \/ CloseWorkspace \/ SaveBegins \/ SaveEnds \/ UNCHANGED vars
  BY <1>2, <1>7 DEF Edit, OpenScan, CloseWorkspace, SaveBegins, SaveEnds, vars
<1>8. CASE FindNone \/ Forget \/ Look \/ Adopt \/ Unchanged \/ Suspect \/ FailToReload \/ Announce
  <2>1. watcher' \in {Idle, None} \/ watcher'.at = "seen"
    BY <1>8 DEF FindNone, Forget, Look, Adopt, Unchanged, Suspect, FailToReload, Announce, None
  <2> QED BY <1>1, <2>1, RecordsDiffer
<1>9. CASE Settle
  <2>1. watcher \in Polls /\ watcher' = [watcher EXCEPT !.at = "reload"]
    BY <1>9, InUse DEF Settle, IsPolling
  <2> QED BY <1>1, <2>1 DEF Polls
<1> QED BY <1>3, <1>4, <1>5, <1>6, <1>7, <1>8, <1>9 DEF Next, Save, Poll

LEMMA StepKeepsTold ==
    Types /\ DiskIsAhead /\ GenerationsAreOwn /\ ToldInv /\ [Next]_vars => ToldInv'
<1> SUFFICES ASSUME Types, DiskIsAhead, GenerationsAreOwn, ToldInv, [Next]_vars PROVE ToldInv'
  OBVIOUS
<1>1. ASSUME ~raced' PROVE OwnSavesAreKnown'
  <2>1. OwnSavesAreKnown
    BY <1>1, RacesAreRemembered DEF ToldInv
  <2> QED BY <1>1, <2>1, UserIsKnown, SaverIsKnown, PollIsKnown DEF Next
<1>2. IsReloaded'
  BY StepKeepsReloaded DEF ToldInv, IsReloaded
<1> QED BY <1>1, <1>2 DEF ToldInv, IsReloaded

-----------------------------------------------------------------------------
LEMMA InitWatch == Init => WatchInv
<1> SUFFICES ASSUME Init PROVE WatchInv
  OBVIOUS
<1>1. watcher = Idle /\ saver = Idle /\ open = {} /\ opening = {} /\ root = {} /\ baseline = {}
      /\ candidate = {} /\ raced = FALSE /\ edits = 0 /\ saves = 0 /\ opens = 0 /\ foreign = {}
  BY DEF Init
<1>2. 0 \in Stamps
  BY DiskWatchAssumption DEF Stamps
<1>3. disk \in [Folders -> Snapshot] /\ memory \in Snapshot
  BY <1>2 DEF Init, Snapshot
<1>4. {} \in Option(Opened) /\ {} \in Option(Folders) /\ {} \in Option(Snapshot)
      /\ {} \in Option([folder : Folders, copy : Snapshot])
  BY DEF Option
<1>5. Types
  <2>1. edits \in 0..MaxEdits /\ saves \in 0..MaxSaves /\ opens \in 0..MaxOpens
    BY <1>1, DiskWatchAssumption
  <2>2. raced \in BOOLEAN /\ foreign \in SUBSET Folders /\ watcher \in {Idle, [at |-> "none"]}
    BY <1>1
  <2>3. TypeOK
    BY <1>1, <1>3, <1>4, <2>1, <2>2 DEF TypeOK
  <2> QED BY <1>1, <2>3 DEF Types
<1>6. DiskIsAhead
  BY <1>1, RecordsDiffer DEF Init, DiskIsAhead, IsPolling
<1>7. GenerationsAreOwn /\ LoadedInv
  BY <1>1, RecordsDiffer DEF GenerationsAreOwn, LoadedInv, OpeningIsCurrent, IsPolling
<1>8. ToldInv
  BY <1>1, RecordsDiffer DEF ToldInv, OwnSavesAreKnown
<1> QED BY <1>5, <1>6, <1>7, <1>8 DEF WatchInv

LEMMA StepKeepsWatch == WatchInv /\ [Next]_vars => WatchInv'
BY StepKeepsTypes, StepKeepsDiskAhead, StepKeepsGenerations, StepKeepsLoaded,
   StepKeepsTold DEF WatchInv

(* Every variable keeps its type; no stamp outgrows the bounds.            *)
THEOREM TypesHold == Spec => []TypeOK
<1>1. WatchInv => TypeOK
  BY DEF WatchInv, Types
<1> QED BY <1>1, InitWatch, StepKeepsWatch, PTL DEF Spec

(* As long as nothing fell into a window, a folder the watcher takes for   *)
(* unchanged is loaded as it is on disk, however saves, edits, openings,   *)
(* reloads and the watcher's own steps interleave.                         *)
THEOREM QuietFoldersAreLoaded == Spec => []QuietMeansLoaded
<1>1. WatchInv => QuietMeansLoaded
  BY LoadedInvSuffices DEF WatchInv
<1> QED BY <1>1, InitWatch, StepKeepsWatch, PTL DEF Spec

(* A notice is shown for a change somebody else made, unless something     *)
(* fell into a window, and never before that change was loaded.            *)
THEOREM NoticesAreTrue == Spec => []AnnouncementsAreTrue
<1>1. WatchInv => AnnouncementsAreTrue
  BY DEF WatchInv, ToldInv, OwnSavesAreKnown, AnnouncementsAreTrue, Leq
<1> QED BY <1>1, InitWatch, StepKeepsWatch, PTL DEF Spec

=============================================================================
