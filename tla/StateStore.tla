----------------------------- MODULE StateStore -----------------------------
(***************************************************************************)
(* src/state.rs: the document in memory and the file it is saved to.       *)
(*                                                                         *)
(* Tasks are the blocking saves.  A request stages a document under the    *)
(* documents lock and then flushes: copy the newest document out, take the *)
(* writer lock, skip if that revision is already on disk, otherwise write  *)
(* a temporary file, fsync it, copy the present file over the backup,      *)
(* rename, fsync the directory.  Each of those is a step, so that other    *)
(* tasks, a kill of the process and a power cut may fall between any two.  *)
(*                                                                         *)
(* A file is None (absent) or a record: the document in it, or Garbled     *)
(* (not JSON), or Newer (written by a later schema); whether it needs      *)
(* repairs to be read; whether its data has been fsynced.                  *)
(*                                                                         *)
(* Two errors are not reported by the code and can cost a saved document:  *)
(* that of the directory's fsync, and that of reading a file at a start,   *)
(* which counts as a file that is no document.                             *)
(***************************************************************************)
EXTENDS Documents

CONSTANTS
    Tasks,          \* concurrent saves
    Garbled, Newer, \* contents of a file that is not a usable document
    InitialDisks,   \* [primary, backup] pairs a daemon may find when first started
    MayDamage,      \* may something outside the daemon garble state.json?
    MayMisread,     \* may the read of a file that is there fail?
    MaxRevision, MaxGeneration, MaxEpoch, MaxErrors  \* bounds

VARIABLES
    up,         \* the daemon is running
    persisted,  \* Writer.persisted_revision
    failure,    \* Writer.failure: the revision that could not be saved
    writer,     \* the task holding the writer mutex
    repairs,    \* StateStore.repairs is not empty
    primary, backup, temp, rejected,   \* state.json and its three siblings
    journal,    \* what state.json names after a power cut: the last synced entry
    pc, held,   \* per task: where it is, and the document it copied out
    asked,      \* history, per task: the revision its request staged
    acked,      \* history: the newest revision a client was told is saved
    damaged,    \* history: something outside the daemon has garbled a file
    misread,    \* history: what runs was loaded past a state.json that may be intact,
                \* and is not saved yet
    unsynced,   \* history: the last save was booked and its rename is not on the disk
    errors      \* I/O errors so far

fileVars == <<primary, backup, temp, rejected, journal>>
writerVars == <<persisted, failure, writer>>
taskVars == <<pc, held, asked>>
losses == <<damaged, misread, unsynced>>
history == <<acked, damaged, misread, unsynced, errors>>
vars == <<docVars, up, writerVars, repairs, fileVars, taskVars, history>>

File == [doc : Document \cup {Garbled, Newer}, old : BOOLEAN, synced : BOOLEAN]

ASSUME StoreAssumption ==
    /\ InitialDisks \subseteq [primary : Optional(File), backup : Optional(File)]
    /\ Garbled \notin Document /\ Newer \notin Document /\ Garbled # Newer
    /\ None \notin File /\ None \notin Tasks
    /\ MayDamage \in BOOLEAN /\ MayMisread \in BOOLEAN
    /\ MaxRevision \in Nat /\ MaxGeneration \in Nat /\ MaxEpoch \in Nat /\ MaxErrors \in Nat

Readable(file) == IF file = None THEN FALSE ELSE file.doc \in Document

(* The revision a file holds, 0 for a file that holds none.                *)
RevisionOf(file) == IF Readable(file) THEN file.doc.rev ELSE 0

SavedDocument(file) == Readable(file) => file.doc.committed /\ ~file.doc.temporary

OnDisk(file) == IF file = None THEN TRUE ELSE file.synced

(* The daemon first finds only what a daemon saved, or what is no document,*)
(* and what it finds as state.json is no longer on its way to the disk.    *)
ASSUME DiskAssumption ==
    \A disk \in InitialDisks :
        SavedDocument(disk.primary) /\ SavedDocument(disk.backup) /\ OnDisk(disk.primary)

Unreadable == [doc |-> Garbled, old |-> FALSE, synced |-> FALSE]

HasPart(file, what) == IF file = None THEN FALSE ELSE file.doc = what

Persisting == {"write", "sync", "backup", "copying", "rename", "syncdir"}
Steps == {"idle", "copy", "wait", "ok", "failed"} \cup Persisting

TypeOK ==
    /\ DocTypeOK
    /\ up \in BOOLEAN
    /\ persisted \in Optional(Nat)
    /\ failure \in Optional(Nat)
    /\ writer \in Optional(Tasks)
    /\ repairs \in BOOLEAN
    /\ primary \in Optional(File)
    /\ backup \in Optional(File)
    /\ temp \in Optional(File)
    /\ rejected \in Optional(File)
    /\ journal \in Optional(File)
    /\ pc \in [Tasks -> Steps]
    /\ held \in [Tasks -> Optional(Document)]
    /\ asked \in [Tasks -> Nat]
    /\ acked \in Nat
    /\ damaged \in BOOLEAN /\ misread \in BOOLEAN /\ unsynced \in BOOLEAN
    /\ errors \in Nat

(* The last revision a client could rely on when only these files exist:   *)
(* the backup is read only where state.json is garbled.                    *)
Recoverable(first, second) ==
    IF HasPart(first, Garbled) THEN RevisionOf(second) ELSE RevisionOf(first)

Init ==
    /\ current = EmptyDocument /\ preview = None /\ generation = 0 /\ epoch = 0
    /\ up = FALSE
    /\ persisted = None /\ failure = None /\ writer = None /\ repairs = FALSE
    /\ \E disk \in InitialDisks :
         /\ primary = disk.primary /\ journal = disk.primary
         /\ backup = disk.backup
         /\ acked = Recoverable(disk.primary, disk.backup)
         /\ damaged = (HasPart(disk.primary, Garbled) \/ HasPart(disk.backup, Garbled))
    /\ misread = FALSE /\ unsynced = FALSE
    /\ temp = None /\ rejected = None
    /\ pc = [t \in Tasks |-> "idle"]
    /\ held = [t \in Tasks |-> None]
    /\ asked = [t \in Tasks |-> 0]
    /\ errors = 0

----------------------------------------------------------------------------
(* Transitions of the document.                                            *)

(* Any committed write: whatever `prepare` returned becomes the document.  *)
(* The API clears the temporary section before it returns.                 *)
Stage(t) ==
    /\ up /\ pc[t] = "idle"
    /\ current.rev < MaxRevision /\ generation < MaxGeneration
    /\ \E c \in Contents :
         StageReplace(Unconditional, [Effective EXCEPT !.content = c, !.temporary = FALSE])
    /\ pc' = [pc EXCEPT ![t] = "copy"]
    /\ asked' = [asked EXCEPT ![t] = current.rev + 1]
    /\ UNCHANGED <<up, writerVars, repairs, fileVars, held, history>>

TryOut ==
    /\ up /\ generation < MaxGeneration
    /\ \E c \in Contents, b \in BOOLEAN :
         SetPreview(Unconditional, [Effective EXCEPT !.content = c, !.temporary = b])
    /\ UNCHANGED <<up, writerVars, repairs, fileVars, taskVars, history>>

Revert ==
    /\ up /\ generation < MaxGeneration
    /\ ClearPreview(Unconditional)
    /\ UNCHANGED <<up, writerVars, repairs, fileVars, taskVars, history>>

----------------------------------------------------------------------------
(* flush and persist.                                                      *)

Goto(t, step) == pc' = [pc EXCEPT ![t] = step]

(* Slip: what is saved is what is shown.                                   *)
CopyOutShown(t) ==
    /\ pc[t] = "copy"
    /\ held' = [held EXCEPT ![t] = Effective]
    /\ Goto(t, "wait")
    /\ UNCHANGED <<docVars, up, writerVars, repairs, fileVars, asked, history>>

(* The document is copied out under a read guard that is dropped before    *)
(* the writer is asked for.                                                *)
CopyOut(t) ==
    /\ pc[t] = "copy"
    /\ held' = [held EXCEPT ![t] = current]
    /\ Goto(t, "wait")
    /\ UNCHANGED <<docVars, up, writerVars, repairs, fileVars, asked, history>>

(* Slip: a later revision on disk does not count.                          *)
ExactlyOnDisk(t) == persisted # None /\ held[t].rev = persisted

AlreadyOnDisk(t) == persisted # None /\ held[t].rev <= persisted

LockWriter(t) ==
    /\ pc[t] = "wait" /\ writer = None
    /\ IF AlreadyOnDisk(t)
         THEN Goto(t, "ok") /\ UNCHANGED writer
         ELSE Goto(t, "write") /\ writer' = t
    /\ UNCHANGED <<docVars, up, persisted, failure, repairs, fileVars, held, asked, history>>

(* Slip: state.json is truncated and written in place.                     *)
WriteInPlace(t) ==
    /\ pc[t] = "write"
    /\ primary' = [doc |-> held[t], old |-> FALSE, synced |-> FALSE]
    /\ temp' = primary'
    /\ Goto(t, "sync")
    /\ UNCHANGED <<docVars, up, writerVars, repairs, backup, rejected, journal,
                   held, asked, history>>

WriteTemp(t) ==
    /\ pc[t] = "write"
    /\ temp' = [doc |-> held[t], old |-> FALSE, synced |-> FALSE]
    /\ Goto(t, "sync")
    /\ UNCHANGED <<docVars, up, writerVars, repairs, primary, backup, rejected, journal,
                   held, asked, history>>

(* Slip: the temporary file is not fsynced.                                *)
SyncNothing(t) ==
    /\ pc[t] = "sync"
    /\ Goto(t, "backup")
    /\ UNCHANGED <<docVars, up, writerVars, repairs, fileVars, held, asked, history>>

SyncTemp(t) ==
    /\ pc[t] = "sync"
    /\ temp' = [temp EXCEPT !.synced = TRUE]
    /\ Goto(t, "backup")
    /\ UNCHANGED <<docVars, up, writerVars, repairs, primary, backup, rejected, journal,
                   held, asked, history>>

(* std::fs::copy truncates its target and then fills it, and never fsyncs. *)
OpenBackup(t) ==
    /\ pc[t] = "backup"
    /\ IF primary = None
         THEN Goto(t, "rename") /\ UNCHANGED backup
         ELSE Goto(t, "copying") /\ backup' = Unreadable
    /\ UNCHANGED <<docVars, up, writerVars, repairs, primary, temp, rejected, journal,
                   held, asked, history>>

FillBackup(t) ==
    /\ pc[t] = "copying"
    /\ backup' = [primary EXCEPT !.synced = FALSE]
    /\ Goto(t, "rename")
    /\ UNCHANGED <<docVars, up, writerVars, repairs, primary, temp, rejected, journal,
                   held, asked, history>>

(* What a start could not read is gone with the rename that replaces it.   *)
Rename(t) ==
    /\ pc[t] = "rename"
    /\ primary' = temp
    /\ temp' = None
    /\ Goto(t, "syncdir")
    /\ acked' = IF misread THEN 0 ELSE acked
    /\ misread' = FALSE
    /\ UNCHANGED <<docVars, up, writerVars, repairs, backup, rejected, journal,
                   held, asked, damaged, unsynced, errors>>

(* Opening or syncing the directory may fail, and nobody is told.  The     *)
(* rename may have reached the disk all the same.                          *)
SyncDirectory ==
    /\ \/ journal' = primary /\ UNCHANGED errors
       \/ errors < MaxErrors /\ errors' = errors + 1 /\ UNCHANGED journal
    /\ unsynced' = (journal' # primary)

(* Slip: the booking returns with the writer still locked.                 *)
SavedLocked(t) ==
    /\ pc[t] = "syncdir"
    /\ SyncDirectory
    /\ persisted' = held[t].rev
    /\ failure' = None
    /\ Goto(t, "ok")
    /\ UNCHANGED <<docVars, up, writer, repairs, primary, backup, temp, rejected, held, asked,
                   acked, damaged, misread>>

(* The directory is synced, or not, and the save is booked, all under the  *)
(* writer.                                                                 *)
Saved(t) ==
    /\ pc[t] = "syncdir"
    /\ SyncDirectory
    /\ persisted' = held[t].rev
    /\ failure' = None
    /\ writer' = None
    /\ Goto(t, "ok")
    /\ UNCHANGED <<docVars, up, repairs, primary, backup, temp, rejected, held, asked,
                   acked, damaged, misread>>

(* Slip: the failure is booked under the save, not its revision.           *)
SaveFailsUnderTask(t) ==
    /\ pc[t] \in Persisting \ {"syncdir"} /\ errors < MaxErrors
    /\ failure' = t
    /\ writer' = None
    /\ Goto(t, "failed")
    /\ errors' = errors + 1
    /\ UNCHANGED <<docVars, up, persisted, repairs, fileVars, held, asked, acked, losses>>

(* Any step up to the rename may fail.  What it had done so far stays; the *)
(* temporary file is read by nobody but the save that wrote it.            *)
SaveFails(t) ==
    /\ pc[t] \in Persisting \ {"syncdir"} /\ errors < MaxErrors
    /\ failure' = held[t].rev
    /\ writer' = None
    /\ Goto(t, "failed")
    /\ errors' = errors + 1
    /\ UNCHANGED <<docVars, up, persisted, repairs, fileVars, held, asked, acked, losses>>

(* The request is answered: 200 says the change is saved, 500 that it is   *)
(* live but not saved.                                                     *)
Answer(t) ==
    /\ pc[t] \in {"ok", "failed"}
    /\ acked' = IF pc[t] = "ok" /\ asked[t] > acked THEN asked[t] ELSE acked
    /\ Goto(t, "idle")
    /\ held' = [held EXCEPT ![t] = None]
    /\ asked' = [asked EXCEPT ![t] = 0]
    /\ UNCHANGED <<docVars, up, writerVars, repairs, fileVars, losses, errors>>

Idle ==
    /\ up /\ \A t \in Tasks : pc[t] = "idle"
    /\ UNCHANGED vars

----------------------------------------------------------------------------
(* The end of the process, and what it does to the disk.                   *)

Dies ==
    /\ up /\ epoch < MaxEpoch
    /\ up' = FALSE
    /\ writer' = None
    /\ pc' = [t \in Tasks |-> "idle"]
    /\ held' = [t \in Tasks |-> None]
    /\ asked' = [t \in Tasks |-> 0]
    /\ preview' = None
    /\ misread' = FALSE
    /\ UNCHANGED <<current, generation, epoch, persisted, failure, repairs, temp, rejected,
                   damaged, errors>>

Killed == Dies /\ UNCHANGED <<primary, backup, journal, acked, unsynced>>

(* Data that was never fsynced may be gone, and a rename whose directory   *)
(* was not synced may not have happened.                                   *)
AfterPowerCut(file) ==
    IF file = None THEN {None}
    ELSE {[file EXCEPT !.synced = TRUE]}
           \cup (IF file.synced THEN {} ELSE {[Unreadable EXCEPT !.synced = TRUE]})

(* Only a rename that was booked unsynced may take acknowledged saves.     *)
PowerCut ==
    /\ Dies
    /\ \E entry \in {primary, journal} :
         /\ primary' \in AfterPowerCut(entry)
         /\ acked' = IF unsynced /\ entry = journal /\ RevisionOf(journal) < acked
                       THEN RevisionOf(journal) ELSE acked
    /\ journal' = primary'
    /\ backup' \in AfterPowerCut(backup)
    /\ unsynced' = FALSE

(* Something outside the daemon garbles state.json while it is down.       *)
Damage ==
    /\ ~up /\ MayDamage /\ ~damaged /\ Readable(primary)
    /\ primary' = [Unreadable EXCEPT !.synced = TRUE] /\ journal' = primary'
    /\ damaged' = TRUE
    /\ acked' = RevisionOf(backup)
    /\ UNCHANGED <<docVars, up, writerVars, repairs, backup, temp, rejected, taskVars,
                   misread, unsynced, errors>>

----------------------------------------------------------------------------
(* load.                                                                   *)

(* A copy of the file as found is kept unless memory holds exactly what    *)
(* the file does; failing to keep it is only logged.                       *)
KeepRejected(verbatim, unread) ==
    /\ IF verbatim \/ primary = None
         THEN UNCHANGED rejected /\ errors' = errors + unread
         ELSE \/ rejected' = [primary EXCEPT !.synced = FALSE] /\ errors' = errors + unread
              \/ UNCHANGED rejected /\ errors' = errors + unread + 1
    /\ errors' <= MaxErrors

(* Slip: whatever was loaded counts as on disk.                            *)
StartAsSaved(doc, verbatim, repaired, unread) ==
    /\ ~up
    /\ up' = TRUE
    /\ Construct(doc)
    /\ persisted' = doc.rev
    /\ failure' = None
    /\ repairs' = repaired
    /\ KeepRejected(verbatim, unread)
    /\ misread' = (unread > 0 /\ ~HasPart(primary, Garbled))
    /\ UNCHANGED <<writer, primary, backup, temp, journal, taskVars, acked, damaged, unsynced>>

(* `unread` of the files that are there could not be read.                 *)
Start(doc, verbatim, repaired, unread) ==
    /\ ~up
    /\ up' = TRUE
    /\ Construct(doc)
    /\ persisted' = IF verbatim THEN doc.rev ELSE None
    /\ failure' = None
    /\ repairs' = repaired
    /\ KeepRejected(verbatim, unread)
    /\ misread' = (unread > 0 /\ ~HasPart(primary, Garbled))
    /\ UNCHANGED <<writer, primary, backup, temp, journal, taskVars, acked, damaged, unsynced>>

(* Repairing keeps what the schema can still hold and falls back to the    *)
(* default for the rest; the revision survives.                            *)
Repaired(file) ==
    IF file.old THEN {[file.doc EXCEPT !.content = c] : c \in {file.doc.content, Default}}
                ELSE {file.doc}

StartFromPrimary ==
    /\ Readable(primary)
    /\ \E doc \in Repaired(primary) : Start(doc, ~primary.old, primary.old, 0)

StartEmpty ==
    /\ primary = None
    /\ Start(EmptyDocument, FALSE, FALSE, 0)

(* A file is passed over when it is no document, and when its read fails   *)
(* whatever is in it: how many reads failed to pass this one over.         *)
PassedOver(file) ==
    (IF HasPart(file, Garbled) THEN {0} ELSE {})
      \cup (IF MayMisread /\ file # None THEN {1} ELSE {})

(* Slip: a document of a later schema counts as unreadable.                *)
StartFromBackupOfNewer ==
    /\ Readable(backup)
    /\ \E doc \in Repaired(backup), unread \in PassedOver(primary) \cup {0} :
         /\ unread = 0 => HasPart(primary, Garbled) \/ HasPart(primary, Newer)
         /\ Start(doc, FALSE, TRUE, unread)

StartFromBackup ==
    /\ Readable(backup)
    /\ \E doc \in Repaired(backup), unread \in PassedOver(primary) :
         Start(doc, FALSE, TRUE, unread)

StartFromDefaults ==
    \E first \in PassedOver(primary),
       second \in PassedOver(backup) \cup (IF backup = None THEN {0} ELSE {}) :
         Start(EmptyDocument, FALSE, TRUE, first + second)

(* The one refusal: a document from a newer build.  Nothing is touched; an *)
(* operator moves the file aside.                                          *)
RefusesToStart ==
    HasPart(primary, Newer) \/ (HasPart(primary, Garbled) /\ HasPart(backup, Newer))

MoveAside ==
    /\ ~up /\ RefusesToStart
    /\ IF HasPart(primary, Newer)
         THEN primary' = None /\ journal' = None /\ UNCHANGED backup
         ELSE backup' = None /\ UNCHANGED <<primary, journal>>
    /\ UNCHANGED <<docVars, up, writerVars, repairs, temp, rejected, taskVars, history>>

(* load_repairs: what `/status` shows as state_document_repaired.          *)
ShownRepairs == repairs /\ persisted = None

----------------------------------------------------------------------------
FlushStep(t) ==
    \/ CopyOut(t) \/ LockWriter(t) \/ WriteTemp(t) \/ SyncTemp(t) \/ OpenBackup(t)
    \/ FillBackup(t) \/ Rename(t) \/ Saved(t) \/ Answer(t)

Next ==
    \/ \E t \in Tasks : Stage(t) \/ FlushStep(t) \/ SaveFails(t)
    \/ TryOut \/ Revert \/ Idle
    \/ Killed \/ PowerCut \/ Damage \/ MoveAside
    \/ StartFromPrimary \/ StartEmpty \/ StartFromBackup \/ StartFromDefaults

Spec == Init /\ [][Next]_vars

(* A blocking task that can run does run: spawn_blocking gives each save a *)
(* thread of its own.                                                      *)
Fairness == \A t \in Tasks : WF_vars(FlushStep(t))

FairSpec == Spec /\ Fairness

----------------------------------------------------------------------------
(* Properties.                                                             *)

(* A change a client was told is saved is there after any kill or power    *)
(* cut (module header: disk lags memory, a restart loses only the unsaved  *)
(* changes), whatever the other saves were doing at that moment.  The code *)
(* gives up such a change in two cases, where `acked` follows it down: a   *)
(* power cut after a directory sync whose error was discarded, and a save  *)
(* over a state.json that its start could not read.                        *)
AcknowledgedSavesSurvive == up /\ ~damaged /\ ~misread => current.rev >= acked

(* However the executor schedules the flushes, an earlier revision never   *)
(* overwrites a later one in state.json that the start has read.           *)
DiskAdvances ==
    up /\ up' /\ ~misread /\ primary' # primary => RevisionOf(primary') > RevisionOf(primary)
DiskNeverGoesBack == [][DiskAdvances]_vars

(* Neither the working copy nor a temporary calibration aid reaches any    *)
(* file: disk holds committed documents only.                              *)
PreviewNeverSaved ==
    /\ SavedDocument(primary) /\ SavedDocument(backup)
    /\ SavedDocument(temp) /\ SavedDocument(journal)

(* A document this build cannot understand is never replaced by a default  *)
(* one: only the operator takes it away.  A start whose read of it fails   *)
(* cannot know that it is one, and its first save replaces it.             *)
NewerKept ==
    HasPart(primary, Newer) /\ ~misread => primary' = primary \/ (primary' = None /\ ~up')
NewerNeverOverwritten == [][NewerKept]_vars

(* /status says the document was repaired exactly as long as state.json is *)
(* still not what runs, damaged or merely not read: until the first save   *)
(* that succeeds, no longer.                                               *)
NeedsRepair(file) == IF file = None THEN FALSE ELSE file.old \/ file.doc = Garbled
RepairsShownWhileNeeded ==
    up /\ (\A t \in Tasks : pc[t] # "syncdir") => (ShownRepairs <=> NeedsRepair(primary) \/ misread)

(* A working copy always reads back with the saved revision it shadows and *)
(* with an honest committed flag, whatever was saved or reverted meanwhile.*)
WorkingCopyIsHonest ==
    preview # None =>
        /\ preview.rev = current.rev
        /\ preview.committed = OnlyTemporaryDiffers(preview, current)

(* Every save ends, with an answer or with the daemon: two locks, error    *)
(* paths included, never leave one waiting for good.                       *)
EverySaveEnds == \A t \in Tasks : pc[t] # "idle" ~> pc[t] = "idle"

(* The store is a DurableDocument.  Its live document is the one a start   *)
(* would load while the daemon is down; what may still become durable is   *)
(* the live document, those the saves hold, and a rename whose directory   *)
(* is not synced yet.  A save whose directory sync failed leaves `durable` *)
(* behind although it is answered: what was answered is not part of the    *)
(* abstract document, see AcknowledgedSavesSurvive.                        *)
Said(doc) == [rev |-> doc.rev, content |-> doc.content]
Loadable(file) == IF Readable(file) THEN Said(file.doc) ELSE Said(EmptyDocument)
Live == IF up THEN Said(current) ELSE Loadable(primary)
Durable == Loadable(journal)
OnTheirWay ==
    {Live, Loadable(primary)} \cup {Said(held[t]) : t \in {u \in Tasks : held[u] # None}}
Pending == {d \in OnTheirWay : d.rev > Durable.rev}
Abstract == INSTANCE DurableDocument WITH live <- Live, durable <- Durable, pending <- Pending
ImplementsDurableDocument == Abstract!Spec

(* The module header: the previous version is retained as a .bak fallback. *)
(* A daemon whose state.json is garbled once comes up with a revision it   *)
(* once ran, also when it is stopped again before its next save is done.   *)
BackupIsAFallback == up => current.rev >= acked
============================================================================
