--------------------------- MODULE StateStoreProofs ---------------------------
(***************************************************************************)
(* What StateStore guarantees for any number of concurrent saves, any      *)
(* documents and any bounds.                                               *)
(*                                                                         *)
(* Two invariants carry the argument.  Discipline says who may be where:   *)
(* only the holder of the writer is between the first write and the        *)
(* directory sync, it holds a document, the temporary file is its own, and *)
(* while what runs was loaded past a state.json nothing is booked as saved.*)
(* Ordered says why an older document never replaces a newer one: a save   *)
(* that has passed the check against persisted_revision holds a revision   *)
(* greater than the one in state.json, and a first save after a start,     *)
(* which has nothing to check against, holds at least the revision its     *)
(* own request staged, which is greater than any the start found.  Both    *)
(* say nothing of a state.json that the start failed to read.              *)
(***************************************************************************)
EXTENDS StateStore, TLAPS

Holding == {"wait"} \cup Persisting
Writing == Persisting \ {"syncdir"}

Discipline ==
    /\ writer # None => pc[writer] \in Persisting
    /\ \A t \in Tasks :
         /\ pc[t] \in Persisting => writer = t
         /\ pc[t] \in Holding => held[t] # None
         /\ pc[t] \in Writing \ {"write"} => temp # None
         /\ pc[t] = "copying" => primary # None
         /\ ~up => pc[t] = "idle"
         /\ misread => pc[t] \notin {"syncdir", "ok"}
    /\ misread => up /\ persisted = None

Typed == TypeOK /\ Discipline

(* How the revisions in memory, in the saves and in state.json are ordered.*)
Ordered ==
    /\ up /\ ~misread => RevisionOf(primary) <= current.rev
    /\ \A t \in Tasks :
         /\ pc[t] # "idle" => asked[t] <= current.rev
         /\ pc[t] \in Holding => asked[t] <= held[t].rev /\ held[t].rev <= current.rev
         /\ pc[t] \in Writing /\ ~misread => RevisionOf(primary) < held[t].rev
         /\ pc[t] \in Writing \ {"write"} => temp.doc = held[t]
         /\ pc[t] = "syncdir" => RevisionOf(primary) = held[t].rev
    /\ up /\ ~misread /\ (\A t \in Tasks : pc[t] # "syncdir") =>
         IF persisted = None
           THEN \A t \in Tasks : pc[t] # "idle" => RevisionOf(primary) < asked[t]
           ELSE RevisionOf(primary) <= persisted

IInv == Typed /\ Ordered

----------------------------------------------------------------------------
(* A document stays one under the edits the transitions make.              *)
LEMMA DocumentEdits ==
    ASSUME NEW d \in Document, NEW r \in Nat, NEW c \in Contents, NEW b \in BOOLEAN
    PROVE  /\ [d EXCEPT !.content = c, !.temporary = b] \in Document
           /\ [d EXCEPT !.rev = r, !.committed = b] \in Document
  BY DEF Document

(* Loading marks a document as saved and keeps its revision.               *)
LEMMA LoadedDocument ==
    ASSUME NEW d \in Document
    PROVE  [d EXCEPT !.committed = TRUE] \in Document /\ [d EXCEPT !.committed = TRUE].rev = d.rev
  BY DEF Document

(* Repairing a document replaces what it says and keeps its revision.      *)
LEMMA RepairedDocument ==
    ASSUME NEW d \in Document, NEW c \in Contents
    PROVE  [d EXCEPT !.content = c] \in Document /\ [d EXCEPT !.content = c].rev = d.rev
  BY DEF Document

(* What the default document is.                                           *)
LEMMA EmptyIsADocument == EmptyDocument \in Document /\ EmptyDocument.rev = 0
  BY ContentsAssumption DEF EmptyDocument, Document

(* The revision of any file, readable or not, is a number.                 *)
LEMMA RevisionIsNat ==
    ASSUME NEW file \in Optional(File)
    PROVE  RevisionOf(file) \in Nat
  <1>1. CASE file = None
    BY <1>1 DEF RevisionOf, Readable
  <1>2. CASE file \in File
    BY <1>2, StoreAssumption DEF RevisionOf, Readable, File, Document
  <1>3. QED
    BY <1>1, <1>2 DEF Optional

(* The initial state is one in which nothing runs.                         *)
LEMMA TypedInit == Init => Typed
  <1>1. SUFFICES ASSUME Init PROVE Typed
    OBVIOUS
  <1>2. PICK disk \in InitialDisks :
          /\ primary = disk.primary /\ journal = disk.primary
          /\ backup = disk.backup
          /\ acked = Recoverable(disk.primary, disk.backup)
          /\ damaged = (HasPart(disk.primary, Garbled) \/ HasPart(disk.backup, Garbled))
    BY <1>1 DEF Init
  <1>3. disk.primary \in Optional(File) /\ disk.backup \in Optional(File)
    BY StoreAssumption
  <1>4. acked \in Nat
    BY <1>2, <1>3, RevisionIsNat DEF Recoverable
  <1>5. damaged \in BOOLEAN
    BY <1>2 DEF HasPart
  <1>6. TypeOK
    BY <1>1, <1>2, <1>3, <1>4, <1>5, EmptyIsADocument DEF Init, TypeOK, DocTypeOK, Optional, Steps
  <1>7. Discipline
    BY <1>1 DEF Init, Discipline, Persisting, Holding, Writing
  <1>8. QED
    BY <1>6, <1>7 DEF Typed

(* A file stays one, with the same document in it.                         *)
LEMMA FileEdits ==
    ASSUME NEW f \in File, NEW b \in BOOLEAN
    PROVE  [f EXCEPT !.synced = b] \in File /\ [f EXCEPT !.synced = b].doc = f.doc
  BY DEF File

(* What a save writes is a file.                                           *)
LEMMA NewFiles ==
    ASSUME NEW d \in Document
    PROVE  [doc |-> d, old |-> FALSE, synced |-> FALSE] \in File
  BY DEF File

(* So is one that was truncated, synced or not.                            *)
LEMMA UnreadableIsAFile ==
    /\ Unreadable \in File /\ [Unreadable EXCEPT !.synced = TRUE] \in File
    /\ Unreadable.doc = Garbled /\ [Unreadable EXCEPT !.synced = TRUE].doc = Garbled
  BY DEF File, Unreadable

(* Repairing a file gives a document with the revision of the file.        *)
LEMMA RepairedFile ==
    ASSUME NEW file \in File, file.doc \in Document
    PROVE  \A d \in Repaired(file) : d \in Document /\ d.rev = file.doc.rev
  <1>1. file.doc.content \in Contents
    BY DEF Document
  <1>2. \A c \in {file.doc.content, Default} :
          /\ [file.doc EXCEPT !.content = c] \in Document
          /\ [file.doc EXCEPT !.content = c].rev = file.doc.rev
    BY <1>1, RepairedDocument, ContentsAssumption
  <1>3. QED
    BY <1>2 DEF Repaired

(* Every step keeps the types and the discipline of the writer.            *)
LEMMA TypedStep == Typed /\ [Next]_vars => Typed'
  <1> SUFFICES ASSUME Typed, [Next]_vars PROVE Typed'
    OBVIOUS
  <1> USE StoreAssumption, ContentsAssumption
  <1> USE DEF Typed, TypeOK, DocTypeOK, Discipline, Optional, Steps, Persisting, Holding, Writing,
              losses
  <1>1. ASSUME NEW t \in Tasks, Stage(t) PROVE Typed'
    <2>1. Effective \in Document
      BY DEF Effective
    <2>2. PICK c \in Contents :
            StageReplace(Unconditional, [Effective EXCEPT !.content = c, !.temporary = FALSE])
      BY <1>1 DEF Stage
    <2> DEFINE next == [Effective EXCEPT !.content = c, !.temporary = FALSE]
    <2>a. next \in Document
      BY <2>1, DocumentEdits, FALSE \in BOOLEAN, Zenon
    <2>b. current.rev + 1 \in Nat
      BY DEF Document
    <2> HIDE DEF next
    <2>3. current' \in Document /\ preview' = None /\ generation' \in Nat /\ epoch' = epoch
      <3>1. [next EXCEPT !.rev = current.rev + 1, !.committed = TRUE] \in Document
        BY <2>a, <2>b, DocumentEdits
      <3>2. StageReplace(Unconditional, next)
        BY <2>2 DEF next
      <3>3. QED
        BY <3>1, <3>2 DEF StageReplace
    <2>4. asked' \in [Tasks -> Nat]
      BY <1>1 DEF Stage, Document
    <2>5. QED
      BY <1>1, <2>3, <2>4 DEF Stage, writerVars, fileVars, history
  <1>2. ASSUME NEW t \in Tasks, CopyOut(t) PROVE Typed'
    BY <1>2 DEF CopyOut, Goto, docVars, writerVars, fileVars, history
  <1>3. ASSUME NEW t \in Tasks, LockWriter(t) PROVE Typed'
    BY <1>3 DEF LockWriter, AlreadyOnDisk, Goto, docVars, fileVars, history
  <1>4. ASSUME NEW t \in Tasks, WriteTemp(t) PROVE Typed'
    <2>1. temp' \in File
      <3>1. held[t] \in Document
        BY <1>4 DEF WriteTemp
      <3>2. QED
        BY <1>4, <3>1, NewFiles, Zenon DEF WriteTemp
    <2>2. Discipline'
      BY <1>4, <2>1 DEF WriteTemp, Goto, writerVars, history
    <2>3. QED
      BY <1>4, <2>1, <2>2 DEF WriteTemp, Goto, docVars, writerVars, history
  <1>5. ASSUME NEW t \in Tasks, SyncTemp(t) PROVE Typed'
    <2>1. temp' \in File
      BY <1>5, FileEdits DEF SyncTemp
    <2>2. Discipline'
      BY <1>5, <2>1 DEF SyncTemp, Goto, writerVars, history
    <2>3. QED
      BY <1>5, <2>1, <2>2 DEF SyncTemp, Goto, docVars, writerVars, history
  <1>6. ASSUME NEW t \in Tasks, OpenBackup(t) PROVE Typed'
    BY <1>6, UnreadableIsAFile DEF OpenBackup, Goto, docVars, writerVars, history
  <1>7. ASSUME NEW t \in Tasks, FillBackup(t) PROVE Typed'
    <2>1. backup' \in File
      BY <1>7, FileEdits DEF FillBackup
    <2>2. QED
      BY <1>7, <2>1 DEF FillBackup, Goto, docVars, writerVars, history
  <1>8. ASSUME NEW t \in Tasks, Rename(t) PROVE Typed'
    BY <1>8 DEF Rename, Goto, docVars, writerVars, history
  <1>9. ASSUME NEW t \in Tasks, Saved(t) PROVE Typed'
    <2>1. journal' \in Optional(File) /\ unsynced' \in BOOLEAN /\ errors' \in Nat
      BY <1>9 DEF Saved, SyncDirectory
    <2>2. persisted' \in Optional(Nat) /\ failure' = None /\ writer' = None
      BY <1>9 DEF Saved, Document
    <2>3. pc' = [pc EXCEPT ![t] = "ok"]
      BY <1>9 DEF Saved, Goto
    <2>4. UNCHANGED <<docVars, up, repairs, primary, backup, temp, rejected, held, asked, acked,
                      damaged, misread>>
      BY <1>9 DEF Saved
    <2>5. QED
      BY <1>9, <2>1, <2>2, <2>3, <2>4 DEF Saved, docVars
  <1>10. ASSUME NEW t \in Tasks, Answer(t) PROVE Typed'
    BY <1>10 DEF Answer, Goto, docVars, writerVars, fileVars
  <1>11. ASSUME NEW t \in Tasks, SaveFails(t) PROVE Typed'
    BY <1>11 DEF SaveFails, Goto, Document, docVars, fileVars
  <1>12. ASSUME TryOut PROVE Typed'
    <2>1. PICK c \in Contents, b \in BOOLEAN :
            SetPreview(Unconditional, [Effective EXCEPT !.content = c, !.temporary = b])
      BY <1>12 DEF TryOut
    <2> DEFINE next == [Effective EXCEPT !.content = c, !.temporary = b]
    <2>2. Effective \in Document
      BY DEF Effective
    <2>3. next \in Document
      BY <2>2, DocumentEdits, Zenon
    <2> HIDE DEF next
    <2>4. preview' \in Document /\ current' = current /\ generation' \in Nat /\ epoch' = epoch
      <3>1. OnlyTemporaryDiffers(next, current) \in BOOLEAN
        BY DEF OnlyTemporaryDiffers
      <3>2. current.rev \in Nat
        BY DEF Document
      <3>3. [next EXCEPT !.rev = current.rev, !.committed = OnlyTemporaryDiffers(next, current)]
              \in Document
        BY <2>3, <3>1, <3>2, DocumentEdits, Zenon
      <3>4. SetPreview(Unconditional, next)
        BY <2>1 DEF next
      <3>5. QED
        BY <3>3, <3>4 DEF SetPreview
    <2>5. QED
      BY <1>12, <2>4 DEF TryOut, writerVars, fileVars, taskVars, history
  <1>13. ASSUME Revert PROVE Typed'
    BY <1>13 DEF Revert, ClearPreview, writerVars, fileVars, taskVars, history
  <1>14. ASSUME Dies, primary' \in Optional(File), journal' \in Optional(File),
                backup' \in Optional(File), acked' \in Nat, unsynced' \in BOOLEAN
         PROVE  Typed'
    BY <1>14 DEF Dies
  <1>15. ASSUME Killed PROVE Typed'
    BY <1>14, <1>15 DEF Killed
  <1>16. ASSUME NEW file \in Optional(File) PROVE AfterPowerCut(file) \subseteq Optional(File)
    <2>1. CASE file = None
      BY <2>1 DEF AfterPowerCut
    <2>2. CASE file \in File
      <3>1. [file EXCEPT !.synced = TRUE] \in File
        BY <2>2, FileEdits
      <3>2. QED
        BY <2>2, <3>1, UnreadableIsAFile DEF AfterPowerCut
    <2>3. QED
      BY <2>1, <2>2
  <1>17. ASSUME PowerCut PROVE Typed'
    BY <1>14, <1>16, <1>17, RevisionIsNat DEF PowerCut
  <1>18. ASSUME Damage PROVE Typed'
    <2>1. primary' \in File /\ journal' \in File
      BY <1>18, UnreadableIsAFile DEF Damage
    <2>2. acked' \in Nat
      BY <1>18, RevisionIsNat DEF Damage
    <2>3. QED
      BY <1>18, <2>1, <2>2 DEF Damage, docVars, writerVars, taskVars
  <1>19. ASSUME MoveAside PROVE Typed'
    BY <1>19 DEF MoveAside, docVars, writerVars, taskVars, history
  <1>20. ASSUME NEW d \in Document, NEW v \in BOOLEAN, NEW r \in BOOLEAN, NEW u \in Nat,
                Start(d, v, r, u), u > 0 => ~v
         PROVE  Typed'
    <2>1. current' \in Document /\ preview' = None /\ generation' = 0 /\ epoch' \in Nat
      BY <1>20, LoadedDocument DEF Start, Construct
    <2>2. rejected' \in Optional(File) /\ errors' \in Nat
      <3> DEFINE copy == [primary EXCEPT !.synced = FALSE]
      <3>1. primary # None => copy \in File
        BY FileEdits
      <3>2. KeepRejected(v, u) => \/ UNCHANGED rejected /\ errors' = errors + u
                                  \/ primary # None /\ rejected' = copy /\ errors' = errors + u
                                  \/ errors' = errors + u + 1 /\ UNCHANGED rejected
        BY Zenon DEF KeepRejected
      <3> HIDE DEF copy
      <3>3. QED
        BY <1>20, <3>1, <3>2 DEF Start
    <2>3. persisted' \in Optional(Nat) /\ (misread' => persisted' = None) /\ misread' \in BOOLEAN
      BY <1>20 DEF Start, Document
    <2>4. QED
      BY <1>20, <2>1, <2>2, <2>3 DEF Start, taskVars
  <1>21. ASSUME NEW file \in Optional(File), Readable(file)
         PROVE  Repaired(file) \subseteq Document /\ file.old \in BOOLEAN
    BY <1>21, RepairedFile DEF Readable, File
  <1>22. ASSUME StartFromPrimary PROVE Typed'
    <2>1. PICK d \in Repaired(primary) : Start(d, ~primary.old, primary.old, 0)
      BY <1>22 DEF StartFromPrimary
    <2>2. d \in Document /\ primary.old \in BOOLEAN /\ (~primary.old) \in BOOLEAN
      BY <1>21, <1>22, <2>1 DEF StartFromPrimary
    <2> HIDE DEF Typed
    <2>3. 0 \in Nat /\ ~(0 > 0)
      OBVIOUS
    <2>4. QED
      BY <1>20, <2>1, <2>2, <2>3, Zenon
  <1>23. ASSUME StartEmpty \/ StartFromDefaults PROVE Typed'
    <2>1. \E r \in BOOLEAN, u \in Nat : Start(EmptyDocument, FALSE, r, u)
      <3>1. \A file : PassedOver(file) \subseteq {0, 1}
        BY DEF PassedOver
      <3>2. CASE StartEmpty
        BY <3>2 DEF StartEmpty
      <3>3. CASE StartFromDefaults
        <4>1. PICK first \in {0, 1}, second \in {0, 1} :
                Start(EmptyDocument, FALSE, TRUE, first + second)
          BY <3>1, <3>3 DEF StartFromDefaults
        <4>2. first + second \in Nat
          OBVIOUS
        <4>3. QED
          BY <4>1, <4>2, Zenon
      <3>4. QED
        BY <1>23, <3>2, <3>3
    <2> HIDE DEF Typed
    <2>2. QED
      BY <1>20, <2>1, EmptyIsADocument, FALSE \in BOOLEAN, Zenon
  <1>24. ASSUME StartFromBackup PROVE Typed'
    <2>1. PICK d \in Repaired(backup), u \in PassedOver(primary) : Start(d, FALSE, TRUE, u)
      BY <1>24 DEF StartFromBackup
    <2>2. d \in Document /\ u \in Nat
      BY <1>21, <1>24, <2>1 DEF StartFromBackup, PassedOver
    <2> HIDE DEF Typed
    <2>3. QED
      BY <1>20, <2>1, <2>2, FALSE \in BOOLEAN, TRUE \in BOOLEAN, Zenon
  <1>25. ASSUME UNCHANGED vars PROVE Typed'
    BY <1>25 DEF vars, docVars, writerVars, fileVars, taskVars, history
  <1>26. QED
    BY <1>1, <1>2, <1>3, <1>4, <1>5, <1>6, <1>7, <1>8, <1>9, <1>10, <1>11, <1>12, <1>13, <1>15,
       <1>17, <1>18, <1>19, <1>22, <1>23, <1>24, <1>25
       DEF Next, FlushStep, Idle

(* In every reachable state every variable has its type, and the writer,   *)
(* the temporary file and the documents being saved belong to who thinks   *)
(* so (persist runs under Writer's mutex).                                 *)
THEOREM TypeCorrect == Spec => []TypeOK
  <1>1. Spec => []Typed
    BY TypedInit, TypedStep, PTL DEF Spec
  <1>2. Typed => TypeOK
    BY DEF Typed
  <1>3. QED
    BY <1>1, <1>2, PTL

----------------------------------------------------------------------------
(* What a readable file says of its revision.                              *)
LEMMA RevisionOfDocument ==
    ASSUME NEW file \in File, file.doc \in Document
    PROVE  RevisionOf(file) = file.doc.rev
  BY StoreAssumption DEF RevisionOf, Readable

(* An absent or unusable file has revision 0.                              *)
LEMMA RevisionOfNothing ==
    ASSUME NEW file, ~Readable(file)
    PROVE  RevisionOf(file) = 0
  BY DEF RevisionOf

(* Nothing runs at first, so nothing is out of order.                      *)
LEMMA OrderedInit == Init => Ordered
  BY DEF Init, Ordered, Persisting, Holding, Writing

(* Every step of the daemon keeps saves in order.                          *)
LEMMA OrderedStep == Typed /\ Ordered /\ [Next]_vars => Ordered'
  <1> SUFFICES ASSUME Typed, Ordered, [Next]_vars PROVE Ordered'
    OBVIOUS
  <1> USE StoreAssumption, ContentsAssumption
  <1>0. /\ Typed' /\ RevisionOf(primary) \in Nat /\ RevisionOf(primary') \in Nat
        /\ current.rev \in Nat /\ current'.rev \in Nat
        /\ \A t \in Tasks : asked[t] \in Nat /\ (held[t] # None => held[t].rev \in Nat)
    <2>1. Typed'
      BY TypedStep
    <2>2. QED
      BY <2>1, RevisionIsNat DEF Typed, TypeOK, DocTypeOK, Document, Optional
  <1> USE DEF Ordered, Holding, Writing, Persisting, losses, history
  <1>1. ASSUME NEW t \in Tasks, Stage(t) PROVE Ordered'
    <2>1. current'.rev = current.rev + 1
      BY <1>1, <1>0 DEF Stage, StageReplace, Typed, TypeOK, DocTypeOK, Document, Effective
    <2>2. QED
      BY <1>0, <1>1, <2>1 DEF Stage, Typed, TypeOK, Discipline, fileVars, writerVars
  <1>2. ASSUME NEW t \in Tasks, CopyOut(t) PROVE Ordered'
    BY <1>0, <1>2 DEF CopyOut, Goto, Typed, TypeOK, Discipline, docVars, writerVars, fileVars
  <1>3. ASSUME NEW t \in Tasks, LockWriter(t) PROVE Ordered'
    <2>1. \A u \in Tasks : pc[u] # "syncdir"
      BY <1>3 DEF LockWriter, Typed, Discipline
    <2>2. up /\ held[t] # None
      BY <1>3 DEF LockWriter, Typed, Discipline
    <2>3. ~AlreadyOnDisk(t) /\ ~misread => RevisionOf(primary) < held[t].rev
      BY <1>0, <1>3, <2>1, <2>2 DEF AlreadyOnDisk, LockWriter, Typed, TypeOK, Optional
    <2>4. QED
      BY <1>0, <1>3, <2>1, <2>3 DEF LockWriter, Goto, Typed, TypeOK, docVars, fileVars
  <1>4. ASSUME NEW t \in Tasks, WriteTemp(t) PROVE Ordered'
    BY <1>0, <1>4 DEF WriteTemp, Goto, Typed, TypeOK, Discipline, docVars, writerVars
  <1>5. ASSUME NEW t \in Tasks, SyncTemp(t) PROVE Ordered'
    <2>1. temp'.doc = temp.doc
      BY <1>5, FileEdits DEF SyncTemp, Typed, TypeOK, Discipline, Optional
    <2>2. QED
      BY <1>0, <1>5, <2>1 DEF SyncTemp, Goto, Typed, TypeOK, Discipline, docVars, writerVars
  <1>6. ASSUME NEW t \in Tasks, OpenBackup(t) PROVE Ordered'
    BY <1>0, <1>6 DEF OpenBackup, Goto, Typed, TypeOK, Discipline, docVars, writerVars
  <1>7. ASSUME NEW t \in Tasks, FillBackup(t) PROVE Ordered'
    BY <1>0, <1>7 DEF FillBackup, Goto, Typed, TypeOK, Discipline, docVars, writerVars
  <1>8. ASSUME NEW t \in Tasks, Rename(t) PROVE Ordered'
    <2>1. temp \in File /\ temp.doc = held[t] /\ held[t] \in Document
      BY <1>8 DEF Rename, Typed, TypeOK, Discipline, Optional
    <2>2. RevisionOf(primary') = held[t].rev
      BY <1>8, <2>1, RevisionOfDocument DEF Rename
    <2>3. QED
      BY <1>0, <1>8, <2>2 DEF Rename, Goto, Typed, TypeOK, Discipline, docVars, writerVars
  <1>9. ASSUME NEW t \in Tasks, Saved(t) PROVE Ordered'
    BY <1>0, <1>9 DEF Saved, Goto, Typed, TypeOK, Discipline, docVars
  <1>10. ASSUME NEW t \in Tasks, Answer(t) PROVE Ordered'
    BY <1>0, <1>10 DEF Answer, Goto, Typed, TypeOK, Discipline, docVars, writerVars, fileVars
  <1>11. ASSUME NEW t \in Tasks, SaveFails(t) PROVE Ordered'
    BY <1>0, <1>11 DEF SaveFails, Goto, Typed, TypeOK, Discipline, docVars, fileVars
  <1>12. ASSUME TryOut \/ Revert PROVE Ordered'
    <2>1. current' = current
      BY <1>12 DEF TryOut, Revert, SetPreview, ClearPreview
    <2>2. UNCHANGED <<up, writerVars, fileVars, taskVars, history>>
      BY <1>12 DEF TryOut, Revert
    <2>3. UNCHANGED <<up, persisted, primary, temp, pc, held, asked, misread>>
      BY <2>2 DEF writerVars, fileVars, taskVars
    <2>4. QED
      BY <2>1, <2>3
  <1>13. ASSUME ~up', \A t \in Tasks : pc'[t] = "idle" PROVE Ordered'
    BY <1>13
  <1>14. ASSUME Killed \/ PowerCut PROVE Ordered'
    BY <1>13, <1>14 DEF Killed, PowerCut, Dies
  <1>15. ASSUME Damage \/ MoveAside PROVE Ordered'
    BY <1>13, <1>15 DEF Damage, MoveAside, taskVars, Typed, Discipline
  <1>16. ASSUME NEW d \in Document, NEW v \in BOOLEAN, NEW r \in BOOLEAN, NEW u \in Nat,
                Start(d, v, r, u),
                v => u = 0,
                (u = 0 \/ HasPart(primary, Garbled)) => RevisionOf(primary) <= d.rev
         PROVE  Ordered'
    <2>1. current'.rev = d.rev /\ d.rev \in Nat
      BY <1>16, LoadedDocument DEF Start, Construct, Document
    <2>2. persisted' \in {d.rev, None} /\ primary' = primary /\ pc' = pc /\ ~up
      BY <1>16 DEF Start, taskVars
    <2>a. ~misread' => u = 0 \/ HasPart(primary, Garbled)
      <3>1. misread' = (u > 0 /\ ~HasPart(primary, Garbled))
        BY <1>16 DEF Start
      <3>2. u > 0 \/ u = 0
        OBVIOUS
      <3>3. QED
        BY <3>1, <3>2, Zenon
    <2>3. \A t \in Tasks : pc'[t] = "idle"
      BY <2>2 DEF Typed, Discipline
    <2>4. QED
      BY <1>0, <1>16, <2>1, <2>2, <2>a, <2>3
  <1>17. ASSUME StartFromPrimary PROVE Ordered'
    <2>1. PICK d \in Repaired(primary) : Start(d, ~primary.old, primary.old, 0)
      BY <1>17 DEF StartFromPrimary
    <2>2. primary \in File /\ primary.doc \in Document
      BY <1>17 DEF StartFromPrimary, Readable, Typed, TypeOK, Optional
    <2>3. primary.old \in BOOLEAN /\ (~primary.old) \in BOOLEAN /\ 0 \in Nat
      BY <2>2 DEF File
    <2>4. d \in Document /\ d.rev = primary.doc.rev
      BY <2>1, <2>2, RepairedFile
    <2>5. RevisionOf(primary) <= d.rev
      BY <1>0, <2>2, <2>4, RevisionOfDocument DEF Document
    <2>6. QED
      BY <1>16, <2>1, <2>3, <2>4, <2>5, Zenon
  <1>18. ASSUME StartFromBackup PROVE Ordered'
    <2>1. PICK d \in Repaired(backup), u \in PassedOver(primary) : Start(d, FALSE, TRUE, u)
      BY <1>18 DEF StartFromBackup
    <2>2. backup \in File /\ backup.doc \in Document
      BY <1>18 DEF StartFromBackup, Readable, Typed, TypeOK, Optional
    <2>3. d \in Document /\ u \in Nat /\ (u = 0 => HasPart(primary, Garbled))
      BY <2>1, <2>2, RepairedFile DEF PassedOver
    <2>4. HasPart(primary, Garbled) => RevisionOf(primary) = 0
      BY RevisionOfNothing DEF HasPart, Readable
    <2>5. u = 0 \/ HasPart(primary, Garbled) => RevisionOf(primary) <= d.rev
      BY <2>3, <2>4 DEF Document
    <2>6. QED
      BY <1>16, <2>1, <2>3, <2>5
  <1>19. ASSUME StartEmpty \/ StartFromDefaults PROVE Ordered'
    <2>1. HasPart(primary, Garbled) \/ primary = None => RevisionOf(primary) <= EmptyDocument.rev
      BY RevisionOfNothing, EmptyIsADocument DEF HasPart, Readable
    <2>2. PICK r \in BOOLEAN, u \in Nat :
            /\ Start(EmptyDocument, FALSE, r, u)
            /\ u = 0 => HasPart(primary, Garbled) \/ primary = None
      <3>1. CASE StartEmpty
        BY <3>1 DEF StartEmpty
      <3>2. CASE StartFromDefaults
        <4>1. PICK first \in PassedOver(primary), second \in {0, 1} :
                Start(EmptyDocument, FALSE, TRUE, first + second)
          BY <3>2 DEF StartFromDefaults, PassedOver
        <4>2. first + second \in Nat /\ (first + second = 0 => HasPart(primary, Garbled))
          BY <4>1 DEF PassedOver
        <4>3. QED
          BY <4>1, <4>2, Zenon
      <3>3. QED
        BY <1>19, <3>1, <3>2
    <2>3. EmptyDocument \in Document /\ FALSE \in BOOLEAN
      BY EmptyIsADocument
    <2>4. QED
      BY <1>16, <2>1, <2>2, <2>3
  <1>20. ASSUME UNCHANGED vars PROVE Ordered'
    BY <1>20 DEF vars, docVars, writerVars, fileVars, taskVars
  <1>21. QED
    BY <1>1, <1>2, <1>3, <1>4, <1>5, <1>6, <1>7, <1>8, <1>9, <1>10, <1>11, <1>12, <1>14, <1>15,
       <1>17, <1>18, <1>19, <1>20
       DEF Next, FlushStep, Idle

(* state.json only ever goes forward while the daemon runs, however the    *)
(* executor schedules the saves: persist's check against                   *)
(* persisted_revision is enough, also for the first save after a start.    *)
THEOREM DiskGoesForward == Spec => DiskNeverGoesBack
  <1>1. Spec => []IInv
    <2>1. Init => IInv
      BY TypedInit, OrderedInit DEF IInv
    <2>2. IInv /\ [Next]_vars => IInv'
      BY TypedStep, OrderedStep DEF IInv
    <2>3. QED
      BY <2>1, <2>2, PTL DEF Spec
  <1>2. IInv /\ [Next]_vars => [DiskAdvances]_vars
    <2> SUFFICES ASSUME IInv, [Next]_vars, up, up', ~misread, primary' # primary
                 PROVE  RevisionOf(primary') > RevisionOf(primary)
      BY DEF DiskAdvances
    <2> USE DEF IInv, Typed, TypeOK, Discipline, Optional
    <2>1. ASSUME NEW t \in Tasks, Rename(t) PROVE RevisionOf(primary') > RevisionOf(primary)
      <3>1. temp \in File /\ temp.doc = held[t] /\ held[t] \in Document
        BY <2>1 DEF Rename, Ordered, Holding, Writing, Persisting
      <3>2. RevisionOf(primary') = held[t].rev
        BY <2>1, <3>1, RevisionOfDocument DEF Rename
      <3>3. RevisionOf(primary) < held[t].rev
        BY <2>1 DEF Rename, Ordered, Writing, Persisting
      <3>4. held[t].rev \in Nat /\ RevisionOf(primary) \in Nat
        BY <3>1, RevisionIsNat DEF Document
      <3>5. QED
        BY <3>2, <3>3, <3>4
    <2>2. PICK t \in Tasks : Rename(t)
      BY DEF Next, FlushStep, Stage, CopyOut, LockWriter, WriteTemp, SyncTemp, OpenBackup,
             FillBackup, Saved, SaveFails, Answer, TryOut, Revert, Idle, Killed, PowerCut, Dies,
             Damage, MoveAside, StartFromPrimary, StartEmpty, StartFromBackup,
             StartFromDefaults, Start, vars, fileVars
    <2>3. QED
      BY <2>1, <2>2
  <1>3. QED
    BY <1>1, <1>2, PTL DEF Spec, DiskNeverGoesBack

----------------------------------------------------------------------------
(* The working copy.                                                       *)

(* Every step leaves the working copy as it is, discards it, or makes one  *)
(* from the saved document of that moment.                                 *)
LEMMA HonestStep == Typed /\ WorkingCopyIsHonest /\ [Next]_vars => WorkingCopyIsHonest'
  <1> SUFFICES ASSUME Typed, WorkingCopyIsHonest, [Next]_vars PROVE WorkingCopyIsHonest'
    OBVIOUS
  <1> USE DEF WorkingCopyIsHonest, OnlyTemporaryDiffers
  <1>1. ASSUME UNCHANGED <<current, preview>> PROVE WorkingCopyIsHonest'
    BY <1>1
  <1>2. ASSUME preview' = None PROVE WorkingCopyIsHonest'
    BY <1>2
  <1>3. ASSUME NEW t \in Tasks, Stage(t) PROVE WorkingCopyIsHonest'
    BY <1>2, <1>3 DEF Stage, StageReplace
  <1>4. ASSUME NEW t \in Tasks, FlushStep(t) \/ SaveFails(t) PROVE WorkingCopyIsHonest'
    BY <1>1, <1>4 DEF FlushStep, CopyOut, LockWriter, WriteTemp, SyncTemp, OpenBackup, FillBackup,
                      Rename, Saved, Answer, SaveFails, docVars
  <1>5. ASSUME TryOut PROVE WorkingCopyIsHonest'
    <2>1. PICK next \in Document : SetPreview(Unconditional, next)
      <3>1. PICK c \in Contents, b \in BOOLEAN :
              SetPreview(Unconditional, [Effective EXCEPT !.content = c, !.temporary = b])
        BY <1>5 DEF TryOut
      <3>2. Effective \in Document
        BY DEF Effective, Typed, TypeOK, DocTypeOK
      <3>3. [Effective EXCEPT !.content = c, !.temporary = b] \in Document
        BY <3>2, DocumentEdits, Zenon
      <3>4. QED
        BY <3>1, <3>3, Zenon
    <2>2. /\ current' = current
          /\ preview' = [next EXCEPT !.rev = current.rev,
                                     !.committed = (next.content = current.content)]
      BY <2>1 DEF SetPreview
    <2>3. /\ preview'.rev = current.rev
          /\ preview'.content = next.content
          /\ preview'.committed = (next.content = current.content)
      BY <2>2 DEF Document
    <2>4. QED
      BY <2>2, <2>3
  <1>6. ASSUME Revert PROVE WorkingCopyIsHonest'
    BY <1>2, <1>6 DEF Revert, ClearPreview
  <1>7. ASSUME Killed \/ PowerCut PROVE WorkingCopyIsHonest'
    BY <1>2, <1>7 DEF Killed, PowerCut, Dies
  <1>8. ASSUME Damage \/ MoveAside \/ Idle \/ UNCHANGED vars PROVE WorkingCopyIsHonest'
    BY <1>1, <1>8 DEF Damage, MoveAside, Idle, vars, docVars
  <1>9. ASSUME StartFromPrimary \/ StartEmpty \/ StartFromBackup \/ StartFromDefaults
        PROVE  WorkingCopyIsHonest'
    BY <1>2, <1>9 DEF StartFromPrimary, StartEmpty, StartFromBackup, StartFromDefaults, Start,
                      Construct
  <1>10. QED
    BY <1>3, <1>4, <1>5, <1>6, <1>7, <1>8, <1>9 DEF Next

(* Whatever is saved, reverted, restarted or repaired meanwhile, a working *)
(* copy reads back with the revision it shadows and a true committed flag  *)
(* (set_preview, stage_replace_if, clear_preview_if).                      *)
THEOREM PreviewIsHonest == Spec => []WorkingCopyIsHonest
  <1>1. Init => WorkingCopyIsHonest
    BY DEF Init, WorkingCopyIsHonest
  <1>2. QED
    BY <1>1, TypedInit, TypedStep, HonestStep, PTL DEF Spec

----------------------------------------------------------------------------
(* What reaches the disk.                                                  *)

(* Memory and the saves under way hold committed documents without         *)
(* calibration aids, and the files whatever those were written from.       *)
CommittedOnly ==
    /\ up => current.committed /\ ~current.temporary
    /\ \A t \in Tasks : held[t] # None => held[t].committed /\ ~held[t].temporary
    /\ PreviewNeverSaved

(* A file that is absent or unusable holds no document to object to.       *)
LEMMA NothingSaved ==
    ASSUME NEW file, ~Readable(file)
    PROVE  SavedDocument(file)
  BY DEF SavedDocument

(* Only the document in a file matters here.                               *)
LEMMA SameDocumentSaved ==
    ASSUME NEW f \in File, NEW g \in File, f.doc = g.doc, SavedDocument(f)
    PROVE  SavedDocument(g)
  BY StoreAssumption DEF SavedDocument, Readable

(* Truncated files hold no document.                                       *)
LEMMA UnreadableSaved ==
    SavedDocument(Unreadable) /\ SavedDocument([Unreadable EXCEPT !.synced = TRUE])
  BY UnreadableIsAFile, StoreAssumption DEF SavedDocument, Readable

(* Every step keeps previews and calibration aids out of the saves.        *)
LEMMA CommittedStep == Typed /\ CommittedOnly /\ [Next]_vars => CommittedOnly'
  <1> SUFFICES ASSUME Typed, CommittedOnly, [Next]_vars PROVE CommittedOnly'
    OBVIOUS
  <1> USE StoreAssumption
  <1> USE DEF CommittedOnly, PreviewNeverSaved
  <1>0. /\ primary \in Optional(File) /\ backup \in Optional(File)
        /\ temp \in Optional(File) /\ journal \in Optional(File)
        /\ current \in Document /\ held \in [Tasks -> Optional(Document)]
    BY DEF Typed, TypeOK, DocTypeOK
  <1>1. ASSUME NEW t \in Tasks, Stage(t) PROVE CommittedOnly'
    <2>1. PICK c \in Contents :
            StageReplace(Unconditional, [Effective EXCEPT !.content = c, !.temporary = FALSE])
      BY <1>1 DEF Stage
    <2>2. Effective \in Document
      BY DEF Effective, Typed, TypeOK, DocTypeOK, Optional
    <2>3. current'.committed /\ ~current'.temporary
      BY <2>1, <2>2 DEF StageReplace, Document
    <2>4. QED
      BY <1>1, <2>3 DEF Stage, fileVars, SavedDocument, Readable
  <1>2. ASSUME NEW t \in Tasks, CopyOut(t) PROVE CommittedOnly'
    <2>1. up
      BY <1>2 DEF CopyOut, Typed, Discipline
    <2>2. QED
      BY <1>0, <1>2, <2>1 DEF CopyOut, docVars, fileVars, SavedDocument, Readable
  <1>3. ASSUME NEW t \in Tasks, LockWriter(t) PROVE CommittedOnly'
    BY <1>3 DEF LockWriter, docVars, fileVars, SavedDocument, Readable
  <1>4. ASSUME NEW t \in Tasks, WriteTemp(t) PROVE CommittedOnly'
    <2>1. held[t] # None /\ held[t] \in Document
      BY <1>0, <1>4 DEF WriteTemp, Typed, Discipline, Holding, Persisting, Optional
    <2>2. SavedDocument(temp')
      BY <1>4, <2>1 DEF WriteTemp, SavedDocument
    <2>3. QED
      BY <1>4, <2>2 DEF WriteTemp, docVars, SavedDocument, Readable
  <1>5. ASSUME NEW t \in Tasks, SyncTemp(t) PROVE CommittedOnly'
    <2>1. temp \in File
      BY <1>0, <1>5 DEF SyncTemp, Typed, Discipline, Writing, Persisting, Optional
    <2>2. SavedDocument(temp')
      BY <1>5, <2>1, FileEdits, SameDocumentSaved DEF SyncTemp
    <2>3. QED
      BY <1>5, <2>2 DEF SyncTemp, docVars, SavedDocument, Readable
  <1>6. ASSUME NEW t \in Tasks, OpenBackup(t) PROVE CommittedOnly'
    BY <1>6, UnreadableSaved DEF OpenBackup, docVars, SavedDocument, Readable
  <1>7. ASSUME NEW t \in Tasks, FillBackup(t) PROVE CommittedOnly'
    <2>1. primary \in File
      BY <1>0, <1>7 DEF FillBackup, Typed, Discipline, Optional
    <2>2. SavedDocument(backup')
      BY <1>7, <2>1, FileEdits, SameDocumentSaved DEF FillBackup
    <2>3. QED
      BY <1>7, <2>2 DEF FillBackup, docVars, SavedDocument, Readable
  <1>8. ASSUME NEW t \in Tasks, Rename(t) PROVE CommittedOnly'
    BY <1>8 DEF Rename, docVars, SavedDocument, Readable
  <1>9. ASSUME NEW t \in Tasks, Saved(t) PROVE CommittedOnly'
    BY <1>9 DEF Saved, SyncDirectory, docVars, SavedDocument, Readable
  <1>10. ASSUME NEW t \in Tasks, Answer(t) \/ SaveFails(t) PROVE CommittedOnly'
    BY <1>0, <1>10 DEF Answer, SaveFails, docVars, fileVars, SavedDocument, Readable
  <1>11. ASSUME TryOut \/ Revert PROVE CommittedOnly'
    BY <1>11 DEF TryOut, Revert, SetPreview, ClearPreview, fileVars, taskVars, SavedDocument,
                 Readable
  <1>12. ASSUME Dies, SavedDocument(primary'), SavedDocument(journal'), SavedDocument(backup')
         PROVE  CommittedOnly'
    BY <1>12 DEF Dies, SavedDocument, Readable
  <1>13. ASSUME Killed PROVE CommittedOnly'
    BY <1>12, <1>13 DEF Killed, SavedDocument, Readable
  <1>14. ASSUME PowerCut PROVE CommittedOnly'
    <2>1. ASSUME NEW file \in Optional(File), SavedDocument(file)
          PROVE  \A f \in AfterPowerCut(file) : SavedDocument(f)
      <3>1. CASE file = None
        BY <2>1, <3>1 DEF AfterPowerCut
      <3>2. CASE file \in File
        BY <2>1, <3>2, FileEdits, SameDocumentSaved, UnreadableSaved DEF AfterPowerCut
      <3>3. QED
        BY <3>1, <3>2 DEF Optional
    <2>2. SavedDocument(primary') /\ journal' = primary' /\ SavedDocument(backup')
      BY <1>0, <1>14, <2>1 DEF PowerCut
    <2>3. QED
      BY <1>12, <1>14, <2>2 DEF PowerCut
  <1>15. ASSUME Damage PROVE CommittedOnly'
    BY <1>15, UnreadableSaved DEF Damage, docVars, taskVars, SavedDocument, Readable
  <1>16. ASSUME MoveAside PROVE CommittedOnly'
    BY <1>16, NothingSaved DEF MoveAside, docVars, taskVars, SavedDocument, Readable
  <1>17. ASSUME NEW d \in Document, NEW v, NEW r, NEW u, Start(d, v, r, u), ~d.temporary
         PROVE  CommittedOnly'
    <2>1. current'.committed /\ ~current'.temporary
      BY <1>17 DEF Start, Construct, Document
    <2>2. QED
      BY <1>17, <2>1 DEF Start, taskVars, SavedDocument, Readable
  <1>18. ASSUME NEW file \in Optional(File), Readable(file), SavedDocument(file)
         PROVE  \A d \in Repaired(file) : d \in Document /\ ~d.temporary
    <2>1. file \in File /\ file.doc \in Document /\ ~file.doc.temporary
      BY <1>18 DEF Readable, SavedDocument, Optional
    <2>2. \A d \in Repaired(file) : d \in Document
      BY <2>1, RepairedFile
    <2>3. \A c : ([file.doc EXCEPT !.content = c]).temporary = file.doc.temporary
      BY <2>1 DEF Document
    <2>4. QED
      BY <2>1, <2>2, <2>3 DEF Repaired
  <1>19. ASSUME StartFromPrimary \/ StartFromBackup PROVE CommittedOnly'
    BY <1>0, <1>17, <1>18, <1>19 DEF StartFromPrimary, StartFromBackup
  <1>20. ASSUME StartEmpty \/ StartFromDefaults PROVE CommittedOnly'
    <2>1. EmptyDocument \in Document /\ ~EmptyDocument.temporary
      BY EmptyIsADocument DEF EmptyDocument
    <2>2. QED
      BY <1>17, <1>20, <2>1 DEF StartEmpty, StartFromDefaults
  <1>21. ASSUME UNCHANGED vars PROVE CommittedOnly'
    BY <1>21 DEF vars, docVars, fileVars, taskVars, SavedDocument, Readable
  <1>22. QED
    BY <1>1, <1>2, <1>3, <1>4, <1>5, <1>6, <1>7, <1>8, <1>9, <1>10, <1>11, <1>13, <1>14, <1>15,
       <1>16, <1>19, <1>20, <1>21
       DEF Next, FlushStep, Idle

(* No file the daemon reads or leaves behind ever holds a working copy or  *)
(* a calibration aid, however previews, saves, failures and restarts       *)
(* interleave (commit_if resets the section, flush copies `current` only). *)
THEOREM PreviewStaysInMemory == Spec => []PreviewNeverSaved
  <1>1. Init => CommittedOnly
    BY DiskAssumption, NothingSaved DEF Init, CommittedOnly, PreviewNeverSaved, Readable
  <1>2. CommittedOnly => PreviewNeverSaved
    BY DEF CommittedOnly
  <1>3. QED
    BY <1>1, <1>2, TypedInit, TypedStep, CommittedStep, PTL DEF Spec

----------------------------------------------------------------------------
(* A document of a later schema.                                           *)

(* While state.json is one this build cannot read the daemon stays down:   *)
(* load refuses it, and only an operator moves it aside; unless the read   *)
(* of it failed.                                                           *)
DownBesideNewer == HasPart(primary, Newer) => ~up \/ misread

(* Every start reads state.json as something else, and every save replaces *)
(* it by a document.                                                       *)
LEMMA DownStep == Typed /\ Ordered /\ DownBesideNewer /\ [Next]_vars => DownBesideNewer'
  <1> SUFFICES ASSUME Typed, Ordered, DownBesideNewer, [Next]_vars, up', ~misread'
               PROVE  ~HasPart(primary, Newer)'
    BY DEF DownBesideNewer
  <1> USE StoreAssumption DEF HasPart, DownBesideNewer
  <1>1. CASE up /\ primary' = primary
    <2>1. CASE ~misread
      BY <1>1, <2>1
    <2>2. CASE misread
      <3>1. PICK t \in Tasks : Rename(t)
        BY <1>1, <2>2 DEF Next, FlushStep, Stage, CopyOut, LockWriter, WriteTemp, SyncTemp,
                    OpenBackup, FillBackup, Saved, SaveFails, Answer, TryOut, Revert, Idle, Killed,
                    PowerCut, Dies, Damage, MoveAside, StartFromPrimary, StartEmpty,
                    StartFromBackup, StartFromDefaults, Start, vars, losses, history
      <3>2. temp \in File /\ temp.doc = held[t] /\ held[t] \in Document
        BY <3>1 DEF Rename, Ordered, Holding, Writing, Persisting, Typed, TypeOK, Discipline,
                    Optional
      <3>3. QED
        BY <3>1, <3>2 DEF Rename
    <2>3. QED
      BY <2>1, <2>2
  <1>2. CASE ~up /\ primary' = primary
    <2>1. StartFromPrimary \/ StartEmpty \/ StartFromBackup \/ StartFromDefaults
      BY <1>2 DEF Next, FlushStep, Stage, CopyOut, LockWriter, WriteTemp, SyncTemp, OpenBackup,
                  FillBackup, Rename, Saved, SaveFails, Answer, TryOut, Revert, Idle, Killed,
                  PowerCut, Dies, Damage, MoveAside, vars, Typed, Discipline, Persisting
    <2>2. CASE StartFromPrimary \/ StartEmpty
      BY <1>2, <2>2 DEF StartFromPrimary, StartEmpty, Readable
    <2>3. CASE StartFromBackup
      <3>1. PICK d \in Repaired(backup), u \in PassedOver(primary) : Start(d, FALSE, TRUE, u)
        BY <2>3 DEF StartFromBackup
      <3>2. HasPart(primary, Newer) => u > 0
        BY <3>1 DEF PassedOver
      <3>3. QED
        BY <1>2, <3>1, <3>2 DEF Start
    <2>4. CASE StartFromDefaults
      <3>1. PICK first \in PassedOver(primary), second \in {0, 1} :
              Start(EmptyDocument, FALSE, TRUE, first + second)
        BY <2>4 DEF StartFromDefaults, PassedOver
      <3>2. HasPart(primary, Newer) => first + second > 0
        BY <3>1 DEF PassedOver
      <3>3. QED
        BY <1>2, <3>1, <3>2 DEF Start
    <2>5. QED
      BY <2>1, <2>2, <2>3, <2>4
  <1>3. CASE primary' # primary
    <2>1. PICK t \in Tasks : Rename(t)
      BY <1>3 DEF Next, FlushStep, Stage, CopyOut, LockWriter, WriteTemp, SyncTemp, OpenBackup,
                  FillBackup, Saved, SaveFails, Answer, TryOut, Revert, Idle, Killed, PowerCut,
                  Dies, Damage, MoveAside, StartFromPrimary, StartEmpty, StartFromBackup,
                  StartFromDefaults, Start, vars, fileVars
    <2>2. temp \in File /\ temp.doc = held[t] /\ held[t] \in Document
      BY <2>1 DEF Rename, Ordered, Holding, Writing, Persisting, Typed, TypeOK, Discipline, Optional
    <2>3. QED
      BY <2>1, <2>2 DEF Rename
  <1>4. QED
    BY <1>1, <1>2, <1>3

(* A document written by a later build is never overwritten, neither by a  *)
(* default nor by a recovered one: load refuses to start beside it, if it  *)
(* can read it.                                                            *)
THEOREM NewerIsKept == Spec => NewerNeverOverwritten
  <1>1. Init => DownBesideNewer
    BY DEF Init, DownBesideNewer
  <1>2. Typed /\ DownBesideNewer /\ [Next]_vars => [NewerKept]_vars
    <2> SUFFICES ASSUME Typed, DownBesideNewer, [Next]_vars, HasPart(primary, Newer), ~misread,
                        primary' # primary
                 PROVE  primary' = None /\ ~up'
      BY DEF NewerKept
    <2>1. ~up /\ ~Readable(primary)
      BY StoreAssumption DEF DownBesideNewer, HasPart, Readable
    <2>2. MoveAside
      BY <2>1 DEF Next, FlushStep, Stage, CopyOut, LockWriter, WriteTemp, SyncTemp, OpenBackup,
                  FillBackup, Rename, Saved, SaveFails, Answer, TryOut, Revert, Idle, Killed,
                  PowerCut, Dies, Damage, StartFromPrimary, StartEmpty, StartFromBackup,
                  StartFromDefaults, Start, vars, fileVars, Typed, Discipline, Persisting
    <2>3. QED
      BY <2>1, <2>2 DEF MoveAside
  <1>3. QED
    BY <1>1, <1>2, TypedInit, TypedStep, OrderedInit, OrderedStep, DownStep, PTL
       DEF Spec, NewerNeverOverwritten

----------------------------------------------------------------------------
(* Acknowledged saves.                                                     *)

(* What a client was told is saved is in state.json, and in the entry of   *)
(* the directory that a power cut would leave, each with its data synced;  *)
(* in the entry only if the last directory sync did not fail.  The entry   *)
(* lags between a rename and the sync that follows it, also when a kill    *)
(* falls between them; persisted may then be ahead of it, but only of      *)
(* requests that were made before the start that booked it.                *)
Kept ==
    /\ OnDisk(primary) /\ OnDisk(journal)
    /\ up /\ persisted # None => persisted <= RevisionOf(primary)
    /\ \A t \in Tasks :
         /\ pc[t] \in {"backup", "copying", "rename"} => temp.synced
         /\ pc[t] # "idle" /\ persisted # None /\ ~unsynced =>
              asked[t] > persisted \/ persisted <= RevisionOf(journal)
         /\ pc[t] = "ok" /\ ~damaged =>
              /\ asked[t] <= RevisionOf(primary)
              /\ ~unsynced => asked[t] <= RevisionOf(journal)
    /\ ~damaged =>
         /\ acked <= RevisionOf(primary)
         /\ ~unsynced => acked <= RevisionOf(journal)

(* Nothing was acknowledged but what the first disk held.                  *)
LEMMA KeptInit == Init => Kept
  <1> SUFFICES ASSUME Init PROVE Kept
    OBVIOUS
  <1>1. PICK disk \in InitialDisks :
          /\ primary = disk.primary /\ journal = disk.primary
          /\ acked = Recoverable(disk.primary, disk.backup)
          /\ damaged = (HasPart(disk.primary, Garbled) \/ HasPart(disk.backup, Garbled))
    BY DEF Init
  <1>2. RevisionOf(primary) \in Nat
    BY <1>1, StoreAssumption, RevisionIsNat
  <1>3. ~damaged => acked = RevisionOf(primary)
    BY <1>1 DEF Recoverable
  <1>4. OnDisk(primary) /\ journal = primary
    BY <1>1, DiskAssumption
  <1>5. QED
    BY <1>2, <1>3, <1>4 DEF Init, Kept

(* A synced file is not changed by a power cut.                            *)
LEMMA SyncedFilesStay ==
    ASSUME NEW file \in Optional(File), OnDisk(file)
    PROVE  AfterPowerCut(file) = {file}
  <1>1. CASE file = None
    BY <1>1 DEF AfterPowerCut
  <1>2. CASE file \in File /\ file # None
    <2>1. file.synced /\ [file EXCEPT !.synced = TRUE] = file
      BY <1>2 DEF OnDisk, File
    <2>2. QED
      BY <1>2, <2>1 DEF AfterPowerCut
  <1>3. QED
    BY <1>1, <1>2 DEF Optional

(* Every step keeps what was acknowledged in the files.                    *)
LEMMA KeptStep == IInv /\ Kept /\ [Next]_vars => Kept'
  <1> SUFFICES ASSUME IInv, Kept, [Next]_vars PROVE Kept'
    OBVIOUS
  <1> USE StoreAssumption, ContentsAssumption
  <1>a. /\ RevisionOf(primary) \in Nat /\ RevisionOf(journal) \in Nat /\ RevisionOf(temp) \in Nat
        /\ current.rev \in Nat /\ persisted \in Optional(Nat) /\ acked \in Nat
        /\ \A t \in Tasks : asked[t] \in Nat /\ (held[t] # None => held[t].rev \in Nat)
    BY RevisionIsNat DEF IInv, Typed, TypeOK, DocTypeOK, Document, Optional
  <1>b. /\ pc \in [Tasks -> Steps] /\ held \in [Tasks -> Optional(Document)]
        /\ asked \in [Tasks -> Nat] /\ temp \in Optional(File)
        /\ primary \in Optional(File) /\ journal \in Optional(File) /\ None \notin Nat
    BY DEF IInv, Typed, TypeOK
  <1>c. Typed /\ Ordered
    BY DEF IInv
  <1>d. /\ misread => persisted = None
        /\ \A t \in Tasks : misread => pc[t] \notin {"syncdir", "ok"}
    BY <1>c DEF Typed, Discipline
  <1> USE DEF Kept, Holding, Writing, Persisting, losses, history
  <1>1. ASSUME NEW t \in Tasks, Stage(t) PROVE Kept'
    <2>1. persisted # None => persisted < current.rev + 1
      BY <1>1, <1>a, <1>c, <1>d DEF Stage, Ordered, Optional
    <2>2. QED
      BY <1>1, <1>a, <1>b, <2>1 DEF Stage, fileVars, writerVars
  <1>2. ASSUME NEW t \in Tasks, CopyOut(t) PROVE Kept'
    BY <1>2, <1>b DEF CopyOut, Goto, docVars, writerVars, fileVars
  <1>3. ASSUME NEW t \in Tasks, LockWriter(t) PROVE Kept'
    <2>1. held[t] # None /\ asked[t] <= held[t].rev /\ up /\ pc[t] # "idle"
      BY <1>3, <1>c DEF LockWriter, Typed, Discipline, Ordered
    <2>2. AlreadyOnDisk(t) => /\ asked[t] <= RevisionOf(primary)
                              /\ ~unsynced => asked[t] <= RevisionOf(journal)
      <3> SUFFICES ASSUME AlreadyOnDisk(t)
                   PROVE  /\ asked[t] <= RevisionOf(primary)
                          /\ ~unsynced => asked[t] <= RevisionOf(journal)
        OBVIOUS
      <3>1. /\ persisted \in Nat /\ asked[t] \in Nat /\ held[t].rev \in Nat
            /\ persisted # None /\ held[t].rev <= persisted
        BY <1>a, <1>b, <2>1 DEF AlreadyOnDisk, Optional
      <3>2. persisted <= RevisionOf(primary)
        BY <2>1, <3>1
      <3>3. ~unsynced => asked[t] > persisted \/ persisted <= RevisionOf(journal)
        BY <2>1, <3>1
      <3>4. QED
        BY <1>a, <2>1, <3>1, <3>2, <3>3
    <2>3. QED
      BY <1>3, <1>b, <2>2 DEF LockWriter, Goto, docVars, fileVars
  <1>4. ASSUME NEW t \in Tasks, WriteTemp(t) PROVE Kept'
    <2>1. \A u \in Tasks : u # t => pc[u] \notin {"backup", "copying", "rename"}
      BY <1>4, <1>c DEF WriteTemp, Typed, Discipline
    <2>2. QED
      BY <1>4, <1>b, <2>1 DEF WriteTemp, Goto, docVars, writerVars
  <1>5. ASSUME NEW t \in Tasks, SyncTemp(t) PROVE Kept'
    <2>1. temp'.synced
      BY <1>5, <1>b, <1>c DEF SyncTemp, Typed, Discipline, Optional, File
    <2>2. QED
      BY <1>5, <1>b, <2>1 DEF SyncTemp, Goto, docVars, writerVars
  <1>6. ASSUME NEW t \in Tasks, OpenBackup(t) \/ FillBackup(t) PROVE Kept'
    BY <1>6, <1>b DEF OpenBackup, FillBackup, Goto, docVars, writerVars
  <1>7. ASSUME NEW t \in Tasks, Rename(t) PROVE Kept'
    <2>1. temp \in File /\ temp.doc = held[t] /\ held[t] \in Document /\ temp.synced
      BY <1>7, <1>b, <1>c DEF Rename, Typed, Discipline, Ordered, Optional
    <2>2. RevisionOf(primary') = held[t].rev /\ OnDisk(primary')
      BY <1>7, <2>1, RevisionOfDocument DEF Rename, OnDisk
    <2>3. RevisionOf(primary') \in Nat /\ (~misread => RevisionOf(primary) < RevisionOf(primary'))
      BY <1>7, <1>c, <2>1, <2>2 DEF Rename, Ordered, Document
    <2>4. \A u \in Tasks : u # t => pc[u] \notin {"backup", "copying", "rename"}
      BY <1>7, <1>c DEF Rename, Typed, Discipline
    <2>5. \A u \in Tasks : pc'[u] = "ok" => pc[u] = "ok" /\ ~misread
      BY <1>7, <1>b, <1>d DEF Rename, Goto
    <2>6. ~damaged => /\ acked' <= RevisionOf(primary')
                      /\ ~unsynced => acked' <= RevisionOf(journal)
      BY <1>7, <1>a, <2>3 DEF Rename
    <2>7. /\ persisted # None => persisted <= RevisionOf(primary')
          /\ \A u \in Tasks : pc'[u] = "ok" /\ ~damaged => asked[u] <= RevisionOf(primary')
      BY <1>7, <1>a, <1>c, <1>d, <2>3, <2>5 DEF Rename, Optional, Typed, Discipline
    <2>8. UNCHANGED <<journal, unsynced, damaged, asked, persisted>>
      BY <1>7 DEF Rename, writerVars
    <2>9. \A u \in Tasks :
            /\ pc'[u] \notin {"backup", "copying", "rename"}
            /\ pc'[u] # "idle" => pc[u] # "idle"
      BY <1>7, <1>b, <2>4 DEF Rename, Goto
    <2>10. QED
      BY <2>2, <2>5, <2>6, <2>7, <2>8, <2>9
  <1>8. ASSUME NEW t \in Tasks, Saved(t) PROVE Kept'
    <2>1. RevisionOf(primary) = held[t].rev /\ asked[t] <= RevisionOf(primary)
      BY <1>8, <1>c DEF Saved, Ordered
    <2>2. /\ ~damaged => acked <= RevisionOf(primary)
          /\ \A u \in Tasks : pc[u] = "ok" /\ ~damaged => asked[u] <= RevisionOf(primary)
      OBVIOUS
    <2>3. /\ journal' \in {journal, primary} /\ (~unsynced' => journal' = primary)
          /\ persisted' = RevisionOf(primary)
          /\ UNCHANGED <<primary, asked, acked, damaged>>
      BY <1>8, <2>1 DEF Saved, SyncDirectory
    <2>4. \A u \in Tasks :
            /\ pc'[u] \in {"backup", "copying", "rename"} => temp'.synced
            /\ pc'[u] = "ok" => u = t \/ pc[u] = "ok"
      BY <1>8, <1>b DEF Saved, Goto
    <2>5. QED
      BY <1>a, <2>1, <2>2, <2>3, <2>4
  <1>9. ASSUME NEW t \in Tasks, Answer(t) PROVE Kept'
    BY <1>9, <1>b DEF Answer, Goto, docVars, writerVars, fileVars
  <1>10. ASSUME NEW t \in Tasks, SaveFails(t) PROVE Kept'
    BY <1>10, <1>b DEF SaveFails, Goto, docVars, fileVars
  <1>11. ASSUME TryOut \/ Revert PROVE Kept'
    <2>1. UNCHANGED <<up, writerVars, fileVars, taskVars, history>>
      BY <1>11 DEF TryOut, Revert
    <2>2. QED
      BY <2>1 DEF writerVars, fileVars, taskVars
  <1>12. ASSUME Killed PROVE Kept'
    BY <1>12 DEF Killed, Dies, history
  <1>13. ASSUME PowerCut PROVE Kept'
    <2>1. PICK entry \in {primary, journal} :
            /\ primary' \in AfterPowerCut(entry)
            /\ acked' = IF unsynced /\ entry = journal /\ RevisionOf(journal) < acked
                          THEN RevisionOf(journal) ELSE acked
      BY <1>13 DEF PowerCut
    <2>2. primary' = entry /\ journal' = entry
      BY <1>13, <1>b, <2>1, SyncedFilesStay DEF PowerCut
    <2>3. OnDisk(primary') /\ OnDisk(journal') /\ RevisionOf(entry) \in Nat
      BY <1>a, <2>2
    <2>4. ~damaged => acked' <= RevisionOf(entry)
      BY <1>a, <2>1
    <2>5. ~up' /\ damaged' = damaged /\ \A u \in Tasks : pc'[u] = "idle"
      BY <1>13 DEF PowerCut, Dies
    <2>6. QED
      BY <2>2, <2>3, <2>4, <2>5
  <1>14. ASSUME Damage PROVE Kept'
    <2>1. OnDisk(primary') /\ OnDisk(journal')
      BY <1>14 DEF Damage, OnDisk, Unreadable
    <2>2. RevisionOf(journal') = RevisionOf(primary') /\ RevisionOf(primary') \in Nat
      <3>1. primary' = journal' /\ primary' \in Optional(File)
        BY <1>14, UnreadableIsAFile DEF Damage, Optional
      <3>2. QED
        BY <3>1, RevisionIsNat
    <2>3. \A u \in Tasks : pc[u] = "idle"
      BY <1>14, <1>c DEF Damage, Typed, Discipline
    <2>4. QED
      BY <1>14, <2>1, <2>2, <2>3 DEF Damage, taskVars
  <1>15. ASSUME MoveAside PROVE Kept'
    <2>1. \A u \in Tasks : pc[u] = "idle"
      BY <1>15, <1>c DEF MoveAside, Typed, Discipline
    <2>2. CASE HasPart(primary, Newer)
      <3>1. RevisionOf(None) = 0 /\ RevisionOf(primary) = 0
        BY <2>2, RevisionOfNothing DEF HasPart, Readable
      <3>2. ~damaged => acked = 0
        BY <1>a, <3>1
      <3>a. UNCHANGED <<acked, damaged>>
        BY <1>15 DEF MoveAside
      <3>3. primary' = None /\ journal' = None
        BY <1>15, <2>2 DEF MoveAside
      <3>4. QED
        BY <1>15, <2>1, <3>1, <3>2, <3>a, <3>3 DEF MoveAside, OnDisk, taskVars
    <2>3. CASE ~HasPart(primary, Newer)
      BY <1>15, <2>1, <2>3 DEF MoveAside, taskVars
    <2>4. QED
      BY <2>2, <2>3
  <1>16. ASSUME NEW d, NEW v, NEW r, NEW u, Start(d, v, r, u), v => d.rev <= RevisionOf(primary)
         PROVE  Kept'
    <2>1. \A t \in Tasks : pc[t] = "idle"
      BY <1>16, <1>c DEF Start, Typed, Discipline
    <2>2. QED
      BY <1>16, <2>1 DEF Start, taskVars
  <1>17. ASSUME StartFromPrimary PROVE Kept'
    <2>1. PICK d \in Repaired(primary) : Start(d, ~primary.old, primary.old, 0)
      BY <1>17 DEF StartFromPrimary
    <2>2. primary \in File /\ primary.doc \in Document
      BY <1>17, <1>b DEF StartFromPrimary, Readable, Optional
    <2>3. d.rev = RevisionOf(primary)
      BY <2>1, <2>2, RepairedFile, RevisionOfDocument
    <2>4. QED
      BY <1>16, <1>a, <2>1, <2>3
  <1>18. ASSUME StartEmpty \/ StartFromBackup \/ StartFromDefaults PROVE Kept'
    BY <1>16, <1>18 DEF StartEmpty, StartFromBackup, StartFromDefaults
  <1>19. ASSUME UNCHANGED vars PROVE Kept'
    BY <1>19 DEF vars, docVars, writerVars, fileVars, taskVars
  <1>20. QED
    BY <1>1, <1>2, <1>3, <1>4, <1>5, <1>6, <1>7, <1>8, <1>9, <1>10, <1>11, <1>12, <1>13, <1>14,
       <1>15, <1>17, <1>18, <1>19
       DEF Next, FlushStep, Idle

(* A change that a client was told is saved is there after every kill and  *)
(* every power cut, whatever the other saves were doing at that moment,    *)
(* with two exceptions that `acked` records: a power cut after a save      *)
(* whose directory sync failed, which is booked all the same, and a save   *)
(* over a state.json that its start failed to read.  Flush answers only    *)
(* for what is booked, persist books only what it has written and fsynced, *)
(* and only under the writer.                                              *)
THEOREM SavesSurvive == Spec => []AcknowledgedSavesSurvive
  <1>1. IInv /\ Kept => AcknowledgedSavesSurvive
    <2>1. SUFFICES ASSUME IInv, Kept, up, ~damaged, ~misread PROVE current.rev >= acked
      BY DEF AcknowledgedSavesSurvive
    <2>2. acked <= RevisionOf(primary)
      BY <2>1 DEF Kept
    <2>3. RevisionOf(primary) <= current.rev
      BY <2>1 DEF IInv, Ordered
    <2>4. acked \in Nat /\ RevisionOf(primary) \in Nat /\ current.rev \in Nat
      BY <2>1, RevisionIsNat DEF IInv, Typed, TypeOK, DocTypeOK, Document
    <2>5. QED
      BY <2>2, <2>3, <2>4
  <1>2. Init => IInv /\ Kept
    BY TypedInit, OrderedInit, KeptInit DEF IInv
  <1>3. IInv /\ Kept /\ [Next]_vars => (IInv /\ Kept)'
    BY TypedStep, OrderedStep, KeptStep DEF IInv
  <1>4. QED
    BY <1>1, <1>2, <1>3, PTL DEF Spec
----------------------------------------------------------------------------
(* Repairs that are shown.                                                 *)

NobodySyncs == \A t \in Tasks : pc[t] # "syncdir"

(* A start that could not take state.json as it is has said so and has     *)
(* booked nothing as persisted; what a save puts in its place needs no     *)
(* repair, and is booked before anybody else gets the writer.              *)
Mended ==
    /\ \A t \in Tasks :
         /\ pc[t] \in Writing \ {"write"} => ~temp.old
         /\ pc[t] = "syncdir" => ~NeedsRepair(primary)
    /\ up /\ NobodySyncs =>
         IF persisted = None THEN repairs <=> (NeedsRepair(primary) \/ misread)
                             ELSE ~NeedsRepair(primary)

(* Every step keeps what is shown in accord with state.json.               *)
LEMMA MendedStep == IInv /\ Mended /\ [Next]_vars => Mended'
  <1> SUFFICES ASSUME IInv, Mended, [Next]_vars PROVE Mended'
    OBVIOUS
  <1> USE StoreAssumption, ContentsAssumption
  <1>a. Typed /\ Ordered
    BY DEF IInv
  <1>b. /\ pc \in [Tasks -> Steps] /\ held \in [Tasks -> Optional(Document)]
        /\ temp \in Optional(File) /\ primary \in Optional(File) /\ backup \in Optional(File)
    BY <1>a DEF Typed, TypeOK
  <1>c. \A t \in Tasks : /\ pc[t] \in Persisting => writer = t
                         /\ ~up => pc[t] = "idle"
                         /\ misread => pc[t] # "syncdir"
    BY <1>a DEF Typed, Discipline
  <1> USE DEF Mended, NobodySyncs, Holding, Writing, Persisting, losses, history
  <1>1. ASSUME UNCHANGED <<up, primary, persisted, repairs, temp, misread>>,
               \A t \in Tasks : pc'[t] = "syncdir" <=> pc[t] = "syncdir",
               \A t \in Tasks : pc'[t] \in Writing \ {"write"} => pc[t] \in Writing \ {"write"}
        PROVE  Mended'
    BY <1>1
  <1>2. ASSUME NEW t \in Tasks, Stage(t) \/ CopyOut(t) \/ Answer(t) PROVE Mended'
    BY <1>1, <1>2, <1>b DEF Stage, CopyOut, Answer, Goto, docVars, writerVars, fileVars
  <1>3. ASSUME NEW t \in Tasks, LockWriter(t) PROVE Mended'
    BY <1>1, <1>3, <1>b DEF LockWriter, Goto, docVars, fileVars
  <1>4. ASSUME NEW t \in Tasks, OpenBackup(t) \/ FillBackup(t) PROVE Mended'
    BY <1>1, <1>4, <1>b DEF OpenBackup, FillBackup, Goto, docVars, writerVars
  <1>5. ASSUME NEW t \in Tasks, SaveFails(t) PROVE Mended'
    BY <1>1, <1>5, <1>b DEF SaveFails, Goto, docVars, fileVars
  <1>6. ASSUME TryOut \/ Revert PROVE Mended'
    <2>1. UNCHANGED <<up, writerVars, repairs, fileVars, taskVars, misread>>
      BY <1>6 DEF TryOut, Revert
    <2>2. QED
      BY <1>1, <2>1 DEF writerVars, fileVars, taskVars
  <1>7. ASSUME NEW t \in Tasks, WriteTemp(t) PROVE Mended'
    <2>1. ~temp'.old
      BY <1>7 DEF WriteTemp
    <2>2. QED
      BY <1>7, <1>b, <2>1 DEF WriteTemp, Goto, writerVars
  <1>8. ASSUME NEW t \in Tasks, SyncTemp(t) PROVE Mended'
    <2>1. temp'.old = temp.old
      BY <1>8, <1>a, <1>b DEF SyncTemp, Typed, Discipline, Optional, File
    <2>2. QED
      BY <1>8, <1>b, <2>1 DEF SyncTemp, Goto, writerVars
  <1>9. ASSUME NEW t \in Tasks, Rename(t) PROVE Mended'
    <2>1. ~temp.old /\ temp \in File /\ temp.doc = held[t] /\ held[t] \in Document
      BY <1>9, <1>a, <1>b DEF Rename, Typed, Discipline, Ordered, Optional
    <2>2. ~NeedsRepair(primary')
      BY <1>9, <2>1 DEF Rename, NeedsRepair
    <2>3. pc'[t] = "syncdir" /\ \A u \in Tasks : u # t => pc'[u] \notin Persisting
      BY <1>9, <1>b, <1>c DEF Rename, Goto
    <2>4. QED
      BY <2>2, <2>3
  <1>10. ASSUME NEW t \in Tasks, Saved(t) PROVE Mended'
    <2>1. ~NeedsRepair(primary) /\ held[t] \in Document
      BY <1>10, <1>a, <1>b DEF Saved, Typed, Discipline, Optional
    <2>2. persisted' # None
      BY <1>10, <2>1 DEF Saved, Document
    <2>3. \A u \in Tasks : pc'[u] \notin Persisting
      BY <1>10, <1>b, <1>c DEF Saved, Goto
    <2>4. QED
      BY <1>10, <2>1, <2>2, <2>3 DEF Saved
  <1>11. ASSUME ~up', \A t \in Tasks : pc'[t] = "idle" PROVE Mended'
    BY <1>11
  <1>12. ASSUME Killed \/ PowerCut \/ Damage \/ MoveAside PROVE Mended'
    <2>1. ~up' /\ \A t \in Tasks : pc'[t] = "idle"
      BY <1>12, <1>c DEF Killed, PowerCut, Dies, Damage, MoveAside, taskVars
    <2>2. QED
      BY <1>11, <2>1
  <1>13. ASSUME NEW d \in Document, NEW v \in BOOLEAN, NEW r \in BOOLEAN, NEW u \in Nat,
                Start(d, v, r, u), r <=> (NeedsRepair(primary) \/ u > 0), v => ~r
         PROVE  Mended'
    <2>1. \A t \in Tasks : pc'[t] = "idle"
      BY <1>13, <1>c DEF Start, taskVars
    <2>2. repairs' = r /\ primary' = primary /\ (persisted' # None <=> v)
      BY <1>13 DEF Start, Document
    <2>3. r <=> (NeedsRepair(primary) \/ misread')
      <3>1. HasPart(primary, Garbled) => NeedsRepair(primary)
        BY DEF HasPart, NeedsRepair
      <3>2. misread' = (u > 0 /\ ~HasPart(primary, Garbled))
        BY <1>13 DEF Start
      <3>3. QED
        BY <1>13, <3>1, <3>2, Zenon
    <2>4. QED
      BY <1>13, <2>1, <2>2, <2>3
  <1>14. ASSUME StartFromPrimary PROVE Mended'
    <2>1. PICK d \in Repaired(primary) : Start(d, ~primary.old, primary.old, 0)
      BY <1>14 DEF StartFromPrimary
    <2>2. primary \in File /\ primary.doc \in Document /\ primary # None
      BY <1>14, <1>b DEF StartFromPrimary, Readable, Optional
    <2>3. primary.old \in BOOLEAN /\ (~primary.old) \in BOOLEAN /\ d \in Document
      BY <2>1, <2>2, RepairedFile DEF File
    <2>4. (primary.old <=> NeedsRepair(primary)) /\ 0 \in Nat /\ ~(0 > 0)
      BY <2>2 DEF NeedsRepair
    <2> HIDE DEF Mended
    <2>5. QED
      BY <1>13, <2>1, <2>3, <2>4, Zenon
  <1>15. ASSUME StartFromBackup PROVE Mended'
    <2>1. PICK d \in Repaired(backup), u \in PassedOver(primary) : Start(d, FALSE, TRUE, u)
      BY <1>15 DEF StartFromBackup
    <2>2. backup \in File /\ backup.doc \in Document
      BY <1>15, <1>b DEF StartFromBackup, Readable, Optional
    <2>3. d \in Document
      BY <2>1, <2>2, RepairedFile
    <2>4. u \in Nat /\ (NeedsRepair(primary) \/ u > 0)
      BY <2>1 DEF PassedOver, HasPart, NeedsRepair
    <2>5. QED
      BY <1>13, <2>1, <2>3, <2>4
  <1>16. ASSUME StartEmpty \/ StartFromDefaults PROVE Mended'
    <2>1. EmptyDocument \in Document
      BY EmptyIsADocument
    <2>2. StartEmpty => Start(EmptyDocument, FALSE, FALSE, 0) /\ ~NeedsRepair(primary)
      BY DEF StartEmpty, NeedsRepair
    <2>3. ASSUME StartFromDefaults
          PROVE  \E u \in Nat : /\ Start(EmptyDocument, FALSE, TRUE, u)
                             /\ (NeedsRepair(primary) \/ u > 0)
      <3>1. PICK first \in PassedOver(primary), second \in {0, 1} :
              Start(EmptyDocument, FALSE, TRUE, first + second)
        BY <2>3 DEF StartFromDefaults, PassedOver
      <3>2. first + second \in Nat /\ (NeedsRepair(primary) \/ first + second > 0)
        BY <3>1 DEF PassedOver, HasPart, NeedsRepair
      <3>3. QED
        BY <3>1, <3>2, Zenon
    <2>4. FALSE \in BOOLEAN /\ TRUE \in BOOLEAN /\ 0 \in Nat /\ ~(0 > 0)
      OBVIOUS
    <2> HIDE DEF Mended
    <2>5. CASE StartEmpty
      BY <1>13, <2>1, <2>2, <2>4, <2>5, Zenon
    <2>6. CASE StartFromDefaults
      <3>1. PICK u \in Nat : Start(EmptyDocument, FALSE, TRUE, u) /\ (NeedsRepair(primary) \/ u > 0)
        BY <2>3, <2>6
      <3>2. TRUE <=> (NeedsRepair(primary) \/ u > 0)
        BY <3>1
      <3>3. QED
        BY <1>13, <2>1, <2>4, <3>1, <3>2
    <2>7. QED
      BY <1>16, <2>5, <2>6
  <1>17. ASSUME UNCHANGED vars PROVE Mended'
    BY <1>1, <1>17 DEF vars, writerVars, fileVars, taskVars
  <1>18. QED
    BY <1>2, <1>3, <1>4, <1>5, <1>6, <1>7, <1>8, <1>9, <1>10, <1>12, <1>14, <1>15, <1>16, <1>17
       DEF Next, FlushStep, Idle

(* /status says that the document was repaired exactly while state.json is *)
(* not what runs, from the start that repaired it to the first save that   *)
(* succeeds (load_repairs reads repairs beside persisted_revision).        *)
THEOREM RepairsAreShown == Spec => []RepairsShownWhileNeeded
  <1>1. Init => IInv /\ Mended
    BY TypedInit, OrderedInit DEF IInv, Init, Mended, Writing, Persisting
  <1>2. IInv /\ Mended /\ [Next]_vars => (IInv /\ Mended)'
    BY TypedStep, OrderedStep, MendedStep DEF IInv
  <1>3. IInv /\ Mended => RepairsShownWhileNeeded
    BY DEF IInv, Typed, Discipline, Mended, NobodySyncs, RepairsShownWhileNeeded, ShownRepairs
  <1>4. QED
    BY <1>1, <1>2, <1>3, PTL DEF Spec
===============================================================================
