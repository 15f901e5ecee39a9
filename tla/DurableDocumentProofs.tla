------------------------- MODULE DurableDocumentProofs -------------------------
(***************************************************************************)
(* StateStore implements DurableDocument, for any number of concurrent     *)
(* saves and any bounds, on disks whose state.json needs no repair, that   *)
(* nothing outside the daemon garbles and whose reads do not fail (in the  *)
(* other cases the store may go back further or change what a document     *)
(* says).  Directory syncs may fail: the durable document then lags.       *)
(*                                                                         *)
(* Each step of the store maps to one step of the abstract document, or    *)
(* to none: Stage accepts, Saved settles, Rename and Answer pass over the  *)
(* one document that nobody carries any further, a kill or a power cut     *)
(* restarts.  Sound is what the mapping needs beyond the invariants of     *)
(* StateStoreProofs: documents with the same revision are the same.        *)
(***************************************************************************)
EXTENDS StateStoreProofs

Usable(file) == IF file = None THEN TRUE ELSE file.doc \in Document /\ ~file.old

(* No file to repair at the first start, none garbled afterwards, and none *)
(* that cannot be read.                                                    *)
SoundDisks == ~MayDamage /\ ~MayMisread /\ \A disk \in InitialDisks : Usable(disk.primary)

Sound ==
    /\ Usable(primary) /\ Usable(journal) /\ ~misread
    /\ RevisionOf(journal) <= RevisionOf(primary)
    /\ RevisionOf(primary) = RevisionOf(journal) => Loadable(primary) = Loadable(journal)
    /\ \A t \in Tasks :
         /\ held[t] # None =>
              /\ up /\ pc[t] \notin {"idle", "copy"}
              /\ held[t].rev <= current.rev
              /\ held[t].rev = current.rev => Said(held[t]) = Said(current)
         /\ pc[t] = "syncdir" =>
              RevisionOf(journal) < RevisionOf(primary) /\ Loadable(primary) = Said(held[t])

Inv == IInv /\ Kept /\ Mended

----------------------------------------------------------------------------
(* What a document says, apart from flags the mapping does not show.       *)
LEMMA SaidOfDocument ==
    ASSUME NEW d \in Document
    PROVE  Said(d) \in Abstract!Doc /\ Said(d).rev = d.rev /\ Said(d).content = d.content
  BY DEF Said, Abstract!Doc, Document

(* A start loads a document with the revision of the file.                 *)
LEMMA LoadableFile ==
    ASSUME NEW file \in Optional(File)
    PROVE  Loadable(file) \in Abstract!Doc /\ Loadable(file).rev = RevisionOf(file)
  <1>1. CASE Readable(file)
    <2>1. file \in File /\ file.doc \in Document
      BY <1>1 DEF Readable, Optional
    <2>2. QED
      BY <1>1, <2>1, SaidOfDocument, RevisionOfDocument DEF Loadable
  <1>2. CASE ~Readable(file)
    BY <1>2, EmptyIsADocument, SaidOfDocument, RevisionOfNothing DEF Loadable
  <1>3. QED
    BY <1>1, <1>2

(* A usable file is absent, or holds the document a start takes as it is.  *)
LEMMA UsableFiles ==
    ASSUME NEW file \in Optional(File), Usable(file)
    PROVE  /\ ~HasPart(file, Garbled) /\ ~HasPart(file, Newer)
           /\ file # None => /\ file \in File /\ file.doc \in Document /\ ~file.old
                             /\ Loadable(file) = Said(file.doc)
  BY StoreAssumption DEF Usable, HasPart, Loadable, Readable, Optional

(* The types that the steps below rest on.                                 *)
LEMMA Known ==
    ASSUME Typed
    PROVE  /\ primary \in Optional(File) /\ journal \in Optional(File)
           /\ temp \in Optional(File) /\ current \in Document
           /\ pc \in [Tasks -> Steps] /\ held \in [Tasks -> Optional(Document)]
           /\ RevisionOf(primary) \in Nat /\ RevisionOf(journal) \in Nat
           /\ current.rev \in Nat
           /\ \A t \in Tasks : held[t] # None => held[t] \in Document /\ held[t].rev \in Nat
  BY RevisionIsNat DEF Typed, TypeOK, DocTypeOK, Optional, Document

(* Every document of the mapping is one.                                   *)
LEMMA MappedTypes ==
    ASSUME Typed
    PROVE  /\ Live \in Abstract!Doc /\ Durable \in Abstract!Doc
           /\ OnTheirWay \subseteq Abstract!Doc
           /\ Durable.rev = RevisionOf(journal) /\ Loadable(primary).rev = RevisionOf(primary)
           /\ Live.rev = IF up THEN current.rev ELSE RevisionOf(primary)
  <1>1. Said(current) \in Abstract!Doc /\ Said(current).rev = current.rev
    BY Known, SaidOfDocument
  <1>2. /\ Loadable(primary) \in Abstract!Doc /\ Loadable(primary).rev = RevisionOf(primary)
        /\ Loadable(journal) \in Abstract!Doc /\ Loadable(journal).rev = RevisionOf(journal)
    BY Known, LoadableFile
  <1>3. \A t \in Tasks : held[t] # None => Said(held[t]) \in Abstract!Doc
    BY Known, SaidOfDocument
  <1>4. QED
    BY <1>1, <1>2, <1>3 DEF Live, Durable, OnTheirWay

----------------------------------------------------------------------------
(* The strengthening.                                                      *)

(* At first state.json and its directory entry are the same file.          *)
LEMMA SoundInit == ASSUME SoundDisks PROVE Init => Sound
  <1> SUFFICES ASSUME Init PROVE Sound
    OBVIOUS
  <1>1. RevisionOf(primary) \in Nat /\ journal = primary
    BY TypedInit, RevisionIsNat DEF Init, Typed, TypeOK
  <1>2. QED
    BY <1>1 DEF Init, Sound, SoundDisks, Persisting

(* What a save staged before is older than what memory holds next.         *)
LEMMA SoundStep == ASSUME SoundDisks PROVE Inv /\ Sound /\ [Next]_vars => Sound'
  <1> SUFFICES ASSUME Inv, Sound, [Next]_vars PROVE Sound'
    OBVIOUS
  <1>a. Typed /\ Typed' /\ Ordered /\ Kept /\ Mended
    BY TypedStep DEF Inv, IInv
  <1>b. /\ primary \in Optional(File) /\ journal \in Optional(File)
        /\ temp \in Optional(File) /\ current \in Document
        /\ pc \in [Tasks -> Steps] /\ held \in [Tasks -> Optional(Document)]
        /\ RevisionOf(primary) \in Nat /\ RevisionOf(journal) \in Nat
        /\ current.rev \in Nat
        /\ \A t \in Tasks : held[t] # None => held[t] \in Document /\ held[t].rev \in Nat
    BY <1>a, Known
  <1>c. \A t \in Tasks : /\ pc[t] \in Persisting => writer = t
                         /\ ~up => pc[t] = "idle"
                         /\ pc[t] \in Holding => held[t] # None
    BY <1>a DEF Typed, Discipline
  <1> USE DEF Sound, Persisting, Holding, losses, history
  <1>1. ASSUME UNCHANGED <<up, current, held, primary, journal, misread>>,
               \A t \in Tasks : pc'[t] = "syncdir" => pc[t] = "syncdir",
               \A t \in Tasks : pc'[t] \in {"idle", "copy"} => pc[t] \in {"idle", "copy"}
        PROVE  Sound'
    BY <1>1
  <1>2. ASSUME NEW t \in Tasks, Stage(t) PROVE Sound'
    <2>1. current' \in Document /\ current'.rev = current.rev + 1
      BY <1>2, <1>a DEF Stage, StageReplace, Effective, Typed, TypeOK, DocTypeOK, Document
    <2>2. \A u \in Tasks : held[u] # None => u # t
      BY <1>2 DEF Stage
    <2>3. UNCHANGED <<up, held, primary, journal, misread>> /\ pc' = [pc EXCEPT ![t] = "copy"]
      BY <1>2 DEF Stage, fileVars
    <2>4. QED
      BY <1>b, <2>1, <2>2, <2>3
  <1>3. ASSUME NEW t \in Tasks, CopyOut(t) PROVE Sound'
    BY <1>3, <1>b, <1>c DEF CopyOut, Goto, docVars, fileVars
  <1>4. ASSUME NEW t \in Tasks,
               LockWriter(t) \/ WriteTemp(t) \/ SyncTemp(t) \/ OpenBackup(t) \/ FillBackup(t)
        PROVE  Sound'
    <2>1. UNCHANGED <<up, current, held, primary, journal, misread>>
      BY <1>4 DEF LockWriter, WriteTemp, SyncTemp, OpenBackup, FillBackup, docVars, fileVars
    <2>2. \E step \in {"ok", "write", "sync", "backup", "copying", "rename"} :
            pc' = [pc EXCEPT ![t] = step]
      BY <1>4 DEF LockWriter, WriteTemp, SyncTemp, OpenBackup, FillBackup, Goto
    <2>3. QED
      BY <1>1, <1>b, <2>1, <2>2
  <1>5. ASSUME NEW t \in Tasks, SaveFails(t) PROVE Sound'
    BY <1>1, <1>5, <1>b DEF SaveFails, Goto, docVars, fileVars
  <1>6. ASSUME NEW t \in Tasks, Rename(t) PROVE Sound'
    <2>1. temp \in File /\ temp.doc = held[t] /\ held[t] \in Document /\ ~temp.old
      BY <1>6, <1>a, <1>b DEF Rename, Typed, Discipline, Ordered, Mended, Writing, Optional
    <2>2. Usable(primary') /\ Loadable(primary') = Said(held[t])
      BY <1>6, <2>1, StoreAssumption DEF Rename, Usable, Loadable, Readable
    <2>3. RevisionOf(journal) < RevisionOf(primary')
      <3>1. RevisionOf(primary') = held[t].rev
        BY <1>6, <2>1, RevisionOfDocument DEF Rename
      <3>2. RevisionOf(journal) <= RevisionOf(primary) /\ RevisionOf(primary) < held[t].rev
        BY <1>6, <1>a DEF Rename, Ordered, Writing
      <3>3. held[t].rev \in Nat
        BY <2>1 DEF Document
      <3>4. QED
        BY <1>b, <3>1, <3>2, <3>3
    <2>4. UNCHANGED <<up, current, held, journal>> /\ ~misread' /\ pc' = [pc EXCEPT ![t] = "syncdir"]
      BY <1>6 DEF Rename, Goto, docVars
    <2>5. \A u \in Tasks : pc'[u] = "syncdir" => u = t
      BY <1>6, <1>b, <1>c, <2>4 DEF Rename
    <2>6. RevisionOf(primary') \in Nat
      BY <1>a, RevisionIsNat DEF Typed, TypeOK
    <2>7. RevisionOf(primary') # RevisionOf(journal')
      <3>1. RevisionOf(primary') # RevisionOf(journal)
        BY <1>b, <2>3, <2>6
      <3>2. QED
        BY <2>4, <3>1
    <2>8. ASSUME NEW u \in Tasks, held'[u] # None
          PROVE  /\ up' /\ pc'[u] \notin {"idle", "copy"}
                 /\ held'[u].rev <= current'.rev
                 /\ held'[u].rev = current'.rev => Said(held'[u]) = Said(current')
      BY <1>b, <2>4, <2>8
    <2>9. ASSUME NEW u \in Tasks, pc'[u] = "syncdir"
          PROVE  /\ RevisionOf(journal') < RevisionOf(primary')
                 /\ Loadable(primary') = Said(held'[u])
      BY <2>2, <2>3, <2>4, <2>5, <2>9
    <2>a. RevisionOf(journal') <= RevisionOf(primary')
      BY <1>b, <2>3, <2>4, <2>6
    <2>10. QED
      BY <2>2, <2>4, <2>7, <2>8, <2>9, <2>a
  <1>7. ASSUME NEW t \in Tasks, Saved(t) PROVE Sound'
    <2>1. UNCHANGED <<up, current, held, primary, misread>> /\ journal' \in {journal, primary}
          /\ pc' = [pc EXCEPT ![t] = "ok"]
      BY <1>7 DEF Saved, SyncDirectory, Goto, docVars
    <2>2. \A u \in Tasks : pc'[u] # "syncdir"
      BY <1>7, <1>b, <1>c, <2>1 DEF Saved
    <2>3. QED
      BY <1>7, <1>b, <2>1, <2>2 DEF Saved
  <1>8. ASSUME NEW t \in Tasks, Answer(t) PROVE Sound'
    BY <1>8, <1>b DEF Answer, Goto, docVars, fileVars
  <1>9. ASSUME TryOut \/ Revert PROVE Sound'
    <2>1. current' = current /\ UNCHANGED <<up, fileVars, taskVars, misread>>
      BY <1>9 DEF TryOut, Revert, SetPreview, ClearPreview
    <2>2. QED
      BY <1>1, <2>1 DEF fileVars, taskVars
  <1>10. ASSUME Dies, primary' \in {primary, journal}, journal' \in {primary', journal},
                (primary' = primary /\ journal' = journal) \/ journal' = primary'
         PROVE  Sound'
    BY <1>10, <1>b DEF Dies
  <1>11. ASSUME Killed PROVE Sound'
    BY <1>10, <1>11 DEF Killed
  <1>12. ASSUME PowerCut PROVE Sound'
    <2>1. OnDisk(primary) /\ OnDisk(journal)
      BY <1>a DEF Kept
    <2>2. primary' \in {primary, journal} /\ journal' = primary'
      BY <1>12, <1>b, <2>1, SyncedFilesStay DEF PowerCut
    <2>3. QED
      BY <1>10, <1>12, <2>2 DEF PowerCut
  <1>13. ~Damage
    BY DEF SoundDisks, Damage
  <1>14. ~HasPart(primary, Garbled) /\ ~HasPart(primary, Newer)
    BY <1>b, UsableFiles
  <1>15. ~MoveAside /\ ~StartFromBackup /\ ~StartFromDefaults
    BY <1>14 DEF MoveAside, RefusesToStart, StartFromBackup, StartFromDefaults, PassedOver,
                 SoundDisks
  <1>16. ASSUME NEW d, NEW v, NEW r, Start(d, v, r, 0) PROVE Sound'
    <2>1. \A t \in Tasks : held'[t] = None /\ pc'[t] = "idle"
      <3>1. UNCHANGED taskVars /\ \A t \in Tasks : pc[t] = "idle"
        BY <1>16, <1>c DEF Start
      <3>2. QED
        BY <3>1 DEF taskVars
    <2>a. misread' = (0 > 0 /\ ~HasPart(primary, Garbled)) /\ ~(0 > 0)
      BY <1>16 DEF Start
    <2>2. UNCHANGED <<primary, journal>> /\ ~misread'
      BY <1>16, <2>a DEF Start
    <2>3. QED
      BY <2>1, <2>2
  <1>17. ASSUME StartFromPrimary \/ StartEmpty PROVE Sound'
    BY <1>16, <1>17 DEF StartFromPrimary, StartEmpty
  <1>18. ASSUME UNCHANGED vars PROVE Sound'
    BY <1>1, <1>18 DEF vars, docVars, fileVars, taskVars
  <1>19. QED
    BY <1>2, <1>3, <1>4, <1>5, <1>6, <1>7, <1>8, <1>9, <1>11, <1>12, <1>13, <1>15, <1>17, <1>18
       DEF Next, FlushStep, Idle
----------------------------------------------------------------------------
(* The mapping, step by step.  AbstractStep is one of its steps.  *)

AbstractStep == [Abstract!Next]_(Abstract!vars)

(* The abstract document starts with what a start would load.              *)
LEMMA MappedInit == Init => Abstract!Init
  <1> SUFFICES ASSUME Init PROVE Abstract!Init
    OBVIOUS
  <1>1. Typed /\ ~up /\ journal = primary /\ held = [t \in Tasks |-> None]
    BY TypedInit DEF Init
  <1>2. Live = Durable /\ OnTheirWay = {Durable}
    BY <1>1 DEF Live, Durable, OnTheirWay
  <1>3. Live \in Abstract!Doc /\ Durable.rev \in Nat
    BY <1>1, MappedTypes, Known
  <1>4. Pending = {}
    BY <1>2, <1>3 DEF Pending
  <1>5. QED
    BY <1>2, <1>3, <1>4 DEF Abstract!Init

(* A step that moves none of what the mapping looks at is no step.         *)
LEMMA NothingMoves ==
    ASSUME Live' = Live, Durable' = Durable, OnTheirWay' = OnTheirWay
    PROVE  AbstractStep
  <1>1. Pending' = Pending
    BY DEF Pending
  <1>2. QED
    BY <1>1 DEF AbstractStep, Abstract!vars

(* One document that is not live may stop being on its way.                *)
LEMMA OneLeaves ==
    ASSUME Live' = Live, Durable' = Durable, NEW d, d # Live,
           OnTheirWay' = OnTheirWay \/ OnTheirWay' = OnTheirWay \ {d}
    PROVE  AbstractStep
  <1>1. CASE OnTheirWay' = OnTheirWay
    BY <1>1, NothingMoves
  <1>2. CASE d \notin Pending /\ OnTheirWay' = OnTheirWay \ {d}
    <2>1. Pending' = Pending
      BY <1>2 DEF Pending
    <2>2. QED
      BY <2>1 DEF AbstractStep, Abstract!vars
  <1>3. CASE d \in Pending /\ OnTheirWay' = OnTheirWay \ {d}
    <2>1. Pending' = Pending \ {d}
      BY <1>3 DEF Pending
    <2>2. Abstract!PassOver
      BY <1>3, <2>1 DEF Abstract!PassOver
    <2>3. QED
      BY <2>2 DEF AbstractStep, Abstract!Next
  <1>4. QED
    BY <1>1, <1>2, <1>3

(* Every step of the store is one of the abstract document.                *)
LEMMA MappedStep ==
    ASSUME SoundDisks
    PROVE  Inv /\ Sound /\ [Next]_vars => AbstractStep
  <1> SUFFICES ASSUME Inv, Sound, [Next]_vars PROVE AbstractStep
    OBVIOUS
  <1>a. Typed /\ Typed' /\ Ordered /\ Kept /\ Mended
    BY TypedStep DEF Inv, IInv
  <1>b. /\ primary \in Optional(File) /\ journal \in Optional(File)
        /\ temp \in Optional(File) /\ current \in Document
        /\ pc \in [Tasks -> Steps] /\ held \in [Tasks -> Optional(Document)]
        /\ RevisionOf(primary) \in Nat /\ RevisionOf(journal) \in Nat
        /\ current.rev \in Nat
        /\ \A t \in Tasks : held[t] # None => held[t] \in Document /\ held[t].rev \in Nat
    BY <1>a, Known
  <1>c. \A t \in Tasks : /\ ~up => pc[t] = "idle"
                         /\ pc[t] \in Holding => held[t] # None
    BY <1>a DEF Typed, Discipline
  <1>d. /\ Durable.rev = RevisionOf(journal) /\ Loadable(primary).rev = RevisionOf(primary)
        /\ Live.rev = IF up THEN current.rev ELSE RevisionOf(primary)
        /\ RevisionOf(journal) <= RevisionOf(primary)
        /\ up => RevisionOf(primary) <= current.rev
    BY <1>a, MappedTypes DEF Ordered, Sound
  <1>e. \A d \in OnTheirWay : d.rev \in Nat
    BY <1>a, MappedTypes DEF Abstract!Doc
  <1>1. ASSUME UNCHANGED <<up, current, primary, journal, held>> PROVE AbstractStep
    BY <1>1, NothingMoves DEF Live, Durable, OnTheirWay
  <1>2. ASSUME NEW t \in Tasks, Stage(t) PROVE AbstractStep
    <2>1. /\ current' \in Document /\ current'.rev = current.rev + 1
          /\ current'.content \in Contents
      BY <1>2, <1>a DEF Stage, StageReplace, Effective, Typed, TypeOK, DocTypeOK, Document
    <2>2. up /\ UNCHANGED <<up, held, primary, journal>>
      BY <1>2 DEF Stage, fileVars
    <2>3. /\ Live = Said(current) /\ Live.rev = current.rev
          /\ Live' = Said(current') /\ Live' = [rev |-> Live.rev + 1, content |-> current'.content]
      BY <1>b, <2>1, <2>2, SaidOfDocument DEF Live, Said
    <2>4. Durable' = Durable
      BY <2>2 DEF Durable
    <2>5. OnTheirWay' \subseteq OnTheirWay \cup {Live'} /\ Live' \in OnTheirWay'
      BY <2>2 DEF OnTheirWay
    <2>6. Live'.rev > Durable.rev
      BY <1>b, <1>d, <2>2, <2>3
    <2>7. \E P \in SUBSET Pending : Pending' = P \cup {Live'}
      <3>1. Pending' = {d \in OnTheirWay' : d.rev > Durable.rev}
        BY <2>4 DEF Pending
      <3>2. WITNESS (Pending' \cap Pending) \in SUBSET Pending
      <3>3. QED
        BY <2>5, <2>6, <3>1 DEF Pending
    <2>8. Abstract!Accept
      BY <2>1, <2>3, <2>4, <2>7 DEF Abstract!Accept
    <2>9. QED
      BY <2>8 DEF AbstractStep, Abstract!Next
  <1>3. ASSUME NEW t \in Tasks, CopyOut(t) PROVE AbstractStep
    <2>1. up /\ held[t] = None /\ held' = [held EXCEPT ![t] = current]
          /\ UNCHANGED <<up, current, primary, journal>>
      BY <1>3, <1>b, <1>c DEF CopyOut, Sound, docVars, fileVars
    <2>2. Live' = Live /\ Durable' = Durable /\ Said(current) = Live
      BY <2>1 DEF Live, Durable
    <2>3. OnTheirWay' = OnTheirWay
      BY <1>b, <2>1, <2>2, ContentsAssumption DEF OnTheirWay
    <2>4. QED
      BY <2>2, <2>3, NothingMoves
  <1>4. ASSUME NEW t \in Tasks,
               LockWriter(t) \/ WriteTemp(t) \/ SyncTemp(t) \/ OpenBackup(t) \/ FillBackup(t)
               \/ SaveFails(t)
        PROVE  AbstractStep
    BY <1>1, <1>4 DEF LockWriter, WriteTemp, SyncTemp, OpenBackup, FillBackup, SaveFails, docVars,
                      fileVars
  <1>5. ASSUME NEW t \in Tasks, Rename(t) PROVE AbstractStep
    <2>1. /\ temp \in File /\ temp.doc = held[t] /\ held[t] \in Document /\ held[t] # None
          /\ up /\ RevisionOf(primary) < held[t].rev /\ held[t].rev <= current.rev
      BY <1>5, <1>a, <1>b, <1>c DEF Rename, Typed, Discipline, Ordered, Sound, Writing, Holding,
                                    Persisting, Optional
    <2>2. UNCHANGED <<up, current, journal, held>> /\ Loadable(primary') = Said(held[t])
      BY <1>5, <2>1, StoreAssumption DEF Rename, docVars, Loadable, Readable
    <2>3. Live' = Live /\ Durable' = Durable
      BY <2>1, <2>2 DEF Live, Durable
    <2>4. Loadable(primary) # Live
      BY <1>b, <1>d, <2>1
    <2>5. OnTheirWay' = OnTheirWay \/ OnTheirWay' = OnTheirWay \ {Loadable(primary)}
      BY <2>1, <2>2, <2>3 DEF OnTheirWay
    <2>6. QED
      BY <2>3, <2>4, <2>5, OneLeaves
  <1>6. ASSUME NEW t \in Tasks, Saved(t), journal' = primary PROVE AbstractStep
    <2>1. UNCHANGED <<up, current, held, primary>> /\ journal' = primary /\ up /\ held[t] # None
      BY <1>6, <1>c DEF Saved, docVars, Holding, Persisting
    <2>2. /\ RevisionOf(journal) < RevisionOf(primary) /\ Loadable(primary) = Said(held[t])
          /\ held[t].rev = RevisionOf(primary)
          /\ held[t].rev = current.rev => Said(held[t]) = Said(current)
      BY <1>6, <1>a, <2>1 DEF Saved, Sound, Ordered
    <2>3. /\ Live' = Live /\ Live = Said(current) /\ Live.rev = current.rev
          /\ Durable' = Loadable(primary) /\ OnTheirWay' = OnTheirWay
      BY <1>d, <2>1 DEF Live, Durable, OnTheirWay
    <2>4. Durable'.rev = RevisionOf(primary) /\ Durable.rev < Durable'.rev
      BY <1>d, <2>2, <2>3
    <2>5. Durable' \in Pending
      BY <2>3, <2>4 DEF Pending, OnTheirWay
    <2>6. Pending' \in SUBSET Abstract!NewerThan(Durable', Pending)
      <3>1. Pending' = {d \in OnTheirWay : d.rev > Durable'.rev}
        BY <2>3 DEF Pending
      <3>2. \A d \in Pending' : d.rev > Durable.rev
        BY <1>b, <1>d, <1>e, <2>4, <3>1
      <3>3. QED
        BY <3>1, <3>2 DEF Pending, Abstract!NewerThan
    <2>7. Live \in Pending' \cup {Durable'}
      <3>1. CASE current.rev = RevisionOf(primary)
        BY <2>2, <2>3, <3>1
      <3>2. CASE current.rev # RevisionOf(primary)
        <4>1. Live.rev > Durable'.rev
          BY <1>b, <1>d, <2>1, <2>3, <2>4, <3>2
        <4>2. Live \in OnTheirWay'
          BY <2>3 DEF OnTheirWay
        <4>3. QED
          BY <4>1, <4>2 DEF Pending
      <3>3. QED
        BY <3>1, <3>2
    <2>8. Abstract!Settle
      BY <2>3, <2>5, <2>6, <2>7 DEF Abstract!Settle
    <2>9. QED
      BY <2>8 DEF AbstractStep, Abstract!Next
  <1>s. ASSUME NEW t \in Tasks, Saved(t) PROVE AbstractStep
    <2>1. CASE journal' = journal
      BY <1>1, <1>s, <2>1 DEF Saved, docVars
    <2>2. CASE journal' = primary
      BY <1>6, <1>s, <2>2
    <2>3. QED
      BY <1>s, <2>1, <2>2 DEF Saved, SyncDirectory
  <1>7. ASSUME NEW t \in Tasks, Answer(t) PROVE AbstractStep
    <2>1. held' = [held EXCEPT ![t] = None] /\ UNCHANGED <<up, current, primary, journal>>
      BY <1>7 DEF Answer, docVars, fileVars
    <2>2. Live' = Live /\ Durable' = Durable
      BY <2>1 DEF Live, Durable
    <2>3. held[t] = None => OnTheirWay' = OnTheirWay
      BY <1>b, <2>1, <2>2 DEF OnTheirWay
    <2>4. OnTheirWay' = OnTheirWay \/ OnTheirWay' = OnTheirWay \ {Said(held[t])}
      BY <1>b, <2>1, <2>2, <2>3 DEF OnTheirWay
    <2>5. Said(held[t]) = Live => OnTheirWay' = OnTheirWay
      BY <2>2, <2>4 DEF OnTheirWay
    <2>6. QED
      BY <2>2, <2>4, <2>5, NothingMoves, OneLeaves
  <1>8. ASSUME TryOut \/ Revert PROVE AbstractStep
    <2>1. current' = current /\ UNCHANGED <<up, fileVars, taskVars>>
      BY <1>8 DEF TryOut, Revert, SetPreview, ClearPreview
    <2>2. QED
      BY <1>1, <2>1 DEF fileVars, taskVars
  <1>9. ASSUME Dies PROVE Live' = Loadable(primary') /\ OnTheirWay' = {Live'}
    <2>1. ~up' /\ \A t \in Tasks : held'[t] = None
      BY <1>9 DEF Dies
    <2>2. QED
      BY <2>1 DEF Live, OnTheirWay
  <1>10. ASSUME Killed PROVE AbstractStep
    <2>1. Dies /\ primary' = primary /\ Durable' = Durable
      BY <1>10 DEF Killed, Durable
    <2>2. Live' = Loadable(primary) /\ Pending' = {d \in {Live'} : d.rev > Durable.rev}
      BY <1>9, <2>1 DEF Pending
    <2>3. CASE RevisionOf(primary) = RevisionOf(journal)
      <3>1. Live' = Durable
        BY <2>2, <2>3 DEF Sound, Durable
      <3>2. Pending' = {}
        BY <1>b, <1>d, <2>2, <3>1
      <3>3. Abstract!Restart
        BY <2>1, <3>1, <3>2 DEF Abstract!Restart
      <3>4. QED
        BY <3>3 DEF AbstractStep, Abstract!Next
    <2>4. CASE RevisionOf(primary) # RevisionOf(journal)
      <3>1. Live'.rev > Durable.rev
        BY <1>b, <1>d, <2>2, <2>4
      <3>2. Live' \in Pending /\ Live' # Durable
        BY <1>b, <1>d, <2>2, <3>1 DEF Pending, OnTheirWay
      <3>3. Pending' = {Live'} \ {Durable}
        BY <2>2, <3>1, <3>2
      <3>4. Abstract!Restart
        BY <2>1, <3>2, <3>3 DEF Abstract!Restart
      <3>5. QED
        BY <3>4 DEF AbstractStep, Abstract!Next
    <2>5. QED
      BY <2>3, <2>4
  <1>11. ASSUME PowerCut PROVE AbstractStep
    <2>1. Dies /\ primary' \in {primary, journal} /\ journal' = primary'
      <3>1. OnDisk(primary) /\ OnDisk(journal)
        BY <1>a DEF Kept
      <3>2. QED
        BY <1>11, <1>b, <3>1, SyncedFilesStay DEF PowerCut
    <2>2. Live' = Loadable(primary') /\ Durable' = Live' /\ OnTheirWay' = {Live'}
      BY <1>9, <2>1 DEF Durable
    <2>3. Live' \in Pending \cup {Durable}
      <3>1. CASE RevisionOf(primary) = RevisionOf(journal)
        BY <2>1, <2>2, <3>1 DEF Sound, Durable
      <3>2. CASE RevisionOf(primary) # RevisionOf(journal)
        <4>1. Loadable(primary) \in Pending
          BY <1>b, <1>d, <3>2 DEF Pending, OnTheirWay
        <4>2. QED
          BY <2>1, <2>2, <4>1 DEF Durable
      <3>3. QED
        BY <3>1, <3>2
    <2>4. Pending' = {}
      <3>1. Live'.rev \in Nat
        BY <1>b, <2>1, <2>2, LoadableFile, RevisionIsNat
      <3>2. QED
        BY <2>2, <3>1 DEF Pending
    <2>5. Abstract!Restart
      BY <2>2, <2>3, <2>4 DEF Abstract!Restart
    <2>6. QED
      BY <2>5 DEF AbstractStep, Abstract!Next
  <1>12. ~HasPart(primary, Garbled) /\ ~HasPart(primary, Newer)
    BY <1>b, UsableFiles DEF Sound
  <1>13. ~MoveAside /\ ~StartFromBackup /\ ~StartFromDefaults /\ ~Damage
    BY <1>12 DEF MoveAside, RefusesToStart, StartFromBackup, StartFromDefaults, PassedOver,
                 SoundDisks, Damage
  <1>14. ASSUME NEW d \in Document, NEW v, NEW r, Start(d, v, r, 0), Said(d) = Loadable(primary)
         PROVE  AbstractStep
    <2>1. UNCHANGED <<primary, journal, held>> /\ ~up /\ up' /\ Said(current') = Said(d)
      BY <1>14 DEF Start, Construct, taskVars, Said, Document
    <2>2. Live' = Live /\ Durable' = Durable
      BY <1>14, <2>1 DEF Live, Durable
    <2>3. OnTheirWay' = OnTheirWay
      BY <2>1, <2>2 DEF OnTheirWay
    <2>4. QED
      BY <2>2, <2>3, NothingMoves
  <1>15. ASSUME StartFromPrimary PROVE AbstractStep
    <2>1. PICK d \in Repaired(primary) : Start(d, ~primary.old, primary.old, 0)
      BY <1>15 DEF StartFromPrimary
    <2>2. /\ primary \in File /\ primary.doc \in Document /\ ~primary.old
          /\ Loadable(primary) = Said(primary.doc)
      BY <1>15, <1>b, UsableFiles DEF StartFromPrimary, Readable, Sound
    <2>3. d = primary.doc
      BY <2>1, <2>2 DEF Repaired
    <2>4. QED
      BY <1>14, <2>1, <2>2, <2>3
  <1>16. ASSUME StartEmpty PROVE AbstractStep
    <2>1. Loadable(primary) = Said(EmptyDocument)
      BY <1>16 DEF StartEmpty, Loadable, Readable
    <2>2. QED
      BY <1>14, <1>16, <2>1, EmptyIsADocument DEF StartEmpty
  <1>17. ASSUME UNCHANGED vars PROVE AbstractStep
    BY <1>1, <1>17 DEF vars, docVars, fileVars, taskVars
  <1>18. QED
    BY <1>2, <1>3, <1>4, <1>5, <1>s, <1>7, <1>8, <1>10, <1>11, <1>13, <1>15, <1>16, <1>17
       DEF Next, FlushStep, Idle

(* Whatever flushes, failures, kills and power cuts do, a client sees one  *)
(* document that becomes durable later or never, and every restart goes    *)
(* back to one whole document that is at least as new as the durable one   *)
(* (the header of state.rs: disk lags memory, never a mix).  A save whose  *)
(* directory sync failed is answered all the same and settles nothing:     *)
(* what a client may rely on is SavesSurvive's matter, not this one's.     *)
THEOREM StoreIsDurable == ASSUME SoundDisks PROVE Spec => ImplementsDurableDocument
  <1>1. Init => Inv /\ Sound
    <2>1. Init => Mended
      BY DEF Init, Mended, Writing, Persisting
    <2>2. QED
      BY <2>1, TypedInit, OrderedInit, KeptInit, SoundInit DEF Inv, IInv
  <1>2. Inv /\ Sound /\ [Next]_vars => (Inv /\ Sound)'
    BY TypedStep, OrderedStep, KeptStep, MendedStep, SoundStep DEF Inv, IInv
  <1>3. Init => Abstract!Init
    BY MappedInit
  <1>4. Inv /\ Sound /\ [Next]_vars => [Abstract!Next]_(Abstract!vars)
    BY MappedStep DEF AbstractStep
  <1>5. QED
    BY <1>1, <1>2, <1>3, <1>4, PTL DEF Spec, ImplementsDurableDocument, Abstract!Spec
=============================================================================
