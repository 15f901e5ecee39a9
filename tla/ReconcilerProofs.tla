--------------------------- MODULE ReconcilerProofs ---------------------------
(***************************************************************************)
(* What the reconciler guarantees for any number of handlers, layouts and  *)
(* apps, and any number of writes, displays plugged in and failures.       *)
(*                                                                         *)
(* Two kinds of promise.  Some hold whoever is dropped: they rest on what  *)
(* an attempt has done so far, stage by stage (Attempted).  The others     *)
(* need every handler to finish what it began; they say that whatever is   *)
(* out of date is owed a pass by somebody (Owed), and that the machine and *)
(* the supervisor are as the last pass left them otherwise.                *)
(***************************************************************************)
EXTENDS Reconciler, TLAPS

Owns(owner) == pass # None /\ pass.owner = owner
Within(stages) == pass # None /\ pass.stage \in stages

Switching == {"outputs", "switch", "settle", "projection"}
Visiting == {"visit", "stopping", "launch"}
Ending == {"adopt", "pin", "publish"}
Visited == {"launch"} \cup Ending
AfterSettle == Stages \ {"outputs", "switch", "settle"}
AfterProjection == AfterSettle \ {"projection"}

(* The pass is its owner's, who is waiting for it.                         *)
Owned == pass # None => Asks(pass.owner)

(* Generations only grow, and passes end in the order of theirs.           *)
Aged ==
    /\ asked <= generation
    /\ applied # None => applied.generation <= generation
    /\ pass # None => pass.generation <= generation
    /\ pass # None /\ applied # None => applied.generation <= pass.generation

(* An attempt that is current works from the live document, and decides to *)
(* pin only while no working copy is live.                                 *)
Consistent ==
    pass # None /\ IsCurrent =>
        /\ pass.desired = Effective
        /\ pass.stage = "pin" => preview = None

(* While a pass is under way the status says so.                           *)
Reported == pass # None => status.state = "reconciling"

(* Sway shows the layout, or a query will tell that it does not, or none   *)
(* ever will.                                                              *)
AsAsked(layout) == wall = layout \/ snapshot # wall \/ unseen

(* What an attempt has done by the time it is at its stage.                *)
Configured(a) == a \notin pending /\ (a \in enabled <=> a = pass.desired.content.app)
Attempted ==
    /\ running \subseteq enabled
    /\ Within(AfterProjection) => slicer.cut = pass.desired.content.layout
    /\ Within(Visiting \cup Ending) => \A a \in Apps \ pass.unvisited : Configured(a)
    /\ Within(Visited) => pass.unvisited = {}

(* What its commands have left: what was asked for, as far as anybody will *)
(* ever know, or the poll has noticed and the task is about to begin.      *)
Shown ==
    /\ Within({"settle"}) /\ ~pass.degraded => wall = pass.desired.content.layout \/ unseen
    /\ Within(AfterSettle) /\ ~pass.degraded =>
         AsAsked(pass.desired.content.layout) \/ (task = "pass" /\ ~Owns(Loop))

(* The task has been asked for a pass and has not begun it.                *)
TaskOwes == ordinary \/ projection \/ task = "debounce" \/ (task = "pass" /\ ~Owns(Loop))

(* What was asked for is owed, being done, or done.                        *)
Served ==
    \/ TaskOwes
    \/ Owns(Loop) /\ pass.generation >= asked
    \/ applied # None /\ applied.generation >= asked

Typed == TypeOK /\ Owned
Sound == Typed /\ Aged /\ Consistent /\ Reported /\ Attempted /\ Shown /\ Served

----------------------------------------------------------------------------
(* What holds as long as no handler is dropped.                            *)

(* Somebody is going to begin a pass.                                      *)
HandlerOwes(h) ==
    handler[h] \in {"save", "saveThenWait"} \/ (handler[h] = "wait" /\ ~Owns(h))
Owed == TaskOwes \/ \E h \in Handlers : HandlerOwes(h)

(* Or the machine changed and the daemon will notice.                      *)
Unsettled == Owed \/ event \/ snapshot # wall

(* The document of the pass, or of the last one, is the live one.          *)
Same(content) == Unpinned(content) = Unpinned(Effective.content)
UpToDate ==
    /\ pass # None => Owed \/ Same(pass.desired.content)
    /\ pass = None => Owed \/ (applied # None /\ Same(applied.content))
    /\ pass = None /\ status.state = "reconciling" => task = "pass"

(* A slicer whose outputs were switched is replaced by the attempt that    *)
(* switched them.                                                          *)
Bound == slicer.on = "switched" => Within(Switching) /\ topology

(* What the last pass to end did stands until the next.                    *)
Stands ==
    /\ pass = None /\ applied # None =>
         /\ slicer.cut = applied.content.layout
         /\ enabled = {applied.content.app} /\ pending = {}
    /\ pass = None /\ status.state = "synced" =>
         /\ applied # None
         /\ Unsettled \/ wall = applied.content.layout \/ unseen

(* An app that was stopped is disabled, held back, or in the hands of the  *)
(* pass that stopped it.                                                   *)
Retired ==
    \A a \in retired :
        /\ a \notin running
        /\ a \notin enabled \/ a \in pending \/ Within(Visiting)

Complete == UpToDate /\ Bound /\ Stands /\ Retired

----------------------------------------------------------------------------
(* Documents.                                                              *)

(* What a document says has a layout, an app and pinned modes or not.      *)
LEMMA ContentEdits ==
    ASSUME NEW content \in Contents
    PROVE  /\ content.layout \in Layouts /\ content.app \in Apps
           /\ Edits(content) \subseteq Contents
           /\ [content EXCEPT !.pinned = TRUE] \in Contents
           /\ Unpinned([content EXCEPT !.pinned = TRUE]) = Unpinned(content)
  BY ReconcilerAssumption DEF Edits, Unpinned

(* Documents that are alike but for their pins want the same of the machine.*)
LEMMA SameWants ==
    ASSUME NEW c \in Contents, NEW d \in Contents, Unpinned(c) = Unpinned(d)
    PROVE  c.layout = d.layout /\ c.app = d.app
  BY ReconcilerAssumption DEF Unpinned

(* The live document is one.                                              *)
LEMMA EffectiveTyped ==
    ASSUME DocTypeOK
    PROVE  Effective \in Document /\ Effective.content \in Contents /\ Effective.rev \in Nat
  BY ContentsAssumption DEF DocTypeOK, Effective, Document

(* A document stays one under the edits of the transitions.                *)
LEMMA DocumentEdits ==
    ASSUME NEW d \in Document, NEW c \in Contents, NEW r \in Nat, NEW b \in BOOLEAN
    PROVE  /\ [d EXCEPT !.content = c] \in Document
           /\ [d EXCEPT !.content = c].content = c
           /\ [d EXCEPT !.rev = r, !.committed = b] \in Document
           /\ [d EXCEPT !.rev = r, !.committed = b].content = d.content
  BY DEF Document

(* A commit: one generation later, with no working copy, the live document *)
(* says what was committed.                                                *)
LEMMA CommitTyped ==
    ASSUME DocTypeOK, NEW v, NEW c \in Contents,
           StageReplace(v, [Effective EXCEPT !.content = c])
    PROVE  DocTypeOK' /\ generation' = generation + 1 /\ preview' = None
           /\ Effective'.content = c /\ current'.content = c
  <1> DEFINE next == [Effective EXCEPT !.content = c]
             made == [next EXCEPT !.rev = current.rev + 1, !.committed = TRUE]
  <1>1. next \in Document /\ next.content = c
    BY EffectiveTyped, DocumentEdits
  <1>2. current.rev + 1 \in Nat
    BY DEF DocTypeOK, Document
  <1> HIDE DEF next
  <1>3. made \in Document /\ made.content = c
    BY <1>1, <1>2, DocumentEdits
  <1>4. current' = made /\ preview' = None /\ generation' = generation + 1 /\ epoch' = epoch
    BY DEF StageReplace, next
  <1> HIDE DEF made
  <1>5. QED
    BY <1>3, <1>4 DEF DocTypeOK, Effective

(* A working copy: one generation later, the saved document is untouched.  *)
LEMMA PreviewTyped ==
    ASSUME DocTypeOK, NEW v, NEW c \in Contents,
           SetPreview(v, [Effective EXCEPT !.content = c])
    PROVE  DocTypeOK' /\ generation' = generation + 1
  <1> DEFINE next == [Effective EXCEPT !.content = c]
             b == OnlyTemporaryDiffers(next, current)
             made == [next EXCEPT !.rev = current.rev, !.committed = b]
  <1>1. next \in Document
    BY EffectiveTyped, DocumentEdits
  <1>2. current.rev \in Nat /\ b \in BOOLEAN
    BY DEF DocTypeOK, Document, OnlyTemporaryDiffers
  <1> HIDE DEF next, b
  <1>3. made \in Document
    BY <1>1, <1>2, DocumentEdits
  <1>4. current' = current /\ preview' = made /\ generation' = generation + 1 /\ epoch' = epoch
    BY DEF SetPreview, next, b
  <1> HIDE DEF made
  <1>5. QED
    BY <1>3, <1>4 DEF DocTypeOK

(* A revert: one generation later, with no working copy.                  *)
LEMMA RevertTyped ==
    ASSUME DocTypeOK, NEW v, ClearPreview(v)
    PROVE  DocTypeOK' /\ generation' = generation + 1 /\ preview' = None
  BY DEF ClearPreview, DocTypeOK

----------------------------------------------------------------------------
(* The steps, by what they do to the pass.                                 *)

(* An attempt goes on: same owner, same document.                          *)
Continues ==
    /\ pass \in Pass /\ pass' \in Pass
    /\ pass'.owner = pass.owner /\ pass'.desired = pass.desired
    /\ pass'.generation = pass.generation

(* An attempt begins for an owner.                                         *)
Begins(owner) ==
    /\ pass' \in Pass
    /\ pass'.owner = owner /\ pass'.desired = Effective
    /\ pass'.generation = generation
    /\ pass'.stage = "outputs" /\ ~pass'.degraded

(* There is no pass, or a pass.                                            *)
LEMMA PassIsSomething == TypeOK => (pass # None <=> pass \in Pass)
  BY ReconcilerAssumption DEF TypeOK

(* To be at a stage is to be a pass at it.                                 *)
LEMMA AtIs == ASSUME NEW s PROVE At(s) <=> pass # None /\ pass.stage = s
  BY DEF At

(* Reading the document begins an attempt, and says so.                    *)
LEMMA BeginsIs ==
    ASSUME TypeOK, NEW owner \in Handlers \cup {Loop}, ReadDocument(owner)
    PROVE  /\ Begins(owner)
           /\ status' = [state |-> "reconciling", revision |-> Effective.rev]
           /\ Effective.rev \in Nat
  BY EffectiveTyped DEF TypeOK, DocTypeOK, Pass, Stages, ReadDocument, Begins

(* An attempt that goes to a stage keeps all else.                         *)
LEMMA GotoIs ==
    ASSUME TypeOK, pass # None, NEW stage \in Stages, Goto(stage)
    PROVE  /\ Continues /\ pass'.stage = stage
           /\ pass'.unvisited = pass.unvisited /\ pass'.degraded = pass.degraded
  BY PassIsSomething DEF Pass, Goto, Continues

(* An attempt asks what there is, and commands what is not as it should.   *)
LEMMA QueryOutputsIs ==
    ASSUME TypeOK, QueryOutputs
    PROVE  /\ pass # None /\ pass.stage = "outputs" /\ pass.generation = generation
           /\ Continues /\ pass'.stage \in {"switch", "projection"} /\ wall' = wall
           /\ snapshot' \in {wall, snapshot}
           /\ pass'.stage = "projection" => snapshot' = pass.desired.content.layout
  <1>1. pass \in Pass /\ pass.stage = "outputs" /\ pass.generation = generation
    BY AtIs, PassIsSomething DEF QueryOutputs, IsCurrent
  <1>2. wall' = wall /\ snapshot' \in {wall, snapshot}
    BY DEF QueryOutputs, Query
  <1>3. CASE snapshot' = pass.desired.content.layout
    <2>1. Goto("projection")
      BY <1>3 DEF QueryOutputs
    <2>2. QED
      BY <1>1, <1>2, <1>3, <2>1, GotoIs, PassIsSomething DEF Stages
  <1>4. CASE snapshot' # pass.desired.content.layout
    <2>1. Goto("switch")
      BY <1>4 DEF QueryOutputs
    <2>2. QED
      BY <1>1, <1>2, <2>1, GotoIs, PassIsSomething DEF Stages
  <1>5. QED
    BY <1>3, <1>4

(* Commands that succeed leave what was asked for, or nobody will know.    *)
LEMMA RunCommandsIs ==
    ASSUME TypeOK, RunCommands
    PROVE  /\ pass # None /\ pass.stage = "switch" /\ pass.generation = generation
           /\ Continues /\ pass'.stage = "settle"
           /\ wall' \in Layouts \cup {Blank} /\ unseen' \in BOOLEAN /\ failures' \in Nat
           /\ ~pass'.degraded => wall' = pass.desired.content.layout \/ unseen'
  <1>1. pass \in Pass /\ pass.stage = "switch" /\ pass.generation = generation
    BY AtIs, PassIsSomething DEF RunCommands, IsCurrent
  <1>2. pass.desired.content.layout \in Layouts
    BY <1>1, ContentEdits DEF Pass, Document
  <1>3. CASE Succeeds /\ Goto("settle")
    <2>1. /\ wall' \in Layouts \cup {Blank} /\ failures' = failures
          /\ unseen' = (wall' # pass.desired.content.layout)
      BY <1>2, <1>3 DEF Succeeds
    <2>2. unseen' \in BOOLEAN /\ (wall' = pass.desired.content.layout \/ unseen')
      BY <2>1
    <2>3. Continues /\ pass'.stage = "settle"
      BY <1>1, <1>3, GotoIs, PassIsSomething DEF Stages
    <2>4. QED
      BY <1>1, <2>1, <2>2, <2>3, PassIsSomething DEF TypeOK
  <1>4. CASE Fails /\ pass' = [pass EXCEPT !.stage = "settle", !.degraded = TRUE]
    <2>1. Continues /\ pass'.stage = "settle" /\ pass'.degraded
      BY <1>1, <1>4, PassIsSomething DEF Pass, Stages, Continues
    <2>2. wall' \in Layouts \cup {Blank} /\ unseen' = FALSE /\ failures' \in Nat
      BY <1>4 DEF TypeOK, Fails
    <2>3. QED
      BY <1>1, <2>1, <2>2, PassIsSomething
  <1>5. QED
    BY <1>3, <1>4 DEF RunCommands

(* Then it asks again, and goes on whatever the answer.                    *)
LEMMA RequeryIs ==
    ASSUME TypeOK, Requery
    PROVE  /\ pass # None /\ pass.stage = "settle"
           /\ Continues /\ pass'.stage = "projection" /\ pass'.degraded = pass.degraded
           /\ wall' = wall /\ snapshot' \in {wall, snapshot} /\ failures' \in Nat
           /\ unseen' = unseen /\ event' = event
  BY AtIs, GotoIs DEF TypeOK, Requery, Query, Stages, world

(* A visit begins with every app unvisited.                                *)
LEMMA VisitAppsIs ==
    ASSUME TypeOK, VisitApps
    PROVE  /\ pass # None /\ pass.stage = "apps" /\ pass.generation = generation
           /\ Continues /\ pass'.stage = "visit" /\ pass'.unvisited = Apps
           /\ pass'.degraded = pass.degraded
  <1>1. pass \in Pass /\ pass.stage = "apps" /\ pass.generation = generation
    BY AtIs, PassIsSomething DEF VisitApps, IsCurrent
  <1>2. QED
    BY <1>1, PassIsSomething DEF VisitApps, Pass, Stages, Continues

(* A visit stops the app, or configures it and is done with it.            *)
Halts(a) ==
    /\ a \in running /\ a \in pass.unvisited /\ (Wanted(a) # (a \in enabled))
    /\ running' = running \ {a} /\ retired' = retired \cup {a}
    /\ UNCHANGED <<enabled, pending>>
    /\ pass'.stage = "stopping" /\ pass'.unvisited = pass.unvisited
Configures(a) ==
    /\ a \in pass.unvisited
    /\ a \in running => (Wanted(a) = (a \in enabled))
    /\ Configure(a) /\ UNCHANGED <<running, retired>>
    /\ pass'.unvisited = pass.unvisited \ {a}
    /\ pass'.stage = IF pass.unvisited = {a} THEN "launch" ELSE "visit"

(* An app is stopped, or configured and done with.                         *)
LEMMA VisitIs ==
    ASSUME TypeOK, NEW a \in Apps, Visit(a)
    PROVE  /\ pass # None /\ pass.stage = "visit"
           /\ Continues /\ pass'.degraded = pass.degraded
           /\ Halts(a) \/ Configures(a)
  <1>1. pass \in Pass /\ pass.stage = "visit"
    BY AtIs, PassIsSomething DEF Visit
  <1>2. CASE a \in running /\ (Wanted(a) # (a \in enabled))
    <2>1. Goto("stopping")
      BY <1>2 DEF Visit
    <2>2. QED
      BY <1>1, <1>2, <2>1, GotoIs, PassIsSomething DEF Visit, Halts, Stages
  <1>3. CASE ~(a \in running /\ (Wanted(a) # (a \in enabled)))
    <2> DEFINE next == IF pass.unvisited = {a} THEN "launch" ELSE "visit"
               rest == pass.unvisited \ {a}
    <2>1. pass' = [pass EXCEPT !.unvisited = rest, !.stage = next]
      BY <1>1, <1>3 DEF Visit
    <2>2. next \in Stages /\ rest \in SUBSET Apps
      BY <1>1 DEF Pass, Stages
    <2>3. pass'.unvisited = rest /\ pass'.stage = next /\ pass'.degraded = pass.degraded
          /\ Continues
      <3> HIDE DEF rest, next
      <3>1. QED
        BY <1>1, <2>1, <2>2 DEF Pass, Continues
    <2>4. a \in running => (Wanted(a) = (a \in enabled))
      BY <1>3 DEF Wanted
    <2>5. Configure(a) /\ UNCHANGED <<running, retired>> /\ a \in pass.unvisited
      BY <1>3 DEF Visit
    <2>6. QED
      BY <1>1, <2>3, <2>4, <2>5, PassIsSomething DEF Configures
  <1>4. QED
    BY <1>2, <1>3

(* A pass that publishes ends, and its owner has what it waited for.       *)
LEMMA LeaveIs ==
    ASSUME TypeOK, Owned, Publish
    PROVE  /\ pass # None /\ pass \in Pass /\ pass.stage = "publish" /\ pass' = None
           /\ \/ /\ pass.owner = Loop /\ task = "pass" /\ task' = "select"
                 /\ handler' = handler
              \/ /\ pass.owner \in Handlers /\ handler[pass.owner] = "wait" /\ task' = task
                 /\ handler' = [handler EXCEPT ![pass.owner] = "idle"]
  <1>1. pass # None /\ pass \in Pass /\ pass.stage = "publish"
    BY AtIs, PassIsSomething DEF Publish
  <1>2. pass.owner \in Handlers \cup {Loop}
    BY <1>1 DEF Pass
  <1>3. Asks(pass.owner) /\ Leave(pass.owner)
    BY <1>1 DEF Owned, Publish
  <1>4. QED
    BY <1>1, <1>2, <1>3, ReconcilerAssumption DEF Asks, Leave
----------------------------------------------------------------------------
(* Types.                                                                  *)

(* Writers, and handlers that are dropped, keep the types.                 *)
LEMMA ClientTyped ==
    ASSUME TypeOK,
           \/ \E h \in Handlers : Write(h) \/ Saved(h) \/ Reapply(h) \/ GiveUp(h)
           \/ TryOut \/ Revert
    PROVE  TypeOK'
  <1>0. DocTypeOK /\ generation \in Nat
    BY DEF TypeOK, DocTypeOK
  <1>c. Edits(Effective.content) \subseteq Contents
    BY <1>0, EffectiveTyped, ContentEdits
  <1>1. ASSUME NEW h \in Handlers, Write(h) PROVE TypeOK'
    <2>1. DocTypeOK'
      BY <1>0, <1>c, <1>1, CommitTyped DEF Write
    <2>2. QED
      BY <1>1, <2>1
         DEF TypeOK, Write, requests, published, world, observed, supervisor
  <1>2. ASSUME NEW h \in Handlers, Saved(h) \/ Reapply(h) PROVE TypeOK'
    <2>1. DocTypeOK'
      BY <1>0, <1>2 DEF Saved, Reapply, docVars, DocTypeOK
    <2>2. CASE Saved(h)
      <3>1. handler' \in [Handlers -> {"idle", "save", "saveThenWait", "wait"}]
        BY <1>2, <2>2 DEF TypeOK, Saved
      <3>2. ordinary' \in BOOLEAN /\ asked' \in Nat
        BY <1>0, <2>2 DEF TypeOK, Saved
      <3>3. UNCHANGED <<projection, task, pass, topology, published, world, observed, slicer,
                        supervisor, failures>>
        BY <2>2 DEF Saved
      <3>4. QED
        BY <2>1, <3>1, <3>2, <3>3 DEF TypeOK, published, world, observed, supervisor
    <2>3. CASE Reapply(h)
      BY <1>0, <2>1, <2>3
         DEF TypeOK, Reapply, requests, published, world, observed, supervisor
    <2>4. QED
      BY <1>2, <2>2, <2>3
  <1>3. ASSUME NEW h \in Handlers, GiveUp(h) PROVE TypeOK'
    <2>1. DocTypeOK'
      BY <1>0, <1>3 DEF GiveUp, docVars, DocTypeOK
    <2>2. QED
      BY <1>3, <2>1
         DEF TypeOK, GiveUp, requests, published, world, observed, supervisor
  <1>4. CASE TryOut
    <2>1. DocTypeOK' /\ generation' \in Nat
      BY <1>0, <1>c, <1>4, PreviewTyped DEF TryOut
    <2>2. ordinary' \in BOOLEAN /\ projection' \in BOOLEAN /\ asked' \in Nat
      BY <1>4, <2>1 DEF TypeOK, TryOut
    <2>3. UNCHANGED <<task, handler, pass, topology, published, world, observed, slicer,
                      supervisor, failures>>
      BY <1>4 DEF TryOut
    <2>4. QED
      BY <2>1, <2>2, <2>3 DEF TypeOK, published, world, observed, supervisor
  <1>5. CASE Revert
    <2>1. DocTypeOK' /\ generation' \in Nat
      BY <1>0, <1>5, RevertTyped DEF Revert
    <2>2. QED
      BY <1>5, <2>1 DEF TypeOK, Revert, published, world, observed, supervisor
  <1>6. QED
    BY <1>1, <1>2, <1>3, <1>4, <1>5

(* So do displays, events and apps.                                        *)
LEMMA MachineTyped ==
    ASSUME TypeOK, Replug \/ Forward \/ (\E a \in Apps : AppExits(a) \/ Relaunch(a))
    PROVE  TypeOK'
  <1>0. generation \in Nat
    BY DEF TypeOK, DocTypeOK
  <1>1. DocTypeOK'
    BY DEF TypeOK, Replug, Forward, AppExits, Relaunch, docVars, DocTypeOK
  <1>2. CASE Replug
    <2>0. event \in BOOLEAN /\ event' \in {event, TRUE}
      BY <1>2 DEF TypeOK, Replug
    <2>1. event' \in BOOLEAN
      BY <2>0
    <2>2. wall' \in Layouts \cup {Blank} /\ upsets' \in Nat
      BY <1>2 DEF TypeOK, Replug
    <2>u. unseen' \in BOOLEAN
      BY <1>2 DEF TypeOK, Replug
    <2>c. slicer' \in [cut : Layouts \cup {Blank}, on : Bindings]
      BY <1>2 DEF TypeOK, Replug, Bindings
    <2>3. UNCHANGED <<requests, task, handler, pass, topology, published, observed,
                      supervisor, failures>>
      BY <1>2 DEF Replug
    <2>4. QED
      BY <1>1, <2>1, <2>2, <2>u, <2>c, <2>3
         DEF TypeOK, requests, published, observed, supervisor
  <1>3. CASE Forward
    <2>1. /\ ordinary' \in BOOLEAN /\ asked' \in Nat /\ event' \in BOOLEAN
          /\ UNCHANGED <<projection, task, handler, pass, topology, published, wall, upsets,
                         unseen, observed, slicer, supervisor, failures>>
      BY <1>0, <1>3 DEF TypeOK, Forward
    <2>2. QED
      BY <1>1, <2>1 DEF TypeOK, published, observed, supervisor
  <1>4. ASSUME NEW a \in Apps, AppExits(a) \/ Relaunch(a) PROVE TypeOK'
    BY <1>1, <1>4 DEF TypeOK, AppExits, Relaunch, requests, published, world, observed
  <1>5. QED
    BY <1>2, <1>3, <1>4

(* So does the task.                                                       *)
LEMMA TaskTyped ==
    ASSUME TypeOK, TakeProjection \/ TakeOrdinary \/ Coalesced \/ Poll
    PROVE  TypeOK'
  <1>1. DocTypeOK'
    BY DEF TypeOK, TakeProjection, TakeOrdinary, Coalesced, Poll, loopUnchanged, docVars,
           DocTypeOK
  <1>2. QED
    BY <1>1 DEF TypeOK, TakeProjection, TakeOrdinary, Coalesced, Poll, loopUnchanged,
                requests, published, world, supervisor

(* So does an attempt that begins.                                         *)
LEMMA ReadTyped ==
    ASSUME TypeOK, NEW owner \in Handlers \cup {Loop}, ReadDocument(owner),
           topology' \in BOOLEAN, pending' \subseteq Apps
    PROVE  TypeOK'
  <1>1. DocTypeOK'
    BY DEF TypeOK, ReadDocument, docVars, DocTypeOK
  <1>2. pass' \in Pass /\ status' \in [state : {"synced", "degraded", "reconciling"}, revision : Nat]
    BY BeginsIs DEF Begins
  <1>3. QED
    BY <1>1, <1>2 DEF TypeOK, ReadDocument, requests, world, observed

(* So does an attempt that goes on.                                        *)
LEMMA AttemptTyped ==
    ASSUME TypeOK,
           \/ QueryOutputs \/ RunCommands \/ Requery
    \/ SyncProjection \/ VisitApps \/ Stopped \/ Launch \/ DecidePins \/ Pin
           \/ \E a \in Apps : Visit(a)
    PROVE  TypeOK' /\ Continues
  <1>1. CASE QueryOutputs \/ Requery
    <2>1. Continues
      BY <1>1, QueryOutputsIs, RequeryIs
    <2>2. DocTypeOK'
      BY <1>1 DEF TypeOK, QueryOutputs, Requery, docVars, DocTypeOK
    <2>3. snapshot' \in Layouts \cup {Blank} /\ failures' \in Nat
      BY <1>1 DEF TypeOK, QueryOutputs, Requery, Query
    <2>4. unseen' \in BOOLEAN
      BY <1>1 DEF TypeOK, QueryOutputs, Requery, world
    <2>5. /\ wall' = wall /\ event' = event /\ upsets' = upsets
          /\ UNCHANGED <<requests, task, handler, topology, published, before, slicer,
                         supervisor>>
      BY <1>1 DEF QueryOutputs, Requery, world
    <2>6. QED
      BY <2>1, <2>2, <2>3, <2>4, <2>5 DEF TypeOK, Continues, requests, published, supervisor
  <1>r. CASE RunCommands
    <2>1. Continues
      BY <1>r, RunCommandsIs
    <2>2. DocTypeOK'
      BY <1>r DEF TypeOK, RunCommands, Commanded, docVars, DocTypeOK
    <2>3. wall' \in Layouts \cup {Blank} /\ unseen' \in BOOLEAN /\ failures' \in Nat
      BY <1>r, RunCommandsIs
    <2>4. /\ topology' = TRUE /\ event' = (event \/ wall' # wall)
          /\ UNCHANGED <<requests, task, handler, published, upsets, observed, supervisor>>
      BY <1>r DEF RunCommands, Commanded
    <2>5. event' \in BOOLEAN
      BY <2>4 DEF TypeOK
    <2>6. slicer' \in [cut : Layouts \cup {Blank}, on : Bindings]
      BY <1>r DEF TypeOK, RunCommands, Commanded, Bindings
    <2>7. QED
      BY <2>1, <2>2, <2>3, <2>4, <2>5, <2>6
         DEF TypeOK, Continues, requests, published, observed, supervisor
  <1>2. CASE SyncProjection
    <2>1. Continues /\ pass \in Pass /\ pass.desired.content.layout \in Layouts
      BY <1>2, AtIs, GotoIs, ContentEdits DEF SyncProjection, Continues, Pass, Document, Stages
    <2>2. DocTypeOK'
      BY <1>2 DEF TypeOK, SyncProjection, docVars, DocTypeOK
    <2>3. slicer' \in [cut : Layouts \cup {Blank}, on : Bindings] /\ topology' \in BOOLEAN
      BY <1>2, <2>1 DEF TypeOK, SyncProjection, Bindings
    <2>4. UNCHANGED <<requests, task, handler, published, world, observed, supervisor, failures>>
      BY <1>2 DEF SyncProjection
    <2>5. QED
      BY <2>1, <2>2, <2>3, <2>4
         DEF TypeOK, Continues, requests, published, world, observed, supervisor
  <1>3. CASE VisitApps
    <2>1. DocTypeOK'
      BY <1>3 DEF TypeOK, VisitApps, docVars, DocTypeOK
    <2>2. QED
      BY <1>3, <2>1, VisitAppsIs
         DEF TypeOK, VisitApps, Continues, requests, published, world, observed, supervisor
  <1>4. CASE Stopped \/ Launch \/ DecidePins
    <2>1. Continues
      BY <1>4, AtIs, GotoIs DEF Stopped, Launch, DecidePins, Stages
    <2>2. DocTypeOK'
      BY <1>4 DEF TypeOK, Stopped, Launch, DecidePins, docVars, DocTypeOK
    <2>3. QED
      BY <1>4, <2>1, <2>2
         DEF TypeOK, Stopped, Launch, DecidePins, Continues, requests, published, world,
             observed, supervisor
  <1>5. CASE Pin
    <2>1. Continues
      BY <1>5, AtIs, GotoIs DEF Pin, Stages
    <2>2. DocTypeOK'
      <3> DEFINE c == [Effective.content EXCEPT !.pinned = TRUE]
      <3>1. CASE StageReplace(DesiredVersion, [Effective EXCEPT !.content.pinned = TRUE])
        <4>1. c \in Contents
          BY EffectiveTyped, ContentEdits DEF TypeOK
        <4>2. StageReplace(DesiredVersion, [Effective EXCEPT !.content = c])
          BY <3>1
        <4>3. QED
          BY <4>1, <4>2, CommitTyped DEF TypeOK
      <3>2. CASE UNCHANGED docVars
        BY <3>2 DEF TypeOK, docVars, DocTypeOK
      <3>3. QED
        BY <1>5, <3>1, <3>2 DEF Pin
    <2>3. QED
      BY <1>5, <2>1, <2>2
         DEF TypeOK, Pin, Continues, requests, published, world, observed, supervisor
  <1>6. ASSUME NEW a \in Apps, Visit(a) PROVE TypeOK' /\ Continues
    <2>1. Continues
      BY <1>6, VisitIs
    <2>2. DocTypeOK'
      BY <1>6 DEF TypeOK, Visit, docVars, DocTypeOK
    <2>3. /\ enabled' \subseteq Apps /\ running' \subseteq Apps /\ pending' \subseteq Apps
          /\ retired' \subseteq Apps
      BY <1>6, VisitIs DEF TypeOK, Halts, Configures, Configure
    <2>4. UNCHANGED <<requests, task, handler, topology, published, world, observed,
                      slicer, failures>>
      BY <1>6 DEF Visit
    <2>5. QED
      BY <2>1, <2>2, <2>3, <2>4 DEF TypeOK, Continues, requests, published, world, observed
  <1>7. QED
    BY <1>1, <1>r, <1>2, <1>3, <1>4, <1>5, <1>6

(* So does a pass that ends.                                               *)
LEMMA PublishTyped ==
    ASSUME Typed, Publish
    PROVE  TypeOK'
  <1>1. DocTypeOK'
    BY DEF Typed, TypeOK, Publish, docVars, DocTypeOK
  <1>2. pass \in Pass /\ pass' = None
    BY LeaveIs DEF Typed
  <1>3. /\ status' \in [state : {"synced", "degraded", "reconciling"}, revision : Nat]
        /\ applied' \in Applied
    BY <1>2 DEF Publish, Pass, Document, Applied
  <1>4. task' \in {"select", "debounce", "pass"}
        /\ handler' \in [Handlers -> {"idle", "save", "saveThenWait", "wait"}]
    BY LeaveIs DEF Typed, TypeOK
  <1>5. UNCHANGED <<requests, topology, world, observed, slicer, supervisor, failures>>
    BY DEF Publish
  <1>6. QED
    BY <1>1, <1>2, <1>3, <1>4, <1>5
       DEF Typed, TypeOK, Optional, requests, world, observed, supervisor

(* A pass begins, or an attempt starts over, with whoever asked for it.    *)
LEMMA RereadTyped ==
    ASSUME Typed, StartOver \/ Superseded \/ \E owner \in Handlers \cup {Loop} : Enter(owner)
    PROVE  TypeOK'
  <1>1. CASE StartOver \/ Superseded
    <2>1. pass.owner \in Handlers \cup {Loop} /\ ReadDocument(pass.owner)
      BY <1>1, AtIs, PassIsSomething DEF Typed, StartOver, Superseded, Pass
    <2>2. topology' \in BOOLEAN /\ pending' \subseteq Apps
      BY <1>1 DEF Typed, TypeOK, StartOver, Superseded, Hold
    <2>3. QED
      BY <2>1, <2>2, ReadTyped DEF Typed
  <1>2. ASSUME NEW owner \in Handlers \cup {Loop}, Enter(owner) PROVE TypeOK'
    BY <1>2, ReadTyped DEF Typed, TypeOK, Enter
  <1>3. QED
    BY <1>1, <1>2
----------------------------------------------------------------------------
(* The steps, by kind.                                                     *)

(* The document moves.                                                     *)
Editing == (\E h \in Handlers : Write(h)) \/ TryOut \/ Revert

(* A request, the machine or the task moves.                               *)
Around ==
    \/ \E h \in Handlers : Saved(h) \/ Reapply(h)
    \/ Replug \/ Forward \/ \E a \in Apps : AppExits(a) \/ Relaunch(a)
    \/ TakeProjection \/ TakeOrdinary \/ Coalesced \/ Poll

(* An attempt begins, goes on, or ends.                                    *)
Reading == StartOver \/ Superseded \/ \E owner \in Handlers \cup {Loop} : Enter(owner)
Attempting ==
    \/ QueryOutputs \/ RunCommands \/ Requery
    \/ SyncProjection \/ VisitApps \/ Stopped \/ Launch \/ DecidePins \/ Pin
    \/ \E a \in Apps : Visit(a)
Dropping == \E h \in Handlers : GiveUp(h)

(* Every step is of one of these kinds.                                    *)
LEMMA Kinds ==
    ASSUME [Next]_vars
    PROVE  \/ Editing \/ Around \/ Reading \/ Attempting \/ Publish \/ Dropping
           \/ UNCHANGED vars
  BY DEF Next, PassStep, LoopStep, HandlerStep, Rest, Editing, Around, Reading, Attempting,
         Dropping

(* An edit is one generation, asked for or in a handler's hands.           *)
LEMMA EditingIs ==
    ASSUME Typed, Editing
    PROVE  /\ generation' = generation + 1
           /\ pass' = pass /\ applied' = applied /\ status' = status
           /\ UNCHANGED <<topology, world, observed, slicer, supervisor>>
           /\ task' = task
           /\ \/ /\ asked' = asked /\ UNCHANGED <<ordinary, projection>>
                 /\ \E h \in Handlers :
                      /\ handler[h] = "idle"
                      /\ \E next \in {"save", "saveThenWait"} :
                           handler' = [handler EXCEPT ![h] = next]
              \/ /\ asked' = generation' /\ handler' = handler
                 /\ ordinary' \/ projection'
  <1>0. DocTypeOK
    BY DEF Typed, TypeOK
  <1>c. Edits(Effective.content) \subseteq Contents
    BY <1>0, EffectiveTyped, ContentEdits
  <1>1. CASE \E h \in Handlers : Write(h)
    <2>1. generation' = generation + 1
      BY <1>0, <1>c, <1>1, CommitTyped DEF Write
    <2>2. QED
      BY <1>1, <2>1 DEF Write, requests, published
  <1>2. CASE TryOut
    <2>1. generation' = generation + 1
      BY <1>0, <1>c, <1>2, PreviewTyped DEF TryOut
    <2>2. QED
      BY <1>2, <2>1 DEF TryOut, published
  <1>3. CASE Revert
    <2>1. generation' = generation + 1
      BY <1>0, <1>3, RevertTyped DEF Revert
    <2>2. QED
      BY <1>3, <2>1 DEF Revert, published
  <1>4. QED
    BY <1>1, <1>2, <1>3 DEF Editing

(* These steps leave the document and the pass alone.                      *)
LEMMA AroundIs ==
    ASSUME Typed, Around
    PROVE  /\ UNCHANGED <<current, preview, generation, epoch>>
           /\ pass' = pass /\ applied' = applied /\ status' = status /\ topology' = topology
           /\ Owned' /\ (asked' = asked \/ asked' = generation)
  <1>1. /\ UNCHANGED <<current, preview, generation, epoch>>
        /\ pass' = pass /\ applied' = applied /\ status' = status /\ topology' = topology
    BY DEF Around, Saved, Reapply, Replug, Forward, AppExits, Relaunch, TakeProjection,
           TakeOrdinary, Coalesced, Poll, loopUnchanged, docVars, published
  <1>2. asked' = asked \/ asked' = generation
    BY DEF Around, Saved, Reapply, Replug, Forward, AppExits, Relaunch, TakeProjection,
           TakeOrdinary, Coalesced, Poll, loopUnchanged, requests
  <1>3. Owned'
    <2>1. CASE UNCHANGED <<task, handler>>
      BY <1>1, <2>1 DEF Typed, Owned, Asks
    <2>2. ASSUME NEW h \in Handlers, Saved(h) \/ Reapply(h) PROVE Owned'
      <3>1. handler[h] # "wait" /\ task' = task
            /\ \E next : handler' = [handler EXCEPT ![h] = next]
        BY <2>2 DEF Saved, Reapply
      <3>2. handler \in [Handlers -> {"idle", "save", "saveThenWait", "wait"}]
        BY DEF Typed, TypeOK
      <3>3. pass # None => pass.owner \in Handlers \cup {Loop}
        BY PassIsSomething DEF Typed, Pass
      <3>4. QED
        BY <1>1, <3>1, <3>2, <3>3 DEF Typed, Owned, Asks
    <2>3. CASE TakeProjection \/ TakeOrdinary \/ Coalesced \/ Poll
      <3>1. task # "pass" /\ handler' = handler
        BY <2>3 DEF TakeProjection, TakeOrdinary, Coalesced, Poll, loopUnchanged
      <3>2. QED
        BY <1>1, <3>1 DEF Typed, Owned, Asks
    <2>4. CASE Replug \/ Forward \/ \E a \in Apps : AppExits(a) \/ Relaunch(a)
      BY <2>1, <2>4 DEF Replug, Forward, AppExits, Relaunch
    <2>5. QED
      BY <2>2, <2>3, <2>4 DEF Around
  <1>4. QED
    BY <1>1, <1>2, <1>3

(* An attempt begins for somebody who waits for it, and changes no more    *)
(* than the status, the flag and what is held back.                        *)
Reads(owner) ==
    /\ Begins(owner) /\ Asks(owner)
    /\ pass = None \/ Owns(owner)
    /\ UNCHANGED <<current, preview, generation, epoch>>
    /\ UNCHANGED <<ordinary, projection, asked, task, handler, applied>>
    /\ UNCHANGED <<world, observed, slicer, enabled, running, retired>>
    /\ status'.state = "reconciling"

(* Whoever begins an attempt waits for it.                                 *)
LEMMA ReadingIs == Typed /\ Reading => \E owner \in Handlers \cup {Loop} : Reads(owner)
  <1> SUFFICES ASSUME Typed, Reading
               PROVE  \E owner \in Handlers \cup {Loop} : Reads(owner)
    OBVIOUS
  <1>1. CASE StartOver \/ Superseded
    <2>1. pass \in Pass /\ pass # None /\ pass.owner \in Handlers \cup {Loop}
          /\ ReadDocument(pass.owner)
      BY <1>1, AtIs, PassIsSomething DEF Typed, StartOver, Superseded, Pass
    <2>2. QED
      BY <2>1, BeginsIs DEF Reads, Typed, Owned, Owns, ReadDocument, docVars, requests
  <1>2. ASSUME NEW owner \in Handlers \cup {Loop}, Enter(owner) PROVE Reads(owner)
    BY <1>2, BeginsIs DEF Reads, Typed, Enter, ReadDocument, docVars, requests
  <1>3. QED
    BY <1>1, <1>2 DEF Reading

(* An attempt that goes on moves the document only by pinning.             *)
LEMMA AttemptingIs ==
    ASSUME Typed, Attempting
    PROVE  /\ Continues /\ pass # None /\ pass' # None
           /\ UNCHANGED <<ordinary, projection, asked, task, handler, applied, status>>
           /\ \/ UNCHANGED <<current, preview, generation, epoch>>
              \/ pass.stage = "pin" /\ generation' = generation + 1
  <1>1. Continues /\ pass # None /\ pass' # None
    BY AttemptTyped, PassIsSomething, ReconcilerAssumption
       DEF Typed, Attempting, Continues
  <1>2. UNCHANGED <<ordinary, projection, asked, task, handler, applied, status>>
    BY DEF Attempting, QueryOutputs, RunCommands, Commanded, Requery, SyncProjection, VisitApps,
           Stopped, Launch, DecidePins, Pin,
           Visit, requests, published
  <1>3. CASE Pin
    <2>1. pass.stage = "pin"
      BY <1>3, AtIs DEF Pin
    <2>2. QED
      BY <1>1, <1>2, <1>3, <2>1 DEF Pin, docVars, StageReplace
  <1>4. CASE ~Pin
    <2>1. UNCHANGED <<current, preview, generation, epoch>>
      BY <1>4 DEF Attempting, QueryOutputs, RunCommands, Commanded, Requery, SyncProjection,
                  VisitApps, Stopped, Launch,
                  DecidePins, Visit, docVars
    <2>2. QED
      BY <1>1, <1>2, <2>1
  <1>5. QED
    BY <1>3, <1>4

(* A dropped handler takes its own pass along.                             *)
LEMMA DroppingIs ==
    ASSUME Typed, NEW h \in Handlers, GiveUp(h)
    PROVE  /\ (pass' = pass /\ ~Owns(h)) \/ pass' = None
           /\ handler' = [handler EXCEPT ![h] = "idle"] /\ task' = task
           /\ UNCHANGED <<current, preview, generation, epoch>>
           /\ UNCHANGED <<ordinary, projection, asked, applied, status>>
           /\ UNCHANGED <<world, observed, slicer, supervisor>>
           /\ MayGiveUp
  BY DEF GiveUp, Owns, docVars, requests, published

(* What a pass records when it ends.                                       *)
LEMMA PublishIs ==
    ASSUME Typed, Publish
    PROVE  /\ UNCHANGED <<current, preview, generation, epoch>>
           /\ UNCHANGED <<ordinary, projection, asked, topology>>
           /\ UNCHANGED <<world, observed, slicer, supervisor>>
           /\ applied' = [content |-> pass.desired.content, generation |-> pass.generation]
           /\ applied' # None
           /\ status'.state = IF pass.degraded THEN "degraded" ELSE "synced"
  <1>1. pass \in Pass
    BY LeaveIs DEF Typed
  <1>2. applied' \in Applied
    BY <1>1 DEF Publish, Applied, Pass, Document
  <1>3. QED
    BY <1>2, ReconcilerAssumption DEF Publish, docVars, requests

(* Every step leaves every variable in its type, and a pass its owner's.   *)
LEMMA TypedStep == Typed /\ [Next]_vars => Typed'
  <1> SUFFICES ASSUME Typed, [Next]_vars PROVE Typed'
    OBVIOUS
  <1>0. handler \in [Handlers -> {"idle", "save", "saveThenWait", "wait"}]
        /\ (pass # None => pass.owner \in Handlers \cup {Loop})
    BY PassIsSomething DEF Typed, TypeOK, Pass
  <1>1. CASE Editing
    <2>1. TypeOK'
      BY <1>1, ClientTyped DEF Typed, Editing
    <2>2. Owned'
      BY <1>0, <1>1, EditingIs DEF Typed, Owned, Asks
    <2>3. QED
      BY <2>1, <2>2 DEF Typed
  <1>2. CASE Around
    <2>1. TypeOK'
      BY <1>2, ClientTyped, MachineTyped, TaskTyped DEF Typed, Around
    <2>2. QED
      BY <1>2, <2>1, AroundIs DEF Typed
  <1>3. CASE Reading
    <2>1. TypeOK'
      BY <1>3, RereadTyped DEF Reading
    <2>2. PICK owner \in Handlers \cup {Loop} : Reads(owner)
      BY <1>3, ReadingIs
    <2>3. Owned'
      BY <2>2 DEF Owned, Asks, Reads, Begins
    <2>4. QED
      BY <2>1, <2>3 DEF Typed
  <1>4. CASE Attempting
    <2>1. TypeOK'
      BY <1>4, AttemptTyped DEF Typed, Attempting
    <2>2. Owned'
      BY <1>4, AttemptingIs DEF Typed, Owned, Asks, Continues
    <2>3. QED
      BY <2>1, <2>2 DEF Typed
  <1>5. CASE Publish
    <2>1. Owned'
      BY <1>5, LeaveIs DEF Typed, Owned
    <2>2. QED
      BY <1>5, <2>1, PublishTyped DEF Typed
  <1>6. ASSUME NEW h \in Handlers, GiveUp(h) PROVE Typed'
    <2>1. TypeOK'
      BY <1>6, ClientTyped DEF Typed
    <2>2. Owned'
      BY <1>0, <1>6, DroppingIs DEF Typed, Owned, Owns, Asks
    <2>3. QED
      BY <2>1, <2>2 DEF Typed
  <1>7. CASE UNCHANGED vars
    BY <1>7 DEF Typed, TypeOK, Owned, Asks, vars, docVars, DocTypeOK, requests, published, world,
                observed, supervisor
  <1>8. QED
    BY <1>1, <1>2, <1>3, <1>4, <1>5, <1>6, <1>7, Kinds DEF Dropping
----------------------------------------------------------------------------
(* What holds whoever is dropped.                                          *)

(* The generations that are compared are numbers.                          *)
LEMMA AgesTyped ==
    ASSUME Typed
    PROVE  /\ generation \in Nat /\ asked \in Nat
           /\ pass # None => pass \in Pass /\ pass.generation \in Nat
           /\ applied # None => applied \in Applied /\ applied.generation \in Nat
  BY PassIsSomething DEF Typed, TypeOK, DocTypeOK, Pass, Applied, Optional

(* Generations stay in order.                                              *)
LEMMA AgedStep == Typed /\ Aged /\ [Next]_vars => Aged'
  <1> SUFFICES ASSUME Typed, Aged, [Next]_vars PROVE Aged'
    OBVIOUS
  <1>1. CASE Editing
    BY <1>1, EditingIs, AgesTyped DEF Aged
  <1>2. CASE Around
    BY <1>2, AroundIs, AgesTyped DEF Aged
  <1>3. CASE Reading
    <2>1. PICK owner \in Handlers \cup {Loop} : Reads(owner)
      BY <1>3, ReadingIs
    <2>2. QED
      BY <2>1, AgesTyped DEF Aged, Reads, Begins
  <1>4. CASE Attempting
    <2>1. /\ Continues /\ pass # None /\ UNCHANGED <<asked, applied>>
          /\ generation' = generation \/ generation' = generation + 1
      BY <1>4, AttemptingIs
    <2>2. QED
      BY <2>1, AgesTyped DEF Aged, Continues
  <1>5. CASE Publish
    <2>1. pass # None /\ pass' = None
      BY <1>5, LeaveIs DEF Typed
    <2>2. UNCHANGED <<generation, asked>> /\ applied'.generation = pass.generation
      BY <1>5, PublishIs
    <2>3. QED
      BY <2>1, <2>2, AgesTyped DEF Aged
  <1>6. ASSUME NEW h \in Handlers, GiveUp(h) PROVE Aged'
    BY <1>6, DroppingIs DEF Aged
  <1>7. CASE UNCHANGED vars
    BY <1>7 DEF Aged, vars, docVars, requests, published
  <1>8. QED
    BY <1>1, <1>2, <1>3, <1>4, <1>5, <1>6, <1>7, Kinds DEF Dropping

(* A current attempt works from the live document.                         *)
LEMMA ConsistentStep == Typed /\ Aged /\ Consistent /\ [Next]_vars => Consistent'
  <1> SUFFICES ASSUME Typed, Aged, Consistent, [Next]_vars PROVE Consistent'
    OBVIOUS
  <1>1. CASE Editing
    <2>1. generation' = generation + 1 /\ pass' = pass
      BY <1>1, EditingIs
    <2>2. QED
      BY <2>1, AgesTyped DEF Aged, Consistent, IsCurrent
  <1>2. CASE Around
    BY <1>2, AroundIs DEF Consistent, IsCurrent, Effective
  <1>3. CASE Reading
    <2>1. PICK owner \in Handlers \cup {Loop} : Reads(owner)
      BY <1>3, ReadingIs
    <2>2. QED
      BY <2>1 DEF Reads, Begins, Consistent, Effective
  <1>4. CASE Attempting
    <2>1. Continues /\ pass # None
      BY <1>4, AttemptingIs
    <2>2. CASE pass.stage = "pin" /\ generation' = generation + 1
      BY <2>1, <2>2, AgesTyped DEF Aged, Consistent, IsCurrent, Continues
    <2>3. CASE UNCHANGED <<current, preview, generation, epoch>>
      <3>1. pass'.stage = "pin" => preview = None
        <4>1. CASE QueryOutputs \/ RunCommands \/ Requery
          BY <4>1, QueryOutputsIs, RunCommandsIs, RequeryIs DEF Typed
        <4>2. CASE VisitApps
          BY <4>2, VisitAppsIs DEF Typed
        <4>3. CASE SyncProjection \/ Stopped \/ Launch \/ Pin
          BY <2>1, <4>3, GotoIs DEF Typed, Stages, SyncProjection, Stopped, Launch, Pin
        <4>4. CASE DecidePins
          <5>1. Goto(IF ToPin THEN "pin" ELSE "publish")
            BY <4>4 DEF DecidePins
          <5>2. pass'.stage = IF ToPin THEN "pin" ELSE "publish"
            BY <2>1, <5>1, GotoIs DEF Typed, Stages
          <5>3. QED
            BY <5>2 DEF ToPin
        <4>5. ASSUME NEW a \in Apps, Visit(a) PROVE pass'.stage # "pin"
          BY <4>5, VisitIs DEF Typed, Halts, Configures
        <4>6. QED
          BY <1>4, <4>1, <4>2, <4>3, <4>4, <4>5 DEF Attempting
      <3>2. QED
        BY <2>1, <2>3, <3>1 DEF Consistent, IsCurrent, Effective, Continues
    <2>4. QED
      BY <1>4, <2>2, <2>3, AttemptingIs
  <1>5. CASE Publish
    BY <1>5, LeaveIs DEF Typed, Consistent
  <1>6. ASSUME NEW h \in Handlers, GiveUp(h) PROVE Consistent'
    BY <1>6, DroppingIs DEF Consistent, IsCurrent, Effective
  <1>7. CASE UNCHANGED vars
    BY <1>7 DEF Consistent, IsCurrent, Effective, vars, docVars
  <1>8. QED
    BY <1>1, <1>2, <1>3, <1>4, <1>5, <1>6, <1>7, Kinds DEF Dropping

(* The status of a pass under way stays `reconciling`.                     *)
LEMMA ReportedStep == Typed /\ Reported /\ [Next]_vars => Reported'
  <1> SUFFICES ASSUME Typed, Reported, [Next]_vars PROVE Reported'
    OBVIOUS
  <1>1. CASE Editing \/ Around \/ Attempting
    BY <1>1, EditingIs, AroundIs, AttemptingIs DEF Reported
  <1>2. CASE Reading
    BY <1>2, ReadingIs DEF Reported, Reads
  <1>3. CASE Publish
    BY <1>3, LeaveIs DEF Typed, Reported
  <1>4. CASE Dropping
    BY <1>4, DroppingIs DEF Dropping, Reported
  <1>5. CASE UNCHANGED vars
    BY <1>5 DEF Reported, vars, published
  <1>6. QED
    BY <1>1, <1>2, <1>3, <1>4, <1>5, Kinds

(* What an attempt has done stays done until it ends.                      *)
LEMMA AttemptedStep == Typed /\ Attempted /\ [Next]_vars => Attempted'
  <1> SUFFICES ASSUME Typed, Attempted, [Next]_vars PROVE Attempted'
    OBVIOUS
  <1> DEFINE Alike == UNCHANGED <<running, enabled, pending, slicer>>
  <1>1. CASE Alike /\ pass' \in {pass, None}
    BY <1>1 DEF Attempted, Within, Configured
  <1>2. CASE Editing
    BY <1>1, <1>2, EditingIs DEF world, supervisor
  <1>3. CASE Around
    <2>1. pass' = pass
      BY <1>3, AroundIs
    <2>2. CASE Replug
      <3>1. slicer'.cut = slicer.cut /\ UNCHANGED <<running, enabled, pending>>
        BY <2>2 DEF Typed, TypeOK, Replug, supervisor
      <3>2. QED
        BY <2>1, <3>1 DEF Attempted, Within, Configured
    <2>3. ASSUME NEW a \in Apps, AppExits(a) \/ Relaunch(a) PROVE Attempted'
      <3>1. UNCHANGED <<enabled, pending, slicer>>
        BY <2>3 DEF AppExits, Relaunch, world
      <3>2. running' \subseteq enabled
        BY <2>3 DEF AppExits, Relaunch, Attempted
      <3>3. QED
        BY <2>1, <3>1, <3>2 DEF Attempted, Within, Configured
    <2>4. CASE ~Replug /\ ~(\E a \in Apps : AppExits(a) \/ Relaunch(a))
      <3>1. Alike
        BY <1>3, <2>4 DEF Around, Saved, Reapply, Forward, TakeProjection, TakeOrdinary,
                          Coalesced, Poll, loopUnchanged, world, supervisor
      <3>2. QED
        BY <1>1, <2>1, <3>1
    <2>5. QED
      BY <2>2, <2>3, <2>4
  <1>4. CASE Reading
    <2>1. PICK owner \in Handlers \cup {Loop} : Reads(owner)
      BY <1>4, ReadingIs
    <2>2. pass'.stage = "outputs" /\ UNCHANGED <<running, enabled>>
      BY <2>1 DEF Reads, Begins
    <2>3. QED
      BY <2>2 DEF Attempted, Within, AfterSettle, AfterProjection, Visiting, Visited, Ending
  <1>5. CASE Publish
    BY <1>1, <1>5, PublishIs, LeaveIs DEF Typed, world, supervisor
  <1>6. ASSUME NEW h \in Handlers, GiveUp(h) PROVE Attempted'
    BY <1>1, <1>6, DroppingIs DEF world, supervisor
  <1>7. CASE UNCHANGED vars
    BY <1>1, <1>7 DEF vars, world, supervisor
  <1>8. CASE Attempting
    <2>0. Continues /\ pass # None /\ pass' # None
      BY <1>8, AttemptingIs
    <2>1. CASE QueryOutputs \/ RunCommands \/ Requery
      <3>1. UNCHANGED <<running, enabled>>
        BY <2>1 DEF QueryOutputs, RunCommands, Commanded, Requery, supervisor
      <3>2. pass'.stage \in {"switch", "settle", "projection"}
        BY <2>1, QueryOutputsIs, RunCommandsIs, RequeryIs DEF Typed
      <3>3. QED
        BY <2>0, <3>1, <3>2
           DEF Attempted, Within, AfterSettle, AfterProjection, Visiting, Visited, Ending,
               Continues
    <2>2. CASE SyncProjection
      <3>1. pass.stage = "projection" /\ pass'.stage = "apps" /\ pass'.degraded = pass.degraded
        BY <2>0, <2>2, AtIs, GotoIs DEF Typed, SyncProjection, Stages
      <3>2. slicer'.cut = pass.desired.content.layout /\ UNCHANGED <<running, enabled>>
        BY <2>2 DEF SyncProjection, KeepsSlicer, world, supervisor
      <3>3. QED
        BY <2>0, <3>1, <3>2
           DEF Attempted, Within, AfterSettle, AfterProjection, Visiting, Visited, Ending,
               Continues, Stages
    <2>3. CASE VisitApps
      <3>1. Alike
        BY <2>3 DEF VisitApps, world, supervisor
      <3>2. QED
        BY <2>0, <2>3, <3>1, VisitAppsIs
           DEF Typed, Attempted, Within, AfterSettle, AfterProjection, Visiting, Visited, Ending,
               Continues, Stages
    <2>4. ASSUME NEW a \in Apps, Visit(a) PROVE Attempted'
      <3>1. /\ pass.stage = "visit" /\ pass'.degraded = pass.degraded
            /\ pass'.stage \in {"visit", "stopping", "launch"}
            /\ pass'.stage = "launch" => pass'.unvisited = {}
            /\ UNCHANGED slicer
        BY <2>4, VisitIs DEF Typed, Halts, Configures, Visit, world
      <3>2. \A b \in Apps \ pass.unvisited : Configured(b)
        BY <2>0, <3>1 DEF Attempted, Within, Visiting
      <3>3. /\ running' \subseteq enabled'
            /\ \A b \in Apps \ pass'.unvisited : Configured(b)'
        <4>1. CASE Halts(a)
          BY <2>0, <3>2, <4>1 DEF Halts, Attempted, Configured, Continues
        <4>2. CASE Configures(a)
          BY <2>0, <3>2, <4>2
             DEF Configures, Configure, Wanted, Attempted, Configured, Continues
        <4>3. QED
          BY <2>4, <4>1, <4>2, VisitIs DEF Typed
      <3>4. QED
        BY <2>0, <3>1, <3>3
           DEF Attempted, Within, AfterSettle, AfterProjection, Visiting, Visited, Ending,
               Continues, Stages
    <2>5. CASE Stopped \/ Launch \/ DecidePins \/ Pin
      <3>1. /\ pass'.degraded = pass.degraded /\ pass'.unvisited = pass.unvisited
            /\ <<pass.stage, pass'.stage>> \in
                 {<<"stopping", "visit">>, <<"launch", "adopt">>, <<"adopt", "pin">>,
                  <<"adopt", "publish">>, <<"pin", "publish">>}
        BY <2>0, <2>5, AtIs, GotoIs DEF Typed, Stopped, Launch, DecidePins, Pin, Stages
      <3>2. /\ UNCHANGED <<slicer, enabled, pending>>
            /\ running' \subseteq enabled
        BY <2>5 DEF Attempted, Stopped, Launch, DecidePins, Pin, world, supervisor
      <3>3. QED
        BY <2>0, <3>1, <3>2
           DEF Attempted, Within, Configured, AfterSettle, AfterProjection, Visiting, Visited,
               Ending, Continues, Stages
    <2>6. QED
      BY <1>8, <2>1, <2>2, <2>3, <2>4, <2>5 DEF Attempting
  <1>9. QED
    BY <1>2, <1>3, <1>4, <1>5, <1>6, <1>7, <1>8, Kinds DEF Dropping

(* What its commands have left stays, or is noticed.                       *)
LEMMA ShownStep == Typed /\ Shown /\ [Next]_vars => Shown'
  <1> SUFFICES ASSUME Typed, Shown, [Next]_vars PROVE Shown'
    OBVIOUS
  <1>1. CASE pass' \in {pass, None} /\ UNCHANGED <<wall, snapshot, unseen, task>>
    BY <1>1 DEF Shown, AsAsked, Within, Owns
  <1>2. CASE Editing \/ Publish
    BY <1>1, <1>2, EditingIs, PublishIs, LeaveIs DEF Typed, Shown, Within, world, observed
  <1>3. CASE Around
    <2>1. pass' = pass /\ Owned'
      BY <1>3, AroundIs
    <2>2. CASE Replug
      <3>1. /\ wall' \in {wall, Blank} /\ UNCHANGED <<snapshot, task>>
            /\ unseen => unseen'
            /\ wall' # wall /\ (At("settle") \/ wall' = snapshot) => unseen'
        BY <2>2 DEF Replug, observed
      <3>2. Within({"settle"}) => At("settle")
        BY AtIs DEF Within
      <3>3. QED
        BY <2>1, <3>1, <3>2 DEF Shown, AsAsked, Within, Owns
    <2>3. CASE TakeProjection \/ TakeOrdinary \/ Coalesced \/ Poll
      <3>1. /\ task # "pass" /\ UNCHANGED <<wall, unseen>>
            /\ snapshot' = snapshot \/ task' = "pass"
        BY <2>3 DEF TakeProjection, TakeOrdinary, Coalesced, Poll, loopUnchanged, world
      <3>2. ~Owns(Loop)
        BY <3>1 DEF Typed, Owned, Asks, Owns
      <3>3. QED
        BY <2>1, <3>1, <3>2 DEF Shown, AsAsked, Within, Owns
    <2>4. CASE \/ Forward \/ \E h \in Handlers : Saved(h) \/ Reapply(h)
               \/ \E a \in Apps : AppExits(a) \/ Relaunch(a)
      <3>1. UNCHANGED <<wall, snapshot, unseen, task>>
        BY <2>4 DEF Forward, Saved, Reapply, AppExits, Relaunch, world, observed
      <3>2. QED
        BY <1>1, <2>1, <3>1
    <2>5. QED
      BY <1>3, <2>2, <2>3, <2>4 DEF Around
  <1>4. CASE Reading
    <2>1. PICK owner \in Handlers \cup {Loop} : Reads(owner)
      BY <1>4, ReadingIs
    <2>2. pass'.stage = "outputs"
      BY <2>1 DEF Reads, Begins
    <2>3. QED
      BY <2>2 DEF Shown, Within, AfterSettle
  <1>5. CASE Attempting
    <2>0. Continues /\ pass # None /\ pass' # None /\ task' = task
      BY <1>5, AttemptingIs
    <2>1. CASE QueryOutputs
      BY <2>0, <2>1, QueryOutputsIs DEF Typed, Shown, AsAsked, Within, AfterSettle, Continues
    <2>2. CASE RunCommands
      BY <2>0, <2>2, RunCommandsIs DEF Typed, Shown, Within, AfterSettle, Continues
    <2>3. CASE Requery
      BY <2>0, <2>3, RequeryIs DEF Typed, Shown, AsAsked, Within, AfterSettle, Continues
    <2>4. CASE ~QueryOutputs /\ ~RunCommands /\ ~Requery
      <3>1. pass'.degraded = pass.degraded /\ pass.stage \in AfterSettle
            /\ pass'.stage # "settle"
        <4>1. CASE SyncProjection \/ Stopped \/ Launch \/ DecidePins \/ Pin
          BY <4>1, AtIs, GotoIs
             DEF Typed, Stages, AfterSettle, SyncProjection, Stopped, Launch, DecidePins, Pin
        <4>2. CASE VisitApps \/ \E a \in Apps : Visit(a)
          BY <4>2, VisitAppsIs, VisitIs DEF Typed, AfterSettle, Stages, Halts, Configures
        <4>3. QED
          BY <1>5, <2>4, <4>1, <4>2 DEF Attempting
      <3>2. UNCHANGED <<wall, snapshot, unseen>>
        BY <1>5, <2>4 DEF Attempting, SyncProjection, VisitApps, Stopped, Launch, DecidePins,
                          Pin, Visit, world, observed
      <3>3. QED
        BY <2>0, <3>1, <3>2 DEF Shown, AsAsked, Within, Owns, Continues
    <2>5. QED
      BY <2>1, <2>2, <2>3, <2>4
  <1>6. ASSUME NEW h \in Handlers, GiveUp(h) PROVE Shown'
    BY <1>1, <1>6, DroppingIs DEF world, observed
  <1>7. CASE UNCHANGED vars
    BY <1>1, <1>7 DEF vars, world, observed
  <1>8. QED
    BY <1>2, <1>3, <1>4, <1>5, <1>6, <1>7, Kinds DEF Dropping

(* What was asked for stays owed, under way or done.                       *)
LEMMA ServedStep == Typed /\ Aged /\ Served /\ [Next]_vars => Served'
  <1> SUFFICES ASSUME Typed, Aged, Served, [Next]_vars PROVE Served'
    OBVIOUS
  <1>1. CASE Editing
    <2>1. pass' = pass /\ applied' = applied /\ task' = task
      BY <1>1, EditingIs
    <2>2. CASE asked' = asked /\ UNCHANGED <<ordinary, projection>>
      BY <2>1, <2>2 DEF Served, TaskOwes, Owns
    <2>3. CASE ordinary' \/ projection'
      BY <2>3 DEF Served, TaskOwes
    <2>4. QED
      BY <1>1, <2>2, <2>3, EditingIs
  <1>2. CASE Around
    <2>1. pass' = pass /\ applied' = applied /\ Owned'
      BY <1>2, AroundIs
    <2>2. CASE ordinary'
      BY <2>2 DEF Served, TaskOwes
    <2>3. CASE task = "select" /\ task' = "pass"
      BY <2>1, <2>3 DEF Typed, Owned, Asks, Served, TaskOwes, Owns
    <2>4. CASE UNCHANGED <<ordinary, projection, asked, task>>
      BY <2>1, <2>4 DEF Served, TaskOwes, Owns
    <2>5. CASE task' = "debounce"
      BY <2>5 DEF Served, TaskOwes
    <2>6. CASE Coalesced
      BY <2>1, <2>6 DEF Coalesced, Typed, Owned, Asks, Served, TaskOwes, Owns
    <2>7. QED
      BY <1>2, <2>2, <2>3, <2>4, <2>5, <2>6
         DEF Around, Saved, Reapply, Replug, Forward, AppExits, Relaunch, TakeProjection,
             TakeOrdinary, Poll, requests
  <1>3. CASE Reading
    <2>1. PICK owner \in Handlers \cup {Loop} : Reads(owner)
      BY <1>3, ReadingIs
    <2>2. pass' # None /\ pass'.owner = owner /\ pass'.generation = generation
      BY <2>1, ReconcilerAssumption DEF Reads, Begins
    <2>3. (pass = None \/ Owns(owner)) /\ UNCHANGED <<ordinary, projection, asked, task, applied>>
      BY <2>1 DEF Reads
    <2>4. QED
      BY <2>2, <2>3 DEF Served, TaskOwes, Owns, Aged
  <1>4. CASE Attempting
    <2>1. /\ Continues /\ pass # None /\ pass' # None
          /\ UNCHANGED <<ordinary, projection, asked, task, applied>>
      BY <1>4, AttemptingIs
    <2>2. QED
      BY <2>1 DEF Served, TaskOwes, Owns, Continues
  <1>5. CASE Publish
    <2>1. /\ pass # None /\ pass' = None
          /\ \/ pass.owner = Loop /\ task = "pass" /\ task' = "select"
             \/ pass.owner # Loop /\ task' = task
      BY <1>5, LeaveIs, ReconcilerAssumption DEF Typed
    <2>2. /\ UNCHANGED <<ordinary, projection, asked>>
          /\ applied' # None /\ applied'.generation = pass.generation
      BY <1>5, PublishIs
    <2>3. QED
      BY <2>1, <2>2, AgesTyped DEF Served, TaskOwes, Owns, Aged
  <1>6. ASSUME NEW h \in Handlers, GiveUp(h) PROVE Served'
    <2>1. /\ pass' = pass \/ (pass' = None /\ ~Owns(Loop))
          /\ UNCHANGED <<ordinary, projection, asked, task, applied>>
      BY <1>6, DroppingIs, ReconcilerAssumption DEF Owns, GiveUp
    <2>2. QED
      BY <2>1 DEF Served, TaskOwes, Owns
  <1>7. CASE UNCHANGED vars
    BY <1>7 DEF Served, TaskOwes, Owns, vars, requests, published
  <1>8. QED
    BY <1>1, <1>2, <1>3, <1>4, <1>5, <1>6, <1>7, Kinds DEF Dropping

(* All of it holds before the first pass.                                  *)
LEMMA SoundInit == Init => Sound
  <1> SUFFICES ASSUME Init PROVE Sound
    OBVIOUS
  <1>1. DocTypeOK
    BY ContentsAssumption DEF Init, EmptyDocument, DocTypeOK, Document
  <1>2. TypeOK
    BY <1>1 DEF Init, TypeOK, Optional, Bindings
  <1>3. Owned /\ Aged /\ Consistent
    BY <1>1 DEF Init, Owned, Aged, Consistent, DocTypeOK
  <1>4. Reported /\ Attempted /\ Shown /\ Served
    BY DEF Init, Reported, Attempted, Shown, Within, Served, TaskOwes, Owns
  <1>5. QED
    BY <1>2, <1>3, <1>4 DEF Sound, Typed

(* And after every step.                                                   *)
LEMMA SoundStep == Sound /\ [Next]_vars => Sound'
  BY TypedStep, AgedStep, ConsistentStep, ReportedStep, AttemptedStep, ShownStep,
     ServedStep
     DEF Sound

(* The strengthening of what holds whoever is dropped.                     *)
THEOREM SoundAlways == Spec => []Sound
  BY SoundInit, SoundStep, PTL DEF Spec

(* Requests, task, handlers, pass and machine stay what they are.          *)
THEOREM TypeCorrect == Spec => []TypeOK
  <1>1. Sound => TypeOK
    BY DEF Sound, Typed
  <1>2. QED
    BY <1>1, SoundAlways, PTL

(* Whoever is dropped, what was queued is served: at rest the last pass is *)
(* at least as new as the last request.                                    *)
THEOREM RequestsAreServed == Spec => []QueuedRequestsAreServed
  <1>1. Sound => QueuedRequestsAreServed
    BY DEF Sound, Served, TaskOwes, Owns, Quiet, QueuedRequestsAreServed
  <1>2. QED
    BY <1>1, SoundAlways, PTL

(* A pass that has launched has enabled the active app and no other, and   *)
(* holds nothing back.                                                     *)
LEMMA OnlyTheActiveApp ==
    ASSUME Typed, Attempted, Within(Visited)
    PROVE  enabled = {pass.desired.content.app} /\ pending = {}
  <1>1. pass \in Pass /\ pass.desired.content.app \in Apps
    BY PassIsSomething, ContentEdits DEF Typed, Within, Pass, Document
  <1>2. \A a \in Apps : Configured(a)
    BY DEF Attempted, Within, Visited, Visiting, Ending
  <1>3. enabled \subseteq Apps /\ pending \subseteq Apps
    BY DEF Typed, TypeOK
  <1>4. QED
    BY <1>1, <1>2, <1>3 DEF Configured

(* Whoever is dropped, a pass that says synced has switched the outputs,   *)
(* cut the slicer and configured the apps for its document: what sway      *)
(* shows instead has been noticed, will be by the next query, or came      *)
(* about where no query can tell.                                          *)
THEOREM SyncedPassesDidTheirWork == Spec => SyncedPassDidItsWork
  <1> DEFINE Did == At("publish") /\ pass' = None /\ status'.state = "synced"
                      => /\ wall = pass.desired.content.layout \/ Noticed \/ unseen
                         /\ slicer.cut = pass.desired.content.layout
                         /\ enabled = {pass.desired.content.app}
  <1>1. Sound /\ [Next]_vars => [Did]_vars
    <2> SUFFICES ASSUME Sound, [Next]_vars,
                        At("publish"), pass' = None, status'.state = "synced"
                 PROVE  /\ wall = pass.desired.content.layout \/ Noticed \/ unseen
                        /\ slicer.cut = pass.desired.content.layout
                        /\ enabled = {pass.desired.content.app}
      OBVIOUS
    <2>1. pass # None /\ pass.stage = "publish" /\ Typed /\ Attempted
          /\ Shown /\ status.state = "reconciling"
      BY AtIs DEF Sound, Reported
    <2>2. Publish
      <3>1. ~Editing /\ ~Around /\ ~Attempting
        BY <2>1, EditingIs, AroundIs, AttemptingIs
      <3>2. ~Reading
        BY <2>1, ReadingIs, ReconcilerAssumption DEF Reads, Begins
      <3>3. ~Dropping
        BY <2>1, DroppingIs DEF Dropping
      <3>4. ~(UNCHANGED vars)
        BY <2>1 DEF vars
      <3>5. QED
        BY <3>1, <3>2, <3>3, <3>4, Kinds
    <2>3. ~pass.degraded
      BY <2>1, <2>2, PublishIs
    <2>4. Within(Visited) /\ Within(AfterSettle) /\ Within(AfterProjection)
      BY <2>1 DEF Within, Visited, Ending, AfterSettle, AfterProjection, Stages
    <2>5. QED
      BY <2>1, <2>3, <2>4, OnlyTheActiveApp DEF Attempted, Shown, AsAsked, Noticed, Owns
  <1>2. QED
    BY <1>1, SoundAlways, PTL DEF Spec, SyncedPassDidItsWork

(* Whoever is dropped, adoption saves no working copy and nothing but pins.*)
THEOREM AdoptionPinsOnly == Spec => AdoptionOnlyPins
  <1> DEFINE Pinned == At("pin") /\ current' # current /\ At("publish")'
                         => /\ preview = None
                            /\ current'.content = [current.content EXCEPT !.pinned = TRUE]
                            /\ pass.desired.content = current.content
  <1>1. Sound /\ [Next]_vars => [Pinned]_vars
    <2> SUFFICES ASSUME Sound, [Next]_vars,
                        At("pin"), current' # current, At("publish")'
                 PROVE  /\ preview = None
                        /\ current'.content = [current.content EXCEPT !.pinned = TRUE]
                        /\ pass.desired.content = current.content
      OBVIOUS
    <2>1. pass # None /\ pass.stage = "pin" /\ Typed /\ Consistent
          /\ pass' # None /\ pass'.stage = "publish"
      BY AtIs DEF Sound, At
    <2>2. Pin
      <3>1. Attempting
        <4>1. ~Editing
          BY <2>1, EditingIs
        <4>2. ~Around /\ ~Publish /\ ~Dropping
          BY <2>1, AroundIs, PublishIs, DroppingIs DEF Dropping
        <4>3. ~Reading
          BY <2>1, ReadingIs DEF Reads
        <4>4. ~(UNCHANGED vars)
          BY <2>1 DEF vars
        <4>5. QED
          BY <4>1, <4>2, <4>3, <4>4, Kinds
      <3>2. QED
        BY <2>1, <3>1, AtIs
           DEF Attempting, QueryOutputs, RunCommands, Commanded, Requery, SyncProjection,
               VisitApps, Stopped, Launch, DecidePins,
               Visit
    <2>3. Matches(DesiredVersion) /\ StageReplace(DesiredVersion, [Effective EXCEPT !.content.pinned = TRUE])
      BY <2>2 DEF Pin, docVars, StageReplace
    <2>4. pass.generation = generation
      <3>1. pass.generation \in Nat
        BY <2>1, AgesTyped
      <3>2. DesiredVersion.generation = pass.generation
        BY DEF DesiredVersion, Unconditional
      <3>3. QED
        BY <2>3, <3>1, <3>2, ContentsAssumption DEF Matches
    <2>5. preview = None /\ pass.desired = Effective
      BY <2>1, <2>4 DEF Consistent, IsCurrent
    <2>6. current'.content = [current.content EXCEPT !.pinned = TRUE]
      <3> DEFINE c == [Effective.content EXCEPT !.pinned = TRUE]
      <3>1. c \in Contents
        BY <2>1, EffectiveTyped, ContentEdits DEF Typed, TypeOK
      <3>2. StageReplace(DesiredVersion, [Effective EXCEPT !.content = c])
        BY <2>3
      <3>3. current'.content = c
        BY <2>1, <3>1, <3>2, CommitTyped DEF Typed, TypeOK
      <3>4. QED
        BY <2>5, <3>3 DEF Effective
    <2>7. QED
      BY <2>5, <2>6 DEF Effective
  <1>2. QED
    BY <1>1, SoundAlways, PTL DEF Spec, AdoptionOnlyPins
----------------------------------------------------------------------------
(* What holds as long as no handler is dropped.                            *)

(* Every step but the beginning of an attempt.                             *)
Onward == Editing \/ Around \/ Attempting \/ Publish \/ UNCHANGED vars

(* Every step is onward or begins an attempt.                              *)
LEMMA NobodyDropped ==
    ASSUME ~MayGiveUp, [Next]_vars
    PROVE  Onward \/ Reading
  BY Kinds DEF Onward, Dropping, GiveUp

(* What is owed stays owed until an attempt begins.                        *)
LEMMA OwedStays ==
    ASSUME Typed, Onward, Owed
    PROVE  Owed'
  <1>0. /\ handler \in [Handlers -> {"idle", "save", "saveThenWait", "wait"}]
        /\ pass # None => pass.owner \in Handlers \cup {Loop}
    BY PassIsSomething DEF Typed, TypeOK, Pass
  <1>1. ASSUME pass' # None => pass # None /\ pass'.owner = pass.owner,
               UNCHANGED <<ordinary, projection, task, handler>>
        PROVE  Owed'
    BY <1>1 DEF Owed, TaskOwes, HandlerOwes, Owns
  <1>2. CASE Editing
    <2>1. pass' = pass /\ task' = task
      BY <1>2, EditingIs
    <2>2. CASE ordinary' \/ projection'
      BY <2>2 DEF Owed, TaskOwes
    <2>3. ASSUME UNCHANGED <<ordinary, projection>>,
                 NEW h \in Handlers, handler[h] = "idle", NEW next \in {"save", "saveThenWait"},
                 handler' = [handler EXCEPT ![h] = next]
          PROVE  Owed'
      BY <1>0, <2>3 DEF Owed, HandlerOwes
    <2>4. QED
      BY <1>2, <2>2, <2>3, EditingIs
  <1>3. CASE Around
    <2>1. pass' = pass
      BY <1>3, AroundIs
    <2>2. CASE ordinary'
      BY <2>2 DEF Owed, TaskOwes
    <2>3. CASE task' = "debounce" \/ ((TakeProjection \/ Coalesced \/ Poll) /\ task' = "pass")
      BY <2>1, <2>3
         DEF TakeProjection, Coalesced, Poll, Typed, Owned, Asks, Owns, Owed, TaskOwes
    <2>4. ASSUME NEW h \in Handlers, handler[h] \in {"idle", "saveThenWait"},
                 handler' = [handler EXCEPT ![h] = "wait"],
                 UNCHANGED <<ordinary, projection, task>>
          PROVE  Owed'
      <3>1. ~Owns(h)
        BY <2>4, ReconcilerAssumption DEF Typed, Owned, Asks, Owns
      <3>2. HandlerOwes(h)'
        BY <1>0, <2>1, <2>4, <3>1 DEF HandlerOwes, Owns
      <3>3. QED
        BY <3>2 DEF Owed
    <2>5. CASE UNCHANGED <<ordinary, projection, task, handler>>
      BY <1>1, <2>1, <2>5
    <2>6. QED
      BY <1>3, <2>2, <2>3, <2>4, <2>5
         DEF Around, Saved, Reapply, Replug, Forward, AppExits, Relaunch, TakeProjection,
             TakeOrdinary, Coalesced, Poll, requests
  <1>4. CASE Attempting
    BY <1>1, <1>4, AttemptingIs DEF Continues
  <1>5. CASE Publish
    <2>1. pass # None /\ pass' = None
      BY <1>5, LeaveIs DEF Typed
    <2>2. UNCHANGED <<ordinary, projection>>
      BY <1>5, PublishIs
    <2>3. CASE pass.owner = Loop /\ task = "pass" /\ handler' = handler
      BY <2>1, <2>2, <2>3 DEF Owed, TaskOwes, HandlerOwes, Owns
    <2>4. CASE pass.owner \in Handlers /\ handler[pass.owner] = "wait" /\ task' = task
               /\ handler' = [handler EXCEPT ![pass.owner] = "idle"]
      <3>1. CASE TaskOwes
        BY <2>1, <2>2, <2>4, <3>1 DEF Owed, TaskOwes, Owns
      <3>2. ASSUME NEW h \in Handlers, HandlerOwes(h) PROVE Owed'
        <4>1. h # pass.owner
          BY <2>1, <2>4, <3>2 DEF HandlerOwes, Owns
        <4>2. HandlerOwes(h)'
          BY <1>0, <2>1, <2>4, <3>2, <4>1 DEF HandlerOwes, Owns
        <4>3. QED
          BY <4>2 DEF Owed
      <3>3. QED
        BY <3>1, <3>2 DEF Owed
    <2>5. QED
      BY <1>5, <2>3, <2>4, LeaveIs DEF Typed
  <1>6. CASE UNCHANGED vars
    BY <1>1, <1>6 DEF vars, requests
  <1>7. QED
    BY <1>2, <1>3, <1>4, <1>5, <1>6 DEF Onward

(* Whoever edits the document owes a pass.                                 *)
LEMMA EditorOwes == Typed /\ Editing => Owed'
  <1> SUFFICES ASSUME Typed, Editing PROVE Owed'
    OBVIOUS
  <1>1. CASE ordinary' \/ projection'
    BY <1>1 DEF Owed, TaskOwes
  <1>2. ASSUME NEW h \in Handlers, NEW next \in {"save", "saveThenWait"},
               handler' = [handler EXCEPT ![h] = next]
        PROVE  Owed'
    <2>1. handler'[h] = next
      BY <1>2 DEF Typed, TypeOK
    <2>2. QED
      BY <2>1 DEF Owed, HandlerOwes
  <1>3. QED
    BY <1>1, <1>2, EditingIs

(* The machine, where it is touched by nobody but these.                   *)
LEMMA MachineStays ==
    ASSUME Typed, Onward
    PROVE  /\ Replug \/ RunCommands \/ wall' = wall
           /\ Replug \/ RunCommands \/ SyncProjection \/ slicer' = slicer
           /\ Forward \/ RunCommands \/ (event => event')
           /\ Poll \/ QueryOutputs \/ Requery \/ snapshot' = snapshot
           /\ QueryOutputs \/ RunCommands \/ (unseen => unseen')
  <1>1. CASE Editing \/ Publish
    BY <1>1, EditingIs, PublishIs DEF world, observed
  <1>2. CASE Around
    <2>1. CASE Replug
      <3>1. snapshot' = snapshot /\ event' \in {event, TRUE} /\ (unseen => unseen')
        BY <2>1 DEF Replug, observed
      <3>2. event => event'
        BY <3>1
      <3>3. QED
        BY <2>1, <3>1, <3>2
    <2>2. CASE Forward
      <3>1. UNCHANGED <<wall, unseen, slicer, snapshot>>
        BY <2>2 DEF Forward, observed
      <3>2. QED
        BY <2>2, <3>1
    <2>3. CASE Poll
      <3>1. UNCHANGED <<wall, unseen, slicer, event>>
        BY <2>3 DEF Poll, loopUnchanged, world
      <3>2. QED
        BY <2>3, <3>1
    <2>4. CASE ~Replug /\ ~Forward /\ ~Poll
      <3>1. UNCHANGED <<wall, unseen, slicer, snapshot, event>>
        BY <1>2, <2>4 DEF Around, Saved, Reapply, AppExits, Relaunch, TakeProjection,
                          TakeOrdinary, Coalesced, loopUnchanged, world, observed
      <3>2. QED
        BY <3>1
    <2>5. QED
      BY <2>1, <2>2, <2>3, <2>4
  <1>3. CASE Attempting
    <2>1. CASE QueryOutputs \/ RunCommands \/ Requery
      <3>1. CASE QueryOutputs
        BY <3>1, QueryOutputsIs DEF Typed, QueryOutputs
      <3>2. CASE RunCommands
        BY <3>2 DEF RunCommands, Commanded, observed
      <3>3. CASE Requery
        BY <3>3 DEF Requery, world
      <3>4. QED
        BY <2>1, <3>1, <3>2, <3>3
    <2>2. CASE ~QueryOutputs /\ ~RunCommands /\ ~Requery
      <3>1. UNCHANGED <<wall, unseen, snapshot, event>>
        BY <1>3, <2>2 DEF Attempting, SyncProjection, VisitApps, Stopped, Launch, DecidePins,
                          Pin, Visit, world, observed
      <3>2. SyncProjection \/ slicer' = slicer
        BY <1>3, <2>2 DEF Attempting, VisitApps, Stopped, Launch, DecidePins, Pin, Visit
      <3>3. QED
        BY <3>1, <3>2
    <2>3. QED
      BY <2>1, <2>2
  <1>4. CASE UNCHANGED vars
    BY <1>4 DEF vars, world, observed
  <1>5. QED
    BY <1>1, <1>2, <1>3, <1>4 DEF Onward

(* A display that comes back dark is noticed, or nobody will ever notice.  *)
LEMMA ReplugIsNoticed ==
    ASSUME Replug, wall' # wall
    PROVE  Unsettled' \/ unseen'
  BY DEF Replug, observed, Unsettled

(* What will be noticed stays to be noticed, or nobody will ever notice,   *)
(* while no attempt asks for outputs.                                      *)
LEMMA UnsettledStays ==
    ASSUME Typed, Onward, ~QueryOutputs, ~RunCommands, ~Requery, Unsettled \/ unseen
    PROVE  Unsettled' \/ unseen'
  <1>1. CASE Owed
    BY <1>1, OwedStays DEF Unsettled
  <1>2. CASE Forward
    BY <1>2 DEF Forward, Unsettled, Owed, TaskOwes
  <1>3. CASE Poll
    BY <1>3 DEF Poll, loopUnchanged, Typed, Owned, Asks, Unsettled, Owed, TaskOwes, Owns
  <1>4. CASE event /\ ~Forward
    BY <1>4, MachineStays DEF Unsettled
  <1>5. CASE snapshot # wall /\ ~Poll
    <2>1. snapshot' = snapshot
      BY <1>5, MachineStays
    <2>2. CASE wall' = wall
      BY <1>5, <2>1, <2>2 DEF Unsettled
    <2>3. CASE wall' # wall
      BY <2>1, <2>3, ReplugIsNoticed, MachineStays
    <2>4. QED
      BY <2>2, <2>3
  <1>6. CASE unseen
    BY <1>6, MachineStays
  <1>7. QED
    BY <1>1, <1>2, <1>3, <1>4, <1>5, <1>6 DEF Unsettled

(* The document of the pass, or of the last, is live unless one is owed.   *)
LEMMA UpToDateStep ==
    ASSUME ~MayGiveUp
    PROVE  Typed /\ UpToDate /\ [Next]_vars => UpToDate'
  <1> SUFFICES ASSUME Typed, UpToDate, [Next]_vars PROVE UpToDate'
    OBVIOUS
  <1>1. CASE Editing
    BY <1>1, EditingIs, EditorOwes DEF UpToDate
  <1>2. CASE Around
    <2>1. /\ pass' = pass /\ applied' = applied /\ status' = status
          /\ UNCHANGED <<current, preview>>
      BY <1>2, AroundIs
    <2>2. task = "pass" => task' = "pass"
      BY <1>2 DEF Around, Saved, Reapply, Replug, Forward, AppExits, Relaunch, TakeProjection,
                  TakeOrdinary, Coalesced, Poll, loopUnchanged
    <2>3. Owed => Owed'
      BY <1>2, OwedStays DEF Onward
    <2>4. QED
      BY <2>1, <2>2, <2>3 DEF UpToDate, Same, Effective
  <1>3. CASE Reading
    <2>1. PICK owner \in Handlers \cup {Loop} : Reads(owner)
      BY <1>3, ReadingIs
    <2>2. pass' # None /\ pass'.desired = Effective /\ UNCHANGED <<current, preview>>
      BY <2>1, ReconcilerAssumption DEF Reads, Begins
    <2>3. QED
      BY <2>2 DEF UpToDate, Same, Effective
  <1>4. CASE Attempting
    <2>1. pass # None /\ pass' # None /\ pass'.desired = pass.desired
      BY <1>4, AttemptingIs DEF Continues
    <2>2. Owed => Owed'
      BY <1>4, OwedStays DEF Onward
    <2>3. Unpinned(Effective'.content) = Unpinned(Effective.content)
      <3>1. CASE UNCHANGED <<current, preview, generation, epoch>>
        BY <3>1 DEF Effective
      <3>2. CASE Pin /\ ~(UNCHANGED <<current, preview, generation, epoch>>)
        <4> DEFINE c == [Effective.content EXCEPT !.pinned = TRUE]
        <4>1. StageReplace(DesiredVersion, [Effective EXCEPT !.content = c])
          BY <3>2 DEF Pin, docVars
        <4>2. Effective.content \in Contents /\ c \in Contents
          BY EffectiveTyped, ContentEdits DEF Typed, TypeOK
        <4>3. Effective'.content = c
          BY <4>1, <4>2, CommitTyped DEF Typed, TypeOK
        <4>4. QED
          BY <4>2, <4>3, ContentEdits
      <3>3. QED
        BY <1>4, <3>1, <3>2
           DEF Attempting, QueryOutputs, RunCommands, Commanded, Requery, SyncProjection,
               VisitApps, Stopped, Launch, DecidePins,
               Visit, docVars
    <2>4. QED
      BY <2>1, <2>2, <2>3 DEF UpToDate, Same
  <1>5. CASE Publish
    <2>1. pass # None /\ pass' = None
      BY <1>5, LeaveIs DEF Typed
    <2>2. /\ applied' # None /\ applied'.content = pass.desired.content
          /\ status'.state # "reconciling" /\ UNCHANGED <<current, preview>>
      BY <1>5, PublishIs
    <2>3. Owed => Owed'
      BY <1>5, OwedStays DEF Onward
    <2>4. QED
      BY <2>1, <2>2, <2>3 DEF UpToDate, Same, Effective
  <1>6. CASE UNCHANGED vars
    <2>1. Owed => Owed'
      BY <1>6, OwedStays DEF Onward
    <2>2. QED
      BY <1>6, <2>1 DEF UpToDate, Same, Effective, vars, docVars, published
  <1>7. QED
    BY <1>1, <1>2, <1>3, <1>4, <1>5, <1>6, NobodyDropped DEF Onward

(* A slicer whose outputs were switched is about to be replaced.           *)
LEMMA BoundStep ==
    ASSUME ~MayGiveUp
    PROVE  Typed /\ Bound /\ [Next]_vars => Bound'
  <1> SUFFICES ASSUME Typed, Bound, [Next]_vars PROVE Bound'
    OBVIOUS
  <1>1. CASE pass' = pass /\ UNCHANGED <<slicer, topology>>
    BY <1>1 DEF Bound, Within
  <1>2. CASE Replug
    <2>1. slicer'.on = "switched" => slicer.on = "switched"
      BY <1>2 DEF Typed, TypeOK, Replug
    <2>2. QED
      BY <1>2, <2>1 DEF Bound, Replug, Within
  <1>3. CASE Reading
    <2>1. PICK owner \in Handlers \cup {Loop} : Reads(owner)
      BY <1>3, ReadingIs
    <2>2. Within(Switching)' /\ UNCHANGED slicer
      BY <2>1, ReconcilerAssumption DEF Reads, Begins, Within, Switching
    <2>3. Within(Switching) => UNCHANGED topology
      BY <1>3, AtIs DEF Reading, StartOver, Superseded, Enter, Within, Switching
    <2>4. QED
      BY <2>2, <2>3 DEF Bound
  <1>4. CASE RunCommands
    BY <1>4, AttemptingIs, RunCommandsIs
       DEF Typed, Attempting, RunCommands, Commanded, Bound, Within, Switching
  <1>q. CASE QueryOutputs \/ Requery
    <2>1. pass' # None /\ pass'.stage \in {"switch", "projection"}
      BY <1>q, AttemptingIs, QueryOutputsIs, RequeryIs DEF Typed, Attempting
    <2>2. UNCHANGED <<slicer, topology>>
      BY <1>q DEF QueryOutputs, Requery
    <2>3. QED
      BY <2>1, <2>2 DEF Bound, Within, Switching
  <1>5. CASE SyncProjection
    <2>1. CASE KeepsSlicer
      BY <1>5, <2>1 DEF SyncProjection, KeepsSlicer, Bound
    <2>2. CASE ~KeepsSlicer
      <3>1. slicer'.on = "live"
        BY <1>5, <2>2 DEF SyncProjection
      <3>2. QED
        BY <3>1 DEF Bound
    <2>3. QED
      BY <2>1, <2>2
  <1>6. CASE \/ Attempting /\ ~QueryOutputs /\ ~RunCommands /\ ~Requery /\ ~SyncProjection
             \/ Publish
    <2>1. UNCHANGED slicer
      BY <1>6 DEF Attempting, VisitApps, Stopped, Launch, DecidePins, Pin, Visit, Publish
    <2>2. ~Within(Switching)
      BY <1>6, AtIs DEF Attempting, VisitApps, Stopped, Launch, DecidePins, Pin, Visit, Publish,
                        Within, Switching
    <2>3. QED
      BY <2>1, <2>2 DEF Bound
  <1>7. CASE Editing
    BY <1>1, <1>7, EditingIs
  <1>8. CASE Around /\ ~Replug
    <2>1. UNCHANGED slicer
      BY <1>8 DEF Around, Saved, Reapply, Forward, AppExits, Relaunch, TakeProjection,
                  TakeOrdinary, Coalesced, Poll, loopUnchanged
    <2>2. QED
      BY <1>1, <1>8, <2>1, AroundIs
  <1>9. CASE UNCHANGED vars
    BY <1>1, <1>9 DEF vars
  <1>10. QED
    BY <1>2, <1>3, <1>4, <1>q, <1>5, <1>6, <1>7, <1>8, <1>9, NobodyDropped DEF Onward

(* What the last pass did stands, or something is unsettled.               *)
LEMMA StandsStep ==
    ASSUME ~MayGiveUp
    PROVE  Sound /\ Stands /\ [Next]_vars => Stands'
  <1> SUFFICES ASSUME Sound, Stands, [Next]_vars PROVE Stands'
    OBVIOUS
  <1>0. Typed /\ Attempted /\ Shown /\ Reported
    BY DEF Sound
  <1>1. CASE Editing
    <2>1. pass' = pass /\ applied' = applied /\ status' = status
          /\ UNCHANGED <<slicer, enabled, pending>> /\ Unsettled'
      BY <1>0, <1>1, EditingIs, EditorOwes DEF supervisor, Unsettled
    <2>2. QED
      BY <2>1 DEF Stands
  <1>2. CASE Around
    <2>1. pass' = pass /\ applied' = applied /\ status' = status
      BY <1>0, <1>2, AroundIs
    <2>2. slicer'.cut = slicer.cut /\ UNCHANGED <<enabled, pending>>
      BY <1>0, <1>2 DEF Typed, TypeOK, Around, Saved, Reapply, Replug, Forward, AppExits, Relaunch,
                  TakeProjection, TakeOrdinary, Coalesced, Poll, loopUnchanged, supervisor
    <2>3. ~QueryOutputs /\ ~RunCommands /\ ~Requery
      BY <1>0, <2>1, QueryOutputsIs, RunCommandsIs, RequeryIs DEF Typed
    <2>4. Unsettled \/ unseen => Unsettled' \/ unseen'
      BY <1>0, <1>2, <2>3, UnsettledStays DEF Onward
    <2>5. wall' = wall \/ Unsettled' \/ unseen'
      BY <1>0, <1>2, <2>3, MachineStays, ReplugIsNoticed DEF Onward
    <2>6. QED
      BY <2>1, <2>2, <2>4, <2>5 DEF Stands
  <1>3. CASE Reading \/ Attempting
    <2>1. pass' # None
      BY <1>0, <1>3, ReadingIs, AttemptingIs, ReconcilerAssumption DEF Reads, Begins
    <2>2. QED
      BY <2>1 DEF Stands
  <1>4. CASE Publish
    <2>1. pass # None /\ pass' = None /\ pass.stage = "publish"
      BY <1>0, <1>4, LeaveIs DEF Typed
    <2>2. /\ UNCHANGED <<wall, snapshot, unseen, slicer, enabled, pending>>
          /\ applied' # None /\ applied'.content = pass.desired.content
          /\ status'.state = "synced" => ~pass.degraded
      BY <1>0, <1>4, PublishIs DEF world, observed, supervisor
    <2>3. Within(Visited) /\ Within(AfterSettle) /\ Within(AfterProjection)
      BY <2>1 DEF Within, Visited, Ending, AfterSettle, AfterProjection, Stages
    <2>4. task = "pass" /\ ~Owns(Loop) => Owed'
      BY <1>0, <1>4, OwedStays DEF Onward, Owed, TaskOwes
    <2>5. /\ slicer.cut = pass.desired.content.layout
          /\ enabled = {pass.desired.content.app} /\ pending = {}
      BY <1>0, <2>3, OnlyTheActiveApp DEF Attempted
    <2>6. ~pass.degraded =>
            wall' = pass.desired.content.layout \/ Unsettled' \/ unseen'
      BY <1>0, <2>2, <2>3, <2>4 DEF Shown, AsAsked, Unsettled
    <2>7. QED
      BY <2>1, <2>2, <2>5, <2>6 DEF Stands
  <1>5. CASE UNCHANGED vars
    <2>1. Owed => Owed'
      BY <1>0, <1>5, OwedStays DEF Onward
    <2>2. UNCHANGED <<event, unseen, snapshot, wall, slicer, enabled, pending, status, applied,
                      pass>>
      BY <1>5 DEF vars, world, observed, supervisor, published
    <2>3. QED
      BY <2>1, <2>2 DEF Stands, Unsettled
  <1>6. QED
    BY <1>1, <1>2, <1>3, <1>4, <1>5, NobodyDropped DEF Onward

(* A stopped app stays disabled or held back.                              *)
LEMMA RetiredStep ==
    ASSUME ~MayGiveUp
    PROVE  Typed /\ Attempted /\ Retired /\ [Next]_vars => Retired'
  <1> SUFFICES ASSUME Typed, Attempted, Retired, [Next]_vars PROVE Retired'
    OBVIOUS
  <1>1. CASE UNCHANGED <<running, enabled, pending, retired>>
              /\ (Within(Visiting) => Within(Visiting)')
    BY <1>1 DEF Retired
  <1>2. CASE Editing
    BY <1>1, <1>2, EditingIs DEF supervisor, Within
  <1>3. CASE Around
    <2>1. pass' = pass
      BY <1>3, AroundIs
    <2>2. ASSUME NEW a \in Apps, AppExits(a) \/ Relaunch(a) PROVE Retired'
      BY <2>1, <2>2 DEF Retired, Within, AppExits, Relaunch
    <2>3. CASE ~(\E a \in Apps : AppExits(a) \/ Relaunch(a))
      <3>1. UNCHANGED <<running, enabled, pending, retired>>
        BY <1>3, <2>3 DEF Around, Saved, Reapply, Replug, Forward, TakeProjection, TakeOrdinary,
                          Coalesced, Poll, loopUnchanged, supervisor
      <3>2. QED
        BY <1>1, <2>1, <3>1 DEF Within
    <2>4. QED
      BY <2>2, <2>3
  <1>4. CASE Reading
    <2>1. PICK owner \in Handlers \cup {Loop} : Reads(owner)
      BY <1>4, ReadingIs
    <2>2. UNCHANGED <<running, enabled, retired>>
      BY <2>1 DEF Reads
    <2>3. pending' = pending \cup (enabled \ running)
          \/ (pending' = pending /\ ~Within(Visiting))
      BY <1>4, AtIs DEF Reading, StartOver, Superseded, Hold, Enter, Within, Visiting
    <2>4. QED
      BY <2>2, <2>3 DEF Retired
  <1>5. ASSUME NEW a \in Apps, Visit(a) PROVE Retired'
    <2>1. Within(Visiting)'
      BY <1>5, VisitIs, ReconcilerAssumption
         DEF Typed, Halts, Configures, Continues, Within, Visiting
    <2>2. CASE Halts(a)
      BY <2>1, <2>2 DEF Halts, Retired
    <2>3. CASE Configures(a)
      BY <2>1, <2>3 DEF Configures, Retired
    <2>4. QED
      BY <1>5, <2>2, <2>3, VisitIs DEF Typed
  <1>6. CASE Launch
    BY <1>6 DEF Launch, Retired
  <1>7. CASE Attempting /\ ~Launch /\ ~(\E a \in Apps : Visit(a))
    <2>1. UNCHANGED <<running, enabled, pending, retired>>
      BY <1>7 DEF Attempting, QueryOutputs, RunCommands, Commanded, Requery, SyncProjection,
                  VisitApps, Stopped, DecidePins, Pin,
                  supervisor
    <2>2. Within(Visiting) => Within(Visiting)'
      <3>1. CASE Stopped
        <4>1. pass'.stage = "visit" /\ pass' # None
          BY <3>1, AtIs, GotoIs, ReconcilerAssumption DEF Typed, Stopped, Stages, Continues
        <4>2. QED
          BY <4>1 DEF Within, Visiting
      <3>2. CASE ~Stopped
        BY <1>7, <3>2, AtIs DEF Attempting, QueryOutputs, RunCommands, Commanded, Requery,
                                SyncProjection, VisitApps, DecidePins, Pin,
                                Within, Visiting
      <3>3. QED
        BY <3>1, <3>2
    <2>3. QED
      BY <1>1, <2>1, <2>2
  <1>8. CASE Publish
    <2>1. ~Within(Visiting)
      BY <1>8, LeaveIs DEF Typed, Within, Visiting
    <2>2. QED
      BY <1>1, <1>8, <2>1, PublishIs DEF supervisor
  <1>9. CASE UNCHANGED vars
    BY <1>1, <1>9 DEF vars, supervisor, Within
  <1>10. QED
    BY <1>2, <1>3, <1>4, <1>5, <1>6, <1>7, <1>8, <1>9, NobodyDropped DEF Onward

(* It holds before the first pass.                                         *)
LEMMA CompleteInit == Init => Complete
  BY DEF Init, Complete, UpToDate, Owed, TaskOwes, Owns, Bound, Stands, Within, Retired

(* And after every step.                                                   *)
LEMMA CompleteStep ==
    ASSUME ~MayGiveUp
    PROVE  Sound /\ Complete /\ [Next]_vars => Complete'
  BY UpToDateStep, BoundStep, StandsStep, RetiredStep DEF Sound, Complete

(* The strengthening of what needs every handler to finish.                *)
THEOREM CompleteAlways ==
    ASSUME ~MayGiveUp
    PROVE  Spec => []Complete
  BY CompleteInit, CompleteStep, SoundAlways, PTL DEF Spec

(* Nothing is owed and nothing will be noticed once all is quiet.          *)
LEMMA QuietIs == Quiet => pass = None /\ ~Unsettled
  BY DEF Quiet, Unsettled, Owed, TaskOwes, HandlerOwes

(* Unless a handler is dropped, the last write is applied once the daemon  *)
(* is quiet.                                                               *)
THEOREM NothingForgotten ==
    ASSUME ~MayGiveUp
    PROVE  Spec => []NothingIsForgotten
  <1>1. Complete => NothingIsForgotten
    BY QuietIs DEF Complete, UpToDate, Same, Unsettled, Quiet, NothingIsForgotten
  <1>2. QED
    BY <1>1, CompleteAlways, PTL

(* Unless a handler is dropped, synced is the truth about outputs, slicer  *)
(* and apps once the daemon is quiet, but for displays plugged in again: a *)
(* screen that went dark where no query can tell, and a slicer whose       *)
(* outputs came back lit, which no pass replaces.                          *)
THEOREM SyncedIsTrue ==
    ASSUME ~MayGiveUp
    PROVE  Spec => []SyncedMeansRealized
  <1>1. Sound /\ Complete => SyncedMeansRealized
    <2> SUFFICES ASSUME Sound, Complete, Quiet, status.state = "synced"
                 PROVE  LET live == Effective.content IN
                        /\ wall = live.layout \/ unseen
                        /\ slicer.cut = live.layout /\ slicer.on # "switched"
                        /\ enabled = {live.app} /\ running \subseteq {live.app}
                        /\ pending = {}
      BY DEF SyncedMeansRealized
    <2>1. pass = None /\ ~Unsettled /\ ~Owed
      BY QuietIs DEF Unsettled
    <2>2. applied # None /\ Same(applied.content)
      BY <2>1 DEF Complete, UpToDate
    <2>3. applied.content \in Contents /\ Effective.content \in Contents
      BY <2>2, AgesTyped, EffectiveTyped DEF Sound, Typed, TypeOK, Applied
    <2>4. /\ applied.content.layout = Effective.content.layout
          /\ applied.content.app = Effective.content.app
      BY <2>2, <2>3, SameWants DEF Same
    <2>5. /\ wall = applied.content.layout \/ unseen
          /\ slicer.cut = applied.content.layout
          /\ enabled = {applied.content.app} /\ pending = {}
      BY <2>1, <2>2 DEF Complete, Stands
    <2>6. slicer.on # "switched"
      BY <2>1 DEF Complete, Bound, Within
    <2>7. running \subseteq enabled
      BY DEF Sound, Attempted
    <2>8. QED
      BY <2>4, <2>5, <2>6, <2>7
  <1>2. QED
    BY <1>1, SoundAlways, CompleteAlways, PTL

(* Unless a handler is dropped, an app that a pass stopped is started again*)
(* only because the live document wants it.                                *)
THEOREM RetiredAppsStayStopped ==
    ASSUME ~MayGiveUp
    PROVE  Spec => RetiredStayStopped
  <1> DEFINE Wants == \A a \in retired : a \in running' \ running => a = Effective.content.app
  <1>1. Sound /\ Complete /\ [Next]_vars => [Wants]_vars
    <2> SUFFICES ASSUME Sound, Complete, [Next]_vars,
                        NEW a \in retired, a \in running' \ running
                 PROVE  a = Effective.content.app
      OBVIOUS
    <2>0. Typed /\ Attempted /\ Consistent /\ a \in Apps
          /\ (a \notin enabled \/ a \in pending \/ Within(Visiting))
      BY DEF Sound, Typed, TypeOK, Complete, Retired
    <2>1. CASE Editing \/ Publish
      BY <2>0, <2>1, EditingIs, PublishIs DEF supervisor
    <2>2. CASE Reading
      BY <2>0, <2>2, ReadingIs DEF Reads
    <2>3. CASE Around
      <3>1. ASSUME NEW b \in Apps, Relaunch(b) PROVE a # b
        BY <2>0, <3>1 DEF Relaunch, SupervisorFree, Within, Visiting
      <3>2. QED
        BY <2>3, <3>1
           DEF Around, Saved, Reapply, Replug, Forward, AppExits, Relaunch, TakeProjection,
               TakeOrdinary, Coalesced, Poll, loopUnchanged, supervisor
    <2>4. CASE Launch
      <3>1. Within(Visited) /\ IsCurrent /\ pass # None
        BY <2>4, AtIs DEF Launch, Within, Visited
      <3>2. enabled = {pass.desired.content.app} /\ pass.desired = Effective
        BY <2>0, <3>1, OnlyTheActiveApp DEF Consistent
      <3>3. QED
        BY <2>4, <3>2 DEF Launch
    <2>5. ASSUME NEW b \in Apps, Visit(b) PROVE running' \subseteq running
      BY <2>0, <2>5, VisitIs DEF Typed, Halts, Configures
    <2>6. CASE Attempting /\ ~Launch /\ ~(\E b \in Apps : Visit(b))
      BY <2>6 DEF Attempting, QueryOutputs, RunCommands, Commanded, Requery, SyncProjection,
                  VisitApps, Stopped, DecidePins, Pin,
                  supervisor
    <2>7. CASE UNCHANGED vars
      BY <2>7 DEF vars, supervisor
    <2>8. QED
      BY <2>1, <2>2, <2>3, <2>4, <2>5, <2>6, <2>7, NobodyDropped DEF Onward
  <1>2. QED
    BY <1>1, SoundAlways, CompleteAlways, PTL DEF Spec, RetiredStayStopped
====
