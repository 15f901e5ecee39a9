----------------------------- MODULE Reconciler -----------------------------
(***************************************************************************)
(* src/reconciler/mod.rs: the pass that makes the machine match the        *)
(* document, and everyone who asks for one.                                *)
(*                                                                         *)
(* Requests arrive on a channel of one (ordinary) and as a single permit   *)
(* (projection edits); one task serves both.  A write sent with ?wait runs *)
(* the pass itself, inside its own handler, and so does POST /reconcile:   *)
(* a mutex keeps passes apart, but a handler that times out or whose       *)
(* client hangs up is dropped wherever it stands.  A pass awaits displays  *)
(* and processes many times; after each await it compares the store's      *)
(* generation with the one it started from and starts over if they differ. *)
(*                                                                         *)
(* Of the document a pass reads: which outputs are lit (layout), which app *)
(* is active, and whether every display's mode is pinned.  Of the machine: *)
(* what sway shows, what the slicer was cut for, which apps run, and the   *)
(* supervisor's hold on relaunching (src/supervisor/mod.rs).               *)
(***************************************************************************)
EXTENDS Documents, FiniteSets

CONSTANTS
    Layouts, Apps,
    Blank,      \* what sway shows when it is none of the layouts: outputs are dark
    Handlers,   \* requests that may write, and run a pass in line
    Loop,       \* the reconciliation task, as the owner of a pass
    MayGiveUp,  \* may a handler be dropped at an await?
    MaxGeneration, MaxUpsets, MaxFailures  \* bounds

VARIABLES
    ordinary, projection,  \* a request is queued; the permit is there
    task,       \* the task: "select", "debounce" or "pass"
    handler,    \* per handler: "idle", "save", "wait" for, or in, a pass
    pass,       \* the pass under way, or None
    topology,   \* reconcile's own flag: outputs were switched since the last sync
    status,     \* what the last pass published
    wall,       \* the layout sway shows
    snapshot,   \* the layout as last queried
    before,     \* the layout as the pass before last left it: previous_observations
    event,      \* a compositor event is on its way to the task
    slicer,     \* [cut: the layout it was started for, on: outputs that are still there
                \* ("live"), or that commands or a replug have recreated]
    unseen,     \* history: sway shows something else than the last commands asked for,
                \* and no query will ever tell
    enabled, running, pending, \* the supervisor, as sets of apps: launch_pending too
    retired,    \* history: apps a pass stopped and no current pass started since
    applied,    \* history: content and generation the last pass to end had applied
    asked,      \* history: the newest generation somebody queued a request for
    upsets, failures  \* counts of what the bounds limit: replugs and exits, and failures

world == <<wall, event, upsets, unseen>>
supervisor == <<enabled, running, pending, retired>>
observed == <<snapshot, before>>
published == <<status, applied>>
requests == <<ordinary, projection, asked>>
vars == <<docVars, requests, task, handler, pass, topology, published, world, observed,
          slicer, supervisor, failures>>

Stages == {"outputs", "switch", "settle", "projection", "apps", "visit", "stopping", "launch",
           "adopt", "pin", "publish"}

Bindings == {"live", "switched", "replugged"}

Pass == [owner : Handlers \cup {Loop}, stage : Stages, desired : Document, generation : Nat,
         unvisited : SUBSET Apps, degraded : BOOLEAN]

Applied == [content : Contents, generation : Nat]

ASSUME ReconcilerAssumption ==
    /\ Contents = [layout : Layouts, app : Apps, pinned : BOOLEAN]
    /\ Blank \notin Layouts /\ Loop \notin Handlers
    /\ None \notin Pass \cup Applied
    /\ MayGiveUp \in BOOLEAN
    /\ MaxGeneration \in Nat /\ MaxUpsets \in Nat /\ MaxFailures \in Nat

TypeOK ==
    /\ DocTypeOK
    /\ ordinary \in BOOLEAN /\ projection \in BOOLEAN
    /\ task \in {"select", "debounce", "pass"}
    /\ handler \in [Handlers -> {"idle", "save", "saveThenWait", "wait"}]
    /\ pass = None \/ pass \in Pass
    /\ topology \in BOOLEAN
    /\ status \in [state : {"synced", "degraded", "reconciling"}, revision : Nat]
    /\ wall \in Layouts \cup {Blank}
    /\ snapshot \in Layouts \cup {Blank} /\ before \in Layouts \cup {Blank}
    /\ event \in BOOLEAN /\ unseen \in BOOLEAN
    /\ slicer \in [cut : Layouts \cup {Blank}, on : Bindings]
    /\ enabled \subseteq Apps /\ running \subseteq Apps /\ pending \subseteq Apps
    /\ retired \subseteq Apps
    /\ applied \in Optional(Applied) /\ asked \in Nat
    /\ upsets \in Nat /\ failures \in Nat

Init ==
    /\ current = EmptyDocument /\ preview = None /\ generation = 0 /\ epoch = 1
    /\ ordinary = FALSE /\ projection = FALSE
    /\ task = "pass"
    /\ handler = [h \in Handlers |-> "idle"]
    /\ pass = None /\ topology = FALSE
    /\ status = [state |-> "reconciling", revision |-> 0]
    /\ wall = Blank /\ snapshot = Blank /\ before = Blank
    /\ event = FALSE /\ unseen = FALSE
    /\ slicer = [cut |-> Blank, on |-> "live"]
    /\ enabled = {} /\ running = {} /\ pending = {} /\ retired = {}
    /\ applied = None /\ asked = 0
    /\ upsets = 0 /\ failures = 0

----------------------------------------------------------------------------
(* Writers.                                                                *)

(* One edit of a document: an output switched, an app activated, or a      *)
(* display's mode freed.                                                   *)
Edits(content) ==
    {[content EXCEPT !.layout = l] : l \in Layouts}
      \cup {[content EXCEPT !.app = a] : a \in Apps}
      \cup {[content EXCEPT !.pinned = FALSE]}

(* A commit, and the save it awaits.                                       *)
Write(h) ==
    /\ handler[h] = "idle" /\ generation < MaxGeneration
    /\ \E c \in Edits(Effective.content) :
         StageReplace(Unconditional, [Effective EXCEPT !.content = c])
    /\ \E next \in {"save", "saveThenWait"} : handler' = [handler EXCEPT ![h] = next]
    /\ UNCHANGED <<requests, task, pass, topology, published, world, observed, slicer,
                   supervisor, failures>>

(* Then it either asks for a pass or waits for one of its own.             *)
Saved(h) ==
    /\ \/ /\ handler[h] = "save"
          /\ handler' = [handler EXCEPT ![h] = "idle"]
          /\ ordinary' = TRUE /\ asked' = generation
       \/ /\ handler[h] = "saveThenWait"
          /\ handler' = [handler EXCEPT ![h] = "wait"]
          /\ UNCHANGED <<ordinary, asked>>
    /\ UNCHANGED <<docVars, projection, task, pass, topology, published, world, observed,
                   slicer, supervisor, failures>>

(* A working copy is not saved, so its handler has nothing to await.       *)
TryOut ==
    /\ generation < MaxGeneration
    /\ \E c \in Edits(Effective.content) :
         SetPreview(Unconditional, [Effective EXCEPT !.content = c])
    /\ \/ ordinary' = TRUE /\ UNCHANGED projection
       \/ projection' = TRUE /\ UNCHANGED ordinary
    /\ asked' = generation'
    /\ UNCHANGED <<task, handler, pass, topology, published, world, observed, slicer,
                   supervisor, failures>>

(* Slip: a discarded working copy asks for no pass.                        *)
RevertUnasked ==
    /\ generation < MaxGeneration
    /\ preview # None /\ ClearPreview(Unconditional)
    /\ UNCHANGED <<requests, task, handler, pass, topology, published, world, observed, slicer,
                   supervisor, failures>>

Revert ==
    /\ generation < MaxGeneration
    /\ preview # None /\ ClearPreview(Unconditional)
    /\ ordinary' = TRUE /\ asked' = generation'
    /\ UNCHANGED <<projection, task, handler, pass, topology, published, world, observed,
                   slicer, supervisor, failures>>

(* POST /reconcile runs a pass and writes nothing.                         *)
Reapply(h) ==
    /\ handler[h] = "idle"
    /\ handler' = [handler EXCEPT ![h] = "wait"]
    /\ UNCHANGED <<docVars, requests, task, pass, topology, published, world, observed,
                   slicer, supervisor, failures>>

----------------------------------------------------------------------------
(* The machine.                                                            *)

At(stage) == IF pass = None THEN FALSE ELSE pass.stage = stage

(* A display is unplugged and plugged in again: the output is a new one,   *)
(* dark or lit as sway still has it set.  The event that says so may be    *)
(* lost while sway reconnects.  An output that goes dark during the settle *)
(* delay, or that the snapshot has as dark, is not noticed by a query.     *)
Replug ==
    /\ upsets < MaxUpsets /\ upsets' = upsets + 1
    /\ wall' \in {wall, Blank}
    /\ event' \in {event, TRUE}
    /\ unseen' = (unseen \/ (wall' # wall /\ (At("settle") \/ wall' = snapshot)))
    /\ slicer' = IF slicer.on = "live" THEN [slicer EXCEPT !.on = "replugged"] ELSE slicer
    /\ UNCHANGED <<docVars, requests, task, handler, pass, topology, published, observed,
                   supervisor, failures>>

Forward ==
    /\ event /\ event' = FALSE
    /\ ordinary' = TRUE /\ asked' = generation
    /\ UNCHANGED <<docVars, projection, task, handler, pass, topology, published, wall, upsets,
                   unseen, observed, slicer, supervisor, failures>>

AppExits(a) ==
    /\ a \in running /\ upsets < MaxUpsets /\ upsets' = upsets + 1
    /\ running' = running \ {a}
    /\ UNCHANGED <<docVars, requests, task, handler, pass, topology, published, wall, event,
                   unseen, observed, slicer, enabled, pending, retired, failures>>

(* The supervisor's lock is held from the first app a pass visits to the   *)
(* launch.                                                                 *)
SupervisorFree == IF pass = None THEN TRUE ELSE pass.stage \notin {"visit", "stopping", "launch"}

(* tick, from the task or from a pass about to adopt: what is enabled and  *)
(* neither running nor held back is launched, whoever stopped it.          *)
Relaunch(a) ==
    /\ a \in (enabled \ running) \ pending
    /\ SupervisorFree
    /\ task = "select" \/ (IF pass = None THEN FALSE ELSE pass.stage = "adopt")
    /\ running' = running \cup {a}
    /\ retired' = retired \ {a}
    /\ UNCHANGED <<docVars, requests, task, handler, pass, topology, published, world, observed,
                   slicer, enabled, pending, failures>>

----------------------------------------------------------------------------
(* The task.                                                               *)

loopUnchanged == UNCHANGED <<docVars, handler, pass, topology, published, world, before, slicer,
                             supervisor, failures>>

(* A projection edit is served at once and covers what else was asked.     *)
TakeProjection ==
    /\ task = "select" /\ projection
    /\ projection' = FALSE /\ ordinary' = FALSE
    /\ task' = "pass"
    /\ UNCHANGED <<asked, snapshot>> /\ loopUnchanged

TakeOrdinary ==
    /\ task = "select" /\ ordinary
    /\ ordinary' = FALSE
    /\ task' = "debounce"
    /\ UNCHANGED <<projection, asked, snapshot>> /\ loopUnchanged

(* coalesce: half a second, or until a projection edit; then the channel   *)
(* is drained.                                                             *)
Coalesced ==
    /\ task = "debounce"
    /\ projection' \in {projection, FALSE}
    /\ ordinary' = FALSE
    /\ task' = "pass"
    /\ UNCHANGED <<asked, snapshot>> /\ loopUnchanged

(* The backstop for an event that was lost.                                *)
Poll ==
    /\ task = "select" /\ snapshot # wall
    /\ snapshot' = wall
    /\ task' = "pass"
    /\ UNCHANGED requests /\ loopUnchanged

----------------------------------------------------------------------------
(* The pass.                                                               *)

Goto(stage) == pass' = [pass EXCEPT !.stage = stage]

(* The check after an await: the document this pass works from is still    *)
(* the live one.                                                           *)
IsCurrent == pass.generation = generation

Asks(owner) == IF owner = Loop THEN task = "pass" ELSE handler[owner] = "wait"

(* Slip: the working copy is read where the effective document is meant.   *)
ReadPreview(owner) ==
    /\ pass' = [owner |-> owner, stage |-> "outputs", desired |-> preview,
                generation |-> generation, unvisited |-> {}, degraded |-> FALSE]
    /\ status' = [state |-> "reconciling", revision |-> Effective.rev]
    /\ UNCHANGED <<docVars, requests, task, handler, applied, world, observed, slicer, enabled,
                   running, retired, failures>>

(* Slip: an attempt that starts over is compared with the first one.       *)
ReadForTheFirstAttempt(owner) ==
    /\ pass' = [owner |-> owner, stage |-> "outputs", desired |-> Effective,
                generation |-> IF pass = None THEN generation ELSE pass.generation,
                unvisited |-> {}, degraded |-> FALSE]
    /\ status' = [state |-> "reconciling", revision |-> Effective.rev]
    /\ UNCHANGED <<docVars, requests, task, handler, applied, world, observed, slicer, enabled,
                   running, retired, failures>>

(* The document and its generation are one read, published as             *)
(* `reconciling`.                                                          *)
ReadDocument(owner) ==
    /\ pass' = [owner |-> owner, stage |-> "outputs", desired |-> Effective,
                generation |-> generation, unvisited |-> {}, degraded |-> FALSE]
    /\ status' = [state |-> "reconciling", revision |-> Effective.rev]
    /\ UNCHANGED <<docVars, requests, task, handler, applied, world, observed, slicer, enabled,
                   running, retired, failures>>

Enter(owner) ==
    /\ pass = None /\ Asks(owner)
    /\ ReadDocument(owner)
    /\ topology' = FALSE
    /\ UNCHANGED pending

(* Slip: the flag belongs to one attempt.                                  *)
StartOverAfresh ==
    /\ At("outputs") \/ At("switch") \/ At("projection") \/ At("apps")
    /\ ~IsCurrent
    /\ ReadDocument(pass.owner)
    /\ topology' = FALSE /\ UNCHANGED pending

(* Superseded: reconcile starts over, with its flag.                       *)
StartOver ==
    /\ At("outputs") \/ At("switch") \/ At("projection") \/ At("apps")
    /\ ~IsCurrent
    /\ ReadDocument(pass.owner)
    /\ UNCHANGED <<topology, pending>>

(* refresh_outputs: a query that fails leaves the snapshot as it is.       *)
Query ==
    \/ snapshot' = wall /\ UNCHANGED failures
    \/ failures < MaxFailures /\ failures' = failures + 1 /\ UNCHANGED snapshot

(* Commands are planned from the snapshot.                                 *)
QueryOutputs ==
    /\ At("outputs") /\ IsCurrent
    /\ Query
    /\ Goto(IF snapshot' = pass.desired.content.layout THEN "projection" ELSE "switch")
    /\ unseen' = FALSE
    /\ UNCHANGED <<docVars, requests, task, handler, topology, published, wall, event, upsets,
                   before, slicer, supervisor>>

(* One batch.  Planned from a snapshot that is out of date it may succeed  *)
(* and leave anything, and so may one of which a command fails.  The flag  *)
(* is kept in any case, for switching outputs recreates them.              *)
Succeeds ==
    /\ IF snapshot = wall THEN wall' = pass.desired.content.layout
                          ELSE wall' \in Layouts \cup {Blank}
    /\ unseen' = (wall' # pass.desired.content.layout)
    /\ UNCHANGED failures

Fails ==
    /\ failures < MaxFailures /\ failures' = failures + 1
    /\ wall' \in Layouts \cup {Blank}
    /\ unseen' = FALSE

Commanded ==
    /\ topology' = TRUE
    /\ event' = (event \/ wall' # wall)
    /\ slicer' = IF wall' # wall THEN [slicer EXCEPT !.on = "switched"] ELSE slicer
    /\ UNCHANGED <<docVars, requests, task, handler, published, upsets, observed, supervisor>>

(* Slip: a command that fails is only logged.                              *)
RunCommandsSilently ==
    /\ At("switch") /\ IsCurrent
    /\ Succeeds \/ Fails
    /\ Goto("settle")
    /\ Commanded

RunCommands ==
    /\ At("switch") /\ IsCurrent
    /\ \/ Succeeds /\ Goto("settle")
       \/ Fails /\ pass' = [pass EXCEPT !.stage = "settle", !.degraded = TRUE]
    /\ Commanded

(* Three seconds later the outputs are taken to be what was asked for.     *)
Requery ==
    /\ At("settle")
    /\ Query
    /\ Goto("projection")
    /\ UNCHANGED <<docVars, requests, task, handler, topology, published, world, before, slicer,
                   supervisor>>

(* sync_projection: a slicer is left alone only if it was cut for the same *)
(* layout and no output was switched since it was started.                 *)
KeepsSlicer == ~topology /\ slicer.cut = pass.desired.content.layout

SyncProjection ==
    /\ At("projection") /\ IsCurrent
    /\ slicer' = IF KeepsSlicer THEN slicer
                 ELSE [cut |-> pass.desired.content.layout, on |-> "live"]
    /\ topology' = FALSE
    /\ Goto("apps")
    /\ UNCHANGED <<docVars, requests, task, handler, published, world, observed, supervisor,
                   failures>>

(* reconcile_if_current takes the supervisor's lock and visits every app.  *)
VisitApps ==
    /\ At("apps") /\ IsCurrent
    /\ pass' = [pass EXCEPT !.stage = "visit", !.unvisited = Apps]
    /\ UNCHANGED <<docVars, requests, task, handler, topology, published, world, observed,
                   slicer, supervisor, failures>>

Wanted(a) == a = pass.desired.content.app

(* The app's new configuration; the hold is lifted.                        *)
Configure(a) ==
    /\ enabled' = IF Wanted(a) THEN enabled \cup {a} ELSE enabled \ {a}
    /\ pending' = pending \ {a}

Visit(a) ==
    /\ At("visit") /\ a \in pass.unvisited
    /\ IF a \in running /\ (Wanted(a) # (a \in enabled))
         THEN /\ running' = running \ {a}
              /\ retired' = retired \cup {a}
              /\ Goto("stopping")
              /\ UNCHANGED <<enabled, pending>>
         ELSE /\ Configure(a)
              /\ pass' = [pass EXCEPT !.unvisited = @ \ {a},
                                      !.stage = IF pass.unvisited = {a} THEN "launch" ELSE @]
              /\ UNCHANGED <<running, retired>>
    /\ UNCHANGED <<docVars, requests, task, handler, topology, published, world, observed,
                   slicer, failures>>

(* Slip: a superseded pass just returns.                                   *)
HoldNothing == UNCHANGED pending

(* reconcile_is_current: what is enabled and not running stays stopped     *)
(* until a current pass has visited it.                                    *)
Hold == pending' = pending \cup (enabled \ running)

Superseded ==
    /\ At("stopping") \/ At("launch")
    /\ ~IsCurrent
    /\ Hold
    /\ ReadDocument(pass.owner)
    /\ UNCHANGED topology

Stopped ==
    /\ At("stopping") /\ IsCurrent
    /\ Goto("visit")
    /\ UNCHANGED <<docVars, requests, task, handler, topology, published, world, observed,
                   slicer, supervisor, failures>>

Launch ==
    /\ At("launch") /\ IsCurrent
    /\ running' = running \cup (enabled \ pending)
    /\ retired' = retired \ enabled
    /\ Goto("adopt")
    /\ UNCHANGED <<docVars, requests, task, handler, topology, published, world, observed,
                   slicer, enabled, pending, failures>>

(* adopt_settled_outputs: with no working copy live, a display that came   *)
(* up the same twice, in a pass that did what it was asked, is pinned.     *)
ToPin ==
    /\ preview = None
    /\ ~pass.desired.content.pinned
    /\ snapshot # Blank /\ snapshot = before
    /\ ~pass.degraded

DecidePins ==
    /\ At("adopt")
    /\ Goto(IF ToPin THEN "pin" ELSE "publish")
    /\ before' = snapshot
    /\ UNCHANGED <<docVars, requests, task, handler, topology, published, world, snapshot,
                   slicer, supervisor, failures>>

(* Slip: adoption names the revision only, which a working copy shares.    *)
DesiredRevision == [Unconditional EXCEPT !.revision = pass.desired.rev]

DesiredVersion == [Unconditional EXCEPT !.revision = pass.desired.rev,
                                        !.generation = pass.generation]

(* A commit like a client's, except that nobody asks for a pass.           *)
Pin ==
    /\ At("pin")
    /\ \/ StageReplace(DesiredVersion, [Effective EXCEPT !.content.pinned = TRUE])
       \/ ~Matches(DesiredVersion) /\ UNCHANGED docVars
    /\ Goto("publish")
    /\ UNCHANGED <<requests, task, handler, topology, published, world, observed, slicer,
                   supervisor, failures>>

(* Slip: everyone who asked meanwhile is content with the pass that ends.  *)
LeaveTogether(owner) ==
    /\ pass' = None
    /\ task' = IF task = "pass" THEN "select" ELSE task
    /\ handler' = [h \in Handlers |-> IF handler[h] = "wait" THEN "idle" ELSE handler[h]]

Leave(owner) ==
    /\ pass' = None
    /\ IF owner = Loop THEN task' = "select" /\ UNCHANGED handler
                       ELSE handler' = [handler EXCEPT ![owner] = "idle"] /\ UNCHANGED task

Publish ==
    /\ At("publish")
    /\ status' = [state |-> IF pass.degraded THEN "degraded" ELSE "synced",
                  revision |-> pass.desired.rev]
    /\ applied' = [content |-> pass.desired.content, generation |-> pass.generation]
    /\ Leave(pass.owner)
    /\ UNCHANGED <<docVars, requests, topology, world, observed, slicer, supervisor, failures>>

(* A handler is dropped: on its save, on the mutex, or inside its pass,    *)
(* whose locks and flag go with it.                                        *)
GiveUp(h) ==
    /\ MayGiveUp /\ handler[h] # "idle"
    /\ handler' = [handler EXCEPT ![h] = "idle"]
    /\ pass' = IF (IF pass = None THEN FALSE ELSE pass.owner = h) THEN None ELSE pass
    /\ UNCHANGED <<docVars, requests, task, topology, published, world, observed, slicer,
                   supervisor, failures>>

(* Nothing is under way and nothing will be on its own.                    *)
Quiet ==
    /\ ~ordinary /\ ~projection /\ task = "select"
    /\ \A h \in Handlers : handler[h] = "idle"
    /\ pass = None /\ ~event /\ snapshot = wall

Rest == Quiet /\ UNCHANGED vars

----------------------------------------------------------------------------
PassStep ==
    \/ StartOver \/ QueryOutputs \/ RunCommands \/ Requery \/ SyncProjection \/ VisitApps
    \/ \E a \in Apps : Visit(a)
    \/ Superseded \/ Stopped \/ Launch \/ DecidePins \/ Pin \/ Publish

LoopStep == TakeProjection \/ TakeOrdinary \/ Coalesced \/ Poll \/ Enter(Loop)

HandlerStep(h) == Saved(h) \/ Enter(h)

Next ==
    \/ PassStep \/ LoopStep \/ Forward
    \/ \E h \in Handlers : HandlerStep(h) \/ Write(h) \/ Reapply(h) \/ GiveUp(h)
    \/ TryOut \/ Revert \/ Replug
    \/ \E a \in Apps : AppExits(a) \/ Relaunch(a)
    \/ Rest

Spec == Init /\ [][Next]_vars

(* The executor polls what is ready; the mutex is fair (tokio queues its   *)
(* waiters), so everybody who asks for a pass gets one.                    *)
Fairness ==
    /\ WF_vars(PassStep) /\ WF_vars(Forward)
    /\ WF_vars(TakeProjection \/ TakeOrdinary \/ Coalesced \/ Poll)
    /\ SF_vars(Enter(Loop))
    /\ \A h \in Handlers : WF_vars(Saved(h)) /\ SF_vars(Enter(h))

FairSpec == Spec /\ Fairness

----------------------------------------------------------------------------
(* Properties.                                                             *)

(* No request is lost: once nothing is under way, the last pass applied    *)
(* what the live document says, however requests were coalesced, passes    *)
(* superseded and the task and the handlers took turns.  What adoption     *)
(* pinned since is no change to apply.                                     *)
Unpinned(content) == [content EXCEPT !.pinned = FALSE]
NothingIsForgotten ==
    Quiet => /\ status.state # "reconciling"
             /\ applied # None
             /\ Unpinned(applied.content) = Unpinned(Effective.content)

(* What was queued is served whoever gives up meanwhile: a dropped handler *)
(* takes its own pass along, never a request of somebody else.             *)
QueuedRequestsAreServed ==
    Quiet => applied # None /\ applied.generation >= asked

(* `synced` is the truth: sway shows the layout, the slicer was cut for it *)
(* and was started after the last time a pass recreated outputs, and no    *)
(* app but the active one runs or may be started.  Two gaps are left, both *)
(* of displays plugged in again: one that goes dark where no query can     *)
(* tell (`unseen`), and one that comes back lit, which no pass commands:   *)
(* there the slicer itself has to notice that its outputs are gone.        *)
SyncedMeansRealized ==
    Quiet /\ status.state = "synced" =>
        LET live == Effective.content IN
        /\ wall = live.layout \/ unseen
        /\ slicer.cut = live.layout /\ slicer.on # "switched"
        /\ enabled = {live.app} /\ running \subseteq {live.app}
        /\ pending = {}

(* A pass says `synced` only of what it did: no failed command, dropped    *)
(* predecessor or superseded attempt of its own hides behind the word.     *)
(* Where sway shows something else, the snapshot differs, so that the poll *)
(* will notice or has noticed, or it is beyond every query.                *)
Noticed == snapshot # wall \/ (task = "pass" /\ pass.owner # Loop)
SyncedPassDidItsWork ==
    [][At("publish") /\ pass' = None /\ status'.state = "synced"
         => /\ wall = pass.desired.content.layout \/ Noticed \/ unseen
            /\ slicer.cut = pass.desired.content.layout
            /\ enabled = {pass.desired.content.app}]_vars

(* An app that a pass stopped is not started again by a tick that still    *)
(* has its old configuration: only because the live document wants it.     *)
RetiredStayStopped ==
    [][\A a \in retired : a \in running' \ running => a = Effective.content.app]_vars

(* Adoption writes only what it observed: it never saves a working copy,   *)
(* and never changes anything a client wrote while the pass ran.           *)
AdoptionOnlyPins ==
    [][At("pin") /\ current' # current /\ At("publish")'
         => /\ preview = None
            /\ current'.content = [current.content EXCEPT !.pinned = TRUE]
            /\ pass.desired.content = current.content]_vars

(* The daemon settles: passes that supersede one another, adoption and the *)
(* events a pass itself causes never keep it busy for ever.                *)
Settles == []<>Quiet
=============================================================================
