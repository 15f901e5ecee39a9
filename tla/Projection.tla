----------------------------- MODULE Projection -----------------------------
(***************************************************************************)
(* src/projection/manager.rs, control.rs, warp_update.rs and the parts of  *)
(* slicer.rs and reconciler/mod.rs that join them: how an edit reaches the *)
(* wall, and how the daemon comes to say that it has.                      *)
(*                                                                         *)
(* A pass makes the slicer child match the document: it keeps the child,   *)
(* queues a complete snapshot for it, or replaces it.  A mailbox of one    *)
(* feeds a writer thread and a pipe; the child coalesces what it reads,    *)
(* builds one generation at a time off its render thread and installs it.  *)
(* Its reports come back over a pipe of its own to a reader thread, which  *)
(* books them in the status unless the child has been replaced.            *)
(*                                                                         *)
(* A projection is its topology, its renderer and one cut per output; the  *)
(* tables, sampling modes and pictures built from these are left out, with *)
(* the frames: a generation is followed until it is applied, and of the    *)
(* stages in between only what they do to the last failure is kept.        *)
(* Daemon and child are one binary, so versions agree; a channel has no    *)
(* other writer, so neither other children's sessions nor generations out  *)
(* of order arrive on it.                                                  *)
(***************************************************************************)
EXTENDS Integers, Sequences, FiniteSets

CONSTANTS
    Outputs,    \* the outputs the wall is cut into
    Specs,      \* what a document may ask of the wall
    None,       \* no wall, no slicer, nothing there
    Direct,     \* is the daemon in a direct presentation session?
    MaxMappings,\* MAX_CONFIG_GENERATION_MAPPINGS
    MaxDocs,    \* bound: writes of the document
    MaxFaults   \* bound: crashes, failed builds and spawns, replugged displays

VARIABLES
    docs,       \* what each configuration generation asked for; the last is live
    requested,  \* a pass is requested
    signature,  \* the capability the loop saw last
    pass,       \* the pass in sync_slicer_presenting
    slicer,     \* the manager's RunningSlicer
    nextGen,    \* next_generation
    mailbox,    \* the writer's NewestMailbox, and its failure channel
    wire,       \* the line the writer has taken, until the child has read it
    gens,       \* config_generations of the running child
    gate,       \* slicer_epoch: the session whose reader may publish
    child,      \* the process
    pipe,       \* per session: what it reported and nobody has read
    reader,     \* a report whose configuration was looked up and is not booked
    status,     \* projection control status, mapping inputs, slicer_running
    shown,      \* history: what each session installed as which generation
    faults      \* how many the bound has counted

document == <<docs, requested>>
manager == <<slicer, nextGen, gens>>
control == <<mailbox, wire>>
reports == <<pipe, reader>>
vars == <<document, signature, pass, manager, control, gate, child, reports, status, shown, faults>>

Renderers == {"auto", "gpu", "cpu"}
Cuts == UNION {{s.cut[o] : o \in Outputs} : s \in Specs}
AnySpec == [topology : {s.topology : s \in Specs}, renderer : Renderers, cut : [Outputs -> Cuts]]

NoGen == -1
Optional(S) == S \cup {None}

Update == [gen : Nat, spec : Specs]
Slicer == [session : Nat, desired : Specs, live : BOOLEAN]
Child == [session : Nat, spec : Specs, mode : {"starting", "gpu", "cpu"},
          inbox : Optional(Update), pending : Optional(Update),
          building : Optional([request : Update, outs : SUBSET Outputs]),
          installed : [Outputs -> Optional(Cuts)]]

\* What a report says of each output: the cut it was given, if it was given one.
Facts == [Outputs -> Optional(Cuts)]
Nothing == [o \in Outputs |-> None]

Capabilities == [renderer : Renderers, effective : {"gpu", "cpu"}]
AppliedEvent == [kind : {"applied"}, gen : Nat, facts : Facts]
AnyEvent == [kind : {"capability"}, capability : Capabilities]
              \cup [kind : {"accepted", "rejected"}, gen : Nat] \cup AppliedEvent
Lookup == [session : Nat, event : AppliedEvent, cfg : Optional(Nat)]

ASSUME ProjectionAssumption ==
    /\ Specs \subseteq AnySpec /\ None \notin Specs /\ None \notin Cuts
    /\ None \notin Int /\ None \notin Update \cup Slicer \cup Child \cup Capabilities \cup Lookup
    /\ None \notin [request : Update, outs : SUBSET Outputs]
    /\ Direct \in BOOLEAN /\ MaxMappings \in Nat /\ MaxDocs \in Nat \ {0} /\ MaxFaults \in Nat

Config == 1 .. Len(docs)
Sessions == DOMAIN pipe

Wall == docs[Len(docs)]
Later(a, b) == IF a >= b THEN a ELSE b

-----------------------------------------------------------------------------
(* The manager's view of a projection.                                     *)

\* A child without live control is told apart by all of its spec, one with
\* live control only by what it cannot change.
LiveCandidate(spec) == spec.renderer # "cpu"
Fingerprint(spec, live) == IF live THEN [spec EXCEPT !.cut = None] ELSE spec

\* Would the running slicer do, as it is or with an update?
Matches(running, spec) ==
    LET live == IF running.desired.renderer = spec.renderer
                THEN running.live ELSE LiveCandidate(spec)
    IN Fingerprint(spec, live) = Fingerprint(running.desired, running.live)

Fresh == [session |-> None, requested |-> NoGen, applied |-> NoGen, claimed |-> None,
          capability |-> None, failed |-> NoGen, facts |-> Nothing]

Closed == [value |-> None, open |-> FALSE, failed |-> FALSE]
Opened == [value |-> None, open |-> TRUE, failed |-> FALSE]
Idle == [at |-> "idle", want |-> None, cfg |-> 0, gen |-> 0]

\* One slip: the old process is left running.
StopLeavesChild ==
    /\ reader = None
    /\ gate' = None
    /\ slicer' = None
    /\ UNCHANGED child
    /\ mailbox' = Closed
    /\ wire' = None
    /\ status' = IF slicer = None THEN status ELSE [status EXCEPT !.facts = Nothing]

\* stop_slicer: the gate closes first, so what the old child still has in its
\* pipe is never published after the status was cleared.
Stop ==
    /\ reader = None
    /\ gate' = None
    /\ slicer' = None
    /\ child' = None
    /\ mailbox' = Closed
    /\ wire' = None
    /\ status' = IF slicer = None THEN status ELSE [status EXCEPT !.facts = Nothing]
-----------------------------------------------------------------------------
(* What asks for a pass.                                                   *)

Write(spec) ==
    /\ Len(docs) < MaxDocs
    /\ spec # Wall
    /\ docs' = Append(docs, spec)
    /\ requested' = TRUE
    /\ UNCHANGED <<signature, pass, manager, control, gate, child, reports, status, shown, faults>>

\* An edit elsewhere in the document: a new generation that asks for the same wall.
Touch ==
    /\ Len(docs) < MaxDocs
    /\ docs' = Append(docs, Wall)
    /\ requested' = TRUE
    /\ UNCHANGED <<signature, pass, manager, control, gate, child, reports, status, shown, faults>>

\* Every change of the status is announced to the signature, which then looks at the
\* status as it is by then: a capability that was reset and reported again in
\* between looks as if nothing had happened.
Notice ==
    /\ signature # status.capability
    /\ signature' = status.capability
    /\ requested' = TRUE
    /\ UNCHANGED <<docs, pass, manager, control, gate, child, reports, status, shown, faults>>

\* Only in a direct session does a tick notice that the slicer exited.
DirectTick ==
    /\ Direct
    /\ pass = Idle
    /\ slicer # None /\ child = None
    /\ ~requested
    /\ requested' = TRUE
    /\ UNCHANGED <<docs, signature, pass, manager, control, gate, child, reports, status, shown, faults>>
-----------------------------------------------------------------------------
(* sync_slicer_presenting, under the manager's lock: up to where another   *)
(* thread can tell, one step.                                              *)

\* A pass that changed which outputs are enabled replaces the slicer.
BeginPass(replug) ==
    /\ pass = Idle
    /\ requested \/ replug
    /\ replug => faults < MaxFaults
    /\ faults' = faults + (IF replug THEN 1 ELSE 0)
    /\ requested' = FALSE

Doing(at, gen) == [at |-> at, want |-> Wall, cfg |-> Len(docs), gen |-> gen]

\* Auto turned out to be the CPU, whose child reads no updates.
Fell ==
    /\ slicer.desired.renderer = "auto" /\ slicer.live
    /\ status.capability # None /\ status.capability.effective = "cpu"

\* One slip: an update the child cannot read is taken for installed.
ReapedUnlessUnread(replug) ==
    slicer # None /\ (replug \/ mailbox.failed \/ child = None)

\* What is reaped first: a failed writer, a child that exited, and one that was
\* sent an update it cannot read.  What is left is the slicer to compare with.
Reaped(replug) ==
    slicer # None /\ (replug \/ mailbox.failed \/ child = None \/ (Fell /\ status.requested > 0))
Kept(replug) ==
    IF slicer = None \/ Reaped(replug) THEN None
    ELSE IF Fell THEN [slicer EXCEPT !.live = FALSE] ELSE slicer

Keeps(replug) == Wall # None /\ Kept(replug) # None /\ Matches(Kept(replug), Wall)
Changed(running) == running.live /\ running.desired # Wall

\* record_config_generation: the oldest but the child's first goes when it is full.
Recorded(gen, cfg) ==
    LET all == DOMAIN gens \cup {gen}
        old == all \ {0}
        kept == IF Cardinality(all) <= MaxMappings \/ old = {} THEN all
                ELSE all \ {CHOOSE g \in old : \A h \in old : g <= h}
    IN [g \in kept |-> IF g = gen THEN cfg ELSE gens[g]]

\* Nothing to change: which control generation stands for this configuration?
Correlate(replug) ==
    /\ BeginPass(replug)
    /\ Keeps(replug) /\ ~Changed(Kept(replug))
    /\ slicer' = Kept(replug)
    /\ LET gen == IF slicer'.live THEN Later(status.requested, 0) ELSE 0
       IN /\ gens' = Recorded(gen, Len(docs))
          /\ pass' = Doing("mark", gen)
    /\ UNCHANGED <<docs, signature, nextGen, control, gate, child, reports, status, shown>>

\* queue_update, up to the mailbox.
Queue(replug) ==
    /\ BeginPass(replug)
    /\ Keeps(replug) /\ Changed(Kept(replug))
    /\ slicer' = Kept(replug)
    /\ gens' = Recorded(nextGen, Len(docs))
    /\ nextGen' = nextGen + 1
    /\ pass' = Doing("push", nextGen)
    /\ UNCHANGED <<docs, signature, control, gate, child, reports, status, shown>>

\* One slip: what is held is not superseded.
Oldest(held, update) == IF held = None THEN update ELSE held

\* The mailbox and the child's inbox hold one snapshot, the newest.
Newest(held, update) == update

\* A writer that has failed ends the child, and nothing starts another one.
Push ==
    /\ pass.at = "push"
    /\ IF mailbox.open
       THEN /\ mailbox' = [mailbox EXCEPT !.value = Newest(@, [gen |-> pass.gen, spec |-> pass.want])]
            /\ pass' = [pass EXCEPT !.at = "mark"]
            /\ UNCHANGED <<slicer, wire, gate, child, status>>
       ELSE Stop /\ pass' = Idle
    /\ UNCHANGED <<document, signature, nextGen, gens, reports, shown, faults>>

\* No wall is wanted; or another one is, and it cannot be started.
StandDown(replug) ==
    /\ BeginPass(replug)
    /\ Wall = None
    /\ Stop
    /\ pass' = Idle
    /\ UNCHANGED <<docs, signature, nextGen, gens, reports, shown>>

SpawnFails ==
    /\ pass = Idle /\ requested
    /\ Wall # None /\ ~Keeps(FALSE)
    /\ faults < MaxFaults
    /\ faults' = faults + 1
    /\ requested' = FALSE
    /\ Stop
    /\ UNCHANGED <<docs, signature, pass, nextGen, gens, reports, shown>>

\* This child is not the one, or cannot become it: a new session replaces it.
Replace(replug) ==
    /\ BeginPass(replug)
    /\ Wall # None /\ ~Keeps(replug)
    /\ reader = None
    /\ pipe' = Append(pipe, << >>)
    /\ LET session == Len(pipe) + 1 IN
       /\ gate' = session
       /\ slicer' = [session |-> session, desired |-> Wall, live |-> LiveCandidate(Wall)]
       /\ child' = [session |-> session, spec |-> Wall, mode |-> "starting", inbox |-> None,
                    pending |-> None, building |-> None, installed |-> Nothing]
    /\ mailbox' = IF LiveCandidate(Wall) THEN Opened ELSE Closed
    /\ wire' = None
    /\ gens' = [g \in {0} |-> Len(docs)]
    /\ status' = Fresh
    /\ pass' = Doing("mark", 0)
    /\ UNCHANGED <<docs, signature, nextGen, reader, shown>>

\* One slip: whatever was applied last answers for what is asked now.
SomethingApplied(gen) == status.applied # NoGen

AlreadyApplied(gen) == status.applied = gen

\* mark_control_requested: a generation applied already is applied for this
\* configuration too.
Mark ==
    /\ pass.at = "mark"
    /\ LET asked == Later(status.requested, pass.gen) IN
       status' = [status EXCEPT !.session = slicer.session, !.requested = asked,
                                !.claimed = IF AlreadyApplied(asked) THEN pass.cfg ELSE @]
    /\ slicer' = [slicer EXCEPT !.desired = pass.want]
    /\ pass' = Idle
    /\ UNCHANGED <<document, signature, nextGen, gens, control, gate, child, reports, shown, faults>>
-----------------------------------------------------------------------------
(* The writer thread, and the child.                                       *)

WriterWrites ==
    /\ mailbox.value # None /\ wire = None /\ child # None
    /\ wire' = mailbox.value
    /\ mailbox' = [mailbox EXCEPT !.value = None]
    /\ UNCHANGED <<document, signature, pass, manager, gate, child, reports, status, shown, faults>>

\* A write to a child that is gone fails, and closes the mailbox.
WriterFails ==
    /\ slicer # None /\ child = None /\ mailbox.open
    /\ mailbox.value # None \/ wire # None
    /\ mailbox' = [value |-> None, open |-> FALSE, failed |-> TRUE]
    /\ wire' = None
    /\ UNCHANGED <<document, signature, pass, manager, gate, child, reports, status, shown, faults>>

Report(events) ==
    pipe' = [pipe EXCEPT ![child.session] = @ \o events]

Event(kind, gen) == [kind |-> kind, gen |-> gen]
Applied(gen, spec, outs) ==
    [kind |-> "applied", gen |-> gen,
     facts |-> [o \in Outputs |-> IF o \in outs THEN spec.cut[o] ELSE None]]
Capability(effective) ==
    [kind |-> "capability", capability |-> [renderer |-> child.spec.renderer, effective |-> effective]]

Installs(gen, spec) == [session |-> child.session, gen |-> gen, spec |-> spec]

\* One slip: what changed is told from what the child was started with.
BuildFromStart(c, request) ==
    [request |-> request,
     outs |-> {o \in Outputs : c.installed[o] = None \/ c.spec.cut[o] # request.spec.cut[o]}]

\* The build of a request covers the outputs whose installed cut differs.
Build(c, request) ==
    [request |-> request,
     outs |-> {o \in Outputs : c.installed[o] # request.spec.cut[o]}]

\* start_build: one build at a time.
StartBuild(c) ==
    IF c.building # None \/ c.pending = None THEN c
    ELSE [c EXCEPT !.building = Build(c, c.pending), !.pending = None]

\* The child has probed what it runs on, and reports it.
StartsGpu ==
    /\ child # None /\ child.mode = "starting" /\ child.spec.renderer # "cpu"
    /\ child' = StartBuild([child EXCEPT !.mode = "gpu",
                                         !.pending = [gen |-> 0, spec |-> child.spec]])
    /\ Report(<<Capability("gpu")>>)
    /\ UNCHANGED <<document, signature, pass, manager, control, gate, reader, status, shown, faults>>

StartsCpu ==
    /\ child # None /\ child.mode = "starting" /\ child.spec.renderer # "gpu"
    /\ child' = [child EXCEPT !.mode = "cpu", !.installed = child.spec.cut]
    /\ shown' = shown \cup {Installs(0, child.spec)}
    /\ Report(<<Capability("cpu"), Applied(0, child.spec, Outputs)>>)
    /\ UNCHANGED <<document, signature, pass, manager, control, gate, reader, status, faults>>

\* The control thread keeps the newest snapshot only.
ReadControl ==
    /\ child # None /\ child.mode = "gpu" /\ wire # None
    /\ child' = [child EXCEPT !.inbox = Newest(@, wire)]
    /\ wire' = None
    /\ UNCHANGED <<document, signature, pass, manager, mailbox, gate, reports, status, shown, faults>>

\* Controller::request: what it validates becomes pending.
Request(c, valid) ==
    IF c.inbox = None THEN c
    ELSE [c EXCEPT !.inbox = None,
                   !.pending = IF valid THEN c.inbox ELSE @]

Answer(c, valid) ==
    IF c.inbox = None THEN << >>
    ELSE <<Event(IF valid THEN "accepted" ELSE "rejected", c.inbox.gen)>>

\* apply_warp_updates while the build under way is not done.
Poll(valid) ==
    /\ child # None /\ child.mode = "gpu"
    /\ child.inbox # None \/ (child.pending # None /\ child.building = None)
    /\ ~valid => child.inbox # None /\ faults < MaxFaults
    /\ faults' = faults + (IF valid THEN 0 ELSE 1)
    /\ child' = StartBuild(Request(child, valid))
    /\ Report(Answer(child, valid))
    /\ UNCHANGED <<document, signature, pass, manager, control, gate, reader, status, shown>>

\* ... and once it is: what was built is installed, then the next one starts.
Install(valid) ==
    /\ child # None /\ child.mode = "gpu" /\ child.building # None
    /\ ~valid => child.inbox # None /\ faults < MaxFaults
    /\ faults' = faults + (IF valid THEN 0 ELSE 1)
    /\ LET c == Request(child, valid)
           build == c.building
           request == build.request
       IN /\ child' = StartBuild(
                         [c EXCEPT !.building = None,
                                   !.installed = [o \in Outputs |-> IF o \in build.outs
                                                                    THEN request.spec.cut[o]
                                                                    ELSE @[o]]])
          /\ shown' = shown \cup {Installs(request.gen, request.spec)}
          /\ Report(Answer(child, valid)
                    \o <<Applied(request.gen, request.spec, build.outs)>>)
    /\ UNCHANGED <<document, signature, pass, manager, control, gate, reader, status>>

\* A build or an upload fails: the wall stays as it is.  An upload that finds
\* other displays than it was built for, or that would have been the first,
\* ends the child as well.
BuildFails(exits) ==
    /\ child # None /\ child.mode = "gpu" /\ child.building # None
    /\ faults < MaxFaults
    /\ faults' = faults + 1
    /\ child' = IF exits THEN None
                ELSE StartBuild(Request([child EXCEPT !.building = None], TRUE))
    /\ Report(Answer(child, TRUE) \o <<Event("rejected", child.building.request.gen)>>)
    /\ UNCHANGED <<document, signature, pass, manager, control, gate, reader, status, shown>>

\* Killed, failed captures, displays that went away, a forced GPU that is not there.
Exit ==
    /\ child # None
    /\ faults < MaxFaults
    /\ faults' = faults + 1
    /\ child' = None
    /\ UNCHANGED <<document, signature, pass, manager, control, gate, reports, status, shown>>
-----------------------------------------------------------------------------
(* The reader threads.                                                     *)

\* One slip: no reader ever stops.
AnyMayPublish(session) == TRUE

\* A reader holds the gate from its check until it has published.
MayPublish(session) == gate = session

\* What is reported about an output replaces what was reported before.
Overlaid(new, old) == [o \in Outputs |-> IF new[o] # None THEN new[o] ELSE old[o]]

\* update_control_status_for_config.
Booked(st, session, event, cfg) ==
    LET s == [st EXCEPT !.session = session] IN
    CASE event.kind = "capability" -> [s EXCEPT !.capability = event.capability]
      [] event.kind = "accepted" -> [s EXCEPT !.failed = IF @ <= event.gen THEN NoGen ELSE @]
      [] event.kind = "applied" -> [s EXCEPT !.applied = Later(@, event.gen),
                                             !.claimed = IF event.gen >= st.applied THEN cfg ELSE @,
                                             !.facts = Overlaid(event.facts, @),
                                             !.failed = IF @ <= event.gen THEN NoGen ELSE @]
      [] event.kind = "rejected" -> [s EXCEPT !.failed = Later(@, event.gen)]

ConfigFor(gen) == IF gen \in DOMAIN gens THEN gens[gen] ELSE None

Read(session) ==
    /\ pipe[session] # << >>
    /\ reader = None
    /\ MayPublish(session)
    /\ LET event == Head(pipe[session]) IN
       IF event.kind = "applied"
       THEN /\ reader' = [session |-> session, event |-> event, cfg |-> ConfigFor(event.gen)]
            /\ UNCHANGED status
       ELSE /\ status' = Booked(status, session, event, None)
            /\ UNCHANGED reader
    /\ pipe' = [pipe EXCEPT ![session] = Tail(@)]
    /\ UNCHANGED <<document, signature, pass, manager, control, gate, child, shown, faults>>

Book ==
    /\ reader # None
    /\ status' = Booked(status, reader.session, reader.event, reader.cfg)
    /\ reader' = None
    /\ UNCHANGED <<document, signature, pass, manager, control, gate, child, pipe, shown, faults>>

\* The reader of a replaced child ends with the first line it may not publish.
ReaderEnds(session) ==
    /\ pipe[session] # << >>
    /\ ~MayPublish(session)
    /\ pipe' = [pipe EXCEPT ![session] = << >>]
    /\ UNCHANGED <<document, signature, pass, manager, control, gate, child, reader, status, shown, faults>>
-----------------------------------------------------------------------------
Init ==
    /\ docs \in {<<s>> : s \in Optional(Specs)}
    /\ requested = TRUE
    /\ signature = None
    /\ pass = Idle
    /\ slicer = None /\ nextGen = 1 /\ gens = << >>
    /\ mailbox = Closed /\ wire = None
    /\ gate = None
    /\ child = None
    /\ pipe = << >> /\ reader = None
    /\ status = Fresh
    /\ shown = {}
    /\ faults = 0

Begin(replug) == Correlate(replug) \/ Queue(replug) \/ StandDown(replug) \/ Replace(replug)
PassStep == Push \/ Mark
WriterStep == WriterWrites \/ WriterFails
ChildStep ==
    \/ StartsGpu \/ StartsCpu
    \/ ReadControl
    \/ \E valid \in BOOLEAN : Poll(valid) \/ Install(valid)
    \/ \E exits \in BOOLEAN : BuildFails(exits)
ReaderStep == Book \/ \E session \in Sessions : Read(session) \/ ReaderEnds(session)

Rest ==
    /\ pass = Idle /\ ~requested
    /\ UNCHANGED vars

Next ==
    \/ \E spec \in Optional(Specs) : Write(spec)
    \/ Touch
    \/ Notice \/ DirectTick
    \/ \E replug \in BOOLEAN : Begin(replug)
    \/ PassStep \/ WriterStep \/ ChildStep \/ ReaderStep
    \/ SpawnFails \/ Exit
    \/ Rest

Spec == Init /\ [][Next]_vars

\* The tasks and threads run; nobody owes a write, a fault or a statistic.
Fairness ==
    /\ WF_vars(Notice) /\ WF_vars(DirectTick) /\ WF_vars(Begin(FALSE))
    /\ WF_vars(PassStep) /\ WF_vars(WriterStep) /\ WF_vars(ReaderStep)
    /\ WF_vars(ChildStep)

FairSpec == Spec /\ Fairness
-----------------------------------------------------------------------------
(* Properties.                                                             *)

TypeOK ==
    /\ docs \in Seq(Optional(Specs)) /\ Len(docs) \in 1 .. MaxDocs
    /\ requested \in BOOLEAN
    /\ signature \in Optional(Capabilities)
    /\ pass \in [at : {"idle", "push", "mark"}, want : Optional(Specs), cfg : Nat, gen : Nat]
    /\ pass.at # "idle" => slicer # None /\ pass.want # None /\ pass.cfg \in Config
    /\ slicer \in Optional(Slicer)
    /\ nextGen \in Nat \ {0}
    /\ gens \in [DOMAIN gens -> Config] /\ DOMAIN gens \subseteq Nat
    /\ mailbox \in [value : Optional(Update), open : BOOLEAN, failed : BOOLEAN]
    /\ wire \in Optional(Update)
    /\ gate \in Optional(Sessions)
    /\ child \in Optional(Child)
    /\ slicer = None => gate = None /\ child = None
    /\ slicer # None => slicer.session = gate
    /\ child # None => child.session = gate
    /\ pipe \in Seq(Seq(AnyEvent))
    /\ reader \in Optional(Lookup)
    /\ reader # None => reader.session = gate /\ reader.cfg \in Optional(Config)
    /\ status \in [session : Optional(Nat), requested : Nat \cup {NoGen},
                   applied : Nat \cup {NoGen}, claimed : Optional(Nat),
                   capability : Optional(Capabilities), failed : Nat \cup {NoGen}, facts : Facts]
    /\ status.session \in Optional(Sessions) /\ status.claimed \in Optional(Config)
    /\ shown \subseteq [session : Sessions, gen : Nat, spec : Specs]
    /\ faults \in 0 .. MaxFaults

\* A configuration is reported as applied only if the session that is named
\* has installed the wall it asks for, as the generation reported as applied:
\* not one coalesced away, not one of the child before, not one refused.
ClaimsWereShown ==
    status.claimed # None =>
        [session |-> status.session, gen |-> status.applied, spec |-> docs[status.claimed]] \in shown

\* The mapping facts of a wall are pieced together from reports about those
\* outputs that changed; beside the applied generation they describe one wall.
FactsFitTheGeneration ==
    \A s \in shown :
        s.session = status.session /\ s.gen = status.applied =>
            \A o \in Outputs : status.facts[o] \in {None, s.spec.cut[o]}

\* Once a slicer is stopped no facts about the mapping it showed are left or come
\* back, whatever was still in its pipe.
StoppedSaysNothing ==
    slicer = None => status.facts = Nothing

\* Within a session the configuration reported as applied never goes back.
ClaimsNeverGoBack ==
    [][(status'.session = status.session /\ {status.claimed, status'.claimed} \subseteq Config)
         => status'.claimed >= status.claimed]_vars

Dark == Wall # None /\ slicer = None
DeadUnnoticed == slicer # None /\ child = None /\ ~Direct
Refused == status.failed # NoGen /\ status.failed = status.requested
FellUnnoticed == slicer # None /\ slicer.live /\ child # None /\ child.mode = "cpu"

\* The wall shows what the document asks for, and the status says so.
Reached ==
    IF Wall = None
    THEN slicer = None /\ child = None
    ELSE /\ slicer # None /\ child # None
         /\ child.installed = Wall.cut
         /\ status.claimed # None /\ docs[status.claimed] = Wall

\* However edits are coalesced, built and reverted, in the end the newest is
\* on the wall and reported, unless the slicer ended, refused it, or fell back
\* to the CPU without the loop noticing.
EditsReachTheWall ==
    <>[](Reached \/ Dark \/ DeadUnnoticed \/ Refused \/ FellUnnoticed)

\* "Suede detects and corrects this itself now": a slicer that exited because
\* its outputs are gone is started again (docs/troubleshooting.md).
SlicerComesBack ==
    (slicer # None /\ child = None) ~> (child # None \/ Wall = None)
=============================================================================
