--------------------------- MODULE ProjectionProofs ---------------------------
(***************************************************************************)
(* What Projection guarantees for any outputs, walls, documents and faults.*)
(*                                                                         *)
(* The parts of the type invariant are named apart, since a step of the    *)
(* child, say, leaves the manager's part as it is.                         *)
(***************************************************************************)
EXTENDS Projection, SequenceTheorems, TLAPS

TypedDocs ==
    /\ docs \in Seq(Optional(Specs)) /\ Len(docs) \in 1 .. MaxDocs
    /\ requested \in BOOLEAN
    /\ signature \in Optional(Capabilities)
    /\ faults \in 0 .. MaxFaults

Passes == [at : {"idle", "push", "mark"}, want : Optional(Specs), cfg : Nat, gen : Nat]
TypedPass ==
    /\ pass \in Passes
    /\ pass.at # "idle" => slicer # None /\ pass.want # None /\ pass.cfg \in Config

TypedManager ==
    /\ slicer \in Optional(Slicer)
    /\ nextGen \in Nat \ {0}
    /\ gens \in [DOMAIN gens -> Config] /\ DOMAIN gens \subseteq Nat

Boxes == [value : Optional(Update), open : BOOLEAN, failed : BOOLEAN]
TypedControl == mailbox \in Boxes /\ wire \in Optional(Update)

TypedChild == child \in Optional(Child)

TypedGate ==
    /\ gate \in Optional(Sessions)
    /\ slicer = None => gate = None /\ child = None
    /\ slicer # None => slicer.session = gate
    /\ child # None => child.session = gate

TypedReports ==
    /\ pipe \in Seq(Seq(AnyEvent))
    /\ reader \in Optional(Lookup)
    /\ reader # None => reader.session = gate /\ reader.cfg \in Optional(Config)

Statuses ==
    [session : Optional(Nat), requested : Nat \cup {NoGen}, applied : Nat \cup {NoGen},
     claimed : Optional(Nat), capability : Optional(Capabilities), failed : Nat \cup {NoGen},
     facts : Facts]
TypedStatus ==
    /\ status \in Statuses
    /\ status.session \in Optional(Sessions) /\ status.claimed \in Optional(Config)

TypedShown == shown \subseteq [session : Sessions, gen : Nat, spec : Specs]

(* The parts are the whole.                                                *)
LEMMA TypedParts ==
    TypeOK <=> /\ TypedDocs /\ TypedPass /\ TypedManager /\ TypedControl /\ TypedChild
               /\ TypedGate /\ TypedReports /\ TypedStatus /\ TypedShown
  BY DEF TypeOK, TypedDocs, TypedPass, Passes, TypedManager, TypedControl, Boxes, TypedChild,
         TypedGate, TypedReports, TypedStatus, Statuses, TypedShown

(* And so they are after a step.                                           *)
LEMMA TypedPartsNext ==
    TypeOK' <=> /\ TypedDocs' /\ TypedPass' /\ TypedManager' /\ TypedControl' /\ TypedChild'
                /\ TypedGate' /\ TypedReports' /\ TypedStatus' /\ TypedShown'
  BY DEF TypeOK, TypedDocs, TypedPass, Passes, TypedManager, TypedControl, Boxes, TypedChild,
         TypedGate, TypedReports, TypedStatus, Statuses, TypedShown, Config, Sessions

-----------------------------------------------------------------------------
(* Operators.                                                              *)

(* No wall of an output is missing from a projection.                      *)
LEMMA CutsOfSpecs ==
    ASSUME NEW s \in Specs
    PROVE  /\ s.cut \in [Outputs -> Cuts] /\ s.renderer \in Renderers
           /\ \A o \in Outputs : s.cut[o] \in Cuts /\ s.cut[o] # None
  <1>1. s \in AnySpec
    BY ProjectionAssumption
  <1>2. s.cut \in [Outputs -> Cuts] /\ s.renderer \in Renderers
    BY <1>1 DEF AnySpec
  <1>3. QED
    BY <1>2, ProjectionAssumption

(* The live document is one of those written.                              *)
LEMMA WallIsADocument ==
    ASSUME TypedDocs
    PROVE  Wall \in Optional(Specs) /\ Len(docs) \in Config /\ Len(docs) \in Nat
  BY DEF TypedDocs, Wall, Config

(* Recording keeps what is known of other generations.                     *)
LEMMA RecordedGens ==
    ASSUME TypedManager, NEW gen \in Nat, NEW cfg \in Config
    PROVE  /\ Recorded(gen, cfg) \in [DOMAIN Recorded(gen, cfg) -> Config]
           /\ DOMAIN Recorded(gen, cfg) \subseteq DOMAIN gens \cup {gen}
           /\ DOMAIN Recorded(gen, cfg) \subseteq Nat
           /\ \A g \in DOMAIN Recorded(gen, cfg) :
                Recorded(gen, cfg)[g] = IF g = gen THEN cfg ELSE gens[g]
  <1> DEFINE all == DOMAIN gens \cup {gen}
             old == all \ {0}
             kept == IF Cardinality(all) <= MaxMappings \/ old = {} THEN all
                     ELSE all \ {CHOOSE g \in old : \A h \in old : g <= h}
  <1>1. kept \subseteq all
    OBVIOUS
  <1>2. Recorded(gen, cfg) = [g \in kept |-> IF g = gen THEN cfg ELSE gens[g]]
    BY Zenon DEF Recorded
  <1> HIDE DEF kept
  <1>3. QED
    BY <1>1, <1>2 DEF TypedManager

(* What the child validates becomes pending; nothing else moves.           *)
LEMMA RequestEffect ==
    ASSUME NEW c \in Child, NEW valid \in BOOLEAN
    PROVE  /\ Request(c, valid) \in Child
           /\ Request(c, valid).session = c.session /\ Request(c, valid).spec = c.spec
           /\ Request(c, valid).mode = c.mode /\ Request(c, valid).building = c.building
           /\ Request(c, valid).installed = c.installed
           /\ Request(c, valid).inbox = None
           /\ Request(c, valid).pending = IF c.inbox # None /\ valid THEN c.inbox ELSE c.pending
  BY DEF Request, Child, Optional

(* A build is started for what is pending, if none is under way.           *)
LEMMA StartBuildEffect ==
    ASSUME NEW c \in Child
    PROVE  /\ StartBuild(c) \in Child
           /\ StartBuild(c).session = c.session /\ StartBuild(c).spec = c.spec
           /\ StartBuild(c).mode = c.mode /\ StartBuild(c).inbox = c.inbox
           /\ StartBuild(c).installed = c.installed
           /\ IF c.building # None \/ c.pending = None
              THEN StartBuild(c).pending = c.pending /\ StartBuild(c).building = c.building
              ELSE /\ StartBuild(c).pending = None
                   /\ StartBuild(c).building # None
                   /\ StartBuild(c).building.request = c.pending
                   /\ StartBuild(c).building.outs =
                        {o \in Outputs : c.installed[o] # c.pending.spec.cut[o]}
  <1>1. CASE c.building # None \/ c.pending = None
    BY <1>1 DEF StartBuild
  <1>2. CASE c.building = None /\ c.pending # None
    <2>1. StartBuild(c) = [c EXCEPT !.building = Build(c, c.pending), !.pending = None]
      BY <1>2 DEF StartBuild
    <2>2. c.pending \in Update
      BY <1>2 DEF Child, Optional
    <2>3. Build(c, c.pending) \in [request : Update, outs : SUBSET Outputs]
      BY <2>2 DEF Build
    <2>4. /\ Build(c, c.pending).request = c.pending
          /\ Build(c, c.pending).outs = {o \in Outputs : c.installed[o] # c.pending.spec.cut[o]}
          /\ Build(c, c.pending) # None
      BY <2>3, ProjectionAssumption DEF Build
    <2>5. QED
      BY <1>2, <2>1, <2>3, <2>4 DEF Child, Optional
  <1>3. QED
    BY <1>1, <1>2

(* Booking a report names its session and touches what its kind says.      *)
LEMMA BookedEffect ==
    ASSUME NEW st \in Statuses, NEW session \in Nat, NEW event \in AnyEvent,
           NEW cfg \in Optional(Nat)
    PROVE  LET new == Booked(st, session, event, cfg)
           IN  /\ new \in Statuses /\ new.session = session /\ new.requested = st.requested
               /\ event.kind # "applied" => /\ new.applied = st.applied /\ new.facts = st.facts
                                            /\ new.claimed = st.claimed
               /\ event.kind = "applied" =>
                    /\ new.applied = Later(st.applied, event.gen)
                    /\ new.claimed = IF event.gen >= st.applied THEN cfg ELSE st.claimed
                    /\ new.facts = Overlaid(event.facts, st.facts)
  <1> DEFINE new == Booked(st, session, event, cfg)
             cleared == IF st.failed <= event.gen THEN NoGen ELSE st.failed
  <1>1. ASSUME event.gen \in Nat
        PROVE  /\ cleared \in Nat \cup {NoGen}
               /\ Later(st.failed, event.gen) \in Nat \cup {NoGen}
               /\ Later(st.applied, event.gen) \in Nat
    <2>1. st.failed \in Nat \cup {NoGen} /\ st.applied \in Nat \cup {NoGen}
      BY DEF Statuses
    <2>2. QED
      BY <1>1, <2>1 DEF Later, NoGen
  <1>2. ASSUME event \in [kind : {"capability"}, capability : Capabilities]
        PROVE  new = [st EXCEPT !.session = session, !.capability = event.capability]
               /\ event.kind # "applied" /\ event.capability \in Capabilities
    BY <1>2 DEF Booked
  <1>3. ASSUME event \in [kind : {"accepted", "rejected"}, gen : Nat]
        PROVE  /\ event.kind # "applied" /\ event.gen \in Nat
               /\ event.kind = "accepted" => new = [st EXCEPT !.session = session, !.failed = cleared]
               /\ event.kind # "accepted" =>
                    new = [st EXCEPT !.session = session, !.failed = Later(@, event.gen)]
    <2>1. event.kind \in {"accepted", "rejected"} /\ event.gen \in Nat
      BY <1>3
    <2>2. QED
      BY <2>1 DEF Booked
  <1>4. ASSUME event \in AppliedEvent
        PROVE  /\ event.kind = "applied" /\ event.gen \in Nat /\ event.facts \in Facts
               /\ new = [st EXCEPT !.session = session, !.applied = Later(@, event.gen),
                                   !.claimed = IF event.gen >= st.applied THEN cfg ELSE @,
                                   !.facts = Overlaid(event.facts, @), !.failed = cleared]
    <2>1. event.kind = "applied" /\ event.gen \in Nat /\ event.facts \in Facts
      BY <1>4 DEF AppliedEvent
    <2>2. QED
      BY <2>1 DEF Booked
  <1> HIDE DEF new, cleared
  <1>5. CASE event \in [kind : {"capability"}, capability : Capabilities]
    <2>1. new \in Statuses /\ new.session = session /\ new.requested = st.requested
          /\ new.applied = st.applied /\ new.facts = st.facts /\ new.claimed = st.claimed
      BY <1>2, <1>5 DEF Statuses, Optional
    <2>2. QED
      BY <1>2, <1>5, <2>1 DEF new
  <1>6. CASE event \in [kind : {"accepted", "rejected"}, gen : Nat]
    <2>1. PICK failed \in Nat \cup {NoGen} : new = [st EXCEPT !.session = session, !.failed = failed]
      BY <1>1, <1>3, <1>6
    <2>2. new \in Statuses /\ new.session = session /\ new.requested = st.requested
          /\ new.applied = st.applied /\ new.facts = st.facts /\ new.claimed = st.claimed
      BY <2>1 DEF Statuses, Optional
    <2>3. QED
      BY <1>3, <1>6, <2>2 DEF new
  <1>7. CASE event \in AppliedEvent
    <2>1. Overlaid(event.facts, st.facts) \in Facts
      BY <1>4, <1>7 DEF Statuses, Overlaid, Facts
    <2>2. PICK claimed \in Optional(Nat) :
            claimed = IF event.gen >= st.applied THEN cfg ELSE st.claimed
      BY DEF Statuses
    <2>3. PICK applied \in Nat, facts \in Facts :
            applied = Later(st.applied, event.gen) /\ facts = Overlaid(event.facts, st.facts)
      BY <1>1, <1>4, <1>7, <2>1
    <2>4. new = [st EXCEPT !.session = session, !.applied = applied, !.claimed = claimed,
                           !.facts = facts, !.failed = cleared]
      BY <1>4, <1>7, <2>2, <2>3
    <2>5. new \in Statuses /\ new.session = session /\ new.requested = st.requested
          /\ new.applied = applied /\ new.claimed = claimed /\ new.facts = facts
      BY <1>1, <1>4, <1>7, <2>4 DEF Statuses, Optional
    <2>6. QED
      BY <1>4, <1>7, <2>2, <2>3, <2>5 DEF new
  <1>8. QED
    BY <1>5, <1>6, <1>7 DEF AnyEvent

(* What a child says to a snapshot is a report like any other.             *)
LEMMA AnswersAreEvents ==
    ASSUME NEW c \in Child, NEW valid \in BOOLEAN
    PROVE  Answer(c, valid) \in Seq(AnyEvent)
  <1>1. CASE c.inbox = None
    BY <1>1 DEF Answer
  <1>2. CASE c.inbox # None
    <2>1. c.inbox.gen \in Nat
      BY <1>2 DEF Child, Optional, Update
    <2>2. Event(IF valid THEN "accepted" ELSE "rejected", c.inbox.gen) \in AnyEvent
      BY <2>1 DEF Event, AnyEvent
    <2>3. QED
      BY <1>2, <2>2 DEF Answer
  <1>3. QED
    BY <1>1, <1>2

(* What an applied report says.                                            *)
LEMMA AppliedIsAnEvent ==
    ASSUME NEW gen \in Nat, NEW spec \in Specs, NEW outs
    PROVE  /\ Applied(gen, spec, outs) \in AppliedEvent
           /\ Applied(gen, spec, outs).gen = gen
           /\ \A o \in Outputs :
                Applied(gen, spec, outs).facts[o] = IF o \in outs THEN spec.cut[o] ELSE None
  BY CutsOfSpecs DEF Applied, AppliedEvent, Facts, Optional

(* Reports only lengthen the pipe of the session they are made in.         *)
LEMMA ReportsAreTyped ==
    ASSUME pipe \in Seq(Seq(AnyEvent)), child # None, child.session \in DOMAIN pipe,
           NEW events \in Seq(AnyEvent), Report(events)
    PROVE  pipe' \in Seq(Seq(AnyEvent)) /\ DOMAIN pipe' = DOMAIN pipe
  <1>1. pipe[child.session] \o events \in Seq(AnyEvent)
    OBVIOUS
  <1>2. QED
    BY <1>1 DEF Report

-----------------------------------------------------------------------------
(* Types.                                                                  *)

(* At first there is one document and nothing else.                        *)
LEMMA TypedInit == Init => TypeOK
  <1> SUFFICES ASSUME Init PROVE TypeOK
    OBVIOUS
  <1>1. Nothing \in Facts
    BY DEF Nothing, Facts, Optional
  <1>2. PICK s \in Optional(Specs) : docs = <<s>>
    BY DEF Init
  <1>3. TypedDocs
    BY <1>2, ProjectionAssumption DEF Init, TypedDocs, Optional
  <1>4. TypedPass /\ TypedManager /\ TypedControl /\ TypedChild /\ TypedGate
    BY DEF Init, TypedPass, Passes, Idle, TypedManager, TypedControl, Boxes, Closed, TypedChild,
           TypedGate, Optional
  <1>5. TypedReports /\ TypedStatus /\ TypedShown
    BY <1>1 DEF Init, TypedReports, TypedStatus, Statuses, Fresh, NoGen, TypedShown, Optional
  <1>6. QED
    BY <1>3, <1>4, <1>5, TypedParts

(* A slicer is stopped in one piece.                                       *)
LEMMA StopIsTyped ==
    ASSUME TypeOK, Stop, pipe' = pipe, reader' = reader, docs' = docs, gens' = gens,
           nextGen' = nextGen
    PROVE  /\ TypedManager' /\ TypedControl' /\ TypedChild' /\ TypedGate' /\ TypedReports'
           /\ TypedStatus'
  <1>1. Nothing \in Facts
    BY DEF Nothing, Facts, Optional
  <1>2. status' \in Statuses /\ status'.session = status.session /\ status'.claimed = status.claimed
    BY <1>1, TypedParts DEF Stop, TypedStatus, Statuses
  <1>3. TypedStatus'
    BY <1>2, TypedParts DEF TypedStatus, Config, Sessions
  <1>4. TypedManager' /\ TypedControl' /\ TypedChild' /\ TypedGate'
    BY TypedParts DEF Stop, TypedManager, Config, TypedControl, Boxes, Closed, TypedChild, TypedGate,
                      Optional
  <1>5. TypedReports'
    BY TypedParts DEF Stop, TypedReports, Optional
  <1>6. QED
    BY <1>3, <1>4, <1>5

(* The slicer that is left to compare with is the one there was.           *)
LEMMA KeptSlicer ==
    ASSUME TypedManager, NEW replug, Kept(replug) # None
    PROVE  /\ slicer # None /\ slicer \in Slicer /\ Kept(replug) \in Slicer
           /\ Kept(replug).session = slicer.session /\ Kept(replug).desired = slicer.desired
           /\ ~Fell => Kept(replug).live = slicer.live
           /\ Fell => ~Kept(replug).live /\ ~(status.requested > 0)
  <1>1. slicer # None /\ slicer \in Slicer
    BY DEF Kept, TypedManager, Optional
  <1>2. Kept(replug) = IF Fell THEN [slicer EXCEPT !.live = FALSE] ELSE slicer
    BY DEF Kept
  <1>3. Fell => ~(status.requested > 0)
    BY DEF Kept, Reaped
  <1>4. QED
    BY <1>1, <1>2, <1>3 DEF Slicer

(* Every step keeps the types.                                             *)
LEMMA TypedStep == TypeOK /\ [Next]_vars => TypeOK'
  <1> SUFFICES ASSUME TypeOK, [Next]_vars PROVE TypeOK'
    OBVIOUS
  <1> USE ProjectionAssumption
  <1>a. /\ TypedDocs /\ TypedPass /\ TypedManager /\ TypedControl /\ TypedChild /\ TypedGate
        /\ TypedReports /\ TypedStatus /\ TypedShown
    BY TypedParts
  <1>b. ASSUME UNCHANGED <<docs, pipe>>, UNCHANGED <<slicer, gate, child>>
        PROVE  /\ TypedGate' /\ TypedChild' /\ (UNCHANGED status => TypedStatus')
               /\ (UNCHANGED shown => TypedShown') /\ (UNCHANGED reader => TypedReports')
               /\ (UNCHANGED <<gens, nextGen>> => TypedManager')
               /\ (UNCHANGED pass => TypedPass') /\ (UNCHANGED <<mailbox, wire>> => TypedControl')
    BY <1>a, <1>b DEF TypedGate, TypedChild, TypedStatus, TypedShown, TypedReports, TypedManager,
                      TypedPass, TypedControl, Config, Sessions
  <1>1. ASSUME docs' = Append(docs, Wall) \/ \E spec \in Optional(Specs) : docs' = Append(docs, spec),
               Len(docs) < MaxDocs, requested' = TRUE,
               UNCHANGED <<signature, pass, manager, control, gate, child, reports, status, shown,
                           faults>>
        PROVE  TypeOK'
    <2>1. PICK spec \in Optional(Specs) : docs' = Append(docs, spec)
      BY <1>1, <1>a, WallIsADocument
    <2>2. /\ docs' \in Seq(Optional(Specs)) /\ Len(docs') = Len(docs) + 1
          /\ Len(docs) \in Nat
      BY <1>a, <2>1 DEF TypedDocs
    <2>3. TypedDocs'
      BY <1>1, <1>a, <2>2 DEF TypedDocs
    <2>4. Config \subseteq Config'
      BY <2>2 DEF Config
    <2>5. TypedPass' /\ TypedManager' /\ TypedControl' /\ TypedChild'
      BY <1>1, <1>a, <2>4 DEF TypedPass, TypedManager, TypedControl, TypedChild, manager, control
    <2>6. TypedGate' /\ TypedShown'
      BY <1>1, <1>a DEF TypedGate, TypedShown, Sessions, manager, reports
    <2>7. TypedReports' /\ TypedStatus'
      BY <1>1, <1>a, <2>4 DEF TypedReports, TypedStatus, Sessions, reports, Optional
    <2>8. QED
      BY <2>3, <2>5, <2>6, <2>7, TypedPartsNext
  <1>2. ASSUME Touch \/ \E spec \in Optional(Specs) : Write(spec) PROVE TypeOK'
    BY <1>1, <1>2 DEF Touch, Write
  <1>3. ASSUME Notice \/ DirectTick PROVE TypeOK'
    <2>1. TypedDocs'
      BY <1>3, <1>a DEF Notice, DirectTick, TypedDocs, TypedStatus, Statuses
    <2>2. UNCHANGED <<docs, pass, manager, control, gate, child, reports, status, shown>>
      BY <1>3 DEF Notice, DirectTick
    <2>3. QED
      BY <1>b, <2>1, <2>2, TypedPartsNext DEF manager, control, reports
  <1>4. ASSUME NEW replug \in BOOLEAN, BeginPass(replug), docs' = docs, signature' = signature
        PROVE  TypedDocs'
    <2>1. requested' = FALSE /\ faults \in Nat /\ MaxFaults \in Nat
          /\ (IF replug THEN faults < MaxFaults /\ faults' = faults + 1 ELSE faults' = faults + 0)
      BY <1>4, <1>a DEF BeginPass, TypedDocs
    <2>2. faults' \in 0 .. MaxFaults
      BY <1>a, <2>1 DEF TypedDocs
    <2>3. QED
      BY <1>4, <1>a, <2>1, <2>2 DEF TypedDocs
  <1>5. /\ Wall \in Optional(Specs) /\ Len(docs) \in Config /\ Len(docs) \in Nat
        /\ status.requested \in Nat \cup {NoGen}
    BY <1>a, WallIsADocument DEF TypedStatus, Statuses
  <1>6. ASSUME NEW at \in {"idle", "push", "mark"}, NEW gen \in Nat, Wall # None, slicer' # None,
               docs' = docs, pass' = Doing(at, gen)
        PROVE  TypedPass'
    BY <1>5, <1>6 DEF TypedPass, Passes, Doing, Optional, Config
  <1>7. ASSUME NEW replug \in BOOLEAN, Correlate(replug) PROVE TypeOK'
    <2>1. Kept(replug) \in Slicer /\ Kept(replug).session = slicer.session /\ slicer # None
      BY <1>7, <1>a, KeptSlicer DEF Correlate, Keeps
    <2>2. PICK gen \in Nat : gens' = Recorded(gen, Len(docs)) /\ pass' = Doing("mark", gen)
      <3>1. Later(status.requested, 0) \in Nat
        BY <1>5 DEF Later, NoGen
      <3>2. QED
        BY <1>7, <3>1 DEF Correlate
    <2>3. TypedPass'
      BY <1>6, <1>7, <2>1, <2>2 DEF Correlate, Keeps
    <2>4. TypedManager' /\ TypedGate'
      BY <1>7, <1>a, <1>5, <2>1, <2>2, RecordedGens
         DEF Correlate, TypedManager, TypedGate, Optional, Config, reports, Sessions
    <2>5. TypedDocs' /\ TypedControl' /\ TypedChild' /\ TypedReports' /\ TypedStatus' /\ TypedShown'
      BY <1>4, <1>7, <1>a
         DEF Correlate, control, reports, TypedControl, TypedChild, TypedReports, TypedStatus,
             TypedShown, Config, Sessions
    <2>6. QED
      BY <2>3, <2>4, <2>5, TypedPartsNext
  <1>8. ASSUME NEW replug \in BOOLEAN, Queue(replug) PROVE TypeOK'
    <2>1. Kept(replug) \in Slicer /\ Kept(replug).session = slicer.session /\ slicer # None
      BY <1>8, <1>a, KeptSlicer DEF Queue, Keeps
    <2>2. gens' = Recorded(nextGen, Len(docs)) /\ pass' = Doing("push", nextGen) /\ nextGen \in Nat
      BY <1>8, <1>a DEF Queue, TypedManager
    <2>3. TypedPass'
      BY <1>6, <1>8, <2>1, <2>2 DEF Queue, Keeps
    <2>4. TypedManager' /\ TypedGate'
      BY <1>8, <1>a, <1>5, <2>1, <2>2, RecordedGens
         DEF Queue, TypedManager, TypedGate, Optional, Config, reports, Sessions
    <2>5. TypedDocs' /\ TypedControl' /\ TypedChild' /\ TypedReports' /\ TypedStatus' /\ TypedShown'
      BY <1>4, <1>8, <1>a
         DEF Queue, control, reports, TypedControl, TypedChild, TypedReports, TypedStatus,
             TypedShown, Config, Sessions
    <2>6. QED
      BY <2>3, <2>4, <2>5, TypedPartsNext
  <1>9. Idle \in Passes
    BY DEF Idle, Passes, Optional
  <1>10. ASSUME Push PROVE TypeOK'
    <2>1. TypedDocs' /\ TypedShown'
      BY <1>10, <1>a DEF Push, TypedDocs, TypedShown, document, reports, Sessions
    <2>2. CASE mailbox.open
      <3>1. /\ mailbox' = [mailbox EXCEPT !.value = [gen |-> pass.gen, spec |-> pass.want]]
            /\ pass' = [pass EXCEPT !.at = "mark"]
            /\ UNCHANGED <<docs, slicer, wire, gate, child, status, pipe, reader, gens, nextGen>>
        BY <1>10, <2>2 DEF Push, Newest, document, reports
      <3>2. [gen |-> pass.gen, spec |-> pass.want] \in Update
        BY <1>10, <1>a DEF Push, TypedPass, Passes, Update, Optional
      <3>3. TypedControl'
        BY <1>a, <3>1, <3>2 DEF TypedControl, Boxes, Optional
      <3>4. TypedPass'
        BY <1>10, <1>a, <3>1 DEF Push, TypedPass, Passes, Config
      <3>5. shown' = shown
        BY <1>10 DEF Push
      <3>6. QED
        BY <1>b, <2>1, <3>1, <3>3, <3>4, <3>5, TypedPartsNext
    <2>3. CASE ~mailbox.open
      <3>1. Stop /\ pass' = Idle /\ UNCHANGED <<docs, pipe, reader, gens, nextGen>>
        BY <1>10, <2>3 DEF Push, document, reports
      <3>2. TypedPass'
        BY <1>9, <3>1 DEF TypedPass, Idle
      <3>3. QED
        BY <2>1, <3>1, <3>2, StopIsTyped, TypedPartsNext
    <2>4. QED
      BY <2>2, <2>3
  <1>11. ASSUME (\E replug \in BOOLEAN : StandDown(replug)) \/ SpawnFails PROVE TypeOK'
    <2>1. Stop /\ pass' = Idle /\ UNCHANGED <<docs, signature, pipe, reader, gens, nextGen, shown>>
      BY <1>11 DEF StandDown, SpawnFails, reports
    <2>2. TypedDocs'
      <3>1. ASSUME NEW replug \in BOOLEAN, StandDown(replug) PROVE TypedDocs'
        <4>1. BeginPass(replug) /\ docs' = docs /\ signature' = signature
          BY <3>1 DEF StandDown
        <4>2. QED
          BY <1>4, <4>1
      <3>2. ASSUME SpawnFails PROVE TypedDocs'
        <4>1. /\ faults < MaxFaults /\ faults' = faults + 1 /\ requested' = FALSE
              /\ UNCHANGED <<docs, signature>>
          BY <3>2 DEF SpawnFails
        <4>2. faults \in Nat /\ MaxFaults \in Nat
          BY <1>a DEF TypedDocs
        <4>3. faults' \in 0 .. MaxFaults
          BY <4>1, <4>2
        <4>4. QED
          BY <1>a, <4>1, <4>3 DEF TypedDocs
      <3>3. QED
        BY <1>11, <3>1, <3>2
    <2>3. TypedPass' /\ TypedShown'
      BY <1>9, <1>a, <2>1 DEF TypedPass, Idle, TypedShown, Sessions
    <2>4. QED
      BY <2>1, <2>2, <2>3, StopIsTyped, TypedPartsNext
  <1>12. ASSUME NEW replug \in BOOLEAN, Replace(replug) PROVE TypeOK'
    <2> DEFINE session == Len(pipe) + 1
    <2>1. /\ pipe' = Append(pipe, << >>) /\ gate' = session
          /\ slicer' = [session |-> session, desired |-> Wall, live |-> LiveCandidate(Wall)]
          /\ child' = [session |-> session, spec |-> Wall, mode |-> "starting", inbox |-> None,
                       pending |-> None, building |-> None, installed |-> Nothing]
          /\ Wall \in Specs /\ reader' = None /\ UNCHANGED <<docs, signature, nextGen, shown>>
          /\ mailbox' = (IF LiveCandidate(Wall) THEN Opened ELSE Closed) /\ wire' = None
          /\ gens' = [g \in {0} |-> Len(docs)]
          /\ status' = Fresh
          /\ pass' = Doing("mark", 0)
      BY <1>5, <1>12 DEF Replace, Optional
    <2>2. /\ pipe' \in Seq(Seq(AnyEvent)) /\ session \in Nat /\ DOMAIN pipe = 1 .. Len(pipe)
          /\ DOMAIN pipe' = 1 .. session /\ Len(pipe) \in Nat
      BY <1>a, <2>1 DEF TypedReports
    <2> HIDE DEF session
    <2>3. Nothing \in Facts
      BY DEF Nothing, Facts, Optional
    <2>4. slicer' \in Slicer /\ slicer' # None
      <3>1. LiveCandidate(Wall) \in BOOLEAN
        BY DEF LiveCandidate
      <3>2. slicer' \in Slicer
        BY <2>1, <2>2, <3>1 DEF Slicer
      <3>3. QED
        BY <3>2
    <2>5. TypedManager'
      BY <1>5, <1>a, <2>1, <2>4 DEF TypedManager, Config, Optional
    <2>6. child' \in Child /\ child' # None
      BY <2>1, <2>2, <2>3 DEF Child, Facts, Optional
    <2>7. TypedGate' /\ TypedChild'
      BY <2>1, <2>2, <2>4, <2>6 DEF TypedGate, TypedChild, Optional, Sessions
    <2>8. TypedPass'
      BY <1>6, <2>1, <2>4
    <2>9. TypedControl'
      BY <2>1 DEF TypedControl, Boxes, Opened, Closed, Optional
    <2>10. TypedReports' /\ TypedStatus'
      BY <2>1, <2>2, <2>3 DEF TypedReports, TypedStatus, Statuses, Fresh, NoGen, Optional
    <2>11. TypedShown'
      BY <1>a, <2>1, <2>2 DEF TypedShown, Sessions, session
    <2>12. TypedDocs'
      BY <1>4, <1>12 DEF Replace
    <2>13. QED
      BY <2>5, <2>7, <2>8, <2>9, <2>10, <2>11, <2>12, TypedPartsNext
  <1>13. ASSUME Mark PROVE TypeOK'
    <2>1. UNCHANGED <<docs, requested, signature, nextGen, gens, mailbox, wire, gate, child, pipe,
                      reader, shown, faults>>
      BY <1>13 DEF Mark, document, control, reports
    <2>2. slicer \in Slicer /\ slicer # None /\ pass.want \in Specs /\ pass.gen \in Nat
          /\ pass.cfg \in Config /\ pass.cfg \in Nat
      BY <1>13, <1>a DEF Mark, TypedPass, Passes, TypedManager, Optional, Config
    <2>3. /\ slicer' = [slicer EXCEPT !.desired = pass.want] /\ slicer' \in Slicer
          /\ slicer'.session = slicer.session
      BY <1>13, <2>2 DEF Mark, Slicer
    <2>4. Later(status.requested, pass.gen) \in Nat
      BY <1>5, <2>2 DEF Later, NoGen
    <2>5. slicer.session \in Nat /\ slicer.session \in Sessions
      BY <1>a, <2>2 DEF Slicer, TypedGate, Optional
    <2>6. TypedStatus'
      <3> DEFINE asked == Later(status.requested, pass.gen)
      <3>1. status' = [status EXCEPT !.session = slicer.session, !.requested = asked,
                                     !.claimed = IF AlreadyApplied(asked) THEN pass.cfg ELSE @]
        BY <1>13 DEF Mark
      <3>2. status' \in Statuses /\ status'.session = slicer.session
            /\ status'.claimed \in {pass.cfg, status.claimed}
        BY <1>a, <2>2, <2>4, <2>5, <3>1 DEF TypedStatus, Statuses, Optional
      <3>3. QED
        BY <1>a, <2>1, <2>2, <2>5, <3>2 DEF TypedStatus, Config, Sessions, Optional
    <2>7. TypedManager' /\ TypedGate'
      BY <1>a, <2>1, <2>2, <2>3 DEF TypedManager, TypedGate, Config, Sessions, Optional
    <2>8. TypedPass'
      BY <1>9, <1>13 DEF Mark, TypedPass, Idle
    <2>9. TypedDocs' /\ TypedControl' /\ TypedChild' /\ TypedReports' /\ TypedShown'
      BY <1>a, <2>1 DEF TypedDocs, TypedControl, TypedChild, TypedReports, TypedShown, Config,
                        Sessions
    <2>10. QED
      BY <2>6, <2>7, <2>8, <2>9, TypedPartsNext
  <1>14. ASSUME WriterWrites \/ WriterFails PROVE TypeOK'
    <2>1. /\ UNCHANGED <<docs, requested, signature, pass, slicer, nextGen, gens, gate, child, pipe,
                         reader, status, shown, faults>>
      BY <1>14 DEF WriterWrites, WriterFails, document, manager, reports
    <2>2. TypedControl'
      <3>1. ASSUME WriterWrites PROVE TypedControl'
        <4>1. mailbox.value \in Optional(Update) /\ [mailbox EXCEPT !.value = None] \in Boxes
          BY <1>a DEF TypedControl, Boxes, Optional
        <4>2. QED
          BY <3>1, <4>1 DEF WriterWrites, TypedControl
      <3>2. ASSUME WriterFails PROVE TypedControl'
        BY <3>2 DEF WriterFails, TypedControl, Boxes, Optional
      <3>3. QED
        BY <1>14, <3>1, <3>2
    <2>3. TypedDocs'
      BY <1>a, <2>1 DEF TypedDocs
    <2>4. QED
      BY <1>b, <2>1, <2>2, <2>3, TypedPartsNext
  <1>15. ASSUME child # None, child' \in Optional(Child), child' # None => child'.session = gate,
                UNCHANGED <<document, signature, pass, manager, mailbox, gate, reader, status>>,
                UNCHANGED pipe \/ \E events \in Seq(AnyEvent) : Report(events),
                wire' \in {wire, None},
                UNCHANGED shown \/ \E gen \in Nat, spec \in Specs :
                                     shown' = shown \cup {Installs(gen, spec)},
                faults' \in {faults} \/ (faults' = faults + 1 /\ faults < MaxFaults)
         PROVE  TypeOK'
    <2>0. child # None
      BY <1>15
    <2>1. child \in Child /\ child.session = gate /\ slicer # None
      BY <2>0, <1>a DEF TypedChild, TypedGate, Optional
    <2>3a. gate \in Sessions
      <3>1. child.session # None
        BY <2>1 DEF Child
      <3>2. QED
        BY <2>1, <3>1, <1>a DEF TypedGate, Optional
    <2>2. UNCHANGED <<docs, requested, signature, pass, slicer, nextGen, gens, mailbox, gate, reader,
                      status>>
      BY <1>15 DEF document, manager
    <2>3. pipe' \in Seq(Seq(AnyEvent)) /\ DOMAIN pipe' = DOMAIN pipe
      BY <1>15, <1>a, <2>1, <2>3a, ReportsAreTyped DEF TypedReports, Sessions
    <2>4. TypedDocs'
      BY <1>15, <1>a, <2>2 DEF TypedDocs
    <2>5. TypedPass' /\ TypedManager' /\ TypedControl'
      BY <1>15, <1>a, <2>2 DEF TypedPass, TypedManager, TypedControl, Config, Optional
    <2>6. TypedChild' /\ TypedGate' /\ TypedReports' /\ TypedStatus'
      <3>1. TypedReports' /\ TypedStatus'
        BY <1>a, <2>2, <2>3 DEF TypedReports, TypedStatus, Config, Sessions
      <3>2. QED
        BY <1>15, <1>a, <2>1, <2>2, <2>3, <3>1 DEF TypedChild, TypedGate, Sessions
    <2>7. TypedShown'
      BY <1>15, <1>a, <2>1, <2>3, <2>3a DEF TypedShown, Installs, Sessions
    <2>10. QED
      BY <2>4, <2>5, <2>6, <2>7, TypedPartsNext
  <1>16. ASSUME child # None
         PROVE  child \in Child /\ child.spec \in Specs /\ child.session = gate
    BY <1>16, <1>a DEF TypedChild, TypedGate, Child, Optional
  <1>17. ASSUME child # None, NEW e \in {"gpu", "cpu"} PROVE <<Capability(e)>> \in Seq(AnyEvent)
    <2>1. [renderer |-> child.spec.renderer, effective |-> e] \in Capabilities
      BY <1>16, <1>17, CutsOfSpecs DEF Capabilities
    <2>2. QED
      BY <2>1 DEF Capability, AnyEvent
  <1>18. ASSUME StartsGpu PROVE TypeOK'
    <2> DEFINE c == [child EXCEPT !.mode = "gpu", !.pending = [gen |-> 0, spec |-> child.spec]]
    <2>1. child # None /\ child' = StartBuild(c) /\ Report(<<Capability("gpu")>>)
          /\ UNCHANGED <<document, signature, pass, manager, control, gate, reader, status, shown,
                         faults>>
      BY <1>18 DEF StartsGpu
    <2>2. c \in Child /\ c.session = gate
      <3>1. [gen |-> 0, spec |-> child.spec] \in Update
        BY <1>16, <2>1 DEF Update
      <3>2. QED
        BY <1>16, <2>1, <3>1 DEF Child, Optional
    <2> HIDE DEF c
    <2>3. child' \in Child /\ child'.session = gate
      BY <2>1, <2>2, StartBuildEffect
    <2>4. <<Capability("gpu")>> \in Seq(AnyEvent)
      BY <1>17, <2>1
    <2>5. QED
      BY <1>15, <2>1, <2>3, <2>4 DEF control, Optional
  <1>19. ASSUME StartsCpu PROVE TypeOK'
    <2>1. child # None /\ Report(<<Capability("cpu"), Applied(0, child.spec, Outputs)>>)
          /\ child' = [child EXCEPT !.mode = "cpu", !.installed = child.spec.cut]
          /\ shown' = shown \cup {Installs(0, child.spec)}
          /\ UNCHANGED <<document, signature, pass, manager, control, gate, reader, status, faults>>
      BY <1>19 DEF StartsCpu
    <2>2. child' \in Child /\ child'.session = gate
      <3>1. child.spec.cut \in [Outputs -> Optional(Cuts)]
        BY <1>16, <2>1, CutsOfSpecs DEF Optional
      <3>2. QED
        BY <1>16, <2>1, <3>1 DEF Child
    <2>3. <<Capability("cpu"), Applied(0, child.spec, Outputs)>> \in Seq(AnyEvent)
      <3>1. Capability("cpu") \in AnyEvent
        BY <1>17, <2>1
      <3>2. Applied(0, child.spec, Outputs) \in AnyEvent
        BY <1>16, <2>1, AppliedIsAnEvent DEF AnyEvent
      <3>3. QED
        BY <3>1, <3>2
    <2>4. \E gen \in Nat, spec \in Specs : shown' = shown \cup {Installs(gen, spec)}
      BY <1>16, <2>1
    <2>5. QED
      BY <1>15, <2>1, <2>2, <2>3, <2>4 DEF control, Optional
  <1>20. ASSUME ReadControl PROVE TypeOK'
    <2>1. child # None /\ wire # None /\ wire' = None /\ child' = [child EXCEPT !.inbox = wire]
          /\ UNCHANGED <<document, signature, pass, manager, mailbox, gate, pipe, reader, status,
                         shown, faults>>
      BY <1>20 DEF ReadControl, Newest, reports
    <2>2. child' \in Child /\ child'.session = gate
      BY <1>16, <1>a, <2>1 DEF Child, TypedControl
    <2>3. QED
      BY <1>15, <2>1, <2>2 DEF Optional
  <1>21. ASSUME NEW valid \in BOOLEAN, Poll(valid) PROVE TypeOK'
    <2>1. child # None /\ child' = StartBuild(Request(child, valid)) /\ Report(Answer(child, valid))
          /\ UNCHANGED <<document, signature, pass, manager, control, gate, reader, status, shown>>
          /\ (valid => faults' = faults + 0) /\ (~valid => faults < MaxFaults /\ faults' = faults + 1)
      BY <1>21 DEF Poll
    <2>2. child' \in Child /\ child'.session = gate
      BY <1>16, <2>1, RequestEffect, StartBuildEffect
    <2>3. Answer(child, valid) \in Seq(AnyEvent)
      BY <1>16, <2>1, AnswersAreEvents
    <2>4. faults' \in {faults} \/ (faults' = faults + 1 /\ faults < MaxFaults)
      BY <1>a, <2>1 DEF TypedDocs
    <2>5. QED
      BY <1>15, <2>1, <2>2, <2>3, <2>4 DEF control, Optional
  <1>22. ASSUME child # None, child.building # None
         PROVE  /\ child.building.request \in Update /\ child.building.request.gen \in Nat
                /\ child.building.request.spec \in Specs
    BY <1>16, <1>22 DEF Child, Optional, Update
  <1>23. ASSUME NEW valid \in BOOLEAN, Install(valid) PROVE TypeOK'
    <2> DEFINE c == Request(child, valid)
               request == c.building.request
               d == [c EXCEPT !.building = None,
                              !.installed = [o \in Outputs |-> IF o \in c.building.outs
                                                               THEN request.spec.cut[o] ELSE @[o]]]
               event == Applied(request.gen, request.spec, c.building.outs)
    <2>1. child # None /\ child.building # None /\ child' = StartBuild(d)
          /\ Report(Answer(child, valid) \o <<event>>)
          /\ shown' = shown \cup {Installs(request.gen, request.spec)}
          /\ UNCHANGED <<document, signature, pass, manager, control, gate, reader, status>>
          /\ (valid => faults' = faults + 0) /\ (~valid => faults < MaxFaults /\ faults' = faults + 1)
      BY <1>23 DEF Install
    <2>2. c \in Child /\ c.session = gate /\ c.building = child.building
      BY <1>16, <2>1, RequestEffect
    <2>3. request.gen \in Nat /\ request.spec \in Specs
      BY <1>22, <2>1, <2>2
    <2>4. d \in Child /\ d.session = gate
      <3>1. \A o \in Outputs : request.spec.cut[o] \in Cuts
        BY <2>3, CutsOfSpecs
      <3>2. QED
        BY <2>2, <3>1 DEF Child, Optional
    <2>5. event \in AnyEvent
      BY <2>3, AppliedIsAnEvent DEF AnyEvent
    <2>6. Answer(child, valid) \o <<event>> \in Seq(AnyEvent)
      BY <1>16, <2>1, <2>5, AnswersAreEvents
    <2>7. faults' \in {faults} \/ (faults' = faults + 1 /\ faults < MaxFaults)
      BY <1>a, <2>1 DEF TypedDocs
    <2>8. \E gen \in Nat, spec \in Specs : shown' = shown \cup {Installs(gen, spec)}
      BY <2>1, <2>3
    <2> HIDE DEF c, request, d, event
    <2>9. child' \in Child /\ child'.session = gate
      BY <2>1, <2>4, StartBuildEffect
    <2>10. QED
      BY <1>15, <2>1, <2>6, <2>7, <2>8, <2>9 DEF control, Optional
  <1>24. ASSUME NEW exits \in BOOLEAN, BuildFails(exits) PROVE TypeOK'
    <2> DEFINE c == [child EXCEPT !.building = None]
               event == Event("rejected", child.building.request.gen)
    <2>1. child # None /\ child.building # None
          /\ child' = (IF exits THEN None ELSE StartBuild(Request(c, TRUE)))
          /\ Report(Answer(child, TRUE) \o <<event>>)
          /\ UNCHANGED <<document, signature, pass, manager, control, gate, reader, status, shown>>
          /\ faults < MaxFaults /\ faults' = faults + 1
      BY <1>24 DEF BuildFails
    <2>2. c \in Child /\ c.session = gate
      BY <1>16, <2>1 DEF Child, Optional
    <2>3. event \in AnyEvent
      BY <1>22, <2>1 DEF Event, AnyEvent
    <2> HIDE DEF c, event
    <2>4. Answer(child, TRUE) \o <<event>> \in Seq(AnyEvent)
      <3>1. child \in Child /\ TRUE \in BOOLEAN
        BY <1>16, <2>1
      <3> DEFINE answer == Answer(child, TRUE)
      <3>2. answer \in Seq(AnyEvent)
        BY <3>1, AnswersAreEvents, Zenon
      <3>3. <<event>> \in Seq(AnyEvent)
        BY <2>3
      <3> HIDE DEF answer
      <3>4. answer \o <<event>> \in Seq(AnyEvent)
        BY <3>2, <3>3
      <3>5. QED
        BY <3>4 DEF answer
    <2>5. child' \in Optional(Child) /\ (child' # None => child'.session = gate)
      <3>1. Request(c, TRUE) \in Child /\ Request(c, TRUE).session = gate
        BY <2>2, RequestEffect
      <3>2. StartBuild(Request(c, TRUE)) \in Child
            /\ StartBuild(Request(c, TRUE)).session = gate
        BY <3>1, StartBuildEffect
      <3>3. QED
        BY <2>1, <3>2 DEF Optional
    <2>6. QED
      BY <1>15, <2>1, <2>4, <2>5 DEF control
  <1>25. ASSUME Exit PROVE TypeOK'
    BY <1>15, <1>25 DEF Exit, control, reports, Optional
  <1>26. ASSUME NEW session \in Sessions, Read(session) PROVE TypeOK'
    <2> DEFINE event == Head(pipe[session])
    <2>1. /\ pipe[session] # << >> /\ reader = None /\ gate = session
          /\ pipe' = [pipe EXCEPT ![session] = Tail(@)]
          /\ event.kind = "applied" =>
               reader' = [session |-> session, event |-> event, cfg |-> ConfigFor(event.gen)]
               /\ status' = status
          /\ event.kind # "applied" =>
               status' = Booked(status, session, event, None) /\ reader' = reader
          /\ UNCHANGED <<docs, requested, signature, pass, slicer, nextGen, gens, mailbox, wire, gate,
                         child, shown, faults>>
      BY <1>26 DEF Read, MayPublish, document, manager, control
    <2>2. /\ event \in AnyEvent /\ Tail(pipe[session]) \in Seq(AnyEvent) /\ session \in Nat
      BY <1>26, <1>a, <2>1 DEF TypedReports, Sessions
    <2> HIDE DEF event
    <2>3. pipe' \in Seq(Seq(AnyEvent)) /\ DOMAIN pipe' = DOMAIN pipe
      BY <1>26, <1>a, <2>1, <2>2 DEF TypedReports, Sessions
    <2>4. TypedReports'
      <3>1. CASE event.kind = "applied"
        <4>1. event \in AppliedEvent /\ event.gen \in Nat
          BY <2>2, <3>1 DEF AnyEvent, AppliedEvent
        <4>2. ConfigFor(event.gen) \in Optional(Config) /\ ConfigFor(event.gen) \in Optional(Nat)
          BY <1>a DEF ConfigFor, TypedManager, Optional, Config
        <4>3. reader' \in Lookup /\ reader'.session = gate /\ reader'.cfg = ConfigFor(event.gen)
          BY <2>1, <2>2, <3>1, <4>1, <4>2 DEF Lookup
        <4>4. QED
          BY <2>1, <2>3, <4>2, <4>3 DEF TypedReports, Optional, Config
      <3>2. CASE event.kind # "applied"
        BY <1>a, <2>1, <2>3, <3>2 DEF TypedReports, Config
      <3>3. QED
        BY <3>1, <3>2
    <2>5. TypedStatus'
      <3>1. CASE event.kind = "applied"
        BY <1>a, <2>1, <2>3, <3>1 DEF TypedStatus, Config, Sessions
      <3>2. CASE event.kind # "applied"
        <4>1. status \in Statuses /\ None \in Optional(Nat)
          BY <1>a DEF TypedStatus, Optional
        <4>2. status' \in Statuses /\ status'.session = session /\ status'.claimed = status.claimed
          <5>1. status' = Booked(status, session, event, None)
            BY <2>1, <3>2
          <5> DEFINE new == Booked(status, session, event, None)
          <5>2. new \in Statuses /\ new.session = session /\ new.claimed = status.claimed
            BY <2>2, <3>2, <4>1, BookedEffect
          <5>3. QED
            BY <5>1, <5>2
        <4>3. QED
          BY <1>26, <1>a, <2>1, <2>3, <4>2 DEF TypedStatus, Config, Sessions, Optional
      <3>3. QED
        BY <3>1, <3>2
    <2>6. TypedDocs' /\ TypedPass' /\ TypedManager' /\ TypedControl' /\ TypedChild'
      BY <1>a, <2>1 DEF TypedDocs, TypedPass, TypedManager, TypedControl, TypedChild, Config
    <2>7. TypedGate' /\ TypedShown'
      BY <1>a, <2>1, <2>3 DEF TypedGate, TypedShown, Sessions
    <2>8. QED
      BY <2>4, <2>5, <2>6, <2>7, TypedPartsNext
  <1>27. ASSUME Book PROVE TypeOK'
    <2>1. /\ reader # None /\ reader' = None
          /\ status' = Booked(status, reader.session, reader.event, reader.cfg)
          /\ UNCHANGED <<docs, requested, signature, pass, slicer, nextGen, gens, mailbox, wire, gate,
                         child, pipe, shown, faults>>
      BY <1>27 DEF Book, document, manager, control
    <2>2. /\ reader \in Lookup /\ reader.session = gate /\ reader.cfg \in Optional(Config)
          /\ reader.session \in Nat /\ reader.event \in AnyEvent /\ reader.cfg \in Optional(Nat)
      BY <1>a, <2>1 DEF TypedReports, Optional, Lookup, AnyEvent
    <2>3. status' \in Statuses /\ status'.session = gate
          /\ status'.claimed \in {status.claimed, reader.cfg}
      BY <1>a, <2>1, <2>2, BookedEffect DEF TypedStatus
    <2>4. TypedStatus'
      BY <1>a, <2>1, <2>2, <2>3 DEF TypedStatus, TypedGate, Config, Sessions, Optional
    <2>5. TypedReports'
      BY <1>a, <2>1 DEF TypedReports, Optional
    <2>6. TypedDocs'
      BY <1>a, <2>1 DEF TypedDocs
    <2>7. QED
      BY <1>b, <2>1, <2>4, <2>5, <2>6, TypedPartsNext
  <1>28. ASSUME NEW session \in Sessions, ReaderEnds(session) PROVE TypeOK'
    <2>1. /\ pipe' = [pipe EXCEPT ![session] = << >>]
          /\ UNCHANGED <<docs, requested, signature, pass, slicer, nextGen, gens, mailbox, wire, gate,
                         child, reader, status, shown, faults>>
      BY <1>28 DEF ReaderEnds, document, manager, control
    <2>2. pipe' \in Seq(Seq(AnyEvent)) /\ DOMAIN pipe' = DOMAIN pipe
      BY <1>28, <1>a, <2>1 DEF TypedReports, Sessions
    <2>3. TypedDocs' /\ TypedPass' /\ TypedManager' /\ TypedControl' /\ TypedChild'
      BY <1>a, <2>1 DEF TypedDocs, TypedPass, TypedManager, TypedControl, TypedChild, Config
    <2>4. TypedGate' /\ TypedShown' /\ TypedReports' /\ TypedStatus'
      BY <1>a, <2>1, <2>2 DEF TypedGate, TypedShown, TypedReports, TypedStatus, Sessions, Config
    <2>5. QED
      BY <2>3, <2>4, TypedPartsNext
  <1>29. ASSUME UNCHANGED vars PROVE TypeOK'
    BY <1>29 DEF vars, document, manager, control, reports, TypeOK, Config, Sessions
  <1>30. QED
    BY <1>2, <1>3, <1>7, <1>8, <1>10, <1>11, <1>12, <1>13, <1>14, <1>18, <1>19, <1>20, <1>21, <1>23,
       <1>24, <1>25, <1>26, <1>27, <1>28, <1>29
       DEF Next, Begin, PassStep, WriterStep, ChildStep, ReaderStep, Rest

(* Every variable has its type: among them, that the gate, the manager's   *)
(* record, the child and a report being booked are of one session, and     *)
(* that every configuration named is one that was written.                 *)
THEOREM ProjectionTypeCorrect == Spec => []TypeOK
  BY TypedInit, TypedStep, PTL DEF Spec

-----------------------------------------------------------------------------
(* Nothing is left of a slicer that was stopped.                           *)
LEMMA StoppedInit == Init => StoppedSaysNothing
  BY DEF Init, Fresh, StoppedSaysNothing

LEMMA StoppedStep == TypeOK /\ StoppedSaysNothing /\ [Next]_vars => StoppedSaysNothing'
  <1> SUFFICES ASSUME TypeOK, StoppedSaysNothing, [Next]_vars PROVE StoppedSaysNothing'
    OBVIOUS
  <1>1. TypedPass /\ TypedManager /\ TypedGate /\ TypedReports /\ TypedStatus
    BY TypedParts
  <1>2. ASSUME UNCHANGED <<slicer, status>> PROVE StoppedSaysNothing'
    BY <1>2 DEF StoppedSaysNothing
  <1>3. ASSUME Stop PROVE StoppedSaysNothing'
    BY <1>1, <1>3 DEF Stop, StoppedSaysNothing, TypedStatus, Statuses
  <1>4. ASSUME slicer' # None PROVE StoppedSaysNothing'
    BY <1>4 DEF StoppedSaysNothing
  <1>5. ASSUME UNCHANGED slicer, gate # None PROVE StoppedSaysNothing'
    BY <1>1, <1>5 DEF StoppedSaysNothing, TypedGate
  <1>6. ASSUME NEW replug \in BOOLEAN, Correlate(replug) \/ Queue(replug) PROVE StoppedSaysNothing'
    BY <1>4, <1>6 DEF Correlate, Queue, Keeps
  <1>7. ASSUME NEW replug \in BOOLEAN, Replace(replug) PROVE StoppedSaysNothing'
    BY <1>7 DEF Replace, Fresh, StoppedSaysNothing
  <1>8. ASSUME Push PROVE StoppedSaysNothing'
    BY <1>2, <1>3, <1>8 DEF Push
  <1>9. ASSUME Mark PROVE StoppedSaysNothing'
    <2>1. slicer \in Slicer
      BY <1>1, <1>9 DEF Mark, TypedPass, TypedManager, Optional
    <2>2. slicer' \in Slicer
      BY <1>1, <1>9, <2>1 DEF Mark, Slicer, TypedPass, Passes, Optional
    <2>3. QED
      BY <1>4, <2>2, ProjectionAssumption
  <1>10. ASSUME NEW session \in Sessions, Read(session) PROVE StoppedSaysNothing'
    <2>1. gate = session /\ session # None /\ slicer' = slicer
      BY <1>1, <1>10, ProjectionAssumption DEF Read, MayPublish, manager, Sessions, TypedReports
    <2>2. QED
      BY <1>5, <2>1
  <1>11. ASSUME Book PROVE StoppedSaysNothing'
    <2>1. gate = reader.session /\ reader.session \in Nat /\ slicer' = slicer
      BY <1>1, <1>11 DEF Book, manager, TypedReports, Optional, Lookup
    <2>2. QED
      BY <1>5, <2>1, ProjectionAssumption
  <1>12. QED
    <2>1. ASSUME (\E spec \in Optional(Specs) : Write(spec)) \/ Touch \/ Notice \/ DirectTick \/ Rest
          PROVE  StoppedSaysNothing'
      BY <1>2, <2>1 DEF Write, Touch, Notice, DirectTick, Rest, manager, vars
    <2>2. ASSUME WriterStep \/ ChildStep \/ Exit
                 \/ (\E session \in Sessions : ReaderEnds(session)) \/ UNCHANGED vars
          PROVE  StoppedSaysNothing'
      BY <1>2, <2>2
         DEF WriterStep, WriterWrites, WriterFails, ChildStep, StartsGpu, StartsCpu, ReadControl, Poll,
             Install, BuildFails, Exit, ReaderEnds, manager, vars
    <2>3. ASSUME (\E replug \in BOOLEAN : StandDown(replug)) \/ SpawnFails
          PROVE  StoppedSaysNothing'
      BY <1>3, <2>3 DEF StandDown, SpawnFails
    <2>4. QED
      BY <1>6, <1>7, <1>8, <1>9, <1>10, <1>11, <2>1, <2>2, <2>3
         DEF Next, Begin, PassStep, ReaderStep

(* Once a slicer is stopped no facts about the mapping it showed are left  *)
(* or come back: the gate closes first, and nothing is booked for a closed *)
(* gate.                                                                   *)
THEOREM NothingAfterStop == Spec => []StoppedSaysNothing
  BY StoppedInit, StoppedStep, ProjectionTypeCorrect, PTL DEF Spec

-----------------------------------------------------------------------------
(* What a running slicer keeps: the inductive part of the properties below.*)

Running == slicer # None

One(u) == {u} \ {None}
Sent == One(wire)
Posted == One(mailbox.value)
HeardOf(c) == IF c = None THEN {} ELSE One(c.inbox)
WaitingOf(c) == IF c = None THEN {} ELSE One(c.pending)
BuildingOf(c) == IF c = None \/ c.building = None THEN {} ELSE {c.building.request}
Held(c) == BuildingOf(c) \cup WaitingOf(c) \cup HeardOf(c)

\* What this session has installed, and what it may still install.
ShownHere == {x \in shown : x.session = gate}
Known == ShownHere \cup Held(child) \cup Sent \cup Posted

\* The control generation that was asked for last.
Top == IF pass.at = "idle" THEN Later(status.requested, 0) ELSE pass.gen

Before(S, T) == \A u \in S, v \in T : u.gen < v.gen

\* From the mailbox to the wall the generations stand in line.
Line(S, c, N, P) ==
    /\ Before(S, BuildingOf(c))
    /\ Before(S \cup BuildingOf(c), WaitingOf(c))
    /\ Before(S \cup BuildingOf(c) \cup WaitingOf(c), HeardOf(c))
    /\ Before(S \cup Held(c), N)
    /\ Before(S \cup Held(c) \cup N, P)
    /\ \A u \in HeardOf(c) \cup N \cup P : u.gen > 0

\* None was handed out that was not asked for, and those recorded were asked for.
Numbered ==
    /\ \A u \in Known : u.gen <= Top
    /\ \A g \in DOMAIN gens : g <= Top
    /\ Top < nextGen
    /\ ~slicer.live => Top = 0
    /\ pass.at # "idle" => status.requested <= pass.gen
    /\ pass.at = "push" => Top > 0 /\ \A u \in Known : u.gen < Top

\* A child that has not probed has shown nothing, one on the CPU builds nothing.
Modes ==
    child # None => /\ child.mode = "starting" => ShownHere \cup Held(child) = {}
                    /\ child.mode = "cpu" => Held(child) = {}

Queued == Line(ShownHere, child, Sent, Posted) /\ Numbered /\ Modes

\* m is what each control generation of this session stands for.
Meant(m) ==
    /\ \A u \in Known : u.spec = m[u.gen]
    /\ child # None => child.spec = m[0]
    /\ \A g \in DOMAIN gens : docs[gens[g]] = m[g]
    /\ IF pass.at = "idle" THEN slicer.desired = m[Top]
       ELSE pass.want = m[Top] /\ docs[pass.cfg] = m[Top]
    /\ reader # None /\ reader.cfg # None => docs[reader.cfg] = m[reader.event.gen]

\* The reports of installations in a pipe, and whether they are in order.
AppliedIn(q) == {e \in {q[i] : i \in DOMAIN q} : e.kind = "applied"}
InOrder(q) ==
    \A i, j \in DOMAIN q :
        i < j /\ q[i].kind = "applied" /\ q[j].kind = "applied" => q[i].gen < q[j].gen

\* What was installed and is not booked.
Untold == AppliedIn(pipe[gate])
Outstanding == Untold \cup (IF reader = None THEN {} ELSE {reader.event})

\* Each report is of an installation, and they are booked in order, each once.
Reported ==
    /\ \A e \in Outstanding : e.gen > status.applied /\ \E x \in ShownHere : x.gen = e.gen
    /\ InOrder(pipe[gate])
    /\ reader # None => \A e \in Untold : reader.event.gen < e.gen

\* The status is about this session or none, and names what it installed.
Remembered ==
    /\ status.session \in {None, gate}
    /\ status.session = None => status.applied = NoGen /\ status.claimed = None
    /\ status.applied # NoGen => \E x \in ShownHere : x.gen = status.applied

\* A cut that was reported is that of every later wall, up to the next report of its output.
Holds(v, g, o) ==
    v # None => \A x \in ShownHere : x.gen >= g =>
        \/ x.spec.cut[o] = v
        \/ \E e \in Outstanding : g < e.gen /\ e.gen <= x.gen /\ e.facts[o] # None

Carried ==
    \A o \in Outputs :
        /\ Holds(status.facts[o], status.applied, o)
        /\ \A e \in Outstanding : Holds(e.facts[o], e.gen, o)

\* What a build for a wall covers.
Uncut(c, spec) == {o \in Outputs : c.installed[o] # spec.cut[o]}

\* The child has the newest wall up, and a build covers where the next one differs.
Installed ==
    child # None =>
        /\ ShownHere # {} => \E x \in ShownHere :
                /\ \A y \in ShownHere : y.gen <= x.gen
                /\ child.installed = x.spec.cut
        /\ ShownHere = {} => child.installed = Nothing
        /\ child.building # None => child.building.outs = Uncut(child, child.building.request.spec)

\* Newer generations were recorded for newer configurations, and a claim is as old
\* as the generation it is made for.
Claims ==
    /\ \A g, h \in DOMAIN gens : g < h => gens[g] <= gens[h]
    /\ status.claimed # None => \A g \in DOMAIN gens : g > status.applied => status.claimed <= gens[g]
    /\ reader # None /\ reader.cfg # None =>
          /\ status.claimed # None => status.claimed <= reader.cfg
          /\ \A g \in DOMAIN gens : g > reader.event.gen => reader.cfg <= gens[g]
    /\ pass.at # "idle" =>
          /\ \A g \in DOMAIN gens : gens[g] <= pass.cfg
          /\ status.claimed # None => status.claimed <= pass.cfg
          /\ reader # None /\ reader.cfg # None => reader.cfg <= pass.cfg

-----------------------------------------------------------------------------
(* What the steps do to it.                                               *)

(* What a child holds, once it has read a request or started a build, it   *)
(* held before.                                                            *)
LEMMA RequestMoves ==
    ASSUME NEW c \in Child, NEW valid \in BOOLEAN
    PROVE  LET d == Request(c, valid)
           IN  /\ BuildingOf(d) = BuildingOf(c) /\ HeardOf(d) = {}
               /\ WaitingOf(d) = WaitingOf(c) \/ WaitingOf(d) = HeardOf(c)
  BY RequestEffect, ProjectionAssumption DEF BuildingOf, HeardOf, WaitingOf, One

LEMMA StartBuildMoves ==
    ASSUME NEW c \in Child
    PROVE  LET d == StartBuild(c)
           IN  /\ HeardOf(d) = HeardOf(c)
               /\ \/ BuildingOf(d) = BuildingOf(c) /\ WaitingOf(d) = WaitingOf(c)
                  \/ BuildingOf(c) = {} /\ BuildingOf(d) = WaitingOf(c) /\ WaitingOf(d) = {}
  <1> DEFINE d == StartBuild(c)
  <1>1. d \in Child /\ d # None /\ c # None /\ d.inbox = c.inbox
    BY StartBuildEffect, ProjectionAssumption
  <1>2. HeardOf(d) = HeardOf(c)
    BY <1>1 DEF HeardOf
  <1>3. CASE c.building # None \/ c.pending = None
    <2>1. d.pending = c.pending /\ d.building = c.building
      BY <1>3, StartBuildEffect
    <2>2. QED
      BY <1>1, <1>2, <2>1 DEF BuildingOf, WaitingOf
  <1>4. CASE c.building = None /\ c.pending # None
    <2>1. d.pending = None /\ d.building # None /\ d.building.request = c.pending
      BY <1>4, StartBuildEffect
    <2>2. QED
      BY <1>1, <1>2, <1>4, <2>1 DEF BuildingOf, WaitingOf, One
  <1>5. QED
    BY <1>3, <1>4

(* ... so that those who stand in line still do.                           *)
LEMMA RequestKeepsLine ==
    ASSUME NEW c \in Child, NEW valid \in BOOLEAN, NEW S, NEW N, NEW P, Line(S, c, N, P)
    PROVE  Line(S, Request(c, valid), N, P)
  <1> DEFINE d == Request(c, valid)
  <1>1. /\ BuildingOf(d) = BuildingOf(c) /\ HeardOf(d) = {}
        /\ WaitingOf(d) = WaitingOf(c) \/ WaitingOf(d) = HeardOf(c)
    BY RequestMoves
  <1> HIDE DEF d
  <1>2. Line(S, d, N, P)
    BY <1>1, Zenon DEF Line, Before, Held
  <1>3. QED
    BY <1>2 DEF d

LEMMA StartBuildKeepsLine ==
    ASSUME NEW c \in Child, NEW S, NEW N, NEW P, Line(S, c, N, P)
    PROVE  Line(S, StartBuild(c), N, P)
  <1> DEFINE d == StartBuild(c)
  <1>1. /\ HeardOf(d) = HeardOf(c)
        /\ \/ BuildingOf(d) = BuildingOf(c) /\ WaitingOf(d) = WaitingOf(c)
           \/ BuildingOf(c) = {} /\ BuildingOf(d) = WaitingOf(c) /\ WaitingOf(d) = {}
    BY StartBuildMoves
  <1> HIDE DEF d
  <1>2. Line(S, d, N, P)
    BY <1>1, Zenon DEF Line, Before, Held
  <1>3. QED
    BY <1>2 DEF d

(* What is known has its type while a slicer runs.                         *)
LEMMA KnownIsTyped ==
    ASSUME TypeOK, Running
    PROVE  /\ slicer \in Slicer /\ gate \in Sessions /\ gate \in Nat /\ slicer.session = gate
           /\ Held(child) \cup Sent \cup Posted \subseteq Update
           /\ \A x \in ShownHere : x.session = gate /\ x.gen \in Nat /\ x.spec \in Specs
           /\ \A u \in Known : u.gen \in Nat /\ u.spec \in Specs
           /\ Top \in Nat /\ nextGen \in Nat /\ DOMAIN gens \subseteq Nat
           /\ status.requested \in Nat \cup {NoGen} /\ status.applied \in Nat \cup {NoGen}
  <1>1. /\ TypedManager /\ TypedGate /\ TypedChild /\ TypedControl /\ TypedShown /\ TypedPass
        /\ TypedStatus /\ TypedReports
    BY TypedParts
  <1>2. slicer \in Slicer /\ slicer.session = gate /\ gate \in Nat /\ gate \in Sessions
    <2>1. slicer \in Slicer /\ slicer.session = gate
      BY <1>1 DEF Running, TypedManager, TypedGate, Optional
    <2>2. gate \in Nat
      BY <2>1 DEF Slicer
    <2>3. QED
      BY <1>1, <2>1, <2>2, ProjectionAssumption DEF TypedGate, Optional
  <1>3. Held(child) \subseteq Update
    BY <1>1 DEF TypedChild, Optional, Child, Held, BuildingOf, WaitingOf, HeardOf, One
  <1>4. Sent \cup Posted \subseteq Update
    BY <1>1 DEF TypedControl, Boxes, Optional, Sent, Posted, One
  <1>5. \A x \in ShownHere : x.session = gate /\ x.gen \in Nat /\ x.spec \in Specs
    BY <1>1 DEF TypedShown, ShownHere
  <1>6. \A u \in Known : u.gen \in Nat /\ u.spec \in Specs
    BY <1>3, <1>4, <1>5 DEF Known, Update
  <1>7. status.requested \in Nat \cup {NoGen} /\ status.applied \in Nat \cup {NoGen}
    BY <1>1 DEF TypedStatus, Statuses
  <1>8. Top \in Nat
    BY <1>1, <1>7 DEF Top, Later, NoGen, TypedPass, Passes
  <1>9. QED
    BY <1>1, <1>2, <1>3, <1>4, <1>5, <1>6, <1>7, <1>8 DEF TypedManager

(* A slicer that is kept without a change was started for this wall, and   *)
(* one without live control can only be kept so.                           *)
LEMMA KeptForThisWall ==
    ASSUME TypeOK, NEW replug, Keeps(replug)
    PROVE  /\ Running /\ Kept(replug) \in Slicer /\ Kept(replug).session = gate
           /\ Kept(replug).desired = slicer.desired /\ Wall \in Specs
           /\ Fell \/ (Kept(replug).live = slicer.live)
           /\ Fell => ~Kept(replug).live /\ ~(status.requested > 0)
           /\ ~Changed(Kept(replug)) => Wall = slicer.desired
  <1> DEFINE kept == Kept(replug)
  <1>1. TypedManager /\ TypedDocs /\ TypedGate
    BY TypedParts
  <1>2. /\ slicer # None /\ kept \in Slicer /\ kept.session = slicer.session
        /\ kept.desired = slicer.desired /\ (~Fell => kept.live = slicer.live)
        /\ (Fell => ~kept.live /\ ~(status.requested > 0))
    BY <1>1, KeptSlicer DEF Keeps
  <1>3. Wall \in Specs
    BY <1>1, WallIsADocument DEF Keeps, Optional
  <1>4. kept.desired \in Specs /\ kept.live \in BOOLEAN
    BY <1>2 DEF Slicer
  <1>5. Matches(kept, Wall)
    BY DEF Keeps
  <1> HIDE DEF kept
  <1>6. ASSUME ~kept.live PROVE Wall = kept.desired
    <2>1. CASE kept.desired.renderer = Wall.renderer
      BY <1>5, <1>6, <2>1 DEF Matches, Fingerprint
    <2>2. CASE kept.desired.renderer # Wall.renderer
      <3>1. Fingerprint(Wall, LiveCandidate(Wall)) = kept.desired
        BY <1>5, <1>6, <2>2 DEF Matches, Fingerprint
      <3>2. Wall \in AnySpec
        BY <1>3, ProjectionAssumption
      <3>3. [Wall EXCEPT !.cut = None].renderer = Wall.renderer
        BY <3>2 DEF AnySpec
      <3>4. LiveCandidate(Wall) = FALSE
        BY <2>2, <3>1, <3>3 DEF Fingerprint, LiveCandidate
      <3>5. QED
        BY <3>1, <3>4 DEF Fingerprint
    <2>3. QED
      BY <2>1, <2>2
  <1>7. ~Changed(kept) => Wall = kept.desired
    BY <1>4, <1>6 DEF Changed
  <1>8. QED
    BY <1>1, <1>2, <1>3, <1>7 DEF kept, Running, TypedGate

(* A session that begins has shown nothing.                                *)
LEMMA NewSessionShowsNothing ==
    ASSUME TypeOK, NEW replug, Replace(replug)
    PROVE  /\ ShownHere' = {} /\ Held(child') = {} /\ Sent' = {} /\ Posted' = {} /\ Known' = {}
           /\ child'.mode = "starting" /\ child'.spec = Wall /\ child' # None
           /\ gate' = Len(pipe) + 1 /\ pipe'[gate'] = << >>
  <1>1. TypedShown /\ TypedReports
    BY TypedParts
  <1>2. gate' = Len(pipe) + 1 /\ shown' = shown /\ Len(pipe) \in Nat /\ Sessions = 1 .. Len(pipe)
    BY <1>1 DEF Replace, TypedReports, Sessions
  <1>3. ShownHere' = {}
    <2>1. \A x \in shown : x.session \in 1 .. Len(pipe)
      BY <1>1, <1>2 DEF TypedShown
    <2>2. \A x \in shown : x.session # Len(pipe) + 1
      BY <1>2, <2>1
    <2>3. QED
      BY <1>2, <2>2 DEF ShownHere
  <1>4. /\ child'.inbox = None /\ child'.pending = None /\ child'.building = None
        /\ child'.mode = "starting" /\ child'.spec = Wall /\ wire' = None /\ mailbox'.value = None
    BY DEF Replace, Opened, Closed
  <1>5. child' # None
    <2>1. Wall \in Specs
      BY TypedParts, WallIsADocument DEF Replace, Optional
    <2>2. Nothing \in [Outputs -> Optional(Cuts)]
      BY DEF Nothing, Optional
    <2>3. child' \in Child
      BY <1>2, <2>1, <2>2 DEF Replace, Child, Optional
    <2>4. QED
      BY <2>3, ProjectionAssumption
  <1>6. Held(child') = {}
    BY <1>4 DEF Held, BuildingOf, WaitingOf, HeardOf, One
  <1>7. Sent' = {} /\ Posted' = {}
    BY <1>4 DEF Sent, Posted, One
  <1>8. pipe'[gate'] = << >>
    BY <1>1, <1>2 DEF Replace, TypedReports
  <1>9. QED
    BY <1>2, <1>3, <1>4, <1>5, <1>6, <1>7, <1>8 DEF Known

(* Whoever leaves a line does not disturb it.                              *)
LEMMA LineLeft ==
    ASSUME NEW c, NEW d, NEW S, NEW N, NEW P, NEW M, NEW Q, Line(S, c, N, P),
           Held(d) = {} \/ d = c, M \subseteq N, Q \subseteq P
    PROVE  Line(S, d, M, Q)
  BY Zenon DEF Line, Before, Held

(* What reading a report does: an applied one is looked up, and of another *)
(* kind nothing is kept that a claim is made of.                           *)
LEMMA ReadEffect ==
    ASSUME TypeOK, NEW session \in Sessions, Read(session)
    PROVE  /\ gate = session /\ Running /\ reader = None /\ pipe[session] # << >>
           /\ pipe[session] \in Seq(AnyEvent) /\ pipe'[gate] = Tail(pipe[gate])
           /\ LET event == Head(pipe[session])
              IN  IF event.kind = "applied"
                  THEN /\ event \in AppliedEvent /\ status' = status /\ reader' # None
                       /\ reader'.event = event /\ reader'.cfg = ConfigFor(event.gen)
                  ELSE /\ reader' = None /\ status'.session = gate
                       /\ status'.requested = status.requested /\ status'.applied = status.applied
                       /\ status'.claimed = status.claimed /\ status'.facts = status.facts
  <1> DEFINE event == Head(pipe[session])
  <1>1. TypedReports /\ TypedGate /\ TypedStatus
    BY TypedParts
  <1>2. gate = session /\ reader = None /\ pipe[session] # << >> /\ gate # None
    BY <1>1, ProjectionAssumption DEF Read, MayPublish, Sessions, TypedReports
  <1>3. Running /\ pipe[session] \in Seq(AnyEvent) /\ event \in AnyEvent
    BY <1>1, <1>2 DEF TypedGate, Running, TypedReports, Sessions
  <1>4. pipe'[gate] = Tail(pipe[gate])
    BY <1>1, <1>2 DEF Read, TypedReports, Sessions
  <1>5. /\ event.kind = "applied" =>
             reader' = [session |-> session, event |-> event, cfg |-> ConfigFor(event.gen)]
             /\ status' = status
        /\ event.kind # "applied" => status' = Booked(status, session, event, None) /\ reader' = reader
    BY DEF Read
  <1>6. session \in Nat /\ status \in Statuses /\ None \in Optional(Nat)
    BY <1>1 DEF TypedReports, Sessions, TypedStatus, Optional
  <1> HIDE DEF event
  <1>7. CASE event.kind = "applied"
    <2>1. event \in AppliedEvent
      BY <1>3, <1>7 DEF AnyEvent, AppliedEvent
    <2>2. reader' # None
      <3>1. TypeOK'
        BY TypedStep DEF Next, ReaderStep
      <3>2. ConfigFor(event.gen) \in Optional(Nat)
        BY TypedParts DEF ConfigFor, TypedManager, Optional, Config
      <3>3. reader' \in Lookup
        BY <1>5, <1>6, <1>7, <2>1, <3>2 DEF Lookup
      <3>4. QED
        BY <3>3, ProjectionAssumption
    <2>3. reader'.event = event /\ reader'.cfg = ConfigFor(event.gen) /\ status' = status
      BY <1>5, <1>7
    <2>4. QED
      BY <1>2, <1>3, <1>4, <1>7, <2>1, <2>2, <2>3 DEF event
  <1>8. CASE event.kind # "applied"
    <2> DEFINE new == Booked(status, session, event, None)
    <2>1. /\ new.session = session /\ new.requested = status.requested /\ new.applied = status.applied
          /\ new.facts = status.facts /\ new.claimed = status.claimed
      BY <1>3, <1>6, <1>8, BookedEffect
    <2>2. status' = new /\ reader' = None
      BY <1>2, <1>5, <1>8
    <2>3. QED
      BY <1>2, <1>3, <1>4, <1>8, <2>1, <2>2 DEF event
  <1>9. QED
    BY <1>7, <1>8

(* What booking an applied report does.                                    *)
LEMMA BookEffect ==
    ASSUME TypeOK, Book
    PROVE  /\ Running /\ reader # None /\ reader' = None /\ reader.event \in AppliedEvent
           /\ reader.cfg \in Optional(Config) /\ pipe' = pipe
           /\ status'.session = gate /\ status'.requested = status.requested
           /\ status'.applied = Later(status.applied, reader.event.gen)
           /\ status'.claimed = IF reader.event.gen >= status.applied THEN reader.cfg
                                ELSE status.claimed
           /\ status'.facts = Overlaid(reader.event.facts, status.facts)
  <1>1. TypedReports /\ TypedGate /\ TypedStatus
    BY TypedParts
  <1>2. reader # None /\ reader' = None /\ pipe' = pipe
        /\ status' = Booked(status, reader.session, reader.event, reader.cfg)
    BY DEF Book
  <1>3. reader \in Lookup /\ reader.session = gate /\ reader.cfg \in Optional(Config)
    BY <1>1, <1>2 DEF TypedReports, Optional
  <1>4. /\ gate \in Nat /\ reader.event \in AppliedEvent /\ reader.event \in AnyEvent
        /\ reader.event.kind = "applied" /\ reader.cfg \in Optional(Nat) /\ status \in Statuses
    BY <1>1, <1>3 DEF Lookup, AnyEvent, AppliedEvent, TypedStatus
  <1>5. Running
    BY <1>1, <1>4, ProjectionAssumption DEF TypedGate, Running
  <1> DEFINE new == Booked(status, gate, reader.event, reader.cfg)
  <1>6. /\ new.session = gate /\ new.requested = status.requested
        /\ new.applied = Later(status.applied, reader.event.gen)
        /\ new.claimed = IF reader.event.gen >= status.applied THEN reader.cfg ELSE status.claimed
        /\ new.facts = Overlaid(reader.event.facts, status.facts)
    BY <1>4, BookedEffect
  <1>7. status' = new
    BY <1>2, <1>3
  <1>8. QED
    BY <1>2, <1>3, <1>4, <1>5, <1>6, <1>7

(* Reports in a pipe.                                                      *)
LEMMA AppliedInBoth ==
    ASSUME NEW q \in Seq(AnyEvent), NEW r \in Seq(AnyEvent)
    PROVE  AppliedIn(q \o r) = AppliedIn(q) \cup AppliedIn(r)
  <1>1. q \o r \in Seq(AnyEvent) /\ Len(q \o r) = Len(q) + Len(r) /\ Len(q) \in Nat /\ Len(r) \in Nat
    OBVIOUS
  <1>2. \A i \in 1 .. Len(q) : i \in 1 .. Len(q \o r) /\ (q \o r)[i] = q[i]
    BY <1>1
  <1>3. \A i \in 1 .. Len(r) : Len(q) + i \in 1 .. Len(q \o r) /\ (q \o r)[Len(q) + i] = r[i]
    BY <1>1
  <1>4. \A i \in 1 .. Len(q \o r) :
          \/ i \in 1 .. Len(q) /\ (q \o r)[i] = q[i]
          \/ \E j \in 1 .. Len(r) : (q \o r)[i] = r[j]
    <2>1. TAKE i \in 1 .. Len(q \o r)
    <2>2. CASE i <= Len(q)
      BY <1>1, <2>2
    <2>3. CASE ~(i <= Len(q))
      <3>1. i - Len(q) \in 1 .. Len(r) /\ (q \o r)[i] = r[i - Len(q)]
        BY <1>1, <2>3
      <3>2. QED
        BY <3>1
    <2>4. QED
      BY <2>2, <2>3
  <1>5. DOMAIN q = 1 .. Len(q) /\ DOMAIN r = 1 .. Len(r) /\ DOMAIN (q \o r) = 1 .. Len(q \o r)
    BY <1>1
  <1> DEFINE qr == q \o r
  <1> HIDE DEF qr
  <1>6. QED
    BY <1>2, <1>3, <1>4, <1>5 DEF AppliedIn

LEMMA InOrderBoth ==
    ASSUME NEW q \in Seq(AnyEvent), NEW e \in AppliedEvent, InOrder(q),
           \A d \in AppliedIn(q) : d.gen < e.gen
    PROVE  InOrder(q \o <<e>>)
  <1> DEFINE r == q \o <<e>>
  <1>1. /\ DOMAIN r = 1 .. (Len(q) + 1) /\ DOMAIN q = 1 .. Len(q) /\ Len(q) \in Nat
        /\ r[Len(q) + 1] = e /\ \A i \in 1 .. Len(q) : r[i] = q[i]
    OBVIOUS
  <1> HIDE DEF r
  <1>2. SUFFICES ASSUME NEW i \in DOMAIN r, NEW j \in DOMAIN r, i < j, r[i].kind = "applied",
                        r[j].kind = "applied"
                 PROVE  r[i].gen < r[j].gen
    BY DEF InOrder, r
  <1>3. i \in 1 .. Len(q)
    BY <1>1, <1>2
  <1>4. CASE j \in 1 .. Len(q)
    BY <1>1, <1>2, <1>3, <1>4 DEF InOrder
  <1>5. CASE j = Len(q) + 1
    <2>1. r[i] \in AppliedIn(q)
      BY <1>1, <1>2, <1>3 DEF AppliedIn
    <2>2. QED
      BY <1>1, <1>5, <2>1
  <1>6. QED
    BY <1>1, <1>4, <1>5

(* Reports of other kinds change neither.                                  *)
LEMMA OtherReports ==
    ASSUME NEW q \in Seq(AnyEvent), NEW r \in Seq(AnyEvent), \A i \in DOMAIN r : r[i].kind # "applied"
    PROVE  AppliedIn(q \o r) = AppliedIn(q) /\ (InOrder(q) => InOrder(q \o r))
  <1>1. AppliedIn(q \o r) = AppliedIn(q)
    BY AppliedInBoth DEF AppliedIn
  <1> DEFINE s == q \o r
  <1>2. /\ DOMAIN s = 1 .. (Len(q) + Len(r)) /\ DOMAIN q = 1 .. Len(q) /\ Len(q) \in Nat
        /\ DOMAIN r = 1 .. Len(r) /\ Len(r) \in Nat
        /\ \A i \in 1 .. Len(q) : s[i] = q[i]
        /\ \A i \in 1 .. (Len(q) + Len(r)) : i > Len(q) => s[i] = r[i - Len(q)]
    OBVIOUS
  <1> HIDE DEF s
  <1>3. \A i \in DOMAIN s : s[i].kind = "applied" => i \in 1 .. Len(q)
    <2>1. TAKE i \in DOMAIN s
    <2>2. CASE i > Len(q)
      <3>1. i - Len(q) \in DOMAIN r /\ s[i] = r[i - Len(q)]
        BY <1>2, <2>2
      <3>2. QED
        BY <3>1
    <2>3. QED
      BY <1>2, <2>2
  <1>4. InOrder(q) => InOrder(s)
    BY <1>2, <1>3 DEF InOrder
  <1>5. QED
    BY <1>1, <1>4 DEF s

LEMMA FirstReport ==
    ASSUME NEW q \in Seq(AnyEvent), q # << >>
    PROVE  /\ AppliedIn(q) = AppliedIn(Tail(q))
                               \cup (IF Head(q).kind = "applied" THEN {Head(q)} ELSE {})
           /\ InOrder(q) => /\ InOrder(Tail(q))
                            /\ Head(q).kind = "applied" =>
                                 \A e \in AppliedIn(Tail(q)) : Head(q).gen < e.gen
  <1> DEFINE t == Tail(q)
  <1>1. /\ DOMAIN q = 1 .. Len(q) /\ Len(q) \in Nat \ {0} /\ Head(q) = q[1]
        /\ DOMAIN t = 1 .. (Len(q) - 1) /\ \A i \in 1 .. (Len(q) - 1) : t[i] = q[i + 1]
    OBVIOUS
  <1>2. Tail(q) = t /\ Head(q) = q[1]
    BY <1>1
  <1> HIDE DEF t
  <1>3. \A i \in 2 .. Len(q) : i - 1 \in 1 .. (Len(q) - 1) /\ t[i - 1] = q[i]
    BY <1>1
  <1>4. \A i \in DOMAIN t : i \in 1 .. (Len(q) - 1) /\ i + 1 \in DOMAIN q /\ t[i] = q[i + 1] /\ 1 < i + 1
    BY <1>1
  <1>5. \A i \in DOMAIN q : i = 1 \/ \E j \in DOMAIN t : t[j] = q[i]
    BY <1>1, <1>3
  <1>6. 1 \in DOMAIN q
    BY <1>1
  <1>7. AppliedIn(q) = AppliedIn(t) \cup (IF q[1].kind = "applied" THEN {q[1]} ELSE {})
    BY <1>4, <1>5, <1>6 DEF AppliedIn
  <1>8. InOrder(q) => InOrder(t)
    <2>1. \A i, j \in DOMAIN t : i < j => i + 1 < j + 1
      BY <1>1
    <2>2. QED
      BY <1>4, <2>1 DEF InOrder
  <1>9. InOrder(q) /\ q[1].kind = "applied" => \A e \in AppliedIn(t) : q[1].gen < e.gen
    BY <1>4, <1>6 DEF InOrder, AppliedIn
  <1>10. QED
    BY <1>2, <1>7, <1>8, <1>9

(* What was being built is on the wall, and the next in line follow.       *)
LEMMA InstallKeepsLine ==
    ASSUME NEW c, NEW d, NEW S, NEW N, NEW P, Line(S, c, N, P), NEW x,
           \A u \in BuildingOf(c) : u.gen = x.gen, BuildingOf(c) # {},
           BuildingOf(d) = {}, WaitingOf(d) = WaitingOf(c), HeardOf(d) = HeardOf(c)
    PROVE  Line(S \cup {x}, d, N, P)
  <1>1. \A T : Before(S \cup BuildingOf(c), T) => Before(S \cup {x}, T)
    BY Zenon DEF Before
  <1>2. Before(S \cup {x}, WaitingOf(d))
    BY <1>1, Zenon DEF Line
  <1>3. Before(S \cup {x} \cup WaitingOf(d), HeardOf(d))
    BY <1>1, Zenon DEF Line, Before
  <1>4. Before(S \cup {x} \cup Held(d), N)
    BY <1>1, Zenon DEF Line, Before, Held
  <1>5. Before(S \cup {x} \cup Held(d) \cup N, P)
    BY <1>1, Zenon DEF Line, Before, Held
  <1>6. QED
    BY <1>2, <1>3, <1>4, <1>5, Zenon DEF Line, Before, Held

(* A child that has read a request and started a build holds what it held. *)
LEMMA HeldBefore ==
    ASSUME NEW c \in Child, NEW valid \in BOOLEAN
    PROVE  /\ Held(Request(c, valid)) \subseteq Held(c)
           /\ Held(StartBuild(c)) \subseteq Held(c)
  BY RequestMoves, StartBuildMoves DEF Held

(* What a child reports is read in its session.                            *)
LEMMA ReportsAreAppended ==
    ASSUME TypeOK, child # None, NEW events \in Seq(AnyEvent), Report(events)
    PROVE  /\ pipe[gate] \in Seq(AnyEvent) /\ pipe'[gate] = pipe[gate] \o events
           /\ child \in Child /\ child.session = gate /\ Running
  <1>1. TypedReports /\ TypedGate /\ TypedChild
    BY TypedParts
  <1>2. child \in Child /\ child.session = gate /\ Running
    BY <1>1 DEF TypedGate, TypedChild, Optional, Running
  <1>3. gate \in DOMAIN pipe
    BY <1>2, KnownIsTyped DEF Sessions
  <1>4. QED
    BY <1>1, <1>2, <1>3 DEF TypedReports, Report

LEMMA AnswersAreSilent ==
    ASSUME NEW c \in Child, NEW valid \in BOOLEAN
    PROVE  \A i \in DOMAIN Answer(c, valid) : Answer(c, valid)[i].kind # "applied"
  <1>1. CASE c.inbox = None
    BY <1>1 DEF Answer
  <1>2. CASE c.inbox # None
    <2>1. Answer(c, valid) = <<Event(IF valid THEN "accepted" ELSE "rejected", c.inbox.gen)>>
      BY <1>2 DEF Answer
    <2>2. QED
      BY <2>1 DEF Event
  <1>3. QED
    BY <1>1, <1>2

(* What each step of the child does to the line, the wall and the pipe.    *)
LEMMA PollEffect ==
    ASSUME TypeOK, NEW valid \in BOOLEAN, Poll(valid)
    PROVE  /\ child \in Child /\ child # None /\ child' \in Child /\ Running
           /\ child.mode = "gpu" /\ child'.mode = "gpu"
           /\ child'.spec = child.spec /\ child'.installed = child.installed
           /\ Held(child') \subseteq Held(child)
           /\ \A N, P : Line(ShownHere, child, N, P) => Line(ShownHere, child', N, P)
           /\ child'.building # None => \/ child'.building = child.building
                                        \/ child'.building.outs =
                                             Uncut(child', child'.building.request.spec)
           /\ AppliedIn(pipe'[gate]) = AppliedIn(pipe[gate])
           /\ InOrder(pipe[gate]) => InOrder(pipe'[gate])
           /\ UNCHANGED <<document, pass, manager, control, gate, reader, status, shown>>
  <1> DEFINE c == Request(child, valid)
  <1>1. /\ child # None /\ child.mode = "gpu" /\ child' = StartBuild(c) /\ Report(Answer(child, valid))
        /\ UNCHANGED <<document, pass, manager, control, gate, reader, status, shown>>
    BY DEF Poll
  <1>2. child \in Child
    BY <1>1, TypedParts DEF TypedChild, Optional
  <1>3. Answer(child, valid) \in Seq(AnyEvent)
    BY <1>2, AnswersAreEvents
  <1>4. pipe[gate] \in Seq(AnyEvent) /\ pipe'[gate] = pipe[gate] \o Answer(child, valid) /\ Running
    BY <1>1, <1>3, ReportsAreAppended
  <1>5. /\ AppliedIn(pipe'[gate]) = AppliedIn(pipe[gate])
        /\ InOrder(pipe[gate]) => InOrder(pipe'[gate])
    BY <1>2, <1>3, <1>4, OtherReports, AnswersAreSilent
  <1>6. /\ c \in Child /\ c.spec = child.spec /\ c.mode = "gpu" /\ c.building = child.building
        /\ c.installed = child.installed /\ Held(c) \subseteq Held(child)
    <2>1. Held(c) \subseteq Held(child)
      BY <1>2, HeldBefore
    <2>2. /\ c \in Child /\ c.spec = child.spec /\ c.mode = child.mode /\ c.building = child.building
          /\ c.installed = child.installed
      BY <1>2, RequestEffect
    <2>3. QED
      BY <1>1, <2>1, <2>2
  <1>7. \A N, P : Line(ShownHere, child, N, P) => Line(ShownHere, c, N, P)
    BY <1>2, RequestKeepsLine
  <1> HIDE DEF c
  <1>8. /\ child' \in Child /\ child'.spec = c.spec /\ child'.mode = "gpu"
        /\ child'.installed = c.installed /\ Held(child') \subseteq Held(c)
        /\ \/ child'.building = c.building
           \/ child'.building.outs = {o \in Outputs : c.installed[o] # c.pending.spec.cut[o]}
              /\ child'.building.request = c.pending
    BY <1>1, <1>6, StartBuildEffect, HeldBefore
  <1>9. \A N, P : Line(ShownHere, c, N, P) => Line(ShownHere, child', N, P)
    BY <1>1, <1>6, StartBuildKeepsLine
  <1>10. child'.building # None => \/ child'.building = child.building
                                   \/ child'.building.outs =
                                        Uncut(child', child'.building.request.spec)
    BY <1>6, <1>8 DEF Uncut
  <1>11. QED
    BY <1>1, <1>2, <1>4, <1>5, <1>6, <1>7, <1>8, <1>9, <1>10

(* A build that fails and leaves the child alive.                          *)
LEMMA BuildFailsEffect ==
    ASSUME TypeOK, NEW exits \in BOOLEAN, BuildFails(exits)
    PROVE  /\ child \in Child /\ child # None /\ Running /\ child.mode = "gpu"
           /\ exits => child' = None
           /\ ~exits =>
                /\ child' \in Child /\ child'.mode = "gpu"
                /\ child'.spec = child.spec /\ child'.installed = child.installed
                /\ Held(child') \subseteq Held(child)
                /\ \A N, P : Line(ShownHere, child, N, P) => Line(ShownHere, child', N, P)
                /\ child'.building # None =>
                     child'.building.outs = Uncut(child', child'.building.request.spec)
           /\ AppliedIn(pipe'[gate]) = AppliedIn(pipe[gate])
           /\ InOrder(pipe[gate]) => InOrder(pipe'[gate])
           /\ UNCHANGED <<document, pass, manager, control, gate, reader, status, shown>>
  <1> DEFINE b == [child EXCEPT !.building = None]
             c == Request(b, TRUE)
             answer == Answer(child, TRUE)
             event == Event("rejected", child.building.request.gen)
  <1>1. /\ child # None /\ child.mode = "gpu" /\ child.building # None
        /\ child' = (IF exits THEN None ELSE StartBuild(c)) /\ Report(answer \o <<event>>)
        /\ UNCHANGED <<document, pass, manager, control, gate, reader, status, shown>>
    BY DEF BuildFails
  <1>2. child \in Child
    BY <1>1, TypedParts DEF TypedChild, Optional
  <1>3. answer \in Seq(AnyEvent)
    BY <1>2, AnswersAreEvents
  <1>4. \A i \in DOMAIN answer : answer[i].kind # "applied"
    BY <1>2, AnswersAreSilent
  <1>5. event \in AnyEvent /\ event.kind # "applied"
    BY <1>1, <1>2 DEF Child, Optional, Update, Event, AnyEvent
  <1>6. b \in Child /\ b.spec = child.spec /\ b.mode = "gpu" /\ b.building = None
        /\ b.installed = child.installed /\ b.inbox = child.inbox /\ b.pending = child.pending
    BY <1>1, <1>2 DEF Child, Optional
  <1> HIDE DEF b, answer, event
  <1>7. /\ answer \o <<event>> \in Seq(AnyEvent)
        /\ \A i \in DOMAIN (answer \o <<event>>) : (answer \o <<event>>)[i].kind # "applied"
    <2>1. <<event>> \in Seq(AnyEvent)
      BY <1>5
    <2>2. DOMAIN answer = 1 .. Len(answer) /\ Len(answer) \in Nat
      BY <1>3
    <2>3. DOMAIN (answer \o <<event>>) = 1 .. (Len(answer) + 1)
      BY <1>3, <2>1
    <2>4. \A i \in 1 .. (Len(answer) + 1) :
            (answer \o <<event>>)[i] = IF i <= Len(answer) THEN answer[i] ELSE event
      BY <1>3, <2>1
    <2>5. QED
      BY <1>3, <1>4, <1>5, <2>1, <2>2, <2>3, <2>4
  <1> DEFINE events == answer \o <<event>>
  <1> HIDE DEF events
  <1>8. events \in Seq(AnyEvent) /\ Report(events) /\ \A i \in DOMAIN events : events[i].kind # "applied"
    BY <1>1, <1>7 DEF events
  <1>9. pipe[gate] \in Seq(AnyEvent) /\ pipe'[gate] = pipe[gate] \o events /\ Running
    BY <1>1, <1>8, ReportsAreAppended
  <1>10. /\ AppliedIn(pipe'[gate]) = AppliedIn(pipe[gate])
         /\ InOrder(pipe[gate]) => InOrder(pipe'[gate])
    BY <1>8, <1>9, OtherReports
  <1>11. ASSUME ~exits
         PROVE  /\ child' \in Child /\ child'.mode = "gpu"
                /\ child'.spec = child.spec /\ child'.installed = child.installed
                /\ Held(child') \subseteq Held(child)
                /\ \A N, P : Line(ShownHere, child, N, P) => Line(ShownHere, child', N, P)
                /\ child'.building # None =>
                     child'.building.outs = Uncut(child', child'.building.request.spec)
    <2>1. /\ BuildingOf(b) = {} /\ WaitingOf(b) = WaitingOf(child) /\ HeardOf(b) = HeardOf(child)
      BY <1>1, <1>6, ProjectionAssumption DEF BuildingOf, WaitingOf, HeardOf
    <2>2. \A N, P : Line(ShownHere, child, N, P) => Line(ShownHere, b, N, P)
      BY <2>1, Zenon DEF Line, Before, Held
    <2>3. /\ c \in Child /\ c.spec = child.spec /\ c.mode = "gpu" /\ c.building = None
          /\ c.installed = child.installed /\ Held(c) \subseteq Held(b)
      BY <1>6, RequestEffect, HeldBefore
    <2>4. \A N, P : Line(ShownHere, b, N, P) => Line(ShownHere, c, N, P)
      BY <1>6, RequestKeepsLine
    <2> HIDE DEF c
    <2>5. child' = StartBuild(c)
      BY <1>1, <1>11
    <2>6. /\ child' \in Child /\ child'.spec = c.spec /\ child'.mode = "gpu"
          /\ child'.installed = c.installed /\ Held(child') \subseteq Held(c)
          /\ child'.building # None =>
               /\ child'.building.outs = {o \in Outputs : c.installed[o] # c.pending.spec.cut[o]}
               /\ child'.building.request = c.pending
      BY <2>3, <2>5, StartBuildEffect, HeldBefore
    <2>7. \A N, P : Line(ShownHere, c, N, P) => Line(ShownHere, child', N, P)
      BY <2>3, <2>5, StartBuildKeepsLine
    <2>8. Held(child') \subseteq Held(child)
      BY <2>1, <2>3, <2>6 DEF Held
    <2>9. child'.building # None =>
            child'.building.outs = Uncut(child', child'.building.request.spec)
      BY <2>3, <2>6 DEF Uncut
    <2>10. QED
      BY <2>2, <2>3, <2>4, <2>6, <2>7, <2>8, <2>9
  <1>12. exits => child' = None
    BY <1>1
  <1>13. QED
    BY <1>1, <1>2, <1>9, <1>10, <1>11, <1>12

(* ... one that is done, and the first of a child.                         *)
LEMMA InstallEffect ==
    ASSUME TypeOK, NEW valid \in BOOLEAN, Install(valid)
    PROVE  LET request == child.building.request
               outs == child.building.outs
               x == [session |-> gate, gen |-> request.gen, spec |-> request.spec]
           IN  /\ child \in Child /\ child # None /\ child' \in Child /\ Running
               /\ child.mode = "gpu" /\ child'.mode = "gpu" /\ child'.spec = child.spec
               /\ child.building # None /\ request \in Update /\ BuildingOf(child) = {request}
               /\ ShownHere' = ShownHere \cup {x}
               /\ child'.installed = [o \in Outputs |-> IF o \in outs THEN request.spec.cut[o]
                                                        ELSE child.installed[o]]
               /\ Held(child') \subseteq Held(child)
               /\ \A N, P : Line(ShownHere, child, N, P) => Line(ShownHere', child', N, P)
               /\ child'.building # None =>
                    child'.building.outs = Uncut(child', child'.building.request.spec)
               /\ pipe[gate] \in Seq(AnyEvent)
               /\ AppliedIn(pipe'[gate]) =
                    AppliedIn(pipe[gate]) \cup {Applied(request.gen, request.spec, outs)}
               /\ InOrder(pipe[gate]) /\ (\A e \in AppliedIn(pipe[gate]) : e.gen < request.gen)
                    => InOrder(pipe'[gate])
               /\ UNCHANGED <<document, pass, manager, control, gate, reader, status>>
  <1> DEFINE request == child.building.request
             outs == child.building.outs
             c == Request(child, valid)
             installed == [o \in Outputs |-> IF o \in outs THEN request.spec.cut[o]
                                             ELSE child.installed[o]]
             d == [c EXCEPT !.building = None, !.installed = installed]
             answer == Answer(child, valid)
             event == Applied(request.gen, request.spec, outs)
             x == [session |-> gate, gen |-> request.gen, spec |-> request.spec]
  <1>1. /\ child # None /\ child.mode = "gpu" /\ child.building # None
        /\ UNCHANGED <<document, pass, manager, control, gate, reader, status>>
    BY DEF Install
  <1>2. child \in Child /\ child.session = gate
    BY <1>1, TypedParts DEF TypedChild, TypedGate, Optional
  <1>3. /\ c \in Child /\ c.spec = child.spec /\ c.mode = "gpu" /\ c.building = child.building
        /\ c.installed = child.installed /\ c.session = child.session
    BY <1>1, <1>2, RequestEffect
  <1>4. Held(c) \subseteq Held(child)
    BY <1>2, HeldBefore
  <1>5. \A N, P : Line(ShownHere, child, N, P) => Line(ShownHere, c, N, P)
    BY <1>2, RequestKeepsLine
  <1>6. request \in Update /\ request.gen \in Nat /\ request.spec \in Specs
    BY <1>1, <1>2 DEF Child, Optional, Update
  <1>7. BuildingOf(child) = {request} /\ BuildingOf(c) = {request}
    BY <1>1, <1>3, ProjectionAssumption DEF BuildingOf
  <1>8. answer \in Seq(AnyEvent) /\ \A i \in DOMAIN answer : answer[i].kind # "applied"
    BY <1>2, AnswersAreEvents, AnswersAreSilent
  <1>9. event \in AppliedEvent /\ event.gen = request.gen /\ event.kind = "applied"
    BY <1>6, AppliedIsAnEvent DEF AppliedEvent
  <1>10. child' = StartBuild(d)
    BY <1>3 DEF Install
  <1>11. shown' = shown \cup {x} /\ Report(answer \o <<event>>)
    BY <1>2, <1>3 DEF Install, Installs
  <1>12. ShownHere' = ShownHere \cup {x}
    BY <1>1, <1>11 DEF ShownHere
  <1>13. /\ d \in Child /\ d.mode = "gpu" /\ d.spec = child.spec /\ d.building = None
         /\ d.installed = installed /\ d.inbox = c.inbox /\ d.pending = c.pending
    <2>1. \A o \in Outputs : request.spec.cut[o] \in Cuts
      BY <1>6, CutsOfSpecs
    <2>2. installed \in [Outputs -> Optional(Cuts)]
      BY <1>2, <2>1 DEF Child, Optional
    <2> HIDE DEF installed
    <2>3. QED
      BY <1>3, <2>2 DEF Child, Optional
  <1>14. x.gen = request.gen
    OBVIOUS
  <1> HIDE DEF request, outs, c, installed, d, answer, event, x
  <1>15. /\ BuildingOf(d) = {} /\ WaitingOf(d) = WaitingOf(c) /\ HeardOf(d) = HeardOf(c)
    BY <1>3, <1>13, ProjectionAssumption DEF BuildingOf, WaitingOf, HeardOf
  <1>16. \A N, P : Line(ShownHere, c, N, P) => Line(ShownHere \cup {x}, d, N, P)
    <2>1. TAKE N, P
    <2>2. HAVE Line(ShownHere, c, N, P)
    <2>3. QED
      BY <1>7, <1>14, <1>15, <2>2, InstallKeepsLine
  <1>17. /\ child' \in Child /\ child'.mode = "gpu" /\ child'.spec = child.spec
         /\ child'.installed = installed /\ Held(child') \subseteq Held(d)
         /\ child'.building # None =>
               /\ child'.building.outs = {o \in Outputs : d.installed[o] # d.pending.spec.cut[o]}
               /\ child'.building.request = d.pending
    BY <1>10, <1>13, StartBuildEffect, HeldBefore
  <1>18. \A N, P : Line(ShownHere \cup {x}, d, N, P) => Line(ShownHere \cup {x}, child', N, P)
    BY <1>10, <1>13, StartBuildKeepsLine
  <1>19. Held(child') \subseteq Held(child)
    BY <1>4, <1>15, <1>17 DEF Held
  <1>20. child'.building # None =>
           child'.building.outs = Uncut(child', child'.building.request.spec)
    BY <1>13, <1>17 DEF Uncut
  <1>21. \A N, P : Line(ShownHere, child, N, P) => Line(ShownHere', child', N, P)
    BY <1>5, <1>12, <1>16, <1>18
  <1>22. event \in AnyEvent /\ <<event>> \in Seq(AnyEvent) /\ answer \o <<event>> \in Seq(AnyEvent)
    <2>1. event \in AnyEvent
      BY <1>9 DEF AnyEvent
    <2>2. <<event>> \in Seq(AnyEvent)
      BY <2>1
    <2>3. QED
      BY <1>8, <2>1, <2>2
  <1>23. pipe[gate] \in Seq(AnyEvent) /\ pipe'[gate] = pipe[gate] \o (answer \o <<event>>) /\ Running
    BY <1>1, <1>11, <1>22, ReportsAreAppended
  <1> DEFINE q == pipe[gate] \o answer
  <1>24. q \in Seq(AnyEvent) /\ pipe'[gate] = q \o <<event>>
    <2>1. pipe[gate] \o (answer \o <<event>>) = q \o <<event>>
      <3>1. pipe[gate] \in Seq(AnyEvent) /\ answer \in Seq(AnyEvent) /\ <<event>> \in Seq(AnyEvent)
        BY <1>8, <1>22, <1>23
      <3> HIDE DEF q
      <3>2. \A p, r, t \in Seq(AnyEvent) : (p \o r) \o t = p \o (r \o t)
        BY ConcatAssociative
      <3>3. QED
        BY <3>1, <3>2, Zenon DEF q
    <2>2. q \in Seq(AnyEvent)
      BY <1>8, <1>23
    <2>3. QED
      BY <1>23, <2>1, <2>2
  <1>25. AppliedIn(q) = AppliedIn(pipe[gate]) /\ (InOrder(pipe[gate]) => InOrder(q))
    BY <1>8, <1>23, OtherReports
  <1> HIDE DEF q
  <1>26. AppliedIn(<<event>>) = {event}
    BY <1>9 DEF AppliedIn
  <1>27. AppliedIn(pipe'[gate]) = AppliedIn(pipe[gate]) \cup {event}
    BY <1>22, <1>24, <1>25, <1>26, AppliedInBoth
  <1>28. InOrder(pipe[gate]) /\ (\A e \in AppliedIn(pipe[gate]) : e.gen < request.gen)
           => InOrder(pipe'[gate])
    BY <1>9, <1>24, <1>25, InOrderBoth
  <1>29. QED
    BY <1>1, <1>2, <1>6, <1>7, <1>12, <1>17, <1>19, <1>20, <1>21, <1>23, <1>27, <1>28
       DEF request, outs, installed, event, x

LEMMA StartsGpuEffect ==
    ASSUME TypeOK, StartsGpu
    PROVE  /\ child \in Child /\ child # None /\ child' \in Child /\ Running
           /\ child.mode = "starting" /\ child'.mode = "gpu"
           /\ child'.spec = child.spec /\ child'.installed = child.installed
           /\ Held(child) = {} => /\ \A u \in Held(child') : u.gen = 0 /\ u.spec = child.spec
                                  /\ BuildingOf(child') = Held(child')
                                  /\ WaitingOf(child') = {} /\ HeardOf(child') = {}
                                  /\ child'.building # None /\ child'.building.outs =
                                        Uncut(child', child'.building.request.spec)
           /\ AppliedIn(pipe'[gate]) = AppliedIn(pipe[gate])
           /\ InOrder(pipe[gate]) => InOrder(pipe'[gate])
           /\ UNCHANGED <<document, pass, manager, control, gate, reader, status, shown>>
  <1> DEFINE first == [gen |-> 0, spec |-> child.spec]
             c == [child EXCEPT !.mode = "gpu", !.pending = first]
             events == <<Capability("gpu")>>
  <1>1. /\ child # None /\ child.mode = "starting" /\ child' = StartBuild(c) /\ Report(events)
        /\ UNCHANGED <<document, pass, manager, control, gate, reader, status, shown>>
    BY DEF StartsGpu
  <1>2. child \in Child /\ child.spec \in Specs
    BY <1>1, TypedParts DEF TypedChild, Child, Optional
  <1>3. events \in Seq(AnyEvent) /\ \A i \in DOMAIN events : events[i].kind # "applied"
    <2>1. [renderer |-> child.spec.renderer, effective |-> "gpu"] \in Capabilities
      BY <1>2, CutsOfSpecs DEF Capabilities
    <2>2. Capability("gpu") \in AnyEvent /\ Capability("gpu").kind # "applied"
      BY <2>1 DEF Capability, AnyEvent
    <2>3. QED
      BY <2>2
  <1>4. first \in Update /\ first.gen = 0 /\ first.spec = child.spec /\ first # None
    BY <1>2, ProjectionAssumption DEF Update
  <1> HIDE DEF events, first
  <1>5. /\ c \in Child /\ c.mode = "gpu" /\ c.spec = child.spec /\ c.building = child.building
        /\ c.inbox = child.inbox /\ c.pending = first /\ c.installed = child.installed
    BY <1>2, <1>4 DEF Child, Optional
  <1> HIDE DEF c
  <1>6. pipe[gate] \in Seq(AnyEvent) /\ pipe'[gate] = pipe[gate] \o events /\ Running
    BY <1>1, <1>3, ReportsAreAppended
  <1>7. /\ AppliedIn(pipe'[gate]) = AppliedIn(pipe[gate])
        /\ InOrder(pipe[gate]) => InOrder(pipe'[gate])
    BY <1>3, <1>6, OtherReports
  <1>8. /\ child' \in Child /\ child'.spec = c.spec /\ child'.mode = "gpu"
        /\ child'.installed = c.installed /\ child'.inbox = c.inbox
    BY <1>1, <1>5, StartBuildEffect
  <1>9. ASSUME Held(child) = {}
        PROVE  /\ \A u \in Held(child') : u.gen = 0 /\ u.spec = child.spec
               /\ BuildingOf(child') = Held(child')
               /\ WaitingOf(child') = {} /\ HeardOf(child') = {}
               /\ child'.building # None /\ child'.building.outs =
                        Uncut(child', child'.building.request.spec)
    <2>1. child.building = None /\ child.inbox = None
      BY <1>1, <1>9 DEF Held, BuildingOf, HeardOf, One
    <2>2. /\ child'.building # None /\ child'.building.request = first /\ child'.pending = None
          /\ child'.building.outs = {o \in Outputs : c.installed[o] # first.spec.cut[o]}
      BY <1>1, <1>4, <1>5, <2>1, StartBuildEffect
    <2>3. child' # None
      BY <1>8, ProjectionAssumption
    <2>4. BuildingOf(child') = {first} /\ Held(child') = {first}
          /\ WaitingOf(child') = {} /\ HeardOf(child') = {}
      BY <1>5, <1>8, <2>1, <2>2, <2>3 DEF Held, BuildingOf, WaitingOf, HeardOf, One
    <2>5. QED
      BY <1>4, <1>8, <2>2, <2>4 DEF Uncut
  <1>10. QED
    BY <1>1, <1>2, <1>5, <1>6, <1>7, <1>8, <1>9

LEMMA StartsCpuEffect ==
    ASSUME TypeOK, StartsCpu
    PROVE  LET x == [session |-> gate, gen |-> 0, spec |-> child.spec]
           IN  /\ child \in Child /\ child # None /\ child' \in Child /\ Running
               /\ child.mode = "starting" /\ child'.mode = "cpu" /\ child'.spec = child.spec
               /\ child'.installed = child.spec.cut /\ child.spec \in Specs
               /\ Held(child') = Held(child) /\ child'.building = child.building
               /\ ShownHere' = ShownHere \cup {x}
               /\ pipe[gate] \in Seq(AnyEvent)
               /\ AppliedIn(pipe'[gate]) =
                    AppliedIn(pipe[gate]) \cup {Applied(0, child.spec, Outputs)}
               /\ InOrder(pipe[gate]) /\ (\A e \in AppliedIn(pipe[gate]) : e.gen < 0)
                    => InOrder(pipe'[gate])
               /\ UNCHANGED <<document, pass, manager, control, gate, reader, status>>
  <1> DEFINE x == [session |-> gate, gen |-> 0, spec |-> child.spec]
             says == Capability("cpu")
             event == Applied(0, child.spec, Outputs)
  <1>1. /\ child # None /\ child.mode = "starting"
        /\ child' = [child EXCEPT !.mode = "cpu", !.installed = child.spec.cut]
        /\ shown' = shown \cup {Installs(0, child.spec)} /\ Report(<<says, event>>)
        /\ UNCHANGED <<document, pass, manager, control, gate, reader, status>>
    BY DEF StartsCpu
  <1>2. child \in Child /\ child.spec \in Specs /\ child.session = gate
    BY <1>1, TypedParts DEF TypedChild, TypedGate, Child, Optional
  <1>3. says \in AnyEvent /\ says.kind # "applied"
    <2>1. [renderer |-> child.spec.renderer, effective |-> "cpu"] \in Capabilities
      BY <1>2, CutsOfSpecs DEF Capabilities
    <2>2. QED
      BY <2>1 DEF Capability, AnyEvent
  <1>4. event \in AppliedEvent /\ event.gen = 0 /\ event.kind = "applied" /\ event \in AnyEvent
    BY <1>2, AppliedIsAnEvent DEF AppliedEvent, AnyEvent
  <1>5. shown' = shown \cup {x}
    BY <1>1, <1>2 DEF Installs
  <1>6. ShownHere' = ShownHere \cup {x}
    BY <1>1, <1>5 DEF ShownHere
  <1> HIDE DEF x, says, event
  <1>7. child.spec.cut \in [Outputs -> Optional(Cuts)]
    BY <1>2, CutsOfSpecs DEF Optional
  <1>8. /\ child' \in Child /\ child'.mode = "cpu" /\ child'.spec = child.spec
        /\ child'.installed = child.spec.cut /\ child'.building = child.building
        /\ child'.inbox = child.inbox /\ child'.pending = child.pending
    BY <1>1, <1>2, <1>7 DEF Child
  <1>9. Held(child') = Held(child)
    BY <1>1, <1>8, ProjectionAssumption DEF Held, BuildingOf, WaitingOf, HeardOf
  <1>10. <<says, event>> \in Seq(AnyEvent) /\ <<says>> \in Seq(AnyEvent) /\ <<event>> \in Seq(AnyEvent)
    BY <1>3, <1>4
  <1>11. pipe[gate] \in Seq(AnyEvent) /\ pipe'[gate] = pipe[gate] \o <<says, event>> /\ Running
    BY <1>1, <1>10, ReportsAreAppended
  <1> DEFINE q == pipe[gate] \o <<says>>
  <1>12. q \in Seq(AnyEvent) /\ pipe'[gate] = q \o <<event>>
    <2>1. <<says, event>> = <<says>> \o <<event>>
      <3> DEFINE s == <<says, event>>
                 t == <<says>> \o <<event>>
      <3>1. s \in Seq(AnyEvent) /\ Len(s) = 2 /\ s[1] = says /\ s[2] = event
        BY <1>10
      <3>2. t \in Seq(AnyEvent) /\ Len(t) = 2 /\ t[1] = says /\ t[2] = event
        BY <1>10
      <3> HIDE DEF s, t
      <3>3. s = t
        BY <3>1, <3>2, SeqEqual
      <3>4. QED
        BY <3>3 DEF s, t
    <2>2. pipe[gate] \o (<<says>> \o <<event>>) = q \o <<event>>
      BY <1>10, <1>11, ConcatAssociative
    <2>3. q \in Seq(AnyEvent)
      BY <1>10, <1>11
    <2>4. QED
      BY <1>11, <2>1, <2>2, <2>3
  <1>13. \A i \in DOMAIN <<says>> : <<says>>[i].kind # "applied"
    BY <1>3
  <1>14. AppliedIn(q) = AppliedIn(pipe[gate]) /\ (InOrder(pipe[gate]) => InOrder(q))
    BY <1>10, <1>11, <1>13, OtherReports
  <1> HIDE DEF q
  <1>15. AppliedIn(<<event>>) = {event}
    BY <1>4 DEF AppliedIn
  <1>16. AppliedIn(pipe'[gate]) = AppliedIn(pipe[gate]) \cup {event}
    BY <1>10, <1>12, <1>14, <1>15, AppliedInBoth
  <1>17. InOrder(pipe[gate]) /\ (\A e \in AppliedIn(pipe[gate]) : e.gen < 0) => InOrder(pipe'[gate])
    BY <1>4, <1>12, <1>14, InOrderBoth
  <1>18. QED
    BY <1>1, <1>2, <1>6, <1>8, <1>9, <1>11, <1>16, <1>17 DEF x, event

(* A pass that finds nothing to change stands for the generation that was  *)
(* asked for last, and one that finds a change asks for a new one.         *)
LEMMA CorrelateEffect ==
    ASSUME TypeOK, Running => Queued, NEW replug \in BOOLEAN, Correlate(replug)
    PROVE  /\ Running /\ Running' /\ pass = Idle /\ Wall = slicer.desired /\ Wall \in Specs
           /\ slicer'.desired = slicer.desired
           /\ ~slicer'.live => Top = 0
           /\ pass' = Doing("mark", Top) /\ Top' = Top /\ Top \in Nat /\ status.requested <= Top
           /\ \A g \in DOMAIN gens' : IF g = Top THEN gens'[g] = Len(docs)
                                      ELSE g \in DOMAIN gens /\ gens'[g] = gens[g]
           /\ UNCHANGED <<docs, nextGen, control, child, gate, shown, status, reports>>
  <1>1. /\ Running /\ slicer' = Kept(replug) /\ Keeps(replug) /\ ~Changed(Kept(replug)) /\ pass = Idle
        /\ UNCHANGED <<docs, nextGen, control, child, gate, shown, status, reports>>
    BY KeptForThisWall DEF Correlate, BeginPass
  <1>2. Queued /\ Running' /\ slicer'.desired = slicer.desired /\ Wall = slicer.desired /\ Wall \in Specs
    BY <1>1, KeptForThisWall DEF Keeps, Running
  <1> DEFINE gen == IF slicer'.live THEN Top ELSE 0
  <1>3. Top = Later(status.requested, 0) /\ Top \in Nat /\ DOMAIN gens \subseteq Nat
        /\ status.requested \in Nat \cup {NoGen}
    BY <1>1, KnownIsTyped DEF Top, Idle
  <1>4. gens' = Recorded(gen, Len(docs)) /\ pass' = Doing("mark", gen)
    BY <1>3 DEF Correlate
  <1>5. ~slicer'.live => Top = 0
    <2>1. ASSUME Fell PROVE Top = 0
      BY <1>1, <1>3, <2>1, KeptForThisWall DEF Later, NoGen
    <2>2. ASSUME ~Fell, ~slicer'.live PROVE Top = 0
      BY <1>1, <1>2, <2>2, KeptForThisWall DEF Queued, Numbered
    <2>3. QED
      BY <2>1, <2>2
  <1>6. gen = Top
    BY <1>5
  <1>7. Top' = Top
    BY <1>4, <1>6 DEF Top, Doing
  <1>8. \A g \in DOMAIN gens' : IF g = Top THEN gens'[g] = Len(docs)
                                ELSE g \in DOMAIN gens /\ gens'[g] = gens[g]
    <2>1. TypedManager /\ Len(docs) \in Config
      BY TypedParts, WallIsADocument
    <2>2. QED
      BY <1>3, <1>4, <1>6, <2>1, RecordedGens
  <1>9. status.requested <= Top
    BY <1>3 DEF Later, NoGen
  <1>10. QED
    BY <1>1, <1>2, <1>3, <1>4, <1>5, <1>6, <1>7, <1>8, <1>9

LEMMA QueueEffect ==
    ASSUME TypeOK, Running => Queued, NEW replug \in BOOLEAN, Queue(replug)
    PROVE  /\ Running /\ Running' /\ pass = Idle /\ Wall \in Specs /\ slicer'.live
           /\ nextGen' = nextGen + 1 /\ pass' = Doing("push", nextGen)
           /\ Top' = nextGen /\ Top < nextGen /\ Top \in Nat /\ nextGen \in Nat
           /\ status.requested <= Top
           /\ \A g \in DOMAIN gens' : IF g = nextGen THEN gens'[g] = Len(docs)
                                      ELSE g \in DOMAIN gens /\ gens'[g] = gens[g]
           /\ UNCHANGED <<docs, control, child, gate, shown, status, reports>>
  <1>1. /\ Running /\ slicer' = Kept(replug) /\ slicer'.live /\ pass = Idle
        /\ nextGen' = nextGen + 1 /\ pass' = Doing("push", nextGen)
        /\ gens' = Recorded(nextGen, Len(docs))
        /\ UNCHANGED <<docs, control, child, gate, shown, status, reports>>
    BY KeptForThisWall DEF Queue, BeginPass, Changed
  <1>2. Queued /\ Running' /\ Wall \in Specs
    BY <1>1, KeptForThisWall DEF Queue, Keeps, Running
  <1>3. Top = Later(status.requested, 0) /\ Top \in Nat /\ DOMAIN gens \subseteq Nat
        /\ status.requested \in Nat \cup {NoGen} /\ nextGen \in Nat
    BY <1>1, KnownIsTyped DEF Top, Idle
  <1>4. Top' = nextGen
    BY <1>1 DEF Top, Doing
  <1>5. \A g \in DOMAIN gens' : IF g = nextGen THEN gens'[g] = Len(docs)
                                ELSE g \in DOMAIN gens /\ gens'[g] = gens[g]
    <2>1. TypedManager /\ Len(docs) \in Config
      BY TypedParts, WallIsADocument
    <2>2. QED
      BY <1>1, <1>3, <2>1, RecordedGens
  <1>6. status.requested <= Top /\ Top < nextGen
    BY <1>2, <1>3 DEF Later, NoGen, Queued, Numbered
  <1>7. QED
    BY <1>1, <1>2, <1>3, <1>4, <1>5, <1>6

(* The mailbox takes the wall the pass is for; a closed one ends the child.*)
LEMMA PushEffect ==
    ASSUME TypeOK, Push
    PROVE  LET update == [gen |-> pass.gen, spec |-> pass.want]
           IN  /\ pass.at = "push" /\ Running /\ pass.want \in Specs
               /\ Running' => /\ Posted' = {update}
                              /\ pass'.at = "mark" /\ pass'.gen = pass.gen
                              /\ pass'.want = pass.want /\ pass'.cfg = pass.cfg
                              /\ Top' = Top /\ Top = pass.gen
                              /\ UNCHANGED <<docs, slicer, nextGen, gens, wire, child, gate, shown,
                                             status, reports>>
  <1> DEFINE update == [gen |-> pass.gen, spec |-> pass.want]
  <1>1. TypedPass /\ TypedControl
    BY TypedParts
  <1>2. pass.at = "push" /\ pass \in Passes /\ Running /\ pass.want \in Specs
    BY <1>1 DEF Push, TypedPass, Passes, Running, Optional
  <1>3. ASSUME Running' PROVE mailbox.open
    BY <1>3 DEF Push, Stop, Running
  <1>4. ASSUME mailbox.open
        PROVE  /\ mailbox' = [mailbox EXCEPT !.value = update] /\ pass' = [pass EXCEPT !.at = "mark"]
               /\ UNCHANGED <<docs, slicer, nextGen, gens, wire, child, gate, shown, status, reports>>
    BY <1>4 DEF Push, Newest, document
  <1>5. update \in Update
    BY <1>2 DEF Passes, Update
  <1> HIDE DEF update
  <1>6. ASSUME mailbox.open PROVE Posted' = {update}
    BY <1>1, <1>4, <1>5, <1>6, ProjectionAssumption DEF TypedControl, Boxes, Posted, One
  <1>7. ASSUME mailbox.open
        PROVE  /\ pass'.at = "mark" /\ pass'.gen = pass.gen
               /\ pass'.want = pass.want /\ pass'.cfg = pass.cfg
               /\ Top' = Top /\ Top = pass.gen
    BY <1>2, <1>4, <1>7 DEF Passes, Top
  <1>8. QED
    BY <1>2, <1>3, <1>4, <1>6, <1>7 DEF update

(* The pass ends with what was asked for now asked for.                    *)
LEMMA MarkEffect ==
    ASSUME TypeOK, Running => Queued, Mark
    PROVE  /\ Running /\ Running' /\ pass.at = "mark" /\ pass' = Idle /\ Top' = Top /\ Top = pass.gen
           /\ slicer'.desired = pass.want /\ slicer'.live = slicer.live
           /\ status'.session = gate /\ status'.requested = Top /\ status'.applied = status.applied
           /\ status'.claimed = (IF status.applied = Top THEN pass.cfg ELSE status.claimed)
           /\ status'.facts = status.facts /\ pass.cfg \in Config
           /\ UNCHANGED <<docs, nextGen, gens, mailbox, wire, gate, child, shown, reports>>
  <1>1. TypedPass /\ TypedStatus /\ TypedManager
    BY TypedParts
  <1>2. /\ pass.at = "mark" /\ pass \in Passes /\ status \in Statuses /\ slicer \in Slicer
        /\ Running /\ Queued /\ pass.want \in Specs /\ pass.cfg \in Config
    BY <1>1 DEF Mark, TypedPass, Passes, TypedStatus, TypedManager, Optional, Running
  <1>3. pass.gen \in Nat /\ status.requested \in Nat \cup {NoGen} /\ status.requested <= pass.gen
        /\ Top = pass.gen
    BY <1>2 DEF Passes, Statuses, Queued, Numbered, Top
  <1>4. Later(status.requested, pass.gen) = pass.gen /\ Later(pass.gen, 0) = pass.gen
    BY <1>3 DEF Later, NoGen
  <1>5. /\ status' = [status EXCEPT !.session = slicer.session, !.requested = pass.gen,
                                    !.claimed = IF status.applied = pass.gen THEN pass.cfg ELSE @]
        /\ slicer' = [slicer EXCEPT !.desired = pass.want] /\ pass' = Idle
        /\ UNCHANGED <<docs, nextGen, gens, mailbox, wire, gate, child, shown, reports>>
    BY <1>4 DEF Mark, AlreadyApplied, document, control
  <1>6. slicer' \in Slicer /\ slicer'.desired = pass.want /\ slicer'.live = slicer.live
    BY <1>2, <1>5 DEF Slicer
  <1>7. slicer.session = gate
    BY <1>2, KnownIsTyped
  <1>8. /\ status'.session = gate /\ status'.requested = Top /\ status'.applied = status.applied
        /\ status'.claimed = (IF status.applied = Top THEN pass.cfg ELSE status.claimed)
        /\ status'.facts = status.facts
    BY <1>2, <1>3, <1>5, <1>7 DEF Statuses
  <1>9. Top' = Top
    BY <1>3, <1>4, <1>5, <1>8 DEF Top, Idle
  <1>10. Running'
    BY <1>6, ProjectionAssumption DEF Running
  <1>11. QED
    BY <1>2, <1>3, <1>5, <1>6, <1>8, <1>9, <1>10

(* A snapshot on its way from the mailbox to the child.                    *)
LEMMA WriterWritesEffect ==
    ASSUME TypeOK, WriterWrites
    PROVE  /\ Sent = {} /\ Sent' = Posted /\ Posted' = {} /\ ShownHere' = ShownHere /\ Known' = Known
           /\ UNCHANGED <<document, pass, manager, child, gate, reports, status, shown>>
  <1>1. /\ wire = None /\ wire' = mailbox.value /\ mailbox' = [mailbox EXCEPT !.value = None]
        /\ UNCHANGED <<document, pass, manager, child, gate, reports, status, shown>>
    BY DEF WriterWrites
  <1>2. mailbox \in Boxes
    BY TypedParts DEF TypedControl
  <1>3. Sent = {} /\ Sent' = Posted /\ Posted' = {} /\ ShownHere' = ShownHere
    BY <1>1, <1>2 DEF ShownHere, Sent, Posted, One, Boxes
  <1>4. QED
    BY <1>1, <1>3 DEF Known

LEMMA ReadControlEffect ==
    ASSUME TypeOK, ReadControl
    PROVE  /\ child \in Child /\ child # None /\ child' \in Child /\ child' # None /\ Running
           /\ child'.mode = "gpu" /\ child'.spec = child.spec /\ child'.installed = child.installed
           /\ child'.building = child.building
           /\ BuildingOf(child') = BuildingOf(child) /\ WaitingOf(child') = WaitingOf(child)
           /\ HeardOf(child') = Sent /\ Sent' = {} /\ Posted' = Posted /\ ShownHere' = ShownHere
           /\ Known' \subseteq Known
           /\ UNCHANGED <<document, pass, manager, mailbox, gate, reports, status, shown>>
  <1>1. /\ child # None /\ child.mode = "gpu" /\ wire # None /\ wire' = None
        /\ child' = [child EXCEPT !.inbox = wire]
        /\ UNCHANGED <<document, pass, manager, mailbox, gate, reports, status, shown>>
    BY DEF ReadControl, Newest
  <1>2. child \in Child /\ Running /\ wire \in Update
    BY <1>1, TypedParts DEF TypedChild, TypedGate, TypedControl, Optional, Running
  <1>3. child' \in Child
    BY <1>1, <1>2 DEF Child, Optional
  <1>4. /\ child'.inbox = wire /\ child'.pending = child.pending /\ child'.mode = "gpu"
        /\ child'.building = child.building /\ child'.spec = child.spec
        /\ child'.installed = child.installed /\ child' # None
    BY <1>1, <1>2, <1>3, ProjectionAssumption DEF Child
  <1>5. /\ BuildingOf(child') = BuildingOf(child) /\ WaitingOf(child') = WaitingOf(child)
        /\ HeardOf(child') = Sent /\ Sent' = {} /\ Posted' = Posted /\ ShownHere' = ShownHere
    BY <1>1, <1>4 DEF BuildingOf, WaitingOf, HeardOf, Sent, Posted, One, ShownHere
  <1>6. Known' \subseteq Known
    BY <1>5 DEF Known, Held
  <1>7. QED
    BY <1>1, <1>2, <1>3, <1>4, <1>5, <1>6

-----------------------------------------------------------------------------
(* Generations.                                                           *)

(* The generations stay in line and below those that were asked for.       *)
LEMMA QueuedStep ==
    ASSUME TypeOK, Running => Queued, [Next]_vars, Running'
    PROVE  Queued'
  <1>1. ASSUME UNCHANGED <<slicer, nextGen, gens, pass, mailbox, wire, gate, shown>>,
               Running => child' = child \/ (child' = None),
               Running => status'.requested = status.requested
        PROVE  Queued'
    <2>1. Running /\ Queued /\ (child' = child \/ child' = None) /\ status'.requested = status.requested
      BY <1>1 DEF Running
    <2>2. ShownHere' = ShownHere /\ Sent' = Sent /\ Posted' = Posted /\ Top' = Top
      BY <1>1, <2>1 DEF ShownHere, Sent, Posted, Top
    <2>3. Held(child') = {} \/ child' = child
      BY <2>1 DEF Held, BuildingOf, WaitingOf, HeardOf
    <2>4. Line(ShownHere', child', Sent', Posted')
      BY <2>1, <2>2, <2>3, LineLeft DEF Queued
    <2>5. Known' \subseteq Known
      BY <2>2, <2>3 DEF Known
    <2>6. Numbered'
      BY <1>1, <2>1, <2>2, <2>5 DEF Queued, Numbered
    <2>7. Modes'
      BY <2>1, <2>2 DEF Queued, Modes
    <2>8. QED
      BY <2>4, <2>6, <2>7 DEF Queued
  <1>2. ASSUME NEW replug \in BOOLEAN, Correlate(replug) PROVE Queued'
    <2>1. /\ Running /\ pass'.at = "mark" /\ pass'.gen = Top /\ Top' = Top
          /\ (~slicer'.live => Top = 0) /\ status.requested <= Top /\ Top \in Nat
          /\ \A g \in DOMAIN gens' : g \in DOMAIN gens \/ g = Top
          /\ UNCHANGED <<nextGen, mailbox, wire, child, gate, shown, status>>
      BY <1>2, CorrelateEffect DEF Doing, control
    <2>2. Queued /\ ShownHere' = ShownHere /\ Sent' = Sent /\ Posted' = Posted /\ Known' = Known
      BY <2>1 DEF ShownHere, Sent, Posted, Known
    <2>3. Numbered'
      BY <2>1, <2>2 DEF Queued, Numbered
    <2>4. QED
      BY <2>1, <2>2, <2>3 DEF Queued, Modes
  <1>3. ASSUME NEW replug \in BOOLEAN, Queue(replug) PROVE Queued'
    <2>1. /\ Running /\ slicer'.live /\ nextGen' = nextGen + 1
          /\ pass'.at = "push" /\ pass'.gen = nextGen
          /\ Top' = nextGen /\ Top < nextGen /\ Top \in Nat /\ nextGen \in Nat
          /\ status.requested <= Top
          /\ \A g \in DOMAIN gens' : g \in DOMAIN gens \/ g = nextGen
          /\ UNCHANGED <<mailbox, wire, child, gate, shown, status>>
      BY <1>3, QueueEffect DEF Doing, control
    <2>2. Queued /\ ShownHere' = ShownHere /\ Sent' = Sent /\ Posted' = Posted /\ Known' = Known
      BY <2>1 DEF ShownHere, Sent, Posted, Known
    <2>3. (\A u \in Known : u.gen \in Nat /\ u.gen <= Top) /\ \A g \in DOMAIN gens : g \in Nat /\ g <= Top
      BY <2>1, <2>2, KnownIsTyped DEF Queued, Numbered
    <2>4. \A u \in Known' : u.gen < Top' /\ u.gen <= Top'
      BY <2>1, <2>2, <2>3
    <2>5. \A g \in DOMAIN gens' : g <= Top'
      BY <2>1, <2>3
    <2>6. status'.requested <= pass'.gen /\ Top' > 0 /\ Top' < nextGen'
      <3>1. status.requested \in Nat \cup {NoGen}
        BY <2>1, KnownIsTyped
      <3>2. QED
        BY <2>1, <3>1 DEF NoGen
    <2>7. Numbered'
      BY <2>1, <2>4, <2>5, <2>6 DEF Numbered
    <2>8. QED
      BY <2>1, <2>2, <2>7 DEF Queued, Modes
  <1>4. ASSUME NEW replug \in BOOLEAN, Replace(replug) PROVE Queued'
    <2>1. /\ ShownHere' = {} /\ Held(child') = {} /\ Sent' = {} /\ Posted' = {} /\ Known' = {}
          /\ child'.mode = "starting"
      BY <1>4, NewSessionShowsNothing
    <2>2. /\ pass'.at = "mark" /\ pass'.gen = 0 /\ DOMAIN gens' = {0} /\ nextGen' = nextGen
          /\ status'.requested = -1
      BY <1>4 DEF Replace, Doing, Fresh, NoGen
    <2>3. Top' = 0 /\ nextGen \in Nat \ {0}
      BY <2>2, TypedParts DEF Top, TypedManager
    <2>4. Numbered'
      BY <2>1, <2>2, <2>3 DEF Numbered
    <2>5. Line(ShownHere', child', Sent', Posted')
      BY <2>1 DEF Line, Before, Held
    <2>6. QED
      BY <2>1, <2>4, <2>5 DEF Queued, Modes
  <1>5. ASSUME Push PROVE Queued'
    <2> DEFINE update == [gen |-> pass.gen, spec |-> pass.want]
    <2>1. /\ pass.at = "push" /\ Running /\ Posted' = {update} /\ pass'.at = "mark"
          /\ pass'.gen = pass.gen /\ Top' = Top /\ Top = pass.gen
          /\ UNCHANGED <<slicer, nextGen, gens, wire, child, gate, shown, status>>
      BY <1>5, PushEffect
    <2>2. update.gen = Top
      BY <2>1
    <2> HIDE DEF update
    <2>3. Queued /\ Top \in Nat /\ ShownHere' = ShownHere /\ Sent' = Sent
      BY <2>1, KnownIsTyped DEF ShownHere, Sent
    <2>4. Top > 0 /\ \A u \in ShownHere \cup Held(child) \cup Sent : u.gen < update.gen
      BY <2>1, <2>2, <2>3 DEF Queued, Numbered, Known
    <2>5. Line(ShownHere, child, Sent, Posted')
      <3>1. Before(ShownHere \cup Held(child) \cup Sent, Posted')
        BY <2>1, <2>4 DEF Before
      <3>2. \A u \in Posted' : u.gen > 0
        BY <2>1, <2>2, <2>4
      <3>3. QED
        BY <2>3, <3>1, <3>2 DEF Queued, Line
    <2>6. \A u \in Known' : u \in Known \/ u = update
      BY <2>1, <2>3 DEF Known
    <2>7. Numbered'
      BY <2>1, <2>2, <2>3, <2>6 DEF Queued, Numbered
    <2>8. Modes'
      BY <2>1, <2>3 DEF Queued, Modes
    <2>9. QED
      BY <2>1, <2>3, <2>5, <2>7, <2>8 DEF Queued
  <1>6. ASSUME Mark PROVE Queued'
    <2>1. /\ Running /\ pass'.at = "idle" /\ Top' = Top /\ slicer'.live = slicer.live
          /\ UNCHANGED <<nextGen, gens, mailbox, wire, gate, child, shown>>
      BY <1>6, MarkEffect DEF Idle
    <2>2. Queued /\ ShownHere' = ShownHere /\ Sent' = Sent /\ Posted' = Posted /\ Known' = Known
      BY <2>1 DEF ShownHere, Sent, Posted, Known
    <2>3. Numbered'
      BY <2>1, <2>2 DEF Queued, Numbered
    <2>4. QED
      BY <2>1, <2>2, <2>3 DEF Queued, Modes
  <1>7. ASSUME WriterWrites PROVE Queued'
    <2>1. /\ Sent = {} /\ Sent' = Posted /\ Posted' = {} /\ ShownHere' = ShownHere /\ Known' = Known
          /\ UNCHANGED <<slicer, nextGen, gens, pass, gate, child, shown, status>>
      BY <1>7, WriterWritesEffect DEF manager
    <2>2. Running /\ Queued /\ Top' = Top
      BY <2>1 DEF Running, Top
    <2>3. Line(ShownHere, child, Posted, {})
      <3>1. Line(ShownHere, child, {}, Posted)
        BY <2>1, <2>2 DEF Queued
      <3>2. QED
        BY <3>1, Zenon DEF Line, Before
    <2>4. Numbered'
      BY <2>1, <2>2 DEF Queued, Numbered
    <2>5. Modes'
      BY <2>1, <2>2 DEF Queued, Modes
    <2>6. QED
      BY <2>1, <2>3, <2>4, <2>5 DEF Queued
  <1>8. ASSUME WriterFails PROVE Queued'
    <2>1. /\ Running /\ Queued /\ child = None /\ Sent' = {} /\ Posted' = {} /\ ShownHere' = ShownHere
          /\ UNCHANGED <<slicer, nextGen, gens, pass, child, status>>
      BY <1>8 DEF WriterFails, manager, Running, Sent, Posted, One, ShownHere
    <2>2. Top' = Top /\ Known' \subseteq Known
      BY <2>1 DEF Top, Known
    <2>3. Line(ShownHere', child', Sent', Posted')
      BY <2>1, LineLeft DEF Queued
    <2>4. Numbered'
      BY <2>1, <2>2 DEF Queued, Numbered
    <2>5. QED
      BY <2>1, <2>3, <2>4 DEF Queued, Modes
  <1>9. ASSUME child # None PROVE child \in Child /\ Running /\ Queued /\ 0 <= Top
    <2>1. child \in Child /\ Running
      BY <1>9, TypedParts DEF TypedChild, TypedGate, Optional, Running
    <2>2. QED
      BY <2>1, KnownIsTyped
  <1>10. ASSUME ReadControl PROVE Queued'
    <2>1. /\ child'.mode = "gpu" /\ child' # None /\ Running
          /\ BuildingOf(child') = BuildingOf(child) /\ WaitingOf(child') = WaitingOf(child)
          /\ HeardOf(child') = Sent /\ Sent' = {} /\ Posted' = Posted /\ ShownHere' = ShownHere
          /\ Known' \subseteq Known
          /\ UNCHANGED <<slicer, nextGen, gens, pass, status>>
      BY <1>10, ReadControlEffect DEF manager
    <2>2. Queued /\ Top' = Top
      BY <2>1 DEF Top
    <2>3. Line(ShownHere, child, Sent, Posted)
      BY <2>2 DEF Queued
    <2>4. Line(ShownHere', child', Sent', Posted')
      BY <2>1, <2>3, Zenon DEF Line, Before, Held
    <2>5. Numbered'
      BY <2>1, <2>2 DEF Queued, Numbered
    <2>6. QED
      BY <2>1, <2>4, <2>5 DEF Queued, Modes
  <1>11. ASSUME child # None, UNCHANGED <<slicer, nextGen, gens, pass, mailbox, wire, gate, status>>,
                child' \in Child, child'.mode = "gpu", Line(ShownHere', child', Sent, Posted),
                \A u \in Known' : u.gen = 0 \/ \E v \in Known : u.gen = v.gen,
                pass.at = "push" => Top > 0
         PROVE  Queued'
    <2>1. Running /\ Queued /\ 0 <= Top
      BY <1>9, <1>11
    <2>2. Sent' = Sent /\ Posted' = Posted /\ Top' = Top
      BY <1>11 DEF Sent, Posted, Top
    <2>3. Numbered'
      BY <1>11, <2>1, <2>2 DEF Queued, Numbered
    <2>4. QED
      BY <1>11, <2>2, <2>3 DEF Queued, Modes
  <1>12. ASSUME StartsGpu PROVE Queued'
    <2>1. /\ child \in Child /\ child # None /\ child' \in Child /\ Running
          /\ child.mode = "starting" /\ child'.mode = "gpu"
          /\ UNCHANGED <<slicer, nextGen, gens, pass, mailbox, wire, gate, shown, status>>
      BY <1>12, StartsGpuEffect DEF manager, control
    <2>2. Queued /\ Held(child) = {} /\ ShownHere = {} /\ ShownHere' = {}
      BY <1>9, <2>1 DEF Queued, Modes, ShownHere
    <2>3. (\A u \in Held(child') : u.gen = 0) /\ BuildingOf(child') = Held(child')
      BY <1>12, <2>2, StartsGpuEffect
    <2>4. Line({}, child', Sent, Posted)
      <3>1. Before(Sent, Posted) /\ \A u \in Sent \cup Posted : u.gen > 0
        BY <2>2, Zenon DEF Queued, Line, Before
      <3>2. \A v \in Sent \cup Posted : v.gen \in Nat
        BY <2>1, KnownIsTyped DEF Known
      <3>3. \A u \in Held(child'), v \in Sent \cup Posted : u.gen < v.gen
        BY <2>3, <3>1, <3>2
      <3>4. WaitingOf(child') = {} /\ HeardOf(child') = {}
        BY <1>12, <2>2, StartsGpuEffect
      <3>5. QED
        BY <2>3, <3>1, <3>3, <3>4, Zenon DEF Line, Before, Held
    <2>5. Sent' = Sent /\ Posted' = Posted
      BY <2>1 DEF Sent, Posted
    <2>6. \A u \in Known' : u.gen = 0 \/ \E v \in Known : u.gen = v.gen
      BY <2>2, <2>3, <2>5 DEF Known
    <2>7. pass.at = "push" => Top > 0
      BY <2>2 DEF Queued, Numbered
    <2>8. QED
      BY <1>11, <2>1, <2>2, <2>4, <2>6, <2>7
  <1>13. ASSUME StartsCpu PROVE Queued'
    <2>1. /\ child # None /\ child.mode = "starting" /\ child'.mode = "cpu"
          /\ Held(child') = Held(child)
          /\ ShownHere' = ShownHere \cup {[session |-> gate, gen |-> 0, spec |-> child.spec]}
          /\ UNCHANGED <<slicer, nextGen, gens, pass, mailbox, wire, gate, status>>
      BY <1>13, StartsCpuEffect DEF manager, control
    <2>2. child \in Child /\ Running /\ Queued /\ 0 <= Top
      BY <1>9, <2>1
    <2>3. ShownHere = {} /\ Held(child) = {} /\ Held(child') = {} /\ \A x \in ShownHere' : x.gen = 0
      BY <2>1, <2>2 DEF Queued, Modes
    <2>4. Sent' = Sent /\ Posted' = Posted /\ Top' = Top
      BY <2>1 DEF Sent, Posted, Top
    <2>5. Line(ShownHere', child', Sent', Posted')
      <3>1. Before(Sent, Posted) /\ \A u \in Sent \cup Posted : u.gen > 0
        BY <2>2, Zenon DEF Queued, Line, Before
      <3>2. \A v \in Sent \cup Posted : v.gen \in Nat
        BY <2>2, KnownIsTyped DEF Known
      <3>3. \A u \in ShownHere', v \in Sent \cup Posted : u.gen < v.gen
        BY <2>3, <3>1, <3>2
      <3>4. BuildingOf(child') = {} /\ WaitingOf(child') = {} /\ HeardOf(child') = {}
        BY <2>3 DEF Held
      <3>5. QED
        BY <2>4, <3>1, <3>3, <3>4, Zenon DEF Line, Before, Held
    <2>6. \A u \in Known' : u.gen = 0 \/ u \in Known
      BY <2>3, <2>4 DEF Known
    <2>7. Numbered'
      BY <2>1, <2>2, <2>4, <2>6 DEF Queued, Numbered
    <2>8. QED
      BY <2>1, <2>3, <2>5, <2>7 DEF Queued, Modes
  <1>14. ASSUME NEW valid \in BOOLEAN, Poll(valid) PROVE Queued'
    <2>1. /\ child # None /\ child' \in Child /\ child'.mode = "gpu"
          /\ Held(child') \subseteq Held(child)
          /\ \A N, P : Line(ShownHere, child, N, P) => Line(ShownHere, child', N, P)
          /\ UNCHANGED <<slicer, nextGen, gens, pass, mailbox, wire, gate, shown, status>>
      BY <1>14, PollEffect DEF manager, control
    <2>2. Queued /\ ShownHere' = ShownHere /\ Sent' = Sent /\ Posted' = Posted
      BY <1>9, <2>1 DEF ShownHere, Sent, Posted
    <2>3. \A u \in Known' : u \in Known
      BY <2>1, <2>2 DEF Known
    <2>4. Line(ShownHere', child', Sent, Posted) /\ (pass.at = "push" => Top > 0)
      BY <2>1, <2>2 DEF Queued, Numbered
    <2>5. QED
      BY <1>11, <2>1, <2>3, <2>4
  <1>15. ASSUME NEW valid \in BOOLEAN, Install(valid) PROVE Queued'
    <2> DEFINE request == child.building.request
               x == [session |-> gate, gen |-> request.gen, spec |-> request.spec]
    <2>1. /\ child # None /\ child' \in Child /\ child'.mode = "gpu"
          /\ ShownHere' = ShownHere \cup {x} /\ BuildingOf(child) = {request}
          /\ Held(child') \subseteq Held(child)
          /\ \A N, P : Line(ShownHere, child, N, P) => Line(ShownHere', child', N, P)
          /\ UNCHANGED <<slicer, nextGen, gens, pass, mailbox, wire, gate, status>>
      BY <1>15, InstallEffect DEF manager, control
    <2>2. Queued /\ Sent' = Sent /\ Posted' = Posted /\ request \in Known
      BY <1>9, <2>1 DEF Sent, Posted, Known, Held
    <2>3. x.gen = request.gen
      OBVIOUS
    <2> HIDE DEF x, request
    <2>4. \A u \in Known' : u.gen = 0 \/ \E v \in Known : u.gen = v.gen
      BY <2>1, <2>2, <2>3 DEF Known
    <2>5. Line(ShownHere', child', Sent, Posted) /\ (pass.at = "push" => Top > 0)
      BY <2>1, <2>2 DEF Queued, Numbered
    <2>6. QED
      BY <1>11, <2>1, <2>4, <2>5
  <1>16. ASSUME NEW exits \in BOOLEAN, BuildFails(exits) PROVE Queued'
    <2>1. /\ child # None
          /\ UNCHANGED <<slicer, nextGen, gens, pass, mailbox, wire, gate, shown, status>>
      BY <1>16, BuildFailsEffect DEF manager, control
    <2>2. CASE exits
      BY <1>1, <1>16, <2>1, <2>2, BuildFailsEffect
    <2>3. CASE ~exits
      <3>1. /\ child' \in Child /\ child'.mode = "gpu" /\ Held(child') \subseteq Held(child)
            /\ \A N, P : Line(ShownHere, child, N, P) => Line(ShownHere, child', N, P)
        BY <1>16, <2>3, BuildFailsEffect
      <3>2. Queued /\ ShownHere' = ShownHere /\ Sent' = Sent /\ Posted' = Posted
        BY <1>9, <2>1 DEF ShownHere, Sent, Posted
      <3>3. \A u \in Known' : u \in Known
        BY <3>1, <3>2 DEF Known
      <3>4. Line(ShownHere', child', Sent, Posted) /\ (pass.at = "push" => Top > 0)
        BY <3>1, <3>2 DEF Queued, Numbered
      <3>5. QED
        BY <1>11, <2>1, <3>1, <3>3, <3>4
    <2>4. QED
      BY <2>2, <2>3
  <1>17. ASSUME (\E spec \in Optional(Specs) : Write(spec)) \/ Touch \/ Notice \/ DirectTick \/ Rest
                \/ Exit \/ (\E session \in Sessions : ReaderEnds(session)) \/ UNCHANGED vars
         PROVE  Queued'
    BY <1>1, <1>17 DEF Write, Touch, Notice, DirectTick, Rest, Exit, ReaderEnds, manager, control, vars
  <1>18. ASSUME NEW session \in Sessions, Read(session) PROVE Queued'
    <2>1. UNCHANGED <<slicer, nextGen, gens, pass, mailbox, wire, gate, shown, child>>
      BY <1>18 DEF Read, manager, control
    <2>2. status'.requested = status.requested
      BY <1>18, ReadEffect
    <2>3. QED
      BY <1>1, <2>1, <2>2
  <1>19. ASSUME Book PROVE Queued'
    <2>1. UNCHANGED <<slicer, nextGen, gens, pass, mailbox, wire, gate, shown, child>>
      BY <1>19 DEF Book, manager, control
    <2>2. status'.requested = status.requested
      BY <1>19, BookEffect
    <2>3. QED
      BY <1>1, <2>1, <2>2
  <1>20. ASSUME (\E replug \in BOOLEAN : StandDown(replug)) \/ SpawnFails PROVE Queued'
    BY <1>20 DEF StandDown, SpawnFails, Stop, Running
  <1>21. QED
    BY <1>2, <1>3, <1>4, <1>5, <1>6, <1>7, <1>8, <1>10, <1>12, <1>13, <1>14, <1>15, <1>16, <1>17, <1>18,
       <1>19, <1>20
       DEF Next, Begin, PassStep, WriterStep, ChildStep, ReaderStep

-----------------------------------------------------------------------------
(* What the generations stand for.                                         *)

Interpreted == \E m \in [Nat -> Specs] : Meant(m)

(* Each control generation of a session stands for one wall, for the child *)
(* that builds it and for the configurations recorded under it alike.      *)
LEMMA InterpretedStep ==
    ASSUME TypeOK, Running => Queued, Running => Reported, Running => Interpreted, [Next]_vars,
           Running'
    PROVE  Interpreted'
  <1>1. ASSUME Running, UNCHANGED <<slicer, gens, pass>>, Top' = Top,
               \A i \in Config : docs'[i] = docs[i], reader' = reader \/ reader' = None,
               child' # None => child # None /\ child'.spec = child.spec,
               \A u \in Known' : \/ \E v \in Known : u.gen = v.gen /\ u.spec = v.spec
                                 \/ child # None /\ u.gen = 0 /\ u.spec = child.spec
        PROVE  Interpreted'
    <2>1. PICK m \in [Nat -> Specs] : Meant(m)
      BY <1>1 DEF Interpreted
    <2>2. /\ \A g \in DOMAIN gens : gens[g] \in Config
          /\ pass.at # "idle" => pass.cfg \in Config
          /\ reader # None /\ reader.cfg # None => reader.cfg \in Config
      BY TypedParts DEF TypedManager, TypedPass, TypedReports, Optional
    <2>3. Meant(m)'
      BY <1>1, <2>1, <2>2 DEF Meant
    <2>4. QED
      BY <2>3 DEF Interpreted
  <1>2. ASSUME UNCHANGED <<slicer, gens, pass, docs, reader>>, Top' = Top, Known' \subseteq Known,
               child' # None => child # None /\ child'.spec = child.spec
        PROVE  Interpreted'
    <2>1. Running
      BY <1>2 DEF Running
    <2>2. QED
      BY <1>1, <1>2, <2>1
  <1>3. ASSUME Touch \/ \E spec \in Optional(Specs) : Write(spec) PROVE Interpreted'
    <2>1. UNCHANGED <<slicer, gens, pass, mailbox, wire, child, gate, shown, status, reader>>
      BY <1>3 DEF Touch, Write, manager, control, reports
    <2>2. \A i \in Config : docs'[i] = docs[i]
      <3>1. PICK spec : docs' = Append(docs, spec)
        BY <1>3 DEF Touch, Write
      <3>2. docs \in Seq(Optional(Specs))
        BY TypedParts DEF TypedDocs
      <3>3. QED
        BY <3>1, <3>2 DEF Config
    <2>3. Running /\ Top' = Top /\ Known' = Known
      BY <2>1 DEF Running, Top, Known, ShownHere, Sent, Posted
    <2>4. QED
      BY <1>1, <2>1, <2>2, <2>3
  <1>4. ASSUME NEW replug \in BOOLEAN, Correlate(replug) PROVE Interpreted'
    <2>1. /\ Running /\ pass = Idle /\ Wall = slicer.desired /\ pass' = Doing("mark", Top)
          /\ Top' = Top
          /\ \A g \in DOMAIN gens' : IF g = Top THEN gens'[g] = Len(docs)
                                     ELSE g \in DOMAIN gens /\ gens'[g] = gens[g]
          /\ UNCHANGED <<docs, mailbox, wire, child, gate, shown, reader>>
      BY <1>4, CorrelateEffect DEF control, reports
    <2>2. PICK m \in [Nat -> Specs] : Meant(m)
      BY <2>1 DEF Interpreted
    <2>3. Known' = Known /\ pass.at = "idle" /\ Wall = docs[Len(docs)]
      BY <2>1 DEF Known, ShownHere, Sent, Posted, Idle, Wall
    <2>4. pass'.at = "mark" /\ pass'.want = Wall /\ pass'.cfg = Len(docs)
      BY <2>1 DEF Doing
    <2>5. docs[Len(docs)] = m[Top]
      BY <2>1, <2>2, <2>3 DEF Meant
    <2>6. Meant(m)'
      BY <2>1, <2>2, <2>3, <2>4, <2>5 DEF Meant
    <2>7. QED
      BY <2>6 DEF Interpreted
  <1>5. ASSUME NEW replug \in BOOLEAN, Queue(replug) PROVE Interpreted'
    <2>1. /\ Running /\ Wall \in Specs /\ pass' = Doing("push", nextGen)
          /\ Top' = nextGen /\ Top < nextGen /\ Top \in Nat /\ nextGen \in Nat
          /\ \A g \in DOMAIN gens' : IF g = nextGen THEN gens'[g] = Len(docs)
                                     ELSE g \in DOMAIN gens /\ gens'[g] = gens[g]
          /\ UNCHANGED <<docs, mailbox, wire, child, gate, shown, reader>>
      BY <1>5, QueueEffect DEF control, reports
    <2>2. PICK m \in [Nat -> Specs] : Meant(m)
      BY <2>1 DEF Interpreted
    <2>3. Known' = Known /\ Wall = docs[Len(docs)]
      BY <2>1 DEF Known, ShownHere, Sent, Posted, Wall
    <2>4. pass'.at = "push" /\ pass'.want = Wall /\ pass'.cfg = Len(docs)
      BY <2>1 DEF Doing
    <2>5. PICK n \in [Nat -> Specs] : n[nextGen] = Wall /\ \A g \in Nat : g # nextGen => n[g] = m[g]
      <3>1. [m EXCEPT ![nextGen] = Wall] \in [Nat -> Specs]
        BY <2>1
      <3>2. QED
        BY <2>1, <3>1
    <2>6. \A u \in Known : n[u.gen] = m[u.gen]
      <3>1. \A u \in Known : u.gen \in Nat /\ u.gen <= Top
        BY <2>1, KnownIsTyped DEF Queued, Numbered
      <3>2. \A u \in Known : u.gen \in Nat /\ u.gen # nextGen
        BY <2>1, <3>1
      <3>3. QED
        BY <2>5, <3>2
    <2>7. \A g \in DOMAIN gens : g # nextGen => n[g] = m[g]
      BY <2>1, <2>5, KnownIsTyped
    <2>8. n[0] = m[0]
      BY <2>1, <2>5
    <2>9. reader # None => n[reader.event.gen] = m[reader.event.gen]
      <3>1. ASSUME reader # None PROVE \E x \in Known : x.gen = reader.event.gen
        BY <2>1, <3>1 DEF Reported, Outstanding, Known
      <3>2. QED
        BY <2>6, <3>1
    <2>10. Meant(n)'
      BY <2>1, <2>2, <2>3, <2>4, <2>5, <2>6, <2>7, <2>8, <2>9 DEF Meant
    <2>11. QED
      BY <2>5, <2>10 DEF Interpreted
  <1>6. ASSUME NEW replug \in BOOLEAN, Replace(replug) PROVE Interpreted'
    <2>1. Wall \in Specs /\ Len(docs) \in Nat
      BY <1>6, TypedParts, WallIsADocument DEF Replace, Optional
    <2>2. PICK n \in [Nat -> Specs] : n[0] = Wall
      <3>1. [g \in Nat |-> Wall] \in [Nat -> Specs]
        BY <2>1
      <3>2. QED
        BY <3>1
    <2>3. Known' = {} /\ child'.spec = Wall
      BY <1>6, NewSessionShowsNothing
    <2>4. /\ pass' = Doing("mark", 0) /\ reader' = None /\ docs' = docs
          /\ gens' = [g \in {0} |-> Len(docs)]
      BY <1>6 DEF Replace
    <2>5. pass'.at = "mark" /\ pass'.want = Wall /\ pass'.cfg = Len(docs) /\ Top' = 0
          /\ Wall = docs[Len(docs)]
      BY <2>4 DEF Doing, Top, Wall
    <2>6. Meant(n)'
      BY <2>2, <2>3, <2>4, <2>5 DEF Meant
    <2>7. QED
      BY <2>2, <2>6 DEF Interpreted
  <1>7. ASSUME Push PROVE Interpreted'
    <2> DEFINE update == [gen |-> pass.gen, spec |-> pass.want]
    <2>1. /\ pass.at = "push" /\ Running /\ Posted' = {update} /\ pass'.at = "mark"
          /\ pass'.want = pass.want /\ pass'.cfg = pass.cfg /\ Top' = Top /\ Top = pass.gen
          /\ UNCHANGED <<docs, slicer, gens, wire, child, gate, shown, reports>>
      BY <1>7, PushEffect
    <2>2. update.gen = Top /\ update.spec = pass.want
      BY <2>1
    <2> HIDE DEF update
    <2>3. PICK m \in [Nat -> Specs] : Meant(m)
      BY <2>1 DEF Interpreted
    <2>4. \A u \in Known' : u \in Known \/ u = update
      BY <2>1 DEF Known, ShownHere, Sent
    <2>5. Meant(m)'
      BY <2>1, <2>2, <2>3, <2>4 DEF Meant, reports
    <2>6. QED
      BY <2>5 DEF Interpreted
  <1>8. ASSUME Mark PROVE Interpreted'
    <2>1. /\ Running /\ pass.at = "mark" /\ pass' = Idle /\ Top' = Top /\ slicer'.desired = pass.want
          /\ UNCHANGED <<docs, gens, mailbox, wire, gate, child, shown, reports>>
      BY <1>8, MarkEffect
    <2>2. PICK m \in [Nat -> Specs] : Meant(m)
      BY <2>1 DEF Interpreted
    <2>3. Known' = Known /\ pass'.at = "idle"
      BY <2>1 DEF Known, ShownHere, Sent, Posted, Idle
    <2>4. Meant(m)'
      BY <2>1, <2>2, <2>3 DEF Meant, reports
    <2>5. QED
      BY <2>4 DEF Interpreted
  <1>9. ASSUME WriterWrites \/ ReadControl PROVE Interpreted'
    <2>1. ASSUME WriterWrites PROVE Interpreted'
      BY <1>2, <2>1, WriterWritesEffect DEF document, manager, reports, Top
    <2>2. ASSUME ReadControl PROVE Interpreted'
      BY <1>2, <2>2, ReadControlEffect DEF document, manager, reports, Top
    <2>3. QED
      BY <1>9, <2>1, <2>2
  <1>10. ASSUME WriterFails PROVE Interpreted'
    <2>1. /\ Known' \subseteq Known /\ child' = child
          /\ UNCHANGED <<slicer, gens, pass, docs, reader, status>>
      BY <1>10 DEF WriterFails, document, manager, reports, Known, ShownHere, Sent, Posted, One
    <2>2. QED
      BY <1>2, <2>1 DEF Top
  <1>11. ASSUME NEW valid \in BOOLEAN, Poll(valid) PROVE Interpreted'
    <2>1. /\ Held(child') \subseteq Held(child) /\ child # None /\ child'.spec = child.spec
          /\ UNCHANGED <<slicer, gens, pass, docs, reader, status, gate, shown, mailbox, wire>>
      BY <1>11, PollEffect DEF document, manager, control
    <2>2. Known' \subseteq Known /\ Top' = Top
      BY <2>1 DEF Known, ShownHere, Sent, Posted, Top
    <2>3. QED
      BY <1>2, <2>1, <2>2
  <1>12. ASSUME NEW exits \in BOOLEAN, BuildFails(exits) PROVE Interpreted'
    <2>1. /\ child # None /\ Held(child') \subseteq Held(child)
          /\ child' # None => child'.spec = child.spec
          /\ UNCHANGED <<slicer, gens, pass, docs, reader, status, gate, shown, mailbox, wire>>
      BY <1>12, BuildFailsEffect DEF document, manager, control, Held, BuildingOf, WaitingOf, HeardOf
    <2>2. Known' \subseteq Known /\ Top' = Top
      BY <2>1 DEF Known, ShownHere, Sent, Posted, Top
    <2>3. QED
      BY <1>2, <2>1, <2>2
  <1>13. ASSUME Exit PROVE Interpreted'
    <2>1. /\ child' = None /\ Held(child') = {}
          /\ UNCHANGED <<slicer, gens, pass, docs, reader, status, gate, shown, mailbox, wire>>
      BY <1>13 DEF Exit, document, manager, control, reports, Held, BuildingOf, WaitingOf, HeardOf
    <2>2. Known' \subseteq Known /\ Top' = Top
      BY <2>1 DEF Known, ShownHere, Sent, Posted, Top
    <2>3. QED
      BY <1>2, <2>1, <2>2
  <1>14. ASSUME StartsGpu PROVE Interpreted'
    <2>1. /\ child # None /\ Running /\ child'.spec = child.spec /\ child.mode = "starting"
          /\ UNCHANGED <<slicer, gens, pass, docs, reader, status, gate, shown, mailbox, wire>>
      BY <1>14, StartsGpuEffect DEF document, manager, control
    <2>2. Held(child) = {}
      BY <2>1 DEF Queued, Modes
    <2>3. \A u \in Held(child') : u.gen = 0 /\ u.spec = child.spec
      BY <1>14, <2>2, StartsGpuEffect
    <2>4. (\A u \in Known' : u \in Known \/ u \in Held(child')) /\ Top' = Top
      BY <2>1 DEF Known, ShownHere, Sent, Posted, Top
    <2>5. QED
      BY <1>1, <2>1, <2>3, <2>4
  <1>15. ASSUME StartsCpu PROVE Interpreted'
    <2> DEFINE x == [session |-> gate, gen |-> 0, spec |-> child.spec]
    <2>1. /\ child # None /\ Running /\ child'.spec = child.spec /\ Held(child') = Held(child)
          /\ ShownHere' = ShownHere \cup {x}
          /\ UNCHANGED <<slicer, gens, pass, docs, reader, status, gate, mailbox, wire>>
      BY <1>15, StartsCpuEffect DEF document, manager, control
    <2>2. x.gen = 0 /\ x.spec = child.spec
      OBVIOUS
    <2> HIDE DEF x
    <2>3. (\A u \in Known' : u \in Known \/ u = x) /\ Top' = Top
      BY <2>1 DEF Known, Sent, Posted, Top
    <2>4. QED
      BY <1>1, <2>1, <2>2, <2>3
  <1>16. ASSUME NEW valid \in BOOLEAN, Install(valid) PROVE Interpreted'
    <2> DEFINE request == child.building.request
               x == [session |-> gate, gen |-> request.gen, spec |-> request.spec]
    <2>1. /\ child # None /\ Running /\ child'.spec = child.spec /\ Held(child') \subseteq Held(child)
          /\ ShownHere' = ShownHere \cup {x} /\ BuildingOf(child) = {request}
          /\ UNCHANGED <<slicer, gens, pass, docs, reader, status, gate, mailbox, wire>>
      BY <1>16, InstallEffect DEF document, manager, control
    <2>2. x.gen = request.gen /\ x.spec = request.spec
      OBVIOUS
    <2> HIDE DEF x, request
    <2>3. request \in Known /\ (\A u \in Known' : u \in Known \/ u = x) /\ Top' = Top
      BY <2>1 DEF Known, Held, Sent, Posted, Top
    <2>4. QED
      BY <1>1, <2>1, <2>2, <2>3
  <1>17. ASSUME NEW session \in Sessions, Read(session) PROVE Interpreted'
    <2> DEFINE event == Head(pipe[session])
    <2>1. /\ Running /\ reader = None /\ status'.requested = status.requested
          /\ reader' # None => reader'.event = event /\ reader'.cfg = ConfigFor(event.gen)
          /\ UNCHANGED <<docs, slicer, gens, pass, mailbox, wire, gate, child, shown>>
      <3>1. UNCHANGED <<docs, slicer, gens, pass, mailbox, wire, gate, child, shown>>
        BY <1>17 DEF Read, document, manager, control
      <3>2. Running /\ reader = None
        BY <1>17, ReadEffect
      <3>3. CASE event.kind = "applied"
        BY <1>17, <3>1, <3>2, <3>3, ReadEffect
      <3>4. CASE event.kind # "applied"
        BY <1>17, <3>1, <3>2, <3>4, ReadEffect
      <3>5. QED
        BY <3>3, <3>4
    <2> HIDE DEF event
    <2>2. PICK m \in [Nat -> Specs] : Meant(m)
      BY <2>1 DEF Interpreted
    <2>3. Known' = Known /\ Top' = Top
      BY <2>1 DEF Known, ShownHere, Sent, Posted, Top
    <2>4. reader' # None /\ reader'.cfg # None => docs[reader'.cfg] = m[reader'.event.gen]
      BY <2>1, <2>2 DEF Meant, ConfigFor
    <2>5. Meant(m)'
      BY <2>1, <2>2, <2>3, <2>4 DEF Meant
    <2>6. QED
      BY <2>5 DEF Interpreted
  <1>18. ASSUME Book PROVE Interpreted'
    <2>1. /\ reader' = None /\ status'.requested = status.requested
          /\ UNCHANGED <<docs, slicer, gens, pass, mailbox, wire, gate, child, shown>>
      BY <1>18, BookEffect DEF Book, document, manager, control
    <2>2. Known' = Known /\ Top' = Top /\ Running
      BY <2>1 DEF Known, ShownHere, Sent, Posted, Top, Running
    <2>3. QED
      BY <1>1, <2>1, <2>2
  <1>19. ASSUME Notice \/ DirectTick \/ Rest \/ (\E session \in Sessions : ReaderEnds(session))
                \/ UNCHANGED vars
         PROVE  Interpreted'
    <2>1. UNCHANGED <<docs, slicer, gens, pass, mailbox, wire, gate, child, shown, reader, status>>
      BY <1>19 DEF Notice, DirectTick, Rest, ReaderEnds, document, manager, control, reports, vars
    <2>2. Known' = Known /\ Top' = Top
      BY <2>1 DEF Known, ShownHere, Sent, Posted, Top
    <2>3. QED
      BY <1>2, <2>1, <2>2
  <1>20. ASSUME (\E replug \in BOOLEAN : StandDown(replug)) \/ SpawnFails PROVE Interpreted'
    BY <1>20 DEF StandDown, SpawnFails, Stop, Running
  <1>21. QED
    BY <1>3, <1>4, <1>5, <1>6, <1>7, <1>8, <1>9, <1>10, <1>11, <1>12, <1>13, <1>14, <1>15, <1>16, <1>17,
       <1>18, <1>19, <1>20
       DEF Next, Begin, PassStep, WriterStep, ChildStep, ReaderStep

-----------------------------------------------------------------------------
(* Reports on their way.                                                   *)

(* An update that may still be installed is newer than all that was        *)
(* installed, and so than every report of it.                              *)
LEMMA NextIsNewer ==
    ASSUME TypeOK, Running, Reported, Remembered, NEW gen \in Nat, \A x \in ShownHere : x.gen < gen
    PROVE  status.applied < gen /\ \A e \in Outstanding : e.gen < gen
  <1>1. status.applied \in Nat \cup {NoGen}
    BY KnownIsTyped
  <1>2. status.applied < gen
    <2>1. CASE status.applied = NoGen
      BY <2>1 DEF NoGen
    <2>2. CASE status.applied # NoGen
      BY <2>2 DEF Remembered
    <2>3. QED
      BY <2>1, <2>2
  <1>3. \A e \in Outstanding : e.gen < gen
    BY DEF Reported
  <1>4. QED
    BY <1>2, <1>3

(* Reports are read in the order in which walls were installed, and each   *)
(* is about one that was.                                                  *)
LEMMA ReportedStep ==
    ASSUME TypeOK, Running => Queued, Running => Reported /\ Remembered, [Next]_vars, Running'
    PROVE  Reported' /\ Remembered'
  <1>1. ASSUME Running, gate' = gate, reader' = reader, ShownHere \subseteq ShownHere',
               AppliedIn(pipe'[gate]) = AppliedIn(pipe[gate]),
               InOrder(pipe[gate]) => InOrder(pipe'[gate]),
               \/ status'.session = status.session /\ status'.claimed = status.claimed
               \/ status'.session = gate,
               status'.applied = status.applied
        PROVE  Reported' /\ Remembered'
    <2>1. Reported /\ Remembered /\ gate \in Nat
      BY <1>1, KnownIsTyped
    <2>2. Outstanding' = Outstanding /\ Untold' = Untold
      BY <1>1 DEF Outstanding, Untold
    <2>3. Reported'
      BY <1>1, <2>1, <2>2 DEF Reported
    <2>4. Remembered'
      BY <1>1, <2>1, ProjectionAssumption DEF Remembered
    <2>5. QED
      BY <2>3, <2>4
  <1>2. ASSUME UNCHANGED <<slicer, gate, reader, pipe, shown, status>> PROVE Reported' /\ Remembered'
    <2>1. Running
      BY <1>2 DEF Running
    <2>2. QED
      BY <1>1, <1>2, <2>1 DEF ShownHere
  <1>3. ASSUME Touch \/ (\E spec \in Optional(Specs) : Write(spec)) \/ Notice \/ DirectTick \/ Rest
               \/ WriterWrites \/ WriterFails \/ ReadControl \/ Exit \/ UNCHANGED vars
        PROVE  Reported' /\ Remembered'
    BY <1>2, <1>3 DEF Touch, Write, Notice, DirectTick, Rest, WriterWrites, WriterFails, ReadControl, Exit,
                      vars, manager, reports
  <1>4. ASSUME (\E replug \in BOOLEAN : Correlate(replug) \/ Queue(replug)) \/ Push
        PROVE  Reported' /\ Remembered'
    <2>1. Running /\ UNCHANGED <<gate, reader, pipe, shown, status>>
      BY <1>4, CorrelateEffect, QueueEffect, PushEffect DEF reports
    <2>2. QED
      BY <1>1, <2>1 DEF ShownHere
  <1>5. ASSUME Mark PROVE Reported' /\ Remembered'
    BY <1>1, <1>5, MarkEffect DEF reports, ShownHere
  <1>6. ASSUME NEW replug \in BOOLEAN, Replace(replug) PROVE Reported' /\ Remembered'
    <2>1. /\ status'.session = None /\ status'.applied = NoGen /\ status'.claimed = None /\ reader' = None
      BY <1>6 DEF Replace, Fresh
    <2>2. pipe'[gate'] = << >>
      BY <1>6, NewSessionShowsNothing
    <2>3. Outstanding' = {} /\ InOrder(pipe'[gate'])
      BY <2>1, <2>2 DEF Outstanding, Untold, AppliedIn, InOrder
    <2>4. QED
      BY <2>1, <2>3 DEF Reported, Remembered
  <1>7. ASSUME (\E valid \in BOOLEAN : Poll(valid)) \/ (\E exits \in BOOLEAN : BuildFails(exits))
               \/ StartsGpu
        PROVE  Reported' /\ Remembered'
    <2>1. /\ Running /\ AppliedIn(pipe'[gate]) = AppliedIn(pipe[gate])
          /\ InOrder(pipe[gate]) => InOrder(pipe'[gate])
          /\ UNCHANGED <<gate, reader, shown, status>>
      BY <1>7, PollEffect, BuildFailsEffect, StartsGpuEffect
    <2>2. QED
      BY <1>1, <2>1 DEF ShownHere
  <1>8. ASSUME Running, NEW gen \in Nat, NEW spec, NEW x, NEW event, x.gen = gen, event.gen = gen,
               ShownHere' = ShownHere \cup {x}, \A y \in ShownHere : y.gen < gen,
               AppliedIn(pipe'[gate]) = AppliedIn(pipe[gate]) \cup {event},
               InOrder(pipe[gate]) /\ (\A e \in AppliedIn(pipe[gate]) : e.gen < gen)
                    => InOrder(pipe'[gate]),
               UNCHANGED <<gate, reader, status>>
        PROVE  Reported' /\ Remembered'
    <2>1. Reported /\ Remembered /\ status.applied < gen /\ \A e \in Outstanding : e.gen < gen
      BY <1>8, NextIsNewer
    <2>2. Untold' = Untold \cup {event} /\ Outstanding' = Outstanding \cup {event}
      BY <1>8 DEF Outstanding, Untold
    <2>3. InOrder(pipe'[gate])
      BY <1>8, <2>1 DEF Reported, Outstanding, Untold
    <2>4. \A e \in Outstanding' : e.gen > status.applied /\ \E y \in ShownHere' : y.gen = e.gen
      BY <1>8, <2>1, <2>2 DEF Reported
    <2>5. reader # None => reader.event.gen < gen
      BY <2>1 DEF Outstanding
    <2>6. Reported'
      BY <1>8, <2>1, <2>2, <2>3, <2>4, <2>5 DEF Reported
    <2>7. Remembered'
      BY <1>8, <2>1 DEF Remembered
    <2>8. QED
      BY <2>6, <2>7
  <1>9. ASSUME NEW valid \in BOOLEAN, Install(valid) PROVE Reported' /\ Remembered'
    <2> DEFINE request == child.building.request
               x == [session |-> gate, gen |-> request.gen, spec |-> request.spec]
               event == Applied(request.gen, request.spec, child.building.outs)
    <2>1. /\ Running /\ request \in Update /\ BuildingOf(child) = {request}
          /\ ShownHere' = ShownHere \cup {x}
          /\ AppliedIn(pipe'[gate]) = AppliedIn(pipe[gate]) \cup {event}
          /\ InOrder(pipe[gate]) /\ (\A e \in AppliedIn(pipe[gate]) : e.gen < request.gen)
                    => InOrder(pipe'[gate])
          /\ UNCHANGED <<gate, reader, status>>
      BY <1>9, InstallEffect
    <2>2. x.gen = request.gen /\ event.gen = request.gen
      BY DEF Applied
    <2> HIDE DEF x, event, request
    <2>3. request.gen \in Nat /\ \A y \in ShownHere : y.gen < request.gen
      BY <2>1 DEF Queued, Line, Before, Update
    <2>4. QED
      BY <1>8, <2>1, <2>2, <2>3
  <1>10. ASSUME StartsCpu PROVE Reported' /\ Remembered'
    <2> DEFINE x == [session |-> gate, gen |-> 0, spec |-> child.spec]
               event == Applied(0, child.spec, Outputs)
    <2>1. /\ Running /\ child # None /\ child.mode = "starting"
          /\ ShownHere' = ShownHere \cup {x}
          /\ AppliedIn(pipe'[gate]) = AppliedIn(pipe[gate]) \cup {event}
          /\ InOrder(pipe[gate]) /\ (\A e \in AppliedIn(pipe[gate]) : e.gen < 0)
                    => InOrder(pipe'[gate])
          /\ UNCHANGED <<gate, reader, status>>
      BY <1>10, StartsCpuEffect
    <2>2. x.gen = 0 /\ event.gen = 0
      BY DEF Applied
    <2> HIDE DEF x, event
    <2>3. 0 \in Nat /\ \A y \in ShownHere : y.gen < 0
      BY <2>1 DEF Queued, Modes
    <2>4. QED
      BY <1>8, <2>1, <2>2, <2>3
  <1>11. ASSUME NEW session \in Sessions, ReaderEnds(session) PROVE Reported' /\ Remembered'
    <2>1. /\ gate # session /\ pipe' = [pipe EXCEPT ![session] = << >>]
          /\ UNCHANGED <<slicer, gate, reader, shown, status>>
      BY <1>11 DEF ReaderEnds, MayPublish, manager
    <2>2. Running /\ pipe'[gate] = pipe[gate]
      <3>1. Running /\ TypedReports
        BY <2>1, TypedParts DEF Running
      <3>2. gate \in DOMAIN pipe
        BY <3>1, KnownIsTyped DEF Sessions
      <3>3. QED
        BY <2>1, <3>1, <3>2 DEF TypedReports
    <2>3. QED
      BY <1>1, <2>1, <2>2 DEF ShownHere
  <1>12. ASSUME NEW session \in Sessions, Read(session) PROVE Reported' /\ Remembered'
    <2> DEFINE event == Head(pipe[gate])
    <2>1. /\ gate = session /\ Running /\ reader = None /\ pipe[gate] # << >>
          /\ pipe[gate] \in Seq(AnyEvent) /\ pipe'[gate] = Tail(pipe[gate])
      BY <1>12, ReadEffect
    <2>2. UNCHANGED <<gate, shown>> /\ Reported /\ Remembered
      BY <1>12, <2>1 DEF Read
    <2>3. /\ AppliedIn(pipe[gate]) = AppliedIn(pipe'[gate])
                               \cup (IF event.kind = "applied" THEN {event} ELSE {})
          /\ InOrder(pipe[gate]) => /\ InOrder(pipe'[gate])
                                    /\ event.kind = "applied" =>
                                         \A e \in AppliedIn(pipe'[gate]) : event.gen < e.gen
      BY <2>1, FirstReport
    <2>4. CASE event.kind = "applied"
      <3>1. status' = status /\ reader' # None /\ reader'.event = event
        BY <1>12, <2>1, <2>4, ReadEffect
      <3> HIDE DEF event
      <3>2. Outstanding' = Outstanding
        BY <2>1, <2>2, <2>3, <2>4, <3>1 DEF Outstanding, Untold
      <3>3. Reported'
        BY <2>1, <2>2, <2>3, <2>4, <3>1, <3>2 DEF Reported, Untold, ShownHere
      <3>4. Remembered'
        BY <2>2, <3>1 DEF Remembered, ShownHere
      <3>5. QED
        BY <3>3, <3>4
    <2>5. CASE event.kind # "applied"
      <3>1. /\ reader' = None /\ status'.session = gate /\ status'.applied = status.applied
            /\ status'.claimed = status.claimed
        BY <1>12, <2>1, <2>5, ReadEffect
      <3> HIDE DEF event
      <3>2. QED
        BY <1>1, <2>1, <2>2, <2>3, <2>5, <3>1 DEF ShownHere
    <2>6. QED
      BY <2>4, <2>5
  <1>13. ASSUME Book PROVE Reported' /\ Remembered'
    <2>1. /\ Running /\ reader # None /\ reader' = None /\ reader.event \in AppliedEvent /\ pipe' = pipe
          /\ status'.session = gate /\ status'.applied = Later(status.applied, reader.event.gen)
          /\ UNCHANGED <<gate, shown>>
      BY <1>13, BookEffect DEF Book
    <2>2. Reported /\ Remembered /\ gate \in Nat /\ status.applied \in Nat \cup {NoGen}
      BY <2>1, KnownIsTyped
    <2>3. reader.event \in Outstanding /\ reader.event.gen \in Nat /\ reader.event.gen > status.applied
      BY <2>1, <2>2 DEF Outstanding, AppliedEvent, Reported
    <2>4. status'.applied = reader.event.gen
      BY <2>1, <2>2, <2>3 DEF Later, NoGen
    <2>5. Outstanding' = Untold /\ Untold' = Untold /\ ShownHere' = ShownHere
      BY <2>1 DEF Outstanding, Untold, ShownHere
    <2>6. \A e \in Untold : e.gen > reader.event.gen /\ \E x \in ShownHere : x.gen = e.gen
      BY <2>1, <2>2 DEF Reported, Outstanding
    <2>7. Reported'
      BY <2>1, <2>2, <2>4, <2>5, <2>6 DEF Reported
    <2>8. Remembered'
      BY <2>1, <2>2, <2>3, <2>4, <2>5, ProjectionAssumption DEF Remembered, Reported
    <2>9. QED
      BY <2>7, <2>8
  <1>14. ASSUME (\E replug \in BOOLEAN : StandDown(replug)) \/ SpawnFails PROVE Reported' /\ Remembered'
    BY <1>14 DEF StandDown, SpawnFails, Stop, Running
  <1>15. QED
    BY <1>3, <1>4, <1>5, <1>6, <1>7, <1>9, <1>10, <1>11, <1>12, <1>13, <1>14
       DEF Next, Begin, PassStep, WriterStep, ChildStep, ReaderStep

-----------------------------------------------------------------------------
(* Claims.                                                                 *)

(* A claim is made when a report is booked, for the configuration that was *)
(* recorded under its generation, or when a pass finds that what it wants  *)
(* is what was applied last: both times the generation stands for the wall *)
(* that the configuration asks for.                                        *)
LEMMA ClaimsStep ==
    ASSUME TypeOK, Running => Queued, Running => Interpreted, Running => Reported /\ Remembered,
           ClaimsWereShown, [Next]_vars
    PROVE  ClaimsWereShown'
  <1>1. TypedStatus /\ TypedDocs /\ TypedGate
    BY TypedParts
  <1>2. ASSUME status'.session = status.session, status'.applied = status.applied,
               status'.claimed = status.claimed, shown \subseteq shown',
               \A i \in Config : docs'[i] = docs[i]
        PROVE  ClaimsWereShown'
    <2>1. status.claimed # None => status.claimed \in Config
      BY <1>1 DEF TypedStatus, Optional
    <2>2. QED
      BY <1>2, <2>1 DEF ClaimsWereShown
  <1>3. ASSUME UNCHANGED <<docs, status>>, shown \subseteq shown' PROVE ClaimsWereShown'
    BY <1>2, <1>3
  <1>4. ASSUME Stop, UNCHANGED <<docs, shown>> PROVE ClaimsWereShown'
    <2>1. /\ status'.session = status.session /\ status'.applied = status.applied
          /\ status'.claimed = status.claimed
      BY <1>1, <1>4 DEF Stop, TypedStatus, Statuses
    <2>2. QED
      BY <1>2, <1>4, <2>1
  <1>5. ASSUME Touch \/ \E spec \in Optional(Specs) : Write(spec) PROVE ClaimsWereShown'
    <2>1. PICK spec : docs' = Append(docs, spec)
      BY <1>5 DEF Touch, Write
    <2>2. \A i \in Config : docs'[i] = docs[i]
      BY <1>1, <2>1 DEF TypedDocs, Config
    <2>3. UNCHANGED <<status, shown>>
      BY <1>5 DEF Touch, Write
    <2>4. QED
      BY <1>2, <2>2, <2>3
  <1>6. ASSUME NEW replug \in BOOLEAN, Correlate(replug) \/ Queue(replug) PROVE ClaimsWereShown'
    BY <1>3, <1>6 DEF Correlate, Queue
  <1>7. ASSUME NEW replug \in BOOLEAN, Replace(replug) PROVE ClaimsWereShown'
    BY <1>7 DEF Replace, Fresh, ClaimsWereShown
  <1>8. ASSUME Push PROVE ClaimsWereShown'
    BY <1>3, <1>4, <1>8 DEF Push, document
  <1>9. ASSUME Mark PROVE ClaimsWereShown'
    <2>1. /\ Running /\ pass.at = "mark" /\ status'.session = gate /\ status'.applied = status.applied
          /\ status'.claimed = (IF status.applied = Top THEN pass.cfg ELSE status.claimed)
          /\ UNCHANGED <<docs, gate, shown>>
      BY <1>9, MarkEffect
    <2>2. CASE status.applied = Top
      <3>1. Top # NoGen
        BY <2>1, KnownIsTyped DEF NoGen
      <3>2. PICK x \in ShownHere : x.gen = Top
        BY <2>1, <2>2, <3>1 DEF Remembered
      <3>3. x \in shown /\ x.session = gate
        BY <3>2 DEF ShownHere
      <3>4. PICK m \in [Nat -> Specs] : Meant(m)
        BY <2>1 DEF Interpreted
      <3>5. x.spec = m[Top] /\ docs[pass.cfg] = m[Top]
        BY <2>1, <3>2, <3>4 DEF Meant, Known
      <3>6. x = [session |-> gate, gen |-> status.applied, spec |-> docs[pass.cfg]]
        <4>1. x \in [session : Sessions, gen : Nat, spec : Specs]
          BY <3>3, TypedParts DEF TypedShown
        <4>2. QED
          BY <2>2, <3>2, <3>3, <3>5, <4>1
      <3>7. QED
        BY <2>1, <2>2, <3>3, <3>6 DEF ClaimsWereShown
    <2>3. CASE status.applied # Top
      BY <2>1, <2>3 DEF ClaimsWereShown, Remembered
    <2>4. QED
      BY <2>2, <2>3
  <1>10. ASSUME NEW session \in Sessions, Read(session) PROVE ClaimsWereShown'
    <2>1. Running /\ UNCHANGED <<docs, shown>>
      BY <1>10, ReadEffect DEF Read, document
    <2>2. CASE Head(pipe[session]).kind = "applied"
      BY <1>3, <1>10, <2>1, <2>2, ReadEffect
    <2>3. CASE Head(pipe[session]).kind # "applied"
      <3>1. /\ status'.session = gate /\ status'.applied = status.applied
            /\ status'.claimed = status.claimed
        BY <1>10, <2>3, ReadEffect
      <3>2. QED
        BY <2>1, <3>1 DEF ClaimsWereShown, Remembered
    <2>4. QED
      BY <2>2, <2>3
  <1>11. ASSUME Book PROVE ClaimsWereShown'
    <2> DEFINE event == reader.event
    <2>1. /\ Running /\ reader # None /\ event \in AppliedEvent /\ reader.cfg \in Optional(Config)
          /\ status'.session = gate /\ status'.applied = Later(status.applied, event.gen)
          /\ status'.claimed = (IF event.gen >= status.applied THEN reader.cfg ELSE status.claimed)
          /\ UNCHANGED <<docs, shown>>
      BY <1>11, BookEffect DEF Book, document
    <2>2. event \in Outstanding /\ event.gen > status.applied /\ event.gen \in Nat
          /\ status.applied \in Nat \cup {NoGen}
      BY <2>1, KnownIsTyped DEF Outstanding, Reported, AppliedEvent
    <2>3. status'.applied = event.gen /\ status'.claimed = reader.cfg
      BY <2>1, <2>2 DEF Later, NoGen
    <2>4. PICK x \in ShownHere : x.gen = event.gen
      BY <2>1, <2>2 DEF Reported
    <2>5. x \in shown /\ x.session = gate
      BY <2>4 DEF ShownHere
    <2>6. ASSUME reader.cfg # None PROVE x.spec = docs[reader.cfg]
      <3>1. PICK m \in [Nat -> Specs] : Meant(m)
        BY <2>1 DEF Interpreted
      <3>2. QED
        BY <2>1, <2>4, <2>6, <3>1 DEF Meant, Known
    <2>7. ASSUME reader.cfg # None
          PROVE  x = [session |-> gate, gen |-> event.gen, spec |-> docs[reader.cfg]]
      <3>1. x \in [session : Sessions, gen : Nat, spec : Specs]
        BY <2>5, TypedParts DEF TypedShown
      <3>2. QED
        BY <2>4, <2>5, <2>6, <2>7, <3>1
    <2>8. QED
      BY <2>1, <2>3, <2>5, <2>7 DEF ClaimsWereShown
  <1>12. ASSUME Notice \/ DirectTick \/ Rest \/ WriterStep \/ ChildStep \/ Exit
                \/ (\E session \in Sessions : ReaderEnds(session)) \/ UNCHANGED vars
         PROVE  ClaimsWereShown'
    BY <1>3, <1>12
       DEF Notice, DirectTick, Rest, WriterStep, WriterWrites, WriterFails, ChildStep, StartsGpu, StartsCpu,
           ReadControl, Poll, Install, BuildFails, Exit, ReaderEnds, document, vars
  <1>13. ASSUME (\E replug \in BOOLEAN : StandDown(replug)) \/ SpawnFails PROVE ClaimsWereShown'
    BY <1>4, <1>13 DEF StandDown, SpawnFails
  <1>14. QED
    BY <1>5, <1>6, <1>7, <1>8, <1>9, <1>10, <1>11, <1>12, <1>13
       DEF Next, Begin, PassStep, ReaderStep

\* What holds while a slicer runs.
Connected == Running => Queued /\ Interpreted /\ Reported /\ Remembered

LEMMA ConnectedInit == Init => Connected /\ ClaimsWereShown
  BY DEF Init, Connected, Running, Fresh, ClaimsWereShown

LEMMA ConnectedStep == TypeOK /\ Connected /\ [Next]_vars => Connected'
  <1> SUFFICES ASSUME TypeOK, Connected, [Next]_vars, Running'
               PROVE  Queued' /\ Interpreted' /\ Reported' /\ Remembered'
    BY DEF Connected
  <1>1. /\ Running => Queued
        /\ Running => Interpreted
        /\ Running => Reported
        /\ Running => Reported /\ Remembered
    BY DEF Connected
  <1>2. Queued'
    BY <1>1, QueuedStep
  <1>3. Interpreted'
    BY <1>1, InterpretedStep
  <1>4. Reported' /\ Remembered'
    BY <1>1, ReportedStep
  <1>5. QED
    BY <1>2, <1>3, <1>4

(* A configuration is reported as applied only if the named session has    *)
(* installed the wall it asks for as the generation reported as applied:   *)
(* not one coalesced away, refused, or of the child before.                *)
THEOREM ClaimsAreTrue == Spec => []ClaimsWereShown
  <1>1. Init => TypeOK /\ Connected /\ ClaimsWereShown
    BY TypedInit, ConnectedInit
  <1>2. TypeOK /\ Connected /\ ClaimsWereShown /\ [Next]_vars => (TypeOK /\ Connected /\ ClaimsWereShown)'
    <2> SUFFICES ASSUME TypeOK, Connected, ClaimsWereShown, [Next]_vars
                 PROVE  TypeOK' /\ Connected' /\ ClaimsWereShown'
      OBVIOUS
    <2>1. /\ Running => Queued
          /\ Running => Interpreted
          /\ Running => Reported /\ Remembered
      BY DEF Connected
    <2>2. ClaimsWereShown'
      BY <2>1, ClaimsStep
    <2>3. QED
      BY <2>2, TypedStep, ConnectedStep
  <1>3. QED
    BY <1>1, <1>2, PTL DEF Spec

-----------------------------------------------------------------------------
(* Facts.                                                                  *)

(* The wall a child has up is the newest it installed, and the build under *)
(* way covers where the next one differs.                                  *)
LEMMA InstalledStep ==
    ASSUME TypeOK, Running => Queued, Running => Installed, [Next]_vars, Running'
    PROVE  Installed'
  <1>1. ASSUME Running, UNCHANGED <<gate, shown>>,
               child' # None => /\ child # None /\ child'.installed = child.installed
                                /\ child'.building # None =>
                                     \/ child'.building = child.building
                                     \/ child'.building.outs =
                                          Uncut(child', child'.building.request.spec)
        PROVE  Installed'
    <2>1. Installed /\ ShownHere' = ShownHere
      BY <1>1 DEF ShownHere
    <2>2. QED
      BY <1>1, <2>1 DEF Installed, Uncut
  <1>2. ASSUME UNCHANGED <<slicer, gate, shown>>, child' = child \/ child' = None PROVE Installed'
    <2>1. Running
      BY <1>2 DEF Running
    <2>2. QED
      BY <1>1, <1>2, <2>1
  <1>3. ASSUME Touch \/ (\E spec \in Optional(Specs) : Write(spec)) \/ Notice \/ DirectTick \/ Rest
               \/ WriterStep \/ Exit \/ ReaderStep \/ UNCHANGED vars
        PROVE  Installed'
    BY <1>2, <1>3 DEF Touch, Write, Notice, DirectTick, Rest, WriterStep, WriterWrites, WriterFails, Exit,
                      ReaderStep, Read, Book, ReaderEnds, vars, manager
  <1>4. ASSUME (\E replug \in BOOLEAN : Correlate(replug) \/ Queue(replug)) \/ Push \/ Mark
        PROVE  Installed'
    <2>1. Running /\ UNCHANGED <<gate, shown, child>>
      BY <1>4, CorrelateEffect, QueueEffect, PushEffect, MarkEffect
    <2>2. QED
      BY <1>1, <2>1
  <1>5. ASSUME NEW replug \in BOOLEAN, Replace(replug) PROVE Installed'
    <2>1. ShownHere' = {} /\ child'.installed = Nothing /\ child'.building = None
      BY <1>5, NewSessionShowsNothing DEF Replace
    <2>2. QED
      BY <2>1 DEF Installed
  <1>6. ASSUME NEW valid \in BOOLEAN, Poll(valid) PROVE Installed'
    BY <1>1, <1>6, PollEffect
  <1>7. ASSUME NEW exits \in BOOLEAN, BuildFails(exits) PROVE Installed'
    <2>1. /\ Running /\ child # None /\ UNCHANGED <<gate, shown>>
          /\ exits => child' = None
          /\ ~exits => /\ child'.installed = child.installed
                       /\ child'.building # None =>
                            child'.building.outs = Uncut(child', child'.building.request.spec)
      BY <1>7, BuildFailsEffect
    <2>2. QED
      BY <1>1, <2>1
  <1>8. ASSUME StartsGpu PROVE Installed'
    <2>1. /\ Running /\ child # None /\ child.mode = "starting" /\ UNCHANGED <<gate, shown>>
          /\ child'.installed = child.installed
          /\ Held(child) = {} => child'.building.outs = Uncut(child', child'.building.request.spec)
      BY <1>8, StartsGpuEffect
    <2>2. Held(child) = {}
      BY <2>1 DEF Queued, Modes
    <2>3. QED
      BY <1>1, <2>1, <2>2
  <1>9. ASSUME ReadControl PROVE Installed'
    BY <1>1, <1>9, ReadControlEffect
  <1>10. ASSUME NEW x, ShownHere' = ShownHere \cup {x}, x.gen \in Nat, \A y \in ShownHere : y.gen < x.gen,
                child'.installed = x.spec.cut,
                child'.building # None =>
                    child'.building.outs = Uncut(child', child'.building.request.spec),
                Running
         PROVE  Installed'
    <2>1. \A y \in ShownHere' : y.gen <= x.gen
      BY <1>10, KnownIsTyped
    <2>2. QED
      BY <1>10, <2>1 DEF Installed, Uncut
  <1>11. ASSUME NEW valid \in BOOLEAN, Install(valid) PROVE Installed'
    <2> DEFINE request == child.building.request
               x == [session |-> gate, gen |-> request.gen, spec |-> request.spec]
               outs == child.building.outs
    <2>1. /\ Running /\ child \in Child /\ child # None /\ child.building # None
          /\ request \in Update /\ BuildingOf(child) = {request}
          /\ ShownHere' = ShownHere \cup {x}
          /\ child'.installed = [o \in Outputs |-> IF o \in outs THEN request.spec.cut[o]
                                                   ELSE child.installed[o]]
          /\ child'.building # None =>
                child'.building.outs = Uncut(child', child'.building.request.spec)
      BY <1>11, InstallEffect
    <2>2. request.gen \in Nat /\ request.spec \in Specs /\ \A y \in ShownHere : y.gen < request.gen
      BY <2>1 DEF Queued, Line, Before, Update
    <2>3. outs = {o \in Outputs : child.installed[o] # request.spec.cut[o]}
      BY <2>1 DEF Installed, Uncut
    <2>4. request.spec.cut \in [Outputs -> Cuts]
      BY <2>2, CutsOfSpecs
    <2>5. x.gen = request.gen /\ x.spec = request.spec
      OBVIOUS
    <2> HIDE DEF request, x, outs
    <2>6. child'.installed = x.spec.cut
      BY <2>1, <2>3, <2>4, <2>5
    <2>7. QED
      BY <1>10, <2>1, <2>2, <2>5, <2>6
  <1>12. ASSUME StartsCpu PROVE Installed'
    <2> DEFINE x == [session |-> gate, gen |-> 0, spec |-> child.spec]
    <2>1. /\ Running /\ child # None /\ child \in Child /\ child.mode = "starting"
          /\ child'.installed = child.spec.cut /\ child'.building = child.building
          /\ ShownHere' = ShownHere \cup {x}
      BY <1>12, StartsCpuEffect
    <2>2. child.building = None /\ ShownHere = {}
      BY <2>1 DEF Queued, Modes, Held, BuildingOf
    <2>3. x.gen = 0 /\ x.spec = child.spec
      OBVIOUS
    <2> HIDE DEF x
    <2>4. QED
      BY <1>10, <2>1, <2>2, <2>3
  <1>13. ASSUME (\E replug \in BOOLEAN : StandDown(replug)) \/ SpawnFails PROVE Installed'
    BY <1>13 DEF StandDown, SpawnFails, Stop, Running
  <1>14. QED
    BY <1>3, <1>4, <1>5, <1>6, <1>7, <1>8, <1>9, <1>11, <1>12, <1>13
       DEF Next, Begin, PassStep, ChildStep

(* Applying a report that is newer than all before it.                     *)
LEMMA CarriedByInstall ==
    ASSUME TypeOK, Running, Queued, Reported, Remembered, Installed, Carried,
           child # None, child \in Child,
           NEW x, x.gen \in Nat, x.spec \in Specs, \A y \in ShownHere : y.gen < x.gen,
           NEW event, event.gen = x.gen,
           NEW outs, \A o \in Outputs : event.facts[o] = IF o \in outs THEN x.spec.cut[o] ELSE None,
           \A o \in Outputs : o \in outs \/ child.installed[o] = x.spec.cut[o],
           ShownHere' = ShownHere \cup {x}, Outstanding' = Outstanding \cup {event},
           status' = status
    PROVE  Carried'
  <1>1. /\ status.applied < x.gen /\ \A e \in Outstanding : e.gen < x.gen
        /\ status.applied \in Nat \cup {NoGen}
        /\ \A y \in ShownHere : y.gen \in Nat
    BY NextIsNewer, KnownIsTyped
  <1>2. \A o \in Outputs : x.spec.cut[o] # None
    BY CutsOfSpecs
  <1>3. ASSUME NEW v, NEW g, NEW o \in Outputs, g = NoGen \/ (\E y \in ShownHere : y.gen = g),
               g < x.gen, Holds(v, g, o)
        PROVE  Holds(v, g, o)'
    <2>1. SUFFICES ASSUME v # None, NEW y \in ShownHere', y.gen >= g, y.spec.cut[o] # v
                   PROVE  \E e \in Outstanding' : g < e.gen /\ e.gen <= y.gen /\ e.facts[o] # None
      BY Zenon DEF Holds
    <2>2. CASE y \in ShownHere
      BY <1>3, <2>1, <2>2 DEF Holds
    <2>3. CASE y = x /\ o \in outs
      BY <1>2, <1>3, <2>3
    <2>4. CASE y = x /\ o \notin outs
      <3>1. child.installed[o] = x.spec.cut[o]
        BY <2>4
      <3>2. ShownHere # {}
        BY <1>2, <3>1 DEF Installed, Nothing
      <3>3. PICK t \in ShownHere : (\A z \in ShownHere : z.gen <= t.gen) /\ child.installed = t.spec.cut
        BY <3>2 DEF Installed
      <3>4. t.gen >= g /\ t.spec.cut[o] # v
        BY <1>1, <1>3, <2>1, <2>4, <3>1, <3>3 DEF NoGen
      <3>5. PICK e \in Outstanding : g < e.gen /\ e.gen <= t.gen /\ e.facts[o] # None
        BY <1>3, <2>1, <3>4 DEF Holds
      <3>6. e.gen <= y.gen
        <4>1. e.gen \in Nat /\ e.gen < x.gen
          BY <1>1, <3>5 DEF Reported
        <4>2. QED
          BY <2>4, <4>1
      <3>7. QED
        BY <3>5, <3>6
    <2>5. QED
      BY <2>2, <2>3, <2>4
  <1>4. \A o \in Outputs : Holds(event.facts[o], event.gen, o)'
    <2>1. SUFFICES ASSUME NEW o \in Outputs, event.facts[o] # None, NEW y \in ShownHere', y.gen >= x.gen
                   PROVE  y.spec.cut[o] = event.facts[o]
      BY Zenon DEF Holds
    <2>2. y = x
      BY <1>1, <2>1
    <2>3. QED
      BY <2>1, <2>2
  <1>5. \A o \in Outputs : Holds(status.facts[o], status.applied, o)'
    BY <1>1, <1>3 DEF Carried, Remembered
  <1>6. \A o \in Outputs, e \in Outstanding : Holds(e.facts[o], e.gen, o)'
    BY <1>1, <1>3 DEF Carried, Reported
  <1>7. QED
    BY <1>4, <1>5, <1>6 DEF Carried

(* What was reported of an output stays true of the newer walls, until it  *)
(* is reported again: a build leaves out what it does not change.          *)
LEMMA CarriedStep ==
    ASSUME TypeOK, Running => Queued, Running => Reported /\ Remembered,
           Running => Installed /\ Carried, [Next]_vars, Running'
    PROVE  Carried'
  <1>1. ASSUME Running, UNCHANGED <<gate, shown, reader>>, AppliedIn(pipe'[gate]) = AppliedIn(pipe[gate]),
               status'.facts = status.facts, status'.applied = status.applied
        PROVE  Carried'
    <2>1. Carried /\ ShownHere' = ShownHere /\ Outstanding' = Outstanding
      BY <1>1 DEF ShownHere, Outstanding, Untold
    <2>2. QED
      BY <1>1, <2>1 DEF Carried, Holds
  <1>2. ASSUME UNCHANGED <<slicer, gate, reader, pipe, shown, status>> PROVE Carried'
    BY <1>1, <1>2 DEF Running
  <1>3. ASSUME Touch \/ (\E spec \in Optional(Specs) : Write(spec)) \/ Notice \/ DirectTick \/ Rest
               \/ WriterStep \/ ReadControl \/ Exit \/ UNCHANGED vars
        PROVE  Carried'
    BY <1>2, <1>3 DEF Touch, Write, Notice, DirectTick, Rest, WriterStep, WriterWrites, WriterFails,
                      ReadControl, Exit, vars, manager, reports
  <1>4. ASSUME (\E replug \in BOOLEAN : Correlate(replug) \/ Queue(replug)) \/ Push \/ Mark
        PROVE  Carried'
    <2>1. /\ Running /\ UNCHANGED <<gate, shown, reader, pipe>>
          /\ status'.facts = status.facts /\ status'.applied = status.applied
      BY <1>4, CorrelateEffect, QueueEffect, PushEffect, MarkEffect DEF reports
    <2>2. QED
      BY <1>1, <2>1
  <1>5. ASSUME NEW replug \in BOOLEAN, Replace(replug) PROVE Carried'
    <2>1. ShownHere' = {}
      BY <1>5, NewSessionShowsNothing
    <2>2. QED
      BY <2>1 DEF Carried, Holds
  <1>6. ASSUME (\E valid \in BOOLEAN : Poll(valid)) \/ (\E exits \in BOOLEAN : BuildFails(exits))
               \/ StartsGpu
        PROVE  Carried'
    <2>1. /\ Running /\ UNCHANGED <<gate, shown, reader, status>>
          /\ AppliedIn(pipe'[gate]) = AppliedIn(pipe[gate])
      BY <1>6, PollEffect, BuildFailsEffect, StartsGpuEffect
    <2>2. QED
      BY <1>1, <2>1
  <1>7. ASSUME NEW valid \in BOOLEAN, Install(valid) PROVE Carried'
    <2> DEFINE request == child.building.request
               x == [session |-> gate, gen |-> request.gen, spec |-> request.spec]
               outs == child.building.outs
               event == Applied(request.gen, request.spec, outs)
    <2>1. /\ Running /\ child \in Child /\ child # None /\ child.building # None
          /\ request \in Update /\ BuildingOf(child) = {request}
          /\ ShownHere' = ShownHere \cup {x}
          /\ AppliedIn(pipe'[gate]) = AppliedIn(pipe[gate]) \cup {event}
          /\ UNCHANGED <<gate, reader, status>>
      BY <1>7, InstallEffect
    <2>2. request.gen \in Nat /\ request.spec \in Specs /\ \A y \in ShownHere : y.gen < request.gen
      BY <2>1 DEF Queued, Line, Before, Update
    <2>3. \A o \in Outputs : o \in outs \/ child.installed[o] = request.spec.cut[o]
      BY <2>1 DEF Installed, Uncut
    <2>4. /\ event.gen = request.gen
          /\ \A o \in Outputs : event.facts[o] = IF o \in outs THEN request.spec.cut[o] ELSE None
      BY <2>2, AppliedIsAnEvent
    <2>5. x.gen = request.gen /\ x.spec = request.spec
      OBVIOUS
    <2> HIDE DEF request, x, outs, event
    <2>6. Outstanding' = Outstanding \cup {event}
      BY <2>1 DEF Outstanding, Untold
    <2>7. /\ Running /\ Queued /\ Reported /\ Remembered /\ Installed /\ Carried
          /\ child \in Child /\ child # None /\ ShownHere' = ShownHere \cup {x} /\ status' = status
      BY <2>1
    <2>8. /\ x.gen \in Nat /\ x.spec \in Specs /\ \A y \in ShownHere : y.gen < x.gen
          /\ event.gen = x.gen
          /\ \A o \in Outputs : /\ event.facts[o] = IF o \in outs THEN x.spec.cut[o] ELSE None
                                /\ o \in outs \/ child.installed[o] = x.spec.cut[o]
      BY <2>2, <2>3, <2>4, <2>5
    <2>9. QED
      BY <2>6, <2>7, <2>8, CarriedByInstall
  <1>8. ASSUME StartsCpu PROVE Carried'
    <2> DEFINE x == [session |-> gate, gen |-> 0, spec |-> child.spec]
               event == Applied(0, child.spec, Outputs)
    <2>1. /\ Running /\ child \in Child /\ child # None /\ child.mode = "starting" /\ child.spec \in Specs
          /\ ShownHere' = ShownHere \cup {x}
          /\ AppliedIn(pipe'[gate]) = AppliedIn(pipe[gate]) \cup {event}
          /\ UNCHANGED <<gate, reader, status>>
      BY <1>8, StartsCpuEffect
    <2>2. ShownHere = {}
      BY <2>1 DEF Queued, Modes
    <2>3. event.gen = 0 /\ \A o \in Outputs : event.facts[o] = child.spec.cut[o]
      BY <2>1, AppliedIsAnEvent
    <2>4. x.gen = 0 /\ x.spec = child.spec
      OBVIOUS
    <2> HIDE DEF x, event
    <2>5. Outstanding' = Outstanding \cup {event}
      BY <2>1 DEF Outstanding, Untold
    <2> DEFINE outs == Outputs
    <2>6. \A o \in Outputs : /\ event.facts[o] = IF o \in outs THEN x.spec.cut[o] ELSE None
                             /\ o \in outs \/ child.installed[o] = x.spec.cut[o]
      BY <2>3, <2>4
    <2> HIDE DEF outs
    <2>7. QED
      BY <2>1, <2>2, <2>3, <2>4, <2>5, <2>6, CarriedByInstall
  <1>9. ASSUME NEW session \in Sessions, ReaderEnds(session) PROVE Carried'
    <2>1. /\ gate # session /\ pipe' = [pipe EXCEPT ![session] = << >>]
          /\ UNCHANGED <<slicer, gate, reader, shown, status>>
      BY <1>9 DEF ReaderEnds, MayPublish, manager
    <2>2. Running /\ TypedReports
      BY <2>1, TypedParts DEF Running
    <2>3. gate \in DOMAIN pipe
      BY <2>2, KnownIsTyped DEF Sessions
    <2>4. pipe'[gate] = pipe[gate]
      BY <2>1, <2>2, <2>3 DEF TypedReports
    <2>5. QED
      BY <1>1, <2>1, <2>2, <2>4
  <1>10. ASSUME NEW session \in Sessions, Read(session) PROVE Carried'
    <2> DEFINE event == Head(pipe[gate])
    <2>1. /\ gate = session /\ Running /\ reader = None /\ pipe[gate] # << >>
          /\ pipe[gate] \in Seq(AnyEvent) /\ pipe'[gate] = Tail(pipe[gate])
          /\ UNCHANGED <<gate, shown>>
      BY <1>10, ReadEffect DEF Read
    <2>2. AppliedIn(pipe[gate]) = AppliedIn(pipe'[gate])
                               \cup (IF event.kind = "applied" THEN {event} ELSE {})
      BY <2>1, FirstReport
    <2>3. /\ event.kind = "applied" => status' = status /\ reader' # None /\ reader'.event = event
          /\ event.kind # "applied" => /\ reader' = None /\ status'.facts = status.facts
                                       /\ status'.applied = status.applied
      BY <1>10, <2>1, ReadEffect
    <2> HIDE DEF event
    <2>4. Outstanding' = Outstanding /\ ShownHere' = ShownHere
      BY <2>1, <2>2, <2>3 DEF Outstanding, Untold, ShownHere
    <2>5. status'.facts = status.facts /\ status'.applied = status.applied
      BY <2>3
    <2>6. QED
      BY <2>1, <2>4, <2>5 DEF Carried, Holds
  <1>11. ASSUME Book PROVE Carried'
    <2> DEFINE event == reader.event
    <2>1. /\ Running /\ reader # None /\ reader' = None /\ event \in AppliedEvent /\ pipe' = pipe
          /\ status'.applied = Later(status.applied, event.gen)
          /\ status'.facts = Overlaid(event.facts, status.facts)
          /\ UNCHANGED <<gate, shown>>
      BY <1>11, BookEffect DEF Book
    <2>2. /\ Reported /\ Carried /\ event \in Outstanding /\ event.gen \in Nat
          /\ event.gen > status.applied /\ status.applied \in Nat \cup {NoGen}
      BY <2>1, KnownIsTyped DEF Outstanding, AppliedEvent, Reported
    <2>3. status'.applied = event.gen
      BY <2>1, <2>2 DEF Later, NoGen
    <2>4. /\ Outstanding' = Untold /\ Outstanding = Untold \cup {event} /\ ShownHere' = ShownHere
          /\ \A e \in Untold : event.gen < e.gen
      BY <2>1, <2>2 DEF Outstanding, Untold, ShownHere, Reported
    <2>5. \A y \in ShownHere : y.gen \in Nat
      BY <2>1, KnownIsTyped
    <2>6. \A e \in Untold : e.gen \in Nat
      BY <2>2, <2>4, <2>5 DEF Reported
    <2> HIDE DEF event
    <2>7. ASSUME NEW v, NEW g \in Nat, NEW o \in Outputs, Holds(v, g, o), g >= event.gen
          PROVE  Holds(v, g, o)'
      <3>1. \A e \in Outstanding : g < e.gen => e \in Outstanding'
        BY <2>2, <2>4, <2>7
      <3>2. QED
        BY <2>4, <2>7, <3>1 DEF Holds
    <2>8. \A o \in Outputs, e \in Outstanding' : Holds(e.facts[o], e.gen, o)'
      BY <2>2, <2>4, <2>6, <2>7 DEF Carried
    <2>9. ASSUME NEW o \in Outputs PROVE Holds(status.facts[o], status.applied, o)'
      <3>1. status'.facts[o] = IF event.facts[o] # None THEN event.facts[o] ELSE status.facts[o]
        BY <2>1 DEF Overlaid
      <3>2. CASE event.facts[o] # None
        BY <2>2, <2>3, <2>7, <3>1, <3>2 DEF Carried
      <3>3. CASE event.facts[o] = None
        <4>1. SUFFICES ASSUME status.facts[o] # None, NEW y \in ShownHere, y.gen >= event.gen,
                              y.spec.cut[o] # status.facts[o]
                       PROVE  \E e \in Untold : event.gen < e.gen /\ e.gen <= y.gen /\ e.facts[o] # None
          BY <2>3, <2>4, <3>1, <3>3, Zenon DEF Holds
        <4>2. y.gen >= status.applied
          BY <2>2, <2>5, <4>1 DEF NoGen
        <4>3. PICK e \in Outstanding : e.gen <= y.gen /\ e.facts[o] # None
          BY <2>2, <4>1, <4>2 DEF Carried, Holds
        <4>4. QED
          BY <2>4, <3>3, <4>3
      <3>4. QED
        BY <3>2, <3>3
    <2>10. QED
      BY <2>8, <2>9 DEF Carried
  <1>12. ASSUME (\E replug \in BOOLEAN : StandDown(replug)) \/ SpawnFails PROVE Carried'
    BY <1>12 DEF StandDown, SpawnFails, Stop, Running
  <1>13. QED
    BY <1>3, <1>4, <1>5, <1>6, <1>7, <1>8, <1>9, <1>10, <1>11, <1>12
       DEF Next, Begin, PassStep, WriterStep, ChildStep, ReaderStep

\* What is known of the wall while a slicer runs.
Assembled == Running => Installed /\ Carried

LEMMA FactsFit ==
    TypeOK /\ StoppedSaysNothing /\ Connected /\ Assembled => FactsFitTheGeneration
  <1> SUFFICES ASSUME TypeOK, StoppedSaysNothing, Connected, Assembled,
                      NEW s \in shown, s.session = status.session, s.gen = status.applied,
                      NEW o \in Outputs, status.facts[o] # None
               PROVE  status.facts[o] = s.spec.cut[o]
    BY DEF FactsFitTheGeneration
  <1>1. Running
    BY DEF StoppedSaysNothing, Nothing, Running
  <1>2. s.session \in Nat /\ s.gen \in Nat
    BY TypedParts DEF TypedShown, TypedReports, Sessions
  <1>3. s \in ShownHere
    BY <1>1, <1>2, ProjectionAssumption DEF Connected, Remembered, ShownHere
  <1>4. Holds(status.facts[o], status.applied, o)
    BY <1>1 DEF Assembled, Carried
  <1>5. s.gen >= status.applied /\ \A e \in Outstanding : e.gen > status.applied
    BY <1>1, <1>2 DEF Connected, Reported
  <1>6. \A e \in Outstanding : e.gen \in Nat
    BY <1>1, KnownIsTyped DEF Connected, Reported
  <1>7. QED
    BY <1>2, <1>3, <1>4, <1>5, <1>6 DEF Holds

(* The mapping facts of a wall are pieced together from reports about the  *)
(* outputs that changed; beside the applied generation they describe one   *)
(* wall, the one that was installed as that generation.                    *)
THEOREM FactsAreOfOneWall == Spec => []FactsFitTheGeneration
  <1>1. Init => TypeOK /\ Connected /\ Assembled
    BY TypedInit, ConnectedInit DEF Init, Assembled, Running
  <1>2. TypeOK /\ Connected /\ Assembled /\ [Next]_vars => (TypeOK /\ Connected /\ Assembled)'
    <2> SUFFICES ASSUME TypeOK, Connected, Assembled, [Next]_vars
                 PROVE  TypeOK' /\ Connected' /\ Assembled'
      OBVIOUS
    <2>1. TypeOK' /\ Connected'
      BY TypedStep, ConnectedStep
    <2>2. SUFFICES ASSUME Running' PROVE Installed' /\ Carried'
      BY <2>1 DEF Assembled
    <2>3. /\ Running => Queued
          /\ Running => Reported /\ Remembered
          /\ Running => Installed
          /\ Running => Installed /\ Carried
      BY DEF Connected, Assembled
    <2>4. Installed'
      BY <2>2, <2>3, InstalledStep
    <2>5. Carried'
      BY <2>2, <2>3, CarriedStep
    <2>6. QED
      BY <2>4, <2>5
  <1>3. QED
    BY <1>1, <1>2, FactsFit, NothingAfterStop, PTL DEF Spec

-----------------------------------------------------------------------------
(* Claims never go back.                                                   *)

(* Newer generations were recorded for newer configurations, and what is   *)
(* claimed is no newer than the generation that it is claimed for.         *)
LEMMA OrderedStep ==
    ASSUME TypeOK, Running => Queued, Running => Reported /\ Remembered, Running => Claims,
           [Next]_vars, Running'
    PROVE  Claims'
  <1>1. TypedManager /\ TypedReports /\ TypedStatus /\ TypedDocs
    BY TypedParts
  <1>2. ASSUME Running, UNCHANGED <<gens, pass>>, reader' = reader \/ reader' = None,
               status'.applied = status.applied, status'.claimed = status.claimed
        PROVE  Claims'
    BY <1>2 DEF Claims
  <1>3. ASSUME UNCHANGED <<slicer, gens, pass, reader, status>> PROVE Claims'
    BY <1>2, <1>3 DEF Running
  <1>4. ASSUME Touch \/ (\E spec \in Optional(Specs) : Write(spec)) \/ Notice \/ DirectTick \/ Rest
               \/ WriterStep \/ ChildStep \/ Exit
               \/ (\E session \in Sessions : ReaderEnds(session)) \/ UNCHANGED vars
        PROVE  Claims'
    BY <1>3, <1>4 DEF Touch, Write, Notice, DirectTick, Rest, WriterStep, WriterWrites, WriterFails,
                      ChildStep, StartsGpu, StartsCpu, ReadControl, Poll, Install, BuildFails, Exit,
                      ReaderEnds, vars, manager, reports
  <1>5. ASSUME Running, NEW gen \in Nat, \A g \in DOMAIN gens : g <= gen,
               \A g \in DOMAIN gens' : IF g = gen THEN gens'[g] = Len(docs)
                                       ELSE g \in DOMAIN gens /\ gens'[g] = gens[g],
               pass'.cfg = Len(docs), reader' = reader, status' = status
        PROVE  Claims'
    <2>1. Claims /\ Len(docs) \in Nat /\ DOMAIN gens \subseteq Nat
          /\ (\A g \in DOMAIN gens : gens[g] \in Nat /\ gens[g] <= Len(docs))
      BY <1>1, <1>5 DEF TypedManager, TypedDocs, Config
    <2>2. (status.claimed # None => status.claimed <= Len(docs))
          /\ (reader # None /\ reader.cfg # None => reader.cfg <= Len(docs))
      BY <1>1, <2>1 DEF TypedStatus, TypedReports, Config, Optional
    <2>3. \A g \in DOMAIN gens' : gens'[g] <= Len(docs)
      BY <1>5, <2>1
    <2>4. \A g, h \in DOMAIN gens' : g < h => gens'[g] <= gens'[h]
      <3>1. SUFFICES ASSUME NEW g \in DOMAIN gens', NEW h \in DOMAIN gens', g < h
                     PROVE  gens'[g] <= gens'[h]
        OBVIOUS
      <3>2. CASE h = gen
        BY <1>5, <2>3, <3>2
      <3>3. CASE h # gen
        <4>1. h \in DOMAIN gens /\ h <= gen /\ gens'[h] = gens[h]
          BY <1>5, <3>3
        <4>2. g # gen
          BY <1>5, <2>1, <3>1, <4>1
        <4>3. QED
          BY <1>5, <2>1, <3>1, <4>1, <4>2 DEF Claims
      <3>4. QED
        BY <3>2, <3>3
    <2>5. status.claimed # None => \A g \in DOMAIN gens' : g > status.applied => status.claimed <= gens'[g]
      BY <1>5, <2>1, <2>2 DEF Claims
    <2>6. reader # None /\ reader.cfg # None =>
            /\ status.claimed # None => status.claimed <= reader.cfg
            /\ \A g \in DOMAIN gens' : g > reader.event.gen => reader.cfg <= gens'[g]
      BY <1>5, <2>1, <2>2 DEF Claims
    <2>7. QED
      BY <1>5, <2>2, <2>3, <2>4, <2>5, <2>6 DEF Claims
  <1>6. ASSUME NEW replug \in BOOLEAN, Correlate(replug) PROVE Claims'
    <2>1. /\ Running /\ pass'.cfg = Len(docs) /\ Top \in Nat /\ reader' = reader /\ status' = status
          /\ \A g \in DOMAIN gens' : IF g = Top THEN gens'[g] = Len(docs)
                                     ELSE g \in DOMAIN gens /\ gens'[g] = gens[g]
      BY <1>6, CorrelateEffect DEF Doing, reports
    <2>2. \A g \in DOMAIN gens : g <= Top
      BY <2>1 DEF Queued, Numbered
    <2>3. QED
      BY <1>5, <2>1, <2>2
  <1>7. ASSUME NEW replug \in BOOLEAN, Queue(replug) PROVE Claims'
    <2>1. /\ Running /\ pass'.cfg = Len(docs) /\ Top < nextGen /\ Top \in Nat /\ nextGen \in Nat
          /\ reader' = reader /\ status' = status
          /\ \A g \in DOMAIN gens' : IF g = nextGen THEN gens'[g] = Len(docs)
                                     ELSE g \in DOMAIN gens /\ gens'[g] = gens[g]
      BY <1>7, QueueEffect DEF Doing, reports
    <2>2. \A g \in DOMAIN gens : g <= nextGen
      BY <1>1, <2>1 DEF Queued, Numbered, TypedManager
    <2>3. QED
      BY <1>5, <2>1, <2>2
  <1>8. ASSUME NEW replug \in BOOLEAN, Replace(replug) PROVE Claims'
    <2>1. /\ gens' = [g \in {0} |-> Len(docs)] /\ status'.claimed = None /\ reader' = None
          /\ pass'.cfg = Len(docs)
      BY <1>8 DEF Replace, Fresh, Doing
    <2>2. Len(docs) \in Nat
      BY <1>1, WallIsADocument
    <2>3. QED
      BY <2>1, <2>2 DEF Claims
  <1>9. ASSUME Push PROVE Claims'
    <2>1. Running /\ pass'.cfg = pass.cfg /\ pass.at = "push" /\ UNCHANGED <<gens, reader, status>>
      BY <1>9, PushEffect DEF reports
    <2>2. QED
      BY <2>1 DEF Claims
  <1>10. ASSUME Mark PROVE Claims'
    <2>1. /\ Running /\ pass.at = "mark" /\ pass'.at = "idle" /\ Top \in Nat
          /\ status'.applied = status.applied
          /\ status'.claimed = (IF status.applied = Top THEN pass.cfg ELSE status.claimed)
          /\ UNCHANGED <<gens, reader>>
      BY <1>10, MarkEffect, KnownIsTyped DEF Idle, reports
    <2>2. CASE status.applied = Top
      <3>1. \A g \in DOMAIN gens : g <= Top /\ g \in Nat
        BY <1>1, <2>1 DEF Queued, Numbered, TypedManager
      <3>2. reader = None
        <4>1. SUFFICES ASSUME reader # None PROVE FALSE
          OBVIOUS
        <4>2. PICK x \in ShownHere : x.gen = reader.event.gen
          BY <2>1, <4>1 DEF Reported, Outstanding
        <4>3. reader.event.gen > status.applied
          BY <2>1, <4>1 DEF Reported, Outstanding
        <4>4. x.gen \in Nat /\ x.gen <= Top
          BY <2>1, <4>2, KnownIsTyped DEF Queued, Numbered, Known
        <4>5. QED
          BY <2>1, <2>2, <4>2, <4>3, <4>4
      <3>3. \A g \in DOMAIN gens : ~(g > status.applied)
        BY <2>1, <2>2, <3>1
      <3>4. QED
        BY <2>1, <3>2, <3>3 DEF Claims
    <2>3. CASE status.applied # Top
      BY <2>1, <2>3 DEF Claims
    <2>4. QED
      BY <2>2, <2>3
  <1>11. ASSUME NEW session \in Sessions, Read(session) PROVE Claims'
    <2> DEFINE event == Head(pipe[session])
    <2>1. /\ gate = session /\ Running /\ reader = None /\ pipe[session] # << >>
          /\ pipe[session] \in Seq(AnyEvent) /\ UNCHANGED <<gens, pass>>
      BY <1>11, ReadEffect DEF Read, manager
    <2>2. CASE event.kind = "applied"
      <3>1. /\ status' = status /\ reader' # None /\ reader'.event = event
            /\ reader'.cfg = ConfigFor(event.gen)
        BY <1>11, <2>2, ReadEffect
      <3>2. event \in Outstanding
        BY <2>1, <2>2, FirstReport DEF Outstanding, Untold
      <3> HIDE DEF event
      <3>3. event.gen > status.applied
        BY <2>1, <3>2 DEF Reported
      <3>4. reader'.cfg # None => event.gen \in DOMAIN gens /\ reader'.cfg = gens[event.gen]
        BY <3>1 DEF ConfigFor
      <3>5. QED
        BY <2>1, <3>1, <3>3, <3>4 DEF Claims
    <2>3. CASE event.kind # "applied"
      <3>1. reader' = None /\ status'.applied = status.applied /\ status'.claimed = status.claimed
        BY <1>11, <2>3, ReadEffect
      <3>2. QED
        BY <1>2, <2>1, <3>1
    <2>4. QED
      BY <2>2, <2>3
  <1>12. ASSUME Book PROVE Claims'
    <2> DEFINE event == reader.event
    <2>1. /\ Running /\ reader # None /\ reader' = None /\ event \in AppliedEvent
          /\ status'.applied = Later(status.applied, event.gen)
          /\ status'.claimed = (IF event.gen >= status.applied THEN reader.cfg ELSE status.claimed)
          /\ UNCHANGED <<gens, pass>>
      BY <1>12, BookEffect DEF Book, manager
    <2>2. event.gen > status.applied /\ event.gen \in Nat /\ status.applied \in Nat \cup {NoGen}
      BY <2>1, KnownIsTyped DEF Reported, Outstanding, AppliedEvent
    <2>3. status'.applied = event.gen /\ status'.claimed = reader.cfg
      BY <2>1, <2>2 DEF Later, NoGen
    <2>4. QED
      BY <2>1, <2>3 DEF Claims
  <1>13. ASSUME (\E replug \in BOOLEAN : StandDown(replug)) \/ SpawnFails PROVE Claims'
    BY <1>13 DEF StandDown, SpawnFails, Stop, Running
  <1>14. QED
    BY <1>4, <1>6, <1>7, <1>8, <1>9, <1>10, <1>11, <1>12, <1>13
       DEF Next, Begin, PassStep, ReaderStep

\* What was claimed is in order while a slicer runs.
Ordered == Running => Claims

LEMMA ForwardStep ==
    ASSUME TypeOK, Running => Queued, Running => Claims, [Next]_vars,
           status'.session = status.session, status.claimed \in Config, status'.claimed \in Config
    PROVE  status'.claimed >= status.claimed
  <1>1. status.claimed \in Nat /\ status'.claimed \in Nat /\ status.claimed # None /\ status'.claimed # None
    <2>1. Config \subseteq Nat /\ Config \subseteq Int
      BY TypedParts DEF TypedDocs, Config
    <2>2. QED
      BY <2>1, ProjectionAssumption
  <1>2. ASSUME status'.claimed = status.claimed PROVE status'.claimed >= status.claimed
    BY <1>1, <1>2
  <1>3. ASSUME Stop PROVE status'.claimed = status.claimed
    BY <1>3, TypedParts DEF Stop, TypedStatus, Statuses
  <1>4. ASSUME Touch \/ (\E spec \in Optional(Specs) : Write(spec)) \/ Notice \/ DirectTick \/ Rest
               \/ WriterStep \/ ChildStep \/ Exit
               \/ (\E session \in Sessions : ReaderEnds(session)) \/ UNCHANGED vars
        PROVE  status' = status
    BY <1>4 DEF Touch, Write, Notice, DirectTick, Rest, WriterStep, WriterWrites, WriterFails,
                ChildStep, StartsGpu, StartsCpu, ReadControl, Poll, Install, BuildFails, Exit,
                ReaderEnds, vars
  <1>5. ASSUME NEW replug \in BOOLEAN, Correlate(replug) \/ Queue(replug) PROVE status' = status
    BY <1>5 DEF Correlate, Queue
  <1>6. ASSUME (\E replug \in BOOLEAN : StandDown(replug)) \/ SpawnFails
        PROVE  status'.claimed = status.claimed
    BY <1>3, <1>6 DEF StandDown, SpawnFails
  <1>7. ASSUME Push PROVE status'.claimed = status.claimed
    BY <1>3, <1>7 DEF Push
  <1>8. ASSUME NEW replug \in BOOLEAN PROVE ~Replace(replug)
    BY <1>1 DEF Replace, Fresh
  <1>9. ASSUME Mark PROVE status'.claimed >= status.claimed
    <2>1. /\ Running /\ pass.at = "mark"
          /\ status'.claimed = (IF status.applied = Top THEN pass.cfg ELSE status.claimed)
      BY <1>9, MarkEffect
    <2>2. status.claimed <= pass.cfg
      BY <1>1, <2>1 DEF Claims
    <2>3. QED
      BY <1>1, <2>1, <2>2
  <1>10. ASSUME Book PROVE status'.claimed >= status.claimed
    <2>1. /\ Running /\ reader # None
          /\ status'.claimed = (IF reader.event.gen >= status.applied THEN reader.cfg ELSE status.claimed)
      BY <1>10, BookEffect
    <2>2. CASE reader.event.gen >= status.applied
      BY <1>1, <2>1, <2>2 DEF Claims
    <2>3. CASE ~(reader.event.gen >= status.applied)
      BY <1>1, <2>1, <2>3
    <2>4. QED
      BY <2>2, <2>3
  <1>11. ASSUME NEW session \in Sessions, Read(session) PROVE status'.claimed = status.claimed
    BY <1>11, ReadEffect
  <1>12. QED
    BY <1>2, <1>4, <1>5, <1>6, <1>7, <1>8, <1>9, <1>10, <1>11
       DEF Next, Begin, PassStep, ReaderStep

(* Within a session the configuration reported as applied never goes back, *)
(* however a late report and a pass that finds its wall applied interleave.*)
THEOREM ClaimsOnlyAdvance == Spec => ClaimsNeverGoBack
  <1>1. Init => TypeOK /\ Connected /\ Ordered
    BY TypedInit, ConnectedInit DEF Init, Ordered, Running
  <1>2. TypeOK /\ Connected /\ Ordered /\ [Next]_vars => (TypeOK /\ Connected /\ Ordered)'
    <2> SUFFICES ASSUME TypeOK, Connected, Ordered, [Next]_vars
                 PROVE  TypeOK' /\ Connected' /\ Ordered'
      OBVIOUS
    <2>1. TypeOK' /\ Connected'
      BY TypedStep, ConnectedStep
    <2>2. /\ Running => Queued
          /\ Running => Reported /\ Remembered
          /\ Running => Claims
      BY DEF Connected, Ordered
    <2>3. Running' => Claims'
      BY <2>2, OrderedStep
    <2>4. QED
      BY <2>1, <2>3 DEF Ordered
  <1>3. TypeOK /\ Connected /\ Ordered /\ [Next]_vars =>
          [status'.session = status.session /\ {status.claimed, status'.claimed} \subseteq Config
             => status'.claimed >= status.claimed]_vars
    <2>1. TypeOK /\ Connected /\ Ordered => (Running => Queued) /\ (Running => Claims)
      BY DEF Connected, Ordered
    <2>2. QED
      BY <2>1, ForwardStep
  <1>4. QED
    BY <1>1, <1>2, <1>3, PTL DEF Spec, ClaimsNeverGoBack
=============================================================================
