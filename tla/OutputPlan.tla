----------------------------- MODULE OutputPlan -----------------------------
(***************************************************************************)
(* src/reconciler/plan.rs, the output part of a pass in reconciler/mod.rs, *)
(* and the wallpapers: how the outputs are brought to what the document    *)
(* asks for by a planner that is told only half of what it has set, and    *)
(* how what a display settled on is pinned in the document.                *)
(*                                                                         *)
(* Sway reports whether an output is on, its mode and its position; what   *)
(* it does not report is compared with what was applied last.  The mode    *)
(* stands for the settings that can be adopted (scale and transform are    *)
(* the other two), tearing for those that are neither reported nor adopted *)
(* (max_render_time, the workspace), one resolution is all displays have.  *)
(* Requests, supersession and events in transit are those of Reconciler;   *)
(* here a request is one flag and a pass can be overtaken by one write.    *)
(***************************************************************************)
EXTENDS Integers, Sequences, FiniteSets, SequencesExt

CONSTANTS
    Connectors,  \* sockets of the graphics card; sway's names of the outputs
    Displays,    \* what can be plugged into them; their EDID identities
    Offers,      \* the refresh rates a display advertises
    Presets,     \* named backgrounds
    Images,      \* wallpaper ids
    Configs,     \* the documents a client may write
    Plugged,     \* what is plugged in when it all begins
    None,
    MaxEvents    \* bound: writes, uploads, plugs, glitches and failures

VARIABLES
    doc,         \* the live document
    requested,   \* a pass is requested
    stored,      \* wallpaper files: how often each was uploaded, 0 if it is not there
    real,        \* the outputs as they are
    seen,        \* the outputs as they were last queried
    pass,        \* the pass, and the document it works from
    applied,     \* what was applied last, per output
    history,     \* previous_observations
    status,      \* what the last pass published
    lost,        \* history: unreported settings whose last command did nothing
    events       \* how many the bound has counted

daemon == <<seen, pass, applied, history, status>>
vars == <<doc, requested, stored, real, daemon, lost, events>>

Optional(S) == S \cup {None}
Rates == UNION {Offers[d] : d \in Displays}
REFRESH_TOLERANCE_HZ == 1
Spots == {0, 1}

Pin == [mode : Nat, display : Displays]
Entry == [rule : Connectors \cup Displays, enable : BOOLEAN, mode : Optional(Nat),
          at : Optional(Spots), tearing : BOOLEAN, paper : Optional(Presets),
          adopted : Optional(Pin)]
Document == [outputs : Seq(Entry), presets : [Presets -> Images]]

\* What an output shows, and what is recorded as applied to it.
Picture == [id : Images, version : Nat]
Record == [tearing : BOOLEAN, paper : Optional(Presets), image : Optional(Images)]

\* What can be set on an output.
Settings == {"enable", "mode", "at", "tearing", "image"}

\* A pin is of a display that has the mode.
Fits(pin) == pin # None => pin.mode \in Offers[pin.display]

ASSUME OutputPlanAssumption ==
    /\ \A d \in Displays : /\ Offers[d] \subseteq Nat
                           /\ \E r \in Offers[d] : \A s \in Offers[d] : r >= s
    /\ Connectors \cap Displays = {}
    /\ None \notin Nat \cup Connectors \cup Displays \cup Presets \cup Images
    /\ None \notin BOOLEAN /\ None \notin Pin /\ None \notin Picture /\ None \notin Record
    /\ None \notin Nat \X Settings
    /\ Configs \subseteq Document
    /\ \A config \in Configs : \A i \in DOMAIN config.outputs : Fits(config.outputs[i].adopted)
    /\ Plugged \subseteq [Connectors -> Optional(Displays)]
    /\ MaxEvents \in Nat

-----------------------------------------------------------------------------
(* Displays and outputs.                                                   *)

Distance(a, b) == IF a >= b THEN a - b ELSE b - a

\* resolve_mode: the advertised rate nearest to the one asked for, if one is near.
ResolveMode(rates, wanted) ==
    LET near == {r \in rates : Distance(r, wanted) <= REFRESH_TOLERANCE_HZ} IN
    IF near = {} THEN None
    ELSE CHOOSE r \in near : \A s \in near : Distance(r, wanted) <= Distance(s, wanted)

Preferred(display) == CHOOSE r \in Offers[display] : \A s \in Offers[display] : r >= s

\* What sway makes of an output that is switched on: nothing is kept.
SwitchedOn(display) ==
    [display |-> display, active |-> TRUE,
     mode |-> IF display = None THEN None ELSE Preferred(display),
     at |-> 0, pinned |-> FALSE, tearing |-> FALSE, image |-> None]

Attached(c) == real[c].display # None

\* get_outputs: attached outputs only, and of one that is off only its identity.
View ==
    [c \in {k \in Connectors : Attached(k)} |->
        LET o == real[c] IN
        IF o.active THEN [display |-> o.display, active |-> TRUE, mode |-> o.mode, at |-> o.at]
        ELSE [display |-> o.display, active |-> FALSE, mode |-> None, at |-> None]]

\* OutputMatch::matches, by connector or by the identity of the display.
Matches(rule, c, display) == rule = c \/ rule = display

\* The first observed output that an entry selects.
OutputOf(entry, outputs) ==
    LET found == {c \in DOMAIN outputs : Matches(entry.rule, c, outputs[c].display)}
    IN IF found = {} THEN None ELSE CHOOSE c \in found : TRUE

EffectiveMode(entry) ==
    IF entry.mode = None /\ entry.adopted # None THEN entry.adopted.mode ELSE entry.mode

Background(d, entry) == IF entry.paper = None THEN None ELSE d.presets[entry.paper]

-----------------------------------------------------------------------------
(* The plan.                                                               *)

Divergence(kind, subject) == [kind |-> kind, subject |-> subject]

\* What a plan has sway set on an output; None where it leaves it.
Untouched == [enable |-> None, mode |-> None, at |-> None, tearing |-> None, image |-> None]
When(condition, value) == IF condition THEN value ELSE None

\* One slip: what is asked for is compared with what is reported, and not what it resolves to.
ModeDiffersFromRequest(current, target, wanted) == current # wanted

ModeDiffers(current, target, wanted) == current # target

Unmanaged == [tearing |-> None, paper |-> None, image |-> None]

\* One slip: the presets are compared by name.
RepaintsPreset(before, entry, image) == before.paper # entry.paper

\* An edited preset repaints the outputs that refer to it.
Repaints(before, entry, image) == before.image # image

\* The first time an output is managed everything is applied, even what happens
\* to be so already: sway moves what it was not told.
Forced(before, output) == before = Unmanaged \/ ~output.active

\* What one entry asks of its output, which is on or to be switched on.
PlanOn(d, entry, c) ==
    LET output == seen[c]
        before == IF c \in DOMAIN applied THEN applied[c] ELSE Unmanaged
        force == Forced(before, output)
        wanted == EffectiveMode(entry)
        \* One that is off reports no modes: sway gets what was asked for.
        target == IF wanted = None THEN None
                  ELSE IF output.active THEN ResolveMode(Offers[output.display], wanted)
                  ELSE wanted
        image == Background(d, entry)
        paint == image # None /\ (force \/ Repaints(before, entry, image))
    IN [to |-> c,
        set |-> [enable  |-> When(~output.active, TRUE),
                 mode    |-> When(force \/ ModeDiffers(output.mode, target, wanted), target),
                 at      |-> When(force \/ output.at # entry.at, entry.at),
                 tearing |-> When(force \/ before.tearing # entry.tearing, entry.tearing),
                 image   |-> When(paint /\ stored[image] > 0, image)],
        divergences |->
            (IF wanted # None /\ target = None THEN {Divergence("mode_unsupported", c)} ELSE {})
            \cup (IF paint /\ stored[image] = 0 THEN {Divergence("wallpaper_not_found", c)} ELSE {}),
        applied |-> [tearing |-> entry.tearing, paper |-> entry.paper, image |-> image]]

PlanEntry(d, entry) ==
    LET c == OutputOf(entry, seen) IN
    IF c = None
    THEN [to |-> None, set |-> Untouched, applied |-> None,
          divergences |-> {Divergence("output_not_connected", entry.rule)}]
    ELSE IF entry.enable THEN PlanOn(d, entry, c)
    ELSE [to |-> c, set |-> [Untouched EXCEPT !.enable = When(seen[c].active, FALSE)],
          applied |-> None, divergences |-> {}]

\* plan_outputs_with: an output without an entry is left alone.
Plan(d) == [i \in DOMAIN d.outputs |-> PlanEntry(d, d.outputs[i])]

\* What is recorded as applied, of the last entry that has it.
Recorded(plan) ==
    LET on == {i \in DOMAIN plan : plan[i].applied # None} IN
    [c \in {plan[i].to : i \in on} |->
        plan[Max({i \in on : plan[i].to = c})].applied]

-----------------------------------------------------------------------------
(* What sway does with a plan.                                             *)

\* What it is told of a connector it keeps, also when nothing is plugged in.
Obey(o, set) ==
    LET on == CASE set.enable = TRUE /\ ~o.active -> SwitchedOn(o.display)
                [] set.enable = FALSE -> [o EXCEPT !.active = FALSE]
                [] OTHER -> o
        has(mode) == o.display # None /\ mode \in Offers[o.display]
    IN IF ~on.active THEN on
       ELSE [on EXCEPT
                !.mode = IF has(set.mode) THEN set.mode ELSE @,
                !.at = IF set.at # None THEN set.at ELSE @,
                !.pinned = @ \/ set.at # None,
                !.tearing = IF set.tearing # None THEN set.tearing ELSE @,
                !.image = IF set.image # None
                          THEN [id |-> set.image, version |-> stored[set.image]] ELSE @]

\* The commands of a plan, and the plan as heard when one is answered with an error.
Commands(plan) ==
    {k \in (DOMAIN plan) \X Settings : plan[k[1]].set[k[2]] # None}

Refusable == IF pass.at = "plan" THEN Commands(Plan(pass.doc)) ELSE {}

Heard(plan, refused) ==
    IF refused = None THEN plan ELSE [plan EXCEPT ![refused[1]].set[refused[2]] = None]

Obeyed(plan) ==
    [c \in Connectors |->
        LET after[n \in 0 .. Len(plan)] ==
                IF n = 0 THEN real[c]
                ELSE IF plan[n].to = c THEN Obey(after[n - 1], plan[n].set) ELSE after[n - 1]
        IN after[Len(plan)]]

\* History: an unreported setting is lost when its command failed or its file
\* was missing, and found again by the next command that succeeds.
LostAfter(plan, refused) ==
    LET told == {<<plan[k[1]].to, k[2]>> : k \in Commands(plan)}
        failed == IF refused = None THEN {} ELSE {<<plan[refused[1]].to, refused[2]>>}
        missing == {d \in UNION {plan[i].divergences : i \in DOMAIN plan} :
                        d.kind = "wallpaper_not_found"}
    IN (lost \ told) \cup failed \cup {<<d.subject, "image">> : d \in missing}

-----------------------------------------------------------------------------
(* A pass.                                                                 *)

Resting == [at |-> "idle", doc |-> None, overtaken |-> FALSE, divergences |-> {}]
Idle == pass.at = "idle"

Count == events < MaxEvents /\ events' = events + 1

Observe ==
    /\ Idle /\ requested
    /\ requested' = FALSE
    /\ seen' = View
    /\ pass' = [Resting EXCEPT !.at = "plan", !.doc = doc]
    /\ UNCHANGED <<doc, stored, real, applied, history, status, lost, events>>

\* The document moved: the pass starts over, with what it has applied recorded.
StartOver ==
    /\ ~Idle /\ pass.overtaken
    /\ pass' = Resting
    /\ requested' = TRUE
    /\ UNCHANGED <<doc, stored, real, seen, applied, history, status, lost, events>>

\* The batch of commands, which sway answers with events of its own.
Apply(refused) ==
    /\ pass.at = "plan" /\ ~pass.overtaken
    /\ refused # None => Count
    /\ refused = None => UNCHANGED events
    /\ \E plan \in {Plan(pass.doc)} :
        /\ refused \in Optional(Commands(plan))
        /\ real' = Obeyed(Heard(plan, refused))
        /\ lost' = LostAfter(plan, refused)
        /\ applied' = Recorded(plan)
        /\ requested' = (requested \/ Commands(plan) # {})
        /\ seen' = IF Commands(plan) = {} THEN seen ELSE View'
        /\ pass' = [pass EXCEPT !.at = "conclude", !.divergences =
                        (UNION {plan[i].divergences : i \in DOMAIN plan})
                        \cup (IF refused = None THEN {}
                              ELSE {Divergence("command_failed", plan[refused[1]].to)})]
    /\ UNCHANGED <<doc, stored, history, status>>

\* One slip: what was seen by the pass before is taken for what is there.
SettledBefore(c) == IF c \in DOMAIN history THEN history[c].mode ELSE None

Settled(c) ==
    IF c \in DOMAIN history /\ history[c].mode = seen[c].mode THEN seen[c].mode ELSE None

\* A pin is kept for as long as its display is there.
Carried(entry, c) ==
    IF entry.adopted # None /\ entry.adopted.display = seen[c].display
    THEN entry.adopted.mode ELSE None

Candidate(entry, c) ==
    IF entry.mode # None THEN None
    ELSE IF Carried(entry, c) # None THEN Carried(entry, c) ELSE Settled(c)

\* One slip: an output is taken to have settled when it was seen before.
AdoptionForUnsettled(entry, c) ==
    IF \/ ~seen[c].active
       \/ \E d \in pass.divergences : d.subject = c
       \/ c \notin DOMAIN history
    THEN entry.adopted
    ELSE [mode |-> Candidate(entry, c), display |-> seen[c].display]

\* adoption_for: what was seen twice and the operator left unset is pinned.
AdoptionFor(entry, c) ==
    IF \/ ~seen[c].active
       \/ \E d \in pass.divergences : d.subject = c
       \/ c \notin DOMAIN history
       \/ Candidate(entry, c) = None
    THEN entry.adopted
    ELSE [mode |-> Candidate(entry, c), display |-> seen[c].display]

Adopted(entry) ==
    LET c == OutputOf(entry, seen) IN
    IF c = None THEN entry ELSE [entry EXCEPT !.adopted = AdoptionFor(entry, c)]

\* adopt_settled_outputs, and the status.
Conclude ==
    /\ pass.at = "conclude" /\ ~pass.overtaken
    /\ doc' = [doc EXCEPT !.outputs = [i \in DOMAIN doc.outputs |-> Adopted(doc.outputs[i])]]
    /\ history' = [c \in DOMAIN seen \cup DOMAIN history |->
                       IF c \in DOMAIN seen THEN seen[c] ELSE history[c]]
    /\ status' = IF pass.divergences = {} THEN "synced" ELSE "degraded"
    /\ pass' = Resting
    /\ UNCHANGED <<requested, stored, real, seen, applied, lost, events>>

\* The poll queries the outputs beside the passes.
Poll ==
    /\ seen # View
    /\ seen' = View
    /\ requested' = TRUE
    /\ UNCHANGED <<doc, stored, real, pass, applied, history, status, lost, events>>
-----------------------------------------------------------------------------
(* Clients, displays, and the daemon's own end.                            *)

\* A client writes another document, with the pins it has read or without.
Write(config, keeps) ==
    /\ Count
    /\ LET pin(entry) == LET same == {i \in DOMAIN doc.outputs : doc.outputs[i].rule = entry.rule}
                         IN IF keeps /\ same # {} THEN doc.outputs[CHOOSE i \in same : TRUE].adopted
                            ELSE entry.adopted
       IN doc' = [config EXCEPT !.outputs =
                    [i \in DOMAIN config.outputs |->
                        [config.outputs[i] EXCEPT !.adopted = pin(config.outputs[i])]]]
    /\ doc' # doc
    /\ pass' = [pass EXCEPT !.overtaken = ~Idle]
    /\ requested' = TRUE
    /\ UNCHANGED <<stored, real, seen, applied, history, status, lost>>

Upload(image) ==
    /\ Count
    /\ stored' = [stored EXCEPT ![image] = @ + 1]
    /\ requested' = TRUE
    /\ UNCHANGED <<doc, real, daemon, lost>>

\* Refused while anything of the live document refers to it.
Delete(image) ==
    /\ Count
    /\ stored[image] > 0
    /\ \A p \in Presets : doc.presets[p] # image
    /\ stored' = [stored EXCEPT ![image] = 0]
    /\ UNCHANGED <<doc, requested, real, daemon, lost>>

\* Sway announces every change of an output.
Announced(outputs) ==
    /\ Count
    /\ real' = outputs
    /\ requested' = TRUE
    /\ UNCHANGED <<doc, stored, daemon, lost>>

Unplug(c) ==
    /\ Attached(c)
    /\ Announced([real EXCEPT ![c].display = None])

\* What sway was told of a connector holds for the next display on it, in
\* whichever of its modes that display comes up.
Plug(c, display, mode) ==
    /\ ~Attached(c)
    /\ \A k \in Connectors : real[k].display # display
    /\ mode \in Offers[display]
    /\ Announced([real EXCEPT ![c].display = display, ![c].mode = mode])

\* A display settles on another mode, or sway moves an output it was not told
\* where to put.
Negotiate(c, mode) ==
    /\ Attached(c) /\ real[c].active
    /\ mode \in Offers[real[c].display] \ {real[c].mode}
    /\ Announced([real EXCEPT ![c].mode = mode])

Rearrange(c, spot) ==
    /\ Attached(c) /\ real[c].active /\ ~real[c].pinned
    /\ spot # real[c].at
    /\ Announced([real EXCEPT ![c].at = spot])

\* The daemon, and what it remembers, ends and starts again.
Restart ==
    /\ Count
    /\ seen' = << >> /\ applied' = << >> /\ history' = << >>
    /\ pass' = Resting
    /\ status' = "reconciling"
    /\ requested' = TRUE
    /\ UNCHANGED <<doc, stored, real, lost>>
-----------------------------------------------------------------------------
Init ==
    /\ doc \in Configs
    /\ requested = TRUE
    /\ stored = [image \in Images |-> 1]
    /\ real \in {[c \in Connectors |-> SwitchedOn(plugged[c])] : plugged \in Plugged}
    /\ seen = << >> /\ applied = << >> /\ history = << >>
    /\ pass = Resting
    /\ status = "reconciling"
    /\ lost = {}
    /\ events = 0

Work == Observe \/ StartOver \/ Apply(None) \/ Conclude

Rest == Idle /\ ~requested /\ UNCHANGED vars

Next ==
    \/ Work \/ Poll
    \/ \E refused \in Refusable : Apply(refused)
    \/ \E config \in Configs, keeps \in BOOLEAN : Write(config, keeps)
    \/ \E image \in Images : Upload(image) \/ Delete(image)
    \/ \E c \in Connectors :
            \/ Unplug(c)
            \/ \E display \in Displays, mode \in Rates : Plug(c, display, mode)
            \/ \E mode \in Rates : Negotiate(c, mode)
            \/ \E spot \in Spots : Rearrange(c, spot)
    \/ Restart
    \/ Rest

Spec == Init /\ [][Next]_vars
FairSpec == Spec /\ WF_vars(Work)
-----------------------------------------------------------------------------
(* Properties.                                                             *)

Outputs == [display : Optional(Displays), active : BOOLEAN, mode : Optional(Rates), at : Spots,
            pinned : BOOLEAN, tearing : BOOLEAN, image : Optional(Picture)]
Views == [display : Displays, active : BOOLEAN, mode : Optional(Rates), at : Optional(Spots)]
Kinds == {"output_not_connected", "mode_unsupported", "wallpaper_not_found", "command_failed"}
Divergences == [kind : Kinds, subject : Connectors \cup Displays]
Passes == [at : {"idle", "plan", "conclude"}, doc : Optional(Document), overtaken : BOOLEAN,
           divergences : SUBSET Divergences]

TypeOK ==
    /\ doc \in Document
    /\ requested \in BOOLEAN
    /\ stored \in [Images -> 0 .. MaxEvents + 1]
    /\ real \in [Connectors -> Outputs]
    /\ \A c \in Connectors : Attached(c) => real[c].mode \in Offers[real[c].display]
    /\ DOMAIN seen \subseteq Connectors /\ \A c \in DOMAIN seen : seen[c] \in Views
    /\ pass \in Passes
    /\ DOMAIN applied \subseteq Connectors /\ \A c \in DOMAIN applied : applied[c] \in Record
    /\ DOMAIN history \subseteq Connectors
    /\ status \in {"reconciling", "synced", "degraded"}
    /\ events \in 0 .. MaxEvents

AtRest == Idle /\ ~requested
Lost(c, what) == <<c, what>> \in lost

\* The entry as its output is.  A setting that was lost is not counted, and a
\* picture is known by its id: one uploaded again under an id that is shown
\* already is not painted again (Repaints), and no entry is unrealized by it.
Realized(entry) ==
    LET c == OutputOf(entry, View)
        o == real[c]
        wanted == EffectiveMode(entry)
    IN /\ c # None
       /\ o.active = entry.enable
       /\ entry.enable =>
            /\ wanted # None => o.mode = ResolveMode(Offers[o.display], wanted)
            /\ entry.at # None => o.at = entry.at
            /\ Lost(c, "tearing") \/ o.tearing = entry.tearing
            /\ entry.paper = None \/ Lost(c, "image")
               \/ (o.image # None /\ o.image.id = Background(doc, entry))

\* When the daemon has nothing left to do and says synced, every output is as
\* its entry asks, whatever was unplugged, plugged in, edited or started over on
\* the way, down to the settings sway does not report.  Two things it does not
\* say: that a setting is there whose last command was refused or whose file was
\* missing (the next pass does not repeat it), and that the picture shown is the
\* newest upload under its id, which the upload's handler announces and the
\* planner does not bring about.
SyncedMeansApplied ==
    AtRest /\ status = "synced" => \A i \in DOMAIN doc.outputs : Realized(doc.outputs[i])

\* A mode is pinned for a display that has it, although the observation it is
\* compared with may be of the display before.
PinsFitTheirDisplay ==
    \A i \in DOMAIN doc.outputs : Fits(doc.outputs[i].adopted)

\* Commands cause events and events cause passes: they come to an end.
Settles == <>[]AtRest

Swapped(entry) ==
    LET c == OutputOf(entry, View) IN
    c # None /\ entry.enable /\ entry.mode = None /\ entry.adopted # None
        /\ entry.adopted.display # real[c].display

\* "A different display re-adopts fresh" (docs/configuration.md): at rest no pin
\* of another display is left on a connector.
SwapsAdoptFresh ==
    <>[](\A i \in DOMAIN doc.outputs : ~Swapped(doc.outputs[i]))
=============================================================================
