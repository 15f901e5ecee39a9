--------------------------- MODULE OutputPlanProofs ---------------------------
(***************************************************************************)
(* What the planner guarantees for any displays, documents and pictures,   *)
(* and any number of writes, uploads, plugs, refused commands and restarts.*)
(*                                                                         *)
(* The planner compares what it does not see with what it recorded.  The   *)
(* argument is that the record is true (Told): what is recorded of an      *)
(* output that is on is what sway has, or its last command did nothing.    *)
(***************************************************************************)
EXTENDS OutputPlan, SequenceTheorems, WellFoundedInduction, TLAPS

(* Uploads are counted, so that no picture outgrows the bound.             *)
Counted == \A image \in Images : stored[image] <= events + 1

(* An output that was seen on was seen in a mode of its display.           *)
SeenFits ==
    \A c \in DOMAIN seen : seen[c].active => seen[c].mode \in Offers[seen[c].display]

(* A pass that was not overtaken works from the live document, and one that*)
(* was overtaken is followed by another.                                   *)
Current ==
    ~Idle => /\ pass.overtaken => requested
             /\ ~pass.overtaken => pass.doc = doc

Typed == TypeOK /\ Counted /\ SeenFits /\ Current /\ PinsFitTheirDisplay

----------------------------------------------------------------------------
(* What holds while no two entries select one output.                      *)

(* Of the outputs that were seen, no two entries of the live document have *)
(* the same.  The validation of a document compares rules, not what they   *)
(* select (Validator::outputs): an entry by connector and one by identity  *)
(* may meet.                                                               *)
Apart ==
    \A i, j \in DOMAIN doc.outputs :
        /\ OutputOf(doc.outputs[i], seen) # None
        /\ OutputOf(doc.outputs[i], seen) = OutputOf(doc.outputs[j], seen)
        => i = j

(* Whatever changes what is seen requests a pass, and only the daemon      *)
(* switches outputs.                                                       *)
Fresh ==
    /\ ~requested => seen = View
    /\ \A c \in DOMAIN seen : seen[c].active = real[c].active

(* What is recorded of an output that is on is so, or was lost.            *)
Told ==
    \A c \in DOMAIN applied : real[c].active =>
        /\ Lost(c, "tearing") \/ real[c].tearing = applied[c].tearing
        /\ \/ applied[c].image = None \/ Lost(c, "image")
           \/ real[c].image # None /\ real[c].image.id = applied[c].image

(* A pass that had nothing to say and nothing to report found everything   *)
(* as it should be.                                                        *)
Planned ==
    ~requested /\ pass.at = "conclude" /\ pass.divergences = {} =>
        \A i \in DOMAIN doc.outputs : Realized(doc.outputs[i])

True == Fresh /\ Told /\ Planned /\ SyncedMeansApplied

-----------------------------------------------------------------------------
(* Numbers.                                                                *)

(* The greatest element of a bounded set of numbers exists.                *)
LEMMA GreatestExists ==
    ASSUME NEW n \in Nat, NEW S \in SUBSET (1..n), S # {}
    PROVE  \E i \in S : \A j \in S : i >= j
<1> DEFINE R == OpToRel(<, Nat)
           T == {n - i : i \in S}
<1>1. T \subseteq Nat /\ T # {}
  <2>1. \A i \in S : n - i \in Nat
    OBVIOUS
  <2>2. PICK i \in S : TRUE
    OBVIOUS
  <2> QED  BY <2>1, <2>2
<1>2. PICK x \in T : \A y \in T : ~(<<y, x>> \in R)
  <2> HIDE DEF T
  <2>1. IsWellFoundedOn(R, Nat)
    BY NatLessThanWellFounded
  <2> HIDE DEF R
  <2> QED  BY <1>1, <2>1, WFMin
<1>3. \A y \in T : ~(y < x)
  BY <1>1, <1>2 DEF OpToRel
<1>4. PICK i \in S : x = n - i
  BY <1>2
<1>5. \A j \in S : n - j \in T
  OBVIOUS
<1>6. \A j \in S : ~(n - j < n - i)
  <2> HIDE DEF T
  <2> QED  BY <1>3, <1>4, <1>5
<1> QED  BY <1>6

(* A set that holds 0 and is closed under successors up to n holds all     *)
(* numbers up to n.                                                        *)
LEMMA UpTo ==
    ASSUME NEW n \in Nat, NEW S, 0 \in S, \A k \in 1..n : k - 1 \in S => k \in S
    PROVE  \A k \in 0..n : k \in S
<1> DEFINE R == OpToRel(<, Nat)
           T == {k \in 0..n : k \notin S}
<1>1. SUFFICES ASSUME T # {} PROVE FALSE
  OBVIOUS
<1>2. T \subseteq Nat
  OBVIOUS
<1>3. PICK x \in T : \A y \in T : ~(<<y, x>> \in R)
  <2> HIDE DEF T
  <2>1. IsWellFoundedOn(R, Nat)
    BY NatLessThanWellFounded
  <2> HIDE DEF R
  <2> QED  BY <1>1, <1>2, <2>1, WFMin
<1>4. \A y \in T : ~(y < x)
  BY <1>2, <1>3 DEF OpToRel
<1>5. x \in 1..n /\ x \notin S
  OBVIOUS
<1>6. x - 1 \in 0..n /\ x - 1 < x
  BY <1>5
<1>7. x - 1 \in S
  BY <1>4, <1>6
<1> QED  BY <1>5, <1>7
-----------------------------------------------------------------------------
(* Displays, outputs and entries.                                          *)

LEMMA OffersAreNat ==
    \A d \in Displays : \A r \in Offers[d] : r \in Nat /\ r \in Rates
BY OutputPlanAssumption DEF Rates

LEMMA PreferredIsOffered ==
    ASSUME NEW d \in Displays
    PROVE  Preferred(d) \in Offers[d]
BY OutputPlanAssumption DEF Preferred

(* A rate is resolved to one that is offered, and one that is offered to   *)
(* itself.                                                                 *)
LEMMA ResolveModeProperties ==
    ASSUME NEW rates \in SUBSET Nat, NEW wanted \in Nat
    PROVE  /\ ResolveMode(rates, wanted) \in Optional(rates)
           /\ wanted \in rates => ResolveMode(rates, wanted) = wanted
<1> DEFINE near == {r \in rates : Distance(r, wanted) <= REFRESH_TOLERANCE_HZ}
           Nearest(r) == \A s \in near : Distance(r, wanted) <= Distance(s, wanted)
<1>1. \A r \in rates : Distance(r, wanted) \in Nat /\ (Distance(r, wanted) = 0 <=> r = wanted)
  BY DEF Distance
<1>2. \A r \in near : Distance(r, wanted) \in {0, 1}
  BY <1>1 DEF REFRESH_TOLERANCE_HZ
<1>3. near # {} => \E r \in near : Nearest(r)
  <2> HIDE DEF near
  <2>1. CASE \E r \in near : Distance(r, wanted) = 0
    BY <1>2, <2>1
  <2>2. CASE \A r \in near : Distance(r, wanted) # 0
    BY <1>2, <2>2
  <2> QED  BY <2>1, <2>2
<1>4. ResolveMode(rates, wanted) = IF near = {} THEN None ELSE CHOOSE r \in near : Nearest(r)
  BY DEF ResolveMode
<1>5. ResolveMode(rates, wanted) \in Optional(rates)
  <2> HIDE DEF Nearest
  <2> QED  BY <1>3, <1>4 DEF Optional
<1>6. ASSUME wanted \in rates PROVE ResolveMode(rates, wanted) = wanted
  <2>1. wanted \in near /\ Distance(wanted, wanted) = 0
    BY <1>1, <1>6 DEF REFRESH_TOLERANCE_HZ
  <2>2. PICK r \in near : r = (CHOOSE q \in near : Nearest(q)) /\ Nearest(r)
    <3> HIDE DEF Nearest
    <3> QED  BY <1>3, <2>1
  <2>3. Distance(r, wanted) <= 0
    BY <2>1, <2>2
  <2>4. r = wanted
    BY <1>1, <2>3
  <2> QED  BY <1>4, <2>1, <2>2, <2>4
<1> QED  BY <1>5, <1>6

(* What is sent to an output, and the step of a plan it is sent with.      *)
Sets == [enable : Optional(BOOLEAN), mode : Optional(Nat), at : Optional(Spots),
         tearing : Optional(BOOLEAN), image : Optional(Images)]
Steps == [to : Optional(Connectors), set : Sets, divergences : SUBSET Divergences,
          applied : Optional(Record)]
IsPlan(plan, n) ==
    /\ plan \in [1..n -> Steps]
    /\ \A i \in 1..n : plan[i].applied # None => plan[i].to # None

(* An output that is as sway leaves outputs.                               *)
Sound(o) == o \in Outputs /\ (o.display # None => o.mode \in Offers[o.display])

LEMMA SwitchedOnIsSound ==
    ASSUME NEW display \in Optional(Displays)
    PROVE  Sound(SwitchedOn(display)) /\ SwitchedOn(display).display = display
BY PreferredIsOffered, OffersAreNat DEF Sound, SwitchedOn, Outputs, Optional, Spots

LEMMA ObeyIsSound ==
    ASSUME NEW o, Sound(o), NEW set \in Sets, \A image \in Images : stored[image] \in Nat
    PROVE  Sound(Obey(o, set)) /\ Obey(o, set).display = o.display
<1> DEFINE on == CASE set.enable = TRUE /\ ~o.active -> SwitchedOn(o.display)
                 [] set.enable = FALSE -> [o EXCEPT !.active = FALSE]
                 [] OTHER -> o
           has(mode) == o.display # None /\ mode \in Offers[o.display]
           told == [on EXCEPT
                      !.mode = IF has(set.mode) THEN set.mode ELSE @,
                      !.at = IF set.at # None THEN set.at ELSE @,
                      !.pinned = @ \/ set.at # None,
                      !.tearing = IF set.tearing # None THEN set.tearing ELSE @,
                      !.image = IF set.image # None
                                THEN [id |-> set.image, version |-> stored[set.image]] ELSE @]
<1>1. o \in Outputs /\ o.display \in Optional(Displays)
  BY DEF Sound, Outputs
<1>2. Sound(on) /\ on.display = o.display
  <2>1. Sound(SwitchedOn(o.display)) /\ SwitchedOn(o.display).display = o.display
    BY <1>1, SwitchedOnIsSound
  <2>2. Sound([o EXCEPT !.active = FALSE]) /\ [o EXCEPT !.active = FALSE].display = o.display
    BY <1>1 DEF Sound, Outputs
  <2> QED  BY <2>1, <2>2
<1>3. Obey(o, set) = IF ~on.active THEN on ELSE told
  BY DEF Obey
<1> HIDE DEF on
<1>4. Sound(told) /\ told.display = o.display
  <2>1. on \in Outputs
    BY <1>2 DEF Sound
  <2>2. set.mode \in Optional(Nat) /\ set.at \in Optional(Spots)
        /\ set.tearing \in Optional(BOOLEAN) /\ set.image \in Optional(Images)
    BY DEF Sets
  <2>3. has(set.mode) => set.mode \in Rates
    BY <1>1, OffersAreNat DEF Optional
  <2>4. set.image # None => [id |-> set.image, version |-> stored[set.image]] \in Picture
    BY <2>2 DEF Optional, Picture
  <2>5. told.display = o.display
    BY <1>2, <2>1 DEF Outputs
  <2>6. told.mode = IF has(set.mode) THEN set.mode ELSE on.mode
    BY <2>1 DEF Outputs
  <2>7. told \in Outputs
    <3> DEFINE m == IF has(set.mode) THEN set.mode ELSE on.mode
               a == IF set.at # None THEN set.at ELSE on.at
               t == IF set.tearing # None THEN set.tearing ELSE on.tearing
               i == IF set.image # None
                    THEN [id |-> set.image, version |-> stored[set.image]] ELSE on.image
    <3>1. m \in Optional(Rates)
      BY <2>1, <2>3 DEF Outputs, Optional
    <3>2. a \in Spots
      BY <2>1, <2>2 DEF Outputs, Optional
    <3>3. t \in BOOLEAN
      BY <2>1, <2>2 DEF Outputs, Optional
    <3>4. i \in Optional(Picture)
      BY <2>1, <2>4 DEF Outputs, Optional
    <3>5. told = [on EXCEPT !.mode = m, !.at = a, !.pinned = @ \/ set.at # None,
                            !.tearing = t, !.image = i]
      BY <2>1 DEF Outputs
    <3> HIDE DEF m, a, t, i, told
    <3> QED  BY <2>1, <3>1, <3>2, <3>3, <3>4, <3>5 DEF Outputs
  <2> QED  BY <1>2, <2>5, <2>6, <2>7 DEF Sound
<1> QED  BY <1>2, <1>3, <1>4
-----------------------------------------------------------------------------
(* Plans.                                                                  *)

LEMMA OutputOfProperties ==
    ASSUME NEW entry, NEW outputs, DOMAIN outputs \subseteq Connectors
    PROVE  LET c == OutputOf(entry, outputs)
           IN  /\ c \in Optional(Connectors)
               /\ c # None => c \in DOMAIN outputs /\ Matches(entry.rule, c, outputs[c].display)
<1> DEFINE found == {c \in DOMAIN outputs : Matches(entry.rule, c, outputs[c].display)}
<1>1. OutputOf(entry, outputs) = IF found = {} THEN None ELSE CHOOSE c \in found : TRUE
  BY DEF OutputOf
<1>2. found # {} => (CHOOSE c \in found : TRUE) \in found
  <2> HIDE DEF found
  <2> QED  OBVIOUS
<1> QED  BY <1>1, <1>2 DEF Optional

LEMMA EntryProperties ==
    ASSUME NEW d \in Document, NEW entry \in Entry
    PROVE  /\ entry.rule \in Connectors \cup Displays /\ entry.enable \in BOOLEAN
           /\ entry.mode \in Optional(Nat) /\ entry.at \in Optional(Spots)
           /\ entry.tearing \in BOOLEAN /\ entry.paper \in Optional(Presets)
           /\ entry.adopted \in Optional(Pin)
           /\ EffectiveMode(entry) \in Optional(Nat)
           /\ Background(d, entry) \in Optional(Images)
           /\ entry.paper # None => Background(d, entry) \in Images
BY DEF Document, Entry, EffectiveMode, Background, Optional, Pin

LEMMA NoneIsApart ==
    /\ None \notin Nat /\ None \notin Connectors /\ None \notin Displays
    /\ None \notin Presets /\ None \notin Images /\ None \notin Spots
    /\ None \notin BOOLEAN /\ None \notin Pin /\ None \notin Picture /\ None \notin Record
    /\ None \notin Nat \X Settings /\ Connectors \cap Displays = {}
BY OutputPlanAssumption DEF Spots

(* What an entry asks of an output that was seen.                          *)
LEMMA PlanOnIsTyped ==
    ASSUME TypeOK, NEW d \in Document, NEW entry \in Entry, NEW c \in DOMAIN seen
    PROVE  LET p == PlanOn(d, entry, c)
           IN p \in Steps /\ p.to = c /\ p.applied \in Record
<1> DEFINE output == seen[c]
           before == IF c \in DOMAIN applied THEN applied[c] ELSE Unmanaged
           force == Forced(before, output)
           wanted == EffectiveMode(entry)
           target == IF wanted = None THEN None
                     ELSE IF output.active THEN ResolveMode(Offers[output.display], wanted)
                     ELSE wanted
           image == Background(d, entry)
           paint == image # None /\ (force \/ Repaints(before, entry, image))
           enable == When(~output.active, TRUE)
           mode == When(force \/ ModeDiffers(output.mode, target, wanted), target)
           at == When(force \/ output.at # entry.at, entry.at)
           tearing == When(force \/ before.tearing # entry.tearing, entry.tearing)
           picture == When(paint /\ stored[image] > 0, image)
           set == [enable |-> enable, mode |-> mode, at |-> at, tearing |-> tearing,
                   image |-> picture]
           divergences ==
             (IF wanted # None /\ target = None THEN {Divergence("mode_unsupported", c)} ELSE {})
             \cup (IF paint /\ stored[image] = 0 THEN {Divergence("wallpaper_not_found", c)} ELSE {})
           record == [tearing |-> entry.tearing, paper |-> entry.paper, image |-> image]
<1>1. PlanOn(d, entry, c) = [to |-> c, set |-> set, divergences |-> divergences, applied |-> record]
  BY DEF PlanOn
<1>2. c \in Connectors /\ output \in Views
  BY DEF TypeOK
<1>3. /\ entry.at \in Optional(Spots) /\ entry.tearing \in BOOLEAN
      /\ entry.paper \in Optional(Presets)
      /\ wanted \in Optional(Nat) /\ image \in Optional(Images)
  BY EntryProperties
<1>4. target \in Optional(Nat)
  <2>1. output.display \in Displays /\ Offers[output.display] \in SUBSET Nat
    BY <1>2, OutputPlanAssumption DEF Views
  <2>2. wanted # None => ResolveMode(Offers[output.display], wanted) \in Optional(Nat)
    <3> HIDE DEF output, wanted
    <3> QED  BY <1>3, <2>1, ResolveModeProperties DEF Optional
  <2> QED  BY <1>3, <2>2
<1> HIDE DEF target, wanted, image, paint, force, before, output
<1>5. set \in Sets
  <2>1. enable \in Optional(BOOLEAN) /\ mode \in Optional(Nat) /\ at \in Optional(Spots)
        /\ tearing \in Optional(BOOLEAN) /\ picture \in Optional(Images)
    BY <1>3, <1>4 DEF When, Optional
  <2> HIDE DEF enable, mode, at, tearing, picture
  <2> QED  BY <2>1 DEF Sets
<1>6. divergences \in SUBSET Divergences
  BY <1>2 DEF Divergences, Divergence, Kinds
<1>7. record \in Record
  BY <1>3 DEF Record, Optional
<1> HIDE DEF set, divergences, record
<1> QED  BY <1>1, <1>2, <1>5, <1>6, <1>7 DEF Steps, Optional

LEMMA UntouchedIsTyped ==
    /\ Untouched \in Sets
    /\ \A e \in Optional(BOOLEAN) : [Untouched EXCEPT !.enable = e] \in Sets
BY DEF Untouched, Sets, Optional

LEMMA PlanEntryIsTyped ==
    ASSUME TypeOK, NEW d \in Document, NEW entry \in Entry
    PROVE  LET p == PlanEntry(d, entry)
           IN p \in Steps /\ p.to = OutputOf(entry, seen) /\ (p.applied # None => p.to # None)
<1> DEFINE c == OutputOf(entry, seen)
<1>1. c \in Optional(Connectors) /\ (c # None => c \in DOMAIN seen)
  BY OutputOfProperties DEF TypeOK
<1>2. CASE c = None
  <2>1. {Divergence("output_not_connected", entry.rule)} \in SUBSET Divergences
    BY EntryProperties DEF Divergences, Divergence, Kinds
  <2> DEFINE q == [to |-> None, set |-> Untouched, applied |-> None,
                   divergences |-> {Divergence("output_not_connected", entry.rule)}]
  <2>2. PlanEntry(d, entry) = q
    BY <1>2 DEF PlanEntry
  <2>3. q \in Steps
    BY <2>1, UntouchedIsTyped DEF Steps, Optional
  <2> QED  BY <1>2, <2>2, <2>3
<1>3. CASE c # None /\ entry.enable
  <2>1. PlanEntry(d, entry) = PlanOn(d, entry, c)
    BY <1>3 DEF PlanEntry
  <2> QED  BY <1>1, <1>3, <2>1, PlanOnIsTyped
<1>4. CASE c # None /\ ~entry.enable
  <2> DEFINE e == When(seen[c].active, FALSE)
             q == [to |-> c, set |-> [Untouched EXCEPT !.enable = e],
                   applied |-> None, divergences |-> {}]
  <2>1. PlanEntry(d, entry) = q
    BY <1>4 DEF PlanEntry
  <2>2. e \in Optional(BOOLEAN)
    BY DEF When, Optional
  <2>3. q \in Steps
    <3> HIDE DEF e
    <3> QED  BY <1>1, <2>2, UntouchedIsTyped DEF Steps, Optional
  <2> QED  BY <1>4, <2>1, <2>3
<1> QED  BY <1>2, <1>3, <1>4

LEMMA DocumentProperties ==
    ASSUME NEW d \in Document
    PROVE  /\ Len(d.outputs) \in Nat /\ DOMAIN d.outputs = 1..Len(d.outputs)
           /\ d.outputs \in [1..Len(d.outputs) -> Entry]
           /\ \A i \in 1..Len(d.outputs) : d.outputs[i] \in Entry
<1>1. d.outputs \in Seq(Entry)
  BY DEF Document
<1> QED  BY <1>1, LenProperties

LEMMA PlanIsTyped ==
    ASSUME TypeOK, NEW d \in Document
    PROVE  IsPlan(Plan(d), Len(d.outputs))
<1> DEFINE n == Len(d.outputs)
<1>1. DOMAIN d.outputs = 1..n /\ \A i \in 1..n : d.outputs[i] \in Entry
  BY DocumentProperties
<1>2. Plan(d) = [i \in 1..n |-> PlanEntry(d, d.outputs[i])]
  BY <1>1 DEF Plan
<1>3. \A i \in 1..n : /\ PlanEntry(d, d.outputs[i]) \in Steps
                      /\ PlanEntry(d, d.outputs[i]).applied # None
                            => PlanEntry(d, d.outputs[i]).to # None
  BY <1>1, PlanEntryIsTyped
<1>4. IsPlan(Plan(d), n)
  <2> HIDE DEF n
  <2> QED  BY <1>2, <1>3 DEF IsPlan
<1> QED  BY <1>4

(* There is no command without an output it is for.                        *)
LEMMA NothingForNobody ==
    ASSUME TypeOK, NEW d \in Document, NEW i \in 1..Len(d.outputs), NEW what \in Settings,
           Plan(d)[i].set[what] # None
    PROVE  Plan(d)[i].to # None
<1>1. d.outputs[i] \in Entry /\ Plan(d)[i] = PlanEntry(d, d.outputs[i])
  BY DocumentProperties DEF Plan
<1>2. SUFFICES ASSUME OutputOf(d.outputs[i], seen) = None PROVE FALSE
  BY <1>1, PlanEntryIsTyped
<1>3. Plan(d)[i].set = Untouched
  BY <1>1, <1>2 DEF PlanEntry
<1> QED  BY <1>3 DEF Untouched, Settings

(* A plan as it is heard is a plan for the same outputs.                   *)
LEMMA HeardProperties ==
    ASSUME NEW n \in Nat, NEW plan, IsPlan(plan, n), NEW refused \in Optional(Commands(plan))
    PROVE  /\ IsPlan(Heard(plan, refused), n)
           /\ \A i \in 1..n : /\ Heard(plan, refused)[i].to = plan[i].to
                              /\ \A what \in Settings :
                                   Heard(plan, refused)[i].set[what] =
                                      IF refused = <<i, what>> THEN None ELSE plan[i].set[what]
<1>0. plan \in [1..n -> Steps] /\ DOMAIN plan = 1..n
  BY DEF IsPlan
<1>1. CASE refused = None
  <2>1. \A i \in 1..n, what \in Settings : refused # <<i, what>>
    <3>1. \A i \in 1..n, what \in Settings : <<i, what>> \in Nat \X Settings
      OBVIOUS
    <3> QED  BY <1>1, <3>1, NoneIsApart
  <2> QED  BY <1>1, <2>1 DEF Heard
<1>2. CASE refused # None
  <2>1. PICK i \in 1..n, what \in Settings : refused = <<i, what>>
    BY <1>0, <1>2 DEF Optional, Commands
  <2> DEFINE s == plan[i].set
             s1 == [s EXCEPT ![what] = None]
             p1 == [plan[i] EXCEPT !.set = s1]
  <2>2. Heard(plan, refused) = [plan EXCEPT ![i] = p1]
    BY <1>0, <1>2, <2>1 DEF Heard
  <2>3. plan[i] \in Steps /\ s \in Sets
    BY <1>0 DEF Steps
  <2>4. s1 \in Sets /\ \A w \in Settings : s1[w] = IF w = what THEN None ELSE s[w]
    <3> HIDE DEF s
    <3> QED  BY <2>3 DEF Sets, Settings, Optional
  <2> HIDE DEF s1
  <2>5. p1 \in Steps /\ p1.to = plan[i].to /\ p1.applied = plan[i].applied /\ p1.set = s1
    BY <2>3, <2>4 DEF Steps
  <2> HIDE DEF p1
  <2>6. IsPlan(Heard(plan, refused), n)
    BY <1>0, <2>2, <2>5 DEF IsPlan
  <2>7. \A j \in 1..n : Heard(plan, refused)[j] = IF j = i THEN p1 ELSE plan[j]
    BY <1>0, <2>2
  <2>8. \A j \in 1..n, w \in Settings : refused = <<j, w>> <=> j = i /\ w = what
    BY <2>1
  <2> QED  BY <2>4, <2>5, <2>6, <2>7, <2>8
<1> QED  BY <1>1, <1>2
-----------------------------------------------------------------------------
(* What becomes of an output under a plan: it obeys, one after another,    *)
(* the steps of the plan that are for it.                                  *)

Run(f, plan, c, m) ==
    f = [n \in 0..m |->
            IF n = 0 THEN real[c]
            ELSE IF plan[n].to = c THEN Obey(f[n - 1], plan[n].set) ELSE f[n - 1]]

LEMMA RunExists ==
    ASSUME NEW N \in Nat, NEW plan, NEW c
    PROVE  \E f : Run(f, plan, c, N)
<1> DEFINE Good == {m \in 0..N : \E f : Run(f, plan, c, m)}
           Then(o, n) == IF plan[n].to = c THEN Obey(o, plan[n].set) ELSE o
<1>1. 0 \in Good
  <2> DEFINE f == [n \in 0..0 |-> real[c]]
  <2>1. Run(f, plan, c, 0)
    BY DEF Run
  <2> HIDE DEF f
  <2> QED  BY <2>1
<1>2. ASSUME NEW k \in 1..N, k - 1 \in Good PROVE k \in Good
  <2>1. PICK f : Run(f, plan, c, k - 1)
    BY <1>2
  <2> DEFINE g == [n \in 0..k |-> IF n < k THEN f[n] ELSE Then(f[k - 1], k)]
  <2>2. /\ f = [n \in 0..(k - 1) |-> f[n]]
        /\ \A n \in 0..(k - 1) : f[n] = IF n = 0 THEN real[c] ELSE Then(f[n - 1], n)
    BY <2>1 DEF Run
  <2> HIDE DEF Then
  <2>3. \A n \in 0..k : g[n] = IF n = 0 THEN real[c] ELSE Then(g[n - 1], n)
    <3>1. ASSUME NEW n \in 0..k, n < k PROVE g[n] = IF n = 0 THEN real[c] ELSE Then(g[n - 1], n)
      <4>1. n \in 0..(k - 1) /\ g[n] = f[n]
        BY <3>1
      <4>2. n # 0 => g[n - 1] = f[n - 1]
        BY <3>1
      <4> HIDE DEF g
      <4> QED  BY <2>2, <4>1, <4>2
    <3>2. g[k] = Then(g[k - 1], k)
      BY DEF Then
    <3> HIDE DEF g
    <3> QED  BY <3>1, <3>2
  <2>4. g = [n \in 0..k |-> IF n = 0 THEN real[c] ELSE Then(g[n - 1], n)]
    <3>1. g = [n \in 0..k |-> g[n]]
      OBVIOUS
    <3> HIDE DEF g
    <3> QED  BY <2>3, <3>1
  <2> HIDE DEF g
  <2>5. Run(g, plan, c, k)
    BY <2>4 DEF Run, Then
  <2> QED  BY <2>5
<1> HIDE DEF Good
<1>3. N \in Good
  BY <1>1, <1>2, UpTo
<1> QED  BY <1>3 DEF Good

LEMMA ObeyedProperties ==
    ASSUME NEW N \in Nat, NEW plan, IsPlan(plan, N), NEW c \in Connectors
    PROVE  \E f : /\ f[0] = real[c]
                  /\ \A n \in 1..N :
                        f[n] = IF plan[n].to = c THEN Obey(f[n - 1], plan[n].set) ELSE f[n - 1]
                  /\ Obeyed(plan)[c] = f[N]
<1>1. Len(plan) = N
  <2>1. DOMAIN plan = 1..N
    BY DEF IsPlan
  <2>2. plan \in Seq(Steps)
    BY DEF IsPlan
  <2> QED  BY <2>1, <2>2, LenProperties
<1> DEFINE f == CHOOSE f : Run(f, plan, c, N)
<1>2. Run(f, plan, c, N)
  BY RunExists
<1>3. Obeyed(plan)[c] = f[N]
  BY <1>1 DEF Obeyed, Run
<1> HIDE DEF f
<1>4. /\ f[0] = real[c]
      /\ \A n \in 1..N : f[n] = IF plan[n].to = c THEN Obey(f[n - 1], plan[n].set) ELSE f[n - 1]
  BY <1>2 DEF Run
<1> QED  BY <1>3, <1>4

LEMMA ObeyedIsSound ==
    ASSUME NEW N \in Nat, NEW plan, IsPlan(plan, N), NEW c \in Connectors, Sound(real[c]),
           \A image \in Images : stored[image] \in Nat
    PROVE  Sound(Obeyed(plan)[c]) /\ Obeyed(plan)[c].display = real[c].display
<1>1. PICK f : /\ f[0] = real[c]
               /\ \A n \in 1..N :
                     f[n] = IF plan[n].to = c THEN Obey(f[n - 1], plan[n].set) ELSE f[n - 1]
               /\ Obeyed(plan)[c] = f[N]
  BY ObeyedProperties
<1> DEFINE Good == {n \in 0..N : Sound(f[n]) /\ f[n].display = real[c].display}
<1>2. 0 \in Good
  BY <1>1
<1>3. ASSUME NEW n \in 1..N, n - 1 \in Good PROVE n \in Good
  <2>1. plan[n].set \in Sets
    BY DEF IsPlan, Steps
  <2>2. Sound(f[n - 1]) /\ f[n - 1].display = real[c].display
    BY <1>3
  <2>3. Sound(Obey(f[n - 1], plan[n].set))
        /\ Obey(f[n - 1], plan[n].set).display = f[n - 1].display
    BY <2>1, <2>2, ObeyIsSound
  <2> QED  BY <1>1, <2>2, <2>3
<1> HIDE DEF Good
<1>4. N \in Good
  BY <1>2, <1>3, UpTo
<1> QED  BY <1>1, <1>4 DEF Good

(* Of an output that one step is for, what it makes of that step; of one   *)
(* that none is for, what it was.                                          *)
LEMMA ObeyedOnce ==
    ASSUME NEW N \in Nat, NEW plan, IsPlan(plan, N), NEW c \in Connectors
    PROVE  /\ (\A j \in 1..N : plan[j].to # c) => Obeyed(plan)[c] = real[c]
           /\ \A i \in 1..N :
                plan[i].to = c /\ (\A j \in 1..N : plan[j].to = c => j = i)
                    => Obeyed(plan)[c] = Obey(real[c], plan[i].set)
<1>1. PICK f : /\ f[0] = real[c]
               /\ \A n \in 1..N :
                     f[n] = IF plan[n].to = c THEN Obey(f[n - 1], plan[n].set) ELSE f[n - 1]
               /\ Obeyed(plan)[c] = f[N]
  BY ObeyedProperties
<1>2. ASSUME \A j \in 1..N : plan[j].to # c PROVE Obeyed(plan)[c] = real[c]
  <2> DEFINE Good == {n \in 0..N : f[n] = real[c]}
  <2>1. 0 \in Good
    BY <1>1
  <2>2. \A n \in 1..N : n - 1 \in Good => n \in Good
    BY <1>1, <1>2
  <2> HIDE DEF Good
  <2>3. N \in Good
    BY <2>1, <2>2, UpTo
  <2> QED  BY <1>1, <2>3 DEF Good
<1>3. ASSUME NEW i \in 1..N, plan[i].to = c, \A j \in 1..N : plan[j].to = c => j = i
      PROVE  Obeyed(plan)[c] = Obey(real[c], plan[i].set)
  <2> DEFINE Good == {n \in 0..N : f[n] = IF n < i THEN real[c] ELSE Obey(real[c], plan[i].set)}
  <2>1. 0 \in Good
    BY <1>1
  <2>2. ASSUME NEW n \in 1..N, n - 1 \in Good PROVE n \in Good
    <3>1. f[n - 1] = IF n - 1 < i THEN real[c] ELSE Obey(real[c], plan[i].set)
      BY <2>2
    <3>2. f[n] = IF n = i THEN Obey(f[n - 1], plan[n].set) ELSE f[n - 1]
      BY <1>1, <1>3
    <3>3. CASE n = i
      BY <3>1, <3>2, <3>3
    <3>4. CASE n < i
      BY <3>1, <3>2, <3>4
    <3>5. CASE n > i
      BY <3>1, <3>2, <3>5
    <3> QED  BY <3>3, <3>4, <3>5
  <2> HIDE DEF Good
  <2>3. N \in Good
    BY <2>1, <2>2, UpTo
  <2> QED  BY <1>1, <2>3 DEF Good
<1> QED  BY <1>2, <1>3

(* What is recorded of an output is what one of the steps for it records.  *)
LEMMA RecordedProperties ==
    ASSUME NEW N \in Nat, NEW plan, IsPlan(plan, N)
    PROVE  /\ DOMAIN Recorded(plan) \subseteq Connectors
           /\ \A i \in 1..N : plan[i].applied # None => plan[i].to \in DOMAIN Recorded(plan)
           /\ \A c \in DOMAIN Recorded(plan) :
                \E i \in 1..N : /\ plan[i].to = c /\ plan[i].applied # None
                                /\ Recorded(plan)[c] = plan[i].applied
<1> DEFINE on == {i \in 1..N : plan[i].applied # None}
           tos == {plan[i].to : i \in on}
           of(c) == {i \in on : plan[i].to = c}
<1>1. DOMAIN plan = 1..N
  BY DEF IsPlan
<1>2. Recorded(plan) = [c \in tos |-> plan[Max(of(c))].applied]
  BY <1>1 DEF Recorded
<1>3. \A c \in tos : c \in Connectors
  BY NoneIsApart DEF IsPlan, Steps, Optional
<1>4. ASSUME NEW c \in tos PROVE Max(of(c)) \in of(c)
  <2>1. of(c) \in SUBSET (1..N) /\ of(c) # {}
    OBVIOUS
  <2> HIDE DEF of
  <2>2. \E i \in of(c) : \A j \in of(c) : i >= j
    BY <2>1, GreatestExists
  <2> QED  BY <2>2 DEF Max
<1>5. \A i \in 1..N : plan[i].applied # None => plan[i].to \in tos
  OBVIOUS
<1>6. \A c \in tos : \A i \in of(c) : i \in 1..N /\ plan[i].to = c /\ plan[i].applied # None
  OBVIOUS
<1> HIDE DEF tos, of
<1> QED  BY <1>2, <1>3, <1>4, <1>5, <1>6
-----------------------------------------------------------------------------
(* What is seen of outputs, and what is pinned.                            *)

ViewOf(r) ==
    [c \in {k \in Connectors : r[k].display # None} |->
        IF r[c].active
        THEN [display |-> r[c].display, active |-> TRUE, mode |-> r[c].mode, at |-> r[c].at]
        ELSE [display |-> r[c].display, active |-> FALSE, mode |-> None, at |-> None]]

LEMMA ViewIsViewOf == View = ViewOf(real) /\ View' = ViewOf(real')
BY DEF View, ViewOf, Attached

SoundOutputs(r) == r \in [Connectors -> Outputs] /\ \A c \in Connectors : Sound(r[c])
SoundViews(v) ==
    /\ DOMAIN v \subseteq Connectors /\ \A c \in DOMAIN v : v[c] \in Views
    /\ \A c \in DOMAIN v : v[c].active => v[c].mode \in Offers[v[c].display]

LEMMA ViewIsSound ==
    ASSUME NEW r, SoundOutputs(r)
    PROVE  SoundViews(ViewOf(r))
<1>1. ASSUME NEW c \in Connectors, r[c].display # None
      PROVE  /\ r[c].display \in Displays /\ r[c].active \in BOOLEAN
             /\ r[c].mode \in Optional(Rates) /\ r[c].at \in Optional(Spots)
             /\ r[c].mode \in Offers[r[c].display]
  BY <1>1 DEF SoundOutputs, Sound, Outputs, Optional
<1> QED  BY <1>1 DEF SoundViews, ViewOf, Views, Optional

(* What the type invariant says of the outputs and of what was seen.       *)
LEMMA TypedParts ==
    ASSUME Typed
    PROVE  SoundOutputs(real) /\ SoundViews(seen) /\ \A image \in Images : stored[image] \in Nat
<1>1. TypeOK
  BY DEF Typed
<1>2. MaxEvents \in Nat
  BY OutputPlanAssumption
<1>3. \A image \in Images : stored[image] \in Nat
  BY <1>1, <1>2 DEF TypeOK
<1>4. SoundOutputs(real)
  BY <1>1 DEF TypeOK, SoundOutputs, Sound, Attached
<1>5. SoundViews(seen)
  BY <1>1 DEF Typed, SeenFits, TypeOK, SoundViews
<1> QED  BY <1>3, <1>4, <1>5

(* An entry keeps what it says, and what is pinned by it fits.             *)
LEMMA AdoptedIsTyped ==
    ASSUME SoundViews(seen), NEW entry \in Entry, Fits(entry.adopted)
    PROVE  Adopted(entry) \in Entry /\ Fits(Adopted(entry).adopted)
<1> DEFINE c == OutputOf(entry, seen)
           pin == AdoptionFor(entry, c)
<1>1. CASE c = None
  BY <1>1 DEF Adopted
<1>2. CASE c # None
  <2>1. c \in DOMAIN seen /\ seen[c] \in Views
    BY <1>2, OutputOfProperties DEF SoundViews
  <2>2. seen[c].display \in Displays /\ Offers[seen[c].display] \subseteq Nat
        /\ (seen[c].active => seen[c].mode \in Offers[seen[c].display])
    BY <2>1, OutputPlanAssumption DEF Views, SoundViews
  <2>3. entry.adopted \in Optional(Pin)
    BY DEF Entry
  <2> HIDE DEF c
  <2>4. pin \in Optional(Pin) /\ Fits(pin)
    <3>1. CASE pin = entry.adopted
      BY <2>3, <3>1
    <3>2. CASE pin # entry.adopted
      <4>1. /\ seen[c].active /\ Candidate(entry, c) # None
            /\ pin = [mode |-> Candidate(entry, c), display |-> seen[c].display]
        BY <3>2 DEF AdoptionFor
      <4>2. \/ Candidate(entry, c) = Carried(entry, c) /\ Carried(entry, c) # None
            \/ Candidate(entry, c) = Settled(c) /\ Settled(c) # None
        BY <4>1 DEF Candidate
      <4>3. Carried(entry, c) # None =>
              entry.adopted # None /\ Carried(entry, c) = entry.adopted.mode
              /\ entry.adopted.display = seen[c].display
        BY DEF Carried
      <4>4. Settled(c) # None => Settled(c) = seen[c].mode
        BY DEF Settled
      <4>5. Candidate(entry, c) \in Offers[seen[c].display]
        BY <2>2, <4>1, <4>2, <4>3, <4>4 DEF Fits
      <4> HIDE DEF pin
      <4>6. pin \in Pin
        BY <2>2, <4>1, <4>5 DEF Pin
      <4> QED  BY <4>1, <4>5, <4>6 DEF Fits, Optional
    <3> QED  BY <3>1, <3>2
  <2> HIDE DEF pin
  <2>5. Adopted(entry) = [entry EXCEPT !.adopted = pin]
    BY <1>2 DEF Adopted, c, pin
  <2>6. [entry EXCEPT !.adopted = pin] \in Entry /\ [entry EXCEPT !.adopted = pin].adopted = pin
    BY <2>4 DEF Entry
  <2> QED  BY <2>4, <2>5, <2>6
<1> QED  BY <1>1, <1>2

(* A document whose entries are replaced by entries is a document.         *)
LEMMA Rewritten ==
    ASSUME NEW d \in Document, NEW outputs,
           DOMAIN outputs = DOMAIN d.outputs,
           outputs = [i \in DOMAIN d.outputs |-> outputs[i]],
           \A i \in DOMAIN d.outputs : outputs[i] \in Entry
    PROVE  /\ [d EXCEPT !.outputs = outputs] \in Document
           /\ [d EXCEPT !.outputs = outputs].outputs = outputs
           /\ [d EXCEPT !.outputs = outputs].presets = d.presets
<1>1. DOMAIN d.outputs = 1..Len(d.outputs) /\ Len(d.outputs) \in Nat
  BY DocumentProperties
<1>2. outputs \in Seq(Entry)
  <2> DEFINE n == Len(d.outputs)
  <2>1. n \in Nat /\ outputs = [i \in 1..n |-> outputs[i]] /\ \A i \in 1..n : outputs[i] \in Entry
    BY <1>1
  <2> HIDE DEF n
  <2>2. outputs \in [1..n -> Entry]
    BY <2>1
  <2> QED  BY <2>1, <2>2, SeqDef
<1> QED  BY <1>2 DEF Document
-----------------------------------------------------------------------------
(* Type correctness, and that pins fit.                                    *)

LEMMA InitTyped == ASSUME Init PROVE Typed
<1>1. doc \in Document /\ PinsFitTheirDisplay
  BY OutputPlanAssumption DEF Init, PinsFitTheirDisplay
<1>2. PICK plugged \in Plugged : real = [c \in Connectors |-> SwitchedOn(plugged[c])]
  BY DEF Init
<1>3. \A c \in Connectors : plugged[c] \in Optional(Displays)
  BY OutputPlanAssumption
<1>4. \A c \in Connectors : Sound(real[c])
  BY <1>2, <1>3, SwitchedOnIsSound
<1>5. real \in [Connectors -> Outputs]
  BY <1>2, <1>4 DEF Sound
<1>6. \A c \in Connectors : Attached(c) => real[c].mode \in Offers[real[c].display]
  BY <1>4 DEF Sound, Attached
<1>7. pass \in Passes
  BY DEF Init, Resting, Passes, Optional
<1>8. MaxEvents \in Nat
  BY OutputPlanAssumption
<1>9. stored \in [Images -> 0..MaxEvents + 1] /\ Counted
  BY <1>8 DEF Init, Counted
<1>10. /\ DOMAIN seen = {} /\ DOMAIN applied = {} /\ DOMAIN history = {}
  BY DEF Init
<1>11. TypeOK
  BY <1>1, <1>5, <1>6, <1>7, <1>8, <1>9, <1>10 DEF Init, TypeOK
<1>12. SeenFits
  BY <1>10 DEF SeenFits
<1>13. Current
  BY DEF Init, Resting, Current, Idle
<1> QED  BY <1>1, <1>9, <1>11, <1>12, <1>13 DEF Typed

LEMMA CountIsTyped ==
    ASSUME Typed, Count
    PROVE  events' \in 0..MaxEvents /\ events' = events + 1 /\ events \in Nat
BY OutputPlanAssumption DEF Typed, TypeOK, Count

LEMMA ObserveTyped == ASSUME Typed, Observe PROVE Typed'
<1>1. /\ SoundOutputs(real) /\ TypeOK
  BY TypedParts DEF Typed
<1>2. SoundViews(seen')
  BY <1>1, ViewIsViewOf, ViewIsSound DEF Observe
<1>3. pass' \in Passes /\ pass'.doc = doc /\ ~pass'.overtaken /\ pass'.at = "plan"
  BY <1>1 DEF Observe, TypeOK, Resting, Passes, Optional
<1>4. TypeOK'
  BY <1>1, <1>2, <1>3 DEF Observe, TypeOK, SoundViews, Attached
<1>5. SeenFits' /\ Counted' /\ Current' /\ PinsFitTheirDisplay'
  BY <1>2, <1>3 DEF Typed, Observe, SoundViews, SeenFits, Counted, Current, PinsFitTheirDisplay
<1> QED  BY <1>4, <1>5 DEF Typed

LEMMA StartOverTyped == ASSUME Typed, StartOver PROVE Typed'
<1>1. pass' \in Passes /\ Idle'
  BY DEF StartOver, Resting, Passes, Optional, Idle
<1>2. TypeOK'
  BY <1>1 DEF StartOver, Typed, TypeOK, Attached
<1>3. SeenFits' /\ Counted' /\ Current' /\ PinsFitTheirDisplay'
  BY <1>1 DEF Typed, StartOver, SeenFits, Counted, Current, PinsFitTheirDisplay
<1> QED  BY <1>2, <1>3 DEF Typed

(* The pass whose plan is applied works from the live document.            *)
LEMMA PlansTheDocument ==
    ASSUME Typed, pass.at = "plan", ~pass.overtaken
    PROVE  pass.doc = doc /\ doc \in Document /\ IsPlan(Plan(doc), Len(doc.outputs))
BY PlanIsTyped DEF Typed, TypeOK, Current, Idle

LEMMA ApplyTyped == ASSUME Typed, NEW refused, Apply(refused) PROVE Typed'
<1> DEFINE plan == Plan(doc)
           n == Len(doc.outputs)
           found == UNION {plan[i].divergences : i \in DOMAIN plan}
           failed == IF refused = None THEN {}
                     ELSE {Divergence("command_failed", plan[refused[1]].to)}
<1>1. /\ pass.at = "plan" /\ ~pass.overtaken
      /\ IF refused = None THEN UNCHANGED events ELSE Count
      /\ UNCHANGED <<doc, stored, history, status>>
  BY DEF Apply
<1>2. pass.doc = doc /\ doc \in Document /\ IsPlan(plan, n) /\ n \in Nat
  BY <1>1, PlansTheDocument, DocumentProperties
<1>3. /\ refused \in Optional(Commands(plan))
      /\ real' = Obeyed(Heard(plan, refused))
      /\ applied' = Recorded(plan)
      /\ requested' = (requested \/ Commands(plan) # {})
      /\ seen' = IF Commands(plan) = {} THEN seen ELSE View'
      /\ pass' = [pass EXCEPT !.at = "conclude", !.divergences = found \cup failed]
  BY <1>2 DEF Apply
<1>4. SoundOutputs(real) /\ SoundViews(seen) /\ TypeOK /\ \A image \in Images : stored[image] \in Nat
  BY TypedParts DEF Typed
<1> HIDE DEF plan, n, found, failed
<1>5. SoundOutputs(real')
  <2>1. IsPlan(Heard(plan, refused), n)
    BY <1>2, <1>3, HeardProperties
  <2>2. \A c \in Connectors : Sound(real'[c])
    BY <1>2, <1>3, <1>4, <2>1, ObeyedIsSound DEF SoundOutputs
  <2>3. real' = [c \in Connectors |-> real'[c]]
    BY <1>3 DEF Obeyed
  <2>4. \A c \in Connectors : real'[c] \in Outputs
    BY <2>2 DEF Sound
  <2>5. real' \in [Connectors -> Outputs]
    BY <2>3, <2>4
  <2> QED  BY <2>2, <2>5 DEF SoundOutputs
<1>6. SoundViews(seen')
  BY <1>3, <1>4, <1>5, ViewIsViewOf, ViewIsSound
<1>7. DOMAIN applied' \subseteq Connectors /\ \A c \in DOMAIN applied' : applied'[c] \in Record
  <2>1. \A i \in 1..n : plan[i].applied \in Optional(Record)
    BY <1>2 DEF IsPlan, Steps
  <2> QED  BY <1>2, <1>3, <2>1, RecordedProperties DEF Optional
<1>8. pass' \in Passes /\ pass'.overtaken = pass.overtaken /\ pass'.doc = doc /\ pass'.at = "conclude"
  <2>1. DOMAIN plan = 1..n /\ \A i \in 1..n : plan[i] \in Steps
    BY <1>2 DEF IsPlan
  <2>2. found \in SUBSET Divergences
    BY <2>1 DEF Steps, found
  <2>3. failed \in SUBSET Divergences
    <3>1. CASE refused = None
      BY <3>1 DEF failed
    <3>2. CASE refused # None
      <4>1. PICK i \in 1..n, what \in Settings : refused = <<i, what>> /\ plan[i].set[what] # None
        BY <1>3, <2>1, <3>2 DEF Optional, Commands
      <4>2. plan[i].to # None
        BY <1>2, <1>4, <4>1, NothingForNobody DEF plan, n
      <4>3. plan[i].to \in Connectors
        BY <2>1, <4>2 DEF Steps, Optional
      <4>4. Divergence("command_failed", plan[i].to) \in Divergences
        BY <4>3 DEF Divergence, Divergences, Kinds
      <4> QED  BY <3>2, <4>1, <4>4 DEF failed
    <3> QED  BY <3>1, <3>2
  <2>4. pass \in Passes
    BY <1>4 DEF TypeOK
  <2> QED  BY <1>2, <1>3, <2>2, <2>3, <2>4 DEF Passes
<1>9. requested' \in BOOLEAN /\ (requested => requested')
  BY <1>3, <1>4 DEF TypeOK
<1>10. events' \in 0..MaxEvents /\ events' \in Nat /\ events \in Nat /\ events <= events'
  BY <1>1, <1>4, CountIsTyped, OutputPlanAssumption DEF TypeOK
<1>11. TypeOK'
  <2>1. \A c \in Connectors : Attached(c)' => real'[c].mode \in Offers[real'[c].display]
    BY <1>5 DEF SoundOutputs, Sound, Attached
  <2> QED  BY <1>1, <1>4, <1>5, <1>6, <1>7, <1>8, <1>9, <1>10, <2>1
           DEF TypeOK, SoundOutputs, SoundViews
<1>12. SeenFits' /\ Current' /\ PinsFitTheirDisplay'
  BY <1>1, <1>6, <1>8, <1>9 DEF Typed, SoundViews, SeenFits, Current, Idle, PinsFitTheirDisplay
<1>13. Counted'
  <2>1. \A image \in Images : stored'[image] <= events + 1 /\ stored'[image] \in Nat
    BY <1>1, <1>4 DEF Typed, Counted
  <2> QED  BY <1>10, <2>1 DEF Counted
<1> QED  BY <1>11, <1>12, <1>13 DEF Typed

LEMMA ConcludeTyped == ASSUME Typed, Conclude PROVE Typed'
<1>1. SoundViews(seen) /\ TypeOK /\ doc \in Document
  BY TypedParts DEF Typed, TypeOK
<1> DEFINE outputs == [i \in DOMAIN doc.outputs |-> Adopted(doc.outputs[i])]
<1>2. \A i \in DOMAIN doc.outputs : doc.outputs[i] \in Entry /\ Fits(doc.outputs[i].adopted)
  BY <1>1, DocumentProperties DEF Typed, PinsFitTheirDisplay
<1>3. \A i \in DOMAIN doc.outputs : outputs[i] \in Entry /\ Fits(outputs[i].adopted)
  BY <1>1, <1>2, AdoptedIsTyped
<1>4. DOMAIN outputs = DOMAIN doc.outputs
      /\ outputs = [i \in DOMAIN doc.outputs |-> outputs[i]]
  OBVIOUS
<1>5. doc' = [doc EXCEPT !.outputs = outputs]
  BY DEF Conclude
<1> HIDE DEF outputs
<1>6. doc' \in Document /\ doc'.outputs = outputs
  BY <1>1, <1>3, <1>4, <1>5, Rewritten
<1>7. PinsFitTheirDisplay'
  BY <1>3, <1>4, <1>6 DEF PinsFitTheirDisplay
<1>8. pass' \in Passes /\ Idle'
  BY DEF Conclude, Resting, Passes, Optional, Idle
<1>9. DOMAIN history' \subseteq Connectors
  BY <1>1 DEF TypeOK, Conclude
<1>10. TypeOK'
  BY <1>1, <1>6, <1>8, <1>9 DEF TypeOK, Conclude, Attached
<1>11. SeenFits' /\ Counted' /\ Current'
  BY <1>8 DEF Typed, Conclude, SeenFits, Counted, Current
<1> QED  BY <1>7, <1>10, <1>11 DEF Typed

LEMMA PollTyped == ASSUME Typed, Poll PROVE Typed'
<1>1. SoundOutputs(real) /\ TypeOK
  BY TypedParts DEF Typed
<1>2. SoundViews(seen')
  BY <1>1, ViewIsViewOf, ViewIsSound DEF Poll
<1>3. TypeOK'
  BY <1>1, <1>2 DEF Poll, TypeOK, SoundViews, Attached
<1>4. SeenFits' /\ Counted' /\ Current' /\ PinsFitTheirDisplay'
  BY <1>2 DEF Typed, Poll, SoundViews, SeenFits, Counted, Current, Idle, PinsFitTheirDisplay
<1> QED  BY <1>3, <1>4 DEF Typed

LEMMA WriteTyped ==
    ASSUME Typed, NEW config \in Configs, NEW keeps \in BOOLEAN, Write(config, keeps)
    PROVE  Typed'
<1>1. TypeOK /\ doc \in Document /\ config \in Document
  BY OutputPlanAssumption DEF Typed, TypeOK
<1> DEFINE same(entry) == {i \in DOMAIN doc.outputs : doc.outputs[i].rule = entry.rule}
           pin(entry) == IF keeps /\ same(entry) # {}
                         THEN doc.outputs[CHOOSE i \in same(entry) : TRUE].adopted
                         ELSE entry.adopted
           outputs == [i \in DOMAIN config.outputs |->
                         [config.outputs[i] EXCEPT !.adopted = pin(config.outputs[i])]]
<1>2. doc' = [config EXCEPT !.outputs = outputs]
  BY DEF Write
<1>3. \A i \in DOMAIN config.outputs :
        config.outputs[i] \in Entry /\ Fits(config.outputs[i].adopted)
  BY <1>1, DocumentProperties, OutputPlanAssumption
<1>4. \A i \in DOMAIN doc.outputs :
        /\ doc.outputs[i].adopted \in Optional(Pin) /\ Fits(doc.outputs[i].adopted)
  BY <1>1, DocumentProperties DEF Typed, PinsFitTheirDisplay, Entry
<1>5. ASSUME NEW i \in DOMAIN config.outputs
      PROVE  outputs[i] \in Entry /\ Fits(outputs[i].adopted)
  <2> DEFINE entry == config.outputs[i]
  <2>1. entry \in Entry /\ Fits(entry.adopted) /\ entry.adopted \in Optional(Pin)
    BY <1>3 DEF Entry
  <2>2. same(entry) # {} => (CHOOSE j \in same(entry) : TRUE) \in DOMAIN doc.outputs
    OBVIOUS
  <2>3. pin(entry) \in Optional(Pin) /\ Fits(pin(entry))
    <3> HIDE DEF same, entry
    <3> QED  BY <1>4, <2>1, <2>2
  <2>4. outputs[i] = [entry EXCEPT !.adopted = pin(entry)]
    OBVIOUS
  <2> HIDE DEF entry, pin, outputs
  <2> QED  BY <2>1, <2>3, <2>4 DEF Entry
<1>6. DOMAIN outputs = DOMAIN config.outputs
      /\ outputs = [i \in DOMAIN config.outputs |-> outputs[i]]
  OBVIOUS
<1> HIDE DEF outputs
<1>7. doc' \in Document /\ doc'.outputs = outputs
  BY <1>1, <1>2, <1>5, <1>6, Rewritten
<1>8. PinsFitTheirDisplay'
  BY <1>5, <1>6, <1>7 DEF PinsFitTheirDisplay
<1>9. pass' \in Passes /\ requested' /\ pass'.at = pass.at /\ (~Idle => pass'.overtaken)
  BY <1>1 DEF Write, TypeOK, Passes, Idle
<1>10. events' \in 0..MaxEvents /\ events' = events + 1 /\ events \in Nat
  BY CountIsTyped DEF Write
<1>11. TypeOK'
  BY <1>1, <1>7, <1>9, <1>10 DEF TypeOK, Write, Attached
<1>12. SeenFits' /\ Current'
  BY <1>9 DEF Typed, Write, SeenFits, Current, Idle
<1>13. Counted'
  <2>1. stored' = stored /\ \A image \in Images : stored[image] \in Nat /\ stored[image] <= events + 1
    BY TypedParts DEF Typed, Write, Counted
  <2> QED  BY <1>10, <2>1 DEF Counted
<1> QED  BY <1>8, <1>11, <1>12, <1>13 DEF Typed

LEMMA UploadTyped == ASSUME Typed, NEW image \in Images, Upload(image) PROVE Typed'
<1>1. TypeOK /\ \A i \in Images : stored[i] \in Nat /\ stored[i] <= events + 1
  BY TypedParts DEF Typed, Counted
<1>2. events' \in 0..MaxEvents /\ events' = events + 1 /\ events \in Nat
  BY CountIsTyped DEF Upload
<1>3. \A i \in Images : stored'[i] = IF i = image THEN stored[i] + 1 ELSE stored[i]
  BY <1>1 DEF TypeOK, Upload
<1>4. \A i \in Images : stored'[i] \in 0..(MaxEvents + 1) /\ stored'[i] <= events' + 1
  BY <1>1, <1>2, <1>3, OutputPlanAssumption
<1>5. stored' = [i \in Images |-> stored'[i]]
  BY <1>1 DEF TypeOK, Upload
<1>6. stored' \in [Images -> 0..MaxEvents + 1]
  BY <1>4, <1>5
<1>7. TypeOK'
  BY <1>1, <1>2, <1>6 DEF TypeOK, Upload, daemon, Attached
<1>8. SeenFits' /\ Current' /\ PinsFitTheirDisplay' /\ Counted'
  BY <1>4 DEF Typed, Upload, daemon, SeenFits, Current, Idle, PinsFitTheirDisplay, Counted
<1> QED  BY <1>7, <1>8 DEF Typed

LEMMA DeleteTyped == ASSUME Typed, NEW image \in Images, Delete(image) PROVE Typed'
<1>1. TypeOK /\ \A i \in Images : stored[i] \in Nat /\ stored[i] <= events + 1
  BY TypedParts DEF Typed, Counted
<1>2. events' \in 0..MaxEvents /\ events' = events + 1 /\ events \in Nat
  BY CountIsTyped DEF Delete
<1>3. \A i \in Images : stored'[i] = IF i = image THEN 0 ELSE stored[i]
  BY <1>1 DEF TypeOK, Delete
<1>4. \A i \in Images : stored'[i] \in 0..(MaxEvents + 1) /\ stored'[i] <= events' + 1
  BY <1>1, <1>2, <1>3, OutputPlanAssumption DEF TypeOK
<1>5. stored' = [i \in Images |-> stored'[i]]
  BY <1>1 DEF TypeOK, Delete
<1>6. stored' \in [Images -> 0..MaxEvents + 1]
  BY <1>4, <1>5
<1>7. TypeOK'
  BY <1>1, <1>2, <1>6 DEF TypeOK, Delete, daemon, Attached
<1>8. SeenFits' /\ Current' /\ PinsFitTheirDisplay' /\ Counted'
  BY <1>4 DEF Typed, Delete, daemon, SeenFits, Current, Idle, PinsFitTheirDisplay, Counted
<1> QED  BY <1>7, <1>8 DEF Typed

(* Whatever happens to an output, it stays as sway leaves outputs.         *)
LEMMA AnnouncedTyped ==
    ASSUME Typed, NEW outputs, SoundOutputs(outputs), Announced(outputs)
    PROVE  Typed'
<1>1. TypeOK
  BY DEF Typed
<1>2. events' \in 0..MaxEvents /\ events' = events + 1 /\ events \in Nat
  BY CountIsTyped DEF Announced
<1>3. \A c \in Connectors : Attached(c)' => real'[c].mode \in Offers[real'[c].display]
  BY DEF SoundOutputs, Sound, Announced, Attached
<1>4. TypeOK'
  BY <1>1, <1>2, <1>3 DEF TypeOK, Announced, daemon, SoundOutputs
<1>5. Counted'
  BY <1>2, TypedParts DEF Typed, Announced, Counted
<1>6. SeenFits' /\ Current' /\ PinsFitTheirDisplay'
  BY DEF Typed, Announced, daemon, SeenFits, Current, Idle, PinsFitTheirDisplay
<1> QED  BY <1>4, <1>5, <1>6 DEF Typed

LEMMA UnplugTyped == ASSUME Typed, NEW c \in Connectors, Unplug(c) PROVE Typed'
<1>1. SoundOutputs(real)
  BY TypedParts
<1>2. SoundOutputs([real EXCEPT ![c].display = None])
  BY <1>1 DEF SoundOutputs, Sound, Outputs, Optional
<1> QED  BY <1>2, AnnouncedTyped DEF Unplug

LEMMA PlugTyped ==
    ASSUME Typed, NEW c \in Connectors, NEW display \in Displays, NEW mode \in Rates,
           Plug(c, display, mode)
    PROVE  Typed'
<1>1. SoundOutputs(real) /\ mode \in Offers[display]
  BY TypedParts DEF Plug
<1> DEFINE o == [real[c] EXCEPT !.display = display, !.mode = mode]
<1>2. SoundOutputs([real EXCEPT ![c].display = display, ![c].mode = mode])
  <2>1. real[c] \in Outputs
    BY <1>1 DEF SoundOutputs
  <2>2. Sound(o) /\ o \in Outputs
    BY <1>1, <2>1 DEF Sound, Outputs, Optional
  <2>3. [real EXCEPT ![c].display = display, ![c].mode = mode] = [real EXCEPT ![c] = o]
    BY <1>1 DEF SoundOutputs
  <2> HIDE DEF o
  <2>4. SoundOutputs([real EXCEPT ![c] = o])
    BY <1>1, <2>2 DEF SoundOutputs
  <2> QED  BY <2>3, <2>4
<1> QED  BY <1>2, AnnouncedTyped DEF Plug

LEMMA NegotiateTyped ==
    ASSUME Typed, NEW c \in Connectors, NEW mode \in Rates, Negotiate(c, mode)
    PROVE  Typed'
<1>1. SoundOutputs(real) /\ mode \in Offers[real[c].display]
  BY TypedParts DEF Negotiate
<1>2. SoundOutputs([real EXCEPT ![c].mode = mode])
  BY <1>1 DEF SoundOutputs, Sound, Outputs, Optional
<1> QED  BY <1>2, AnnouncedTyped DEF Negotiate

LEMMA RearrangeTyped ==
    ASSUME Typed, NEW c \in Connectors, NEW spot \in Spots, Rearrange(c, spot)
    PROVE  Typed'
<1>1. SoundOutputs(real)
  BY TypedParts
<1>2. SoundOutputs([real EXCEPT ![c].at = spot])
  BY <1>1 DEF SoundOutputs, Sound, Outputs, Optional
<1> QED  BY <1>2, AnnouncedTyped DEF Rearrange

LEMMA RestartTyped == ASSUME Typed, Restart PROVE Typed'
<1>1. TypeOK
  BY DEF Typed
<1>2. pass' \in Passes /\ Idle'
  BY DEF Restart, Resting, Passes, Optional, Idle
<1>3. events' \in 0..MaxEvents /\ events' = events + 1 /\ events \in Nat
  BY CountIsTyped DEF Restart
<1>4. DOMAIN seen' = {} /\ DOMAIN applied' = {} /\ DOMAIN history' = {}
  BY DEF Restart
<1>5. TypeOK'
  BY <1>1, <1>2, <1>3, <1>4 DEF TypeOK, Restart, Attached
<1>6. Counted'
  BY <1>3, TypedParts DEF Typed, Restart, Counted
<1>7. SeenFits' /\ Current' /\ PinsFitTheirDisplay'
  BY <1>2, <1>4 DEF Typed, Restart, SeenFits, Current, PinsFitTheirDisplay
<1> QED  BY <1>5, <1>6, <1>7 DEF Typed

LEMMA StutterTyped == ASSUME Typed, UNCHANGED vars PROVE Typed'
BY DEF Typed, TypeOK, Counted, SeenFits, Current, PinsFitTheirDisplay, vars, daemon, Attached, Idle

LEMMA NextTyped == ASSUME Typed, [Next]_vars PROVE Typed'
<1>1. CASE Observe
  BY <1>1, ObserveTyped
<1>2. CASE StartOver
  BY <1>2, StartOverTyped
<1>3. CASE Conclude
  BY <1>3, ConcludeTyped
<1>4. CASE \E refused : Apply(refused)
  BY <1>4, ApplyTyped
<1>5. CASE Poll
  BY <1>5, PollTyped
<1>6. CASE \E config \in Configs, keeps \in BOOLEAN : Write(config, keeps)
  BY <1>6, WriteTyped
<1>7. CASE \E image \in Images : Upload(image) \/ Delete(image)
  BY <1>7, UploadTyped, DeleteTyped
<1>8. CASE \E c \in Connectors : Unplug(c)
  BY <1>8, UnplugTyped
<1>9. CASE \E c \in Connectors, display \in Displays, mode \in Rates : Plug(c, display, mode)
  BY <1>9, PlugTyped
<1>10. CASE \E c \in Connectors, mode \in Rates : Negotiate(c, mode)
  BY <1>10, NegotiateTyped
<1>11. CASE \E c \in Connectors, spot \in Spots : Rearrange(c, spot)
  BY <1>11, RearrangeTyped
<1>12. CASE Restart
  BY <1>12, RestartTyped
<1>13. CASE UNCHANGED vars
  BY <1>13, StutterTyped
<1> QED  BY <1>1, <1>2, <1>3, <1>4, <1>5, <1>6, <1>7, <1>8, <1>9, <1>10, <1>11, <1>12, <1>13
         DEF Next, Work, Rest

THEOREM TypedInvariant == Spec => []Typed
<1>1. Init => Typed
  BY InitTyped
<1>2. Typed /\ [Next]_vars => Typed'
  BY NextTyped
<1> QED  BY <1>1, <1>2, PTL DEF Spec

(* Type correctness: whatever was written, plugged, uploaded and refused,  *)
(* every output keeps settings that its display has, and everything that   *)
(* was seen, recorded or pinned is what such a thing can be.               *)
THEOREM TypeCorrect == Spec => []TypeOK
<1>1. Typed => TypeOK
  BY DEF Typed
<1> QED  BY <1>1, TypedInvariant, PTL

(* adoption_for pins a mode for a display that has it, although what it is *)
(* compared with was seen at another time, perhaps of another display.     *)
THEOREM PinsFit == Spec => []PinsFitTheirDisplay
<1>1. Typed => PinsFitTheirDisplay
  BY DEF Typed
<1> QED  BY <1>1, TypedInvariant, PTL
-----------------------------------------------------------------------------
(* What a step of a plan means, and what sway makes of it.                 *)

(* What a step for an output that is to be on sets, compared with what was *)
(* seen of the output and recorded of it.                                  *)
Asks(p, d, entry, c) ==
    LET image == Background(d, entry)
        wanted == EffectiveMode(entry)
        Known == c \in DOMAIN applied /\ seen[c].active
    IN  /\ p.applied = [tearing |-> entry.tearing, paper |-> entry.paper, image |-> image]
        /\ p.set.enable = IF seen[c].active THEN None ELSE TRUE
        /\ \/ p.set.tearing # None /\ p.set.tearing = entry.tearing
           \/ p.set.tearing = None /\ Known /\ applied[c].tearing = entry.tearing
        /\ \/ image = None
           \/ p.set.image # None /\ p.set.image = image
           \/ p.set.image = None /\ Divergence("wallpaper_not_found", c) \in p.divergences
           \/ p.set.image = None /\ Known /\ applied[c].image = image
        /\ entry.at # None /\ p.set.at = None => seen[c].at = entry.at
        /\ wanted # None /\ seen[c].active /\ p.set.mode = None /\ p.divergences = {}
             => seen[c].mode = ResolveMode(Offers[seen[c].display], wanted)

(* What becomes of an output that is told something.                       *)
Obeys(r, o, set) ==
    /\ set.enable = None => r.active = o.active
    /\ r.active /\ set.tearing # None => r.tearing = set.tearing
    /\ r.active /\ set.image # None
         => r.image = [id |-> set.image, version |-> stored[set.image]]
    /\ o.active /\ set.tearing = None => r.tearing = o.tearing
    /\ o.active /\ set.image = None => r.image = o.image
    /\ (\A what \in Settings : set[what] = None) => r = o

LEMMA PlanOnMeans ==
    ASSUME TypeOK, NEW d \in Document, NEW entry \in Entry, NEW c \in DOMAIN seen
    PROVE  Asks(PlanOn(d, entry, c), d, entry, c)
<1> DEFINE output == seen[c]
           before == IF c \in DOMAIN applied THEN applied[c] ELSE Unmanaged
           force == Forced(before, output)
           wanted == EffectiveMode(entry)
           target == IF wanted = None THEN None
                     ELSE IF output.active THEN ResolveMode(Offers[output.display], wanted)
                     ELSE wanted
           image == Background(d, entry)
           paint == image # None /\ (force \/ Repaints(before, entry, image))
           enable == When(~output.active, TRUE)
           mode == When(force \/ ModeDiffers(output.mode, target, wanted), target)
           at == When(force \/ output.at # entry.at, entry.at)
           tearing == When(force \/ before.tearing # entry.tearing, entry.tearing)
           picture == When(paint /\ stored[image] > 0, image)
           set == [enable |-> enable, mode |-> mode, at |-> at, tearing |-> tearing,
                   image |-> picture]
           unsupported ==
             IF wanted # None /\ target = None THEN {Divergence("mode_unsupported", c)} ELSE {}
           missing ==
             IF paint /\ stored[image] = 0 THEN {Divergence("wallpaper_not_found", c)} ELSE {}
           record == [tearing |-> entry.tearing, paper |-> entry.paper, image |-> image]
           p == PlanOn(d, entry, c)
<1>1. p = [to |-> c, set |-> set, divergences |-> unsupported \cup missing, applied |-> record]
  BY DEF PlanOn
<1>2. c \in Connectors /\ output \in Views /\ output.active \in BOOLEAN
  BY DEF TypeOK, Views
<1>3. /\ entry.at \in Optional(Spots) /\ entry.tearing \in BOOLEAN /\ image \in Optional(Images)
  BY EntryProperties
<1>4. ~force => c \in DOMAIN applied /\ before = applied[c] /\ output.active
  <2>1. c \notin DOMAIN applied => before = Unmanaged
    OBVIOUS
  <2>2. c \in DOMAIN applied => before = applied[c]
    OBVIOUS
  <2> HIDE DEF before
  <2> QED  BY <2>1, <2>2 DEF Forced
<1>5. p.applied = record /\ p.set = set /\ p.divergences = unsupported \cup missing
  BY <1>1
<1> HIDE DEF p
<1>6. p.set.enable = IF output.active THEN None ELSE TRUE
  <2>1. p.set.enable = enable
    BY <1>5
  <2> HIDE DEF output
  <2> QED  BY <1>2, <2>1 DEF When
<1>7. \/ p.set.tearing # None /\ p.set.tearing = entry.tearing
      \/ p.set.tearing = None /\ c \in DOMAIN applied /\ output.active
         /\ applied[c].tearing = entry.tearing
  <2>1. p.set.tearing = tearing
    BY <1>5
  <2>2. entry.tearing # None
    BY <1>3, NoneIsApart
  <2> HIDE DEF force, before, output
  <2>3. CASE force \/ before.tearing # entry.tearing
    BY <2>1, <2>2, <2>3 DEF When
  <2>4. CASE ~force /\ before.tearing = entry.tearing
    BY <1>4, <2>1, <2>4 DEF When
  <2> QED  BY <2>3, <2>4
<1>8. \/ image = None
      \/ p.set.image # None /\ p.set.image = image
      \/ p.set.image = None /\ Divergence("wallpaper_not_found", c) \in p.divergences
      \/ p.set.image = None /\ c \in DOMAIN applied /\ output.active
         /\ applied[c].image = image
  <2>1. p.set.image = picture
    BY <1>5
  <2> HIDE DEF image, force, before, output
  <2>2. SUFFICES ASSUME image # None
        PROVE  \/ picture # None /\ picture = image
               \/ picture = None /\ Divergence("wallpaper_not_found", c) \in p.divergences
               \/ picture = None /\ c \in DOMAIN applied /\ output.active
                  /\ applied[c].image = image
    BY <2>1
  <2>3. image \in Images /\ (stored[image] > 0 \/ stored[image] = 0)
        /\ ~(stored[image] > 0 /\ stored[image] = 0)
    <3>1. image \in Images
      BY <1>3, <2>2 DEF Optional
    <3>2. stored[image] \in Nat
      BY <3>1, OutputPlanAssumption DEF TypeOK
    <3> QED  BY <3>1, <3>2
  <2>4. CASE ~paint
    BY <1>4, <2>2, <2>4 DEF When, Repaints
  <2>5. CASE paint /\ stored[image] > 0
    BY <2>2, <2>5 DEF When
  <2>6. CASE paint /\ stored[image] = 0
    BY <1>5, <2>3, <2>6 DEF When
  <2> QED  BY <2>3, <2>4, <2>5, <2>6
<1>9. entry.at # None /\ p.set.at = None => output.at = entry.at
  <2>1. p.set.at = at
    BY <1>5
  <2> HIDE DEF force, output
  <2> QED  BY <2>1 DEF When
<1>10. wanted # None /\ output.active /\ p.set.mode = None /\ p.divergences = {}
         => output.mode = ResolveMode(Offers[output.display], wanted)
  <2>1. p.set.mode = mode
    BY <1>5
  <2> HIDE DEF force, output, wanted, missing
  <2>2. p.divergences = {} => unsupported = {}
    BY <1>5
  <2> QED  BY <2>1, <2>2 DEF When, ModeDiffers
<1>11. p.applied = record
  BY <1>5
<1> HIDE DEF before, force, target, paint, enable, mode, at, tearing, picture, set,
             unsupported, missing
<1>12. Asks(p, d, entry, c)
  BY <1>6, <1>7, <1>8, <1>9, <1>10, <1>11 DEF Asks
<1> QED  BY <1>12 DEF p

LEMMA ObeyMeans ==
    ASSUME NEW o \in Outputs, NEW set \in Sets
    PROVE  Obeys(Obey(o, set), o, set)
<1> DEFINE on == CASE set.enable = TRUE /\ ~o.active -> SwitchedOn(o.display)
                 [] set.enable = FALSE -> [o EXCEPT !.active = FALSE]
                 [] OTHER -> o
           has(mode) == o.display # None /\ mode \in Offers[o.display]
           m == IF has(set.mode) THEN set.mode ELSE on.mode
           a == IF set.at # None THEN set.at ELSE on.at
           pinned == on.pinned \/ set.at # None
           t == IF set.tearing # None THEN set.tearing ELSE on.tearing
           i == IF set.image # None
                THEN [id |-> set.image, version |-> stored[set.image]] ELSE on.image
           told == [on EXCEPT !.mode = m, !.at = a, !.pinned = pinned, !.tearing = t, !.image = i]
           r == Obey(o, set)
<1>1. r = IF ~on.active THEN on ELSE told
  BY DEF Obey
<1>2. /\ set.enable = None => on = o
      /\ o.active => on.tearing = o.tearing /\ on.image = o.image
      /\ DOMAIN on = {"display", "active", "mode", "at", "pinned", "tearing", "image"}
  <2>1. CASE set.enable = TRUE /\ ~o.active
    BY <2>1, NoneIsApart DEF SwitchedOn
  <2>2. CASE set.enable = FALSE
    BY <2>2, NoneIsApart DEF Outputs
  <2>3. CASE ~(set.enable = TRUE /\ ~o.active) /\ set.enable # FALSE
    BY <2>3 DEF Outputs
  <2> QED  BY <2>1, <2>2, <2>3
<1> HIDE DEF r, on
<1>3. told.active = on.active /\ told.tearing = t /\ told.image = i
  BY <1>2
<1>4. ASSUME \A what \in Settings : set[what] = None PROVE r = o
  <2>1. /\ set.enable = None /\ set.mode = None /\ set.at = None /\ set.tearing = None
        /\ set.image = None
    BY <1>4 DEF Settings
  <2>2. on = o
    BY <1>2, <2>1
  <2>3. o.active \in BOOLEAN /\ o.pinned \in BOOLEAN /\ o.display \in Optional(Displays)
    BY DEF Outputs
  <2>4. ~has(set.mode)
    BY <2>1, <2>3, OffersAreNat, NoneIsApart DEF Optional
  <2>5. m = o.mode /\ a = o.at /\ pinned = o.pinned /\ t = o.tearing /\ i = o.image
    BY <2>1, <2>2, <2>3, <2>4
  <2> HIDE DEF m, a, pinned, t, i
  <2>6. told = o
    BY <2>2, <2>5 DEF Outputs
  <2> QED  BY <1>1, <2>2, <2>6
<1>5. Obeys(r, o, set)
  BY <1>1, <1>2, <1>3, <1>4 DEF Obeys
<1> QED  BY <1>5 DEF r
-----------------------------------------------------------------------------
(* What a pass does when no two entries are for one output.                *)

LEMMA ViewOfProperties ==
    ASSUME NEW r, SoundOutputs(r), NEW c \in DOMAIN ViewOf(r)
    PROVE  /\ c \in Connectors /\ r[c].display \in Displays
           /\ ViewOf(r)[c].display = r[c].display /\ ViewOf(r)[c].active = r[c].active
           /\ r[c].active => ViewOf(r)[c].mode = r[c].mode /\ ViewOf(r)[c].at = r[c].at
<1>1. c \in Connectors /\ r[c].display # None
  BY DEF ViewOf
<1>2. r[c].display \in Displays /\ r[c].active \in BOOLEAN
  BY <1>1 DEF SoundOutputs, Outputs, Optional
<1>3. ViewOf(r)[c] =
        IF r[c].active
        THEN [display |-> r[c].display, active |-> TRUE, mode |-> r[c].mode, at |-> r[c].at]
        ELSE [display |-> r[c].display, active |-> FALSE, mode |-> None, at |-> None]
  BY <1>1 DEF ViewOf
<1>4. CASE r[c].active
  BY <1>1, <1>2, <1>3, <1>4
<1>5. CASE ~r[c].active
  <2>1. r[c].active = FALSE
    BY <1>2, <1>5
  <2>2. ViewOf(r)[c] = [display |-> r[c].display, active |-> FALSE, mode |-> None, at |-> None]
    BY <1>3, <1>5
  <2>3. ViewOf(r)[c].display = r[c].display /\ ViewOf(r)[c].active = FALSE
    BY <2>2
  <2> QED  BY <1>1, <1>2, <1>5, <2>1, <2>3
<1> QED  BY <1>4, <1>5

(* Of entries that are all by connector, or all by identity, no two meet.  *)
LEMMA OneKindIsApart ==
    ASSUME SoundViews(seen), doc \in Document,
           \A i, j \in DOMAIN doc.outputs :
                i # j => doc.outputs[i].rule # doc.outputs[j].rule,
           \/ \A i \in DOMAIN doc.outputs : doc.outputs[i].rule \in Connectors
           \/ \A i \in DOMAIN doc.outputs : doc.outputs[i].rule \in Displays
    PROVE  Apart
<1>1. SUFFICES ASSUME NEW i \in DOMAIN doc.outputs, NEW j \in DOMAIN doc.outputs,
                      OutputOf(doc.outputs[i], seen) # None,
                      OutputOf(doc.outputs[i], seen) = OutputOf(doc.outputs[j], seen)
               PROVE  i = j
  BY DEF Apart
<1> DEFINE c == OutputOf(doc.outputs[i], seen)
           ri == doc.outputs[i].rule
           rj == doc.outputs[j].rule
<1>2. c \in DOMAIN seen /\ Matches(ri, c, seen[c].display) /\ Matches(rj, c, seen[c].display)
  BY <1>1, OutputOfProperties DEF SoundViews
<1>3. c \in Connectors /\ seen[c].display \in Displays
  BY <1>2 DEF SoundViews, Views
<1>4. i # j => ri # rj
  OBVIOUS
<1>5. \/ ri \in Connectors /\ rj \in Connectors
      \/ ri \in Displays /\ rj \in Displays
  OBVIOUS
<1> HIDE DEF c, ri, rj
<1> QED  BY <1>2, <1>3, <1>4, <1>5, NoneIsApart DEF Matches

(* The plan of a document, command by command, and what becomes of each    *)
(* output.                                                                 *)
LEMMA AppliedProperties ==
    ASSUME Typed, Apart, NEW refused, Apply(refused)
    PROVE  LET n == Len(doc.outputs)
               P == Plan(doc)
               H == Heard(P, refused)
           IN  /\ pass.doc = doc /\ doc \in Document /\ n \in Nat /\ IsPlan(P, n) /\ IsPlan(H, n)
               /\ refused \in Optional(Commands(P))
               /\ \A i \in 1..n : /\ doc.outputs[i] \in Entry
                                  /\ P[i] = PlanEntry(doc, doc.outputs[i])
                                  /\ P[i].to = OutputOf(doc.outputs[i], seen)
                                  /\ P[i].to \in Optional(Connectors)
                                  /\ H[i].to = P[i].to
                                  /\ \A what \in Settings :
                                        H[i].set[what] = IF refused = <<i, what>> THEN None
                                                         ELSE P[i].set[what]
               /\ \A i, j \in 1..n : P[i].to # None /\ P[i].to = P[j].to => i = j
               /\ \A c \in Connectors :
                    /\ (\A i \in 1..n : P[i].to # c) => real'[c] = real[c]
                    /\ \A i \in 1..n : P[i].to = c => real'[c] = Obey(real[c], H[i].set)
<1> DEFINE n == Len(doc.outputs)
           P == Plan(doc)
           H == Heard(P, refused)
<1>1. TypeOK /\ SoundViews(seen) /\ SoundOutputs(real)
  BY TypedParts DEF Typed
<1>2. pass.doc = doc /\ doc \in Document /\ IsPlan(P, n) /\ n \in Nat
  BY PlansTheDocument, DocumentProperties DEF Apply
<1>3. refused \in Optional(Commands(P)) /\ real' = Obeyed(H)
  BY <1>2 DEF Apply
<1>4. IsPlan(H, n) /\ \A i \in 1..n : /\ H[i].to = P[i].to
                                      /\ \A what \in Settings :
                                           H[i].set[what] = IF refused = <<i, what>> THEN None
                                                            ELSE P[i].set[what]
  <2> HIDE DEF n, P
  <2> QED  BY <1>2, <1>3, HeardProperties
<1>5. \A i \in 1..n : doc.outputs[i] \in Entry /\ P[i] = PlanEntry(doc, doc.outputs[i])
  BY <1>2, DocumentProperties DEF Plan
<1>6. \A i \in 1..n : P[i].to = OutputOf(doc.outputs[i], seen)
  BY <1>1, <1>2, <1>5, PlanEntryIsTyped
<1>7. \A i \in 1..n : P[i].to \in Optional(Connectors)
  BY <1>2 DEF IsPlan, Steps
<1>8. \A i, j \in 1..n : P[i].to # None /\ P[i].to = P[j].to => i = j
  <2>1. DOMAIN doc.outputs = 1..n
    BY <1>2, DocumentProperties
  <2> HIDE DEF P, n
  <2> QED  BY <1>6, <2>1 DEF Apart
<1>9. ASSUME NEW c \in Connectors
      PROVE  /\ (\A i \in 1..n : P[i].to # c) => real'[c] = real[c]
             /\ \A i \in 1..n : P[i].to = c => real'[c] = Obey(real[c], H[i].set)
  <2> HIDE DEF P, H, n
  <2>1. /\ (\A j \in 1..n : H[j].to # c) => Obeyed(H)[c] = real[c]
        /\ \A i \in 1..n :
             H[i].to = c /\ (\A j \in 1..n : H[j].to = c => j = i)
                 => Obeyed(H)[c] = Obey(real[c], H[i].set)
    BY <1>2, <1>4, ObeyedOnce
  <2>2. c # None
    BY NoneIsApart
  <2> QED  BY <1>3, <1>4, <1>8, <2>1, <2>2
<1> HIDE DEF P, H, n
<1> QED  BY <1>2, <1>3, <1>4, <1>5, <1>6, <1>7, <1>8, <1>9 DEF P, H, n

(* A plan without a command leaves every output as it is.                  *)
LEMMA NothingToDo ==
    ASSUME Typed, Apart, NEW refused, Apply(refused), Commands(Plan(doc)) = {}
    PROVE  refused = None /\ real' = real
<1> DEFINE n == Len(doc.outputs)
           P == Plan(doc)
           H == Heard(P, refused)
<1> HIDE DEF n, P, H
<1>1. /\ doc \in Document /\ n \in Nat /\ IsPlan(P, n) /\ IsPlan(H, n)
      /\ refused \in Optional(Commands(P))
      /\ \A i \in 1..n : \A what \in Settings :
            H[i].set[what] = IF refused = <<i, what>> THEN None ELSE P[i].set[what]
      /\ \A c \in Connectors :
           /\ (\A i \in 1..n : P[i].to # c) => real'[c] = real[c]
           /\ \A i \in 1..n : P[i].to = c => real'[c] = Obey(real[c], H[i].set)
  BY AppliedProperties DEF n, P, H
<1>2. refused = None
  BY <1>1 DEF P, Optional
<1>3. \A i \in 1..n : \A what \in Settings : P[i].set[what] = None
  <2>1. DOMAIN P = 1..n
    BY <1>1 DEF IsPlan
  <2>2. ASSUME NEW i \in 1..n, NEW what \in Settings PROVE P[i].set[what] = None
    <3>1. <<i, what>> \in (DOMAIN P) \X Settings /\ <<i, what>> \notin Commands(P)
      BY <2>1 DEF P
    <3> QED  BY <3>1 DEF Commands
  <2> QED  BY <2>2
<1>4. \A i \in 1..n : H[i].set \in Sets /\ \A what \in Settings : H[i].set[what] = None
  BY <1>1, <1>3 DEF IsPlan, Steps
<1>5. \A c \in Connectors : real[c] \in Outputs
  BY TypedParts DEF SoundOutputs
<1>6. \A c \in Connectors : real'[c] = real[c]
  <2>1. \A c \in Connectors, i \in 1..n : Obey(real[c], H[i].set) = real[c]
    BY <1>4, <1>5, ObeyMeans DEF Obeys
  <2> QED  BY <1>1, <2>1
<1>7. real' \in [Connectors -> Outputs] /\ real \in [Connectors -> Outputs]
  BY TypedParts, ApplyTyped DEF SoundOutputs, Typed, TypeOK
<1> QED  BY <1>2, <1>6, <1>7

LEMMA ApplyFresh == ASSUME Typed, True, Apart, NEW refused, Apply(refused) PROVE Fresh'
<1>1. /\ requested' = (requested \/ Commands(Plan(doc)) # {})
      /\ seen' = IF Commands(Plan(doc)) = {} THEN seen ELSE View'
  BY PlansTheDocument DEF Apply
<1>2. SoundOutputs(real')
  BY ApplyTyped, TypedParts DEF Typed, TypeOK, SoundOutputs, Sound, Attached
<1>3. CASE Commands(Plan(doc)) = {}
  <2>1. real' = real /\ seen' = seen
    BY <1>1, <1>3, NothingToDo
  <2>2. View' = View
    BY <2>1, ViewIsViewOf
  <2>3. ~requested' => ~requested
    BY <1>1
  <2> QED  BY <2>1, <2>2, <2>3 DEF True, Fresh
<1>4. CASE Commands(Plan(doc)) # {}
  <2>1. requested' /\ seen' = ViewOf(real')
    BY <1>1, <1>4, ViewIsViewOf
  <2>2. \A c \in DOMAIN seen' : seen'[c].active = real'[c].active
    BY <1>2, <2>1, ViewOfProperties
  <2> QED  BY <2>1, <2>2 DEF Fresh
<1> QED  BY <1>3, <1>4

(* What a plan records of an output that is then on is so, or is lost.     *)
LEMMA ApplyTold == ASSUME Typed, True, Apart, NEW refused, Apply(refused) PROVE Told'
<1> DEFINE n == Len(doc.outputs)
           P == Plan(doc)
           H == Heard(P, refused)
<1> HIDE DEF n, P, H
<1>1. /\ pass.doc = doc /\ doc \in Document /\ n \in Nat /\ IsPlan(P, n) /\ IsPlan(H, n)
      /\ refused \in Optional(Commands(P))
      /\ \A i \in 1..n : /\ doc.outputs[i] \in Entry
                         /\ P[i] = PlanEntry(doc, doc.outputs[i])
                         /\ P[i].to = OutputOf(doc.outputs[i], seen)
                         /\ H[i].to = P[i].to
                         /\ \A what \in Settings :
                               H[i].set[what] = IF refused = <<i, what>> THEN None
                                                ELSE P[i].set[what]
      /\ \A i, j \in 1..n : P[i].to # None /\ P[i].to = P[j].to => i = j
      /\ \A c \in Connectors : \A i \in 1..n : P[i].to = c => real'[c] = Obey(real[c], H[i].set)
  BY AppliedProperties DEF n, P, H
<1>2. applied' = Recorded(P) /\ lost' = LostAfter(P, refused) /\ stored' = stored
  BY <1>1 DEF Apply, P
<1>3. TypeOK /\ SoundOutputs(real) /\ SoundViews(seen)
  BY TypedParts DEF Typed
<1>4. SUFFICES ASSUME NEW c \in DOMAIN applied', real'[c].active
               PROVE  /\ Lost(c, "tearing")' \/ real'[c].tearing = applied'[c].tearing
                      /\ \/ applied'[c].image = None \/ Lost(c, "image")'
                         \/ real'[c].image # None /\ real'[c].image.id = applied'[c].image
  BY DEF Told
<1>5. c \in Connectors /\ c # None
  BY <1>1, <1>2, RecordedProperties, NoneIsApart
<1>6. PICK i \in 1..n : P[i].to = c /\ P[i].applied # None /\ applied'[c] = P[i].applied
  BY <1>1, <1>2, RecordedProperties
<1> DEFINE entry == doc.outputs[i]
           image == Background(doc, entry)
           s == P[i].set
           h == H[i].set
<1>7. entry \in Entry /\ c \in DOMAIN seen /\ c = OutputOf(entry, seen)
  BY <1>1, <1>3, <1>5, <1>6, OutputOfProperties DEF SoundViews
<1>8. entry.enable /\ P[i] = PlanOn(doc, entry, c)
  <2>1. P[i] = PlanEntry(doc, entry)
    BY <1>1
  <2>2. entry.enable
    <3>1. SUFFICES ASSUME ~entry.enable PROVE FALSE
      OBVIOUS
    <3>2. P[i].applied = None
      BY <1>5, <1>7, <2>1, <3>1 DEF PlanEntry
    <3> QED  BY <1>6, <3>2
  <2> QED  BY <1>5, <1>7, <2>1, <2>2 DEF PlanEntry
<1> HIDE DEF entry
<1>9. /\ applied'[c].tearing = entry.tearing /\ applied'[c].image = image
      /\ s.enable = IF seen[c].active THEN None ELSE TRUE
      /\ \/ s.tearing # None /\ s.tearing = entry.tearing
         \/ s.tearing = None /\ c \in DOMAIN applied /\ seen[c].active
            /\ applied[c].tearing = entry.tearing
      /\ \/ image = None
         \/ s.image # None /\ s.image = image
         \/ s.image = None /\ Divergence("wallpaper_not_found", c) \in P[i].divergences
         \/ s.image = None /\ c \in DOMAIN applied /\ seen[c].active /\ applied[c].image = image
  <2>1. Asks(PlanOn(doc, entry, c), doc, entry, c)
    BY <1>1, <1>3, <1>7, PlanOnMeans
  <2>2. Asks(P[i], doc, entry, c)
    BY <1>8, <2>1
  <2> QED  BY <1>6, <2>2 DEF Asks
<1> HIDE DEF image
<1>10. h \in Sets /\ real[c] \in Outputs /\ real'[c] = Obey(real[c], h)
       /\ real[c].active \in BOOLEAN
  BY <1>1, <1>3, <1>5, <1>6 DEF IsPlan, Steps, SoundOutputs, Outputs
<1>11. /\ h.enable = (IF refused = <<i, "enable">> THEN None ELSE s.enable)
       /\ h.tearing = (IF refused = <<i, "tearing">> THEN None ELSE s.tearing)
       /\ h.image = (IF refused = <<i, "image">> THEN None ELSE s.image)
  BY <1>1 DEF Settings
<1> HIDE DEF s, h
<1>12. /\ h.enable = None => real'[c].active = real[c].active
       /\ h.tearing # None => real'[c].tearing = h.tearing
       /\ h.image # None => real'[c].image = [id |-> h.image, version |-> stored[h.image]]
       /\ real[c].active /\ h.tearing = None => real'[c].tearing = real[c].tearing
       /\ real[c].active /\ h.image = None => real'[c].image = real[c].image
  <2>1. Obeys(real'[c], real[c], h)
    BY <1>10, ObeyMeans
  <2> QED  BY <1>4, <2>1 DEF Obeys
<1>13. seen[c].active = real[c].active
  BY <1>7 DEF True, Fresh
<1>14. DOMAIN P = 1..n
  BY <1>1 DEF IsPlan
<1>15. ASSUME NEW what \in {"tearing", "image"}, refused = <<i, what>> PROVE Lost(c, what)'
  <2>1. refused # None
    <3>1. <<i, what>> \in Nat \X Settings
      BY DEF Settings
    <3> QED  BY <1>15, <3>1, NoneIsApart
  <2>2. <<P[refused[1]].to, refused[2]>> = <<c, what>>
    BY <1>6, <1>15
  <2> QED  BY <1>2, <2>1, <2>2 DEF LostAfter, Lost
<1>16. ASSUME NEW what \in {"tearing", "image"}, Lost(c, what), P[i].set[what] = None
       PROVE  Lost(c, what)'
  <2>1. \A k \in Commands(P) : <<P[k[1]].to, k[2]>> # <<c, what>>
    <3>1. SUFFICES ASSUME NEW k \in Commands(P), P[k[1]].to = c, k[2] = what PROVE FALSE
      OBVIOUS
    <3>2. k[1] \in 1..n /\ P[k[1]].set[k[2]] # None
      BY <1>14 DEF Commands
    <3>3. k[1] = i
      BY <1>1, <1>5, <1>6, <3>1, <3>2
    <3> QED  BY <1>16, <3>1, <3>2, <3>3
  <2> QED  BY <1>2, <1>16, <2>1 DEF LostAfter, Lost
<1>17. Lost(c, "tearing")' \/ real'[c].tearing = applied'[c].tearing
  <2>1. CASE s.tearing # None /\ s.tearing = entry.tearing
    BY <1>9, <1>11, <1>12, <1>15, <2>1
  <2>2. CASE s.tearing = None /\ c \in DOMAIN applied /\ seen[c].active
             /\ applied[c].tearing = entry.tearing
    <3>1. real[c].active /\ h.tearing = None
      BY <1>11, <1>13, <2>2
    <3>2. Lost(c, "tearing") \/ real[c].tearing = applied[c].tearing
      BY <2>2, <3>1 DEF True, Told
    <3>3. Lost(c, "tearing") => Lost(c, "tearing")'
      BY <1>16, <2>2 DEF s
    <3> QED  BY <1>9, <1>12, <2>2, <3>1, <3>2, <3>3
  <2> QED  BY <1>9, <2>1, <2>2
<1>18. \/ applied'[c].image = None \/ Lost(c, "image")'
       \/ real'[c].image # None /\ real'[c].image.id = applied'[c].image
  <2>1. CASE image = None
    BY <1>9, <2>1
  <2>2. CASE s.image # None /\ s.image = image
    <3>1. CASE refused = <<i, "image">>
      BY <1>15, <3>1
    <3>2. CASE refused # <<i, "image">>
      <4>1. h.image = image /\ h.image # None
        BY <1>11, <2>2, <3>2
      <4>2. real'[c].image = [id |-> image, version |-> stored[image]]
        BY <1>12, <4>1
      <4>3. h.image \in Images
        BY <1>10, <4>1 DEF Sets, Optional
      <4>4. stored[image] \in Nat
        BY <4>1, <4>3, TypedParts
      <4>5. [id |-> image, version |-> stored[image]] \in Picture
        BY <4>1, <4>3, <4>4 DEF Picture
      <4> QED  BY <1>9, <4>2, <4>5, NoneIsApart
    <3> QED  BY <3>1, <3>2
  <2>3. CASE Divergence("wallpaper_not_found", c) \in P[i].divergences
    <3> DEFINE m == Divergence("wallpaper_not_found", c)
               missing == {d \in UNION {P[j].divergences : j \in DOMAIN P} :
                              d.kind = "wallpaper_not_found"}
    <3>1. m \in missing /\ m.subject = c
      BY <1>14, <2>3 DEF Divergence
    <3>2. <<c, "image">> \in {<<d.subject, "image">> : d \in missing}
      <4> HIDE DEF missing, m
      <4> QED  BY <3>1
    <3>3. <<c, "image">> \in lost'
      BY <1>2, <3>2 DEF LostAfter
    <3> QED  BY <3>3 DEF Lost
  <2>4. CASE s.image = None /\ c \in DOMAIN applied /\ seen[c].active /\ applied[c].image = image
    <3>1. real[c].active /\ h.image = None
      BY <1>11, <1>13, <2>4
    <3>2. \/ applied[c].image = None \/ Lost(c, "image")
          \/ real[c].image # None /\ real[c].image.id = applied[c].image
      BY <2>4, <3>1 DEF True, Told
    <3>3. Lost(c, "image") => Lost(c, "image")'
      BY <1>16, <2>4 DEF s
    <3> QED  BY <1>9, <1>12, <2>4, <3>1, <3>2, <3>3
  <2> QED  BY <1>9, <2>1, <2>2, <2>3, <2>4
<1> QED  BY <1>17, <1>18

(* A pass with nothing to say and nothing to report found every entry      *)
(* realized.                                                               *)
LEMMA ApplyPlanned == ASSUME Typed, True, Apart, NEW refused, Apply(refused) PROVE Planned'
<1> DEFINE n == Len(doc.outputs)
           P == Plan(doc)
<1> HIDE DEF n, P
<1>1. SUFFICES ASSUME ~requested', pass'.divergences = {}, NEW i \in DOMAIN doc'.outputs
               PROVE  Realized(doc.outputs[i])'
  BY DEF Planned, Apply
<1>2. doc' = doc /\ stored' = stored
  BY DEF Apply
<1>3. /\ pass.doc = doc /\ doc \in Document /\ n \in Nat /\ IsPlan(P, n)
      /\ \A j \in 1..n : /\ doc.outputs[j] \in Entry
                         /\ P[j] = PlanEntry(doc, doc.outputs[j])
  BY AppliedProperties DEF n, P
<1>4. DOMAIN P = 1..n /\ i \in 1..n
  BY <1>2, <1>3, DocumentProperties DEF IsPlan, n
<1>5. /\ requested' = (requested \/ Commands(P) # {})
      /\ lost' = LostAfter(P, refused)
      /\ pass' = [pass EXCEPT !.at = "conclude", !.divergences =
                    (UNION {P[j].divergences : j \in DOMAIN P})
                    \cup (IF refused = None THEN {}
                          ELSE {Divergence("command_failed", P[refused[1]].to)})]
  BY <1>3 DEF Apply, P
<1>6. ~requested /\ Commands(P) = {}
  BY <1>1, <1>5
<1>7. refused = None /\ real' = real
  BY <1>6, NothingToDo DEF P
<1>8. \A j \in 1..n : P[j].divergences = {}
  <2>1. pass \in Passes
    BY DEF Typed, TypeOK
  <2>2. UNION {P[j].divergences : j \in DOMAIN P} = {}
    BY <1>1, <1>5, <2>1 DEF Passes
  <2> QED  BY <1>4, <2>2
<1>9. lost' = lost
  <2>1. UNION {P[j].divergences : j \in DOMAIN P} = {}
    BY <1>4, <1>8
  <2> QED  BY <1>5, <1>6, <1>7, <2>1 DEF LostAfter
<1>10. seen = View /\ View' = View
  BY <1>6, <1>7, ViewIsViewOf DEF True, Fresh
<1> DEFINE entry == doc.outputs[i]
           c == OutputOf(entry, seen)
           o == real[c]
           s == P[i].set
<1>11. entry \in Entry /\ P[i] = PlanEntry(doc, entry)
  BY <1>3, <1>4
<1>12. \A what \in Settings : s[what] = None
  <2>1. ASSUME NEW what \in Settings PROVE s[what] = None
    <3>1. <<i, what>> \in (DOMAIN P) \X Settings /\ <<i, what>> \notin Commands(P)
      BY <1>4, <1>6
    <3> QED  BY <3>1 DEF Commands
  <2> QED  BY <2>1
<1> HIDE DEF entry
<1>13. c # None
  <2>1. c = None => P[i].divergences = {Divergence("output_not_connected", entry.rule)}
    BY <1>11 DEF PlanEntry
  <2> QED  BY <1>4, <1>8, <2>1
<1>14. SoundOutputs(real) /\ SoundViews(seen) /\ TypeOK
  BY TypedParts DEF Typed
<1>15. c \in DOMAIN seen
  BY <1>13, <1>14, OutputOfProperties DEF SoundViews
<1> HIDE DEF c
<1>16. /\ c \in Connectors /\ seen[c].display = o.display /\ seen[c].active = o.active
       /\ o.active => seen[c].mode = o.mode /\ seen[c].at = o.at
       /\ o.active \in BOOLEAN
  <2>1. c \in DOMAIN ViewOf(real) /\ seen = ViewOf(real)
    BY <1>10, <1>15, ViewIsViewOf
  <2>2. c \in Connectors /\ o.active \in BOOLEAN
    BY <1>14, <1>15 DEF SoundViews, SoundOutputs, Outputs
  <2> QED  BY <1>14, <2>1, <2>2, ViewOfProperties
<1>17. /\ entry.enable \in BOOLEAN /\ entry.tearing \in BOOLEAN
       /\ entry.paper # None => Background(doc, entry) \in Images
  BY <1>3, <1>11, EntryProperties
<1>18. CASE ~entry.enable
  <2>1. P[i].set = [Untouched EXCEPT !.enable = When(seen[c].active, FALSE)]
    BY <1>11, <1>13, <1>18 DEF PlanEntry, c
  <2>2. s.enable = When(seen[c].active, FALSE)
    BY <2>1 DEF Untouched
  <2>3. s.enable = None
    BY <1>12 DEF Settings
  <2>4. ~seen[c].active
    BY <2>2, <2>3, NoneIsApart DEF When
  <2>5. o.active = entry.enable
    BY <1>16, <1>17, <1>18, <2>4
  <2> HIDE DEF o
  <2> QED  BY <1>2, <1>7, <1>10, <1>13, <1>18, <2>5 DEF Realized, entry, c, o
<1>19. CASE entry.enable
  <2>1. P[i] = PlanOn(doc, entry, c)
    BY <1>11, <1>13, <1>19 DEF PlanEntry, c
  <2>2. Asks(P[i], doc, entry, c)
    BY <1>3, <1>11, <1>14, <1>15, <2>1, PlanOnMeans
  <2>3. s.enable = None /\ s.mode = None /\ s.at = None /\ s.tearing = None /\ s.image = None
    BY <1>12 DEF Settings
  <2>4. seen[c].active /\ o.active = TRUE
    <3>1. seen[c].active
      BY <2>2, <2>3, NoneIsApart DEF Asks
    <3> QED  BY <1>16, <3>1
  <2> DEFINE image == Background(doc, entry)
             wanted == EffectiveMode(entry)
  <2>5. wanted # None => o.mode = ResolveMode(Offers[o.display], wanted)
    <3>1. wanted # None => seen[c].mode = ResolveMode(Offers[seen[c].display], wanted)
      BY <1>4, <1>8, <2>2, <2>3, <2>4 DEF Asks
    <3> QED  BY <1>16, <2>4, <3>1
  <2>6. entry.at # None => o.at = entry.at
    BY <1>16, <2>2, <2>3, <2>4 DEF Asks
  <2>7. Lost(c, "tearing") \/ o.tearing = entry.tearing
    <3>1. c \in DOMAIN applied /\ applied[c].tearing = entry.tearing
      BY <2>2, <2>3 DEF Asks
    <3>2. Lost(c, "tearing") \/ real[c].tearing = applied[c].tearing
      BY <2>4, <3>1 DEF True, Told
    <3> QED  BY <3>1, <3>2
  <2>8. entry.paper = None \/ Lost(c, "image") \/ (o.image # None /\ o.image.id = image)
    <3>1. SUFFICES ASSUME entry.paper # None
                   PROVE  Lost(c, "image") \/ (o.image # None /\ o.image.id = image)
      OBVIOUS
    <3>2. image # None
      BY <1>17, <3>1, NoneIsApart
    <3>3. c \in DOMAIN applied /\ applied[c].image = image
      BY <1>4, <1>8, <2>2, <2>3, <3>2 DEF Asks
    <3>4. \/ applied[c].image = None \/ Lost(c, "image")
          \/ real[c].image # None /\ real[c].image.id = applied[c].image
      BY <2>4, <3>3 DEF True, Told
    <3> QED  BY <3>2, <3>3, <3>4
  <2>9. o.active = entry.enable
    BY <1>17, <1>19, <2>4
  <2>10. /\ c # None /\ o.active = entry.enable
         /\ wanted # None => o.mode = ResolveMode(Offers[o.display], wanted)
         /\ entry.at # None => o.at = entry.at
         /\ Lost(c, "tearing") \/ o.tearing = entry.tearing
         /\ entry.paper = None \/ Lost(c, "image") \/ (o.image # None /\ o.image.id = image)
    BY <1>13, <2>5, <2>6, <2>7, <2>8, <2>9
  <2>11. Realized(entry)
    <3> HIDE DEF wanted, image
    <3> QED  BY <1>10, <2>10 DEF Realized, c, wanted, image
  <2>12. Realized(doc.outputs[i])' <=> Realized(entry)
    BY <1>2, <1>7, <1>9, <1>10 DEF Realized, Lost, EffectiveMode, Background, entry
  <2> QED  BY <2>11, <2>12
<1> QED  BY <1>17, <1>18, <1>19

LEMMA ApplyTrue == ASSUME Typed, True, Apart, NEW refused, Apply(refused) PROVE True'
<1>1. SyncedMeansApplied'
  <2>2. ~Idle'
    <3>1. pass \in Passes
      BY DEF Typed, TypeOK
    <3> QED  BY <3>1 DEF Apply, Idle, Passes
  <2> QED  BY <2>2 DEF SyncedMeansApplied, AtRest
<1> QED  BY <1>1, ApplyFresh, ApplyTold, ApplyPlanned DEF True

(* Adoption pins what is there, so that an entry that was realized still is.*)
LEMMA AdoptedIsRealized ==
    ASSUME Typed, seen = View, Conclude, NEW entry \in Entry, Realized(entry),
           NEW new, new = Adopted(entry)
    PROVE  Realized(new)'
<1>0. PICK c : c = OutputOf(entry, seen)
  OBVIOUS
<1> DEFINE o == real[c]
           wanted == EffectiveMode(entry)
<1>1. SoundOutputs(real) /\ SoundViews(seen) /\ TypeOK /\ doc \in Document
  BY TypedParts DEF Typed, TypeOK
<1>2. /\ c # None /\ o.active = entry.enable
      /\ entry.enable =>
            /\ wanted # None => o.mode = ResolveMode(Offers[o.display], wanted)
            /\ entry.at # None => o.at = entry.at
            /\ Lost(c, "tearing") \/ o.tearing = entry.tearing
            /\ entry.paper = None \/ Lost(c, "image")
               \/ (o.image # None /\ o.image.id = Background(doc, entry))
  BY <1>0 DEF Realized
<1>3. c \in DOMAIN seen /\ c \in Connectors
  BY <1>0, <1>1, <1>2, OutputOfProperties DEF SoundViews
<1>4. new = [entry EXCEPT !.adopted = AdoptionFor(entry, c)]
  BY <1>0, <1>2 DEF Adopted
<1>5. /\ new.rule = entry.rule /\ new.enable = entry.enable /\ new.mode = entry.mode
      /\ new.at = entry.at /\ new.tearing = entry.tearing /\ new.paper = entry.paper
      /\ new.adopted = AdoptionFor(entry, c)
  BY <1>4 DEF Entry
<1>6. OutputOf(new, seen) = c
  BY <1>0, <1>5 DEF OutputOf
<1>7. entry.enable /\ EffectiveMode(new) # None =>
         o.mode = ResolveMode(Offers[o.display], EffectiveMode(new))
  <2>1. CASE AdoptionFor(entry, c) = entry.adopted
    <3>1. EffectiveMode(new) = wanted
      BY <1>5, <2>1 DEF EffectiveMode
    <3> QED  BY <1>2, <3>1
  <2>2. CASE AdoptionFor(entry, c) # entry.adopted
    <3>1. /\ seen[c].active /\ Candidate(entry, c) # None
          /\ new.adopted = [mode |-> Candidate(entry, c), display |-> seen[c].display]
      BY <1>5, <2>2 DEF AdoptionFor
    <3>2. entry.mode = None
      BY <3>1 DEF Candidate
    <3>3. c \in DOMAIN ViewOf(real) /\ seen = ViewOf(real)
      BY <1>3, ViewIsViewOf
    <3>4. /\ o.active /\ seen[c].mode = o.mode
          /\ o.display \in Displays /\ seen[c].display = o.display
      BY <1>1, <3>1, <3>3, ViewOfProperties
    <3>5. o.mode \in Offers[o.display] /\ Offers[o.display] \in SUBSET Nat /\ o.mode \in Nat
      BY <1>1, <1>3, <3>4, OffersAreNat, NoneIsApart DEF SoundOutputs, Sound
    <3>6. new.adopted # None /\ new.adopted.mode = Candidate(entry, c)
      <4>1. Candidate(entry, c) \in Nat
        <5>1. entry.adopted \in Optional(Pin)
          BY DEF Entry
        <5> QED  BY <3>1, <3>4, <3>5, <5>1 DEF Candidate, Carried, Settled, Optional, Pin
      <4>2. [mode |-> Candidate(entry, c), display |-> seen[c].display] \in Pin
        BY <3>4, <4>1 DEF Pin
      <4> QED  BY <3>1, <4>2, NoneIsApart
    <3>7. EffectiveMode(new) = Candidate(entry, c)
      BY <1>5, <3>2, <3>6 DEF EffectiveMode
    <3>8. CASE Carried(entry, c) # None
      <4>1. entry.adopted # None /\ Candidate(entry, c) = entry.adopted.mode
        BY <3>2, <3>8 DEF Candidate, Carried
      <4>2. wanted = Candidate(entry, c)
        BY <3>2, <4>1 DEF EffectiveMode
      <4> QED  BY <1>2, <3>7, <4>2
    <3>9. CASE Carried(entry, c) = None
      <4>1. Candidate(entry, c) = o.mode
        BY <3>1, <3>2, <3>4, <3>9 DEF Candidate, Settled
      <4> QED  BY <3>5, <3>7, <4>1, ResolveModeProperties
    <3> QED  BY <3>8, <3>9
  <2> QED  BY <2>1, <2>2
<1>8. doc'.presets = doc.presets
  BY <1>1 DEF Conclude, Document
<1>9. Background(doc', new) = Background(doc, entry)
  BY <1>5, <1>8 DEF Background
<1>10. /\ View' = View /\ real' = real /\ lost' = lost /\ seen' = seen
  BY ViewIsViewOf DEF Conclude
<1>11. OutputOf(new, View') = c
  BY <1>6, <1>10
<1> HIDE DEF o
<1>12. /\ c # None
       /\ o.active = new.enable
       /\ new.enable =>
            /\ EffectiveMode(new) # None
                  => o.mode = ResolveMode(Offers[o.display], EffectiveMode(new))
            /\ new.at # None => o.at = new.at
            /\ Lost(c, "tearing")' \/ o.tearing = new.tearing
            /\ new.paper = None \/ Lost(c, "image")'
               \/ (o.image # None /\ o.image.id = Background(doc', new))
  BY <1>2, <1>5, <1>7, <1>9, <1>10 DEF Lost
<1> QED  BY <1>10, <1>11, <1>12 DEF Realized, o

(* Adoption leaves the rules alone.                                        *)
LEMMA ConcludedDocument ==
    ASSUME Typed, Conclude
    PROVE  /\ DOMAIN doc'.outputs = DOMAIN doc.outputs
           /\ \A i \in DOMAIN doc.outputs :
                 /\ doc.outputs[i] \in Entry /\ doc'.outputs[i] = Adopted(doc.outputs[i])
                 /\ doc'.outputs[i].rule = doc.outputs[i].rule
<1>1. doc \in Document
  BY DEF Typed, TypeOK
<1>2. \A i \in DOMAIN doc.outputs : doc.outputs[i] \in Entry
  BY <1>1, DocumentProperties
<1>3. doc'.outputs = [i \in DOMAIN doc.outputs |-> Adopted(doc.outputs[i])]
  BY <1>1 DEF Conclude, Document
<1>4. \A e \in Entry : Adopted(e).rule = e.rule
  BY DEF Adopted, Entry
<1> QED  BY <1>2, <1>3, <1>4

LEMMA ConcludeTrue == ASSUME Typed, True, Conclude PROVE True'
<1>3. Fresh' /\ Told'
  <2>1. View' = View
    BY ViewIsViewOf DEF Conclude
  <2> QED  BY <2>1 DEF True, Fresh, Told, Conclude, Lost
<1>4. Planned'
  BY DEF Planned, Conclude, Resting
<1>5. SyncedMeansApplied'
  <2>1. SUFFICES ASSUME ~requested', status' = "synced", NEW i \in DOMAIN doc'.outputs
                 PROVE  Realized(doc.outputs[i])'
    BY DEF SyncedMeansApplied, AtRest
  <2>2. ~requested /\ pass.at = "conclude" /\ pass.divergences = {} /\ seen = View
    BY <2>1 DEF Conclude, True, Fresh
  <2>3. i \in DOMAIN doc.outputs /\ doc.outputs[i] \in Entry
        /\ doc'.outputs[i] = Adopted(doc.outputs[i])
    BY ConcludedDocument
  <2>4. Realized(doc.outputs[i])
    BY <2>2, <2>3 DEF True, Planned
  <2>5. PICK entry \in Entry : entry = doc.outputs[i]
    BY <2>3
  <2>6. PICK new : new = Adopted(entry)
    OBVIOUS
  <2>7. Realized(entry)
    BY <2>4, <2>5
  <2>8. Realized(new)'
    BY <2>2, <2>6, <2>7, AdoptedIsRealized
  <2>9. doc'.outputs[i] = new
    BY <2>3, <2>5, <2>6
  <2> QED  BY <2>8, <2>9
<1> QED  BY <1>3, <1>4, <1>5 DEF True

(* The steps after which a pass is to come: nothing is claimed meanwhile.  *)
LEMMA RequestedIsTrue ==
    ASSUME True, requested', Told',
           \A c \in DOMAIN seen' : seen'[c].active = real'[c].active
    PROVE  True'
BY DEF True, Fresh, Planned, SyncedMeansApplied, AtRest

(* What an output is when it is changed from outside: its settings that are*)
(* not reported stay.                                                      *)
LEMMA AnnouncedTrue ==
    ASSUME True, SoundViews(seen), NEW outputs, Announced(outputs),
           \A c \in Connectors : /\ outputs[c].active = real[c].active
                                 /\ outputs[c].tearing = real[c].tearing
                                 /\ outputs[c].image = real[c].image,
           DOMAIN applied \subseteq Connectors
    PROVE  True'
<1>1. /\ requested' /\ doc' = doc /\ seen' = seen /\ applied' = applied /\ lost' = lost
      /\ real' = outputs
  BY DEF Announced, daemon
<1>2. Told'
  BY <1>1 DEF True, Told, Lost
<1>3. \A c \in DOMAIN seen' : seen'[c].active = real'[c].active
  BY <1>1 DEF True, Fresh, SoundViews
<1> QED  BY <1>1, <1>2, <1>3, RequestedIsTrue

LEMMA InitTrue == ASSUME Init PROVE True
<1>2. DOMAIN seen = {} /\ DOMAIN applied = {} /\ requested
  BY DEF Init
<1> QED  BY <1>2 DEF True, Fresh, Told, Planned, SyncedMeansApplied, AtRest

LEMMA ObserveTrue == ASSUME Typed, True, Observe PROVE True'
<1>1. /\ doc' = doc /\ applied' = applied /\ lost' = lost /\ real' = real /\ seen' = View
      /\ pass'.at = "plan"
  BY DEF Observe, Resting
<1>2. View' = View /\ View = ViewOf(real)
  BY <1>1, ViewIsViewOf
<1>3. \A c \in DOMAIN seen' : seen'[c].active = real'[c].active
  BY <1>1, <1>2, TypedParts, ViewOfProperties
<1>4. Fresh' /\ Told'
  BY <1>1, <1>2, <1>3 DEF True, Fresh, Told, Lost
<1>5. Planned' /\ SyncedMeansApplied'
  BY <1>1 DEF True, Planned, SyncedMeansApplied, AtRest, Idle
<1> QED  BY <1>4, <1>5 DEF True

LEMMA StartOverTrue == ASSUME Typed, True, StartOver PROVE True'
<1>1. Told'
  BY DEF True, Told, Lost, StartOver
<1>2. \A c \in DOMAIN seen' : seen'[c].active = real'[c].active
  BY DEF True, Fresh, StartOver
<1> QED  BY <1>1, <1>2, RequestedIsTrue DEF StartOver

LEMMA PollTrue == ASSUME Typed, True, Poll PROVE True'
<1>1. Told'
  BY DEF True, Told, Lost, Poll
<1>2. \A c \in DOMAIN seen' : seen'[c].active = real'[c].active
  BY TypedParts, ViewIsViewOf, ViewOfProperties DEF Poll
<1> QED  BY <1>1, <1>2, RequestedIsTrue DEF Poll

LEMMA WriteTrue ==
    ASSUME Typed, True, NEW config \in Configs, NEW keeps \in BOOLEAN,
           Write(config, keeps)
    PROVE  True'
<1>5. Told'
  BY DEF True, Told, Lost, Write
<1>6. \A c \in DOMAIN seen' : seen'[c].active = real'[c].active
  BY DEF True, Fresh, Write
<1> QED  BY <1>5, <1>6, RequestedIsTrue DEF Write

LEMMA UploadTrue == ASSUME Typed, True, NEW image \in Images, Upload(image) PROVE True'
<1>1. Told'
  BY DEF True, Told, Lost, Upload, daemon
<1>2. \A c \in DOMAIN seen' : seen'[c].active = real'[c].active
  BY DEF True, Fresh, Upload, daemon
<1> QED  BY <1>1, <1>2, RequestedIsTrue DEF Upload

(* A deleted picture stays on the outputs that show it.                    *)
LEMMA UnchangedTrue ==
    ASSUME True, UNCHANGED <<doc, requested, real, daemon, lost>>
    PROVE  True'
<1>1. View' = View
  BY ViewIsViewOf DEF daemon
<1>2. \A i \in DOMAIN doc.outputs : Realized(doc.outputs[i]) => Realized(doc.outputs[i])'
  BY <1>1 DEF Realized, Lost, EffectiveMode, Background, daemon
<1>3. Fresh' /\ Told'
  BY <1>1 DEF True, Fresh, Told, Lost, daemon
<1>4. Planned'
  BY <1>2 DEF True, Planned, daemon
<1>5. SyncedMeansApplied'
  BY <1>2 DEF True, SyncedMeansApplied, AtRest, Idle, daemon
<1> QED  BY <1>3, <1>4, <1>5 DEF True

LEMMA DisplaysTrue ==
    ASSUME Typed, True,
           \E c \in Connectors :
              \/ Unplug(c)
              \/ \E display \in Displays, mode \in Rates : Plug(c, display, mode)
              \/ \E mode \in Rates : Negotiate(c, mode)
              \/ \E spot \in Spots : Rearrange(c, spot)
    PROVE  True'
<1>1. SoundOutputs(real) /\ SoundViews(seen) /\ DOMAIN applied \subseteq Connectors
  BY TypedParts DEF Typed, TypeOK
<1>2. PICK c \in Connectors :
              \/ Unplug(c)
              \/ \E display \in Displays, mode \in Rates : Plug(c, display, mode)
              \/ \E mode \in Rates : Negotiate(c, mode)
              \/ \E spot \in Spots : Rearrange(c, spot)
  OBVIOUS
<1> DEFINE Same(outputs) ==
             \A k \in Connectors : /\ outputs[k].active = real[k].active
                                   /\ outputs[k].tearing = real[k].tearing
                                   /\ outputs[k].image = real[k].image
<1>3. CASE Unplug(c)
  <2>1. Same([real EXCEPT ![c].display = None])
    BY <1>1 DEF SoundOutputs, Outputs
  <2> QED  BY <1>1, <1>3, <2>1, AnnouncedTrue DEF Unplug
<1>4. ASSUME NEW display \in Displays, NEW mode \in Rates, Plug(c, display, mode) PROVE True'
  <2>1. Same([real EXCEPT ![c].display = display, ![c].mode = mode])
    BY <1>1 DEF SoundOutputs, Outputs
  <2> QED  BY <1>1, <1>4, <2>1, AnnouncedTrue DEF Plug
<1>5. ASSUME NEW mode \in Rates, Negotiate(c, mode) PROVE True'
  <2>1. Same([real EXCEPT ![c].mode = mode])
    BY <1>1 DEF SoundOutputs, Outputs
  <2> QED  BY <1>1, <1>5, <2>1, AnnouncedTrue DEF Negotiate
<1>6. ASSUME NEW spot \in Spots, Rearrange(c, spot) PROVE True'
  <2>1. Same([real EXCEPT ![c].at = spot])
    BY <1>1 DEF SoundOutputs, Outputs
  <2> QED  BY <1>1, <1>6, <2>1, AnnouncedTrue DEF Rearrange
<1> QED  BY <1>2, <1>3, <1>4, <1>5, <1>6

LEMMA RestartTrue == ASSUME Typed, True, Restart PROVE True'
<1>1. DOMAIN seen' = {} /\ DOMAIN applied' = {} /\ requested' /\ doc' = doc
  BY DEF Restart
<1>2. Told'
  BY <1>1 DEF True, Told
<1> QED  BY <1>1, <1>2, RequestedIsTrue

LEMMA NextTrue == ASSUME Typed, True, Apart, [Next]_vars PROVE True'
<1>1. CASE Observe
  BY <1>1, ObserveTrue
<1>2. CASE StartOver
  BY <1>2, StartOverTrue
<1>3. CASE Conclude
  BY <1>3, ConcludeTrue
<1>4. CASE \E refused : Apply(refused)
  BY <1>4, ApplyTrue
<1>5. CASE Poll
  BY <1>5, PollTrue
<1>6. CASE \E config \in Configs, keeps \in BOOLEAN : Write(config, keeps)
  BY <1>6, WriteTrue
<1>7. CASE \E image \in Images : Upload(image) \/ Delete(image)
  <2>1. CASE \E image \in Images : Upload(image)
    BY <2>1, UploadTrue
  <2>2. CASE \E image \in Images : Delete(image)
    BY <2>2, UnchangedTrue DEF Delete
  <2> QED  BY <1>7, <2>1, <2>2
<1>8. CASE \E c \in Connectors :
              \/ Unplug(c)
              \/ \E display \in Displays, mode \in Rates : Plug(c, display, mode)
              \/ \E mode \in Rates : Negotiate(c, mode)
              \/ \E spot \in Spots : Rearrange(c, spot)
  BY <1>8, DisplaysTrue
<1>9. CASE Restart
  BY <1>9, RestartTrue
<1>10. CASE UNCHANGED vars
  BY <1>10, UnchangedTrue DEF vars
<1> QED  BY <1>1, <1>2, <1>3, <1>4, <1>5, <1>6, <1>7, <1>8, <1>9, <1>10 DEF Next, Work, Rest

(* While no two entries of the document have one output, then, when the    *)
(* daemon has nothing left to do and says synced, every entry is as its    *)
(* output is, down to the settings that are only compared with what was    *)
(* recorded.  The hypothesis is not the daemon's doing: where two entries  *)
(* meet each pass undoes what the one before has set, and synced may be    *)
(* said with one of them not applied.  A picture is compared by its id: one*)
(* uploaded again under the id that is shown already is not painted again. *)
THEOREM SyncedIsApplied == Spec /\ []Apart => []SyncedMeansApplied
<1>1. Init => True
  BY InitTrue
<1>2. Typed /\ True /\ Apart /\ [Next]_vars => True'
  BY NextTrue
<1>3. True => SyncedMeansApplied
  BY DEF True
<1> QED  BY <1>1, <1>2, <1>3, TypedInvariant, PTL DEF Spec
=============================================================================
