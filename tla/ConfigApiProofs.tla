--------------------------- MODULE ConfigApiProofs ---------------------------
(***************************************************************************)
(* What ConfigApi guarantees for any clients, sections and values, a ring  *)
(* of any size and any number of writes and restarts.                      *)
(*                                                                         *)
(* A step brings at most one description of a document into circulation,   *)
(* the one that is then live, and whenever the live document changes it    *)
(* gets a name that is later than all names in circulation.                *)
(***************************************************************************)
EXTENDS ConfigApi, SequenceTheorems, WellFoundedInduction, TLAPS

(* Whoever has a request under way has something to publish and answer,    *)
(* and it is of this run of the daemon.                                    *)
Underway ==
    \A c \in Clients :
        /\ req[c] # None <=> pc[c] \in {"save", "publish", "answer"}
        /\ req[c] # None => req[c].held.version.epoch = epoch

(* What anybody holds, was sent or is being told, and what was told last.  *)
Known == InCirculation \cup ({last} \ {None})

(* Nothing known has a name later than the live document's.                *)
NotAfter(h) ==
    \/ h.version.epoch < epoch
    \/ h.version.epoch = epoch /\ h.version.generation <= generation
Aged == \A h \in Known : NotAfter(h)

(* A name stands for all that is held under it, the revision included.     *)
SameName(g, h) ==
    g.version.generation = h.version.generation /\ g.version.epoch = h.version.epoch
OneName == \A g, h \in Known : SameName(g, h) => g = h

(* A subscriber has yet to drain the last config_changed, with nothing but *)
(* the events that came since behind it, or has nothing older to drain.    *)
Behind(c) ==
    \E i \in DOMAIN inbox[c] :
        /\ inbox[c][i] = last
        /\ Len(inbox[c]) - i <= noise
        /\ \A j \in DOMAIN inbox[c] : j > i => inbox[c][j] = Other
Abreast(c) ==
    /\ Configs(inbox[c]) = {}
    /\ copy[c] # None
    /\ copy[c] = last \/ copy[c].version.generation > last.version.generation
Delivered ==
    last # None =>
        /\ last.version.epoch = epoch
        /\ \A c \in online : Behind(c) \/ Abreast(c)

Typed == TypeOK /\ Underway
Named == Typed /\ Aged /\ OneName

----------------------------------------------------------------------------
(* The greatest element of a bounded set of numbers exists.                *)
LEMMA GreatestExists ==
    ASSUME NEW n \in Nat, NEW S \in SUBSET (1..n), S # {}
    PROVE  \E i \in S : \A j \in S : j <= i
<1> DEFINE R == OpToRel(<, Nat)
           T == {n - i : i \in S}
<1>1. T \subseteq Nat /\ T # {}
  <2>1. \A i \in S : i \in 1..n /\ n - i \in Nat
    OBVIOUS
  <2>2. PICK i \in S : TRUE
    OBVIOUS
  <2>3. n - i \in T
    OBVIOUS
  <2> QED  BY <2>1, <2>3
<1>2. IsWellFoundedOn(R, Nat)
  BY NatLessThanWellFounded
<1>3. PICK x \in T : \A y \in T : ~(<<y, x>> \in R)
  <2> HIDE DEF R, T
  <2> QED  BY <1>1, <1>2, WFMin
<1>4. \A y \in T : ~(y < x)
  BY <1>1, <1>3 DEF OpToRel
<1>5. PICK i \in S : x = n - i
  BY <1>3
<1>6. \A j \in S : j <= i
  BY <1>4, <1>5
<1> QED  BY <1>6
----------------------------------------------------------------------------
(* The operators of the ring and of the burst.                             *)

Event == Held \cup {Other}

(* The ring keeps the newest Capacity events, in order, at the same        *)
(* distance from the end.                                                  *)
LEMMA RetainedProperties ==
    ASSUME NEW queue \in Seq(Event), Len(queue) <= Capacity, NEW e \in Event
    PROVE  LET kept == Retained(Append(queue, e))
           IN  /\ kept \in Seq(Event)
               /\ Len(kept) \in 1..Capacity
               /\ Len(kept) = Len(queue) + 1 \/ (Len(kept) = Capacity /\ Len(queue) = Capacity)
               /\ kept[Len(kept)] = e
               /\ \A i \in 1..(Len(kept) - 1) :
                    kept[i] = queue[i + Len(queue) + 1 - Len(kept)]
<1> DEFINE q == Append(queue, e)
           k == Retained(q)
           Goal(kept) ==
             /\ kept \in Seq(Event)
             /\ Len(kept) \in 1..Capacity
             /\ Len(kept) = Len(queue) + 1 \/ (Len(kept) = Capacity /\ Len(queue) = Capacity)
             /\ kept[Len(kept)] = e
             /\ \A i \in 1..(Len(kept) - 1) :
                  kept[i] = queue[i + Len(queue) + 1 - Len(kept)]
<1> SUFFICES Goal(k)
  OBVIOUS
<1>1. /\ Len(queue) \in Nat /\ Capacity \in Nat \ {0}
  BY LenProperties, ApiAssumption
<1>2. /\ q \in Seq(Event) /\ Len(q) = Len(queue) + 1
      /\ \A i \in 1..Len(queue) : q[i] = queue[i]
      /\ q[Len(queue) + 1] = e
  BY AppendProperties
<1>3. CASE Len(q) <= Capacity
  <2>1. k = q
    BY <1>1, <1>2, <1>3 DEF Retained
  <2> HIDE DEF q, k
  <2>2. Len(k) = Len(queue) + 1 /\ Len(k) \in 1..Capacity /\ k \in Seq(Event)
    BY <1>1, <1>2, <1>3, <2>1
  <2>3. \A i \in 1..(Len(k) - 1) : i + Len(queue) + 1 - Len(k) = i /\ i \in 1..Len(queue)
    BY <1>1, <2>2
  <2>4. \A i \in 1..(Len(k) - 1) : k[i] = queue[i + Len(queue) + 1 - Len(k)]
    BY <1>2, <2>1, <2>3
  <2>5. k[Len(k)] = e
    BY <1>2, <2>1
  <2> QED  BY <2>2, <2>4, <2>5
<1>4. CASE Len(q) > Capacity
  <2> DEFINE m == Len(q) - Capacity + 1
  <2>1. k = SubSeq(q, m, Len(q))
    BY <1>4 DEF Retained
  <2>2. Len(queue) = Capacity /\ m = 2 /\ Len(q) = Capacity + 1
    BY <1>1, <1>2, <1>4
  <2>3. \A i \in m..Len(q) : q[i] \in Event
    BY <1>1, <1>2, <2>2, ElementOfSeq
  <2>4. /\ k \in Seq(Event)
        /\ Len(k) = IF m <= Len(q) THEN Len(q) - m + 1 ELSE 0
        /\ \A i \in 1..(Len(q) - m + 1) : k[i] = q[m + i - 1]
    <3> HIDE DEF k, q
    <3>1. m \in Int /\ Len(q) \in Int
      BY <1>1, <2>2
    <3> HIDE DEF m
    <3> QED  BY <2>1, <2>3, <3>1, SubSeqProperties
  <2>5. Len(k) = Capacity
    BY <1>1, <2>2, <2>4
  <2>6. \A i \in 1..Capacity : k[i] = q[i + 1]
    BY <1>1, <2>2, <2>4
  <2>7. k[Capacity] = e
    BY <1>1, <1>2, <2>2, <2>6
  <2>8. \A i \in 1..(Capacity - 1) : k[i] = queue[i + 1]
    BY <1>1, <1>2, <2>2, <2>6
  <2> QED  BY <1>1, <2>2, <2>4, <2>5, <2>7, <2>8
<1> QED  BY <1>1, <1>2, <1>3, <1>4

(* What is forwarded of a burst is a configuration of it, and none that    *)
(* follows is passed over.                                                 *)
LEMMA ForwardedProperties ==
    ASSUME NEW queue \in Seq(Event), Configs(queue) # {}
    PROVE  \E i \in DOMAIN queue :
             /\ queue[i] \in Held
             /\ Forwarded(queue) = queue[i]
             /\ \A j \in DOMAIN queue : queue[j] # Other => j <= i
<1>1. Len(queue) \in Nat /\ DOMAIN queue = 1..Len(queue)
  BY LenProperties
<1>2. Configs(queue) \subseteq 1..Len(queue)
  BY <1>1 DEF Configs
<1> DEFINE i == CHOOSE k \in Configs(queue) : \A j \in Configs(queue) : j <= k
<1>3. i \in Configs(queue) /\ \A j \in Configs(queue) : j <= i
  BY <1>1, <1>2, GreatestExists
<1>4. queue[i] \in Held /\ i \in DOMAIN queue
  BY <1>1, <1>3, ElementOfSeq DEF Configs, Event
<1> QED  BY <1>3, <1>4 DEF Configs, Forwarded
----------------------------------------------------------------------------
(* The document and its names.                                             *)

LEMMA EffectiveIsTyped ==
    ASSUME DocTypeOK
    PROVE  Effective \in Document /\ EffectiveHeld \in Held
<1>1. Effective \in Document
  BY DEF DocTypeOK, Effective
<1>2. Effective.content \in Contents
  BY <1>1 DEF Document
<1>3. Version \in [revision : Nat, generation : Nat, epoch : Nat]
  BY DEF DocTypeOK, Version, Document
<1> QED  BY <1>1, <1>2, <1>3 DEF EffectiveHeld, Held

LEMMA EffectiveNextIsTyped ==
    ASSUME DocTypeOK'
    PROVE  EffectiveHeld' \in Held
<1>1. Effective' \in Document
  BY DEF DocTypeOK, Effective
<1>2. Effective'.content \in Contents
  BY <1>1 DEF Document
<1>3. Version' \in [revision : Nat, generation : Nat, epoch : Nat]
  BY DEF DocTypeOK, Version, Document
<1> QED  BY <1>2, <1>3 DEF EffectiveHeld, Held

(* What is the same in the document pair has the same name.                *)
LEMMA UnchangedDocument ==
    ASSUME UNCHANGED docVars
    PROVE  /\ EffectiveHeld' = EffectiveHeld
           /\ DocTypeOK => DocTypeOK'
           /\ epoch' = epoch /\ generation' = generation
BY DEF docVars, EffectiveHeld, Effective, Version, DocTypeOK

LEMMA EffectiveName ==
    EffectiveHeld.version.generation = generation /\ EffectiveHeld.version.epoch = epoch
BY DEF EffectiveHeld, Version

(* Each transition of the pair counts, and leaves a pair of documents.     *)
LEMMA TransitionsCount ==
    ASSUME DocTypeOK, NEW expected, NEW content \in Contents,
           \/ StageReplace(expected, [Effective EXCEPT !.content = content, !.temporary = FALSE])
           \/ SetPreview(expected, [Effective EXCEPT !.content = content])
           \/ ClearPreview(expected)
    PROVE  /\ DocTypeOK'
           /\ generation' = generation + 1 /\ epoch' = epoch
           /\ Matches(expected)
<1>1. Effective \in Document
  BY EffectiveIsTyped
<1>2. CASE StageReplace(expected, [Effective EXCEPT !.content = content, !.temporary = FALSE])
  <2>1. current' \in Document
    <3>1. [Effective EXCEPT !.content = content, !.temporary = FALSE] \in Document
      BY <1>1 DEF Document
    <3>2. current.rev + 1 \in Nat
      BY DEF DocTypeOK, Document
    <3> QED  BY <1>2, <3>1, <3>2 DEF StageReplace, Document
  <2> QED  BY <1>2, <2>1 DEF StageReplace, DocTypeOK
<1>3. CASE SetPreview(expected, [Effective EXCEPT !.content = content])
  <2> DEFINE next == [Effective EXCEPT !.content = content]
  <2>1. next \in Document
    BY <1>1 DEF Document
  <2>2. OnlyTemporaryDiffers(next, current) \in BOOLEAN
    BY DEF OnlyTemporaryDiffers
  <2>3. current.rev \in Nat
    BY DEF DocTypeOK, Document
  <2>4. preview' = [next EXCEPT !.rev = current.rev, !.committed = OnlyTemporaryDiffers(next, current)]
    BY <1>3 DEF SetPreview
  <2>5. preview' \in Document
    <3> HIDE DEF next
    <3> QED  BY <2>1, <2>2, <2>3, <2>4 DEF Document
  <2> QED  BY <1>3, <2>5 DEF SetPreview, DocTypeOK
<1>4. CASE ClearPreview(expected)
  BY <1>4 DEF ClearPreview, DocTypeOK
<1> QED  BY <1>2, <1>3, <1>4

----------------------------------------------------------------------------
(* The handlers, by what the lemmas below need to know of them.            *)

Writes(c) == PutSection(c) \/ PutSaved(c) \/ PutPreview(c) \/ RevertPreview(c)

Written(c, expected, step) ==
    /\ pc[c] = "idle"
    /\ Matches(expected)
    /\ DocTypeOK'
    /\ generation' = generation + 1 /\ epoch' = epoch
    /\ Accepted(c, expected, step)

LEMMA WritesAreAccepted ==
    ASSUME TypeOK, NEW c \in Clients, Writes(c)
    PROVE  \E expected \in Conditions(c), step \in {"save", "publish"} :
             Written(c, expected, step)
<1>1. Effective.content \in [Sections -> Values]
  BY EffectiveIsTyped, ApiAssumption DEF TypeOK, Document
<1>2. copy[c] # None => copy[c].content \in [Sections -> Values]
  BY ApiAssumption DEF TypeOK, Optional, Held
<1>3. \A s \in Sections, v \in Values :
        /\ [Effective.content EXCEPT ![s] = v] \in Contents
        /\ copy[c] # None => [copy[c].content EXCEPT ![s] = v] \in Contents
  BY <1>1, <1>2, ApiAssumption
<1>4. ASSUME NEW expected \in Conditions(c), NEW content \in Contents,
             Commit(c, expected, content)
      PROVE  Written(c, expected, "save")
  BY <1>4, TransitionsCount DEF Commit, Written, MayWrite, TypeOK
<1>5. ASSUME NEW expected \in Conditions(c), NEW content \in Contents,
             Preview(c, expected, content)
      PROVE  Written(c, expected, "publish")
  BY <1>5, TransitionsCount DEF Preview, Written, MayWrite, TypeOK
<1>6. CASE PutSection(c)
  BY <1>3, <1>4, <1>6 DEF PutSection
<1>7. CASE PutSaved(c)
  BY <1>3, <1>4, <1>7 DEF PutSaved
<1>8. CASE PutPreview(c)
  BY <1>3, <1>5, <1>8 DEF PutPreview
<1>9. CASE RevertPreview(c)
  <2>1. PICK expected \in Conditions(c) :
          MayWrite(c) /\ ClearPreview(expected) /\ Accepted(c, expected, "publish")
    BY <1>9 DEF RevertPreview
  <2>2. Default \in Contents
    BY ContentsAssumption
  <2>3. DocTypeOK' /\ generation' = generation + 1 /\ epoch' = epoch /\ Matches(expected)
    BY <2>1, <2>2, TransitionsCount DEF TypeOK
  <2> QED  BY <2>1, <2>3 DEF Written, MayWrite
<1> QED  BY <1>6, <1>7, <1>8, <1>9 DEF Writes
----------------------------------------------------------------------------
(* Types.                                                                  *)

LEMMA InitTyped == Init => Typed
<1> SUFFICES ASSUME Init PROVE Typed
  OBVIOUS
<1>1. EmptyDocument \in Document
  BY ContentsAssumption DEF EmptyDocument, Document
<1>2. DocTypeOK /\ disk \in Document
  BY <1>1 DEF Init, DocTypeOK
<1>3. /\ pc \in [Clients -> {"idle", "save", "publish", "answer", "orphan"}]
      /\ req \in [Clients -> Optional(Request)] /\ copy \in [Clients -> Optional(Held)]
      /\ online \in SUBSET Clients /\ noise \in 0..MaxNoise /\ last \in Optional(Held)
  BY ApiAssumption DEF Init, Optional
<1>4. inbox \in [Clients -> Seq(Held \cup {Other})] /\ \A c \in Clients : Len(inbox[c]) <= Capacity
  BY ApiAssumption, EmptySeq DEF Init
<1>5. Underway
  BY DEF Init, Underway
<1> QED  BY <1>2, <1>3, <1>4, <1>5 DEF Typed, TypeOK

(* The types of the queues, on their own.                                  *)
Queued ==
    inbox \in [Clients -> Seq(Event)] /\ \A c \in Clients : Len(inbox[c]) <= Capacity

LEMMA BroadcastIsTyped ==
    ASSUME Queued, NEW e \in Event, Broadcast(e)
    PROVE  Queued'
<1> DEFINE next(c) == IF c \in online THEN Retained(Append(inbox[c], e)) ELSE inbox[c]
<1> SUFFICES ASSUME NEW c \in Clients
             PROVE  next(c) \in Seq(Event) /\ Len(next(c)) <= Capacity
  BY DEF Queued, Broadcast
<1>1. Capacity \in Nat
  BY ApiAssumption
<1>2. inbox[c] \in Seq(Event) /\ Len(inbox[c]) <= Capacity
  BY DEF Queued
<1> DEFINE kept == Retained(Append(inbox[c], e))
<1>3. CASE c \in online
  <2>1. kept \in Seq(Event) /\ Len(kept) \in 1..Capacity
    BY <1>2, RetainedProperties
  <2>2. next(c) = kept
    BY <1>3
  <2> HIDE DEF kept, next
  <2> QED  BY <1>1, <2>1, <2>2
<1>4. CASE c \notin online
  BY <1>2, <1>4
<1> QED  BY <1>3, <1>4

(* An emptied queue is one.                                                *)
LEMMA EmptiedIsTyped ==
    ASSUME Queued, NEW c \in Clients, inbox' = [inbox EXCEPT ![c] = <<>>]
    PROVE  Queued'
<1>1. <<>> \in Seq(Event) /\ Len(<<>>) = 0 /\ 0 <= Capacity
  BY EmptySeq, ApiAssumption
<1> QED  BY <1>1 DEF Queued

(* The types of what the handlers and the clients keep.                    *)
Rest ==
    /\ pc \in [Clients -> {"idle", "save", "publish", "answer", "orphan"}]
    /\ req \in [Clients -> Optional(Request)]
    /\ copy \in [Clients -> Optional(Held)]
    /\ online \in SUBSET Clients
    /\ disk \in Document
    /\ noise \in 0..MaxNoise
    /\ last \in Optional(Held)

LEMMA TypedParts == Typed <=> DocTypeOK /\ Rest /\ Queued /\ Underway
BY DEF Typed, TypeOK, Rest, Queued, Event

LEMMA TypedPartsNext == Typed' <=> DocTypeOK' /\ Rest' /\ Queued' /\ Underway'
BY DEF Typed, TypeOK, Rest, Queued, Event

LEMMA ReadsKeepTypes ==
    ASSUME Typed, NEW c \in Clients, Fetch(c) \/ Subscribe(c) \/ Unsubscribe(c)
    PROVE  Typed'
<1>1. EffectiveHeld \in Held /\ DocTypeOK'
  BY EffectiveIsTyped, UnchangedDocument, TypedParts DEF Fetch, Subscribe, Unsubscribe
<1>2. Rest'
  BY <1>1, TypedParts DEF Rest, Fetch, Subscribe, Unsubscribe, Optional
<1>3. Queued'
  <2>1. inbox' = [inbox EXCEPT ![c] = <<>>] \/ inbox' = inbox
    BY DEF Fetch, Subscribe, Unsubscribe
  <2> QED  BY <2>1, EmptiedIsTyped, TypedParts DEF Queued
<1>4. Underway'
  <2>1. UNCHANGED <<epoch, pc, req>>
    BY DEF Fetch, Subscribe, Unsubscribe, docVars
  <2> QED  BY <2>1, TypedParts DEF Underway
<1> QED  BY <1>1, <1>2, <1>3, <1>4, TypedPartsNext

LEMMA WritesKeepTypes ==
    ASSUME Typed, NEW c \in Clients, Writes(c)
    PROVE  Typed'
<1>1. PICK expected \in Conditions(c), step \in {"save", "publish"} : Written(c, expected, step)
  BY WritesAreAccepted DEF Typed
<1>2. DocTypeOK' /\ EffectiveHeld' \in Held /\ epoch' = epoch
  BY <1>1, EffectiveNextIsTyped DEF Written
<1>3. Blind(c, expected) \in BOOLEAN
  BY DEF Blind
<1> DEFINE r == [held |-> EffectiveHeld', blind |-> Blind(c, expected)]
<1>4. r \in Request
  BY <1>2, <1>3 DEF Request
<1>5. r # None /\ r.held.version.epoch = epoch'
  <2>1. r # None
    BY <1>4, ApiAssumption
  <2>2. EffectiveHeld'.version.epoch = epoch'
    BY DEF EffectiveHeld, Version
  <2> QED  BY <2>1, <2>2
<1>6. pc' = [pc EXCEPT ![c] = step] /\ req' = [req EXCEPT ![c] = r]
  BY <1>1 DEF Written, Accepted
<1>7. UNCHANGED <<disk, clientVars, noise, last>>
  BY <1>1 DEF Written, Accepted
<1> HIDE DEF r
<1>8. Rest'
  BY <1>4, <1>6, <1>7, TypedParts DEF Rest, clientVars, Optional
<1>9. Queued'
  BY <1>7, TypedParts DEF clientVars, Queued
<1>10. Underway'
  BY <1>2, <1>5, <1>6, TypedParts DEF Underway, Rest
<1> QED  BY <1>2, <1>8, <1>9, <1>10, TypedPartsNext
(* The save, however it ends, and whoever waits for it.                    *)
LEMMA SavesKeepTypes ==
    ASSUME Typed, NEW c \in Clients, SaveEnds(c) \/ HangUp(c) \/ OrphanSaved(c)
    PROVE  Typed'
<1>1. DocTypeOK' /\ epoch' = epoch
  BY UnchangedDocument, TypedParts DEF SaveEnds, HangUp, OrphanSaved
<1>2. disk' \in Document
  BY TypedParts DEF Rest, DocTypeOK, SaveEnds, HangUp, OrphanSaved, Flushed
<1>3. UNCHANGED <<copy, online, inbox, noise, last>>
  BY DEF SaveEnds, HangUp, OrphanSaved, clientVars
<1>4. Queued'
  BY <1>3, TypedParts DEF Queued
<1>5. CASE SaveEnds(c) \/ OrphanSaved(c)
  <2>1. /\ UNCHANGED req
        /\ \/ pc[c] = "save" /\ pc' = [pc EXCEPT ![c] = "publish"]
           \/ pc[c] = "orphan" /\ pc' = [pc EXCEPT ![c] = "idle"]
    BY <1>5 DEF SaveEnds, OrphanSaved
  <2>2. Rest'
    BY <1>2, <1>3, <2>1, TypedParts DEF Rest
  <2>3. Underway'
    BY <1>1, <2>1, TypedParts DEF Underway, Rest
  <2> QED  BY <1>1, <1>4, <2>2, <2>3, TypedPartsNext
<1>6. CASE HangUp(c)
  <2>1. pc' = [pc EXCEPT ![c] = "orphan"] /\ req' = [req EXCEPT ![c] = None]
    BY <1>6 DEF HangUp
  <2>2. Rest'
    BY <1>2, <1>3, <2>1, TypedParts DEF Rest, Optional
  <2>3. Underway'
    BY <1>1, <2>1, TypedParts DEF Underway, Rest
  <2> QED  BY <1>1, <1>4, <2>2, <2>3, TypedPartsNext
<1> QED  BY <1>5, <1>6

LEMMA PublishesHaveARequest ==
    ASSUME Typed, NEW c \in Clients, pc[c] \in {"publish", "answer"}
    PROVE  /\ req[c] \in Request
           /\ req[c].held \in Held /\ req[c].held.version.epoch = epoch
BY TypedParts DEF Rest, Underway, Optional, Request

LEMMA PublishKeepsTypes ==
    ASSUME Typed, NEW c \in Clients, Publish(c)
    PROVE  Typed'
<1>1. DocTypeOK' /\ epoch' = epoch
  BY UnchangedDocument, TypedParts DEF Publish
<1>2. req[c].held \in Held
  BY PublishesHaveARequest DEF Publish
<1>3. Queued'
  BY <1>2, BroadcastIsTyped, TypedParts DEF Publish, Event
<1>4. Rest'
  BY <1>2, TypedParts, ApiAssumption DEF Publish, Rest, Optional
<1>5. pc[c] = "publish" /\ pc' = [pc EXCEPT ![c] = "answer"] /\ req' = req
  BY DEF Publish
<1>6. Underway'
  BY <1>1, <1>5, TypedParts DEF Underway, Rest
<1> QED  BY <1>1, <1>3, <1>4, <1>6, TypedPartsNext

LEMMA AnswerKeepsTypes ==
    ASSUME Typed, NEW c \in Clients, Answer(c)
    PROVE  Typed'
<1>1. DocTypeOK' /\ epoch' = epoch
  BY UnchangedDocument, TypedParts DEF Answer
<1>2. req[c].held \in Held
  BY PublishesHaveARequest DEF Answer
<1>3. Queued'
  BY TypedParts DEF Answer, Queued
<1>4. Rest'
  BY <1>2, TypedParts DEF Answer, Rest, Optional
<1>5. pc' = [pc EXCEPT ![c] = "idle"] /\ req' = [req EXCEPT ![c] = None]
  BY DEF Answer
<1>6. Underway'
  BY <1>1, <1>5, TypedParts DEF Underway, Rest
<1> QED  BY <1>1, <1>3, <1>4, <1>6, TypedPartsNext

LEMMA PublishOtherKeepsTypes ==
    ASSUME Typed, PublishOther
    PROVE  Typed'
<1>1. DocTypeOK' /\ epoch' = epoch
  BY UnchangedDocument, TypedParts DEF PublishOther
<1>2. Queued'
  BY BroadcastIsTyped, TypedParts DEF PublishOther, Event
<1>3. noise' \in 0..MaxNoise
  BY TypedParts, ApiAssumption DEF PublishOther, Rest
<1>4. Rest'
  BY <1>3, TypedParts DEF PublishOther, Rest
<1>5. Underway'
  BY <1>1, TypedParts DEF Underway, PublishOther
<1> QED  BY <1>1, <1>2, <1>4, <1>5, TypedPartsNext

LEMMA ReceiveKeepsTypes ==
    ASSUME Typed, NEW c \in Clients, Receive(c)
    PROVE  Typed'
<1>1. DocTypeOK' /\ epoch' = epoch
  BY UnchangedDocument, TypedParts DEF Receive
<1>2. inbox[c] \in Seq(Event)
  BY TypedParts DEF Queued
<1>3. Configs(inbox[c]) # {} => Forwarded(inbox[c]) \in Held
  BY <1>2, ForwardedProperties
<1>4. Queued'
  BY EmptiedIsTyped, TypedParts DEF Receive
<1>5. copy' \in [Clients -> Optional(Held)]
  BY <1>3, TypedParts DEF Receive, Rest, Optional
<1>6. Rest'
  BY <1>5, TypedParts DEF Receive, Rest
<1>7. Underway'
  BY <1>1, TypedParts DEF Underway, Receive
<1> QED  BY <1>1, <1>4, <1>6, <1>7, TypedPartsNext

LEMMA RestartKeepsTypes ==
    ASSUME Typed, Restart
    PROVE  Typed'
<1>1. DocTypeOK'
  <2>1. current' \in Document
    BY TypedParts DEF Restart, Construct, Rest, Document
  <2> QED  BY <2>1, TypedParts DEF Restart, Construct, DocTypeOK
<1>2. inbox' = [c \in Clients |-> <<>>]
  BY DEF Restart
<1>3. Queued'
  BY <1>2, EmptySeq, ApiAssumption DEF Queued
<1>4. Rest'
  BY TypedParts, ApiAssumption DEF Restart, Rest, Optional
<1>5. Underway'
  BY DEF Underway, Restart
<1> QED  BY <1>1, <1>3, <1>4, <1>5, TypedPartsNext

LEMMA TypedStep == Typed /\ [Next]_vars => Typed'
<1> SUFFICES ASSUME Typed, [Next]_vars PROVE Typed'
  OBVIOUS
<1>1. CASE UNCHANGED vars
  <2>1. DocTypeOK' /\ epoch' = epoch
    BY <1>1, UnchangedDocument, TypedParts DEF vars
  <2>2. Rest' /\ Queued'
    BY <1>1, TypedParts DEF vars, clientVars, Rest, Queued
  <2>3. Underway'
    BY <1>1, <2>1, TypedParts DEF vars, Underway
  <2> QED  BY <2>1, <2>2, <2>3, TypedPartsNext
<1>2. CASE PublishOther
  BY <1>2, PublishOtherKeepsTypes
<1>3. CASE Restart
  BY <1>3, RestartKeepsTypes
<1>4. ASSUME NEW c \in Clients, Fetch(c) \/ Subscribe(c) \/ Unsubscribe(c)
      PROVE  Typed'
  BY <1>4, ReadsKeepTypes
<1>5. ASSUME NEW c \in Clients, Writes(c)
      PROVE  Typed'
  BY <1>5, WritesKeepTypes
<1>6. ASSUME NEW c \in Clients, SaveEnds(c) \/ HangUp(c) \/ OrphanSaved(c)
      PROVE  Typed'
  BY <1>6, SavesKeepTypes
<1>7. ASSUME NEW c \in Clients, Publish(c) \/ Answer(c) \/ Receive(c)
      PROVE  Typed'
  BY <1>7, PublishKeepsTypes, AnswerKeepsTypes, ReceiveKeepsTypes
<1> QED  BY <1>1, <1>2, <1>3, <1>4, <1>5, <1>6, <1>7 DEF Next, Writes

(* The types of the handlers, clients and queues.                          *)
THEOREM ConfigApiTypeCorrect == Spec => []TypeOK
<1>1. Typed => TypeOK
  BY DEF Typed
<1> QED  BY <1>1, InitTyped, TypedStep, PTL DEF Spec
----------------------------------------------------------------------------
(* What a step brings into circulation.                                    *)

Copies == {copy[c] : c \in {d \in Clients : copy[d] # None}}
Asked == {req[c].held : c \in {d \in Clients : req[d] # None}}
Sent == UNION {ToSet(inbox[c]) \ {Other} : c \in Clients}

LEMMA KnownParts ==
    Known = {EffectiveHeld} \cup Copies \cup Asked \cup Sent \cup ({last} \ {None})
BY DEF Known, InCirculation, Copies, Asked, Sent

LEMMA KnownPartsNext ==
    Known' = {EffectiveHeld'} \cup Copies' \cup Asked' \cup Sent' \cup ({last'} \ {None})
BY DEF Known, InCirculation, Copies, Asked, Sent

(* An event in a queue is known.                                           *)
LEMMA QueuedIsSent ==
    ASSUME NEW c \in Clients, NEW i \in DOMAIN inbox[c], inbox[c][i] # Other
    PROVE  inbox[c][i] \in Sent
<1>1. inbox[c][i] \in ToSet(inbox[c])
  BY DEF ToSet
<1> QED  BY <1>1 DEF Sent

LEMMA SentNext ==
    ASSUME NEW h \in Sent'
    PROVE  \E c \in Clients : \E j \in DOMAIN inbox'[c] : h = inbox'[c][j] /\ h # Other
<1>1. PICK c \in Clients : h \in ToSet(inbox[c])' \ {Other}
  BY DEF Sent
<1>2. ToSet(inbox[c])' = {inbox'[c][j] : j \in DOMAIN inbox'[c]}
  BY DEF ToSet
<1> QED  BY <1>1, <1>2

LEMMA BroadcastSends ==
    ASSUME Queued, NEW e \in Event, Broadcast(e),
           NEW c \in Clients, NEW j \in DOMAIN inbox'[c]
    PROVE  inbox'[c][j] = e \/ (\E i \in DOMAIN inbox[c] : inbox'[c][j] = inbox[c][i])
<1>1. inbox[c] \in Seq(Event) /\ Len(inbox[c]) <= Capacity
  BY DEF Queued
<1>2. CASE c \notin online
  BY <1>2 DEF Broadcast
<1>3. CASE c \in online
  <2> DEFINE kept == Retained(Append(inbox[c], e))
             k == Len(kept)
             n == Len(inbox[c])
  <2>1. inbox'[c] = kept
    BY <1>3 DEF Broadcast
  <2>2. /\ kept \in Seq(Event) /\ k \in Nat \ {0} /\ n \in Nat
        /\ k <= n + 1
        /\ kept[k] = e
        /\ \A i \in 1..(k - 1) : kept[i] = inbox[c][i + n + 1 - k]
    <3>1. n \in Nat
      BY <1>1, LenProperties
    <3>2. /\ kept \in Seq(Event) /\ k \in 1..Capacity
          /\ k = n + 1 \/ (k = Capacity /\ n = Capacity)
          /\ kept[k] = e
          /\ \A i \in 1..(k - 1) : kept[i] = inbox[c][i + n + 1 - k]
      BY <1>1, RetainedProperties
    <3>3. Capacity \in Nat
      BY ApiAssumption
    <3> HIDE DEF kept, k, n
    <3> QED  BY <3>1, <3>2, <3>3
  <2>3. DOMAIN inbox'[c] = 1..k /\ DOMAIN inbox[c] = 1..n
    BY <1>1, <2>1, <2>2, LenProperties
  <2>4. CASE j = k
    BY <2>1, <2>2, <2>4
  <2>5. CASE j # k
    <3>1. j \in 1..(k - 1) /\ j + n + 1 - k \in 1..n
      <4> HIDE DEF kept, k, n
      <4> QED  BY <2>2, <2>3, <2>5
    <3> QED  BY <2>1, <2>2, <2>3, <3>1
  <2> QED  BY <2>4, <2>5
<1> QED  BY <1>2, <1>3
(* Where each of the four may come from.                                   *)
Before == Copies \cup Asked \cup Sent \cup {EffectiveHeld}

LEMMA CopiesStep ==
    ASSUME Typed, [Next]_vars
    PROVE  Copies' \subseteq Before
<1> SUFFICES ASSUME NEW c \in Clients, copy'[c] # None PROVE copy'[c] \in Before
  BY DEF Copies
<1>1. CASE copy'[c] = copy[c]
  BY <1>1 DEF Before, Copies
<1>2. CASE copy'[c] = EffectiveHeld
  BY <1>2 DEF Before
<1>3. CASE Answer(c) /\ copy'[c] # copy[c]
  <2>1. copy'[c] = req[c].held
    BY <1>3, TypedParts DEF Answer, Rest
  <2>2. req[c] # None
    BY <1>3, TypedParts DEF Answer, Underway
  <2> QED  BY <2>1, <2>2 DEF Before, Asked
<1>4. CASE Receive(c) /\ copy'[c] # copy[c]
  <2>1. copy'[c] = Forwarded(inbox[c]) /\ Configs(inbox[c]) # {}
    BY <1>4, TypedParts DEF Receive, Rest
  <2>2. inbox[c] \in Seq(Event)
    BY TypedParts DEF Queued
  <2>3. PICK i \in DOMAIN inbox[c] : inbox[c][i] \in Held /\ copy'[c] = inbox[c][i]
    BY <2>1, <2>2, ForwardedProperties
  <2>4. inbox[c][i] # Other
    BY <2>3, ApiAssumption
  <2> QED  BY <2>3, <2>4, QueuedIsSent DEF Before
<1>5. \/ copy' = copy
      \/ \E d \in Clients : copy' = [copy EXCEPT ![d] = EffectiveHeld]
      \/ \E d \in Clients : Answer(d) \/ Receive(d)
  <2>1. CASE UNCHANGED vars \/ PublishOther \/ Restart
    BY <2>1 DEF vars, clientVars, PublishOther, Restart
  <2>2. ASSUME NEW d \in Clients, Fetch(d) \/ Subscribe(d) \/ Unsubscribe(d) \/ Publish(d)
        PROVE  copy' = copy \/ copy' = [copy EXCEPT ![d] = EffectiveHeld]
    BY <2>2 DEF Fetch, Subscribe, Unsubscribe, Publish
  <2>3. ASSUME NEW d \in Clients, SaveEnds(d) \/ HangUp(d) \/ OrphanSaved(d)
        PROVE  copy' = copy
    BY <2>3 DEF SaveEnds, HangUp, OrphanSaved, clientVars
  <2>4. ASSUME NEW d \in Clients, Writes(d)
        PROVE  copy' = copy
    BY <2>4, WritesAreAccepted DEF Typed, Written, Accepted, clientVars
  <2> QED  BY <2>1, <2>2, <2>3, <2>4 DEF Next, Writes
<1>6. copy \in [Clients -> Optional(Held)]
  BY TypedParts DEF Rest
<1>7. ASSUME NEW d \in Clients, Answer(d) \/ Receive(d), d # c
      PROVE  copy'[c] = copy[c]
  BY <1>6, <1>7 DEF Answer, Receive
<1> QED  BY <1>1, <1>2, <1>3, <1>4, <1>5, <1>6, <1>7

LEMMA AskedStep ==
    ASSUME Typed, [Next]_vars
    PROVE  Asked' \subseteq Asked \cup {EffectiveHeld'}
<1> SUFFICES ASSUME NEW c \in Clients, req'[c] # None
             PROVE  req'[c].held \in Asked \cup {EffectiveHeld'}
  BY DEF Asked
<1>1. CASE req'[c] = req[c]
  BY <1>1 DEF Asked
<1>2. CASE req'[c].held = EffectiveHeld'
  BY <1>2
<1>3. req \in [Clients -> Optional(Request)]
  BY TypedParts DEF Rest
<1>4. CASE UNCHANGED vars \/ PublishOther
  BY <1>1, <1>4 DEF vars, PublishOther
<1>5. CASE Restart
  BY <1>5 DEF Restart
<1>6. ASSUME NEW d \in Clients, \/ Fetch(d) \/ Subscribe(d) \/ Unsubscribe(d)
                                \/ SaveEnds(d) \/ OrphanSaved(d) \/ Publish(d) \/ Receive(d)
      PROVE  req' = req
  BY <1>6 DEF Fetch, Subscribe, Unsubscribe, SaveEnds, OrphanSaved, Publish, Receive
<1>7. ASSUME NEW d \in Clients, HangUp(d) \/ Answer(d)
      PROVE  req'[c] = req[c]
  <2>1. req' = [req EXCEPT ![d] = None]
    BY <1>7 DEF HangUp, Answer
  <2> QED  BY <1>3, <2>1
<1>8. ASSUME NEW d \in Clients, Writes(d)
      PROVE  req'[c] = req[c] \/ req'[c].held = EffectiveHeld'
  <2>1. PICK expected \in Conditions(d), step \in {"save", "publish"} : Written(d, expected, step)
    BY <1>8, WritesAreAccepted DEF Typed
  <2>2. req' = [req EXCEPT ![d] = [held |-> EffectiveHeld', blind |-> Blind(d, expected)]]
    BY <2>1 DEF Written, Accepted
  <2> QED  BY <1>3, <2>2
<1> QED  BY <1>1, <1>2, <1>4, <1>5, <1>6, <1>7, <1>8 DEF Next, Writes

(* What is broadcast was asked for.                                        *)
LEMMA SentStep ==
    ASSUME Typed, [Next]_vars
    PROVE  Sent' \subseteq Before
<1> SUFFICES ASSUME NEW c \in Clients, NEW j \in DOMAIN inbox'[c], inbox'[c][j] # Other
             PROVE  inbox'[c][j] \in Before
  BY SentNext
<1>1. CASE inbox'[c] = inbox[c]
  BY <1>1, QueuedIsSent DEF Before
<1>2. CASE inbox'[c] = <<>>
  BY <1>2
<1>3. ASSUME NEW e \in Event, Broadcast(e), e = Other \/ e \in Asked
      PROVE  inbox'[c][j] \in Before
  <2>1. CASE inbox'[c][j] = e
    BY <1>3, <2>1 DEF Before
  <2>2. CASE \E i \in DOMAIN inbox[c] : inbox'[c][j] = inbox[c][i]
    BY <2>2, QueuedIsSent DEF Before
  <2> QED  BY <1>3, <2>1, <2>2, BroadcastSends, TypedParts
<1>4. inbox \in [Clients -> Seq(Event)]
  BY TypedParts DEF Queued
<1>5. ASSUME NEW d \in Clients, Publish(d)
      PROVE  inbox'[c][j] \in Before
  <2>1. req[d].held \in Held /\ req[d] # None
    BY <1>5, PublishesHaveARequest, TypedParts DEF Publish, Underway
  <2>2. req[d].held \in Asked /\ req[d].held \in Event
    BY <2>1 DEF Asked, Event
  <2> QED  BY <1>3, <1>5, <2>2 DEF Publish
<1>6. CASE PublishOther
  BY <1>3, <1>6 DEF PublishOther, Event
<1>7. CASE UNCHANGED vars
  BY <1>1, <1>7 DEF vars, clientVars
<1>8. CASE Restart
  BY <1>2, <1>8 DEF Restart
<1>9. ASSUME NEW d \in Clients, Subscribe(d) \/ Unsubscribe(d) \/ Receive(d)
      PROVE  inbox'[c] = inbox[c] \/ inbox'[c] = <<>>
  BY <1>4, <1>9 DEF Subscribe, Unsubscribe, Receive
<1>10. ASSUME NEW d \in Clients, Fetch(d) \/ SaveEnds(d) \/ HangUp(d) \/ OrphanSaved(d) \/ Answer(d)
       PROVE  inbox' = inbox
  BY <1>10 DEF Fetch, SaveEnds, HangUp, OrphanSaved, Answer, clientVars
<1>11. ASSUME NEW d \in Clients, Writes(d)
       PROVE  inbox' = inbox
  BY <1>11, WritesAreAccepted DEF Typed, Written, Accepted, clientVars
<1> QED  BY <1>1, <1>2, <1>5, <1>6, <1>7, <1>8, <1>9, <1>10, <1>11 DEF Next, Writes
LEMMA LastStep ==
    ASSUME Typed, [Next]_vars
    PROVE  last' \in {last, None} \cup Asked
<1>1. CASE UNCHANGED vars \/ PublishOther \/ Restart
  BY <1>1 DEF vars, PublishOther, Restart
<1>2. ASSUME NEW d \in Clients, Fetch(d) \/ Subscribe(d) \/ Unsubscribe(d) \/ Receive(d)
      PROVE  last' = last
  BY <1>2 DEF Fetch, Subscribe, Unsubscribe, Receive
<1>3. ASSUME NEW d \in Clients, SaveEnds(d) \/ HangUp(d) \/ OrphanSaved(d) \/ Answer(d)
      PROVE  last' = last
  BY <1>3 DEF SaveEnds, HangUp, OrphanSaved, Answer
<1>4. ASSUME NEW d \in Clients, Writes(d)
      PROVE  last' = last
  BY <1>4, WritesAreAccepted DEF Typed, Written, Accepted
<1>5. ASSUME NEW d \in Clients, Publish(d)
      PROVE  last' \in Asked
  <2>1. req[d] # None
    BY <1>5, PublishesHaveARequest, TypedParts DEF Publish, Underway
  <2> QED  BY <1>5, <2>1 DEF Publish, Asked
<1> QED  BY <1>1, <1>2, <1>3, <1>4, <1>5 DEF Next, Writes

(* A step makes nothing known but the document that is then live.          *)
LEMMA KnownStep ==
    ASSUME Typed, [Next]_vars
    PROVE  Known' \subseteq Known \cup {EffectiveHeld'}
<1>1. Copies' \subseteq Before /\ Sent' \subseteq Before
  BY CopiesStep, SentStep
<1>2. Asked' \subseteq Asked \cup {EffectiveHeld'}
  BY AskedStep
<1>3. last' \in {last, None} \cup Asked
  BY LastStep
<1> QED  BY <1>1, <1>2, <1>3, KnownParts, KnownPartsNext DEF Before

LEMMA KnownIsTyped ==
    ASSUME Typed
    PROVE  Known \subseteq Held
<1>1. EffectiveHeld \in Held
  BY EffectiveIsTyped, TypedParts
<1>2. Copies \subseteq Held
  BY TypedParts DEF Copies, Rest, Optional
<1>3. Asked \subseteq Held
  <2>1. \A c \in Clients : req[c] # None => req[c].held \in Held
    BY TypedParts DEF Rest, Optional, Request
  <2> QED  BY <2>1 DEF Asked
<1>4. Sent \subseteq Held
  <2> SUFFICES ASSUME NEW c \in Clients, NEW h \in ToSet(inbox[c]), h # Other
               PROVE  h \in Held
    BY DEF Sent
  <2>1. inbox[c] \in Seq(Event)
    BY TypedParts DEF Queued
  <2>2. PICK i \in DOMAIN inbox[c] : h = inbox[c][i]
    BY DEF ToSet
  <2>3. i \in 1..Len(inbox[c])
    BY <2>1, LenProperties
  <2>4. h \in Event
    BY <2>1, <2>2, <2>3, ElementOfSeq
  <2> QED  BY <2>4 DEF Event
<1>5. last \in Held \cup {None}
  BY TypedParts DEF Rest, Optional
<1> QED  BY <1>1, <1>2, <1>3, <1>4, <1>5, KnownParts

----------------------------------------------------------------------------
(* Names.                                                                  *)

(* Whenever the live document changes its name becomes a later one.        *)
LEMMA NamesAdvance ==
    ASSUME Typed, [Next]_vars
    PROVE  \/ EffectiveHeld' = EffectiveHeld /\ epoch' = epoch /\ generation' = generation
           \/ epoch' = epoch /\ generation' = generation + 1
           \/ epoch' = epoch + 1
<1>1. CASE UNCHANGED docVars
  BY <1>1, UnchangedDocument
<1>2. CASE Restart
  BY <1>2 DEF Restart, Construct
<1>3. ASSUME NEW d \in Clients, Writes(d)
      PROVE  epoch' = epoch /\ generation' = generation + 1
  BY <1>3, WritesAreAccepted DEF Typed, Written
<1>4. CASE UNCHANGED vars \/ PublishOther
  BY <1>1, <1>4 DEF vars, PublishOther
<1>5. ASSUME NEW d \in Clients, \/ Fetch(d) \/ Subscribe(d) \/ Unsubscribe(d) \/ Receive(d)
                                \/ SaveEnds(d) \/ HangUp(d) \/ OrphanSaved(d)
                                \/ Publish(d) \/ Answer(d)
      PROVE  UNCHANGED docVars
  BY <1>5 DEF Fetch, Subscribe, Unsubscribe, Receive, SaveEnds, HangUp, OrphanSaved,
              Publish, Answer
<1> QED  BY <1>1, <1>2, <1>3, <1>4, <1>5 DEF Next, Writes

LEMMA InitNamed == Init => Named
<1> SUFFICES ASSUME Init PROVE Named
  OBVIOUS
<1>1. Typed
  BY InitTyped
<1>2. Copies = {} /\ Asked = {}
  BY DEF Init, Copies, Asked
<1>3. Sent = {}
  <2>1. \A c \in Clients : inbox[c] = <<>>
    BY DEF Init
  <2>2. \A c \in Clients : DOMAIN inbox[c] = {}
    BY <2>1
  <2>3. \A c \in Clients : ToSet(inbox[c]) = {}
    BY <2>2 DEF ToSet
  <2> QED  BY <2>3 DEF Sent
<1>4. Known = {EffectiveHeld}
  BY <1>2, <1>3, KnownParts DEF Init
<1>5. EffectiveHeld.version.epoch = epoch /\ EffectiveHeld.version.generation = generation
  BY EffectiveName
<1>6. generation \in Nat /\ epoch \in Nat
  BY <1>1, TypedParts DEF DocTypeOK
<1>7. Aged
  BY <1>4, <1>5, <1>6 DEF Aged, NotAfter
<1>8. OneName
  BY <1>4 DEF OneName
<1> QED  BY <1>1, <1>7, <1>8 DEF Named

LEMMA NamedStep == Named /\ [Next]_vars => Named'
<1> SUFFICES ASSUME Named, [Next]_vars PROVE Named'
  OBVIOUS
<1>1. Typed /\ Typed'
  BY TypedStep DEF Named
<1> DEFINE live == EffectiveHeld
           next == EffectiveHeld'
<1>2. Known' \subseteq Known \cup {next} /\ live \in Known
  BY <1>1, KnownStep, KnownParts
<1>3. \A h \in Known : /\ h.version.generation \in Nat /\ h.version.epoch \in Nat
                       /\ NotAfter(h)
  BY <1>1, KnownIsTyped DEF Held, Named, Aged
<1>4. /\ generation \in Nat /\ epoch \in Nat
      /\ generation' \in Nat /\ epoch' \in Nat
  BY <1>1, TypedParts, TypedPartsNext DEF DocTypeOK
<1>5. next.version.epoch = epoch' /\ next.version.generation = generation'
  BY DEF EffectiveHeld, Version
<1>6. \/ next = live /\ epoch' = epoch /\ generation' = generation
      \/ epoch' = epoch /\ generation' = generation + 1
      \/ epoch' = epoch + 1
  BY <1>1, NamesAdvance
<1>7. \A g, h \in Known : SameName(g, h) => g = h
  BY DEF Named, OneName
<1> HIDE DEF live, next
<1>8. Aged'
  <2> SUFFICES ASSUME NEW h \in Known' PROVE NotAfter(h)'
    BY DEF Aged
  <2>1. CASE h = next
    BY <1>4, <1>5, <2>1 DEF NotAfter
  <2>2. CASE h \in Known
    BY <1>3, <1>4, <1>6, <2>2 DEF NotAfter
  <2> QED  BY <1>2, <2>1, <2>2
<1>9. ASSUME NEW h \in Known, SameName(h, next)
      PROVE  h = next
  <2>1. next = live
    BY <1>3, <1>4, <1>5, <1>6, <1>9 DEF NotAfter, SameName
  <2> QED  BY <1>2, <1>7, <1>9, <2>1
<1>10. ASSUME NEW h \in Known, SameName(next, h)
       PROVE  h = next
  BY <1>9, <1>10 DEF SameName
<1>11. OneName'
  <2> SUFFICES ASSUME NEW g \in Known', NEW h \in Known', SameName(g, h)
               PROVE  g = h
    BY DEF OneName, SameName
  <2> QED  BY <1>2, <1>7, <1>9, <1>10
<1> QED  BY <1>1, <1>8, <1>11 DEF Named

(* A name stands for one document, in the whole of its circulation.        *)
THEOREM NamesAreUnique == Spec => []VersionNamesOneDocument
<1>1. Named => VersionNamesOneDocument
  BY DEF Named, OneName, SameName, Known, VersionNamesOneDocument
<1> QED  BY <1>1, InitNamed, NamedStep, PTL DEF Spec

----------------------------------------------------------------------------
(* Conditional writes.                                                     *)

LEMMA WritesSeeTheirBasis ==
    ASSUME Named, NEW c \in Clients, NEW expected \in Conditions(c), Matches(expected)
    PROVE  ~Blind(c, expected)
<1> SUFFICES ASSUME expected.epoch # None
             PROVE  copy[c].content = Effective.content
  BY DEF Blind
<1>1. copy[c] # None /\ expected = copy[c].version
  BY DEF Conditions, Unconditional
<1>2. copy[c] \in Known /\ EffectiveHeld \in Known
  BY <1>1, KnownParts DEF Copies
<1>3. copy[c].version.generation \in Nat /\ copy[c].version.epoch \in Nat
  BY <1>2, KnownIsTyped DEF Named, Held
<1>4. copy[c].version.generation = generation /\ copy[c].version.epoch = epoch
  BY <1>1, <1>3, ContentsAssumption DEF Matches
<1>5. SameName(copy[c], EffectiveHeld)
  BY <1>4, EffectiveName DEF SameName
<1>6. copy[c] = EffectiveHeld
  BY <1>2, <1>5 DEF Named, OneName
<1> QED  BY <1>6 DEF EffectiveHeld

LEMMA BasisStep == Named /\ ConditionalWriteSawBasis /\ [Next]_vars => ConditionalWriteSawBasis'
<1> SUFFICES ASSUME Named, ConditionalWriteSawBasis, [Next]_vars,
                    NEW c \in Clients, req'[c] # None
             PROVE  ~req'[c].blind
  BY DEF ConditionalWriteSawBasis
<1>1. Typed
  BY DEF Named
<1>2. req \in [Clients -> Optional(Request)]
  BY <1>1, TypedParts DEF Rest
<1>3. CASE req'[c] = req[c]
  BY <1>3 DEF ConditionalWriteSawBasis
<1>4. CASE UNCHANGED vars \/ PublishOther
  BY <1>3, <1>4 DEF vars, PublishOther
<1>5. CASE Restart
  BY <1>5 DEF Restart
<1>6. ASSUME NEW d \in Clients, \/ Fetch(d) \/ Subscribe(d) \/ Unsubscribe(d)
                                \/ SaveEnds(d) \/ OrphanSaved(d) \/ Publish(d) \/ Receive(d)
      PROVE  req' = req
  BY <1>6 DEF Fetch, Subscribe, Unsubscribe, SaveEnds, OrphanSaved, Publish, Receive
<1>7. ASSUME NEW d \in Clients, HangUp(d) \/ Answer(d)
      PROVE  req'[c] = req[c]
  <2>1. req' = [req EXCEPT ![d] = None]
    BY <1>7 DEF HangUp, Answer
  <2> QED  BY <1>2, <2>1
<1>8. ASSUME NEW d \in Clients, Writes(d)
      PROVE  req'[c] = req[c] \/ ~req'[c].blind
  <2>1. PICK expected \in Conditions(d), step \in {"save", "publish"} : Written(d, expected, step)
    BY <1>1, <1>8, WritesAreAccepted DEF Typed
  <2>2. req' = [req EXCEPT ![d] = [held |-> EffectiveHeld', blind |-> Blind(d, expected)]]
    BY <2>1 DEF Written, Accepted
  <2>3. ~Blind(d, expected)
    BY <2>1, WritesSeeTheirBasis DEF Written
  <2> QED  BY <1>2, <2>2, <2>3
<1> QED  BY <1>3, <1>4, <1>5, <1>6, <1>7, <1>8 DEF Next, Writes

(* A write that names the generation and the epoch its client was given is *)
(* applied to the document that client had in hand.                        *)
THEOREM ConditionalWritesAreSafe == Spec => []ConditionalWriteSawBasis
<1>1. Init => ConditionalWriteSawBasis
  BY DEF Init, ConditionalWriteSawBasis
<1> QED  BY <1>1, InitNamed, NamedStep, BasisStep, PTL DEF Spec
----------------------------------------------------------------------------
(* The last config_changed.                                                *)

(* The live document is what was announced last, or later.                 *)
LEMMA LiveIsAbreast ==
    ASSUME Named, last # None, last.version.epoch = epoch
    PROVE  /\ EffectiveHeld # None
           /\ \/ EffectiveHeld = last
              \/ EffectiveHeld.version.generation > last.version.generation
<1>1. last \in Known /\ EffectiveHeld \in Known
  BY KnownParts
<1>2. last \in Held /\ EffectiveHeld \in Held
  BY <1>1, KnownIsTyped DEF Named
<1>3. last.version.generation <= generation /\ generation \in Nat
  BY <1>1, <1>2, TypedParts DEF Named, Aged, NotAfter, Held, DocTypeOK
<1>4. last.version.generation \in Nat
  BY <1>2 DEF Held
<1>5. CASE last.version.generation = generation
  <2>1. SameName(EffectiveHeld, last)
    BY <1>5, EffectiveName DEF SameName
  <2> QED  BY <1>1, <1>2, <2>1, ApiAssumption DEF Named, OneName
<1>6. CASE last.version.generation < generation
  <2>1. EffectiveHeld.version.generation = generation
    BY EffectiveName
  <2> QED  BY <1>2, <1>6, <2>1, ApiAssumption
<1> QED  BY <1>3, <1>4, <1>5, <1>6

(* An emptied queue has nothing older than what its client holds.          *)
LEMMA EmptiedIsAbreast ==
    ASSUME NEW c \in Clients, inbox'[c] = <<>>, copy'[c] # None,
           copy'[c] = last' \/ copy'[c].version.generation > last'.version.generation
    PROVE  Abreast(c)'
BY DEF Abreast, Configs

LEMMA PublishDelivers ==
    ASSUME Typed, NEW d \in Clients, Publish(d), NEW c \in online
    PROVE  Behind(c)'
<1> DEFINE e == req[d].held
           kept == Retained(Append(inbox[c], e))
           k == Len(kept)
<1>1. e \in Event
  BY PublishesHaveARequest DEF Publish, Event
<1>2. c \in Clients /\ inbox[c] \in Seq(Event) /\ Len(inbox[c]) <= Capacity
  BY TypedParts DEF Rest, Queued
<1>3. kept \in Seq(Event) /\ k \in 1..Capacity /\ kept[k] = e
  BY <1>1, <1>2, RetainedProperties
<1>4. inbox'[c] = kept /\ last' = e /\ noise' = 0
  BY <1>2 DEF Publish, Broadcast
<1>5. k \in Nat /\ DOMAIN kept = 1..k
  BY <1>3, LenProperties
<1>6. k \in DOMAIN kept /\ k - k <= 0 /\ \A j \in DOMAIN kept : ~(j > k)
  <2> HIDE DEF kept, k
  <2> QED  BY <1>3, <1>5
<1> HIDE DEF e, kept
<1>7. /\ k \in DOMAIN inbox'[c] /\ inbox'[c][k] = last'
      /\ Len(inbox'[c]) - k <= noise'
      /\ \A j \in DOMAIN inbox'[c] : j > k => inbox'[c][j] = Other
  BY <1>3, <1>4, <1>6
<1> QED  BY <1>7 DEF Behind

LEMMA OtherLeavesItBehind ==
    ASSUME MaxNoise < Capacity, Typed, PublishOther, NEW c \in online, Behind(c)
    PROVE  Behind(c)'
<1> DEFINE kept == Retained(Append(inbox[c], Other))
           k == Len(kept)
           n == Len(inbox[c])
<1>1. c \in Clients /\ inbox[c] \in Seq(Event) /\ n <= Capacity
  BY TypedParts DEF Rest, Queued
<1>2. n \in Nat /\ DOMAIN inbox[c] = 1..n
  BY <1>1, LenProperties
<1>3. /\ kept \in Seq(Event) /\ k \in 1..Capacity
      /\ k = n + 1 \/ (k = Capacity /\ n = Capacity)
      /\ kept[k] = Other
      /\ \A i \in 1..(k - 1) : kept[i] = inbox[c][i + n + 1 - k]
  BY <1>1, RetainedProperties DEF Event
<1>4. inbox'[c] = kept /\ last' = last /\ noise' = noise + 1 /\ noise < MaxNoise
  BY <1>1 DEF PublishOther, Broadcast
<1>5. noise \in Nat /\ MaxNoise \in Nat /\ Capacity \in Nat
  BY TypedParts, ApiAssumption DEF Rest
<1>6. DOMAIN kept = 1..k
  BY <1>3, LenProperties
<1>7. PICK i \in 1..n : /\ inbox[c][i] = last /\ n - i <= noise
                        /\ \A j \in 1..n : j > i => inbox[c][j] = Other
  BY <1>2 DEF Behind
<1>8. Len(inbox'[c]) = k
  BY <1>4
<1> DEFINE m == i + k - n - 1
<1> HIDE DEF kept, k, n
<1>9. m \in 1..(k - 1) /\ m + n + 1 - k = i /\ k - m <= noise + 1
  BY <1>2, <1>3, <1>4, <1>5, <1>7
<1>10. kept[m] = last
  BY <1>3, <1>7, <1>9
<1>11. ASSUME NEW j \in 1..k, j > m
       PROVE  kept[j] = Other
  <2>1. CASE j = k
    BY <1>3, <2>1
  <2>2. CASE j # k
    <3>1. k \in Nat /\ n \in Nat /\ i \in Nat /\ k <= n + 1 /\ m = i + k - n - 1 /\ m \in Nat
      BY <1>2, <1>3, <1>5, <1>9
    <3> HIDE DEF m
    <3>2. j \in 1..(k - 1) /\ j + n + 1 - k \in 1..n /\ j + n + 1 - k > i
      BY <1>11, <2>2, <3>1
    <3> QED  BY <1>3, <1>7, <3>2
  <2> QED  BY <2>1, <2>2
<1>12. m \in 1..k
  BY <1>3, <1>5, <1>9
<1> HIDE DEF m
<1>13. /\ m \in DOMAIN inbox'[c] /\ inbox'[c][m] = last'
       /\ Len(inbox'[c]) - m <= noise'
       /\ \A j \in DOMAIN inbox'[c] : j > m => inbox'[c][j] = Other
  BY <1>4, <1>6, <1>9, <1>10, <1>11, <1>12, <1>8
<1> QED  BY <1>13 DEF Behind

LEMMA OtherLeavesItAbreast ==
    ASSUME Typed, PublishOther, NEW c \in online, Abreast(c)
    PROVE  Abreast(c)'
<1>1. c \in Clients /\ UNCHANGED <<copy, last>>
  BY TypedParts DEF PublishOther, Rest
<1>2. \A j \in DOMAIN inbox'[c] : inbox'[c][j] = Other
  <2> SUFFICES ASSUME NEW j \in DOMAIN inbox'[c] PROVE inbox'[c][j] = Other
    OBVIOUS
  <2>1. Other \in Event /\ Broadcast(Other)
    BY DEF Event, PublishOther
  <2>2. \/ inbox'[c][j] = Other
        \/ \E i \in DOMAIN inbox[c] : inbox'[c][j] = inbox[c][i]
    BY <1>1, <2>1, BroadcastSends, TypedParts
  <2>3. \A i \in DOMAIN inbox[c] : inbox[c][i] = Other
    BY DEF Abreast, Configs
  <2> QED  BY <2>2, <2>3
<1> QED  BY <1>1, <1>2 DEF Abreast, Configs

LEMMA ReceiveCatchesUp ==
    ASSUME Typed, last # None, NEW c \in online, Receive(c), Behind(c) \/ Abreast(c)
    PROVE  Abreast(c)'
<1>1. c \in Clients /\ inbox[c] \in Seq(Event)
  BY TypedParts DEF Rest, Queued
<1>2. inbox'[c] = <<>> /\ last' = last
  BY <1>1, TypedParts DEF Receive, Queued
<1>3. CASE Behind(c)
  <2>1. PICK i \in DOMAIN inbox[c] :
          inbox[c][i] = last /\ \A j \in DOMAIN inbox[c] : j > i => inbox[c][j] = Other
    BY <1>3 DEF Behind
  <2>2. last # Other
    BY TypedParts, ApiAssumption DEF Rest, Optional
  <2>3. Configs(inbox[c]) # {}
    BY <2>1, <2>2 DEF Configs
  <2>4. PICK k \in DOMAIN inbox[c] :
          /\ inbox[c][k] \in Held /\ Forwarded(inbox[c]) = inbox[c][k]
          /\ \A j \in DOMAIN inbox[c] : inbox[c][j] # Other => j <= k
    BY <1>1, <2>3, ForwardedProperties
  <2>5. k = i
    <3>1. DOMAIN inbox[c] = 1..Len(inbox[c]) /\ Len(inbox[c]) \in Nat
      BY <1>1, LenProperties
    <3>2. i <= k
      BY <2>1, <2>2, <2>4
    <3>3. ~(k > i)
      BY <2>1, <2>4, ApiAssumption
    <3> QED  BY <3>1, <3>2, <3>3
  <2>6. copy'[c] = last
    BY <1>1, <2>1, <2>3, <2>4, <2>5, TypedParts DEF Receive, Rest
  <2> QED  BY <1>2, <1>1, <2>6, EmptiedIsAbreast
<1>4. CASE Abreast(c)
  <2>1. copy' = copy
    BY <1>4 DEF Receive, Abreast
  <2> QED  BY <1>1, <1>2, <1>4, <2>1, EmptiedIsAbreast DEF Abreast
<1> QED  BY <1>3, <1>4
LEMMA DeliveredStep ==
    ASSUME MaxNoise < Capacity
    PROVE  Named /\ Delivered /\ [Next]_vars => Delivered'
<1> SUFFICES ASSUME Named, Delivered, [Next]_vars, last' # None
             PROVE  /\ last'.version.epoch = epoch'
                    /\ \A c \in online' : Behind(c)' \/ Abreast(c)'
  BY DEF Delivered
<1>1. Typed
  BY DEF Named
<1>2. ~Restart
  BY DEF Restart
<1>3. ASSUME NEW d \in Clients, Publish(d)
      PROVE  /\ last'.version.epoch = epoch'
             /\ \A c \in online' : Behind(c)'
  <2>1. req[d].held.version.epoch = epoch
    BY <1>1, <1>3, PublishesHaveARequest DEF Publish
  <2>2. last' = req[d].held /\ epoch' = epoch /\ online' = online
    BY <1>3 DEF Publish, docVars
  <2> QED  BY <1>1, <1>3, <2>1, <2>2, PublishDelivers
<1>4. ASSUME last' = last, epoch' = epoch,
             \A c \in online' : c \in online /\ (Behind(c) \/ Abreast(c)) => Behind(c)' \/ Abreast(c)',
             \A c \in online' : c \in online \/ Abreast(c)'
      PROVE  /\ last'.version.epoch = epoch'
             /\ \A c \in online' : Behind(c)' \/ Abreast(c)'
  BY <1>4 DEF Delivered
<1>5. ASSUME UNCHANGED <<online, inbox, copy, noise, last, epoch>>
      PROVE  /\ last'.version.epoch = epoch'
             /\ \A c \in online' : Behind(c)' \/ Abreast(c)'
  BY <1>5 DEF Delivered, Behind, Abreast
<1>6. CASE UNCHANGED vars
  BY <1>5, <1>6 DEF vars, clientVars, docVars
<1>7. ASSUME NEW d \in Clients, SaveEnds(d) \/ HangUp(d) \/ OrphanSaved(d)
      PROVE  UNCHANGED <<online, inbox, copy, noise, last, epoch>>
  BY <1>7 DEF SaveEnds, HangUp, OrphanSaved, clientVars, docVars
<1>8. ASSUME NEW d \in Clients, Writes(d)
      PROVE  UNCHANGED <<online, inbox, copy, noise, last, epoch>>
  BY <1>1, <1>8, WritesAreAccepted DEF Typed, Written, Accepted, clientVars
<1>9. CASE PublishOther
  <2>1. online' = online /\ last' = last /\ epoch' = epoch
    BY <1>9 DEF PublishOther, docVars
  <2>2. \A c \in online : Behind(c) => Behind(c)'
    BY <1>1, <1>9, OtherLeavesItBehind
  <2>3. \A c \in online : Abreast(c) => Abreast(c)'
    BY <1>1, <1>9, OtherLeavesItAbreast
  <2> QED  BY <1>4, <2>1, <2>2, <2>3
<1>10. ASSUME NEW d \in Clients, Receive(d)
       PROVE  /\ last'.version.epoch = epoch'
              /\ \A c \in online' : Behind(c)' \/ Abreast(c)'
  <2>1. online' = online /\ last' = last /\ epoch' = epoch
    BY <1>10 DEF Receive, docVars
  <2>2. ASSUME NEW c \in online, Behind(c) \/ Abreast(c)
        PROVE  Behind(c)' \/ Abreast(c)'
    <3>1. CASE c = d
      BY <1>1, <1>10, <2>1, <2>2, <3>1, ReceiveCatchesUp
    <3>2. CASE c # d
      <4>1. c \in Clients /\ inbox'[c] = inbox[c] /\ copy'[c] = copy[c] /\ noise' = noise
        BY <1>1, <1>10, <3>2, TypedParts DEF Receive, Rest, Queued
      <4> QED  BY <2>1, <2>2, <4>1 DEF Behind, Abreast
    <3> QED  BY <3>1, <3>2
  <2> QED  BY <1>4, <2>1, <2>2
<1>11. ASSUME NEW d \in Clients, Fetch(d) \/ Subscribe(d)
       PROVE  /\ last'.version.epoch = epoch'
              /\ \A c \in online' : Behind(c)' \/ Abreast(c)'
  <2>1. last' = last /\ epoch' = epoch /\ noise' = noise /\ copy' = [copy EXCEPT ![d] = EffectiveHeld]
    BY <1>11 DEF Fetch, Subscribe, docVars
  <2>2. copy'[d] = EffectiveHeld
    BY <1>1, <2>1, TypedParts DEF Rest
  <2>3. last # None /\ last.version.epoch = epoch
    BY <2>1 DEF Delivered
  <2>4. /\ copy'[d] # None
        /\ copy'[d] = last' \/ copy'[d].version.generation > last'.version.generation
    BY <2>1, <2>2, <2>3, LiveIsAbreast
  <2>5. CASE Subscribe(d)
    <3>1. inbox'[d] = <<>> /\ online' = online \cup {d}
      BY <1>1, <2>5, TypedParts DEF Subscribe, Queued
    <3>2. Abreast(d)'
      BY <2>4, <3>1, EmptiedIsAbreast
    <3>3. ASSUME NEW c \in online, Behind(c) \/ Abreast(c), c # d
          PROVE  Behind(c)' \/ Abreast(c)'
      <4>1. inbox'[c] = inbox[c] /\ copy'[c] = copy[c]
        BY <1>1, <2>1, <2>5, <3>3, TypedParts DEF Subscribe, Queued, Rest
      <4> QED  BY <2>1, <3>3, <4>1 DEF Behind, Abreast
    <3> QED  BY <1>4, <2>1, <3>1, <3>2, <3>3
  <2>6. CASE Fetch(d)
    <3>1. inbox' = inbox /\ online' = online
      BY <2>6 DEF Fetch
    <3>2. ASSUME NEW c \in online, Behind(c) \/ Abreast(c)
          PROVE  Behind(c)' \/ Abreast(c)'
      <4>1. CASE Behind(c)
        BY <2>1, <3>1, <4>1 DEF Behind
      <4>2. CASE Abreast(c)
        <5>1. copy'[c] = copy[c] \/ c = d
          BY <1>1, <2>1, TypedParts DEF Rest
        <5> QED  BY <2>1, <2>4, <3>1, <4>2, <5>1 DEF Abreast
      <4> QED  BY <3>2, <4>1, <4>2
    <3> QED  BY <1>4, <2>1, <3>1, <3>2
  <2> QED  BY <1>11, <2>5, <2>6
<1>12. ASSUME NEW d \in Clients, Unsubscribe(d) \/ Answer(d)
       PROVE  /\ last'.version.epoch = epoch'
              /\ \A c \in online' : Behind(c)' \/ Abreast(c)'
  <2>1. last' = last /\ epoch' = epoch /\ noise' = noise /\ online' \subseteq online
    BY <1>12 DEF Unsubscribe, Answer, docVars
  <2>2. ASSUME NEW c \in online'
        PROVE  inbox'[c] = inbox[c] /\ copy'[c] = copy[c]
    BY <1>1, <1>12, TypedParts DEF Unsubscribe, Answer, Rest, Queued
  <2>3. ASSUME NEW c \in online', Behind(c) \/ Abreast(c)
        PROVE  Behind(c)' \/ Abreast(c)'
    BY <2>1, <2>2, <2>3 DEF Behind, Abreast
  <2> QED  BY <1>4, <2>1, <2>3
<1> QED  BY <1>2, <1>3, <1>5, <1>6, <1>7, <1>8, <1>9, <1>10, <1>11, <1>12 DEF Next, Writes

(* Thinning a burst never costs a subscriber the last config_changed, if   *)
(* fewer other events come between two of them than the ring holds.        *)
THEOREM TheLastEventArrives ==
    ASSUME MaxNoise < Capacity
    PROVE  Spec => []DrainedClientsHoldTheLastEvent
<1>1. Init => Delivered
  BY DEF Init, Delivered
<1>2. Named /\ Delivered => DrainedClientsHoldTheLastEvent
  BY DEF Delivered, Behind, Abreast, DrainedClientsHoldTheLastEvent
<1> QED  BY <1>1, <1>2, InitNamed, NamedStep, DeliveredStep, PTL DEF Spec
==============================================================================
