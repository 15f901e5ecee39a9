------------------------------ MODULE ConfigApi ------------------------------
(***************************************************************************)
(* The configuration endpoints (src/api/mod.rs, src/api/config_routes.rs)  *)
(* and the event stream that tells every client what became of the one     *)
(* document they share (src/events.rs, src/api/events.rs).                 *)
(*                                                                         *)
(* A handler changes the document in one critical section of the store,    *)
(* then, if it saves, awaits a blocking flush, and only then publishes     *)
(* config_changed.  Handlers run on a multi-threaded executor, so the      *)
(* steps of two of them interleave freely.  A client holds a copy of the   *)
(* document: what it fetched, was answered, or was last sent.              *)
(*                                                                         *)
(* What a document says is one value per section.  The file is what        *)
(* DurableDocument promises: the newest document that was saved.  The      *)
(* request for a reconciliation that follows a publish is in Reconciler.   *)
(***************************************************************************)
EXTENDS Documents, SequencesExt

CONSTANTS
    Clients, Sections, Values,
    Other,      \* an event of any kind but config_changed
    Capacity,   \* events a slow subscriber may have outstanding (256)
    MayHangUp,  \* may a client disconnect while its save is awaited?
    MaxRevision, MaxGeneration, MaxEpoch, MaxNoise  \* bounds

VARIABLES
    disk,    \* the document a restart would load
    pc,      \* per client: where its request is
    req,     \* per client: what its request produced, or None
    copy,    \* per client: the document and version it believes in, or None
    online,  \* clients subscribed to the event stream
    inbox,   \* per client: events published and not yet sent to it
    noise,   \* events of other kinds since the last config_changed
    last     \* history: the newest config_changed published this epoch, or None

clientVars == <<copy, online, inbox>>
vars == <<docVars, disk, pc, req, clientVars, noise, last>>

Held == [content : Contents, version : [revision : Nat, generation : Nat, epoch : Nat]]

(* What a request leaves behind for the steps after its critical section;  *)
(* and, as history, whether it named every identity its client was given   *)
(* and was yet applied to another document than the one in that client's   *)
(* hand.                                                                   *)
Request == [held : Held, blind : BOOLEAN]

ASSUME ApiAssumption ==
    /\ Contents = [Sections -> Values]
    /\ Capacity \in Nat \ {0} /\ MayHangUp \in BOOLEAN /\ MaxNoise \in Nat
    /\ None \notin Held \cup Request \cup Contents /\ Other \notin Held

TypeOK ==
    /\ DocTypeOK
    /\ disk \in Document
    /\ pc \in [Clients -> {"idle", "save", "publish", "answer", "orphan"}]
    /\ req \in [Clients -> Optional(Request)]
    /\ copy \in [Clients -> Optional(Held)]
    /\ online \in SUBSET Clients
    /\ inbox \in [Clients -> Seq(Held \cup {Other})]
    /\ \A c \in Clients : Len(inbox[c]) <= Capacity
    /\ noise \in 0..MaxNoise
    /\ last \in Optional(Held)

Init ==
    /\ current = EmptyDocument /\ preview = None /\ generation = 0 /\ epoch = 1
    /\ disk = EmptyDocument
    /\ pc = [c \in Clients |-> "idle"]
    /\ req = [c \in Clients |-> None]
    /\ copy = [c \in Clients |-> None]
    /\ online = {}
    /\ inbox = [c \in Clients |-> <<>>]
    /\ noise = 0 /\ last = None

EffectiveHeld == [content |-> Effective.content, version |-> Version]

----------------------------------------------------------------------------
(* Reading.                                                                *)

Fetch(c) ==
    /\ pc[c] = "idle"
    /\ copy' = [copy EXCEPT ![c] = EffectiveHeld]
    /\ UNCHANGED <<docVars, disk, pc, req, online, inbox, noise, last>>

(* A well-behaved client subscribes and then fetches once.                 *)
Subscribe(c) ==
    /\ c \notin online
    /\ online' = online \cup {c}
    /\ inbox' = [inbox EXCEPT ![c] = <<>>]
    /\ copy' = [copy EXCEPT ![c] = EffectiveHeld]
    /\ UNCHANGED <<docVars, disk, pc, req, noise, last>>

Unsubscribe(c) ==
    /\ c \in online
    /\ online' = online \ {c}
    /\ inbox' = [inbox EXCEPT ![c] = <<>>]
    /\ UNCHANGED <<docVars, disk, pc, req, copy, noise, last>>

----------------------------------------------------------------------------
(* Writing: the critical section.                                          *)

(* No condition, the revision alone, or every identity it was given.       *)
Conditions(c) ==
    {Unconditional}
      \cup (IF copy[c] = None THEN {} ELSE
              {copy[c].version,
               [Unconditional EXCEPT !.revision = copy[c].version.revision]})

Blind(c, expected) == expected.epoch # None /\ copy[c].content # Effective.content

Accepted(c, expected, step) ==
    /\ pc' = [pc EXCEPT ![c] = step]
    /\ req' = [req EXCEPT ![c] = [held  |-> EffectiveHeld', blind |-> Blind(c, expected)]]
    /\ UNCHANGED <<disk, clientVars, noise, last>>

MayWrite(c) == pc[c] = "idle" /\ generation < MaxGeneration

(* commit_if: the next document is built on what is live when the lock is  *)
(* held, and its temporary section is reset.  A write that validation or a *)
(* condition refuses changes nothing.                                      *)
Commit(c, expected, content) ==
    /\ MayWrite(c) /\ current.rev < MaxRevision
    /\ StageReplace(expected, [Effective EXCEPT !.content = content, !.temporary = FALSE])
    /\ Accepted(c, expected, "save")

(* PUT or DELETE below /config/<section>: the rest of the document is kept.*)
PutSection(c) ==
    \E expected \in Conditions(c), s \in Sections, v \in Values :
        Commit(c, expected, [Effective.content EXCEPT ![s] = v])

(* PUT /config with committed = true, or a profile activated: the body is  *)
(* a whole document, edited from the copy the client holds.                *)
PutSaved(c) ==
    /\ copy[c] # None
    /\ \E expected \in Conditions(c), s \in Sections, v \in Values :
          Commit(c, expected, [copy[c].content EXCEPT ![s] = v])

Preview(c, expected, content) ==
    /\ MayWrite(c)
    /\ SetPreview(expected, [Effective EXCEPT !.content = content])
    /\ Accepted(c, expected, "publish")

(* PUT /config with committed = false, from the copy the client holds, and *)
(* the arrangement endpoint, which solves on the live document.            *)
PutPreview(c) ==
    \E expected \in Conditions(c), s \in Sections, v \in Values :
        \/ copy[c] # None /\ Preview(c, expected, [copy[c].content EXCEPT ![s] = v])
        \/ Preview(c, expected, [Effective.content EXCEPT ![s] = v])

RevertPreview(c) ==
    \E expected \in Conditions(c) :
        /\ MayWrite(c)
        /\ ClearPreview(expected)
        /\ Accepted(c, expected, "publish")

----------------------------------------------------------------------------
(* Writing: what follows the critical section.                             *)

(* The awaited flush writes the newest committed document, or fails; the   *)
(* change is published and stays live either way.                          *)
Flushed == disk' \in {disk, current}

SaveEnds(c) ==
    /\ pc[c] = "save"
    /\ Flushed
    /\ pc' = [pc EXCEPT ![c] = "publish"]
    /\ UNCHANGED <<docVars, req, clientVars, noise, last>>

(* A client that hangs up takes its handler along; the blocking save runs  *)
(* on, but nobody is left to publish.                                      *)
HangUp(c) ==
    /\ MayHangUp /\ pc[c] = "save"
    /\ pc' = [pc EXCEPT ![c] = "orphan"]
    /\ req' = [req EXCEPT ![c] = None]
    /\ UNCHANGED <<docVars, disk, clientVars, noise, last>>

OrphanSaved(c) ==
    /\ pc[c] = "orphan"
    /\ Flushed
    /\ pc' = [pc EXCEPT ![c] = "idle"]
    /\ UNCHANGED <<docVars, req, clientVars, noise, last>>

(* Slip: the ring grows.                                                   *)
RetainedAll(queue) == queue

(* The broadcast ring: a subscriber that is Capacity behind loses its      *)
(* oldest events.                                                          *)
Retained(queue) ==
    IF Len(queue) > Capacity THEN SubSeq(queue, Len(queue) - Capacity + 1, Len(queue))
                             ELSE queue

Broadcast(event) ==
    inbox' = [c \in Clients |->
                IF c \in online THEN Retained(Append(inbox[c], event)) ELSE inbox[c]]

Publish(c) ==
    /\ pc[c] = "publish"
    /\ Broadcast(req[c].held)
    /\ last' = req[c].held
    /\ noise' = 0
    /\ pc' = [pc EXCEPT ![c] = "answer"]
    /\ UNCHANGED <<docVars, disk, req, copy, online>>

(* A client that does not watch the stream goes by the answer it gets.     *)
Answer(c) ==
    /\ pc[c] = "answer"
    /\ copy' = IF c \in online THEN copy ELSE [copy EXCEPT ![c] = req[c].held]
    /\ pc' = [pc EXCEPT ![c] = "idle"]
    /\ req' = [req EXCEPT ![c] = None]
    /\ UNCHANGED <<docVars, disk, online, inbox, noise, last>>

(* Telemetry, status and the like share the ring.                          *)
PublishOther ==
    /\ noise < MaxNoise
    /\ noise' = noise + 1
    /\ Broadcast(Other)
    /\ UNCHANGED <<docVars, disk, pc, req, copy, online, last>>

----------------------------------------------------------------------------
(* The stream to one client.                                               *)

Configs(queue) == {i \in DOMAIN queue : queue[i] # Other}

(* Slip: of a run, the oldest configuration is forwarded.                  *)
ForwardedOldest(queue) == queue[CHOOSE i \in Configs(queue) : \A j \in Configs(queue) : i <= j]

(* drain_burst: of the run that is queued, only the newest config_changed  *)
(* is forwarded, and everything else in order.                             *)
Forwarded(queue) == queue[CHOOSE i \in Configs(queue) : \A j \in Configs(queue) : j <= i]

Receive(c) ==
    /\ inbox[c] # <<>>
    /\ inbox' = [inbox EXCEPT ![c] = <<>>]
    /\ copy' = IF Configs(inbox[c]) = {} THEN copy
               ELSE [copy EXCEPT ![c] = Forwarded(inbox[c])]
    /\ UNCHANGED <<docVars, disk, pc, req, online, noise, last>>

(* The daemon is replaced: connections drop, copies stay with the clients. *)
Restart ==
    /\ epoch < MaxEpoch
    /\ Construct(disk)
    /\ pc' = [c \in Clients |-> "idle"]
    /\ req' = [c \in Clients |-> None]
    /\ inbox' = [c \in Clients |-> <<>>]
    /\ online' = {}
    /\ last' = None /\ noise' = 0
    /\ UNCHANGED <<disk, copy>>

----------------------------------------------------------------------------
Next ==
    \/ \E c \in Clients :
         \/ Fetch(c) \/ Subscribe(c) \/ Unsubscribe(c)
         \/ PutSection(c) \/ PutSaved(c) \/ PutPreview(c) \/ RevertPreview(c)
         \/ SaveEnds(c) \/ HangUp(c) \/ OrphanSaved(c) \/ Publish(c) \/ Answer(c)
         \/ Receive(c)
    \/ PublishOther \/ Restart

Spec == Init /\ [][Next]_vars

----------------------------------------------------------------------------
(* Properties.                                                             *)

(* A write sent with the generation and the epoch its client was given is  *)
(* applied to exactly the document that client had in hand: it overwrites  *)
(* nothing its client has not seen, across previews, saves, reverts and    *)
(* restarts of the daemon.                                                 *)
ConditionalWriteSawBasis ==
    \A c \in Clients : req[c] # None => ~req[c].blind

(* Generation and epoch name one effective document: whatever clients,     *)
(* events and handlers hold under the same name says the same.             *)
InCirculation ==
    {EffectiveHeld}
      \cup {copy[c] : c \in {d \in Clients : copy[d] # None}}
      \cup {req[c].held : c \in {d \in Clients : req[d] # None}}
      \cup UNION {ToSet(inbox[c]) \ {Other} : c \in Clients}
VersionNamesOneDocument ==
    \A g, h \in InCirculation :
        g.version.generation = h.version.generation /\ g.version.epoch = h.version.epoch
            => g.content = h.content

(* Thinning a burst never costs a subscriber the last config_changed:      *)
(* once its queue is drained it holds either that one or what it fetched   *)
(* later, as long as fewer than Capacity other events came after it.       *)
DrainedClientsHoldTheLastEvent ==
    \A c \in online :
        inbox[c] = <<>> /\ last # None =>
            \/ copy[c] = last
            \/ copy[c].version.generation > last.version.generation
==============================================================================
