----------------------------- MODULE Documents -----------------------------
(***************************************************************************)
(* The live configuration document of one daemon: the pair of documents    *)
(* that src/state.rs keeps under a single RwLock, the saved one and the    *)
(* unsaved working copy ("preview"), with the counters that give a client  *)
(* something to compare.  Every transition below is one critical section   *)
(* of that lock, so each is a single atomic step.                          *)
(*                                                                         *)
(* What a document says is opaque (Contents).  Three of its fields are     *)
(* kept apart because the code treats them apart: the revision, the        *)
(* `committed` flag, and `projection.temporary`, the calibration aids that *)
(* may be shown but never saved.                                           *)
(*                                                                         *)
(* This module has no behaviour of its own: StateStore adds the file,      *)
(* ConfigApi the HTTP handlers and clients, Reconciler the consumer.       *)
(***************************************************************************)
EXTENDS Integers

CONSTANTS
    Contents,   \* what a document can say, its temporary section aside
    Default,    \* what DesiredState::new() says
    None        \* no document, no revision, no holder

VARIABLES
    current,    \* the saved document as memory has it
    preview,    \* the working copy being tried out, or None
    generation, \* counts every transition of the pair
    epoch       \* identity of this run of the daemon

docVars == <<current, preview, generation, epoch>>

Document == [rev : Nat, content : Contents, temporary : BOOLEAN, committed : BOOLEAN]

ASSUME ContentsAssumption == Default \in Contents /\ None \notin Document /\ None \notin Nat

EmptyDocument ==
    [rev |-> 0, content |-> Default, temporary |-> FALSE, committed |-> TRUE]

DocTypeOK ==
    /\ current \in Document
    /\ preview \in Document \cup {None}
    /\ generation \in Nat
    /\ epoch \in Nat

----------------------------------------------------------------------------
(* Reading: one acquisition of the lock, so the parts belong together.     *)

Effective == IF preview = None THEN current ELSE preview

Version == [revision |-> current.rev, generation |-> generation, epoch |-> epoch]

Optional(S) == S \cup {None}

Precondition ==
    [revision : Optional(Nat), generation : Optional(Nat), epoch : Optional(Nat)]

Unconditional == [revision |-> None, generation |-> None, epoch |-> None]

(* Slip: the identity of the run is not compared.                          *)
MatchesAnyEpoch(expected) ==
    /\ expected.revision \in {None, current.rev}
    /\ expected.generation \in {None, generation}

(* A condition that was sent must match; one that was not sent never can   *)
(* be refused.                                                             *)
Matches(expected) ==
    /\ expected.revision \in {None, current.rev}
    /\ expected.generation \in {None, generation}
    /\ expected.epoch \in {None, epoch}

(* The negation of differs_beyond_temporary: revision, committed and the   *)
(* temporary section are normalised away before comparing.                 *)
OnlyTemporaryDiffers(doc, saved) == doc.content = saved.content

----------------------------------------------------------------------------
(* The transitions.                                                        *)

(* Slip: a save leaves the working copy that it saved.                     *)
StageBesidePreview(expected, next) ==
    /\ Matches(expected)
    /\ current' = [next EXCEPT !.rev = current.rev + 1, !.committed = TRUE]
    /\ generation' = generation + 1
    /\ UNCHANGED <<preview, epoch>>

StageReplace(expected, next) ==
    /\ Matches(expected)
    /\ current' = [next EXCEPT !.rev = current.rev + 1, !.committed = TRUE]
    /\ preview' = None
    /\ generation' = generation + 1
    /\ UNCHANGED epoch

(* Slip: only saves count as transitions.                                  *)
SetPreviewUncounted(expected, next) ==
    /\ Matches(expected)
    /\ preview' = [next EXCEPT !.rev = current.rev,
                               !.committed = OnlyTemporaryDiffers(next, current)]
    /\ UNCHANGED <<current, generation, epoch>>

SetPreview(expected, next) ==
    /\ Matches(expected)
    /\ preview' = [next EXCEPT !.rev = current.rev,
                               !.committed = OnlyTemporaryDiffers(next, current)]
    /\ generation' = generation + 1
    /\ UNCHANGED <<current, epoch>>

ClearPreview(expected) ==
    /\ Matches(expected)
    /\ preview' = None
    /\ generation' = generation + 1
    /\ UNCHANGED <<current, epoch>>

(* A store built from a document that was loaded, recovered or made up.    *)
Construct(doc) ==
    /\ current' = [doc EXCEPT !.committed = TRUE]
    /\ preview' = None
    /\ generation' = 0
    /\ epoch' = epoch + 1
============================================================================
