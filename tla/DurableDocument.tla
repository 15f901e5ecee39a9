-------------------------- MODULE DurableDocument --------------------------
(***************************************************************************)
(* What the state store promises, with no file, lock or task in sight: a   *)
(* document that lives in memory, a durable copy that lags behind it, and  *)
(* a restart that goes back to one whole earlier document, never to a mix. *)
(***************************************************************************)
EXTENDS Integers

CONSTANTS Contents, None

VARIABLES
    live,     \* [rev, content] in memory
    durable,  \* [rev, content] that any restart will at least find
    pending   \* documents accepted but not yet durable

vars == <<live, durable, pending>>

Doc == [rev : Nat, content : Contents]

NewerThan(doc, docs) == {d \in docs : d.rev > doc.rev}

Init ==
    /\ live \in Doc
    /\ durable = live
    /\ pending = {}

(* Accepted: live at once, durable later or never.                         *)
Accept ==
    /\ \E c \in Contents : live' = [rev |-> live.rev + 1, content |-> c]
    /\ pending' \in {P \cup {live'} : P \in SUBSET pending}
    /\ UNCHANGED durable

(* A document may be passed over, but only for a later one.                *)
PassOver ==
    /\ \E d \in pending : d # live /\ pending' = pending \ {d}
    /\ UNCHANGED <<live, durable>>

Settle ==
    /\ durable' \in pending
    /\ pending' \in SUBSET NewerThan(durable', pending)
    /\ live \in pending' \cup {durable'}
    /\ UNCHANGED live

(* What was pending may or may not have made it; whichever it is, it is    *)
(* one whole document.                                                     *)
Restart ==
    /\ live' \in pending \cup {durable}
    /\ \/ durable' = live' /\ pending' = {}
       \/ durable' = durable /\ pending' = {live'} \ {durable}

Next == Accept \/ PassOver \/ Settle \/ Restart

Spec == Init /\ [][Next]_vars
============================================================================
