---------------------------- MODULE MCReconciler ----------------------------
(* Small instances of Reconciler.                                          *)
EXTENDS Reconciler

MCContents == [layout : Layouts, app : Apps, pinned : BOOLEAN]
MCDefault == [layout |-> CHOOSE l \in Layouts : TRUE, app |-> CHOOSE a \in Apps : TRUE,
              pinned |-> FALSE]
=============================================================================
