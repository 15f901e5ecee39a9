--------------------------- MODULE MCPresentation ---------------------------
(* Small instance of Presentation: every machine, four faults.              *)
EXTENDS Presentation
=============================================================================
