---------------------------- MODULE MCProjection ----------------------------
(* Small instances of Projection: walls of one topology, which become one  *)
(* another live, for a renderer that may turn out to be the CPU.           *)
EXTENDS Projection

OfAuto(cut) == [topology |-> "wall", renderer |-> "auto", cut |-> cut]
Whole == {OfAuto([o \in Outputs |-> "whole"])}
Cut(o) == {OfAuto([p \in Outputs |-> IF p = o THEN "cut" ELSE "whole"])}
MCSpecs == Whole \cup Cut(CHOOSE o \in Outputs : TRUE)
=============================================================================
