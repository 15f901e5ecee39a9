----------------------------- MODULE MCConfigApi -----------------------------
(* Small instances of ConfigApi: documents of a few two-valued sections.   *)
EXTENDS ConfigApi, TLC

MCContents == [Sections -> Values]
MCDefault == [s \in Sections |-> 0]
Alike == Permutations(Clients)
==============================================================================
