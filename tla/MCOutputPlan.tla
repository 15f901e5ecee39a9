---------------------------- MODULE MCOutputPlan ----------------------------
(* Small instances of OutputPlan: one display asked for a rate it has nearly, *)
(* one whose rate is left to it, selected by identity or by connector.        *)
EXTENDS OutputPlan, TLC

CONSTANTS c1, c2, d1, d2, lobby, blue, red

MCOffers == (d1 :> {59, 50}) @@ (d2 :> {59, 30})

Asked(rule, mode, at, tearing, paper) ==
    [rule |-> rule, enable |-> TRUE, mode |-> mode, at |-> at, tearing |-> tearing,
     paper |-> paper, adopted |-> None]
Off(rule) == [Asked(rule, None, None, FALSE, None) EXCEPT !.enable = FALSE]
Doc(outputs, image) == [outputs |-> outputs, presets |-> [p \in Presets |-> image]]

Sockets(a, b) == (c1 :> a) @@ (c2 :> b)
Walls == {Sockets(d1, d2), Sockets(d1, None)}
Single == {c1 :> d1}

Two == {Doc(<<Asked(c1, 60, 0, TRUE, lobby)>>, blue),
        Doc(<<Asked(c1, None, 1, FALSE, lobby)>>, red),
        Doc(<<Asked(d2, 60, None, FALSE, None), Off(d1)>>, blue)}
Swap == {Doc(<<Asked(c1, None, None, FALSE, None)>>, blue)}
=============================================================================
