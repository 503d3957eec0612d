-------------------------- MODULE MCProjectCommands ---------------------------
(***************************************************************************)
(* Small instances of ProjectCommands: a store with one flat document that *)
(* has one artifact.                                                       *)
(***************************************************************************)
EXTENDS ProjectCommands, TLC

CONSTANTS p1, p2, n1, n2, x, y, c1, c2, c3

MCLegacy ==
    [name |-> n1, imported |-> FALSE,
     arts |-> <<[id |-> 1, name |-> x, type |-> "generated", pinned |-> FALSE, ver |-> 1, parent |-> 0]>>]

MCSymmetry == Permutations(Commands)
=============================================================================
