---------------------------- MODULE MC_GridSearch ----------------------------
(***************************************************************************)
(* Model-checking instance of GridSearch: one player, two creatures and a  *)
(* gameobject spread over two cells, so that a family's objects can sit in *)
(* two containers (the "already found" case) and two objects can share a  *)
(* container (the first/last case).                                        *)
(***************************************************************************)
EXTENDS GridSearch, TLC

CONSTANTS p1, c1, c2, g1, cellA, cellB

MCObjects == {p1, c1, c2, g1}
MCTypeOf == (p1 :> "player") @@ (c1 :> "creature") @@ (c2 :> "creature")
            @@ (g1 :> "gameobject")
MCCells == {cellA, cellB}
MCSymmetry == Permutations({c1, c2}) \cup Permutations({cellA, cellB})
=============================================================================
