------------------------ MODULE MC_HostileRefManager ------------------------
(* Two units and three creatures that may hate either of them.             *)
EXTENDS ThreatSelect, TLC

CONSTANTS u1, u2, c1, c2, c3

MCUnits == {u1, u2}
MCCreatures == {c1, c2, c3}

\* the creatures are interchangeable: nothing tests which one a reference
\* comes from, only its place in the list
MCSymmetry == Permutations(MCCreatures)

=============================================================================
