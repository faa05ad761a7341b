--------------------------- MODULE MC_SmartEscort ---------------------------
(***************************************************************************)
(* Model-checking instance of SmartEscort.  The positions are model        *)
(* values; path 1 has two waypoints so that an escort advances, and path 2 *)
(* has one, so that a script can restart the escort on another path.       *)
(***************************************************************************)
EXTENDS SmartEscort, TLC

CONSTANTS spawn, enroute, afield, none

MCWayPoints == (1 :> {1, 2}) @@ (2 :> {1})
=============================================================================
