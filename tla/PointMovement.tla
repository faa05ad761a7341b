---------------------------- MODULE PointMovement ----------------------------
(***************************************************************************)
(* PointMovementGenerator (Movement/MovementGenerators/                    *)
(* PointMovementGenerator.cpp) and the parts of the unit it drives.        *)
(*                                                                         *)
(* The module has no variables: it defines the generator's handlers as     *)
(* operators over a unit record m, so that a module owning a unit can      *)
(* apply them inside its own actions, where the generator's finalisation   *)
(* calls back into the unit's AI in the same step.  The fields of m:      *)
(*   pos     where the unit is; Enroute when it stopped between two points *)
(*   done    movespline->Finalized(): no spline is running                 *)
(*   dest    the end point of the last spline launched                    *)
(*   rooted  HasUnitState(UNIT_STATE_NOT_MOVE) or movement prevented by    *)
(*           casting                                                       *)
(*   ctrl    a controlled-slot generator (fear, confusion) is on top of    *)
(*           the active one                                                *)
(*   gen     the active-slot generator: [type, id, dest, needInit]        *)
(* The spline itself, MotionMaster and Unit::StopMoving are outside the    *)
(* repository; they are modelled by the effects the generator relies on:  *)
(* a stop spline is Finalized, a launched spline is not until the unit     *)
(* arrives, and replacing or expiring a generator finalises it.           *)
(* Unit states (ROAMING, ROAMING_MOVE), the speed and orientation of the   *)
(* spline and the charge pre-path id are not modelled: nothing here reads  *)
(* them.                                                                   *)
(***************************************************************************)
CONSTANTS Enroute,  \* a position between two points, where a stopped spline leaves the unit
          Afield    \* where a chase or a fear takes the unit

IdleGen == [type |-> "idle", id |-> 0, dest |-> Afield, needInit |-> FALSE]

(* The position a unit reports while a spline may be running.              *)
CurPos(m) == IF m.done \/ m.pos = m.dest THEN m.pos ELSE Enroute

(* Unit::StopMoving: a running spline is replaced by a stop spline, which   *)
(* is Finalized at once; the unit stays where it got to.                   *)
StopMoving(m) == [m EXCEPT !.done = TRUE, !.pos = CurPos(m)]

(* PointMovementGenerator::LaunchMove: start a spline to the destination.  *)
LaunchMove(m, dest) == [m EXCEPT !.done = FALSE, !.dest = dest]

(* DoInitialize: stop, then launch unless the unit cannot move; in that    *)
(* case the generator is initialised without moving.                      *)
DoInitialize(m) ==
    LET s == [StopMoving(m) EXCEPT !.gen.needInit = FALSE]
    IN  IF s.rooted THEN s ELSE LaunchMove(s, m.gen.dest)

(* DoUpdate's result: TRUE keeps the generator.  A unit that cannot move   *)
(* keeps it; otherwise it is kept while the spline runs.  Nothing relaunches *)
(* a spline that was never launched or was stopped.                       *)
DoUpdate(m) == m.rooted \/ ~m.done

(* DoFinalize informs the AI of arrival (MovementInform(POINT_MOTION_TYPE, *)
(* id)) exactly when the spline is Finalized.                              *)
DoFinalize(m) == m.done

(* DoReset: stop and mark the unit roaming, without relaunching.          *)
DoReset(m) == StopMoving(m)

(* The unit arrives at the end of a running spline.                       *)
Arrive(m) == [m EXCEPT !.pos = m.dest, !.done = TRUE]
=============================================================================
