----------------------------- MODULE SmartEscort -----------------------------
(***************************************************************************)
(* The waypoint escort of SmartAI (AI/SmartAI.cpp), composed with the      *)
(* point movement generator that moves the creature (PointMovement).       *)
(*                                                                         *)
(* A creature is one record c: the SmartAI escort fields, the unit's       *)
(* movement fields of PointMovement, and a ghost field.  One record      *)
(* is used because the calls are synchronous and nest: StartPath calls     *)
(* StopPath, which calls EndPath, which calls StartPath again for a        *)
(* repeating path; MovePoint replaces a generator whose finalisation calls *)
(* SmartAI::MovementInform in the middle of the caller.  Each handler is   *)
(* an operator from a creature to a creature, and an action applies one.  *)
(*                                                                         *)
(* Not modelled: script events (ProcessEventsFor) other than by their      *)
(* effect, escort quest credit in EndPath, the creature's own combat      *)
(* (UpdateVictim, melee), formations, run/walk, REACT_PASSIVE.            *)
(***************************************************************************)
EXTENDS Naturals, FiniteSets, PointMovement

CONSTANTS Paths,        \* path ids known to sSmartWaypointMgr
          WayPoints,    \* WayPoints[p]: the waypoint ids of path p
          OOCPoint,     \* SMART_ESCORT_LAST_OOC_POINT
          Spawn,        \* the creature's home position
          None,
          PauseDelays,  \* delays a script passes to PausePath, in ticks
          OneSecond,    \* 1000 ms in ticks: the invoker check, follow check and
                        \* invisible-corpse timers reload to it
          DespawnDelays,      \* despawn times a script passes to StopPath, in ticks
          FollowDespawnDelay, \* the SetDespawnTime(5000) of StopFollow, in ticks
          MaxInterrupts,      \* bound on combat, root, fear, death, charm
          MaxScriptCalls      \* bound on script calls of Start/Pause/StopPath

VARIABLES c,          \* the creature
          interrupts, \* environment events so far
          scriptCalls \* script calls so far

vars == <<c, interrupts, scriptCalls>>

WPLoc(p, i) == <<p, i>>
Locs == {Spawn, Enroute, Afield} \cup UNION {{WPLoc(p, i) : i \in WayPoints[p]} : p \in Paths}
HomeGen == [type |-> "home", id |-> 0, dest |-> Spawn, needInit |-> FALSE]
ChaseGen == [type |-> "chase", id |-> 0, dest |-> Afield, needInit |-> FALSE]
FollowGen == [type |-> "follow", id |-> 0, dest |-> Afield, needInit |-> FALSE]

(* SmartAI::SetDespawnTime and SmartAI::StartDespawn (SmartAI.h): a time   *)
(* arms the despawn (state 1), StartDespawn starts the countdown (2).     *)
SetDespawnTime(x, t) == [x EXCEPT !.despawnTime = t, !.despawnState = IF t # 0 THEN 1 ELSE 0]
StartDespawn(x) == [x EXCEPT !.despawnState = 2]

Escorting(x) == "ESCORTING" \in x.escort
Has(x, s) == s \in x.escort

(* SmartAI::IsAIControlled: neither controlled by a player nor charmed.    *)
IsAIControlled(x) == ~x.playerCtl /\ ~x.charmed
GetWPCount(x) == IF x.wayPoints = None THEN 0 ELSE Cardinality(WayPoints[x.wayPoints])

(* SmartAI::MovepointReached.  The ghost falseReach records a              *)
(* WAYPOINT_REACHED event raised where the waypoint is not.               *)
MovepointReached(x, id) ==
    [x EXCEPT !.falseReach = @ \/ (id # OOCPoint /\ x.lastWPIDReached # id
                                   /\ x.pos # WPLoc(x.wayPoints, id)),
              !.lastWPIDReached = id, !.wpReached = TRUE]

(* SmartAI::MovementInform(POINT_MOTION_TYPE, id).                         *)
MovementInform(x, id) == IF Escorting(x) THEN MovepointReached(x, id) ELSE x

(* Finalising the active generator: a point generator informs the AI.     *)
(* While the creature is charmed its AI is the charm AI, not SmartAI.      *)
FinalizeGen(x) ==
    IF x.gen.type = "point" /\ DoFinalize(x) /\ ~x.charmed
    THEN MovementInform(x, x.gen.id) ELSE x

(* MotionMaster::Mutate on the active slot: the old generator is           *)
(* finalised, the new one initialised unless a controlled generator is on  *)
(* top, in which case it is initialised when that one ends.               *)
Mutate(x, g) ==
    LET x1 == [FinalizeGen(x) EXCEPT !.gen = [g EXCEPT !.needInit = x.ctrl]]
    IN  IF x.ctrl THEN x1 ELSE DoInitialize(x1)

(* MotionMaster::MovementExpired: pop the active generator, finalising it. *)
MovementExpired(x) == [FinalizeGen(x) EXCEPT !.gen = IdleGen]

(* SmartAI::MovePointInPath (MotionMaster::MovePoint).                    *)
MovePointInPath(x, id, loc) ==
    Mutate(x, [type |-> "point", id |-> id, dest |-> loc, needInit |-> FALSE])

NextWP(x) == x.currentWPID + 1
Found(x) == x.wayPoints # None /\ NextWP(x) \in WayPoints[x.wayPoints]

(* SmartAI::GetNextWayPoint.                                              *)
GetNextWayPoint(x) ==
    IF x.wayPoints = None THEN x
    ELSE [x EXCEPT !.currentWPID = @ + 1,
                   !.lastWP = IF Found(x) THEN [path |-> x.wayPoints, id |-> NextWP(x)] ELSE @]

(* GetNextWayPoint followed by a move to the waypoint it returns.         *)
MoveToNextWP(x) ==
    IF Found(x)
    THEN MovePointInPath(GetNextWayPoint(x), NextWP(x), WPLoc(x.wayPoints, NextWP(x)))
    ELSE GetNextWayPoint(x)

RECURSIVE StartPath(_, _, _), StopPath(_, _, _), EndPath(_, _, _)

(* SmartAI::StartPath with LoadPath inlined.                              *)
StartPath(x, path, repeat) ==
    IF x.inCombat THEN x
    ELSE LET x1 == IF Escorting(x) THEN StopPath(x, 0, FALSE) ELSE x
             loaded == ~Escorting(x1)
             x2 == IF path # 0 /\ loaded THEN [x1 EXCEPT !.wayPoints = path, !.pathId = path] ELSE x1
         IN  IF (path # 0 /\ ~loaded) \/ x2.wayPoints = None THEN x2
             ELSE LET x3 == [x2 EXCEPT !.escort = @ \cup {"ESCORTING"},
                                        !.canRepeat = repeat]
                  IN  IF Found(x3) THEN MoveToNextWP([x3 EXCEPT !.lastOOCPos = CurPos(x3)])
                      ELSE GetNextWayPoint(x3)

(* SmartAI::StopPath (MoveIdle leaves the active point generator in       *)
(* place).  The despawn time replaces any armed or running despawn.       *)
StopPath(x, despawnTime, fail) ==
    IF ~Escorting(x) THEN x
    ELSE EndPath(StopMoving([SetDespawnTime(x, despawnTime)
                             EXCEPT !.lastOOCPos = CurPos(x)]), fail, FALSE)

(* SmartAI::EndPath; a repeating path is started again at once, and an    *)
(* armed despawn starts afterwards.                                       *)
EndPath(x, fail, died) ==
    LET x1 == [x EXCEPT !.escort = {}, !.wayPoints = None,
                  !.currentWPID = 0, !.pauseTimer = 0, !.lastWP = None]
        x2 == IF x.canRepeat /\ ~died
              THEN IF IsAIControlled(x1) THEN StartPath(x1, x1.pathId, TRUE) ELSE x1
              ELSE [x1 EXCEPT !.pathId = 0]
    IN  IF x2.despawnState = 1 THEN StartDespawn(x2) ELSE x2

(* Mutant: PausePath without its ESCORTING guard.                         *)
PausePathUnguarded(x, delay, forced) ==
    IF Has(x, "PAUSED") THEN x
    ELSE LET x1 == [x EXCEPT !.forcedPaused = forced, !.lastOOCPos = CurPos(x),
                             !.escort = @ \cup {"PAUSED"}, !.pauseTimer = delay]
         IN  IF forced THEN StopMoving(x1) ELSE x1

(* SmartAI::PausePath.                                                     *)
PausePath(x, delay, forced) ==
    IF ~Escorting(x) \/ Has(x, "PAUSED") THEN x
    ELSE LET x1 == [x EXCEPT !.forcedPaused = forced, !.lastOOCPos = CurPos(x),
                             !.escort = @ \cup {"PAUSED"}, !.pauseTimer = delay]
         IN  IF forced THEN StopMoving(x1) ELSE x1

(* SmartAI::ResumePath: move again to the last waypoint handed out.       *)
ResumePath(x) ==
    IF x.lastWP = None THEN x
    ELSE MovePointInPath(x, x.lastWP.id, WPLoc(x.lastWP.path, x.lastWP.id))

(* SmartAI::ReturnToLastOOCPos.                                            *)
ReturnToLastOOCPos(x) ==
    IF IsAIControlled(x) THEN MovePointInPath(x, OOCPoint, x.lastOOCPos) ELSE x

(* The four parts of SmartAI::UpdatePath, for a tick of one unit.          *)
\* IsEscortInvokerInRange() returns true on every path (also when no escort
\* target is near), so the StopPath it guards is never called
InvokerCheck(x) ==
    IF x.invokerTimer < 1 THEN [x EXCEPT !.invokerTimer = OneSecond]
    ELSE [x EXCEPT !.invokerTimer = @ - 1]

CanResume(x) ==
    /\ ~x.inCombat
    /\ ~Has(x, "RETURNING")
    /\ x.wpReached \/ x.lastWPIDReached = OOCPoint \/ x.forcedPaused

Resume(x) ==
    LET x1 == [x EXCEPT !.escort = @ \ {"PAUSED"}]
        x2 == IF x.forcedPaused
              THEN [ResumePath(x1) EXCEPT !.wpReached = FALSE, !.forcedPaused = FALSE]
              ELSE x1
    IN  IF x2.lastWPIDReached = OOCPoint THEN [x2 EXCEPT !.wpReached = TRUE] ELSE x2

(* Mutant: the pause timer is decremented without the expiry test.       *)
HandlePauseNoExpiry(x) ==
    IF ~Has(x, "PAUSED") THEN x
    ELSE [x EXCEPT !.pauseTimer = @ - 1]

HandlePause(x) ==
    IF ~Has(x, "PAUSED") THEN x
    ELSE IF x.pauseTimer < 1
         THEN [(IF CanResume(x) THEN Resume(x) ELSE x) EXCEPT !.pauseTimer = 0]
         ELSE [x EXCEPT !.pauseTimer = @ - 1]

HandleReturn(x) ==
    IF Has(x, "RETURNING") /\ x.wpReached
    THEN LET x1 == [x EXCEPT !.escort = @ \ {"RETURNING"}]
         IN  [(IF Has(x1, "PAUSED") THEN x1 ELSE ResumePath(x1)) EXCEPT !.wpReached = FALSE]
    ELSE x

(* Mutant: the end of the path tested one waypoint too late.             *)
HandleNextWPPastEnd(x) ==
    IF x.inCombat \/ Has(x, "PAUSED") \/ Has(x, "RETURNING") \/ ~x.wpReached THEN x
    ELSE LET x1 == [x EXCEPT !.wpReached = FALSE]
         IN  IF x1.currentWPID = GetWPCount(x1) + 1 THEN EndPath(x1, FALSE, FALSE)
             ELSE MoveToNextWP(x1)

HandleNextWP(x) ==
    IF x.inCombat \/ Has(x, "PAUSED") \/ Has(x, "RETURNING") \/ ~x.wpReached THEN x
    ELSE LET x1 == [x EXCEPT !.wpReached = FALSE]
         IN  IF x1.currentWPID = GetWPCount(x1) THEN EndPath(x1, FALSE, FALSE)
             ELSE MoveToNextWP(x1)

UpdatePath(x) ==
    IF ~Escorting(x) THEN x
    ELSE HandleNextWP(HandleReturn(HandlePause(InvokerCheck(x))))

(* Creature::ForcedDespawn: the creature dies without SmartAI::JustDied   *)
(* and its corpse is removed.                                             *)
ForcedDespawn(x) == [StopMoving(x) EXCEPT !.alive = FALSE, !.inCombat = FALSE, !.gen = IdleGen]

(* SmartAI::UpdateDespawn: once started, the creature turns invisible      *)
(* when the time runs out, and despawns a second later.                   *)
UpdateDespawn(x) ==
    IF x.despawnState \notin {2, 3} THEN x
    ELSE IF x.despawnTime < 1
         THEN IF x.despawnState = 2
              THEN [x EXCEPT !.despawnTime = OneSecond, !.despawnState = 3]
              ELSE ForcedDespawn(x)
         ELSE [x EXCEPT !.despawnTime = @ - 1]

(* SmartAI::StopFollow.  mFollowGuid is cleared before the player to      *)
(* credit is looked up by it, so the credit (not modelled) is never given. *)
StopFollow(x, complete) ==
    LET x1 == StopMoving(SetDespawnTime([x EXCEPT !.follow = FALSE,
                                                   !.followTimer = OneSecond],
                                        FollowDespawnDelay))
    IN  IF complete THEN StartDespawn(x1) ELSE x1

(* SmartAI::SetFollow; a null target stops following.                    *)
SetFollow(x, target) ==
    IF ~target THEN StopFollow(x, FALSE)
    ELSE Mutate([x EXCEPT !.follow = TRUE, !.followTimer = OneSecond], FollowGen)

(* The follow part of SmartAI::UpdateAI: every second, the creature checks *)
(* for the end creature near it and completes the follow.                 *)
UpdateFollow(x, atEnd) ==
    IF ~x.follow THEN x
    ELSE IF x.followTimer < 1
         THEN IF atEnd THEN StopFollow(x, TRUE) ELSE [x EXCEPT !.followTimer = OneSecond]
         ELSE [x EXCEPT !.followTimer = @ - 1]

(* SmartAI::UpdateAI up to the creature's combat, which is not modelled.  *)
UpdateAI(x, atEnd) == UpdateFollow(UpdateDespawn(UpdatePath(x)), atEnd)

(* SmartAI::EnterCombat.                                                   *)
EnterCombat(x) ==
    LET x0 == [x EXCEPT !.inCombat = TRUE]
        x1 == [x0 EXCEPT !.lastOOCPos = CurPos(x)]
    IN  IF ~IsAIControlled(x) THEN x0
        ELSE IF x.gen.type = "point" THEN MovementExpired(x1) ELSE x1

(* SmartAI::AttackStart: a player-controlled creature only attacks; any   *)
(* other enters combat if it is not in combat yet, then chases when        *)
(* me->Attack(who) succeeds (`hit`; Unit::Attack is outside the            *)
(* repository) and it may move in combat.                                  *)
DoAttackStart(x, hit) ==
    IF x.playerCtl THEN x
    ELSE LET x1 == IF x.inCombat THEN x ELSE EnterCombat(x)
         IN  IF hit /\ x1.canCombatMove THEN Mutate(x1, ChaseGen) ELSE x1

(* SmartAI::SetCombatMove.  Outside an escort, allowing combat movement   *)
(* starts the chase of an idle creature in combat; forbidding it (or        *)
(* allowing it out of combat) drops every generator and leaves the         *)
(* creature idle where it stands, unless it is feared or confused.  No      *)
(* waypoint generator exists in the model, so that test always passes.     *)
SetCombatMove(x, on) ==
    LET x1 == [x EXCEPT !.canCombatMove = on]
    IN  CASE x.canCombatMove = on \/ ~IsAIControlled(x1) \/ Escorting(x1) -> x1
          [] on /\ x1.inCombat ->
                IF ~x1.ctrl /\ x1.gen.type = "idle" THEN Mutate(x1, ChaseGen) ELSE x1
          [] x1.ctrl -> x1
          [] OTHER -> [StopMoving(MovementExpired(x1)) EXCEPT !.gen = IdleGen]

(* SmartAI::OnCharmed.  Unit::SetCharmedBy sets the player-controlled      *)
(* flag of a player's charm before it calls the AI; EndPath runs before    *)
(* mIsCharmed is set.  On release the repeating path is started again and  *)
(* the creature may attack its former charmer.                            *)
OnCharmed(x, apply, byPlayer, attack, hit) ==
    IF apply
    THEN LET x0 == [x EXCEPT !.playerCtl = byPlayer]
             x1 == IF x0.escort # {} THEN EndPath(x0, TRUE, FALSE) ELSE x0
         IN  [StopMoving(x1) EXCEPT !.charmed = TRUE]
    ELSE LET x1 == [x EXCEPT !.charmed = FALSE, !.playerCtl = FALSE]
             x2 == IF x1.canRepeat THEN StartPath(x1, x1.pathId, TRUE) ELSE x1
         IN  IF attack THEN DoAttackStart(x2, hit) ELSE x2

(* SmartAI::EnterEvadeMode once combat is over.                            *)
EnterEvadeMode(x) ==
    LET x1 == [x EXCEPT !.inCombat = FALSE]
    IN  IF Escorting(x1)
        THEN ReturnToLastOOCPos([x1 EXCEPT !.escort = @ \cup {"RETURNING"}])
        ELSE IF x1.follow THEN Mutate(x1, FollowGen)
        ELSE Mutate(x1, HomeGen)

(* SmartAI::JustDied; death also clears the unit's generators.            *)
JustDied(x) ==
    LET x1 == [x EXCEPT !.alive = FALSE, !.inCombat = FALSE]
        x2 == IF Escorting(x1) THEN StopMoving(EndPath(x1, TRUE, TRUE)) ELSE x1
    IN  [x2 EXCEPT !.gen = IdleGen]

(* SmartAI::JustRespawned: the unit is back home with no escort state, no *)
(* despawn and no follow; the rest of the escort fields are kept.          *)
JustRespawned(x) ==
    [x EXCEPT !.alive = TRUE, !.escort = {}, !.pos = Spawn, !.done = TRUE,
              !.rooted = FALSE, !.ctrl = FALSE, !.gen = IdleGen,
              !.despawnTime = 0, !.despawnState = 0,
              !.follow = FALSE, !.followTimer = OneSecond]

Init ==
    /\ c = [escort |-> {}, wayPoints |-> None, pathId |-> 0, currentWPID |-> 0,
            lastWP |-> None, wpReached |-> FALSE, forcedPaused |-> FALSE,
            lastWPIDReached |-> 0, pauseTimer |-> 0, canRepeat |-> FALSE,
            lastOOCPos |-> Spawn, invokerTimer |-> OneSecond,
            inCombat |-> FALSE, alive |-> TRUE,
            pos |-> Spawn, done |-> TRUE, dest |-> Spawn, rooted |-> FALSE,
            ctrl |-> FALSE, gen |-> IdleGen,
            charmed |-> FALSE, playerCtl |-> FALSE,
            despawnTime |-> 0, despawnState |-> 0, follow |-> FALSE, followTimer |-> 0,
            falseReach |-> FALSE, canCombatMove |-> TRUE]
    /\ interrupts = 0
    /\ scriptCalls = 0

-----------------------------------------------------------------------------
(* Actions.  Tick and Motion are the creature's own update; the rest are  *)
(* the world around it and the creature's script.                         *)

Env(x) == /\ c' = x
          /\ interrupts < MaxInterrupts
          /\ interrupts' = interrupts + 1
          /\ UNCHANGED scriptCalls

(* SmartAI::UpdateAI; the end creature of a follow may be near or not.   *)
Tick == /\ c.alive /\ ~c.charmed
        /\ \E atEnd \in BOOLEAN : c' = UpdateAI(c, atEnd)
        /\ UNCHANGED <<interrupts, scriptCalls>>

(* MotionMaster::UpdateMotion: a generator whose DoUpdate returns FALSE   *)
(* expires and is finalised.                                               *)
Motion == /\ c.alive /\ ~c.ctrl /\ c.gen.type \in {"point", "home"}
          /\ ~DoUpdate(c)
          /\ c' = MovementExpired(c)
          /\ UNCHANGED <<interrupts, scriptCalls>>

(* The spline runs to its end.                                           *)
SplineArrive ==
    /\ c.alive /\ ~c.done
    /\ c' = Arrive(c)
    /\ UNCHANGED <<interrupts, scriptCalls>>

Root == c.alive /\ ~c.rooted /\ Env([StopMoving(c) EXCEPT !.rooted = TRUE])
Unroot == c.rooted /\ c' = [c EXCEPT !.rooted = FALSE]
          /\ UNCHANGED <<interrupts, scriptCalls>>

(* A fear or confusion generator takes the controlled slot over the       *)
(* active one; when it ends the active generator is initialised if it was  *)
(* pushed meanwhile, and reset (PointMovementGenerator::DoReset) if not.  *)
FearStart == /\ c.alive /\ ~c.ctrl
             /\ Env(LET s == [StopMoving(c) EXCEPT !.ctrl = TRUE]
                    IN  IF s.rooted THEN s ELSE LaunchMove(s, Afield))
FearEnd == /\ c.ctrl
           /\ c' = LET s == [StopMoving(c) EXCEPT !.ctrl = FALSE]
                   IN  IF s.gen.needInit THEN DoInitialize(s)
                       ELSE IF s.gen.type = "idle" THEN s ELSE DoReset(s)
           /\ UNCHANGED <<interrupts, scriptCalls>>

(* SmartAI::AttackStart on a creature out of combat.                       *)
AttackStart == c.alive /\ ~c.charmed /\ ~c.inCombat /\ \E hit \in BOOLEAN : Env(DoAttackStart(c, hit))
Evade == /\ c.alive /\ ~c.charmed /\ c.inCombat /\ c' = EnterEvadeMode(c)
         /\ UNCHANGED <<interrupts, scriptCalls>>
(* Death under a charm is not modelled: which AI receives JustDied and   *)
(* the release of the charm then is decided outside the repository.       *)
Die == c.alive /\ ~c.charmed /\ Env(JustDied(c))
Respawn == /\ ~c.alive /\ c' = JustRespawned(c)
           /\ UNCHANGED <<interrupts, scriptCalls>>
(* A player or a creature charms the creature (Unit::SetCharmedBy), and   *)
(* the charm ends (Unit::RemoveCharmedBy).  OnCharmed sets NeedChangeAI:   *)
(* until the charm ends the unit runs a charm AI, and SmartAI's update,    *)
(* script, combat hooks and MovementInform are not called.                *)
Charm == c.alive /\ ~c.charmed /\ \E byPlayer \in BOOLEAN : Env(OnCharmed(c, TRUE, byPlayer, FALSE, FALSE))
Uncharm == /\ c.charmed
           /\ \E attack, hit \in BOOLEAN : c' = OnCharmed(c, FALSE, FALSE, attack /\ c.alive, hit)
           /\ UNCHANGED <<interrupts, scriptCalls>>

Script(x) == /\ c.alive /\ ~c.charmed /\ scriptCalls < MaxScriptCalls
             /\ c' = x /\ scriptCalls' = scriptCalls + 1
             /\ UNCHANGED interrupts
ScriptStartPath == \E p \in Paths, repeat \in BOOLEAN : Script(StartPath(c, p, repeat))
ScriptPausePath == \E d \in PauseDelays, forced \in BOOLEAN : Script(PausePath(c, d, forced))
ScriptStopPath == \E d \in DespawnDelays, fail \in BOOLEAN : Script(StopPath(c, d, fail))
ScriptSetFollow == \E target \in BOOLEAN : Script(SetFollow(c, target))
ScriptSetCombatMove == \E on \in BOOLEAN : Script(SetCombatMove(c, on))

Next == \/ Tick \/ Motion \/ SplineArrive
        \/ Root \/ Unroot \/ FearStart \/ FearEnd
        \/ AttackStart \/ Evade \/ Die \/ Respawn \/ Charm \/ Uncharm
        \/ ScriptStartPath \/ ScriptPausePath \/ ScriptStopPath \/ ScriptSetFollow
        \/ ScriptSetCombatMove

(* ENABLED <<Tick>>_vars written out as a state predicate; it is Tick's    *)
(* guard and a change of state.                                            *)
TickEnabled == c.alive /\ ~c.charmed /\ \E atEnd \in BOOLEAN : UpdateAI(c, atEnd) # c

(* The world updates the creature every tick, splines run to their end,   *)
(* roots and fears wear off, combat ends and the dead respawn.  Tick's    *)
(* weak fairness is stated with TickEnabled, which is the same formula;   *)
(* Uncharm, which always clears charmed, is enabled exactly when charmed.  *)
(* A charm ends: spell charms run out and a possess channel stops.        *)
Fairness == /\ (<>[]TickEnabled => []<><<Tick>>_vars)
            /\ WF_vars(Motion) /\ WF_vars(SplineArrive)
            /\ WF_vars(Unroot) /\ WF_vars(FearEnd) /\ WF_vars(Evade) /\ WF_vars(Respawn)
            /\ (<>[]c.charmed => []<><<Uncharm>>_vars)

Spec == Init /\ [][Next]_vars /\ Fairness
Gen == [type : {"idle", "point", "chase", "home", "follow"}, id : 0..OOCPoint, dest : Locs,
        needInit : BOOLEAN]

(* Every field of the creature stays in its range: in particular the      *)
(* uint32 pause and invoker timers of UpdatePath never wrap below zero.   *)
TypeOK ==
    /\ c.escort \subseteq {"ESCORTING", "PAUSED", "RETURNING"}
    /\ c.wayPoints \in Paths \cup {None} /\ c.pathId \in Paths \cup {0}
    /\ c.lastWP \in [path : Paths, id : 1..OOCPoint] \cup {None}
    /\ c.lastWPIDReached \in 0..OOCPoint /\ c.currentWPID \in 0..OOCPoint
    /\ c.pauseTimer \in 0..OOCPoint /\ c.invokerTimer \in 0..OneSecond
    /\ {c.pos, c.dest, c.lastOOCPos} \subseteq Locs /\ c.gen \in Gen
    /\ {c.charmed, c.playerCtl, c.follow, c.canCombatMove} \subseteq BOOLEAN
    /\ c.despawnState \in 0..3 /\ c.followTimer \in 0..OneSecond
    /\ c.despawnTime \in Nat

(* The escort state bits of AddEscortState/RemoveEscortState stay          *)
(* consistent through StartPath, PausePath, EndPath, evade and death:    *)
(* PAUSED or RETURNING only while ESCORTING, and ESCORTING only with a    *)
(* loaded path whose first waypoint was handed out.                       *)
EscortFlagsWellFormed ==
    /\ (Has(c, "PAUSED") \/ Has(c, "RETURNING")) => Escorting(c)
    /\ Escorting(c) => c.wayPoints # None /\ c.currentWPID >= 1
(* MovepointReached raises SMART_EVENT_WAYPOINT_REACHED for a waypoint    *)
(* only when the creature stands at that waypoint.                        *)
ReachedAtWaypoint == ~c.falseReach
(* A non-repeating escort eventually ends: the creature walks to the last  *)
(* waypoint and UpdatePath's mCurrentWPID == GetWPCount() test calls       *)
(* EndPath, or a stop or death ends it earlier.                          *)
(* A script's SetFollow hands the creature's movement to a follow, which  *)
(* freezes the escort until the follow ends; nothing makes a follow end.  *)
EscortEnds == (Escorting(c) /\ ~c.canRepeat) ~> (~Escorting(c) \/ c.canRepeat \/ c.follow)

(* StartPath walks a path from its first waypoint (the constructor's     *)
(* "first wp id is 1"): whenever an escort starts, mCurrentWPID is 1.     *)
(* JustRespawned clears mEscortState but keeps mCurrentWPID, and LoadPath  *)
(* does not reset it.                                                      *)
EscortStartsAtFirstWP ==
    [][~Escorting(c) /\ Escorting(c') => c'.currentWPID = 1]_vars
=============================================================================
