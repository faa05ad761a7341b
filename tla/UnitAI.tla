------------------------------- MODULE UnitAI -------------------------------
(***************************************************************************)
(* UnitAI::SelectTarget (UnitAI.h), the template every AI uses to pick a   *)
(* target from its creature's threat list: the targets the predicate       *)
(* accepts, in threat order, sorted by distance for NEAREST and FARTHEST,  *)
(* and the one at `position` from the front or the back.  The threat list *)
(* is given as a sequence of units in threat order, the predicate as the   *)
(* set of units it accepts, and the distances as a function.              *)
(*                                                                         *)
(* Assumed of code that is not in the repository: ObjectDistanceOrderPred  *)
(* orders by ascending distance to the creature and std::list::sort is     *)
(* stable (as the standard requires), so targets at equal distance keep    *)
(* their threat order; urand(a, b) is any value of a..b.                   *)
(***************************************************************************)
EXTENDS Naturals, SequencesExt

SelectAggroTarget == {"random", "topaggro", "bottomaggro", "nearest", "farthest"}

\* one step of std::list::sort: x goes after every target no farther
RECURSIVE InsertByDist(_, _, _)
InsertByDist(x, l, dist) ==
    IF l = <<>> THEN <<x>>
    ELSE IF dist[x] < dist[Head(l)] THEN <<x>> \o l
    ELSE <<Head(l)>> \o InsertByDist(x, Tail(l), dist)

\* targetList.sort(Trinity::ObjectDistanceOrderPred(me))
SortByDist(l, dist) ==
    FoldLeft(LAMBDA acc, x : InsertByDist(x, acc, dist), <<>>, l)

\* mutant: the random pick ignores position, urand(0, size - 1)
RandomPicksFromZero(position, n) == 0..n - 1

\* std::advance(itr, urand(position, targetList.size() - 1))
RandomPicks(position, n) == position..n - 1

\* the targets SelectTarget may return ("null" for nullptr): one, or for
\* SELECT_TARGET_RANDOM any of urand(position, size - 1)
SelectTarget(threatlist, accepts, dist, targetType, position) ==
    LET targetList == SelectSeq(threatlist, LAMBDA t : t \in accepts)
        sorted == IF targetType \in {"nearest", "farthest"}
                  THEN SortByDist(targetList, dist) ELSE targetList
        n == Len(targetList)
    IN  IF position >= Len(threatlist) \/ position >= n THEN {"null"}
        ELSE CASE targetType \in {"nearest", "topaggro"} -> {sorted[position + 1]}
               [] targetType \in {"farthest", "bottomaggro"} -> {sorted[n - position]}
               [] targetType = "random" -> {sorted[k + 1] : k \in RandomPicks(position, n)}

=============================================================================
