---------------------------- MODULE ThreatSelect ----------------------------
(***************************************************************************)
(* The hostile references of HostileRefManager seen from the other side:   *)
(* a creature's threat list holds a reference to every unit whose          *)
(* HostileRefManager lists that creature, the offline ones excepted, in    *)
(* threat order.  UnitAI::SelectTarget picks from that list.  Threat       *)
(* amounts are not modelled, so every order of the list is considered.    *)
(***************************************************************************)
EXTENDS HostileRefManager, UnitAI

\* ThreatManager::getThreatList() of creature c, as a set (the online
\* references of c); its order is the threat order
ThreatList(c) == {u \in Units : c \in ToSet(hostile[u]) /\ c \notin offline[u]}

\* distances to the creature, two of them so that ties happen
Dists == {1, 2}

\* the k-th target of the accepted ones ordered by key, k from 0: exactly k
\* accepted targets come before it
RankIs(r, k, A, Before(_, _)) == Cardinality({t \in A : Before(t, r)}) = k

\* SelectTarget returns what its contract says, for every threat list the
\* references make, every threat order of it, every predicate, every
\* distance and every (type, position): null when fewer than position + 1
\* targets are accepted; else TOPAGGRO and BOTTOMAGGRO the target with
\* position accepted ones before (after) it in threat order, NEAREST and
\* FARTHEST the one with position accepted ones nearer (farther), ties
\* broken by threat order as the stable sort keeps them, and RANDOM any
\* accepted target with at least position before it.
SelectTargetMatchesReference ==
    \A c \in Creatures :
    \A tl \in SetToSeqs(ThreatList(c)), A \in SUBSET ThreatList(c),
       dist \in [ThreatList(c) -> Dists], type \in SelectAggroTarget,
       position \in 0..Cardinality(Units) :
        LET idx(t) == SelectInSeq(tl, LAMBDA x : x = t)
            Threat(s, t) == idx(s) < idx(t)
            Near(s, t) == dist[s] < dist[t] \/ (dist[s] = dist[t] /\ idx(s) < idx(t))
            Expected ==
                IF position >= Cardinality(A) THEN {"null"}
                ELSE CASE type = "topaggro" -> {r \in A : RankIs(r, position, A, Threat)}
                       [] type = "bottomaggro" ->
                             {r \in A : RankIs(r, position, A, LAMBDA s, t : Threat(t, s))}
                       [] type = "nearest" -> {r \in A : RankIs(r, position, A, Near)}
                       [] type = "farthest" ->
                             {r \in A : RankIs(r, position, A, LAMBDA s, t : Near(t, s))}
                       [] type = "random" ->
                             {r \in A : Cardinality({t \in A : Threat(t, r)}) >= position}
        IN  SelectTarget(tl, A, dist, type, position) = Expected

=============================================================================
