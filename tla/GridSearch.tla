----------------------------- MODULE GridSearch -----------------------------
(***************************************************************************)
(* The grid searchers of GridNotifiersImpl.h.  A grid search hands one     *)
(* searcher object every container (one per cell and object type) of the  *)
(* cells in range; each Visit(container) overload of the searcher updates  *)
(* its result.  Three searcher shapes exist for every object family:       *)
(*   - a Searcher keeps the first accepted object (i_object), and returns  *)
(*     at once when it already has one;                                    *)
(*   - a LastSearcher keeps overwriting i_object, so it ends with the last *)
(*     accepted object; some of them skip objects of another phase;        *)
(*   - a ListSearcher appends every accepted object (i_objects).           *)
(* The families differ in the containers they look at: the WorldObject     *)
(* searchers test i_mapTypeMask, the typed ones (GameObject, Unit,         *)
(* Creature, Player) define Visit only for their own containers, and the   *)
(* other containers reach the empty default Visit of GridNotifiers.h.      *)
(*                                                                         *)
(* The order in which the grid hands out its containers (Cell::Visit,      *)
(* TypeContainerVisitor) is not in the repository: every order is allowed. *)
(* i_check is a fixed set of accepted objects: the check functors are not  *)
(* in the repository.                                                      *)
(***************************************************************************)
EXTENDS Naturals, SequencesExt

CONSTANTS
    Objects,        \* the world objects in the cells searched
    TypeOf,         \* object -> its grid container type
    Cells,          \* the cells in range
    None            \* a null i_object

Types == {"gameobject", "player", "creature"}
Kinds == {"WorldObject", "GameObject", "Unit", "Creature", "Player"}

VARIABLES
    kind,       \* the searcher family in use
    mask,       \* i_mapTypeMask of the WorldObject searchers
    accepts,    \* the objects i_check returns true for
    inPhase,    \* the objects that are InSamePhase(i_phaseMask)
    pending,    \* the containers the grid has yet to hand out
    visited,    \* the containers handed out so far, in order
    found,      \* i_object of the Searcher
    last,       \* i_object of the LastSearcher
    list        \* i_objects of the ListSearcher

vars == <<kind, mask, accepts, inPhase, pending, visited, found, last, list>>

\* a container: the objects of one type in one cell, in container order
Container == [cell : Cells, type : Types, objs : Seq(Objects)]

Check(x) == x \in accepts

-----------------------------------------------------------------------------
(* The three Visit shapes, for the container types `types` of a family.    *)

\* Searcher::Visit: skip a foreign container, return if already found,
\* otherwise take the first accepted object of the container.
SearcherStep(o, ct, types) ==
    IF ct.type \notin types \/ o # None THEN o
    ELSE LET k == SelectInSeq(ct.objs, Check)
         IN  IF k = 0 THEN o ELSE ct.objs[k]

\* LastSearcher::Visit: every accepted object (in phase, when `phased`)
\* overwrites i_object.
LastSearcherStep(o, ct, types, phased) ==
    LET Take(x) == Check(x) /\ (phased => x \in inPhase)
        k == SelectLastInSeq(ct.objs, Take)
    IN  IF ct.type \notin types \/ k = 0 THEN o ELSE ct.objs[k]

\* ListSearcher::Visit: push back every accepted object.
ListSearcherStep(l, ct, types) ==
    IF ct.type \notin types THEN l ELSE l \o SelectSeq(ct.objs, Check)

-----------------------------------------------------------------------------
(* The searcher classes.                                                   *)

\* mutant: the WorldObjectSearcher without its "already found" return
WorldObjectSearcherVisitRefind(o, ct) ==
    LET k == SelectInSeq(ct.objs, Check)
    IN  IF ct.type \notin mask \/ k = 0 THEN o ELSE ct.objs[k]

WorldObjectSearcherVisit(o, ct) == SearcherStep(o, ct, mask)
WorldObjectLastSearcherVisit(o, ct) == LastSearcherStep(o, ct, mask, TRUE)
WorldObjectListSearcherVisit(l, ct) == ListSearcherStep(l, ct, mask)

GameObjectSearcherVisit(o, ct) == SearcherStep(o, ct, {"gameobject"})
GameObjectLastSearcherVisit(o, ct) ==
    LastSearcherStep(o, ct, {"gameobject"}, FALSE)
GameObjectListSearcherVisit(l, ct) == ListSearcherStep(l, ct, {"gameobject"})

UnitSearcherVisit(o, ct) == SearcherStep(o, ct, {"creature", "player"})
UnitLastSearcherVisit(o, ct) ==
    LastSearcherStep(o, ct, {"creature", "player"}, FALSE)
UnitListSearcherVisit(l, ct) == ListSearcherStep(l, ct, {"creature", "player"})

CreatureSearcherVisit(o, ct) == SearcherStep(o, ct, {"creature"})
CreatureLastSearcherVisit(o, ct) == LastSearcherStep(o, ct, {"creature"}, FALSE)
CreatureListSearcherVisit(l, ct) == ListSearcherStep(l, ct, {"creature"})

PlayerSearcherVisit(o, ct) == SearcherStep(o, ct, {"player"})
PlayerLastSearcherVisit(o, ct) == LastSearcherStep(o, ct, {"player"}, TRUE)
PlayerListSearcherVisit(l, ct) == ListSearcherStep(l, ct, {"player"})

\* the Visit of each shape of the family in use
SearcherVisit(o, ct) ==
    CASE kind = "WorldObject" -> WorldObjectSearcherVisit(o, ct)
      [] kind = "GameObject"  -> GameObjectSearcherVisit(o, ct)
      [] kind = "Unit"        -> UnitSearcherVisit(o, ct)
      [] kind = "Creature"    -> CreatureSearcherVisit(o, ct)
      [] kind = "Player"      -> PlayerSearcherVisit(o, ct)

LastSearcherVisit(o, ct) ==
    CASE kind = "WorldObject" -> WorldObjectLastSearcherVisit(o, ct)
      [] kind = "GameObject"  -> GameObjectLastSearcherVisit(o, ct)
      [] kind = "Unit"        -> UnitLastSearcherVisit(o, ct)
      [] kind = "Creature"    -> CreatureLastSearcherVisit(o, ct)
      [] kind = "Player"      -> PlayerLastSearcherVisit(o, ct)

ListSearcherVisit(l, ct) ==
    CASE kind = "WorldObject" -> WorldObjectListSearcherVisit(l, ct)
      [] kind = "GameObject"  -> GameObjectListSearcherVisit(l, ct)
      [] kind = "Unit"        -> UnitListSearcherVisit(l, ct)
      [] kind = "Creature"    -> CreatureListSearcherVisit(l, ct)
      [] kind = "Player"      -> PlayerListSearcherVisit(l, ct)

-----------------------------------------------------------------------------
(* The grid search.                                                        *)

\* the non-empty containers of the cells: objects placed by `cellOf`, the
\* objects of a type in a cell in the order `order` gives them (an empty
\* container leaves every searcher as it is)
Containers(cellOf, order) ==
    LET Objs(c, t) ==
            SelectSeq(order, LAMBDA x : cellOf[x] = c /\ TypeOf[x] = t)
    IN  { [cell |-> ct[1], type |-> ct[2], objs |-> Objs(ct[1], ct[2])]
          : ct \in {ct \in Cells \X Types : Objs(ct[1], ct[2]) # <<>>} }

Init ==
    /\ kind \in Kinds
    /\ mask \in IF kind = "WorldObject" THEN SUBSET Types ELSE {Types}
    /\ accepts \in SUBSET Objects
    /\ inPhase \in IF kind \in {"WorldObject", "Player"}
                   THEN SUBSET Objects ELSE {Objects}
    /\ \E cellOf \in [Objects -> Cells], order \in SetToSeqs(Objects) :
           pending = Containers(cellOf, order)
    /\ visited = <<>>
    /\ found = None
    /\ last = None
    /\ list = <<>>

\* the grid hands the next container to the three searchers
Visit(ct) ==
    /\ pending' = pending \ {ct}
    /\ visited' = Append(visited, ct)
    /\ found' = SearcherVisit(found, ct)
    /\ last' = LastSearcherVisit(last, ct)
    /\ list' = ListSearcherVisit(list, ct)
    /\ UNCHANGED <<kind, mask, accepts, inPhase>>

Next == \E ct \in pending : Visit(ct)

Spec == Init /\ [][Next]_vars

-----------------------------------------------------------------------------
(* Properties.                                                             *)

\* the LastSearchers of these families skip objects of another phase
KindPhased == kind \in {"WorldObject", "Player"}

\* the searchers hold objects, or none, and the grid hands out each of its
\* containers once
TypeOK ==
    /\ kind \in Kinds
    /\ mask \subseteq Types
    /\ {found, last} \subseteq Objects \cup {None}
    /\ list \in Seq(Objects)
    /\ pending \subseteq Container
    /\ pending \cap ToSet(visited) = {}

\* The three searcher shapes of a family agree after any prefix of the
\* grid visit: the Searcher's i_object is the first object the ListSearcher
\* collected (its "already found" return must survive container changes),
\* and the LastSearcher's is the last one, among those in phase where the
\* LastSearcher tests the phase.
SearchersAgree ==
    LET inLast == SelectSeq(list, LAMBDA x : KindPhased => x \in inPhase)
    IN  /\ found = IF list = <<>> THEN None ELSE Head(list)
        /\ last = IF inLast = <<>> THEN None ELSE Last(inLast)

=============================================================================
