-------------------------- MODULE HostileRefManager --------------------------
(***************************************************************************)
(* The hostile reference lists of HostileRefManager.cpp.  Every unit owns  *)
(* a HostileRefManager: a linked list of HostileReferences, one for each   *)
(* creature that has the unit on its threat list.  A reference is named    *)
(* here by its source creature (a ThreatManager holds at most one          *)
(* reference per victim).  The manager's methods are loops over its list;  *)
(* the deleting ones unlink and free the current reference, so they save   *)
(* ref->next() before removeReference().  All of them run on the unit's    *)
(* map thread and call nothing that changes the list they walk, so each    *)
(* call is one step, and the loop itself is a RECURSIVE operator that      *)
(* keeps the code's order of reading next and unlinking.                   *)
(*                                                                         *)
(* Assumed of code that is not in the repository (LinkedList, Reference,   *)
(* ThreatManager): next() of the last element, or of an element that has   *)
(* been unlinked, is null; removeReference() unlinks the reference from   *)
(* this list and from its source's threat list; ThreatManager::addThreat   *)
(* links a new reference at the front of the victim's list unless the      *)
(* source already has one.  Threat amounts are not modelled.              *)
(***************************************************************************)
EXTENDS Naturals, SequencesExt

CONSTANTS
    Units,      \* the units whose HostileRefManager is modelled
    Creatures,  \* the creatures that may hate them (reference sources)
    None        \* a null HostileReference*

VARIABLES
    hostile,    \* unit -> its list of references, by source, in list order
    offline,    \* unit -> the sources whose reference to it is offline
    last        \* the last call: which loop, on which unit, selecting what

vars == <<hostile, offline, last>>

\* the lists a unit can hold: each source at most once
RefLists == UNION {SetToSeqs(S) : S \in SUBSET Creatures}

Ops == {"link", "delete", "assist", "online"}

-----------------------------------------------------------------------------
(* The list.                                                               *)

\* getFirst()
First(l) == IF l = <<>> THEN None ELSE Head(l)

\* ref->next(): the following reference, null after the last one and for a
\* reference that is no longer linked
NextRef(l, ref) ==
    LET k == SelectInSeq(l, LAMBDA x : x = ref)
    IN  IF k = 0 \/ k = Len(l) THEN None ELSE l[k + 1]

\* ref->removeReference(); delete ref;
RemoveReference(h, u, ref) == [h EXCEPT ![u] = Remove(@, ref)]

\* ThreatManager::addThreat of a source with no reference to v yet links
\* one at the front of v's list
LinkFirst(h, v, ref) ==
    IF ref \in ToSet(h[v]) THEN h ELSE [h EXCEPT ![v] = <<ref>> \o @]

\* the body of a loop over the list of call b.unit, on the reference ref:
\*   "delete": removeReference and delete when the source is in b.sel;
\*   "assist": a valid source gains threat on b.victim (only the threat
\*             changes when the victim is the unit itself)
Body(h, ref, b) ==
    CASE b.op = "delete" ->
            IF ref \in b.sel THEN RemoveReference(h, b.unit, ref) ELSE h
      [] b.op = "assist" ->
            IF ref \in b.sel /\ b.victim # b.unit THEN LinkFirst(h, b.victim, ref)
            ELSE h

\* mutant: the loop reads next() after the body, as the loops that delete
\* nothing do
RECURSIVE ForEachRefNextAfter(_, _, _)
ForEachRefNextAfter(ref, h, b) ==
    IF ref = None THEN h
    ELSE LET h1 == Body(h, ref, b)
         IN  ForEachRefNextAfter(NextRef(h1[b.unit], ref), h1, b)

\* while (ref) { nextRef = ref->next(); <body>; ref = nextRef; } over the
\* list of b.unit, where the body may unlink and free ref
RECURSIVE ForEachRef(_, _, _)
ForEachRef(ref, h, b) ==
    IF ref = None THEN h
    ELSE LET nextRef == NextRef(h[b.unit], ref)
         IN  ForEachRef(nextRef, Body(h, ref, b), b)

\* a call b: the loop from getFirst(), the offline sets kept to the
\* references still linked, and the record of the call
Call(b) ==
    LET h == ForEachRef(First(hostile[b.unit]), hostile, b)
    IN  /\ hostile' = h
        /\ offline' = [w \in Units |-> offline[w] \cap ToSet(h[w])]
        /\ last' = b

CallOf(op, u, v, sel) == [op |-> op, unit |-> u, victim |-> v, sel |-> sel]

-----------------------------------------------------------------------------
(* The methods of HostileRefManager.                                       *)

\* deleteReferences (also the destructor): every reference goes
DeleteReferences(u) == Call(CallOf("delete", u, u, Creatures))

\* deleteReferencesOutOfRange: `out` are the sources for which
\* !isActiveObject() && GetExactDist2dSq(owner) > range * range holds
DeleteReferencesOutOfRange(u, out) == Call(CallOf("delete", u, u, out))

\* deleteReference(pCreature): the first reference of that source, then break
DeleteReference(u, c) == Call(CallOf("delete", u, u, {c}))

\* UpdateVisibility: the sources that cannot see or detect u
UpdateVisibility(u, blind) == Call(CallOf("delete", u, u, blind))

\* threatAssist(pVictim): nothing on an empty list; otherwise every valid
\* source gains threat on pVictim
ThreatAssist(u, v, valid) ==
    /\ hostile[u] # <<>>
    /\ Call(CallOf("assist", u, v, valid))

\* setOnlineOfflineState(pIsOnline): every reference of u
SetOnlineOfflineState(u, isOnline) ==
    /\ hostile' = hostile
    /\ offline' = [offline EXCEPT ![u] = IF isOnline THEN {} ELSE ToSet(hostile[u])]
    /\ last' = CallOf("online", u, u, {})

\* setOnlineOfflineState(pCreature, pIsOnline): the first reference of
\* that source, then break
SetOnlineOfflineStateOf(u, c, isOnline) ==
    /\ hostile' = hostile
    /\ offline' = [offline EXCEPT ![u] =
                      IF c \notin ToSet(hostile[u]) THEN @
                      ELSE IF isOnline THEN @ \ {c} ELSE @ \cup {c}]
    /\ last' = CallOf("online", u, u, {})

\* updateThreatTables: every reference recomputes its status; `reachable`
\* are the sources whose reference is now online
UpdateThreatTables(u, reachable) ==
    /\ hostile' = hostile
    /\ offline' = [offline EXCEPT ![u] = ToSet(hostile[u]) \ reachable]
    /\ last' = CallOf("online", u, u, {})

-----------------------------------------------------------------------------

\* the world: a creature that gains threat on u (ThreatManager::addThreat,
\* not in the repository) links its reference at the front of u's list
AddThreat(u, c) ==
    /\ hostile' = LinkFirst(hostile, u, c)
    /\ last' = CallOf("link", u, u, {c})
    /\ UNCHANGED offline

\* a unit is created with no one hating it
Init ==
    /\ hostile = [u \in Units |-> <<>>]
    /\ offline = [u \in Units |-> {}]
    /\ last = CallOf("online", CHOOSE u \in Units : TRUE,
                               CHOOSE u \in Units : TRUE, {})

Next ==
    \E u \in Units :
        \/ \E c \in Creatures : AddThreat(u, c)
        \/ DeleteReferences(u)
        \/ \E out \in SUBSET ToSet(hostile[u]) : DeleteReferencesOutOfRange(u, out)
        \/ \E c \in Creatures : DeleteReference(u, c)
        \/ \E blind \in SUBSET ToSet(hostile[u]) : UpdateVisibility(u, blind)
        \/ \E v \in Units, valid \in SUBSET ToSet(hostile[u]) :
               ThreatAssist(u, v, valid)
        \/ \E isOnline \in BOOLEAN : SetOnlineOfflineState(u, isOnline)
        \/ \E c \in Creatures, isOnline \in BOOLEAN :
               SetOnlineOfflineStateOf(u, c, isOnline)
        \/ \E reachable \in SUBSET ToSet(hostile[u]) :
               UpdateThreatTables(u, reachable)

Spec == Init /\ [][Next]_vars

-----------------------------------------------------------------------------
(* Properties.                                                             *)

\* every list holds each source at most once, and only references still
\* linked are offline: removeReference takes a freed reference out of the
\* offline set as well as out of the list
TypeOK ==
    /\ hostile \in [Units -> RefLists]
    /\ \A u \in Units : offline[u] \subseteq ToSet(hostile[u])
    /\ last.op \in Ops /\ {last.unit, last.victim} \subseteq Units
    /\ last.sel \subseteq Creatures

\* Every loop over the linked list does what its declarative reading says,
\* whatever the list and whichever of its references the body unlinks and
\* frees: a deleting loop removes exactly the selected references and keeps
\* the others in their order (it neither stops early on an unlinked
\* reference nor skips the one after a freed one), and threatAssist links
\* every valid source not yet there at the front of the victim's list, the
\* last one visited first, leaving the walked list as it was.
LoopsMatchReference ==
    [][ LET u == last'.unit
            v == last'.victim
            sel == last'.sel
        IN  /\ last'.op = "delete" =>
                   hostile'[u] = SelectSeq(hostile[u], LAMBDA s : s \notin sel)
            /\ last'.op = "assist" =>
                   /\ hostile'[u] = hostile[u]
                   /\ v # u => hostile'[v] =
                          Reverse(SelectSeq(hostile[u], LAMBDA s :
                                      s \in sel /\ s \notin ToSet(hostile[v])))
                          \o hostile[v]
      ]_vars

=============================================================================
