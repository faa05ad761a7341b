# TLA+ models of sunstrider-core: the auction house, the SmartAI escort, the grid searchers and the hostile reference lists

This directory holds TLA+ models of four parts of sunstrider-core. The first
is the auction house engine:
`src/src/server/game/AuctionHouseHandler.cpp` holds the client request handlers and
`src/src/server/game/AuctionHouseMgr.cpp` holds the registry, the houses, the
listing entries and the periodic expiry sweep. The second is the waypoint
escort of `SmartAI` (`src/src/server/game/AI/SmartAI.cpp`), together with the
`PointMovementGenerator` (`Movement/MovementGenerators/PointMovementGenerator.cpp`)
that moves the creature from point to point. The third is the family of
grid searchers in `src/src/server/game/GridNotifiersImpl.h`, which find the
first, the last or all objects of the grid cells in range that a check
accepts. The fourth is the hostile reference lists of
`src/src/server/game/HostileRefManager.cpp`, together with
`UnitAI::SelectTarget` (`src/src/server/game/AI/UnitAI.h`), which picks a
target from the threat list those references make. TLC model-checks the
models. `PROJECT.json` lists the other files
under `src/` (threat lists, class declarations) as components, most not
modelled yet.

## 1. Inventory of the system

### Parts and how they interact

| Part | Code | State | Operations that change state |
|------|------|-------|------------------------------|
| Listing entry `AuctionEntry` | Mgr.cpp 631-697 | id, house, item guid, owner, startbid, bidder, bid, buyout, expire_time, deposit, deposit_time | `GetAuctionCut`, `GetAuctionOutBid` (pure); `SaveToDB`, `DeleteFromDB` |
| House `AuctionHouseObject` | Mgr.cpp 465-628 | `AuctionsMap` (id → entry, in id order) | `AddAuction`, `RemoveAuction`, `Update` (the expiry sweep of one house) |
| Registry `AuctionHouseMgr` | Mgr.cpp 22-463 | three houses (alliance, horde, neutral); `mAitems`, the items in custody | `GetAuctionsMap`, `GetAuctionDeposit`, `AddAItem`, `RemoveAItem`, the four settlement mails, `LoadAuctionItems`/`LoadAuctions` at start, `Update` (sweeps every house) |
| Handlers `WorldSession::HandleAuction...` | Handler.cpp 140-477 | none of their own: they change player money, inventory, houses, custody and mail | Sell, PlaceBid (a raise, or a buyout that settles at once), RemoveItem (cancel) |
| Mail, sessions, money | not in `src/` | mailboxes, online characters, player gold | send a mail (`SendMailTo` with or without the caller's transaction); take a mail; login (one character per account); logout |

A handler runs in one step on the world thread. It reads and changes a house,
the custody table and the player. It writes one database transaction, `trans`,
which it commits at its end. Several mails do not go into that transaction.
The outbid refund (Handler.cpp 115), the cancel refund and item (Handler.cpp
129, 450) and the won mail (Mgr.cpp 134) are sent with the `SendMailTo`
overload that commits on its own. They are durable before the handler's
transaction is. The sweep (`AuctionHouseMgr::Update`) runs once per world tick.
It walks the houses in order, and each house's auctions in id order. Every
expired auction is settled: a won mail and a sale mail if it sold, an
expired-item mail to the owner if it did not. Then the auction is removed, and
the house's transaction is committed. At start the registry reloads every
auction row and rebuilds `mAitems` from them, with `deposit_time = 0`.

### Hard behaviours

- **Process death between two commits.** See the early mails above. A death
  after an early mail and before the transaction leaves the early mail and the
  old auction row both in the database.
- **Null dereference in the sweep.** `SendAuctionExpiredMail` passes
  `owner->GetGUIDLow()` when the owner is offline (Mgr.cpp 240). The process
  then dies in the middle of the sweep. The won mails of earlier auctions of
  the same house are already committed, and the house's transaction is not.
  A won auction whose bidder no longer exists only deletes its item inside
  that transaction, so it is rolled back with it (`CommittedWon`).
  After a restart the same auction faults again.
- **Interleaving of users.** Sessions of several characters run one after
  another in any order: logins and logouts between a sale and a bid, outbids,
  a bidder raising their own bid, and a cancel with a bidder present.
- **Numeric edges.** The cut is computed with a uint32 product. The outbid
  step is truncated to whole hundreds. The per-seller limit is off by one.

### What makes each part correct

- Ledger: the cut is `cutPercent * bid / 100`. The next bid must be at least
  `bid + max(1, floor(bid * 5 / 100))`.
- House and handlers: money is neither created nor destroyed. It sits in
  players, in auctions (bids and deposits), in mails, or has been kept by the
  house. Every item is in exactly one place: an inventory, an auction, or a
  mail. A listed item is in custody and listed once. A bid stays below the
  buyout and is at least the start bid. Every new bid exceeds the old one by
  the outbid step. No account wins its own auction. A seller holds at most
  `MAX_AUCTIONS` auctions in a house.
- Sweep: every expired auction is eventually settled.

## 2. Modules

| Module | Models | Composition |
|--------|--------|-------------|
| `AuctionEntry` | `GetAuctionCut`, `GetAuctionOutBid` as pure operators, with uint32 width as `UIntWidth` | extended by `AuctionHouse` |
| `AuctionHouse` | registry, houses, custody, handlers, sweep, reload, and the external mail and session environment | `EXTENDS AuctionEntry`; `INSTANCE AuctionListing` |
| `AuctionListing` | the abstract Listing lifecycle of spec section 3: create under a fresh id and an unlisted item, bid by others upwards below the buyout, destroy | instantiated by `AuctionHouse` |
| `MC_AuctionHouse` | constants for TLC: three characters on two accounts (`a1`, `a2` share one), one or two items, an alliance and a neutral house | `EXTENDS AuctionHouse` |
| `PointMovement` | `PointMovementGenerator<T>`'s handlers as operators on a unit record, with no variables of its own | extended by `SmartEscort` |
| `SmartEscort` | one creature: the escort state of `SmartAI`, its unit and active generator, the world around it and its script | `EXTENDS PointMovement` |
| `MC_SmartEscort` | two paths, `{1, 2}` and `{1}`, as waypoint tables | `EXTENDS SmartEscort` |
| `GridSearch` | the `Visit` overloads of the WorldObject, GameObject, Unit, Creature and Player searchers (first, last and list shapes), driven by a grid visit in any container order | standalone |
| `MC_GridSearch` | one player, two creatures and a gameobject over two cells | `EXTENDS GridSearch` |
| `HostileRefManager` | the reference list of every unit and the loops of `HostileRefManager.cpp` over it | standalone |
| `UnitAI` | `UnitAI::SelectTarget` as a pure operator: filter, stable sort by distance, pick by type and position | extended by `ThreatSelect` |
| `ThreatSelect` | a creature's threat list read off the reference lists, and the check of `SelectTarget` against its contract | `EXTENDS HostileRefManager, UnitAI` |
| `MC_HostileRefManager` | two units and three creatures, symmetric in the creatures | `EXTENDS ThreatSelect` |

### How `HostileRefManager` corresponds to the code

Every unit owns a `HostileRefManager`, a linked list with one
`HostileReference` for each creature that has the unit on its threat list.

- `hostile[u]` is that list. A reference is named by its source creature,
  because a `ThreatManager` holds at most one reference per victim.
  `offline[u]` are the references whose online flag is off.
- Each method is one step. The loops run on the map thread and call nothing
  that changes the list they walk. The loop is the RECURSIVE `ForEachRef`,
  which reads `next()` before the body as the code does. `Body` is the loop
  body of the call: unlink and free a selected reference, or let a valid
  source gain threat on the victim.
- The condition of each deleting loop (`!isActiveObject()` and the range,
  `CanSeeOrDetect`, the source's identity) is abstracted to the set of
  sources it holds for, chosen by `\E`. So are `isValidProcess` of
  `threatAssist` and the status that `updateOnlineStatus` computes.
- `last` records the call that made the step. It is a history variable that
  the property reads; no code reads it.
- Assumed of code that is not in the repository: `next()` of the last
  reference, or of an unlinked one, is null. `removeReference()` unlinks the
  reference. `ThreatManager::addThreat` links a new reference at the front
  of the victim's list unless the source has one already. `AddThreat` is
  that call, made by the world.
- Threat amounts are not modelled. `addThreatPercent`, which changes only
  amounts, is not an action. The threat division and modifiers of
  `threatAssist` are left out.

### How `UnitAI` and `ThreatSelect` correspond to the code

- `SelectTarget(threatlist, accepts, dist, targetType, position)` is the
  template of UnitAI.h 112-156. The predicate is the set of units it accepts,
  and the distances are a function. The result is a set: one target, or
  `"null"` for `nullptr`. For `SELECT_TARGET_RANDOM` it is every target that
  `urand(position, size - 1)` can pick (`RandomPicks`).
- `SortByDist` is `targetList.sort(ObjectDistanceOrderPred(me))`, an
  insertion sort that puts a target after every target no farther. It is
  stable, as `std::list::sort` must be, and it sorts by ascending distance.
  That comparator is outside the repository, so its ordering is assumed.
- `ThreatList(c)` is `ThreatManager::getThreatList()` of creature `c`: the
  units whose `HostileRefManager` lists `c` with an online reference. It is
  outside the repository, so it is modelled from what the references mean.
  Threat amounts are not modelled, so the check takes every order of the list.
- `SelectTargetMatchesReference` is an invariant of the hostile-reference run.
  In every reachable state, for every creature, threat order, predicate,
  distance (1 or 2, so ties happen), type and position, it compares the
  operator with a declarative contract. For each type, the contract says
  how many accepted targets rank before the result. Ties in distance are
  broken by threat order. The other `SelectTarget` overloads and the
  selectors' `operator()` are defined outside the repository.

### How `GridSearch` corresponds to the code

A grid search constructs one searcher and lets the grid hand it every
container of the cells in range: one container per cell and object type.
The searcher's `Visit(container)` overload updates its result.

- `pending` and `visited` are the grid's containers, still to come and
  handed out. `Visit(ct)` is one `Visit` call. It takes any pending
  container, because the grid's order (`Cell::Visit`, `TypeContainerVisitor`)
  is not in the repository.
- `found`, `last` and `list` are the `i_object` of a Searcher and of a
  LastSearcher and the `i_objects` of a ListSearcher of the same family,
  which `kind` picks. The three see the same visit, so one run compares them.
- `SearcherStep`, `LastSearcherStep` and `ListSearcherStep` are the three
  loop shapes. Each `<Family><Shape>Visit` operator is that shape restricted
  to the containers the family's overloads take: `i_mapTypeMask` for
  WorldObject, and the overloaded container types for the others. Only the
  WorldObject and Player LastSearchers test `InSamePhase`.
- `accepts` is `i_check`, and `inPhase` the objects in the searcher's phase.
  Both are any set, since the check functors are in `GridNotifiers.h`,
  which is not in the repository. A check is taken to be stateless.
- Corpse and dynamic-object containers are left out. The WorldObject
  searchers treat them like the three types modelled.
- `CreatureListSearcherWithRange` is modelled as `CreatureListSearcher`: the
  range it stores beside each object is the check's output.

### How `AuctionHouse` corresponds to the code

- `auctions` (id → record) is the union of the three `AuctionsMap`s. The
  record's `house` field says which house the entry is in. `nextId` is the
  id counter.
- `aitems` is `mAitems`. `inventory` and `gold` are the characters' bags and
  money.
- `mail` is a bag of `[to, money, item]` records, the mails not yet taken.
- `up` says whether the process is alive, and `online` is the set of online
  characters. `now` is game time.
- `sunk` is a ghost variable: the money the house has kept (cuts, cancel fees,
  deposits). `powerLosses` bounds the number of process deaths.
- Actions:
  - `HandleAuctionSellItem` covers Handler.cpp 140-262. Every early return is
    a negated guard.
  - `PlaceBidRaise` and `PlaceBidBuyout` are the two branches of
    `HandleAuctionPlaceBid`.
  - `HandleAuctionRemoveItem` covers the cancel.
  - `AuctionHouseMgrUpdate` covers the sweep. It is either `UpdateSettle`,
    where every house completes, or `UpdateFault`, the null dereference at
    line 240 after the committed prefix.
  - `Restart` covers `LoadAuctionItems` and `LoadAuctions`.
- Each handler that sends early mails has a second disjunct,
  `CrashAfter(early)`. In it the process dies after a non-empty prefix of those
  mails is committed and before the transaction. It is enabled only while
  `powerLosses < MaxPowerLosses`. `Crash` is a death at any other moment.
- `Login`, `Logout`, `Tick` and `TakeMail` are the environment, modelled from
  the spec.
- Character deletion. `deleted` holds the characters gone from the character
  cache. `lost` is a ghost: per character, the money and items dropped
  because the receiver no longer exists.
  - Every mail goes through `Deliver`. A mail to a deleted character is
    dropped, as the `player || player_accId` checks of the mail senders do
    (Handler.cpp 97-105, Mgr.cpp 136-142 and 242-248).
  - `DeleteCharacter(p)` is enabled while no character of p's account is
    online. Its caller, `Player::DeleteFromDB`, is outside the repository.
  - It settles p's auctions through `RemoveAllAuctionsOf` (Mgr.cpp 418-423
    and 503-533), in one transaction for the three houses. Then the
    character is deleted along with its money, bags and mails, including
    the profit mails just sent to it.
  - The model assumes that `RemoveAllAuctionsOf` runs while the character is
    still in the cache. For an unsold auction, `SendAuctionExpiredMail` then
    dereferences the null `owner`. That is `RemoveAllAuctionsOfFault`: the
    won mails of sold auctions swept earlier, to bidders that still exist,
    are already committed (they are sent without the transaction), and
    nothing else is.

### How `SmartEscort` corresponds to the code

The escort code is a set of synchronous calls that nest. `StartPath` calls
`StopPath`, which calls `EndPath`, which calls `StartPath` again for a
repeating path. `MovePoint` replaces the active generator, and the old
generator's `DoFinalize` calls `SmartAI::MovementInform` in the middle of
the caller. The creature is therefore one record `c`, and every handler is
an operator from a creature to a creature. The three path operators are
`RECURSIVE`.

- The fields `escort`, `wayPoints`, `pathId`, `currentWPID`, `lastWP`,
  `wpReached`, `forcedPaused`, `lastWPIDReached`, `pauseTimer`, `canRepeat`,
  `lastOOCPos`, `invokerTimer` are the `SmartAI` members of the same names.
  `inCombat` and `alive` are the unit's.
- `charmed` is `Unit::IsCharmed()` and `playerCtl` is
  `UNIT_FLAG_PLAYER_CONTROLLED`. `IsAIControlled` is true when neither is
  set. `despawnTime` and `despawnState` are the `mDespawnTime` and
  `mDespawnState` members, and `follow` and `followTimer` are the follow
  target being set and `mFollowArrivedTimer`.
- The fields `pos`, `done`, `dest`, `rooted`, `ctrl` and `gen` are the
  unit's movement (see `PointMovement`). `done` is `movespline->Finalized()`.
  `gen` is the active-slot generator; `ctrl` says that a fear or confusion
  generator sits in the controlled slot above it.
- `falseReach` is a ghost field. It records a `WAYPOINT_REACHED` event
  raised where the waypoint is not.
- `UpdatePath` is the composition of its four parts, in the code's order:
  `InvokerCheck`, `HandlePause`, `HandleReturn`, `HandleNextWP`. `Tick`
  applies it once per world update, with `diff` as one tick.
  `IsEscortInvokerInRange()` (SmartAI.cpp 374-407) returns true on every
  path, also when no escort target is near, so `InvokerCheck` only reloads
  its timer and the `StopPath` it guards is never called.
- `Motion` is `MotionMaster::UpdateMotion` expiring a generator whose
  `DoUpdate` returns false. `SplineArrive` is the spline reaching its end.
- The environment is roots, fears, combat (`AttackStart`, `Evade`), death
  and respawn, and charms. The script is `StartPath`, `PausePath`, `StopPath` (with a
  despawn time), `SetFollow` and `SetCombatMove` with any arguments.
- `SetCombatMove` (`mCanCombatMove`) decides whether `AttackStart` chases.
  Outside an escort, allowing it starts the chase of an idle creature in
  combat. Forbidding it drops every generator, including the way home after
  an evade, unless the creature is feared or confused. No waypoint
  generator exists in the model, so the code's test for one always passes.
  The victim of `GetVictim()` is abstracted to `inCombat`.
- `Charm` and `Uncharm` are `Unit::SetCharmedBy` and `RemoveCharmedBy`
  calling `SmartAI::OnCharmed`. `SetCharmedBy` sets the player-controlled
  flag before it calls `OnCharmed`, so the `EndPath` it causes sees a
  creature that is not AI-controlled and does not restart a repeating path.
- `UpdateAI` is `UpdatePath`, then `UpdateDespawn`, then `UpdateFollow`, in
  the code's order. A follow set during an escort keeps the escort state but
  `UpdateFollow` replaces the movement, so the escort freezes until the
  follow ends.

Assumed of code that is not in the repository:

- `MotionMaster::Mutate` finalises the generator it replaces in the active
  slot. `MovementExpired` pops the active generator and finalises it.
  `MoveIdle` leaves an active point generator in place.
- `Unit::StopMoving` launches a stop spline, which is `Finalized` at once.
- A root, a stun or a cast stops the unit.
- `GetWPCount()` (in `SmartAI.h`) is 0 when `mWayPoints` is null, and the
  size of the path otherwise.
- While the creature is charmed, `Creature::NeedChangeAI` puts a charm AI in
  place of `SmartAI`, so `SmartAI` receives no update, attack, evade or
  movement inform. `Tick`, `AttackStart`, `Evade` and the script calls are
  disabled while `charmed`. A charmed creature's death is not modelled
  (`Die` requires `~charmed`).
- `SetDespawnTime(t)` (in `SmartAI.h`) sets `mDespawnState` to 1 when
  `t # 0` and to 0 otherwise. `StartDespawn` sets it to 2. The default
  `DespawnTime` of `StopPath()` is 0.
- `ForcedDespawn` removes the creature without `JustDied`, and respawn calls
  `JustRespawned`.

## 3. Runs

| Run | Cfg | Expect | Shows |
|-----|-----|--------|-------|
| core_handlers | `MC_AuctionHouse.cfg` | pass | Sell, bids, buyouts, cancels, logins, the sweep (with its fault and restart) and one character deletion (with or without its fault) keep `MoneyConserved`, once the money that went down with a deleted character is counted, and `NoBidOnOwnAccount`. The house refines the abstract `AuctionListing` (`ImplementsListing`). |
| power_loss_custody | `MC_PowerLossCustody.cfg` | pass | One death at any point, including between early mails and a transaction, never lets an item be listed twice or listed out of custody (`ListedItemsInCustody`). |
| power_loss_money | `MC_PowerLossMoney.cfg` | violation | A death after a refund mail and before the transaction creates money (`MoneyConserved`). |
| sweep_fault_duplicates_item | `MC_SweepFault.cfg` | violation | A sold auction with a lower id settled before an unsold auction of an offline owner. The won mail is committed, then the sweep faults. The item is now both in the mail and in the auction (`CustodyConserved`). |
| expiry_crash_loop | `MC_ExpiryLiveness.cfg` | violation | Under weak fairness of the sweep and restart, an expired unsold auction of an offline owner is never settled. The lasso is fault, then restart, then fault (`ExpiredAuctionsSettle`). |
| smart_escort | `MC_SmartEscort.cfg` | pass | Scripts start, pause and stop escorts on one or two paths. Combat, roots, fears, charms and death interrupt them. The escort bits stay consistent (`EscortFlagsWellFormed`) and the timers never wrap (`TypeOK`). |
| escort_follow_stuck | `MC_EscortStuck.cfg` | violation | A non-repeating escort on path 2 is attacked and evades, so it is `RETURNING` with a point movement to its last out-of-combat position. A script's `SetFollow` replaces that movement, and `SetFollow(nullptr)` calls `StopFollow`, whose `MoveIdle` (SmartAI.cpp 855) leaves the creature idle. Nothing sets `mWPReached` again, `UpdatePath` waits in its `RETURNING` branch, and the escort never ends (`EscortEnds`). It takes three script calls; the pass run allows two. |
| escort_respawn_stale | `MC_EscortRespawn.cfg` | violation | A repeating escort is stopped with a despawn time. `EndPath` restarts the path, then starts the despawn. `ForcedDespawn` does not call `JustDied`, and `JustRespawned` clears only the escort state, so the next `StartPath` begins at the stale `mCurrentWPID` and not at waypoint 1 (`EscortStartsAtFirstWP`). |
| escort_false_reach | `MC_EscortFalseReach.cfg` | violation | A rooted creature starts a path. `DoInitialize` launches no spline, so the stop spline is still `Finalized`. Combat expires the generator, `DoFinalize` informs arrival, and `WAYPOINT_REACHED` fires at the spawn point (`ReachedAtWaypoint`). |
| hostile_ref_loops | `MC_HostileRefManager.cfg` | pass | Two units, three creatures: every list of up to three references is built by `AddThreat` and `threatAssist`. Each deleting loop (`deleteReferences`, `deleteReferencesOutOfRange`, `deleteReference`, `UpdateVisibility`), over every selection, removes exactly the selected references and keeps the rest in order. `threatAssist` links every valid source not yet there at the front of the victim's list and leaves the walked list alone (`LoopsMatchReference`).  Over every threat list those references make, in every threat order, `SelectTarget` returns what its contract says for every predicate, distance, type and position (`SelectTargetMatchesReference`). |
| grid_searchers | `MC_GridSearch.cfg` | pass | For every searcher family, every check, mask and phase, and every order of the grid's containers, the Searcher's result is the first object the ListSearcher collected and the LastSearcher's the last one in phase (`SearchersAgree`). |

Every property of the passing runs has a mutant in `PROJECT.json`. Each mutant
is a plausible code slip that TLC must catch. For the auction house: the
refund paying the new price, the alt-account check on the character only
(once against `NoBidOnOwnAccount`, once against the refinement), an outbid
mail to the raising bidder, and a missing custody check.

`smart_escort` has two mutants:

- `PausePath` without its `ESCORTING` guard;
- the pause timer decremented without its expiry test.

Each is caught by the property it targets.

`grid_searchers` has one mutant: the WorldObjectSearcher without its
"already found" return (`SearchersAgree`).

`hostile_ref_loops` has two mutants. In the first, the deleting loop reads
`next()` after `removeReference()`, as the loops that delete nothing do. It
stops after the first deletion and breaks `LoopsMatchReference`. The second draws the random pick from `urand(0, size - 1)`, and
`SelectTargetMatchesReference` catches it.

### Bounds and why they are enough

- **Players.** Three characters on two accounts. Two characters are needed
  for the account checks and two accounts for a bidder who is not the owner.
- **Items and houses.** One item (two for the sweep and limit runs). An
  alliance and a neutral house, with different cut and deposit rates, so that
  routing is exercised.
- **Prices.** Start bid 100, buyout 0 or 105. Bid prices are chosen so that a
  raise (100, 104), a bid exactly at the buyout (105), and a too-low bid (1)
  all occur.
- **Other bounds.** `MaxAuctionId = 2` allows a relist after settlement or
  cancel. `MaxTime = 3` with one auction duration lets an auction expire while
  others are live. `MaxPowerLosses = 1` is enough for every death point of
  every handler. Two deaths only repeat the same step.
- **Deletions.** `MaxDeletions = 1` in `core_handlers`, 0 elsewhere. One
  deletion already reaches the dropped mails to a deleted bidder, the loss of
  the deleted character's own mails, and the fault.
- **Integer width.** `UIntWidth = 16` scales the uint32 width down. The wrap
  is the same wrap TLC can hold.

- **Escort.** Two paths: `{1, 2}` (two waypoints, so that the path
  advances) and `{1}` (for a restart on another path). Pause delays 0 and 1
  let a pause expire in the next tick or the one after.
- **Escort environment.** `MaxInterrupts = 2` bounds combat, roots, fears,
  deaths and charms together, and `MaxScriptCalls` bounds the script
  calls. Every finding above needs one or two interruptions. The pass run
  allows two script calls, so a path can be started, then paused, stopped or
  restarted. `escort_false_reach` needs one. `escort_respawn_stale` needs
  three: a start, a stop with despawn, and the start after the respawn.
  `escort_follow_stuck` needs three: a start, a follow and its stop.
- **Despawn and follow.** `OneSecond = 1` scales the 1000 ms of the invoker
  check and the follow timer to one tick. `DespawnDelays = {0, 1}` gives a
  stop with and without despawn, and `FollowDespawnDelay = 1` a follow end
  that despawns.
- **Grid search.** Four objects over two cells: two creatures make a
  container with two objects (first versus last) or two creature containers
  (the "already found" return across containers). Every check, every
  phase set and every WorldObject mask is enumerated. Symmetry over the two
  creatures and the two cells is sound, since nothing else tells them apart.
  The run has `CHECK_DEADLOCK FALSE`: a search ends when the grid has handed
  out its containers.
- **Hostile references.** Two units, so that `threatAssist` links into
  another unit's list, and three creatures, so that a list has a first, a
  middle and a last reference. A loop that stops early or skips the
  reference after a freed one then shows on every kind of selection. Every
  selection of every list is enumerated. The creatures are symmetric, since
  the model only compares them for equality and list order. Some action is
  always enabled, so deadlock is checked.
- **Deadlock.** The escort runs have `CHECK_DEADLOCK FALSE`. Once the
  environment bounds are spent, a creature with no escort and no spline has
  nothing to do, and the server really does leave it idle.

### Refinement

`AuctionListing` states what the spec promises of one Listing, with no
money, mail, houses or crashes. `AuctionHouse` maps its state onto it with
`Listing == INSTANCE AuctionListing WITH ...`:

- `listing` is `auctions` cut down to item, owner, bidder, bid and buyout;
- `issued` is `1..nextId - 1`, the ids `GenerateAuctionID` has handed out.

`ImplementsListing == Listing!Spec` is a `PROPERTY` of `core_handlers`.
Every step of the house is then one of the abstract steps or a stutter:

- a sale is `Create`;
- a raise is `Bid`;
- a buyout, a cancel and a sweep are `Destroy` of one or several Listings;
- logins, ticks, mails, crashes and the reload change nothing the
  abstraction sees.

The abstract actions constrain the new Listing instead of picking it from a
set, so the abstract module is a property to check and not a spec to run.
The first bid below the start price is left out of the abstraction on
purpose (Handler.cpp 321, see "Not modelled"). The mutant
lets the owner bid on their own auction, which breaks `Bid`.

### Fairness

The sweep runs on every world update while the server is up, and the service
restarts the server after it dies. This is why `WF_vars(AuctionHouseMgrUpdate)`
and `WF_vars(Restart)` are assumed. Nothing forces a user to log in, bid or
take mail, so no user action is fair.

For the escort: the world calls `UpdateAI` on every tick and
`MotionMaster::UpdateMotion` on every update, and a spline runs to its end.
Roots, fears and combat wear off, and the dead respawn. These are the weakly
fair actions. Nothing forces the script, the invoker or new interruptions.
`Tick`'s weak fairness is written out as
`<>[]TickEnabled => []<><<Tick>>_vars`, where `TickEnabled` is
`ENABLED <<Tick>>_vars` as a state predicate. TLC's evaluation of `ENABLED`
on the nested recursive operators does not finish, and the formula is the
same. `Uncharm` is weakly fair in the same written-out form,
`<>[]charmed => []<><<Uncharm>>_vars`: a charm spell or a possession ends.
`EscortEnds` allows the escort to stay frozen while a follow is active,
which nothing forces to end; it is violated after the follow has ended.

## 4. Not modelled, and the plan for later sittings

- **Not modelled yet:**
  - The list and search handlers and `BuildList*`, which are read-only packet
    builders.
  - `BuildAuctionInfo`, packet layout only.
  - The SQL text of `SaveToDB`/`DeleteFromDB`. Their effect is the presence of
    a row, and that is modelled.
  - Mail expiry and return, which are outside `src/`.
  - The house's auctioneer lookup, which is always found in the models.
  - The uint32 wrap of `GetAuctionCut` (Mgr.cpp 673), above 28,633 gold at
    15%. `AuctionEntry` keeps the width, but the auction runs bound gold far
    below the wrap, so no run reaches it. It is a hazard in `PROJECT.json`.
  - The grid workers `ObjectUpdater`, `VisibleNotifier`,
    `DynamicObjectUpdater` and `LocalizedPacketDo`. They change world, aura
    and packet state that no module holds.
  - The outbid step of `GetAuctionOutBid` truncates the bid to hundreds:
    `GetAuctionOutBid(99) = 1` where the spec asks 4. It is recorded as a
    hazard at Mgr.cpp 679. A unit test of `GetAuctionOutBid` reaches it.
  - The first bid is never compared with the start price (Handler.cpp
    321). A unit test placing a bid of 1 reaches it directly, so no run is
    spent on it.
  - Threat amounts and `addThreatPercent` in `HostileRefManager`, whose
    arithmetic is in `ThreatManager`, outside the repository.
  - `GameObject.h`, `BattleGround.h`, `Item.h`, `DynamicObject.h` and
    `TestCase.h`: class declarations whose inline bodies are getters and
    setters, and whose callers are outside the repository. The rest of
    `UnitAI.h` is virtual hooks with empty bodies.
  - The seller's proceeds include the deposit (`bid + deposit - cut`,
    Mgr.cpp 197), where the spec says the deposit is sunk. It is one line
    that a unit test of a sale reaches. It is kept as a hazard.
  - `LoadAuctions` resets `deposit_time` to 0, so the anti-bot window does
    not survive a restart. The comment at Mgr.cpp 341 accepts this, as the
    window is short, so it is not checked.
  - `Restart` keeps `nextId`. The code reseeds the id counter from the
    largest id in the database, which is outside `src/`; with every live
    id below `nextId` the two agree on the ids handed out next.
  - `StartPath` of a path id that `sSmartWaypointMgr` does not know
    (`LoadPath` fails and sets the path id to 0). Scripts pass the ids of
    configured paths, so `Paths` holds only known ones.
  - Grid search assumes that the `Insert()` of the ListSearchers (defined
    outside `src/`) appends, as `push_back` does in the typed searchers.
  - The escort: quest credit in `EndPath`, script events other than through
    their effect on the escort, formations, run and walk.
  - The escort also has findings that no run shows. They are listed as
    hazards:
    - A stopped generator that is finalised also sets `mWPReached`, so
      `UpdatePath` can hand out waypoint 2 before waypoint 1 was reached.
- **Later work:**
  1. `LoadAuctions` discarding an auction whose auctioneer or house is
     missing. It calls `SendAuctionExpiredMail` while every owner is offline,
     and so it reaches the null owner dereference at startup.
  2. The anti-bot window also blocks plain bids, where the spec restricts
     only buyouts. The spec calls the window a quirk to preserve.
