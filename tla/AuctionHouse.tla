---------------------------- MODULE AuctionHouse ----------------------------
(***************************************************************************)
(* The auction engine of the world server: the auction houses             *)
(* (AuctionHouseObject), the registry that routes to them and holds the   *)
(* item custody table (AuctionHouseMgr), and the request handlers that    *)
(* sell, bid, buy out and cancel (the HandleAuction... methods of       *)
(* WorldSession).                                                          *)
(*                                                                         *)
(* Every handler runs on the single world thread, so each handler is one  *)
(* atomic step.  What is NOT atomic is durability: a handler's own writes *)
(* go into one database transaction committed at its end, but the mails   *)
(* sent through the SendMailTo overload without a transaction argument    *)
(* are committed on their own, earlier.  A crash between the two leaves   *)
(* the database with the mails and without the rest of the handler.  The  *)
(* variables below are the durable state except `aitems`, `online` and    *)
(* the anti-bot timestamps, which live only in memory.                    *)
(*                                                                         *)
(* Mails are a bag of [to, money, item] records: mails that carry neither *)
(* money nor an item (sale pending, notifications) are left out.          *)
(***************************************************************************)
EXTENDS Integers, SequencesExt, BagsExt, AuctionEntry

CONSTANTS
    Players,        \* characters
    AccountOf,      \* [Players -> accounts]
    AddressOf,      \* [Players -> remote addresses]
    Items,          \* item guids
    SellPrice,      \* [Items -> Nat], ItemTemplate::SellPrice times stack count
    Factions,       \* factions of the auctioneers a player can talk to
    Houses,         \* the AuctionHouseObjects
    HouseOrder,     \* the order AuctionHouseMgr::Update sweeps them in
    NeutralHouse,   \* mNeutralAuctions
    FactionHouse,   \* [Factions -> Houses], GetAuctionsMap by faction mask
    EntryCutPct,    \* [Factions -> Nat], AuctionHouseEntry::cutPercent
    EntryDepositPct,\* [Factions -> Nat], faction_pct of GetAuctionDeposit, in %
    CrossFaction,   \* CONFIG_ALLOW_TWO_SIDE_INTERACTION_AUCTION
    MaxAuctions,    \* MAX_AUCTIONS
    AuctionTimes,   \* the accepted etime values, in units of MIN_AUCTION_TIME
    MinAuctionTime, \* MIN_AUCTION_TIME, in ticks
    BotWindow,      \* the 60 seconds of the anti-bot check, in ticks
    StartBids, Buyouts, BidPrices,  \* prices a client may send
    InitGold,       \* [Players -> Nat]
    InitInventory,  \* [Players -> SUBSET Items]
    None,
    MaxPowerLosses, \* bound: deaths of the process other than by a fault
    MaxDeletions,   \* bound: characters deleted
    MaxAuctionId,   \* bound: auction ids handed out by GenerateAuctionID
    MaxTime,        \* bound: game time
    MaxGold         \* bound: a player's gold after taking a mail

ASSUME HouseOrder \in Seq(Houses) /\ ToSet(HouseOrder) = Houses
ASSUME NeutralHouse \in Houses /\ FactionHouse \in [Factions -> Houses]
ASSUME \A p, q \in Players : p # q => InitInventory[p] \cap InitInventory[q] = {}

VARIABLES
    up,         \* the world server process is running
    online,     \* players with a session
    now,        \* GameTime::GetGameTime()
    auctions,   \* auction id -> AuctionEntry, the union of the houses' maps
    nextId,     \* the next id GenerateAuctionID returns
    aitems,     \* AuctionHouseMgr::mAitems, the items in custody
    inventory,  \* items in each player's bags
    gold,       \* each player's money
    mail,       \* bag of mails in the database
    sunk,       \* money the auction house has kept (deposits and cuts)
    powerLosses,\* deaths of the process so far, other than by a fault
    deleted,    \* characters deleted (gone from the character cache)
    lost        \* per character: money and items that went down with it

vars == <<up, online, now, auctions, nextId, aitems, inventory, gold, mail, sunk,
          powerLosses, deleted, lost>>

AuctionIds == 1..MaxAuctionId

Auction == [house : Houses, fac : Factions, owner : Players, item : Items,
            startbid : Nat, bidder : Players \cup {None}, bid : Nat,
            buyout : Nat, expire : Nat, deposit : Nat, depositTime : Nat]

Mail == [to : Players, money : Nat, item : Items \cup {None}]

MoneyMail(p, m) == [to |-> p, money |-> m, item |-> None]
ItemMail(p, i) == [to |-> p, money |-> 0, item |-> i]

-----------------------------------------------------------------------------
(* Arithmetic of AuctionHouseMgr and AuctionEntry.                         *)

\* AuctionHouseMgr::GetAuctionsMap
GetAuctionsMap(f) == IF CrossFaction THEN NeutralHouse ELSE FactionHouse[f]

\* AuctionHouseMgr::GetAuctionDeposit; etime is in units of MIN_AUCTION_TIME
GetAuctionDeposit(f, etime, i) ==
    LET pct == IF CrossFaction THEN 15 ELSE EntryDepositPct[f]
    IN  (SellPrice[i] * pct * etime) \div 100

\* AuctionEntry::GetAuctionCut: 5% with cross-faction trade, else the
\* entry's cutPercent
GetAuctionCut(a) ==
    CutOf(IF CrossFaction THEN 5 ELSE EntryCutPct[a.fac], a.bid)

\* AuctionHouseObject::GetAuctionsCount
GetAuctionsCount(h, p) ==
    Cardinality({id \in DOMAIN auctions :
                    auctions[id].house = h /\ auctions[id].owner = p})

-----------------------------------------------------------------------------
(* Mails the settlement helpers send.                                      *)

\* mutant: the previous bidder is refunded the new price
OutbidMailNewPrice(a, newPrice) == MoneyMail(a.bidder, newPrice)

\* SendAuctionOutbiddedMail: the previous bidder gets back the bid still
\* recorded in the auction
OutbidMail(a, newPrice) == MoneyMail(a.bidder, a.bid)

\* SendAuctionSuccessfulMail: profit = bid + deposit - cut
SuccessfulMail(a) == MoneyMail(a.owner, a.bid + a.deposit - GetAuctionCut(a))

\* SendAuctionWonMail: the item goes to the bidder (committed on its own)
WonMail(a) == ItemMail(a.bidder, a.item)

\* SendAuctionExpiredMail (owner online): the item goes back to the owner
ExpiredMail(a) == ItemMail(a.owner, a.item)

\* the receiver exists, online or offline: `player || player_accId` of the
\* mail helpers, the account id coming from the character cache
Exists(p) == p \notin deleted

\* The mail helpers send a bag B of mails: a mail to an existing character
\* goes to the mail table; for a receiver that no longer exists no mail is
\* sent, and its money and item are gone (the item row is deleted).
Sent(B) == [m \in {m \in DOMAIN B : Exists(m.to)} |-> B[m]]

\* the money and items of the mails of B whose receiver no longer exists
LostAfter(B) ==
    [p \in Players |->
        LET G == {m \in DOMAIN B : m.to = p /\ ~Exists(p)}
        IN  [gold  |-> lost[p].gold + SumFunction([m \in G |-> m.money * B[m]]),
             items |-> lost[p].items \cup ({m.item : m \in G} \ {None})]]

Deliver(B) ==
    /\ mail' = mail (+) Sent(B)
    /\ lost' = LostAfter(B)

\* Send a sequence of mails
Send(s) == Deliver(ToBag(s))

\* The process dies after the first k of the separately committed mails
\* `early` reached the database, before the handler's transaction did.
CrashAfter(early) ==
    /\ powerLosses < MaxPowerLosses
    /\ powerLosses' = powerLosses + 1
    /\ \E k \in 1..Len(early) : Send(SubSeq(early, 1, k))
    /\ up' = FALSE
    /\ online' = {}
    /\ UNCHANGED <<now, auctions, nextId, aitems, inventory, gold, sunk, deleted>>

-----------------------------------------------------------------------------
Init ==
    /\ up = TRUE
    /\ online = {}
    /\ now = BotWindow   \* game time is far past 0, the reload deposit_time
    /\ auctions = [id \in {} |-> None]
    /\ nextId = 1
    /\ aitems = {}
    /\ inventory = InitInventory
    /\ gold = InitGold
    /\ mail = EmptyBag
    /\ sunk = 0
    /\ powerLosses = 0
    /\ deleted = {}
    /\ lost = [p \in Players |-> [gold |-> 0, items |-> {}]]

\* A character enters the world; one character per account is online.
Login(p) ==
    /\ up
    /\ p \notin online /\ p \notin deleted
    /\ \A q \in online : AccountOf[q] # AccountOf[p]
    /\ online' = online \cup {p}
    /\ UNCHANGED <<up, now, auctions, nextId, aitems, inventory, gold, mail,
                   sunk, powerLosses, deleted, lost>>

Logout(p) ==
    /\ p \in online
    /\ online' = online \ {p}
    /\ UNCHANGED <<up, now, auctions, nextId, aitems, inventory, gold, mail,
                   sunk, powerLosses, deleted, lost>>

Tick ==
    /\ now < MaxTime
    /\ now' = now + 1
    /\ UNCHANGED <<up, online, auctions, nextId, aitems, inventory, gold,
                   mail, sunk, powerLosses, deleted, lost>>

-----------------------------------------------------------------------------
(* WorldSession::HandleAuctionSellItem.  Every rejection returns before    *)
(* anything is changed, so the rejections are the guard.                   *)

\* mutant: the custody table is not consulted
AlreadyInAuctionUnchecked(i) == FALSE

\* the item is already in another auction (GetAItem)
AlreadyInAuction(i) == i \in aitems

HandleAuctionSellItem(p, f, i, bid, buyout, etime) ==
    LET house   == GetAuctionsMap(f)
        deposit == GetAuctionDeposit(f, etime, i)
    IN
    /\ up /\ p \in online
    /\ bid # 0
    /\ ~(GetAuctionsCount(house, p) > MaxAuctions)
    /\ ~AlreadyInAuction(i)
    /\ i \in inventory[p]               \* GetItemByGuid
    /\ gold[p] >= deposit
    /\ nextId <= MaxAuctionId
    /\ gold' = [gold EXCEPT ![p] = @ - deposit]
    /\ auctions' = auctions @@ (nextId :>
            [house |-> house, fac |-> f, owner |-> p, item |-> i,
             startbid |-> bid, bidder |-> None, bid |-> 0, buyout |-> buyout,
             expire |-> now + etime * MinAuctionTime, deposit |-> deposit,
             depositTime |-> now])
    /\ nextId' = nextId + 1
    /\ aitems' = aitems \cup {i}        \* AddAItem
    /\ inventory' = [inventory EXCEPT ![p] = @ \ {i}]
    /\ UNCHANGED <<up, online, now, mail, sunk, powerLosses, deleted, lost>>

-----------------------------------------------------------------------------
(* WorldSession::HandleAuctionPlaceBid                                      *)

\* mutant: only the owning character itself is refused
CannotBidOwnCharacter(a, p) == a.owner = p

\* mutant: only another character of the offline owner's account is refused
CannotBidAltOnly(a, p) ==
    a.owner \notin online /\ AccountOf[a.owner] = AccountOf[p]

\* the owner, or (owner offline) another character of the owner's account
CannotBidOwnAuction(a, p) ==
    \/ a.owner = p
    \/ a.owner \notin online /\ AccountOf[a.owner] = AccountOf[p]

\* AH bot protection: early after the deposit, only the owner's address
BotProtected(a, p) ==
    /\ a.depositTime + BotWindow > now
    /\ a.owner \in online
    /\ AddressOf[a.owner] # AddressOf[p]

\* the bid is a plain raise, not a buyout
IsRaise(a, price) == price < a.buyout \/ a.buyout = 0

\* price too low for the next bid if not buyout
TooLowForNextBid(a, price) ==
    IsRaise(a, price) /\ price < a.bid + GetAuctionOutBid(a.bid)

CanPlaceBid(p, f, id, price) ==
    /\ up /\ p \in online
    /\ price # 0
    /\ id \in DOMAIN auctions
    /\ auctions[id].house = GetAuctionsMap(f)
    /\ ~CannotBidOwnAuction(auctions[id], p)
    /\ ~BotProtected(auctions[id], p)
    /\ price > auctions[id].bid         \* cheating
    /\ ~TooLowForNextBid(auctions[id], price)
    /\ price <= gold[p]

\* money taken from the bidder: only the difference if already the bidder
BidCharge(a, p, amount) == IF a.bidder = p THEN amount - a.bid ELSE amount

\* mutant: the outbid mail is sent without checking there was a bidder
OutbidMailsToAnyone(a, p, amount) ==
    IF a.bidder # p THEN <<OutbidMail(a, amount)>> ELSE <<>>

\* the outbid mail to a previous, different bidder
OutbidMails(a, p, amount) ==
    IF a.bidder \notin {None, p} THEN <<OutbidMail(a, amount)>> ELSE <<>>

PlaceBidRaise(p, f, id, price) ==
    LET a == auctions[id] IN
    /\ CanPlaceBid(p, f, id, price)
    /\ IsRaise(a, price)
    /\ \/ /\ gold' = [gold EXCEPT ![p] = @ - BidCharge(a, p, price)]
          /\ auctions' = [auctions EXCEPT ![id].bidder = p, ![id].bid = price]
          /\ Send(OutbidMails(a, p, price))
          /\ UNCHANGED <<up, online, now, nextId, aitems, inventory, sunk,
                         powerLosses, deleted>>
       \/ CrashAfter(OutbidMails(a, p, price))

PlaceBidBuyout(p, f, id, price) ==
    LET a    == auctions[id]
        sold == [a EXCEPT !.bidder = p, !.bid = a.buyout]
        early == OutbidMails(a, p, a.buyout) \o <<WonMail(sold)>>
    IN
    /\ CanPlaceBid(p, f, id, price)
    /\ ~IsRaise(a, price)
    /\ \/ /\ gold' = [gold EXCEPT ![p] = @ - BidCharge(a, p, a.buyout)]
          /\ Send(early \o <<SuccessfulMail(sold)>>)
          /\ auctions' = Restrict(auctions, DOMAIN auctions \ {id})
          /\ aitems' = aitems \ {a.item}
          /\ sunk' = sunk + GetAuctionCut(sold)
          /\ UNCHANGED <<up, online, now, nextId, inventory, powerLosses, deleted>>
       \/ CrashAfter(early)

-----------------------------------------------------------------------------
(* WorldSession::HandleAuctionRemoveItem, the owner cancels.               *)

\* SendAuctionCancelledToBidderMail
CancelledToBidderMail(a) == MoneyMail(a.bidder, a.bid)

\* the penalty the owner pays when the auction has a bidder
CancelCut(a) == IF a.bidder # None THEN GetAuctionCut(a) ELSE 0

HandleAuctionRemoveItem(p, f, id) ==
    LET a     == auctions[id]
        early == (IF a.bidder # None THEN <<CancelledToBidderMail(a)>> ELSE <<>>)
                    \o <<ItemMail(p, a.item)>>
    IN
    /\ up /\ p \in online
    /\ id \in DOMAIN auctions
    /\ a.house = GetAuctionsMap(f)
    /\ a.owner = p
    /\ a.item \in aitems                \* else AUCTION_INTERNAL_ERROR
    /\ gold[p] >= CancelCut(a)
    /\ \/ /\ gold' = [gold EXCEPT ![p] = @ - CancelCut(a)]
          /\ Send(early)
          /\ auctions' = Restrict(auctions, DOMAIN auctions \ {id})
          /\ aitems' = aitems \ {a.item}
          /\ sunk' = sunk + a.deposit + CancelCut(a)
          /\ UNCHANGED <<up, online, now, nextId, inventory, powerLosses, deleted>>
       \/ CrashAfter(early)

-----------------------------------------------------------------------------
(* AuctionHouseMgr::Update: the sweep of every house (AuctionHouseObject::*)
(* Update), in HouseOrder, each house by ascending auction id, each house  *)
(* committing its own transaction.                                         *)

HouseRank(h) == CHOOSE k \in 1..Len(HouseOrder) : HouseOrder[k] = h

\* auction x is visited by the sweep before auction y
SweptBefore(x, y) ==
    LET hx == HouseRank(auctions[x].house)
        hy == HouseRank(auctions[y].house)
    IN  hx < hy \/ (hx = hy /\ x < y)

\* curTime > expire_time
Expired == {id \in DOMAIN auctions : now > auctions[id].expire}

\* SendAuctionExpiredMail with an offline owner evaluates owner->GetGUIDLow()
\* on the null `owner`: the process dies with a segmentation fault.
NullOwnerFaults == {id \in Expired : /\ auctions[id].bidder = None
                                      /\ auctions[id].owner \notin online}

\* the mails settling one expired auction
SettleMails(a) ==
    IF a.bidder = None THEN <<ExpiredMail(a)>>
                       ELSE <<SuccessfulMail(a), WonMail(a)>>

\* the mails settling the auctions S, and the won mails of the auctions W
SettleBag(S) == FoldSet(LAMBDA id, B : B (+) ToBag(SettleMails(auctions[id])),
                        EmptyBag, S)
WonBag(W) == FoldSet(LAMBDA id, B : B (+) ToBag(<<WonMail(auctions[id])>>),
                     EmptyBag, W)

\* the won mails of W that reach the database before the transaction: for a
\* bidder that no longer exists the item row is deleted in the transaction
CommittedWon(W) == {id \in W : Exists(auctions[id].bidder)}

\* what the house keeps: the deposit of an unsold auction, the cut of a sale
Kept(a) == IF a.bidder = None THEN a.deposit ELSE GetAuctionCut(a)

\* the auctions S settled: mailed, deleted from the houses and from custody
Settle(S) ==
    /\ auctions' = Restrict(auctions, DOMAIN auctions \ S)
    /\ aitems' = aitems \ {auctions[id].item : id \in S}
    /\ Deliver(SettleBag(S))
    /\ sunk' = sunk + MapThenSumSet(LAMBDA id : Kept(auctions[id]), S)

UpdateSettle ==
    /\ up
    /\ Expired # {}
    /\ NullOwnerFaults = {}
    /\ Settle(Expired)
    /\ UNCHANGED <<up, online, now, nextId, inventory, gold, powerLosses, deleted>>

\* The sweep reaches the first faulting auction c: houses swept before c's
\* are committed; in c's house only the won mails of the sold auctions
\* before c were committed (SendMailTo without a transaction).
UpdateFault ==
    LET c    == CHOOSE c \in NullOwnerFaults :
                    \A d \in NullOwnerFaults \ {c} : SweptBefore(c, d)
        done == {id \in Expired : HouseRank(auctions[id].house)
                                     < HouseRank(auctions[c].house)}
        won  == {id \in Expired : /\ auctions[id].house = auctions[c].house
                                   /\ id < c
                                   /\ auctions[id].bidder # None}
    IN
    /\ up
    /\ NullOwnerFaults # {}
    /\ auctions' = Restrict(auctions, DOMAIN auctions \ done)
    /\ aitems' = aitems \ {auctions[id].item : id \in done}
    /\ Deliver(SettleBag(done) (+) WonBag(CommittedWon(won)))
    /\ sunk' = sunk + MapThenSumSet(LAMBDA id : Kept(auctions[id]), done)
    /\ up' = FALSE
    /\ online' = {}
    /\ UNCHANGED <<now, nextId, inventory, gold, powerLosses, deleted>>

AuctionHouseMgrUpdate == UpdateSettle \/ UpdateFault

-----------------------------------------------------------------------------
(* Character deletion: Player::DeleteFromDB (not in the repository) calls  *)
(* AuctionHouseMgr::RemoveAllAuctionsOf, which runs AuctionHouseObject::   *)
(* RemoveAllAuctionsOf on every house in the sweep's order, with one      *)
(* transaction for all of them, while the character is still in the       *)
(* character cache; the character, its money, bags and mails are deleted  *)
(* in the same transaction.  An unsold auction is returned with            *)
(* SendAuctionExpiredMail, which dereferences the null `owner` of the      *)
(* offline character as in the sweep; a sold one is settled with           *)
(* SendAuctionSuccessfulMail and SendAuctionWonMail, whose won mail is     *)
(* committed on its own.                                                   *)

\* the auctions of p and the first of them that faults, in sweep order
AuctionsOf(p) == {id \in DOMAIN auctions : auctions[id].owner = p}
UnsoldOf(p) == {id \in AuctionsOf(p) : auctions[id].bidder = None}

\* all auctions of p are settled, then the character is deleted
RemoveAllAuctionsOf(p) ==
    LET S == AuctionsOf(p)
    IN
    /\ UnsoldOf(p) = {}
    /\ auctions' = Restrict(auctions, DOMAIN auctions \ S)
    /\ aitems' = aitems \ {auctions[id].item : id \in S}
    /\ sunk' = sunk + MapThenSumSet(LAMBDA id : Kept(auctions[id]), S)
    /\ UNCHANGED <<up, online, now, nextId, powerLosses>>

\* the first unsold auction c faults; the won mails of the sold auctions
\* of p swept before it were committed, nothing else was
RemoveAllAuctionsOfFault(p) ==
    LET c == CHOOSE c \in UnsoldOf(p) :
                 \A d \in UnsoldOf(p) \ {c} : SweptBefore(c, d)
        won == {id \in AuctionsOf(p) \ UnsoldOf(p) : SweptBefore(id, c)}
    IN
    /\ UnsoldOf(p) # {}
    /\ Deliver(WonBag(CommittedWon(won)))
    /\ up' = FALSE
    /\ online' = {}
    /\ UNCHANGED <<now, auctions, nextId, aitems, inventory, gold, sunk,
                   powerLosses, deleted>>

\* a character of an account with no character in the world is deleted;
\* its money, bags and mails, the profit mails just sent to it included,
\* are deleted with it
DeleteCharacter(p) ==
    /\ up
    /\ Cardinality(deleted) < MaxDeletions
    /\ p \notin deleted
    /\ \A q \in online : AccountOf[q] # AccountOf[p]
    /\ \/ LET B    == SettleBag(AuctionsOf(p))
                M    == mail (+) Sent(B)
                mine == {m \in DOMAIN M : m.to = p}
                l    == LostAfter(B)
          IN  /\ RemoveAllAuctionsOf(p)
              /\ mail' = [m \in DOMAIN M \ mine |-> M[m]]
              /\ lost' = [l EXCEPT ![p] =
                     [gold  |-> @.gold + gold[p]
                                + SumFunction([m \in mine |-> m.money * M[m]]),
                      items |-> @.items \cup inventory[p]
                                \cup ({m.item : m \in mine} \ {None})]]
              /\ deleted' = deleted \cup {p}
              /\ gold' = [gold EXCEPT ![p] = 0]
              /\ inventory' = [inventory EXCEPT ![p] = {}]
       \/ RemoveAllAuctionsOfFault(p)

-----------------------------------------------------------------------------
(* Process death and restart.                                              *)

\* the process dies between two handlers
Crash ==
    /\ powerLosses < MaxPowerLosses
    /\ up
    /\ powerLosses' = powerLosses + 1
    /\ up' = FALSE
    /\ online' = {}
    /\ UNCHANGED <<now, auctions, nextId, aitems, inventory, gold, mail, sunk,
                   deleted, lost>>

\* LoadAuctionItems then LoadAuctions: custody is rebuilt from the auction
\* rows, and deposit_time is reset to 0
Restart ==
    /\ ~up
    /\ up' = TRUE
    /\ aitems' = {auctions[id].item : id \in DOMAIN auctions}
    /\ auctions' = [id \in DOMAIN auctions |->
                        [auctions[id] EXCEPT !.depositTime = 0]]
    /\ UNCHANGED <<online, now, nextId, inventory, gold, mail, sunk,
                   powerLosses, deleted, lost>>

\* The mail system (not part of the auction code): a player takes a mail's
\* money and item.
TakeMail(p, m) ==
    /\ up /\ p \in online
    /\ m \in DOMAIN mail /\ m.to = p
    /\ gold[p] + m.money <= MaxGold
    /\ gold' = [gold EXCEPT ![p] = @ + m.money]
    /\ inventory' = [inventory EXCEPT ![p] =
                        IF m.item = None THEN @ ELSE @ \cup {m.item}]
    /\ mail' = BagRemove(mail, m)
    /\ UNCHANGED <<up, online, now, auctions, nextId, aitems, sunk,
                   powerLosses, deleted, lost>>

-----------------------------------------------------------------------------
Next ==
    \/ \E p \in Players : Login(p) \/ Logout(p)
    \/ Tick
    \/ \E p \in Players, f \in Factions, i \in Items, bid \in StartBids,
          buyout \in Buyouts, etime \in AuctionTimes :
            HandleAuctionSellItem(p, f, i, bid, buyout, etime)
    \/ \E p \in Players, f \in Factions, id \in AuctionIds, price \in BidPrices :
            PlaceBidRaise(p, f, id, price) \/ PlaceBidBuyout(p, f, id, price)
    \/ \E p \in Players, f \in Factions, id \in AuctionIds :
            HandleAuctionRemoveItem(p, f, id)
    \/ AuctionHouseMgrUpdate
    \/ \E p \in Players : DeleteCharacter(p)
    \/ Crash
    \/ Restart
    \/ \E p \in Players : \E m \in DOMAIN mail : TakeMail(p, m)

\* The sweep runs on every world tick and a dead server is restarted; the
\* players owe nothing.
Fairness == WF_vars(AuctionHouseMgrUpdate) /\ WF_vars(Restart)

Spec == Init /\ [][Next]_vars /\ Fairness

-----------------------------------------------------------------------------
(* Properties                                                              *)

TypeOK ==
    /\ up \in BOOLEAN
    /\ online \subseteq Players
    /\ now \in 0..MaxTime
    /\ DOMAIN auctions \subseteq AuctionIds
    /\ \A id \in DOMAIN auctions : auctions[id] \in Auction
    /\ nextId \in 1..MaxAuctionId + 1
    /\ aitems \subseteq Items
    /\ inventory \in [Players -> SUBSET Items]
    /\ gold \in [Players -> Nat]
    /\ IsABag(mail) /\ DOMAIN mail \subseteq Mail
    /\ sunk \in Nat
    /\ powerLosses \in 0..MaxPowerLosses
    /\ deleted \subseteq Players
    /\ lost \in [Players -> [gold : Nat, items : SUBSET Items]]

\* Money is conserved across bids, refunds, buyouts, cancellations, the
\* sweep and restarts: what the players hold, what the auctions hold (bids
\* and deposits), what the mails carry and what the house kept always add up
\* to the money the world started with, once what went to deleted
\* characters is counted.  A wrong refund amount, a charge of
\* the full price to a bidder raising their own bid, or a mail committed
\* without the rest of its handler breaks it.
MoneyConserved ==
    LET inAuctions == MapThenSumSet(LAMBDA id : auctions[id].bid
                                                + auctions[id].deposit,
                                    DOMAIN auctions)
        inMail     == SumFunction([m \in DOMAIN mail |-> m.money * mail[m]])
        gone       == SumFunction([p \in Players |-> lost[p].gold])
    IN  SumFunction(gold) + inAuctions + inMail + sunk + gone
            = SumFunction(InitGold)

\* No auction is ever won by a character of its owner's account: the
\* self-bid check of HandleAuctionPlaceBid (same character, or the owner
\* offline and the bidder on the owner's account) together with the one-
\* character-per-account login rule must exclude every such bid.
NoBidOnOwnAccount ==
    \A id \in DOMAIN auctions :
        auctions[id].bidder # None =>
            AccountOf[auctions[id].bidder] # AccountOf[auctions[id].owner]

\* While the server is up, every listed item is in the custody table and
\* no item is listed by two auctions.  A sell of an item that a crash left
\* both in an auction and in a player's bags is what the custody check of
\* HandleAuctionSellItem must refuse; the restart must rebuild the table.
ListedItemsInCustody ==
    up => /\ \A id \in DOMAIN auctions : auctions[id].item \in aitems
          /\ \A x, y \in DOMAIN auctions :
                x # y => auctions[x].item # auctions[y].item

\* Every item is in exactly one place: a player's bags, an auction, or one
\* mail.  Spec: "itemRef belongs to exactly one Listing at a time" and the
\* custody conservation test countListed + countInInventory +
\* countInTransitViaMail = 1.
CustodyConserved ==
    \A i \in Items :
        LET inBags    == Cardinality({p \in Players : i \in inventory[p]})
            listed    == Cardinality({id \in DOMAIN auctions : auctions[id].item = i})
            inTransit == SumFunction([m \in {m \in DOMAIN mail : m.item = i} |-> mail[m]])
            gone      == Cardinality({p \in Players : i \in lost[p].items})
        IN  inBags + listed + inTransit + gone = 1

\* Every auction that has expired is eventually settled and deleted by the
\* sweep of AuctionHouseMgr::Update (spec 4.5), given that the sweep runs on
\* every tick and a dead server is restarted.
ExpiredAuctionsSettle ==
    \A id \in AuctionIds :
        (id \in DOMAIN auctions /\ now > auctions[id].expire)
            ~> id \notin DOMAIN auctions

\* The auctions as the abstract Listings of AuctionListing: the live entries
\* with their item, seller, bidder, bid and buyout, and the ids that
\* GenerateAuctionID has handed out.
Listing == INSTANCE AuctionListing WITH
    Ids <- AuctionIds,
    listing <- [id \in DOMAIN auctions |->
                    [item |-> auctions[id].item, owner |-> auctions[id].owner,
                     bidder |-> auctions[id].bidder, bid |-> auctions[id].bid,
                     buyout |-> auctions[id].buyout]],
    issued <- 1..nextId - 1

\* The handlers, the sweep, the crashes and the reload together implement
\* the Listing lifecycle of the spec: a fresh id and an unlisted item at
\* creation, bids only by others and only upwards below the buyout, item,
\* seller and buyout fixed, and no Listing brought back once it ends.
ImplementsListing == Listing!Spec

=============================================================================
