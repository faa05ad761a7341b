-------------------------- MODULE MC_AuctionHouse --------------------------
(***************************************************************************)
(* A small world for AuctionHouse: two characters a1, a2 of one account   *)
(* and address, a character b1 of another, two items, an alliance house  *)
(* and the neutral house.  Prices are chosen around 100 so that the      *)
(* outbid increment (5 from 100 on) and the cuts (5% and 15%) are not 0.  *)
(***************************************************************************)
EXTENDS AuctionHouse

CONSTANTS a1, a2, b1, accA, accB, addrA, addrB, i1, i2,
          hAlliance, hNeutral, fAlliance, fNeutral

MCPlayers == {a1, a2, b1}
MCAccountOf == (a1 :> accA) @@ (a2 :> accA) @@ (b1 :> accB)
MCAddressOf == (a1 :> addrA) @@ (a2 :> addrA) @@ (b1 :> addrB)
MCItems == {i1}
MCSellPrice == [i \in MCItems |-> 20]
MCFactions == {fAlliance, fNeutral}
MCHouses == {hAlliance, hNeutral}
MCHouseOrder == <<hAlliance, hNeutral>>
MCFactionHouse == (fAlliance :> hAlliance) @@ (fNeutral :> hNeutral)
MCEntryCutPct == (fAlliance :> 5) @@ (fNeutral :> 15)
MCEntryDepositPct == (fAlliance :> 15) @@ (fNeutral :> 75)
MCInitGold == [p \in MCPlayers |-> 210]
MCInitInventory == (a1 :> {i1}) @@ (a2 :> {}) @@ (b1 :> {})


\* a second item, b1's, for the runs that need two auctions at once
MCItems2 == {i1, i2}
MCSellPrice2 == [i \in MCItems2 |-> 20]
MCInitInventory2 == (a1 :> {i1}) @@ (a2 :> {}) @@ (b1 :> {i2})

\* a vendor price at which the deposit exceeds the cut of a sale at 100
MCSellPriceHigh == [i \in MCItems |-> 40]
=============================================================================
