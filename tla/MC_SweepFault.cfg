\* generated per run: see README.md, "Runs"
CONSTANTS
    a1 = a1  a2 = a2  b1 = b1  accA = accA  accB = accB
    addrA = addrA  addrB = addrB  i1 = i1  i2 = i2
    hAlliance = hAlliance  hNeutral = hNeutral
    fAlliance = fAlliance  fNeutral = fNeutral
    None = None
    Players <- MCPlayers
    AccountOf <- MCAccountOf
    AddressOf <- MCAddressOf
    Items <- MCItems2
    SellPrice <- MCSellPrice2
    Factions <- MCFactions
    Houses <- MCHouses
    HouseOrder <- MCHouseOrder
    NeutralHouse = hNeutral
    FactionHouse <- MCFactionHouse
    EntryCutPct <- MCEntryCutPct
    EntryDepositPct <- MCEntryDepositPct
    CrossFaction = FALSE
    MaxAuctions = 1
    AuctionTimes = {1}
    MinAuctionTime = 1
    BotWindow = 1
    StartBids = {100}
    Buyouts = {0, 105}
    BidPrices = {100, 105}
    InitGold <- MCInitGold
    InitInventory <- MCInitInventory2
    MaxPowerLosses = 0
    MaxDeletions = 0
    MaxAuctionId = 2
    MaxTime = 3
    MaxGold = 420
    UIntWidth = 16
SPECIFICATION Spec
INVARIANT CustodyConserved
