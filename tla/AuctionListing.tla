--------------------------- MODULE AuctionListing ---------------------------
(***************************************************************************)
(* What the marketplace promises of a Listing (spec.md section 3), as an   *)
(* abstract state machine with no money, mail, houses or crashes:          *)
(*   - a Listing is created with no bidder, under an id never used before, *)
(*     for an item no other live Listing holds;                            *)
(*   - it is mutated only by a bid of someone other than its seller, which *)
(*     raises the current bid and stays below a set buyout;                *)
(*   - it is destroyed (buyout, cancel, expiry) and never comes back.      *)
(* Its item, seller and buyout never change while it lives.  AuctionHouse  *)
(* is shown to implement it by a refinement mapping (AuctionHouse,        *)
(* ImplementsListing).                                                     *)
(***************************************************************************)
EXTENDS Naturals, FiniteSets

CONSTANTS Ids, Items, Players, None

VARIABLES
    listing,    \* id -> [item, owner, bidder, bid, buyout] of the live Listings
    issued      \* the ids handed out so far

vars == <<listing, issued>>

Rec == [item : Items, owner : Players, bidder : Players \cup {None},
        bid : Nat, buyout : Nat]

Init ==
    /\ listing = [id \in {} |-> None]
    /\ issued = {}

Listed == {listing[id].item : id \in DOMAIN listing}

\* The actions constrain the new Listing rather than pick it from a set, so
\* that TLC can check a step of an implementation against them.

\* a Listing is created under a fresh id, for an item not already listed
Create(id) ==
    LET r == listing'[id] IN
    /\ id \notin issued
    /\ DOMAIN listing' = DOMAIN listing \cup {id}
    /\ \A k \in DOMAIN listing : listing'[k] = listing[k]
    /\ r \in Rec
    /\ r.item \notin Listed
    /\ r.bidder = None /\ r.bid = 0
    /\ issued' = issued \cup {id}

\* someone other than the seller raises the bid, below a set buyout
Bid(id) ==
    LET r == listing[id]
        s == listing'[id]
    IN
    /\ id \in DOMAIN listing /\ id \in DOMAIN listing'
    /\ listing' = [listing EXCEPT ![id] = s]
    /\ s = [r EXCEPT !.bidder = s.bidder, !.bid = s.bid]
    /\ s.bidder \in Players \ {r.owner}
    /\ s.bid > r.bid
    /\ r.buyout = 0 \/ s.bid < r.buyout
    /\ UNCHANGED issued

\* one or several Listings end in one step (a buyout, a cancel, a sweep)
Destroy(S) ==
    /\ S # {} /\ S \subseteq DOMAIN listing
    /\ listing' = [id \in DOMAIN listing \ S |-> listing[id]]
    /\ UNCHANGED issued

Next ==
    \/ \E id \in Ids : Create(id)
    \/ \E id \in DOMAIN listing : Bid(id)
    \/ \E S \in SUBSET DOMAIN listing : Destroy(S)

Spec == Init /\ [][Next]_vars

=============================================================================
