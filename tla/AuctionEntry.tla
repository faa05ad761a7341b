---------------------------- MODULE AuctionEntry ----------------------------
(***************************************************************************)
(* The arithmetic of one listing (AuctionEntry): the cut the house keeps  *)
(* and the smallest raise of a bid.  All amounts are uint32 in the code;  *)
(* UIntWidth is their width.  TLC's integers are 32-bit signed, so the    *)
(* models take a smaller width and scale the inputs with it: what matters *)
(* is where a product leaves the range, not the number 32.               *)
(*                                                                         *)
(* GetAuctionCut computes cutPercent * bid in uint32, then multiplies by  *)
(* the float rate (1.0 here) and divides by 100.f.  Below 2^24 the float  *)
(* steps are exact up to the truncation, which the \div reproduces.       *)
(***************************************************************************)
EXTENDS Integers

CONSTANT UIntWidth

\* the value of an unsigned integer expression of width UIntWidth
UInt(x) == x % (2 ^ UIntWidth)

\* AuctionEntry::GetAuctionCut after the choice of cutPercent
CutOf(cutPercent, bid) == UInt(cutPercent * bid) \div 100

\* AuctionEntry::GetAuctionOutBid: (1% of the bid) * 5, at least 1
GetAuctionOutBid(bid) ==
    IF UInt((bid \div 100) * 5) = 0 THEN 1 ELSE UInt((bid \div 100) * 5)
=============================================================================
