--------------------------- MODULE MCAuctionHouse ---------------------------
(* Three players, so that a bidder can be outbid, and one item that is sold   *)
(* twice.  The width is 22: the price 23 does not fit the entry.              *)
EXTENDS AuctionHouse

CONSTANTS sword

MCPlayers == {"seller", "ann", "bob"}

\* ann can raise her own bid, bob can bid once, the seller after a sale.
MCGold == [p \in MCPlayers |-> CASE p = "ann" -> 43 [] p = "bob" -> 24 [] OTHER -> 1]
=============================================================================
