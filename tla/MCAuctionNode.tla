---------------------------- MODULE MCAuctionNode ----------------------------
(***************************************************************************)
(* Small instances of AuctionNode: two auctions, the copies of them that   *)
(* up to two bids produce, and the ledger file an earlier process left,    *)
(* with the win of a third auction.                                        *)
(***************************************************************************)
EXTENDS AuctionNode

CONSTANTS n1, n2, n3, k1, k2, k3

MCAddress == {n1, n2, n3}
MCKey == {k1, k2, k3}
MCSellerOf == k1 :> n1 @@ k2 :> n2 @@ k3 :> n1
MCInitialValue == k1 :> 0 @@ k2 :> 1 @@ k3 :> 0

\* Auctions end at time 1; the clock reads 0 (open) or 1 (expired).
MCTime == {0, 1}

Raised(copies, buyer, amount) ==
    {place_bid(a, buyer, amount) : a \in {c \in copies : AcceptsBid(c, amount, 0)}}

\* k1 with no bid, one bid and two bids, among them two bids that were placed on
\* the same copy by different bidders; k2 with no bid and with one bid.
OpenCopies ==
    LET offer1 == {new_with_duration(k1, 0, 1)}
        offer2 == {new_with_duration(k2, 0, 1)}
        first == Raised(offer1, n2, 1)
    IN offer1 \cup first \cup Raised(offer1 \cup first, n3, 2)
       \cup offer2 \cup Raised(offer2, n3, 2)

MCVersion == OpenCopies \cup {close_if_expired(a, 1) : a \in OpenCopies}

Won(key, winner, amount) ==
    [auction |-> key, sender |-> winner, recipient |-> MCSellerOf[key],
     amount |-> amount]

\* n1 has one point as the seller of k3.
OneBlock ==
    <<[index |-> 0, previous_hash |-> <<>>, transaction |-> Won(k3, n2, 1)]>>
=============================================================================
