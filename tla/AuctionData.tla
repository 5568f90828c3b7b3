----------------------------- MODULE AuctionData -----------------------------
(***************************************************************************)
(* The values of src/auction.rs: an auction, its bids, and the functions   *)
(* that change a copy of it.  Everything here is sequential code that runs *)
(* on one copy; who holds which copy is the business of the state machines *)
(* that extend this module.                                                *)
(*                                                                         *)
(* An auction key is the SHA-256 of object, initial value and seller       *)
(* written one after the other.  The items the automation offers end in a  *)
(* letter, so for them a key determines those three: a record keeps the    *)
(* key only, and SellerOf and InitialValue give what the key was derived   *)
(* from.  (A one-shot command can name an object that ends in digits: two  *)
(* of a seller's offers may then share a key, which is not modelled.)      *)
(* created_at is never read and is left out; a bid's `auction' field       *)
(* always repeats the key and is left out too.                             *)
(***************************************************************************)
EXTENDS Integers, Sequences, FiniteSetsExt

CONSTANTS
    Address,        \* node identities (hashes of public keys)
    Key,            \* auction keys
    SellerOf,       \* the seller a key was derived from
    InitialValue,   \* the initial value a key was derived from
    None            \* Option::None

ASSUME AuctionAssumption ==
    /\ SellerOf \in [Key -> Address]
    /\ InitialValue \in [Key -> Nat]
    /\ None \notin Address
    /\ None \notin Nat

Bid == [buyer : Address, amount : Nat]

AuctionStatus == {"open", "closed"}

Auction == [key         : Key,
            bids        : Seq(Bid),
            status      : AuctionStatus,
            ends_at     : Int,
            winner      : Address \cup {None},
            winning_bid : Nat \cup {None}]

----------------------------------------------------------------------------

\* A new offer: open, no bids, ending duration after now.
new_with_duration(key, now, duration) ==
    [key |-> key, bids |-> <<>>, status |-> "open", ends_at |-> now + duration,
     winner |-> None, winning_bid |-> None]

Amounts(a) == {a.bids[i].amount : i \in DOMAIN a.bids}

\* The current price: the highest bid, or the initial value before any bid.
highest_bid_amount(a) ==
    IF a.bids = <<>> THEN InitialValue[a.key] ELSE Max(Amounts(a))

\* When place_bid does not return an error.
AcceptsBid(a, amount, now) ==
    /\ a.status = "open"
    /\ now < a.ends_at
    /\ amount > highest_bid_amount(a)

\* The copy place_bid leaves behind when it accepts.
place_bid(a, buyer, amount) ==
    [a EXCEPT !.bids = Append(@, [buyer |-> buyer, amount |-> amount])]

\* Mutation: only an auction with bids is closed.
Expired_NeedsBids(a, now) ==
    a.status = "open" /\ now >= a.ends_at /\ a.bids # <<>>

\* When close_if_expired returns true.
Expired(a, now) == a.status = "open" /\ now >= a.ends_at

\* Mutation: the first bid wins.
WinningIndex_First(a) == 1

\* Iterator::max_by_key returns the last of several maximal elements.
WinningIndex(a) ==
    CHOOSE i \in DOMAIN a.bids :
        \A j \in DOMAIN a.bids :
            /\ a.bids[j].amount <= a.bids[i].amount
            /\ j > i => a.bids[j].amount < a.bids[i].amount

\* The copy close_if_expired leaves behind when it returns true.
close_auction(a) ==
    IF a.bids = <<>>
    THEN [a EXCEPT !.status = "closed"]
    ELSE [a EXCEPT !.status = "closed",
                   !.winner = a.bids[WinningIndex(a)].buyer,
                   !.winning_bid = a.bids[WinningIndex(a)].amount]

close_if_expired(a, now) == IF Expired(a, now) THEN close_auction(a) ELSE a

\* The copy a peer decodes from the protobuf encoding of a: an absent winning
\* bid travels as 0, so a winning bid of 0 would come back as absent.
OverTheWire(a) ==
    [a EXCEPT !.winning_bid = IF @ = 0 THEN None ELSE @]

\* What the if-let of store_auction and close_expired_auctions tests.
HasWinner(a) == a.winner # None /\ a.winning_bid # None

----------------------------------------------------------------------------

\* Every bid beats the initial value and all bids before it.
BidsRise(a) ==
    \A i \in DOMAIN a.bids :
        /\ a.bids[i].amount > InitialValue[a.key]
        /\ \A j \in DOMAIN a.bids : j < i => a.bids[j].amount < a.bids[i].amount

\* A winner is named exactly on a closed auction with bids, and it is the
\* bidder of the highest, which is the last, bid.
WinnerIsHighestBidder(a) ==
    IF a.status = "closed" /\ a.bids # <<>>
    THEN LET last == a.bids[Len(a.bids)] IN
         a.winner = last.buyer /\ a.winning_bid = last.amount
    ELSE a.winner = None /\ a.winning_bid = None

\* What every copy of an auction looks like, wherever it is held.
WellFormed(a) == BidsRise(a) /\ WinnerIsHighestBidder(a)
=============================================================================
