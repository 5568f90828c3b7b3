---------------------------- MODULE LedgerProofs ----------------------------
(***************************************************************************)
(* What the functions on copies of auctions preserve, and what appending a *)
(* win to a ledger preserves: the lemmas about AuctionData and Ledger that *)
(* the proofs about the state machines cite.                               *)
(***************************************************************************)
EXTENDS Ledger, FiniteSetTheorems, SequenceTheorems, WellFoundedInduction, TLAPS

----------------------------------------------------------------------------
(* Copies *)

\* The bids of a copy are numbered from 1 and have natural amounts.
LEMMA BidTypes ==
    ASSUME NEW a \in Auction
    PROVE  /\ a.bids \in Seq(Bid)
           /\ DOMAIN a.bids = 1 .. Len(a.bids) /\ Len(a.bids) \in Nat
           /\ \A i \in DOMAIN a.bids : a.bids[i] \in Bid /\ a.bids[i].amount \in Nat
<1>1. a.bids \in Seq(Bid) /\ DOMAIN a.bids = 1 .. Len(a.bids) /\ Len(a.bids) \in Nat
  BY DEF Auction
<1>2. \A i \in DOMAIN a.bids : a.bids[i] \in Bid
  BY <1>1
<1> QED
  BY <1>1, <1>2 DEF Bid

\* On rising bids max_by_key picks the last bid, though the code looks for the
\* highest one: place_bid refuses whatever is not higher.
LEMMA WinningIndexIsLast ==
    ASSUME NEW a \in Auction, BidsRise(a), a.bids # <<>>
    PROVE  WinningIndex(a) = Len(a.bids)
<1> DEFINE Wins(i) ==
        \A j \in DOMAIN a.bids :
            /\ a.bids[j].amount <= a.bids[i].amount
            /\ j > i => a.bids[j].amount < a.bids[i].amount
<1>1. a.bids \in Seq(Bid) /\ DOMAIN a.bids = 1 .. Len(a.bids) /\ Len(a.bids) \in Nat \ {0}
  BY BidTypes
<1>2. \A i \in DOMAIN a.bids : a.bids[i].amount \in Nat
  BY BidTypes
<1>3. \A i, j \in DOMAIN a.bids : j < i => a.bids[j].amount < a.bids[i].amount
  BY DEF BidsRise
<1>4. Len(a.bids) \in DOMAIN a.bids
  BY <1>1
<1>5. Wins(Len(a.bids))
  BY <1>1, <1>2, <1>3, <1>4
<1>6. \A i \in DOMAIN a.bids : Wins(i) => i = Len(a.bids)
  <2> SUFFICES ASSUME NEW i \in DOMAIN a.bids, Wins(i), i # Len(a.bids) PROVE FALSE
    OBVIOUS
  <2>1. i < Len(a.bids)
    BY <1>1
  <2>2. a.bids[i].amount < a.bids[Len(a.bids)].amount
    BY <2>1, <1>3, <1>4
  <2>3. a.bids[Len(a.bids)].amount <= a.bids[i].amount
    BY <1>4
  <2> QED
    BY <2>2, <2>3, <1>2, <1>4
<1> HIDE DEF Wins
<1>7. WinningIndex(a) = CHOOSE i \in DOMAIN a.bids : Wins(i)
  BY DEF WinningIndex, Wins
<1> QED
  BY <1>4, <1>5, <1>6, <1>7

\* Closing a well-formed open copy leaves a well-formed copy of the same auction.
LEMMA CloseIsWellFormed ==
    ASSUME NEW a \in Auction, WellFormed(a), a.status = "open"
    PROVE  /\ close_auction(a) \in Auction
           /\ WellFormed(close_auction(a))
           /\ close_auction(a).key = a.key
<1>1. CASE a.bids = <<>>
  BY <1>1 DEF close_auction, Auction, AuctionStatus, WellFormed, BidsRise,
              WinnerIsHighestBidder
<1>2. CASE a.bids # <<>>
  <2> DEFINE last == a.bids[Len(a.bids)]
  <2>1. BidsRise(a)
    BY DEF WellFormed
  <2>2. close_auction(a) = [a EXCEPT !.status = "closed", !.winner = last.buyer,
                                     !.winning_bid = last.amount]
    BY <1>2, <2>1, WinningIndexIsLast DEF close_auction
  <2>3. last \in Bid
    BY <1>2 DEF Auction
  <2>4. close_auction(a) \in Auction
    BY <2>2, <2>3 DEF Auction, AuctionStatus, Bid
  <2>5. BidsRise(close_auction(a))
    BY <2>1, <2>2 DEF BidsRise, Auction
  <2>6. WinnerIsHighestBidder(close_auction(a))
    BY <1>2, <2>2 DEF WinnerIsHighestBidder, Auction
  <2>7. close_auction(a).key = a.key
    BY <2>2 DEF Auction
  <2> QED
    BY <2>4, <2>5, <2>6, <2>7 DEF WellFormed
<1> QED
  BY <1>1, <1>2

\* So does close_if_expired, whatever the clock reads.
LEMMA CloseIfExpiredIsWellFormed ==
    ASSUME NEW a \in Auction, NEW now \in Int, WellFormed(a)
    PROVE  /\ close_if_expired(a, now) \in Auction
           /\ WellFormed(close_if_expired(a, now))
           /\ close_if_expired(a, now).key = a.key
BY CloseIsWellFormed DEF close_if_expired, Expired

\* A winning bid beats the initial value, so it is never the 0 that the
\* protobuf encoding uses for its absence.
LEMMA WireKeepsWellFormed ==
    ASSUME NEW a \in Auction, WellFormed(a)
    PROVE  OverTheWire(a) = a
<1>1. a.winning_bid # 0
  <2>1. CASE a.status = "closed" /\ a.bids # <<>>
    <3> DEFINE last == Len(a.bids)
    <3>1. last \in DOMAIN a.bids /\ a.bids[last] \in Bid
      BY <2>1 DEF Auction
    <3>2. a.bids[last].amount > InitialValue[a.key] /\ a.winning_bid = a.bids[last].amount
      BY <2>1, <3>1 DEF WellFormed, BidsRise, WinnerIsHighestBidder
    <3>3. InitialValue[a.key] \in Nat
      BY AuctionAssumption DEF Auction
    <3> QED
      BY <3>1, <3>2, <3>3 DEF Bid
  <2>2. CASE ~(a.status = "closed" /\ a.bids # <<>>)
    BY <2>2, AuctionAssumption DEF WellFormed, WinnerIsHighestBidder
  <2> QED
    BY <2>1, <2>2
<1> QED
  BY <1>1 DEF OverTheWire, Auction

\* On rising bids the price is the last bid, and at least the initial value.
LEMMA PriceIsLastBid ==
    ASSUME NEW a \in Auction, BidsRise(a)
    PROVE  /\ highest_bid_amount(a) =
                  IF a.bids = <<>> THEN InitialValue[a.key] ELSE a.bids[Len(a.bids)].amount
           /\ highest_bid_amount(a) \in Nat
           /\ highest_bid_amount(a) >= InitialValue[a.key]
           /\ \A i \in DOMAIN a.bids : a.bids[i].amount <= highest_bid_amount(a)
<1>1. /\ a.bids \in Seq(Bid) /\ DOMAIN a.bids = 1 .. Len(a.bids) /\ Len(a.bids) \in Nat
      /\ \A i \in DOMAIN a.bids : a.bids[i].amount \in Nat
  BY BidTypes
<1>2. InitialValue[a.key] \in Nat
  BY AuctionAssumption DEF Auction
<1>3. CASE a.bids = <<>>
  BY <1>1, <1>2, <1>3 DEF highest_bid_amount
<1>4. CASE a.bids # <<>>
  <2> DEFINE last == Len(a.bids)
  <2>1. last \in DOMAIN a.bids
    BY <1>1, <1>4
  <2>2. \A i \in DOMAIN a.bids : a.bids[i].amount <= a.bids[last].amount
    BY <1>1, <2>1 DEF BidsRise
  <2>3. Max(Amounts(a)) = a.bids[last].amount
    <3>1. \A x \in Amounts(a) : a.bids[last].amount >= x /\ x \in Nat
      BY <1>1, <2>1, <2>2 DEF Amounts
    <3>2. a.bids[last].amount \in Amounts(a)
      BY <2>1 DEF Amounts
    <3> HIDE DEF last
    <3> QED
      BY <3>1, <3>2 DEF Max
  <2>4. a.bids[last].amount > InitialValue[a.key]
    BY <2>1 DEF BidsRise
  <2> QED
    BY <1>1, <1>2, <1>4, <2>1, <2>2, <2>3, <2>4 DEF highest_bid_amount
<1> QED
  BY <1>3, <1>4

\* A bid that place_bid accepts beats every bid before it.
LEMMA PlaceBidIsWellFormed ==
    ASSUME NEW a \in Auction, NEW buyer \in Address, NEW amount \in Nat, NEW now \in Int,
           WellFormed(a), AcceptsBid(a, amount, now)
    PROVE  /\ place_bid(a, buyer, amount) \in Auction
           /\ WellFormed(place_bid(a, buyer, amount))
<1> DEFINE bid == [buyer |-> buyer, amount |-> amount]
           b == place_bid(a, buyer, amount)
<1>1. a.bids \in Seq(Bid) /\ DOMAIN a.bids = 1 .. Len(a.bids) /\ bid \in Bid
  BY BidTypes DEF Bid
<1>2. b.bids = Append(a.bids, bid) /\ b.key = a.key /\ b.status = "open"
      /\ b.winner = a.winner /\ b.winning_bid = a.winning_bid /\ b \in Auction
  <2>1. Append(a.bids, bid) \in Seq(Bid)
    BY <1>1
  <2>2. b = [a EXCEPT !.bids = Append(a.bids, bid)]
    BY DEF place_bid
  <2> QED
    BY <2>1, <2>2 DEF Auction, AcceptsBid
<1>3. \A i \in DOMAIN a.bids : a.bids[i].amount \in Nat
  BY BidTypes
<1>4. InitialValue[a.key] \in Nat
  BY AuctionAssumption DEF Auction
<1>5. amount > InitialValue[a.key] /\ \A i \in DOMAIN a.bids : a.bids[i].amount < amount
  <2>1. /\ highest_bid_amount(a) \in Nat /\ highest_bid_amount(a) >= InitialValue[a.key]
        /\ \A i \in DOMAIN a.bids : a.bids[i].amount <= highest_bid_amount(a)
    BY PriceIsLastBid DEF WellFormed
  <2>2. amount > highest_bid_amount(a)
    BY DEF AcceptsBid
  <2> QED
    BY <2>1, <2>2, <1>3, <1>4
<1>6. BidsRise(b)
  <2>1. DOMAIN b.bids = 1 .. Len(a.bids) + 1
    BY <1>1, <1>2
  <2>2. \A i \in DOMAIN a.bids : b.bids[i] = a.bids[i]
    BY <1>1, <1>2
  <2>3. b.bids[Len(a.bids) + 1].amount = amount
    BY <1>1, <1>2
  <2> QED
    BY <1>1, <1>2, <1>3, <1>4, <1>5, <2>1, <2>2, <2>3 DEF WellFormed, BidsRise
<1>7. WinnerIsHighestBidder(b)
  BY <1>2 DEF WellFormed, WinnerIsHighestBidder, AcceptsBid
<1> QED
  BY <1>2, <1>6, <1>7 DEF WellFormed

----------------------------------------------------------------------------
(* Ledgers *)

\* A copy that store_auction or close_expired_auctions records names a winner
\* and an amount, so its transaction and the block built from it are typed.
LEMMA NewBlockType ==
    ASSUME NEW ledger \in Seq(Block), NEW a \in Auction, HasWinner(a)
    PROVE  /\ new_block(ledger, auction_won(a)) \in Block
           /\ new_block(ledger, auction_won(a)).transaction.auction = a.key
<1>1. auction_won(a) \in Transaction /\ auction_won(a).auction = a.key
  BY AuctionAssumption DEF auction_won, Transaction, HasWinner, Auction
<1>2. LastHash(ledger) \in Hash
  <2>1. CASE ledger = <<>>
    BY <2>1 DEF LastHash, Hash
  <2>2. CASE ledger # <<>>
    <3>1. ledger[Len(ledger)] \in Block
      BY <2>2
    <3> QED
      BY <2>2, <3>1 DEF LastHash, calculate_hash, Hash, Block
  <2> QED
    BY <2>1, <2>2
<1> QED
  BY <1>1, <1>2 DEF new_block, Block

\* Appending to a sequence leaves its elements, and its prefixes, in place.
LEMMA AppendFacts ==
    ASSUME NEW S, NEW s \in Seq(S), NEW e \in S
    PROVE  /\ Append(s, e) \in Seq(S)
           /\ Len(Append(s, e)) = Len(s) + 1
           /\ DOMAIN s = 1 .. Len(s) /\ Len(s) \in Nat
           /\ DOMAIN Append(s, e) = 1 .. Len(s) + 1
           /\ \A i \in DOMAIN s : Append(s, e)[i] = s[i]
           /\ Append(s, e)[Len(s) + 1] = e
           /\ \A n \in 0 .. Len(s) : SubSeq(Append(s, e), 1, n) = SubSeq(s, 1, n)
           /\ SubSeq(s, 1, Len(s)) = s
OBVIOUS

\* The win of a key that is not won yet keeps the wins one per auction.
LEMMA AppendOneWin ==
    ASSUME NEW ledger \in Seq(Block), NEW block \in Block, OneWin(ledger),
           ~HasWin(ledger, block.transaction.auction)
    PROVE  OneWin(Append(ledger, block))
<1> DEFINE longer == Append(ledger, block)
<1>1. DOMAIN ledger = 1 .. Len(ledger) /\ Len(ledger) \in Nat
      /\ DOMAIN longer = 1 .. Len(ledger) + 1
      /\ (\A i \in DOMAIN ledger : longer[i] = ledger[i])
      /\ longer[Len(ledger) + 1] = block
  BY AppendFacts
<1> HIDE DEF longer
<1> SUFFICES ASSUME NEW i \in DOMAIN longer, NEW j \in DOMAIN longer,
                    longer[i].transaction.auction = longer[j].transaction.auction
             PROVE  i = j
  BY DEF OneWin, longer
<1>2. CASE i \in DOMAIN ledger /\ j \in DOMAIN ledger
  BY <1>1, <1>2 DEF OneWin
<1>3. CASE i = Len(ledger) + 1 /\ j = Len(ledger) + 1
  BY <1>3
<1>4. CASE i \in DOMAIN ledger /\ j = Len(ledger) + 1
  BY <1>1, <1>4 DEF HasWin
<1>5. CASE i = Len(ledger) + 1 /\ j \in DOMAIN ledger
  BY <1>1, <1>5 DEF HasWin
<1> QED
  BY <1>1, <1>2, <1>3, <1>4, <1>5

\* A block that Block::new builds on the last hash keeps the chain linked.
LEMMA AppendLinked ==
    ASSUME NEW ledger \in Seq(Block), NEW t, new_block(ledger, t) \in Block,
           Linked(ledger)
    PROVE  Linked(Append(ledger, new_block(ledger, t)))
<1> DEFINE block == new_block(ledger, t)
           longer == Append(ledger, block)
<1>1. DOMAIN ledger = 1 .. Len(ledger) /\ Len(ledger) \in Nat
      /\ DOMAIN longer = 1 .. Len(ledger) + 1
      /\ (\A i \in DOMAIN ledger : longer[i] = ledger[i])
      /\ longer[Len(ledger) + 1] = block
      /\ (\A n \in 0 .. Len(ledger) : SubSeq(longer, 1, n) = SubSeq(ledger, 1, n))
      /\ SubSeq(ledger, 1, Len(ledger)) = ledger
  BY AppendFacts
<1>2. block.index = Len(ledger) /\ block.previous_hash = LastHash(ledger)
  BY DEF new_block
<1> HIDE DEF longer, block
<1>3. ASSUME NEW i \in DOMAIN longer
      PROVE  longer[i].index = i - 1
             /\ longer[i].previous_hash = LastHash(SubSeq(longer, 1, i - 1))
  <2>1. CASE i \in DOMAIN ledger
    <3>1. longer[i] = ledger[i] /\ SubSeq(longer, 1, i - 1) = SubSeq(ledger, 1, i - 1)
      BY <1>1, <2>1
    <3> QED
      BY <3>1, <2>1 DEF Linked
  <2>2. CASE i = Len(ledger) + 1
    <3>1. longer[i] = block /\ i - 1 = Len(ledger)
      BY <1>1, <2>2
    <3>2. SubSeq(longer, 1, Len(ledger)) = ledger
      BY <1>1
    <3> QED
      BY <3>1, <3>2, <1>2
  <2> QED
    BY <1>1, <2>1, <2>2
<1> QED
  BY <1>3 DEF Linked, longer, block

\* record_auction_win leaves the ledger alone or adds one block for a key that
\* was not won, and either way keeps it typed, linked and one win per auction.
LEMMA RecordKeepsLedger ==
    ASSUME NEW ledger \in Seq(Block), NEW node, NEW a \in Auction, HasWinner(a),
           OneWin(ledger), Linked(ledger)
    PROVE  LET recorded == record_auction_win(ledger, node, a)
               block == new_block(ledger, auction_won(a)) IN
           /\ recorded \in Seq(Block) /\ OneWin(recorded) /\ Linked(recorded)
           /\ \/ recorded = ledger
              \/ /\ recorded = Append(ledger, block) /\ block \in Block
                 /\ block.transaction.auction = a.key /\ ~HasWin(ledger, a.key)
                 /\ has_reputation_to_commit(ledger, node)
<1> DEFINE block == new_block(ledger, auction_won(a))
<1>1. block \in Block /\ block.transaction.auction = a.key
  BY NewBlockType
<1>2. CASE HasWin(ledger, a.key) \/ ~has_reputation_to_commit(ledger, node)
  BY <1>2 DEF record_auction_win
<1>3. CASE ~HasWin(ledger, a.key) /\ has_reputation_to_commit(ledger, node)
  <2>1. record_auction_win(ledger, node, a) = Append(ledger, block)
    BY <1>3 DEF record_auction_win
  <2>2. Append(ledger, block) \in Seq(Block)
    BY <1>1
  <2>3. OneWin(Append(ledger, block))
    BY <1>1, <1>3, AppendOneWin
  <2>4. Linked(Append(ledger, block))
    BY <1>1, AppendLinked
  <2> QED
    BY <1>1, <1>3, <2>1, <2>2, <2>3, <2>4
<1> QED
  BY <1>2, <1>3

\* A longer sequence keeps its prefixes.
LEMMA PrefixOfAppend ==
    ASSUME NEW S, NEW s \in Seq(S), NEW t \in Seq(S), NEW e \in S, IsPrefix(s, t)
    PROVE  IsPrefix(s, Append(t, e))
<1>1. Len(s) \in 0 .. Len(t)
  BY DEF IsPrefix
<1>2. SubSeq(Append(t, e), 1, Len(s)) = SubSeq(t, 1, Len(s))
  BY <1>1, AppendFacts
<1>3. Len(Append(t, e)) = Len(t) + 1
  BY AppendFacts
<1> QED
  BY <1>1, <1>2, <1>3 DEF IsPrefix

\* A prefix agrees with the longer sequence, element by element and prefix by
\* prefix.
LEMMA PrefixFacts ==
    ASSUME NEW S, NEW s \in Seq(S), NEW t \in Seq(S), IsPrefix(s, t)
    PROVE  /\ DOMAIN s \subseteq DOMAIN t
           /\ \A i \in DOMAIN s :
                  s[i] = t[i] /\ SubSeq(s, 1, i - 1) = SubSeq(t, 1, i - 1)
<1>1. Len(s) <= Len(t) /\ s = SubSeq(t, 1, Len(s))
  BY SubSeqFull DEF IsPrefix
<1>2. DOMAIN s = 1 .. Len(s) /\ DOMAIN t = 1 .. Len(t) /\ Len(s) \in Nat /\ Len(t) \in Nat
  OBVIOUS
<1>3. \A i \in DOMAIN s : s[i] = t[i]
  BY <1>1, <1>2
<1>4. ASSUME NEW i \in DOMAIN s PROVE SubSeq(s, 1, i - 1) = SubSeq(t, 1, i - 1)
  BY <1>1, <1>2, <1>3
<1> QED
  BY <1>1, <1>2, <1>3, <1>4

\* A ledger scores at least what a prefix of it scores.
LEMMA ScoreOfPrefix ==
    ASSUME NEW s \in Seq(Block), NEW t \in Seq(Block), IsPrefix(s, t), NEW node
    PROVE  /\ reputation_score(s, node) \in Nat /\ reputation_score(t, node) \in Nat
           /\ reputation_score(s, node) <= reputation_score(t, node)
<1> DEFINE Sent(l) == {i \in DOMAIN l : l[i].transaction.sender = node}
           Received(l) == {i \in DOMAIN l : l[i].transaction.recipient = node}
<1>1. IsFiniteSet(DOMAIN t)
  BY FS_Interval
<1>2. Sent(s) \subseteq Sent(t) /\ Received(s) \subseteq Received(t)
  BY PrefixFacts
<1>3. IsFiniteSet(Sent(t)) /\ IsFiniteSet(Received(t))
  BY <1>1, FS_Subset
<1>4. /\ Cardinality(Sent(s)) \in Nat /\ Cardinality(Sent(t)) \in Nat
      /\ Cardinality(Sent(s)) <= Cardinality(Sent(t))
  BY <1>2, <1>3, FS_Subset, FS_CardinalityType
<1>5. /\ Cardinality(Received(s)) \in Nat /\ Cardinality(Received(t)) \in Nat
      /\ Cardinality(Received(s)) <= Cardinality(Received(t))
  BY <1>2, <1>3, FS_Subset, FS_CardinalityType
<1>6. /\ reputation_score(s, node) = Cardinality(Sent(s)) + Cardinality(Received(s))
      /\ reputation_score(t, node) = Cardinality(Sent(t)) + Cardinality(Received(t))
  BY DEF reputation_score
<1> HIDE DEF Sent, Received
<1> QED
  BY <1>4, <1>5, <1>6

\* A recorded win stays recorded when a block is added.
LEMMA AppendHasWin ==
    ASSUME NEW l \in Seq(Block), NEW block \in Block, NEW k,
           HasWin(l, k) \/ block.transaction.auction = k
    PROVE  HasWin(Append(l, block), k)
<1> DEFINE longer == Append(l, block)
<1>1. DOMAIN l = 1 .. Len(l) /\ Len(l) \in Nat
      /\ DOMAIN longer = 1 .. Len(l) + 1
      /\ (\A i \in DOMAIN l : longer[i] = l[i])
      /\ longer[Len(l) + 1] = block
  BY AppendFacts
<1> HIDE DEF longer
<1> SUFFICES HasWin(longer, k)
  BY DEF longer
<1> QED
  BY <1>1 DEF HasWin

\* A non-empty set of naturals has a smallest element.
LEMMA SmallestOf ==
    ASSUME NEW T \in SUBSET Nat, T # {}
    PROVE  \E x \in T : \A y \in T : x <= y
<1> DEFINE less == OpToRel(<, Nat)
<1>1. \A x, y \in Nat : <<y, x>> \in less <=> y < x
  BY DEF OpToRel
<1>2. IsWellFoundedOn(less, Nat)
  BY NatLessThanWellFounded
<1> HIDE DEF less
<1>3. PICK x \in T : \A y \in T : ~ (<<y, x>> \in less)
  BY <1>2, WFMin
<1>4. \A y \in T : ~ (y < x)
  BY <1>1, <1>3, Zenon
<1> QED
  BY <1>4

\* r is a ledger l to which wins of copies in A were added.
Added(l, r, A) ==
    /\ r \in Seq(Block)
    /\ Len(l) <= Len(r)
    /\ \A i \in 1 .. Len(l) : r[i] = l[i]
    /\ \A i \in Len(l) + 1 .. Len(r) : \E a \in A : r[i].transaction = auction_won(a)

\* Unless node may not commit, it could commit before and has the wins of A.
Confirmed(l, r, node, A) ==
    has_reputation_to_commit(r, node) =>
        /\ has_reputation_to_commit(l, node)
        /\ \A a \in A : HasWin(r, a.key)

\* A win stays in a ledger to which others are added.
LEMMA AddedKeepsWins ==
    ASSUME NEW l \in Seq(Block), NEW r, NEW A, Added(l, r, A), NEW k, HasWin(l, k)
    PROVE  HasWin(r, k)
<1>1. PICK i \in 1 .. Len(l) : l[i].transaction.auction = k
  BY DEF HasWin
<1>2. i \in DOMAIN r /\ r[i] = l[i]
  BY DEF Added
<1> QED
  BY <1>1, <1>2 DEF HasWin

\* What record_auction_win does, in these terms.
LEMMA RecordAdds ==
    ASSUME NEW l \in Seq(Block), NEW node, NEW a \in Auction, HasWinner(a)
    PROVE  /\ Added(l, record_auction_win(l, node, a), {a})
           /\ Confirmed(l, record_auction_win(l, node, a), node, {a})
<1> DEFINE block == new_block(l, auction_won(a))
           r == record_auction_win(l, node, a)
<1>1. CASE HasWin(l, a.key) \/ ~has_reputation_to_commit(l, node)
  <2>1. r = l
    BY <1>1 DEF record_auction_win
  <2>2. Added(l, l, {a})
    BY DEF Added
  <2>3. Confirmed(l, l, node, {a})
    BY <1>1 DEF Confirmed
  <2> QED
    BY <2>1, <2>2, <2>3
<1>2. CASE ~HasWin(l, a.key) /\ has_reputation_to_commit(l, node)
  <2>1. r = Append(l, block)
    BY <1>2 DEF record_auction_win
  <2>2. block \in Block /\ block.transaction.auction = a.key
    BY NewBlockType
  <2>3. block.transaction = auction_won(a)
    BY DEF new_block
  <2> HIDE DEF block
  <2>4. /\ r \in Seq(Block) /\ Len(r) = Len(l) + 1 /\ Len(l) \in Nat
        /\ \A i \in 1 .. Len(l) : r[i] = l[i]
        /\ r[Len(l) + 1] = block
    BY <2>1, <2>2, AppendFacts
  <2>5. HasWin(r, a.key)
    BY <2>1, <2>2, AppendHasWin
  <2> HIDE DEF r
  <2>6. Added(l, r, {a})
    BY <2>3, <2>4 DEF Added
  <2>7. Confirmed(l, r, node, {a})
    BY <1>2, <2>5 DEF Confirmed
  <2> QED
    BY <2>6, <2>7 DEF r
<1> QED
  BY <1>1, <1>2

\* Wins added one after the other are wins added.
LEMMA AddedTransitive ==
    ASSUME NEW l \in Seq(Block), NEW m, NEW r, NEW node, NEW A, NEW B,
           Added(l, m, A), Added(m, r, B),
           Confirmed(l, m, node, A), Confirmed(m, r, node, B)
    PROVE  Added(l, r, A \cup B) /\ Confirmed(l, r, node, A \cup B)
<1>1. Added(l, r, A \cup B)
  <2>1. m \in Seq(Block) /\ r \in Seq(Block) /\ Len(l) <= Len(m) /\ Len(m) <= Len(r)
    BY DEF Added
  <2>2. \A i \in 1 .. Len(l) : r[i] = l[i]
    BY <2>1 DEF Added
  <2>3. ASSUME NEW i \in Len(l) + 1 .. Len(r)
        PROVE  \E a \in A \cup B : r[i].transaction = auction_won(a)
    <3>1. CASE i <= Len(m)
      <4>1. r[i] = m[i] /\ i \in Len(l) + 1 .. Len(m)
        BY <2>1, <3>1 DEF Added
      <4> QED
        BY <4>1 DEF Added
    <3>2. CASE i > Len(m)
      <4>1. i \in Len(m) + 1 .. Len(r)
        BY <2>1, <3>2
      <4> QED
        BY <4>1 DEF Added
    <3> QED
      BY <3>1, <3>2, <2>1
  <2> QED
    BY <2>1, <2>2, <2>3 DEF Added
<1>2. Confirmed(l, r, node, A \cup B)
  <2>1. m \in Seq(Block)
    BY DEF Added
  <2> QED
    BY <2>1, AddedKeepsWins DEF Confirmed
<1> QED
  BY <1>1, <1>2

\* The ledgers that record_auction_wins passes through are defined by recursion:
\* there is a function that gives them.
LEMMA RecordedExists ==
    ASSUME NEW l \in Seq(Block), NEW node \in Address, NEW won \in Seq(Auction),
           \A i \in DOMAIN won : HasWinner(won[i])
    PROVE  \E f \in [0 .. Len(won) -> Seq(Block)] :
              /\ f[0] = l
              /\ \A i \in 1 .. Len(won) : f[i] = record_auction_win(f[i - 1], node, won[i])
<1> DEFINE m == Len(won)
           Step(i, s) == record_auction_win(s, node, won[i])
           Upto(f, j) == f[0] = l /\ \A i \in 1 .. j : f[i] = Step(i, f[i - 1])
           Missing == {j \in 0 .. m : ~ \E f \in [0 .. j -> Seq(Block)] : Upto(f, j)}
<1>0. m \in Nat
  OBVIOUS
<1>1. ASSUME NEW i \in 1 .. m, NEW s \in Seq(Block)
      PROVE  Step(i, s) \in Seq(Block)
  <2>1. won[i] \in Auction /\ HasWinner(won[i])
    OBVIOUS
  <2> QED
    BY <2>1, RecordAdds DEF Added
<1> HIDE DEF Step, m
<1> SUFFICES Missing = {}
  <2>1. ASSUME Missing = {}
        PROVE  \E f \in [0 .. m -> Seq(Block)] : Upto(f, m)
    <3>1. m \in 0 .. m
      BY <1>0
    <3> HIDE DEF Upto
    <3> QED
      BY <2>1, <3>1
  <2> QED
    BY <2>1 DEF Step, m
<1> SUFFICES ASSUME Missing # {} PROVE FALSE
  OBVIOUS
<1>2. PICK j \in Missing : \A k \in Missing : j <= k
  <2>1. Missing \in SUBSET Nat
    BY <1>0
  <2> HIDE DEF Missing
  <2> QED
    BY <2>1, SmallestOf
<1>3. CASE j = 0
  <2> DEFINE f == [i \in 0 .. 0 |-> l]
  <2>1. f \in [0 .. 0 -> Seq(Block)] /\ Upto(f, 0)
    OBVIOUS
  <2> QED
    BY <1>0, <2>1, <1>2, <1>3
<1>4. CASE j # 0
  <2>1. j - 1 \in 0 .. m /\ j - 1 \notin Missing /\ j \in 1 .. m
    <3>1. j \in 0 .. m
      BY <1>2
    <3> HIDE DEF Missing
    <3> QED
      BY <1>0, <1>2, <1>4, <3>1
  <2>2. PICK g \in [0 .. j - 1 -> Seq(Block)] : Upto(g, j - 1)
    BY <2>1
  <2> DEFINE f == [i \in 0 .. j |-> IF i = j THEN Step(j, g[j - 1]) ELSE g[i]]
  <2>3. f \in [0 .. j -> Seq(Block)]
    <3>1. j - 1 \in 0 .. j - 1 /\ g[j - 1] \in Seq(Block)
      BY <2>1
    <3> QED
      BY <3>1, <2>1, <1>1
  <2>4. f[0] = l
    BY <2>1, <2>2
  <2>5. ASSUME NEW i \in 1 .. j PROVE f[i] = Step(i, f[i - 1])
    <3>1. i - 1 \in 0 .. j - 1 /\ f[i - 1] = g[i - 1]
      BY <2>1
    <3>2. CASE i = j
      <4>1. f[j] = Step(j, g[j - 1])
        BY <2>1
      <4> HIDE DEF f
      <4> QED
        BY <3>1, <3>2, <4>1
    <3>3. CASE i # j
      <4>1. i \in 1 .. j - 1 /\ f[i] = g[i]
        BY <3>3, <2>1
      <4>2. g[i] = Step(i, g[i - 1])
        BY <4>1, <2>2
      <4> HIDE DEF f
      <4> QED
        BY <3>1, <4>1, <4>2
    <3> QED
      BY <3>2, <3>3
  <2> QED
    BY <2>3, <2>4, <2>5, <1>2
<1> QED
  BY <1>3, <1>4

\* What recording a sequence of wins does, which is defined by recursion.
LEMMA RecordAllAdds ==
    ASSUME NEW l \in Seq(Block), NEW node \in Address, NEW won \in Seq(Auction),
           \A i \in DOMAIN won : HasWinner(won[i])
    PROVE  LET r == record_auction_wins(l, node, won)
               A == {won[i] : i \in DOMAIN won} IN
           Added(l, r, A) /\ Confirmed(l, r, node, A)
<1> DEFINE m == Len(won)
           Step(i, s) == record_auction_win(s, node, won[i])
           recorded == CHOOSE f : f = [i \in 0 .. m |-> IF i = 0 THEN l ELSE Step(i, f[i - 1])]
           First(i) == {won[j] : j \in 1 .. i}
           Right(i, s) == Added(l, s, First(i)) /\ Confirmed(l, s, node, First(i))
<1>1. m \in Nat /\ DOMAIN won = 1 .. m /\ \A i \in 1 .. m : won[i] \in Auction
  OBVIOUS
<1>2. ASSUME NEW i \in 1 .. m, NEW s \in Seq(Block)
      PROVE  Step(i, s) \in Seq(Block)
  BY <1>1, RecordAdds DEF Added
<1>3. record_auction_wins(l, node, won) = recorded[m]
  BY DEF record_auction_wins
<1>4. /\ recorded[0] = l
      /\ \A i \in 1 .. m : recorded[i] = Step(i, recorded[i - 1])
  <2>1. PICK f \in [0 .. Len(won) -> Seq(Block)] :
            /\ f[0] = l
            /\ \A i \in 1 .. Len(won) : f[i] = record_auction_win(f[i - 1], node, won[i])
    BY RecordedExists
  <2>2. f \in [0 .. m -> Seq(Block)] /\ \A i \in 1 .. m : f[i] = Step(i, f[i - 1])
    BY <2>1
  <2> HIDE DEF m, Step
  <2>3. f = [i \in 0 .. m |-> IF i = 0 THEN l ELSE Step(i, f[i - 1])]
    <3>1. ASSUME NEW i \in 0 .. m
          PROVE  f[i] = IF i = 0 THEN l ELSE Step(i, f[i - 1])
      <4>1. CASE i = 0
        BY <4>1, <2>1
      <4>2. CASE i # 0
        <5>1. i \in 1 .. m /\ f[i - 1] \in Seq(Block)
          BY <4>2, <1>1, <2>2
        <5> QED
          BY <4>2, <5>1, <2>2
      <4> QED
        BY <4>1, <4>2
    <3> QED
      BY <3>1, <2>2
  <2>4. recorded = [i \in 0 .. m |-> IF i = 0 THEN l ELSE Step(i, recorded[i - 1])]
    BY <2>3
  <2> HIDE DEF recorded
  <2>5. recorded[0] = l
    BY <2>4, <1>1
  <2>6. ASSUME NEW i \in 1 .. m PROVE recorded[i] = Step(i, recorded[i - 1])
    <3>1. i \in 0 .. m /\ i # 0
      BY <1>1
    <3> QED
      BY <3>1, <2>4
  <2> QED
    BY <2>5, <2>6
<1> HIDE DEF recorded
<1> DEFINE Wrong == {i \in 0 .. m : ~Right(i, recorded[i])}
<1>5. Wrong = {}
  <2> SUFFICES ASSUME Wrong # {} PROVE FALSE
    OBVIOUS
  <2>1. PICK i \in Wrong : \A j \in Wrong : i <= j
    <3>1. Wrong \in SUBSET Nat
      BY <1>1
    <3> HIDE DEF Wrong
    <3> QED
      BY <3>1, SmallestOf
  <2>2. CASE i = 0
    <3>1. First(0) = {}
      OBVIOUS
    <3>2. Added(l, l, {}) /\ Confirmed(l, l, node, {})
      BY DEF Added, Confirmed
    <3> QED
      BY <2>1, <2>2, <3>1, <3>2, <1>4
  <2>3. CASE i # 0
    <3>1. i \in 1 .. m /\ i - 1 \in 0 .. m /\ i - 1 \notin Wrong
      <4> HIDE DEF Right, m
      <4> QED
        BY <2>1, <2>3, <1>1
    <3> DEFINE s == recorded[i - 1]
    <3>2. Right(i - 1, s)
      BY <3>1
    <3>3. s \in Seq(Block)
      BY <3>2 DEF Added
    <3>4. Added(s, recorded[i], {won[i]}) /\ Confirmed(s, recorded[i], node, {won[i]})
      BY <3>1, <3>3, <1>1, <1>4, RecordAdds
    <3>5. First(i) = First(i - 1) \cup {won[i]}
      BY <3>1, <1>1
    <3> HIDE DEF First, s
    <3>6. /\ Added(l, recorded[i], First(i - 1) \cup {won[i]})
          /\ Confirmed(l, recorded[i], node, First(i - 1) \cup {won[i]})
      BY <3>2, <3>4, AddedTransitive
    <3> QED
      BY <2>1, <3>5, <3>6
  <2> QED
    BY <2>2, <2>3
<1>6. Right(m, recorded[m])
  <2> HIDE DEF Right, m
  <2> QED
    BY <1>1, <1>5
<1>7. First(m) = {won[i] : i \in DOMAIN won}
  BY <1>1
<1> QED
  BY <1>3, <1>6, <1>7
=============================================================================
