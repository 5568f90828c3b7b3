------------------------- MODULE AuctionNetworkProofs -------------------------
(***************************************************************************)
(* Theorems about AuctionNetwork for any nodes, offers, closest nodes,     *)
(* bounds and consensus mode, and with any connections failing.            *)
(***************************************************************************)
EXTENDS AuctionNetwork, LedgerProofs

\* The copies that may be held or under way: CopiesAreReal says all are.
Real ==
    {a \in Auction : /\ WellFormed(a)
                     /\ a.key \in offered
                     /\ BidsPlaced(a)
                     /\ a.status = "closed" => a.ends_at <= now}

\* The handlers that may be running: the calls left are to nodes of Closest.
Sound ==
    {h \in Handler : /\ h.auction \in Real
                     /\ h.todo \subseteq DOMAIN Closest[h.auction.key][h.node]}

\* Every copy in a store is kept under its own key.
StoresReal ==
    \A n \in Node, k \in Key :
        auctions[n][k] # None => auctions[n][k] \in Real /\ auctions[n][k].key = k

\* Whatever a client holds is real, and it holds the copy it is about to publish.
ClientsReal ==
    \A n \in Node :
        /\ client[n].closed \subseteq Real
        /\ client[n].auction # None => client[n].auction \in Real
        /\ client[n].at = "acting" => client[n].auction \in Real

\* The automation never bids on its own offers.
BidsOnOthers == \A p \in placed : p.buyer # SellerOf[p.key]

\* The inductive invariant: wherever a copy is, it is real, and every ledger
\* has the wins of the store beside it and nothing but real wins.
IInv ==
    /\ TypeOK
    /\ StoresReal
    /\ ClientsReal
    /\ chain \in [Node -> Seq(Sound)]
    /\ BidsOnOthers
    /\ WinsAreReal
    /\ WinsAreConfirmed

----------------------------------------------------------------------------
(* Lemmas about copies, chains and the two operations on the store *)

\* What is real stays real as offers, bids and time go on.
LEMMA RealGrows ==
    ASSUME now \in Nat, now' \in Nat, now <= now',
           offered \subseteq offered', placed \subseteq placed'
    PROVE  Real \subseteq Real' /\ Sound \subseteq Sound'
<1>1. Real \subseteq Real'
  <2> SUFFICES ASSUME NEW a \in Real PROVE a \in Real'
    OBVIOUS
  <2>1. a \in Auction /\ WellFormed(a) /\ a.key \in offered'
    BY DEF Real
  <2>2. BidsPlaced(a)'
    BY DEF Real, BidsPlaced
  <2>3. a.ends_at \in Int
    BY <2>1 DEF Auction
  <2>4. a.status = "closed" => a.ends_at <= now'
    BY <2>3 DEF Real
  <2> QED
    BY <2>1, <2>2, <2>4 DEF Real
<1> QED
  BY <1>1 DEF Sound

\* A closed copy of a real auction that expired is real.
LEMMA CloseIsReal ==
    ASSUME NEW a \in Real, Expired(a, now)
    PROVE  close_auction(a) \in Real /\ close_auction(a).key = a.key
<1>1. a \in Auction /\ WellFormed(a) /\ a.status = "open"
  BY DEF Real, Expired
<1>2. /\ close_auction(a) \in Auction /\ WellFormed(close_auction(a))
      /\ close_auction(a).key = a.key
  BY <1>1, CloseIsWellFormed
<1>3. close_auction(a).bids = a.bids /\ close_auction(a).ends_at = a.ends_at
  BY <1>1 DEF close_auction, Auction
<1>4. a.ends_at <= now
  BY DEF Expired
<1>5. BidsPlaced(close_auction(a))
  BY <1>2, <1>3 DEF BidsPlaced, Real
<1> QED
  BY <1>2, <1>3, <1>4, <1>5 DEF Real

\* A real win is a bid of another than the seller, above the initial value.
RealWin(t) ==
    /\ [key |-> t.auction, buyer |-> t.sender, amount |-> t.amount] \in placed
    /\ t.amount > InitialValue[t.auction]
    /\ t.recipient = SellerOf[t.auction]
    /\ t.sender # t.recipient

\* What a real copy wins is real.
LEMMA WinOfReal ==
    ASSUME BidsOnOthers, NEW a \in Real, HasWinner(a)
    PROVE  RealWin(auction_won(a))
<1> DEFINE last == a.bids[Len(a.bids)]
<1>1. a \in Auction /\ BidsRise(a) /\ WinnerIsHighestBidder(a) /\ BidsPlaced(a)
  BY DEF Real, WellFormed
<1>2. a.bids # <<>> /\ a.winner = last.buyer /\ a.winning_bid = last.amount
  BY <1>1 DEF HasWinner, WinnerIsHighestBidder
<1>3. Len(a.bids) \in DOMAIN a.bids
  BY <1>1, <1>2, BidTypes
<1>4. [key |-> a.key, buyer |-> last.buyer, amount |-> last.amount] \in placed
  BY <1>1, <1>3 DEF BidsPlaced
<1>5. last.amount > InitialValue[a.key]
  BY <1>1, <1>3 DEF BidsRise
<1>6. last.buyer # SellerOf[a.key]
  BY <1>4 DEF BidsOnOthers
<1> QED
  BY <1>2, <1>4, <1>5, <1>6 DEF RealWin, auction_won

\* An ordering of a finite set has all of the set, and nothing else.
LEMMA OrderingFacts ==
    ASSUME NEW S, IsFiniteSet(S), NEW order \in SetToSeqs(S)
    PROVE  order \in Seq(S) /\ {order[i] : i \in DOMAIN order} = S
<1> DEFINE D == 1 .. Cardinality(S)
<1>1. Cardinality(S) \in Nat
  BY FS_CardinalityType
<1>2. order \in [D -> S] /\ \A i, j \in D : i # j => order[i] # order[j]
  BY DEF SetToSeqs
<1>3. order \in Seq(S)
  BY <1>1, <1>2
<1>4. order \in Injection(D, S)
  BY <1>2 DEF Injection, IsInjective
<1>5. Cardinality(D) = Cardinality(S)
  BY <1>1, FS_Interval
<1>6. order \in Surjection(D, S)
  BY <1>4, <1>5, FS_Injection
<1> HIDE DEF D
<1> QED
  BY <1>2, <1>3, <1>6 DEF Surjection

\* What a step does to the stores and ledgers: stores stay real, and each ledger
\* has the wins of a set A of real copies added, with those of every copy that
\* is new in the store among them.
Kept(n) ==
    \E A \in SUBSET {a \in Real : HasWinner(a)} :
        /\ Added(ledger[n], ledger'[n], A)
        /\ Confirmed(ledger[n], ledger'[n], n, A)
        /\ \A k \in Key :
              LET copy == auctions'[n][k] IN
              copy # None /\ HasWinner(copy) => copy \in A \/ copy = auctions[n][k]

StoresKept ==
    /\ auctions' \in [Node -> [Key -> Auction \cup {None}]]
    /\ ledger' \in [Node -> Seq(Block)]
    /\ \A n \in Node, k \in Key :
          auctions'[n][k] # None => auctions'[n][k] \in Real /\ auctions'[n][k].key = k
    /\ \A n \in Node : Kept(n)

\* A ledger nothing is added to.
LEMMA NothingAdded ==
    ASSUME NEW l \in Seq(Block), NEW n
    PROVE  Added(l, l, {}) /\ Confirmed(l, l, n, {})
BY DEF Added, Confirmed

\* A node whose store and ledger do not change.
LEMMA UnchangedKept ==
    ASSUME TypeOK, NEW n \in Node, auctions'[n] = auctions[n], ledger'[n] = ledger[n]
    PROVE  Kept(n)
<1>1. ledger[n] \in Seq(Block)
  BY DEF TypeOK
<1>2. Added(ledger[n], ledger[n], {}) /\ Confirmed(ledger[n], ledger[n], n, {})
  BY <1>1, NothingAdded
<1> QED
  BY <1>2 DEF Kept

LEMMA NoStoreKept ==
    ASSUME TypeOK, StoresReal, UNCHANGED <<auctions, ledger>>
    PROVE  StoresKept
BY UnchangedKept DEF StoresKept, StoresReal, TypeOK

\* store_auction puts one real copy in the store and its win in the ledger.
LEMMA StoreKept ==
    ASSUME TypeOK, StoresReal, NEW n \in Node, NEW a \in Real, store_auction(n, a)
    PROVE  StoresKept
<1>1. a \in Auction /\ a.key \in Key
  BY DEF Real, Auction
<1>2. /\ auctions' \in [Node -> [Key -> Auction \cup {None}]]
      /\ \A m \in Node, k \in Key :
            auctions'[m][k] = IF m = n /\ k = a.key THEN a ELSE auctions[m][k]
      /\ \A m \in Node : m # n => auctions'[m] = auctions[m]
  BY <1>1 DEF store_auction, TypeOK
<1>3. ledger[n] \in Seq(Block) /\ ledger \in [Node -> Seq(Block)]
  BY DEF TypeOK
<1> DEFINE Held(m, k) ==
        auctions'[m][k] # None => auctions'[m][k] \in Real /\ auctions'[m][k].key = k
<1>4. \A m \in Node, k \in Key : Held(m, k)
  BY <1>2 DEF StoresReal
<1> HIDE DEF Held
<1>5. CASE HasWinner(a)
  <2> DEFINE r == record_auction_win(ledger[n], n, a)
  <2>1. ledger' = [ledger EXCEPT ![n] = r]
    BY <1>5 DEF store_auction
  <2>2. Added(ledger[n], r, {a}) /\ Confirmed(ledger[n], r, n, {a})
    BY <1>1, <1>3, <1>5, RecordAdds
  <2>3. r \in Seq(Block)
    BY <2>2 DEF Added
  <2> HIDE DEF r
  <2>4. ledger' \in [Node -> Seq(Block)] /\ ledger'[n] = r
        /\ \A m \in Node : m # n => ledger'[m] = ledger[m]
    BY <1>3, <2>1, <2>3
  <2>5. Kept(n)
    BY <1>2, <1>5, <2>2, <2>4 DEF Kept
  <2>6. \A m \in Node : m # n => Kept(m)
    BY <1>2, <2>4, UnchangedKept
  <2>7. \A m \in Node : Kept(m)
    BY <2>5, <2>6
  <2> QED
    BY <1>2, <1>4, <2>4, <2>7 DEF StoresKept, Held
<1>6. CASE ~HasWinner(a)
  <2>1. ledger' = ledger
    BY <1>6 DEF store_auction
  <2>2. Added(ledger[n], ledger'[n], {}) /\ Confirmed(ledger[n], ledger'[n], n, {})
    BY <1>3, <2>1, NothingAdded
  <2>3. Kept(n)
    BY <1>2, <1>6, <2>2 DEF Kept
  <2>4. \A m \in Node : m # n => Kept(m)
    BY <1>2, <2>1, UnchangedKept
  <2>5. \A m \in Node : Kept(m)
    BY <2>3, <2>4
  <2> QED
    BY <1>2, <1>3, <1>4, <2>1, <2>5 DEF StoresKept, Held
<1> QED
  BY <1>5, <1>6

\* The auctions a node closes are finitely many, and real.
LEMMA ClosedIsReal ==
    ASSUME TypeOK, StoresReal, NEW n \in Node
    PROVE  Closed(n) \subseteq Real /\ IsFiniteSet(Closed(n))
<1> DEFINE Due == {k \in Key : auctions[n][k] # None /\ Expired(auctions[n][k], now)}
           f == [k \in Due |-> close_auction(auctions[n][k])]
<1>1. Closed(n) = {close_auction(auctions[n][k]) : k \in Due}
  BY DEF Closed
<1>2. Closed(n) \subseteq Real
  <2>1. \A k \in Due : auctions[n][k] \in Real /\ Expired(auctions[n][k], now)
    BY DEF StoresReal
  <2> QED
    BY <1>1, <2>1, CloseIsReal
<1>3. f \in Surjection(Due, Closed(n))
  BY <1>1 DEF Surjection
<1>4. IsFiniteSet(Due)
  BY NetworkAssumption, FS_Subset
<1>5. IsFiniteSet(Closed(n))
  <2> HIDE DEF f, Due
  <2> QED
    BY <1>3, <1>4, FS_Surjection
<1> QED
  BY <1>2, <1>5

\* close_expired_auctions closes real copies and records what they won.
LEMMA CloseKept ==
    ASSUME TypeOK, StoresReal, NEW n \in Node, close_expired_auctions(n)
    PROVE  StoresKept
<1> DEFINE A == {a \in Closed(n) : HasWinner(a)}
<1>1. PICK won \in SetToSeqs(A) :
          ledger' = [ledger EXCEPT ![n] = record_auction_wins(@, n, won)]
  BY DEF close_expired_auctions
<1>2. Closed(n) \subseteq Real /\ IsFiniteSet(A)
  BY ClosedIsReal, FS_Subset
<1>3. won \in Seq(A) /\ {won[i] : i \in DOMAIN won} = A
  <2> HIDE DEF A
  <2> QED
    BY <1>2, OrderingFacts
<1>4. won \in Seq(Auction) /\ \A i \in DOMAIN won : HasWinner(won[i])
  <2>1. A \subseteq Auction /\ \A a \in A : HasWinner(a)
    BY <1>2 DEF Real
  <2> HIDE DEF A
  <2> QED
    BY <1>3, <2>1, SeqMonotonic
<1>5. ledger[n] \in Seq(Block) /\ ledger \in [Node -> Seq(Block)] /\ n \in Address
  BY NetworkAssumption DEF TypeOK
<1> DEFINE r == record_auction_wins(ledger[n], n, won)
<1>6. Added(ledger[n], r, A) /\ Confirmed(ledger[n], r, n, A)
  <2> HIDE DEF A
  <2> QED
    BY <1>3, <1>4, <1>5, RecordAllAdds
<1>7. r \in Seq(Block)
  BY <1>6 DEF Added
<1>8. ledger' \in [Node -> Seq(Block)] /\ ledger'[n] = r
      /\ \A m \in Node : m # n => ledger'[m] = ledger[m]
  <2> HIDE DEF r
  <2>1. ledger' = [ledger EXCEPT ![n] = r]
    BY <1>1 DEF r
  <2> QED
    BY <1>5, <1>7, <2>1
<1>9. /\ \A k \in Key : auctions'[n][k] = IF auctions[n][k] = None THEN None
                                          ELSE close_if_expired(auctions[n][k], now)
      /\ \A m \in Node : m # n => auctions'[m] = auctions[m]
      /\ DOMAIN auctions' = Node
      /\ auctions'[n] = [k \in Key |-> auctions'[n][k]]
  BY DEF close_expired_auctions, TypeOK
<1>10. ASSUME NEW k \in Key, auctions'[n][k] # None
       PROVE  /\ auctions'[n][k] \in Real /\ auctions'[n][k].key = k
              /\ auctions'[n][k] \in Closed(n) \/ auctions'[n][k] = auctions[n][k]
  <2>1. auctions[n][k] # None /\ auctions[n][k] \in Real /\ auctions[n][k].key = k
        /\ auctions'[n][k] = close_if_expired(auctions[n][k], now)
    BY <1>9, <1>10 DEF StoresReal
  <2>2. CASE Expired(auctions[n][k], now)
    <3>1. auctions'[n][k] = close_auction(auctions[n][k])
      BY <2>1, <2>2 DEF close_if_expired
    <3>2. auctions'[n][k] \in Closed(n)
      BY <2>1, <2>2, <3>1 DEF Closed
    <3> QED
      BY <2>1, <2>2, <3>1, <3>2, CloseIsReal
  <2>3. CASE ~Expired(auctions[n][k], now)
    BY <2>1, <2>3 DEF close_if_expired
  <2> QED
    BY <2>2, <2>3
<1>11. auctions' \in [Node -> [Key -> Auction \cup {None}]]
  <2>1. \A k \in Key : auctions'[n][k] \in Auction \cup {None}
    BY <1>10 DEF Real
  <2>2. auctions'[n] \in [Key -> Auction \cup {None}]
    BY <1>9, <2>1
  <2>3. auctions' = [auctions EXCEPT ![n] = auctions'[n]]
    BY DEF close_expired_auctions, TypeOK
  <2> QED
    BY <2>2, <2>3 DEF TypeOK
<1>12. Kept(n)
  <2>1. A \in SUBSET {a \in Real : HasWinner(a)}
    BY <1>2
  <2>2. \A k \in Key : auctions'[n][k] # None /\ HasWinner(auctions'[n][k]) =>
                           auctions'[n][k] \in A \/ auctions'[n][k] = auctions[n][k]
    BY <1>10
  <2> HIDE DEF A, r
  <2> QED
    BY <1>6, <1>8, <2>1, <2>2 DEF Kept
<1>13. \A m \in Node : m # n => Kept(m)
  BY <1>8, <1>9, UnchangedKept
<1>14. \A m \in Node : Kept(m)
  BY <1>12, <1>13
<1>15. ASSUME NEW m \in Node, NEW k \in Key, auctions'[m][k] # None
       PROVE  auctions'[m][k] \in Real /\ auctions'[m][k].key = k
  <2>1. CASE m = n
    BY <1>10, <1>15, <2>1
  <2>2. CASE m # n
    BY <1>9, <1>15, <2>2 DEF StoresReal
  <2> QED
    BY <2>1, <2>2
<1> QED
  BY <1>8, <1>11, <1>14, <1>15 DEF StoresKept

\* With that, and offers, bids and time going on, the stores stay real and the
\* ledgers complete.
LEMMA LedgersStep ==
    ASSUME IInv, StoresKept, now' \in Nat, now <= now',
           offered \subseteq offered', placed \subseteq placed'
    PROVE  StoresReal' /\ WinsAreReal' /\ WinsAreConfirmed'
<1>1. Real \subseteq Real'
  BY RealGrows, NetworkAssumption DEF IInv, TypeOK
<1>2. StoresReal'
  BY <1>1 DEF StoresKept, StoresReal
<1>3. ASSUME NEW n \in Node
      PROVE  ledger[n] \in Seq(Block) /\ ledger'[n] \in Seq(Block) /\ Kept(n)
  BY DEF IInv, TypeOK, StoresKept
<1>4. ASSUME NEW n \in Node, NEW i \in DOMAIN ledger'[n]
      PROVE  RealWin(ledger'[n][i].transaction)
  <2>1. PICK A \in SUBSET {a \in Real : HasWinner(a)} : Added(ledger[n], ledger'[n], A)
    BY <1>3 DEF Kept
  <2>2. CASE i <= Len(ledger[n])
    <3>1. i \in DOMAIN ledger[n] /\ ledger'[n][i] = ledger[n][i]
      BY <1>3, <2>1, <2>2 DEF Added
    <3> QED
      BY <3>1 DEF IInv, WinsAreReal, RealWin
  <2>3. CASE i > Len(ledger[n])
    <3>1. i \in Len(ledger[n]) + 1 .. Len(ledger'[n])
      BY <1>3, <2>3
    <3>2. PICK a \in A : ledger'[n][i].transaction = auction_won(a)
      BY <2>1, <3>1 DEF Added
    <3> QED
      BY <3>2, WinOfReal DEF IInv
  <2> QED
    BY <1>3, <2>2, <2>3
<1>5. WinsAreReal'
  BY <1>4 DEF WinsAreReal, RealWin
<1>6. ASSUME NEW n \in Node, NEW k \in Key, has_reputation_to_commit(ledger'[n], n),
             auctions'[n][k] # None, HasWinner(auctions'[n][k])
      PROVE  HasWin(ledger'[n], k)
  <2>1. PICK A \in SUBSET {a \in Real : HasWinner(a)} :
            /\ Added(ledger[n], ledger'[n], A)
            /\ Confirmed(ledger[n], ledger'[n], n, A)
            /\ auctions'[n][k] \in A \/ auctions'[n][k] = auctions[n][k]
    BY <1>3, <1>6 DEF Kept
  <2>2. CASE auctions'[n][k] \in A
    <3>1. auctions'[n][k].key = k
      BY <1>6 DEF StoresKept
    <3> QED
      BY <1>6, <2>1, <2>2, <3>1 DEF Confirmed
  <2>3. CASE auctions'[n][k] = auctions[n][k]
    <3>1. has_reputation_to_commit(ledger[n], n)
      BY <1>6, <2>1 DEF Confirmed
    <3>2. HasWin(ledger[n], k)
      BY <1>6, <2>3, <3>1 DEF IInv, WinsAreConfirmed
    <3> QED
      BY <1>3, <2>1, <3>2, AddedKeepsWins
  <2> QED
    BY <2>1, <2>2, <2>3
<1>7. WinsAreConfirmed'
  BY <1>6 DEF WinsAreConfirmed
<1> QED
  BY <1>2, <1>5, <1>7

\* A call for a real copy is sound: its encoding loses nothing.
LEMMA CallIsSound ==
    ASSUME NEW node \in Node, NEW sender \in Node, NEW a \in Real
    PROVE  CallOf(node, sender, a) \in Sound
<1>1. a \in Auction /\ OverTheWire(a) = a
  BY WireKeepsWellFormed DEF Real
<1> QED
  BY <1>1 DEF CallOf, Sound, Handler

\* The running handler is one of the chain, and can be replaced or removed.
LEMMA ChainFacts ==
    ASSUME NEW S, NEW calls \in Seq(S), NEW h \in S, calls # <<>>
    PROVE  /\ Running(calls) \in S
           /\ Front(calls) \in Seq(S)
           /\ WithRunning(calls, h) \in Seq(S)
<1>1. Len(calls) \in Nat \ {0} /\ Len(calls) \in 1 .. Len(calls)
  OBVIOUS
<1>2. Front(calls) \in Seq(S)
  BY <1>1 DEF Front
<1> QED
  BY <1>1, <1>2 DEF Running, WithRunning

\* The least element of a set of naturals is in the set.
LEMMA MinOf ==
    ASSUME NEW T \in SUBSET Nat, T # {}
    PROVE  Min(T) \in T
<1>1. \E x \in T : \A y \in T : x <= y
  BY SmallestOf
<1> QED
  BY <1>1 DEF Min

\* A call extends the chain, or what is left of it below an earlier call.
LEMMA PushFacts ==
    ASSUME NEW S, NEW calls \in Seq(S), NEW call \in S
    PROVE  Push(calls, call) \in Seq(S)
<1> DEFINE earlier == {i \in DOMAIN calls : /\ calls[i].node = call.node
                                            /\ calls[i].sender = call.sender}
<1>1. CASE earlier = {}
  BY <1>1 DEF Push
<1>2. CASE earlier # {}
  <2>1. earlier \in SUBSET Nat /\ earlier \subseteq 1 .. Len(calls) /\ Len(calls) \in Nat
    OBVIOUS
  <2>2. Push(calls, call) = Append(SubSeq(calls, 1, Min(earlier) - 1), call)
    BY <1>2 DEF Push
  <2> HIDE DEF earlier
  <2>3. Min(earlier) \in 1 .. Len(calls)
    BY <1>2, <2>1, MinOf
  <2>4. SubSeq(calls, 1, Min(earlier) - 1) \in Seq(S)
    BY <2>1, <2>3
  <2> QED
    BY <2>2, <2>4
<1> QED
  BY <1>1, <1>2

----------------------------------------------------------------------------
(* The invariant: the initial states, and one lemma per action *)

LEMMA InitIInv == Init => IInv
<1> SUFFICES ASSUME Init PROVE IInv
  OBVIOUS
<1>1. Asleep \in Client
  BY DEF Asleep, Client
<1>2. TypeOK
  BY <1>1, NetworkAssumption DEF Init, TypeOK
<1>3. StoresReal /\ BidsOnOthers /\ WinsAreReal /\ WinsAreConfirmed
  BY DEF Init, StoresReal, BidsOnOthers, WinsAreReal, WinsAreConfirmed
<1>4. ClientsReal
  BY DEF Init, ClientsReal, Asleep
<1>5. chain \in [Node -> Seq(Sound)]
  BY DEF Init
<1> QED
  BY <1>2, <1>3, <1>4, <1>5 DEF IInv

\* What every step has to show beyond the stores and ledgers.
LEMMA StepKeeps ==
    ASSUME IInv, StoresKept,
           now' \in 0 .. MaxTime, now <= now',
           offered' \subseteq Key, offered \subseteq offered',
           placed' \subseteq [key : Key, buyer : Node, amount : Nat], placed \subseteq placed',
           BidsOnOthers', client' \in [Node -> Client], ClientsReal',
           chain' \in [Node -> Seq(Sound')]
    PROVE  IInv'
<1>1. now' \in Nat
  BY NetworkAssumption
<1>2. StoresReal' /\ WinsAreReal' /\ WinsAreConfirmed'
  BY <1>1, LedgersStep
<1>3. chain' \in [Node -> Seq(Handler)]
  <2>1. Sound' \subseteq Handler
    BY DEF Sound
  <2>2. \A n \in Node : chain'[n] \in Seq(Sound')
    OBVIOUS
  <2>3. \A n \in Node : chain'[n] \in Seq(Handler)
    BY <2>1, <2>2, SeqMonotonic
  <2> QED
    BY <2>3
<1>4. TypeOK'
  BY <1>3 DEF StoresKept, TypeOK
<1> QED
  BY <1>2, <1>4 DEF IInv

\* The steps that leave offers, bids and the clock alone.
LEMMA QuietStep ==
    ASSUME IInv, StoresKept, UNCHANGED <<now, offered, placed>>,
           client' \in [Node -> Client], chain' \in [Node -> Seq(Sound)],
           \A n \in Node : /\ client'[n].closed \subseteq Real
                           /\ client'[n].auction # None => client'[n].auction \in Real
                           /\ client'[n].at = "acting" => client'[n].auction \in Real
    PROVE  IInv'
<1>1. Real' = Real
  BY DEF Real, BidsPlaced
<1>2. Sound' = Sound
  BY <1>1 DEF Sound
<1>3. ClientsReal'
  BY <1>1 DEF ClientsReal
<1>4. BidsOnOthers'
  BY DEF IInv, BidsOnOthers
<1>5. /\ now' \in 0 .. MaxTime /\ now <= now'
      /\ offered' \subseteq Key /\ offered \subseteq offered'
      /\ placed' \subseteq [key : Key, buyer : Node, amount : Nat] /\ placed \subseteq placed'
  BY NetworkAssumption DEF IInv, TypeOK
<1> QED
  BY <1>2, <1>3, <1>4, <1>5, StepKeeps

\* The steps of a handler.
LEMMA HandlerStep ==
    ASSUME IInv, StoresKept, UNCHANGED <<now, client, offered, placed>>,
           chain' \in [Node -> Seq(Sound)]
    PROVE  IInv'
<1>1. client' \in [Node -> Client]
  BY DEF IInv, TypeOK
<1>2. \A n \in Node : /\ client'[n].closed \subseteq Real
                      /\ client'[n].auction # None => client'[n].auction \in Real
                      /\ client'[n].at = "acting" => client'[n].auction \in Real
  BY DEF IInv, ClientsReal
<1> QED
  BY <1>1, <1>2, QuietStep

\* The running handler of a chain that is not empty.
LEMMA RunningIsSound ==
    ASSUME IInv, NEW n \in Node, chain[n] # <<>>
    PROVE  LET h == Running(chain[n]) IN
           /\ chain[n] \in Seq(Sound) /\ chain \in [Node -> Seq(Sound)]
           /\ h \in Sound /\ h \in Handler
           /\ h.auction \in Real /\ h.auction.key \in Key
           /\ Closest[h.auction.key][h.node] \in Seq(Node)
           /\ h.todo \subseteq DOMAIN Closest[h.auction.key][h.node]
           /\ h.todo \in SUBSET Nat
<1> DEFINE h == Running(chain[n])
<1>1. chain[n] \in Seq(Sound)
  BY DEF IInv
<1>2. h \in Sound
  <2>1. Len(chain[n]) \in 1 .. Len(chain[n])
    BY <1>1
  <2> QED
    BY <1>1, <2>1 DEF Running
<1> HIDE DEF h
<1>3. h \in Handler /\ h.auction \in Real /\ h.node \in Node
      /\ h.todo \subseteq DOMAIN Closest[h.auction.key][h.node]
  BY <1>2 DEF Sound, Handler
<1>4. h.auction.key \in Key
  BY <1>3 DEF Real, Auction
<1>5. Closest[h.auction.key][h.node] \in Seq(Node)
  BY <1>3, <1>4, NetworkAssumption
<1>6. h.todo \in SUBSET Nat
  BY <1>3, <1>5
<1> QED
  BY <1>1, <1>2, <1>3, <1>4, <1>5, <1>6 DEF h, IInv

\* Store: the copy a handler stores is real, and it calls nodes of Closest.
LEMMA StoreIInv ==
    ASSUME IInv, NEW n \in Node, Store(n)
    PROVE  IInv'
<1> DEFINE h == Running(chain[n])
           closest == Closest[h.auction.key][h.node]
           others == {i \in DOMAIN closest : closest[i] \notin {h.node, h.sender}}
           stored == [h EXCEPT !.stored = TRUE, !.todo = others]
<1>1. chain[n] # <<>>
  BY DEF Store
<1>2. /\ chain[n] \in Seq(Sound) /\ chain \in [Node -> Seq(Sound)]
      /\ h \in Sound /\ h \in Handler /\ h.auction \in Real
      /\ closest \in Seq(Node)
  BY <1>1, RunningIsSound
<1>3. chain' = [chain EXCEPT ![n] = WithRunning(chain[n], stored)]
  BY DEF Store
<1>4. StoresKept
  <2>1. CASE h.node \in ToSet(closest)
    <3>1. store_auction(h.node, h.auction) /\ h.node \in Node
      BY <1>2, <2>1 DEF Store, Handler
    <3> QED
      BY <1>2, <3>1, StoreKept DEF IInv
  <2>2. CASE h.node \notin ToSet(closest)
    <3>1. UNCHANGED <<auctions, ledger>>
      BY <2>2 DEF Store
    <3> QED
      BY <3>1, NoStoreKept DEF IInv
  <2> QED
    BY <2>1, <2>2
<1>5. UNCHANGED <<now, client, offered, placed>>
  BY DEF Store
<1>6. stored \in Sound
  <2>1. others \in SUBSET Nat /\ others \subseteq DOMAIN closest
    BY <1>2
  <2> HIDE DEF h, others
  <2>2. stored \in Handler
    BY <1>2, <2>1 DEF Handler
  <2>3. stored.auction = h.auction /\ stored.node = h.node /\ stored.todo = others
    BY <1>2 DEF Handler
  <2> HIDE DEF stored
  <2> QED
    BY <1>2, <2>1, <2>2, <2>3 DEF Sound
<1> HIDE DEF h, stored
<1>7. WithRunning(chain[n], stored) \in Seq(Sound)
  BY <1>1, <1>2, <1>6, ChainFacts
<1>8. chain' \in [Node -> Seq(Sound)]
  BY <1>2, <1>3, <1>7
<1> QED
  BY <1>4, <1>5, <1>8, HandlerStep

\* A handler that has one node less to call is sound.
LEMMA OneLessToCall ==
    ASSUME NEW h \in Sound, NEW i
    PROVE  [h EXCEPT !.todo = @ \ {i}] \in Sound
BY DEF Sound, Handler

\* Forward: the next call is to a node of Closest, with a real copy.
LEMMA ForwardIInv ==
    ASSUME IInv, NEW n \in Node, Forward(n)
    PROVE  IInv'
<1> DEFINE h == Running(chain[n])
           next == Min(h.todo)
           closest == Closest[h.auction.key][h.node]
           rest == [h EXCEPT !.todo = @ \ {next}]
           call == CallOf(closest[next], h.node, h.auction)
<1>1. chain[n] # <<>> /\ h.todo # {}
  BY DEF Forward
<1>2. /\ chain[n] \in Seq(Sound) /\ chain \in [Node -> Seq(Sound)]
      /\ h \in Sound /\ h \in Handler /\ h.auction \in Real
      /\ closest \in Seq(Node)
      /\ h.todo \subseteq DOMAIN closest /\ h.todo \in SUBSET Nat
  BY <1>1, RunningIsSound
<1>3. chain' = [chain EXCEPT ![n] = Push(WithRunning(chain[n], rest), call)]
  BY DEF Forward
<1>4. StoresKept
  BY NoStoreKept DEF IInv, Forward
<1>5. UNCHANGED <<now, client, offered, placed>>
  BY DEF Forward
<1> HIDE DEF h, closest
<1>6. next \in h.todo
  BY <1>1, <1>2, MinOf
<1>7. closest[next] \in Node /\ h.node \in Node
  BY <1>2, <1>6 DEF Handler
<1>8. call \in Sound
  BY <1>2, <1>7, CallIsSound
<1>9. rest \in Sound
  BY <1>2, OneLessToCall
<1> HIDE DEF call, rest, next
<1>10. WithRunning(chain[n], rest) \in Seq(Sound)
  BY <1>1, <1>2, <1>9, ChainFacts
<1>11. Push(WithRunning(chain[n], rest), call) \in Seq(Sound)
  BY <1>8, <1>10, PushFacts
<1>12. chain' \in [Node -> Seq(Sound)]
  BY <1>2, <1>3, <1>11
<1> QED
  BY <1>4, <1>5, <1>12, HandlerStep

\* ForwardFails: there is one call less to make.
LEMMA ForwardFailsIInv ==
    ASSUME IInv, NEW n \in Node, ForwardFails(n)
    PROVE  IInv'
<1> DEFINE h == Running(chain[n])
           rest == [h EXCEPT !.todo = @ \ {Min(h.todo)}]
<1>1. chain[n] # <<>>
  BY DEF ForwardFails
<1>2. chain[n] \in Seq(Sound) /\ chain \in [Node -> Seq(Sound)] /\ h \in Sound
  BY <1>1, RunningIsSound
<1>3. chain' = [chain EXCEPT ![n] = WithRunning(chain[n], rest)]
  BY DEF ForwardFails
<1>4. StoresKept
  BY NoStoreKept DEF IInv, ForwardFails
<1>5. UNCHANGED <<now, client, offered, placed>>
  BY DEF ForwardFails
<1> HIDE DEF h
<1>6. rest \in Sound
  BY <1>2, OneLessToCall
<1> HIDE DEF rest
<1>7. WithRunning(chain[n], rest) \in Seq(Sound)
  BY <1>1, <1>2, <1>6, ChainFacts
<1>8. chain' \in [Node -> Seq(Sound)]
  BY <1>2, <1>3, <1>7
<1> QED
  BY <1>4, <1>5, <1>8, HandlerStep

\* Answer: the callers of a sound chain are sound.
LEMMA AnswerIInv ==
    ASSUME IInv, NEW n \in Node, Answer(n)
    PROVE  IInv'
<1>1. chain[n] # <<>>
  BY DEF Answer
<1>2. /\ chain[n] \in Seq(Sound) /\ chain \in [Node -> Seq(Sound)]
      /\ Running(chain[n]) \in Sound
  BY <1>1, RunningIsSound
<1>3. Front(chain[n]) \in Seq(Sound)
  BY <1>1, <1>2, ChainFacts
<1>4. chain' \in [Node -> Seq(Sound)]
  BY <1>2, <1>3 DEF Answer
<1>5. StoresKept
  BY NoStoreKept DEF IInv, Answer
<1>6. UNCHANGED <<now, client, offered, placed>>
  BY DEF Answer
<1> QED
  BY <1>4, <1>5, <1>6, HandlerStep

\* publish_auction, wherever the client goes from there.
LEMMA PublishIInv ==
    ASSUME IInv, NEW n \in Node, NEW a \in Real, NEW next \in Client,
           publish_auction(n, a, next), UNCHANGED <<now, offered, placed>>,
           next.closed \subseteq Real, next.auction # None => next.auction \in Real,
           next.at = "acting" => next.auction \in Real
    PROVE  IInv'
<1>1. StoresKept
  BY StoreKept DEF IInv, publish_auction
<1>2. Asleep \in Client /\ Asleep.closed = {} /\ Asleep.auction = None /\ Asleep.at = "asleep"
  BY DEF Asleep, Client
<1>3. PICK c \in {next, Asleep} : client' = [client EXCEPT ![n] = c]
  BY DEF publish_auction
<1>4. client \in [Node -> Client]
  BY DEF IInv, TypeOK
<1>5. client' \in [Node -> Client]
  BY <1>2, <1>3, <1>4
<1>6. \A m \in Node : /\ client'[m].closed \subseteq Real
                      /\ client'[m].auction # None => client'[m].auction \in Real
                      /\ client'[m].at = "acting" => client'[m].auction \in Real
  BY <1>2, <1>3, <1>4 DEF IInv, ClientsReal
<1>7. chain' \in [Node -> Seq(Sound)]
  <2>1. chain \in [Node -> Seq(Sound)]
    BY DEF IInv
  <2>2. CallOf(Bootstrap, n, a) \in Sound
    BY CallIsSound, NetworkAssumption
  <2>3. <<CallOf(Bootstrap, n, a)>> \in Seq(Sound)
    BY <2>2
  <2> QED
    BY <2>1, <2>3 DEF publish_auction
<1> QED
  BY <1>1, <1>5, <1>6, <1>7, QuietStep

\* StartTick: what the client is to publish is what its node closed.
LEMMA StartTickIInv ==
    ASSUME IInv, NEW n \in Node, StartTick(n)
    PROVE  IInv'
<1>1. StoresKept
  BY CloseKept DEF IInv, StartTick
<1>2. Closed(n) \subseteq Real
  BY ClosedIsReal DEF IInv
<1>3. Closed(n) \in SUBSET Auction
  BY <1>2 DEF Real
<1>4. client \in [Node -> Client]
  BY DEF IInv, TypeOK
<1>5. client' = [client EXCEPT ![n] = [@ EXCEPT !.at = "closing", !.closed = Closed(n)]]
  BY <1>4 DEF StartTick, Client
<1>6. client' \in [Node -> Client]
  BY <1>3, <1>4, <1>5 DEF Client
<1>7. /\ client'[n].closed = Closed(n) /\ client'[n].auction = client[n].auction
      /\ client'[n].at = "closing"
  BY <1>4, <1>5 DEF Client
<1>8. \A m \in Node : m # n => client'[m] = client[m]
  BY <1>4, <1>5
<1>9. \A m \in Node : /\ client'[m].closed \subseteq Real
                      /\ client'[m].auction # None => client'[m].auction \in Real
                      /\ client'[m].at = "acting" => client'[m].auction \in Real
  BY <1>2, <1>7, <1>8 DEF IInv, ClientsReal
<1>10. chain' \in [Node -> Seq(Sound)] /\ UNCHANGED <<now, offered, placed>>
  BY DEF StartTick, IInv
<1> QED
  BY <1>1, <1>6, <1>9, <1>10, QuietStep

\* PublishClosed: the copies a client has closed are real.
LEMMA PublishClosedIInv ==
    ASSUME IInv, NEW n \in Node, PublishClosed(n)
    PROVE  IInv'
<1>1. PICK a \in client[n].closed : publish_auction(n, a, [client[n] EXCEPT !.closed = @ \ {a}])
  BY DEF PublishClosed
<1> DEFINE next == [client[n] EXCEPT !.closed = @ \ {a}]
<1>2. client[n] \in Client /\ UNCHANGED <<now, offered, placed>>
  BY DEF IInv, TypeOK, PublishClosed
<1>3. /\ next \in Client /\ next.closed = client[n].closed \ {a}
      /\ next.auction = client[n].auction /\ next.at = client[n].at
  BY <1>2 DEF Client
<1>4. publish_auction(n, a, next)
  BY <1>1
<1> HIDE DEF next
<1> QED
  BY <1>2, <1>3, <1>4, PublishIInv DEF IInv, ClientsReal

\* PublishAction: so is the copy of its action.
LEMMA PublishActionIInv ==
    ASSUME IInv, NEW n \in Node, PublishAction(n)
    PROVE  IInv'
<1>1. client[n].auction \in Real
  BY DEF IInv, ClientsReal, PublishAction, ClientAt
<1>2. Asleep \in Client /\ Asleep.closed = {} /\ Asleep.auction = None /\ Asleep.at = "asleep"
  BY DEF Asleep, Client
<1>3. publish_auction(n, client[n].auction, Asleep) /\ UNCHANGED <<now, offered, placed>>
  BY DEF PublishAction
<1> QED
  BY <1>1, <1>2, <1>3, PublishIInv

\* Rest: the client puts everything down.
LEMMA RestIInv ==
    ASSUME IInv, NEW n \in Node, Rest(n)
    PROVE  IInv'
<1>1. StoresKept
  BY NoStoreKept DEF IInv, Rest
<1>2. client \in [Node -> Client] /\ client' = [client EXCEPT ![n] = Asleep]
  BY DEF IInv, TypeOK, Rest
<1>3. Asleep \in Client /\ Asleep.closed = {} /\ Asleep.auction = None /\ Asleep.at = "asleep"
  BY DEF Asleep, Client
<1>4. \A m \in Node : /\ client'[m].closed \subseteq Real
                      /\ client'[m].auction # None => client'[m].auction \in Real
                      /\ client'[m].at = "acting" => client'[m].auction \in Real
  BY <1>2, <1>3 DEF IInv, ClientsReal
<1>5. chain' \in [Node -> Seq(Sound)] /\ UNCHANGED <<now, offered, placed>>
  BY DEF Rest, IInv
<1> QED
  BY <1>1, <1>2, <1>3, <1>4, <1>5, QuietStep

\* A client that has drawn an action holds the copy a of it.
LEMMA DrawStep ==
    ASSUME IInv, NEW n \in Node, NEW a \in Real',
           client' = [client EXCEPT ![n].at = "acting", ![n].auction = a],
           UNCHANGED <<auctions, ledger, now, chain>>,
           offered' \subseteq Key, offered \subseteq offered',
           placed' \subseteq [key : Key, buyer : Node, amount : Nat], placed \subseteq placed',
           BidsOnOthers'
    PROVE  IInv'
<1>1. now \in 0 .. MaxTime /\ MaxTime \in Nat
  BY NetworkAssumption DEF IInv, TypeOK
<1>2. Real \subseteq Real' /\ Sound \subseteq Sound'
  BY <1>1, RealGrows
<1>3. StoresKept
  BY NoStoreKept DEF IInv
<1>4. client \in [Node -> Client] /\ chain \in [Node -> Seq(Sound)]
  BY DEF IInv, TypeOK
<1>5. a \in Auction
  BY DEF Real
<1>6. client' = [client EXCEPT ![n] = [@ EXCEPT !.at = "acting", !.auction = a]]
  BY <1>4 DEF Client
<1>7. client' \in [Node -> Client]
  BY <1>4, <1>5, <1>6 DEF Client
<1>8. /\ client'[n].closed = client[n].closed /\ client'[n].auction = a
      /\ \A m \in Node : m # n => client'[m] = client[m]
  BY <1>4, <1>6 DEF Client
<1>9. ClientsReal'
  BY <1>2, <1>8 DEF IInv, ClientsReal
<1>10. chain' \in [Node -> Seq(Sound')]
  <2>1. \A m \in Node : chain[m] \in Seq(Sound')
    BY <1>2, <1>4, SeqMonotonic
  <2> QED
    BY <1>4, <2>1
<1> QED
  BY <1>1, <1>3, <1>7, <1>9, <1>10, StepKeeps

\* Create: a new offer has no bids and is open.
LEMMA CreateIInv ==
    ASSUME IInv, NEW n \in Node, NEW k \in Key, Create(n, k)
    PROVE  IInv'
<1> DEFINE a == new_with_duration(k, now, Duration)
<1>1. now \in Nat /\ Duration \in Nat
  BY NetworkAssumption DEF IInv, TypeOK
<1>2. a \in Auction /\ a.key = k /\ a.bids = <<>> /\ a.status = "open" /\ WellFormed(a)
  BY <1>1 DEF new_with_duration, Auction, AuctionStatus, WellFormed, BidsRise,
              WinnerIsHighestBidder
<1>3. a \in Real'
  <2>1. k \in offered'
    BY DEF Create
  <2> HIDE DEF a
  <2> QED
    BY <1>2, <2>1 DEF Real, BidsPlaced
<1>4. client' = [client EXCEPT ![n].at = "acting", ![n].auction = a]
  BY DEF Create
<1>5. /\ offered' \subseteq Key /\ offered \subseteq offered'
      /\ placed' \subseteq [key : Key, buyer : Node, amount : Nat] /\ placed \subseteq placed'
      /\ BidsOnOthers' /\ UNCHANGED <<auctions, ledger, now, chain>>
  BY DEF Create, IInv, TypeOK, BidsOnOthers
<1> HIDE DEF a
<1> QED
  BY <1>3, <1>4, <1>5, DrawStep

\* BidOn: the bid is placed, on an offer of someone else, and beats the price.
LEMMA BidOnIInv ==
    ASSUME IInv, NEW n \in Node, NEW k \in Key, NEW raise \in Raise, BidOn(n, k, raise)
    PROVE  IInv'
<1> DEFINE a == auctions[n][k]
           amount == highest_bid_amount(a) + raise
           bid == [key |-> k, buyer |-> n, amount |-> amount]
           b == place_bid(a, n, amount)
<1>1. a \in Real /\ a.key = k
  BY DEF BidOn, IInv, StoresReal
<1>2. a \in Auction /\ WellFormed(a) /\ BidsPlaced(a) /\ k \in offered
  BY <1>1 DEF Real
<1>3. amount \in Nat
  <2>1. highest_bid_amount(a) \in Nat
    BY <1>2, PriceIsLastBid DEF WellFormed
  <2>2. raise \in Nat
    BY NetworkAssumption
  <2> QED
    BY <2>1, <2>2
<1>4. n \in Address /\ now \in Int
  BY NetworkAssumption DEF IInv, TypeOK
<1>5. AcceptsBid(a, amount, now) /\ placed' = placed \cup {bid} /\ SellerOf[k] # n
      /\ UNCHANGED <<auctions, ledger, now, chain, offered>>
      /\ client' = [client EXCEPT ![n].at = "acting", ![n].auction = b]
  BY DEF BidOn
<1> HIDE DEF a, amount
<1>6. b \in Auction /\ WellFormed(b)
  BY <1>2, <1>3, <1>4, <1>5, PlaceBidIsWellFormed
<1>7. b.key = k /\ b.bids = Append(a.bids, [buyer |-> n, amount |-> amount])
      /\ b.status = "open"
  BY <1>1, <1>2, <1>5 DEF place_bid, Auction, AcceptsBid
<1> HIDE DEF b
<1>8. \A i \in DOMAIN b.bids :
         [key |-> k, buyer |-> b.bids[i].buyer, amount |-> b.bids[i].amount] \in placed'
  <2>1. a.bids \in Seq(Bid) /\ [buyer |-> n, amount |-> amount] \in Bid
    BY <1>2, <1>3, <1>4, BidTypes DEF Bid
  <2>2. /\ DOMAIN b.bids = 1 .. Len(a.bids) + 1 /\ DOMAIN a.bids = 1 .. Len(a.bids)
        /\ Len(a.bids) \in Nat
        /\ b.bids[Len(a.bids) + 1] = [buyer |-> n, amount |-> amount]
        /\ \A i \in DOMAIN a.bids : b.bids[i] = a.bids[i]
    BY <2>1, <1>7, AppendFacts
  <2>3. ASSUME NEW i \in DOMAIN b.bids
        PROVE  [key |-> k, buyer |-> b.bids[i].buyer, amount |-> b.bids[i].amount] \in placed'
    <3>1. CASE i = Len(a.bids) + 1
      BY <3>1, <2>2, <1>5
    <3>2. CASE i \in DOMAIN a.bids
      <4>1. [key |-> k, buyer |-> a.bids[i].buyer, amount |-> a.bids[i].amount] \in placed
        BY <1>1, <1>2, <3>2 DEF BidsPlaced
      <4> QED
        BY <4>1, <3>2, <2>2, <1>5
    <3> QED
      BY <3>1, <3>2, <2>2
  <2> QED
    BY <2>3
<1>9. b \in Real'
  BY <1>2, <1>5, <1>6, <1>7, <1>8 DEF Real, BidsPlaced
<1>10. BidsOnOthers'
  BY <1>5 DEF IInv, BidsOnOthers
<1>11. /\ offered' \subseteq Key /\ offered \subseteq offered'
       /\ placed' \subseteq [key : Key, buyer : Node, amount : Nat] /\ placed \subseteq placed'
  BY <1>3, <1>5 DEF IInv, TypeOK
<1> QED
  BY <1>5, <1>9, <1>10, <1>11, DrawStep

\* AdvanceClock: what is closed stays past its end.
LEMMA ClockIInv ==
    ASSUME IInv, AdvanceClock
    PROVE  IInv'
<1>1. now \in 0 .. MaxTime /\ MaxTime \in Nat /\ now' = now + 1 /\ now' \in 0 .. MaxTime
  BY NetworkAssumption DEF IInv, TypeOK, AdvanceClock
<1>2. UNCHANGED <<auctions, ledger, client, chain, offered, placed>>
  BY DEF AdvanceClock
<1>3. Real \subseteq Real' /\ Sound \subseteq Sound'
  BY <1>1, <1>2, RealGrows
<1>4. StoresKept
  BY <1>2, NoStoreKept DEF IInv
<1>5. ClientsReal' /\ BidsOnOthers'
  BY <1>2, <1>3 DEF IInv, ClientsReal, BidsOnOthers
<1>6. chain' \in [Node -> Seq(Sound')]
  <2>1. \A m \in Node : chain[m] \in Seq(Sound')
    BY <1>3, SeqMonotonic DEF IInv
  <2> QED
    BY <1>2, <2>1 DEF IInv
<1>7. /\ client' \in [Node -> Client] /\ offered' \subseteq Key
      /\ placed' \subseteq [key : Key, buyer : Node, amount : Nat]
  BY <1>2 DEF IInv, TypeOK
<1> QED
  BY <1>1, <1>2, <1>4, <1>5, <1>6, <1>7, StepKeeps

LEMMA StepIInv == IInv /\ [Next]_vars => IInv'
<1> SUFFICES ASSUME IInv, [Next]_vars PROVE IInv'
  OBVIOUS
<1>1. ASSUME NEW n \in Node, Work(n) PROVE IInv'
  BY <1>1, StartTickIInv, PublishClosedIInv, CreateIInv, BidOnIInv, PublishActionIInv,
     RestIInv DEF Work
<1>2. ASSUME NEW n \in Node, Serve(n) PROVE IInv'
  BY <1>2, StoreIInv, ForwardIInv, ForwardFailsIInv, AnswerIInv DEF Serve
<1>3. CASE UNCHANGED vars
  <2>1. StoresKept
    BY <1>3, NoStoreKept DEF IInv, vars
  <2>2. chain' \in [Node -> Seq(Sound)]
    BY <1>3 DEF IInv, vars
  <2> QED
    BY <1>3, <2>1, <2>2, HandlerStep DEF vars
<1> QED
  BY <1>1, <1>2, <1>3, ClockIInv DEF Next

----------------------------------------------------------------------------
(* Theorems *)

THEOREM Inductive == Spec => []IInv
  BY InitIInv, StepIInv, PTL DEF Spec

\* Stores, ledgers, clients and chains of handlers are always of their types.
THEOREM TypeCorrect == Spec => []TypeOK
<1>1. IInv => TypeOK
  BY DEF IInv
<1> QED
  BY <1>1, Inductive, PTL

\* However publications of any nodes interleave, and whichever connections fail,
\* every copy anywhere is well formed, has only bids that were placed, and is
\* closed only after its end (place_bid, close_if_expired, store_auction).
THEOREM CopiesReal == Spec => []CopiesAreReal
<1>1. IInv => CopiesAreReal
  <2> SUFFICES ASSUME IInv, NEW a \in Copies, a # None PROVE a \in Real
    BY DEF CopiesAreReal, Real
  <2>1. \A n \in Node : \A i \in DOMAIN chain[n] : chain[n][i].auction \in Real
    <3>1. \A n \in Node : chain[n] \in Seq(Sound)
      BY DEF IInv
    <3>2. \A n \in Node : \A i \in DOMAIN chain[n] : chain[n][i] \in Sound
      BY <3>1
    <3> QED
      BY <3>2 DEF Sound
  <2>2. \A n \in Node, k \in Key : auctions[n][k] # None => auctions[n][k] \in Real
    BY DEF IInv, StoresReal
  <2>3. \A n \in Node : /\ client[n].closed \subseteq Real
                        /\ client[n].auction # None => client[n].auction \in Real
    BY DEF IInv, ClientsReal
  <2> DEFINE Stored == {auctions[n][k] : n \in Node, k \in Key}
             Acting == {client[n].auction : n \in Node}
             Closing == UNION {client[n].closed : n \in Node}
             Called(n) == {chain[n][i].auction : i \in DOMAIN chain[n]}
             Sent == UNION {Called(n) : n \in Node}
  <2>4. a \in Stored \cup Acting \cup Closing \cup Sent
    BY DEF Copies
  <2>5. CASE a \in Stored
    BY <2>2, <2>5
  <2>6. CASE a \in Acting
    BY <2>3, <2>6
  <2>7. CASE a \in Closing
    BY <2>3, <2>7
  <2>8. CASE a \in Sent
    <3>1. PICK n \in Node : a \in Called(n)
      BY <2>8
    <3> QED
      BY <2>1, <3>1
  <2> HIDE DEF Stored, Acting, Closing, Sent
  <2> QED
    BY <2>4, <2>5, <2>6, <2>7, <2>8
<1> QED
  BY <1>1, Inductive, PTL

\* No ledger ever holds a win that is not a bid of someone other than the seller
\* above the initial value (record_auction_win, close_expired_auctions).
THEOREM WinsReal == Spec => []WinsAreReal
<1>1. IInv => WinsAreReal
  BY DEF IInv
<1> QED
  BY <1>1, Inductive, PTL

\* A node that may commit has the win of every won auction in its store in its
\* ledger, in every consensus mode (store_auction, close_expired_auctions).
THEOREM WinsConfirmed == Spec => []WinsAreConfirmed
<1>1. IInv => WinsAreConfirmed
  BY DEF IInv
<1> QED
  BY <1>1, Inductive, PTL
=============================================================================
