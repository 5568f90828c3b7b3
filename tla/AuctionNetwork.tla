--------------------------- MODULE AuctionNetwork ---------------------------
(***************************************************************************)
(* A network of automated nodes: src/g_rpc/client.rs, whose loop closes,   *)
(* creates and bids on auctions, and the STORE handler of                  *)
(* src/g_rpc/server.rs, which stores a copy and forwards it.               *)
(*                                                                         *)
(* Every node runs a client thread and a server on the same store.  The    *)
(* client does one thing at a time: a copy it publishes goes into its own  *)
(* store and then by STORE to the bootstrap node, and it waits for the     *)
(* answer.  A handler answers only after every STORE it forwards has been  *)
(* answered, one after the other, so the handlers a publication keeps      *)
(* waiting form a chain of calls, the last of which is running.            *)
(*                                                                         *)
(* Store and ledger change under the locks of AuctionNode, which shows     *)
(* what happens inside them; here the two operations are atomic, nodes do  *)
(* not crash and writes do not fail.  Routing tables are settled: Closest  *)
(* is what get_closest_nodes_to_key returns.                               *)
(*                                                                         *)
(* A handler's calls depend only on itself, its caller and the key.  So a  *)
(* handler called from the same node further up its own chain will, for    *)
(* lack of connections to run out of, repeat what led there forever.  Such *)
(* a call takes the place of the earlier one in the chain: the chain stays *)
(* finite, and is never answered, exactly as in the program.               *)
(***************************************************************************)
EXTENDS Ledger

CONSTANTS
    Node,       \* the running nodes
    Bootstrap,  \* the node every client publishes to
    Closest,    \* Closest[k][n]: the nodes n holds closest to key k, in order
    Duration,   \* Config::auction_duration_ms
    Raise,      \* how much an automated bid adds to the price
    MaxAmount,  \* bound: the highest bid explored
    MaxTime,    \* bound: the clock stops here, no offer ends later
    Recreate,   \* whether a seller may draw an offer it has drawn before
    LinkFails   \* whether a connection may be refused

ASSUME NetworkAssumption ==
    /\ Node \subseteq Address
    /\ IsFiniteSet(Key)
    /\ Bootstrap \in Node
    /\ Closest \in [Key -> [Node -> Seq(Node)]]
    /\ Duration \in Nat \ {0}
    /\ Raise \subseteq Nat \ {0}
    /\ MaxAmount \in Nat
    /\ MaxTime \in Nat
    /\ Recreate \in BOOLEAN
    /\ LinkFails \in BOOLEAN

VARIABLES
    auctions,  \* the store of each node
    ledger,    \* the ledger of each node
    now,       \* the clock; the nodes run on one host
    client,    \* what each client thread is doing
    chain,     \* the handlers working for each client, the running one last
    offered,   \* history: the keys offered so far
    placed     \* history: the bids placed so far

vars == <<auctions, ledger, now, client, chain, offered, placed>>

\* A client is asleep between ticks, closing while it has closed copies to
\* publish or an action to draw, or acting when it is about to publish the copy
\* of its action.  It waits in that state while its chain is not empty.
Client == [at      : {"asleep", "closing", "acting"},
           closed  : SUBSET Auction,
           auction : Auction \cup {None}]

Asleep == [at |-> "asleep", closed |-> {}, auction |-> None]

\* A STORE handler: the node it runs on, the sender, the copy, whether it has
\* been through the store, and the positions, among the closest nodes to the key,
\* of those it has still to forward to.
Handler == [node : Node, sender : Node, auction : Auction, stored : BOOLEAN,
            todo : SUBSET Nat]

TypeOK ==
    /\ auctions \in [Node -> [Key -> Auction \cup {None}]]
    /\ ledger \in [Node -> Seq(Block)]
    /\ now \in 0 .. MaxTime
    /\ client \in [Node -> Client]
    /\ chain \in [Node -> Seq(Handler)]
    /\ offered \subseteq Key
    /\ placed \subseteq [key : Key, buyer : Node, amount : Nat]

Init ==
    /\ auctions = [n \in Node |-> [k \in Key |-> None]]
    /\ ledger = [n \in Node |-> <<>>]
    /\ now = 0
    /\ client = [n \in Node |-> Asleep]
    /\ chain = [n \in Node |-> <<>>]
    /\ offered = {}
    /\ placed = {}

----------------------------------------------------------------------------
(* The two operations of AuctionNode on the store and ledger of node n *)

\* Mutation: a closed copy is taken to have a winner.
store_auction_AnyClosed(n, a) ==
    /\ auctions' = [auctions EXCEPT ![n][a.key] = a]
    /\ ledger' = IF a.status = "closed"
                 THEN [ledger EXCEPT ![n] = record_auction_win(@, n, a)]
                 ELSE ledger

\* Mutation: only close_expired_auctions records wins.
store_auction_NoRecord(n, a) ==
    /\ auctions' = [auctions EXCEPT ![n][a.key] = a]
    /\ UNCHANGED ledger

store_auction(n, a) ==
    /\ auctions' = [auctions EXCEPT ![n][a.key] = a]
    /\ ledger' = IF HasWinner(a)
                 THEN [ledger EXCEPT ![n] = record_auction_win(@, n, a)]
                 ELSE ledger

\* The closed copies of the auctions of node n that have expired.
Closed(n) ==
    {close_auction(a) : a \in {b \in {auctions[n][k] : k \in Key} :
                                  b # None /\ Expired(b, now)}}

\* The wins of the auctions it closes are recorded in some order.
close_expired_auctions(n) ==
    /\ auctions' = [auctions EXCEPT ![n] =
                       [k \in Key |-> IF @[k] = None THEN None
                                      ELSE close_if_expired(@[k], now)]]
    /\ \E won \in SetToSeqs({a \in Closed(n) : HasWinner(a)}) :
          ledger' = [ledger EXCEPT ![n] = record_auction_wins(@, n, won)]

----------------------------------------------------------------------------
(* STORE calls *)

CallOf(node, sender, a) ==
    [node |-> node, sender |-> sender, auction |-> OverTheWire(a), stored |-> FALSE,
     todo |-> {}]

\* A handler is called, in place of the handler it repeats if there is one.
Push(calls, call) ==
    LET earlier == {i \in DOMAIN calls : /\ calls[i].node = call.node
                                         /\ calls[i].sender = call.sender}
    IN IF earlier = {} THEN Append(calls, call)
       ELSE Append(SubSeq(calls, 1, Min(earlier) - 1), call)

\* The running handler of a chain, and the chain with another in its place.
Running(calls) == calls[Len(calls)]
WithRunning(calls, handler) == Append(Front(calls), handler)

\* Mutation: the copy is also sent back to the node it came from.
Store_ToSender(n) ==
    LET h == Running(chain[n])
        closest == Closest[h.auction.key][h.node]
        others == {i \in DOMAIN closest : closest[i] # h.node} IN
    /\ chain[n] # <<>>
    /\ ~h.stored
    /\ IF h.node \in ToSet(closest)
       THEN store_auction(h.node, h.auction)
       ELSE UNCHANGED <<auctions, ledger>>
    /\ chain' = [chain EXCEPT ![n] =
                    WithRunning(@, [h EXCEPT !.stored = TRUE, !.todo = others])]
    /\ UNCHANGED <<now, client, offered, placed>>

\* The running handler stores the copy if its node is among the closest.
Store(n) ==
    LET h == Running(chain[n])
        closest == Closest[h.auction.key][h.node]
        others == {i \in DOMAIN closest : closest[i] \notin {h.node, h.sender}} IN
    /\ chain[n] # <<>>
    /\ ~h.stored
    /\ IF h.node \in ToSet(closest)
       THEN store_auction(h.node, h.auction)
       ELSE UNCHANGED <<auctions, ledger>>
    /\ chain' = [chain EXCEPT ![n] =
                    WithRunning(@, [h EXCEPT !.stored = TRUE, !.todo = others])]
    /\ UNCHANGED <<now, client, offered, placed>>

\* It calls the next of the other closest nodes and waits.
Forward(n) ==
    LET h == Running(chain[n])
        next == Min(h.todo) IN
    /\ chain[n] # <<>>
    /\ h.stored /\ h.todo # {}
    /\ chain' = [chain EXCEPT ![n] =
                    Push(WithRunning(@, [h EXCEPT !.todo = @ \ {next}]),
                         CallOf(Closest[h.auction.key][h.node][next], h.node, h.auction))]
    /\ UNCHANGED <<auctions, ledger, now, client, offered, placed>>

\* A node that cannot be connected to is passed over.
ForwardFails(n) ==
    LET h == Running(chain[n]) IN
    /\ LinkFails
    /\ chain[n] # <<>>
    /\ h.stored /\ h.todo # {}
    /\ chain' = [chain EXCEPT ![n] =
                    WithRunning(@, [h EXCEPT !.todo = @ \ {Min(h.todo)}])]
    /\ UNCHANGED <<auctions, ledger, now, client, offered, placed>>

\* It answers; its caller, a handler or the client, goes on.
Answer(n) ==
    LET h == Running(chain[n]) IN
    /\ chain[n] # <<>>
    /\ h.stored /\ h.todo = {}
    /\ chain' = [chain EXCEPT ![n] = Front(@)]
    /\ UNCHANGED <<auctions, ledger, now, client, offered, placed>>

Serve(n) == Store(n) \/ Forward(n) \/ ForwardFails(n) \/ Answer(n)

----------------------------------------------------------------------------
(* The client thread: start, run_automation_tick, publish_auction *)

\* Client n is not waiting, and has reached this point of its tick.
ClientAt(n, at) == chain[n] = <<>> /\ client[n].at = at

\* What is left to do in the tick is to draw an action.
Drawing(n) == ClientAt(n, "closing") /\ client[n].closed = {}

\* Client n publishes a; next is its state once it is answered.  If it cannot
\* connect, the error ends the tick and with it what was still to be published.
publish_auction(n, a, next) ==
    /\ store_auction(n, a)
    /\ \/ /\ client' = [client EXCEPT ![n] = next]
          /\ chain' = IF n = Bootstrap THEN chain
                      ELSE [chain EXCEPT ![n] = <<CallOf(Bootstrap, n, a)>>]
       \/ /\ LinkFails /\ n # Bootstrap
          /\ client' = [client EXCEPT ![n] = Asleep]
          /\ UNCHANGED chain

\* run_automation_tick begins: the node closes what has expired.
StartTick(n) ==
    /\ ClientAt(n, "asleep")
    /\ close_expired_auctions(n)
    /\ client' = [client EXCEPT ![n].at = "closing",
                                ![n].closed = Closed(n)]
    /\ UNCHANGED <<now, chain, offered, placed>>

\* The copies that were closed are published one by one.
PublishClosed(n) ==
    /\ ClientAt(n, "closing")
    /\ \E a \in client[n].closed :
          publish_auction(n, a, [client[n] EXCEPT !.closed = @ \ {a}])
    /\ UNCHANGED <<now, offered, placed>>

\* create_random_auction draws an offer of this seller.
Create(n, k) ==
    /\ Drawing(n)
    /\ SellerOf[k] = n
    /\ k \in offered => Recreate
    /\ now + Duration <= MaxTime
    /\ client' = [client EXCEPT ![n].at = "acting",
                                ![n].auction = new_with_duration(k, now, Duration)]
    /\ offered' = offered \cup {k}
    /\ UNCHANGED <<auctions, ledger, now, chain, placed>>

\* bid_on_random_auction reads a copy from the store and bids on it.
BidOn(n, k, raise) ==
    LET a == auctions[n][k]
        amount == highest_bid_amount(a) + raise IN
    /\ Drawing(n)
    /\ a # None
    /\ SellerOf[k] # n
    /\ AcceptsBid(a, amount, now)
    /\ amount <= MaxAmount
    /\ client' = [client EXCEPT ![n].at = "acting", ![n].auction = place_bid(a, n, amount)]
    /\ placed' = placed \cup {[key |-> k, buyer |-> n, amount |-> amount]}
    /\ UNCHANGED <<auctions, ledger, now, chain, offered>>

\* The copy of the action is published; the store may have changed meanwhile.
PublishAction(n) ==
    /\ ClientAt(n, "acting")
    /\ publish_auction(n, client[n].auction, Asleep)
    /\ UNCHANGED <<now, offered, placed>>

\* The tick draws no action, finds nothing to bid on, or its bid is refused.
Rest(n) ==
    /\ Drawing(n)
    /\ client' = [client EXCEPT ![n] = Asleep]
    /\ UNCHANGED <<auctions, ledger, now, chain, offered, placed>>

Work(n) ==
    \/ StartTick(n)
    \/ PublishClosed(n)
    \/ \E k \in Key : Create(n, k)
    \/ \E k \in Key, raise \in Raise : BidOn(n, k, raise)
    \/ PublishAction(n)
    \/ Rest(n)

AdvanceClock ==
    /\ now < MaxTime
    /\ now' = now + 1
    /\ UNCHANGED <<auctions, ledger, client, chain, offered, placed>>

Next == AdvanceClock \/ \E n \in Node : Work(n) \/ Serve(n)

Spec == Init /\ [][Next]_vars

\* Time passes, client threads keep ticking and handlers keep running.
Fairness ==
    /\ WF_vars(AdvanceClock)
    /\ \A n \in Node : WF_vars(Work(n)) /\ WF_vars(Serve(n))

FairSpec == Spec /\ Fairness

----------------------------------------------------------------------------
(* Properties *)

\* Every copy in a store, in a client's hands or under way between nodes.
Copies ==
    {auctions[n][k] : n \in Node, k \in Key} \cup {client[n].auction : n \in Node}
    \cup (UNION {client[n].closed : n \in Node})
    \cup (UNION {{chain[n][i].auction : i \in DOMAIN chain[n]} : n \in Node})

\* The bids of a copy were placed.
BidsPlaced(a) ==
    \A i \in DOMAIN a.bids :
        [key |-> a.key, buyer |-> a.bids[i].buyer, amount |-> a.bids[i].amount] \in placed

\* However copies overtake and replace each other, each one is well formed,
\* has only bids that were placed, and is closed only after its end.
CopiesAreReal ==
    \A a \in Copies \ {None} :
        /\ WellFormed(a)
        /\ a.key \in offered
        /\ BidsPlaced(a)
        /\ a.status = "closed" => a.ends_at <= now

\* Every block of every ledger confirms a bid that its buyer placed, above the
\* initial value, on an offer of the seller it pays, who is someone else.
WinsAreReal ==
    \A n \in Node : \A i \in DOMAIN ledger[n] :
        LET t == ledger[n][i].transaction IN
        /\ [key |-> t.auction, buyer |-> t.sender, amount |-> t.amount] \in placed
        /\ t.amount > InitialValue[t.auction]
        /\ t.recipient = SellerOf[t.auction]
        /\ t.sender # t.recipient

\* Every won auction in a store is in that node's ledger, even if the block was
\* made for another copy of it, unless the node may not commit.
WinsAreConfirmed ==
    \A n \in Node, k \in Key :
        /\ has_reputation_to_commit(ledger[n], n)
        /\ auctions[n][k] # None /\ HasWinner(auctions[n][k])
        => HasWin(ledger[n], k)

\* The price of an auction never falls in any store.
PriceNeverFalls ==
    [][\A n \in Node, k \in Key :
          auctions[n][k] # None =>
              highest_bid_amount(auctions'[n][k]) >= highest_bid_amount(auctions[n][k])]_vars

\* Every publication is answered.
PublishReturns == \A n \in Node : chain[n] # <<>> ~> chain[n] = <<>>

\* In the end every copy in every store is closed, though copies that are still
\* open keep arriving after others are closed.
EventuallyClosed ==
    <>[](\A n \in Node, k \in Key :
            auctions[n][k] # None => auctions[n][k].status = "closed")
=============================================================================
