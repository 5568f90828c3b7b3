------------------------------ MODULE Discovery ------------------------------
(***************************************************************************)
(* How nodes find each other and the copies of an auction, over routing    *)
(* tables that change meanwhile: iterative_find_node, the one-shot         *)
(* commands and find_auction_in_network of src/g_rpc/client.rs, and the    *)
(* FIND_NODE, FIND_VALUE and STORE handlers of src/g_rpc/server.rs.        *)
(*                                                                         *)
(* Servers are the bootstrap node and long-running peers; each process has *)
(* keys and files of its own.  A command has no server: nobody reaches it. *)
(* One auction is enough to follow, since the handlers treat each key by   *)
(* itself; its copies do not matter here, only who holds one.              *)
(*                                                                         *)
(* A FIND handler computes its reply and then inserts its sender, under    *)
(* locks it takes one after the other; both steps run without an await, so *)
(* a handler finishes though its caller is gone.                           *)
(***************************************************************************)
EXTENDS Buckets

CONSTANTS
    Bootstrap,   \* the address of the bootstrap node
    Peer,        \* the addresses of long-running peers
    Command,     \* the addresses of one-shot commands
    Op,          \* what each command may do: "create", "find" or "bid"
    AuctionKey,  \* the key of the auction
    Faults,      \* which of "kill", "link" and "io" can happen
    MaxStarts,   \* bound: how often each server is started
    MaxDepth     \* bound: how many STORE calls wait for each other

Server == {Bootstrap} \cup Peer
Node == Server \cup Command

ASSUME DiscoveryAssumption ==
    /\ Node \subseteq Address /\ AuctionKey \in Address
    /\ Bootstrap \notin Peer /\ Server \cap Command = {}
    /\ Op \in [Command -> SUBSET {"create", "find", "bid"}]
    /\ Faults \subseteq {"kill", "link", "io"}
    /\ MaxStarts \in [Server -> Nat] /\ MaxDepth \in Nat

VARIABLES
    table,     \* the routing table of each server
    starts,    \* how often each server has been started
    up,        \* the servers that are running
    lookup,    \* where each peer is in join_network and iterative_find_node
    command,   \* where each command is
    chain,     \* the STORE handlers working for each command, the running one last
    held,      \* the servers that have the auction in memory
    saved,     \* the servers that have it in auctions.json
    happened   \* history: the faults that have happened so far

vars == <<table, starts, up, lookup, command, chain, held, saved, happened>>

\* A peer is off, accepted or about to be by the bootstrap node, about to ask the
\* next node, waiting for it, or working through the news of its reply.
Lookup ==
    [at        : {"off", "joining", "seeding", "asking", "called", "taking", "done"},
     node      : Node,          \* the node asked last
     shortlist : SUBSET Node,             \* whom it has still to ask
     queried   : SUBSET Node,             \* whom it has asked
     found     : SUBSET Node,             \* found_nodes
     news      : Seq(Node),               \* the reply, then what is left of it
     earlier   : SUBSET Peer]             \* history: who had finished before it joined

Off == [at |-> "off", node |-> Bootstrap, shortlist |-> {}, queried |-> {},
        found |-> {}, news |-> <<>>, earlier |-> {}]

\* A command is about to join, asking for the auction, waiting for a reply,
\* about to publish, waiting for its STORE, or at one of its ends.
CommandState ==
    [at      : {"start", "asking", "called", "publishing", "storing",
                "published", "found", "missing", "failed"},
     op      : {"create", "find", "bid"},
     queue   : Seq(Node),     \* nodes_to_query, without those it would skip
     queried : SUBSET Node,   \* whom it has asked
     value   : BOOLEAN,       \* whether its own file, then the reply, has the auction
     news    : Seq(Node),     \* or the nodes of the reply
     missed  : SUBSET Node]   \* history: who was passed over by its STORE

Handler == [node : Server, todo : Seq(Node)]

TypeOK ==
    /\ table \in [Server -> [Bucket -> Seq(Node)]]
    /\ starts \in [Server -> Nat] /\ \A n \in Server : starts[n] <= MaxStarts[n]
    /\ up \subseteq Server
    /\ lookup \in [Peer -> Lookup]
    /\ command \in [Command -> CommandState]
    /\ chain \in [Command -> Seq(Handler)]
    /\ held \subseteq Server /\ saved \subseteq Server
    /\ happened \subseteq Faults
    /\ \A n \in Server : \A b \in Bucket :
          /\ \A i \in DOMAIN table[n][b] :
                table[n][b][i] # n /\ get_bucket_index(n, table[n][b][i]) = b
          /\ IsInjective(table[n][b])
          /\ MaxEntries > 0 => Len(table[n][b]) <= MaxEntries

Fresh(op, own) == [at |-> "start", op |-> op, queue |-> <<>>, queried |-> {}, value |-> own,
                   news |-> <<>>, missed |-> {}]

\* Unless the auction is created in this run, an earlier command on the same port
\* may have left it in the command's own auctions.json: publish_auction stores it
\* there before it is sent, whether it then arrives or not.
Init ==
    /\ table = [n \in Server |-> NoContacts]
    /\ starts = [n \in Server |-> 0]
    /\ up = {}
    /\ lookup = [p \in Peer |-> Off]
    /\ command \in [Command -> {Fresh(op, own) : op \in {"create", "find", "bid"}, own \in BOOLEAN}]
    /\ \A c \in Command : command[c].op \in Op[c]
    /\ \A c, d \in Command : command[c].value => command[d].op # "create"
    /\ chain = [c \in Command |-> <<>>]
    /\ held = {} /\ saved = {}
    /\ happened = {}

----------------------------------------------------------------------------
(* Calls *)

\* The tables after server s has inserted m into its own.
WithContact(s, m) ==
    [table EXCEPT ![s] = insert_contact(s, @, m)]

ClosestTo(s, target) == get_closest_nodes_to_key(s, table[s], target)

\* The elements of s that are in S, in their order.
Keep(s, S) ==
    LET kept[i \in 0 .. Len(s)] ==
            IF i = 0 THEN <<>>
            ELSE IF s[i] \in S THEN Append(kept[i - 1], s[i])
            ELSE kept[i - 1]
    IN kept[Len(s)]

\* Mutation: a server that does not know the target names only itself.
find_node_Itself(s, target) ==
    IF find_node_id(s, table[s], target) THEN <<target>> ELSE <<s>>

\* The reply of server s's FIND_NODE handler.
find_node(s, target) ==
    IF find_node_id(s, table[s], target) THEN <<target>>
    ELSE IF ClosestTo(s, target) = <<>> THEN <<s>>
    ELSE ClosestTo(s, target)

\* A call to node n gets through, or the node is not there or cannot be reached.
Reached(n) == n \in up /\ UNCHANGED happened
Unreached(n) ==
    \/ n \notin up /\ UNCHANGED happened
    \/ n \in up /\ "link" \in Faults /\ happened' = happened \cup {"link"}

----------------------------------------------------------------------------
(* Processes *)

\* Node::new: an empty routing table, and the auctions of the file.
Start(n) ==
    /\ n \notin up
    /\ starts[n] < MaxStarts[n]
    /\ up' = up \cup {n}
    /\ starts' = [starts EXCEPT ![n] = @ + 1]
    /\ held' = IF n \in saved THEN held \cup {n} ELSE held
    /\ lookup' = IF n \in Peer THEN [lookup EXCEPT ![n].at = "joining"] ELSE lookup
    /\ UNCHANGED <<table, command, chain, saved, happened>>

\* The peers and commands whose call to server n is lost.
Waiting(n) == {p \in Peer \ {n} : lookup[p].at = "called" /\ lookup[p].node = n}
Asking(n) == {c \in Command : command[c].at = "called" /\ Head(command[c].queue) = n}
Chained(n) == {c \in Command : \E i \in DOMAIN chain[c] : chain[c][i].node = n}

\* The handlers up to the one that called server n.
Callers(n, calls) == SubSeq(calls, 1, Min({i \in DOMAIN calls : calls[i].node = n}) - 1)

\* Server n ends.  Whoever waits for it is told; of a chain of STORE calls the
\* handlers behind it are dropped, and the handler before it goes on.  The
\* handler that serves n's own call inserts n all the same.
Kill(n) ==
    /\ "kill" \in Faults
    /\ n \in up
    /\ up' = up \ {n}
    /\ happened' = happened \cup {"kill"}
    /\ held' = held \ {n}
    /\ table' = IF n \in Peer /\ lookup[n].at = "called"
                THEN [WithContact(lookup[n].node, n) EXCEPT ![n] = NoContacts]
                ELSE [table EXCEPT ![n] = NoContacts]
    /\ lookup' = [p \in Peer |->
                     IF p = n THEN Off
                     ELSE IF p \in Waiting(n) THEN [lookup[p] EXCEPT !.at = "asking", !.news = <<>>]
                     ELSE lookup[p]]
    /\ chain' = [c \in Command |->
                    IF c \in Chained(n) THEN Callers(n, chain[c]) ELSE chain[c]]
    /\ command' = [c \in Command |->
                      IF c \in Asking(n) \/ (c \in Chained(n) /\ chain'[c] = <<>>)
                      THEN [command[c] EXCEPT !.at = "failed", !.news = <<>>, !.value = FALSE]
                      ELSE IF c \in Chained(n)
                      THEN [command[c] EXCEPT !.missed = @ \cup {n}]
                      ELSE command[c]]
    /\ UNCHANGED <<starts, saved>>

----------------------------------------------------------------------------
(* join_network after the challenge, and iterative_find_node for oneself *)

\* The bootstrap node has accepted the peer, which inserts it.
Join(p) ==
    /\ lookup[p].at = "joining"
    /\ Bootstrap \in up
    /\ table' = WithContact(p, Bootstrap)
    /\ lookup' = [lookup EXCEPT ![p].at = "seeding",
                                ![p].earlier = {q \in Peer \ {p} : lookup[q].at = "done"}]
    /\ UNCHANGED <<starts, up, command, chain, held, saved, happened>>

Seed(p) ==
    /\ lookup[p].at = "seeding"
    /\ lookup' = [lookup EXCEPT ![p].at = "asking",
                                ![p].shortlist = ToSet(get_k_closest_nodes(p, table[p], p, {}))]
    /\ UNCHANGED <<table, starts, up, command, chain, held, saved, happened>>

\* The shortlist is in order of distance whenever a node is taken from it.
NextToAsk(p, n) ==
    /\ lookup[p].at = "asking" /\ n \in lookup[p].shortlist
    /\ \A m \in lookup[p].shortlist \ {n} : Closer(n, m, p)

\* The peer after it has taken node n from the shortlist.
Asked(p, n) == [lookup[p] EXCEPT !.node = n, !.shortlist = @ \ {n}, !.queried = @ \cup {n}]

\* The closest node on the shortlist is asked, and its handler computes the reply.
Ask(p, n) ==
    /\ NextToAsk(p, n)
    /\ Reached(n)
    /\ lookup' = [lookup EXCEPT ![p] = [Asked(p, n) EXCEPT !.at = "called",
                                                          !.news = find_node(n, p)]]
    /\ UNCHANGED <<table, starts, up, command, chain, held, saved>>

\* Mutation: a node that cannot be asked is tried again.
AskFails_Retry(p, n) ==
    /\ NextToAsk(p, n)
    /\ Unreached(n)
    /\ lookup' = [lookup EXCEPT ![p].node = n]
    /\ UNCHANGED <<table, starts, up, command, chain, held, saved>>

\* Or it cannot be asked, and is skipped.
AskFails(p, n) ==
    /\ NextToAsk(p, n)
    /\ Unreached(n)
    /\ lookup' = [lookup EXCEPT ![p] = Asked(p, n)]
    /\ UNCHANGED <<table, starts, up, command, chain, held, saved>>

\* The nodes of the reply that the peer has not asked and that are not itself.
News(p) == Keep(lookup[p].news, Node \ ({p} \cup lookup[p].queried))

\* Mutation: the handler does not insert its sender.
Reply_NotInserted(p) ==
    /\ lookup[p].at = "called"
    /\ lookup' = [lookup EXCEPT ![p].at = "taking", ![p].news = News(p)]
    /\ UNCHANGED <<table, starts, up, command, chain, held, saved, happened>>

\* The handler inserts the peer; the reply arrives, or is lost.
Reply(p) ==
    /\ lookup[p].at = "called"
    /\ table' = WithContact(lookup[p].node, p)
    /\ \/ /\ lookup' = [lookup EXCEPT ![p].at = "taking", ![p].news = News(p)]
          /\ UNCHANGED happened
       \/ /\ "link" \in Faults
          /\ lookup' = [lookup EXCEPT ![p].at = "asking", ![p].news = <<>>]
          /\ happened' = happened \cup {"link"}
    /\ UNCHANGED <<starts, up, command, chain, held, saved>>

\* Mutation: a found node is not inserted.
Take_NotInserted(p) ==
    LET m == Head(lookup[p].news) IN
    /\ lookup[p].at = "taking" /\ lookup[p].news # <<>>
    /\ lookup' = [lookup EXCEPT ![p].news = Tail(@),
                                ![p].shortlist = @ \cup {m},
                                ![p].found = @ \cup {m}]
    /\ UNCHANGED <<table, starts, up, command, chain, held, saved, happened>>

\* The peer takes up the next of the new nodes.  It keeps it as found, and in its
\* table, only if the node it asked is not among those it had found.
Take(p) ==
    LET m == Head(lookup[p].news)
        keeps == lookup[p].node \notin lookup[p].found IN
    /\ lookup[p].at = "taking" /\ lookup[p].news # <<>>
    /\ lookup' = [lookup EXCEPT ![p].news = Tail(@),
                                ![p].shortlist = @ \cup {m},
                                ![p].found = IF keeps THEN @ \cup {m} ELSE @]
    /\ table' = IF keeps THEN WithContact(p, m) ELSE table
    /\ UNCHANGED <<starts, up, command, chain, held, saved, happened>>

\* No news are left, or nobody to ask.
Continue(p) ==
    /\ \/ /\ lookup[p].at = "taking" /\ lookup[p].news = <<>>
          /\ lookup' = [lookup EXCEPT ![p].at = "asking"]
       \/ /\ lookup[p].at = "asking" /\ lookup[p].shortlist = {}
          /\ lookup' = [lookup EXCEPT ![p].at = "done"]
    /\ UNCHANGED <<table, starts, up, command, chain, held, saved, happened>>

Search(p) ==
    \/ Seed(p) \/ Reply(p) \/ Take(p) \/ Continue(p)
    \/ \E n \in Node : Ask(p, n) \/ AskFails(p, n)

----------------------------------------------------------------------------
(* One-shot commands: run_command and find_auction_in_network *)

\* A command in this state, with nothing of a reply left.
At(c, at) == [command[c] EXCEPT !.at = at, !.value = FALSE, !.news = <<>>]

\* The command has the auction: it is found, or a bid taken to be accepted is
\* about to be published.
Obtained(c) == At(c, IF command[c].op = "bid" THEN "publishing" ELSE "found")

\* The command has joined; to find or bid it looks into its own file first, then
\* asks the bootstrap node.
Begin(c) ==
    /\ command[c].at = "start"
    /\ Bootstrap \in up
    /\ command' = [command EXCEPT ![c] =
                      IF command[c].op = "create" THEN At(c, "publishing")
                      ELSE IF command[c].value THEN Obtained(c)
                      ELSE [At(c, "asking") EXCEPT !.queue = <<Bootstrap>>]]
    /\ UNCHANGED <<table, starts, up, lookup, chain, held, saved, happened>>

\* The next node is asked; its FIND_VALUE handler finds the auction or computes
\* the closest nodes.
AskValue(c) ==
    LET n == Head(command[c].queue) IN
    /\ command[c].at = "asking" /\ command[c].queue # <<>>
    /\ Reached(n)
    /\ command' = [command EXCEPT ![c].at = "called",
                                  ![c].queried = @ \cup {n},
                                  ![c].value = n \in held,
                                  ![c].news = IF n \in held THEN <<>>
                                              ELSE ClosestTo(n, AuctionKey)]
    /\ UNCHANGED <<table, starts, up, lookup, chain, held, saved>>

\* A node that cannot be asked fails the command.
AskValueFails(c) ==
    /\ command[c].at = "asking" /\ command[c].queue # <<>>
    /\ Unreached(Head(command[c].queue))
    /\ command' = [command EXCEPT ![c] = At(c, "failed")]
    /\ UNCHANGED <<table, starts, up, lookup, chain, held, saved>>

\* Mutation: a node that was asked is asked again when a reply names it.
ReplyValue_AskedAgain(c) ==
    LET s == command[c]
        new == Node \ ({c} \cup ToSet(Tail(s.queue))) IN
    /\ s.at = "called"
    /\ table' = WithContact(Head(s.queue), c)
    /\ command' = [command EXCEPT ![c] =
                      IF ~s.value
                      THEN [At(c, "asking") EXCEPT !.queue = Tail(s.queue) \o Keep(s.news, new)]
                      ELSE Obtained(c)]
    /\ UNCHANGED <<starts, up, lookup, chain, held, saved, happened>>

\* The handler inserts the command, which goes on with the reply: nodes of the
\* reply that are not in the queue and were not asked are asked later.
ReplyValue(c) ==
    LET s == command[c]
        new == Node \ ({c} \cup s.queried \cup ToSet(s.queue)) IN
    /\ s.at = "called"
    /\ table' = WithContact(Head(s.queue), c)
    /\ \/ /\ command' = [command EXCEPT ![c] =
                            IF ~s.value
                            THEN [At(c, "asking") EXCEPT !.queue = Tail(s.queue) \o Keep(s.news, new)]
                            ELSE Obtained(c)]
          /\ UNCHANGED happened
       \/ /\ "link" \in Faults
          /\ command' = [command EXCEPT ![c] = At(c, "failed")]
          /\ happened' = happened \cup {"link"}
    /\ UNCHANGED <<starts, up, lookup, chain, held, saved>>

\* Nobody is left to ask.
NotFound(c) ==
    /\ command[c].at = "asking" /\ command[c].queue = <<>>
    /\ command' = [command EXCEPT ![c] = At(c, "missing")]
    /\ UNCHANGED <<table, starts, up, lookup, chain, held, saved, happened>>

Query(c) == AskValue(c) \/ AskValueFails(c) \/ ReplyValue(c) \/ NotFound(c)

----------------------------------------------------------------------------
(* STORE *)

\* Mutation: only a server that stores the auction forwards it.
store_OnlyStored(c, n, sender, calls) ==
    LET closest == ClosestTo(n, AuctionKey)
        mine == n \in ToSet(closest)
        others == Keep(closest, Node \ {n, sender}) IN
    /\ held' = IF mine THEN held \cup {n} ELSE held
    /\ saved' = IF mine THEN saved \cup {n} ELSE saved
    /\ chain' = [chain EXCEPT ![c] = Append(calls, [node |-> n,
                                                   todo |-> IF mine THEN others ELSE <<>>])]
    /\ UNCHANGED happened

\* The STORE handler of server n stores the auction if n is among the closest,
\* and has then to forward it to the others but its sender; if the write fails
\* the copy is in memory only and nothing is forwarded.  calls are the handlers
\* that wait for it.
store(c, n, sender, calls) ==
    LET closest == ClosestTo(n, AuctionKey)
        mine == n \in ToSet(closest)
        others == Keep(closest, Node \ {n, sender}) IN
    /\ held' = IF mine THEN held \cup {n} ELSE held
    /\ \/ /\ saved' = IF mine THEN saved \cup {n} ELSE saved
          /\ chain' = [chain EXCEPT ![c] = Append(calls, [node |-> n, todo |-> others])]
          /\ UNCHANGED happened
       \/ /\ mine /\ "io" \in Faults
          /\ saved' \in {saved, saved \ {n}}
          /\ chain' = [chain EXCEPT ![c] = Append(calls, [node |-> n, todo |-> <<>>])]
          /\ happened' = happened \cup {"io"}

\* publish_auction sends the copy to the bootstrap node, or fails.
Publish(c) ==
    /\ command[c].at = "publishing"
    /\ Bootstrap \in up
    /\ command' = [command EXCEPT ![c] = At(c, "storing")]
    /\ store(c, Bootstrap, c, <<>>)
    /\ UNCHANGED <<table, starts, up, lookup>>

\* The bootstrap node cannot be reached, or the command cannot write its copy to
\* a file of its own.
PublishFails(c) ==
    /\ command[c].at = "publishing"
    /\ \/ Unreached(Bootstrap)
       \/ "io" \in Faults /\ happened' = happened \cup {"io"}
    /\ command' = [command EXCEPT ![c] = At(c, "failed")]
    /\ UNCHANGED <<table, starts, up, lookup, chain, held, saved>>

Running(c) == Last(chain[c])

\* The running handler's chain with one node less to forward to.
Forwarded(c) ==
    Append(Front(chain[c]), [Running(c) EXCEPT !.todo = Tail(@)])

Forward(c) ==
    LET m == Head(Running(c).todo) IN
    /\ command[c].at = "storing" /\ Running(c).todo # <<>>
    /\ Len(chain[c]) < MaxDepth
    /\ m \in up
    /\ store(c, m, Running(c).node, Forwarded(c))
    /\ UNCHANGED <<table, starts, up, lookup, command>>

\* A node that cannot be reached is passed over.
ForwardFails(c) ==
    LET m == Head(Running(c).todo) IN
    /\ command[c].at = "storing" /\ Running(c).todo # <<>>
    /\ Unreached(m)
    /\ chain' = [chain EXCEPT ![c] = Forwarded(c)]
    /\ command' = [command EXCEPT ![c].missed = @ \cup {m}]
    /\ UNCHANGED <<table, starts, up, lookup, held, saved>>

\* The running handler answers, and the last answer ends the command.
Answer(c) ==
    /\ command[c].at = "storing" /\ Running(c).todo = <<>>
    /\ chain' = [chain EXCEPT ![c] = Front(@)]
    /\ command' = IF Len(chain[c]) = 1
                  THEN [command EXCEPT ![c] = At(c, "published")] ELSE command
    /\ UNCHANGED <<table, starts, up, lookup, held, saved, happened>>

\* The connection of one of the calls that wait is lost: its caller goes on, and
\* the handlers behind it are dropped.
CallLost(c) ==
    /\ "link" \in Faults
    /\ happened' = happened \cup {"link"}
    /\ \E i \in DOMAIN chain[c] :
          /\ chain' = [chain EXCEPT ![c] = SubSeq(@, 1, i - 1)]
          /\ command' = [command EXCEPT ![c] =
                            IF i = 1 THEN At(c, "failed")
                            ELSE [command[c] EXCEPT !.missed = @ \cup {chain[c][i].node}]]
    /\ UNCHANGED <<table, starts, up, lookup, held, saved>>

Run(c) ==
    Begin(c) \/ Query(c) \/ Publish(c) \/ PublishFails(c) \/ Forward(c) \/ ForwardFails(c)
    \/ Answer(c) \/ CallLost(c)

----------------------------------------------------------------------------

Next ==
    \/ \E n \in Server : Start(n) \/ Kill(n)
    \/ \E p \in Peer : Join(p) \/ Search(p)
    \/ \E c \in Command : Run(c)

Spec == Init /\ [][Next]_vars

\* As long as some search can take a step, one does: less than that each thread
\* goes on.  Whether a process is started or ends is free.
Fairness == WF_vars((\E p \in Peer : Search(p)) \/ (\E c \in Command : Query(c)))

FairSpec == Spec /\ Fairness

----------------------------------------------------------------------------
(* Properties *)

\* Server n has m in its table, or m's bucket is full, so that n may have had it.
Knows(n, m) ==
    m \in Contacts(table[n]) \/ Len(table[n][get_bucket_index(n, m)]) = MaxEntries

\* Until a connection fails the bootstrap node knows every peer that has joined,
\* restarted ones included, unless it was restarted itself or the peer's bucket
\* is full, so that a new contact may have pushed the peer out.  With a k_value of
\* 0 a peer would ask nobody.
KnownToBootstrap ==
    \A p \in Peer :
        /\ lookup[p].at = "done" /\ "link" \notin happened /\ KValue > 0
        /\ Bootstrap \in up /\ starts[Bootstrap] = 1
        => Knows(Bootstrap, p)

\* Without faults, whoever a peer has asked knows it, and it knows whoever it has
\* found, also while searches cross, unless a bucket is full.
Acquainted ==
    happened \cap {"kill", "link"} = {} =>
        \A p \in Peer :
            /\ \A n \in lookup[p].queried \cap up :
                   \/ lookup[p].at = "called" /\ lookup[p].node = n
                   \/ Knows(n, p)
            /\ \A n \in lookup[p].found : Knows(p, n)

\* Without faults, a peer whose search has ended knows the peers that had finished
\* before it joined and are still in the bootstrap node's table, unless its bucket
\* for them is full, as long as k_value counts the servers it can hear of and no
\* command has asked for the auction.
LaterJoinersMeet ==
    /\ happened \cap {"kill", "link"} = {}
    /\ Cardinality(Server) - 1 <= KValue
    /\ \A c \in Command : command[c].queried = {}
    => \A p \in Peer :
           lookup[p].at = "done" =>
               \A q \in lookup[p].earlier \cap Contacts(table[Bootstrap]) : Knows(p, q)

\* An auction whose publication was answered is in the memory or the file of a
\* server if nobody was passed over on the way, though each handler may have
\* forwarded it only.  A server that fails to write it has it until it is killed.
HeldIfReached ==
    \A c \in Command :
        /\ command[c].at = "published" /\ command[c].missed = {}
        /\ KValue >= 2 /\ ~ {"kill", "io"} \subseteq happened
        => held \cup saved # {}

\* An auction whose publication was answered is held by a server.
PublishedIsHeld == \A c \in Command : command[c].at = "published" => held # {}

\* Every search ends, for a node or for the auction, whomever it meets: as long as
\* one goes on there is a next step, and once starts are used up none goes on.
Searching ==
    \/ \E p \in Peer : lookup[p].at \in {"seeding", "asking", "called", "taking"}
    \/ \E c \in Command : command[c].at \in {"asking", "called"}
SearchesEnd == <>[]~Searching
=============================================================================
