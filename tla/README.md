# Verification of the Kademlia auction network

TLA+ models of the program under `src/`, the configurations with which TLC checks
them, and theorems about them that TLAPS checks. Paths below are relative to
`src/`, the root of the repository; `node.rs`, `g_rpc/server.rs` and the like are in
`src/src/`. `PROJECT.json` maps every definition to the lines it stands for.

## 1. The system

A node is one process with two threads on one `Node`: a gRPC server, and a client
that joins the network and then, if automation is on, keeps creating auctions,
bidding on them and closing them. All nodes run on one host and join through one
bootstrap node. A one-shot command is a process that has the client only: it joins,
creates, finds or bids, and exits.

| component | state | operations | talks to |
|---|---|---|---|
| auction domain, `auction.rs` | a copy of an auction: bids, status, end, winner | `new_with_duration`, `place_bid`, `close_if_expired`, protobuf conversion | none |
| node, `node.rs` | `auctions` and `ledger`, each behind a lock; identity, configuration | `store_auction`, `close_expired_auctions`, `record_auction_win`, `find_auction`, load at start | storage, consensus, blocks |
| storage, `storage.rs` | `auctions.json`, `ledger.json` | load, save (whole file) | file system |
| ledger, `blockchain/` | blocks linked by hash, one win each | `Block::new`, `Transaction::auction_won` | none |
| consensus, `consensus.rs` | none | `reputation_scores`, `has_reputation_to_commit` | ledger |
| server, `g_rpc/server.rs` | `challenges_map` behind a lock | PING, BOOTSTRAP, CHALLENGE_RESOLUTION, STORE, FIND_NODE, FIND_VALUE | node, routing table, other servers (STORE is forwarded) |
| client, `g_rpc/client.rs` | none that outlives a call | `join_network`, automation tick, `publish_auction`, one-shot commands, iterative lookups | node, servers |
| routing table, `routing/` | 255 buckets behind a lock | `insert_contact`, `find_node_id`, `get_k_closest_nodes` | none |
| authentication, `utils/crypto_own.rs`, `utils/config.rs` | key files of a port | read, make, derive; sign, verify, hash | file system |
| frame, `main.rs`, `command.rs`, `utils/` | configuration | start, parse, logging, Ctrl-C | all |

What is hard here:

* **Copies.** Every node keeps its own copy of an auction and replaces it by any copy
  that arrives. There is no version, no merge and no owner: bids overwrite bids, open
  copies overwrite closed ones, and nodes close different copies.
* **Writes and crashes.** Memory, two files and the answer to a caller change in
  sequence; writes fail, processes are killed, and `fs::write` truncates first.
* **Waiting.** A STORE handler answers after every STORE it forwards was answered; a
  client thread waits for its publication and closes nothing meanwhile. Nothing has
  a timeout.
* **Challenges.** One per identity, judged under a lock that is released before the
  challenge is removed; processes with the same `--port` share their identity.
* **Lookups.** Peers search for each other while other peers join, ask and stop; each
  handler answers from its own table and then changes it. Commands that exit at once are
  inserted like peers.
* **Keys.** A pair is two files, written when their buffers are dropped, private key last;
  commands and a peer with one `--port` share them.
* **Bounds.** Buckets of two entries, searches that stop at `K_VALUE` nodes in an order
  that is not the order of distance.

What makes each component correct: copies stay well formed and hold real bids; an
auction is confirmed by at most one block, and by one if a won copy is stored; the
ledger's links and its file agree with memory; every publication returns and every
auction is closed in the end; a process with time to solve its challenge joins; a
port has one identity and whoever gets started can be verified; searches end and
acquaint peers with each other; what is published is held by some server; a bucket keeps the latest contacts and a search returns the closest ones. Where the
program falls short of what its documentation says, section 4 says how.

## 2. Modules

| module | models | extends |
|---|---|---|
| `AuctionData` | `auction.rs`: the values, and the functions on one copy | |
| `Ledger` | `blockchain/`, `consensus.rs`, and the decision of `record_auction_win` | `AuctionData` |
| `WinLedger` | abstract: what a node's ledger promises | |
| `AuctionNode` | one node: `node.rs` and `storage.rs`, step by step, with faults | `Ledger`, refines `WinLedger` |
| `AuctionNetwork` | automated nodes: the client's tick and the STORE handlers | `Ledger` |
| `Buckets` | `routing/` and `Node::get_closest_nodes_to_key`: insertion and search as functions of a table | |
| `RoutingTable` | one routing table and what is inserted into it | `Buckets` |
| `JoinProtocol` | `join_network` and the two challenge handlers | |
| `Discovery` | `iterative_find_node`, the one-shot commands, the FIND_NODE, FIND_VALUE and STORE handlers over the tables of several nodes | `Buckets` |
| `NodeKeys` | `setup_keys`, the key part of `Config::read`, what messages signed with the keys are worth | |
| `MC...` | values of the constants for TLC | the module it is named after |
| `...Proofs` | theorems and their proofs; `LedgerProofs` and `BucketsProofs` are lemmas on `AuctionData`, `Ledger` and `Buckets` that the others cite | the module it is named after |

**AuctionData, Ledger.** Operators on values. A key stands for the object, initial
value and seller it hashes. An address, a key and a nonce have no text. The hash of a
block is ideal and represented by the transactions up to it. `OverTheWire` is the
protobuf round trip of a copy: a winning bid of 0 reads as none.

**AuctionNode.** Both operations that write hold the auctions lock to their end, so at
most one is in progress; `task` is that operation and where it stands. It can stop
between any two steps: `SaveFails` is a write that returns an error (the operation
returns at once, memory keeps what was changed, later steps are skipped), `Restart` is
a process that ends at any point and loads its files again. Each file is written in two
steps: truncated, so that it would load as empty, and complete. The closing pass takes
the stored copies in any order, since they come from a `HashSet`.

**AuctionNetwork.** `store_auction` and `close_expired_auctions` are one step each
(`AuctionNode` looks inside), nodes do not crash and writes do not fail. `client` is
where each client thread is in its tick; `chain` is the STORE calls its publication
waits for. Between reading a copy, bidding on it, storing it and sending it, all other
nodes run. A connection may be refused: a forwarding handler passes over the node, a
client loses the rest of its tick. `Closest` stands for settled routing tables; the `todo` of a
handler are the positions in it of the nodes it has still to forward to, in their order. A handler
that is called from the node that called it before, further up its own chain, would
repeat what led there for ever, so that the call takes the place of the earlier one: a
circle of calls stays finite and is never answered.

**Buckets, RoutingTable.** An address is the set of positions of its one bits, XOR is symmetric
difference, and the two lowest positions share bucket 0 as in the program. Two
history variables of `RoutingTable` record what was inserted and after what.

**JoinProtocol.** A process is at the start of an attempt, solving, waiting, joined or
exited; `handlers` are the resolution handlers between their read lock and their write
lock. A challenge is named after the request it was issued for. A nonce that solves
one challenge may solve another by chance, and then the verdict is free.
Requests and replies get lost, waiting clients lose their connection and their handler
is dropped or runs on, processes are killed and restarted with the keys on disk, the
bootstrap node restarts without its challenges. Sleeping between attempts is part of not having started the next.

**Discovery.** Servers have a routing table each; `lookup` is where each peer is between the
challenge and the end of its search for itself, `command` where each one-shot command is,
`chain` the STORE handlers that wait for each other, the running one last. A handler
computes its reply (`Ask`, `AskValue`) and then inserts its sender (`Reply`, `ReplyValue`);
between the two, and between any steps of a client, everyone else runs. The two reads of
the table that a FIND_NODE handler makes before it inserts its sender are one step.
The shortlist is a set because it is sorted whenever a node is taken from it and nodes
asked before are skipped; the queue of `find_auction_in_network` is kept without entries it
would skip. `Kill` ends a server at any point: its table and memory are gone, callers
get an error, handlers that ran for a call of it are dropped. `CallLost` is a STORE call
whose connection breaks; the handlers behind it are taken as dropped. One auction is
followed, since handlers treat each key by itself, and only who holds it; a bid is taken to
be accepted. `MaxDepth` bounds how many STORE calls wait for each other, `MaxStarts` how
often a server is started. Commands exit and are not started again. A command may find the auction
in the `auctions.json` of its own port (`Init`, `Begin`), where an earlier command left it, unless a
command of the instance creates the auction.

**NodeKeys.** Everything that happens to `keys/<port>` while processes with that port
start: reading each file, creating (and so emptying) a file, and writing it when the
`BufWriter` is dropped are steps of their own, in the order of the code: private key
created, public key created, public key written, private key written. A pair, its
signatures and the hash of its public key are one number; a file is what `read_key` makes
of it. The program writes private keys in the PKCS#8 form (`crypto_own.rs:98`) but derives a public key
only from the PKCS#1 form (`crypto_own.rs:122`): pair 0, which a user may have put there, has that
form, and with a pair the program made the derivation panics (`Abort`). The files start empty,
or with the private key of pair 0 or of pair 1 only. `Kill` ends a starting process, a write on drop may fail unnoticed, and with `shared`
in `Faults` a process starts while another one does.

## 3. What is checked

| run | instance | shows |
|---|---|---|
| `node_faults` | 2 auctions, 3 addresses, all copies of up to 2 bids, write failures and kills; proof of reputation with threshold 1 and a ledger that gives 1 point | `TypeOK`, `CopiesWellFormed`, `OneWinPerAuction`, `ChainLinked`, `FileIsPrefix`, `WinsConfirmed`, `Durable`, `EarnedReputation`, `ShortForever`, `ImplementsWinLedger` |
| `network_safety` | 3 nodes, 1 auction offered repeatedly, bids up to 2, 3 instants, refused connections; the bootstrap node is not among the closest | `TypeOK`, `CopiesAreReal`, `WinsAreReal`, `WinsAreConfirmed` |
| `network_live` | 3 nodes, `K_VALUE` 2, fair, refused connections | `PublishReturns`, `EventuallyClosed` |
| `routing_table` | 5-bit addresses, 6 contacts and the node itself, buckets of 2, `K_VALUE` 3 | `TypeOK`, `MostRecentStay`, `SearchesFillUp`, `SelfSearchIsExact`, `StoresWhatItShould` |
| `join_faults` | 2 processes with one identity, 2 starts of 1 attempt each, all faults, fair | `TypeOK`, `SpentIsGone`, `JoinsOrExits` |
| `join_own` | own identities, 2 attempts, challenges valid for 1 instant of 4, no faults, fair | `RejectedOnlyIfLate`, `EveryoneJoins` |
| `lookup` | 4-bit addresses, bootstrap node and 3 peers in one of its buckets of 2, `K_VALUE` 3, kills, fair | `Acquainted`, `LaterJoinersMeet`, `SearchesEnd` |
| `values` | bootstrap node and 1 peer, the peer started twice, 2 commands, one that creates or looks for the auction and one that looks for it and bids, `K_VALUE` 2, kills, lost calls, failing writes, fair | `TypeOK`, `KnownToBootstrap`, `HeldIfReached`, `SearchesEnd` |
| `keys` | 2 processes with one port, 3 pairs, kills, failing writes, overlapping starts | `TypeOK`, `ReadyIsAccepted`, `OneIdentity`, `OrphanedForever`, `BrokenForever` |

**Bounds and why they are enough.** `node_faults` runs in proof-of-reputation mode because there
nodes that may commit and, after a torn ledger file, nodes that may not both occur; in
proof-of-work mode the gate is always open, and the theorems cover it. Two auctions let one save carry the outcome of
another's operation; two bids by different bidders on one copy make copies that differ
in winner, and three bidders' nodes are the fewest on which two remote bids race at a
third node. In the network one auction suffices, since copies of different auctions
only meet in `AuctionNode`; time has one instant before the end of an offer and at
least one after it. With buckets of 2 the six contacts overfill one bucket, with
`K_VALUE` 3 searches need one, two or all buckets, and the search target ranges over all
32 addresses. The node's own address is 0 without loss of generality, for XOR with
any address maps the instances onto each other. Two processes suffice for the
challenge protocol because a challenge is shared by identity and a third process with
the same identity could only repeat what the second does. In `join_faults` a second attempt
comes from a second start, so that handlers of an abandoned attempt meet a later one;
attempts within one start are in `join_own`. In `lookup` three peers share a bucket of two, so that it
overfills, one search crosses another, and a third hears of both. In `values` one peer is
enough to forward to and to be killed with its copy; the command that bids is closer to the
key than the bootstrap node and fills the bucket of the peer. The search of the
command that bids starts at the bootstrap node and goes on to peers and commands that replies name, in tables
that restarts empty and other processes fill; two nodes that name each other would be enough for a search
without end. If nobody creates
the auction both commands look for it, in their own files first. The bootstrap node is killed there but not
started again, which the theorems cover for the invariants and no run for `SearchesEnd`. Three pairs let two processes
that start together each make one and another start follow. `MaxAmount`, `MaxTime`,
`MaxStarts`, `MaxDepth` and `MaxPairs` bound exploration only; the theorems do not depend on them.

**Fairness.** `AuctionNetwork`: the clock advances, every client thread keeps ticking
(`sleep_millis` returns, the loop of `start` never ends) and the running handler of a chain
takes its next step; which action a tick draws is not fair. `JoinProtocol`: client
threads go on (`proof_of_work` finds a nonce, `sleep_millis` returns) and handlers
finish. `Discovery`: as long as any search can take a step, some search takes one, which is
less than that each client thread and each handler goes on; whether servers are started
or killed is free. Nothing is assumed of faults. Deadlock is checked in `AuctionNode`,
`AuctionNetwork` and `RoutingTable`; in `JoinProtocol` a state in which every process
has joined or exited is where the protocol ends, in `Discovery` one in which all searches and
commands have ended, in `NodeKeys` one in which no further pair may be made, so
`CHECK_DEADLOCK FALSE`.

## 4. Where the program and its documentation part

Each run checks one statement of the documentation or of a comment, and TLC shows a violation.

| run | statement | behaviour |
|---|---|---|
| `network_cycle` | automatic auction closure (`README.md:24`) | with `K_VALUE` 3 of `.env`, STORE calls of three nodes wait for each other in a circle |
| `network_price` | bids must be strictly higher than the current price (`README.md:171`) | a copy with a lower bid overwrites the higher one |
| `values_lost` | auctions are stored by key and can be retrieved (`README.md:9`); one-shot commands do not stay in the routing table (`README.md:151`) | FIND_VALUE inserts its sender; commands that have exited take the places of the closest nodes, a STORE is forwarded to them only, and its answer hides that none of them was reached |

Other places where the properties had to be stated with care, because the code promises
less than one expects:

* A fresh node in proof-of-reputation mode, which is the default of
  `scripts/start_network.sh:18` although `README.md:193` names proof of work, never confirms a
  win (`README.md:196` says nodes do): `ShortForever` holds from the first state on, and
  `WinsConfirmed` is stated for nodes that are not short.
* A search stops at the bucket that fills it up, and the order of the buckets is not the order of
  distance, so that for other targets than the node itself it need not return the closest
  (`routing/routing_table.rs:120` says it does); `SelfSearchIsExact` and `StoresWhatItShould` state where
  it is right.
* Two commands run with one port replace and remove each other's challenges until one of
  them gives up, though each solved what it was given in time; `RejectedOnlyIfLate` and
  `EveryoneJoins` are stated for identities of their own.
* Two peers that join at the same time get replies without each other and never search again, and a
  peer that joins again looks for its own id, which the bootstrap node still knows, and gets itself
  only: `LaterJoinersMeet` is about peers that had finished before the other joined, without kills.
* A search for an auction fails at the first address that cannot be reached, a command's that has exited
  for instance, though a node later in its queue may have the auction. `SearchesEnd` says that it ends, not
  what it finds.
* A missing public key cannot be generated from a private key in the form in which the program writes it
  (`utils/crypto_own.rs:118`, `:154` say it is): the start panics, as does each later one
  (`BrokenForever`).
* A process killed between the writes of the two key files leaves a public key without its
  private key. Each later start with the port then panics (`OrphanedForever`).
* A failed write of a key is not noticed, and two processes that make keys for one port
  at the same time mix their pairs; `ReadyIsAccepted` and `OneIdentity` leave both out.
  `BrokenForever` says of whatever failed writes and kills leave that starts which do not overlap
  never repair it.

`WinsConfirmed` is stated for a node that has met no fault, and `Durable` for one on which
no write has failed, because the code promises no more: a process killed after the
closed copy is saved and before the win is recorded (`node.rs:120`) reloads a closed
auction whose win nothing records again, and one killed while `ledger.json` is rewritten
(`storage.rs:49`) reloads an empty ledger. `happened` in `AuctionNode` keeps which
faults there have been. `WinsAreConfirmed` of `AuctionNetwork` says that a won auction in
a store has a block, not that the block names the same winner: when an open copy with another bidder replaces one whose win
is recorded and is closed in its turn, its win finds the key in the ledger.

## 5. What is proved

For all values of the constants that satisfy the named assumptions of each module
(`AuctionAssumption`, `ConsensusAssumption`, `NodeAssumption`, `NetworkAssumption`, `JoinAssumption`,
`NoneAssumption`, `BucketsAssumption`, `RoutingAssumption`, `DiscoveryAssumption`,
`KeysAssumption`). Every invariant that a run of section 3 checks is a theorem, and so are the
action properties and the refinement of `WinLedger`.

**AuctionNodeProofs** (lemmas in `LedgerProofs`). The inductive
invariant conjoins the type invariant; `StoreOK` of memory and file, each key maps to a
well-formed copy of that key; `TaskOK`, a closing pass has only stored keys left, an
operation about to record holds an auction with a winner, and each step belongs to the
operation that takes it; and `OneWinPerAuction`, `ChainLinked` and `FileIsPrefix`. `TaskOK` is
what makes the recorded block well typed, `FileIsPrefix` what makes a restart a `Reload` of
the abstract ledger. Theorems: `TypeCorrect`, `CopiesStayWellFormed`,
`OneBlockPerAuction`, `ChainStaysLinked`, `FileNeverAhead`; `Refinement` (every step is
`Confirm`, `Reload` or a stutter of `WinLedger`); `ReputationIsEarned`, by induction along
the ledger's growth from the file the process started with;
`ShortOfReputationForever`, because a prefix of a ledger scores no more than the ledger;
`ReturnsDurable` and `WinsAreConfirmed`, from invariants of their own (`FilesOK`, `WinsOK`)
that say at each step of `task` what is not yet on disk or not yet confirmed, the latter
may fail only once reputation is short, which `ShortStays` shows to last.

**JoinProtocolProofs.** The invariant adds to `TypeOK` and `SpentIsGone` that a client in the
middle of an attempt has an attempt left and a challenge issued to itself, and that a
handler accepts only if it found a challenge. From it, `TypeCorrect` and `SpentStaysGone`.
With distinct identities and no faults, `TimelySolversAccepted` rests on `Undisturbed`: the
challenge stored for a solving client is its own, every handler is awaited, and there is at
most one per client.

**AuctionNetworkProofs.** `IInv` says of every place a copy can be in (the store under its own
key, the copies a client is about to record or to publish, the argument of a handler) that the
copy is `Real`: well formed, of an auction that was offered, with bids that were placed, and
closed only after its end. To it belong `WinsAreReal` and `WinsAreConfirmed`, because a node
records a win from the copy it holds, and `BidsOnOthers`: the automation's choice of auctions
to bid on is what keeps a seller from winning, for nothing checks it later. What is real stays real while offers, bids and
time go on (`RealGrows`); a tick closes and records several auctions, and the recursion over them is
taken apart by `LedgerProofs`. Theorems: `TypeCorrect`, `CopiesReal`, `WinsReal`,
`WinsConfirmed`. `WinsAreConfirmed` supposes that the node may commit: in proof-of-reputation
mode a node short of reputation stores won copies and records nothing.

**RoutingTableProofs** (lemmas in `BucketsProofs`). `EvictFacts` and `InsertFacts` say what
insertion makes of one bucket: an order-preserving map from the new bucket to the old one, and
what is dropped preceded everything that stays. The invariant adds to `TypeOK` and
`MostRecentStay` that every entry was inserted and that without a limit nothing is dropped.
`TypeCorrect` and `RecentContactsStay` follow. The search is a matter of values: its order by
distance is strict (the highest differing bit decides, `Less`), the sequence it returns has no
repetition and is as long as `k_value` or as what there is (`SearchesAreFull`); for the node
itself the order of the buckets is the order of distance, so that none is left out
(`JoinSearchIsExact`); and a node among the closest of all it knows is among any selection of them
(`StorersFindThemselves`).

**DiscoveryProofs** (lemmas in `BucketsProofs`). The module first proves what one step does to one
peer, one command and one table (`PeerSteps`, `TableSteps`, `ProcessSteps`), so that the invariants
need not be taken through every action each. `Hears` says that nobody comes to know of a node
but through the node itself or through someone who knew of it.

* `TypeCorrect`: inductive with `Shape`, a command that waits for a reply has asked somebody, and
  handlers work for exactly the commands that wait for their STORE.
* `CopiesSurvive`: `Passing`, while no handler of a publication has stored and nobody was passed
  over, the running handler has somebody left to forward to. A handler that does not store
  is not among the `K_VALUE` closest, so with `K_VALUE` of at least 2 there is a node among them
  that is not its caller.
* `BootstrapKnows`: `Introduced`, the bootstrap node holds a peer or is still the only one the peer
  can turn to, and nobody has heard of the peer. The second half is what makes it
  inductive over kills and restarts of the peer. The proof does not go through with `K_VALUE` 0,
  for then a peer asks nobody; `KnownToBootstrap` supposes it positive.
* `AcquaintanceIsMutual`: `Introductions`, the two sentences of `Acquainted` with `Holds` (in the
  table, or pushed out of a full bucket) for `Knows`; `HeardUp`, whoever was heard of runs; and
  `NotItself`.
* `LaterPeersMeet`: `Meets` follows a peer from its start to the reply of the bootstrap node, which
  names everybody it is to know as `K_VALUE` suffices for all (`WholeTable`), and through taking up that
  reply. It rests on the two before and on `EarlierDone` and `StartedOnce`.

**NodeKeysProofs.** `TypeCorrect` needs no restriction. Three of the others rest on `Undisturbed`,
invariant while writes succeed and starts do not overlap: at most one process is starting,
the files are missing or whole and of one pair, that pair is the only one ever used, and
`Aware` says at each step of a start, and of a process that is through, what it knows of the
files. `FilesWritten` is the heart of it: a file is written only by the one process that is
starting and only while one of the two is missing, so that nobody who is through is
contradicted. From it `ReadyAreAccepted`, `IdentityIsOne` and, as an action property,
`OrphansStay`. `BrokenStays` allows failed writes and rests on `OneAtATime`: while starts do not overlap,
what a process that does not write has read is what is in the files (`Current`), so that it creates a
pair only if both files are missing and derives one only from a usable private key.

**Recursive definitions.** The wins of a tick (`record_auction_wins`) and `Keep` are recursive
functions. What they compute is proved for every input by first showing that a function with their
defining equations exists (`RecordedExists`, `KeptExists`) and then by induction on its
argument, as the smallest index at which the claim fails.

**Only model-checked.** Liveness (`PublishReturns`, `EventuallyClosed`, `JoinsOrExits`,
`EveryoneJoins`, `SearchesEnd`), which needs fairness and ENABLED, is outside what the prover
supports and left to TLC. So are the statements of section 4, which do not hold.

## 6. Not modelled

Argument and environment parsing, logging, protobuf encoding beyond `OverTheWire`, and the
build: no state of the protocols, or pure input and output. PING changes no state. A message
between nodes of the network modules is taken to be verified. Amounts are unbounded. Two
concrete collisions of keys (see the header of `AuctionData`), sums of amounts beyond u64
and two processes on one pair of data files are listed as hazards in `PROJECT.json` and not
modelled. Failing writes and kills are in `AuctionNode` and `Discovery`, not in
`AuctionNetwork`, which follows what the copies say.

## 7. Plan

Done: all modules of section 2, with a theorem for every invariant and action property of section 3.
Next:

1. `EnglishAuction`, an abstract specification of one auction (price rises, one winner,
   closed once), and under which restriction of `AuctionNetwork` it is implemented, as a theorem.
2. That the searches of `Discovery` and the chains of STORE calls get smaller at each step, as
   an action property, which is the part of their termination that can be proved.
3. Two processes on one data directory.
4. Several auctions in `AuctionNetwork`, for the closed copies after the first that cannot be published
   (`g_rpc/client.rs:207`), and closing passes there whose saves fail (`node.rs:174`).
5. Calls that are never answered, and who loses a challenge when two processes share an identity
   (`g_rpc/server.rs:186`).
