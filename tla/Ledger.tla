------------------------------- MODULE Ledger -------------------------------
(***************************************************************************)
(* The local ledger of a node as a value: src/blockchain/block.rs,         *)
(* src/blockchain/transaction.rs, src/consensus.rs, and the decision       *)
(* Node::record_auction_win (src/node.rs) takes on it.                     *)
(*                                                                         *)
(* Timestamps and the nonce, which is always 0, only feed the hash.  The   *)
(* hash is ideal: a block's hash determines the block and, through         *)
(* previous_hash, every block before it, so it is represented by the       *)
(* sequence of transactions up to and including the block.                 *)
(***************************************************************************)
EXTENDS AuctionData, SequencesExt

CONSTANTS
    ConsensusMode,        \* "pow" or "por", Config::consensus_mode
    ReputationThreshold   \* Config::reputation_threshold

ASSUME ConsensusAssumption ==
    /\ ConsensusMode \in {"pow", "por"}
    /\ ReputationThreshold \in Nat

\* AuctionWon is the only kind of transaction the program ever commits.
Transaction == [auction   : Key,
                sender    : Address,
                recipient : Address,
                amount    : Nat]

Hash == Seq(Transaction)

\* Every block the program builds holds exactly one transaction.
Block == [index : Nat, previous_hash : Hash, transaction : Transaction]

\* Mutation: the seller pays the winner.
auction_won_Swapped(a) ==
    [auction |-> a.key, sender |-> SellerOf[a.key], recipient |-> a.winner,
     amount |-> a.winning_bid]

auction_won(a) ==
    [auction |-> a.key, sender |-> a.winner, recipient |-> SellerOf[a.key],
     amount |-> a.winning_bid]

calculate_hash(block) == Append(block.previous_hash, block.transaction)

\* ledger.last().hash, or zero for the first block.
LastHash(ledger) ==
    IF ledger = <<>> THEN <<>> ELSE calculate_hash(ledger[Len(ledger)])

\* Mutation: every block is linked to nothing.
new_block_Unlinked(ledger, transaction) ==
    [index |-> Len(ledger), previous_hash |-> <<>>, transaction |-> transaction]

new_block(ledger, transaction) ==
    [index |-> Len(ledger), previous_hash |-> LastHash(ledger),
     transaction |-> transaction]

HasWin(ledger, key) ==
    \E i \in DOMAIN ledger : ledger[i].transaction.auction = key

\* One point for every win in which node is the winner, one for every win in
\* which it is the seller; both when it bought its own object.
reputation_score(ledger, node) ==
      Cardinality({i \in DOMAIN ledger : ledger[i].transaction.sender = node})
    + Cardinality({i \in DOMAIN ledger : ledger[i].transaction.recipient = node})

\* Mutation: one point short is enough.
has_reputation_to_commit_OneShort(ledger, node) ==
    \/ ConsensusMode = "pow"
    \/ reputation_score(ledger, node) + 1 >= ReputationThreshold

has_reputation_to_commit(ledger, node) ==
    \/ ConsensusMode = "pow"
    \/ reputation_score(ledger, node) >= ReputationThreshold

\* Mutation: whether the key is already won is not looked up.
record_auction_win_Again(ledger, node, a) ==
    IF ~has_reputation_to_commit(ledger, node)
    THEN ledger
    ELSE Append(ledger, new_block(ledger, auction_won(a)))

\* The ledger record_auction_win of node leaves for auction a: unchanged when
\* the key is already won or the node lacks reputation.
record_auction_win(ledger, node, a) ==
    IF HasWin(ledger, a.key) \/ ~has_reputation_to_commit(ledger, node)
    THEN ledger
    ELSE Append(ledger, new_block(ledger, auction_won(a)))

\* The ledger after the wins of a sequence of copies were recorded one by one.
record_auction_wins(ledger, node, won) ==
    LET recorded[i \in 0 .. Len(won)] ==
            IF i = 0 THEN ledger ELSE record_auction_win(recorded[i - 1], node, won[i])
    IN recorded[Len(won)]

----------------------------------------------------------------------------

OneWin(ledger) ==
    \A i, j \in DOMAIN ledger :
        ledger[i].transaction.auction = ledger[j].transaction.auction => i = j

Linked(ledger) ==
    \A i \in DOMAIN ledger :
        /\ ledger[i].index = i - 1
        /\ ledger[i].previous_hash = LastHash(SubSeq(ledger, 1, i - 1))
=============================================================================
