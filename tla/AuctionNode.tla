----------------------------- MODULE AuctionNode -----------------------------
(***************************************************************************)
(* One node of the network as src/node.rs and src/storage.rs implement it: *)
(* the auction store and the ledger in memory, the two JSON files under    *)
(* data/<port>, and the two operations that write all of them,             *)
(* store_auction and close_expired_auctions.                               *)
(*                                                                         *)
(* Both operations hold the write lock on the auctions from beginning to   *)
(* end, so at most one is in progress; task is the one in progress.  It    *)
(* runs in steps because the process can be killed, and a file write can   *)
(* fail, between any two of them.                                          *)
(*                                                                         *)
(* A file variable holds what Node::new would load from the file.          *)
(* fs::write truncates and then writes; a file cut short does not parse    *)
(* and loads as an empty vector, exactly as a missing file does.           *)
(***************************************************************************)
EXTENDS Ledger

CONSTANTS
    Self,           \* the address of this node
    Version,        \* copies of auctions that callers pass to store_auction
    Time,           \* clock readings passed to close_expired_auctions
    EarlierLedger,  \* the ledger file an earlier process left behind
    Faults          \* which of "crash" and "io" can happen

ASSUME NodeAssumption ==
    /\ Self \in Address
    /\ Version \subseteq Auction
    /\ \A a \in Version : WellFormed(a)
    /\ Time \subseteq Int
    /\ EarlierLedger \in Seq(Block)
    /\ OneWin(EarlierLedger) /\ Linked(EarlierLedger)
    /\ Faults \subseteq {"crash", "io"}

VARIABLES
    auctions,       \* the store in memory, a copy or None per key
    ledger,         \* the ledger in memory
    auctions_file,  \* auctions.json, as it would be loaded
    ledger_file,    \* ledger.json, as it would be loaded
    task,           \* the operation that holds the auctions lock
    happened        \* history: the faults that have happened so far

vars == <<auctions, ledger, auctions_file, ledger_file, task, happened>>

Store == [Key -> Auction \cup {None}]
NoAuctions == [k \in Key |-> None]

Steps == {"idle", "scan", "record", "persist", "writing_auctions",
          "save_ledger", "writing_ledger"}

Task == [op : {"none", "store", "close"}, at : Steps,
         auction : Auction \cup {None}, now : Int, todo : SUBSET Key]

Idle == [op |-> "none", at |-> "idle", auction |-> None, now |-> 0, todo |-> {}]

TypeOK ==
    /\ auctions \in Store
    /\ ledger \in Seq(Block)
    /\ auctions_file \in Store
    /\ ledger_file \in Seq(Block)
    /\ task \in Task
    /\ happened \subseteq Faults

\* Node::new on the files an earlier process left.
Init ==
    /\ auctions = NoAuctions
    /\ ledger = EarlierLedger
    /\ auctions_file = NoAuctions
    /\ ledger_file = EarlierLedger
    /\ task = Idle
    /\ happened = {}

----------------------------------------------------------------------------
(* store_auction *)

store_auction(a) ==
    /\ task = Idle
    /\ auctions' = [auctions EXCEPT ![a.key] = a]
    /\ task' = [Idle EXCEPT !.op = "store", !.at = "persist", !.auction = a]
    /\ UNCHANGED <<ledger, auctions_file, ledger_file, happened>>

----------------------------------------------------------------------------
(* close_expired_auctions: a pass over clones of the stored auctions in no *)
(* fixed order, then the store is replaced and saved.                      *)

close_expired_auctions(now) ==
    /\ task = Idle
    /\ task' = [Idle EXCEPT !.op = "close", !.at = "scan", !.now = now,
                            !.todo = {k \in Key : auctions[k] # None}]
    /\ UNCHANGED <<auctions, ledger, auctions_file, ledger_file, happened>>

CloseNext(k) ==
    LET closed == close_if_expired(auctions[k], task.now)
        won == Expired(auctions[k], task.now) /\ HasWinner(closed) IN
    /\ task.at = "scan"
    /\ k \in task.todo
    /\ task' = [task EXCEPT !.todo = @ \ {k},
                            !.at = IF won THEN "record" ELSE "scan",
                            !.auction = IF won THEN closed ELSE None]
    /\ UNCHANGED <<auctions, ledger, auctions_file, ledger_file, happened>>

\* Mutation: the store keeps the copies as they were but for their status.
ReplaceStore_StatusOnly ==
    /\ task.at = "scan"
    /\ task.todo = {}
    /\ auctions' = [k \in Key |->
                       IF auctions[k] # None /\ Expired(auctions[k], task.now)
                       THEN [auctions[k] EXCEPT !.status = "closed"]
                       ELSE auctions[k]]
    /\ task' = [task EXCEPT !.at = "persist"]
    /\ UNCHANGED <<ledger, auctions_file, ledger_file, happened>>

ReplaceStore ==
    /\ task.at = "scan"
    /\ task.todo = {}
    /\ auctions' = [k \in Key |-> IF auctions[k] = None THEN None
                                  ELSE close_if_expired(auctions[k], task.now)]
    /\ task' = [task EXCEPT !.at = "persist"]
    /\ UNCHANGED <<ledger, auctions_file, ledger_file, happened>>

----------------------------------------------------------------------------
(* record_auction_win, called by both operations *)

\* Where the caller goes on after record_auction_win returned Ok.
AfterRecord ==
    IF task.op = "store" THEN Idle
    ELSE [task EXCEPT !.at = "scan", !.auction = None]

\* Mutation: the ledger is not saved.
RecordAuctionWin_Unsaved ==
    /\ task.at = "record"
    /\ ledger' = record_auction_win(ledger, Self, task.auction)
    /\ task' = AfterRecord
    /\ UNCHANGED <<auctions, auctions_file, ledger_file, happened>>

RecordAuctionWin ==
    /\ task.at = "record"
    /\ ledger' = record_auction_win(ledger, Self, task.auction)
    /\ task' = IF ledger' = ledger THEN AfterRecord
               ELSE [task EXCEPT !.at = "save_ledger"]
    /\ UNCHANGED <<auctions, auctions_file, ledger_file, happened>>

----------------------------------------------------------------------------
(* fs::write, in two steps for each of the two files *)

TruncateAuctions ==
    /\ task.at = "persist"
    /\ auctions_file' = NoAuctions
    /\ task' = [task EXCEPT !.at = "writing_auctions"]
    /\ UNCHANGED <<auctions, ledger, ledger_file, happened>>

\* Mutation: a stored copy is taken to have a winner.
WriteAuctions_AnyWinner ==
    /\ task.at = "writing_auctions"
    /\ auctions_file' = auctions
    /\ task' = IF task.op = "store" THEN [task EXCEPT !.at = "record"] ELSE Idle
    /\ UNCHANGED <<auctions, ledger, ledger_file, happened>>

\* Mutation: the win of a stored closed copy is not recorded.
WriteAuctions_NoRecord ==
    /\ task.at = "writing_auctions"
    /\ auctions_file' = auctions
    /\ task' = Idle
    /\ UNCHANGED <<auctions, ledger, ledger_file, happened>>

\* The whole store is on disk; store_auction goes on to the win, if any.
WriteAuctions ==
    /\ task.at = "writing_auctions"
    /\ auctions_file' = auctions
    /\ task' = IF task.op = "store" /\ HasWinner(task.auction)
               THEN [task EXCEPT !.at = "record"]
               ELSE Idle
    /\ UNCHANGED <<auctions, ledger, ledger_file, happened>>

TruncateLedger ==
    /\ task.at = "save_ledger"
    /\ ledger_file' = <<>>
    /\ task' = [task EXCEPT !.at = "writing_ledger"]
    /\ UNCHANGED <<auctions, ledger, auctions_file, happened>>

WriteLedger ==
    /\ task.at = "writing_ledger"
    /\ ledger_file' = ledger
    /\ task' = AfterRecord
    /\ UNCHANGED <<auctions, ledger, auctions_file, happened>>

\* The write returns an error and the operation returns it at once: what was
\* changed in memory stays, what was to follow is skipped.
SaveFails ==
    /\ "io" \in Faults
    /\ task.at \in {"persist", "writing_auctions", "save_ledger", "writing_ledger"}
    /\ task' = Idle
    /\ happened' = happened \cup {"io"}
    /\ UNCHANGED <<auctions, ledger, auctions_file, ledger_file>>

\* Mutation: the ledger file is not loaded.
Restart_EmptyLedger ==
    /\ "crash" \in Faults
    /\ auctions' = auctions_file
    /\ ledger' = <<>>
    /\ task' = Idle
    /\ happened' = happened \cup {"crash"}
    /\ UNCHANGED <<auctions_file, ledger_file>>

\* The process ends at any point and Node::new loads the files again.
Restart ==
    /\ "crash" \in Faults
    /\ auctions' = auctions_file
    /\ ledger' = ledger_file
    /\ task' = Idle
    /\ happened' = happened \cup {"crash"}
    /\ UNCHANGED <<auctions_file, ledger_file>>

----------------------------------------------------------------------------

Proceed ==
    \/ \E k \in Key : CloseNext(k)
    \/ ReplaceStore
    \/ RecordAuctionWin
    \/ TruncateAuctions
    \/ WriteAuctions
    \/ TruncateLedger
    \/ WriteLedger

Next ==
    \/ \E a \in Version : store_auction(a)
    \/ \E now \in Time : close_expired_auctions(now)
    \/ Proceed
    \/ SaveFails
    \/ Restart

Spec == Init /\ [][Next]_vars

----------------------------------------------------------------------------
(* Properties *)

\* Whatever is stored, closed, reloaded or about to be recorded, every copy has
\* rising bids and names the highest bidder as winner exactly once closed, so
\* its winner survives the protobuf encoding, in which 0 means no winning bid.
CopiesWellFormed ==
    \A a \in {auctions[k] : k \in Key} \cup {auctions_file[k] : k \in Key}
             \cup {task.auction} :
        a # None => WellFormed(a) /\ OverTheWire(a) = a

\* An auction is confirmed by at most one block, in memory and on disk, however
\* often its closed copy is stored again, reopened, closed again or retried
\* after a failed save or a restart.
OneWinPerAuction == OneWin(ledger) /\ OneWin(ledger_file)

\* Indices count the blocks and every block carries the hash of the one before
\* it, in memory and on disk, through failed saves and restarts.
ChainLinked == Linked(ledger) /\ Linked(ledger_file)

\* The ledger a restart would load is a prefix of the ledger in memory: the
\* file never holds a block the running node does not have.
FileIsPrefix == IsPrefix(ledger_file, ledger)

\* As long as no write has failed, whatever an operation changed is on disk when
\* it returns, on each of its paths, also on a node killed and restarted before.
Durable ==
    "io" \notin happened /\ task = Idle =>
        auctions_file = auctions /\ ledger_file = ledger

\* In proof-of-reputation mode every block this process added found a ledger
\* before it in which the node already had the required score.
EarnedReputation ==
    ConsensusMode = "por" =>
        \A i \in DOMAIN ledger :
            \/ i \in DOMAIN EarlierLedger /\ ledger[i] = EarlierLedger[i]
            \/ reputation_score(SubSeq(ledger, 1, i - 1), Self)
                   >= ReputationThreshold

\* A proof-of-reputation node whose score is too low.
Short ==
    ConsensusMode = "por" /\ reputation_score(ledger, Self) < ReputationThreshold

\* A node that is short of reputation, from the start or since a restart on a
\* ledger file that was cut short, can never again confirm a win: the score
\* counts only blocks it can no longer add.
ShortForever == [][Short => Short']_ledger

\* On a node that has met no fault and is not short of reputation, when no
\* operation is in progress, every closed auction with a winner in the store is
\* confirmed by a block in memory and on disk.
WinsConfirmed ==
    happened = {} /\ ~Short /\ task = Idle =>
        \A k \in Key :
            auctions[k] # None /\ HasWinner(auctions[k]) =>
                HasWin(ledger, k) /\ HasWin(ledger_file, k)

\* The ledger implements the abstract win ledger.
BlockKey(block) == block.transaction.auction
WL == INSTANCE WinLedger WITH wins <- ledger, WonBlock <- Block, KeyOf <- BlockKey
ImplementsWinLedger == WL!Spec
=============================================================================
