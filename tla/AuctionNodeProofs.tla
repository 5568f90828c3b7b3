-------------------------- MODULE AuctionNodeProofs --------------------------
(***************************************************************************)
(* Theorems about AuctionNode for any addresses, auctions, stored copies,  *)
(* clock readings, earlier ledger, consensus mode and faults.              *)
(***************************************************************************)
EXTENDS AuctionNode, LedgerProofs

\* The copies held anywhere, in memory, on disk or by the operation under way.
StoreOK(store) ==
    \A k \in Key : store[k] # None =>
        store[k] \in Auction /\ WellFormed(store[k]) /\ store[k].key = k

\* What the operation under way relies on at each of its steps.
TaskOK ==
    /\ task.auction # None => task.auction \in Auction /\ WellFormed(task.auction)
    /\ \A k \in task.todo : auctions[k] # None
    /\ task.at # "idle" => task.op # "none"
    /\ task.at = "scan" => task.op = "close"
    /\ task.at \in {"persist", "writing_auctions"} /\ task.op = "store" =>
           task.auction \in Auction
    /\ task.at \in {"record", "save_ledger", "writing_ledger"} =>
           task.auction \in Auction /\ HasWinner(task.auction)

\* The inductive invariant: what memory, files and operation have in common.
IInv ==
    /\ TypeOK
    /\ StoreOK(auctions) /\ StoreOK(auctions_file)
    /\ TaskOK
    /\ OneWinPerAuction
    /\ ChainLinked
    /\ FileIsPrefix

\* A copy placed in the store leaves a store of well-formed copies.
LEMMA StoreReplace ==
    ASSUME NEW store \in Store, StoreOK(store), NEW a \in Auction, WellFormed(a)
    PROVE  LET s == [store EXCEPT ![a.key] = a] IN s \in Store /\ StoreOK(s)
<1>1. a.key \in Key
  BY DEF Auction
<1> QED
  BY <1>1 DEF Store, StoreOK

\* The lock may be free, and an operation goes on after record_auction_win.
LEMMA TaskTypes ==
    ASSUME task \in Task
    PROVE  Idle \in Task /\ AfterRecord \in Task
<1>1. Idle \in Task
  BY DEF Idle, Task, Steps
<1>2. [task EXCEPT !.at = "scan", !.auction = None] \in Task
  BY DEF Task, Steps
<1> QED
  BY <1>1, <1>2 DEF AfterRecord

\* A node opens on the files with the invariant.
LEMMA InitIInv == Init => IInv
<1> SUFFICES ASSUME Init PROVE IInv
  OBVIOUS
<1>1. TypeOK
  BY NodeAssumption DEF Init, TypeOK, Store, NoAuctions, Task, Idle, Steps
<1>2. StoreOK(auctions) /\ StoreOK(auctions_file)
  BY DEF Init, StoreOK, NoAuctions
<1>3. TaskOK
  BY DEF Init, TaskOK, Idle
<1>4. OneWinPerAuction /\ ChainLinked
  BY NodeAssumption DEF Init, OneWinPerAuction, ChainLinked
<1>5. FileIsPrefix
  BY DEF Init, FileIsPrefix, IsPrefix
<1> QED
  BY <1>1, <1>2, <1>3, <1>4, <1>5 DEF IInv

\* A new offer or a copy from the network goes into the store.
LEMMA StoreKeepsIInv ==
    ASSUME IInv, NEW a \in Version, store_auction(a)
    PROVE  IInv'
<1> USE DEF IInv, store_auction
<1>1. a \in Auction /\ WellFormed(a)
  BY NodeAssumption
<1>2. auctions' \in Store /\ StoreOK(auctions')
  BY <1>1, StoreReplace DEF TypeOK
<1>3. task' = [op |-> "store", at |-> "persist", auction |-> a, now |-> 0, todo |-> {}]
  BY DEF Idle
<1>4. TypeOK'
  BY <1>1, <1>2, <1>3 DEF TypeOK, Task, Steps
<1>5. TaskOK'
  <2> HIDE DEF IInv, store_auction
  <2> QED
    BY <1>1, <1>3 DEF TaskOK
<1> QED
  BY <1>2, <1>4, <1>5 DEF OneWinPerAuction, ChainLinked, FileIsPrefix, StoreOK

\* A tick starts with the keys it finds in the store.
LEMMA CloseKeepsIInv ==
    ASSUME IInv, NEW now \in Time, close_expired_auctions(now)
    PROVE  IInv'
<1> USE DEF IInv, close_expired_auctions
<1>1. TypeOK'
  BY NodeAssumption DEF TypeOK, Task, Idle, Steps
<1>2. TaskOK'
  BY DEF TaskOK, Idle
<1> QED
  BY <1>1, <1>2 DEF OneWinPerAuction, ChainLinked, FileIsPrefix, StoreOK

\* A copy is judged; if it is won, its closed form is recorded next.
LEMMA CloseNextKeepsIInv ==
    ASSUME IInv, NEW k \in Key, CloseNext(k)
    PROVE  IInv'
<1> DEFINE closed == close_if_expired(auctions[k], task.now)
           won == Expired(auctions[k], task.now) /\ HasWinner(closed)
<1>1. auctions[k] # None
  BY DEF IInv, TaskOK, CloseNext
<1>2. auctions[k] \in Auction /\ WellFormed(auctions[k]) /\ task.now \in Int
  BY <1>1 DEF IInv, StoreOK, TypeOK, Task
<1>3. closed \in Auction /\ WellFormed(closed)
  BY <1>2, CloseIfExpiredIsWellFormed
<1>4. task' = [task EXCEPT !.todo = @ \ {k},
                           !.at = IF won THEN "record" ELSE "scan",
                           !.auction = IF won THEN closed ELSE None]
      /\ UNCHANGED <<auctions, ledger, auctions_file, ledger_file, happened>>
  BY DEF CloseNext
<1>5. won => HasWinner(closed)
  OBVIOUS
<1> HIDE DEF closed, won
<1>6. TypeOK'
  BY <1>3, <1>4 DEF IInv, TypeOK, Task, Steps
<1>7. TaskOK'
  <2>1. task.at = "scan" /\ task \in Task
    BY DEF CloseNext, IInv, TypeOK
  <2>2. CASE won
    BY <2>1, <2>2, <1>3, <1>4, <1>5 DEF IInv, TaskOK, Task
  <2>3. CASE ~won
    BY <2>1, <2>3, <1>4 DEF IInv, TaskOK, Task
  <2> QED
    BY <2>2, <2>3
<1> QED
  BY <1>4, <1>6, <1>7 DEF IInv, OneWinPerAuction, ChainLinked, FileIsPrefix, StoreOK

\* The store is replaced by the copies as the tick judged them.
LEMMA ReplaceStoreKeepsIInv ==
    ASSUME IInv, ReplaceStore
    PROVE  IInv'
<1>1. task.now \in Int /\ task \in Task
  BY DEF IInv, TypeOK, Task
<1>2. \A k \in Key : auctions[k] # None =>
          close_if_expired(auctions[k], task.now) \in Auction
          /\ WellFormed(close_if_expired(auctions[k], task.now))
          /\ close_if_expired(auctions[k], task.now).key = k
  BY <1>1, CloseIfExpiredIsWellFormed DEF IInv, StoreOK
<1>3. auctions' \in Store /\ StoreOK(auctions')
  BY <1>2 DEF ReplaceStore, Store, StoreOK
<1>4. TypeOK'
  BY <1>1, <1>3 DEF IInv, TypeOK, ReplaceStore, Task, Steps
<1>5. TaskOK'
  <2>1. task.at = "scan" /\ task' = [task EXCEPT !.at = "persist"]
    BY DEF ReplaceStore
  <2>2. \A k \in Key : auctions[k] # None => auctions'[k] # None \/ task.todo = {}
    BY DEF ReplaceStore
  <2> QED
    BY <2>1, <2>2, <1>1 DEF IInv, TaskOK, Task, ReplaceStore
<1> QED
  BY <1>3, <1>4, <1>5 DEF IInv, ReplaceStore, OneWinPerAuction, ChainLinked, FileIsPrefix, StoreOK

\* record_auction_win returns to its caller, or goes on to save the new block.
LEMMA RecordKeepsIInv ==
    ASSUME IInv, RecordAuctionWin
    PROVE  IInv'
<1> DEFINE block == new_block(ledger, auction_won(task.auction))
<1>1. task.auction \in Auction /\ HasWinner(task.auction) /\ task.at = "record" /\ task \in Task
  BY DEF IInv, TaskOK, TypeOK, RecordAuctionWin
<1>2. ledger \in Seq(Block) /\ OneWin(ledger) /\ Linked(ledger)
  BY DEF IInv, TypeOK, OneWinPerAuction, ChainLinked
<1>3. /\ ledger' \in Seq(Block) /\ OneWin(ledger') /\ Linked(ledger')
      /\ ledger' = ledger \/ (ledger' = Append(ledger, block) /\ block \in Block)
  BY <1>1, <1>2, RecordKeepsLedger DEF RecordAuctionWin
<1> HIDE DEF block
<1>4. FileIsPrefix'
  <2>1. CASE ledger' = ledger
    BY <2>1 DEF IInv, FileIsPrefix, RecordAuctionWin
  <2>2. CASE ledger' = Append(ledger, block) /\ block \in Block
    BY <2>2, PrefixOfAppend DEF IInv, TypeOK, FileIsPrefix, RecordAuctionWin
  <2> QED
    BY <1>3, <2>1, <2>2
<1>5. task' = AfterRecord \/ task' = [task EXCEPT !.at = "save_ledger"]
  BY DEF RecordAuctionWin
<1>6. TypeOK'
  <2>1. CASE task' = AfterRecord
    BY <2>1, <1>1, <1>3, TaskTypes DEF IInv, TypeOK, RecordAuctionWin
  <2>2. CASE task' = [task EXCEPT !.at = "save_ledger"]
    BY <2>2, <1>1, <1>3 DEF IInv, TypeOK, Task, Steps, RecordAuctionWin
  <2> QED
    BY <1>5, <2>1, <2>2
<1>7. TaskOK'
  <2>1. CASE task' = AfterRecord
    BY <2>1, <1>1 DEF IInv, TaskOK, AfterRecord, Idle, Task, RecordAuctionWin
  <2>2. CASE task' = [task EXCEPT !.at = "save_ledger"]
    BY <2>2, <1>1 DEF IInv, TaskOK, Task, RecordAuctionWin
  <2> QED
    BY <1>5, <2>1, <2>2
<1> QED
  BY <1>3, <1>4, <1>6, <1>7
     DEF IInv, OneWinPerAuction, ChainLinked, StoreOK, RecordAuctionWin

\* The auctions file is emptied, then holds what memory holds.
LEMMA SaveAuctionsKeepsIInv ==
    ASSUME IInv, TruncateAuctions \/ WriteAuctions
    PROVE  IInv'
<1>1. task \in Task
  BY DEF IInv, TypeOK
<1>2. CASE TruncateAuctions
  <2>1. TypeOK'
    BY <1>1, <1>2 DEF IInv, TypeOK, Store, NoAuctions, Task, Steps, TruncateAuctions
  <2>2. TaskOK'
    BY <1>1, <1>2 DEF IInv, TaskOK, Task, TruncateAuctions
  <2> QED
    BY <1>2, <2>1, <2>2 DEF IInv, TruncateAuctions, StoreOK, NoAuctions,
       OneWinPerAuction, ChainLinked, FileIsPrefix
<1>3. CASE WriteAuctions
  <2>1. TypeOK'
    BY <1>1, <1>3 DEF IInv, TypeOK, Idle, Task, Steps, WriteAuctions
  <2>2. TaskOK'
    BY <1>1, <1>3 DEF IInv, TaskOK, Idle, Task, WriteAuctions
  <2> QED
    BY <1>3, <2>1, <2>2 DEF IInv, WriteAuctions, StoreOK,
       OneWinPerAuction, ChainLinked, FileIsPrefix
<1> QED
  BY <1>2, <1>3

\* The ledger file is emptied, then holds what memory holds.
LEMMA SaveLedgerKeepsIInv ==
    ASSUME IInv, TruncateLedger \/ WriteLedger
    PROVE  IInv'
<1>1. task \in Task /\ ledger \in Seq(Block)
  BY DEF IInv, TypeOK
<1>2. CASE TruncateLedger
  <2>1. TypeOK'
    BY <1>1, <1>2 DEF IInv, TypeOK, Task, Steps, TruncateLedger
  <2>2. TaskOK'
    BY <1>1, <1>2 DEF IInv, TaskOK, Task, TruncateLedger
  <2>3. OneWin(ledger_file') /\ Linked(ledger_file') /\ IsPrefix(ledger_file', ledger)
    BY <1>1, <1>2 DEF TruncateLedger, OneWin, Linked, IsPrefix
  <2> QED
    BY <1>2, <2>1, <2>2, <2>3 DEF IInv, TruncateLedger, StoreOK,
       OneWinPerAuction, ChainLinked, FileIsPrefix
<1>3. CASE WriteLedger
  <2>1. TypeOK'
    BY <1>1, <1>3, TaskTypes DEF IInv, TypeOK, WriteLedger
  <2>2. TaskOK'
    BY <1>1, <1>3 DEF IInv, TaskOK, AfterRecord, Idle, Task, WriteLedger
  <2>3. IsPrefix(ledger, ledger)
    BY <1>1 DEF IsPrefix
  <2> QED
    BY <1>3, <2>1, <2>2, <2>3 DEF IInv, WriteLedger, StoreOK,
       OneWinPerAuction, ChainLinked, FileIsPrefix
<1> QED
  BY <1>2, <1>3

\* A failed save ends the operation; a restart also reloads the files.
LEMMA FaultsKeepIInv ==
    ASSUME IInv, SaveFails \/ Restart
    PROVE  IInv'
<1>1. Idle \in Task
  BY DEF Idle, Task, Steps
<1>2. TaskOK'
  BY DEF SaveFails, Restart, TaskOK, Idle
<1>3. CASE SaveFails
  BY <1>1, <1>2, <1>3 DEF IInv, TypeOK, SaveFails, StoreOK,
     OneWinPerAuction, ChainLinked, FileIsPrefix
<1>4. CASE Restart
  <2>1. IsPrefix(ledger_file, ledger_file)
    BY DEF IInv, TypeOK, IsPrefix
  <2> QED
    BY <1>1, <1>2, <1>4, <2>1 DEF IInv, TypeOK, Restart, StoreOK,
       OneWinPerAuction, ChainLinked, FileIsPrefix
<1> QED
  BY <1>3, <1>4

\* The invariant that every other theorem rests on.
THEOREM Invariance == Spec => []IInv
<1>1. Init => IInv
  BY InitIInv
<1>2. IInv /\ [Next]_vars => IInv'
  <2> SUFFICES ASSUME IInv, [Next]_vars PROVE IInv'
    OBVIOUS
  <2>1. ASSUME NEW a \in Version, store_auction(a) PROVE IInv'
    BY <2>1, StoreKeepsIInv
  <2>2. ASSUME NEW now \in Time, close_expired_auctions(now) PROVE IInv'
    BY <2>2, CloseKeepsIInv
  <2>3. ASSUME NEW k \in Key, CloseNext(k) PROVE IInv'
    BY <2>3, CloseNextKeepsIInv
  <2>4. CASE ReplaceStore
    BY <2>4, ReplaceStoreKeepsIInv
  <2>5. CASE RecordAuctionWin
    BY <2>5, RecordKeepsIInv
  <2>6. CASE TruncateAuctions \/ WriteAuctions
    BY <2>6, SaveAuctionsKeepsIInv
  <2>7. CASE TruncateLedger \/ WriteLedger
    BY <2>7, SaveLedgerKeepsIInv
  <2>8. CASE SaveFails \/ Restart
    BY <2>8, FaultsKeepIInv
  <2>9. CASE UNCHANGED vars
    BY <2>9 DEF vars, IInv, TypeOK, StoreOK, TaskOK, OneWinPerAuction, ChainLinked,
                FileIsPrefix
  <2> QED
    BY <2>1, <2>2, <2>3, <2>4, <2>5, <2>6, <2>7, <2>8, <2>9 DEF Next, Proceed
<1> QED
  BY <1>1, <1>2, PTL DEF Spec

----------------------------------------------------------------------------
(* The invariants of AuctionNode *)

\* Every variable keeps its type: no win is recorded without a winner.
THEOREM TypeCorrect == Spec => []TypeOK
BY Invariance, PTL DEF IInv

\* Every copy a node holds, wherever it came from and however often it was
\* closed, saved and reloaded, is well formed and survives the wire.
THEOREM CopiesStayWellFormed == Spec => []CopiesWellFormed
<1>1. IInv => CopiesWellFormed
  <2> SUFFICES ASSUME IInv,
                      NEW a \in {auctions[k] : k \in Key}
                                \cup {auctions_file[k] : k \in Key} \cup {task.auction},
                      a # None
               PROVE  WellFormed(a) /\ OverTheWire(a) = a
    BY DEF CopiesWellFormed
  <2>1. a \in Auction /\ WellFormed(a)
    BY DEF IInv, StoreOK, TaskOK
  <2> QED
    BY <2>1, WireKeepsWellFormed
<1> QED
  BY <1>1, Invariance, PTL

\* No auction is confirmed by two blocks, in memory or on disk.
THEOREM OneBlockPerAuction == Spec => []OneWinPerAuction
BY Invariance, PTL DEF IInv

\* The blocks form a chain, in memory and on disk.
THEOREM ChainStaysLinked == Spec => []ChainLinked
BY Invariance, PTL DEF IInv

\* The ledger file is never ahead of memory.
THEOREM FileNeverAhead == Spec => []FileIsPrefix
BY Invariance, PTL DEF IInv

----------------------------------------------------------------------------
(* The ledger implements the abstract win ledger *)

\* A step either adds a block for an unconfirmed auction, reloads a prefix, or
\* leaves the ledger alone.
LEMMA StepImplements == IInv /\ [Next]_vars => [WL!Next]_ledger
<1> SUFFICES ASSUME IInv, [Next]_vars PROVE WL!Next \/ ledger' = ledger
  OBVIOUS
<1>1. ledger \in Seq(Block) /\ ledger_file \in Seq(Block)
  BY DEF IInv, TypeOK
<1>2. CASE RecordAuctionWin
  <2> DEFINE block == new_block(ledger, auction_won(task.auction))
  <2>1. task.auction \in Auction /\ HasWinner(task.auction)
    BY <1>2 DEF IInv, TaskOK, RecordAuctionWin
  <2>2. \/ ledger' = ledger
        \/ /\ ledger' = Append(ledger, block) /\ block \in Block
           /\ ~HasWin(ledger, block.transaction.auction)
    BY <1>1, <1>2, <2>1, RecordKeepsLedger
       DEF IInv, OneWinPerAuction, ChainLinked, RecordAuctionWin
  <2>3. CASE ledger' = Append(ledger, block) /\ block \in Block
                 /\ ~HasWin(ledger, block.transaction.auction)
    <3> HIDE DEF block
    <3>1. ledger' \in Seq(Block) /\ Len(ledger') = Len(ledger) + 1
          /\ SubSeq(ledger', 1, Len(ledger)) = ledger /\ ledger'[Len(ledger')] = block
      BY <1>1, <2>3, AppendFacts
    <3>2. BlockKey(block) \notin WL!Confirmed
      BY <2>3 DEF WL!Confirmed, BlockKey, HasWin
    <3> QED
      BY <3>1, <3>2 DEF WL!Next, WL!Confirm
  <2> QED
    BY <2>2, <2>3
<1>3. CASE Restart
  <2>1. ledger' = ledger_file /\ IsPrefix(ledger_file, ledger)
    BY <1>3 DEF IInv, FileIsPrefix, Restart
  <2>2. Len(ledger_file) \in 0 .. Len(ledger)
        /\ ledger_file = SubSeq(ledger, 1, Len(ledger_file))
    BY <1>1, <2>1, SubSeqFull DEF IsPrefix
  <2> QED
    BY <2>1, <2>2 DEF WL!Next, WL!Reload
<1>4. CASE UNCHANGED vars
  BY <1>4 DEF vars
<1> QED
  BY <1>2, <1>3, <1>4 DEF Next, Proceed, store_auction, close_expired_auctions, CloseNext,
     ReplaceStore, TruncateAuctions, WriteAuctions, TruncateLedger, WriteLedger, SaveFails

\* Whatever is stored, closed, saved or reloaded, a node's ledger behaves as
\* the win ledger of WinLedger.
THEOREM Refinement == Spec => ImplementsWinLedger
<1>1. Init => WL!Init
  BY NodeAssumption DEF Init, WL!Init, BlockKey, OneWin
<1> QED
  BY <1>1, StepImplements, Invariance, PTL DEF Spec, ImplementsWinLedger, WL!Spec

----------------------------------------------------------------------------
(* Proof of reputation *)

\* Every block of l was there from the start or had a long enough past.
Earned(l) ==
    \A i \in DOMAIN l :
        \/ i \in DOMAIN EarlierLedger /\ l[i] = EarlierLedger[i]
        \/ reputation_score(SubSeq(l, 1, i - 1), Self) >= ReputationThreshold

\* The blocks a proof-of-reputation node adds are earned, and reloading a
\* shorter ledger does not make an earlier block unearned.
THEOREM ReputationIsEarned == Spec => []EarnedReputation
<1> DEFINE Inv == ConsensusMode = "por" => Earned(ledger)
<1>1. Init => Inv
  BY DEF Init, Earned
<1>2. IInv /\ Inv /\ [Next]_vars => Inv'
  <2> SUFFICES ASSUME IInv, [Next]_vars, ConsensusMode = "por", Earned(ledger)
               PROVE  Earned(ledger')
    BY DEF Earned
  <2>1. ledger \in Seq(Block) /\ ledger_file \in Seq(Block)
    BY DEF IInv, TypeOK
  <2>2. CASE RecordAuctionWin
    <3> DEFINE block == new_block(ledger, auction_won(task.auction))
    <3>1. task.auction \in Auction /\ HasWinner(task.auction)
      BY <2>2 DEF IInv, TaskOK, RecordAuctionWin
    <3>2. \/ ledger' = ledger
          \/ /\ ledger' = Append(ledger, block) /\ block \in Block
             /\ has_reputation_to_commit(ledger, Self)
      BY <2>1, <2>2, <3>1, RecordKeepsLedger
         DEF IInv, OneWinPerAuction, ChainLinked, RecordAuctionWin
    <3>3. CASE ledger' = Append(ledger, block) /\ block \in Block
               /\ has_reputation_to_commit(ledger, Self)
      <4> HIDE DEF block
      <4>1. reputation_score(ledger, Self) >= ReputationThreshold
        BY <3>3 DEF has_reputation_to_commit
      <4>2. DOMAIN ledger = 1 .. Len(ledger) /\ Len(ledger) \in Nat
            /\ DOMAIN ledger' = 1 .. Len(ledger) + 1
            /\ (\A i \in DOMAIN ledger : ledger'[i] = ledger[i])
            /\ (\A n \in 0 .. Len(ledger) : SubSeq(ledger', 1, n) = SubSeq(ledger, 1, n))
            /\ SubSeq(ledger, 1, Len(ledger)) = ledger
        BY <2>1, <3>3, AppendFacts
      <4>3. ASSUME NEW i \in DOMAIN ledger
            PROVE  ledger'[i] = ledger[i] /\ SubSeq(ledger', 1, i - 1) = SubSeq(ledger, 1, i - 1)
        BY <4>2
      <4>4. SubSeq(ledger', 1, (Len(ledger) + 1) - 1) = ledger
        BY <4>2
      <4>5. ASSUME NEW i \in DOMAIN ledger'
            PROVE  \/ i \in DOMAIN EarlierLedger /\ ledger'[i] = EarlierLedger[i]
                   \/ reputation_score(SubSeq(ledger', 1, i - 1), Self) >= ReputationThreshold
        <5>1. CASE i \in DOMAIN ledger
          <6>1. \/ i \in DOMAIN EarlierLedger /\ ledger[i] = EarlierLedger[i]
                \/ reputation_score(SubSeq(ledger, 1, i - 1), Self) >= ReputationThreshold
            BY <5>1 DEF Earned
          <6> QED
            BY <5>1, <6>1, <4>3
        <5>2. CASE i = Len(ledger) + 1
          BY <5>2, <4>1, <4>4
        <5> QED
          BY <4>2, <5>1, <5>2
      <4> QED
        BY <4>5 DEF Earned
    <3> QED
      BY <3>2, <3>3
  <2>3. CASE Restart
    <3>1. ledger' = ledger_file /\ IsPrefix(ledger_file, ledger)
      BY <2>3 DEF IInv, FileIsPrefix, Restart
    <3>2. DOMAIN ledger_file \subseteq DOMAIN ledger
          /\ \A i \in DOMAIN ledger_file :
                ledger_file[i] = ledger[i]
                /\ SubSeq(ledger_file, 1, i - 1) = SubSeq(ledger, 1, i - 1)
      BY <2>1, <3>1, PrefixFacts
    <3>3. ASSUME NEW i \in DOMAIN ledger_file
          PROVE  \/ i \in DOMAIN EarlierLedger /\ ledger_file[i] = EarlierLedger[i]
                 \/ reputation_score(SubSeq(ledger_file, 1, i - 1), Self)
                        >= ReputationThreshold
      <4>1. \/ i \in DOMAIN EarlierLedger /\ ledger[i] = EarlierLedger[i]
            \/ reputation_score(SubSeq(ledger, 1, i - 1), Self) >= ReputationThreshold
        BY <3>2 DEF Earned
      <4> QED
        BY <3>2, <4>1
    <3> QED
      BY <3>1, <3>3 DEF Earned
  <2>4. CASE UNCHANGED ledger
    BY <2>4 DEF Earned
  <2> QED
    BY <2>2, <2>3, <2>4 DEF Next, Proceed, store_auction, close_expired_auctions, CloseNext,
       ReplaceStore, TruncateAuctions, WriteAuctions, TruncateLedger, WriteLedger, SaveFails, vars
<1>3. Inv => EarnedReputation
  BY DEF Earned, EarnedReputation
<1> QED
  BY <1>1, <1>2, <1>3, Invariance, PTL DEF Spec

\* A node short of reputation is so after any step.
LEMMA ShortStays == IInv /\ [Next]_vars /\ Short => Short'
<1> SUFFICES ASSUME IInv, [Next]_vars, Short
             PROVE  reputation_score(ledger', Self) < ReputationThreshold
  BY DEF Short
<1>1. /\ reputation_score(ledger, Self) \in Nat
      /\ reputation_score(ledger_file, Self) \in Nat
      /\ reputation_score(ledger_file, Self) <= reputation_score(ledger, Self)
  BY ScoreOfPrefix DEF IInv, TypeOK, FileIsPrefix
<1>2. CASE RecordAuctionWin
  <2>1. ~has_reputation_to_commit(ledger, Self)
    BY <1>1, ConsensusAssumption DEF Short, has_reputation_to_commit
  <2>2. ledger' = ledger
    BY <1>2, <2>1 DEF RecordAuctionWin, record_auction_win
  <2> QED
    BY <2>2 DEF Short
<1>3. CASE Restart
  BY <1>1, <1>3, ConsensusAssumption DEF Short, Restart
<1>4. CASE UNCHANGED ledger
  BY <1>4 DEF Short
<1> QED
  BY <1>2, <1>3, <1>4 DEF Next, Proceed, store_auction, close_expired_auctions, CloseNext,
     ReplaceStore, TruncateAuctions, WriteAuctions, TruncateLedger, WriteLedger, SaveFails, vars

\* A proof-of-reputation node whose score is too low has lost the means to raise
\* it: a network whose ledgers are all empty stays that way.
THEOREM ShortOfReputationForever == Spec => ShortForever
<1>1. IInv /\ [Next]_vars => [Short => Short']_ledger
  BY ShortStays
<1> QED
  BY <1>1, Invariance, PTL DEF Spec, ShortForever

----------------------------------------------------------------------------
(* What a returned operation guarantees *)

\* What has happened is not undone, and a step that is no fault adds nothing.
LEMMA HistoryGrows ==
    ASSUME [Next]_vars
    PROVE  /\ happened \subseteq happened'
           /\ SaveFails => "io" \in happened'
           /\ Restart => "crash" \in happened'
BY DEF Next, Proceed, store_auction, close_expired_auctions, CloseNext, ReplaceStore,
   RecordAuctionWin, TruncateAuctions, WriteAuctions, TruncateLedger, WriteLedger,
   SaveFails, Restart, vars

\* Each file agrees with memory except while its save is due or under way.
FilesOK ==
    "io" \notin happened =>
        /\ task.at \notin {"persist", "writing_auctions"} => auctions_file = auctions
        /\ task.at \notin {"save_ledger", "writing_ledger"} => ledger_file = ledger

\* The files agree with memory whenever the operation claims so.
LEMMA FilesInvariance == Spec => []FilesOK
<1>1. Init => FilesOK
  BY DEF Init, FilesOK
<1>2. IInv /\ FilesOK /\ [Next]_vars => FilesOK'
  <2> SUFFICES ASSUME IInv, FilesOK, [Next]_vars, "io" \notin happened' PROVE FilesOK'
    BY DEF FilesOK
  <2>1. task \in Task /\ "io" \notin happened
    BY HistoryGrows DEF IInv, TypeOK
  <2>2. CASE \E a \in Version : store_auction(a)
    BY <2>1, <2>2 DEF FilesOK, store_auction, Idle
  <2>3. CASE \E now \in Time : close_expired_auctions(now)
    BY <2>1, <2>3 DEF FilesOK, close_expired_auctions, Idle
  <2>4. CASE \E k \in Key : CloseNext(k)
    BY <2>1, <2>4 DEF FilesOK, CloseNext, Task
  <2>5. CASE ReplaceStore
    BY <2>1, <2>5 DEF FilesOK, ReplaceStore, Task
  <2>6. CASE RecordAuctionWin
    BY <2>1, <2>6 DEF FilesOK, RecordAuctionWin, AfterRecord, Idle, Task
  <2>7. CASE TruncateAuctions \/ WriteAuctions
    BY <2>1, <2>7 DEF FilesOK, TruncateAuctions, WriteAuctions, Idle, Task
  <2>8. CASE TruncateLedger \/ WriteLedger
    BY <2>1, <2>8 DEF FilesOK, TruncateLedger, WriteLedger, AfterRecord, Idle, Task
  <2>9. CASE SaveFails \/ Restart
    BY <2>9, HistoryGrows DEF FilesOK, Restart, Idle
  <2>10. CASE UNCHANGED vars
    BY <2>10 DEF FilesOK, vars
  <2> QED
    BY <2>2, <2>3, <2>4, <2>5, <2>6, <2>7, <2>8, <2>9, <2>10 DEF Next, Proceed
<1> QED
  BY <1>1, <1>2, Invariance, PTL DEF Spec

\* Until a write fails, what an operation changed is on disk when it returns,
\* whatever restarts came before.
THEOREM ReturnsDurable == Spec => []Durable
<1>1. IInv /\ FilesOK => Durable
  BY DEF FilesOK, Durable, Idle
<1> QED
  BY <1>1, FilesInvariance, Invariance, PTL

\* Every win in the store is in the ledger, or its operation has yet to record
\* it; a tick has recorded the wins of the auctions it is past.
WinsOK ==
    /\ task.op = "store" => auctions[task.auction.key] = task.auction
    /\ \A k \in Key :
           auctions[k] # None /\ HasWinner(auctions[k]) =>
               \/ HasWin(ledger, k)
               \/ task.op = "store" /\ task.auction.key = k
                  /\ task.at \in {"persist", "writing_auctions", "record"}
    /\ task.op = "close" /\ task.at \in {"scan", "record", "save_ledger", "writing_ledger"} =>
           \A k \in Key \ task.todo :
               /\ auctions[k] # None
               /\ Expired(auctions[k], task.now)
               /\ HasWinner(close_if_expired(auctions[k], task.now))
               => HasWin(ledger, k) \/ (task.at = "record" /\ task.auction.key = k)

\* On a node that is not short of reputation record_auction_win leaves a ledger
\* in which the auction is won, and takes no win away.
LEMMA RecordConfirms ==
    ASSUME IInv, RecordAuctionWin, ~Short
    PROVE  /\ HasWin(ledger', task.auction.key)
           /\ \A k : HasWin(ledger, k) => HasWin(ledger', k)
<1> DEFINE block == new_block(ledger, auction_won(task.auction))
<1>1. task.auction \in Auction /\ HasWinner(task.auction) /\ ledger \in Seq(Block)
  BY DEF IInv, TaskOK, TypeOK, RecordAuctionWin
<1>2. CASE HasWin(ledger, task.auction.key)
  BY <1>2 DEF RecordAuctionWin, record_auction_win
<1>3. CASE ~HasWin(ledger, task.auction.key)
  <2>0. has_reputation_to_commit(ledger, Self)
    <3>1. reputation_score(ledger, Self) \in Nat
      BY <1>1, ScoreOfPrefix DEF IInv, TypeOK, FileIsPrefix
    <3> QED
      BY <3>1, ConsensusAssumption DEF Short, has_reputation_to_commit
  <2>1. ledger' = Append(ledger, block)
    BY <1>3, <2>0 DEF RecordAuctionWin, record_auction_win
  <2>2. block \in Block /\ block.transaction.auction = task.auction.key
    BY <1>1, NewBlockType
  <2> QED
    BY <1>1, <2>1, <2>2, AppendHasWin
<1> QED
  BY <1>2, <1>3

\* Before the first fault no win is passed over, unless reputation is short.
LEMMA WinsInvariance == Spec => [](happened = {} => WinsOK \/ Short)
<1> DEFINE Kept == happened = {} => WinsOK \/ Short
<1>1. Init => Kept
  BY DEF Init, WinsOK, NoAuctions, Idle
<1>2. IInv /\ Kept /\ [Next]_vars => Kept'
  <2> SUFFICES ASSUME IInv, WinsOK, ~Short, [Next]_vars, happened' = {} PROVE WinsOK'
    BY HistoryGrows, ShortStays
  <2>0. task \in Task
    BY DEF IInv, TypeOK
  <2>1. ASSUME NEW a \in Version, store_auction(a) PROVE WinsOK'
    <3>1. task' = [op |-> "store", at |-> "persist", auction |-> a, now |-> 0, todo |-> {}]
          /\ auctions' = [auctions EXCEPT ![a.key] = a] /\ ledger' = ledger
          /\ task.op = "none"
      BY <2>1 DEF store_auction, Idle
    <3>2. a.key \in Key /\ auctions \in Store
      BY NodeAssumption DEF IInv, TypeOK, Auction
    <3>3. \A k \in Key : k # a.key => auctions'[k] = auctions[k]
      BY <3>1, <3>2 DEF Store
    <3>4. auctions'[a.key] = a
      BY <3>1, <3>2 DEF Store
    <3> QED
      BY <3>1, <3>3, <3>4 DEF WinsOK
  <2>2. ASSUME NEW now \in Time, close_expired_auctions(now) PROVE WinsOK'
    <3>1. task' = [op |-> "close", at |-> "scan", auction |-> None, now |-> now,
                   todo |-> {k \in Key : auctions[k] # None}]
          /\ auctions' = auctions /\ ledger' = ledger /\ task.op = "none"
      BY <2>2 DEF close_expired_auctions, Idle
    <3> QED
      BY <3>1 DEF WinsOK
  <2>3. ASSUME NEW k \in Key, CloseNext(k) PROVE WinsOK'
    <3> DEFINE closed == close_if_expired(auctions[k], task.now)
               won == Expired(auctions[k], task.now) /\ HasWinner(closed)
    <3>1. task.op = "close" /\ auctions[k] # None
      BY <2>3 DEF IInv, TaskOK, CloseNext
    <3>2. closed.key = k
      BY <3>1, CloseIfExpiredIsWellFormed DEF IInv, StoreOK, TypeOK, Task
    <3>3. /\ task'.op = "close" /\ task'.now = task.now /\ task'.todo = task.todo \ {k}
          /\ won => task'.at = "record" /\ task'.auction = closed
          /\ ~won => task'.at = "scan"
          /\ task.at = "scan" /\ auctions' = auctions /\ ledger' = ledger
      BY <2>0, <2>3, <3>1 DEF CloseNext, Task
    <3>4. won => task'.auction.key = k
      BY <3>2, <3>3
    <3>5. \A j \in Key \ task'.todo : j = k \/ j \in Key \ task.todo
      BY <3>3
    <3>6. ASSUME NEW j \in Key \ task'.todo, auctions[j] # None,
                 Expired(auctions[j], task.now),
                 HasWinner(close_if_expired(auctions[j], task.now))
          PROVE  HasWin(ledger, j) \/ (task'.at = "record" /\ task'.auction.key = j)
      <4>1. CASE j = k
        BY <3>3, <3>4, <3>6, <4>1
      <4>2. CASE j \in Key \ task.todo
        BY <3>1, <3>3, <3>6, <4>2 DEF WinsOK
      <4> QED
        BY <3>5, <4>1, <4>2
    <3> HIDE DEF closed, won
    <3> QED
      BY <3>1, <3>3, <3>6 DEF WinsOK
  <2>4. CASE ReplaceStore
    <3>1. task.at = "scan" /\ task.op = "close" /\ task.todo = {} /\ ledger' = ledger
          /\ task'.op = "close" /\ task'.at = "persist"
      BY <2>0, <2>4 DEF IInv, TaskOK, ReplaceStore, Task
    <3>2. ASSUME NEW k \in Key, auctions'[k] # None, HasWinner(auctions'[k])
          PROVE  HasWin(ledger, k)
      <4>1. auctions[k] # None /\ auctions'[k] = close_if_expired(auctions[k], task.now)
        BY <2>4, <3>2 DEF ReplaceStore
      <4>2. CASE Expired(auctions[k], task.now)
        BY <3>1, <3>2, <4>1, <4>2 DEF WinsOK
      <4>3. CASE ~Expired(auctions[k], task.now)
        BY <3>1, <3>2, <4>1, <4>3 DEF WinsOK, close_if_expired
      <4> QED
        BY <4>2, <4>3
    <3> QED
      BY <3>1, <3>2 DEF WinsOK
  <2>5. CASE RecordAuctionWin
    <3>1. HasWin(ledger', task.auction.key)
          /\ \A k : HasWin(ledger, k) => HasWin(ledger', k)
      BY <2>5, RecordConfirms
    <3>2. task.at = "record" /\ auctions' = auctions
      BY <2>5 DEF RecordAuctionWin
    <3>3. \/ task' = Idle
          \/ task' = [task EXCEPT !.at = "scan", !.auction = None] /\ task.op # "store"
          \/ task' = [task EXCEPT !.at = "save_ledger"]
      BY <2>5 DEF RecordAuctionWin, AfterRecord
    <3>4. \A k \in Key : auctions[k] # None /\ HasWinner(auctions[k]) => HasWin(ledger', k)
      BY <3>1 DEF WinsOK
    <3>5. task.op = "close" =>
            \A k \in Key \ task.todo :
               /\ auctions[k] # None
               /\ Expired(auctions[k], task.now)
               /\ HasWinner(close_if_expired(auctions[k], task.now))
               => HasWin(ledger', k)
      BY <3>1, <3>2 DEF WinsOK
    <3>6. CASE task' = Idle
      BY <3>2, <3>4, <3>6 DEF WinsOK, Idle
    <3>7. CASE task' = [task EXCEPT !.at = "scan", !.auction = None] /\ task.op # "store"
      <4>1. task'.op = task.op /\ task'.todo = task.todo /\ task'.now = task.now
        BY <2>0, <3>7 DEF Task
      <4> QED
        BY <3>2, <3>4, <3>5, <3>7, <4>1 DEF WinsOK
    <3>8. CASE task' = [task EXCEPT !.at = "save_ledger"]
      <4>1. task'.op = task.op /\ task'.todo = task.todo /\ task'.now = task.now
            /\ task'.auction = task.auction
        BY <2>0, <3>8 DEF Task
      <4> QED
        BY <3>2, <3>4, <3>5, <4>1 DEF WinsOK
    <3> QED
      BY <3>3, <3>6, <3>7, <3>8
  <2>6. CASE TruncateAuctions
    BY <2>0, <2>6 DEF WinsOK, TruncateAuctions, Task
  <2>7. CASE WriteAuctions
    BY <2>0, <2>7 DEF WinsOK, WriteAuctions, Idle, Task
  <2>8. CASE TruncateLedger
    BY <2>0, <2>8 DEF WinsOK, TruncateLedger, Task
  <2>9. CASE WriteLedger
    BY <2>0, <2>9 DEF WinsOK, WriteLedger, AfterRecord, Idle, Task
  <2>10. CASE SaveFails \/ Restart
    BY <2>10, HistoryGrows
  <2>11. CASE UNCHANGED vars
    BY <2>11 DEF WinsOK, vars
  <2> QED
    BY <2>1, <2>2, <2>3, <2>4, <2>5, <2>6, <2>7, <2>8, <2>9, <2>10, <2>11 DEF Next, Proceed
<1> QED
  BY <1>1, <1>2, Invariance, PTL DEF Spec

\* On a node that has met no fault and is not short of reputation, whenever no
\* operation is under way every won auction in the store is confirmed in memory
\* and on disk.
THEOREM WinsAreConfirmed == Spec => []WinsConfirmed
<1>1. (happened = {} => WinsOK \/ Short) /\ FilesOK => WinsConfirmed
  BY DEF WinsOK, FilesOK, WinsConfirmed, Idle
<1> QED
  BY <1>1, WinsInvariance, FilesInvariance, PTL
=============================================================================
