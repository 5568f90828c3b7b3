----------------------------- MODULE WinLedger -----------------------------
(***************************************************************************)
(* What a node's ledger promises, without saying how: a sequence of        *)
(* auction wins that grows by one win at a time, never confirms the same   *)
(* auction twice, and after a restart is some prefix of what it was.  It   *)
(* is the abstract specification of AuctionNode.                           *)
(***************************************************************************)
EXTENDS Sequences, Naturals

CONSTANTS
    WonBlock,  \* the possible blocks
    KeyOf(_)   \* the auction a block confirms

VARIABLE wins

\* The auctions already confirmed.
Confirmed == {KeyOf(wins[i]) : i \in DOMAIN wins}

\* A node is opened on the ledger an earlier process left.
Init ==
    /\ wins \in Seq(WonBlock)
    /\ \A i, j \in DOMAIN wins : KeyOf(wins[i]) = KeyOf(wins[j]) => i = j

\* A block for an auction not yet confirmed is added at the end.  The step is
\* stated on wins' so that it can be evaluated over an infinite WonBlock.
Confirm ==
    /\ wins' \in Seq(WonBlock)
    /\ Len(wins') = Len(wins) + 1
    /\ SubSeq(wins', 1, Len(wins)) = wins
    /\ KeyOf(wins'[Len(wins')]) \notin Confirmed

Reload == \E n \in 0 .. Len(wins) : wins' = SubSeq(wins, 1, n)

Next == Confirm \/ Reload

Spec == Init /\ [][Next]_wins
=============================================================================
