-------------------------- MODULE MCAuctionNetwork --------------------------
(***************************************************************************)
(* Three nodes, n1 the bootstrap node, and one auction offered by n2, with *)
(* the closest nodes that K_VALUE 2 and K_VALUE 3 give.                    *)
(***************************************************************************)
EXTENDS AuctionNetwork

CONSTANTS n1, n2, n3, k1

MCNode == {n1, n2, n3}
MCKey == {k1}
MCSellerOf == k1 :> n2
MCInitialValue == k1 :> 0

\* K_VALUE 2, the key closest to n1, then n3: n2 stores only what it publishes.
ClosestPair == [k \in MCKey |-> [n \in MCNode |-> <<n1, n3>>]]

\* K_VALUE 2, the key closest to the peers: the bootstrap node only forwards.
ClosestPeers == [k \in MCKey |-> [n \in MCNode |-> <<n2, n3>>]]

\* K_VALUE 3, as in .env: every node is among the closest.
ClosestAll == [k \in MCKey |-> [n \in MCNode |-> <<n1, n2, n3>>]]
=============================================================================
