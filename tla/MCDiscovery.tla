----------------------------- MODULE MCDiscovery -----------------------------
(***************************************************************************)
(* Addresses of four bits.  The bootstrap node has the peers and Bidder in *)
(* one bucket, which holds two; the key of the auction is closest to the   *)
(* peers, then to Bidder, and farthest from the bootstrap node.            *)
(***************************************************************************)
EXTENDS Discovery

MCBootstrap == {}
MCKey == {3, 1}

OnePeer == {{3}}
ThreePeers == {{3}, {3, 0}, {3, 2}}

Bidder == {3, 2}
Creator == {2}
Finder == {3}

NoCommand == {}
TwoCommands == {Bidder, Creator}
ThreeCommands == {Bidder, Finder, Creator}
MCOp == [c \in Command |-> IF c = Creator THEN {"create", "find"} ELSE {"bid"}]
FindOp == [c \in Command |-> IF c = Creator THEN {"create"} ELSE {"find"}]

Once == [n \in Server |-> 1]
PeersTwice == [n \in Server |-> IF n = Bootstrap THEN 1 ELSE 2]
=============================================================================
