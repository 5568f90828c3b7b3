--------------------------- MODULE MCJoinProtocol ---------------------------
(***************************************************************************)
(* Processes p1 and p2, with identities of their own or, as two commands   *)
(* that are run with the same --port, with one.                            *)
(***************************************************************************)
EXTENDS JoinProtocol, TLC

CONSTANTS p1, p2, i1, i2

MCProcess == {p1, p2}
MCIdentity == {i1, i2}

OwnIdentities == p1 :> i1 @@ p2 :> i2
OneIdentity == p1 :> i1 @@ p2 :> i1
=============================================================================
