----------------------------- MODULE MCNodeKeys -----------------------------
(***************************************************************************)
(* Two processes with one port, started again and again.                   *)
(***************************************************************************)
EXTENDS NodeKeys

CONSTANTS p1, p2
MCProcess == {p1, p2}
=============================================================================
