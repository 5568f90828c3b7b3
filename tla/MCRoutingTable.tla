--------------------------- MODULE MCRoutingTable ---------------------------
(***************************************************************************)
(* Addresses of five bits, four buckets, and six contacts that fill the    *)
(* lowest bucket beyond its limit of 2 and put one in each of the others.  *)
(***************************************************************************)
EXTENDS RoutingTable

MCSelf == {}
MCContact == {{}, {0}, {1}, {0, 1}, {2}, {3}, {3, 4}}
=============================================================================
