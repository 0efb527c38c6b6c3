--------------------------- MODULE MCReplication ----------------------------
(* Two homes that share a ledger, and one or two witnesses of it.          *)
EXTENDS Replication

CONSTANTS h1, h2, w1, w2

OneOrTwo == {<<w1>>, <<w1, w2>>}
=============================================================================
