---------------------------- MODULE MCTrustGraph ----------------------------
(* Four identities whose rendered order is not the order of their bytes.   *)
EXTENDS TrustGraph

CONSTANTS e

MCRank == <<2, 4, 1, 3>>

MCServes == <<NoEndpoint, e, e, e>>

MCOptions ==
    {[depth |-> 0, maxNodes |-> 4, maxFetches |-> 4],
     [depth |-> 2, maxNodes |-> 3, maxFetches |-> 4],
     [depth |-> 2, maxNodes |-> 4, maxFetches |-> 3],
     [depth |-> 9, maxNodes |-> 4, maxFetches |-> 4]}
=============================================================================
