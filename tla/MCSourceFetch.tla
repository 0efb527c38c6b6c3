---------------------------- MODULE MCSourceFetch ----------------------------
(***************************************************************************)
(* A batch of two ledgers.  l1 has two branches that part after a common   *)
(* first event; its chains name an endpoint, a witness and a retired       *)
(* endpoint, more than the scaled-down budget admits.                      *)
(***************************************************************************)
EXTENDS SourceFetch

CONSTANTS l1, l2, w1, a, c, n, p, z

Short == <<1>>
Left == <<1, 2>>
Right == <<1, 3>>

MCBranches == (l1 :> {Short, Left, Right}) @@ (l2 :> {Short})

MCClassCap ==
    [k \in Classes |-> IF k \in {"peer", "node_witness", "chain_named"} THEN 2 ELSE 1]

None == [endpoints |-> <<>>, witnesses |-> <<>>, legacy |-> <<>>]

MCNames ==
    (Short :> None)
    @@ (Left :> [endpoints |-> <<n, z>>, witnesses |-> <<w1>>, legacy |-> <<>>])
    @@ (Right :> [endpoints |-> <<>>, witnesses |-> <<>>, legacy |-> <<n, c>>])

\* p has failed twice before: one more failure evicts it.
Old(e, failures) == [Undated(e) EXCEPT !.failures = failures]

Home(own, caller, zone, advertised, unreadable) ==
    [copy |-> (l1 :> own) @@ (l2 :> Silent),
     caller |-> caller,
     peers |-> (l1 :> <<Old(p, 2)>>) @@ (l2 :> <<>>) @@ (w1 :> <<>>),
     learned |-> (l1 :> <<c, n>>) @@ (l2 :> caller),
     witnesses |-> <<w1>>,
     bootstrap |-> (w1 :> <<a>>),
     copyOf |-> (w1 :> [endpoints |-> advertised, legacy |-> <<>>]),
     names |-> MCNames,
     zone |-> (l1 :> zone) @@ (l2 :> <<>>),
     unreadable |-> unreadable]

MCHomes ==
    {Home(Silent, <<c>>, <<z>>, <<>>, FALSE),
     Home(Short, <<>>, <<p>>, <<n>>, FALSE),
     Home(Broken, <<c>>, <<>>, <<z>>, TRUE)}
=============================================================================
