--------------------------- MODULE MCHostnameCheck ---------------------------
(***************************************************************************)
(* Two hostnames: the label of the first is an alias, the second's holds   *)
(* records of its own.                                                     *)
(***************************************************************************)
EXTENDS HostnameCheck

CONSTANTS h1, h2, n1, n2, n3, other, x, y, z

MCLabel == (h1 :> n1 @@ h2 :> n2)

Txt(records) == [txt |-> records, cname |-> NoName]
Alias(n) == [txt |-> <<>>, cname |-> n]
Nothing == Txt(<<>>)

\* n1 -> n3 names this identity; n2 names another.
Delegated == (n1 :> Alias(n3) @@ n2 :> Txt(<<Claim(other), Lists(<<x, Junk>>)>>)
                @@ n3 :> Txt(<<Lists(<<x, y>>), Claim(Self), Lists(<<z>>)>>))
\* A circle of aliases, and a label that names two identities.
Circle == (n1 :> Alias(n3) @@ n2 :> Txt(<<Claim(Junk), Claim(Self), Lists(<<x>>), Other>>)
             @@ n3 :> Alias(n1))
\* The zones are gone; what n1 pointed at now points further.
Gone == (n1 :> Nothing @@ n2 :> Nothing @@ n3 :> Alias(n2))
\* Further than a check follows itself.
Far == (n1 :> Alias(n3) @@ n2 :> Txt(<<Claim(Self)>>) @@ n3 :> Alias(n2))

MCZones == {Delegated, Circle, Gone, Far}
=============================================================================
