--------------------------- MODULE MCSyncProtocol ---------------------------
(* Two witnesses, one of which also serves fork records to a second reader. *)
(* In some scenarios a reader or a server may fall silent.                  *)
EXTENDS SyncProtocol

MCWitnesses == <<"s1", "s2">>

Caps(c, r, v) == [connections |-> c, requests |-> r, verifications |-> v]
\* A fork that is one, two that are fabricated and one at the inception.
Fork == [seq |-> 1, kept |-> <<"a", "a">>, conflicting |-> <<"a", "b">>]
Twice == [seq |-> 1, kept |-> <<"a", "a">>, conflicting |-> <<"a", "a">>]
Elsewhere == [seq |-> 2, kept |-> <<"a", "a", "a">>, conflicting |-> <<"a", "b", "a">>]
AtInception == [seq |-> 0, kept |-> <<"a">>, conflicting |-> <<"b">>]

Scenario(how, caps, one, two, records) ==
  [mode |-> how, limits |-> caps, silent |-> [readers |-> {}, servers |-> {}], claims |-> [s \in {"s1"} |-> records],
   files |-> [s \in {"s1", "s2"} |-> IF s = "s1" THEN one ELSE two]]

\* The same, with a reader of fork records or the second server falling silent.
MuteReader(x) == [x EXCEPT !.silent.readers = {<<"forks", "s1">>}]
MuteServer(x) == [x EXCEPT !.silent.servers = {"s2"}]

MCScenarios ==
  {Scenario("witnesses", Caps(1, 2, 1), <<"a", "a", "a">>, two, <<>>) : two \in {<<"a", "a">>, <<"a", "b", "a">>}}
  \cup {Scenario("witnesses", Caps(1, 2, 1), <<"a">>, <<>>, <<>>)}
  \cup {Scenario("pinned", Caps(2, 3, 1), <<"a", "a">>, <<>>, <<Fork, Elsewhere>>),
        Scenario("pinned", Caps(1, 2, 1), <<"a", "a">>, <<>>, <<AtInception, Twice>>),
        MuteReader(Scenario("pinned", Caps(2, 1, 1), <<"a", "a">>, <<>>, <<Twice>>)),
        MuteReader(Scenario("pinned", Caps(1, 2, 1), <<"a", "a">>, <<>>, <<Twice>>)),
        MuteServer(Scenario("witnesses", Caps(1, 2, 1), <<"a">>, <<"a", "a">>, <<>>))}
  \cup {Scenario("local", Caps(1, 1, 1), one, <<>>, <<>>) : one \in {<<>>, <<"a", "a">>}}
=============================================================================
