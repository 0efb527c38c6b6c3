--------------------------- MODULE MCWireFormat ---------------------------
(* Three keys, five small limits at their boundary, and one message of     *)
(* each kind the builders and encoders write.  The limits of artifacts are *)
(* no multiple of three, as in the code.                                   *)
EXTENDS WalletApi

Nonce == [raw |-> "n", size |-> NonceCap]
None == [nothing |-> TRUE]
M(name, recs, edits, means) == [name |-> name, recs |-> recs, edits |-> edits, means |-> means]
\* A request or a response by the number of its variant.
Variation(n, inner, edits, means) == [n |-> n, inner |-> inner, edits |-> edits, means |-> means]
Framed(name, variations) ==
    {M(name, Frame(name, v.n, v.inner), v.edits, v.means) : v \in ToSet(variations)}

\* The inceptions of two persons and of an organization of the first.
Raw(k, kind, now) == BuildInception(k, kind, RawRoot(k, "k3"), Nonce, now)
Org(raw) == BuildInception("k1", 2, IdentityRoot("k1", raw), Nonce, 1)

At(ledger, seq) == [ledger |-> ledger, seq |-> seq, prev |-> Id("prev"), prev_ms |-> 2]

\* Payloads that embed a message get one edit, the others two.
Long(ledger, raw2) ==
    {BuildInvitation(raw2, 2),
     BuildAdmission(BuildAcceptance("k2", ledger, Id("inv"), Hash(Body(raw2))))}
Short ==
    {BuildList(11, "WitnessConfig", <<Id("w1"), Id("w2")>>),
     BuildTarget(12, "TrustAttestation", Id("other")),
     BuildTarget(13, "TrustRevocation", Id("att")),
     BuildRemoval(Id("gone")),
     BuildProfile(<<"a", " ", "a">>, <<"a", ".", "a">>, <<"a", "@", "a">>),
     BuildProfile(<<>>, <<>>, <<>>),
     BuildList(18, "EndpointAdvertisement", <<Key("k3")>>),
     BuildList(19, "WitnessSet", <<>>)}

Events(raw1, raw2, org, ledger) ==
    {M("SignedEvent", BuildAppend("k1", At(ledger, 3), 1, p), 1, None) : p \in Long(ledger, raw2)}
    \cup {M("SignedEvent", BuildAppend("k1", At(ledger, 1), 1, p), 2, None) : p \in Short}
    \cup {M("SignedEvent", raw1, 2, None), M("SignedEvent", org, 1, None)}

Kept(ledger) == BuildAppend("k1", At(ledger, 1), 1, BuildTarget(12, "TrustAttestation", Id("x")))
Summary(ledger) ==
    Encode("LedgerSummary", 1 :> ledger @@ 2 :> Num(1) @@ 3 :> Num(0) @@ 4 :> Id("h") @@ 5 :> Num(1)
             @@ 6 :> Num(2) @@ 7 :> Num(2) @@ 8 :> Num(0) @@ 9 :> Num(1))
Fork(ledger, kept) ==
    Encode("ForkRecord", 1 :> ledger @@ 2 :> Num(1) @@ 3 :> Msg(kept) @@ 4 :> Msg(kept)
             @@ 5 :> Num(2) @@ 6 :> Key("k2"))

Requests(ledger, raw1, kept) ==
    <<Variation(1, 1 :> ledger, 2, [head |-> {ledger}]),
      Variation(2, 1 :> ledger @@ 2 :> Num(0) @@ 3 :> Num(2), 2, [get |-> {ledger}, since |-> 0, limit |-> 2]),
      Variation(3, 1 :> ledger @@ 2 :> <<Msg(raw1), Msg(kept)>>, 1,
                [push |-> {ledger}, events |-> <<Msg(raw1), Msg(kept)>>]),
      Variation(4, 1 :> Num(1) @@ 2 :> Num(0), 2, [list |-> 1, limit |-> 0]),
      Variation(5, 2 :> Num(0) @@ 3 :> Num(0), 2, [forks |-> {}, offset |-> 0, limit |-> 0])>>

Responses(org, summary, fork) ==
    <<Variation(1, 1 :> Num(0) @@ 2 :> Id("h") @@ 3 :> Num(2), 1, [head |-> Id("h"), seq |-> 0, updated |-> 2]),
      Variation(2, 1 :> <<Msg(org)>> @@ 2 :> Num(3) @@ 3 :> Num(1), 1,
                [events |-> <<Msg(org)>>, seq |-> 3, more |-> TRUE]),
      Variation(3, 1 :> Num(3) @@ 2 :> Num(0), 1, [accepted |-> 3, stored |-> 0]),
      Variation(4, 1 :> <<Msg(summary)>> @@ 2 :> Num(0), 1, [ledgers |-> <<ReadSummary(summary)>>, more |-> FALSE]),
      Variation(5, 1 :> <<Msg(fork)>> @@ 2 :> Num(0), 1, [forks |-> <<ReadFork(fork)>>, more |-> FALSE]),
      Variation(6, [n \in {} |-> 0], 2, [not_found |-> TRUE]),
      Variation(7, 1 :> Num(4) @@ 2 :> Num(1) @@ 3 :> Text(<<"a">>), 1,
                [rejected |-> 4, at_seq |-> 1, msg |-> {Text(<<"a">>)}])>>

Files(ledger, raw1, raw2) ==
    {M("InvitationBundle", Encode("InvitationBundle", 1 :> <<Msg(raw1)>>), 1, None),
     M("AcceptanceFile", Encode("AcceptanceFile",
           BuildAcceptance("k2", ledger, Id("inv"), Hash(Body(raw2)))), 1, None),
     M("IdentityDescriptor", Encode("IdentityDescriptor", 1 :> Msg(raw1) @@ 2 :> <<Key("k3")>>), 1, None)}

MessagesOf(ledger, raw1, raw2, org, kept) ==
    Events(raw1, raw2, org, ledger) \cup Files(ledger, raw1, raw2)
    \cup Framed("Request", Requests(ledger, raw1, kept))
    \cup Framed("Response", Responses(org, Summary(ledger), Fork(ledger, kept)))

MCMessages ==
    UNION {UNION {MessagesOf(ledger, raw1, raw2, Org(raw1), Kept(ledger)) : ledger \in {Hash(Body(raw1))}} :
             raw1 \in {Raw("k1", 1, 1)}, raw2 \in {Raw("k2", 4, 2)}}
=============================================================================
