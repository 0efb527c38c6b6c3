----------------------------- MODULE MCWallet ------------------------------
(***************************************************************************)
(* Two homes, one of which also runs commands from the command line.        *)
(***************************************************************************)
EXTENDS Wallet

MCHomeOf == [a |-> "h1", b |-> "h2"]
MCWitnesses == <<"w">>

Membership == {"invite", "admit", "remove"}

\* A ledger whose founder invites; one that two homes control, with removals, and
\* long enough for a fetch to meet a longer branch; and one whose home runs
\* commands beside its node, alone and together with another home.
MCSettings ==
  [root : {"identity"}, shared : {{}}, ops : {Membership}, roles : {{"controller"}}, clis : {{}}, events : {4}]
    \cup [root : {"raw"}, shared : {{}}, ops : {Membership}, roles : {{"member", "controller"}}, clis : {{}}, events : {3}]
    \cup [root : {"identity"}, shared : {{"b"}}, ops : {{"remove", "document"}}, roles : {{}}, clis : {{}}, events : {4}]
    \cup [root : {"identity"}, shared : {{"b"}}, ops : {{"remove", "document"}}, roles : {{}}, clis : {{"h1"}}, events : {3}]
    \cup [root : {"identity"}, shared : {{"b"}}, ops : {{"document", "trust"}}, roles : {{}}, clis : {{}}, events : {5}]
    \cup [root : {"identity"}, shared : {{"b"}}, ops : {{"document", "trust"}}, roles : {{}}, clis : {{"h1"}}, events : {4}]
    \cup [root : {"identity"}, shared : {{}}, ops : {{"invite", "trust", "revoke", "document", "witnesses"}},
          roles : {{"controller"}}, clis : {{"h1"}}, events : {2}]
=============================================================================
