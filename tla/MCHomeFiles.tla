----------------------------- MODULE MCHomeFiles -----------------------------
(***************************************************************************)
(* The operations of a node and of commands beside it that meet on the     *)
(* same files.                                                             *)
(***************************************************************************)
EXTENDS HomeFiles

CONSTANTS a, b, c, ada, bob, node, cmd, tool, app

\* Three crawls, started in this order, and a reader.
Crawls == <<Sync(node, 1), Sync(node, 2), Sync(cmd, 3), Lookup(node)>>

Accepted(e) == Result(e, "accepted")
Unreachable(e) == Result(e, "unreachable")

\* Three fetches of one crawl, the last of which dials c again when DNS names it,
\* and two with a push of the same ledger.
Fetches == <<Hint(node, TRUE, <<Accepted(a)>>), Hint(node, TRUE, <<Unreachable(a), Accepted(b)>>),
             Hint(node, TRUE, <<Unreachable(c), Unreachable(c), Accepted(a)>>)>>
Push == <<Hint(node, TRUE, <<Accepted(a)>>),
          Hint(cmd, FALSE, <<Accepted(b), Unreachable(a), Accepted(c), Result(a, "rejected")>>),
          Hint(node, TRUE, <<Unreachable(b)>>)>>

\* The witness advertises a and b, then c only, or a and c on another branch.
Observations ==
    <<Bind(node, 1, 1, {a, b}, c), Bind(cmd, 1, 1, {a, b}, a), Bind(node, 2, 2, {c}, c),
      Bind(node, 2, 3, {a, c}, c), Bind(cmd, 2, 2, {c}, a)>>

Mints == <<Create(node, 1, ada, TRUE), Create(cmd, 2, ada, FALSE), Create(node, 3, bob, TRUE)>>

\* Two nodes started on a home that may not be there, beside a command.
Starts == <<Serve(node, "configured"), Serve(cmd, "configured"), SetDefault(tool, ada, <<a>>, FALSE)>>

\* Witnesses configured by commands, with an endpoint typed twice.
Settles == <<SetDefault(node, ada, <<a, b, a>>, FALSE), SetDefault(cmd, ada, <<>>, FALSE),
             SetDefault(tool, bob, <<>>, TRUE), Serve(app, "own")>>

\* Homes as they were left: none, one with a witness, and two older shapes.
MCConfigs ==
    {NoConfig} \cup
    {[exists |-> TRUE, witnesses |-> ws] :
        ws \in {<<Witness(bob, <<c>>)>>, <<BareIdentity(ada)>>, <<BareEndpoint(c)>>}}

MCWorkloads == {Crawls, Fetches, Push, Observations, Mints, Starts, Settles}
=============================================================================
