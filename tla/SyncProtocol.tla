---------------------------- MODULE SyncProtocol ----------------------------
(***************************************************************************)
(* The read side of mabel/ledger/0 (mabel-net: client.rs, server.rs) and    *)
(* the verification built on it (wallet/sync.rs candidate, wallet/verify.rs *)
(* sources, gather, winner).                                                *)
(*                                                                          *)
(* A verification asks every witness of a ledger at once.  Each read is a   *)
(* connection of its own: pages of a Get until `more` is false, against a   *)
(* server whose copy is extended, or truncated and regrown, while it is     *)
(* read.  The index head is read under its lock and the event files one by  *)
(* one afterwards without it (storage.rs page).  A second kind of reader    *)
(* fetches a page of fork records and checks each of them against the chain *)
(* that the same server serves on the same connection.                      *)
(*                                                                          *)
(* A chain is the sequence of its labels.  The event at position n is the   *)
(* prefix of length n: it commits to everything below it, as the hash of    *)
(* the previous event does.                                                 *)
(***************************************************************************)
EXTENDS Integers, Sequences, FiniteSets, TLC, SequencesExt

CONSTANTS
  Witnesses,       \* the endpoints of the ledger's witnesses, in their order
  ForkReaders,     \* the endpoints whose fork records somebody reads
  Labels,          \* what distinguishes two events at one position
  Heavy,           \* the labels of the events that fill two units of a page
  GetLimit,        \* MAX_GET_LIMIT
  Budget,          \* response_budget_bytes, in units of a small event
  Scenarios,       \* where a verification may begin: see ScenarioAssumption
  Movers,          \* the servers whose copy changes while it is read
  MaxLen,          \* bound: events of a chain
  MaxMoves         \* bound: runs written and truncations, over all servers

ASSUME PageAssumption == GetLimit \in Nat \ {0} /\ Budget \in Nat \ {0}

Servers == Range(Witnesses)
Chains == {"chain"} \X Servers
Readers == Chains \cup ({"forks"} \X ForkReaders)
ServerOf(r) == r[2]

Modes == {"pinned", "witnesses", "local"}
ServerCaps == [connections: Nat, requests: Nat \ {0}, verifications: Nat \ {0}]
Label0 == CHOOSE l \in Labels : l \notin Heavy    \* of the inception, which cannot fork

ASSUME ScenarioAssumption ==
  \A x \in Scenarios :
    /\ x.mode \in Modes /\ x.limits \in ServerCaps
    /\ DOMAIN x.files = Servers /\ DOMAIN x.claims = ForkReaders
    /\ x.silent.readers \subseteq Readers /\ x.silent.servers \subseteq Servers

VARIABLES
  limits,    \* the caps in force (ServerConfig)
  silent,    \* the readers and the servers that may stop at any point, and stay connected
  mode,      \* where this verification reads from (Sources)
  files,     \* the event files of each server, as a chain
  indexed,   \* the number of events each server's index counts
  claims,    \* the fork records each server serves
  moves,     \* runs written and truncations so far
  client,    \* per reader: the state of its Client and of the call it makes
  conn,      \* per reader: the server's task for that connection
  found,     \* the candidates of a verification, in the order they arrive
  verdict    \* what the verification answered

vars == <<limits, silent, mode, files, indexed, claims, moves, client, conn, found, verdict>>
servers == <<files, indexed, moves>>
settings == <<limits, silent, mode, claims>>
outcome == <<found, verdict>>

-----------------------------------------------------------------------------
(* Chains and pages *)

EventAt(chain, n) == SubSeq(chain, 1, n)

\* A run of events folds with no violation, from nothing, to the last of them.
Folds(events) == \A n \in 1..Len(events) : events[n] = EventAt(events[Len(events)], n)

Cost(event) == IF Last(event) \in Heavy THEN 2 ELSE 1

\* A limit of 0 is absent on the wire and asks for as many as the cap allows.
Clamp(limit, cap) == IF limit = 0 \/ limit > cap THEN cap ELSE limit

RECURSIVE Used(_)
Used(events) == IF events = <<>> THEN 0 ELSE Cost(Last(events)) + Used(Front(events))

FillBudgetLate(events) ==
  CHOOSE n \in 0..Len(events) :
    /\ n <= 1 \/ Used(SubSeq(events, 1, n - 1)) <= Budget
    /\ n = Len(events) \/ (n > 0 /\ Used(SubSeq(events, 1, n)) > Budget)

\* How many of the events fill the response: at least one, however large.
FillBudget(events) ==
  CHOOSE n \in 0..Len(events) :
    /\ n <= 1 \/ Used(SubSeq(events, 1, n)) <= Budget
    /\ n = Len(events) \/ (n > 0 /\ Used(SubSeq(events, 1, n + 1)) > Budget)

-----------------------------------------------------------------------------
(* The server *)

\* The call a reader makes ends.
Finish(r, result) ==
  client' = [client EXCEPT ![r].at = "done", ![r].result = result]

Idle == [at |-> "none", served |-> 0]
Listening(n) == [at |-> "listening", served |-> n]
Closed == [at |-> "closed", served |-> 0]

Slots(s) == {r \in Readers : ServerOf(r) = s /\ conn[r].at \notin {"none", "closed"}}
Permits(s) == {r \in Slots(s) : conn[r].at = "reading"}

Busy == [is |-> "rejected"]
NotFound == [is |-> "not_found"]

\* The answer leaves; a connection that has used up its requests stays open
\* only until the peer has read it, or until the grace period ends.
Answer(r, answer) ==
  conn' = [conn EXCEPT ![r] = [at |-> "answered", served |-> conn[r].served, answer |-> answer]]

\* dispatch, for the two requests a reader makes.
Dispatch(r, n) ==
  LET s == ServerOf(r)
      answered(answer) == [at |-> "answered", served |-> n, answer |-> answer]
  IN IF client[r].ask = "forks" THEN answered([is |-> "forks", items |-> claims[s]])
     ELSE IF indexed[s] = 0 THEN answered(NotFound)
     ELSE [at |-> "reading", served |-> n, since |-> client[r].next, head |-> indexed[s], events |-> <<>>]

\* accept_bi: the next request of this connection, counted whether or not its
\* stream survives, then handle_frame, which never waits for a permit.
AcceptStream(r) ==
  /\ conn[r].at = "listening" /\ conn[r].served < limits.requests
  /\ client[r].at = "sent"
  /\ LET n == conn[r].served + 1
         full == Cardinality(Permits(ServerOf(r))) >= limits.verifications
     IN \/ /\ conn' = [conn EXCEPT ![r] =
                 IF full THEN [at |-> "answered", served |-> n, answer |-> Busy] ELSE Dispatch(r, n)]
           /\ UNCHANGED client
        \/ conn' = [conn EXCEPT ![r] = Listening(n)] /\ Finish(r, "unreachable")
  /\ UNCHANGED <<settings, servers, outcome>>

\* storage.rs page: one event file after the other, up to the head that was
\* read under the lock, none of it under the lock.
ReadEvent(r) ==
  /\ conn[r].at = "reading"
  /\ LET c == conn[r]
         n == c.since + Len(c.events) + 1
     IN /\ n <= c.head /\ Len(c.events) < Clamp(0, GetLimit)
        /\ IF n <= Len(files[ServerOf(r)])
             THEN conn' = [conn EXCEPT ![r].events = Append(@, EventAt(files[ServerOf(r)], n))]
             ELSE Answer(r, Busy)
  /\ UNCHANGED <<settings, servers, client, outcome>>

PageOfStoreOnly(c) ==
  [is |-> "events", events |-> SubSeq(c.events, 1, FillBudget(c.events)),
   more |-> c.since + Len(c.events) < c.head]

\* The entries that fit, and whether there are more, in the store or in the page.
PageOf(c) ==
  LET n == FillBudget(c.events)
  IN [is |-> "events", events |-> SubSeq(c.events, 1, n),
      more |-> c.since + Len(c.events) < c.head \/ n < Len(c.events)]

AnswerPage(r) ==
  /\ conn[r].at = "reading"
  /\ LET c == conn[r]
     IN /\ c.since + Len(c.events) >= c.head \/ Len(c.events) = Clamp(0, GetLimit)
        /\ Answer(r, PageOf(c))
  /\ UNCHANGED <<settings, servers, client, outcome>>

EndConnectionAtLimit(r) ==
  /\ conn[r].at = "listening" /\ conn[r].served >= limits.requests
  /\ conn' = [conn EXCEPT ![r] = Closed]
  /\ client' = IF client[r].at = "sent" THEN [client EXCEPT ![r].at = "cut"] ELSE client
  /\ UNCHANGED <<settings, servers, outcome>>

\* The connection task ends: the peer has closed, or the requests are used up
\* and the last answer was read.
EndConnection(r) ==
  /\ conn[r].at = "listening"
  /\ client[r].at = "done" \/ conn[r].served >= limits.requests
  /\ conn' = [conn EXCEPT ![r] = Closed]
  /\ client' = IF client[r].at = "sent" THEN [client EXCEPT ![r].at = "cut"] ELSE client
  /\ UNCHANGED <<settings, servers, outcome>>

\* The copy of the ledger on a server: its events are written and the index is
\* told afterwards; a wallet that lost a race truncates what it appended.
Extend(s) ==
  /\ moves < MaxMoves
  /\ \E l \in IF files[s] = <<>> THEN {Label0} ELSE Labels, n \in 1..(MaxLen - Len(files[s])) :
       files' = [files EXCEPT ![s] = @ \o [k \in 1..n |-> l]]
  /\ moves' = moves + 1
  /\ UNCHANGED <<settings, indexed, client, conn, outcome>>

Truncate(s) ==
  /\ moves < MaxMoves
  /\ \E n \in 1..(Len(files[s]) - 1) : files' = [files EXCEPT ![s] = EventAt(@, n)]
  /\ moves' = moves + 1
  \* The reads that are under way and have this server's word for a page
  \* are marked: what they read may mix two chains.
  /\ client' = [r \in Readers |->
       IF ServerOf(r) = s /\ client[r].at # "done" THEN [client[r] EXCEPT !.steady = FALSE] ELSE client[r]]
  /\ UNCHANGED <<settings, indexed, conn, outcome>>

Note(s) ==
  /\ indexed[s] # Len(files[s])
  /\ indexed' = [indexed EXCEPT ![s] = Len(files[s])]
  /\ UNCHANGED <<settings, files, moves, client, conn, outcome>>

-----------------------------------------------------------------------------
(* The client *)

NoReader ==
  [at |-> "off", ask |-> "get", next |-> 0, all |-> <<>>, todo |-> <<>>, verified |-> <<>>,
   rejected |-> 0, result |-> "none", began |-> 0, steady |-> TRUE]

Starts(r) ==
  [NoReader EXCEPT !.at = "on", !.ask = IF r \in Chains THEN "get" ELSE "forks"]

Known(s) == IF indexed[s] <= Len(files[s]) THEN indexed[s] ELSE Len(files[s])

\* Dials the server: refused at its connection limit, or no route in time.
Connect(r) ==
  /\ client[r].at = "on"
  /\ \/ /\ Cardinality(Slots(ServerOf(r))) < limits.connections
        /\ conn' = [conn EXCEPT ![r] = Listening(0)]
        /\ client' = [client EXCEPT ![r].at = "ready", ![r].began = Known(ServerOf(r))]
     \/ Finish(r, "unreachable") /\ UNCHANGED conn
  /\ UNCHANGED <<settings, servers, outcome>>

\* Opens a stream and writes the request; a server that closed the connection
\* fails it.
Send(r) ==
  /\ client[r].at = "ready"
  /\ IF conn[r].at = "closed"
       THEN Finish(r, "unreachable")
       ELSE client' = [client EXCEPT ![r].at = "sent"]
  /\ UNCHANGED <<settings, servers, conn, outcome>>

\* The connection was closed under a request.
Cut(r) ==
  /\ client[r].at = "cut"
  /\ Finish(r, "unreachable")
  /\ UNCHANGED <<settings, servers, conn, outcome>>

ForkVerifiesByPosition(record, events) ==
  record.seq > 0 /\ Len(events) >= record.seq /\ record.kept # record.conflicting

\* fork_verifies, against the events this server served for the ledger: both
\* events must apply to the prefix below them.
ForkVerifies(record, events) ==
  /\ record.seq > 0 /\ Len(events) >= record.seq
  /\ LET prefix == SubSeq(events, 1, record.seq)
     IN /\ Folds(prefix)
        /\ record.kept # record.conflicting
        /\ \A e \in {record.kept, record.conflicting} :
             Len(e) = record.seq + 1 /\ Front(e) = Last(prefix)

\* One record is settled; the next one reads the ledger again from 0, and the
\* last one ends the call.  Records of seq 0 cannot be forks and are not read.
Settle(c, events) ==
  LET ok == c.todo # <<>> /\ ForkVerifies(Head(c.todo), events)
      d == [c EXCEPT !.verified = IF ok THEN Append(@, Head(c.todo)) ELSE @,
                     !.rejected = IF ok THEN @ ELSE @ + 1,
                     !.todo = Tail(@), !.next = 0, !.all = <<>>, !.ask = "get"]
  IN IF d.todo = <<>> THEN [d EXCEPT !.at = "done", !.result = "page"] ELSE [d EXCEPT !.at = "ready"]

RECURSIVE SkipSeqZero(_)
SkipSeqZero(c) ==
  IF c.at # "done" /\ c.todo # <<>> /\ Head(c.todo).seq = 0 THEN SkipSeqZero(Settle(c, <<>>)) ELSE c

\* The result of a candidate: nothing held, what does not verify, or a chain.
Candidate(events) ==
  IF events = <<>> THEN "none" ELSE IF Folds(events) THEN "held" ELSE "invalid"

\* The run is read to its end, or the server does not hold the ledger (then
\* the run is empty).
Complete(r, c, events) ==
  IF r \in Chains
  THEN [c EXCEPT !.all = events, !.at = "done", !.result = Candidate(events)]
  ELSE SkipSeqZero(Settle(c, events))

\* One past the last event that the page carried.
NextPage(c, page) == [c EXCEPT !.all = @ \o page, !.next = @ + Len(page), !.at = "ready"]

\* get_all and forks: what the client does with an answer.
Received(r, c, answer) ==
  CASE answer.is = "rejected" -> [c EXCEPT !.at = "done", !.result = "unreachable"]
    [] answer.is = "not_found" -> Complete(r, c, <<>>)
    [] answer.is = "forks" ->
         IF answer.items = <<>> THEN [c EXCEPT !.at = "done", !.result = "page"]
         ELSE SkipSeqZero([c EXCEPT !.at = "ready", !.todo = answer.items, !.ask = "get"])
    [] answer.is = "events" ->
         IF ~answer.more THEN Complete(r, c, c.all \o answer.events)
         ELSE IF answer.events = <<>> THEN [c EXCEPT !.at = "done", !.result = "unreachable"]
         ELSE NextPage(c, answer.events)

\* The answer arrives.  Past the request limit the grace period may also end
\* first, and the answer is lost with the connection.
Receive(r) ==
  /\ conn[r].at = "answered"
  /\ \/ /\ client' = [client EXCEPT ![r] = Received(r, client[r], conn[r].answer)]
        /\ conn' = [conn EXCEPT ![r] = Listening(conn[r].served)]
     \/ /\ conn[r].served >= limits.requests
        /\ Finish(r, "unreachable")
        /\ conn' = [conn EXCEPT ![r] = Closed]
  /\ UNCHANGED <<settings, servers, outcome>>

-----------------------------------------------------------------------------
(* The verification *)

Asked == IF mode = "pinned" THEN {<<"chain", Witnesses[1]>>} ELSE IF mode = "local" THEN {} ELSE Chains
IndexOf(s) == CHOOSE n \in 1..Len(Witnesses) : Witnesses[n] = s

NoVerdict == [is |-> "none"]

\* join_next: a task ended; a chain that is held and an error about one are kept.
Joins(r) == client[r].result \in {"held", "invalid"}
Join(r) ==
  /\ r \in Asked /\ verdict = NoVerdict
  /\ client[r].at = "done" /\ Joins(r)
  /\ \A n \in 1..Len(found) : found[n].source # ServerOf(r)
  /\ found' = Append(found, [source |-> ServerOf(r), result |-> client[r].result,
                             chain |-> Last(client[r].all)])
  /\ UNCHANGED <<settings, servers, client, conn, verdict>>

ByArrival(candidates) == candidates

ByIndex(candidates) == SortSeq(candidates, LAMBDA a, b : IndexOf(a.source) < IndexOf(b.source))
Divergence(left, right) == \E n \in 1..Len(left) : n <= Len(right) /\ left[n] # right[n]

\* The candidate that extends every other one, taking them in order; two that
\* disagree at a position end the comparison.
Longer(best, candidate) ==
  IF best.is # "valid" THEN best
  ELSE IF Divergence(best.chain, candidate.chain) THEN [is |-> "equivocation"]
  ELSE IF Len(candidate.chain) > Len(best.chain)
       THEN [is |-> "valid", source |-> candidate.source, chain |-> candidate.chain]
  ELSE best

Winner(candidates) ==
  IF candidates = <<>> THEN [is |-> "no_source"]
  ELSE FoldLeft(Longer,
                [is |-> "valid", source |-> candidates[1].source, chain |-> candidates[1].chain],
                Tail(candidates))

\* Every task has ended: one chain that does not verify fails the whole, with
\* the error that arrived last.
IsInvalid(candidate) == candidate.result = "invalid"
Gather ==
  /\ mode # "local" /\ verdict = NoVerdict
  /\ \A r \in Asked :
       /\ client[r].at = "done"
       /\ Joins(r) => \E n \in 1..Len(found) : found[n].source = ServerOf(r)
  /\ LET invalid == SelectSeq(found, IsInvalid)
     IN verdict' = IF invalid # <<>> THEN [is |-> "invalid", source |-> Last(invalid).source]
                   ELSE Winner(ByIndex(found))
  /\ UNCHANGED <<settings, servers, client, conn, found>>

\* A ledger that names no witness is read from this home's own copy, here the
\* first server's, without a connection.
VerifyLocally ==
  /\ mode = "local" /\ verdict = NoVerdict
  /\ LET s == Witnesses[1]
     IN verdict' = IF files[s] = <<>> THEN [is |-> "no_source"]
                   ELSE [is |-> "valid", source |-> s, chain |-> files[s]]
  /\ UNCHANGED <<settings, servers, client, conn, found>>

-----------------------------------------------------------------------------
Init ==
  /\ \E x \in Scenarios :
       limits = x.limits /\ silent = x.silent /\ mode = x.mode /\ files = x.files /\ claims = x.claims
  /\ indexed = [s \in Servers |-> Len(files[s])]
  /\ moves = 0
  /\ client = [r \in Readers |-> IF r \in Asked \/ (r \notin Chains /\ claims[ServerOf(r)] # <<>>) THEN Starts(r) ELSE [NoReader EXCEPT !.at = "done"]]
  /\ conn = [r \in Readers |-> Idle]
  /\ found = <<>> /\ verdict = NoVerdict

ReaderStep(r) == Connect(r) \/ Send(r) \/ Cut(r) \/ Receive(r) \/ Join(r)
ServerStep(r) == AcceptStream(r) \/ ReadEvent(r) \/ AnswerPage(r) \/ EndConnection(r)

Next ==
  \/ \E r \in Readers : ReaderStep(r) \/ ServerStep(r)
  \/ \E s \in Movers : Extend(s) \/ Truncate(s) \/ Note(s)
  \/ Gather \/ VerifyLocally

\* The runtime polls every task that can go on.  A silent peer is never made
\* to: accept_bi, read_to_end, write_all and the client's read of the answer
\* wait without a deadline, and nobody has to write to a server's copy.
Fairness ==
  \A r \in Readers :
    /\ WF_vars(r \notin silent.readers /\ ReaderStep(r))
    /\ WF_vars(ServerOf(r) \notin silent.servers /\ ServerStep(r))

Spec == Init /\ [][Next]_vars /\ Fairness

-----------------------------------------------------------------------------
(* Properties *)

Events == UNION {[1..n -> Labels] : n \in 1..MaxLen}

\* Everything keeps its type; no connection serves more requests than the cap,
\* and no page holds more than the budget unless it holds a single event.
TypeOK ==
  /\ limits \in ServerCaps /\ mode \in Modes /\ moves \in 0..MaxMoves
  /\ \A s \in Servers : indexed[s] \in 0..MaxLen /\ (files[s] = <<>> \/ files[s] \in Events)
  /\ \A r \in Readers :
       /\ client[r].at \in {"off", "on", "ready", "sent", "cut", "done"}
       /\ client[r].result \in {"none", "unreachable", "held", "invalid", "page"}
       /\ conn[r].served \in 0..limits.requests
       /\ conn[r].at = "answered" => (conn[r].answer.is = "events" =>
            Used(conn[r].answer.events) <= Budget \/ Len(conn[r].answer.events) = 1)
  /\ verdict.is \in {"none", "valid", "equivocation", "invalid", "no_source"}

\* A chain that was read page by page from a server that did not truncate
\* meanwhile verifies, and is at least as long as what the server had told its
\* index when the reader connected: paging neither repeats nor loses an event,
\* also when the server grows between two pages or a page is cut by its bytes
\* (client.rs get_all, server.rs dispatch, storage.rs page).
SteadyServersAreBelieved ==
  \A r \in Chains :
    (client[r].at = "done" /\ client[r].steady) =>
      /\ client[r].result # "invalid"
      /\ client[r].result \in {"held", "none"} /\ r \in Asked => Len(client[r].all) >= client[r].began

\* A fork record that the client hands on is evidence: two different events
\* on one and the same event, whatever the server claims and however its own
\* copy moved while it was read (client.rs forks, fork_verifies).
VerifiedForksAreForks ==
  \A r \in Readers \ Chains : \A n \in 1..Len(client[r].verified) :
    LET record == client[r].verified[n]
    IN /\ record.kept # record.conflicting
       /\ Len(record.kept) > 1 /\ Len(record.conflicting) > 1
       /\ Front(record.kept) = Front(record.conflicting)

\* The verdict follows from the chains that were read and not from the order
\* they arrived in: one that does not verify fails the whole, two that disagree
\* anywhere are an equivocation, otherwise
\* the answer extends every one of them and is credited to the first witness
\* that served it (wallet/verify.rs gather, winner).
VerdictIgnoresArrival ==
  LET all == {found[n] : n \in 1..Len(found)}
      read == {a \in all : ~IsInvalid(a)}
      split == \E a, b \in read : Divergence(a.chain, b.chain)
  IN (verdict # NoVerdict /\ mode # "local") =>
       /\ verdict.is = "invalid" <=> read # all
       /\ verdict.is = "equivocation" => split
       /\ verdict.is = "no_source" => read = {}
       /\ verdict.is = "valid" =>
            /\ ~split
            /\ \A a \in read : Len(a.chain) <= Len(verdict.chain)
            /\ \A a \in read : a.chain = verdict.chain => IndexOf(verdict.source) <= IndexOf(a.source)

\* Only silence keeps a slot.  A connection whose two ends go on is given back
\* and its reader told something: neither the paging, nor a refusal, nor a
\* server that truncates under it, nor the silent peer of another connection
\* keeps it for ever.  A permit is given back whatever the peer does (server.rs
\* accept and handle_frame, client.rs close).
EverySlotComesBack ==
  \A r \in Readers :
    /\ (conn[r].at # "none" /\ r \notin silent.readers /\ ServerOf(r) \notin silent.servers)
         ~> (conn[r].at = "closed" /\ client[r].at = "done")
    /\ (r \in Permits(ServerOf(r)) /\ ServerOf(r) \notin silent.servers) ~> (r \notin Permits(ServerOf(r)))

\* What a reader hands on is sound: the chain of a steady server, and a fork
\* record that is one, in pages and requests within their caps.
ReadsAreSound == TypeOK /\ SteadyServersAreBelieved /\ VerifiedForksAreForks
=============================================================================
