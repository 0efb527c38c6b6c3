# Mabel in TLA+

A verification development for Mabel: identities as signed, append-only
ledgers, kept in plain files by a node home, replicated by pushing them to
witnesses. The modules are translated from the Rust code; `PROJECT.json` maps
every definition to its lines.

## The system

| part | state | operations | what makes it hard |
|---|---|---|---|
| ledger fold (`mabel-core` `fold.rs`) | root, head, principals, invitations, attestations, latest-wins documents | one `apply` per event | authority depends on earlier events; detached acceptances can be replayed; two identities may record one key |
| field table, encoding, links (`validate.rs`, `sign.rs`, `link.rs`) | none | scan, build, parse | a second byte string for one event would be a second event id |
| fork records (`fork.rs`) | none | `validate_fork_record` | evidence has to verify on the shared prefix |
| ledger directory (`mabel-node` `ledger.rs`, `atomic.rs`) | one file per event, `head.json` | read, append, rebuild | several renames make one append, with crashes and a second process in between |
| wallet core and service (`wallet/core.rs`, `wallet/service.rs`) | the append lock, control links | append, store what a peer served, truncate, invite, accept, admit, remove, create | lock held across several writes; a stale copy decides who is asked; the CLI is a second process |
| index (`storage.rs`) | entry per ledger, byte total, endpoint, cached witness verdicts | push, note, adopt, reload, change of endpoint | reads before the lock; a cache over files others write; caps; first seen wins |
| wallet sync (`wallet/sync.rs`) | none but what it writes through the core, and hints | freshness check, fetch, push | witnesses move between requests, disagree, or do not answer |
| sync protocol (`mabel-net`) | connections, permits | head, get, push, list, forks | paging over a chain that moves; limits; what is served need not be true |
| peer hints, bindings (`peers.rs`, `bindings.rs`) | `peers.json`, `bindings/` | record, evict, prune, vouch | read-modify-write without a lock |
| trust graph (`graph/`) | published generations | resolve, fetch, crawl, publish, collect, read | dial budget and deadline shared by fetches, caps inside a level, publication beside readers |
| hostname verification (`verification/`) | a cache of verdicts, a flag | check, refresh, merge | zones change, lookups fail, two checks write one record |
| verify and lookup (`wallet/verify.rs`, `lookup.rs`) | none | gather, choose, report divergence, paths, pages | sources that answer with different branches in any order |
| home and runtime (`home.rs`, `config.rs`, `runtime.rs`) | `node.json`, `node.key`, identities | create, open, start, stop, set-default | files created step by step by whoever comes first |
| HTTP gate (`api/`) | none | rules, routes, parsers | rules on Host, Origin and body spread over methods and routes |
| CLI, app, UI | none of their own | map commands to the above | separate processes on the same home |

How they meet: a route or a CLI command calls the wallet core under the append
lock of a ledger; the core folds the stored chain, signs, writes the directory
and tells the index. The server answers peers from the index and hands pushes
to it; a push is judged, spliced, folded and stored under the index lock. Sync
asks witnesses for heads and chains and writes what they serve through the core.
A crawl fetches ledgers from every source it knows under one budget and
publishes a generation that lookups read.

`PROJECT.json` lists the hazards at their lines with the properties that watch
them.

## Modules

- `LedgerFold`: the fold. One action per accepted payload, its guards the chain
  rules, the field table and the semantic checks. Rejected events change
  nothing and are no step. Events name each other by position, a signature is
  the key that made it, and `KeyOf` gives the key an identity's inception
  records; it is not injective. `chain` keeps the accepted events: the
  properties compare the folded state with what that history says by itself.
- `LedgerFiles`: one ledger directory. Event files, `head.json`, the index of
  each process; an append, a fetch, a truncation and a push are each several
  steps (checks, one rename per event, the rename of `head.json`, the note to
  the index). A process may crash between any two. An event is the chain up to
  it, because its id commits to that chain.
- `LedgerStorage`: the index of one home over many ledgers. A push is one
  step, since it holds the index lock throughout; each way out of it is an
  action. `note_ledger` and `adopt` read before they lock, so each is two
  steps. Also the endpoint change (two locks, two steps), a second process that
  writes the directories, a restart, and the truncation by which the node or
  the other process discards its own branch of a ledger it may append to. The
  index of the node learns nothing of what another process cut, so a push may
  then land on a branch it does not belong to: an event that does not verify,
  up to which the ledger is served.
- `AgreedLedger`: what replication through one witness promises: one log that
  only grows, and for each home a confirmed prefix of it that only grows.
- `Replication`: homes and witnesses sharing one ledger: the freshness check
  witness by witness, signing, fetching, pushing the whole chain, unanswered
  requests, and the failure counts of `peers.json`.
- `Wallet`: the commands on one shared ledger over several homes, routes under
  the append lock beside a command line that takes none: invitations and
  acceptances as files people pass around, links of local control,
  `solely_controls`, adoption of a peer's chain. A home's own node takes pushes
  of a ledger it signs for, in the middle of a command too; every writer checks
  in one step and writes in another.
- `PeerHints`: the methods of `Peers` on one ledger's list, used by
  `SourceFetch` and `HomeFiles`.
- `SourceFetch`: several ledgers fetched together under one `Resolution`.
  What a source serves is chosen when it is asked: nothing, a chain that does
  not verify, or any valid chain.
- `TrustGraph`: the crawl level by level and batch by batch with its caps, the
  clock that may stop it, and the distances, paths and pages computed from its
  generation; the properties compare these with reference definitions.
- `HomeFiles`: the other files of a home. A workload is a list of operations
  that run side by side, one file a step: publishing, collecting and reading
  generations, recording hints and bindings, minting identities, creating and
  opening the home, serving it, `witness set-default`. Any process may stop.
- `HostnameCheck`: forced checks and background refreshes over zones that
  change, aliases that loop and lookups that fail, and the cache between them.
  The resolver follows aliases by itself when it is asked for TXT records
  (`resolver.rs:179-197`), besides the ones the check follows.
- `SyncProtocol`: readers and servers of `mabel/ledger/0`: pages of a Get while
  the server's copy is extended or truncated, fork records checked on the same
  connection, limits on connections, requests and verifications, readers and
  servers that fall silent on an open connection, and the verdict over all
  witnesses.
- `WireFormat`: the field table. A message is the sequence of its records; the
  scanner, the builders, the request and response readers, and the grammars of
  varints, hostnames and links. A link is a record of its parts, each in
  lowercase or not.
- `WalletApi`: the HTTP gate up to the service call, over `WireFormat`.
- `LedgerFoldProofs`, `LedgerFilesProofs`, `LedgerStorageProofs`,
  `ReplicationProofs`, `HostnameCheckProofs`, `HomeFilesProofs`,
  `SourceFetchProofs`: the theorems about the module each is named after.
  `SequenceFacts`: what they share about prefixes, chains, least and greatest
  naturals, and sums.
- `MC*`: the instances TLC checks. A definition whose comment begins with
  `Mutant:` or `The mutant:` is an altered form of the one after it: with it in
  place, the property named beside it in `PROJECT.json` must fail.

Who relies on whom: LedgerStorage and Wallet take the fold's verdict on an event
(LedgerFold models it) and the directory as a chain (LedgerFiles models how it is
written). Replication takes a witness as a chain that only grows, which is
`FirstSeenWins` of LedgerStorage for ledgers the witness does not sign for
itself. SourceFetch and HomeFiles extend PeerHints,
WalletApi extends WireFormat.

## Runs

| run | checks | bounds |
|---|---|---|
| `fold` | `TypeOK`, `ControlIsNeverLost`, `KeysAreUnambiguous`, `OneOpenInvitation`, `AdmissionsAreConsented`, `SignedWhileController`, `RecordsMatchHistory` | membership chains of 6 events over 3 invitees of whom two share a key: enough to invite, accept, promote, demote, remove and replay; chains of every payload up to 5 events, two timestamps |
| `files_node` | `AppendsAreDurable`, `NeverOverwritten`, `LocksDrain` | a wallet writer and a push server, truncation, chains of 3 with two possible events per position, 1 crash: its orphan is met by the next append with other bytes |
| `storage` | `UsedIsExact`, `AdmissionFollowsThePolicy`, `ForkRecordsHold`, `FirstSeenWins`, `PushesStayWithinCaps` | a home that witnesses for w or nobody, with the legacy switch on and off, chains of 3 and one change of endpoint; a home with caps of 2 events, 3 bytes, 2 ledgers, 1 fork and 4 bytes in all, each met and passed; a home that signs for a ledger of two branches, which its node or a second process cuts back |
| `replication` | `AppendsAreInformed`, `Agrees`, `LosingARaceIsARetry` | two homes, one or two witnesses, chains of 3 of which a push carries 2, one lost request |
| `source_fetch` | `BudgetIsFair`, `WhatIsKeptIsSupported`, `EveryFetchEnds` | two ledgers, one with two branches, 3 dials of which 1 is reserved, five endpoints, three homes |
| `trust_graph` | `GenerationIsHonest`, `LookupsMatchTheGraph` | every graph over 4 identities, four sets of caps (none met, nodes, fetches, depth 0), batches of 2 |
| `home_files` | `HomeHolds`, `CrawlsAreWhole`, `SideRecordsHold` | seven workloads of 3 to 5 operations in up to four processes, each of which may stop: three syncs and a reader, two fetches and a push, five observations, three mints, two nodes and a command on a home that may be missing, three set-defaults beside a node |
| `hostname_check` | `ZonesAreReadTruly`, `BackgroundIsQuiet`, `FailedChecksOverwriteNothing`, `RefreshEnds` | three requests, two hostnames, zones with an alias, a circle, nothing, and two aliases in a row where a check follows one, 1 change of the profile, 1 tick |
| `wire_format` | `OneSpelling`, `MessagesCarryWhatWasMeant`, `ExactlyOwnPagesWrite`, `CallsAreSound` | one message of each kind with up to two edits at any depth, varints of 2-bit groups in 5 bits, hostnames of 6 characters, links whose query has up to 4 keys and elements, in either case, of which two endpoints are allowed and three are met, every route with up to two changed parts |
| `sync_verify` | `ReadsAreSound`, `VerdictIgnoresArrival`, `EverySlotComesBack` | two witnesses and a fork reader, chains of 3, pages of 2, two moves of the server, limits of one or two; a silent fork reader and a silent witness |
| `wallet` | `ChainsFollowTheKeys`, `InvitationsAreSound`, `NewChainsDecideTheLink` | two homes, a command line, a witness, seven settings of 2 to 5 events |
| `files_overwrite` | `NeverOverwrittenByAnyone`, violated | as `files_node`, without crash and truncation |

Several of these are conjunctions of named parts, each defined and commented in
its module, most with a mutant of its own:

- `AppendsAreDurable`: the directory is one whole chain (`ServedChainIsWhole`),
  what was acknowledged is in it (`AcknowledgedIsServed`), and the index says
  the same (`IndexIsTheDisk`).
- `RecordsMatchHistory`: trust and documents are what the history says.
- `AdmissionFollowsThePolicy`: the cached verdicts are current (identities a
  read may adopt excepted), strangers are held only for a witness identity that
  advertised this home, and what was let in keeps growing. `ForkRecordsHold`:
  evidence only, and within the cap (ledgers this process rereads excepted). Of
  a ledger whose directory may be cut back a record's own event verified, and
  the one it contends with may be gone.
- `FirstSeenWins`: pushes, reads and restarts keep every stored event. Only a
  writer of a ledger in `CutLedgers` shortens a directory, to a prefix of what
  it held.
- `AppendsAreInformed`: an append extends what every witness was heard to hold,
  and only silent endpoints are blamed.
- `BudgetIsFair`: distinct dials stay within the ration, and configured
  witnesses are not starved. `WhatIsKeptIsSupported`: an outcome follows from
  the copies served, and an endpoint only the caller named is not kept.
- `GenerationIsHonest`: truncation is reported exactly when something is
  missing, the caps keep the lowest ids, depths are to the nearest root.
  `LookupsMatchTheGraph`: paths are shortest, pages make up the whole list.
- `CrawlsAreWhole`: the pointer names, and a reader sees, a whole generation.
  `SideRecordsHold`: fetchers keep each other's hints, bindings come from one
  chain, a finished creation can be signed for, a raw ledger as soon as its
  inception is there, and a founded one that cannot be is not listed.
  `HomeHolds`: `node.json` never
  stands without its key, a node answers under the key the home holds, and
  settings load and stay.
- `ZonesAreReadTruly`: a verified hostname was published by its own zone, at
  its label or where aliases led from it, and endpoints do not depend on the order of records. `BackgroundIsQuiet`: only
  names a person asked about are queried, one refresh at a time.
- `OneSpelling`: what is accepted is the one canonical encoding, varint,
  hostname, link; a link may also be written in capitals and with a slash
  before its query, and renders without. `MessagesCarryWhatWasMeant`: what is built is read back, an
  accepted event is accepted in every container, an embedded inception proves
  its identity, and damage is not answered UNSUPPORTED.
  `ExactlyOwnPagesWrite` and `CallsAreSound`: the HTTP gate. Every call needs
  an accepted Host, and every one that writes an own Origin and a JSON body too,
  but for the read of an identity, which may refresh a stale verdict.
- `ReadsAreSound`: a chain paged from a server that did not truncate verifies
  and is long enough, and a fork record handed on is a fork.
- `ChainsFollowTheKeys`: a home only its node writes keeps a valid chain, and
  copies part only where somebody else could sign, unless a push and a command
  were past their checks at once. `InvitationsAreSound`: a
  bundle can be answered, and an answer admits only while its invitation stands.

Deadlock is checked except where a behaviour ends: `fold` (bound on the chain),
`files_node` (a directory torn by a crash keeps the node from starting),
`hostname_check`, `sync_verify`, `wallet` and `wire_format` (all requests,
moves, commands or edits used up).

The exceptions a property makes are those the code makes. `files_node` lets
every mishap happen and records that a writer under one lock changed the
directory between another's reads and writes ("overtaken"), or that a crash cut
a truncation short ("torn"); the guarantees hold without these two. `home_files`
does the same for overlapping syncs (`overlapped`) and for two commands that
write the home's own files at once (`raced`), `sync_verify` for a server that
truncates under its reader (`steady`) and for ends of a connection that say
nothing (`silent`), `wallet` for a writer that wrote while another was past its
check (`overlap`).

Fairness. `LedgerFiles!FairSpec`: a thread inside a locked section that can move
does so; nothing is assumed of arrivals, crashes or restarts, nor of how a
mutex chooses among waiters, which is why `LocksDrain` speaks of what happens
once requests stop. `Replication!FairSpec`: an append that has heard its
witnesses signs, which is local, and a caller told `stale_head` repeats its
call; nobody is assumed to start an append or a push, and no request to be
answered. Of the requests of `wallet/sync.rs` only the dial has a deadline
(`sync.rs:112-121`): a witness that falls silent after it keeps the append, and
its lock, for as long as the connection lives, so `LosingARaceIsARetry` speaks of
callers whose requests end. `SourceFetch!FairSpec`: a fetch that can move does;
each of its steps is a bounded await or pure code. `HostnameCheck`: a request
that began goes on, each lookup being bounded by the resolver; zones and profiles
are under no fairness. `SyncProtocol`: an end of a connection that is not silent
goes on, since its task is polled by the runtime. Which ends are silent is part
of the scenario, because `accept_bi`, `read_to_end` and `write_all` wait without
a deadline (`server.rs:194`, `:245`, `:254`); a verification with a silent
witness does not end. The servers' own appends are under no fairness.

## Disagreements found

`files_overwrite` is kept as a run: a push and a local append to one ledger work
under different locks, and the overwrite check of `write_events` is not atomic
with the rename, so one event file replaces the other; a second process does
the same.

What the formulas below say does not hold of the code as a whole. TLC refutes
each under the constants of its module's run, unless the table names a change to
the constants or to the formula; the runs check the weaker forms above.

| formula | what the code does | said by |
|---|---|---|
| `LedgerFiles!CrashLeavesAValidLedger` (`files_node`) | a crash in `truncate` leaves `head.json` past the files | proposal 001, 560-562 |
| `LedgerStorage!VerdictsAreCurrent` (said of `WitnessFor`, not of `WitnessFor \ Asked`; a setting in which a read adopts a witness identity) | `adopt` changes the copy and does not recheck the verdict (`storage.rs:513`) | the comment on `WitnessForEntry::gap` |
| `LedgerStorage!ForkCapHolds` (said of every ledger; a setting in which the home pushes to and rereads one ledger) | `note_ledger` and `adopt` may put back an entry read before the last fork records were made; `record_divergence` counts the entry's, so as many are made again (`storage.rs:467`, `storage.rs:503`) | `storage.rs:151-153` |
| `Replication!LosingARaceIsARetry` (said of every home, not of `Agreeing`) | witnesses on different branches make every retry stale (`wallet/sync.rs:573`) | proposal 001, 470 |
| `Replication!OnlyUnreachableIsBlamed` (said of `oversized` homes too) | a chain over the push cap counts as an unreachable endpoint | `wallet/sync.rs:615-616` |
| `SourceFetch!NoBranchIsChosenSilently` | copies are compared with the first one only; two that part past its end are not told apart | `graph/fetcher.rs`, `decide` |
| `HomeFiles!OnlyATakenAliasIsRefused` | a creation that stopped before `meta.json` blocks every later one | `wallet/core.rs:1428-1429` |
| `HomeFiles!FoundedLedgersAreUsable` | a creation with a founder that stops before `meta.json` leaves a ledger without a `controlled_by` link, which nobody can sign for | no text; what one would expect of `create_identity` |
| `HomeFiles!NoLookupSeesHalfACrawl` | a reader overtaken by collections may list part of a directory | `graph/store.rs:11-13` |
| `HomeFiles!NeverFromAShorterChain` | after a divergence removed the record, a shorter chain may be recorded | proposal 006, 4.2 |
| `HomeFiles!MigrationIsPossible` | `config.rs:38` names `witness set-default` as the remedy for a `node.json` of the older shape, and the command fails on loading that file (`witness.rs:146`) | `config.rs:38` |
| `HostnameCheck!LongChainsAreUnreachable` | the resolver follows aliases itself when asked for TXT records (`resolver.rs:179-197`), so a chain longer than the check's limit may be called verified | proposal 003, 132-133; proposal 006, 563 |
| `HostnameCheck!FailedChecksNeverOverwrite` | a verdict recorded between another check's read and write is overwritten | the comment on `merge`, `verification/cache.rs` |
| `Wallet!SoleControllerIsUpToDate` | a copy that missed an admission still counts this home as sole controller | `wallet/core.rs:1235` |
| `Wallet!LinkFollowsTheChain` | a push into the home, and the removal of a controller that this home signs, change the fold without `link_local_control` | `wallet/core.rs:1149-1151` |
| `Wallet!ChainsStayValid` (a home with a command line and a shared ledger, five events, such as `ops` of `{"witnesses"}`) | `write_events` compares sequence and bytes, not the previous id: a command line that signed on a head the node replaced leaves a chain that does not fold | `ledger.rs:264-282`, `wallet/core.rs:16-20` |

Also seen, without a formula: a read of an identity, which needs only an
accepted Host, may query DNS and write the verification cache
(`wallet/service.rs:252-264`); of a request of `wallet/sync.rs` only the dial has
a deadline; two reads that adopt one ledger count its bytes twice; on port 80 a bare loopback name is accepted as Host and not as Origin
(`api/loopback.rs:97-113`); `invite` appends before it checks the bundle's caps
(`wallet/core.rs:731`), and the CLI's reads the store again for the bundle
(`commands/membership.rs:54`); the client counts raw bytes against a cap on
encoded ones (`client.rs:206`).

## Proofs

Every theorem holds for all values of the constants its module declares, under
the named assumptions there, which TLC evaluates in the module's run. The bounds
of the runs (lengths, caps, crashes, clock) are arbitrary naturals in the proofs.

`LedgerFoldProofs`: `TypeOK` (`TypeCorrect`), `ControlIsNeverLost`
(`ControlTheorem`), `KeysAreUnambiguous` (`KeysTheorem`), `OneOpenInvitation`
(`InvitationTheorem`), `AdmissionsAreConsented` (`ConsentTheorem`).

- Types first: every action keeps each record's fields in range, and the
  history as long as the head says.
- Control is not inductive alone. It needs that the state is unseeded exactly
  before the inception, that a raw root's identity is the ledger, that an
  invitation never names the ledger and records its invitee's own key, and
  that an identity has at most one open invitation: without the last,
  cancelling "the" open invitation on removal would leave one behind.
- Keys follow from the free-key guard of an acceptance and the fact that a
  re-admitted identity keeps the key of its inception.
- Consent relates the history to the invitations: every invitation on record
  stands at its position in the chain with its invitee; an open one has been
  neither answered nor, since it was issued, followed by a removal of its
  invitee. An acceptance appended now then has the past the property asks for,
  and later events leave the past alone.

`LedgerFoldProofs`, the history: `SignedWhileController` (`AuthorityTheorem`) and
`RecordsMatchHistory` (`RecordsTheorem`).

- Authority needs that every controller of the state has grounds in the history
  (`ControllersHaveGrounds`), and for that, that an open invitation still says
  the role its event said: an acceptance copies the role from the state, the
  history reads it off the invitation.
- Records: each trust relation of the state names the attestation that made it,
  the attestation stands in the chain unrevoked, and each document is the one of
  the last event that set it.

`ReplicationProofs`: `AppendsAreInformed` (`InformedTheorem`) and, when there is
a witness, the refinement of `AgreedLedger` (`RefinementTheorem`).

- What a home heard stays a prefix of its own copy while it asks, since the copy
  is only extended or replaced by a chain that extends it; requests name a
  witness of the list, which is what makes the position in it meaningful.
- The refinement maps the log to the first witness's chain, and a home's
  confirmed prefix to what its copy shares with it. A step that replaces a copy
  (`take_theirs`) replaces it, with one witness, by the log itself. With more,
  the abstract views are unconstrained, as `Agrees` says.

`LedgerFilesProofs`: `NeverOverwritten` (`OverwriteTheorem`), `ServedChainIsWhole`
and `AcknowledgedIsServed` for any number of processes (`WholeTheorem`), and
`AppendsAreDurable` on a home with one process (`DurableTheorem`).

- Overwriting: a writer that was not overtaken has, at its next sequence, what
  its check found; whoever changes the files meanwhile marks it overtaken.
- The other two are about states without the two mishaps. Their invariant says
  that every event file ends a chain filed below it (`OneRun`), what each holder
  of a lock has already written and still owes, and how far `head.json` and the
  index lag.
- The hypotheses are the code's. `WholeTheorem` asks that a home which truncates
  has one process: with two, a truncation between another process's reads and
  its writes leaves an event of the old branch on the new one and nobody is
  overtaken, because `write_events` checks the sequence and not the previous id
  (`ledger.rs:262-299`). `DurableTheorem` asks for one process because a
  process's index learns nothing of what another one writes.

`LedgerStorageProofs`: `FirstSeenWins` (`FirstSeenTheorem`), `ForkRecordsHold`
(`ForkTheorem`), `UsedIsExact` (`UsedTheorem`), `AdmissionFollowsThePolicy`
(`AdmissionTheorem`), `PushesStayWithinCaps` (`CapsTheorem`).

- `ControlInv`: the index, and what a thread read and has yet to insert, are
  chains of the ledger, their forks files of the directory; where nobody cuts,
  they are prefixes of the directory and it verifies. A push changes a directory
  only from the index's head on, and `write_events` refuses one that is longer or
  shorter, so it only extends; a writer that cuts answers no push.
- `ForkInv` adds that a record's last event verified, that where nobody cuts the
  record parts from the stored chain there, and that, where nobody rereads, the
  index counts the files.
- `VerdictInv` and `StrangerInv`: a missing gap means that the copy on disk at
  some point advertised this home, and every chain held of a stranger, on disk,
  in the index or in a thread's hands, was vouched for that way.
- `UsedInv` compares `storage_used` with a sum over all ledgers. The sum is a
  fold; `SequenceFacts` shows that it exists and how it changes with one entry,
  by the least counterexample instead of an induction rule.

`HostnameCheckProofs`: `ZonesAreReadTruly` (`ZonesTheorem`), `BackgroundIsQuiet`
(`QuietTheorem`), `FailedChecksOverwriteNothing` (`FailedChecksTheorem`).

- `CheckInv`: the cache, and the copy a check has read, are about hostnames a
  person asked about and call one verified only if its zone published it where
  aliases lead; a check stands at a name that aliases lead to from its label, so
  what the resolver finds beyond is reached from the label too; a background
  check under way is covered by the flag, and is the only one. It is stated over
  what was asked, published and aliased so far, which only grows, so a verdict
  stays supported when the profile or the zone changes under it.
- Order: an endpoint set, and whether a label names anybody, depend on the set
  of records alone; the first claim that parses exists by the least position.

`HomeFilesProofs`: `CrawlsAreWhole` (`CrawlsTheorem`), `HomeHolds`
(`HomeTheorem`), `SideRecordsHold` (`SideTheorem`). All three rest on `WorkInv`: a
step changes the record of one operation and never its kind or its inputs, and a
crash only ends operations.

- `CrawlInv`: a generation that the pointer names or a reader resolved is sealed:
  it is whole, unless as many newer ones as are kept were begun since.
  Collectors doom only generations that old.
- `HomeInv`: `node.json` appears only after the key of the node; unless two
  writers met, whoever is between reading and writing it read what it still
  holds, and a set-default that finished leaves its witness there.
- `BindInv`: the record on disk, and what each binder read of it, come from one
  chain. `MintInv`: each file of a minted
  identity lands after the ones it needs, the alias and the link in `meta.json`
  last of all.
- `HintInv`: lists stay within the cap. While all writers lock and nothing is
  evicted, the one between its read and its write holds the mutex and has read
  what the file still holds; the file holds one hint per endpoint, charged with
  no more failures than dials recorded, and every endpoint a finished writer
  heard from. The failures are counted by dials and not by fetches: a fetch may
  dial an endpoint again when DNS names one it has already tried
  (`fetcher.rs:519`).
- `WorkAssumption` says that a workload is a sequence of operations, that the
  crawls and the minted identities have names of their own and that the entries
  of a `node.json` are of one of its two shapes; `HintAssumption`, that a list may
  hold a hint and survive a failure.
- `Retain` and `RecordResults` are recursive functions; that they exist and what
  they leave in a list is shown by the least counterexample.

`SourceFetchProofs`: `BudgetIsFair` (`BudgetTheorem`) and
`WhatIsKeptIsSupported` (`SupportTheorem`), both from `IInv`.

- The budget: what was dialled and the slots still owed to the configured
  witnesses together fit the ration (`BudgetOK`). An admitted endpoint of another
  class leaves the owed slots alone, one of a witness uses one of them. A witness
  that a plan left out was therefore refused by the cap of its class, which is
  no smaller than the reserve.
- A fetch that is reading has resolved the configured witnesses, and what is
  resolved stays so; its plan was made with those endpoints, so it still names
  them when another fetch has written peers.json since.
- The caller's endpoints are planned first. The first plan of an operation has
  room for all of them, since a link names no more than their class may dial
  (`BudgetAssumption`), and later plans find them dialled; each is in the plan as
  the caller's. A source that a chain names is planned only if its endpoint is
  not, so no copy from a caller's endpoint can be recorded unless the zone
  named it (`Vouched`).
- `Decide` keeps a copy that exists (a longest one, a first that parts), and two
  chains are equal up to the position where they part.
- `HomeAssumption` says that a home and its chains hold sequences of the right
  things and that peers.json starts within its cap. `Plan`, `Retain`,
  `RecordFailures` and the library's `FlattenSeq` are recursive functions: that
  they exist is shown by counting up to the length of the list.

Only model-checked:

- liveness (`LocksDrain`, `LosingARaceIsARetry`, `EveryFetchEnds`, `RefreshEnds`,
  `EverySlotComesBack`): fairness is beyond the prover;
- everything about WireFormat, WalletApi and SyncProtocol: their recursive
  operators, and what they compute for every input, are out of its reach;
- the properties of TrustGraph and Wallet: no proof yet.

## Not modelled

- Cryptography: ids and signatures are tokens that bind what they sign; the
  text codec of an id only as far as spellings differ.
- The shapes of the JSON answers (`api/documents.rs`) and everything rendered:
  CLI output, the web interface.
- Binding an iroh endpoint, relays and discovery (pure I/O).
- The file formats of keys, aliases and contacts, and the armour of artifact
  files; command-line parsing.
- `witness_for` and the other settings of `node.json` that are read once at
  start: LedgerStorage takes them as constants of a behaviour.

## Plan

1. Proofs: the parts of TrustGraph that need no induction over paths,
   `InvitationsAreSound` of Wallet.
2. Composition: Wallet over the locks of LedgerFiles instead of whole chains.
3. The armour of artifact files and the contact store.
