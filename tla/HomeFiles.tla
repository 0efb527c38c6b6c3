------------------------------ MODULE HomeFiles ------------------------------
(***************************************************************************)
(* The files of a node home that are not ledgers, and the operations that  *)
(* read and write them side by side: publishing, collecting and reading    *)
(* generations of the trust graph, recording peer hints, recording which   *)
(* endpoints a witness's ledger vouches for, minting an identity, and      *)
(* opening or creating the home itself to serve it or to configure it.     *)
(* Each file is replaced by one rename, so a step reads or writes one file;*)
(* nothing but the hint mutex of one fetcher orders two operations.  They  *)
(* run in threads of a node or in commands beside it, and a process may    *)
(* stop between any two steps.                                             *)
(*                                                                         *)
(* A workload is the operations that run in one behaviour; each may start  *)
(* at any time.                                                            *)
(***************************************************************************)
EXTENDS PeerHints, FiniteSetsExt, TLC

CONSTANTS
    Workloads,   \* a set of sequences of operations
    NodeFiles,   \* the node files of one generation
    Kept,        \* generations that survive a sync
    NewIds,      \* identities that may be minted, as numbers
    Configs,     \* node.json as an operator or an older release left it
    Now

VARIABLES
    work,        \* the operations, with their program counters and locals
    pointer,     \* graph/current.json, 0 when there is none
    generations, \* graph/generations: [name -> the files in it]
    peers,       \* the hints of one ledger in peers.json
    hintsLock,   \* the fetcher's mutex over peers.json: a job, or 0
    bindings,    \* bindings/<w>.json: [exists, entries]
    identities,  \* files of each identity
    config,      \* node.json: [exists, witnesses]
    nodeKey,     \* node.key: the job that generated it, 0 when there is none
    begun,       \* history: the generations whose directory was ever made
    overlapped,  \* history: two syncs were under way at once
    highest,     \* history: the highest head a binding was derived from
    raced        \* history: two jobs wrote the home's own files at once

home == <<config, nodeKey, raced>>
files == <<pointer, generations, peers, bindings, identities, config, nodeKey>>
vars == <<work, files, hintsLock, begun, overlapped, highest, raced>>

Jobs == DOMAIN work

Summary == "summary"
Whole == NodeFiles \cup {Summary}
NoAlias == "none"

NoConfig == [exists |-> FALSE, witnesses |-> <<>>]
Operator == 99    \* the key of a home that is there already
NoBindings == [exists |-> FALSE, entries |-> {}]
NoFiles == [active |-> FALSE, reserve |-> FALSE, event |-> FALSE, head |-> FALSE,
            provenance |-> FALSE, alias |-> NoAlias]

\* The operations.
Sync(p, g) == [kind |-> "sync", proc |-> p, at |-> "start", gen |-> g, doomed |-> {}]
Lookup(p) == [kind |-> "lookup", proc |-> p, at |-> "start", gen |-> 0, listed |-> {},
              nodes |-> {}, result |-> "none"]
\* What the dials of one fetch or push came to, those the caller named left out.
Result(e, status) == [endpoint |-> e, status |-> status]
Hint(p, locks, results) ==
    [kind |-> "hint", proc |-> p, at |-> "start", locks |-> locks, results |-> results,
     seen |-> <<>>]
Bind(p, seq, event, endpoints, source) ==
    [kind |-> "bind", proc |-> p, at |-> "start", seq |-> seq, event |-> event,
     endpoints |-> endpoints, source |-> source, mayBind |-> TRUE, seen |-> NoBindings]
Create(p, i, alias, raw) ==
    [kind |-> "create", proc |-> p, at |-> "start", id |-> i, alias |-> alias, raw |-> raw]
\* A node on the port node.json names, or on one of its own.
Serve(p, port) ==
    [kind |-> "serve", proc |-> p, at |-> "start", port |-> port, key |-> 0, loaded |-> <<>>]
\* The endpoints as typed, and whether a copy or a hint names one for w.
SetDefault(p, w, given, known) ==
    [kind |-> "set_default", proc |-> p, at |-> "start", witness |-> w, given |-> given,
     known |-> known, seen |-> <<>>]

\* What an operation is before it starts: crawls have names of their own, which
\* begin with the time they started, and identities are minted from fresh keys.
Operation(o) ==
    \/ o.kind = "sync" /\ o = Sync(o.proc, o.gen) /\ o.gen \in Nat \ {0}
    \/ o.kind = "lookup" /\ o = Lookup(o.proc)
    \/ /\ o.kind = "hint" /\ o = Hint(o.proc, o.locks, o.results)
       /\ o.locks \in BOOLEAN /\ o.results \in Seq(Range(o.results))
    \/ /\ o.kind = "bind" /\ o = Bind(o.proc, o.seq, o.event, o.endpoints, o.source)
       /\ o.seq \in Nat
    \/ /\ o.kind = "create" /\ o = Create(o.proc, o.id, o.alias, o.raw)
       /\ o.id \in NewIds /\ o.alias # NoAlias /\ o.raw \in BOOLEAN
    \/ o.kind = "serve" /\ o = Serve(o.proc, o.port)
    \/ /\ o.kind = "set_default" /\ o = SetDefault(o.proc, o.witness, o.given, o.known)
       /\ o.given \in Seq(Range(o.given))

Twins(o, p) ==
    \/ o.kind = "sync" /\ p.kind = "sync" /\ o.gen = p.gen
    \/ o.kind = "create" /\ p.kind = "create" /\ o.id = p.id

ASSUME WorkAssumption ==
    /\ Kept \in Nat /\ Now \in Nat \ {0} /\ Summary \notin NodeFiles
    /\ \A w \in Workloads :
         /\ w \in Seq(Range(w)) /\ \A j \in DOMAIN w : Operation(w[j])
         /\ \A j, k \in DOMAIN w : Twins(w[j], w[k]) => j = k
    /\ \A c \in Configs :
         /\ c.exists \in BOOLEAN /\ c.witnesses \in Seq(Range(c.witnesses))
         /\ \A w \in Range(c.witnesses) : DOMAIN w = {"form", "witness", "endpoints"}

Opens(j) == work[j].kind \in {"serve", "set_default"}

Init ==
    /\ work \in Workloads
    /\ pointer = 0 /\ generations = [g \in {} |-> {}]
    /\ peers = <<>> /\ hintsLock = 0
    /\ bindings = NoBindings
    /\ identities = [i \in NewIds |-> NoFiles]
    /\ config \in IF \E j \in Jobs : Opens(j) THEN Configs ELSE {NoConfig}
    /\ nodeKey = IF config.exists THEN Operator ELSE 0
    /\ begun = {} /\ overlapped = FALSE /\ highest = 0 /\ raced = FALSE

Goto(j, at) == work' = [work EXCEPT ![j] = [@ EXCEPT !.at = at]]
Is(j, kind, at) == work[j].kind = kind /\ work[j].at = at

-----------------------------------------------------------------------------
(* The trust graph on disk.                                                *)

Exists(g) == g \in DOMAIN generations
With(g, S) == [h \in DOMAIN generations \cup {g} |-> IF h = g THEN S ELSE generations[h]]
Without(g) == [h \in DOMAIN generations \ {g} |-> generations[h]]

GraphOnly == UNCHANGED <<peers, hintsLock, bindings, identities, highest, home>>

UnderWay(j) == work[j].kind = "sync" /\ work[j].at \in {"write", "swap", "list", "remove"}

\* write_generation makes the directory ...
MakeGeneration(j) ==
    /\ Is(j, "sync", "start")
    /\ generations' = With(work[j].gen, {})
    /\ begun' = begun \cup {work[j].gen}
    /\ overlapped' = (overlapped \/ \E k \in Jobs : UnderWay(k))
    /\ Goto(j, "write")
    /\ UNCHANGED pointer /\ GraphOnly

\* Mutant: the summary is written before the nodes.
NextFileSummaryFirst(g) ==
    IF Summary \notin generations[g] THEN {Summary} ELSE NodeFiles \ generations[g]

\* ... writes one file per node, and the summary last.
NextFile(g) ==
    IF NodeFiles \subseteq generations[g] THEN {Summary} ELSE NodeFiles \ generations[g]

WriteFile(j) ==
    LET g == work[j].gen
    IN  /\ Is(j, "sync", "write") /\ Exists(g)
        /\ \E f \in NextFile(g) :
             /\ generations' = With(g, generations[g] \cup {f})
             /\ Goto(j, IF f = Summary THEN "swap" ELSE "write")
        /\ UNCHANGED <<pointer, begun, overlapped>> /\ GraphOnly

\* The directory was collected while it was being written.
WriteFails(j) ==
    /\ Is(j, "sync", "write") /\ ~Exists(work[j].gen)
    /\ Goto(j, "failed")
    /\ UNCHANGED <<pointer, generations, begun, overlapped>> /\ GraphOnly

SetCurrent(j) ==
    /\ Is(j, "sync", "swap")
    /\ pointer' = work[j].gen
    /\ Goto(j, "list")
    /\ UNCHANGED <<generations, begun, overlapped>> /\ GraphOnly

\* Mutant: only the generation just published is kept.
DoomedAllOthers(keep) == DOMAIN generations \ {keep}

\* Everything but the newest Kept generations and the one to keep.
Doomed(keep) ==
    {g \in DOMAIN generations :
        Cardinality({h \in DOMAIN generations : h > g}) >= Kept} \ {keep}

CollectList(j) ==
    /\ Is(j, "sync", "list")
    /\ work' = [work EXCEPT ![j] =
         [@ EXCEPT !.doomed = Doomed(work[j].gen),
                   !.at = IF Doomed(work[j].gen) = {} THEN "done" ELSE "remove"]]
    /\ UNCHANGED <<pointer, generations, begun, overlapped>> /\ GraphOnly

\* remove_dir_all unlinks the files one by one and the directory last; what
\* another collector has removed is skipped.
CollectStep(j) ==
    LET g == Min(work[j].doomed)
        rest == work[j].doomed \ {g}
        next == [work EXCEPT ![j] =
                  [@ EXCEPT !.doomed = rest, !.at = IF rest = {} THEN "done" ELSE "remove"]]
    IN  /\ Is(j, "sync", "remove")
        /\ \/ /\ Exists(g) /\ generations[g] # {}
              /\ \E f \in generations[g] : generations' = With(g, generations[g] \ {f})
              /\ UNCHANGED work
           \/ /\ Exists(g) /\ generations[g] = {}
              /\ generations' = Without(g) /\ work' = next
           \/ /\ ~Exists(g)
              /\ UNCHANGED generations /\ work' = next
        /\ UNCHANGED <<pointer, begun, overlapped>> /\ GraphOnly

\* A reader resolves the pointer once ...
ReadPointer(j) ==
    /\ Is(j, "lookup", "start")
    /\ work' = [work EXCEPT ![j] =
         [@ EXCEPT !.gen = pointer, !.at = IF pointer = 0 THEN "done" ELSE "summary"]]
    /\ UNCHANGED <<pointer, generations, begun, overlapped>> /\ GraphOnly

\* ... reads the summary of the generation it names ...
ReadSummary(j) ==
    LET g == work[j].gen
        there == Exists(g) /\ Summary \in generations[g]
    IN  /\ Is(j, "lookup", "summary")
        /\ Goto(j, IF there THEN "list" ELSE "done")
        /\ UNCHANGED <<pointer, generations, begun, overlapped>> /\ GraphOnly

\* ... lists its nodes, none when the directory is gone ...
ListNodes(j) ==
    LET g == work[j].gen
        found == IF Exists(g) THEN generations[g] \ {Summary} ELSE {}
    IN  /\ Is(j, "lookup", "list")
        /\ work' = [work EXCEPT ![j] =
             [@ EXCEPT !.listed = found, !.result = IF found = {} THEN "some" ELSE work[j].result,
                       !.at = IF found = {} THEN "done" ELSE "nodes"]]
        /\ UNCHANGED <<pointer, generations, begun, overlapped>> /\ GraphOnly

\* ... and reads them one by one; one that vanished fails the read.
ReadNode(j) ==
    LET g == work[j].gen
    IN  /\ Is(j, "lookup", "nodes")
        /\ \E f \in work[j].listed \ work[j].nodes :
             IF Exists(g) /\ f \in generations[g]
             THEN LET read == work[j].nodes \cup {f}
                  IN  work' = [work EXCEPT ![j] =
                        [@ EXCEPT !.nodes = read,
                                  !.at = IF read = work[j].listed THEN "done" ELSE "nodes",
                                  !.result = IF read = work[j].listed THEN "some" ELSE work[j].result]]
             ELSE work' = [work EXCEPT ![j] = [@ EXCEPT !.at = "done", !.result = "error"]]
        /\ UNCHANGED <<pointer, generations, begun, overlapped>> /\ GraphOnly

-----------------------------------------------------------------------------
(* Peer hints.  A fetcher of the crawl takes its mutex; a push does not.   *)

HintsOnly == UNCHANGED <<pointer, generations, bindings, identities, begun, overlapped, highest, home>>

\* Mutant: the fetchers do not take the mutex.
ReadPeersUnlocked(j) ==
    /\ Is(j, "hint", "start")
    /\ work' = [work EXCEPT ![j] = [@ EXCEPT !.seen = peers, !.at = "write"]]
    /\ UNCHANGED <<peers, hintsLock>> /\ HintsOnly

ReadPeers(j) ==
    /\ Is(j, "hint", "start")
    /\ work[j].locks => hintsLock = 0
    /\ hintsLock' = IF work[j].locks THEN j ELSE hintsLock
    /\ work' = [work EXCEPT ![j] = [@ EXCEPT !.seen = peers, !.at = "write"]]
    /\ UNCHANGED peers /\ HintsOnly

\* A rejection is an answer about the ledger and not about the machine.
RecordResult(hints, r) ==
    IF r.status = "accepted" THEN RecordSuccess(hints, r.endpoint, Now)
    ELSE IF r.status = "unreachable" THEN RecordFailure(hints, r.endpoint) ELSE hints

\* In the order of the dials of a push; a fetch records its failures first.
RecordResults(hints, results) ==
    LET after[n \in 0 .. Len(results)] ==
            IF n = 0 THEN hints ELSE RecordResult(after[n - 1], results[n])
    IN  after[Len(results)]

\* What has aged out is dropped.
Recorded(j) == Prune(RecordResults(work[j].seen, work[j].results), Now)

WritePeers(j) ==
    /\ Is(j, "hint", "write")
    /\ peers' = IF Recorded(j) = work[j].seen THEN peers ELSE Recorded(j)
    /\ hintsLock' = IF hintsLock = j THEN 0 ELSE hintsLock
    /\ Goto(j, "done")
    /\ HintsOnly

-----------------------------------------------------------------------------
(* Bindings: which endpoints a witness's own ledger vouches for.           *)

BindOnly == UNCHANGED <<pointer, generations, peers, hintsLock, identities, begun, overlapped, home>>

\* Mutant: the endpoint that served the chain may vouch for itself.
VouchedForItself(o) == IF o.mayBind THEN o.endpoints ELSE {}

\* Every advertised endpoint but the one that served the evidence.
Vouched(o) == IF o.mayBind THEN o.endpoints \ {o.source} ELSE {}

Entry(o, e) == [endpoint |-> e, seq |-> o.seq, event |-> o.event, source |-> o.source]
Entries(o) == {Entry(o, e) : e \in Vouched(o)}

\* Mutant: a chain of the same length is merged whatever it ends in.
DivergentNever(existing, o) == FALSE

Divergent(existing, o) == \E b \in existing.entries : b.seq = o.seq /\ b.event # o.event

\* The rules by head sequence, over the record as it was read: the record to
\* write, or none.
Apply(existing, o) ==
    LET recorded == Max({b.seq : b \in existing.entries})
        replaced == [exists |-> TRUE, entries |-> Entries(o)]
        kept == {b \in existing.entries : b.endpoint \notin Vouched(o)}
    IN  IF ~o.mayBind THEN {}
        ELSE IF ~existing.exists \/ existing.entries = {}
        THEN IF Vouched(o) = {} THEN {} ELSE {replaced}
        ELSE IF o.seq < recorded THEN {}
        ELSE IF o.seq > recorded THEN {replaced}
        ELSE IF Divergent(existing, o) THEN {NoBindings}
        ELSE IF Vouched(o) = {} THEN {}
        ELSE {[exists |-> TRUE, entries |-> kept \cup Entries(o)]}

ReadBindings(j) ==
    /\ Is(j, "bind", "start")
    /\ work' = [work EXCEPT ![j] = [@ EXCEPT !.seen = bindings, !.at = "write"]]
    /\ UNCHANGED <<bindings, highest>> /\ BindOnly

RecordBindings(j) ==
    LET new == Apply(work[j].seen, work[j])
    IN  /\ Is(j, "bind", "write")
        /\ bindings' \in IF new = {} THEN {bindings} ELSE new
        /\ highest' = IF \E b \in new : b.exists THEN Max({highest, work[j].seq}) ELSE highest
        /\ Goto(j, "done")
        /\ BindOnly

-----------------------------------------------------------------------------
(* Minting an identity.                                                    *)

CreateOnly ==
    UNCHANGED <<pointer, generations, peers, hintsLock, bindings, begun, overlapped, highest, home>>

\* identities/<id>/ is there as soon as the first file in it is.
Listed(i) == identities[i].active \/ identities[i].reserve \/ identities[i].alias # NoAlias

\* Reading the aliases fails on the first identity without a meta.json.
AliasCheck(alias) ==
    IF \E i \in NewIds : Listed(i) /\ identities[i].alias = NoAlias THEN "unreadable"
    ELSE IF \E i \in NewIds : identities[i].alias = alias THEN "in_use" ELSE "free"

\* Mutant: the ledger lands before the keys that sign for it.
CreateOrderLedgerFirst == <<"event", "head", "active", "reserve", "provenance">>

CreateOrder == <<"active", "reserve", "event", "head", "provenance">>

CheckAlias(j) ==
    /\ Is(j, "create", "start")
    /\ Goto(j, IF AliasCheck(work[j].alias) # "free" THEN AliasCheck(work[j].alias)
               ELSE IF work[j].raw THEN CreateOrder[1] ELSE "event")
    /\ UNCHANGED identities /\ CreateOnly

\* The keys of a raw root, then the inception and its head, then where the
\* ledger came from.
WriteNext(j) ==
    \E n \in DOMAIN CreateOrder :
        /\ Is(j, "create", CreateOrder[n])
        /\ identities' = [identities EXCEPT ![work[j].id][CreateOrder[n]] = TRUE]
        /\ Goto(j, IF n = Len(CreateOrder) THEN "meta" ELSE CreateOrder[n + 1])
        /\ CreateOnly

WriteMeta(j) ==
    /\ Is(j, "create", "meta")
    /\ identities' = [identities EXCEPT ![work[j].id].alias = work[j].alias]
    /\ Goto(j, "done")
    /\ CreateOnly

-----------------------------------------------------------------------------
(* The home itself.  Every command opens it, creating it when node.json is *)
(* not there.                                                              *)

HomeOnly ==
    UNCHANGED <<pointer, generations, peers, hintsLock, bindings, identities, begun,
                overlapped, highest>>

OpenOrCreate(j) ==
    /\ Opens(j) /\ work[j].at = "start"
    /\ Goto(j, IF config.exists THEN "opened" ELSE "create")
    /\ UNCHANGED home /\ HomeOnly

\* Mutant: node.json lands before the key of the node it describes.
HomeOrderConfigFirst == <<"config", "key">>

HomeOrder == <<"key", "config">>

\* A job is between what it read of the home's files and its last write of them.
Writing(j) == Opens(j) /\ work[j].at \in {"key", "config", "store"}

Race(j) == raced' = (raced \/ \E k \in Jobs \ {j} : Writing(k))

\* Mutant: create does not look again.
CheckHomeNever(j) ==
    /\ Opens(j) /\ work[j].at = "create"
    /\ Goto(j, HomeOrder[1])
    /\ Race(j)
    /\ UNCHANGED <<config, nodeKey>> /\ HomeOnly

\* create looks again, and refuses a home that came to be meanwhile.
CheckHome(j) ==
    /\ Opens(j) /\ work[j].at = "create"
    /\ Goto(j, IF config.exists THEN "home_exists" ELSE HomeOrder[1])
    /\ Race(j)
    /\ UNCHANGED <<config, nodeKey>> /\ HomeOnly

\* A fresh key, and the defaults, each over what is there.
WriteHomeFile(j) ==
    \E n \in DOMAIN HomeOrder :
        /\ Opens(j) /\ work[j].at = HomeOrder[n]
        /\ IF HomeOrder[n] = "key"
           THEN nodeKey' = j /\ UNCHANGED config
           ELSE config' = [exists |-> TRUE, witnesses |-> <<>>] /\ UNCHANGED nodeKey
        /\ Goto(j, IF n = Len(HomeOrder) THEN "opened" ELSE HomeOrder[n + 1])
        /\ Race(j) /\ HomeOnly

\* What node.json may say under witnesses: an object, or the id of an identity or
\* of an endpoint, as older releases wrote it.
Witness(w, endpoints) == [form |-> "entry", witness |-> w, endpoints |-> endpoints]
BareIdentity(w) == [form |-> "identity", witness |-> w, endpoints |-> <<>>]
BareEndpoint(e) == [form |-> "endpoint", witness |-> e, endpoints |-> <<>>]

\* An endpoint in place of an identity, and anything named twice, fails the load.
Loads(witnesses) ==
    /\ \A n \in DOMAIN witnesses : witnesses[n].form # "endpoint"
    /\ \A n \in DOMAIN witnesses : IsInjective(witnesses[n].endpoints)
    /\ \A m, n \in DOMAIN witnesses : witnesses[m].witness = witnesses[n].witness => m = n

Loaded(witnesses) == [n \in DOMAIN witnesses |-> [witnesses[n] EXCEPT !.form = "entry"]]

Named(witnesses, w) == {n \in DOMAIN witnesses : witnesses[n].witness = w}
WitnessEndpoints(witnesses, w) ==
    IF Named(witnesses, w) = {} THEN <<>>
    ELSE witnesses[CHOOSE n \in Named(witnesses, w) : TRUE].endpoints

\* NodeRuntime::start: node.json, then the key ...
LoadConfig(j) ==
    /\ Is(j, "serve", "opened")
    /\ work' = [work EXCEPT ![j] =
         IF Loads(config.witnesses)
         THEN [@ EXCEPT !.loaded = Loaded(config.witnesses), !.at = "secret"]
         ELSE [@ EXCEPT !.at = "malformed"]]
    /\ UNCHANGED home /\ HomeOnly

\* ... with which the endpoint is bound and peers are answered ...
LoadKey(j) ==
    /\ Is(j, "serve", "secret")
    /\ work' = [work EXCEPT ![j] = IF nodeKey = 0 THEN [@ EXCEPT !.at = "failed"]
                                  ELSE [@ EXCEPT !.key = nodeKey, !.at = "peers"]]
    /\ UNCHANGED home /\ HomeOnly

Reachable(j) == work[j].kind = "serve" /\ work[j].at \in {"peers", "serving", "closing"}

\* ... before the HTTP port is bound, which another node may hold.
BindHttp(j) ==
    LET taken == \E k \in Jobs \ {j} : Is(k, "serve", "serving") /\ work[k].port = work[j].port
    IN  /\ Is(j, "serve", "peers")
        /\ Goto(j, IF taken THEN "failed" ELSE "serving")
        /\ UNCHANGED home /\ HomeOnly

StartNode(j) == LoadConfig(j) \/ LoadKey(j) \/ BindHttp(j)

\* Told to stop, a node ends its HTTP requests first and its peers' afterwards.
StopHttp(j) == Is(j, "serve", "serving") /\ Goto(j, "closing") /\ UNCHANGED home /\ HomeOnly
StopPeers(j) == Is(j, "serve", "closing") /\ Goto(j, "done") /\ UNCHANGED home /\ HomeOnly

\* Mutant: the endpoints are recorded as typed.
GivenAsTyped(o) == o.given

\* Each endpoint once, in the order typed.
Given(o) ==
    Retain(o.given, {n \in DOMAIN o.given : \A m \in 1 .. n - 1 : o.given[m] # o.given[n]})

\* witness set-default: refused for a witness nothing here can reach ...
CheckReachable(j) ==
    /\ Is(j, "set_default", "opened")
    /\ Goto(j, IF ~Loads(config.witnesses) THEN "malformed"
               ELSE IF Given(work[j]) = <<>> /\ ~work[j].known
                       /\ WitnessEndpoints(config.witnesses, work[j].witness) = <<>>
               THEN "unresolvable" ELSE "load")
    /\ UNCHANGED home /\ HomeOnly

\* ... otherwise node.json is read again ...
ReadConfig(j) ==
    /\ Is(j, "set_default", "load")
    /\ work' = [work EXCEPT ![j] =
         IF Loads(config.witnesses)
         THEN [@ EXCEPT !.seen = Loaded(config.witnesses), !.at = "store"]
         ELSE [@ EXCEPT !.at = "malformed"]]
    /\ Race(j)
    /\ UNCHANGED <<config, nodeKey>> /\ HomeOnly

\* Mutant: the set is replaced by the one witness.
ConfiguredAlone(witnesses, entry) == <<entry>>

\* The entry of this witness replaced where it stands, or added at the end.
Configured(witnesses, entry) ==
    IF Named(witnesses, entry.witness) = {} THEN Append(witnesses, entry)
    ELSE [n \in DOMAIN witnesses |-> IF n \in Named(witnesses, entry.witness) THEN entry ELSE witnesses[n]]

\* ... and written with this witness's entry, whose endpoints stay when none are given.
WriteConfig(j) ==
    LET o == work[j]
        endpoints == IF Given(o) = <<>> THEN WitnessEndpoints(o.seen, o.witness) ELSE Given(o)
    IN  /\ Is(j, "set_default", "store")
        /\ config' = [exists |-> TRUE, witnesses |-> Configured(o.seen, Witness(o.witness, endpoints))]
        /\ Goto(j, "done")
        /\ Race(j) /\ UNCHANGED nodeKey /\ HomeOnly

-----------------------------------------------------------------------------
Ended(j) ==
    work[j].at \in {"done", "failed", "unreadable", "in_use", "home_exists", "malformed",
                    "unresolvable", "dead"}

\* A process stops: its operations end where they are, and its mutex with it.
Crash(p) ==
    LET killed == {j \in Jobs : work[j].proc = p /\ ~Ended(j) /\ work[j].at # "start"}
    IN  /\ killed # {}
        /\ work' = [j \in Jobs |-> IF j \in killed THEN [work[j] EXCEPT !.at = "dead"]
                                   ELSE work[j]]
        /\ hintsLock' = IF hintsLock \in killed THEN 0 ELSE hintsLock
        /\ UNCHANGED <<files, begun, overlapped, highest, raced>>

Step(j) ==
    \/ MakeGeneration(j) \/ WriteFile(j) \/ WriteFails(j) \/ SetCurrent(j)
    \/ CollectList(j) \/ CollectStep(j)
    \/ ReadPointer(j) \/ ReadSummary(j) \/ ListNodes(j) \/ ReadNode(j)
    \/ ReadPeers(j) \/ WritePeers(j)
    \/ ReadBindings(j) \/ RecordBindings(j)
    \/ CheckAlias(j) \/ WriteNext(j) \/ WriteMeta(j)
    \/ OpenOrCreate(j) \/ CheckHome(j) \/ WriteHomeFile(j)
    \/ StartNode(j) \/ StopHttp(j) \/ StopPeers(j)
    \/ CheckReachable(j) \/ ReadConfig(j) \/ WriteConfig(j)

AllEnded == \A j \in Jobs : Ended(j)

Next ==
    \/ \E j \in Jobs : Step(j)
    \/ \E p \in {work[j].proc : j \in Jobs} : Crash(p)
    \/ (AllEnded /\ UNCHANGED vars)

Spec == Init /\ [][Next]_vars

-----------------------------------------------------------------------------
(* Properties.                                                             *)

\* The files have their types; the hints stay within their cap, and no witness
\* vouches for the endpoint it was read from (peers.rs, bindings::apply).
TypeOK ==
    /\ pointer \in Nat
    /\ \A g \in DOMAIN generations : generations[g] \subseteq Whole
    /\ Len(peers) <= MaxHints /\ hintsLock \in Jobs \cup {0}
    /\ \A b \in bindings.entries : b.endpoint # b.source
    /\ ~bindings.exists => bindings.entries = {}

\* As long as one sync runs at a time, the pointer names a whole generation at
\* every moment, also beside the half-written ones that stopped syncs left
\* behind (publish, collect).
PointerNamesAWholeCrawl ==
    (pointer # 0 /\ ~overlapped) => Exists(pointer) /\ generations[pointer] = Whole

\* A reader sees the whole generation it resolved as long as fewer newer ones
\* were begun than generations are kept, however many syncs and collections
\* run beside it (GraphStore::generation, KEPT_GENERATIONS).
LookupSeesAWholeCrawl ==
    \A j \in Jobs :
        (/\ Is(j, "lookup", "done") /\ work[j].gen # 0
         /\ Cardinality({g \in begun : g > work[j].gen}) < Kept)
        => work[j].result = "some" /\ work[j].nodes = NodeFiles

\* No lookup ever sees half a crawl (the module comment of graph/store.rs).
NoLookupSeesHalfACrawl ==
    \A j \in Jobs : (work[j].kind = "lookup" /\ work[j].result = "some")
        => work[j].nodes = NodeFiles

\* The endpoints that served one operation, and its dials that one did not answer.
ServedBy(o) == {r.endpoint : r \in {r \in Range(o.results) : r.status = "accepted"}}
Unanswered(o, e) ==
    {n \in DOMAIN o.results : o.results[n].endpoint = e /\ o.results[n].status = "unreachable"}

\* What was recorded fits the cap, and no endpoint that served was charged as
\* often as evicts it.
NothingIsEvicted ==
    LET hinters == {j \in Jobs : work[j].kind = "hint"}
        served == UNION {ServedBy(work[j]) : j \in hinters}
        charges(e) == UNION {{j} \X Unanswered(work[j], e) : j \in hinters}
    IN  /\ Cardinality(served) <= MaxHints
        /\ \A e \in served : Cardinality(charges(e)) < MaxFailures

\* Fetches of one crawl do not lose each other's hints: what one of them
\* recorded is in the file when all are done, unless a push, which takes no
\* lock, wrote the file as well, or the cap or failures evicted it
\* (NetLedgerFetcher::record_hints).
FetchersKeepEachOthersHints ==
    (/\ AllEnded /\ NothingIsEvicted
     /\ \A j \in Jobs : work[j].kind = "hint" => work[j].locks)
    => \A j \in Jobs : Is(j, "hint", "done") =>
         \A e \in ServedBy(work[j]) : Holds(peers, e)

\* The endpoints a record calls verified all derive from one chain: entries
\* of two lengths, or of two chains of one length, never stand side by side
\* (bindings::apply).
BindingsComeFromOneChain ==
    \A b, c \in bindings.entries : b.seq = c.seq /\ b.event = c.event

\* A binding is never derived again from a shorter chain than the record once
\* derived from (proposal 006 section 4.2).
NeverFromAShorterChain ==
    \A b \in bindings.entries : b.seq >= highest

\* can_sign_for: under a key of its own, or, for a ledger another identity of this
\* home founded, through the controlled_by link that meta.json records.
CanSignFor(o) == identities[o.id].active \/ (~o.raw /\ identities[o.id].alias # NoAlias)

\* A create that finished leaves a whole ledger that can be signed for.  One that
\* stopped leaves a ledger under keys of its own that can be signed for as soon
\* as its inception is there, and an alias only on a whole ledger; a founded
\* ledger it left without meta.json cannot be signed for, but is not listed and
\* stands in nobody's way (WalletCore::create_identity, NodeHome::can_sign_for).
MintedLedgersAreUsable ==
    \A j \in Jobs : work[j].kind = "create" =>
        LET o == work[j]
            i == identities[o.id]
        IN  /\ o.at = "done" => CanSignFor(o) /\ i.alias = o.alias
            /\ (i.event /\ o.raw) => CanSignFor(o) /\ i.reserve
            /\ i.alias # NoAlias => i.event /\ i.head /\ i.provenance
            /\ (~o.raw /\ ~CanSignFor(o)) => ~Listed(o.id)

\* What a reader of create_identity would expect of a founded ledger as well:
\* wherever the create stops, the ledger that is there can be signed for.
FoundedLedgersAreUsable ==
    \A j \in Jobs : (work[j].kind = "create" /\ work[j].at = "dead" /\ identities[work[j].id].event)
        => CanSignFor(work[j])

\* A create is refused only for an alias that is taken: an identity that never
\* landed does not stand in the way of the next one
\* (WalletCore::create_identity, WalletCore::identities).
OnlyATakenAliasIsRefused ==
    \A j \in Jobs : work[j].kind = "create" => work[j].at # "unreadable"

\* A home is one node, however it was stopped while it was created: node.json
\* never stands without its key, and a node that answers peers does so under the
\* key the home holds, unless two commands created the home at once
\* (NodeHome::create, NodeRuntime::start).
HomeIsOneNode ==
    /\ config.exists => nodeKey # 0
    /\ ~raced => \A j \in Jobs : Reachable(j) => work[j].key = nodeKey

\* What set-default writes loads again, and a witness that was set stays
\* configured, with endpoints given for it, whatever others are set after it,
\* unless two commands wrote node.json at once (witness set_default, config.rs
\* witnesses).
SettingsStay ==
    /\ (\E j \in Jobs : Is(j, "set_default", "done")) => Loads(config.witnesses)
    /\ ~raced => \A j \in Jobs : Is(j, "set_default", "done") =>
           \E n \in Named(config.witnesses, work[j].witness) :
               \/ work[j].given = <<>>
               \/ \E k \in Jobs : /\ Is(k, "set_default", "done") /\ work[k].witness = work[j].witness
                                  /\ work[k].given # <<>>
                                  /\ config.witnesses[n].endpoints = Given(work[k])

\* What config.rs names as the remedy for a node.json of the older shape: the
\* command that writes the new one is not refused for the file it replaces.
MigrationIsPossible ==
    \A j \in Jobs : (work[j].kind = "set_default" /\ work[j].given # <<>>) => work[j].at # "malformed"

\* The files of the home itself survive stops and commands in any order.
HomeHolds == HomeIsOneNode /\ SettingsStay

\* Syncs and readers side by side: what is pointed to and what is read is whole.
CrawlsAreWhole == PointerNamesAWholeCrawl /\ LookupSeesAWholeCrawl

\* Writers of hints, of bindings and of identities, side by side or stopped
\* anywhere, lose and mix nothing.
SideRecordsHold ==
    TypeOK /\ MintedLedgersAreUsable /\ FetchersKeepEachOthersHints /\ BindingsComeFromOneChain
=============================================================================
