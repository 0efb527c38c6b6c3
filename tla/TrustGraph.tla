----------------------------- MODULE TrustGraph -----------------------------
(***************************************************************************)
(* The breadth-first crawl of the trust graph and what is read out of the  *)
(* generation it leaves.  Every local identity is a root; a level is read  *)
(* in batches, each ledger by a fetch that SourceFetch describes, and four *)
(* caps bound the run: depth, nodes, fetches and time.                     *)
(*                                                                         *)
(* What a fetch finds is chosen when the ledger is read: nothing, or a     *)
(* copy that attests to some identities, served by `Serves` or by this     *)
(* home.  The fold leaves one unrevoked attestation per subject and none   *)
(* of an identity to itself, so the edges of a ledger are a set.           *)
(*                                                                         *)
(* Identities are numbered in the order of their bytes; Rank is the order  *)
(* of their rendered form, in which the generation is keyed and which      *)
(* differs from the first.                                                 *)
(***************************************************************************)
EXTENDS Naturals, FiniteSets, Sequences, SequencesExt, FiniteSetsExt, Functions, TLC

CONSTANTS
    Ids,         \* a set of positive integers
    Rank,        \* [Ids -> Nat], one to one
    RootSets,    \* the sets of local identities a run may start from
    Options,     \* [depth, maxNodes, maxFetches] a caller may ask for
    MinDepth, MaxDepth,
    InFlight,    \* fetches that run together
    MaxPaths,    \* paths a lookup renders
    Serves,      \* [Ids -> endpoint the ledger is read from]
    NoEndpoint,  \* the source of a local copy
    PageSizes    \* page sizes a client of the list may ask for

ASSUME CrawlAssumption ==
    /\ Ids \subseteq Nat \ {0} /\ IsFiniteSet(Ids)
    /\ Rank \in [Ids -> Nat] /\ \A i, j \in Ids : Rank[i] = Rank[j] => i = j
    /\ RootSets \subseteq SUBSET Ids
    /\ Options \subseteq [depth : Nat, maxNodes : Nat, maxFetches : Nat]
    /\ InFlight \in Nat \ {0} /\ MaxPaths \in Nat /\ MinDepth <= MaxDepth

VARIABLES
    options, roots,
    pc,          \* "level", "batch", "build", "done"
    depth,       \* the level being read
    frontier,    \* identities of the next level
    level,       \* identities of this level, after the caps cut it
    waiting,     \* those of them not read yet
    outcomes,    \* [depth, readable, trust, source] of every ledger read
    provenance,  \* the identity each subject was first found through
    learned,     \* endpoints a subject may be found at
    fetches, hardStop, depthCut,
    expired,     \* the time of the run is over
    generation   \* what the run returns

crawl == <<outcomes, provenance, learned, fetches, hardStop, depthCut>>
vars == <<options, roots, pc, depth, frontier, level, waiting, crawl, expired, generation>>

None == "none"
Empty == [x \in {} |-> x]

Minus(a, b) == IF a > b THEN a - b ELSE 0

\* What was asked for, held inside the bounds.
BoundedDepth ==
    IF options.depth < MinDepth THEN MinDepth
    ELSE IF options.depth > MaxDepth THEN MaxDepth ELSE options.depth

Lowest(S, k) == {x \in S : Cardinality({y \in S : y < x}) < k}

\* The reason recorded first stays.
StopFor(reason) == IF hardStop = None THEN reason ELSE hardStop

Read(x) == x \in DOMAIN outcomes

-----------------------------------------------------------------------------
(* The walk.                                                               *)

Init ==
    /\ options \in Options /\ roots \in RootSets
    /\ pc = "level" /\ depth = 0 /\ frontier = roots
    /\ level = {} /\ waiting = {}
    /\ outcomes = Empty /\ provenance = Empty /\ learned = Empty
    /\ fetches = 0 /\ hardStop = None /\ depthCut = FALSE
    /\ expired = FALSE /\ generation = Empty

\* Mutant: a cap that is met exactly counts as exceeded.
CutAtCap(S, used, cap) ==
    IF used + Cardinality(S) >= cap
    THEN [kept |-> Lowest(S, Minus(cap, used)), cut |-> TRUE]
    ELSE [kept |-> S, cut |-> FALSE]

\* Mutant: one identity too many is kept.
CutTooFar(S, used, cap) ==
    IF used + Cardinality(S) > cap
    THEN [kept |-> Lowest(S, Minus(cap, used) + 1), cut |-> TRUE]
    ELSE [kept |-> S, cut |-> FALSE]

\* Mutant: the level is cut at its front.
CutTheFront(S, used, cap) ==
    IF used + Cardinality(S) > cap
    THEN [kept |-> S \ Lowest(S, Cardinality(S) - Minus(cap, used)), cut |-> TRUE]
    ELSE [kept |-> S, cut |-> FALSE]

\* A cap keeps the lowest identities of the level.
Cut(S, used, cap) ==
    IF used + Cardinality(S) > cap
    THEN [kept |-> Lowest(S, Minus(cap, used)), cut |-> TRUE]
    ELSE [kept |-> S, cut |-> FALSE]

StartLevel ==
    LET nodes == Cut(frontier, Cardinality(DOMAIN outcomes), options.maxNodes)
        reads == Cut(nodes.kept, fetches, options.maxFetches)
    IN  /\ pc = "level" /\ depth <= BoundedDepth /\ frontier # {}
        /\ level' = reads.kept /\ waiting' = reads.kept
        /\ hardStop' = IF nodes.cut THEN StopFor("nodes")
                       ELSE IF reads.cut THEN StopFor("fetches") ELSE hardStop
        /\ frontier' = {} /\ pc' = "batch"
        /\ UNCHANGED <<options, roots, depth, outcomes, provenance, learned, fetches,
                       depthCut, expired, generation>>

\* What the fetch of one ledger may come back with.
Results(x) ==
    {[readable |-> TRUE, trust |-> t, source |-> Serves[x]] : t \in SUBSET (Ids \ {x})}
    \cup {[readable |-> FALSE, trust |-> {}, source |-> NoEndpoint]}

\* Up to InFlight ledgers of the level are fetched together.
FetchBatch ==
    LET batch == Lowest(waiting, InFlight)
    IN  /\ pc = "batch" /\ waiting # {} /\ ~expired
        /\ \E found \in [batch -> UNION {Results(x) : x \in batch}] :
             /\ \A x \in batch : found[x] \in Results(x)
             /\ outcomes' = [x \in batch |-> found[x] @@ [depth |-> depth]] @@ outcomes
        /\ fetches' = fetches + Cardinality(batch)
        /\ waiting' = waiting \ batch
        /\ UNCHANGED <<options, roots, pc, depth, frontier, level, provenance, learned,
                       hardStop, depthCut, expired, generation>>

\* The clock is looked at before each batch, and ends the whole walk.
TimeOut ==
    /\ pc = "batch" /\ waiting # {} /\ expired
    /\ hardStop' = StopFor("time")
    /\ pc' = "build"
    /\ UNCHANGED <<options, roots, depth, frontier, level, waiting, outcomes, provenance,
                   learned, fetches, depthCut, expired, generation>>

\* The ledgers of this level that attest to x, which no level has read.
Attesters(x) == {l \in level : Read(l) /\ x \in outcomes[l].trust}
Unread == {x \in Ids : ~Read(x) /\ Attesters(x) # {}}

\* Mutant: the last attester of the level is recorded, not the first.
FoundThroughLast == [x \in Unread |-> Max(Attesters(x))]

FoundThrough == [x \in Unread |-> Min(Attesters(x))]

Teaches(x) == {outcomes[l].source : l \in Attesters(x)} \ {NoEndpoint}

\* The next level is every subject of this one that has not been read.
EndLevel ==
    /\ pc = "batch" /\ waiting = {}
    /\ IF depth >= BoundedDepth
       THEN /\ depthCut' = (depthCut \/ Unread # {})
            /\ frontier' = {}
            /\ UNCHANGED <<provenance, learned>>
       ELSE /\ provenance' = provenance @@ FoundThrough
            /\ learned' = [x \in DOMAIN learned \cup Unread |->
                            (IF x \in DOMAIN learned THEN learned[x] ELSE {})
                            \cup (IF x \in Unread THEN Teaches(x) ELSE {})]
            /\ frontier' = IF hardStop # None THEN {} ELSE Unread
            /\ UNCHANGED depthCut
    /\ depth' = depth + 1
    /\ pc' = IF frontier' = {} THEN "build" ELSE "level"
    /\ UNCHANGED <<options, roots, level, waiting, outcomes, fetches, hardStop, expired,
                   generation>>

Expire ==
    /\ ~expired /\ pc \in {"level", "batch"}
    /\ expired' = TRUE
    /\ UNCHANGED <<options, roots, pc, depth, frontier, level, waiting, crawl, generation>>

-----------------------------------------------------------------------------
(* The generation.                                                         *)

\* Distance from `from` of every node it reaches over `edges`, a function
\* from the nodes to the nodes each points at: a breadth-first pass.
Distances(edges, from) ==
    LET seen[k \in 0 .. Cardinality(Ids)] ==
            IF k = 0 THEN (from :> 0)
            ELSE CHOOSE s \in {[x \in DOMAIN before
                                   \cup UNION {edges[y] \cap DOMAIN edges :
                                               y \in DOMAIN before \cap DOMAIN edges} |->
                                 IF x \in DOMAIN before THEN before[x] ELSE k]
                               : before \in {seen[k - 1]}} : TRUE
    IN  seen[Cardinality(Ids)]

Edges(nodes) == [x \in DOMAIN nodes |-> nodes[x].trust]

\* Which roots reach a node, over the edges the generation stored.
RootsOf(nodes) ==
    LET reach == [r \in roots \cap DOMAIN nodes |-> Distances(Edges(nodes), r)]
    IN  [x \in DOMAIN nodes |->
            LET reached == {r \in DOMAIN reach : x \in DOMAIN reach[r]}
            IN  [r \in reached |-> reach[r][x]]]

Summary(nodes) ==
    [depth |-> BoundedDepth, nodes |-> Cardinality(DOMAIN nodes),
     edges |-> MapThenSumSet(LAMBDA x : Cardinality(nodes[x].trust), DOMAIN nodes),
     fetches |-> fetches,
     truncatedBy |-> IF hardStop # None THEN hardStop
                     ELSE IF depthCut THEN "depth" ELSE None]

Build ==
    /\ \/ pc = "build"
       \/ pc = "level" /\ (frontier = {} \/ depth > BoundedDepth)
    /\ generation' = [nodes |-> outcomes, roots |-> RootsOf(outcomes), via |-> provenance,
                      summary |-> Summary(outcomes)]
    /\ pc' = "done"
    /\ UNCHANGED <<options, roots, depth, frontier, level, waiting, crawl, expired>>

Next ==
    \/ StartLevel \/ FetchBatch \/ TimeOut \/ EndLevel \/ Expire \/ Build
    \/ (pc = "done" /\ UNCHANGED vars)

Spec == Init /\ [][Next]_vars

-----------------------------------------------------------------------------
(* What is read out of a generation.                                       *)

Nodes == DOMAIN generation.nodes

Backwards ==
    [x \in Nodes |-> {y \in Nodes : x \in generation.nodes[y].trust}]

\* Mutant: the distance to the target is counted along the edges.
DistancesAlong(to) == Distances(Edges(generation.nodes), to)

DistancesTo(to) == Distances(Backwards, to)

\* Shortest paths: only edges that reduce the distance left are taken, in the
\* order of the rendered subject, until there are enough.
Paths(from, to, limit) ==
    LET left == DistancesTo(to)
        ahead(x, d) == {y \in generation.nodes[x].trust :
                            y \in DOMAIN left /\ left[y] = d - 1}
        walk[d \in 0 .. Cardinality(Ids)] ==
            [x \in Nodes |->
                IF d = 0 THEN << <<x>> >>
                ELSE LET next == SetToSortSeq(ahead(x, d), LAMBDA a, b : Rank[a] < Rank[b])
                     IN  FlattenSeq([i \in DOMAIN next |->
                            [p \in DOMAIN walk[d - 1][next[i]] |->
                                <<x>> \o walk[d - 1][next[i]][p]]])]
        all == walk[left[from]][from]
    IN  IF limit = 0 \/ from \notin Nodes \/ to \notin Nodes THEN <<>>
        ELSE IF from = to THEN << <<from>> >>
        ELSE IF from \notin DOMAIN left THEN <<>>
        ELSE SubSeq(all, 1, IF Len(all) < limit THEN Len(all) ELSE limit)

NoPath == Cardinality(Ids)

\* Edges on the shortest path, NoPath when this crawl found none.
Degrees(from, to) ==
    LET away == Distances(Edges(generation.nodes), from)
    IN  IF from = to THEN (IF from \in Nodes THEN 0 ELSE NoPath)
        ELSE IF to \in DOMAIN away THEN away[to] ELSE NoPath

ReverseEdges(x) == {y \in Nodes : x \in generation.nodes[y].trust}

\* Every identity this home has a record of and cannot sign for.  Here the
\* records are the nodes of the generation.
Known == Nodes \ roots

\* Mutant: the list is in the order of the bytes.
KnownPageByBytes(offset, limit) ==
    LET ordered == SetToSortSeq(Known, LAMBDA a, b : a < b)
    IN  [rows |-> SubSeq(ordered, offset + 1,
                         IF Len(ordered) < offset + limit THEN Len(ordered)
                         ELSE offset + limit),
         more |-> Len(ordered) > offset + limit]

\* One page of the list, and whether rows past it exist.
KnownPage(offset, limit) ==
    LET ordered == SetToSortSeq(Known, LAMBDA a, b : Rank[a] < Rank[b])
    IN  [rows |-> SubSeq(ordered, offset + 1,
                         IF Len(ordered) < offset + limit THEN Len(ordered)
                         ELSE offset + limit),
         more |-> Len(ordered) > offset + limit]

-----------------------------------------------------------------------------
(* Properties.                                                             *)

\* The crawl stays within its caps on nodes and fetches at every step, and reads
\* each identity once (crawl_with).
TypeOK ==
    /\ pc \in {"level", "batch", "build", "done"}
    /\ DOMAIN outcomes \subseteq Ids /\ waiting \subseteq level /\ level \subseteq Ids
    /\ hardStop \in {None, "nodes", "fetches", "time"}
    /\ Cardinality(DOMAIN outcomes) <= options.maxNodes
    /\ Cardinality(DOMAIN outcomes) = fetches /\ fetches <= options.maxFetches

\* A generation is marked truncated exactly when something is missing from
\* it: a root or an identity that a stored node attests to was not read
\* (crawl_with).
TruncatedMeansMissing ==
    pc = "done" =>
        ((generation.summary.truncatedBy # None) <=>
            ((roots \cup UNION {generation.nodes[x].trust : x \in Nodes}) \ Nodes # {}))

\* The depth on a node is its distance from the nearest root over the edges
\* the generation stored, whatever was cut, and it was found through the lowest
\* identity one level up that attests to it (crawl_with, fill_roots).
DepthIsTheNearestRoot ==
    pc = "done" => \A x \in Nodes :
        /\ generation.nodes[x].depth = Min(Range(generation.roots[x]))
        /\ \A r \in DOMAIN generation.roots[x] : generation.roots[x][r] = Degrees(r, x)
        /\ IF x \in roots THEN x \notin DOMAIN generation.via
           ELSE generation.via[x] =
                    Min({y \in ReverseEdges(x) :
                            generation.nodes[y].depth + 1 = generation.nodes[x].depth})

\* Two crawls that are cut by a cap cut at the same place: of the identities
\* one step from the last complete level the lowest were read.  Only the clock,
\* which stops between two batches, keeps this for whole batches
\* (crawl_with: "a truncated crawl is deterministic").
CapsKeepTheLowest ==
    pc = "done" =>
        LET last == Max({0} \cup {generation.nodes[x].depth : x \in Nodes})
            found == IF last = 0 THEN roots
                     ELSE UNION {generation.nodes[x].trust :
                                 x \in {y \in Nodes : generation.nodes[y].depth = last - 1}}
            fresh == {x \in found : x \notin Nodes \/ generation.nodes[x].depth = last}
            stored == fresh \cap Nodes
        IN  \A x \in stored, y \in fresh \ stored : x < y

Walks(from, to, d) ==
    {p \in [1 .. d + 1 -> Nodes] :
        /\ p[1] = from /\ p[d + 1] = to
        /\ \A i \in 1 .. d : p[i + 1] \in generation.nodes[p[i]].trust}

Before(p, q) ==
    \E i \in DOMAIN p : Rank[p[i]] < Rank[q[i]] /\ SubSeq(p, 1, i - 1) = SubSeq(q, 1, i - 1)

\* A lookup's paths are walks over stored edges, as short as any, as many as
\* there are up to the limit, each once and in the order of the rendered ids;
\* and it shows a path exactly when it shows a degree, of that length
\* (paths_up_to, degrees).
PathsAreTheShortest ==
    pc = "done" => \A from \in roots \cap Nodes, to \in Nodes :
        LET shown == Paths(from, to, MaxPaths)
            d == Degrees(from, to)
        IN  /\ (shown = <<>>) <=> (d = NoPath)
            /\ from # to => \A k \in 1 .. d - 1 : Walks(from, to, k) = {}
            /\ shown # <<>> =>
                 LET all == Walks(from, to, d)
                 IN  /\ Range(shown) \subseteq all
                     /\ Len(shown) = Min({MaxPaths, Cardinality(all)})
                     /\ \A i, j \in DOMAIN shown : i < j => Before(shown[i], shown[j])
                     /\ \A p \in all \ Range(shown) : Before(shown[Len(shown)], p)

\* A client that follows the list from page to page, until it is told there is
\* nothing more, sees every identity once, in the order of the rendered ids
\* (known_identities).
PagesAreTheWholeList ==
    pc = "done" => \A size \in PageSizes :
        LET rows[k \in 0 .. Cardinality(Ids)] ==
                LET page == KnownPage(k * size, size)
                IN  page.rows \o (IF page.more /\ k < Cardinality(Ids) THEN rows[k + 1] ELSE <<>>)
        IN  /\ Range(rows[0]) = Nodes \ roots
            /\ \A i, j \in DOMAIN rows[0] : i < j => Rank[rows[0][i]] < Rank[rows[0][j]]

\* A generation says truly what it holds: where it was cut, that it is the same
\* cut each time, and at which depth and through whom each node was found; and
\* the crawl that made it stayed within its caps.
GenerationIsHonest ==
    TypeOK /\ TruncatedMeansMissing /\ CapsKeepTheLowest /\ DepthIsTheNearestRoot

\* What is read out of a generation is what its edges say: the shortest paths,
\* and the whole list over its pages.
LookupsMatchTheGraph == PathsAreTheShortest /\ PagesAreTheWholeList
=============================================================================
