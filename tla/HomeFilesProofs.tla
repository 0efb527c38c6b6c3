--------------------------- MODULE HomeFilesProofs ---------------------------
(***************************************************************************)
(* What HomeFiles promises for every workload, every number of generations *)
(* kept and every cap: a crawl that is pointed to or read is whole, a home *)
(* is one node, settings stay, and the side records neither mix nor lose.  *)
(***************************************************************************)
EXTENDS HomeFiles, SequenceFacts

-----------------------------------------------------------------------------
(* The operations as records.  A step changes the record of one operation, *)
(* never its kind and never what it was asked to do.                       *)

Shape(o) ==
    /\ o.kind \in {"sync", "lookup", "hint", "bind", "create", "serve", "set_default"}
    /\ {"kind", "proc", "at"} \subseteq DOMAIN o
    /\ o.kind = "sync" => {"gen", "doomed"} \subseteq DOMAIN o
    /\ o.kind = "lookup" => {"gen", "listed", "nodes", "result"} \subseteq DOMAIN o
    /\ o.kind = "hint" => {"locks", "results", "seen"} \subseteq DOMAIN o
    /\ o.kind = "bind" =>
         {"seq", "event", "endpoints", "source", "mayBind", "seen"} \subseteq DOMAIN o
    /\ o.kind = "create" => {"id", "alias", "raw"} \subseteq DOMAIN o
    /\ o.kind = "serve" => {"port", "key", "loaded"} \subseteq DOMAIN o
    /\ o.kind = "set_default" => {"witness", "given", "known", "seen"} \subseteq DOMAIN o

\* p is o further on.
Later(o, p) ==
    /\ DOMAIN p = DOMAIN o /\ p.kind = o.kind /\ p.proc = o.proc
    /\ o.kind = "sync" => p.gen = o.gen
    /\ o.kind = "hint" => p.locks = o.locks /\ p.results = o.results
    /\ o.kind = "bind" => /\ p.seq = o.seq /\ p.event = o.event /\ p.endpoints = o.endpoints
                          /\ p.source = o.source /\ p.mayBind = o.mayBind
    /\ o.kind = "create" => p.id = o.id /\ p.alias = o.alias /\ p.raw = o.raw
    /\ o.kind = "serve" => p.port = o.port
    /\ o.kind = "set_default" =>
         p.witness = o.witness /\ p.given = o.given /\ p.known = o.known

\* What else an operation remembers.
SameRest(o, p) ==
    /\ o.kind = "sync" => p.doomed = o.doomed
    /\ o.kind = "lookup" =>
         p.gen = o.gen /\ p.listed = o.listed /\ p.nodes = o.nodes /\ p.result = o.result
    /\ o.kind \in {"hint", "bind", "set_default"} => p.seen = o.seen
    /\ o.kind = "serve" => p.key = o.key /\ p.loaded = o.loaded

At(o, a) == [o EXCEPT !.at = a]
Doom(o, d, a) == [o EXCEPT !.doomed = d, !.at = a]
Resolve(o, g, a) == [o EXCEPT !.gen = g, !.at = a]
Enlist(o, l, r, a) == [o EXCEPT !.listed = l, !.result = r, !.at = a]
Gain(o, s, a, r) == [o EXCEPT !.nodes = s, !.at = a, !.result = r]
Give(o, a, r) == [o EXCEPT !.at = a, !.result = r]
See(o, s, a) == [o EXCEPT !.seen = s, !.at = a]
Load(o, s, a) == [o EXCEPT !.loaded = s, !.at = a]
Key(o, s, a) == [o EXCEPT !.key = s, !.at = a]

\* An operation further on has the same fields.
LEMMA LaterShape ==
    ASSUME NEW o, NEW p, Shape(o), Later(o, p)
    PROVE  Shape(p)
  BY DEF Shape, Later

\* Only the place of an operation changes.
LEMMA Going ==
    ASSUME NEW o, Shape(o), NEW a
    PROVE  LET p == At(o, a) IN
           Later(o, p) /\ SameRest(o, p) /\ p.at = a
  BY DEF Shape, Later, SameRest, At

\* The candidates for collection of a crawl.
LEMMA Dooming ==
    ASSUME NEW o, Shape(o), o.kind = "sync", NEW d, NEW a
    PROVE  LET p == Doom(o, d, a) IN
           Later(o, p) /\ p.at = a /\ p.doomed = d
  BY DEF Shape, Later, Doom

\* A reader learns the pointer, the list, a node, or that a node is gone.
LEMMA Resolving ==
    ASSUME NEW o, Shape(o), o.kind = "lookup", NEW g, NEW a
    PROVE  LET p == Resolve(o, g, a) IN
           /\ Later(o, p) /\ p.at = a /\ p.gen = g
           /\ p.listed = o.listed /\ p.nodes = o.nodes /\ p.result = o.result
  BY DEF Shape, Later, Resolve

\* A reader learns which nodes there are, ...
LEMMA Listing ==
    ASSUME NEW o, Shape(o), o.kind = "lookup", NEW l, NEW r, NEW a
    PROVE  LET p == Enlist(o, l, r, a) IN
           /\ Later(o, p) /\ p.at = a /\ p.listed = l /\ p.result = r
           /\ p.gen = o.gen /\ p.nodes = o.nodes
  BY DEF Shape, Later, Enlist

\* ... reads one of them, ...
LEMMA Noding ==
    ASSUME NEW o, Shape(o), o.kind = "lookup", NEW s, NEW r, NEW a
    PROVE  LET p == Gain(o, s, a, r) IN
           /\ Later(o, p) /\ p.at = a /\ p.nodes = s /\ p.result = r
           /\ p.gen = o.gen /\ p.listed = o.listed
  BY DEF Shape, Later, Gain

\* ... or finds it gone.
LEMMA Failing ==
    ASSUME NEW o, Shape(o), o.kind = "lookup", NEW r, NEW a
    PROVE  LET p == Give(o, a, r) IN
           /\ Later(o, p) /\ p.at = a /\ p.result = r
           /\ p.gen = o.gen /\ p.listed = o.listed /\ p.nodes = o.nodes
  BY DEF Shape, Later, Give

\* A writer remembers the file as it read it.
LEMMA Seeing ==
    ASSUME NEW o, Shape(o), o.kind \in {"hint", "bind", "set_default"}, NEW s, NEW a
    PROVE  LET p == See(o, s, a) IN
           Later(o, p) /\ p.at = a /\ p.seen = s
  BY DEF Shape, Later, See

\* A node remembers its settings and its key.
LEMMA Loading ==
    ASSUME NEW o, Shape(o), o.kind = "serve", NEW s, NEW a
    PROVE  LET p == Load(o, s, a) IN
           Later(o, p) /\ p.at = a /\ p.loaded = s /\ p.key = o.key
  BY DEF Shape, Later, Load

\* A node remembers its key.
LEMMA Keying ==
    ASSUME NEW o, Shape(o), o.kind = "serve", NEW s, NEW a
    PROVE  LET p == Key(o, s, a) IN
           Later(o, p) /\ p.at = a /\ p.key = s /\ p.loaded = o.loaded
  BY DEF Shape, Later, Key

-----------------------------------------------------------------------------
(* What a step changes of the operations.                                  *)

CrawlStep(j) ==
    \/ MakeGeneration(j) \/ WriteFile(j) \/ WriteFails(j) \/ SetCurrent(j)
    \/ CollectList(j) \/ CollectStep(j)
    \/ ReadPointer(j) \/ ReadSummary(j) \/ ListNodes(j) \/ ReadNode(j)
HintStep(j) == ReadPeers(j) \/ WritePeers(j)
BindStep(j) == ReadBindings(j) \/ RecordBindings(j)
CreateStep(j) == CheckAlias(j) \/ WriteNext(j) \/ WriteMeta(j)
HomeStep(j) ==
    \/ OpenOrCreate(j) \/ CheckHome(j) \/ WriteHomeFile(j)
    \/ StartNode(j) \/ StopHttp(j) \/ StopPeers(j)
    \/ CheckReachable(j) \/ ReadConfig(j) \/ WriteConfig(j)

OneMoves(j) ==
    /\ DOMAIN work' = DOMAIN work
    /\ \A k \in Jobs : k # j => work'[k] = work[k]
    /\ Later(work[j], work'[j])

\* An operation that stopped where it was.
Killed(o, p) ==
    /\ Later(o, p) /\ SameRest(o, p) /\ p.at = "dead"
    /\ o.at \notin {"start", "done", "failed", "unreadable", "in_use", "home_exists", "malformed",
                    "unresolvable", "dead"}

\* No operation of the kinds K has moved, though it may have been stopped.
Aside(K) ==
    /\ DOMAIN work' = DOMAIN work
    /\ \A k \in Jobs :
         /\ Later(work[k], work'[k])
         /\ work[k].kind \in K => work'[k] = work[k] \/ Killed(work[k], work'[k])

\* A step that replaces one record leaves the others.
LEMMA Replaced ==
    ASSUME NEW j \in Jobs, NEW p, work' = [work EXCEPT ![j] = p]
    PROVE  /\ DOMAIN work' = DOMAIN work /\ work'[j] = p
           /\ \A k \in Jobs : k # j => work'[k] = work[k]
  BY DEF Jobs

\* An operation that does not move is further on as well.
LEMMA SameIsLater ==
    ASSUME NEW o
    PROVE  Later(o, o)
  BY DEF Later

\* A step that only moves an operation to another place (Goto).
LEMMA GotoMoves ==
    ASSUME NEW j \in Jobs, Shape(work[j]), NEW a, Goto(j, a)
    PROVE  /\ OneMoves(j) /\ SameRest(work[j], work'[j]) /\ work'[j].at = a
  <1> DEFINE p == At(work[j], a)
  <1>1. work' = [work EXCEPT ![j] = p]
    BY DEF Goto, At
  <1>2. Later(work[j], p) /\ SameRest(work[j], p) /\ p.at = a
    BY Going
  <1> HIDE DEF p
  <1> QED
    BY <1>1, <1>2, Replaced DEF OneMoves

\* The steps of the crawls, one by one.
LEMMA CollectListMoves ==
    ASSUME NEW j \in Jobs, Shape(work[j]), CollectList(j)
    PROVE  /\ OneMoves(j) /\ work'[j].doomed = Doomed(work[j].gen)
           /\ work'[j].at = IF Doomed(work[j].gen) = {} THEN "done" ELSE "remove"
  <1> DEFINE a == IF Doomed(work[j].gen) = {} THEN "done" ELSE "remove"
             p == Doom(work[j], Doomed(work[j].gen), a)
  <1>1. work' = [work EXCEPT ![j] = p] /\ work[j].kind = "sync"
    BY DEF CollectList, Is, Doom
  <1>2. Later(work[j], p) /\ p.at = a /\ p.doomed = Doomed(work[j].gen)
    BY <1>1, Dooming
  <1> HIDE DEF p
  <1> QED
    BY <1>1, <1>2, Replaced DEF OneMoves

\* A collector forgets a candidate or stays (CollectStep).
LEMMA CollectStepMoves ==
    ASSUME NEW j \in Jobs, Shape(work[j]), CollectStep(j)
    PROVE  LET rest == work[j].doomed \ {Min(work[j].doomed)} IN
           /\ OneMoves(j)
           /\ \/ work' = work
              \/ /\ work'[j].doomed = rest
                 /\ work'[j].at = IF rest = {} THEN "done" ELSE "remove"
  <1> DEFINE rest == work[j].doomed \ {Min(work[j].doomed)}
             a == IF rest = {} THEN "done" ELSE "remove"
             p == Doom(work[j], rest, a)
  <1>1. work[j].kind = "sync" /\ (work' = work \/ work' = [work EXCEPT ![j] = p])
    BY DEF CollectStep, Is, Doom
  <1>2. Later(work[j], p) /\ p.at = a /\ p.doomed = rest
    BY <1>1, Dooming
  <1> HIDE DEF p
  <1>3. CASE work' = work
    BY <1>3, SameIsLater DEF OneMoves
  <1>4. CASE work' = [work EXCEPT ![j] = p]
    BY <1>2, <1>4, Replaced DEF OneMoves
  <1> QED
    BY <1>1, <1>3, <1>4

\* A reader resolves the pointer (ReadPointer), ...
LEMMA ReadPointerMoves ==
    ASSUME NEW j \in Jobs, Shape(work[j]), ReadPointer(j)
    PROVE  /\ OneMoves(j) /\ work'[j].gen = pointer
           /\ work'[j].at = IF pointer = 0 THEN "done" ELSE "summary"
           /\ work'[j].listed = work[j].listed /\ work'[j].nodes = work[j].nodes
           /\ work'[j].result = work[j].result
  <1> DEFINE a == IF pointer = 0 THEN "done" ELSE "summary"
             p == Resolve(work[j], pointer, a)
  <1>1. work' = [work EXCEPT ![j] = p] /\ work[j].kind = "lookup"
    BY DEF ReadPointer, Is, Resolve
  <1>2. /\ Later(work[j], p) /\ p.at = a /\ p.gen = pointer
        /\ p.listed = work[j].listed /\ p.nodes = work[j].nodes /\ p.result = work[j].result
    BY <1>1, Resolving
  <1> HIDE DEF p
  <1> QED
    BY <1>1, <1>2, Replaced DEF OneMoves

\* ... lists the nodes (ListNodes), ...
LEMMA ListNodesMoves ==
    ASSUME NEW j \in Jobs, Shape(work[j]), ListNodes(j)
    PROVE  LET g == work[j].gen
               found == IF Exists(g) THEN generations[g] \ {Summary} ELSE {} IN
           /\ OneMoves(j) /\ work'[j].listed = found
           /\ work'[j].result = IF found = {} THEN "some" ELSE work[j].result
           /\ work'[j].at = IF found = {} THEN "done" ELSE "nodes"
           /\ work'[j].gen = work[j].gen /\ work'[j].nodes = work[j].nodes
  <1> DEFINE g == work[j].gen
             found == IF Exists(g) THEN generations[g] \ {Summary} ELSE {}
             a == IF found = {} THEN "done" ELSE "nodes"
             r == IF found = {} THEN "some" ELSE work[j].result
             p == Enlist(work[j], found, r, a)
  <1>1. work' = [work EXCEPT ![j] = p] /\ work[j].kind = "lookup"
    BY DEF ListNodes, Is, Enlist
  <1> HIDE DEF found
  <1>2. /\ Later(work[j], p) /\ p.at = a /\ p.listed = found /\ p.result = r
        /\ p.gen = work[j].gen /\ p.nodes = work[j].nodes
    <2> HIDE DEF a, r
    <2> QED
      BY <1>1, Listing
  <1> HIDE DEF p
  <1>3. /\ OneMoves(j) /\ work'[j] = p
    BY <1>1, <1>2, Replaced DEF OneMoves
  <1> QED
    BY <1>2, <1>3 DEF found

\* ... and reads one, or finds it gone (ReadNode).
LEMMA ReadNodeMoves ==
    ASSUME NEW j \in Jobs, Shape(work[j]), ReadNode(j)
    PROVE  /\ OneMoves(j) /\ work'[j].gen = work[j].gen /\ work'[j].listed = work[j].listed
           /\ \E f \in work[j].listed \ work[j].nodes :
                IF Exists(work[j].gen) /\ f \in generations[work[j].gen]
                THEN LET read == work[j].nodes \cup {f} IN
                     /\ work'[j].nodes = read
                     /\ work'[j].at = IF read = work[j].listed THEN "done" ELSE "nodes"
                     /\ work'[j].result = IF read = work[j].listed THEN "some" ELSE work[j].result
                ELSE work'[j].at = "done" /\ work'[j].result = "error"
  <1>0. work[j].kind = "lookup"
    BY DEF ReadNode, Is
  <1> DEFINE there(f) == Exists(work[j].gen) /\ f \in generations[work[j].gen]
             read(f) == work[j].nodes \cup {f}
             a(f) == IF read(f) = work[j].listed THEN "done" ELSE "nodes"
             r(f) == IF read(f) = work[j].listed THEN "some" ELSE work[j].result
             p(f) == Gain(work[j], read(f), a(f), r(f))
             q == Give(work[j], "done", "error")
  <1>1. PICK f \in work[j].listed \ work[j].nodes :
             IF there(f) THEN work' = [work EXCEPT ![j] = p(f)] ELSE work' = [work EXCEPT ![j] = q]
    BY DEF ReadNode, Gain, Give
  <1>2. CASE there(f)
    <2>1. /\ Later(work[j], p(f)) /\ p(f).at = a(f) /\ p(f).nodes = read(f) /\ p(f).result = r(f)
          /\ p(f).gen = work[j].gen /\ p(f).listed = work[j].listed
      <3> HIDE DEF a, r, read
      <3> QED
        BY <1>0, Noding
    <2>2. work' = [work EXCEPT ![j] = p(f)]
      BY <1>1, <1>2
    <2> HIDE DEF p
    <2>3. OneMoves(j) /\ work'[j] = p(f)
      BY <2>1, <2>2, Replaced DEF OneMoves
    <2> QED
      BY <1>2, <2>1, <2>3
  <1>3. CASE ~there(f)
    <2>1. /\ Later(work[j], q) /\ q.at = "done" /\ q.result = "error"
          /\ q.gen = work[j].gen /\ q.listed = work[j].listed
      BY <1>0, Failing
    <2>2. work' = [work EXCEPT ![j] = q]
      BY <1>1, <1>3
    <2> HIDE DEF q
    <2>3. OneMoves(j) /\ work'[j] = q
      BY <2>1, <2>2, Replaced DEF OneMoves
    <2> QED
      BY <1>3, <2>1, <2>3
  <1> QED
    BY <1>2, <1>3

\* What a writer of hints, of bindings or of settings read.
LEMMA ReadPeersMoves ==
    ASSUME NEW j \in Jobs, Shape(work[j]), ReadPeers(j)
    PROVE  OneMoves(j) /\ work'[j].seen = peers /\ work'[j].at = "write"
  <1> DEFINE p == See(work[j], peers, "write")
  <1>1. work' = [work EXCEPT ![j] = p] /\ work[j].kind = "hint"
    BY DEF ReadPeers, Is, See
  <1>2. Later(work[j], p) /\ p.at = "write" /\ p.seen = peers
    BY <1>1, Seeing
  <1> HIDE DEF p
  <1> QED
    BY <1>1, <1>2, Replaced DEF OneMoves

\* A binder remembers the record it read (ReadBindings).
LEMMA ReadBindingsMoves ==
    ASSUME NEW j \in Jobs, Shape(work[j]), ReadBindings(j)
    PROVE  OneMoves(j) /\ work'[j].seen = bindings /\ work'[j].at = "write"
  <1> DEFINE p == See(work[j], bindings, "write")
  <1>1. work' = [work EXCEPT ![j] = p] /\ work[j].kind = "bind"
    BY DEF ReadBindings, Is, See
  <1>2. Later(work[j], p) /\ p.at = "write" /\ p.seen = bindings
    BY <1>1, Seeing
  <1> HIDE DEF p
  <1> QED
    BY <1>1, <1>2, Replaced DEF OneMoves

\* set-default remembers the settings it read (ReadConfig).
LEMMA ReadConfigMoves ==
    ASSUME NEW j \in Jobs, Shape(work[j]), ReadConfig(j)
    PROVE  /\ OneMoves(j)
           /\ IF Loads(config.witnesses)
              THEN work'[j].seen = Loaded(config.witnesses) /\ work'[j].at = "store"
              ELSE work'[j].at = "malformed" /\ work'[j].seen = work[j].seen
  <1> DEFINE l == Loaded(config.witnesses)
             p == See(work[j], l, "store")
             q == At(work[j], "malformed")
  <1>1. /\ work' = [work EXCEPT ![j] = IF Loads(config.witnesses) THEN p ELSE q]
        /\ work[j].kind = "set_default"
    BY DEF ReadConfig, Is, See, At
  <1> HIDE DEF l
  <1>2. Later(work[j], p) /\ p.at = "store" /\ p.seen = l
    BY <1>1, Seeing
  <1>3. Later(work[j], q) /\ q.at = "malformed" /\ q.seen = work[j].seen
    BY <1>1, Going DEF SameRest
  <1> HIDE DEF p, q
  <1>4. CASE Loads(config.witnesses)
    <2>1. work' = [work EXCEPT ![j] = p]
      BY <1>1, <1>4
    <2> QED
      BY <1>2, <1>4, <2>1, Replaced DEF OneMoves, l
  <1>5. CASE ~Loads(config.witnesses)
    <2>1. work' = [work EXCEPT ![j] = q]
      BY <1>1, <1>5
    <2> QED
      BY <1>3, <1>5, <2>1, Replaced DEF OneMoves
  <1> QED
    BY <1>4, <1>5

\* What a node loaded.
LEMMA LoadConfigMoves ==
    ASSUME NEW j \in Jobs, Shape(work[j]), LoadConfig(j)
    PROVE  /\ OneMoves(j) /\ work'[j].key = work[j].key
           /\ work'[j].at = IF Loads(config.witnesses) THEN "secret" ELSE "malformed"
  <1> DEFINE l == Loaded(config.witnesses)
             p == Load(work[j], l, "secret")
             q == At(work[j], "malformed")
  <1>1. /\ work' = [work EXCEPT ![j] = IF Loads(config.witnesses) THEN p ELSE q]
        /\ work[j].kind = "serve"
    BY DEF LoadConfig, Is, Load, At
  <1> HIDE DEF l
  <1>2. Later(work[j], p) /\ p.at = "secret" /\ p.key = work[j].key
    BY <1>1, Loading
  <1>3. Later(work[j], q) /\ q.at = "malformed" /\ q.key = work[j].key
    BY <1>1, Going DEF SameRest
  <1> HIDE DEF p, q
  <1>4. CASE Loads(config.witnesses)
    <2>1. work' = [work EXCEPT ![j] = p]
      BY <1>1, <1>4
    <2> QED
      BY <1>2, <1>4, <2>1, Replaced DEF OneMoves
  <1>5. CASE ~Loads(config.witnesses)
    <2>1. work' = [work EXCEPT ![j] = q]
      BY <1>1, <1>5
    <2> QED
      BY <1>3, <1>5, <2>1, Replaced DEF OneMoves
  <1> QED
    BY <1>4, <1>5

\* A node takes the key of the home, if there is one (LoadKey).
LEMMA LoadKeyMoves ==
    ASSUME NEW j \in Jobs, Shape(work[j]), LoadKey(j)
    PROVE  /\ OneMoves(j)
           /\ IF nodeKey = 0 THEN work'[j].at = "failed"
              ELSE work'[j].at = "peers" /\ work'[j].key = nodeKey
  <1> DEFINE p == Key(work[j], nodeKey, "peers")
             q == At(work[j], "failed")
  <1>1. /\ work' = [work EXCEPT ![j] = IF nodeKey = 0 THEN q ELSE p]
        /\ work[j].kind = "serve"
    BY DEF LoadKey, Is, Key, At
  <1>2. Later(work[j], p) /\ p.at = "peers" /\ p.key = nodeKey
    BY <1>1, Keying
  <1>3. Later(work[j], q) /\ q.at = "failed"
    BY <1>1, Going
  <1> HIDE DEF p, q
  <1>4. CASE nodeKey # 0
    <2>1. work' = [work EXCEPT ![j] = p]
      BY <1>1, <1>4
    <2> QED
      BY <1>2, <1>4, <2>1, Replaced DEF OneMoves
  <1>5. CASE nodeKey = 0
    <2>1. work' = [work EXCEPT ![j] = q]
      BY <1>1, <1>5
    <2> QED
      BY <1>3, <1>5, <2>1, Replaced DEF OneMoves
  <1> QED
    BY <1>4, <1>5

\* Every step of an operation changes that operation alone, and is a step of
\* its kind.
LEMMA StepMoves ==
    ASSUME NEW j \in Jobs, Shape(work[j]), Step(j)
    PROVE  /\ OneMoves(j)
           /\ \/ CrawlStep(j) /\ work[j].kind \in {"sync", "lookup"}
              \/ HintStep(j) /\ work[j].kind = "hint"
              \/ BindStep(j) /\ work[j].kind = "bind"
              \/ CreateStep(j) /\ work[j].kind = "create"
              \/ HomeStep(j) /\ work[j].kind \in {"serve", "set_default"}
  <1>1. CASE \/ MakeGeneration(j) \/ WriteFails(j) \/ SetCurrent(j)
    <2>1. \E a : Goto(j, a)
      BY <1>1 DEF MakeGeneration, WriteFails, SetCurrent
    <2> QED
      BY <1>1, <2>1, GotoMoves DEF CrawlStep, MakeGeneration, WriteFails, SetCurrent, Is
  <1>2. CASE WriteFile(j)
    <2>1. \E a : Goto(j, a)
      BY <1>2 DEF WriteFile
    <2> QED
      BY <1>2, <2>1, GotoMoves DEF CrawlStep, WriteFile, Is
  <1>3. CASE CollectList(j) \/ CollectStep(j)
    BY <1>3, CollectListMoves, CollectStepMoves DEF CrawlStep, CollectList, CollectStep, Is
  <1>4. CASE ReadPointer(j) \/ ListNodes(j) \/ ReadNode(j)
    BY <1>4, ReadPointerMoves, ListNodesMoves, ReadNodeMoves
       DEF CrawlStep, ReadPointer, ListNodes, ReadNode, Is
  <1>5. CASE ReadSummary(j)
    <2>1. \E a : Goto(j, a)
      BY <1>5 DEF ReadSummary
    <2> QED
      BY <1>5, <2>1, GotoMoves DEF CrawlStep, ReadSummary, Is
  <1>6. CASE ReadPeers(j)
    BY <1>6, ReadPeersMoves DEF HintStep, ReadPeers, Is
  <1>7. CASE WritePeers(j)
    <2>1. Goto(j, "done")
      BY <1>7 DEF WritePeers
    <2> QED
      BY <1>7, <2>1, GotoMoves DEF HintStep, WritePeers, Is
  <1>8. CASE ReadBindings(j)
    BY <1>8, ReadBindingsMoves DEF BindStep, ReadBindings, Is
  <1>9. CASE RecordBindings(j)
    <2>1. Goto(j, "done")
      BY <1>9 DEF RecordBindings
    <2> QED
      BY <1>9, <2>1, GotoMoves DEF BindStep, RecordBindings, Is
  <1>10. CASE CheckAlias(j) \/ WriteMeta(j)
    <2>1. \E a : Goto(j, a)
      BY <1>10 DEF CheckAlias, WriteMeta
    <2> QED
      BY <1>10, <2>1, GotoMoves DEF CreateStep, CheckAlias, WriteMeta, Is
  <1>11. CASE WriteNext(j)
    <2>1. (\E a : Goto(j, a)) /\ work[j].kind = "create"
      BY <1>11 DEF WriteNext, Is
    <2> QED
      BY <1>11, <2>1, GotoMoves DEF CreateStep
  <1>12. CASE OpenOrCreate(j) \/ CheckHome(j)
    <2>1. (\E a : Goto(j, a)) /\ Opens(j)
      BY <1>12 DEF OpenOrCreate, CheckHome
    <2> QED
      BY <1>12, <2>1, GotoMoves DEF HomeStep, Opens
  <1>13. CASE WriteHomeFile(j)
    <2>1. (\E a : Goto(j, a)) /\ Opens(j)
      BY <1>13 DEF WriteHomeFile
    <2> QED
      BY <1>13, <2>1, GotoMoves DEF HomeStep, Opens
  <1>14. CASE LoadConfig(j) \/ LoadKey(j)
    BY <1>14, LoadConfigMoves, LoadKeyMoves DEF HomeStep, StartNode, LoadConfig, LoadKey, Is
  <1>15. CASE BindHttp(j) \/ StopHttp(j) \/ StopPeers(j)
    <2>1. (\E a : Goto(j, a)) /\ work[j].kind = "serve"
      BY <1>15 DEF BindHttp, StopHttp, StopPeers, Is
    <2> QED
      BY <1>15, <2>1, GotoMoves DEF HomeStep, StartNode
  <1>16. CASE CheckReachable(j) \/ WriteConfig(j)
    <2>1. (\E a : Goto(j, a)) /\ work[j].kind = "set_default"
      BY <1>16 DEF CheckReachable, WriteConfig, Is
    <2> QED
      BY <1>16, <2>1, GotoMoves DEF HomeStep
  <1>17. CASE ReadConfig(j)
    BY <1>17, ReadConfigMoves DEF HomeStep, ReadConfig, Is
  <1> QED
    BY <1>1, <1>2, <1>3, <1>4, <1>5, <1>6, <1>7, <1>8, <1>9, <1>10, <1>11, <1>12, <1>13, <1>14,
       <1>15, <1>16, <1>17 DEF Step, StartNode

-----------------------------------------------------------------------------
(* What is known of every operation.                                       *)

\* What it was asked to do.
Inputs(o) ==
    /\ o.kind = "sync" => o.gen \in Nat \ {0}
    /\ o.kind = "hint" => o.locks \in BOOLEAN /\ o.results \in Seq(Range(o.results))
    /\ o.kind = "bind" => o.seq \in Nat /\ o.mayBind = TRUE
    /\ o.kind = "create" => o.id \in NewIds /\ o.alias # NoAlias /\ o.raw \in BOOLEAN
    /\ o.kind = "set_default" => o.given \in Seq(Range(o.given))

WorkInv ==
    /\ Jobs \subseteq Nat \ {0}
    /\ \A j \in Jobs : Shape(work[j]) /\ Inputs(work[j])
    /\ \A j, k \in Jobs : Twins(work[j], work[k]) => j = k

\* What an operation was asked to do stays well-formed, ...
LEMMA LaterInputs ==
    ASSUME NEW o, NEW p, Later(o, p), Inputs(o), Shape(o)
    PROVE  Inputs(p)
  BY DEF Later, Inputs, Shape

\* ... and operations do not become twins.
LEMMA LaterTwins ==
    ASSUME NEW o, NEW p, Later(o, p), NEW q, NEW r, Later(q, r), Twins(p, r)
    PROVE  Twins(o, q)
  BY DEF Later, Twins

\* An operation that has not started.
LEMMA OperationFacts ==
    ASSUME NEW o, Operation(o)
    PROVE  /\ Shape(o) /\ Inputs(o) /\ o.at = "start"
           /\ o.kind = "sync" => o.doomed = {}
           /\ o.kind = "lookup" => o.gen = 0 /\ o.listed = {} /\ o.nodes = {} /\ o.result = "none"
           /\ o.kind = "hint" => o.seen = <<>>
           /\ o.kind = "bind" => o.seen = NoBindings
           /\ o.kind = "serve" => o.key = 0
           /\ o.kind = "set_default" => o.seen = <<>>
  <1>1. CASE o.kind = "sync" /\ o = Sync(o.proc, o.gen) /\ o.gen \in Nat \ {0}
    BY <1>1 DEF Sync, Shape, Inputs
  <1>2. CASE o.kind = "lookup" /\ o = Lookup(o.proc)
    BY <1>2 DEF Lookup, Shape, Inputs
  <1>3. CASE /\ o.kind = "hint" /\ o = Hint(o.proc, o.locks, o.results)
             /\ o.locks \in BOOLEAN /\ o.results \in Seq(Range(o.results))
    <2>1. Inputs(o)
      BY <1>3 DEF Inputs
    <2>2. Shape(o) /\ o.at = "start" /\ o.seen = <<>>
      BY <1>3 DEF Hint, Shape
    <2> QED
      BY <1>3, <2>1, <2>2
  <1>4. CASE /\ o.kind = "bind" /\ o = Bind(o.proc, o.seq, o.event, o.endpoints, o.source)
             /\ o.seq \in Nat
    <2>1. o.mayBind = TRUE /\ o.at = "start" /\ o.seen = NoBindings /\ Shape(o)
      BY <1>4 DEF Bind, Shape
    <2> QED
      BY <1>4, <2>1 DEF Inputs
  <1>5. CASE /\ o.kind = "create" /\ o = Create(o.proc, o.id, o.alias, o.raw)
             /\ o.id \in NewIds /\ o.alias # NoAlias /\ o.raw \in BOOLEAN
    BY <1>5 DEF Create, Shape, Inputs
  <1>6. CASE o.kind = "serve" /\ o = Serve(o.proc, o.port)
    BY <1>6 DEF Serve, Shape, Inputs
  <1>7. CASE /\ o.kind = "set_default" /\ o = SetDefault(o.proc, o.witness, o.given, o.known)
             /\ o.given \in Seq(Range(o.given))
    <2>1. o.at = "start" /\ o.seen = <<>> /\ Shape(o)
      BY <1>7 DEF SetDefault, Shape
    <2> QED
      BY <1>7, <2>1 DEF Inputs
  <1> QED
    BY <1>1, <1>2, <1>3, <1>4, <1>5, <1>6, <1>7 DEF Operation

\* The workload before anything ran.
LEMMA InitWork ==
    ASSUME Init
    PROVE  WorkInv /\ \A j \in Jobs : Operation(work[j])
  <1>1. PICK w \in Workloads : work = w
    BY DEF Init
  <1>2. /\ work \in Seq(Range(work)) /\ \A j \in DOMAIN work : Operation(work[j])
        /\ \A j, k \in DOMAIN work : Twins(work[j], work[k]) => j = k
    BY <1>1, WorkAssumption
  <1>3. Jobs \subseteq Nat \ {0}
    <2>1. Jobs = 1..Len(work) /\ Len(work) \in Nat
      BY <1>2, LenProperties DEF Jobs
    <2> QED
      BY <2>1
  <1> QED
    BY <1>2, <1>3, OperationFacts DEF WorkInv, Jobs

\* When one operation moves, those of other kinds do not.
LEMMA OneMovesAside ==
    ASSUME NEW j \in Jobs, OneMoves(j), NEW K, work[j].kind \notin K
    PROVE  Aside(K)
  BY SameIsLater DEF OneMoves, Aside

\* When a process stops, its operations end where they are.
LEMMA CrashAside ==
    ASSUME WorkInv, NEW p, Crash(p), NEW K
    PROVE  Aside(K)
  <1> DEFINE killed == {j \in Jobs : work[j].proc = p /\ ~Ended(j) /\ work[j].at # "start"}
             q(j) == At(work[j], "dead")
  <1>1. work' = [j \in Jobs |-> IF j \in killed THEN q(j) ELSE work[j]]
    BY DEF Crash, At
  <1>2. DOMAIN work' = DOMAIN work
    BY <1>1 DEF Jobs
  <1>3. ASSUME NEW j \in Jobs
        PROVE  /\ Later(work[j], work'[j])
               /\ work'[j] = work[j] \/ Killed(work[j], work'[j])
    <2>1. Later(work[j], q(j)) /\ SameRest(work[j], q(j)) /\ q(j).at = "dead"
      BY Going DEF WorkInv
    <2>2. CASE j \in killed
      <3>1. work[j].at # "start" /\ ~Ended(j) /\ work'[j] = q(j)
        BY <1>1, <2>2
      <3> HIDE DEF q
      <3> QED
        BY <2>1, <3>1 DEF Killed, Ended
    <2>3. CASE j \notin killed
      <3>1. work'[j] = work[j]
        BY <1>1, <2>3
      <3> QED
        BY <3>1, SameIsLater
    <2> QED
      BY <2>2, <2>3
  <1> QED
    BY <1>2, <1>3 DEF Aside

\* A stutter moves nothing.
LEMMA StutterAside ==
    ASSUME work' = work, NEW K
    PROVE  Aside(K)
  BY SameIsLater DEF Aside

\* The steps, by the files they are about.
LEMMA NextSteps ==
    ASSUME WorkInv, [Next]_vars
    PROVE  \/ \E j \in Jobs :
                /\ OneMoves(j)
                /\ \/ CrawlStep(j) /\ work[j].kind \in {"sync", "lookup"}
                   \/ HintStep(j) /\ work[j].kind = "hint"
                   \/ BindStep(j) /\ work[j].kind = "bind"
                   \/ CreateStep(j) /\ work[j].kind = "create"
                   \/ HomeStep(j) /\ work[j].kind \in {"serve", "set_default"}
           \/ \E p : Crash(p)
           \/ UNCHANGED vars
  <1>1. ASSUME NEW j \in Jobs, Step(j)
        PROVE  /\ OneMoves(j)
               /\ \/ CrawlStep(j) /\ work[j].kind \in {"sync", "lookup"}
                  \/ HintStep(j) /\ work[j].kind = "hint"
                  \/ BindStep(j) /\ work[j].kind = "bind"
                  \/ CreateStep(j) /\ work[j].kind = "create"
                  \/ HomeStep(j) /\ work[j].kind \in {"serve", "set_default"}
    <2>1. Shape(work[j])
      BY DEF WorkInv
    <2> QED
      BY <1>1, <2>1, StepMoves
  <1>2. (\E j \in Jobs : Step(j)) \/ (\E p : Crash(p)) \/ UNCHANGED vars
    BY DEF Next
  <1> QED
    BY <1>1, <1>2

\* However far the operations are, they stay what they are.
LEMMA StepWork ==
    ASSUME WorkInv, [Next]_vars
    PROVE  WorkInv'
  <1>1. Aside({})
    <2>1. CASE \E j \in Jobs : OneMoves(j)
      BY <2>1, OneMovesAside
    <2>2. CASE \E p : Crash(p)
      BY <2>2, CrashAside
    <2>3. CASE UNCHANGED vars
      BY <2>3, StutterAside DEF vars
    <2> QED
      BY <2>1, <2>2, <2>3, NextSteps
  <1>2. Jobs' = Jobs
    BY <1>1 DEF Aside, Jobs
  <1>3. ASSUME NEW j \in Jobs'
        PROVE  (Shape(work[j]) /\ Inputs(work[j]))'
    <2>1. j \in Jobs /\ Later(work[j], work'[j]) /\ Shape(work[j]) /\ Inputs(work[j])
      BY <1>1, <1>2 DEF Aside, WorkInv
    <2>2. Shape(work'[j]) /\ Inputs(work'[j])
      BY <2>1, LaterShape, LaterInputs
    <2> QED
      BY <2>2 DEF Shape, Inputs
  <1>4. ASSUME NEW j \in Jobs', NEW k \in Jobs', Twins(work[j], work[k])'
        PROVE  j = k
    <2>1. j \in Jobs /\ k \in Jobs /\ Later(work[j], work'[j]) /\ Later(work[k], work'[k])
      BY <1>1, <1>2 DEF Aside
    <2>2. Twins(work'[j], work'[k])
      BY <1>4 DEF Twins
    <2> QED
      BY <2>1, <2>2, LaterTwins DEF WorkInv
  <1>5. Jobs' \subseteq Nat \ {0}
    BY <1>2 DEF WorkInv
  <1> QED
    BY <1>3, <1>4, <1>5 DEF WorkInv

-----------------------------------------------------------------------------
(* The crawls.  B are the generations begun so far, G those on disk.  A    *)
(* generation is collected only once Kept newer ones were begun, which     *)
(* stays true of it for good.                                              *)

Older(B, g) == Cardinality({h \in B : h > g}) >= Kept
Stored(G, g) == g \in DOMAIN G /\ G[g] = Whole
Sealed(B, G, g) == Older(B, g) \/ Stored(G, g)

\* A sync has begun its generation, which is whole before it is pointed to;
\* what it is to collect is old.
SyncOK(o, B, G) ==
    o.kind = "sync" =>
        /\ o.at # "start" => o.gen \in B
        /\ o.at \in {"start", "write", "swap", "list"} => o.doomed = {}
        /\ o.doomed \subseteq B /\ \A g \in o.doomed : Older(B, g)
        /\ o.at = "remove" => o.doomed # {}
        /\ o.at = "swap" => Sealed(B, G, o.gen)

\* A reader of a generation that is not old has seen all of it so far.
LookOK(o, B, G) ==
    o.kind = "lookup" =>
        /\ o.gen \in B \cup {0}
        /\ o.at # "start" /\ o.gen # 0 => Sealed(B, G, o.gen)
        /\ o.at \in {"start", "summary", "list"} => o.nodes = {} /\ o.result = "none"
        /\ o.at \in {"summary", "list", "nodes"} => o.gen # 0
        /\ o.at = "nodes" => Older(B, o.gen) \/ o.listed = NodeFiles
        /\ o.at = "done" /\ o.gen # 0 =>
             Older(B, o.gen) \/ (o.result = "some" /\ o.nodes = NodeFiles)

GraphOK(B, G, p) ==
    /\ B \subseteq Nat \ {0} /\ IsFiniteSet(B)
    /\ DOMAIN G \subseteq B /\ \A g \in DOMAIN G : G[g] \subseteq Whole
    /\ p \in B \cup {0} /\ (p # 0 => Sealed(B, G, p))

\* Whoever begun a generation is past its start.
Beginners == \A g \in begun : \E j \in Jobs :
                 work[j].kind = "sync" /\ work[j].at # "start" /\ work[j].gen = g

\* One sync after the other: the generation of the one under way is whole before
\* it is pointed to, and then nobody collects it.
AloneOK(o, G, p) ==
    o.kind = "sync" =>
        /\ o.at = "swap" => Stored(G, o.gen)
        /\ o.at \in {"list", "remove"} => p = o.gen /\ o.gen \notin o.doomed

Alone ==
    ~overlapped =>
        /\ pointer # 0 => Stored(generations, pointer)
        /\ \A j, k \in Jobs : UnderWay(j) /\ UnderWay(k) => j = k
        /\ \A j \in Jobs : AloneOK(work[j], generations, pointer)

CrawlInv ==
    /\ GraphOK(begun, generations, pointer) /\ Beginners
    /\ \A j \in Jobs : SyncOK(work[j], begun, generations) /\ LookOK(work[j], begun, generations)
    /\ overlapped \in BOOLEAN /\ Alone

\* The crawls under way and the readers may only have been stopped, or the disk
\* only grew where a crawl that is not old is concerned.
Grows(B, G, C, H) ==
    /\ B \subseteq C /\ IsFiniteSet(C)
    /\ \A g \in B : Stored(G, g) => Stored(H, g) \/ Older(C, g)

\* A generation that is old stays so.
LEMMA OlderGrows ==
    ASSUME NEW B, NEW C, B \subseteq C, IsFiniteSet(C), NEW g, Older(B, g)
    PROVE  Older(C, g)
  <1> DEFINE S == {h \in B : h > g}
             T == {h \in C : h > g}
  <1>1. S \subseteq T /\ IsFiniteSet(T)
    BY FS_Subset
  <1>2. Cardinality(S) <= Cardinality(T) /\ Cardinality(S) \in Nat /\ Cardinality(T) \in Nat
    BY <1>1, FS_Subset, FS_CardinalityType
  <1>3. Cardinality(S) >= Kept
    BY DEF Older
  <1>4. Kept \in Nat
    BY WorkAssumption
  <1> HIDE DEF S, T
  <1>5. Cardinality(T) >= Kept
    BY <1>2, <1>3, <1>4
  <1> QED
    BY <1>5 DEF Older, T

\* A newer crawl leaves what is sealed sealed, ...
LEMMA SealedGrows ==
    ASSUME NEW B, NEW G, NEW C, NEW H, Grows(B, G, C, H), NEW g \in B, Sealed(B, G, g)
    PROVE  Sealed(C, H, g)
  BY OlderGrows DEF Grows, Sealed

\* ... keeps what is known of a sync, ...
LEMMA SyncGrows ==
    ASSUME NEW B, NEW G, NEW C, NEW H, Grows(B, G, C, H), NEW o, SyncOK(o, B, G)
    PROVE  SyncOK(o, C, H)
  <1>1. B \subseteq C /\ IsFiniteSet(C)
    BY DEF Grows
  <1>2. ASSUME o.kind = "sync", o.at = "swap"
        PROVE  Sealed(C, H, o.gen)
    <2>1. o.gen \in B /\ Sealed(B, G, o.gen)
      BY <1>2 DEF SyncOK
    <2> QED
      BY <2>1, SealedGrows
  <1>3. ASSUME o.kind = "sync"
        PROVE  o.doomed \subseteq C /\ \A g \in o.doomed : Older(C, g)
    BY <1>1, <1>3, OlderGrows DEF SyncOK
  <1> QED
    BY <1>1, <1>2, <1>3 DEF SyncOK

\* ... and of a reader.
LEMMA LookGrows ==
    ASSUME NEW B, NEW G, NEW C, NEW H, Grows(B, G, C, H), NEW o, LookOK(o, B, G)
    PROVE  LookOK(o, C, H)
  <1>1. B \subseteq C /\ IsFiniteSet(C)
    BY DEF Grows
  <1>2. ASSUME o.kind = "lookup", o.at # "start", o.gen # 0
        PROVE  Sealed(C, H, o.gen)
    <2>1. o.gen \in B /\ Sealed(B, G, o.gen)
      BY <1>2 DEF LookOK
    <2> QED
      BY <2>1, SealedGrows
  <1>3. ASSUME Older(B, o.gen)
        PROVE  Older(C, o.gen)
    BY <1>1, <1>3, OlderGrows
  <1> QED
    BY <1>1, <1>2, <1>3 DEF LookOK

\* An operation that was stopped claims no more than before.
LEMMA KilledKeeps ==
    ASSUME NEW B, NEW G, NEW o, NEW p, Killed(o, p), SyncOK(o, B, G), LookOK(o, B, G)
    PROVE  SyncOK(p, B, G) /\ LookOK(p, B, G)
  <1>1. SyncOK(p, B, G)
    BY DEF Killed, Later, SameRest, SyncOK
  <1>2. LookOK(p, B, G)
    BY DEF Killed, Later, SameRest, LookOK
  <1> QED
    BY <1>1, <1>2

\* A home without crawls.
LEMMA InitCrawls ==
    ASSUME Init
    PROVE  CrawlInv
  <1>1. /\ pointer = 0 /\ generations = [g \in {} |-> {}] /\ begun = {} /\ overlapped = FALSE
    BY DEF Init
  <1>2. GraphOK(begun, generations, pointer)
    BY <1>1, FS_EmptySet DEF GraphOK
  <1>3. ASSUME NEW j \in Jobs
        PROVE  /\ SyncOK(work[j], begun, generations) /\ LookOK(work[j], begun, generations)
               /\ ~UnderWay(j) /\ AloneOK(work[j], generations, pointer)
    <2>1. /\ work[j].at = "start" /\ (work[j].kind = "sync" => work[j].doomed = {})
          /\ work[j].kind = "lookup" => /\ work[j].gen = 0 /\ work[j].listed = {}
                                        /\ work[j].nodes = {} /\ work[j].result = "none"
      BY InitWork, OperationFacts
    <2> QED
      BY <1>1, <2>1 DEF SyncOK, LookOK, UnderWay, AloneOK
  <1> QED
    BY <1>1, <1>2, <1>3 DEF CrawlInv, Beginners, Alone

\* A step that touches no crawl, or stops some.
LEMMA AsideCrawls ==
    ASSUME CrawlInv, Aside({"sync", "lookup"}), UNCHANGED <<pointer, generations, begun, overlapped>>
    PROVE  CrawlInv'
  <1>1. Jobs' = Jobs
    BY DEF Aside, Jobs
  <1>2. GraphOK(begun, generations, pointer)'
    BY DEF CrawlInv, GraphOK, Sealed, Older, Stored
  <1>3. ASSUME NEW j \in Jobs
        PROVE  /\ work'[j].kind = work[j].kind
               /\ SyncOK(work'[j], begun, generations) /\ LookOK(work'[j], begun, generations)
    <2>1. Later(work[j], work'[j])
      BY DEF Aside
    <2>2. SyncOK(work[j], begun, generations) /\ LookOK(work[j], begun, generations)
      BY DEF CrawlInv
    <2>3. CASE work[j].kind \in {"sync", "lookup"}
      BY <2>1, <2>2, <2>3, KilledKeeps DEF Aside, Later
    <2>4. CASE work[j].kind \notin {"sync", "lookup"}
      BY <2>1, <2>4 DEF Later, SyncOK, LookOK
    <2> QED
      BY <2>1, <2>3, <2>4 DEF Later
  <1>4. ASSUME NEW j \in Jobs, work[j].kind = "sync"
        PROVE  work'[j] = work[j] \/ (/\ work'[j].at = "dead" /\ work[j].at # "start"
                                      /\ work'[j].gen = work[j].gen)
    BY <1>4 DEF Aside, Killed, Later
  <1>5. Beginners'
    <2>1. ASSUME NEW g \in begun
          PROVE  \E j \in Jobs : work'[j].kind = "sync" /\ work'[j].at # "start" /\ work'[j].gen = g
      <3>1. PICK j \in Jobs : work[j].kind = "sync" /\ work[j].at # "start" /\ work[j].gen = g
        BY DEF CrawlInv, Beginners
      <3> QED
        BY <1>3, <1>4, <3>1
    <2> QED
      BY <1>1, <2>1 DEF Beginners
  <1>6. ASSUME NEW j \in Jobs, UnderWay(j)'
        PROVE  UnderWay(j)
    BY <1>3, <1>4, <1>6 DEF UnderWay
  <1>7. ASSUME NEW j \in Jobs, AloneOK(work[j], generations, pointer)
        PROVE  AloneOK(work'[j], generations, pointer)
    BY <1>3, <1>4, <1>7 DEF AloneOK
  <1>8. Alone'
    <2> SUFFICES ASSUME ~overlapped
                 PROVE  /\ (pointer # 0 => Stored(generations, pointer))'
                        /\ \A j, k \in Jobs : UnderWay(j)' /\ UnderWay(k)' => j = k
                        /\ \A j \in Jobs : AloneOK(work'[j], generations, pointer)
      BY <1>1 DEF Alone, AloneOK, Stored
    <2> QED
      BY <1>6, <1>7 DEF CrawlInv, Alone, Stored
  <1>9. (\A j \in Jobs : SyncOK(work[j], begun, generations) /\ LookOK(work[j], begun, generations))'
    BY <1>1, <1>3 DEF SyncOK, LookOK, Sealed, Older, Stored
  <1> QED
    BY <1>2, <1>5, <1>8, <1>9 DEF CrawlInv

\* What one crawl or reader must show for its step, the others being untouched.
LEMMA MovesCrawls ==
    ASSUME WorkInv, CrawlInv, NEW j \in Jobs, OneMoves(j),
           Grows(begun, generations, begun', generations'),
           GraphOK(begun', generations', pointer'),
           work[j].at # "start" => work'[j].at # "start",
           \A g \in begun' \ begun :
               work'[j].kind = "sync" /\ work'[j].at # "start" /\ work'[j].gen = g,
           SyncOK(work'[j], begun', generations'), LookOK(work'[j], begun', generations'),
           overlapped' \in BOOLEAN, Alone'
    PROVE  CrawlInv'
  <1>1. Jobs' = Jobs
    BY DEF OneMoves, Jobs
  <1>2. GraphOK(begun, generations, pointer)'
    BY DEF GraphOK, Sealed, Older, Stored
  <1>3. ASSUME NEW k \in Jobs
        PROVE  SyncOK(work'[k], begun', generations') /\ LookOK(work'[k], begun', generations')
    <2>1. SyncOK(work[k], begun', generations') /\ LookOK(work[k], begun', generations')
      BY SyncGrows, LookGrows DEF CrawlInv
    <2> QED
      BY <2>1 DEF OneMoves
  <1>4. Beginners'
    <2>1. ASSUME NEW g \in begun'
          PROVE  \E k \in Jobs : work'[k].kind = "sync" /\ work'[k].at # "start" /\ work'[k].gen = g
      <3>1. CASE g \in begun
        <4>1. PICK k \in Jobs : work[k].kind = "sync" /\ work[k].at # "start" /\ work[k].gen = g
          BY <3>1 DEF CrawlInv, Beginners
        <4> QED
          BY <4>1 DEF OneMoves, Later
      <3>2. CASE g \notin begun
        BY <3>2
      <3> QED
        BY <3>1, <3>2
    <2> QED
      BY <1>1, <2>1 DEF Beginners
  <1>5. (\A k \in Jobs : SyncOK(work[k], begun, generations) /\ LookOK(work[k], begun, generations))'
    BY <1>1, <1>3 DEF SyncOK, LookOK, Sealed, Older, Stored
  <1> QED
    BY <1>2, <1>4, <1>5 DEF CrawlInv

\* Alone' from what the one under way shows.
LEMMA MovesAlone ==
    ASSUME WorkInv, CrawlInv, NEW j \in Jobs, OneMoves(j),
           ~overlapped' => /\ ~overlapped
                           /\ pointer' # 0 => Stored(generations', pointer')
                           /\ AloneOK(work'[j], generations', pointer')
                           /\ \A k \in Jobs : k # j => ~UnderWay(k) \/
                                 (~UnderWay(j)' /\ pointer' = pointer /\ generations' = generations)
    PROVE  Alone'
  <1>1. Jobs' = Jobs
    BY DEF OneMoves, Jobs
  <1> SUFFICES ASSUME ~overlapped'
               PROVE  /\ pointer' # 0 => Stored(generations', pointer')
                      /\ \A k, l \in Jobs : UnderWay(k)' /\ UnderWay(l)' => k = l
                      /\ \A k \in Jobs : AloneOK(work'[k], generations', pointer')
    BY <1>1 DEF Alone, AloneOK, Stored
  <1>2. \A k \in Jobs : k # j => (UnderWay(k)' <=> UnderWay(k)) /\ work'[k] = work[k]
    BY DEF OneMoves, UnderWay
  <1>3. /\ \A k, l \in Jobs : UnderWay(k) /\ UnderWay(l) => k = l
        /\ \A k \in Jobs : AloneOK(work[k], generations, pointer)
    BY DEF CrawlInv, Alone
  <1>4. \A k \in Jobs : ~UnderWay(k) => AloneOK(work[k], generations', pointer')
    BY DEF UnderWay, AloneOK
  <1>5. \A k, l \in Jobs : UnderWay(k)' /\ UnderWay(l)' => k = l
    BY <1>2, <1>3
  <1>6. \A k \in Jobs : AloneOK(work'[k], generations', pointer')
    BY <1>2, <1>3, <1>4
  <1> QED
    BY <1>5, <1>6

\* A reader does not disturb the one sync under way.
LEMMA ReaderAlone ==
    ASSUME WorkInv, CrawlInv, NEW j \in Jobs, OneMoves(j), work[j].kind = "lookup",
           UNCHANGED <<pointer, generations, overlapped>>
    PROVE  Alone'
  <1>1. work'[j].kind = "lookup"
    BY DEF OneMoves, Later
  <1>2. ~UnderWay(j)' /\ AloneOK(work'[j], generations', pointer')
    BY <1>1 DEF UnderWay, AloneOK
  <1>3. ~overlapped => (pointer' # 0 => Stored(generations', pointer'))
    BY DEF CrawlInv, Alone
  <1> QED
    BY <1>2, <1>3, MovesAlone

\* Nothing but the operation changes.
LEMMA DiskSame ==
    ASSUME CrawlInv, UNCHANGED <<pointer, generations, begun, overlapped>>
    PROVE  /\ Grows(begun, generations, begun', generations')
           /\ GraphOK(begun', generations', pointer') /\ begun' \ begun = {}
           /\ overlapped' \in BOOLEAN
  BY DEF CrawlInv, Grows, GraphOK

\* The crawl invariant, action by action: a directory is made, ...
LEMMA MakeGenerationCrawls ==
    ASSUME WorkInv, CrawlInv, NEW j \in Jobs, MakeGeneration(j)
    PROVE  CrawlInv'
  <1> DEFINE g == work[j].gen
  <1>1. /\ Shape(work[j]) /\ Inputs(work[j]) /\ work[j].kind = "sync" /\ work[j].at = "start"
        /\ Goto(j, "write") /\ generations' = With(g, {}) /\ begun' = begun \cup {g}
        /\ overlapped' = (overlapped \/ \E k \in Jobs : UnderWay(k)) /\ pointer' = pointer
    BY DEF WorkInv, MakeGeneration, Is
  <1>2. OneMoves(j) /\ SameRest(work[j], work'[j]) /\ work'[j].at = "write"
    BY <1>1, GotoMoves
  <1>3. work'[j].kind = "sync" /\ work'[j].gen = g /\ work'[j].doomed = {}
    BY <1>1, <1>2 DEF OneMoves, Later, SameRest, CrawlInv, SyncOK
  <1>4. g \in Nat \ {0} /\ g \notin begun
    <2>1. g \in Nat \ {0}
      BY <1>1 DEF Inputs
    <2>2. ASSUME g \in begun
          PROVE  FALSE
      <3>1. PICK k \in Jobs : work[k].kind = "sync" /\ work[k].at # "start" /\ work[k].gen = g
        BY <2>2 DEF CrawlInv, Beginners
      <3>2. Twins(work[j], work[k])
        BY <1>1, <3>1 DEF Twins
      <3> QED
        BY <1>1, <3>1, <3>2 DEF WorkInv
    <2> QED
      BY <2>1, <2>2
  <1>5. GraphOK(begun, generations, pointer)
    BY DEF CrawlInv
  <1>6. IsFiniteSet(begun \cup {g})
    BY <1>5, FS_AddElement DEF GraphOK
  <1>7. \A h \in begun : Stored(generations, h) => Stored(generations', h)
    BY <1>1, <1>4, <1>5 DEF GraphOK, Stored, With
  <1>8. Grows(begun, generations, begun', generations')
    BY <1>1, <1>6, <1>7 DEF Grows
  <1>9. GraphOK(begun', generations', pointer')
    <2>1. DOMAIN generations' \subseteq begun' /\ \A h \in DOMAIN generations' : generations'[h] \subseteq Whole
      BY <1>1, <1>5 DEF GraphOK, With
    <2>2. pointer' # 0 => Sealed(begun', generations', pointer')
      BY <1>1, <1>5, <1>8, SealedGrows DEF GraphOK
    <2> QED
      BY <1>1, <1>4, <1>5, <1>6, <2>1, <2>2 DEF GraphOK
  <1>10. SyncOK(work'[j], begun', generations') /\ LookOK(work'[j], begun', generations')
    BY <1>1, <1>2, <1>3 DEF SyncOK, LookOK
  <1>11. Alone'
    <2>1. AloneOK(work'[j], generations', pointer')
      BY <1>2, <1>3 DEF AloneOK
    <2>2. ~overlapped' => ~overlapped /\ \A k \in Jobs : ~UnderWay(k)
      BY <1>1 DEF CrawlInv
    <2>3. ~overlapped => (pointer' # 0 => Stored(generations', pointer'))
      BY <1>1, <1>5, <1>7 DEF CrawlInv, Alone, GraphOK
    <2> QED
      BY <1>2, <2>1, <2>2, <2>3, MovesAlone
  <1>12. overlapped' \in BOOLEAN
    BY <1>1 DEF CrawlInv
  <1>13. \A h \in begun' \ begun :
            work'[j].kind = "sync" /\ work'[j].at # "start" /\ work'[j].gen = h
    BY <1>1, <1>2, <1>3
  <1> QED
    BY <1>2, <1>8, <1>9, <1>10, <1>11, <1>12, <1>13, MovesCrawls

\* ... a file is written into it, the summary last, ...
LEMMA WriteFileCrawls ==
    ASSUME WorkInv, CrawlInv, NEW j \in Jobs, WriteFile(j)
    PROVE  CrawlInv'
  <1> DEFINE g == work[j].gen
  <1>1. /\ Shape(work[j]) /\ work[j].kind = "sync" /\ work[j].at = "write" /\ Exists(g)
        /\ UNCHANGED <<pointer, begun, overlapped>>
    BY DEF WorkInv, WriteFile, Is
  <1>2. PICK f \in NextFile(g) :
             /\ generations' = With(g, generations[g] \cup {f})
             /\ Goto(j, IF f = Summary THEN "swap" ELSE "write")
    BY DEF WriteFile
  <1>3. /\ OneMoves(j) /\ SameRest(work[j], work'[j])
        /\ work'[j].at = IF f = Summary THEN "swap" ELSE "write"
    BY <1>1, <1>2, GotoMoves
  <1>4. work'[j].kind = "sync" /\ work'[j].gen = g /\ work'[j].doomed = {} /\ g \in begun
    BY <1>1, <1>3 DEF OneMoves, Later, SameRest, CrawlInv, SyncOK
  <1>5. GraphOK(begun, generations, pointer)
    BY DEF CrawlInv
  <1>6. generations[g] \subseteq Whole
    BY <1>1, <1>5 DEF GraphOK, Exists
  <1>7. generations[g] \cup {f} \subseteq Whole /\ (f = Summary => generations[g] \cup {f} = Whole)
    <2>1. Summary \notin NodeFiles
      BY WorkAssumption
    <2> QED
      BY <1>6, <2>1 DEF NextFile, Whole
  <1>8. /\ DOMAIN generations' = DOMAIN generations /\ generations'[g] = generations[g] \cup {f}
        /\ \A h \in DOMAIN generations : h # g => generations'[h] = generations[h]
    BY <1>1, <1>2 DEF With, Exists
  <1>9. \A h : Stored(generations, h) => Stored(generations', h)
    <2> SUFFICES ASSUME NEW h, Stored(generations, h)
                 PROVE  Stored(generations', h)
      OBVIOUS
    <2>1. CASE h = g
      BY <1>7, <1>8, <2>1 DEF Stored
    <2>2. CASE h # g
      BY <1>8, <2>2 DEF Stored
    <2> QED
      BY <2>1, <2>2
  <1>10. Grows(begun, generations, begun', generations')
    BY <1>1, <1>5, <1>9 DEF Grows, GraphOK
  <1>11. GraphOK(begun', generations', pointer')
    <2>1. \A h \in DOMAIN generations' : generations'[h] \subseteq Whole
      BY <1>5, <1>7, <1>8 DEF GraphOK
    <2>2. pointer' # 0 => Sealed(begun', generations', pointer')
      BY <1>1, <1>5, <1>10, SealedGrows DEF GraphOK
    <2> QED
      BY <1>1, <1>5, <1>8, <2>1, <2>2 DEF GraphOK
  <1>12. f = Summary => Stored(generations', g)
    BY <1>1, <1>7, <1>8 DEF Stored, Exists
  <1>13. SyncOK(work'[j], begun', generations') /\ LookOK(work'[j], begun', generations')
    BY <1>1, <1>3, <1>4, <1>12 DEF SyncOK, LookOK, Sealed
  <1>14. Alone'
    <2>1. AloneOK(work'[j], generations', pointer')
      BY <1>3, <1>4, <1>12 DEF AloneOK
    <2>2. UnderWay(j)
      BY <1>1 DEF UnderWay
    <2>3. ~overlapped => /\ \A k \in Jobs : k # j => ~UnderWay(k)
                         /\ pointer' # 0 => Stored(generations', pointer')
      BY <1>1, <1>9, <2>2 DEF CrawlInv, Alone
    <2> QED
      BY <1>1, <1>3, <2>1, <2>3, MovesAlone
  <1>15. overlapped' \in BOOLEAN /\ begun' \ begun = {} /\ work'[j].at # "start"
    BY <1>1, <1>3 DEF CrawlInv
  <1> QED
    BY <1>3, <1>10, <1>11, <1>13, <1>14, <1>15, MovesCrawls

\* ... or the directory is found gone, ...
LEMMA WriteFailsCrawls ==
    ASSUME WorkInv, CrawlInv, NEW j \in Jobs, WriteFails(j)
    PROVE  CrawlInv'
  <1>1. /\ Shape(work[j]) /\ work[j].kind = "sync" /\ work[j].at = "write" /\ Goto(j, "failed")
        /\ UNCHANGED <<pointer, generations, begun, overlapped>>
    BY DEF WorkInv, WriteFails, Is
  <1>2. OneMoves(j) /\ SameRest(work[j], work'[j]) /\ work'[j].at = "failed"
    BY <1>1, GotoMoves
  <1>3. work'[j].kind = "sync" /\ work'[j].gen = work[j].gen /\ work'[j].doomed = {} /\ work[j].gen \in begun
    BY <1>1, <1>2 DEF OneMoves, Later, SameRest, CrawlInv, SyncOK
  <1>4. SyncOK(work'[j], begun', generations') /\ LookOK(work'[j], begun', generations')
    BY <1>1, <1>2, <1>3 DEF SyncOK, LookOK
  <1>5. Alone'
    <2>1. AloneOK(work'[j], generations', pointer') /\ UnderWay(j)
      BY <1>1, <1>2 DEF AloneOK, UnderWay
    <2>2. ~overlapped => /\ \A k \in Jobs : k # j => ~UnderWay(k)
                         /\ pointer' # 0 => Stored(generations', pointer')
      BY <1>1, <2>1 DEF CrawlInv, Alone
    <2> QED
      BY <1>1, <1>2, <2>1, <2>2, MovesAlone
  <1> QED
    BY <1>1, <1>2, <1>4, <1>5, DiskSame, MovesCrawls

\* ... the pointer is swapped, ...
LEMMA SetCurrentCrawls ==
    ASSUME WorkInv, CrawlInv, NEW j \in Jobs, SetCurrent(j)
    PROVE  CrawlInv'
  <1>1. /\ Shape(work[j]) /\ Inputs(work[j]) /\ work[j].kind = "sync" /\ work[j].at = "swap"
        /\ Goto(j, "list") /\ pointer' = work[j].gen
        /\ UNCHANGED <<generations, begun, overlapped>>
    BY DEF WorkInv, SetCurrent, Is
  <1>2. OneMoves(j) /\ SameRest(work[j], work'[j]) /\ work'[j].at = "list"
    BY <1>1, GotoMoves
  <1>3. SyncOK(work[j], begun, generations)
    BY DEF CrawlInv
  <1>4. /\ work'[j].kind = "sync" /\ work'[j].gen = work[j].gen /\ work'[j].doomed = {}
        /\ work[j].gen \in begun /\ Sealed(begun, generations, work[j].gen)
    BY <1>1, <1>2, <1>3 DEF OneMoves, Later, SameRest, SyncOK
  <1>5. SyncOK(work'[j], begun', generations') /\ LookOK(work'[j], begun', generations')
    BY <1>1, <1>2, <1>4 DEF SyncOK, LookOK
  <1>6. /\ Grows(begun, generations, begun', generations') /\ overlapped' \in BOOLEAN
        /\ GraphOK(begun', generations', pointer') /\ begun' \ begun = {}
    BY <1>1, <1>4 DEF CrawlInv, Grows, GraphOK
  <1>7. Alone'
    <2>1. AloneOK(work'[j], generations', pointer') /\ UnderWay(j)
      BY <1>1, <1>2, <1>4 DEF AloneOK, UnderWay
    <2>2. ~overlapped => /\ \A k \in Jobs : k # j => ~UnderWay(k)
                         /\ Stored(generations', pointer')
      BY <1>1, <2>1 DEF CrawlInv, Alone, AloneOK
    <2> QED
      BY <1>1, <1>2, <2>1, <2>2, MovesAlone
  <1> QED
    BY <1>2, <1>5, <1>6, <1>7, MovesCrawls

\* ... the collector picks its candidates, ...
LEMMA CollectListCrawls ==
    ASSUME WorkInv, CrawlInv, NEW j \in Jobs, CollectList(j)
    PROVE  CrawlInv'
  <1> DEFINE g == work[j].gen
             d == Doomed(g)
  <1>1. /\ Shape(work[j]) /\ work[j].kind = "sync" /\ work[j].at = "list"
        /\ UNCHANGED <<pointer, generations, begun, overlapped>>
    BY DEF WorkInv, CollectList, Is
  <1>2. OneMoves(j) /\ work'[j].doomed = d /\ work'[j].at = IF d = {} THEN "done" ELSE "remove"
    BY <1>1, CollectListMoves
  <1>3. work'[j].kind = "sync" /\ work'[j].gen = g /\ g \in begun
    BY <1>1, <1>2 DEF OneMoves, Later, CrawlInv, SyncOK
  <1>4. GraphOK(begun, generations, pointer)
    BY DEF CrawlInv
  <1>5. DOMAIN generations \subseteq begun /\ IsFiniteSet(begun)
    BY <1>4 DEF GraphOK
  <1>6. d \subseteq begun /\ g \notin d
    BY <1>5 DEF Doomed
  <1>7. ASSUME NEW h \in d
        PROVE  Older(begun, h)
    <2>1. Older(DOMAIN generations, h)
      BY DEF Doomed, Older
    <2> QED
      BY <1>5, <2>1, OlderGrows
  <1> HIDE DEF d
  <1>8. SyncOK(work'[j], begun', generations') /\ LookOK(work'[j], begun', generations')
    BY <1>1, <1>2, <1>3, <1>6, <1>7 DEF SyncOK, LookOK
  <1>9. Alone'
    <2>1. UnderWay(j)
      BY <1>1 DEF UnderWay
    <2>2. ~overlapped => /\ \A k \in Jobs : k # j => ~UnderWay(k)
                         /\ pointer' # 0 => Stored(generations', pointer')
                         /\ pointer' = g
      BY <1>1, <2>1 DEF CrawlInv, Alone, AloneOK
    <2>3. ~overlapped => AloneOK(work'[j], generations', pointer')
      BY <1>1, <1>2, <1>3, <1>6, <2>2 DEF AloneOK
    <2> QED
      BY <1>1, <1>2, <2>2, <2>3, MovesAlone
  <1> QED
    BY <1>1, <1>2, <1>8, <1>9, DiskSame, MovesCrawls

\* The next generation to collect is one of those to collect.
LEMMA NextDoomed ==
    ASSUME NEW S, S \subseteq Nat, S # {}
    PROVE  Min(S) \in S
  <1>1. \E x \in S : \A y \in S : x <= y
    BY LeastNatural
  <1> QED
    BY <1>1 DEF Min

\* ... and removes them file by file; ...
LEMMA CollectStepCrawls ==
    ASSUME WorkInv, CrawlInv, NEW j \in Jobs, CollectStep(j)
    PROVE  CrawlInv'
  <1> DEFINE d == work[j].doomed
             g == Min(d)
  <1>1. /\ Shape(work[j]) /\ work[j].kind = "sync" /\ work[j].at = "remove"
        /\ UNCHANGED <<pointer, begun, overlapped>>
    BY DEF WorkInv, CollectStep, Is
  <1>2. SyncOK(work[j], begun, generations) /\ GraphOK(begun, generations, pointer)
    BY DEF CrawlInv
  <1>3. work[j].gen \in begun /\ d \subseteq begun /\ d # {} /\ \A h \in d : Older(begun, h)
    BY <1>1, <1>2 DEF SyncOK
  <1>4. g \in d
    <2>1. d \subseteq Nat /\ d # {}
      BY <1>2, <1>3 DEF GraphOK
    <2> HIDE DEF d
    <2> QED
      BY <2>1, NextDoomed
  <1>5. /\ DOMAIN generations' \subseteq DOMAIN generations
        /\ DOMAIN generations \subseteq DOMAIN generations' \cup {g}
        /\ \A h \in DOMAIN generations' : generations'[h] \subseteq Whole
        /\ \A h \in DOMAIN generations' : h # g => generations'[h] = generations[h]
    <2> HIDE DEF g
    <2>1. \A h \in DOMAIN generations : generations[h] \subseteq Whole
      BY <1>2 DEF GraphOK
    <2>2. \/ \E f : Exists(g) /\ generations' = With(g, generations[g] \ {f})
          \/ generations' = Without(g)
          \/ generations' = generations
      BY DEF CollectStep, g
    <2>3. CASE \E f : Exists(g) /\ generations' = With(g, generations[g] \ {f})
      BY <2>1, <2>3 DEF With, Exists
    <2>4. CASE generations' = Without(g)
      BY <2>1, <2>4 DEF Without
    <2>5. CASE generations' = generations
      BY <2>1, <2>5
    <2> QED
      BY <2>2, <2>3, <2>4, <2>5
  <1>6. /\ OneMoves(j)
        /\ \/ work' = work
           \/ /\ work'[j].doomed = d \ {g}
              /\ work'[j].at = IF d \ {g} = {} THEN "done" ELSE "remove"
    BY <1>1, CollectStepMoves
  <1> HIDE DEF g
  <1>7. \A h : h # g /\ Stored(generations, h) => Stored(generations', h)
    BY <1>5 DEF Stored
  <1>8. Grows(begun, generations, begun', generations')
    BY <1>1, <1>2, <1>3, <1>4, <1>7 DEF Grows, GraphOK
  <1>9. GraphOK(begun', generations', pointer')
    <2>1. pointer' # 0 => Sealed(begun', generations', pointer')
      BY <1>1, <1>2, <1>8, SealedGrows DEF GraphOK
    <2> QED
      BY <1>1, <1>2, <1>5, <2>1 DEF GraphOK
  <1>10. /\ work'[j].kind = "sync" /\ work'[j].gen = work[j].gen /\ work'[j].doomed \subseteq d
         /\ work'[j].at \in {"done", "remove"} /\ (work'[j].at = "remove" => work'[j].doomed # {})
    BY <1>1, <1>3, <1>6 DEF OneMoves, Later
  <1>11. SyncOK(work'[j], begun', generations') /\ LookOK(work'[j], begun', generations')
    BY <1>1, <1>3, <1>10 DEF SyncOK, LookOK
  <1>12. Alone'
    <2>1. UnderWay(j)
      BY <1>1 DEF UnderWay
    <2>2. ~overlapped => /\ \A k \in Jobs : k # j => ~UnderWay(k)
                         /\ pointer = work[j].gen /\ work[j].gen \notin d
                         /\ pointer # 0 => Stored(generations, pointer)
      BY <1>1, <2>1 DEF CrawlInv, Alone, AloneOK
    <2>3. ~overlapped => /\ pointer' # 0 => Stored(generations', pointer')
                         /\ AloneOK(work'[j], generations', pointer')
      BY <1>1, <1>4, <1>7, <1>10, <2>2 DEF AloneOK
    <2> QED
      BY <1>1, <1>6, <2>2, <2>3, MovesAlone
  <1>13. overlapped' \in BOOLEAN /\ begun' \ begun = {} /\ work'[j].at # "start"
    BY <1>1, <1>10 DEF CrawlInv
  <1> QED
    BY <1>6, <1>8, <1>9, <1>11, <1>12, <1>13, MovesCrawls

\* The readers.
LEMMA ReaderCrawls ==
    ASSUME WorkInv, CrawlInv, NEW j \in Jobs, OneMoves(j), work[j].kind = "lookup",
           work'[j].at # "start", UNCHANGED <<pointer, generations, begun, overlapped>>,
           LookOK(work'[j], begun, generations)
    PROVE  CrawlInv'
  <1>1. work'[j].kind = "lookup"
    BY DEF OneMoves, Later
  <1>2. SyncOK(work'[j], begun', generations') /\ LookOK(work'[j], begun', generations')
    BY <1>1 DEF SyncOK
  <1>3. Alone'
    BY ReaderAlone
  <1> QED
    BY <1>2, <1>3, DiskSame, MovesCrawls

\* ... a reader resolves the pointer, ...
LEMMA ReadPointerCrawls ==
    ASSUME WorkInv, CrawlInv, NEW j \in Jobs, ReadPointer(j)
    PROVE  CrawlInv'
  <1>1. /\ Shape(work[j]) /\ work[j].kind = "lookup" /\ work[j].at = "start"
        /\ UNCHANGED <<pointer, generations, begun, overlapped>>
        /\ LookOK(work[j], begun, generations) /\ GraphOK(begun, generations, pointer)
    BY DEF WorkInv, ReadPointer, Is, CrawlInv
  <1>2. /\ OneMoves(j) /\ work'[j].gen = pointer
        /\ work'[j].at = IF pointer = 0 THEN "done" ELSE "summary"
        /\ work'[j].nodes = work[j].nodes /\ work'[j].result = work[j].result
    BY <1>1, ReadPointerMoves
  <1>3. LookOK(work'[j], begun, generations)
    BY <1>1, <1>2 DEF LookOK, GraphOK
  <1> QED
    BY <1>1, <1>2, <1>3, ReaderCrawls

\* ... reads the summary, ...
LEMMA ReadSummaryCrawls ==
    ASSUME WorkInv, CrawlInv, NEW j \in Jobs, ReadSummary(j)
    PROVE  CrawlInv'
  <1> DEFINE there == Exists(work[j].gen) /\ Summary \in generations[work[j].gen]
  <1>1. /\ Shape(work[j]) /\ work[j].kind = "lookup" /\ work[j].at = "summary"
        /\ UNCHANGED <<pointer, generations, begun, overlapped>>
        /\ LookOK(work[j], begun, generations)
        /\ Goto(j, IF there THEN "list" ELSE "done")
    BY DEF WorkInv, ReadSummary, Is, CrawlInv
  <1>2. ~there => ~Stored(generations, work[j].gen)
    BY DEF Stored, Exists, Whole
  <1> HIDE DEF there
  <1>3. /\ OneMoves(j) /\ SameRest(work[j], work'[j])
        /\ work'[j].at = IF there THEN "list" ELSE "done"
    BY <1>1, GotoMoves
  <1>4. LookOK(work'[j], begun, generations)
    BY <1>1, <1>2, <1>3 DEF LookOK, SameRest, Sealed
  <1> QED
    BY <1>1, <1>3, <1>4, ReaderCrawls

\* ... lists the nodes, ...
LEMMA ListNodesCrawls ==
    ASSUME WorkInv, CrawlInv, NEW j \in Jobs, ListNodes(j)
    PROVE  CrawlInv'
  <1> DEFINE g == work[j].gen
             found == IF Exists(g) THEN generations[g] \ {Summary} ELSE {}
  <1>1. /\ Shape(work[j]) /\ work[j].kind = "lookup" /\ work[j].at = "list"
        /\ UNCHANGED <<pointer, generations, begun, overlapped>>
        /\ LookOK(work[j], begun, generations)
    BY DEF WorkInv, ListNodes, Is, CrawlInv
  <1>2. Stored(generations, g) => found = NodeFiles
    <2>1. Summary \notin NodeFiles
      BY WorkAssumption
    <2> QED
      BY <2>1 DEF Stored, Exists, Whole
  <1>3. /\ OneMoves(j) /\ work'[j].listed = found
        /\ work'[j].result = IF found = {} THEN "some" ELSE work[j].result
        /\ work'[j].at = IF found = {} THEN "done" ELSE "nodes"
        /\ work'[j].gen = work[j].gen /\ work'[j].nodes = work[j].nodes
    BY <1>1, ListNodesMoves
  <1> HIDE DEF found
  <1>4. LookOK(work'[j], begun, generations)
    BY <1>1, <1>2, <1>3 DEF LookOK, Sealed
  <1> QED
    BY <1>1, <1>3, <1>4, ReaderCrawls

\* ... and reads them.
LEMMA ReadNodeCrawls ==
    ASSUME WorkInv, CrawlInv, NEW j \in Jobs, ReadNode(j)
    PROVE  CrawlInv'
  <1> DEFINE g == work[j].gen
             read(f) == work[j].nodes \cup {f}
             there(f) == Exists(g) /\ f \in generations[g]
  <1>1. /\ Shape(work[j]) /\ work[j].kind = "lookup" /\ work[j].at = "nodes"
        /\ UNCHANGED <<pointer, generations, begun, overlapped>>
        /\ LookOK(work[j], begun, generations)
    BY DEF WorkInv, ReadNode, Is, CrawlInv
  <1>2. OneMoves(j) /\ work'[j].gen = g /\ work'[j].listed = work[j].listed
    BY <1>1, ReadNodeMoves
  <1>3. PICK f \in work[j].listed \ work[j].nodes :
                IF there(f)
                THEN /\ work'[j].nodes = read(f)
                     /\ work'[j].at = IF read(f) = work[j].listed THEN "done" ELSE "nodes"
                     /\ work'[j].result = IF read(f) = work[j].listed THEN "some" ELSE work[j].result
                ELSE work'[j].at = "done" /\ work'[j].result = "error"
    BY <1>1, ReadNodeMoves
  <1>4. Older(begun, g) \/ (work[j].listed = NodeFiles /\ (f \in NodeFiles => there(f)))
    BY <1>1 DEF LookOK, Sealed, Stored, Exists, Whole
  <1> HIDE DEF there, read
  <1>5. LookOK(work'[j], begun, generations)
    BY <1>1, <1>2, <1>3, <1>4 DEF LookOK
  <1>6. work'[j].at # "start"
    BY <1>3
  <1> QED
    BY <1>1, <1>2, <1>5, <1>6, ReaderCrawls

\* The invariant of the crawls is inductive.
LEMMA StepCrawls ==
    ASSUME WorkInv, CrawlInv, [Next]_vars
    PROVE  CrawlInv'
  <1>1. ASSUME NEW j \in Jobs, CrawlStep(j)
        PROVE  CrawlInv'
    BY <1>1, MakeGenerationCrawls, WriteFileCrawls, WriteFailsCrawls, SetCurrentCrawls,
       CollectListCrawls, CollectStepCrawls, ReadPointerCrawls, ReadSummaryCrawls,
       ListNodesCrawls, ReadNodeCrawls DEF CrawlStep
  <1>2. ASSUME NEW j \in Jobs, OneMoves(j),
               \/ HintStep(j) /\ work[j].kind = "hint"
               \/ BindStep(j) /\ work[j].kind = "bind"
               \/ CreateStep(j) /\ work[j].kind = "create"
               \/ HomeStep(j) /\ work[j].kind \in {"serve", "set_default"}
        PROVE  CrawlInv'
    <2>1. Aside({"sync", "lookup"})
      BY <1>2, OneMovesAside
    <2>2. UNCHANGED <<pointer, generations, begun, overlapped>>
      BY <1>2 DEF HintStep, ReadPeers, WritePeers, HintsOnly, BindStep, ReadBindings,
         RecordBindings, BindOnly, CreateStep, CheckAlias, WriteNext, WriteMeta, CreateOnly,
         HomeStep, OpenOrCreate, CheckHome, WriteHomeFile, StartNode, LoadConfig, LoadKey, BindHttp,
         StopHttp, StopPeers, CheckReachable, ReadConfig, WriteConfig, HomeOnly
    <2> QED
      BY <2>1, <2>2, AsideCrawls
  <1>3. CASE \E p : Crash(p)
    <2>1. UNCHANGED <<pointer, generations, begun, overlapped>>
      BY <1>3 DEF Crash, files
    <2> QED
      BY <1>3, <2>1, CrashAside, AsideCrawls
  <1>4. CASE UNCHANGED vars
    BY <1>4, StutterAside, AsideCrawls DEF vars, files
  <1> QED
    BY <1>1, <1>2, <1>3, <1>4, NextSteps

\* CrawlsAreWhole: whatever syncs, collections and readers do side by side and
\* wherever they are stopped, a reader sees all of the crawl it resolved as
\* long as fewer newer ones were begun than are kept, and with one sync at a time
\* the pointer names a whole crawl (graph/store.rs publish, collect, generation).
THEOREM CrawlsTheorem == Spec => []CrawlsAreWhole
  <1>1. Init => WorkInv /\ CrawlInv
    BY InitWork, InitCrawls
  <1>2. WorkInv /\ CrawlInv /\ [Next]_vars => (WorkInv /\ CrawlInv)'
    BY StepWork, StepCrawls
  <1>3. WorkInv /\ CrawlInv => CrawlsAreWhole
    <2> SUFFICES ASSUME WorkInv, CrawlInv
                 PROVE  CrawlsAreWhole
      OBVIOUS
    <2>1. PointerNamesAWholeCrawl
      BY DEF CrawlInv, Alone, Stored, PointerNamesAWholeCrawl, Exists
    <2>2. ASSUME NEW j \in Jobs, Is(j, "lookup", "done"), work[j].gen # 0,
                 Cardinality({h \in begun : h > work[j].gen}) < Kept
          PROVE  work[j].result = "some" /\ work[j].nodes = NodeFiles
      <3>1. work[j].gen \in begun /\ IsFiniteSet(begun) /\ LookOK(work[j], begun, generations)
        BY <2>2 DEF CrawlInv, GraphOK, LookOK, Is
      <3>2. Cardinality({h \in begun : h > work[j].gen}) \in Nat
        BY <3>1, FS_Subset, FS_CardinalityType
      <3>3. Kept \in Nat
        BY WorkAssumption
      <3>4. ~Older(begun, work[j].gen)
        BY <2>2, <3>2, <3>3 DEF Older
      <3> QED
        BY <2>2, <3>1, <3>4 DEF LookOK, Is
    <2> QED
      BY <2>1, <2>2 DEF CrawlsAreWhole, LookupSeesAWholeCrawl
  <1> QED
    BY <1>1, <1>2, <1>3, PTL DEF Spec

-----------------------------------------------------------------------------
(* What Retain returns.  Its definition is a recursive function over the    *)
(* length; that the function is there, and what it gives, is shown by the   *)
(* least length for which it is not so.                                     *)

\* A list is a list of its own elements.
LEMMA OwnElements ==
    ASSUME NEW S, NEW s \in Seq(S)
    PROVE  s \in Seq(Range(s)) /\ Len(s) \in Nat /\ DOMAIN s = 1 .. Len(s)
  <1>1. s \in [1 .. Len(s) -> S] /\ Len(s) \in Nat /\ DOMAIN s = 1 .. Len(s)
    BY LenProperties
  <1>2. s \in [1 .. Len(s) -> Range(s)]
    BY <1>1 DEF Range
  <1> QED
    BY <1>1, <1>2, SeqDef

\* A function on an initial stretch of the positive naturals is a list.
LEMMA Listed1 ==
    ASSUME NEW n \in Nat, NEW s, DOMAIN s = 1 .. n, s = [i \in 1 .. n |-> s[i]]
    PROVE  s \in Seq(Range(s)) /\ Len(s) = n
  <1>1. s \in [1 .. n -> Range(s)]
    BY DEF Range
  <1>2. s \in Seq(Range(s))
    BY <1>1, SeqDef
  <1> QED
    BY <1>2, LenProperties

Picks(list, positions, n, f) ==
    f = [m \in 0 .. n |-> IF m = 0 THEN <<>>
                          ELSE IF m \in positions THEN Append(f[m - 1], list[m]) ELSE f[m - 1]]

\* The function Retain recurses by is there for every length.
LEMMA PicksExist ==
    ASSUME NEW list, NEW positions, NEW n \in Nat
    PROVE  \E f : Picks(list, positions, n, f)
  <1> DEFINE Bad == {m \in Nat : ~\E f : Picks(list, positions, m, f)}
  <1> SUFFICES ASSUME Bad # {}
               PROVE  FALSE
    OBVIOUS
  <1>1. PICK m \in Bad : \A k \in Bad : m <= k
    BY LeastNatural
  <1>2. CASE m = 0
    <2> DEFINE f == [k \in 0 .. 0 |-> <<>>]
    <2>1. Picks(list, positions, 0, f)
      BY DEF Picks
    <2> QED
      BY <1>1, <1>2, <2>1
  <1>3. CASE m # 0
    <2>1. m - 1 \in Nat /\ m - 1 \notin Bad
      BY <1>1, <1>3
    <2>2. PICK f : Picks(list, positions, m - 1, f)
      BY <2>1
    <2> DEFINE g == [k \in 0 .. m |-> IF k < m THEN f[k]
                        ELSE IF m \in positions THEN Append(f[m - 1], list[m]) ELSE f[m - 1]]
    <2>3. \A k \in 0 .. m : g[k] = IF k = 0 THEN <<>>
                        ELSE IF k \in positions THEN Append(g[k - 1], list[k]) ELSE g[k - 1]
      <3> SUFFICES ASSUME NEW k \in 0 .. m
                   PROVE  g[k] = IF k = 0 THEN <<>>
                        ELSE IF k \in positions THEN Append(g[k - 1], list[k]) ELSE g[k - 1]
        OBVIOUS
      <3>1. CASE k = m
        BY <1>1, <1>3, <3>1
      <3>2. CASE k < m
        <4>1. k \in 0 .. m - 1
          BY <1>1, <3>2
        <4>2. f[k] = IF k = 0 THEN <<>>
                        ELSE IF k \in positions THEN Append(f[k - 1], list[k]) ELSE f[k - 1]
          BY <2>2, <4>1 DEF Picks
        <4>3. g[k] = f[k] /\ (k # 0 => g[k - 1] = f[k - 1])
          BY <1>1, <3>2
        <4> QED
          BY <4>2, <4>3
      <3> QED
        BY <1>1, <3>1, <3>2
    <2>4. g = [k \in 0 .. m |-> g[k]]
      OBVIOUS
    <2> HIDE DEF g
    <2>5. Picks(list, positions, m, g)
      BY <2>3, <2>4 DEF Picks
    <2> QED
      BY <1>1, <2>5
  <1> QED
    BY <1>2, <1>3

\* Retain, one position after the other.
LEMMA RetainPicks ==
    ASSUME NEW list, Len(list) \in Nat, NEW positions
    PROVE  \E f : /\ Picks(list, positions, Len(list), f)
                  /\ Retain(list, positions) = f[Len(list)]
  <1> DEFINE f == CHOOSE f : Picks(list, positions, Len(list), f)
  <1>1. Picks(list, positions, Len(list), f)
    BY PicksExist
  <1>2. Retain(list, positions) = f[Len(list)]
    BY DEF Retain, Picks
  <1> QED
    BY <1>1, <1>2

Keeps(S, list, positions, kept) ==
    /\ kept \in Seq(S) /\ Len(kept) <= Len(list)
    /\ \A x : (\E i \in DOMAIN kept : kept[i] = x) <=> (\E p \in positions : list[p] = x)
    /\ (\A p, q \in positions : list[p] = list[q] => p = q) => IsInjective(kept)

\* What Retain keeps is what stood at the positions, no more elements than
\* there were, and none twice unless one stood at two positions.
LEMMA RetainFacts ==
    ASSUME NEW S, NEW list \in Seq(S), NEW positions, positions \subseteq DOMAIN list
    PROVE  Keeps(S, list, positions, Retain(list, positions))
  <1>0. Len(list) \in Nat /\ DOMAIN list = 1 .. Len(list) /\ \A i \in 1 .. Len(list) : list[i] \in S
    BY LenProperties, ElementOfSeq
  <1>1. PICK f : Picks(list, positions, Len(list), f) /\ Retain(list, positions) = f[Len(list)]
    BY <1>0, RetainPicks
  <1> DEFINE Upto(n) == {p \in positions : p <= n}
             Good(n) ==
               /\ f[n] \in Seq(S) /\ Len(f[n]) <= n
               /\ \A x : (\E i \in DOMAIN f[n] : f[n][i] = x) <=> (\E p \in Upto(n) : list[p] = x)
               /\ (\A p, q \in positions : list[p] = list[q] => p = q) => IsInjective(f[n])
             Bad == {n \in 0 .. Len(list) : ~Good(n)}
  <1>2. \A n \in 0 .. Len(list) : f[n] = IF n = 0 THEN <<>>
              ELSE IF n \in positions THEN Append(f[n - 1], list[n]) ELSE f[n - 1]
    BY <1>1 DEF Picks
  <1>3. Bad = {}
    <2> SUFFICES ASSUME Bad # {}
                 PROVE  FALSE
      OBVIOUS
    <2>1. Bad \subseteq Nat
      BY <1>0
    <2>2. PICK n \in Bad : \A k \in Bad : n <= k
      BY <2>1, LeastNatural
    <2>3. n \in 0 .. Len(list) /\ n \in Nat /\ ~Good(n)
      BY <1>0, <2>2
    <2>4. CASE n = 0
      <3>1. f[0] = <<>> /\ Upto(0) = {}
        BY <1>0, <1>2
      <3>2. <<>> \in Seq(S) /\ Len(<<>>) = 0 /\ DOMAIN <<>> = {} /\ IsInjective(<<>>)
        BY DEF IsInjective
      <3> QED
        BY <2>3, <2>4, <3>1, <3>2
    <2>5. CASE n # 0
      <3>1. n - 1 \in Nat /\ n - 1 \in 0 .. Len(list) /\ n \in 1 .. Len(list)
        BY <1>0, <2>3, <2>5
      <3>2. Good(n - 1)
        <4>1. n - 1 \notin Bad
          <5> HIDE DEF Bad
          <5> QED
            BY <2>2, <2>3, <3>1
        <4> HIDE DEF Good
        <4> QED
          BY <3>1, <4>1
      <3> HIDE DEF Bad
      <3>3. CASE n \notin positions
        <4>1. f[n] = f[n - 1]
          BY <1>2, <2>3, <2>5, <3>3
        <4>2. Upto(n) = Upto(n - 1)
          BY <1>0, <2>3, <3>1, <3>3
        <4> HIDE DEF Upto
        <4> QED
          BY <2>3, <3>1, <3>2, <4>1, <4>2
      <3>4. CASE n \in positions
        <4> DEFINE h == f[n - 1]
                   e == list[n]
        <4>1. f[n] = Append(h, e)
          BY <1>2, <2>3, <2>5, <3>4
        <4>2. Upto(n) = Upto(n - 1) \cup {n}
          BY <1>0, <2>3, <3>1, <3>4
        <4>3. h \in Seq(S) /\ e \in S /\ Len(h) <= n - 1 /\ Len(h) \in Nat /\ DOMAIN h = 1 .. Len(h)
          BY <1>0, <3>1, <3>2, LenProperties
        <4> HIDE DEF h, e
        <4>4. /\ Append(h, e) \in Seq(S) /\ Len(Append(h, e)) = Len(h) + 1
              /\ \A i \in 1 .. Len(h) : Append(h, e)[i] = h[i]
              /\ Append(h, e)[Len(h) + 1] = e
              /\ DOMAIN Append(h, e) = 1 .. Len(h) + 1
          BY <4>3, AppendProperties, LenProperties
        <4> DEFINE g == Append(h, e)
        <4> HIDE DEF g
        <4>5. /\ g \in Seq(S) /\ Len(g) = Len(h) + 1 /\ g[Len(h) + 1] = e
              /\ \A i \in 1 .. Len(h) : g[i] = h[i]
              /\ DOMAIN g = 1 .. Len(h) + 1
          BY <4>4 DEF g
        <4>6. \A x : (\E i \in DOMAIN g : g[i] = x) <=> x = e \/ (\E i \in DOMAIN h : h[i] = x)
          <5> TAKE x
          <5>1. ASSUME NEW i \in DOMAIN g, g[i] = x
                PROVE  x = e \/ (\E k \in DOMAIN h : h[k] = x)
            <6>1. i = Len(h) + 1 \/ i \in 1 .. Len(h)
              BY <4>3, <4>5
            <6> QED
              BY <4>3, <4>5, <5>1, <6>1
          <5>2. ASSUME x = e
                PROVE  \E i \in DOMAIN g : g[i] = x
            <6>1. Len(h) + 1 \in DOMAIN g
              BY <4>3, <4>5
            <6> QED
              BY <4>5, <5>2, <6>1
          <5>3. ASSUME NEW k \in DOMAIN h, h[k] = x
                PROVE  \E i \in DOMAIN g : g[i] = x
            <6>1. k \in DOMAIN g /\ k \in 1 .. Len(h)
              BY <4>3, <4>5
            <6> QED
              BY <4>5, <5>3, <6>1
          <5> QED
            BY <5>1, <5>2, <5>3
        <4>7. \A x : (\E i \in DOMAIN h : h[i] = x) <=> (\E p \in Upto(n - 1) : list[p] = x)
          BY <3>2 DEF h
        <4>8. \A x : (\E i \in DOMAIN g : g[i] = x) <=> (\E p \in Upto(n) : list[p] = x)
          <5> HIDE DEF Upto
          <5> QED
            BY <4>2, <4>6, <4>7 DEF e
        <4>9. ASSUME \A p, q \in positions : list[p] = list[q] => p = q
              PROVE  IsInjective(g)
          <5>1. IsInjective(h)
            BY <3>2, <4>9 DEF h
          <5>2. ~\E i \in DOMAIN h : h[i] = e
            <6>1. ASSUME NEW p \in Upto(n - 1), list[p] = e
                  PROVE  FALSE
              <7>1. p = n
                BY <3>4, <4>9, <6>1 DEF e
              <7> QED
                BY <2>3, <6>1, <7>1
            <6> QED
              BY <4>7, <6>1
          <5>3. ASSUME NEW i \in DOMAIN g, NEW k \in DOMAIN g, g[i] = g[k]
                PROVE  i = k
            <6>1. (i \in 1 .. Len(h) \/ i = Len(h) + 1) /\ (k \in 1 .. Len(h) \/ k = Len(h) + 1)
              BY <4>3, <4>5
            <6> QED
              BY <4>3, <4>5, <5>1, <5>2, <5>3, <6>1 DEF IsInjective
          <5> QED
            BY <5>3 DEF IsInjective
        <4>10. f[n] = g
          BY <4>1 DEF g
        <4>11. Len(g) <= n
          BY <2>3, <4>3, <4>5
        <4> HIDE DEF Upto
        <4> QED
          BY <2>3, <4>5, <4>8, <4>9, <4>10, <4>11
      <3> QED
        BY <3>3, <3>4
    <2> QED
      BY <2>4, <2>5
  <1>4. Good(Len(list))
    <2>1. Len(list) \in 0 .. Len(list)
      BY <1>0
    <2> HIDE DEF Good
    <2> QED
      BY <1>3, <2>1
  <1>5. Upto(Len(list)) = positions
    BY <1>0
  <1> HIDE DEF Upto
  <1> QED
    BY <1>1, <1>4, <1>5 DEF Keeps

-----------------------------------------------------------------------------
(* The settings.                                                           *)

WellFormed(ws) ==
    /\ ws \in Seq(Range(ws))
    /\ \A n \in DOMAIN ws : {"form", "witness", "endpoints"} \subseteq DOMAIN ws[n]

\* Each endpoint given is recorded, and once.
LEMMA GivenFacts ==
    ASSUME NEW o, o.given \in Seq(Range(o.given))
    PROVE  IsInjective(Given(o)) /\ (Given(o) = <<>> <=> o.given = <<>>)
  <1> DEFINE list == o.given
             first == {n \in DOMAIN list : \A m \in 1 .. n - 1 : list[m] # list[n]}
             S == Range(list)
  <1>0. list \in Seq(S) /\ Len(list) \in Nat /\ DOMAIN list = 1 .. Len(list)
    BY LenProperties
  <1>1. Given(o) = Retain(list, first)
    BY DEF Given
  <1>2. first \subseteq DOMAIN list
    OBVIOUS
  <1>3. \A p, q \in first : list[p] = list[q] => p = q
    <2> SUFFICES ASSUME NEW p \in first, NEW q \in first, list[p] = list[q], p # q
                 PROVE  FALSE
      OBVIOUS
    <2>1. p \in Nat /\ q \in Nat /\ p >= 1 /\ q >= 1
      BY <1>0
    <2>2. p \in 1 .. q - 1 \/ q \in 1 .. p - 1
      BY <2>1
    <2> QED
      BY <2>2
  <1>4. list # <<>> => 1 \in first
    <2>1. list # <<>> => Len(list) >= 1
      BY <1>0, EmptySeq
    <2> QED
      BY <1>0, <2>1
  <1>5. list = <<>> => first = {}
    OBVIOUS
  <1> HIDE DEF list, first, S
  <1> DEFINE kept == Retain(list, first)
  <1>6. /\ kept \in Seq(S)
        /\ \A x : (\E i \in DOMAIN kept : kept[i] = x) <=> (\E p \in first : list[p] = x)
        /\ (\A p, q \in first : list[p] = list[q] => p = q) => IsInjective(kept)
    <2>1. Keeps(S, list, first, kept)
      BY <1>0, <1>2, RetainFacts
    <2> HIDE DEF kept
    <2> QED
      BY <2>1 DEF Keeps
  <1>7. IsInjective(kept)
    BY <1>3, <1>6
  <1>8. ASSUME kept = <<>>
        PROVE  list = <<>>
    <2>1. DOMAIN kept = {}
      BY <1>8
    <2>2. first = {}
      BY <1>6, <2>1
    <2> QED
      BY <1>4, <2>2
  <1>9. ASSUME list = <<>>
        PROVE  kept = <<>>
    <2>1. \A i \in DOMAIN kept : FALSE
      BY <1>5, <1>6, <1>9
    <2>2. kept \in Seq(S)
      BY <1>6
    <2> HIDE DEF kept
    <2>3. Len(kept) = 0
      <3>1. DOMAIN kept = 1 .. Len(kept) /\ Len(kept) \in Nat
        BY <2>2, LenProperties
      <3>2. Len(kept) # 0 => 1 \in DOMAIN kept
        BY <3>1
      <3> QED
        BY <2>1, <3>2
    <2> QED
      BY <2>2, <2>3, EmptySeq
  <1> QED
    BY <1>1, <1>7, <1>8, <1>9 DEF list

\* A node.json that loads says the same once loaded, in the present form.
LEMMA LoadedFacts ==
    ASSUME NEW ws, WellFormed(ws)
    PROVE  LET l == Loaded(ws) IN
           /\ WellFormed(l) /\ DOMAIN l = DOMAIN ws
           /\ \A n \in DOMAIN ws : l[n].witness = ws[n].witness /\ l[n].endpoints = ws[n].endpoints
           /\ Loads(ws) => Loads(l)
  <1> DEFINE l == Loaded(ws)
             e(n) == [ws[n] EXCEPT !.form = "entry"]
  <1>1. DOMAIN ws = 1 .. Len(ws) /\ Len(ws) \in Nat
    BY LenProperties DEF WellFormed
  <1>2. l = [n \in DOMAIN ws |-> e(n)]
    BY DEF Loaded
  <1>3. ASSUME NEW n \in DOMAIN ws
        PROVE  /\ e(n).witness = ws[n].witness /\ e(n).endpoints = ws[n].endpoints
               /\ e(n).form = "entry" /\ DOMAIN e(n) = DOMAIN ws[n]
    BY DEF WellFormed
  <1> HIDE DEF e
  <1>4. DOMAIN l = 1 .. Len(ws) /\ l = [n \in 1 .. Len(ws) |-> l[n]] /\ \A n \in DOMAIN ws : l[n] = e(n)
    BY <1>1, <1>2
  <1> HIDE DEF l
  <1>5. l \in Seq(Range(l))
    BY <1>1, <1>4, Listed1
  <1>6. WellFormed(l)
    BY <1>1, <1>3, <1>4, <1>5 DEF WellFormed
  <1>7. Loads(ws) => Loads(l)
    BY <1>1, <1>3, <1>4 DEF Loads
  <1> QED
    BY <1>1, <1>3, <1>4, <1>6, <1>7 DEF l

\* The endpoints of a witness that is configured are those of its entry.
LEMMA WitnessEndpointsFacts ==
    ASSUME NEW ws, Loads(ws), NEW w
    PROVE  /\ IsInjective(WitnessEndpoints(ws, w))
           /\ \A n \in Named(ws, w) : WitnessEndpoints(ws, w) = ws[n].endpoints
  <1>1. CASE Named(ws, w) = {}
    <2>1. WitnessEndpoints(ws, w) = <<>>
      BY <1>1 DEF WitnessEndpoints
    <2>2. IsInjective(<<>>)
      BY DEF IsInjective
    <2> QED
      BY <1>1, <2>1, <2>2
  <1>2. CASE Named(ws, w) # {}
    <2> DEFINE c == CHOOSE n \in Named(ws, w) : TRUE
    <2>1. c \in Named(ws, w) /\ WitnessEndpoints(ws, w) = ws[c].endpoints
      BY <1>2 DEF WitnessEndpoints
    <2> HIDE DEF c
    <2>2. \A n \in Named(ws, w) : n = c
      BY <2>1 DEF Named, Loads
    <2>3. c \in DOMAIN ws
      BY <2>1 DEF Named
    <2> QED
      BY <2>1, <2>2, <2>3 DEF Loads
  <1> QED
    BY <1>1, <1>2

SetsOne(ws, w, eps, c) ==
    /\ WellFormed(c) /\ Loads(c) /\ DOMAIN ws \subseteq DOMAIN c
    /\ \E n \in Named(c, w) : c[n].endpoints = eps
    /\ \A n \in DOMAIN ws : /\ c[n].witness = ws[n].witness
                            /\ ws[n].witness # w => c[n].endpoints = ws[n].endpoints

\* Setting one witness leaves the others where they stand, and loads again.
LEMMA ConfiguredFacts ==
    ASSUME NEW ws, WellFormed(ws), Loads(ws), NEW w, NEW eps, IsInjective(eps)
    PROVE  SetsOne(ws, w, eps, Configured(ws, Witness(w, eps)))
  <1> DEFINE e == Witness(w, eps)
             c == Configured(ws, e)
  <1>1. DOMAIN ws = 1 .. Len(ws) /\ Len(ws) \in Nat
    BY LenProperties DEF WellFormed
  <1>2. /\ e.witness = w /\ e.endpoints = eps /\ e.form = "entry"
        /\ DOMAIN e = {"form", "witness", "endpoints"}
    BY DEF Witness
  <1> HIDE DEF e
  <1>3. CASE Named(ws, w) = {}
    <2>1. c = Append(ws, e)
      BY <1>2, <1>3 DEF Configured
    <2> HIDE DEF c
    <2> DEFINE S == Range(ws) \cup {e}
    <2>2. ws \in Seq(S) /\ e \in S
      <3>1. ws \in [1 .. Len(ws) -> S]
        BY <1>1, LenProperties DEF Range, WellFormed
      <3> QED
        BY <1>1, <3>1, SeqDef
    <2> HIDE DEF S
    <2>3. /\ c \in Seq(S) /\ Len(c) = Len(ws) + 1 /\ c[Len(ws) + 1] = e
          /\ \A n \in 1 .. Len(ws) : c[n] = ws[n]
      BY <2>1, <2>2, AppendProperties
    <2>4. c \in Seq(Range(c)) /\ DOMAIN c = 1 .. Len(ws) + 1
      BY <2>3, OwnElements
    <2>5. \A n \in DOMAIN c : n \in DOMAIN ws \/ n = Len(ws) + 1
      BY <1>1, <2>4
    <2>6. \A n \in DOMAIN ws : n \in DOMAIN c /\ c[n] = ws[n] /\ ws[n].witness # w
      BY <1>1, <1>3, <2>3, <2>4 DEF Named
    <2>7. Len(ws) + 1 \in Named(c, w)
      BY <1>1, <1>2, <2>3, <2>4 DEF Named
    <2>8. WellFormed(c)
      BY <1>2, <2>3, <2>4, <2>5, <2>6 DEF WellFormed
    <2>9. Loads(c)
      <3>1. \A n \in DOMAIN c : c[n].form # "endpoint" /\ IsInjective(c[n].endpoints)
        BY <1>2, <2>3, <2>5, <2>6 DEF Loads
      <3>2. \A m, n \in DOMAIN c : c[m].witness = c[n].witness => m = n
        BY <1>2, <2>3, <2>5, <2>6 DEF Loads
      <3> QED
        BY <3>1, <3>2 DEF Loads
    <2>10. DOMAIN ws \subseteq DOMAIN c
      BY <2>6
    <2> QED
      BY <1>2, <2>3, <2>6, <2>7, <2>8, <2>9, <2>10 DEF c, e, SetsOne
  <1>4. CASE Named(ws, w) # {}
    <2>1. c = [n \in DOMAIN ws |-> IF n \in Named(ws, w) THEN e ELSE ws[n]]
      BY <1>2, <1>4 DEF Configured
    <2>2. /\ DOMAIN c = 1 .. Len(ws) /\ c = [n \in 1 .. Len(ws) |-> c[n]]
          /\ \A n \in DOMAIN ws : c[n] = IF n \in Named(ws, w) THEN e ELSE ws[n]
      BY <1>1, <2>1
    <2> HIDE DEF c
    <2>3. c \in Seq(Range(c))
      BY <1>1, <2>2, Listed1
    <2>4. \A n \in DOMAIN ws : c[n].witness = ws[n].witness
      BY <1>2, <2>2 DEF Named
    <2>5. WellFormed(c)
      BY <1>1, <1>2, <2>2, <2>3 DEF WellFormed
    <2>6. Loads(c)
      <3>1. \A n \in DOMAIN c : c[n].form # "endpoint" /\ IsInjective(c[n].endpoints)
        BY <1>1, <1>2, <2>2 DEF Loads
      <3>2. \A m, n \in DOMAIN c : c[m].witness = c[n].witness => m = n
        BY <1>1, <2>2, <2>4 DEF Loads
      <3> QED
        BY <3>1, <3>2 DEF Loads
    <2>7. PICK n \in Named(ws, w) : TRUE
      BY <1>4
    <2>8. n \in Named(c, w) /\ c[n].endpoints = eps
      BY <1>1, <1>2, <2>2, <2>7 DEF Named
    <2>9. \A m \in DOMAIN ws : ws[m].witness # w => c[m].endpoints = ws[m].endpoints
      BY <2>2 DEF Named
    <2>10. DOMAIN ws \subseteq DOMAIN c
      BY <1>1, <2>2
    <2> QED
      BY <2>4, <2>5, <2>6, <2>8, <2>9, <2>10 DEF c, e, SetsOne
  <1> QED
    BY <1>3, <1>4

-----------------------------------------------------------------------------
(* The home.  Only jobs between what they read and their last write touch  *)
(* its files; as long as there was one of them at a time, what it read is  *)
(* what it overwrites.                                                     *)

OpenOK(o, c, key) ==
    o.kind \in {"serve", "set_default"} =>
        /\ o.at \in {"opened", "secret", "peers", "serving", "closing", "load", "store", "done"} =>
             c.exists
        /\ o.at = "config" => key # 0
        /\ o.kind = "set_default" /\ o.at = "store" => WellFormed(o.seen) /\ Loads(o.seen)
        /\ o.kind = "set_default" /\ o.at = "done" => Loads(c.witnesses)

QuietOK(o, c, key) ==
    o.kind \in {"serve", "set_default"} =>
        /\ o.at \in {"key", "config"} => ~c.exists
        /\ o.kind = "serve" /\ o.at \in {"peers", "serving", "closing"} => o.key = key
        /\ o.kind = "set_default" /\ o.at = "store" => o.seen = Loaded(c.witnesses)

FileOK(c, key) ==
    c.exists \in BOOLEAN /\ WellFormed(c.witnesses) /\ (c.exists => key # 0)

SetIn(o, c, p) ==
    \E n \in Named(c.witnesses, o.witness) :
        \/ o.given = <<>>
        \/ \E k \in DOMAIN p : /\ p[k].kind = "set_default" /\ p[k].at = "done"
                               /\ p[k].witness = o.witness /\ p[k].given # <<>>
                               /\ c.witnesses[n].endpoints = Given(p[k])

Settled(p, c) ==
    \A j \in DOMAIN p : p[j].kind = "set_default" /\ p[j].at = "done" => SetIn(p[j], c, p)

HomeInv ==
    /\ FileOK(config, nodeKey) /\ raced \in BOOLEAN
    /\ \A j \in Jobs : OpenOK(work[j], config, nodeKey)
    /\ ~raced => /\ \A j, k \in Jobs : Writing(j) /\ Writing(k) => j = k
                 /\ \A j \in Jobs : QuietOK(work[j], config, nodeKey)
                 /\ Settled(work, config)

\* A home as an operator or an older release left it, or none.
LEMMA InitHome ==
    ASSUME Init
    PROVE  HomeInv
  <1>1. config \in Configs \cup {NoConfig} /\ raced = FALSE
    BY DEF Init
  <1>2. config.exists \in BOOLEAN /\ WellFormed(config.witnesses)
    <2>1. CASE config = NoConfig
      <3>1. config.exists = FALSE /\ config.witnesses = <<>>
        BY <2>1 DEF NoConfig
      <3>2. <<>> \in Seq(Range(<<>>)) /\ DOMAIN <<>> = {}
        OBVIOUS
      <3> QED
        BY <3>1, <3>2 DEF WellFormed
    <2>2. CASE config \in Configs
      <3>1. /\ config.exists \in BOOLEAN /\ config.witnesses \in Seq(Range(config.witnesses))
            /\ \A w \in Range(config.witnesses) : DOMAIN w = {"form", "witness", "endpoints"}
        BY <2>2, WorkAssumption
      <3> DEFINE ws == config.witnesses
      <3>2. \A n \in DOMAIN ws : ws[n] \in Range(ws)
        BY DEF Range
      <3> QED
        BY <3>1, <3>2 DEF WellFormed
    <2> QED
      BY <1>1, <2>1, <2>2
  <1>3. config.exists => nodeKey # 0
    BY DEF Init, Operator
  <1>4. ASSUME NEW j \in Jobs
        PROVE  work[j].at = "start"
    BY InitWork, OperationFacts
  <1>5. Settled(work, config)
    BY <1>4 DEF Settled, Jobs
  <1> QED
    BY <1>1, <1>2, <1>3, <1>4, <1>5 DEF HomeInv, FileOK, OpenOK, QuietOK, Writing

\* Whoever has set a witness stays done; a step that ends no set_default and
\* leaves node.json alone keeps what is set.
LEMMA SettledStays ==
    ASSUME NEW p, NEW q, NEW c, DOMAIN q = DOMAIN p, Settled(p, c),
           \A j \in DOMAIN p : Later(p[j], q[j]),
           \A j \in DOMAIN p : p[j].kind = "set_default" => (q[j].at = "done" <=> p[j].at = "done")
    PROVE  Settled(q, c)
  <1> SUFFICES ASSUME NEW j \in DOMAIN p, q[j].kind = "set_default", q[j].at = "done"
               PROVE  SetIn(q[j], c, q)
    BY DEF Settled
  <1>1. /\ p[j].kind = "set_default" /\ p[j].at = "done"
        /\ q[j].witness = p[j].witness /\ q[j].given = p[j].given
    BY DEF Later
  <1>2. PICK n \in Named(c.witnesses, p[j].witness) :
            \/ p[j].given = <<>>
            \/ \E k \in DOMAIN p : /\ p[k].kind = "set_default" /\ p[k].at = "done"
                                   /\ p[k].witness = p[j].witness /\ p[k].given # <<>>
                                   /\ c.witnesses[n].endpoints = Given(p[k])
    BY <1>1 DEF Settled, SetIn
  <1>3. CASE p[j].given = <<>>
    BY <1>1, <1>2, <1>3 DEF SetIn
  <1>4. ASSUME NEW k \in DOMAIN p, p[k].kind = "set_default", p[k].at = "done",
               p[k].witness = p[j].witness, p[k].given # <<>>,
               c.witnesses[n].endpoints = Given(p[k])
        PROVE  SetIn(q[j], c, q)
    <2>1. /\ q[k].kind = "set_default" /\ q[k].at = "done" /\ q[k].witness = p[k].witness
          /\ q[k].given = p[k].given
      BY <1>4 DEF Later
    <2>2. Given(q[k]) = Given(p[k])
      BY <2>1 DEF Given
    <2> QED
      BY <1>1, <1>2, <1>4, <2>1, <2>2 DEF SetIn
  <1> QED
    BY <1>2, <1>3, <1>4

\* A step that touches no file of the home itself, or stops some of its jobs.
LEMMA AsideHome ==
    ASSUME HomeInv, Aside({"serve", "set_default"}), UNCHANGED home
    PROVE  HomeInv'
  <1>1. Jobs' = Jobs /\ UNCHANGED <<config, nodeKey, raced>>
    BY DEF Aside, Jobs, home
  <1>2. ASSUME NEW j \in Jobs
        PROVE  /\ work'[j].kind = work[j].kind /\ Later(work[j], work'[j])
               /\ work[j].kind \in {"serve", "set_default"} =>
                    \/ work'[j] = work[j]
                    \/ work'[j].at = "dead" /\ work[j].at # "done"
    BY DEF Aside, Killed, Later
  <1>3. ASSUME NEW j \in Jobs
        PROVE  /\ OpenOK(work'[j], config, nodeKey)
               /\ ~raced => QuietOK(work'[j], config, nodeKey)
               /\ Writing(j)' => Writing(j)
    <2>1. OpenOK(work[j], config, nodeKey) /\ (~raced => QuietOK(work[j], config, nodeKey))
      BY DEF HomeInv
    <2>2. CASE work[j].kind \notin {"serve", "set_default"}
      BY <1>2, <2>2 DEF OpenOK, QuietOK, Writing, Opens
    <2>3. CASE work'[j] = work[j]
      BY <2>1, <2>3 DEF Writing, Opens
    <2>4. CASE work'[j].at = "dead"
      BY <2>4 DEF OpenOK, QuietOK, Writing
    <2> QED
      BY <1>2, <2>2, <2>3, <2>4
  <1>4. ~raced => Settled(work', config)
    <2>1. \A j \in DOMAIN work : work[j].kind = "set_default" =>
                                    (work'[j].at = "done" <=> work[j].at = "done")
      BY <1>2 DEF Jobs
    <2>2. \A j \in DOMAIN work : Later(work[j], work'[j])
      BY <1>2 DEF Jobs
    <2>3. DOMAIN work' = DOMAIN work
      BY DEF Aside
    <2>4. ~raced => Settled(work, config)
      BY DEF HomeInv
    <2> QED
      BY <2>1, <2>2, <2>3, <2>4, SettledStays
  <1>5. FileOK(config, nodeKey)' /\ raced' \in BOOLEAN
    BY <1>1 DEF HomeInv, FileOK
  <1>6. (\A j \in Jobs : OpenOK(work[j], config, nodeKey))'
    BY <1>1, <1>3 DEF OpenOK
  <1>7. ~raced' => /\ (\A j, k \in Jobs : Writing(j) /\ Writing(k) => j = k)'
                   /\ (\A j \in Jobs : QuietOK(work[j], config, nodeKey))'
                   /\ Settled(work, config)'
    <2> SUFFICES ASSUME ~raced
                 PROVE  /\ \A j, k \in Jobs : Writing(j)' /\ Writing(k)' => j = k
                        /\ \A j \in Jobs : QuietOK(work'[j], config, nodeKey)
                        /\ Settled(work', config)
      BY <1>1 DEF QuietOK, Settled, SetIn
    <2> QED
      BY <1>3, <1>4 DEF HomeInv
  <1> QED
    BY <1>5, <1>6, <1>7 DEF HomeInv

\* What the job that moves must show.
LEMMA MovesHome ==
    ASSUME WorkInv, HomeInv, NEW j \in Jobs, OneMoves(j),
           FileOK(config', nodeKey'), raced' \in BOOLEAN,
           \A k \in Jobs : k # j => OpenOK(work[k], config', nodeKey'),
           OpenOK(work'[j], config', nodeKey'),
           ~raced' => /\ Writing(j)' => \A k \in Jobs : k # j => ~Writing(k)
                      /\ ~raced /\ QuietOK(work'[j], config', nodeKey')
                      /\ \A k \in Jobs : k # j => QuietOK(work[k], config', nodeKey')
                      /\ Settled(work', config')
    PROVE  HomeInv'
  <1>1. Jobs' = Jobs /\ \A k \in Jobs : k # j => work'[k] = work[k] /\ (Writing(k)' <=> Writing(k))
    BY DEF OneMoves, Jobs, Writing, Opens
  <1>2. (\A k \in Jobs : OpenOK(work[k], config, nodeKey))'
    BY <1>1 DEF OpenOK
  <1>3. ~raced' => /\ (\A k, l \in Jobs : Writing(k) /\ Writing(l) => k = l)'
                   /\ (\A k \in Jobs : QuietOK(work[k], config, nodeKey))'
                   /\ Settled(work, config)'
    <2> SUFFICES ASSUME ~raced'
                 PROVE  /\ \A k, l \in Jobs : Writing(k)' /\ Writing(l)' => k = l
                        /\ \A k \in Jobs : QuietOK(work'[k], config', nodeKey')
                        /\ Settled(work', config')
      BY <1>1 DEF QuietOK, Settled, SetIn
    <2>1. \A k, l \in Jobs : Writing(k) /\ Writing(l) => k = l
      BY DEF HomeInv
    <2> QED
      BY <1>1, <2>1
  <1>4. FileOK(config, nodeKey)'
    BY DEF FileOK
  <1> QED
    BY <1>2, <1>3, <1>4 DEF HomeInv

\* A step that only reads the home's files.
LEMMA ReadsHome ==
    ASSUME WorkInv, HomeInv, NEW j \in Jobs, OneMoves(j), UNCHANGED <<config, nodeKey>>,
           Race(j) \/ (raced' = raced /\ work'[j].at \notin {"key", "config", "store"}),
           OpenOK(work'[j], config, nodeKey), ~raced => QuietOK(work'[j], config, nodeKey),
           work[j].at # "done", work[j].kind = "set_default" => work'[j].at # "done"
    PROVE  HomeInv'
  <1>1. FileOK(config', nodeKey') /\ raced' \in BOOLEAN /\ (~raced' => ~raced)
    BY DEF HomeInv, Race
  <1>2. Writing(j)' => work'[j].at \in {"key", "config", "store"}
    BY DEF Writing
  <1>3. ~raced' /\ Writing(j)' => \A k \in Jobs : k # j => ~Writing(k)
    BY <1>2 DEF Race
  <1>4. \A k \in Jobs : OpenOK(work[k], config', nodeKey')
    BY DEF HomeInv
  <1>5. ~raced => \A k \in Jobs : QuietOK(work[k], config', nodeKey')
    BY DEF HomeInv
  <1>6. ~raced => Settled(work', config')
    <2>1. DOMAIN work' = DOMAIN work /\ \A k \in DOMAIN work : Later(work[k], work'[k])
      BY SameIsLater DEF OneMoves, Jobs
    <2>2. \A k \in DOMAIN work : work[k].kind = "set_default" =>
                                    (work'[k].at = "done" <=> work[k].at = "done")
      BY DEF OneMoves, Jobs
    <2>3. ~raced => Settled(work, config)
      BY DEF HomeInv
    <2> QED
      BY <2>1, <2>2, <2>3, SettledStays
  <1>7. OpenOK(work'[j], config', nodeKey') /\ (~raced => QuietOK(work'[j], config', nodeKey'))
    OBVIOUS
  <1> QED
    BY <1>1, <1>3, <1>4, <1>5, <1>6, <1>7, MovesHome

\* The home invariant, action by action: a command looks for node.json, ...
LEMMA OpenOrCreateHome ==
    ASSUME WorkInv, HomeInv, NEW j \in Jobs, OpenOrCreate(j)
    PROVE  HomeInv'
  <1>1. /\ Shape(work[j]) /\ work[j].kind \in {"serve", "set_default"} /\ work[j].at = "start"
        /\ Goto(j, IF config.exists THEN "opened" ELSE "create")
        /\ UNCHANGED <<config, nodeKey, raced>>
    BY DEF WorkInv, OpenOrCreate, Opens, home
  <1>2. OneMoves(j) /\ work'[j].at = IF config.exists THEN "opened" ELSE "create"
    BY <1>1, GotoMoves
  <1>3. OpenOK(work'[j], config, nodeKey) /\ QuietOK(work'[j], config, nodeKey)
    BY <1>2 DEF OpenOK, QuietOK
  <1> QED
    BY <1>1, <1>2, <1>3, ReadsHome

\* ... looks again before it creates one, ...
LEMMA CheckHomeHome ==
    ASSUME WorkInv, HomeInv, NEW j \in Jobs, CheckHome(j)
    PROVE  HomeInv'
  <1>1. /\ Shape(work[j]) /\ work[j].kind \in {"serve", "set_default"} /\ work[j].at = "create"
        /\ Goto(j, IF config.exists THEN "home_exists" ELSE "key")
        /\ UNCHANGED <<config, nodeKey>> /\ Race(j)
    BY DEF WorkInv, CheckHome, Opens, HomeOrder
  <1>2. OneMoves(j) /\ work'[j].at = IF config.exists THEN "home_exists" ELSE "key"
    BY <1>1, GotoMoves
  <1>3. OpenOK(work'[j], config, nodeKey) /\ QuietOK(work'[j], config, nodeKey)
    BY <1>2 DEF OpenOK, QuietOK
  <1> QED
    BY <1>1, <1>2, <1>3, ReadsHome

\* ... a node loads its settings and its key and binds its port, ...
LEMMA StartNodeHome ==
    ASSUME WorkInv, HomeInv, NEW j \in Jobs, StartNode(j)
    PROVE  HomeInv'
  <1>1. /\ Shape(work[j]) /\ work[j].kind = "serve"
        /\ OpenOK(work[j], config, nodeKey) /\ (~raced => QuietOK(work[j], config, nodeKey))
    BY DEF WorkInv, HomeInv, StartNode, LoadConfig, LoadKey, BindHttp, Is
  <1>2. UNCHANGED <<config, nodeKey, raced>>
    BY DEF StartNode, LoadConfig, LoadKey, BindHttp, home
  <1>3. CASE LoadConfig(j)
    <2>1. work[j].at = "opened"
      BY <1>3 DEF LoadConfig, Is
    <2>2. OneMoves(j) /\ work'[j].at = IF Loads(config.witnesses) THEN "secret" ELSE "malformed"
      BY <1>1, <1>3, LoadConfigMoves
    <2>3. OpenOK(work'[j], config, nodeKey) /\ QuietOK(work'[j], config, nodeKey)
      BY <1>1, <2>1, <2>2 DEF OpenOK, QuietOK
    <2> QED
      BY <1>1, <1>2, <2>1, <2>2, <2>3, ReadsHome
  <1>4. CASE LoadKey(j)
    <2>1. work[j].at = "secret"
      BY <1>4 DEF LoadKey, Is
    <2>2. OneMoves(j) /\ IF nodeKey = 0 THEN work'[j].at = "failed"
                         ELSE work'[j].at = "peers" /\ work'[j].key = nodeKey
      BY <1>1, <1>4, LoadKeyMoves
    <2>3. work'[j].kind = "serve"
      BY <1>1, <2>2 DEF OneMoves, Later
    <2>4. OpenOK(work'[j], config, nodeKey) /\ QuietOK(work'[j], config, nodeKey)
      BY <1>1, <2>1, <2>2, <2>3 DEF OpenOK, QuietOK
    <2> QED
      BY <1>1, <1>2, <2>1, <2>2, <2>3, <2>4, ReadsHome
  <1>5. CASE BindHttp(j)
    <2>1. work[j].at = "peers" /\ (Goto(j, "failed") \/ Goto(j, "serving"))
      BY <1>5 DEF BindHttp, Is
    <2>2. OneMoves(j) /\ SameRest(work[j], work'[j]) /\ work'[j].at \in {"failed", "serving"}
      BY <1>1, <2>1, GotoMoves
    <2>3. work'[j].kind = "serve" /\ work'[j].key = work[j].key
      BY <1>1, <2>2 DEF OneMoves, Later, SameRest
    <2>4. OpenOK(work'[j], config, nodeKey) /\ (~raced => QuietOK(work'[j], config, nodeKey))
      BY <1>1, <2>1, <2>2, <2>3 DEF OpenOK, QuietOK
    <2> QED
      BY <1>1, <1>2, <2>1, <2>2, <2>3, <2>4, ReadsHome
  <1> QED
    BY <1>3, <1>4, <1>5 DEF StartNode

\* ... and closes; ...
LEMMA StopHome ==
    ASSUME WorkInv, HomeInv, NEW j \in Jobs, StopHttp(j) \/ StopPeers(j)
    PROVE  HomeInv'
  <1>1. /\ Shape(work[j]) /\ work[j].kind = "serve" /\ UNCHANGED <<config, nodeKey, raced>>
        /\ OpenOK(work[j], config, nodeKey) /\ (~raced => QuietOK(work[j], config, nodeKey))
        /\ work[j].at \in {"serving", "closing"} /\ (Goto(j, "closing") \/ Goto(j, "done"))
    BY DEF WorkInv, HomeInv, StopHttp, StopPeers, Is, home
  <1>2. OneMoves(j) /\ SameRest(work[j], work'[j]) /\ work'[j].at \in {"closing", "done"}
    BY <1>1, GotoMoves
  <1>3. work'[j].kind = "serve" /\ work'[j].key = work[j].key
    BY <1>1, <1>2 DEF OneMoves, Later, SameRest
  <1>4. OpenOK(work'[j], config, nodeKey) /\ (~raced => QuietOK(work'[j], config, nodeKey))
    BY <1>1, <1>2, <1>3 DEF OpenOK, QuietOK
  <1> QED
    BY <1>1, <1>2, <1>3, <1>4, ReadsHome

\* ... set-default checks that the witness can be reached, ...
LEMMA CheckReachableHome ==
    ASSUME WorkInv, HomeInv, NEW j \in Jobs, CheckReachable(j)
    PROVE  HomeInv'
  <1>1. /\ Shape(work[j]) /\ work[j].kind = "set_default" /\ work[j].at = "opened"
        /\ UNCHANGED <<config, nodeKey, raced>> /\ OpenOK(work[j], config, nodeKey)
        /\ Goto(j, "malformed") \/ Goto(j, "unresolvable") \/ Goto(j, "load")
    BY DEF WorkInv, HomeInv, CheckReachable, Is, home
  <1>2. OneMoves(j) /\ work'[j].at \in {"malformed", "unresolvable", "load"}
    BY <1>1, GotoMoves
  <1>3. OpenOK(work'[j], config, nodeKey) /\ QuietOK(work'[j], config, nodeKey)
    BY <1>1, <1>2 DEF OpenOK, QuietOK
  <1> QED
    BY <1>1, <1>2, <1>3, ReadsHome

\* ... and reads node.json again.
LEMMA ReadConfigHome ==
    ASSUME WorkInv, HomeInv, NEW j \in Jobs, ReadConfig(j)
    PROVE  HomeInv'
  <1>1. /\ Shape(work[j]) /\ work[j].kind = "set_default" /\ work[j].at = "load"
        /\ UNCHANGED <<config, nodeKey>> /\ Race(j) /\ OpenOK(work[j], config, nodeKey)
        /\ WellFormed(config.witnesses)
    BY DEF WorkInv, HomeInv, FileOK, ReadConfig, Is
  <1>2. /\ OneMoves(j)
        /\ IF Loads(config.witnesses)
           THEN work'[j].seen = Loaded(config.witnesses) /\ work'[j].at = "store"
           ELSE work'[j].at = "malformed"
    BY <1>1, ReadConfigMoves
  <1>3. /\ WellFormed(Loaded(config.witnesses))
        /\ Loads(config.witnesses) => Loads(Loaded(config.witnesses))
    BY <1>1, LoadedFacts
  <1>4. OpenOK(work'[j], config, nodeKey) /\ QuietOK(work'[j], config, nodeKey)
    BY <1>1, <1>2, <1>3 DEF OpenOK, QuietOK
  <1>5. work'[j].at # "done"
    BY <1>2
  <1> QED
    BY <1>1, <1>2, <1>4, <1>5, ReadsHome

\* A fresh key and the defaults are written, the key first.
LEMMA WriteHomeFileHome ==
    ASSUME WorkInv, HomeInv, NEW j \in Jobs, WriteHomeFile(j)
    PROVE  HomeInv'
  <1>1. /\ Shape(work[j]) /\ work[j].kind \in {"serve", "set_default"} /\ Race(j)
        /\ \/ /\ work[j].at = "key" /\ nodeKey' = j /\ config' = config /\ Goto(j, "config")
           \/ /\ work[j].at = "config" /\ config' = [exists |-> TRUE, witnesses |-> <<>>]
              /\ nodeKey' = nodeKey /\ Goto(j, "opened")
    <2>1. PICK n \in DOMAIN HomeOrder :
            /\ Opens(j) /\ work[j].at = HomeOrder[n]
            /\ IF HomeOrder[n] = "key"
               THEN nodeKey' = j /\ UNCHANGED config
               ELSE config' = [exists |-> TRUE, witnesses |-> <<>>] /\ UNCHANGED nodeKey
            /\ Goto(j, IF n = Len(HomeOrder) THEN "opened" ELSE HomeOrder[n + 1])
            /\ Race(j)
      BY DEF WriteHomeFile
    <2>2. /\ HomeOrder = <<"key", "config">> /\ Len(HomeOrder) = 2
          /\ n \in {1, 2} /\ HomeOrder[1] = "key" /\ HomeOrder[2] = "config"
      BY DEF HomeOrder
    <2>3. CASE n = 1
      BY <2>1, <2>2, <2>3 DEF WorkInv, Opens
    <2>4. CASE n = 2
      BY <2>1, <2>2, <2>4 DEF WorkInv, Opens
    <2> QED
      BY <2>2, <2>3, <2>4
  <1>2. OneMoves(j) /\ work'[j].at \in {"config", "opened"}
    BY <1>1, GotoMoves
  <1>3. raced' \in BOOLEAN /\ (~raced' => ~raced /\ \A k \in Jobs : k # j => ~Writing(k))
    BY <1>1 DEF Race, HomeInv
  <1>4. ~raced => ~config.exists
    BY <1>1 DEF HomeInv, QuietOK
  <1>5. \A k \in Jobs : OpenOK(work[k], config, nodeKey) /\ (~raced => QuietOK(work[k], config, nodeKey))
    BY DEF HomeInv
  <1>6. ~raced' => Settled(work', config')
    <2> SUFFICES ASSUME ~raced', NEW k \in Jobs, work'[k].kind = "set_default", work'[k].at = "done"
                 PROVE  FALSE
      BY <1>2 DEF Settled, OneMoves, Jobs
    <2>1. k # j /\ work[k].kind = "set_default" /\ work[k].at = "done"
      BY <1>2 DEF OneMoves
    <2> QED
      BY <1>3, <1>4, <1>5, <2>1 DEF OpenOK
  <1>7. CASE /\ work[j].at = "key" /\ nodeKey' = j /\ config' = config /\ Goto(j, "config")
    <2>1. nodeKey' # 0
      BY <1>7 DEF WorkInv
    <2>2. FileOK(config', nodeKey')
      BY <1>7, <2>1 DEF HomeInv, FileOK
    <2>3. \A k \in Jobs : OpenOK(work[k], config', nodeKey')
      BY <1>5, <1>7, <2>1 DEF OpenOK
    <2>4. work'[j].at = "config"
      BY <1>1, <1>7, GotoMoves
    <2>5. OpenOK(work'[j], config', nodeKey')
      BY <2>1, <2>4 DEF OpenOK
    <2>6. ~raced => QuietOK(work'[j], config', nodeKey')
      BY <1>4, <1>7, <2>4 DEF QuietOK
    <2>7. ~raced => \A k \in Jobs : QuietOK(work[k], config', nodeKey')
      <3>1. ~raced => \A k \in Jobs : work[k].kind \in {"serve", "set_default"} =>
                                         work[k].at \notin {"peers", "serving", "closing"}
        BY <1>4, <1>5 DEF OpenOK
      <3> QED
        BY <1>5, <1>7, <3>1 DEF QuietOK
    <2> QED
      BY <1>2, <1>3, <1>6, <2>2, <2>3, <2>5, <2>6, <2>7, MovesHome
  <1>8. CASE /\ work[j].at = "config" /\ config' = [exists |-> TRUE, witnesses |-> <<>>]
             /\ nodeKey' = nodeKey /\ Goto(j, "opened")
    <2>1. nodeKey # 0
      BY <1>1, <1>5, <1>8 DEF OpenOK
    <2>2. config'.exists = TRUE /\ config'.witnesses = <<>>
      BY <1>8
    <2>3. WellFormed(<<>>) /\ Loads(<<>>)
      <3>1. <<>> \in Seq(Range(<<>>)) /\ DOMAIN <<>> = {}
        OBVIOUS
      <3> QED
        BY <3>1 DEF WellFormed, Loads
    <2>4. FileOK(config', nodeKey')
      BY <1>8, <2>1, <2>2, <2>3 DEF FileOK
    <2>5. \A k \in Jobs : OpenOK(work[k], config', nodeKey')
      BY <1>5, <1>8, <2>1, <2>2, <2>3 DEF OpenOK
    <2>6. work'[j].at = "opened"
      BY <1>1, <1>8, GotoMoves
    <2>7. OpenOK(work'[j], config', nodeKey') /\ QuietOK(work'[j], config', nodeKey')
      BY <2>2, <2>6 DEF OpenOK, QuietOK
    <2>8. ~raced' => \A k \in Jobs : k # j => QuietOK(work[k], config', nodeKey')
      BY <1>3, <1>5, <1>8 DEF QuietOK, Writing, Opens
    <2> QED
      BY <1>2, <1>3, <1>6, <2>4, <2>5, <2>7, <2>8, MovesHome
  <1> QED
    BY <1>1, <1>7, <1>8

\* set-default writes node.json: the witness is set, and those set before stay.
LEMMA WriteConfigHome ==
    ASSUME WorkInv, HomeInv, NEW j \in Jobs, WriteConfig(j)
    PROVE  HomeInv'
  <1> DEFINE o == work[j]
             w == o.witness
             eps == IF Given(o) = <<>> THEN WitnessEndpoints(o.seen, w) ELSE Given(o)
             new == Configured(o.seen, Witness(w, eps))
  <1>1. /\ Shape(o) /\ Inputs(o) /\ o.kind = "set_default" /\ o.at = "store"
        /\ config' = [exists |-> TRUE, witnesses |-> new] /\ nodeKey' = nodeKey
        /\ Goto(j, "done") /\ Race(j)
    BY DEF WorkInv, WriteConfig, Is
  <1>2. config'.exists = TRUE /\ config'.witnesses = new
    BY <1>1
  <1>3. OneMoves(j) /\ work'[j].at = "done"
    BY <1>1, GotoMoves
  <1>4. /\ work'[j].kind = "set_default" /\ work'[j].witness = w /\ work'[j].given = o.given
        /\ Given(work'[j]) = Given(o)
    BY <1>1, <1>3 DEF OneMoves, Later, Given
  <1>5. raced' \in BOOLEAN /\ (~raced' => ~raced /\ \A k \in Jobs : k # j => ~Writing(k))
    BY <1>1 DEF Race, HomeInv
  <1>6. \A k \in Jobs : OpenOK(work[k], config, nodeKey) /\ (~raced => QuietOK(work[k], config, nodeKey))
    BY DEF HomeInv
  <1>7. /\ config.exists /\ WellFormed(o.seen) /\ Loads(o.seen)
        /\ ~raced => o.seen = Loaded(config.witnesses)
    BY <1>1, <1>6 DEF OpenOK, QuietOK
  <1>8. nodeKey # 0 /\ WellFormed(config.witnesses)
    BY <1>7 DEF HomeInv, FileOK
  <1>9. IsInjective(Given(o)) /\ (Given(o) = <<>> <=> o.given = <<>>)
    BY <1>1, GivenFacts DEF Inputs
  <1>10. IsInjective(eps)
    BY <1>7, <1>9, WitnessEndpointsFacts
  <1> HIDE DEF eps
  <1>11. /\ WellFormed(new) /\ Loads(new) /\ DOMAIN o.seen \subseteq DOMAIN new
         /\ \E n \in Named(new, w) : new[n].endpoints = eps
         /\ \A n \in DOMAIN o.seen : /\ new[n].witness = o.seen[n].witness
                                     /\ o.seen[n].witness # w => new[n].endpoints = o.seen[n].endpoints
    <2>1. SetsOne(o.seen, w, eps, new)
      BY <1>7, <1>10, ConfiguredFacts
    <2> HIDE DEF new
    <2> QED
      BY <2>1 DEF SetsOne
  <1> HIDE DEF new
  <1>12. FileOK(config', nodeKey')
    BY <1>1, <1>2, <1>8, <1>11 DEF FileOK
  <1>13. \A k \in Jobs : OpenOK(work[k], config', nodeKey')
    BY <1>1, <1>2, <1>6, <1>11 DEF OpenOK
  <1>14. OpenOK(work'[j], config', nodeKey') /\ QuietOK(work'[j], config', nodeKey')
    BY <1>2, <1>3, <1>11 DEF OpenOK, QuietOK
  <1>15. ~raced' => \A k \in Jobs : k # j => QuietOK(work[k], config', nodeKey')
    BY <1>1, <1>5, <1>6 DEF QuietOK, Writing, Opens
  <1>16. ASSUME ~raced'
         PROVE  Settled(work', config')
    <2>0. ~raced /\ o.seen = Loaded(config.witnesses) /\ Settled(work, config)
      BY <1>5, <1>7, <1>16 DEF HomeInv
    <2> DEFINE old == config.witnesses
    <2>1. /\ DOMAIN o.seen = DOMAIN old
          /\ \A n \in DOMAIN old : o.seen[n].witness = old[n].witness /\ o.seen[n].endpoints = old[n].endpoints
      BY <1>8, <2>0, LoadedFacts
    <2>2. \A m, n \in Named(new, w) : m = n
      BY <1>11 DEF Loads, Named
    <2>3. \A n \in Named(new, w) : new[n].endpoints = eps
      BY <1>11, <2>2
    <2>4. DOMAIN work' = DOMAIN work /\ j \in DOMAIN work'
      BY <1>3 DEF OneMoves, Jobs
    <2>5. SetIn(work'[j], config', work')
      <3>1. PICK n \in Named(new, w) : new[n].endpoints = eps
        BY <1>11
      <3>2. o.given # <<>> => eps = Given(work'[j])
        BY <1>4, <1>9 DEF eps
      <3> QED
        BY <1>2, <1>3, <1>4, <2>4, <3>1, <3>2 DEF SetIn
    <2>6. ASSUME NEW k \in Jobs, k # j, work[k].kind = "set_default", work[k].at = "done"
          PROVE  SetIn(work[k], config', work')
      <3>1. SetIn(work[k], config, work)
        BY <2>0, <2>6 DEF Settled, Jobs
      <3>2. PICK n \in Named(old, work[k].witness) :
              \/ work[k].given = <<>>
              \/ \E i \in DOMAIN work : /\ work[i].kind = "set_default" /\ work[i].at = "done"
                                        /\ work[i].witness = work[k].witness /\ work[i].given # <<>>
                                        /\ old[n].endpoints = Given(work[i])
        BY <3>1 DEF SetIn
      <3>3. n \in Named(new, work[k].witness) /\ n \in DOMAIN old
        BY <1>11, <2>1, <3>2 DEF Named
      <3>4. CASE work[k].given = <<>>
        BY <1>2, <3>3, <3>4 DEF SetIn
      <3>5. ASSUME NEW i \in DOMAIN work, work[i].kind = "set_default", work[i].at = "done",
                   work[i].witness = work[k].witness, work[i].given # <<>>,
                   old[n].endpoints = Given(work[i])
            PROVE  SetIn(work[k], config', work')
        <4>1. i # j /\ work'[i] = work[i] /\ i \in DOMAIN work'
          BY <1>1, <1>3, <2>4, <3>5 DEF OneMoves, Jobs
        <4>2. CASE work[k].witness = w /\ o.given # <<>>
          <5>1. new[n].endpoints = Given(work'[j])
            BY <1>4, <1>9, <2>3, <3>3, <4>2 DEF eps
          <5> QED
            BY <1>2, <1>3, <1>4, <2>4, <3>3, <4>2, <5>1 DEF SetIn
        <4>3. CASE ~(work[k].witness = w /\ o.given # <<>>)
          <5>1. new[n].endpoints = old[n].endpoints
            <6>1. CASE work[k].witness # w
              BY <1>11, <2>1, <3>2, <3>3, <6>1 DEF Named
            <6>2. CASE work[k].witness = w /\ o.given = <<>>
              <7>1. n \in Named(o.seen, w)
                BY <2>1, <3>2, <6>2 DEF Named
              <7>2. eps = o.seen[n].endpoints
                BY <1>7, <1>9, <6>2, <7>1, WitnessEndpointsFacts DEF eps
              <7> QED
                BY <2>1, <2>3, <3>3, <6>2, <7>2
            <6> QED
              BY <4>3, <6>1, <6>2
          <5> QED
            BY <1>2, <3>3, <3>5, <4>1, <5>1 DEF SetIn
        <4> QED
          BY <4>2, <4>3
      <3> QED
        BY <3>2, <3>4, <3>5
    <2>7. ASSUME NEW k \in DOMAIN work', work'[k].kind = "set_default", work'[k].at = "done"
          PROVE  SetIn(work'[k], config', work')
      <3>1. CASE k = j
        BY <2>5, <3>1
      <3>2. CASE k # j
        <4>1. k \in Jobs /\ work'[k] = work[k]
          BY <1>3, <2>4, <3>2 DEF OneMoves, Jobs
        <4> QED
          BY <2>6, <2>7, <3>2, <4>1
      <3> QED
        BY <3>1, <3>2
    <2> QED
      BY <2>7 DEF Settled
  <1>17. Writing(j)' => FALSE
    BY <1>3 DEF Writing
  <1> QED
    BY <1>3, <1>5, <1>12, <1>13, <1>14, <1>15, <1>16, <1>17, MovesHome

\* The invariant of the home is inductive.
LEMMA StepHome ==
    ASSUME WorkInv, HomeInv, [Next]_vars
    PROVE  HomeInv'
  <1>1. ASSUME NEW j \in Jobs, HomeStep(j)
        PROVE  HomeInv'
    BY <1>1, OpenOrCreateHome, CheckHomeHome, WriteHomeFileHome, StartNodeHome, StopHome,
       CheckReachableHome, ReadConfigHome, WriteConfigHome DEF HomeStep
  <1>2. ASSUME NEW j \in Jobs, OneMoves(j),
               \/ CrawlStep(j) /\ work[j].kind \in {"sync", "lookup"}
               \/ HintStep(j) /\ work[j].kind = "hint"
               \/ BindStep(j) /\ work[j].kind = "bind"
               \/ CreateStep(j) /\ work[j].kind = "create"
        PROVE  HomeInv'
    <2>1. Aside({"serve", "set_default"})
      BY <1>2, OneMovesAside
    <2>2. UNCHANGED home
      BY <1>2 DEF CrawlStep, MakeGeneration, WriteFile, WriteFails, SetCurrent, CollectList,
         CollectStep, ReadPointer, ReadSummary, ListNodes, ReadNode, GraphOnly,
         HintStep, ReadPeers, WritePeers, HintsOnly, BindStep, ReadBindings,
         RecordBindings, BindOnly, CreateStep, CheckAlias, WriteNext, WriteMeta, CreateOnly
    <2> QED
      BY <2>1, <2>2, AsideHome
  <1>3. CASE \E p : Crash(p)
    <2>1. UNCHANGED home
      BY <1>3 DEF Crash, files, home
    <2> QED
      BY <1>3, <2>1, CrashAside, AsideHome
  <1>4. CASE UNCHANGED vars
    BY <1>4, StutterAside, AsideHome DEF vars, files, home
  <1> QED
    BY <1>1, <1>2, <1>3, <1>4, NextSteps

\* HomeHolds: node.json never stands without its key, a node that answers peers
\* does so under the key of the home, and a witness that was set stays set and
\* loads again, wherever commands stop, unless two of them wrote the home's
\* own files at once (NodeHome::create, NodeRuntime::start, witness set_default).
THEOREM HomeTheorem == Spec => []HomeHolds
  <1>1. Init => WorkInv /\ HomeInv
    BY InitWork, InitHome
  <1>2. WorkInv /\ HomeInv /\ [Next]_vars => (WorkInv /\ HomeInv)'
    BY StepWork, StepHome
  <1>3. WorkInv /\ HomeInv => HomeHolds
    <2> SUFFICES ASSUME WorkInv, HomeInv
                 PROVE  HomeHolds
      OBVIOUS
    <2>1. HomeIsOneNode
      BY DEF HomeInv, FileOK, QuietOK, HomeIsOneNode, Reachable
    <2>2. (\E j \in Jobs : Is(j, "set_default", "done")) => Loads(config.witnesses)
      BY DEF HomeInv, OpenOK, Is
    <2>3. ASSUME ~raced, NEW j \in Jobs, Is(j, "set_default", "done")
          PROVE  \E n \in Named(config.witnesses, work[j].witness) :
                     \/ work[j].given = <<>>
                     \/ \E k \in Jobs : /\ Is(k, "set_default", "done") /\ work[k].witness = work[j].witness
                                        /\ work[k].given # <<>>
                                        /\ config.witnesses[n].endpoints = Given(work[k])
      <3>1. SetIn(work[j], config, work)
        BY <2>3 DEF HomeInv, Settled, Is, Jobs
      <3> QED
        BY <3>1 DEF SetIn, Is, Jobs
    <2> QED
      BY <2>1, <2>2, <2>3 DEF HomeHolds, SettingsStay
  <1> QED
    BY <1>1, <1>2, <1>3, PTL DEF Spec

-----------------------------------------------------------------------------
(* The bindings.  What a job read is a record of one chain too, whatever   *)
(* was written since.                                                      *)

OneChain(r) ==
    /\ \A b \in r.entries : b.endpoint # b.source /\ b.seq \in Nat
    /\ \A b, c \in r.entries : b.seq = c.seq /\ b.event = c.event
    /\ r.exists \in BOOLEAN /\ (~r.exists => r.entries = {})

BindInv ==
    OneChain(bindings) /\ \A j \in Jobs : work[j].kind = "bind" => OneChain(work[j].seen)

\* Applying an observation to a record of one chain gives one.
LEMMA ApplyKeeps ==
    ASSUME NEW r, OneChain(r), NEW o, o.mayBind = TRUE, o.seq \in Nat
    PROVE  \A x \in Apply(r, o) : OneChain(x)
  <1> DEFINE recorded == Max({b.seq : b \in r.entries})
             replaced == [exists |-> TRUE, entries |-> Entries(o)]
             kept == {b \in r.entries : b.endpoint \notin Vouched(o)}
             merged == [exists |-> TRUE, entries |-> kept \cup Entries(o)]
  <1>1. \A b \in Entries(o) : b.endpoint # b.source /\ b.seq = o.seq /\ b.event = o.event
    BY DEF Entries, Entry, Vouched
  <1>2. OneChain(replaced)
    <2>1. replaced.exists = TRUE /\ replaced.entries = Entries(o)
      OBVIOUS
    <2> HIDE DEF replaced
    <2> QED
      BY <1>1, <2>1 DEF OneChain
  <1>3. OneChain(NoBindings)
    BY DEF OneChain, NoBindings
  <1>4. ASSUME r.entries # {}
        PROVE  \A b \in r.entries : b.seq = recorded
    <2>1. PICK b \in r.entries : TRUE
      BY <1>4
    <2>2. {c.seq : c \in r.entries} = {b.seq} /\ b.seq \in Nat
      BY <2>1 DEF OneChain
    <2>3. Max({b.seq}) = b.seq
      BY <2>2 DEF Max
    <2> QED
      BY <2>1, <2>2, <2>3 DEF OneChain
  <1> HIDE DEF recorded
  <1>5. ASSUME r.entries # {}, o.seq = recorded, ~Divergent(r, o)
        PROVE  OneChain(merged)
    <2>1. \A b \in r.entries : b.seq = o.seq /\ b.event = o.event /\ b.endpoint # b.source
      BY <1>4, <1>5 DEF Divergent, OneChain
    <2>2. merged.exists = TRUE /\ merged.entries = kept \cup Entries(o)
      OBVIOUS
    <2> HIDE DEF merged
    <2> QED
      BY <1>1, <2>1, <2>2 DEF OneChain
  <1>6. recorded \in Nat \/ r.entries = {}
    BY <1>4 DEF OneChain
  <1> HIDE DEF replaced, merged
  <1>7. Apply(r, o) = IF ~r.exists \/ r.entries = {}
                      THEN IF Vouched(o) = {} THEN {} ELSE {replaced}
                      ELSE IF o.seq < recorded THEN {}
                      ELSE IF o.seq > recorded THEN {replaced}
                      ELSE IF Divergent(r, o) THEN {NoBindings}
                      ELSE IF Vouched(o) = {} THEN {}
                      ELSE {merged}
    BY DEF Apply, recorded, replaced, merged
  <1>8. ~(r.entries = {}) /\ ~(o.seq < recorded) /\ ~(o.seq > recorded) => o.seq = recorded
    BY <1>6
  <1> QED
    BY <1>2, <1>3, <1>5, <1>7, <1>8

\* A home without bindings.
LEMMA InitBindings ==
    ASSUME Init
    PROVE  BindInv
  <1>1. bindings = NoBindings
    BY DEF Init
  <1>2. \A j \in Jobs : work[j].kind = "bind" => work[j].seen = NoBindings
    BY InitWork, OperationFacts
  <1>3. OneChain(NoBindings)
    BY DEF OneChain, NoBindings
  <1> QED
    BY <1>1, <1>2, <1>3 DEF BindInv

\* Steps that are not of a binder.
LEMMA AsideBindings ==
    ASSUME BindInv, Aside({"bind"}), UNCHANGED bindings
    PROVE  BindInv'
  <1>1. Jobs' = Jobs
    BY DEF Aside, Jobs
  <1>2. ASSUME NEW j \in Jobs, work'[j].kind = "bind"
        PROVE  OneChain(work'[j].seen)
    <2>1. work[j].kind = "bind" /\ work'[j].seen = work[j].seen
      BY <1>2 DEF Aside, Killed, Later, SameRest
    <2> QED
      BY <2>1 DEF BindInv
  <1>3. OneChain(bindings)'
    BY DEF BindInv, OneChain
  <1>4. (\A j \in Jobs : work[j].kind = "bind" => OneChain(work[j].seen))'
    BY <1>1, <1>2 DEF OneChain
  <1> QED
    BY <1>3, <1>4 DEF BindInv

\* A binder reads the record, and applies its observation to what it read.
LEMMA MovesBindings ==
    ASSUME WorkInv, BindInv, NEW j \in Jobs, BindStep(j)
    PROVE  BindInv'
  <1>1. /\ work[j].kind = "bind" /\ Shape(work[j]) /\ Inputs(work[j])
        /\ OneChain(work[j].seen) /\ OneChain(bindings)
    BY DEF BindStep, ReadBindings, RecordBindings, Is, WorkInv, BindInv
  <1>2. OneMoves(j) /\ OneChain(work'[j].seen) /\ OneChain(bindings')
    <2>1. CASE ReadBindings(j)
      <3>1. OneMoves(j) /\ work'[j].seen = bindings
        BY <1>1, <2>1, ReadBindingsMoves
      <3>2. bindings' = bindings
        BY <2>1 DEF ReadBindings
      <3> QED
        BY <1>1, <3>1, <3>2
    <2>2. CASE RecordBindings(j)
      <3>1. /\ Goto(j, "done")
            /\ bindings' \in Apply(work[j].seen, work[j]) \/ bindings' = bindings
        BY <2>2 DEF RecordBindings
      <3>2. OneMoves(j) /\ SameRest(work[j], work'[j])
        BY <1>1, <3>1, GotoMoves
      <3>3. work'[j].seen = work[j].seen
        BY <1>1, <3>2 DEF SameRest
      <3>4. \A x \in Apply(work[j].seen, work[j]) : OneChain(x)
        BY <1>1, ApplyKeeps DEF Inputs
      <3> QED
        BY <1>1, <3>1, <3>2, <3>3, <3>4
    <2> QED
      BY <2>1, <2>2 DEF BindStep
  <1>3. Jobs' = Jobs /\ \A k \in Jobs : k # j => work'[k] = work[k]
    BY <1>2 DEF OneMoves, Jobs
  <1>4. \A k \in Jobs : work'[k].kind = "bind" => OneChain(work'[k].seen)
    BY <1>2, <1>3 DEF BindInv
  <1> QED
    BY <1>2, <1>3, <1>4 DEF BindInv, OneChain

-----------------------------------------------------------------------------
(* The identities.  Files only come to be; each lands after those it needs.*)

Fields == {"active", "reserve", "event", "head", "provenance", "alias"}

MintOK(o, i) ==
    /\ i.event /\ o.raw => i.active /\ i.reserve
    /\ i.alias # NoAlias => i.event /\ i.head /\ i.provenance
    /\ ~o.raw => ~i.active /\ ~i.reserve
    /\ o.at \in {"active", "reserve"} => o.raw
    /\ o.at = "done" => i.alias = o.alias
    /\ o.at = "reserve" => i.active
    /\ o.at = "event" /\ o.raw => i.active /\ i.reserve
    /\ o.at = "head" => i.event
    /\ o.at = "provenance" => i.event /\ i.head
    /\ o.at = "meta" => i.event /\ i.head /\ i.provenance

MintInv ==
    /\ DOMAIN identities = NewIds /\ \A i \in NewIds : DOMAIN identities[i] = Fields
    /\ \A j \in Jobs : work[j].kind = "create" => MintOK(work[j], identities[work[j].id])

\* A home without identities.
LEMMA InitMints ==
    ASSUME Init
    PROVE  MintInv
  <1>1. identities = [i \in NewIds |-> NoFiles]
    BY DEF Init
  <1>2. DOMAIN identities = NewIds /\ \A i \in NewIds : identities[i] = NoFiles
    BY <1>1
  <1>3. /\ DOMAIN NoFiles = Fields /\ ~NoFiles.event /\ NoFiles.alias = NoAlias
        /\ ~NoFiles.active /\ ~NoFiles.reserve
    BY DEF NoFiles, Fields
  <1>4. ASSUME NEW j \in Jobs, work[j].kind = "create"
        PROVE  MintOK(work[j], identities[work[j].id])
    <2>1. work[j].at = "start" /\ work[j].id \in NewIds
      BY <1>4, InitWork, OperationFacts DEF Inputs
    <2> QED
      BY <1>2, <1>3, <2>1 DEF MintOK
  <1> QED
    BY <1>2, <1>3, <1>4 DEF MintInv

\* Steps that are not of a create.
LEMMA AsideMints ==
    ASSUME MintInv, Aside({"create"}), UNCHANGED identities
    PROVE  MintInv'
  <1>1. Jobs' = Jobs
    BY DEF Aside, Jobs
  <1>2. ASSUME NEW j \in Jobs, work'[j].kind = "create"
        PROVE  MintOK(work'[j], identities[work'[j].id])
    <2>1. work[j].kind = "create" /\ Later(work[j], work'[j])
      BY <1>2 DEF Aside, Later
    <2>2. MintOK(work[j], identities[work[j].id])
      BY <2>1 DEF MintInv
    <2>3. work'[j] = work[j] \/ work'[j].at = "dead"
      BY <2>1 DEF Aside, Killed
    <2>4. /\ work'[j].id = work[j].id /\ work'[j].raw = work[j].raw
          /\ work'[j].alias = work[j].alias
      BY <2>1 DEF Later
    <2> QED
      BY <2>2, <2>3, <2>4 DEF MintOK
  <1> QED
    BY <1>1, <1>2 DEF MintInv, MintOK

\* One file of the identity of one job lands.
LEMMA MovesMints ==
    ASSUME WorkInv, MintInv, NEW j \in Jobs, OneMoves(j), work[j].kind = "create",
           DOMAIN identities' = NewIds, \A i \in NewIds : DOMAIN identities'[i] = Fields,
           \A i \in NewIds : i # work[j].id => identities'[i] = identities[i],
           MintOK(work'[j], identities'[work[j].id])
    PROVE  MintInv'
  <1>1. Jobs' = Jobs /\ \A k \in Jobs : k # j => work'[k] = work[k]
    BY DEF OneMoves, Jobs
  <1>2. ASSUME NEW k \in Jobs, work'[k].kind = "create"
        PROVE  MintOK(work'[k], identities'[work'[k].id])
    <2>1. CASE k = j
      BY <2>1 DEF OneMoves, Later
    <2>2. CASE k # j
      <3>1. work'[k] = work[k] /\ work[k].kind = "create" /\ work[k].id \in NewIds
        BY <1>1, <1>2, <2>2 DEF WorkInv, Inputs
      <3>2. work[k].id # work[j].id
        BY <2>2, <3>1 DEF WorkInv, Twins
      <3> QED
        BY <3>1, <3>2 DEF MintInv
    <2> QED
      BY <2>1, <2>2
  <1> QED
    BY <1>1, <1>2 DEF MintInv, MintOK

Land(i, f, v) == [i EXCEPT ![f] = v]

\* One file more of an identity, ...
LEMMA Landing ==
    ASSUME NEW i, DOMAIN i = Fields, NEW f \in Fields, NEW v
    PROVE  /\ DOMAIN Land(i, f, v) = Fields /\ Land(i, f, v)[f] = v
           /\ \A g \in Fields : g # f => Land(i, f, v)[g] = i[g]
  BY DEF Land

LandTrue(i, f) == [i EXCEPT ![f] = TRUE]

\* ... which is there now, ...
LEMMA LandingTrue ==
    ASSUME NEW i, DOMAIN i = Fields, NEW f \in Fields
    PROVE  /\ DOMAIN LandTrue(i, f) = Fields /\ LandTrue(i, f)[f] = TRUE
           /\ \A g \in Fields : g # f => LandTrue(i, f)[g] = i[g]
  BY DEF LandTrue

\* ... the other identities as they were.
LEMMA LandMoves ==
    ASSUME MintInv, NEW id \in NewIds, NEW r, DOMAIN r = Fields,
           identities' = [identities EXCEPT ![id] = r]
    PROVE  /\ DOMAIN identities' = NewIds /\ \A i \in NewIds : DOMAIN identities'[i] = Fields
           /\ identities'[id] = r /\ \A i \in NewIds : i # id => identities'[i] = identities[i]
  BY DEF MintInv

\* The files of a new identity land in CreateOrder, so what each needs is there.
LEMMA WriteNextMints ==
    ASSUME WorkInv, MintInv, NEW j \in Jobs, WriteNext(j)
    PROVE  MintInv'
  <1> DEFINE id == work[j].id
             i == identities[id]
  <1>1. PICK n \in DOMAIN CreateOrder :
            /\ Is(j, "create", CreateOrder[n])
            /\ identities' = [identities EXCEPT ![id][CreateOrder[n]] = TRUE]
            /\ Goto(j, IF n = Len(CreateOrder) THEN "meta" ELSE CreateOrder[n + 1])
    BY DEF WriteNext
  <1>2. /\ Len(CreateOrder) = 5 /\ n \in 1 .. 5
        /\ CreateOrder[1] = "active" /\ CreateOrder[2] = "reserve" /\ CreateOrder[3] = "event"
        /\ CreateOrder[4] = "head" /\ CreateOrder[5] = "provenance"
    BY DEF CreateOrder
  <1> DEFINE f == CreateOrder[n]
             a == IF n = Len(CreateOrder) THEN "meta" ELSE CreateOrder[n + 1]
             r == LandTrue(i, f)
  <1>3. n \in {1, 2, 3, 4, 5}
    BY <1>2
  <1>4. \/ f = "active" /\ a = "reserve"
        \/ f = "reserve" /\ a = "event"
        \/ f = "event" /\ a = "head"
        \/ f = "head" /\ a = "provenance"
        \/ f = "provenance" /\ a = "meta"
    <2>1. CASE n = 1
      <3>1. n + 1 = 2 /\ (n = 5 <=> FALSE)
        BY <2>1
      <3> QED
        BY <1>2, <2>1, <3>1, Zenon
    <2>2. CASE n = 2
      <3>1. n + 1 = 3 /\ (n = 5 <=> FALSE)
        BY <2>2
      <3> QED
        BY <1>2, <2>2, <3>1, Zenon
    <2>3. CASE n = 3
      <3>1. n + 1 = 4 /\ (n = 5 <=> FALSE)
        BY <2>3
      <3> QED
        BY <1>2, <2>3, <3>1, Zenon
    <2>4. CASE n = 4
      <3>1. n + 1 = 5 /\ (n = 5 <=> FALSE)
        BY <2>4
      <3> QED
        BY <1>2, <2>4, <3>1, Zenon
    <2>5. CASE n = 5
      <3>1. n + 1 = 6 /\ (n = 5 <=> TRUE)
        BY <2>5
      <3> QED
        BY <1>2, <2>5, <3>1, Zenon
    <2> QED
      BY <1>3, <2>1, <2>2, <2>3, <2>4, <2>5
  <1>5. f \in Fields
    BY <1>4 DEF Fields
  <1>6. work[j].kind = "create" /\ work[j].at = f /\ Shape(work[j]) /\ Inputs(work[j]) /\ id \in NewIds
    BY <1>1 DEF Is, WorkInv, Inputs
  <1>7. identities' = [identities EXCEPT ![id] = r] /\ Goto(j, a)
    BY <1>1 DEF LandTrue
  <1> HIDE DEF f, a
  <1>8. DOMAIN i = Fields /\ MintOK(work[j], i)
    BY <1>6 DEF MintInv
  <1> HIDE DEF i
  <1>9. DOMAIN r = Fields /\ r[f] = TRUE /\ \A g \in Fields : g # f => r[g] = i[g]
    <2>1. DOMAIN i = Fields
      BY <1>8
    <2>2. DOMAIN r = Fields
      BY <1>5, <2>1, LandingTrue, Zenon
    <2>4. \A g \in Fields : g # f => r[g] = i[g]
      BY <1>5, <2>1 DEF LandTrue
    <2>3. r[f] = TRUE
      BY <1>5, <2>1, LandingTrue, Zenon
    <2> QED
      BY <2>2, <2>3, <2>4
  <1> HIDE DEF r
  <1>10. /\ DOMAIN identities' = NewIds /\ \A k \in NewIds : DOMAIN identities'[k] = Fields
         /\ identities'[id] = r /\ \A k \in NewIds : k # id => identities'[k] = identities[k]
    BY <1>6, <1>7, <1>9, LandMoves
  <1>11. OneMoves(j) /\ work'[j].at = a
    BY <1>6, <1>7, GotoMoves
  <1>12. work'[j].raw = work[j].raw /\ work[j].raw \in BOOLEAN
    BY <1>6, <1>11 DEF OneMoves, Later, Inputs
  <1>13. MintOK(work'[j], r)
    <2>1. CASE f = "active" /\ a = "reserve"
      BY <1>6, <1>8, <1>9, <1>11, <1>12, <2>1 DEF MintOK, Fields
    <2>2. CASE f = "reserve" /\ a = "event"
      BY <1>6, <1>8, <1>9, <1>11, <1>12, <2>2 DEF MintOK, Fields
    <2>3. CASE f = "event" /\ a = "head"
      BY <1>6, <1>8, <1>9, <1>11, <1>12, <2>3 DEF MintOK, Fields
    <2>4. CASE f = "head" /\ a = "provenance"
      BY <1>6, <1>8, <1>9, <1>11, <1>12, <2>4 DEF MintOK, Fields
    <2>5. CASE f = "provenance" /\ a = "meta"
      BY <1>6, <1>8, <1>9, <1>11, <1>12, <2>5 DEF MintOK, Fields
    <2> QED
      BY <1>4, <2>1, <2>2, <2>3, <2>4, <2>5
  <1> QED
    BY <1>6, <1>10, <1>11, <1>13, MovesMints

\* The invariant of the identities holds after every step of a create.
LEMMA StepCreateMints ==
    ASSUME WorkInv, MintInv, NEW j \in Jobs, CreateStep(j)
    PROVE  MintInv'
  <1>1. CASE CheckAlias(j)
    <2> DEFINE a == IF AliasCheck(work[j].alias) # "free" THEN AliasCheck(work[j].alias)
                    ELSE IF work[j].raw THEN CreateOrder[1] ELSE "event"
    <2>1. /\ work[j].kind = "create" /\ work[j].at = "start" /\ Shape(work[j]) /\ Inputs(work[j])
          /\ Goto(j, a) /\ identities' = identities
      BY <1>1 DEF CheckAlias, Is, WorkInv
    <2>2. \/ a \in {"unreadable", "in_use"} \/ (a = "active" /\ work[j].raw)
          \/ (a = "event" /\ ~work[j].raw)
      BY DEF AliasCheck, CreateOrder
    <2> HIDE DEF a
    <2>3. OneMoves(j) /\ work'[j].at = a
      BY <2>1, GotoMoves
    <2>4. work'[j].raw = work[j].raw /\ work[j].id \in NewIds
      BY <2>1, <2>3 DEF OneMoves, Later, Inputs
    <2>5. MintOK(work'[j], identities'[work[j].id])
      BY <2>1, <2>2, <2>3, <2>4 DEF MintInv, MintOK
    <2>6. DOMAIN identities' = NewIds /\ \A i \in NewIds : DOMAIN identities'[i] = Fields
      BY <2>1 DEF MintInv
    <2> QED
      BY <2>1, <2>3, <2>5, <2>6, MovesMints
  <1>2. CASE WriteMeta(j)
    <2> DEFINE id == work[j].id
               r == Land(identities[id], "alias", work[j].alias)
    <2>1. /\ work[j].kind = "create" /\ work[j].at = "meta" /\ Shape(work[j]) /\ Inputs(work[j])
          /\ Goto(j, "done") /\ identities' = [identities EXCEPT ![id] = r]
      BY <1>2 DEF WriteMeta, Is, WorkInv, Land
    <2>2. id \in NewIds /\ DOMAIN identities[id] = Fields /\ MintOK(work[j], identities[id])
      BY <2>1 DEF Inputs, MintInv
    <2>3. /\ DOMAIN r = Fields /\ \A g \in Fields : g # "alias" => r[g] = identities[id][g]
          /\ r.alias = work[j].alias
      <3>1. "alias" \in Fields
        BY DEF Fields
      <3>2. DOMAIN r = Fields /\ r.alias = work[j].alias
        BY <2>2, <3>1 DEF Land
      <3>3. \A g \in Fields : g # "alias" => r[g] = identities[id][g]
        BY <2>2, <3>1, Landing
      <3> QED
        BY <3>2, <3>3
    <2> HIDE DEF r
    <2>4. /\ DOMAIN identities' = NewIds /\ \A k \in NewIds : DOMAIN identities'[k] = Fields
          /\ identities'[id] = r /\ \A k \in NewIds : k # id => identities'[k] = identities[k]
      BY <2>1, <2>2, <2>3, LandMoves
    <2>5. OneMoves(j) /\ work'[j].at = "done"
      BY <2>1, GotoMoves
    <2>6. work'[j].raw = work[j].raw /\ work'[j].alias = work[j].alias
      BY <2>1, <2>5 DEF OneMoves, Later
    <2>7. MintOK(work'[j], r)
      BY <2>1, <2>2, <2>3, <2>5, <2>6 DEF MintOK, Fields
    <2> QED
      BY <2>1, <2>4, <2>5, <2>7, MovesMints
  <1> QED
    BY <1>1, <1>2, WriteNextMints DEF CreateStep

-----------------------------------------------------------------------------
(* The hints of one ledger.                                                *)

HintOK(h) ==
    /\ {"endpoint", "first", "last", "failures"} \subseteq DOMAIN h
    /\ h.first \in Nat /\ h.last \in Nat /\ h.failures \in Nat

HintList(s) == s \in Seq(Range(s)) /\ \A i \in DOMAIN s : HintOK(s[i])

\* Hints recorded now, one for an endpoint, all of U, none charged more often
\* than c says.
Tame(s, U, c) ==
    /\ \A i, k \in DOMAIN s : s[i].endpoint = s[k].endpoint => i = k
    /\ \A i \in DOMAIN s : /\ s[i].endpoint \in U /\ s[i].first = Now /\ s[i].last = Now
                           /\ s[i].failures <= c[s[i].endpoint]

StillHolds(s, t) == \A x : Holds(s, x) => Holds(t, x)

\* A list of which some positions are kept.
LEMMA RetainHints ==
    ASSUME NEW s, HintList(s), NEW P, P \subseteq DOMAIN s
    PROVE  /\ HintList(Retain(s, P)) /\ Len(Retain(s, P)) \in Nat /\ Len(Retain(s, P)) <= Len(s)
           /\ \A U, c : Tame(s, U, c) => Tame(Retain(s, P), U, c)
           /\ \A x : Holds(Retain(s, P), x) <=> \E p \in P : s[p].endpoint = x
  <1> DEFINE t == Retain(s, P)
             S == Range(s)
  <1>1. s \in Seq(S)
    BY DEF HintList
  <1>2. Keeps(S, s, P, t)
    BY <1>1, RetainFacts
  <1> HIDE DEF t, S
  <1>3. t \in Seq(S) /\ Len(t) <= Len(s)
    BY <1>2 DEF Keeps
  <1>4. t \in Seq(Range(t)) /\ Len(t) \in Nat
    BY <1>3, OwnElements
  <1>5. \A i \in DOMAIN t : \E p \in P : s[p] = t[i]
    BY <1>2 DEF Keeps
  <1>6. \A p \in P : \E i \in DOMAIN t : s[p] = t[i]
    BY <1>2 DEF Keeps
  <1>7. HintList(t)
    BY <1>4, <1>5 DEF HintList
  <1>8. ASSUME NEW U, NEW c, Tame(s, U, c)
        PROVE  Tame(t, U, c)
    <2>1. \A p, q \in P : s[p].endpoint = s[q].endpoint => p = q
      BY <1>8 DEF Tame
    <2>2. IsInjective(t)
      BY <1>2, <2>1 DEF Keeps
    <2>3. ASSUME NEW i \in DOMAIN t, NEW k \in DOMAIN t, t[i].endpoint = t[k].endpoint
          PROVE  i = k
      <3>1. PICK p \in P : s[p] = t[i]
        BY <1>5
      <3>2. PICK q \in P : s[q] = t[k]
        BY <1>5
      <3>3. t[i] = t[k]
        BY <2>1, <2>3, <3>1, <3>2
      <3> QED
        BY <2>2, <3>3 DEF IsInjective
    <2>4. ASSUME NEW i \in DOMAIN t
          PROVE  /\ t[i].endpoint \in U /\ t[i].first = Now /\ t[i].last = Now
                 /\ t[i].failures <= c[t[i].endpoint]
      <3>1. PICK p \in P : s[p] = t[i]
        BY <1>5
      <3> QED
        BY <1>8, <3>1 DEF Tame
    <2> QED
      BY <2>3, <2>4 DEF Tame
  <1>9. \A x : Holds(t, x) <=> \E p \in P : s[p].endpoint = x
    BY <1>5, <1>6 DEF Holds
  <1> QED
    BY <1>3, <1>4, <1>7, <1>8, <1>9 DEF t

Blame(h) == [h EXCEPT !.failures = @ + 1]
Refresh(h) == [h EXCEPT !.last = Now, !.failures = 0, !.first = IF @ = 0 THEN Now ELSE @]

\* What a failure changes of a hint, ...
LEMMA BlameFacts ==
    ASSUME NEW h, HintOK(h)
    PROVE  /\ HintOK(Blame(h)) /\ Blame(h).endpoint = h.endpoint /\ Blame(h).first = h.first
           /\ Blame(h).last = h.last /\ Blame(h).failures = h.failures + 1
  <1>1. /\ DOMAIN Blame(h) = DOMAIN h /\ Blame(h).endpoint = h.endpoint /\ Blame(h).first = h.first
        /\ Blame(h).last = h.last /\ Blame(h).failures = h.failures + 1
    BY DEF HintOK, Blame
  <1>2. h.failures + 1 \in Nat
    BY DEF HintOK
  <1> QED
    BY <1>1, <1>2 DEF HintOK

\* ... and what a success does.
LEMMA RefreshFacts ==
    ASSUME NEW h, HintOK(h)
    PROVE  /\ HintOK(Refresh(h)) /\ Refresh(h).endpoint = h.endpoint /\ Refresh(h).last = Now
           /\ Refresh(h).failures = 0 /\ Refresh(h).first = IF h.first = 0 THEN Now ELSE h.first
  <1>1. /\ DOMAIN Refresh(h) = DOMAIN h /\ Refresh(h).endpoint = h.endpoint
        /\ Refresh(h).last = Now /\ Refresh(h).failures = 0
        /\ Refresh(h).first = IF h.first = 0 THEN Now ELSE h.first
    BY DEF HintOK, Refresh
  <1>2. Now \in Nat
    BY WorkAssumption
  <1> QED
    BY <1>1, <1>2 DEF HintOK

\* One endpoint is charged.  It is evicted only at MaxFailures.
LEMMA FailureFacts ==
    ASSUME NEW s, HintList(s), NEW e
    PROVE  LET t == RecordFailure(s, e) IN
           /\ HintList(t) /\ Len(t) \in Nat /\ Len(t) <= Len(s)
           /\ \A U : \A c, d \in [U -> Nat] :
                /\ Tame(s, U, c) /\ \A x \in U : c[x] <= d[x] /\ d[x] < MaxFailures
                /\ e \in U => c[e] + 1 <= d[e]
                => Tame(t, U, d) /\ StillHolds(s, t)
  <1> DEFINE b == [i \in DOMAIN s |-> IF s[i].endpoint # e THEN s[i] ELSE Blame(s[i])]
             P == {i \in DOMAIN s : b[i].endpoint # e \/ b[i].failures < MaxFailures}
             t == RecordFailure(s, e)
  <1>1. t = Retain(b, P)
    BY DEF RecordFailure, Blame
  <1>2. DOMAIN s = 1 .. Len(s) /\ Len(s) \in Nat /\ \A i \in DOMAIN s : HintOK(s[i])
    BY LenProperties DEF HintList
  <1>3. /\ DOMAIN b = 1 .. Len(s) /\ b = [i \in 1 .. Len(s) |-> b[i]]
        /\ \A i \in DOMAIN s : b[i] = IF s[i].endpoint # e THEN s[i] ELSE Blame(s[i])
    BY <1>2
  <1>4. P \subseteq DOMAIN b
    OBVIOUS
  <1>5. \A i \in DOMAIN s : i \in P <=> b[i].endpoint # e \/ b[i].failures < MaxFailures
    OBVIOUS
  <1> HIDE DEF b, P, t
  <1>6. b \in Seq(Range(b)) /\ Len(b) = Len(s)
    BY <1>2, <1>3, Listed1
  <1>7. \A i \in DOMAIN s : /\ HintOK(b[i]) /\ b[i].endpoint = s[i].endpoint /\ b[i].first = s[i].first
                            /\ b[i].last = s[i].last
                            /\ b[i].failures = IF s[i].endpoint = e THEN s[i].failures + 1 ELSE s[i].failures
    BY <1>2, <1>3, BlameFacts
  <1>8. HintList(b)
    BY <1>2, <1>3, <1>6, <1>7 DEF HintList
  <1>9. /\ HintList(t) /\ Len(t) \in Nat /\ Len(t) <= Len(b)
        /\ \A U, c : Tame(b, U, c) => Tame(t, U, c)
        /\ \A x : Holds(t, x) <=> \E p \in P : b[p].endpoint = x
    BY <1>1, <1>4, <1>8, RetainHints
  <1>10. ASSUME NEW U, NEW c \in [U -> Nat], NEW d \in [U -> Nat], Tame(s, U, c),
                \A x \in U : c[x] <= d[x] /\ d[x] < MaxFailures, e \in U => c[e] + 1 <= d[e]
         PROVE  Tame(t, U, d) /\ StillHolds(s, t)
    <2>1. ASSUME NEW i \in DOMAIN s
          PROVE  b[i].failures <= d[b[i].endpoint] /\ b[i].failures < MaxFailures
      <3>1. s[i].endpoint \in U /\ s[i].failures <= c[s[i].endpoint] /\ s[i].failures \in Nat
        BY <1>2, <1>10 DEF Tame, HintOK
      <3>2. /\ c[s[i].endpoint] \in Nat /\ d[s[i].endpoint] \in Nat
            /\ c[s[i].endpoint] <= d[s[i].endpoint] /\ d[s[i].endpoint] < MaxFailures
            /\ s[i].endpoint = e => c[s[i].endpoint] + 1 <= d[s[i].endpoint]
        BY <1>10, <3>1
      <3>3. MaxFailures \in Nat
        BY HintAssumption
      <3> QED
        BY <1>7, <3>1, <3>2, <3>3
    <2>2. Tame(b, U, d)
      <3>1. \A i \in DOMAIN s : b[i].endpoint \in U /\ b[i].first = Now /\ b[i].last = Now
        BY <1>7, <1>10 DEF Tame
      <3>2. \A i, k \in DOMAIN s : b[i].endpoint = b[k].endpoint => i = k
        BY <1>7, <1>10 DEF Tame
      <3> QED
        BY <1>2, <1>3, <2>1, <3>1, <3>2 DEF Tame
    <2>3. StillHolds(s, t)
      BY <1>5, <1>7, <1>9, <2>1 DEF StillHolds, Holds
    <2> QED
      BY <1>9, <2>2, <2>3
  <1>11. HintList(t) /\ Len(t) \in Nat /\ Len(t) <= Len(s)
    BY <1>6, <1>9
  <1> QED
    BY <1>10, <1>11 DEF t

Records(hints, list, n, f) ==
    f = [m \in 0 .. n |-> IF m = 0 THEN hints ELSE RecordResult(f[m - 1], list[m])]

\* The results recorded one after the other are there for every number of them.
LEMMA RecordsExist ==
    ASSUME NEW hints, NEW list, NEW n \in Nat
    PROVE  \E f : Records(hints, list, n, f)
  <1> DEFINE Bad == {m \in Nat : ~\E f : Records(hints, list, m, f)}
  <1> SUFFICES ASSUME Bad # {}
               PROVE  FALSE
    OBVIOUS
  <1>1. PICK m \in Bad : \A k \in Bad : m <= k
    BY LeastNatural
  <1>2. CASE m = 0
    <2> DEFINE f == [k \in 0 .. 0 |-> hints]
    <2>1. Records(hints, list, 0, f)
      BY DEF Records
    <2> QED
      BY <1>1, <1>2, <2>1
  <1>3. CASE m # 0
    <2>1. m - 1 \in Nat /\ m - 1 \notin Bad
      BY <1>1, <1>3
    <2>2. PICK f : Records(hints, list, m - 1, f)
      BY <2>1
    <2> DEFINE g == [k \in 0 .. m |-> IF k < m THEN f[k] ELSE RecordResult(f[m - 1], list[m])]
    <2>3. \A k \in 0 .. m : g[k] = IF k = 0 THEN hints ELSE RecordResult(g[k - 1], list[k])
      <3> SUFFICES ASSUME NEW k \in 0 .. m
                   PROVE  g[k] = IF k = 0 THEN hints ELSE RecordResult(g[k - 1], list[k])
        OBVIOUS
      <3>1. CASE k = m
        BY <1>1, <1>3, <3>1
      <3>2. CASE k < m
        <4>1. k \in 0 .. m - 1
          BY <1>1, <3>2
        <4>2. f[k] = IF k = 0 THEN hints ELSE RecordResult(f[k - 1], list[k])
          BY <2>2, <4>1 DEF Records
        <4>3. g[k] = f[k] /\ (k # 0 => g[k - 1] = f[k - 1])
          BY <1>1, <3>2
        <4> QED
          BY <4>2, <4>3
      <3> QED
        BY <1>1, <3>1, <3>2
    <2>4. g = [k \in 0 .. m |-> g[k]]
      OBVIOUS
    <2> HIDE DEF g
    <2>5. Records(hints, list, m, g)
      BY <2>3, <2>4 DEF Records
    <2> QED
      BY <1>1, <2>5
  <1> QED
    BY <1>2, <1>3

MayCharge(e, U, c, d) ==
    /\ c \in [U -> Nat] /\ d \in [U -> Nat]
    /\ \A x \in U : c[x] <= d[x] /\ d[x] < MaxFailures
    /\ e \in U => c[e] + 1 <= d[e]

\* FailureFacts for a list that holds hints of now.
LEMMA FailureTame ==
    ASSUME NEW s, HintList(s), NEW e, NEW U, NEW c, NEW d, Tame(s, U, c), MayCharge(e, U, c, d)
    PROVE  Tame(RecordFailure(s, e), U, d) /\ StillHolds(s, RecordFailure(s, e))
  BY FailureFacts DEF MayCharge

-----------------------------------------------------------------------------
(* A success: the hint is refreshed, or added and the oldest one dropped    *)
(* beyond the cap.                                                          *)

\* Some hint is older than every other.
LEMMA OldestExists ==
    ASSUME NEW s, HintList(s), DOMAIN s # {}
    PROVE  \E i \in DOMAIN s : \A j \in DOMAIN s \ {i} : OlderThan(s, i, j)
  <1>1. DOMAIN s \subseteq Nat /\ \A i \in DOMAIN s : s[i].last \in Nat /\ s[i].first \in Nat
    BY LenProperties DEF HintList, HintOK
  <1> DEFINE L == {s[i].last : i \in DOMAIN s}
  <1>2. PICK l \in L : \A x \in L : l <= x
    <2>1. L \subseteq Nat /\ L # {}
      BY <1>1
    <2> HIDE DEF L
    <2> QED
      BY <2>1, LeastNatural
  <1> DEFINE A == {i \in DOMAIN s : s[i].last = l}
             F == {s[i].first : i \in A}
  <1>3. PICK f \in F : \A x \in F : f <= x
    <2>1. F \subseteq Nat /\ F # {}
      BY <1>1, <1>2
    <2> HIDE DEF F
    <2> QED
      BY <2>1, LeastNatural
  <1> DEFINE I == {i \in A : s[i].first = f}
  <1>4. PICK i \in I : \A x \in I : i <= x
    <2>1. I \subseteq Nat /\ I # {}
      BY <1>1, <1>3
    <2> HIDE DEF I
    <2> QED
      BY <2>1, LeastNatural
  <1>5. ASSUME NEW j \in DOMAIN s \ {i}
        PROVE  OlderThan(s, i, j)
    <2>1. i \in Nat /\ j \in Nat /\ s[i].last = l /\ s[i].first = f /\ s[j].last \in Nat
          /\ s[j].first \in Nat /\ l \in Nat /\ f \in Nat
      BY <1>1, <1>4, <1>2, <1>3
    <2>2. l <= s[j].last
      BY <1>2
    <2>3. s[j].last = l => f <= s[j].first
      BY <1>3
    <2>4. s[j].last = l /\ s[j].first = f => i <= j
      BY <1>4
    <2> QED
      BY <1>5, <2>1, <2>2, <2>3, <2>4 DEF OlderThan
  <1> QED
    BY <1>4, <1>5

\* A list without one of its elements.
LEMMA RemoveAtFacts ==
    ASSUME NEW S, NEW s \in Seq(S), NEW i \in 1 .. Len(s)
    PROVE  RemoveAt(s, i) \in Seq(S) /\ Len(RemoveAt(s, i)) = Len(s) - 1
  <1>1. Len(s) \in Nat /\ \A k \in 1 .. Len(s) : s[k] \in S
    BY LenProperties, ElementOfSeq
  <1>2. SubSeq(s, 1, i - 1) \in Seq(S) /\ Len(SubSeq(s, 1, i - 1)) = i - 1
    <2>1. \A k \in 1 .. i - 1 : s[k] \in S
      BY <1>1
    <2>2. /\ SubSeq(s, 1, i - 1) \in Seq(S)
          /\ Len(SubSeq(s, 1, i - 1)) = IF 1 <= i - 1 THEN i - 1 - 1 + 1 ELSE 0
      BY <1>1, <2>1, SubSeqProperties
    <2> QED
      BY <1>1, <2>2
  <1>3. SubSeq(s, i + 1, Len(s)) \in Seq(S) /\ Len(SubSeq(s, i + 1, Len(s))) = Len(s) - i
    <2>1. \A k \in i + 1 .. Len(s) : s[k] \in S
      BY <1>1
    <2>2. /\ SubSeq(s, i + 1, Len(s)) \in Seq(S)
          /\ Len(SubSeq(s, i + 1, Len(s))) = IF i + 1 <= Len(s) THEN Len(s) - (i + 1) + 1 ELSE 0
      BY <1>1, <2>1, SubSeqProperties
    <2> QED
      BY <1>1, <2>2
  <1> DEFINE a == SubSeq(s, 1, i - 1)
             b == SubSeq(s, i + 1, Len(s))
  <1>4. RemoveAt(s, i) = a \o b
    BY DEF RemoveAt
  <1>5. a \in Seq(S) /\ b \in Seq(S) /\ Len(a) = i - 1 /\ Len(b) = Len(s) - i
    BY <1>2, <1>3
  <1> HIDE DEF a, b
  <1>6. a \o b \in Seq(S) /\ Len(a \o b) = Len(a) + Len(b)
    BY <1>5, ConcatProperties
  <1> QED
    BY <1>1, <1>4, <1>5, <1>6

\* Hints at the places of a list that stay hints are a list of hints.
LEMMA SomeHints ==
    ASSUME NEW s, HintList(s), NEW t \in Seq(Range(s))
    PROVE  HintList(t) /\ Len(t) \in Nat
  <1>1. t \in Seq(Range(t)) /\ Len(t) \in Nat /\ DOMAIN t = 1 .. Len(t)
    BY OwnElements
  <1>2. \A i \in DOMAIN t : t[i] \in Range(s)
    BY <1>1, ElementOfSeq
  <1>3. \A h \in Range(s) : HintOK(h)
    BY DEF HintList, Range
  <1> QED
    BY <1>1, <1>2, <1>3 DEF HintList

\* The oldest hint goes only when there are more than the cap.
LEMMA DropOldestFacts ==
    ASSUME NEW s, HintList(s), Len(s) <= MaxHints + 1
    PROVE  /\ HintList(DropOldest(s)) /\ Len(DropOldest(s)) \in Nat
           /\ Len(DropOldest(s)) <= MaxHints
           /\ Len(s) <= MaxHints => DropOldest(s) = s
  <1>1. s \in Seq(Range(s)) /\ Len(s) \in Nat /\ DOMAIN s = 1 .. Len(s) /\ MaxHints \in Nat
    BY LenProperties, HintAssumption DEF HintList
  <1>2. CASE Len(s) <= MaxHints
    <2>1. DropOldest(s) = s
      BY <1>1, <1>2 DEF DropOldest
    <2> QED
      BY <1>1, <1>2, <2>1
  <1>3. CASE Len(s) > MaxHints
    <2> DEFINE i == CHOOSE i \in DOMAIN s : \A j \in DOMAIN s \ {i} : OlderThan(s, i, j)
    <2>1. i \in DOMAIN s
      <3>1. DOMAIN s # {}
        BY <1>1, <1>3
      <3> QED
        BY <3>1, OldestExists
    <2>2. DropOldest(s) = RemoveAt(s, i)
      BY <1>3 DEF DropOldest
    <2> HIDE DEF i
    <2>3. RemoveAt(s, i) \in Seq(Range(s)) /\ Len(RemoveAt(s, i)) = Len(s) - 1
      BY <1>1, <2>1, RemoveAtFacts
    <2>4. HintList(DropOldest(s))
      BY <2>2, <2>3, SomeHints
    <2> QED
      BY <1>1, <1>3, <2>2, <2>3, <2>4
  <1> QED
    BY <1>1, <1>2, <1>3

\* A hint at the end.
LEMMA AddedHint ==
    ASSUME NEW s, HintList(s), NEW h, HintOK(h)
    PROVE  LET a == Append(s, h) IN
           /\ HintList(a) /\ Len(a) = Len(s) + 1 /\ Len(s) \in Nat
           /\ DOMAIN s = 1 .. Len(s) /\ DOMAIN a = 1 .. Len(s) + 1
           /\ a[Len(s) + 1] = h /\ \A i \in DOMAIN s : a[i] = s[i]
  <1> DEFINE S == Range(s) \cup {h}
             a == Append(s, h)
  <1>1. Len(s) \in Nat /\ DOMAIN s = 1 .. Len(s) /\ s \in Seq(S)
    <2>1. s \in Seq(Range(s))
      BY DEF HintList
    <2> QED
      BY <2>1, LenProperties, SeqDef
  <1>2. h \in S
    OBVIOUS
  <1> HIDE DEF S
  <1>3. /\ a \in Seq(S) /\ Len(a) = Len(s) + 1 /\ \A i \in 1 .. Len(s) : a[i] = s[i]
        /\ a[Len(s) + 1] = h
    BY <1>1, <1>2, AppendProperties
  <1> HIDE DEF a
  <1>4. a \in Seq(Range(a)) /\ DOMAIN a = 1 .. Len(a)
    BY <1>3, OwnElements
  <1>5. \A i \in DOMAIN a : i \in DOMAIN s \/ i = Len(s) + 1
    BY <1>1, <1>3, <1>4
  <1>6. HintList(a)
    BY <1>1, <1>3, <1>4, <1>5 DEF HintList
  <1> QED
    BY <1>1, <1>3, <1>4, <1>6 DEF a

\* A hint recorded now.
LEMMA ServedFacts ==
    ASSUME NEW e
    PROVE  /\ HintOK(Served(e, Now)) /\ Served(e, Now).endpoint = e /\ Served(e, Now).first = Now
           /\ Served(e, Now).last = Now /\ Served(e, Now).failures = 0
  BY WorkAssumption DEF HintOK, Served

\* The hints of a list with those of one endpoint refreshed.
LEMMA RefreshedFacts ==
    ASSUME NEW s, HintList(s), NEW e, Holds(s, e)
    PROVE  LET t == RecordSuccess(s, e, Now) IN
           /\ HintList(t) /\ Len(t) = Len(s) /\ Len(s) \in Nat /\ DOMAIN t = DOMAIN s
           /\ \A i \in DOMAIN s : t[i] = IF s[i].endpoint # e THEN s[i] ELSE Refresh(s[i])
  <1> DEFINE t == [i \in DOMAIN s |-> IF s[i].endpoint # e THEN s[i] ELSE Refresh(s[i])]
  <1>1. RecordSuccess(s, e, Now) = t
    BY DEF RecordSuccess, Refresh
  <1>2. DOMAIN s = 1 .. Len(s) /\ Len(s) \in Nat /\ \A i \in DOMAIN s : HintOK(s[i])
    BY LenProperties DEF HintList
  <1>3. /\ DOMAIN t = 1 .. Len(s) /\ t = [i \in 1 .. Len(s) |-> t[i]]
        /\ \A i \in DOMAIN s : t[i] = IF s[i].endpoint # e THEN s[i] ELSE Refresh(s[i])
    BY <1>2
  <1> HIDE DEF t
  <1>4. t \in Seq(Range(t)) /\ Len(t) = Len(s)
    BY <1>2, <1>3, Listed1
  <1>5. \A i \in DOMAIN t : HintOK(t[i])
    BY <1>2, <1>3, RefreshFacts
  <1> QED
    BY <1>1, <1>2, <1>3, <1>4, <1>5 DEF HintList

\* The cap holds after a success.
LEMMA SuccessFacts ==
    ASSUME NEW s, HintList(s), Len(s) <= MaxHints, NEW e
    PROVE  HintList(RecordSuccess(s, e, Now)) /\ Len(RecordSuccess(s, e, Now)) <= MaxHints
  <1>1. CASE Holds(s, e)
    BY <1>1, RefreshedFacts
  <1>2. CASE ~Holds(s, e)
    <2> DEFINE a == Append(s, Served(e, Now))
    <2>1. RecordSuccess(s, e, Now) = DropOldest(a)
      BY <1>2 DEF RecordSuccess
    <2>2. HintList(a) /\ Len(a) = Len(s) + 1 /\ Len(s) \in Nat
      BY ServedFacts, AddedHint
    <2> HIDE DEF a
    <2>3. Len(a) <= MaxHints + 1
      BY <2>2, HintAssumption
    <2> QED
      BY <2>1, <2>2, <2>3, DropOldestFacts
  <1> QED
    BY <1>1, <1>2

\* Hints of different endpoints are no more than the endpoints.
LEMMA TameFits ==
    ASSUME NEW s, HintList(s), NEW U, IsFiniteSet(U), NEW c, Tame(s, U, c)
    PROVE  Len(s) <= Cardinality(U)
  <1>1. Len(s) \in Nat /\ DOMAIN s = 1 .. Len(s)
    BY LenProperties DEF HintList
  <1> DEFINE f == [i \in 1 .. Len(s) |-> s[i].endpoint]
  <1>2. f \in Injection(1 .. Len(s), U)
    <2>1. f \in [1 .. Len(s) -> U]
      BY <1>1 DEF Tame
    <2>2. IsInjective(f)
      BY <1>1 DEF Tame, IsInjective
    <2> QED
      BY <2>1, <2>2 DEF Injection
  <1> HIDE DEF f
  <1>3. Cardinality(1 .. Len(s)) <= Cardinality(U)
    BY <1>2, FS_Injection
  <1>4. Cardinality(1 .. Len(s)) = Len(s)
    <2>1. Cardinality(1 .. Len(s)) = IF 1 > Len(s) THEN 0 ELSE Len(s) - 1 + 1
      BY <1>1, FS_Interval
    <2> QED
      BY <1>1, <2>1
  <1> QED
    BY <1>3, <1>4

MayServe(e, U, c) ==
    e \in U /\ c \in [U -> Nat] /\ IsFiniteSet(U) /\ Cardinality(U) <= MaxHints

\* When the cap fits everyone, a success takes nobody's hint.
LEMMA SuccessTame ==
    ASSUME NEW s, HintList(s), NEW e, NEW U, NEW c, Tame(s, U, c), MayServe(e, U, c)
    PROVE  LET t == RecordSuccess(s, e, Now) IN
           HintList(t) /\ Tame(t, U, c) /\ StillHolds(s, t) /\ Holds(t, e)
  <1> DEFINE t == RecordSuccess(s, e, Now)
  <1>0. \A x \in U : c[x] \in Nat
    BY DEF MayServe
  <1>1. CASE Holds(s, e)
    <2>1. /\ HintList(t) /\ DOMAIN t = DOMAIN s
          /\ \A i \in DOMAIN s : t[i] = IF s[i].endpoint # e THEN s[i] ELSE Refresh(s[i])
      BY <1>1, RefreshedFacts
    <2> HIDE DEF t
    <2>2. ASSUME NEW i \in DOMAIN s
          PROVE  /\ t[i].endpoint = s[i].endpoint /\ t[i].first = Now /\ t[i].last = Now
                 /\ t[i].failures <= c[t[i].endpoint] /\ s[i].endpoint \in U
      <3>1. /\ HintOK(s[i]) /\ s[i].endpoint \in U /\ s[i].first = Now /\ s[i].last = Now
            /\ s[i].failures <= c[s[i].endpoint] /\ c[s[i].endpoint] \in Nat
        BY <1>0 DEF HintList, Tame
      <3>2. CASE s[i].endpoint # e
        BY <2>1, <3>1, <3>2
      <3>3. CASE s[i].endpoint = e
        <4>1. t[i] = Refresh(s[i])
          BY <2>1, <3>3
        <4>2. /\ t[i].endpoint = s[i].endpoint /\ t[i].last = Now /\ t[i].failures = 0
              /\ t[i].first = IF s[i].first = 0 THEN Now ELSE s[i].first
          BY <3>1, <4>1, RefreshFacts
        <4> QED
          BY <3>1, <4>2
      <3> QED
        BY <3>2, <3>3
    <2>3. Tame(t, U, c)
      BY <2>1, <2>2 DEF Tame
    <2>4. StillHolds(s, t) /\ Holds(t, e)
      BY <1>1, <2>1, <2>2 DEF StillHolds, Holds
    <2> QED
      BY <2>1, <2>3, <2>4 DEF t
  <1>2. CASE ~Holds(s, e)
    <2> DEFINE h == Served(e, Now)
               a == Append(s, h)
    <2>1. t = DropOldest(a)
      BY <1>2 DEF RecordSuccess
    <2>2. HintOK(h) /\ h.endpoint = e /\ h.first = Now /\ h.last = Now /\ h.failures = 0
      BY ServedFacts
    <2> HIDE DEF h
    <2>3. /\ HintList(a) /\ Len(a) = Len(s) + 1 /\ Len(s) \in Nat
          /\ DOMAIN s = 1 .. Len(s) /\ DOMAIN a = 1 .. Len(s) + 1
          /\ a[Len(s) + 1] = h /\ \A i \in DOMAIN s : a[i] = s[i]
      BY <2>2, AddedHint
    <2> HIDE DEF a, t
    <2>4. e \in U /\ c[e] \in Nat
      BY DEF MayServe
    <2>5. \A i \in DOMAIN a : i \in DOMAIN s \/ i = Len(s) + 1
      BY <2>3
    <2>6. Tame(a, U, c)
      <3>1. \A i \in DOMAIN s : s[i].endpoint # e
        BY <1>2 DEF Holds
      <3>2. \A i, k \in DOMAIN a : a[i].endpoint = a[k].endpoint => i = k
        BY <2>2, <2>3, <2>5, <3>1 DEF Tame
      <3>3. \A i \in DOMAIN a : /\ a[i].endpoint \in U /\ a[i].first = Now /\ a[i].last = Now
                                /\ a[i].failures <= c[a[i].endpoint]
        BY <2>2, <2>3, <2>4, <2>5 DEF Tame
      <3> QED
        BY <3>2, <3>3 DEF Tame
    <2>7. Len(a) <= MaxHints
      <3>1. Len(a) <= Cardinality(U) /\ Cardinality(U) \in Nat /\ Cardinality(U) <= MaxHints
        BY <2>3, <2>6, TameFits, FS_CardinalityType DEF MayServe
      <3> QED
        BY <2>3, <3>1, HintAssumption
    <2>8. t = a
      <3>1. Len(a) <= MaxHints + 1
        BY <2>3, <2>7, HintAssumption
      <3> QED
        BY <2>1, <2>3, <2>7, <3>1, DropOldestFacts
    <2>9. StillHolds(s, a) /\ Holds(a, e)
      BY <2>2, <2>3 DEF StillHolds, Holds
    <2> QED
      BY <2>3, <2>6, <2>8, <2>9 DEF t
  <1> QED
    BY <1>1, <1>2

Capped(s) == HintList(s) /\ Len(s) <= MaxHints

\* The cap holds after one result, ...
LEMMA ResultFacts ==
    ASSUME NEW s, Capped(s), NEW r
    PROVE  Capped(RecordResult(s, r))
  <1>1. CASE r.status = "accepted"
    BY <1>1, SuccessFacts DEF RecordResult, Capped
  <1>2. CASE r.status = "unreachable"
    <2> DEFINE t == RecordFailure(s, r.endpoint)
    <2>1. RecordResult(s, r) = t
      BY <1>2 DEF RecordResult
    <2>2. HintList(t) /\ Len(t) \in Nat /\ Len(t) <= Len(s)
      BY FailureFacts DEF Capped
    <2>3. Len(s) \in Nat /\ Len(s) <= MaxHints /\ MaxHints \in Nat
      BY LenProperties, HintAssumption DEF Capped, HintList
    <2> HIDE DEF t
    <2> QED
      BY <2>1, <2>2, <2>3 DEF Capped
  <1>3. CASE r.status # "accepted" /\ r.status # "unreachable"
    BY <1>3 DEF RecordResult
  <1> QED
    BY <1>1, <1>2, <1>3

\* ... and after all of them.
LEMMA ResultsFacts ==
    ASSUME NEW s, Capped(s), NEW results, results \in Seq(Range(results))
    PROVE  Capped(RecordResults(s, results))
  <1>0. Len(results) \in Nat
    BY LenProperties
  <1> DEFINE f == CHOOSE f : Records(s, results, Len(results), f)
             Good(n) == Capped(f[n])
             Bad == {n \in 0 .. Len(results) : ~Good(n)}
  <1>1. Records(s, results, Len(results), f) /\ RecordResults(s, results) = f[Len(results)]
    <2>1. Records(s, results, Len(results), f)
      BY <1>0, RecordsExist
    <2>2. RecordResults(s, results) = f[Len(results)]
      BY DEF RecordResults, Records
    <2> QED
      BY <2>1, <2>2
  <1> HIDE DEF f
  <1>2. \A n \in 0 .. Len(results) : f[n] = IF n = 0 THEN s ELSE RecordResult(f[n - 1], results[n])
    BY <1>1 DEF Records
  <1>3. Good(0)
    BY <1>0, <1>2
  <1>4. ASSUME NEW n \in 1 .. Len(results), Good(n - 1)
        PROVE  Good(n)
    <2>1. f[n] = RecordResult(f[n - 1], results[n])
      BY <1>0, <1>2
    <2> QED
      BY <1>4, <2>1, ResultFacts
  <1> HIDE DEF Good
  <1>5. Bad = {}
    <2> SUFFICES ASSUME Bad # {}
                 PROVE  FALSE
      OBVIOUS
    <2>1. Bad \subseteq Nat
      BY <1>0
    <2>2. PICK n \in Bad : \A k \in Bad : n <= k
      BY <2>1, LeastNatural
    <2>3. n \in 0 .. Len(results) /\ n \in Nat /\ ~Good(n)
      BY <1>0, <2>2
    <2>4. n # 0 /\ n \in 1 .. Len(results) /\ n - 1 \in 0 .. Len(results)
      BY <1>0, <1>3, <2>3
    <2>5. n - 1 \notin Bad
      <3> HIDE DEF Bad
      <3> QED
        BY <2>2, <2>3, <2>4
    <2> QED
      BY <1>4, <2>3, <2>4, <2>5
  <1>6. Len(results) \in 0 .. Len(results)
    BY <1>0
  <1>7. Good(Len(results))
    BY <1>5, <1>6
  <1> QED
    BY <1>1, <1>7 DEF Good

\* What one result may do to a list of hints of now, none charged more than c
\* before and d after it.
MayRecord(r, U, c, d) ==
    /\ c \in [U -> Nat] /\ IsFiniteSet(U) /\ Cardinality(U) <= MaxHints
    /\ r.status = "accepted" => r.endpoint \in U
    /\ IF r.status = "unreachable" THEN MayCharge(r.endpoint, U, c, d) ELSE d = c

\* While nobody is charged MaxFailures times and the cap fits everyone, one result
\* takes nobody's hint, ...
LEMMA ResultTame ==
    ASSUME NEW s, HintList(s), NEW r, NEW U, NEW c, NEW d, Tame(s, U, c), MayRecord(r, U, c, d)
    PROVE  LET t == RecordResult(s, r) IN
           /\ HintList(t) /\ Tame(t, U, d) /\ StillHolds(s, t)
           /\ r.status = "accepted" => Holds(t, r.endpoint)
  <1> DEFINE t == RecordResult(s, r)
             e == r.endpoint
  <1>1. CASE r.status = "accepted"
    <2>1. t = RecordSuccess(s, e, Now) /\ MayServe(e, U, c) /\ d = c
      BY <1>1 DEF RecordResult, MayRecord, MayServe
    <2> HIDE DEF t, e
    <2>2. HintList(t) /\ Tame(t, U, c) /\ StillHolds(s, t) /\ Holds(t, e)
      BY <2>1, SuccessTame
    <2> QED
      BY <2>1, <2>2 DEF t, e
  <1>2. CASE r.status = "unreachable"
    <2>1. t = RecordFailure(s, e) /\ MayCharge(e, U, c, d)
      BY <1>2 DEF RecordResult, MayRecord
    <2> HIDE DEF t, e
    <2>2. HintList(t)
      BY <2>1, FailureFacts
    <2>3. Tame(t, U, d) /\ StillHolds(s, t)
      BY <2>1, FailureTame
    <2> QED
      BY <1>2, <2>2, <2>3 DEF t
  <1>3. CASE r.status # "accepted" /\ r.status # "unreachable"
    <2>1. t = s /\ d = c
      BY <1>3 DEF RecordResult, MayRecord
    <2> HIDE DEF t
    <2> QED
      BY <1>3, <2>1 DEF StillHolds, t
  <1> QED
    BY <1>1, <1>2, <1>3

\* ... and neither do all of them; D counts the charges after each.
LEMMA ResultsTame ==
    ASSUME NEW s, HintList(s), NEW results, results \in Seq(Range(results)), NEW U, NEW D,
           Tame(s, U, D[0]),
           \A n \in 1 .. Len(results) : MayRecord(results[n], U, D[n - 1], D[n])
    PROVE  LET t == RecordResults(s, results) IN
           /\ HintList(t) /\ Tame(t, U, D[Len(results)]) /\ StillHolds(s, t)
           /\ \A n \in 1 .. Len(results) :
                results[n].status = "accepted" => Holds(t, results[n].endpoint)
  <1>0. Len(results) \in Nat
    BY LenProperties
  <1> DEFINE f == CHOOSE f : Records(s, results, Len(results), f)
             Good(n) == /\ HintList(f[n]) /\ Tame(f[n], U, D[n]) /\ StillHolds(s, f[n])
                        /\ \A m \in 1 .. n :
                             results[m].status = "accepted" => Holds(f[n], results[m].endpoint)
             Bad == {n \in 0 .. Len(results) : ~Good(n)}
  <1>1. Records(s, results, Len(results), f) /\ RecordResults(s, results) = f[Len(results)]
    <2>1. Records(s, results, Len(results), f)
      BY <1>0, RecordsExist
    <2>2. RecordResults(s, results) = f[Len(results)]
      BY DEF RecordResults, Records
    <2> QED
      BY <2>1, <2>2
  <1> HIDE DEF f
  <1>2. \A n \in 0 .. Len(results) : f[n] = IF n = 0 THEN s ELSE RecordResult(f[n - 1], results[n])
    BY <1>1 DEF Records
  <1>3. Good(0)
    <2>1. f[0] = s
      BY <1>0, <1>2
    <2> QED
      BY <2>1 DEF StillHolds
  <1>4. ASSUME NEW n \in 1 .. Len(results), Good(n - 1)
        PROVE  Good(n)
    <2> DEFINE before == f[n - 1]
               was == D[n - 1]
               r == results[n]
    <2>1. f[n] = RecordResult(before, r)
      BY <1>0, <1>2
    <2>2. MayRecord(r, U, was, D[n])
      OBVIOUS
    <2>3. HintList(before) /\ Tame(before, U, was) /\ StillHolds(s, before)
      BY <1>4
    <2>4. \A m \in 1 .. n - 1 : results[m].status = "accepted" => Holds(before, results[m].endpoint)
      BY <1>4
    <2> HIDE DEF before, was, r
    <2>5. /\ HintList(f[n]) /\ Tame(f[n], U, D[n]) /\ StillHolds(before, f[n])
          /\ r.status = "accepted" => Holds(f[n], r.endpoint)
      BY <2>1, <2>2, <2>3, ResultTame
    <2>6. \A m \in 1 .. n : m \in 1 .. n - 1 \/ m = n
      BY <1>0
    <2>7. \A m \in 1 .. n : results[m].status = "accepted" => Holds(f[n], results[m].endpoint)
      BY <2>4, <2>5, <2>6 DEF StillHolds, r
    <2>8. StillHolds(s, f[n])
      BY <2>3, <2>5 DEF StillHolds
    <2> QED
      BY <2>5, <2>7, <2>8
  <1> HIDE DEF Good
  <1>5. Bad = {}
    <2> SUFFICES ASSUME Bad # {}
                 PROVE  FALSE
      OBVIOUS
    <2>1. Bad \subseteq Nat
      BY <1>0
    <2>2. PICK n \in Bad : \A k \in Bad : n <= k
      BY <2>1, LeastNatural
    <2>3. n \in 0 .. Len(results) /\ n \in Nat /\ ~Good(n)
      BY <1>0, <2>2
    <2>4. n # 0 /\ n \in 1 .. Len(results) /\ n - 1 \in 0 .. Len(results)
      BY <1>0, <1>3, <2>3
    <2>5. n - 1 \notin Bad
      <3> HIDE DEF Bad
      <3> QED
        BY <2>2, <2>3, <2>4
    <2> QED
      BY <1>4, <2>3, <2>4, <2>5
  <1>6. Len(results) \in 0 .. Len(results)
    BY <1>0
  <1>7. Good(Len(results))
    BY <1>5, <1>6
  <1> QED
    BY <1>1, <1>7 DEF Good

\* Nothing recorded now has aged.
LEMMA PruneFacts ==
    ASSUME NEW s, HintList(s)
    PROVE  LET t == Prune(s, Now) IN
           /\ HintList(t) /\ Len(t) \in Nat /\ Len(t) <= Len(s)
           /\ \A U, c : Tame(s, U, c) => Tame(t, U, c) /\ StillHolds(s, t)
  <1> DEFINE P == {i \in DOMAIN s : ~AgedOut(s[i], Now)}
             t == Retain(s, P)
  <1>1. Prune(s, Now) = t
    BY DEF Prune
  <1>2. P \subseteq DOMAIN s
    OBVIOUS
  <1>3. \A U, c : Tame(s, U, c) => P = DOMAIN s
    <2>1. Now \in Nat /\ HintMaxAge \in Nat
      BY WorkAssumption, HintAssumption
    <2>2. \A i \in DOMAIN s : s[i].first = Now /\ s[i].last = Now => ~AgedOut(s[i], Now)
      BY <2>1 DEF AgedOut, Stamp
    <2> QED
      BY <2>2 DEF Tame
  <1> HIDE DEF P
  <1>4. /\ HintList(t) /\ Len(t) \in Nat /\ Len(t) <= Len(s)
        /\ \A U, c : Tame(s, U, c) => Tame(t, U, c)
        /\ \A x : Holds(t, x) <=> \E p \in P : s[p].endpoint = x
    BY <1>2, RetainHints
  <1> HIDE DEF t
  <1>5. ASSUME NEW U, NEW c, Tame(s, U, c)
        PROVE  StillHolds(s, t)
    BY <1>3, <1>4, <1>5 DEF StillHolds, Holds
  <1> QED
    BY <1>1, <1>4, <1>5

-----------------------------------------------------------------------------
(* The hints in the file.  While every writer takes the mutex, one of them  *)
(* at a time is between its read and its write, so that what it read is     *)
(* what the file holds when it writes.                                      *)

Hinters(w) == {j \in DOMAIN w : w[j].kind = "hint"}
Endpoints(w) == UNION {ServedBy(w[j]) : j \in Hinters(w)}

\* The dials that charge an endpoint, and those that were recorded.
Tries(w, e) == UNION {{j} \X Unanswered(w[j], e) : j \in Hinters(w)}
Charged(w, e) == {d \in Tries(w, e) : w[d[1]].at = "done"}
Charges(w) == [e \in Endpoints(w) |-> Cardinality(Charged(w, e))]

Quiet(w) ==
    /\ \A j \in Hinters(w) : w[j].locks
    /\ Cardinality(Endpoints(w)) <= MaxHints
    /\ \A e \in Endpoints(w) : Cardinality(Tries(w, e)) < MaxFailures

KeptOK(w, lock, p) ==
    /\ \A j \in Hinters(w) : w[j].at = "write" => lock = j /\ w[j].seen = p
    /\ Tame(p, Endpoints(w), Charges(w))
    /\ \A j \in Hinters(w) : w[j].at = "done" => \A e \in ServedBy(w[j]) : Holds(p, e)

HintInv ==
    /\ Capped(peers) /\ hintsLock \in Jobs \cup {0} /\ IsFiniteSet(Jobs)
    /\ \A j \in Hinters(work) : Capped(work[j].seen)
    /\ Quiet(work) => KeptOK(work, hintsLock, peers)

\* The writers and what they were asked to record stay the same.
LEMMA SameHinters ==
    ASSUME NEW w, NEW v, DOMAIN v = DOMAIN w, \A j \in DOMAIN w : Later(w[j], v[j])
    PROVE  /\ Hinters(v) = Hinters(w) /\ Endpoints(v) = Endpoints(w)
           /\ \A e : Tries(v, e) = Tries(w, e)
           /\ Quiet(v) <=> Quiet(w)
           /\ \A j \in Hinters(w) : v[j].results = w[j].results
  <1>1. Hinters(v) = Hinters(w)
    BY DEF Hinters, Later
  <1>2. \A j \in Hinters(w) : v[j].results = w[j].results /\ v[j].locks = w[j].locks
    BY DEF Hinters, Later
  <1>3. Endpoints(v) = Endpoints(w)
    <2>1. \A j \in Hinters(w) : ServedBy(v[j]) = ServedBy(w[j])
      BY <1>2 DEF ServedBy
    <2> QED
      BY <1>1, <2>1 DEF Endpoints
  <1>4. ASSUME NEW e
        PROVE  Tries(v, e) = Tries(w, e)
    <2>1. \A j \in Hinters(w) : Unanswered(v[j], e) = Unanswered(w[j], e)
      BY <1>2 DEF Unanswered
    <2> QED
      BY <1>1, <2>1 DEF Tries
  <1>5. Quiet(v) <=> Quiet(w)
    BY <1>1, <1>2, <1>3, <1>4 DEF Quiet
  <1> QED
    BY <1>1, <1>2, <1>3, <1>4, <1>5

\* The places in a list of results are finitely many, and so is what stands there.
LEMMA FiniteResults ==
    ASSUME NEW o, o.results \in Seq(Range(o.results))
    PROVE  IsFiniteSet(ServedBy(o)) /\ \A e : IsFiniteSet(Unanswered(o, e))
  <1> DEFINE s == o.results
             P == {n \in DOMAIN s : s[n].status = "accepted"}
             f == [n \in P |-> s[n].endpoint]
  <1>1. IsFiniteSet(DOMAIN s)
    <2>1. Len(s) \in Nat /\ DOMAIN s = 1 .. Len(s)
      BY LenProperties
    <2> QED
      BY <2>1, FS_Interval
  <1>2. P \in SUBSET DOMAIN s /\ \A e : Unanswered(o, e) \in SUBSET DOMAIN s
    BY DEF Unanswered
  <1>3. f \in Surjection(P, ServedBy(o))
    BY DEF Surjection, ServedBy, Range
  <1> HIDE DEF s, P, f
  <1>4. IsFiniteSet(P) /\ \A e : IsFiniteSet(Unanswered(o, e))
    BY <1>1, <1>2, FS_Subset
  <1> QED
    BY <1>3, <1>4, FS_Surjection

\* The endpoints are finitely many, and so are the dials that charge one.
LEMMA FiniteCharges ==
    ASSUME NEW w, IsFiniteSet(DOMAIN w),
           \A j \in Hinters(w) : w[j].results \in Seq(Range(w[j].results))
    PROVE  /\ IsFiniteSet(Endpoints(w)) /\ Charges(w) \in [Endpoints(w) -> Nat]
           /\ \A e : IsFiniteSet(Tries(w, e))
  <1>1. IsFiniteSet(Hinters(w))
    <2>1. Hinters(w) \in SUBSET DOMAIN w
      BY DEF Hinters
    <2> QED
      BY <2>1, FS_Subset
  <1>2. ASSUME NEW e
        PROVE  IsFiniteSet(Tries(w, e))
    <2> DEFINE f == [j \in Hinters(w) |-> {j} \X Unanswered(w[j], e)]
               T == {{j} \X Unanswered(w[j], e) : j \in Hinters(w)}
    <2>1. f \in Surjection(Hinters(w), T)
      BY DEF Surjection
    <2>2. \A s \in T : IsFiniteSet(s)
      <3> SUFFICES ASSUME NEW j \in Hinters(w)
                   PROVE  IsFiniteSet({j} \X Unanswered(w[j], e))
        OBVIOUS
      <3>1. IsFiniteSet(Unanswered(w[j], e))
        BY FiniteResults
      <3>2. IsFiniteSet({j})
        BY FS_Singleton
      <3> QED
        BY <3>1, <3>2, FS_Product
    <2>3. Tries(w, e) = UNION T
      BY DEF Tries
    <2> HIDE DEF f, T
    <2>4. IsFiniteSet(T)
      BY <1>1, <2>1, FS_Surjection
    <2> QED
      BY <2>2, <2>3, <2>4, FS_UNION
  <1>3. IsFiniteSet(Endpoints(w))
    <2> DEFINE f == [j \in Hinters(w) |-> ServedBy(w[j])]
               T == {ServedBy(w[j]) : j \in Hinters(w)}
    <2>1. f \in Surjection(Hinters(w), T)
      BY DEF Surjection
    <2>2. \A s \in T : IsFiniteSet(s)
      BY FiniteResults
    <2>3. Endpoints(w) = UNION T
      BY DEF Endpoints
    <2> HIDE DEF f, T
    <2>4. IsFiniteSet(T)
      BY <1>1, <2>1, FS_Surjection
    <2> QED
      BY <2>2, <2>3, <2>4, FS_UNION
  <1>4. Charges(w) \in [Endpoints(w) -> Nat]
    <2>1. ASSUME NEW e
          PROVE  Cardinality(Charged(w, e)) \in Nat
      <3>1. Charged(w, e) \in SUBSET Tries(w, e)
        BY DEF Charged
      <3> QED
        BY <1>2, <3>1, FS_Subset, FS_CardinalityType
    <2> QED
      BY <2>1 DEF Charges
  <1> QED
    BY <1>2, <1>3, <1>4

\* A home without hints.
LEMMA InitHints ==
    ASSUME Init
    PROVE  HintInv
  <1>1. peers = <<>> /\ hintsLock = 0
    BY DEF Init
  <1>2. HintList(<<>>) /\ Len(<<>>) = 0 /\ DOMAIN <<>> = {}
    BY DEF HintList
  <1>3. Capped(<<>>)
    BY <1>2, HintAssumption DEF Capped
  <1>4. \A j \in Hinters(work) : work[j].seen = <<>> /\ work[j].at = "start"
    BY InitWork, OperationFacts DEF Hinters, Jobs
  <1>5. IsFiniteSet(Jobs)
    <2>1. PICK w \in Workloads : work = w
      BY DEF Init
    <2>2. work \in Seq(Range(work))
      BY <2>1, WorkAssumption
    <2>3. Jobs = 1 .. Len(work) /\ Len(work) \in Nat
      BY <2>2, LenProperties DEF Jobs
    <2> QED
      BY <2>3, FS_Interval
  <1>6. KeptOK(work, hintsLock, peers)
    BY <1>1, <1>2, <1>4 DEF KeptOK, Tame
  <1> QED
    BY <1>1, <1>3, <1>4, <1>5, <1>6 DEF HintInv

\* Steps that are not of a writer of hints.
LEMMA AsideHints ==
    ASSUME WorkInv, HintInv, Aside({"hint"}), UNCHANGED peers,
           hintsLock' \in {hintsLock, 0},
           \A k \in Jobs : work'[k].at = "write" /\ hintsLock = k => hintsLock' = k
    PROVE  HintInv'
  <1>1. DOMAIN work' = DOMAIN work /\ \A j \in DOMAIN work : Later(work[j], work'[j])
    BY DEF Aside, Jobs
  <1>2. /\ Hinters(work') = Hinters(work) /\ Endpoints(work') = Endpoints(work)
        /\ \A e : Tries(work', e) = Tries(work, e)
        /\ Quiet(work') <=> Quiet(work)
        /\ \A j \in Hinters(work) : work'[j].results = work[j].results
    BY <1>1, SameHinters
  <1>3. ASSUME NEW j \in Hinters(work)
        PROVE  /\ work'[j].seen = work[j].seen
               /\ work'[j].at = "write" => work[j].at = "write"
               /\ work'[j].at = "done" <=> work[j].at = "done"
    <2>1. j \in Jobs /\ work[j].kind = "hint"
      BY DEF Hinters, Jobs
    <2> QED
      BY <2>1 DEF Aside, Killed, SameRest
  <1>4. Charges(work') = Charges(work)
    <2>1. \A e : \A d \in Tries(work, e) : d[1] \in Hinters(work)
      BY DEF Tries
    <2>2. \A e : Charged(work', e) = Charged(work, e)
      BY <1>2, <1>3, <2>1 DEF Charged
    <2> QED
      BY <1>2, <2>2 DEF Charges
  <1>5. ASSUME Quiet(work')
        PROVE  KeptOK(work', hintsLock', peers)
    <2>1. KeptOK(work, hintsLock, peers)
      BY <1>2, <1>5 DEF HintInv
    <2>2. ASSUME NEW j \in Hinters(work), work'[j].at = "write"
          PROVE  hintsLock' = j /\ work'[j].seen = peers
      <3>1. j \in Jobs /\ hintsLock = j /\ work[j].seen = peers
        BY <1>3, <2>1, <2>2 DEF KeptOK, Hinters, Jobs
      <3> QED
        BY <1>3, <2>2, <3>1
    <2>3. Tame(peers, Endpoints(work'), Charges(work'))
      BY <1>2, <1>4, <2>1 DEF KeptOK
    <2>4. ASSUME NEW j \in Hinters(work), work'[j].at = "done"
          PROVE  \A e \in ServedBy(work'[j]) : Holds(peers, e)
      <3>1. ServedBy(work'[j]) = ServedBy(work[j]) /\ work[j].at = "done"
        BY <1>2, <1>3, <2>4 DEF ServedBy
      <3> QED
        BY <2>1, <3>1 DEF KeptOK
    <2> QED
      BY <1>2, <2>2, <2>3, <2>4 DEF KeptOK
  <1>6. Jobs' = Jobs
    BY <1>1 DEF Jobs
  <1>7. /\ Capped(peers) /\ hintsLock' \in Jobs \cup {0} /\ IsFiniteSet(Jobs)
        /\ \A j \in Hinters(work') : Capped(work'[j].seen)
    BY <1>2, <1>3 DEF HintInv
  <1>8. peers' = peers
    OBVIOUS
  <1>9. Capped(peers') /\ (Quiet(work') => KeptOK(work', hintsLock', peers'))
    BY <1>5, <1>7, <1>8
  <1> QED
    BY <1>6, <1>7, <1>9 DEF HintInv, Capped, HintList, Quiet, KeptOK, Hinters, Endpoints, Charges

\* A writer reads the file, which nobody is about to write if it locked it.
LEMMA ReadPeersHints ==
    ASSUME WorkInv, HintInv, NEW j \in Jobs, ReadPeers(j)
    PROVE  HintInv'
  <1>1. /\ Shape(work[j]) /\ Inputs(work[j]) /\ work[j].kind = "hint" /\ work[j].at = "start"
        /\ j \in Hinters(work)
    BY DEF WorkInv, ReadPeers, Is, Hinters, Jobs
  <1>2. OneMoves(j) /\ work'[j].seen = peers /\ work'[j].at = "write"
    BY <1>1, ReadPeersMoves
  <1>3. /\ peers' = peers /\ (work[j].locks => hintsLock = 0)
        /\ hintsLock' = IF work[j].locks THEN j ELSE hintsLock
    BY DEF ReadPeers
  <1>4. /\ DOMAIN work' = DOMAIN work /\ \A k \in Jobs : k # j => work'[k] = work[k]
        /\ \A k \in DOMAIN work : Later(work[k], work'[k])
    BY <1>2, SameIsLater DEF OneMoves, Jobs
  <1>5. /\ Hinters(work') = Hinters(work) /\ Endpoints(work') = Endpoints(work)
        /\ \A e : Tries(work', e) = Tries(work, e)
        /\ Quiet(work') <=> Quiet(work)
        /\ \A k \in Hinters(work) : work'[k].results = work[k].results
    BY <1>4, SameHinters
  <1>6. \A k \in Hinters(work) : k \in Jobs
    BY DEF Hinters, Jobs
  <1>7. Charges(work') = Charges(work)
    <2>1. \A k \in Hinters(work) : work'[k].at = "done" <=> work[k].at = "done"
      BY <1>1, <1>2, <1>4, <1>6
    <2>2. \A e : \A d \in Tries(work, e) : d[1] \in Hinters(work)
      BY DEF Tries
    <2>3. \A e : Charged(work', e) = Charged(work, e)
      BY <1>5, <2>1, <2>2 DEF Charged
    <2> QED
      BY <1>5, <2>3 DEF Charges
  <1>8. ASSUME Quiet(work')
        PROVE  KeptOK(work', hintsLock', peers')
    <2>1. KeptOK(work, hintsLock, peers) /\ work[j].locks
      BY <1>1, <1>5, <1>8 DEF HintInv, Quiet
    <2>2. hintsLock = 0 /\ hintsLock' = j
      BY <1>3, <2>1
    <2>3. ASSUME NEW k \in Hinters(work), work'[k].at = "write"
          PROVE  hintsLock' = k /\ work'[k].seen = peers
      <3>1. CASE k = j
        BY <1>2, <2>2, <3>1
      <3>2. CASE k # j
        <4>1. hintsLock = k /\ k \in Nat \ {0}
          BY <1>4, <1>6, <2>1, <2>3, <3>2 DEF KeptOK, WorkInv
        <4> QED
          BY <2>2, <4>1
      <3> QED
        BY <3>1, <3>2
    <2>4. ASSUME NEW k \in Hinters(work), work'[k].at = "done"
          PROVE  \A e \in ServedBy(work'[k]) : Holds(peers, e)
      <3>1. work'[k] = work[k]
        BY <1>2, <1>4, <1>6, <2>4
      <3> QED
        BY <2>1, <2>4, <3>1 DEF KeptOK
    <2> QED
      BY <1>3, <1>5, <1>7, <2>1, <2>3, <2>4 DEF KeptOK
  <1>9. \A k \in Hinters(work') : Capped(work'[k].seen)
    <2>1. Capped(peers)
      BY DEF HintInv
    <2> QED
      BY <1>2, <1>4, <1>5, <1>6, <2>1 DEF HintInv
  <1>10. Jobs' = Jobs
    BY <1>4 DEF Jobs
  <1>11. Capped(peers') /\ hintsLock' \in Jobs \cup {0} /\ IsFiniteSet(Jobs)
    BY <1>3 DEF HintInv
  <1> QED
    BY <1>8, <1>9, <1>10, <1>11 DEF HintInv, Capped, HintList, Quiet, KeptOK, Hinters, Endpoints, Charges

\* What is recorded of one exchange is within the cap, ...
LEMMA RecordedFacts ==
    ASSUME NEW j \in Jobs, Inputs(work[j]), work[j].kind = "hint", Capped(work[j].seen)
    PROVE  Capped(Recorded(j))
  <1> DEFINE b == RecordResults(work[j].seen, work[j].results)
  <1>1. Recorded(j) = Prune(b, Now)
    BY DEF Recorded
  <1>2. Capped(b)
    BY ResultsFacts DEF Inputs
  <1> HIDE DEF b
  <1>3. HintList(b) /\ Len(b) <= MaxHints /\ Len(b) \in Nat /\ MaxHints \in Nat
    BY <1>2, LenProperties, HintAssumption DEF Capped, HintList
  <1>4. HintList(Prune(b, Now)) /\ Len(Prune(b, Now)) \in Nat /\ Len(Prune(b, Now)) <= Len(b)
    BY <1>3, PruneFacts
  <1>5. Len(Prune(b, Now)) <= MaxHints
    BY <1>3, <1>4
  <1> QED
    BY <1>1, <1>4, <1>5 DEF Capped

\* ... and keeps every hint while nobody is evicted.
LEMMA RecordedTame ==
    ASSUME NEW j \in Jobs, Inputs(work[j]), work[j].kind = "hint", HintList(work[j].seen),
           NEW U, NEW D, Tame(work[j].seen, U, D[0]),
           \A n \in 1 .. Len(work[j].results) : MayRecord(work[j].results[n], U, D[n - 1], D[n])
    PROVE  /\ Tame(Recorded(j), U, D[Len(work[j].results)]) /\ StillHolds(work[j].seen, Recorded(j))
           /\ \A e \in ServedBy(work[j]) : Holds(Recorded(j), e)
  <1> DEFINE s == work[j].seen
             results == work[j].results
             b == RecordResults(s, results)
             r == Prune(b, Now)
  <1>1. results \in Seq(Range(results)) /\ HintList(s)
    BY DEF Inputs
  <1>2. Recorded(j) = r
    BY DEF Recorded
  <1>3. /\ Tame(s, U, D[0]) /\ \A n \in 1 .. Len(results) : MayRecord(results[n], U, D[n - 1], D[n])
    OBVIOUS
  <1>4. \A e \in ServedBy(work[j]) : \E n \in DOMAIN results : /\ results[n].endpoint = e
                                                               /\ results[n].status = "accepted"
    BY DEF ServedBy, Range
  <1> HIDE DEF s, results
  <1>5. DOMAIN results = 1 .. Len(results)
    BY <1>1, LenProperties
  <1>6. /\ HintList(b) /\ Tame(b, U, D[Len(results)]) /\ StillHolds(s, b)
        /\ \A n \in 1 .. Len(results) : results[n].status = "accepted" => Holds(b, results[n].endpoint)
    BY <1>1, <1>3, ResultsTame
  <1> HIDE DEF b
  <1>7. Tame(r, U, D[Len(results)]) /\ StillHolds(b, r)
    BY <1>6, PruneFacts
  <1> HIDE DEF r
  <1>8. StillHolds(s, r) /\ \A e \in ServedBy(work[j]) : Holds(r, e)
    BY <1>4, <1>5, <1>6, <1>7 DEF StillHolds
  <1> QED
    BY <1>2, <1>7, <1>8 DEF s, results

\* A writer writes what it read with its own records.
LEMMA WritePeersHints ==
    ASSUME WorkInv, HintInv, NEW j \in Jobs, WritePeers(j)
    PROVE  HintInv'
  <1>1. /\ Shape(work[j]) /\ Inputs(work[j]) /\ work[j].kind = "hint" /\ work[j].at = "write"
        /\ j \in Hinters(work)
    BY DEF WorkInv, WritePeers, Is, Hinters, Jobs
  <1>2. OneMoves(j) /\ SameRest(work[j], work'[j]) /\ work'[j].at = "done"
    <2>1. Goto(j, "done")
      BY DEF WritePeers
    <2> QED
      BY <1>1, <2>1, GotoMoves
  <1>3. /\ peers' = IF Recorded(j) = work[j].seen THEN peers ELSE Recorded(j)
        /\ hintsLock' = IF hintsLock = j THEN 0 ELSE hintsLock
    BY DEF WritePeers
  <1>4. /\ DOMAIN work' = DOMAIN work /\ \A k \in Jobs : k # j => work'[k] = work[k]
        /\ \A k \in DOMAIN work : Later(work[k], work'[k])
    BY <1>2, SameIsLater DEF OneMoves, Jobs
  <1>5. /\ Hinters(work') = Hinters(work) /\ Endpoints(work') = Endpoints(work)
        /\ \A e : Tries(work', e) = Tries(work, e)
        /\ Quiet(work') <=> Quiet(work)
        /\ \A k \in Hinters(work) : work'[k].results = work[k].results
    BY <1>4, SameHinters
  <1>6. \A k \in Hinters(work) : k \in Jobs
    BY DEF Hinters, Jobs
  <1>7. work'[j].seen = work[j].seen
    BY <1>1, <1>2 DEF SameRest
  <1>8. Capped(work[j].seen) /\ Capped(peers) /\ Capped(Recorded(j))
    BY <1>1, RecordedFacts DEF HintInv
  <1>9. ASSUME Quiet(work')
        PROVE  KeptOK(work', hintsLock', peers')
    <2> DEFINE U == Endpoints(work)
               results == work[j].results
               N == Len(results)
               r == Recorded(j)
               \* The dials that charge x, up to the n-th of this writer.
               part(n, x) == Charged(work, x) \cup ({j} \X {m \in Unanswered(work[j], x) : m <= n})
               D == [n \in 0 .. N |-> [x \in U |-> Cardinality(part(n, x))]]
    <2>1. Quiet(work) /\ KeptOK(work, hintsLock, peers)
      BY <1>5, <1>9 DEF HintInv
    <2>2. hintsLock = j /\ work[j].seen = peers /\ peers' = r
      BY <1>1, <1>3, <2>1 DEF KeptOK
    <2>3. \A k \in Hinters(work) : work[k].results \in Seq(Range(work[k].results))
      BY <1>6 DEF WorkInv, Inputs, Hinters
    <2>4. IsFiniteSet(U) /\ \A e : IsFiniteSet(Tries(work, e))
      <3>1. IsFiniteSet(DOMAIN work)
        BY DEF HintInv, Jobs
      <3> QED
        BY <2>3, <3>1, FiniteCharges
    <2>5. N \in Nat /\ DOMAIN results = 1 .. N
      BY <1>1, <2>3, LenProperties
    <2>6. ASSUME NEW n \in 0 .. N, NEW x \in U
          PROVE  /\ IsFiniteSet(part(n, x)) /\ Cardinality(part(n, x)) \in Nat
                 /\ Cardinality(part(n, x)) < MaxFailures
      <3>1. part(n, x) \in SUBSET Tries(work, x)
        BY <1>1 DEF Charged, Tries
      <3>2. Cardinality(Tries(work, x)) < MaxFailures
        BY <2>1 DEF Quiet
      <3> HIDE DEF part
      <3>3. IsFiniteSet(part(n, x)) /\ Cardinality(part(n, x)) <= Cardinality(Tries(work, x))
        BY <2>4, <3>1, FS_Subset
      <3>4. Cardinality(part(n, x)) \in Nat /\ Cardinality(Tries(work, x)) \in Nat /\ MaxFailures \in Nat
        BY <2>4, <3>3, FS_CardinalityType, HintAssumption
      <3> QED
        BY <3>2, <3>3, <3>4
    <2>7. \A n \in 0 .. N : D[n] \in [U -> Nat] /\ \A x \in U : D[n][x] = Cardinality(part(n, x))
      <3> HIDE DEF part
      <3> QED
        BY <2>6
    <2>8. ASSUME NEW n \in 1 .. N
          PROVE  MayRecord(results[n], U, D[n - 1], D[n])
      <3> DEFINE e == results[n].endpoint
      <3>1. n \in 0 .. N /\ n - 1 \in 0 .. N /\ n \in DOMAIN results
        BY <2>5
      <3>2. results[n].status = "accepted" => e \in U
        <4>1. results[n].status = "accepted" => e \in ServedBy(work[j])
          BY <3>1 DEF ServedBy, Range
        <4> QED
          BY <1>1, <4>1 DEF Endpoints
      <3>3. ASSUME NEW x
            PROVE  IF results[n].status = "unreachable" /\ x = e
                   THEN part(n, x) = part(n - 1, x) \cup {<<j, n>>} /\ <<j, n>> \notin part(n - 1, x)
                   ELSE part(n, x) = part(n - 1, x)
        <4>1. Unanswered(work[j], x) \subseteq 1 .. N
          BY <2>5 DEF Unanswered
        <4>2. n \in Unanswered(work[j], x) <=> results[n].status = "unreachable" /\ x = e
          BY <3>1 DEF Unanswered
        <4>3. \A m \in 1 .. N : m <= n <=> m <= n - 1 \/ m = n
          BY <2>5
        <4>4. ~(n <= n - 1)
          BY <2>5
        <4>5. \A d \in Charged(work, x) : d[1] # j
          BY <1>1 DEF Charged
        <4> QED
          BY <4>1, <4>2, <4>3, <4>4, <4>5
      <3> HIDE DEF part, D
      <3>4. CASE results[n].status = "unreachable"
        <4>1. ASSUME NEW x \in U
              PROVE  /\ D[n - 1][x] <= D[n][x] /\ D[n][x] < MaxFailures
                     /\ x = e => D[n - 1][x] + 1 <= D[n][x]
          <5>1. /\ D[n][x] = Cardinality(part(n, x)) /\ D[n - 1][x] = Cardinality(part(n - 1, x))
                /\ Cardinality(part(n, x)) \in Nat /\ Cardinality(part(n - 1, x)) \in Nat
                /\ Cardinality(part(n, x)) < MaxFailures /\ IsFiniteSet(part(n - 1, x))
            BY <2>6, <2>7, <3>1
          <5>2. CASE x = e
            <6>1. part(n, x) = part(n - 1, x) \cup {<<j, n>>} /\ <<j, n>> \notin part(n - 1, x)
              BY <3>3, <3>4, <5>2
            <6>2. Cardinality(part(n, x)) = Cardinality(part(n - 1, x)) + 1
              BY <5>1, <6>1, FS_AddElement
            <6> QED
              BY <5>1, <6>2
          <5>3. CASE x # e
            <6>1. part(n, x) = part(n - 1, x)
              BY <3>3, <5>3
            <6> QED
              BY <5>1, <5>3, <6>1
          <5> QED
            BY <5>2, <5>3
        <4>2. MayCharge(e, U, D[n - 1], D[n])
          BY <2>7, <3>1, <4>1 DEF MayCharge
        <4>3. D[n - 1] \in [U -> Nat] /\ Cardinality(U) <= MaxHints
          BY <2>1, <2>7, <3>1 DEF Quiet
        <4> QED
          BY <2>4, <3>2, <3>4, <4>2, <4>3 DEF MayRecord
      <3>5. CASE results[n].status # "unreachable"
        <4>1. \A x \in U : part(n, x) = part(n - 1, x)
          BY <3>3, <3>5
        <4>2. D[n - 1] \in [U -> Nat] /\ D[n] \in [U -> Nat] /\ Cardinality(U) <= MaxHints
          BY <2>1, <2>7, <3>1 DEF Quiet
        <4>3. \A x \in U : D[n][x] = D[n - 1][x]
          BY <2>7, <3>1, <4>1
        <4>4. D[n] = D[n - 1]
          BY <4>2, <4>3
        <4> QED
          BY <2>4, <3>2, <3>5, <4>2, <4>4 DEF MayRecord
      <3> QED
        BY <3>4, <3>5
    <2>9. D[0] = Charges(work)
      <3>1. \A x \in U : part(0, x) = Charged(work, x)
        <4>1. \A x : \A m \in Unanswered(work[j], x) : ~(m <= 0)
          BY <2>5 DEF Unanswered
        <4> QED
          BY <4>1
      <3>2. 0 \in 0 .. N
        BY <2>5
      <3>3. D[0] = [x \in U |-> Cardinality(part(0, x))]
        BY <3>2
      <3> HIDE DEF part, D
      <3> QED
        BY <3>1, <3>3 DEF Charges
    <2>10. D[N] = Charges(work')
      <3>1. ASSUME NEW x
            PROVE  part(N, x) = Charged(work', x)
        <4>1. \A m \in Unanswered(work[j], x) : m <= N
          BY <2>5 DEF Unanswered
        <4>2. part(N, x) = Charged(work, x) \cup ({j} \X Unanswered(work[j], x))
          BY <4>1
        <4>3. \A d \in Tries(work, x) : /\ d[1] \in Hinters(work)
                                        /\ d[1] = j => d \in {j} \X Unanswered(work[j], x)
          BY DEF Tries
        <4>4. {j} \X Unanswered(work[j], x) \subseteq Tries(work, x)
          BY <1>1 DEF Tries
        <4>5. \A d \in Tries(work, x) : d[1] # j => work'[d[1]] = work[d[1]]
          BY <1>4, <1>6, <4>3
        <4>6. \A d \in {j} \X Unanswered(work[j], x) : d[1] = j
          OBVIOUS
        <4> HIDE DEF part
        <4>7. ASSUME NEW d \in Tries(work, x)
              PROVE  work'[d[1]].at = "done" <=> (work[d[1]].at = "done" \/ d \in {j} \X Unanswered(work[j], x))
          BY <1>1, <1>2, <4>3, <4>5, <4>6
        <4>8. Tries(work', x) = Tries(work, x)
          BY <1>5
        <4> QED
          BY <4>2, <4>4, <4>7, <4>8 DEF Charged
      <3>2. N \in 0 .. N
        BY <2>5
      <3>3. D[N] = [x \in U |-> Cardinality(part(N, x))]
        BY <3>2
      <3> HIDE DEF part, D
      <3> QED
        BY <1>5, <3>1, <3>3 DEF Charges
    <2>11. HintList(work[j].seen) /\ Tame(work[j].seen, U, D[0])
      BY <1>8, <2>1, <2>2, <2>9 DEF Capped, KeptOK
    <2>12. Endpoints(work') = U
      BY <1>5
    <2> HIDE DEF U, D, part, N, results
    <2>13. /\ Tame(r, U, D[N]) /\ StillHolds(peers, r)
          /\ \A e \in ServedBy(work[j]) : Holds(r, e)
      <3>1. \A n \in 1 .. Len(work[j].results) : MayRecord(work[j].results[n], U, D[n - 1], D[n])
        BY <2>8 DEF N, results
      <3>2. /\ Tame(r, U, D[Len(work[j].results)]) /\ StillHolds(work[j].seen, r)
            /\ \A e \in ServedBy(work[j]) : Holds(r, e)
        BY <1>1, <2>11, <3>1, RecordedTame
      <3> QED
        BY <2>2, <3>2 DEF N, results
    <2> HIDE DEF r
    <2>14. ASSUME NEW k \in Hinters(work), work'[k].at = "write"
           PROVE  FALSE
      <3>1. k # j /\ work'[k] = work[k]
        BY <1>2, <1>4, <1>6, <2>14
      <3>2. hintsLock = k
        BY <2>1, <2>14, <3>1 DEF KeptOK
      <3> QED
        BY <2>2, <3>1, <3>2
    <2>15. ASSUME NEW k \in Hinters(work), work'[k].at = "done"
           PROVE  \A e \in ServedBy(work'[k]) : Holds(r, e)
      <3>1. CASE k = j
        BY <1>1, <1>5, <2>13, <3>1 DEF ServedBy
      <3>2. CASE k # j
        <4>1. work'[k] = work[k]
          BY <1>4, <1>6, <3>2
        <4>2. \A e \in ServedBy(work[k]) : Holds(peers, e)
          BY <2>1, <2>15, <4>1 DEF KeptOK
        <4> QED
          BY <2>13, <4>1, <4>2 DEF StillHolds
      <3> QED
        BY <3>1, <3>2
    <2>16. Tame(peers', Endpoints(work'), Charges(work'))
      BY <2>2, <2>13, <2>10, <2>12
    <2>17. \A k \in Hinters(work') : work'[k].at = "done" => \A e \in ServedBy(work'[k]) : Holds(peers', e)
      BY <1>5, <2>2, <2>15
    <2>18. \A k \in Hinters(work') : work'[k].at = "write" => hintsLock' = k /\ work'[k].seen = peers'
      BY <1>5, <2>14
    <2> QED
      BY <2>16, <2>17, <2>18 DEF KeptOK
  <1>10. \A k \in Hinters(work') : Capped(work'[k].seen)
    BY <1>4, <1>5, <1>6, <1>7, <1>8 DEF HintInv
  <1>11. Jobs' = Jobs
    BY <1>4 DEF Jobs
  <1>12. Capped(peers') /\ hintsLock' \in Jobs \cup {0} /\ IsFiniteSet(Jobs)
    BY <1>3, <1>8 DEF HintInv
  <1> QED
    BY <1>9, <1>10, <1>11, <1>12 DEF HintInv, Capped, HintList, Quiet, KeptOK, Hinters, Endpoints, Charges

\* A process that stops gives back its mutex, and no hint.
LEMMA CrashHints ==
    ASSUME WorkInv, HintInv, NEW p, Crash(p)
    PROVE  HintInv'
  <1> DEFINE killed == {j \in Jobs : work[j].proc = p /\ ~Ended(j) /\ work[j].at # "start"}
             q(j) == At(work[j], "dead")
  <1>1. /\ work' = [j \in Jobs |-> IF j \in killed THEN q(j) ELSE work[j]]
        /\ hintsLock' = IF hintsLock \in killed THEN 0 ELSE hintsLock
        /\ peers' = peers
    BY DEF Crash, At, files
  <1>2. ASSUME NEW k \in Jobs, work'[k].at = "write", hintsLock = k
        PROVE  hintsLock' = k
    <2>1. q(k).at = "dead"
      BY Going DEF WorkInv
    <2>2. k \notin killed
      BY <1>1, <1>2, <2>1
    <2> HIDE DEF killed
    <2> QED
      BY <1>1, <1>2, <2>2
  <1>3. hintsLock' \in {hintsLock, 0}
    BY <1>1
  <1>4. Aside({"hint"})
    BY CrashAside
  <1> QED
    BY <1>1, <1>2, <1>3, <1>4, AsideHints

\* The three invariants of the side records are inductive.
LEMMA StepSide ==
    ASSUME WorkInv, BindInv, MintInv, HintInv, [Next]_vars
    PROVE  (BindInv /\ MintInv /\ HintInv)'
  <1>0. hintsLock \in {hintsLock, 0}
    OBVIOUS
  <1>1. ASSUME NEW j \in Jobs, OneMoves(j),
               \/ CrawlStep(j) /\ work[j].kind \in {"sync", "lookup"}
               \/ HomeStep(j) /\ work[j].kind \in {"serve", "set_default"}
        PROVE  (BindInv /\ MintInv /\ HintInv)'
    <2>1. Aside({"bind"}) /\ Aside({"create"}) /\ Aside({"hint"})
      BY <1>1, OneMovesAside
    <2>2. UNCHANGED <<bindings, identities, peers, hintsLock>>
      <3>1. CASE CrawlStep(j)
        BY <3>1 DEF CrawlStep, MakeGeneration, WriteFile, WriteFails, SetCurrent, CollectList,
           CollectStep, ReadPointer, ReadSummary, ListNodes, ReadNode, GraphOnly
      <3>2. CASE HomeStep(j)
        BY <3>2 DEF HomeStep, OpenOrCreate, CheckHome, WriteHomeFile, StartNode, LoadConfig,
           LoadKey, BindHttp, StopHttp, StopPeers, CheckReachable, ReadConfig, WriteConfig, HomeOnly
      <3> QED
        BY <1>1, <3>1, <3>2
    <2>3. HintInv'
      BY <2>1, <2>2, AsideHints
    <2>4. BindInv' /\ MintInv'
      BY <2>1, <2>2, AsideBindings, AsideMints
    <2> QED
      BY <2>3, <2>4
  <1>2. ASSUME NEW j \in Jobs, OneMoves(j), HintStep(j), work[j].kind = "hint"
        PROVE  (BindInv /\ MintInv /\ HintInv)'
    <2>1. Aside({"bind"}) /\ Aside({"create"})
      BY <1>2, OneMovesAside
    <2>2. UNCHANGED <<bindings, identities>>
      BY <1>2 DEF HintStep, ReadPeers, WritePeers, HintsOnly
    <2>3. HintInv'
      BY <1>2, ReadPeersHints, WritePeersHints DEF HintStep
    <2> QED
      BY <2>1, <2>2, <2>3, AsideBindings, AsideMints
  <1>3. ASSUME NEW j \in Jobs, OneMoves(j), BindStep(j), work[j].kind = "bind"
        PROVE  (BindInv /\ MintInv /\ HintInv)'
    <2>1. Aside({"create"}) /\ Aside({"hint"})
      BY <1>3, OneMovesAside
    <2>2. UNCHANGED <<identities, peers, hintsLock>>
      BY <1>3 DEF BindStep, ReadBindings, RecordBindings, BindOnly
    <2>3. HintInv'
      BY <2>1, <2>2, AsideHints
    <2> QED
      BY <1>3, <2>1, <2>2, <2>3, MovesBindings, AsideMints
  <1>4. ASSUME NEW j \in Jobs, OneMoves(j), CreateStep(j), work[j].kind = "create"
        PROVE  (BindInv /\ MintInv /\ HintInv)'
    <2>1. Aside({"bind"}) /\ Aside({"hint"})
      BY <1>4, OneMovesAside
    <2>2. UNCHANGED <<bindings, peers, hintsLock>>
      BY <1>4 DEF CreateStep, CheckAlias, WriteNext, WriteMeta, CreateOnly
    <2>3. HintInv'
      BY <2>1, <2>2, AsideHints
    <2> QED
      BY <1>4, <2>1, <2>2, <2>3, AsideBindings, StepCreateMints
  <1>5. ASSUME NEW p, Crash(p)
        PROVE  (BindInv /\ MintInv /\ HintInv)'
    <2>1. Aside({"bind"}) /\ Aside({"create"})
      BY <1>5, CrashAside
    <2>2. UNCHANGED <<bindings, identities>>
      BY <1>5 DEF Crash, files
    <2> QED
      BY <1>5, <2>1, <2>2, CrashHints, AsideBindings, AsideMints
  <1>6. CASE UNCHANGED vars
    <2>1. UNCHANGED <<bindings, identities, peers, hintsLock>> /\ work' = work
      BY <1>6 DEF vars, files
    <2>2. Aside({"bind"}) /\ Aside({"create"}) /\ Aside({"hint"})
      BY <2>1, StutterAside
    <2>3. HintInv'
      BY <2>1, <2>2, AsideHints
    <2> QED
      BY <2>1, <2>2, <2>3, AsideBindings, AsideMints
  <1> QED
    BY <1>1, <1>2, <1>3, <1>4, <1>5, <1>6, NextSteps

\* SideRecordsHold: hints stay within their cap and fetchers that lock keep each
\* other's, the endpoints a witness's ledger vouches for come from one chain and
\* never include the one it was read from; a finished create leaves a ledger that
\* can be signed for, and a stopped one a ledger that can be signed for as soon as
\* it is there, or, when another identity founded it, one that is not listed
\* (record_hints, bindings::apply, create_identity).
THEOREM SideTheorem == Spec => []SideRecordsHold
  <1>1. Init => WorkInv /\ CrawlInv /\ BindInv /\ MintInv /\ HintInv
    BY InitWork, InitCrawls, InitBindings, InitMints, InitHints
  <1>2. WorkInv /\ CrawlInv /\ BindInv /\ MintInv /\ HintInv /\ [Next]_vars
        => (WorkInv /\ CrawlInv /\ BindInv /\ MintInv /\ HintInv)'
    BY StepWork, StepCrawls, StepSide
  <1>3. WorkInv /\ CrawlInv /\ BindInv /\ MintInv /\ HintInv => SideRecordsHold
    <2> SUFFICES ASSUME WorkInv, CrawlInv, BindInv, MintInv, HintInv
                 PROVE  SideRecordsHold
      OBVIOUS
    <2>1. TypeOK
      <3>1. pointer \in Nat /\ \A g \in DOMAIN generations : generations[g] \subseteq Whole
        BY DEF CrawlInv, GraphOK
      <3>2. Len(peers) <= MaxHints /\ hintsLock \in Jobs \cup {0}
        BY DEF HintInv, Capped
      <3> QED
        BY <3>1, <3>2 DEF TypeOK, BindInv, OneChain
    <2>2. MintedLedgersAreUsable
      <3> SUFFICES ASSUME NEW j \in Jobs, work[j].kind = "create"
                   PROVE  LET o == work[j]
                              i == identities[o.id]
                          IN  /\ o.at = "done" => CanSignFor(o) /\ i.alias = o.alias
                              /\ (i.event /\ o.raw) => CanSignFor(o) /\ i.reserve
                              /\ i.alias # NoAlias => i.event /\ i.head /\ i.provenance
                              /\ (~o.raw /\ ~CanSignFor(o)) => ~Listed(o.id)
        BY DEF MintedLedgersAreUsable
      <3>1. MintOK(work[j], identities[work[j].id])
        BY DEF MintInv
      <3>2. work[j].alias # NoAlias
        BY DEF WorkInv, Inputs
      <3> QED
        BY <3>1, <3>2 DEF MintOK, CanSignFor, Listed
    <2>3. BindingsComeFromOneChain
      BY DEF BindingsComeFromOneChain, BindInv, OneChain
    <2>4. FetchersKeepEachOthersHints
      <3> SUFFICES ASSUME NothingIsEvicted, \A j \in Jobs : work[j].kind = "hint" => work[j].locks,
                          NEW j \in Jobs, Is(j, "hint", "done"), NEW e \in ServedBy(work[j])
                   PROVE  Holds(peers, e)
        BY DEF FetchersKeepEachOthersHints
      <3>1. Quiet(work)
        BY DEF NothingIsEvicted, Quiet, Hinters, Endpoints, Tries, Jobs
      <3>2. j \in Hinters(work) /\ work[j].at = "done"
        BY DEF Hinters, Is, Jobs
      <3> QED
        BY <3>1, <3>2 DEF HintInv, KeptOK
    <2> QED
      BY <2>1, <2>2, <2>3, <2>4 DEF SideRecordsHold
  <1> QED
    BY <1>1, <1>2, <1>3, PTL DEF Spec
=============================================================================
