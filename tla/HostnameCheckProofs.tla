------------------------ MODULE HostnameCheckProofs -------------------------
(***************************************************************************)
(* What HostnameCheck promises, for every zone, every hostname and every   *)
(* number of requests: a verdict shown was published, the records of a     *)
(* label mean the same in every order, and the background is quiet.        *)
(***************************************************************************)
EXTENDS HostnameCheck, SequenceFacts

-----------------------------------------------------------------------------
(* What is known of every request.  A is what a person has asked about, P  *)
(* where the zone has named this identity, L the aliases it has held: each *)
(* only grows, and what they once supported they support for good.         *)

Ats == {"idle", "stale", "txt", "cname", "read", "write", "release", "done"}

Reqs == [at : Ats, by : {"person", "document"}, hostname : Hostnames \cup {NoHost},
         name : Names \cup {NoName}, visited : SUBSET Names, links : Nat,
         status : Statuses \cup {"none"}, seen : Entries]

\* The zone of h has named this identity, at its label or where it led.
Vouched(h, P, L) == Reached(L, Label[h]) \cap P # {}

\* A record of the cache is about a hostname a person asked about, and calls it
\* verified only if its zone published it.
Sound(e, A, P, L) ==
    e # NoEntry => e.hostname \in A /\ (e.status = "verified" => Vouched(e.hostname, P, L))

Busy == {"stale", "txt", "cname", "read", "write", "release"}

Good(q, A, P, L) ==
    /\ q.links <= MaxLinks /\ IsFiniteSet(q.visited) /\ Cardinality(q.visited) <= q.links + 1
    /\ q.at \in Busy => q.hostname \in A
    /\ q.at \in {"idle", "stale"} => q.status = "none"
    /\ q.at \in {"read", "write"} => q.status \in Statuses
    /\ q.at \in {"txt", "cname"} => q.name \in Reached(L, Label[q.hostname])
    /\ q.at = "release" => q.by = "document"
    /\ q.status = "verified" => Vouched(q.hostname, P, L)
    /\ Sound(q.seen, A, P, L)

\* A background check under way.
Runs(q) == q.by = "document" /\ q.at \in {"txt", "cname", "read", "write", "release"}

Basics ==
    /\ clock \in 0 .. MaxClock /\ claim \in Hostnames \cup {NoHost} /\ zone \in Zones
    /\ entry \in Entries /\ refreshing \in BOOLEAN
    /\ edits \in 0 .. MaxEdits /\ asked \subseteq Hostnames /\ published \subseteq Names
    /\ request \in [Requests -> Reqs]
    /\ Publishes(zone) \subseteq published /\ Aliases(zone) \subseteq aliases

CheckInv ==
    /\ Basics
    /\ Sound(entry, asked, published, aliases)
    /\ \A r \in Requests : Good(request[r], asked, published, aliases)
    /\ \A r \in Requests : Runs(request[r]) => refreshing
    /\ \A r, s \in Requests : Runs(request[r]) /\ Runs(request[s]) => r = s

-----------------------------------------------------------------------------
(* The ways a request changes.                                             *)

Moved(q, a) == [q EXCEPT !.at = a]
Noticed(q, h) == [q EXCEPT !.at = "stale", !.hostname = h]
Judged(q, st) == [q EXCEPT !.at = "read", !.status = st]
Loaded(q, e) == [q EXCEPT !.at = "write", !.seen = e]
Followed(q, n, v, k) == [q EXCEPT !.at = "txt", !.name = n, !.visited = v, !.links = k]
Begun(b, h, n) == [Idle EXCEPT !.at = "txt", !.by = b, !.hostname = h, !.name = n, !.visited = {n}]
Done == [Idle EXCEPT !.at = "done"]

\* A request that moved on, and nothing else.
LEMMA MovedOn ==
    ASSUME NEW q \in Reqs, NEW a \in Ats
    PROVE  LET p == Moved(q, a) IN
           /\ p \in Reqs /\ p.at = a /\ p.by = q.by /\ p.hostname = q.hostname /\ p.name = q.name
           /\ p.visited = q.visited /\ p.links = q.links /\ p.status = q.status /\ p.seen = q.seen
  BY DEF Reqs, Moved

\* A stale document was read.
LEMMA DocumentNoticed ==
    ASSUME NEW q \in Reqs, NEW h \in Hostnames
    PROVE  LET p == Noticed(q, h) IN
           /\ p \in Reqs /\ p.at = "stale" /\ p.by = q.by /\ p.hostname = h /\ p.name = q.name
           /\ p.visited = q.visited /\ p.links = q.links /\ p.status = q.status /\ p.seen = q.seen
  BY DEF Reqs, Ats, Noticed

\* A verdict was reached.
LEMMA VerdictReached ==
    ASSUME NEW q \in Reqs, NEW st \in Statuses
    PROVE  LET p == Judged(q, st) IN
           /\ p \in Reqs /\ p.at = "read" /\ p.by = q.by /\ p.hostname = q.hostname /\ p.name = q.name
           /\ p.visited = q.visited /\ p.links = q.links /\ p.status = st /\ p.seen = q.seen
  BY DEF Reqs, Ats, Judged

\* The cache was read.
LEMMA CacheRead ==
    ASSUME NEW q \in Reqs, NEW e \in Entries
    PROVE  LET p == Loaded(q, e) IN
           /\ p \in Reqs /\ p.at = "write" /\ p.by = q.by /\ p.hostname = q.hostname /\ p.name = q.name
           /\ p.visited = q.visited /\ p.links = q.links /\ p.status = q.status /\ p.seen = e
  BY DEF Reqs, Ats, Loaded

\* An alias was followed.
LEMMA AliasFollowed ==
    ASSUME NEW q \in Reqs, NEW n \in Names, NEW v \in SUBSET Names, NEW k \in Nat
    PROVE  LET p == Followed(q, n, v, k) IN
           /\ p \in Reqs /\ p.at = "txt" /\ p.by = q.by /\ p.hostname = q.hostname /\ p.name = n
           /\ p.visited = v /\ p.links = k /\ p.status = q.status /\ p.seen = q.seen
  BY DEF Reqs, Ats, Followed

\* A check began.
LEMMA CheckBegun ==
    ASSUME NEW b \in {"person", "document"}, NEW h \in Hostnames, NEW n \in Names
    PROVE  LET p == Begun(b, h, n) IN
           /\ p \in Reqs /\ p.at = "txt" /\ p.by = b /\ p.hostname = h /\ p.name = n
           /\ p.visited = {n} /\ p.links = 0 /\ p.status = "none" /\ p.seen = NoEntry
  BY DEF Idle, Reqs, Ats, Entries, Begun

\* A request has not begun, or is over.
LEMMA RequestOver ==
    /\ Done \in Reqs /\ Done.at = "done" /\ Done.hostname = NoHost
    /\ Done.visited = {} /\ Done.links = 0 /\ Done.status = "none" /\ Done.seen = NoEntry
    /\ Idle \in Reqs /\ Idle.at = "idle" /\ Idle.hostname = NoHost
    /\ Idle.visited = {} /\ Idle.links = 0 /\ Idle.status = "none" /\ Idle.seen = NoEntry
  BY DEF Idle, Reqs, Ats, Entries, Done

-----------------------------------------------------------------------------
(* Names that are reached.                                                 *)

\* A name reaches itself.
LEMMA ReachedSelf ==
    ASSUME NEW L, NEW n \in Names
    PROVE  n \in Reached(L, n)
  BY DEF Reached

\* One alias further.
LEMMA ReachedFurther ==
    ASSUME NEW L, NEW n, NEW m \in Reached(L, n), NEW t \in Names, <<m, t>> \in L
    PROVE  t \in Reached(L, n)
  <1> SUFFICES ASSUME NEW S \in SUBSET Names, n \in S, \A a \in L : a[1] \in S => a[2] \in S
               PROVE  t \in S
    BY DEF Reached
  <1>1. m \in S
    BY DEF Reached
  <1> QED
    BY <1>1

\* Where a name leads that aliases led to.
LEMMA ReachedOn ==
    ASSUME NEW L, NEW n, NEW m \in Reached(L, n), NEW t \in Reached(L, m)
    PROVE  t \in Reached(L, n)
  <1> SUFFICES ASSUME NEW S \in SUBSET Names, n \in S, \A a \in L : a[1] \in S => a[2] \in S
               PROVE  t \in S
    BY DEF Reached
  <1>1. m \in S
    BY DEF Reached
  <1> QED
    BY <1>1 DEF Reached

\* What was reached is reached over more aliases.
LEMMA ReachedGrows ==
    ASSUME NEW L, NEW M, L \subseteq M, NEW n
    PROVE  Reached(L, n) \subseteq Reached(M, n)
  <1> SUFFICES ASSUME NEW m \in Reached(L, n), NEW S \in SUBSET Names, n \in S,
                      \A a \in M : a[1] \in S => a[2] \in S
               PROVE  m \in S
    BY DEF Reached
  <1>1. \A a \in L : a[1] \in S => a[2] \in S
    OBVIOUS
  <1> QED
    BY <1>1 DEF Reached

\* What history supports, a longer history supports.
LEMMA GoodStays ==
    ASSUME NEW A, NEW P, NEW L, NEW A2, NEW P2, NEW L2,
           A \subseteq A2, P \subseteq P2, L \subseteq L2
    PROVE  /\ \A e : Sound(e, A, P, L) => Sound(e, A2, P2, L2)
           /\ \A q \in Reqs : Good(q, A, P, L) => Good(q, A2, P2, L2)
  <1>2. ASSUME NEW h, Vouched(h, P, L)
        PROVE  Vouched(h, P2, L2)
    <2>1. Reached(L, Label[h]) \subseteq Reached(L2, Label[h])
      BY ReachedGrows
    <2> QED
      BY <1>2, <2>1 DEF Vouched
  <1>3. ASSUME NEW e, Sound(e, A, P, L)
        PROVE  Sound(e, A2, P2, L2)
    BY <1>2, <1>3 DEF Sound
  <1>4. ASSUME NEW q \in Reqs, Good(q, A, P, L)
        PROVE  Good(q, A2, P2, L2)
    <2>2. Reached(L, Label[q.hostname]) \subseteq Reached(L2, Label[q.hostname])
      BY ReachedGrows
    <2> QED
      BY <1>2, <1>3, <1>4, <2>2 DEF Good
  <1> QED
    BY <1>3, <1>4

-----------------------------------------------------------------------------
(* What a step does to one request.                                        *)

\* A check begins at the label of a hostname a person asked about.
LEMMA GoodBeginning ==
    ASSUME NEW A, NEW P, NEW L, NEW b \in {"person", "document"}, NEW h \in Hostnames, h \in A
    PROVE  LET p == Begun(b, h, Label[h]) IN p \in Reqs /\ p.by = b /\ Good(p, A, P, L)
  <1>1. PICK n \in Names : n = Label[h]
    BY CheckAssumption
  <1> DEFINE p == Begun(b, h, n)
  <1>2. /\ p \in Reqs /\ p.at = "txt" /\ p.by = b /\ p.hostname = h /\ p.name = n
        /\ p.visited = {n} /\ p.links = 0 /\ p.status = "none" /\ p.seen = NoEntry
    BY CheckBegun
  <1> HIDE DEF p
  <1>3. IsFiniteSet(p.visited) /\ Cardinality(p.visited) <= p.links + 1 /\ p.links <= MaxLinks
    <2>1. IsFiniteSet({n}) /\ Cardinality({n}) = 1
      BY FS_Singleton
    <2>2. 1 <= 0 + 1 /\ 0 <= MaxLinks
      BY CheckAssumption
    <2> QED
      BY <1>2, <2>1, <2>2
  <1>4. p.name \in Reached(L, Label[p.hostname])
    BY <1>1, <1>2, ReachedSelf
  <1>5. p.status # "verified" /\ p.at # "release" /\ Sound(p.seen, A, P, L)
    BY <1>2 DEF Sound
  <1>6. Good(p, A, P, L)
    BY <1>2, <1>3, <1>4, <1>5 DEF Good, Busy
  <1> QED
    BY <1>1, <1>2, <1>6 DEF p

\* A request that is over, and one that has not begun.
LEMMA GoodEnd ==
    ASSUME NEW A, NEW P, NEW L
    PROVE  /\ Done \in Reqs /\ Good(Done, A, P, L) /\ ~Runs(Done)
           /\ Idle \in Reqs /\ Good(Idle, A, P, L) /\ ~Runs(Idle)
  <1>1. IsFiniteSet({}) /\ Cardinality({}) = 0 /\ MaxLinks \in Nat
    BY FS_EmptySet, CheckAssumption
  <1>2. 0 <= MaxLinks /\ 0 <= 0 + 1
    BY <1>1
  <1>3. Sound(NoEntry, A, P, L)
    BY DEF Sound
  <1>4. Good(Done, A, P, L) /\ ~Runs(Done)
    BY <1>1, <1>2, <1>3, RequestOver DEF Good, Busy, Runs
  <1>5. Good(Idle, A, P, L) /\ ~Runs(Idle)
    BY <1>1, <1>2, <1>3, RequestOver DEF Good, Busy, Runs
  <1> QED
    BY <1>4, <1>5, RequestOver

\* A document is read and found stale, on a hostname a person asked about.
LEMMA GoodNotice ==
    ASSUME NEW A, NEW P, NEW L, NEW q \in Reqs, Good(q, A, P, L), q.at = "idle",
           NEW h \in Hostnames, h \in A
    PROVE  LET p == Noticed(q, h) IN p \in Reqs /\ Good(p, A, P, L) /\ ~Runs(p)
  <1> DEFINE p == Noticed(q, h)
  <1>1. /\ p \in Reqs /\ p.at = "stale" /\ p.by = q.by /\ p.hostname = h /\ p.name = q.name
        /\ p.visited = q.visited /\ p.links = q.links /\ p.status = q.status /\ p.seen = q.seen
    BY DocumentNoticed
  <1> HIDE DEF p
  <1>2. Good(p, A, P, L) /\ ~Runs(p)
    BY <1>1 DEF Good, Busy, Runs
  <1> QED
    BY <1>1, <1>2 DEF p

\* A document is read and needs no refresh.
LEMMA GoodUnnoticed ==
    ASSUME NEW A, NEW P, NEW L, NEW q \in Reqs, Good(q, A, P, L), q.at = "idle"
    PROVE  LET p == Moved(q, "done") IN p \in Reqs /\ Good(p, A, P, L) /\ ~Runs(p)
  <1> DEFINE p == Moved(q, "done")
  <1>1. /\ p \in Reqs /\ p.at = "done" /\ p.by = q.by /\ p.hostname = q.hostname /\ p.name = q.name
        /\ p.visited = q.visited /\ p.links = q.links /\ p.status = q.status /\ p.seen = q.seen
    <2>1. "done" \in Ats
      BY DEF Ats
    <2> QED
      BY <2>1, MovedOn
  <1> HIDE DEF p
  <1>2. Good(p, A, P, L) /\ ~Runs(p)
    BY <1>1 DEF Good, Busy, Runs
  <1> QED
    BY <1>1, <1>2 DEF p

\* A check reaches a verdict; "verified" only where the zone names the identity.
LEMMA GoodVerdict ==
    ASSUME NEW A, NEW P, NEW L, NEW q \in Reqs, Good(q, A, P, L), q.at \in {"txt", "cname"},
           NEW st \in Statuses, st = "verified" => Vouched(q.hostname, P, L)
    PROVE  LET p == Judged(q, st) IN
           p \in Reqs /\ Good(p, A, P, L) /\ (Runs(p) => Runs(q))
  <1> DEFINE p == Judged(q, st)
  <1>1. /\ p \in Reqs /\ p.at = "read" /\ p.by = q.by /\ p.hostname = q.hostname /\ p.name = q.name
        /\ p.visited = q.visited /\ p.links = q.links /\ p.status = st /\ p.seen = q.seen
    BY VerdictReached
  <1> HIDE DEF p
  <1>2. st = "verified" => Vouched(p.hostname, P, L)
    BY <1>1
  <1>3. Good(p, A, P, L) /\ (Runs(p) => Runs(q))
    BY <1>1, <1>2 DEF Good, Busy, Runs
  <1> QED
    BY <1>1, <1>3 DEF p

\* An empty label: the check asks for an alias.
LEMMA GoodEmpty ==
    ASSUME NEW A, NEW P, NEW L, NEW q \in Reqs, Good(q, A, P, L), q.at = "txt"
    PROVE  LET p == Moved(q, "cname") IN p \in Reqs /\ Good(p, A, P, L) /\ (Runs(p) => Runs(q))
  <1> DEFINE p == Moved(q, "cname")
  <1>1. /\ p \in Reqs /\ p.at = "cname" /\ p.by = q.by /\ p.hostname = q.hostname /\ p.name = q.name
        /\ p.visited = q.visited /\ p.links = q.links /\ p.status = q.status /\ p.seen = q.seen
    <2>1. "cname" \in Ats
      BY DEF Ats
    <2> QED
      BY <2>1, MovedOn
  <1> HIDE DEF p
  <1>2. Good(p, A, P, L) /\ (Runs(p) => Runs(q))
    BY <1>1 DEF Good, Busy, Runs
  <1> QED
    BY <1>1, <1>2 DEF p

\* An alias is followed to a name not asked yet, within the limit.
LEMMA GoodFollow ==
    ASSUME NEW A, NEW P, NEW L, NEW q \in Reqs, Good(q, A, P, L), q.at = "cname",
           NEW n \in Names, <<q.name, n>> \in L, q.links + 1 <= MaxLinks
    PROVE  LET p == Followed(q, n, q.visited \cup {n}, q.links + 1) IN
           p \in Reqs /\ Good(p, A, P, L) /\ (Runs(p) => Runs(q))
  <1>1. q.visited \in SUBSET Names /\ q.links \in Nat
    BY DEF Reqs
  <1>2. PICK v \in SUBSET Names : v = q.visited \cup {n}
    BY <1>1
  <1>3. PICK k \in Nat : k = q.links + 1
    BY <1>1
  <1> DEFINE p == Followed(q, n, v, k)
  <1>4. /\ p \in Reqs /\ p.at = "txt" /\ p.by = q.by /\ p.hostname = q.hostname /\ p.name = n
        /\ p.visited = v /\ p.links = k /\ p.status = q.status /\ p.seen = q.seen
    BY AliasFollowed
  <1> HIDE DEF p
  <1>5. IsFiniteSet(v) /\ Cardinality(v) <= k + 1
    <2>1. IsFiniteSet(q.visited) /\ Cardinality(q.visited) <= q.links + 1
      BY DEF Good
    <2>2. /\ IsFiniteSet(q.visited \cup {n})
          /\ Cardinality(q.visited \cup {n}) = IF n \in q.visited THEN Cardinality(q.visited)
                                               ELSE Cardinality(q.visited) + 1
      BY <2>1, FS_AddElement
    <2>3. Cardinality(q.visited) \in Nat
      BY <2>1, FS_CardinalityType
    <2> QED
      BY <1>1, <1>2, <1>3, <2>1, <2>2, <2>3
  <1>6. p.name \in Reached(L, Label[p.hostname])
    <2>1. q.name \in Reached(L, Label[q.hostname])
      BY DEF Good
    <2> QED
      BY <1>4, <2>1, ReachedFurther
  <1>7. k <= MaxLinks
    BY <1>3
  <1>8. Good(p, A, P, L) /\ (Runs(p) => Runs(q))
    BY <1>4, <1>5, <1>6, <1>7 DEF Good, Busy, Runs
  <1> QED
    BY <1>2, <1>3, <1>4, <1>8 DEF p

\* The cache is read before it is written.
LEMMA GoodLoad ==
    ASSUME NEW A, NEW P, NEW L, NEW q \in Reqs, Good(q, A, P, L), q.at = "read",
           NEW e \in Entries, Sound(e, A, P, L)
    PROVE  LET p == Loaded(q, e) IN p \in Reqs /\ Good(p, A, P, L) /\ (Runs(p) => Runs(q))
  <1> DEFINE p == Loaded(q, e)
  <1>1. /\ p \in Reqs /\ p.at = "write" /\ p.by = q.by /\ p.hostname = q.hostname /\ p.name = q.name
        /\ p.visited = q.visited /\ p.links = q.links /\ p.status = q.status /\ p.seen = e
    BY CacheRead
  <1> HIDE DEF p
  <1>2. Good(p, A, P, L) /\ (Runs(p) => Runs(q))
    BY <1>1 DEF Good, Busy, Runs
  <1> QED
    BY <1>1, <1>2 DEF p

\* A background check has written its verdict.
LEMMA GoodWritten ==
    ASSUME NEW A, NEW P, NEW L, NEW q \in Reqs, Good(q, A, P, L), q.at = "write", q.by # "person"
    PROVE  LET p == Moved(q, "release") IN p \in Reqs /\ Good(p, A, P, L) /\ (Runs(p) => Runs(q))
  <1> DEFINE p == Moved(q, "release")
  <1>1. /\ p \in Reqs /\ p.at = "release" /\ p.by = q.by /\ p.hostname = q.hostname /\ p.name = q.name
        /\ p.visited = q.visited /\ p.links = q.links /\ p.status = q.status /\ p.seen = q.seen
    <2>1. "release" \in Ats
      BY DEF Ats
    <2> QED
      BY <2>1, MovedOn
  <1>2. q.by = "document"
    BY DEF Reqs
  <1> HIDE DEF p
  <1>3. Good(p, A, P, L) /\ (Runs(p) => Runs(q))
    BY <1>1, <1>2 DEF Good, Busy, Runs
  <1> QED
    BY <1>1, <1>3 DEF p

-----------------------------------------------------------------------------
(* The cache file.                                                         *)

\* What a check records: a verdict on its own hostname, its own or the decisive
\* one that stood.
LEMMA MergeFacts ==
    ASSUME NEW e \in Entries, NEW h \in Hostnames, NEW st \in Statuses, NEW now \in 0 .. MaxClock
    PROVE  /\ Merge(e, h, st, now) \in Entries /\ Merge(e, h, st, now).hostname = h
           /\ Merge(e, h, st, now).status = "verified" =>
                 st = "verified" \/ (e # NoEntry /\ e.hostname = h /\ e.status = "verified")
  <1> DEFINE Times == {<<>>} \cup {<<t>> : t \in 0 .. MaxClock}
             Full == [hostname : Hostnames, status : Statuses, checked : 0 .. MaxClock,
                      verified : Times, failed : Times]
  <1>1. Entries = Full \cup {NoEntry}
    BY DEF Entries
  <1>2. <<>> \in Times /\ <<now>> \in Times
    OBVIOUS
  <1> HIDE DEF Times
  <1>3. PICK v \in Times : v = IF st = "verified" THEN <<now>> ELSE <<>>
    BY <1>2
  <1>4. /\ First(h, st, now) \in Full /\ First(h, st, now).hostname = h
        /\ First(h, st, now).status = st
    <2>1. First(h, st, now) = [hostname |-> h, status |-> st, checked |-> now, verified |-> v,
                               failed |-> <<>>]
      BY <1>3 DEF First
    <2> QED
      BY <1>2, <2>1
  <1>5. CASE ~Covers(e, h)
    BY <1>1, <1>4, <1>5 DEF Merge
  <1>6. CASE Covers(e, h)
    <2>1. e \in Full /\ e # NoEntry /\ e.hostname = h
      BY <1>1, <1>6 DEF Covers
    <2>2. CASE st = "unreachable" /\ Decisive(e.status)
      <3> DEFINE m == [e EXCEPT !.failed = <<now>>]
      <3>1. Merge(e, h, st, now) = m
        BY <1>6, <2>2 DEF Merge
      <3>2. m \in Full /\ m.hostname = e.hostname /\ m.status = e.status
        BY <1>2, <2>1
      <3> QED
        BY <1>1, <2>1, <3>1, <3>2
    <2>3. CASE ~(st = "unreachable" /\ Decisive(e.status))
      <3> DEFINE f == First(h, st, now)
      <3>1. PICK u \in Times : u = IF st = "verified" THEN <<now>> ELSE e.verified
        BY <1>2, <2>1
      <3>2. Merge(e, h, st, now) = [f EXCEPT !.verified = u]
        BY <1>6, <2>3, <3>1 DEF Merge
      <3> HIDE DEF f
      <3>3. f \in Full /\ f.hostname = h /\ f.status = st
        BY <1>4 DEF f
      <3>4. [f EXCEPT !.verified = u] \in Full /\ [f EXCEPT !.verified = u].hostname = h
        BY <3>3
      <3>5. [f EXCEPT !.verified = u].status = st
        BY <3>3
      <3> QED
        BY <1>1, <3>2, <3>4, <3>5
    <2> QED
      BY <2>2, <2>3
  <1> QED
    BY <1>5, <1>6

\* A name's records are called verified only if they name the identity.
LEMMA ClassifyFacts ==
    ASSUME NEW records
    PROVE  /\ Classify(records) \in Statuses
           /\ Classify(records) = "verified" => NamesIdentity(records, Self)
  <1>1. CASE NamesIdentity(records, Self)
    BY <1>1, Zenon DEF Classify, Statuses
  <1>2. CASE ~NamesIdentity(records, Self) /\ Of("mabel", records) # {}
    <2>1. Classify(records) = "mismatched"
      BY <1>2, Zenon DEF Classify
    <2> QED
      BY <2>1 DEF Statuses
  <1>3. CASE ~NamesIdentity(records, Self) /\ Of("mabel", records) = {}
    <2>1. Classify(records) = "unverified"
      BY <1>3, Zenon DEF Classify
    <2> QED
      BY <2>1 DEF Statuses
  <1> QED
    BY <1>1, <1>2, <1>3

\* What the document shows is stale and not "unchecked" only if the cache is
\* about the claimed hostname; it shows "verified" only what the cache does.
LEMMA ShownFacts ==
    /\ Refreshes(Shown) => claim # NoHost /\ Covers(entry, claim)
    /\ Shown.status = "verified" => claim # NoHost /\ Covers(entry, claim) /\ entry.status = "verified"
  <1>1. CASE claim = NoHost
    <2>1. Shown = [status |-> "unclaimed", stale |-> FALSE]
      BY <1>1, Zenon DEF Shown
    <2> QED
      BY <2>1 DEF Refreshes
  <1>2. CASE claim # NoHost /\ Covers(entry, claim)
    <2>1. Shown = [status |-> entry.status, stale |-> Stale(entry)]
      BY <1>2, Zenon DEF Shown
    <2> QED
      BY <1>2, <2>1
  <1>3. CASE claim # NoHost /\ ~Covers(entry, claim)
    <2>1. Shown = [status |-> "unchecked", stale |-> TRUE]
      BY <1>3, Zenon DEF Shown
    <2> QED
      BY <2>1 DEF Refreshes
  <1> QED
    BY <1>1, <1>2, <1>3

-----------------------------------------------------------------------------
(* Every step keeps what is known.                                         *)

\* The variables other than the requests, after a step.
BasicsAfter ==
    /\ clock' \in 0 .. MaxClock /\ claim' \in Hostnames \cup {NoHost} /\ zone' \in Zones
    /\ entry' \in Entries /\ refreshing' \in BOOLEAN
    /\ edits' \in 0 .. MaxEdits /\ asked' \subseteq Hostnames /\ published' \subseteq Names
    /\ Publishes(zone') \subseteq published' /\ Aliases(zone') \subseteq aliases'

\* What history holds only grows.
Grows == asked \subseteq asked' /\ published \subseteq published' /\ aliases \subseteq aliases'

\* The flag covers the checks in the background.
FlagAfter(r, q) ==
    \/ refreshing' = refreshing /\ (Runs(q) => Runs(request[r]))
    \/ ~refreshing /\ refreshing'
    \/ Runs(request[r]) /\ ~Runs(q)

\* One request moves.
LEMMA OneMoves ==
    ASSUME CheckInv, BasicsAfter, Grows, Sound(entry', asked', published', aliases'),
           NEW r \in Requests, NEW q \in Reqs, Good(q, asked', published', aliases'),
           request' = [request EXCEPT ![r] = q], FlagAfter(r, q)
    PROVE  CheckInv'
  <1>1. request \in [Requests -> Reqs] /\ refreshing \in BOOLEAN
    BY DEF CheckInv, Basics
  <1>2. request' \in [Requests -> Reqs]
    BY <1>1
  <1>3. request'[r] = q /\ \A s \in Requests : s # r => request'[s] = request[s]
    BY <1>1
  <1>4. Basics'
    BY <1>2 DEF BasicsAfter, Basics
  <1>5. ASSUME NEW s \in Requests
        PROVE  Good(request'[s], asked', published', aliases')
    <2>1. CASE s = r
      BY <1>3, <2>1
    <2>2. CASE s # r
      <3>1. /\ request'[s] = request[s] /\ Good(request[s], asked, published, aliases)
            /\ request[s] \in Reqs
        BY <1>1, <1>3, <2>2 DEF CheckInv
      <3> QED
        BY <3>1, GoodStays DEF Grows
    <2> QED
      BY <2>1, <2>2
  <1>6. /\ \A s \in Requests : Runs(request[s]) => refreshing
        /\ \A s, t \in Requests : Runs(request[s]) /\ Runs(request[t]) => s = t
    BY DEF CheckInv
  <1>7. /\ \A s \in Requests : Runs(request'[s]) => refreshing'
        /\ \A s, t \in Requests : Runs(request'[s]) /\ Runs(request'[t]) => s = t
    <2>1. CASE refreshing' = refreshing /\ (Runs(q) => Runs(request[r]))
      <3>1. \A s \in Requests : Runs(request'[s]) => Runs(request[s])
        BY <1>3, <2>1, Zenon
      <3> QED
        BY <1>6, <2>1, <3>1, Zenon
    <2>2. CASE ~refreshing /\ refreshing'
      <3>1. \A s \in Requests : ~Runs(request[s])
        BY <1>6, <2>2, Zenon
      <3>2. \A s \in Requests : Runs(request'[s]) => s = r
        BY <1>3, <3>1, Zenon
      <3> QED
        BY <2>2, <3>2, Zenon
    <2>3. CASE Runs(request[r]) /\ ~Runs(q)
      <3>1. \A s \in Requests : s # r => ~Runs(request[s])
        BY <1>6, <2>3, Zenon
      <3>2. \A s \in Requests : ~Runs(request'[s])
        BY <1>3, <2>3, <3>1, Zenon
      <3> QED
        BY <3>2, Zenon
    <2> QED
      BY <2>1, <2>2, <2>3 DEF FlagAfter
  <1>8. CheckInv' <=>
           /\ Basics' /\ Sound(entry', asked', published', aliases')
           /\ \A s \in Requests : Good(request'[s], asked', published', aliases')
           /\ \A s \in Requests : Runs(request'[s]) => refreshing'
           /\ \A s, t \in Requests : Runs(request'[s]) /\ Runs(request'[t]) => s = t
    BY Zenon DEF CheckInv
  <1> QED
    BY <1>4, <1>5, <1>7, <1>8

\* A step of a request leaves the world alone.
LEMMA WorldKept ==
    ASSUME CheckInv, World, entry' \in Entries, refreshing' \in BOOLEAN
    PROVE  BasicsAfter /\ Grows /\ asked' = asked /\ published' = published /\ aliases' = aliases
  BY DEF CheckInv, Basics, BasicsAfter, Grows, World

\* What is known of one request.
LEMMA OneRequest ==
    ASSUME CheckInv, NEW r \in Requests
    PROVE  /\ request[r] \in Reqs /\ Good(request[r], asked, published, aliases)
           /\ Sound(entry, asked, published, aliases)
           /\ entry \in Entries /\ refreshing \in BOOLEAN
  BY DEF CheckInv, Basics

\* A step of a request that leaves the world, the cache and the flag alone.
LEMMA QuietMove ==
    ASSUME CheckInv, World, entry' = entry, refreshing' = refreshing,
           NEW r \in Requests, NEW q \in Reqs, Good(q, asked, published, aliases),
           request' = [request EXCEPT ![r] = q], Runs(q) => Runs(request[r])
    PROVE  CheckInv'
  <1>1. Sound(entry, asked, published, aliases) /\ entry \in Entries /\ refreshing \in BOOLEAN
    BY OneRequest
  <1>2. BasicsAfter /\ Grows /\ asked' = asked /\ published' = published /\ aliases' = aliases
    BY <1>1, WorldKept
  <1>3. FlagAfter(r, q)
    BY DEF FlagAfter
  <1> QED
    BY <1>1, <1>2, <1>3, OneMoves

\* POST .../verification.
LEMMA CheckStep ==
    ASSUME CheckInv, NEW r \in Requests, CheckVerification(r)
    PROVE  CheckInv'
  <1> DEFINE p == Begun("person", claim, Label[claim])
  <1>1. /\ claim \in Hostnames /\ request' = [request EXCEPT ![r] = p]
        /\ asked' = asked \cup {claim}
        /\ UNCHANGED <<clock, claim, zone, entry, refreshing, edits, published, aliases>>
    BY DEF CheckVerification, Begin, Begun, CheckInv, Basics
  <1>2. BasicsAfter /\ Grows
    BY <1>1 DEF CheckInv, Basics, BasicsAfter, Grows
  <1>3. p \in Reqs /\ p.by = "person" /\ Good(p, asked', published', aliases')
    BY <1>1, GoodBeginning
  <1> HIDE DEF p
  <1>4. Sound(entry', asked', published', aliases')
    <2>1. Sound(entry, asked, published, aliases)
      BY OneRequest
    <2>2. Sound(entry, asked', published', aliases')
      BY <1>2, <2>1, GoodStays DEF Grows
    <2> QED
      BY <1>1, <2>2
  <1>5. FlagAfter(r, p)
    BY <1>1, <1>3 DEF FlagAfter, Runs
  <1> QED
    BY <1>1, <1>2, <1>3, <1>4, <1>5, OneMoves

\* GET .../identities/<id>.
LEMMA ReadStep ==
    ASSUME CheckInv, NEW r \in Requests, ReadDocument(r)
    PROVE  CheckInv'
  <1>1. /\ request[r] \in Reqs /\ Good(request[r], asked, published, aliases)
        /\ request[r].at = "idle" /\ World /\ entry' = entry /\ refreshing' = refreshing
        /\ request \in [Requests -> Reqs]
    BY OneRequest DEF ReadDocument, CheckInv, Basics
  <1>2. CASE Refreshes(Shown)
    <2> DEFINE p == Noticed(request[r], claim)
    <2>1. request' = [request EXCEPT ![r] = p]
      BY <1>1, <1>2 DEF ReadDocument, Noticed
    <2>2. claim \in Hostnames /\ claim \in asked
      <3>1. claim # NoHost /\ Covers(entry, claim)
        BY <1>2, ShownFacts
      <3>2. Sound(entry, asked, published, aliases) /\ claim \in Hostnames \cup {NoHost}
        BY DEF CheckInv, Basics
      <3> QED
        BY <3>1, <3>2 DEF Covers, Sound
    <2>3. p \in Reqs /\ Good(p, asked, published, aliases) /\ ~Runs(p)
      BY <1>1, <2>2, GoodNotice
    <2> HIDE DEF p
    <2> QED
      BY <1>1, <2>1, <2>3, QuietMove
  <1>3. CASE ~Refreshes(Shown)
    <2> DEFINE p == Moved(request[r], "done")
    <2>1. request' = [request EXCEPT ![r] = p]
      BY <1>1, <1>3 DEF ReadDocument, Moved
    <2>2. p \in Reqs /\ Good(p, asked, published, aliases) /\ ~Runs(p)
      BY <1>1, GoodUnnoticed
    <2> HIDE DEF p
    <2> QED
      BY <1>1, <2>1, <2>2, QuietMove
  <1> QED
    BY <1>2, <1>3

\* A stale document starts a refresh, unless one is under way.
LEMMA RefreshStep ==
    ASSUME CheckInv, NEW r \in Requests, RefreshInBackground(r)
    PROVE  CheckInv'
  <1>1. /\ request[r] \in Reqs /\ Good(request[r], asked, published, aliases)
        /\ Sound(entry, asked, published, aliases) /\ entry \in Entries /\ refreshing \in BOOLEAN
        /\ request[r].at = "stale" /\ World /\ entry' = entry /\ request \in [Requests -> Reqs]
    BY OneRequest DEF RefreshInBackground, CheckInv, Basics
  <1>2. CASE refreshing
    <2>1. request' = [request EXCEPT ![r] = Done] /\ refreshing' = refreshing
      BY <1>1, <1>2 DEF RefreshInBackground, Done
    <2>2. Done \in Reqs /\ Good(Done, asked, published, aliases) /\ ~Runs(Done)
      BY GoodEnd
    <2> QED
      BY <1>1, <2>1, <2>2, QuietMove
  <1>3. CASE ~refreshing
    <2>1. PICK h \in Hostnames : h = request[r].hostname /\ h \in asked
      BY <1>1 DEF Good, Busy, CheckInv, Basics
    <2> DEFINE p == Begun("document", h, Label[h])
    <2>2. request' = [request EXCEPT ![r] = p] /\ refreshing' = TRUE
      BY <1>1, <1>3, <2>1 DEF RefreshInBackground, Begin, Begun
    <2>3. p \in Reqs /\ Good(p, asked, published, aliases)
      BY <2>1, GoodBeginning
    <2> HIDE DEF p
    <2>4. refreshing' \in BOOLEAN /\ entry' \in Entries
      BY <1>1, <2>2
    <2>5. BasicsAfter /\ Grows /\ asked' = asked /\ published' = published /\ aliases' = aliases
      BY <1>1, <2>4, WorldKept
    <2>6. FlagAfter(r, p)
      BY <1>3, <2>2 DEF FlagAfter
    <2> QED
      BY <1>1, <2>2, <2>3, <2>5, <2>6, OneMoves
  <1> QED
    BY <1>2, <1>3

\* The zone and what history says of it.
LEMMA ZoneFacts ==
    ASSUME CheckInv, NEW n \in Names
    PROVE  /\ NamesIdentity(zone[n].txt, Self) => n \in published
           /\ zone[n].cname # NoName => zone[n].cname \in Names /\ <<n, zone[n].cname>> \in aliases
  <1>1. zone \in Zones /\ Publishes(zone) \subseteq published /\ Aliases(zone) \subseteq aliases
    BY DEF CheckInv, Basics
  <1>2. NamesIdentity(zone[n].txt, Self) => n \in published
    BY <1>1 DEF Publishes
  <1>3. zone[n].cname \in Names \cup {NoName}
    BY <1>1, CheckAssumption
  <1>4. zone[n].cname # NoName => <<n, zone[n].cname>> \in aliases
    BY <1>1 DEF Aliases
  <1> QED
    BY <1>2, <1>3, <1>4

\* A check that asks stands at a name of some zone.
LEMMA AsksAName ==
    ASSUME NEW q, NEW A, NEW P, NEW L, Good(q, A, P, L), q.at \in {"txt", "cname"}
    PROVE  q.name \in Names
  BY DEF Good, Reached

\* A verdict is reached.
LEMMA OutcomeStep ==
    ASSUME CheckInv, NEW r \in Requests, NEW st \in Statuses, Outcome(r, st), World,
           UNCHANGED <<entry, refreshing>>, request[r].at \in {"txt", "cname"},
           st = "verified" => Vouched(request[r].hostname, published, aliases)
    PROVE  CheckInv'
  <1>1. PICK q \in Reqs : q = request[r] /\ Good(q, asked, published, aliases)
    BY OneRequest
  <1> DEFINE p == Judged(q, st)
  <1>2. request' = [request EXCEPT ![r] = p]
    BY <1>1 DEF Outcome, Judged, CheckInv, Basics
  <1>3. p \in Reqs /\ Good(p, asked, published, aliases) /\ (Runs(p) => Runs(q))
    BY <1>1, GoodVerdict
  <1> HIDE DEF p
  <1> QED
    BY <1>1, <1>2, <1>3, QuietMove

\* The resolver fails.
LEMMA FailStep ==
    ASSUME CheckInv, NEW r \in Requests, LookupFails(r)
    PROVE  CheckInv'
  <1>1. "unreachable" \in Statuses /\ "unreachable" # "verified"
    BY DEF Statuses
  <1> QED
    BY <1>1, OutcomeStep DEF LookupFails

\* The records of a name are read.
LEMMA TxtStep ==
    ASSUME CheckInv, NEW r \in Requests, LookupTxt(r)
    PROVE  CheckInv'
  <1>1. PICK q \in Reqs : q = request[r] /\ Good(q, asked, published, aliases) /\ q.at = "txt"
    BY OneRequest DEF LookupTxt
  <1>2. q.name \in Names
    BY <1>1, AsksAName
  <1>3. PICK m \in Reached(Aliases(zone), q.name) :
          IF zone[m].txt = <<>> THEN request' = [request EXCEPT ![r] = [@ EXCEPT !.at = "cname"]]
          ELSE Outcome(r, Classify(zone[m].txt))
    BY <1>1 DEF LookupTxt
  <1>4. World /\ UNCHANGED <<entry, refreshing>>
    BY DEF LookupTxt
  <1>5. CASE zone[m].txt = <<>>
    <2> DEFINE p == Moved(q, "cname")
    <2>1. request' = [request EXCEPT ![r] = p]
      BY <1>1, <1>3, <1>5 DEF Moved, CheckInv, Basics
    <2>2. p \in Reqs /\ Good(p, asked, published, aliases) /\ (Runs(p) => Runs(q))
      BY <1>1, GoodEmpty
    <2> HIDE DEF p
    <2> QED
      BY <1>1, <1>4, <2>1, <2>2, QuietMove
  <1>6. CASE zone[m].txt # <<>>
    <2>1. m \in Names /\ m \in Reached(aliases, Label[q.hostname])
      <3>1. Aliases(zone) \subseteq aliases /\ q.name \in Reached(aliases, Label[q.hostname])
        BY <1>1 DEF CheckInv, Basics, Good
      <3>2. m \in Reached(aliases, q.name)
        BY <3>1, ReachedGrows
      <3> QED
        BY <3>1, <3>2, ReachedOn DEF Reached
    <2>2. PICK st \in Statuses : st = Classify(zone[m].txt) /\ (st = "verified" => m \in published)
      BY <2>1, ClassifyFacts, ZoneFacts
    <2>3. Outcome(r, st) /\ (st = "verified" => Vouched(q.hostname, published, aliases))
      BY <1>3, <1>6, <2>1, <2>2 DEF Vouched
    <2> QED
      BY <1>1, <1>4, <2>2, <2>3, OutcomeStep
  <1> QED
    BY <1>5, <1>6

\* The alias of a name is read.
LEMMA CnameStep ==
    ASSUME CheckInv, NEW r \in Requests, LookupCname(r)
    PROVE  CheckInv'
  <1>1. PICK q \in Reqs : q = request[r] /\ Good(q, asked, published, aliases) /\ q.at = "cname"
    BY OneRequest DEF LookupCname
  <1>2. q.name \in Names /\ q.links \in Nat /\ MaxLinks \in Nat
    BY <1>1, AsksAName, CheckAssumption DEF Reqs
  <1>3. World /\ entry' = entry /\ refreshing' = refreshing
    BY DEF LookupCname
  <1>4. {"unverified", "unreachable"} \subseteq Statuses
    BY DEF Statuses
  <1>5. CASE zone[q.name].cname = NoName
    <2>1. Outcome(r, "unverified")
      BY <1>1, <1>5 DEF LookupCname
    <2> QED
      BY <1>1, <1>3, <1>4, <2>1, OutcomeStep
  <1>6. CASE zone[q.name].cname # NoName
    <2>1. PICK n \in Names : n = zone[q.name].cname /\ <<q.name, n>> \in aliases
      BY <1>2, <1>6, ZoneFacts
    <2>2. Follow(r, n)
      BY <1>1, <1>6, <2>1 DEF LookupCname
    <2>3. CASE q.links + 1 > MaxLinks \/ n \in q.visited
      <3>1. Outcome(r, "unreachable")
        BY <1>1, <2>2, <2>3 DEF Follow
      <3> QED
        BY <1>1, <1>3, <1>4, <3>1, OutcomeStep
    <2>4. CASE ~(q.links + 1 > MaxLinks \/ n \in q.visited)
      <3> DEFINE p == Followed(q, n, q.visited \cup {n}, q.links + 1)
      <3>1. request' = [request EXCEPT ![r] = p]
        BY <1>1, <2>2, <2>4 DEF Follow, Followed, CheckInv, Basics
      <3>2. q.links + 1 <= MaxLinks
        BY <1>2, <2>4
      <3>3. p \in Reqs /\ Good(p, asked, published, aliases) /\ (Runs(p) => Runs(q))
        BY <1>1, <2>1, <3>2, GoodFollow
      <3> HIDE DEF p
      <3> QED
        BY <1>1, <1>3, <3>1, <3>3, QuietMove
    <2> QED
      BY <2>3, <2>4
  <1> QED
    BY <1>5, <1>6

\* The cache is read.
LEMMA LoadStep ==
    ASSUME CheckInv, NEW r \in Requests, ReadEntry(r)
    PROVE  CheckInv'
  <1>1. PICK q \in Reqs : q = request[r] /\ Good(q, asked, published, aliases) /\ q.at = "read"
    BY OneRequest DEF ReadEntry
  <1> DEFINE p == Loaded(q, entry)
  <1>2. /\ request' = [request EXCEPT ![r] = p] /\ World /\ entry' = entry
        /\ refreshing' = refreshing
    BY <1>1 DEF ReadEntry, Loaded, CheckInv, Basics
  <1>3. p \in Reqs /\ Good(p, asked, published, aliases) /\ (Runs(p) => Runs(q))
    BY <1>1, OneRequest, GoodLoad
  <1> HIDE DEF p
  <1> QED
    BY <1>1, <1>2, <1>3, QuietMove

\* The cache is written.
LEMMA WriteStep ==
    ASSUME CheckInv, NEW r \in Requests, WriteEntry(r)
    PROVE  CheckInv'
  <1>1. PICK q \in Reqs : q = request[r] /\ Good(q, asked, published, aliases) /\ q.at = "write"
    BY OneRequest DEF WriteEntry
  <1>2. /\ q.hostname \in Hostnames /\ q.hostname \in asked /\ q.status \in Statuses
        /\ q.seen \in Entries /\ clock \in 0 .. MaxClock /\ refreshing \in BOOLEAN
    BY <1>1 DEF Good, Busy, CheckInv, Basics, Reqs
  <1>3. /\ entry' = Merge(q.seen, q.hostname, q.status, clock) /\ World
        /\ refreshing' = refreshing
    BY <1>1 DEF WriteEntry
  <1>4. /\ entry' \in Entries /\ entry'.hostname = q.hostname
        /\ entry'.status = "verified" =>
              \/ q.status = "verified"
              \/ q.seen # NoEntry /\ q.seen.hostname = q.hostname /\ q.seen.status = "verified"
    BY <1>2, <1>3, MergeFacts
  <1>5. BasicsAfter /\ Grows /\ asked' = asked /\ published' = published /\ aliases' = aliases
    BY <1>2, <1>3, <1>4, WorldKept
  <1>6. Sound(entry', asked', published', aliases')
    <2>1. q.status = "verified" => Vouched(q.hostname, published, aliases)
      BY <1>1 DEF Good
    <2>2. Sound(q.seen, asked, published, aliases)
      BY <1>1 DEF Good
    <2> QED
      BY <1>2, <1>4, <1>5, <2>1, <2>2 DEF Sound
  <1>7. CASE q.by = "person"
    <2>1. request' = [request EXCEPT ![r] = Done]
      BY <1>1, <1>7 DEF WriteEntry, Done, CheckInv, Basics
    <2>2. Done \in Reqs /\ Good(Done, asked', published', aliases') /\ ~Runs(Done)
      BY GoodEnd
    <2>3. FlagAfter(r, Done)
      BY <1>3, <2>2 DEF FlagAfter
    <2> QED
      BY <1>5, <1>6, <2>1, <2>2, <2>3, OneMoves
  <1>8. CASE q.by # "person"
    <2> DEFINE p == Moved(q, "release")
    <2>1. request' = [request EXCEPT ![r] = p]
      BY <1>1, <1>8 DEF WriteEntry, Moved, CheckInv, Basics
    <2>2. p \in Reqs /\ Good(p, asked, published, aliases) /\ (Runs(p) => Runs(q))
      BY <1>1, <1>8, GoodWritten
    <2> HIDE DEF p
    <2>3. FlagAfter(r, p)
      BY <1>1, <1>3, <2>2 DEF FlagAfter
    <2> QED
      BY <1>5, <1>6, <2>1, <2>2, <2>3, OneMoves
  <1> QED
    BY <1>7, <1>8

\* A refresh is over.
LEMMA ReleaseStep ==
    ASSUME CheckInv, NEW r \in Requests, Release(r)
    PROVE  CheckInv'
  <1>1. /\ Good(request[r], asked, published, aliases) /\ request[r].at = "release"
        /\ Sound(entry, asked, published, aliases) /\ entry \in Entries
    BY OneRequest DEF Release
  <1>2. /\ request' = [request EXCEPT ![r] = Done] /\ refreshing' = FALSE /\ World /\ entry' = entry
    BY DEF Release, Done
  <1>3. refreshing' \in BOOLEAN
    BY <1>2
  <1>4. BasicsAfter /\ Grows /\ asked' = asked /\ published' = published /\ aliases' = aliases
    BY <1>1, <1>2, <1>3, WorldKept
  <1>5. Done \in Reqs /\ Good(Done, asked', published', aliases') /\ ~Runs(Done)
    BY GoodEnd
  <1>6. Runs(request[r])
    BY <1>1 DEF Good, Runs
  <1>7. FlagAfter(r, Done)
    BY <1>5, <1>6 DEF FlagAfter
  <1> QED
    BY <1>1, <1>2, <1>4, <1>5, <1>7, OneMoves

\* The profile, the zone and the clock change.
LEMMA WorldStep ==
    ASSUME CheckInv, BasicsAfter, Grows, entry' = entry, request' = request,
           refreshing' = refreshing
    PROVE  CheckInv'
  <1>1. Basics'
    BY DEF CheckInv, Basics, BasicsAfter
  <1>2. Sound(entry', asked', published', aliases')
    <2>1. Sound(entry, asked, published, aliases)
      BY DEF CheckInv
    <2>2. Sound(entry, asked', published', aliases')
      BY <2>1, GoodStays DEF Grows
    <2> QED
      BY <2>2
  <1>3. ASSUME NEW r \in Requests
        PROVE  Good(request'[r], asked', published', aliases')
    <2>1. Good(request[r], asked, published, aliases) /\ request[r] \in Reqs
      BY OneRequest
    <2>2. Good(request[r], asked', published', aliases')
      BY <2>1, GoodStays DEF Grows
    <2> QED
      BY <2>2
  <1>4. /\ \A s \in Requests : Runs(request'[s]) => refreshing'
        /\ \A s, t \in Requests : Runs(request'[s]) /\ Runs(request'[t]) => s = t
    BY Zenon DEF CheckInv
  <1>5. CheckInv' <=>
           /\ Basics' /\ Sound(entry', asked', published', aliases')
           /\ \A s \in Requests : Good(request'[s], asked', published', aliases')
           /\ \A s \in Requests : Runs(request'[s]) => refreshing'
           /\ \A s, t \in Requests : Runs(request'[s]) /\ Runs(request'[t]) => s = t
    BY Zenon DEF CheckInv
  <1> QED
    BY <1>1, <1>2, <1>3, <1>4, <1>5

\* The node stops.
LEMMA StopStep ==
    ASSUME CheckInv, Restart
    PROVE  CheckInv'
  <1>1. /\ refreshing' = FALSE
        /\ UNCHANGED <<clock, claim, zone, entry, edits, asked, published, aliases>>
        /\ request' = [r \in Requests |-> IF request[r].at = "idle" THEN Idle ELSE Done]
    BY DEF Restart, Done
  <1>2. /\ Done \in Reqs /\ Good(Done, asked, published, aliases) /\ ~Runs(Done)
        /\ Idle \in Reqs /\ Good(Idle, asked, published, aliases) /\ ~Runs(Idle)
    BY GoodEnd
  <1>3. \A r \in Requests : request'[r] = Idle \/ request'[r] = Done
    BY <1>1
  <1>4. request' \in [Requests -> Reqs]
    BY <1>1, <1>2
  <1>5. Basics'
    BY <1>1, <1>4 DEF CheckInv, Basics
  <1>6. Sound(entry', asked', published', aliases')
    BY <1>1 DEF CheckInv
  <1>7. \A s \in Requests : Good(request'[s], asked', published', aliases') /\ ~Runs(request'[s])
    BY <1>1, <1>2, <1>3, Zenon
  <1>8. CheckInv' <=>
           /\ Basics' /\ Sound(entry', asked', published', aliases')
           /\ \A s \in Requests : Good(request'[s], asked', published', aliases')
           /\ \A s \in Requests : Runs(request'[s]) => refreshing'
           /\ \A s, t \in Requests : Runs(request'[s]) /\ Runs(request'[t]) => s = t
    BY Zenon DEF CheckInv
  <1> QED
    BY <1>5, <1>6, <1>7, <1>8, Zenon

\* Every step keeps what is known.
LEMMA StepCheck ==
    ASSUME CheckInv, [Next]_vars
    PROVE  CheckInv'
  <1>1. ASSUME NEW r \in Requests, CheckVerification(r) \/ ReadDocument(r) \/ Work(r)
        PROVE  CheckInv'
    BY <1>1, CheckStep, ReadStep, RefreshStep, FailStep, TxtStep, CnameStep, LoadStep,
       WriteStep, ReleaseStep DEF Work
  <1>2. ASSUME NEW h \in Hostnames \cup {NoHost}, ReplaceProfile(h)
        PROVE  CheckInv'
    <2>1. BasicsAfter /\ Grows
      BY <1>2, CheckAssumption DEF ReplaceProfile, CheckInv, Basics, BasicsAfter, Grows
    <2> QED
      BY <1>2, <2>1, WorldStep DEF ReplaceProfile
  <1>3. ASSUME NEW z \in Zones, ChangeZone(z)
        PROVE  CheckInv'
    <2>1. Publishes(z) \subseteq Names
      BY DEF Publishes
    <2>2. BasicsAfter /\ Grows
      BY <1>3, <2>1, CheckAssumption DEF ChangeZone, CheckInv, Basics, BasicsAfter, Grows
    <2> QED
      BY <1>3, <2>2, WorldStep DEF ChangeZone
  <1>4. ASSUME Tick
        PROVE  CheckInv'
    <2>1. BasicsAfter /\ Grows
      BY <1>4, CheckAssumption DEF Tick, CheckInv, Basics, BasicsAfter, Grows
    <2> QED
      BY <1>4, <2>1, WorldStep DEF Tick
  <1>5. ASSUME UNCHANGED vars
        PROVE  CheckInv'
    <2>1. BasicsAfter /\ Grows
      BY <1>5 DEF vars, CheckInv, Basics, BasicsAfter, Grows
    <2> QED
      BY <1>5, <2>1, WorldStep DEF vars
  <1> QED
    BY <1>1, <1>2, <1>3, <1>4, <1>5, StopStep DEF Next

\* It holds at the start.
LEMMA InitCheck == Init => CheckInv
  <1> SUFFICES ASSUME Init
               PROVE  CheckInv
    OBVIOUS
  <1>1. Idle \in Reqs /\ Good(Idle, asked, published, aliases) /\ ~Runs(Idle)
    BY GoodEnd
  <1>2. \A r \in Requests : request[r] = Idle
    BY DEF Init
  <1>3. request \in [Requests -> Reqs]
    BY <1>1 DEF Init
  <1>4. Basics
    <2>1. Publishes(zone) \subseteq Names /\ 0 \in 0 .. MaxClock /\ 0 \in 0 .. MaxEdits
      BY CheckAssumption DEF Publishes
    <2> QED
      BY <1>3, <2>1 DEF Basics, Init, Entries
  <1>5. Sound(entry, asked, published, aliases)
    BY DEF Sound, Init
  <1>6. \A r \in Requests : Good(request[r], asked, published, aliases) /\ ~Runs(request[r])
    BY <1>1, <1>2
  <1> QED
    BY <1>4, <1>5, <1>6, Zenon DEF CheckInv

-----------------------------------------------------------------------------
(* The records of a label mean the same in every order.                    *)

\* SetToSeqs lists a finite set without leaving anything out.
LEMMA Rearranged ==
    ASSUME NEW t, t \in Seq(ToSet(t)), NEW s \in SetToSeqs(ToSet(t))
    PROVE  s \in Seq(ToSet(t)) /\ ToSet(s) = ToSet(t)
  <1> DEFINE S == ToSet(t)
             D == 1 .. Cardinality(S)
  <1>1. IsFiniteSet(S)
    <2>1. IsFiniteSet(1 .. Len(t)) /\ DOMAIN t = 1 .. Len(t)
      <3>1. Len(t) \in Nat /\ DOMAIN t = 1 .. Len(t)
        BY LenProperties
      <3>2. 1 \in Int /\ Len(t) \in Int
        BY <3>1
      <3> QED
        BY <3>1, <3>2, FS_Interval
    <2>2. IsFiniteSet({t[i] : i \in 1 .. Len(t)})
      <3> DEFINE f == [i \in 1 .. Len(t) |-> t[i]]
                 T == {t[i] : i \in 1 .. Len(t)}
      <3>1. f \in Surjection(1 .. Len(t), T)
        BY DEF Surjection
      <3> HIDE DEF f, T
      <3>2. IsFiniteSet(T)
        BY <2>1, <3>1, FS_Surjection
      <3> QED
        BY <3>2 DEF T
    <2> QED
      BY <2>1, <2>2 DEF ToSet
  <1>2. Cardinality(S) \in Nat
    BY <1>1, FS_CardinalityType
  <1>3. s \in [D -> S] /\ \A i, j \in D : i # j => s[i] # s[j]
    BY DEF SetToSeqs
  <1>4. Cardinality(D) = Cardinality(S)
    <2>1. 1 \in Int /\ Cardinality(S) \in Int
      BY <1>2
    <2>2. Cardinality(D) = IF 1 > Cardinality(S) THEN 0 ELSE Cardinality(S) - 1 + 1
      BY <2>1, FS_Interval
    <2> QED
      BY <1>2, <2>2
  <1> HIDE DEF S
  <1>5. s \in Injection(D, S)
    BY <1>3 DEF Injection, IsInjective
  <1>6. s \in Surjection(D, S)
    BY <1>1, <1>4, <1>5, FS_Injection
  <1>7. s \in Seq(S) /\ DOMAIN s = D
    BY <1>2, <1>3
  <1>8. ToSet(s) = S
    BY <1>3, <1>6, <1>7 DEF Surjection, ToSet
  <1> QED
    BY <1>7, <1>8 DEF S

\* Which kinds of records there are, and what the endpoint records list, is a
\* matter of the set of records.
LEMMA OrderIsFree ==
    ASSUME NEW s, s \in Seq(ToSet(s)), NEW t, t \in Seq(ToSet(t)), ToSet(s) = ToSet(t)
    PROVE  /\ EndpointsAtLabel(s) = EndpointsAtLabel(t)
           /\ EndpointsForClaim(s, Self) = EndpointsForClaim(t, Self)
           /\ CallerZone(s).endpoints = CallerZone(t).endpoints
           /\ Resolve(s) = Resolve(t)
  <1>1. /\ \A i \in DOMAIN s : \E j \in DOMAIN t : s[i] = t[j]
        /\ \A j \in DOMAIN t : \E i \in DOMAIN s : s[i] = t[j]
    BY Zenon DEF ToSet
  <1>2. UNION {RecordEndpoints(s[i].list) : i \in Of("endpoints", s)}
           = UNION {RecordEndpoints(t[i].list) : i \in Of("endpoints", t)}
    <2> DEFINE Listed(r) == {RecordEndpoints(r[i].list) : i \in Of("endpoints", r)}
    <2>1. ASSUME NEW e \in Listed(s)
          PROVE  e \in Listed(t)
      <3>1. PICK i \in DOMAIN s : s[i].kind = "endpoints" /\ e = RecordEndpoints(s[i].list)
        BY <2>1 DEF Of
      <3>2. PICK j \in DOMAIN t : s[i] = t[j]
        BY <1>1
      <3> QED
        BY <3>1, <3>2 DEF Of
    <2>2. ASSUME NEW e \in Listed(t)
          PROVE  e \in Listed(s)
      <3>1. PICK j \in DOMAIN t : t[j].kind = "endpoints" /\ e = RecordEndpoints(t[j].list)
        BY <2>2 DEF Of
      <3>2. PICK i \in DOMAIN s : s[i] = t[j]
        BY <1>1
      <3> QED
        BY <3>1, <3>2 DEF Of
    <2>3. Listed(s) = Listed(t)
      BY <2>1, <2>2, Zenon
    <2> QED
      BY <2>3
  <1>3. EndpointsAtLabel(s) = EndpointsAtLabel(t)
    BY <1>2, Zenon DEF EndpointsAtLabel
  <1>4. EndpointsForClaim(s, Self) = EndpointsForClaim(t, Self)
    BY <1>3, Zenon DEF EndpointsForClaim, NamesIdentity
  <1> DEFINE Parsed(r) == {i \in Of("mabel", r) : r[i].id # Junk}
  <1>5. Parsed(s) = {} <=> Parsed(t) = {}
    BY <1>1, SMT DEF Of
  <1>6. Of("mabel", s) = {} <=> Of("mabel", t) = {}
    BY <1>1, SMT DEF Of
  <1>7. CallerZone(s).endpoints = CallerZone(t).endpoints
    BY <1>3, <1>5 DEF CallerZone
  <1>8. ASSUME NEW r, r \in Seq(ToSet(r))
        PROVE  /\ CallerZone(r).identity # Junk <=> Parsed(r) # {}
               /\ CallerZone(r).claims = 0 <=> Of("mabel", r) = {}
    <2>1. Len(r) \in Nat /\ DOMAIN r = 1 .. Len(r)
      BY <1>8, LenProperties
    <2>2. Parsed(r) \subseteq Nat
      BY <2>1 DEF Of
    <2>3. ASSUME Parsed(r) # {}
          PROVE  r[Min(Parsed(r))].id # Junk
      <3>1. PICK T : T = Parsed(r)
        OBVIOUS
      <3>2. \E x \in T : \A y \in T : x <= y
        BY <2>2, <2>3, <3>1, LeastNatural
      <3>3. Min(T) \in T
        BY <3>2, Zenon DEF Min
      <3> QED
        BY <3>1, <3>3
    <2>4. CallerZone(r).identity # Junk <=> Parsed(r) # {}
      BY <2>3 DEF CallerZone
    <2>5. Cardinality(Of("mabel", r)) = 0 <=> Of("mabel", r) = {}
      <3>1. 1 \in Int /\ Len(r) \in Int
        BY <2>1
      <3>2. IsFiniteSet(1 .. Len(r)) /\ Of("mabel", r) \subseteq 1 .. Len(r)
        BY <2>1, <3>1, FS_Interval DEF Of
      <3>3. IsFiniteSet(Of("mabel", r))
        BY <3>2, FS_Subset
      <3> QED
        BY <3>3, FS_EmptySet
    <2> QED
      BY <2>4, <2>5 DEF CallerZone
  <1>9. Resolve(s) = Resolve(t)
    <2>1. /\ CallerZone(s).identity # Junk <=> CallerZone(t).identity # Junk
          /\ CallerZone(s).claims = 0 <=> CallerZone(t).claims = 0
      BY <1>5, <1>6, <1>8
    <2> QED
      BY <2>1, Zenon DEF Resolve
  <1> QED
    BY <1>3, <1>4, <1>7, <1>9

-----------------------------------------------------------------------------
(* The theorems.                                                           *)

\* At most one element satisfies a predicate that no two do.
LEMMA AtMostOne ==
    ASSUME NEW S, \A s, t \in S : s = t
    PROVE  Cardinality(S) <= 1
  <1>1. CASE S = {}
    BY <1>1, FS_EmptySet
  <1>2. CASE S # {}
    <2>1. PICK s \in S : TRUE
      BY <1>2
    <2>2. S = {s}
      BY <2>1
    <2>3. Cardinality({s}) = 1
      BY FS_Singleton
    <2> QED
      BY <2>2, <2>3
  <1> QED
    BY <1>1, <1>2

\* A check is made only for a hostname a person has asked about, and however
\* many stale documents are read, at most one refresh runs
\* (refresh_in_background, should_refresh).
THEOREM QuietTheorem == Spec => []BackgroundIsQuiet
  <1>1. CheckInv => BackgroundIsQuiet
    <2> SUFFICES ASSUME CheckInv
                 PROVE  BackgroundIsQuiet
      OBVIOUS
    <2>1. OnlyAskedNamesAreQueried
      BY OneRequest DEF OnlyAskedNamesAreQueried, Good, Busy
    <2>2. OneRefreshAtATime
      <3> DEFINE S == {r \in Requests : request[r].by = "document" /\ request[r].at \in
                    {"txt", "cname", "read", "write", "release"}}
      <3>1. \A s, t \in S : s = t
        BY Zenon DEF CheckInv, Runs
      <3> HIDE DEF S
      <3>2. Cardinality(S) <= 1
        BY <3>1, AtMostOne
      <3> QED
        BY <3>2 DEF S, OneRefreshAtATime
    <2> QED
      BY <2>1, <2>2 DEF BackgroundIsQuiet
  <1> QED
    BY <1>1, InitCheck, StepCheck, PTL DEF Spec

\* The identity document calls a hostname verified only if the zone of that very
\* hostname has named this identity, at its label or where its aliases led,
\* whatever checks, changes of the profile and the zone, and restarts come in
\* between and however far the resolver follows aliases (verify_hostname, merge,
\* cached_verification); a check asks at most one name more than MaxLinks; and
\* what a label offers does not depend on the order of its records
\* (endpoints_at_label, caller_zone).
THEOREM ZonesTheorem == Spec => []ZonesAreReadTruly
  <1>1. CheckInv => ZonesAreReadTruly
    <2> SUFFICES ASSUME CheckInv
                 PROVE  ZonesAreReadTruly
      OBVIOUS
    <2>1. TypeOK
      <3>1. \A r \in Requests :
               /\ request[r].at \in {"idle", "stale", "txt", "cname", "read", "write", "release", "done"}
               /\ request[r].seen \in Entries
               /\ request[r].links <= MaxLinks
               /\ Cardinality(request[r].visited) <= request[r].links + 1
        BY OneRequest DEF Good, Reqs, Ats
      <3> QED
        BY <3>1 DEF TypeOK, CheckInv, Basics
    <2>2. ASSUME Shown.status = "verified"
          PROVE  Reached(aliases, Label[claim]) \cap published # {}
      <3>1. Covers(entry, claim) /\ entry.status = "verified"
        BY <2>2, ShownFacts
      <3>2. Vouched(claim, published, aliases)
        BY <3>1 DEF CheckInv, Sound, Covers
      <3> QED
        BY <3>2 DEF Vouched
    <2>3. EndpointsIgnoreOrder
      <3> SUFFICES ASSUME NEW n \in Names, NEW s \in SetToSeqs(ToSet(zone[n].txt))
                   PROVE  LET t == zone[n].txt IN
                          /\ EndpointsAtLabel(s) = EndpointsAtLabel(t)
                          /\ EndpointsForClaim(s, Self) = EndpointsForClaim(t, Self)
                          /\ CallerZone(s).endpoints = CallerZone(t).endpoints
                          /\ Resolve(s) = Resolve(t)
        BY Zenon DEF EndpointsIgnoreOrder
      <3>1. PICK t : t = zone[n].txt
        OBVIOUS
      <3>2. t \in Seq(ToSet(t))
        BY <3>1, CheckAssumption DEF CheckInv, Basics
      <3>3. s \in Seq(ToSet(t)) /\ ToSet(s) = ToSet(t)
        BY <3>1, <3>2, Rearranged
      <3>4. s \in Seq(ToSet(s))
        BY <3>3
      <3> QED
        BY <3>1, <3>2, <3>3, <3>4, OrderIsFree
    <2> QED
      BY <2>1, <2>2, <2>3 DEF ShownVerdictWasPublished, ZonesAreReadTruly
  <1> QED
    BY <1>1, InitCheck, StepCheck, PTL DEF Spec

\* A failed check leaves the decisive verdict and the time of the last
\* verification as it read them (merge in verification/cache.rs).
THEOREM FailedChecksTheorem == Spec => FailedChecksOverwriteNothing
  <1> DEFINE Kept(r) ==
        /\ WriteEntry(r) /\ request[r].status = "unreachable"
        /\ Covers(entry, request[r].hostname) /\ request[r].seen = entry
        => /\ Decisive(entry.status) => entry'.status = entry.status
           /\ entry'.verified = entry.verified
  <1>1. ASSUME CheckInv, NEW r \in Requests
        PROVE  Kept(r)
    <2> SUFFICES ASSUME WriteEntry(r), request[r].status = "unreachable",
                        Covers(entry, request[r].hostname), request[r].seen = entry
                 PROVE  /\ Decisive(entry.status) => entry'.status = entry.status
                        /\ entry'.verified = entry.verified
      OBVIOUS
    <2>1. PICK h : h = request[r].hostname
      OBVIOUS
    <2>2. entry' = Merge(entry, h, "unreachable", clock) /\ Covers(entry, h)
      BY <2>1 DEF WriteEntry
    <2> DEFINE Times == {<<>>} \cup {<<t>> : t \in 0 .. MaxClock}
               Full == [hostname : Hostnames, status : Statuses, checked : 0 .. MaxClock,
                        verified : Times, failed : Times]
    <2>3. entry \in Full
      <3>1. Entries = Full \cup {NoEntry}
        BY DEF Entries
      <3>2. entry \in Entries /\ entry # NoEntry
        BY <1>1, <2>2, OneRequest DEF Covers
      <3> HIDE DEF Full
      <3> QED
        BY <3>1, <3>2
    <2> HIDE DEF Times
    <2>4. CASE Decisive(entry.status)
      <3>1. entry' = [entry EXCEPT !.failed = <<clock>>]
        BY <2>2, <2>4 DEF Merge
      <3> QED
        BY <2>3, <3>1
    <2>5. CASE ~Decisive(entry.status)
      <3>1. entry' = [First(h, "unreachable", clock) EXCEPT !.verified = entry.verified]
        BY <2>2, <2>5 DEF Merge
      <3>2. entry'.verified = entry.verified
        BY <3>1 DEF First
      <3> QED
        BY <2>5, <3>2
    <2> QED
      BY <2>4, <2>5
  <1>2. CheckInv /\ [Next]_vars => [\A r \in Requests : Kept(r)]_vars
    BY <1>1
  <1> QED
    BY <1>2, InitCheck, StepCheck, PTL DEF Spec, FailedChecksOverwriteNothing
=============================================================================
