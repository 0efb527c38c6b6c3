-------------------------- MODULE SourceFetchProofs --------------------------
(***************************************************************************)
(* What SourceFetch promises for any number of ledgers, witnesses and      *)
(* endpoints, any budget and any answers: the ration is kept, also for the *)
(* configured witnesses, and what a fetch keeps is supported.              *)
(***************************************************************************)
EXTENDS SourceFetch, SequenceFacts

-----------------------------------------------------------------------------
(* Counting up.                                                            *)

\* What holds at zero and is handed on holds all the way.
LEMMA CountUp ==
    ASSUME NEW n \in Nat, NEW G, 0 \in G, \A i \in 1 .. n : i - 1 \in G => i \in G
    PROVE  \A i \in 0 .. n : i \in G
  <1> DEFINE Bad == {i \in 0 .. n : i \notin G}
  <1> SUFFICES ASSUME Bad # {}
               PROVE  FALSE
    OBVIOUS
  <1>1. Bad \subseteq Nat
    OBVIOUS
  <1>2. PICK i \in Bad : \A k \in Bad : i <= k
    BY <1>1, LeastNatural
  <1>3. i \in 1 .. n /\ i - 1 \in 0 .. n /\ i - 1 < i /\ i \in Nat
    BY <1>2
  <1>4. i - 1 \notin Bad
    <2> HIDE DEF Bad
    <2> QED
      BY <1>2, <1>3
  <1> QED
    BY <1>2, <1>3, <1>4

\* A list is a list of its own elements.
LEMMA OwnElements ==
    ASSUME NEW S, NEW s \in Seq(S)
    PROVE  /\ s \in Seq(Range(s)) /\ Len(s) \in Nat /\ DOMAIN s = 1 .. Len(s)
           /\ Range(s) \subseteq S
  <1>1. s \in [1 .. Len(s) -> S] /\ Len(s) \in Nat /\ DOMAIN s = 1 .. Len(s)
    BY LenProperties
  <1>2. s \in [1 .. Len(s) -> Range(s)] /\ Range(s) \subseteq S
    BY <1>1 DEF Range
  <1> QED
    BY <1>1, <1>2, SeqDef

\* A list of elements of a set that are all in another.
LEMMA Elsewhere ==
    ASSUME NEW S, NEW T, NEW s \in Seq(S), Range(s) \subseteq T
    PROVE  s \in Seq(T)
  <1>1. s \in [1 .. Len(s) -> T] /\ Len(s) \in Nat
    BY LenProperties DEF Range
  <1> QED
    BY <1>1, SeqDef

\* The elements of two lists in a row.
LEMMA ConcatRange ==
    ASSUME NEW S, NEW s \in Seq(S), NEW t \in Seq(S)
    PROVE  /\ s \o t \in Seq(S) /\ Len(s \o t) = Len(s) + Len(t)
           /\ Range(s \o t) = Range(s) \cup Range(t)
           /\ \A i \in 1 .. Len(s) : (s \o t)[i] = s[i]
           /\ \A i \in 1 .. Len(s) + Len(t) :
                i > Len(s) => (s \o t)[i] = t[i - Len(s)] /\ i - Len(s) \in 1 .. Len(t)
  <1> DEFINE u == s \o t
  <1>1. /\ Len(s) \in Nat /\ Len(t) \in Nat /\ DOMAIN s = 1 .. Len(s) /\ DOMAIN t = 1 .. Len(t)
    BY LenProperties
  <1>2. /\ u \in Seq(S) /\ Len(u) = Len(s) + Len(t)
        /\ \A i \in 1 .. Len(s) + Len(t) : u[i] = IF i <= Len(s) THEN s[i] ELSE t[i - Len(s)]
    BY ConcatProperties
  <1>3. DOMAIN u = 1 .. Len(s) + Len(t)
    BY <1>2, LenProperties
  <1> HIDE DEF u
  <1>4. \A i \in 1 .. Len(s) : u[i] = s[i]
    BY <1>1, <1>2
  <1>5. \A i \in 1 .. Len(s) + Len(t) : i > Len(s) => u[i] = t[i - Len(s)] /\ i - Len(s) \in 1 .. Len(t)
    BY <1>1, <1>2
  <1>6. \A i \in 1 .. Len(t) : u[i + Len(s)] = t[i] /\ i + Len(s) \in DOMAIN u
    BY <1>1, <1>2, <1>3
  <1>7. \A i \in DOMAIN u : i \in 1 .. Len(s) \/ (i - Len(s) \in 1 .. Len(t) /\ u[i] = t[i - Len(s)])
    <2>1. \A i \in DOMAIN u : i \in 1 .. Len(s) \/ (i \in 1 .. Len(s) + Len(t) /\ i > Len(s))
      BY <1>1, <1>3
    <2> QED
      BY <1>5, <2>1
  <1>8. \A i \in 1 .. Len(s) : i \in DOMAIN u
    BY <1>1, <1>3
  <1>9. Range(u) = Range(s) \cup Range(t)
    <2>1. ASSUME NEW x \in Range(u)
          PROVE  x \in Range(s) \cup Range(t)
      BY <1>1, <1>4, <1>7, <2>1 DEF Range
    <2>2. ASSUME NEW x \in Range(s) \cup Range(t)
          PROVE  x \in Range(u)
      BY <1>1, <1>4, <1>6, <1>8, <2>2 DEF Range
    <2> QED
      BY <2>1, <2>2
  <1> QED
    BY <1>2, <1>4, <1>5, <1>9 DEF u

\* The elements of a list with one more.
LEMMA AppendRange ==
    ASSUME NEW S, NEW s \in Seq(S), NEW x \in S
    PROVE  /\ Append(s, x) \in Seq(S) /\ Len(Append(s, x)) = Len(s) + 1
           /\ Range(Append(s, x)) = Range(s) \cup {x}
           /\ \A i \in 1 .. Len(s) : Append(s, x)[i] = s[i]
  <1> DEFINE u == Append(s, x)
  <1>1. Len(s) \in Nat /\ DOMAIN s = 1 .. Len(s)
    BY LenProperties
  <1>2. /\ u \in Seq(S) /\ Len(u) = Len(s) + 1 /\ u[Len(s) + 1] = x
        /\ \A i \in 1 .. Len(s) : u[i] = s[i]
    BY AppendProperties
  <1>3. DOMAIN u = 1 .. Len(s) + 1
    BY <1>2, LenProperties
  <1> HIDE DEF u
  <1>4. /\ \A i \in DOMAIN u : i \in DOMAIN s \/ i = Len(s) + 1
        /\ \A i \in DOMAIN s : i \in DOMAIN u
        /\ Len(s) + 1 \in DOMAIN u
    BY <1>1, <1>3
  <1>5. Range(u) = Range(s) \cup {x}
    BY <1>1, <1>2, <1>4 DEF Range
  <1> QED
    BY <1>2, <1>5 DEF u

-----------------------------------------------------------------------------
(* Planning.  The plan is a recursive function over the sources; that it   *)
(* exists is shown by counting up.                                         *)

\* One source after the others.
Pushed(before, s) == Only({PushAdmitted(plan, s) : plan \in {before}})

\* Binding the plan does not change it.
LEMMA PushedIs ==
    ASSUME NEW before, NEW s
    PROVE  Pushed(before, s) = PushAdmitted(before, s)
  <1> DEFINE p == PushAdmitted(before, s)
             T == {PushAdmitted(plan, s) : plan \in {before}}
  <1>1. p \in T /\ \A x \in T : x = p
    OBVIOUS
  <1> HIDE DEF p, T
  <1>2. T = {p}
    BY <1>1
  <1>3. Only({p}) = p
    BY DEF Only
  <1> QED
    BY <1>2, <1>3 DEF Pushed, p, T

\* Before any source.
Started(asked, b) == [asked |-> asked, planned |-> <<>>, budget |-> b]

\* f holds the plans after up to n sources.
Plans(asked, b, sources, n, f) ==
    f = [i \in 0 .. n |->
            IF i = 0 THEN Started(asked, b)
            ELSE Pushed(f[i - 1], sources[i])]

\* The plan after any number of sources is there.
LEMMA PlansExist ==
    ASSUME NEW asked, NEW b, NEW sources, NEW n \in Nat
    PROVE  \E f : Plans(asked, b, sources, n, f)
  <1> DEFINE G == {m \in Nat : \E f : Plans(asked, b, sources, m, f)}
  <1>1. 0 \in G
    <2> DEFINE f == [k \in 0 .. 0 |-> Started(asked, b)]
    <2>1. Plans(asked, b, sources, 0, f)
      BY DEF Plans
    <2> QED
      BY <2>1
  <1>2. ASSUME NEW m \in 1 .. n, m - 1 \in G
        PROVE  m \in G
    <2>1. PICK f : Plans(asked, b, sources, m - 1, f)
      BY <1>2
    <2> DEFINE next == Pushed(f[m - 1], sources[m])
               g == [k \in 0 .. m |-> IF k < m THEN f[k] ELSE next]
    <2>2. \A k \in 0 .. m : g[k] =
             IF k = 0 THEN Started(asked, b)
             ELSE Pushed(g[k - 1], sources[k])
      <3> SUFFICES ASSUME NEW k \in 0 .. m
                   PROVE  g[k] = IF k = 0 THEN Started(asked, b)
                                 ELSE Pushed(g[k - 1], sources[k])
        OBVIOUS
      <3>1. CASE k = m
        <4>1. g[m] = next /\ g[m - 1] = f[m - 1]
          BY <1>2
        <4> HIDE DEF g
        <4> QED
          BY <1>2, <3>1, <4>1
      <3>2. CASE k < m
        <4>1. k \in 0 .. m - 1
          BY <1>2, <3>2
        <4>2. f[k] = IF k = 0 THEN Started(asked, b)
                     ELSE Pushed(f[k - 1], sources[k])
          BY <2>1, <4>1 DEF Plans
        <4>3. g[k] = f[k] /\ (k # 0 => g[k - 1] = f[k - 1])
          BY <1>2, <3>2
        <4> QED
          BY <4>2, <4>3
      <3> QED
        BY <1>2, <3>1, <3>2
    <2>3. g = [k \in 0 .. m |-> g[k]]
      OBVIOUS
    <2> HIDE DEF g
    <2>4. Plans(asked, b, sources, m, g)
      BY <2>2, <2>3 DEF Plans
    <2>5. m \in Nat
      BY <1>2
    <2> QED
      BY <2>4, <2>5
  <1> HIDE DEF G
  <1>3. \A m \in 0 .. n : m \in G
    BY <1>1, <1>2, CountUp
  <1>4. n \in G
    BY <1>3
  <1> QED
    BY <1>4 DEF G

\* A plan that starts with nothing planned and takes one source after the other.
PlanRun(f, asked, b, sources) ==
    /\ f[0] = Started(asked, b)
    /\ \A i \in 1 .. Len(sources) : f[i] = PushAdmitted(f[i - 1], sources[i])
    /\ Plan(asked, b, sources) = f[Len(sources)]

\* Plan makes such a plan.
LEMMA PlanRuns ==
    ASSUME NEW asked, NEW b, NEW sources, Len(sources) \in Nat
    PROVE  \E f : PlanRun(f, asked, b, sources)
  <1> DEFINE f == CHOOSE f : Plans(asked, b, sources, Len(sources), f)
  <1>1. Plans(asked, b, sources, Len(sources), f)
    BY PlansExist
  <1>2. Plan(asked, b, sources) = f[Len(sources)]
    BY DEF Plan, Plans, Started, Pushed
  <1> HIDE DEF f
  <1>3. \A i \in 0 .. Len(sources) : f[i] =
          IF i = 0 THEN Started(asked, b)
          ELSE Pushed(f[i - 1], sources[i])
    BY <1>1 DEF Plans
  <1>4. f[0] = Started(asked, b)
    BY <1>3
  <1>5. ASSUME NEW i \in 1 .. Len(sources)
        PROVE  f[i] = PushAdmitted(f[i - 1], sources[i])
    <2>1. f[i] = Pushed(f[i - 1], sources[i])
      BY <1>3
    <2> QED
      BY <2>1, PushedIs
  <1> QED
    BY <1>2, <1>4, <1>5 DEF PlanRun

-----------------------------------------------------------------------------
(* The budget.  The slots owed to the configured witnesses are never given *)
(* away, so that a class may meet its own cap but not theirs.              *)

\* The slots that are still to go to the configured witnesses.
Owed(b) == IF b.spent["node_witness"] < Reserved THEN Reserved - b.spent["node_witness"] ELSE 0

\* What was dialled leaves room for what is owed.
BudgetOK(b) ==
    /\ b.dialled \subseteq Endpoints /\ IsFiniteSet(b.dialled)
    /\ b.spent \in [Classes -> Nat]
    /\ Cardinality(b.dialled) + Owed(b) <= MaxDials

\* c is b with at most one endpoint more.
OneMore(b, c) ==
    /\ BudgetOK(c) /\ b.dialled \subseteq c.dialled
    /\ Cardinality(c.dialled) <= Cardinality(b.dialled) + 1
    /\ \A k \in Classes : b.spent[k] <= c.spent[k] /\ c.spent[k] <= b.spent[k] + 1

\* The sources that are dialled: all but the local copy.
Dials == [kind : Kinds \ {"local"}, endpoint : Endpoints]

\* The numbers of a budget.
LEMMA BudgetNumbers ==
    ASSUME NEW b, BudgetOK(b)
    PROVE  /\ Cardinality(b.dialled) \in Nat /\ Owed(b) \in 0 .. Reserved
           /\ \A k \in Classes : b.spent[k] \in Nat /\ ClassCap[k] \in Nat
           /\ MaxDials \in Nat /\ Reserved \in Nat /\ "node_witness" \in Classes
           /\ \A k : Ceiling(b, k) = IF k = "node_witness" THEN MaxDials ELSE MaxDials - Owed(b)
  <1>1. Cardinality(b.dialled) \in Nat
    BY FS_CardinalityType DEF BudgetOK
  <1>2. MaxDials \in Nat /\ Reserved \in Nat /\ ClassCap \in [Classes -> Nat]
    BY BudgetAssumption
  <1>3. "node_witness" \in Classes
    BY DEF Classes
  <1>4. \A k \in Classes : b.spent[k] \in Nat /\ ClassCap[k] \in Nat
    BY <1>2 DEF BudgetOK
  <1>5. Owed(b) \in 0 .. Reserved
    BY <1>2, <1>3, <1>4 DEF Owed
  <1> QED
    BY <1>1, <1>2, <1>3, <1>4, <1>5 DEF Ceiling, Owed

\* A source that is dialled is of one of the classes.
LEMMA DialClass ==
    ASSUME NEW s \in Dials
    PROVE  Class(s.kind) \in Classes /\ s.endpoint \in Endpoints /\ s \in Sources
  <1>1. s.kind \in Kinds /\ s.kind # "local" /\ s.endpoint \in Endpoints
    BY DEF Dials
  <1>2. Class(s.kind) \in Classes
    BY <1>1 DEF Kinds, Class, Classes
  <1>3. s \in Sources
    BY DEF Dials, Sources
  <1> QED
    BY <1>1, <1>2, <1>3

\* Charging an admitted endpoint leaves what is owed.
LEMMA ChargeFacts ==
    ASSUME NEW b, BudgetOK(b), NEW k \in Classes, NEW e \in Endpoints, Admits(b, k, e)
    PROVE  OneMore(b, Charge(b, k, e)) /\ e \in Charge(b, k, e).dialled
  <1> DEFINE c == Charge(b, k, e)
  <1>0. /\ Cardinality(b.dialled) \in Nat /\ Owed(b) \in 0 .. Reserved
        /\ \A j \in Classes : b.spent[j] \in Nat /\ ClassCap[j] \in Nat
        /\ MaxDials \in Nat /\ Reserved \in Nat /\ "node_witness" \in Classes
        /\ Ceiling(b, k) = IF k = "node_witness" THEN MaxDials ELSE MaxDials - Owed(b)
    BY BudgetNumbers
  <1>1. CASE e \in b.dialled
    <2>1. c = b
      BY <1>1 DEF Charge
    <2> QED
      BY <1>0, <1>1, <2>1 DEF OneMore
  <1>2. CASE e \notin b.dialled
    <2>1. c = [dialled |-> b.dialled \cup {e}, spent |-> [b.spent EXCEPT ![k] = @ + 1]]
      BY <1>2 DEF Charge
    <2>2. c.dialled = b.dialled \cup {e} /\ c.spent = [b.spent EXCEPT ![k] = @ + 1]
      BY <2>1
    <2> HIDE DEF c
    <2>3. IsFiniteSet(c.dialled) /\ Cardinality(c.dialled) = Cardinality(b.dialled) + 1
      <3> DEFINE D == b.dialled
      <3>1. IsFiniteSet(D) /\ e \notin D
        BY <1>2 DEF BudgetOK
      <3> HIDE DEF D
      <3>2. IsFiniteSet(D \cup {e}) /\ Cardinality(D \cup {e}) = Cardinality(D) + 1
        BY <3>1, FS_AddElement
      <3> QED
        BY <2>2, <3>2 DEF D
    <2>4. /\ c.spent \in [Classes -> Nat] /\ c.spent[k] = b.spent[k] + 1
          /\ \A j \in Classes : j # k => c.spent[j] = b.spent[j]
      <3>1. b.spent \in [Classes -> Nat]
        BY DEF BudgetOK
      <3> QED
        BY <2>2, <3>1
    <2>5. Cardinality(b.dialled) < Ceiling(b, k)
      BY <1>2 DEF Admits
    <2>6. Cardinality(c.dialled) + Owed(c) <= MaxDials
      <3>1. Cardinality(b.dialled) + Owed(b) <= MaxDials
        BY DEF BudgetOK
      <3>2. CASE k = "node_witness"
        <4>1. c.spent["node_witness"] = b.spent["node_witness"] + 1 /\ b.spent["node_witness"] \in Nat
          BY <1>0, <2>4, <3>2
        <4>2. Cardinality(b.dialled) < MaxDials
          BY <1>0, <2>5, <3>2
        <4> QED
          BY <1>0, <2>3, <3>1, <4>1, <4>2 DEF Owed
      <3>3. CASE k # "node_witness"
        <4>1. Owed(c) = Owed(b)
          BY <1>0, <2>4, <3>3 DEF Owed
        <4> QED
          BY <1>0, <2>3, <2>5, <3>3, <4>1
      <3> QED
        BY <3>2, <3>3
    <2>7. BudgetOK(c)
      BY <2>2, <2>3, <2>4, <2>6 DEF BudgetOK
    <2>8. \A j \in Classes : b.spent[j] <= c.spent[j] /\ c.spent[j] <= b.spent[j] + 1
      BY <1>0, <2>4
    <2> QED
      BY <1>0, <2>2, <2>3, <2>7, <2>8 DEF OneMore, c
  <1> QED
    BY <1>1, <1>2

\* The endpoints of two lists of sources.
LEMMA NamesConcat ==
    ASSUME NEW S, NEW s \in Seq(S), NEW t \in Seq(S), NEW e
    PROVE  /\ Names(s \o t, e) <=> Names(s, e) \/ Names(t, e)
           /\ Names(s, e) <=> \E x \in Range(s) : x.endpoint = e
  <1>1. \A u : Names(u, e) <=> \E x \in Range(u) : x.endpoint = e
    BY DEF Names, Range
  <1>2. Range(s \o t) = Range(s) \cup Range(t)
    BY ConcatRange
  <1> QED
    BY <1>1, <1>2

\* What is planned was charged for and not planned before.
PlanOK(p, asked) ==
    /\ DOMAIN p = {"asked", "planned", "budget"} /\ p.asked = asked
    /\ p.planned \in Seq(Dials) /\ BudgetOK(p.budget)
    /\ \A s \in Range(p.planned) : s.endpoint \in p.budget.dialled /\ ~Names(asked, s.endpoint)

\* One source is planned, if its endpoint is new to the plan and admitted.
LEMMA PushFacts ==
    ASSUME NEW asked \in Seq(Sources), NEW p, PlanOK(p, asked), NEW s \in Dials
    PROVE  LET q == PushAdmitted(p, s)
               old == Names(asked, s.endpoint) \/ Names(p.planned, s.endpoint)
           IN  /\ PlanOK(q, asked) /\ OneMore(p.budget, q.budget)
               /\ old => q = p
               /\ ~old /\ Admits(p.budget, Class(s.kind), s.endpoint) => q.planned = Append(p.planned, s)
               /\ ~Admits(p.budget, Class(s.kind), s.endpoint) => q = p
               /\ q.planned = p.planned \/ q.planned = Append(p.planned, s)
  <1> DEFINE q == PushAdmitted(p, s)
             e == s.endpoint
             k == Class(s.kind)
             old == Names(asked, e) \/ Names(p.planned, e)
  <1>0. k \in Classes /\ e \in Endpoints /\ s \in Sources
    BY DialClass
  <1>1. p.planned \in Seq(Dials) /\ p.planned \in Seq(Sources) /\ BudgetOK(p.budget) /\ p.asked = asked
    <2>1. \A x \in Range(p.planned) : x \in Sources
      BY OwnElements, DialClass DEF PlanOK
    <2>2. p.planned \in Seq(Dials) /\ Range(p.planned) \subseteq Sources
      BY <2>1 DEF PlanOK
    <2> QED
      BY <2>2, Elsewhere DEF PlanOK
  <1>2. Names(p.asked \o p.planned, e) <=> old
    BY <1>1, NamesConcat
  <1> HIDE DEF old, e, k
  <1>3. OneMore(p.budget, p.budget)
    <2>1. /\ Cardinality(p.budget.dialled) \in Nat /\ \A j \in Classes : p.budget.spent[j] \in Nat
      BY <1>1, BudgetNumbers
    <2> QED
      BY <1>1, <2>1 DEF OneMore
  <1>4. CASE old \/ ~Admits(p.budget, k, e)
    <2>1. q = p
      BY <1>2, <1>4 DEF PushAdmitted, e, k
    <2> QED
      BY <1>3, <1>4, <2>1 DEF old, e, k
  <1>5. CASE ~old /\ Admits(p.budget, k, e)
    <2>1. q = [p EXCEPT !.planned = Append(@, s), !.budget = Charge(@, k, e)]
      BY <1>2, <1>5 DEF PushAdmitted, e, k
    <2>2. /\ q.planned = Append(p.planned, s) /\ q.budget = Charge(p.budget, k, e)
          /\ q.asked = p.asked /\ DOMAIN q = DOMAIN p
      BY <2>1 DEF PlanOK
    <2> HIDE DEF q
    <2>3. OneMore(p.budget, q.budget) /\ e \in q.budget.dialled
      BY <1>0, <1>1, <1>5, <2>2, ChargeFacts
    <2>4. q.planned \in Seq(Dials) /\ Range(q.planned) = Range(p.planned) \cup {s}
      BY <1>1, <2>2, AppendRange
    <2>5. \A x \in Range(q.planned) : x.endpoint \in q.budget.dialled /\ ~Names(asked, x.endpoint)
      BY <1>5, <2>3, <2>4 DEF PlanOK, OneMore, old, e
    <2>6. PlanOK(q, asked)
      BY <1>1, <2>2, <2>3, <2>4, <2>5 DEF PlanOK, OneMore
    <2> QED
      BY <1>5, <2>2, <2>3, <2>6 DEF old, e, k, q
  <1> QED
    BY <1>4, <1>5

\* After any number of sources the budget holds, and no more than one endpoint
\* was charged for each.
LEMMA PlanFacts ==
    ASSUME NEW asked \in Seq(Sources), NEW b, BudgetOK(b), NEW sources \in Seq(Dials),
           NEW f, PlanRun(f, asked, b, sources)
    PROVE  \A i \in 0 .. Len(sources) :
              /\ PlanOK(f[i], asked) /\ b.dialled \subseteq f[i].budget.dialled
              /\ \A k \in Classes : /\ b.spent[k] <= f[i].budget.spent[k]
                                    /\ f[i].budget.spent[k] <= b.spent[k] + i
              /\ Cardinality(f[i].budget.dialled) <= Cardinality(b.dialled) + i
              /\ Range(f[i].planned) \subseteq Range(sources)
  <1> DEFINE Good(i) ==
              /\ PlanOK(f[i], asked) /\ b.dialled \subseteq f[i].budget.dialled
              /\ \A k \in Classes : /\ b.spent[k] <= f[i].budget.spent[k]
                                    /\ f[i].budget.spent[k] <= b.spent[k] + i
              /\ Cardinality(f[i].budget.dialled) <= Cardinality(b.dialled) + i
              /\ Range(f[i].planned) \subseteq Range(sources)
             G == {i \in Nat : Good(i)}
  <1>0. /\ Cardinality(b.dialled) \in Nat /\ \A k \in Classes : b.spent[k] \in Nat
        /\ Len(sources) \in Nat /\ DOMAIN sources = 1 .. Len(sources)
        /\ \A i \in 1 .. Len(sources) : sources[i] \in Dials
    BY BudgetNumbers, LenProperties, ElementOfSeq
  <1>1. 0 \in G
    <2>1. f[0] = Started(asked, b)
      BY DEF PlanRun
    <2>2. /\ f[0].asked = asked /\ f[0].planned = <<>> /\ f[0].budget = b
          /\ DOMAIN f[0] = {"asked", "planned", "budget"}
      BY <2>1 DEF Started
    <2>3. <<>> \in Seq(Dials) /\ Range(<<>>) = {}
      BY DEF Range
    <2>4. PlanOK(f[0], asked)
      BY <2>2, <2>3 DEF PlanOK
    <2> QED
      BY <1>0, <2>2, <2>3, <2>4
  <1>2. ASSUME NEW i \in 1 .. Len(sources), i - 1 \in G
        PROVE  i \in G
    <2> DEFINE p == f[i - 1]
               q == f[i]
    <2>1. Good(i - 1) /\ i \in Nat /\ i - 1 \in Nat
      BY <1>0, <1>2
    <2>2. q = PushAdmitted(p, sources[i]) /\ sources[i] \in Dials /\ sources[i] \in Range(sources)
      BY <1>0, <1>2 DEF PlanRun, Range
    <2>3. PlanOK(p, asked)
      BY <2>1
    <2> HIDE DEF q
    <2>4. /\ PlanOK(q, asked) /\ OneMore(p.budget, q.budget)
          /\ q.planned = p.planned \/ q.planned = Append(p.planned, sources[i])
      BY <2>2, <2>3, PushFacts
    <2>5. /\ Cardinality(p.budget.dialled) \in Nat /\ \A k \in Classes : p.budget.spent[k] \in Nat
          /\ Cardinality(q.budget.dialled) \in Nat /\ \A k \in Classes : q.budget.spent[k] \in Nat
      BY <2>3, <2>4, BudgetNumbers DEF PlanOK
    <2>6. b.dialled \subseteq q.budget.dialled
      BY <2>1, <2>4 DEF OneMore
    <2>7. ASSUME NEW k \in Classes
          PROVE  b.spent[k] <= q.budget.spent[k] /\ q.budget.spent[k] <= b.spent[k] + i
      <3>1. /\ b.spent[k] <= p.budget.spent[k] /\ p.budget.spent[k] <= b.spent[k] + (i - 1)
            /\ p.budget.spent[k] <= q.budget.spent[k] /\ q.budget.spent[k] <= p.budget.spent[k] + 1
        BY <2>1, <2>4 DEF OneMore
      <3>2. i \in Nat /\ b.spent[k] \in Nat /\ p.budget.spent[k] \in Nat /\ q.budget.spent[k] \in Nat
        BY <1>0, <1>2, <2>5
      <3> DEFINE x == b.spent[k]
                 y == p.budget.spent[k]
                 z == q.budget.spent[k]
      <3>3. /\ x \in Nat /\ y \in Nat /\ z \in Nat /\ i \in Nat
            /\ x <= y /\ y <= x + (i - 1) /\ y <= z /\ z <= y + 1
        BY <3>1, <3>2
      <3> HIDE DEF x, y, z
      <3>4. x <= z /\ z <= x + i
        BY <3>3
      <3> QED
        BY <3>4 DEF x, y, z
    <2>8. Cardinality(q.budget.dialled) <= Cardinality(b.dialled) + i
      <3>1. /\ Cardinality(p.budget.dialled) <= Cardinality(b.dialled) + (i - 1)
            /\ Cardinality(q.budget.dialled) <= Cardinality(p.budget.dialled) + 1
        BY <2>1, <2>4 DEF OneMore
      <3> QED
        BY <1>0, <2>1, <2>5, <3>1
    <2>9. Range(q.planned) \subseteq Range(sources)
      <3>1. Range(p.planned) \subseteq Range(sources) /\ p.planned \in Seq(Dials)
        BY <2>1 DEF PlanOK
      <3>2. Range(Append(p.planned, sources[i])) = Range(p.planned) \cup {sources[i]}
        BY <2>2, <3>1, AppendRange
      <3> QED
        BY <2>2, <2>4, <3>1, <3>2
    <2> QED
      BY <2>1, <2>4, <2>6, <2>7, <2>8, <2>9 DEF q
  <1> HIDE DEF Good
  <1>3. \A i \in 0 .. Len(sources) : i \in G
    <2> HIDE DEF G
    <2> QED
      BY <1>0, <1>1, <1>2, CountUp
  <1>4. \A i \in 0 .. Len(sources) : Good(i)
    BY <1>3
  <1> QED
    BY <1>4 DEF Good

\* A plan only grows while it is made.
LEMMA PlanGrows ==
    ASSUME NEW asked \in Seq(Sources), NEW b, BudgetOK(b), NEW sources \in Seq(Dials),
           NEW f, PlanRun(f, asked, b, sources), NEW j \in 0 .. Len(sources)
    PROVE  /\ Range(f[j].planned) \subseteq Range(f[Len(sources)].planned)
           /\ \A k \in Classes : f[j].budget.spent[k] <= f[Len(sources)].budget.spent[k]
  <1> DEFINE Good(i) == j <= i => /\ Range(f[j].planned) \subseteq Range(f[i].planned)
                                  /\ \A k \in Classes : f[j].budget.spent[k] <= f[i].budget.spent[k]
             G == {i \in Nat : Good(i)}
  <1>0. /\ Len(sources) \in Nat /\ DOMAIN sources = 1 .. Len(sources)
        /\ \A i \in 1 .. Len(sources) : sources[i] \in Dials
    BY LenProperties, ElementOfSeq
  <1>1. \A i \in 0 .. Len(sources) :
           /\ PlanOK(f[i], asked) /\ \A k \in Classes : f[i].budget.spent[k] \in Nat
    BY PlanFacts, BudgetNumbers DEF PlanOK
  <1>2. Good(j)
    BY <1>0, <1>1
  <1>3. 0 \in G
    <2>1. j <= 0 => j = 0
      BY <1>0
    <2> QED
      BY <1>2, <2>1
  <1>4. ASSUME NEW i \in 1 .. Len(sources), i - 1 \in G
        PROVE  i \in G
    <2> DEFINE p == f[i - 1]
               q == f[i]
    <2>1. Good(i - 1) /\ i \in Nat /\ i - 1 \in 0 .. Len(sources) /\ i \in 0 .. Len(sources)
      BY <1>0, <1>4
    <2>2. q = PushAdmitted(p, sources[i]) /\ sources[i] \in Dials
      BY <1>0, <1>4 DEF PlanRun
    <2>3. PlanOK(p, asked)
      BY <1>1, <2>1
    <2> HIDE DEF q
    <2>4. /\ PlanOK(q, asked) /\ OneMore(p.budget, q.budget)
          /\ q.planned = p.planned \/ q.planned = Append(p.planned, sources[i])
      BY <2>2, <2>3, PushFacts
    <2>5. Range(p.planned) \subseteq Range(q.planned)
      <3>1. Range(Append(p.planned, sources[i])) = Range(p.planned) \cup {sources[i]}
        BY <2>2, <2>3, AppendRange DEF PlanOK
      <3> QED
        BY <2>4, <3>1
    <2>6. \A k \in Classes : p.budget.spent[k] <= q.budget.spent[k]
      BY <2>4 DEF OneMore
    <2>7. CASE j = i
      BY <1>2, <2>1, <2>7
    <2>8. CASE j <= i - 1
      <3>1. /\ Range(f[j].planned) \subseteq Range(p.planned)
            /\ \A k \in Classes : f[j].budget.spent[k] <= p.budget.spent[k]
        BY <2>1, <2>8
      <3>2. \A k \in Classes : f[j].budget.spent[k] <= q.budget.spent[k]
        <4>1. \A k \in Classes : /\ f[j].budget.spent[k] \in Nat /\ p.budget.spent[k] \in Nat
                                 /\ q.budget.spent[k] \in Nat
          BY <1>1, <2>1 DEF q
        <4> QED
          BY <2>6, <3>1, <4>1
      <3> QED
        BY <2>1, <2>5, <3>1, <3>2 DEF q
    <2>9. CASE j > i
      <3>1. ~(j <= i)
        BY <1>0, <2>1, <2>9
      <3> QED
        BY <2>1, <3>1
    <2> QED
      BY <1>0, <2>1, <2>7, <2>8, <2>9
  <1> HIDE DEF Good
  <1>5. \A i \in 0 .. Len(sources) : i \in G
    <2> HIDE DEF G
    <2> QED
      BY <1>0, <1>3, <1>4, CountUp
  <1>6. Good(Len(sources)) /\ j <= Len(sources)
    BY <1>0, <1>5
  <1> QED
    BY <1>6 DEF Good

\* What a whole plan is.
LEMMA PlanResult ==
    ASSUME NEW asked \in Seq(Sources), NEW b, BudgetOK(b), NEW sources \in Seq(Dials)
    PROVE  LET r == Plan(asked, b, sources) IN
           /\ PlanOK(r, asked) /\ b.dialled \subseteq r.budget.dialled
           /\ \A k \in Classes : b.spent[k] <= r.budget.spent[k]
           /\ Range(r.planned) \subseteq Range(sources)
  <1>1. Len(sources) \in Nat
    BY LenProperties
  <1>2. PICK f : PlanRun(f, asked, b, sources)
    BY <1>1, PlanRuns
  <1>3. Plan(asked, b, sources) = f[Len(sources)] /\ Len(sources) \in 0 .. Len(sources)
    BY <1>1, <1>2 DEF PlanRun
  <1> QED
    BY <1>2, <1>3, PlanFacts

\* A configured witness is in the plan, or its class has had its slots.
LEMMA PlanWitnesses ==
    ASSUME NEW b, BudgetOK(b), NEW sources \in Seq(Dials), NEW s \in Range(sources),
           s.kind = "node_witness"
    PROVE  LET r == Plan(<<>>, b, sources) IN
           r.budget.spent["node_witness"] < Reserved => Names(r.planned, s.endpoint)
  <1> DEFINE asked == <<>>
             r == Plan(<<>>, b, sources)
             nw == "node_witness"
  <1>0. asked \in Seq(Sources) /\ \A e : ~Names(asked, e)
    BY DEF Names
  <1>1. Len(sources) \in Nat /\ DOMAIN sources = 1 .. Len(sources)
    BY LenProperties
  <1>2. PICK f : PlanRun(f, asked, b, sources)
    BY <1>1, PlanRuns
  <1>3. PICK i \in 1 .. Len(sources) : sources[i] = s
    BY <1>1 DEF Range
  <1> HIDE DEF asked
  <1>4. r = f[Len(sources)]
    BY <1>2 DEF PlanRun, asked
  <1>5. i \in 0 .. Len(sources) /\ i - 1 \in 0 .. Len(sources)
    BY <1>1
  <1> DEFINE p == f[i - 1]
             q == f[i]
  <1>6. PlanOK(p, asked) /\ PlanOK(q, asked)
    BY <1>0, <1>2, <1>5, PlanFacts
  <1>7. q = PushAdmitted(p, s) /\ s \in Dials /\ Class(s.kind) = nw
    <2>1. s \in Dials
      BY <1>3, ElementOfSeq
    <2> QED
      BY <1>2, <1>3, <2>1 DEF PlanRun, Class
  <1>8. /\ Range(q.planned) \subseteq Range(r.planned)
        /\ q.budget.spent[nw] <= r.budget.spent[nw]
    BY <1>0, <1>2, <1>4, <1>5, PlanGrows DEF Classes
  <1> SUFFICES r.budget.spent[nw] < Reserved => Names(r.planned, s.endpoint)
    OBVIOUS
  <1> HIDE DEF p, q, r
  <1>9. /\ Names(p.planned, s.endpoint) => q = p
        /\ ~Names(p.planned, s.endpoint) /\ Admits(p.budget, nw, s.endpoint)
              => q.planned = Append(p.planned, s)
        /\ ~Admits(p.budget, nw, s.endpoint) => q = p
    BY <1>0, <1>6, <1>7, PushFacts
  <1>10. \A u : Names(u, s.endpoint) <=> \E x \in Range(u) : x.endpoint = s.endpoint
    BY DEF Names, Range
  <1>11. CASE Names(p.planned, s.endpoint)
    BY <1>8, <1>9, <1>10, <1>11
  <1>12. CASE ~Names(p.planned, s.endpoint) /\ Admits(p.budget, nw, s.endpoint)
    <2>1. s \in Range(q.planned)
      <3>1. p.planned \in Seq(Dials)
        BY <1>6 DEF PlanOK
      <3>2. Range(Append(p.planned, s)) = Range(p.planned) \cup {s}
        BY <1>7, <3>1, AppendRange
      <3>3. q.planned = Append(p.planned, s)
        BY <1>9, <1>12
      <3> QED
        BY <3>2, <3>3
    <2> QED
      BY <1>8, <1>10, <2>1
  <1>13. CASE ~Admits(p.budget, nw, s.endpoint)
    <2>1. p.budget.spent[nw] >= Reserved
      <3>1. /\ Cardinality(p.budget.dialled) \in Nat /\ p.budget.spent[nw] \in Nat
            /\ MaxDials \in Nat /\ Reserved \in Nat /\ ClassCap[nw] \in Nat
            /\ Ceiling(p.budget, nw) = MaxDials
        BY <1>6, BudgetNumbers DEF PlanOK, Classes
      <3>2. Cardinality(p.budget.dialled) + Owed(p.budget) <= MaxDials
        BY <1>6 DEF PlanOK, BudgetOK
      <3>3. ~(p.budget.spent[nw] < ClassCap[nw]) \/ ~(Cardinality(p.budget.dialled) < MaxDials)
        BY <1>13, <3>1 DEF Admits
      <3>4. Reserved <= ClassCap[nw]
        BY BudgetAssumption
      <3> QED
        BY <3>1, <3>2, <3>3, <3>4 DEF Owed
    <2>2. q.budget.spent[nw] = p.budget.spent[nw] /\ p.budget.spent[nw] \in Nat
      BY <1>6, <1>9, <1>13, BudgetNumbers DEF PlanOK, Classes
    <2>3. r.budget.spent[nw] \in Nat /\ Reserved \in Nat
      <3>1. PlanOK(r, asked)
        BY <1>0, <1>1, <1>2, <1>4, PlanFacts DEF r
      <3> QED
        BY <3>1, BudgetNumbers DEF PlanOK, Classes
    <2> QED
      BY <1>8, <2>1, <2>2, <2>3
  <1> QED
    BY <1>11, <1>12, <1>13

\* The budget an operation starts with.
Unspent == [dialled |-> {}, spent |-> [k \in Classes |-> 0]]

\* An unspent budget.
LEMMA UnspentFacts == BudgetOK(Unspent) /\ Cardinality(Unspent.dialled) = 0
                      /\ \A k \in Classes : Unspent.spent[k] = 0
  <1>1. /\ Unspent.dialled = {} /\ Unspent.spent \in [Classes -> Nat]
        /\ \A k \in Classes : Unspent.spent[k] = 0
    BY DEF Unspent
  <1>2. IsFiniteSet({}) /\ Cardinality({}) = 0
    BY FS_EmptySet
  <1>3. Owed(Unspent) <= MaxDials /\ Owed(Unspent) \in Nat
    BY <1>1, BudgetAssumption DEF Owed, Classes
  <1> QED
    BY <1>1, <1>2, <1>3 DEF BudgetOK

\* The endpoints of a list of sources.
EndpointsIn(sources) == {x.endpoint : x \in Range(sources)}

\* The endpoints of the caller are the first planned, and all are admitted: when
\* nothing is spent there is room for them, and later they are dialled already.
LEMMA PlanCallers ==
    ASSUME NEW b, BudgetOK(b), NEW c \in Seq(Dials), NEW rest \in Seq(Dials),
           \A x \in Range(c) : x.kind = "caller", Len(c) <= ClassCap["caller"],
           EndpointsIn(c) \subseteq b.dialled \/ b = Unspent
    PROVE  LET r == Plan(<<>>, b, c \o rest) IN
           /\ \A x \in Range(r.planned) : x.endpoint \in EndpointsIn(c) => x.kind = "caller"
           /\ \A e \in EndpointsIn(c) : Names(r.planned, e)
           /\ EndpointsIn(c) \subseteq r.budget.dialled
  <1> DEFINE asked == <<>>
             sources == c \o rest
             r == Plan(<<>>, b, sources)
             E == EndpointsIn(c)
             k == "caller"
  <1>0. asked \in Seq(Sources) /\ \A e : ~Names(asked, e)
    BY DEF Names
  <1>1. /\ sources \in Seq(Dials) /\ Len(sources) = Len(c) + Len(rest)
        /\ \A i \in 1 .. Len(c) : sources[i] = c[i]
        /\ Len(c) \in Nat /\ Len(rest) \in Nat /\ DOMAIN c = 1 .. Len(c)
    BY ConcatRange, LenProperties
  <1>2. r = Plan(asked, b, sources)
    OBVIOUS
  <1> SUFFICES /\ \A x \in Range(r.planned) : x.endpoint \in E => x.kind = k
               /\ \A e \in E : Names(r.planned, e)
               /\ E \subseteq r.budget.dialled
    OBVIOUS
  <1> HIDE DEF sources, asked, r, E
  <1>3. PICK f : PlanRun(f, asked, b, sources)
    <2>1. Len(sources) \in Nat
      BY <1>1
    <2> QED
      BY <2>1, PlanRuns
  <1>4. \A i \in 1 .. Len(sources) : sources[i] \in Dials
    BY <1>1, ElementOfSeq
  <1>5. \A i \in 0 .. Len(sources) :
           /\ PlanOK(f[i], asked) /\ b.dialled \subseteq f[i].budget.dialled
           /\ f[i].budget.spent[k] <= b.spent[k] + i
           /\ Cardinality(f[i].budget.dialled) <= Cardinality(b.dialled) + i
    BY <1>0, <1>1, <1>3, PlanFacts DEF Classes
  <1> DEFINE Good(i) ==
               /\ \A x \in Range(f[i].planned) : x.endpoint \in E => x.kind = k
               /\ \A j \in 1 .. Len(c) : j <= i => Names(f[i].planned, c[j].endpoint)
             G == {i \in Nat : Good(i)}
  <1>6. \A u, e : Names(u, e) <=> \E x \in Range(u) : x.endpoint = e
    BY DEF Names, Range
  <1>7. 0 \in G
    <2>1. f[0].planned = <<>> /\ Range(<<>>) = {}
      BY <1>3 DEF PlanRun, Started, Range
    <2>2. \A j \in 1 .. Len(c) : ~(j <= 0)
      BY <1>1
    <2> QED
      BY <2>1, <2>2
  <1>8. ASSUME NEW i \in 1 .. Len(sources), i - 1 \in G
        PROVE  i \in G
    <2> DEFINE p == f[i - 1]
               q == f[i]
               s == sources[i]
    <2>1. Good(i - 1) /\ i \in Nat /\ i - 1 \in 0 .. Len(sources)
      BY <1>1, <1>8
    <2>2. q = PushAdmitted(p, s) /\ s \in Dials
      BY <1>4, <1>8, <1>3 DEF PlanRun
    <2>3. PlanOK(p, asked) /\ p.planned \in Seq(Dials) /\ BudgetOK(p.budget)
      BY <1>5, <2>1 DEF PlanOK
    <2> HIDE DEF Good, G, p, q, s
    <2>4. /\ q.planned = p.planned \/ q.planned = Append(p.planned, s)
          /\ Names(p.planned, s.endpoint) => q = p
          /\ ~Names(p.planned, s.endpoint) /\ Admits(p.budget, Class(s.kind), s.endpoint)
               => q.planned = Append(p.planned, s)
      BY <1>0, <2>2, <2>3, PushFacts
    <2>5. Range(Append(p.planned, s)) = Range(p.planned) \cup {s}
      BY <2>2, <2>3, AppendRange
    <2>6. CASE i > Len(c)
      <3>1. \A j \in 1 .. Len(c) : j <= i - 1
        BY <1>1, <2>1, <2>6
      <3>2. \A j \in 1 .. Len(c) : Names(p.planned, c[j].endpoint)
        BY <2>1, <3>1 DEF Good, p
      <3>3. s.endpoint \in E => Names(p.planned, s.endpoint)
        BY <1>1, <3>2 DEF E, EndpointsIn, Range
      <3>4. \A x \in Range(q.planned) : x.endpoint \in E => x.kind = k
        <4>1. \A x \in Range(p.planned) : x.endpoint \in E => x.kind = k
          BY <2>1 DEF Good, p
        <4>2. CASE s.endpoint \in E
          BY <2>4, <3>3, <4>1, <4>2
        <4>3. CASE s.endpoint \notin E
          BY <2>4, <2>5, <4>1, <4>3
        <4> QED
          BY <4>2, <4>3
      <3>5. \A j \in 1 .. Len(c) : Names(q.planned, c[j].endpoint)
        <4>1. Range(p.planned) \subseteq Range(q.planned)
          BY <2>4, <2>5
        <4> QED
          BY <1>6, <3>2, <4>1
      <3> QED
        BY <2>1, <3>4, <3>5 DEF Good, G, q
    <2>7. CASE i <= Len(c)
      <3>1. i \in 1 .. Len(c) /\ i - 1 \in Nat
        BY <1>1, <2>1, <2>7
      <3>2. s = c[i] /\ s \in Range(c) /\ s.kind = k /\ Class(s.kind) = k /\ s.endpoint \in E
        BY <1>1, <3>1 DEF Range, Class, E, EndpointsIn, s
      <3>3. Admits(p.budget, k, s.endpoint)
        <4>1. CASE E \subseteq b.dialled
          BY <1>5, <2>1, <3>2, <4>1 DEF Admits, p
        <4>2. CASE b = Unspent
          <5>1. b.spent[k] = 0 /\ Cardinality(b.dialled) = 0
            BY <4>2, UnspentFacts DEF Classes
          <5>2. /\ p.budget.spent[k] <= 0 + (i - 1)
                /\ Cardinality(p.budget.dialled) <= 0 + (i - 1)
            BY <1>5, <2>1, <5>1 DEF p
          <5>3. /\ p.budget.spent[k] \in Nat /\ Cardinality(p.budget.dialled) \in Nat
                /\ Owed(p.budget) \in 0 .. Reserved /\ ClassCap[k] \in Nat
                /\ Ceiling(p.budget, k) = MaxDials - Owed(p.budget)
                /\ MaxDials \in Nat /\ Reserved \in Nat
            BY <2>3, BudgetNumbers DEF Classes
          <5>4. ClassCap[k] <= MaxDials - Reserved
            BY BudgetAssumption
          <5>5. p.budget.spent[k] < ClassCap[k] /\ Cardinality(p.budget.dialled) < Ceiling(p.budget, k)
            BY <1>1, <2>7, <3>1, <5>2, <5>3, <5>4
          <5> QED
            BY <5>5 DEF Admits
        <4> QED
          BY <4>1, <4>2 DEF E
      <3>4. /\ \A x \in Range(q.planned) : x.endpoint \in E => x.kind = k
            /\ \E x \in Range(q.planned) : x.endpoint = s.endpoint
            /\ Range(p.planned) \subseteq Range(q.planned)
        <4>1. \A x \in Range(p.planned) : x.endpoint \in E => x.kind = k
          BY <2>1 DEF Good, p
        <4>2. CASE Names(p.planned, s.endpoint)
          BY <1>6, <2>4, <4>1, <4>2
        <4>3. CASE ~Names(p.planned, s.endpoint)
          BY <2>4, <2>5, <3>2, <3>3, <4>1, <4>3
        <4> QED
          BY <4>2, <4>3
      <3>5. ASSUME NEW j \in 1 .. Len(c), j <= i
            PROVE  Names(q.planned, c[j].endpoint)
        <4>1. CASE j = i
          BY <1>6, <3>2, <3>4, <4>1
        <4>2. CASE j <= i - 1
          <5>1. Names(p.planned, c[j].endpoint)
            BY <2>1, <4>2 DEF Good, p
          <5> QED
            BY <1>6, <3>4, <5>1
        <4> QED
          BY <2>1, <3>5, <4>1, <4>2
      <3> QED
        BY <2>1, <3>4, <3>5 DEF Good, G, q
    <2> QED
      BY <1>1, <2>1, <2>6, <2>7
  <1> HIDE DEF Good
  <1>9. \A i \in 0 .. Len(sources) : i \in G
    <2> HIDE DEF G
    <2>1. Len(sources) \in Nat
      BY <1>1
    <2> QED
      BY <1>7, <1>8, <2>1, CountUp
  <1>10. /\ Good(Len(sources)) /\ r = f[Len(sources)] /\ Len(c) <= Len(sources)
         /\ Len(sources) \in 0 .. Len(sources)
    BY <1>1, <1>2, <1>3, <1>9 DEF PlanRun
  <1>11. \A e \in E : Names(r.planned, e)
    <2>1. \A j \in 1 .. Len(c) : j <= Len(sources)
      BY <1>1
    <2>2. \A j \in 1 .. Len(c) : Names(r.planned, c[j].endpoint)
      BY <1>10, <2>1 DEF Good
    <2> QED
      BY <1>1, <2>2 DEF E, EndpointsIn, Range
  <1>12. E \subseteq r.budget.dialled
    <2>1. \A x \in Range(r.planned) : x.endpoint \in r.budget.dialled
      BY <1>5, <1>10 DEF PlanOK
    <2> QED
      BY <1>6, <1>11, <2>1
  <1> QED
    BY <1>10, <1>11, <1>12 DEF Good

-----------------------------------------------------------------------------
(* The sources of a ledger are endpoints to dial.                          *)

\* The order of the hints leaves no place empty: each live hint has a place of
\* its own, and there are as many places as live hints.
LEMMA HintsAtList ==
    ASSUME NEW hints \in Seq(Hints), NEW now
    PROVE  HintsAt(hints, now) \in Seq(Endpoints)
  <1> DEFINE live == {i \in DOMAIN hints : Live(hints[i], now)}
             before(i) == {j \in live : FresherThan(hints, j, i)}
             place == [i \in live |-> Cardinality(before(i)) + 1]
             n == Cardinality(live)
  <1>0. /\ Len(hints) \in Nat /\ DOMAIN hints = 1 .. Len(hints)
        /\ \A i \in DOMAIN hints : hints[i] \in Hints
    BY LenProperties, ElementOfSeq
  <1>1. live \subseteq DOMAIN hints /\ IsFiniteSet(live)
    <2>1. live \subseteq DOMAIN hints /\ IsFiniteSet(1 .. Len(hints))
      BY <1>0, FS_Interval
    <2> HIDE DEF live
    <2> QED
      BY <1>0, <2>1, FS_Subset
  <1>2. \A i \in live : i \in Nat /\ hints[i].last \in Nat /\ hints[i].endpoint \in Endpoints
    BY <1>0, <1>1 DEF Hints
  <1>3. HintsAt(hints, now) =
           [k \in 1 .. n |-> hints[CHOOSE i \in live : Cardinality(before(i)) + 1 = k].endpoint]
    BY DEF HintsAt
  <1> HIDE DEF live
  <1>4. n \in Nat
    BY <1>1, FS_CardinalityType
  <1>5. \A i \in live : before(i) \subseteq live \ {i}
    BY <1>2 DEF FresherThan
  <1>6. ASSUME NEW i \in live, NEW j \in live, i # j
        PROVE  i \in before(j) \/ j \in before(i)
    BY <1>2, <1>6 DEF FresherThan
  <1>7. ASSUME NEW i \in live, NEW j \in live, i \in before(j)
        PROVE  before(i) \subseteq before(j)
    BY <1>2, <1>7 DEF FresherThan
  <1> HIDE DEF before
  <1>8. \A i \in live : IsFiniteSet(before(i)) /\ Cardinality(before(i)) \in Nat /\ Cardinality(before(i)) < n
    <2> SUFFICES ASSUME NEW i \in live
                 PROVE  IsFiniteSet(before(i)) /\ Cardinality(before(i)) \in Nat /\ Cardinality(before(i)) < n
      OBVIOUS
    <2>1. IsFiniteSet(live \ {i}) /\ Cardinality(live \ {i}) = n - 1
      BY <1>1, FS_RemoveElement
    <2>2. IsFiniteSet(before(i)) /\ Cardinality(before(i)) <= Cardinality(live \ {i})
      BY <1>5, <2>1, FS_Subset
    <2>3. Cardinality(before(i)) \in Nat
      BY <2>2, FS_CardinalityType
    <2> HIDE DEF n
    <2> QED
      BY <1>4, <2>1, <2>2, <2>3
  <1>9. ASSUME NEW i \in live, NEW j \in live, i \in before(j)
        PROVE  Cardinality(before(i)) < Cardinality(before(j))
    <2>1. i \notin before(i) /\ before(i) \cup {i} \subseteq before(j)
      BY <1>5, <1>7, <1>9
    <2>2. Cardinality(before(i) \cup {i}) = Cardinality(before(i)) + 1
      BY <1>8, <2>1, FS_AddElement
    <2>3. Cardinality(before(i) \cup {i}) <= Cardinality(before(j))
      BY <1>8, <2>1, FS_Subset
    <2> QED
      BY <1>8, <2>2, <2>3
  <1>10. place \in Injection(live, 1 .. n)
    <2>1. place \in [live -> 1 .. n]
      <3> HIDE DEF n
      <3> QED
        BY <1>4, <1>8
    <2>2. ASSUME NEW i \in live, NEW j \in live, place[i] = place[j]
          PROVE  i = j
      <3>1. Cardinality(before(i)) = Cardinality(before(j))
        BY <1>8, <2>2
      <3>2. ~(Cardinality(before(i)) < Cardinality(before(j))) /\ ~(Cardinality(before(j)) < Cardinality(before(i)))
        BY <1>8, <3>1
      <3> QED
        BY <1>6, <1>9, <3>2
    <2>3. IsInjective(place) /\ DOMAIN place = live
      BY <2>2 DEF IsInjective
    <2> HIDE DEF place
    <2> QED
      BY <2>1, <2>3 DEF Injection
  <1>11. place \in Surjection(live, 1 .. n)
    <2>1. IsFiniteSet(1 .. n) /\ Cardinality(1 .. n) = n
      <3> HIDE DEF n
      <3>1. /\ IsFiniteSet(1 .. n)
            /\ Cardinality(1 .. n) = IF 1 > n THEN 0 ELSE n - 1 + 1
        BY <1>4, FS_Interval
      <3> QED
        BY <1>4, <3>1
    <2> HIDE DEF place
    <2> QED
      BY <1>10, <2>1, FS_Injection DEF n
  <1>12. \A k \in 1 .. n : \E i \in live : Cardinality(before(i)) + 1 = k
    <2>1. \A k \in 1 .. n : \E i \in live : place[i] = k
      BY <1>11 DEF Surjection
    <2> QED
      BY <2>1
  <1> DEFINE at(k) == CHOOSE i \in live : Cardinality(before(i)) + 1 = k
             list == [k \in 1 .. n |-> hints[at(k)].endpoint]
  <1>13. \A k \in 1 .. n : at(k) \in live
    BY <1>12
  <1>14. HintsAt(hints, now) = list
    BY <1>3
  <1> HIDE DEF at
  <1>15. list \in [1 .. n -> Endpoints]
    BY <1>2, <1>13
  <1> HIDE DEF list, n
  <1> QED
    BY <1>4, <1>14, <1>15, SeqDef

\* f holds what the lists up to each are in a row.
Flattens(seqs, n, f) ==
    f = [i \in 1 .. n |-> IF i = 1 THEN seqs[i] ELSE f[i - 1] \o seqs[i]]

\* The lists flattened so far are there, however many.
LEMMA FlattensExist ==
    ASSUME NEW seqs, NEW n \in Nat
    PROVE  \E f : Flattens(seqs, n, f)
  <1> DEFINE G == {m \in Nat : \E f : Flattens(seqs, m, f)}
  <1>1. 0 \in G
    <2> DEFINE f == [i \in 1 .. 0 |-> seqs[i]]
    <2>1. Flattens(seqs, 0, f)
      BY DEF Flattens
    <2> QED
      BY <2>1
  <1>2. ASSUME NEW m \in 1 .. n, m - 1 \in G
        PROVE  m \in G
    <2>1. PICK f : Flattens(seqs, m - 1, f)
      BY <1>2
    <2> DEFINE next == IF m = 1 THEN seqs[m] ELSE f[m - 1] \o seqs[m]
               g == [k \in 1 .. m |-> IF k < m THEN f[k] ELSE next]
    <2>2. \A k \in 1 .. m : g[k] = IF k = 1 THEN seqs[k] ELSE g[k - 1] \o seqs[k]
      <3> SUFFICES ASSUME NEW k \in 1 .. m
                   PROVE  g[k] = IF k = 1 THEN seqs[k] ELSE g[k - 1] \o seqs[k]
        OBVIOUS
      <3>1. CASE k = m
        <4>1. g[m] = next /\ (m # 1 => g[m - 1] = f[m - 1])
          BY <1>2
        <4> HIDE DEF g
        <4> QED
          BY <3>1, <4>1
      <3>2. CASE k < m
        <4>1. k \in 1 .. m - 1
          BY <1>2, <3>2
        <4>2. f[k] = IF k = 1 THEN seqs[k] ELSE f[k - 1] \o seqs[k]
          BY <2>1, <4>1 DEF Flattens
        <4>3. g[k] = f[k] /\ (k # 1 => g[k - 1] = f[k - 1])
          BY <1>2, <3>2
        <4> HIDE DEF g
        <4> QED
          BY <4>2, <4>3
      <3> QED
        BY <1>2, <3>1, <3>2
    <2>3. g = [k \in 1 .. m |-> g[k]]
      OBVIOUS
    <2> HIDE DEF g
    <2>4. Flattens(seqs, m, g)
      BY <2>2, <2>3 DEF Flattens
    <2>5. m \in Nat
      BY <1>2
    <2> QED
      BY <2>4, <2>5
  <1> HIDE DEF G
  <1>3. \A m \in 0 .. n : m \in G
    BY <1>1, <1>2, CountUp
  <1>4. n \in G
    BY <1>3
  <1> QED
    BY <1>4 DEF G

\* Lists in a row hold what each of them holds.
LEMMA FlattenFacts ==
    ASSUME NEW S, NEW n \in Nat, NEW seqs, seqs \in [1 .. n -> Seq(S)]
    PROVE  /\ FlattenSeq(seqs) \in Seq(S)
           /\ \A i \in 1 .. n : Range(seqs[i]) \subseteq Range(FlattenSeq(seqs))
           /\ \A x \in Range(FlattenSeq(seqs)) : \E i \in 1 .. n : x \in Range(seqs[i])
  <1>0. seqs \in Seq(Seq(S)) /\ Len(seqs) = n
    <2>1. seqs \in Seq(Seq(S))
      BY SeqDef
    <2>2. DOMAIN seqs = 1 .. n
      OBVIOUS
    <2> QED
      BY <2>1, <2>2, LenProperties
  <1>1. CASE n = 0
    <2>1. seqs = <<>> /\ FlattenSeq(seqs) = seqs
      <3>1. FlattenSeq(seqs) = seqs
        BY <1>0, <1>1 DEF FlattenSeq
      <3>2. seqs = <<>>
        BY <1>0, <1>1, EmptySeq
      <3> QED
        BY <3>1, <3>2
    <2>2. <<>> \in Seq(S) /\ Range(<<>>) = {}
      BY DEF Range
    <2>3. 1 .. n = {}
      BY <1>1
    <2> QED
      BY <2>1, <2>2, <2>3
  <1>2. CASE n # 0
    <2> DEFINE f == CHOOSE f : Flattens(seqs, n, f)
    <2>1. Flattens(seqs, n, f)
      BY FlattensExist
    <2>2. FlattenSeq(seqs) = f[n]
      BY <1>0, <1>2 DEF FlattenSeq, Flattens
    <2> HIDE DEF f
    <2>3. \A i \in 1 .. n : f[i] = IF i = 1 THEN seqs[i] ELSE f[i - 1] \o seqs[i]
      BY <2>1 DEF Flattens
    <2> DEFINE Good(m) ==
                 m # 0 => /\ f[m] \in Seq(S)
                          /\ \A i \in 1 .. n : i <= m => Range(seqs[i]) \subseteq Range(f[m])
                          /\ \A x \in Range(f[m]) : \E i \in 1 .. n : x \in Range(seqs[i])
               G == {m \in Nat : Good(m)}
    <2>4. 0 \in G
      OBVIOUS
    <2>5. ASSUME NEW m \in 1 .. n, m - 1 \in G
          PROVE  m \in G
      <3>1. m \in Nat /\ m - 1 \in Nat /\ m # 0 /\ seqs[m] \in Seq(S)
        BY <2>5
      <3>2. CASE m = 1
        <4>1. f[m] = seqs[m] /\ \A i \in 1 .. n : i <= m => i = m
          BY <2>3, <3>2
        <4> QED
          BY <3>1, <4>1
      <3>3. CASE m # 1
        <4> DEFINE h == f[m - 1]
                   g == f[m]
        <4>1. g = h \o seqs[m] /\ m - 1 # 0
          <5>1. m \in 1 .. n
            OBVIOUS
          <5>2. g = h \o seqs[m]
            BY <2>3, <3>3, <5>1
          <5> QED
            BY <3>1, <3>3, <5>2
        <4>2. /\ h \in Seq(S)
              /\ \A i \in 1 .. n : i <= m - 1 => Range(seqs[i]) \subseteq Range(h)
              /\ \A x \in Range(h) : \E i \in 1 .. n : x \in Range(seqs[i])
          BY <2>5, <4>1
        <4> HIDE DEF h, g
        <4>3. g \in Seq(S) /\ Range(g) = Range(h) \cup Range(seqs[m])
          BY <3>1, <4>1, <4>2, ConcatRange
        <4>4. \A i \in 1 .. n : i <= m => i <= m - 1 \/ i = m
          BY <3>1
        <4>5. \A i \in 1 .. n : i <= m => Range(seqs[i]) \subseteq Range(g)
          BY <4>2, <4>3, <4>4
        <4>6. \A x \in Range(g) : \E i \in 1 .. n : x \in Range(seqs[i])
          BY <4>2, <4>3
        <4> QED
          BY <3>1, <4>3, <4>5, <4>6 DEF g
      <3> QED
        BY <3>2, <3>3
    <2> HIDE DEF Good
    <2>6. \A m \in 0 .. n : m \in G
      <3> HIDE DEF G
      <3> QED
        BY <2>4, <2>5, CountUp
    <2>7. Good(n)
      BY <2>6
    <2>8. \A i \in 1 .. n : i <= n
      OBVIOUS
    <2> QED
      BY <1>2, <2>2, <2>7, <2>8 DEF Good
  <1> QED
    BY <1>1, <1>2

\* What the home and the witnesses resolved so far hold.
StoreOK ==
    /\ home \in Homes
    /\ DOMAIN peers = DOMAIN home.peers
    /\ \A l \in DOMAIN peers : peers[l] \in Seq(Hints) /\ Len(peers[l]) <= MaxHints
    /\ DOMAIN resolved = Witnesses
    /\ \A w \in Witnesses : resolved[w].endpoints \in Seq(Endpoints)

\* Sources of one kind.
LEMMA AsFacts ==
    ASSUME NEW kind \in Kinds \ {"local"}, NEW list \in Seq(Endpoints)
    PROVE  /\ As(kind, list) \in Seq(Dials) /\ Len(As(kind, list)) = Len(list)
           /\ \A x \in Range(As(kind, list)) : x.kind = kind /\ x.endpoint \in Range(list)
           /\ \A e \in Range(list) : \E x \in Range(As(kind, list)) : x.kind = kind /\ x.endpoint = e
           /\ EndpointsIn(As(kind, list)) = Range(list)
  <1> DEFINE a == As(kind, list)
  <1>1. Len(list) \in Nat /\ DOMAIN list = 1 .. Len(list) /\ \A i \in 1 .. Len(list) : list[i] \in Endpoints
    BY LenProperties, ElementOfSeq
  <1>2. /\ a = [i \in 1 .. Len(list) |-> Source(kind, list[i])]
        /\ DOMAIN a = 1 .. Len(list)
        /\ \A i \in 1 .. Len(list) : a[i] = Source(kind, list[i])
    BY <1>1 DEF As
  <1>3. \A i \in 1 .. Len(list) :
           Source(kind, list[i]) \in Dials /\ Source(kind, list[i]).kind = kind
           /\ Source(kind, list[i]).endpoint = list[i]
    BY <1>1 DEF Source, Dials
  <1> HIDE DEF a
  <1>4. a \in [1 .. Len(list) -> Dials]
    BY <1>2, <1>3
  <1>5. a \in Seq(Dials) /\ Len(a) = Len(list)
    <2>1. a \in Seq(Dials)
      BY <1>1, <1>4, SeqDef
    <2> QED
      BY <1>1, <1>2, <2>1, LenProperties
  <1>6. \A x \in Range(a) : x.kind = kind /\ x.endpoint \in Range(list)
    BY <1>1, <1>2, <1>3 DEF Range
  <1>7. \A e \in Range(list) : \E x \in Range(a) : x.kind = kind /\ x.endpoint = e
    BY <1>1, <1>2, <1>3 DEF Range
  <1>8. EndpointsIn(a) = Range(list)
    BY <1>6, <1>7 DEF EndpointsIn
  <1> QED
    BY <1>5, <1>6, <1>7, <1>8 DEF a

\* The endpoints of a witness are endpoints.
LEMMA WitnessEndpointsList ==
    ASSUME StoreOK, NEW w \in Witnesses
    PROVE  WitnessEndpoints(w) \in Seq(Endpoints)
  <1>1. /\ home.caller \in Seq(Endpoints) /\ home.copyOf[w].endpoints \in Seq(Endpoints)
        /\ home.copyOf[w].legacy \in Seq(Endpoints) /\ home.bootstrap[w] \in Seq(Endpoints)
        /\ w \in DOMAIN home.peers
    BY HomeAssumption DEF StoreOK
  <1>2. HintsAt(peers[w], Now) \in Seq(Endpoints)
    BY <1>1, HintsAtList DEF StoreOK
  <1>3. ResolveWitness(w) \in Seq(Endpoints)
    <2> DEFINE a == home.caller
               b == HintsAt(peers[w], Now)
               c == home.copyOf[w].endpoints
               d == home.copyOf[w].legacy
               e == home.bootstrap[w]
    <2>1. ResolveWitness(w) = a \o b \o c \o d \o e
      BY DEF ResolveWitness
    <2>2. a \in Seq(Endpoints) /\ b \in Seq(Endpoints) /\ c \in Seq(Endpoints) /\ d \in Seq(Endpoints)
          /\ e \in Seq(Endpoints)
      BY <1>1, <1>2
    <2> HIDE DEF a, b, c, d, e
    <2> QED
      BY <2>1, <2>2
  <1> QED
    BY <1>3 DEF WitnessEndpoints, StoreOK

\* The sources that witnesses make.
LEMMA EndpointsOfFacts ==
    ASSUME StoreOK, NEW kind \in Kinds \ {"local"}, NEW list \in Seq(Witnesses)
    PROVE  /\ EndpointsOf(kind, list) \in Seq(Dials)
           /\ \A x \in Range(EndpointsOf(kind, list)) : x.kind = kind
           /\ \A i \in DOMAIN list : \A e \in Range(WitnessEndpoints(list[i])) :
                 \E x \in Range(EndpointsOf(kind, list)) : x.kind = kind /\ x.endpoint = e
  <1> DEFINE seqs == [i \in DOMAIN list |-> As(kind, WitnessEndpoints(list[i]))]
             n == Len(list)
             r == EndpointsOf(kind, list)
  <1>1. n \in Nat /\ DOMAIN list = 1 .. n /\ \A i \in 1 .. n : list[i] \in Witnesses
    BY LenProperties, ElementOfSeq
  <1>2. \A i \in 1 .. n : WitnessEndpoints(list[i]) \in Seq(Endpoints)
    BY <1>1, WitnessEndpointsList
  <1>3. \A i \in 1 .. n : seqs[i] = As(kind, WitnessEndpoints(list[i]))
    BY <1>1
  <1>4. seqs = [i \in 1 .. n |-> seqs[i]]
    BY <1>1
  <1>5. r = FlattenSeq(seqs)
    BY DEF EndpointsOf
  <1> HIDE DEF seqs, n, r
  <1>6. \A i \in 1 .. n : /\ seqs[i] \in Seq(Dials) /\ \A x \in Range(seqs[i]) : x.kind = kind
                          /\ \A e \in Range(WitnessEndpoints(list[i])) :
                                \E x \in Range(seqs[i]) : x.kind = kind /\ x.endpoint = e
    BY <1>2, <1>3, AsFacts
  <1>7. seqs \in [1 .. n -> Seq(Dials)]
    BY <1>4, <1>6
  <1>8. /\ r \in Seq(Dials)
        /\ \A i \in 1 .. n : Range(seqs[i]) \subseteq Range(r)
        /\ \A x \in Range(r) : \E i \in 1 .. n : x \in Range(seqs[i])
    BY <1>1, <1>5, <1>7, FlattenFacts
  <1>9. \A i \in 1 .. n : \A e \in Range(WitnessEndpoints(list[i])) :
                 \E x \in Range(r) : x.kind = kind /\ x.endpoint = e
    BY <1>6, <1>8
  <1> QED
    BY <1>1, <1>6, <1>8, <1>9 DEF r

\* The first sources that are not the caller's.
Rest(l) == As("peer", HintsAt(peers[l], Now) \o home.learned[l])
               \o EndpointsOf("node_witness", home.witnesses)

\* The sources planned first: the caller's, then others, the witnesses among them.
LEMMA FirstSourcesFacts ==
    ASSUME StoreOK, NEW l \in Ledgers
    PROVE  LET c == As("caller", home.caller) IN
           /\ FirstSources(l) = c \o Rest(l) /\ c \in Seq(Dials) /\ Rest(l) \in Seq(Dials)
           /\ FirstSources(l) \in Seq(Dials)
           /\ \A x \in Range(c) : x.kind = "caller"
           /\ Len(c) <= ClassCap["caller"] /\ EndpointsIn(c) = Range(home.caller)
           /\ \A i \in DOMAIN home.witnesses : \A e \in Range(WitnessEndpoints(home.witnesses[i])) :
                 \E x \in Range(FirstSources(l)) : x.kind = "node_witness" /\ x.endpoint = e
  <1> DEFINE c == As("caller", home.caller)
             p == As("peer", HintsAt(peers[l], Now) \o home.learned[l])
             w == EndpointsOf("node_witness", home.witnesses)
  <1>1. /\ home.caller \in Seq(Endpoints) /\ home.learned[l] \in Seq(Endpoints)
        /\ home.witnesses \in Seq(Witnesses) /\ l \in DOMAIN home.peers
    BY HomeAssumption DEF StoreOK
  <1>2. HintsAt(peers[l], Now) \in Seq(Endpoints)
    BY <1>1, HintsAtList DEF StoreOK
  <1>3. HintsAt(peers[l], Now) \o home.learned[l] \in Seq(Endpoints)
    BY <1>1, <1>2, ConcatRange
  <1>4. {"caller", "peer", "node_witness"} \subseteq Kinds \ {"local"}
    BY DEF Kinds
  <1>5. /\ c \in Seq(Dials) /\ Len(c) = Len(home.caller) /\ EndpointsIn(c) = Range(home.caller)
        /\ \A x \in Range(c) : x.kind = "caller"
    BY <1>1, <1>4, AsFacts
  <1>6. p \in Seq(Dials)
    <2> DEFINE list == HintsAt(peers[l], Now) \o home.learned[l]
    <2>1. list \in Seq(Endpoints) /\ "peer" \in Kinds \ {"local"}
      BY <1>3, <1>4
    <2> HIDE DEF list
    <2>2. As("peer", list) \in Seq(Dials)
      BY <2>1, AsFacts
    <2> QED
      BY <2>2 DEF list
  <1>7. /\ w \in Seq(Dials)
        /\ \A i \in DOMAIN home.witnesses : \A e \in Range(WitnessEndpoints(home.witnesses[i])) :
                 \E x \in Range(w) : x.kind = "node_witness" /\ x.endpoint = e
    BY <1>1, <1>4, EndpointsOfFacts
  <1>8. Len(home.caller) <= ClassCap["caller"]
    BY BudgetAssumption DEF StoreOK
  <1>9. FirstSources(l) = c \o p \o w /\ Rest(l) = p \o w
    BY DEF FirstSources, Rest
  <1> HIDE DEF c, p, w
  <1>10. c \o p \o w = c \o (p \o w) /\ p \o w \in Seq(Dials) /\ Range(p \o w) = Range(p) \cup Range(w)
    <2>1. p \o w \in Seq(Dials) /\ Range(p \o w) = Range(p) \cup Range(w)
      BY <1>6, <1>7, ConcatRange
    <2>2. (c \o p) \o w = c \o (p \o w)
      BY <1>5, <1>6, <1>7
    <2> QED
      BY <2>1, <2>2
  <1>11. c \o (p \o w) \in Seq(Dials) /\ Range(c \o (p \o w)) = Range(c) \cup Range(p \o w)
    <2> DEFINE t == p \o w
    <2>1. t \in Seq(Dials) /\ c \in Seq(Dials)
      BY <1>5, <1>10
    <2> HIDE DEF t
    <2>2. c \o t \in Seq(Dials) /\ Range(c \o t) = Range(c) \cup Range(t)
      BY <2>1, ConcatRange
    <2> QED
      BY <2>2 DEF t
  <1>12. Range(w) \subseteq Range(FirstSources(l)) /\ FirstSources(l) \in Seq(Dials)
    BY <1>9, <1>10, <1>11
  <1> QED
    BY <1>5, <1>7, <1>8, <1>9, <1>10, <1>12 DEF c

\* What a chain names is to be dialled too.
LEMMA ChainNamedList ==
    ASSUME StoreOK, NEW chain \in Chains
    PROVE  ChainNamedSources(home.names[chain]) \in Seq(Dials)
  <1> DEFINE names == home.names[chain]
             p == As("ledger_endpoint", names.endpoints)
             w == EndpointsOf("witness_identity", names.witnesses)
             q == As("legacy", names.legacy)
  <1>1. /\ names.endpoints \in Seq(Endpoints) /\ names.witnesses \in Seq(Witnesses)
        /\ names.legacy \in Seq(Endpoints)
    BY HomeAssumption DEF StoreOK
  <1>2. {"ledger_endpoint", "witness_identity", "legacy"} \subseteq Kinds \ {"local"}
    BY DEF Kinds
  <1>3. p \in Seq(Dials) /\ q \in Seq(Dials)
    BY <1>1, <1>2, AsFacts
  <1>4. w \in Seq(Dials)
    BY <1>1, <1>2, EndpointsOfFacts
  <1>5. ChainNamedSources(names) = p \o w \o q
    BY DEF ChainNamedSources
  <1> HIDE DEF p, w, q
  <1> QED
    BY <1>3, <1>4, <1>5

-----------------------------------------------------------------------------
(* The hints of one ledger.                                                *)

\* f holds what is retained of the list up to each position.
Picks(list, positions, n, f) ==
    f = [m \in 0 .. n |-> IF m = 0 THEN <<>>
                          ELSE IF m \in positions THEN Append(f[m - 1], list[m]) ELSE f[m - 1]]

\* What is retained of a list so far is there, however long the list.
LEMMA PicksExist ==
    ASSUME NEW list, NEW positions, NEW n \in Nat
    PROVE  \E f : Picks(list, positions, n, f)
  <1> DEFINE G == {m \in Nat : \E f : Picks(list, positions, m, f)}
  <1>1. 0 \in G
    <2> DEFINE f == [k \in 0 .. 0 |-> <<>>]
    <2>1. Picks(list, positions, 0, f)
      BY DEF Picks
    <2> QED
      BY <2>1
  <1>2. ASSUME NEW m \in 1 .. n, m - 1 \in G
        PROVE  m \in G
    <2>1. PICK f : Picks(list, positions, m - 1, f)
      BY <1>2
    <2> DEFINE next == IF m \in positions THEN Append(f[m - 1], list[m]) ELSE f[m - 1]
               g == [k \in 0 .. m |-> IF k < m THEN f[k] ELSE next]
    <2>2. \A k \in 0 .. m : g[k] = IF k = 0 THEN <<>>
                        ELSE IF k \in positions THEN Append(g[k - 1], list[k]) ELSE g[k - 1]
      <3> SUFFICES ASSUME NEW k \in 0 .. m
                   PROVE  g[k] = IF k = 0 THEN <<>>
                        ELSE IF k \in positions THEN Append(g[k - 1], list[k]) ELSE g[k - 1]
        OBVIOUS
      <3>1. CASE k = m
        <4>1. g[m] = next /\ g[m - 1] = f[m - 1] /\ m # 0
          BY <1>2
        <4> HIDE DEF g
        <4> QED
          BY <3>1, <4>1
      <3>2. CASE k < m
        <4>1. k \in 0 .. m - 1
          BY <1>2, <3>2
        <4>2. f[k] = IF k = 0 THEN <<>>
                        ELSE IF k \in positions THEN Append(f[k - 1], list[k]) ELSE f[k - 1]
          BY <2>1, <4>1 DEF Picks
        <4>3. g[k] = f[k] /\ (k # 0 => g[k - 1] = f[k - 1])
          BY <1>2, <3>2
        <4> HIDE DEF g
        <4> QED
          BY <4>2, <4>3
      <3> QED
        BY <1>2, <3>1, <3>2
    <2>3. g = [k \in 0 .. m |-> g[k]]
      OBVIOUS
    <2> HIDE DEF g
    <2>4. Picks(list, positions, m, g)
      BY <2>2, <2>3 DEF Picks
    <2>5. m \in Nat
      BY <1>2
    <2> QED
      BY <2>4, <2>5
  <1> HIDE DEF G
  <1>3. \A m \in 0 .. n : m \in G
    BY <1>1, <1>2, CountUp
  <1>4. n \in G
    BY <1>3
  <1> QED
    BY <1>4 DEF G

\* What is retained of a list is some of it.
LEMMA RetainFacts ==
    ASSUME NEW S, NEW list \in Seq(S), NEW positions
    PROVE  LET r == Retain(list, positions) IN
           r \in Seq(S) /\ Len(r) \in Nat /\ Len(r) <= Len(list) /\ Range(r) \subseteq Range(list)
  <1> DEFINE r == Retain(list, positions)
             n == Len(list)
             f == CHOOSE f : Picks(list, positions, n, f)
  <1>0. n \in Nat /\ DOMAIN list = 1 .. n /\ list \in Seq(Range(list)) /\ Range(list) \subseteq S
    BY OwnElements
  <1>1. Picks(list, positions, n, f)
    BY <1>0, PicksExist
  <1>2. r = f[n]
    BY DEF Retain, Picks
  <1> SUFFICES r \in Seq(S) /\ Len(r) \in Nat /\ Len(r) <= n /\ Range(r) \subseteq Range(list)
    OBVIOUS
  <1> HIDE DEF f, r, n
  <1>3. \A m \in 0 .. n : f[m] = IF m = 0 THEN <<>>
                ELSE IF m \in positions THEN Append(f[m - 1], list[m]) ELSE f[m - 1]
    BY <1>1 DEF Picks
  <1> DEFINE R == Range(list)
             Good(m) == f[m] \in Seq(R) /\ Len(f[m]) <= m
             G == {m \in Nat : Good(m)}
  <1>4. 0 \in G
    <2>1. f[0] = <<>>
      BY <1>0, <1>3
    <2> HIDE DEF R
    <2>2. <<>> \in Seq(R) /\ Len(<<>>) = 0 /\ 0 \in Nat
      OBVIOUS
    <2>3. Good(0)
      BY <2>1, <2>2
    <2> HIDE DEF Good
    <2> QED
      BY <2>3
  <1>5. ASSUME NEW m \in 1 .. n, m - 1 \in G
        PROVE  m \in G
    <2> DEFINE h == f[m - 1]
               x == list[m]
    <2>1. /\ m \in Nat /\ m # 0 /\ m \in 0 .. n /\ h \in Seq(R) /\ Len(h) <= m - 1
          /\ Len(h) \in Nat /\ x \in R
      BY <1>0, <1>5, LenProperties DEF Range
    <2>2. f[m] = IF m \in positions THEN Append(h, x) ELSE h
      BY <1>3, <2>1
    <2> HIDE DEF h, x, R
    <2>3. Append(h, x) \in Seq(R) /\ Len(Append(h, x)) = Len(h) + 1
      BY <2>1, AppendProperties
    <2>4. f[m] \in Seq(R) /\ Len(f[m]) <= m
      BY <2>1, <2>2, <2>3
    <2> QED
      BY <2>1, <2>4
  <1> HIDE DEF Good
  <1>6. \A m \in 0 .. n : m \in G
    <2> HIDE DEF G
    <2> QED
      BY <1>0, <1>4, <1>5, CountUp
  <1>7. Good(n)
    BY <1>0, <1>6
  <1>8. r \in Seq(R) /\ Len(r) <= n /\ Len(r) \in Nat
    BY <1>2, <1>7, LenProperties DEF Good
  <1>9. Range(r) \subseteq R
    BY <1>8, OwnElements
  <1> QED
    BY <1>0, <1>8, <1>9, Elsewhere

\* Hints within their cap.
Capped(s) == s \in Seq(Hints) /\ Len(s) <= MaxHints

\* t holds no hint that s does not hold, ...
Fewer(s, t) == \A e : Holds(t, e) => Holds(s, e)

\* ... but perhaps one of x.
NoMore(s, t, x) == \A e : Holds(t, e) => Holds(s, e) \/ e = x

\* A list of some of the hints.
LEMMA SomeHints ==
    ASSUME NEW s, Capped(s), NEW t \in Seq(Hints), Len(t) <= Len(s), Range(t) \subseteq Range(s)
    PROVE  Capped(t) /\ Fewer(s, t)
  <1>1. Len(s) \in Nat /\ Len(t) \in Nat /\ MaxHints \in Nat /\ Len(s) <= MaxHints
    BY LenProperties, HintAssumption DEF Capped
  <1>2. \A u, e : Holds(u, e) <=> \E h \in Range(u) : h.endpoint = e
    BY DEF Holds, Range
  <1> QED
    BY <1>1, <1>2 DEF Capped, Fewer

\* A failure adds nothing.
LEMMA FailureFacts ==
    ASSUME NEW s, Capped(s), NEW e
    PROVE  Capped(RecordFailure(s, e)) /\ Fewer(s, RecordFailure(s, e))
  <1> DEFINE b == [i \in DOMAIN s |-> IF s[i].endpoint # e THEN s[i]
                                      ELSE [s[i] EXCEPT !.failures = @ + 1]]
             P == {i \in DOMAIN s : b[i].endpoint # e \/ b[i].failures < MaxFailures}
             t == RecordFailure(s, e)
  <1>1. t = Retain(b, P)
    BY DEF RecordFailure
  <1>2. Len(s) \in Nat /\ DOMAIN s = 1 .. Len(s) /\ \A i \in DOMAIN s : s[i] \in Hints
    BY LenProperties, ElementOfSeq DEF Capped
  <1>3. \A h \in Hints : LET g == [h EXCEPT !.failures = @ + 1] IN g \in Hints /\ g.endpoint = h.endpoint
    BY DEF Hints
  <1>4. \A i \in DOMAIN s : b[i] \in Hints /\ b[i].endpoint = s[i].endpoint
    BY <1>2, <1>3
  <1>5. b = [i \in 1 .. Len(s) |-> b[i]] /\ DOMAIN b = 1 .. Len(s)
    BY <1>2
  <1> SUFFICES Capped(t) /\ Fewer(s, t)
    OBVIOUS
  <1> HIDE DEF b, P, t
  <1>6. b \in Seq(Hints) /\ Len(b) = Len(s)
    <2>1. b \in [1 .. Len(s) -> Hints]
      BY <1>2, <1>4, <1>5
    <2>2. b \in Seq(Hints)
      BY <1>2, <2>1, SeqDef
    <2> QED
      BY <1>2, <1>5, <2>2, LenProperties
  <1>7. Capped(b)
    BY <1>6 DEF Capped
  <1>8. t \in Seq(Hints) /\ Len(t) <= Len(b) /\ Range(t) \subseteq Range(b)
    BY <1>1, <1>6, RetainFacts
  <1>9. Capped(t) /\ Fewer(b, t)
    BY <1>7, <1>8, SomeHints
  <1>10. \A x : Holds(b, x) => Holds(s, x)
    BY <1>2, <1>4, <1>5 DEF Holds
  <1> QED
    BY <1>9, <1>10 DEF Fewer

\* Neither does dropping what is too old.
LEMMA PruneFacts ==
    ASSUME NEW s, Capped(s)
    PROVE  Capped(Prune(s, Now)) /\ Fewer(s, Prune(s, Now))
  <1> DEFINE t == Prune(s, Now)
  <1>1. t \in Seq(Hints) /\ Len(t) <= Len(s) /\ Range(t) \subseteq Range(s)
    BY RetainFacts DEF Prune, Capped
  <1> HIDE DEF t
  <1>2. Capped(t) /\ Fewer(s, t)
    BY <1>1, SomeHints
  <1> QED
    BY <1>2 DEF t

\* One hint of a list is older than all others.
LEMMA OldestExists ==
    ASSUME NEW s \in Seq(Hints), DOMAIN s # {}
    PROVE  \E i \in DOMAIN s : \A j \in DOMAIN s \ {i} : OlderThan(s, i, j)
  <1>1. DOMAIN s \subseteq Nat /\ \A i \in DOMAIN s : s[i].last \in Nat /\ s[i].first \in Nat
    <2>1. /\ Len(s) \in Nat /\ DOMAIN s = 1 .. Len(s) /\ \A i \in 1 .. Len(s) : s[i] \in Hints
      BY LenProperties, ElementOfSeq
    <2>2. \A h \in Hints : h.last \in Nat /\ h.first \in Nat
      BY DEF Hints
    <2> QED
      BY <2>1, <2>2
  <1> DEFINE L == {s[i].last : i \in DOMAIN s}
  <1>2. PICK l \in L : \A x \in L : l <= x
    <2>1. L \subseteq Nat /\ L # {}
      BY <1>1
    <2> HIDE DEF L
    <2> QED
      BY <2>1, LeastNatural
  <1> DEFINE A == {i \in DOMAIN s : s[i].last = l}
             F == {s[i].first : i \in A}
  <1>3. PICK f \in F : \A x \in F : f <= x
    <2>1. F \subseteq Nat /\ F # {}
      BY <1>1, <1>2
    <2> HIDE DEF F
    <2> QED
      BY <2>1, LeastNatural
  <1> DEFINE I == {i \in A : s[i].first = f}
  <1>4. PICK i \in I : \A x \in I : i <= x
    <2>1. I \subseteq Nat /\ I # {}
      BY <1>1, <1>3
    <2> HIDE DEF I
    <2> QED
      BY <2>1, LeastNatural
  <1>5. ASSUME NEW j \in DOMAIN s \ {i}
        PROVE  OlderThan(s, i, j)
    <2>1. i \in Nat /\ j \in Nat /\ s[i].last = l /\ s[i].first = f /\ s[j].last \in Nat
          /\ s[j].first \in Nat /\ l \in Nat /\ f \in Nat
      BY <1>1, <1>4, <1>2, <1>3
    <2>2. l <= s[j].last
      BY <1>2
    <2>3. s[j].last = l => f <= s[j].first
      BY <1>3
    <2>4. s[j].last = l /\ s[j].first = f => i <= j
      BY <1>4
    <2> QED
      BY <1>5, <2>1, <2>2, <2>3, <2>4 DEF OlderThan
  <1> QED
    BY <1>4, <1>5

\* A list without one of its elements.
LEMMA RemoveAtFacts ==
    ASSUME NEW S, NEW s \in Seq(S), NEW i \in 1 .. Len(s)
    PROVE  RemoveAt(s, i) \in Seq(S) /\ Len(RemoveAt(s, i)) = Len(s) - 1
  <1>1. Len(s) \in Nat /\ \A k \in 1 .. Len(s) : s[k] \in S
    BY LenProperties, ElementOfSeq
  <1> DEFINE a == SubSeq(s, 1, i - 1)
             b == SubSeq(s, i + 1, Len(s))
  <1>2. a \in Seq(S) /\ Len(a) = i - 1
    <2>1. a \in Seq(S) /\ Len(a) = IF 1 <= i - 1 THEN i - 1 - 1 + 1 ELSE 0
      BY <1>1, SubSeqProperties
    <2> QED
      BY <1>1, <2>1
  <1>3. b \in Seq(S) /\ Len(b) = Len(s) - i
    <2>1. b \in Seq(S) /\ Len(b) = IF i + 1 <= Len(s) THEN Len(s) - (i + 1) + 1 ELSE 0
      BY <1>1, SubSeqProperties
    <2> QED
      BY <1>1, <2>1
  <1>4. RemoveAt(s, i) = a \o b
    BY DEF RemoveAt
  <1> HIDE DEF a, b
  <1>5. a \o b \in Seq(S) /\ Len(a \o b) = Len(a) + Len(b)
    BY <1>2, <1>3, ConcatProperties
  <1> QED
    BY <1>1, <1>2, <1>3, <1>4, <1>5

\* A success adds its endpoint and keeps the cap.
LEMMA SuccessFacts ==
    ASSUME NEW s, Capped(s), NEW e \in Endpoints
    PROVE  Capped(RecordSuccess(s, e, Now)) /\ NoMore(s, RecordSuccess(s, e, Now), e)
  <1> DEFINE t == RecordSuccess(s, e, Now)
  <1>0. /\ s \in Seq(Hints) /\ Len(s) \in Nat /\ DOMAIN s = 1 .. Len(s) /\ \A i \in DOMAIN s : s[i] \in Hints
        /\ Len(s) <= MaxHints /\ MaxHints \in Nat /\ Now \in Nat
    BY LenProperties, ElementOfSeq, HintAssumption, HomeAssumption DEF Capped
  <1>1. CASE Holds(s, e)
    <2> DEFINE u == [i \in DOMAIN s |->
                      IF s[i].endpoint # e THEN s[i]
                      ELSE [s[i] EXCEPT !.last = Now, !.failures = 0,
                                        !.first = IF @ = 0 THEN Now ELSE @]]
    <2>1. t = u
      BY <1>1 DEF RecordSuccess
    <2>2. \A h \in Hints :
             LET g == [h EXCEPT !.last = Now, !.failures = 0, !.first = IF @ = 0 THEN Now ELSE @]
             IN  g \in Hints /\ g.endpoint = h.endpoint
      BY <1>0 DEF Hints
    <2>3. \A i \in DOMAIN s : u[i] \in Hints /\ u[i].endpoint = s[i].endpoint
      BY <1>0, <2>2
    <2>4. u = [i \in 1 .. Len(s) |-> u[i]] /\ DOMAIN u = 1 .. Len(s)
      BY <1>0
    <2> HIDE DEF u
    <2>5. u \in Seq(Hints) /\ Len(u) = Len(s)
      <3>1. u \in [1 .. Len(s) -> Hints]
        BY <1>0, <2>3, <2>4
      <3>2. u \in Seq(Hints)
        BY <1>0, <3>1, SeqDef
      <3> QED
        BY <1>0, <2>4, <3>2, LenProperties
    <2>6. \A x : Holds(u, x) => Holds(s, x)
      BY <1>0, <2>3, <2>4 DEF Holds
    <2> QED
      BY <1>0, <2>1, <2>5, <2>6 DEF Capped, NoMore
  <1>2. CASE ~Holds(s, e)
    <2> DEFINE a == Append(s, Served(e, Now))
    <2>1. t = DropOldest(a)
      BY <1>2 DEF RecordSuccess
    <2>2. Served(e, Now) \in Hints /\ Served(e, Now).endpoint = e
      BY <1>0 DEF Served, Hints
    <2>3. a \in Seq(Hints) /\ Len(a) = Len(s) + 1 /\ Range(a) = Range(s) \cup {Served(e, Now)}
      BY <1>0, <2>2, AppendRange
    <2> HIDE DEF a
    <2>4. t \in Seq(Hints) /\ Len(t) <= MaxHints /\ Range(t) \subseteq Range(a)
      <3>1. CASE Len(a) > MaxHints
        <4> DEFINE i == CHOOSE i \in DOMAIN a : \A j \in DOMAIN a \ {i} : OlderThan(a, i, j)
        <4>1. DropOldest(a) = RemoveAt(a, i)
          BY <3>1 DEF DropOldest
        <4>2. DOMAIN a = 1 .. Len(a) /\ DOMAIN a # {} /\ a \in Seq(Range(a)) /\ Range(a) \subseteq Hints
          <5>1. DOMAIN a = 1 .. Len(a) /\ a \in Seq(Range(a)) /\ Range(a) \subseteq Hints
            BY <2>3, OwnElements
          <5>2. Len(a) \in DOMAIN a
            BY <1>0, <2>3, <5>1
          <5> QED
            BY <5>1, <5>2
        <4>3. i \in 1 .. Len(a)
          BY <2>3, <4>2, OldestExists
        <4> HIDE DEF i
        <4>4. t \in Seq(Range(a)) /\ Len(t) = Len(a) - 1
          BY <2>1, <4>1, <4>2, <4>3, RemoveAtFacts
        <4>5. Range(t) \subseteq Range(a)
          BY <4>4, OwnElements
        <4>6. t \in Seq(Hints)
          <5>1. Range(t) \subseteq Hints
            BY <4>2, <4>5
          <5> HIDE DEF t
          <5> QED
            BY <4>4, <5>1, Elsewhere
        <4> QED
          BY <1>0, <2>3, <4>4, <4>5, <4>6
      <3>2. CASE ~(Len(a) > MaxHints)
        <4>1. DropOldest(a) = a
          BY <3>2 DEF DropOldest
        <4> QED
          BY <1>0, <2>1, <2>3, <3>2, <4>1
      <3> QED
        BY <3>1, <3>2
    <2>5. \A u, x : Holds(u, x) <=> \E h \in Range(u) : h.endpoint = x
      BY DEF Holds, Range
    <2> HIDE DEF t
    <2>6. NoMore(s, t, e)
      BY <2>2, <2>3, <2>4, <2>5 DEF NoMore
    <2> QED
      BY <2>4, <2>6 DEF Capped, t
  <1> QED
    BY <1>1, <1>2

\* f holds the hints after each failure.
Blames(hints, failed, spared, n, f) ==
    f = [m \in 0 .. n |-> IF m = 0 THEN hints
                          ELSE IF failed[m] \in spared THEN f[m - 1]
                          ELSE RecordFailure(f[m - 1], failed[m])]

\* The hints after any number of failures are there.
LEMMA BlamesExist ==
    ASSUME NEW hints, NEW failed, NEW spared, NEW n \in Nat
    PROVE  \E f : Blames(hints, failed, spared, n, f)
  <1> DEFINE G == {m \in Nat : \E f : Blames(hints, failed, spared, m, f)}
  <1>1. 0 \in G
    <2> DEFINE f == [k \in 0 .. 0 |-> hints]
    <2>1. Blames(hints, failed, spared, 0, f)
      BY DEF Blames
    <2> QED
      BY <2>1
  <1>2. ASSUME NEW m \in 1 .. n, m - 1 \in G
        PROVE  m \in G
    <2>1. PICK f : Blames(hints, failed, spared, m - 1, f)
      BY <1>2
    <2> DEFINE next == IF failed[m] \in spared THEN f[m - 1] ELSE RecordFailure(f[m - 1], failed[m])
               g == [k \in 0 .. m |-> IF k < m THEN f[k] ELSE next]
    <2>2. \A k \in 0 .. m : g[k] = IF k = 0 THEN hints
                        ELSE IF failed[k] \in spared THEN g[k - 1] ELSE RecordFailure(g[k - 1], failed[k])
      <3> SUFFICES ASSUME NEW k \in 0 .. m
                   PROVE  g[k] = IF k = 0 THEN hints
                        ELSE IF failed[k] \in spared THEN g[k - 1] ELSE RecordFailure(g[k - 1], failed[k])
        OBVIOUS
      <3>1. CASE k = m
        <4>1. g[m] = next /\ g[m - 1] = f[m - 1] /\ m # 0
          BY <1>2
        <4> HIDE DEF g
        <4> QED
          BY <3>1, <4>1
      <3>2. CASE k < m
        <4>1. k \in 0 .. m - 1
          BY <1>2, <3>2
        <4>2. f[k] = IF k = 0 THEN hints
                     ELSE IF failed[k] \in spared THEN f[k - 1] ELSE RecordFailure(f[k - 1], failed[k])
          BY <2>1, <4>1 DEF Blames
        <4>3. g[k] = f[k] /\ (k # 0 => g[k - 1] = f[k - 1])
          BY <1>2, <3>2
        <4> HIDE DEF g
        <4> QED
          BY <4>2, <4>3
      <3> QED
        BY <1>2, <3>1, <3>2
    <2>3. g = [k \in 0 .. m |-> g[k]]
      OBVIOUS
    <2> HIDE DEF g
    <2>4. Blames(hints, failed, spared, m, g)
      BY <2>2, <2>3 DEF Blames
    <2>5. m \in Nat
      BY <1>2
    <2> QED
      BY <2>4, <2>5
  <1> HIDE DEF G
  <1>3. \A m \in 0 .. n : m \in G
    BY <1>1, <1>2, CountUp
  <1>4. n \in G
    BY <1>3
  <1> QED
    BY <1>4 DEF G

\* Failures add nothing, however many.
LEMMA FailuresFacts ==
    ASSUME NEW s, Capped(s), NEW failed, Len(failed) \in Nat, NEW spared
    PROVE  LET t == RecordFailures(s, failed, spared) IN
           Capped(t) /\ \A e : Holds(t, e) => Holds(s, e)
  <1> DEFINE n == Len(failed)
             f == CHOOSE f : Blames(s, failed, spared, n, f)
             t == RecordFailures(s, failed, spared)
  <1>1. Blames(s, failed, spared, n, f)
    BY BlamesExist
  <1>2. t = f[n]
    BY DEF RecordFailures, Blames
  <1> SUFFICES Capped(t) /\ \A e : Holds(t, e) => Holds(s, e)
    OBVIOUS
  <1>0. n \in Nat
    OBVIOUS
  <1> HIDE DEF f, t, n
  <1>3. \A m \in 0 .. n : f[m] = IF m = 0 THEN s
                ELSE IF failed[m] \in spared THEN f[m - 1] ELSE RecordFailure(f[m - 1], failed[m])
    BY <1>1 DEF Blames
  <1> DEFINE Good(m) == Capped(f[m]) /\ \A e : Holds(f[m], e) => Holds(s, e)
             G == {m \in Nat : Good(m)}
  <1>4. 0 \in G
    <2>1. f[0] = s
      BY <1>0, <1>3
    <2> QED
      BY <2>1
  <1>5. ASSUME NEW m \in 1 .. n, m - 1 \in G
        PROVE  m \in G
    <2> DEFINE h == f[m - 1]
               b == RecordFailure(h, failed[m])
    <2>1. m \in Nat /\ m # 0 /\ m \in 0 .. n
      BY <1>0, <1>5
    <2>2. Capped(h) /\ \A e : Holds(h, e) => Holds(s, e)
      BY <1>5
    <2>3. f[m] = IF failed[m] \in spared THEN h ELSE b
      BY <1>3, <2>1
    <2> HIDE DEF h
    <2>4. Capped(b) /\ Fewer(h, b)
      BY <2>2, FailureFacts
    <2> HIDE DEF b
    <2>5. \A e : Holds(b, e) => Holds(h, e)
      BY <2>4 DEF Fewer
    <2>6. Good(m)
      BY <2>2, <2>3, <2>4, <2>5
    <2> HIDE DEF Good
    <2> QED
      BY <2>1, <2>6
  <1> HIDE DEF Good
  <1>6. \A m \in 0 .. n : m \in G
    <2> HIDE DEF G
    <2> QED
      BY <1>0, <1>4, <1>5, CountUp
  <1>7. Good(n)
    BY <1>0, <1>6
  <1> QED
    BY <1>2, <1>7 DEF Good

\* The hints of a ledger after its fetch: within the cap, and only the endpoint
\* of a kept copy is new, if that may be recorded.
LEMMA RecordHintsFacts ==
    ASSUME NEW s, Capped(s), NEW f, Len(f.failed) \in Nat, NEW o,
           o.source # NoSource /\ MayRecordHint(o.source.kind) => o.source.endpoint \in Endpoints
    PROVE  LET t == RecordHints(s, f, o) IN
           /\ Capped(t)
           /\ \A e : Holds(t, e) =>
                \/ Holds(s, e)
                \/ o.source # NoSource /\ MayRecordHint(o.source.kind) /\ e = o.source.endpoint
  <1> DEFINE caller == {f.tried[i].endpoint : i \in {j \in DOMAIN f.tried :
                                                     ~MayRecordHint(f.tried[j].kind)}}
             blamed == RecordFailures(s, f.failed, caller)
             served == o.source # NoSource /\ MayRecordHint(o.source.kind)
             u == IF served THEN RecordSuccess(blamed, o.source.endpoint, Now) ELSE blamed
             t == RecordHints(s, f, o)
  <1>1. t = Prune(u, Now)
    BY DEF RecordHints
  <1>2. Capped(blamed) /\ \A e : Holds(blamed, e) => Holds(s, e)
    BY FailuresFacts
  <1>3. served => o.source.endpoint \in Endpoints
    OBVIOUS
  <1> SUFFICES Capped(t) /\ \A e : Holds(t, e) => Holds(s, e) \/ (served /\ e = o.source.endpoint)
    OBVIOUS
  <1> HIDE DEF caller, blamed, served, t
  <1>6. (served => u = RecordSuccess(blamed, o.source.endpoint, Now)) /\ (~served => u = blamed)
    OBVIOUS
  <1> HIDE DEF u
  <1>4. Capped(u) /\ \A e : Holds(u, e) => Holds(s, e) \/ (served /\ e = o.source.endpoint)
    <2>1. CASE served
      <3>1. u = RecordSuccess(blamed, o.source.endpoint, Now)
        BY <1>6, <2>1
      <3>2. Capped(u) /\ NoMore(blamed, u, o.source.endpoint)
        BY <1>2, <1>3, <2>1, <3>1, SuccessFacts
      <3>3. \A e : Holds(u, e) => Holds(blamed, e) \/ e = o.source.endpoint
        BY <3>2 DEF NoMore
      <3> QED
        BY <1>2, <2>1, <3>2, <3>3
    <2>2. CASE ~served
      <3>1. u = blamed
        BY <1>6, <2>2
      <3> QED
        BY <1>2, <3>1
    <2> QED
      BY <2>1, <2>2
  <1>5. Capped(t) /\ \A e : Holds(t, e) => Holds(u, e)
    BY <1>1, <1>4, PruneFacts DEF Fewer
  <1> QED
    BY <1>4, <1>5

-----------------------------------------------------------------------------
(* What the copies say.                                                    *)

\* The events of all chains.
Events == UNION {Range(chain) : chain \in Chains}

\* The chains are lists of the same events.
LEMMA ChainList ==
    ASSUME NEW chain \in Chains
    PROVE  chain \in Seq(Events) /\ Len(chain) \in Nat /\ DOMAIN chain = 1 .. Len(chain)
  <1>1. chain \in Seq(Range(chain))
    BY HomeAssumption
  <1>2. Range(chain) \subseteq Events
    BY DEF Events
  <1>3. chain \in Seq(Events)
    BY <1>1, <1>2
  <1> QED
    BY <1>3

\* Two chains part nowhere, or at a first position.
LEMMA DivergenceFacts ==
    ASSUME NEW S, NEW c \in Seq(S), NEW d \in Seq(S)
    PROVE  LET p == Divergence(c, d) IN
           /\ p \in Nat
           /\ p = 0 => \A k \in 1 .. Len(c) : k <= Len(d) => c[k] = d[k]
           /\ p # 0 => /\ p \in 1 .. Len(c) /\ p <= Len(d) /\ c[p] # d[p]
                       /\ \A k \in 1 .. p - 1 : c[k] = d[k]
  <1> DEFINE shared == 1 .. (IF Len(c) < Len(d) THEN Len(c) ELSE Len(d))
             apart == {i \in shared : c[i] # d[i]}
             least == CHOOSE i \in apart : \A j \in apart : i <= j
             p == Divergence(c, d)
  <1>1. p = IF apart = {} THEN 0 ELSE least
    BY DEF Divergence
  <1>2. \A k : k \in shared <=> k \in 1 .. Len(c) /\ k <= Len(d)
    OBVIOUS
  <1> SUFFICES /\ p \in Nat
               /\ p = 0 => \A k \in 1 .. Len(c) : k <= Len(d) => c[k] = d[k]
               /\ p # 0 => /\ p \in 1 .. Len(c) /\ p <= Len(d) /\ c[p] # d[p]
                           /\ \A k \in 1 .. p - 1 : c[k] = d[k]
    OBVIOUS
  <1> HIDE DEF p, shared
  <1>3. CASE apart = {}
    <2>1. p = 0
      BY <1>1, <1>3
    <2>2. \A k \in shared : c[k] = d[k]
      BY <1>3
    <2> QED
      BY <1>2, <2>1, <2>2
  <1>4. CASE apart # {}
    <2>1. apart \subseteq Nat
      BY <1>2
    <2>2. \E x \in apart : \A y \in apart : x <= y
      <3> HIDE DEF apart
      <3> QED
        BY <1>4, <2>1, LeastNatural
    <2>3. least \in apart /\ \A j \in apart : least <= j
      <3> HIDE DEF apart
      <3> QED
        BY <2>2
    <2>4. p = least
      BY <1>1, <1>4
    <2> HIDE DEF least
    <2>5. p \in shared /\ c[p] # d[p] /\ \A j \in shared : c[j] # d[j] => p <= j
      BY <2>3, <2>4
    <2>6. p \in 1 .. Len(c) /\ p <= Len(d) /\ p # 0 /\ p \in Nat
      BY <1>2, <2>5
    <2>7. ASSUME NEW k \in 1 .. p - 1
          PROVE  c[k] = d[k]
      <3>1. k \in shared /\ ~(p <= k)
        BY <1>2, <2>6, <2>7
      <3> QED
        BY <2>5, <3>1
    <2> QED
      BY <2>5, <2>6, <2>7
  <1> QED
    BY <1>3, <1>4

\* The sources of a plan, and the copies they served.
Mine == Dials \cup {Source("local", NoEndpoint)}

Copies == [source : Mine, chain : Chains]

\* What OutcomeIsSupported says of one fetch and its outcome.
Supported(f, o) ==
    LET copies == Range(f.copies)
    IN  CASE o.status = "ok" ->
                /\ [source |-> o.source, chain |-> o.chain] \in copies
                /\ IsPrefix(f.copies[1].chain, o.chain)
                /\ \A c \in copies : Len(c.chain) <= Len(o.chain)
          [] o.status = "equivocation" ->
                /\ [source |-> o.source, chain |-> o.chain] = f.copies[1]
                /\ Range(o.branches) \subseteq copies
                /\ \E one, other \in Range(o.branches) :
                    /\ SubSeq(one.chain, 1, o.at - 1) = SubSeq(other.chain, 1, o.at - 1)
                    /\ one.chain[o.at] # other.chain[o.at]
          [] OTHER -> copies = {}

\* Two chains are the same before they part.
LEMMA SameBefore ==
    ASSUME NEW S, NEW c \in Seq(S), NEW d \in Seq(S), NEW p \in 1 .. Len(c), p <= Len(d),
           \A k \in 1 .. p - 1 : c[k] = d[k]
    PROVE  SubSeq(c, 1, p - 1) = SubSeq(d, 1, p - 1)
  <1>1. SubSeq(c, 1, p - 1) = [k \in 1 .. p - 1 |-> c[k]]
    OBVIOUS
  <1>2. SubSeq(d, 1, p - 1) = [k \in 1 .. p - 1 |-> d[k]]
    OBVIOUS
  <1> QED
    BY <1>1, <1>2

\* One of the copies is the longest, and the first of its length.
LEMMA BestExists ==
    ASSUME NEW copies \in Seq(Copies), copies # <<>>
    PROVE  \E i \in DOMAIN copies :
              \A j \in DOMAIN copies :
                  \/ Len(copies[i].chain) > Len(copies[j].chain)
                  \/ Len(copies[i].chain) = Len(copies[j].chain) /\ i <= j
  <1>1. DOMAIN copies = 1 .. Len(copies) /\ Len(copies) \in Nat /\ Len(copies) # 0
    OBVIOUS
  <1> DEFINE n(i) == Len(copies[i].chain)
  <1>2. \A i \in DOMAIN copies : n(i) \in Nat
    <2>1. ASSUME NEW i \in DOMAIN copies
          PROVE  n(i) \in Nat
      <3>1. copies[i] \in Copies
        OBVIOUS
      <3>2. copies[i].chain \in Chains
        BY <3>1 DEF Copies
      <3> QED
        BY <3>2, ChainList
    <2> QED
      BY <2>1
  <1> HIDE DEF n
  <1> DEFINE Good(m) == \E i \in 1 .. m : \A j \in 1 .. m : n(i) > n(j) \/ (n(i) = n(j) /\ i <= j)
             G == {m \in Nat : m = 0 \/ Good(m)}
  <1>3. 0 \in G
    OBVIOUS
  <1>4. ASSUME NEW m \in 1 .. Len(copies), m - 1 \in G
        PROVE  m \in G
    <2>1. m \in Nat /\ m \in 1 .. m /\ n(m) \in Nat
      BY <1>1, <1>2
    <2>2. CASE m = 1
      <3>1. \A j \in 1 .. m : n(m) = n(j) /\ m <= j
        BY <2>2
      <3>2. Good(m)
        BY <2>1, <3>1
      <3> QED
        BY <2>1, <3>2
    <2>3. CASE m # 1
      <3>1. Good(m - 1)
        BY <1>4, <2>3
      <3>2. PICK i \in 1 .. m - 1 : \A j \in 1 .. m - 1 : n(i) > n(j) \/ (n(i) = n(j) /\ i <= j)
        BY <3>1
      <3>3. \A j \in 1 .. m : n(j) \in Nat /\ (j = m \/ j \in 1 .. m - 1)
        BY <1>1, <1>2
      <3>4. i \in 1 .. m /\ i \in Nat /\ i <= m
        BY <2>1
      <3>5. CASE n(i) >= n(m)
        <4>1. \A j \in 1 .. m : n(i) > n(j) \/ (n(i) = n(j) /\ i <= j)
          BY <2>1, <3>2, <3>3, <3>4, <3>5
        <4>2. Good(m)
          BY <3>4, <4>1
        <4> QED
          BY <2>1, <4>2
      <3>6. CASE ~(n(i) >= n(m))
        <4>1. \A j \in 1 .. m : n(m) > n(j) \/ (n(m) = n(j) /\ m <= j)
          BY <2>1, <3>2, <3>3, <3>4, <3>6
        <4>2. Good(m)
          BY <2>1, <4>1
        <4> QED
          BY <2>1, <4>2
      <3> QED
        BY <3>5, <3>6
    <2> QED
      BY <2>2, <2>3
  <1>5. Len(copies) \in G
    <2> HIDE DEF G
    <2>1. \A m \in 0 .. Len(copies) : m \in G
      BY <1>1, <1>3, <1>4, CountUp
    <2> QED
      BY <1>1, <2>1
  <1>6. Good(Len(copies))
    BY <1>1, <1>5
  <1> QED
    BY <1>1, <1>6 DEF n

\* The decision is supported by the copies, and its source is that of a copy.
LEMMA DecideFacts ==
    ASSUME NEW f, f.copies \in Seq(Copies)
    PROVE  LET o == Decide(f) IN
           /\ Supported(f, o) /\ o.status # "pending"
           /\ o.source = NoSource \/ \E c \in Range(f.copies) : o.source = c.source
  <1> DEFINE copies == f.copies
             first == copies[1]
             apart == {i \in DOMAIN copies : Divergence(first.chain, copies[i].chain) # 0}
             least == CHOOSE i \in apart : \A j \in apart : i <= j
             other == copies[least]
             best == CHOOSE i \in DOMAIN copies :
                    \A j \in DOMAIN copies :
                        \/ Len(copies[i].chain) > Len(copies[j].chain)
                        \/ Len(copies[i].chain) = Len(copies[j].chain) /\ i <= j
             none == Failed(IF f.invalid THEN "invalid" ELSE "unreachable", f)
             fork == [status |-> "equivocation", source |-> first.source, chain |-> first.chain,
                      tried |-> f.tried, at |-> Divergence(first.chain, other.chain),
                      branches |-> <<first, other>>]
             fine == [status |-> "ok", source |-> copies[best].source,
                      chain |-> copies[best].chain, tried |-> f.tried, at |-> 0,
                      branches |-> <<>>]
             o == Decide(f)
  <1>1. o = IF copies = <<>> THEN none ELSE IF apart # {} THEN fork ELSE fine
    BY DEF Decide
  <1> SUFFICES /\ Supported(f, o) /\ o.status # "pending"
               /\ o.source = NoSource \/ \E c \in Range(copies) : o.source = c.source
    OBVIOUS
  <1>2. DOMAIN copies = 1 .. Len(copies) /\ Len(copies) \in Nat
        /\ (copies # <<>> => 1 \in DOMAIN copies)
    OBVIOUS
  <1>3. ASSUME NEW i \in DOMAIN copies
        PROVE  /\ copies[i] \in Range(copies)
               /\ copies[i] = [source |-> copies[i].source, chain |-> copies[i].chain]
               /\ copies[i].chain \in Chains
    <2>1. copies[i] \in Copies
      OBVIOUS
    <2>2. copies[i] \in Range(copies)
      BY DEF Range
    <2> QED
      BY <2>1, <2>2 DEF Copies
  <1>4. \A c \in Range(copies) : \E i \in DOMAIN copies : c = copies[i]
    BY DEF Range
  <1> HIDE DEF o, none, fork, fine, apart, best, least
  <1>5. CASE copies = <<>>
    <2>1. o = none
      BY <1>1, <1>5
    <2>2. none.source = NoSource /\ none.status \in {"invalid", "unreachable"}
      BY DEF none, Failed
    <2>3. Range(copies) = {}
      BY <1>5 DEF Range
    <2> QED
      BY <2>1, <2>2, <2>3 DEF Supported
  <1>6. CASE copies # <<>> /\ apart # {}
    <2>1. o = fork
      BY <1>1, <1>6
    <2>2. least \in apart
      <3>1. apart \subseteq Nat
        BY <1>2 DEF apart
      <3>2. \E x \in apart : \A y \in apart : x <= y
        BY <1>6, <3>1, LeastNatural
      <3> QED
        BY <3>2 DEF least
    <2> DEFINE p == Divergence(first.chain, other.chain)
    <2>3. least \in DOMAIN copies /\ p # 0
      BY <2>2 DEF apart
    <2>4. /\ first \in Range(copies) /\ other \in Range(copies)
          /\ first = [source |-> first.source, chain |-> first.chain]
          /\ first.chain \in Chains /\ other.chain \in Chains
      BY <1>2, <1>3, <1>6, <2>3
    <2>5. /\ fork.status = "equivocation" /\ fork.source = first.source /\ fork.chain = first.chain
          /\ fork.at = p /\ Range(fork.branches) = {first, other}
      <3>1. fork.branches = <<first, other>>
        BY DEF fork
      <3>2. Range(<<first, other>>) = {first, other}
        <4> HIDE DEF first, other
        <4>1. DOMAIN <<first, other>> = 1 .. 2 /\ <<first, other>>[1] = first /\ <<first, other>>[2] = other
          OBVIOUS
        <4> QED
          BY <4>1 DEF Range
      <3> QED
        BY <3>1, <3>2 DEF fork
    <2> HIDE DEF first, other, p
    <2>6. /\ SubSeq(first.chain, 1, p - 1) = SubSeq(other.chain, 1, p - 1)
          /\ first.chain[p] # other.chain[p]
      <3> DEFINE c == first.chain
                 d == other.chain
      <3>1. c \in Seq(Events) /\ d \in Seq(Events) /\ Len(c) \in Nat
        BY <2>4, ChainList
      <3>2. p = Divergence(c, d)
        BY DEF p
      <3> HIDE DEF c, d
      <3>3. p \in 1 .. Len(c) /\ p <= Len(d) /\ c[p] # d[p] /\ \A k \in 1 .. p - 1 : c[k] = d[k]
        BY <2>3, <3>1, <3>2, DivergenceFacts
      <3>4. SubSeq(c, 1, p - 1) = SubSeq(d, 1, p - 1)
        BY <3>1, <3>3, SameBefore
      <3> QED
        BY <3>3, <3>4 DEF c, d
    <2>7. /\ [source |-> o.source, chain |-> o.chain] = first
          /\ Range(o.branches) \subseteq Range(copies)
          /\ first \in Range(o.branches) /\ other \in Range(o.branches)
          /\ o.at = p /\ o.status = "equivocation" /\ o.source = first.source
      BY <2>1, <2>4, <2>5
    <2>8. first = f.copies[1]
      BY DEF first
    <2>9. \E one, two \in Range(o.branches) :
             /\ SubSeq(one.chain, 1, o.at - 1) = SubSeq(two.chain, 1, o.at - 1)
             /\ one.chain[o.at] # two.chain[o.at]
      BY <2>6, <2>7
    <2>10. Supported(f, o)
      BY <2>7, <2>8, <2>9 DEF Supported
    <2> QED
      BY <2>4, <2>7, <2>10
  <1>7. CASE copies # <<>> /\ apart = {}
    <2>1. o = fine
      BY <1>1, <1>7
    <2> DEFINE kept == copies[best]
    <2>2. /\ best \in DOMAIN copies
          /\ \A j \in DOMAIN copies :
                \/ Len(copies[best].chain) > Len(copies[j].chain)
                \/ Len(copies[best].chain) = Len(copies[j].chain) /\ best <= j
      <3>1. copies \in Seq(Copies)
        OBVIOUS
      <3> HIDE DEF copies
      <3>2. \E i \in DOMAIN copies :
                    \A j \in DOMAIN copies :
                        \/ Len(copies[i].chain) > Len(copies[j].chain)
                        \/ Len(copies[i].chain) = Len(copies[j].chain) /\ i <= j
        BY <1>7, <3>1, BestExists
      <3> QED
        BY <3>2 DEF best
    <2>3. kept \in Range(copies) /\ kept.chain \in Chains
          /\ kept = [source |-> kept.source, chain |-> kept.chain]
      BY <1>3, <2>2
    <2>4. fine.status = "ok" /\ fine.source = kept.source /\ fine.chain = kept.chain
      BY DEF fine
    <2>5. \A c \in Range(copies) : Len(c.chain) <= Len(kept.chain)
      <3>1. ASSUME NEW j \in DOMAIN copies
            PROVE  Len(copies[j].chain) <= Len(kept.chain)
        <4>1. Len(copies[j].chain) \in Nat /\ Len(kept.chain) \in Nat
          BY <1>3, <2>3, ChainList
        <4>2. \/ Len(kept.chain) > Len(copies[j].chain)
              \/ Len(kept.chain) = Len(copies[j].chain)
          BY <2>2
        <4> QED
          BY <4>1, <4>2
      <3> QED
        BY <1>4, <3>1
    <2>6. IsPrefix(first.chain, kept.chain)
      <3> DEFINE c == first.chain
                 d == kept.chain
      <3>1. Divergence(c, d) = 0
        BY <1>7, <2>2 DEF apart
      <3>2. first \in Range(copies) /\ first.chain \in Chains
        BY <1>2, <1>3, <1>7
      <3>3. c \in Seq(Events) /\ d \in Seq(Events) /\ Len(c) \in Nat /\ Len(d) \in Nat
        BY <2>3, <3>2, ChainList
      <3>4. Len(c) <= Len(d)
        BY <2>5, <3>2
      <3> HIDE DEF c, d
      <3>5. \A k \in 1 .. Len(c) : k <= Len(d) => c[k] = d[k]
        BY <3>1, <3>3, DivergenceFacts
      <3>6. \A k \in 1 .. Len(c) : c[k] = d[k]
        BY <3>3, <3>4, <3>5
      <3>7. IsPrefix(c, d)
        BY <3>3, <3>4, <3>6, PrefixByElement
      <3> QED
        BY <3>7 DEF c, d
    <2> HIDE DEF kept
    <2>7. /\ o.status = "ok" /\ o.source = kept.source /\ o.chain = kept.chain
          /\ [source |-> o.source, chain |-> o.chain] \in Range(copies)
      BY <2>1, <2>3, <2>4
    <2>8. Supported(f, o)
      BY <2>5, <2>6, <2>7 DEF Supported
    <2> QED
      BY <2>3, <2>7, <2>8
  <1> QED
    BY <1>5, <1>6, <1>7

-----------------------------------------------------------------------------
(* The inductive invariant: of one fetch f of the ledger l in the home h,  *)
(* under the budget b and with the witnesses r resolved, ...               *)

\* A source the caller named as well is not recorded, or the zone vouches for it.
Vouched(h, l, s) ==
    MayRecordHint(s.kind) /\ s.endpoint \in Range(h.caller) => s.endpoint \in Range(h.zone[l])

\* A source that is dialled was charged for.
Charged(b, s) == s \in Dials => s.endpoint \in b.dialled

\* The lists of a fetch hold sources that were charged for.
ListsOK(h, b, l, f) ==
    /\ DOMAIN f = DOMAIN Unplanned
    /\ f.planned \in Seq(Mine) /\ f.tried \in Seq(Mine) /\ f.copies \in Seq(Copies)
    /\ f.failed \in Seq(Endpoints) /\ f.next \in 1 .. Len(f.planned) + 1
    /\ \A s \in Range(f.planned) : Charged(b, s) /\ Vouched(h, l, s)
    /\ \A s \in Range(f.tried) : Charged(b, s)
    /\ \A c \in Range(f.copies) : Vouched(h, l, c.source)

\* While the first sources are read, the caller and the configured witnesses
\* have had their turn in the plan.
ReadsOK(h, b, r, f) ==
    f.at = "read" =>
        /\ Range(h.caller) \subseteq b.dialled
        /\ \A e \in Range(h.caller) : Names(f.planned, e)
        /\ \A i \in DOMAIN h.witnesses : r[h.witnesses[i]].known
        /\ b.spent["node_witness"] < Reserved =>
              \A i \in DOMAIN h.witnesses :
                \A e \in Range(r[h.witnesses[i]].endpoints) : Names(f.planned, e)

\* A fetch that is done has an outcome that its copies support.
OutcomeOK(f) ==
    /\ f.at \in {"plan", "read", "dns_read", "done"}
    /\ f.at = "plan" => f.copies = <<>> /\ f.next = 1
    /\ f.at # "done" => f.outcome = Pending
    /\ f.at = "done" => Supported(f, f.outcome) /\ f.outcome.status # "pending"

\* ... and of all of them together.
CallersDialled(h, b) == b = Unspent \/ Range(h.caller) \subseteq b.dialled

\* The inductive invariant.
IInv ==
    /\ StoreOK /\ BudgetOK(budget) /\ CallersDialled(home, budget)
    /\ expired \in BOOLEAN /\ DOMAIN fetch = Ledgers
    /\ CallerHintsAreNeverKept
    /\ \A l \in Ledgers : /\ ListsOK(home, budget, l, fetch[l])
                          /\ ReadsOK(home, budget, resolved, fetch[l])
                          /\ OutcomeOK(fetch[l])

\* A later budget, and what is resolved later.
Grows(b, c) ==
    /\ BudgetOK(b) /\ BudgetOK(c) /\ b.dialled \subseteq c.dialled
    /\ b.spent["node_witness"] <= c.spent["node_witness"]

Learns(r, q) ==
    \A w \in Witnesses : r[w].known => q[w].known /\ q[w].endpoints = r[w].endpoints

\* What holds of a fetch still holds when the others have moved on.
LEMMA KeepFetch ==
    ASSUME NEW h \in Homes, NEW b, NEW c, Grows(b, c), NEW r, NEW q, Learns(r, q), NEW l, NEW f,
           ListsOK(h, b, l, f), ReadsOK(h, b, r, f)
    PROVE  ListsOK(h, c, l, f) /\ ReadsOK(h, c, q, f)
  <1>1. ListsOK(h, c, l, f)
    BY DEF ListsOK, Charged, Grows
  <1>2. ReadsOK(h, c, q, f)
    <2> SUFFICES ASSUME f.at = "read"
                 PROVE  /\ Range(h.caller) \subseteq c.dialled
                        /\ \A e \in Range(h.caller) : Names(f.planned, e)
                        /\ \A i \in DOMAIN h.witnesses : q[h.witnesses[i]].known
                        /\ c.spent["node_witness"] < Reserved =>
                              \A i \in DOMAIN h.witnesses :
                                \A e \in Range(q[h.witnesses[i]].endpoints) : Names(f.planned, e)
      BY DEF ReadsOK
    <2>1. \A i \in DOMAIN h.witnesses : h.witnesses[i] \in Witnesses
      <3>1. h.witnesses \in Seq(Witnesses)
        BY HomeAssumption
      <3> QED
        BY <3>1
    <2>2. /\ Range(h.caller) \subseteq b.dialled
          /\ \A e \in Range(h.caller) : Names(f.planned, e)
          /\ \A i \in DOMAIN h.witnesses : r[h.witnesses[i]].known
          /\ b.spent["node_witness"] < Reserved =>
                \A i \in DOMAIN h.witnesses :
                  \A e \in Range(r[h.witnesses[i]].endpoints) : Names(f.planned, e)
      BY DEF ReadsOK
    <2>3. \A i \in DOMAIN h.witnesses : /\ q[h.witnesses[i]].known
                                        /\ q[h.witnesses[i]].endpoints = r[h.witnesses[i]].endpoints
      BY <2>1, <2>2 DEF Learns
    <2>4. c.spent["node_witness"] < Reserved => b.spent["node_witness"] < Reserved
      <3>1. c.spent["node_witness"] \in Nat /\ b.spent["node_witness"] \in Nat /\ Reserved \in Nat
        BY BudgetNumbers DEF Grows
      <3> QED
        BY <3>1 DEF Grows
    <2>5. Range(h.caller) \subseteq c.dialled
      BY <2>2 DEF Grows
    <2> QED
      BY <2>2, <2>3, <2>4, <2>5
  <1> QED
    BY <1>1, <1>2

\* A step of one fetch, from what it does to that one and to what they share.
LEMMA OneFetchSteps ==
    ASSUME IInv, NEW l \in Ledgers, home' = home, DOMAIN fetch' = Ledgers,
           \A m \in Ledgers \ {l} : fetch'[m] = fetch[m],
           Grows(budget, budget'), Learns(resolved, resolved'),
           StoreOK', CallersDialled(home', budget'), expired' \in BOOLEAN,
           CallerHintsAreNeverKept',
           ListsOK(home', budget', l, fetch'[l]),
           ReadsOK(home', budget', resolved', fetch'[l]), OutcomeOK(fetch'[l])
    PROVE  IInv'
  <1>1. ASSUME NEW m \in Ledgers
        PROVE  /\ ListsOK(home', budget', m, fetch'[m])
               /\ ReadsOK(home', budget', resolved', fetch'[m]) /\ OutcomeOK(fetch'[m])
    <2>1. CASE m = l
      BY <2>1
    <2>2. CASE m # l
      <3>1. /\ fetch'[m] = fetch[m] /\ ListsOK(home, budget, m, fetch[m])
            /\ ReadsOK(home, budget, resolved, fetch[m]) /\ OutcomeOK(fetch[m])
        BY <2>2 DEF IInv
      <3>2. home \in Homes
        BY DEF IInv, StoreOK
      <3>3. ListsOK(home, budget', m, fetch[m]) /\ ReadsOK(home, budget', resolved', fetch[m])
        BY <3>1, <3>2, KeepFetch
      <3> QED
        BY <3>1, <3>3
    <2> QED
      BY <2>1, <2>2
  <1>2. BudgetOK(budget')
    BY DEF Grows
  <1> QED
    BY <1>1, <1>2 DEF IInv

\* The operation starts with nothing planned.
LEMMA InitOK == Init => IInv
  <1> SUFFICES ASSUME Init
               PROVE  IInv
    OBVIOUS
  <1> USE DEF Init
  <1>1. StoreOK
    <2>1. home \in Homes /\ peers = home.peers
      OBVIOUS
    <2>2. \A l \in DOMAIN peers : peers[l] \in Seq(Hints) /\ Len(peers[l]) <= MaxHints
      BY <2>1, HomeAssumption
    <2>3. DOMAIN resolved = Witnesses /\ \A w \in Witnesses : resolved[w].endpoints \in Seq(Endpoints)
      <3>1. NotResolved.endpoints = <<>> /\ <<>> \in Seq(Endpoints)
        BY DEF NotResolved
      <3>2. resolved = [w \in Witnesses |-> NotResolved]
        OBVIOUS
      <3> HIDE DEF Init
      <3> QED
        BY <3>1, <3>2
    <2> QED
      BY <2>1, <2>2, <2>3 DEF StoreOK
  <1>2. BudgetOK(budget) /\ CallersDialled(home, budget)
    <2>1. budget = Unspent
      BY DEF Unspent
    <2> QED
      BY <2>1, UnspentFacts DEF CallersDialled
  <1>3. CallerHintsAreNeverKept
    BY DEF CallerHintsAreNeverKept
  <1>4. ASSUME NEW l \in Ledgers
        PROVE  /\ ListsOK(home, budget, l, fetch[l])
               /\ ReadsOK(home, budget, resolved, fetch[l]) /\ OutcomeOK(fetch[l])
    <2>1. fetch[l] = Unplanned
      OBVIOUS
    <2> DEFINE f == fetch[l]
    <2>2. /\ f.at = "plan" /\ f.planned = <<>> /\ f.next = 1 /\ f.tried = <<>>
          /\ f.copies = <<>> /\ f.failed = <<>> /\ f.outcome = Pending
          /\ DOMAIN f = DOMAIN Unplanned
      BY <2>1 DEF Unplanned
    <2> HIDE DEF f
    <2>3. <<>> \in Seq(Mine) /\ <<>> \in Seq(Copies) /\ <<>> \in Seq(Endpoints)
          /\ Range(<<>>) = {} /\ Len(<<>>) = 0
      BY DEF Range
    <2>4. ListsOK(home, budget, l, f)
      BY <2>2, <2>3 DEF ListsOK
    <2>5. ReadsOK(home, budget, resolved, f) /\ OutcomeOK(f)
      BY <2>2 DEF ReadsOK, OutcomeOK
    <2> QED
      BY <2>4, <2>5 DEF f
  <1>5. expired \in BOOLEAN /\ DOMAIN fetch = Ledgers
    OBVIOUS
  <1> QED
    BY <1>1, <1>2, <1>3, <1>4, <1>5 DEF IInv

\* What the invariant says of one fetch.
LEMMA OfFetch ==
    ASSUME IInv, NEW l \in Ledgers
    PROVE  /\ ListsOK(home, budget, l, fetch[l]) /\ ReadsOK(home, budget, resolved, fetch[l])
           /\ OutcomeOK(fetch[l]) /\ StoreOK /\ BudgetOK(budget) /\ home \in Homes
           /\ expired \in BOOLEAN /\ DOMAIN fetch = Ledgers /\ CallersDialled(home, budget)
           /\ CallerHintsAreNeverKept
  BY DEF IInv, StoreOK

\* Nothing is charged and nothing resolved.
LEMMA SharedKept ==
    ASSUME IInv, UNCHANGED <<home, budget, resolved>>
    PROVE  /\ Grows(budget, budget') /\ Learns(resolved, resolved')
           /\ CallersDialled(home', budget') /\ home' = home
  <1>1. BudgetOK(budget)
    BY DEF IInv
  <1>2. budget.spent["node_witness"] \in Nat
    BY <1>1, BudgetNumbers
  <1>3. CallersDialled(home, budget)
    BY DEF IInv
  <1> QED
    BY <1>1, <1>2, <1>3 DEF Grows, Learns

\* Nothing is written to the home.
LEMMA StoreKept ==
    ASSUME IInv, UNCHANGED <<home, peers, resolved>>
    PROVE  StoreOK' /\ CallerHintsAreNeverKept'
  BY DEF IInv, StoreOK, CallerHintsAreNeverKept

\* The source that is asked next, and the fetch after it was.
LEMMA AskedFacts ==
    ASSUME NEW h, NEW b, NEW l, NEW f, ListsOK(h, b, l, f), f.next <= Len(f.planned)
    PROVE  LET s == f.planned[f.next]
               g == Asked(l, s, f)
           IN  /\ s \in Mine /\ Charged(b, s) /\ Vouched(h, l, s)
               /\ ListsOK(h, b, l, g)
               /\ g.planned = f.planned /\ g.at = f.at /\ g.copies = f.copies
               /\ g.outcome = f.outcome /\ g.failed = f.failed /\ DOMAIN g = DOMAIN Unplanned
               /\ g.next = f.next + 1 /\ g.tried = Append(f.tried, s)
  <1> DEFINE s == f.planned[f.next]
             g == Asked(l, s, f)
  <1>1. /\ DOMAIN f = DOMAIN Unplanned
        /\ f.planned \in Seq(Mine) /\ f.tried \in Seq(Mine) /\ f.copies \in Seq(Copies)
        /\ f.failed \in Seq(Endpoints) /\ f.next \in 1 .. Len(f.planned) + 1
        /\ \A x \in Range(f.planned) : Charged(b, x) /\ Vouched(h, l, x)
        /\ \A x \in Range(f.tried) : Charged(b, x)
        /\ \A c \in Range(f.copies) : Vouched(h, l, c.source)
    BY DEF ListsOK
  <1>2. f.next \in 1 .. Len(f.planned) /\ Len(f.planned) \in Nat
    BY <1>1
  <1>3. s \in Mine /\ s \in Range(f.planned)
    <2>1. f.next \in DOMAIN f.planned
      BY <1>1, <1>2
    <2> QED
      BY <1>1, <2>1 DEF Range
  <1>4. Charged(b, s) /\ Vouched(h, l, s)
    BY <1>1, <1>3
  <1> SUFFICES /\ s \in Mine /\ Charged(b, s) /\ Vouched(h, l, s)
               /\ ListsOK(h, b, l, g)
               /\ g.planned = f.planned /\ g.at = f.at /\ g.copies = f.copies
               /\ g.outcome = f.outcome /\ g.failed = f.failed /\ DOMAIN g = DOMAIN Unplanned
               /\ g.next = f.next + 1 /\ g.tried = Append(f.tried, s)
    OBVIOUS
  <1> HIDE DEF s
  <1>5. /\ g.planned = f.planned /\ g.at = f.at /\ g.copies = f.copies
        /\ g.outcome = f.outcome /\ g.failed = f.failed /\ DOMAIN g = DOMAIN Unplanned
        /\ g.next = f.next + 1 /\ g.tried = Append(f.tried, s)
    BY <1>1 DEF Asked, Unplanned
  <1> HIDE DEF g
  <1>6. g.tried \in Seq(Mine) /\ Range(g.tried) = Range(f.tried) \cup {s}
    BY <1>1, <1>3, <1>5, AppendRange
  <1>7. \A x \in Range(g.tried) : Charged(b, x)
    BY <1>1, <1>4, <1>6
  <1>8. g.next \in 1 .. Len(g.planned) + 1
    BY <1>2, <1>5
  <1>9. ListsOK(h, b, l, g)
    BY <1>1, <1>5, <1>6, <1>7, <1>8 DEF ListsOK
  <1> QED
    BY <1>3, <1>4, <1>5, <1>9

\* A step that changes one fetch and nothing they share.
LEMMA AloneSteps ==
    ASSUME IInv, NEW l \in Ledgers, NEW g, fetch' = [fetch EXCEPT ![l] = g],
           UNCHANGED <<home, peers, budget, resolved>>, expired' \in BOOLEAN,
           ListsOK(home, budget, l, g), ReadsOK(home, budget, resolved, g), OutcomeOK(g)
    PROVE  IInv'
  <1>1. DOMAIN fetch = Ledgers
    BY DEF IInv
  <1>2. DOMAIN fetch' = Ledgers /\ fetch'[l] = g /\ \A m \in Ledgers \ {l} : fetch'[m] = fetch[m]
    BY <1>1
  <1>3. /\ Grows(budget, budget') /\ Learns(resolved, resolved')
        /\ CallersDialled(home', budget') /\ home' = home
    BY SharedKept
  <1>4. StoreOK' /\ CallerHintsAreNeverKept'
    BY StoreKept
  <1>5. /\ ListsOK(home', budget', l, fetch'[l])
        /\ ReadsOK(home', budget', resolved', fetch'[l]) /\ OutcomeOK(fetch'[l])
    BY <1>2
  <1> QED
    BY <1>2, <1>3, <1>4, <1>5, OneFetchSteps

-----------------------------------------------------------------------------
(* Each action.                                                            *)

\* A fetch whose plan could not be made has no copies and says so.
LEMMA PlanFailsOK ==
    ASSUME IInv, NEW l \in Ledgers, PlanFails(l)
    PROVE  IInv'
  <1> DEFINE f == fetch[l]
             g == [f EXCEPT !.at = "done", !.outcome = Failed("invalid", f)]
  <1>1. fetch' = [fetch EXCEPT ![l] = g] /\ f.at = "plan" /\ UNCHANGED <<home, peers, budget, resolved>>
    BY DEF PlanFails
  <1>2. ListsOK(home, budget, l, f) /\ OutcomeOK(f) /\ expired \in BOOLEAN
    BY OfFetch
  <1>3. expired' \in BOOLEAN
    BY <1>2 DEF PlanFails
  <1> HIDE DEF f
  <1>4. /\ g.at = "done" /\ g.outcome = Failed("invalid", f) /\ g.planned = f.planned
        /\ g.next = f.next /\ g.tried = f.tried /\ g.copies = f.copies /\ g.failed = f.failed
        /\ DOMAIN g = DOMAIN Unplanned
    BY <1>2 DEF ListsOK, Unplanned
  <1> HIDE DEF g
  <1>5. ListsOK(home, budget, l, g) /\ ReadsOK(home, budget, resolved, g)
    BY <1>2, <1>4 DEF ListsOK, ReadsOK
  <1>6. g.copies = <<>>
    BY <1>1, <1>2, <1>4 DEF OutcomeOK
  <1>7. Range(g.copies) = {} /\ g.outcome.status = "invalid"
    BY <1>4, <1>6 DEF Range, Failed
  <1>8. OutcomeOK(g)
    BY <1>4, <1>7 DEF OutcomeOK, Supported
  <1> QED
    BY <1>1, <1>3, <1>5, <1>8, AloneSteps

\* An answer that only moves the fetch on.
LEMMA ReadOn ==
    ASSUME NEW h, NEW b, NEW r, NEW f, NEW g, ReadsOK(h, b, r, f), OutcomeOK(f),
           f.at \in {"read", "dns_read"}, g.at = f.at, g.planned = f.planned, g.outcome = f.outcome
    PROVE  ReadsOK(h, b, r, g) /\ OutcomeOK(g)
  BY DEF ReadsOK, OutcomeOK

\* A source without an answer is counted as failed, unless it is the local copy.
LEMMA ReadNothingOK ==
    ASSUME IInv, NEW l \in Ledgers, ReadNothing(l)
    PROVE  IInv'
  <1> DEFINE f == fetch[l]
             s == f.planned[f.next]
             d == Asked(l, s, f)
             g == IF s.kind = "local" THEN d ELSE [d EXCEPT !.failed = Append(@, s.endpoint)]
  <1>1. /\ fetch' = [fetch EXCEPT ![l] = g] /\ f.at \in {"read", "dns_read"}
        /\ f.next <= Len(f.planned) /\ UNCHANGED <<home, peers, budget, resolved, expired>>
    BY DEF ReadNothing, More
  <1>2. /\ ListsOK(home, budget, l, f) /\ OutcomeOK(f) /\ expired \in BOOLEAN
        /\ ReadsOK(home, budget, resolved, f)
    BY OfFetch
  <1>3. /\ s \in Mine /\ Charged(budget, s) /\ ListsOK(home, budget, l, d)
        /\ d.planned = f.planned /\ d.at = f.at /\ d.copies = f.copies
        /\ d.outcome = f.outcome /\ d.failed = f.failed /\ DOMAIN d = DOMAIN Unplanned
    BY <1>1, <1>2, AskedFacts
  <1> HIDE DEF d, s, f
  <1>4. ListsOK(home, budget, l, g) /\ g.at = f.at /\ g.planned = f.planned /\ g.outcome = f.outcome
    <2>1. CASE s.kind = "local"
      <3>1. g = d
        BY <2>1
      <3> HIDE DEF g
      <3> QED
        BY <1>3, <3>1
    <2>2. CASE s.kind # "local"
      <3>1. g = [d EXCEPT !.failed = Append(d.failed, s.endpoint)]
        BY <2>2
      <3> HIDE DEF g
      <3>2. s.endpoint \in Endpoints
        BY <1>3, <2>2 DEF Mine, Dials, Source
      <3>3. /\ g.at = d.at /\ g.outcome = d.outcome /\ g.planned = d.planned
            /\ g.next = d.next /\ g.tried = d.tried /\ g.copies = d.copies
            /\ g.failed = Append(d.failed, s.endpoint) /\ DOMAIN g = DOMAIN Unplanned
        BY <1>3, <3>1 DEF Unplanned
      <3>4. g.failed \in Seq(Endpoints)
        BY <1>3, <3>2, <3>3, AppendRange DEF ListsOK
      <3>5. ListsOK(home, budget, l, g)
        BY <1>3, <3>3, <3>4 DEF ListsOK
      <3> QED
        BY <1>3, <3>3, <3>5
    <2> QED
      BY <2>1, <2>2
  <1> HIDE DEF g
  <1>5. ReadsOK(home, budget, resolved, g) /\ OutcomeOK(g)
    BY <1>1, <1>2, <1>4, ReadOn
  <1> QED
    BY <1>1, <1>2, <1>4, <1>5, AloneSteps

\* A chain that does not verify leaves no copy.
LEMMA ReadBrokenOK ==
    ASSUME IInv, NEW l \in Ledgers, ReadBroken(l)
    PROVE  IInv'
  <1> DEFINE f == fetch[l]
             s == f.planned[f.next]
             d == Asked(l, s, f)
             g == [d EXCEPT !.invalid = TRUE]
  <1>1. /\ fetch' = [fetch EXCEPT ![l] = g] /\ f.at \in {"read", "dns_read"}
        /\ f.next <= Len(f.planned) /\ UNCHANGED <<home, peers, budget, resolved, expired>>
    BY DEF ReadBroken, More
  <1>2. /\ ListsOK(home, budget, l, f) /\ OutcomeOK(f) /\ expired \in BOOLEAN
        /\ ReadsOK(home, budget, resolved, f)
    BY OfFetch
  <1>3. /\ ListsOK(home, budget, l, d)
        /\ d.planned = f.planned /\ d.at = f.at /\ d.copies = f.copies
        /\ d.outcome = f.outcome /\ d.failed = f.failed /\ DOMAIN d = DOMAIN Unplanned
    BY <1>1, <1>2, AskedFacts
  <1> HIDE DEF d, s, f
  <1>4. /\ g.at = d.at /\ g.outcome = d.outcome /\ g.planned = d.planned
        /\ g.next = d.next /\ g.tried = d.tried /\ g.copies = d.copies
        /\ g.failed = d.failed /\ DOMAIN g = DOMAIN Unplanned
    BY <1>3 DEF Unplanned
  <1> HIDE DEF g
  <1>5. ListsOK(home, budget, l, g)
    BY <1>3, <1>4 DEF ListsOK
  <1>6. ReadsOK(home, budget, resolved, g) /\ OutcomeOK(g)
    BY <1>1, <1>2, <1>3, <1>4, ReadOn
  <1> QED
    BY <1>1, <1>2, <1>5, <1>6, AloneSteps

\* The fetch after the source that is asked next has served a chain.
WithCopy(l, f, chain) ==
    LET s == f.planned[f.next]
    IN  [Asked(l, s, f) EXCEPT !.copies = Append(@, [source |-> s, chain |-> chain])]

\* A chain that verifies is a copy, of the source that served it.
LEMMA CopyFacts ==
    ASSUME NEW h, NEW b, NEW l \in Ledgers, NEW f, ListsOK(h, b, l, f), f.next <= Len(f.planned),
           NEW chain \in Branches[l]
    PROVE  LET g == WithCopy(l, f, chain)
           IN  /\ ListsOK(h, b, l, g) /\ g.planned = f.planned /\ g.at = f.at
               /\ g.outcome = f.outcome /\ g.next = f.next + 1 /\ DOMAIN g = DOMAIN Unplanned
  <1> DEFINE s == f.planned[f.next]
             d == Asked(l, s, f)
             x == [source |-> s, chain |-> chain]
             g == [d EXCEPT !.copies = Append(d.copies, x)]
  <1>1. /\ s \in Mine /\ Vouched(h, l, s) /\ ListsOK(h, b, l, d)
        /\ d.planned = f.planned /\ d.at = f.at /\ d.copies = f.copies
        /\ d.outcome = f.outcome /\ d.failed = f.failed /\ DOMAIN d = DOMAIN Unplanned
        /\ d.next = f.next + 1
    BY AskedFacts
  <1>2. x \in Copies
    BY <1>1 DEF Copies, Chains
  <1>3. x.source = s
    OBVIOUS
  <1> SUFFICES /\ ListsOK(h, b, l, g) /\ g.planned = f.planned /\ g.at = f.at
               /\ g.outcome = f.outcome /\ g.next = f.next + 1 /\ DOMAIN g = DOMAIN Unplanned
    BY <1>1 DEF WithCopy
  <1> HIDE DEF d, s, x
  <1>4. /\ g.at = d.at /\ g.outcome = d.outcome /\ g.planned = d.planned
        /\ g.next = d.next /\ g.tried = d.tried /\ g.copies = Append(d.copies, x)
        /\ g.failed = d.failed /\ DOMAIN g = DOMAIN Unplanned
    BY <1>1 DEF Unplanned
  <1> HIDE DEF g
  <1>5. d.copies \in Seq(Copies)
    BY <1>1 DEF ListsOK
  <1>6. g.copies \in Seq(Copies) /\ Range(g.copies) = Range(d.copies) \cup {x}
    BY <1>2, <1>4, <1>5, AppendRange
  <1>7. \A c \in Range(g.copies) : Vouched(h, l, c.source)
    BY <1>1, <1>3, <1>6 DEF ListsOK
  <1>8. ListsOK(h, b, l, g)
    BY <1>1, <1>4, <1>6, <1>7 DEF ListsOK
  <1> QED
    BY <1>1, <1>4, <1>8

\* A copy that names no further source.
LEMMA ReadDnsCopyOK ==
    ASSUME IInv, NEW l \in Ledgers, ReadDnsCopy(l)
    PROVE  IInv'
  <1> DEFINE f == fetch[l]
             s == f.planned[f.next]
  <1>1. PICK chain \in Branches[l] :
            fetch' = [fetch EXCEPT ![l] =
                [Asked(l, s, f) EXCEPT !.copies = Append(@, [source |-> s, chain |-> chain])]]
    BY DEF ReadDnsCopy
  <1>2. /\ f.at = "dns_read" /\ f.next <= Len(f.planned)
        /\ UNCHANGED <<home, peers, budget, resolved, expired>>
    BY DEF ReadDnsCopy, More
  <1>3. /\ ListsOK(home, budget, l, f) /\ OutcomeOK(f) /\ expired \in BOOLEAN
        /\ ReadsOK(home, budget, resolved, f)
    BY OfFetch
  <1> DEFINE g == WithCopy(l, f, chain)
  <1>4. fetch' = [fetch EXCEPT ![l] = g]
    BY <1>1 DEF WithCopy
  <1>7. chain \in Branches[l]
    BY <1>1
  <1> HIDE DEF s, f
  <1>5. /\ ListsOK(home, budget, l, g) /\ g.planned = f.planned /\ g.at = f.at
        /\ g.outcome = f.outcome
    <2>1. f.next <= Len(f.planned) /\ ListsOK(home, budget, l, f)
      BY <1>2, <1>3
    <2> QED
      BY <1>7, <2>1, CopyFacts
  <1> HIDE DEF g
  <1>6. ReadsOK(home, budget, resolved, g) /\ OutcomeOK(g)
    BY <1>2, <1>3, <1>5, ReadOn
  <1> QED
    BY <1>2, <1>3, <1>4, <1>5, <1>6, AloneSteps

\* What is remembered of the witnesses that were resolved.
LEMMA RememberFacts ==
    ASSUME StoreOK, NEW ws, ws \subseteq Witnesses
    PROVE  LET q == Remember(ws) IN
           /\ DOMAIN q = Witnesses /\ \A w \in Witnesses : q[w].endpoints \in Seq(Endpoints)
           /\ Learns(resolved, q)
           /\ \A w \in ws : q[w].known /\ q[w].endpoints = WitnessEndpoints(w)
  <1> DEFINE q == Remember(ws)
  <1>1. /\ DOMAIN q = Witnesses
        /\ \A w \in Witnesses : q[w] = IF w \in ws THEN [known |-> TRUE, endpoints |-> WitnessEndpoints(w)]
                                       ELSE resolved[w]
    BY DEF Remember
  <1> SUFFICES /\ DOMAIN q = Witnesses /\ \A w \in Witnesses : q[w].endpoints \in Seq(Endpoints)
               /\ Learns(resolved, q)
               /\ \A w \in ws : q[w].known /\ q[w].endpoints = WitnessEndpoints(w)
    OBVIOUS
  <1> HIDE DEF q
  <1>2. ASSUME NEW w \in ws
        PROVE  q[w].known /\ q[w].endpoints = WitnessEndpoints(w) /\ w \in Witnesses
    <2>1. q[w] = [known |-> TRUE, endpoints |-> WitnessEndpoints(w)]
      BY <1>1
    <2> QED
      BY <2>1
  <1>3. ASSUME NEW w \in Witnesses
        PROVE  q[w].endpoints \in Seq(Endpoints)
    <2>1. CASE w \in ws
      BY <1>2, <2>1, WitnessEndpointsList
    <2>2. CASE w \notin ws
      BY <1>1, <2>2 DEF StoreOK
    <2> QED
      BY <2>1, <2>2
  <1>4. ASSUME NEW w \in Witnesses, resolved[w].known
        PROVE  q[w].known /\ q[w].endpoints = resolved[w].endpoints
    <2>1. CASE w \in ws
      <3>1. WitnessEndpoints(w) = resolved[w].endpoints
        BY <1>4 DEF WitnessEndpoints
      <3> QED
        BY <1>2, <2>1, <3>1
    <2>2. CASE w \notin ws
      BY <1>1, <1>4, <2>2
    <2> QED
      BY <2>1, <2>2
  <1> QED
    BY <1>1, <1>2, <1>3, <1>4 DEF Learns

\* Resolving witnesses leaves the store well.
LEMMA StoreResolved ==
    ASSUME IInv, NEW ws, ws \subseteq Witnesses, resolved' = Remember(ws), UNCHANGED <<home, peers>>
    PROVE  StoreOK' /\ Learns(resolved, resolved') /\ CallerHintsAreNeverKept'
  <1>1. StoreOK /\ CallerHintsAreNeverKept
    BY DEF IInv
  <1> DEFINE q == Remember(ws)
  <1>2. /\ DOMAIN q = Witnesses /\ \A w \in Witnesses : q[w].endpoints \in Seq(Endpoints)
        /\ Learns(resolved, q)
    BY <1>1, RememberFacts
  <1> HIDE DEF q
  <1>3. resolved' = q
    BY DEF q
  <1>4. StoreOK'
    BY <1>1, <1>2, <1>3 DEF StoreOK
  <1>5. CallerHintsAreNeverKept'
    BY <1>1 DEF CallerHintsAreNeverKept
  <1> QED
    BY <1>2, <1>3, <1>4, <1>5

\* What is dialled is among the sources, and so is the local copy.
LEMMA MineFacts ==
    /\ Dials \subseteq Mine /\ Mine \subseteq Sources
    /\ \A s \in Mine : s \notin Dials => s.kind = "local"
    /\ Source("local", NoEndpoint) \in Mine
  <1>1. Dials \subseteq Sources
    BY DEF Dials, Sources
  <1>2. Source("local", NoEndpoint) \in Sources
    BY DEF Source, Sources, Kinds
  <1>3. Source("local", NoEndpoint).kind = "local"
    BY DEF Source
  <1> QED
    BY <1>1, <1>2, <1>3 DEF Mine

\* The first plan: the caller's endpoints first, and the witnesses in it.
LEMMA PlanSourcesOK ==
    ASSUME IInv, NEW l \in Ledgers, PlanSources(l)
    PROVE  IInv'
  <1> DEFINE f == fetch[l]
             own == IF home.copy[l] # Silent THEN <<Source("local", NoEndpoint)>> ELSE <<>>
             r == Plan(<<>>, budget, FirstSources(l))
             g == [f EXCEPT !.at = "read", !.planned = own \o r.planned]
             c == As("caller", home.caller)
             wits == home.witnesses
  <1>1. /\ fetch' = [fetch EXCEPT ![l] = g] /\ f.at = "plan" /\ budget' = r.budget
        /\ resolved' = Remember(Range(wits)) /\ UNCHANGED <<home, peers, expired>>
    BY DEF PlanSources
  <1>2. /\ ListsOK(home, budget, l, f) /\ OutcomeOK(f) /\ expired \in BOOLEAN
        /\ StoreOK /\ BudgetOK(budget) /\ CallersDialled(home, budget) /\ DOMAIN fetch = Ledgers
        /\ home \in Homes
    BY OfFetch
  <1>3. /\ FirstSources(l) = c \o Rest(l) /\ c \in Seq(Dials) /\ Rest(l) \in Seq(Dials)
        /\ FirstSources(l) \in Seq(Dials)
        /\ \A x \in Range(c) : x.kind = "caller"
        /\ Len(c) <= ClassCap["caller"] /\ EndpointsIn(c) = Range(home.caller)
        /\ \A i \in DOMAIN wits : \A e \in Range(WitnessEndpoints(wits[i])) :
              \E x \in Range(FirstSources(l)) : x.kind = "node_witness" /\ x.endpoint = e
    BY <1>2, FirstSourcesFacts
  <1>4. wits \in Seq(Witnesses) /\ Range(wits) \subseteq Witnesses
        /\ \A i \in DOMAIN wits : wits[i] \in Range(wits)
    <2>1. wits \in Seq(Witnesses)
      BY <1>2, HomeAssumption
    <2> HIDE DEF wits
    <2> QED
      BY <2>1, OwnElements DEF Range
  <1>5. \A i \in DOMAIN wits : /\ resolved'[wits[i]].known
                               /\ resolved'[wits[i]].endpoints = WitnessEndpoints(wits[i])
    <2> DEFINE q == Remember(Range(wits))
    <2>1. \A w \in Range(wits) : q[w].known /\ q[w].endpoints = WitnessEndpoints(w)
      BY <1>2, <1>4, RememberFacts
    <2>2. resolved' = q
      BY <1>1
    <2> HIDE DEF q
    <2> QED
      BY <1>4, <2>1, <2>2
  <1>6. StoreOK' /\ Learns(resolved, resolved') /\ CallerHintsAreNeverKept'
    BY <1>1, <1>4, StoreResolved
  <1>7. /\ PlanOK(r, <<>>) /\ budget.dialled \subseteq r.budget.dialled
        /\ \A k \in Classes : budget.spent[k] <= r.budget.spent[k]
        /\ Range(r.planned) \subseteq Range(FirstSources(l))
    <2>1. <<>> \in Seq(Sources)
      OBVIOUS
    <2> QED
      BY <1>2, <1>3, <2>1, PlanResult
  <1>8. /\ \A x \in Range(r.planned) : x.endpoint \in Range(home.caller) => x.kind = "caller"
        /\ \A e \in Range(home.caller) : Names(r.planned, e)
        /\ Range(home.caller) \subseteq r.budget.dialled
    <2>1. EndpointsIn(c) \subseteq budget.dialled \/ budget = Unspent
      BY <1>2, <1>3 DEF CallersDialled
    <2> HIDE DEF c, r
    <2>2. r = Plan(<<>>, budget, c \o Rest(l))
      BY <1>3 DEF r
    <2> QED
      BY <1>2, <1>3, <2>1, <2>2, PlanCallers
  <1>9. r.budget.spent["node_witness"] < Reserved =>
          \A i \in DOMAIN wits : \A e \in Range(WitnessEndpoints(wits[i])) : Names(r.planned, e)
    <2> SUFFICES ASSUME r.budget.spent["node_witness"] < Reserved, NEW i \in DOMAIN wits,
                        NEW e \in Range(WitnessEndpoints(wits[i]))
                 PROVE  Names(r.planned, e)
      OBVIOUS
    <2>1. PICK x \in Range(FirstSources(l)) : x.kind = "node_witness" /\ x.endpoint = e
      BY <1>3
    <2>2. r.budget.spent["node_witness"] < Reserved => Names(r.planned, x.endpoint)
      BY <1>2, <1>3, <2>1, PlanWitnesses
    <2> QED
      BY <2>1, <2>2
  <1> HIDE DEF f, r, c, wits
  <1>10. /\ own \in Seq(Mine) /\ \A x \in Range(own) : x.kind = "local" /\ x \notin Dials
    <2> DEFINE x == Source("local", NoEndpoint)
    <2>1. x \in Mine /\ x.kind = "local" /\ x \notin Dials
      BY MineFacts DEF Source, Dials
    <2> HIDE DEF x
    <2>2. <<x>> \in Seq(Mine) /\ <<>> \in Seq(Mine) /\ Range(<<x>>) = {x} /\ Range(<<>>) = {}
      BY <2>1 DEF Range
    <2>3. own = <<x>> \/ own = <<>>
      BY DEF x
    <2> QED
      BY <2>1, <2>2, <2>3
  <1> HIDE DEF own
  <1> DEFINE p == own \o r.planned
  <1>11. r.planned \in Seq(Mine)
    <2>1. r.planned \in Seq(Dials)
      BY <1>7 DEF PlanOK
    <2> QED
      BY <2>1, MineFacts
  <1>12. p \in Seq(Mine) /\ Len(p) \in Nat /\ Range(p) = Range(own) \cup Range(r.planned)
    BY <1>10, <1>11, ConcatRange
  <1>13. \A e : Names(r.planned, e) => Names(p, e)
    BY <1>10, <1>11, NamesConcat
  <1>14. /\ g.at = "read" /\ g.planned = p /\ g.next = f.next /\ g.tried = f.tried
         /\ g.copies = f.copies /\ g.failed = f.failed /\ g.outcome = f.outcome
         /\ DOMAIN g = DOMAIN Unplanned
    BY <1>2 DEF ListsOK, Unplanned
  <1> HIDE DEF p, g
  <1>15. f.next = 1 /\ f.outcome = Pending
    BY <1>1, <1>2 DEF OutcomeOK
  <1>16. Grows(budget, budget') /\ BudgetOK(budget')
    <2>1. BudgetOK(r.budget) /\ "node_witness" \in Classes
      BY <1>7 DEF PlanOK, Classes
    <2> QED
      BY <1>1, <1>2, <1>7, <2>1 DEF Grows
  <1>17. ASSUME NEW s \in Range(p)
         PROVE  Charged(budget', s) /\ Vouched(home, l, s)
    <2>1. CASE s \in Range(own)
      <3>1. s.kind = "local" /\ s \notin Dials
        BY <1>10, <2>1
      <3> QED
        BY <3>1 DEF Charged, Vouched, MayRecordHint
    <2>2. CASE s \in Range(r.planned)
      <3>1. s.endpoint \in r.budget.dialled
        BY <1>7, <2>2 DEF PlanOK
      <3>2. s.endpoint \in Range(home.caller) => s.kind = "caller"
        BY <1>8, <2>2
      <3> QED
        BY <1>1, <3>1, <3>2 DEF Charged, Vouched, MayRecordHint
    <2> QED
      BY <1>12, <1>17, <2>1, <2>2
  <1>18. ListsOK(home, budget', l, g)
    <2>1. \A s \in Range(f.tried) : Charged(budget', s)
      BY <1>2, <1>16 DEF ListsOK, Charged, Grows
    <2>2. g.next \in 1 .. Len(g.planned) + 1
      BY <1>12, <1>14, <1>15
    <2> QED
      BY <1>2, <1>12, <1>14, <1>17, <2>1, <2>2 DEF ListsOK
  <1>19. ReadsOK(home, budget', resolved', g)
    <2>1. \A e \in Range(home.caller) : Names(g.planned, e)
      BY <1>8, <1>13, <1>14
    <2>2. Range(home.caller) \subseteq budget'.dialled
      BY <1>1, <1>8
    <2>3. budget'.spent["node_witness"] < Reserved =>
            \A i \in DOMAIN wits : \A e \in Range(resolved'[wits[i]].endpoints) : Names(g.planned, e)
      BY <1>1, <1>5, <1>9, <1>13, <1>14
    <2> QED
      BY <1>5, <2>1, <2>2, <2>3 DEF ReadsOK, wits
  <1>20. OutcomeOK(g)
    BY <1>14, <1>15 DEF OutcomeOK
  <1>21. CallersDialled(home', budget')
    BY <1>1, <1>8 DEF CallersDialled
  <1>22. DOMAIN fetch' = Ledgers /\ fetch'[l] = g /\ \A m \in Ledgers \ {l} : fetch'[m] = fetch[m]
    BY <1>1, <1>2
  <1>23. home' = home /\ expired' \in BOOLEAN
    BY <1>1, <1>2
  <1>24. /\ ListsOK(home', budget', l, fetch'[l])
         /\ ReadsOK(home', budget', resolved', fetch'[l]) /\ OutcomeOK(fetch'[l])
    BY <1>18, <1>19, <1>20, <1>22, <1>23
  <1> QED
    BY <1>6, <1>16, <1>21, <1>22, <1>23, <1>24, OneFetchSteps

\* A copy that verifies names further sources, none of which is the caller's.
LEMMA ReadCopyOK ==
    ASSUME IInv, NEW l \in Ledgers, ReadCopy(l)
    PROVE  IInv'
  <1> DEFINE f == fetch[l]
             s == f.planned[f.next]
  <1>1. PICK chain \in Answers(l, s) \cap Branches[l] :
           \E plan \in {Plan(f.planned, budget, ChainNamedSources(home.names[chain]))} :
              /\ fetch' = [fetch EXCEPT ![l] =
                     [Asked(l, s, f) EXCEPT
                         !.copies = Append(@, [source |-> s, chain |-> chain]),
                         !.planned = @ \o plan.planned]]
              /\ budget' = plan.budget
              /\ resolved' = Remember(Range(home.names[chain].witnesses))
    BY DEF ReadCopy
  <1> DEFINE names == home.names[chain]
             r == Plan(f.planned, budget, ChainNamedSources(names))
             d == Asked(l, s, f)
             x == [source |-> s, chain |-> chain]
             g == [d EXCEPT !.copies = Append(d.copies, x), !.planned = d.planned \o r.planned]
             k == WithCopy(l, f, chain)
  <1>2. /\ fetch' = [fetch EXCEPT ![l] = g] /\ budget' = r.budget
        /\ resolved' = Remember(Range(names.witnesses))
    BY <1>1
  <1>3. /\ f.at = "read" /\ f.next <= Len(f.planned) /\ UNCHANGED <<home, peers, expired>>
    BY DEF ReadCopy, More
  <1>4. chain \in Branches[l] /\ chain \in Chains
    BY <1>1 DEF Chains
  <1>5. /\ ListsOK(home, budget, l, f) /\ OutcomeOK(f) /\ expired \in BOOLEAN
        /\ ReadsOK(home, budget, resolved, f)
        /\ StoreOK /\ BudgetOK(budget) /\ DOMAIN fetch = Ledgers /\ home \in Homes
    BY OfFetch
  <1>6. k = [d EXCEPT !.copies = Append(d.copies, x)]
    BY DEF WithCopy
  <1> HIDE DEF f
  <1>7. /\ ListsOK(home, budget, l, k) /\ k.planned = f.planned /\ k.at = f.at
        /\ k.outcome = f.outcome /\ k.next = f.next + 1 /\ DOMAIN k = DOMAIN Unplanned
    <2>1. f.next <= Len(f.planned) /\ ListsOK(home, budget, l, f)
      BY <1>3, <1>5
    <2> QED
      BY <1>4, <2>1, CopyFacts
  <1>8. DOMAIN d = DOMAIN Unplanned /\ d.planned = f.planned
    <2>1. f.next <= Len(f.planned) /\ ListsOK(home, budget, l, f)
      BY <1>3, <1>5
    <2> HIDE DEF s, d
    <2>2. s = f.planned[f.next] /\ d = Asked(l, s, f)
      BY DEF s, d
    <2> QED
      BY <2>1, <2>2, AskedFacts
  <1>9. Range(names.witnesses) \subseteq Witnesses
    <2>1. names.witnesses \in Seq(Witnesses)
      BY <1>4, <1>5, HomeAssumption
    <2> HIDE DEF names
    <2> QED
      BY <2>1, OwnElements
  <1>10. StoreOK' /\ Learns(resolved, resolved') /\ CallerHintsAreNeverKept'
    BY <1>2, <1>3, <1>9, StoreResolved
  <1>11. f.planned \in Seq(Mine) /\ f.planned \in Seq(Sources)
    <2>1. f.planned \in Seq(Mine)
      BY <1>5 DEF ListsOK
    <2> QED
      BY <2>1, MineFacts
  <1>12. /\ PlanOK(r, f.planned) /\ budget.dialled \subseteq r.budget.dialled
         /\ \A c \in Classes : budget.spent[c] <= r.budget.spent[c]
    <2>1. ChainNamedSources(names) \in Seq(Dials)
      BY <1>4, <1>5, ChainNamedList
    <2> HIDE DEF names
    <2> QED
      BY <1>5, <1>11, <2>1, PlanResult
  <1> HIDE DEF s, d, x, k, r, names
  <1>13. /\ g.planned = k.planned \o r.planned /\ g.at = k.at /\ g.copies = k.copies
         /\ g.next = k.next /\ g.tried = k.tried /\ g.failed = k.failed /\ g.outcome = k.outcome
         /\ DOMAIN g = DOMAIN Unplanned
    BY <1>6, <1>7, <1>8 DEF Unplanned
  <1> HIDE DEF g
  <1>14. Grows(budget, budget')
    <2>1. BudgetOK(r.budget) /\ "node_witness" \in Classes
      BY <1>12 DEF PlanOK, Classes
    <2> QED
      BY <1>2, <1>5, <1>12, <2>1 DEF Grows
  <1>15. r.planned \in Seq(Mine)
    <2>1. r.planned \in Seq(Dials)
      BY <1>12 DEF PlanOK
    <2> QED
      BY <2>1, MineFacts
  <1>16. /\ g.planned \in Seq(Mine) /\ Len(g.planned) = Len(f.planned) + Len(r.planned)
         /\ Range(g.planned) = Range(f.planned) \cup Range(r.planned)
    BY <1>7, <1>11, <1>13, <1>15, ConcatRange
  <1>17. \A e : Names(f.planned, e) => Names(g.planned, e)
    BY <1>7, <1>11, <1>13, <1>15, NamesConcat
  <1>18. ListsOK(home, budget', l, f) /\ ReadsOK(home, budget', resolved', f)
    BY <1>5, <1>10, <1>14, KeepFetch
  <1>19. ListsOK(home, budget', l, k)
    BY <1>7, <1>14 DEF ListsOK, Charged, Grows
  <1>20. ASSUME NEW y \in Range(g.planned)
         PROVE  Charged(budget', y) /\ Vouched(home, l, y)
    <2>1. CASE y \in Range(f.planned)
      BY <1>18, <2>1 DEF ListsOK
    <2>2. CASE y \in Range(r.planned)
      <3>1. y.endpoint \in r.budget.dialled /\ ~Names(f.planned, y.endpoint)
        BY <1>12, <2>2 DEF PlanOK
      <3>2. \A e \in Range(home.caller) : Names(f.planned, e)
        BY <1>3, <1>5 DEF ReadsOK
      <3>3. y.endpoint \notin Range(home.caller)
        BY <3>1, <3>2
      <3> QED
        BY <1>2, <3>1, <3>3 DEF Charged, Vouched
    <2> QED
      BY <1>16, <1>20, <2>1, <2>2
  <1>21. g.next \in 1 .. Len(g.planned) + 1
    <2>1. f.next \in 1 .. Len(f.planned) + 1 /\ Len(f.planned) \in Nat /\ Len(r.planned) \in Nat
      BY <1>5, <1>11, <1>15 DEF ListsOK
    <2>2. g.next = f.next + 1
      BY <1>7, <1>13
    <2> DEFINE n == f.next
               a == Len(f.planned)
               b == Len(r.planned)
    <2>3. n \in 1 .. a + 1 /\ a \in Nat /\ b \in Nat /\ n <= a
      BY <1>3, <2>1
    <2>4. Len(g.planned) = a + b
      BY <1>16
    <2> HIDE DEF n, a, b
    <2>5. n + 1 \in 1 .. (a + b) + 1
      BY <2>3
    <2> QED
      BY <2>2, <2>4, <2>5 DEF n
  <1>22. ListsOK(home, budget', l, g)
    BY <1>13, <1>16, <1>19, <1>20, <1>21 DEF ListsOK
  <1>23. ReadsOK(home, budget', resolved', g)
    BY <1>3, <1>17, <1>18 DEF ReadsOK
  <1>24. OutcomeOK(g)
    BY <1>3, <1>5, <1>7, <1>13 DEF OutcomeOK
  <1>25. CallersDialled(home', budget')
    BY <1>3, <1>18 DEF CallersDialled, ReadsOK
  <1>26. DOMAIN fetch' = Ledgers /\ fetch'[l] = g /\ \A m \in Ledgers \ {l} : fetch'[m] = fetch[m]
    BY <1>2, <1>5
  <1>27. home' = home /\ expired' \in BOOLEAN
    BY <1>3, <1>5
  <1>28. /\ ListsOK(home', budget', l, fetch'[l])
         /\ ReadsOK(home', budget', resolved', fetch'[l]) /\ OutcomeOK(fetch'[l])
    BY <1>22, <1>23, <1>24, <1>26, <1>27
  <1> QED
    BY <1>10, <1>14, <1>25, <1>26, <1>27, <1>28, OneFetchSteps

\* The zone's endpoints are charged too, and the zone vouches for them.
LEMMA DnsSourcesOK ==
    ASSUME IInv, NEW l \in Ledgers, DnsSources(l)
    PROVE  IInv'
  <1> DEFINE f == fetch[l]
  <1>1. PICK found \in {<<>>, home.zone[l]} :
           \E plan \in {Plan(<<>>, budget, As("dns", found))} :
              /\ fetch' = [fetch EXCEPT ![l].at = "dns_read", ![l].next = 1,
                                        ![l].planned = plan.planned]
              /\ budget' = plan.budget
    BY DEF DnsSources
  <1> DEFINE r == Plan(<<>>, budget, As("dns", found))
             g == [f EXCEPT !.at = "dns_read", !.next = 1, !.planned = r.planned]
  <1>2. fetch' = [fetch EXCEPT ![l] = g] /\ budget' = r.budget
    BY <1>1
  <1>3. f.at = "read" /\ UNCHANGED <<home, peers, resolved, expired>>
    BY DEF DnsSources
  <1>4. /\ ListsOK(home, budget, l, f) /\ OutcomeOK(f) /\ expired \in BOOLEAN
        /\ ReadsOK(home, budget, resolved, f)
        /\ StoreOK /\ BudgetOK(budget) /\ DOMAIN fetch = Ledgers /\ home \in Homes
    BY OfFetch
  <1>5. found \in Seq(Endpoints) /\ Range(found) \subseteq Range(home.zone[l])
    <2>1. home.zone[l] \in Seq(Endpoints) /\ <<>> \in Seq(Endpoints) /\ Range(<<>>) = {}
      BY <1>4, HomeAssumption DEF Range
    <2> QED
      BY <1>1, <2>1
  <1>6. /\ As("dns", found) \in Seq(Dials)
        /\ \A x \in Range(As("dns", found)) : x.endpoint \in Range(found)
    <2>1. "dns" \in Kinds \ {"local"}
      BY DEF Kinds
    <2> QED
      BY <1>5, <2>1, AsFacts
  <1>7. /\ PlanOK(r, <<>>) /\ budget.dialled \subseteq r.budget.dialled
        /\ \A c \in Classes : budget.spent[c] <= r.budget.spent[c]
        /\ Range(r.planned) \subseteq Range(As("dns", found))
    <2>1. <<>> \in Seq(Sources)
      OBVIOUS
    <2> QED
      BY <1>4, <1>6, <2>1, PlanResult
  <1> HIDE DEF f, r
  <1>8. /\ g.at = "dns_read" /\ g.next = 1 /\ g.planned = r.planned /\ g.copies = f.copies
        /\ g.tried = f.tried /\ g.failed = f.failed /\ g.outcome = f.outcome
        /\ DOMAIN g = DOMAIN Unplanned
    BY <1>4 DEF ListsOK, Unplanned
  <1> HIDE DEF g
  <1>9. Grows(budget, budget')
    <2>1. BudgetOK(r.budget) /\ "node_witness" \in Classes
      BY <1>7 DEF PlanOK, Classes
    <2> QED
      BY <1>2, <1>4, <1>7, <2>1 DEF Grows
  <1>10. g.planned \in Seq(Mine) /\ g.next \in 1 .. Len(g.planned) + 1
    <2>1. r.planned \in Seq(Dials)
      BY <1>7 DEF PlanOK
    <2>2. r.planned \in Seq(Mine)
      BY <2>1, MineFacts
    <2>3. Len(r.planned) \in Nat
      BY <2>2
    <2> QED
      BY <1>8, <2>2, <2>3
  <1>11. \A s \in Range(g.planned) : Charged(budget', s) /\ Vouched(home, l, s)
    <2>1. ASSUME NEW s \in Range(r.planned)
          PROVE  s.endpoint \in r.budget.dialled /\ s.endpoint \in Range(home.zone[l])
      BY <1>5, <1>6, <1>7 DEF PlanOK
    <2> QED
      BY <1>2, <1>8, <2>1 DEF Charged, Vouched
  <1>12. ListsOK(home, budget', l, g)
    <2>1. \A s \in Range(f.tried) : Charged(budget', s)
      BY <1>4, <1>9 DEF ListsOK, Charged, Grows
    <2> QED
      BY <1>4, <1>8, <1>10, <1>11, <2>1 DEF ListsOK
  <1>13. ReadsOK(home, budget', resolved', g) /\ OutcomeOK(g)
    BY <1>3, <1>4, <1>8 DEF ReadsOK, OutcomeOK
  <1>14. CallersDialled(home', budget')
    BY <1>3, <1>4, <1>9 DEF CallersDialled, ReadsOK, Grows
  <1>15. DOMAIN fetch' = Ledgers /\ fetch'[l] = g /\ \A m \in Ledgers \ {l} : fetch'[m] = fetch[m]
    BY <1>2, <1>4
  <1>16. home' = home /\ expired' \in BOOLEAN /\ Learns(resolved, resolved')
    BY <1>3, <1>4 DEF Learns
  <1>17. StoreOK' /\ CallerHintsAreNeverKept'
    BY <1>3, StoreKept
  <1>18. /\ ListsOK(home', budget', l, fetch'[l])
         /\ ReadsOK(home', budget', resolved', fetch'[l]) /\ OutcomeOK(fetch'[l])
    BY <1>12, <1>13, <1>15, <1>16
  <1> QED
    BY <1>9, <1>14, <1>15, <1>16, <1>17, <1>18, OneFetchSteps

\* What is concluded is supported, and only what may be recorded is.
LEMMA ConcludeOK ==
    ASSUME IInv, NEW l \in Ledgers, Conclude(l)
    PROVE  IInv'
  <1> DEFINE f == fetch[l]
             o == Decide(f)
             g == [f EXCEPT !.at = "done", !.outcome = o]
             t == RecordHints(peers[l], f, o)
  <1>1. /\ fetch' = [fetch EXCEPT ![l] = g] /\ peers' = [peers EXCEPT ![l] = t]
        /\ UNCHANGED <<home, budget, resolved, expired>>
    BY DEF Conclude
  <1>2. /\ ListsOK(home, budget, l, f) /\ expired \in BOOLEAN
        /\ StoreOK /\ BudgetOK(budget) /\ DOMAIN fetch = Ledgers /\ home \in Homes
        /\ CallerHintsAreNeverKept
    BY OfFetch
  <1> HIDE DEF f
  <1>3. f.copies \in Seq(Copies) /\ f.failed \in Seq(Endpoints)
        /\ \A c \in Range(f.copies) : Vouched(home, l, c.source)
    BY <1>2 DEF ListsOK
  <1>4. /\ Supported(f, o) /\ o.status # "pending"
        /\ o.source = NoSource \/ \E c \in Range(f.copies) : o.source = c.source
    BY <1>3, DecideFacts
  <1>5. l \in DOMAIN peers
    BY <1>2, HomeAssumption DEF StoreOK
  <1>6. Capped(peers[l])
    BY <1>2, <1>5 DEF StoreOK, Capped
  <1> DEFINE served == o.source # NoSource /\ MayRecordHint(o.source.kind)
  <1> HIDE DEF o
  <1>7. served => o.source.endpoint \in Endpoints /\ Vouched(home, l, o.source)
    <2> SUFFICES ASSUME served
                 PROVE  o.source.endpoint \in Endpoints /\ Vouched(home, l, o.source)
      OBVIOUS
    <2>1. PICK c \in Range(f.copies) : o.source = c.source
      BY <1>4
    <2>2. c \in Copies
      BY <1>3, <2>1, OwnElements
    <2>3. c.source \in Mine
      BY <2>2 DEF Copies
    <2>4. c.source.kind # "local"
      BY <2>1 DEF MayRecordHint
    <2>5. c.source \in Dials
      BY <2>3, <2>4, MineFacts
    <2>6. c.source.endpoint \in Endpoints
      BY <2>5 DEF Dials
    <2> QED
      BY <1>3, <2>1, <2>6
  <1>8. /\ Capped(t)
        /\ \A e : Holds(t, e) => Holds(peers[l], e) \/ (served /\ e = o.source.endpoint)
    <2>1. Len(f.failed) \in Nat
      BY <1>3
    <2>2. o.source # NoSource /\ MayRecordHint(o.source.kind) => o.source.endpoint \in Endpoints
      BY <1>7
    <2>3. /\ Capped(t)
          /\ \A e : Holds(t, e) =>
                \/ Holds(peers[l], e)
                \/ o.source # NoSource /\ MayRecordHint(o.source.kind) /\ e = o.source.endpoint
      BY <1>6, <2>1, <2>2, RecordHintsFacts
    <2> HIDE DEF t
    <2> QED
      BY <2>3
  <1> HIDE DEF t, served
  <1>9. peers'[l] = t /\ DOMAIN peers' = DOMAIN peers /\ \A m \in DOMAIN peers : m # l => peers'[m] = peers[m]
    BY <1>1, <1>5
  <1>10. StoreOK'
    <2>1. \A m \in DOMAIN peers' : peers'[m] \in Seq(Hints) /\ Len(peers'[m]) <= MaxHints
      BY <1>2, <1>8, <1>9 DEF StoreOK, Capped
    <2> QED
      BY <1>1, <1>2, <1>9, <2>1 DEF StoreOK
  <1>11. CallerHintsAreNeverKept'
    <2>1. ASSUME NEW m \in Ledgers, NEW e \in Range(home.caller), Holds(peers'[m], e)
          PROVE  Holds(home.peers[m], e) \/ e \in Range(home.zone[m])
      <3>1. CASE Holds(peers[m], e)
        BY <1>2, <3>1 DEF CallerHintsAreNeverKept
      <3>2. CASE ~Holds(peers[m], e)
        <4>1. m \in DOMAIN peers
          BY <1>2, HomeAssumption DEF StoreOK
        <4>2. m = l
          BY <1>9, <2>1, <3>2, <4>1
        <4>3. served /\ e = o.source.endpoint
          BY <1>8, <1>9, <2>1, <3>2, <4>2
        <4>4. Vouched(home, l, o.source) /\ MayRecordHint(o.source.kind)
          BY <1>7, <4>3 DEF served
        <4> QED
          BY <4>2, <4>3, <4>4 DEF Vouched
      <3> QED
        BY <3>1, <3>2
    <2>2. home' = home
      BY <1>1
    <2> QED
      BY <2>1, <2>2 DEF CallerHintsAreNeverKept
  <1>12. /\ g.at = "done" /\ g.outcome = o /\ g.planned = f.planned
         /\ g.next = f.next /\ g.tried = f.tried /\ g.copies = f.copies /\ g.failed = f.failed
         /\ DOMAIN g = DOMAIN Unplanned
    BY <1>2 DEF ListsOK, Unplanned
  <1> HIDE DEF g
  <1>13. ListsOK(home, budget, l, g) /\ ReadsOK(home, budget, resolved, g)
    BY <1>2, <1>12 DEF ListsOK, ReadsOK
  <1>14. OutcomeOK(g)
    <2>1. Supported(g, o)
      BY <1>4, <1>12 DEF Supported
    <2> QED
      BY <1>4, <1>12, <2>1 DEF OutcomeOK
  <1>15. DOMAIN fetch' = Ledgers /\ fetch'[l] = g /\ \A m \in Ledgers \ {l} : fetch'[m] = fetch[m]
    BY <1>1, <1>2
  <1>16. /\ Grows(budget, budget') /\ Learns(resolved, resolved')
         /\ CallersDialled(home', budget') /\ home' = home
    BY <1>1, SharedKept
  <1>17. /\ ListsOK(home', budget', l, fetch'[l])
         /\ ReadsOK(home', budget', resolved', fetch'[l]) /\ OutcomeOK(fetch'[l])
    BY <1>1, <1>13, <1>14, <1>15
  <1>18. expired' \in BOOLEAN
    BY <1>1, <1>2
  <1> QED
    BY <1>10, <1>11, <1>15, <1>16, <1>17, <1>18, OneFetchSteps

\* The deadline only stops the asking.
LEMMA ExpireOK ==
    ASSUME IInv, Expire
    PROVE  IInv'
  <1>1. StoreOK' /\ CallerHintsAreNeverKept'
    BY StoreKept DEF Expire
  <1>2. expired' \in BOOLEAN /\ UNCHANGED <<home, budget, resolved, fetch>>
    BY DEF Expire
  <1> QED
    BY <1>1, <1>2 DEF IInv

-----------------------------------------------------------------------------
(* The theorems.                                                           *)

\* Every step keeps the invariant.
LEMMA NextOK == IInv /\ [Next]_vars => IInv'
  <1> SUFFICES ASSUME IInv, [Next]_vars
               PROVE  IInv'
    OBVIOUS
  <1>1. CASE UNCHANGED vars
    <2>1. UNCHANGED <<home, peers, budget, resolved, expired, fetch>>
      BY <1>1 DEF vars
    <2>2. StoreOK' /\ CallerHintsAreNeverKept'
      BY <2>1, StoreKept
    <2> QED
      BY <2>1, <2>2 DEF IInv
  <1>2. ASSUME NEW l \in Ledgers, Step(l)
        PROVE  IInv'
    BY <1>2, PlanSourcesOK, PlanFailsOK, ReadNothingOK, ReadBrokenOK, ReadCopyOK, ReadDnsCopyOK,
       DnsSourcesOK, ConcludeOK DEF Step
  <1>3. CASE Expire
    BY <1>3, ExpireOK
  <1> QED
    BY <1>1, <1>2, <1>3 DEF Next

\* The invariant says what is meant by a fair budget.
LEMMA BudgetFollows == IInv => BudgetIsFair
  <1> SUFFICES ASSUME IInv
               PROVE  BudgetIsFair
    OBVIOUS
  <1>1. BudgetOK(budget)
    BY DEF IInv
  <1>2. Cardinality(budget.dialled) <= MaxDials
    <2>1. Cardinality(budget.dialled) \in Nat /\ Owed(budget) \in Nat /\ MaxDials \in Nat
      BY <1>1, BudgetNumbers
    <2>2. Cardinality(budget.dialled) + Owed(budget) <= MaxDials
      BY <1>1 DEF BudgetOK
    <2> DEFINE n == Cardinality(budget.dialled)
    <2> HIDE DEF n
    <2>3. n \in Nat /\ n + Owed(budget) <= MaxDials
      BY <2>1, <2>2 DEF n
    <2>4. n <= MaxDials
      BY <2>1, <2>3
    <2> QED
      BY <2>4 DEF n
  <1>3. ASSUME NEW l \in Ledgers, NEW s \in Range(fetch[l].tried), s.endpoint # NoEndpoint
        PROVE  s.endpoint \in budget.dialled
    <2>1. ListsOK(home, budget, l, fetch[l])
      BY OfFetch
    <2>2. fetch[l].tried \in Seq(Mine) /\ Charged(budget, s)
      BY <1>3, <2>1 DEF ListsOK
    <2>3. s \in Mine
      BY <1>3, <2>2, OwnElements
    <2>4. s \in Dials
      BY <1>3, <2>3 DEF Mine, Source
    <2> QED
      BY <2>2, <2>4 DEF Charged
  <1>4. AllAsked \ {NoEndpoint} \subseteq budget.dialled
    BY <1>3 DEF AllAsked
  <1>5. WitnessesAreNotStarved
    <2> SUFFICES ASSUME budget.spent["node_witness"] < Reserved, NEW l \in Ledgers,
                        fetch[l].at = "read", NEW i \in DOMAIN home.witnesses,
                        NEW e \in Range(WitnessEndpoints(home.witnesses[i]))
                 PROVE  Names(fetch[l].planned, e)
      BY DEF WitnessesAreNotStarved
    <2>1. ReadsOK(home, budget, resolved, fetch[l])
      BY OfFetch
    <2>2. /\ resolved[home.witnesses[i]].known
          /\ \A x \in Range(resolved[home.witnesses[i]].endpoints) : Names(fetch[l].planned, x)
      BY <2>1 DEF ReadsOK
    <2>3. WitnessEndpoints(home.witnesses[i]) = resolved[home.witnesses[i]].endpoints
      BY <2>2 DEF WitnessEndpoints
    <2> QED
      BY <2>2, <2>3
  <1> QED
    BY <1>2, <1>4, <1>5 DEF BudgetIsFair, DialsStayWithinBudget

\* The invariant says what supports what is kept.
LEMMA SupportFollows == IInv => WhatIsKeptIsSupported
  <1> SUFFICES ASSUME IInv
               PROVE  WhatIsKeptIsSupported
    OBVIOUS
  <1>1. ASSUME NEW l \in Ledgers
        PROVE  /\ fetch[l].at \in {"plan", "read", "dns_read", "done"}
               /\ Range(fetch[l].planned) \subseteq Sources /\ Range(fetch[l].tried) \subseteq Sources
               /\ fetch[l].next \in 1 .. (Len(fetch[l].planned) + 1)
               /\ (fetch[l].at = "done") <=> (fetch[l].outcome.status # "pending")
    <2>1. ListsOK(home, budget, l, fetch[l]) /\ OutcomeOK(fetch[l])
      BY OfFetch
    <2>2. fetch[l].planned \in Seq(Mine) /\ fetch[l].tried \in Seq(Mine)
          /\ fetch[l].next \in 1 .. (Len(fetch[l].planned) + 1)
      BY <2>1 DEF ListsOK
    <2>3. Range(fetch[l].planned) \subseteq Sources /\ Range(fetch[l].tried) \subseteq Sources
      BY <2>2, OwnElements, MineFacts
    <2>4. Pending.status = "pending"
      BY DEF Pending
    <2>5. (fetch[l].at = "done") <=> (fetch[l].outcome.status # "pending")
      BY <2>1, <2>4 DEF OutcomeOK
    <2> QED
      BY <2>1, <2>2, <2>3, <2>5 DEF OutcomeOK
  <1>2. home \in Homes /\ \A l \in DOMAIN peers : Len(peers[l]) <= MaxHints
    BY DEF IInv, StoreOK
  <1>3. budget.dialled \subseteq Endpoints /\ budget.spent \in [Classes -> Nat] /\ expired \in BOOLEAN
    BY DEF IInv, BudgetOK
  <1>4. TypeOK
    BY <1>1, <1>2, <1>3 DEF TypeOK
  <1>5. ASSUME NEW l \in Ledgers, fetch[l].at = "done"
        PROVE  Supported(fetch[l], fetch[l].outcome)
    <2>1. OutcomeOK(fetch[l])
      BY OfFetch
    <2> QED
      BY <1>5, <2>1 DEF OutcomeOK
  <1>6. OutcomeIsSupported
    BY <1>5 DEF OutcomeIsSupported, Supported
  <1>7. CallerHintsAreNeverKept
    BY DEF IInv
  <1> QED
    BY <1>4, <1>6, <1>7 DEF WhatIsKeptIsSupported

\* The invariant of the operation, whatever the sources answer and however the
\* fetches interleave.
THEOREM InvariantTheorem == Spec => []IInv
  BY InitOK, NextOK, PTL DEF Spec

\* However many fetches share an operation, in whatever order they plan and
\* ask, and whatever the copies and the zones name, the endpoints dialled stay
\* within its ration and the configured witnesses get their part of it
\* (DialBudget::admit, DialBudget::ceiling).
THEOREM BudgetTheorem == Spec => []BudgetIsFair
  BY InvariantTheorem, BudgetFollows, PTL

\* Whatever the sources answer, a finished fetch reports what its copies
\* support, and peers.json is within its cap and holds no endpoint on the
\* caller's word (decide, record_hints, FetchSource::may_record_hint).
THEOREM SupportTheorem == Spec => []WhatIsKeptIsSupported
  BY InvariantTheorem, SupportFollows, PTL

=============================================================================
