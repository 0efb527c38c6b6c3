--------------------------- MODULE SequenceFacts ----------------------------
(***************************************************************************)
(* Facts about prefixes of sequences, and about sums, that the proofs      *)
(* about chains share.                                                     *)
(* A chain is a sequence of events; the code compares two chains event by  *)
(* event from the front (shared_prefix of wallet/sync.rs, the loop of      *)
(* store_chain in ledger.rs), and IsPrefix says where that ends.           *)
(***************************************************************************)
EXTENDS Integers, Sequences, SequencesExt, SequenceTheorems, FiniteSetTheorems,
        WellFoundedInduction, TLAPS

\* A nonempty set of naturals has a least element.  Stated for sets, it gives
\* induction over the naturals without an operator parameter.
LEMMA LeastNatural ==
    ASSUME NEW T, T \subseteq Nat, T # {}
    PROVE  \E x \in T : \A y \in T : x <= y
  <1> DEFINE R == {ss \in Nat \X Nat : ss[1] < ss[2]}
  <1>1. IsWellFoundedOn(R, Nat)
    BY NatLessThanWellFounded DEF OpToRel
  <1>2. \A x, y \in Nat : <<y, x>> \in R <=> y < x
    OBVIOUS
  <1> HIDE DEF R
  <1>3. PICK x \in T : \A y \in T : ~(<<y, x>> \in R)
    BY <1>1, WFMin
  <1>4. ASSUME NEW y \in T
        PROVE  x <= y
    <2>1. x \in Nat /\ y \in Nat /\ ~(y < x)
      BY <1>2, <1>3
    <2> QED
      BY <2>1
  <1> QED
    BY <1>4

\* A nonempty bounded set of naturals has a greatest element.
LEMMA GreatestNatural ==
    ASSUME NEW T, T \subseteq Nat, T # {}, NEW n \in Nat, \A x \in T : x <= n
    PROVE  \E x \in T : \A y \in T : y <= x
  <1> DEFINE U == {n - x : x \in T}
  <1>1. U \subseteq Nat /\ U # {}
    <2>1. \A x \in T : x \in Nat /\ n - x \in Nat
      OBVIOUS
    <2> QED
      BY <2>1
  <1>2. PICK u \in U : \A v \in U : u <= v
    BY <1>1, LeastNatural
  <1>3. PICK x \in T : u = n - x
    BY <1>2
  <1>4. \A y \in T : n - y \in U
    OBVIOUS
  <1>5. \A y \in T : y <= x
    BY <1>2, <1>3, <1>4
  <1> QED
    BY <1>5

-----------------------------------------------------------------------------
(* Prefixes.                                                               *)

\* A prefix, element by element.
LEMMA PrefixByElement ==
    ASSUME NEW S, NEW c \in Seq(S), NEW d \in Seq(S)
    PROVE  IsPrefix(c, d) <=> Len(c) <= Len(d) /\ \A k \in 1..Len(c) : c[k] = d[k]
  <1>1. ASSUME Len(c) <= Len(d)
        PROVE  /\ SubSeq(c, 1, Len(c)) = [k \in 1..Len(c) |-> c[k]]
               /\ SubSeq(d, 1, Len(c)) = [k \in 1..Len(c) |-> d[k]]
    BY <1>1
  <1>2. ASSUME IsPrefix(c, d), NEW k \in 1..Len(c)
        PROVE  c[k] = d[k]
    BY <1>1, <1>2 DEF IsPrefix
  <1> QED
    BY <1>1, <1>2 DEF IsPrefix

\* Every sequence is a prefix of itself.
LEMMA PrefixOfItself ==
    ASSUME NEW S, NEW c \in Seq(S)
    PROVE  IsPrefix(c, c)
  BY PrefixByElement

\* A prefix of a prefix is a prefix.
LEMMA PrefixTransitive ==
    ASSUME NEW S, NEW c \in Seq(S), NEW d \in Seq(S), NEW e \in Seq(S),
           IsPrefix(c, d), IsPrefix(d, e)
    PROVE  IsPrefix(c, e)
  <1>1. /\ Len(c) <= Len(d) /\ \A k \in 1..Len(c) : c[k] = d[k]
        /\ Len(d) <= Len(e) /\ \A k \in 1..Len(d) : d[k] = e[k]
    BY PrefixByElement
  <1>2. Len(c) <= Len(e) /\ \A k \in 1..Len(c) : c[k] = e[k]
    BY <1>1
  <1> QED
    BY <1>2, PrefixByElement

\* A prefix of a sequence is a prefix of that sequence with one element more.
LEMMA PrefixOfAppend ==
    ASSUME NEW S, NEW c \in Seq(S), NEW x \in S
    PROVE  IsPrefix(c, Append(c, x))
  <1>1. /\ Append(c, x) \in Seq(S) /\ Len(c) <= Len(Append(c, x))
        /\ \A k \in 1..Len(c) : c[k] = Append(c, x)[k]
    OBVIOUS
  <1> QED
    BY <1>1, PrefixByElement

\* Two prefixes of one chain are prefixes of each other.
LEMMA PrefixesAreOrdered ==
    ASSUME NEW S, NEW c \in Seq(S), NEW d \in Seq(S), NEW e \in Seq(S),
           IsPrefix(c, e), IsPrefix(d, e), Len(c) <= Len(d)
    PROVE  IsPrefix(c, d)
  <1>1. /\ \A k \in 1..Len(c) : c[k] = e[k]
        /\ \A k \in 1..Len(d) : d[k] = e[k]
    BY PrefixByElement
  <1>2. \A k \in 1..Len(c) : c[k] = d[k]
    BY <1>1
  <1> QED
    BY <1>2, PrefixByElement

\* Prefixes of each other are the same chain.
LEMMA PrefixAntisymmetric ==
    ASSUME NEW S, NEW c \in Seq(S), NEW d \in Seq(S), IsPrefix(c, d), IsPrefix(d, c)
    PROVE  c = d
  <1>1. Len(c) = Len(d) /\ \A k \in 1..Len(c) : c[k] = d[k]
    BY PrefixByElement
  <1> QED
    BY <1>1, SeqEqual

\* The empty chain is a prefix of every chain.
LEMMA EmptyPrefix ==
    ASSUME NEW S, NEW c \in Seq(S)
    PROVE  IsPrefix(<<>>, c)
  <1> DEFINE none == <<>>
  <1>1. none \in Seq(S) /\ Len(none) = 0 /\ Len(c) \in Nat
    OBVIOUS
  <1> HIDE DEF none
  <1>2. Len(none) <= Len(c) /\ \A k \in 1..Len(none) : none[k] = c[k]
    BY <1>1
  <1>3. IsPrefix(none, c)
    BY <1>1, <1>2, PrefixByElement
  <1> QED
    BY <1>3 DEF none

\* A prefix is what SubSeq cuts off the front.
LEMMA PrefixIsSubSeq ==
    ASSUME NEW S, NEW c \in Seq(S), NEW n \in 0..Len(c)
    PROVE  /\ SubSeq(c, 1, n) \in Seq(S) /\ Len(SubSeq(c, 1, n)) = n
           /\ \A k \in 1..n : SubSeq(c, 1, n)[k] = c[k]
           /\ IsPrefix(SubSeq(c, 1, n), c)
  <1> DEFINE p == SubSeq(c, 1, n)
  <1>1. /\ p \in Seq(S) /\ Len(p) = n /\ n <= Len(c)
        /\ \A k \in 1..n : p[k] = c[k]
    BY SubSeqProperties
  <1> HIDE DEF p
  <1>2. IsPrefix(p, c)
    BY <1>1, PrefixByElement
  <1> QED
    BY <1>1, <1>2 DEF p

\* Prefixes is the set of the prefixes of a sequence.
LEMMA MembersOfPrefixes ==
    ASSUME NEW S, NEW c \in Seq(S), NEW p
    PROVE  p \in Prefixes(c) <=> p \in Seq(S) /\ IsPrefix(p, c)
  <1>1. ASSUME p \in Prefixes(c)
        PROVE  p \in Seq(S) /\ IsPrefix(p, c)
    <2>1. PICK n \in 0..Len(c) : p = SubSeq(c, 1, n)
      BY <1>1 DEF Prefixes
    <2> QED
      BY <2>1, PrefixIsSubSeq
  <1>2. ASSUME p \in Seq(S), IsPrefix(p, c)
        PROVE  p \in Prefixes(c)
    <2> DEFINE n == Len(p)
               q == SubSeq(c, 1, n)
    <2>1. n \in 0..Len(c) /\ \A k \in 1..n : p[k] = c[k]
      BY <1>2, PrefixByElement
    <2>2. q \in Seq(S) /\ Len(q) = n /\ \A k \in 1..n : q[k] = c[k]
      BY <2>1, PrefixIsSubSeq
    <2>3. p = q
      <3> HIDE DEF q
      <3> QED
        BY <1>2, <2>1, <2>2, SeqEqual
    <2> QED
      BY <2>1, <2>3 DEF Prefixes
  <1> QED
    BY <1>1, <1>2

-----------------------------------------------------------------------------
(* The longest common prefix of two chains.                                *)

\* It is a prefix of both, and every prefix of both is a prefix of it.
LEMMA LongestCommon ==
    ASSUME NEW S, NEW c \in Seq(S), NEW d \in Seq(S)
    PROVE  LET l == LongestCommonPrefix({c, d}) IN
           /\ l \in Seq(S) /\ IsPrefix(l, c) /\ IsPrefix(l, d)
           /\ \A p \in Seq(S) : IsPrefix(p, c) /\ IsPrefix(p, d) => IsPrefix(p, l)
  <1> DEFINE C == CommonPrefixes({c, d})
             l == LongestCommonPrefix({c, d})
  <1>1. \A p : p \in C <=> p \in Seq(S) /\ IsPrefix(p, c) /\ IsPrefix(p, d)
    BY MembersOfPrefixes DEF CommonPrefixes
  <1> HIDE DEF C
  <1>2. \E p \in C : \A q \in C : Len(q) <= Len(p)
    <2> DEFINE T == {Len(p) : p \in C}
    <2>1. <<>> \in Seq(S)
      OBVIOUS
    <2>2. <<>> \in C
      BY <1>1, <2>1, EmptyPrefix
    <2>3. ASSUME NEW p \in C
          PROVE  Len(p) \in Nat /\ Len(p) <= Len(c)
      <3>1. p \in Seq(S) /\ IsPrefix(p, c)
        BY <1>1
      <3> QED
        BY <3>1, PrefixByElement
    <2>4. T # {} /\ Len(c) \in Nat
      <3>1. PICK p : p \in C
        BY <2>2
      <3>2. Len(p) \in T
        BY <3>1
      <3>3. Len(c) \in Nat
        OBVIOUS
      <3> QED
        BY <3>2, <3>3
    <2>5. T \subseteq Nat /\ \A x \in T : x <= Len(c)
      BY <2>3
    <2>6. PICK x \in T : \A y \in T : y <= x
      <3> HIDE DEF T
      <3> QED
        BY <2>4, <2>5, GreatestNatural
    <2> QED
      BY <2>6
  <1>3. l \in C /\ \A q \in C : Len(q) <= Len(l)
    BY <1>2 DEF LongestCommonPrefix, C
  <1> HIDE DEF l
  <1>4. l \in Seq(S) /\ IsPrefix(l, c) /\ IsPrefix(l, d)
    BY <1>1, <1>3
  <1>5. ASSUME NEW p \in Seq(S), IsPrefix(p, c), IsPrefix(p, d)
        PROVE  IsPrefix(p, l)
    <2>1. Len(p) <= Len(l)
      BY <1>1, <1>3, <1>5
    <2> QED
      BY <1>4, <1>5, <2>1, PrefixesAreOrdered
  <1> QED
    BY <1>4, <1>5 DEF l

-----------------------------------------------------------------------------
(* Chains that start with one given event.                                 *)

\* One first element, then fewer than m elements of T: how the modules write
\* the chains of a ledger, inception first.
StartingWith(g, T, m) == {<<g>> \o s : s \in UNION {[1..n -> T] : n \in 0..(m - 1)}}

\* Such a chain, element by element.
LEMMA StartingByElement ==
    ASSUME NEW g, NEW T, NEW m \in Nat \ {0}, NEW c \in Seq(T \cup {g})
    PROVE  c \in StartingWith(g, T, m) <=>
              /\ Len(c) \in 1..m /\ c[1] = g
              /\ \A k \in 2..Len(c) : c[k] \in T
  <1>1. ASSUME c \in StartingWith(g, T, m)
        PROVE  /\ Len(c) \in 1..m /\ c[1] = g
               /\ \A k \in 2..Len(c) : c[k] \in T
    <2>1. PICK n \in 0..(m - 1) : \E s \in [1..n -> T] : c = <<g>> \o s
      BY <1>1 DEF StartingWith
    <2>2. PICK s \in [1..n -> T] : c = <<g>> \o s
      BY <2>1
    <2>3. s \in Seq(T) /\ Len(s) = n /\ n \in Nat
      OBVIOUS
    <2>4. /\ Len(c) = 1 + n /\ c[1] = g
          /\ \A k \in 2..(1 + n) : c[k] = s[k - 1]
      BY <2>2, <2>3
    <2> QED
      BY <2>2, <2>3, <2>4
  <1>2. ASSUME Len(c) \in 1..m, c[1] = g, \A k \in 2..Len(c) : c[k] \in T
        PROVE  c \in StartingWith(g, T, m)
    <2> DEFINE n == Len(c) - 1
               s == [k \in 1..n |-> c[k + 1]]
               d == <<g>> \o s
    <2>1. n \in 0..(m - 1) /\ n \in Nat
      BY <1>2
    <2>2. s \in [1..n -> T]
      BY <1>2
    <2>3. s \in Seq(T \cup {g}) /\ Len(s) = n /\ <<g>> \in Seq(T \cup {g}) /\ Len(<<g>>) = 1
      BY <2>1, <2>2
    <2>4. d \in StartingWith(g, T, m)
      BY <2>1, <2>2 DEF StartingWith
    <2>5. /\ d \in Seq(T \cup {g}) /\ Len(d) = Len(c)
          /\ \A k \in 1..Len(c) : d[k] = c[k]
      BY <1>2, <2>1, <2>3
    <2> HIDE DEF d
    <2>6. d = c
      BY <2>5, SeqEqual
    <2> QED
      BY <2>4, <2>6
  <1> QED
    BY <1>1, <1>2

\* Such a chain is a nonempty sequence that keeps its first element.
LEMMA StartingFacts ==
    ASSUME NEW g, NEW T, NEW m \in Nat \ {0}, NEW c \in StartingWith(g, T, m)
    PROVE  /\ c \in Seq(T \cup {g}) /\ Len(c) \in 1..m /\ c[1] = g /\ c # <<>>
           /\ \A k \in 2..Len(c) : c[k] \in T
  <1>1. PICK n \in 0..(m - 1) : \E s \in [1..n -> T] : c = <<g>> \o s
    BY DEF StartingWith
  <1>2. PICK s \in [1..n -> T] : c = <<g>> \o s
    BY <1>1
  <1>3. s \in Seq(T \cup {g}) /\ <<g>> \in Seq(T \cup {g})
    OBVIOUS
  <1>4. c \in Seq(T \cup {g})
    BY <1>2, <1>3
  <1>5. Len(c) \in 1..m /\ c[1] = g /\ \A k \in 2..Len(c) : c[k] \in T
    BY <1>4, StartingByElement
  <1> QED
    BY <1>4, <1>5

\* The first element alone is such a chain, and the empty sequence is none.
LEMMA StartingAlone ==
    ASSUME NEW g, NEW T, NEW m \in Nat \ {0}
    PROVE  <<g>> \in StartingWith(g, T, m) /\ <<>> \notin StartingWith(g, T, m)
  <1> DEFINE c == <<g>>
  <1>1. c \in Seq(T \cup {g}) /\ Len(c) = 1 /\ c[1] = g
    OBVIOUS
  <1> HIDE DEF c
  <1>2. c \in StartingWith(g, T, m)
    <2>1. Len(c) \in 1..m /\ \A k \in 2..Len(c) : c[k] \in T
      BY <1>1
    <2> QED
      BY <1>1, <2>1, StartingByElement
  <1> QED
    BY <1>2, StartingFacts DEF c

\* A nonempty prefix of such a chain is one, of its own length.
LEMMA StartingCut ==
    ASSUME NEW g, NEW T, NEW m \in Nat \ {0}, NEW c \in StartingWith(g, T, m), NEW n \in 1..Len(c)
    PROVE  SubSeq(c, 1, n) \in StartingWith(g, T, m) /\ Len(SubSeq(c, 1, n)) = n
  <1> DEFINE p == SubSeq(c, 1, n)
  <1>1. /\ c \in Seq(T \cup {g}) /\ Len(c) \in 1..m /\ c[1] = g
        /\ \A k \in 2..Len(c) : c[k] \in T
    BY StartingFacts
  <1>2. p \in Seq(T \cup {g}) /\ Len(p) = n /\ \A k \in 1..n : p[k] = c[k]
    BY <1>1, PrefixIsSubSeq
  <1> HIDE DEF p
  <1>3. Len(p) \in 1..m /\ p[1] = g /\ \A k \in 2..Len(p) : p[k] \in T
    BY <1>1, <1>2
  <1> QED
    BY <1>2, <1>3, StartingByElement DEF p

\* Such a chain below the bound can be extended.
LEMMA StartingAppend ==
    ASSUME NEW g, NEW T, NEW m \in Nat \ {0}, NEW c \in StartingWith(g, T, m), Len(c) < m, NEW x \in T
    PROVE  /\ Append(c, x) \in StartingWith(g, T, m) /\ Len(Append(c, x)) = Len(c) + 1
           /\ SubSeq(Append(c, x), 1, Len(c)) = c
  <1> DEFINE d == Append(c, x)
             e == SubSeq(d, 1, Len(c))
  <1>1. /\ c \in Seq(T \cup {g}) /\ Len(c) \in 1..m /\ c[1] = g
        /\ \A k \in 2..Len(c) : c[k] \in T
    BY StartingFacts
  <1>2. /\ d \in Seq(T \cup {g}) /\ Len(d) = Len(c) + 1 /\ d[Len(c) + 1] = x
        /\ \A k \in 1..Len(c) : d[k] = c[k]
    BY <1>1
  <1> HIDE DEF d
  <1>3. Len(d) \in 1..m /\ d[1] = g /\ \A k \in 2..Len(d) : d[k] \in T
    BY <1>1, <1>2
  <1>4. e \in Seq(T \cup {g}) /\ Len(e) = Len(c) /\ \A k \in 1..Len(c) : e[k] = d[k]
    <2>1. Len(c) \in 0..Len(d)
      BY <1>1, <1>2
    <2> QED
      BY <1>2, <2>1, PrefixIsSubSeq
  <1> HIDE DEF e
  <1>5. e = c
    BY <1>1, <1>2, <1>4, SeqEqual
  <1> QED
    BY <1>2, <1>3, <1>5, StartingByElement DEF d, e

\* Cutting twice is cutting once.
LEMMA CutOfCut ==
    ASSUME NEW S, NEW c \in Seq(S), NEW n \in 0..Len(c), NEW k \in 0..n
    PROVE  SubSeq(SubSeq(c, 1, n), 1, k) = SubSeq(c, 1, k)
  <1> DEFINE p == SubSeq(c, 1, n)
             q == SubSeq(p, 1, k)
             r == SubSeq(c, 1, k)
  <1>1. p \in Seq(S) /\ Len(p) = n /\ \A j \in 1..n : p[j] = c[j]
    BY PrefixIsSubSeq
  <1> HIDE DEF p
  <1>2. q \in Seq(S) /\ Len(q) = k /\ \A j \in 1..k : q[j] = p[j]
    BY <1>1, PrefixIsSubSeq
  <1>3. r \in Seq(S) /\ Len(r) = k /\ \A j \in 1..k : r[j] = c[j]
    BY PrefixIsSubSeq
  <1> HIDE DEF q, r
  <1>4. q = r
    BY <1>1, <1>2, <1>3, SeqEqual
  <1> QED
    BY <1>4 DEF p, q, r
-----------------------------------------------------------------------------
(* Sums.  SumFunctionOnSet adds up in an order nobody chooses; these say   *)
(* that the order does not matter.                                         *)

\* The element that is added first.
FirstOf(s) == CHOOSE x \in s : TRUE

\* g gives the sum of f over every subset of S.
AddsUp(f, S, g) ==
    g = [s \in SUBSET S |-> IF s = {} THEN 0 ELSE f[FirstOf(s)] + g[s \ {FirstOf(s)}]]

Sums(f, S) == CHOOSE g : AddsUp(f, S, g)

\* A subset without its first element is smaller.
LEMMA Smaller ==
    ASSUME NEW s, IsFiniteSet(s), s # {}, NEW x \in s
    PROVE  /\ x \in s /\ IsFiniteSet(s \ {x}) /\ Cardinality(s) \in Nat \ {0}
           /\ Cardinality(s \ {x}) = Cardinality(s) - 1 /\ Cardinality(s) - 1 \in Nat
  <1>1. IsFiniteSet(s \ {x}) /\ Cardinality(s \ {x}) = Cardinality(s) - 1
    BY FS_RemoveElement
  <1>2. Cardinality(s) \in Nat /\ Cardinality(s \ {x}) \in Nat
    BY <1>1, FS_CardinalityType
  <1> QED
    BY <1>1, <1>2

\* A finite set has its sums.
LEMMA SumsExist ==
    ASSUME NEW f, NEW S, IsFiniteSet(S)
    PROVE  AddsUp(f, S, Sums(f, S))
  <1> DEFINE Small(n) == {s \in SUBSET S : Cardinality(s) <= n}
             Adds(n, g) == g = [s \in Small(n) |->
                              IF s = {} THEN 0 ELSE f[FirstOf(s)] + g[s \ {FirstOf(s)}]]
             Bad == {n \in Nat : ~\E g : Adds(n, g)}
  <1>1. \A s \in SUBSET S : IsFiniteSet(s) /\ Cardinality(s) \in Nat
    BY FS_Subset, FS_CardinalityType
  <1>2. \A s \in SUBSET S : s # {} => FirstOf(s) \in s
    BY DEF FirstOf
  <1>3. Bad = {}
    <2> SUFFICES ASSUME Bad # {}
                 PROVE  FALSE
      OBVIOUS
    <2>1. PICK k \in Bad : \A n \in Bad : k <= n
      <3>1. Bad \subseteq Nat
        OBVIOUS
      <3> HIDE DEF Bad
      <3> QED
        BY <3>1, LeastNatural
    <2>2. k \in Nat /\ ~\E g : Adds(k, g)
      BY <2>1
    <2>3. CASE k = 0
      <3> DEFINE g == [s \in Small(0) |-> 0]
      <3>1. \A s \in Small(0) : s = {}
        BY <1>1, FS_EmptySet
      <3>2. Adds(0, g)
        BY <3>1
      <3> QED
        BY <2>2, <2>3, <3>2
    <2>4. CASE k # 0
      <3>1. k - 1 \in Nat /\ k - 1 \notin Bad
        <4>1. k - 1 \in Nat /\ ~(k <= k - 1)
          BY <2>2, <2>4
        <4> HIDE DEF Bad
        <4> QED
          BY <2>1, <4>1
      <3>2. PICK g : Adds(k - 1, g)
        BY <3>1
      <3> DEFINE h == [s \in Small(k) |->
                         IF s = {} THEN 0 ELSE f[FirstOf(s)] + g[s \ {FirstOf(s)}]]
      <3>3. ASSUME NEW s \in Small(k), s # {}
            PROVE  s \ {FirstOf(s)} \in Small(k - 1) /\ s \ {FirstOf(s)} \in Small(k)
        <4>1. FirstOf(s) \in s /\ IsFiniteSet(s) /\ Cardinality(s) <= k
          BY <1>1, <1>2, <3>3
        <4>2. Cardinality(s \ {FirstOf(s)}) = Cardinality(s) - 1 /\ Cardinality(s) \in Nat
          BY <3>3, <4>1, Smaller
        <4> QED
          BY <2>2, <4>1, <4>2
      <3>4. \A s \in Small(k - 1) : s \in Small(k)
        BY <1>1, <2>2
      <3>5. \A s \in Small(k - 1) : h[s] = g[s]
        BY <3>2, <3>4
      <3>6. ASSUME NEW s \in Small(k)
            PROVE  h[s] = IF s = {} THEN 0 ELSE f[FirstOf(s)] + h[s \ {FirstOf(s)}]
        BY <3>3, <3>5
      <3>7. Adds(k, h)
        BY <3>6
      <3> QED
        BY <2>2, <3>7
    <2> QED
      BY <2>3, <2>4
  <1>4. Cardinality(S) \in Nat /\ Small(Cardinality(S)) = SUBSET S
    <2>1. Cardinality(S) \in Nat
      BY FS_CardinalityType
    <2>2. \A s \in SUBSET S : Cardinality(s) <= Cardinality(S)
      BY FS_Subset
    <2> QED
      BY <2>1, <2>2
  <1>5. PICK g : Adds(Cardinality(S), g)
    BY <1>3, <1>4
  <1>6. AddsUp(f, S, g)
    BY <1>4, <1>5 DEF AddsUp
  <1> QED
    BY <1>6 DEF Sums

\* The sums of a set, element by element.
LEMMA SumsFacts ==
    ASSUME NEW f, NEW S, IsFiniteSet(S)
    PROVE  /\ Sums(f, S)[{}] = 0
           /\ \A s \in SUBSET S : s # {} =>
                 /\ FirstOf(s) \in s
                 /\ Sums(f, S)[s] = f[FirstOf(s)] + Sums(f, S)[s \ {FirstOf(s)}]
  <1>1. \A s \in SUBSET S : s # {} => FirstOf(s) \in s
    BY DEF FirstOf
  <1>2. AddsUp(f, S, Sums(f, S))
    BY SumsExist
  <1> QED
    BY <1>1, <1>2 DEF AddsUp

\* Sums agree where what they add agrees, whatever else is summed.
LEMMA SumsAgree ==
    ASSUME NEW f, NEW g, NEW S, IsFiniteSet(S), NEW T \in SUBSET S, \A x \in T : f[x] = g[x]
    PROVE  \A s \in SUBSET T : Sums(f, T)[s] = Sums(g, S)[s]
  <1> DEFINE Bad == {n \in Nat : \E s \in SUBSET T : Cardinality(s) = n /\ Sums(f, T)[s] # Sums(g, S)[s]}
  <1>1. IsFiniteSet(T) /\ \A s \in SUBSET T : IsFiniteSet(s) /\ Cardinality(s) \in Nat
    BY FS_Subset, FS_CardinalityType
  <1>2. Bad = {}
    <2> SUFFICES ASSUME Bad # {}
                 PROVE  FALSE
      OBVIOUS
    <2>1. PICK k \in Bad : \A n \in Bad : k <= n
      <3>1. Bad \subseteq Nat
        OBVIOUS
      <3> HIDE DEF Bad
      <3> QED
        BY <3>1, LeastNatural
    <2>2. PICK s \in SUBSET T : Cardinality(s) = k /\ Sums(f, T)[s] # Sums(g, S)[s]
      BY <2>1
    <2>3. Sums(f, T)[{}] = 0 /\ Sums(g, S)[{}] = 0
      BY <1>1, SumsFacts
    <2>4. s # {} /\ s \in SUBSET S
      BY <2>2, <2>3
    <2>5. /\ FirstOf(s) \in s
          /\ Sums(f, T)[s] = f[FirstOf(s)] + Sums(f, T)[s \ {FirstOf(s)}]
          /\ Sums(g, S)[s] = g[FirstOf(s)] + Sums(g, S)[s \ {FirstOf(s)}]
      BY <1>1, <2>4, SumsFacts
    <2>6. k - 1 \in Nat /\ Cardinality(s \ {FirstOf(s)}) = k - 1 /\ k \in Nat
      BY <1>1, <2>2, <2>4, <2>5, Smaller
    <2>7. k - 1 \notin Bad
      BY <2>1, <2>6
    <2>8. Sums(f, T)[s \ {FirstOf(s)}] = Sums(g, S)[s \ {FirstOf(s)}]
      BY <2>6, <2>7
    <2> QED
      BY <2>2, <2>5, <2>8
  <1> QED
    BY <1>1, <1>2

\* What SumFunctionOnSet computes.
LEMMA SumIs ==
    ASSUME NEW f, NEW S
    PROVE  SumFunctionOnSet(f, S) = Sums(f, S)[S]
  BY DEF SumFunctionOnSet, FoldFunctionOnSet, MapThenFoldSet, Sums, AddsUp, FirstOf

\* The empty sum, and a sum with its first element apart.
LEMMA SumUnfolds ==
    ASSUME NEW f, NEW S, IsFiniteSet(S)
    PROVE  /\ SumFunctionOnSet(f, {}) = 0
           /\ S # {} => /\ FirstOf(S) \in S
                        /\ SumFunctionOnSet(f, S) = f[FirstOf(S)] + SumFunctionOnSet(f, S \ {FirstOf(S)})
  <1>1. SumFunctionOnSet(f, {}) = 0
    BY SumIs, SumsFacts, FS_EmptySet
  <1>2. ASSUME S # {}
        PROVE  /\ FirstOf(S) \in S
               /\ SumFunctionOnSet(f, S) = f[FirstOf(S)] + SumFunctionOnSet(f, S \ {FirstOf(S)})
    <2> DEFINE T == S \ {FirstOf(S)}
    <2>1. FirstOf(S) \in S /\ Sums(f, S)[S] = f[FirstOf(S)] + Sums(f, S)[T]
      BY <1>2, SumsFacts
    <2>2. Sums(f, T)[T] = Sums(f, S)[T]
      BY SumsAgree
    <2> QED
      BY <2>1, <2>2, SumIs
  <1> QED
    BY <1>1, <1>2

\* Functions that agree on a set have one sum there.
LEMMA SumAgrees ==
    ASSUME NEW f, NEW g, NEW S, IsFiniteSet(S), \A x \in S : f[x] = g[x]
    PROVE  SumFunctionOnSet(f, S) = SumFunctionOnSet(g, S)
  BY SumsAgree, SumIs

\* A sum of naturals is one.
LEMMA SumNat ==
    ASSUME NEW f, NEW S, IsFiniteSet(S), \A x \in S : f[x] \in Nat
    PROVE  SumFunctionOnSet(f, S) \in Nat
  <1> DEFINE Bad == {n \in Nat : \E s \in SUBSET S : Cardinality(s) = n /\ SumFunctionOnSet(f, s) \notin Nat}
  <1>1. \A s \in SUBSET S : IsFiniteSet(s) /\ Cardinality(s) \in Nat
    BY FS_Subset, FS_CardinalityType
  <1>2. Bad = {}
    <2> SUFFICES ASSUME Bad # {}
                 PROVE  FALSE
      OBVIOUS
    <2>1. PICK k \in Bad : \A n \in Bad : k <= n
      <3>1. Bad \subseteq Nat
        OBVIOUS
      <3> HIDE DEF Bad
      <3> QED
        BY <3>1, LeastNatural
    <2>2. PICK s \in SUBSET S : Cardinality(s) = k /\ SumFunctionOnSet(f, s) \notin Nat
      BY <2>1
    <2> DEFINE x == FirstOf(s)
    <2>3. SumFunctionOnSet(f, {}) = 0
      BY <1>1, SumUnfolds
    <2>4. s # {}
      BY <2>2, <2>3
    <2>5. x \in s /\ SumFunctionOnSet(f, s) = f[x] + SumFunctionOnSet(f, s \ {x})
      BY <1>1, <2>4, SumUnfolds
    <2>6. k - 1 \in Nat /\ Cardinality(s \ {x}) = k - 1
      BY <1>1, <2>2, <2>4, <2>5, Smaller
    <2>7. SumFunctionOnSet(f, s \ {x}) \in Nat
      BY <2>1, <2>2, <2>6
    <2> QED
      BY <2>2, <2>5, <2>7
  <1> QED
    BY <1>1, <1>2

\* Any element may be added first.
LEMMA SumRemove ==
    ASSUME NEW f, NEW S, IsFiniteSet(S), \A y \in S : f[y] \in Nat, NEW x \in S
    PROVE  SumFunctionOnSet(f, S) = f[x] + SumFunctionOnSet(f, S \ {x})
  <1> DEFINE Bad == {n \in Nat : \E s \in SUBSET S : \E y \in s : Cardinality(s) = n /\
                        SumFunctionOnSet(f, s) # f[y] + SumFunctionOnSet(f, s \ {y})}
  <1>1. \A s \in SUBSET S : IsFiniteSet(s) /\ Cardinality(s) \in Nat
    BY FS_Subset, FS_CardinalityType
  <1>2. Bad = {}
    <2> SUFFICES ASSUME Bad # {}
                 PROVE  FALSE
      OBVIOUS
    <2>1. PICK k \in Bad : \A n \in Bad : k <= n
      <3>1. Bad \subseteq Nat
        OBVIOUS
      <3> HIDE DEF Bad
      <3> QED
        BY <3>1, LeastNatural
    <2>0. PICK s \in SUBSET S : \E y \in s :
             Cardinality(s) = k /\ SumFunctionOnSet(f, s) # f[y] + SumFunctionOnSet(f, s \ {y})
      BY <2>1
    <2>2. PICK y \in s :
             Cardinality(s) = k /\ SumFunctionOnSet(f, s) # f[y] + SumFunctionOnSet(f, s \ {y})
      BY <2>0
    <2> DEFINE z == FirstOf(s)
    <2>3. z \in s /\ SumFunctionOnSet(f, s) = f[z] + SumFunctionOnSet(f, s \ {z})
      BY <1>1, <2>2, SumUnfolds
    <2>4. z # y
      BY <2>2, <2>3
    <2> HIDE DEF z
    <2>5. /\ k - 1 \in Nat /\ k \in Nat
          /\ Cardinality(s \ {z}) = k - 1 /\ Cardinality(s \ {y}) = k - 1
      BY <1>1, <2>2, <2>3, Smaller
    <2>6. k - 1 \notin Bad
      BY <2>1, <2>5
    <2>7. SumFunctionOnSet(f, s \ {z}) = f[y] + SumFunctionOnSet(f, (s \ {z}) \ {y})
      <3>1. s \ {z} \in SUBSET S /\ y \in s \ {z}
        BY <2>2, <2>4
      <3> QED
        BY <2>5, <2>6, <3>1
    <2>8. SumFunctionOnSet(f, s \ {y}) = f[z] + SumFunctionOnSet(f, (s \ {y}) \ {z})
      <3>1. s \ {y} \in SUBSET S /\ z \in s \ {y}
        BY <2>3, <2>4
      <3> QED
        BY <2>5, <2>6, <3>1
    <2>9. (s \ {y}) \ {z} = (s \ {z}) \ {y}
      OBVIOUS
    <2> DEFINE rest == SumFunctionOnSet(f, (s \ {z}) \ {y})
    <2>10. rest \in Nat /\ f[y] \in Nat /\ f[z] \in Nat
      BY <1>1, <2>2, <2>3, SumNat
    <2> QED
      BY <2>2, <2>3, <2>7, <2>8, <2>9, <2>10
  <1> QED
    BY <1>1, <1>2

\* A term is at most the sum, and a larger term makes a larger sum.
LEMMA SumChanges ==
    ASSUME NEW f, NEW g, NEW S, IsFiniteSet(S), NEW x \in S,
           \A y \in S : f[y] \in Nat /\ g[y] \in Nat,
           \A y \in S : y # x => g[y] = f[y]
    PROVE  /\ SumFunctionOnSet(g, S) = SumFunctionOnSet(f, S) - f[x] + g[x]
           /\ f[x] <= SumFunctionOnSet(f, S)
           /\ SumFunctionOnSet(f, S) \in Nat /\ SumFunctionOnSet(g, S) \in Nat
  <1> DEFINE T == S \ {x}
  <1>1. IsFiniteSet(T) /\ \A y \in T : f[y] = g[y] /\ f[y] \in Nat
    BY FS_Subset
  <1>2. SumFunctionOnSet(f, T) = SumFunctionOnSet(g, T) /\ SumFunctionOnSet(f, T) \in Nat
    BY <1>1, SumAgrees, SumNat
  <1>3. SumFunctionOnSet(f, S) = f[x] + SumFunctionOnSet(f, T)
    BY SumRemove
  <1>4. SumFunctionOnSet(g, S) = g[x] + SumFunctionOnSet(g, T)
    BY SumRemove
  <1> QED
    BY <1>2, <1>3, <1>4

\* A sum of zeros.
LEMMA SumOfZeros ==
    ASSUME NEW f, NEW S, IsFiniteSet(S), \A x \in S : f[x] = 0
    PROVE  SumFunctionOnSet(f, S) = 0
  <1> DEFINE Bad == {n \in Nat : \E s \in SUBSET S : Cardinality(s) = n /\ SumFunctionOnSet(f, s) # 0}
  <1>1. \A s \in SUBSET S : IsFiniteSet(s) /\ Cardinality(s) \in Nat
    BY FS_Subset, FS_CardinalityType
  <1>2. Bad = {}
    <2> SUFFICES ASSUME Bad # {}
                 PROVE  FALSE
      OBVIOUS
    <2>1. PICK k \in Bad : \A n \in Bad : k <= n
      <3>1. Bad \subseteq Nat
        OBVIOUS
      <3> HIDE DEF Bad
      <3> QED
        BY <3>1, LeastNatural
    <2>2. PICK s \in SUBSET S : Cardinality(s) = k /\ SumFunctionOnSet(f, s) # 0
      BY <2>1
    <2> DEFINE x == FirstOf(s)
    <2>3. SumFunctionOnSet(f, {}) = 0
      BY <1>1, SumUnfolds
    <2>4. s # {}
      BY <2>2, <2>3
    <2>5. x \in s /\ SumFunctionOnSet(f, s) = f[x] + SumFunctionOnSet(f, s \ {x})
      BY <1>1, <2>4, SumUnfolds
    <2>6. k - 1 \in Nat /\ Cardinality(s \ {x}) = k - 1
      BY <1>1, <2>2, <2>4, <2>5, Smaller
    <2>7. SumFunctionOnSet(f, s \ {x}) = 0
      BY <2>1, <2>2, <2>6
    <2>8. f[x] = 0
      BY <2>2, <2>5
    <2> QED
      BY <2>2, <2>5, <2>7, <2>8
  <1> QED
    BY <1>1, <1>2
=============================================================================
