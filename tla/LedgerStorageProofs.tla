------------------------ MODULE LedgerStorageProofs -------------------------
(***************************************************************************)
(* What LedgerStorage promises, for every home: any ledgers, caps, policy, *)
(* threads and bounds.                                                     *)
(***************************************************************************)
EXTENDS LedgerStorage, SequenceFacts

-----------------------------------------------------------------------------
(* Chains.                                                                 *)

\* Everything a chain may be made of.
AnyEvent == Event \cup {Inception(l) : l \in Ledgers}

\* What a chain is.
LEMMA ChainFacts ==
    ASSUME ValidSetting, NEW l \in Ledgers, NEW c \in Chains(l)
    PROVE  /\ c \in Seq(EventsOf[l] \cup {Inception(l)}) /\ c \in Seq(AnyEvent) /\ c \in AllChains
           /\ Len(c) \in 1..MaxLen /\ Len(c) \in Nat /\ c[1] = Inception(l) /\ c # <<>>
           /\ \A k \in 2..Len(c) : c[k] \in EventsOf[l]
  <1>1. Chains(l) = StartingWith(Inception(l), EventsOf[l], MaxLen) /\ MaxLen \in Nat \ {0}
    BY BoundsAssumption DEF Chains, StartingWith
  <1>2. /\ c \in Seq(EventsOf[l] \cup {Inception(l)}) /\ c # <<>>
        /\ Len(c) \in 1..MaxLen /\ c[1] = Inception(l) /\ \A k \in 2..Len(c) : c[k] \in EventsOf[l]
    <2> DEFINE g == Inception(l)
               T == EventsOf[l]
    <2>1. c \in StartingWith(g, T, MaxLen)
      BY <1>1
    <2> HIDE DEF g, T
    <2>2. /\ c \in Seq(T \cup {g}) /\ Len(c) \in 1..MaxLen /\ c[1] = g /\ c # <<>>
          /\ \A k \in 2..Len(c) : c[k] \in T
      BY <1>1, <2>1, StartingFacts
    <2> QED
      BY <2>2 DEF g, T
  <1>3. EventsOf[l] \cup {Inception(l)} \subseteq AnyEvent
    BY DEF ValidSetting, AnyEvent
  <1>4. c \in Seq(AnyEvent)
    BY <1>2, <1>3
  <1> QED
    BY <1>1, <1>2, <1>4 DEF AllChains

\* The first event of a chain says whose chain it is.
LEMMA ChainOf ==
    ASSUME ValidSetting, NEW l \in Ledgers, NEW c \in AllChains, c[1] = Inception(l)
    PROVE  c \in Chains(l)
  <1>1. PICK k \in Ledgers : c \in Chains(k)
    BY DEF AllChains
  <1>2. Inception(k) = Inception(l)
    BY <1>1, ChainFacts
  <1>3. k = l
    BY <1>2 DEF Inception
  <1> QED
    BY <1>1, <1>3

\* A chain of any ledger.
LEMMA AnyChain ==
    ASSUME ValidSetting, NEW c \in AllChains \cup {<<>>}
    PROVE  c \in Seq(AnyEvent) /\ Len(c) \in Nat /\ (c \in AllChains => c # <<>> /\ Len(c) >= 1)
  <1>1. CASE c \in AllChains
    <2>1. PICK k \in Ledgers : c \in Chains(k)
      BY <1>1 DEF AllChains
    <2>2. c \in Seq(AnyEvent) /\ c # <<>> /\ Len(c) \in 1..MaxLen /\ Len(c) \in Nat
      BY <2>1, ChainFacts
    <2>3. Len(c) >= 1
      BY <2>2, BoundsAssumption
    <2> QED
      BY <2>2, <2>3
  <1>2. CASE c = <<>>
    <2> DEFINE none == <<>>
    <2>1. none \in Seq(AnyEvent) /\ Len(none) = 0
      OBVIOUS
    <2>2. none \notin AllChains
      <3> SUFFICES ASSUME none \in AllChains
                   PROVE  FALSE
        OBVIOUS
      <3>1. PICK k \in Ledgers : none \in Chains(k)
        BY DEF AllChains
      <3> QED
        BY <3>1, ChainFacts
    <2> QED
      BY <1>2, <2>1, <2>2
  <1> QED
    BY <1>1, <1>2

\* A cut of a chain.
LEMMA CutFacts ==
    ASSUME ValidSetting, NEW l \in Ledgers, NEW c \in Chains(l), NEW n \in 0..Len(c)
    PROVE  /\ EventAt(c, n) \in Chains(l) \cup {<<>>} /\ Len(EventAt(c, n)) = n
           /\ n >= 1 => EventAt(c, n) \in Chains(l)
           /\ EventAt(c, n) \in Seq(AnyEvent) /\ Prefix(EventAt(c, n), c)
           /\ \A k \in 1..n : EventAt(c, n)[k] = c[k]
  <1>1. /\ Chains(l) = StartingWith(Inception(l), EventsOf[l], MaxLen) /\ MaxLen \in Nat \ {0}
        /\ c \in Seq(AnyEvent) /\ Len(c) \in Nat
    BY ChainFacts, BoundsAssumption DEF Chains, StartingWith
  <1>2. /\ SubSeq(c, 1, n) \in Seq(AnyEvent) /\ Len(SubSeq(c, 1, n)) = n
        /\ IsPrefix(SubSeq(c, 1, n), c) /\ \A k \in 1..n : SubSeq(c, 1, n)[k] = c[k]
    BY <1>1, PrefixIsSubSeq
  <1>3. CASE n = 0
    <2>1. SubSeq(c, 1, 0) = <<>>
      BY <1>1
    <2> QED
      BY <1>2, <1>3, <2>1 DEF EventAt, Prefix
  <1>4. CASE n # 0
    <2>1. n \in 1..Len(c)
      BY <1>1, <1>4
    <2>2. SubSeq(c, 1, n) \in Chains(l)
      BY <1>1, <2>1, StartingCut
    <2> QED
      BY <1>2, <2>2 DEF EventAt, Prefix
  <1> QED
    BY <1>3, <1>4

\* A cut of a sequence of events, and of a prefix of it.
LEMMA PrefixCut ==
    ASSUME NEW c \in Seq(AnyEvent), NEW d \in Seq(AnyEvent), Prefix(c, d)
    PROVE  /\ Len(c) <= Len(d) /\ EventAt(d, Len(c)) = c
           /\ \A n \in 0..Len(c) : EventAt(c, n) = EventAt(d, n)
           /\ \A k \in 1..Len(c) : c[k] = d[k]
  <1>1. Len(c) <= Len(d) /\ \A k \in 1..Len(c) : c[k] = d[k]
    BY PrefixByElement DEF Prefix
  <1>2. Len(c) \in Nat /\ Len(d) \in Nat
    OBVIOUS
  <1>3. ASSUME NEW n \in 0..Len(c)
        PROVE  EventAt(c, n) = EventAt(d, n)
    <2> DEFINE p == SubSeq(c, 1, n)
               q == SubSeq(d, 1, n)
    <2>1. p \in Seq(AnyEvent) /\ Len(p) = n /\ \A k \in 1..n : p[k] = c[k]
      BY PrefixIsSubSeq
    <2>2. n \in 0..Len(d)
      BY <1>1, <1>2
    <2>3. q \in Seq(AnyEvent) /\ Len(q) = n /\ \A k \in 1..n : q[k] = d[k]
      BY <2>2, PrefixIsSubSeq
    <2>4. \A k \in 1..n : c[k] = d[k]
      BY <1>1, <1>2
    <2> HIDE DEF p, q
    <2>5. p = q
      BY <2>1, <2>3, <2>4, SeqEqual
    <2> QED
      BY <2>5 DEF p, q, EventAt
  <1>4. EventAt(c, Len(c)) = c
    BY SubSeqFull DEF EventAt
  <1>5. Len(c) \in 0..Len(c)
    BY <1>2
  <1> QED
    BY <1>1, <1>3, <1>4, <1>5

\* What verifies of a chain on top of a prefix of it.
LEMMA ValidLengthFacts ==
    ASSUME NEW p \in Seq(AnyEvent), NEW c \in Seq(AnyEvent), Prefix(p, c)
    PROVE  /\ ValidLength(p, c) \in Len(p)..Len(c)
           /\ \A m \in (Len(p) + 1)..ValidLength(p, c) : c[m].verifies
           /\ (\A m \in (Len(p) + 1)..Len(c) : c[m].verifies) => ValidLength(p, c) = Len(c)
           /\ (Len(p) < Len(c) /\ c[Len(p) + 1].verifies) => ValidLength(p, c) > Len(p)
  <1> DEFINE good == {n \in Len(p)..Len(c) : \A m \in (Len(p) + 1)..n : c[m].verifies}
             v == ValidLength(p, c)
  <1>1. Len(p) <= Len(c) /\ Len(p) \in Nat /\ Len(c) \in Nat
    BY PrefixCut
  <1>2. Len(p) \in good
    BY <1>1
  <1>3. good \subseteq Nat /\ good # {} /\ (\A x \in good : x <= Len(c)) /\ good \subseteq Len(p)..Len(c)
    BY <1>1, <1>2
  <1>4. (\A m \in (Len(p) + 1)..Len(c) : c[m].verifies) => Len(c) \in good
    BY <1>1
  <1>5. (Len(p) < Len(c) /\ c[Len(p) + 1].verifies) => Len(p) + 1 \in good
    <2> SUFFICES ASSUME Len(p) < Len(c), c[Len(p) + 1].verifies
                 PROVE  Len(p) + 1 \in good
      OBVIOUS
    <2>1. Len(p) + 1 \in Len(p)..Len(c) /\ \A m \in (Len(p) + 1)..(Len(p) + 1) : m = Len(p) + 1
      BY <1>1
    <2> QED
      BY <2>1
  <1>6. \A n \in good : \A m \in (Len(p) + 1)..n : c[m].verifies
    OBVIOUS
  <1>7. v = Max(good)
    BY DEF ValidLength
  <1> HIDE DEF good, v
  <1>8. \E x \in good : \A y \in good : y <= x
    BY <1>1, <1>3, GreatestNatural
  <1>9. v \in good /\ \A y \in good : y <= v
    BY <1>3, <1>7, <1>8 DEF Max
  <1>10. v \in Len(p)..Len(c) /\ \A m \in (Len(p) + 1)..v : c[m].verifies
    BY <1>3, <1>6, <1>9
  <1>11. Len(c) \in good => v = Len(c)
    BY <1>1, <1>9, <1>10
  <1>12. Len(p) + 1 \in good => v > Len(p)
    BY <1>1, <1>9, <1>10
  <1> QED
    BY <1>4, <1>5, <1>10, <1>11, <1>12 DEF v

\* What a push leaves is the chain held, extended by events of that ledger.
LEMMA PushedFacts ==
    ASSUME ValidSetting, NEW l \in Ledgers, index[l].chain \in Chains(l) \cup {<<>>},
           NEW c \in AllChains, ~Held(l) => c[1] = Inception(l)
    PROVE  /\ Pushed(l, c) \in Chains(l) \cup {<<>>} /\ Prefix(index[l].chain, Pushed(l, c))
           /\ \A m \in (Len(index[l].chain) + 1)..Len(Pushed(l, c)) : Pushed(l, c)[m].verifies
  <1> DEFINE p == index[l].chain
  <1>1. p \in Seq(AnyEvent) /\ c \in Seq(AnyEvent) /\ Len(p) \in Nat /\ Len(c) \in Nat
    <2>1. p \in AllChains \cup {<<>>}
      BY DEF AllChains
    <2> QED
      BY <2>1, AnyChain
  <1>2. CASE ~Prefix(p, c)
    <2>1. ValidLength(p, c) = Len(p) /\ Pushed(l, c) = SubSeq(p, 1, Len(p))
      BY <1>2 DEF ValidLength, Pushed, EventAt
    <2>2. SubSeq(p, 1, Len(p)) = p
      BY <1>1, SubSeqFull
    <2>3. Pushed(l, c) = p /\ \A m \in (Len(p) + 1)..Len(p) : FALSE
      BY <1>1, <2>1, <2>2
    <2> QED
      BY <1>1, <2>3, PrefixOfItself DEF Prefix
  <1>3. CASE Prefix(p, c)
    <2>1. c[1] = Inception(l)
      <3>1. CASE Held(l)
        <4>1. p \in Chains(l)
          BY <3>1 DEF Held
        <4> HIDE DEF p
        <4>2. p[1] = Inception(l) /\ Len(p) \in 1..MaxLen
          BY <4>1, ChainFacts
        <4>3. 1 \in 1..Len(p)
          BY <1>1, <4>2
        <4> QED
          BY <1>1, <1>3, <4>2, <4>3, PrefixCut
      <3> QED
        BY <3>1
    <2>2. c \in Chains(l)
      BY <2>1, ChainOf
    <2> DEFINE n == ValidLength(p, c)
    <2>3. n \in Len(p)..Len(c) /\ \A m \in (Len(p) + 1)..n : c[m].verifies
      BY <1>1, <1>3, ValidLengthFacts
    <2>4. n \in 0..Len(c) /\ Len(p) <= n
      BY <1>1, <2>3
    <2>5. Pushed(l, c) = EventAt(c, n)
      BY <1>3 DEF Pushed
    <2> HIDE DEF n, p
    <2>6. /\ EventAt(c, n) \in Chains(l) \cup {<<>>} /\ Len(EventAt(c, n)) = n
          /\ EventAt(c, n) \in Seq(AnyEvent) /\ Prefix(EventAt(c, n), c)
          /\ \A k \in 1..n : EventAt(c, n)[k] = c[k]
      BY <2>2, <2>4, CutFacts
    <2>7. Prefix(p, EventAt(c, n))
      BY <1>1, <1>3, <2>4, <2>6, PrefixesAreOrdered DEF Prefix
    <2>8. \A m \in (Len(p) + 1)..n : EventAt(c, n)[m].verifies
      <3>1. \A m \in (Len(p) + 1)..n : m \in 1..n
        BY <1>1, <2>4
      <3> QED
        BY <2>3, <2>6, <3>1
    <2> QED
      BY <2>5, <2>6, <2>7, <2>8 DEF p
  <1> QED
    BY <1>2, <1>3

\* A directory that is appended to keeps its chain.
LEMMA ExtendedFacts ==
    ASSUME ValidSetting, NEW l \in Ledgers, disk[l] \in Chains(l) \cup {<<>>},
           Len(disk[l]) < MaxLen, NEW e \in EventsOf[l]
    PROVE  Extended(l, e) \in Chains(l) /\ Prefix(disk[l], Extended(l, e))
  <1>1. Chains(l) = StartingWith(Inception(l), EventsOf[l], MaxLen) /\ MaxLen \in Nat \ {0}
    BY BoundsAssumption DEF Chains, StartingWith
  <1>2. CASE disk[l] = <<>>
    <2> DEFINE d == <<Inception(l)>>
    <2>1. Extended(l, e) = d
      BY <1>2 DEF Extended
    <2>2. d \in Chains(l)
      BY <1>1, StartingAlone
    <2> HIDE DEF d
    <2>3. d \in Seq(AnyEvent)
      BY <2>2, ChainFacts
    <2>4. IsPrefix(<<>>, d)
      BY <2>3, EmptyPrefix
    <2> QED
      BY <1>2, <2>1, <2>2, <2>4 DEF Prefix
  <1>3. CASE disk[l] # <<>>
    <2> DEFINE d == disk[l]
    <2>1. d \in Chains(l) /\ Extended(l, e) = Append(d, e)
      BY <1>3 DEF Extended
    <2>2. d \in Seq(AnyEvent) /\ e \in AnyEvent /\ Len(d) < MaxLen
      BY <2>1, ChainFacts DEF ValidSetting, AnyEvent
    <2> HIDE DEF d
    <2>3. Append(d, e) \in Chains(l)
      BY <1>1, <2>1, <2>2, StartingAppend
    <2>4. IsPrefix(d, Append(d, e))
      BY <2>2, PrefixOfAppend
    <2> QED
      BY <2>1, <2>3, <2>4 DEF Prefix, d
  <1> QED
    BY <1>2, <1>3

\* A directory that a push lands in keeps its chain; one that ends where the
\* index does, on its branch, becomes the chain pushed.
LEMMA LandedFacts ==
    ASSUME ValidSetting, NEW l \in Ledgers, disk[l] \in Chains(l) \cup {<<>>},
           index[l].chain \in Chains(l) \cup {<<>>}, Len(disk[l]) = Len(index[l].chain),
           NEW q \in Chains(l), Prefix(index[l].chain, q),
           disk[l] # index[l].chain => l \in CutLedgers
    PROVE  /\ Landed(l, q) \in Chains(l) /\ Prefix(disk[l], Landed(l, q))
           /\ disk[l] = index[l].chain => Landed(l, q) = q
  <1> DEFINE p == index[l].chain
             d == disk[l]
  <1>1. CASE d = p
    BY <1>1 DEF Landed
  <1>2. CASE d # p
    <2> DEFINE g == [n \in 1..Len(q) |-> IF n <= Len(p) THEN d[n] ELSE [q[n] EXCEPT !.verifies = FALSE]]
               T == EventsOf[l]
               i == Inception(l)
    <2>1. Landed(l, q) = g
      BY <1>2 DEF Landed
    <2>2. /\ Chains(l) = StartingWith(i, T, MaxLen) /\ MaxLen \in Nat \ {0}
          /\ \A e \in T : [e EXCEPT !.verifies = FALSE] \in T
      BY <1>2, BoundsAssumption DEF Chains, StartingWith, ValidSetting
    <2>3. d \in Chains(l)
      <3>1. d # <<>>
        <4> SUFFICES ASSUME d = <<>>
                     PROVE  FALSE
          OBVIOUS
        <4>1. Len(p) = 0
          OBVIOUS
        <4>2. p \in AllChains \cup {<<>>}
          BY DEF AllChains
        <4> HIDE DEF p
        <4>3. p = <<>>
          BY <4>1, <4>2, AnyChain
        <4> QED
          BY <1>2, <4>3
      <3> QED
        BY <3>1
    <2>4. /\ d \in Seq(T \cup {i}) /\ d \in Seq(AnyEvent) /\ Len(d) \in Nat /\ Len(d) >= 1 /\ d[1] = i
          /\ \A k \in 2..Len(d) : d[k] \in T
      <3> DEFINE n == Len(d)
      <3> HIDE DEF d
      <3>1. /\ d \in Seq(EventsOf[l] \cup {Inception(l)}) /\ d \in Seq(AnyEvent) /\ n \in 1..MaxLen
            /\ d[1] = Inception(l) /\ \A k \in 2..n : d[k] \in EventsOf[l]
        BY <2>3, ChainFacts
      <3>2. n \in Nat /\ n >= 1
        BY <2>2, <3>1
      <3> QED
        BY <3>1, <3>2
    <2>5. /\ q \in Seq(T \cup {i}) /\ q \in Seq(AnyEvent) /\ Len(q) \in 1..MaxLen /\ Len(q) \in Nat
          /\ \A k \in 2..Len(q) : q[k] \in T
      BY ChainFacts
    <2>6. Len(d) = Len(p) /\ Len(p) <= Len(q)
      <3>1. p \in AllChains \cup {<<>>}
        BY DEF AllChains
      <3> HIDE DEF p
      <3>2. p \in Seq(AnyEvent) /\ Prefix(p, q)
        BY <3>1, AnyChain DEF p
      <3>3. Len(p) <= Len(q)
        BY <2>5, <3>2, PrefixCut
      <3> QED
        BY <3>3 DEF p
    <2> HIDE DEF p, d, T, i
    <2>7. \A k \in 1..Len(q) : g[k] = IF k <= Len(d) THEN d[k] ELSE [q[k] EXCEPT !.verifies = FALSE]
      BY <2>6
    <2>8. g[1] = i
      BY <2>4, <2>5, <2>6, <2>7
    <2>9. ASSUME NEW k \in 2..Len(q)
          PROVE  g[k] \in T
      <3>1. CASE k <= Len(d)
        BY <2>4, <2>5, <2>7, <3>1
      <3>2. CASE ~(k <= Len(d))
        <4>1. k \in 1..Len(q) /\ q[k] \in T
          BY <2>5
        <4>2. g[k] = [q[k] EXCEPT !.verifies = FALSE]
          BY <2>7, <3>2, <4>1
        <4> HIDE DEF g
        <4> QED
          BY <2>2, <4>1, <4>2
      <3> QED
        BY <3>1, <3>2
    <2>10. \A k \in 1..Len(q) : g[k] \in T \cup {i}
      <3>1. \A k \in 1..Len(q) : k = 1 \/ k \in 2..Len(q)
        BY <2>5
      <3> QED
        BY <2>8, <2>9, <3>1
    <2>11. g \in Seq(T \cup {i}) /\ Len(g) = Len(q)
      <3>1. g = [k \in 1..Len(q) |-> g[k]]
        OBVIOUS
      <3>2. g \in [1..Len(q) -> T \cup {i}]
        BY <2>10, <3>1
      <3> HIDE DEF g
      <3> QED
        BY <2>5, <3>2
    <2>12. g \in Chains(l)
      <3> HIDE DEF g
      <3>1. g \in StartingWith(i, T, MaxLen)
        BY <2>2, <2>5, <2>8, <2>9, <2>11, StartingByElement
      <3> QED
        BY <2>2, <3>1
    <2>13. IsPrefix(d, g)
      <3>1. \A k \in 1..Len(d) : d[k] = g[k]
        BY <2>4, <2>5, <2>6, <2>7
      <3> HIDE DEF g
      <3> QED
        BY <2>4, <2>6, <2>11, <3>1, PrefixByElement
    <2> HIDE DEF g
    <2> QED
      BY <1>2, <2>1, <2>12, <2>13 DEF Prefix, d, p
  <1> QED
    BY <1>1, <1>2

-----------------------------------------------------------------------------
(* What the index and the threads know of the directories.                 *)

Entries == [chain : AllChains \cup {<<>>}, forks : SUBSET AllChains]

Tasks == {NoTask} \cup [op : {"note", "adopt"}, ledger : Ledgers, step : {"load", "insert"}, entry : Entries]

\* What a thread has read of directories d with fork files ff is still there,
\* unless the directory may be cut back, and it is one of the ledgers its
\* caller may ask for.
TaskSound(k, d, ff) == k # NoTask =>
    /\ k.entry.chain \in Chains(k.ledger) \cup {<<>>}
    /\ k.ledger \notin CutLedgers => Prefix(k.entry.chain, d[k.ledger])
    /\ k.entry.forks \subseteq ff[k.ledger]
    /\ k.op = "adopt" => k.ledger \in Asked
    /\ k.op = "note" => k.ledger \in WalletLedgers

\* The index never runs ahead of the files, which verify, unless the directory
\* may be cut back.
Mirrored(l) ==
    /\ l \notin CutLedgers => Prefix(index[l].chain, disk[l]) /\ Verifies(disk[l])
    /\ index[l].forks \subseteq forkFiles[l]
    /\ forkFiles[l] # {} => disk[l] # <<>>

\* How a step may change a directory from d to e.
DirectoryKept(l, d, e) ==
    \/ Prefix(d, e)
    \/ l \in CutLedgers /\ answer' = NoAnswer /\ e # <<>> /\ Prefix(e, d)

ControlInv ==
    /\ ValidSetting /\ Types
    /\ \A l \in Ledgers : Mirrored(l)
    /\ \A t \in Threads : TaskSound(task[t], disk, forkFiles)

\* The same of the state after a step, and how files change.
StoredAfter ==
    /\ disk' \in [Ledgers -> AllChains \cup {<<>>}]
    /\ forkFiles' \in [Ledgers -> SUBSET AllChains]
    /\ index' \in [Ledgers -> Entries]
    /\ \A l \in Ledgers :
          /\ disk'[l] \in Chains(l) \cup {<<>>} /\ DirectoryKept(l, disk[l], disk'[l])
          /\ forkFiles'[l] \subseteq Chains(l) /\ forkFiles[l] \subseteq forkFiles'[l]
          /\ index'[l].chain \in Chains(l) \cup {<<>>}
          /\ l \notin CutLedgers => Prefix(index'[l].chain, disk'[l]) /\ Verifies(disk'[l])
          /\ index'[l].forks \subseteq forkFiles'[l]
          /\ forkFiles'[l] # {} => disk'[l] # <<>>

TasksAfter ==
    task' \in [Threads -> Tasks] /\ \A t \in Threads : TaskSound(task'[t], disk', forkFiles')

RestAfter ==
    /\ endpoint' \in Endpoints /\ rechecking' \in BOOLEAN /\ changes' \in 0..MaxEndpointChanges
    /\ verdict' \in [WitnessFor -> {"none", "no_local_copy", "advertises_nothing", "advertises_others"}]

\* A setting keeps everything that is read off it.
LEMMA SettingKept ==
    ASSUME setting' = setting
    PROVE  /\ Ledgers' = Ledgers /\ EventsOf' = EventsOf /\ Endpoints' = Endpoints /\ Asked' = Asked
           /\ WitnessFor' = WitnessFor /\ SignsFor' = SignsFor /\ Legacy' = Legacy
           /\ WalletLedgers' = WalletLedgers /\ ToolLedgers' = ToolLedgers /\ CutLedgers' = CutLedgers
           /\ ForkRecords' = ForkRecords
           /\ AllChains' = AllChains /\ (\A l : Chains(l)' = Chains(l)) /\ (ValidSetting => ValidSetting')
           /\ EventsPerLedger' = EventsPerLedger /\ BytesPerLedger' = BytesPerLedger
           /\ LedgersCap' = LedgersCap /\ StorageCapacity' = StorageCapacity
           /\ Entries' = Entries /\ Tasks' = Tasks
  <1>1. /\ Ledgers' = Ledgers /\ EventsOf' = EventsOf /\ Endpoints' = Endpoints /\ Asked' = Asked
        /\ WitnessFor' = WitnessFor /\ SignsFor' = SignsFor /\ Legacy' = Legacy
        /\ WalletLedgers' = WalletLedgers /\ ToolLedgers' = ToolLedgers /\ CutLedgers' = CutLedgers
        /\ ForkRecords' = ForkRecords
        /\ EventsPerLedger' = EventsPerLedger /\ BytesPerLedger' = BytesPerLedger
        /\ LedgersCap' = LedgersCap /\ StorageCapacity' = StorageCapacity
    BY DEF Ledgers, EventsOf, Endpoints, Asked, WitnessFor, SignsFor, Legacy, WalletLedgers,
           ToolLedgers, CutLedgers, ForkRecords, EventsPerLedger, BytesPerLedger, LedgersCap, StorageCapacity
  <1>2. \A l : Chains(l)' = Chains(l)
    BY <1>1 DEF Chains
  <1>3. AllChains' = AllChains
    BY <1>1, <1>2 DEF AllChains
  <1>4. Event' = Event
    BY <1>1 DEF Event
  <1>5. ValidSetting => ValidSetting'
    BY <1>1, <1>4 DEF ValidSetting
  <1>6. Entries' = Entries
    BY <1>3 DEF Entries
  <1>7. Tasks' = Tasks
    BY <1>1, <1>6 DEF Tasks
  <1> QED
    BY <1>1, <1>2, <1>3, <1>5, <1>6, <1>7

\* The parts make the whole.
LEMMA ControlAfter ==
    ASSUME ControlInv, setting' = setting, StoredAfter, TasksAfter, RestAfter
    PROVE  ControlInv'
  <1>1. setting \in Settings /\ ValidSetting
    BY DEF ControlInv, Types
  <1>2. Types'
    <2>1. /\ disk' \in [Ledgers' -> AllChains' \cup {<<>>}]
          /\ forkFiles' \in [Ledgers' -> SUBSET AllChains']
          /\ index' \in [Ledgers' -> [chain : AllChains' \cup {<<>>}, forks : SUBSET AllChains']]
      BY SettingKept DEF StoredAfter, Entries
    <2>2. ASSUME NEW l \in Ledgers'
          PROVE  /\ disk'[l] \in Chains(l)' \cup {<<>>}
                 /\ index'[l].chain \in Chains(l)' \cup {<<>>}
                 /\ forkFiles'[l] \cup index'[l].forks \subseteq Chains(l)'
      BY SettingKept DEF StoredAfter
    <2>3. task' \in [Threads -> {NoTask} \cup
             [op : {"note", "adopt"}, ledger : Ledgers', step : {"load", "insert"},
              entry : [chain : AllChains' \cup {<<>>}, forks : SUBSET AllChains']]]
      BY SettingKept DEF TasksAfter, Tasks, Entries
    <2>4. /\ endpoint' \in Endpoints' /\ rechecking' \in BOOLEAN /\ changes' \in 0..MaxEndpointChanges
          /\ verdict' \in [WitnessFor' -> {"none", "no_local_copy", "advertises_nothing", "advertises_others"}]
      BY SettingKept DEF RestAfter
    <2> QED
      BY <1>1, <2>1, <2>2, <2>3, <2>4 DEF Types
  <1>3. \A l \in Ledgers' : Mirrored(l)'
    BY SettingKept DEF StoredAfter, Mirrored
  <1>4. \A t \in Threads : TaskSound(task'[t], disk', forkFiles')
    BY DEF TasksAfter
  <1>5. ASSUME NEW t \in Threads
        PROVE  TaskSound(task[t], disk, forkFiles)'
    BY <1>4, SettingKept DEF TaskSound
  <1> QED
    BY <1>1, <1>2, <1>3, <1>5, SettingKept DEF ControlInv

\* The types of one ledger.
LEMMA LedgerTypes ==
    ASSUME ControlInv, NEW l \in Ledgers
    PROVE  /\ ValidSetting /\ disk[l] \in Chains(l) \cup {<<>>} /\ disk[l] \in Seq(AnyEvent)
           /\ index[l].chain \in Chains(l) \cup {<<>>} /\ index[l].chain \in Seq(AnyEvent)
           /\ forkFiles[l] \subseteq Chains(l) /\ index[l].forks \subseteq forkFiles[l]
           /\ l \notin CutLedgers => Prefix(index[l].chain, disk[l]) /\ Verifies(disk[l])
           /\ Prefix(disk[l], disk[l]) /\ index[l] \in Entries
           /\ forkFiles[l] # {} => disk[l] # <<>>
  <1>1. /\ ValidSetting /\ disk[l] \in Chains(l) \cup {<<>>} /\ index[l].chain \in Chains(l) \cup {<<>>}
        /\ forkFiles[l] \subseteq Chains(l) /\ index[l].forks \subseteq forkFiles[l]
        /\ l \notin CutLedgers => Prefix(index[l].chain, disk[l]) /\ Verifies(disk[l])
        /\ index[l] \in Entries /\ (forkFiles[l] # {} => disk[l] # <<>>)
    BY DEF ControlInv, Types, Mirrored, Entries
  <1>2. Chains(l) \cup {<<>>} \subseteq AllChains \cup {<<>>}
    BY DEF AllChains
  <1>3. disk[l] \in Seq(AnyEvent) /\ index[l].chain \in Seq(AnyEvent)
    BY <1>1, <1>2, AnyChain
  <1>4. Prefix(disk[l], disk[l])
    BY <1>3, PrefixOfItself DEF Prefix
  <1> QED
    BY <1>1, <1>3, <1>4

\* A step that moves one ledger.
LEMMA OneLedger ==
    ASSUME ControlInv, NEW k \in Ledgers, NEW d \in Chains(k) \cup {<<>>}, NEW ff \in SUBSET Chains(k),
           NEW ent \in [chain : Chains(k) \cup {<<>>}, forks : SUBSET ff],
           DirectoryKept(k, disk[k], d), forkFiles[k] \subseteq ff,
           k \notin CutLedgers => Prefix(ent.chain, d) /\ Verifies(d), ff # {} => d # <<>>,
           disk' = [disk EXCEPT ![k] = d], forkFiles' = [forkFiles EXCEPT ![k] = ff],
           index' = [index EXCEPT ![k] = ent]
    PROVE  StoredAfter
  <1>1. /\ disk \in [Ledgers -> AllChains \cup {<<>>}] /\ forkFiles \in [Ledgers -> SUBSET AllChains]
        /\ index \in [Ledgers -> Entries]
    BY DEF ControlInv, Types, Entries
  <1>2. Chains(k) \subseteq AllChains
    BY DEF AllChains
  <1>3. ent \in Entries /\ ent.chain \in Chains(k) \cup {<<>>} /\ ent.forks \subseteq ff
    BY <1>2 DEF Entries
  <1>4. /\ disk' \in [Ledgers -> AllChains \cup {<<>>}] /\ forkFiles' \in [Ledgers -> SUBSET AllChains]
        /\ index' \in [Ledgers -> Entries]
    BY <1>1, <1>2, <1>3
  <1>5. disk'[k] = d /\ forkFiles'[k] = ff /\ index'[k] = ent
    BY <1>1
  <1>6. \A l \in Ledgers : l # k => disk'[l] = disk[l] /\ forkFiles'[l] = forkFiles[l] /\ index'[l] = index[l]
    BY <1>1
  <1>7. ASSUME NEW l \in Ledgers
        PROVE  /\ disk'[l] \in Chains(l) \cup {<<>>} /\ DirectoryKept(l, disk[l], disk'[l])
               /\ forkFiles'[l] \subseteq Chains(l) /\ forkFiles[l] \subseteq forkFiles'[l]
               /\ index'[l].chain \in Chains(l) \cup {<<>>}
               /\ l \notin CutLedgers => Prefix(index'[l].chain, disk'[l]) /\ Verifies(disk'[l])
               /\ index'[l].forks \subseteq forkFiles'[l]
               /\ forkFiles'[l] # {} => disk'[l] # <<>>
    <2>1. CASE l = k
      BY <1>3, <1>5, <2>1
    <2>2. CASE l # k
      BY <1>6, <2>2, LedgerTypes DEF DirectoryKept
    <2> QED
      BY <2>1, <2>2
  <1> QED
    BY <1>4, <1>7 DEF StoredAfter

\* A step that moves none.
LEMMA NoLedger ==
    ASSUME ControlInv, UNCHANGED <<disk, forkFiles, index>>
    PROVE  StoredAfter
  <1>1. /\ disk \in [Ledgers -> AllChains \cup {<<>>}] /\ forkFiles \in [Ledgers -> SUBSET AllChains]
        /\ index \in [Ledgers -> Entries]
    BY DEF ControlInv, Types, Entries
  <1> QED
    BY <1>1, LedgerTypes DEF StoredAfter, DirectoryKept

\* What a thread has read stays there while the files do.
LEMMA TaskKept ==
    ASSUME ControlInv, StoredAfter, NEW t \in Threads
    PROVE  TaskSound(task[t], disk', forkFiles')
  <1> SUFFICES ASSUME task[t] # NoTask
               PROVE  TaskSound(task[t], disk', forkFiles')
    BY DEF TaskSound
  <1> DEFINE l == task[t].ledger
             c == task[t].entry.chain
  <1>1. task[t] \in Tasks
    BY DEF ControlInv, Types, Tasks, Entries
  <1>2. l \in Ledgers
    BY <1>1 DEF Tasks
  <1>3. /\ c \in Chains(l) \cup {<<>>} /\ task[t].entry.forks \subseteq forkFiles[l]
        /\ l \notin CutLedgers => Prefix(c, disk[l])
        /\ task[t].op = "adopt" => l \in Asked
        /\ task[t].op = "note" => l \in WalletLedgers
    BY DEF ControlInv, TaskSound
  <1>4. /\ disk[l] \in Seq(AnyEvent) /\ ValidSetting
        /\ disk'[l] \in Chains(l) \cup {<<>>} /\ forkFiles[l] \subseteq forkFiles'[l]
        /\ l \notin CutLedgers => Prefix(disk[l], disk'[l])
    BY <1>2, LedgerTypes DEF StoredAfter, DirectoryKept
  <1>5. Chains(l) \cup {<<>>} \subseteq AllChains \cup {<<>>}
    BY <1>2 DEF AllChains
  <1> HIDE DEF l, c
  <1>6. c \in Seq(AnyEvent) /\ disk'[l] \in Seq(AnyEvent)
    BY <1>3, <1>4, <1>5, AnyChain
  <1>7. l \notin CutLedgers => Prefix(c, disk'[l])
    BY <1>3, <1>4, <1>6, PrefixTransitive DEF Prefix
  <1> QED
    BY <1>3, <1>4, <1>7 DEF TaskSound, l, c

\* A step that leaves the threads alone.
LEMMA TasksKept ==
    ASSUME ControlInv, StoredAfter, task' = task
    PROVE  TasksAfter
  <1>1. task \in [Threads -> Tasks]
    BY DEF ControlInv, Types, Tasks, Entries
  <1> QED
    BY <1>1, TaskKept DEF TasksAfter

\* A step of one thread.
LEMMA OneTask ==
    ASSUME ControlInv, StoredAfter, NEW t \in Threads, NEW k \in Tasks, TaskSound(k, disk', forkFiles'),
           task' = [task EXCEPT ![t] = k]
    PROVE  TasksAfter
  <1>1. task \in [Threads -> Tasks]
    BY DEF ControlInv, Types, Tasks, Entries
  <1>2. task' \in [Threads -> Tasks]
    BY <1>1
  <1>3. ASSUME NEW s \in Threads
        PROVE  TaskSound(task'[s], disk', forkFiles')
    <2>1. CASE s = t
      <3>1. task'[s] = k
        BY <1>1, <2>1
      <3> QED
        BY <3>1
    <2>2. CASE s # t
      <3>1. task'[s] = task[s]
        BY <1>1, <2>2
      <3> QED
        BY <3>1, TaskKept
    <2> QED
      BY <2>1, <2>2
  <1> QED
    BY <1>2, <1>3 DEF TasksAfter

\* A verdict is one of four.
LEMMA RecheckType ==
    ASSUME NEW entries, NEW e
    PROVE  Recheck(entries, e) \in
             [WitnessFor -> {"none", "no_local_copy", "advertises_nothing", "advertises_others"}]
  BY DEF Recheck, GapFor

-----------------------------------------------------------------------------
(* One lemma for each step that changes more than the answer.              *)

\* An entry with one field changed.
LEMMA EntryFields ==
    ASSUME NEW e \in Entries, NEW x
    PROVE  /\ [e EXCEPT !.forks = x] = [chain |-> e.chain, forks |-> x]
           /\ [e EXCEPT !.chain = x] = [chain |-> x, forks |-> e.forks]
  <1>1. PICK a \in AllChains \cup {<<>>}, b \in SUBSET AllChains : e = [chain |-> a, forks |-> b]
    BY DEF Entries
  <1> QED
    BY <1>1

\* A thread that has read.
LEMMA TaskFields ==
    ASSUME NEW k \in Tasks, k # NoTask, NEW x
    PROVE  /\ k.ledger \in Ledgers
           /\ [k EXCEPT !.entry = x, !.step = "insert"] =
                 [op |-> k.op, ledger |-> k.ledger, step |-> "insert", entry |-> x]
  <1>1. PICK o \in {"note", "adopt"}, g \in Ledgers, b \in {"load", "insert"}, e \in Entries :
           k = [op |-> o, ledger |-> g, step |-> b, entry |-> e]
    BY DEF Tasks
  <1>2. k.op = o /\ k.ledger = g
    BY <1>1
  <1>3. [k EXCEPT !.entry = x, !.step = "insert"] = [op |-> o, ledger |-> g, step |-> "insert", entry |-> x]
    <2> DEFINE j == [k EXCEPT !.entry = x]
    <2>1. j = [op |-> o, ledger |-> g, step |-> b, entry |-> x]
      BY <1>1
    <2>2. [k EXCEPT !.entry = x, !.step = "insert"] = [j EXCEPT !.step = "insert"]
      OBVIOUS
    <2> HIDE DEF j
    <2>3. [j EXCEPT !.step = "insert"] = [op |-> o, ledger |-> g, step |-> "insert", entry |-> x]
      BY <2>1
    <2> QED
      BY <2>2, <2>3
  <1> QED
    BY <1>2, <1>3

\* What a recorded fork is (validate_fork_record).
Evidence(rival, kept) ==
    /\ Len(rival) \in 2..Len(kept)
    /\ Prefix(Front(rival), kept) /\ ~Prefix(rival, kept)
    /\ Last(rival).verifies

\* The first event of a push that differs, when it is a fork, is evidence.
LEMMA RivalFacts ==
    ASSUME ControlInv, NEW l \in Ledgers, NEW c \in AllChains, NEW n \in 1..Len(c),
           EventAt(c, n) # EventAt(disk[l], n), IsFork(l, c, n)
    PROVE  EventAt(c, n) \in Chains(l) /\ Evidence(EventAt(c, n), disk[l])
  <1> DEFINE d == disk[l]
             rival == EventAt(c, n)
  <1>1. /\ ValidSetting /\ d \in Chains(l) \cup {<<>>} /\ d \in Seq(AnyEvent)
    BY LedgerTypes
  <1>3. n \in 2..Len(d) /\ EventAt(c, n - 1) = EventAt(d, n - 1) /\ c[n].verifies
    BY DEF IsFork
  <1>4. c \in Seq(AnyEvent) /\ Len(c) \in Nat /\ Len(d) \in Nat /\ n \in Nat
    BY <1>1, AnyChain
  <1>5. /\ n <= Len(d) /\ n \in 2..Len(d) /\ n - 1 \in 1..Len(d) /\ n - 1 \in 1..Len(c)
        /\ n - 1 \in 0..Len(d) /\ n - 1 \in 0..Len(c) /\ n \in 0..Len(c) /\ 1 \in 1..(n - 1)
        /\ n >= 1 /\ n \in 1..n /\ n - 1 \in 0..n
    BY <1>3, <1>4
  <1>6. d \in Chains(l) /\ d[1] = Inception(l)
    <2>1. d # <<>>
      BY <1>4, <1>5
    <2> QED
      BY <1>1, <2>1, ChainFacts
  <1> HIDE DEF d
  <1>7. c[1] = Inception(l)
    <2>1. /\ SubSeq(c, 1, n - 1)[1] = c[1] /\ SubSeq(d, 1, n - 1)[1] = d[1]
      BY <1>1, <1>4, <1>5, PrefixIsSubSeq
    <2> QED
      BY <1>3, <1>6, <2>1 DEF EventAt
  <1>8. c \in Chains(l)
    BY <1>1, <1>7, ChainOf
  <1>9. rival \in Chains(l) /\ Len(rival) = n /\ rival \in Seq(AnyEvent) /\ rival[n] = c[n]
    BY <1>1, <1>5, <1>8, CutFacts
  <1>10. Prefix(Front(rival), d)
    <2>1. SubSeq(SubSeq(c, 1, n), 1, n - 1) = SubSeq(c, 1, n - 1)
      BY <1>4, <1>5, CutOfCut
    <2>2. Front(rival) = EventAt(d, n - 1)
      BY <1>3, <1>9, <2>1 DEF Front, EventAt
    <2>3. Prefix(EventAt(d, n - 1), d)
      BY <1>1, <1>5, <1>6, CutFacts
    <2> QED
      BY <2>2, <2>3
  <1>11. EventAt(c, n) # EventAt(d, n)
    BY DEF d
  <1>12. ~Prefix(rival, d)
    <2> HIDE DEF rival
    <2> SUFFICES ASSUME Prefix(rival, d)
                 PROVE  FALSE
      OBVIOUS
    <2>1. EventAt(d, Len(rival)) = rival
      BY <1>1, <1>9, PrefixCut
    <2> QED
      BY <1>9, <1>11, <2>1 DEF rival
  <1>13. Last(rival).verifies
    BY <1>3, <1>9 DEF Last
  <1> QED
    BY <1>5, <1>9, <1>10, <1>12, <1>13 DEF Evidence, d

\* What a push that forks records.
LEMMA PushForksStep ==
    ASSUME ControlInv, NEW l \in Ledgers, NEW c \in AllChains, NEW first \in 1..Len(c),
           PushForks(l, c, first)
    PROVE  /\ ControlInv' /\ StoredAfter /\ UNCHANGED <<setting, disk, used, endpoint, verdict, rechecking, task, changes>>
           /\ \E recorded \in SUBSET Chains(l) :
                 /\ forkFiles' = [forkFiles EXCEPT ![l] = @ \cup recorded]
                 /\ index' = [index EXCEPT ![l].forks = @ \cup recorded]
                 /\ \A r \in recorded : Evidence(r, disk[l]) /\ IsRecorded(l, r)
                 /\ \A r, s \in recorded : r = s
           /\ answer' = [code |-> "fork", ledger |-> l]
  <1> DEFINE D == Differs(l, c, first)
             n == Min(D)
             rival == EventAt(c, n)
             recorded == {r \in {rival} : IsRecorded(l, r)}
  <1>1. /\ D # {} /\ IsFork(l, c, Len(rival))
        /\ forkFiles' = [forkFiles EXCEPT ![l] = @ \cup recorded]
        /\ index' = [index EXCEPT ![l].forks = @ \cup recorded]
        /\ UNCHANGED <<setting, disk, used, endpoint, verdict, rechecking, task, changes>>
        /\ answer' = [code |-> "fork", ledger |-> l]
    BY DEF PushForks, Answer
  <1>2. ValidSetting /\ c \in Seq(AnyEvent) /\ Len(c) \in Nat
    BY AnyChain DEF ControlInv
  <1>3. D \subseteq Nat /\ D \subseteq 1..Len(c)
    BY <1>2 DEF Differs
  <1>4. n \in D
    <2>1. \E x \in D : \A y \in D : x <= y
      BY <1>1, <1>3, LeastNatural
    <2> HIDE DEF D
    <2> QED
      BY <2>1 DEF Min
  <1>5. n \in 1..Len(c) /\ (n > Len(disk[l]) \/ EventAt(c, n) # EventAt(disk[l], n))
    BY <1>3, <1>4 DEF Differs
  <1> HIDE DEF n, D
  <1>6. Len(rival) = n
    <2>1. PICK k \in Ledgers : c \in Chains(k)
      BY DEF AllChains
    <2>2. n \in 0..Len(c)
      BY <1>2, <1>5
    <2> QED
      BY <1>2, <2>1, <2>2, CutFacts
  <1>7. rival \in Chains(l) /\ Evidence(rival, disk[l])
    <2>1. n \in 2..Len(disk[l]) /\ IsFork(l, c, n)
      BY <1>1, <1>6 DEF IsFork
    <2>2. Len(disk[l]) \in Nat
      <3>1. disk[l] \in Seq(AnyEvent)
        BY LedgerTypes
      <3> QED
        BY <3>1
    <2>3. EventAt(c, n) # EventAt(disk[l], n)
      BY <1>5, <2>1, <2>2
    <2> QED
      BY <1>5, <2>1, <2>3, RivalFacts
  <1>8. recorded \in SUBSET Chains(l) /\ \A r \in recorded : Evidence(r, disk[l]) /\ IsRecorded(l, r)
    BY <1>7
  <1>9. \A r, s \in recorded : r = s
    OBVIOUS
  <1> HIDE DEF recorded
  <1>10. StoredAfter
    <2> DEFINE ff == forkFiles[l] \cup recorded
               ent == [chain |-> index[l].chain, forks |-> index[l].forks \cup recorded]
    <2>1. /\ disk \in [Ledgers -> AllChains \cup {<<>>}] /\ forkFiles \in [Ledgers -> SUBSET AllChains]
          /\ index \in [Ledgers -> Entries]
      BY DEF ControlInv, Types, Entries
    <2>2. disk' = [disk EXCEPT ![l] = disk[l]]
      BY <1>1, <2>1
    <2>3. forkFiles' = [forkFiles EXCEPT ![l] = ff]
      BY <1>1, <2>1
    <2>4. index' = [index EXCEPT ![l] = ent]
      <3>1. index' = [index EXCEPT ![l] = [index[l] EXCEPT !.forks = index[l].forks \cup recorded]]
        BY <1>1, <2>1
      <3>2. index[l] \in Entries
        BY <2>1
      <3>3. [index[l] EXCEPT !.forks = index[l].forks \cup recorded] = ent
        BY <3>2, EntryFields
      <3> QED
        BY <3>1, <3>3
    <2>5. /\ disk[l] \in Chains(l) \cup {<<>>} /\ ff \in SUBSET Chains(l) /\ forkFiles[l] \subseteq ff
          /\ ent \in [chain : Chains(l) \cup {<<>>}, forks : SUBSET ff]
          /\ DirectoryKept(l, disk[l], disk[l])
          /\ l \notin CutLedgers => Prefix(ent.chain, disk[l]) /\ Verifies(disk[l])
      BY <1>8, LedgerTypes DEF DirectoryKept
    <2>6. disk[l] # <<>>
      <3>1. Len(rival) \in 2..Len(disk[l])
        BY <1>7 DEF Evidence
      <3>2. disk[l] = <<>> => Len(disk[l]) = 0
        OBVIOUS
      <3> QED
        BY <3>1, <3>2
    <2> HIDE DEF ff, ent
    <2> QED
      BY <2>2, <2>3, <2>4, <2>5, <2>6, OneLedger
  <1>11. TasksAfter
    BY <1>1, <1>10, TasksKept
  <1>12. RestAfter
    BY <1>1 DEF ControlInv, Types, RestAfter
  <1>13. ControlInv'
    BY <1>1, <1>10, <1>11, <1>12, ControlAfter
  <1> QED
    BY <1>1, <1>8, <1>9, <1>10, <1>13

\* What load_entry reads of a ledger.
LEMMA OnDiskFacts ==
    ASSUME ControlInv, NEW l \in Ledgers
    PROVE  /\ OnDisk(l) \in [chain : Chains(l) \cup {<<>>}, forks : SUBSET forkFiles[l]]
           /\ OnDisk(l).chain \in Chains(l) \cup {<<>>}
           /\ l \notin CutLedgers => OnDisk(l).chain = disk[l]
           /\ OnDisk(l).forks = forkFiles[l]
           /\ OnDisk(l) \in Entries
  <1>1. /\ ValidSetting /\ disk[l] \in Chains(l) \cup {<<>>} /\ forkFiles[l] \subseteq Chains(l)
        /\ l \notin CutLedgers => Verifies(disk[l])
        /\ forkFiles[l] # {} => disk[l] # <<>>
    BY LedgerTypes
  <1>2. Chains(l) \subseteq AllChains
    BY DEF AllChains
  <1>3. CASE disk[l] = <<>>
    <2>1. OnDisk(l) = NoEntry /\ forkFiles[l] = {}
      BY <1>1, <1>3 DEF OnDisk
    <2> QED
      BY <1>3, <2>1 DEF NoEntry, Entries
  <1>4. CASE disk[l] # <<>>
    <2> DEFINE d == disk[l]
               none == <<>>
               n == ValidLength(none, d)
               c == EventAt(d, n)
    <2>1. OnDisk(l) = [chain |-> c, forks |-> forkFiles[l]]
      BY <1>4 DEF OnDisk
    <2>2. d \in Chains(l)
      BY <1>1, <1>4
    <2> HIDE DEF d
    <2>3. d \in Seq(AnyEvent) /\ Len(d) \in Nat
      BY <1>1, <2>2, ChainFacts
    <2>4. none \in Seq(AnyEvent) /\ Len(none) = 0
      OBVIOUS
    <2>5. Prefix(none, d)
      BY <2>3, EmptyPrefix DEF Prefix
    <2> HIDE DEF none
    <2>6. /\ n \in Len(none)..Len(d)
          /\ (\A m \in (Len(none) + 1)..Len(d) : d[m].verifies) => n = Len(d)
      BY <2>3, <2>4, <2>5, ValidLengthFacts
    <2>7. n \in 0..Len(d) /\ (Verifies(d) => n = Len(d))
      BY <2>4, <2>6 DEF Verifies
    <2> HIDE DEF n
    <2>8. c \in Chains(l) \cup {<<>>}
      BY <1>1, <2>2, <2>7, CutFacts
    <2>9. Verifies(d) => c = d
      <3>1. EventAt(d, Len(d)) = d
        BY <2>3, SubSeqFull DEF EventAt
      <3> QED
        BY <2>7, <3>1
    <2>10. l \notin CutLedgers => c = disk[l]
      BY <1>1, <2>9 DEF d
    <2> HIDE DEF c
    <2>11. OnDisk(l) \in [chain : Chains(l) \cup {<<>>}, forks : SUBSET forkFiles[l]]
      BY <2>1, <2>8
    <2> QED
      BY <1>1, <1>2, <2>1, <2>8, <2>10, <2>11 DEF Entries
  <1> QED
    BY <1>3, <1>4

\* A push that stores extends the chain held by what verifies of it.
LEMMA PushStoresStep ==
    ASSUME ControlInv, NEW l \in Ledgers, NEW c \in AllChains, NEW first \in 1..Len(c),
           PushStores(l, c, first)
    PROVE  LET p == index[l].chain
               q == Pushed(l, c)
           IN /\ ControlInv' /\ StoredAfter /\ q \in Chains(l) \cup {<<>>} /\ Prefix(p, q)
              /\ UNCHANGED <<setting, forkFiles, endpoint, rechecking, task, changes>>
              /\ Admits(l, p, q)
              /\ q # p => WithinCaps(l, q)
              /\ \A k \in Ledgers : k # l => disk'[k] = disk[k]
              /\ l \notin CutLedgers => disk'[l] \in {disk[l], q}
              /\ index' = [index EXCEPT ![l] = [chain |-> q, forks |-> index[l].forks]]
              /\ used' = used + BytesOf(q) - BytesOf(p)
              /\ verdict' = IF l \in WitnessFor /\ q # p THEN Recheck(index', endpoint) ELSE verdict
              /\ answer'.code \in {"ok", "invalid"} /\ answer'.ledger = l
  <1> DEFINE p == index[l].chain
             q == Pushed(l, c)
             d == IF q = p THEN disk[l] ELSE Landed(l, q)
             ent == [chain |-> q, forks |-> index[l].forks]
  <1>1. /\ Splices(l, c, first) /\ Admits(l, p, q)
        /\ q # p => WithinCaps(l, q) /\ StartsAtHead(l)
        /\ disk' = [disk EXCEPT ![l] = IF q = p THEN @ ELSE Landed(l, q)]
        /\ index' = [index EXCEPT ![l].chain = q]
        /\ used' = used + BytesOf(q) - BytesOf(p)
        /\ verdict' = IF l \in WitnessFor /\ q # p THEN Recheck(index', endpoint) ELSE verdict
        /\ answer' = [code |-> IF q = c THEN "ok" ELSE "invalid", ledger |-> l]
        /\ UNCHANGED <<setting, forkFiles, endpoint, rechecking, task, changes>>
    BY DEF PushStores, Answer
  <1>2. /\ ValidSetting /\ disk[l] \in Chains(l) \cup {<<>>} /\ p \in Chains(l) \cup {<<>>}
        /\ disk[l] \in Seq(AnyEvent) /\ p \in Seq(AnyEvent)
        /\ forkFiles[l] \subseteq Chains(l) /\ index[l].forks \subseteq forkFiles[l]
        /\ l \notin CutLedgers => Prefix(p, disk[l]) /\ Verifies(disk[l])
        /\ Prefix(disk[l], disk[l]) /\ (forkFiles[l] # {} => disk[l] # <<>>)
    BY LedgerTypes
  <1>3. /\ disk \in [Ledgers -> AllChains \cup {<<>>}] /\ forkFiles \in [Ledgers -> SUBSET AllChains]
        /\ index \in [Ledgers -> Entries]
    BY DEF ControlInv, Types, Entries
  <1>4. /\ q \in Chains(l) \cup {<<>>} /\ Prefix(p, q)
        /\ \A m \in (Len(p) + 1)..Len(q) : q[m].verifies
    BY <1>1, <1>2, PushedFacts DEF Splices
  <1>5. q \in Seq(AnyEvent) /\ Len(q) \in Nat /\ Len(p) \in Nat /\ Len(disk[l]) \in Nat
    <2>1. q \in AllChains \cup {<<>>}
      BY <1>4 DEF AllChains
    <2> QED
      BY <1>2, <2>1, AnyChain
  <1>6. ASSUME q # p
        PROVE  /\ d \in Chains(l) /\ Prefix(disk[l], d)
               /\ l \notin CutLedgers => d = q /\ Prefix(q, d) /\ Verifies(q)
    <2>1. Len(disk[l]) = Len(p) /\ d = Landed(l, q)
      BY <1>1, <1>6 DEF StartsAtHead
    <2>2. disk[l] # p => l \in CutLedgers
      <3> SUFFICES ASSUME l \notin CutLedgers
                   PROVE  disk[l] = p
        OBVIOUS
      <3>1. \A k \in 1..Len(p) : p[k] = disk[l][k]
        BY <1>2, PrefixCut
      <3> QED
        BY <1>2, <2>1, <3>1, SeqEqual
    <2>3. q \in Chains(l)
      <3> SUFFICES ASSUME q = <<>>
                   PROVE  FALSE
        BY <1>4
      <3>1. Len(p) <= Len(q) /\ Len(q) = 0
        BY <1>2, <1>4, <1>5, PrefixCut
      <3>2. p \in AllChains \cup {<<>>}
        BY <1>2 DEF AllChains
      <3> HIDE DEF p, q
      <3>3. p = <<>>
        BY <1>2, <1>5, <3>1, <3>2, AnyChain
      <3> QED
        BY <1>6, <3>3
    <2>4. /\ Landed(l, q) \in Chains(l) /\ Prefix(disk[l], Landed(l, q))
          /\ disk[l] = p => Landed(l, q) = q
      <3> HIDE DEF q
      <3> QED
        BY <1>2, <1>4, <2>1, <2>2, <2>3, LandedFacts
    <2>5. ASSUME l \notin CutLedgers
          PROVE  Verifies(q) /\ Prefix(q, q) /\ Landed(l, q) = q
      <3>1. disk[l] = p /\ Verifies(p)
        BY <1>2, <2>2, <2>5
      <3>2. Len(p) <= Len(q) /\ \A k \in 1..Len(p) : p[k] = q[k]
        BY <1>2, <1>4, <1>5, PrefixCut
      <3>3. ASSUME NEW k \in 1..Len(q)
            PROVE  q[k].verifies
        <4>1. k \in 1..Len(p) \/ k \in (Len(p) + 1)..Len(q)
          BY <1>5, <3>2
        <4> QED
          BY <1>4, <3>1, <3>2, <4>1 DEF Verifies
      <3>4. Prefix(q, q)
        BY <1>5, PrefixOfItself DEF Prefix
      <3> QED
        BY <2>4, <3>1, <3>3, <3>4 DEF Verifies
    <2> QED
      BY <2>1, <2>4, <2>5
  <1>7. disk' = [disk EXCEPT ![l] = d] /\ forkFiles' = [forkFiles EXCEPT ![l] = forkFiles[l]]
    BY <1>1, <1>3
  <1>8. index' = [index EXCEPT ![l] = ent]
    <2>1. index' = [index EXCEPT ![l] = [index[l] EXCEPT !.chain = q]]
      BY <1>1, <1>3
    <2>2. [index[l] EXCEPT !.chain = q] = ent
      BY <1>3, EntryFields
    <2> QED
      BY <2>1, <2>2
  <1> HIDE DEF q
  <1>9. StoredAfter
    <2>1. /\ forkFiles[l] \in SUBSET Chains(l)
          /\ ent \in [chain : Chains(l) \cup {<<>>}, forks : SUBSET forkFiles[l]] /\ ent.chain = q
      BY <1>2, <1>4
    <2>2. /\ d \in Chains(l) \cup {<<>>} /\ Prefix(disk[l], d)
          /\ l \notin CutLedgers => Prefix(q, d) /\ Verifies(d)
          /\ forkFiles[l] # {} => d # <<>>
      <3>1. CASE q = p
        BY <1>2, <3>1
      <3>2. CASE q # p
        <4>1. d # <<>>
          <5> HIDE DEF d
          <5> QED
            BY <1>2, <1>6, <3>2, ChainFacts
        <4> QED
          BY <1>6, <3>2, <4>1
      <3> QED
        BY <3>1, <3>2
    <2> HIDE DEF d, ent
    <2> QED
      BY <1>7, <1>8, <2>1, <2>2, OneLedger DEF DirectoryKept
  <1>10. TasksAfter
    BY <1>1, <1>9, TasksKept
  <1>11. RestAfter
    <2>1. Recheck(index', endpoint) \in
             [WitnessFor -> {"none", "no_local_copy", "advertises_nothing", "advertises_others"}]
      BY RecheckType
    <2> QED
      BY <1>1, <2>1 DEF ControlInv, Types, RestAfter
  <1>12. ControlInv'
    BY <1>1, <1>9, <1>10, <1>11, ControlAfter
  <1>13. /\ \A k \in Ledgers : k # l => disk'[k] = disk[k]
         /\ l \notin CutLedgers => disk'[l] \in {disk[l], q}
    <2>1. disk'[l] = d /\ \A k \in Ledgers : k # l => disk'[k] = disk[k]
      BY <1>3, <1>7
    <2>2. l \notin CutLedgers => d \in {disk[l], q}
      BY <1>6
    <2> QED
      BY <2>1, <2>2
  <1> QED
    BY <1>1, <1>4, <1>7, <1>8, <1>9, <1>12, <1>13 DEF q

\* A local writer leaves chain d in a directory.
LEMMA WriteStep ==
    ASSUME ControlInv, NEW l \in Ledgers, NEW d \in Chains(l), DirectoryKept(l, disk[l], d),
           l \notin CutLedgers => Prefix(disk[l], d) /\ Verifies(d),
           disk' = [disk EXCEPT ![l] = d], answer' = NoAnswer,
           UNCHANGED <<setting, forkFiles, index, used, endpoint, verdict, rechecking, changes>>,
           l \in WalletLedgers \cup ToolLedgers,
           \/ task' = task
           \/ /\ l \in WalletLedgers
              /\ task' = [task EXCEPT ![Writer] =
                             [op |-> "note", ledger |-> l, entry |-> NoEntry, step |-> "load"]]
    PROVE  /\ ControlInv' /\ StoredAfter
           /\ UNCHANGED <<setting, forkFiles, index, used, endpoint, verdict, rechecking, changes>>
           /\ \A k \in Ledgers : k # l => disk'[k] = disk[k]
           /\ answer' = NoAnswer
           /\ \A t \in Threads : task'[t] # NoTask /\ task'[t].op = "adopt" => task'[t] = task[t]
           /\ l \in WalletLedgers \cup ToolLedgers
           /\ \A t \in Threads : task'[t] = task[t] \/ task'[t].entry = NoEntry
  <1> DEFINE note == [op |-> "note", ledger |-> l, entry |-> NoEntry, step |-> "load"]
  <1>2. /\ ValidSetting /\ disk[l] \in Chains(l) \cup {<<>>} /\ index[l].chain \in Chains(l) \cup {<<>>}
        /\ disk[l] \in Seq(AnyEvent) /\ index[l].chain \in Seq(AnyEvent)
        /\ forkFiles[l] \subseteq Chains(l) /\ index[l].forks \subseteq forkFiles[l]
        /\ l \notin CutLedgers => Prefix(index[l].chain, disk[l])
        /\ index[l] \in Entries
    BY LedgerTypes
  <1>3. /\ disk \in [Ledgers -> AllChains \cup {<<>>}] /\ forkFiles \in [Ledgers -> SUBSET AllChains]
        /\ index \in [Ledgers -> Entries]
    BY DEF ControlInv, Types, Entries
  <1>4. d \in Seq(AnyEvent) /\ d # <<>>
    BY <1>2, ChainFacts
  <1>5. l \notin CutLedgers => Prefix(index[l].chain, d) /\ Verifies(d)
    BY <1>2, <1>4, PrefixTransitive DEF Prefix
  <1>6. StoredAfter
    <2>1. forkFiles' = [forkFiles EXCEPT ![l] = forkFiles[l]] /\ index' = [index EXCEPT ![l] = index[l]]
      BY <1>3
    <2>2. /\ d \in Chains(l) \cup {<<>>} /\ forkFiles[l] \in SUBSET Chains(l)
          /\ index[l] \in [chain : Chains(l) \cup {<<>>}, forks : SUBSET forkFiles[l]]
      BY <1>2 DEF Entries
    <2> QED
      BY <1>4, <1>5, <2>1, <2>2, OneLedger
  <1>7. TasksAfter
    <2>1. CASE task' = task
      BY <1>6, <2>1, TasksKept
    <2>2. CASE l \in WalletLedgers /\ task' = [task EXCEPT ![Writer] = note]
      <3>1. note \in Tasks /\ Writer \in Threads
        BY DEF Tasks, Entries, NoEntry, Threads
      <3>2. TaskSound(note, disk', forkFiles')
        <4>1. disk'[l] \in Seq(AnyEvent)
          BY <1>3, <1>4
        <4>2. IsPrefix(<<>>, disk'[l])
          BY <4>1, EmptyPrefix
        <4> QED
          BY <2>2, <4>2 DEF TaskSound, NoEntry, Prefix
      <3> HIDE DEF note
      <3> QED
        BY <1>6, <2>2, <3>1, <3>2, OneTask
    <2> QED
      BY <2>1, <2>2
  <1>8. RestAfter
    BY DEF ControlInv, Types, RestAfter
  <1>9. ControlInv'
    BY <1>6, <1>7, <1>8, ControlAfter
  <1>10. \A k \in Ledgers : k # l => disk'[k] = disk[k]
    BY <1>3
  <1>11. \A t \in Threads : task'[t] = task[t] \/ task'[t] = note
    <2>1. task \in [Threads -> Tasks]
      BY DEF ControlInv, Types, Tasks, Entries
    <2> QED
      BY <2>1
  <1>12. note.op = "note" /\ note.entry = NoEntry
    OBVIOUS
  <1> HIDE DEF note
  <1> QED
    BY <1>6, <1>9, <1>10, <1>11, <1>12

\* The wallet of this process, or a second process, appends to a directory.
LEMMA AppendStep ==
    ASSUME ControlInv, NEW l \in Ledgers, NEW e \in EventsOf[l],
           (l \in WalletLedgers /\ WalletAppend(l, e)) \/ (l \in ToolLedgers /\ ToolAppend(l, e))
    PROVE  /\ ControlInv' /\ StoredAfter
           /\ UNCHANGED <<setting, forkFiles, index, used, endpoint, verdict, rechecking, changes>>
           /\ \A k \in Ledgers : k # l => disk'[k] = disk[k]
           /\ answer' = NoAnswer
           /\ \A t \in Threads : task'[t] # NoTask /\ task'[t].op = "adopt" => task'[t] = task[t]
           /\ l \in WalletLedgers \cup ToolLedgers
           /\ \A t \in Threads : task'[t] = task[t] \/ task'[t].entry = NoEntry
  <1> DEFINE d == Extended(l, e)
  <1>1. /\ Extends(l, e) /\ disk' = [disk EXCEPT ![l] = d] /\ answer' = NoAnswer
        /\ UNCHANGED <<setting, forkFiles, index, used, endpoint, verdict, rechecking, changes>>
        /\ \/ task' = task
           \/ /\ l \in WalletLedgers
              /\ task' = [task EXCEPT ![Writer] =
                             [op |-> "note", ledger |-> l, entry |-> NoEntry, step |-> "load"]]
    BY DEF WalletAppend, ToolAppend
  <1>2. /\ ValidSetting /\ disk[l] \in Chains(l) \cup {<<>>} /\ disk[l] \in Seq(AnyEvent)
        /\ Verifies(disk[l]) /\ Len(disk[l]) < MaxLen /\ e.verifies
    BY <1>1, LedgerTypes DEF Extends
  <1>3. d \in Chains(l) /\ Prefix(disk[l], d)
    BY <1>2, ExtendedFacts
  <1>4. Verifies(d)
    <2>1. CASE disk[l] = <<>>
      <3>1. d = <<Inception(l)>>
        BY <2>1 DEF Extended
      <3>2. Len(d) = 1 /\ d[1] = Inception(l)
        BY <3>1
      <3> HIDE DEF d
      <3> QED
        BY <3>2 DEF Verifies, Inception
    <2>2. CASE disk[l] # <<>>
      <3>1. d = Append(disk[l], e)
        BY <2>2 DEF Extended
      <3>2. e \in AnyEvent
        BY <1>2 DEF AnyEvent, ValidSetting
      <3>3. Len(d) = Len(disk[l]) + 1 /\ d[Len(disk[l]) + 1] = e
            /\ \A n \in 1..Len(disk[l]) : d[n] = disk[l][n]
        BY <1>2, <3>1, <3>2
      <3>4. Len(disk[l]) \in Nat
        BY <1>2
      <3> HIDE DEF d
      <3> QED
        BY <1>2, <3>3, <3>4 DEF Verifies
    <2> QED
      BY <2>1, <2>2
  <1> HIDE DEF d
  <1>5. DirectoryKept(l, disk[l], d)
    BY <1>3 DEF DirectoryKept
  <1> QED
    BY <1>1, <1>3, <1>4, <1>5, WriteStep

\* The wallet, or a second process, discards its branch of a ledger.
LEMMA CutStep ==
    ASSUME ControlInv, NEW l \in Ledgers, NEW n \in 1..(Len(disk[l]) - 1),
           \/ l \in WalletLedgers \cap SignsFor /\ WalletCut(l, n)
           \/ l \in ToolLedgers /\ ToolCut(l, n)
    PROVE  /\ ControlInv' /\ StoredAfter
           /\ UNCHANGED <<setting, forkFiles, index, used, endpoint, verdict, rechecking, changes>>
           /\ \A k \in Ledgers : k # l => disk'[k] = disk[k]
           /\ answer' = NoAnswer
           /\ \A t \in Threads : task'[t] # NoTask /\ task'[t].op = "adopt" => task'[t] = task[t]
           /\ l \in WalletLedgers \cup ToolLedgers
           /\ \A t \in Threads : task'[t] = task[t] \/ task'[t].entry = NoEntry
  <1> DEFINE d == EventAt(disk[l], n)
  <1>1. disk \in [Ledgers -> AllChains \cup {<<>>}]
    BY DEF ControlInv, Types
  <1>2. /\ disk' = [disk EXCEPT ![l] = d] /\ answer' = NoAnswer
        /\ UNCHANGED <<setting, forkFiles, index, used, endpoint, verdict, rechecking, changes>>
        /\ l \in WalletLedgers \cup ToolLedgers
        /\ \/ task' = task
           \/ /\ l \in WalletLedgers
              /\ task' = [task EXCEPT ![Writer] =
                             [op |-> "note", ledger |-> l, entry |-> NoEntry, step |-> "load"]]
    BY <1>1 DEF WalletCut, ToolCut
  <1>3. l \in CutLedgers
    BY DEF CutLedgers
  <1>4. /\ ValidSetting /\ disk[l] \in Chains(l) \cup {<<>>} /\ disk[l] \in Seq(AnyEvent)
        /\ Len(disk[l]) \in Nat
    BY LedgerTypes
  <1>5. n \in 0..Len(disk[l]) /\ n # 0 /\ disk[l] # <<>>
    BY <1>4
  <1>6. d \in Chains(l) /\ Prefix(d, disk[l]) /\ d # <<>>
    <2>1. d \in Chains(l) \cup {<<>>} /\ Len(d) = n /\ Prefix(d, disk[l])
      BY <1>4, <1>5, CutFacts
    <2> HIDE DEF d
    <2> QED
      BY <1>5, <2>1
  <1> HIDE DEF d
  <1>7. DirectoryKept(l, disk[l], d)
    BY <1>2, <1>3, <1>6 DEF DirectoryKept
  <1> QED
    BY <1>2, <1>3, <1>6, <1>7, WriteStep

\* A read misses the index, or a thread reads the directory.
LEMMA ReadStep ==
    ASSUME ControlInv, NEW t \in Threads, LoadEntry(t) \/ (\E l \in Asked : Miss(t, l))
    PROVE  /\ ControlInv' /\ StoredAfter
           /\ UNCHANGED <<setting, disk, forkFiles, index, used, endpoint, verdict, rechecking, changes>>
           /\ answer' = NoAnswer
           /\ \A s \in Threads : \/ task'[s] = task[s] \/ task'[s].entry = NoEntry
                                 \/ /\ task[s] # NoTask /\ task'[s].ledger = task[s].ledger
                                    /\ task'[s].entry = OnDisk(task[s].ledger)
  <1>1. /\ UNCHANGED <<setting, disk, forkFiles, index, used, endpoint, verdict, rechecking, changes>>
        /\ answer' = NoAnswer
    BY DEF LoadEntry, Miss
  <1>2. StoredAfter
    BY <1>1, NoLedger
  <1>3. task \in [Threads -> Tasks] /\ ValidSetting
    BY DEF ControlInv, Types, Tasks, Entries
  <1>4. RestAfter
    BY <1>1 DEF ControlInv, Types, RestAfter
  <1>5. ASSUME NEW l \in Asked, Miss(t, l)
        PROVE  TasksAfter /\ \A s \in Threads : task'[s] = task[s] \/ task'[s].entry = NoEntry
    <2> DEFINE k == [op |-> "adopt", ledger |-> l, entry |-> NoEntry, step |-> "load"]
    <2>1. task' = [task EXCEPT ![t] = k] /\ l \in Ledgers
      BY <1>3, <1>5 DEF Miss, ValidSetting
    <2>2. k \in Tasks /\ k.entry = NoEntry
      BY <2>1 DEF Tasks, Entries, NoEntry
    <2>3. TaskSound(k, disk', forkFiles')
      <3>1. disk'[l] \in Seq(AnyEvent)
        BY <1>1, <2>1, LedgerTypes
      <3>2. IsPrefix(<<>>, disk'[l])
        BY <3>1, EmptyPrefix
      <3> QED
        BY <3>2 DEF TaskSound, NoEntry, Prefix
    <2> HIDE DEF k
    <2>4. TasksAfter
      BY <1>2, <2>1, <2>2, <2>3, OneTask
    <2> QED
      BY <1>3, <2>1, <2>2, <2>4
  <1>6. ASSUME LoadEntry(t)
        PROVE  /\ TasksAfter
               /\ \A s \in Threads : task'[s] = task[s] \/
                     (/\ task[s] # NoTask /\ task'[s].ledger = task[s].ledger
                      /\ task'[s].entry = OnDisk(task[s].ledger))
    <2> DEFINE l == task[t].ledger
               k == [op |-> task[t].op, ledger |-> l, step |-> "insert", entry |-> OnDisk(l)]
    <2>1. /\ task[t] # NoTask
          /\ task' = [task EXCEPT ![t] = [task[t] EXCEPT !.entry = OnDisk(l), !.step = "insert"]]
      BY <1>3, <1>6 DEF LoadEntry
    <2>2. task[t].op \in {"note", "adopt"}
      BY <1>3, <2>1 DEF Tasks
    <2>3. [task[t] EXCEPT !.entry = OnDisk(l), !.step = "insert"] = k /\ l \in Ledgers
      BY <1>3, <2>1, TaskFields
    <2>4. /\ OnDisk(l) \in Entries /\ OnDisk(l).forks \subseteq forkFiles[l]
          /\ l \notin CutLedgers => OnDisk(l).chain = disk[l]
          /\ OnDisk(l).chain \in Chains(l) \cup {<<>>} /\ Prefix(disk[l], disk[l])
      BY <2>3, OnDiskFacts, LedgerTypes
    <2>5. k \in Tasks /\ k.ledger = l /\ k.entry = OnDisk(l)
      <3> DEFINE o == task[t].op
                 e == OnDisk(l)
      <3>1. o \in {"note", "adopt"} /\ l \in Ledgers /\ e \in Entries
        BY <2>2, <2>3, <2>4
      <3> HIDE DEF o, e, l
      <3>2. [op |-> o, ledger |-> l, step |-> "insert", entry |-> e] \in Tasks
        BY <3>1 DEF Tasks
      <3> QED
        BY <3>2 DEF o, e, l
    <2>6. TaskSound(k, disk', forkFiles')
      <3>1. TaskSound(task[t], disk, forkFiles)
        BY DEF ControlInv
      <3> QED
        BY <1>1, <2>1, <2>4, <3>1 DEF TaskSound
    <2>7. task' = [task EXCEPT ![t] = k]
      BY <2>1, <2>3
    <2> HIDE DEF k
    <2>8. TasksAfter
      BY <1>2, <2>5, <2>6, <2>7, OneTask
    <2> QED
      BY <1>3, <2>1, <2>5, <2>7, <2>8
  <1>7. TasksAfter
    BY <1>5, <1>6
  <1>8. ControlInv'
    BY <1>1, <1>2, <1>4, <1>7, ControlAfter
  <1> QED
    BY <1>1, <1>2, <1>5, <1>6, <1>8

\* A thread that has read puts the entry in, and is done.
LEMMA InsertStep ==
    ASSUME ControlInv, NEW t \in Threads, NoteLedger(t) \/ Adopt(t)
    PROVE  LET l == task[t].ledger
               read == task[t].entry
           IN /\ ControlInv' /\ StoredAfter
              /\ UNCHANGED <<setting, disk, forkFiles, endpoint, rechecking, changes>>
              /\ answer' = NoAnswer /\ task[t] # NoTask
              /\ l \in Ledgers /\ read.chain \in Chains(l) \cup {<<>>} /\ l \in Asked \cup WalletLedgers
              /\ index' = [index EXCEPT ![l] = read] \/ (index' = index /\ read = NoEntry /\ Adopt(t))
              /\ \/ /\ NoteLedger(t) /\ used' = used - BytesOf(index[l].chain) + BytesOf(read.chain)
                    /\ verdict' = IF l \in WitnessFor THEN Recheck(index', endpoint) ELSE verdict
                 \/ /\ Adopt(t) /\ l \in Asked /\ used' = used + BytesOf(read.chain) /\ verdict' = verdict
              /\ \A s \in Threads : task'[s] \in {task[s], NoTask}
  <1> DEFINE l == task[t].ledger
             read == task[t].entry
  <1>1. /\ UNCHANGED <<setting, disk, forkFiles, endpoint, rechecking, changes>>
        /\ answer' = NoAnswer /\ task[t] # NoTask /\ task' = [task EXCEPT ![t] = NoTask]
        /\ \/ /\ NoteLedger(t) /\ task[t].op = "note" /\ index' = [index EXCEPT ![l] = read]
              /\ used' = used - BytesOf(index[l].chain) + BytesOf(read.chain)
              /\ verdict' = IF l \in WitnessFor THEN Recheck(index', endpoint) ELSE verdict
           \/ /\ Adopt(t) /\ task[t].op = "adopt"
              /\ index' = IF read = NoEntry THEN index ELSE [index EXCEPT ![l] = read]
              /\ used' = used + BytesOf(read.chain) /\ verdict' = verdict
    BY DEF NoteLedger, Adopt
  <1>2. task \in [Threads -> Tasks]
    BY DEF ControlInv, Types, Tasks, Entries
  <1>3. /\ disk \in [Ledgers -> AllChains \cup {<<>>}] /\ forkFiles \in [Ledgers -> SUBSET AllChains]
        /\ index \in [Ledgers -> Entries]
    BY DEF ControlInv, Types, Entries
  <1>4. l \in Ledgers /\ read \in Entries
    BY <1>1, <1>2 DEF Tasks
  <1>5. /\ read.chain \in Chains(l) \cup {<<>>}
        /\ l \notin CutLedgers => Prefix(read.chain, disk[l])
        /\ read.forks \subseteq forkFiles[l]
        /\ task[t].op = "adopt" => l \in Asked
        /\ task[t].op = "note" => l \in WalletLedgers
    BY <1>1 DEF ControlInv, TaskSound
  <1>6. StoredAfter
    <2>1. CASE index' = index
      BY <1>1, <2>1, NoLedger
    <2>2. CASE index' = [index EXCEPT ![l] = read]
      <3>1. disk' = [disk EXCEPT ![l] = disk[l]] /\ forkFiles' = [forkFiles EXCEPT ![l] = forkFiles[l]]
        BY <1>1, <1>3
      <3>2. /\ read \in [chain : Chains(l) \cup {<<>>}, forks : SUBSET forkFiles[l]]
            /\ disk[l] \in Chains(l) \cup {<<>>} /\ forkFiles[l] \in SUBSET Chains(l)
            /\ DirectoryKept(l, disk[l], disk[l]) /\ (l \notin CutLedgers => Verifies(disk[l]))
            /\ forkFiles[l] # {} => disk[l] # <<>>
        <4>1. /\ disk[l] \in Chains(l) \cup {<<>>} /\ forkFiles[l] \in SUBSET Chains(l)
              /\ Prefix(disk[l], disk[l]) /\ (l \notin CutLedgers => Verifies(disk[l]))
              /\ forkFiles[l] # {} => disk[l] # <<>>
          BY <1>4, LedgerTypes
        <4> HIDE DEF l, read
        <4> QED
          BY <1>4, <1>5, <4>1 DEF Entries, DirectoryKept
      <3> HIDE DEF l, read
      <3> QED
        BY <1>4, <1>5, <2>2, <3>1, <3>2, OneLedger
    <2> QED
      BY <1>1, <2>1, <2>2
  <1>7. TasksAfter
    <2>1. NoTask \in Tasks /\ TaskSound(NoTask, disk', forkFiles')
      BY DEF Tasks, TaskSound
    <2> QED
      BY <1>1, <1>6, <2>1, OneTask
  <1>8. RestAfter
    <2>1. Recheck(index', endpoint) \in
             [WitnessFor -> {"none", "no_local_copy", "advertises_nothing", "advertises_others"}]
      BY RecheckType
    <2> QED
      BY <1>1, <2>1 DEF ControlInv, Types, RestAfter
  <1>9. ControlInv'
    BY <1>1, <1>6, <1>7, <1>8, ControlAfter
  <1>10. \A s \in Threads : task'[s] \in {task[s], NoTask}
    BY <1>1, <1>2
  <1> QED
    BY <1>1, <1>4, <1>5, <1>6, <1>9, <1>10

\* A change of endpoint, and the recheck after it.
LEMMA EndpointStep ==
    ASSUME ControlInv, RecheckEndpoint \/ (\E e \in Endpoints : SetEndpoint(e))
    PROVE  /\ ControlInv' /\ StoredAfter
           /\ UNCHANGED <<setting, disk, forkFiles, index, used, task>> /\ answer' = NoAnswer
           /\ \/ endpoint' = endpoint /\ verdict' = Recheck(index, endpoint)
              \/ rechecking' = TRUE /\ verdict' = verdict
  <1>1. UNCHANGED <<setting, disk, forkFiles, index, used, task>> /\ answer' = NoAnswer
    BY DEF RecheckEndpoint, SetEndpoint
  <1>2. StoredAfter
    BY <1>1, NoLedger
  <1>3. TasksAfter
    BY <1>1, <1>2, TasksKept
  <1>4. Recheck(index, endpoint) \in
             [WitnessFor -> {"none", "no_local_copy", "advertises_nothing", "advertises_others"}]
    BY RecheckType
  <1>5. RestAfter
    <2>1. CASE RecheckEndpoint
      BY <1>4, <2>1 DEF RecheckEndpoint, ControlInv, Types, RestAfter
    <2>2. ASSUME NEW e \in Endpoints, SetEndpoint(e)
          PROVE  RestAfter
      <3>1. changes \in 0..MaxEndpointChanges /\ changes < MaxEndpointChanges /\ changes' = changes + 1
        BY <2>2 DEF SetEndpoint, ControlInv, Types
      <3>2. changes' \in 0..MaxEndpointChanges
        BY <3>1, BoundsAssumption
      <3> QED
        BY <2>2, <3>2 DEF SetEndpoint, ControlInv, Types, RestAfter
    <2> QED
      BY <2>1, <2>2
  <1>6. ControlInv'
    BY <1>1, <1>2, <1>3, <1>5, ControlAfter
  <1> QED
    BY <1>1, <1>2, <1>6 DEF RecheckEndpoint, SetEndpoint

\* The process starts again.
LEMMA RestartStep ==
    ASSUME ControlInv, Restart
    PROVE  /\ ControlInv' /\ StoredAfter /\ UNCHANGED <<setting, disk, forkFiles, endpoint, changes>>
           /\ index' = [l \in Ledgers |-> OnDisk(l)]
           /\ used' = SumFunctionOnSet([l \in Ledgers |-> BytesOf(OnDisk(l).chain)], Ledgers)
           /\ verdict' = Recheck(index', endpoint) /\ answer' = NoAnswer
           /\ \A t \in Threads : task'[t] = NoTask
  <1>1. /\ UNCHANGED <<setting, disk, forkFiles, endpoint, changes>>
        /\ index' = [l \in Ledgers |-> OnDisk(l)]
        /\ used' = SumFunctionOnSet([l \in Ledgers |-> BytesOf(OnDisk(l).chain)], Ledgers)
        /\ verdict' = Recheck(index', endpoint) /\ answer' = NoAnswer
        /\ rechecking' = FALSE /\ task' = [t \in Threads |-> NoTask]
    BY DEF Restart
  <1>2. StoredAfter
    <2>1. disk \in [Ledgers -> AllChains \cup {<<>>}] /\ forkFiles \in [Ledgers -> SUBSET AllChains]
      BY DEF ControlInv, Types
    <2>2. index' \in [Ledgers -> Entries] /\ \A l \in Ledgers : index'[l] = OnDisk(l)
      BY <1>1, OnDiskFacts
    <2>3. ASSUME NEW l \in Ledgers
          PROVE  /\ disk'[l] \in Chains(l) \cup {<<>>} /\ DirectoryKept(l, disk[l], disk'[l])
                 /\ forkFiles'[l] \subseteq Chains(l) /\ forkFiles[l] \subseteq forkFiles'[l]
                 /\ index'[l].chain \in Chains(l) \cup {<<>>}
                 /\ l \notin CutLedgers => Prefix(index'[l].chain, disk'[l]) /\ Verifies(disk'[l])
                 /\ index'[l].forks \subseteq forkFiles'[l]
                 /\ forkFiles'[l] # {} => disk'[l] # <<>>
      <3>1. /\ disk'[l] = disk[l] /\ forkFiles'[l] = forkFiles[l] /\ index'[l] = OnDisk(l)
        BY <1>1, <2>2
      <3>2. DirectoryKept(l, disk[l], disk'[l])
        BY <3>1, LedgerTypes DEF DirectoryKept
      <3> QED
        BY <3>1, <3>2, LedgerTypes, OnDiskFacts
    <2> QED
      BY <1>1, <2>1, <2>2, <2>3 DEF StoredAfter
  <1>3. TasksAfter
    BY <1>1 DEF TasksAfter, Tasks, TaskSound
  <1>4. RestAfter
    <2>1. Recheck(index', endpoint) \in
             [WitnessFor -> {"none", "no_local_copy", "advertises_nothing", "advertises_others"}]
      BY RecheckType
    <2> QED
      BY <1>1, <2>1 DEF ControlInv, Types, RestAfter
  <1>5. ControlInv'
    BY <1>1, <1>2, <1>3, <1>4, ControlAfter
  <1> QED
    BY <1>1, <1>2, <1>5

-----------------------------------------------------------------------------
(* The steps, by what they change.                                         *)

Still == UNCHANGED <<setting, disk, forkFiles, index, used, endpoint, verdict, rechecking, task, changes>>

Forks == \E l \in Ledgers, c \in AllChains : \E first \in 1..Len(c) : PushForks(l, c, first)

Stores == \E l \in Ledgers, c \in AllChains : \E first \in 1..Len(c) : PushStores(l, c, first)

Appends ==
    \E l \in Ledgers : \E e \in EventsOf[l] :
        (l \in WalletLedgers /\ WalletAppend(l, e)) \/ (l \in ToolLedgers /\ ToolAppend(l, e))

Cuts ==
    \E l \in Ledgers : \E n \in 1..(Len(disk[l]) - 1) :
        \/ l \in WalletLedgers \cap SignsFor /\ WalletCut(l, n)
        \/ l \in ToolLedgers /\ ToolCut(l, n)

Reads == \E t \in Threads : LoadEntry(t) \/ (\E l \in Asked : Miss(t, l))

Inserts == \E t \in Threads : NoteLedger(t) \/ Adopt(t)

Moves == RecheckEndpoint \/ (\E e \in Endpoints : SetEndpoint(e))

\* Every step is one of these.
LEMMA StepCases ==
    ASSUME ValidSetting, [Next]_vars
    PROVE  Still \/ Forks \/ Stores \/ Appends \/ Cuts \/ Reads \/ Inserts \/ Moves \/ Restart
  <1>1. ASSUME NEW l \in Ledgers, PushEmpty(l)
        PROVE  Still
    BY <1>1 DEF PushEmpty, Refuse, Still
  <1>2. ASSUME NEW l \in Ledgers, NEW c \in AllChains, NEW first \in 1..Len(c), Push(l, c, first)
        PROVE  Still \/ Forks \/ Stores
    <2>1. CASE PushForks(l, c, first)
      BY <2>1 DEF Forks
    <2>2. CASE PushStores(l, c, first)
      BY <2>2 DEF Stores
    <2>3. CASE \/ PushMalformed(l, c, first) \/ PushOtherLedger(l, c, first)
               \/ PushDivergesBadly(l, c, first) \/ PushRetries(l, c, first)
               \/ PushNotAdmitted(l, c, first) \/ PushTooLarge(l, c, first)
               \/ PushUnavailable(l, c, first)
      <3>1. \E code : Refuse(l, code)
        BY <2>3 DEF PushMalformed, PushOtherLedger, PushDivergesBadly, PushRetries, PushNotAdmitted,
                    PushTooLarge, PushUnavailable
      <3> QED
        BY <3>1 DEF Refuse, Still
    <2> QED
      BY <1>2, <2>1, <2>2, <2>3 DEF Push
  <1>3. ASSUME NEW l \in WalletLedgers, NEW e \in EventsOf[l], WalletAppend(l, e)
        PROVE  Appends
    BY <1>3 DEF Appends, ValidSetting
  <1>4. ASSUME NEW l \in ToolLedgers, NEW e \in EventsOf[l], ToolAppend(l, e)
        PROVE  Appends
    BY <1>4 DEF Appends, ValidSetting
  <1>5. ASSUME NEW t \in Adopters, NEW l \in Asked, Miss(t, l)
        PROVE  Reads
    BY <1>5 DEF Reads, Threads
  <1>6. ASSUME NEW t \in Threads, LoadEntry(t) \/ NoteLedger(t) \/ Adopt(t)
        PROVE  Reads \/ Inserts
    BY <1>6 DEF Reads, Inserts
  <1>7. ASSUME NEW e \in Endpoints, SetEndpoint(e)
        PROVE  Moves
    BY <1>7 DEF Moves
  <1>8. CASE RecheckEndpoint
    BY <1>8 DEF Moves
  <1>9. CASE UNCHANGED vars
    BY <1>9 DEF vars, Still
  <1>10. ASSUME NEW l \in WalletLedgers \cap SignsFor, NEW n \in 1..(Len(disk[l]) - 1), WalletCut(l, n)
         PROVE  Cuts
    BY <1>10 DEF Cuts, ValidSetting
  <1>11. ASSUME NEW l \in ToolLedgers, NEW n \in 1..(Len(disk[l]) - 1), ToolCut(l, n)
         PROVE  Cuts
    BY <1>11 DEF Cuts, ValidSetting
  <1> QED
    BY <1>1, <1>2, <1>3, <1>4, <1>5, <1>6, <1>7, <1>8, <1>9, <1>10, <1>11 DEF Next

\* A fresh home.
LEMMA InitControlStorage == Init => ControlInv
  <1> SUFFICES ASSUME Init
               PROVE  ControlInv
    OBVIOUS
  <1>1. /\ setting \in Settings /\ ValidSetting /\ disk = [l \in Ledgers |-> <<>>]
        /\ forkFiles = [l \in Ledgers |-> {}] /\ index = [l \in Ledgers |-> NoEntry]
        /\ endpoint \in Endpoints /\ verdict = Recheck(index, endpoint) /\ rechecking = FALSE
        /\ task = [t \in Threads |-> NoTask] /\ changes = 0
    BY DEF Init
  <1>2. NoEntry \in Entries /\ NoEntry.chain = <<>> /\ NoEntry.forks = {}
    BY DEF NoEntry, Entries
  <1>3. index \in [Ledgers -> Entries] /\ task \in [Threads -> Tasks]
    BY <1>1, <1>2 DEF Tasks
  <1>4. 0 \in 0..MaxEndpointChanges
    BY BoundsAssumption
  <1>5. Recheck(index, endpoint) \in
             [WitnessFor -> {"none", "no_local_copy", "advertises_nothing", "advertises_others"}]
    BY RecheckType
  <1>6. Types
    BY <1>1, <1>2, <1>3, <1>4, <1>5 DEF Types, Entries, Tasks
  <1>7. \A l \in Ledgers : Mirrored(l)
    <2>1. <<>> \in Seq(AnyEvent)
      OBVIOUS
    <2>2. IsPrefix(<<>>, <<>>)
      BY <2>1, EmptyPrefix
    <2> QED
      BY <1>1, <1>2, <2>2 DEF Mirrored, Prefix, Verifies
  <1>8. \A t \in Threads : TaskSound(task[t], disk, forkFiles)
    BY <1>1 DEF TaskSound
  <1> QED
    BY <1>1, <1>6, <1>7, <1>8 DEF ControlInv

\* What every step keeps: the index and the readers behind files that only grow.
LEMMA StepControlStorage ==
    ASSUME ControlInv, [Next]_vars
    PROVE  ControlInv' /\ StoredAfter /\ setting' = setting
  <1>1. Still \/ Forks \/ Stores \/ Appends \/ Cuts \/ Reads \/ Inserts \/ Moves \/ Restart
    BY StepCases DEF ControlInv
  <1>2. CASE Still
    <2>1. StoredAfter /\ setting' = setting
      BY <1>2, NoLedger DEF Still
    <2>2. TasksAfter
      BY <1>2, <2>1, TasksKept DEF Still
    <2>3. RestAfter
      BY <1>2 DEF Still, ControlInv, Types, RestAfter
    <2> QED
      BY <2>1, <2>2, <2>3, ControlAfter
  <1>3. CASE Forks
    BY <1>3, PushForksStep DEF Forks
  <1>4. CASE Stores
    BY <1>4, PushStoresStep DEF Stores
  <1>5. CASE Appends \/ Cuts
    BY <1>5, AppendStep, CutStep DEF Appends, Cuts
  <1>6. CASE Reads
    BY <1>6, ReadStep DEF Reads
  <1>7. CASE Inserts
    BY <1>7, InsertStep DEF Inserts
  <1>8. CASE Moves
    BY <1>8, EndpointStep DEF Moves
  <1>9. CASE Restart
    BY <1>9, RestartStep
  <1> QED
    BY <1>1, <1>2, <1>3, <1>4, <1>5, <1>6, <1>7, <1>8, <1>9

\* The event stored first at a sequence is never replaced or removed
\* (LedgerStorage::splice), whatever the pushes, the reads, the restarts and the
\* appends of other writers, but for a writer that discards its own branch of a
\* ledger it may append to (WalletCore::truncate), which keeps what came before.
THEOREM FirstSeenTheorem == Spec => FirstSeenWins
  <1>1. Init => ControlInv
    BY InitControlStorage
  <1>2. ControlInv /\ [Next]_vars => ControlInv'
    BY StepControlStorage
  <1>3. ControlInv /\ [Next]_vars =>
           [\A l \in Ledgers : \/ Prefix(disk[l], disk'[l])
                               \/ /\ l \in CutLedgers /\ answer' = NoAnswer
                                  /\ disk'[l] # <<>> /\ Prefix(disk'[l], disk[l])]_vars
    BY StepControlStorage DEF StoredAfter, DirectoryKept
  <1> QED
    BY <1>1, <1>2, <1>3, PTL DEF Spec, FirstSeenWins

-----------------------------------------------------------------------------
(* Fork records.                                                           *)

\* The ledgers whose entry no thread of this process puts in anew.
Unread == Ledgers \ (WalletLedgers \cup Asked)

\* The files of such a ledger are the ones the index counts.
Counted(l) ==
    /\ index[l].forks = forkFiles[l] /\ IsFiniteSet(forkFiles[l])
    /\ Cardinality(forkFiles[l]) <= ForkRecords

\* Of a ledger whose directory d may be cut back the record itself is left.
Recorded(l, r, d) ==
    Len(r) >= 2 /\ Last(r).verifies /\ (l \notin CutLedgers => Evidence(r, d))

ForkInv ==
    /\ ControlInv
    /\ \A l \in Ledgers : \A r \in forkFiles[l] : Recorded(l, r, disk[l])
    /\ \A l \in Unread : Counted(l)

\* Evidence stays evidence while the directory grows.
LEMMA EvidenceStays ==
    ASSUME NEW r \in Seq(AnyEvent), NEW d \in Seq(AnyEvent), NEW e \in Seq(AnyEvent),
           Evidence(r, d), Prefix(d, e)
    PROVE  Evidence(r, e)
  <1>1. /\ Len(r) \in 2..Len(d) /\ Prefix(Front(r), d) /\ ~Prefix(r, d) /\ Last(r).verifies
        /\ Len(d) <= Len(e)
    BY PrefixCut DEF Evidence
  <1>2. Len(r) \in 2..Len(e) /\ Len(r) <= Len(d) /\ Len(r) - 1 \in 0..Len(r)
    <2>1. Len(r) \in Nat /\ Len(d) \in Nat /\ Len(e) \in Nat
      OBVIOUS
    <2> QED
      BY <1>1, <2>1
  <1>3. Front(r) \in Seq(AnyEvent)
    <2>1. SubSeq(r, 1, Len(r) - 1) \in Seq(AnyEvent)
      BY <1>2, PrefixIsSubSeq
    <2> QED
      BY <2>1 DEF Front
  <1>4. Prefix(Front(r), e)
    BY <1>1, <1>3, PrefixTransitive DEF Prefix
  <1>5. ~Prefix(r, e)
    BY <1>1, <1>2, PrefixesAreOrdered DEF Prefix
  <1> QED
    BY <1>1, <1>2, <1>4, <1>5 DEF Evidence

\* What was recorded before a step is evidence after it.
LEMMA RecordsStay ==
    ASSUME ForkInv, StoredAfter, NEW l \in Ledgers, NEW r \in forkFiles[l]
    PROVE  Recorded(l, r, disk'[l])
  <1> SUFFICES ASSUME l \notin CutLedgers
               PROVE  Evidence(r, disk'[l])
    BY DEF ForkInv, Recorded
  <1>1. /\ ValidSetting /\ disk[l] \in Seq(AnyEvent) /\ forkFiles[l] \subseteq Chains(l)
        /\ Evidence(r, disk[l])
    BY LedgerTypes DEF ForkInv, Recorded
  <1>2. disk'[l] \in Chains(l) \cup {<<>>} /\ Prefix(disk[l], disk'[l])
    BY DEF StoredAfter, DirectoryKept
  <1>3. r \in AllChains \cup {<<>>} /\ disk'[l] \in AllChains \cup {<<>>}
    BY <1>1, <1>2 DEF AllChains
  <1>4. r \in Seq(AnyEvent) /\ disk'[l] \in Seq(AnyEvent)
    BY <1>1, <1>3, AnyChain
  <1> QED
    BY <1>1, <1>2, <1>4, EvidenceStays

\* Every step keeps the records evidence and within the cap.
LEMMA StepForks ==
    ASSUME ForkInv, [Next]_vars
    PROVE  ForkInv'
  <1>1. /\ ControlInv /\ ControlInv' /\ StoredAfter /\ setting' = setting
        /\ ForkRecords' = ForkRecords /\ Unread' = Unread /\ Ledgers' = Ledgers /\ ForkRecords \in Nat
    <2>1. ControlInv /\ ControlInv' /\ StoredAfter /\ setting' = setting
      BY StepControlStorage DEF ForkInv
    <2> QED
      BY <2>1, SettingKept DEF Unread, ControlInv, ValidSetting
  <1>2. \A l \in Unread : Counted(l) /\ l \in Ledgers
    BY DEF ForkInv, Unread
  <1> SUFFICES /\ \A l \in Ledgers : \A r \in forkFiles'[l] : Recorded(l, r, disk'[l])
               /\ \A l \in Unread : index'[l].forks = forkFiles'[l] /\ IsFiniteSet(forkFiles'[l])
                                    /\ Cardinality(forkFiles'[l]) <= ForkRecords
    <2>1. ASSUME NEW l \in Ledgers, NEW r \in forkFiles'[l], Recorded(l, r, disk'[l])
          PROVE  Recorded(l, r, disk[l])'
      BY <1>1, <2>1, SettingKept DEF Recorded, Evidence
    <2> QED
      BY <1>1, <2>1 DEF ForkInv, Counted
  <1> DEFINE Same(l) == forkFiles'[l] = forkFiles[l] /\ index'[l].forks = index[l].forks
  <1>3. ASSUME NEW l \in Unread, Same(l)
        PROVE  index'[l].forks = forkFiles'[l] /\ IsFiniteSet(forkFiles'[l])
               /\ Cardinality(forkFiles'[l]) <= ForkRecords
    BY <1>2, <1>3 DEF Counted
  <1>4. CASE Forks
    <2>1. PICK l \in Ledgers : \E recorded \in SUBSET Chains(l) :
             /\ disk' = disk
             /\ forkFiles' = [forkFiles EXCEPT ![l] = @ \cup recorded]
             /\ index' = [index EXCEPT ![l].forks = @ \cup recorded]
             /\ \A r \in recorded : Evidence(r, disk[l]) /\ IsRecorded(l, r)
             /\ \A r, s \in recorded : r = s
      <3>1. PICK l \in Ledgers, c \in AllChains : \E first \in 1..Len(c) : PushForks(l, c, first)
        BY <1>4 DEF Forks
      <3>2. PICK first \in 1..Len(c) : PushForks(l, c, first)
        BY <3>1
      <3>3. disk' = disk /\ \E recorded \in SUBSET Chains(l) :
              /\ forkFiles' = [forkFiles EXCEPT ![l] = @ \cup recorded]
              /\ index' = [index EXCEPT ![l].forks = @ \cup recorded]
              /\ \A r \in recorded : Evidence(r, disk[l]) /\ IsRecorded(l, r)
              /\ \A r, s \in recorded : r = s
        BY <1>1, <3>2, PushForksStep, Zenon
      <3> QED
        BY <3>3
    <2>2. PICK recorded \in SUBSET Chains(l) :
             /\ disk' = disk
             /\ forkFiles' = [forkFiles EXCEPT ![l] = @ \cup recorded]
             /\ index' = [index EXCEPT ![l].forks = @ \cup recorded]
             /\ \A r \in recorded : Evidence(r, disk[l]) /\ IsRecorded(l, r)
             /\ \A r, s \in recorded : r = s
      BY <2>1
    <2>3. forkFiles \in [Ledgers -> SUBSET AllChains] /\ index \in [Ledgers -> Entries]
      BY <1>1 DEF ControlInv, Types, Entries
    <2>4. forkFiles'[l] = forkFiles[l] \cup recorded /\ index'[l].forks = index[l].forks \cup recorded
      BY <2>2, <2>3 DEF Entries
    <2>5. \A k \in Ledgers : k # l => Same(k)
      BY <2>2, <2>3
    <2>6. \A k \in Ledgers : \A r \in forkFiles'[k] : Recorded(k, r, disk'[k])
      <3>1. ASSUME NEW r \in recorded
            PROVE  Recorded(l, r, disk'[l])
        <4>1. Evidence(r, disk'[l]) /\ disk'[l] \in Seq(AnyEvent)
          BY <1>1, <2>2, LedgerTypes
        <4>2. Len(r) \in 2..Len(disk'[l]) /\ Len(disk'[l]) \in Nat /\ Last(r).verifies
          BY <4>1 DEF Evidence
        <4>3. Len(r) >= 2
          BY <4>2
        <4> QED
          BY <4>1, <4>2, <4>3 DEF Recorded
      <3> QED
        BY <1>1, <2>4, <2>5, <3>1, RecordsStay
    <2>7. ASSUME l \in Unread
          PROVE  index'[l].forks = forkFiles'[l] /\ IsFiniteSet(forkFiles'[l])
                 /\ Cardinality(forkFiles'[l]) <= ForkRecords
      <3>1. /\ index[l].forks = forkFiles[l] /\ IsFiniteSet(forkFiles[l])
            /\ Cardinality(forkFiles[l]) <= ForkRecords
        BY <1>2, <2>7 DEF Counted
      <3>2. CASE recorded = {}
        BY <2>4, <3>1, <3>2
      <3>3. CASE recorded # {}
        <4>1. PICK r \in recorded : recorded = {r}
          BY <2>2, <3>3
        <4>2. r \notin forkFiles[l] /\ Cardinality(forkFiles[l]) < ForkRecords
          BY <2>2, <3>1 DEF IsRecorded
        <4>3. /\ IsFiniteSet(forkFiles[l] \cup {r})
              /\ Cardinality(forkFiles[l] \cup {r}) = Cardinality(forkFiles[l]) + 1
          BY <3>1, <4>2, FS_AddElement
        <4>4. Cardinality(forkFiles[l]) \in Nat
          BY <3>1, FS_CardinalityType
        <4> QED
          BY <1>1, <2>4, <3>1, <4>1, <4>2, <4>3, <4>4
      <3> QED
        BY <3>2, <3>3
    <2> QED
      BY <1>2, <1>3, <2>5, <2>6, <2>7
  <1>5. ASSUME forkFiles' = forkFiles, \A l \in Unread : index'[l].forks \in {index[l].forks, forkFiles[l]}
        PROVE  /\ \A l \in Ledgers : \A r \in forkFiles'[l] : Recorded(l, r, disk'[l])
               /\ \A l \in Unread : index'[l].forks = forkFiles'[l] /\ IsFiniteSet(forkFiles'[l])
                                    /\ Cardinality(forkFiles'[l]) <= ForkRecords
    BY <1>1, <1>2, <1>5, RecordsStay DEF Counted
  <1>6. CASE Still \/ Appends \/ Cuts \/ Reads \/ Moves
    <2>1. UNCHANGED <<forkFiles, index>>
      BY <1>1, <1>6, AppendStep, CutStep, ReadStep, EndpointStep DEF Still, Appends, Cuts, Reads, Moves
    <2> QED
      BY <1>5, <2>1
  <1>7. CASE Stores
    <2>1. PICK l \in Ledgers, c \in AllChains : \E first \in 1..Len(c) : PushStores(l, c, first)
      BY <1>7 DEF Stores
    <2>2. /\ forkFiles' = forkFiles
          /\ index' = [index EXCEPT ![l] = [chain |-> Pushed(l, c), forks |-> index[l].forks]]
      BY <1>1, <2>1, PushStoresStep
    <2>3. index \in [Ledgers -> Entries]
      BY <1>1 DEF ControlInv, Types, Entries
    <2>4. \A k \in Ledgers : index'[k].forks = index[k].forks
      BY <2>2, <2>3
    <2> QED
      BY <1>2, <1>5, <2>2, <2>4
  <1>8. CASE Inserts
    <2>1. PICK t \in Threads : NoteLedger(t) \/ Adopt(t)
      BY <1>8 DEF Inserts
    <2> DEFINE l == task[t].ledger
    <2>2. /\ forkFiles' = forkFiles /\ l \in Asked \cup WalletLedgers
          /\ index' = [index EXCEPT ![l] = task[t].entry] \/ index' = index
      BY <1>1, <2>1, InsertStep
    <2>3. index \in [Ledgers -> Entries]
      BY <1>1 DEF ControlInv, Types, Entries
    <2>4. \A k \in Ledgers : k # l => index'[k] = index[k]
      BY <2>2, <2>3
    <2>5. \A k \in Unread : index'[k] = index[k]
      BY <1>2, <2>2, <2>4 DEF Unread
    <2> QED
      BY <1>5, <2>2, <2>5
  <1>9. CASE Restart
    <2>1. forkFiles' = forkFiles /\ \A l \in Ledgers : index'[l] = OnDisk(l)
      BY <1>1, <1>9, RestartStep
    <2>2. ASSUME NEW l \in Ledgers
          PROVE  index'[l].forks = forkFiles[l]
      BY <1>1, <2>1, OnDiskFacts
    <2> QED
      BY <1>2, <1>5, <2>1, <2>2
  <1> QED
    BY <1>1, <1>4, <1>6, <1>7, <1>8, <1>9, StepCases DEF ControlInv

\* A fork record is evidence against the chain this home keeps, as long as that
\* chain is not cut back (WalletCore::truncate), and recording stops at the cap
\* (record_divergence, MAX_FORK_RECORDS).
THEOREM ForkTheorem == Spec => []ForkRecordsHold
  <1>1. Init => ForkInv
    <2> SUFFICES ASSUME Init
                 PROVE  ForkInv
      OBVIOUS
    <2>1. ControlInv
      BY InitControlStorage
    <2>2. \A l \in Ledgers : forkFiles[l] = {} /\ index[l].forks = {}
      BY DEF Init, NoEntry
    <2>3. ForkRecords \in Nat
      BY <2>1 DEF ControlInv, ValidSetting
    <2>4. IsFiniteSet({}) /\ Cardinality({}) = 0
      BY FS_EmptySet
    <2>5. \A l \in Unread : Counted(l)
      <3> SUFFICES ASSUME NEW l \in Unread
                   PROVE  Counted(l)
        OBVIOUS
      <3>1. forkFiles[l] = {} /\ index[l].forks = {}
        BY <2>2 DEF Unread
      <3>2. 0 <= ForkRecords
        BY <2>3
      <3> QED
        BY <2>4, <3>1, <3>2 DEF Counted
    <2> QED
      BY <2>1, <2>2, <2>5 DEF ForkInv
  <1>2. ForkInv /\ [Next]_vars => ForkInv'
    BY StepForks
  <1>3. ForkInv => ForkRecordsHold
    <2> SUFFICES ASSUME ForkInv
                 PROVE  ForkRecordsHold
      OBVIOUS
    <2>1. ForkCapHolds
      BY DEF ForkInv, Counted, Unread, ForkCapHolds
    <2>2. ASSUME NEW l \in Ledgers, NEW rival \in forkFiles[l], l \notin CutLedgers
          PROVE  /\ Len(rival) <= Len(disk[l])
                 /\ Prefix(Front(rival), disk[l]) /\ ~Prefix(rival, disk[l])
      <3>1. Evidence(rival, disk[l]) /\ Len(disk[l]) \in Nat
        BY <2>2, LedgerTypes DEF ForkInv, Recorded
      <3> QED
        BY <3>1 DEF Evidence
    <2>3. \A l \in Ledgers : index[l].forks \subseteq forkFiles[l]
      BY DEF ForkInv, ControlInv, Mirrored
    <2> QED
      BY <2>1, <2>2, <2>3 DEF ForkInv, Recorded, ForkRecordsHold, ForksAreEvidence
  <1> QED
    BY <1>1, <1>2, <1>3, PTL DEF Spec

-----------------------------------------------------------------------------
(* Admission: the verdicts.                                                *)

\* A copy whose chain, at some point, advertised this home.
Advertised(d) == \E n \in 1..Len(d) : AdvertisedEndpoints(EventAt(d, n)) \cap Endpoints # {}

\* Identity w, whose copy is d, stood for this home; a copy that may be cut back
\* is taken to have advertised it.
Stood(w, d) == w \in CutLedgers \/ Advertised(d)

\* The empty chain says nothing.
LEMMA LatestOfNothing ==
    ASSUME NEW kind
    PROVE  Latest(<<>>, kind) = {}
  BY DEF Latest

\* A verdict of no gap says exactly that the copy held advertises the endpoint.
LEMMA NoGap ==
    ASSUME NEW entries, NEW w, NEW e
    PROVE  GapFor(entries, w, e) = "none" <=> e \in AdvertisedEndpoints(entries[w].chain)
  <1> DEFINE c == entries[w].chain
             a == AdvertisedEndpoints(c)
  <1>1. c = <<>> => a = {}
    BY LatestOfNothing DEF AdvertisedEndpoints
  <1>2. GapFor(entries, w, e) = CASE c = <<>> -> "no_local_copy"
                                  [] a = {} -> "advertises_nothing"
                                  [] e \notin a /\ a # {} -> "advertises_others"
                                  [] OTHER -> "none"
    BY DEF GapFor
  <1> HIDE DEF c, a
  <1>3. CASE c = <<>>
    <2>1. GapFor(entries, w, e) \in {"no_local_copy", "advertises_nothing"}
      BY <1>1, <1>2, <1>3
    <2> QED
      BY <1>1, <1>3, <2>1 DEF a, c
  <1>4. CASE c # <<>>
    <2>1. GapFor(entries, w, e) = "none" <=> e \in a
      BY <1>2, <1>4
    <2> QED
      BY <2>1 DEF a, c
  <1> QED
    BY <1>3, <1>4

\* What a chain says at its end, it says at some point.
LEMMA WholeCut ==
    ASSUME NEW c \in Seq(AnyEvent), c # <<>>
    PROVE  Len(c) \in 1..Len(c) /\ EventAt(c, Len(c)) = c
  <1>1. Len(c) \in Nat /\ Len(c) # 0
    OBVIOUS
  <1>2. SubSeq(c, 1, Len(c)) = c
    BY SubSeqFull
  <1> QED
    BY <1>1, <1>2 DEF EventAt

\* A copy that advertises this home did at some point, also once it has grown.
LEMMA AdvertisedGrows ==
    ASSUME NEW c \in Seq(AnyEvent), NEW d \in Seq(AnyEvent), Prefix(c, d)
    PROVE  /\ Advertised(c) => Advertised(d)
           /\ AdvertisedEndpoints(c) \cap Endpoints # {} => Advertised(d)
  <1>1. ASSUME Advertised(c)
        PROVE  Advertised(d)
    <2>1. PICK n \in 1..Len(c) : AdvertisedEndpoints(EventAt(c, n)) \cap Endpoints # {}
      BY <1>1 DEF Advertised
    <2>2. Len(c) <= Len(d) /\ Len(c) \in Nat /\ Len(d) \in Nat
      BY PrefixCut
    <2>3. n \in 1..Len(d) /\ n \in 0..Len(c)
      BY <2>2
    <2>4. EventAt(c, n) = EventAt(d, n)
      BY <2>3, PrefixCut
    <2> QED
      BY <2>1, <2>3, <2>4 DEF Advertised
  <1>2. ASSUME AdvertisedEndpoints(c) \cap Endpoints # {}
        PROVE  Advertised(c)
    <2>1. c # <<>>
      BY <1>2, LatestOfNothing DEF AdvertisedEndpoints
    <2> QED
      BY <1>2, <2>1, WholeCut DEF Advertised
  <1> QED
    BY <1>1, <1>2

\* A fork record is not part of the chain.
LEMMA ForksKeepChains ==
    ASSUME NEW l \in Ledgers, NEW r, index \in [Ledgers -> Entries],
           index' = [index EXCEPT ![l].forks = @ \cup r]
    PROVE  \A k \in Ledgers : index'[k].chain = index[k].chain
  <1> DEFINE all == index[l].forks \cup r
  <1>1. index' = [index EXCEPT ![l] = [index[l] EXCEPT !.forks = all]]
    OBVIOUS
  <1>2. index' = [index EXCEPT ![l] = [chain |-> index[l].chain, forks |-> all]]
    BY <1>1, EntryFields
  <1> HIDE DEF all
  <1>3. index'[l] = [chain |-> index[l].chain, forks |-> all]
    BY <1>2, Zenon
  <1>4. ASSUME NEW k \in Ledgers, k # l
        PROVE  index'[k] = index[k]
    BY <1>2, <1>4, Zenon
  <1> QED
    BY <1>3, <1>4, Zenon

\* How a step may change the verdicts.
VerdictStep ==
    /\ endpoint' \in Endpoints
    /\ \/ verdict' = Recheck(index', endpoint')
       \/ /\ verdict' = verdict
          /\ \/ rechecking' = TRUE
             \/ /\ endpoint' = endpoint /\ rechecking' = rechecking
                /\ \A w \in WitnessFor \ Asked : index'[w].chain = index[w].chain

\* Every step either rechecks, or leaves alone what the verdicts are about, or
\* owes a recheck.
LEMMA StepVerdicts ==
    ASSUME ControlInv, [Next]_vars
    PROVE  VerdictStep
  <1>1. /\ ControlInv' /\ setting' = setting /\ WitnessFor \subseteq Ledgers /\ endpoint \in Endpoints
        /\ index \in [Ledgers -> Entries]
    BY StepControlStorage DEF ControlInv, ValidSetting, Types, Entries
  <1>2. endpoint' \in Endpoints
    BY <1>1, SettingKept DEF ControlInv, Types
  <1>3. CASE Still \/ Appends \/ Cuts \/ Reads
    <2>1. UNCHANGED <<index, endpoint, verdict, rechecking>>
      BY <1>3, AppendStep, CutStep, ReadStep DEF Still, Appends, Cuts, Reads
    <2> QED
      BY <1>2, <2>1 DEF VerdictStep
  <1>4. CASE Forks
    <2>1. PICK l \in Ledgers, c \in AllChains : \E first \in 1..Len(c) : PushForks(l, c, first)
      BY <1>4 DEF Forks
    <2>2. PICK first \in 1..Len(c) : PushForks(l, c, first)
      BY <2>1
    <2>3. /\ UNCHANGED <<endpoint, verdict, rechecking>>
          /\ \E recorded \in SUBSET Chains(l) : index' = [index EXCEPT ![l].forks = @ \cup recorded]
      BY <2>2, PushForksStep
    <2>4. \A w \in Ledgers : index'[w].chain = index[w].chain
      BY <1>1, <2>3, ForksKeepChains
    <2> QED
      BY <1>1, <1>2, <2>3, <2>4 DEF VerdictStep
  <1>5. CASE Stores
    <2>1. PICK l \in Ledgers, c \in AllChains : \E first \in 1..Len(c) : PushStores(l, c, first)
      BY <1>5 DEF Stores
    <2> DEFINE q == Pushed(l, c)
    <2>2. /\ UNCHANGED <<endpoint, rechecking>>
          /\ index' = [index EXCEPT ![l] = [chain |-> q, forks |-> index[l].forks]]
          /\ verdict' = IF l \in WitnessFor /\ q # index[l].chain THEN Recheck(index', endpoint) ELSE verdict
      BY <2>1, PushStoresStep
    <2> HIDE DEF q
    <2>3. index'[l].chain = q /\ \A w \in Ledgers : w # l => index'[w].chain = index[w].chain
      BY <1>1, <2>2
    <2>4. CASE l \in WitnessFor /\ q # index[l].chain
      BY <1>2, <2>2, <2>4 DEF VerdictStep
    <2>5. CASE ~(l \in WitnessFor /\ q # index[l].chain)
      <3>1. \A w \in WitnessFor \ Asked : index'[w].chain = index[w].chain
        BY <1>1, <2>3, <2>5
      <3> QED
        BY <1>2, <2>2, <2>5, <3>1 DEF VerdictStep
    <2> QED
      BY <2>4, <2>5
  <1>6. CASE Inserts
    <2>1. PICK t \in Threads : NoteLedger(t) \/ Adopt(t)
      BY <1>6 DEF Inserts
    <2> DEFINE l == task[t].ledger
    <2>2. /\ UNCHANGED <<endpoint, rechecking>>
          /\ index' = [index EXCEPT ![l] = task[t].entry] \/ index' = index
          /\ \/ verdict' = IF l \in WitnessFor THEN Recheck(index', endpoint) ELSE verdict
             \/ l \in Asked /\ verdict' = verdict
      BY <2>1, InsertStep
    <2> HIDE DEF l
    <2>3. \A w \in Ledgers : w # l => index'[w] = index[w]
      BY <1>1, <2>2
    <2>4. CASE verdict' = Recheck(index', endpoint)
      BY <1>2, <2>2, <2>4 DEF VerdictStep
    <2>5. CASE verdict' # Recheck(index', endpoint)
      <3>1. verdict' = verdict /\ l \notin WitnessFor \ Asked
        BY <2>2, <2>5
      <3>2. \A w \in WitnessFor \ Asked : index'[w].chain = index[w].chain
        BY <1>1, <2>3, <3>1
      <3> QED
        BY <1>2, <2>2, <3>1, <3>2 DEF VerdictStep
    <2> QED
      BY <2>4, <2>5
  <1>7. CASE Moves
    <2>1. /\ index' = index
          /\ \/ endpoint' = endpoint /\ verdict' = Recheck(index, endpoint)
             \/ rechecking' = TRUE /\ verdict' = verdict
      BY <1>7, EndpointStep DEF Moves
    <2> QED
      BY <1>2, <2>1 DEF VerdictStep
  <1>8. CASE Restart
    BY <1>2, <1>8, RestartStep DEF VerdictStep
  <1> QED
    BY <1>3, <1>4, <1>5, <1>6, <1>7, <1>8, StepCases DEF ControlInv

\* An entry with no gap: this home was advertised, by the copy on disk.
VerdictInv ==
    /\ ControlInv /\ VerdictsAreCurrent
    /\ \A w \in WitnessFor : verdict[w] = "none" => Stood(w, disk[w])

\* Every step keeps them.
LEMMA StepVerdictInv ==
    ASSUME VerdictInv, [Next]_vars
    PROVE  VerdictInv'
  <1>1. /\ ControlInv /\ ControlInv' /\ StoredAfter /\ setting' = setting /\ VerdictStep
        /\ WitnessFor \subseteq Ledgers
    BY StepControlStorage, StepVerdicts DEF VerdictInv, ControlInv, ValidSetting
  <1>2. WitnessFor' = WitnessFor /\ Asked' = Asked /\ Endpoints' = Endpoints
    BY <1>1, SettingKept
  <1>3. VerdictsAreCurrent'
    <2> SUFFICES ASSUME ~rechecking', NEW w \in WitnessFor \ Asked
                 PROVE  verdict'[w] = "none" <=> endpoint' \in AdvertisedEndpoints(index'[w].chain)
      BY <1>2 DEF VerdictsAreCurrent, AdvertisedEndpoints, Latest
    <2>1. CASE verdict' = Recheck(index', endpoint')
      <3>1. verdict'[w] = GapFor(index', w, endpoint')
        BY <2>1 DEF Recheck
      <3> QED
        BY <3>1, NoGap
    <2>2. CASE verdict' # Recheck(index', endpoint')
      <3>1. /\ verdict' = verdict /\ endpoint' = endpoint /\ ~rechecking
            /\ index'[w].chain = index[w].chain
        BY <1>1, <2>2 DEF VerdictStep
      <3>2. verdict[w] = "none" <=> endpoint \in AdvertisedEndpoints(index[w].chain)
        BY <3>1 DEF VerdictInv, VerdictsAreCurrent
      <3> QED
        BY <3>1, <3>2
    <2> QED
      BY <2>1, <2>2
  <1>4. ASSUME NEW w \in WitnessFor, verdict'[w] = "none", w \notin CutLedgers
        PROVE  Advertised(disk'[w])
    <2>1. /\ disk'[w] \in Chains(w) \cup {<<>>} /\ Prefix(disk[w], disk'[w])
          /\ index'[w].chain \in Chains(w) \cup {<<>>} /\ Prefix(index'[w].chain, disk'[w])
          /\ disk[w] \in Chains(w) \cup {<<>>} /\ ValidSetting /\ w \in Ledgers
      BY <1>1, <1>4, LedgerTypes DEF StoredAfter, DirectoryKept
    <2>2. disk'[w] \in Seq(AnyEvent) /\ index'[w].chain \in Seq(AnyEvent) /\ disk[w] \in Seq(AnyEvent)
      <3>1. \A c \in Chains(w) \cup {<<>>} : c \in AllChains \cup {<<>>}
        BY <2>1 DEF AllChains
      <3> QED
        BY <2>1, <3>1, AnyChain
    <2>3. CASE verdict' = Recheck(index', endpoint')
      <3>1. verdict'[w] = GapFor(index', w, endpoint')
        BY <2>3 DEF Recheck
      <3>2. endpoint' \in AdvertisedEndpoints(index'[w].chain) /\ endpoint' \in Endpoints
        BY <1>1, <1>4, <3>1, NoGap DEF VerdictStep
      <3> DEFINE c == index'[w].chain
                 d == disk'[w]
      <3>3. /\ c \in Seq(AnyEvent) /\ d \in Seq(AnyEvent) /\ Prefix(c, d)
            /\ AdvertisedEndpoints(c) \cap Endpoints # {}
        BY <2>1, <2>2, <3>2
      <3> HIDE DEF c, d
      <3>4. Advertised(d)
        BY <3>3, AdvertisedGrows
      <3> QED
        BY <3>4 DEF d
    <2>4. CASE verdict' # Recheck(index', endpoint')
      <3>1. verdict[w] = "none"
        BY <1>1, <1>4, <2>4 DEF VerdictStep
      <3> DEFINE c == disk[w]
                 d == disk'[w]
      <3>2. Advertised(c) /\ c \in Seq(AnyEvent) /\ d \in Seq(AnyEvent) /\ Prefix(c, d)
        BY <1>4, <2>1, <2>2, <3>1 DEF VerdictInv, Stood
      <3> HIDE DEF c, d
      <3>3. Advertised(d)
        BY <3>2, AdvertisedGrows
      <3> QED
        BY <3>3 DEF d
    <2> QED
      BY <2>3, <2>4
  <1>5. \A w \in WitnessFor' : verdict'[w] = "none" => Stood(w, disk[w])'
    <2>1. \A w \in WitnessFor : Advertised(disk'[w]) => Advertised(disk[w])'
      BY <1>2 DEF Advertised, AdvertisedEndpoints, Latest, EventAt
    <2>2. CutLedgers' = CutLedgers
      BY <1>1, SettingKept
    <2> QED
      BY <1>2, <1>4, <2>1, <2>2 DEF Stood
  <1> QED
    BY <1>1, <1>3, <1>5 DEF VerdictInv

\* A fresh home advertises nothing.
LEMMA InitVerdictInv == Init => VerdictInv
  <1> SUFFICES ASSUME Init
               PROVE  VerdictInv
    OBVIOUS
  <1>1. ControlInv /\ WitnessFor \subseteq Ledgers
    BY InitControlStorage DEF Init, ValidSetting
  <1>2. \A w \in WitnessFor : verdict[w] = GapFor(index, w, endpoint)
    BY DEF Init, Recheck
  <1>3. \A w \in WitnessFor : index[w].chain = <<>>
    BY <1>1 DEF Init, NoEntry
  <1>4. \A w \in WitnessFor : endpoint \notin AdvertisedEndpoints(index[w].chain)
    BY <1>3, LatestOfNothing DEF AdvertisedEndpoints
  <1>5. \A w \in WitnessFor : verdict[w] # "none"
    BY <1>2, <1>4, NoGap
  <1> QED
    BY <1>1, <1>4, <1>5 DEF VerdictInv, VerdictsAreCurrent

-----------------------------------------------------------------------------
(* Admission: who is let in.                                               *)

\* Chain c was let in: at some point it named an identity of this home whose
\* copy, in directories d, at some point advertised it, or the legacy clause held.
Vouched(c, d) ==
    \/ \E w \in WitnessFor : /\ \E n \in 1..Len(c) : w \in WitnessIdentities(EventAt(c, n))
                             /\ Stood(w, d[w])
    \/ /\ Legacy /\ WitnessFor # {}
       /\ \E n \in 1..Len(c) : WitnessEndpoints(EventAt(c, n)) \cap Endpoints # {}

Strangers == Ledgers \ (SignsFor \cup WalletLedgers \cup ToolLedgers)

\* Everything this home holds of a stranger, on disk, in the index or in the
\* hands of a thread, was let in.
StrangerInv ==
    /\ VerdictInv
    /\ \A l \in Strangers :
          /\ disk[l] # <<>> => Vouched(disk[l], disk)
          /\ index[l].chain # <<>> => Vouched(index[l].chain, disk)
          /\ \A t \in Threads : (task[t] # NoTask /\ task[t].ledger = l /\ task[t].entry.chain # <<>>) =>
                Vouched(task[t].entry.chain, disk)

\* What was let in stays let in, as chains and directories grow.
LEMMA VouchedGrows ==
    ASSUME NEW c \in Seq(AnyEvent), NEW e \in Seq(AnyEvent), Prefix(c, e), NEW d1, NEW d2,
           \A w \in WitnessFor : Stood(w, d1[w]) => Stood(w, d2[w]), Vouched(c, d1)
    PROVE  Vouched(e, d2)
  <1>1. /\ Len(c) <= Len(e) /\ Len(c) \in Nat /\ Len(e) \in Nat
        /\ \A n \in 0..Len(c) : EventAt(c, n) = EventAt(e, n)
    BY PrefixCut
  <1>2. \A n \in 1..Len(c) : n \in 1..Len(e) /\ n \in 0..Len(c)
    BY <1>1
  <1>3. \A n \in 1..Len(c) : n \in 1..Len(e) /\ EventAt(c, n) = EventAt(e, n)
    BY <1>1, <1>2
  <1>4. CASE \E w \in WitnessFor : /\ \E n \in 1..Len(c) : w \in WitnessIdentities(EventAt(c, n))
                                   /\ Stood(w, d1[w])
    <2>1. PICK w \in WitnessFor : /\ \E n \in 1..Len(c) : w \in WitnessIdentities(EventAt(c, n))
                                  /\ Stood(w, d1[w])
      BY <1>4
    <2>2. PICK n \in 1..Len(c) : w \in WitnessIdentities(EventAt(c, n))
      BY <2>1
    <2>3. w \in WitnessIdentities(EventAt(e, n)) /\ n \in 1..Len(e) /\ Stood(w, d2[w])
      BY <1>3, <2>1, <2>2
    <2> QED
      BY <2>3 DEF Vouched
  <1>5. CASE /\ Legacy /\ WitnessFor # {}
             /\ \E n \in 1..Len(c) : WitnessEndpoints(EventAt(c, n)) \cap Endpoints # {}
    <2>1. PICK n \in 1..Len(c) : WitnessEndpoints(EventAt(c, n)) \cap Endpoints # {}
      BY <1>5
    <2>2. WitnessEndpoints(EventAt(e, n)) \cap Endpoints # {} /\ n \in 1..Len(e)
      BY <1>3, <2>1
    <2> QED
      BY <1>5, <2>2 DEF Vouched
  <1> QED
    BY <1>4, <1>5 DEF Vouched

\* A stranger's chain that is admitted was let in.
LEMMA AdmittedIsVouched ==
    ASSUME StrangerInv, NEW l \in Strangers, NEW q \in Seq(AnyEvent), Prefix(index[l].chain, q),
           Admits(l, index[l].chain, q)
    PROVE  Vouched(q, disk)
  <1> DEFINE p == index[l].chain
  <1>1. /\ p \in Seq(AnyEvent) /\ l \in Ledgers /\ l \notin SignsFor /\ endpoint \in Endpoints
        /\ p # <<>> => Vouched(p, disk)
    BY LedgerTypes DEF StrangerInv, VerdictInv, Strangers, ControlInv, Types
  <1>2. p # <<>> => Vouched(q, disk)
    <2>1. \A w \in WitnessFor : Stood(w, disk[w]) => Stood(w, disk[w])
      OBVIOUS
    <2> HIDE DEF p
    <2>2. Prefix(p, q)
      BY DEF p
    <2> QED
      BY <1>1, <2>1, <2>2, VouchedGrows
  <1>3. CASE NamesAny(p, WitnessFor)
    <2>1. p # <<>>
      BY <1>3, LatestOfNothing DEF NamesAny, WitnessIdentities
    <2> QED
      BY <1>2, <2>1
  <1>4. CASE NamesAny(q, {w \in WitnessFor : verdict[w] = "none"})
    <2>1. PICK w \in WitnessFor : w \in WitnessIdentities(q) /\ verdict[w] = "none"
      BY <1>4 DEF NamesAny
    <2>2. q # <<>>
      BY <2>1, LatestOfNothing DEF WitnessIdentities
    <2>3. Stood(w, disk[w])
      BY <2>1 DEF StrangerInv, VerdictInv
    <2>4. Len(q) \in 1..Len(q) /\ w \in WitnessIdentities(EventAt(q, Len(q)))
      BY <2>1, <2>2, WholeCut
    <2> QED
      BY <2>3, <2>4 DEF Vouched
  <1>5. CASE LegacyAdmits(p, q)
    <2>1. Legacy /\ WitnessFor # {} /\ endpoint \in WitnessEndpoints(p) \cup WitnessEndpoints(q)
      BY <1>5 DEF LegacyAdmits
    <2>2. CASE endpoint \in WitnessEndpoints(p)
      <3>1. p # <<>>
        BY <2>2, LatestOfNothing DEF WitnessEndpoints
      <3> QED
        BY <1>2, <3>1
    <2>3. CASE endpoint \in WitnessEndpoints(q)
      <3>1. q # <<>>
        BY <2>3, LatestOfNothing DEF WitnessEndpoints
      <3>2. Len(q) \in 1..Len(q) /\ endpoint \in WitnessEndpoints(EventAt(q, Len(q)))
        BY <2>3, <3>1, WholeCut
      <3>3. \E n \in 1..Len(q) : WitnessEndpoints(EventAt(q, n)) \cap Endpoints # {}
        BY <1>1, <3>2
      <3> QED
        BY <2>1, <3>3 DEF Vouched
    <2> QED
      BY <2>1, <2>2, <2>3
  <1> QED
    BY <1>1, <1>3, <1>4, <1>5 DEF Admits

\* What a step that lets nobody in anew leaves alone, of strangers.
StrangerStep ==
    \A l \in Strangers :
        /\ disk'[l] = disk[l] \/ Vouched(disk'[l], disk)
        /\ index'[l].chain \in {<<>>, index[l].chain, disk[l]} \/ Vouched(index'[l].chain, disk)
        /\ \A t \in Threads : (task'[t] # NoTask /\ task'[t].ledger = l) =>
              task'[t] = task[t] \/ task'[t].entry.chain \in {<<>>, disk[l]}

\* Such a step keeps strangers let in.
LEMMA StrangersAfter ==
    ASSUME StrangerInv, [Next]_vars, StrangerStep
    PROVE  StrangerInv'
  <1>1. /\ ControlInv /\ ControlInv' /\ VerdictInv' /\ StoredAfter /\ setting' = setting /\ ValidSetting
        /\ WitnessFor \subseteq Ledgers
    BY StepControlStorage, StepVerdictInv DEF StrangerInv, VerdictInv, ControlInv, ValidSetting
  <1>2. /\ WitnessFor' = WitnessFor /\ Endpoints' = Endpoints /\ Legacy' = Legacy /\ Ledgers' = Ledgers
        /\ Strangers' = Strangers
    BY <1>1, SettingKept DEF Strangers
  <1>3. ASSUME NEW l \in Ledgers, NEW c \in Chains(l) \cup {<<>>}
        PROVE  c \in Seq(AnyEvent)
    <2>1. c \in AllChains \cup {<<>>}
      BY DEF AllChains
    <2> QED
      BY <1>1, <2>1, AnyChain
  <1>4. ASSUME NEW w \in WitnessFor, Stood(w, disk[w])
        PROVE  Stood(w, disk'[w])
    <2> SUFFICES ASSUME w \notin CutLedgers
                 PROVE  Advertised(disk'[w])
      BY DEF Stood
    <2> DEFINE c == disk[w]
               d == disk'[w]
    <2>1. c \in Seq(AnyEvent) /\ d \in Seq(AnyEvent) /\ Prefix(c, d)
      BY <1>1, <1>3, LedgerTypes DEF StoredAfter, DirectoryKept
    <2>2. Advertised(c)
      BY <1>4 DEF Stood
    <2> HIDE DEF c, d
    <2>3. Advertised(d)
      BY <2>1, <2>2, AdvertisedGrows
    <2> QED
      BY <2>3 DEF d
  <1>5. ASSUME NEW c \in Seq(AnyEvent), Vouched(c, disk)
        PROVE  Vouched(c, disk')
    <2>1. Prefix(c, c)
      BY PrefixOfItself DEF Prefix
    <2> QED
      BY <1>4, <1>5, <2>1, VouchedGrows
  <1>6. ASSUME NEW l \in Strangers
        PROVE  /\ disk'[l] # <<>> => Vouched(disk'[l], disk')
               /\ index'[l].chain # <<>> => Vouched(index'[l].chain, disk')
               /\ \A t \in Threads :
                     (task'[t] # NoTask /\ task'[t].ledger = l /\ task'[t].entry.chain # <<>>) =>
                     Vouched(task'[t].entry.chain, disk')
    <2>1. /\ l \in Ledgers /\ disk'[l] \in Seq(AnyEvent) /\ index'[l].chain \in Seq(AnyEvent)
          /\ disk[l] # <<>> => Vouched(disk[l], disk)
          /\ index[l].chain # <<>> => Vouched(index[l].chain, disk)
          /\ disk'[l] = disk[l] \/ Vouched(disk'[l], disk)
          /\ index'[l].chain \in {<<>>, index[l].chain, disk[l]} \/ Vouched(index'[l].chain, disk)
      BY <1>1, <1>3 DEF StrangerInv, StrangerStep, StoredAfter, Strangers
    <2>2. disk'[l] # <<>> => Vouched(disk'[l], disk)
      BY <2>1
    <2>3. index'[l].chain # <<>> => Vouched(index'[l].chain, disk)
      BY <2>1
    <2>4. ASSUME NEW t \in Threads, task'[t] # NoTask, task'[t].ledger = l, task'[t].entry.chain # <<>>
          PROVE  Vouched(task'[t].entry.chain, disk')
      <3>1. task'[t] = task[t] \/ task'[t].entry.chain \in {<<>>, disk[l]}
        BY <2>4 DEF StrangerStep
      <3>2. Vouched(task'[t].entry.chain, disk)
        <4>1. CASE task'[t] = task[t]
          BY <2>4, <4>1 DEF StrangerInv
        <4>2. CASE task'[t].entry.chain \in {<<>>, disk[l]}
          BY <2>1, <2>4, <4>2
        <4> QED
          BY <3>1, <4>1, <4>2
      <3>3. TaskSound(task[t], disk, forkFiles)'
        BY <1>1 DEF ControlInv
      <3>4. task'[t].entry.chain \in Chains(l) \cup {<<>>}
        <4>1. Chains(l)' = Chains(l)
          BY <1>1, SettingKept
        <4> QED
          BY <2>4, <3>3, <4>1 DEF TaskSound, Chains
      <3>5. task'[t].entry.chain \in Seq(AnyEvent)
        BY <1>3, <2>1, <3>4
      <3> QED
        BY <1>5, <3>2, <3>5
    <2> QED
      BY <1>5, <2>1, <2>2, <2>3, <2>4
  <1>7. \A c : Vouched(c, disk') <=> Vouched(c, disk)'
    <2>1. CutLedgers' = CutLedgers
      BY <1>1, SettingKept
    <2>2. ASSUME NEW w \in WitnessFor
          PROVE  Stood(w, disk'[w]) <=> Stood(w, disk[w])'
      BY <1>2, <2>1 DEF Stood, Advertised, AdvertisedEndpoints, Latest, EventAt
    <2> QED
      BY <1>2, <2>2 DEF Vouched, WitnessIdentities, WitnessEndpoints, Latest, EventAt
  <1> QED
    BY <1>1, <1>2, <1>6, <1>7 DEF StrangerInv

\* Every step lets a stranger in by the policy or not at all.
LEMMA StepStrangers ==
    ASSUME StrangerInv, [Next]_vars
    PROVE  StrangerStep
  <1>1. /\ ControlInv /\ ControlInv' /\ StoredAfter /\ setting' = setting /\ ValidSetting
        /\ disk \in [Ledgers -> AllChains \cup {<<>>}] /\ index \in [Ledgers -> Entries]
        /\ task \in [Threads -> Tasks]
    BY StepControlStorage DEF StrangerInv, VerdictInv, ControlInv, Types, Entries, Tasks
  <1>2. Strangers \subseteq Ledgers /\ Strangers \cap CutLedgers = {}
    BY DEF Strangers, CutLedgers
  <1>3. CASE Still \/ Moves
    <2>1. UNCHANGED <<disk, index, task>>
      BY <1>1, <1>3, EndpointStep DEF Still, Moves
    <2> QED
      BY <2>1 DEF StrangerStep
  <1>4. CASE Forks
    <2>1. PICK l \in Ledgers, c \in AllChains : \E first \in 1..Len(c) : PushForks(l, c, first)
      BY <1>4 DEF Forks
    <2>2. PICK first \in 1..Len(c) : PushForks(l, c, first)
      BY <2>1
    <2>3. /\ UNCHANGED <<disk, task>>
          /\ \E recorded \in SUBSET Chains(l) : index' = [index EXCEPT ![l].forks = @ \cup recorded]
      BY <1>1, <2>2, PushForksStep
    <2>4. \A w \in Ledgers : index'[w].chain = index[w].chain
      BY <1>1, <2>3, ForksKeepChains
    <2> QED
      BY <1>2, <2>3, <2>4 DEF StrangerStep
  <1>5. CASE Stores
    <2>1. PICK l \in Ledgers, c \in AllChains : \E first \in 1..Len(c) : PushStores(l, c, first)
      BY <1>5 DEF Stores
    <2> DEFINE q == Pushed(l, c)
               p == index[l].chain
    <2>2. /\ task' = task /\ q \in Chains(l) \cup {<<>>} /\ Prefix(p, q) /\ Admits(l, p, q)
          /\ \A k \in Ledgers : k # l => disk'[k] = disk[k]
          /\ l \notin CutLedgers => disk'[l] \in {disk[l], q}
          /\ index' = [index EXCEPT ![l] = [chain |-> q, forks |-> index[l].forks]]
      BY <1>1, <2>1, PushStoresStep
    <2>3. q \in Seq(AnyEvent)
      <3>1. q \in AllChains \cup {<<>>}
        BY <2>2 DEF AllChains
      <3> HIDE DEF q
      <3> QED
        BY <1>1, <3>1, AnyChain
    <2>4. l \in Strangers => Vouched(q, disk)
      <3> HIDE DEF q
      <3> QED
        BY <2>2, <2>3, AdmittedIsVouched
    <2> HIDE DEF q, p
    <2>5. /\ index'[l].chain = q /\ (l \in Strangers => disk'[l] \in {disk[l], q})
          /\ \A k \in Ledgers : k # l => index'[k] = index[k] /\ disk'[k] = disk[k]
      BY <1>1, <1>2, <2>2
    <2> QED
      BY <1>2, <2>2, <2>4, <2>5 DEF StrangerStep
  <1>6. CASE Appends \/ Cuts
    <2>1. index' = index /\ \E l \in Ledgers :
             /\ \A k \in Ledgers : k # l => disk'[k] = disk[k]
             /\ \A t \in Threads : task'[t] # NoTask /\ task'[t].op = "adopt" => task'[t] = task[t]
             /\ l \in WalletLedgers \cup ToolLedgers
      BY <1>1, <1>6, AppendStep, CutStep DEF Appends, Cuts
    <2>2. PICK l \in Ledgers :
          /\ index' = index /\ \A k \in Ledgers : k # l => disk'[k] = disk[k]
          /\ \A t \in Threads : task'[t] # NoTask /\ task'[t].op = "adopt" => task'[t] = task[t]
          /\ l \in WalletLedgers \cup ToolLedgers
      BY <2>1
    <2>3. \A k \in Strangers : k \in Ledgers /\ k # l /\ k \notin WalletLedgers
      BY <2>2 DEF Strangers
    <2>4. ASSUME NEW k \in Strangers, NEW t \in Threads, task'[t] # NoTask, task'[t].ledger = k
          PROVE  task'[t] = task[t]
      <3>1. TaskSound(task[t], disk, forkFiles)' /\ task' \in [Threads -> Tasks]
        BY <1>1, SettingKept DEF ControlInv, Types, Tasks, Entries
      <3>2. task'[t].op \in {"note", "adopt"}
        BY <2>4, <3>1 DEF Tasks
      <3>3. task'[t].op # "note"
        BY <1>1, <2>3, <2>4, <3>1, SettingKept DEF TaskSound
      <3> QED
        BY <2>2, <2>4, <3>2, <3>3
    <2> QED
      BY <2>2, <2>3, <2>4 DEF StrangerStep
  <1>7. CASE Reads
    <2>1. PICK t \in Threads : LoadEntry(t) \/ (\E l \in Asked : Miss(t, l))
      BY <1>7 DEF Reads
    <2>2. /\ UNCHANGED <<disk, index>>
          /\ \A s \in Threads : \/ task'[s] = task[s] \/ task'[s].entry = NoEntry
                                \/ /\ task[s] # NoTask /\ task'[s].ledger = task[s].ledger
                                   /\ task'[s].entry = OnDisk(task[s].ledger)
      BY <1>1, <2>1, ReadStep
    <2>3. ASSUME NEW l \in Strangers, NEW s \in Threads, task'[s] # NoTask, task'[s].ledger = l
          PROVE  task'[s] = task[s] \/ task'[s].entry.chain \in {<<>>, disk[l]}
      <3>1. NoEntry.chain = <<>>
        BY DEF NoEntry
      <3>2. OnDisk(l).chain = disk[l]
        BY <1>1, <1>2, OnDiskFacts
      <3> QED
        BY <2>2, <2>3, <3>1, <3>2
    <2> QED
      BY <2>2, <2>3 DEF StrangerStep
  <1>8. CASE Inserts
    <2>1. PICK t \in Threads : NoteLedger(t) \/ Adopt(t)
      BY <1>8 DEF Inserts
    <2> DEFINE l == task[t].ledger
               read == task[t].entry
    <2>2. /\ disk' = disk /\ task[t] # NoTask /\ l \in Ledgers
          /\ index' = [index EXCEPT ![l] = read] \/ index' = index
          /\ \A s \in Threads : task'[s] \in {task[s], NoTask}
      BY <1>1, <2>1, InsertStep
    <2>3. ASSUME l \in Strangers, read.chain # <<>>
          PROVE  Vouched(read.chain, disk)
      BY <2>2, <2>3 DEF StrangerInv
    <2> HIDE DEF l, read
    <2>4. /\ index'[l] \in {index[l], read}
          /\ \A k \in Ledgers : k # l => index'[k] = index[k]
      BY <1>1, <2>2
    <2>5. \A k \in Strangers : \/ index'[k].chain \in {<<>>, index[k].chain, disk[k]}
                               \/ Vouched(index'[k].chain, disk)
      BY <1>2, <2>3, <2>4
    <2> QED
      BY <2>2, <2>5 DEF StrangerStep
  <1>9. CASE Restart
    <2>1. /\ disk' = disk /\ index' = [l \in Ledgers |-> OnDisk(l)]
          /\ \A t \in Threads : task'[t] = NoTask
      BY <1>1, <1>9, RestartStep
    <2>2. \A l \in Strangers : index'[l].chain = disk[l]
      BY <1>1, <1>2, <2>1, OnDiskFacts
    <2> QED
      BY <1>2, <2>1, <2>2 DEF StrangerStep
  <1> QED
    BY <1>1, <1>3, <1>4, <1>5, <1>6, <1>7, <1>8, <1>9, StepCases

\* A push is refused admission only while the stored copy names no identity of
\* this home, whatever was answered before.
LEMMA StepKeepsGrowing ==
    ASSUME ControlInv, StoredLedgersKeepGrowing, [Next]_vars
    PROVE  StoredLedgersKeepGrowing'
  <1>1. setting' = setting /\ WitnessFor' = WitnessFor /\ ValidSetting
    BY StepControlStorage, SettingKept DEF ControlInv
  <1>2. ASSUME answer'.code # "not_admitted"
        PROVE  StoredLedgersKeepGrowing'
    BY <1>2 DEF StoredLedgersKeepGrowing
  <1>3. ASSUME NEW l \in Ledgers, Refuse(l, "not_admitted"), ~NamesAny(index[l].chain, WitnessFor)
        PROVE  StoredLedgersKeepGrowing'
    BY <1>1, <1>3 DEF Refuse, Answer, StoredLedgersKeepGrowing, NamesAny, WitnessIdentities, Latest
  <1>4. ASSUME answer' = NoAnswer
        PROVE  StoredLedgersKeepGrowing'
    BY <1>2, <1>4 DEF NoAnswer
  <1>5. ASSUME NEW l \in Ledgers, PushEmpty(l)
        PROVE  StoredLedgersKeepGrowing'
    <2>1. CASE Held(l)
      BY <1>2, <1>5, <2>1 DEF PushEmpty, Refuse, Answer
    <2>2. CASE ~Held(l)
      <3>1. ~NamesAny(index[l].chain, WitnessFor)
        BY <2>2, LatestOfNothing DEF Held, NamesAny, WitnessIdentities
      <3> QED
        BY <1>3, <1>5, <2>2, <3>1 DEF PushEmpty
    <2> QED
      BY <2>1, <2>2
  <1>6. ASSUME NEW l \in Ledgers, NEW c \in AllChains, NEW first \in 1..Len(c), Push(l, c, first)
        PROVE  StoredLedgersKeepGrowing'
    <2>1. CASE PushNotAdmitted(l, c, first)
      <3>1. Refuse(l, "not_admitted") /\ ~NamesAny(index[l].chain, WitnessFor)
        BY <2>1 DEF PushNotAdmitted, Admits
      <3> QED
        BY <1>3, <3>1
    <2>2. CASE \/ PushMalformed(l, c, first) \/ PushOtherLedger(l, c, first)
               \/ PushDivergesBadly(l, c, first) \/ PushRetries(l, c, first)
               \/ PushTooLarge(l, c, first) \/ PushUnavailable(l, c, first)
      <3>1. \E code \in {"malformed", "invalid", "ok", "too_large", "unavailable"} : Answer(l, code)
        BY <2>2 DEF PushMalformed, PushOtherLedger, PushDivergesBadly, PushRetries, PushTooLarge,
                    PushUnavailable, Refuse
      <3> QED
        BY <1>2, <3>1 DEF Answer
    <2>3. CASE PushForks(l, c, first)
      BY <1>2, <2>3 DEF PushForks, Answer
    <2>4. CASE PushStores(l, c, first)
      BY <1>2, <2>4 DEF PushStores, Answer
    <2> QED
      BY <1>6, <2>1, <2>2, <2>3, <2>4 DEF Push
  <1>7. CASE UNCHANGED vars
    BY <1>1, <1>7 DEF vars, StoredLedgersKeepGrowing, NamesAny, WitnessIdentities, Latest
  <1>8. CASE \/ \E l \in WalletLedgers : \E e \in EventsOf[l] : WalletAppend(l, e)
             \/ \E l \in ToolLedgers : \E e \in EventsOf[l] : ToolAppend(l, e)
             \/ \E l \in WalletLedgers \cap SignsFor : \E n \in 1..(Len(disk[l]) - 1) : WalletCut(l, n)
             \/ \E l \in ToolLedgers : \E n \in 1..(Len(disk[l]) - 1) : ToolCut(l, n)
             \/ \E t \in Adopters, l \in Asked : Miss(t, l)
             \/ \E t \in Threads : LoadEntry(t) \/ NoteLedger(t) \/ Adopt(t)
             \/ \E e \in Endpoints : SetEndpoint(e)
             \/ RecheckEndpoint
             \/ Restart
    <2>1. answer' = NoAnswer
      BY <1>8 DEF WalletAppend, ToolAppend, WalletCut, ToolCut, Miss, LoadEntry, NoteLedger, Adopt, SetEndpoint,
                  RecheckEndpoint, Restart
    <2> QED
      BY <1>4, <2>1
  <1> QED
    BY <1>5, <1>6, <1>7, <1>8 DEF Next

-----------------------------------------------------------------------------
(* The bytes counted.                                                      *)

Total(entries) == SumFunctionOnSet([l \in Ledgers |-> BytesOf(entries[l].chain)], Ledgers)

\* A chain has so many bytes, an empty one none.
LEMMA Bytes ==
    ASSUME ValidSetting, NEW c \in Seq(AnyEvent)
    PROVE  BytesOf(c) \in Nat /\ (c = <<>> => BytesOf(c) = 0)
  <1> DEFINE S == 1..Len(c)
             f == [n \in S |-> c[n].size]
  <1>1. BytesOf(c) = SumFunctionOnSet(f, S)
    BY DEF BytesOf
  <1>2. Len(c) \in Nat /\ \A n \in S : c[n] \in AnyEvent
    OBVIOUS
  <1>3. \A e \in AnyEvent : e.size \in Nat
    BY DEF AnyEvent, Event, Inception
  <1>4. \A n \in S : f[n] \in Nat
    BY <1>2, <1>3
  <1>5. IsFiniteSet(S)
    BY <1>2, FS_Interval
  <1>6. c = <<>> => S = {}
    OBVIOUS
  <1> HIDE DEF S, f
  <1>7. SumFunctionOnSet(f, S) \in Nat
    BY <1>4, <1>5, SumNat
  <1>8. SumFunctionOnSet(f, {}) = 0
    BY <1>5, SumUnfolds
  <1> QED
    BY <1>1, <1>6, <1>7, <1>8

\* Replacing the chain of one entry moves the total by the difference.
LEMMA TotalChanges ==
    ASSUME ValidSetting, NEW l \in Ledgers, NEW ix, NEW iy,
           \A k \in Ledgers : ix[k].chain \in Seq(AnyEvent) /\ iy[k].chain \in Seq(AnyEvent),
           \A k \in Ledgers : k # l => iy[k].chain = ix[k].chain
    PROVE  /\ Total(iy) = Total(ix) - BytesOf(ix[l].chain) + BytesOf(iy[l].chain)
           /\ BytesOf(ix[l].chain) <= Total(ix) /\ Total(ix) \in Nat /\ Total(iy) \in Nat
           /\ BytesOf(ix[l].chain) \in Nat /\ BytesOf(iy[l].chain) \in Nat
  <1> DEFINE f == [k \in Ledgers |-> BytesOf(ix[k].chain)]
             g == [k \in Ledgers |-> BytesOf(iy[k].chain)]
  <1>1. \A k \in Ledgers : f[k] \in Nat /\ g[k] \in Nat
    BY Bytes
  <1>2. \A k \in Ledgers : k # l => g[k] = f[k]
    OBVIOUS
  <1>3. f[l] = BytesOf(ix[l].chain) /\ g[l] = BytesOf(iy[l].chain)
    OBVIOUS
  <1>4. Total(ix) = SumFunctionOnSet(f, Ledgers) /\ Total(iy) = SumFunctionOnSet(g, Ledgers)
    BY DEF Total
  <1>5. IsFiniteSet(Ledgers)
    BY DEF ValidSetting
  <1> HIDE DEF f, g
  <1>6. /\ SumFunctionOnSet(g, Ledgers) = SumFunctionOnSet(f, Ledgers) - f[l] + g[l]
        /\ f[l] <= SumFunctionOnSet(f, Ledgers)
        /\ SumFunctionOnSet(f, Ledgers) \in Nat /\ SumFunctionOnSet(g, Ledgers) \in Nat
    BY <1>1, <1>2, <1>5, SumChanges
  <1> QED
    BY <1>1, <1>3, <1>4, <1>6

\* Indexes with the same chains have one total.
LEMMA TotalAgrees ==
    ASSUME ValidSetting, NEW ix, NEW iy, \A k \in Ledgers : iy[k].chain = ix[k].chain
    PROVE  Total(iy) = Total(ix)
  <1> DEFINE f == [k \in Ledgers |-> BytesOf(ix[k].chain)]
             g == [k \in Ledgers |-> BytesOf(iy[k].chain)]
  <1>1. f = g
    OBVIOUS
  <1> QED
    BY <1>1 DEF Total

\* The chains of the index, before and after a step.
LEMMA IndexChains ==
    ASSUME ControlInv, StoredAfter
    PROVE  \A k \in Ledgers : index[k].chain \in Seq(AnyEvent) /\ index'[k].chain \in Seq(AnyEvent)
  <1> SUFFICES ASSUME NEW k \in Ledgers
               PROVE  index[k].chain \in Seq(AnyEvent) /\ index'[k].chain \in Seq(AnyEvent)
    OBVIOUS
  <1>1. ValidSetting /\ index[k].chain \in Seq(AnyEvent)
    BY LedgerTypes
  <1>2. index'[k].chain \in AllChains \cup {<<>>}
    BY DEF StoredAfter, AllChains
  <1> QED
    BY <1>1, <1>2, AnyChain

UsedInv == ControlInv /\ used \in Nat /\ UsedIsExact

\* What a step does to the count and to what is counted.
LEMMA StepUsed ==
    ASSUME UsedInv, [Next]_vars
    PROVE  UsedInv'
  <1>1. /\ ControlInv /\ ControlInv' /\ StoredAfter /\ setting' = setting /\ ValidSetting
        /\ index \in [Ledgers -> Entries]
    BY StepControlStorage DEF UsedInv, ControlInv, Types, Entries
  <1>2. Ledgers' = Ledgers /\ Asked' = Asked
    BY <1>1, SettingKept
  <1>3. HeldBytes = Total(index) /\ HeldBytes' = Total(index')
    BY <1>2 DEF HeldBytes, Total, BytesOf
  <1>4. \A k \in Ledgers : index[k].chain \in Seq(AnyEvent) /\ index'[k].chain \in Seq(AnyEvent)
    BY <1>1, IndexChains
  <1>5. used \in Nat /\ used >= Total(index) /\ (Asked = {} => used = Total(index))
    BY <1>3 DEF UsedInv, UsedIsExact
  <1>6. ASSUME used' \in Nat, used' >= Total(index'), Asked = {} => used' = Total(index')
        PROVE  UsedInv'
    BY <1>1, <1>2, <1>3, <1>6 DEF UsedInv, UsedIsExact
  <1>7. ASSUME used' = used, \A k \in Ledgers : index'[k].chain = index[k].chain
        PROVE  UsedInv'
    <2>1. Total(index') = Total(index)
      BY <1>1, <1>7, TotalAgrees
    <2> QED
      BY <1>5, <1>6, <1>7, <2>1
  <1>8. ASSUME NEW l \in Ledgers, \A k \in Ledgers : k # l => index'[k].chain = index[k].chain
        PROVE  /\ Total(index') = Total(index) - BytesOf(index[l].chain) + BytesOf(index'[l].chain)
               /\ BytesOf(index[l].chain) <= Total(index) /\ Total(index) \in Nat /\ Total(index') \in Nat
               /\ BytesOf(index[l].chain) \in Nat /\ BytesOf(index'[l].chain) \in Nat
    BY <1>1, <1>4, <1>8, TotalChanges
  <1>9. CASE Still \/ Appends \/ Cuts \/ Reads \/ Moves
    <2>1. UNCHANGED <<index, used>>
      BY <1>1, <1>9, AppendStep, CutStep, ReadStep, EndpointStep DEF Still, Appends, Cuts, Reads, Moves
    <2> QED
      BY <1>7, <2>1
  <1>10. CASE Forks
    <2>1. PICK l \in Ledgers, c \in AllChains : \E first \in 1..Len(c) : PushForks(l, c, first)
      BY <1>10 DEF Forks
    <2>2. PICK first \in 1..Len(c) : PushForks(l, c, first)
      BY <2>1
    <2>3. used' = used /\ \E r \in SUBSET Chains(l) : index' = [index EXCEPT ![l].forks = @ \cup r]
      BY <1>1, <2>2, PushForksStep
    <2>4. \A k \in Ledgers : index'[k].chain = index[k].chain
      BY <1>1, <2>3, ForksKeepChains
    <2> QED
      BY <1>7, <2>3, <2>4
  <1>11. CASE Stores
    <2>1. PICK l \in Ledgers, c \in AllChains : \E first \in 1..Len(c) : PushStores(l, c, first)
      BY <1>11 DEF Stores
    <2> DEFINE q == Pushed(l, c)
    <2>2. /\ index' = [index EXCEPT ![l] = [chain |-> q, forks |-> index[l].forks]]
          /\ used' = used + BytesOf(q) - BytesOf(index[l].chain)
      BY <1>1, <2>1, PushStoresStep
    <2> HIDE DEF q
    <2>3. index'[l].chain = q /\ \A k \in Ledgers : k # l => index'[k].chain = index[k].chain
      BY <1>1, <2>2
    <2> DEFINE a == BytesOf(index[l].chain)
               b == BytesOf(q)
    <2>4. /\ Total(index') = Total(index) - a + b /\ a <= Total(index)
          /\ Total(index) \in Nat /\ Total(index') \in Nat /\ a \in Nat /\ b \in Nat
      BY <1>8, <2>3
    <2> HIDE DEF a, b
    <2>5. used' = used + b - a
      BY <2>2 DEF a, b
    <2>6. used' \in Nat /\ used' >= Total(index') /\ (Asked = {} => used' = Total(index'))
      BY <1>5, <2>4, <2>5
    <2> QED
      BY <1>6, <2>6
  <1>12. CASE Inserts
    <2>1. PICK t \in Threads : NoteLedger(t) \/ Adopt(t)
      BY <1>12 DEF Inserts
    <2> DEFINE l == task[t].ledger
               read == task[t].entry
    <2>2. /\ l \in Ledgers /\ read.chain \in Chains(l) \cup {<<>>}
          /\ index' = [index EXCEPT ![l] = read] \/ (index' = index /\ read = NoEntry /\ Adopt(t))
          /\ \/ NoteLedger(t) /\ used' = used - BytesOf(index[l].chain) + BytesOf(read.chain)
             \/ Adopt(t) /\ l \in Asked /\ used' = used + BytesOf(read.chain)
      BY <1>1, <2>1, InsertStep
    <2>3. ~(NoteLedger(t) /\ Adopt(t))
      BY DEF NoteLedger, Adopt
    <2> HIDE DEF l, read
    <2> DEFINE a == BytesOf(index[l].chain)
               b == BytesOf(read.chain)
    <2>4. CASE index' = [index EXCEPT ![l] = read]
      <3>1. index'[l] = read /\ \A k \in Ledgers : k # l => index'[k] = index[k]
        BY <1>1, <2>2, <2>4
      <3>2. /\ Total(index') = Total(index) - a + b /\ a <= Total(index)
            /\ Total(index) \in Nat /\ Total(index') \in Nat /\ a \in Nat /\ b \in Nat
        BY <1>8, <2>2, <3>1
      <3>3. used' = used - a + b \/ (Asked # {} /\ used' = used + b)
        BY <2>2
      <3> HIDE DEF a, b
      <3>4. used' \in Nat /\ used' >= Total(index') /\ (Asked = {} => used' = Total(index'))
        BY <1>5, <3>2, <3>3
      <3> QED
        BY <1>6, <3>4
    <2>5. CASE index' = index /\ read = NoEntry /\ Adopt(t)
      <3>1. used' = used + BytesOf(read.chain) /\ read.chain = <<>>
        BY <2>2, <2>3, <2>5 DEF NoEntry
      <3>2. BytesOf(read.chain) = 0
        <4> DEFINE none == <<>>
        <4>1. none \in Seq(AnyEvent)
          OBVIOUS
        <4>2. BytesOf(none) = 0
          BY <1>1, <4>1, Bytes
        <4> QED
          BY <3>1, <4>2
      <3>3. used' = used
        BY <1>5, <3>1, <3>2
      <3> QED
        BY <1>7, <2>5, <3>3
    <2> QED
      BY <2>2, <2>4, <2>5
  <1>13. CASE Restart
    <2>1. /\ index' = [l \in Ledgers |-> OnDisk(l)]
          /\ used' = SumFunctionOnSet([l \in Ledgers |-> BytesOf(OnDisk(l).chain)], Ledgers)
      BY <1>1, <1>13, RestartStep
    <2>2. \A l \in Ledgers : index'[l].chain = OnDisk(l).chain
      BY <2>1
    <2>3. [l \in Ledgers |-> BytesOf(OnDisk(l).chain)] = [l \in Ledgers |-> BytesOf(index'[l].chain)]
      BY <2>2
    <2>4. used' = Total(index')
      BY <2>1, <2>3 DEF Total
    <2>5. Total(index') \in Nat
      <3> DEFINE f == [l \in Ledgers |-> BytesOf(index'[l].chain)]
      <3>1. \A l \in Ledgers : f[l] \in Nat
        BY <1>1, <1>4, Bytes
      <3>2. Total(index') = SumFunctionOnSet(f, Ledgers) /\ IsFiniteSet(Ledgers)
        BY <1>1 DEF Total, ValidSetting
      <3> HIDE DEF f
      <3> QED
        BY <3>1, <3>2, SumNat
    <2> QED
      BY <1>6, <2>4, <2>5
  <1> QED
    BY <1>1, <1>9, <1>10, <1>11, <1>12, <1>13, StepCases

\* A fresh home counts nothing.
LEMMA InitUsed == Init => UsedInv
  <1> SUFFICES ASSUME Init
               PROVE  UsedInv
    OBVIOUS
  <1>1. ControlInv /\ ValidSetting /\ used = 0 /\ IsFiniteSet(Ledgers)
    BY InitControlStorage DEF Init, ValidSetting
  <1> DEFINE f == [l \in Ledgers |-> BytesOf(index[l].chain)]
             none == <<>>
  <1>2. none \in Seq(AnyEvent)
    OBVIOUS
  <1>3. BytesOf(none) = 0
    BY <1>1, <1>2, Bytes
  <1>4. \A l \in Ledgers : f[l] = 0
    BY <1>3 DEF Init, NoEntry
  <1>5. HeldBytes = SumFunctionOnSet(f, Ledgers)
    BY DEF HeldBytes
  <1> HIDE DEF f
  <1>6. SumFunctionOnSet(f, Ledgers) = 0
    BY <1>1, <1>4, SumOfZeros
  <1> QED
    BY <1>1, <1>5, <1>6 DEF UsedInv, UsedIsExact

\* storage_used never counts less than the index holds, and exactly that while
\* no read adopts a ledger.
THEOREM UsedTheorem == Spec => []UsedIsExact
  <1>1. UsedInv => UsedIsExact
    BY DEF UsedInv
  <1> QED
    BY <1>1, InitUsed, StepUsed, PTL DEF Spec

\* Admission goes by the verdicts of now, lets in only what an identity of this
\* home stood for, and keeps what it let in growing (LedgerStorage::admit).
THEOREM AdmissionTheorem == Spec => []AdmissionFollowsThePolicy
  <1> DEFINE Inv == UsedInv /\ StrangerInv /\ StoredLedgersKeepGrowing
  <1>1. Init => Inv
    <2> SUFFICES ASSUME Init
                 PROVE  Inv
      OBVIOUS
    <2>1. UsedInv /\ VerdictInv
      BY InitUsed, InitVerdictInv
    <2>2. \A l \in Strangers : disk[l] = <<>> /\ index[l].chain = <<>>
      BY DEF Init, Strangers, NoEntry
    <2>3. \A t \in Threads : task[t] = NoTask
      BY DEF Init
    <2>4. answer.code = "none"
      BY DEF Init, NoAnswer
    <2> QED
      BY <2>1, <2>2, <2>3, <2>4 DEF StrangerInv, StoredLedgersKeepGrowing
  <1>2. Inv /\ [Next]_vars => Inv'
    <2> SUFFICES ASSUME Inv, [Next]_vars
                 PROVE  Inv'
      OBVIOUS
    <2>1. ControlInv
      BY DEF UsedInv
    <2>2. StrangerInv'
      BY StepStrangers, StrangersAfter
    <2> QED
      BY <2>1, <2>2, StepUsed, StepKeepsGrowing
  <1>3. Inv => AdmissionFollowsThePolicy
    <2> SUFFICES ASSUME Inv
                 PROVE  AdmissionFollowsThePolicy
      OBVIOUS
    <2>1. TypeOK /\ VerdictsAreCurrent /\ StoredLedgersKeepGrowing
      BY DEF UsedInv, ControlInv, TypeOK, StrangerInv, VerdictInv
    <2>2. StrangersWereAdvertised
      <3> SUFFICES ASSUME NEW l \in Strangers, Held(l)
                   PROVE  Vouched(index[l].chain, disk)
        BY DEF StrangersWereAdvertised, Strangers, Vouched, Stood, Advertised
      <3> QED
        BY DEF StrangerInv, Held
    <2> QED
      BY <2>1, <2>2 DEF AdmissionFollowsThePolicy
  <1> QED
    BY <1>1, <1>2, <1>3, PTL DEF Spec

-----------------------------------------------------------------------------
(* The caps.                                                               *)

\* The ledgers an index has a chain of.
HeldOf(entries) == {k \in Ledgers : entries[k].chain # <<>>}

\* A push that stores stays within the caps.
LEMMA StoreWithinCaps ==
    ASSUME UsedInv, UsedInv', NEW l \in Ledgers, NEW c \in AllChains, NEW first \in 1..Len(c),
           PushStores(l, c, first), Pushed(l, c) # index[l].chain
    PROVE  /\ Len(index'[l].chain) <= EventsPerLedger
           /\ BytesOf(index'[l].chain) <= BytesPerLedger
           /\ ~Held(l) => Cardinality({k \in Ledgers : Held(k)}') <= LedgersCap
           /\ HeldBytes' <= StorageCapacity
           /\ \A k \in Ledgers : k # l => index'[k].chain = index[k].chain
  <1> DEFINE q == Pushed(l, c)
             p == index[l].chain
             a == BytesOf(p)
             b == BytesOf(q)
  <1>1. /\ ControlInv /\ StoredAfter /\ WithinCaps(l, q) /\ setting' = setting /\ Prefix(p, q)
        /\ index' = [index EXCEPT ![l] = [chain |-> q, forks |-> index[l].forks]]
    BY PushStoresStep DEF UsedInv
  <1>2. ValidSetting /\ index \in [Ledgers -> Entries] /\ Ledgers' = Ledgers
    BY <1>1, SettingKept DEF ControlInv, Types, Entries
  <1> HIDE DEF q, p
  <1>3. index'[l].chain = q /\ \A k \in Ledgers : k # l => index'[k].chain = index[k].chain
    BY <1>1, <1>2
  <1>4. /\ Len(q) <= EventsPerLedger /\ b <= BytesPerLedger
        /\ Held(l) \/ Cardinality({k \in Ledgers : Held(k)}) < LedgersCap
        /\ used + (b - a) <= StorageCapacity
    BY <1>1 DEF WithinCaps, p
  <1>5. \A k \in Ledgers : index[k].chain \in Seq(AnyEvent) /\ index'[k].chain \in Seq(AnyEvent)
    BY <1>1, IndexChains
  <1>6. /\ Total(index') = Total(index) - BytesOf(index[l].chain) + BytesOf(index'[l].chain)
        /\ Total(index) \in Nat
        /\ BytesOf(index[l].chain) \in Nat /\ BytesOf(index'[l].chain) \in Nat
    BY <1>2, <1>3, <1>5, TotalChanges
  <1>7. Total(index') = Total(index) - a + b /\ Total(index) \in Nat /\ a \in Nat /\ b \in Nat
    BY <1>3, <1>6 DEF p
  <1>8. HeldBytes = Total(index) /\ HeldBytes' = Total(index')
    BY <1>2 DEF HeldBytes, Total, BytesOf
  <1>9. HeldBytes' <= StorageCapacity
    <2>1. used >= Total(index) /\ used \in Nat
      BY <1>8 DEF UsedInv, UsedIsExact
    <2>2. StorageCapacity \in Nat
      BY <1>2 DEF ValidSetting
    <2> HIDE DEF a, b
    <2> QED
      BY <1>4, <1>7, <1>8, <2>1, <2>2
  <1>10. ASSUME ~Held(l)
         PROVE  Cardinality({k \in Ledgers : Held(k)}') <= LedgersCap
    <2>1. HeldOf(index) = {k \in Ledgers : Held(k)}
      BY DEF HeldOf, Held
    <2>2. {k \in Ledgers : Held(k)}' = {k \in Ledgers : index'[k].chain # <<>>}
      BY <1>2 DEF Held
    <2>3. l \notin HeldOf(index) /\ HeldOf(index) \subseteq Ledgers
      BY <1>10 DEF HeldOf, Held
    <2>4. {k \in Ledgers : index'[k].chain # <<>>} \subseteq HeldOf(index) \cup {l}
      BY <1>3 DEF HeldOf
    <2>5. IsFiniteSet(HeldOf(index))
      BY <1>2, <2>3, FS_Subset DEF ValidSetting
    <2>6. /\ IsFiniteSet(HeldOf(index) \cup {l})
          /\ Cardinality(HeldOf(index) \cup {l}) = Cardinality(HeldOf(index)) + 1
      BY <2>3, <2>5, FS_AddElement
    <2> DEFINE after == {k \in Ledgers : index'[k].chain # <<>>}
    <2>7. IsFiniteSet(after) /\ Cardinality(after) <= Cardinality(HeldOf(index) \cup {l})
      BY <2>4, <2>6, FS_Subset
    <2>8. /\ Cardinality(after) \in Nat /\ Cardinality(HeldOf(index)) \in Nat
          /\ Cardinality(HeldOf(index)) < LedgersCap /\ LedgersCap \in Nat
      BY <1>2, <1>4, <1>10, <2>1, <2>5, <2>7, FS_CardinalityType DEF ValidSetting
    <2> HIDE DEF after
    <2>9. Cardinality(after) <= LedgersCap
      BY <2>6, <2>7, <2>8
    <2> QED
      BY <2>2, <2>9 DEF after
  <1> QED
    BY <1>3, <1>4, <1>9, <1>10

\* What a step may do to the caps.
CapsKept ==
    \A l \in Ledgers : (answer' # NoAnswer /\ index'[l].chain # index[l].chain) =>
          /\ Len(index'[l].chain) <= EventsPerLedger
          /\ BytesOf(index'[l].chain) <= BytesPerLedger
          /\ ~Held(l) => Cardinality({k \in Ledgers : Held(k)}') <= LedgersCap
          /\ HeldBytes' <= StorageCapacity

\* No push carries this home over a cap (check_caps), counting the events
\* themselves and not the running total.
THEOREM CapsTheorem == Spec => PushesStayWithinCaps
  <1>1. ASSUME UsedInv, [Next]_vars
        PROVE  CapsKept
    <2>1. ControlInv /\ UsedInv' /\ ValidSetting /\ index \in [Ledgers -> Entries]
      BY <1>1, StepUsed DEF UsedInv, ControlInv, Types, Entries
    <2>2. ASSUME \A k \in Ledgers : index'[k].chain = index[k].chain
          PROVE  CapsKept
      BY <2>2 DEF CapsKept
    <2>3. CASE Still
      BY <2>2, <2>3 DEF Still
    <2>4. CASE Forks
      <3>1. PICK l \in Ledgers, c \in AllChains : \E first \in 1..Len(c) : PushForks(l, c, first)
        BY <2>4 DEF Forks
      <3>2. PICK first \in 1..Len(c) : PushForks(l, c, first)
        BY <3>1
      <3>3. \E r \in SUBSET Chains(l) : index' = [index EXCEPT ![l].forks = @ \cup r]
        BY <2>1, <3>2, PushForksStep
      <3> QED
        BY <2>1, <2>2, <3>3, ForksKeepChains
    <2>5. CASE Stores
      <3>1. PICK l \in Ledgers, c \in AllChains : \E first \in 1..Len(c) : PushStores(l, c, first)
        BY <2>5 DEF Stores
      <3>2. PICK first \in 1..Len(c) : PushStores(l, c, first)
        BY <3>1
      <3>3. CASE Pushed(l, c) # index[l].chain
        BY <1>1, <2>1, <3>2, <3>3, StoreWithinCaps DEF CapsKept
      <3>4. CASE Pushed(l, c) = index[l].chain
        <4>1. index' = [index EXCEPT ![l] = [chain |-> index[l].chain, forks |-> index[l].forks]]
          BY <2>1, <3>2, <3>4, PushStoresStep
        <4> QED
          BY <2>1, <2>2, <4>1
      <3> QED
        BY <3>3, <3>4
    <2>6. CASE Appends \/ Cuts \/ Reads \/ Inserts \/ Moves \/ Restart
      <3>1. answer' = NoAnswer
        BY <2>1, <2>6, AppendStep, CutStep, ReadStep, InsertStep, EndpointStep, RestartStep
           DEF Appends, Cuts, Reads, Inserts, Moves
      <3> QED
        BY <3>1 DEF CapsKept
    <2> QED
      BY <1>1, <2>1, <2>3, <2>4, <2>5, <2>6, StepCases
  <1>2. UsedInv /\ [Next]_vars => [CapsKept]_vars
    BY <1>1
  <1>3. UsedInv /\ [Next]_vars => UsedInv'
    BY StepUsed
  <1> QED
    BY <1>2, <1>3, InitUsed, PTL DEF Spec, PushesStayWithinCaps, CapsKept
=============================================================================
