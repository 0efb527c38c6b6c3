------------------------- MODULE LedgerFilesProofs --------------------------
(***************************************************************************)
(* Proofs about LedgerFiles, for any number of processes and locks, every  *)
(* bound on the chain and any number of crashes: no file is overwritten    *)
(* with other bytes, the directory stays one whole chain that holds        *)
(* everything acknowledged, and the index of a lone node says the same.    *)
(***************************************************************************)
EXTENDS LedgerFiles, SequenceFacts, FiniteSetTheorems

-----------------------------------------------------------------------------
(* Chains.                                                                 *)

\* A chain is not empty, fits the directory and ends in its own last event.
LEMMA ChainFacts ==
    ASSUME NEW c \in Chains
    PROVE  /\ c \in Seq(Tags \cup {Genesis}) /\ c # <<>> /\ Len(c) \in 1..MaxLen
           /\ Len(c) - 1 \in Seqs /\ EventAt(c, Len(c) - 1) = c
  <1>1. Chains = StartingWith(Genesis, Tags, MaxLen) /\ MaxLen \in Nat \ {0}
    BY BoundsAssumption DEF Chains, StartingWith
  <1>2. c \in Seq(Tags \cup {Genesis}) /\ c # <<>> /\ Len(c) \in 1..MaxLen
    BY <1>1, StartingFacts
  <1>3. Len(c) - 1 + 1 = Len(c) /\ SubSeq(c, 1, Len(c)) = c
    BY <1>2, SubSeqFull
  <1> QED
    BY <1>1, <1>2, <1>3 DEF EventAt, Seqs

\* The inception alone is a chain.
LEMMA GenesisFacts == <<Genesis>> \in Chains /\ Len(<<Genesis>>) = 1 /\ <<>> \notin Chains
  <1>1. Chains = StartingWith(Genesis, Tags, MaxLen) /\ MaxLen \in Nat \ {0}
    BY BoundsAssumption DEF Chains, StartingWith
  <1> QED
    BY <1>1, StartingAlone

\* The event at a seq is the chain up to it.
LEMMA EventFacts ==
    ASSUME NEW c \in Chains, NEW s \in 0..(Len(c) - 1)
    PROVE  /\ EventAt(c, s) \in Chains /\ Len(EventAt(c, s)) = s + 1
           /\ \A t \in 0..s : EventAt(EventAt(c, s), t) = EventAt(c, t)
  <1>1. Chains = StartingWith(Genesis, Tags, MaxLen) /\ MaxLen \in Nat \ {0}
    BY BoundsAssumption DEF Chains, StartingWith
  <1>2. s + 1 \in 1..Len(c) /\ c \in Seq(Tags \cup {Genesis})
    BY ChainFacts
  <1>3. EventAt(c, s) \in Chains /\ Len(EventAt(c, s)) = s + 1
    BY <1>1, <1>2, StartingCut DEF EventAt
  <1>4. ASSUME NEW t \in 0..s
        PROVE  EventAt(EventAt(c, s), t) = EventAt(c, t)
    <2>1. s + 1 \in 0..Len(c) /\ t + 1 \in 0..(s + 1)
      BY <1>2
    <2> QED
      BY <1>2, <2>1, CutOfCut DEF EventAt
  <1> QED
    BY <1>3, <1>4

\* A prefix is the event at its last seq.
LEMMA PrefixFacts ==
    ASSUME NEW c \in Chains, NEW d \in Chains
    PROVE  Prefix(c, d) <=> Len(c) <= Len(d) /\ EventAt(d, Len(c) - 1) = c
  <1>1. Len(c) - 1 + 1 = Len(c)
    BY ChainFacts
  <1> QED
    BY <1>1 DEF Prefix, EventAt

\* One signed event extends a chain by one.
LEMMA AppendFacts ==
    ASSUME NEW c \in Chains, Len(c) < MaxLen, NEW tag \in Tags
    PROVE  /\ Append(c, tag) \in Chains /\ Len(Append(c, tag)) = Len(c) + 1
           /\ EventAt(Append(c, tag), Len(c) - 1) = c
  <1>1. Chains = StartingWith(Genesis, Tags, MaxLen) /\ MaxLen \in Nat \ {0}
    BY BoundsAssumption DEF Chains, StartingWith
  <1>2. Len(c) - 1 + 1 = Len(c)
    BY ChainFacts
  <1> QED
    BY <1>1, <1>2, StartingAppend DEF EventAt

\* Chains that are no prefixes of each other share the inception, and less than
\* the whole of either.
LEMMA SharedFacts ==
    ASSUME NEW c \in Chains, NEW d \in Chains, ~Prefix(c, d), ~Prefix(d, c)
    PROVE  SharedLength(c, d) \in 1..(Len(d) - 1)
  <1> DEFINE T == {n \in 1..Len(c) : n <= Len(d) /\ SubSeq(c, 1, n) = SubSeq(d, 1, n)}
  <1>1. Len(c) \in 1..MaxLen /\ Len(d) \in 1..MaxLen /\ MaxLen \in Nat
    BY ChainFacts, BoundsAssumption
  <1>2. Len(d) \notin T
    <2>1. SUFFICES ASSUME Len(d) \in T
                   PROVE  FALSE
      OBVIOUS
    <2>2. Len(d) <= Len(c) /\ SubSeq(c, 1, Len(d)) = SubSeq(d, 1, Len(d))
      BY <1>1, <2>1
    <2>3. SubSeq(d, 1, Len(d)) = d
      BY ChainFacts, SubSeqFull
    <2> QED
      BY <2>2, <2>3 DEF Prefix
  <1>3. 1 \in T
    <2> DEFINE e == EventAt(c, 0)
               f == EventAt(d, 0)
    <2>1. 0 \in 0..(Len(c) - 1) /\ 0 \in 0..(Len(d) - 1)
      BY <1>1
    <2>2. e \in Chains /\ f \in Chains /\ Len(e) = 1 /\ Len(f) = 1
      <3>1. e \in Chains /\ Len(e) = 0 + 1
        BY <2>1, EventFacts
      <3>2. f \in Chains /\ Len(f) = 0 + 1
        BY <2>1, EventFacts
      <3> QED
        BY <3>1, <3>2
    <2> HIDE DEF e, f
    <2>3. /\ e \in Seq(Tags \cup {Genesis}) /\ f \in Seq(Tags \cup {Genesis})
          /\ e[1] = Genesis /\ f[1] = Genesis
      <3>1. Chains = StartingWith(Genesis, Tags, MaxLen) /\ MaxLen \in Nat \ {0}
        BY BoundsAssumption DEF Chains, StartingWith
      <3> QED
        BY <2>2, <3>1, StartingFacts
    <2>4. e = f
      BY <2>2, <2>3, SeqEqual
    <2>5. SubSeq(c, 1, 1) = SubSeq(d, 1, 1)
      BY <2>4 DEF e, f, EventAt
    <2> QED
      BY <1>1, <2>5
  <1>4. T \subseteq 1..(Len(d) - 1)
    BY <1>1, <1>2
  <1> HIDE DEF T
  <1>5. /\ IsFiniteSet(1..(Len(d) - 1))
        /\ Cardinality(1..(Len(d) - 1)) = Len(d) - 1
    <2>1. PICK k \in Nat : k = Len(d) - 1
      BY <1>1
    <2>2. 1 \in Int /\ k \in Int
      BY <2>1
    <2>3. IsFiniteSet(1..k) /\ Cardinality(1..k) = (IF 1 > k THEN 0 ELSE k - 1 + 1)
      BY <2>2, FS_Interval
    <2> QED
      BY <2>1, <2>3
  <1>6. IsFiniteSet(T) /\ Cardinality(T) <= Cardinality(1..(Len(d) - 1))
    BY <1>4, <1>5, FS_Subset
  <1>7. Cardinality({1}) = 1 /\ {1} \in SUBSET T
    BY <1>3, FS_Singleton
  <1>8. Cardinality(T) \in Nat /\ 1 <= Cardinality(T)
    BY <1>6, <1>7, FS_Subset, FS_CardinalityType
  <1> QED
    BY <1>1, <1>5, <1>6, <1>8 DEF T, SharedLength

-----------------------------------------------------------------------------
(* Types and where a lock's holder may be.                                 *)

\* Where a wallet is while it truncates, or owes the index a note.
Noting == {"remove", "unhead", "rebuild", "note", "replace"}

\* What the label of a lock's holder says of it: its process runs, it has a
\* chain to store, only an append lock is held while truncating and noting and
\* only an index lock while publishing.
ControlHolds(w) ==
    /\ pc[w] # "idle" => ProcessOf[w] \in up /\ target[w] \in Chains
    /\ pc[w] \in Noting \cup {"overlap", "acked"} => w \in Wallets
    /\ pc[w] = "publish" => w \in Servers
    /\ pc[w] \in {"check", "write"} => next[w] < Len(target[w])
    /\ pc[w] \in {"remove", "unhead"} => Truncating
    /\ pc[w] = "remove" => doomed[w] # {}
    /\ pc[w] \in {"remove", "unhead", "rebuild"} => after[w] = "overlap"
    /\ pc[w] \in {"note", "replace"} => after[w] \in {"acked", "overlap"}
    /\ pc[w] \in {"check", "write", "head"} /\ w \in Wallets => after[w] = "acked"

ControlInv == TypeOK /\ \A w \in Writers : ControlHolds(w)

\* A step of one holder leaves the others where they are.
Others(w) == \A v \in Writers : v # w =>
    /\ pc'[v] = pc[v] /\ target'[v] = target[v] /\ next'[v] = next[v]
    /\ doomed'[v] = doomed[v] /\ seen'[v] = seen[v] /\ after'[v] = after[v]

\* What the holder of lock w has in memory after a step.
Holds(w, label, c, seq, listed, read, then) ==
    /\ pc'[w] = label /\ target'[w] = c /\ next'[w] = seq
    /\ doomed'[w] = listed /\ seen'[w] = read /\ after'[w] = then

\* What is read of a directory is a chain or nothing.
LEMMA ReadTypes ==
    ASSUME TypeOK
    PROVE  {ContiguousEvent, StoredHead, Folded} \subseteq Chains \cup {<<>>}
  <1>1. \A T : T \subseteq Seqs /\ T # {} => (CHOOSE s \in T : \A t \in T : t <= s) \in Seqs
    <2> SUFFICES ASSUME NEW T, T \subseteq Seqs, T # {}
                 PROVE  (CHOOSE s \in T : \A t \in T : t <= s) \in Seqs
      OBVIOUS
    <2>1. T \subseteq Nat /\ MaxLen \in Nat /\ \A x \in T : x <= MaxLen
      BY BoundsAssumption DEF Seqs
    <2>2. \E s \in T : \A t \in T : t <= s
      BY <2>1, GreatestNatural
    <2> QED
      BY <2>2
  <1>2. ContiguousEvent \in Chains \cup {<<>>}
    <2> DEFINE run == {s \in Seqs : \A t \in 0..s : files[t] # <<>>}
    <2>1. run # {} => (CHOOSE s \in run : \A t \in run : t <= s) \in Seqs
      BY <1>1
    <2>2. ContiguousEvent = IF run = {} THEN <<>> ELSE files[CHOOSE s \in run : \A t \in run : t <= s]
      BY DEF ContiguousEvent
    <2> HIDE DEF run
    <2> QED
      BY <2>1, <2>2 DEF TypeOK
  <1>3. StoredHead \in Chains \cup {<<>>}
    BY <1>2 DEF StoredHead, TypeOK
  <1>4. Folded \in Chains \cup {<<>>}
    <2> DEFINE good == {s \in 0..(Len(StoredHead) - 1) : \A t \in 0..s : files[t] = EventAt(files[s], t)}
    <2>1. 0..(Len(StoredHead) - 1) \subseteq Seqs
      <3>1. CASE StoredHead \in Chains
        BY <3>1, ChainFacts, BoundsAssumption DEF Seqs
      <3>2. CASE StoredHead = <<>>
        BY <3>2
      <3> QED
        BY <1>3, <3>1, <3>2
    <2>2. good # {} => (CHOOSE s \in good : \A t \in good : t <= s) \in Seqs
      BY <1>1, <2>1
    <2>3. Folded = IF good = {} THEN <<>> ELSE files[CHOOSE s \in good : \A t \in good : t <= s]
      BY DEF Folded
    <2> HIDE DEF good
    <2> QED
      BY <2>2, <2>3 DEF TypeOK
  <1> QED
    BY <1>2, <1>3, <1>4

\* A fresh home holds the inception, and nobody a lock.
LEMMA InitControlFiles == Init => ControlInv
  <1> SUFFICES ASSUME Init
               PROVE  ControlInv
    OBVIOUS
  <1>1. <<Genesis>> \in Chains /\ 0 \in 0..MaxLen
    BY GenesisFacts, BoundsAssumption
  <1>2. TypeOK
    BY <1>1, BoundsAssumption DEF Init, TypeOK, Labels
  <1>3. ASSUME NEW w \in Writers
        PROVE  ControlHolds(w)
    BY <1>3 DEF Init, ControlHolds, Noting
  <1> QED
    BY <1>2, <1>3 DEF ControlInv

\* The step of one holder keeps the types and the labels, when what it changes
\* for itself does.
LEMMA HolderStep ==
    ASSUME ControlInv, NEW w \in Writers, Others(w), up' = up,
           pc' \in [Writers -> Labels], target' \in [Writers -> Chains \cup {<<>>}],
           next' \in [Writers -> 0..MaxLen], doomed' \in [Writers -> SUBSET Seqs],
           seen' \in [Writers -> Chains \cup {<<>>}],
           after' \in [Writers -> {"idle", "acked", "overlap", "publish"}],
           files' \in [Seqs -> Chains \cup {<<>>}], head' \in Chains \cup {<<>>},
           index' \in [Indexed -> Chains \cup {<<>>}], acked' \subseteq Chains,
           mishaps' \subseteq {"overtaken", "torn"}, crashes' = crashes,
           ControlHolds(w)'
    PROVE  ControlInv'
  <1>1. TypeOK'
    BY DEF ControlInv, TypeOK
  <1>2. ASSUME NEW v \in Writers, v # w
        PROVE  ControlHolds(v)'
    <2>1. /\ pc'[v] = pc[v] /\ target'[v] = target[v] /\ next'[v] = next[v]
          /\ doomed'[v] = doomed[v] /\ after'[v] = after[v] /\ ControlHolds(v)
      BY <1>2 DEF Others, ControlInv
    <2> QED
      BY <2>1 DEF ControlHolds
  <1> QED
    BY <1>1, <1>2 DEF ControlInv

\* Releasing a lock keeps the types and the labels.
LEMMA ReleaseControl ==
    ASSUME ControlInv, NEW w \in Writers, Release(w)
    PROVE  /\ Others(w) /\ Holds(w, "idle", <<>>, 0, {}, <<>>, "idle")
           /\ pc' \in [Writers -> Labels] /\ target' \in [Writers -> Chains \cup {<<>>}]
           /\ next' \in [Writers -> 0..MaxLen] /\ doomed' \in [Writers -> SUBSET Seqs]
           /\ seen' \in [Writers -> Chains \cup {<<>>}]
           /\ after' \in [Writers -> {"idle", "acked", "overlap", "publish"}]
           /\ ControlHolds(w)'
  <1>1. /\ Others(w) /\ Holds(w, "idle", <<>>, 0, {}, <<>>, "idle")
    BY DEF ControlInv, TypeOK, Release, Goto, Others, Holds
  <1>2. 0 \in 0..MaxLen /\ "idle" \in Labels
    BY BoundsAssumption DEF Labels
  <1>3. ControlHolds(w)'
    BY <1>1 DEF Holds, ControlHolds, Noting
  <1> QED
    BY <1>1, <1>2, <1>3 DEF ControlInv, TypeOK, Release, Goto

-----------------------------------------------------------------------------
(* What each step does, and that it keeps the types and the labels.        *)

\* The head that is read is the head that is stored, when one is.
LEMMA StoredHeadFacts ==
    ASSUME TypeOK, StoredHead # <<>>
    PROVE  /\ StoredHead \in Chains /\ Len(StoredHead) \in 1..MaxLen
           /\ Len(StoredHead) \in 0..MaxLen /\ MaxLen \in Nat
  <1>1. StoredHead \in Chains
    BY ReadTypes
  <1> QED
    BY <1>1, ChainFacts, BoundsAssumption

\* append_event takes the append lock with one signed event to store.
LEMMA BeginAppendStep ==
    ASSUME ControlInv, NEW w \in Wallets, NEW tag \in Tags, BeginAppend(w, tag)
    PROVE  /\ ControlInv' /\ Others(w) /\ pc[w] = "idle"
           /\ Holds(w, "check", Append(StoredHead, tag), Len(StoredHead), doomed[w], seen[w], "acked")
  <1>0. w \in Writers
    BY DEF Writers
  <1>1. /\ StoredHead \in Chains /\ Len(StoredHead) \in 0..MaxLen /\ Len(StoredHead) < MaxLen
        /\ Append(StoredHead, tag) \in Chains
        /\ Len(StoredHead) < Len(Append(StoredHead, tag))
    BY StoredHeadFacts, AppendFacts DEF ControlInv, BeginAppend
  <1>2. pc[w] = "idle" /\ ProcessOf[w] \in up
    BY DEF BeginAppend, Acquire
  <1> DEFINE c == Append(StoredHead, tag)
             n == Len(StoredHead)
  <1>3. /\ pc' = [pc EXCEPT ![w] = "check"] /\ target' = [target EXCEPT ![w] = c]
        /\ next' = [next EXCEPT ![w] = n] /\ after' = [after EXCEPT ![w] = "acked"]
        /\ UNCHANGED <<seen, doomed, files, index, up, acked, mishaps, crashes>>
        /\ head' = StoredHead
    BY DEF BeginAppend, Acquire, Goto
  <1>4. c \in Chains /\ n \in 0..MaxLen /\ n < Len(c) /\ "check" \in Labels /\ head' \in Chains
    BY <1>1, <1>3 DEF Labels
  <1> HIDE DEF c, n
  <1>5. Others(w) /\ Holds(w, "check", c, n, doomed[w], seen[w], "acked")
    BY <1>0, <1>3 DEF ControlInv, TypeOK, Others, Holds
  <1>6. ControlHolds(w)'
    BY <1>2, <1>3, <1>4, <1>5 DEF Holds, ControlHolds, Noting
  <1>7. ControlInv'
    BY <1>0, <1>3, <1>4, <1>5, <1>6, HolderStep DEF ControlInv, TypeOK
  <1> QED
    BY <1>2, <1>5, <1>7 DEF c, n

\* fetch takes the append lock with a served chain.
LEMMA BeginFetchStep ==
    ASSUME ControlInv, NEW w \in Wallets, NEW c \in Chains, BeginFetch(w, c)
    PROVE  /\ ControlInv' /\ Others(w) /\ pc[w] = "idle"
           /\ Holds(w, "overlap", c, 0, doomed[w], seen[w], "acked")
  <1>0. w \in Writers /\ 0 \in 0..MaxLen /\ "overlap" \in Labels
    BY BoundsAssumption DEF Writers, Labels
  <1>2. pc[w] = "idle" /\ ProcessOf[w] \in up
    BY DEF BeginFetch, Acquire
  <1>3. /\ pc' = [pc EXCEPT ![w] = "overlap"] /\ target' = [target EXCEPT ![w] = c]
        /\ next' = [next EXCEPT ![w] = 0] /\ after' = [after EXCEPT ![w] = "acked"]
        /\ UNCHANGED <<seen, doomed, files, head, index, up, acked, mishaps, crashes>>
    BY DEF BeginFetch, Acquire, Goto
  <1>5. Others(w) /\ Holds(w, "overlap", c, 0, doomed[w], seen[w], "acked")
    BY <1>0, <1>3 DEF ControlInv, TypeOK, Others, Holds
  <1>6. ControlHolds(w)'
    BY <1>2, <1>3, <1>5 DEF Holds, ControlHolds, Noting
  <1>7. ControlInv'
    BY <1>0, <1>3, <1>5, <1>6, HolderStep DEF ControlInv, TypeOK
  <1> QED
    BY <1>2, <1>5, <1>7

\* ensure_fresh takes the append lock with the seqs it is about to remove.
LEMMA BeginTruncateStep ==
    ASSUME ControlInv, NEW w \in Wallets, NEW c \in Chains, BeginTruncate(w, c)
    PROVE  /\ ControlInv' /\ Others(w) /\ pc[w] = "idle" /\ StoredHead \in Chains
           /\ SharedLength(c, StoredHead) \in 1..(Len(StoredHead) - 1)
           /\ Holds(w, "remove", c, SharedLength(c, StoredHead),
                    {s \in Seqs : s >= SharedLength(c, StoredHead) /\ files[s] # <<>>},
                    seen[w], "overlap")
  <1> DEFINE n == SharedLength(c, StoredHead)
             listed == {s \in Seqs : s >= n /\ files[s] # <<>>}
  <1>0. w \in Writers /\ "remove" \in Labels
    BY DEF Writers, Labels
  <1>1. StoredHead \in Chains /\ Len(StoredHead) \in 1..MaxLen /\ MaxLen \in Nat
    BY StoredHeadFacts DEF ControlInv, BeginTruncate
  <1>2. n \in 1..(Len(StoredHead) - 1)
    BY <1>1, SharedFacts DEF BeginTruncate
  <1>3. /\ pc' = [pc EXCEPT ![w] = "remove"] /\ target' = [target EXCEPT ![w] = c]
        /\ next' = [next EXCEPT ![w] = n] /\ after' = [after EXCEPT ![w] = "overlap"]
        /\ doomed' = [doomed EXCEPT ![w] = listed]
        /\ UNCHANGED <<seen, files, index, up, acked, mishaps, crashes>>
        /\ head' = StoredHead
        /\ pc[w] = "idle" /\ ProcessOf[w] \in up /\ Truncating
    BY DEF BeginTruncate, Acquire, Goto
  <1>4. n \in listed
    <2>1. n \in 0..(Len(StoredHead) - 1) /\ n \in Seqs /\ n >= n
      BY <1>1, <1>2 DEF Seqs
    <2> QED
      BY <2>1 DEF BeginTruncate, Readable
  <1>5. listed \in SUBSET Seqs /\ listed # {} /\ n \in 0..MaxLen
    BY <1>1, <1>2, <1>4
  <1> HIDE DEF n, listed
  <1>6. Others(w) /\ Holds(w, "remove", c, n, listed, seen[w], "overlap")
    BY <1>0, <1>3 DEF ControlInv, TypeOK, Others, Holds
  <1>7. ControlHolds(w)'
    BY <1>3, <1>5, <1>6 DEF Holds, ControlHolds, Noting
  <1>8. ControlInv'
    BY <1>0, <1>1, <1>3, <1>5, <1>6, <1>7, HolderStep DEF ControlInv, TypeOK
  <1> QED
    BY <1>1, <1>2, <1>3, <1>6, <1>8 DEF n, listed

\* A push takes the index lock with a chain that extends what the index holds.
LEMMA BeginPushStep ==
    ASSUME ControlInv, NEW w \in Servers, NEW c \in Chains, BeginPush(w, c)
    PROVE  /\ ControlInv' /\ Others(w) /\ pc[w] = "idle"
           /\ Len(index[ProcessOf[w]]) \in Nat /\ Len(c) > Len(index[ProcessOf[w]])
           /\ Holds(w, "check", c, Len(index[ProcessOf[w]]), doomed[w], seen[w], "publish")
  <1> DEFINE n == Len(index[ProcessOf[w]])
  <1>0. w \in Writers /\ w \notin Wallets /\ "check" \in Labels /\ ProcessOf[w] \in Indexed
    BY WritersAssumption DEF Writers, Labels
  <1>1. n \in Nat /\ n < Len(c) /\ Len(c) <= MaxLen /\ MaxLen \in Nat
    <2>1. index[ProcessOf[w]] \in Chains \cup {<<>>}
      BY <1>0 DEF ControlInv, TypeOK
    <2>2. n \in Nat
      BY <2>1, ChainFacts
    <2> QED
      BY <2>2, ChainFacts, BoundsAssumption DEF BeginPush
  <1>3. /\ pc' = [pc EXCEPT ![w] = "check"] /\ target' = [target EXCEPT ![w] = c]
        /\ next' = [next EXCEPT ![w] = n] /\ after' = [after EXCEPT ![w] = "publish"]
        /\ UNCHANGED <<seen, doomed, files, head, index, up, acked, mishaps, crashes>>
        /\ pc[w] = "idle" /\ ProcessOf[w] \in up
    BY DEF BeginPush, Acquire, Goto
  <1> HIDE DEF n
  <1>4. n \in 0..MaxLen
    BY <1>1, ChainFacts
  <1>5. Others(w) /\ Holds(w, "check", c, n, doomed[w], seen[w], "publish")
    BY <1>0, <1>3 DEF ControlInv, TypeOK, Others, Holds
  <1>6. ControlHolds(w)'
    BY <1>0, <1>1, <1>3, <1>5 DEF Holds, ControlHolds, Noting
  <1>7. ControlInv'
    BY <1>0, <1>3, <1>4, <1>5, <1>6, HolderStep DEF ControlInv, TypeOK
  <1> QED
    BY <1>1, <1>3, <1>5, <1>7 DEF n

\* What Holder w has in memory now.
Keeps(w, label) == Holds(w, label, target[w], next[w], doomed[w], seen[w], after[w])

\* Overtake records at most one kind of mishap.
LEMMA OvertakeType ==
    ASSUME TypeOK, NEW w \in Writers, Overtake(w)
    PROVE  mishaps' \subseteq {"overtaken", "torn"}
  BY DEF TypeOK, Overtake

\* store_events goes on with what is new, notes when nothing is, or gives up.
LEMMA OverlapStep ==
    ASSUME ControlInv, NEW w \in Writers, Overlap(w)
    PROVE  /\ ControlInv' /\ Others(w) /\ pc[w] = "overlap"
           /\ UNCHANGED <<files, index, up, acked, mishaps>> /\ head' = StoredHead
           /\ \/ Holds(w, "idle", <<>>, 0, {}, <<>>, "idle")
              \/ /\ FilesMatch(target[w], Len(StoredHead))
                 /\ Len(StoredHead) < Len(target[w])
                 /\ Holds(w, "check", target[w], Len(StoredHead), doomed[w], seen[w], "acked")
              \/ /\ FilesMatch(target[w], Len(StoredHead))
                 /\ Len(StoredHead) >= Len(target[w])
                 /\ Holds(w, "note", target[w], Len(StoredHead), doomed[w], seen[w], "acked")
  <1>1. /\ StoredHead \in Chains \cup {<<>>} /\ Len(StoredHead) \in 0..MaxLen
        /\ target[w] \in Chains /\ Len(target[w]) \in Nat /\ w \in Wallets
        /\ ProcessOf[w] \in up /\ pc[w] = "overlap"
    <2>1. StoredHead \in Chains \cup {<<>>}
      BY ReadTypes DEF ControlInv
    <2>2. Len(StoredHead) \in 0..MaxLen
      BY <2>1, ChainFacts, BoundsAssumption
    <2>3. pc[w] = "overlap" /\ ControlHolds(w)
      BY DEF Overlap, ControlInv
    <2>4. target[w] \in Chains /\ w \in Wallets /\ ProcessOf[w] \in up
      BY <2>3 DEF ControlHolds
    <2> QED
      BY <2>1, <2>2, <2>3, <2>4, ChainFacts
  <1>2. head' = StoredHead /\ UNCHANGED <<files, index, up, acked, mishaps, crashes>>
    BY DEF Overlap
  <1>3. CASE FilesMatch(target[w], Len(StoredHead))
    <2> DEFINE n == Len(StoredHead)
               label == IF n < Len(target[w]) THEN "check" ELSE "note"
    <2>1. /\ next' = [next EXCEPT ![w] = n] /\ after' = [after EXCEPT ![w] = "acked"]
          /\ pc' = [pc EXCEPT ![w] = label] /\ UNCHANGED <<target, doomed, seen>>
      BY <1>3 DEF Overlap, Goto
    <2>2. n \in 0..MaxLen /\ label \in Labels /\ n \in Nat
      BY <1>1 DEF Labels
    <2>3. \/ label = "check" /\ n < Len(target[w])
          \/ label = "note" /\ n >= Len(target[w])
      BY <1>1, <2>2
    <2> HIDE DEF n, label
    <2>4. Others(w) /\ Holds(w, label, target[w], n, doomed[w], seen[w], "acked")
      BY <2>1 DEF ControlInv, TypeOK, Others, Holds
    <2>5. ControlHolds(w)'
      BY <1>1, <1>2, <2>3, <2>4 DEF Holds, ControlHolds, Noting
    <2>6. ControlInv'
      BY <1>1, <1>2, <2>1, <2>2, <2>4, <2>5, HolderStep DEF ControlInv, TypeOK
    <2> QED
      BY <1>1, <1>2, <1>3, <2>3, <2>4, <2>6 DEF n
  <1>4. CASE ~FilesMatch(target[w], Len(StoredHead))
    <2>1. Release(w)
      BY <1>4 DEF Overlap
    <2>2. ControlInv'
      BY <1>1, <1>2, <2>1, ReleaseControl, HolderStep DEF ControlInv, TypeOK
    <2> QED
      BY <1>1, <1>2, <2>1, <2>2, ReleaseControl
  <1> QED
    BY <1>3, <1>4

\* write_events passes its checks, or gives up.
LEMMA CheckStep ==
    ASSUME ControlInv, NEW w \in Writers, Check(w)
    PROVE  /\ ControlInv' /\ Others(w) /\ pc[w] = "check"
           /\ UNCHANGED <<files, index, up, acked, mishaps>> /\ head' = StoredHead
           /\ \/ Holds(w, "idle", <<>>, 0, {}, <<>>, "idle")
              \/ /\ next[w] = Len(StoredHead)
                 /\ \A s \in next[w]..(Len(target[w]) - 1) : ~HoldsOtherBytes(target[w], s)
                 /\ Keeps(w, "write")
  <1>1. /\ StoredHead \in Chains \cup {<<>>} /\ pc[w] = "check" /\ ControlHolds(w)
        /\ head' = StoredHead /\ UNCHANGED <<files, index, up, acked, mishaps, crashes>>
    BY ReadTypes DEF Check, ControlInv
  <1> DEFINE passes == /\ next[w] = Len(StoredHead)
                       /\ \A s \in next[w]..(Len(target[w]) - 1) : ~HoldsOtherBytes(target[w], s)
  <1>2. CASE passes
    <2>1. pc' = [pc EXCEPT ![w] = "write"] /\ UNCHANGED <<target, next, doomed, seen, after>>
      BY <1>2 DEF Check, Goto
    <2>2. Others(w) /\ Keeps(w, "write") /\ "write" \in Labels
      BY <2>1 DEF ControlInv, TypeOK, Others, Holds, Keeps, Labels
    <2>3. ControlHolds(w)'
      BY <1>1, <2>2 DEF Holds, Keeps, ControlHolds, Noting
    <2> HIDE DEF passes
    <2>4. ControlInv'
      BY <1>1, <2>1, <2>2, <2>3, HolderStep DEF ControlInv, TypeOK
    <2> QED
      BY <1>1, <1>2, <2>2, <2>4 DEF passes
  <1>3. CASE ~passes
    <2>1. Release(w)
      BY <1>3 DEF Check
    <2>2. ControlInv'
      BY <1>1, <2>1, ReleaseControl, HolderStep DEF ControlInv, TypeOK
    <2> QED
      BY <1>1, <2>1, <2>2, ReleaseControl
  <1> QED
    BY <1>2, <1>3

\* One rename of an event file.
LEMMA WriteStep ==
    ASSUME ControlInv, NEW w \in Writers, Write(w)
    PROVE  /\ ControlInv' /\ Others(w) /\ pc[w] = "write" /\ Overtake(w)
           /\ target[w] \in Chains /\ next[w] \in 0..(Len(target[w]) - 1) /\ next[w] \in Seqs
           /\ UNCHANGED <<head, index, up, acked>>
           /\ files' = [files EXCEPT ![next[w]] = EventAt(target[w], next[w])]
           /\ EventAt(target[w], next[w]) \in Chains
           /\ \/ /\ next[w] + 1 = Len(target[w])
                 /\ Holds(w, "head", target[w], next[w] + 1, doomed[w], seen[w], after[w])
              \/ /\ next[w] + 1 < Len(target[w])
                 /\ Holds(w, "write", target[w], next[w] + 1, doomed[w], seen[w], after[w])
  <1> DEFINE c == target[w]
             n == next[w]
             label == IF n + 1 = Len(c) THEN "head" ELSE "write"
  <1>1. pc[w] = "write" /\ ControlHolds(w)
    BY DEF Write, ControlInv
  <1>2. /\ c \in Chains /\ n < Len(c) /\ ProcessOf[w] \in up /\ n \in Nat
        /\ Len(c) \in 1..MaxLen /\ MaxLen \in Nat
    <2>1. c \in Chains /\ n < Len(c) /\ ProcessOf[w] \in up
      BY <1>1 DEF ControlHolds
    <2>2. n \in 0..MaxLen
      BY DEF ControlInv, TypeOK
    <2> QED
      BY <2>1, <2>2, ChainFacts, BoundsAssumption
  <1>3. /\ files' = [files EXCEPT ![n] = EventAt(c, n)]
        /\ next' = [next EXCEPT ![w] = n + 1] /\ pc' = [pc EXCEPT ![w] = label]
        /\ UNCHANGED <<head, index, up, target, doomed, seen, after, acked, crashes>>
        /\ Overtake(w)
    BY DEF Write, Goto
  <1>4. /\ n \in 0..(Len(c) - 1) /\ n \in Seqs /\ n + 1 \in 0..MaxLen
        /\ (label = "head" /\ n + 1 = Len(c)) \/ (label = "write" /\ n + 1 < Len(c))
    BY <1>2 DEF Seqs
  <1>5. EventAt(c, n) \in Chains
    BY <1>2, <1>4, EventFacts
  <1>6. label \in Labels /\ (w \in Wallets => after[w] = "acked")
    BY <1>1, <1>4 DEF Labels, ControlHolds
  <1>7. mishaps' \subseteq {"overtaken", "torn"}
    BY <1>3, OvertakeType DEF ControlInv
  <1> HIDE DEF label
  <1>8. Others(w) /\ Holds(w, label, c, n + 1, doomed[w], seen[w], after[w])
    BY <1>3 DEF ControlInv, TypeOK, Others, Holds
  <1>9. ControlHolds(w)'
    BY <1>2, <1>3, <1>4, <1>6, <1>8 DEF Holds, ControlHolds, Noting
  <1>10. ControlInv'
    BY <1>3, <1>4, <1>5, <1>6, <1>7, <1>8, <1>9, HolderStep DEF ControlInv, TypeOK
  <1> QED
    BY <1>1, <1>2, <1>3, <1>4, <1>5, <1>8, <1>10

\* The rename of head.json, after the events.
LEMMA WriteHeadStep ==
    ASSUME ControlInv, NEW w \in Writers, WriteHead(w)
    PROVE  /\ ControlInv' /\ Others(w) /\ pc[w] = "head" /\ Overtake(w)
           /\ target[w] \in Chains /\ head' = target[w]
           /\ UNCHANGED <<files, index, up, acked>>
           /\ \/ w \in Servers /\ Keeps(w, "publish")
              \/ w \in Wallets /\ w \notin Servers /\ after[w] = "acked" /\ Keeps(w, "note")
  <1> DEFINE label == IF w \in Servers THEN "publish" ELSE "note"
  <1>1. pc[w] = "head" /\ ControlHolds(w) /\ (w \in Wallets \/ w \in Servers)
    BY DEF WriteHead, ControlInv, Writers
  <1>2. target[w] \in Chains /\ ProcessOf[w] \in up /\ (w \in Wallets => after[w] = "acked")
    BY <1>1 DEF ControlHolds
  <1>3. /\ head' = target[w] /\ pc' = [pc EXCEPT ![w] = label] /\ Overtake(w)
        /\ UNCHANGED <<files, index, up, target, next, doomed, seen, after, acked, crashes>>
    BY DEF WriteHead, Goto
  <1>4. /\ label \in Labels
        /\ \/ label = "publish" /\ w \in Servers
           \/ label = "note" /\ w \in Wallets /\ w \notin Servers
    BY <1>1 DEF Labels
  <1>5. mishaps' \subseteq {"overtaken", "torn"}
    BY <1>3, OvertakeType DEF ControlInv
  <1> HIDE DEF label
  <1>6. Others(w) /\ Keeps(w, label)
    BY <1>3 DEF ControlInv, TypeOK, Others, Holds, Keeps
  <1>7. ControlHolds(w)'
    BY <1>2, <1>3, <1>4, <1>6 DEF Holds, Keeps, ControlHolds, Noting
  <1>8. ControlInv'
    BY <1>2, <1>3, <1>4, <1>5, <1>6, <1>7, HolderStep DEF ControlInv, TypeOK
  <1> QED
    BY <1>1, <1>2, <1>3, <1>4, <1>6, <1>8

\* The index takes the pushed chain and the push is answered.
LEMMA PublishStep ==
    ASSUME ControlInv, NEW w \in Writers, Publish(w)
    PROVE  /\ ControlInv' /\ Others(w) /\ pc[w] = "publish" /\ w \in Servers
           /\ target[w] \in Chains /\ acked' = acked \cup {target[w]}
           /\ UNCHANGED <<files, head, up, mishaps>>
           /\ index' = [index EXCEPT ![ProcessOf[w]] = target[w]]
           /\ Holds(w, "idle", <<>>, 0, {}, <<>>, "idle")
  <1>1. pc[w] = "publish" /\ ControlHolds(w)
    BY DEF Publish, ControlInv
  <1>2. target[w] \in Chains /\ w \in Servers
    BY <1>1 DEF ControlHolds
  <1>3. /\ index' = [index EXCEPT ![ProcessOf[w]] = target[w]] /\ acked' = acked \cup {target[w]}
        /\ Release(w) /\ UNCHANGED <<files, head, up, mishaps, crashes>>
    BY DEF Publish
  <1>4. ControlInv'
    BY <1>2, <1>3, ReleaseControl, HolderStep DEF ControlInv, TypeOK
  <1> QED
    BY <1>1, <1>2, <1>3, <1>4, ReleaseControl

\* The lowest of the listed event files goes.
LEMMA RemoveEventStep ==
    ASSUME ControlInv, NEW w \in Writers, RemoveEvent(w)
    PROVE  /\ ControlInv' /\ Others(w) /\ pc[w] = "remove" /\ Overtake(w)
           /\ UNCHANGED <<head, index, up>>
           /\ \E first \in doomed[w] :
                 /\ first \in Seqs /\ \A t \in doomed[w] : first <= t
                 /\ files' = [files EXCEPT ![first] = <<>>]
                 /\ acked' = {a \in acked : Len(a) <= first}
                 /\ \E label \in {"remove", "unhead"} :
                       /\ label = "unhead" <=> doomed[w] \ {first} = {}
                       /\ Holds(w, label, target[w], next[w], doomed[w] \ {first}, seen[w], after[w])
  <1>1. pc[w] = "remove" /\ ControlHolds(w)
    BY DEF RemoveEvent, ControlInv
  <1>2. /\ target[w] \in Chains /\ w \in Wallets /\ ProcessOf[w] \in up /\ Truncating
        /\ doomed[w] # {} /\ after[w] = "overlap"
    BY <1>1 DEF ControlHolds, Noting
  <1> DEFINE first == CHOOSE s \in doomed[w] : \A t \in doomed[w] : s <= t
  <1>3. doomed[w] \subseteq Seqs /\ first \in doomed[w] /\ first \in Seqs /\ \A t \in doomed[w] : first <= t
    <2>1. doomed[w] \subseteq Seqs /\ doomed[w] \subseteq Nat
      BY BoundsAssumption DEF ControlInv, TypeOK, Seqs
    <2>2. \E s \in doomed[w] : \A t \in doomed[w] : s <= t
      BY <1>2, <2>1, LeastNatural
    <2> QED
      BY <2>1, <2>2
  <1>4. /\ files' = [files EXCEPT ![first] = <<>>]
        /\ doomed' = [doomed EXCEPT ![w] = doomed[w] \ {first}]
        /\ acked' = {a \in acked : Len(a) <= first}
        /\ pc' = [pc EXCEPT ![w] = IF doomed'[w] = {} THEN "unhead" ELSE "remove"]
        /\ UNCHANGED <<head, index, up, target, next, seen, after, crashes>>
        /\ Overtake(w)
    BY DEF RemoveEvent, Goto
  <1> HIDE DEF first
  <1>5. PICK label \in {"remove", "unhead"} :
           /\ label = "unhead" <=> doomed[w] \ {first} = {}
           /\ pc' = [pc EXCEPT ![w] = label] /\ label \in Labels
    <2>1. doomed'[w] = doomed[w] \ {first}
      BY <1>4 DEF ControlInv, TypeOK
    <2>2. CASE doomed[w] \ {first} = {}
      BY <1>4, <2>1, <2>2 DEF Labels
    <2>3. CASE doomed[w] \ {first} # {}
      BY <1>4, <2>1, <2>3 DEF Labels
    <2> QED
      BY <2>2, <2>3
  <1>6. Others(w) /\ Holds(w, label, target[w], next[w], doomed[w] \ {first}, seen[w], after[w])
    BY <1>4, <1>5 DEF ControlInv, TypeOK, Others, Holds
  <1>7. ControlHolds(w)'
    BY <1>2, <1>4, <1>5, <1>6 DEF Holds, ControlHolds, Noting
  <1>8. mishaps' \subseteq {"overtaken", "torn"}
    BY <1>4, OvertakeType DEF ControlInv
  <1>9. ControlInv'
    <2>1. /\ files' \in [Seqs -> Chains \cup {<<>>}] /\ acked' \subseteq Chains
          /\ pc' \in [Writers -> Labels]
      BY <1>3, <1>4, <1>5 DEF ControlInv, TypeOK
    <2>2. doomed' \in [Writers -> SUBSET Seqs]
      <3>1. doomed[w] \ {first} \in SUBSET Seqs
        BY <1>3
      <3> QED
        BY <1>4, <3>1 DEF ControlInv, TypeOK
    <2> QED
      BY <1>4, <1>6, <1>7, <1>8, <2>1, <2>2, HolderStep DEF ControlInv, TypeOK
  <1>10. \E l \in {"remove", "unhead"} :
            /\ l = "unhead" <=> doomed[w] \ {first} = {}
            /\ Holds(w, l, target[w], next[w], doomed[w] \ {first}, seen[w], after[w])
    BY <1>5, <1>6
  <1> QED
    BY <1>1, <1>3, <1>4, <1>6, <1>9, <1>10

\* head.json goes, after the events.
LEMMA RemoveHeadStep ==
    ASSUME ControlInv, NEW w \in Writers, RemoveHead(w)
    PROVE  /\ ControlInv' /\ Others(w) /\ pc[w] = "unhead" /\ Overtake(w) /\ w \in Wallets
           /\ head' = <<>> /\ UNCHANGED <<files, index, up, acked>> /\ Keeps(w, "rebuild")
  <1>1. pc[w] = "unhead" /\ ControlHolds(w)
    BY DEF RemoveHead, ControlInv
  <1>2. w \in Wallets /\ "rebuild" \in Labels
    BY <1>1 DEF ControlHolds, Noting, Labels
  <1>3. /\ head' = <<>> /\ pc' = [pc EXCEPT ![w] = "rebuild"] /\ Overtake(w)
        /\ UNCHANGED <<files, index, up, target, next, doomed, seen, after, acked, crashes>>
    BY DEF RemoveHead, Goto
  <1>4. Others(w) /\ Keeps(w, "rebuild")
    BY <1>3 DEF ControlInv, TypeOK, Others, Holds, Keeps
  <1>5. ControlHolds(w)'
    BY <1>1, <1>3, <1>4 DEF Holds, Keeps, ControlHolds, Noting
  <1>6. mishaps' \subseteq {"overtaken", "torn"}
    BY <1>3, OvertakeType DEF ControlInv
  <1>7. ControlInv'
    BY <1>2, <1>3, <1>4, <1>5, <1>6, HolderStep DEF ControlInv, TypeOK
  <1> QED
    BY <1>1, <1>2, <1>3, <1>4, <1>7

\* head.json is rebuilt from the files that are left.
LEMMA RebuildStep ==
    ASSUME ControlInv, NEW w \in Writers, Rebuild(w)
    PROVE  /\ ControlInv' /\ Others(w) /\ pc[w] = "rebuild" /\ Overtake(w) /\ w \in Wallets
           /\ head' = ContiguousEvent /\ UNCHANGED <<files, index, up, acked>>
           /\ after[w] = "overlap" /\ Keeps(w, "note")
  <1>1. pc[w] = "rebuild" /\ ControlHolds(w) /\ ContiguousEvent \in Chains \cup {<<>>}
    BY ReadTypes DEF Rebuild, ControlInv
  <1>2. w \in Wallets /\ after[w] = "overlap" /\ "note" \in Labels
    BY <1>1 DEF ControlHolds, Noting, Labels
  <1>3. /\ head' = ContiguousEvent /\ pc' = [pc EXCEPT ![w] = "note"] /\ Overtake(w)
        /\ UNCHANGED <<files, index, up, target, next, doomed, seen, after, acked, crashes>>
    BY DEF Rebuild, Goto
  <1>4. Others(w) /\ Keeps(w, "note")
    BY <1>3 DEF ControlInv, TypeOK, Others, Holds, Keeps
  <1>5. ControlHolds(w)'
    BY <1>1, <1>2, <1>3, <1>4 DEF Holds, Keeps, ControlHolds, Noting
  <1>6. mishaps' \subseteq {"overtaken", "torn"}
    BY <1>3, OvertakeType DEF ControlInv
  <1>7. ControlInv'
    BY <1>1, <1>2, <1>3, <1>4, <1>5, <1>6, HolderStep DEF ControlInv, TypeOK
  <1> QED
    BY <1>1, <1>2, <1>3, <1>4, <1>7

\* note_ledger reads the directory, or is skipped.
LEMMA NoteLoadStep ==
    ASSUME ControlInv, NEW w \in Writers, NoteLoad(w)
    PROVE  /\ ControlInv' /\ Others(w) /\ pc[w] = "note" /\ w \in Wallets
           /\ UNCHANGED <<files, index, up, acked, mishaps>>
           /\ after[w] \in {"acked", "overlap"}
           /\ \/ /\ Readable /\ head' = StoredHead
                 /\ Holds(w, "replace", target[w], next[w], doomed[w], Folded, after[w])
              \/ /\ ~(ProcessOf[w] \in Indexed /\ Readable) /\ head' = head
                 /\ Keeps(w, after[w])
  <1>1. /\ pc[w] = "note" /\ ControlHolds(w)
        /\ StoredHead \in Chains \cup {<<>>} /\ Folded \in Chains \cup {<<>>}
        /\ UNCHANGED <<files, index, up, target, next, doomed, after, acked, mishaps, crashes>>
    BY ReadTypes DEF NoteLoad, ControlInv
  <1>2. /\ w \in Wallets /\ after[w] \in {"acked", "overlap"} /\ "replace" \in Labels
        /\ after[w] \in Labels /\ target[w] \in Chains /\ ProcessOf[w] \in up
    BY <1>1 DEF ControlHolds, Noting, Labels
  <1>3. CASE ProcessOf[w] \in Indexed /\ Readable
    <2>1. /\ seen' = [seen EXCEPT ![w] = Folded] /\ head' = StoredHead
          /\ pc' = [pc EXCEPT ![w] = "replace"]
      BY <1>3 DEF NoteLoad, Goto
    <2>2. Others(w) /\ Holds(w, "replace", target[w], next[w], doomed[w], Folded, after[w])
      BY <1>1, <2>1 DEF ControlInv, TypeOK, Others, Holds
    <2>3. ControlHolds(w)'
      BY <1>1, <1>2, <2>2 DEF Holds, ControlHolds, Noting
    <2>4. ControlInv'
      BY <1>1, <1>2, <2>1, <2>2, <2>3, HolderStep DEF ControlInv, TypeOK
    <2> QED
      BY <1>1, <1>2, <1>3, <2>1, <2>2, <2>4
  <1>4. CASE ~(ProcessOf[w] \in Indexed /\ Readable)
    <2>1. UNCHANGED <<seen, head>> /\ pc' = [pc EXCEPT ![w] = after[w]]
      BY <1>4 DEF NoteLoad, Goto
    <2>2. Others(w) /\ Keeps(w, after[w])
      BY <1>1, <2>1 DEF ControlInv, TypeOK, Others, Holds, Keeps
    <2>3. ControlHolds(w)'
      BY <1>1, <1>2, <2>2 DEF Holds, Keeps, ControlHolds, Noting
    <2>4. ControlInv'
      BY <1>1, <1>2, <2>1, <2>2, <2>3, HolderStep DEF ControlInv, TypeOK
    <2> QED
      BY <1>1, <1>2, <1>4, <2>1, <2>2, <2>4
  <1> QED
    BY <1>3, <1>4

\* note_ledger replaces the entry, once it has the index lock.
LEMMA NoteReplaceStep ==
    ASSUME ControlInv, NEW w \in Writers, NoteReplace(w)
    PROVE  /\ ControlInv' /\ Others(w) /\ pc[w] = "replace" /\ w \in Wallets
           /\ IndexLockFree(ProcessOf[w])
           /\ index' = [index EXCEPT ![ProcessOf[w]] = seen[w]]
           /\ UNCHANGED <<files, head, up, acked, mishaps>>
           /\ after[w] \in {"acked", "overlap"} /\ Keeps(w, after[w])
  <1>1. /\ pc[w] = "replace" /\ ControlHolds(w) /\ IndexLockFree(ProcessOf[w])
        /\ index' = [index EXCEPT ![ProcessOf[w]] = seen[w]]
        /\ pc' = [pc EXCEPT ![w] = after[w]]
        /\ UNCHANGED <<files, head, up, target, next, doomed, seen, after, acked, mishaps, crashes>>
    BY DEF NoteReplace, ControlInv, Goto
  <1>2. /\ w \in Wallets /\ after[w] \in {"acked", "overlap"} /\ after[w] \in Labels
        /\ target[w] \in Chains /\ ProcessOf[w] \in up
    BY <1>1 DEF ControlHolds, Noting, Labels
  <1>3. Others(w) /\ Keeps(w, after[w])
    BY <1>1 DEF ControlInv, TypeOK, Others, Holds, Keeps
  <1>4. ControlHolds(w)'
    BY <1>1, <1>2, <1>3 DEF Holds, Keeps, ControlHolds, Noting
  <1>5. ControlInv'
    BY <1>1, <1>2, <1>3, <1>4, HolderStep DEF ControlInv, TypeOK
  <1> QED
    BY <1>1, <1>2, <1>3, <1>5

\* The write is answered and the append lock dropped.
LEMMA AcknowledgeStep ==
    ASSUME ControlInv, NEW w \in Writers, Acknowledge(w)
    PROVE  /\ ControlInv' /\ Others(w) /\ pc[w] = "acked" /\ w \in Wallets
           /\ target[w] \in Chains /\ acked' = acked \cup {target[w]}
           /\ UNCHANGED <<files, head, index, up, mishaps>>
           /\ Holds(w, "idle", <<>>, 0, {}, <<>>, "idle")
  <1>1. /\ pc[w] = "acked" /\ ControlHolds(w)
        /\ acked' = acked \cup {target[w]}
        /\ Release(w) /\ UNCHANGED <<files, head, index, up, mishaps, crashes>>
    BY DEF Acknowledge, ControlInv
  <1>2. target[w] \in Chains /\ w \in Wallets
    BY <1>1 DEF ControlHolds
  <1>3. ControlInv'
    BY <1>1, <1>2, ReleaseControl, HolderStep DEF ControlInv, TypeOK
  <1> QED
    BY <1>1, <1>2, <1>3, ReleaseControl

\* A crash frees the locks of its process and forgets what their holders knew.
LEMMA CrashStep ==
    ASSUME ControlInv, NEW p \in Process, Crash(p)
    PROVE  /\ ControlInv' /\ UNCHANGED <<files, head, acked>> /\ up' = up \ {p}
           /\ index' = [q \in Indexed |-> IF q = p THEN <<>> ELSE index[q]]
           /\ mishaps' = IF \E w \in Writers : ProcessOf[w] = p /\ pc[w] \in {"remove", "unhead"}
                         THEN mishaps \cup {"torn"} ELSE mishaps
           /\ \A w \in Writers : ProcessOf[w] = p => pc'[w] = "idle"
           /\ \A w \in Writers : ProcessOf[w] # p => Keeps(w, pc[w])
  <1>1. /\ UNCHANGED <<files, head, acked>> /\ up' = up \ {p} /\ crashes' = crashes + 1
        /\ crashes < MaxCrashes
        /\ index' = [q \in Indexed |-> IF q = p THEN <<>> ELSE index[q]]
        /\ mishaps' = IF \E w \in Writers : ProcessOf[w] = p /\ pc[w] \in {"remove", "unhead"}
                      THEN mishaps \cup {"torn"} ELSE mishaps
        /\ pc' = [w \in Writers |-> IF ProcessOf[w] = p THEN "idle" ELSE pc[w]]
        /\ target' = [w \in Writers |-> IF ProcessOf[w] = p THEN <<>> ELSE target[w]]
        /\ next' = [w \in Writers |-> IF ProcessOf[w] = p THEN 0 ELSE next[w]]
        /\ doomed' = [w \in Writers |-> IF ProcessOf[w] = p THEN {} ELSE doomed[w]]
        /\ seen' = [w \in Writers |-> IF ProcessOf[w] = p THEN <<>> ELSE seen[w]]
        /\ after' = [w \in Writers |-> IF ProcessOf[w] = p THEN "idle" ELSE after[w]]
    BY DEF Crash
  <1>2. /\ \A w \in Writers : ProcessOf[w] = p => pc'[w] = "idle"
        /\ \A w \in Writers : ProcessOf[w] # p => Keeps(w, pc[w])
    BY <1>1 DEF Keeps, Holds
  <1>3. TypeOK'
    <2>1. pc' \in [Writers -> Labels]
      BY <1>1 DEF ControlInv, TypeOK, Labels
    <2>2. next' \in [Writers -> 0..MaxLen] /\ crashes' \in 0..MaxCrashes
      BY <1>1, BoundsAssumption DEF ControlInv, TypeOK
    <2>3. mishaps' \subseteq {"overtaken", "torn"}
      BY <1>1 DEF ControlInv, TypeOK
    <2>4. /\ target' \in [Writers -> Chains \cup {<<>>}] /\ seen' \in [Writers -> Chains \cup {<<>>}]
          /\ doomed' \in [Writers -> SUBSET Seqs]
          /\ after' \in [Writers -> {"idle", "acked", "overlap", "publish"}]
          /\ index' \in [Indexed -> Chains \cup {<<>>}] /\ up' \subseteq Process
      BY <1>1 DEF ControlInv, TypeOK
    <2> QED
      BY <1>1, <2>1, <2>2, <2>3, <2>4 DEF ControlInv, TypeOK
  <1>4. ASSUME NEW w \in Writers
        PROVE  ControlHolds(w)'
    <2>1. CASE ProcessOf[w] = p
      BY <1>2, <2>1 DEF ControlHolds, Noting
    <2>2. CASE ProcessOf[w] # p
      <3>1. ControlHolds(w) /\ Keeps(w, pc[w])
        BY <1>2, <2>2 DEF ControlInv
      <3> QED
        BY <1>1, <2>2, <3>1 DEF ControlHolds, Keeps, Holds
    <2> QED
      BY <2>1, <2>2
  <1> QED
    BY <1>1, <1>2, <1>3, <1>4 DEF ControlInv

\* A start rebuilds the index of its process and stops at an unreadable ledger.
LEMMA RestartStep ==
    ASSUME ControlInv, NEW p \in Process, Restart(p)
    PROVE  /\ ControlInv' /\ p \notin up /\ up' = up \cup {p} /\ Readable
           /\ head' = StoredHead
           /\ index' = [q \in Indexed |-> IF q = p THEN Folded ELSE index[q]]
           /\ UNCHANGED <<files, pc, target, next, doomed, seen, after, acked, mishaps>>
  <1>1. /\ p \notin up /\ up' = up \cup {p} /\ Readable /\ head' = StoredHead
        /\ index' = [q \in Indexed |-> IF q = p THEN Folded ELSE index[q]]
        /\ UNCHANGED <<files, pc, target, next, doomed, seen, after, acked, mishaps, crashes>>
    BY DEF Restart
  <1>2. StoredHead \in Chains \cup {<<>>} /\ Folded \in Chains \cup {<<>>}
    BY ReadTypes DEF ControlInv
  <1>3. TypeOK'
    BY <1>1, <1>2 DEF ControlInv, TypeOK
  <1>4. ASSUME NEW w \in Writers
        PROVE  ControlHolds(w)'
    <2>1. ControlHolds(w)
      BY DEF ControlInv
    <2> QED
      BY <1>1, <2>1 DEF ControlHolds
  <1> QED
    BY <1>1, <1>3, <1>4 DEF ControlInv

-----------------------------------------------------------------------------
(* No file is overwritten.                                                 *)

\* A writer past its checks meets no other bytes.
MeetsNoOtherBytes(w) == pc[w] = "write" =>
    \A s \in next[w]..(Len(target[w]) - 1) : ~HoldsOtherBytes(target[w], s)

OverwriteInv == ControlInv /\ (mishaps = {} => \A w \in Writers : MeetsNoOtherBytes(w))

\* A step that changes the directory and overtakes nobody finds nobody else
\* between its reads and its writes.
LEMMA OvertakesNobody ==
    ASSUME NEW w \in Writers, Overtake(w), mishaps' = {}
    PROVE  /\ mishaps = {}
           /\ \A v \in Writers : v # w =>
                 pc[v] \notin {"write", "head", "publish", "replace", "remove", "unhead"}
  BY DEF Overtake

\* The files one step changes: one event is renamed into place, or one removed.
LEMMA FilesStep ==
    ASSUME ControlInv, [Next]_vars
    PROVE  /\ ControlInv'
           /\ mishaps' = {} => mishaps = {}
           /\ \/ files' = files
              \/ \E w \in Writers : Write(w)
              \/ \E w \in Writers : RemoveEvent(w)
  <1>1. ASSUME NEW w \in Wallets, NEW tag \in Tags, BeginAppend(w, tag)
        PROVE  ControlInv' /\ UNCHANGED <<files, mishaps>>
    BY <1>1, BeginAppendStep DEF BeginAppend
  <1>2. ASSUME NEW w \in Wallets, NEW c \in Chains, BeginFetch(w, c)
        PROVE  ControlInv' /\ UNCHANGED <<files, mishaps>>
    BY <1>2, BeginFetchStep DEF BeginFetch
  <1>3. ASSUME NEW w \in Wallets, NEW c \in Chains, BeginTruncate(w, c)
        PROVE  ControlInv' /\ UNCHANGED <<files, mishaps>>
    BY <1>3, BeginTruncateStep DEF BeginTruncate
  <1>4. ASSUME NEW w \in Servers, NEW c \in Chains, BeginPush(w, c)
        PROVE  ControlInv' /\ UNCHANGED <<files, mishaps>>
    BY <1>4, BeginPushStep DEF BeginPush
  <1>5. ASSUME NEW w \in Writers, Overlap(w) \/ Check(w) \/ Publish(w) \/ NoteLoad(w) \/ NoteReplace(w) \/ Acknowledge(w)
        PROVE  ControlInv' /\ UNCHANGED <<files, mishaps>>
    BY <1>5, OverlapStep, CheckStep, PublishStep, NoteLoadStep, NoteReplaceStep, AcknowledgeStep
  <1>6. ASSUME NEW w \in Writers, WriteHead(w) \/ RemoveHead(w) \/ Rebuild(w)
        PROVE  ControlInv' /\ files' = files /\ (mishaps' = {} => mishaps = {})
    BY <1>6, WriteHeadStep, RemoveHeadStep, RebuildStep, OvertakesNobody
  <1>7. ASSUME NEW w \in Writers, Write(w) \/ RemoveEvent(w)
        PROVE  ControlInv' /\ (mishaps' = {} => mishaps = {})
    BY <1>7, WriteStep, RemoveEventStep, OvertakesNobody
  <1>8. ASSUME NEW p \in Process, Crash(p) \/ Restart(p)
        PROVE  ControlInv' /\ files' = files /\ (mishaps' = {} => mishaps = {})
    BY <1>8, CrashStep, RestartStep
  <1>9. CASE UNCHANGED vars
    <2>1. TypeOK'
      BY <1>9 DEF ControlInv, TypeOK, vars
    <2>2. ASSUME NEW w \in Writers
          PROVE  ControlHolds(w)'
      BY <1>9 DEF ControlInv, ControlHolds, vars
    <2> QED
      BY <1>9, <2>1, <2>2 DEF ControlInv, vars
  <1> QED
    BY <1>1, <1>2, <1>3, <1>4, <1>5, <1>6, <1>7, <1>8, <1>9 DEF Next, Begin, Step

\* Nobody is past its checks in a fresh home, and every step keeps what the
\* writers past theirs will meet.
LEMMA StepOverwrite ==
    ASSUME OverwriteInv, [Next]_vars
    PROVE  OverwriteInv'
  <1>1. ControlInv' /\ ControlInv
    BY FilesStep DEF OverwriteInv
  <1> SUFFICES ASSUME mishaps' = {}, NEW v \in Writers, pc'[v] = "write",
                      NEW s \in next'[v]..(Len(target'[v]) - 1)
               PROVE  files'[s] \in {<<>>, EventAt(target'[v], s)}
    BY <1>1 DEF OverwriteInv, MeetsNoOtherBytes, HoldsOtherBytes
  <1>2. mishaps = {} /\ MeetsNoOtherBytes(v)
    BY <1>1, FilesStep DEF OverwriteInv
  <1> DEFINE Same == /\ files' = files /\ target'[v] = target[v] /\ next'[v] = next[v]
                     /\ pc[v] = "write"
  <1>3. Same => files'[s] \in {<<>>, EventAt(target'[v], s)}
    <2> SUFFICES ASSUME Same
                 PROVE  files'[s] \in {<<>>, EventAt(target'[v], s)}
      OBVIOUS
    <2>1. ~HoldsOtherBytes(target[v], s)
      BY <1>2 DEF MeetsNoOtherBytes
    <2> QED
      BY <2>1 DEF HoldsOtherBytes
  <1>4. ASSUME NEW w \in Writers, Others(w), files' = files, pc'[w] # "write"
        PROVE  files'[s] \in {<<>>, EventAt(target'[v], s)}
    BY <1>3, <1>4 DEF Others
  <1>5. ASSUME NEW w \in Wallets, NEW tag \in Tags, BeginAppend(w, tag)
        PROVE  files'[s] \in {<<>>, EventAt(target'[v], s)}
    <2>1. Others(w) /\ files' = files /\ pc'[w] # "write"
      BY <1>1, <1>5, BeginAppendStep DEF BeginAppend, Holds
    <2> QED
      BY <1>4, <2>1 DEF Writers
  <1>6. ASSUME NEW w \in Wallets, NEW c \in Chains, BeginFetch(w, c)
        PROVE  files'[s] \in {<<>>, EventAt(target'[v], s)}
    <2>1. Others(w) /\ files' = files /\ pc'[w] # "write"
      BY <1>1, <1>6, BeginFetchStep DEF BeginFetch, Holds
    <2> QED
      BY <1>4, <2>1 DEF Writers
  <1>7. ASSUME NEW w \in Wallets, NEW c \in Chains, BeginTruncate(w, c)
        PROVE  files'[s] \in {<<>>, EventAt(target'[v], s)}
    <2>1. Others(w) /\ files' = files /\ pc'[w] # "write"
      BY <1>1, <1>7, BeginTruncateStep DEF BeginTruncate, Holds
    <2> QED
      BY <1>4, <2>1 DEF Writers
  <1>8. ASSUME NEW w \in Servers, NEW c \in Chains, BeginPush(w, c)
        PROVE  files'[s] \in {<<>>, EventAt(target'[v], s)}
    <2>1. Others(w) /\ files' = files /\ pc'[w] # "write"
      BY <1>1, <1>8, BeginPushStep DEF BeginPush, Holds
    <2> QED
      BY <1>4, <2>1 DEF Writers
  <1>9. ASSUME NEW w \in Writers, Overlap(w) \/ Publish(w) \/ NoteLoad(w) \/ NoteReplace(w) \/ Acknowledge(w)
        PROVE  files'[s] \in {<<>>, EventAt(target'[v], s)}
    <2>1. Others(w) /\ files' = files /\ pc'[w] # "write"
      BY <1>1, <1>9, OverlapStep, PublishStep, NoteLoadStep, NoteReplaceStep, AcknowledgeStep DEF Holds, Keeps
    <2> QED
      BY <1>4, <2>1
  <1>10. ASSUME NEW w \in Writers, WriteHead(w) \/ RemoveHead(w) \/ Rebuild(w)
         PROVE  files'[s] \in {<<>>, EventAt(target'[v], s)}
    <2>1. Others(w) /\ files' = files /\ pc'[w] # "write"
      BY <1>1, <1>10, WriteHeadStep, RemoveHeadStep, RebuildStep DEF Holds, Keeps
    <2> QED
      BY <1>4, <2>1
  <1>11. ASSUME NEW w \in Writers, Check(w)
         PROVE  files'[s] \in {<<>>, EventAt(target'[v], s)}
    <2>1. Others(w) /\ files' = files
      BY <1>1, <1>11, CheckStep
    <2>2. CASE v # w
      BY <1>3, <2>1, <2>2 DEF Others
    <2>3. CASE v = w
      <3>1. /\ \A t \in next[w]..(Len(target[w]) - 1) : ~HoldsOtherBytes(target[w], t)
            /\ target'[w] = target[w] /\ next'[w] = next[w]
        BY <1>1, <1>11, <2>3, CheckStep DEF Holds, Keeps
      <3>2. ~HoldsOtherBytes(target[w], s)
        BY <2>3, <3>1
      <3> QED
        BY <2>1, <2>3, <3>1, <3>2 DEF HoldsOtherBytes
    <2> QED
      BY <2>2, <2>3
  <1>12. ASSUME NEW w \in Writers, Write(w)
         PROVE  files'[s] \in {<<>>, EventAt(target'[v], s)}
    <2>1. /\ Others(w) /\ pc[w] = "write" /\ Overtake(w)
          /\ files' = [files EXCEPT ![next[w]] = EventAt(target[w], next[w])]
          /\ target'[w] = target[w] /\ next'[w] = next[w] + 1
          /\ next[w] \in 0..(Len(target[w]) - 1) /\ target[w] \in Chains
      BY <1>1, <1>12, WriteStep DEF Holds
    <2>2. v = w
      BY <2>1, OvertakesNobody DEF Others
    <2>3. s \in next[w]..(Len(target[w]) - 1) /\ s # next[w]
      BY <2>1, <2>2, ChainFacts
    <2>4. files'[s] = files[s]
      BY <1>1, <2>1, <2>3 DEF ControlInv, TypeOK
    <2>5. ~HoldsOtherBytes(target[w], s)
      BY <1>2, <2>1, <2>2, <2>3 DEF MeetsNoOtherBytes
    <2> QED
      BY <2>1, <2>2, <2>4, <2>5 DEF HoldsOtherBytes
  <1>13. ASSUME NEW w \in Writers, RemoveEvent(w)
         PROVE  files'[s] \in {<<>>, EventAt(target'[v], s)}
    <2>1. Others(w) /\ Overtake(w) /\ pc'[w] # "write"
      BY <1>1, <1>13, RemoveEventStep DEF Holds
    <2> QED
      BY <2>1, OvertakesNobody DEF Others
  <1>14. ASSUME NEW p \in Process, Crash(p) \/ Restart(p)
         PROVE  files'[s] \in {<<>>, EventAt(target'[v], s)}
    <2>1. Same
      BY <1>1, <1>14, CrashStep, RestartStep DEF Keeps, Holds
    <2> QED
      BY <1>3, <2>1
  <1>15. CASE UNCHANGED vars
    BY <1>3, <1>15 DEF vars
  <1> QED
    BY <1>5, <1>6, <1>7, <1>8, <1>9, <1>10, <1>11, <1>12, <1>13, <1>14, <1>15
       DEF Next, Begin, Step

\* A file with other bytes is never overwritten by a writer that was not
\* overtaken, whatever the processes, the locks and the crashes
\* (LedgerStore::write_events, holds_other_bytes).
THEOREM OverwriteTheorem == Spec => NeverOverwritten
  <1>1. Init => OverwriteInv
    <2> SUFFICES ASSUME Init
                 PROVE  OverwriteInv
      OBVIOUS
    <2>1. \A w \in Writers : MeetsNoOtherBytes(w)
      BY DEF Init, MeetsNoOtherBytes
    <2> QED
      BY <2>1, InitControlFiles DEF OverwriteInv
  <1>2. OverwriteInv /\ [Next]_vars => OverwriteInv'
    BY StepOverwrite
  <1>3. OverwriteInv /\ [Next]_vars =>
           [mishaps = {} => \A s \in Seqs : files[s] # <<>> => files'[s] \in {files[s], <<>>}]_vars
    <2> SUFFICES ASSUME OverwriteInv, [Next]_vars, mishaps = {},
                        NEW s \in Seqs, files[s] # <<>>
                 PROVE  files'[s] \in {files[s], <<>>}
      OBVIOUS
    <2>1. CASE files' = files
      BY <2>1
    <2>2. ASSUME NEW w \in Writers, Write(w)
          PROVE  files'[s] \in {files[s], <<>>}
      <3>1. /\ pc[w] = "write" /\ next[w] \in 0..(Len(target[w]) - 1) /\ target[w] \in Chains
            /\ files' = [files EXCEPT ![next[w]] = EventAt(target[w], next[w])]
        BY <2>2, WriteStep DEF OverwriteInv
      <3>2. ~HoldsOtherBytes(target[w], next[w])
        <4>1. next[w] \in next[w]..(Len(target[w]) - 1)
          BY <3>1, ChainFacts
        <4> QED
          BY <3>1, <4>1 DEF OverwriteInv, MeetsNoOtherBytes
      <3> QED
        BY <3>1, <3>2 DEF HoldsOtherBytes, OverwriteInv, ControlInv, TypeOK
    <2>3. ASSUME NEW w \in Writers, RemoveEvent(w)
          PROVE  files'[s] \in {files[s], <<>>}
      BY <2>3, RemoveEventStep DEF OverwriteInv, ControlInv, TypeOK
    <2> QED
      BY <2>1, <2>2, <2>3, FilesStep DEF OverwriteInv
  <1> QED
    BY <1>1, <1>2, <1>3, PTL DEF Spec, NeverOverwritten

-----------------------------------------------------------------------------
(* Crash safety: what holds while no mishap has happened.                  *)

\* The node runs alone on its home.
OneProcess == \A p, q \in Process : p = q

\* A home that truncates does so beside no second process.  (With one, a
\* truncation between another process's write and its answer, or between its
\* reads and its checks, undoes or misplaces an event and nobody is overtaken.)
Contained == Truncating => OneProcess

\* Every event file is the end of a chain whose other events are filed below it.
OneRun ==
    \A s \in Seqs : files[s] # <<>> =>
        Len(files[s]) = s + 1 /\ \A t \in 0..s : files[t] = EventAt(files[s], t)

Intact == files[0] # <<>> /\ OneRun /\ (head # <<>> => files[Len(head) - 1] = head)

\* Chain c is filed, up to the head.
Served(c) == files[Len(c) - 1] = c /\ Len(c) <= Len(StoredHead)

\* Outside a truncation the directory is one run that holds what was answered.
WholeHolds == ~MidTruncate => Intact /\ \A a \in acked : Served(a)

\* A truncation has removed from the bottom of its list, and keeps the events
\* below the shared prefix; what it discards is no longer acknowledged.
TruncationHolds(w) == pc[w] \in {"remove", "unhead"} =>
    /\ head # <<>> /\ next[w] \in 1..(Len(head) - 1)
    /\ pc[w] = "unhead" => doomed[w] = {}
    /\ doomed[w] = {s \in Seqs : s >= next[w] /\ files[s] # <<>>}
    /\ \A s \in 0..(next[w] - 1) : files[s] = EventAt(head, s)
    /\ \A a \in acked : Prefix(a, head) /\ (next[w] \notin doomed[w] => Len(a) <= next[w])

\* A batch that has yet to be checked follows on the files, or on ones that a
\* wallet removed and has not noted yet.
CheckHolds(w) == (pc[w] = "check" /\ next[w] >= 1) =>
    \/ files[next[w] - 1] = EventAt(target[w], next[w] - 1)
    \/ /\ Truncating /\ w \in Servers /\ files[next[w] - 1] = <<>>
       /\ \E v \in Wallets : pc[v] \in Noting

\* A batch that passed its checks follows on the files and the head.
WriteHolds(w) == pc[w] = "write" =>
    \/ MidTruncate
    \/ /\ head # <<>> /\ Len(head) <= next[w]
       /\ files[next[w] - 1] = EventAt(target[w], next[w] - 1)

HeadHolds(w) == pc[w] = "head" =>
    \/ MidTruncate
    \/ head # <<>> /\ Len(head) <= Len(target[w]) /\ files[Len(target[w]) - 1] = target[w]

\* A push that has yet to publish is the head, and no truncation has begun to
\* remove it.
PublishHolds(w) == pc[w] = "publish" =>
    head = target[w] /\ \A v \in Writers : pc[v] \in {"remove", "unhead"} => next[v] \in doomed[v]

\* An append that has yet to be answered is served, and what was read for the
\* index is what is stored.
NoteHolds(w) ==
    /\ pc[w] = "acked" \/ (pc[w] \in {"note", "replace"} /\ after[w] = "acked") => Served(target[w])
    /\ pc[w] = "replace" => seen[w] = StoredHead

\* The index of a lone node is behind the directory only while a note or a
\* publication is owed.
IndexHolds ==
    (/\ OneProcess
     /\ \A w \in Wallets : pc[w] \notin Noting
     /\ \A w \in Servers : pc[w] # "publish")
    => \A p \in up \cap Indexed : index[p] = StoredHead

HolderHolds(w) ==
    /\ TruncationHolds(w) /\ CheckHolds(w) /\ WriteHolds(w) /\ HeadHolds(w)
    /\ PublishHolds(w) /\ NoteHolds(w)

QuietHolds == WholeHolds /\ (\A w \in Writers : HolderHolds(w)) /\ IndexHolds

DurableInv == OverwriteInv /\ (mishaps = {} => QuietHolds)

\* A directory in one run reads as the chain that ends in its head.
LEMMA IntactReads ==
    ASSUME TypeOK, Intact
    PROVE  /\ StoredHead \in Chains /\ files[Len(StoredHead) - 1] = StoredHead
           /\ Readable /\ Folded = StoredHead
           /\ ContiguousEvent \in Chains /\ files[Len(ContiguousEvent) - 1] = ContiguousEvent
           /\ Len(StoredHead) <= Len(ContiguousEvent)
           /\ \A s \in Seqs : files[s] # <<>> => s + 1 <= Len(ContiguousEvent)
  <1>1. /\ files \in [Seqs -> Chains \cup {<<>>}] /\ head \in Chains \cup {<<>>}
        /\ 0 \in Seqs /\ Seqs \subseteq Nat /\ MaxLen \in Nat
        /\ \A s \in Seqs : s <= MaxLen /\ 0..s \subseteq Seqs
    BY BoundsAssumption DEF TypeOK, Seqs
  <1>2. \A s \in Seqs : files[s] # <<>> => Len(files[s]) = s + 1 /\ \A t \in 0..s : files[t] # <<>>
    <2> SUFFICES ASSUME NEW s \in Seqs, files[s] # <<>>
                 PROVE  Len(files[s]) = s + 1 /\ \A t \in 0..s : files[t] # <<>>
      OBVIOUS
    <2>1. Len(files[s]) = s + 1 /\ files[s] \in Chains
      BY <1>1 DEF Intact, OneRun
    <2>2. ASSUME NEW t \in 0..s
          PROVE  files[t] # <<>>
      <3>1. files[t] = EventAt(files[s], t) /\ t \in 0..(Len(files[s]) - 1)
        BY <1>1, <2>1 DEF Intact, OneRun
      <3> QED
        BY <2>1, <3>1, EventFacts, ChainFacts
    <2> QED
      BY <2>1, <2>2
  <1> DEFINE run == {s \in Seqs : \A t \in 0..s : files[t] # <<>>}
             top == CHOOSE s \in run : \A t \in run : t <= s
  <1>3. run \subseteq Nat /\ run # {} /\ \A x \in run : x <= MaxLen
    <2>1. 0 \in run
      BY <1>1 DEF Intact
    <2> QED
      BY <1>1, <2>1
  <1>4. top \in run /\ \A t \in run : t <= top
    <2>1. \E s \in run : \A t \in run : t <= s
      BY <1>1, <1>3, GreatestNatural
    <2> QED
      BY <2>1
  <1>5. ContiguousEvent = files[top]
    BY <1>3 DEF ContiguousEvent
  <1>6. \A s \in Seqs : files[s] # <<>> => s <= top
    BY <1>2, <1>4
  <1>7. top \in Seqs /\ files[top] # <<>>
    <2>1. \A x \in run : x \in Seqs /\ files[x] # <<>>
      BY <1>1
    <2> HIDE DEF run, top
    <2> QED
      BY <1>4, <2>1
  <1> HIDE DEF run, top
  <1>8. /\ ContiguousEvent \in Chains /\ Len(ContiguousEvent) = top + 1 /\ top \in Nat
        /\ files[Len(ContiguousEvent) - 1] = ContiguousEvent
    <2>1. top \in Nat /\ files[top] \in Chains /\ Len(files[top]) = top + 1
      BY <1>1, <1>2, <1>7
    <2>2. Len(ContiguousEvent) - 1 = top
      BY <1>5, <2>1
    <2> QED
      BY <1>5, <2>1, <2>2
  <1>9. \A s \in Seqs : files[s] # <<>> => s + 1 <= Len(ContiguousEvent)
    BY <1>1, <1>6, <1>8
  <1>10. /\ StoredHead \in Chains /\ files[Len(StoredHead) - 1] = StoredHead
         /\ Len(StoredHead) <= Len(ContiguousEvent)
    <2>1. CASE head = <<>>
      BY <1>8, <2>1 DEF StoredHead
    <2>2. CASE head # <<>>
      <3>1. StoredHead = head /\ head \in Chains /\ files[Len(head) - 1] = head
        BY <1>1, <2>2 DEF StoredHead, Intact
      <3>2. Len(head) - 1 \in Seqs /\ Len(head) \in Nat
        BY <3>1, ChainFacts
      <3>3. Len(head) - 1 + 1 <= Len(ContiguousEvent)
        BY <1>9, <2>2, <3>1, <3>2
      <3> QED
        BY <1>8, <3>1, <3>2, <3>3
    <2> QED
      BY <2>1, <2>2
  <1> DEFINE h == Len(StoredHead) - 1
             good == {s \in 0..h : \A t \in 0..s : files[t] = EventAt(files[s], t)}
  <1>11. h \in Seqs /\ h \in Nat /\ files[h] = StoredHead /\ StoredHead # <<>>
    BY <1>1, <1>10, ChainFacts
  <1>12. \A s \in 0..h : s \in Seqs /\ files[s] # <<>>
    BY <1>1, <1>2, <1>11
  <1>13. good = 0..h
    BY <1>12 DEF Intact, OneRun
  <1>14. Folded = files[h]
    <2>1. good # {} /\ h \in good /\ \A t \in good : t <= h
      BY <1>11, <1>13
    <2>2. Folded = files[CHOOSE s \in good : \A t \in good : t <= s]
      BY <2>1 DEF Folded
    <2>3. \A s \in good : (\A t \in good : t <= s) => s = h
      BY <1>11, <1>13
    <2> HIDE DEF good, h
    <2>4. (CHOOSE s \in good : \A t \in good : t <= s) = h
      BY <2>1, <2>3
    <2> QED
      BY <2>2, <2>4
  <1>15. Readable
    BY <1>12 DEF Readable
  <1> QED
    BY <1>8, <1>9, <1>10, <1>11, <1>14, <1>15

\* A chain that is served is a prefix of the fold.
LEMMA ServedIsFolded ==
    ASSUME TypeOK, Intact, NEW c \in Chains, Served(c)
    PROVE  Prefix(c, Folded) /\ Prefix(c, StoredHead)
  <1>1. StoredHead \in Chains /\ files[Len(StoredHead) - 1] = StoredHead /\ Folded = StoredHead
    BY IntactReads
  <1>2. /\ Len(StoredHead) - 1 \in Seqs /\ StoredHead # <<>> /\ Len(StoredHead) \in Nat
        /\ Len(c) \in Nat \ {0} /\ Len(c) <= Len(StoredHead)
    BY <1>1, ChainFacts DEF Served
  <1>3. Len(c) - 1 \in 0..(Len(StoredHead) - 1)
    BY <1>2
  <1>4. files[Len(c) - 1] = EventAt(StoredHead, Len(c) - 1)
    BY <1>1, <1>2, <1>3 DEF Intact, OneRun
  <1> QED
    BY <1>1, <1>2, <1>4, PrefixFacts DEF Served

\* Only one wallet can be truncating, and then no other wallet does anything.
LEMMA OneTruncator ==
    ASSUME Contained, ControlInv, NEW w \in Writers, pc[w] \in {"remove", "unhead"}
    PROVE  /\ w \in Wallets /\ Truncating
           /\ \A v \in Wallets : v = w
           /\ \A v \in Writers : pc[v] \in {"remove", "unhead"} => v = w
  <1>1. ControlHolds(w) /\ w \in Wallets /\ Truncating
    BY DEF ControlInv, ControlHolds, Noting
  <1>2. \A v \in Wallets : v = w
    BY <1>1, WritersAssumption DEF Contained, OneProcess
  <1>3. \A v \in Writers : pc[v] \in {"remove", "unhead"} => v \in Wallets
    BY DEF ControlInv, ControlHolds, Noting
  <1> QED
    BY <1>1, <1>2, <1>3

\* While a wallet is elsewhere, nobody truncates.
LEMMA WalletAlone ==
    ASSUME Contained, ControlInv, NEW w \in Wallets, pc[w] \notin {"remove", "unhead"}
    PROVE  ~MidTruncate
  BY OneTruncator DEF MidTruncate, Writers

\* A step that leaves the files alone and rebuilds head.json at most changes
\* nothing that is read.
LEMMA CalmReads ==
    ASSUME files' = files, head' \in {head, StoredHead}
    PROVE  StoredHead' = StoredHead /\ (head # <<>> => head' = head)
  <1>1. ContiguousEvent' = ContiguousEvent
    BY DEF ContiguousEvent
  <1> QED
    BY <1>1 DEF StoredHead

\* Such a step of lock w.
Calm(w) ==
    /\ Others(w) /\ files' = files /\ head' \in {head, StoredHead}
    /\ pc[w] \notin {"remove", "unhead"}
    /\ pc'[w] \in {"remove", "unhead"} => next'[w] \in doomed'[w]

\* What the other holders rely on outlives it, unless it was the note that a
\* server's push is waiting behind.
LEMMA CalmOthers ==
    ASSUME ControlInv, QuietHolds, NEW w \in Writers, Calm(w), acked' = acked,
           NEW v \in Writers, v # w,
           pc[w] \in Noting /\ pc'[w] \notin Noting /\ Truncating /\ v \in Servers => pc[v] # "check"
    PROVE  HolderHolds(v)'
  <1>1. /\ pc'[v] = pc[v] /\ target'[v] = target[v] /\ next'[v] = next[v]
        /\ doomed'[v] = doomed[v] /\ seen'[v] = seen[v] /\ after'[v] = after[v]
        /\ files' = files /\ StoredHead' = StoredHead /\ (head # <<>> => head' = head)
        /\ HolderHolds(v)
    BY CalmReads DEF Calm, Others, QuietHolds
  <1>2. MidTruncate => MidTruncate'
    BY DEF MidTruncate, Calm, Others
  <1>3. TruncationHolds(v)'
    BY <1>1 DEF HolderHolds, TruncationHolds
  <1>4. CheckHolds(v)'
    <2> SUFFICES ASSUME pc[v] = "check", next[v] >= 1
                 PROVE  \/ files[next[v] - 1] = EventAt(target[v], next[v] - 1)
                        \/ /\ Truncating /\ v \in Servers /\ files[next[v] - 1] = <<>>
                           /\ \E u \in Wallets : pc'[u] \in Noting
      BY <1>1 DEF CheckHolds
    <2>1. CASE files[next[v] - 1] = EventAt(target[v], next[v] - 1)
      BY <2>1
    <2>2. CASE files[next[v] - 1] # EventAt(target[v], next[v] - 1)
      <3>1. /\ Truncating /\ v \in Servers /\ files[next[v] - 1] = <<>>
            /\ \E u \in Wallets : pc[u] \in Noting
        BY <1>1, <2>2 DEF HolderHolds, CheckHolds
      <3>2. PICK u \in Wallets : pc[u] \in Noting
        BY <3>1
      <3>3. pc'[u] \in Noting
        BY <3>1, <3>2 DEF Calm, Others, Writers
      <3> QED
        BY <3>1, <3>3
    <2> QED
      BY <2>1, <2>2
  <1>5. WriteHolds(v)' /\ HeadHolds(v)'
    BY <1>1, <1>2 DEF HolderHolds, WriteHolds, HeadHolds
  <1>6. PublishHolds(v)'
    <2> SUFFICES ASSUME pc[v] = "publish"
                 PROVE  /\ head' = target[v]
                        /\ \A u \in Writers : pc'[u] \in {"remove", "unhead"} => next'[u] \in doomed'[u]
      BY <1>1 DEF PublishHolds
    <2>1. target[v] \in Chains /\ head = target[v]
      BY <1>1 DEF ControlInv, ControlHolds, HolderHolds, PublishHolds
    <2>2. head' = target[v]
      BY <1>1, <2>1, ChainFacts
    <2> QED
      BY <1>1, <2>2 DEF Calm, Others, HolderHolds, PublishHolds
  <1>7. NoteHolds(v)'
    BY <1>1 DEF HolderHolds, NoteHolds, Served
  <1> QED
    BY <1>3, <1>4, <1>5, <1>6, <1>7 DEF HolderHolds

\* It keeps the directory in one run.
LEMMA CalmWhole ==
    ASSUME ControlInv, QuietHolds, NEW w \in Writers, Calm(w), \A a \in acked' : a \in acked \/ Served(a)
    PROVE  WholeHolds'
  <1> SUFFICES ASSUME ~MidTruncate'
               PROVE  Intact' /\ \A a \in acked' : Served(a)'
    BY DEF WholeHolds
  <1>1. ~MidTruncate
    BY DEF MidTruncate, Calm, Others
  <1>2. Intact /\ \A a \in acked : Served(a)
    BY <1>1 DEF QuietHolds, WholeHolds
  <1>3. /\ files' = files /\ StoredHead' = StoredHead /\ head' \in {head, StoredHead}
        /\ files[Len(StoredHead) - 1] = StoredHead
    BY <1>2, CalmReads, IntactReads DEF Calm, ControlInv
  <1>4. Intact'
    BY <1>2, <1>3 DEF Intact, OneRun
  <1> QED
    BY <1>2, <1>3, <1>4 DEF Served

\* It keeps the index where it was, when it leaves no note behind.
LEMMA CalmIndex ==
    ASSUME QuietHolds, NEW w \in Writers, Calm(w), index' = index, up' = up,
           pc[w] \notin Noting \cup {"publish"}
    PROVE  IndexHolds'
  <1> SUFFICES ASSUME OneProcess, \A u \in Wallets : pc'[u] \notin Noting,
                      \A u \in Servers : pc'[u] # "publish", NEW p \in up \cap Indexed
               PROVE  index[p] = StoredHead
    BY CalmReads DEF IndexHolds, Calm
  <1>1. \A u \in Wallets : pc[u] \notin Noting
    BY DEF Calm, Others, Writers
  <1>2. \A u \in Servers : pc[u] # "publish"
    BY DEF Calm, Others, Writers
  <1> QED
    BY <1>1, <1>2 DEF QuietHolds, IndexHolds

-----------------------------------------------------------------------------
(* Each step keeps it.                                                     *)

\* An append, a fetch, a truncation and a push begin.
LEMMA BeginQuiet ==
    ASSUME Contained, ControlInv, QuietHolds, Begin
    PROVE  QuietHolds'
  <1>1. ASSUME NEW w \in Wallets, NEW tag \in Tags, BeginAppend(w, tag)
        PROVE  QuietHolds'
    <2>1. /\ w \in Writers /\ Others(w) /\ pc[w] = "idle"
          /\ pc'[w] = "check" /\ target'[w] = Append(StoredHead, tag) /\ next'[w] = Len(StoredHead)
          /\ UNCHANGED <<files, index, up, acked>> /\ head' = StoredHead /\ Len(StoredHead) < MaxLen
      BY <1>1, BeginAppendStep DEF Writers, Holds, BeginAppend
    <2>2. Calm(w)
      BY <2>1 DEF Calm
    <2>3. StoredHead \in Chains /\ files[Len(StoredHead) - 1] = StoredHead
      BY <2>1, WalletAlone, IntactReads DEF QuietHolds, WholeHolds, ControlInv
    <2>4. EventAt(Append(StoredHead, tag), Len(StoredHead) - 1) = StoredHead
      BY <2>1, <2>3, AppendFacts
    <2>5. HolderHolds(w)'
      BY <2>1, <2>3, <2>4 DEF HolderHolds, TruncationHolds, CheckHolds, WriteHolds, HeadHolds,
         PublishHolds, NoteHolds
    <2>6. \A v \in Writers : v # w => HolderHolds(v)'
      BY <2>1, <2>2, CalmOthers DEF Noting
    <2>7. WholeHolds' /\ IndexHolds'
      BY <2>1, <2>2, CalmWhole, CalmIndex DEF Noting
    <2> QED
      BY <2>5, <2>6, <2>7 DEF QuietHolds
  <1>2. ASSUME NEW w \in Wallets, NEW c \in Chains, BeginFetch(w, c)
        PROVE  QuietHolds'
    <2>1. /\ w \in Writers /\ Others(w) /\ pc[w] = "idle" /\ pc'[w] = "overlap"
          /\ UNCHANGED <<files, head, index, up, acked>>
      BY <1>2, BeginFetchStep DEF Writers, Holds, BeginFetch
    <2>2. Calm(w)
      BY <2>1 DEF Calm
    <2>5. HolderHolds(w)'
      BY <2>1 DEF HolderHolds, TruncationHolds, CheckHolds, WriteHolds, HeadHolds,
         PublishHolds, NoteHolds
    <2>6. \A v \in Writers : v # w => HolderHolds(v)'
      BY <2>1, <2>2, CalmOthers DEF Noting
    <2>7. WholeHolds' /\ IndexHolds'
      BY <2>1, <2>2, CalmWhole, CalmIndex DEF Noting
    <2> QED
      BY <2>5, <2>6, <2>7 DEF QuietHolds
  <1>3. ASSUME NEW w \in Wallets, NEW c \in Chains, BeginTruncate(w, c)
        PROVE  QuietHolds'
    <2> DEFINE n == SharedLength(c, StoredHead)
    <2>1. /\ w \in Writers /\ Others(w) /\ pc[w] = "idle" /\ pc'[w] = "remove"
          /\ next'[w] = n /\ doomed'[w] = {s \in Seqs : s >= n /\ files[s] # <<>>}
          /\ UNCHANGED <<files, index, up, acked>> /\ head' = StoredHead
          /\ StoredHead \in Chains /\ n \in 1..(Len(StoredHead) - 1)
      BY <1>3, BeginTruncateStep DEF Writers, Holds, BeginTruncate
    <2> HIDE DEF n
    <2>2. Intact /\ \A a \in acked : Served(a)
      BY <2>1, WalletAlone DEF QuietHolds, WholeHolds
    <2>3. files[Len(StoredHead) - 1] = StoredHead /\ Len(StoredHead) - 1 \in Seqs /\ StoredHead # <<>>
      BY <2>1, <2>2, IntactReads, ChainFacts DEF ControlInv
    <2>4. \A s \in 0..(Len(StoredHead) - 1) : files[s] = EventAt(StoredHead, s)
      BY <2>2, <2>3 DEF Intact, OneRun
    <2>5. \A s \in 0..(Len(StoredHead) - 1) : s \in Seqs /\ files[s] # <<>>
      <3> SUFFICES ASSUME NEW s \in 0..(Len(StoredHead) - 1)
                   PROVE  s \in Seqs /\ files[s] # <<>>
        OBVIOUS
      <3>1. EventAt(StoredHead, s) \in Chains
        BY <2>1, EventFacts
      <3> QED
        BY <2>3, <2>4, <3>1, ChainFacts, BoundsAssumption DEF Seqs
    <2>6. n \in doomed'[w] /\ n \in 0..(Len(StoredHead) - 1) /\ Len(StoredHead) \in Nat
      <3>1. n \in 0..(Len(StoredHead) - 1) /\ n >= n /\ Len(StoredHead) \in Nat
        BY <2>1, ChainFacts
      <3> QED
        BY <2>1, <2>5, <3>1
    <2>7. Calm(w)
      BY <2>1, <2>6 DEF Calm
    <2>8. TruncationHolds(w)'
      <3>1. \A a \in acked : Prefix(a, StoredHead)
        BY <2>2, ServedIsFolded DEF ControlInv, TypeOK
      <3>2. \A s \in 0..(n - 1) : files[s] = EventAt(StoredHead, s)
        BY <2>4, <2>6
      <3> QED
        BY <2>1, <2>3, <2>6, <3>1, <3>2 DEF TruncationHolds
    <2>9. HolderHolds(w)'
      BY <2>1, <2>8 DEF HolderHolds, CheckHolds, WriteHolds, HeadHolds, PublishHolds, NoteHolds
    <2>10. \A v \in Writers : v # w => HolderHolds(v)'
      BY <2>1, <2>7, CalmOthers DEF Noting
    <2>11. WholeHolds' /\ IndexHolds'
      BY <2>1, <2>7, CalmWhole, CalmIndex DEF Noting
    <2> QED
      BY <2>9, <2>10, <2>11 DEF QuietHolds
  <1>4. ASSUME NEW w \in Servers, NEW c \in Chains, BeginPush(w, c)
        PROVE  QuietHolds'
    <2> DEFINE n == Len(index[ProcessOf[w]])
    <2>1. /\ w \in Writers /\ Others(w) /\ pc[w] = "idle" /\ pc'[w] = "check"
          /\ target'[w] = c /\ next'[w] = n /\ n \in Nat /\ n < Len(c) /\ FilesMatch(c, n)
          /\ UNCHANGED <<files, head, index, up, acked>>
      BY <1>4, BeginPushStep, ChainFacts DEF Writers, Holds, BeginPush
    <2> HIDE DEF n
    <2>2. Calm(w)
      BY <2>1 DEF Calm
    <2>3. n >= 1 => files[n - 1] = EventAt(c, n - 1)
      <3>1. n >= 1 => n - 1 \in 0..(n - 1) /\ n - 1 < Len(c)
        BY <2>1, ChainFacts
      <3> QED
        BY <2>1, <3>1 DEF FilesMatch
    <2>5. HolderHolds(w)'
      BY <2>1, <2>3 DEF HolderHolds, TruncationHolds, CheckHolds, WriteHolds, HeadHolds,
         PublishHolds, NoteHolds
    <2>6. \A v \in Writers : v # w => HolderHolds(v)'
      BY <2>1, <2>2, CalmOthers DEF Noting
    <2>7. WholeHolds' /\ IndexHolds'
      BY <2>1, <2>2, CalmWhole, CalmIndex DEF Noting
    <2> QED
      BY <2>5, <2>6, <2>7 DEF QuietHolds
  <1> QED
    BY <1>1, <1>2, <1>3, <1>4 DEF Begin

\* store_events and write_events read, and go on or give up.
LEMMA ReadQuiet ==
    ASSUME Contained, ControlInv, QuietHolds, NEW w \in Writers, Overlap(w) \/ Check(w)
    PROVE  QuietHolds'
  <1>1. /\ Calm(w) /\ pc[w] \in {"overlap", "check"} /\ UNCHANGED <<files, index, up, acked>>
        /\ head' = StoredHead
    BY OverlapStep, CheckStep DEF Calm, Holds, Keeps
  <1>2. \A v \in Writers : v # w => HolderHolds(v)'
    BY <1>1, CalmOthers DEF Noting
  <1>3. WholeHolds' /\ IndexHolds'
    BY <1>1, CalmWhole, CalmIndex DEF Noting
  <1>4. pc'[w] = "idle" => HolderHolds(w)'
    BY DEF HolderHolds, TruncationHolds, CheckHolds, WriteHolds, HeadHolds, PublishHolds, NoteHolds
  <1>5. ASSUME Overlap(w), pc'[w] # "idle"
        PROVE  HolderHolds(w)'
    <2>1. w \in Wallets /\ pc[w] = "overlap" /\ target[w] \in Chains
      BY <1>5, OverlapStep DEF ControlInv, ControlHolds
    <2>2. Intact
      BY <2>1, WalletAlone DEF QuietHolds, WholeHolds
    <2>3. StoredHead \in Chains /\ Len(StoredHead) \in Nat \ {0} /\ Len(target[w]) \in Nat \ {0}
      BY <2>1, <2>2, IntactReads, ChainFacts DEF ControlInv
    <2>4. FilesMatch(target[w], Len(StoredHead))
      BY <1>5, OverlapStep DEF Holds
    <2>5. CASE /\ pc'[w] = "check" /\ target'[w] = target[w] /\ next'[w] = Len(StoredHead)
               /\ Len(StoredHead) < Len(target[w])
      <3>1. Len(StoredHead) - 1 \in 0..(Len(StoredHead) - 1) /\ Len(StoredHead) - 1 < Len(target[w])
        BY <2>3, <2>5
      <3>2. files[Len(StoredHead) - 1] = EventAt(target[w], Len(StoredHead) - 1)
        BY <2>4, <3>1 DEF FilesMatch
      <3> QED
        BY <1>1, <2>5, <3>2 DEF HolderHolds, TruncationHolds, CheckHolds, WriteHolds, HeadHolds,
           PublishHolds, NoteHolds
    <2>6. CASE pc'[w] = "note" /\ target'[w] = target[w] /\ Len(StoredHead) >= Len(target[w])
      <3>1. Len(target[w]) - 1 \in 0..(Len(StoredHead) - 1) /\ Len(target[w]) - 1 < Len(target[w])
        BY <2>3, <2>6
      <3>2. files[Len(target[w]) - 1] = target[w]
        BY <2>1, <2>4, <3>1, ChainFacts DEF FilesMatch
      <3>3. Served(target[w])
        BY <2>3, <2>6, <3>2 DEF Served
      <3>4. Served(target[w])'
        <4>1. StoredHead' = StoredHead
          BY <1>1, CalmReads
        <4> QED
          BY <1>1, <2>6, <3>3, <4>1 DEF Served
      <3> QED
        BY <2>6, <3>4 DEF HolderHolds, TruncationHolds, CheckHolds, WriteHolds, HeadHolds,
           PublishHolds, NoteHolds
    <2> QED
      BY <1>5, <2>5, <2>6, OverlapStep DEF Holds
  <1>6. ASSUME Check(w), pc'[w] # "idle"
        PROVE  HolderHolds(w)'
    <2>1. /\ pc[w] = "check" /\ pc'[w] = "write" /\ next[w] = Len(StoredHead)
          /\ next'[w] = next[w] /\ target'[w] = target[w]
      BY <1>6, CheckStep DEF Keeps, Holds
    <2>2. WriteHolds(w)'
      <3>1. CASE MidTruncate
        <4>1. MidTruncate'
          BY <1>1, <3>1 DEF MidTruncate, Calm, Others
        <4> QED
          BY <4>1 DEF WriteHolds
      <3>2. CASE ~MidTruncate
        <4>1. /\ StoredHead \in Chains /\ StoredHead # <<>> /\ Len(StoredHead) \in Nat \ {0}
              /\ files[Len(StoredHead) - 1] = StoredHead
          BY <3>2, IntactReads, ChainFacts DEF QuietHolds, WholeHolds, ControlInv
        <4>2. files[next[w] - 1] # <<>> /\ next[w] >= 1
          BY <2>1, <4>1
        <4>3. files[next[w] - 1] = EventAt(target[w], next[w] - 1)
          BY <2>1, <4>2 DEF QuietHolds, HolderHolds, CheckHolds
        <4> QED
          BY <1>1, <2>1, <4>1, <4>3 DEF WriteHolds
      <3> QED
        BY <3>1, <3>2
    <2> QED
      BY <2>1, <2>2 DEF HolderHolds, TruncationHolds, CheckHolds, HeadHolds, PublishHolds, NoteHolds
  <1> QED
    BY <1>2, <1>3, <1>4, <1>5, <1>6 DEF QuietHolds

\* note_ledger reads what is stored.
LEMMA NoteLoadQuiet ==
    ASSUME Contained, ControlInv, QuietHolds, NEW w \in Writers, NoteLoad(w)
    PROVE  QuietHolds'
  <1>1. /\ Others(w) /\ pc[w] = "note" /\ w \in Wallets /\ UNCHANGED <<files, index, up, acked>>
        /\ head' \in {head, StoredHead} /\ after[w] \in {"acked", "overlap"}
        /\ target'[w] = target[w] /\ after'[w] = after[w]
        /\ \/ pc'[w] = "replace" /\ seen'[w] = Folded
           \/ pc'[w] = after[w] /\ ~(ProcessOf[w] \in Indexed /\ Readable)
    BY NoteLoadStep DEF Holds, Keeps
  <1>2. Calm(w)
    BY <1>1 DEF Calm
  <1>3. Intact /\ Readable /\ Folded = StoredHead /\ StoredHead' = StoredHead
    BY <1>1, WalletAlone, IntactReads, CalmReads DEF QuietHolds, WholeHolds, ControlInv
  <1>4. pc'[w] = "replace" \/ (pc'[w] = after[w] /\ ProcessOf[w] \notin Indexed)
    BY <1>1, <1>3
  <1>5. ASSUME NEW v \in Servers, Truncating
        PROVE  ProcessOf[w] \in Indexed
    BY <1>1, <1>5, WritersAssumption DEF Contained, OneProcess
  <1>6. \A v \in Writers : v # w => HolderHolds(v)'
    BY <1>1, <1>2, <1>4, <1>5, CalmOthers DEF Noting
  <1>7. HolderHolds(w)'
    <2>1. after[w] = "acked" => Served(target[w])
      BY <1>1 DEF QuietHolds, HolderHolds, NoteHolds
    <2>2. NoteHolds(w)'
      BY <1>1, <1>3, <2>1 DEF NoteHolds, Served
    <2> QED
      BY <1>1, <2>2 DEF HolderHolds, TruncationHolds, CheckHolds, WriteHolds, HeadHolds, PublishHolds
  <1>8. WholeHolds'
    BY <1>1, <1>2, CalmWhole
  <1>9. IndexHolds'
    <2> SUFFICES ASSUME OneProcess, \A u \in Wallets : pc'[u] \notin Noting, NEW p \in up' \cap Indexed
                 PROVE  FALSE
      BY DEF IndexHolds
    <2>1. pc'[w] # "replace"
      BY <1>1 DEF Noting
    <2>2. ProcessOf[w] \notin Indexed
      BY <1>4, <2>1
    <2> QED
      BY <1>1, <2>2, WritersAssumption DEF OneProcess
  <1> QED
    BY <1>6, <1>7, <1>8, <1>9 DEF QuietHolds

\* note_ledger puts what it read in the index.
LEMMA NoteReplaceQuiet ==
    ASSUME Contained, ControlInv, QuietHolds, NEW w \in Writers, NoteReplace(w)
    PROVE  QuietHolds'
  <1>1. /\ Others(w) /\ pc[w] = "replace" /\ w \in Wallets /\ UNCHANGED <<files, head, up, acked>>
        /\ index' = [index EXCEPT ![ProcessOf[w]] = seen[w]] /\ IndexLockFree(ProcessOf[w])
        /\ after[w] \in {"acked", "overlap"} /\ pc'[w] = after[w]
        /\ target'[w] = target[w] /\ after'[w] = after[w]
    BY NoteReplaceStep DEF Holds, Keeps
  <1>2. Calm(w)
    BY <1>1 DEF Calm
  <1>3. StoredHead' = StoredHead
    BY <1>1, CalmReads
  <1>4. ASSUME NEW v \in Servers, Truncating
        PROVE  pc[v] # "check"
    BY <1>1, <1>4, WritersAssumption DEF Contained, OneProcess, IndexLockFree
  <1>5. \A v \in Writers : v # w => HolderHolds(v)'
    BY <1>1, <1>2, <1>4, CalmOthers
  <1>6. HolderHolds(w)'
    <2>1. after[w] = "acked" => Served(target[w])
      BY <1>1 DEF QuietHolds, HolderHolds, NoteHolds
    <2>2. NoteHolds(w)'
      BY <1>1, <1>3, <2>1 DEF NoteHolds, Served
    <2> QED
      BY <1>1, <2>2 DEF HolderHolds, TruncationHolds, CheckHolds, WriteHolds, HeadHolds, PublishHolds
  <1>7. WholeHolds'
    BY <1>1, <1>2, CalmWhole
  <1>8. IndexHolds'
    <2> SUFFICES ASSUME OneProcess, NEW p \in up \cap Indexed
                 PROVE  index'[p] = StoredHead
      BY <1>1, <1>3 DEF IndexHolds
    <2>1. p = ProcessOf[w]
      BY <1>1, WritersAssumption DEF OneProcess
    <2>2. seen[w] = StoredHead
      BY <1>1 DEF QuietHolds, HolderHolds, NoteHolds
    <2> QED
      BY <1>1, <2>1, <2>2 DEF ControlInv, TypeOK
  <1> QED
    BY <1>5, <1>6, <1>7, <1>8 DEF QuietHolds

\* An append is answered.
LEMMA AcknowledgeQuiet ==
    ASSUME Contained, ControlInv, QuietHolds, NEW w \in Writers, Acknowledge(w)
    PROVE  QuietHolds'
  <1>1. /\ Others(w) /\ pc[w] = "acked" /\ w \in Wallets /\ UNCHANGED <<files, head, index, up>>
        /\ acked' = acked \cup {target[w]} /\ pc'[w] = "idle"
    BY AcknowledgeStep DEF Holds
  <1>2. Calm(w)
    BY <1>1 DEF Calm
  <1>3. StoredHead' = StoredHead /\ ~MidTruncate /\ Served(target[w])
    BY <1>1, CalmReads, WalletAlone DEF QuietHolds, HolderHolds, NoteHolds
  <1>4. ASSUME NEW v \in Writers, v # w
        PROVE  HolderHolds(v)'
    <2>1. /\ pc'[v] = pc[v] /\ target'[v] = target[v] /\ next'[v] = next[v]
          /\ doomed'[v] = doomed[v] /\ seen'[v] = seen[v] /\ after'[v] = after[v]
          /\ HolderHolds(v) /\ pc[v] \notin {"remove", "unhead"}
      BY <1>1, <1>3, <1>4 DEF Others, QuietHolds, MidTruncate
    <2>2. TruncationHolds(v)' /\ WriteHolds(v)' /\ HeadHolds(v)' /\ NoteHolds(v)'
      BY <1>1, <1>3, <2>1 DEF HolderHolds, TruncationHolds, WriteHolds, HeadHolds, NoteHolds, Served
    <2>3. PublishHolds(v)'
      BY <1>1, <1>3, <2>1 DEF HolderHolds, PublishHolds, Others, MidTruncate
    <2>4. CheckHolds(v)'
      <3>1. \A u \in Wallets : pc[u] \in Noting => pc'[u] \in Noting
        BY <1>1 DEF Others, Noting, Writers
      <3> QED
        BY <1>1, <2>1, <3>1 DEF HolderHolds, CheckHolds
    <2> QED
      BY <2>2, <2>3, <2>4 DEF HolderHolds
  <1>5. HolderHolds(w)'
    BY <1>1 DEF HolderHolds, TruncationHolds, CheckHolds, WriteHolds, HeadHolds, PublishHolds, NoteHolds
  <1>6. WholeHolds' /\ IndexHolds'
    BY <1>1, <1>2, <1>3, CalmWhole, CalmIndex DEF Noting
  <1> QED
    BY <1>4, <1>5, <1>6 DEF QuietHolds

\* A push is published and answered.
LEMMA PublishQuiet ==
    ASSUME Contained, ControlInv, QuietHolds, NEW w \in Writers, Publish(w)
    PROVE  QuietHolds'
  <1>1. /\ Others(w) /\ pc[w] = "publish" /\ w \in Servers /\ UNCHANGED <<files, head, up>>
        /\ acked' = acked \cup {target[w]} /\ pc'[w] = "idle" /\ target[w] \in Chains
        /\ index' = [index EXCEPT ![ProcessOf[w]] = target[w]]
    BY PublishStep DEF Holds
  <1>2. Calm(w)
    BY <1>1 DEF Calm
  <1>3. /\ StoredHead' = StoredHead /\ head = target[w] /\ StoredHead = head
        /\ \A v \in Writers : pc[v] \in {"remove", "unhead"} => next[v] \in doomed[v]
    BY <1>1, CalmReads, ChainFacts DEF QuietHolds, HolderHolds, PublishHolds, StoredHead
  <1>4. ASSUME NEW v \in Writers, v # w
        PROVE  HolderHolds(v)'
    <2>1. /\ pc'[v] = pc[v] /\ target'[v] = target[v] /\ next'[v] = next[v]
          /\ doomed'[v] = doomed[v] /\ seen'[v] = seen[v] /\ after'[v] = after[v]
          /\ HolderHolds(v)
      BY <1>1, <1>4 DEF Others, QuietHolds
    <2>2. MidTruncate => MidTruncate'
      BY <1>1 DEF MidTruncate, Others
    <2>3. WriteHolds(v)' /\ HeadHolds(v)' /\ NoteHolds(v)'
      BY <1>1, <1>3, <2>1, <2>2 DEF HolderHolds, WriteHolds, HeadHolds, NoteHolds, Served
    <2>4. PublishHolds(v)'
      BY <1>1, <1>3, <2>1 DEF HolderHolds, PublishHolds, Others
    <2>5. CheckHolds(v)'
      <3>1. \A u \in Wallets : pc[u] \in Noting => pc'[u] \in Noting
        BY <1>1 DEF Others, Noting, Writers
      <3> QED
        BY <1>1, <2>1, <3>1 DEF HolderHolds, CheckHolds
    <2>6. TruncationHolds(v)'
      <3>1. Prefix(target[w], head)
        BY <1>1, <1>3, ChainFacts, PrefixFacts
      <3>2. pc[v] \in {"remove", "unhead"} => next[v] \in doomed[v]
        BY <1>3
      <3> QED
        BY <1>1, <2>1, <3>1, <3>2 DEF HolderHolds, TruncationHolds
    <2> QED
      BY <2>3, <2>4, <2>5, <2>6 DEF HolderHolds
  <1>5. HolderHolds(w)'
    BY <1>1 DEF HolderHolds, TruncationHolds, CheckHolds, WriteHolds, HeadHolds, PublishHolds, NoteHolds
  <1>6. WholeHolds'
    <2> SUFFICES ASSUME ~MidTruncate'
                 PROVE  Intact' /\ \A a \in acked' : Served(a)'
      BY DEF WholeHolds
    <2>1. ~MidTruncate
      BY <1>1 DEF MidTruncate, Others
    <2>2. Intact /\ \A a \in acked : Served(a)
      BY <2>1 DEF QuietHolds, WholeHolds
    <2>3. Served(target[w])
      BY <1>1, <1>3, <2>2, ChainFacts DEF Intact, Served
    <2> QED
      BY <1>1, <1>3, <2>2, <2>3 DEF Intact, OneRun, Served
  <1>7. IndexHolds'
    <2> SUFFICES ASSUME OneProcess, NEW p \in up \cap Indexed
                 PROVE  index'[p] = StoredHead
      BY <1>1, <1>3 DEF IndexHolds
    <2>1. p = ProcessOf[w]
      BY <1>1, WritersAssumption DEF OneProcess
    <2> QED
      BY <1>1, <1>3, <2>1 DEF ControlInv, TypeOK
  <1> QED
    BY <1>4, <1>5, <1>6, <1>7 DEF QuietHolds

\* A process dies: what it had in memory is gone and the files stay.
LEMMA CrashQuiet ==
    ASSUME Contained, ControlInv, QuietHolds, NEW p \in Process, Crash(p), mishaps' = {}
    PROVE  QuietHolds'
  <1>1. /\ UNCHANGED <<files, head, acked>> /\ up' = up \ {p}
        /\ \A w \in Writers : ProcessOf[w] = p => pc'[w] = "idle"
        /\ \A w \in Writers : ProcessOf[w] # p => Keeps(w, pc[w])
        /\ \A w \in Writers : ProcessOf[w] = p => pc[w] \notin {"remove", "unhead"}
    BY CrashStep
  <1>2. StoredHead' = StoredHead
    BY <1>1, CalmReads
  <1>3. MidTruncate' <=> MidTruncate
    BY <1>1 DEF MidTruncate, Keeps, Holds
  <1>4. WholeHolds'
    BY <1>1, <1>2, <1>3 DEF QuietHolds, WholeHolds, Intact, OneRun, Served
  <1>5. ASSUME NEW v \in Writers, ProcessOf[v] = p
        PROVE  HolderHolds(v)'
    BY <1>1, <1>5 DEF HolderHolds, TruncationHolds, CheckHolds, WriteHolds, HeadHolds, PublishHolds,
       NoteHolds
  <1>6. ASSUME NEW v \in Writers, ProcessOf[v] # p
        PROVE  HolderHolds(v)'
    <2>1. /\ pc'[v] = pc[v] /\ target'[v] = target[v] /\ next'[v] = next[v]
          /\ doomed'[v] = doomed[v] /\ seen'[v] = seen[v] /\ after'[v] = after[v]
          /\ HolderHolds(v)
      BY <1>1, <1>6 DEF Keeps, Holds, QuietHolds
    <2>2. ~Truncating
      <3>1. ProcessOf[v] \in Process
        BY WritersAssumption DEF Writers
      <3> QED
        BY <1>6, <3>1 DEF Contained, OneProcess
    <2>3. /\ TruncationHolds(v)' /\ CheckHolds(v)' /\ WriteHolds(v)' /\ HeadHolds(v)' /\ NoteHolds(v)'
      BY <1>1, <1>2, <1>3, <2>1, <2>2 DEF HolderHolds, TruncationHolds, CheckHolds, WriteHolds,
         HeadHolds, NoteHolds, Served
    <2>4. PublishHolds(v)'
      BY <1>1, <2>1 DEF HolderHolds, PublishHolds, Keeps, Holds
    <2> QED
      BY <2>3, <2>4 DEF HolderHolds
  <1>7. IndexHolds'
    <2> SUFFICES ASSUME OneProcess, NEW q \in up' \cap Indexed
                 PROVE  FALSE
      BY DEF IndexHolds
    <2>1. q \in Process /\ q # p
      BY <1>1, WritersAssumption
    <2> QED
      BY <2>1 DEF OneProcess
  <1> QED
    BY <1>4, <1>5, <1>6, <1>7 DEF QuietHolds

\* A process starts and reads its index from the files.
LEMMA RestartQuiet ==
    ASSUME Contained, ControlInv, QuietHolds, NEW p \in Process, Restart(p)
    PROVE  QuietHolds'
  <1>1. /\ UNCHANGED <<files, pc, target, next, doomed, seen, after, acked>>
        /\ head' = StoredHead /\ up' = up \cup {p} /\ p \notin up
        /\ index' = [q \in Indexed |-> IF q = p THEN Folded ELSE index[q]]
    BY RestartStep
  <1>2. /\ StoredHead' = StoredHead /\ (head # <<>> => head' = head)
        /\ MidTruncate' <=> MidTruncate
    BY <1>1, CalmReads DEF MidTruncate
  <1>3. WholeHolds'
    <2> SUFFICES ASSUME ~MidTruncate
                 PROVE  Intact' /\ \A a \in acked : Served(a)'
      BY <1>1, <1>2 DEF WholeHolds
    <2>1. Intact /\ \A a \in acked : Served(a)
      BY DEF QuietHolds, WholeHolds
    <2>2. files[Len(StoredHead) - 1] = StoredHead
      BY <2>1, IntactReads DEF ControlInv
    <2> QED
      BY <1>1, <1>2, <2>1, <2>2 DEF Intact, OneRun, Served
  <1>4. ASSUME NEW v \in Writers
        PROVE  HolderHolds(v)'
    <2>1. HolderHolds(v)
      BY DEF QuietHolds
    <2>2. /\ TruncationHolds(v)' /\ CheckHolds(v)' /\ WriteHolds(v)' /\ HeadHolds(v)' /\ NoteHolds(v)'
      BY <1>1, <1>2, <2>1 DEF HolderHolds, TruncationHolds, CheckHolds, WriteHolds, HeadHolds,
         NoteHolds, Served
    <2>3. PublishHolds(v)'
      <3>1. pc[v] = "publish" => target[v] # <<>>
        BY ChainFacts DEF ControlInv, ControlHolds
      <3> QED
        BY <1>1, <1>2, <2>1, <3>1 DEF HolderHolds, PublishHolds
    <2> QED
      BY <2>2, <2>3 DEF HolderHolds
  <1>5. IndexHolds'
    <2> SUFFICES ASSUME OneProcess, NEW q \in up' \cap Indexed
                 PROVE  index'[q] = StoredHead
      BY <1>2 DEF IndexHolds
    <2>1. q = p
      BY <1>1, WritersAssumption DEF OneProcess
    <2>2. \A w \in Writers : pc[w] = "idle"
      BY <1>1, WritersAssumption DEF OneProcess, ControlInv, ControlHolds, Writers
    <2>3. Folded = StoredHead
      BY <2>2, IntactReads DEF QuietHolds, WholeHolds, MidTruncate, ControlInv
    <2> QED
      BY <1>1, <2>1, <2>3
  <1> QED
    BY <1>3, <1>4, <1>5 DEF QuietHolds

\* A step that changes the directory while nobody else is between its reads and
\* its writes, removes no file and shortens no head: what the others rely on
\* outlives it.
LEMMA GrowOthers ==
    ASSUME ControlInv, QuietHolds, NEW w \in Writers, Others(w), ~MidTruncate, acked' = acked,
           \A s \in Seqs : files[s] # <<>> => files'[s] = files[s],
           Len(StoredHead) <= Len(StoredHead'), Len(StoredHead) \in Nat, Len(StoredHead') \in Nat,
           pc[w] \in Noting => pc'[w] \in Noting,
           NEW v \in Writers, v # w,
           pc[v] \notin {"write", "head", "publish", "replace", "remove", "unhead"},
           pc[v] = "check" /\ next[v] >= 1 /\ files[next[v] - 1] = <<>> => files'[next[v] - 1] = <<>>
    PROVE  HolderHolds(v)'
  <1>1. /\ pc'[v] = pc[v] /\ target'[v] = target[v] /\ next'[v] = next[v]
        /\ doomed'[v] = doomed[v] /\ seen'[v] = seen[v] /\ after'[v] = after[v]
        /\ HolderHolds(v)
    BY DEF Others, QuietHolds
  <1>2. CheckHolds(v)'
    <2> SUFFICES ASSUME pc[v] = "check", next[v] >= 1
                 PROVE  \/ files'[next[v] - 1] = EventAt(target[v], next[v] - 1)
                        \/ /\ Truncating /\ v \in Servers /\ files'[next[v] - 1] = <<>>
                           /\ \E u \in Wallets : pc'[u] \in Noting
      BY <1>1 DEF CheckHolds
    <2>1. /\ target[v] \in Chains /\ next[v] < Len(target[v]) /\ next[v] \in Nat
      BY BoundsAssumption DEF ControlInv, ControlHolds, TypeOK
    <2>2. next[v] - 1 \in 0..(Len(target[v]) - 1) /\ next[v] - 1 \in Seqs
      BY <2>1, ChainFacts, BoundsAssumption DEF Seqs
    <2>3. EventAt(target[v], next[v] - 1) # <<>>
      BY <2>1, <2>2, EventFacts, ChainFacts
    <2>4. (\E u \in Wallets : pc[u] \in Noting) => \E u \in Wallets : pc'[u] \in Noting
      BY DEF Others, Writers
    <2> QED
      BY <1>1, <2>2, <2>3, <2>4 DEF HolderHolds, CheckHolds
  <1>3. NoteHolds(v)'
    <2> SUFFICES ASSUME pc[v] = "acked" \/ (pc[v] = "note" /\ after[v] = "acked")
                 PROVE  files'[Len(target[v]) - 1] = target[v] /\ Len(target[v]) <= Len(StoredHead')
      BY <1>1 DEF NoteHolds, Served
    <2>1. Served(target[v]) /\ target[v] \in Chains
      BY <1>1 DEF HolderHolds, NoteHolds, ControlInv, ControlHolds
    <2>2. Len(target[v]) - 1 \in Seqs /\ target[v] # <<>> /\ Len(target[v]) \in Nat
      BY <2>1, ChainFacts
    <2> QED
      BY <2>1, <2>2 DEF Served
  <1> QED
    BY <1>1, <1>2, <1>3 DEF HolderHolds, TruncationHolds, WriteHolds, HeadHolds, PublishHolds

\* One event file is renamed into place.
LEMMA WriteQuiet ==
    ASSUME Contained, OverwriteInv, ControlInv', QuietHolds, mishaps = {}, NEW w \in Writers,
           Write(w), mishaps' = {}
    PROVE  QuietHolds'
  <1> DEFINE c == target[w]
             n == next[w]
  <1>0. ControlInv
    BY DEF OverwriteInv
  <1>1. /\ Others(w) /\ pc[w] = "write" /\ c \in Chains /\ n \in 0..(Len(c) - 1) /\ n \in Seqs
        /\ UNCHANGED <<head, index, up, acked>> /\ files' = [files EXCEPT ![n] = EventAt(c, n)]
        /\ target'[w] = c /\ next'[w] = n + 1
        /\ (pc'[w] = "head" /\ n + 1 = Len(c)) \/ (pc'[w] = "write" /\ n + 1 < Len(c))
    BY <1>0, WriteStep DEF Holds
  <1>2. \A v \in Writers : v # w =>
           pc[v] \notin {"write", "head", "publish", "replace", "remove", "unhead"}
    BY <1>0, WriteStep, OvertakesNobody
  <1>3. ~MidTruncate /\ ~MidTruncate'
    BY <1>1, <1>2 DEF MidTruncate, Others
  <1>4. /\ Intact /\ (\A a \in acked : Served(a))
        /\ head # <<>> /\ Len(head) <= n /\ files[n - 1] = EventAt(c, n - 1)
    BY <1>1, <1>3 DEF QuietHolds, WholeHolds, HolderHolds, WriteHolds
  <1>5. /\ Len(c) \in Nat /\ n \in Nat /\ head \in Chains /\ Len(head) \in Nat \ {0}
        /\ n >= 1 /\ n - 1 \in Seqs /\ Len(head) - 1 \in Seqs
    <2>1. Len(c) \in Nat /\ n \in Nat /\ head \in Chains /\ Len(head) \in Nat \ {0}
      BY <1>0, <1>1, <1>4, ChainFacts DEF ControlInv, TypeOK
    <2> QED
      BY <1>1, <1>4, <2>1, ChainFacts, BoundsAssumption DEF Seqs
  <1>6. EventAt(c, n) \in Chains /\ EventAt(c, n) # <<>> /\ Len(EventAt(c, n)) = n + 1
    BY <1>1, EventFacts, ChainFacts
  <1>7. files[n] \in {<<>>, EventAt(c, n)}
    <2>1. n \in n..(Len(c) - 1)
      BY <1>1, <1>5
    <2> QED
      BY <1>1, <2>1 DEF OverwriteInv, MeetsNoOtherBytes, HoldsOtherBytes
  <1>8. /\ \A s \in Seqs : s # n => files'[s] = files[s]
        /\ files'[n] = EventAt(c, n)
        /\ \A s \in Seqs : files[s] # <<>> => files'[s] = files[s]
    BY <1>0, <1>1, <1>7 DEF ControlInv, TypeOK
  <1>9. StoredHead' = head /\ StoredHead = head
    BY <1>1, <1>4 DEF StoredHead
  <1> HIDE DEF c, n
  <1>10. \A t \in 0..n : files'[t] = EventAt(c, t)
    <2> SUFFICES ASSUME NEW t \in 0..n
                 PROVE  files'[t] = EventAt(c, t)
      OBVIOUS
    <2>1. CASE t = n
      BY <1>8, <2>1
    <2>2. CASE t # n
      <3>1. t \in 0..(n - 1) /\ n - 1 \in 0..(Len(c) - 1)
        BY <1>1, <1>5, <2>2
      <3>2. EventAt(c, n - 1) \in Chains /\ EventAt(EventAt(c, n - 1), t) = EventAt(c, t)
        BY <1>1, <3>1, EventFacts
      <3>3. files[n - 1] # <<>>
        BY <1>4, <3>2, ChainFacts
      <3>4. files[t] = EventAt(files[n - 1], t)
        BY <1>4, <1>5, <3>1, <3>3 DEF Intact, OneRun
      <3>5. t \in Seqs
        BY <1>1, <1>5, <2>2, BoundsAssumption DEF Seqs
      <3> QED
        BY <1>4, <1>8, <2>2, <3>2, <3>4, <3>5
    <2> QED
      BY <2>1, <2>2
  <1>11. OneRun'
    <2> SUFFICES ASSUME NEW s \in Seqs, files'[s] # <<>>
                 PROVE  Len(files'[s]) = s + 1 /\ \A t \in 0..s : files'[t] = EventAt(files'[s], t)
      BY DEF OneRun
    <2>0. s \in Nat /\ \A t \in 0..s : t \in Seqs
      BY BoundsAssumption DEF Seqs
    <2>1. CASE s = n
      <3>1. \A t \in 0..n : EventAt(EventAt(c, n), t) = EventAt(c, t)
        BY <1>1, EventFacts
      <3> QED
        BY <1>6, <1>8, <1>10, <2>1, <3>1
    <2>2. CASE s < n
      <3>1. /\ files'[s] = files[s] /\ Len(files[s]) = s + 1
            /\ \A t \in 0..s : files[t] = EventAt(files[s], t)
        BY <1>4, <1>5, <1>8, <2>0, <2>2 DEF Intact, OneRun
      <3>2. \A t \in 0..s : files'[t] = files[t]
        BY <1>5, <1>8, <2>0, <2>2
      <3> QED
        BY <3>1, <3>2
    <2>3. CASE s > n
      <3>1. /\ files'[s] = files[s] /\ Len(files[s]) = s + 1
            /\ \A t \in 0..s : files[t] = EventAt(files[s], t)
        BY <1>4, <1>5, <1>8, <2>0, <2>3 DEF Intact, OneRun
      <3>2. files[s] \in Chains /\ n \in 0..s /\ n \in 0..(Len(files[s]) - 1)
        BY <1>0, <1>5, <2>0, <2>3, <3>1 DEF ControlInv, TypeOK
      <3>3. files[n] # <<>>
        BY <3>1, <3>2, EventFacts, ChainFacts
      <3>4. \A t \in 0..s : files'[t] = files[t]
        BY <1>8, <2>0, <3>3
      <3> QED
        BY <3>1, <3>4
    <2> QED
      BY <1>5, <2>0, <2>1, <2>2, <2>3
  <1>12. WholeHolds'
    <2>1. files'[0] # <<>>
      <3>1. 0 \in Seqs
        BY BoundsAssumption DEF Seqs
      <3> QED
        BY <1>4, <1>8, <3>1 DEF Intact
    <2>2. files'[Len(head) - 1] = head
      BY <1>4, <1>5, <1>8 DEF Intact
    <2>3. \A a \in acked : files'[Len(a) - 1] = a
      <3> SUFFICES ASSUME NEW a \in acked
                   PROVE  files'[Len(a) - 1] = a
        OBVIOUS
      <3>1. a \in Chains /\ files[Len(a) - 1] = a
        BY <1>0, <1>4 DEF ControlInv, TypeOK, Served
      <3> QED
        BY <1>8, <3>1, ChainFacts
    <2> QED
      BY <1>1, <1>4, <1>9, <1>11, <2>1, <2>2, <2>3 DEF WholeHolds, Intact, Served
  <1>13. ASSUME NEW v \in Writers, v # w
         PROVE  HolderHolds(v)'
    <2>1. pc[v] = "check" /\ next[v] >= 1 /\ files[next[v] - 1] = <<>> => files'[next[v] - 1] = <<>>
      <3> SUFFICES ASSUME pc[v] = "check", next[v] >= 1, files[next[v] - 1] = <<>>
                   PROVE  FALSE
        OBVIOUS
      <3>1. target[v] \in Chains /\ next[v] < Len(target[v]) /\ next[v] \in Nat
        BY <1>0, BoundsAssumption DEF ControlInv, ControlHolds, TypeOK
      <3>2. next[v] - 1 \in 0..(Len(target[v]) - 1)
        BY <3>1, ChainFacts
      <3>3. EventAt(target[v], next[v] - 1) # <<>>
        BY <3>1, <3>2, EventFacts, ChainFacts
      <3>4. Truncating /\ v \in Servers /\ \E u \in Wallets : pc[u] \in Noting
        BY <3>3 DEF QuietHolds, HolderHolds, CheckHolds
      <3>5. PICK u \in Wallets : pc[u] \in Noting
        BY <3>4
      <3>6. w # u
        BY <1>1, <3>5 DEF Noting
      <3>7. w \in Servers
        BY <3>4, <3>5, <3>6, WritersAssumption DEF Writers, Contained, OneProcess
      <3>8. w = v
        BY <3>4, <3>7, WritersAssumption DEF Contained, OneProcess
      <3> QED
        BY <1>13, <3>8
    <2> QED
      BY <1>0, <1>1, <1>2, <1>3, <1>5, <1>8, <1>9, <1>13, <2>1, GrowOthers DEF Noting
  <1>14. HolderHolds(w)'
    <2>1. CASE pc'[w] = "write"
      <3>1. Len(head) <= n + 1 /\ n + 1 - 1 = n
        BY <1>4, <1>5
      <3>2. WriteHolds(w)'
        BY <1>1, <1>4, <1>8, <3>1 DEF WriteHolds
      <3> QED
        BY <2>1, <3>2 DEF HolderHolds, TruncationHolds, CheckHolds, HeadHolds, PublishHolds, NoteHolds
    <2>2. CASE pc'[w] = "head" /\ n + 1 = Len(c)
      <3>1. Len(head) <= Len(c) /\ Len(c) - 1 = n /\ EventAt(c, n) = c
        <4>1. EventAt(c, Len(c) - 1) = c
          BY <1>1, ChainFacts
        <4>2. Len(head) <= Len(c) /\ Len(c) - 1 = n
          BY <1>4, <1>5, <2>2
        <4> QED
          BY <4>1, <4>2
      <3>2. HeadHolds(w)'
        BY <1>1, <1>4, <1>8, <3>1 DEF HeadHolds
      <3> QED
        BY <2>2, <3>2 DEF HolderHolds, TruncationHolds, CheckHolds, WriteHolds, PublishHolds, NoteHolds
    <2> QED
      BY <1>1, <2>1, <2>2
  <1>15. IndexHolds'
    <2> SUFFICES ASSUME OneProcess, \A u \in Wallets : pc'[u] \notin Noting,
                        \A u \in Servers : pc'[u] # "publish", NEW p \in up \cap Indexed
                 PROVE  index[p] = head
      BY <1>1, <1>9 DEF IndexHolds
    <2>1. \A u \in Wallets : pc[u] \notin Noting
      BY <1>1 DEF Others, Writers, Noting
    <2>2. \A u \in Servers : pc[u] # "publish"
      BY <1>1 DEF Others, Writers
    <2> QED
      BY <1>9, <2>1, <2>2 DEF QuietHolds, IndexHolds
  <1> QED
    BY <1>12, <1>13, <1>14, <1>15 DEF QuietHolds

\* head.json is renamed, after the events.
LEMMA WriteHeadQuiet ==
    ASSUME Contained, ControlInv, ControlInv', QuietHolds, NEW w \in Writers, WriteHead(w), mishaps' = {}
    PROVE  QuietHolds'
  <1> DEFINE c == target[w]
  <1>1. /\ Others(w) /\ pc[w] = "head" /\ c \in Chains /\ head' = c /\ target'[w] = c
        /\ UNCHANGED <<files, index, up, acked>>
        /\ (w \in Servers /\ pc'[w] = "publish") \/ (w \in Wallets /\ pc'[w] = "note")
    BY WriteHeadStep DEF Holds, Keeps
  <1>2. \A v \in Writers : v # w =>
           pc[v] \notin {"write", "head", "publish", "replace", "remove", "unhead"}
    BY WriteHeadStep, OvertakesNobody
  <1>3. ~MidTruncate /\ ~MidTruncate'
    BY <1>1, <1>2 DEF MidTruncate, Others
  <1>4. /\ Intact /\ (\A a \in acked : Served(a))
        /\ head # <<>> /\ Len(head) <= Len(c) /\ files[Len(c) - 1] = c
    BY <1>1, <1>3 DEF QuietHolds, WholeHolds, HolderHolds, HeadHolds
  <1>5. /\ StoredHead = head /\ StoredHead' = c /\ Len(head) \in Nat /\ Len(c) \in Nat
        /\ head \in Chains
    BY <1>1, <1>4, ChainFacts DEF StoredHead, ControlInv, TypeOK
  <1>6. WholeHolds'
    <2>1. \A a \in acked : Len(a) <= Len(c)
      BY <1>4, <1>5, ChainFacts DEF Served, ControlInv, TypeOK
    <2> QED
      BY <1>1, <1>4, <1>5, <2>1 DEF WholeHolds, Intact, OneRun, Served
  <1>7. ASSUME NEW v \in Writers, v # w
        PROVE  HolderHolds(v)'
    BY <1>1, <1>2, <1>3, <1>4, <1>5, <1>7, GrowOthers DEF Noting
  <1>8. HolderHolds(w)'
    <2>1. Served(c)'
      BY <1>1, <1>4, <1>5 DEF Served
    <2>2. PublishHolds(w)' /\ NoteHolds(w)'
      BY <1>1, <1>3, <2>1 DEF PublishHolds, NoteHolds, MidTruncate
    <2> QED
      BY <1>1, <2>2 DEF HolderHolds, TruncationHolds, CheckHolds, WriteHolds, HeadHolds
  <1>9. IndexHolds'
    BY <1>1 DEF IndexHolds, Noting
  <1> QED
    BY <1>6, <1>7, <1>8, <1>9 DEF QuietHolds

\* head.json is rebuilt.
LEMMA RebuildQuiet ==
    ASSUME Contained, ControlInv, ControlInv', QuietHolds, NEW w \in Writers, Rebuild(w), mishaps' = {}
    PROVE  QuietHolds'
  <1>1. /\ Others(w) /\ pc[w] = "rebuild" /\ head' = ContiguousEvent /\ w \in Wallets
        /\ UNCHANGED <<files, index, up, acked>> /\ pc'[w] = "note" /\ after'[w] = "overlap"
    BY RebuildStep DEF Holds, Keeps
  <1>2. \A v \in Writers : v # w =>
           pc[v] \notin {"write", "head", "publish", "replace", "remove", "unhead"}
    BY RebuildStep, OvertakesNobody
  <1>3. ~MidTruncate /\ ~MidTruncate'
    BY <1>1, <1>2 DEF MidTruncate, Others
  <1>4. Intact /\ \A a \in acked : Served(a)
    BY <1>3 DEF QuietHolds, WholeHolds
  <1>5. /\ StoredHead \in Chains /\ ContiguousEvent \in Chains
        /\ files[Len(ContiguousEvent) - 1] = ContiguousEvent /\ Len(StoredHead) <= Len(ContiguousEvent)
    BY <1>4, IntactReads DEF ControlInv
  <1>6. /\ StoredHead' = ContiguousEvent /\ Len(StoredHead) \in Nat /\ Len(ContiguousEvent) \in Nat
    BY <1>1, <1>5, ChainFacts DEF StoredHead
  <1>7. WholeHolds'
    <2>1. \A a \in acked : Len(a) <= Len(ContiguousEvent)
      BY <1>4, <1>5, <1>6, ChainFacts DEF Served, ControlInv, TypeOK
    <2> QED
      BY <1>1, <1>4, <1>5, <1>6, <2>1 DEF WholeHolds, Intact, OneRun, Served
  <1>8. ASSUME NEW v \in Writers, v # w
        PROVE  HolderHolds(v)'
    BY <1>1, <1>2, <1>3, <1>5, <1>6, <1>8, GrowOthers DEF Noting
  <1>9. HolderHolds(w)'
    BY <1>1 DEF HolderHolds, TruncationHolds, CheckHolds, WriteHolds, HeadHolds, PublishHolds, NoteHolds
  <1>10. IndexHolds'
    BY <1>1 DEF IndexHolds, Noting
  <1> QED
    BY <1>7, <1>8, <1>9, <1>10 DEF QuietHolds

\* What a truncation leaves of the other holders: the ones in a check.
LEMMA TruncateOthers ==
    ASSUME Contained, ControlInv, QuietHolds, NEW w \in Writers, Others(w),
           pc[w] \in {"remove", "unhead"}, pc'[w] \in Noting,
           \A s \in Seqs : files'[s] \in {files[s], <<>>},
           NEW v \in Writers, v # w,
           pc[v] \notin {"write", "head", "publish", "replace", "remove", "unhead"}
    PROVE  HolderHolds(v)'
  <1>1. w \in Wallets /\ Truncating /\ v \notin Wallets /\ v \in Servers
    BY OneTruncator DEF Writers
  <1>2. /\ pc'[v] = pc[v] /\ target'[v] = target[v] /\ next'[v] = next[v] /\ HolderHolds(v)
        /\ ControlHolds(v)
    BY DEF Others, QuietHolds, ControlInv
  <1>3. pc[v] \notin {"acked", "note"}
    BY <1>1, <1>2 DEF ControlHolds, Noting
  <1>4. CheckHolds(v)'
    <2> SUFFICES ASSUME pc[v] = "check", next[v] >= 1
                 PROVE  files'[next[v] - 1] \in {EventAt(target[v], next[v] - 1), <<>>}
      BY <1>1, <1>2 DEF CheckHolds
    <2>1. next[v] - 1 \in Seqs
      BY <1>2, ChainFacts, BoundsAssumption DEF ControlHolds, ControlInv, TypeOK, Seqs
    <2> QED
      BY <1>2, <2>1 DEF HolderHolds, CheckHolds
  <1> QED
    BY <1>2, <1>3, <1>4 DEF HolderHolds, TruncationHolds, WriteHolds, HeadHolds, PublishHolds, NoteHolds

\* A truncation removes the lowest file of its list.
LEMMA RemoveEventQuiet ==
    ASSUME Contained, ControlInv, ControlInv', QuietHolds, NEW w \in Writers, RemoveEvent(w), mishaps' = {}
    PROVE  QuietHolds'
  <1>1. PICK first \in doomed[w] :
           /\ first \in Seqs /\ \A t \in doomed[w] : first <= t
           /\ files' = [files EXCEPT ![first] = <<>>]
           /\ acked' = {a \in acked : Len(a) <= first}
           /\ pc'[w] \in {"remove", "unhead"} /\ (pc'[w] = "unhead" => doomed[w] \ {first} = {})
           /\ next'[w] = next[w] /\ doomed'[w] = doomed[w] \ {first}
    BY RemoveEventStep DEF Holds
  <1>2. /\ Others(w) /\ pc[w] = "remove" /\ UNCHANGED <<head, index, up>>
        /\ \A v \in Writers : v # w =>
              pc[v] \notin {"write", "head", "publish", "replace", "remove", "unhead"}
    BY RemoveEventStep, OvertakesNobody
  <1>3. /\ TruncationHolds(w) /\ w \in Wallets
        /\ \A s \in Seqs : files'[s] = IF s = first THEN <<>> ELSE files[s]
    BY <1>1, <1>2, OneTruncator DEF QuietHolds, HolderHolds, ControlInv, TypeOK
  <1>4. MidTruncate'
    BY <1>1 DEF MidTruncate
  <1>5. ASSUME NEW v \in Writers, v # w
        PROVE  HolderHolds(v)'
    BY <1>1, <1>2, <1>3, <1>5, TruncateOthers DEF Noting
  <1>6. TruncationHolds(w)'
    <2> DEFINE n == next[w]
    <2>1. /\ head # <<>> /\ n \in 1..(Len(head) - 1)
          /\ doomed[w] = {s \in Seqs : s >= n /\ files[s] # <<>>}
          /\ \A s \in 0..(n - 1) : files[s] = EventAt(head, s)
          /\ \A a \in acked : Prefix(a, head) /\ (n \notin doomed[w] => Len(a) <= n)
      BY <1>2, <1>3 DEF TruncationHolds
    <2>2. n \in Nat /\ first \in Nat /\ first >= n /\ head \in Chains /\ Len(head) \in 1..MaxLen
      BY <1>1, <2>1, ChainFacts, BoundsAssumption DEF Seqs, ControlInv, TypeOK
    <2> HIDE DEF n
    <2>3. doomed'[w] = {s \in Seqs : s >= n /\ files'[s] # <<>>}
      BY <1>1, <1>3, <2>1
    <2>4. \A s \in 0..(n - 1) : files'[s] = EventAt(head, s)
      <3>1. \A s \in 0..(n - 1) : s \in Seqs /\ s # first
        BY <2>1, <2>2, BoundsAssumption DEF Seqs
      <3> QED
        BY <1>3, <2>1, <3>1
    <2>5. \A a \in acked' : Prefix(a, head) /\ (n \notin doomed'[w] => Len(a) <= n)
      <3> SUFFICES ASSUME NEW a \in acked', n \notin doomed'[w]
                   PROVE  Len(a) <= n
        BY <1>1, <2>1
      <3>1. a \in acked /\ Len(a) <= first
        BY <1>1
      <3>2. CASE n \in doomed[w]
        BY <1>1, <3>1, <3>2
      <3>3. CASE n \notin doomed[w]
        BY <2>1, <3>1, <3>3
      <3> QED
        BY <3>2, <3>3
    <2> QED
      BY <1>1, <1>2, <2>1, <2>3, <2>4, <2>5 DEF TruncationHolds, n
  <1>7. HolderHolds(w)'
    BY <1>1, <1>6 DEF HolderHolds, CheckHolds, WriteHolds, HeadHolds, PublishHolds, NoteHolds
  <1>8. WholeHolds' /\ IndexHolds'
    BY <1>1, <1>3, <1>4 DEF WholeHolds, IndexHolds, Noting
  <1> QED
    BY <1>5, <1>7, <1>8 DEF QuietHolds

\* The run of event files is a chain, and no event file lies past its end.
RunIsRead ==
    ContiguousEvent \in Chains /\ \A s \in Seqs : files[s] # <<>> => s + 1 <= Len(ContiguousEvent)

\* A directory in one run is read to its end.
LEMMA RunReads == TypeOK /\ Intact => RunIsRead
  BY IntactReads DEF RunIsRead

\* A truncation removes head.json, and the files that are left are one run.
LEMMA RemoveHeadQuiet ==
    ASSUME Contained, ControlInv, ControlInv', QuietHolds, NEW w \in Writers, RemoveHead(w), mishaps' = {}
    PROVE  QuietHolds'
  <1>1. /\ Others(w) /\ pc[w] = "unhead" /\ w \in Wallets /\ head' = <<>>
        /\ UNCHANGED <<files, index, up, acked>> /\ pc'[w] = "rebuild"
        /\ \A v \in Writers : v # w =>
              pc[v] \notin {"write", "head", "publish", "replace", "remove", "unhead"}
    BY RemoveHeadStep, OvertakesNobody DEF Holds, Keeps
  <1> DEFINE n == next[w]
  <1>2. /\ head # <<>> /\ n \in 1..(Len(head) - 1) /\ doomed[w] = {}
        /\ doomed[w] = {s \in Seqs : s >= n /\ files[s] # <<>>}
        /\ \A s \in 0..(n - 1) : files[s] = EventAt(head, s)
        /\ \A a \in acked : Prefix(a, head) /\ (n \notin doomed[w] => Len(a) <= n)
    BY <1>1 DEF QuietHolds, HolderHolds, TruncationHolds
  <1>3. head \in Chains /\ Len(head) \in 1..MaxLen /\ n \in Nat /\ MaxLen \in Nat
    BY <1>2, ChainFacts, BoundsAssumption DEF ControlInv, TypeOK
  <1> HIDE DEF n
  <1>4. \A s \in Seqs : files[s] # <<>> => s \in 0..(n - 1)
    BY <1>2, <1>3, BoundsAssumption DEF Seqs
  <1>5. \A s \in 0..(n - 1) : s \in 0..(Len(head) - 1) /\ s \in Seqs /\ files[s] # <<>>
    <2> SUFFICES ASSUME NEW s \in 0..(n - 1)
                 PROVE  s \in 0..(Len(head) - 1) /\ s \in Seqs /\ files[s] # <<>>
      OBVIOUS
    <2>1. s \in 0..(Len(head) - 1) /\ s \in Seqs
      BY <1>2, <1>3 DEF Seqs
    <2> QED
      BY <1>2, <1>3, <2>1, EventFacts, ChainFacts
  <1>6. Intact'
    <2>1. OneRun
      <3> SUFFICES ASSUME NEW s \in Seqs, files[s] # <<>>
                   PROVE  Len(files[s]) = s + 1 /\ \A t \in 0..s : files[t] = EventAt(files[s], t)
        BY DEF OneRun
      <3>1. s \in 0..(n - 1) /\ s \in 0..(Len(head) - 1) /\ files[s] = EventAt(head, s)
        BY <1>2, <1>4, <1>5
      <3>2. Len(files[s]) = s + 1 /\ \A t \in 0..s : EventAt(files[s], t) = EventAt(head, t)
        BY <1>3, <3>1, EventFacts
      <3>3. \A t \in 0..s : t \in 0..(n - 1)
        BY <1>3, <3>1
      <3> QED
        BY <1>2, <3>2, <3>3
    <2>2. files[0] # <<>>
      <3>1. 0 \in 0..(n - 1)
        BY <1>2, <1>3
      <3> QED
        BY <1>5, <3>1
    <2> QED
      BY <1>1, <2>1, <2>2 DEF Intact, OneRun
  <1>7. /\ StoredHead' = ContiguousEvent' /\ n <= Len(StoredHead') /\ Len(StoredHead') \in Nat
    <2>1. StoredHead' = ContiguousEvent'
      BY <1>1 DEF StoredHead
    <2>2. TypeOK' /\ Intact' => RunIsRead'
      BY RunReads, PTL
    <2>3. n - 1 \in Seqs /\ n - 1 \in 0..(n - 1) /\ n - 1 + 1 = n
      <3>1. n - 1 \in 0..(n - 1) /\ n - 1 + 1 = n
        BY <1>2, <1>3
      <3> QED
        BY <1>5, <3>1
    <2>4. files'[n - 1] # <<>>
      BY <1>1, <1>5, <2>3
    <2>5. ContiguousEvent' \in Chains /\ n - 1 + 1 <= Len(ContiguousEvent')
      BY <1>1, <1>6, <2>2, <2>3, <2>4 DEF ControlInv, RunIsRead
    <2>6. Len(ContiguousEvent') \in Nat
      BY <2>5, ChainFacts
    <2> QED
      BY <2>1, <2>3, <2>5, <2>6
  <1>8. WholeHolds'
    <2>1. \A a \in acked : files[Len(a) - 1] = a /\ Len(a) <= Len(StoredHead')
      <3> SUFFICES ASSUME NEW a \in acked
                   PROVE  files[Len(a) - 1] = a /\ Len(a) <= Len(StoredHead')
        OBVIOUS
      <3>1. a \in Chains /\ Prefix(a, head) /\ Len(a) <= n /\ Len(a) \in Nat \ {0}
        BY <1>2, ChainFacts DEF ControlInv, TypeOK
      <3>2. Len(a) - 1 \in 0..(n - 1) /\ EventAt(head, Len(a) - 1) = a
        BY <1>3, <3>1, PrefixFacts
      <3> QED
        BY <1>2, <1>3, <1>7, <3>1, <3>2
    <2> QED
      BY <1>1, <1>6, <2>1 DEF WholeHolds, Served
  <1>9. ASSUME NEW v \in Writers, v # w
        PROVE  HolderHolds(v)'
    BY <1>1, <1>9, TruncateOthers DEF Noting
  <1>10. HolderHolds(w)'
    BY <1>1 DEF HolderHolds, TruncationHolds, CheckHolds, WriteHolds, HeadHolds, PublishHolds, NoteHolds
  <1>11. IndexHolds'
    BY <1>1 DEF IndexHolds, Noting
  <1> QED
    BY <1>8, <1>9, <1>10, <1>11 DEF QuietHolds

\* A fresh home is one run that holds what was answered.
LEMMA InitQuiet == Init => DurableInv
  <1> SUFFICES ASSUME Init
               PROVE  OverwriteInv /\ QuietHolds
    BY DEF DurableInv
  <1>1. /\ \A w \in Writers : pc[w] = "idle"
        /\ files = [s \in Seqs |-> IF s = 0 THEN <<Genesis>> ELSE <<>>]
        /\ head = <<Genesis>> /\ acked = {<<Genesis>>} /\ index = [p \in Indexed |-> <<Genesis>>]
    BY DEF Init
  <1> DEFINE g == <<Genesis>>
  <1>2. g \in Chains /\ g # <<>> /\ Len(g) = 1 /\ Len(g) - 1 = 0 /\ Len(g) <= Len(g)
    BY GenesisFacts
  <1>3. 0 \in Seqs /\ files[0] = g /\ \A s \in Seqs : s # 0 => files[s] = <<>>
    BY <1>1, BoundsAssumption DEF Seqs
  <1>4. EventAt(g, 0) = g
    BY <1>2, ChainFacts, SubSeqFull DEF EventAt
  <1> HIDE DEF g
  <1>5. OneRun
    <2> SUFFICES ASSUME NEW s \in Seqs, files[s] # <<>>
                 PROVE  Len(files[s]) = s + 1 /\ \A t \in 0..s : files[t] = EventAt(files[s], t)
      BY DEF OneRun
    <2>1. s = 0 /\ \A t \in 0..s : t = 0
      BY <1>3
    <2> QED
      BY <1>2, <1>3, <1>4, <2>1
  <1>6. Intact
    BY <1>1, <1>2, <1>3, <1>5 DEF Intact, g
  <1>7. StoredHead = g
    BY <1>1, <1>2 DEF StoredHead, g
  <1>8. WholeHolds
    BY <1>1, <1>2, <1>3, <1>6, <1>7 DEF WholeHolds, Served, g
  <1>9. \A w \in Writers : HolderHolds(w)
    BY <1>1 DEF HolderHolds, TruncationHolds, CheckHolds, WriteHolds, HeadHolds, PublishHolds, NoteHolds
  <1>10. IndexHolds
    BY <1>1, <1>7 DEF IndexHolds, g
  <1>11. OverwriteInv
    BY <1>1, InitControlFiles DEF OverwriteInv, MeetsNoOtherBytes
  <1> QED
    BY <1>8, <1>9, <1>10, <1>11 DEF QuietHolds

\* Every step keeps the directory in one run, its answers in it and the index
\* owed no more than a note, as long as nobody was overtaken and no truncation torn.
LEMMA StepDurable ==
    ASSUME Contained, DurableInv, [Next]_vars
    PROVE  DurableInv'
  <1>1. OverwriteInv /\ OverwriteInv' /\ ControlInv /\ ControlInv'
    <2>1. OverwriteInv /\ OverwriteInv'
      BY StepOverwrite DEF DurableInv
    <2> QED
      BY <2>1 DEF OverwriteInv
  <1> SUFFICES ASSUME mishaps' = {}
               PROVE  QuietHolds'
    BY <1>1 DEF DurableInv
  <1>2. mishaps = {} /\ QuietHolds
    BY <1>1, FilesStep DEF DurableInv
  <1>3. CASE Begin
    BY <1>1, <1>2, <1>3, BeginQuiet
  <1>4. ASSUME NEW w \in Writers, Step(w)
        PROVE  QuietHolds'
    <2>1. CASE Overlap(w) \/ Check(w)
      BY <1>1, <1>2, <2>1, ReadQuiet
    <2>2. CASE Write(w)
      BY <1>1, <1>2, <2>2, WriteQuiet
    <2>3. CASE WriteHead(w)
      BY <1>1, <1>2, <2>3, WriteHeadQuiet
    <2>4. CASE Publish(w)
      BY <1>1, <1>2, <2>4, PublishQuiet
    <2>5. CASE RemoveEvent(w)
      BY <1>1, <1>2, <2>5, RemoveEventQuiet
    <2>6. CASE RemoveHead(w)
      BY <1>1, <1>2, <2>6, RemoveHeadQuiet
    <2>7. CASE Rebuild(w)
      BY <1>1, <1>2, <2>7, RebuildQuiet
    <2>8. CASE NoteLoad(w)
      BY <1>1, <1>2, <2>8, NoteLoadQuiet
    <2>9. CASE NoteReplace(w)
      BY <1>1, <1>2, <2>9, NoteReplaceQuiet
    <2>10. CASE Acknowledge(w)
      BY <1>1, <1>2, <2>10, AcknowledgeQuiet
    <2> QED
      BY <1>4, <2>1, <2>2, <2>3, <2>4, <2>5, <2>6, <2>7, <2>8, <2>9, <2>10 DEF Step
  <1>5. ASSUME NEW p \in Process, Crash(p) \/ Restart(p)
        PROVE  QuietHolds'
    BY <1>1, <1>2, <1>5, CrashQuiet, RestartQuiet
  <1>6. CASE UNCHANGED vars
    <2>1. UNCHANGED <<files, head, index, up, pc, target, next, doomed, seen, after, acked>>
      BY <1>6 DEF vars
    <2>2. StoredHead' = StoredHead
      BY <2>1 DEF StoredHead, ContiguousEvent
    <2>3. WholeHolds'
      BY <1>2, <2>1, <2>2 DEF QuietHolds, WholeHolds, Intact, OneRun, Served, MidTruncate
    <2>4. IndexHolds'
      BY <1>2, <2>1, <2>2 DEF QuietHolds, IndexHolds
    <2>5. ASSUME NEW w \in Writers
          PROVE  HolderHolds(w)'
      <3>1. HolderHolds(w)
        BY <1>2 DEF QuietHolds
      <3>2. TruncationHolds(w)' /\ CheckHolds(w)'
        BY <2>1, <3>1 DEF HolderHolds, TruncationHolds, CheckHolds
      <3>3. WriteHolds(w)' /\ HeadHolds(w)' /\ PublishHolds(w)'
        BY <2>1, <3>1 DEF HolderHolds, WriteHolds, HeadHolds, PublishHolds, MidTruncate
      <3>4. NoteHolds(w)'
        BY <2>1, <2>2, <3>1 DEF HolderHolds, NoteHolds, Served
      <3> QED
        BY <3>2, <3>3, <3>4 DEF HolderHolds
    <2> QED
      BY <2>3, <2>4, <2>5 DEF QuietHolds
  <1> QED
    BY <1>3, <1>4, <1>5, <1>6 DEF Next

\* What the invariant says of the properties.
LEMMA DurableMeans ==
    ASSUME DurableInv
    PROVE  /\ TypeOK /\ ServedChainIsWhole /\ AcknowledgedIsServed
           /\ OneProcess => IndexIsTheDisk
  <1>1. TypeOK
    BY DEF DurableInv, OverwriteInv, ControlInv
  <1> SUFFICES ASSUME Settled
               PROVE  /\ Verifies /\ \A a \in acked : Prefix(a, Folded)
                      /\ OneProcess => IndexIsTheDisk
    BY <1>1 DEF ServedChainIsWhole, AcknowledgedIsServed, IndexIsTheDisk
  <1>2. QuietHolds /\ Intact /\ \A a \in acked : Served(a)
    BY DEF Settled, DurableInv, QuietHolds, WholeHolds
  <1>3. Readable /\ Folded = StoredHead
    BY <1>1, <1>2, IntactReads
  <1>4. \A a \in acked : a \in Chains
    BY <1>1 DEF TypeOK
  <1>5. \A a \in acked : Prefix(a, Folded)
    BY <1>1, <1>2, <1>4, ServedIsFolded
  <1>6. OneProcess => IndexIsTheDisk
    <2> SUFFICES ASSUME OneProcess, \A w \in Writers : pc[w] = "idle"
                 PROVE  \A p \in up \cap Indexed : index[p] = Folded
      BY DEF IndexIsTheDisk
    <2>1. (\A w \in Wallets : pc[w] \notin Noting) /\ (\A w \in Servers : pc[w] # "publish")
      BY DEF Writers, Noting
    <2> QED
      BY <1>2, <1>3, <2>1 DEF QuietHolds, IndexHolds
  <1> QED
    BY <1>3, <1>5, <1>6 DEF Verifies

\* Crash safety of the directory (LedgerStore::append): with any number of
\* processes, locks and crashes, the files are one chain that ends in the event
\* head.json names and everything answered Ok is part of it, outside the two
\* mishaps and a truncation under way; a home that truncates has one process.
THEOREM WholeTheorem == Contained => (Spec => [](ServedChainIsWhole /\ AcknowledgedIsServed))
  <1> SUFFICES ASSUME Contained
               PROVE  Spec => [](ServedChainIsWhole /\ AcknowledgedIsServed)
    OBVIOUS
  <1>1. Init => DurableInv
    BY InitQuiet
  <1>2. DurableInv /\ [Next]_vars => DurableInv'
    BY StepDurable
  <1>3. DurableInv => ServedChainIsWhole /\ AcknowledgedIsServed
    BY DurableMeans
  <1> QED
    BY <1>1, <1>2, <1>3, PTL DEF Spec

\* What an append promises, on a home with one process: the directory is one
\* whole chain, everything acknowledged is part of it, and the index that peers
\* are answered from says the same once no lock is held (note_ledger).
THEOREM DurableTheorem == OneProcess => (Spec => []AppendsAreDurable)
  <1> SUFFICES ASSUME OneProcess
               PROVE  Spec => []AppendsAreDurable
    OBVIOUS
  <1>0. Contained
    BY DEF Contained
  <1>1. Init => DurableInv
    BY InitQuiet
  <1>2. DurableInv /\ [Next]_vars => DurableInv'
    BY <1>0, StepDurable
  <1>3. DurableInv => AppendsAreDurable
    BY DurableMeans DEF AppendsAreDurable
  <1> QED
    BY <1>1, <1>2, <1>3, PTL DEF Spec
=============================================================================
