------------------------- MODULE ReplicationProofs --------------------------
(***************************************************************************)
(* Proofs about Replication, for every set of homes, every witness list,   *)
(* every bound on the chain and any number of lost requests: an append is  *)
(* informed, and replication through one witness implements AgreedLedger.  *)
(***************************************************************************)
EXTENDS Replication, SequenceFacts

-----------------------------------------------------------------------------
(* Chains.                                                                 *)

Events == Homes \cup {Genesis}

\* A chain, element by element: the genesis, then events the homes signed.
LEMMA ChainByElement ==
    ASSUME NEW c \in Seq(Events)
    PROVE  c \in Chains <=>
              /\ Len(c) \in 1..MaxLen /\ c[1] = Genesis
              /\ \A k \in 2..Len(c) : c[k] \in Homes
  <1>1. Chains = StartingWith(Genesis, Homes, MaxLen)
    BY DEF Chains, StartingWith
  <1>2. c \in Seq(Homes \cup {Genesis}) /\ MaxLen \in Nat \ {0}
    BY BoundsAssumption DEF Events
  <1> QED
    BY <1>1, <1>2, StartingByElement

\* Chains are sequences of events.
LEMMA ChainsAreSequences ==
    /\ Chains \subseteq Seq(Events) /\ <<Genesis>> \in Chains /\ <<>> \in Seq(Events)
    /\ <<>> \notin Chains
  <1>1. ASSUME NEW c \in Chains
        PROVE  c \in Seq(Events)
    <2>1. PICK n \in 0..(MaxLen - 1) : \E s \in [1..n -> Homes] : c = <<Genesis>> \o s
      BY <1>1 DEF Chains
    <2>2. PICK s \in [1..n -> Homes] : c = <<Genesis>> \o s
      BY <2>1
    <2>3. s \in Seq(Events) /\ <<Genesis>> \in Seq(Events)
      BY BoundsAssumption DEF Events
    <2> QED
      BY <2>2, <2>3
  <1>2. <<Genesis>> \in Seq(Events) /\ Len(<<Genesis>>) = 1 /\ <<Genesis>>[1] = Genesis
    BY DEF Events
  <1>3. <<Genesis>> \in Chains
    <2> DEFINE g == <<Genesis>>
    <2>1. g \in Seq(Events) /\ Len(g) = 1 /\ g[1] = Genesis
      BY <1>2
    <2> HIDE DEF g
    <2>2. Len(g) \in 1..MaxLen /\ \A k \in 2..Len(g) : g[k] \in Homes
      BY <2>1, BoundsAssumption
    <2>3. g \in Chains
      BY <2>1, <2>2, ChainByElement
    <2> QED
      BY <2>3 DEF g
  <1>4. <<>> \in Seq(Events) /\ Len(<<>>) = 0
    OBVIOUS
  <1>5. <<>> \notin Chains
    <2> DEFINE e == <<>>
    <2>1. e \in Seq(Events) /\ Len(e) = 0
      BY <1>4
    <2> HIDE DEF e
    <2>2. ~(Len(e) \in 1..MaxLen)
      BY <2>1, BoundsAssumption
    <2>3. e \notin Chains
      BY <2>1, <2>2, ChainByElement
    <2> QED
      BY <2>3 DEF e
  <1> QED
    BY <1>1, <1>3, <1>4, <1>5

\* Signing on a chain below the bound gives a chain.
LEMMA ChainGrows ==
    ASSUME NEW c \in Chains, NEW h \in Homes, Len(c) < MaxLen
    PROVE  Append(c, h) \in Chains
  <1> DEFINE d == Append(c, h)
  <1>1. c \in Seq(Events) /\ h \in Events
    BY ChainsAreSequences DEF Events
  <1>2. Len(c) \in 1..MaxLen /\ c[1] = Genesis /\ \A k \in 2..Len(c) : c[k] \in Homes
    BY <1>1, ChainByElement
  <1>3. /\ d \in Seq(Events) /\ Len(d) = Len(c) + 1 /\ d[Len(c) + 1] = h
        /\ \A k \in 1..Len(c) : d[k] = c[k]
    BY <1>1
  <1> HIDE DEF d
  <1>4. Len(d) \in 1..MaxLen /\ d[1] = Genesis /\ \A k \in 2..Len(d) : d[k] \in Homes
    BY <1>2, <1>3, BoundsAssumption
  <1>5. d \in Chains
    BY <1>3, <1>4, ChainByElement
  <1> QED
    BY <1>5 DEF d

\* A prefix of a chain is a chain, or nothing.
LEMMA PrefixOfChain ==
    ASSUME NEW c \in Chains \cup {<<>>}, NEW p \in Seq(Events), IsPrefix(p, c)
    PROVE  p \in Chains \cup {<<>>}
  <1>1. c \in Seq(Events)
    BY ChainsAreSequences
  <1>2. Len(p) <= Len(c) /\ \A k \in 1..Len(p) : p[k] = c[k]
    BY <1>1, PrefixByElement
  <1>3. CASE Len(p) = 0
    BY <1>3
  <1>4. CASE Len(p) # 0
    <2>1. c # <<>>
      BY <1>1, <1>2, <1>4
    <2>2. Len(c) \in 1..MaxLen /\ c[1] = Genesis /\ \A k \in 2..Len(c) : c[k] \in Homes
      BY <1>1, <2>1, ChainByElement
    <2>3. Len(p) \in 1..MaxLen /\ p[1] = Genesis /\ \A k \in 2..Len(p) : p[k] \in Homes
      BY <1>1, <1>2, <1>4, <2>2, BoundsAssumption
    <2> QED
      BY <2>3, ChainByElement
  <1> QED
    BY <1>3, <1>4

-----------------------------------------------------------------------------
(* Appends are informed.  A request under way names a witness that exists, *)
(* and the one whose chain is fetched holds something: without that the    *)
(* copy a home takes over need not be a chain.                             *)

RequestsNameAWitness ==
    \A h \in Homes :
        /\ pc[h] = "get" => asking[h] <= Len(Witnesses) /\ stored[Asked(h)] # <<>>
        /\ run[h] # <<>> => Len(Witnesses) > 0

InformedInv == TypeOK /\ RequestsNameAWitness /\ SignedOnWhatWasHeard /\ OnlyUnreachableIsBlamed

\* Where a request goes.
LEMMA RequestTargets ==
    ASSUME InformedInv, NEW h \in Homes
    PROVE  /\ Witnesses \in Seq(WitnessSet)
           /\ asking[h] <= Len(Witnesses) => Asked(h) \in WitnessSet
           /\ pc[h] = "get" => Asked(h) \in WitnessSet /\ stored[Asked(h)] \in Chains
           /\ run[h] # <<>> => /\ Target(h) \in WitnessSet /\ run[h] \in Chains
                               /\ pushAt[h] \in 1..Len(Witnesses)
           /\ local[h] \in Chains /\ local[h] \in Seq(Events)
           /\ \A w \in WitnessSet : stored[w] \in Seq(Events) /\ stored[w] \in Chains \cup {<<>>}
  <1>1. Witnesses \in Seq(WitnessSet)
    BY ListsAssumption DEF InformedInv, TypeOK, Witnesses, WitnessSet
  <1>2. asking[h] \in 1..(Len(Witnesses) + 1) /\ pushAt[h] \in {1} \cup 1..Len(Witnesses)
    BY DEF InformedInv, TypeOK
  <1>3. asking[h] <= Len(Witnesses) => Asked(h) \in WitnessSet
    BY <1>1, <1>2, ElementOfSeq DEF Asked
  <1>4. run[h] # <<>> => pushAt[h] \in 1..Len(Witnesses)
    BY <1>1, <1>2 DEF InformedInv, RequestsNameAWitness
  <1>5. run[h] # <<>> => Target(h) \in WitnessSet
    BY <1>1, <1>4, ElementOfSeq DEF Target
  <1>6. \A w \in WitnessSet : stored[w] \in Seq(Events) /\ stored[w] \in Chains \cup {<<>>}
    BY ChainsAreSequences DEF InformedInv, TypeOK
  <1>7. local[h] \in Chains /\ local[h] \in Seq(Events)
    BY ChainsAreSequences DEF InformedInv, TypeOK
  <1>8. pc[h] = "get" => Asked(h) \in WitnessSet /\ stored[Asked(h)] \in Chains
    BY <1>3, <1>6 DEF InformedInv, RequestsNameAWitness
  <1> QED
    BY <1>1, <1>3, <1>4, <1>5, <1>6, <1>7, <1>8 DEF InformedInv, TypeOK

\* A home that holds what every witness holds has asked nobody anything yet.
LEMMA InitInformed == Init => InformedInv
  <1> SUFFICES ASSUME Init PROVE InformedInv
    OBVIOUS
  <1>1. <<Genesis>> \in Chains
    BY ChainsAreSequences
  <1>2. Len(Witnesses) \in Nat
    BY ListsAssumption DEF Init, Witnesses
  <1>3. TypeOK
    BY <1>1, <1>2, BoundsAssumption DEF Init, TypeOK, NoHint, EvictAfter
  <1> QED
    BY <1>3 DEF Init, InformedInv, RequestsNameAWitness, SignedOnWhatWasHeard,
                OnlyUnreachableIsBlamed, NoHint

\* What the discipline does to a home's own copy.
LEMMA LocalSteps ==
    ASSUME InformedInv, NEW h \in Homes, BeginAppend(h) \/ Ask(h) \/ Unreachable(h)
                                          \/ \E w \in WitnessSet, served \in Chains : Fetch(h, w, served)
    PROVE  TypeOK' /\ RequestsNameAWitness'
  <1>0. /\ Witnesses \in Seq(WitnessSet) /\ Len(Witnesses) \in Nat
        /\ asking[h] <= Len(Witnesses) => Asked(h) \in WitnessSet
        /\ pc[h] = "get" => Asked(h) \in WitnessSet /\ stored[Asked(h)] \in Chains
        /\ local[h] \in Chains /\ local[h] \in Seq(Events)
        /\ \A w \in WitnessSet : stored[w] \in Seq(Events) /\ stored[w] \in Chains \cup {<<>>}
        /\ asking[h] \in 1..(Len(Witnesses) + 1)
    BY RequestTargets DEF InformedInv, TypeOK
  <1>1. CASE BeginAppend(h)
    BY <1>0, <1>1 DEF BeginAppend, Goto, InformedInv, TypeOK, RequestsNameAWitness, Witnesses,
                      WitnessSet, Asked
  <1>2. CASE AskHead(h)
    <2>1. CASE IsPrefix(stored[Asked(h)], local[h])
      <3>1. stored[Asked(h)] \in Chains \cup {<<>>}
        BY <1>0, <1>2 DEF AskHead
      <3>a. /\ asking' = [asking EXCEPT ![h] = @ + 1] /\ asking[h] <= Len(Witnesses)
            /\ heard' = [heard EXCEPT ![h] = @ \cup {stored[Asked(h)]}]
            /\ pc[h] = "head"
            /\ UNCHANGED <<pc, local, stored, run, pushAt, failures, silent, hint, witnesses,
                          oversized>>
        BY <1>2, <2>1 DEF AskHead, AskNext
      <3>2. asking' \in [Homes -> 1..(Len(Witnesses) + 1)]
        BY <1>0, <3>a DEF InformedInv, TypeOK
      <3>3. heard' \in [Homes -> SUBSET (Chains \cup {<<>>})]
        BY <3>1, <3>a DEF InformedInv, TypeOK
      <3>4. TypeOK'
        BY <3>2, <3>3, <3>a DEF InformedInv, TypeOK, Witnesses, WitnessSet
      <3>5. RequestsNameAWitness'
        BY <3>a DEF InformedInv, TypeOK, RequestsNameAWitness, Witnesses, Asked
      <3> QED
        BY <3>4, <3>5
    <2>2. CASE ~IsPrefix(stored[Asked(h)], local[h])
      <3>1. stored[Asked(h)] # <<>>
        BY <1>0, <2>2, EmptyPrefix
      <3> QED
        BY <1>0, <1>2, <2>2, <3>1 DEF AskHead, Goto, InformedInv, TypeOK, RequestsNameAWitness,
                                      Witnesses, WitnessSet, Asked
    <2> QED
      BY <2>1, <2>2
  <1>3. CASE FastForward(h)
    <2>1. asking[h] <= Len(Witnesses)
      BY <1>3 DEF FastForward, InformedInv, RequestsNameAWitness
    <2>2. asking' \in [Homes -> 1..(Len(Witnesses) + 1)]
      BY <1>0, <1>3, <2>1 DEF FastForward, AskNext, InformedInv, TypeOK
    <2>3. heard' \in [Homes -> SUBSET (Chains \cup {<<>>})] /\ local' \in [Homes -> Chains]
      BY <1>0, <1>3 DEF FastForward, InformedInv, TypeOK
    <2>4. pc' \in [Homes -> {"idle", "head", "get", "stale"}]
      BY <1>3 DEF FastForward, Goto, InformedInv, TypeOK
    <2>5. TypeOK'
      BY <1>3, <2>2, <2>3, <2>4 DEF FastForward, InformedInv, TypeOK, Witnesses, WitnessSet
    <2>6. RequestsNameAWitness'
      BY <1>3 DEF FastForward, AskNext, Goto, InformedInv, TypeOK, RequestsNameAWitness,
                  Witnesses, Asked
    <2> QED
      BY <2>5, <2>6
  <1>4. CASE TakeTheirs(h)
    <2>1. asking' \in [Homes -> 1..(Len(Witnesses) + 1)]
      BY <1>0, <1>4 DEF TakeTheirs, Finish, InformedInv, TypeOK
    <2>2. heard' \in [Homes -> SUBSET (Chains \cup {<<>>})] /\ local' \in [Homes -> Chains]
      BY <1>0, <1>4 DEF TakeTheirs, Finish, InformedInv, TypeOK
    <2>3. pc' \in [Homes -> {"idle", "head", "get", "stale"}]
      BY <1>4 DEF TakeTheirs, Finish, Goto, InformedInv, TypeOK
    <2>4. TypeOK'
      BY <1>4, <2>1, <2>2, <2>3 DEF TakeTheirs, InformedInv, TypeOK, Witnesses, WitnessSet
    <2>5. RequestsNameAWitness'
      BY <1>4 DEF TakeTheirs, Finish, Goto, InformedInv, TypeOK, RequestsNameAWitness,
                  Witnesses, Asked
    <2> QED
      BY <2>4, <2>5
  <1>5. CASE Sign(h)
    <2>1. Append(local[h], h) \in Chains
      BY <1>0, <1>5, ChainGrows DEF Sign
    <2> QED
      BY <1>0, <1>5, <2>1 DEF Sign, Finish, Goto, InformedInv, TypeOK, RequestsNameAWitness,
                              Witnesses, WitnessSet, Asked
  <1>6. CASE Unreachable(h)
    <2>1. Asked(h) \in WitnessSet
      BY <1>0, <1>6 DEF Unreachable
    <2>2. asking' \in [Homes -> 1..(Len(Witnesses) + 1)]
      BY <1>0, <1>6 DEF Unreachable, Finish, InformedInv, TypeOK
    <2>3. heard' \in [Homes -> SUBSET (Chains \cup {<<>>})]
      BY <1>6 DEF Unreachable, Finish, InformedInv, TypeOK
    <2>4. pc' \in [Homes -> {"idle", "head", "get", "stale"}]
      BY <1>6 DEF Unreachable, Finish, Goto, InformedInv, TypeOK
    <2>5. failures' \in 0..MaxFailures /\ silent' \in [Homes -> SUBSET WitnessSet]
      BY <1>6, <2>1, BoundsAssumption DEF Unreachable, Fail, InformedInv, TypeOK
    <2>6. TypeOK'
      BY <1>6, <2>2, <2>3, <2>4, <2>5
         DEF Unreachable, InformedInv, TypeOK, Witnesses, WitnessSet
    <2>7. RequestsNameAWitness'
      BY <1>6 DEF Unreachable, Finish, Goto, InformedInv, TypeOK, RequestsNameAWitness,
                  Witnesses, Asked
    <2> QED
      BY <2>6, <2>7
  <1>7. ASSUME NEW w \in WitnessSet, NEW served \in Chains, Fetch(h, w, served)
        PROVE  TypeOK' /\ RequestsNameAWitness'
    BY <1>0, <1>7 DEF Fetch, InformedInv, TypeOK, RequestsNameAWitness, Witnesses, WitnessSet, Asked
  <1> QED
    BY <1>1, <1>2, <1>3, <1>4, <1>5, <1>6, <1>7 DEF Ask

\* What any answer to a push does: the witness keeps its chain or has it
\* extended, the hint of that witness alone moves, and the push goes on.
LEMMA PushFacts ==
    ASSUME NEW h \in Homes, PushOne(h) \/ PushLost(h)
    PROVE  /\ run[h] # <<>> /\ PushOn(h) /\ UNCHANGED <<local, pc, asking, heard, witnesses>>
           /\ \/ stored' = stored
              \/ /\ IsPrefix(stored[Target(h)], run[h])
                 /\ stored' = [stored EXCEPT ![Target(h)] = run[h]]
           /\ \/ Clear(h, Target(h)) /\ UNCHANGED <<failures, silent, oversized>>
              \/ UNCHANGED <<hint, failures, silent, oversized>>
              \/ /\ Blame(h, Target(h)) /\ oversized' = oversized \cup {h}
                 /\ UNCHANGED <<failures, silent>>
              \/ Blame(h, Target(h)) /\ Fail(h, Target(h)) /\ UNCHANGED oversized
  <1>1. CASE PushAccepted(h)
    BY <1>1 DEF PushAccepted, appendVars
  <1>2. CASE PushRejected(h)
    BY <1>2 DEF PushRejected, appendVars
  <1>3. CASE PushTooLarge(h)
    BY <1>3 DEF PushTooLarge, appendVars
  <1>4. CASE PushLost(h)
    BY <1>4 DEF PushLost, appendVars
  <1> QED
    BY <1>1, <1>2, <1>3, <1>4 DEF PushOne

\* A witness's chain is only ever extended, never emptied.
LEMMA PushExtends ==
    ASSUME InformedInv, NEW h \in Homes, PushOne(h) \/ PushLost(h), NEW w \in WitnessSet
    PROVE  /\ stored'[w] \in Chains \cup {<<>>}
           /\ IsPrefix(stored[w], stored'[w])
           /\ stored[w] # <<>> => stored'[w] # <<>>
  <1>1. /\ Target(h) \in WitnessSet /\ run[h] \in Chains /\ run[h] # <<>>
        /\ stored[w] \in Seq(Events) /\ stored[w] \in Chains \cup {<<>>}
    BY PushFacts, RequestTargets
  <1>2. CASE stored' = stored
    BY <1>1, <1>2, PrefixOfItself
  <1>3. CASE /\ IsPrefix(stored[Target(h)], run[h])
             /\ stored' = [stored EXCEPT ![Target(h)] = run[h]]
    <2>1. CASE w = Target(h)
      BY <1>1, <1>3, <2>1 DEF InformedInv, TypeOK
    <2>2. CASE w # Target(h)
      BY <1>1, <1>3, <2>2, PrefixOfItself DEF InformedInv, TypeOK
    <2> QED
      BY <2>1, <2>2
  <1> QED
    BY <1>2, <1>3, PushFacts

\* A push goes on within the list, or is over.
LEMMA PushOnType ==
    ASSUME InformedInv, NEW h \in Homes, run[h] # <<>>, PushOn(h)
    PROVE  /\ run' \in [Homes -> Chains \cup {<<>>}]
           /\ pushAt' \in [Homes -> {1} \cup 1..Len(Witnesses)]
           /\ \A g \in Homes : run'[g] # <<>> => run[g] # <<>>
  <1>1. Witnesses \in Seq(WitnessSet) /\ Len(Witnesses) \in Nat /\ pushAt[h] \in 1..Len(Witnesses)
    BY RequestTargets
  <1>2. CASE pushAt[h] < Len(Witnesses)
    <2>1. pushAt' = [pushAt EXCEPT ![h] = @ + 1] /\ run' = run
      BY <1>2 DEF PushOn
    <2> QED
      BY <1>1, <1>2, <2>1 DEF InformedInv, TypeOK
  <1>3. CASE ~(pushAt[h] < Len(Witnesses))
    <2>1. pushAt' = [pushAt EXCEPT ![h] = 1] /\ run' = [run EXCEPT ![h] = <<>>]
      BY <1>3 DEF PushOn
    <2> QED
      BY <1>1, <2>1 DEF InformedInv, TypeOK
  <1> QED
    BY <1>2, <1>3

\* The hint of one endpoint moves within its bounds.
LEMMA HintType ==
    ASSUME InformedInv, NEW h \in Homes, NEW w \in WitnessSet, Blame(h, w) \/ Clear(h, w)
    PROVE  /\ hint' \in [Homes -> [WitnessSet -> NoHint..(EvictAfter - 1)]]
           /\ \A g \in Homes, v \in WitnessSet : g # h \/ v # w => hint'[g][v] = hint[g][v]
           /\ Clear(h, w) => hint'[h][w] = 0
  <1> DEFINE new == IF Clear(h, w) THEN 0
                    ELSE IF hint[h][w] = NoHint \/ hint[h][w] + 1 = EvictAfter THEN NoHint
                         ELSE hint[h][w] + 1
             row == [hint[h] EXCEPT ![w] = new]
  <1>1. hint \in [Homes -> [WitnessSet -> NoHint..(EvictAfter - 1)]]
    BY DEF InformedInv, TypeOK
  <1>2. hint[h] \in [WitnessSet -> NoHint..(EvictAfter - 1)] /\ hint[h][w] \in NoHint..(EvictAfter - 1)
    BY <1>1
  <1>3. new \in NoHint..(EvictAfter - 1)
    BY <1>2 DEF NoHint, EvictAfter
  <1>4. hint' = [hint EXCEPT ![h] = row]
    <2>1. CASE Clear(h, w)
      BY <2>1 DEF Clear
    <2>2. CASE ~Clear(h, w)
      BY <2>2 DEF Blame
    <2> QED
      BY <2>1, <2>2
  <1>5. Clear(h, w) => new = 0
    OBVIOUS
  <1> HIDE DEF new
  <1>6. row \in [WitnessSet -> NoHint..(EvictAfter - 1)] /\ row[w] = new
        /\ \A v \in WitnessSet : v # w => row[v] = hint[h][v]
    BY <1>2, <1>3
  <1> HIDE DEF row
  <1> QED
    BY <1>1, <1>4, <1>5, <1>6

\* A batch that arrives and one whose answer is lost keep the types (sync.rs, push).
LEMMA PushSteps ==
    ASSUME InformedInv, NEW h \in Homes, PushOne(h) \/ PushLost(h)
    PROVE  TypeOK' /\ RequestsNameAWitness'
  <1>1. /\ run[h] # <<>> /\ PushOn(h) /\ UNCHANGED <<local, pc, asking, heard, witnesses>>
        /\ Target(h) \in WitnessSet
    BY PushFacts, RequestTargets
  <1>2. /\ run' \in [Homes -> Chains \cup {<<>>}]
        /\ pushAt' \in [Homes -> {1} \cup 1..Len(Witnesses)]
        /\ \A g \in Homes : run'[g] # <<>> => run[g] # <<>>
    BY <1>1, PushOnType
  <1>3. stored' \in [WitnessSet -> Chains \cup {<<>>}]
    <2>1. stored' = stored \/ stored' = [stored EXCEPT ![Target(h)] = run[h]]
      BY PushFacts
    <2> QED
      BY <1>1, <2>1, RequestTargets DEF InformedInv, TypeOK
  <1>4. hint' \in [Homes -> [WitnessSet -> NoHint..(EvictAfter - 1)]]
    <2>1. CASE hint' = hint
      BY <2>1 DEF InformedInv, TypeOK
    <2>2. CASE Blame(h, Target(h)) \/ Clear(h, Target(h))
      BY <1>1, <2>2, HintType
    <2> QED
      BY <2>1, <2>2, PushFacts
  <1>5. /\ failures' \in 0..MaxFailures /\ silent' \in [Homes -> SUBSET WitnessSet]
        /\ oversized' \subseteq Homes
    <2>1. CASE UNCHANGED <<failures, silent>>
      BY <2>1, PushFacts DEF InformedInv, TypeOK
    <2>2. CASE Fail(h, Target(h)) /\ UNCHANGED oversized
      BY <1>1, <2>2, BoundsAssumption DEF Fail, InformedInv, TypeOK
    <2> QED
      BY <2>1, <2>2, PushFacts
  <1>6. TypeOK'
    BY <1>1, <1>2, <1>3, <1>4, <1>5 DEF InformedInv, TypeOK, Witnesses, WitnessSet
  <1>7. RequestsNameAWitness'
    <2> SUFFICES ASSUME NEW g \in Homes
                 PROVE  /\ pc'[g] = "get" => /\ asking'[g] <= Len(Witnesses')
                                             /\ stored'[Asked(g)'] # <<>>
                        /\ run'[g] # <<>> => Len(Witnesses') > 0
      BY DEF RequestsNameAWitness
    <2>1. Asked(g)' = Asked(g) /\ Witnesses' = Witnesses
      BY <1>1 DEF Asked, Witnesses
    <2>2. pc[g] = "get" => Asked(g) \in WitnessSet
      BY RequestTargets
    <2> QED
      BY <1>1, <1>2, <2>1, <2>2, PushExtends DEF InformedInv, RequestsNameAWitness
  <1> QED
    BY <1>6, <1>7

\* Only a fast-forward, a fetch and the append itself extend a copy while what
\* was heard is remembered, and each extends it; replacing it forgets.
LEMMA HeardStep ==
    ASSUME InformedInv, [Next]_vars
    PROVE  SignedOnWhatWasHeard'
  <1>0. \A h \in Homes : heard[h] \subseteq Seq(Events)
    BY ChainsAreSequences DEF InformedInv, TypeOK
  <1>1. ASSUME UNCHANGED <<local, heard>>
        PROVE  SignedOnWhatWasHeard'
    BY <1>1 DEF InformedInv, SignedOnWhatWasHeard
  <1>2. ASSUME NEW h \in Homes, heard' = [heard EXCEPT ![h] = {}],
               local' = local \/ \E c : local' = [local EXCEPT ![h] = c]
        PROVE  SignedOnWhatWasHeard'
    BY <1>2 DEF InformedInv, TypeOK, SignedOnWhatWasHeard
  <1>3. ASSUME NEW h \in Homes, NEW c \in Seq(Events), IsPrefix(local[h], c),
               local' = [local EXCEPT ![h] = c],
               heard' = heard \/ heard' = [heard EXCEPT ![h] = @ \cup {c}]
        PROVE  SignedOnWhatWasHeard'
    <2> SUFFICES ASSUME NEW g \in Homes, NEW d \in heard'[g]
                 PROVE  IsPrefix(d, local'[g])
      BY DEF SignedOnWhatWasHeard
    <2>1. CASE g # h
      BY <1>3, <2>1 DEF InformedInv, TypeOK, SignedOnWhatWasHeard
    <2>2. CASE g = h
      <3>1. local'[g] = c /\ (d \in heard[g] \/ d = c)
        BY <1>3, <2>2 DEF InformedInv, TypeOK
      <3>2. CASE d = c
        BY <3>1, <3>2, PrefixOfItself
      <3>3. CASE d \in heard[g]
        <4>1. IsPrefix(d, local[h]) /\ d \in Seq(Events)
          BY <1>0, <2>2, <3>3 DEF InformedInv, SignedOnWhatWasHeard
        <4>2. local[h] \in Seq(Events)
          BY RequestTargets
        <4> QED
          BY <1>3, <3>1, <4>1, <4>2, PrefixTransitive
      <3> QED
        BY <3>1, <3>2, <3>3
    <2> QED
      BY <2>1, <2>2
  <1>4. CASE UNCHANGED vars
    BY <1>1, <1>4 DEF vars
  <1>5. ASSUME NEW h \in Homes, BeginAppend(h) \/ BeginPush(h) \/ PushOne(h) \/ PushLost(h)
        PROVE  SignedOnWhatWasHeard'
    <2>1. UNCHANGED <<local, heard>>
      BY <1>5, PushFacts DEF BeginAppend, BeginPush
    <2> QED
      BY <1>1, <2>1
  <1>6. ASSUME NEW h \in Homes, AskHead(h)
        PROVE  SignedOnWhatWasHeard'
    <2>1. CASE IsPrefix(stored[Asked(h)], local[h])
      <3>1. heard' = [heard EXCEPT ![h] = @ \cup {stored[Asked(h)]}] /\ local' = local
        BY <1>6, <2>1 DEF AskHead
      <3> QED
        BY <2>1, <3>1 DEF InformedInv, TypeOK, SignedOnWhatWasHeard
    <2>2. CASE ~IsPrefix(stored[Asked(h)], local[h])
      <3>1. UNCHANGED <<local, heard>>
        BY <1>6, <2>2 DEF AskHead
      <3> QED
        BY <1>1, <3>1
    <2> QED
      BY <2>1, <2>2
  <1>7. ASSUME NEW h \in Homes, FastForward(h)
        PROVE  SignedOnWhatWasHeard'
    <2>1. stored[Asked(h)] \in Seq(Events)
      BY <1>7, RequestTargets DEF FastForward
    <2> QED
      BY <1>3, <1>7, <2>1 DEF FastForward
  <1>8. ASSUME NEW h \in Homes, TakeTheirs(h) \/ Sign(h) \/ Unreachable(h)
        PROVE  SignedOnWhatWasHeard'
    BY <1>2, <1>8 DEF TakeTheirs, Sign, Unreachable, Finish
  <1>9. ASSUME NEW h \in Homes, NEW w \in WitnessSet, NEW served \in Chains, Fetch(h, w, served)
        PROVE  SignedOnWhatWasHeard'
    <2>1. served \in Seq(Events)
      BY ChainsAreSequences
    <2> QED
      BY <1>3, <1>9, <2>1 DEF Fetch, IsStrictPrefix
  <1> QED
    BY <1>4, <1>5, <1>6, <1>7, <1>8, <1>9 DEF Next, Ask

\* A count only rises on a request that went unanswered, or in a home whose run
\* the client itself refused.
LEMMA BlameStep ==
    ASSUME InformedInv, [Next]_vars
    PROVE  OnlyUnreachableIsBlamed'
  <1>1. ASSUME hint' = hint, witnesses' = witnesses, oversized' = oversized,
               \A h \in Homes : silent[h] \subseteq silent'[h]
        PROVE  OnlyUnreachableIsBlamed'
    BY <1>1 DEF InformedInv, OnlyUnreachableIsBlamed, WitnessSet, Witnesses
  <1>2. CASE UNCHANGED vars
    BY <1>1, <1>2 DEF vars
  <1>3. ASSUME NEW h \in Homes,
               BeginAppend(h) \/ Ask(h) \/ BeginPush(h)
                   \/ \E w \in WitnessSet, served \in Chains : Fetch(h, w, served)
        PROVE  OnlyUnreachableIsBlamed'
    <2>1. UNCHANGED <<hint, witnesses, oversized, silent>>
      BY <1>3 DEF BeginAppend, Ask, AskHead, FastForward, TakeTheirs, Sign, BeginPush, Fetch
    <2> QED
      BY <1>1, <2>1
  <1>4. ASSUME NEW h \in Homes, Unreachable(h)
        PROVE  OnlyUnreachableIsBlamed'
    <2>1. UNCHANGED <<hint, witnesses, oversized>> /\ silent' = [silent EXCEPT ![h] = @ \cup {Asked(h)}]
      BY <1>4 DEF Unreachable, Fail
    <2>2. \A g \in Homes : silent[g] \subseteq silent'[g]
      BY <2>1 DEF InformedInv, TypeOK
    <2> QED
      BY <1>1, <2>1, <2>2
  <1>5. ASSUME NEW h \in Homes, PushOne(h) \/ PushLost(h)
        PROVE  OnlyUnreachableIsBlamed'
    <2> DEFINE w == Target(h)
    <2>1. w \in WitnessSet /\ witnesses' = witnesses /\ WitnessSet' = WitnessSet
      BY <1>5, PushFacts, RequestTargets DEF WitnessSet, Witnesses
    <2>2. CASE UNCHANGED <<hint, failures, silent, oversized>>
      BY <1>1, <2>1, <2>2
    <2>3. CASE Clear(h, w) /\ UNCHANGED <<failures, silent, oversized>>
      <3>1. /\ hint'[h][w] = 0
            /\ \A g \in Homes, v \in WitnessSet : g # h \/ v # w => hint'[g][v] = hint[g][v]
        BY <2>1, <2>3, HintType
      <3> QED
        BY <2>1, <2>3, <3>1 DEF InformedInv, OnlyUnreachableIsBlamed
    <2>4. CASE Blame(h, w) /\ oversized' = oversized \cup {h} /\ UNCHANGED <<failures, silent>>
      <3>1. \A g \in Homes, v \in WitnessSet : g # h \/ v # w => hint'[g][v] = hint[g][v]
        BY <2>1, <2>4, HintType
      <3> QED
        BY <2>1, <2>4, <3>1 DEF InformedInv, OnlyUnreachableIsBlamed
    <2>5. CASE Blame(h, w) /\ Fail(h, w) /\ UNCHANGED oversized
      <3>1. \A g \in Homes, v \in WitnessSet : g # h \/ v # w => hint'[g][v] = hint[g][v]
        BY <2>1, <2>5, HintType
      <3>2. w \in silent'[h] /\ \A g \in Homes : silent[g] \subseteq silent'[g]
        BY <2>5 DEF Fail, InformedInv, TypeOK
      <3> QED
        BY <2>1, <2>5, <3>1, <3>2 DEF InformedInv, OnlyUnreachableIsBlamed
    <2> QED
      BY <1>5, <2>2, <2>3, <2>4, <2>5, PushFacts
  <1> QED
    BY <1>2, <1>3, <1>4, <1>5 DEF Next

\* Every step of a home, a witness or the network keeps the invariant.
LEMMA StepInformed ==
    ASSUME InformedInv, [Next]_vars
    PROVE  InformedInv'
  <1>1. CASE UNCHANGED vars
    <2>1. TypeOK'
      BY <1>1 DEF vars, InformedInv, TypeOK, Witnesses, WitnessSet
    <2>2. RequestsNameAWitness'
      BY <1>1 DEF vars, InformedInv, RequestsNameAWitness, Witnesses, Asked
    <2> QED
      BY <2>1, <2>2, HeardStep, BlameStep DEF InformedInv
  <1>2. ASSUME NEW h \in Homes, BeginPush(h)
        PROVE  TypeOK' /\ RequestsNameAWitness'
    <2>1. run' = [run EXCEPT ![h] = local[h]] /\ local[h] \in Chains
      BY <1>2, RequestTargets DEF BeginPush
    <2>2. Len(Witnesses) > 0
      <3>1. Witnesses \in Seq(WitnessSet) /\ Witnesses # <<>>
        BY <1>2, RequestTargets DEF BeginPush
      <3> QED
        BY <3>1, EmptySeq
    <2>3. TypeOK'
      BY <1>2, <2>1 DEF BeginPush, InformedInv, TypeOK, Witnesses, WitnessSet
    <2>4. RequestsNameAWitness'
      BY <1>2, <2>1, <2>2 DEF BeginPush, InformedInv, TypeOK, RequestsNameAWitness, Witnesses, Asked
    <2> QED
      BY <2>3, <2>4
  <1>3. CASE Next
    BY <1>2, <1>3, LocalSteps, PushSteps, HeardStep, BlameStep DEF Next, InformedInv
  <1> QED
    BY <1>1, <1>3

\* Whatever the homes race for and whichever requests are lost, a home signs on
\* a head that extends what every witness it asked held when it was asked, and
\* counts failures only against endpoints that were silent (ensure_fresh_locked,
\* record_hints).
THEOREM InformedTheorem == Spec => []AppendsAreInformed
  <1>1. InformedInv => AppendsAreInformed
    BY DEF InformedInv, AppendsAreInformed
  <1> QED
    BY <1>1, InitInformed, StepInformed, PTL DEF Spec

-----------------------------------------------------------------------------
(* Replication implements AgreedLedger.  The log is what the first witness *)
(* holds, and a home's view of it is what the home shares with it; with a  *)
(* single witness the step that replaces a copy replaces it by that log.   *)

RefinementInv == InformedInv /\ Len(Witnesses) > 0

\* What one step does to the copies: a witness's chain is extended, and a
\* home's copy is extended or becomes the chain of the witness it asked.
LEMMA CopiesStep ==
    ASSUME InformedInv, Next
    PROVE  /\ witnesses' = witnesses
           /\ \A w \in WitnessSet : IsPrefix(stored[w], stored'[w])
           /\ \A g \in Homes :
                 \/ IsPrefix(local[g], local'[g])
                 \/ /\ asking[g] <= Len(Witnesses) /\ stored' = stored
                    /\ local'[g] = stored[Asked(g)]
  <1>0. /\ \A w \in WitnessSet : IsPrefix(stored[w], stored[w])
        /\ \A g \in Homes : IsPrefix(local[g], local[g])
    <2>1. /\ \A w \in WitnessSet : stored[w] \in Seq(Events)
          /\ \A g \in Homes : local[g] \in Seq(Events)
      BY ChainsAreSequences DEF InformedInv, TypeOK
    <2> QED
      BY <2>1, PrefixOfItself
  <1>1. PICK h \in Homes :
            \/ BeginAppend(h) \/ Ask(h) \/ Unreachable(h)
            \/ \E w \in WitnessSet, served \in Chains : Fetch(h, w, served)
            \/ BeginPush(h) \/ PushOne(h) \/ PushLost(h)
    BY DEF Next
  <1>2. CASE PushOne(h) \/ PushLost(h)
    <2>1. witnesses' = witnesses /\ local' = local
      BY <1>2, PushFacts
    <2> QED
      BY <1>0, <1>2, <2>1, PushExtends
  <1>3. CASE BeginAppend(h) \/ BeginPush(h) \/ AskHead(h) \/ Unreachable(h)
    <2>1. UNCHANGED <<witnesses, local, stored>>
      BY <1>3 DEF BeginAppend, BeginPush, AskHead, Unreachable
    <2> QED
      BY <1>0, <2>1
  <1>4. ASSUME NEW c, local' = [local EXCEPT ![h] = c], UNCHANGED <<witnesses, stored>>,
               IsPrefix(local[h], c) \/ (asking[h] <= Len(Witnesses) /\ c = stored[Asked(h)])
        PROVE  /\ witnesses' = witnesses
               /\ \A w \in WitnessSet : IsPrefix(stored[w], stored'[w])
               /\ \A g \in Homes :
                     \/ IsPrefix(local[g], local'[g])
                     \/ /\ asking[g] <= Len(Witnesses) /\ stored' = stored
                        /\ local'[g] = stored[Asked(g)]
    BY <1>0, <1>4 DEF InformedInv, TypeOK
  <1>5. CASE FastForward(h) \/ TakeTheirs(h)
    <2>1. asking[h] <= Len(Witnesses)
      BY <1>5 DEF FastForward, TakeTheirs, InformedInv, RequestsNameAWitness
    <2>2. local' = [local EXCEPT ![h] = stored[Asked(h)]] /\ UNCHANGED <<witnesses, stored>>
      BY <1>5 DEF FastForward, TakeTheirs
    <2> QED
      BY <1>4, <2>1, <2>2
  <1>6. CASE Sign(h)
    <2>1. local' = [local EXCEPT ![h] = Append(local[h], h)] /\ UNCHANGED <<witnesses, stored>>
      BY <1>6 DEF Sign
    <2>2. IsPrefix(local[h], Append(local[h], h))
      <3>1. local[h] \in Seq(Events) /\ h \in Events
        BY RequestTargets DEF Events
      <3> QED
        BY <3>1, PrefixOfAppend
    <2> QED
      BY <1>4, <2>1, <2>2
  <1>7. ASSUME NEW w \in WitnessSet, NEW served \in Chains, Fetch(h, w, served)
        PROVE  /\ IsPrefix(local[h], served) /\ UNCHANGED <<witnesses, stored>>
               /\ local' = [local EXCEPT ![h] = served]
    BY <1>7 DEF Fetch, IsStrictPrefix
  <1> QED
    BY <1>1, <1>2, <1>3, <1>4, <1>5, <1>6, <1>7 DEF Ask

\* What two copies share.
LEMMA Shared ==
    ASSUME NEW c \in Chains, NEW d \in Chains \cup {<<>>}
    PROVE  LET s == SharedPrefix(c, d) IN
           /\ s \in Seq(Events) /\ s \in Chains \cup {<<>>}
           /\ IsPrefix(s, c) /\ IsPrefix(s, d)
           /\ \A p \in Seq(Events) : IsPrefix(p, c) /\ IsPrefix(p, d) => IsPrefix(p, s)
  <1> DEFINE s == SharedPrefix(c, d)
  <1>1. c \in Seq(Events) /\ d \in Seq(Events)
    BY ChainsAreSequences
  <1>2. /\ s \in Seq(Events) /\ IsPrefix(s, c) /\ IsPrefix(s, d)
        /\ \A p \in Seq(Events) : IsPrefix(p, c) /\ IsPrefix(p, d) => IsPrefix(p, s)
    BY <1>1, LongestCommon DEF SharedPrefix
  <1> HIDE DEF s
  <1>3. s \in Chains \cup {<<>>}
    BY <1>2, PrefixOfChain
  <1> QED
    BY <1>2, <1>3 DEF s

\* The log of the refinement, and what a home has confirmed of it.
Log == stored[Witnesses[1]]
View == [h \in Agreeing |-> SharedPrefix(local[h], stored[Witnesses[1]])]

\* The first witness of the list is a witness, and its chain is one of the ledger or empty.
LEMMA LogFacts ==
    ASSUME RefinementInv
    PROVE  Witnesses[1] \in WitnessSet /\ Log \in Chains \cup {<<>>} /\ Log \in Seq(Events)
  <1>1. witnesses \in WitnessLists /\ Len(Witnesses) > 0
    BY DEF RefinementInv, InformedInv, TypeOK
  <1>2. Witnesses \in Seq(WitnessSet) /\ Len(Witnesses) \in Nat
    BY <1>1, ListsAssumption DEF Witnesses, WitnessSet
  <1>3. Witnesses[1] \in WitnessSet
    BY <1>1, <1>2, ElementOfSeq
  <1> QED
    BY <1>3, ChainsAreSequences DEF RefinementInv, InformedInv, TypeOK, Log

\* The initial states: the only witness holds nothing or the genesis, and every
\* home holds the genesis, so what they share is all the witness holds.
LEMMA InitRefines ==
    ASSUME Init, RefinementInv
    PROVE  Agreed!Init
  <1>1. Witnesses[1] \in WitnessSet /\ Log \in Chains \cup {<<>>} /\ Log \in Seq(Events)
    BY LogFacts
  <1>2. ASSUME NEW h \in Agreeing
        PROVE  SharedPrefix(local[h], Log) = Log
    <2>1. h \in Homes /\ InformedInv
      BY <1>2 DEF Agreeing, RefinementInv
    <2>2. local[h] = <<Genesis>> /\ Log \in {<<>>, <<Genesis>>}
      BY <1>1, <2>1 DEF Init, Log
    <2>3. IsPrefix(Log, local[h]) /\ IsPrefix(Log, Log)
      <3>1. <<Genesis>> \in Seq(Events)
        BY ChainsAreSequences
      <3> QED
        BY <1>1, <2>2, <3>1, EmptyPrefix, PrefixOfItself
    <2> DEFINE s == SharedPrefix(local[h], Log)
    <2>4. s \in Seq(Events) /\ IsPrefix(s, Log) /\ IsPrefix(Log, s)
      BY <1>1, <2>1, <2>3, Shared DEF InformedInv, TypeOK
    <2> HIDE DEF s
    <2>5. s = Log
      BY <1>1, <2>4, PrefixAntisymmetric
    <2> QED
      BY <2>5 DEF s
  <1>3. View = [h \in Agreeing |-> Log]
    BY <1>2 DEF View, Log
  <1> QED
    BY <1>1, <1>3 DEF Agreed!Init, Agreed!Viewers, Log, View

\* Every step extends the log and every view of it, or changes neither.
LEMMA StepRefines ==
    ASSUME RefinementInv, InformedInv', [Next]_vars
    PROVE  [Agreed!Next]_Agreed!vars
  <1>1. CASE UNCHANGED vars
    BY <1>1 DEF vars, Agreed!vars, Witnesses, Agreeing, SharedPrefix
  <1>2. CASE Next
    <2> DEFINE w == Witnesses[1]
    <2>0. /\ InformedInv /\ w \in WitnessSet /\ Log \in Seq(Events)
      BY LogFacts DEF RefinementInv
    <2>1. /\ witnesses' = witnesses
          /\ \A v \in WitnessSet : IsPrefix(stored[v], stored'[v])
          /\ \A g \in Homes :
                \/ IsPrefix(local[g], local'[g])
                \/ /\ asking[g] <= Len(Witnesses) /\ stored' = stored
                   /\ local'[g] = stored[Asked(g)]
      BY <1>2, <2>0, CopiesStep
    <2>2. Witnesses' = Witnesses /\ WitnessSet' = WitnessSet /\ Agreeing' = Agreeing
      BY <2>1 DEF Witnesses, WitnessSet, Agreeing
    <2>3. stored'[w] \in Chains \cup {<<>>}
      BY <2>0, <2>2 DEF InformedInv, TypeOK
    <2>4. Log' = stored'[w] /\ Log' \in Chains \cup {<<>>} /\ Log' \in Seq(Events)
      BY <2>2, <2>3, ChainsAreSequences DEF Log
    <2>5. IsPrefix(Log, Log')
      BY <2>0, <2>1, <2>4 DEF Log
    <2>6. ASSUME NEW h \in Agreeing
          PROVE  /\ View'[h] \in Chains \cup {<<>>}
                 /\ IsPrefix(View[h], View'[h]) /\ IsPrefix(View'[h], Log')
      <3>1. h \in Homes /\ Len(Witnesses) = 1
        BY <2>6 DEF Agreeing
      <3> DEFINE s == SharedPrefix(local[h], stored[w])
                 t == SharedPrefix(local'[h], stored'[w])
      <3>2. View[h] = s /\ View'[h] = t
        BY <2>2, <2>6 DEF View
      <3>a. /\ local[h] \in Chains /\ local'[h] \in Chains
            /\ stored[w] \in Chains \cup {<<>>} /\ stored'[w] \in Chains \cup {<<>>}
        BY <2>0, <2>3, <3>1 DEF InformedInv, TypeOK
      <3>3. s \in Seq(Events) /\ IsPrefix(s, local[h]) /\ IsPrefix(s, stored[w])
        BY <3>a, Shared
      <3>4. /\ t \in Seq(Events) /\ t \in Chains \cup {<<>>} /\ IsPrefix(t, stored'[w])
            /\ \A p \in Seq(Events) : IsPrefix(p, local'[h]) /\ IsPrefix(p, stored'[w]) => IsPrefix(p, t)
        BY <3>a, Shared
      <3>5. /\ local[h] \in Seq(Events) /\ local'[h] \in Seq(Events)
            /\ stored[w] \in Seq(Events) /\ stored'[w] \in Seq(Events)
        BY <3>a, ChainsAreSequences
      <3> HIDE DEF s, t
      <3>6. IsPrefix(s, stored'[w])
        BY <2>0, <2>1, <3>3, <3>5, PrefixTransitive
      <3>7. IsPrefix(s, local'[h])
        <4>1. CASE IsPrefix(local[h], local'[h])
          BY <3>3, <3>5, <4>1, PrefixTransitive
        <4>2. CASE asking[h] <= Len(Witnesses) /\ local'[h] = stored[Asked(h)]
          <5>1. asking[h] = 1
            BY <2>0, <3>1, <4>2 DEF InformedInv, TypeOK
          <5>2. local'[h] = stored[w]
            BY <4>2, <5>1 DEF Asked
          <5> QED
            BY <3>3, <5>2
        <4> QED
          BY <2>1, <3>1, <4>1, <4>2
      <3> QED
        BY <2>4, <3>2, <3>3, <3>4, <3>6, <3>7
    <2>7. View' \in [Agreeing -> Chains \cup {<<>>}] /\ DOMAIN View = Agreeing
      BY <2>2, <2>6 DEF View
    <2> HIDE DEF w
    <2>8. /\ View' \in [DOMAIN View -> Chains \cup {<<>>}]
          /\ \A h \in DOMAIN View : IsPrefix(View[h], View'[h]) /\ IsPrefix(View'[h], Log')
      BY <2>6, <2>7
    <2>9. PICK longer : longer = Log'
      OBVIOUS
    <2>10. Agreed!Agree(longer)
      <3>1. IsPrefix(stored[Witnesses[1]], longer)
        BY <2>5, <2>9 DEF Log
      <3>2. (stored[Witnesses[1]])' = longer
        BY <2>9 DEF Log
      <3>3. View' \in [Agreed!Viewers -> Chains \cup {<<>>}]
        BY <2>8 DEF Agreed!Viewers, View
      <3>4. \A h \in Agreed!Viewers : IsPrefix(View[h], View'[h]) /\ IsPrefix(View'[h], longer)
        BY <2>8, <2>9 DEF Agreed!Viewers, View
      <3> QED
        BY <3>1, <3>2, <3>3, <3>4 DEF Agreed!Agree, Agreed!IsPrefix, IsPrefix, View
    <2> QED
      BY <2>4, <2>9, <2>10 DEF Agreed!Next
  <1> QED
    BY <1>1, <1>2

\* With at least one witness, every behaviour of the homes and witnesses is a
\* behaviour of one agreed ledger: the first witness's chain only grows, and
\* when it is the only one, what a home shares with it is never taken back
\* (sync.rs: fresh, take_theirs, push).
THEOREM RefinementTheorem == Spec /\ Len(Witnesses) > 0 => Agrees
  <1>1. Init /\ Len(Witnesses) > 0 => RefinementInv
    BY InitInformed DEF RefinementInv
  <1>2. RefinementInv /\ [Next]_vars => RefinementInv'
    <2> SUFFICES ASSUME RefinementInv, [Next]_vars
                 PROVE  RefinementInv'
      OBVIOUS
    <2>1. InformedInv /\ InformedInv'
      BY StepInformed DEF RefinementInv
    <2>2. Witnesses' = Witnesses
      BY <2>1, CopiesStep DEF vars, Witnesses
    <2> QED
      BY <2>1, <2>2 DEF RefinementInv
  <1>3. RefinementInv /\ RefinementInv' /\ [Next]_vars => [Agreed!Next]_Agreed!vars
    BY StepRefines DEF RefinementInv
  <1>4. Init /\ RefinementInv => Agreed!Init
    BY InitRefines
  <1> QED
    BY <1>1, <1>2, <1>3, <1>4, PTL DEF Spec, Agrees, Agreed!Spec
=============================================================================
