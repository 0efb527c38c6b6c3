---------------------------- MODULE Replication -----------------------------
(***************************************************************************)
(* One ledger shared by several homes and kept by several witnesses: the   *)
(* append discipline and the push of crates/mabel-node/src/wallet/sync.rs, *)
(* as the routes of wallet/service.rs drive them.                          *)
(*                                                                         *)
(* A home appends under its append lock: it asks every witness, in order,  *)
(* where the ledger ends, fast-forwards to one that is ahead, takes the    *)
(* chain of one that diverges and reports stale_head, and signs only when  *)
(* every witness has been asked.  A push takes no lock: it sends the chain *)
(* it read when it began.  Each request is a step of its own, so witnesses *)
(* move between them, and any request may go unanswered.                   *)
(*                                                                         *)
(* Abstractions.  A chain is a sequence of events, an event names who      *)
(* signed it, and an event id commits to its whole prefix.  What a witness *)
(* does with a push is LedgerStorage's, for a ledger it has admitted.      *)
(***************************************************************************)
EXTENDS Integers, Sequences, FiniteSets, SequencesExt

CONSTANTS Homes,        \* the homes that hold a controller's key
          WitnessLists, \* what witnesses_of may give them, in order
          MaxLen,       \* bound: events in a chain
          MaxFailures,  \* bound: requests that go unanswered
          MaxPushEvents \* how many events one Push carries

ASSUME HomesAssumption == Homes # {}
ASSUME ListsAssumption == \A list \in WitnessLists : list \in Seq(Range(list))
ASSUME BoundsAssumption == MaxLen \in Nat \ {0} /\ {MaxFailures, MaxPushEvents} \subseteq Nat

VARIABLES witnesses, \* the endpoints of the ledger's witnesses, which never change
          local,     \* the chain each home holds
          stored,    \* the chain each witness holds, <<>> for none
          pc,        \* where the holder of each home's append lock is
          asking,    \* the position of the witness it asks
          heard,     \* history: the chains the witnesses it has asked so far held
          run,       \* the chain each home's push is sending, <<>> for no push
          pushAt,    \* the position of the witness it sends it to
          failures,  \* requests that went unanswered so far
          silent,    \* the witnesses that left a request of a home unanswered
          hint,      \* the failures peers.json counts against each witness
          oversized  \* history: the homes that pushed a run over the cap

vars == <<witnesses, local, stored, pc, asking, heard, run, pushAt, failures, silent, hint, oversized>>
appendVars == <<local, pc, asking, heard>>

Witnesses == witnesses
WitnessSet == Range(Witnesses)
Genesis == "genesis"
NoHint == -1
EvictAfter == 3   \* peers::MAX_FAILURES
Chains == {<<Genesis>> \o s : s \in UNION {[1..n -> Homes] : n \in 0..(MaxLen - 1)}}

\* The leading events two chains share: shared_prefix.
SharedPrefix(c, d) == LongestCommonPrefix({c, d})

Init ==
    /\ witnesses \in WitnessLists
    /\ local = [h \in Homes |-> <<Genesis>>]
    /\ stored \in [WitnessSet -> {<<>>, <<Genesis>>}]
    /\ pc = [h \in Homes |-> "idle"]
    /\ asking = [h \in Homes |-> 1]
    /\ heard = [h \in Homes |-> {}]
    /\ run = [h \in Homes |-> <<>>]
    /\ pushAt = [h \in Homes |-> 1]
    /\ failures = 0
    /\ silent = [h \in Homes |-> {}]
    /\ hint = [h \in Homes |-> [w \in WitnessSet |-> NoHint]]
    /\ oversized = {}

-----------------------------------------------------------------------------
(* The append discipline: fresh, ensure_fresh_locked, then the append.     *)

Asked(h) == Witnesses[asking[h]]
AskNext(h) == asking' = [asking EXCEPT ![h] = @ + 1]
Goto(h, label) == pc' = [pc EXCEPT ![h] = label]

\* The lock is dropped: signed, refused, or told to re-sign.
Finish(h, label) ==
    /\ Goto(h, label)
    /\ asking' = [asking EXCEPT ![h] = 1]
    /\ heard' = [heard EXCEPT ![h] = {}]

\* A route that appends takes the lock; retrying after stale_head is the same.
BeginAppend(h) ==
    /\ pc[h] \in {"idle", "stale"}
    /\ Len(local[h]) < MaxLen
    /\ Goto(h, "head")
    /\ UNCHANGED <<local, asking, heard, stored, run, pushAt, failures, silent, hint, witnesses, oversized>>

\* Head: a witness that holds nothing, or a prefix of what is local, is passed.
AskHead(h) ==
    /\ pc[h] = "head" /\ asking[h] <= Len(Witnesses)
    /\ IF IsPrefix(stored[Asked(h)], local[h])
       THEN /\ AskNext(h) /\ UNCHANGED pc
            /\ heard' = [heard EXCEPT ![h] = @ \cup {stored[Asked(h)]}]
       ELSE Goto(h, "get") /\ UNCHANGED <<asking, heard>>
    /\ UNCHANGED <<local, stored, run, pushAt, failures, silent, hint, witnesses, oversized>>

\* Get: fast-forward when the local copy is a prefix of the witness's.
FastForward(h) ==
    /\ pc[h] = "get"
    /\ IsPrefix(local[h], stored[Asked(h)])
    /\ local' = [local EXCEPT ![h] = stored[Asked(h)]]
    /\ heard' = [heard EXCEPT ![h] = @ \cup {stored[Asked(h)]}]
    /\ Goto(h, "head") /\ AskNext(h)
    /\ UNCHANGED <<stored, run, pushAt, failures, silent, hint, witnesses, oversized>>

\* Mutant: the append goes on after the local chain was replaced.
TakeTheirsAndGoOn(h) ==
    /\ pc[h] = "get"
    /\ ~IsPrefix(local[h], stored[Asked(h)])
    /\ local' = [local EXCEPT ![h] = stored[Asked(h)]]
    /\ Goto(h, "head") /\ AskNext(h)
    /\ UNCHANGED <<heard, stored, run, pushAt, failures, silent, hint, witnesses, oversized>>

\* Mutant: stale_head is reported and the local chain kept.
TakeNothing(h) ==
    /\ pc[h] = "get"
    /\ ~IsPrefix(local[h], stored[Asked(h)])
    /\ Finish(h, "stale")
    /\ UNCHANGED <<local, stored, run, pushAt, failures, silent, hint, witnesses, oversized>>

\* Get: otherwise what is local past the shared prefix is truncated, the rest
\* of the witness's chain stored, and stale_head reported.
TakeTheirs(h) ==
    /\ pc[h] = "get"
    /\ ~IsPrefix(local[h], stored[Asked(h)])
    /\ local' = [local EXCEPT ![h] = stored[Asked(h)]]
    /\ Finish(h, "stale")
    /\ UNCHANGED <<stored, run, pushAt, failures, silent, hint, witnesses, oversized>>

\* Every witness has been asked: sign on the head this left behind.
Sign(h) ==
    /\ pc[h] = "head" /\ asking[h] > Len(Witnesses)
    /\ Len(local[h]) < MaxLen
    /\ local' = [local EXCEPT ![h] = Append(@, h)]
    /\ Finish(h, "idle")
    /\ UNCHANGED <<stored, run, pushAt, failures, silent, hint, witnesses, oversized>>

Fail(h, w) ==
    /\ failures < MaxFailures
    /\ failures' = failures + 1
    /\ silent' = [silent EXCEPT ![h] = @ \cup {w}]

\* A witness that cannot be asked refuses the append: code 30.
Unreachable(h) ==
    /\ pc[h] = "get" \/ (pc[h] = "head" /\ asking[h] <= Len(Witnesses))
    /\ Fail(h, Asked(h))
    /\ Finish(h, "idle")
    /\ UNCHANGED <<local, stored, run, pushAt, hint, witnesses, oversized>>

\* sync fetch: what witness w served before the lock was taken, a prefix of
\* what it holds by now, is stored when it extends the local copy.
Fetch(h, w, served) ==
    /\ pc[h] \in {"idle", "stale"}
    /\ served \in Prefixes(stored[w])
    /\ IsStrictPrefix(local[h], served)
    /\ local' = [local EXCEPT ![h] = served]
    /\ UNCHANGED <<pc, asking, heard, stored, run, pushAt, failures, silent, hint, witnesses, oversized>>

-----------------------------------------------------------------------------
(* sync push: the whole chain, to each witness in order.                   *)

Target(h) == Witnesses[pushAt[h]]

BeginPush(h) ==
    /\ run[h] = <<>> /\ Witnesses # <<>>
    /\ run' = [run EXCEPT ![h] = local[h]]
    /\ UNCHANGED <<local, stored, pc, asking, heard, pushAt, failures, silent, hint, witnesses, oversized>>

\* Mutant: one witness past the last.
PushPastTheLast(h) ==
    IF pushAt[h] <= Len(Witnesses)
    THEN pushAt' = [pushAt EXCEPT ![h] = @ + 1] /\ UNCHANGED run
    ELSE pushAt' = [pushAt EXCEPT ![h] = 1] /\ run' = [run EXCEPT ![h] = <<>>]

\* The push goes on to the next witness, or is over.
PushOn(h) ==
    IF pushAt[h] < Len(Witnesses)
    THEN pushAt' = [pushAt EXCEPT ![h] = @ + 1] /\ UNCHANGED run
    ELSE pushAt' = [pushAt EXCEPT ![h] = 1] /\ run' = [run EXCEPT ![h] = <<>>]

\* record_hints: a failure counts against the hint of an endpoint that did not
\* answer, if there is one, and the last of a row evicts it; a success adds the
\* hint or clears its count; a rejection leaves it.
Blame(h, w) ==
    hint' = [hint EXCEPT ![h][w] =
                IF @ = NoHint \/ @ + 1 = EvictAfter THEN NoHint ELSE @ + 1]
Clear(h, w) == hint' = [hint EXCEPT ![h][w] = 0]

\* Mutant: a late push of an older chain replaces the longer one.
PushReplaces(h) ==
    /\ run[h] # <<>> /\ Len(run[h]) <= MaxPushEvents
    /\ IsPrefix(stored[Target(h)], run[h]) \/ IsPrefix(run[h], stored[Target(h)])
    /\ stored' = [stored EXCEPT ![Target(h)] = run[h]]
    /\ Clear(h, Target(h))
    /\ PushOn(h)
    /\ UNCHANGED <<appendVars, failures, silent, witnesses, oversized>>

\* The witness extends its copy, or holds it all already.
PushAccepted(h) ==
    /\ run[h] # <<>> /\ Len(run[h]) <= MaxPushEvents
    /\ \/ IsPrefix(stored[Target(h)], run[h]) /\ stored' = [stored EXCEPT ![Target(h)] = run[h]]
       \/ IsStrictPrefix(run[h], stored[Target(h)]) /\ UNCHANGED stored
    /\ Clear(h, Target(h))
    /\ PushOn(h)
    /\ UNCHANGED <<appendVars, failures, silent, witnesses, oversized>>

\* Mutant: a rejection counts against the endpoint.
PushRejectedIsBlamed(h) ==
    /\ run[h] # <<>> /\ Len(run[h]) <= MaxPushEvents
    /\ ~IsPrefix(stored[Target(h)], run[h]) /\ ~IsPrefix(run[h], stored[Target(h)])
    /\ Blame(h, Target(h))
    /\ PushOn(h)
    /\ UNCHANGED <<appendVars, stored, failures, silent, witnesses, oversized>>

\* The first divergent event is a fork: the witness keeps what it has.
PushRejected(h) ==
    /\ run[h] # <<>> /\ Len(run[h]) <= MaxPushEvents
    /\ ~IsPrefix(stored[Target(h)], run[h]) /\ ~IsPrefix(run[h], stored[Target(h)])
    /\ PushOn(h)
    /\ UNCHANGED <<appendVars, stored, failures, silent, hint, witnesses, oversized>>

\* The client refuses a run over its cap before it sends anything, and push_one
\* reports every error that is no rejection as unreachable.
PushTooLarge(h) ==
    /\ run[h] # <<>> /\ Len(run[h]) > MaxPushEvents
    /\ oversized' = oversized \cup {h}
    /\ Blame(h, Target(h))
    /\ PushOn(h)
    /\ UNCHANGED <<appendVars, stored, failures, silent, witnesses>>

\* The request or its answer is lost: the events may have landed.
PushLost(h) ==
    /\ run[h] # <<>> /\ Len(run[h]) <= MaxPushEvents
    /\ Fail(h, Target(h))
    /\ \/ UNCHANGED stored
       \/ IsPrefix(stored[Target(h)], run[h]) /\ stored' = [stored EXCEPT ![Target(h)] = run[h]]
    /\ Blame(h, Target(h))
    /\ PushOn(h)
    /\ UNCHANGED <<appendVars, witnesses, oversized>>

-----------------------------------------------------------------------------
Ask(h) == AskHead(h) \/ FastForward(h) \/ TakeTheirs(h) \/ Sign(h)
PushOne(h) == PushAccepted(h) \/ PushRejected(h) \/ PushTooLarge(h)

Next ==
    \E h \in Homes :
        \/ BeginAppend(h) \/ Ask(h) \/ Unreachable(h)
        \/ \E w \in WitnessSet, served \in Chains : Fetch(h, w, served)
        \/ BeginPush(h) \/ PushOne(h) \/ PushLost(h)

Spec == Init /\ [][Next]_vars

\* A home goes on with what it does alone: it signs when every witness has been
\* asked, and a caller told to re-sign does so.  No witness has to answer: the
\* dial has a deadline, a request on an open connection has none.
FairSpec ==
    Spec /\ \A h \in Homes : WF_vars(Sign(h)) /\ WF_vars(pc[h] = "stale" /\ BeginAppend(h))

-----------------------------------------------------------------------------
(* Properties.                                                             *)

\* The types of the copies, the append locks and the pushes.
TypeOK ==
    /\ witnesses \in WitnessLists
    /\ local \in [Homes -> Chains]
    /\ stored \in [WitnessSet -> Chains \cup {<<>>}]
    /\ pc \in [Homes -> {"idle", "head", "get", "stale"}]
    /\ asking \in [Homes -> 1..(Len(Witnesses) + 1)]
    /\ heard \in [Homes -> SUBSET (Chains \cup {<<>>})]
    /\ run \in [Homes -> Chains \cup {<<>>}]
    /\ pushAt \in [Homes -> {1} \cup 1..Len(Witnesses)]
    /\ failures \in 0..MaxFailures
    /\ silent \in [Homes -> SUBSET WitnessSet]
    /\ hint \in [Homes -> [WitnessSet -> NoHint..(EvictAfter - 1)]]
    /\ oversized \subseteq Homes

\* The homes whose ledger has one witness, which decides every race.
Agreeing == IF Len(Witnesses) = 1 THEN Homes ELSE {}

Agreed == INSTANCE AgreedLedger WITH
    Chains <- Chains \cup {<<>>},
    log <- stored[Witnesses[1]],
    view <- [h \in Agreeing |-> SharedPrefix(local[h], stored[Witnesses[1]])]

\* A witness's chain only grows, and with one witness replication implements
\* one agreed ledger: what a home shares with it is never discarded, by a race,
\* a lost answer or a push of a chain it has since truncated.
Agrees == Agreed!Spec

\* The head an append is signed on (ensure_fresh_locked holds the lock over the
\* query and the append) extends what every witness held when it was asked.
SignedOnWhatWasHeard ==
    \A h \in Homes : \A c \in heard[h] : IsPrefix(c, local[h])

\* A request of the append discipline is on its way.
Waiting(h) == pc[h] = "get" \/ (pc[h] = "head" /\ asking[h] <= Len(Witnesses))

\* Losing a race is a retry: with one witness, a caller that keeps re-signing
\* after stale_head gets to sign, or is refused, or the chain is at its bound,
\* provided none of its requests stays on its way for ever: sync.rs waits for
\* head and get_all without a deadline.
LosingARaceIsARetry ==
    \A h \in Homes :
        []<>~Waiting(h) =>
            ((h \in Agreeing /\ pc[h] = "stale") ~> (pc[h] = "idle" \/ Len(local[h]) = MaxLen))

\* Only an endpoint that could not be reached counts as a failure in
\* peers.json (record_hints), in a home whose runs the client does not refuse
\* itself before it sends anything.
OnlyUnreachableIsBlamed ==
    \A h \in Homes \ oversized, w \in WitnessSet : hint[h][w] > 0 => w \in silent[h]

\* An append is signed on what was heard, and what was not heard is held only
\* against the endpoints that were silent.
AppendsAreInformed == TypeOK /\ SignedOnWhatWasHeard /\ OnlyUnreachableIsBlamed
=============================================================================
