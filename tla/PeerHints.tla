------------------------------ MODULE PeerHints ------------------------------
(***************************************************************************)
(* peers.json: for each ledger a short list of endpoints that once served  *)
(* it.  A hint is an address and never an authorization; the file is a     *)
(* cache with a cap, an age-out and an eviction rule.  The operators here  *)
(* are the methods of Peers on the list of one ledger; when the file is    *)
(* read and written around them is the business of the modules that use    *)
(* them.                                                                   *)
(***************************************************************************)
EXTENDS Naturals, Sequences, FiniteSets, SequencesExt

CONSTANTS
    MaxHints,     \* hints one ledger may hold
    HintMaxAge,   \* how long a hint survives without a success
    MaxFailures   \* consecutive failures that evict a hint

ASSUME HintAssumption ==
    MaxHints \in Nat \ {0} /\ HintMaxAge \in Nat /\ MaxFailures \in Nat \ {0}

\* Zero stands for "no time recorded", which is what an older file holds.
Undated(e) == [endpoint |-> e, first |-> 0, last |-> 0, failures |-> 0]

Served(e, now) == [endpoint |-> e, first |-> now, last |-> now, failures |-> 0]

Stamp(h) == IF h.last > h.first THEN h.last ELSE h.first

AgedOut(h, now) == Stamp(h) # 0 /\ now > Stamp(h) + HintMaxAge

Live(h, now) == h.failures < MaxFailures /\ ~AgedOut(h, now)

Holds(hints, e) == \E i \in DOMAIN hints : hints[i].endpoint = e

\* Oldest success first, then first seen, then position.
OlderThan(hints, i, j) ==
    \/ hints[i].last < hints[j].last
    \/ hints[i].last = hints[j].last /\ hints[i].first < hints[j].first
    \/ hints[i].last = hints[j].last /\ hints[i].first = hints[j].first /\ i < j

\* Mutant: the cap is not enforced.
DropNothing(hints) == hints

DropOldest(hints) ==
    LET oldest == CHOOSE i \in DOMAIN hints :
                    \A j \in DOMAIN hints \ {i} : OlderThan(hints, i, j)
    IN  IF Len(hints) > MaxHints THEN RemoveAt(hints, oldest) ELSE hints

RecordSuccess(hints, e, now) ==
    IF Holds(hints, e)
    THEN [i \in DOMAIN hints |->
            IF hints[i].endpoint # e THEN hints[i]
            ELSE [hints[i] EXCEPT !.last = now, !.failures = 0,
                                  !.first = IF @ = 0 THEN now ELSE @]]
    ELSE DropOldest(Append(hints, Served(e, now)))

\* What of a list stands at some of its positions, in its order.
Retain(list, positions) ==
    LET kept[n \in 0 .. Len(list)] ==
            IF n = 0 THEN <<>>
            ELSE IF n \in positions THEN Append(kept[n - 1], list[n]) ELSE kept[n - 1]
    IN  kept[Len(list)]

\* The MaxFailures-th consecutive failure removes the hint.
RecordFailure(hints, e) ==
    LET blamed == [i \in DOMAIN hints |->
                    IF hints[i].endpoint # e THEN hints[i]
                    ELSE [hints[i] EXCEPT !.failures = @ + 1]]
    IN  Retain(blamed, {i \in DOMAIN hints :
                            blamed[i].endpoint # e \/ blamed[i].failures < MaxFailures})

Prune(hints, now) == Retain(hints, {i \in DOMAIN hints : ~AgedOut(hints[i], now)})

\* Latest success first, then position.
FresherThan(hints, i, j) ==
    hints[i].last > hints[j].last \/ (hints[i].last = hints[j].last /\ i < j)

\* The endpoints worth dialling, freshest success first.
HintsAt(hints, now) ==
    LET live == {i \in DOMAIN hints : Live(hints[i], now)}
        place(i) == Cardinality({j \in live : FresherThan(hints, j, i)}) + 1
    IN  [k \in 1 .. Cardinality(live) |-> hints[CHOOSE i \in live : place(i) = k].endpoint]
=============================================================================
