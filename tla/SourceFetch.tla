----------------------------- MODULE SourceFetch -----------------------------
(***************************************************************************)
(* One top-level read of the trust graph: several ledgers fetched together,*)
(* each from every source that might hold it, under one Resolution: a      *)
(* budget of distinct endpoints, a deadline and the witnesses already      *)
(* resolved.  The fetches run interleaved: each is a list of planned       *)
(* sources that is asked from the front and grows when a copy verifies and *)
(* names further sources.                                                  *)
(*                                                                         *)
(* A peer may answer anything it likes, so what a source serves is chosen  *)
(* when it is asked: nothing, a chain that does not verify, or one of the  *)
(* valid chains of the ledger.  A chain is a sequence of events; `home`    *)
(* says what each chain names.                                             *)
(***************************************************************************)
EXTENDS PeerHints

CONSTANTS
    Ledgers,      \* the ledgers one batch of the crawl reads
    Endpoints,
    Witnesses,    \* witness identities
    Homes,        \* the homes the operation may start in (see Home)
    Branches,     \* [Ledgers -> the valid chains that exist for the ledger]
    MaxDials,     \* distinct endpoints one operation may dial
    Reserved,     \* slots only a configured witness may take
    ClassCap,     \* [Classes -> endpoints of the class one operation may dial]
    Now,          \* the clock; an operation is short against HintMaxAge
    Silent,       \* the answer of a source that has none
    Broken        \* the answer that does not verify

Classes == {"caller", "peer", "node_witness", "chain_named", "dns"}

NoEndpoint == "none"
NotResolved == [known |-> FALSE, endpoints |-> <<>>]

ASSUME BudgetAssumption ==
    /\ MaxDials \in Nat /\ Reserved \in 0..MaxDials
    /\ ClassCap \in [Classes -> Nat]
    /\ Reserved <= ClassCap["node_witness"]
    \* a link names no more endpoints than the class of the caller may dial
    /\ \A h \in Homes : Len(h.caller) <= ClassCap["caller"]
    /\ ClassCap["caller"] <= MaxDials - Reserved

Chains == UNION {Branches[l] : l \in Ledgers}

\* peers.json as it is written: within the cap, and of endpoints.
Hints == [endpoint : Endpoints, first : Nat, last : Nat, failures : Nat]

\* A home, and the chains, hold sequences of the right things.
ASSUME HomeAssumption ==
    /\ Now \in Nat
    /\ \A chain \in Chains : chain \in Seq(Range(chain))
    /\ \A h \in Homes :
        /\ h.caller \in Seq(Endpoints) /\ h.witnesses \in Seq(Witnesses)
        /\ Ledgers \cup Witnesses \subseteq DOMAIN h.peers
        /\ \A l \in DOMAIN h.peers : h.peers[l] \in Seq(Hints) /\ Len(h.peers[l]) <= MaxHints
        /\ \A l \in Ledgers : h.learned[l] \in Seq(Endpoints) /\ h.zone[l] \in Seq(Endpoints)
        /\ \A w \in Witnesses :
             /\ h.copyOf[w].endpoints \in Seq(Endpoints) /\ h.copyOf[w].legacy \in Seq(Endpoints)
             /\ h.bootstrap[w] \in Seq(Endpoints)
        /\ \A chain \in Chains :
             /\ h.names[chain].endpoints \in Seq(Endpoints)
             /\ h.names[chain].witnesses \in Seq(Witnesses)
             /\ h.names[chain].legacy \in Seq(Endpoints)

VARIABLES
    home,      \* what this home holds; never changes during the operation
    peers,     \* peers.json, per ledger
    budget,    \* [dialled, spent]
    resolved,  \* endpoints per witness identity, once resolved
    expired,   \* the shared deadline has passed
    fetch      \* [Ledgers -> the state of its fetch]

vars == <<home, peers, budget, resolved, expired, fetch>>

-----------------------------------------------------------------------------
(* Sources and the dial budget.                                            *)

Kinds == {"local", "caller", "peer", "node_witness", "ledger_endpoint",
          "witness_identity", "legacy", "dns"}

Source(kind, e) == [kind |-> kind, endpoint |-> e]

Class(kind) ==
    IF kind \in {"ledger_endpoint", "witness_identity", "legacy"}
    THEN "chain_named" ELSE kind

MayRecordHint(kind) == kind \notin {"local", "caller"}

\* Mutant: no slot is held back for the configured witnesses.
CeilingWithoutReserve(b, class) == MaxDials

\* The most endpoints a class may see dialled in total.
Ceiling(b, class) ==
    LET kept == IF b.spent["node_witness"] < Reserved
                THEN Reserved - b.spent["node_witness"] ELSE 0
    IN  IF class = "node_witness" THEN MaxDials ELSE MaxDials - kept

Admits(b, class, e) ==
    \/ e \in b.dialled
    \/ /\ b.spent[class] < ClassCap[class]
       /\ Cardinality(b.dialled) < Ceiling(b, class)

Charge(b, class, e) ==
    IF e \in b.dialled THEN b
    ELSE [dialled |-> b.dialled \cup {e}, spent |-> [b.spent EXCEPT ![class] = @ + 1]]

Names(planned, e) == \E i \in DOMAIN planned : planned[i].endpoint = e

\* Adds a source unless its endpoint is planned already or the budget refuses.
PushAdmitted(plan, s) ==
    IF Names(plan.asked \o plan.planned, s.endpoint)
       \/ ~Admits(plan.budget, Class(s.kind), s.endpoint)
    THEN plan
    ELSE [plan EXCEPT !.planned = Append(@, s),
                      !.budget = Charge(@, Class(s.kind), s.endpoint)]

\* The element of a singleton; binding it keeps TLC from evaluating it again.
Only(S) == CHOOSE x \in S : TRUE

\* `asked` are sources planned earlier, which are not planned again.
Plan(asked, b, sources) ==
    LET planAfter[i \in 0 .. Len(sources)] ==
            IF i = 0 THEN [asked |-> asked, planned |-> <<>>, budget |-> b]
            ELSE Only({PushAdmitted(plan, sources[i]) : plan \in {planAfter[i - 1]}})
    IN  planAfter[Len(sources)]

As(kind, endpoints) == [i \in DOMAIN endpoints |-> Source(kind, endpoints[i])]

-----------------------------------------------------------------------------
(* Where a ledger may be found.                                            *)

\* The endpoints of a witness, from what this home holds; nothing is dialled.
ResolveWitness(w) ==
    home.caller \o HintsAt(peers[w], Now) \o home.copyOf[w].endpoints
        \o home.copyOf[w].legacy \o home.bootstrap[w]

WitnessEndpoints(w) ==
    IF resolved[w].known THEN resolved[w].endpoints ELSE ResolveWitness(w)

Remember(ws) ==
    [w \in Witnesses |->
        IF w \in ws THEN [known |-> TRUE, endpoints |-> WitnessEndpoints(w)]
        ELSE resolved[w]]

EndpointsOf(kind, witnesses) ==
    FlattenSeq([i \in DOMAIN witnesses |-> As(kind, WitnessEndpoints(witnesses[i]))])

\* Mutant: the hints of this home are planned before the caller's.
PeersFirst(l) ==
    As("peer", HintsAt(peers[l], Now) \o home.learned[l])
        \o As("caller", home.caller)
        \o EndpointsOf("node_witness", home.witnesses)

\* Sources 2 to 4.
FirstSources(l) ==
    As("caller", home.caller)
        \o As("peer", HintsAt(peers[l], Now) \o home.learned[l])
        \o EndpointsOf("node_witness", home.witnesses)

\* Sources 5 to 7, which a chain that verified names.
ChainNamedSources(names) ==
    As("ledger_endpoint", names.endpoints)
        \o EndpointsOf("witness_identity", names.witnesses)
        \o As("legacy", names.legacy)

-----------------------------------------------------------------------------
(* What the copies say.                                                    *)

\* The first position where two chains hold different events, 0 if none.
Divergence(one, other) ==
    LET shared == 1 .. (IF Len(one) < Len(other) THEN Len(one) ELSE Len(other))
        apart == {i \in shared : one[i] # other[i]}
    IN  IF apart = {} THEN 0 ELSE CHOOSE i \in apart : \A j \in apart : i <= j

NoSource == Source("local", "unset")

Failed(status, f) ==
    [status |-> status, source |-> NoSource, chain |-> <<>>, tried |-> f.tried,
     at |-> 0, branches |-> <<>>]

Pending == [status |-> "pending", source |-> NoSource, chain |-> <<>>, tried |-> <<>>,
            at |-> 0, branches |-> <<>>]

\* Mutant: a longer copy replaces the kept one even when a branch is on record.
LongestWins(f) ==
    LET first == f.copies[1]
        apart == {i \in DOMAIN f.copies : Divergence(first.chain, f.copies[i].chain) # 0}
        best == CHOOSE i \in DOMAIN f.copies :
                    \A j \in DOMAIN f.copies : Len(f.copies[i].chain) >= Len(f.copies[j].chain)
    IN  IF f.copies = <<>> THEN Failed(IF f.invalid THEN "invalid" ELSE "unreachable", f)
        ELSE [status |-> IF apart = {} THEN "ok" ELSE "equivocation",
              source |-> f.copies[best].source, chain |-> f.copies[best].chain,
              tried |-> f.tried, at |-> 0, branches |-> <<>>]

\* The first copy in source order is kept, or the longest that extends it; a
\* copy that leaves the first one is recorded beside it.
Decide(f) ==
    LET first == f.copies[1]
        apart == {i \in DOMAIN f.copies : Divergence(first.chain, f.copies[i].chain) # 0}
        other == f.copies[CHOOSE i \in apart : \A j \in apart : i <= j]
        best == CHOOSE i \in DOMAIN f.copies :
                    \A j \in DOMAIN f.copies :
                        \/ Len(f.copies[i].chain) > Len(f.copies[j].chain)
                        \/ Len(f.copies[i].chain) = Len(f.copies[j].chain) /\ i <= j
    IN  IF f.copies = <<>> THEN Failed(IF f.invalid THEN "invalid" ELSE "unreachable", f)
        ELSE IF apart # {}
        THEN [status |-> "equivocation", source |-> first.source, chain |-> first.chain,
              tried |-> f.tried, at |-> Divergence(first.chain, other.chain),
              branches |-> <<first, other>>]
        ELSE [status |-> "ok", source |-> f.copies[best].source,
              chain |-> f.copies[best].chain, tried |-> f.tried, at |-> 0,
              branches |-> <<>>]

\* One failure after the other, for the endpoints that are not spared.
RecordFailures(hints, failed, spared) ==
    LET after[n \in 0 .. Len(failed)] ==
            IF n = 0 THEN hints
            ELSE IF failed[n] \in spared THEN after[n - 1]
            ELSE RecordFailure(after[n - 1], failed[n])
    IN  after[Len(failed)]

\* The hints of one ledger after its fetch: a failure for every endpoint that
\* did not answer, a success for the one whose copy was kept.
RecordHints(hints, f, outcome) ==
    LET caller == {f.tried[i].endpoint : i \in {j \in DOMAIN f.tried :
                                                ~MayRecordHint(f.tried[j].kind)}}
        blamed == RecordFailures(hints, f.failed, caller)
        served == /\ outcome.source # NoSource
                  /\ MayRecordHint(outcome.source.kind)
    IN  Prune(IF served THEN RecordSuccess(blamed, outcome.source.endpoint, Now)
              ELSE blamed, Now)

-----------------------------------------------------------------------------
(* The fetches.                                                            *)

Unplanned == [at |-> "plan", planned |-> <<>>, next |-> 1, tried |-> <<>>,
              copies |-> <<>>, failed |-> <<>>, invalid |-> FALSE,
              outcome |-> Pending]

Init ==
    /\ home \in Homes
    /\ peers = home.peers
    /\ budget = [dialled |-> {}, spent |-> [c \in Classes |-> 0]]
    /\ resolved = [w \in Witnesses |-> NotResolved]
    /\ expired = FALSE
    /\ fetch = [l \in Ledgers |-> Unplanned]

\* The local copy is planned first and dials nothing.
PlanSources(l) ==
    LET own == IF home.copy[l] # Silent THEN <<Source("local", NoEndpoint)>> ELSE <<>>
    IN  /\ fetch[l].at = "plan"
        /\ \E plan \in {Plan(<<>>, budget, FirstSources(l))} :
             /\ fetch' = [fetch EXCEPT ![l].at = "read", ![l].planned = own \o plan.planned]
             /\ budget' = plan.budget
        /\ resolved' = Remember(Range(home.witnesses))
        /\ UNCHANGED <<home, peers, expired>>

\* peers.json or node.json could not be read.
PlanFails(l) ==
    /\ fetch[l].at = "plan"
    /\ home.unreadable
    /\ fetch' = [fetch EXCEPT ![l].at = "done",
                              ![l].outcome = Failed("invalid", fetch[l])]
    /\ UNCHANGED <<home, peers, budget, resolved, expired>>

\* What a source may answer.
Answers(l, s) ==
    IF s.kind = "local" THEN {home.copy[l]} ELSE Branches[l] \cup {Silent, Broken}

More(l) == fetch[l].next <= Len(fetch[l].planned)

Asked(l, s, f) == [f EXCEPT !.next = @ + 1, !.tried = Append(@, s)]

\* A source that does not answer within its time, or holds no such ledger.
ReadNothing(l) ==
    LET s == fetch[l].planned[fetch[l].next]
        f == Asked(l, s, fetch[l])
    IN  /\ fetch[l].at \in {"read", "dns_read"} /\ More(l) /\ ~expired
        /\ Silent \in Answers(l, s)
        /\ fetch' = [fetch EXCEPT ![l] =
                        IF s.kind = "local" THEN f ELSE [f EXCEPT !.failed = Append(@, s.endpoint)]]
        /\ UNCHANGED <<home, peers, budget, resolved, expired>>

\* Mutant: a source that served badly is asked again.
ReadBrokenAgain(l) ==
    LET s == fetch[l].planned[fetch[l].next]
    IN  /\ fetch[l].at \in {"read", "dns_read"} /\ More(l) /\ ~expired
        /\ Broken \in Answers(l, s)
        /\ fetch' = [fetch EXCEPT ![l].invalid = TRUE]
        /\ UNCHANGED <<home, peers, budget, resolved, expired>>

\* A source that serves a chain which does not verify.
ReadBroken(l) ==
    LET s == fetch[l].planned[fetch[l].next]
    IN  /\ fetch[l].at \in {"read", "dns_read"} /\ More(l) /\ ~expired
        /\ Broken \in Answers(l, s)
        /\ fetch' = [fetch EXCEPT ![l] = [Asked(l, s, fetch[l]) EXCEPT !.invalid = TRUE]]
        /\ UNCHANGED <<home, peers, budget, resolved, expired>>

\* A source that serves a chain which verifies: it may name further sources,
\* which are asked after everything already planned.
ReadCopy(l) ==
    LET s == fetch[l].planned[fetch[l].next]
    IN  /\ fetch[l].at = "read" /\ More(l) /\ ~expired
        /\ \E chain \in Answers(l, s) \cap Branches[l] :
             LET names == home.names[chain]
             IN  \E plan \in {Plan(fetch[l].planned, budget, ChainNamedSources(names))} :
                 /\ fetch' = [fetch EXCEPT ![l] =
                        [Asked(l, s, fetch[l]) EXCEPT
                            !.copies = Append(@, [source |-> s, chain |-> chain]),
                            !.planned = @ \o plan.planned]]
                 /\ budget' = plan.budget
                 /\ resolved' = Remember(Range(names.witnesses))
        /\ UNCHANGED <<home, peers, expired>>

\* The same from a source the zone named, which names no further source.
ReadDnsCopy(l) ==
    LET s == fetch[l].planned[fetch[l].next]
    IN  /\ fetch[l].at = "dns_read" /\ More(l) /\ ~expired
        /\ \E chain \in Branches[l] :
             fetch' = [fetch EXCEPT ![l] =
                [Asked(l, s, fetch[l]) EXCEPT
                    !.copies = Append(@, [source |-> s, chain |-> chain])]]
        /\ UNCHANGED <<home, peers, budget, resolved, expired>>

Reached(l) ==
    \E i \in DOMAIN fetch[l].copies : fetch[l].copies[i].source.kind # "local"

\* Mutant: the endpoints of the zone are dialled without being charged.
DnsSourcesUncharged(l) ==
    /\ fetch[l].at = "read" /\ ~More(l) /\ ~Reached(l) /\ ~expired
    /\ fetch' = [fetch EXCEPT ![l].at = "dns_read", ![l].next = 1,
                              ![l].planned = As("dns", home.zone[l])]
    /\ UNCHANGED <<home, peers, budget, resolved, expired>>

\* Source 8: no other source produced a reachable copy, so the zone of the
\* hostname this home already holds is asked; the lookup may find nothing.
DnsSources(l) ==
    /\ fetch[l].at = "read" /\ ~More(l) /\ ~Reached(l) /\ ~expired
    /\ \E found \in {<<>>, home.zone[l]} : \E plan \in {Plan(<<>>, budget, As("dns", found))} :
         /\ fetch' = [fetch EXCEPT ![l].at = "dns_read", ![l].next = 1,
                                   ![l].planned = plan.planned]
         /\ budget' = plan.budget
    /\ UNCHANGED <<home, peers, resolved, expired>>

\* Nothing is left to ask, or no time to ask it.
Conclude(l) ==
    /\ \/ fetch[l].at = "read" /\ (expired \/ (~More(l) /\ Reached(l)))
       \/ fetch[l].at = "dns_read" /\ (expired \/ ~More(l))
    /\ \E outcome \in {Decide(fetch[l])} :
         /\ fetch' = [fetch EXCEPT ![l].at = "done", ![l].outcome = outcome]
         /\ peers' = [peers EXCEPT ![l] = RecordHints(@, fetch[l], outcome)]
    /\ UNCHANGED <<home, budget, resolved, expired>>

\* The deadline of the whole operation.
Expire ==
    /\ ~expired
    /\ \E l \in Ledgers : fetch[l].at # "done"
    /\ expired' = TRUE
    /\ UNCHANGED <<home, peers, budget, resolved, fetch>>

Step(l) ==
    \/ PlanSources(l) \/ PlanFails(l)
    \/ ReadNothing(l) \/ ReadBroken(l) \/ ReadCopy(l) \/ ReadDnsCopy(l)
    \/ DnsSources(l) \/ Conclude(l)

Done == \A l \in Ledgers : fetch[l].at = "done"

Next == (\E l \in Ledgers : Step(l)) \/ Expire \/ (Done /\ UNCHANGED vars)

Spec == Init /\ [][Next]_vars

\* A source is given a time to answer in, and the futures of a batch are all
\* polled until each is ready.
FairSpec == Spec /\ \A l \in Ledgers : WF_vars(Step(l))

-----------------------------------------------------------------------------
(* Properties.                                                             *)

Sources == [kind : Kinds, endpoint : Endpoints \cup {NoEndpoint}]

\* Types: the plan holds sources, the pointer into it stays within it, and an
\* outcome is present exactly when the fetch is done.
TypeOK ==
    /\ home \in Homes
    /\ budget.dialled \subseteq Endpoints /\ budget.spent \in [Classes -> Nat]
    /\ expired \in BOOLEAN
    /\ \A l \in Ledgers :
        LET f == fetch[l]
        IN  /\ f.at \in {"plan", "read", "dns_read", "done"}
            /\ Range(f.planned) \subseteq Sources /\ Range(f.tried) \subseteq Sources
            /\ f.next \in 1 .. (Len(f.planned) + 1)
            /\ (f.at = "done") <=> (f.outcome.status # "pending")
    /\ \A l \in DOMAIN peers : Len(peers[l]) <= MaxHints

AllAsked == UNION {{s.endpoint : s \in Range(fetch[l].tried)} : l \in Ledgers}

\* However many fetches share the operation, and whatever the copies and the
\* zone name, the distinct endpoints dialled stay within the operation's
\* ration, and each was charged for (DialBudget::admit).
DialsStayWithinBudget ==
    /\ AllAsked \ {NoEndpoint} \subseteq budget.dialled
    /\ Cardinality(budget.dialled) <= MaxDials

\* Chains that name many witnesses cannot starve the witnesses this home is
\* configured with: while fewer than the reserved slots went to them, every
\* endpoint of theirs is in the plan of every fetch (DialBudget::ceiling).
WitnessesAreNotStarved ==
    budget.spent["node_witness"] < Reserved =>
        \A l \in Ledgers :
            fetch[l].at = "read" =>
                \A i \in DOMAIN home.witnesses :
                    \A e \in Range(WitnessEndpoints(home.witnesses[i])) :
                        Names(fetch[l].planned, e)

\* An endpoint that only the caller named is never written to peers.json,
\* also when it serves the kept copy or a chain names it again
\* (FetchSource::may_record_hint); only the zone of the ledger may vouch for it.
CallerHintsAreNeverKept ==
    \A l \in Ledgers : \A e \in Range(home.caller) :
        Holds(peers[l], e) => Holds(home.peers[l], e) \/ e \in Range(home.zone[l])

\* What a finished fetch reports is supported by what the sources served: the
\* kept chain came from its source, an equivocation shows two copies that part
\* exactly at its position, and without one the kept chain is the longest
\* served and extends the first (decide, divergence).
OutcomeIsSupported ==
    \A l \in Ledgers : fetch[l].at = "done" =>
        LET o == fetch[l].outcome
            copies == Range(fetch[l].copies)
        IN  CASE o.status = "ok" ->
                    /\ [source |-> o.source, chain |-> o.chain] \in copies
                    /\ IsPrefix(fetch[l].copies[1].chain, o.chain)
                    /\ \A c \in copies : Len(c.chain) <= Len(o.chain)
              [] o.status = "equivocation" ->
                    /\ [source |-> o.source, chain |-> o.chain] = fetch[l].copies[1]
                    /\ Range(o.branches) \subseteq copies
                    /\ \E one, other \in Range(o.branches) :
                        /\ SubSeq(one.chain, 1, o.at - 1) = SubSeq(other.chain, 1, o.at - 1)
                        /\ one.chain[o.at] # other.chain[o.at]
              [] OTHER -> copies = {}

\* A node is Ok only when the sources agree: two of them that served diverging
\* chains are an equivocation, and no branch is picked (NodeStatus).
NoBranchIsChosenSilently ==
    \A l \in Ledgers : (fetch[l].at = "done" /\ fetch[l].outcome.status = "ok") =>
        \A one, other \in Range(fetch[l].copies) :
            IsPrefix(one.chain, other.chain) \/ IsPrefix(other.chain, one.chain)

\* Every fetch of the batch ends: a plan that grows while it is asked grows by
\* endpoints of a finite budget (NetLedgerFetcher::fetch).
EveryFetchEnds == \A l \in Ledgers : <>(fetch[l].at = "done")

\* The ration of an operation is kept, and kept for the home's own witnesses.
BudgetIsFair == DialsStayWithinBudget /\ WitnessesAreNotStarved

\* What a fetch keeps is supported: the chain by its copies, a hint by somebody
\* other than the caller, with no more hints than the cap.
WhatIsKeptIsSupported == TypeOK /\ OutcomeIsSupported /\ CallerHintsAreNeverKept
=============================================================================
