--------------------------- MODULE LedgerStorage ----------------------------
(***************************************************************************)
(* The index of one running node over the ledgers of its home              *)
(* (crates/mabel-node/src/storage.rs): which pushes it admits, what it     *)
(* stores of them, the caps, the fork records, and the verdicts on its     *)
(* witness_for entries.                                                    *)
(*                                                                         *)
(* A push runs under the index lock from its first line to its last.       *)
(* note_ledger and adopt read the directory before they take that lock, so *)
(* their read and their insert are two steps; a second process writes the  *)
(* directory and tells nobody.  A writer whose branch lost a race at its   *)
(* witnesses cuts the directory back (WalletCore::truncate), so the index  *)
(* may hold what the directory no longer does.                             *)
(*                                                                         *)
(* Abstractions.  An event is a record of what admission reads of it: its  *)
(* kind, the set it carries, its size, and whether it verifies after the   *)
(* events before it.  An event id commits to the whole chain before it, so *)
(* the event at position n of chain c is SubSeq(c, 1, n); positions count  *)
(* from 1, one more than the code's seq.  How the files are written, event *)
(* by event, is LedgerFiles.  An event that lands on another branch than   *)
(* the one it was signed on does not verify there.                         *)
(***************************************************************************)
EXTENDS Integers, Sequences, FiniteSets, FiniteSetsExt, SequencesExt

CONSTANTS Settings,  \* what a home may be set to, and what is around it
          Adopters,  \* threads answering reads
          MaxLen,    \* bound: events in a chain
          MaxEndpointChanges

ASSUME BoundsAssumption == MaxLen \in Nat \ {0} /\ MaxEndpointChanges \in Nat

VARIABLES disk,       \* the chain in each ledger's directory, <<>> for none
          forkFiles,  \* the fork files beside it
          index,      \* the entry of each ledger, its chain <<>> when there is none
          used,       \* storage_used
          setting,    \* the setting of this behaviour, which never changes
          endpoint,   \* the endpoint id this home answers on
          verdict,    \* the cached gap of each witness_for entry
          rechecking, \* note_endpoint has set the endpoint and not rechecked yet
          task,       \* what each thread between a read and its insert is doing
          answer,     \* what the last step answered a pusher
          changes     \* endpoint changes so far

vars == <<disk, forkFiles, index, used, setting, endpoint, verdict, rechecking, task, answer, changes>>

\* node.json: witness_for and accept_legacy_witness_config.
WitnessFor == setting.witnessFor
Legacy == setting.legacy

\* StorageCaps.
EventsPerLedger == setting.caps.events
BytesPerLedger == setting.caps.bytes
LedgersCap == setting.caps.ledgers
ForkRecords == setting.caps.forks
StorageCapacity == setting.caps.capacity

Ledgers == setting.ledgers      \* the ledgers that exist; an identity is its ledger
SignsFor == setting.signsFor    \* the ledgers this home holds a signing key for
Endpoints == setting.endpoints  \* the endpoint ids node.key may give this home
EventsOf == setting.eventsOf    \* what a ledger's events past its inception may be
WalletLedgers == setting.wallet \* the ledgers this process appends to or fetches
ToolLedgers == setting.tool     \* the ledgers a second process writes
Asked == setting.asked          \* the ledgers the adopters are asked for

\* The ledgers whose directory may be cut back: fresh turns a wallet away that
\* cannot sign for the ledger, ensure_fresh_hinted turns no command away.
CutLedgers == (WalletLedgers \cap SignsFor) \cup ToolLedgers

Event == [kind : {"set", "advertise", "config", "other"}, names : SUBSET (Ledgers \cup Endpoints),
          size : Nat, verifies : BOOLEAN]

\* The settings a home can have.
ValidSetting ==
    /\ IsFiniteSet(Ledgers)
    /\ \A l \in Ledgers : EventsOf[l] \subseteq Event
    /\ WitnessFor \cup SignsFor \cup WalletLedgers \cup ToolLedgers \cup Asked \subseteq Ledgers
    /\ \A l \in CutLedgers : \A e \in EventsOf[l] : [e EXCEPT !.verifies = FALSE] \in EventsOf[l]
    /\ Legacy \in BOOLEAN
    /\ {EventsPerLedger, BytesPerLedger, LedgersCap, ForkRecords, StorageCapacity} \subseteq Nat

Writer == "writer"     \* whoever holds the append lock of this process
Threads == Adopters \cup {Writer}
Inception(l) == [kind |-> "inception", names |-> {l}, size |-> 1, verifies |-> TRUE]
NoEntry == [chain |-> <<>>, forks |-> {}]
NoTask == [op |-> "none"]
NoAnswer == [code |-> "none"]

\* Every chain a pusher may hold, the ones that do not verify included.
Chains(l) == {<<Inception(l)>> \o s : s \in UNION {[1..n -> EventsOf[l]] : n \in 0..(MaxLen - 1)}}
AllChains == UNION {Chains(l) : l \in Ledgers}

Held(l) == index[l].chain # <<>>
Prefix(p, c) == IsPrefix(p, c)
EventAt(c, n) == SubSeq(c, 1, n)
BytesOf(c) == SumFunctionOnSet([n \in 1..Len(c) |-> c[n].size], 1..Len(c))
Verifies(c) == \A n \in 1..Len(c) : c[n].verifies

-----------------------------------------------------------------------------
(* What the fold of a chain says.                                          *)

\* The set carried by the last event of one kind, empty before the first.
Latest(c, kind) ==
    LET at == {n \in 1..Len(c) : c[n].kind = kind} IN
    IF at = {} THEN {} ELSE c[Max(at)].names

WitnessIdentities(c) == Latest(c, "set")
AdvertisedEndpoints(c) == Latest(c, "advertise")
WitnessEndpoints(c) == Latest(c, "config")

\* apply_run: the longest prefix of c that folds on top of chain p.
ValidLength(p, c) ==
    IF ~Prefix(p, c) THEN Len(p)
    ELSE Max({n \in Len(p)..Len(c) : \A m \in (Len(p) + 1)..n : c[m].verifies})

\* gap_for: why identity w admits no new ledger here, by the copy held here.
GapFor(entries, w, e) ==
    LET c == entries[w].chain IN
    CASE c = <<>>                        -> "no_local_copy"
      [] AdvertisedEndpoints(c) = {}     -> "advertises_nothing"
      [] e \notin AdvertisedEndpoints(c)
         /\ AdvertisedEndpoints(c) # {}  -> "advertises_others"
      [] OTHER                           -> "none"

\* recheck: the verdicts of every entry against the index and the endpoint.
Recheck(entries, e) == [w \in WitnessFor |-> GapFor(entries, w, e)]

-----------------------------------------------------------------------------
(* Admission, the caps and the overlap.                                    *)

NamesAny(c, witnesses) == WitnessIdentities(c) \cap witnesses # {}

\* Mutant: the switch alone turns the clause on.
LegacyAdmitsUngated(pre, post) ==
    Legacy /\ endpoint \in WitnessEndpoints(pre) \cup WitnessEndpoints(post)

\* legacy_admits: gated on witness_for and on the switch.
LegacyAdmits(pre, post) ==
    /\ WitnessFor # {}
    /\ Legacy
    /\ endpoint \in WitnessEndpoints(pre) \cup WitnessEndpoints(post)

\* Mutant: an identity that does not advertise this home admits new ledgers.
AdmitsUnadvertised(l, pre, post) ==
    l \in SignsFor \/ NamesAny(pre, WitnessFor) \/ NamesAny(post, WitnessFor)

\* Mutant: only the pushed state is asked.
AdmitsByPushedState(l, pre, post) ==
    \/ l \in SignsFor
    \/ NamesAny(post, {w \in WitnessFor : verdict[w] = "none"})
    \/ LegacyAdmits(pre, post)

\* admit, its four clauses; pre is <<>> on a first push.
Admits(l, pre, post) ==
    \/ l \in SignsFor
    \/ NamesAny(pre, WitnessFor)
    \/ NamesAny(post, {w \in WitnessFor : verdict[w] = "none"})
    \/ LegacyAdmits(pre, post)

\* Mutant: one ledger more than the cap.
WithinCapsOffByOne(l, c) ==
    LET added == BytesOf(c) - BytesOf(index[l].chain) IN
    /\ Len(c) <= EventsPerLedger
    /\ BytesOf(c) <= BytesPerLedger
    /\ Held(l) \/ Cardinality({k \in Ledgers : Held(k)}) <= LedgersCap
    /\ used + added <= StorageCapacity

\* check_caps for storing chain c where the index holds its prefix.
WithinCaps(l, c) ==
    LET added == BytesOf(c) - BytesOf(index[l].chain) IN
    /\ Len(c) <= EventsPerLedger
    /\ BytesOf(c) <= BytesPerLedger
    /\ Held(l) \/ Cardinality({k \in Ledgers : Held(k)}) < LedgersCap
    /\ used + added <= StorageCapacity

\* The positions of the push that the index holds and the files hold otherwise,
\* or not at all.
Differs(l, c, first) ==
    {n \in first..Len(c) : /\ n <= Len(index[l].chain)
                           /\ n > Len(disk[l]) \/ EventAt(c, n) # EventAt(disk[l], n)}

LeavesGap(l, first) == first > Len(index[l].chain) + 1

\* Mutant: a divergent event is evidence without being verified.
IsDivergent(l, c, n) ==
    n \in 2..Len(disk[l]) /\ EventAt(c, n - 1) = EventAt(disk[l], n - 1) /\ disk[l][n].verifies

\* The event kept at n is there to contend with, and verifies.
IsKept(l, n) == n <= Len(disk[l]) /\ disk[l][n].verifies

\* validate_fork_record: an event past the inception that verifies on the
\* prefix both branches share, as the kept one does.
IsFork(l, c, n) ==
    n \in 2..Len(disk[l]) /\ EventAt(c, n - 1) = EventAt(disk[l], n - 1) /\ c[n].verifies /\ IsKept(l, n)

\* The push reaches the fold: it splices, agrees with what is held and brings
\* at least one event past it.
Splices(l, c, first) ==
    /\ ~LeavesGap(l, first)
    /\ Differs(l, c, first) = {}
    /\ Len(c) > Len(index[l].chain)
    /\ ~Held(l) => c[1] = Inception(l)

-----------------------------------------------------------------------------
(* Pushes: events first..Len(c) of chain c, offered for ledger l.  Each    *)
(* action is one way out of push, ingest, splice, store_run and            *)
(* record_divergence, and its guard the negation of the ways out before it.*)

Answer(l, code) == answer' = [code |-> code, ledger |-> l]

Refuse(l, code) ==
    /\ Answer(l, code)
    /\ UNCHANGED <<setting, disk, forkFiles, index, used, endpoint, verdict, rechecking, task, changes>>

PushEmpty(l) == Refuse(l, IF Held(l) THEN "ok" ELSE "not_admitted")

PushMalformed(l, c, first) == LeavesGap(l, first) /\ Refuse(l, "malformed")

PushOtherLedger(l, c, first) ==
    /\ ~Held(l) /\ first = 1
    /\ c[1] # Inception(l)
    /\ Refuse(l, "invalid")

\* record_divergence, of an event that is no fork; a file that is missing, or
\* does not verify where it is, is this home's own trouble.
PushDivergesBadly(l, c, first) ==
    /\ ~LeavesGap(l, first)
    /\ Differs(l, c, first) # {}
    /\ ~IsFork(l, c, Min(Differs(l, c, first)))
    /\ Refuse(l, IF IsKept(l, Min(Differs(l, c, first))) THEN "invalid" ELSE "unavailable")

\* Mutant: one record more than the cap.
IsRecordedOffByOne(l, rival) ==
    rival \notin index[l].forks /\ Cardinality(index[l].forks) <= ForkRecords

\* Recorded once, and only while the index counts fewer than the cap.
IsRecorded(l, rival) ==
    rival \notin index[l].forks /\ Cardinality(index[l].forks) < ForkRecords

\* record_divergence, of a fork.
PushForks(l, c, first) ==
    /\ ~LeavesGap(l, first)
    /\ Differs(l, c, first) # {}
    /\ LET rival == EventAt(c, Min(Differs(l, c, first)))
           recorded == {r \in {rival} : IsRecorded(l, r)}
       IN /\ IsFork(l, c, Len(rival))
          /\ forkFiles' = [forkFiles EXCEPT ![l] = @ \cup recorded]
          /\ index' = [index EXCEPT ![l].forks = @ \cup recorded]
    /\ Answer(l, "fork")
    /\ UNCHANGED <<setting, disk, used, endpoint, verdict, rechecking, task, changes>>

\* A retry: everything it brings is held.
PushRetries(l, c, first) ==
    /\ ~LeavesGap(l, first)
    /\ Differs(l, c, first) = {}
    /\ Len(c) <= Len(index[l].chain)
    /\ Refuse(l, "ok")

\* What the push would leave stored: the chain held, extended by what verifies.
Pushed(l, c) == EventAt(IF Prefix(index[l].chain, c) THEN c ELSE index[l].chain,
                        ValidLength(index[l].chain, c))

PushNotAdmitted(l, c, first) ==
    /\ Splices(l, c, first)
    /\ ~Admits(l, index[l].chain, Pushed(l, c))
    /\ Refuse(l, "not_admitted")

PushTooLarge(l, c, first) ==
    /\ Splices(l, c, first)
    /\ Admits(l, index[l].chain, Pushed(l, c))
    /\ Pushed(l, c) # index[l].chain /\ ~WithinCaps(l, Pushed(l, c))
    /\ Refuse(l, "too_large")

\* Mutant: the batch is written where the index ends.
StartsAnywhere(l) == l \in Ledgers

\* LedgerStore::append: the batch starts where the directory ends, whichever
\* branch the directory holds.
StartsAtHead(l) == Len(disk[l]) = Len(index[l].chain)

\* What append leaves in the directory: the files there, and the events of q
\* past the index, which do not verify on another branch than the index's.
Landed(l, q) ==
    IF disk[l] = index[l].chain THEN q
    ELSE [n \in 1..Len(q) |-> IF n <= Len(index[l].chain) THEN disk[l][n]
                              ELSE [q[n] EXCEPT !.verifies = FALSE]]

\* The directory holds more events, or fewer, than the index knows.
PushUnavailable(l, c, first) ==
    /\ Splices(l, c, first)
    /\ Admits(l, index[l].chain, Pushed(l, c))
    /\ Pushed(l, c) # index[l].chain /\ WithinCaps(l, Pushed(l, c))
    /\ ~StartsAtHead(l)
    /\ Refuse(l, "unavailable")

\* store_run: the valid prefix lands, and what did not verify is reported.
PushStores(l, c, first) ==
    /\ Splices(l, c, first)
    /\ Admits(l, index[l].chain, Pushed(l, c))
    /\ Pushed(l, c) # index[l].chain =>
          WithinCaps(l, Pushed(l, c)) /\ StartsAtHead(l)
    /\ disk' = [disk EXCEPT ![l] = IF Pushed(l, c) = index[l].chain THEN @ ELSE Landed(l, Pushed(l, c))]
    /\ index' = [index EXCEPT ![l].chain = Pushed(l, c)]
    /\ used' = used + BytesOf(Pushed(l, c)) - BytesOf(index[l].chain)
    /\ verdict' = IF l \in WitnessFor /\ Pushed(l, c) # index[l].chain
                  THEN Recheck(index', endpoint) ELSE verdict
    /\ Answer(l, IF Pushed(l, c) = c THEN "ok" ELSE "invalid")
    /\ UNCHANGED <<setting, forkFiles, endpoint, rechecking, task, changes>>

Push(l, c, first) ==
    \/ PushMalformed(l, c, first) \/ PushOtherLedger(l, c, first)
    \/ PushDivergesBadly(l, c, first) \/ PushForks(l, c, first)
    \/ PushRetries(l, c, first) \/ PushNotAdmitted(l, c, first)
    \/ PushTooLarge(l, c, first) \/ PushUnavailable(l, c, first)
    \/ PushStores(l, c, first)

-----------------------------------------------------------------------------
(* The directory's other writers, and the reads that refresh the index.    *)

Extended(l, e) == IF disk[l] = <<>> THEN <<Inception(l)>> ELSE Append(disk[l], e)

\* Every writer refuses a directory that does not verify.
Extends(l, e) == Verifies(disk[l]) /\ Len(disk[l]) < MaxLen /\ e.verifies

\* A local append or a fetch writes, then owes the index a note_ledger.
WalletAppend(l, e) ==
    /\ task[Writer] = NoTask
    /\ Extends(l, e)
    /\ disk' = [disk EXCEPT ![l] = Extended(l, e)]
    /\ task' = [task EXCEPT ![Writer] = [op |-> "note", ledger |-> l, entry |-> NoEntry, step |-> "load"]]
    /\ answer' = NoAnswer
    /\ UNCHANGED <<setting, forkFiles, index, used, endpoint, verdict, rechecking, changes>>

ToolAppend(l, e) ==
    /\ Extends(l, e)
    /\ disk' = [disk EXCEPT ![l] = Extended(l, e)]
    /\ answer' = NoAnswer
    /\ UNCHANGED <<setting, forkFiles, index, used, endpoint, verdict, rechecking, task, changes>>

\* ensure_fresh_locked: a witness holds another branch past event n, so the
\* wallet's own is removed, and a note_ledger is owed (truncate).  The branch
\* taken instead, which may bring nothing past n, is appended after the note.
WalletCut(l, n) ==
    /\ task[Writer] = NoTask
    /\ disk' = [disk EXCEPT ![l] = EventAt(@, n)]
    /\ task' = [task EXCEPT ![Writer] = [op |-> "note", ledger |-> l, entry |-> NoEntry, step |-> "load"]]
    /\ answer' = NoAnswer
    /\ UNCHANGED <<setting, forkFiles, index, used, endpoint, verdict, rechecking, changes>>

\* The same of a command: its core has no index to note.
ToolCut(l, n) ==
    /\ disk' = [disk EXCEPT ![l] = EventAt(@, n)]
    /\ answer' = NoAnswer
    /\ UNCHANGED <<setting, forkFiles, index, used, endpoint, verdict, rechecking, task, changes>>

\* head: the index does not know the ledger, so the directory is asked.
Miss(t, l) ==
    /\ task[t] = NoTask
    /\ ~Held(l)
    /\ task' = [task EXCEPT ![t] = [op |-> "adopt", ledger |-> l, entry |-> NoEntry, step |-> "load"]]
    /\ answer' = NoAnswer
    /\ UNCHANGED <<setting, disk, forkFiles, index, used, endpoint, verdict, rechecking, changes>>

\* A ledger is served up to its first event that does not verify.
OnDisk(l) ==
    IF disk[l] = <<>> THEN NoEntry
    ELSE [chain |-> EventAt(disk[l], ValidLength(<<>>, disk[l])), forks |-> forkFiles[l]]

\* load_entry, without the index lock.
LoadEntry(t) ==
    /\ task[t] # NoTask /\ task[t].step = "load"
    /\ task' = [task EXCEPT ![t] = [@ EXCEPT !.entry = OnDisk(task[t].ledger), !.step = "insert"]]
    /\ answer' = NoAnswer
    /\ UNCHANGED <<setting, disk, forkFiles, index, used, endpoint, verdict, rechecking, changes>>

\* Mutant: the bytes of the entry it replaces stay counted.
NoteLedgerAdds(t) ==
    LET l == task[t].ledger
        read == task[t].entry
    IN /\ task[t] # NoTask /\ task[t].op = "note" /\ task[t].step = "insert"
       /\ index' = [index EXCEPT ![l] = read]
       /\ used' = used + BytesOf(read.chain)
       /\ verdict' = IF l \in WitnessFor THEN Recheck(index', endpoint) ELSE verdict
       /\ task' = [task EXCEPT ![t] = NoTask]
       /\ answer' = NoAnswer
       /\ UNCHANGED <<setting, disk, forkFiles, endpoint, rechecking, changes>>

\* Mutant: the bytes of the entry it inserts are not counted.
NoteLedgerSubtracts(t) ==
    LET l == task[t].ledger
        read == task[t].entry
    IN /\ task[t] # NoTask /\ task[t].op = "note" /\ task[t].step = "insert"
       /\ index' = [index EXCEPT ![l] = read]
       /\ used' = used - BytesOf(index[l].chain)
       /\ verdict' = IF l \in WitnessFor THEN Recheck(index', endpoint) ELSE verdict
       /\ task' = [task EXCEPT ![t] = NoTask]
       /\ answer' = NoAnswer
       /\ UNCHANGED <<setting, disk, forkFiles, endpoint, rechecking, changes>>

\* note_ledger, once it has the lock: the entry read replaces the one held.
NoteLedger(t) ==
    LET l == task[t].ledger
        read == task[t].entry
    IN /\ task[t] # NoTask /\ task[t].op = "note" /\ task[t].step = "insert"
       /\ index' = [index EXCEPT ![l] = read]
       /\ used' = used - BytesOf(index[l].chain) + BytesOf(read.chain)
       /\ verdict' = IF l \in WitnessFor THEN Recheck(index', endpoint) ELSE verdict
       /\ task' = [task EXCEPT ![t] = NoTask]
       /\ answer' = NoAnswer
       /\ UNCHANGED <<setting, disk, forkFiles, endpoint, rechecking, changes>>

\* adopt, once it has the lock: the entry is inserted and its bytes added.
Adopt(t) ==
    LET l == task[t].ledger
        read == task[t].entry
    IN /\ task[t] # NoTask /\ task[t].op = "adopt" /\ task[t].step = "insert"
       /\ index' = IF read = NoEntry THEN index ELSE [index EXCEPT ![l] = read]
       /\ used' = used + BytesOf(read.chain)
       /\ task' = [task EXCEPT ![t] = NoTask]
       /\ answer' = NoAnswer
       /\ UNCHANGED <<setting, disk, forkFiles, endpoint, verdict, rechecking, changes>>

\* note_endpoint: the endpoint under one lock, the recheck under the other.
SetEndpoint(e) ==
    /\ ~rechecking /\ e # endpoint
    /\ changes < MaxEndpointChanges
    /\ endpoint' = e /\ rechecking' = TRUE /\ changes' = changes + 1
    /\ answer' = NoAnswer
    /\ UNCHANGED <<setting, disk, forkFiles, index, used, verdict, task>>

\* Mutant: the verdicts of the old endpoint stay.
RecheckNothing ==
    /\ rechecking
    /\ rechecking' = FALSE
    /\ answer' = NoAnswer
    /\ UNCHANGED <<setting, disk, forkFiles, index, used, endpoint, verdict, task, changes>>

RecheckEndpoint ==
    /\ rechecking
    /\ verdict' = Recheck(index, endpoint)
    /\ rechecking' = FALSE
    /\ answer' = NoAnswer
    /\ UNCHANGED <<setting, disk, forkFiles, index, used, endpoint, task, changes>>

\* open: the process starts again and reload builds the index from the files.
Restart ==
    /\ index' = [l \in Ledgers |-> OnDisk(l)]
    /\ used' = SumFunctionOnSet([l \in Ledgers |-> BytesOf(OnDisk(l).chain)], Ledgers)
    /\ verdict' = Recheck(index', endpoint)
    /\ rechecking' = FALSE
    /\ task' = [t \in Threads |-> NoTask]
    /\ answer' = NoAnswer
    /\ UNCHANGED <<setting, disk, forkFiles, endpoint, changes>>
-----------------------------------------------------------------------------
Init ==
    /\ setting \in Settings /\ ValidSetting
    /\ disk = [l \in Ledgers |-> <<>>]
    /\ forkFiles = [l \in Ledgers |-> {}]
    /\ index = [l \in Ledgers |-> NoEntry]
    /\ used = 0
    /\ endpoint \in Endpoints
    /\ verdict = Recheck(index, endpoint)
    /\ rechecking = FALSE
    /\ task = [t \in Threads |-> NoTask]
    /\ answer = NoAnswer
    /\ changes = 0

Next ==
    \/ \E l \in Ledgers : PushEmpty(l)
    \/ \E l \in Ledgers, c \in AllChains : \E first \in 1..Len(c) : Push(l, c, first)
    \/ \E l \in WalletLedgers : \E e \in EventsOf[l] : WalletAppend(l, e)
    \/ \E l \in ToolLedgers : \E e \in EventsOf[l] : ToolAppend(l, e)
    \/ \E l \in WalletLedgers \cap SignsFor : \E n \in 1..(Len(disk[l]) - 1) : WalletCut(l, n)
    \/ \E l \in ToolLedgers : \E n \in 1..(Len(disk[l]) - 1) : ToolCut(l, n)
    \/ \E t \in Adopters, l \in Asked : Miss(t, l)
    \/ \E t \in Threads : LoadEntry(t) \/ NoteLedger(t) \/ Adopt(t)
    \/ \E e \in Endpoints : SetEndpoint(e)
    \/ RecheckEndpoint
    \/ Restart

Spec == Init /\ [][Next]_vars

-----------------------------------------------------------------------------
(* Properties.                                                             *)

Types ==
    /\ disk \in [Ledgers -> AllChains \cup {<<>>}]
    /\ forkFiles \in [Ledgers -> SUBSET AllChains]
    /\ index \in [Ledgers -> [chain : AllChains \cup {<<>>}, forks : SUBSET AllChains]]
    /\ \A l \in Ledgers :
          /\ disk[l] \in Chains(l) \cup {<<>>}
          /\ index[l].chain \in Chains(l) \cup {<<>>}
          /\ forkFiles[l] \cup index[l].forks \subseteq Chains(l)
    /\ setting \in Settings
    /\ endpoint \in Endpoints
    /\ verdict \in [WitnessFor -> {"none", "no_local_copy", "advertises_nothing", "advertises_others"}]
    /\ rechecking \in BOOLEAN
    /\ task \in [Threads -> {NoTask} \cup
          [op : {"note", "adopt"}, ledger : Ledgers, step : {"load", "insert"},
           entry : [chain : AllChains \cup {<<>>}, forks : SUBSET AllChains]]]
    /\ changes \in 0..MaxEndpointChanges

\* The types of the directories, the index and the threads; the running total
\* never goes below zero.
TypeOK == Types /\ used \in Nat

\* The bytes of the events the index holds.
HeldBytes == SumFunctionOnSet([l \in Ledgers |-> BytesOf(index[l].chain)], Ledgers)

\* storage_used, which check_caps and GET /api/node go by, never counts less
\* than the bytes of the events the index holds, whatever pushes, notes,
\* adoptions and restarts did; it is exactly that while no read adopts a ledger
\* (adopt adds the bytes of an entry a push or another read has inserted since).
UsedIsExact ==
    used >= HeldBytes /\ (Asked = {} => used = HeldBytes)

\* A witness_for entry has no gap (WitnessForEntry::gap) exactly when the copy
\* held now advertises the endpoint held now, once note_endpoint has finished;
\* adopt does not recheck, so an identity that a read may adopt is excepted.
VerdictsAreCurrent ==
    ~rechecking => \A w \in WitnessFor \ Asked :
        verdict[w] = "none" <=> endpoint \in AdvertisedEndpoints(index[w].chain)

\* A ledger this home neither signs for nor wrote itself is held only because
\* its chain at some point named an identity this home witnesses for, whose
\* copy here at some point advertised this home, or by the legacy clause of a
\* home that witnesses for somebody (LedgerStorage::admit).  An identity whose
\* directory this home may cut back is taken to have: the event is gone.
StrangersWereAdvertised ==
    \A l \in Ledgers \ (SignsFor \cup WalletLedgers \cup ToolLedgers) : Held(l) =>
        \/ \E w \in WitnessFor :
              /\ \E n \in 1..Len(index[l].chain) : w \in WitnessIdentities(EventAt(index[l].chain, n))
              /\ w \in CutLedgers \/ \E n \in 1..Len(disk[w]) :
                    AdvertisedEndpoints(EventAt(disk[w], n)) \cap Endpoints # {}
        \/ /\ Legacy /\ WitnessFor # {}
           /\ \E n \in 1..Len(index[l].chain) :
                 WitnessEndpoints(EventAt(index[l].chain, n)) \cap Endpoints # {}

\* A ledger stored under a witness identity keeps growing (admit, clause 2):
\* a push that splices is never refused admission while the stored copy names
\* an identity this home witnesses for, even after that identity stopped
\* advertising this home, so the event that drops this home reaches it.
StoredLedgersKeepGrowing ==
    answer.code = "not_admitted" => ~NamesAny(index[answer.ledger].chain, WitnessFor)

\* No push replaces or removes the event stored at a sequence
\* (LedgerStorage::splice), also when the index is behind the directory, ahead
\* of it or on another branch; nothing removes one but a writer that discards
\* its own branch of a ledger it may append to, and it keeps what came before.
FirstSeenWins ==
    [][\A l \in Ledgers : \/ Prefix(disk[l], disk'[l])
                          \/ /\ l \in CutLedgers /\ answer' = NoAnswer
                             /\ disk'[l] # <<>> /\ Prefix(disk'[l], disk[l])]_vars

\* A fork record is evidence against the chain this home keeps
\* (record_divergence): its event verifies on a prefix of that chain and
\* contends with an event of it; the index holds none the files do not hold.
\* Of a ledger whose directory may be cut back only the record itself is left:
\* the event it contends with may be gone (WalletCore::truncate).
ForksAreEvidence ==
    \A l \in Ledgers :
        /\ \A rival \in forkFiles[l] :
              /\ Len(rival) >= 2 /\ Last(rival).verifies
              /\ l \notin CutLedgers =>
                    /\ Len(rival) <= Len(disk[l])
                    /\ Prefix(Front(rival), disk[l]) /\ ~Prefix(rival, disk[l])
        /\ index[l].forks \subseteq forkFiles[l]

\* Recording stops once a ledger holds its cap of fork records
\* (MAX_FORK_RECORDS, Entry::forks_truncated).  The index counts them, so a ledger
\* that this process rereads is excepted: note_ledger and adopt may put back an
\* entry read before the last records were made, and as many are made again.
ForkCapHolds ==
    \A l \in Ledgers \ (WalletLedgers \cup Asked) : Cardinality(forkFiles[l]) <= ForkRecords

\* No push carries this home over a cap (check_caps): a push that stores leaves
\* its ledger, the number of ledgers and the whole store within them, counting
\* the events themselves and not the running total.
PushesStayWithinCaps ==
    [][\A l \in Ledgers : (answer' # NoAnswer /\ index'[l].chain # index[l].chain) =>
          /\ Len(index'[l].chain) <= EventsPerLedger
          /\ BytesOf(index'[l].chain) <= BytesPerLedger
          /\ ~Held(l) => Cardinality({k \in Ledgers : Held(k)}') <= LedgersCap
          /\ HeldBytes' <= StorageCapacity]_vars

\* Admission follows the policy: it goes by the verdicts of now, lets in only
\* what a witness identity of this home stood for, and keeps what it let in
\* growing (LedgerStorage::admit and its four clauses).
AdmissionFollowsThePolicy ==
    TypeOK /\ VerdictsAreCurrent /\ StrangersWereAdvertised /\ StoredLedgersKeepGrowing

\* The fork records of a ledger are evidence, and at most the cap of them.
ForkRecordsHold == ForksAreEvidence /\ ForkCapHolds
=============================================================================
