---------------------------- MODULE LedgerFiles -----------------------------
(***************************************************************************)
(* One ledger directory of a node home and everything that writes it       *)
(* (crates/mabel-node/src: ledger.rs, atomic.rs, the append, store_events  *)
(* and truncate of wallet/core.rs, and the index of storage.rs).           *)
(*                                                                         *)
(* Event files are written one by one and head.json last.  A WalletCore    *)
(* serialises its writers with its append lock; a LedgerStorage serialises *)
(* pushes with its index lock.  The two are different mutexes, and a second*)
(* process (the CLI beside a running node) has mutexes of its own, so a    *)
(* writer is named by the lock it works under.  A process may crash        *)
(* between any two writes.                                                 *)
(*                                                                         *)
(* Abstractions.  An event id commits to the whole chain before it, so the *)
(* event at seq n IS a sequence of n + 1 tags, and prev links are prefixes.*)
(* One rename is one step (write_atomic), and so is one pass of reads.     *)
(* Signature and payload rules are LedgerFold's; every chain here verifies.*)
(***************************************************************************)
EXTENDS Integers, Sequences, FiniteSets

CONSTANTS Wallets,      \* append locks: one per process that appends
          Servers,      \* index locks: one per process that takes pushes
          Process,      \* the processes that share this home
          Indexed,      \* the processes whose WalletCore has an index to note
          ProcessOf,    \* the process a lock belongs to
          Tags,         \* what a signed event may say, beyond the inception
          MaxLen,       \* bound: events in the chain
          MaxCrashes,   \* bound: crashes
          Truncating    \* whether ensure_fresh meets a diverging witness

ASSUME WritersAssumption ==
    /\ ProcessOf \in [Wallets \cup Servers -> Process]
    /\ Indexed \subseteq Process
    /\ \A s \in Servers : ProcessOf[s] \in Indexed
    /\ Wallets \cap Servers = {}
    /\ \A v, w \in Wallets : ProcessOf[v] = ProcessOf[w] => v = w
    /\ \A v, w \in Servers : ProcessOf[v] = ProcessOf[w] => v = w
ASSUME BoundsAssumption == MaxLen \in Nat \ {0} /\ MaxCrashes \in Nat
ASSUME TruncatingAssumption == Truncating \in BOOLEAN

VARIABLES files,        \* the event file at each seq, <<>> when there is none
          head,         \* the event head.json names, <<>> when it is missing
          index,        \* the chain each process's index serves, <<>> for none
          up,           \* the processes that are running
          pc,           \* where the holder of each lock is, "idle" when free
          target,       \* the chain that holder is storing
          next,         \* the seq its next event file takes
          doomed,       \* the seqs its truncation listed and has yet to remove
          seen,         \* what its note_ledger read before taking the index lock
          after,        \* where it goes once it has noted
          acked,        \* the chains whose append was answered Ok, not discarded since
          mishaps,      \* history: the two mishaps the locks do not rule out
          crashes

vars == <<files, head, index, up, pc, target, next, doomed, seen, after, acked, mishaps, crashes>>

Writers == Wallets \cup Servers
Seqs == 0..(MaxLen - 1)
Genesis == "genesis"

\* Every chain that may exist: one inception, then any tags.
Chains == {<<Genesis>> \o s : s \in UNION {[1..n -> Tags] : n \in 0..(MaxLen - 1)}}

EventAt(chain, seq) == SubSeq(chain, 1, seq + 1)
Prefix(p, chain) == Len(p) <= Len(chain) /\ SubSeq(chain, 1, Len(p)) = p

\* shared_prefix: how many leading events two runs share byte for byte.
SharedLength(c, d) == Cardinality({n \in 1..Len(c) : n <= Len(d) /\ SubSeq(c, 1, n) = SubSeq(d, 1, n)})

-----------------------------------------------------------------------------
(* Reads.                                                                  *)

\* The end of the run 0, 1, 2, ... of event files.
ContiguousEvent ==
    LET run == {s \in Seqs : \A t \in 0..s : files[t] # <<>>} IN
    IF run = {} THEN <<>> ELSE files[CHOOSE s \in run : \A t \in run : t <= s]

\* head(): the cache as stored, rebuilt from the files when it is missing.
StoredHead == IF head = <<>> THEN ContiguousEvent ELSE head

\* read_all() finds a file for every seq up to the head.
Readable == \A s \in 0..(Len(StoredHead) - 1) : files[s] # <<>>

\* The fold of what read_all() returns stops at the first broken prev link.
Folded ==
    LET good == {s \in 0..(Len(StoredHead) - 1) : \A t \in 0..s : files[t] = EventAt(files[s], t)} IN
    IF good = {} THEN <<>> ELSE files[CHOOSE s \in good : \A t \in good : t <= s]

\* The chain folds to its head: require_valid().
Verifies == Readable /\ Folded = StoredHead

\* Byte for byte the same up to the shorter of the two.
FilesMatch(chain, through) ==
    \A s \in 0..(through - 1) : s < Len(chain) => files[s] = EventAt(chain, s)

-----------------------------------------------------------------------------
Init ==
    /\ files = [s \in Seqs |-> IF s = 0 THEN <<Genesis>> ELSE <<>>]
    /\ head = <<Genesis>>
    /\ up = Process
    /\ index = [p \in Indexed |-> <<Genesis>>]
    /\ pc = [w \in Writers |-> "idle"]
    /\ target = [w \in Writers |-> <<>>]
    /\ next = [w \in Writers |-> 0]
    /\ doomed = [w \in Writers |-> {}]
    /\ seen = [w \in Writers |-> <<>>]
    /\ after = [w \in Writers |-> "idle"]
    /\ acked = {<<Genesis>>}
    /\ mishaps = {}
    /\ crashes = 0

Goto(w, label) == pc' = [pc EXCEPT ![w] = label]

\* Releasing the lock forgets what the holder had in memory.
Release(w) ==
    /\ Goto(w, "idle")
    /\ target' = [target EXCEPT ![w] = <<>>]
    /\ next' = [next EXCEPT ![w] = 0]
    /\ doomed' = [doomed EXCEPT ![w] = {}]
    /\ seen' = [seen EXCEPT ![w] = <<>>]
    /\ after' = [after EXCEPT ![w] = "idle"]

\* Taking the lock to store chain c, starting at label.
Acquire(w, c, seq, label, then) ==
    /\ ProcessOf[w] \in up
    /\ pc[w] = "idle"
    /\ Goto(w, label)
    /\ target' = [target EXCEPT ![w] = c]
    /\ next' = [next EXCEPT ![w] = seq]
    /\ after' = [after EXCEPT ![w] = then]
    /\ UNCHANGED seen

-----------------------------------------------------------------------------
(* What starts a write.                                                    *)

\* append_event: fold what is stored, refuse a chain that does not verify,
\* sign one event on its head.
BeginAppend(w, tag) ==
    /\ StoredHead # <<>> /\ Verifies /\ Len(StoredHead) < MaxLen
    /\ head' = StoredHead
    /\ Acquire(w, Append(StoredHead, tag), Len(StoredHead), "check", "acked")
    /\ UNCHANGED <<files, index, up, doomed, acked, mishaps, crashes>>

\* fetch, or a fast-forward of ensure_fresh: a peer served chain c.
BeginFetch(w, c) ==
    /\ Acquire(w, c, 0, "overlap", "acked")
    /\ UNCHANGED <<files, head, index, up, doomed, acked, mishaps, crashes>>

\* ensure_fresh against a witness whose chain c is not a prefix of the local
\* one and does not extend it: drop what is local past the shared prefix.
BeginTruncate(w, c) ==
    /\ Truncating
    /\ StoredHead # <<>> /\ Readable
    /\ ~Prefix(c, StoredHead) /\ ~Prefix(StoredHead, c)
    /\ head' = StoredHead
    /\ LET shared == SharedLength(c, StoredHead) IN
         /\ Acquire(w, c, shared, "remove", "overlap")
         /\ doomed' = [doomed EXCEPT ![w] = {s \in Seqs : s >= shared /\ files[s] # <<>>}]
    /\ UNCHANGED <<files, index, up, acked, mishaps, crashes>>

\* push: the index decides what is new and whether it splices; the overlap is
\* compared with the files.  A diverging or unreadable overlap stores nothing.
BeginPush(w, c) ==
    LET held == index[ProcessOf[w]] IN
    /\ Len(c) > Len(held)
    /\ Prefix(held, c)
    /\ FilesMatch(c, Len(held))
    /\ Acquire(w, c, Len(held), "check", "publish")
    /\ UNCHANGED <<files, head, index, up, doomed, acked, mishaps, crashes>>

-----------------------------------------------------------------------------
(* The steps of a write, each under the lock it was begun with.            *)

\* The directory changes under a writer that works under another lock and has
\* done its reads: it has yet to write what it checked, to publish what it read,
\* or to finish removing what it listed.
Overtake(w) ==
    LET overtaken == {v \in Writers \ {w} : pc[v] \in {"write", "head", "publish", "replace", "remove", "unhead"}} IN
    mishaps' = IF overtaken = {} THEN mishaps ELSE mishaps \cup {"overtaken"}

\* Mutant: one event too many is taken as held.
OverlapOffByOne(w) ==
    /\ pc[w] = "overlap"
    /\ head' = StoredHead
    /\ IF FilesMatch(target[w], Len(StoredHead))
       THEN /\ next' = [next EXCEPT ![w] = Len(StoredHead) + 1]
            /\ after' = [after EXCEPT ![w] = "acked"]
            /\ Goto(w, IF Len(StoredHead) < Len(target[w]) THEN "check" ELSE "note")
            /\ UNCHANGED <<target, doomed, seen>>
       ELSE Release(w)
    /\ UNCHANGED <<files, index, up, acked, mishaps, crashes>>

\* store_events: skip what is held, refuse a copy that diverges from it.
Overlap(w) ==
    /\ pc[w] = "overlap"
    /\ head' = StoredHead
    /\ IF FilesMatch(target[w], Len(StoredHead))
       THEN /\ next' = [next EXCEPT ![w] = Len(StoredHead)]
            /\ after' = [after EXCEPT ![w] = "acked"]
            /\ Goto(w, IF Len(StoredHead) < Len(target[w]) THEN "check" ELSE "note")
            /\ UNCHANGED <<target, doomed, seen>>
       ELSE Release(w)
    /\ UNCHANGED <<files, index, up, acked, mishaps, crashes>>

\* Mutant: the file is not looked at.
HoldsNothing(c, seq) == c = <<>> /\ files[seq] # <<>>

HoldsOtherBytes(c, seq) == files[seq] \notin {<<>>, EventAt(c, seq)}

\* Mutant: head.json is renamed before the events it counts.
CheckHeadFirst(w) ==
    /\ pc[w] = "check"
    /\ IF /\ next[w] = Len(StoredHead)
          /\ \A s \in next[w]..(Len(target[w]) - 1) : ~HoldsOtherBytes(target[w], s)
       THEN head' = target[w] /\ Goto(w, "write") /\ UNCHANGED <<target, next, doomed, seen, after>>
       ELSE head' = StoredHead /\ Release(w)
    /\ UNCHANGED <<files, index, up, acked, crashes>>
    /\ Overtake(w)

\* write_events, its checks: the batch starts at the head it reads now, and no
\* file of it holds other bytes.
Check(w) ==
    /\ pc[w] = "check"
    /\ head' = StoredHead
    /\ IF /\ next[w] = Len(StoredHead)
          /\ \A s \in next[w]..(Len(target[w]) - 1) : ~HoldsOtherBytes(target[w], s)
       THEN Goto(w, "write") /\ UNCHANGED <<target, next, doomed, seen, after>>
       ELSE Release(w)
    /\ UNCHANGED <<files, index, up, acked, mishaps, crashes>>

\* write_events, its writes: one rename per event.
Write(w) ==
    /\ pc[w] = "write"
    /\ files' = [files EXCEPT ![next[w]] = EventAt(target[w], next[w])]
    /\ next' = [next EXCEPT ![w] = @ + 1]
    /\ Goto(w, IF next[w] + 1 = Len(target[w]) THEN "head" ELSE "write")
    /\ UNCHANGED <<head, index, up, target, doomed, seen, after, acked, crashes>>
    /\ Overtake(w)

\* Mutant: head.json is left as it was.
WriteNoHead(w) ==
    /\ pc[w] = "head"
    /\ Goto(w, IF w \in Servers THEN "publish" ELSE "note")
    /\ UNCHANGED <<files, head, index, up, target, next, doomed, seen, after, acked, mishaps, crashes>>

\* append: head.json is renamed last.
WriteHead(w) ==
    /\ pc[w] = "head"
    /\ head' = target[w]
    /\ Goto(w, IF w \in Servers THEN "publish" ELSE "note")
    /\ UNCHANGED <<files, index, up, target, next, doomed, seen, after, acked, crashes>>
    /\ Overtake(w)

\* Mutant: the push waits for the append lock while it holds the index lock.
PublishUnderBothLocks(w) ==
    /\ pc[w] = "publish"
    /\ \A v \in Wallets : ProcessOf[v] = ProcessOf[w] => pc[v] = "idle"
    /\ index' = [index EXCEPT ![ProcessOf[w]] = target[w]]
    /\ acked' = acked \cup {target[w]}
    /\ Release(w)
    /\ UNCHANGED <<files, head, up, mishaps, crashes>>

\* store_run: the index takes the new head, still under its lock.
Publish(w) ==
    /\ pc[w] = "publish"
    /\ index' = [index EXCEPT ![ProcessOf[w]] = target[w]]
    /\ acked' = acked \cup {target[w]}
    /\ Release(w)
    /\ UNCHANGED <<files, head, up, mishaps, crashes>>

\* truncate: the listed event files in ascending order, then head.json, then the
\* rebuild.  What it removes is discarded on purpose.
RemoveEvent(w) ==
    /\ pc[w] = "remove"
    /\ LET first == CHOOSE s \in doomed[w] : \A t \in doomed[w] : s <= t IN
         /\ files' = [files EXCEPT ![first] = <<>>]
         /\ doomed' = [doomed EXCEPT ![w] = @ \ {first}]
         /\ acked' = {a \in acked : Len(a) <= first}
    /\ Goto(w, IF doomed'[w] = {} THEN "unhead" ELSE "remove")
    /\ UNCHANGED <<head, index, up, target, next, seen, after, crashes>>
    /\ Overtake(w)

RemoveHead(w) ==
    /\ pc[w] = "unhead"
    /\ head' = <<>>
    /\ Goto(w, "rebuild")
    /\ UNCHANGED <<files, index, up, target, next, doomed, seen, after, acked, crashes>>
    /\ Overtake(w)

Rebuild(w) ==
    /\ pc[w] = "rebuild"
    /\ head' = ContiguousEvent
    /\ Goto(w, "note")
    /\ UNCHANGED <<files, index, up, target, next, doomed, seen, after, acked, crashes>>
    /\ Overtake(w)

\* note_ledger reads the files first and takes the index lock afterwards; a
\* failed read is logged and swallowed, and a core with no index notes nothing.
NoteLoad(w) ==
    /\ pc[w] = "note"
    /\ IF ProcessOf[w] \in Indexed /\ Readable
       THEN seen' = [seen EXCEPT ![w] = Folded] /\ head' = StoredHead /\ Goto(w, "replace")
       ELSE UNCHANGED <<seen, head>> /\ Goto(w, after[w])
    /\ UNCHANGED <<files, index, up, target, next, doomed, after, acked, mishaps, crashes>>

IndexLockFree(p) == \A s \in Servers : ProcessOf[s] = p => pc[s] = "idle"

\* Mutant: the entry that was read is dropped.
NoteNothing(w) ==
    /\ pc[w] = "replace"
    /\ IndexLockFree(ProcessOf[w])
    /\ Goto(w, after[w])
    /\ UNCHANGED <<files, head, index, up, target, next, doomed, seen, after, acked, mishaps, crashes>>

NoteReplace(w) ==
    /\ pc[w] = "replace"
    /\ IndexLockFree(ProcessOf[w])
    /\ index' = [index EXCEPT ![ProcessOf[w]] = seen[w]]
    /\ Goto(w, after[w])
    /\ UNCHANGED <<files, head, up, target, next, doomed, seen, after, acked, mishaps, crashes>>

\* The write is answered Ok and the append lock dropped.
Acknowledge(w) ==
    /\ pc[w] = "acked"
    /\ acked' = acked \cup {target[w]}
    /\ Release(w)
    /\ UNCHANGED <<files, head, index, up, mishaps, crashes>>

-----------------------------------------------------------------------------
(* A process dies with its locks and its index; the files stay.  On the    *)
(* next start the index is rebuilt, and a ledger that cannot be read stops *)
(* the start.                                                              *)

Crash(p) ==
    /\ p \in up
    /\ crashes < MaxCrashes
    /\ crashes' = crashes + 1
    /\ up' = up \ {p}
    /\ index' = [q \in Indexed |-> IF q = p THEN <<>> ELSE index[q]]
    /\ LET Cleared(f, none) == [w \in Writers |-> IF ProcessOf[w] = p THEN none ELSE f[w]] IN
         /\ pc' = Cleared(pc, "idle")
         /\ target' = Cleared(target, <<>>)
         /\ next' = Cleared(next, 0)
         /\ doomed' = Cleared(doomed, {})
         /\ seen' = Cleared(seen, <<>>)
         /\ after' = Cleared(after, "idle")
    /\ mishaps' = IF \E w \in Writers : ProcessOf[w] = p /\ pc[w] \in {"remove", "unhead"}
                  THEN mishaps \cup {"torn"} ELSE mishaps
    /\ UNCHANGED <<files, head, acked>>

Restart(p) ==
    /\ p \notin up
    /\ Readable
    /\ up' = up \cup {p}
    /\ head' = StoredHead
    /\ index' = [q \in Indexed |-> IF q = p THEN Folded ELSE index[q]]
    /\ UNCHANGED <<files, pc, target, next, doomed, seen, after, acked, mishaps, crashes>>

-----------------------------------------------------------------------------
Begin ==
    \/ \E w \in Wallets :
          \/ \E tag \in Tags : BeginAppend(w, tag)
          \/ \E c \in Chains : BeginFetch(w, c) \/ BeginTruncate(w, c)
    \/ \E w \in Servers, c \in Chains : BeginPush(w, c)

Step(w) ==
    \/ Overlap(w) \/ Check(w) \/ Write(w) \/ WriteHead(w) \/ Publish(w)
    \/ RemoveEvent(w) \/ RemoveHead(w) \/ Rebuild(w)
    \/ NoteLoad(w) \/ NoteReplace(w) \/ Acknowledge(w)

Next ==
    \/ Begin
    \/ \E w \in Writers : Step(w)
    \/ \E p \in Process : Crash(p) \/ Restart(p)

Spec == Init /\ [][Next]_vars

\* A thread that holds a lock, or waits for one that is free, keeps being
\* scheduled.
FairSpec == Spec /\ \A w \in Writers : WF_vars(Step(w))

-----------------------------------------------------------------------------
(* Properties.                                                             *)

Labels == {"idle", "overlap", "check", "write", "head", "publish", "remove", "unhead",
           "rebuild", "note", "replace", "acked"}

\* The types of the directory, the indexes and the lock holders.
TypeOK ==
    /\ files \in [Seqs -> Chains \cup {<<>>}]
    /\ head \in Chains \cup {<<>>}
    /\ index \in [Indexed -> Chains \cup {<<>>}]
    /\ up \subseteq Process
    /\ pc \in [Writers -> Labels]
    /\ target \in [Writers -> Chains \cup {<<>>}]
    /\ next \in [Writers -> 0..MaxLen]
    /\ doomed \in [Writers -> SUBSET Seqs]
    /\ seen \in [Writers -> Chains \cup {<<>>}]
    /\ after \in [Writers -> {"idle", "acked", "overlap", "publish"}]
    /\ acked \subseteq Chains
    /\ mishaps \subseteq {"overtaken", "torn"}
    /\ crashes \in 0..MaxCrashes

MidTruncate == \E w \in Writers : pc[w] \in {"remove", "unhead"}
Settled == mishaps = {} /\ ~MidTruncate

\* A crash leaves a shorter but valid ledger (LedgerStore::append): every file up
\* to the head is there and the files are one chain that ends in the event
\* head.json names, unless a truncation is under way or was torn by a crash, or
\* a writer was overtaken between its check and its writes.
ServedChainIsWhole == Settled => Verifies

\* What was answered Ok stays (LedgerStore::append, write_atomic): an event
\* whose append was acknowledged is still served, whatever crashed since,
\* unless a truncation discarded it or one of the two mishaps occurred.
AcknowledgedIsServed == Settled => \A a \in acked : Prefix(a, Folded)

\* What a peer reads is what is on disk (LedgerStorage::note_ledger): when no
\* lock is held and no read was overtaken, the index of every running process
\* is the stored chain.
IndexIsTheDisk ==
    (Settled /\ \A w \in Writers : pc[w] = "idle") => \A p \in up \cap Indexed : index[p] = Folded

\* What an append promises (LedgerStore::append, note_ledger): the directory is
\* one whole chain, everything acknowledged is part of it, and the index that
\* peers are answered from says the same.
AppendsAreDurable == TypeOK /\ ServedChainIsWhole /\ AcknowledgedIsServed /\ IndexIsTheDisk

\* A file with other bytes is never overwritten (LedgerStore::write_events) by a
\* writer that was not overtaken, truncation being a removal: an event that a
\* crash left behind the head is met by the next append, not replaced.
NeverOverwritten ==
    [][mishaps = {} => \A s \in Seqs : files[s] # <<>> => files'[s] \in {files[s], <<>>}]_vars

\* The same with no exception: what LedgerStore promises "whatever the writer".
NeverOverwrittenByAnyone ==
    [][\A s \in Seqs : files[s] # <<>> => files'[s] \in {files[s], <<>>}]_vars

\* The promise of head.json with no exception: whatever crashed, the directory
\* is a valid ledger.
CrashLeavesAValidLedger == ~MidTruncate => Verifies

\* No deadlock between the two locks (append_lock, LedgerStorage::lock):
\* note_ledger takes the index lock inside the append lock and no path takes
\* them the other way round, so once new requests stop, every lock is released.
\* (While requests keep coming, std::sync::Mutex promises a waiter nothing.)
LocksDrain == <>[][~Begin]_vars => <>[](\A w \in Writers : pc[w] = "idle")
=============================================================================
