------------------------------- MODULE Wallet -------------------------------
(***************************************************************************)
(* The wallet's commands on one shared ledger (wallet/core.rs, the routes   *)
(* of wallet/service.rs, the commands of mabel-cli), as several homes and   *)
(* witnesses see it.                                                        *)
(*                                                                          *)
(* Every command that signs goes through the same steps: it checks that     *)
(* this home may sign for the ledger, asks the witnesses unless this home   *)
(* holds every controller's key, folds its copy, signs, and writes.  A      *)
(* route of the node holds the ledger's append lock throughout; a command   *)
(* of the command line is another process and holds no lock that the node   *)
(* sees.  A home's node also takes pushes for a ledger the home signs for,  *)
(* under the lock of its index and not the append lock.  Each of the three  *)
(* checks the directory before it writes, and the others may come in        *)
(* between.  Invitations and acceptances are files that people pass around: *)
(* they may be used late, twice, or never.                                  *)
(*                                                                          *)
(* An event is named by a number that is never used twice, as its hash is.  *)
(* The fold is the one of LedgerFold, as a function of a chain.             *)
(***************************************************************************)
EXTENDS Integers, Sequences, FiniteSets, SequencesExt

CONSTANTS
  Homes, Witnesses,   \* the homes, and the endpoints of the witnesses, in order
  Identities,         \* the people who may be principals
  HomeOf,             \* [Identities -> Homes]: where the key of each is
  Founder,            \* who creates the ledger
  Ledger,             \* the ledger's own identity
  Clis,               \* the homes on which commands are run beside the node
  Values,             \* what a profile or an endpoint list may be
  BundleCap,          \* MAX_BUNDLE_EVENTS, or where its bytes end
  Settings            \* what is tried: the root, who shares control to begin with, the
                      \* operations and roles, the homes that run commands, and a bound:
                      \* [root, shared, ops, roles, clis, events]

ASSUME WalletAssumption ==
  /\ HomeOf \in [Identities -> Homes] /\ Founder \in Identities
  /\ Ledger \notin Identities /\ Clis \subseteq Homes /\ BundleCap \in Nat
  /\ \A s \in Settings :
       /\ s.root \in {"raw", "identity"} /\ s.roles \subseteq {"member", "controller"}
       /\ s.shared \subseteq Identities \ {Founder} /\ s.clis \subseteq Clis /\ s.events \in Nat

Nobody == "nobody"
Principals == Identities \cup {Ledger}
Copies == Homes \cup Range(Witnesses)
Commands == (Homes \X {"node"}) \cup (Clis \X {"cli"})
Peers == Homes \X {"peer"}      \* the push that a home's node is taking
Writers == Commands \cup Peers

VARIABLES
  setting,      \* the root of the ledger, and what is tried in this behaviour
  copy,         \* what every home and witness stores of it: a chain of events
  past,         \* event files past the head, which one writer left to another, per home
  link,         \* controlled_by in the ledger's meta.json, per home
  job,          \* what the node, a command line and the node's peer are at
  bundles,      \* invitation bundles that were handed out
  acceptances,  \* acceptance files that were handed out
  signed,       \* how many events were ever signed
  overlap       \* history: the homes where one writer wrote or cut while another was
                \* past its check

ledgers == <<copy, past, overlap>>
vars == <<setting, ledgers, link, job, bundles, acceptances, signed>>
files == <<bundles, acceptances>>

-----------------------------------------------------------------------------
(* The fold of a chain *)

RootIdentity == IF setting.root = "raw" THEN Ledger ELSE Founder
KeyHome(i) == IF i = Ledger THEN HomeOf[Founder] ELSE HomeOf[i]

Empty ==
  [ok |-> TRUE, head |-> -1, roles |-> [i \in Principals |-> "none"],
   offers |-> {}, used |-> {}, standing |-> {}, document |-> Nobody]

Offered(st, i) == {o \in st.offers : o.who = i}
Controllers(st) == {i \in Principals : st.roles[i] = "controller"}

\* An acceptance names the invitation it accepts.
NamesAnyOffer(o, e) == o.who = e.who   \* mutant
NamesOffer(o, e) == o.event = e.ref /\ o.who = e.who

\* Taking i's role of controller away leaves another controller, and a raw
\* root keeps its own.
Dispensable(st, i) == i # Ledger /\ Controllers(st) \ {i} # {}

Accepts(st, e) ==
  /\ e.prev = st.head
  /\ e.op = "inception" => st = Empty /\ e.by = RootIdentity
  /\ e.op # "inception" => e.by \in Controllers(st)
  /\ e.op = "invite" => e.who # Ledger /\ Offered(st, e.who) = {}
  /\ e.op = "admit" =>
       \E o \in st.offers :
         /\ NamesOffer(o, e)
         /\ (st.roles[o.who] = "controller" /\ o.role # "controller") => Dispensable(st, o.who)
  /\ e.op = "remove" =>
       /\ st.roles[e.who] # "none" \/ Offered(st, e.who) # {}
       /\ st.roles[e.who] = "controller" => Dispensable(st, e.who)
  /\ e.op = "trust" => st.standing = {}
  /\ e.op = "revoke" => e.ref \in st.standing

After(st, e) ==
  CASE e.op = "inception" -> [st EXCEPT !.roles[e.by] = "controller"]
    [] e.op = "invite" -> [st EXCEPT !.offers = @ \cup {[who |-> e.who, role |-> e.role, event |-> e.id]}]
    [] e.op = "admit" ->
         LET o == CHOOSE o \in st.offers : NamesOffer(o, e)
         IN [st EXCEPT !.roles[o.who] = o.role, !.offers = @ \ {o}, !.used = @ \cup {e.ref}]
    [] e.op = "remove" -> [st EXCEPT !.roles[e.who] = "none", !.offers = @ \ Offered(st, e.who)]
    [] e.op = "trust" -> [st EXCEPT !.standing = @ \cup {e.id}]
    [] e.op = "revoke" -> [st EXCEPT !.standing = @ \ {e.ref}]
    [] e.op = "document" -> [st EXCEPT !.document = e.value]
    [] e.op = "witnesses" -> st

\* LoadedLedger::fold: everything before the first event that breaks a rule.
Apply(st, e) ==
  IF st.ok /\ Accepts(st, e) THEN [After(st, e) EXCEPT !.head = e.id] ELSE [st EXCEPT !.ok = FALSE]

Fold(chain) == FoldLeft(Apply, Empty, chain)

SharedPrefix(a, b) ==
  CHOOSE n \in 0..Len(a) :
    /\ n <= Len(b) /\ SubSeq(a, 1, n) = SubSeq(b, 1, n)
    /\ n = Len(a) \/ n = Len(b) \/ a[n + 1] # b[n + 1]

Diverge(a, b) == SharedPrefix(a, b) < Len(a) /\ SharedPrefix(a, b) < Len(b)

-----------------------------------------------------------------------------
(* Who signs *)

KeysItself(h, i) == KeyHome(i) = h /\ (i = Ledger => setting.root = "raw")
SigningIdentity(h, i) ==
  IF KeysItself(h, i) THEN i ELSE IF i = Ledger /\ link[h] # Nobody THEN link[h] ELSE i
CanSignFor(h, i) == KeysItself(h, SigningIdentity(h, i))
HoldsKey(h, i) == KeyHome(i) = h

\* Mutant: a role that was lost keeps its link.
LinkOnceMade(h, chain) == link[h]

\* Mutant: any controller will do.
LocalControllerAnyone(h, chain) ==
  LET held == Controllers(Fold(chain)) \ {Ledger} IN IF held = {} THEN Nobody ELSE CHOOSE i \in held : TRUE

\* The first local identity that the chain names a controller.
LocalController(h, chain) ==
  LET held == {i \in Controllers(Fold(chain)) \ {Ledger} : HoldsKey(h, i)}
  IN IF held = {} THEN Nobody ELSE CHOOSE i \in held : TRUE

LinkLocalControl(h, chain) ==
  IF KeysItself(h, Ledger) THEN link[h] ELSE LocalController(h, chain)

\* Every controller's key is in this home, so that nobody else can append.
SolelyControls(h, chain) ==
  Controllers(Fold(chain)) # {} /\ \A i \in Controllers(Fold(chain)) : HoldsKey(h, i)

-----------------------------------------------------------------------------
(* A command that signs *)

Idle == [at |-> "idle"]

\* What a command is asked to sign, and in whose name.  Trust and documents
\* are signed in the name of the ledger, the rest by the identity it is given.
\* An acceptance to admit is a file that somebody handed over, and an
\* attestation to revoke is named by its event.
Invites == [op : {"invite"}, as : Principals, who : Identities, role : setting.roles]
Admissions == {[op |-> "admit", as |-> i, ref |-> a.ref, who |-> a.who] : i \in Principals, a \in acceptances}
Removals == [op : {"remove"}, as : Principals, who : Identities]
Attestations == [op : {"trust"}, as : {Ledger}]
Revocations(h) == {[op |-> "revoke", as |-> Ledger, ref |-> n] : n \in Fold(copy[h]).standing}
Documents == [op : {"document"}, as : {Ledger}, value : Values]
WitnessSets == [op : {"witnesses"}, as : {Ledger}]

\* The event that an intent becomes when it is signed.
EventOf(h, x, st) ==
  [by |-> SigningIdentity(h, x.as), id |-> signed + 1, prev |-> st.head, op |-> x.op,
   who |-> IF x.op \in {"invite", "remove", "admit"} THEN x.who ELSE Nobody,
   role |-> IF x.op = "invite" THEN x.role ELSE "none",
   ref |-> IF x.op \in {"admit", "revoke"} THEN x.ref ELSE 0,
   value |-> IF x.op = "document" THEN x.value ELSE Nobody]

\* The route takes the ledger's append lock and asks who may sign; the command
\* line does the same in a process of its own, also of the identity that signs.
Begin(c, x) ==
  /\ job[c] = Idle /\ copy[c[1]] # <<>> /\ signed < setting.events
  /\ x.op \in setting.ops /\ (c[2] = "cli" => c[1] \in setting.clis)
  /\ CanSignFor(c[1], Ledger)
  /\ c[2] = "cli" => CanSignFor(c[1], x.as)
  /\ job' = [job EXCEPT ![c] =
       [at |-> IF SolelyControls(c[1], copy[c[1]]) THEN "load" ELSE "ask", next |-> 1, do |-> x]]
  /\ UNCHANGED <<setting, ledgers, link, files, signed>>

InviteMember(c) == \E x \in Invites : Begin(c, x)
AdmitMember(c) == \E x \in Admissions : Begin(c, x)
RemoveMember(c) == \E x \in Removals : Begin(c, x)
AddTrust(c) == \E x \in Attestations : Begin(c, x)
RevokeTrust(c) == \E x \in Revocations(c[1]) : Begin(c, x)
ReplaceProfile(c) == \E x \in Documents : Begin(c, x)
SetWitnesses(c) == \E x \in WitnessSets : Begin(c, x)

\* --no-sync: the command line signs on what it has.
NoSync(c) ==
  /\ c[2] = "cli"
  /\ job[c].at = "ask" /\ job[c].next = 1
  /\ job' = [job EXCEPT ![c].at = "load"]
  /\ UNCHANGED <<setting, ledgers, link, files, signed>>

\* truncate: what the two share.
Cut(mine, theirs) == SubSeq(mine, 1, SharedPrefix(mine, theirs))

Busy(c) == {d \in Writers \ {c} : d[1] = c[1] /\ job[d].at = "write"}
Overlapping(c) == overlap' = IF Busy(c) = {} THEN overlap ELSE overlap \cup {c[1]}

\* A file that is not there, where another writer has cut the chain.
Missing == [by |-> Nobody, id |-> -2, prev |-> -2, op |-> "missing", who |-> Nobody, role |-> "none",
            ref |-> 0, value |-> Nobody]

\* Mutant: whatever is at that sequence is replaced.
ConflictsNever(h, n, events) == FALSE

\* Nothing else may stand where the events are to go, and the first goes right
\* behind the head: write_events looks at the sequence, and never at the event
\* that a new one follows.
Conflicts(h, n, events) ==
  \/ Len(copy[h]) # n
  \/ \E k \in 1..Len(past[h]) : k <= Len(events) /\ past[h][k] # events[k]

\* Mutant: the bundle is built from the chain as it was loaded.
HandOutLoaded(c, chain) == {[by |-> c[2], chain |-> Front(chain)]}

\* The bundle of an invitation carries the chain up to it.  The node takes it
\* from the chain it holds in memory; the command line reads the directory
\* again, later.  One over the caps is not written, though the event was.
HandOut(c, chain) == IF Len(chain) <= BundleCap THEN {[by |-> c[2], chain |-> chain]} ELSE {}

\* What a writer is at between its check and its write: the events to go behind
\* the first n, the chain that decides the link afterwards, and what comes next.
Writing(n, events, served, next) ==
  [at |-> "write", n |-> n, events |-> events, served |-> served, next |-> next]

\* The files and then the head, whatever was written since the check.
Write(c) ==
  /\ job[c].at = "write"
  /\ LET h == c[1]
         w == job[c]
         there == copy[h] \o past[h]
         upto == w.n + Len(w.events)
     IN /\ copy' = [copy EXCEPT ![h] =
             [k \in 1..upto |-> IF k > w.n THEN w.events[k - w.n]
                                ELSE IF k <= Len(there) THEN there[k] ELSE Missing]]
        /\ past' = [past EXCEPT ![h] = SubSeq(there, upto + 1, Len(there))]
        /\ link' = IF w.served = <<>> THEN link ELSE [link EXCEPT ![h] = LinkLocalControl(h, w.served)]
        /\ bundles' = IF w.next.at = "hand" THEN bundles \cup HandOut(c, w.next.chain) ELSE bundles
        /\ job' = [job EXCEPT ![c] = IF w.next.at = "hand" THEN Idle ELSE w.next]
  /\ Overlapping(c)
  /\ UNCHANGED <<setting, acceptances, signed>>

\* ensure_fresh_locked: one witness after the other.  One that cannot be
\* reached ends the command.  One that is ahead is followed; one that holds
\* another event is believed, what the copies do not share is cut, and the
\* command ends with stale_head once its chain is stored.
Ask(c) ==
  /\ job[c].at = "ask"
  /\ LET h == c[1]
         theirs == copy[Witnesses[job[c].next]]
         onwards == [job[c] EXCEPT !.next = @ + 1, !.at = IF job[c].next = Len(Witnesses) THEN "load" ELSE "ask"]
         store(next) == [at |-> "store", chain |-> theirs, next |-> next]
     IN \/ job' = [job EXCEPT ![c] = Idle] /\ UNCHANGED ledgers
        \/ /\ IsPrefix(theirs, copy[h])
           /\ job' = [job EXCEPT ![c] = onwards] /\ UNCHANGED ledgers
        \/ /\ IsStrictPrefix(copy[h], theirs)
           /\ job' = [job EXCEPT ![c] = store(onwards)] /\ UNCHANGED ledgers
        \/ /\ Diverge(copy[h], theirs) /\ Missing \notin Range(copy[h])
           /\ copy' = [copy EXCEPT ![h] = Cut(copy[h], theirs)]
           /\ past' = [past EXCEPT ![h] = <<>>]
           /\ job' = [job EXCEPT ![c] = store(Idle)]
           /\ Overlapping(c)
  /\ UNCHANGED <<setting, link, files, signed>>

\* Mutant: what is stored is not compared with what was served.
ApartNever(h, chain) == FALSE

Apart(h, chain) == Diverge(copy[h], chain)

\* store_events: the events this home does not hold yet, unless it holds
\* another one in their place.
Store(c) ==
  /\ job[c].at = "store"
  /\ LET h == c[1]
         chain == job[c].chain
         n == Len(copy[h])
         new == SubSeq(chain, n + 1, Len(chain))
     IN \/ /\ Apart(h, chain) \/ Conflicts(h, n, new)
           /\ job' = [job EXCEPT ![c] = Idle] /\ UNCHANGED link
        \/ /\ ~Apart(h, chain) /\ new = <<>>
           /\ job' = [job EXCEPT ![c] = job[c].next]
           /\ link' = [link EXCEPT ![h] = LinkLocalControl(h, chain)]
        \/ /\ ~Apart(h, chain) /\ new # <<>> /\ ~Conflicts(h, n, new)
           /\ job' = [job EXCEPT ![c] = Writing(n, new, chain, job[c].next)] /\ UNCHANGED link
  /\ UNCHANGED <<setting, ledgers, files, signed>>

\* Folds the copy.  A command line that asked looks again whether it may sign,
\* since what it took may have taken its role away.
Load(c) ==
  /\ job[c].at = "load"
  /\ job' = [job EXCEPT ![c] =
       IF c[2] = "cli" /\ job[c].next > 1 /\ ~CanSignFor(c[1], Ledger) THEN Idle
       ELSE [at |-> "sign", do |-> job[c].do, loaded |-> copy[c[1]]]]
  /\ UNCHANGED <<setting, ledgers, link, files, signed>>

\* What the command refuses before it signs: an acceptance that was used, a
\* document that says what the last one says.
Refused(st, x) ==
  \/ x.op = "admit" /\ x.ref \in st.used
  \/ x.op = "document" /\ st.document = x.value

\* The command signs, folds the event, and checks where it goes; or it refuses.
Sign(c) ==
  /\ job[c].at = "sign" /\ signed < setting.events
  /\ LET h == c[1]
         x == job[c].do
         loaded == job[c].loaded
         st == Fold(loaded)
         e == EventOf(h, x, st)
         refused == \/ ~st.ok \/ Refused(st, x) \/ ~CanSignFor(h, x.as)
                    \/ ~Accepts(st, e) \/ Conflicts(h, Len(loaded), <<e>>)
         next == IF x.op # "invite" THEN Idle
                 ELSE IF c[2] = "cli" THEN [at |-> "bundle"]
                 ELSE [at |-> "hand", chain |-> Append(loaded, e)]
     IN \/ /\ refused
           /\ job' = [job EXCEPT ![c] = Idle] /\ UNCHANGED signed
        \/ /\ ~refused
           /\ signed' = signed + 1
           /\ job' = [job EXCEPT ![c] = Writing(Len(loaded), <<e>>, <<>>, next)]
  /\ UNCHANGED <<setting, ledgers, link, files>>

\* The command line reads the ledger again and writes the bundle.
WriteBundle(c) ==
  /\ job[c].at = "bundle"
  /\ bundles' = bundles \cup HandOut(c, copy[c[1]])
  /\ job' = [job EXCEPT ![c] = Idle]
  /\ UNCHANGED <<setting, ledgers, link, acceptances, signed>>

\* accept: the invitee reads a bundle, which has to fold and to end at the
\* invitation, and signs it with its own key.  Nothing is stored.
Summary(chain) == {o \in Fold(chain).offers : Fold(chain).ok /\ o.event = Last(chain).id}

AcceptInvitation ==
  /\ \E b \in bundles : \E o \in Summary(b.chain) :
       /\ [ref |-> o.event, who |-> o.who] \notin acceptances
       /\ acceptances' = acceptances \cup {[ref |-> o.event, who |-> o.who]}
  /\ UNCHANGED <<setting, ledgers, link, job, bundles, signed>>

\* push: a witness takes a chain that folds, and keeps what it saw first.
Push(h) ==
  /\ \E n \in 1..Len(Witnesses) :
       /\ Fold(copy[h]).ok /\ IsStrictPrefix(copy[Witnesses[n]], copy[h])
       /\ copy' = [copy EXCEPT ![Witnesses[n]] = copy[h]]
  /\ UNCHANGED <<setting, past, overlap, link, job, files, signed>>

\* So does the node of another home that signs for the ledger.  It asks nobody
\* and leaves the link as it is.
PushHome(h) ==
  /\ \E g \in Homes \ {h} :
       LET n == Len(copy[g])
           new == SubSeq(copy[h], n + 1, Len(copy[h]))
       IN /\ job[<<g, "peer">>] = Idle /\ CanSignFor(g, Ledger)
          /\ Fold(copy[h]).ok /\ IsStrictPrefix(copy[g], copy[h]) /\ ~Conflicts(g, n, new)
          /\ job' = [job EXCEPT ![<<g, "peer">>] = Writing(n, new, <<>>, Idle)]
  /\ UNCHANGED <<setting, ledgers, link, files, signed>>

\* fetch: under the append lock, so not while the node runs a command.  The link
\* is that of the chain that was served, which may be shorter than the stored one.
Fetch(h) ==
  /\ job[<<h, "node">>] = Idle
  /\ \E n \in 1..Len(Witnesses) :
       LET theirs == copy[Witnesses[n]]
       IN /\ theirs # <<>>
          /\ Len(theirs) > Len(copy[h]) \/ LinkLocalControl(h, theirs) # link[h]
          /\ job' = [job EXCEPT ![<<h, "node">>] = [at |-> "store", chain |-> theirs, next |-> Idle]]
  /\ UNCHANGED <<setting, ledgers, link, files, signed>>

-----------------------------------------------------------------------------
Record(id, op, by) ==
  [by |-> by, id |-> id, prev |-> id - 1, op |-> op, who |-> Nobody, role |-> "none", ref |-> 0, value |-> Nobody]

\* The ledger that i founded, and the one that i has shared control of with j.
Founded(i) == <<Record(0, "inception", i)>>
SharedWith(i, j) ==
  Founded(i) \o
    <<[Record(1, "invite", i) EXCEPT !.who = j, !.role = "controller"], [Record(2, "admit", i) EXCEPT !.who = j, !.ref = 1]>>

\* The ledger was just created: its inception is in the founder's home, which
\* holds its key or is linked to it.  Or a second identity was admitted, and
\* everyone has the chain that says so.
Init ==
  /\ setting \in Settings
  /\ job = [c \in Writers |-> Idle]
  /\ past = [h \in Homes |-> <<>>] /\ overlap = {}
  /\ bundles = {}
  /\ IF setting.shared = {}
     THEN /\ copy = [p \in Copies |-> IF p = HomeOf[Founder] THEN Founded(RootIdentity) ELSE <<>>]
          /\ link = [h \in Homes |-> IF setting.root = "identity" /\ h = HomeOf[Founder] THEN Founder ELSE Nobody]
          /\ acceptances = {} /\ signed = 0
     ELSE \E j \in setting.shared :
          /\ copy = [p \in Copies |-> SharedWith(RootIdentity, j)]
          /\ link = [h \in Homes |-> IF KeysItself(h, Ledger) THEN Nobody
                                     ELSE IF HomeOf[j] = h THEN j ELSE IF HomeOf[Founder] = h THEN Founder ELSE Nobody]
          /\ acceptances = {[ref |-> 1, who |-> j]} /\ signed = 2

Next ==
  \/ \E c \in Commands :
       \/ InviteMember(c) \/ AdmitMember(c) \/ RemoveMember(c) \/ AddTrust(c) \/ RevokeTrust(c)
       \/ ReplaceProfile(c) \/ SetWitnesses(c) \/ NoSync(c)
       \/ Ask(c) \/ Store(c) \/ Load(c) \/ Sign(c) \/ WriteBundle(c)
  \/ \E c \in Writers : Write(c)
  \/ \E h \in Homes : Push(h) \/ PushHome(h) \/ Fetch(h)
  \/ AcceptInvitation

Spec == Init /\ [][Next]_vars

-----------------------------------------------------------------------------
(* Properties *)

\* Types; a link names an identity of this home, never on a ledger the home keys
\* itself, and every stored event was signed (link_local_control).
TypeOK ==
  /\ setting \in Settings /\ signed \in 0..setting.events
  /\ link \in [Homes -> Identities \cup {Nobody}]
  /\ \A h \in Homes : link[h] # Nobody => HomeOf[link[h]] = h /\ ~KeysItself(h, Ledger)
  /\ \A c \in Writers : job[c].at \in {"idle", "ask", "store", "load", "sign", "write", "bundle"}
  /\ \A p \in Copies : \A n \in 1..Len(copy[p]) : copy[p][n].id <= signed

\* A home without a command line beside its node holds a chain that folds to its
\* head, whatever other homes sign, push to it in the middle of a command, or
\* have it adopt, and however late; unless a push and a command were past their
\* checks at once.  (The append lock and the order ask, load, sign: service.rs
\* fresh, core.rs append; the check of write_events.)
NodeKeepsChainsValid ==
  /\ \A n \in 1..Len(Witnesses) : Fold(copy[Witnesses[n]]).ok
  /\ \A h \in Homes \ setting.clis : h \notin overlap => Fold(copy[h]).ok

\* A home that holds every controller's key asks no witness before it signs,
\* and that is sound as far as it goes: where a home and a witness hold
\* different branches, somebody else's key was a controller when they parted, or
\* two writers of the home were past their checks at once.
OnlySharedLedgersBranch ==
  \A h \in Homes, n \in 1..Len(Witnesses) :
    LET theirs == copy[Witnesses[n]]
        agreed == SubSeq(copy[h], 1, SharedPrefix(copy[h], theirs))
    IN (Diverge(copy[h], theirs) /\ h \notin overlap) => \E i \in Controllers(Fold(agreed)) : KeyHome(i) # h

\* Everyone who was ever admitted was invited in the same chain, accepted that
\* very invitation, and was neither removed nor admitted since it was made:
\* an acceptance file that is kept, or handed over late or twice, admits nobody
\* a second time and revives no cancelled invitation.
ConsentIsCurrent ==
  \A p \in Copies : \A n \in 1..Len(copy[p]) :
    LET chain == copy[p] IN
    (chain[n].op = "admit" /\ Fold(SubSeq(chain, 1, n)).ok) =>
      /\ [ref |-> chain[n].ref, who |-> chain[n].who] \in acceptances
      /\ \E m \in 1..(n - 1) :
           /\ chain[m].op = "invite" /\ chain[m].id = chain[n].ref /\ chain[m].who = chain[n].who
           /\ \A k \in (m + 1)..(n - 1) :
                chain[k].op \in {"remove", "admit"} => chain[k].who # chain[n].who

\* A bundle that the node returns can be accepted: it folds, and it ends at an
\* open invitation.
NodeBundlesAreAnswerable == \A b \in bundles : b.by = "node" => Summary(b.chain) # {}

\* A home asks or fetches, and stores what it was served.
Takes(h) ==
  \E c \in Commands : /\ c[1] = h /\ job[c].at = "write" /\ job[c].served # <<>>
                      /\ job'[c] # job[c]

Held(h, chain) == {i \in Controllers(Fold(chain)) : HoldsKey(h, i)}

\* Asking a witness or fetching decides again who signs: once what was served is
\* stored, the home's link names an identity of its own that the stored chain
\* makes a controller, and nobody when there is none, whatever pushes and
\* signatures did to the chain before (ensure_fresh_locked, fetch,
\* link_local_control).  A push and a signature leave the link as it is.
NewChainsDecideTheLink ==
  [][\A h \in Homes : (Takes(h) /\ ~KeysItself(h, Ledger) /\ h \notin overlap') =>
       link'[h] \in IF Held(h, copy'[h]) = {} THEN {Nobody} ELSE Held(h, copy'[h])]_vars

\* What core.rs says of the link: it is dropped as soon as the fold stops naming
\* the identity a controller.
LinkFollowsTheChain ==
  \A h \in Homes : link[h] # Nobody => link[h] \in Controllers(Fold(copy[h]))

\* What core.rs says of solely_controls: nobody else can have moved a ledger
\* that this home solely controls.
SoleControllerIsUpToDate ==
  \A h \in Homes, n \in 1..Len(Witnesses) :
    SolelyControls(h, copy[h]) => ~Diverge(copy[h], copy[Witnesses[n]])

\* What core.rs and ledger.rs say of a second process: the store's own check
\* covers it.
ChainsStayValid == \A p \in Copies : Fold(copy[p]).ok

\* Invitations and acceptances travel as files: what the node hands out can be
\* answered, and what is answered admits only while the invitation stands.
InvitationsAreSound == TypeOK /\ ConsentIsCurrent /\ NodeBundlesAreAnswerable

\* Chains follow the locks and the keys: a node keeps its own copy valid, and
\* copies part only where somebody else could sign.
ChainsFollowTheKeys == NodeKeepsChainsValid /\ OnlySharedLedgersBranch
=============================================================================
