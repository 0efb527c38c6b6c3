----------------------------- MODULE LedgerFold -----------------------------
(***************************************************************************)
(* The fold of one Mabel ledger (crates/mabel-core/src/fold.rs and the     *)
(* stateless field table of validate.rs): a chain of signed events in, the *)
(* state LedgerState out.  One action per payload; an action is a call of  *)
(* LedgerState::apply that is accepted.  A rejected event leaves the state *)
(* untouched, so it is no step.                                            *)
(*                                                                         *)
(* Abstractions.  An event id is the position of the event in this chain   *)
(* (ids of accepted events are distinct, and any other number stands for   *)
(* an event that is not in this chain).  A signature is the key that made  *)
(* it.  An identity id is the hash of a raw inception, which records       *)
(* exactly one active key: KeyOf.  Two inceptions may record the same key, *)
(* so KeyOf need not be injective.                                         *)
(***************************************************************************)
EXTENDS Integers, Sequences, FiniteSets

CONSTANTS Identity,     \* identity ids that events may name
          Key,          \* ed25519 public keys
          KeyOf,        \* the active key the inception of an identity records
          Ledger,       \* the identity id of the ledger that is folded
          OtherLedger,  \* the id of some other ledger, for misdirected events
          MaxSeq,       \* bound: the last position this chain may reach
          Timestamps,   \* the values timestamp_ms takes
          Subjects,     \* identities a TrustAttestation may name
          Invitees,     \* identities a MembershipInvitation may name
          Documents     \* values of the latest-wins payloads

ASSUME KeyOfAssumption == KeyOf \in [Identity -> Key]
ASSUME LedgerAssumption == Ledger \in Identity /\ OtherLedger # Ledger
ASSUME MaxSeqAssumption == MaxSeq \in Nat
ASSUME TimestampsAssumption == Timestamps \subseteq Nat
ASSUME NamesAssumption == Subjects \subseteq Identity /\ Invitees \subseteq Identity

VARIABLES root,         \* where signing authority came from: [kind, identity]
          head,         \* position and timestamp of the last event
          principals,   \* role and key recorded for each identity
          invitations,  \* every invitation issued, by event id
          trust,        \* every attestation issued, by event id
          endpoints,    \* the endpoint list of the retired WitnessConfig
          documents,    \* the last value of each latest-wins payload
          chain         \* the accepted events, which the properties read

vars == <<root, head, principals, invitations, trust, endpoints, documents, chain>>

EventId == 0..MaxSeq
NoEvent == -1
Roles == {"member", "controller"}
DocumentKinds == {"WitnessSet", "EndpointAdvertisement", "ProfileUpdate"}

NoPrincipal == [role |-> "none", key |-> KeyOf[Ledger]]
NoInvitation == [invitee |-> Ledger, key |-> KeyOf[Ledger], role |-> "member", status |-> "none"]
NoAttestation == [subject |-> Ledger, by |-> Ledger, status |-> "none", revokedBy |-> NoEvent]
NoDocument == [value |-> {}, by |-> Ledger, event |-> NoEvent]

Init ==
    /\ root = [kind |-> "none", identity |-> Ledger]
    /\ head = [seq |-> -1, ts |-> 0]
    /\ principals = [i \in Identity |-> NoPrincipal]
    /\ invitations = [e \in EventId |-> NoInvitation]
    /\ trust = [e \in EventId |-> NoAttestation]
    /\ endpoints = {}
    /\ documents = [d \in DocumentKinds |-> NoDocument]
    /\ chain = <<>>

-----------------------------------------------------------------------------
(* What the fold asks of the state.                                        *)

NextSeq == head.seq + 1

IsPrincipal(i) == principals[i].role # "none"
IsController(i) == principals[i].role = "controller"

\* Mutant: any principal may sign.
MatchesPrincipal(i, key) == IsPrincipal(i) /\ principals[i].key = key

\* The fold's only authorization question: the principal a key signs as.
MatchesController(i, key) == IsController(i) /\ principals[i].key = key

AuthorizedSigner(key) == \E i \in Identity : MatchesController(i, key)
SigningPrincipal(key) == CHOOSE i \in Identity : MatchesController(i, key)

IsOpen(e) == invitations[e].status = "open"
OpenInvitationsOf(i) == {e \in EventId : IsOpen(e) /\ invitations[e].invitee = i}
OpenInvitationOf(i) == CHOOSE e \in OpenInvitationsOf(i) : TRUE

Unrevoked(s) == {e \in EventId : trust[e].status = "standing" /\ trust[e].subject = s}
Trusts(s) == Unrevoked(s) # {}

IsRawRoot(i) == root.kind = "raw" /\ i = root.identity

\* Whether a controller remains when i stops being one.
ControllerWithout(i) == \E j \in Identity : j # i /\ IsController(j)

-----------------------------------------------------------------------------
(* The envelope every event carries, and the checks apply() makes on it.   *)

Envelope == [seq : EventId, ledger : {Ledger, OtherLedger}, prev : EventId,
             ts : Timestamps, author : Key, signer : Key]

\* Past seq 0: seq, ledger, prev and timestamp against the head.
ChainRules(b) ==
    /\ head.seq >= 0
    /\ b.seq = NextSeq
    /\ b.ledger = Ledger
    /\ b.prev = head.seq
    /\ b.ts >= head.ts

\* Authorization against the state before the event, then the signature.
SignatureRules(b) == AuthorizedSigner(b.author) /\ b.signer = b.author

Acceptable == {b \in Envelope : ChainRules(b) /\ SignatureRules(b)}

\* Mutant: the head stays where it was.
CommitKeepsHead(b, by, payload) ==
    /\ head' = head
    /\ chain' = Append(chain, [by |-> by, ts |-> b.ts, prev |-> b.prev, payload |-> payload])

\* Every mutation apply() makes to the head, and the event in the chain.
Commit(b, by, payload) ==
    /\ head' = [seq |-> b.seq, ts |-> b.ts]
    /\ chain' = Append(chain, [by |-> by, ts |-> b.ts, prev |-> b.prev, payload |-> payload])

-----------------------------------------------------------------------------
(* Seq 0.  The field table ties author_key to the root's own key, and an   *)
(* identity root to a founder whose raw inception it embeds.               *)

InceptionRoots ==
    {[kind |-> "raw", identity |-> Ledger]}
        \cup {[kind |-> "identity", identity |-> f] : f \in Identity \ {Ledger}}

Inception(r, ts, author, signer) ==
    /\ NextSeq = 0
    /\ author = KeyOf[r.identity]
    /\ signer = author
    /\ root' = r
    /\ principals' = [principals EXCEPT ![r.identity] =
                          [role |-> "controller", key |-> KeyOf[r.identity]]]
    /\ Commit([seq |-> 0, ts |-> ts, prev |-> 0], r.identity, [type |-> "Inception"])
    /\ UNCHANGED <<invitations, trust, endpoints, documents>>

-----------------------------------------------------------------------------
(* Trust.                                                                  *)

TrustAttestation(b, subject) ==
    /\ subject # Ledger
    /\ Unrevoked(subject) = {}
    /\ LET by == SigningPrincipal(b.author) IN
         /\ trust' = [trust EXCEPT ![b.seq] =
                [subject |-> subject, by |-> by, status |-> "standing", revokedBy |-> NoEvent]]
         /\ Commit(b, by, [type |-> "TrustAttestation", subject |-> subject])
    /\ UNCHANGED <<root, principals, invitations, endpoints, documents>>

\* Mutant: the revocation is recorded and the attestation stands.
TrustRevocationInName(b, target) ==
    /\ trust[target].status = "standing"
    /\ trust' = [trust EXCEPT ![target] = [@ EXCEPT !.revokedBy = b.seq]]
    /\ Commit(b, SigningPrincipal(b.author), [type |-> "TrustRevocation", target |-> target])
    /\ UNCHANGED <<root, principals, invitations, endpoints, documents>>

TrustRevocation(b, target) ==
    /\ trust[target].status = "standing"
    /\ trust' = [trust EXCEPT ![target] =
                    [@ EXCEPT !.status = "revoked", !.revokedBy = b.seq]]
    /\ Commit(b, SigningPrincipal(b.author), [type |-> "TrustRevocation", target |-> target])
    /\ UNCHANGED <<root, principals, invitations, endpoints, documents>>

-----------------------------------------------------------------------------
(* Membership.                                                             *)

\* The field table: the embedded inception hashes to the invitee and records
\* the key beside it, and the invitee is not the ledger itself.
ValidInvitation(invitee, key) == invitee # Ledger /\ key = KeyOf[invitee]

\* Mutant: an identity may be invited again while an invitation is open.
MembershipInvitationAgain(b, invitee, key, role) ==
    /\ ValidInvitation(invitee, key)
    /\ IsPrincipal(invitee) => principals[invitee].key = key
    /\ invitations' = [invitations EXCEPT ![b.seq] =
                          [invitee |-> invitee, key |-> key, role |-> role, status |-> "open"]]
    /\ Commit(b, SigningPrincipal(b.author),
              [type |-> "MembershipInvitation", invitee |-> invitee, role |-> role])
    /\ UNCHANGED <<root, principals, trust, endpoints, documents>>

MembershipInvitation(b, invitee, key, role) ==
    /\ ValidInvitation(invitee, key)
    /\ OpenInvitationsOf(invitee) = {}
    /\ IsPrincipal(invitee) => principals[invitee].key = key
    /\ invitations' = [invitations EXCEPT ![b.seq] =
                          [invitee |-> invitee, key |-> key, role |-> role, status |-> "open"]]
    /\ Commit(b, SigningPrincipal(b.author),
              [type |-> "MembershipInvitation", invitee |-> invitee, role |-> role])
    /\ UNCHANGED <<root, principals, trust, endpoints, documents>>

\* The detached blob the invitee signs, which a controller's event carries.
Acceptance == [ledger : {Ledger, OtherLedger}, invitation : EventId,
               invitee : Invitees, key : Key, signer : Key]

\* Mutant: an acceptance may be replayed, also after a removal.
BlobMatchesAnyStatus(a) ==
    /\ a.signer = a.key
    /\ a.ledger = Ledger
    /\ invitations[a.invitation].status # "none"
    /\ a.invitee = invitations[a.invitation].invitee
    /\ a.key = invitations[a.invitation].key

\* The field table checks the blob's signature under the key it names itself;
\* the fold matches the blob with the open invitation it names.
BlobMatches(a) ==
    /\ a.signer = a.key
    /\ a.ledger = Ledger
    /\ IsOpen(a.invitation)
    /\ a.invitee = invitations[a.invitation].invitee
    /\ a.key = invitations[a.invitation].key

\* Mutant: the key is not looked up among the principals.
KeyIsAlwaysFree(invitee, key) == invitee \in Identity /\ key \in Key

\* A second identity may not hold a key some principal already holds.
KeyIsFree(invitee, key) ==
    \A j \in Identity : IsPrincipal(j) /\ principals[j].key = key => j = invitee

\* Lowering a controller answers to the two rules of a removal.
DemotionAllowed(i, role) ==
    IsController(i) /\ role # "controller" => ~IsRawRoot(i) /\ ControllerWithout(i)

MembershipAcceptance(b, a) ==
    /\ BlobMatches(a)
    /\ LET inv == invitations[a.invitation] IN
         /\ KeyIsFree(inv.invitee, inv.key)
         /\ DemotionAllowed(inv.invitee, inv.role)
         /\ invitations' = [invitations EXCEPT ![a.invitation].status = "accepted"]
         /\ principals' = [principals EXCEPT ![inv.invitee] =
                              [role |-> inv.role, key |-> inv.key]]
    /\ Commit(b, SigningPrincipal(b.author),
              [type |-> "MembershipAcceptance", invitation |-> a.invitation,
               invitee |-> a.invitee, signer |-> a.signer])
    /\ UNCHANGED <<root, trust, endpoints, documents>>

\* Mutant: the last controller may be removed.
RemovalOfAnyone(target) == ~IsRawRoot(target) /\ (IsPrincipal(target) \/ OpenInvitationsOf(target) # {})

RemovalAllowed(target) ==
    /\ ~IsRawRoot(target)
    /\ IsPrincipal(target) \/ OpenInvitationsOf(target) # {}
    /\ IsController(target) => ControllerWithout(target)

MembershipRemoval(b, target) ==
    /\ RemovalAllowed(target)
    /\ invitations' = IF OpenInvitationsOf(target) = {} THEN invitations
                      ELSE [invitations EXCEPT ![OpenInvitationOf(target)].status = "cancelled"]
    /\ principals' = [principals EXCEPT ![target] = NoPrincipal]
    /\ Commit(b, SigningPrincipal(b.author), [type |-> "MembershipRemoval", target |-> target])
    /\ UNCHANGED <<root, trust, endpoints, documents>>

-----------------------------------------------------------------------------
(* Latest wins: each payload replaces its whole document and touches no    *)
(* other.  The retired WitnessConfig records neither signer nor event.     *)

WitnessConfig(b, value) ==
    /\ endpoints' = value
    /\ Commit(b, SigningPrincipal(b.author), [type |-> "WitnessConfig", value |-> value])
    /\ UNCHANGED <<root, principals, invitations, trust, documents>>

\* Mutant: a document is merged with the one before it.
MergeDocument(b, kind, value) ==
    LET by == SigningPrincipal(b.author) IN
    /\ documents' = [documents EXCEPT ![kind] =
                        [value |-> documents[kind].value \cup value, by |-> by, event |-> b.seq]]
    /\ Commit(b, by, [type |-> kind, value |-> value])
    /\ UNCHANGED <<root, principals, invitations, trust, endpoints>>

ReplaceDocument(b, kind, value) ==
    LET by == SigningPrincipal(b.author) IN
    /\ documents' = [documents EXCEPT ![kind] = [value |-> value, by |-> by, event |-> b.seq]]
    /\ Commit(b, by, [type |-> kind, value |-> value])
    /\ UNCHANGED <<root, principals, invitations, trust, endpoints>>

-----------------------------------------------------------------------------
Next ==
    \/ \E r \in InceptionRoots, ts \in Timestamps, author, signer \in Key :
          Inception(r, ts, author, signer)
    \/ \E b \in Acceptable :
          \/ \E s \in Subjects : TrustAttestation(b, s)
          \/ \E e \in EventId : TrustRevocation(b, e)
          \/ \E i \in Invitees, k \in Key, r \in Roles : MembershipInvitation(b, i, k, r)
          \/ \E a \in Acceptance : MembershipAcceptance(b, a)
          \/ \E i \in Identity : MembershipRemoval(b, i)
          \/ \E v \in Documents : WitnessConfig(b, v)
          \/ \E d \in DocumentKinds, v \in Documents : ReplaceDocument(b, d, v)

Spec == Init /\ [][Next]_vars

-----------------------------------------------------------------------------
(* The chain read as history: a reference definition of what the fold      *)
(* should have computed, which looks at the accepted events and nothing    *)
(* else.                                                                   *)

Payload ==
    [type : {"Inception"}]
        \cup [type : {"TrustAttestation"}, subject : Subjects]
        \cup [type : {"TrustRevocation"}, target : EventId]
        \cup [type : {"MembershipInvitation"}, invitee : Invitees, role : Roles]
        \cup [type : {"MembershipAcceptance"}, invitation : EventId,
              invitee : Invitees, signer : Key]
        \cup [type : {"MembershipRemoval"}, target : Identity]
        \cup [type : DocumentKinds \cup {"WitnessConfig"}, value : Documents]

Event == [by : Identity, ts : Timestamps, prev : EventId, payload : Payload]

\* The positions of the chain, and the payload at one.
Positions == 0..(Len(chain) - 1)
At(e) == chain[e + 1].payload
IsType(e, type) == At(e).type = type

Accepts(e, i) == IsType(e, "MembershipAcceptance") /\ At(e).invitee = i
Removes(e, i) == IsType(e, "MembershipRemoval") /\ At(e).target = i

Answers(e, v) == IsType(e, "MembershipAcceptance") /\ At(e).invitation = v

\* e is the last position before n that satisfies P, if any.
IsLast(e, n, P(_)) == e < n /\ P(e) /\ \A f \in Positions : e < f /\ f < n => ~P(f)

\* i is a controller by the events before position n: its last admission or
\* removal is an admission as a controller, or there is none and it is the root.
ControllerBefore(i, n) ==
    LET Membership(e) == Accepts(e, i) \/ Removes(e, i) IN
    \/ \E e \in Positions : /\ IsLast(e, n, Membership)
                           /\ Accepts(e, i)
                           /\ At(At(e).invitation).role = "controller"
    \/ i = chain[1].by /\ \A e \in Positions : e < n => ~Membership(e)

-----------------------------------------------------------------------------
(* Invariants.                                                             *)

\* The types of the fold's state, and that the history is as long as the head says.
TypeOK ==
    /\ root \in [kind : {"none", "raw", "identity"}, identity : Identity]
    /\ head \in [seq : -1..MaxSeq, ts : Nat]
    /\ principals \in [Identity -> [role : Roles \cup {"none"}, key : Key]]
    /\ invitations \in [EventId -> [invitee : Identity, key : Key, role : Roles,
                                    status : {"none", "open", "accepted", "cancelled"}]]
    /\ trust \in [EventId -> [subject : Identity, by : Identity,
                              status : {"none", "standing", "revoked"},
                              revokedBy : EventId \cup {NoEvent}]]
    /\ endpoints \in Documents \cup {{}}
    /\ documents \in [DocumentKinds -> [value : Documents \cup {{}}, by : Identity,
                                        event : EventId \cup {NoEvent}]]
    /\ chain \in Seq(Event)
    /\ Len(chain) = NextSeq

\* Control is never lost (check_removal, check_demotion, is_raw_root): once
\* seeded, a ledger has a controller who may sign the next event, and a raw
\* root stays a controller under its own key whatever the others sign.
ControlIsNeverLost ==
    NextSeq > 0 =>
        /\ \E i \in Identity : IsController(i)
        /\ root.kind = "raw" => principals[Ledger] = [role |-> "controller", key |-> KeyOf[Ledger]]

\* One key, one principal (check_acceptance, DuplicatePrincipalKey): no two
\* identities hold one key, so an author key names a single signing principal.
KeysAreUnambiguous ==
    \A i, j \in Identity :
        IsPrincipal(i) /\ IsPrincipal(j) /\ principals[i].key = principals[j].key => i = j

\* At most one open invitation per identity (check_invitation), which is what
\* lets a removal cancel "the" open invitation and leave none behind.
OneOpenInvitation == \A i \in Identity : \A e, f \in OpenInvitationsOf(i) : e = f

\* The acceptance at e answers a standing invitation of its own identity.
Consented(e) ==
    LET v == At(e).invitation IN
    /\ v < e
    /\ IsType(v, "MembershipInvitation") /\ At(v).invitee = At(e).invitee
    /\ At(e).signer = KeyOf[At(e).invitee]
    /\ \A f \in Positions : v < f /\ f < e =>
          ~Removes(f, At(e).invitee) /\ ~Answers(f, v)

\* Consent and finality (check_acceptance, check_removal): every admission in
\* the chain answers an earlier invitation of the same identity, was signed by
\* that identity's own key, is the only one to answer it, and no removal of
\* that identity lies between the two.
AdmissionsAreConsented ==
    \A e \in Positions : IsType(e, "MembershipAcceptance") => Consented(e)

\* Authority is judged by the state before the event (apply, step 4): whoever
\* signed position n was a controller by the events before n, so neither a
\* removed, a demoted nor a merely invited identity ever signed, and an event
\* never authorizes itself.
SignedWhileController ==
    \A n \in Positions : n > 0 => ControllerBefore(chain[n + 1].by, n)

\* "Does A trust B" has one answer, the one the history gives (unrevoked,
\* Effect::Attest, Effect::Revoke): the ledger trusts s exactly when its last
\* attestation of s is not the target of a later revocation.
TrustMatchesHistory ==
    \A s \in Subjects :
        LET Attests(e) == IsType(e, "TrustAttestation") /\ At(e).subject = s IN
        /\ Cardinality(Unrevoked(s)) <= 1
        /\ Trusts(s) <=>
              \E e \in Positions :
                  /\ IsLast(e, Len(chain), Attests)
                  /\ \A f \in Positions : ~(IsType(f, "TrustRevocation") /\ At(f).target = e)

\* Latest wins for each document, with the signer and the event that set it
\* (check_semantics, commit): no payload touches another kind's document.
DocumentsMatchHistory ==
    LET Sets(e, kind) == IsType(e, kind) IN
    /\ \A d \in DocumentKinds :
         IF \E e \in Positions : Sets(e, d)
         THEN \E e \in Positions :
                /\ \A f \in Positions : e < f => ~Sets(f, d)
                /\ documents[d] = [value |-> At(e).value, by |-> chain[e + 1].by, event |-> e]
         ELSE documents[d] = NoDocument
    /\ \A e \in Positions :
         Sets(e, "WitnessConfig") /\ (\A f \in Positions : e < f => ~Sets(f, "WitnessConfig"))
             => endpoints = At(e).value

\* What the state records besides its members is what the accepted events say:
\* standing trust by subject, and each document by its last replacement.
RecordsMatchHistory == TrustMatchesHistory /\ DocumentsMatchHistory
=============================================================================
