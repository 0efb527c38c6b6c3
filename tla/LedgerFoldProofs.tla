-------------------------- MODULE LedgerFoldProofs --------------------------
(***************************************************************************)
(* Proofs about LedgerFold, for every set of identities and keys, every    *)
(* assignment of keys to identities and every bound on the chain.          *)
(***************************************************************************)
EXTENDS LedgerFold, FiniteSetTheorems, TLAPS

\* The principal an authorized key signs as is one the fold records.
LEMMA SignerIsIdentity ==
    ASSUME NEW b \in Acceptable
    PROVE  SigningPrincipal(b.author) \in Identity
  BY DEF Acceptable, SignatureRules, AuthorizedSigner, SigningPrincipal

\* What an accepted envelope is, as the chain rules leave it.
LEMMA AcceptableFacts ==
    ASSUME TypeOK, NEW b \in Acceptable
    PROVE  /\ b.seq \in EventId /\ b.prev \in EventId /\ b.ts \in Timestamps
           /\ b.seq = NextSeq /\ b.seq = Len(chain) /\ NextSeq > 0
  BY DEF Acceptable, Envelope, ChainRules, NextSeq, TypeOK, EventId

\* Committing a well-formed event keeps the types of head and chain.
LEMMA CommitType ==
    ASSUME TypeOK, NEW seq \in EventId, NEW ts \in Timestamps, NEW prev \in EventId,
           seq = NextSeq, NEW by \in Identity, NEW payload \in Payload,
           head' = [seq |-> seq, ts |-> ts],
           chain' = Append(chain, [by |-> by, ts |-> ts, prev |-> prev, payload |-> payload])
    PROVE  /\ head' \in [seq : -1..MaxSeq, ts : Nat]
           /\ chain' \in Seq(Event)
           /\ Len(chain') = NextSeq'
           /\ Len(chain') = Len(chain) + 1
           /\ \A e \in 1..Len(chain) : chain'[e] = chain[e]
           /\ chain'[Len(chain) + 1] =
                [by |-> by, ts |-> ts, prev |-> prev, payload |-> payload]
  <1> DEFINE ev == [by |-> by, ts |-> ts, prev |-> prev, payload |-> payload]
  <1>1. ev \in Event
    BY DEF Event
  <1>2. ts \in Nat /\ seq \in -1..MaxSeq
    BY TimestampsAssumption, MaxSeqAssumption DEF EventId
  <1>3. chain \in Seq(Event) /\ Len(chain) = head.seq + 1
    BY DEF TypeOK, NextSeq
  <1> HIDE DEF ev
  <1>4. /\ Append(chain, ev) \in Seq(Event)
        /\ Len(Append(chain, ev)) = Len(chain) + 1
        /\ \A e \in 1..Len(chain) : Append(chain, ev)[e] = chain[e]
        /\ Append(chain, ev)[Len(chain) + 1] = ev
    BY <1>1, <1>3
  <1>5. seq = head.seq + 1 /\ head'.seq = seq
    BY DEF NextSeq
  <1> QED
    BY <1>2, <1>3, <1>4, <1>5 DEF NextSeq, ev

-----------------------------------------------------------------------------
(* Type correctness.                                                       *)

\* The fold of no event is well typed.
LEMMA InitType == Init => TypeOK
  <1> SUFFICES ASSUME Init PROVE TypeOK
    OBVIOUS
  <1>1. 0 \in Nat /\ -1 \in -1..MaxSeq
    BY MaxSeqAssumption
  <1>2. KeyOf[Ledger] \in Key /\ Ledger \in Identity
    BY KeyOfAssumption, LedgerAssumption
  <1> QED
    BY <1>1, <1>2 DEF Init, TypeOK, NoPrincipal, NoInvitation, NoAttestation, NoDocument,
                      NoEvent, Roles, NextSeq

\* An inception leaves the fold well typed.
LEMMA InceptionType ==
    ASSUME TypeOK, NEW r \in InceptionRoots, NEW ts \in Timestamps,
           NEW author \in Key, NEW signer \in Key, Inception(r, ts, author, signer)
    PROVE  TypeOK'
  <1>1. r.kind \in {"raw", "identity"} /\ r.identity \in Identity
        /\ r \in [kind : {"none", "raw", "identity"}, identity : Identity]
    BY LedgerAssumption DEF InceptionRoots
  <1>2. KeyOf[r.identity] \in Key
    BY <1>1, KeyOfAssumption
  <1>3. 0 \in EventId
    BY MaxSeqAssumption DEF EventId
  <1>4. [type |-> "Inception"] \in Payload
    BY DEF Payload
  <1>5. /\ head' \in [seq : -1..MaxSeq, ts : Nat]
        /\ chain' \in Seq(Event)
        /\ Len(chain') = NextSeq'
    BY <1>1, <1>3, <1>4, CommitType DEF Inception, Commit
  <1> QED
    BY <1>1, <1>2, <1>5 DEF Inception, TypeOK, Roles

\* Answering or cancelling an invitation changes nothing but its status.
LEMMA StatusType ==
    ASSUME TypeOK, NEW e \in EventId, NEW status \in {"accepted", "cancelled"}
    PROVE  [invitations EXCEPT ![e].status = status] \in
               [EventId -> [invitee : Identity, key : Key, role : Roles,
                            status : {"none", "open", "accepted", "cancelled"}]]
  <1> DEFINE answered == [invitations[e] EXCEPT !.status = status]
  <1>1. invitations[e] \in [invitee : Identity, key : Key, role : Roles,
                            status : {"none", "open", "accepted", "cancelled"}]
    BY DEF TypeOK
  <1>2. answered \in [invitee : Identity, key : Key, role : Roles,
                      status : {"none", "open", "accepted", "cancelled"}]
    BY <1>1
  <1>3. [invitations EXCEPT ![e].status = status] = [invitations EXCEPT ![e] = answered]
    OBVIOUS
  <1> HIDE DEF answered
  <1> QED
    BY <1>2, <1>3 DEF TypeOK

\* Every accepted event leaves the fold well typed.
LEMMA StepType ==
    ASSUME TypeOK, [Next]_vars
    PROVE  TypeOK'
  <1>1. CASE UNCHANGED vars
    BY <1>1 DEF TypeOK, vars, NextSeq
  <1>2. ASSUME NEW r \in InceptionRoots, NEW ts \in Timestamps,
               NEW author \in Key, NEW signer \in Key, Inception(r, ts, author, signer)
        PROVE  TypeOK'
    BY <1>2, InceptionType
  <1>3. ASSUME NEW b \in Acceptable, NEW s \in Subjects, TrustAttestation(b, s)
        PROVE  TypeOK'
    <2> DEFINE by == SigningPrincipal(b.author)
    <2>1. by \in Identity /\ s \in Identity
      BY SignerIsIdentity, NamesAssumption
    <2>2. [type |-> "TrustAttestation", subject |-> s] \in Payload
      BY DEF Payload
    <2>3. /\ head' \in [seq : -1..MaxSeq, ts : Nat]
          /\ chain' \in Seq(Event)
          /\ Len(chain') = NextSeq'
      BY <1>3, <2>1, <2>2, AcceptableFacts, CommitType DEF TrustAttestation, Commit
    <2> HIDE DEF by
    <2>4. trust' \in [EventId -> [subject : Identity, by : Identity,
                              status : {"none", "standing", "revoked"},
                              revokedBy : EventId \cup {NoEvent}]]
      BY <1>3, <2>1 DEF TrustAttestation, TypeOK, by
    <2> QED
      BY <1>3, <2>3, <2>4 DEF TrustAttestation, TypeOK
  <1>4. ASSUME NEW b \in Acceptable, NEW e \in EventId, TrustRevocation(b, e)
        PROVE  TypeOK'
    <2>1. [type |-> "TrustRevocation", target |-> e] \in Payload
      BY DEF Payload
    <2>2. /\ head' \in [seq : -1..MaxSeq, ts : Nat]
          /\ chain' \in Seq(Event)
          /\ Len(chain') = NextSeq'
      BY <1>4, <2>1, SignerIsIdentity, AcceptableFacts, CommitType DEF TrustRevocation, Commit
    <2> DEFINE Attestation == [subject : Identity, by : Identity,
                               status : {"none", "standing", "revoked"},
                               revokedBy : EventId \cup {NoEvent}]
               revoked == [trust[e] EXCEPT !.status = "revoked", !.revokedBy = b.seq]
    <2>a. trust[e] \in Attestation /\ b.seq \in EventId
      BY AcceptableFacts DEF TypeOK
    <2>b. revoked \in Attestation
      BY <2>a
    <2>c. trust' = [trust EXCEPT ![e] = revoked]
      BY <1>4 DEF TrustRevocation
    <2> HIDE DEF revoked
    <2>3. trust' \in [EventId -> Attestation]
      BY <2>b, <2>c DEF TypeOK
    <2> QED
      BY <1>4, <2>2, <2>3 DEF TrustRevocation, TypeOK
  <1>5. ASSUME NEW b \in Acceptable, NEW i \in Invitees, NEW k \in Key, NEW r \in Roles,
               MembershipInvitation(b, i, k, r)
        PROVE  TypeOK'
    <2>1. [type |-> "MembershipInvitation", invitee |-> i, role |-> r] \in Payload
      BY DEF Payload
    <2>2. /\ head' \in [seq : -1..MaxSeq, ts : Nat]
          /\ chain' \in Seq(Event)
          /\ Len(chain') = NextSeq'
      BY <1>5, <2>1, SignerIsIdentity, AcceptableFacts, CommitType
         DEF MembershipInvitation, Commit
    <2> QED
      BY <1>5, <2>2, NamesAssumption DEF MembershipInvitation, TypeOK
  <1>6. ASSUME NEW b \in Acceptable, NEW a \in Acceptance, MembershipAcceptance(b, a)
        PROVE  TypeOK'
    <2>1. a.invitation \in EventId /\ a.invitee \in Invitees /\ a.signer \in Key
      BY DEF Acceptance
    <2>2. [type |-> "MembershipAcceptance", invitation |-> a.invitation,
           invitee |-> a.invitee, signer |-> a.signer] \in Payload
      BY <2>1 DEF Payload
    <2>3. /\ head' \in [seq : -1..MaxSeq, ts : Nat]
          /\ chain' \in Seq(Event)
          /\ Len(chain') = NextSeq'
      BY <1>6, <2>2, SignerIsIdentity, AcceptableFacts, CommitType
         DEF MembershipAcceptance, Commit
    <2>4. /\ invitations[a.invitation].invitee \in Identity
          /\ invitations[a.invitation].key \in Key
          /\ invitations[a.invitation].role \in Roles
      BY <2>1 DEF TypeOK
    <2>5. principals' \in [Identity -> [role : Roles \cup {"none"}, key : Key]]
      BY <1>6, <2>4 DEF MembershipAcceptance, TypeOK
    <2>6. invitations' = [invitations EXCEPT ![a.invitation].status = "accepted"]
      BY <1>6 DEF MembershipAcceptance
    <2>7. invitations' \in [EventId -> [invitee : Identity, key : Key, role : Roles,
                                    status : {"none", "open", "accepted", "cancelled"}]]
      BY <2>1, <2>6, StatusType
    <2> QED
      BY <1>6, <2>3, <2>5, <2>7 DEF MembershipAcceptance, TypeOK
  <1>7. ASSUME NEW b \in Acceptable, NEW i \in Identity, MembershipRemoval(b, i)
        PROVE  TypeOK'
    <2>1. [type |-> "MembershipRemoval", target |-> i] \in Payload
      BY DEF Payload
    <2>2. /\ head' \in [seq : -1..MaxSeq, ts : Nat]
          /\ chain' \in Seq(Event)
          /\ Len(chain') = NextSeq'
      BY <1>7, <2>1, SignerIsIdentity, AcceptableFacts, CommitType
         DEF MembershipRemoval, Commit
    <2>3. NoPrincipal \in [role : Roles \cup {"none"}, key : Key]
      BY KeyOfAssumption, LedgerAssumption DEF NoPrincipal
    <2>4. principals' \in [Identity -> [role : Roles \cup {"none"}, key : Key]]
      BY <1>7, <2>3 DEF MembershipRemoval, TypeOK
    <2>5. OpenInvitationsOf(i) # {} => OpenInvitationOf(i) \in EventId
      BY DEF OpenInvitationOf, OpenInvitationsOf
    <2>6. invitations' \in [EventId -> [invitee : Identity, key : Key, role : Roles,
                                    status : {"none", "open", "accepted", "cancelled"}]]
      BY <1>7, <2>5, StatusType DEF MembershipRemoval, TypeOK
    <2> QED
      BY <1>7, <2>2, <2>4, <2>6 DEF MembershipRemoval, TypeOK
  <1>8. ASSUME NEW b \in Acceptable, NEW v \in Documents, WitnessConfig(b, v)
        PROVE  TypeOK'
    <2>1. [type |-> "WitnessConfig", value |-> v] \in Payload
      BY DEF Payload
    <2>2. /\ head' \in [seq : -1..MaxSeq, ts : Nat]
          /\ chain' \in Seq(Event)
          /\ Len(chain') = NextSeq'
      BY <1>8, <2>1, SignerIsIdentity, AcceptableFacts, CommitType DEF WitnessConfig, Commit
    <2> QED
      BY <1>8, <2>2 DEF WitnessConfig, TypeOK
  <1>9. ASSUME NEW b \in Acceptable, NEW d \in DocumentKinds, NEW v \in Documents,
               ReplaceDocument(b, d, v)
        PROVE  TypeOK'
    <2>1. [type |-> d, value |-> v] \in Payload
      BY DEF Payload
    <2>2. /\ head' \in [seq : -1..MaxSeq, ts : Nat]
          /\ chain' \in Seq(Event)
          /\ Len(chain') = NextSeq'
      BY <1>9, <2>1, SignerIsIdentity, AcceptableFacts, CommitType DEF ReplaceDocument, Commit
    <2>3. SigningPrincipal(b.author) \in Identity /\ b.seq \in EventId
      BY SignerIsIdentity, AcceptableFacts
    <2> QED
      BY <1>9, <2>2, <2>3 DEF ReplaceDocument, TypeOK
  <1> QED
    BY <1>1, <1>2, <1>3, <1>4, <1>5, <1>6, <1>7, <1>8, <1>9 DEF Next

\* The fold's state always has its type, and the recorded history is exactly as
\* long as the head says (LedgerState, apply, commit).
THEOREM TypeCorrect == Spec => []TypeOK
  BY InitType, StepType, PTL DEF Spec

-----------------------------------------------------------------------------
(* Control.  ControlIsNeverLost and KeysAreUnambiguous are not inductive:  *)
(* an acceptance copies a key out of an invitation, so invitations must    *)
(* carry the key of the identity they name; and the seed must be the first *)
(* principal.                                                              *)

NothingBeforeTheSeed == NextSeq = 0 => \A i \in Identity : ~IsPrincipal(i)
RawRootIsTheLedger == root.kind = "raw" => root.identity = Ledger
InvitationsCarryOwnKeys == \A e \in EventId : invitations[e].key = KeyOf[invitations[e].invitee]

ControlInv ==
    /\ TypeOK
    /\ NothingBeforeTheSeed
    /\ RawRootIsTheLedger
    /\ InvitationsCarryOwnKeys
    /\ ControlIsNeverLost
    /\ KeysAreUnambiguous
    /\ OneOpenInvitation

\* The fold of no event has no controller to lose.
LEMMA InitControl == Init => ControlInv
  <1> SUFFICES ASSUME Init PROVE ControlInv
    OBVIOUS
  <1>1. NextSeq = 0 /\ root.kind = "none"
    BY DEF Init, NextSeq
  <1>2. \A i \in Identity : ~IsPrincipal(i)
    BY DEF Init, IsPrincipal, NoPrincipal
  <1>3. \A e \in EventId : ~IsOpen(e) /\ invitations[e].key = KeyOf[invitations[e].invitee]
    BY DEF Init, IsOpen, NoInvitation
  <1> QED
    BY <1>1, <1>2, <1>3, InitType
       DEF ControlInv, NothingBeforeTheSeed, RawRootIsTheLedger, InvitationsCarryOwnKeys,
           ControlIsNeverLost, KeysAreUnambiguous, OneOpenInvitation, OpenInvitationsOf

\* A step past the seed that leaves root, principals and invitations alone.
LEMMA QuietControl ==
    ASSUME ControlInv, TypeOK', UNCHANGED <<root, principals, invitations>>,
           NextSeq' > 0 => NextSeq > 0, NextSeq' = 0 => NextSeq = 0
    PROVE  ControlInv'
  BY DEF ControlInv, NothingBeforeTheSeed, RawRootIsTheLedger, InvitationsCarryOwnKeys,
         ControlIsNeverLost, KeysAreUnambiguous, OneOpenInvitation, OpenInvitationsOf,
         IsOpen, IsPrincipal, IsController

\* The position after a commit.
LEMMA CommitSeq ==
    ASSUME NEW b, NEW by, NEW payload, Commit(b, by, payload), b.seq \in Nat
    PROVE  NextSeq' = b.seq + 1 /\ NextSeq' > 0
  BY DEF Commit, NextSeq

\* An inception gives the ledger its first controller.
LEMMA InceptionControl ==
    ASSUME ControlInv, TypeOK', NEW r \in InceptionRoots, NEW ts \in Timestamps,
           NEW author \in Key, NEW signer \in Key, Inception(r, ts, author, signer)
    PROVE  ControlInv'
  <1>1. r.identity \in Identity /\ (r.kind = "raw" => r.identity = Ledger)
    BY LedgerAssumption DEF InceptionRoots
  <1>2. NextSeq' > 0
    BY DEF Inception, Commit, NextSeq
  <1>3. /\ root' = r
        /\ invitations' = invitations
        /\ principals' = [principals EXCEPT ![r.identity] =
                              [role |-> "controller", key |-> KeyOf[r.identity]]]
        /\ \A i \in Identity : principals[i].role = "none"
    BY DEF Inception, ControlInv, NothingBeforeTheSeed, IsPrincipal
  <1>4. principals'[r.identity] = [role |-> "controller", key |-> KeyOf[r.identity]]
    BY <1>1, <1>3 DEF ControlInv, TypeOK
  <1>5. \A i \in Identity : i # r.identity => principals'[i].role = "none"
    BY <1>1, <1>3 DEF ControlInv, TypeOK
  <1>6. ControlIsNeverLost'
    BY <1>1, <1>3, <1>4 DEF ControlIsNeverLost, IsController
  <1>7. KeysAreUnambiguous'
    BY <1>5 DEF KeysAreUnambiguous, IsPrincipal
  <1>8. RawRootIsTheLedger'
    BY <1>1, <1>3 DEF RawRootIsTheLedger
  <1> QED
    BY <1>2, <1>3, <1>6, <1>7, <1>8
       DEF ControlInv, NothingBeforeTheSeed, InvitationsCarryOwnKeys, OneOpenInvitation,
           OpenInvitationsOf, IsOpen

\* An invitation changes no controller and keeps at most one open per identity.
LEMMA InvitationControl ==
    ASSUME ControlInv, TypeOK', NEW b \in Acceptable, NEW i \in Invitees, NEW k \in Key,
           NEW r \in Roles, MembershipInvitation(b, i, k, r)
    PROVE  ControlInv'
  <1>0. TypeOK /\ b.seq \in EventId /\ b.seq = NextSeq /\ NextSeq > 0 /\ b.seq \in Nat
    BY AcceptableFacts DEF ControlInv, EventId
  <1>1. NextSeq' > 0
    BY <1>0, CommitSeq DEF MembershipInvitation
  <1>2. /\ UNCHANGED <<root, principals>>
        /\ invitations' = [invitations EXCEPT ![b.seq] =
               [invitee |-> i, key |-> k, role |-> r, status |-> "open"]]
        /\ OpenInvitationsOf(i) = {}
        /\ k = KeyOf[i]
    BY DEF MembershipInvitation, ValidInvitation
  <1>3. /\ invitations'[b.seq] = [invitee |-> i, key |-> k, role |-> r, status |-> "open"]
        /\ \A e \in EventId : e # b.seq => invitations'[e] = invitations[e]
    BY <1>0, <1>2 DEF TypeOK
  <1>4. InvitationsCarryOwnKeys'
    BY <1>2, <1>3 DEF ControlInv, InvitationsCarryOwnKeys
  <1>5. OneOpenInvitation'
    <2> SUFFICES ASSUME NEW j \in Identity, NEW e \in EventId, NEW f \in EventId,
                        invitations'[e].status = "open", invitations'[e].invitee = j,
                        invitations'[f].status = "open", invitations'[f].invitee = j
                 PROVE  e = f
      BY DEF OneOpenInvitation, OpenInvitationsOf, IsOpen
    <2>1. CASE e = b.seq /\ f # b.seq
      BY <1>2, <1>3, <2>1 DEF OpenInvitationsOf, IsOpen
    <2>2. CASE f = b.seq /\ e # b.seq
      BY <1>2, <1>3, <2>2 DEF OpenInvitationsOf, IsOpen
    <2>3. CASE e # b.seq /\ f # b.seq
      BY <1>3, <2>3 DEF ControlInv, OneOpenInvitation, OpenInvitationsOf, IsOpen
    <2> QED
      BY <2>1, <2>2, <2>3
  <1>6. (RawRootIsTheLedger /\ ControlIsNeverLost /\ KeysAreUnambiguous)'
    BY <1>0, <1>2 DEF ControlInv, RawRootIsTheLedger, ControlIsNeverLost, KeysAreUnambiguous,
                      IsPrincipal, IsController
  <1> QED
    BY <1>1, <1>4, <1>5, <1>6 DEF ControlInv, NothingBeforeTheSeed

LEMMA AcceptanceControl ==
    ASSUME ControlInv, TypeOK', NEW b \in Acceptable, NEW a \in Acceptance,
           MembershipAcceptance(b, a)
    PROVE  ControlInv'
  <1> DEFINE v == a.invitation
             i == invitations[v].invitee
             role == invitations[v].role
  <1>0. /\ TypeOK /\ b.seq = NextSeq /\ NextSeq > 0 /\ b.seq \in Nat
        /\ v \in EventId /\ i \in Identity /\ role \in Roles
    BY AcceptableFacts DEF ControlInv, EventId, Acceptance, TypeOK
  <1>1. NextSeq' > 0
    BY <1>0, CommitSeq DEF MembershipAcceptance
  <1>2. /\ root' = root
        /\ IsOpen(v)
        /\ KeyIsFree(i, KeyOf[i])
        /\ DemotionAllowed(i, role)
        /\ invitations' = [invitations EXCEPT ![v].status = "accepted"]
        /\ principals' = [principals EXCEPT ![i] = [role |-> role, key |-> KeyOf[i]]]
    BY <1>0 DEF MembershipAcceptance, BlobMatches, ControlInv, InvitationsCarryOwnKeys
  <1>3. /\ principals'[i] = [role |-> role, key |-> KeyOf[i]]
        /\ \A j \in Identity : j # i => principals'[j] = principals[j]
    BY <1>0, <1>2 DEF TypeOK
  <1>4. /\ \A e \in EventId : e # v => invitations'[e] = invitations[e]
        /\ invitations'[v].status = "accepted"
        /\ \A e \in EventId : /\ invitations'[e].invitee = invitations[e].invitee
                              /\ invitations'[e].key = invitations[e].key
    BY <1>0, <1>2 DEF TypeOK
  <1>5. InvitationsCarryOwnKeys'
    BY <1>4 DEF ControlInv, InvitationsCarryOwnKeys
  <1>6. OneOpenInvitation'
    <2>1. \A j \in Identity : (OpenInvitationsOf(j))' \subseteq OpenInvitationsOf(j)
      BY <1>4 DEF OpenInvitationsOf, IsOpen
    <2> QED
      BY <2>1 DEF ControlInv, OneOpenInvitation
  <1> HIDE DEF i, role, v
  <1>7. KeysAreUnambiguous'
    BY <1>0, <1>2, <1>3 DEF ControlInv, KeysAreUnambiguous, IsPrincipal, KeyIsFree
  <1>8. RawRootIsTheLedger'
    BY <1>2 DEF ControlInv, RawRootIsTheLedger
  <1>9. ControlIsNeverLost'
    <2>1. \E j \in Identity : IsController(j)'
      <3>1. CASE role = "controller"
        BY <1>0, <1>3, <3>1 DEF IsController
      <3>2. CASE role # "controller" /\ IsController(i)
        BY <1>2, <1>3, <3>2 DEF DemotionAllowed, ControllerWithout, IsController
      <3>3. CASE ~IsController(i)
        <4>1. PICK j \in Identity : IsController(j)
          BY <1>0 DEF ControlInv, ControlIsNeverLost
        <4> QED
          BY <1>3, <3>3, <4>1 DEF IsController
      <3> QED
        BY <3>1, <3>2, <3>3
    <2>2. ASSUME root.kind = "raw"
          PROVE  principals'[Ledger] = [role |-> "controller", key |-> KeyOf[Ledger]]
      <3>1. principals[Ledger] = [role |-> "controller", key |-> KeyOf[Ledger]]
        BY <1>0, <2>2 DEF ControlInv, ControlIsNeverLost
      <3>2. CASE i # Ledger
        BY <1>3, <3>1, <3>2, LedgerAssumption
      <3>3. CASE i = Ledger
        <4>1. IsRawRoot(i) /\ IsController(i)
          BY <2>2, <3>1, <3>3 DEF ControlInv, RawRootIsTheLedger, IsRawRoot, IsController
        <4>2. role = "controller"
          BY <1>2, <4>1 DEF DemotionAllowed
        <4> QED
          BY <1>3, <3>3, <4>2
      <3> QED
        BY <3>2, <3>3
    <2> QED
      BY <1>2, <2>1, <2>2 DEF ControlIsNeverLost
  <1> QED
    BY <1>1, <1>5, <1>6, <1>7, <1>8, <1>9 DEF ControlInv, NothingBeforeTheSeed

\* What a removal does to the invitations: at most one changes, to cancelled.
LEMMA RemovalFacts ==
    ASSUME TypeOK, NEW b \in Acceptable, NEW i \in Identity, MembershipRemoval(b, i)
    PROVE  /\ principals' = [principals EXCEPT ![i] = NoPrincipal]
           /\ \A e \in EventId : /\ invitations'[e].invitee = invitations[e].invitee
                                 /\ invitations'[e].key = invitations[e].key
                                 /\ IsOpen(e)' => IsOpen(e)
           /\ OpenInvitationsOf(i) # {} =>
                 /\ OpenInvitationOf(i) \in OpenInvitationsOf(i)
                 /\ invitations'[OpenInvitationOf(i)].status = "cancelled"
  <1>1. OpenInvitationsOf(i) # {} =>
            OpenInvitationOf(i) \in OpenInvitationsOf(i) /\ OpenInvitationOf(i) \in EventId
    BY DEF OpenInvitationOf, OpenInvitationsOf
  <1>2. CASE OpenInvitationsOf(i) = {}
    BY <1>2 DEF MembershipRemoval, IsOpen
  <1>3. CASE OpenInvitationsOf(i) # {}
    <2> DEFINE w == OpenInvitationOf(i)
    <2>1. invitations' = [invitations EXCEPT ![w].status = "cancelled"]
      BY <1>3 DEF MembershipRemoval
    <2>2. w \in EventId /\ w \in OpenInvitationsOf(i)
      BY <1>1, <1>3
    <2> HIDE DEF w
    <2>3. /\ \A e \in EventId : e # w => invitations'[e] = invitations[e]
          /\ invitations'[w] = [invitations[w] EXCEPT !.status = "cancelled"]
      BY <2>1, <2>2 DEF TypeOK
    <2>4. /\ invitations'[w].status = "cancelled"
          /\ invitations'[w].invitee = invitations[w].invitee
          /\ invitations'[w].key = invitations[w].key
      BY <2>2, <2>3 DEF TypeOK
    <2>5. \A e \in EventId : /\ invitations'[e].invitee = invitations[e].invitee
                             /\ invitations'[e].key = invitations[e].key
                             /\ IsOpen(e)' => IsOpen(e)
      BY <2>3, <2>4 DEF IsOpen
    <2>6. principals' = [principals EXCEPT ![i] = NoPrincipal]
      BY DEF MembershipRemoval
    <2> QED
      BY <2>2, <2>4, <2>5, <2>6 DEF w
  <1> QED
    BY <1>2, <1>3

LEMMA RemovalControl ==
    ASSUME ControlInv, TypeOK', NEW b \in Acceptable, NEW i \in Identity,
           MembershipRemoval(b, i)
    PROVE  ControlInv'
  <1>0. TypeOK /\ b.seq = NextSeq /\ NextSeq > 0 /\ b.seq \in Nat
    BY AcceptableFacts DEF ControlInv, EventId
  <1>1. NextSeq' > 0
    BY <1>0, CommitSeq DEF MembershipRemoval
  <1>2. root' = root /\ RemovalAllowed(i)
    BY DEF MembershipRemoval
  <1>3. /\ principals'[i] = NoPrincipal
        /\ \A j \in Identity : j # i => principals'[j] = principals[j]
    BY <1>0, RemovalFacts DEF TypeOK
  <1>4. InvitationsCarryOwnKeys'
    BY <1>0, RemovalFacts DEF ControlInv, InvitationsCarryOwnKeys
  <1>5. OneOpenInvitation'
    <2>1. \A j \in Identity : (OpenInvitationsOf(j))' \subseteq OpenInvitationsOf(j)
      BY <1>0, RemovalFacts DEF OpenInvitationsOf
    <2> QED
      BY <2>1 DEF ControlInv, OneOpenInvitation
  <1>6. KeysAreUnambiguous'
    BY <1>3 DEF ControlInv, KeysAreUnambiguous, IsPrincipal, NoPrincipal
  <1>7. \E j \in Identity : IsController(j)'
    <2>1. CASE IsController(i)
      BY <1>2, <1>3, <2>1 DEF RemovalAllowed, ControllerWithout, IsController
    <2>2. CASE ~IsController(i)
      <3>1. PICK j \in Identity : IsController(j)
        BY <1>0 DEF ControlInv, ControlIsNeverLost
      <3> QED
        BY <1>3, <2>2, <3>1 DEF IsController
    <2> QED
      BY <2>1, <2>2
  <1>8. root.kind = "raw" =>
            principals'[Ledger] = [role |-> "controller", key |-> KeyOf[Ledger]]
    BY <1>0, <1>2, <1>3, LedgerAssumption
       DEF ControlInv, ControlIsNeverLost, RawRootIsTheLedger, RemovalAllowed, IsRawRoot
  <1>9. RawRootIsTheLedger' /\ ControlIsNeverLost'
    BY <1>2, <1>7, <1>8 DEF ControlInv, RawRootIsTheLedger, ControlIsNeverLost
  <1> QED
    BY <1>1, <1>4, <1>5, <1>6, <1>9 DEF ControlInv, NothingBeforeTheSeed

LEMMA StepControl ==
    ASSUME ControlInv, [Next]_vars
    PROVE  ControlInv'
  <1>0. TypeOK /\ TypeOK'
    BY StepType DEF ControlInv
  <1>1. CASE UNCHANGED vars
    BY <1>0, <1>1, QuietControl DEF vars, NextSeq
  <1>2. ASSUME NEW r \in InceptionRoots, NEW ts \in Timestamps,
               NEW author \in Key, NEW signer \in Key, Inception(r, ts, author, signer)
        PROVE  ControlInv'
    BY <1>0, <1>2, InceptionControl
  <1>3. ASSUME NEW b \in Acceptable,
               \/ \E s \in Subjects : TrustAttestation(b, s)
               \/ \E e \in EventId : TrustRevocation(b, e)
               \/ \E v \in Documents : WitnessConfig(b, v)
               \/ \E d \in DocumentKinds, v \in Documents : ReplaceDocument(b, d, v)
        PROVE  ControlInv'
    <2>1. b.seq \in Nat /\ NextSeq > 0
      BY <1>0, AcceptableFacts DEF EventId
    <2>2. /\ UNCHANGED <<root, principals, invitations>>
          /\ \E by, payload : Commit(b, by, payload)
      BY <1>3 DEF TrustAttestation, TrustRevocation, WitnessConfig, ReplaceDocument
    <2>3. NextSeq' > 0
      BY <2>1, <2>2, CommitSeq
    <2> QED
      BY <1>0, <2>1, <2>2, <2>3, QuietControl
  <1>4. ASSUME NEW b \in Acceptable, NEW i \in Invitees, NEW k \in Key, NEW r \in Roles,
               MembershipInvitation(b, i, k, r)
        PROVE  ControlInv'
    BY <1>0, <1>4, InvitationControl
  <1>5. ASSUME NEW b \in Acceptable, NEW a \in Acceptance, MembershipAcceptance(b, a)
        PROVE  ControlInv'
    BY <1>0, <1>5, AcceptanceControl
  <1>6. ASSUME NEW b \in Acceptable, NEW i \in Identity, MembershipRemoval(b, i)
        PROVE  ControlInv'
    BY <1>0, <1>6, RemovalControl
  <1> QED
    BY <1>1, <1>2, <1>3, <1>4, <1>5, <1>6 DEF Next

\* Whatever events are accepted, a seeded ledger keeps a controller, and a raw
\* root keeps its own key as one (check_removal, check_demotion).
THEOREM ControlTheorem == Spec => []ControlIsNeverLost
  <1>1. ControlInv => ControlIsNeverLost
    BY DEF ControlInv
  <1> QED
    BY <1>1, InitControl, StepControl, PTL DEF Spec

\* A key never names two principals, so the signer of an event is one identity
\* (check_acceptance).
THEOREM KeysTheorem == Spec => []KeysAreUnambiguous
  <1>1. ControlInv => KeysAreUnambiguous
    BY DEF ControlInv
  <1> QED
    BY <1>1, InitControl, StepControl, PTL DEF Spec

\* An identity never has two open invitations, so cancelling the open one on a
\* removal leaves none behind (check_invitation, check_removal).
THEOREM InvitationTheorem == Spec => []OneOpenInvitation
  <1>1. ControlInv => OneOpenInvitation
    BY DEF ControlInv
  <1> QED
    BY <1>1, InitControl, StepControl, PTL DEF Spec

-----------------------------------------------------------------------------
(* Consent.  What an acceptance will be matched with must already be true  *)
(* of every open invitation: it sits in the chain, and no later event has  *)
(* removed its invitee or answered it.  That a removal leaves no open      *)
(* invitation of its target behind rests on OneOpenInvitation.             *)

OpenInvitationsStand ==
    \A e \in EventId : IsOpen(e) =>
        /\ e \in Positions
        /\ IsType(e, "MembershipInvitation")
        /\ At(e).invitee = invitations[e].invitee
        /\ \A f \in Positions : e < f => ~Removes(f, invitations[e].invitee) /\ ~Answers(f, e)

ConsentInv == ControlInv /\ OpenInvitationsStand /\ AdmissionsAreConsented

LEMMA InitConsent == Init => ConsentInv
  <1> SUFFICES ASSUME Init PROVE ConsentInv
    OBVIOUS
  <1>1. \A e \in EventId : ~IsOpen(e)
    BY DEF Init, IsOpen, NoInvitation
  <1>2. Positions = {}
    BY DEF Init, Positions
  <1> QED
    BY <1>1, <1>2, InitControl DEF ConsentInv, OpenInvitationsStand, AdmissionsAreConsented

\* Appending one event keeps every position and adds the last.
LEMMA GrowingChain ==
    ASSUME TypeOK, TypeOK', NEW b, NEW by, NEW payload, Commit(b, by, payload), b.seq = NextSeq
    PROVE  /\ Len(chain) \in Nat /\ b.seq = Len(chain)
           /\ Positions' = Positions \cup {b.seq} /\ b.seq \notin Positions
           /\ Positions \subseteq Nat
           /\ \A e \in Positions : At(e)' = At(e) /\ e < b.seq /\ e \in EventId
           /\ At(b.seq)' = payload
  <1> DEFINE ev == [by |-> by, ts |-> b.ts, prev |-> b.prev, payload |-> payload]
  <1>1. /\ chain \in Seq(Event) /\ Len(chain) = NextSeq /\ chain' = Append(chain, ev)
        /\ chain' \in Seq(Event)
    BY DEF TypeOK, Commit
  <1>2. head.seq \in -1..MaxSeq /\ NextSeq = head.seq + 1
    BY DEF TypeOK, NextSeq
  <1> HIDE DEF ev
  <1>3. /\ Len(chain) \in Nat
        /\ Len(chain') = Len(chain) + 1
        /\ \A n \in 1..Len(chain) : chain'[n] = chain[n]
        /\ chain'[Len(chain) + 1] = ev
    BY <1>1
  <1>4. \A e \in Positions : e + 1 \in 1..Len(chain) /\ e < Len(chain) /\ e \in EventId
    BY <1>1, <1>2, <1>3, MaxSeqAssumption DEF Positions, EventId
  <1>5. /\ Positions' = Positions \cup {Len(chain)} /\ Len(chain) \notin Positions
        /\ Positions \subseteq Nat
    BY <1>3 DEF Positions
  <1>6. \A e \in Positions : At(e)' = At(e)
    BY <1>3, <1>4 DEF At
  <1>7. At(b.seq)' = payload
    BY <1>1, <1>3 DEF At, ev
  <1> QED
    BY <1>1, <1>3, <1>4, <1>5, <1>6, <1>7

\* An acceptance in the chain names an event id and an identity.
LEMMA AcceptanceNamesEvent ==
    ASSUME TypeOK, NEW e \in Positions, IsType(e, "MembershipAcceptance")
    PROVE  At(e).invitation \in EventId
  <1>1. chain[e + 1] \in Event
    BY DEF TypeOK, Positions
  <1>2. At(e) \in Payload
    BY <1>1 DEF At, Event
  <1> QED
    BY <1>2 DEF IsType, Payload, DocumentKinds

\* An admission that was consented to stays so as the chain grows.
LEMMA ConsentIsStable ==
    ASSUME TypeOK, TypeOK', NEW b, NEW by, NEW payload, Commit(b, by, payload), b.seq = NextSeq,
           NEW e \in Positions, IsType(e, "MembershipAcceptance"), Consented(e)
    PROVE  Consented(e)'
  <1> DEFINE v == At(e).invitation
  <1>1. /\ v < e /\ IsType(v, "MembershipInvitation") /\ At(v).invitee = At(e).invitee
        /\ At(e).signer = KeyOf[At(e).invitee]
        /\ \A f \in Positions : v < f /\ f < e =>
              ~Removes(f, At(e).invitee) /\ ~Answers(f, v)
    BY DEF Consented
  <1>2. v \in EventId
    BY AcceptanceNamesEvent
  <1>3. v \in Positions
    BY <1>1, <1>2 DEF EventId, Positions
  <1>4. /\ At(e)' = At(e) /\ At(v)' = At(v)
        /\ \A f \in Positions' : f < e => f \in Positions /\ At(f)' = At(f)
    BY <1>3, GrowingChain
  <1>5. /\ chain'[e + 1].payload = At(e)
        /\ chain'[v + 1].payload = At(v)
        /\ \A f \in Positions' : f < e => f \in Positions /\ chain'[f + 1].payload = At(f)
    BY <1>4 DEF At
  <1> HIDE DEF v
  <1>6. /\ chain'[e + 1].payload.invitation = v
        /\ IsType(v, "MembershipInvitation") <=> chain'[v + 1].payload.type = "MembershipInvitation"
    BY <1>5 DEF v, IsType
  <1>7. \A f \in Positions' : v < f /\ f < e =>
            /\ ~(/\ chain'[f + 1].payload.type = "MembershipRemoval"
                 /\ chain'[f + 1].payload.target = At(e).invitee)
            /\ ~(/\ chain'[f + 1].payload.type = "MembershipAcceptance"
                 /\ chain'[f + 1].payload.invitation = v)
    BY <1>1, <1>5 DEF Removes, Answers, IsType
  <1>8. chain'[v + 1].payload.invitee = chain'[e + 1].payload.invitee
        /\ chain'[e + 1].payload.signer = KeyOf[chain'[e + 1].payload.invitee]
    BY <1>1, <1>5
  <1> QED
    BY <1>1, <1>5, <1>6, <1>7, <1>8 DEF Consented, At, IsType, Removes, Answers

\* A step that adds neither an admission nor a removal, and changes no
\* invitation but the one it issues.
LEMMA HarmlessStep ==
    ASSUME ConsentInv, TypeOK, TypeOK', ControlInv',
           NEW b, NEW by, NEW payload, Commit(b, by, payload), b.seq = NextSeq,
           payload.type \notin {"MembershipAcceptance", "MembershipRemoval"},
           \A e \in EventId : e # b.seq => invitations'[e] = invitations[e],
           b.seq \in EventId => \/ invitations'[b.seq].status # "open"
                               \/ invitations'[b.seq] = invitations[b.seq]
                               \/ /\ payload.type = "MembershipInvitation"
                                  /\ payload.invitee = invitations'[b.seq].invitee
    PROVE  ConsentInv'
  <1> USE GrowingChain
  <1>1. OpenInvitationsStand'
    <2> SUFFICES ASSUME NEW e \in EventId, IsOpen(e)'
                 PROVE  /\ e \in Positions'
                        /\ IsType(e, "MembershipInvitation")'
                        /\ At(e)'.invitee = invitations'[e].invitee
                        /\ \A f \in Positions' : e < f =>
                              ~Removes(f, invitations[e].invitee)' /\ ~Answers(f, e)'
      BY DEF OpenInvitationsStand
    <2>1. CASE e # b.seq
      <3>1. IsOpen(e) /\ invitations'[e] = invitations[e]
        BY <2>1 DEF IsOpen
      <3>2. e \in Positions /\ At(e)' = At(e)
        BY <3>1 DEF ConsentInv, OpenInvitationsStand
      <3>3. ASSUME NEW f \in Positions', e < f
            PROVE  ~Removes(f, invitations[e].invitee)' /\ ~Answers(f, e)'
        <4>1. CASE f = b.seq
          BY <4>1 DEF Removes, Answers, IsType
        <4>2. CASE f \in Positions
          BY <3>1, <3>3, <4>2 DEF ConsentInv, OpenInvitationsStand, Removes, Answers, IsType
        <4> QED
          BY <4>1, <4>2
      <3> QED
        BY <3>1, <3>2, <3>3 DEF ConsentInv, OpenInvitationsStand, IsType
    <2>2. CASE e = b.seq
      <3>1. ~(invitations'[b.seq] = invitations[b.seq])
        BY <2>2 DEF ConsentInv, OpenInvitationsStand, IsOpen
      <3>2. payload.type = "MembershipInvitation" /\ payload.invitee = invitations'[e].invitee
        BY <2>2, <3>1 DEF IsOpen
      <3>3. \A f \in Positions' : ~(e < f)
        BY <2>2
      <3> QED
        BY <2>2, <3>2, <3>3 DEF IsType
    <2> QED
      BY <2>1, <2>2
  <1>2. AdmissionsAreConsented'
    <2> SUFFICES ASSUME NEW e \in Positions', IsType(e, "MembershipAcceptance")'
                 PROVE  Consented(e)'
      BY DEF AdmissionsAreConsented
    <2>1. e \in Positions /\ At(e)' = At(e) /\ IsType(e, "MembershipAcceptance")
      BY DEF IsType
    <2> QED
      BY <2>1, ConsentIsStable DEF ConsentInv, AdmissionsAreConsented
  <1> QED
    BY <1>1, <1>2 DEF ConsentInv

\* The last position of a step that answers or removes: an open invitation
\* that survives it is still standing.
LEMMA SurvivorsStand ==
    ASSUME ConsentInv, TypeOK, TypeOK',
           NEW b, NEW by, NEW payload, Commit(b, by, payload), b.seq = NextSeq,
           NEW e \in EventId, IsOpen(e), invitations'[e].invitee = invitations[e].invitee,
           ~(payload.type = "MembershipRemoval" /\ payload.target = invitations[e].invitee),
           ~(payload.type = "MembershipAcceptance" /\ payload.invitation = e)
    PROVE  /\ e \in Positions'
           /\ IsType(e, "MembershipInvitation")'
           /\ At(e)'.invitee = invitations'[e].invitee
           /\ \A f \in Positions' : e < f =>
                 ~Removes(f, invitations[e].invitee)' /\ ~Answers(f, e)'
  <1> USE GrowingChain
  <1>1. e \in Positions /\ At(e)' = At(e)
    BY DEF ConsentInv, OpenInvitationsStand
  <1>2. IsType(e, "MembershipInvitation")' /\ At(e)'.invitee = invitations'[e].invitee
    BY <1>1 DEF ConsentInv, OpenInvitationsStand, IsType
  <1>3. ASSUME NEW f \in Positions', e < f
        PROVE  ~Removes(f, invitations[e].invitee)' /\ ~Answers(f, e)'
    <2>1. CASE f = b.seq
      BY <2>1 DEF Removes, Answers, IsType
    <2>2. CASE f \in Positions
      BY <1>3, <2>2 DEF ConsentInv, OpenInvitationsStand, Removes, Answers, IsType
    <2> QED
      BY <2>1, <2>2
  <1> QED
    BY <1>1, <1>2, <1>3

\* Earlier admissions stay consented; only a new acceptance has to be shown.
LEMMA ConsentGrows ==
    ASSUME ConsentInv, TypeOK, TypeOK',
           NEW b, NEW by, NEW payload, Commit(b, by, payload), b.seq = NextSeq,
           payload.type = "MembershipAcceptance" => Consented(b.seq)'
    PROVE  AdmissionsAreConsented'
  <1> SUFFICES ASSUME NEW e \in Positions', IsType(e, "MembershipAcceptance")'
               PROVE  Consented(e)'
    BY DEF AdmissionsAreConsented
  <1>1. CASE e = b.seq
    BY <1>1, GrowingChain DEF IsType
  <1>2. CASE e \in Positions
    <2>1. IsType(e, "MembershipAcceptance")
      BY <1>2, GrowingChain DEF IsType
    <2> QED
      BY <1>2, <2>1, ConsentIsStable DEF ConsentInv, AdmissionsAreConsented
  <1> QED
    BY <1>1, <1>2, GrowingChain

LEMMA AcceptanceConsent ==
    ASSUME ConsentInv, TypeOK', ControlInv', NEW b \in Acceptable, NEW a \in Acceptance,
           MembershipAcceptance(b, a)
    PROVE  ConsentInv'
  <1> DEFINE v == a.invitation
             by == SigningPrincipal(b.author)
             payload == [type |-> "MembershipAcceptance", invitation |-> v,
                         invitee |-> a.invitee, signer |-> a.signer]
  <1>0. /\ TypeOK /\ b.seq = NextSeq /\ v \in EventId
        /\ Commit(b, by, payload)
        /\ payload.type = "MembershipAcceptance" /\ payload.invitation = v
        /\ payload.invitee = a.invitee /\ payload.signer = a.signer
    BY AcceptableFacts DEF ConsentInv, ControlInv, Acceptance, MembershipAcceptance
  <1>1. /\ IsOpen(v)
        /\ a.invitee = invitations[v].invitee
        /\ a.signer = KeyOf[a.invitee]
        /\ invitations' = [invitations EXCEPT ![v].status = "accepted"]
    BY <1>0 DEF MembershipAcceptance, BlobMatches, ConsentInv, ControlInv, InvitationsCarryOwnKeys
  <1> HIDE DEF v, by, payload
  <1>2. /\ invitations'[v].status = "accepted"
        /\ \A e \in EventId : e # v => invitations'[e] = invitations[e]
    BY <1>0, <1>1 DEF TypeOK
  <1>3. OpenInvitationsStand'
    <2> SUFFICES ASSUME NEW e \in EventId, IsOpen(e)'
                 PROVE  /\ e \in Positions'
                        /\ IsType(e, "MembershipInvitation")'
                        /\ At(e)'.invitee = invitations'[e].invitee
                        /\ \A f \in Positions' : e < f =>
                              ~Removes(f, invitations[e].invitee)' /\ ~Answers(f, e)'
      BY DEF OpenInvitationsStand
    <2>1. e # v /\ IsOpen(e) /\ invitations'[e] = invitations[e]
      BY <1>2 DEF IsOpen
    <2> QED
      BY <1>0, <2>1, SurvivorsStand
  <1>4. Consented(b.seq)'
    <2>1. /\ v \in Positions /\ IsType(v, "MembershipInvitation")
          /\ At(v).invitee = invitations[v].invitee
          /\ \A f \in Positions : v < f => ~Removes(f, invitations[v].invitee) /\ ~Answers(f, v)
      BY <1>0, <1>1 DEF ConsentInv, OpenInvitationsStand
    <2>2. /\ v < b.seq
          /\ chain'[b.seq + 1].payload = payload
          /\ chain'[v + 1].payload = At(v)
          /\ \A f \in Positions' : f < b.seq => f \in Positions /\ chain'[f + 1].payload = At(f)
      BY <1>0, <2>1, GrowingChain DEF At
    <2>3. /\ chain'[v + 1].payload.type = "MembershipInvitation"
          /\ chain'[v + 1].payload.invitee = a.invitee
      BY <1>1, <2>1, <2>2 DEF IsType
    <2>4. \A f \in Positions' : v < f /\ f < b.seq =>
              /\ ~(/\ chain'[f + 1].payload.type = "MembershipRemoval"
                   /\ chain'[f + 1].payload.target = a.invitee)
              /\ ~(/\ chain'[f + 1].payload.type = "MembershipAcceptance"
                   /\ chain'[f + 1].payload.invitation = v)
      BY <1>1, <2>1, <2>2 DEF Removes, Answers, IsType
    <2>5. b' = b
      OBVIOUS
    <2> QED
      BY <1>0, <1>1, <2>2, <2>3, <2>4 DEF Consented, At, IsType, Removes, Answers
  <1> QED
    BY <1>0, <1>3, <1>4, ConsentGrows DEF ConsentInv

LEMMA RemovalConsent ==
    ASSUME ConsentInv, TypeOK', ControlInv', NEW b \in Acceptable, NEW i \in Identity,
           MembershipRemoval(b, i)
    PROVE  ConsentInv'
  <1> DEFINE payload == [type |-> "MembershipRemoval", target |-> i]
             by == SigningPrincipal(b.author)
  <1>0. /\ TypeOK /\ b.seq = NextSeq /\ Commit(b, by, payload)
        /\ payload.type = "MembershipRemoval" /\ payload.target = i
    BY AcceptableFacts DEF ConsentInv, ControlInv, MembershipRemoval
  <1> HIDE DEF payload, by
  <1>1. OpenInvitationsStand'
    <2> SUFFICES ASSUME NEW e \in EventId, IsOpen(e)'
                 PROVE  /\ e \in Positions'
                        /\ IsType(e, "MembershipInvitation")'
                        /\ At(e)'.invitee = invitations'[e].invitee
                        /\ \A f \in Positions' : e < f =>
                              ~Removes(f, invitations[e].invitee)' /\ ~Answers(f, e)'
      BY DEF OpenInvitationsStand
    <2>1. IsOpen(e) /\ invitations'[e].invitee = invitations[e].invitee
      BY <1>0, RemovalFacts
    <2>2. invitations[e].invitee # i
      <3> SUFFICES ASSUME invitations[e].invitee = i PROVE FALSE
        OBVIOUS
      <3>1. e \in OpenInvitationsOf(i)
        BY <2>1 DEF OpenInvitationsOf
      <3>2. e = OpenInvitationOf(i)
        BY <1>0, <3>1, RemovalFacts DEF ConsentInv, ControlInv, OneOpenInvitation
      <3>3. invitations'[e].status = "cancelled"
        BY <1>0, <3>1, <3>2, RemovalFacts
      <3> QED
        BY <3>3 DEF IsOpen
    <2> QED
      BY <1>0, <2>1, <2>2, SurvivorsStand
  <1> QED
    BY <1>0, <1>1, ConsentGrows DEF ConsentInv

\* An event that is about trust or documents is no membership event.
LEMMA OtherPayloads ==
    ASSUME NEW b \in Acceptable,
           \/ \E s \in Subjects : TrustAttestation(b, s)
           \/ \E e \in EventId : TrustRevocation(b, e)
           \/ \E v \in Documents : WitnessConfig(b, v)
           \/ \E d \in DocumentKinds, v \in Documents : ReplaceDocument(b, d, v)
    PROVE  /\ UNCHANGED <<root, principals, invitations>>
           /\ \E payload :
                 /\ Commit(b, SigningPrincipal(b.author), payload)
                 /\ payload.type \notin {"MembershipAcceptance", "MembershipRemoval"}
  <1> DEFINE Committed == \E payload :
                /\ Commit(b, SigningPrincipal(b.author), payload)
                /\ payload.type \notin {"MembershipAcceptance", "MembershipRemoval"}
  <1>1. ASSUME NEW q \in Subjects, TrustAttestation(b, q) PROVE Committed
    <2>1. [type |-> "TrustAttestation", subject |-> q].type
              \notin {"MembershipAcceptance", "MembershipRemoval"}
      OBVIOUS
    <2> QED
      BY <1>1, <2>1 DEF TrustAttestation
  <1>2. ASSUME NEW q \in EventId, TrustRevocation(b, q) PROVE Committed
    <2>1. [type |-> "TrustRevocation", target |-> q].type
              \notin {"MembershipAcceptance", "MembershipRemoval"}
      OBVIOUS
    <2> QED
      BY <1>2, <2>1 DEF TrustRevocation
  <1>3. ASSUME NEW q \in Documents, WitnessConfig(b, q) PROVE Committed
    <2>1. [type |-> "WitnessConfig", value |-> q].type
              \notin {"MembershipAcceptance", "MembershipRemoval"}
      OBVIOUS
    <2> QED
      BY <1>3, <2>1 DEF WitnessConfig
  <1>4. ASSUME NEW d \in DocumentKinds, NEW q \in Documents, ReplaceDocument(b, d, q)
        PROVE  Committed
    <2>1. [type |-> d, value |-> q].type
              \notin {"MembershipAcceptance", "MembershipRemoval"}
      BY DEF DocumentKinds
    <2> QED
      BY <1>4, <2>1 DEF ReplaceDocument
  <1>5. UNCHANGED <<root, principals, invitations>>
    BY DEF TrustAttestation, TrustRevocation, WitnessConfig, ReplaceDocument
  <1>6. Committed
    BY <1>1, <1>2, <1>3, <1>4
  <1> QED
    BY <1>5, <1>6

LEMMA StepConsent ==
    ASSUME ConsentInv, [Next]_vars
    PROVE  ConsentInv'
  <1>0. TypeOK /\ TypeOK' /\ ControlInv'
    BY StepType, StepControl DEF ConsentInv, ControlInv
  <1>1. CASE UNCHANGED vars
    BY <1>0, <1>1 DEF vars, ConsentInv, OpenInvitationsStand, AdmissionsAreConsented, Consented,
                      Positions, At, IsType, IsOpen, Removes, Answers
  <1>2. ASSUME NEW r \in InceptionRoots, NEW ts \in Timestamps,
               NEW author \in Key, NEW signer \in Key, Inception(r, ts, author, signer)
        PROVE  ConsentInv'
    <2> DEFINE b == [seq |-> 0, ts |-> ts, prev |-> 0]
               payload == [type |-> "Inception"]
    <2>1. /\ Commit(b, r.identity, payload) /\ b.seq = NextSeq /\ invitations' = invitations
          /\ payload.type = "Inception"
      BY <1>2 DEF Inception
    <2> HIDE DEF b, payload
    <2> QED
      BY <1>0, <2>1, HarmlessStep
  <1>3. ASSUME NEW b \in Acceptable,
               \/ \E s \in Subjects : TrustAttestation(b, s)
               \/ \E e \in EventId : TrustRevocation(b, e)
               \/ \E v \in Documents : WitnessConfig(b, v)
               \/ \E d \in DocumentKinds, v \in Documents : ReplaceDocument(b, d, v)
        PROVE  ConsentInv'
    <2>1. /\ invitations' = invitations
          /\ \E payload :
                /\ Commit(b, SigningPrincipal(b.author), payload)
                /\ payload.type \notin {"MembershipAcceptance", "MembershipRemoval"}
      BY <1>3, OtherPayloads
    <2> QED
      BY <1>0, <2>1, AcceptableFacts, HarmlessStep
  <1>4. ASSUME NEW b \in Acceptable, NEW i \in Invitees, NEW k \in Key, NEW r \in Roles,
               MembershipInvitation(b, i, k, r)
        PROVE  ConsentInv'
    <2> DEFINE payload == [type |-> "MembershipInvitation", invitee |-> i, role |-> r]
    <2>1. /\ Commit(b, SigningPrincipal(b.author), payload)
          /\ payload.type = "MembershipInvitation" /\ payload.invitee = i
          /\ invitations' = [invitations EXCEPT ![b.seq] =
                 [invitee |-> i, key |-> k, role |-> r, status |-> "open"]]
      BY <1>4 DEF MembershipInvitation
    <2> HIDE DEF payload
    <2>2. /\ \A e \in EventId : e # b.seq => invitations'[e] = invitations[e]
          /\ b.seq \in EventId => invitations'[b.seq].invitee = i
      BY <1>0, <2>1 DEF TypeOK
    <2>3. b.seq = NextSeq
      BY <1>0, AcceptableFacts
    <2>4. b.seq \in EventId => payload.invitee = invitations'[b.seq].invitee
      BY <2>1, <2>2
    <2>5. payload.type \notin {"MembershipAcceptance", "MembershipRemoval"}
      BY <2>1
    <2> QED
      BY <1>0, <2>1, <2>2, <2>3, <2>4, <2>5, HarmlessStep
  <1>5. ASSUME NEW b \in Acceptable, NEW a \in Acceptance, MembershipAcceptance(b, a)
        PROVE  ConsentInv'
    BY <1>0, <1>5, AcceptanceConsent
  <1>6. ASSUME NEW b \in Acceptable, NEW i \in Identity, MembershipRemoval(b, i)
        PROVE  ConsentInv'
    BY <1>0, <1>6, RemovalConsent
  <1> QED
    BY <1>1, <1>2, <1>3, <1>4, <1>5, <1>6 DEF Next

\* Nobody becomes a principal without an invitation to that very identity,
\* answered once, under that identity's own key, and not overtaken by a removal
\* (check_acceptance, check_removal).
THEOREM ConsentTheorem == Spec => []AdmissionsAreConsented
  <1>1. ConsentInv => AdmissionsAreConsented
    BY DEF ConsentInv
  <1> QED
    BY <1>1, InitConsent, StepConsent, PTL DEF Spec

-----------------------------------------------------------------------------
(* The history.  The state the fold keeps agrees with the chain it has     *)
(* read: who may sign, whom the ledger trusts and what its documents say   *)
(* are what the accepted events, read as history, make of them.            *)

-----------------------------------------------------------------------------
(* Authority.  That a signer was a controller by the history alone follows *)
(* from its being one in the state, once every controller of the state has *)
(* grounds in the history.  An acceptance copies the role out of the state *)
(* and the history reads it off the invitation, so the two must agree as   *)
(* long as the invitation is open.                                         *)

OpenInvitationsKeepTheirRole ==
    \A e \in EventId : IsOpen(e) => At(e).role = invitations[e].role

ControllersHaveGrounds ==
    \A i \in Identity : IsController(i) => ControllerBefore(i, Len(chain))

AuthorityInv ==
    /\ ConsentInv
    /\ OpenInvitationsKeepTheirRole
    /\ ControllersHaveGrounds
    /\ SignedWhileController

\* ControllerBefore as a statement about a sequence of events c.
Admits(p, i) == p.type = "MembershipAcceptance" /\ p.invitee = i
Expels(p, i) == p.type = "MembershipRemoval" /\ p.target = i
Concerns(p, i) == Admits(p, i) \/ Expels(p, i)

Grounds(c, i, n) ==
    \/ \E e \in 0..(Len(c) - 1) :
          /\ e < n /\ Admits(c[e + 1].payload, i)
          /\ c[c[e + 1].payload.invitation + 1].payload.role = "controller"
          /\ \A f \in 0..(Len(c) - 1) : e < f /\ f < n => ~Concerns(c[f + 1].payload, i)
    \/ /\ i = c[1].by
       /\ \A e \in 0..(Len(c) - 1) : e < n => ~Concerns(c[e + 1].payload, i)

\* The two agree, in the state before a step and in the state after it.
LEMMA GroundsAgree ==
    ASSUME NEW i, NEW n
    PROVE  /\ ControllerBefore(i, n) <=> Grounds(chain, i, n)
           /\ ControllerBefore(i, n)' <=> Grounds(chain', i, n)
           /\ ControllerBefore(i, Len(chain)) <=> Grounds(chain, i, Len(chain))
           /\ ControllerBefore(i, Len(chain))' <=> Grounds(chain', i, Len(chain'))
  BY DEF ControllerBefore, IsLast, Concerns, Admits, Expels, Grounds, Positions, Accepts, Removes,
         IsType, At

\* Every admission of c answers an event of c.
Answerable(c) ==
    \A e \in 0..(Len(c) - 1) : c[e + 1].payload.type = "MembershipAcceptance" =>
        c[e + 1].payload.invitation \in 0..(Len(c) - 1)

\* Grounds survive an event appended to the chain, and reach past it when the
\* event is not about that identity.
LEMMA GroundsGrow ==
    ASSUME NEW c \in Seq(Event), Len(c) > 0, Answerable(c), NEW ev, NEW i,
           NEW n \in 0..Len(c), Grounds(c, i, n),
           NEW m, m = n \/ (n = Len(c) /\ m = n + 1 /\ ~Concerns(ev.payload, i))
    PROVE  Grounds(Append(c, ev), i, m)
  <1> DEFINE d == Append(c, ev)
  <1>1. /\ Len(c) \in Nat /\ Len(d) = Len(c) + 1
        /\ d[Len(c) + 1] = ev
        /\ \A k \in 1..Len(c) : d[k] = c[k]
    OBVIOUS
  <1> HIDE DEF d
  <1>2. \A f \in 0..(Len(c) - 1) : f \in 0..(Len(d) - 1) /\ d[f + 1] = c[f + 1]
    BY <1>1
  <1>3. \A f \in 0..(Len(d) - 1) : f \in 0..(Len(c) - 1) \/ (f = Len(c) /\ d[f + 1] = ev)
    BY <1>1
  <1>4. \A f \in 0..(Len(d) - 1) : f < m /\ ~(f \in 0..(Len(c) - 1) /\ f < n) =>
            ~Concerns(d[f + 1].payload, i)
    BY <1>1, <1>3
  <1>5. CASE i = c[1].by /\ \A e \in 0..(Len(c) - 1) : e < n => ~Concerns(c[e + 1].payload, i)
    <2>1. d[1] = c[1]
      BY <1>1
    <2>2. \A f \in 0..(Len(d) - 1) : f < m => ~Concerns(d[f + 1].payload, i)
      BY <1>2, <1>4, <1>5
    <2> QED
      BY <1>5, <2>1, <2>2 DEF Grounds, d
  <1>6. ASSUME NEW e \in 0..(Len(c) - 1), e < n, Admits(c[e + 1].payload, i),
               c[c[e + 1].payload.invitation + 1].payload.role = "controller",
               \A f \in 0..(Len(c) - 1) : e < f /\ f < n => ~Concerns(c[f + 1].payload, i)
        PROVE  Grounds(Append(c, ev), i, m)
    <2>1. e \in 0..(Len(d) - 1) /\ e < m /\ d[e + 1] = c[e + 1]
      BY <1>1, <1>2, <1>6
    <2>2. d[c[e + 1].payload.invitation + 1] = c[c[e + 1].payload.invitation + 1]
      BY <1>2, <1>6 DEF Answerable, Admits
    <2>3. \A f \in 0..(Len(d) - 1) : e < f /\ f < m => ~Concerns(d[f + 1].payload, i)
      BY <1>2, <1>4, <1>6
    <2> QED
      BY <1>6, <2>1, <2>2, <2>3 DEF Grounds, d
  <1> QED
    BY <1>5, <1>6 DEF Grounds

\* The last event of a chain gives grounds when it admits a controller.
LEMMA GroundsByAdmission ==
    ASSUME NEW c \in Seq(Event), NEW ev, NEW i, Admits(ev.payload, i),
           ev.payload.invitation \in 0..(Len(c) - 1),
           c[ev.payload.invitation + 1].payload.role = "controller"
    PROVE  Grounds(Append(c, ev), i, Len(c) + 1)
  <1> DEFINE d == Append(c, ev)
  <1>1. /\ Len(c) \in Nat /\ Len(d) = Len(c) + 1
        /\ d[Len(c) + 1] = ev
        /\ \A k \in 1..Len(c) : d[k] = c[k]
    OBVIOUS
  <1> HIDE DEF d
  <1>2. Len(c) \in 0..(Len(d) - 1) /\ Len(c) < Len(c) + 1
    BY <1>1
  <1>3. d[d[Len(c) + 1].payload.invitation + 1] = c[ev.payload.invitation + 1]
    BY <1>1
  <1>4. \A f \in 0..(Len(d) - 1) : ~(Len(c) < f /\ f < Len(c) + 1)
    BY <1>1
  <1> QED
    BY <1>1, <1>2, <1>3, <1>4 DEF Grounds, d

\* Consented admissions answer an event of the chain.
LEMMA ChainIsAnswerable ==
    ASSUME ConsentInv
    PROVE  Answerable(chain)
  <1> SUFFICES ASSUME NEW e \in Positions, IsType(e, "MembershipAcceptance")
               PROVE  At(e).invitation \in Positions
    BY DEF Answerable, Positions, IsType, At
  <1>1. TypeOK /\ At(e).invitation < e
    BY DEF ConsentInv, ControlInv, AdmissionsAreConsented, Consented
  <1>2. At(e).invitation \in EventId
    BY <1>1, AcceptanceNamesEvent
  <1> QED
    BY <1>1, <1>2 DEF EventId, Positions

\* The principal an event is signed as is a controller of the state before it.
LEMMA SignerIsController ==
    ASSUME NEW b \in Acceptable
    PROVE  IsController(SigningPrincipal(b.author))
  BY DEF Acceptable, SignatureRules, AuthorizedSigner, SigningPrincipal, MatchesController

\* What a step must show: whose role it may raise and which invitation it may
\* open; the rest of the history carries over.
LEMMA AuthorityGrows ==
    ASSUME AuthorityInv, ConsentInv', NEW b, NEW by \in Identity, NEW payload,
           Commit(b, by, payload), b.seq = NextSeq, NextSeq > 0, IsController(by),
           \A i \in Identity : IsController(i)' =>
               \/ IsController(i) /\ ~Concerns(payload, i)
               \/ /\ Admits(payload, i) /\ payload.invitation \in Positions
                  /\ At(payload.invitation).role = "controller",
           \A e \in EventId : IsOpen(e)' =>
               \/ IsOpen(e) /\ invitations'[e].role = invitations[e].role
               \/ e = b.seq /\ payload.role = invitations'[e].role
    PROVE  AuthorityInv'
  <1> DEFINE ev == [by |-> by, ts |-> b.ts, prev |-> b.prev, payload |-> payload]
  <1>1. /\ TypeOK /\ TypeOK' /\ ConsentInv
        /\ chain \in Seq(Event) /\ chain' = Append(chain, ev)
        /\ ev.by = by /\ ev.payload = payload
    BY DEF AuthorityInv, ConsentInv, ControlInv, TypeOK, Commit
  <1> HIDE DEF ev
  <1>2. /\ Len(chain) \in Nat /\ Len(chain) > 0 /\ Len(chain') = Len(chain) + 1
        /\ b.seq = Len(chain) /\ Answerable(chain)
        /\ \A k \in 1..Len(chain) : chain'[k] = chain[k]
        /\ chain'[Len(chain) + 1] = ev
    BY <1>1, ChainIsAnswerable DEF TypeOK
  <1>3. OpenInvitationsKeepTheirRole'
    <2> SUFFICES ASSUME NEW e \in EventId, IsOpen(e)'
                 PROVE  At(e)'.role = invitations'[e].role
      BY DEF OpenInvitationsKeepTheirRole
    <2>1. CASE IsOpen(e) /\ invitations'[e].role = invitations[e].role
      <3>1. e \in Positions
        BY <2>1 DEF AuthorityInv, ConsentInv, OpenInvitationsStand
      <3>2. At(e)' = At(e)
        BY <1>1, <3>1, GrowingChain
      <3> QED
        BY <2>1, <3>2 DEF AuthorityInv, OpenInvitationsKeepTheirRole
    <2>2. CASE e = b.seq /\ payload.role = invitations'[e].role
      <3>1. At(b.seq)' = payload
        BY <1>1, GrowingChain
      <3> QED
        BY <2>2, <3>1
    <2> QED
      BY <2>1, <2>2
  <1>4. ControllersHaveGrounds'
    <2> SUFFICES ASSUME NEW i \in Identity, IsController(i)'
                 PROVE  Grounds(chain', i, Len(chain'))
      BY GroundsAgree DEF ControllersHaveGrounds
    <2>1. CASE IsController(i) /\ ~Concerns(payload, i)
      <3>1. Grounds(chain, i, Len(chain))
        BY <2>1, GroundsAgree DEF AuthorityInv, ControllersHaveGrounds
      <3>2. Grounds(Append(chain, ev), i, Len(chain) + 1)
        BY <1>1, <1>2, <2>1, <3>1, GroundsGrow
      <3> QED
        BY <1>1, <1>2, <3>2
    <2>2. CASE /\ Admits(payload, i) /\ payload.invitation \in Positions
               /\ At(payload.invitation).role = "controller"
      <3>1. Grounds(Append(chain, ev), i, Len(chain) + 1)
        BY <1>1, <2>2, GroundsByAdmission DEF Positions, At
      <3> QED
        BY <1>1, <1>2, <3>1
    <2> QED
      BY <2>1, <2>2
  <1>5. SignedWhileController'
    <2> SUFFICES ASSUME NEW n \in Positions', n > 0
                 PROVE  Grounds(chain', chain'[n + 1].by, n)
      <3>1. \A n \in Positions' : n > 0 => ControllerBefore(chain[n + 1].by, n)'
        <4> TAKE n \in Positions'
        <4> HAVE n > 0
        <4>1. Grounds(chain', chain'[n + 1].by, n)
          OBVIOUS
        <4> QED
          BY <4>1 DEF ControllerBefore, IsLast, Concerns, Admits, Expels, Grounds, Positions,
                      Accepts, Removes, IsType, At
      <3> QED
        BY <3>1 DEF SignedWhileController
    <2>1. CASE n = Len(chain)
      <3>1. Grounds(chain, by, Len(chain))
        BY GroundsAgree DEF AuthorityInv, ControllersHaveGrounds
      <3>2. Grounds(Append(chain, ev), by, Len(chain))
        BY <1>1, <1>2, <3>1, GroundsGrow
      <3> QED
        BY <1>1, <1>2, <2>1, <3>2
    <2>2. CASE n \in Positions
      <3> DEFINE i == chain[n + 1].by
      <3>1. ControllerBefore(i, n) /\ n \in 0..Len(chain) /\ chain'[n + 1] = chain[n + 1]
        BY <1>2, <2>2 DEF AuthorityInv, SignedWhileController, Positions
      <3>2. Grounds(chain, i, n)
        BY <3>1 DEF ControllerBefore, IsLast, Concerns, Admits, Expels, Grounds, Positions,
                    Accepts, Removes, IsType, At
      <3> HIDE DEF i
      <3>3. Grounds(Append(chain, ev), i, n)
        BY <1>1, <1>2, <3>1, <3>2, GroundsGrow
      <3> QED
        BY <1>1, <3>1, <3>3 DEF i
    <2> QED
      BY <1>2, <2>1, <2>2 DEF Positions
  <1> QED
    BY <1>3, <1>4, <1>5 DEF AuthorityInv

\* The fold of no event has given nobody a role.
LEMMA InitAuthority == Init => AuthorityInv
  <1> SUFFICES ASSUME Init PROVE AuthorityInv
    OBVIOUS
  <1>1. \A e \in EventId : ~IsOpen(e)
    BY DEF Init, IsOpen, NoInvitation
  <1>2. \A i \in Identity : ~IsController(i)
    BY DEF Init, IsController, NoPrincipal
  <1>3. Positions = {}
    BY DEF Init, Positions
  <1> QED
    BY <1>1, <1>2, <1>3, InitConsent
       DEF AuthorityInv, OpenInvitationsKeepTheirRole, ControllersHaveGrounds, SignedWhileController

\* The seed is a controller because it signed position 0.
LEMMA InceptionAuthority ==
    ASSUME AuthorityInv, ConsentInv', NEW r \in InceptionRoots, NEW ts \in Timestamps,
           NEW author \in Key, NEW signer \in Key, Inception(r, ts, author, signer)
    PROVE  AuthorityInv'
  <1> DEFINE ev == [by |-> r.identity, ts |-> ts, prev |-> 0, payload |-> [type |-> "Inception"]]
  <1>1. /\ TypeOK /\ TypeOK' /\ r.identity \in Identity
        /\ chain \in Seq(Event) /\ Len(chain) = 0 /\ chain' = Append(chain, ev)
        /\ ev.by = r.identity /\ ev.payload.type = "Inception"
    BY LedgerAssumption
       DEF AuthorityInv, ConsentInv, ControlInv, TypeOK, Inception, Commit, InceptionRoots
  <1> HIDE DEF ev
  <1>2. Len(chain') = 1 /\ chain'[1] = ev
    BY <1>1
  <1>3. \A i \in Identity : IsController(i)' => i = r.identity
    BY <1>1 DEF Inception, AuthorityInv, ConsentInv, ControlInv, NothingBeforeTheSeed,
                IsPrincipal, IsController, TypeOK
  <1>4. Grounds(chain', r.identity, 1)
    BY <1>1, <1>2 DEF Grounds, Concerns, Admits, Expels
  <1>5. ControllersHaveGrounds'
    BY <1>2, <1>3, <1>4, GroundsAgree DEF ControllersHaveGrounds
  <1>6. \A e \in EventId : ~IsOpen(e)
    BY <1>1 DEF AuthorityInv, ConsentInv, OpenInvitationsStand, Positions
  <1>7. OpenInvitationsKeepTheirRole'
    BY <1>6 DEF OpenInvitationsKeepTheirRole, Inception, IsOpen
  <1>8. SignedWhileController'
    BY <1>2 DEF SignedWhileController, Positions
  <1> QED
    BY <1>5, <1>7, <1>8 DEF AuthorityInv

\* An acceptance raises its invitee to the role the open invitation names.
LEMMA AcceptanceAuthority ==
    ASSUME AuthorityInv, ConsentInv', NEW b \in Acceptable, NEW a \in Acceptance,
           MembershipAcceptance(b, a)
    PROVE  AuthorityInv'
  <1> DEFINE v == a.invitation
             i == invitations[v].invitee
             by == SigningPrincipal(b.author)
             payload == [type |-> "MembershipAcceptance", invitation |-> v,
                         invitee |-> a.invitee, signer |-> a.signer]
  <1>1. /\ TypeOK /\ b.seq = NextSeq /\ NextSeq > 0 /\ v \in EventId /\ i \in Identity
        /\ by \in Identity /\ IsController(by) /\ Commit(b, by, payload)
    BY AcceptableFacts, SignerIsIdentity, SignerIsController
       DEF AuthorityInv, ConsentInv, ControlInv, TypeOK, Acceptance, MembershipAcceptance
  <1>2. /\ payload.type = "MembershipAcceptance" /\ payload.invitation = v
        /\ payload.invitee = a.invitee /\ a.invitee = i /\ IsOpen(v)
        /\ invitations' = [invitations EXCEPT ![v].status = "accepted"]
        /\ principals' = [principals EXCEPT ![i] = [role |-> invitations[v].role,
                                                    key |-> invitations[v].key]]
    BY DEF MembershipAcceptance, BlobMatches
  <1>3. \A e \in EventId : IsOpen(e)' => IsOpen(e) /\ invitations'[e].role = invitations[e].role
    BY <1>1, <1>2 DEF IsOpen, TypeOK
  <1>4. v \in Positions /\ At(v).role = invitations[v].role
    BY <1>1, <1>2 DEF AuthorityInv, ConsentInv, OpenInvitationsStand, OpenInvitationsKeepTheirRole
  <1>5. ASSUME NEW j \in Identity, IsController(j)'
        PROVE  \/ IsController(j) /\ ~Concerns(payload, j)
               \/ /\ Admits(payload, j) /\ payload.invitation \in Positions
                  /\ At(payload.invitation).role = "controller"
    <2>1. CASE j = i
      <3>1. invitations[v].role = "controller"
        BY <1>1, <1>2, <1>5, <2>1 DEF IsController, TypeOK
      <3> QED
        BY <1>2, <1>4, <2>1, <3>1 DEF Admits
    <2>2. CASE j # i
      BY <1>1, <1>2, <1>5, <2>2 DEF IsController, TypeOK, Concerns, Admits, Expels
    <2> QED
      BY <2>1, <2>2
  <1> HIDE DEF by, payload
  <1> QED
    BY <1>1, <1>3, <1>5, AuthorityGrows

\* A removal keeps the grounds of the controllers it leaves (fold.rs, apply of a removal).
LEMMA RemovalAuthority ==
    ASSUME AuthorityInv, ConsentInv', NEW b \in Acceptable, NEW i \in Identity,
           MembershipRemoval(b, i)
    PROVE  AuthorityInv'
  <1> DEFINE by == SigningPrincipal(b.author)
             payload == [type |-> "MembershipRemoval", target |-> i]
  <1>1. /\ TypeOK /\ b.seq = NextSeq /\ NextSeq > 0
        /\ by \in Identity /\ IsController(by) /\ Commit(b, by, payload)
        /\ payload.type = "MembershipRemoval" /\ payload.target = i
    BY AcceptableFacts, SignerIsIdentity, SignerIsController
       DEF AuthorityInv, ConsentInv, ControlInv, MembershipRemoval
  <1> HIDE DEF by, payload
  <1>2. \A e \in EventId : IsOpen(e)' => IsOpen(e) /\ invitations'[e].role = invitations[e].role
    <2>1. OpenInvitationsOf(i) # {} => OpenInvitationOf(i) \in EventId
      BY DEF OpenInvitationOf, OpenInvitationsOf
    <2>2. \A e \in EventId : invitations'[e].role = invitations[e].role
      <3>1. CASE OpenInvitationsOf(i) = {}
        BY <3>1 DEF MembershipRemoval
      <3>2. CASE OpenInvitationsOf(i) # {}
        <4> DEFINE w == OpenInvitationOf(i)
        <4>1. invitations' = [invitations EXCEPT ![w].status = "cancelled"] /\ w \in EventId
          BY <2>1, <3>2 DEF MembershipRemoval
        <4> HIDE DEF w
        <4> QED
          BY <1>1, <4>1 DEF TypeOK
      <3> QED
        BY <3>1, <3>2
    <2> QED
      BY <1>1, <2>2, RemovalFacts
  <1>3. \A j \in Identity : IsController(j)' => IsController(j) /\ ~Concerns(payload, j)
    BY <1>1, RemovalFacts DEF TypeOK, IsController, NoPrincipal, Concerns, Admits, Expels
  <1> QED
    BY <1>1, <1>2, <1>3, AuthorityGrows

\* A step that commits no membership event and changes no principal.
LEMMA QuietAuthority ==
    ASSUME AuthorityInv, ConsentInv', NEW b \in Acceptable, NEW payload,
           Commit(b, SigningPrincipal(b.author), payload),
           payload.type \notin {"MembershipAcceptance", "MembershipRemoval"},
           principals' = principals,
           \A e \in EventId : IsOpen(e)' =>
               \/ IsOpen(e) /\ invitations'[e].role = invitations[e].role
               \/ e = b.seq /\ payload.role = invitations'[e].role
    PROVE  AuthorityInv'
  <1> DEFINE by == SigningPrincipal(b.author)
  <1>1. /\ b.seq = NextSeq /\ NextSeq > 0 /\ by \in Identity /\ IsController(by)
        /\ Commit(b, by, payload)
    BY AcceptableFacts, SignerIsIdentity, SignerIsController DEF AuthorityInv, ConsentInv, ControlInv
  <1>2. \A j \in Identity : IsController(j)' => IsController(j) /\ ~Concerns(payload, j)
    BY DEF IsController, Concerns, Admits, Expels
  <1> HIDE DEF by
  <1> QED
    BY <1>1, <1>2, AuthorityGrows

\* Every accepted event keeps the invariant of the controllers' grounds.
LEMMA StepAuthority ==
    ASSUME AuthorityInv, [Next]_vars
    PROVE  AuthorityInv'
  <1>0. ConsentInv /\ ConsentInv' /\ TypeOK
    BY StepConsent DEF AuthorityInv, ConsentInv, ControlInv
  <1>1. CASE UNCHANGED vars
    <2>1. UNCHANGED <<principals, invitations, chain>>
      BY <1>1 DEF vars
    <2>2. OpenInvitationsKeepTheirRole'
      BY <2>1 DEF AuthorityInv, OpenInvitationsKeepTheirRole, IsOpen, At
    <2>3. \A i, n : ControllerBefore(i, n)' = ControllerBefore(i, n)
      BY <2>1 DEF ControllerBefore, IsLast, Positions, At, IsType, Accepts, Removes
    <2>4. ControllersHaveGrounds'
      BY <2>1, <2>3, GroundsAgree DEF AuthorityInv, ControllersHaveGrounds, IsController
    <2>5. SignedWhileController' = SignedWhileController
      BY <2>1 DEF SignedWhileController, ControllerBefore, IsLast, Positions, At, IsType,
                  Accepts, Removes
    <2> QED
      BY <1>0, <2>2, <2>4, <2>5 DEF AuthorityInv
  <1>2. ASSUME NEW r \in InceptionRoots, NEW ts \in Timestamps,
               NEW author \in Key, NEW signer \in Key, Inception(r, ts, author, signer)
        PROVE  AuthorityInv'
    BY <1>0, <1>2, InceptionAuthority
  <1>3. ASSUME NEW b \in Acceptable,
               \/ \E s \in Subjects : TrustAttestation(b, s)
               \/ \E e \in EventId : TrustRevocation(b, e)
               \/ \E v \in Documents : WitnessConfig(b, v)
               \/ \E d \in DocumentKinds, v \in Documents : ReplaceDocument(b, d, v)
        PROVE  AuthorityInv'
    <2>1. /\ UNCHANGED <<principals, invitations>>
          /\ \E payload :
                /\ Commit(b, SigningPrincipal(b.author), payload)
                /\ payload.type \notin {"MembershipAcceptance", "MembershipRemoval"}
      BY <1>3, OtherPayloads
    <2>2. \A e \in EventId : IsOpen(e)' => IsOpen(e) /\ invitations'[e].role = invitations[e].role
      BY <2>1 DEF IsOpen
    <2> QED
      BY <1>0, <2>1, <2>2, QuietAuthority
  <1>4. ASSUME NEW b \in Acceptable, NEW i \in Invitees, NEW k \in Key, NEW r \in Roles,
               MembershipInvitation(b, i, k, r)
        PROVE  AuthorityInv'
    <2> DEFINE payload == [type |-> "MembershipInvitation", invitee |-> i, role |-> r]
    <2>1. /\ Commit(b, SigningPrincipal(b.author), payload) /\ principals' = principals
          /\ payload.type = "MembershipInvitation" /\ payload.role = r
          /\ invitations' = [invitations EXCEPT ![b.seq] =
                 [invitee |-> i, key |-> k, role |-> r, status |-> "open"]]
      BY <1>4 DEF MembershipInvitation
    <2> HIDE DEF payload
    <2>2. \A e \in EventId : IsOpen(e)' =>
              \/ IsOpen(e) /\ invitations'[e].role = invitations[e].role
              \/ e = b.seq /\ payload.role = invitations'[e].role
      BY <1>0, <2>1 DEF TypeOK, IsOpen
    <2>3. payload.type \notin {"MembershipAcceptance", "MembershipRemoval"}
      BY <2>1
    <2> QED
      BY <1>0, <2>1, <2>2, <2>3, QuietAuthority
  <1>5. ASSUME NEW b \in Acceptable, NEW a \in Acceptance, MembershipAcceptance(b, a)
        PROVE  AuthorityInv'
    BY <1>0, <1>5, AcceptanceAuthority
  <1>6. ASSUME NEW b \in Acceptable, NEW i \in Identity, MembershipRemoval(b, i)
        PROVE  AuthorityInv'
    BY <1>0, <1>6, RemovalAuthority
  <1> QED
    BY <1>1, <1>2, <1>3, <1>4, <1>5, <1>6 DEF Next

\* Every event past the seed was signed by an identity that the earlier events
\* of the chain, read as history, make a controller at that point: no removed,
\* demoted or merely invited identity ever signed (apply, authorized_signer).
THEOREM AuthorityTheorem == Spec => []SignedWhileController
  <1>1. AuthorityInv => SignedWhileController
    BY DEF AuthorityInv
  <1> QED
    BY <1>1, InitAuthority, StepAuthority, PTL DEF Spec

-----------------------------------------------------------------------------
(* Records.  The trust map is keyed by event id, so the history can be     *)
(* compared with it entry by entry; what makes the last attestation of a   *)
(* subject decide is that a standing one blocks every later one.           *)

TrustFollowsEvents ==
    /\ \A e \in EventId : trust[e].status # "none" =>
          e \in Positions /\ IsType(e, "TrustAttestation") /\ At(e).subject = trust[e].subject
    /\ \A e \in Positions : IsType(e, "TrustAttestation") => trust[e].status # "none"
    /\ \A e \in EventId : trust[e].status = "revoked" =>
          \E f \in Positions : IsType(f, "TrustRevocation") /\ At(f).target = e
    /\ \A f \in Positions : IsType(f, "TrustRevocation") => trust[At(f).target].status = "revoked"

StandingTrustIsLatest ==
    \A e \in EventId : trust[e].status = "standing" =>
        \A f \in Positions : e < f /\ IsType(f, "TrustAttestation") =>
            At(f).subject # trust[e].subject

RecordsInv ==
    /\ TypeOK
    /\ TrustFollowsEvents
    /\ StandingTrustIsLatest
    /\ DocumentsMatchHistory

\* A revocation in the chain names an event id.
LEMMA RevocationNamesEvent ==
    ASSUME TypeOK, NEW e \in Positions, IsType(e, "TrustRevocation")
    PROVE  At(e).target \in EventId
  <1>1. chain[e + 1] \in Event
    BY DEF TypeOK, Positions
  <1>2. At(e) \in Payload
    BY <1>1 DEF At, Event
  <1> QED
    BY <1>2 DEF IsType, Payload, DocumentKinds

\* The standing attestations of a subject, counted.
LEMMA AtMostOneStands ==
    ASSUME RecordsInv, NEW s \in Subjects
    PROVE  Cardinality(Unrevoked(s)) <= 1
  <1>1. \A e, f \in Unrevoked(s) : e = f
    <2> SUFFICES ASSUME NEW e \in EventId, NEW f \in EventId,
                        trust[e].status = "standing", trust[e].subject = s,
                        trust[f].status = "standing", trust[f].subject = s
                 PROVE  e = f
      BY DEF Unrevoked
    <2>1. /\ e \in Positions /\ IsType(e, "TrustAttestation") /\ At(e).subject = s
          /\ f \in Positions /\ IsType(f, "TrustAttestation") /\ At(f).subject = s
      BY DEF RecordsInv, TrustFollowsEvents
    <2>2. ~(e < f) /\ ~(f < e)
      BY <2>1 DEF RecordsInv, StandingTrustIsLatest
    <2> QED
      BY <2>2 DEF EventId
  <1>2. CASE Unrevoked(s) = {}
    BY <1>2, FS_EmptySet
  <1>3. CASE Unrevoked(s) # {}
    <2>1. PICK e : e \in Unrevoked(s)
      BY <1>3
    <2>2. Unrevoked(s) = {e}
      BY <1>1, <2>1
    <2>3. Cardinality({e}) = 1
      BY FS_Singleton
    <2> QED
      BY <2>2, <2>3
  <1> QED
    BY <1>2, <1>3

\* The inductive invariant states what the run checks.
LEMMA RecordsImplyHistory ==
    ASSUME RecordsInv
    PROVE  RecordsMatchHistory
  <1>1. ASSUME NEW s \in Subjects
        PROVE  Trusts(s) <=>
                 \E e \in Positions :
                    /\ e < Len(chain)
                    /\ IsType(e, "TrustAttestation") /\ At(e).subject = s
                    /\ \A f \in Positions : e < f /\ f < Len(chain) =>
                          ~(IsType(f, "TrustAttestation") /\ At(f).subject = s)
                    /\ \A f \in Positions : ~(IsType(f, "TrustRevocation") /\ At(f).target = e)
    <2>0. /\ TypeOK /\ Positions \subseteq EventId /\ \A e \in Positions : e < Len(chain)
      BY MaxSeqAssumption DEF RecordsInv, TypeOK, Positions, EventId, NextSeq
    <2>1. ASSUME Trusts(s)
          PROVE  \E e \in Positions :
                    /\ e < Len(chain)
                    /\ IsType(e, "TrustAttestation") /\ At(e).subject = s
                    /\ \A f \in Positions : e < f /\ f < Len(chain) =>
                          ~(IsType(f, "TrustAttestation") /\ At(f).subject = s)
                    /\ \A f \in Positions : ~(IsType(f, "TrustRevocation") /\ At(f).target = e)
      <3>1. PICK e \in EventId : trust[e].status = "standing" /\ trust[e].subject = s
        BY <2>1 DEF Trusts, Unrevoked
      <3>2. e \in Positions /\ IsType(e, "TrustAttestation") /\ At(e).subject = s
        BY <3>1 DEF RecordsInv, TrustFollowsEvents
      <3>3. \A f \in Positions : e < f => ~(IsType(f, "TrustAttestation") /\ At(f).subject = s)
        BY <3>1 DEF RecordsInv, StandingTrustIsLatest
      <3>4. \A f \in Positions : ~(IsType(f, "TrustRevocation") /\ At(f).target = e)
        BY <3>1 DEF RecordsInv, TrustFollowsEvents
      <3> QED
        BY <2>0, <3>2, <3>3, <3>4
    <2>2. ASSUME NEW e \in Positions, IsType(e, "TrustAttestation"), At(e).subject = s,
                 \A f \in Positions : ~(IsType(f, "TrustRevocation") /\ At(f).target = e)
          PROVE  Trusts(s)
      <3>1. trust[e].status # "none" /\ trust[e].status # "revoked"
        BY <2>0, <2>2 DEF RecordsInv, TrustFollowsEvents
      <3>2. trust[e].status = "standing"
        BY <2>0, <3>1 DEF TypeOK
      <3>3. trust[e].subject = s
        BY <2>0, <2>2, <3>1 DEF RecordsInv, TrustFollowsEvents
      <3> QED
        BY <2>0, <3>2, <3>3 DEF Trusts, Unrevoked
    <2> QED
      BY <2>1, <2>2
  <1>2. TrustMatchesHistory
    BY <1>1, AtMostOneStands DEF TrustMatchesHistory, IsLast
  <1> QED
    BY <1>2 DEF RecordsMatchHistory, RecordsInv

\* An event appended to the chain: the positions before it keep their events.
LEMMA RecordedEvents ==
    ASSUME TypeOK, TypeOK', NEW b, NEW by, NEW payload, Commit(b, by, payload), b.seq = NextSeq
    PROVE  /\ Positions' = Positions \cup {b.seq} /\ b.seq \notin Positions
           /\ b.seq \in EventId
           /\ \A e \in Positions : /\ chain'[e + 1] = chain[e + 1] /\ At(e)' = At(e)
                                   /\ e \in EventId /\ e < b.seq /\ ~(b.seq < e)
           /\ At(b.seq)' = payload /\ chain'[b.seq + 1].by = by
  <1> DEFINE ev == [by |-> by, ts |-> b.ts, prev |-> b.prev, payload |-> payload]
  <1>1. /\ Len(chain) \in Nat /\ b.seq = Len(chain)
        /\ Positions' = Positions \cup {b.seq} /\ b.seq \notin Positions
        /\ Positions \subseteq Nat
        /\ \A e \in Positions : At(e)' = At(e) /\ e < b.seq /\ e \in EventId
        /\ At(b.seq)' = payload
    BY GrowingChain
  <1>2. chain \in Seq(Event) /\ chain' = Append(chain, ev) /\ ev.by = by
    BY DEF TypeOK, Commit
  <1>3. b.seq \in EventId
    BY <1>1 DEF TypeOK, NextSeq, EventId, Commit
  <1> HIDE DEF ev
  <1>4. \A e \in Positions : chain'[e + 1] = chain[e + 1]
    BY <1>1, <1>2 DEF Positions
  <1>5. chain'[b.seq + 1] = ev
    BY <1>1, <1>2
  <1> QED
    BY <1>1, <1>2, <1>3, <1>4, <1>5

\* What an event does to the documents: its own kind is replaced, no other.
DocumentsFollow(b, by, payload) ==
    /\ \A d \in DocumentKinds :
          /\ payload.type = d =>
                documents'[d] = [value |-> payload.value, by |-> by, event |-> b.seq]
          /\ payload.type # d => documents'[d] = documents[d]
    /\ payload.type = "WitnessConfig" => endpoints' = payload.value
    /\ payload.type # "WitnessConfig" => endpoints' = endpoints

\* Such a step keeps the documents those of the history.
LEMMA DocumentsGrow ==
    ASSUME RecordsInv, TypeOK', NEW b, NEW by, NEW payload, Commit(b, by, payload),
           b.seq = NextSeq, DocumentsFollow(b, by, payload)
    PROVE  DocumentsMatchHistory'
  <1>0. TypeOK
    BY DEF RecordsInv
  <1> USE <1>0, RecordedEvents DEF DocumentsFollow
  <1>1. ASSUME NEW d \in DocumentKinds
        PROVE  IF \E e \in Positions' : IsType(e, d)'
               THEN \E e \in Positions' :
                       /\ \A f \in Positions' : e < f => ~IsType(f, d)'
                       /\ documents'[d] = [value |-> At(e)'.value, by |-> chain'[e + 1].by,
                                           event |-> e]
               ELSE documents'[d] = NoDocument
    <2>1. CASE payload.type = d
      <3>1. b.seq \in Positions' /\ \A f \in Positions' : ~(b.seq < f)
        BY DEF EventId
      <3>2. documents'[d] = [value |-> At(b.seq)'.value, by |-> chain'[b.seq + 1].by,
                             event |-> b.seq]
        BY <2>1
      <3>3. IsType(b.seq, d)'
        BY <2>1 DEF IsType
      <3> QED
        BY <3>1, <3>2, <3>3
    <2>2. CASE payload.type # d /\ \E e \in Positions : IsType(e, d)
      <3>1. PICK e \in Positions :
                /\ \A f \in Positions : e < f => ~IsType(f, d)
                /\ documents[d] = [value |-> At(e).value, by |-> chain[e + 1].by, event |-> e]
        BY <2>2 DEF RecordsInv, DocumentsMatchHistory
      <3>2. documents'[d] = [value |-> At(e)'.value, by |-> chain'[e + 1].by, event |-> e]
        BY <2>2, <3>1
      <3>3. \A f \in Positions' : e < f => ~IsType(f, d)'
        BY <2>2, <3>1 DEF IsType
      <3>4. \E f \in Positions' : IsType(f, d)'
        BY <2>2 DEF IsType
      <3> QED
        BY <3>2, <3>3, <3>4
    <2>3. CASE payload.type # d /\ ~\E e \in Positions : IsType(e, d)
      <3>1. ~\E e \in Positions' : IsType(e, d)'
        BY <2>3 DEF IsType
      <3>2. documents[d] = NoDocument
        BY <2>3 DEF RecordsInv, DocumentsMatchHistory
      <3> QED
        BY <2>3, <3>1, <3>2
    <2> QED
      BY <2>1, <2>2, <2>3
  <1>2. ASSUME NEW e \in Positions', IsType(e, "WitnessConfig")',
               \A f \in Positions' : e < f => ~IsType(f, "WitnessConfig")'
        PROVE  endpoints' = At(e)'.value
    <2>1. CASE payload.type = "WitnessConfig"
      <3>1. IsType(b.seq, "WitnessConfig")'
        BY <2>1 DEF IsType
      <3>2. e = b.seq
        BY <1>2, <3>1
      <3> QED
        BY <2>1, <3>2
    <2>2. CASE payload.type # "WitnessConfig"
      <3>1. e \in Positions /\ IsType(e, "WitnessConfig") /\ At(e)' = At(e)
        BY <1>2, <2>2 DEF IsType
      <3>2. \A f \in Positions : e < f => ~IsType(f, "WitnessConfig")
        BY <1>2 DEF IsType
      <3>3. endpoints = At(e).value
        BY <3>1, <3>2 DEF RecordsInv, DocumentsMatchHistory
      <3> QED
        BY <2>2, <3>1, <3>3
    <2> QED
      BY <2>1, <2>2
  <1> QED
    BY <1>1, <1>2 DEF DocumentsMatchHistory

\* A payload that is no document leaves the documents as they are.
LEMMA DocumentsKept ==
    ASSUME NEW b, NEW by, NEW payload, payload.type \notin DocumentKinds \cup {"WitnessConfig"},
           documents' = documents, endpoints' = endpoints
    PROVE  DocumentsFollow(b, by, payload)
  BY DEF DocumentsFollow

\* A step that neither attests nor revokes leaves the trust records true.
LEMMA QuietTrust ==
    ASSUME RecordsInv, TypeOK', NEW b, NEW by, NEW payload, Commit(b, by, payload),
           b.seq = NextSeq, trust' = trust,
           payload.type \notin {"TrustAttestation", "TrustRevocation"}
    PROVE  (TrustFollowsEvents /\ StandingTrustIsLatest)'
  <1>0. TypeOK
    BY DEF RecordsInv
  <1> USE <1>0, RecordedEvents
  <1>1. \A e \in Positions' : \A t \in {"TrustAttestation", "TrustRevocation"} :
            IsType(e, t)' => e \in Positions /\ IsType(e, t) /\ At(e)' = At(e)
    BY DEF IsType
  <1>2. \A e \in Positions : e \in Positions' /\ At(e)' = At(e)
    OBVIOUS
  <1>3. \A e \in Positions : \A t : IsType(e, t) => IsType(e, t)'
    BY <1>2 DEF IsType
  <1>4. TrustFollowsEvents'
    <2>1. ASSUME NEW e \in EventId, trust'[e].status # "none"
          PROVE  /\ e \in Positions' /\ IsType(e, "TrustAttestation")'
                 /\ At(e)'.subject = trust'[e].subject
      BY <1>2, <1>3, <2>1 DEF RecordsInv, TrustFollowsEvents
    <2>2. \A e \in Positions' : IsType(e, "TrustAttestation")' => trust'[e].status # "none"
      BY <1>1 DEF RecordsInv, TrustFollowsEvents
    <2>3. ASSUME NEW e \in EventId, trust'[e].status = "revoked"
          PROVE  \E f \in Positions' : IsType(f, "TrustRevocation")' /\ At(f)'.target = e
      <3>1. PICK f \in Positions : IsType(f, "TrustRevocation") /\ At(f).target = e
        BY <2>3 DEF RecordsInv, TrustFollowsEvents
      <3> QED
        BY <1>2, <1>3, <3>1
    <2>4. \A f \in Positions' : IsType(f, "TrustRevocation")' =>
              trust'[At(f)'.target].status = "revoked"
      BY <1>1 DEF RecordsInv, TrustFollowsEvents
    <2> QED
      BY <2>1, <2>2, <2>3, <2>4 DEF TrustFollowsEvents
  <1>5. StandingTrustIsLatest'
    <2> SUFFICES ASSUME NEW e \in EventId, trust'[e].status = "standing",
                        NEW f \in Positions', e < f, IsType(f, "TrustAttestation")'
                 PROVE  At(f)'.subject # trust'[e].subject
      BY DEF StandingTrustIsLatest
    <2> QED
      BY <1>1 DEF RecordsInv, StandingTrustIsLatest
  <1> QED
    BY <1>4, <1>5

\* An attestation is recorded under its own position, and only when no other of
\* that subject stands.
LEMMA AttestTrust ==
    ASSUME RecordsInv, TypeOK', NEW b \in Acceptable, NEW s \in Subjects,
           TrustAttestation(b, s)
    PROVE  (TrustFollowsEvents /\ StandingTrustIsLatest)'
  <1> DEFINE by == SigningPrincipal(b.author)
             payload == [type |-> "TrustAttestation", subject |-> s]
             entry == [subject |-> s, by |-> by, status |-> "standing", revokedBy |-> NoEvent]
  <1>1. /\ TypeOK /\ b.seq = NextSeq /\ b.seq \in EventId
        /\ Commit(b, by, payload) /\ payload.type = "TrustAttestation" /\ payload.subject = s
        /\ trust' = [trust EXCEPT ![b.seq] = entry] /\ Unrevoked(s) = {}
        /\ entry.status = "standing" /\ entry.subject = s
    BY AcceptableFacts DEF RecordsInv, TrustAttestation
  <1> HIDE DEF by, payload, entry
  <1>2. trust'[b.seq] = entry /\ \A e \in EventId : e # b.seq => trust'[e] = trust[e]
    BY <1>1 DEF TypeOK
  <1> USE <1>1, RecordedEvents
  <1>3. \A e \in Positions' : IsType(e, "TrustRevocation")' =>
            e \in Positions /\ IsType(e, "TrustRevocation") /\ At(e)' = At(e)
    BY DEF IsType
  <1>4. \A e \in Positions : \A t : IsType(e, t)' <=> IsType(e, t)
    BY DEF IsType
  <1>5. trust[b.seq].status = "none"
    BY DEF RecordsInv, TrustFollowsEvents
  <1>6. TrustFollowsEvents'
    <2>1. ASSUME NEW e \in EventId, trust'[e].status # "none"
          PROVE  /\ e \in Positions' /\ IsType(e, "TrustAttestation")'
                 /\ At(e)'.subject = trust'[e].subject
      <3>1. CASE e = b.seq
        BY <1>2, <3>1 DEF IsType
      <3>2. CASE e # b.seq
        <4>1. e \in Positions /\ IsType(e, "TrustAttestation") /\ At(e).subject = trust[e].subject
          BY <1>2, <2>1, <3>2 DEF RecordsInv, TrustFollowsEvents
        <4> QED
          BY <1>2, <1>4, <3>2, <4>1
      <3> QED
        BY <3>1, <3>2
    <2>2. \A e \in Positions' : IsType(e, "TrustAttestation")' => trust'[e].status # "none"
      BY <1>2, <1>4 DEF RecordsInv, TrustFollowsEvents
    <2>3. ASSUME NEW e \in EventId, trust'[e].status = "revoked"
          PROVE  \E f \in Positions' : IsType(f, "TrustRevocation")' /\ At(f)'.target = e
      <3>1. PICK f \in Positions : IsType(f, "TrustRevocation") /\ At(f).target = e
        BY <1>2, <2>3 DEF RecordsInv, TrustFollowsEvents
      <3> QED
        BY <1>4, <3>1
    <2>4. ASSUME NEW f \in Positions', IsType(f, "TrustRevocation")'
          PROVE  trust'[At(f)'.target].status = "revoked"
      <3>1. /\ f \in Positions /\ At(f)' = At(f) /\ At(f).target \in EventId
            /\ trust[At(f).target].status = "revoked"
        BY <1>3, <2>4, RevocationNamesEvent DEF RecordsInv, TrustFollowsEvents
      <3> QED
        BY <1>2, <1>5, <3>1
    <2> QED
      BY <2>1, <2>2, <2>3, <2>4 DEF TrustFollowsEvents
  <1>7. StandingTrustIsLatest'
    <2> SUFFICES ASSUME NEW e \in EventId, trust'[e].status = "standing",
                        NEW f \in Positions', e < f, IsType(f, "TrustAttestation")'
                 PROVE  At(f)'.subject # trust'[e].subject
      BY DEF StandingTrustIsLatest
    <2>1. CASE f \in Positions
      <3>1. e # b.seq
        BY <2>1
      <3> QED
        BY <1>2, <1>4, <2>1, <3>1 DEF RecordsInv, StandingTrustIsLatest
    <2>2. CASE f = b.seq
      <3>1. e # b.seq
        BY <2>2 DEF EventId
      <3> QED
        BY <1>2, <2>2, <3>1 DEF Unrevoked
    <2> QED
      BY <2>1, <2>2
  <1> QED
    BY <1>6, <1>7

\* A revocation ends the one attestation it names.
LEMMA RevokeTrust ==
    ASSUME RecordsInv, TypeOK', NEW b \in Acceptable, NEW target \in EventId,
           TrustRevocation(b, target)
    PROVE  (TrustFollowsEvents /\ StandingTrustIsLatest)'
  <1> DEFINE by == SigningPrincipal(b.author)
             payload == [type |-> "TrustRevocation", target |-> target]
  <1>1. /\ TypeOK /\ b.seq = NextSeq /\ b.seq \in EventId
        /\ Commit(b, by, payload) /\ payload.type = "TrustRevocation" /\ payload.target = target
        /\ trust[target].status = "standing"
    BY AcceptableFacts DEF RecordsInv, TrustRevocation
  <1>2. /\ trust'[target].status = "revoked" /\ trust'[target].subject = trust[target].subject
        /\ \A e \in EventId : e # target => trust'[e] = trust[e]
    BY <1>1 DEF TrustRevocation, TypeOK
  <1> HIDE DEF by, payload
  <1> USE <1>1, RecordedEvents
  <1>3. \A e \in Positions' : IsType(e, "TrustAttestation")' =>
            e \in Positions /\ IsType(e, "TrustAttestation") /\ At(e)' = At(e)
    BY DEF IsType
  <1>4. \A e \in Positions : \A t : IsType(e, t)' <=> IsType(e, t)
    BY DEF IsType
  <1>5. \A e \in EventId : /\ trust'[e].subject = trust[e].subject
                           /\ trust'[e].status = "none" <=> trust[e].status = "none"
                           /\ trust'[e].status = "standing" => trust[e].status = "standing"
    BY <1>2
  <1>6. TrustFollowsEvents'
    <2>1. ASSUME NEW e \in EventId, trust'[e].status # "none"
          PROVE  /\ e \in Positions' /\ IsType(e, "TrustAttestation")'
                 /\ At(e)'.subject = trust'[e].subject
      <3>1. e \in Positions /\ IsType(e, "TrustAttestation") /\ At(e).subject = trust[e].subject
        BY <1>5, <2>1 DEF RecordsInv, TrustFollowsEvents
      <3> QED
        BY <1>4, <1>5, <3>1
    <2>2. \A e \in Positions' : IsType(e, "TrustAttestation")' => trust'[e].status # "none"
      BY <1>3, <1>5 DEF RecordsInv, TrustFollowsEvents
    <2>3. ASSUME NEW e \in EventId, trust'[e].status = "revoked"
          PROVE  \E f \in Positions' : IsType(f, "TrustRevocation")' /\ At(f)'.target = e
      <3>1. CASE e = target
        BY <3>1 DEF IsType
      <3>2. CASE e # target
        <4>1. PICK f \in Positions : IsType(f, "TrustRevocation") /\ At(f).target = e
          BY <1>2, <2>3, <3>2 DEF RecordsInv, TrustFollowsEvents
        <4> QED
          BY <1>4, <4>1
      <3> QED
        BY <3>1, <3>2
    <2>4. ASSUME NEW f \in Positions', IsType(f, "TrustRevocation")'
          PROVE  trust'[At(f)'.target].status = "revoked"
      <3>1. CASE f = b.seq
        BY <1>2, <3>1
      <3>2. CASE f \in Positions
        <4>1. /\ At(f)' = At(f) /\ At(f).target \in EventId
              /\ trust[At(f).target].status = "revoked"
          BY <1>4, <2>4, <3>2, RevocationNamesEvent DEF RecordsInv, TrustFollowsEvents
        <4> QED
          BY <1>2, <4>1
      <3> QED
        BY <3>1, <3>2
    <2> QED
      BY <2>1, <2>2, <2>3, <2>4 DEF TrustFollowsEvents
  <1>7. StandingTrustIsLatest'
    BY <1>3, <1>5 DEF RecordsInv, StandingTrustIsLatest
  <1> QED
    BY <1>6, <1>7

\* The fold of no event records nothing.
LEMMA InitRecords == Init => RecordsInv
  <1> SUFFICES ASSUME Init PROVE RecordsInv
    OBVIOUS
  <1>1. Positions = {}
    BY DEF Init, Positions
  <1>2. \A e \in EventId : trust[e].status = "none"
    BY DEF Init, NoAttestation
  <1>3. \A d \in DocumentKinds : documents[d] = NoDocument
    BY DEF Init
  <1> QED
    BY <1>1, <1>2, <1>3, InitType
       DEF RecordsInv, TrustFollowsEvents, StandingTrustIsLatest, DocumentsMatchHistory

\* A membership event, or the inception, concerns no record.
LEMMA QuietRecords ==
    ASSUME RecordsInv, TypeOK', NEW b, NEW by, NEW payload, Commit(b, by, payload),
           b.seq = NextSeq, UNCHANGED <<trust, endpoints, documents>>,
           payload.type \in {"Inception", "MembershipInvitation", "MembershipAcceptance",
                             "MembershipRemoval"}
    PROVE  RecordsInv'
  <1>1. /\ payload.type \notin {"TrustAttestation", "TrustRevocation"}
        /\ payload.type \notin DocumentKinds \cup {"WitnessConfig"}
    BY DEF DocumentKinds
  <1>2. (TrustFollowsEvents /\ StandingTrustIsLatest)'
    BY <1>1, QuietTrust
  <1>3. DocumentsFollow(b, by, payload)
    BY <1>1, DocumentsKept
  <1>4. DocumentsMatchHistory'
    BY <1>3, DocumentsGrow
  <1> QED
    BY <1>2, <1>4 DEF RecordsInv

\* Every accepted event keeps the invariant of the records.
LEMMA StepRecords ==
    ASSUME RecordsInv, [Next]_vars
    PROVE  RecordsInv'
  <1>0. TypeOK /\ TypeOK'
    BY StepType DEF RecordsInv
  <1>1. CASE UNCHANGED vars
    <2>1. UNCHANGED <<trust, endpoints, documents, chain>>
      BY <1>1 DEF vars
    <2>2. TrustFollowsEvents' /\ StandingTrustIsLatest'
      BY <2>1 DEF RecordsInv, TrustFollowsEvents, StandingTrustIsLatest, Positions, At, IsType
    <2>3. DocumentsMatchHistory' = DocumentsMatchHistory
      BY <2>1 DEF DocumentsMatchHistory, Positions, At, IsType
    <2> QED
      BY <1>0, <2>2, <2>3 DEF RecordsInv
  <1>2. ASSUME NEW r \in InceptionRoots, NEW ts \in Timestamps,
               NEW author \in Key, NEW signer \in Key, Inception(r, ts, author, signer)
        PROVE  RecordsInv'
    <2> DEFINE b == [seq |-> 0, ts |-> ts, prev |-> 0]
               payload == [type |-> "Inception"]
    <2>1. /\ Commit(b, r.identity, payload) /\ b.seq = NextSeq
          /\ UNCHANGED <<trust, endpoints, documents>> /\ payload.type = "Inception"
      BY <1>2 DEF Inception
    <2> HIDE DEF b, payload
    <2> QED
      BY <1>0, <2>1, QuietRecords
  <1>3. ASSUME NEW b \in Acceptable, NEW s \in Subjects, TrustAttestation(b, s)
        PROVE  RecordsInv'
    <2> DEFINE payload == [type |-> "TrustAttestation", subject |-> s]
    <2>1. /\ Commit(b, SigningPrincipal(b.author), payload) /\ b.seq = NextSeq
          /\ UNCHANGED <<endpoints, documents>> /\ payload.type = "TrustAttestation"
      BY <1>0, <1>3, AcceptableFacts DEF TrustAttestation
    <2> HIDE DEF payload
    <2>2. DocumentsFollow(b, SigningPrincipal(b.author), payload)
      BY <2>1, DocumentsKept DEF DocumentKinds
    <2>3. DocumentsMatchHistory'
      BY <1>0, <2>1, <2>2, DocumentsGrow
    <2> QED
      BY <1>0, <1>3, <2>3, AttestTrust DEF RecordsInv
  <1>4. ASSUME NEW b \in Acceptable, NEW e \in EventId, TrustRevocation(b, e)
        PROVE  RecordsInv'
    <2> DEFINE payload == [type |-> "TrustRevocation", target |-> e]
    <2>1. /\ Commit(b, SigningPrincipal(b.author), payload) /\ b.seq = NextSeq
          /\ UNCHANGED <<endpoints, documents>> /\ payload.type = "TrustRevocation"
      BY <1>0, <1>4, AcceptableFacts DEF TrustRevocation
    <2> HIDE DEF payload
    <2>2. DocumentsFollow(b, SigningPrincipal(b.author), payload)
      BY <2>1, DocumentsKept DEF DocumentKinds
    <2>3. DocumentsMatchHistory'
      BY <1>0, <2>1, <2>2, DocumentsGrow
    <2> QED
      BY <1>0, <1>4, <2>3, RevokeTrust DEF RecordsInv
  <1>5. ASSUME NEW b \in Acceptable, NEW i \in Invitees, NEW k \in Key, NEW r \in Roles,
               MembershipInvitation(b, i, k, r)
        PROVE  RecordsInv'
    <2> DEFINE payload == [type |-> "MembershipInvitation", invitee |-> i, role |-> r]
    <2>1. /\ Commit(b, SigningPrincipal(b.author), payload) /\ b.seq = NextSeq
          /\ UNCHANGED <<trust, endpoints, documents>> /\ payload.type = "MembershipInvitation"
      BY <1>0, <1>5, AcceptableFacts DEF MembershipInvitation
    <2> HIDE DEF payload
    <2> QED
      BY <1>0, <2>1, QuietRecords
  <1>6. ASSUME NEW b \in Acceptable, NEW a \in Acceptance, MembershipAcceptance(b, a)
        PROVE  RecordsInv'
    <2> DEFINE payload == [type |-> "MembershipAcceptance", invitation |-> a.invitation,
                           invitee |-> a.invitee, signer |-> a.signer]
    <2>1. /\ Commit(b, SigningPrincipal(b.author), payload) /\ b.seq = NextSeq
          /\ UNCHANGED <<trust, endpoints, documents>> /\ payload.type = "MembershipAcceptance"
      BY <1>0, <1>6, AcceptableFacts DEF MembershipAcceptance
    <2> HIDE DEF payload
    <2> QED
      BY <1>0, <2>1, QuietRecords
  <1>7. ASSUME NEW b \in Acceptable, NEW i \in Identity, MembershipRemoval(b, i)
        PROVE  RecordsInv'
    <2> DEFINE payload == [type |-> "MembershipRemoval", target |-> i]
    <2>1. /\ Commit(b, SigningPrincipal(b.author), payload) /\ b.seq = NextSeq
          /\ UNCHANGED <<trust, endpoints, documents>> /\ payload.type = "MembershipRemoval"
      BY <1>0, <1>7, AcceptableFacts DEF MembershipRemoval
    <2> HIDE DEF payload
    <2> QED
      BY <1>0, <2>1, QuietRecords
  <1>8. ASSUME NEW b \in Acceptable, NEW v \in Documents, WitnessConfig(b, v)
        PROVE  RecordsInv'
    <2> DEFINE payload == [type |-> "WitnessConfig", value |-> v]
    <2>1. /\ Commit(b, SigningPrincipal(b.author), payload) /\ b.seq = NextSeq
          /\ UNCHANGED <<trust, documents>> /\ endpoints' = v
          /\ payload.type = "WitnessConfig" /\ payload.value = v
      BY <1>0, <1>8, AcceptableFacts DEF WitnessConfig
    <2> HIDE DEF payload
    <2>2. DocumentsFollow(b, SigningPrincipal(b.author), payload)
      BY <2>1 DEF DocumentsFollow, DocumentKinds
    <2>3. DocumentsMatchHistory'
      BY <1>0, <2>1, <2>2, DocumentsGrow
    <2>4. (TrustFollowsEvents /\ StandingTrustIsLatest)'
      BY <1>0, <2>1, QuietTrust
    <2> QED
      BY <1>0, <2>3, <2>4 DEF RecordsInv
  <1>9. ASSUME NEW b \in Acceptable, NEW kind \in DocumentKinds, NEW v \in Documents,
               ReplaceDocument(b, kind, v)
        PROVE  RecordsInv'
    <2> DEFINE payload == [type |-> kind, value |-> v]
               by == SigningPrincipal(b.author)
    <2>1. /\ Commit(b, by, payload) /\ b.seq = NextSeq
          /\ UNCHANGED <<trust, endpoints>>
          /\ documents' = [documents EXCEPT ![kind] = [value |-> v, by |-> by, event |-> b.seq]]
          /\ payload.type = kind /\ payload.value = v
      BY <1>0, <1>9, AcceptableFacts DEF ReplaceDocument
    <2> HIDE DEF payload, by
    <2>2. payload.type \notin {"TrustAttestation", "TrustRevocation", "WitnessConfig"}
      BY <2>1 DEF DocumentKinds
    <2>3. DocumentsFollow(b, by, payload)
      BY <1>0, <2>1, <2>2 DEF DocumentsFollow, TypeOK
    <2>4. DocumentsMatchHistory'
      BY <1>0, <2>1, <2>3, DocumentsGrow
    <2>5. (TrustFollowsEvents /\ StandingTrustIsLatest)'
      BY <1>0, <2>1, <2>2, QuietTrust
    <2> QED
      BY <1>0, <2>4, <2>5 DEF RecordsInv
  <1> QED
    BY <1>1, <1>2, <1>3, <1>4, <1>5, <1>6, <1>7, <1>8, <1>9 DEF Next

\* Whatever events are accepted, "does this ledger trust s" and each latest-wins
\* document answer as a reading of the whole chain would: the incremental state
\* never drifts from its history (Effect::Attest, Effect::Revoke, commit).
THEOREM RecordsTheorem == Spec => []RecordsMatchHistory
  BY RecordsImplyHistory, InitRecords, StepRecords, PTL DEF Spec
=============================================================================
