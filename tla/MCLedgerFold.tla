---------------------------- MODULE MCLedgerFold ----------------------------
(***************************************************************************)
(* An instance of LedgerFold for TLC.  The ledger is L; ann, bob and cat   *)
(* are identities its events may name.  cat's inception records bob's key: *)
(* two identities that share one key, which the fold must keep apart.      *)
(***************************************************************************)
EXTENDS LedgerFold

CONSTANT MaxMixed    \* bound: the events of a chain with every payload

MCIdentity == {"L", "ann", "bob", "cat"}
MCKey == {"kL", "kann", "kbob"}
MCKeyOf == [i \in MCIdentity |->
              CASE i = "L" -> "kL" [] i = "ann" -> "kann" [] OTHER -> "kbob"]

Membership == {"Inception", "MembershipInvitation", "MembershipAcceptance", "MembershipRemoval"}

(* Chains of memberships alone grow to MaxSeq; chains with other payloads, *)
(* or with time passing, keep to ann and to MaxMixed events.               *)
Explored ==
    \/ \A i \in 1..Len(chain) : chain[i].ts = 1 /\ chain[i].payload.type \in Membership
    \/ /\ Len(chain) < MaxMixed
       /\ root.identity \in {"L", "ann"}
       /\ \A i \in 1..Len(chain) :
             chain[i].payload.type = "MembershipInvitation" => chain[i].payload.invitee = "ann"
=============================================================================
