--------------------------- MODULE AgreedLedger -----------------------------
(***************************************************************************)
(* What replicating one shared ledger through one witness promises its     *)
(* controllers (docs/proposals/001-architecture.md, section 5, "Appending  *)
(* to a shared ledger", and the code of wallet/sync.rs that carries it):   *)
(* there is one log, it only grows, and each home's confirmed part of it   *)
(* is a prefix that only grows.  A home's own unpushed events are not part *)
(* of the promise: losing a race discards them.                            *)
(***************************************************************************)
EXTENDS Integers, Sequences, SequencesExt

CONSTANT Chains    \* every chain the ledger may be

VARIABLES log,     \* the chain everybody agrees on
          view     \* the part of it each home has confirmed

vars == <<log, view>>
Viewers == DOMAIN view

Init == log \in Chains /\ view = [h \in Viewers |-> log]

\* The log is extended, or some homes learn more of it.
Agree(longer) ==
    /\ IsPrefix(log, longer)
    /\ log' = longer
    /\ view' \in [Viewers -> Chains]
    /\ \A h \in Viewers : IsPrefix(view[h], view'[h]) /\ IsPrefix(view'[h], longer)

Next == \E longer \in Chains : Agree(longer)

Spec == Init /\ [][Next]_vars
=============================================================================
