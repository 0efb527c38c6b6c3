--------------------------- MODULE MCLedgerFiles ----------------------------
(***************************************************************************)
(* Instances of LedgerFiles: a running node (process "node", with the      *)
(* append lock "wallet" and the index lock "server") and the CLI beside it *)
(* (process "tool", append lock "cli").                                    *)
(***************************************************************************)
EXTENDS LedgerFiles

MCProcessOf == [w \in Writers |-> IF w = "cli" THEN "tool" ELSE "node"]
=============================================================================
