--------------------------- MODULE EscrowRefinement ---------------------------
(***************************************************************************)
(* ExportEscrow implements EscrowLedger.                                   *)
(***************************************************************************)
EXTENDS ExportEscrow

\* The ledger entry that an export row and its audit rows stand for.
EscrowOf(e) ==
    CASE status[e] = "NONE" -> "none"
      [] status[e] # "NONE" /\ e \in refunded -> "returned"
      [] status[e] # "NONE" /\ e \in escrowed \ refunded -> "held"
      [] OTHER -> "unpaid"

Ledger == INSTANCE EscrowLedger WITH escrow <- [e \in Exports |-> EscrowOf(e)]

(* Whatever interleaving of purchases, pipeline failures, redeliveries,     *)
(* webhooks and withdrawals the locks allow, the balances move as in the    *)
(* ledger: a purchase takes its price once from enough credit, a refund     *)
(* gives it back once, and no concurrent commit is lost (billing.py:54 and  *)
(* :107, "to prevent concurrent double-deduction (TOCTOU)").                *)
ImplementsLedger == Ledger!Spec
=============================================================================
