--------------------------- MODULE MCExportEscrow ---------------------------
(* Small instances of ExportEscrow for TLC. *)
EXTENDS EscrowRefinement, TLC

CONSTANTS e1, e2, ann, road

\* Two exports of the same buyer and dataset, so that locks are contended.
MCBuyers == {ann}
MCDatasets == {road}
MCExports == {e1, e2}
MCBuyerOf == [e \in MCExports |-> ann]
MCDatasetOf == [e \in MCExports |-> road]
MCPrice == e1 :> 2 @@ e2 :> 1
MCCredit == ann :> 2
=============================================================================
