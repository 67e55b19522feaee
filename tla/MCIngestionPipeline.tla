------------------------ MODULE MCIngestionPipeline ------------------------
(* An instance of IngestionPipeline for TLC: one batch, two uploads and a   *)
(* field script that race for it, and one worker.                            *)
EXTENDS IngestionPipeline

CONSTANTS b1, u1, u2, w1

OneBatch == {b1}
TwoUploads == {u1, u2}
OneWorker == {w1}
=============================================================================
