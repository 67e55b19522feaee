--------------------------- MODULE MCOfflineSync ---------------------------
(* Instances of OfflineSync for TLC. *)
EXTENDS OfflineSync

CONSTANTS c1, c2, e1
OneFrame == {1}
TwoFrames == {1, 2}
OneCall == {c1}
TwoCalls == {c1, c2}
OneEdit == {e1}
NoEdit == {}
=============================================================================
