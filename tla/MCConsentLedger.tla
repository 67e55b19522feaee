-------------------------- MODULE MCConsentLedger ---------------------------
(* Instances of ConsentLedger for TLC. *)
EXTENDS ConsentLedger

CONSTANTS c1, c2, s1, s2

MCRecorders == {c1, c2}
MCWithdrawers == {s1, s2}
MCOneRecorder == {c1}
MCKeyed == {s1, s2}
MCOneKeyed == {s1}
=============================================================================
