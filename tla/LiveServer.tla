----------------------------- MODULE LiveServer -----------------------------
(***************************************************************************)
(* What the browser may rely on of a live session while its socket is      *)
(* open: the server holds a frame that it handles and at most one more,    *)
(* the newest, and answers what it holds one by one.                       *)
(***************************************************************************)
EXTENDS Naturals

VARIABLE held  \* how many frames the server has

Init == held = 0

KeepsNewest(n) == IF n = 0 THEN 1 ELSE 2

Take == held' = KeepsNewest(held)
Give == held > 0 /\ held' = held - 1
Next == Take \/ Give

\* weak fairness of Give
Answering == []<>(held = 0) \/ []<><<Give>>_held

Spec == Init /\ [][Next]_held /\ Answering
=============================================================================
