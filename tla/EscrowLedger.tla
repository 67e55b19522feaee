----------------------------- MODULE EscrowLedger -----------------------------
(***************************************************************************)
(* What the escrow of app/services/billing.py promises, without sessions,   *)
(* locks or retries: credit is held for an export at once and comes back     *)
(* at most once, and nothing else moves a buyer's balance.                   *)
(***************************************************************************)
EXTENDS Naturals, FiniteSets

CONSTANTS Exports, Buyers, BuyerOf, Price, Credit

VARIABLES
    balance,   \* credit of each buyer
    escrow     \* per export: "none", "held", "unpaid" or "returned"

vars == <<balance, escrow>>

\* Every unit of credit that the exports of buyer b in S cost.
Units(b, S) == UNION {{e} \X (1 .. Price[e]) : e \in {x \in S : BuyerOf[x] = b}}

\* What the exports of buyer b in S cost together.
Owed(b, S) == Cardinality(Units(b, S))

Init ==
    /\ balance = Credit
    /\ escrow = [e \in Exports |-> "none"]

\* An export is bought: its price is taken from a balance that covers it.
Hold(e) ==
    /\ escrow[e] = "none"
    /\ balance[BuyerOf[e]] >= Price[e]
    /\ balance' = [balance EXCEPT ![BuyerOf[e]] = @ - Price[e]]
    /\ escrow' = [escrow EXCEPT ![e] = "held"]

\* An export is opened and nothing is taken.
Open(e) ==
    /\ escrow[e] = "none"
    /\ escrow' = [escrow EXCEPT ![e] = "unpaid"]
    /\ UNCHANGED balance

\* The prices of some exports come back to their buyers.
Return(S) ==
    /\ \A e \in S : escrow[e] \in {"held", "unpaid"}
    /\ balance' = [b \in Buyers |-> balance[b] + Owed(b, S)]
    /\ escrow' = [e \in Exports |-> IF e \in S THEN "returned" ELSE escrow[e]]

Next ==
    \/ \E e \in Exports : Hold(e) \/ Open(e)
    \/ \E S \in SUBSET Exports : Return(S)

Spec == Init /\ [][Next]_vars
=============================================================================
