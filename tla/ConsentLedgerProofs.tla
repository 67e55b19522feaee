-------------------------- MODULE ConsentLedgerProofs --------------------------
(***************************************************************************)
(* Proofs about ConsentLedger for every number of sessions.  That a         *)
(* withdrawn consent stays invalid rests on the order of the stamps: what a *)
(* withdrawal has selected was flushed before it flushes itself, and what   *)
(* it has committed is never removed.                                       *)
(***************************************************************************)
EXTENDS ConsentLedger, TLAPS

\* A task that has not failed for good has a retry left; there is none before
\* the withdrawal is committed.
RetryInv ==
  \A s \in Withdrawers :
    /\ erasure[s] # "failed" => attempts[s] <= MaxRetries
    /\ pc[s] \in {"idle", "select", "lock", "flush", "commit", "schedule"}
         => erasure[s] = "none"

\* Every row, visible or not, was stamped before now.
StampInv ==
  /\ \A r \in ledger : r.stamp < clock
  /\ \A c \in Recorders : rec[c] # NoStamp => rec[c] < clock
  /\ \A s \in Withdrawers : \A r \in seen[s] : r.stamp < clock
  /\ \A s \in Withdrawers : pc[s] = "commit" => stamp[s] < clock

\* A withdrawal stamps its rows after those it has selected.
OrderInv ==
  \A s \in Withdrawers : pc[s] = "commit" \/ Committed(s) =>
    \A r \in seen[s] : r.stamp < stamp[s]

\* What a withdrawal has committed is in the ledger.
DurableInv ==
  \A s \in Withdrawers : Committed(s) => Withdrawals(s) \subseteq ledger

IInv == TypeOK /\ RetryInv /\ StampInv /\ OrderInv /\ DurableInv

-----------------------------------------------------------------------------

(* Every step keeps every variable in its type. *)
LEMMA TypeStep ==
    TypeOK /\ RetryInv /\ [Next]_vars => TypeOK'
<1> SUFFICES ASSUME TypeOK, RetryInv, [Next]_vars PROVE TypeOK'
  OBVIOUS
<1> USE ConsentAssumption DEF TypeOK, RetryInv, Rows, NoStamp, vars
<1>1. ASSUME NEW c \in Recorders, RecordFlush(c) PROVE TypeOK'
  BY <1>1 DEF RecordFlush
<1>2. ASSUME NEW c \in Recorders, RecordCommit(c) PROVE TypeOK'
  BY <1>2 DEF RecordCommit, Consent
<1>3. ASSUME NEW r \in ledger, ExpiryPasses(r) PROVE TypeOK'
  BY <1>3 DEF ExpiryPasses, Active
<1>4. ASSUME NEW s \in Withdrawers, Request(s) PROVE TypeOK'
  BY <1>4 DEF Request
<1>5. ASSUME NEW s \in Withdrawers, Select(s) PROVE TypeOK'
  BY <1>5 DEF Select, Active
<1>6. ASSUME NEW s \in Withdrawers, Lock(s) PROVE TypeOK'
  BY <1>6 DEF Lock
<1>7. ASSUME NEW s \in Withdrawers, FlushWithdrawals(s) PROVE TypeOK'
  BY <1>7 DEF FlushWithdrawals
<1>8. ASSUME NEW s \in Withdrawers, CommitWithdrawals(s) PROVE TypeOK'
  BY <1>8 DEF CommitWithdrawals, Withdrawals
<1>9. ASSUME NEW s \in Withdrawers, ScheduleErasure(s) PROVE TypeOK'
  BY <1>9 DEF ScheduleErasure
<1>10. ASSUME NEW s \in Withdrawers, Finish(s) PROVE TypeOK'
  BY <1>10 DEF Finish
<1>11. ASSUME NEW s \in Withdrawers, Crash(s) PROVE TypeOK'
  BY <1>11 DEF Crash
<1>12. ASSUME NEW s \in Withdrawers, RemoveObjects(s) PROVE TypeOK'
  BY <1>12 DEF RemoveObjects
<1>13. ASSUME NEW s \in Withdrawers, DeleteRows(s) PROVE TypeOK'
  BY <1>13 DEF DeleteRows
<1>14. ASSUME NEW s \in Withdrawers, DeleteAborted(s) PROVE TypeOK'
  BY <1>14 DEF DeleteAborted, Retries
<1>15. ASSUME NEW s \in Withdrawers, EraserDies(s) PROVE TypeOK'
  BY <1>15 DEF EraserDies
<1>16. ASSUME KeyExpires PROVE TypeOK'
  BY <1>16 DEF KeyExpires
<1>17. ASSUME ExpireConsents PROVE TypeOK'
  BY <1>17 DEF ExpireConsents, PastConsents, Active
<1>18. CASE UNCHANGED vars
  BY <1>18
<1> QED
  BY <1>1, <1>2, <1>3, <1>4, <1>5, <1>6, <1>7, <1>8, <1>9, <1>10, <1>11, <1>12,
     <1>13, <1>14, <1>15, <1>16, <1>17, <1>18
     DEF Next, Withdraw, Erase

(* Every step keeps a retry in hand for a task that may still run. *)
LEMMA RetryStep ==
    TypeOK /\ RetryInv /\ [Next]_vars => RetryInv'
<1> SUFFICES ASSUME TypeOK, RetryInv, [Next]_vars PROVE RetryInv'
  OBVIOUS
<1> USE ConsentAssumption DEF TypeOK, RetryInv, vars
<1>1. ASSUME NEW c \in Recorders, RecordFlush(c) PROVE RetryInv'
  BY <1>1 DEF RecordFlush
<1>2. ASSUME NEW c \in Recorders, RecordCommit(c) PROVE RetryInv'
  BY <1>2 DEF RecordCommit, Consent
<1>3. ASSUME NEW r \in ledger, ExpiryPasses(r) PROVE RetryInv'
  BY <1>3 DEF ExpiryPasses, Active
<1>4. ASSUME NEW s \in Withdrawers, Request(s) PROVE RetryInv'
  BY <1>4 DEF Request
<1>5. ASSUME NEW s \in Withdrawers, Select(s) PROVE RetryInv'
  BY <1>5 DEF Select, Active
<1>6. ASSUME NEW s \in Withdrawers, Lock(s) PROVE RetryInv'
  BY <1>6 DEF Lock
<1>7. ASSUME NEW s \in Withdrawers, FlushWithdrawals(s) PROVE RetryInv'
  BY <1>7 DEF FlushWithdrawals
<1>8. ASSUME NEW s \in Withdrawers, CommitWithdrawals(s) PROVE RetryInv'
  BY <1>8 DEF CommitWithdrawals, Withdrawals
<1>9. ASSUME NEW s \in Withdrawers, ScheduleErasure(s) PROVE RetryInv'
  BY <1>9 DEF ScheduleErasure
<1>10. ASSUME NEW s \in Withdrawers, Finish(s) PROVE RetryInv'
  BY <1>10 DEF Finish
<1>11. ASSUME NEW s \in Withdrawers, Crash(s) PROVE RetryInv'
  BY <1>11 DEF Crash
<1>12. ASSUME NEW s \in Withdrawers, RemoveObjects(s) PROVE RetryInv'
  BY <1>12 DEF RemoveObjects
<1>13. ASSUME NEW s \in Withdrawers, DeleteRows(s) PROVE RetryInv'
  BY <1>13 DEF DeleteRows
<1>14. ASSUME NEW s \in Withdrawers, DeleteAborted(s) PROVE RetryInv'
  BY <1>14 DEF DeleteAborted, Retries
<1>15. ASSUME NEW s \in Withdrawers, EraserDies(s) PROVE RetryInv'
  BY <1>15 DEF EraserDies
<1>16. ASSUME KeyExpires PROVE RetryInv'
  BY <1>16 DEF KeyExpires
<1>17. ASSUME ExpireConsents PROVE RetryInv'
  BY <1>17 DEF ExpireConsents, PastConsents, Active
<1>18. CASE UNCHANGED vars
  BY <1>18
<1> QED
  BY <1>1, <1>2, <1>3, <1>4, <1>5, <1>6, <1>7, <1>8, <1>9, <1>10, <1>11, <1>12,
     <1>13, <1>14, <1>15, <1>16, <1>17, <1>18
     DEF Next, Withdraw, Erase

(* Every step keeps the stamps in the past. *)
LEMMA StampStep ==
    TypeOK /\ StampInv /\ [Next]_vars => StampInv'
<1> SUFFICES ASSUME TypeOK, StampInv, [Next]_vars PROVE StampInv'
  OBVIOUS
<1> USE ConsentAssumption DEF TypeOK, StampInv, Rows, NoStamp, TriggerRaises, vars
<1>1. ASSUME NEW c \in Recorders, RecordFlush(c) PROVE StampInv'
  BY <1>1 DEF RecordFlush
<1>2. ASSUME NEW c \in Recorders, RecordCommit(c) PROVE StampInv'
  BY <1>2 DEF RecordCommit, Consent
<1>3. ASSUME NEW r \in ledger, ExpiryPasses(r) PROVE StampInv'
  BY <1>3 DEF ExpiryPasses, Active
<1>4. ASSUME NEW s \in Withdrawers, Request(s) PROVE StampInv'
  BY <1>4 DEF Request
<1>5. ASSUME NEW s \in Withdrawers, Select(s) PROVE StampInv'
  BY <1>5 DEF Select, Active
<1>6. ASSUME NEW s \in Withdrawers, Lock(s) PROVE StampInv'
  BY <1>6 DEF Lock
<1>7. ASSUME NEW s \in Withdrawers, FlushWithdrawals(s) PROVE StampInv'
  BY <1>7 DEF FlushWithdrawals
<1>8. ASSUME NEW s \in Withdrawers, CommitWithdrawals(s) PROVE StampInv'
  <2>1. \A r \in ledger' : r.stamp < clock
    <3> SUFFICES ASSUME NEW r \in Withdrawals(s) PROVE r.stamp < clock
      BY <1>8 DEF CommitWithdrawals
    <3>1. r.stamp = stamp[s]
      BY DEF Withdrawals
    <3> QED
      BY <1>8, <3>1 DEF CommitWithdrawals
  <2> QED
    BY <1>8, <2>1 DEF CommitWithdrawals
<1>9. ASSUME NEW s \in Withdrawers, ScheduleErasure(s) PROVE StampInv'
  BY <1>9 DEF ScheduleErasure
<1>10. ASSUME NEW s \in Withdrawers, Finish(s) PROVE StampInv'
  BY <1>10 DEF Finish
<1>11. ASSUME NEW s \in Withdrawers, Crash(s) PROVE StampInv'
  BY <1>11 DEF Crash
<1>12. ASSUME NEW s \in Withdrawers, RemoveObjects(s) PROVE StampInv'
  BY <1>12 DEF RemoveObjects
<1>13. ASSUME NEW s \in Withdrawers, DeleteRows(s) PROVE StampInv'
  BY <1>13 DEF DeleteRows
<1>14. ASSUME NEW s \in Withdrawers, DeleteAborted(s) PROVE StampInv'
  BY <1>14 DEF DeleteAborted, Retries
<1>15. ASSUME NEW s \in Withdrawers, EraserDies(s) PROVE StampInv'
  BY <1>15 DEF EraserDies
<1>16. ASSUME KeyExpires PROVE StampInv'
  BY <1>16 DEF KeyExpires
<1>17. ASSUME ExpireConsents PROVE StampInv'
  <2>1. \A r \in ledger' : r.stamp < clock
    BY <1>17 DEF ExpireConsents, PastConsents, Active
  <2> QED
    BY <1>17, <2>1 DEF ExpireConsents
<1>18. CASE UNCHANGED vars
  BY <1>18
<1> QED
  BY <1>1, <1>2, <1>3, <1>4, <1>5, <1>6, <1>7, <1>8, <1>9, <1>10, <1>11, <1>12,
     <1>13, <1>14, <1>15, <1>16, <1>17, <1>18
     DEF Next, Withdraw, Erase

(* Every step keeps a withdrawal's stamp after those it has selected. *)
LEMMA OrderStep ==
    TypeOK /\ StampInv /\ OrderInv /\ [Next]_vars => OrderInv'
<1> SUFFICES ASSUME TypeOK, StampInv, OrderInv, [Next]_vars PROVE OrderInv'
  OBVIOUS
<1> USE ConsentAssumption DEF TypeOK, StampInv, OrderInv, Committed, Rows, vars
<1>1. ASSUME NEW c \in Recorders, RecordFlush(c) PROVE OrderInv'
  BY <1>1 DEF RecordFlush
<1>2. ASSUME NEW c \in Recorders, RecordCommit(c) PROVE OrderInv'
  BY <1>2 DEF RecordCommit, Consent
<1>3. ASSUME NEW r \in ledger, ExpiryPasses(r) PROVE OrderInv'
  BY <1>3 DEF ExpiryPasses, Active
<1>4. ASSUME NEW s \in Withdrawers, Request(s) PROVE OrderInv'
  BY <1>4 DEF Request
<1>5. ASSUME NEW s \in Withdrawers, Select(s) PROVE OrderInv'
  BY <1>5 DEF Select, Active
<1>6. ASSUME NEW s \in Withdrawers, Lock(s) PROVE OrderInv'
  BY <1>6 DEF Lock
<1>7. ASSUME NEW s \in Withdrawers, FlushWithdrawals(s) PROVE OrderInv'
  BY <1>7 DEF FlushWithdrawals
<1>8. ASSUME NEW s \in Withdrawers, CommitWithdrawals(s) PROVE OrderInv'
  BY <1>8 DEF CommitWithdrawals, Withdrawals
<1>9. ASSUME NEW s \in Withdrawers, ScheduleErasure(s) PROVE OrderInv'
  BY <1>9 DEF ScheduleErasure
<1>10. ASSUME NEW s \in Withdrawers, Finish(s) PROVE OrderInv'
  BY <1>10 DEF Finish
<1>11. ASSUME NEW s \in Withdrawers, Crash(s) PROVE OrderInv'
  BY <1>11 DEF Crash
<1>12. ASSUME NEW s \in Withdrawers, RemoveObjects(s) PROVE OrderInv'
  BY <1>12 DEF RemoveObjects
<1>13. ASSUME NEW s \in Withdrawers, DeleteRows(s) PROVE OrderInv'
  BY <1>13 DEF DeleteRows
<1>14. ASSUME NEW s \in Withdrawers, DeleteAborted(s) PROVE OrderInv'
  BY <1>14 DEF DeleteAborted, Retries
<1>15. ASSUME NEW s \in Withdrawers, EraserDies(s) PROVE OrderInv'
  BY <1>15 DEF EraserDies
<1>16. ASSUME KeyExpires PROVE OrderInv'
  BY <1>16 DEF KeyExpires
<1>17. ASSUME ExpireConsents PROVE OrderInv'
  BY <1>17 DEF ExpireConsents, PastConsents, Active
<1>18. CASE UNCHANGED vars
  BY <1>18
<1> QED
  BY <1>1, <1>2, <1>3, <1>4, <1>5, <1>6, <1>7, <1>8, <1>9, <1>10, <1>11, <1>12,
     <1>13, <1>14, <1>15, <1>16, <1>17, <1>18
     DEF Next, Withdraw, Erase

(* Every step keeps committed withdrawals in the ledger. *)
LEMMA DurableStep ==
    TypeOK /\ DurableInv /\ [Next]_vars => DurableInv'
<1> SUFFICES ASSUME TypeOK, DurableInv, [Next]_vars PROVE DurableInv'
  OBVIOUS
<1> USE ConsentAssumption DEF TypeOK, DurableInv, Committed, Withdrawals, Rows, TriggerRaises, vars
<1>1. ASSUME NEW c \in Recorders, RecordFlush(c) PROVE DurableInv'
  BY <1>1 DEF RecordFlush
<1>2. ASSUME NEW c \in Recorders, RecordCommit(c) PROVE DurableInv'
  BY <1>2 DEF RecordCommit, Consent
<1>3. ASSUME NEW r \in ledger, ExpiryPasses(r) PROVE DurableInv'
  BY <1>3 DEF ExpiryPasses, Active
<1>4. ASSUME NEW s \in Withdrawers, Request(s) PROVE DurableInv'
  BY <1>4 DEF Request
<1>5. ASSUME NEW s \in Withdrawers, Select(s) PROVE DurableInv'
  BY <1>5 DEF Select, Active
<1>6. ASSUME NEW s \in Withdrawers, Lock(s) PROVE DurableInv'
  BY <1>6 DEF Lock
<1>7. ASSUME NEW s \in Withdrawers, FlushWithdrawals(s) PROVE DurableInv'
  BY <1>7 DEF FlushWithdrawals
<1>8. ASSUME NEW s \in Withdrawers, CommitWithdrawals(s) PROVE DurableInv'
  BY <1>8 DEF CommitWithdrawals, Withdrawals
<1>9. ASSUME NEW s \in Withdrawers, ScheduleErasure(s) PROVE DurableInv'
  BY <1>9 DEF ScheduleErasure
<1>10. ASSUME NEW s \in Withdrawers, Finish(s) PROVE DurableInv'
  BY <1>10 DEF Finish
<1>11. ASSUME NEW s \in Withdrawers, Crash(s) PROVE DurableInv'
  BY <1>11 DEF Crash
<1>12. ASSUME NEW s \in Withdrawers, RemoveObjects(s) PROVE DurableInv'
  BY <1>12 DEF RemoveObjects
<1>13. ASSUME NEW s \in Withdrawers, DeleteRows(s) PROVE DurableInv'
  BY <1>13 DEF DeleteRows
<1>14. ASSUME NEW s \in Withdrawers, DeleteAborted(s) PROVE DurableInv'
  BY <1>14 DEF DeleteAborted, Retries
<1>15. ASSUME NEW s \in Withdrawers, EraserDies(s) PROVE DurableInv'
  BY <1>15 DEF EraserDies
<1>16. ASSUME KeyExpires PROVE DurableInv'
  BY <1>16 DEF KeyExpires
<1>17. ASSUME ExpireConsents PROVE DurableInv'
  BY <1>17 DEF ExpireConsents, PastConsents, Active
<1>18. CASE UNCHANGED vars
  BY <1>18
<1> QED
  BY <1>1, <1>2, <1>3, <1>4, <1>5, <1>6, <1>7, <1>8, <1>9, <1>10, <1>11, <1>12,
     <1>13, <1>14, <1>15, <1>16, <1>17, <1>18
     DEF Next, Withdraw, Erase

(* Every step only adds rows: the tasks that would not are rolled back. *)
LEMMA AppendStep == [Next]_vars => ledger \subseteq ledger'
<1> SUFFICES ASSUME [Next]_vars PROVE ledger \subseteq ledger'
  OBVIOUS
<1>1. CASE \E c \in Recorders : RecordFlush(c) \/ RecordCommit(c)
  BY <1>1 DEF RecordFlush, RecordCommit
<1>2. CASE \E r \in ledger : ExpiryPasses(r)
  BY <1>2 DEF ExpiryPasses
<1>3. CASE \E s \in Withdrawers : Withdraw(s) \/ Crash(s)
  BY <1>3 DEF Withdraw, Request, Select, Lock, FlushWithdrawals, CommitWithdrawals,
              ScheduleErasure, Finish, Crash
<1>4. CASE \E s \in Withdrawers : Erase(s) \/ EraserDies(s)
  BY <1>4 DEF Erase, RemoveObjects, DeleteRows, DeleteAborted, EraserDies, TriggerRaises
<1>5. CASE KeyExpires
  BY <1>5 DEF KeyExpires
<1>6. CASE ExpireConsents
  <2>1. CASE PastConsents = {}
    BY <1>6, <2>1 DEF ExpireConsents, TriggerRaises
  <2>2. CASE PastConsents # {}
    BY <1>6, <2>2 DEF ExpireConsents, TriggerRaises
  <2> QED
    BY <2>1, <2>2
<1>7. CASE UNCHANGED vars
  BY <1>7 DEF vars
<1> QED
  BY <1>1, <1>2, <1>3, <1>4, <1>5, <1>6, <1>7 DEF Next

(* The initial state satisfies the strengthening. *)
LEMMA InitIInv == Init => IInv
<1> SUFFICES ASSUME Init PROVE IInv
  OBVIOUS
<1> USE ConsentAssumption DEF Init
<1>1. TypeOK
  <2>1. rec \in [Recorders -> Nat \cup {NoStamp}]
    OBVIOUS
  <2>2. /\ pc \in [Withdrawers -> {"idle"}]
        /\ seen \in [Withdrawers -> SUBSET Rows]
        /\ erasure \in [Withdrawers -> {"none"}]
    OBVIOUS
  <2>3. stamp \in [Withdrawers -> Nat] /\ attempts \in [Withdrawers -> 0 .. MaxRetries + 1]
    OBVIOUS
  <2> QED
    BY <2>1, <2>2, <2>3 DEF TypeOK
<1>2. RetryInv
  BY DEF RetryInv
<1>3. StampInv
  BY DEF StampInv
<1>4. OrderInv /\ DurableInv
  BY DEF OrderInv, DurableInv, Committed
<1> QED
  BY <1>1, <1>2, <1>3, <1>4 DEF IInv

(* It is an invariant. *)
LEMMA Inductive == Spec => []IInv
<1>1. IInv /\ [Next]_vars => IInv'
  BY TypeStep, RetryStep, StampStep, OrderStep, DurableStep DEF IInv
<1> QED
  BY InitIInv, <1>1, PTL DEF Spec

-----------------------------------------------------------------------------

(* Every variable stays in its type; an erasure task fails at most once for *)
(* each attempt it is given (tasks.py:1768).                                *)
THEOREM TypeCorrect == Spec => []TypeOK
<1>1. IInv => TypeOK
  BY DEF IInv
<1> QED
  BY <1>1, Inductive, PTL

(* The ledger is append-only, whatever the erasure and the expiry tasks     *)
(* attempt (migration 0002).                                                *)
THEOREM LedgerAppendOnly == Spec => AppendOnly
<1>1. [Next]_vars => [ledger \subseteq ledger']_ledger
  BY AppendStep
<1> QED
  BY <1>1, PTL DEF Spec, AppendOnly

(* A consent that a committed withdrawal has selected never verifies again  *)
(* (compliance.py:232).                                                     *)
THEOREM WithdrawalsLast == Spec => []WithdrawnStaysInvalid
<1>1. IInv => WithdrawnStaysInvalid
  <2> SUFFICES ASSUME IInv, NEW s \in Withdrawers, Committed(s), NEW r \in seen[s]
               PROVE  ~ Verifies(r)
    BY DEF WithdrawnStaysInvalid
  <2> DEFINE w == [status |-> "WITHDRAWN", stamp |-> stamp[s], of |-> r.stamp]
  <2>1. w \in Withdrawn
    BY DEF IInv, DurableInv, Withdrawals, Withdrawn
  <2>2. r.stamp < w.stamp
    BY DEF IInv, OrderInv
  <2> QED
    BY <2>1, <2>2 DEF Verifies
<1> QED
  BY <1>1, Inductive, PTL
===============================================================================
