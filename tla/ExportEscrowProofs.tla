-------------------------- MODULE ExportEscrowProofs --------------------------
(***************************************************************************)
(* Proofs about ExportEscrow for every set of exports, buyers, datasets and *)
(* sessions.  The invariants of interest are not inductive: they hold       *)
(* because of who holds which row lock while a refund or a purchase is in   *)
(* flight, which is what the strengthening below records.  The last part     *)
(* proves that the escrow implements EscrowLedger.                           *)
(***************************************************************************)
EXTENDS EscrowRefinement, FiniteSetTheorems, TLAPS

\* A session that is doing something about an export knows which one.
JobInv == \A p \in Proc : pc[p] \notin {"idle", "block"} => job[p] \in Exports

\* A purchase holds the buyer's row from its check to its commit.
DebitInv ==
    \A r \in Requests :
        pc[r] = "debit" => userLock[BuyerOf[job[r]]] = r

\* An uncommitted refund holds the export's row, and is the first one.
PaidInv == \A p \in Proc : \A e \in paid[p] : exportLock[e] = p /\ e \notin refunded

\* So does a session that has found no refund and goes on to credit.
CreditInv ==
    \A p \in Proc :
        pc[p] = "credit" => exportLock[job[p]] = p /\ job[p] \notin refunded

\* An uncommitted BLOCKED holds the row and has its refund, done or next.
BlockInv ==
    \A p \in Proc : \A e \in blocked[p] :
        /\ exportLock[e] = p
        /\ \/ Price[e] = 0
           \/ e \in refunded
           \/ e \in paid[p]
           \/ pc[p] = "credit" /\ job[p] = e

IInv ==
    /\ TypeOK
    /\ JobInv
    /\ DebitInv
    /\ DebitIsFresh
    /\ PaidInv
    /\ CreditInv
    /\ BlockInv
    /\ RefundOnce
    /\ BlockedIsRefunded

-----------------------------------------------------------------------------

(* COMMIT of a refunding transaction keeps every row well typed. *)
LEMMA CommitRefundsType ==
    ASSUME TypeOK, NEW p \in Proc, CommitRefunds(p)
    PROVE  /\ balance' \in [Buyers -> Nat]
           /\ sold' \in SUBSET Datasets
           /\ status' \in [Exports -> Status]
           /\ escrowed' \in SUBSET Exports
           /\ refunded' \in SUBSET Exports
           /\ credits' \in [Exports -> Nat]
           /\ exportLock' \in [Exports -> Proc \cup {None}]
           /\ userLock' \in [Buyers -> Proc \cup {None}]
<1> USE EscrowAssumption DEF TypeOK, CommitRefunds
<1>1. balance' \in [Buyers -> Nat]
  OBVIOUS
<1>2. status' \in [Exports -> Status]
  BY DEF Status
<1>3. refunded' \in SUBSET Exports
  OBVIOUS
<1>4. credits' \in [Exports -> Nat]
  OBVIOUS
<1>5. exportLock' \in [Exports -> Proc \cup {None}] /\ userLock' \in [Buyers -> Proc \cup {None}]
  BY DEF Release
<1> QED
  BY <1>1, <1>2, <1>3, <1>4, <1>5

(* Every step keeps every variable in its type. *)
LEMMA TypeStep ==
    TypeOK /\ JobInv /\ DebitIsFresh /\ [Next]_vars => TypeOK'
<1> SUFFICES ASSUME TypeOK, JobInv, DebitIsFresh, [Next]_vars PROVE TypeOK'
  OBVIOUS
<1> USE EscrowAssumption DEF TypeOK, JobInv, DebitIsFresh, Affordable, PC, Running, Refunding, Stages, Status, Proc, vars, rows, locks, locals
<1>1. ASSUME NEW r \in Requests, NEW e \in Exports, VerifyBuyer(r, e) PROVE TypeOK'
  BY <1>1 DEF VerifyBuyer, Goto
<1>2. ASSUME NEW r \in Requests, NEW e \in Exports, CreateB2BExport(r, e) PROVE TypeOK'
  BY <1>2 DEF CreateB2BExport, Goto
<1>3. ASSUME NEW r \in Requests, LockBuyer(r) PROVE TypeOK'
  BY <1>3 DEF LockBuyer, UserRowFree, Affordable, Goto
<1>4. ASSUME NEW r \in Requests, CommitExport(r) PROVE TypeOK'
  <2>1. job[r] \in Exports /\ BuyerOf[job[r]] \in Buyers
    BY <1>4 DEF CommitExport
  <2>2. view[r][BuyerOf[job[r]]] - Price[job[r]] \in Nat
    BY <1>4, <2>1 DEF CommitExport
  <2>3. /\ balance' \in [Buyers -> Nat] /\ status' \in [Exports -> Status]
        /\ escrowed' \in SUBSET Exports
    BY <1>4, <2>1, <2>2 DEF CommitExport
  <2> QED BY <1>4, <2>3 DEF CommitExport, Release, Close, Discard, Goto
<1>5. ASSUME NEW r \in Requests, DispatchExport(r) PROVE TypeOK'
  <2>1. job[r] \in Exports
    BY <1>5 DEF DispatchExport
  <2>2. [export |-> job[r], retries |-> 0] \in Message
    BY <2>1 DEF Message
  <2>3. queue' \subseteq Message
    BY <1>5, <2>2 DEF DispatchExport
  <2> QED BY <1>5, <2>3 DEF DispatchExport, Close, Discard, Goto
<1>6. ASSUME NEW w \in Workers, NEW m \in queue, StartTask(w, m) PROVE TypeOK'
  BY <1>6 DEF StartTask, SetStatus, Unlocked, Goto, Message
<1>7. ASSUME NEW w \in Workers, StageDone(w) PROVE TypeOK'
  BY <1>7 DEF StageDone, Goto, NextStage
<1>8. ASSUME NEW w \in Workers, StageFailed(w) PROVE TypeOK'
  BY <1>8 DEF StageFailed, SetStatus, Unlocked, Goto
<1>9. ASSUME NEW w \in Workers, FinalizeExport(w) PROVE TypeOK'
  BY <1>9 DEF FinalizeExport, SetStatus, Unlocked, Goto
<1>10. ASSUME NEW w \in Workers, TaskRaises(w) PROVE TypeOK'
  BY <1>10 DEF TaskRaises, Goto
<1>11. ASSUME NEW w \in Workers, TaskReturns(w) PROVE TypeOK'
  BY <1>11 DEF TaskReturns, Close, Discard, Goto
<1>12. ASSUME NEW w \in Workers, MarkFailed(w) PROVE TypeOK'
  BY <1>12 DEF MarkFailed, SetStatus, Unlocked, Goto
<1>13. ASSUME NEW w \in Workers, SkipMark(w) PROVE TypeOK'
  BY <1>13 DEF SkipMark, Goto
<1>14. ASSUME NEW w \in Workers, LockFailed(w) PROVE TypeOK'
  BY <1>14 DEF LockFailed, Unlocked, NeedsRefund, Goto
<1>15. ASSUME NEW w \in Workers, CreditBuyer(w, "commit") PROVE TypeOK'
  <2>1. w \in Proc /\ job[w] \in Exports /\ BuyerOf[job[w]] \in Buyers
    BY <1>15 DEF CreditBuyer
  <2>2. view' \in [Proc -> [Buyers -> Nat]]
    BY <1>15, <2>1 DEF CreditBuyer, UserRowFree
  <2> QED
    BY <1>15, <2>1, <2>2 DEF CreditBuyer, UserRowFree, Goto
<1>16. ASSUME NEW w \in Workers, CommitFailed(w) PROVE TypeOK'
  <2>1. CommitRefunds(w)
    BY <1>16 DEF CommitFailed
  <2>2. w \in Proc
    OBVIOUS
  <2> QED
    BY <1>16, <2>1, <2>2, CommitRefundsType DEF CommitFailed, Discard, Goto
<1>17. ASSUME NEW w \in Workers, HandlerLost(w) PROVE TypeOK'
  BY <1>17 DEF HandlerLost, Release, Discard, Goto
<1>18. ASSUME NEW w \in Workers, Reraise(w) PROVE TypeOK'
  BY <1>18 DEF Reraise, CanRetry, Close, Discard, Goto, Message
<1>19. ASSUME NEW w \in Workers, CrashWorker(w) PROVE TypeOK'
  BY <1>19 DEF CrashWorker, Release, Close, Discard, Goto
<1>20. ASSUME NEW h \in Hooks, NEW e \in Exports, LoadExport(h, e) PROVE TypeOK'
  BY <1>20 DEF LoadExport, Goto
<1>21. ASSUME NEW h \in Hooks, ConfirmDelivery(h) PROVE TypeOK'
  BY <1>21 DEF ConfirmDelivery, SetStatus, Unlocked, Confirmable, Close, Discard, Goto
<1>22. ASSUME NEW x \in Withdrawals, NEW D \in SUBSET Datasets, SelectExports(x, D) PROVE TypeOK'
  BY <1>22 DEF SelectExports, Goto
<1>23. ASSUME NEW x \in Withdrawals, NEW e \in Exports, BlockExport(x, e) PROVE TypeOK'
  BY <1>23 DEF BlockExport, Unlocked, NeedsRefund, Goto
<1>24. ASSUME NEW x \in Withdrawals, CreditBuyer(x, "block") PROVE TypeOK'
  <2>1. x \in Proc /\ job[x] \in Exports /\ BuyerOf[job[x]] \in Buyers
    BY <1>24 DEF CreditBuyer
  <2>2. view' \in [Proc -> [Buyers -> Nat]]
    BY <1>24, <2>1 DEF CreditBuyer, UserRowFree
  <2> QED
    BY <1>24, <2>1, <2>2 DEF CreditBuyer, UserRowFree, Goto
<1>25. ASSUME NEW x \in Withdrawals, CommitWithdrawal(x) PROVE TypeOK'
  <2>1. CommitRefunds(x)
    BY <1>25 DEF CommitWithdrawal
  <2>2. x \in Proc
    OBVIOUS
  <2> QED
    BY <1>25, <2>1, <2>2, CommitRefundsType DEF CommitWithdrawal, Close, Discard, Goto
<1>26. ASSUME NEW p \in Proc, Abandon(p) PROVE TypeOK'
  BY <1>26 DEF Abandon, Release, Close, Discard, Goto
<1>27. CASE UNCHANGED vars
  BY <1>27
<1> QED
  BY <1>1, <1>2, <1>3, <1>4, <1>5, <1>6, <1>7, <1>8, <1>9, <1>10, <1>11, <1>12, <1>13, <1>14,
     <1>15, <1>16, <1>17, <1>18, <1>19, <1>20, <1>21, <1>22, <1>23, <1>24, <1>25, <1>26, <1>27
     DEF Next, RequestStep, TaskStep, HookStep, WithdrawStep

(* Every step keeps the export of a busy session. *)
LEMMA JobStep ==
    TypeOK /\ JobInv /\ [Next]_vars => JobInv'
<1> SUFFICES ASSUME TypeOK, JobInv, [Next]_vars PROVE JobInv'
  OBVIOUS
<1> USE EscrowAssumption DEF TypeOK, JobInv, Running, Refunding, Stages, Proc, vars, rows, locks, locals
<1>1. ASSUME NEW r \in Requests, NEW e \in Exports, VerifyBuyer(r, e) PROVE JobInv'
  BY <1>1 DEF VerifyBuyer, Goto
<1>2. ASSUME NEW r \in Requests, NEW e \in Exports, CreateB2BExport(r, e) PROVE JobInv'
  BY <1>2 DEF CreateB2BExport, Goto
<1>3. ASSUME NEW r \in Requests, LockBuyer(r) PROVE JobInv'
  BY <1>3 DEF LockBuyer, UserRowFree, Affordable, Goto
<1>4. ASSUME NEW r \in Requests, CommitExport(r) PROVE JobInv'
  BY <1>4 DEF CommitExport, Release, Close, Discard, Goto
<1>5. ASSUME NEW r \in Requests, DispatchExport(r) PROVE JobInv'
  BY <1>5 DEF DispatchExport, Close, Discard, Goto, Message
<1>6. ASSUME NEW w \in Workers, NEW m \in queue, StartTask(w, m) PROVE JobInv'
  BY <1>6 DEF StartTask, SetStatus, Unlocked, Goto, Message
<1>7. ASSUME NEW w \in Workers, StageDone(w) PROVE JobInv'
  BY <1>7 DEF StageDone, Goto, NextStage
<1>8. ASSUME NEW w \in Workers, StageFailed(w) PROVE JobInv'
  BY <1>8 DEF StageFailed, SetStatus, Unlocked, Goto
<1>9. ASSUME NEW w \in Workers, FinalizeExport(w) PROVE JobInv'
  BY <1>9 DEF FinalizeExport, SetStatus, Unlocked, Goto
<1>10. ASSUME NEW w \in Workers, TaskRaises(w) PROVE JobInv'
  BY <1>10 DEF TaskRaises, Goto
<1>11. ASSUME NEW w \in Workers, TaskReturns(w) PROVE JobInv'
  BY <1>11 DEF TaskReturns, Close, Discard, Goto
<1>12. ASSUME NEW w \in Workers, MarkFailed(w) PROVE JobInv'
  BY <1>12 DEF MarkFailed, SetStatus, Unlocked, Goto
<1>13. ASSUME NEW w \in Workers, SkipMark(w) PROVE JobInv'
  BY <1>13 DEF SkipMark, Goto
<1>14. ASSUME NEW w \in Workers, LockFailed(w) PROVE JobInv'
  BY <1>14 DEF LockFailed, Unlocked, NeedsRefund, Goto
<1>15. ASSUME NEW w \in Workers, CreditBuyer(w, "commit") PROVE JobInv'
  BY <1>15 DEF CreditBuyer, UserRowFree, Goto
<1>16. ASSUME NEW w \in Workers, CommitFailed(w) PROVE JobInv'
  BY <1>16 DEF CommitFailed, CommitRefunds, Release, Discard, Goto
<1>17. ASSUME NEW w \in Workers, HandlerLost(w) PROVE JobInv'
  BY <1>17 DEF HandlerLost, Release, Discard, Goto
<1>18. ASSUME NEW w \in Workers, Reraise(w) PROVE JobInv'
  BY <1>18 DEF Reraise, CanRetry, Close, Discard, Goto, Message
<1>19. ASSUME NEW w \in Workers, CrashWorker(w) PROVE JobInv'
  BY <1>19 DEF CrashWorker, Release, Close, Discard, Goto
<1>20. ASSUME NEW h \in Hooks, NEW e \in Exports, LoadExport(h, e) PROVE JobInv'
  BY <1>20 DEF LoadExport, Goto
<1>21. ASSUME NEW h \in Hooks, ConfirmDelivery(h) PROVE JobInv'
  BY <1>21 DEF ConfirmDelivery, SetStatus, Unlocked, Confirmable, Close, Discard, Goto
<1>22. ASSUME NEW x \in Withdrawals, NEW D \in SUBSET Datasets, SelectExports(x, D) PROVE JobInv'
  BY <1>22 DEF SelectExports, Goto
<1>23. ASSUME NEW x \in Withdrawals, NEW e \in Exports, BlockExport(x, e) PROVE JobInv'
  BY <1>23 DEF BlockExport, Unlocked, NeedsRefund, Goto
<1>24. ASSUME NEW x \in Withdrawals, CreditBuyer(x, "block") PROVE JobInv'
  BY <1>24 DEF CreditBuyer, UserRowFree, Goto
<1>25. ASSUME NEW x \in Withdrawals, CommitWithdrawal(x) PROVE JobInv'
  BY <1>25 DEF CommitWithdrawal, CommitRefunds, Release, Close, Discard, Goto
<1>26. ASSUME NEW p \in Proc, Abandon(p) PROVE JobInv'
  BY <1>26 DEF Abandon, Release, Close, Discard, Goto
<1>27. CASE UNCHANGED vars
  BY <1>27
<1> QED
  BY <1>1, <1>2, <1>3, <1>4, <1>5, <1>6, <1>7, <1>8, <1>9, <1>10, <1>11, <1>12, <1>13, <1>14,
     <1>15, <1>16, <1>17, <1>18, <1>19, <1>20, <1>21, <1>22, <1>23, <1>24, <1>25, <1>26, <1>27
     DEF Next, RequestStep, TaskStep, HookStep, WithdrawStep

(* Every step keeps the buyer's lock of a purchase about to commit. *)
LEMMA DebitStep ==
    TypeOK /\ JobInv /\ DebitInv /\ [Next]_vars => DebitInv'
<1> SUFFICES ASSUME TypeOK, JobInv, DebitInv, [Next]_vars PROVE DebitInv'
  OBVIOUS
<1> USE EscrowAssumption DEF TypeOK, JobInv, DebitInv, Running, Refunding, Stages, Proc, vars, rows, locks, locals
<1>1. ASSUME NEW r \in Requests, NEW e \in Exports, VerifyBuyer(r, e) PROVE DebitInv'
  BY <1>1 DEF VerifyBuyer, Goto
<1>2. ASSUME NEW r \in Requests, NEW e \in Exports, CreateB2BExport(r, e) PROVE DebitInv'
  BY <1>2 DEF CreateB2BExport, Goto
<1>3. ASSUME NEW r \in Requests, LockBuyer(r) PROVE DebitInv'
  BY <1>3 DEF LockBuyer, UserRowFree, Affordable, Goto
<1>4. ASSUME NEW r \in Requests, CommitExport(r) PROVE DebitInv'
  BY <1>4 DEF CommitExport, Release, Close, Discard, Goto
<1>5. ASSUME NEW r \in Requests, DispatchExport(r) PROVE DebitInv'
  BY <1>5 DEF DispatchExport, Close, Discard, Goto, Message
<1>6. ASSUME NEW w \in Workers, NEW m \in queue, StartTask(w, m) PROVE DebitInv'
  BY <1>6 DEF StartTask, SetStatus, Unlocked, Goto, Message
<1>7. ASSUME NEW w \in Workers, StageDone(w) PROVE DebitInv'
  BY <1>7 DEF StageDone, Goto, NextStage
<1>8. ASSUME NEW w \in Workers, StageFailed(w) PROVE DebitInv'
  BY <1>8 DEF StageFailed, SetStatus, Unlocked, Goto
<1>9. ASSUME NEW w \in Workers, FinalizeExport(w) PROVE DebitInv'
  BY <1>9 DEF FinalizeExport, SetStatus, Unlocked, Goto
<1>10. ASSUME NEW w \in Workers, TaskRaises(w) PROVE DebitInv'
  BY <1>10 DEF TaskRaises, Goto
<1>11. ASSUME NEW w \in Workers, TaskReturns(w) PROVE DebitInv'
  BY <1>11 DEF TaskReturns, Close, Discard, Goto
<1>12. ASSUME NEW w \in Workers, MarkFailed(w) PROVE DebitInv'
  BY <1>12 DEF MarkFailed, SetStatus, Unlocked, Goto
<1>13. ASSUME NEW w \in Workers, SkipMark(w) PROVE DebitInv'
  BY <1>13 DEF SkipMark, Goto
<1>14. ASSUME NEW w \in Workers, LockFailed(w) PROVE DebitInv'
  BY <1>14 DEF LockFailed, Unlocked, NeedsRefund, Goto
<1>15. ASSUME NEW w \in Workers, CreditBuyer(w, "commit") PROVE DebitInv'
  BY <1>15 DEF CreditBuyer, UserRowFree, Goto
<1>16. ASSUME NEW w \in Workers, CommitFailed(w) PROVE DebitInv'
  BY <1>16 DEF CommitFailed, CommitRefunds, Release, Discard, Goto
<1>17. ASSUME NEW w \in Workers, HandlerLost(w) PROVE DebitInv'
  BY <1>17 DEF HandlerLost, Release, Discard, Goto
<1>18. ASSUME NEW w \in Workers, Reraise(w) PROVE DebitInv'
  BY <1>18 DEF Reraise, CanRetry, Close, Discard, Goto, Message
<1>19. ASSUME NEW w \in Workers, CrashWorker(w) PROVE DebitInv'
  BY <1>19 DEF CrashWorker, Release, Close, Discard, Goto
<1>20. ASSUME NEW h \in Hooks, NEW e \in Exports, LoadExport(h, e) PROVE DebitInv'
  BY <1>20 DEF LoadExport, Goto
<1>21. ASSUME NEW h \in Hooks, ConfirmDelivery(h) PROVE DebitInv'
  BY <1>21 DEF ConfirmDelivery, SetStatus, Unlocked, Confirmable, Close, Discard, Goto
<1>22. ASSUME NEW x \in Withdrawals, NEW D \in SUBSET Datasets, SelectExports(x, D) PROVE DebitInv'
  BY <1>22 DEF SelectExports, Goto
<1>23. ASSUME NEW x \in Withdrawals, NEW e \in Exports, BlockExport(x, e) PROVE DebitInv'
  BY <1>23 DEF BlockExport, Unlocked, NeedsRefund, Goto
<1>24. ASSUME NEW x \in Withdrawals, CreditBuyer(x, "block") PROVE DebitInv'
  BY <1>24 DEF CreditBuyer, UserRowFree, Goto
<1>25. ASSUME NEW x \in Withdrawals, CommitWithdrawal(x) PROVE DebitInv'
  BY <1>25 DEF CommitWithdrawal, CommitRefunds, Release, Close, Discard, Goto
<1>26. ASSUME NEW p \in Proc, Abandon(p) PROVE DebitInv'
  BY <1>26 DEF Abandon, Release, Close, Discard, Goto
<1>27. CASE UNCHANGED vars
  BY <1>27
<1> QED
  BY <1>1, <1>2, <1>3, <1>4, <1>5, <1>6, <1>7, <1>8, <1>9, <1>10, <1>11, <1>12, <1>13, <1>14,
     <1>15, <1>16, <1>17, <1>18, <1>19, <1>20, <1>21, <1>22, <1>23, <1>24, <1>25, <1>26, <1>27
     DEF Next, RequestStep, TaskStep, HookStep, WithdrawStep

(* Every step keeps the credit a purchase will write fresh. *)
LEMMA FreshStep ==
    TypeOK /\ JobInv /\ DebitInv /\ DebitIsFresh /\ [Next]_vars => DebitIsFresh'
<1> SUFFICES ASSUME TypeOK, JobInv, DebitInv, DebitIsFresh, [Next]_vars PROVE DebitIsFresh'
  OBVIOUS
<1> USE EscrowAssumption DEF TypeOK, JobInv, DebitInv, DebitIsFresh, Affordable, Running, Refunding, Stages, Proc, vars, rows, locks, locals
<1>1. ASSUME NEW r \in Requests, NEW e \in Exports, VerifyBuyer(r, e) PROVE DebitIsFresh'
  BY <1>1 DEF VerifyBuyer, Goto
<1>2. ASSUME NEW r \in Requests, NEW e \in Exports, CreateB2BExport(r, e) PROVE DebitIsFresh'
  BY <1>2 DEF CreateB2BExport, Goto
<1>3. ASSUME NEW r \in Requests, LockBuyer(r) PROVE DebitIsFresh'
  BY <1>3 DEF LockBuyer, UserRowFree, Affordable, Goto
<1>4. ASSUME NEW r \in Requests, CommitExport(r) PROVE DebitIsFresh'
  BY <1>4 DEF CommitExport, Release, Close, Discard, Goto
<1>5. ASSUME NEW r \in Requests, DispatchExport(r) PROVE DebitIsFresh'
  BY <1>5 DEF DispatchExport, Close, Discard, Goto, Message
<1>6. ASSUME NEW w \in Workers, NEW m \in queue, StartTask(w, m) PROVE DebitIsFresh'
  BY <1>6 DEF StartTask, SetStatus, Unlocked, Goto, Message
<1>7. ASSUME NEW w \in Workers, StageDone(w) PROVE DebitIsFresh'
  BY <1>7 DEF StageDone, Goto, NextStage
<1>8. ASSUME NEW w \in Workers, StageFailed(w) PROVE DebitIsFresh'
  BY <1>8 DEF StageFailed, SetStatus, Unlocked, Goto
<1>9. ASSUME NEW w \in Workers, FinalizeExport(w) PROVE DebitIsFresh'
  BY <1>9 DEF FinalizeExport, SetStatus, Unlocked, Goto
<1>10. ASSUME NEW w \in Workers, TaskRaises(w) PROVE DebitIsFresh'
  BY <1>10 DEF TaskRaises, Goto
<1>11. ASSUME NEW w \in Workers, TaskReturns(w) PROVE DebitIsFresh'
  BY <1>11 DEF TaskReturns, Close, Discard, Goto
<1>12. ASSUME NEW w \in Workers, MarkFailed(w) PROVE DebitIsFresh'
  BY <1>12 DEF MarkFailed, SetStatus, Unlocked, Goto
<1>13. ASSUME NEW w \in Workers, SkipMark(w) PROVE DebitIsFresh'
  BY <1>13 DEF SkipMark, Goto
<1>14. ASSUME NEW w \in Workers, LockFailed(w) PROVE DebitIsFresh'
  BY <1>14 DEF LockFailed, Unlocked, NeedsRefund, Goto
<1>15. ASSUME NEW w \in Workers, CreditBuyer(w, "commit") PROVE DebitIsFresh'
  BY <1>15 DEF CreditBuyer, UserRowFree, Goto
<1>16. ASSUME NEW w \in Workers, CommitFailed(w) PROVE DebitIsFresh'
  BY <1>16 DEF CommitFailed, CommitRefunds, Release, Discard, Goto
<1>17. ASSUME NEW w \in Workers, HandlerLost(w) PROVE DebitIsFresh'
  BY <1>17 DEF HandlerLost, Release, Discard, Goto
<1>18. ASSUME NEW w \in Workers, Reraise(w) PROVE DebitIsFresh'
  BY <1>18 DEF Reraise, CanRetry, Close, Discard, Goto, Message
<1>19. ASSUME NEW w \in Workers, CrashWorker(w) PROVE DebitIsFresh'
  BY <1>19 DEF CrashWorker, Release, Close, Discard, Goto
<1>20. ASSUME NEW h \in Hooks, NEW e \in Exports, LoadExport(h, e) PROVE DebitIsFresh'
  BY <1>20 DEF LoadExport, Goto
<1>21. ASSUME NEW h \in Hooks, ConfirmDelivery(h) PROVE DebitIsFresh'
  BY <1>21 DEF ConfirmDelivery, SetStatus, Unlocked, Confirmable, Close, Discard, Goto
<1>22. ASSUME NEW x \in Withdrawals, NEW D \in SUBSET Datasets, SelectExports(x, D) PROVE DebitIsFresh'
  BY <1>22 DEF SelectExports, Goto
<1>23. ASSUME NEW x \in Withdrawals, NEW e \in Exports, BlockExport(x, e) PROVE DebitIsFresh'
  BY <1>23 DEF BlockExport, Unlocked, NeedsRefund, Goto
<1>24. ASSUME NEW x \in Withdrawals, CreditBuyer(x, "block") PROVE DebitIsFresh'
  BY <1>24 DEF CreditBuyer, UserRowFree, Goto
<1>25. ASSUME NEW x \in Withdrawals, CommitWithdrawal(x) PROVE DebitIsFresh'
  BY <1>25 DEF CommitWithdrawal, CommitRefunds, Release, Close, Discard, Goto
<1>26. ASSUME NEW p \in Proc, Abandon(p) PROVE DebitIsFresh'
  BY <1>26 DEF Abandon, Release, Close, Discard, Goto
<1>27. CASE UNCHANGED vars
  BY <1>27
<1> QED
  BY <1>1, <1>2, <1>3, <1>4, <1>5, <1>6, <1>7, <1>8, <1>9, <1>10, <1>11, <1>12, <1>13, <1>14,
     <1>15, <1>16, <1>17, <1>18, <1>19, <1>20, <1>21, <1>22, <1>23, <1>24, <1>25, <1>26, <1>27
     DEF Next, RequestStep, TaskStep, HookStep, WithdrawStep

(* Every step keeps uncommitted refunds locked and unrecorded. *)
LEMMA PaidStep ==
    TypeOK /\ JobInv /\ CreditInv /\ PaidInv /\ [Next]_vars => PaidInv'
<1> SUFFICES ASSUME TypeOK, JobInv, CreditInv, PaidInv, [Next]_vars PROVE PaidInv'
  OBVIOUS
<1> USE EscrowAssumption DEF TypeOK, JobInv, Running, Refunding, Stages, Proc, vars, rows, locks, locals, PaidInv, CreditInv
<1>1. ASSUME NEW r \in Requests, NEW e \in Exports, VerifyBuyer(r, e) PROVE PaidInv'
  BY <1>1 DEF VerifyBuyer, Goto
<1>2. ASSUME NEW r \in Requests, NEW e \in Exports, CreateB2BExport(r, e) PROVE PaidInv'
  BY <1>2 DEF CreateB2BExport, Goto
<1>3. ASSUME NEW r \in Requests, LockBuyer(r) PROVE PaidInv'
  BY <1>3 DEF LockBuyer, UserRowFree, Affordable, Goto
<1>4. ASSUME NEW r \in Requests, CommitExport(r) PROVE PaidInv'
  BY <1>4 DEF CommitExport, Release, Close, Discard, Goto
<1>5. ASSUME NEW r \in Requests, DispatchExport(r) PROVE PaidInv'
  BY <1>5 DEF DispatchExport, Close, Discard, Goto, Message
<1>6. ASSUME NEW w \in Workers, NEW m \in queue, StartTask(w, m) PROVE PaidInv'
  BY <1>6 DEF StartTask, SetStatus, Unlocked, Goto, Message
<1>7. ASSUME NEW w \in Workers, StageDone(w) PROVE PaidInv'
  BY <1>7 DEF StageDone, Goto, NextStage
<1>8. ASSUME NEW w \in Workers, StageFailed(w) PROVE PaidInv'
  BY <1>8 DEF StageFailed, SetStatus, Unlocked, Goto
<1>9. ASSUME NEW w \in Workers, FinalizeExport(w) PROVE PaidInv'
  BY <1>9 DEF FinalizeExport, SetStatus, Unlocked, Goto
<1>10. ASSUME NEW w \in Workers, TaskRaises(w) PROVE PaidInv'
  BY <1>10 DEF TaskRaises, Goto
<1>11. ASSUME NEW w \in Workers, TaskReturns(w) PROVE PaidInv'
  BY <1>11 DEF TaskReturns, Close, Discard, Goto
<1>12. ASSUME NEW w \in Workers, MarkFailed(w) PROVE PaidInv'
  BY <1>12 DEF MarkFailed, SetStatus, Unlocked, Goto
<1>13. ASSUME NEW w \in Workers, SkipMark(w) PROVE PaidInv'
  BY <1>13 DEF SkipMark, Goto
<1>14. ASSUME NEW w \in Workers, LockFailed(w) PROVE PaidInv'
  BY <1>14 DEF LockFailed, Unlocked, NeedsRefund, Goto
<1>15. ASSUME NEW w \in Workers, CreditBuyer(w, "commit") PROVE PaidInv'
  BY <1>15 DEF CreditBuyer, UserRowFree, Goto
<1>16. ASSUME NEW w \in Workers, CommitFailed(w) PROVE PaidInv'
  BY <1>16 DEF CommitFailed, CommitRefunds, Release, Discard, Goto
<1>17. ASSUME NEW w \in Workers, HandlerLost(w) PROVE PaidInv'
  BY <1>17 DEF HandlerLost, Release, Discard, Goto
<1>18. ASSUME NEW w \in Workers, Reraise(w) PROVE PaidInv'
  BY <1>18 DEF Reraise, CanRetry, Close, Discard, Goto, Message
<1>19. ASSUME NEW w \in Workers, CrashWorker(w) PROVE PaidInv'
  BY <1>19 DEF CrashWorker, Release, Close, Discard, Goto
<1>20. ASSUME NEW h \in Hooks, NEW e \in Exports, LoadExport(h, e) PROVE PaidInv'
  BY <1>20 DEF LoadExport, Goto
<1>21. ASSUME NEW h \in Hooks, ConfirmDelivery(h) PROVE PaidInv'
  BY <1>21 DEF ConfirmDelivery, SetStatus, Unlocked, Confirmable, Close, Discard, Goto
<1>22. ASSUME NEW x \in Withdrawals, NEW D \in SUBSET Datasets, SelectExports(x, D) PROVE PaidInv'
  BY <1>22 DEF SelectExports, Goto
<1>23. ASSUME NEW x \in Withdrawals, NEW e \in Exports, BlockExport(x, e) PROVE PaidInv'
  BY <1>23 DEF BlockExport, Unlocked, NeedsRefund, Goto
<1>24. ASSUME NEW x \in Withdrawals, CreditBuyer(x, "block") PROVE PaidInv'
  BY <1>24 DEF CreditBuyer, UserRowFree, Goto
<1>25. ASSUME NEW x \in Withdrawals, CommitWithdrawal(x) PROVE PaidInv'
  BY <1>25 DEF CommitWithdrawal, CommitRefunds, Release, Close, Discard, Goto
<1>26. ASSUME NEW p \in Proc, Abandon(p) PROVE PaidInv'
  BY <1>26 DEF Abandon, Release, Close, Discard, Goto
<1>27. CASE UNCHANGED vars
  BY <1>27
<1> QED
  BY <1>1, <1>2, <1>3, <1>4, <1>5, <1>6, <1>7, <1>8, <1>9, <1>10, <1>11, <1>12, <1>13, <1>14,
     <1>15, <1>16, <1>17, <1>18, <1>19, <1>20, <1>21, <1>22, <1>23, <1>24, <1>25, <1>26, <1>27
     DEF Next, RequestStep, TaskStep, HookStep, WithdrawStep

(* Every step keeps a pending credit locked and unrecorded. *)
LEMMA CreditStep ==
    TypeOK /\ JobInv /\ CreditInv /\ PaidInv /\ [Next]_vars => CreditInv'
<1> SUFFICES ASSUME TypeOK, JobInv, CreditInv, PaidInv, [Next]_vars PROVE CreditInv'
  OBVIOUS
<1> USE EscrowAssumption DEF TypeOK, JobInv, Running, Refunding, Stages, Proc, vars, rows, locks, locals, PaidInv, CreditInv
<1>1. ASSUME NEW r \in Requests, NEW e \in Exports, VerifyBuyer(r, e) PROVE CreditInv'
  BY <1>1 DEF VerifyBuyer, Goto
<1>2. ASSUME NEW r \in Requests, NEW e \in Exports, CreateB2BExport(r, e) PROVE CreditInv'
  BY <1>2 DEF CreateB2BExport, Goto
<1>3. ASSUME NEW r \in Requests, LockBuyer(r) PROVE CreditInv'
  BY <1>3 DEF LockBuyer, UserRowFree, Affordable, Goto
<1>4. ASSUME NEW r \in Requests, CommitExport(r) PROVE CreditInv'
  BY <1>4 DEF CommitExport, Release, Close, Discard, Goto
<1>5. ASSUME NEW r \in Requests, DispatchExport(r) PROVE CreditInv'
  BY <1>5 DEF DispatchExport, Close, Discard, Goto, Message
<1>6. ASSUME NEW w \in Workers, NEW m \in queue, StartTask(w, m) PROVE CreditInv'
  BY <1>6 DEF StartTask, SetStatus, Unlocked, Goto, Message
<1>7. ASSUME NEW w \in Workers, StageDone(w) PROVE CreditInv'
  BY <1>7 DEF StageDone, Goto, NextStage
<1>8. ASSUME NEW w \in Workers, StageFailed(w) PROVE CreditInv'
  BY <1>8 DEF StageFailed, SetStatus, Unlocked, Goto
<1>9. ASSUME NEW w \in Workers, FinalizeExport(w) PROVE CreditInv'
  BY <1>9 DEF FinalizeExport, SetStatus, Unlocked, Goto
<1>10. ASSUME NEW w \in Workers, TaskRaises(w) PROVE CreditInv'
  BY <1>10 DEF TaskRaises, Goto
<1>11. ASSUME NEW w \in Workers, TaskReturns(w) PROVE CreditInv'
  BY <1>11 DEF TaskReturns, Close, Discard, Goto
<1>12. ASSUME NEW w \in Workers, MarkFailed(w) PROVE CreditInv'
  BY <1>12 DEF MarkFailed, SetStatus, Unlocked, Goto
<1>13. ASSUME NEW w \in Workers, SkipMark(w) PROVE CreditInv'
  BY <1>13 DEF SkipMark, Goto
<1>14. ASSUME NEW w \in Workers, LockFailed(w) PROVE CreditInv'
  <2>0. /\ job[w] \in Exports /\ exportLock[job[w]] = None
        /\ exportLock' = [exportLock EXCEPT ![job[w]] = w]
    BY <1>14 DEF LockFailed, Unlocked
  <2>1. /\ exportLock'[job[w]] = w
        /\ \A e \in Exports : e # job[w] => exportLock'[e] = exportLock[e]
        /\ pc'[w] = "credit" => job[w] \notin refunded
    <3>1. exportLock'[job[w]] = w /\ \A e \in Exports : e # job[w] => exportLock'[e] = exportLock[e]
      BY <2>0
    <3>2. pc'[w] = IF NeedsRefund(job[w]) THEN "credit" ELSE "commit"
      BY <1>14 DEF LockFailed, Goto
    <3> QED
      BY <3>1, <3>2 DEF NeedsRefund
  <2> SUFFICES ASSUME NEW q \in Proc, pc'[q] = "credit"
               PROVE  exportLock'[job'[q]] = q /\ job'[q] \notin refunded'
    OBVIOUS
  <2>2. job' = job /\ refunded' = refunded
    BY <1>14 DEF LockFailed
  <2>3. CASE q = w
    BY <2>1, <2>2, <2>3
  <2>4. CASE q # w
    <3>1. pc[q] = "credit" /\ job[q] \in Exports /\ q # None
      BY <1>14, <2>4 DEF LockFailed, Goto
    <3> QED
      BY <2>0, <2>1, <2>2, <3>1
  <2> QED
    BY <2>3, <2>4
<1>15. ASSUME NEW w \in Workers, CreditBuyer(w, "commit") PROVE CreditInv'
  BY <1>15 DEF CreditBuyer, UserRowFree, Goto
<1>16. ASSUME NEW w \in Workers, CommitFailed(w) PROVE CreditInv'
  <2> SUFFICES ASSUME NEW q \in Proc, pc'[q] = "credit"
               PROVE  exportLock'[job'[q]] = q /\ job'[q] \notin refunded'
    OBVIOUS
  <2>1. q # w /\ pc[q] = "credit" /\ job'[q] = job[q] /\ job[q] \in Exports
    BY <1>16 DEF CommitFailed, Goto
  <2>2. exportLock[job[q]] = q /\ job[q] \notin refunded
    BY <2>1
  <2>3. exportLock'[job[q]] = q
    BY <1>16, <2>1, <2>2 DEF CommitFailed, CommitRefunds, Release
  <2>4. job[q] \notin paid[w]
    BY <2>1, <2>2
  <2> QED
    BY <1>16, <2>1, <2>2, <2>3, <2>4 DEF CommitFailed, CommitRefunds
<1>17. ASSUME NEW w \in Workers, HandlerLost(w) PROVE CreditInv'
  BY <1>17 DEF HandlerLost, Release, Discard, Goto
<1>18. ASSUME NEW w \in Workers, Reraise(w) PROVE CreditInv'
  BY <1>18 DEF Reraise, CanRetry, Close, Discard, Goto, Message
<1>19. ASSUME NEW w \in Workers, CrashWorker(w) PROVE CreditInv'
  BY <1>19 DEF CrashWorker, Release, Close, Discard, Goto
<1>20. ASSUME NEW h \in Hooks, NEW e \in Exports, LoadExport(h, e) PROVE CreditInv'
  BY <1>20 DEF LoadExport, Goto
<1>21. ASSUME NEW h \in Hooks, ConfirmDelivery(h) PROVE CreditInv'
  BY <1>21 DEF ConfirmDelivery, SetStatus, Unlocked, Confirmable, Close, Discard, Goto
<1>22. ASSUME NEW x \in Withdrawals, NEW D \in SUBSET Datasets, SelectExports(x, D) PROVE CreditInv'
  BY <1>22 DEF SelectExports, Goto
<1>23. ASSUME NEW x \in Withdrawals, NEW e \in Exports, BlockExport(x, e) PROVE CreditInv'
  BY <1>23 DEF BlockExport, Unlocked, NeedsRefund, Goto
<1>24. ASSUME NEW x \in Withdrawals, CreditBuyer(x, "block") PROVE CreditInv'
  BY <1>24 DEF CreditBuyer, UserRowFree, Goto
<1>25. ASSUME NEW x \in Withdrawals, CommitWithdrawal(x) PROVE CreditInv'
  <2> SUFFICES ASSUME NEW q \in Proc, pc'[q] = "credit"
               PROVE  exportLock'[job'[q]] = q /\ job'[q] \notin refunded'
    OBVIOUS
  <2>1. q # x /\ pc[q] = "credit" /\ job'[q] = job[q] /\ job[q] \in Exports
    BY <1>25 DEF CommitWithdrawal, Close, Goto
  <2>2. exportLock[job[q]] = q /\ job[q] \notin refunded
    BY <2>1
  <2>3. exportLock'[job[q]] = q
    BY <1>25, <2>1, <2>2 DEF CommitWithdrawal, CommitRefunds, Release
  <2>4. job[q] \notin paid[x]
    BY <2>1, <2>2
  <2> QED
    BY <1>25, <2>1, <2>2, <2>3, <2>4 DEF CommitWithdrawal, CommitRefunds
<1>26. ASSUME NEW p \in Proc, Abandon(p) PROVE CreditInv'
  BY <1>26 DEF Abandon, Release, Close, Discard, Goto
<1>27. CASE UNCHANGED vars
  BY <1>27
<1> QED
  BY <1>1, <1>2, <1>3, <1>4, <1>5, <1>6, <1>7, <1>8, <1>9, <1>10, <1>11, <1>12, <1>13, <1>14,
     <1>15, <1>16, <1>17, <1>18, <1>19, <1>20, <1>21, <1>22, <1>23, <1>24, <1>25, <1>26, <1>27
     DEF Next, RequestStep, TaskStep, HookStep, WithdrawStep

(* Every step keeps uncommitted blocks locked and paired with refunds. *)
LEMMA BlockStep ==
    TypeOK /\ JobInv /\ CreditInv /\ PaidInv /\ BlockInv /\ [Next]_vars => BlockInv'
<1> SUFFICES ASSUME TypeOK, JobInv, CreditInv, PaidInv, BlockInv, [Next]_vars PROVE BlockInv'
  OBVIOUS
<1> USE EscrowAssumption DEF TypeOK, JobInv, Running, Refunding, Stages, Proc, vars, rows, locks, locals, PaidInv, CreditInv, BlockInv
<1>1. ASSUME NEW r \in Requests, NEW e \in Exports, VerifyBuyer(r, e) PROVE BlockInv'
  BY <1>1 DEF VerifyBuyer, Goto
<1>2. ASSUME NEW r \in Requests, NEW e \in Exports, CreateB2BExport(r, e) PROVE BlockInv'
  BY <1>2 DEF CreateB2BExport, Goto
<1>3. ASSUME NEW r \in Requests, LockBuyer(r) PROVE BlockInv'
  BY <1>3 DEF LockBuyer, UserRowFree, Affordable, Goto
<1>4. ASSUME NEW r \in Requests, CommitExport(r) PROVE BlockInv'
  BY <1>4 DEF CommitExport, Release, Close, Discard, Goto
<1>5. ASSUME NEW r \in Requests, DispatchExport(r) PROVE BlockInv'
  BY <1>5 DEF DispatchExport, Close, Discard, Goto, Message
<1>6. ASSUME NEW w \in Workers, NEW m \in queue, StartTask(w, m) PROVE BlockInv'
  BY <1>6 DEF StartTask, SetStatus, Unlocked, Goto, Message
<1>7. ASSUME NEW w \in Workers, StageDone(w) PROVE BlockInv'
  BY <1>7 DEF StageDone, Goto, NextStage
<1>8. ASSUME NEW w \in Workers, StageFailed(w) PROVE BlockInv'
  BY <1>8 DEF StageFailed, SetStatus, Unlocked, Goto
<1>9. ASSUME NEW w \in Workers, FinalizeExport(w) PROVE BlockInv'
  BY <1>9 DEF FinalizeExport, SetStatus, Unlocked, Goto
<1>10. ASSUME NEW w \in Workers, TaskRaises(w) PROVE BlockInv'
  BY <1>10 DEF TaskRaises, Goto
<1>11. ASSUME NEW w \in Workers, TaskReturns(w) PROVE BlockInv'
  BY <1>11 DEF TaskReturns, Close, Discard, Goto
<1>12. ASSUME NEW w \in Workers, MarkFailed(w) PROVE BlockInv'
  BY <1>12 DEF MarkFailed, SetStatus, Unlocked, Goto
<1>13. ASSUME NEW w \in Workers, SkipMark(w) PROVE BlockInv'
  BY <1>13 DEF SkipMark, Goto
<1>14. ASSUME NEW w \in Workers, LockFailed(w) PROVE BlockInv'
  BY <1>14 DEF LockFailed, Unlocked, NeedsRefund, Goto
<1>15. ASSUME NEW w \in Workers, CreditBuyer(w, "commit") PROVE BlockInv'
  BY <1>15 DEF CreditBuyer, UserRowFree, Goto
<1>16. ASSUME NEW w \in Workers, CommitFailed(w) PROVE BlockInv'
  BY <1>16 DEF CommitFailed, CommitRefunds, Release, Discard, Goto
<1>17. ASSUME NEW w \in Workers, HandlerLost(w) PROVE BlockInv'
  BY <1>17 DEF HandlerLost, Release, Discard, Goto
<1>18. ASSUME NEW w \in Workers, Reraise(w) PROVE BlockInv'
  BY <1>18 DEF Reraise, CanRetry, Close, Discard, Goto, Message
<1>19. ASSUME NEW w \in Workers, CrashWorker(w) PROVE BlockInv'
  BY <1>19 DEF CrashWorker, Release, Close, Discard, Goto
<1>20. ASSUME NEW h \in Hooks, NEW e \in Exports, LoadExport(h, e) PROVE BlockInv'
  BY <1>20 DEF LoadExport, Goto
<1>21. ASSUME NEW h \in Hooks, ConfirmDelivery(h) PROVE BlockInv'
  BY <1>21 DEF ConfirmDelivery, SetStatus, Unlocked, Confirmable, Close, Discard, Goto
<1>22. ASSUME NEW x \in Withdrawals, NEW D \in SUBSET Datasets, SelectExports(x, D) PROVE BlockInv'
  BY <1>22 DEF SelectExports, Goto
<1>23. ASSUME NEW x \in Withdrawals, NEW e \in Exports, BlockExport(x, e) PROVE BlockInv'
  BY <1>23 DEF BlockExport, Unlocked, NeedsRefund, Goto
<1>24. ASSUME NEW x \in Withdrawals, CreditBuyer(x, "block") PROVE BlockInv'
  BY <1>24 DEF CreditBuyer, UserRowFree, Goto
<1>25. ASSUME NEW x \in Withdrawals, CommitWithdrawal(x) PROVE BlockInv'
  BY <1>25 DEF CommitWithdrawal, CommitRefunds, Release, Close, Discard, Goto
<1>26. ASSUME NEW p \in Proc, Abandon(p) PROVE BlockInv'
  BY <1>26 DEF Abandon, Release, Close, Discard, Goto
<1>27. CASE UNCHANGED vars
  BY <1>27
<1> QED
  BY <1>1, <1>2, <1>3, <1>4, <1>5, <1>6, <1>7, <1>8, <1>9, <1>10, <1>11, <1>12, <1>13, <1>14,
     <1>15, <1>16, <1>17, <1>18, <1>19, <1>20, <1>21, <1>22, <1>23, <1>24, <1>25, <1>26, <1>27
     DEF Next, RequestStep, TaskStep, HookStep, WithdrawStep

(* Every step keeps one credit per refunded export. *)
LEMMA OnceStep ==
    TypeOK /\ PaidInv /\ RefundOnce /\ [Next]_vars => RefundOnce'
<1> SUFFICES ASSUME TypeOK, PaidInv, RefundOnce, [Next]_vars PROVE RefundOnce'
  OBVIOUS
<1> USE EscrowAssumption DEF TypeOK, Running, Refunding, Stages, Proc, vars, rows, locks, locals, PaidInv, RefundOnce
<1>1. ASSUME NEW r \in Requests, NEW e \in Exports, VerifyBuyer(r, e) PROVE RefundOnce'
  BY <1>1 DEF VerifyBuyer, Goto
<1>2. ASSUME NEW r \in Requests, NEW e \in Exports, CreateB2BExport(r, e) PROVE RefundOnce'
  BY <1>2 DEF CreateB2BExport, Goto
<1>3. ASSUME NEW r \in Requests, LockBuyer(r) PROVE RefundOnce'
  BY <1>3 DEF LockBuyer, UserRowFree, Affordable, Goto
<1>4. ASSUME NEW r \in Requests, CommitExport(r) PROVE RefundOnce'
  BY <1>4 DEF CommitExport, Release, Close, Discard, Goto
<1>5. ASSUME NEW r \in Requests, DispatchExport(r) PROVE RefundOnce'
  BY <1>5 DEF DispatchExport, Close, Discard, Goto, Message
<1>6. ASSUME NEW w \in Workers, NEW m \in queue, StartTask(w, m) PROVE RefundOnce'
  BY <1>6 DEF StartTask, SetStatus, Unlocked, Goto, Message
<1>7. ASSUME NEW w \in Workers, StageDone(w) PROVE RefundOnce'
  BY <1>7 DEF StageDone, Goto, NextStage
<1>8. ASSUME NEW w \in Workers, StageFailed(w) PROVE RefundOnce'
  BY <1>8 DEF StageFailed, SetStatus, Unlocked, Goto
<1>9. ASSUME NEW w \in Workers, FinalizeExport(w) PROVE RefundOnce'
  BY <1>9 DEF FinalizeExport, SetStatus, Unlocked, Goto
<1>10. ASSUME NEW w \in Workers, TaskRaises(w) PROVE RefundOnce'
  BY <1>10 DEF TaskRaises, Goto
<1>11. ASSUME NEW w \in Workers, TaskReturns(w) PROVE RefundOnce'
  BY <1>11 DEF TaskReturns, Close, Discard, Goto
<1>12. ASSUME NEW w \in Workers, MarkFailed(w) PROVE RefundOnce'
  BY <1>12 DEF MarkFailed, SetStatus, Unlocked, Goto
<1>13. ASSUME NEW w \in Workers, SkipMark(w) PROVE RefundOnce'
  BY <1>13 DEF SkipMark, Goto
<1>14. ASSUME NEW w \in Workers, LockFailed(w) PROVE RefundOnce'
  BY <1>14 DEF LockFailed, Unlocked, NeedsRefund, Goto
<1>15. ASSUME NEW w \in Workers, CreditBuyer(w, "commit") PROVE RefundOnce'
  BY <1>15 DEF CreditBuyer, UserRowFree, Goto
<1>16. ASSUME NEW w \in Workers, CommitFailed(w) PROVE RefundOnce'
  BY <1>16 DEF CommitFailed, CommitRefunds, Release, Discard, Goto
<1>17. ASSUME NEW w \in Workers, HandlerLost(w) PROVE RefundOnce'
  BY <1>17 DEF HandlerLost, Release, Discard, Goto
<1>18. ASSUME NEW w \in Workers, Reraise(w) PROVE RefundOnce'
  BY <1>18 DEF Reraise, CanRetry, Close, Discard, Goto, Message
<1>19. ASSUME NEW w \in Workers, CrashWorker(w) PROVE RefundOnce'
  BY <1>19 DEF CrashWorker, Release, Close, Discard, Goto
<1>20. ASSUME NEW h \in Hooks, NEW e \in Exports, LoadExport(h, e) PROVE RefundOnce'
  BY <1>20 DEF LoadExport, Goto
<1>21. ASSUME NEW h \in Hooks, ConfirmDelivery(h) PROVE RefundOnce'
  BY <1>21 DEF ConfirmDelivery, SetStatus, Unlocked, Confirmable, Close, Discard, Goto
<1>22. ASSUME NEW x \in Withdrawals, NEW D \in SUBSET Datasets, SelectExports(x, D) PROVE RefundOnce'
  BY <1>22 DEF SelectExports, Goto
<1>23. ASSUME NEW x \in Withdrawals, NEW e \in Exports, BlockExport(x, e) PROVE RefundOnce'
  BY <1>23 DEF BlockExport, Unlocked, NeedsRefund, Goto
<1>24. ASSUME NEW x \in Withdrawals, CreditBuyer(x, "block") PROVE RefundOnce'
  BY <1>24 DEF CreditBuyer, UserRowFree, Goto
<1>25. ASSUME NEW x \in Withdrawals, CommitWithdrawal(x) PROVE RefundOnce'
  BY <1>25 DEF CommitWithdrawal, CommitRefunds, Release, Close, Discard, Goto
<1>26. ASSUME NEW p \in Proc, Abandon(p) PROVE RefundOnce'
  BY <1>26 DEF Abandon, Release, Close, Discard, Goto
<1>27. CASE UNCHANGED vars
  BY <1>27
<1> QED
  BY <1>1, <1>2, <1>3, <1>4, <1>5, <1>6, <1>7, <1>8, <1>9, <1>10, <1>11, <1>12, <1>13, <1>14,
     <1>15, <1>16, <1>17, <1>18, <1>19, <1>20, <1>21, <1>22, <1>23, <1>24, <1>25, <1>26, <1>27
     DEF Next, RequestStep, TaskStep, HookStep, WithdrawStep

(* Every step keeps blocked exports refunded. *)
LEMMA BlockedStep ==
    TypeOK /\ BlockInv /\ BlockedIsRefunded /\ [Next]_vars => BlockedIsRefunded'
<1> SUFFICES ASSUME TypeOK, BlockInv, BlockedIsRefunded, [Next]_vars PROVE BlockedIsRefunded'
  OBVIOUS
<1> USE EscrowAssumption DEF TypeOK, Running, Refunding, Stages, Proc, vars, rows, locks, locals, BlockInv, BlockedIsRefunded
<1>1. ASSUME NEW r \in Requests, NEW e \in Exports, VerifyBuyer(r, e) PROVE BlockedIsRefunded'
  BY <1>1 DEF VerifyBuyer, Goto
<1>2. ASSUME NEW r \in Requests, NEW e \in Exports, CreateB2BExport(r, e) PROVE BlockedIsRefunded'
  BY <1>2 DEF CreateB2BExport, Goto
<1>3. ASSUME NEW r \in Requests, LockBuyer(r) PROVE BlockedIsRefunded'
  BY <1>3 DEF LockBuyer, UserRowFree, Affordable, Goto
<1>4. ASSUME NEW r \in Requests, CommitExport(r) PROVE BlockedIsRefunded'
  BY <1>4 DEF CommitExport, Release, Close, Discard, Goto
<1>5. ASSUME NEW r \in Requests, DispatchExport(r) PROVE BlockedIsRefunded'
  BY <1>5 DEF DispatchExport, Close, Discard, Goto, Message
<1>6. ASSUME NEW w \in Workers, NEW m \in queue, StartTask(w, m) PROVE BlockedIsRefunded'
  BY <1>6 DEF StartTask, SetStatus, Unlocked, Goto, Message
<1>7. ASSUME NEW w \in Workers, StageDone(w) PROVE BlockedIsRefunded'
  BY <1>7 DEF StageDone, Goto, NextStage
<1>8. ASSUME NEW w \in Workers, StageFailed(w) PROVE BlockedIsRefunded'
  BY <1>8 DEF StageFailed, SetStatus, Unlocked, Goto
<1>9. ASSUME NEW w \in Workers, FinalizeExport(w) PROVE BlockedIsRefunded'
  BY <1>9 DEF FinalizeExport, SetStatus, Unlocked, Goto
<1>10. ASSUME NEW w \in Workers, TaskRaises(w) PROVE BlockedIsRefunded'
  BY <1>10 DEF TaskRaises, Goto
<1>11. ASSUME NEW w \in Workers, TaskReturns(w) PROVE BlockedIsRefunded'
  BY <1>11 DEF TaskReturns, Close, Discard, Goto
<1>12. ASSUME NEW w \in Workers, MarkFailed(w) PROVE BlockedIsRefunded'
  BY <1>12 DEF MarkFailed, SetStatus, Unlocked, Goto
<1>13. ASSUME NEW w \in Workers, SkipMark(w) PROVE BlockedIsRefunded'
  BY <1>13 DEF SkipMark, Goto
<1>14. ASSUME NEW w \in Workers, LockFailed(w) PROVE BlockedIsRefunded'
  BY <1>14 DEF LockFailed, Unlocked, NeedsRefund, Goto
<1>15. ASSUME NEW w \in Workers, CreditBuyer(w, "commit") PROVE BlockedIsRefunded'
  BY <1>15 DEF CreditBuyer, UserRowFree, Goto
<1>16. ASSUME NEW w \in Workers, CommitFailed(w) PROVE BlockedIsRefunded'
  <2> SUFFICES ASSUME NEW e \in Exports, status'[e] = "BLOCKED", Price[e] > 0
               PROVE  e \in refunded'
    BY DEF BlockedIsRefunded
  <2>1. pc[w] = "commit" /\ refunded' = refunded \cup paid[w]
    BY <1>16 DEF CommitFailed, CommitRefunds
  <2>2. CASE e \in blocked[w]
    BY <2>1, <2>2 DEF BlockInv
  <2>3. CASE e \notin blocked[w]
    <3>1. status[e] = "BLOCKED"
      BY <1>16, <2>3 DEF CommitFailed, CommitRefunds
    <3> QED
      BY <2>1, <3>1
  <2> QED
    BY <2>2, <2>3
<1>17. ASSUME NEW w \in Workers, HandlerLost(w) PROVE BlockedIsRefunded'
  BY <1>17 DEF HandlerLost, Release, Discard, Goto
<1>18. ASSUME NEW w \in Workers, Reraise(w) PROVE BlockedIsRefunded'
  BY <1>18 DEF Reraise, CanRetry, Close, Discard, Goto, Message
<1>19. ASSUME NEW w \in Workers, CrashWorker(w) PROVE BlockedIsRefunded'
  BY <1>19 DEF CrashWorker, Release, Close, Discard, Goto
<1>20. ASSUME NEW h \in Hooks, NEW e \in Exports, LoadExport(h, e) PROVE BlockedIsRefunded'
  BY <1>20 DEF LoadExport, Goto
<1>21. ASSUME NEW h \in Hooks, ConfirmDelivery(h) PROVE BlockedIsRefunded'
  BY <1>21 DEF ConfirmDelivery, SetStatus, Unlocked, Confirmable, Close, Discard, Goto
<1>22. ASSUME NEW x \in Withdrawals, NEW D \in SUBSET Datasets, SelectExports(x, D) PROVE BlockedIsRefunded'
  BY <1>22 DEF SelectExports, Goto
<1>23. ASSUME NEW x \in Withdrawals, NEW e \in Exports, BlockExport(x, e) PROVE BlockedIsRefunded'
  BY <1>23 DEF BlockExport, Unlocked, NeedsRefund, Goto
<1>24. ASSUME NEW x \in Withdrawals, CreditBuyer(x, "block") PROVE BlockedIsRefunded'
  BY <1>24 DEF CreditBuyer, UserRowFree, Goto
<1>25. ASSUME NEW x \in Withdrawals, CommitWithdrawal(x) PROVE BlockedIsRefunded'
  <2> SUFFICES ASSUME NEW e \in Exports, status'[e] = "BLOCKED", Price[e] > 0
               PROVE  e \in refunded'
    BY DEF BlockedIsRefunded
  <2>1. pc[x] = "block" /\ refunded' = refunded \cup paid[x]
    BY <1>25 DEF CommitWithdrawal, CommitRefunds
  <2>2. CASE e \in blocked[x]
    BY <2>1, <2>2 DEF BlockInv
  <2>3. CASE e \notin blocked[x]
    <3>1. status[e] = "BLOCKED"
      BY <1>25, <2>3 DEF CommitWithdrawal, CommitRefunds
    <3> QED
      BY <2>1, <3>1
  <2> QED
    BY <2>2, <2>3
<1>26. ASSUME NEW p \in Proc, Abandon(p) PROVE BlockedIsRefunded'
  BY <1>26 DEF Abandon, Release, Close, Discard, Goto
<1>27. CASE UNCHANGED vars
  BY <1>27
<1> QED
  BY <1>1, <1>2, <1>3, <1>4, <1>5, <1>6, <1>7, <1>8, <1>9, <1>10, <1>11, <1>12, <1>13, <1>14,
     <1>15, <1>16, <1>17, <1>18, <1>19, <1>20, <1>21, <1>22, <1>23, <1>24, <1>25, <1>26, <1>27
     DEF Next, RequestStep, TaskStep, HookStep, WithdrawStep

-----------------------------------------------------------------------------

(* The initial state satisfies the strengthening. *)
LEMMA InitIInv == Init => IInv
<1> SUFFICES ASSUME Init PROVE IInv
  OBVIOUS
<1> USE EscrowAssumption DEF Init
<1>1. TypeOK
  BY DEF TypeOK, Status, PC
<1>2. JobInv /\ DebitInv /\ DebitIsFresh /\ CreditInv
  BY DEF JobInv, DebitInv, DebitIsFresh, CreditInv, Proc
<1>3. PaidInv /\ BlockInv
  BY DEF PaidInv, BlockInv
<1>4. RefundOnce /\ BlockedIsRefunded
  BY DEF RefundOnce, BlockedIsRefunded
<1> QED
  BY <1>1, <1>2, <1>3, <1>4 DEF IInv

(* Every step preserves it. *)
LEMMA StepIInv == IInv /\ [Next]_vars => IInv'
  BY TypeStep, JobStep, DebitStep, FreshStep, PaidStep, CreditStep, BlockStep,
     OnceStep, BlockedStep DEF IInv

(* It is an invariant. *)
LEMMA Inductive == Spec => []IInv
  BY InitIInv, StepIInv, PTL DEF Spec

(* Every row, lock, message and session stays well typed; in particular a   *)
(* buyer's credit is never negative, whatever purchases race (billing.py:112). *)
THEOREM TypeCorrect == Spec => []TypeOK
<1>1. IInv => TypeOK
  BY DEF IInv
<1> QED
  BY <1>1, Inductive, PTL

(* refund_escrow credits an export at most once, exactly when its audit row *)
(* exists, however its callers interleave (billing.py:29).                  *)
THEOREM RefundsOnce == Spec => []RefundOnce
<1>1. IInv => RefundOnce
  BY DEF IInv
<1> QED
  BY <1>1, Inductive, PTL

(* A priced export is never found BLOCKED without its refund, wherever the  *)
(* withdrawal stops (compliance.py:150).                                    *)
THEOREM BlockedAreRefunded == Spec => []BlockedIsRefunded
<1>1. IInv => BlockedIsRefunded
  BY DEF IInv
<1> QED
  BY <1>1, Inductive, PTL

(* A purchase writes a credit computed from the committed one, so no update *)
(* of the buyer's row is lost to it (billing.py:107).                       *)
THEOREM DebitsAreFresh == Spec => []DebitIsFresh
<1>1. IInv => DebitIsFresh
  BY DEF IInv
<1> QED
  BY <1>1, Inductive, PTL

-----------------------------------------------------------------------------
(* The escrow implements its ledger.  What the mapping needs besides IInv:  *)
(* a row exists for every export somebody holds on to, ...                  *)
Opened(e) == status[e] # "NONE"

Backed ==
    /\ \A m \in queue : Opened(m.export)
    /\ \A p \in Proc : pc[p] \notin {"idle", "lock", "debit", "block"} => Opened(job[p])
    /\ \A p \in Proc : \A e \in todo[p] \cup blocked[p] \cup paid[p] : Opened(e)
    /\ \A e \in escrowed \cup refunded : Opened(e)

\* ... none for an export that is being bought, by one session only, ...
FreshId ==
    \A r \in Requests :
        pc[r] \in {"lock", "debit"} =>
            /\ ~ Opened(job[r])
            /\ \A q \in Requests \ {r} : job[q] # job[r]

\* ... a purchase refunds nothing, a refund is not added twice, ...
PaidOnce ==
    /\ \A r \in Requests : paid[r] = {}
    /\ \A p \in Proc : pc[p] = "credit" => job[p] \notin paid[p]

\* ... and the credit a transaction sees is the committed one and its refunds.
\* It has refunded only buyers whose rows it holds.
ViewInv ==
    \A p \in Proc, b \in Buyers :
        /\ IsFiniteSet(Ledger!Units(b, paid[p]))
        /\ IF userLock[b] = p
           THEN view[p][b] = balance[b] + Ledger!Owed(b, paid[p])
           ELSE \A e \in paid[p] : BuyerOf[e] # b

\* Only a transaction that has a credit to write holds a buyer's row.
HolderInv ==
    \A p \in Proc, b \in Buyers :
        userLock[b] = p => pc[p] \in {"debit", "credit", "commit", "block"}

LedgerInv == Backed /\ FreshId /\ PaidOnce /\ HolderInv /\ ViewInv

(* The ledger counts as this module does. *)
LEMMA SameCount == \A S : Ledger!Cardinality(S) = Cardinality(S)
  BY DEF Ledger!Cardinality, Cardinality

(* The exports of other buyers cost a buyer nothing. *)
LEMMA UnitsOfNone ==
    ASSUME NEW b, NEW S, \A e \in S : BuyerOf[e] # b
    PROVE  IsFiniteSet(Ledger!Units(b, S)) /\ Ledger!Owed(b, S) = 0
<1>1. Ledger!Units(b, S) = {}
  BY DEF Ledger!Units
<1> QED
  BY <1>1, FS_EmptySet, SameCount DEF Ledger!Owed

(* One more export of a buyer costs its price more. *)
LEMMA UnitsOfMore ==
    ASSUME NEW e \in Exports, NEW S \in SUBSET Exports, e \notin S,
           IsFiniteSet(Ledger!Units(BuyerOf[e], S))
    PROVE  /\ IsFiniteSet(Ledger!Units(BuyerOf[e], S \cup {e}))
           /\ Ledger!Owed(BuyerOf[e], S \cup {e}) = Ledger!Owed(BuyerOf[e], S) + Price[e]
<1> DEFINE b == BuyerOf[e]
           New == {e} \X (1 .. Price[e])
<1>1. Price[e] \in Nat
  BY EscrowAssumption
<1>2. IsFiniteSet({e}) /\ Cardinality({e}) = 1
  BY FS_Singleton
<1>3. IsFiniteSet(1 .. Price[e]) /\ Cardinality(1 .. Price[e]) = Price[e]
  <2>1. 1 \in Int /\ Price[e] \in Int
    BY <1>1
  <2>2. IsFiniteSet(1 .. Price[e]) /\ Cardinality(1 .. Price[e]) = IF 1 > Price[e] THEN 0 ELSE Price[e] - 1 + 1
    BY <2>1, FS_Interval
  <2> QED
    BY <1>1, <2>2
<1>4. IsFiniteSet(New) /\ Cardinality(New) = Cardinality({e}) * Cardinality(1 .. Price[e])
  BY <1>2, <1>3, FS_Product
<1>5. Cardinality(New) = Price[e]
  BY <1>1, <1>2, <1>3, <1>4
<1>6. Ledger!Units(b, S \cup {e}) = Ledger!Units(b, S) \cup New
  <2>1. {x \in S \cup {e} : BuyerOf[x] = b} = {x \in S : BuyerOf[x] = b} \cup {e}
    OBVIOUS
  <2> QED
    BY <2>1 DEF Ledger!Units
<1>7. Ledger!Units(b, S) \cap New = {}
  BY DEF Ledger!Units
<1> HIDE DEF New
<1> DEFINE Old == Ledger!Units(b, S)
<1>8. IsFiniteSet(Old)
  OBVIOUS
<1> HIDE DEF Old
<1>9. /\ IsFiniteSet(Old \cup New)
      /\ Cardinality(Old \cup New) = Cardinality(Old) + Cardinality(New) - Cardinality(Old \cap New)
  BY <1>4, <1>8, FS_Union
<1>10. Cardinality(Old \cap New) = 0 /\ Cardinality(Old) \in Nat
  <2>1. Old \cap New = {}
    BY <1>7 DEF Old
  <2> QED
    BY <1>8, <2>1, FS_EmptySet, FS_CardinalityType
<1>11. Cardinality(Old \cup New) = Cardinality(Old) + Price[e]
  BY <1>1, <1>5, <1>9, <1>10
<1> QED
  BY <1>6, <1>9, <1>11, SameCount DEF Old, Ledger!Owed

(* An export of another buyer changes nothing. *)
LEMMA UnitsOfOther ==
    ASSUME NEW b, NEW e, NEW S, BuyerOf[e] # b
    PROVE  /\ Ledger!Units(b, S \cup {e}) = Ledger!Units(b, S)
           /\ Ledger!Owed(b, S \cup {e}) = Ledger!Owed(b, S)
<1>1. {x \in S \cup {e} : BuyerOf[x] = b} = {x \in S : BuyerOf[x] = b}
  OBVIOUS
<1> QED
  BY <1>1 DEF Ledger!Units, Ledger!Owed

(* Every step keeps a row behind every export held on to. *)
LEMMA BackedStep ==
    TypeOK /\ JobInv /\ Backed /\ [Next]_vars => Backed'
<1> SUFFICES ASSUME TypeOK, JobInv, Backed, [Next]_vars PROVE Backed'
  OBVIOUS
<1> USE EscrowAssumption DEF TypeOK, JobInv, Backed, Opened, Running, Refunding, Stages, Live, Proc, vars, rows, locks, locals
<1>1. ASSUME NEW r \in Requests, NEW e \in Exports, VerifyBuyer(r, e) PROVE Backed'
  BY <1>1 DEF VerifyBuyer, Goto
<1>2. ASSUME NEW r \in Requests, NEW e \in Exports, CreateB2BExport(r, e) PROVE Backed'
  BY <1>2 DEF CreateB2BExport, Goto
<1>3. ASSUME NEW r \in Requests, LockBuyer(r) PROVE Backed'
  BY <1>3 DEF LockBuyer, UserRowFree, Affordable, Goto
<1>4. ASSUME NEW r \in Requests, CommitExport(r) PROVE Backed'
  BY <1>4 DEF CommitExport, Release, Close, Discard, Goto
<1>5. ASSUME NEW r \in Requests, DispatchExport(r) PROVE Backed'
  <2>1. job[r] \in Exports /\ Opened(job[r])
    BY <1>5 DEF DispatchExport
  <2>2. \A m \in queue' : Opened(m.export)'
    BY <1>5, <2>1 DEF DispatchExport
  <2> QED
    BY <1>5, <2>2 DEF DispatchExport, Close, Discard, Goto
<1>6. ASSUME NEW w \in Workers, NEW m \in queue, StartTask(w, m) PROVE Backed'
  BY <1>6 DEF StartTask, SetStatus, Unlocked, Goto, Message
<1>7. ASSUME NEW w \in Workers, StageDone(w) PROVE Backed'
  BY <1>7 DEF StageDone, Goto, NextStage
<1>8. ASSUME NEW w \in Workers, StageFailed(w) PROVE Backed'
  BY <1>8 DEF StageFailed, SetStatus, Unlocked, Goto
<1>9. ASSUME NEW w \in Workers, FinalizeExport(w) PROVE Backed'
  BY <1>9 DEF FinalizeExport, SetStatus, Unlocked, Goto
<1>10. ASSUME NEW w \in Workers, TaskRaises(w) PROVE Backed'
  BY <1>10 DEF TaskRaises, Goto
<1>11. ASSUME NEW w \in Workers, TaskReturns(w) PROVE Backed'
  BY <1>11 DEF TaskReturns, Close, Discard, Goto
<1>12. ASSUME NEW w \in Workers, MarkFailed(w) PROVE Backed'
  BY <1>12 DEF MarkFailed, SetStatus, Unlocked, Goto
<1>13. ASSUME NEW w \in Workers, SkipMark(w) PROVE Backed'
  BY <1>13 DEF SkipMark, Goto
<1>14. ASSUME NEW w \in Workers, LockFailed(w) PROVE Backed'
  BY <1>14 DEF LockFailed, Unlocked, NeedsRefund, Goto
<1>15. ASSUME NEW w \in Workers, CreditBuyer(w, "commit") PROVE Backed'
  BY <1>15 DEF CreditBuyer, UserRowFree, Goto
<1>16. ASSUME NEW w \in Workers, CommitFailed(w) PROVE Backed'
  <2>1. \A e \in Exports : Opened(e) => status'[e] # "NONE"
    BY <1>16 DEF CommitFailed, CommitRefunds
  <2>2. \A m \in queue' : Opened(m.export)'
    BY <1>16, <2>1 DEF CommitFailed, Message
  <2>3. \A p \in Proc : pc'[p] \notin {"idle", "lock", "debit", "block"} => Opened(job[p])'
    BY <1>16, <2>1 DEF CommitFailed, Discard, Goto
  <2>4. \A p \in Proc : \A e \in todo'[p] \cup blocked'[p] \cup paid'[p] : Opened(e)'
    BY <1>16, <2>1 DEF CommitFailed, Discard, Goto
  <2>5. \A e \in escrowed' \cup refunded' : Opened(e)'
    BY <1>16, <2>1 DEF CommitFailed, CommitRefunds
  <2> QED
    BY <2>2, <2>3, <2>4, <2>5
<1>17. ASSUME NEW w \in Workers, HandlerLost(w) PROVE Backed'
  BY <1>17 DEF HandlerLost, Release, Discard, Goto
<1>18. ASSUME NEW w \in Workers, Reraise(w) PROVE Backed'
  <2>1. job[w] \in Exports /\ Opened(job[w])
    BY <1>18 DEF Reraise
  <2>2. \A m \in queue' : Opened(m.export)'
    BY <1>18, <2>1 DEF Reraise
  <2> QED
    BY <1>18, <2>2 DEF Reraise, Close, Discard, Goto
<1>19. ASSUME NEW w \in Workers, CrashWorker(w) PROVE Backed'
  BY <1>19 DEF CrashWorker, Release, Close, Discard, Goto
<1>20. ASSUME NEW h \in Hooks, NEW e \in Exports, LoadExport(h, e) PROVE Backed'
  BY <1>20 DEF LoadExport, Goto
<1>21. ASSUME NEW h \in Hooks, ConfirmDelivery(h) PROVE Backed'
  BY <1>21 DEF ConfirmDelivery, SetStatus, Unlocked, Confirmable, Close, Discard, Goto
<1>22. ASSUME NEW x \in Withdrawals, NEW D \in SUBSET Datasets, SelectExports(x, D) PROVE Backed'
  BY <1>22 DEF SelectExports, Goto
<1>23. ASSUME NEW x \in Withdrawals, NEW e \in Exports, BlockExport(x, e) PROVE Backed'
  BY <1>23 DEF BlockExport, Unlocked, NeedsRefund, Goto
<1>24. ASSUME NEW x \in Withdrawals, CreditBuyer(x, "block") PROVE Backed'
  BY <1>24 DEF CreditBuyer, UserRowFree, Goto
<1>25. ASSUME NEW x \in Withdrawals, CommitWithdrawal(x) PROVE Backed'
  <2>1. \A e \in Exports : Opened(e) => status'[e] # "NONE"
    BY <1>25 DEF CommitWithdrawal, CommitRefunds
  <2>2. \A m \in queue' : Opened(m.export)'
    BY <1>25, <2>1 DEF CommitWithdrawal, Message
  <2>3. \A p \in Proc : pc'[p] \notin {"idle", "lock", "debit", "block"} => Opened(job[p])'
    BY <1>25, <2>1 DEF CommitWithdrawal, Close, Discard, Goto
  <2>4. \A p \in Proc : \A e \in todo'[p] \cup blocked'[p] \cup paid'[p] : Opened(e)'
    BY <1>25, <2>1 DEF CommitWithdrawal, Close, Discard, Goto
  <2>5. \A e \in escrowed' \cup refunded' : Opened(e)'
    BY <1>25, <2>1 DEF CommitWithdrawal, CommitRefunds
  <2> QED
    BY <2>2, <2>3, <2>4, <2>5
<1>26. ASSUME NEW p \in Proc, Abandon(p) PROVE Backed'
  BY <1>26 DEF Abandon, Release, Close, Discard, Goto
<1>27. CASE UNCHANGED vars
  BY <1>27
<1> QED
  BY <1>1, <1>2, <1>3, <1>4, <1>5, <1>6, <1>7, <1>8, <1>9, <1>10, <1>11, <1>12, <1>13, <1>14,
     <1>15, <1>16, <1>17, <1>18, <1>19, <1>20, <1>21, <1>22, <1>23, <1>24, <1>25, <1>26, <1>27
     DEF Next, RequestStep, TaskStep, HookStep, WithdrawStep

(* A purchase that goes on, while others may end, keeps its export to itself. *)
LEMMA FreshKept ==
    ASSUME TypeOK, JobInv, FreshId,
           \A e \in Exports : status[e] = "NONE" => status'[e] = "NONE",
           \A q \in Requests : /\ job'[q] \in {job[q], None}
                               /\ pc'[q] # "idle" => pc'[q] = pc[q] /\ job'[q] = job[q]
    PROVE  FreshId'
<1> SUFFICES ASSUME NEW r \in Requests, pc'[r] \in {"lock", "debit"}
             PROVE  /\ status'[job'[r]] = "NONE"
                    /\ \A q \in Requests \ {r} : job'[q] # job'[r]
  BY DEF FreshId, Opened
<1>1. pc[r] \in {"lock", "debit"} /\ job'[r] = job[r]
  OBVIOUS
<1>2. job[r] \in Exports
  BY <1>1 DEF JobInv, Proc
<1>3. status[job[r]] = "NONE" /\ \A q \in Requests \ {r} : job[q] # job[r]
  BY <1>1 DEF FreshId, Opened
<1> QED BY <1>1, <1>2, <1>3, EscrowAssumption

(* Every step keeps an export without a row to one purchase. *)
LEMMA FreshIdStep ==
    TypeOK /\ JobInv /\ Backed /\ FreshId /\ [Next]_vars => FreshId'
<1> SUFFICES ASSUME TypeOK, JobInv, Backed, FreshId, [Next]_vars PROVE FreshId'
  OBVIOUS
<1> USE EscrowAssumption DEF TypeOK, JobInv, Backed, FreshId, Opened, Running, Refunding, Stages, Live, Proc, vars, rows, locks, locals
<1>1. ASSUME NEW r \in Requests, NEW e \in Exports, VerifyBuyer(r, e) PROVE FreshId'
  BY <1>1 DEF VerifyBuyer, Goto
<1>2. ASSUME NEW r \in Requests, NEW e \in Exports, CreateB2BExport(r, e) PROVE FreshId'
  BY <1>2 DEF CreateB2BExport, Goto
<1>3. ASSUME NEW r \in Requests, LockBuyer(r) PROVE FreshId'
  BY <1>3 DEF LockBuyer, UserRowFree, Affordable, Goto
<1>4. ASSUME NEW r \in Requests, CommitExport(r) PROVE FreshId'
  BY <1>4 DEF CommitExport, Release, Close, Discard, Goto
<1>5. ASSUME NEW r \in Requests, DispatchExport(r) PROVE FreshId'
  <2>1. /\ UNCHANGED status
        /\ \A q \in Requests : /\ job'[q] \in {job[q], None}
                               /\ pc'[q] # "idle" => pc'[q] = pc[q] /\ job'[q] = job[q]
    BY <1>5 DEF DispatchExport, Close, Goto
  <2>2. \A e \in Exports : status[e] = "NONE" => status'[e] = "NONE"
    BY <2>1
  <2> QED BY <2>1, <2>2, FreshKept
<1>6. ASSUME NEW w \in Workers, NEW m \in queue, StartTask(w, m) PROVE FreshId'
  BY <1>6 DEF StartTask, SetStatus, Unlocked, Goto, Message
<1>7. ASSUME NEW w \in Workers, StageDone(w) PROVE FreshId'
  BY <1>7 DEF StageDone, Goto, NextStage
<1>8. ASSUME NEW w \in Workers, StageFailed(w) PROVE FreshId'
  <2>1. job[w] \in Exports /\ Opened(job[w])
    BY <1>8 DEF StageFailed
  <2>2. \A r \in Requests : pc[r] \in {"lock", "debit"} => job[r] # job[w] /\ pc[r] # "idle"
    BY <2>1
  <2> QED
    BY <1>8, <2>1, <2>2 DEF StageFailed, SetStatus, Goto
<1>9. ASSUME NEW w \in Workers, FinalizeExport(w) PROVE FreshId'
  <2>1. job[w] \in Exports /\ Opened(job[w])
    BY <1>9 DEF FinalizeExport
  <2>2. \A r \in Requests : pc[r] \in {"lock", "debit"} => job[r] # job[w] /\ pc[r] # "idle"
    BY <2>1
  <2> QED
    BY <1>9, <2>1, <2>2 DEF FinalizeExport, SetStatus, Goto
<1>10. ASSUME NEW w \in Workers, TaskRaises(w) PROVE FreshId'
  BY <1>10 DEF TaskRaises, Goto
<1>11. ASSUME NEW w \in Workers, TaskReturns(w) PROVE FreshId'
  BY <1>11 DEF TaskReturns, Close, Discard, Goto
<1>12. ASSUME NEW w \in Workers, MarkFailed(w) PROVE FreshId'
  <2>1. job[w] \in Exports /\ Opened(job[w])
    BY <1>12 DEF MarkFailed
  <2>2. \A r \in Requests : pc[r] \in {"lock", "debit"} => job[r] # job[w] /\ pc[r] # "idle"
    BY <2>1
  <2> QED
    BY <1>12, <2>1, <2>2 DEF MarkFailed, SetStatus, Goto
<1>13. ASSUME NEW w \in Workers, SkipMark(w) PROVE FreshId'
  BY <1>13 DEF SkipMark, Goto
<1>14. ASSUME NEW w \in Workers, LockFailed(w) PROVE FreshId'
  BY <1>14 DEF LockFailed, Unlocked, NeedsRefund, Goto
<1>15. ASSUME NEW w \in Workers, CreditBuyer(w, "commit") PROVE FreshId'
  BY <1>15 DEF CreditBuyer, UserRowFree, Goto
<1>16. ASSUME NEW w \in Workers, CommitFailed(w) PROVE FreshId'
  BY <1>16 DEF CommitFailed, CommitRefunds, Release, Discard, Goto
<1>17. ASSUME NEW w \in Workers, HandlerLost(w) PROVE FreshId'
  BY <1>17 DEF HandlerLost, Release, Discard, Goto
<1>18. ASSUME NEW w \in Workers, Reraise(w) PROVE FreshId'
  BY <1>18 DEF Reraise, CanRetry, Close, Discard, Goto, Message
<1>19. ASSUME NEW w \in Workers, CrashWorker(w) PROVE FreshId'
  BY <1>19 DEF CrashWorker, Release, Close, Discard, Goto
<1>20. ASSUME NEW h \in Hooks, NEW e \in Exports, LoadExport(h, e) PROVE FreshId'
  BY <1>20 DEF LoadExport, Goto
<1>21. ASSUME NEW h \in Hooks, ConfirmDelivery(h) PROVE FreshId'
  <2>1. job[h] \in Exports /\ Opened(job[h])
    BY <1>21 DEF ConfirmDelivery
  <2>2. \A r \in Requests : pc[r] \in {"lock", "debit"} => job[r] # job[h] /\ pc[r] # "idle"
    BY <2>1
  <2> QED
    BY <1>21, <2>1, <2>2 DEF ConfirmDelivery, SetStatus, Close, Discard, Goto
<1>22. ASSUME NEW x \in Withdrawals, NEW D \in SUBSET Datasets, SelectExports(x, D) PROVE FreshId'
  BY <1>22 DEF SelectExports, Goto
<1>23. ASSUME NEW x \in Withdrawals, NEW e \in Exports, BlockExport(x, e) PROVE FreshId'
  BY <1>23 DEF BlockExport, Unlocked, NeedsRefund, Goto
<1>24. ASSUME NEW x \in Withdrawals, CreditBuyer(x, "block") PROVE FreshId'
  BY <1>24 DEF CreditBuyer, UserRowFree, Goto
<1>25. ASSUME NEW x \in Withdrawals, CommitWithdrawal(x) PROVE FreshId'
  <2>1. \A e \in blocked[x] : e \in Exports /\ Opened(e)
    BY <1>25
  <2>2. \A e \in Exports : status[e] = "NONE" => status'[e] = "NONE"
    BY <1>25, <2>1 DEF CommitWithdrawal, CommitRefunds
  <2>3. \A q \in Requests : pc'[q] = pc[q] /\ job'[q] = job[q]
    BY <1>25 DEF CommitWithdrawal, Close, Goto
  <2> QED BY <2>2, <2>3, FreshKept
<1>26. ASSUME NEW p \in Proc, Abandon(p) PROVE FreshId'
  BY <1>26 DEF Abandon, Release, Close, Discard, Goto
<1>27. CASE UNCHANGED vars
  BY <1>27
<1> QED
  BY <1>1, <1>2, <1>3, <1>4, <1>5, <1>6, <1>7, <1>8, <1>9, <1>10, <1>11, <1>12, <1>13, <1>14,
     <1>15, <1>16, <1>17, <1>18, <1>19, <1>20, <1>21, <1>22, <1>23, <1>24, <1>25, <1>26, <1>27
     DEF Next, RequestStep, TaskStep, HookStep, WithdrawStep

(* Every step keeps refunds single. *)
LEMMA PaidOnceStep ==
    TypeOK /\ JobInv /\ PaidInv /\ PaidOnce /\ [Next]_vars => PaidOnce'
<1> SUFFICES ASSUME TypeOK, JobInv, PaidInv, PaidOnce, [Next]_vars PROVE PaidOnce'
  OBVIOUS
<1> USE EscrowAssumption DEF TypeOK, JobInv, PaidInv, PaidOnce, Running, Refunding, Stages, Proc, vars, rows, locks, locals
<1>1. ASSUME NEW r \in Requests, NEW e \in Exports, VerifyBuyer(r, e) PROVE PaidOnce'
  BY <1>1 DEF VerifyBuyer, Goto
<1>2. ASSUME NEW r \in Requests, NEW e \in Exports, CreateB2BExport(r, e) PROVE PaidOnce'
  BY <1>2 DEF CreateB2BExport, Goto
<1>3. ASSUME NEW r \in Requests, LockBuyer(r) PROVE PaidOnce'
  BY <1>3 DEF LockBuyer, UserRowFree, Affordable, Goto
<1>4. ASSUME NEW r \in Requests, CommitExport(r) PROVE PaidOnce'
  BY <1>4 DEF CommitExport, Release, Close, Discard, Goto
<1>5. ASSUME NEW r \in Requests, DispatchExport(r) PROVE PaidOnce'
  BY <1>5 DEF DispatchExport, Close, Discard, Goto, Message
<1>6. ASSUME NEW w \in Workers, NEW m \in queue, StartTask(w, m) PROVE PaidOnce'
  BY <1>6 DEF StartTask, SetStatus, Unlocked, Goto, Message
<1>7. ASSUME NEW w \in Workers, StageDone(w) PROVE PaidOnce'
  BY <1>7 DEF StageDone, Goto, NextStage
<1>8. ASSUME NEW w \in Workers, StageFailed(w) PROVE PaidOnce'
  BY <1>8 DEF StageFailed, SetStatus, Unlocked, Goto
<1>9. ASSUME NEW w \in Workers, FinalizeExport(w) PROVE PaidOnce'
  BY <1>9 DEF FinalizeExport, SetStatus, Unlocked, Goto
<1>10. ASSUME NEW w \in Workers, TaskRaises(w) PROVE PaidOnce'
  BY <1>10 DEF TaskRaises, Goto
<1>11. ASSUME NEW w \in Workers, TaskReturns(w) PROVE PaidOnce'
  BY <1>11 DEF TaskReturns, Close, Discard, Goto
<1>12. ASSUME NEW w \in Workers, MarkFailed(w) PROVE PaidOnce'
  BY <1>12 DEF MarkFailed, SetStatus, Unlocked, Goto
<1>13. ASSUME NEW w \in Workers, SkipMark(w) PROVE PaidOnce'
  BY <1>13 DEF SkipMark, Goto
<1>14. ASSUME NEW w \in Workers, LockFailed(w) PROVE PaidOnce'
  BY <1>14 DEF LockFailed, Unlocked, NeedsRefund, Goto
<1>15. ASSUME NEW w \in Workers, CreditBuyer(w, "commit") PROVE PaidOnce'
  BY <1>15 DEF CreditBuyer, UserRowFree, Goto
<1>16. ASSUME NEW w \in Workers, CommitFailed(w) PROVE PaidOnce'
  BY <1>16 DEF CommitFailed, CommitRefunds, Release, Discard, Goto
<1>17. ASSUME NEW w \in Workers, HandlerLost(w) PROVE PaidOnce'
  BY <1>17 DEF HandlerLost, Release, Discard, Goto
<1>18. ASSUME NEW w \in Workers, Reraise(w) PROVE PaidOnce'
  BY <1>18 DEF Reraise, CanRetry, Close, Discard, Goto, Message
<1>19. ASSUME NEW w \in Workers, CrashWorker(w) PROVE PaidOnce'
  BY <1>19 DEF CrashWorker, Release, Close, Discard, Goto
<1>20. ASSUME NEW h \in Hooks, NEW e \in Exports, LoadExport(h, e) PROVE PaidOnce'
  BY <1>20 DEF LoadExport, Goto
<1>21. ASSUME NEW h \in Hooks, ConfirmDelivery(h) PROVE PaidOnce'
  BY <1>21 DEF ConfirmDelivery, SetStatus, Unlocked, Confirmable, Close, Discard, Goto
<1>22. ASSUME NEW x \in Withdrawals, NEW D \in SUBSET Datasets, SelectExports(x, D) PROVE PaidOnce'
  BY <1>22 DEF SelectExports, Goto
<1>23. ASSUME NEW x \in Withdrawals, NEW e \in Exports, BlockExport(x, e) PROVE PaidOnce'
  BY <1>23 DEF BlockExport, Unlocked, NeedsRefund, Goto
<1>24. ASSUME NEW x \in Withdrawals, CreditBuyer(x, "block") PROVE PaidOnce'
  BY <1>24 DEF CreditBuyer, UserRowFree, Goto
<1>25. ASSUME NEW x \in Withdrawals, CommitWithdrawal(x) PROVE PaidOnce'
  BY <1>25 DEF CommitWithdrawal, CommitRefunds, Release, Close, Discard, Goto
<1>26. ASSUME NEW p \in Proc, Abandon(p) PROVE PaidOnce'
  BY <1>26 DEF Abandon, Release, Close, Discard, Goto
<1>27. CASE UNCHANGED vars
  BY <1>27
<1> QED
  BY <1>1, <1>2, <1>3, <1>4, <1>5, <1>6, <1>7, <1>8, <1>9, <1>10, <1>11, <1>12, <1>13, <1>14,
     <1>15, <1>16, <1>17, <1>18, <1>19, <1>20, <1>21, <1>22, <1>23, <1>24, <1>25, <1>26, <1>27
     DEF Next, RequestStep, TaskStep, HookStep, WithdrawStep

(* Every step keeps buyers' rows to those transactions. *)
LEMMA HolderStep ==
    TypeOK /\ HolderInv /\ [Next]_vars => HolderInv'
<1> SUFFICES ASSUME TypeOK, HolderInv, [Next]_vars PROVE HolderInv'
  OBVIOUS
<1> USE EscrowAssumption DEF TypeOK, HolderInv, Running, Refunding, Stages, Proc, vars, rows, locks, locals
<1>1. ASSUME NEW r \in Requests, NEW e \in Exports, VerifyBuyer(r, e) PROVE HolderInv'
  BY <1>1 DEF VerifyBuyer, Goto
<1>2. ASSUME NEW r \in Requests, NEW e \in Exports, CreateB2BExport(r, e) PROVE HolderInv'
  BY <1>2 DEF CreateB2BExport, Goto
<1>3. ASSUME NEW r \in Requests, LockBuyer(r) PROVE HolderInv'
  BY <1>3 DEF LockBuyer, UserRowFree, Affordable, Goto
<1>4. ASSUME NEW r \in Requests, CommitExport(r) PROVE HolderInv'
  BY <1>4 DEF CommitExport, Release, Close, Discard, Goto
<1>5. ASSUME NEW r \in Requests, DispatchExport(r) PROVE HolderInv'
  BY <1>5 DEF DispatchExport, Close, Discard, Goto, Message
<1>6. ASSUME NEW w \in Workers, NEW m \in queue, StartTask(w, m) PROVE HolderInv'
  BY <1>6 DEF StartTask, SetStatus, Unlocked, Goto, Message
<1>7. ASSUME NEW w \in Workers, StageDone(w) PROVE HolderInv'
  BY <1>7 DEF StageDone, Goto, NextStage
<1>8. ASSUME NEW w \in Workers, StageFailed(w) PROVE HolderInv'
  BY <1>8 DEF StageFailed, SetStatus, Unlocked, Goto
<1>9. ASSUME NEW w \in Workers, FinalizeExport(w) PROVE HolderInv'
  BY <1>9 DEF FinalizeExport, SetStatus, Unlocked, Goto
<1>10. ASSUME NEW w \in Workers, TaskRaises(w) PROVE HolderInv'
  BY <1>10 DEF TaskRaises, Goto
<1>11. ASSUME NEW w \in Workers, TaskReturns(w) PROVE HolderInv'
  BY <1>11 DEF TaskReturns, Close, Discard, Goto
<1>12. ASSUME NEW w \in Workers, MarkFailed(w) PROVE HolderInv'
  BY <1>12 DEF MarkFailed, SetStatus, Unlocked, Goto
<1>13. ASSUME NEW w \in Workers, SkipMark(w) PROVE HolderInv'
  BY <1>13 DEF SkipMark, Goto
<1>14. ASSUME NEW w \in Workers, LockFailed(w) PROVE HolderInv'
  BY <1>14 DEF LockFailed, Unlocked, NeedsRefund, Goto
<1>15. ASSUME NEW w \in Workers, CreditBuyer(w, "commit") PROVE HolderInv'
  BY <1>15 DEF CreditBuyer, UserRowFree, Goto
<1>16. ASSUME NEW w \in Workers, CommitFailed(w) PROVE HolderInv'
  BY <1>16 DEF CommitFailed, CommitRefunds, Release, Discard, Goto
<1>17. ASSUME NEW w \in Workers, HandlerLost(w) PROVE HolderInv'
  BY <1>17 DEF HandlerLost, Release, Discard, Goto
<1>18. ASSUME NEW w \in Workers, Reraise(w) PROVE HolderInv'
  BY <1>18 DEF Reraise, CanRetry, Close, Discard, Goto, Message
<1>19. ASSUME NEW w \in Workers, CrashWorker(w) PROVE HolderInv'
  BY <1>19 DEF CrashWorker, Release, Close, Discard, Goto
<1>20. ASSUME NEW h \in Hooks, NEW e \in Exports, LoadExport(h, e) PROVE HolderInv'
  BY <1>20 DEF LoadExport, Goto
<1>21. ASSUME NEW h \in Hooks, ConfirmDelivery(h) PROVE HolderInv'
  BY <1>21 DEF ConfirmDelivery, SetStatus, Unlocked, Confirmable, Close, Discard, Goto
<1>22. ASSUME NEW x \in Withdrawals, NEW D \in SUBSET Datasets, SelectExports(x, D) PROVE HolderInv'
  BY <1>22 DEF SelectExports, Goto
<1>23. ASSUME NEW x \in Withdrawals, NEW e \in Exports, BlockExport(x, e) PROVE HolderInv'
  BY <1>23 DEF BlockExport, Unlocked, NeedsRefund, Goto
<1>24. ASSUME NEW x \in Withdrawals, CreditBuyer(x, "block") PROVE HolderInv'
  BY <1>24 DEF CreditBuyer, UserRowFree, Goto
<1>25. ASSUME NEW x \in Withdrawals, CommitWithdrawal(x) PROVE HolderInv'
  BY <1>25 DEF CommitWithdrawal, CommitRefunds, Release, Close, Discard, Goto
<1>26. ASSUME NEW p \in Proc, Abandon(p) PROVE HolderInv'
  BY <1>26 DEF Abandon, Release, Close, Discard, Goto
<1>27. CASE UNCHANGED vars
  BY <1>27
<1> QED
  BY <1>1, <1>2, <1>3, <1>4, <1>5, <1>6, <1>7, <1>8, <1>9, <1>10, <1>11, <1>12, <1>13, <1>14,
     <1>15, <1>16, <1>17, <1>18, <1>19, <1>20, <1>21, <1>22, <1>23, <1>24, <1>25, <1>26, <1>27
     DEF Next, RequestStep, TaskStep, HookStep, WithdrawStep

(* The credits seen stay right while nothing they depend on moves. *)
LEMMA ViewQuiet ==
    ASSUME ViewInv, UNCHANGED <<paid, view, userLock, balance>>
    PROVE  ViewInv'
  BY DEF ViewInv

(* They stay right when a transaction ends and touched only rows it held. *)
LEMMA ViewEnd ==
    ASSUME TypeOK, ViewInv, NEW p \in Proc, Discard(p),
           userLock' = [b \in Buyers |-> IF userLock[b] = p THEN None ELSE userLock[b]],
           \A b \in Buyers : userLock[b] # p => balance'[b] = balance[b]
    PROVE  ViewInv'
<1> SUFFICES ASSUME NEW q \in Proc, NEW b \in Buyers
             PROVE  /\ IsFiniteSet(Ledger!Units(b, paid'[q]))
                    /\ IF userLock'[b] = q
                       THEN view'[q][b] = balance'[b] + Ledger!Owed(b, paid'[q])
                       ELSE \A e \in paid'[q] : BuyerOf[e] # b
  BY DEF ViewInv
<1>1. None \notin Proc
  BY EscrowAssumption
<1>2. CASE q = p
  <2>1. paid'[q] = {} /\ userLock'[b] # q
    BY <1>1, <1>2 DEF Discard, TypeOK
  <2>2. \A e \in paid'[q] : BuyerOf[e] # b
    BY <2>1
  <2> QED
    BY <2>1, <2>2, UnitsOfNone
<1>3. CASE q # p
  <2>1. paid'[q] = paid[q] /\ view'[q] = view[q] /\ (userLock'[b] = q <=> userLock[b] = q)
    BY <1>1, <1>3 DEF Discard, TypeOK
  <2>2. userLock[b] = q => balance'[b] = balance[b]
    BY <1>3
  <2> QED
    BY <2>1, <2>2 DEF ViewInv
<1> QED
  BY <1>2, <1>3

(* They stay right when a refund is added to the buyer's row. *)
LEMMA ViewCredit ==
    ASSUME TypeOK, JobInv, PaidOnce, ViewInv, NEW p \in Proc, NEW next, CreditBuyer(p, next)
    PROVE  ViewInv'
<1> DEFINE e == job[p]
           c == BuyerOf[e]
<1>1. e \in Exports /\ c \in Buyers /\ e \notin paid[p] /\ paid[p] \in SUBSET Exports
  BY EscrowAssumption DEF CreditBuyer, JobInv, PaidOnce, TypeOK
<1>2. /\ paid' = [paid EXCEPT ![p] = paid[p] \cup {e}]
      /\ userLock[c] \in {None, p} /\ userLock' = [userLock EXCEPT ![c] = p]
      /\ balance' = balance
      /\ view' = [view EXCEPT ![p][c] = (IF userLock[c] = p THEN view[p][c] ELSE balance[c]) + Price[e]]
  BY DEF CreditBuyer, UserRowFree, rows
<1>3. None \notin Proc /\ Price[e] \in Nat
  BY <1>1, EscrowAssumption
<1>4. /\ view' \in [Proc -> [Buyers -> Nat]] /\ balance \in [Buyers -> Nat]
      /\ \A q \in Proc, b \in Buyers : q # p \/ b # c => view'[q][b] = view[q][b]
      /\ view'[p][c] = (IF userLock[c] = p THEN view[p][c] ELSE balance[c]) + Price[e]
  <2>1. /\ view \in [Proc -> [Buyers -> Nat]] /\ balance \in [Buyers -> Nat]
        /\ (IF userLock[c] = p THEN view[p][c] ELSE balance[c]) + Price[e] \in Nat
    BY <1>1, <1>3 DEF TypeOK
  <2> QED
    BY <1>1, <1>2, <2>1
<1> HIDE DEF e, c
<1> SUFFICES ASSUME NEW q \in Proc, NEW b \in Buyers
             PROVE  /\ IsFiniteSet(Ledger!Units(b, paid'[q]))
                    /\ IF userLock'[b] = q
                       THEN view'[q][b] = balance'[b] + Ledger!Owed(b, paid'[q])
                       ELSE \A x \in paid'[q] : BuyerOf[x] # b
  BY DEF ViewInv
<1>5. CASE q # p
  <2>1. paid'[q] = paid[q] /\ view'[q][b] = view[q][b] /\ (userLock'[b] = q <=> userLock[b] = q)
    BY <1>1, <1>2, <1>3, <1>4, <1>5 DEF TypeOK
  <2> QED
    BY <1>2, <2>1 DEF ViewInv
<1>6. CASE q = p /\ b # c
  <2>1. paid'[q] = paid[q] \cup {e} /\ view'[q][b] = view[q][b] /\ userLock'[b] = userLock[b]
    BY <1>1, <1>2, <1>4, <1>6 DEF TypeOK
  <2>2. BuyerOf[e] # b
    BY <1>6 DEF c
  <2>3. /\ Ledger!Units(b, paid'[q]) = Ledger!Units(b, paid[q])
        /\ Ledger!Owed(b, paid'[q]) = Ledger!Owed(b, paid[q])
    BY <2>1, <2>2, UnitsOfOther
  <2> QED
    BY <1>2, <2>1, <2>2, <2>3 DEF ViewInv
<1>7. CASE q = p /\ b = c
  <2>1. paid'[q] = paid[q] \cup {e} /\ userLock'[b] = q
    BY <1>1, <1>2, <1>7 DEF TypeOK
  <2>2. IsFiniteSet(Ledger!Units(b, paid[q]))
    BY DEF ViewInv
  <2>3. /\ IsFiniteSet(Ledger!Units(b, paid'[q]))
        /\ Ledger!Owed(b, paid'[q]) = Ledger!Owed(b, paid[q]) + Price[e]
    BY <1>1, <1>7, <2>1, <2>2, UnitsOfMore DEF c
  <2>4. (IF userLock[c] = p THEN view[p][c] ELSE balance[c]) = balance[b] + Ledger!Owed(b, paid[q])
    <3>1. CASE userLock[c] = p
      BY <1>7, <3>1 DEF ViewInv
    <3>2. CASE userLock[c] # p
      <4>1. Ledger!Owed(b, paid[q]) = 0
        <5>1. \A x \in paid[q] : BuyerOf[x] # b
          BY <1>7, <3>2 DEF ViewInv
        <5> QED
          BY <5>1, UnitsOfNone
      <4> QED
        BY <1>4, <1>7, <3>2, <4>1
    <3> QED
      BY <3>1, <3>2
  <2>5. Ledger!Owed(b, paid[q]) \in Nat
    BY <2>2, SameCount, FS_CardinalityType DEF Ledger!Owed
  <2>6. view'[q][b] = balance[b] + Ledger!Owed(b, paid[q]) + Price[e]
    BY <1>4, <1>7, <2>4
  <2>7. balance[b] \in Nat
    BY <1>4
  <2> QED
    BY <1>2, <1>3, <2>1, <2>3, <2>5, <2>6, <2>7
<1> QED
  BY <1>5, <1>6, <1>7

(* Every step keeps the credit seen right. *)
LEMMA ViewStep ==
    TypeOK /\ JobInv /\ DebitInv /\ PaidOnce /\ HolderInv /\ ViewInv /\ [Next]_vars => ViewInv'
<1> SUFFICES ASSUME TypeOK, JobInv, DebitInv, PaidOnce, HolderInv, ViewInv, [Next]_vars PROVE ViewInv'
  OBVIOUS
<1>1. ASSUME NEW r \in Requests, NEW e \in Exports, VerifyBuyer(r, e) PROVE ViewInv'
  BY <1>1, ViewQuiet DEF VerifyBuyer, rows, locks, locals
<1>2. ASSUME NEW r \in Requests, NEW e \in Exports, CreateB2BExport(r, e) PROVE ViewInv'
  BY <1>2, ViewQuiet DEF CreateB2BExport, rows, locks, locals
<1>3. ASSUME NEW r \in Requests, LockBuyer(r) PROVE ViewInv'
  <2> DEFINE c == BuyerOf[job[r]]
  <2>1. r \in Proc /\ None \notin Proc /\ c \in Buyers
    BY <1>3, EscrowAssumption DEF LockBuyer, JobInv, TypeOK, Proc
  <2>2. /\ userLock[c] \in {None, r} /\ userLock' = [userLock EXCEPT ![c] = r]
        /\ view' = [view EXCEPT ![r][c] = balance[c]]
        /\ paid' = paid /\ balance' = balance
    BY <1>3 DEF LockBuyer, UserRowFree, rows
  <2> HIDE DEF c
  <2> SUFFICES ASSUME NEW q \in Proc, NEW b \in Buyers
               PROVE  /\ IsFiniteSet(Ledger!Units(b, paid'[q]))
                      /\ IF userLock'[b] = q
                         THEN view'[q][b] = balance'[b] + Ledger!Owed(b, paid'[q])
                         ELSE \A e \in paid'[q] : BuyerOf[e] # b
    BY DEF ViewInv
  <2>3. CASE q = r /\ b = c
    <3>1. \A e \in paid[r] : BuyerOf[e] # b
      BY DEF PaidOnce
    <3>2. IsFiniteSet(Ledger!Units(b, paid[r])) /\ Ledger!Owed(b, paid[r]) = 0
      BY <3>1, UnitsOfNone
    <3>3. view'[q][b] = balance[b] /\ balance[b] \in Nat /\ userLock'[b] = q
      BY <2>1, <2>2, <2>3 DEF TypeOK
    <3> QED
      BY <2>2, <2>3, <3>2, <3>3
  <2>4. CASE ~ (q = r /\ b = c)
    <3>1. view'[q][b] = view[q][b] /\ (userLock'[b] = q <=> userLock[b] = q)
      BY <2>1, <2>2, <2>4 DEF TypeOK
    <3> QED
      BY <2>2, <3>1 DEF ViewInv
  <2> QED
    BY <2>3, <2>4
<1>4. ASSUME NEW r \in Requests, CommitExport(r) PROVE ViewInv'
  <2>1. CommitExport(r) /\ r \in Proc /\ Discard(r)
    BY <1>4 DEF CommitExport, Close, Proc
  <2>2. userLock' = [b \in Buyers |-> IF userLock[b] = r THEN None ELSE userLock[b]]
    BY <2>1 DEF CommitExport, Release
  <2>3. userLock[BuyerOf[job[r]]] = r
    BY <2>1 DEF CommitExport, DebitInv
  <2>4. \A b \in Buyers : userLock[b] # r => balance'[b] = balance[b]
    BY <2>1, <2>3 DEF CommitExport, TypeOK
  <2> QED
    BY <2>1, <2>2, <2>4, ViewEnd
<1>5. ASSUME NEW r \in Requests, DispatchExport(r) PROVE ViewInv'
  <2>1. DispatchExport(r) /\ r \in Proc /\ Discard(r)
    BY <1>5 DEF DispatchExport, Close, Proc
  <2>2. userLock' = [b \in Buyers |-> IF userLock[b] = r THEN None ELSE userLock[b]]
    BY <2>1 DEF DispatchExport, locks, HolderInv, Stages, Running, Refunding, TypeOK
  <2>3. \A b \in Buyers : userLock[b] # r => balance'[b] = balance[b]
    BY <2>1 DEF DispatchExport, rows, TypeOK
  <2> QED
    BY <2>1, <2>2, <2>3, ViewEnd
<1>6. ASSUME NEW w \in Workers, NEW m \in queue, StartTask(w, m) PROVE ViewInv'
  BY <1>6, ViewQuiet DEF StartTask, rows, locks, locals
<1>7. ASSUME NEW w \in Workers, StageDone(w) PROVE ViewInv'
  BY <1>7, ViewQuiet DEF StageDone, rows, locks, locals
<1>8. ASSUME NEW w \in Workers, StageFailed(w) PROVE ViewInv'
  BY <1>8, ViewQuiet DEF StageFailed, rows, locks, locals
<1>9. ASSUME NEW w \in Workers, FinalizeExport(w) PROVE ViewInv'
  BY <1>9, ViewQuiet DEF FinalizeExport, rows, locks, locals
<1>10. ASSUME NEW w \in Workers, TaskRaises(w) PROVE ViewInv'
  BY <1>10, ViewQuiet DEF TaskRaises, rows, locks, locals
<1>11. ASSUME NEW w \in Workers, TaskReturns(w) PROVE ViewInv'
  <2>1. TaskReturns(w) /\ w \in Proc /\ Discard(w)
    BY <1>11 DEF TaskReturns, Close, Proc
  <2>2. userLock' = [b \in Buyers |-> IF userLock[b] = w THEN None ELSE userLock[b]]
    BY <2>1 DEF TaskReturns, locks, HolderInv, Stages, Running, Refunding, TypeOK
  <2>3. \A b \in Buyers : userLock[b] # w => balance'[b] = balance[b]
    BY <2>1 DEF TaskReturns, rows, TypeOK
  <2> QED
    BY <2>1, <2>2, <2>3, ViewEnd
<1>12. ASSUME NEW w \in Workers, MarkFailed(w) PROVE ViewInv'
  BY <1>12, ViewQuiet DEF MarkFailed, rows, locks, locals
<1>13. ASSUME NEW w \in Workers, SkipMark(w) PROVE ViewInv'
  BY <1>13, ViewQuiet DEF SkipMark, rows, locks, locals
<1>14. ASSUME NEW w \in Workers, LockFailed(w) PROVE ViewInv'
  BY <1>14, ViewQuiet DEF LockFailed, rows, locks, locals
<1>15. ASSUME NEW w \in Workers, CreditBuyer(w, "commit") PROVE ViewInv'
  BY <1>15, ViewCredit DEF Proc
<1>16. ASSUME NEW w \in Workers, CommitFailed(w) PROVE ViewInv'
  <2>1. CommitFailed(w) /\ w \in Proc /\ Discard(w)
    BY <1>16 DEF CommitFailed, Close, Proc
  <2>2. userLock' = [b \in Buyers |-> IF userLock[b] = w THEN None ELSE userLock[b]]
    BY <2>1 DEF CommitFailed, CommitRefunds, Release, TypeOK
  <2>3. \A b \in Buyers : userLock[b] # w => balance'[b] = balance[b]
    BY <2>1 DEF CommitFailed, CommitRefunds, rows, TypeOK
  <2> QED
    BY <2>1, <2>2, <2>3, ViewEnd
<1>17. ASSUME NEW w \in Workers, HandlerLost(w) PROVE ViewInv'
  <2>1. HandlerLost(w) /\ w \in Proc /\ Discard(w)
    BY <1>17 DEF HandlerLost, Close, Proc
  <2>2. userLock' = [b \in Buyers |-> IF userLock[b] = w THEN None ELSE userLock[b]]
    BY <2>1 DEF HandlerLost, Release, TypeOK
  <2>3. \A b \in Buyers : userLock[b] # w => balance'[b] = balance[b]
    BY <2>1 DEF HandlerLost, rows, TypeOK
  <2> QED
    BY <2>1, <2>2, <2>3, ViewEnd
<1>18. ASSUME NEW w \in Workers, Reraise(w) PROVE ViewInv'
  <2>1. Reraise(w) /\ w \in Proc /\ Discard(w)
    BY <1>18 DEF Reraise, Close, Proc
  <2>2. userLock' = [b \in Buyers |-> IF userLock[b] = w THEN None ELSE userLock[b]]
    BY <2>1 DEF Reraise, locks, HolderInv, Stages, Running, Refunding, TypeOK
  <2>3. \A b \in Buyers : userLock[b] # w => balance'[b] = balance[b]
    BY <2>1 DEF Reraise, rows, TypeOK
  <2> QED
    BY <2>1, <2>2, <2>3, ViewEnd
<1>19. ASSUME NEW w \in Workers, CrashWorker(w) PROVE ViewInv'
  <2>1. CrashWorker(w) /\ w \in Proc /\ Discard(w)
    BY <1>19 DEF CrashWorker, Close, Proc
  <2>2. userLock' = [b \in Buyers |-> IF userLock[b] = w THEN None ELSE userLock[b]]
    BY <2>1 DEF CrashWorker, Release, TypeOK
  <2>3. \A b \in Buyers : userLock[b] # w => balance'[b] = balance[b]
    BY <2>1 DEF CrashWorker, rows, TypeOK
  <2> QED
    BY <2>1, <2>2, <2>3, ViewEnd
<1>20. ASSUME NEW h \in Hooks, NEW e \in Exports, LoadExport(h, e) PROVE ViewInv'
  BY <1>20, ViewQuiet DEF LoadExport, rows, locks, locals
<1>21. ASSUME NEW h \in Hooks, ConfirmDelivery(h) PROVE ViewInv'
  <2>1. ConfirmDelivery(h) /\ h \in Proc /\ Discard(h)
    BY <1>21 DEF ConfirmDelivery, Close, Proc
  <2>2. userLock' = [b \in Buyers |-> IF userLock[b] = h THEN None ELSE userLock[b]]
    BY <2>1 DEF ConfirmDelivery, locks, HolderInv, Stages, Running, Refunding, TypeOK
  <2>3. \A b \in Buyers : userLock[b] # h => balance'[b] = balance[b]
    BY <2>1 DEF ConfirmDelivery, rows, TypeOK
  <2> QED
    BY <2>1, <2>2, <2>3, ViewEnd
<1>22. ASSUME NEW x \in Withdrawals, NEW D \in SUBSET Datasets, SelectExports(x, D) PROVE ViewInv'
  BY <1>22, ViewQuiet DEF SelectExports, rows, locks, locals
<1>23. ASSUME NEW x \in Withdrawals, NEW e \in Exports, BlockExport(x, e) PROVE ViewInv'
  BY <1>23, ViewQuiet DEF BlockExport, rows, locks, locals
<1>24. ASSUME NEW x \in Withdrawals, CreditBuyer(x, "block") PROVE ViewInv'
  BY <1>24, ViewCredit DEF Proc
<1>25. ASSUME NEW x \in Withdrawals, CommitWithdrawal(x) PROVE ViewInv'
  <2>1. CommitWithdrawal(x) /\ x \in Proc /\ Discard(x)
    BY <1>25 DEF CommitWithdrawal, Close, Proc
  <2>2. userLock' = [b \in Buyers |-> IF userLock[b] = x THEN None ELSE userLock[b]]
    BY <2>1 DEF CommitWithdrawal, CommitRefunds, Release, TypeOK
  <2>3. \A b \in Buyers : userLock[b] # x => balance'[b] = balance[b]
    BY <2>1 DEF CommitWithdrawal, CommitRefunds, rows, TypeOK
  <2> QED
    BY <2>1, <2>2, <2>3, ViewEnd
<1>26. ASSUME NEW p \in Proc, Abandon(p) PROVE ViewInv'
  <2>1. Abandon(p) /\ p \in Proc /\ Discard(p)
    BY <1>26 DEF Abandon, Close, Proc
  <2>2. userLock' = [b \in Buyers |-> IF userLock[b] = p THEN None ELSE userLock[b]]
    BY <2>1 DEF Abandon, Release, TypeOK
  <2>3. \A b \in Buyers : userLock[b] # p => balance'[b] = balance[b]
    BY <2>1 DEF Abandon, rows, TypeOK
  <2> QED
    BY <2>1, <2>2, <2>3, ViewEnd
<1>27. CASE UNCHANGED vars
  BY <1>27, ViewQuiet DEF vars, rows, locks, locals
<1> QED
  BY <1>1, <1>2, <1>3, <1>4, <1>5, <1>6, <1>7, <1>8, <1>9, <1>10, <1>11, <1>12, <1>13, <1>14,
     <1>15, <1>16, <1>17, <1>18, <1>19, <1>20, <1>21, <1>22, <1>23, <1>24, <1>25, <1>26, <1>27
     DEF Next, RequestStep, TaskStep, HookStep, WithdrawStep

-----------------------------------------------------------------------------

(* A step that moves no credit and no entry stutters. *)
LEMMA LedgerStutters ==
    ASSUME UNCHANGED <<balance, escrowed, refunded>>,
           \A e \in Exports : status'[e] = "NONE" <=> status[e] = "NONE"
    PROVE  UNCHANGED Ledger!vars
<1>1. \A e \in Exports : EscrowOf(e)' = EscrowOf(e)
  BY DEF EscrowOf
<1> QED
  BY <1>1 DEF Ledger!vars

(* The COMMIT of a purchase holds its price. *)
LEMMA PurchaseHolds ==
    ASSUME TypeOK, JobInv, DebitIsFresh, Backed, FreshId, NEW r \in Requests, CommitExport(r)
    PROVE  Ledger!Hold(job[r])
<1>0. PICK e \in Exports : e = job[r]
  BY DEF CommitExport, JobInv, Proc
<1>1. status[e] = "NONE" /\ BuyerOf[e] \in Buyers
  BY <1>0, EscrowAssumption DEF CommitExport, FreshId, Opened
<1>2. view[r][BuyerOf[e]] = balance[BuyerOf[e]] /\ balance[BuyerOf[e]] >= Price[e]
  BY <1>0 DEF CommitExport, DebitIsFresh, Affordable
<1>3. /\ balance' = [balance EXCEPT ![BuyerOf[e]] = view[r][BuyerOf[e]] - Price[e]]
      /\ status' = [status EXCEPT ![e] = "PENDING"]
      /\ escrowed' = escrowed \cup {e} /\ refunded' = refunded
  BY <1>0 DEF CommitExport
<1>4. e \notin refunded
  BY <1>1 DEF Backed, Opened
<1>5. balance' = [balance EXCEPT ![BuyerOf[e]] = balance[BuyerOf[e]] - Price[e]]
  BY <1>2, <1>3
<1>6. EscrowOf(e) = "none"
  BY <1>1 DEF EscrowOf
<1>7. [x \in Exports |-> EscrowOf(x)]' = [[x \in Exports |-> EscrowOf(x)] EXCEPT ![e] = "held"]
  <2>1. EscrowOf(e)' = "held"
    BY <1>1, <1>3, <1>4 DEF EscrowOf, TypeOK
  <2>2. \A x \in Exports : x # e => EscrowOf(x)' = EscrowOf(x)
    BY <1>1, <1>3 DEF EscrowOf, TypeOK
  <2> QED
    BY <2>1, <2>2
<1>8. Ledger!Hold(e)
  BY <1>1, <1>2, <1>5, <1>6, <1>7 DEF Ledger!Hold
<1> QED
  BY <1>0, <1>8

(* A B2B export is opened and costs nothing. *)
LEMMA B2BOpens ==
    ASSUME TypeOK, Backed, NEW r \in Requests, NEW e \in Exports, CreateB2BExport(r, e)
    PROVE  Ledger!Open(e)
<1>1. /\ status[e] = "NONE" /\ status' = [status EXCEPT ![e] = "PENDING"]
      /\ UNCHANGED <<balance, escrowed, refunded>>
  BY DEF CreateB2BExport
<1>2. e \notin escrowed /\ e \notin refunded
  BY <1>1 DEF Backed, Opened
<1>3. EscrowOf(e) = "none" /\ EscrowOf(e)' = "unpaid"
  BY <1>1, <1>2 DEF EscrowOf, TypeOK
<1>4. \A x \in Exports : x # e => EscrowOf(x)' = EscrowOf(x)
  BY <1>1 DEF EscrowOf, TypeOK
<1>5. [x \in Exports |-> EscrowOf(x)]' = [[x \in Exports |-> EscrowOf(x)] EXCEPT ![e] = "unpaid"]
  BY <1>3, <1>4
<1> QED
  BY <1>1, <1>3, <1>5 DEF Ledger!Open

(* The COMMIT of a refunding transaction returns what it has added. *)
LEMMA RefundsReturn ==
    ASSUME TypeOK, PaidInv, Backed, ViewInv, NEW p \in Proc, CommitRefunds(p)
    PROVE  Ledger!Return(paid[p])
<1>1. \A e \in paid[p] : e \in Exports /\ Opened(e) /\ e \notin refunded
  BY DEF TypeOK, PaidInv, Backed
<1>2. \A e \in paid[p] : EscrowOf(e) \in {"held", "unpaid"}
  BY <1>1 DEF EscrowOf, Opened
<1>3. balance' = [b \in Buyers |-> balance[b] + Ledger!Owed(b, paid[p])]
  <2> SUFFICES ASSUME NEW b \in Buyers
               PROVE  (IF userLock[b] = p THEN view[p][b] ELSE balance[b])
                         = balance[b] + Ledger!Owed(b, paid[p])
    BY DEF CommitRefunds
  <2>1. CASE userLock[b] = p
    BY <2>1 DEF ViewInv
  <2>2. CASE userLock[b] # p
    <3>1. \A e \in paid[p] : BuyerOf[e] # b
      BY <2>2 DEF ViewInv
    <3>2. Ledger!Owed(b, paid[p]) = 0 /\ balance[b] \in Nat
      BY <3>1, UnitsOfNone DEF TypeOK
    <3> QED
      BY <2>2, <3>2
  <2> QED
    BY <2>1, <2>2
<1>4. ASSUME NEW e \in Exports
      PROVE  EscrowOf(e)' = IF e \in paid[p] THEN "returned" ELSE EscrowOf(e)
  <2>1. Opened(e) <=> status'[e] # "NONE"
    BY DEF CommitRefunds, Backed, Opened
  <2>2. refunded' = refunded \cup paid[p] /\ escrowed' = escrowed
    BY DEF CommitRefunds
  <2> QED
    BY <1>1, <2>1, <2>2 DEF EscrowOf, Opened
<1>5. [e \in Exports |-> EscrowOf(e)]'
         = [e \in Exports |-> IF e \in paid[p] THEN "returned"
                              ELSE [x \in Exports |-> EscrowOf(x)][e]]
  BY <1>4
<1> QED
  BY <1>1, <1>2, <1>3, <1>5 DEF Ledger!Return

(* Every step of the escrow is a step of the ledger or moves nothing of it. *)
LEMMA StepMaps ==
    TypeOK /\ JobInv /\ DebitIsFresh /\ PaidInv /\ Backed /\ FreshId /\ ViewInv /\ [Next]_vars => [Ledger!Next]_(Ledger!vars)
<1> SUFFICES ASSUME TypeOK, JobInv, DebitIsFresh, PaidInv, Backed, FreshId, ViewInv, [Next]_vars PROVE [Ledger!Next]_(Ledger!vars)
  OBVIOUS
<1>1. ASSUME NEW r \in Requests, NEW e \in Exports, VerifyBuyer(r, e) PROVE [Ledger!Next]_(Ledger!vars)
  BY <1>1, LedgerStutters DEF VerifyBuyer, rows
<1>2. ASSUME NEW r \in Requests, NEW e \in Exports, CreateB2BExport(r, e) PROVE [Ledger!Next]_(Ledger!vars)
  BY <1>2, B2BOpens DEF Ledger!Next
<1>3. ASSUME NEW r \in Requests, LockBuyer(r) PROVE [Ledger!Next]_(Ledger!vars)
  BY <1>3, LedgerStutters DEF LockBuyer, rows
<1>4. ASSUME NEW r \in Requests, CommitExport(r) PROVE [Ledger!Next]_(Ledger!vars)
  <2>1. job[r] \in Exports
    BY <1>4 DEF CommitExport, JobInv, Proc
  <2> QED
    BY <1>4, <2>1, PurchaseHolds DEF Ledger!Next
<1>5. ASSUME NEW r \in Requests, DispatchExport(r) PROVE [Ledger!Next]_(Ledger!vars)
  BY <1>5, LedgerStutters DEF DispatchExport, rows
<1>6. ASSUME NEW w \in Workers, NEW m \in queue, StartTask(w, m) PROVE [Ledger!Next]_(Ledger!vars)
  <2>1. m.export \in Exports /\ Opened(m.export)
    BY <1>6 DEF StartTask, Backed, TypeOK, Message, Running, Stages, Proc
  <2>2. \A e \in Exports : status'[e] = "NONE" <=> status[e] = "NONE"
    BY <1>6, <2>1 DEF StartTask, SetStatus, Opened, TypeOK
  <2> QED
    BY <1>6, <2>2, LedgerStutters DEF StartTask
<1>7. ASSUME NEW w \in Workers, StageDone(w) PROVE [Ledger!Next]_(Ledger!vars)
  BY <1>7, LedgerStutters DEF StageDone, rows
<1>8. ASSUME NEW w \in Workers, StageFailed(w) PROVE [Ledger!Next]_(Ledger!vars)
  <2>1. job[w] \in Exports /\ Opened(job[w])
    BY <1>8 DEF StageFailed, JobInv, Backed, TypeOK, Message, Running, Stages, Proc
  <2>2. \A e \in Exports : status'[e] = "NONE" <=> status[e] = "NONE"
    BY <1>8, <2>1 DEF StageFailed, SetStatus, Opened, TypeOK
  <2> QED
    BY <1>8, <2>2, LedgerStutters DEF StageFailed
<1>9. ASSUME NEW w \in Workers, FinalizeExport(w) PROVE [Ledger!Next]_(Ledger!vars)
  <2>1. job[w] \in Exports /\ Opened(job[w])
    BY <1>9 DEF FinalizeExport, JobInv, Backed, TypeOK, Message, Running, Stages, Proc
  <2>2. \A e \in Exports : status'[e] = "NONE" <=> status[e] = "NONE"
    BY <1>9, <2>1 DEF FinalizeExport, SetStatus, Opened, TypeOK
  <2> QED
    BY <1>9, <2>2, LedgerStutters DEF FinalizeExport
<1>10. ASSUME NEW w \in Workers, TaskRaises(w) PROVE [Ledger!Next]_(Ledger!vars)
  BY <1>10, LedgerStutters DEF TaskRaises, rows
<1>11. ASSUME NEW w \in Workers, TaskReturns(w) PROVE [Ledger!Next]_(Ledger!vars)
  BY <1>11, LedgerStutters DEF TaskReturns, rows
<1>12. ASSUME NEW w \in Workers, MarkFailed(w) PROVE [Ledger!Next]_(Ledger!vars)
  <2>1. job[w] \in Exports /\ Opened(job[w])
    BY <1>12 DEF MarkFailed, JobInv, Backed, TypeOK, Message, Running, Stages, Proc
  <2>2. \A e \in Exports : status'[e] = "NONE" <=> status[e] = "NONE"
    BY <1>12, <2>1 DEF MarkFailed, SetStatus, Opened, TypeOK
  <2> QED
    BY <1>12, <2>2, LedgerStutters DEF MarkFailed
<1>13. ASSUME NEW w \in Workers, SkipMark(w) PROVE [Ledger!Next]_(Ledger!vars)
  BY <1>13, LedgerStutters DEF SkipMark, rows
<1>14. ASSUME NEW w \in Workers, LockFailed(w) PROVE [Ledger!Next]_(Ledger!vars)
  BY <1>14, LedgerStutters DEF LockFailed, rows
<1>15. ASSUME NEW w \in Workers, CreditBuyer(w, "commit") PROVE [Ledger!Next]_(Ledger!vars)
  BY <1>15, LedgerStutters DEF CreditBuyer, rows
<1>16. ASSUME NEW w \in Workers, CommitFailed(w) PROVE [Ledger!Next]_(Ledger!vars)
  <2>1. w \in Proc /\ CommitRefunds(w) /\ paid[w] \in SUBSET Exports
    BY <1>16 DEF CommitFailed, TypeOK, Proc
  <2> QED
    BY <2>1, RefundsReturn DEF Ledger!Next
<1>17. ASSUME NEW w \in Workers, HandlerLost(w) PROVE [Ledger!Next]_(Ledger!vars)
  BY <1>17, LedgerStutters DEF HandlerLost, rows
<1>18. ASSUME NEW w \in Workers, Reraise(w) PROVE [Ledger!Next]_(Ledger!vars)
  BY <1>18, LedgerStutters DEF Reraise, rows
<1>19. ASSUME NEW w \in Workers, CrashWorker(w) PROVE [Ledger!Next]_(Ledger!vars)
  BY <1>19, LedgerStutters DEF CrashWorker, rows
<1>20. ASSUME NEW h \in Hooks, NEW e \in Exports, LoadExport(h, e) PROVE [Ledger!Next]_(Ledger!vars)
  BY <1>20, LedgerStutters DEF LoadExport, rows
<1>21. ASSUME NEW h \in Hooks, ConfirmDelivery(h) PROVE [Ledger!Next]_(Ledger!vars)
  <2>1. job[h] \in Exports /\ Opened(job[h])
    BY <1>21 DEF ConfirmDelivery, JobInv, Backed, TypeOK, Message, Running, Stages, Proc
  <2>2. \A e \in Exports : status'[e] = "NONE" <=> status[e] = "NONE"
    BY <1>21, <2>1 DEF ConfirmDelivery, SetStatus, Opened, TypeOK
  <2> QED
    BY <1>21, <2>2, LedgerStutters DEF ConfirmDelivery
<1>22. ASSUME NEW x \in Withdrawals, NEW D \in SUBSET Datasets, SelectExports(x, D) PROVE [Ledger!Next]_(Ledger!vars)
  BY <1>22, LedgerStutters DEF SelectExports, rows
<1>23. ASSUME NEW x \in Withdrawals, NEW e \in Exports, BlockExport(x, e) PROVE [Ledger!Next]_(Ledger!vars)
  BY <1>23, LedgerStutters DEF BlockExport, rows
<1>24. ASSUME NEW x \in Withdrawals, CreditBuyer(x, "block") PROVE [Ledger!Next]_(Ledger!vars)
  BY <1>24, LedgerStutters DEF CreditBuyer, rows
<1>25. ASSUME NEW x \in Withdrawals, CommitWithdrawal(x) PROVE [Ledger!Next]_(Ledger!vars)
  <2>1. x \in Proc /\ CommitRefunds(x) /\ paid[x] \in SUBSET Exports
    BY <1>25 DEF CommitWithdrawal, TypeOK, Proc
  <2> QED
    BY <2>1, RefundsReturn DEF Ledger!Next
<1>26. ASSUME NEW p \in Proc, Abandon(p) PROVE [Ledger!Next]_(Ledger!vars)
  BY <1>26, LedgerStutters DEF Abandon, rows
<1>27. CASE UNCHANGED vars
  BY <1>27, LedgerStutters DEF vars, rows
<1> QED
  BY <1>1, <1>2, <1>3, <1>4, <1>5, <1>6, <1>7, <1>8, <1>9, <1>10, <1>11, <1>12, <1>13, <1>14,
     <1>15, <1>16, <1>17, <1>18, <1>19, <1>20, <1>21, <1>22, <1>23, <1>24, <1>25, <1>26, <1>27
     DEF Next, RequestStep, TaskStep, HookStep, WithdrawStep

(* The initial state satisfies what the mapping needs. *)
LEMMA InitLedgerInv == Init => LedgerInv
<1> SUFFICES ASSUME Init PROVE LedgerInv
  OBVIOUS
<1>1. Backed /\ FreshId /\ PaidOnce
  BY DEF Init, Backed, FreshId, PaidOnce, Opened, Proc
<1>2. HolderInv
  BY EscrowAssumption DEF Init, HolderInv
<1>3. ViewInv
  <2> SUFFICES ASSUME NEW p \in Proc, NEW b \in Buyers
               PROVE  /\ IsFiniteSet(Ledger!Units(b, paid[p]))
                      /\ userLock[b] # p /\ \A e \in paid[p] : BuyerOf[e] # b
    BY DEF ViewInv
  <2>1. paid[p] = {} /\ userLock[b] # p
    BY EscrowAssumption DEF Init
  <2> QED
    BY <2>1, UnitsOfNone
<1> QED
  BY <1>1, <1>2, <1>3 DEF LedgerInv

(* The initial state is an initial state of the ledger. *)
LEMMA InitMaps == Init => Ledger!Init
<1> SUFFICES ASSUME Init PROVE Ledger!Init
  OBVIOUS
<1>1. \A e \in Exports : EscrowOf(e) = "none"
  BY DEF Init, EscrowOf
<1> QED
  BY <1>1 DEF Init, Ledger!Init

(* Every step preserves it. *)
LEMMA StepLedgerInv == IInv /\ LedgerInv /\ [Next]_vars => LedgerInv'
  BY BackedStep, FreshIdStep, PaidOnceStep, HolderStep, ViewStep DEF IInv, LedgerInv

(* ExportEscrow implements EscrowLedger for every set of exports, buyers and *)
(* sessions: whatever purchases, failures, redeliveries and withdrawals      *)
(* interleave, credit is taken once per export from enough of it, comes back *)
(* once, and no concurrent commit is lost (billing.py:54 and :107).          *)
THEOREM LedgerIsKept == Spec => ImplementsLedger
<1>1. Init => Ledger!Init
  BY InitMaps
<1>2. IInv /\ LedgerInv /\ [Next]_vars => [Ledger!Next]_(Ledger!vars)
  BY StepMaps DEF IInv, LedgerInv
<1>3. Spec => [](IInv /\ LedgerInv)
  BY InitLedgerInv, StepLedgerInv, Inductive, PTL DEF Spec
<1> QED
  BY <1>1, <1>2, <1>3, PTL DEF Spec, ImplementsLedger, Ledger!Spec
===============================================================================
