---------------------------- MODULE ExportEscrow ----------------------------
(***************************************************************************)
(* The money side of selling a dataset: buyer credit, export rows, the     *)
(* escrow taken by app/services/billing.py and given back by               *)
(* refund_escrow, the Celery export pipeline of app/workers/tasks.py, the  *)
(* buyer's delivery webhook and the consent withdrawal that blocks         *)
(* exports.                                                                *)
(*                                                                         *)
(* Every process below is one database session.  SELECT ... FOR UPDATE     *)
(* takes a row lock that is kept to the commit; a plain SELECT reads the   *)
(* committed row and may be stale when its value is used.  What a          *)
(* transaction has written but not committed is in its local variables     *)
(* (view, blocked, paid).  A statement that writes one row and commits at  *)
(* once is one action, guarded by the row being unlocked.                  *)
(***************************************************************************)
EXTENDS Naturals

CONSTANTS
    Exports,      \* ids of the export rows that may be created
    Buyers,
    Datasets,
    BuyerOf,      \* Export.buyer_id
    DatasetOf,    \* Export.dataset_id
    Price,        \* Export.price_usd, copied from the dataset at creation
    Credit,       \* User.credit_balance_usd before the first export
    Requests,     \* API sessions that create exports
    Workers,      \* Celery worker processes
    Hooks,        \* API sessions serving the buyer's delivery webhook
    Withdrawals,  \* API sessions serving a consent withdrawal
    MaxRetries,   \* max_retries of export_dataset_task
    None

Proc == Requests \cup Workers \cup Hooks \cup Withdrawals

ASSUME EscrowAssumption ==
    /\ BuyerOf \in [Exports -> Buyers]
    /\ DatasetOf \in [Exports -> Datasets]
    /\ Price \in [Exports -> Nat]
    /\ Credit \in [Buyers -> Nat]
    /\ MaxRetries \in Nat
    /\ None \notin Proc \cup Exports
    /\ Requests \cap (Workers \cup Hooks \cup Withdrawals) = {}
    /\ Workers \cap (Hooks \cup Withdrawals) = {}
    /\ Hooks \cap Withdrawals = {}

VARIABLES
    \* committed rows
    balance,      \* User.credit_balance_usd
    sold,         \* datasets whose status is SOLD; the others are FOR_SALE
    status,       \* Export.status, "NONE" while the row does not exist
    escrowed,     \* exports whose price was deducted when they were created
    refunded,     \* exports with an EXPORT_ESCROW_REFUNDED row in audit_logs
    credits,      \* history: how many committed credits an export caused
    \* row locks: the session that holds FOR UPDATE, or None
    exportLock, userLock,
    \* the broker
    queue,        \* unacknowledged messages of export_dataset_task
    \* sessions
    pc,           \* where the session is
    job,          \* the export it is working on
    tries,        \* request.retries of the running task
    seen,         \* the status of the Export object cached by the session
    todo,         \* withdrawal: exports still to be blocked
    blocked,      \* withdrawal: exports set to BLOCKED, uncommitted
    paid,         \* audit rows EXPORT_ESCROW_REFUNDED added, uncommitted
    view          \* balances as the transaction sees them

rows == <<balance, sold, status, escrowed, refunded, credits>>
locks == <<exportLock, userLock>>
locals == <<job, tries, seen, todo, blocked, paid, view>>
vars == <<rows, locks, queue, pc, locals>>

Status == {"NONE", "PENDING", "PROCESSING", "COMPLETED", "FAILED", "BLOCKED"}
Live == {"PENDING", "PROCESSING"}

\* The stages of _export_async that have an exception handler of their own.
Stages == {"watermarking", "packaging", "transferring"}
NextStage(s) ==
    CASE s = "watermarking" -> "packaging"
      [] s = "packaging" -> "transferring"
      [] s = "transferring" -> "finalize"

Running == Stages \cup {"finalize", "audit"}     \* inside the task's try block
Refunding == {"refund", "credit", "commit"}
PC == Running \cup Refunding \cup
      {"idle", "lock", "debit", "dispatch", "failing", "reraise", "confirm", "block"}

Message == [export : Exports, retries : 0..MaxRetries]

TypeOK ==
    /\ balance \in [Buyers -> Nat]
    /\ sold \in SUBSET Datasets
    /\ status \in [Exports -> Status]
    /\ escrowed \in SUBSET Exports
    /\ refunded \in SUBSET Exports
    /\ credits \in [Exports -> Nat]
    /\ exportLock \in [Exports -> Proc \cup {None}]
    /\ userLock \in [Buyers -> Proc \cup {None}]
    /\ queue \in SUBSET Message
    /\ pc \in [Proc -> PC]
    /\ job \in [Proc -> Exports \cup {None}]
    /\ tries \in [Proc -> 0..MaxRetries]
    /\ seen \in [Proc -> Status]
    /\ todo \in [Proc -> SUBSET Exports]
    /\ blocked \in [Proc -> SUBSET Exports]
    /\ paid \in [Proc -> SUBSET Exports]
    /\ view \in [Proc -> [Buyers -> Nat]]

Init ==
    /\ balance = Credit
    /\ sold = {}
    /\ status = [e \in Exports |-> "NONE"]
    /\ escrowed = {}
    /\ refunded = {}
    /\ credits = [e \in Exports |-> 0]
    /\ exportLock = [e \in Exports |-> None]
    /\ userLock = [b \in Buyers |-> None]
    /\ queue = {}
    /\ pc = [p \in Proc |-> "idle"]
    /\ job = [p \in Proc |-> None]
    /\ tries = [p \in Proc |-> 0]
    /\ seen = [p \in Proc |-> "NONE"]
    /\ todo = [p \in Proc |-> {}]
    /\ blocked = [p \in Proc |-> {}]
    /\ paid = [p \in Proc |-> {}]
    /\ view = [p \in Proc |-> [b \in Buyers |-> 0]]

-----------------------------------------------------------------------------
(* Sessions, transactions and row locks.                                   *)

Goto(p, label) == pc' = [pc EXCEPT ![p] = label]

Unlocked(e) == exportLock[e] = None

\* SELECT ... FOR UPDATE of a user row: p waits unless it holds it already.
UserRowFreeUnlocked(b, p) == TRUE                 \* bug: a plain SELECT
UserRowFree(b, p) == userLock[b] \in {None, p}

\* An UPDATE of one export row committed on its own.
SetStatus(e, s) ==
    /\ Unlocked(e)
    /\ status' = [status EXCEPT ![e] = s]

\* COMMIT and ROLLBACK release every row lock of the transaction.
Release(p) ==
    /\ exportLock' = [e \in Exports |-> IF exportLock[e] = p THEN None ELSE exportLock[e]]
    /\ userLock' = [b \in Buyers |-> IF userLock[b] = p THEN None ELSE userLock[b]]

\* What a transaction wrote and did not commit is gone when it ends.
Discard(p) ==
    /\ blocked' = [blocked EXCEPT ![p] = {}]
    /\ paid' = [paid EXCEPT ![p] = {}]
    /\ view' = [view EXCEPT ![p] = [b \in Buyers |-> 0]]

\* The session ends and its objects with it.
Close(p) ==
    /\ job' = [job EXCEPT ![p] = None]
    /\ tries' = [tries EXCEPT ![p] = 0]
    /\ seen' = [seen EXCEPT ![p] = "NONE"]
    /\ todo' = [todo EXCEPT ![p] = {}]
    /\ Discard(p)
    /\ Goto(p, "idle")

\* COMMIT of a transaction that blocked and refunded exports.
CommitRefunds(p) ==
    /\ status' = [e \in Exports |-> IF e \in blocked[p] THEN "BLOCKED" ELSE status[e]]
    /\ balance' = [b \in Buyers |-> IF userLock[b] = p THEN view[p][b] ELSE balance[b]]
    /\ refunded' = refunded \cup paid[p]
    /\ credits' = [e \in Exports |-> IF e \in paid[p] THEN credits[e] + 1 ELSE credits[e]]
    /\ Release(p)
    /\ UNCHANGED <<sold, escrowed>>

-----------------------------------------------------------------------------
(* initiate_export: take the price from the buyer's credit, insert the row. *)

Affordable(b, e) == balance[b] >= Price[e]

\* verify_buyer_ready and the pricing query: unlocked reads, 402 if they fail.
VerifyBuyer(r, e) ==
    /\ pc[r] = "idle"
    /\ status[e] = "NONE"
    /\ \A q \in Requests : job[q] # e          \* uuid4: a fresh id
    /\ balance[BuyerOf[e]] > 0
    /\ DatasetOf[e] \notin sold
    /\ Goto(r, "lock")
    /\ job' = [job EXCEPT ![r] = e]
    /\ UNCHANGED <<rows, locks, queue, tries, seen, todo, blocked, paid, view>>

\* SELECT the buyer FOR UPDATE and compare the credit with the price.
LockBuyer(r) ==
    LET b == BuyerOf[job[r]] IN
    /\ pc[r] = "lock"
    /\ UserRowFree(b, r)
    /\ Affordable(b, job[r])
    /\ userLock' = [userLock EXCEPT ![b] = r]
    /\ view' = [view EXCEPT ![r][b] = balance[b]]
    /\ Goto(r, "debit")
    /\ UNCHANGED <<rows, exportLock, queue, job, tries, seen, todo, blocked, paid>>

\* Deduct, insert the PENDING export, commit.
CommitExport(r) ==
    LET e == job[r]
        b == BuyerOf[e] IN
    /\ pc[r] = "debit"
    /\ balance' = [balance EXCEPT ![b] = view[r][b] - Price[e]]
    /\ status' = [status EXCEPT ![e] = "PENDING"]
    /\ escrowed' = escrowed \cup {e}
    /\ Release(r)
    /\ Close(r)
    /\ UNCHANGED <<sold, refunded, credits, queue>>

(* POST /b2b/export: insert the row with the dataset's price, commit, then  *)
(* send the task.  Nothing is deducted and the dataset's status is not read. *)
CreateB2BExport(r, e) ==
    /\ pc[r] = "idle"
    /\ status[e] = "NONE"
    /\ \A q \in Requests : job[q] # e
    /\ status' = [status EXCEPT ![e] = "PENDING"]
    /\ Goto(r, "dispatch")
    /\ job' = [job EXCEPT ![r] = e]
    /\ UNCHANGED <<balance, sold, escrowed, refunded, credits, locks, queue,
                   tries, seen, todo, blocked, paid, view>>

DispatchExport(r) ==
    /\ pc[r] = "dispatch"
    /\ queue' = queue \cup {[export |-> job[r], retries |-> 0]}
    /\ Close(r)
    /\ UNCHANGED <<rows, locks>>

-----------------------------------------------------------------------------
(* refund_escrow, in the caller's transaction.                             *)

\* Lock the export; a free export or one already refunded is left alone.
NeedsRefundTwice(e) == Price[e] > 0                        \* bug: no audit check
NeedsRefundDear(e) == Price[e] > 1 /\ e \notin refunded    \* bug: off by one
NeedsRefund(e) == Price[e] > 0 /\ e \notin refunded

\* Lock the buyer (or already hold it) and add the price and the audit row.
CreditBuyer(p, next) ==
    LET e == job[p]
        b == BuyerOf[e]
        now == IF userLock[b] = p THEN view[p][b] ELSE balance[b] IN
    /\ pc[p] = "credit"
    /\ UserRowFree(b, p)
    /\ userLock' = [userLock EXCEPT ![b] = p]
    /\ view' = [view EXCEPT ![p][b] = now + Price[e]]
    /\ paid' = [paid EXCEPT ![p] = @ \cup {e}]
    /\ Goto(p, next)
    /\ UNCHANGED <<rows, exportLock, queue, job, tries, seen, todo, blocked>>

-----------------------------------------------------------------------------
(* export_dataset_task.  Messages are acknowledged late: a message stays in *)
(* the queue while a worker runs it, so a lost worker or a lost broker      *)
(* connection delivers it again, also while it is still running.            *)

\* _export_async: lock the row, set PROCESSING whatever it was, commit.
StartTask(w, m) ==
    /\ pc[w] = "idle"
    /\ m \in queue
    /\ SetStatus(m.export, "PROCESSING")
    /\ job' = [job EXCEPT ![w] = m.export]
    /\ tries' = [tries EXCEPT ![w] = m.retries]
    /\ Goto(w, "watermarking")
    /\ UNCHANGED <<balance, sold, escrowed, refunded, credits, locks, queue,
                   seen, todo, blocked, paid, view>>

StageDone(w) ==
    /\ pc[w] \in Stages
    /\ Goto(w, NextStage(pc[w]))
    /\ UNCHANGED <<rows, locks, queue, locals>>

\* The stage's except branch: FAILED, commit, raise.
StageFailed(w) ==
    /\ pc[w] \in Stages
    /\ SetStatus(job[w], "FAILED")
    /\ Goto(w, "failing")
    /\ UNCHANGED <<balance, sold, escrowed, refunded, credits, locks, queue, locals>>

\* The session's Export object still says PROCESSING: no second look.
FinalizeExport(w) ==
    /\ pc[w] = "finalize"
    /\ SetStatus(job[w], "COMPLETED")
    /\ Goto(w, "audit")
    /\ UNCHANGED <<balance, sold, escrowed, refunded, credits, locks, queue, locals>>

\* An exception no stage handles: a query, a commit or the audit row fails.
TaskRaises(w) ==
    /\ pc[w] \in Running
    /\ Goto(w, "failing")
    /\ UNCHANGED <<rows, locks, queue, locals>>

TaskReturns(w) ==
    /\ pc[w] = "audit"
    /\ queue' = queue \ {[export |-> job[w], retries |-> tries[w]]}
    /\ Close(w)
    /\ UNCHANGED <<rows, locks>>

\* _fail_export, first transaction; it runs after every failed attempt.
MarkFailed(w) ==
    /\ pc[w] = "failing"
    /\ status[job[w]] \notin {"COMPLETED", "FAILED"}
    /\ SetStatus(job[w], "FAILED")
    /\ Goto(w, "refund")
    /\ UNCHANGED <<balance, sold, escrowed, refunded, credits, locks, queue, locals>>

SkipMark(w) ==
    /\ pc[w] = "failing"
    /\ Unlocked(job[w])
    /\ status[job[w]] \in {"COMPLETED", "FAILED"}
    /\ Goto(w, "reraise")
    /\ UNCHANGED <<rows, locks, queue, locals>>

\* _fail_export, second transaction: refund_escrow and its commit.
LockFailed(w) ==
    /\ pc[w] = "refund"
    /\ Unlocked(job[w])
    /\ exportLock' = [exportLock EXCEPT ![job[w]] = w]
    /\ Goto(w, IF NeedsRefund(job[w]) THEN "credit" ELSE "commit")
    /\ UNCHANGED <<rows, userLock, queue, locals>>

CommitFailed(w) ==
    /\ pc[w] = "commit"
    /\ CommitRefunds(w)
    /\ Discard(w)
    /\ Goto(w, "reraise")
    /\ UNCHANGED <<queue, job, tries, seen, todo>>

\* except Exception around _fail_export: rolled back and only logged.
HandlerLost(w) ==
    /\ pc[w] \in Refunding \cup {"failing"}
    /\ Release(w)
    /\ Discard(w)
    /\ Goto(w, "reraise")
    /\ UNCHANGED <<rows, queue, job, tries, seen, todo>>

\* self.retry raises MaxRetriesExceededError once the retries are used up.
CanRetry(w) == tries[w] < MaxRetries

\* The task raises: Celery sends it again, or gives up after MaxRetries.
Reraise(w) ==
    LET e == job[w]
        acked == queue \ {[export |-> e, retries |-> tries[w]]} IN
    /\ pc[w] = "reraise"
    /\ queue' = acked \cup (IF CanRetry(w)
                              THEN {[export |-> e, retries |-> tries[w] + 1]} ELSE {})
    /\ Close(w)
    /\ UNCHANGED <<rows, locks>>

\* The worker process dies: its transaction is rolled back, the message stays.
CrashWorker(w) ==
    /\ pc[w] # "idle"
    /\ Release(w)
    /\ Close(w)
    /\ UNCHANGED <<rows, queue>>

-----------------------------------------------------------------------------
(* POST /webhooks/buyer.  The handler loads the export without a lock;      *)
(* confirm_delivery then selects it FOR UPDATE in the same session, whose    *)
(* identity map returns the object already loaded with its old attributes.   *)

LoadExport(h, e) ==
    /\ pc[h] = "idle"
    /\ status[e] # "NONE"
    /\ job' = [job EXCEPT ![h] = e]
    /\ seen' = [seen EXCEPT ![h] = status[e]]
    /\ Goto(h, "confirm")
    /\ UNCHANGED <<rows, locks, queue, tries, todo, blocked, paid, view>>

\* The status guard of confirm_delivery, on the cached object.
Confirmable(h) == seen[h] \in Live

ConfirmDelivery(h) ==
    /\ pc[h] = "confirm"
    /\ Confirmable(h)
    /\ SetStatus(job[h], "COMPLETED")
    /\ sold' = sold \cup {DatasetOf[job[h]]}
    /\ Close(h)
    /\ UNCHANGED <<balance, escrowed, refunded, credits, locks, queue>>

-----------------------------------------------------------------------------
(* withdraw_consent: select the live exports of the datasets that contain   *)
(* the subject without a lock, then block and refund them in one            *)
(* transaction, one after the other.                                        *)

SelectExports(x, D) ==
    /\ pc[x] = "idle"
    /\ todo' = [todo EXCEPT ![x] = {e \in Exports : DatasetOf[e] \in D /\ status[e] \in Live}]
    /\ Goto(x, "block")
    /\ UNCHANGED <<rows, locks, queue, job, tries, seen, blocked, paid, view>>

\* BLOCKED is flushed, which locks the row, before refund_escrow reads.
BlockExport(x, e) ==
    /\ pc[x] = "block"
    /\ e \in todo[x]
    /\ Unlocked(e)
    /\ exportLock' = [exportLock EXCEPT ![e] = x]
    /\ todo' = [todo EXCEPT ![x] = @ \ {e}]
    /\ blocked' = [blocked EXCEPT ![x] = @ \cup {e}]
    /\ job' = [job EXCEPT ![x] = e]
    /\ Goto(x, IF NeedsRefund(e) THEN "credit" ELSE "block")
    /\ UNCHANGED <<rows, userLock, queue, tries, seen, paid, view>>

CommitWithdrawal(x) ==
    /\ pc[x] = "block"
    /\ todo[x] = {}
    /\ CommitRefunds(x)
    /\ Close(x)
    /\ UNCHANGED queue

-----------------------------------------------------------------------------
(* An API session ends early: 402, ValueError, a deadlock the database       *)
(* breaks, a lost connection.  Its transaction is rolled back.               *)
Abandon(p) ==
    /\ p \notin Workers
    /\ pc[p] # "idle"
    /\ Release(p)
    /\ Close(p)
    /\ UNCHANGED <<rows, queue>>

RequestStep(r) ==
    \/ \E e \in Exports : VerifyBuyer(r, e) \/ CreateB2BExport(r, e)
    \/ LockBuyer(r)
    \/ CommitExport(r)
    \/ DispatchExport(r)

TaskStep(w) ==
    \/ \E m \in queue : StartTask(w, m)
    \/ StageDone(w)
    \/ StageFailed(w)
    \/ FinalizeExport(w)
    \/ TaskRaises(w)
    \/ TaskReturns(w)
    \/ MarkFailed(w)
    \/ SkipMark(w)
    \/ LockFailed(w)
    \/ CreditBuyer(w, "commit")
    \/ CommitFailed(w)
    \/ HandlerLost(w)
    \/ Reraise(w)
    \/ CrashWorker(w)

HookStep(h) ==
    \/ \E e \in Exports : LoadExport(h, e)
    \/ ConfirmDelivery(h)

WithdrawStep(x) ==
    \/ \E D \in SUBSET Datasets : SelectExports(x, D)
    \/ \E e \in Exports : BlockExport(x, e)
    \/ CreditBuyer(x, "block")
    \/ CommitWithdrawal(x)

Next ==
    \/ \E r \in Requests : RequestStep(r)
    \/ \E w \in Workers : TaskStep(w)
    \/ \E h \in Hooks : HookStep(h)
    \/ \E x \in Withdrawals : WithdrawStep(x)
    \/ \E p \in Proc : Abandon(p)

Spec == Init /\ [][Next]_vars
-----------------------------------------------------------------------------
(* What holds.                                                             *)

(* refund_escrow is idempotent: whichever of the pipeline's failure handler *)
(* and the withdrawals race, are redelivered or start over, the buyer is    *)
(* credited at most once for an export, and exactly when the audit row says *)
(* so (billing.py:29 "calling twice for the same export is safe").          *)
RefundOnce ==
    \A e \in Exports : credits[e] = IF e \in refunded THEN 1 ELSE 0

(* An export blocked by a withdrawal and its refund are one commit: no      *)
(* reader ever finds a priced export BLOCKED whose buyer was not repaid,    *)
(* wherever the withdrawal is interrupted (compliance.py:150).              *)
BlockedIsRefunded ==
    \A e \in Exports : status[e] = "BLOCKED" /\ Price[e] > 0 => e \in refunded

(* The credit a purchase is about to write was read under a lock nobody    *)
(* else holds: between the check of the balance and the commit no refund   *)
(* and no other purchase of the buyer moves it (billing.py:107, "to        *)
(* prevent concurrent double-deduction (TOCTOU)").                         *)
DebitIsFresh ==
    \A r \in Requests :
        pc[r] = "debit" =>
            LET b == BuyerOf[job[r]] IN
            view[r][b] = balance[b] /\ Affordable(b, job[r])

-----------------------------------------------------------------------------
(* What the repository says and the code does not do.                      *)

(* refund_escrow "restores the buyer's credit_balance_usd to the            *)
(* pre-deduction amount" (billing.py:27): what comes back was deducted.     *)
RefundRestores == refunded \subseteq escrowed
=============================================================================
