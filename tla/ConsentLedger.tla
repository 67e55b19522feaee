---------------------------- MODULE ConsentLedger ----------------------------
(***************************************************************************)
(* The consent ledger of one data subject: consents are recorded, expire,  *)
(* are withdrawn by concurrent requests, and the subject's data is to be   *)
(* erased a day after.  The ledger is append-only: database triggers abort *)
(* every statement that updates or deletes one of its rows.                *)
(*                                                                         *)
(* A row's created_at is taken when the session flushes, just before the   *)
(* commit that makes it visible; the clock ticks at each flush, so that a  *)
(* stamp identifies a flush and rows may become visible out of order.      *)
(***************************************************************************)
EXTENDS Integers, FiniteSets

CONSTANTS Recorders,    \* sessions of POST /consent/record
          Withdrawers,  \* withdrawal requests
          Keyed,        \* those that come with one and the same idempotency key
          MaxClock,     \* bound on the clock at which a consent is recorded
          MaxRetries    \* retries of the erasure task

ASSUME ConsentAssumption ==
  /\ Keyed \subseteq Withdrawers
  /\ MaxClock \in Nat
  /\ MaxRetries \in Nat

VARIABLES ledger,    \* the visible rows of the subject
          clock,     \* stamp of the next flush
          past,      \* stamps of the consents whose expiry has passed
          rec,       \* rec[c]: the stamp of the row c has flushed, or NoStamp
          pc,        \* pc[s]: where withdrawal s stands
          seen,      \* seen[s]: the ACTIVE rows s has selected
          stamp,     \* stamp[s]: created_at of the rows s has flushed
          key,       \* whether the idempotency key is stored
          erasure,   \* erasure[s]: the erasure task that s has scheduled
          attempts,  \* attempts[s]: how often that task has failed
          objects,   \* whether the subject's images are in the object store
          rows       \* whether the subject's annotation rows exist

vars == <<ledger, clock, past, rec, pc, seen, stamp, key, erasure, attempts,
          objects, rows>>

NoStamp == -1

Rows == [status : {"ACTIVE", "WITHDRAWN", "EXPIRED"}, stamp : Nat, of : Nat]

Consent(t) == [status |-> "ACTIVE", stamp |-> t, of |-> t]
Active     == {r \in ledger : r.status = "ACTIVE"}
Withdrawn  == {r \in ledger : r.status = "WITHDRAWN"}

TypeOK ==
  /\ ledger \subseteq Rows
  /\ clock \in Nat
  /\ past \subseteq Nat
  /\ rec \in [Recorders -> Nat \cup {NoStamp}]
  /\ pc \in [Withdrawers -> {"idle", "select", "lock", "flush", "commit",
                             "schedule", "finish", "done", "refused", "crashed"}]
  /\ seen \in [Withdrawers -> SUBSET Rows]
  /\ stamp \in [Withdrawers -> Nat]
  /\ key \in BOOLEAN
  /\ erasure \in [Withdrawers -> {"none", "queued", "running", "failed", "done"}]
  /\ attempts \in [Withdrawers -> 0 .. MaxRetries + 1]
  /\ objects \in BOOLEAN
  /\ rows \in BOOLEAN

Init ==
  /\ ledger = {}
  /\ clock = 0
  /\ past = {}
  /\ rec = [c \in Recorders |-> NoStamp]
  /\ pc = [s \in Withdrawers |-> "idle"]
  /\ seen = [s \in Withdrawers |-> {}]
  /\ stamp = [s \in Withdrawers |-> 0]
  /\ key = FALSE
  /\ erasure = [s \in Withdrawers |-> "none"]
  /\ attempts = [s \in Withdrawers |-> 0]
  /\ objects = TRUE
  /\ rows = TRUE

(***************************************************************************)
(* Row triggers of the table: an UPDATE or DELETE that touches a row is    *)
(* rolled back with its transaction.                                       *)
(***************************************************************************)
TriggerRaises(touched) == touched # {}

(***************************************************************************)
(* Recording and checking consent                                          *)
(***************************************************************************)
RecordFlush(c) ==
  /\ rec[c] = NoStamp
  /\ clock < MaxClock
  /\ rec' = [rec EXCEPT ![c] = clock]
  /\ clock' = clock + 1
  /\ UNCHANGED <<ledger, past, pc, seen, stamp, key, erasure, attempts, objects,
                 rows>>

RecordCommit(c) ==
  /\ rec[c] # NoStamp
  /\ ledger' = ledger \cup {Consent(rec[c])}
  /\ rec' = [rec EXCEPT ![c] = NoStamp]
  /\ UNCHANGED <<clock, past, pc, seen, stamp, key, erasure, attempts, objects,
                 rows>>

\* verify_consent: no withdrawal was created after the consent (only the latest
\* withdrawal is compared), and it has not expired
Verifies(r) ==
  /\ r \in Active
  /\ \A w \in Withdrawn : ~ r.stamp < w.stamp
  /\ r.stamp \notin past

ExpiryPasses(r) ==
  /\ r \in Active
  /\ r.stamp \notin past
  /\ past' = past \cup {r.stamp}
  /\ UNCHANGED <<ledger, clock, rec, pc, seen, stamp, key, erasure, attempts,
                 objects, rows>>

(***************************************************************************)
(* Withdrawing                                                             *)
(***************************************************************************)
\* A keyed request whose key is stored is answered 409; the key is stored
\* before the withdrawal begins.
Request(s) ==
  /\ pc[s] = "idle"
  /\ IF s \in Keyed /\ key
       THEN pc' = [pc EXCEPT ![s] = "refused"] /\ UNCHANGED key
       ELSE /\ pc' = [pc EXCEPT ![s] = "select"]
            /\ key' = (key \/ s \in Keyed)
  /\ UNCHANGED <<ledger, clock, past, rec, seen, stamp, erasure, attempts,
                 objects, rows>>

KeyExpires ==
  /\ key
  /\ key' = FALSE
  /\ UNCHANGED <<ledger, clock, past, rec, pc, seen, stamp, erasure, attempts,
                 objects, rows>>

\* SELECT ... WHERE status = ACTIVE FOR UPDATE: the snapshot ...
Select(s) ==
  /\ pc[s] = "select"
  /\ seen' = [seen EXCEPT ![s] = Active]
  /\ pc' = [pc EXCEPT ![s] = "lock"]
  /\ UNCHANGED <<ledger, clock, past, rec, stamp, key, erasure, attempts,
                 objects, rows>>

\* bug: a session that died keeps its row locks
HoldsRowsForever(s) == pc[s] \in {"flush", "commit", "crashed"}
HoldsRows(s) == pc[s] \in {"flush", "commit"}

\* ... and the locks, which a concurrent withdrawal of the same rows makes wait
Lock(s) ==
  /\ pc[s] = "lock"
  /\ \A u \in Withdrawers \ {s} : HoldsRows(u) => seen[u] \cap seen[s] = {}
  /\ pc' = [pc EXCEPT ![s] = "flush"]
  /\ UNCHANGED <<ledger, clock, past, rec, seen, stamp, key, erasure, attempts,
                 objects, rows>>

FlushWithdrawals(s) ==
  /\ pc[s] = "flush"
  /\ stamp' = [stamp EXCEPT ![s] = clock]
  /\ clock' = clock + 1
  /\ pc' = [pc EXCEPT ![s] = "commit"]
  /\ UNCHANGED <<ledger, past, rec, seen, key, erasure, attempts, objects, rows>>

\* bug: created_at is copied from the consent with the other columns
WithdrawalsBackdated(s) ==
  {[status |-> "WITHDRAWN", stamp |-> r.stamp, of |-> r.stamp] : r \in seen[s]}
\* one WITHDRAWN row for each ACTIVE row the session has locked
Withdrawals(s) ==
  {[status |-> "WITHDRAWN", stamp |-> stamp[s], of |-> r.stamp] : r \in seen[s]}

CommitWithdrawals(s) ==
  /\ pc[s] = "commit"
  /\ ledger' = ledger \cup Withdrawals(s)
  /\ pc' = [pc EXCEPT ![s] = "schedule"]
  /\ UNCHANGED <<clock, past, rec, seen, stamp, key, erasure, attempts, objects,
                 rows>>

\* apply_async with a countdown of a day; a broker that is down is only logged
ScheduleErasure(s) ==
  /\ pc[s] = "schedule"
  /\ \E outcome \in {"queued", "none"} :
       erasure' = [erasure EXCEPT ![s] = outcome]
  /\ pc' = [pc EXCEPT ![s] = "finish"]
  /\ UNCHANGED <<ledger, clock, past, rec, seen, stamp, key, attempts, objects,
                 rows>>

\* the second commit: annotations, exports and the audit row
Finish(s) ==
  /\ pc[s] = "finish"
  /\ pc' = [pc EXCEPT ![s] = "done"]
  /\ UNCHANGED <<ledger, clock, past, rec, seen, stamp, key, erasure, attempts,
                 objects, rows>>

\* the request dies; an open transaction is rolled back, a committed one stays
Crash(s) ==
  /\ pc[s] \notin {"idle", "done", "refused", "crashed"}
  /\ pc' = [pc EXCEPT ![s] = "crashed"]
  /\ UNCHANGED <<ledger, clock, past, rec, seen, stamp, key, erasure, attempts,
                 objects, rows>>

(***************************************************************************)
(* The erasure task                                                        *)
(***************************************************************************)
\* The images go first, and are not part of the transaction; a removal that
\* fails is ignored.
RemoveObjects(s) ==
  /\ erasure[s] = "queued"
  /\ erasure' = [erasure EXCEPT ![s] = "running"]
  /\ objects' \in {objects, objects /\ ~ rows}
  /\ UNCHANGED <<ledger, clock, past, rec, pc, seen, stamp, key, attempts, rows>>

Retries(n) == n <= MaxRetries

\* Annotation rows and ledger rows are deleted in one transaction, which the
\* trigger aborts when the subject has a ledger row.
DeleteRows(s) ==
  /\ erasure[s] = "running"
  /\ ~ TriggerRaises(ledger)
  /\ ledger' = {}
  /\ rows' = FALSE
  /\ erasure' = [erasure EXCEPT ![s] = "done"]
  /\ UNCHANGED <<clock, past, rec, pc, seen, stamp, key, attempts, objects>>

DeleteAborted(s) ==
  /\ erasure[s] = "running"
  /\ TriggerRaises(ledger)
  /\ attempts' = [attempts EXCEPT ![s] = @ + 1]
  /\ erasure' = [erasure EXCEPT ![s] =
                   IF Retries(attempts[s] + 1) THEN "queued" ELSE "failed"]
  /\ UNCHANGED <<ledger, clock, past, rec, pc, seen, stamp, key, objects, rows>>

\* the worker dies and the message, acknowledged late, is delivered again
EraserDies(s) ==
  /\ erasure[s] = "running"
  /\ erasure' = [erasure EXCEPT ![s] = "queued"]
  /\ UNCHANGED <<ledger, clock, past, rec, pc, seen, stamp, key, attempts,
                 objects, rows>>

(***************************************************************************)
(* The nightly expiry task: one UPDATE of every past consent               *)
(***************************************************************************)
PastConsents == {r \in Active : r.stamp \in past}

ExpireConsents ==
  /\ ledger' = IF TriggerRaises(PastConsents) THEN ledger
               ELSE (ledger \ PastConsents)
                      \cup {[r EXCEPT !.status = "EXPIRED"] : r \in PastConsents}
  /\ UNCHANGED <<clock, past, rec, pc, seen, stamp, key, erasure, attempts,
                 objects, rows>>

-----------------------------------------------------------------------------
Withdraw(s) == \/ Request(s) \/ Select(s) \/ Lock(s) \/ FlushWithdrawals(s)
               \/ CommitWithdrawals(s) \/ ScheduleErasure(s) \/ Finish(s)

Erase(s) == RemoveObjects(s) \/ DeleteRows(s) \/ DeleteAborted(s)

Next ==
  \/ \E c \in Recorders : RecordFlush(c) \/ RecordCommit(c)
  \/ \E r \in ledger : ExpiryPasses(r)
  \/ \E s \in Withdrawers : Withdraw(s) \/ Crash(s)
  \/ \E s \in Withdrawers : Erase(s) \/ EraserDies(s)
  \/ KeyExpires
  \/ ExpireConsents

Spec == Init /\ [][Next]_vars

\* The server runs every request it has accepted to its end; nothing obliges a
\* client to send one, a session to crash or a worker to die.
Served(s) == Select(s) \/ Lock(s) \/ FlushWithdrawals(s) \/ CommitWithdrawals(s)
               \/ ScheduleErasure(s) \/ Finish(s)
FairSpec == Spec /\ \A s \in Withdrawers : WF_vars(Served(s))

-----------------------------------------------------------------------------
\* No row of the ledger ever changes or disappears, whatever the erasure and
\* the expiry tasks attempt (migration 0002, app/models/consent.py).
AppendOnly == [][ledger \subseteq ledger']_ledger

\* A consent that a committed withdrawal has selected never verifies again, in
\* whatever order the rows were stamped and became visible (verify_consent).
Committed(s) == pc[s] \in {"schedule", "finish", "done"}
WithdrawnStaysInvalid ==
  \A s \in Withdrawers : Committed(s) =>
    \A r \in seen[s] : ~ Verifies(r)

\* A withdrawal that waits for the row locks of another gets them, even when
\* the other dies while it holds them (withdraw_consent, FOR UPDATE).
LockGranted ==
  \A s \in Withdrawers : pc[s] = "lock" ~> pc[s] # "lock"
=============================================================================
