------------------------- MODULE IngestionPipeline -------------------------
(***************************************************************************)
(* How a batch of recorded events becomes annotations.  A node uploads the *)
(* batch (app/services/ingestion), or a field script writes it, and a      *)
(* Celery task labels it (app/workers/tasks).  Tasks are acknowledged      *)
(* after they ran, so the broker delivers one again when its worker dies,  *)
(* and one that raises is tried again.  A periodic job dispatches the      *)
(* batches that stay PENDING.                                              *)
(***************************************************************************)
EXTENDS Integers, FiniteSets

CONSTANTS Batches,     \* the batch_id that a client gives its batch
          Uploads,     \* requests to POST /ingest/batch; the id of the row
                       \* an upload inserts is named after it
          Field,       \* batches that a field script may write
          Workers,
          MaxRetries,  \* 3 in the code
          MaxCopies,   \* bound on equal messages in the queue
          MaxDeaths,   \* bound on workers that die
          None

Owners == Uploads \cup {"script"}   \* who inserted a row, which names its id

ASSUME IngestionAssumption ==
  /\ Field \subseteq Batches
  /\ MaxRetries \in Nat /\ MaxCopies \in Nat \ {0} /\ MaxDeaths \in Nat
  /\ None \notin Batches \cup Owners
  /\ "script" \notin Uploads

VARIABLES batch,     \* the row of each batch_id, or NoRow
          aged,      \* batches whose row is older than the threshold
          labelled,  \* how often the events of a batch became annotations
          upload,    \* the uploads
          script,    \* the field script of each batch
          queue,     \* how many copies of each task wait in the broker
          worker,    \* what each worker does
          stuck,     \* what the reconciliation has still to dispatch
          deaths

vars == <<batch, aged, labelled, upload, script, queue, worker, stuck, deaths>>

NoRow == [status |-> "NONE", id |-> None]
Rows  == [status : {"PENDING", "INGESTED", "REJECTED"}, id : Owners]

\* auto_label(x) is called with x = str(batch.id) or x = batch.batch_id.
Tasks == [ref : {"id", "batch_id"}, batch : Batches, tries : 0 .. MaxRetries]
Task(ref, b) == [ref |-> ref, batch |-> b, tries |-> 0]

Kinds == {"fits", "too_big", "bad_sum"}
Idle  == [pc |-> "idle"]

TypeOK ==
  /\ batch \in [Batches -> Rows \cup {NoRow}]
  /\ aged \subseteq Batches
  /\ labelled \in [Batches -> Nat]
  /\ upload \in [Uploads -> {Idle} \cup
       [pc : {"insert", "dispatch"}, batch : Batches, kind : Kinds] \cup
       [pc : {"answered"}, batch : Batches, row : Rows] \cup
       [pc : {"failed"}]]
  /\ script \in [Field -> {"new", "written", "failed", "sent"}]
  /\ queue \in [Tasks -> 0 .. MaxCopies]
  /\ worker \in [Workers -> {Idle} \cup
       [pc : {"taken", "label", "report", "raised"}, task : Tasks]]
  /\ stuck \subseteq Batches
  /\ deaths \in 0 .. MaxDeaths

Init ==
  /\ batch = [b \in Batches |-> NoRow]
  /\ aged = {}
  /\ labelled = [b \in Batches |-> 0]
  /\ upload = [u \in Uploads |-> Idle]
  /\ script = [b \in Field |-> "new"]
  /\ queue = [t \in Tasks |-> 0]
  /\ worker = [w \in Workers |-> Idle]
  /\ stuck = {}
  /\ deaths = 0

(***************************************************************************)
(* Uploading: receive_batch                                                *)
(***************************************************************************)
Exists(b) == batch[b] # NoRow

Answer(u, b, row) ==
  upload' = [upload EXCEPT ![u] = [pc |-> "answered", batch |-> b, row |-> row]]

Receive(u, b, kind) ==
  /\ upload[u] = Idle
  /\ IF Exists(b)
       THEN Answer(u, b, batch[b])
       ELSE upload' = [upload EXCEPT ![u] =
                         [pc |-> "insert", batch |-> b, kind |-> kind]]
  /\ UNCHANGED <<batch, aged, labelled, script, queue, worker, stuck, deaths>>

\* bug: batch_id without a unique constraint
NeverTaken(b) == FALSE
\* the unique constraint, when the row is inserted
Taken(b) == Exists(b)

Insert(u) ==
  LET b == upload[u].batch
      row == [status |-> IF upload[u].kind = "fits" THEN "PENDING" ELSE "REJECTED",
              id |-> u] IN
  /\ upload[u].pc = "insert"
  /\ IF Taken(b)
       THEN /\ upload' = [upload EXCEPT ![u] = [pc |-> "failed"]]
            /\ UNCHANGED batch
       ELSE /\ batch' = [batch EXCEPT ![b] = row]
            /\ IF row.status = "REJECTED"
                 THEN Answer(u, b, row)
                 ELSE upload' = [upload EXCEPT ![u].pc = "dispatch"]
  /\ UNCHANGED <<aged, labelled, script, queue, worker, stuck, deaths>>

\* A further copy of a task that waits MaxCopies times makes no difference.
Send(t) ==
  queue' = [queue EXCEPT ![t] = IF @ < MaxCopies THEN @ + 1 ELSE @]

\* The answer is the row as it was inserted.  A broker that is down is noted in
\* the audit log and otherwise ignored.
Dispatch(u) ==
  LET b == upload[u].batch IN
  /\ upload[u].pc = "dispatch"
  /\ Answer(u, b, [status |-> "PENDING", id |-> u])
  /\ Send(Task("id", b)) \/ UNCHANGED queue
  /\ UNCHANGED <<batch, aged, labelled, script, worker, stuck, deaths>>

\* The API process dies, or the connection is lost, before the answer.
UploadLost(u) ==
  /\ upload[u].pc \in {"insert", "dispatch"}
  /\ upload' = [upload EXCEPT ![u] = [pc |-> "failed"]]
  /\ UNCHANGED <<batch, aged, labelled, script, queue, worker, stuck, deaths>>

(***************************************************************************)
(* Field scripts: collect_field_data and process_batch                     *)
(***************************************************************************)
\* bug: a row that is there already is dispatched
WriteOutcomeAny(b) == "written"
WriteOutcome(b) == IF Exists(b) THEN "failed" ELSE "written"

ScriptWrites(b) ==
  /\ script[b] = "new"
  /\ script' = [script EXCEPT ![b] = WriteOutcome(b)]
  /\ batch' = IF Exists(b) THEN batch
              ELSE [batch EXCEPT ![b] = [status |-> "PENDING", id |-> "script"]]
  /\ UNCHANGED <<aged, labelled, upload, queue, worker, stuck, deaths>>

\* by the script, or by hand as the script prints when it cannot
ScriptDispatches(b) ==
  /\ script[b] = "written"
  /\ script' = [script EXCEPT ![b] = "sent"]
  /\ Send(Task("batch_id", b))
  /\ UNCHANGED <<batch, aged, labelled, upload, worker, stuck, deaths>>

(***************************************************************************)
(* Labelling: auto_label_task                                              *)
(***************************************************************************)
Take(w, t) ==
  /\ worker[w] = Idle
  /\ queue[t] > 0
  /\ queue' = [queue EXCEPT ![t] = @ - 1]
  /\ worker' = [worker EXCEPT ![w] = [pc |-> "taken", task |-> t]]
  /\ UNCHANGED <<batch, aged, labelled, upload, script, stuck, deaths>>

\* SELECT ... WHERE batch_id = x: no row has an id for its batch_id
Found(t) == t.ref = "batch_id" /\ Exists(t.batch)

\* FOR UPDATE
Unlocked(b) ==
  \A w \in Workers : worker[w].pc = "label" => worker[w].task.batch # b

\* bug: INGESTED is committed before the events are labelled
IngestsEarly(b) == batch' = [batch EXCEPT ![b].status = "INGESTED"]
BeginsLabelling(b) == UNCHANGED batch

Select(w) ==
  LET t == worker[w].task IN
  /\ worker[w].pc = "taken"
  /\ IF Found(t)
       THEN /\ Unlocked(t.batch)
            /\ BeginsLabelling(t.batch)
            /\ worker' = [worker EXCEPT ![w].pc = "label"]
       ELSE /\ worker' = [worker EXCEPT ![w].pc = "raised"]
            /\ UNCHANGED batch
  /\ UNCHANGED <<aged, labelled, upload, script, queue, stuck, deaths>>

\* One transaction: the status and an annotation for each event.
Commit(w) ==
  LET b == worker[w].task.batch IN
  /\ worker[w].pc = "label"
  /\ batch' = [batch EXCEPT ![b].status = "INGESTED"]
  /\ labelled' = [labelled EXCEPT ![b] = @ + 1]
  /\ worker' = [worker EXCEPT ![w].pc = "report"]
  /\ UNCHANGED <<aged, upload, script, queue, stuck, deaths>>

\* The transaction fails or the soft time limit is reached: rollback; or the
\* audit entry that reports success cannot be written.
Raises(w) ==
  /\ worker[w].pc \in {"label", "report"}
  /\ worker' = [worker EXCEPT ![w].pc = "raised"]
  /\ UNCHANGED <<batch, aged, labelled, upload, script, queue, stuck, deaths>>

\* Success is reported and the task acknowledged.
Reports(w) ==
  /\ worker[w].pc = "report"
  /\ worker' = [worker EXCEPT ![w] = Idle]
  /\ UNCHANGED <<batch, aged, labelled, upload, script, queue, stuck, deaths>>

Retry(t) == [t EXCEPT !.tries = @ + 1]

\* Any exception is retried, with nothing of the failed run remembered.
GivesUpOrRetries(w) ==
  LET t == worker[w].task IN
  /\ worker[w].pc = "raised"
  /\ IF t.tries < MaxRetries THEN Send(Retry(t)) ELSE UNCHANGED queue
  /\ worker' = [worker EXCEPT ![w] = Idle]
  /\ UNCHANGED <<batch, aged, labelled, upload, script, stuck, deaths>>

\* acks_late: the broker delivers the task again
WorkerDies(w) ==
  /\ worker[w] # Idle
  /\ deaths < MaxDeaths
  /\ deaths' = deaths + 1
  /\ Send(worker[w].task)
  /\ worker' = [worker EXCEPT ![w] = Idle]
  /\ UNCHANGED <<batch, aged, labelled, upload, script, stuck>>

(***************************************************************************)
(* Reconciliation: reconcile_stuck_batches, every five minutes             *)
(***************************************************************************)
Age(b) ==
  /\ Exists(b) /\ b \notin aged
  /\ aged' = aged \cup {b}
  /\ UNCHANGED <<batch, labelled, upload, script, queue, worker, stuck, deaths>>

\* bug: the age is compared the wrong way round
RecentlyPending(b) == batch[b].status = "PENDING" /\ b \notin aged
IsStuck(b) == batch[b].status = "PENDING" /\ b \in aged

Reconcile ==
  /\ stuck = {}
  /\ stuck' = {b \in Batches : IsStuck(b)}
  /\ stuck' # {}
  /\ UNCHANGED <<batch, aged, labelled, upload, script, queue, worker, deaths>>

Redispatch(b) ==
  /\ b \in stuck
  /\ stuck' = stuck \ {b}
  /\ Send(Task("id", b))
  /\ UNCHANGED <<batch, aged, labelled, upload, script, worker, deaths>>

RedispatchFails(b) ==
  /\ b \in stuck
  /\ stuck' = stuck \ {b}
  /\ UNCHANGED <<batch, aged, labelled, upload, script, queue, worker, deaths>>

(***************************************************************************)
(* The system                                                              *)
(***************************************************************************)
Next ==
  \/ \E u \in Uploads, b \in Batches, kind \in Kinds : Receive(u, b, kind)
  \/ \E u \in Uploads : Insert(u) \/ Dispatch(u) \/ UploadLost(u)
  \/ \E b \in Field : ScriptWrites(b) \/ ScriptDispatches(b)
  \/ \E w \in Workers, t \in Tasks : Take(w, t)
  \/ \E w \in Workers : \/ Select(w) \/ Commit(w) \/ Raises(w) \/ Reports(w)
                        \/ GivesUpOrRetries(w) \/ WorkerDies(w)
  \/ Reconcile
  \/ \E b \in Batches : Age(b) \/ Redispatch(b) \/ RedispatchFails(b)

Spec == Init /\ [][Next]_vars

\* Time passes, beat runs its job, workers finish what they took, no message
\* is overtaken for ever, and the broker is not down for every dispatch.
Fairness ==
  /\ WF_vars(Reconcile)
  /\ \A b \in Batches : WF_vars(Age(b)) /\ SF_vars(Redispatch(b))
                        /\ WF_vars(RedispatchFails(b))
  /\ \A w \in Workers : /\ WF_vars(Select(w)) /\ WF_vars(Reports(w))
                        /\ WF_vars(GivesUpOrRetries(w))
                        /\ SF_vars(Commit(w))
  /\ \A t \in Tasks : SF_vars(\E w \in Workers : Take(w, t))

FairSpec == Spec /\ Fairness

(***************************************************************************)
(* Properties                                                              *)
(***************************************************************************)
\* Uploads of one batch that are answered, racing or repeated, are all told of
\* one and the same row (receive_batch, ingestion.py:29).
OneRowPerBatch ==
  \A u, v \in Uploads :
    upload[u].pc = "answered" /\ upload[v].pc = "answered"
    /\ upload[u].batch = upload[v].batch
      => upload[u].row.id = upload[v].row.id

\* Rows, messages and annotations fit together at every moment.
BatchInv == TypeOK /\ OneRowPerBatch

\* A batch is INGESTED exactly when its events have become annotations, whatever
\* fails or dies between the two (_auto_label_async commits both together).
IngestedWithAnnotations ==
  \A b \in Batches : batch[b].status = "INGESTED" <=> labelled[b] > 0

\* What was rejected is never labelled and what was ingested stays so, also with
\* repeated deliveries and with a script and uploads that use one batch_id.
OutcomeIsFinal ==
  [][\A b \in Batches : batch[b].status \in {"REJECTED", "INGESTED"}
                          => batch'[b] = batch[b]]_vars

\* No batch is forgotten: while one is PENDING a worker tries it again and
\* again, also when the broker was down or the API died before the dispatch.
Tried(b) == \E w \in Workers : worker[w].pc = "taken" /\ worker[w].task.batch = b
ReachesWorker ==
  \A b \in Batches : batch[b].status = "PENDING"
                       ~> Tried(b) \/ batch[b].status # "PENDING"
=============================================================================
