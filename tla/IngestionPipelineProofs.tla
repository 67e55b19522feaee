---------------------- MODULE IngestionPipelineProofs ----------------------
(***************************************************************************)
(* Proofs about IngestionPipeline, for any number of batches, uploads and  *)
(* workers, and of deaths and repeated deliveries.                         *)
(***************************************************************************)
EXTENDS IngestionPipeline, TLAPS

UploadStates == {Idle} \cup
  [pc : {"insert", "dispatch"}, batch : Batches, kind : Kinds] \cup
  [pc : {"answered"}, batch : Batches, row : Rows] \cup
  [pc : {"failed"}]
WorkerStates == {Idle} \cup [pc : {"taken", "label", "report", "raised"}, task : Tasks]

\* A row keeps its id, so an answer names the row for good.
AnswersFit ==
  \A u \in Uploads :
    /\ upload[u].pc = "answered" =>
         Exists(upload[u].batch) /\ batch[upload[u].batch].id = upload[u].row.id
    /\ upload[u].pc = "dispatch" =>
         Exists(upload[u].batch) /\ batch[upload[u].batch].id = u

\* What a script wrote is a row of its own, and no row of a script is refused.
ScriptRows ==
  /\ \A b \in Field : script[b] \in {"written", "sent"} => batch[b].id = "script"
  /\ \A b \in Batches : batch[b].id = "script" => batch[b].status \in {"PENDING", "INGESTED"}

\* Only a script sends a batch_id, so only its rows are ever labelled.
MayRun(t) == t.ref = "batch_id" => t.batch \in Field /\ script[t.batch] = "sent"
TasksFit ==
  /\ \A t \in Tasks : queue[t] > 0 => MayRun(t)
  /\ \A w \in Workers : worker[w] # Idle =>
       /\ MayRun(worker[w].task)
       /\ worker[w].pc \in {"label", "report"} => worker[w].task.ref = "batch_id"

IInv == TypeOK /\ AnswersFit /\ ScriptRows /\ TasksFit /\ IngestedWithAnnotations

LEMMA TypeFacts ==
  ASSUME TypeOK
  PROVE  /\ batch \in [Batches -> Rows \cup {NoRow}]
         /\ labelled \in [Batches -> Nat]
         /\ upload \in [Uploads -> UploadStates]
         /\ script \in [Field -> {"new", "written", "failed", "sent"}]
         /\ queue \in [Tasks -> 0 .. MaxCopies]
         /\ worker \in [Workers -> WorkerStates]
BY DEF TypeOK, UploadStates, WorkerStates

LEMMA InitInv == Init => IInv
<1> SUFFICES ASSUME Init PROVE IInv
  OBVIOUS
<1>1. TypeOK
  BY IngestionAssumption DEF Init, TypeOK
<1>2. AnswersFit
  BY DEF Init, AnswersFit, Idle
<1>3. ScriptRows
  BY IngestionAssumption DEF Init, ScriptRows, NoRow, Owners
<1>4. TasksFit
  BY DEF Init, TasksFit
<1>5. IngestedWithAnnotations
  BY DEF Init, IngestedWithAnnotations, NoRow
<1> QED BY <1>1, <1>2, <1>3, <1>4, <1>5 DEF IInv

-----------------------------------------------------------------------------
(***************************************************************************)
(* What rows, uploads and tasks are                                        *)
(***************************************************************************)
LEMMA RowFacts ==
  ASSUME TypeOK
  PROVE  /\ \A b \in Batches : Exists(b) => batch[b] \in Rows
         /\ \A b \in Batches : ~ Exists(b) => batch[b] = NoRow
         /\ \A u \in Uploads : upload[u].pc \in {"insert", "dispatch"} =>
              upload[u] \in [pc : {"insert", "dispatch"}, batch : Batches, kind : Kinds]
         /\ \A u \in Uploads : upload[u].pc = "answered" =>
              upload[u] \in [pc : {"answered"}, batch : Batches, row : Rows]
         /\ \A w \in Workers : worker[w] # Idle =>
              worker[w] \in [pc : {"taken", "label", "report", "raised"}, task : Tasks]
<1>1. \A b \in Batches : (Exists(b) => batch[b] \in Rows) /\ (~ Exists(b) => batch[b] = NoRow)
  BY TypeFacts DEF Exists
<1>2. \A u \in Uploads :
        /\ upload[u].pc \in {"insert", "dispatch"} =>
             upload[u] \in [pc : {"insert", "dispatch"}, batch : Batches, kind : Kinds]
        /\ upload[u].pc = "answered" =>
             upload[u] \in [pc : {"answered"}, batch : Batches, row : Rows]
  BY TypeFacts DEF UploadStates, Idle
<1>3. \A w \in Workers : worker[w] # Idle =>
        worker[w] \in [pc : {"taken", "label", "report", "raised"}, task : Tasks]
  BY TypeFacts DEF WorkerStates
<1> QED BY <1>1, <1>2, <1>3

\* A task that is sent waits, and nothing else changes in the queue.
LEMMA SendFacts ==
  ASSUME TypeOK, NEW t \in Tasks, Send(t)
  PROVE  /\ queue' \in [Tasks -> 0 .. MaxCopies]
         /\ \A s \in Tasks : queue'[s] > 0 => queue[s] > 0 \/ s = t
<1>1. queue' = [queue EXCEPT ![t] = IF queue[t] < MaxCopies THEN queue[t] + 1 ELSE queue[t]]
  BY DEF Send
<1>2. queue \in [Tasks -> 0 .. MaxCopies] /\ MaxCopies \in Nat
  BY TypeFacts, IngestionAssumption
<1>3. queue' \in [Tasks -> 0 .. MaxCopies]
  BY <1>1, <1>2
<1>4. \A s \in Tasks : s # t => queue'[s] = queue[s]
  BY <1>1, <1>2
<1> QED BY <1>3, <1>4

\* Steps of the broker and the workers that leave the rows alone.
LEMMA RowsKept ==
  ASSUME IInv, UNCHANGED <<batch, labelled, upload, script>>
  PROVE  AnswersFit' /\ ScriptRows' /\ IngestedWithAnnotations'
BY DEF IInv, AnswersFit, ScriptRows, IngestedWithAnnotations, Exists

LEMMA TasksKept ==
  ASSUME IInv, UNCHANGED <<script, queue, worker>>
  PROVE  TasksFit'
BY DEF IInv, TasksFit, MayRun

-----------------------------------------------------------------------------
(***************************************************************************)
(* Uploads and scripts                                                     *)
(***************************************************************************)
LEMMA ReceiveStep ==
  ASSUME NEW u \in Uploads, NEW b \in Batches, NEW kind \in Kinds
  PROVE  IInv /\ Receive(u, b, kind) => IInv'
<1> SUFFICES ASSUME IInv, Receive(u, b, kind) PROVE IInv'
  OBVIOUS
<1>1. UNCHANGED <<batch, aged, labelled, script, queue, worker, stuck, deaths>>
  BY DEF Receive
<1>2. \/ /\ Exists(b)
         /\ upload' = [upload EXCEPT ![u] = [pc |-> "answered", batch |-> b, row |-> batch[b]]]
      \/ upload' = [upload EXCEPT ![u] = [pc |-> "insert", batch |-> b, kind |-> kind]]
  BY DEF Receive, Answer
<1>3. upload' \in [Uploads -> UploadStates]
  BY <1>2, TypeFacts, RowFacts DEF IInv, UploadStates
<1>4. TypeOK'
  BY <1>1, <1>3 DEF IInv, TypeOK, UploadStates
<1>5. AnswersFit'
  BY <1>1, <1>2, TypeFacts DEF IInv, AnswersFit, Exists
<1>6. ScriptRows' /\ IngestedWithAnnotations'
  BY <1>1 DEF IInv, ScriptRows, IngestedWithAnnotations
<1> QED BY <1>1, <1>4, <1>5, <1>6, TasksKept DEF IInv

LEMMA InsertStep == ASSUME NEW u \in Uploads PROVE IInv /\ Insert(u) => IInv'
<1> SUFFICES ASSUME IInv, Insert(u) PROVE IInv'
  OBVIOUS
<1>1. UNCHANGED <<aged, labelled, script, queue, worker, stuck, deaths>> /\ upload[u].pc = "insert"
  BY DEF Insert
<1>2. PICK b \in Batches, kind \in Kinds : upload[u] = [pc |-> "insert", batch |-> b, kind |-> kind]
  BY <1>1, RowFacts DEF IInv
<1>3. CASE Taken(b)
  <2>1. upload' = [upload EXCEPT ![u] = [pc |-> "failed"]] /\ UNCHANGED batch
    BY <1>2, <1>3 DEF Insert
  <2>2. upload' \in [Uploads -> UploadStates]
    BY <2>1, TypeFacts DEF IInv, UploadStates
  <2>3. TypeOK'
    BY <1>1, <2>1, <2>2 DEF IInv, TypeOK, UploadStates
  <2>4. AnswersFit'
    BY <2>1, TypeFacts DEF IInv, AnswersFit, Exists
  <2>5. ScriptRows' /\ IngestedWithAnnotations'
    BY <1>1, <2>1 DEF IInv, ScriptRows, IngestedWithAnnotations
  <2> QED BY <1>1, <2>3, <2>4, <2>5, TasksKept DEF IInv
<1>4. CASE ~ Taken(b)
  <2>1. PICK s \in {"PENDING", "REJECTED"} :
          batch' = [batch EXCEPT ![b] = [status |-> s, id |-> u]]
    BY <1>2, <1>4 DEF Insert
  <2>2. batch[b] = NoRow /\ [status |-> s, id |-> u] \in Rows
    BY <1>4, <2>1 DEF Taken, Exists, Rows, Owners
  <2>3. \/ upload' = [upload EXCEPT ![u] = [pc |-> "answered", batch |-> b,
                                            row |-> [status |-> "REJECTED", id |-> u]]]
        \/ upload' = [upload EXCEPT ![u] = [pc |-> "dispatch", batch |-> b, kind |-> kind]]
    BY <1>2, <1>4 DEF Insert, Answer
  <2>4. upload' \in [Uploads -> UploadStates] /\ batch' \in [Batches -> Rows \cup {NoRow}]
    BY <2>1, <2>2, <2>3, TypeFacts DEF IInv, UploadStates, Rows, Owners
  <2>5. TypeOK'
    BY <1>1, <2>4 DEF IInv, TypeOK, UploadStates
  <2>6. /\ batch'[b] = [status |-> s, id |-> u] /\ batch'[b] # NoRow
        /\ \A c \in Batches \ {b} : batch'[c] = batch[c]
    BY <2>1, <2>2, TypeFacts DEF IInv, NoRow
  <2>7. AnswersFit'
    <3>1. ASSUME NEW v \in Uploads \ {u}, upload[v].pc \in {"answered", "dispatch"}
          PROVE  upload'[v] = upload[v] /\ upload[v].batch \in Batches \ {b}
      BY <2>2, <2>3, <3>1, TypeFacts, RowFacts DEF IInv, AnswersFit, Exists
    <3>2. \A v \in Uploads \ {u} : upload'[v] = upload[v]
      BY <2>3, TypeFacts DEF IInv
    <3>3. \A v \in Uploads \ {u} :
            (/\ upload[v].pc = "answered" =>
                  Exists(upload[v].batch) /\ batch[upload[v].batch].id = upload[v].row.id
             /\ upload[v].pc = "dispatch" =>
                  Exists(upload[v].batch) /\ batch[upload[v].batch].id = v)'
      BY <2>6, <3>1, <3>2 DEF IInv, AnswersFit, Exists
    <3>4. (/\ upload[u].pc = "answered" =>
                Exists(upload[u].batch) /\ batch[upload[u].batch].id = upload[u].row.id
           /\ upload[u].pc = "dispatch" =>
                Exists(upload[u].batch) /\ batch[upload[u].batch].id = u)'
      BY <2>3, <2>6, TypeFacts DEF IInv, Exists
    <3> QED BY <3>3, <3>4 DEF AnswersFit
  <2>8. ScriptRows'
    <3>1. b \in Field => script[b] \notin {"written", "sent"}
      BY <2>2, IngestionAssumption DEF IInv, ScriptRows, NoRow, Owners
    <3>2. u # "script"
      BY IngestionAssumption
    <3> QED BY <1>1, <2>6, <3>1, <3>2, IngestionAssumption DEF IInv, ScriptRows
  <2>9. IngestedWithAnnotations'
    <3>1. ~ (labelled[b] > 0)
      BY <2>2 DEF IInv, IngestedWithAnnotations, NoRow
    <3> QED BY <1>1, <2>1, <2>6, <3>1 DEF IInv, IngestedWithAnnotations
  <2> QED BY <1>1, <2>5, <2>7, <2>8, <2>9, TasksKept DEF IInv
<1> QED BY <1>3, <1>4

LEMMA DispatchStep == ASSUME NEW u \in Uploads PROVE IInv /\ Dispatch(u) => IInv'
<1> SUFFICES ASSUME IInv, Dispatch(u) PROVE IInv'
  OBVIOUS
<1>1. UNCHANGED <<batch, aged, labelled, script, worker, stuck, deaths>> /\ upload[u].pc = "dispatch"
  BY DEF Dispatch
<1>2. PICK b \in Batches : upload[u].batch = b
  BY <1>1, RowFacts DEF IInv
<1>3. upload' = [upload EXCEPT ![u] = [pc |-> "answered", batch |-> b,
                                       row |-> [status |-> "PENDING", id |-> u]]]
        /\ (Send(Task("id", b)) \/ UNCHANGED queue)
  BY <1>2 DEF Dispatch, Answer
<1>4. Task("id", b) \in Tasks /\ MayRun(Task("id", b))
  BY IngestionAssumption DEF Task, Tasks, MayRun
<1>5. queue' \in [Tasks -> 0 .. MaxCopies]
        /\ \A s \in Tasks : queue'[s] > 0 => queue[s] > 0 \/ MayRun(s)
  BY <1>3, <1>4, SendFacts, TypeFacts DEF IInv
<1>6. upload' \in [Uploads -> UploadStates]
  BY <1>3, TypeFacts DEF IInv, UploadStates, Rows, Owners
<1>7. TypeOK'
  BY <1>1, <1>5, <1>6 DEF IInv, TypeOK, UploadStates
<1>8. AnswersFit'
  <2>1. Exists(b) /\ batch[b].id = u
    BY <1>1, <1>2 DEF IInv, AnswersFit
  <2> QED BY <1>1, <1>3, <2>1, TypeFacts DEF IInv, AnswersFit, Exists
<1>9. ScriptRows' /\ IngestedWithAnnotations'
  BY <1>1 DEF IInv, ScriptRows, IngestedWithAnnotations
<1>10. TasksFit'
  BY <1>1, <1>5 DEF IInv, TasksFit, MayRun
<1> QED BY <1>7, <1>8, <1>9, <1>10 DEF IInv

LEMMA UploadLostStep == ASSUME NEW u \in Uploads PROVE IInv /\ UploadLost(u) => IInv'
<1> SUFFICES ASSUME IInv, UploadLost(u) PROVE IInv'
  OBVIOUS
<1>1. UNCHANGED <<batch, aged, labelled, script, queue, worker, stuck, deaths>>
        /\ upload' = [upload EXCEPT ![u] = [pc |-> "failed"]]
  BY DEF UploadLost
<1>2. upload' \in [Uploads -> UploadStates]
  BY <1>1, TypeFacts DEF IInv, UploadStates
<1>3. TypeOK'
  BY <1>1, <1>2 DEF IInv, TypeOK, UploadStates
<1>4. AnswersFit'
  BY <1>1, TypeFacts DEF IInv, AnswersFit, Exists
<1>5. ScriptRows' /\ IngestedWithAnnotations'
  BY <1>1 DEF IInv, ScriptRows, IngestedWithAnnotations
<1> QED BY <1>1, <1>3, <1>4, <1>5, TasksKept DEF IInv

LEMMA ScriptWritesStep == ASSUME NEW b \in Field PROVE IInv /\ ScriptWrites(b) => IInv'
<1> SUFFICES ASSUME IInv, ScriptWrites(b) PROVE IInv'
  OBVIOUS
<1>1. UNCHANGED <<aged, labelled, upload, queue, worker, stuck, deaths>> /\ script[b] = "new"
        /\ script' = [script EXCEPT ![b] = IF Exists(b) THEN "failed" ELSE "written"]
        /\ batch' = IF Exists(b) THEN batch
                    ELSE [batch EXCEPT ![b] = [status |-> "PENDING", id |-> "script"]]
  BY DEF ScriptWrites, WriteOutcome
<1>2. b \in Batches
  BY IngestionAssumption
<1>3. TypeOK'
  <2>1. script' \in [Field -> {"new", "written", "failed", "sent"}]
    BY <1>1, TypeFacts DEF IInv
  <2>2. batch' \in [Batches -> Rows \cup {NoRow}]
    BY <1>1, <1>2, TypeFacts DEF IInv, Rows, Owners
  <2> QED BY <1>1, <2>1, <2>2 DEF IInv, TypeOK
<1>4. /\ Exists(b) => batch' = batch /\ script'[b] = "failed"
      /\ ~ Exists(b) => /\ batch'[b] = [status |-> "PENDING", id |-> "script"]
                        /\ batch'[b] # NoRow
      /\ \A c \in Batches \ {b} : batch'[c] = batch[c]
      /\ \A c \in Field \ {b} : script'[c] = script[c]
  BY <1>1, <1>2, TypeFacts DEF IInv, NoRow
<1>5. AnswersFit'
  <2>1. \A u \in Uploads : upload[u].pc \in {"answered", "dispatch"} => upload[u].batch \in Batches
    BY RowFacts DEF IInv
  <2>2. \A c \in Batches : Exists(c) => batch'[c] = batch[c]
    BY <1>4
  <2> QED BY <1>1, <2>1, <2>2 DEF IInv, AnswersFit, Exists
<1>6. ScriptRows'
  BY <1>2, <1>4, IngestionAssumption DEF IInv, ScriptRows
<1>7. IngestedWithAnnotations'
  <2>1. ~ Exists(b) => ~ (labelled[b] > 0)
    BY <1>2, RowFacts DEF IInv, IngestedWithAnnotations, NoRow
  <2> QED BY <1>1, <1>2, <1>4, <2>1 DEF IInv, IngestedWithAnnotations
<1>8. TasksFit'
  <2>1. \A t : MayRun(t) => MayRun(t)'
    BY <1>1, <1>4 DEF MayRun
  <2> QED BY <1>1, <2>1 DEF IInv, TasksFit, MayRun
<1> QED BY <1>3, <1>5, <1>6, <1>7, <1>8 DEF IInv

LEMMA ScriptDispatchesStep == ASSUME NEW b \in Field PROVE IInv /\ ScriptDispatches(b) => IInv'
<1> SUFFICES ASSUME IInv, ScriptDispatches(b) PROVE IInv'
  OBVIOUS
<1>1. UNCHANGED <<batch, aged, labelled, upload, worker, stuck, deaths>> /\ script[b] = "written"
        /\ script' = [script EXCEPT ![b] = "sent"] /\ Send(Task("batch_id", b))
  BY DEF ScriptDispatches
<1>2. Task("batch_id", b) \in Tasks
  BY IngestionAssumption DEF Task, Tasks
<1>3. queue' \in [Tasks -> 0 .. MaxCopies]
        /\ \A s \in Tasks : queue'[s] > 0 => queue[s] > 0 \/ s = Task("batch_id", b)
  BY <1>1, <1>2, SendFacts DEF IInv
<1>4. script' \in [Field -> {"new", "written", "failed", "sent"}]
  BY <1>1, TypeFacts DEF IInv
<1>5. TypeOK'
  BY <1>1, <1>3, <1>4 DEF IInv, TypeOK
<1>6. script'[b] = "sent" /\ \A c \in Field \ {b} : script'[c] = script[c]
  BY <1>1, TypeFacts DEF IInv
<1>7. AnswersFit' /\ IngestedWithAnnotations'
  BY <1>1 DEF IInv, AnswersFit, IngestedWithAnnotations, Exists
<1>8. ScriptRows'
  BY <1>1, <1>6 DEF IInv, ScriptRows
<1>9. TasksFit'
  <2>1. \A t : MayRun(t) => MayRun(t)'
    BY <1>6 DEF MayRun
  <2>2. MayRun(Task("batch_id", b))'
    BY <1>6 DEF MayRun, Task
  <2> QED BY <1>1, <1>3, <2>1, <2>2 DEF IInv, TasksFit, MayRun
<1> QED BY <1>5, <1>7, <1>8, <1>9 DEF IInv

-----------------------------------------------------------------------------
(***************************************************************************)
(* Workers and the reconciliation                                          *)
(***************************************************************************)
LEMMA TakeStep ==
  ASSUME NEW w \in Workers, NEW t \in Tasks PROVE IInv /\ Take(w, t) => IInv'
<1> SUFFICES ASSUME IInv, Take(w, t) PROVE IInv'
  OBVIOUS
<1>1. UNCHANGED <<batch, aged, labelled, upload, script, stuck, deaths>> /\ queue[t] > 0
        /\ queue' = [queue EXCEPT ![t] = queue[t] - 1]
        /\ worker' = [worker EXCEPT ![w] = [pc |-> "taken", task |-> t]]
  BY DEF Take
<1>2. queue' \in [Tasks -> 0 .. MaxCopies] /\ \A s \in Tasks : queue'[s] > 0 => queue[s] > 0
  BY <1>1, TypeFacts, IngestionAssumption DEF IInv
<1>3. worker' \in [Workers -> WorkerStates]
  BY <1>1, TypeFacts DEF IInv, WorkerStates
<1>4. TypeOK'
  BY <1>1, <1>2, <1>3 DEF IInv, TypeOK, WorkerStates
<1>5. worker'[w] = [pc |-> "taken", task |-> t] /\ \A v \in Workers \ {w} : worker'[v] = worker[v]
  BY <1>1, TypeFacts DEF IInv
<1>6. TasksFit'
  BY <1>1, <1>2, <1>5 DEF IInv, TasksFit, MayRun
<1> QED BY <1>1, <1>4, <1>6, RowsKept DEF IInv

\* A worker goes on with its task, and looks for the row by batch_id alone.
LEMMA WorkerGoes ==
  ASSUME IInv, NEW w \in Workers, worker[w] # Idle, UNCHANGED <<script, queue>>,
         NEW pc \in {"taken", "label", "report", "raised"},
         pc \in {"label", "report"} => worker[w].task.ref = "batch_id",
         worker' = [worker EXCEPT ![w].pc = pc]
  PROVE  worker' \in [Workers -> WorkerStates] /\ TasksFit'
<1>1. worker[w] \in [pc : {"taken", "label", "report", "raised"}, task : Tasks]
  BY RowFacts DEF IInv
<1>2. worker'[w] = [worker[w] EXCEPT !.pc = pc] /\ \A v \in Workers \ {w} : worker'[v] = worker[v]
  BY TypeFacts DEF IInv
<1>3. worker'[w] = [pc |-> pc, task |-> worker[w].task]
  BY <1>1, <1>2
<1>4. worker' \in [Workers -> WorkerStates]
  BY <1>1, <1>2, <1>3, TypeFacts DEF IInv, WorkerStates
<1>5. TasksFit'
  BY <1>2, <1>3 DEF IInv, TasksFit, MayRun
<1> QED BY <1>4, <1>5

LEMMA SelectStep == ASSUME NEW w \in Workers PROVE IInv /\ Select(w) => IInv'
<1> SUFFICES ASSUME IInv, Select(w) PROVE IInv'
  OBVIOUS
<1>1. UNCHANGED <<batch, aged, labelled, upload, script, queue, stuck, deaths>> /\ worker[w] # Idle
        /\ \E pc \in {"label", "raised"} :
             /\ pc = "label" => worker[w].task.ref = "batch_id"
             /\ worker' = [worker EXCEPT ![w].pc = pc]
  BY DEF Select, Found, BeginsLabelling, Idle
<1>2. worker' \in [Workers -> WorkerStates] /\ TasksFit'
  BY <1>1, WorkerGoes
<1>3. TypeOK'
  BY <1>1, <1>2 DEF IInv, TypeOK, WorkerStates
<1> QED BY <1>1, <1>2, <1>3, RowsKept DEF IInv

LEMMA RaisesStep == ASSUME NEW w \in Workers PROVE IInv /\ Raises(w) => IInv'
<1> SUFFICES ASSUME IInv, Raises(w) PROVE IInv'
  OBVIOUS
<1>1. UNCHANGED <<batch, aged, labelled, upload, script, queue, stuck, deaths>> /\ worker[w] # Idle
        /\ worker' = [worker EXCEPT ![w].pc = "raised"]
  BY DEF Raises, Idle
<1>2. worker' \in [Workers -> WorkerStates] /\ TasksFit'
  BY <1>1, WorkerGoes
<1>3. TypeOK'
  BY <1>1, <1>2 DEF IInv, TypeOK, WorkerStates
<1> QED BY <1>1, <1>2, <1>3, RowsKept DEF IInv

LEMMA CommitStep == ASSUME NEW w \in Workers PROVE IInv /\ Commit(w) => IInv'
<1> SUFFICES ASSUME IInv, Commit(w) PROVE IInv'
  OBVIOUS
<1>1. UNCHANGED <<aged, upload, script, queue, stuck, deaths>>
        /\ worker[w].pc = "label" /\ worker[w] # Idle
        /\ worker' = [worker EXCEPT ![w].pc = "report"]
  BY DEF Commit, Idle
<1>2. PICK b \in Field : worker[w].task.batch = b /\ worker[w].task.ref = "batch_id"
                           /\ script[b] = "sent"
  BY <1>1 DEF IInv, TasksFit, MayRun
<1>3. batch' = [batch EXCEPT ![b].status = "INGESTED"]
        /\ labelled' = [labelled EXCEPT ![b] = labelled[b] + 1]
  BY <1>2 DEF Commit
<1>4. worker' \in [Workers -> WorkerStates] /\ TasksFit'
  BY <1>1, <1>2, WorkerGoes
<1>5. b \in Batches /\ batch[b].id = "script" /\ batch[b] \in Rows
  <2>1. b \in Batches /\ batch[b].id = "script"
    BY <1>2, IngestionAssumption DEF IInv, ScriptRows
  <2>2. batch[b] # NoRow
    BY <2>1, IngestionAssumption DEF NoRow, Owners
  <2> QED BY <2>1, <2>2, RowFacts DEF IInv, Exists
<1>6. /\ batch'[b] = [status |-> "INGESTED", id |-> "script"] /\ batch'[b] # NoRow
      /\ \A c \in Batches \ {b} : batch'[c] = batch[c]
      /\ labelled'[b] = labelled[b] + 1 /\ labelled[b] \in Nat
      /\ \A c \in Batches \ {b} : labelled'[c] = labelled[c]
  <2>1. batch'[b] = [batch[b] EXCEPT !.status = "INGESTED"]
          /\ \A c \in Batches \ {b} : batch'[c] = batch[c]
    BY <1>3, <1>5, TypeFacts DEF IInv
  <2>2. batch'[b] = [status |-> "INGESTED", id |-> "script"]
    BY <1>5, <2>1 DEF Rows
  <2>3. batch'[b] # NoRow
    BY <2>2 DEF NoRow
  <2>4. labelled'[b] = labelled[b] + 1 /\ labelled[b] \in Nat
          /\ \A c \in Batches \ {b} : labelled'[c] = labelled[c]
    BY <1>3, <1>5, TypeFacts DEF IInv
  <2> QED BY <2>1, <2>2, <2>3, <2>4
<1>7. TypeOK'
  <2>1. batch' \in [Batches -> Rows \cup {NoRow}]
    BY <1>3, <1>6, TypeFacts DEF IInv, Rows, Owners
  <2>2. labelled' \in [Batches -> Nat]
    BY <1>3, <1>6, TypeFacts DEF IInv
  <2> QED BY <1>1, <1>4, <2>1, <2>2 DEF IInv, TypeOK, WorkerStates
<1>8. AnswersFit'
  <2>1. \A u \in Uploads : upload[u].pc \in {"answered", "dispatch"} => upload[u].batch \in Batches
    BY RowFacts DEF IInv
  <2>2. \A c \in Batches : Exists(c) => Exists(c)' /\ batch'[c].id = batch[c].id
    BY <1>5, <1>6 DEF Exists
  <2> QED BY <1>1, <2>1, <2>2 DEF IInv, AnswersFit, Exists
<1>9. ScriptRows'
  BY <1>1, <1>5, <1>6, IngestionAssumption DEF IInv, ScriptRows
<1>10. IngestedWithAnnotations'
  BY <1>5, <1>6 DEF IInv, IngestedWithAnnotations
<1> QED BY <1>4, <1>7, <1>8, <1>9, <1>10 DEF IInv

\* A worker that ends its task, with or without having it sent again.
LEMMA WorkerEnds ==
  ASSUME IInv, NEW w \in Workers, UNCHANGED <<batch, aged, labelled, upload, script, stuck>>,
         deaths' \in 0 .. MaxDeaths, worker' = [worker EXCEPT ![w] = Idle],
         UNCHANGED queue \/ \E t \in Tasks : MayRun(t) /\ Send(t)
  PROVE  IInv'
<1>1. worker' \in [Workers -> WorkerStates]
        /\ worker'[w] = Idle /\ \A v \in Workers \ {w} : worker'[v] = worker[v]
  BY TypeFacts DEF IInv, WorkerStates
<1>2. queue' \in [Tasks -> 0 .. MaxCopies]
        /\ \A s \in Tasks : queue'[s] > 0 => queue[s] > 0 \/ MayRun(s)
  BY SendFacts, TypeFacts DEF IInv
<1>3. TypeOK'
  BY <1>1, <1>2 DEF IInv, TypeOK, WorkerStates
<1>4. TasksFit'
  BY <1>1, <1>2 DEF IInv, TasksFit, MayRun
<1> QED BY <1>3, <1>4, RowsKept DEF IInv

LEMMA EndStep ==
  ASSUME NEW w \in Workers
  PROVE  IInv /\ (Reports(w) \/ GivesUpOrRetries(w) \/ WorkerDies(w)) => IInv'
<1> SUFFICES ASSUME IInv, Reports(w) \/ GivesUpOrRetries(w) \/ WorkerDies(w) PROVE IInv'
  OBVIOUS
<1>1. CASE Reports(w)
  <2>1. deaths' \in 0 .. MaxDeaths
    BY <1>1 DEF Reports, IInv, TypeOK
  <2> QED BY <1>1, <2>1, WorkerEnds DEF Reports
<1>2. CASE GivesUpOrRetries(w)
  <2>1. deaths' \in 0 .. MaxDeaths /\ worker[w] # Idle
    BY <1>2 DEF GivesUpOrRetries, IInv, TypeOK, Idle
  <2>2. PICK t \in Tasks : t = worker[w].task /\ MayRun(t)
    BY <2>1, RowFacts DEF IInv, TasksFit
  <2>3. CASE t.tries < MaxRetries
    <3>1. Retry(t) = [ref |-> t.ref, batch |-> t.batch, tries |-> t.tries + 1]
            /\ t.tries + 1 \in 0 .. MaxRetries
      BY <2>2, <2>3, IngestionAssumption DEF Retry, Tasks
    <3>2. Retry(t) \in Tasks /\ MayRun(Retry(t))
      BY <2>2, <3>1 DEF Tasks, MayRun
    <3>3. Send(Retry(t))
      BY <1>2, <2>2, <2>3 DEF GivesUpOrRetries
    <3> QED BY <1>2, <2>1, <3>2, <3>3, WorkerEnds DEF GivesUpOrRetries
  <2>4. CASE ~ (t.tries < MaxRetries)
    BY <1>2, <2>1, <2>2, <2>4, WorkerEnds DEF GivesUpOrRetries
  <2> QED BY <2>3, <2>4
<1>3. CASE WorkerDies(w)
  <2>1. deaths' \in 0 .. MaxDeaths /\ worker[w] # Idle
    BY <1>3, IngestionAssumption DEF WorkerDies, IInv, TypeOK
  <2>2. PICK t \in Tasks : t = worker[w].task /\ MayRun(t)
    BY <2>1, RowFacts DEF IInv, TasksFit
  <2> QED BY <1>3, <2>1, <2>2, WorkerEnds DEF WorkerDies
<1> QED BY <1>1, <1>2, <1>3

LEMMA ReconcileStep ==
  ASSUME NEW b \in Batches
  PROVE  IInv /\ (Reconcile \/ Age(b) \/ Redispatch(b) \/ RedispatchFails(b)) => IInv'
<1> SUFFICES ASSUME IInv, Reconcile \/ Age(b) \/ Redispatch(b) \/ RedispatchFails(b) PROVE IInv'
  OBVIOUS
<1>1. UNCHANGED <<batch, labelled, upload, script, worker, deaths>>
        /\ aged' \subseteq Batches /\ stuck' \subseteq Batches
  BY DEF IInv, TypeOK, Reconcile, Age, Redispatch, RedispatchFails
<1>2. Task("id", b) \in Tasks /\ MayRun(Task("id", b))
  BY IngestionAssumption DEF Task, Tasks, MayRun
<1>3. UNCHANGED queue \/ Send(Task("id", b))
  BY DEF Reconcile, Age, Redispatch, RedispatchFails
<1>4. queue' \in [Tasks -> 0 .. MaxCopies]
        /\ \A s \in Tasks : queue'[s] > 0 => queue[s] > 0 \/ MayRun(s)
  BY <1>2, <1>3, SendFacts, TypeFacts DEF IInv
<1>5. TypeOK'
  BY <1>1, <1>4 DEF IInv, TypeOK
<1>6. TasksFit'
  BY <1>1, <1>4 DEF IInv, TasksFit, MayRun
<1> QED BY <1>1, <1>5, <1>6, RowsKept DEF IInv

-----------------------------------------------------------------------------
(***************************************************************************)
(* The theorems                                                            *)
(***************************************************************************)
LEMMA NextInv == IInv /\ [Next]_vars => IInv'
<1> SUFFICES ASSUME IInv, [Next]_vars PROVE IInv'
  OBVIOUS
<1>1. ASSUME NEW u \in Uploads, NEW b \in Batches, NEW kind \in Kinds, Receive(u, b, kind)
      PROVE  IInv'
  BY <1>1, ReceiveStep
<1>2. ASSUME NEW u \in Uploads, Insert(u) \/ Dispatch(u) \/ UploadLost(u) PROVE IInv'
  BY <1>2, InsertStep, DispatchStep, UploadLostStep
<1>3. ASSUME NEW b \in Field, ScriptWrites(b) \/ ScriptDispatches(b) PROVE IInv'
  BY <1>3, ScriptWritesStep, ScriptDispatchesStep
<1>4. ASSUME NEW w \in Workers, NEW t \in Tasks, Take(w, t) PROVE IInv'
  BY <1>4, TakeStep
<1>5. ASSUME NEW w \in Workers,
             Select(w) \/ Commit(w) \/ Raises(w) \/ Reports(w) \/ GivesUpOrRetries(w) \/ WorkerDies(w)
      PROVE  IInv'
  BY <1>5, SelectStep, CommitStep, RaisesStep, EndStep
<1>6. CASE Reconcile
  <2>1. \E b \in Batches : TRUE
    BY <1>6 DEF Reconcile
  <2> QED BY <1>6, <2>1, ReconcileStep
<1>7. ASSUME NEW b \in Batches, Age(b) \/ Redispatch(b) \/ RedispatchFails(b) PROVE IInv'
  BY <1>7, ReconcileStep
<1>8. CASE UNCHANGED vars
  <2>1. UNCHANGED <<batch, aged, labelled, upload, script, queue, worker, stuck, deaths>>
    BY <1>8 DEF vars
  <2>2. TypeOK'
    BY <2>1 DEF IInv, TypeOK
  <2> QED BY <2>1, <2>2, RowsKept, TasksKept DEF IInv
<1> QED BY <1>1, <1>2, <1>3, <1>4, <1>5, <1>6, <1>7, <1>8 DEF Next

LEMMA Invariance == Spec => []IInv
BY InitInv, NextInv, PTL DEF Spec

LEMMA OneRow == IInv => OneRowPerBatch
BY DEF IInv, AnswersFit, OneRowPerBatch

\* The types hold and uploads of one batch are told of one row, for any number of
\* uploads that race or are repeated (receive_batch).
THEOREM BatchesFit == Spec => []BatchInv
<1>1. IInv => BatchInv
  BY OneRow DEF IInv, BatchInv
<1> QED BY <1>1, Invariance, PTL

\* A batch is INGESTED exactly when its events were labelled, however often its
\* task is delivered, fails or loses its worker (_auto_label_async).
THEOREM IngestedIsLabelled == Spec => []IngestedWithAnnotations
<1>1. IInv => IngestedWithAnnotations
  BY DEF IInv
<1> QED BY <1>1, Invariance, PTL

\* What was rejected or ingested stays so, for any number of uploads, scripts and
\* workers (receive_batch, process_batch, auto_label_task).
THEOREM OutcomesLast == Spec => OutcomeIsFinal
<1> DEFINE A == \A b \in Batches : batch[b].status \in {"REJECTED", "INGESTED"}
                                     => batch'[b] = batch[b]
<1>1. IInv /\ [Next]_vars => [A]_vars
  <2> SUFFICES ASSUME IInv, Next, NEW b \in Batches, batch[b].status \in {"REJECTED", "INGESTED"}
               PROVE  batch'[b] = batch[b]
    OBVIOUS
  <2>1. Exists(b)
    BY DEF Exists, NoRow
  <2>2. ASSUME NEW u \in Uploads, Insert(u) PROVE batch'[b] = batch[b]
    <3>1. PICK c \in Batches : upload[u].batch = c
      BY <2>2, RowFacts DEF IInv, Insert
    <3> QED BY <2>1, <2>2, <3>1, TypeFacts DEF IInv, Insert, Taken
  <2>3. ASSUME NEW c \in Field, ScriptWrites(c) PROVE batch'[b] = batch[b]
    BY <2>1, <2>3, TypeFacts DEF IInv, ScriptWrites
  <2>4. ASSUME NEW w \in Workers, Commit(w) PROVE batch'[b] = batch[b]
    <3>1. worker[w].pc = "label" /\ worker[w] # Idle
      BY <2>4 DEF Commit, Idle
    <3>2. PICK c \in Field : worker[w].task.batch = c /\ script[c] = "sent"
      BY <3>1 DEF IInv, TasksFit, MayRun
    <3>3. batch' = [batch EXCEPT ![c].status = "INGESTED"]
      BY <2>4, <3>2 DEF Commit
    <3>4. CASE b # c
      BY <3>3, <3>4, TypeFacts DEF IInv
    <3>5. CASE b = c
      <4>1. batch[b].id = "script" /\ batch[b].status = "INGESTED" /\ batch[b] \in Rows
        BY <2>1, <3>2, <3>5, RowFacts DEF IInv, ScriptRows
      <4>2. batch'[b] = [batch[b] EXCEPT !.status = "INGESTED"]
        BY <3>3, <3>5, TypeFacts DEF IInv
      <4> QED BY <4>1, <4>2 DEF Rows
    <3> QED BY <3>4, <3>5
  <2>5. ASSUME ~ (\E u \in Uploads : Insert(u)), ~ (\E c \in Field : ScriptWrites(c)),
               ~ (\E w \in Workers : Commit(w))
        PROVE  batch' = batch
    BY <2>5 DEF Next, Receive, Dispatch, UploadLost, ScriptDispatches, Take, Select, BeginsLabelling,
                Raises, Reports, GivesUpOrRetries, WorkerDies, Reconcile, Age, Redispatch,
                RedispatchFails
  <2> QED BY <2>2, <2>3, <2>4, <2>5
<1> QED BY <1>1, Invariance, PTL DEF Spec, OutcomeIsFinal
=============================================================================
