---------------------------- MODULE TrainingJob ----------------------------
(***************************************************************************)
(* The life of a training job: the request that inserts it and sends it to *)
(* the broker (app/api/training), the Celery task that trains it with its  *)
(* retries (app/workers/tasks), the training itself, which writes the row  *)
(* through sessions of its own (app/services/training), and the user who   *)
(* cancels it.  The broker delivers at least once.                         *)
(***************************************************************************)
EXTENDS Integers, FiniteSets

CONSTANTS Jobs,
          TrainWorkers,
          Cancels,      \* requests to POST /{job_id}/cancel
          MaxRetries,   \* 3 in the code
          MaxCopies,    \* bound on equal messages in the queue
          MaxLosses,    \* bound on workers that die or lose the broker
          MaxFaults,    \* bound on transactions of the task that fail, and retries refused
          None

ASSUME TrainingAssumption ==
  /\ MaxRetries \in Nat /\ MaxCopies \in Nat \ {0}
  /\ MaxLosses \in Nat /\ MaxFaults \in Nat
  /\ None \notin Jobs \cup {"stored", "lost"}

VARIABLES job,      \* the rows of training_jobs
          sent,     \* what became of the message of each job
          jobQueue, \* how many copies of each task wait in the broker
          trainer,  \* what each worker does
          cancel,   \* what each cancelling request does
          runs,     \* how often each job began to train
          losses, faults

trainVars == <<job, sent, jobQueue, trainer, cancel, runs, losses, faults>>

Settled == {"COMPLETED", "FAILED"}

\* progress_pct is 0, some epochs or 100.  "lost" is an artifact_path below
\* the temporary directory, which run_training removes when it ends.
JobRows == [status : {"NONE", "PENDING", "RUNNING"} \cup Settled,
            progress : {0, 50, 100}, artifact : {None, "stored", "lost"}]
JobTasks == [job : Jobs, tries : 0 .. MaxRetries]
AtRest == [pc |-> "idle"]
Working == {"taken", "locked", "train", "result", "broken", "report", "raised", "again"}

TrainTypeOK ==
  /\ job \in [Jobs -> JobRows]
  /\ sent \in [Jobs -> {"no", "sent", "lost", "abandoned"}]
  /\ jobQueue \in [JobTasks -> 0 .. MaxCopies]
  /\ trainer \in [TrainWorkers -> {AtRest} \cup [pc : Working, task : JobTasks]]
  /\ cancel \in [Cancels -> {AtRest} \cup [pc : {"loaded"}, job : Jobs]
                                     \cup [pc : {"done"}]]
  /\ runs \in [Jobs -> Nat]
  /\ losses \in 0 .. MaxLosses
  /\ faults \in 0 .. MaxFaults

TrainInit ==
  /\ job = [j \in Jobs |-> [status |-> "NONE", progress |-> 0, artifact |-> None]]
  /\ sent = [j \in Jobs |-> "no"]
  /\ jobQueue = [t \in JobTasks |-> 0]
  /\ trainer = [w \in TrainWorkers |-> AtRest]
  /\ cancel = [c \in Cancels |-> AtRest]
  /\ runs = [j \in Jobs |-> 0]
  /\ losses = 0
  /\ faults = 0

Enqueue(t) ==
  jobQueue' = [jobQueue EXCEPT ![t] = IF @ < MaxCopies THEN @ + 1 ELSE @]

Goes(w, pc) == trainer' = [trainer EXCEPT ![w].pc = pc]
JobOf(w) == trainer[w].task.job

\* A row that a worker selected FOR UPDATE is written by nobody else.
Writable(j) ==
  \A w \in TrainWorkers : trainer[w].pc = "locked" => JobOf(w) # j

(***************************************************************************)
(* start_training: the row is committed before the message is sent         *)
(***************************************************************************)
StartTraining(j) ==
  /\ job[j].status = "NONE"
  /\ job' = [job EXCEPT ![j].status = "PENDING"]
  /\ UNCHANGED <<sent, jobQueue, trainer, cancel, runs, losses, faults>>

SendJob(j) ==
  /\ job[j].status # "NONE" /\ sent[j] = "no"
  /\ sent' = [sent EXCEPT ![j] = "sent"]
  /\ Enqueue([job |-> j, tries |-> 0])
  /\ UNCHANGED <<job, trainer, cancel, runs, losses, faults>>

\* The broker is down, or the API dies: nothing sends the job again.
SendFails(j) ==
  /\ job[j].status # "NONE" /\ sent[j] = "no"
  /\ sent' = [sent EXCEPT ![j] = "lost"]
  /\ UNCHANGED <<job, jobQueue, trainer, cancel, runs, losses, faults>>

(***************************************************************************)
(* cancel_training_job: reads without a lock, then writes                  *)
(***************************************************************************)
CancelLoads(c, j) ==
  /\ cancel[c] = AtRest
  /\ job[j].status \in {"PENDING", "RUNNING"}
  /\ cancel' = [cancel EXCEPT ![c] = [pc |-> "loaded", job |-> j]]
  /\ UNCHANGED <<job, sent, jobQueue, trainer, runs, losses, faults>>

CancelWrites(c) ==
  LET j == cancel[c].job IN
  /\ cancel[c].pc = "loaded"
  /\ Writable(j)
  /\ job' = [job EXCEPT ![j].status = "FAILED"]
  /\ cancel' = [cancel EXCEPT ![c] = [pc |-> "done"]]
  /\ UNCHANGED <<sent, jobQueue, trainer, runs, losses, faults>>

(***************************************************************************)
(* run_training_task and run_training                                      *)
(***************************************************************************)
TakeJob(w, t) ==
  /\ trainer[w] = AtRest
  /\ jobQueue[t] > 0
  /\ jobQueue' = [jobQueue EXCEPT ![t] = @ - 1]
  /\ trainer' = [trainer EXCEPT ![w] = [pc |-> "taken", task |-> t]]
  /\ UNCHANGED <<job, sent, cancel, runs, losses, faults>>

\* bug: the row is read without FOR UPDATE
Ungranted(j) == TRUE
Granted(j) == Writable(j)

\* bug: a retry starts the job that failed
NotRunning(j) == job[j].status \in {"PENDING", "FAILED"}
Startable(j) == job[j].status = "PENDING"

\* A job that is not PENDING is skipped, and reported as completed.
LoadJob(w) ==
  /\ trainer[w].pc = "taken"
  /\ Granted(JobOf(w))
  /\ Goes(w, IF Startable(JobOf(w)) THEN "locked" ELSE "report")
  /\ UNCHANGED <<job, sent, jobQueue, cancel, runs, losses, faults>>

MarkRunning(w) ==
  LET j == JobOf(w) IN
  /\ trainer[w].pc = "locked"
  /\ job' = [job EXCEPT ![j].status = "RUNNING"]
  /\ runs' = [runs EXCEPT ![j] = @ + 1]
  /\ Goes(w, "train")
  /\ UNCHANGED <<sent, jobQueue, cancel, losses, faults>>

Polling == {"train"}

\* _update_job_progress, whatever the status is by then
UpdateProgress(w) ==
  LET j == JobOf(w) IN
  /\ trainer[w].pc \in Polling
  /\ Writable(j)
  /\ job[j].progress # 50
  /\ job' = [job EXCEPT ![j].progress = 50]
  /\ UNCHANGED <<sent, jobQueue, trainer, cancel, runs, losses, faults>>

\* The data set has annotations, and the training finds its weights: or not,
\* or the time limit of the task is reached.
Trains(w) ==
  /\ trainer[w].pc = "train"
  /\ Goes(w, "result") \/ Goes(w, "broken")
  /\ UNCHANGED <<job, sent, jobQueue, cancel, runs, losses, faults>>

\* The upload fails: the path of the local file is recorded instead.
Uploaded == {"stored", "lost"}

\* The final write does not look at the status either.
WriteResult(w, artifact) ==
  LET j == JobOf(w) IN
  /\ trainer[w].pc = "result"
  /\ artifact \in Uploaded
  /\ Writable(j)
  /\ job' = [job EXCEPT ![j] =
               [status |-> "COMPLETED", progress |-> 100, artifact |-> artifact]]
  /\ Goes(w, "report")
  /\ UNCHANGED <<sent, jobQueue, cancel, runs, losses, faults>>

WriteFailure(w) ==
  LET j == JobOf(w) IN
  /\ trainer[w].pc = "broken"
  /\ Writable(j)
  /\ job' = [job EXCEPT ![j].status = "FAILED"]
  /\ Goes(w, "raised")
  /\ UNCHANGED <<sent, jobQueue, cancel, runs, losses, faults>>

\* The audit entry is written and the task acknowledged.
ReportsJob(w) ==
  /\ trainer[w].pc = "report"
  /\ trainer' = [trainer EXCEPT ![w] = AtRest]
  /\ UNCHANGED <<job, sent, jobQueue, cancel, runs, losses, faults>>

\* A transaction fails.  In the training this is a failure of the training;
\* elsewhere the task raises; in the handler it raises a second time.
TransactionFails(w) ==
  /\ faults < MaxFaults
  /\ faults' = faults + 1
  /\ \/ trainer[w].pc \in {"taken", "locked", "broken", "report"} /\ Goes(w, "raised")
     \/ trainer[w].pc \in {"train", "result"} /\ Goes(w, "broken")
     \/ trainer[w].pc = "raised" /\ Goes(w, "again")
  /\ UNCHANGED <<job, sent, jobQueue, cancel, runs, losses>>

\* _mark_training_failed_async: the handler of the task, for any exception, also
\* of the audit entry after the job was completed
MarkFailed(w) ==
  LET j == JobOf(w) IN
  /\ trainer[w].pc = "raised"
  /\ Writable(j)
  /\ job' = [job EXCEPT ![j].status = "FAILED"]
  /\ Goes(w, "again")
  /\ UNCHANGED <<sent, jobQueue, cancel, runs, losses, faults>>

\* With no retry left, or none that reaches the broker, the task is given up.
RetryJob(w) ==
  LET t == trainer[w].task IN
  /\ trainer[w].pc = "again"
  /\ \/ /\ t.tries < MaxRetries
        /\ Enqueue([t EXCEPT !.tries = @ + 1])
        /\ UNCHANGED <<sent, faults>>
     \/ /\ \/ t.tries = MaxRetries /\ UNCHANGED faults
           \/ faults < MaxFaults /\ faults' = faults + 1
        /\ sent' = [sent EXCEPT ![t.job] = "abandoned"]
        /\ UNCHANGED jobQueue
  /\ trainer' = [trainer EXCEPT ![w] = AtRest]
  /\ UNCHANGED <<job, cancel, runs, losses>>

\* bug: the task is acknowledged when it is delivered
EarlyAck(t) == UNCHANGED jobQueue
\* task_acks_late: the broker still has what was not acknowledged
Redeliver(t) == Enqueue(t)

TrainerDies(w) ==
  /\ trainer[w] # AtRest
  /\ losses < MaxLosses
  /\ losses' = losses + 1
  /\ Redeliver(trainer[w].task)
  /\ trainer' = [trainer EXCEPT ![w] = AtRest]
  /\ UNCHANGED <<job, sent, cancel, runs, faults>>

\* The worker loses the broker and works on, while another gets the task.
BrokerLost(w) ==
  /\ trainer[w] # AtRest
  /\ losses < MaxLosses
  /\ losses' = losses + 1
  /\ Redeliver(trainer[w].task)
  /\ UNCHANGED <<job, sent, trainer, cancel, runs, faults>>

\* The hard time limit kills the task, which is acknowledged: a running job
\* stays RUNNING.
TimeLimit(w) ==
  /\ trainer[w].pc \in {"train", "result"}
  /\ losses < MaxLosses
  /\ losses' = losses + 1
  /\ trainer' = [trainer EXCEPT ![w] = AtRest]
  /\ UNCHANGED <<job, sent, jobQueue, cancel, runs, faults>>

WorkerStep(w) ==
  \/ LoadJob(w) \/ MarkRunning(w) \/ Trains(w) \/ WriteFailure(w)
  \/ \E a \in Uploaded : WriteResult(w, a)
  \/ ReportsJob(w) \/ MarkFailed(w) \/ RetryJob(w)

TrainNext ==
  \/ \E j \in Jobs : StartTraining(j) \/ SendJob(j) \/ SendFails(j)
  \/ \E c \in Cancels, j \in Jobs : CancelLoads(c, j)
  \/ \E c \in Cancels : CancelWrites(c)
  \/ \E w \in TrainWorkers, t \in JobTasks : TakeJob(w, t)
  \/ \E w \in TrainWorkers : \/ WorkerStep(w) \/ UpdateProgress(w)
                             \/ TransactionFails(w) \/ TrainerDies(w)
                             \/ BrokerLost(w) \/ TimeLimit(w)

\* Workers go on with what they took and take what waits.
TrainFairness ==
  /\ \A w \in TrainWorkers : WF_trainVars(WorkerStep(w))
  /\ \A t \in JobTasks : SF_trainVars(\E w \in TrainWorkers : TakeJob(w, t))

(***************************************************************************)
(* Properties                                                              *)
(***************************************************************************)
\* A job is trained at most once, however often its message is delivered and
\* retried, while two workers hold it and a user cancels it (run_training locks
\* the row, skips what is not PENDING and commits RUNNING first).
TrainedOnce == \A j \in Jobs : runs[j] <= 1

\* A COMPLETED job has its result: an artifact that deploy_model can take and
\* full progress, though the progress is written by other sessions and by jobs
\* that were cancelled while they ran.
CompletedHasResult ==
  \A j \in Jobs : job[j].status = "COMPLETED"
                    => job[j].progress = 100 /\ job[j].artifact # None

\* Only the one run that was under way when a job was marked FAILED can take it
\* out of FAILED, and then it is COMPLETED; a retry never does, and the artifact
\* of a completed job is not replaced.
OutcomeIsOfOneRun ==
  [][\A j \in Jobs :
       /\ job[j].status = "FAILED" /\ job'[j].status # "FAILED"
            => /\ job'[j].status = "COMPLETED" /\ runs[j] = 1
               /\ job[j].artifact = None
       /\ job[j].artifact # None => job'[j].artifact = job[j].artifact]_trainVars

\* A job whose message reached the broker is started, whatever workers die or lose
\* the broker, unless an attempt raises and no other follows (task_acks_late,
\* autoretry_for); with its handler failing as well it is then PENDING for good.
SentIsStarted ==
  \A j \in Jobs : sent[j] = "sent" ~> job[j].status # "PENDING" \/ sent[j] = "abandoned"
=============================================================================
