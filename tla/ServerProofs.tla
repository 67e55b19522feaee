---------------------------- MODULE ServerProofs ----------------------------
(***************************************************************************)
(* Proofs about training jobs and the registry of their models             *)
(* (TrainingJob, ModelRegistry), and about the circuit breakers of the     *)
(* processes that serve them (CircuitBreaker), which share no state with   *)
(* the registry.                                                           *)
(***************************************************************************)
EXTENDS ModelRegistry, CircuitBreaker, FiniteSetTheorems, TLAPS

(***************************************************************************)
(* TrainingJob and ModelRegistry, for any number of jobs, workers,         *)
(* requests and models, however often a worker dies, a      *)
(* transaction fails or a message is delivered again                       *)
(***************************************************************************)
\* A worker that may still start the job it took, or record its result.
Running == {"locked", "train", "result"}

\* A job has one such worker, ...
OneRunner ==
  \A w, v \in TrainWorkers :
    trainer[w].pc \in Running /\ trainer[v].pc \in Running /\ JobOf(w) = JobOf(v) => w = v

\* ... which holds the row as it found it until it commits RUNNING ...
LockedIsPending ==
  \A w \in TrainWorkers : trainer[w].pc = "locked" => job[JobOf(w)].status = "PENDING"

\* ... and finds no result there when it writes its own.
RunnerIsOpen ==
  \A w \in TrainWorkers : trainer[w].pc \in {"train", "result"} =>
    /\ runs[JobOf(w)] = 1
    /\ job[JobOf(w)].artifact = None /\ job[JobOf(w)].status \in {"RUNNING", "FAILED"}

\* A job that was started is not PENDING again.
NotRunYet == \A j \in Jobs : job[j].status \in {"NONE", "PENDING"} => runs[j] = 0

\* A result is whole, and it stays when the job is marked FAILED later.
ResultIsWhole ==
  \A j \in Jobs : /\ job[j].status = "COMPLETED" => job[j].artifact # None
                  /\ job[j].artifact # None
                       => job[j].progress = 100 /\ job[j].status \in Settled

TrainInv ==
  /\ TrainedOnce /\ OneRunner /\ LockedIsPending /\ RunnerIsOpen /\ NotRunYet
  /\ ResultIsWhole

-----------------------------------------------------------------------------
(***************************************************************************)
(* Types of the training                                                   *)
(***************************************************************************)
TrainerRows == {AtRest} \cup [pc : Working, task : JobTasks]

LEMMA TrainerFacts ==
  ASSUME TrainTypeOK, NEW w \in TrainWorkers, trainer[w].pc # "idle"
  PROVE  /\ trainer[w].pc \in Working /\ trainer[w].task \in JobTasks
         /\ JobOf(w) \in Jobs /\ trainer[w] # AtRest
BY DEF TrainTypeOK, AtRest, JobTasks, JobOf

LEMMA GoesFacts ==
  ASSUME TrainTypeOK, NEW w \in TrainWorkers, trainer[w].pc # "idle",
         NEW x \in Working, Goes(w, x)
  PROVE  /\ trainer' \in [TrainWorkers -> TrainerRows]
         /\ trainer'[w].pc = x /\ trainer'[w].task = trainer[w].task
         /\ \A v \in TrainWorkers \ {w} : trainer'[v] = trainer[v]
<1>1. trainer[w] \in [pc : Working, task : JobTasks]
  BY TrainerFacts DEF TrainTypeOK, AtRest
<1>2. [trainer[w] EXCEPT !.pc = x] \in [pc : Working, task : JobTasks]
  BY <1>1
<1>3. trainer' = [trainer EXCEPT ![w] = [trainer[w] EXCEPT !.pc = x]]
  BY DEF Goes
<1> QED BY <1>1, <1>2, <1>3 DEF TrainTypeOK, TrainerRows

LEMMA RestFacts ==
  ASSUME TrainTypeOK, NEW w \in TrainWorkers, trainer' = [trainer EXCEPT ![w] = AtRest]
  PROVE  /\ trainer' \in [TrainWorkers -> TrainerRows]
         /\ trainer'[w].pc = "idle"
         /\ \A v \in TrainWorkers \ {w} : trainer'[v] = trainer[v]
BY DEF TrainTypeOK, TrainerRows, AtRest

LEMMA EnqueueFacts ==
  ASSUME TrainTypeOK, NEW t \in JobTasks, Enqueue(t)
  PROVE  jobQueue' \in [JobTasks -> 0 .. MaxCopies]
BY TrainingAssumption DEF TrainTypeOK, Enqueue

LEMMA StatusFacts ==
  ASSUME TrainTypeOK, NEW j \in Jobs,
         NEW s \in {"NONE", "PENDING", "RUNNING"} \cup Settled,
         job' = [job EXCEPT ![j].status = s]
  PROVE  /\ job' \in [Jobs -> JobRows]
         /\ job'[j].status = s /\ job'[j].progress = job[j].progress
         /\ job'[j].artifact = job[j].artifact
         /\ \A k \in Jobs \ {j} : job'[k] = job[k]
BY DEF TrainTypeOK, JobRows

-----------------------------------------------------------------------------
(***************************************************************************)
(* The steps of the training                                               *)
(***************************************************************************)
\* A worker that gives up its job, or goes on with it, disturbs nothing.
MovesOn ==
  \A w \in TrainWorkers : trainer'[w].pc \in Running =>
    /\ trainer[w].pc \in Running /\ trainer'[w].task = trainer[w].task
    /\ trainer[w].pc = "locked" <=> trainer'[w].pc = "locked"

LEMMA MoveKept ==
  ASSUME TrainTypeOK, TrainInv, MovesOn, UNCHANGED <<job, runs>>
  PROVE  TrainInv'
<1>1. TrainedOnce' /\ NotRunYet' /\ ResultIsWhole'
  BY DEF TrainInv, TrainedOnce, NotRunYet, ResultIsWhole
<1>2. OneRunner'
  BY DEF TrainInv, OneRunner, MovesOn, JobOf
<1>3. LockedIsPending' /\ RunnerIsOpen'
  BY DEF TrainInv, LockedIsPending, RunnerIsOpen, MovesOn, JobOf, Running
<1> QED BY <1>1, <1>2, <1>3 DEF TrainInv

\* Nor does marking a job FAILED whose row nobody has locked.
LEMMA FailedKept ==
  ASSUME TrainTypeOK, TrainInv, MovesOn, UNCHANGED runs, NEW j \in Jobs, Writable(j),
         job' = [job EXCEPT ![j].status = "FAILED"]
  PROVE  TrainInv'
<1>1. /\ job'[j].status = "FAILED" /\ job'[j].progress = job[j].progress
      /\ job'[j].artifact = job[j].artifact
      /\ \A k \in Jobs \ {j} : job'[k] = job[k]
  BY StatusFacts DEF Settled
<1>2. TrainedOnce' /\ NotRunYet'
  BY <1>1 DEF TrainInv, TrainedOnce, NotRunYet
<1>3. ResultIsWhole'
  BY <1>1 DEF TrainInv, ResultIsWhole, Settled
<1>4. OneRunner'
  BY DEF TrainInv, OneRunner, MovesOn, JobOf
<1>5. ASSUME NEW w \in TrainWorkers, trainer'[w].pc \in Running
      PROVE  JobOf(w)' = JobOf(w) /\ JobOf(w) \in Jobs
  BY <1>5, TrainerFacts DEF MovesOn, JobOf, Running
<1>6. LockedIsPending'
  BY <1>1, <1>5 DEF TrainInv, LockedIsPending, MovesOn, Running, Writable
<1>7. RunnerIsOpen'
  BY <1>1, <1>5 DEF TrainInv, RunnerIsOpen, MovesOn, Running
<1> QED BY <1>2, <1>3, <1>4, <1>6, <1>7 DEF TrainInv

LEMMA StartStep ==
  ASSUME NEW j \in Jobs, TrainTypeOK, TrainInv, StartTraining(j) PROVE TrainTypeOK' /\ TrainInv'
<1>1. job[j].status = "NONE" /\ job' = [job EXCEPT ![j].status = "PENDING"]
        /\ UNCHANGED <<sent, jobQueue, trainer, cancel, runs, losses, faults>>
  BY DEF StartTraining
<1>2. /\ job' \in [Jobs -> JobRows] /\ job'[j].status = "PENDING"
      /\ job'[j].artifact = job[j].artifact
      /\ \A k \in Jobs \ {j} : job'[k] = job[k]
  BY <1>1, StatusFacts
<1>3. TrainTypeOK'
  BY <1>1, <1>2 DEF TrainTypeOK
<1>4. TrainedOnce' /\ NotRunYet' /\ OneRunner'
  BY <1>1, <1>2 DEF TrainInv, TrainedOnce, NotRunYet, OneRunner, JobOf
<1>5. ResultIsWhole'
  BY <1>1, <1>2 DEF TrainInv, ResultIsWhole, Settled
<1>6. ASSUME NEW w \in TrainWorkers, trainer[w].pc \in Running
      PROVE  JobOf(w)' = JobOf(w) /\ JobOf(w) \in Jobs
  BY <1>1, <1>6, TrainerFacts DEF Running, JobOf
<1>7. LockedIsPending' /\ RunnerIsOpen'
  BY <1>1, <1>2, <1>6 DEF TrainInv, LockedIsPending, RunnerIsOpen, Running
<1> QED BY <1>3, <1>4, <1>5, <1>7 DEF TrainInv

LEMMA SendStep ==
  ASSUME NEW j \in Jobs, TrainTypeOK, TrainInv, SendJob(j) \/ SendFails(j)
  PROVE  TrainTypeOK' /\ TrainInv'
<1>1. UNCHANGED <<job, trainer, cancel, runs, losses, faults>>
  BY DEF SendJob, SendFails
<1>2. sent' \in [Jobs -> {"no", "sent", "lost", "abandoned"}]
  BY DEF SendJob, SendFails, TrainTypeOK
<1>3. jobQueue' \in [JobTasks -> 0 .. MaxCopies]
  <2>1. [job |-> j, tries |-> 0] \in JobTasks
    BY TrainingAssumption DEF JobTasks
  <2> QED BY <2>1, EnqueueFacts DEF SendJob, SendFails, TrainTypeOK
<1>4. TrainTypeOK'
  BY <1>1, <1>2, <1>3 DEF TrainTypeOK
<1> QED BY <1>1, <1>4, MoveKept DEF MovesOn

LEMMA CancelStep ==
  ASSUME NEW c \in Cancels, NEW j \in Jobs, TrainTypeOK, TrainInv,
         CancelLoads(c, j) \/ CancelWrites(c)
  PROVE  TrainTypeOK' /\ TrainInv'
<1>1. UNCHANGED <<sent, jobQueue, trainer, runs, losses, faults>> /\ MovesOn
  BY DEF CancelLoads, CancelWrites, MovesOn
<1>2. CASE CancelLoads(c, j)
  <2>1. UNCHANGED job /\ cancel' = [cancel EXCEPT ![c] = [pc |-> "loaded", job |-> j]]
    BY <1>2 DEF CancelLoads
  <2>2. TrainTypeOK'
    BY <1>1, <2>1 DEF TrainTypeOK
  <2> QED BY <1>1, <2>1, <2>2, MoveKept
<1>3. CASE CancelWrites(c)
  <2>1. PICK k \in Jobs : k = cancel[c].job
    BY <1>3 DEF CancelWrites, TrainTypeOK, AtRest
  <2>2. Writable(k) /\ job' = [job EXCEPT ![k].status = "FAILED"]
          /\ cancel' = [cancel EXCEPT ![c] = [pc |-> "done"]]
    BY <1>3, <2>1 DEF CancelWrites
  <2>3. job' \in [Jobs -> JobRows]
    BY <2>2, StatusFacts DEF Settled
  <2>4. TrainTypeOK'
    BY <1>1, <2>2, <2>3 DEF TrainTypeOK
  <2> QED BY <1>1, <2>2, <2>4, FailedKept
<1> QED BY <1>2, <1>3

LEMMA TakeStep ==
  ASSUME NEW w \in TrainWorkers, NEW t \in JobTasks, TrainTypeOK, TrainInv, TakeJob(w, t)
  PROVE  TrainTypeOK' /\ TrainInv'
<1>1. /\ UNCHANGED <<job, sent, cancel, runs, losses, faults>>
      /\ trainer' = [trainer EXCEPT ![w] = [pc |-> "taken", task |-> t]]
      /\ jobQueue' = [jobQueue EXCEPT ![t] = @ - 1] /\ jobQueue[t] > 0
  BY DEF TakeJob
<1>2. jobQueue' \in [JobTasks -> 0 .. MaxCopies]
  BY <1>1, TrainingAssumption DEF TrainTypeOK
<1>3. trainer' \in [TrainWorkers -> {AtRest} \cup [pc : Working, task : JobTasks]]
  BY <1>1 DEF TrainTypeOK, Working
<1>4. MovesOn
  BY <1>1 DEF TrainTypeOK, MovesOn, Running
<1>5. TrainTypeOK'
  BY <1>1, <1>2, <1>3 DEF TrainTypeOK
<1> QED BY <1>1, <1>4, <1>5, MoveKept

LEMMA LoadStep ==
  ASSUME NEW w \in TrainWorkers, TrainTypeOK, TrainInv, LoadJob(w)
  PROVE  TrainTypeOK' /\ TrainInv'
<1>1. /\ UNCHANGED <<job, sent, jobQueue, cancel, runs, losses, faults>>
      /\ trainer[w].pc = "taken" /\ Writable(JobOf(w)) /\ JobOf(w) \in Jobs
  BY TrainerFacts DEF LoadJob, Granted
<1>2. CASE job[JobOf(w)].status # "PENDING"
  <2>1. Goes(w, "report")
    BY <1>2 DEF LoadJob, Startable
  <2>2. /\ trainer' \in [TrainWorkers -> TrainerRows] /\ trainer'[w].pc = "report"
        /\ \A v \in TrainWorkers \ {w} : trainer'[v] = trainer[v]
    BY <1>1, <2>1, GoesFacts DEF Working
  <2>3. TrainTypeOK' /\ MovesOn
    BY <1>1, <2>2 DEF TrainTypeOK, TrainerRows, MovesOn, Running
  <2> QED BY <1>1, <2>3, MoveKept
<1>3. CASE job[JobOf(w)].status = "PENDING"
  <2>1. Goes(w, "locked")
    BY <1>3 DEF LoadJob, Startable
  <2>2. /\ trainer' \in [TrainWorkers -> TrainerRows]
        /\ trainer'[w].pc = "locked" /\ trainer'[w].task = trainer[w].task
        /\ \A v \in TrainWorkers \ {w} : trainer'[v] = trainer[v]
    BY <1>1, <2>1, GoesFacts DEF Working
  <2>3. TrainTypeOK'
    BY <1>1, <2>2 DEF TrainTypeOK, TrainerRows
  <2>4. TrainedOnce' /\ NotRunYet' /\ ResultIsWhole'
    BY <1>1 DEF TrainInv, TrainedOnce, NotRunYet, ResultIsWhole
  <2>5. \A v \in TrainWorkers : trainer[v].pc \in Running => JobOf(v) # JobOf(w)
    BY <1>1, <1>3 DEF TrainInv, RunnerIsOpen, Writable, Running
  <2>6. OneRunner'
    BY <2>2, <2>5 DEF TrainInv, OneRunner, JobOf
  <2>7. LockedIsPending' /\ RunnerIsOpen'
    BY <1>1, <1>3, <2>2 DEF TrainInv, LockedIsPending, RunnerIsOpen, JobOf
  <2> QED BY <2>3, <2>4, <2>6, <2>7 DEF TrainInv
<1> QED BY <1>2, <1>3

LEMMA MarkRunningStep ==
  ASSUME NEW w \in TrainWorkers, TrainTypeOK, TrainInv, MarkRunning(w)
  PROVE  TrainTypeOK' /\ TrainInv'
<1>1. PICK j \in Jobs : j = JobOf(w)
  BY TrainerFacts DEF MarkRunning
<1>2. /\ trainer[w].pc = "locked" /\ Goes(w, "train")
      /\ job' = [job EXCEPT ![j].status = "RUNNING"] /\ runs' = [runs EXCEPT ![j] = @ + 1]
      /\ UNCHANGED <<sent, jobQueue, cancel, losses, faults>>
  BY <1>1 DEF MarkRunning
<1>3. /\ trainer' \in [TrainWorkers -> TrainerRows]
      /\ trainer'[w].pc = "train" /\ trainer'[w].task = trainer[w].task
      /\ \A v \in TrainWorkers \ {w} : trainer'[v] = trainer[v]
  BY <1>2, GoesFacts DEF Working
<1>4. /\ job' \in [Jobs -> JobRows] /\ job'[j].status = "RUNNING"
      /\ job'[j].artifact = job[j].artifact
      /\ \A k \in Jobs \ {j} : job'[k] = job[k]
  BY <1>2, StatusFacts
<1>5. job[j].status = "PENDING" /\ runs[j] = 0
  BY <1>1, <1>2 DEF TrainInv, LockedIsPending, NotRunYet
<1>6. /\ runs' \in [Jobs -> Nat] /\ runs'[j] = 1
      /\ \A k \in Jobs \ {j} : runs'[k] = runs[k]
  BY <1>2, <1>5 DEF TrainTypeOK
<1>7. TrainTypeOK'
  BY <1>2, <1>3, <1>4, <1>6 DEF TrainTypeOK, TrainerRows
<1>8. job[j].artifact = None
  BY <1>5 DEF TrainInv, ResultIsWhole, Settled
<1>9. TrainedOnce' /\ NotRunYet' /\ ResultIsWhole'
  BY <1>4, <1>6, <1>8 DEF TrainInv, TrainedOnce, NotRunYet, ResultIsWhole
<1>10. OneRunner'
  BY <1>2, <1>3 DEF TrainInv, OneRunner, JobOf, Running
<1>11. ASSUME NEW v \in TrainWorkers, trainer'[v].pc \in Running, v # w
       PROVE  /\ trainer'[v] = trainer[v] /\ JobOf(v) \in Jobs \ {j} /\ JobOf(v)' = JobOf(v)
  BY <1>1, <1>2, <1>3, <1>11, TrainerFacts DEF TrainInv, OneRunner, Running, JobOf
<1>12. LockedIsPending'
  BY <1>3, <1>4, <1>11 DEF TrainInv, LockedIsPending, Running
<1>13. JobOf(w)' = j
  BY <1>1, <1>3 DEF JobOf
<1>14. RunnerIsOpen'
  BY <1>3, <1>4, <1>6, <1>8, <1>11, <1>13 DEF TrainInv, RunnerIsOpen, Running
<1> QED BY <1>7, <1>9, <1>10, <1>12, <1>14 DEF TrainInv

LEMMA ProgressStep ==
  ASSUME NEW w \in TrainWorkers, TrainTypeOK, TrainInv, UpdateProgress(w)
  PROVE  TrainTypeOK' /\ TrainInv'
<1>1. PICK j \in Jobs : j = JobOf(w)
  BY TrainerFacts DEF UpdateProgress, Polling
<1>2. /\ trainer[w].pc = "train" /\ job' = [job EXCEPT ![j].progress = 50]
      /\ UNCHANGED <<sent, jobQueue, trainer, cancel, runs, losses, faults>>
  BY <1>1 DEF UpdateProgress, Polling
<1>3. /\ job' \in [Jobs -> JobRows]
      /\ \A k \in Jobs : job'[k].status = job[k].status /\ job'[k].artifact = job[k].artifact
      /\ \A k \in Jobs \ {j} : job'[k] = job[k]
  BY <1>2 DEF TrainTypeOK, JobRows
<1>4. TrainTypeOK'
  BY <1>2, <1>3 DEF TrainTypeOK
<1>5. job[j].artifact = None
  BY <1>1, <1>2 DEF TrainInv, RunnerIsOpen
<1>6. TrainedOnce' /\ NotRunYet' /\ ResultIsWhole'
  BY <1>2, <1>3, <1>5 DEF TrainInv, TrainedOnce, NotRunYet, ResultIsWhole
<1>7. OneRunner'
  BY <1>2 DEF TrainInv, OneRunner, JobOf
<1>8. ASSUME NEW v \in TrainWorkers, trainer[v].pc \in Running
      PROVE  JobOf(v)' = JobOf(v) /\ JobOf(v) \in Jobs
  BY <1>2, <1>8, TrainerFacts DEF JobOf, Running
<1>9. LockedIsPending' /\ RunnerIsOpen'
  BY <1>2, <1>3, <1>8 DEF TrainInv, LockedIsPending, RunnerIsOpen, Running
<1> QED BY <1>4, <1>6, <1>7, <1>9 DEF TrainInv

LEMMA ResultStep ==
  ASSUME NEW w \in TrainWorkers, NEW a \in Uploaded, TrainTypeOK, TrainInv, WriteResult(w, a)
  PROVE  TrainTypeOK' /\ TrainInv'
<1>1. PICK j \in Jobs : j = JobOf(w)
  BY TrainerFacts DEF WriteResult
<1>2. /\ trainer[w].pc = "result" /\ Goes(w, "report") /\ Writable(j)
      /\ job' = [job EXCEPT ![j] = [status |-> "COMPLETED", progress |-> 100, artifact |-> a]]
      /\ UNCHANGED <<sent, jobQueue, cancel, runs, losses, faults>>
  BY <1>1 DEF WriteResult
<1>3. /\ trainer' \in [TrainWorkers -> TrainerRows] /\ trainer'[w].pc = "report"
      /\ \A v \in TrainWorkers \ {w} : trainer'[v] = trainer[v]
  BY <1>2, GoesFacts DEF Working
<1>4. /\ job' \in [Jobs -> JobRows]
      /\ job'[j] = [status |-> "COMPLETED", progress |-> 100, artifact |-> a]
      /\ \A k \in Jobs \ {j} : job'[k] = job[k]
  BY <1>2 DEF TrainTypeOK, JobRows, Settled, Uploaded
<1>5. TrainTypeOK'
  BY <1>2, <1>3, <1>4 DEF TrainTypeOK, TrainerRows
<1>6. TrainedOnce' /\ NotRunYet' /\ ResultIsWhole'
  BY <1>2, <1>4, TrainingAssumption
     DEF TrainInv, TrainedOnce, NotRunYet, ResultIsWhole, Uploaded, Settled
<1>7. OneRunner'
  BY <1>3 DEF TrainInv, OneRunner, JobOf, Running
<1>8. ASSUME NEW v \in TrainWorkers, trainer'[v].pc \in Running
      PROVE  trainer'[v] = trainer[v] /\ JobOf(v) \in Jobs \ {j} /\ JobOf(v)' = JobOf(v)
  BY <1>1, <1>2, <1>3, <1>8, TrainerFacts DEF TrainInv, OneRunner, Running, JobOf
<1>9. LockedIsPending' /\ RunnerIsOpen'
  BY <1>2, <1>4, <1>8 DEF TrainInv, LockedIsPending, RunnerIsOpen, Running
<1> QED BY <1>5, <1>6, <1>7, <1>9 DEF TrainInv

\* The steps of a worker that write no row.
LEMMA QuietStep ==
  ASSUME NEW w \in TrainWorkers, TrainTypeOK, TrainInv,
         Trains(w) \/ ReportsJob(w) \/ TransactionFails(w) \/ RetryJob(w)
           \/ TrainerDies(w) \/ BrokerLost(w) \/ TimeLimit(w)
  PROVE  TrainTypeOK' /\ TrainInv'
<1>1. UNCHANGED <<job, cancel, runs>>
  BY DEF Trains, ReportsJob, TransactionFails, RetryJob, TrainerDies, BrokerLost, TimeLimit
<1>2. losses' \in 0 .. MaxLosses /\ faults' \in 0 .. MaxFaults
  BY TrainingAssumption
     DEF TrainTypeOK, Trains, ReportsJob, TransactionFails, RetryJob, TrainerDies, BrokerLost,
         TimeLimit
<1>3. trainer[w].pc # "idle"
  BY TrainerFacts DEF TrainTypeOK, AtRest, Working, Trains, ReportsJob, TransactionFails, RetryJob,
       TrainerDies, BrokerLost, TimeLimit
<1>4. jobQueue' \in [JobTasks -> 0 .. MaxCopies]
  <2>1. trainer[w].task \in JobTasks
    BY <1>3, TrainerFacts
  <2>2. CASE TrainerDies(w) \/ BrokerLost(w)
    BY <2>1, <2>2, EnqueueFacts DEF TrainerDies, BrokerLost, Redeliver
  <2>3. CASE RetryJob(w) /\ ~ UNCHANGED jobQueue
    <3>1. trainer[w].task.tries < MaxRetries /\ Enqueue([trainer[w].task EXCEPT !.tries = @ + 1])
      BY <2>3 DEF RetryJob
    <3>2. [trainer[w].task EXCEPT !.tries = @ + 1] \in JobTasks
      BY <2>1, <3>1, TrainingAssumption DEF JobTasks
    <3> QED BY <3>1, <3>2, EnqueueFacts
  <2>4. CASE UNCHANGED jobQueue
    BY <2>4 DEF TrainTypeOK
  <2> QED BY <2>2, <2>3, <2>4 DEF Trains, ReportsJob, TransactionFails, RetryJob, TimeLimit
<1>5. sent' \in [Jobs -> {"no", "sent", "lost", "abandoned"}]
  BY DEF TrainTypeOK, Trains, ReportsJob, TransactionFails, RetryJob, TrainerDies, BrokerLost,
         TimeLimit
<1>6. trainer' \in [TrainWorkers -> TrainerRows] /\ MovesOn
  <2>1. ASSUME NEW x \in Working, Goes(w, x),
               x \in Running => x = "result" /\ trainer[w].pc = "train"
        PROVE  trainer' \in [TrainWorkers -> TrainerRows] /\ MovesOn
    BY <1>3, <2>1, GoesFacts DEF MovesOn, Running
  <2>2. CASE trainer' = [trainer EXCEPT ![w] = AtRest]
    BY <2>2, RestFacts DEF MovesOn, Running
  <2>3. CASE UNCHANGED trainer
    BY <2>3 DEF TrainTypeOK, TrainerRows, MovesOn
  <2>4. CASE Trains(w) \/ TransactionFails(w)
    BY <2>1, <2>4 DEF Trains, TransactionFails, Working, Running
  <2> QED BY <2>2, <2>3, <2>4 DEF ReportsJob, RetryJob, TrainerDies, BrokerLost, TimeLimit
<1>7. TrainTypeOK'
  BY <1>1, <1>2, <1>4, <1>5, <1>6 DEF TrainTypeOK, TrainerRows
<1> QED BY <1>1, <1>6, <1>7, MoveKept

LEMMA FailStep ==
  ASSUME NEW w \in TrainWorkers, TrainTypeOK, TrainInv, WriteFailure(w) \/ MarkFailed(w)
  PROVE  TrainTypeOK' /\ TrainInv'
<1>1. PICK j \in Jobs : j = JobOf(w)
  BY TrainerFacts DEF WriteFailure, MarkFailed
<1>2. /\ trainer[w].pc \in {"broken", "raised"}
      /\ Goes(w, "raised") \/ Goes(w, "again")
      /\ Writable(j) /\ job' = [job EXCEPT ![j].status = "FAILED"]
      /\ UNCHANGED <<sent, jobQueue, cancel, runs, losses, faults>>
  BY <1>1 DEF WriteFailure, MarkFailed
<1>3. /\ trainer' \in [TrainWorkers -> TrainerRows] /\ trainer'[w].pc \notin Running
      /\ \A v \in TrainWorkers \ {w} : trainer'[v] = trainer[v]
  BY <1>2, GoesFacts DEF Working, Running
<1>4. job' \in [Jobs -> JobRows]
  BY <1>2, StatusFacts DEF Settled
<1>5. TrainTypeOK' /\ MovesOn
  BY <1>2, <1>3, <1>4 DEF TrainTypeOK, TrainerRows, MovesOn
<1> QED BY <1>2, <1>5, FailedKept

LEMMA TrainStep ==
  ASSUME TrainTypeOK, TrainInv, TrainNext PROVE TrainTypeOK' /\ TrainInv'
<1>1. ASSUME NEW w \in TrainWorkers, WorkerStep(w) PROVE TrainTypeOK' /\ TrainInv'
  BY <1>1, LoadStep, MarkRunningStep, ResultStep, QuietStep, FailStep DEF WorkerStep
<1>2. ASSUME NEW w \in TrainWorkers,
             \/ UpdateProgress(w) \/ TransactionFails(w)
             \/ TrainerDies(w) \/ BrokerLost(w) \/ TimeLimit(w)
      PROVE  TrainTypeOK' /\ TrainInv'
  BY <1>2, ProgressStep, QuietStep
<1>3. ASSUME NEW c \in Cancels, CancelWrites(c) PROVE TrainTypeOK' /\ TrainInv'
  <2>1. \E j \in Jobs : TRUE
    BY <1>3 DEF CancelWrites, TrainTypeOK, AtRest
  <2> QED BY <1>3, <2>1, CancelStep
<1> QED BY <1>1, <1>2, <1>3, StartStep, SendStep, CancelStep, TakeStep DEF TrainNext

LEMMA TrainStarts == TrainInit => TrainTypeOK /\ TrainInv
<1> SUFFICES ASSUME TrainInit PROVE TrainTypeOK /\ TrainInv
  OBVIOUS
<1>1. TrainTypeOK
  BY TrainingAssumption DEF TrainInit, TrainTypeOK, JobRows
<1>2. OneRunner /\ LockedIsPending /\ RunnerIsOpen
  BY DEF TrainInit, OneRunner, LockedIsPending, RunnerIsOpen, Running, AtRest
<1>3. TrainedOnce /\ NotRunYet /\ ResultIsWhole
  BY DEF TrainInit, TrainedOnce, NotRunYet, ResultIsWhole
<1> QED BY <1>1, <1>2, <1>3 DEF TrainInv

\* No step takes back a result or, but for that of its one run, a failure.
LEMMA OutcomeStep ==
  ASSUME TrainTypeOK, TrainInv, TrainNext, NEW j \in Jobs
  PROVE  /\ job[j].status = "FAILED" /\ job'[j].status # "FAILED"
              => /\ job'[j].status = "COMPLETED" /\ runs[j] = 1
                 /\ job[j].artifact = None
         /\ job[j].artifact # None => job'[j].artifact = job[j].artifact
<1> DEFINE Goal ==
      /\ job[j].status = "FAILED" /\ job'[j].status # "FAILED"
           => /\ job'[j].status = "COMPLETED" /\ runs[j] = 1 /\ job[j].artifact = None
      /\ job[j].artifact # None => job'[j].artifact = job[j].artifact
<1>1. CASE UNCHANGED job
  BY <1>1
<1>2. ASSUME NEW k \in Jobs, job' = [job EXCEPT ![k].status = "FAILED"] PROVE Goal
  BY <1>2, StatusFacts DEF Settled
<1>3. ASSUME NEW k \in Jobs, StartTraining(k) PROVE Goal
  <2>1. job[k].status = "NONE" /\ job' = [job EXCEPT ![k].status = "PENDING"]
    BY <1>3 DEF StartTraining
  <2> QED BY <2>1, StatusFacts
<1>4. ASSUME NEW w \in TrainWorkers, MarkRunning(w) PROVE Goal
  <2>1. PICK k \in Jobs : k = JobOf(w)
    BY <1>4, TrainerFacts DEF MarkRunning
  <2>2. job[k].status = "PENDING" /\ job' = [job EXCEPT ![k].status = "RUNNING"]
    BY <1>4, <2>1 DEF MarkRunning, TrainInv, LockedIsPending
  <2> QED BY <2>2, StatusFacts
<1>5. ASSUME NEW w \in TrainWorkers, UpdateProgress(w) PROVE Goal
  <2>1. PICK k \in Jobs : k = JobOf(w)
    BY <1>5, TrainerFacts DEF UpdateProgress, Polling
  <2>2. job' = [job EXCEPT ![k].progress = 50]
    BY <1>5, <2>1 DEF UpdateProgress
  <2> QED BY <2>2 DEF TrainTypeOK, JobRows
<1>6. ASSUME NEW w \in TrainWorkers, NEW a \in Uploaded, WriteResult(w, a) PROVE Goal
  <2>1. PICK k \in Jobs : k = JobOf(w)
    BY <1>6, TrainerFacts DEF WriteResult
  <2>2. /\ trainer[w].pc = "result"
        /\ job' = [job EXCEPT ![k] = [status |-> "COMPLETED", progress |-> 100, artifact |-> a]]
    BY <1>6, <2>1 DEF WriteResult
  <2>3. runs[k] = 1 /\ job[k].artifact = None
    BY <2>1, <2>2 DEF TrainInv, RunnerIsOpen
  <2> QED BY <2>2, <2>3 DEF TrainTypeOK
<1>7. ASSUME NEW w \in TrainWorkers, WriteFailure(w) \/ MarkFailed(w) PROVE Goal
  <2>1. PICK k \in Jobs : k = JobOf(w)
    BY <1>7, TrainerFacts DEF WriteFailure, MarkFailed
  <2> QED BY <1>2, <1>7, <2>1 DEF WriteFailure, MarkFailed
<1>8. ASSUME NEW c \in Cancels, CancelWrites(c) PROVE Goal
  <2>1. PICK k \in Jobs : k = cancel[c].job
    BY <1>8 DEF CancelWrites, TrainTypeOK, AtRest
  <2> QED BY <1>2, <1>8, <2>1 DEF CancelWrites
<1>9. ASSUME NEW w \in TrainWorkers, WorkerStep(w) PROVE Goal
  <2>1. CASE LoadJob(w) \/ Trains(w) \/ ReportsJob(w) \/ RetryJob(w)
    BY <1>1, <2>1 DEF LoadJob, Trains, ReportsJob, RetryJob
  <2> QED BY <1>4, <1>6, <1>7, <1>9, <2>1 DEF WorkerStep
<1>10. \/ UNCHANGED job
       \/ \E k \in Jobs : StartTraining(k)
       \/ \E c \in Cancels : CancelWrites(c)
       \/ \E w \in TrainWorkers : WorkerStep(w) \/ UpdateProgress(w)
  BY DEF TrainNext, SendJob, SendFails, CancelLoads, TakeJob, TransactionFails, TrainerDies,
         BrokerLost, TimeLimit
<1> QED BY <1>1, <1>3, <1>5, <1>8, <1>9, <1>10

-----------------------------------------------------------------------------
(***************************************************************************)
(* The registry                                                            *)
(***************************************************************************)
\* What was read of a completed job, and what was inserted, is still its result.
IsResult(row) == row.artifact # None /\ job[row.job].artifact = row.artifact

InsertIsResult ==
  \A r \in Requests : request[r].pc = "insert" =>
    IsResult(request[r].row) /\ request[r].row.active = FALSE
ModelIsResult == \A i \in Deployed : IsResult(model[i])

\* The rows that a request goes on with exist.
TargetsExist ==
  \A r \in Requests :
    /\ request[r].pc \in {"loaded", "both"} => request[r].id \in Deployed
    /\ request[r].pc = "both" => request[r].current \in Deployed \cup {None}

ActiveAreOne == \A i, k \in ActiveIds : i = k

RegInv ==
  /\ InsertIsResult /\ ModelIsResult /\ TargetsExist /\ ActiveAreOne

IInv == TypeOK /\ TrainInv /\ RegInv

LEMMA RowFacts ==
  ASSUME TypeOK, NEW i \in Ids
  PROVE  /\ i \in Deployed <=> model[i] \in ModelRows
         /\ Absent \notin ModelRows
BY TrainingAssumption DEF TypeOK, Deployed, Absent, ModelRows

LEMMA RequestFacts ==
  ASSUME TypeOK, NEW r \in Requests
  PROVE  /\ request[r].pc = "insert" => request[r].row \in ModelRows
         /\ request[r].pc \in {"loaded", "both"} => request[r].id \in Ids
BY DEF TypeOK, RequestRows, AtRest

\* The steps of the training do not touch what the registry relies on.
LEMMA TrainKeepsRegistry ==
  ASSUME IInv, TrainNext, UNCHANGED regVars PROVE IInv'
<1>1. UNCHANGED <<model, request>>
  BY DEF regVars
<1>2. TrainTypeOK /\ TrainInv
  BY DEF IInv, TypeOK
<1>3. TypeOK' /\ TrainInv'
  BY <1>1, <1>2, TrainStep DEF IInv, TypeOK
<1>4. Deployed' = Deployed /\ ActiveIds' = ActiveIds
  BY <1>1 DEF Deployed, ActiveIds
<1>5. \A j \in Jobs : job[j].artifact # None => job'[j].artifact = job[j].artifact
  BY <1>2, OutcomeStep
<1>6. InsertIsResult'
  BY <1>1, <1>5, RequestFacts DEF IInv, RegInv, InsertIsResult, IsResult, ModelRows
<1>7. ModelIsResult'
  BY <1>1, <1>4, <1>5, RowFacts DEF IInv, RegInv, ModelIsResult, IsResult, ModelRows, Deployed
<1>8. TargetsExist' /\ ActiveAreOne'
  BY <1>1, <1>4 DEF IInv, RegInv, TargetsExist, ActiveAreOne
<1> QED BY <1>3, <1>6, <1>7, <1>8 DEF IInv, RegInv

LEMMA TrainUntouched ==
  ASSUME TrainTypeOK, TrainInv, UNCHANGED trainVars PROVE TrainTypeOK' /\ TrainInv'
<1>1. UNCHANGED <<job, sent, jobQueue, trainer, cancel, runs, losses, faults>>
  BY DEF trainVars
<1>2. MovesOn
  BY <1>1 DEF MovesOn
<1> QED BY <1>1, <1>2, MoveKept DEF TrainTypeOK

\* A request that moves on and changes no row.
LEMMA RequestMoves ==
  ASSUME IInv, UNCHANGED <<trainVars, model>>, NEW r \in Requests,
         NEW q \in RequestRows, request' = [request EXCEPT ![r] = q],
         q.pc = "insert" => IsResult(q.row) /\ q.row.active = FALSE,
         q.pc \in {"loaded", "both"} => q.id \in Deployed,
         q.pc = "both" => q.current \in Deployed \cup {None}
  PROVE  IInv'
<1>1. UNCHANGED <<job, model>> /\ UNCHANGED trainVars
  BY DEF trainVars
<1>2. TrainTypeOK' /\ TrainInv'
  BY <1>1, TrainUntouched DEF IInv, TypeOK
<1>3. /\ request' \in [Requests -> RequestRows] /\ request'[r] = q
      /\ \A p \in Requests \ {r} : request'[p] = request[p]
  BY DEF IInv, TypeOK
<1>4. TypeOK'
  BY <1>1, <1>2, <1>3 DEF IInv, TypeOK
<1>5. Deployed' = Deployed /\ ActiveIds' = ActiveIds
  BY <1>1 DEF Deployed, ActiveIds
<1>6. InsertIsResult'
  BY <1>1, <1>3 DEF IInv, RegInv, InsertIsResult, IsResult
<1>7. TargetsExist'
  BY <1>3, <1>5 DEF IInv, RegInv, TargetsExist
<1>8. ModelIsResult' /\ ActiveAreOne'
  BY <1>1, <1>5 DEF IInv, RegInv, ModelIsResult, IsResult, ActiveAreOne
<1> QED BY <1>2, <1>4, <1>6, <1>7, <1>8 DEF IInv, RegInv

LEMMA VersionFacts == NextVersion \in 1 .. Cardinality(Ids) + 1
<1>1. Deployed \subseteq Ids /\ IsFiniteSet(Ids)
  BY RegistryAssumption DEF Deployed
<1>2. Cardinality(Deployed) \in Nat /\ Cardinality(Ids) \in Nat
        /\ Cardinality(Deployed) <= Cardinality(Ids)
  BY <1>1, FS_Subset, FS_CardinalityType
<1> QED BY <1>2 DEF NextVersion

LEMMA ReadStep ==
  ASSUME IInv, NEW r \in Deploys, NEW j \in Jobs, DeployReads(r, j) PROVE IInv'
<1> DEFINE row == [job |-> j, version |-> NextVersion,
                   artifact |-> job[j].artifact, active |-> FALSE]
           q == [pc |-> "insert", row |-> row]
<1>1. job[j].artifact \in {None, "stored", "lost"} /\ job[j].artifact # None
  BY DEF IInv, TypeOK, TrainTypeOK, JobRows, DeployReads, Deployable
<1>2. row \in ModelRows
  BY <1>1, VersionFacts DEF ModelRows
<1>3. q \in RequestRows
  BY <1>2 DEF RequestRows
<1>4. IsResult(q.row) /\ q.row.active = FALSE /\ q.pc = "insert"
  BY <1>1 DEF IsResult
<1>5. r \in Requests /\ request' = [request EXCEPT ![r] = q]
        /\ UNCHANGED <<trainVars, model>>
  BY DEF Requests, DeployReads
<1> HIDE DEF q
<1> QED BY <1>3, <1>4, <1>5, RequestMoves

LEMMA LoadStepOfRequest ==
  ASSUME IInv, NEW r \in Requests, NEW i \in Ids, LoadTarget(r, i) PROVE IInv'
<1> DEFINE q == [pc |-> "loaded", id |-> i, was |-> model[i].active]
<1>1. i \in Deployed /\ model[i] \in ModelRows
  BY RowFacts DEF LoadTarget, IInv
<1>2. q \in RequestRows /\ q.pc = "loaded" /\ q.id = i
  BY <1>1 DEF RequestRows, ModelRows
<1>3. request' = [request EXCEPT ![r] = q] /\ UNCHANGED <<trainVars, model>>
  BY DEF LoadTarget
<1> HIDE DEF q
<1> QED BY <1>1, <1>2, <1>3, RequestMoves

LEMMA CurrentStep ==
  ASSUME IInv, NEW r \in Requests, LoadCurrent(r) PROVE IInv'
<1>1. PICK c \in ActiveIds \cup {None} :
        request' = [request EXCEPT ![r] = [pc |-> "both", id |-> request[r].id,
                      was |-> request[r].was, current |-> c]]
  BY DEF LoadCurrent
<1> DEFINE q == [pc |-> "both", id |-> request[r].id, was |-> request[r].was, current |-> c]
<1>2. c \in Deployed \cup {None} /\ c \in Ids \cup {None}
  BY <1>1 DEF ActiveIds, Deployed
<1>3. request[r].pc = "loaded" /\ request[r].id \in Ids /\ request[r].was \in BOOLEAN
  BY DEF LoadCurrent, IInv, TypeOK, RequestRows, AtRest
<1>4. q \in RequestRows /\ q.pc = "both" /\ q.id \in Deployed /\ q.current = c
  BY <1>2, <1>3 DEF RequestRows, IInv, RegInv, TargetsExist
<1>5. request' = [request EXCEPT ![r] = q] /\ UNCHANGED <<trainVars, model>>
  BY <1>1 DEF LoadCurrent
<1> HIDE DEF q
<1> QED BY <1>2, <1>4, <1>5, RequestMoves

LEMMA InsertStep ==
  ASSUME IInv, NEW r \in Deploys, NEW i \in Ids, DeployInserts(r, i) PROVE IInv'
<1>1. /\ r \in Requests /\ request[r].pc = "insert" /\ i \notin Deployed
      /\ model' = [model EXCEPT ![i] = request[r].row]
      /\ request' = [request EXCEPT ![r] = [pc |-> "done"]]
      /\ UNCHANGED job /\ UNCHANGED trainVars
  BY DEF DeployInserts, Requests, trainVars
<1>2. TrainTypeOK' /\ TrainInv'
  BY <1>1, TrainUntouched DEF IInv, TypeOK
<1>3. /\ request[r].row \in ModelRows /\ request[r].row.active = FALSE
      /\ IsResult(request[r].row)
  BY <1>1, RequestFacts DEF IInv, RegInv, InsertIsResult
<1>4. /\ model'[i] = request[r].row /\ \A k \in Ids \ {i} : model'[k] = model[k]
      /\ model' \in [Ids -> ModelRows \cup {Absent}]
  BY <1>1, <1>3 DEF IInv, TypeOK
<1>5. /\ request' \in [Requests -> RequestRows] /\ request'[r].pc = "done"
      /\ \A p \in Requests \ {r} : request'[p] = request[p]
  BY <1>1 DEF IInv, TypeOK, RequestRows
<1>6. TypeOK'
  BY <1>1, <1>2, <1>4, <1>5 DEF IInv, TypeOK
<1>7. Deployed' = Deployed \cup {i}
  BY <1>3, <1>4, RowFacts DEF IInv, Deployed
<1>8. ActiveIds' = ActiveIds
  <2>1. i \notin ActiveIds /\ i \notin ActiveIds'
    BY <1>1, <1>3, <1>4 DEF ActiveIds
  <2> QED BY <1>4, <1>7, <2>1 DEF ActiveIds, Deployed
<1>9. InsertIsResult'
  BY <1>1, <1>5 DEF IInv, RegInv, InsertIsResult, IsResult
<1>10. ModelIsResult'
  BY <1>1, <1>3, <1>4, <1>7 DEF IInv, RegInv, ModelIsResult, IsResult, Deployed
<1>11. TargetsExist'
  BY <1>5, <1>7 DEF IInv, RegInv, TargetsExist
<1>12. ActiveAreOne'
  BY <1>8 DEF IInv, RegInv, ActiveAreOne
<1> QED BY <1>2, <1>6, <1>9, <1>10, <1>11, <1>12 DEF IInv, RegInv

\* Whatever rows a session believed active, the unique index lets it activate its
\* target only when no other model stays active.
LEMMA SwapKeeps ==
  ASSUME IInv, UNCHANGED trainVars,
         NEW r \in Requests, request[r].pc \in {"loaded", "both"},
         NEW off \in SUBSET Deployed, NEW on \in SUBSET {request[r].id}, Swap(r, off, on)
  PROVE  IInv'
<1>1. UNCHANGED job /\ UNCHANGED trainVars
  BY DEF trainVars
<1>2. TrainTypeOK' /\ TrainInv'
  BY <1>1, TrainUntouched DEF IInv, TypeOK
<1>3. request[r].id \in Ids /\ request[r].id \in Deployed
  BY RequestFacts DEF IInv, RegInv, TargetsExist
<1>4. CASE ~ Unique(off, on)
  <2>1. UNCHANGED model /\ request' = [request EXCEPT ![r] = [pc |-> "failed"]]
    BY <1>4 DEF Swap, Failed
  <2> DEFINE q == [pc |-> "failed"]
  <2>2. q \in RequestRows /\ q.pc = "failed"
    BY DEF RequestRows
  <2>3. request' = [request EXCEPT ![r] = q]
    BY <2>1
  <2> HIDE DEF q
  <2> QED BY <1>1, <2>1, <2>2, <2>3, RequestMoves
<1>5. CASE Unique(off, on)
  <2>1. /\ model' = [i \in Ids |-> IF i \in on  THEN [model[i] EXCEPT !.active = TRUE]
                              ELSE IF i \in off THEN [model[i] EXCEPT !.active = FALSE]
                              ELSE model[i]]
        /\ request' = [request EXCEPT ![r] = [pc |-> "done"]]
    BY <1>5 DEF Swap
  <2>2. /\ request' \in [Requests -> RequestRows] /\ request'[r].pc = "done"
        /\ \A p \in Requests \ {r} : request'[p] = request[p]
    BY <1>3, <2>1 DEF IInv, TypeOK, RequestRows
  <2>3. on \subseteq Deployed /\ off \subseteq Deployed /\ Deployed \subseteq Ids
    BY <1>3 DEF Deployed
  <2>4. ASSUME NEW m \in ModelRows, NEW b \in BOOLEAN
        PROVE  /\ [m EXCEPT !.active = b] \in ModelRows
               /\ [m EXCEPT !.active = b].job = m.job
               /\ [m EXCEPT !.active = b].artifact = m.artifact
               /\ [m EXCEPT !.active = b].active = b
    BY <2>4 DEF ModelRows
  <2>5. ASSUME NEW i \in Deployed
        PROVE  /\ model'[i] \in ModelRows
               /\ model'[i].job = model[i].job /\ model'[i].artifact = model[i].artifact
               /\ model'[i].active <=> i \in on \/ (i \notin off /\ model[i].active)
    BY <2>1, <2>3, <2>4, RowFacts DEF IInv
  <2>6. ASSUME NEW i \in Ids \ Deployed PROVE model'[i] = model[i] /\ model'[i] = Absent
    BY <2>1, <2>3 DEF Deployed
  <2>7. model' \in [Ids -> ModelRows \cup {Absent}]
    BY <2>1, <2>5, <2>6
  <2>8. Deployed' = Deployed
    BY <2>5, <2>6, RowFacts DEF IInv, Deployed
  <2>9. TypeOK'
    BY <1>1, <1>2, <1>3, <2>1, <2>2, <2>3, <2>7 DEF IInv, TypeOK
  <2>10. ActiveIds' = on \cup (ActiveIds \ off)
    BY <2>3, <2>5, <2>8 DEF ActiveIds
  <2>11. ActiveAreOne'
    BY <1>5, <2>10 DEF IInv, RegInv, ActiveAreOne, Unique
  <2>12. InsertIsResult' /\ TargetsExist'
    BY <1>1, <2>2, <2>8 DEF IInv, RegInv, InsertIsResult, IsResult, TargetsExist
  <2>13. ModelIsResult'
    BY <1>1, <2>5, <2>8 DEF IInv, RegInv, ModelIsResult, IsResult
  <2> QED BY <1>2, <2>9, <2>11, <2>12, <2>13 DEF IInv, RegInv
<1> QED BY <1>4, <1>5

LEMMA ActivateStep ==
  ASSUME IInv, NEW r \in Requests, Activate(r) \/ Rollback(r) PROVE IInv'
<1>1. UNCHANGED trainVars /\ request[r].pc \in {"loaded", "both"}
  BY DEF Activate, Rollback
<1>2. CASE Activate(r)
  <2>1. ActiveIds \ {request[r].id} \in SUBSET Deployed
    BY DEF ActiveIds
  <2>2. (IF request[r].was THEN {} ELSE {request[r].id}) \in SUBSET {request[r].id}
    OBVIOUS
  <2>3. Swap(r, ActiveIds \ {request[r].id}, IF request[r].was THEN {} ELSE {request[r].id})
    BY <1>2 DEF Activate
  <2> QED BY <1>1, <2>1, <2>2, <2>3, SwapKeeps
<1>3. CASE Rollback(r)
  <2>1. {request[r].current} \ {request[r].id, None} \in SUBSET Deployed
    BY <1>3 DEF Rollback, IInv, RegInv, TargetsExist
  <2>2. (IF request[r].was THEN {} ELSE {request[r].id}) \in SUBSET {request[r].id}
    OBVIOUS
  <2>3. Swap(r, {request[r].current} \ {request[r].id, None},
             IF request[r].was THEN {} ELSE {request[r].id})
    BY <1>3 DEF Rollback
  <2> QED BY <1>1, <2>1, <2>2, <2>3, SwapKeeps
<1> QED BY <1>2, <1>3

-----------------------------------------------------------------------------
(***************************************************************************)
(* The theorems                                                            *)
(***************************************************************************)
LEMMA InitInv == Init => IInv
<1> SUFFICES ASSUME Init PROVE IInv
  OBVIOUS
<1>1. TrainTypeOK /\ TrainInv
  BY TrainStarts DEF Init
<1>2. TypeOK
  BY <1>1 DEF Init, TypeOK, RequestRows
<1>3. Deployed = {} /\ ActiveIds = {}
  BY DEF Init, Deployed, ActiveIds
<1>4. RegInv
  BY <1>3, RegistryAssumption
     DEF Init, RegInv, InsertIsResult, ModelIsResult, TargetsExist, ActiveAreOne, AtRest
<1> QED BY <1>1, <1>2, <1>4 DEF IInv

LEMMA NextInv == IInv /\ [Next]_vars => IInv'
<1> SUFFICES ASSUME IInv, [Next]_vars PROVE IInv'
  OBVIOUS
<1>1. CASE TrainNext /\ UNCHANGED regVars
  BY <1>1, TrainKeepsRegistry
<1>2. ASSUME NEW r \in Deploys,
             (\E j \in Jobs : DeployReads(r, j)) \/ \E i \in Ids : DeployInserts(r, i)
      PROVE  IInv'
  BY <1>2, ReadStep, InsertStep
<1>3. ASSUME NEW r \in Requests,
             \/ \E i \in Ids : LoadTarget(r, i)
             \/ Activate(r) \/ LoadCurrent(r) \/ Rollback(r)
      PROVE  IInv'
  BY <1>3, LoadStepOfRequest, CurrentStep, ActivateStep
<1>4. CASE UNCHANGED vars
  <2>1. UNCHANGED <<trainVars, regVars>> /\ UNCHANGED <<job, model, request>>
    BY <1>4 DEF vars, trainVars, regVars
  <2>2. TrainTypeOK' /\ TrainInv'
    BY <2>1, TrainUntouched DEF IInv, TypeOK
  <2>3. TypeOK'
    BY <2>1, <2>2 DEF IInv, TypeOK
  <2>4. Deployed' = Deployed /\ ActiveIds' = ActiveIds
    BY <2>1 DEF Deployed, ActiveIds
  <2>5. RegInv'
    BY <2>1, <2>4
       DEF IInv, RegInv, InsertIsResult, ModelIsResult, IsResult, TargetsExist, ActiveAreOne
  <2> QED BY <2>2, <2>3, <2>5 DEF IInv
<1>5. CASE RegNext
  BY <1>2, <1>3, <1>5 DEF RegNext, Requests
<1> QED BY <1>1, <1>4, <1>5 DEF Next

LEMMA Invariance == Spec => []IInv
BY InitInv, NextInv, PTL DEF Spec

\* A job is trained at most once, for any number of deliveries, workers and users who
\* cancel it: the row lock lets one worker see PENDING (run_training).
THEOREM TrainsOnce == Spec => []TrainedOnce
<1>1. IInv => TrainedOnce
  BY DEF IInv, TrainInv
<1> QED BY <1>1, Invariance, PTL

\* Types; a completed job has its result; at most one model is active, for any number
\* of activations and roll backs that work with rows they loaded earlier.
THEOREM RegistryFits == Spec => []RegistryInv
<1>1. IInv => RegistryInv
  <2> SUFFICES ASSUME IInv PROVE RegistryInv
    OBVIOUS
  <2>1. CompletedHasResult
    BY DEF IInv, TrainInv, ResultIsWhole, CompletedHasResult
  <2>2. Cardinality(ActiveIds) <= 1
    <3>1. CASE ActiveIds = {}
      BY <3>1, FS_EmptySet
    <3>2. CASE ActiveIds # {}
      <4>1. PICK i \in ActiveIds : ActiveIds = {i}
        BY <3>2 DEF IInv, RegInv, ActiveAreOne
      <4>2. Cardinality({i}) = 1
        BY FS_Singleton
      <4> QED BY <4>1, <4>2
    <3> QED BY <3>1, <3>2
  <2> QED BY <2>1, <2>2 DEF IInv, RegistryInv, OneActive
<1> QED BY <1>1, Invariance, PTL

\* Every model in the registry holds the artifact of its job, whatever became of the
\* job between the check and the insert of deploy_model and after it.
THEOREM RegistryHoldsResults == Spec => []RegistryMatchesJob
<1>1. IInv => RegistryMatchesJob
  <2> SUFFICES ASSUME IInv, NEW i \in Deployed
               PROVE  /\ model[i].artifact # None
                      /\ job[model[i].job].artifact = model[i].artifact
                      /\ job[model[i].job].progress = 100
    BY DEF RegistryMatchesJob
  <2>1. model[i].artifact # None /\ job[model[i].job].artifact = model[i].artifact
    BY DEF IInv, RegInv, ModelIsResult, IsResult
  <2>2. model[i].job \in Jobs
    BY RowFacts DEF IInv, Deployed, ModelRows
  <2> QED BY <2>1, <2>2 DEF IInv, TrainInv, ResultIsWhole
<1> QED BY <1>1, Invariance, PTL

\* No step takes a job out of FAILED but the end of the one run that was under way,
\* and none replaces a result (run_training, _mark_training_failed_async).
THEOREM OutcomesAreOfOneRun == Spec => OutcomeIsOfOneRun
<1> DEFINE Kept ==
      \A j \in Jobs :
        /\ job[j].status = "FAILED" /\ job'[j].status # "FAILED"
             => /\ job'[j].status = "COMPLETED" /\ runs[j] = 1
                /\ job[j].artifact = None
        /\ job[j].artifact # None => job'[j].artifact = job[j].artifact
<1>1. IInv /\ [Next]_vars => [Kept]_trainVars
  <2> SUFFICES ASSUME IInv, [Next]_vars PROVE [Kept]_trainVars
    OBVIOUS
  <2>1. CASE TrainNext
    <3>1. Kept
      BY <2>1, OutcomeStep DEF IInv, TypeOK
    <3> QED BY <3>1
  <2>2. CASE RegNext
    BY <2>2 DEF RegNext, DeployReads, DeployInserts, LoadTarget, Activate, LoadCurrent, Rollback
  <2>3. CASE UNCHANGED vars
    BY <2>3 DEF vars, trainVars
  <2> QED BY <2>1, <2>2, <2>3 DEF Next
<1> QED BY <1>1, Invariance, PTL DEF Spec, OutcomeIsOfOneRun

-----------------------------------------------------------------------------
(***************************************************************************)
(* CircuitBreaker, for any number of calls and any settings of the breaker *)
(***************************************************************************)

\* The breaker's own clock is the time since a failure was last recorded, and it
\* is reset only when the breaker closes.
AgeIsQuiet == age # Never => age = quiet

BreakerInv == BreakerTypeOK /\ CountsStreak /\ NeverStuck /\ AgeIsQuiet

LEMMA UpToFacts ==
  ASSUME NEW bound \in Nat, NEW n \in 0 .. bound
  PROVE  /\ UpTo(bound, n) \in 0 .. bound
         /\ n + 1 >= bound => UpTo(bound, n) = bound
         /\ n + 1 < bound => UpTo(bound, n) = n + 1 /\ UpTo(bound, n) < bound
BY DEF UpTo

LEMMA BreakerInitInv == BreakerInit => BreakerInv
<1> SUFFICES ASSUME BreakerInit PROVE BreakerInv
  OBVIOUS
<1>1. BreakerTypeOK
  BY BreakerAssumption DEF BreakerInit, BreakerTypeOK, States
<1>2. CountsStreak /\ NeverStuck /\ AgeIsQuiet
  BY BreakerAssumption DEF BreakerInit, CountsStreak, NeverStuck, AgeIsQuiet
<1> QED BY <1>1, <1>2 DEF BreakerInv

-----------------------------------------------------------------------------
(***************************************************************************)
(* The steps                                                               *)
(***************************************************************************)
LEMMA TickStep == BreakerInv /\ Tick => BreakerInv'
<1> SUFFICES ASSUME BreakerInv, Tick PROVE BreakerInv'
  OBVIOUS
<1>1. quiet' \in 0 .. Recovery /\ age' \in 0 .. Recovery \cup {Never}
  BY BreakerAssumption, UpToFacts DEF BreakerInv, BreakerTypeOK, Tick
<1>2. BreakerTypeOK'
  BY <1>1 DEF BreakerInv, BreakerTypeOK, Tick
<1>3. CountsStreak'
  BY DEF BreakerInv, CountsStreak, Tick
<1>4. NeverStuck' /\ AgeIsQuiet'
  BY <1>1, BreakerAssumption, UpToFacts
     DEF BreakerInv, BreakerTypeOK, NeverStuck, AgeIsQuiet, Never, Tick
<1> QED BY <1>2, <1>3, <1>4 DEF BreakerInv

LEMMA ServiceStep == BreakerInv /\ (GoesDown \/ ComesUp) => BreakerInv'
<1> SUFFICES ASSUME BreakerInv, GoesDown \/ ComesUp PROVE BreakerInv'
  OBVIOUS
<1>1. call' \in [Calls -> {"idle", "waiting", "doomed"}] /\ up' \in BOOLEAN
  BY DEF BreakerInv, BreakerTypeOK, GoesDown, ComesUp
<1>2. UNCHANGED <<state, failures, age, halfOpenCalls, streak, quiet>>
  BY DEF GoesDown, ComesUp
<1>3. BreakerTypeOK'
  BY <1>1, <1>2 DEF BreakerInv, BreakerTypeOK
<1>4. CountsStreak' /\ NeverStuck' /\ AgeIsQuiet'
  BY <1>2 DEF BreakerInv, CountsStreak, NeverStuck, AgeIsQuiet
<1> QED BY <1>3, <1>4 DEF BreakerInv

\* A look leaves the counts and the clock alone; it ends the open state only.
LEMMA LookFacts ==
  ASSUME BreakerTypeOK, Look
  PROVE  /\ state' \in States /\ halfOpenCalls' \in 0 .. HalfOpenMax - 1
         /\ state' = "closed" => state = "closed"
         /\ state' = "open" => state = "open"
         /\ state = "open" /\ state' # "open" => age = Recovery
<1>1. CASE MayProbe
  BY <1>1, BreakerAssumption DEF BreakerTypeOK, Look, MayProbe, States
<1>2. CASE ~ MayProbe
  BY <1>2 DEF BreakerTypeOK, Look
<1> QED BY <1>1, <1>2

LEMMA LookKeeps ==
  ASSUME BreakerInv, Look, UNCHANGED <<failures, age, up, streak, quiet>>,
         call' \in [Calls -> {"idle", "waiting", "doomed"}]
  PROVE  BreakerInv'
<1>1. BreakerTypeOK'
  BY LookFacts DEF BreakerInv, BreakerTypeOK
<1>2. CountsStreak' /\ NeverStuck' /\ AgeIsQuiet'
  BY LookFacts DEF BreakerInv, CountsStreak, NeverStuck, AgeIsQuiet
<1> QED BY <1>1, <1>2 DEF BreakerInv

LEMMA LookStep == ASSUME NEW c \in Calls PROVE BreakerInv /\ (Peek \/ Begin(c)) => BreakerInv'
<1> SUFFICES ASSUME BreakerInv, Peek \/ Begin(c) PROVE BreakerInv'
  OBVIOUS
<1>1. call' \in [Calls -> {"idle", "waiting", "doomed"}]
  BY DEF BreakerInv, BreakerTypeOK, Peek, Begin
<1>2. Look /\ UNCHANGED <<failures, age, up, streak, quiet>>
  BY DEF Peek, Begin
<1> QED BY <1>1, <1>2, LookKeeps

LEMMA CancelledStep == ASSUME NEW c \in Calls PROVE BreakerInv /\ Cancelled(c) => BreakerInv'
<1> SUFFICES ASSUME BreakerInv, Cancelled(c) PROVE BreakerInv'
  OBVIOUS
<1>1. BreakerTypeOK'
  BY DEF BreakerInv, BreakerTypeOK, Cancelled
<1>2. CountsStreak' /\ NeverStuck' /\ AgeIsQuiet'
  BY DEF BreakerInv, Cancelled, CountsStreak, NeverStuck, AgeIsQuiet
<1> QED BY <1>1, <1>2 DEF BreakerInv

LEMMA SucceedsStep == ASSUME NEW c \in Calls PROVE BreakerInv /\ Succeeds(c) => BreakerInv'
<1> SUFFICES ASSUME BreakerInv, Succeeds(c) PROVE BreakerInv'
  OBVIOUS
<1>1. call' \in [Calls -> {"idle", "waiting", "doomed"}] /\ streak' = 0
        /\ UNCHANGED <<up, quiet>>
  BY DEF BreakerInv, BreakerTypeOK, Succeeds
<1>2. CASE Closes
  <2>1. state' = "closed" /\ failures' = 0 /\ age' = Never /\ halfOpenCalls' = 0
    BY <1>2 DEF Succeeds, RecordSuccess, Closes, ResetCalls
  <2>2. BreakerTypeOK'
    BY <1>1, <2>1, BreakerAssumption DEF BreakerInv, BreakerTypeOK, States
  <2>3. CountsStreak' /\ NeverStuck' /\ AgeIsQuiet'
    BY <1>1, <2>1, BreakerAssumption DEF CountsStreak, NeverStuck, AgeIsQuiet
  <2> QED BY <2>2, <2>3 DEF BreakerInv
<1>3. CASE ~ Closes /\ state = "half_open"
  <2>1. halfOpenCalls' = halfOpenCalls + 1 /\ UNCHANGED <<state, failures, age>>
          /\ halfOpenCalls + 1 < HalfOpenMax
    BY <1>3, BreakerAssumption DEF BreakerInv, BreakerTypeOK, Succeeds, RecordSuccess, Closes
  <2>2. BreakerTypeOK'
    BY <1>1, <2>1, BreakerAssumption DEF BreakerInv, BreakerTypeOK
  <2>3. CountsStreak' /\ NeverStuck' /\ AgeIsQuiet'
    BY <1>1, <1>3, <2>1 DEF BreakerInv, CountsStreak, NeverStuck, AgeIsQuiet
  <2> QED BY <2>2, <2>3 DEF BreakerInv
<1>4. CASE state # "half_open"
  <2>1. failures' = (IF state = "closed" THEN 0 ELSE failures)
          /\ UNCHANGED <<age, state, halfOpenCalls>>
    BY <1>4 DEF Succeeds, RecordSuccess, Closes, Forget
  <2>2. BreakerTypeOK'
    BY <1>1, <2>1, BreakerAssumption DEF BreakerInv, BreakerTypeOK
  <2>3. CountsStreak' /\ NeverStuck' /\ AgeIsQuiet'
    BY <1>1, <2>1, BreakerAssumption DEF BreakerInv, CountsStreak, NeverStuck, AgeIsQuiet
  <2> QED BY <2>2, <2>3 DEF BreakerInv
<1> QED BY <1>2, <1>3, <1>4

LEMMA FailsStep == ASSUME NEW c \in Calls PROVE BreakerInv /\ Fails(c) => BreakerInv'
<1> SUFFICES ASSUME BreakerInv, Fails(c) PROVE BreakerInv'
  OBVIOUS
<1>1. call' \in [Calls -> {"idle", "waiting", "doomed"}] /\ UNCHANGED <<up, halfOpenCalls>>
  BY DEF BreakerInv, BreakerTypeOK, Fails, RecordFailure
<1>2. failures' = UpTo(Threshold, failures) /\ streak' = UpTo(Threshold, streak)
        /\ age' = 0 /\ quiet' = 0
  BY DEF Fails, RecordFailure, NoteTime
<1>3. failures' \in 0 .. Threshold /\ streak' \in 0 .. Threshold
  BY <1>2, BreakerAssumption, UpToFacts DEF BreakerInv, BreakerTypeOK
<1>4. state' \in States /\ (state' = "closed" => state = "closed" /\ failures + 1 < Threshold)
  BY BreakerAssumption DEF BreakerInv, BreakerTypeOK, Fails, RecordFailure, States
<1>5. BreakerTypeOK'
  BY <1>1, <1>2, <1>3, <1>4, BreakerAssumption DEF BreakerInv, BreakerTypeOK
<1>6. CountsStreak'
  BY <1>2, <1>4, BreakerAssumption, UpToFacts DEF BreakerInv, BreakerTypeOK, CountsStreak
<1>7. NeverStuck' /\ AgeIsQuiet'
  BY <1>2, BreakerAssumption DEF NeverStuck, AgeIsQuiet, Never
<1> QED BY <1>5, <1>6, <1>7 DEF BreakerInv

-----------------------------------------------------------------------------
(***************************************************************************)
(* The theorems                                                            *)
(***************************************************************************)
LEMMA BreakerNextInv == BreakerInv /\ [BreakerNext]_breakerVars => BreakerInv'
<1> SUFFICES ASSUME BreakerInv, [BreakerNext]_breakerVars PROVE BreakerInv'
  OBVIOUS
<1>1. CASE Tick
  BY <1>1, TickStep
<1>2. CASE GoesDown \/ ComesUp
  BY <1>2, ServiceStep
<1>3. CASE Peek
  <2>1. Look /\ UNCHANGED <<failures, age, up, streak, quiet>>
          /\ call' \in [Calls -> {"idle", "waiting", "doomed"}]
    BY <1>3 DEF Peek, BreakerInv, BreakerTypeOK
  <2> QED BY <2>1, LookKeeps
<1>4. ASSUME NEW c \in Calls, Begin(c) \/ Succeeds(c) \/ Fails(c) \/ Cancelled(c)
      PROVE  BreakerInv'
  BY <1>4, LookStep, SucceedsStep, FailsStep, CancelledStep
<1>5. CASE UNCHANGED breakerVars
  BY <1>5 DEF breakerVars, BreakerInv, BreakerTypeOK, CountsStreak, NeverStuck, AgeIsQuiet
<1> QED BY <1>1, <1>2, <1>3, <1>4, <1>5 DEF BreakerNext

LEMMA BreakerInvariance == BreakerSpec => []BreakerInv
<1>1. BreakerInit => BreakerInv
  BY BreakerInitInv
<1>2. BreakerInv /\ [BreakerNext]_breakerVars => BreakerInv'
  BY BreakerNextInv
<1> QED BY <1>1, <1>2, PTL DEF BreakerSpec

\* Every variable of the breaker stays in its type; in particular the probes that
\* are counted while it is half open never reach half_open_max_calls.
THEOREM BreakerTypeCorrect == BreakerSpec => []BreakerTypeOK
<1>1. BreakerInv => BreakerTypeOK
  BY DEF BreakerInv
<1> QED BY <1>1, BreakerInvariance, PTL

\* For any number of calls, whenever they record: a closed breaker has counted the
\* failures since the last success (_record_failure, _record_success).
THEOREM FailuresAreCounted == BreakerSpec => []CountsStreak
<1>1. BreakerInv => CountsStreak
  BY DEF BreakerInv
<1> QED BY <1>1, BreakerInvariance, PTL

\* An open breaker always knows since when, so it may be tried again one day.
THEOREM OpenIsTimed == BreakerSpec => []NeverStuck
<1>1. BreakerInv => NeverStuck
  BY DEF BreakerInv
<1> QED BY <1>1, BreakerInvariance, PTL

\* An open breaker stays open until recovery_timeout has passed since the last
\* failure, whatever calls that began before it opened record (can_execute).
THEOREM OpenLasts == BreakerSpec => StaysOpen
<1>1. BreakerInv /\ [BreakerNext]_breakerVars => [state = "open" /\ state' # "open" => quiet = Recovery]_breakerVars
  <2> SUFFICES ASSUME BreakerInv, BreakerNext, state = "open", state' # "open" PROVE quiet = Recovery
    OBVIOUS
  <2>1. ASSUME Look PROVE quiet = Recovery
    <3>1. age = Recovery
      BY <2>1, LookFacts DEF BreakerInv
    <3> QED BY <3>1, BreakerAssumption DEF BreakerInv, AgeIsQuiet, Never
  <2>2. CASE Peek \/ \E c \in Calls : Begin(c)
    BY <2>1, <2>2 DEF Peek, Begin
  <2>3. ~ (Tick \/ GoesDown \/ ComesUp \/ \E c \in Calls : Cancelled(c))
    BY DEF Tick, GoesDown, ComesUp, Cancelled
  <2>4. ASSUME NEW c \in Calls PROVE ~ Succeeds(c)
    BY DEF Succeeds, RecordSuccess, Closes
  <2>5. ASSUME NEW c \in Calls PROVE ~ Fails(c)
    BY DEF Fails, RecordFailure
  <2> QED BY <2>2, <2>3, <2>4, <2>5 DEF BreakerNext
<1> QED BY <1>1, BreakerInvariance, PTL DEF BreakerSpec, StaysOpen
=============================================================================
