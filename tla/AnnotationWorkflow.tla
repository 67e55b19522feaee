------------------------- MODULE AnnotationWorkflow -------------------------
(***************************************************************************)
(* The life of annotation rows.  The work queue (app/services/annotation)  *)
(* assigns, submits, reviews and reworks under row locks.  The review      *)
(* boards, the studio, the offline sync, the prelabelling task and consent *)
(* withdrawal do not lock: each loads the row, decides, and later commits  *)
(* the columns it has changed, over whatever the row is by then.           *)
(***************************************************************************)
EXTENDS Integers, Sequences, FiniteSets

CONSTANTS Annotations,  \* numbered in the order of created_at
          Live,         \* those that are live captures
          Capturers,    \* users who take live captures
          Annotators,   \* active users with that role, when jobs are assigned
          Reviewers,    \* users who review; may have been annotators before
          Schedulers,   \* sessions of POST /jobs/assign
          Sessions,     \* sessions of the handlers that do not lock
          Handlers,     \* which of those handlers are in use
          MaxRework,    \* bound on the rework rounds of an annotation
          None

HandlerNames == {"live_approve", "live_reject", "approve", "certify", "reject",
                 "return", "save", "studio_approve", "studio_reject", "flag",
                 "edit", "delete", "prelabel", "relabel", "withdraw"}

ASSUME WorkflowAssumption ==
  /\ Annotations \subseteq Nat
  /\ Live \subseteq Annotations
  /\ Handlers \subseteq HandlerNames
  /\ MaxRework \in Nat
  /\ None \notin Annotators \cup Capturers \cup Reviewers \cup Schedulers
  /\ None \notin Annotations

VARIABLES row,          \* the columns of each annotation
          assignments,  \* assignments[a]: the annotators a was assigned to
          rework,       \* how often a went back to the queue
          lock,         \* lock[a]: the scheduler that holds a's row, or None
          picked,       \* picked[q]: the rows scheduler q has selected
          uow           \* uow[s]: what session s will commit, or Idle

vars == <<row, assignments, rework, lock, picked, uow>>

Status  == {"PENDING", "AUTO_LABELED", "HUMAN_REVIEW", "QA_REVIEW", "CERTIFIED",
            "REJECTED"}
Columns == {"status", "annotator", "reviewer", "labels", "certified"}
Rows    == [status : Status, annotator : Annotators \cup Capturers \cup {None},
            reviewer : Reviewers \cup {None}, labels : BOOLEAN,
            certified : BOOLEAN]
Idle    == [ann |-> None]
Work    == [ann : Annotations, new : Rows, dirty : SUBSET Columns]

TypeOK ==
  /\ row \in [Annotations -> Rows]
  /\ assignments \in [Annotations -> Seq(Annotators)]
  /\ rework \in [Annotations -> 0 .. MaxRework]
  /\ lock \in [Annotations -> Schedulers \cup {None}]
  /\ picked \in [Schedulers -> SUBSET Annotations]
  /\ uow \in [Sessions -> Work \cup {Idle}]

Fresh == [status |-> "PENDING", annotator |-> None, reviewer |-> None,
          labels |-> FALSE, certified |-> FALSE]

\* A live capture is created with its user as annotator and, when a model was
\* running, with draft labels; an anomaly is created AUTO_LABELED.
Captured(u, l) == [Fresh EXCEPT !.annotator = u, !.labels = l]
Created(a) ==
  IF a \in Live
    THEN {Captured(u, l) : u \in Capturers, l \in BOOLEAN}
    ELSE {Fresh, [Fresh EXCEPT !.status = "AUTO_LABELED"]}

Init ==
  /\ row \in [Annotations -> Rows]
  /\ \A a \in Annotations : row[a] \in Created(a)
  /\ assignments = [a \in Annotations |-> << >>]
  /\ rework = [a \in Annotations |-> 0]
  /\ lock = [a \in Annotations |-> None]
  /\ picked = [q \in Schedulers |-> {}]
  /\ uow = [s \in Sessions |-> Idle]

(***************************************************************************)
(* Assigning: auto_assign_jobs                                             *)
(***************************************************************************)
Assignable(a) == row[a].status = "PENDING" /\ row[a].annotator = None

\* bug: FOR UPDATE without SKIP LOCKED, and no second look at the row
SkipsNothing(a) == Assignable(a)
Selectable(a) == Assignable(a) /\ lock[a] = None

\* SELECT ... FOR UPDATE SKIP LOCKED LIMIT count, the oldest first
SelectJobs(q, jobs) ==
  /\ picked[q] = {}
  /\ jobs # {}
  /\ \A a \in jobs : Selectable(a)
  /\ \A a \in jobs, b \in Annotations : Selectable(b) /\ b < a => b \in jobs
  /\ picked' = [picked EXCEPT ![q] = jobs]
  /\ lock' = [a \in Annotations |-> IF a \in jobs THEN q ELSE lock[a]]
  /\ UNCHANGED <<row, assignments, rework, uow>>

\* Assignment rows are created active and nothing ever deactivates one.
ActiveOf(u) ==
  {e \in [ann : Annotations, round : 1 .. MaxRework + 1] :
     e.round \in DOMAIN assignments[e.ann] /\ assignments[e.ann][e.round] = u}
Workload(u) == Cardinality(ActiveOf(u))

\* the annotators, least busy first
Rankings ==
  {o \in [1 .. Cardinality(Annotators) -> Annotators] :
     \A i, j \in DOMAIN o :
       i < j => o[i] # o[j] /\ Workload(o[i]) <= Workload(o[j])}

\* whom each job goes to: round robin, or all to the one asked for
Picks(jobs) ==
  {f \in [jobs -> Annotators] :
     \/ \A a, b \in jobs : f[a] = f[b]
     \/ \E o \in Rankings : \A a \in jobs :
          f[a] = o[(Cardinality({b \in jobs : b < a}) % Cardinality(Annotators)) + 1]}

Unlock(q) ==
  /\ picked' = [picked EXCEPT ![q] = {}]
  /\ lock' = [a \in Annotations |-> IF lock[a] = q THEN None ELSE lock[a]]

CommitJobs(q) ==
  /\ picked[q] # {}
  /\ \E f \in Picks(picked[q]) :
       /\ row' = [a \in Annotations |->
                    IF a \in picked[q]
                      THEN [row[a] EXCEPT !.annotator = f[a], !.status = "HUMAN_REVIEW"]
                      ELSE row[a]]
       /\ assignments' = [a \in Annotations |->
                            IF a \in picked[q] THEN Append(assignments[a], f[a])
                            ELSE assignments[a]]
  /\ Unlock(q)
  /\ UNCHANGED <<rework, uow>>

\* no annotator is available, or the request dies
AbandonJobs(q) ==
  /\ picked[q] # {}
  /\ Unlock(q)
  /\ UNCHANGED <<row, assignments, rework, uow>>

(***************************************************************************)
(* Submitting, reviewing and reworking, each in one transaction with the   *)
(* row locked                                                              *)
(***************************************************************************)
SubmitLabels(u, a) ==
  /\ lock[a] = None
  /\ row[a].annotator = u
  /\ row[a].status = "HUMAN_REVIEW"
  /\ row' = [row EXCEPT ![a] = [@ EXCEPT !.labels = TRUE, !.status = "QA_REVIEW"]]
  /\ UNCHANGED <<assignments, rework, lock, picked, uow>>

\* bug: the annotator may review the annotation
ReviewsAnything(v, a) == row[a].status = "QA_REVIEW"
Reviews(v, a) == row[a].status = "QA_REVIEW" /\ row[a].annotator # v

\* The agreement with labels that are missing is 0, below any target.
SubmitReview(v, a) ==
  /\ lock[a] = None
  /\ Reviews(v, a)
  /\ \/ /\ row[a].labels
        /\ row' = [row EXCEPT ![a] = [@ EXCEPT !.reviewer = v, !.status = "CERTIFIED",
                                              !.certified = TRUE]]
     \/ row' = [row EXCEPT ![a] = [@ EXCEPT !.reviewer = v, !.status = "REJECTED"]]
  /\ UNCHANGED <<assignments, rework, lock, picked, uow>>

Reassign(a) ==
  /\ lock[a] = None
  /\ row[a].status = "REJECTED"
  /\ rework[a] < MaxRework
  /\ row' = [row EXCEPT ![a] = Fresh]
  /\ rework' = [rework EXCEPT ![a] = @ + 1]
  /\ UNCHANGED <<assignments, lock, picked, uow>>

(***************************************************************************)
(* Handlers that do not lock.  Accepts is what they check of the row they  *)
(* load, Outcome the row they make of it.                                  *)
(***************************************************************************)
Accepts(h, a) ==
  CASE h \in {"live_approve", "live_reject"} -> a \in Live
    [] h \in {"certify", "return", "delete"} -> row[a].labels
    [] h = "prelabel" -> ~ row[a].labels
    [] h = "withdraw" -> row[a].status \in {"CERTIFIED", "HUMAN_REVIEW", "AUTO_LABELED"}
    [] OTHER -> TRUE

\* a flagged row waits in PENDING for senior review
FlagStatus == "PENDING"

Outcome(h, v, r) ==
  CASE h \in {"live_approve", "approve", "certify"} ->
         [r EXCEPT !.status = "CERTIFIED", !.certified = TRUE, !.reviewer = v]
    [] h \in {"live_reject", "reject", "return"} ->
         [r EXCEPT !.status = "REJECTED", !.reviewer = v]
    [] h = "studio_approve" -> [r EXCEPT !.status = "CERTIFIED", !.certified = TRUE]
    [] h \in {"studio_reject", "withdraw"} -> [r EXCEPT !.status = "REJECTED"]
    [] h = "flag"     -> [r EXCEPT !.status = FlagStatus, !.certified = FALSE]
    [] h = "save"     -> [r EXCEPT !.labels = TRUE]
    [] h = "edit"     -> [r EXCEPT !.labels = TRUE, !.status = "HUMAN_REVIEW"]
    [] h = "delete"   -> [r EXCEPT !.labels = FALSE, !.status = "PENDING"]
    [] h \in {"prelabel", "relabel"} -> [r EXCEPT !.status = "AUTO_LABELED"]

\* The columns whose value has changed; new labels differ from those they replace.
Dirty(h, old, new) ==
  {c \in Columns : old[c] # new[c]} \cup (IF h \in {"save", "edit"} THEN {"labels"} ELSE {})

Load(s, h, v, a) ==
  /\ uow[s] = Idle
  /\ Accepts(h, a)
  /\ LET new == Outcome(h, v, row[a]) IN
       uow' = [uow EXCEPT ![s] = [ann |-> a, new |-> new, dirty |-> Dirty(h, row[a], new)]]
  /\ UNCHANGED <<row, assignments, rework, lock, picked>>

\* bug: the commit writes the whole row that was loaded
WholeRow(w, r) == w.new
\* UPDATE of the changed columns only
Flush(w, r) ==
  [status    |-> IF "status" \in w.dirty THEN w.new.status ELSE r.status,
   annotator |-> IF "annotator" \in w.dirty THEN w.new.annotator ELSE r.annotator,
   reviewer  |-> IF "reviewer" \in w.dirty THEN w.new.reviewer ELSE r.reviewer,
   labels    |-> IF "labels" \in w.dirty THEN w.new.labels ELSE r.labels,
   certified |-> IF "certified" \in w.dirty THEN w.new.certified ELSE r.certified]

Commit(s) ==
  /\ uow[s] # Idle
  /\ lock[uow[s].ann] = None
  /\ row' = [row EXCEPT ![uow[s].ann] = Flush(uow[s], @)]
  /\ uow' = [uow EXCEPT ![s] = Idle]
  /\ UNCHANGED <<assignments, rework, lock, picked>>

\* the request dies before its commit
Rollback(s) ==
  /\ uow[s] # Idle
  /\ uow' = [uow EXCEPT ![s] = Idle]
  /\ UNCHANGED <<row, assignments, rework, lock, picked>>

-----------------------------------------------------------------------------
Schedule(q) == (\E jobs \in SUBSET Annotations : SelectJobs(q, jobs))
                 \/ CommitJobs(q) \/ AbandonJobs(q)

Handle(s) == \/ \E h \in Handlers, v \in Reviewers, a \in Annotations : Load(s, h, v, a)
             \/ Commit(s) \/ Rollback(s)

Next ==
  \/ \E q \in Schedulers : Schedule(q)
  \/ \E a \in Annotations :
       \/ \E u \in Annotators : SubmitLabels(u, a)
       \/ \E v \in Reviewers : SubmitReview(v, a)
       \/ Reassign(a)
  \/ \E s \in Sessions : Handle(s)

Spec == Init /\ [][Next]_vars

-----------------------------------------------------------------------------
\* Between two reworks an annotation is given to at most one annotator, however
\* schedulers race and whatever the handlers that do not lock make of its
\* status (auto_assign_jobs, FOR UPDATE SKIP LOCKED).
OneAssigneePerRound ==
  \A a \in Annotations : Len(assignments[a]) <= rework[a] + 1

\* The annotator of a row is the one it was last assigned to, or who captured
\* it, so nobody else ever passes the owner check of submit_labels.
AnnotatorIsAssignee ==
  \A a \in Annotations : row[a].annotator # None =>
    IF assignments[a] = << >> THEN a \in Live /\ rework[a] = 0
    ELSE row[a].annotator = assignments[a][Len(assignments[a])]

\* As long as withdrawal is the only handler in use besides the queue, a row's
\* status tells what its other columns hold: work in review has its annotator
\* and labels, and is certified by somebody else (app/services/annotation.py).
QueueOnly == Handlers \subseteq {"withdraw"}
QueueInv ==
  QueueOnly => \A a \in Annotations :
    /\ row[a].status = "PENDING" /\ row[a].annotator = None => row[a] = Fresh
    /\ row[a].status = "HUMAN_REVIEW" => row[a].annotator # None
    /\ row[a].status = "QA_REVIEW" => row[a].annotator # None /\ row[a].labels
    /\ row[a].status = "CERTIFIED" =>
         /\ row[a].certified /\ row[a].labels
         /\ row[a].annotator # None
         /\ row[a].reviewer \notin {None, row[a].annotator}
=============================================================================
