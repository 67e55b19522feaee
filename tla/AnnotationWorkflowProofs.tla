----------------------- MODULE AnnotationWorkflowProofs -----------------------
(***************************************************************************)
(* Proofs about AnnotationWorkflow for every set of annotations, users and  *)
(* sessions.  That a round has one assignee rests on two facts: a selected  *)
(* row stays locked and unassigned until its scheduler ends, and no handler *)
(* that does not lock ever writes the annotator column.                     *)
(***************************************************************************)
EXTENDS AnnotationWorkflow, SequenceTheorems, TLAPS

\* A selected row is locked by its scheduler, and is still to be assigned.
PickedInv ==
  \A q \in Schedulers : \A a \in picked[q] : lock[a] = q /\ Assignable(a)

\* A row without annotator has been assigned in every earlier round at most.
RoundInv ==
  \A a \in Annotations :
    row[a].annotator = None => Len(assignments[a]) <= rework[a]

\* No unit of work changes the annotator.
WorkInv == \A s \in Sessions : uow[s] # Idle => "annotator" \notin uow[s].dirty

IInv == TypeOK /\ PickedInv /\ WorkInv /\ RoundInv /\ OneAssigneePerRound

\* What AnnotatorIsAssignee says of an annotation with an annotator.
Assigned(a) ==
  IF assignments[a] = << >> THEN a \in Live /\ rework[a] = 0
  ELSE row[a].annotator = assignments[a][Len(assignments[a])]

\* What QueueInv says of one row.
QueueRow(r) ==
  /\ r.status = "PENDING" /\ r.annotator = None => r = Fresh
  /\ r.status = "HUMAN_REVIEW" => r.annotator # None
  /\ r.status = "QA_REVIEW" => r.annotator # None /\ r.labels
  /\ r.status = "CERTIFIED" =>
       /\ r.certified /\ r.labels
       /\ r.annotator # None
       /\ r.reviewer \notin {None, r.annotator}

\* A withdrawal is about to write at most a rejection, and no other column.
WithdrawalInv ==
  QueueOnly => \A s \in Sessions : uow[s] # Idle =>
    uow[s].dirty \subseteq {"status"} /\ uow[s].new.status = "REJECTED"

-----------------------------------------------------------------------------

(* What a handler makes of a well typed row is one, with the same annotator. *)
LEMMA OutcomeType ==
  ASSUME NEW h \in Handlers, NEW v \in Reviewers, NEW r \in Rows
  PROVE  Outcome(h, v, r) \in Rows /\ Outcome(h, v, r).annotator = r.annotator
  BY WorkflowAssumption DEF Outcome, HandlerNames, Rows, Status, FlagStatus

(* Committing a unit of work keeps a row well typed, and its annotator when   *)
(* that column is not dirty.                                                 *)
LEMMA FlushType ==
  ASSUME NEW w \in Work, NEW r \in Rows
  PROVE  /\ Flush(w, r) \in Rows
         /\ "annotator" \notin w.dirty => Flush(w, r).annotator = r.annotator
  BY DEF Flush, Work, Rows

(* What a submission makes of a well typed row keeps its annotator. *)
LEMMA SubmittedRow ==
  ASSUME NEW r \in Rows
  PROVE  LET n == [r EXCEPT !.labels = TRUE, !.status = "QA_REVIEW"]
         IN  n \in Rows /\ n.annotator = r.annotator
  BY Zenon DEF Rows, Status

(* So does what a review makes of one. *)
LEMMA ReviewedRow ==
  ASSUME NEW r \in Rows, NEW v \in Reviewers
  PROVE  LET yes == [r EXCEPT !.reviewer = v, !.status = "CERTIFIED", !.certified = TRUE]
             no  == [r EXCEPT !.reviewer = v, !.status = "REJECTED"]
         IN  /\ yes \in Rows /\ yes.annotator = r.annotator
             /\ no \in Rows /\ no.annotator = r.annotator
  BY Zenon DEF Rows, Status

(* A submission and a review rewrite one row, which keeps its annotator.      *)
LEMMA LockedEffect ==
  ASSUME TypeOK, NEW a \in Annotations,
         \/ \E u \in Annotators : SubmitLabels(u, a)
         \/ \E v \in Reviewers : SubmitReview(v, a)
  PROVE  \E n \in Rows : /\ row' = [row EXCEPT ![a] = n]
                          /\ n.annotator = row[a].annotator
<1>0. row[a] \in Rows
  BY DEF TypeOK
<1>1. CASE \E u \in Annotators : SubmitLabels(u, a)
  <2> DEFINE n == [row[a] EXCEPT !.labels = TRUE, !.status = "QA_REVIEW"]
  <2>1. row' = [row EXCEPT ![a] = n]
    BY <1>1 DEF SubmitLabels
  <2>2. n \in Rows /\ n.annotator = row[a].annotator
    BY <1>0, SubmittedRow
  <2> QED
    BY <2>1, <2>2
<1>2. CASE \E v \in Reviewers : SubmitReview(v, a)
  <2>1. PICK v \in Reviewers : SubmitReview(v, a)
    BY <1>2
  <2> DEFINE yes == [row[a] EXCEPT !.reviewer = v, !.status = "CERTIFIED", !.certified = TRUE]
             no  == [row[a] EXCEPT !.reviewer = v, !.status = "REJECTED"]
  <2>2. row' = [row EXCEPT ![a] = yes] \/ row' = [row EXCEPT ![a] = no]
    BY <2>1 DEF SubmitReview
  <2>3. yes \in Rows /\ yes.annotator = row[a].annotator
    BY <1>0, ReviewedRow
  <2>4. no \in Rows /\ no.annotator = row[a].annotator
    BY <1>0, ReviewedRow
  <2> QED
    BY <2>2, <2>3, <2>4
<1> QED
  BY <1>1, <1>2

(* Idle is no unit of work. *)
LEMMA IdleIsNoWork == \A w \in Work : w # Idle /\ w.ann \in Annotations
  BY WorkflowAssumption DEF Work, Idle

(* A scheduler gives each row it has selected one annotator. *)
LEMMA CommitJobsEffect ==
  ASSUME NEW q \in Schedulers, CommitJobs(q)
  PROVE  \E f \in [picked[q] -> Annotators] :
           /\ row' = [a \in Annotations |->
                IF a \in picked[q]
                  THEN [row[a] EXCEPT !.annotator = f[a], !.status = "HUMAN_REVIEW"]
                  ELSE row[a]]
           /\ assignments' = [a \in Annotations |->
                IF a \in picked[q] THEN Append(assignments[a], f[a]) ELSE assignments[a]]
  BY Zenon DEF CommitJobs, Picks

(* One more assignment makes the sequence one longer. *)
LEMMA AppendLength ==
  ASSUME NEW S, NEW t \in Seq(S), NEW e \in S
  PROVE  Append(t, e) \in Seq(S) /\ Len(Append(t, e)) = Len(t) + 1
  BY SMT

(* What assigning makes of a well typed row. *)
LEMMA AssignedRow ==
  ASSUME NEW r \in Rows, NEW u \in Annotators
  PROVE  LET new == [r EXCEPT !.annotator = u, !.status = "HUMAN_REVIEW"]
         IN  new \in Rows /\ new.annotator = u
  BY Zenon DEF Rows, Status

(* What a scheduler does to a row: one it has selected gets an annotator and  *)
(* one assignment, the others stay.                                          *)
LEMMA CommitJobsRows ==
  ASSUME TypeOK, NEW q \in Schedulers, CommitJobs(q)
  PROVE  /\ row' \in [Annotations -> Rows]
         /\ assignments' \in [Annotations -> Seq(Annotators)]
         /\ \A a \in Annotations :
              /\ a \in picked[q] => /\ row'[a].annotator \in Annotators
                                    /\ Len(assignments'[a]) = Len(assignments[a]) + 1
              /\ a \notin picked[q] => /\ row'[a] = row[a]
                                       /\ assignments'[a] = assignments[a]
<1>1. PICK f \in [picked[q] -> Annotators] :
        /\ row' = [b \in Annotations |->
             IF b \in picked[q]
               THEN [row[b] EXCEPT !.annotator = f[b], !.status = "HUMAN_REVIEW"]
               ELSE row[b]]
        /\ assignments' = [b \in Annotations |->
             IF b \in picked[q] THEN Append(assignments[b], f[b]) ELSE assignments[b]]
  BY CommitJobsEffect
<1>2. \A b \in Annotations : row[b] \in Rows /\ assignments[b] \in Seq(Annotators)
  BY DEF TypeOK
<1>3. ASSUME NEW b \in Annotations, b \in picked[q]
      PROVE  /\ row'[b] \in Rows /\ row'[b].annotator \in Annotators
             /\ assignments'[b] \in Seq(Annotators)
             /\ Len(assignments'[b]) = Len(assignments[b]) + 1
  <2>1. f[b] \in Annotators
    BY <1>3
  <2>2. row'[b] = [row[b] EXCEPT !.annotator = f[b], !.status = "HUMAN_REVIEW"]
    BY <1>1, <1>3
  <2>3. assignments'[b] = Append(assignments[b], f[b])
    BY <1>1, <1>3
  <2>4. row'[b] \in Rows /\ row'[b].annotator = f[b]
    <3> DEFINE new == [row[b] EXCEPT !.annotator = f[b], !.status = "HUMAN_REVIEW"]
    <3>1. row[b] \in Rows
      BY <1>2
    <3>2. new \in Rows /\ new.annotator = f[b]
      BY <2>1, <3>1, AssignedRow
    <3>3. row'[b] = new
      BY <2>2
    <3> HIDE DEF new
    <3> QED
      BY <3>2, <3>3
  <2>5. assignments'[b] \in Seq(Annotators) /\ Len(assignments'[b]) = Len(assignments[b]) + 1
    BY <1>2, <2>1, <2>3, AppendLength
  <2> QED
    BY <2>1, <2>4, <2>5
<1>4. ASSUME NEW b \in Annotations, b \notin picked[q]
      PROVE  row'[b] = row[b] /\ assignments'[b] = assignments[b]
  BY <1>1, <1>4
<1>5. row' \in [Annotations -> Rows]
  <2>1. \A b \in Annotations : row'[b] \in Rows
    BY <1>2, <1>3, <1>4
  <2> QED
    BY <1>1, <2>1
<1>6. assignments' \in [Annotations -> Seq(Annotators)]
  <2>1. \A b \in Annotations : assignments'[b] \in Seq(Annotators)
    BY <1>2, <1>3, <1>4
  <2> QED
    BY <1>1, <2>1
<1> QED
  BY <1>3, <1>4, <1>5, <1>6

(* Every step keeps every variable in its type. *)
LEMMA TypeStep ==
    TypeOK /\ [Next]_vars => TypeOK'
<1> SUFFICES ASSUME TypeOK, [Next]_vars PROVE TypeOK'
  OBVIOUS
<1> USE WorkflowAssumption DEF TypeOK, vars
<1>1. ASSUME NEW q \in Schedulers, NEW jobs \in SUBSET Annotations, SelectJobs(q, jobs) PROVE TypeOK'
  BY <1>1 DEF SelectJobs
<1>2. ASSUME NEW q \in Schedulers, CommitJobs(q) PROVE TypeOK'
  <2>1. row' \in [Annotations -> Rows] /\ assignments' \in [Annotations -> Seq(Annotators)]
    BY <1>2, CommitJobsRows
  <2>2. lock' \in [Annotations -> Schedulers \cup {None}]
    BY <1>2 DEF CommitJobs, Unlock
  <2> QED
    BY <1>2, <2>1, <2>2 DEF CommitJobs, Unlock
<1>3. ASSUME NEW q \in Schedulers, AbandonJobs(q) PROVE TypeOK'
  BY <1>3 DEF AbandonJobs, Unlock
<1>4. ASSUME NEW u \in Annotators, NEW a \in Annotations, SubmitLabels(u, a) PROVE TypeOK'
  <2>1. PICK n \in Rows : row' = [row EXCEPT ![a] = n] /\ n.annotator = row[a].annotator
    BY <1>4, LockedEffect
  <2>2. lock[a] = None /\ UNCHANGED <<assignments, rework, lock, picked, uow>>
    BY <1>4 DEF SubmitLabels
  <2> QED
    BY <2>1, <2>2
<1>5. ASSUME NEW v \in Reviewers, NEW a \in Annotations, SubmitReview(v, a) PROVE TypeOK'
  <2>1. PICK n \in Rows : row' = [row EXCEPT ![a] = n] /\ n.annotator = row[a].annotator
    BY <1>5, LockedEffect
  <2>2. lock[a] = None /\ UNCHANGED <<assignments, rework, lock, picked, uow>>
    BY <1>5 DEF SubmitReview
  <2> QED
    BY <2>1, <2>2
<1>6. ASSUME NEW a \in Annotations, Reassign(a) PROVE TypeOK'
  BY <1>6 DEF Reassign, Fresh, Rows, Status
<1>7. ASSUME NEW s \in Sessions, NEW h \in Handlers, NEW v \in Reviewers, NEW a \in Annotations, Load(s, h, v, a) PROVE TypeOK'
  <2> DEFINE new == Outcome(h, v, row[a])
  <2>1. new \in Rows /\ new.annotator = row[a].annotator
    BY OutcomeType
  <2>2. Dirty(h, row[a], new) \in SUBSET Columns /\ "annotator" \notin Dirty(h, row[a], new)
    BY <2>1 DEF Dirty, Columns
  <2>3. [ann |-> a, new |-> new, dirty |-> Dirty(h, row[a], new)] \in Work
    BY <2>1, <2>2 DEF Work
  <2> HIDE DEF new
  <2> QED
    BY <1>7, <2>1, <2>2, <2>3 DEF Load, new
<1>8. ASSUME NEW s \in Sessions, Commit(s) PROVE TypeOK'
  <2>1. uow[s] \in Work /\ uow[s].ann \in Annotations
    BY <1>8, IdleIsNoWork DEF Commit
  <2>2. /\ Flush(uow[s], row[uow[s].ann]) \in Rows
        /\ "annotator" \notin uow[s].dirty =>
             Flush(uow[s], row[uow[s].ann]).annotator = row[uow[s].ann].annotator
    BY <2>1, FlushType
  <2> QED
    BY <1>8, <2>1, <2>2 DEF Commit
<1>9. ASSUME NEW s \in Sessions, Rollback(s) PROVE TypeOK'
  BY <1>9 DEF Rollback
<1>10. CASE UNCHANGED vars
  BY <1>10
<1> QED
  BY <1>1, <1>2, <1>3, <1>4, <1>5, <1>6, <1>7, <1>8, <1>9, <1>10
     DEF Next, Schedule, Handle

(* A write to a row that nobody has locked leaves the selected rows alone.   *)
LEMMA UnlockedEffect ==
  ASSUME TypeOK, PickedInv, NEW a \in Annotations, lock[a] = None,
         UNCHANGED <<lock, picked>>,
         \A b \in Annotations \ {a} : row'[b] = row[b]
  PROVE  PickedInv'
<1> SUFFICES ASSUME NEW q \in Schedulers, NEW b \in picked[q]
             PROVE  lock[b] = q /\ row'[b] = row[b] /\ Assignable(b)
  BY DEF PickedInv, Assignable
<1>1. b \in Annotations
  BY DEF TypeOK
<1>2. lock[b] = q /\ Assignable(b)
  BY DEF PickedInv
<1>3. b # a
  BY <1>2, WorkflowAssumption
<1> QED
  BY <1>1, <1>2, <1>3

(* Every step keeps selected rows locked and unassigned. *)
LEMMA PickedStep ==
    TypeOK /\ WorkInv /\ PickedInv /\ [Next]_vars => PickedInv'
<1> SUFFICES ASSUME TypeOK, WorkInv, PickedInv, [Next]_vars PROVE PickedInv'
  OBVIOUS
<1> USE WorkflowAssumption DEF PickedInv, Assignable, WorkInv, TypeOK, vars
<1>1. ASSUME NEW q \in Schedulers, NEW jobs \in SUBSET Annotations, SelectJobs(q, jobs) PROVE PickedInv'
  BY <1>1 DEF SelectJobs, Selectable, Assignable
<1>2. ASSUME NEW q \in Schedulers, CommitJobs(q) PROVE PickedInv'
  <2> SUFFICES ASSUME NEW p \in Schedulers, NEW a \in picked'[p]
               PROVE  lock'[a] = p /\ row'[a] = row[a] /\ Assignable(a)
    BY <1>2 DEF CommitJobs
  <2>1. p # q /\ a \in picked[p] /\ lock[a] = p
    BY <1>2 DEF CommitJobs, Unlock
  <2>2. a \in Annotations /\ a \notin picked[q] /\ Assignable(a)
    BY <2>1
  <2>3. lock'[a] = p
    BY <1>2, <2>1, <2>2 DEF CommitJobs, Unlock
  <2>4. row'[a] = row[a]
    BY <1>2, <2>2, CommitJobsRows
  <2> QED
    BY <2>2, <2>3, <2>4
<1>3. ASSUME NEW q \in Schedulers, AbandonJobs(q) PROVE PickedInv'
  BY <1>3 DEF AbandonJobs, Unlock
<1>4. ASSUME NEW u \in Annotators, NEW a \in Annotations, SubmitLabels(u, a) PROVE PickedInv'
  <2>1. PICK n \in Rows : row' = [row EXCEPT ![a] = n] /\ n.annotator = row[a].annotator
    BY <1>4, LockedEffect
  <2>2. lock[a] = None /\ UNCHANGED <<lock, picked>>
    BY <1>4 DEF SubmitLabels
  <2>3. \A b \in Annotations \ {a} : row'[b] = row[b]
    BY <2>1
  <2> QED
    BY <2>2, <2>3, UnlockedEffect
<1>5. ASSUME NEW v \in Reviewers, NEW a \in Annotations, SubmitReview(v, a) PROVE PickedInv'
  <2>1. PICK n \in Rows : row' = [row EXCEPT ![a] = n] /\ n.annotator = row[a].annotator
    BY <1>5, LockedEffect
  <2>2. lock[a] = None /\ UNCHANGED <<lock, picked>>
    BY <1>5 DEF SubmitReview
  <2>3. \A b \in Annotations \ {a} : row'[b] = row[b]
    BY <2>1
  <2> QED
    BY <2>2, <2>3, UnlockedEffect
<1>6. ASSUME NEW a \in Annotations, Reassign(a) PROVE PickedInv'
  BY <1>6 DEF Reassign, Fresh
<1>7. ASSUME NEW s \in Sessions, NEW h \in Handlers, NEW v \in Reviewers, NEW a \in Annotations, Load(s, h, v, a) PROVE PickedInv'
  BY <1>7 DEF Load
<1>8. ASSUME NEW s \in Sessions, Commit(s) PROVE PickedInv'
  <2>1. uow[s].ann \in Annotations /\ lock[uow[s].ann] = None /\ UNCHANGED <<lock, picked>>
    BY <1>8, IdleIsNoWork DEF Commit
  <2>2. \A b \in Annotations \ {uow[s].ann} : row'[b] = row[b]
    BY <1>8 DEF Commit
  <2> QED
    BY <2>1, <2>2, UnlockedEffect
<1>9. ASSUME NEW s \in Sessions, Rollback(s) PROVE PickedInv'
  BY <1>9 DEF Rollback
<1>10. CASE UNCHANGED vars
  BY <1>10
<1> QED
  BY <1>1, <1>2, <1>3, <1>4, <1>5, <1>6, <1>7, <1>8, <1>9, <1>10
     DEF Next, Schedule, Handle

(* Every step keeps the annotator column out of the units of work. *)
LEMMA WorkStep ==
    TypeOK /\ WorkInv /\ [Next]_vars => WorkInv'
<1> SUFFICES ASSUME TypeOK, WorkInv, [Next]_vars PROVE WorkInv'
  OBVIOUS
<1> USE WorkflowAssumption DEF WorkInv, TypeOK, vars
<1>1. ASSUME NEW q \in Schedulers, NEW jobs \in SUBSET Annotations, SelectJobs(q, jobs) PROVE WorkInv'
  BY <1>1 DEF SelectJobs
<1>2. ASSUME NEW q \in Schedulers, CommitJobs(q) PROVE WorkInv'
  BY <1>2 DEF CommitJobs
<1>3. ASSUME NEW q \in Schedulers, AbandonJobs(q) PROVE WorkInv'
  BY <1>3 DEF AbandonJobs, Unlock
<1>4. ASSUME NEW u \in Annotators, NEW a \in Annotations, SubmitLabels(u, a) PROVE WorkInv'
  BY <1>4 DEF SubmitLabels
<1>5. ASSUME NEW v \in Reviewers, NEW a \in Annotations, SubmitReview(v, a) PROVE WorkInv'
  BY <1>5 DEF SubmitReview, Reviews
<1>6. ASSUME NEW a \in Annotations, Reassign(a) PROVE WorkInv'
  BY <1>6 DEF Reassign, Fresh
<1>7. ASSUME NEW s \in Sessions, NEW h \in Handlers, NEW v \in Reviewers, NEW a \in Annotations, Load(s, h, v, a) PROVE WorkInv'
  <2> DEFINE new == Outcome(h, v, row[a])
  <2>1. new \in Rows /\ new.annotator = row[a].annotator
    BY OutcomeType
  <2>2. Dirty(h, row[a], new) \in SUBSET Columns /\ "annotator" \notin Dirty(h, row[a], new)
    BY <2>1 DEF Dirty, Columns
  <2>3. [ann |-> a, new |-> new, dirty |-> Dirty(h, row[a], new)] \in Work
    BY <2>1, <2>2 DEF Work
  <2> HIDE DEF new
  <2> QED
    BY <1>7, <2>1, <2>2, <2>3 DEF Load, new
<1>8. ASSUME NEW s \in Sessions, Commit(s) PROVE WorkInv'
  BY <1>8 DEF Commit
<1>9. ASSUME NEW s \in Sessions, Rollback(s) PROVE WorkInv'
  BY <1>9 DEF Rollback
<1>10. CASE UNCHANGED vars
  BY <1>10
<1> QED
  BY <1>1, <1>2, <1>3, <1>4, <1>5, <1>6, <1>7, <1>8, <1>9, <1>10
     DEF Next, Schedule, Handle

(* Every step keeps the count of assignments below that of the rounds. *)
LEMMA RoundStep ==
    TypeOK /\ PickedInv /\ WorkInv /\ RoundInv /\ OneAssigneePerRound /\ [Next]_vars => (RoundInv /\ OneAssigneePerRound)'
<1> SUFFICES ASSUME TypeOK, PickedInv, WorkInv, RoundInv, OneAssigneePerRound, [Next]_vars PROVE (RoundInv /\ OneAssigneePerRound)'
  OBVIOUS
<1> USE WorkflowAssumption DEF PickedInv, Assignable, WorkInv, RoundInv, OneAssigneePerRound, TypeOK, vars
<1>1. ASSUME NEW q \in Schedulers, NEW jobs \in SUBSET Annotations, SelectJobs(q, jobs) PROVE (RoundInv /\ OneAssigneePerRound)'
  BY <1>1 DEF SelectJobs, Selectable, Assignable
<1>2. ASSUME NEW q \in Schedulers, CommitJobs(q) PROVE (RoundInv /\ OneAssigneePerRound)'
  <2> SUFFICES ASSUME NEW a \in Annotations
               PROVE  /\ row'[a].annotator = None => Len(assignments'[a]) <= rework[a]
                      /\ Len(assignments'[a]) <= rework[a] + 1
    BY <1>2 DEF CommitJobs
  <2>1. /\ a \in picked[q] => /\ row'[a].annotator \in Annotators
                             /\ Len(assignments'[a]) = Len(assignments[a]) + 1
        /\ a \notin picked[q] => row'[a] = row[a] /\ assignments'[a] = assignments[a]
    BY <1>2, CommitJobsRows
  <2>2. CASE a \in picked[q]
    <3>1. row[a].annotator = None /\ Len(assignments[a]) <= rework[a]
      BY <2>2
    <3>2. row'[a].annotator # None
      BY <2>1, <2>2
    <3> QED
      BY <2>1, <2>2, <3>1, <3>2
  <2>3. CASE a \notin picked[q]
    BY <2>1, <2>3
  <2> QED
    BY <2>2, <2>3
<1>3. ASSUME NEW q \in Schedulers, AbandonJobs(q) PROVE (RoundInv /\ OneAssigneePerRound)'
  BY <1>3 DEF AbandonJobs, Unlock
<1>4. ASSUME NEW u \in Annotators, NEW a \in Annotations, SubmitLabels(u, a) PROVE (RoundInv /\ OneAssigneePerRound)'
  <2>1. PICK n \in Rows : row' = [row EXCEPT ![a] = n] /\ n.annotator = row[a].annotator
    BY <1>4, LockedEffect
  <2>2. lock[a] = None /\ UNCHANGED <<assignments, rework, lock, picked, uow>>
    BY <1>4 DEF SubmitLabels
  <2> QED
    BY <2>1, <2>2
<1>5. ASSUME NEW v \in Reviewers, NEW a \in Annotations, SubmitReview(v, a) PROVE (RoundInv /\ OneAssigneePerRound)'
  <2>1. PICK n \in Rows : row' = [row EXCEPT ![a] = n] /\ n.annotator = row[a].annotator
    BY <1>5, LockedEffect
  <2>2. lock[a] = None /\ UNCHANGED <<assignments, rework, lock, picked, uow>>
    BY <1>5 DEF SubmitReview
  <2> QED
    BY <2>1, <2>2
<1>6. ASSUME NEW a \in Annotations, Reassign(a) PROVE (RoundInv /\ OneAssigneePerRound)'
  <2>1. rework'[a] = rework[a] + 1 /\ \A b \in Annotations \ {a} : rework'[b] = rework[b] /\ row'[b] = row[b]
    BY <1>6 DEF Reassign
  <2> QED
    BY <1>6, <2>1 DEF Reassign
<1>7. ASSUME NEW s \in Sessions, NEW h \in Handlers, NEW v \in Reviewers, NEW a \in Annotations, Load(s, h, v, a) PROVE (RoundInv /\ OneAssigneePerRound)'
  BY <1>7 DEF Load
<1>8. ASSUME NEW s \in Sessions, Commit(s) PROVE (RoundInv /\ OneAssigneePerRound)'
  <2>1. uow[s] \in Work /\ uow[s].ann \in Annotations
    BY <1>8, IdleIsNoWork DEF Commit
  <2>2. /\ Flush(uow[s], row[uow[s].ann]) \in Rows
        /\ "annotator" \notin uow[s].dirty =>
             Flush(uow[s], row[uow[s].ann]).annotator = row[uow[s].ann].annotator
    BY <2>1, FlushType
  <2> QED
    BY <1>8, <2>1, <2>2 DEF Commit
<1>9. ASSUME NEW s \in Sessions, Rollback(s) PROVE (RoundInv /\ OneAssigneePerRound)'
  BY <1>9 DEF Rollback
<1>10. CASE UNCHANGED vars
  BY <1>10
<1> QED
  BY <1>1, <1>2, <1>3, <1>4, <1>5, <1>6, <1>7, <1>8, <1>9, <1>10
     DEF Next, Schedule, Handle

(* The initial state satisfies the strengthening. *)
LEMMA InitIInv == Init => IInv
<1> SUFFICES ASSUME Init PROVE IInv
  OBVIOUS
<1> USE WorkflowAssumption DEF Init
<1>1. TypeOK
  <2>1. assignments \in [Annotations -> Seq(Annotators)]
    OBVIOUS
  <2>2. /\ rework \in [Annotations -> 0 .. MaxRework]
        /\ lock \in [Annotations -> Schedulers \cup {None}]
        /\ picked \in [Schedulers -> SUBSET Annotations]
    OBVIOUS
  <2>3. uow \in [Sessions -> Work \cup {Idle}]
    OBVIOUS
  <2> QED
    BY <2>1, <2>2, <2>3 DEF TypeOK
<1>2. PickedInv /\ WorkInv
  BY DEF PickedInv, WorkInv
<1>3. RoundInv /\ OneAssigneePerRound
  BY DEF RoundInv, OneAssigneePerRound
<1> QED
  BY <1>1, <1>2, <1>3 DEF IInv

(* It is an invariant. *)
LEMMA Inductive == Spec => []IInv
<1>1. IInv /\ [Next]_vars => IInv'
  BY TypeStep, PickedStep, WorkStep, RoundStep DEF IInv
<1> QED
  BY InitIInv, <1>1, PTL DEF Spec

-----------------------------------------------------------------------------

(* Rows, locks and units of work stay well typed.                           *)
THEOREM TypeCorrect == Spec => []TypeOK
<1>1. IInv => TypeOK
  BY DEF IInv
<1> QED
  BY <1>1, Inductive, PTL

(* Between two reworks an annotation is given to at most one annotator, for *)
(* any number of schedulers and unlocked handlers (annotation.py:26).       *)
THEOREM NoDoubleAssignment == Spec => []OneAssigneePerRound
<1>1. IInv => OneAssigneePerRound
  BY DEF IInv
<1> QED
  BY <1>1, Inductive, PTL
-----------------------------------------------------------------------------

(* The annotator of a row that gets one is the last it was assigned to.      *)
LEMMA LastAppended ==
  ASSUME NEW S, NEW t \in Seq(S), NEW e \in S
  PROVE  /\ Append(t, e) # << >>
         /\ Append(t, e)[Len(Append(t, e))] = e
  BY SMT

(* A scheduler makes the annotator of each row it assigns its last assignee. *)
LEMMA CommitJobsLast ==
  ASSUME TypeOK, NEW q \in Schedulers, CommitJobs(q), NEW a \in picked[q]
  PROVE  /\ assignments'[a] # << >>
         /\ row'[a].annotator = assignments'[a][Len(assignments'[a])]
         /\ row'[a].status = "HUMAN_REVIEW"
<1>1. PICK f \in [picked[q] -> Annotators] :
        /\ row' = [b \in Annotations |->
             IF b \in picked[q]
               THEN [row[b] EXCEPT !.annotator = f[b], !.status = "HUMAN_REVIEW"]
               ELSE row[b]]
        /\ assignments' = [b \in Annotations |->
             IF b \in picked[q] THEN Append(assignments[b], f[b]) ELSE assignments[b]]
  BY CommitJobsEffect
<1>2. a \in Annotations /\ row[a] \in Rows /\ assignments[a] \in Seq(Annotators)
  BY DEF TypeOK
<1>3. f[a] \in Annotators
  OBVIOUS
<1>4. assignments'[a] = Append(assignments[a], f[a])
  BY <1>1, <1>2
<1>5. row'[a] = [row[a] EXCEPT !.annotator = f[a], !.status = "HUMAN_REVIEW"]
  BY <1>1, <1>2
<1>6. row'[a].annotator = f[a] /\ row'[a].status = "HUMAN_REVIEW"
  BY <1>2, <1>5, Zenon DEF Rows
<1> QED
  BY <1>2, <1>3, <1>4, <1>6, LastAppended

(* A submission and a review leave every annotator alone.                    *)
LEMMA LockedAnnotators ==
  ASSUME TypeOK, NEW a \in Annotations,
         \/ \E u \in Annotators : SubmitLabels(u, a)
         \/ \E v \in Reviewers : SubmitReview(v, a)
  PROVE  \A b \in Annotations : row'[b].annotator = row[b].annotator
<1>1. PICK n \in Rows : row' = [row EXCEPT ![a] = n] /\ n.annotator = row[a].annotator
  BY LockedEffect
<1> QED
  BY <1>1 DEF TypeOK

(* So does the commit of a handler that does not lock.                       *)
LEMMA CommitAnnotators ==
  ASSUME TypeOK, WorkInv, NEW s \in Sessions, Commit(s)
  PROVE  \A b \in Annotations : row'[b].annotator = row[b].annotator
<1>1. uow[s] \in Work /\ uow[s].ann \in Annotations /\ "annotator" \notin uow[s].dirty
  BY IdleIsNoWork DEF Commit, WorkInv, TypeOK
<1>2. Flush(uow[s], row[uow[s].ann]).annotator = row[uow[s].ann].annotator
  BY <1>1, FlushType DEF TypeOK
<1> QED
  BY <1>1, <1>2 DEF Commit, TypeOK

(* Every step keeps the annotator the last assignee.                         *)
LEMMA AssigneeStep ==
    TypeOK /\ WorkInv /\ AnnotatorIsAssignee /\ [Next]_vars => AnnotatorIsAssignee'
<1> SUFFICES ASSUME TypeOK, WorkInv, AnnotatorIsAssignee, [Next]_vars,
                    NEW b \in Annotations, row'[b].annotator # None
             PROVE  Assigned(b)'
  BY DEF AnnotatorIsAssignee, Assigned
<1>0. row[b].annotator # None => Assigned(b)
  BY DEF AnnotatorIsAssignee, Assigned
<1>1. ASSUME NEW q \in Schedulers, CommitJobs(q) PROVE Assigned(b)'
  <2>1. rework' = rework
    BY <1>1 DEF CommitJobs
  <2>2. CASE b \in picked[q]
    BY <1>1, <2>2, CommitJobsLast DEF Assigned
  <2>3. CASE b \notin picked[q]
    <3>1. row'[b] = row[b] /\ assignments'[b] = assignments[b]
      BY <1>1, <2>3, CommitJobsRows
    <3> QED
      BY <1>0, <2>1, <3>1 DEF Assigned
  <2> QED
    BY <2>2, <2>3
<1>2. ASSUME row'[b].annotator = row[b].annotator, UNCHANGED <<assignments, rework>>
      PROVE  Assigned(b)'
  BY <1>0, <1>2 DEF Assigned
<1>3. ASSUME NEW q \in Schedulers, NEW jobs \in SUBSET Annotations, SelectJobs(q, jobs)
      PROVE  Assigned(b)'
  BY <1>2, <1>3 DEF SelectJobs
<1>4. ASSUME NEW q \in Schedulers, AbandonJobs(q) PROVE Assigned(b)'
  BY <1>2, <1>4 DEF AbandonJobs
<1>5. ASSUME NEW u \in Annotators, NEW a \in Annotations, SubmitLabels(u, a) PROVE Assigned(b)'
  BY <1>2, <1>5, LockedAnnotators DEF SubmitLabels
<1>6. ASSUME NEW v \in Reviewers, NEW a \in Annotations, SubmitReview(v, a) PROVE Assigned(b)'
  BY <1>2, <1>6, LockedAnnotators DEF SubmitReview
<1>7. ASSUME NEW a \in Annotations, Reassign(a) PROVE Assigned(b)'
  <2>1. b # a
    BY <1>7 DEF Reassign, Fresh, TypeOK
  <2> QED
    BY <1>0, <1>7, <2>1 DEF Reassign, Assigned
<1>8. ASSUME NEW s \in Sessions, NEW h \in Handlers, NEW v \in Reviewers,
             NEW a \in Annotations, Load(s, h, v, a)
      PROVE  Assigned(b)'
  BY <1>2, <1>8 DEF Load
<1>9. ASSUME NEW s \in Sessions, Commit(s) PROVE Assigned(b)'
  BY <1>2, <1>9, CommitAnnotators DEF Commit
<1>10. ASSUME NEW s \in Sessions, Rollback(s) PROVE Assigned(b)'
  BY <1>2, <1>10 DEF Rollback
<1>11. CASE UNCHANGED vars
  BY <1>2, <1>11 DEF vars
<1> QED
  BY <1>1, <1>3, <1>4, <1>5, <1>6, <1>7, <1>8, <1>9, <1>10, <1>11
     DEF Next, Schedule, Handle
-----------------------------------------------------------------------------

(* What each locked step makes of a row that the queue keeps is one that it   *)
(* keeps: a submission by its annotator, ...                                 *)
LEMMA SubmittedQueueRow ==
  ASSUME NEW r \in Rows, r.status = "HUMAN_REVIEW", QueueRow(r)
  PROVE  QueueRow([r EXCEPT !.labels = TRUE, !.status = "QA_REVIEW"])
<1> DEFINE n == [r EXCEPT !.labels = TRUE, !.status = "QA_REVIEW"]
<1>1. n.status = "QA_REVIEW" /\ n.labels /\ n.annotator = r.annotator
  BY Zenon DEF Rows
<1>2. r.annotator # None
  BY DEF QueueRow
<1> HIDE DEF n
<1>3. QueueRow(n)
  BY <1>1, <1>2 DEF QueueRow
<1> QED
  BY <1>3 DEF n

(* ... an approval of labels by somebody else, and a rejection.              *)
LEMMA ReviewedQueueRow ==
  ASSUME NEW r \in Rows, NEW v \in Reviewers,
         r.status = "QA_REVIEW", r.annotator # v, QueueRow(r)
  PROVE  /\ QueueRow([r EXCEPT !.reviewer = v, !.status = "CERTIFIED", !.certified = TRUE])
         /\ QueueRow([r EXCEPT !.reviewer = v, !.status = "REJECTED"])
<1> DEFINE yes == [r EXCEPT !.reviewer = v, !.status = "CERTIFIED", !.certified = TRUE]
           no  == [r EXCEPT !.reviewer = v, !.status = "REJECTED"]
<1>1. /\ yes.status = "CERTIFIED" /\ yes.reviewer = v /\ yes.certified
      /\ yes.labels = r.labels /\ yes.annotator = r.annotator
  BY Zenon DEF Rows
<1>2. no.status = "REJECTED"
  BY Zenon DEF Rows
<1>3. r.labels /\ r.annotator # None /\ v # None
  BY WorkflowAssumption DEF QueueRow
<1> HIDE DEF yes, no
<1>4. QueueRow(yes)
  BY <1>1, <1>3 DEF QueueRow
<1>5. QueueRow(no)
  BY <1>2 DEF QueueRow
<1> QED
  BY <1>4, <1>5 DEF yes, no

(* A withdrawal leaves a row as it was, or rejected.                          *)
LEMMA WithdrawnRow ==
  ASSUME NEW w \in Work, NEW r \in Rows, w.dirty \subseteq {"status"},
         w.new.status = "REJECTED"
  PROVE  Flush(w, r) = r \/ Flush(w, r).status = "REJECTED"
<1>1. CASE "status" \in w.dirty
  BY <1>1 DEF Flush
<1>2. CASE "status" \notin w.dirty
  <2>1. Flush(w, r) = [status |-> r.status, annotator |-> r.annotator,
                       reviewer |-> r.reviewer, labels |-> r.labels,
                       certified |-> r.certified]
    BY <1>2 DEF Flush
  <2>2. r = [status |-> r.status, annotator |-> r.annotator,
             reviewer |-> r.reviewer, labels |-> r.labels,
             certified |-> r.certified]
    BY DEF Rows
  <2> QED
    BY <2>1, <2>2
<1> QED
  BY <1>1, <1>2

(* Every step keeps what the withdrawals are about to write.                 *)
LEMMA WithdrawalStep ==
    TypeOK /\ WithdrawalInv /\ [Next]_vars => WithdrawalInv'
<1> SUFFICES ASSUME TypeOK, WithdrawalInv, [Next]_vars, QueueOnly,
                    NEW t \in Sessions, uow'[t] # Idle
             PROVE  (uow[t].dirty \subseteq {"status"} /\ uow[t].new.status = "REJECTED")'
  BY DEF WithdrawalInv, QueueOnly
<1>1. ASSUME uow'[t] = uow[t]
      PROVE  (uow[t].dirty \subseteq {"status"} /\ uow[t].new.status = "REJECTED")'
  BY <1>1 DEF WithdrawalInv
<1>2. CASE UNCHANGED uow
  BY <1>1, <1>2
<1>3. ASSUME NEW s \in Sessions, NEW h \in Handlers, NEW v \in Reviewers,
             NEW a \in Annotations, Load(s, h, v, a)
      PROVE  (uow[t].dirty \subseteq {"status"} /\ uow[t].new.status = "REJECTED")'
  <2>1. CASE t # s
    BY <1>1, <1>3, <2>1 DEF Load, TypeOK
  <2>2. CASE t = s
    <3> DEFINE new == Outcome(h, v, row[a])
    <3>1. h = "withdraw" /\ row[a] \in Rows
      BY DEF QueueOnly, TypeOK
    <3>2. new = [row[a] EXCEPT !.status = "REJECTED"]
      BY <3>1 DEF Outcome
    <3>3. /\ new.status = "REJECTED" /\ new.annotator = row[a].annotator
          /\ new.reviewer = row[a].reviewer /\ new.labels = row[a].labels
          /\ new.certified = row[a].certified
      BY <3>1, <3>2, Zenon DEF Rows
    <3> HIDE DEF new
    <3>4. Dirty(h, row[a], new) \subseteq {"status"}
      BY <3>1, <3>3 DEF Dirty, Columns
    <3>5. uow'[t] = [ann |-> a, new |-> new, dirty |-> Dirty(h, row[a], new)]
      BY <1>3, <2>2 DEF Load, TypeOK, new
    <3> QED
      BY <3>3, <3>4, <3>5
  <2> QED
    BY <2>1, <2>2
<1>4. ASSUME NEW s \in Sessions, Commit(s) \/ Rollback(s)
      PROVE  (uow[t].dirty \subseteq {"status"} /\ uow[t].new.status = "REJECTED")'
  BY <1>1, <1>4 DEF Commit, Rollback, TypeOK
<1> QED
  BY <1>2, <1>3, <1>4 DEF Next, Schedule, Handle, SelectJobs, CommitJobs, AbandonJobs,
     SubmitLabels, SubmitReview, Reassign, vars

(* Every step keeps the rows of the queue.                                   *)
LEMMA QueueStep ==
    TypeOK /\ WithdrawalInv /\ QueueInv /\ [Next]_vars => QueueInv'
<1> SUFFICES ASSUME TypeOK, WithdrawalInv, QueueInv, [Next]_vars, QueueOnly,
                    NEW b \in Annotations
             PROVE  QueueRow(row'[b])
  BY DEF QueueInv, QueueOnly, QueueRow
<1>0. row[b] \in Rows /\ QueueRow(row[b])
  BY DEF TypeOK, QueueInv, QueueRow
<1>1. ASSUME row'[b] = row[b] PROVE QueueRow(row'[b])
  BY <1>0, <1>1
<1>2. CASE UNCHANGED row
  BY <1>1, <1>2
<1>3. ASSUME NEW q \in Schedulers, CommitJobs(q) PROVE QueueRow(row'[b])
  <2>1. CASE b \in picked[q]
    <3>1. row'[b].status = "HUMAN_REVIEW"
      BY <1>3, <2>1, CommitJobsLast
    <3>2. row'[b].annotator # None
      BY <1>3, <2>1, CommitJobsRows, WorkflowAssumption
    <3> QED
      BY <3>1, <3>2 DEF QueueRow
  <2>2. CASE b \notin picked[q]
    BY <1>1, <1>3, <2>2, CommitJobsRows
  <2> QED
    BY <2>1, <2>2
<1>4. ASSUME NEW u \in Annotators, NEW a \in Annotations, SubmitLabels(u, a)
      PROVE  QueueRow(row'[b])
  <2>1. CASE b # a
    BY <1>1, <1>4, <2>1 DEF SubmitLabels, TypeOK
  <2>2. CASE b = a
    <3>1. /\ row[b].status = "HUMAN_REVIEW"
          /\ row'[b] = [row[b] EXCEPT !.labels = TRUE, !.status = "QA_REVIEW"]
      BY <1>4, <2>2 DEF SubmitLabels, TypeOK
    <3> QED
      BY <1>0, <3>1, SubmittedQueueRow
  <2> QED
    BY <2>1, <2>2
<1>5. ASSUME NEW v \in Reviewers, NEW a \in Annotations, SubmitReview(v, a)
      PROVE  QueueRow(row'[b])
  <2>1. CASE b # a
    BY <1>1, <1>5, <2>1 DEF SubmitReview, TypeOK
  <2>2. CASE b = a
    <3> DEFINE yes == [row[b] EXCEPT !.reviewer = v, !.status = "CERTIFIED",
                                     !.certified = TRUE]
               no  == [row[b] EXCEPT !.reviewer = v, !.status = "REJECTED"]
    <3>1. /\ row[b].status = "QA_REVIEW" /\ row[b].annotator # v
          /\ row'[b] = yes \/ row'[b] = no
      BY <1>5, <2>2 DEF SubmitReview, Reviews, TypeOK
    <3>2. QueueRow(yes) /\ QueueRow(no)
      BY <1>0, <3>1, ReviewedQueueRow
    <3> QED
      BY <3>1, <3>2
  <2> QED
    BY <2>1, <2>2
<1>6. ASSUME NEW a \in Annotations, Reassign(a) PROVE QueueRow(row'[b])
  <2>1. CASE b # a
    BY <1>1, <1>6, <2>1 DEF Reassign, TypeOK
  <2>2. CASE b = a
    BY <1>6, <2>2 DEF Reassign, TypeOK, QueueRow, Fresh
  <2> QED
    BY <2>1, <2>2
<1>7. ASSUME NEW s \in Sessions, Commit(s) PROVE QueueRow(row'[b])
  <2>1. /\ uow[s] \in Work /\ uow[s].dirty \subseteq {"status"}
        /\ uow[s].new.status = "REJECTED"
    BY <1>7 DEF Commit, TypeOK, WithdrawalInv
  <2>2. CASE b # uow[s].ann
    BY <1>1, <1>7, <2>2 DEF Commit, TypeOK
  <2>3. CASE b = uow[s].ann
    <3>1. row'[b] = Flush(uow[s], row[b])
      BY <1>7, <2>3 DEF Commit, TypeOK
    <3>2. row'[b] = row[b] \/ row'[b].status = "REJECTED"
      BY <1>0, <2>1, <3>1, WithdrawnRow
    <3> QED
      BY <1>0, <3>2 DEF QueueRow
  <2> QED
    BY <2>2, <2>3
<1> QED
  BY <1>2, <1>3, <1>4, <1>5, <1>6, <1>7 DEF Next, Schedule, Handle, SelectJobs,
     AbandonJobs, Load, Rollback, vars

(* The rows that are created satisfy both.                                   *)
LEMMA InitQueue == Init => AnnotatorIsAssignee /\ QueueInv /\ WithdrawalInv
<1> SUFFICES ASSUME Init PROVE AnnotatorIsAssignee /\ QueueInv /\ WithdrawalInv
  OBVIOUS
<1>1. \A a \in Annotations :
        /\ row[a].annotator # None => a \in Live
        /\ QueueRow(row[a])
  <2> SUFFICES ASSUME NEW a \in Annotations
               PROVE  (row[a].annotator # None => a \in Live) /\ QueueRow(row[a])
    OBVIOUS
  <2>0. row[a] \in Created(a)
    BY DEF Init
  <2>1. CASE a \in Live
    <3>1. PICK u \in Capturers, l \in BOOLEAN :
            row[a] = Captured(u, l)
      BY <2>0, <2>1, SMT DEF Created
    <3>2. row[a].status = "PENDING" /\ row[a].annotator = u
      BY <3>1, Zenon DEF Captured, Fresh
    <3> QED
      BY <2>1, <3>2, WorkflowAssumption DEF QueueRow
  <2>2. CASE a \notin Live
    <3>1. row[a] = Fresh \/ row[a] = [Fresh EXCEPT !.status = "AUTO_LABELED"]
      BY <2>0, <2>2, SMT DEF Created
    <3> QED
      BY <3>1 DEF Fresh, QueueRow
  <2> QED
    BY <2>1, <2>2
<1>2. AnnotatorIsAssignee
  BY <1>1 DEF Init, AnnotatorIsAssignee
<1>3. QueueInv
  BY <1>1 DEF QueueInv, QueueRow
<1>4. WithdrawalInv
  BY DEF Init, WithdrawalInv
<1> QED
  BY <1>2, <1>3, <1>4

(* The annotator of a row is whom it was last assigned to, or who captured it *)
(* (annotation.py:26, live.py:1014): a unit of work that was loaded before an *)
(* assignment never brings an earlier annotator back.                        *)
THEOREM AnnotatorStaysAssignee == Spec => []AnnotatorIsAssignee
<1>1. Init => AnnotatorIsAssignee
  BY InitQueue
<1>2. IInv /\ AnnotatorIsAssignee /\ [Next]_vars => AnnotatorIsAssignee'
  BY AssigneeStep DEF IInv
<1> QED
  BY <1>1, <1>2, Inductive, PTL DEF Spec

(* With only withdrawals besides the queue, what is in review has its         *)
(* annotator and labels, and what is certified was certified by somebody else *)
(* (annotation.py:67-150): a withdrawal writes the status column alone, so    *)
(* one that was loaded long ago cannot bring other columns back.             *)
THEOREM QueueKeepsRows == Spec => []QueueInv
<1>1. Init => QueueInv /\ WithdrawalInv
  BY InitQueue
<1>2. IInv /\ QueueInv /\ WithdrawalInv /\ [Next]_vars => (QueueInv /\ WithdrawalInv)'
  BY WithdrawalStep, QueueStep DEF IInv
<1> QED
  BY <1>1, <1>2, Inductive, PTL DEF Spec
===============================================================================
