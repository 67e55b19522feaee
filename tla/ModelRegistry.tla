--------------------------- MODULE ModelRegistry ---------------------------
(***************************************************************************)
(* The registry of trained models of one model_type, on top of the jobs    *)
(* that train them: deploy and activate (app/api/model_registry), the roll *)
(* back of an administrator (app/api/admin) and the partial unique index   *)
(* of migration 0013.                                                      *)
(***************************************************************************)
EXTENDS TrainingJob

CONSTANTS Ids,        \* primary keys of deployed_models, in their order
          Deploys,    \* requests to POST /deploy
          Activates,  \* requests to POST /{model_id}/activate
          Rollbacks   \* requests to POST /models/rollback

ASSUME RegistryAssumption ==
  /\ Ids \subseteq Nat \ {0} /\ IsFiniteSet(Ids)
  /\ None \notin Ids

VARIABLES model,      \* the rows of deployed_models
          request     \* the requests to the registry

regVars == <<model, request>>
vars == <<job, sent, jobQueue, trainer, cancel, runs, losses, faults, model, request>>

Absent == [job |-> None]
ModelRows == [job : Jobs, version : 1 .. Cardinality(Ids) + 1,
              artifact : {None, "stored", "lost"}, active : BOOLEAN]
Requests == Deploys \cup Activates \cup Rollbacks
RequestRows ==
  {AtRest} \cup [pc : {"insert"}, row : ModelRows]
    \cup [pc : {"loaded"}, id : Ids, was : BOOLEAN]
    \cup [pc : {"both"}, id : Ids, was : BOOLEAN, current : Ids \cup {None}]
    \cup [pc : {"done"}] \cup [pc : {"failed"}]

TypeOK ==
  /\ TrainTypeOK
  /\ model \in [Ids -> ModelRows \cup {Absent}]
  /\ request \in [Requests -> RequestRows]

Init ==
  /\ TrainInit
  /\ model = [i \in Ids |-> Absent]
  /\ request = [r \in Requests |-> AtRest]

Deployed == {i \in Ids : model[i] # Absent}
ActiveIds == {i \in Deployed : model[i].active}

Failed(r) == request' = [request EXCEPT ![r] = [pc |-> "failed"]]

(***************************************************************************)
(* deploy_model                                                            *)
(***************************************************************************)
\* bug: the job is asked for its progress instead of its status
Training(j) == job[j].status # "NONE"
Deployable(j) == job[j].status = "COMPLETED" /\ job[j].artifact # None

\* counted without a lock
NextVersion == Cardinality(Deployed) + 1

DeployReads(r, j) ==
  /\ request[r] = AtRest
  /\ Deployable(j)
  /\ request' = [request EXCEPT ![r] = [pc |-> "insert", row |->
       [job |-> j, version |-> NextVersion,
        artifact |-> job[j].artifact, active |-> FALSE]]]
  /\ UNCHANGED <<trainVars, model>>

\* The primary key is a random UUID: it may sort before or after the others.
DeployInserts(r, i) ==
  /\ request[r].pc = "insert"
  /\ i \notin Deployed
  /\ model' = [model EXCEPT ![i] = request[r].row]
  /\ request' = [request EXCEPT ![r] = [pc |-> "done"]]
  /\ UNCHANGED trainVars

(***************************************************************************)
(* activate_model and rollback_model.  A session writes the attributes     *)
(* that differ from what it loaded, row after row in the order of the      *)
(* primary keys, and the unique index is checked with every row.           *)
(***************************************************************************)
\* bug: no unique index
NoIndex(off, on) == TRUE
\* off: rows that are set inactive; on: rows that are set active
Unique(off, on) ==
  \A i \in on : \A k \in ActiveIds \ {i} : k \in off /\ k < i

Swap(r, off, on) ==
  IF Unique(off, on)
    THEN /\ model' = [i \in Ids |-> IF i \in on  THEN [model[i] EXCEPT !.active = TRUE]
                               ELSE IF i \in off THEN [model[i] EXCEPT !.active = FALSE]
                               ELSE model[i]]
         /\ request' = [request EXCEPT ![r] = [pc |-> "done"]]
    ELSE Failed(r) /\ UNCHANGED model

LoadTarget(r, i) ==
  /\ request[r] = AtRest
  /\ i \in Deployed
  /\ request' = [request EXCEPT ![r] =
                   [pc |-> "loaded", id |-> i, was |-> model[i].active]]
  /\ UNCHANGED <<trainVars, model>>

\* The siblings are locked and read, except the target, which the session has
\* loaded before the lock.
Activate(r) ==
  LET i == request[r].id IN
  /\ request[r].pc = "loaded"
  /\ Swap(r, ActiveIds \ {i}, IF request[r].was THEN {} ELSE {i})
  /\ UNCHANGED trainVars

LoadCurrent(r) ==
  /\ request[r].pc = "loaded"
  /\ \E c \in IF ActiveIds = {} THEN {None} ELSE ActiveIds :
       request' = [request EXCEPT ![r] = [pc |-> "both", id |-> request[r].id,
                     was |-> request[r].was, current |-> c]]
  /\ UNCHANGED <<trainVars, model>>

\* No lock: what is set inactive is what was active when it was read.
Rollback(r) ==
  LET i == request[r].id IN
  /\ request[r].pc = "both"
  /\ Swap(r, {request[r].current} \ {i, None}, IF request[r].was THEN {} ELSE {i})
  /\ UNCHANGED trainVars

RegNext ==
  \/ \E r \in Deploys : (\E j \in Jobs : DeployReads(r, j))
                        \/ \E i \in Ids : DeployInserts(r, i)
  \/ \E r \in Activates \cup Rollbacks, i \in Ids : LoadTarget(r, i)
  \/ \E r \in Activates : Activate(r)
  \/ \E r \in Rollbacks : LoadCurrent(r) \/ Rollback(r)

Next == \/ TrainNext /\ UNCHANGED regVars
        \/ RegNext

Spec == Init /\ [][Next]_vars
FairSpec == Spec /\ TrainFairness

(***************************************************************************)
(* Properties                                                              *)
(***************************************************************************)
\* At most one model is active (deployed_model.py:15), though a roll back takes
\* no lock and both requests work with rows they loaded earlier.
OneActive == Cardinality(ActiveIds) <= 1

\* What the registry holds is what the job produced, also when the job was
\* cancelled, marked FAILED or retried between the check and the insert.
RegistryMatchesJob ==
  \A i \in Deployed : /\ model[i].artifact # None
                      /\ job[model[i].job].artifact = model[i].artifact
                      /\ job[model[i].job].progress = 100

\* A completed job has its result, and rows and requests fit together.
RegistryInv == TypeOK /\ CompletedHasResult /\ OneActive
=============================================================================
