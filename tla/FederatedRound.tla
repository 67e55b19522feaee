--------------------------- MODULE FederatedRound ---------------------------
(***************************************************************************)
(* Rounds of federated learning (services/federated_learning.py): nodes    *)
(* submit updates, an administrator aggregates what was uploaded.          *)
(*                                                                         *)
(* An update is inserted before its round is locked.  The foreign key of   *)
(* the new row takes the round FOR KEY SHARE, which excludes FOR UPDATE;   *)
(* two submissions that have both inserted wait for each other, and the    *)
(* database ends one of them.                                              *)
(***************************************************************************)
EXTENDS Integers, FiniteSets

CONSTANTS Rounds,      \* numbered in the order they are created
          Updates,     \* submissions of weights, each a request of its own
          Aggregators, \* requests that aggregate
          Target,      \* target_contributors
          LongNames,   \* rounds whose model_type makes a version longer than
                       \* the column holds
          MaxUses      \* bound on how often an update is counted as used

Nobody == "nobody"

ASSUME FederatedAssumption ==
  /\ Rounds \subseteq Nat
  /\ Target \in Nat
  /\ LongNames \subseteq Rounds
  /\ MaxUses \in Nat
  /\ Updates \cap Aggregators = {}
  /\ IsFiniteSet(Updates)
  /\ Nobody \notin Aggregators

VARIABLES round,  \* round[r]: status and num_contributors, committed
          update, \* update[u]: the committed row, Absent before
          sub,    \* sub[u]: the request that submits u
          agg,    \* agg[a]: a request that aggregates
          share,  \* share[r]: requests that hold the round FOR KEY SHARE
          owner,  \* owner[r]: the request that holds it FOR UPDATE, or Nobody
          used    \* used[u]: in how many aggregations u took part

federatedVars == <<round, update, sub, agg, share, owner, used>>

Absent == [status |-> "absent"]
Idle == [pc |-> "idle"]
Done == [pc |-> "done"]

RoundRows == [status : {"COLLECTING", "COMPLETED", "FAILED"},
              contributors : 0 .. Cardinality(Updates) + 1]

FederatedTypeOK ==
  /\ round \in [Rounds -> RoundRows \cup {Absent}]
  /\ update \in [Updates -> [status : {"UPLOADED", "AGGREGATED"}, round : Rounds] \cup {Absent}]
  /\ sub \in [Updates -> [pc : {"chosen"}, round : Rounds]
                         \cup [pc : {"inserted"}, round : Rounds, count : 1 .. Cardinality(Updates)]
                         \cup {Idle, Done}]
  /\ agg \in [Aggregators -> [pc : {"locked"}, round : Rounds, found : SUBSET Updates]
                             \cup {Idle}]
  /\ share \in [Rounds -> SUBSET Updates]
  /\ owner \in [Rounds -> Aggregators \cup {Nobody}]
  /\ used \in [Updates -> 0 .. MaxUses]

FederatedInit ==
  /\ round = [r \in Rounds |-> Absent]
  /\ update = [u \in Updates |-> Absent]
  /\ sub = [u \in Updates |-> Idle]
  /\ agg = [a \in Aggregators |-> Idle]
  /\ share = [r \in Rounds |-> {}]
  /\ owner = [r \in Rounds |-> Nobody]
  /\ used = [u \in Updates |-> 0]

Exists(r) == round[r] # Absent
Committed(r) == {u \in Updates : update[u] # Absent /\ update[u].round = r}
Uploaded(r) == {u \in Committed(r) : update[u].status = "UPLOADED"}

CreateRound(r) ==
  /\ ~ Exists(r) /\ \A q \in Rounds : q < r => Exists(q)
  /\ round' = [round EXCEPT ![r] = [status |-> "COLLECTING", contributors |-> 0]]
  /\ UNCHANGED <<update, sub, agg, share, owner, used>>

(***************************************************************************)
(* submit_weight_update                                                    *)
(***************************************************************************)
Collecting == {r \in Rounds : Exists(r) /\ round[r].status = "COLLECTING"}

\* a round that is named is not asked for its status; when none is, it is the
\* newest that collects
Choose(u, r) ==
  /\ sub[u] = Idle
  /\ Exists(r)
  /\ sub' = [sub EXCEPT ![u] = [pc |-> "chosen", round |-> r]]
  /\ UNCHANGED <<round, update, agg, share, owner, used>>

\* bug: no foreign key
NotShared(u, r) == share
Shared(u, r) == [share EXCEPT ![r] = @ \cup {u}]

\* The query for the count flushes the INSERT, so the new row is counted too.
Insert(u) ==
  /\ sub[u].pc = "chosen"
  /\ LET r == sub[u].round IN
       /\ owner[r] = Nobody
       /\ share' = Shared(u, r)
       /\ sub' = [sub EXCEPT ![u] = [pc |-> "inserted", round |-> r,
                                     count |-> Cardinality(Committed(r)) + 1]]
  /\ UNCHANGED <<round, update, agg, owner, used>>

\* FOR UPDATE, num_contributors and the commit
CommitUpdate(u) ==
  /\ sub[u].pc = "inserted"
  /\ LET r == sub[u].round IN
       /\ owner[r] = Nobody /\ share[r] \subseteq {u}
       /\ round' = [round EXCEPT ![r].contributors = sub[u].count + 1]
       /\ update' = [update EXCEPT ![u] = [status |-> "UPLOADED", round |-> r]]
       /\ share' = [share EXCEPT ![r] = @ \ {u}]
  /\ sub' = [sub EXCEPT ![u] = Done]
  /\ UNCHANGED <<agg, owner, used>>

\* Of two that inserted and wait for the other's share of the round, the
\* database rolls one back and its node gets an error; or a request is cut short.
LoseUpdate(u) ==
  /\ sub[u].pc = "inserted"
  /\ share' = [share EXCEPT ![sub[u].round] = @ \ {u}]
  /\ sub' = [sub EXCEPT ![u] = Done]
  /\ UNCHANGED <<round, update, agg, owner, used>>

(***************************************************************************)
(* aggregate_weights                                                       *)
(***************************************************************************)
\* bug: the round is read without FOR UPDATE
NotOwned(a, r) == owner
Owned(a, r) == [owner EXCEPT ![r] = a]

LockRound(a, r) ==
  /\ agg[a] = Idle
  /\ Exists(r)
  /\ owner[r] = Nobody /\ share[r] = {}
  /\ owner' = Owned(a, r)
  /\ agg' = [agg EXCEPT ![a] = [pc |-> "locked", round |-> r, found |-> Uploaded(r)]]
  /\ UNCHANGED <<round, update, sub, share, used>>

MinRequired == LET half == (Target + 1) \div 2 IN IF half > 1 THEN half ELSE 1

\* bug: the number kept with the round instead of the updates that were found
EnoughCounted(a) == agg[a].found # {} /\ round[agg[a].round].contributors >= MinRequired
Enough(a) == agg[a].found # {} /\ Cardinality(agg[a].found) >= MinRequired

TookPart(a) == Cardinality(agg[a].found)

Unlock(a) ==
  /\ owner' = [r \in Rounds |-> IF owner[r] = a THEN Nobody ELSE owner[r]]
  /\ agg' = [agg EXCEPT ![a] = Idle]

\* The status of the round is not read: one that was COMPLETED fails, or
\* completes again with what came since.
Fail(a) ==
  /\ agg[a] # Idle
  /\ ~ Enough(a)
  /\ round' = [round EXCEPT ![agg[a].round].status = "FAILED"]
  /\ Unlock(a)
  /\ UNCHANGED <<update, sub, share, used>>

Complete(a) ==
  /\ agg[a] # Idle
  /\ Enough(a)
  /\ agg[a].round \notin LongNames
  /\ \A u \in agg[a].found : used[u] < MaxUses
  /\ round' = [round EXCEPT ![agg[a].round] =
                 [status |-> "COMPLETED", contributors |-> TookPart(a)]]
  /\ update' = [u \in Updates |-> IF u \in agg[a].found
                                  THEN [update[u] EXCEPT !.status = "AGGREGATED"]
                                  ELSE update[u]]
  /\ used' = [u \in Updates |-> IF u \in agg[a].found THEN used[u] + 1 ELSE used[u]]
  /\ Unlock(a)
  /\ UNCHANGED <<sub, share>>

\* The version does not fit its column, or the request is cut short: all of it
\* is rolled back.
RollBack(a) ==
  /\ agg[a] # Idle
  /\ Unlock(a)
  /\ UNCHANGED <<round, update, sub, share, used>>

-----------------------------------------------------------------------------
Submit(u) == (\E r \in Rounds : Choose(u, r)) \/ Insert(u) \/ CommitUpdate(u) \/ LoseUpdate(u)
Aggregate(a) == (\E r \in Rounds : LockRound(a, r)) \/ Fail(a) \/ Complete(a) \/ RollBack(a)

FederatedNext ==
  \/ \E r \in Rounds : CreateRound(r)
  \/ \E u \in Updates : Submit(u)
  \/ \E a \in Aggregators : Aggregate(a)

FederatedSpec == FederatedInit /\ [][FederatedNext]_federatedVars

-----------------------------------------------------------------------------
\* The weights a node sends take part in one aggregation at most, also when two
\* requests aggregate the round or it is aggregated again (aggregate_weights).
AggregatedOnce ==
  \A u \in Updates : used[u] = IF update[u] # Absent /\ update[u].status = "AGGREGATED"
                               THEN 1 ELSE 0

\* No submission is lost from num_contributors while the round collects, though
\* the count is read before the round is locked; it is one too many, as the row
\* just inserted is counted and added (submit_weight_update).
CountKept ==
  \A r \in Collecting :
    round[r].contributors = IF Committed(r) = {} THEN 0 ELSE Cardinality(Committed(r)) + 1

\* A round is COMPLETED only with the weights of half of its contributors,
\* whatever was counted or rolled back meanwhile (MIN_PARTICIPATION_FRACTION).
CompletedEnough ==
  \A r \in Rounds : round[r].status = "COMPLETED" =>
    Cardinality(Committed(r) \ Uploaded(r)) >= MinRequired
=============================================================================
