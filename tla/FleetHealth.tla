---------------------------- MODULE FleetHealth ----------------------------
(***************************************************************************)
(* The nodes of the fleet (services/fleet.py): a heartbeat updates the row *)
(* of its node and takes the commands waiting there, an operator adds a    *)
(* command to what he read without a lock, and a periodic task marks the   *)
(* nodes OFFLINE that were silent for too long, skipping locked rows.      *)
(* Requests of one node overlap when it gives up waiting and beats again.  *)
(* Time is kept as ages, which stop growing when nothing asks for more, so *)
(* it has no end; a request that takes longer than Wait is left out.       *)
(***************************************************************************)
EXTENDS Integers, Sequences, FiniteSets

CONSTANTS Nodes,     \* enabled nodes
          Beats,     \* heartbeat requests that may be open at one time
          Operators, \* command requests that may be open at one time
          Commands,  \* numbered in the order they are given
          Keep,      \* how many waiting commands a row keeps
          Timeout,   \* HEARTBEAT_TIMEOUT_HOURS
          Wait,      \* the longest a request or a sweep takes
          MaxFaults  \* bound on requests and sweeps that are cut short

Free == "free"
Sweeper == "sweep"

ASSUME FleetAssumption ==
  /\ Commands \subseteq Nat \ {0}
  /\ Keep \in Nat \ {0}
  /\ Timeout \in Nat /\ Wait \in Nat /\ Wait <= Timeout
  /\ MaxFaults \in Nat
  /\ Beats \cap {Free, Sweeper} = {}

VARIABLES status,  \* status[n]: nodes.status
          age,     \* age[n]: since last_heartbeat_at, Never when it is NULL
          heard,   \* heard[n]: since the latest heartbeat that was recorded
          pending, \* pending[n]: network_config["_pending_commands"]
          lock,    \* lock[n]: what holds the lock of the row
          beat,    \* beat[b]: an open heartbeat request
          op,      \* op[o]: an open command request
          sweep,   \* the periodic task
          given,   \* given[n]: the commands that a recorded heartbeat took
          queued,  \* queued[n]: those that an operator was told are queued
          raced,   \* pairs of commands whose requests, for one node, overlapped
          faults

vars == <<status, age, heard, pending, lock, beat, op, sweep, given, queued,
          raced, faults>>

MaxAge == Timeout + Wait + 1
Never == MaxAge + 1
Ages == 0 .. MaxAge

BeatRows == [pc : {"started", "locked", "read"}, node : Nodes, age : 0 .. Wait,
             commands : Seq(Commands)]
NoBeat == [pc |-> "idle"]
NoOp == [pc |-> "idle"]
NoSweep == [pc |-> "idle", age |-> 0, found |-> {}]

TypeOK ==
  /\ status \in [Nodes -> {"ONLINE", "DEGRADED", "OFFLINE"}]
  /\ age \in [Nodes -> Ages \cup {Never}]
  /\ heard \in [Nodes -> Ages \cup {Never}]
  /\ pending \in [Nodes -> Seq(Commands)]
  /\ lock \in [Nodes -> {Free, Sweeper} \cup Beats]
  /\ beat \in [Beats -> BeatRows \cup {NoBeat}]
  /\ op \in [Operators -> [pc : {"read"}, node : Nodes, command : Commands,
                           seen : Seq(Commands)] \cup {NoOp}]
  /\ sweep \in [pc : {"idle", "started", "locked"}, age : 0 .. Wait, found : SUBSET Nodes]
  /\ given \in [Nodes -> SUBSET Commands]
  /\ queued \in [Nodes -> SUBSET Commands]
  /\ raced \subseteq SUBSET Commands
  /\ faults \in 0 .. MaxFaults
  /\ \A n \in Nodes : Len(pending[n]) <= Keep

Init ==
  /\ status = [n \in Nodes |-> "ONLINE"]
  /\ age = [n \in Nodes |-> Never]
  /\ heard = [n \in Nodes |-> Never]
  /\ pending = [n \in Nodes |-> << >>]
  /\ lock = [n \in Nodes |-> Free]
  /\ beat = [b \in Beats |-> NoBeat]
  /\ op = [o \in Operators |-> NoOp]
  /\ sweep = NoSweep
  /\ given = [n \in Nodes |-> {}]
  /\ queued = [n \in Nodes |-> {}]
  /\ raced = {}
  /\ faults = 0

(***************************************************************************)
(* Time                                                                    *)
(***************************************************************************)
Older(a) == IF a < MaxAge THEN a + 1 ELSE a

Tick ==
  /\ \A b \in Beats : beat[b] # NoBeat => beat[b].age < Wait
  /\ sweep # NoSweep => sweep.age < Wait
  /\ age' = [n \in Nodes |-> Older(age[n])]
  /\ heard' = [n \in Nodes |-> Older(heard[n])]
  /\ beat' = [b \in Beats |-> IF beat[b] = NoBeat THEN NoBeat
                              ELSE [beat[b] EXCEPT !.age = @ + 1]]
  /\ sweep' = IF sweep = NoSweep THEN NoSweep ELSE [sweep EXCEPT !.age = @ + 1]
  /\ UNCHANGED <<status, pending, lock, op, given, queued, raced, faults>>

(***************************************************************************)
(* record_heartbeat                                                        *)
(***************************************************************************)
\* its time is taken before anything is read or locked
StartBeat(b, n) ==
  /\ beat[b] = NoBeat
  /\ beat' = [beat EXCEPT ![b] = [pc |-> "started", node |-> n, age |-> 0,
                                  commands |-> << >>]]
  /\ UNCHANGED <<status, age, heard, pending, lock, op, sweep, given, queued, raced, faults>>

\* the UPDATE locks the row until the commit
Kept(b) == [lock EXCEPT ![beat[b].node] = b]

LockRow(b) ==
  /\ beat[b].pc = "started"
  /\ lock[beat[b].node] = Free
  /\ lock' = Kept(b)
  /\ beat' = [beat EXCEPT ![b].pc = "locked"]
  /\ UNCHANGED <<status, age, heard, pending, op, sweep, given, queued, raced, faults>>

ReadCommands(b) ==
  /\ beat[b].pc = "locked"
  /\ beat' = [beat EXCEPT ![b].pc = "read", ![b].commands = pending[beat[b].node]]
  /\ UNCHANGED <<status, age, heard, pending, lock, op, sweep, given, queued, raced, faults>>

\* what _derive_node_status makes of the telemetry: MAINTENANCE is never set
Derived == {"ONLINE", "DEGRADED"}

\* One commit for the row, the commands taken from it and the alerts.  The
\* answer may be lost on its way to the node, and the commands with it.
CommitBeat(b) ==
  LET n == beat[b].node IN
  /\ beat[b].pc = "read"
  /\ \E s \in Derived : status' = [status EXCEPT ![n] = s]
  /\ age' = [age EXCEPT ![n] = beat[b].age]
  /\ heard' = [heard EXCEPT ![n] = IF beat[b].age < @ THEN beat[b].age ELSE @]
  /\ pending' = [pending EXCEPT ![n] = IF beat[b].commands = << >> THEN @ ELSE << >>]
  /\ given' = [given EXCEPT ![n] = @ \cup {beat[b].commands[i] : i \in DOMAIN beat[b].commands}]
  /\ lock' = [lock EXCEPT ![n] = IF @ = b THEN Free ELSE @]
  /\ beat' = [beat EXCEPT ![b] = NoBeat]
  /\ UNCHANGED <<op, sweep, queued, raced, faults>>

\* the request ends in an error and its transaction is rolled back
BeatFails(b) ==
  /\ beat[b] # NoBeat
  /\ faults < MaxFaults
  /\ faults' = faults + 1
  /\ lock' = [n \in Nodes |-> IF lock[n] = b THEN Free ELSE lock[n]]
  /\ beat' = [beat EXCEPT ![b] = NoBeat]
  /\ UNCHANGED <<status, age, heard, pending, op, sweep, given, queued, raced>>

(***************************************************************************)
(* send_node_command                                                       *)
(***************************************************************************)
Given(c) ==
  \/ \E n \in Nodes : c \in queued[n]
  \/ \E o \in Operators : op[o] # NoOp /\ op[o].command = c

Open(n) == {op[o].command : o \in {p \in Operators : op[p] # NoOp /\ op[p].node = n}}

ReadNetwork(o, n, c) ==
  /\ op[o] = NoOp
  /\ ~ Given(c) /\ \A d \in Commands : d < c => Given(d)
  /\ op' = [op EXCEPT ![o] = [pc |-> "read", node |-> n, command |-> c,
                              seen |-> pending[n]]]
  /\ raced' = raced \cup {{c, d} : d \in Open(n)}
  /\ UNCHANGED <<status, age, heard, pending, lock, beat, sweep, given, queued, faults>>

Front(s, k) == SubSeq(s, 1, IF Len(s) < k THEN Len(s) ELSE k)
Last(s, k) == SubSeq(s, IF Len(s) < k THEN 1 ELSE Len(s) - k + 1, Len(s))

\* bug: the oldest commands are kept and the newest does not fit
OldestKept(o) == Front(Append(op[o].seen, op[o].command), Keep)
Added(o) == Last(Append(op[o].seen, op[o].command), Keep)

\* the UPDATE waits for the lock and replaces what is there by then
WriteNetwork(o) ==
  LET n == op[o].node IN
  /\ op[o] # NoOp
  /\ lock[n] = Free
  /\ pending' = [pending EXCEPT ![n] = Added(o)]
  /\ queued' = [queued EXCEPT ![n] = @ \cup {op[o].command}]
  /\ op' = [op EXCEPT ![o] = NoOp]
  /\ UNCHANGED <<status, age, heard, lock, beat, sweep, given, raced, faults>>

(***************************************************************************)
(* check_heartbeat_timeouts                                                *)
(***************************************************************************)
StartSweep ==
  /\ sweep = NoSweep
  /\ sweep' = [NoSweep EXCEPT !.pc = "started"]
  /\ UNCHANGED <<status, age, heard, pending, lock, beat, op, given, queued, raced, faults>>

Selected == {n \in Nodes : status[n] # "OFFLINE" /\ lock[n] = Free}
\* the cutoff is that of the start of the sweep; a row without a heartbeat is late
Late(n) == age[n] - sweep.age > Timeout

\* bug: without FOR UPDATE
LocksNone == lock
\* FOR UPDATE SKIP LOCKED
LocksSelected == [n \in Nodes |-> IF n \in Selected THEN Sweeper ELSE lock[n]]

SelectRows ==
  /\ sweep.pc = "started"
  /\ lock' = LocksSelected
  /\ sweep' = [sweep EXCEPT !.pc = "locked", !.found = {n \in Selected : Late(n)}]
  /\ UNCHANGED <<status, age, heard, pending, beat, op, given, queued, raced, faults>>

\* bug: only a row that had a heartbeat can be late
HadHeartbeat == {n \in sweep.found : age[n] # Never}
TimedOut == sweep.found

CommitSweep ==
  /\ sweep.pc = "locked"
  /\ status' = [n \in Nodes |-> IF n \in TimedOut THEN "OFFLINE" ELSE status[n]]
  /\ lock' = [n \in Nodes |-> IF lock[n] = Sweeper THEN Free ELSE lock[n]]
  /\ sweep' = NoSweep
  /\ UNCHANGED <<age, heard, pending, beat, op, given, queued, raced, faults>>

\* the worker is lost, or its transaction rolled back
SweepDies ==
  /\ sweep # NoSweep
  /\ faults < MaxFaults
  /\ faults' = faults + 1
  /\ lock' = [n \in Nodes |-> IF lock[n] = Sweeper THEN Free ELSE lock[n]]
  /\ sweep' = NoSweep
  /\ UNCHANGED <<status, age, heard, pending, beat, op, given, queued, raced>>

-----------------------------------------------------------------------------
HandleBeat(b) == LockRow(b) \/ ReadCommands(b) \/ CommitBeat(b)
Sweep == StartSweep \/ SelectRows \/ CommitSweep

Next ==
  \/ Tick
  \/ \E b \in Beats : (\E n \in Nodes : StartBeat(b, n)) \/ HandleBeat(b) \/ BeatFails(b)
  \/ \E o \in Operators :
       (\E n \in Nodes, c \in Commands : ReadNetwork(o, n, c)) \/ WriteNetwork(o)
  \/ Sweep
  \/ SweepDies

Spec == Init /\ [][Next]_vars

\* Celery beat starts the sweep every five minutes, and a request that was
\* accepted is handled.
FairSpec == Spec /\ WF_vars(Sweep) /\ \A b \in Beats : WF_vars(HandleBeat(b))

-----------------------------------------------------------------------------
\* A node is marked OFFLINE only when no heartbeat it sent within the timeout
\* has been recorded, up to the time a request takes: none slips in between the
\* sweep's look at the row and its write (check_heartbeat_timeouts).
OfflineWasSilent ==
  [][\A n \in Nodes : status'[n] = "OFFLINE" /\ status[n] # "OFFLINE" =>
       heard[n] > Timeout - Wait]_vars

\* A node that falls silent, or was never heard, is marked OFFLINE in the end,
\* although a sweep skips the rows that are locked while it looks.
SilentGoesOffline ==
  \A n \in Nodes : age[n] > Timeout ~> (status[n] = "OFFLINE" \/ age[n] <= Timeout)

\* "Command queued for next heartbeat" (post_command): a command that an operator was
\* told is queued still waits, was taken by a heartbeat, or made room for as many later
\* ones as the row keeps, unless the request of another command that was queued for
\* the node overlapped its own: then the write of the one replaces the other.
AtLeastOnce ==
  \A n \in Nodes : \A c \in queued[n] :
    \/ \E i \in DOMAIN pending[n] : pending[n][i] = c
    \/ c \in given[n]
    \/ Cardinality({d \in queued[n] : d > c}) >= Keep
    \/ \E d \in queued[n] : {c, d} \in raced
=============================================================================
