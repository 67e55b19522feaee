----------------------------- MODULE NodeProofs -----------------------------
(***************************************************************************)
(* Proofs about what the server keeps of the nodes in the field: their     *)
(* health and their commands (FleetHealth), and the rounds of federated    *)
(* learning (FederatedRound).  The two share no state.                     *)
(***************************************************************************)
EXTENDS FleetHealth, FederatedRound, FiniteSetTheorems, SequenceTheorems, TLAPS

(***************************************************************************)
(* FleetHealth, for any number of nodes, requests, operators and commands, *)
(* and any timeout that is no shorter than a request                       *)
(***************************************************************************)
OpRows == [pc : {"read"}, node : Nodes, command : Commands, seen : Seq(Commands)]
Sweeps == [pc : {"idle", "started", "locked"}, age : 0 .. Wait, found : SUBSET Nodes]

\* A heartbeat that has updated its row holds it.
BeatHolds == \A b \in Beats : beat[b].pc \in {"locked", "read"} => lock[beat[b].node] = b

\* The row says of a node at most one request less than what was recorded of it.
AgeFollows == \A n \in Nodes : age[n] <= heard[n] + Wait

\* The rows that the sweep found are its own until it commits.
FoundAreSilent ==
  sweep.pc = "locked" =>
    \A n \in sweep.found : lock[n] = Sweeper /\ heard[n] > Timeout - Wait

IInv == TypeOK /\ BeatHolds /\ AgeFollows /\ FoundAreSilent

\* What waits in a row, or was read from it, are queued commands in their order, ...
Rising(s) == \A i, j \in 1 .. Len(s) : i < j => s[i] < s[j]
Waiting(s, q) == Rising(s) /\ \A i \in 1 .. Len(s) : s[i] \in q

\* ... and those that are not there were taken, made room, or had a request that
\* overlapped that of a command in x: z are the pairs of which that is true.
Found(s, q, x, g, z, c) ==
  \/ \E i \in 1 .. Len(s) : s[i] = c
  \/ c \in g
  \/ Cardinality({d \in q : d > c}) >= Keep
  \/ \E d \in x : {c, d} \in z
Accounted(s, q, x, g, z) == \A c \in q : Found(s, q, x, g, z, c)

RowInv == \A n \in Nodes :
  /\ IsFiniteSet(queued[n]) /\ Waiting(pending[n], queued[n])
  /\ Accounted(pending[n], queued[n], queued[n], given[n], raced)

\* What an operator is going to write: commands that were queued before his own was
\* given, and those queued since overlap with it.
OpInv == \A o \in Operators : op[o] # NoOp =>
  /\ Len(op[o].seen) <= Keep
  /\ Waiting(op[o].seen, queued[op[o].node])
  /\ Accounted(op[o].seen, queued[op[o].node], queued[op[o].node] \cup {op[o].command},
               given[op[o].node], raced)
  /\ \A i \in 1 .. Len(op[o].seen) : op[o].seen[i] < op[o].command

\* Requests that are open at one time overlap.
OpenRace == \A o, p \in Operators :
  o # p /\ op[o] # NoOp /\ op[p] # NoOp /\ op[o].node = op[p].node
    => {op[o].command, op[p].command} \in raced

\* Nobody writes the commands that a heartbeat has read from the row it holds.
BeatInv == \A b \in Beats : beat[b].pc = "read" => beat[b].commands = pending[beat[b].node]

\* Commands are given in their order.
GivenInOrder == \A c, d \in Commands : Given(c) /\ d < c => Given(d)

CommandInv == RowInv /\ OpInv /\ OpenRace /\ BeatInv /\ GivenInOrder

LEMMA Bounds ==
  /\ Timeout \in Nat /\ Wait \in Nat /\ MaxAge \in Nat /\ Never \in Nat
  /\ MaxAge >= Wait /\ MaxAge > Timeout /\ Never = MaxAge + 1
BY FleetAssumption DEF MaxAge, Never

LEMMA TypeFacts ==
  ASSUME TypeOK
  PROVE  /\ \A n \in Nodes : /\ age[n] \in Nat /\ heard[n] \in Nat
                             /\ age[n] <= Never /\ heard[n] <= Never
         /\ lock \in [Nodes -> {Free, Sweeper} \cup Beats]
         /\ beat \in [Beats -> BeatRows \cup {NoBeat}]
         /\ op \in [Operators -> OpRows \cup {NoOp}]
         /\ sweep \in Sweeps
         /\ pending \in [Nodes -> Seq(Commands)]
<1>1. \A n \in Nodes : age[n] \in Ages \cup {Never} /\ heard[n] \in Ages \cup {Never}
  BY DEF TypeOK
<1>2. \A n \in Nodes : /\ age[n] \in Nat /\ heard[n] \in Nat
                       /\ age[n] <= Never /\ heard[n] <= Never
  BY <1>1, Bounds DEF Ages
<1> QED BY <1>2 DEF TypeOK, OpRows, Sweeps

LEMMA BeatFacts ==
  ASSUME TypeOK, NEW b \in Beats
  PROVE  /\ beat[b] # NoBeat => beat[b] \in BeatRows
         /\ beat[b].pc \in {"started", "locked", "read"} => beat[b] # NoBeat
         /\ beat[b] \in BeatRows => beat[b].node \in Nodes /\ beat[b].age \in 0 .. Wait
                                      /\ beat[b].commands \in Seq(Commands)
         /\ NoBeat.pc = "idle" /\ b # Free /\ b # Sweeper
BY TypeFacts, FleetAssumption DEF BeatRows, NoBeat

LEMMA OlderFacts ==
  ASSUME NEW a \in Nat, a <= Never
  PROVE  /\ Older(a) \in Nat /\ Older(a) >= a
         /\ a \in Ages \cup {Never} /\ Older(a) \in Ages \cup {Never}
BY Bounds DEF Older, Ages

-----------------------------------------------------------------------------
(***************************************************************************)
(* Steps                                                                   *)
(***************************************************************************)
LEMMA InitInv == Init => IInv
<1> SUFFICES ASSUME Init PROVE IInv
  OBVIOUS
<1>1. << >> \in Seq(Commands) /\ Len(<< >>) = 0
  OBVIOUS
<1>2. TypeOK
  <2>1. status \in [Nodes -> {"ONLINE", "DEGRADED", "OFFLINE"}]
          /\ lock \in [Nodes -> {Free, Sweeper} \cup Beats]
    BY DEF Init
  <2>2. age \in [Nodes -> Ages \cup {Never}] /\ heard \in [Nodes -> Ages \cup {Never}]
    BY DEF Init
  <2>3. pending \in [Nodes -> Seq(Commands)] /\ \A n \in Nodes : Len(pending[n]) <= Keep
    BY <1>1, FleetAssumption DEF Init
  <2>4. beat \in [Beats -> BeatRows \cup {NoBeat}] /\ op \in [Operators -> OpRows \cup {NoOp}]
    BY DEF Init
  <2>5. sweep \in Sweeps
    BY FleetAssumption DEF Init, NoSweep, Sweeps
  <2>6. given \in [Nodes -> SUBSET Commands] /\ queued \in [Nodes -> SUBSET Commands]
          /\ raced \subseteq SUBSET Commands /\ faults \in 0 .. MaxFaults
    BY FleetAssumption DEF Init
  <2> QED BY <2>1, <2>2, <2>3, <2>4, <2>5, <2>6 DEF TypeOK, OpRows, Sweeps
<1>3. BeatHolds
  BY DEF Init, BeatHolds, NoBeat
<1>4. AgeFollows
  BY Bounds DEF Init, AgeFollows
<1>5. FoundAreSilent
  BY DEF Init, FoundAreSilent, NoSweep
<1> QED BY <1>2, <1>3, <1>4, <1>5 DEF IInv

LEMMA TickStep == IInv /\ Tick => IInv'
<1> SUFFICES ASSUME IInv, Tick PROVE IInv'
  OBVIOUS
<1>1. /\ \A b \in Beats : beat[b] # NoBeat => beat[b].age < Wait
      /\ sweep # NoSweep => sweep.age < Wait
      /\ age' = [n \in Nodes |-> Older(age[n])] /\ heard' = [n \in Nodes |-> Older(heard[n])]
      /\ beat' = [b \in Beats |-> IF beat[b] = NoBeat THEN NoBeat
                                  ELSE [beat[b] EXCEPT !.age = beat[b].age + 1]]
      /\ sweep' = IF sweep = NoSweep THEN NoSweep ELSE [sweep EXCEPT !.age = sweep.age + 1]
      /\ UNCHANGED <<status, pending, lock, op, given, queued, raced, faults>>
  BY DEF Tick
<1>2. \A n \in Nodes : /\ age[n] \in Nat /\ age[n] <= Never /\ heard[n] \in Nat /\ heard[n] <= Never
                       /\ age'[n] = Older(age[n]) /\ heard'[n] = Older(heard[n])
  BY <1>1, TypeFacts DEF IInv
<1>3. \A b \in Beats : /\ beat[b] = NoBeat => beat'[b] = NoBeat
                       /\ beat[b] # NoBeat => /\ beat'[b] \in BeatRows
                                              /\ beat'[b].pc = beat[b].pc
                                              /\ beat'[b].node = beat[b].node
  <2> SUFFICES ASSUME NEW b \in Beats, beat[b] # NoBeat
               PROVE  beat'[b] \in BeatRows /\ beat'[b].pc = beat[b].pc /\ beat'[b].node = beat[b].node
    BY <1>1
  <2>1. beat[b] \in BeatRows /\ beat[b].age + 1 \in 0 .. Wait
    BY <1>1, BeatFacts, FleetAssumption DEF IInv
  <2>2. beat'[b] = [beat[b] EXCEPT !.age = beat[b].age + 1]
    BY <1>1
  <2> QED BY <2>1, <2>2 DEF BeatRows
<1>4. sweep' \in Sweeps /\ sweep'.pc = sweep.pc /\ sweep'.found = sweep.found
  <2>1. sweep \in Sweeps
    BY TypeFacts DEF IInv
  <2>2. CASE sweep = NoSweep
    BY <1>1, <2>1, <2>2
  <2>3. CASE sweep # NoSweep
    <3>1. sweep' = [sweep EXCEPT !.age = sweep.age + 1] /\ sweep.age + 1 \in 0 .. Wait
      BY <1>1, <2>1, <2>3, FleetAssumption DEF Sweeps
    <3> QED BY <2>1, <3>1 DEF Sweeps
  <2> QED BY <2>2, <2>3
<1>5. TypeOK'
  <2>1. age' \in [Nodes -> Ages \cup {Never}] /\ heard' \in [Nodes -> Ages \cup {Never}]
    BY <1>1, <1>2, OlderFacts
  <2>2. beat' \in [Beats -> BeatRows \cup {NoBeat}]
    BY <1>1, <1>3
  <2> QED BY <1>1, <1>4, <2>1, <2>2 DEF IInv, TypeOK, Sweeps
<1>6. BeatHolds'
  BY <1>1, <1>3 DEF IInv, BeatHolds, NoBeat
<1>7. AgeFollows'
  <2> SUFFICES ASSUME NEW n \in Nodes PROVE Older(age[n]) <= Older(heard[n]) + Wait
    BY <1>2 DEF AgeFollows
  <2>1. age[n] \in Nat /\ heard[n] \in Nat /\ age[n] <= heard[n] + Wait
    BY <1>2 DEF IInv, AgeFollows
  <2> QED BY <2>1, Bounds DEF Older
<1>8. FoundAreSilent'
  <2> SUFFICES ASSUME sweep.pc = "locked", NEW n \in sweep.found
               PROVE  lock'[n] = Sweeper /\ heard'[n] > Timeout - Wait
    BY <1>4 DEF FoundAreSilent
  <2>1. n \in Nodes /\ lock[n] = Sweeper /\ heard[n] > Timeout - Wait
    BY TypeFacts DEF IInv, FoundAreSilent, Sweeps
  <2>2. heard'[n] >= heard[n] /\ heard'[n] \in Nat /\ heard[n] \in Nat
    BY <1>2, <2>1, OlderFacts
  <2> QED BY <1>1, <2>1, <2>2, Bounds
<1> QED BY <1>5, <1>6, <1>7, <1>8 DEF IInv

(* Reading a node's commands leaves a row of a heartbeat, for the same node. *)
ReadOf(r, cs) == [r EXCEPT !.pc = "read", !.commands = cs]
LEMMA ReadRow ==
  ASSUME NEW r \in BeatRows, NEW cs \in Seq(Commands)
  PROVE  /\ ReadOf(r, cs) \in BeatRows /\ ReadOf(r, cs).node = r.node
         /\ ReadOf(r, cs).pc = "read" /\ ReadOf(r, cs).commands = cs
<1>1. ReadOf(r, cs) \in BeatRows
  BY Zenon DEF BeatRows, ReadOf
<1>2. /\ ReadOf(r, cs).node = r.node
      /\ ReadOf(r, cs).pc = "read" /\ ReadOf(r, cs).commands = cs
  BY DEF BeatRows, ReadOf
<1> QED BY <1>1, <1>2

\* Heartbeats that begin, lock their row or read the commands.
LEMMA BeatGoesStep ==
  ASSUME NEW b \in Beats, NEW n \in Nodes
  PROVE  IInv /\ (StartBeat(b, n) \/ LockRow(b) \/ ReadCommands(b)) => IInv'
<1> SUFFICES ASSUME IInv, StartBeat(b, n) \/ LockRow(b) \/ ReadCommands(b) PROVE IInv'
  OBVIOUS
<1>1. UNCHANGED <<status, age, heard, pending, op, sweep, given, queued, raced, faults>>
  BY DEF StartBeat, LockRow, ReadCommands
<1>2. CASE StartBeat(b, n)
  <2>1. /\ beat[b] = NoBeat /\ UNCHANGED lock
        /\ beat' = [beat EXCEPT ![b] = [pc |-> "started", node |-> n, age |-> 0, commands |-> << >>]]
    BY <1>2 DEF StartBeat
  <2>2. [pc |-> "started", node |-> n, age |-> 0, commands |-> << >>] \in BeatRows
    BY FleetAssumption DEF BeatRows
  <2>3. beat' \in [Beats -> BeatRows \cup {NoBeat}]
    BY <2>1, <2>2, TypeFacts DEF IInv
  <2>4. TypeOK'
    BY <1>1, <2>1, <2>3 DEF IInv, TypeOK
  <2>5. BeatHolds'
    BY <2>1, TypeFacts DEF IInv, BeatHolds
  <2>6. AgeFollows' /\ FoundAreSilent'
    BY <1>1, <2>1 DEF IInv, AgeFollows, FoundAreSilent
  <2> QED BY <2>4, <2>5, <2>6 DEF IInv
<1>3. CASE LockRow(b)
  <2>1. beat[b].pc = "started" /\ beat[b] \in BeatRows
    BY <1>3, BeatFacts DEF IInv, LockRow
  <2>2. PICK m \in Nodes : m = beat[b].node
    BY <2>1, BeatFacts DEF IInv
  <2>3. /\ lock[m] = Free /\ lock' = [lock EXCEPT ![m] = b]
        /\ beat' = [beat EXCEPT ![b].pc = "locked"]
    BY <1>3, <2>2 DEF LockRow, Kept
  <2>4. /\ beat'[b] \in BeatRows /\ beat'[b].node = m
        /\ \A c \in Beats \ {b} : beat'[c] = beat[c]
    <3>1. beat'[b] = [beat[b] EXCEPT !.pc = "locked"] /\ \A c \in Beats \ {b} : beat'[c] = beat[c]
      BY <2>3, TypeFacts DEF IInv
    <3> QED BY <2>1, <2>2, <3>1 DEF BeatRows
  <2>5. lock'[m] = b /\ \A k \in Nodes \ {m} : lock'[k] = lock[k]
    BY <2>3, TypeFacts DEF IInv
  <2>6. TypeOK'
    <3>1. beat' \in [Beats -> BeatRows \cup {NoBeat}]
      BY <2>3, <2>4, TypeFacts DEF IInv
    <3>2. lock' \in [Nodes -> {Free, Sweeper} \cup Beats]
      BY <2>3, TypeFacts DEF IInv
    <3> QED BY <1>1, <3>1, <3>2 DEF IInv, TypeOK
  <2>7. BeatHolds'
    <3> SUFFICES ASSUME NEW c \in Beats, beat'[c].pc \in {"locked", "read"}
                 PROVE  lock'[beat'[c].node] = c
      BY DEF BeatHolds
    <3>1. CASE c = b
      BY <2>4, <2>5, <3>1
    <3>2. CASE c # b
      <4>1. beat'[c] = beat[c] /\ beat[c].node \in Nodes /\ lock[beat[c].node] = c /\ c # Free
        BY <2>4, <3>2, BeatFacts DEF IInv, BeatHolds
      <4> QED BY <2>3, <2>5, <4>1
    <3> QED BY <3>1, <3>2
  <2>8. AgeFollows' /\ FoundAreSilent'
    <3>1. sweep.pc = "locked" => m \notin sweep.found
      BY <2>3 DEF IInv, FoundAreSilent, Free, Sweeper
    <3>2. sweep.found \subseteq Nodes
      BY TypeFacts DEF IInv, Sweeps
    <3> QED BY <1>1, <2>5, <3>1, <3>2 DEF IInv, AgeFollows, FoundAreSilent
  <2> QED BY <2>6, <2>7, <2>8 DEF IInv
<1>4. CASE ReadCommands(b)
  <2>1. beat[b].pc = "locked" /\ beat[b] \in BeatRows
    BY <1>4, BeatFacts DEF IInv, ReadCommands
  <2>2. PICK m \in Nodes : m = beat[b].node
    BY <2>1, BeatFacts DEF IInv
  <2>3. UNCHANGED lock /\ pending[m] \in Seq(Commands)
          /\ beat' = [beat EXCEPT ![b].pc = "read", ![b].commands = pending[m]]
    BY <1>4, <2>2, TypeFacts DEF IInv, ReadCommands
  <2>4. /\ beat'[b] \in BeatRows /\ beat'[b].node = m
        /\ \A c \in Beats \ {b} : beat'[c] = beat[c]
    <3>1. beat'[b] = ReadOf(beat[b], pending[m]) /\ \A c \in Beats \ {b} : beat'[c] = beat[c]
      BY <2>3, TypeFacts DEF IInv, ReadOf
    <3>2. beat'[b] \in BeatRows /\ beat'[b].node = beat[b].node
      BY <2>1, <2>3, <3>1, ReadRow
    <3> QED BY <2>2, <3>1, <3>2
  <2>5. TypeOK'
    <3>1. beat' \in [Beats -> BeatRows \cup {NoBeat}]
      BY <2>3, <2>4, TypeFacts DEF IInv
    <3> QED BY <1>1, <2>3, <3>1 DEF IInv, TypeOK
  <2>6. BeatHolds'
    BY <2>1, <2>2, <2>3, <2>4 DEF IInv, BeatHolds
  <2>7. AgeFollows' /\ FoundAreSilent'
    BY <1>1, <2>3 DEF IInv, AgeFollows, FoundAreSilent
  <2> QED BY <2>5, <2>6, <2>7 DEF IInv
<1> QED BY <1>2, <1>3, <1>4

LEMMA CommitBeatStep == ASSUME NEW b \in Beats PROVE IInv /\ CommitBeat(b) => IInv'
<1> SUFFICES ASSUME IInv, CommitBeat(b) PROVE IInv'
  OBVIOUS
<1>1. beat[b].pc = "read" /\ beat[b] \in BeatRows
  BY BeatFacts DEF IInv, CommitBeat
<1>2. PICK n \in Nodes, a \in 0 .. Wait, cs \in Seq(Commands) :
        n = beat[b].node /\ a = beat[b].age /\ cs = beat[b].commands
  BY <1>1, BeatFacts DEF IInv
<1>3. PICK s \in Derived : status' = [status EXCEPT ![n] = s]
  BY <1>2 DEF CommitBeat
<1>4. /\ age' = [age EXCEPT ![n] = a]
      /\ heard' = [heard EXCEPT ![n] = IF a < heard[n] THEN a ELSE heard[n]]
      /\ pending' = [pending EXCEPT ![n] = IF cs = << >> THEN pending[n] ELSE << >>]
      /\ given' = [given EXCEPT ![n] = given[n] \cup {cs[i] : i \in DOMAIN cs}]
      /\ lock' = [lock EXCEPT ![n] = IF lock[n] = b THEN Free ELSE lock[n]]
      /\ beat' = [beat EXCEPT ![b] = NoBeat]
      /\ UNCHANGED <<op, sweep, queued, raced, faults>>
  BY <1>2 DEF CommitBeat
<1>5. /\ age'[n] = a /\ heard'[n] = (IF a < heard[n] THEN a ELSE heard[n])
      /\ \A k \in Nodes \ {n} : age'[k] = age[k] /\ heard'[k] = heard[k] /\ lock'[k] = lock[k]
      /\ heard[n] \in Nat /\ a \in Nat /\ a <= Wait
  BY <1>4, TypeFacts, FleetAssumption DEF IInv, TypeOK
<1>6. beat'[b] = NoBeat /\ \A c \in Beats \ {b} : beat'[c] = beat[c]
  BY <1>4, TypeFacts DEF IInv
<1>7. lock[n] = b /\ b # Sweeper
  BY <1>1, <1>2, BeatFacts DEF IInv, BeatHolds
<1>8. TypeOK'
  <2>1. status' \in [Nodes -> {"ONLINE", "DEGRADED", "OFFLINE"}]
    BY <1>3 DEF IInv, TypeOK, Derived
  <2>2. age' \in [Nodes -> Ages \cup {Never}] /\ heard' \in [Nodes -> Ages \cup {Never}]
    <3>1. a \in Ages
      BY <1>5, Bounds DEF Ages
    <3> QED BY <1>4, <3>1 DEF IInv, TypeOK
  <2>3. pending' \in [Nodes -> Seq(Commands)] /\ \A k \in Nodes : Len(pending'[k]) <= Keep
    BY <1>4, FleetAssumption DEF IInv, TypeOK
  <2>4. given' \in [Nodes -> SUBSET Commands]
    <3>1. {cs[i] : i \in DOMAIN cs} \subseteq Commands
      BY <1>2, LenProperties
    <3> QED BY <1>4, <3>1 DEF IInv, TypeOK
  <2>5. lock' \in [Nodes -> {Free, Sweeper} \cup Beats] /\ beat' \in [Beats -> BeatRows \cup {NoBeat}]
    BY <1>4, TypeFacts DEF IInv
  <2> QED BY <1>4, <2>1, <2>2, <2>3, <2>4, <2>5 DEF IInv, TypeOK
<1>9. BeatHolds'
  <2> SUFFICES ASSUME NEW c \in Beats, beat'[c].pc \in {"locked", "read"}
               PROVE  lock'[beat'[c].node] = c
    BY DEF BeatHolds
  <2>1. c # b
    BY <1>6 DEF NoBeat
  <2>2. beat'[c] = beat[c] /\ beat[c].node \in Nodes /\ lock[beat[c].node] = c
    BY <1>6, <2>1, BeatFacts DEF IInv, BeatHolds
  <2> QED BY <1>5, <1>7, <2>1, <2>2
<1>10. AgeFollows'
  <2> SUFFICES ASSUME NEW k \in Nodes PROVE age'[k] <= heard'[k] + Wait
    BY DEF AgeFollows
  <2>1. Wait \in Nat /\ age[k] <= heard[k] + Wait
    BY Bounds DEF IInv, AgeFollows
  <2>2. CASE k # n
    BY <1>5, <2>1, <2>2
  <2>3. CASE k = n
    <3>1. heard'[n] \in Nat
      BY <1>5
    <3>2. a <= heard'[n] + Wait
      BY <1>5, <2>1, <3>1
    <3> QED BY <1>5, <2>3, <3>2
  <2> QED BY <2>2, <2>3
<1>11. FoundAreSilent'
  <2>1. sweep.pc = "locked" => n \notin sweep.found
    BY <1>7 DEF IInv, FoundAreSilent
  <2>2. sweep.found \subseteq Nodes
    BY TypeFacts DEF IInv, Sweeps
  <2> QED BY <1>4, <1>5, <2>1, <2>2 DEF IInv, FoundAreSilent
<1> QED BY <1>8, <1>9, <1>10, <1>11 DEF IInv

LEMMA BeatFailsStep == ASSUME NEW b \in Beats PROVE IInv /\ BeatFails(b) => IInv'
<1> SUFFICES ASSUME IInv, BeatFails(b) PROVE IInv'
  OBVIOUS
<1>1. /\ faults' = faults + 1 /\ faults < MaxFaults
      /\ lock' = [n \in Nodes |-> IF lock[n] = b THEN Free ELSE lock[n]]
      /\ beat' = [beat EXCEPT ![b] = NoBeat]
      /\ UNCHANGED <<status, age, heard, pending, op, sweep, given, queued, raced>>
  BY DEF BeatFails
<1>2. beat'[b] = NoBeat /\ \A c \in Beats \ {b} : beat'[c] = beat[c]
  BY <1>1, TypeFacts DEF IInv
<1>3. TypeOK'
  <2>1. lock' \in [Nodes -> {Free, Sweeper} \cup Beats] /\ beat' \in [Beats -> BeatRows \cup {NoBeat}]
    BY <1>1, TypeFacts DEF IInv
  <2>2. faults' \in 0 .. MaxFaults
    BY <1>1, FleetAssumption DEF IInv, TypeOK
  <2> QED BY <1>1, <2>1, <2>2 DEF IInv, TypeOK
<1>4. BeatHolds'
  <2> SUFFICES ASSUME NEW c \in Beats, beat'[c].pc \in {"locked", "read"}
               PROVE  lock'[beat'[c].node] = c
    BY DEF BeatHolds
  <2>1. c # b
    BY <1>2 DEF NoBeat
  <2>2. beat'[c] = beat[c] /\ beat[c].node \in Nodes /\ lock[beat[c].node] = c
    BY <1>2, <2>1, BeatFacts DEF IInv, BeatHolds
  <2> QED BY <1>1, <2>1, <2>2
<1>5. AgeFollows'
  BY <1>1 DEF IInv, AgeFollows
<1>6. FoundAreSilent'
  <2>1. b # Sweeper /\ sweep.found \subseteq Nodes
    BY BeatFacts, TypeFacts DEF IInv, Sweeps
  <2> QED BY <1>1, <2>1 DEF IInv, FoundAreSilent
<1> QED BY <1>3, <1>4, <1>5, <1>6 DEF IInv

\* A row keeps the newest commands.
LEMMA LastFacts ==
  ASSUME NEW s \in Seq(Commands), NEW k \in Nat
  PROVE  Last(s, k) \in Seq(Commands) /\ Len(Last(s, k)) <= k
<1> DEFINE i == IF Len(s) < k THEN 1 ELSE Len(s) - k + 1
<1>1. Len(s) \in Nat /\ \A j \in 1 .. Len(s) : s[j] \in Commands
  BY LenProperties
<1>2. i \in Int /\ i >= 1 /\ Len(s) - i + 1 <= k
  BY <1>1
<1> HIDE DEF i
<1>3. /\ SubSeq(s, i, Len(s)) \in Seq(Commands)
      /\ Len(SubSeq(s, i, Len(s))) = IF i <= Len(s) THEN Len(s) - i + 1 ELSE 0
  BY <1>1, <1>2, SubSeqProperties
<1>4. Last(s, k) = SubSeq(s, i, Len(s))
  BY DEF Last, i
<1> QED BY <1>1, <1>2, <1>3, <1>4

LEMMA OperatorStep ==
  ASSUME NEW o \in Operators, NEW n \in Nodes, NEW c \in Commands
  PROVE  IInv /\ (ReadNetwork(o, n, c) \/ WriteNetwork(o)) => IInv'
<1> SUFFICES ASSUME IInv, ReadNetwork(o, n, c) \/ WriteNetwork(o) PROVE IInv'
  OBVIOUS
<1>1. UNCHANGED <<status, age, heard, lock, beat, sweep, given, faults>>
  BY DEF ReadNetwork, WriteNetwork
<1>2. /\ pending' \in [Nodes -> Seq(Commands)] /\ \A m \in Nodes : Len(pending'[m]) <= Keep
      /\ op' \in [Operators -> OpRows \cup {NoOp}] /\ queued' \in [Nodes -> SUBSET Commands]
      /\ raced' \subseteq SUBSET Commands
  <2>1. CASE ReadNetwork(o, n, c)
    <3>1. /\ op' = [op EXCEPT ![o] = [pc |-> "read", node |-> n, command |-> c, seen |-> pending[n]]]
          /\ UNCHANGED <<pending, queued>> /\ raced' = raced \cup {{c, d} : d \in Open(n)}
      BY <2>1 DEF ReadNetwork
    <3>2. [pc |-> "read", node |-> n, command |-> c, seen |-> pending[n]] \in OpRows
      BY TypeFacts DEF IInv, OpRows
    <3>3. raced' \subseteq SUBSET Commands
      <4>1. Open(n) \subseteq Commands
        BY TypeFacts DEF IInv, Open, OpRows
      <4>2. \A d \in Open(n) : {c, d} \in SUBSET Commands
        BY <4>1
      <4>3. raced \subseteq SUBSET Commands
        BY DEF IInv, TypeOK
      <4> QED BY <3>1, <4>2, <4>3
    <3> QED BY <3>1, <3>2, <3>3, TypeFacts DEF IInv, TypeOK
  <2>2. CASE WriteNetwork(o)
    <3>1. op[o] \in OpRows
      BY <2>2, TypeFacts DEF IInv, WriteNetwork
    <3>2. PICK m \in Nodes, d \in Commands, seen \in Seq(Commands) :
            m = op[o].node /\ d = op[o].command /\ seen = op[o].seen
      BY <3>1 DEF OpRows
    <3>3. /\ pending' = [pending EXCEPT ![m] = Last(Append(seen, d), Keep)]
          /\ queued' = [queued EXCEPT ![m] = queued[m] \cup {d}]
          /\ op' = [op EXCEPT ![o] = NoOp]
      BY <2>2, <3>2 DEF WriteNetwork, Added
    <3>4. Append(seen, d) \in Seq(Commands)
      BY AppendProperties
    <3>5. Last(Append(seen, d), Keep) \in Seq(Commands) /\ Len(Last(Append(seen, d), Keep)) <= Keep
      BY <3>4, LastFacts, FleetAssumption
    <3>6. pending' \in [Nodes -> Seq(Commands)] /\ \A k \in Nodes : Len(pending'[k]) <= Keep
      BY <3>3, <3>5 DEF IInv, TypeOK
    <3>7. op' \in [Operators -> OpRows \cup {NoOp}] /\ queued' \in [Nodes -> SUBSET Commands]
      BY <3>3, TypeFacts DEF IInv, TypeOK
    <3>8. raced' \subseteq SUBSET Commands
      BY <2>2 DEF WriteNetwork, IInv, TypeOK
    <3> QED BY <3>6, <3>7, <3>8
  <2> QED BY <2>1, <2>2
<1>3. TypeOK'
  BY <1>1, <1>2 DEF IInv, TypeOK, OpRows
<1>4. BeatHolds' /\ AgeFollows' /\ FoundAreSilent'
  BY <1>1 DEF IInv, BeatHolds, AgeFollows, FoundAreSilent
<1> QED BY <1>3, <1>4 DEF IInv

LEMMA StartSweepStep == IInv /\ StartSweep => IInv'
<1> SUFFICES ASSUME IInv, StartSweep PROVE IInv'
  OBVIOUS
<1>1. UNCHANGED <<status, age, heard, pending, lock, beat, op, given, queued, raced, faults>>
        /\ sweep' = [pc |-> "started", age |-> 0, found |-> {}]
  BY DEF StartSweep, NoSweep
<1>2. TypeOK'
  BY <1>1, FleetAssumption DEF IInv, TypeOK
<1>3. BeatHolds' /\ AgeFollows' /\ FoundAreSilent'
  BY <1>1 DEF IInv, BeatHolds, AgeFollows, FoundAreSilent
<1> QED BY <1>2, <1>3 DEF IInv

LEMMA SelectRowsStep == IInv /\ SelectRows => IInv'
<1> SUFFICES ASSUME IInv, SelectRows PROVE IInv'
  OBVIOUS
<1> DEFINE late == {n \in Selected : Late(n)}
<1>1. /\ lock' = [n \in Nodes |-> IF n \in Selected THEN Sweeper ELSE lock[n]]
      /\ sweep' = [sweep EXCEPT !.pc = "locked", !.found = late]
      /\ UNCHANGED <<status, age, heard, pending, beat, op, given, queued, raced, faults>>
  BY DEF SelectRows, LocksSelected
<1>2. late \subseteq Nodes /\ \A n \in late : n \in Selected /\ age[n] - sweep.age > Timeout
  BY DEF Selected, Late
<1> HIDE DEF late
<1>3. sweep' \in Sweeps /\ sweep'.found = late
  <2>1. sweep \in Sweeps
    BY TypeFacts DEF IInv
  <2> QED BY <1>1, <1>2, <2>1 DEF Sweeps
<1>4. TypeOK'
  <2>1. lock' \in [Nodes -> {Free, Sweeper} \cup Beats]
    BY <1>1, TypeFacts DEF IInv
  <2> QED BY <1>1, <1>3, <2>1 DEF IInv, TypeOK, Sweeps
<1>5. BeatHolds'
  <2> SUFFICES ASSUME NEW b \in Beats, beat[b].pc \in {"locked", "read"}
               PROVE  lock'[beat[b].node] = b
    BY <1>1 DEF BeatHolds
  <2>1. beat[b].node \in Nodes /\ lock[beat[b].node] = b /\ b # Free
    BY BeatFacts DEF IInv, BeatHolds
  <2> QED BY <1>1, <2>1 DEF Selected
<1>6. AgeFollows'
  BY <1>1 DEF IInv, AgeFollows
<1>7. FoundAreSilent'
  <2> SUFFICES ASSUME NEW n \in late PROVE lock'[n] = Sweeper /\ heard[n] > Timeout - Wait
    BY <1>1, <1>3 DEF FoundAreSilent
  <2>1. n \in Nodes /\ lock'[n] = Sweeper
    BY <1>1, <1>2
  <2>2. age[n] \in Nat /\ heard[n] \in Nat /\ age[n] <= heard[n] + Wait /\ sweep.age \in Nat
    BY <2>1, TypeFacts, FleetAssumption DEF IInv, AgeFollows, Sweeps
  <2>3. age[n] - sweep.age > Timeout
    BY <1>2
  <2> QED BY <2>1, <2>2, <2>3, Bounds
<1> QED BY <1>4, <1>5, <1>6, <1>7 DEF IInv

\* The sweep ends, and lets go the rows it locked.
LEMMA SweepEndsStep == IInv /\ (CommitSweep \/ SweepDies) => IInv'
<1> SUFFICES ASSUME IInv, CommitSweep \/ SweepDies PROVE IInv'
  OBVIOUS
<1>1. /\ lock' = [n \in Nodes |-> IF lock[n] = Sweeper THEN Free ELSE lock[n]]
      /\ sweep' = [pc |-> "idle", age |-> 0, found |-> {}]
      /\ UNCHANGED <<age, heard, pending, beat, op, given, queued, raced>>
  BY DEF CommitSweep, SweepDies, NoSweep
<1>2. status' \in [Nodes -> {"ONLINE", "DEGRADED", "OFFLINE"}] /\ faults' \in 0 .. MaxFaults
  BY FleetAssumption DEF IInv, TypeOK, CommitSweep, SweepDies
<1>3. TypeOK'
  <2>1. lock' \in [Nodes -> {Free, Sweeper} \cup Beats]
    BY <1>1, TypeFacts DEF IInv
  <2> QED BY <1>1, <1>2, <2>1, FleetAssumption DEF IInv, TypeOK
<1>4. BeatHolds'
  <2> SUFFICES ASSUME NEW b \in Beats, beat[b].pc \in {"locked", "read"}
               PROVE  lock'[beat[b].node] = b
    BY <1>1 DEF BeatHolds
  <2>1. beat[b].node \in Nodes /\ lock[beat[b].node] = b /\ b # Sweeper
    BY BeatFacts DEF IInv, BeatHolds
  <2> QED BY <1>1, <2>1
<1>5. AgeFollows' /\ FoundAreSilent'
  BY <1>1 DEF IInv, AgeFollows, FoundAreSilent
<1> QED BY <1>3, <1>4, <1>5 DEF IInv

-----------------------------------------------------------------------------
(***************************************************************************)
(* The theorems                                                            *)
(***************************************************************************)
LEMMA NextInv == IInv /\ [Next]_vars => IInv'
<1> SUFFICES ASSUME IInv, [Next]_vars PROVE IInv'
  OBVIOUS
<1>1. CASE Tick
  BY <1>1, TickStep
<1>2. ASSUME NEW b \in Beats, NEW n \in Nodes, StartBeat(b, n) PROVE IInv'
  BY <1>2, BeatGoesStep
<1>3. ASSUME NEW b \in Beats, HandleBeat(b) PROVE IInv'
  <2>1. beat[b].node \in Nodes
    BY <1>3, BeatFacts DEF IInv, HandleBeat, LockRow, ReadCommands, CommitBeat
  <2> QED BY <1>3, <2>1, BeatGoesStep, CommitBeatStep DEF HandleBeat
<1>4. ASSUME NEW b \in Beats, BeatFails(b) PROVE IInv'
  BY <1>4, BeatFailsStep
<1>5. ASSUME NEW o \in Operators, NEW n \in Nodes, NEW c \in Commands, ReadNetwork(o, n, c)
      PROVE  IInv'
  BY <1>5, OperatorStep
<1>6. ASSUME NEW o \in Operators, WriteNetwork(o) PROVE IInv'
  <2>1. op[o].node \in Nodes /\ op[o].command \in Commands
    BY <1>6, TypeFacts DEF IInv, WriteNetwork, OpRows
  <2> QED BY <1>6, <2>1, OperatorStep
<1>7. CASE Sweep \/ SweepDies
  BY <1>7, StartSweepStep, SelectRowsStep, SweepEndsStep DEF Sweep
<1>8. CASE UNCHANGED vars
  <2>1. UNCHANGED <<status, age, heard, pending, lock, beat, op, sweep, given, queued, raced, faults>>
    BY <1>8 DEF vars
  <2>2. TypeOK'
    BY <2>1 DEF IInv, TypeOK
  <2> QED BY <2>1, <2>2 DEF IInv, BeatHolds, AgeFollows, FoundAreSilent
<1> QED BY <1>1, <1>2, <1>3, <1>4, <1>5, <1>6, <1>7, <1>8 DEF Next

LEMMA Invariance == Spec => []IInv
BY InitInv, NextInv, PTL DEF Spec

\* Every variable stays in its type; in particular a row keeps no more commands
\* than it may (send_node_command).
THEOREM TypeCorrect == Spec => []TypeOK
<1>1. IInv => TypeOK
  BY DEF IInv
<1> QED BY <1>1, Invariance, PTL

\* However many heartbeats overlap, and whatever fails, a node is marked OFFLINE
\* only when it was silent (check_heartbeat_timeouts: FOR UPDATE SKIP LOCKED).
THEOREM OfflineMeansSilent == Spec => OfflineWasSilent
<1> DEFINE A == \A n \in Nodes : status'[n] = "OFFLINE" /\ status[n] # "OFFLINE" =>
                                   heard[n] > Timeout - Wait
<1>1. IInv /\ [Next]_vars => [A]_vars
  <2> SUFFICES ASSUME IInv, Next, NEW n \in Nodes, status'[n] = "OFFLINE", status[n] # "OFFLINE"
               PROVE  heard[n] > Timeout - Wait
    OBVIOUS
  <2>1. CASE CommitSweep
    <3>1. n \in sweep.found /\ sweep.pc = "locked"
      BY <2>1 DEF CommitSweep, TimedOut
    <3> QED BY <3>1 DEF IInv, FoundAreSilent
  <2>2. ASSUME NEW b \in Beats PROVE ~ CommitBeat(b)
    BY DEF IInv, TypeOK, CommitBeat, Derived
  <2>3. ~ (Tick \/ StartSweep \/ SelectRows \/ SweepDies)
    BY DEF Tick, StartSweep, SelectRows, SweepDies
  <2>4. ASSUME NEW b \in Beats
        PROVE  ~ (BeatFails(b) \/ LockRow(b) \/ ReadCommands(b) \/ \E m \in Nodes : StartBeat(b, m))
    BY DEF BeatFails, LockRow, ReadCommands, StartBeat
  <2>5. ASSUME NEW o \in Operators
        PROVE  ~ (WriteNetwork(o) \/ \E m \in Nodes, c \in Commands : ReadNetwork(o, m, c))
    BY DEF WriteNetwork, ReadNetwork
  <2> QED BY <2>1, <2>2, <2>3, <2>4, <2>5 DEF Next, HandleBeat, Sweep
<1> QED BY <1>1, Invariance, PTL DEF Spec, OfflineWasSilent

-----------------------------------------------------------------------------
(***************************************************************************)
(* No command is lost                                                      *)
(***************************************************************************)
\* A set has as many elements as a rising sequence of them.
LEMMA RisingCounts ==
  ASSUME NEW s \in Seq(Commands), Rising(s), NEW T, IsFiniteSet(T),
         \A i \in 1 .. Len(s) : s[i] \in T
  PROVE  Len(s) <= Cardinality(T) /\ Cardinality(T) \in Nat
<1>1. Len(s) \in Nat /\ s \in [1 .. Len(s) -> T] /\ \A i \in 1 .. Len(s) : s[i] \in Nat
  BY LenProperties, FleetAssumption
<1>2. s \in Injection(1 .. Len(s), T)
  BY <1>1 DEF Rising, Injection, IsInjective
<1>3. IsFiniteSet(1 .. Len(s)) /\ Cardinality(1 .. Len(s)) = Len(s)
  <2>1. 1 \in Int /\ Len(s) \in Int /\ (1 > Len(s) => Len(s) = 0)
    BY <1>1
  <2>2. IsFiniteSet(1 .. Len(s)) /\ Cardinality(1 .. Len(s)) = IF 1 > Len(s) THEN 0 ELSE Len(s) - 1 + 1
    BY <2>1, FS_Interval
  <2> QED BY <1>1, <2>1, <2>2
<1> QED BY <1>2, <1>3, FS_Injection, FS_CardinalityType

\* What an operator writes who read s.
With(s, c) == Last(Append(s, c), Keep)

\* t is s without its first k commands, and with c.
Drops(t, s, c, k) ==
  /\ t \in Seq(Commands) /\ Len(t) = Len(s) + 1 - k /\ Len(t) >= 1
  /\ k = 1 => Len(t) = Keep
  /\ t[Len(t)] = c /\ \A i \in 1 .. Len(t) - 1 : t[i] = s[i + k]

\* Adding a command drops at most the oldest, and that only from a full row.
LEMMA AddedFacts ==
  ASSUME NEW s \in Seq(Commands), NEW c \in Commands, Len(s) <= Keep
  PROVE  \E k \in 0 .. 1 : Drops(With(s, c), s, c, k)
<1> DEFINE a == Append(s, c)
<1>1. Len(s) \in Nat /\ Keep \in Nat \ {0}
  BY LenProperties, FleetAssumption
<1>2. a \in Seq(Commands) /\ Len(a) = Len(s) + 1 /\ a[Len(s) + 1] = c
        /\ \A i \in 1 .. Len(s) : a[i] = s[i]
  BY AppendProperties
<1>3. \A i \in 1 .. Len(a) : a[i] \in Commands
  BY <1>2, LenProperties
<1> HIDE DEF a
<1>4. PICK k \in 0 .. 1 : k = IF Len(s) < Keep THEN 0 ELSE 1
  OBVIOUS
<1>5. Last(a, Keep) = SubSeq(a, k + 1, Len(a))
  <2>1. k + 1 = IF Len(a) < Keep THEN 1 ELSE Len(a) - Keep + 1
    BY <1>1, <1>2, <1>4
  <2> QED BY <2>1 DEF Last
<1> DEFINE t == SubSeq(a, k + 1, Len(a))
<1>6. /\ t \in Seq(Commands) /\ Len(t) = Len(s) + 1 - k
      /\ \A i \in 1 .. Len(s) + 1 - k : t[i] = a[i + k]
  <2>1. \A i \in k + 1 .. Len(a) : a[i] \in Commands
    BY <1>2, <1>3
  <2>2. k + 1 \in Int /\ Len(a) \in Int
    BY <1>1, <1>2
  <2>3. /\ t \in Seq(Commands)
        /\ Len(t) = IF k + 1 <= Len(a) THEN Len(a) - (k + 1) + 1 ELSE 0
        /\ \A i \in 1 .. Len(a) - (k + 1) + 1 : t[i] = a[k + 1 + i - 1]
    BY <2>1, <2>2, SubSeqProperties, SMTT(30)
  <2> HIDE DEF t
  <2>4. Len(a) - (k + 1) + 1 = Len(s) + 1 - k /\ k + 1 <= Len(a)
    BY <1>1, <1>2, <1>4
  <2>5. \A i \in 1 .. Len(s) + 1 - k : k + 1 + i - 1 = i + k
    BY <1>1
  <2> QED BY <2>3, <2>4, <2>5
<1> HIDE DEF t
<1>7. Len(t) >= 1 /\ (k = 1 => Len(t) = Keep)
  BY <1>1, <1>4, <1>6
<1>8. t[Len(t)] = c
  BY <1>1, <1>2, <1>6, <1>7
<1>9. \A i \in 1 .. Len(t) - 1 : t[i] = s[i + k]
  <2> SUFFICES ASSUME NEW i \in 1 .. Len(t) - 1 PROVE t[i] = s[i + k]
    OBVIOUS
  <2>1. t[i] = a[i + k] /\ i + k \in 1 .. Len(s)
    BY <1>1, <1>6
  <2> QED BY <1>2, <2>1
<1>10. With(s, c) = t
  BY <1>5 DEF a, t, With
<1>11. Drops(t, s, c, k)
  BY <1>6, <1>7, <1>8, <1>9 DEF Drops
<1> QED BY <1>10, <1>11

\* The row that is written is right again: the command it no longer has room for is
\* older than all that fill it.
LEMMA WrittenRow ==
  ASSUME NEW q \in SUBSET Commands, IsFiniteSet(q), NEW g,
         NEW z, NEW s \in Seq(Commands), Len(s) <= Keep, Waiting(s, q),
         NEW c \in Commands, \A i \in 1 .. Len(s) : s[i] < c,
         NEW t, t = With(s, c), NEW r, r = q \cup {c}, Accounted(s, q, r, g, z)
  PROVE  IsFiniteSet(r) /\ Waiting(t, r) /\ Accounted(t, r, r, g, z)
<1>0. PICK k \in 0 .. 1 : Drops(t, s, c, k)
  BY AddedFacts
<1>1. /\ t \in Seq(Commands) /\ Len(t) = Len(s) + 1 - k /\ Len(t) >= 1
      /\ k = 1 => Len(t) = Keep
      /\ t[Len(t)] = c /\ \A i \in 1 .. Len(t) - 1 : t[i] = s[i + k]
  BY <1>0 DEF Drops
<1>2. /\ Len(s) \in Nat /\ Keep \in Nat \ {0} /\ Commands \subseteq Nat
      /\ q \subseteq Commands /\ \A i \in 1 .. Len(s) : s[i] \in Commands
  BY LenProperties, FleetAssumption
<1>3. IsFiniteSet(r)
  BY FS_AddElement
<1>4. \A i \in 1 .. Len(s) : s[i] \in q /\ s[i] < c
  BY DEF Waiting
<1>5. Waiting(t, r)
  <2>0. \A i \in 1 .. Len(t) - 1 : i + k \in 1 .. Len(s)
    BY <1>1, <1>2
  <2>1. ASSUME NEW i \in 1 .. Len(t) PROVE t[i] \in r
    <3>1. CASE i = Len(t)
      BY <1>1, <3>1
    <3>2. CASE i \in 1 .. Len(t) - 1
      BY <1>1, <1>4, <2>0, <3>2
    <3> QED BY <1>1, <1>2, <3>1, <3>2
  <2>2. ASSUME NEW i \in 1 .. Len(t), NEW j \in 1 .. Len(t), i < j PROVE t[i] < t[j]
    <3>1. i \in 1 .. Len(t) - 1 /\ t[i] = s[i + k] /\ i + k \in 1 .. Len(s)
      BY <1>1, <1>2, <2>0, <2>2
    <3>2. CASE j = Len(t)
      BY <1>1, <1>4, <3>1, <3>2
    <3>3. CASE j # Len(t)
      <4>0. j \in 1 .. Len(t) - 1
        BY <1>1, <1>2, <3>3
      <4>1. t[j] = s[j + k] /\ j + k \in 1 .. Len(s) /\ i + k < j + k
        BY <1>1, <2>0, <2>2, <4>0
      <4> QED BY <3>1, <4>1 DEF Waiting, Rising
    <3> QED BY <3>2, <3>3
  <2> QED BY <2>1, <2>2 DEF Waiting, Rising
<1>6. Accounted(t, r, r, g, z)
  <2> SUFFICES ASSUME NEW e \in r PROVE Found(t, r, r, g, z, e)
    BY DEF Accounted
  <2> DEFINE newer == {d \in q : d > e}
             later == {d \in r : d > e}
  <2>1. IsFiniteSet(later) /\ Cardinality(later) \in Nat
    BY <1>3, FS_Subset, FS_CardinalityType
  <2>2. CASE e = c
    <3>1. Len(t) \in 1 .. Len(t) /\ t[Len(t)] = c
      BY <1>1, LenProperties
    <3> QED BY <2>2, <3>1 DEF Found
  <2>3. CASE e \in g
    BY <2>3 DEF Found
  <2>4. CASE Cardinality(newer) >= Keep
    <3>1. newer \subseteq later
      OBVIOUS
    <3>2. Cardinality(newer) <= Cardinality(later) /\ Cardinality(newer) \in Nat
      BY <2>1, <3>1, FS_Subset, FS_CardinalityType
    <3>3. Cardinality(later) >= Keep
      BY <1>2, <2>1, <2>4, <3>2
    <3> QED BY <3>3 DEF Found
  <2>5. ASSUME NEW i \in 1 .. Len(s), s[i] = e PROVE Found(t, r, r, g, z, e)
    <3>1. CASE i > k
      <4>1. i - k \in 1 .. Len(t) - 1 /\ (i - k) + k = i
        BY <1>1, <1>2, <3>1
      <4>2. i - k \in 1 .. Len(t)
        BY <1>1, <1>2, <4>1
      <4>3. t[i - k] = s[(i - k) + k]
        <5>1. \A j \in 1 .. Len(t) - 1 : t[j] = s[j + k]
          BY <1>1
        <5> QED BY <4>1, <5>1
      <4>4. t[i - k] = e
        BY <2>5, <4>1, <4>3
      <4> QED BY <4>2, <4>4 DEF Found
    <3>2. CASE i <= k
      <4>1. k = 1 /\ i = 1 /\ Len(t) = Keep
        BY <1>1, <1>2, <3>2
      <4>2. ASSUME NEW j \in 1 .. Len(t) PROVE t[j] \in later
        <5>1. t[j] \in r
          BY <1>5 DEF Waiting
        <5>2. t[j] > e
          <6>1. CASE j = Len(t)
            BY <1>1, <1>4, <2>5, <6>1
          <6>2. CASE j # Len(t)
            <7>1. t[j] = s[j + 1] /\ j + 1 \in 1 .. Len(s) /\ 1 < j + 1 /\ 1 \in 1 .. Len(s)
              BY <1>1, <1>2, <4>1, <6>2
            <7> QED BY <2>5, <4>1, <7>1 DEF Waiting, Rising
          <6> QED BY <6>1, <6>2
        <5> QED BY <5>1, <5>2
      <4>3. Rising(t)
        BY <1>5 DEF Waiting, Rising
      <4> HIDE DEF later
      <4>4. Len(t) <= Cardinality(later)
        BY <1>1, <2>1, <4>2, <4>3, RisingCounts
      <4>5. Cardinality(later) >= Keep
        BY <1>2, <2>1, <4>1, <4>4
      <4> QED BY <4>5 DEF Found, later
    <3> QED BY <1>2, <3>1, <3>2
  <2>6. CASE \E d \in r : {e, d} \in z
    BY <2>6 DEF Found
  <2>7. e # c => Found(s, q, r, g, z, e)
    BY DEF Accounted
  <2> QED BY <2>2, <2>3, <2>4, <2>5, <2>6, <2>7 DEF Found
<1> QED BY <1>3, <1>5, <1>6

\* What is accounted for stays so when more is queued, given or overlaps.
LEMMA FoundMore ==
  ASSUME NEW s, NEW q, NEW x, NEW g, NEW z, NEW c, Found(s, q, x, g, z, c),
         NEW r, IsFiniteSet(r), q \subseteq r, NEW y, x \subseteq y,
         NEW h, g \subseteq h, NEW w, z \subseteq w
  PROVE  Found(s, r, y, h, w, c)
<1>1. ASSUME Cardinality({d \in q : d > c}) >= Keep
      PROVE  Cardinality({d \in r : d > c}) >= Keep
  <2> DEFINE a == {d \in q : d > c}
             b == {d \in r : d > c}
  <2>1. IsFiniteSet(b) /\ a \subseteq b
    BY FS_Subset
  <2>2. Cardinality(a) <= Cardinality(b) /\ Cardinality(a) \in Nat /\ Cardinality(b) \in Nat
    BY <2>1, FS_Subset, FS_CardinalityType
  <2>3. Cardinality(a) >= Keep
    BY <1>1
  <2> HIDE DEF a, b
  <2>4. Cardinality(b) >= Keep
    BY <2>2, <2>3, FleetAssumption
  <2> QED BY <2>4 DEF b
<1> QED BY <1>1 DEF Found

\* A step that touches neither the rows' commands nor the requests of operators, and
\* after which heartbeats have read what the rows hold.
LEMMA CommandsAlone ==
  ASSUME CommandInv, BeatInv', UNCHANGED <<pending, op, given, queued, raced>>
  PROVE  CommandInv'
<1>1. RowInv' /\ OpInv' /\ OpenRace'
  BY DEF CommandInv, RowInv, OpInv, OpenRace
<1>2. GivenInOrder'
  BY DEF CommandInv, GivenInOrder, Given
<1> QED BY <1>1, <1>2 DEF CommandInv

\* Time, and heartbeats that have taken no commands.
LEMMA BeatCommands ==
  ASSUME IInv, CommandInv,
         \/ Tick
         \/ \E b \in Beats : \/ \E n \in Nodes : StartBeat(b, n)
                            \/ LockRow(b) \/ ReadCommands(b) \/ BeatFails(b)
  PROVE  CommandInv'
<1>1. UNCHANGED <<pending, op, given, queued, raced>>
  BY DEF Tick, StartBeat, LockRow, ReadCommands, BeatFails
<1>2. ASSUME Tick, NEW c \in Beats, beat'[c].pc = "read"
      PROVE  beat'[c].commands = pending[beat'[c].node]
  <2>1. beat'[c] = IF beat[c] = NoBeat THEN NoBeat ELSE [beat[c] EXCEPT !.age = beat[c].age + 1]
    BY <1>2 DEF Tick
  <2>2. beat[c] \in BeatRows /\ beat'[c] = [beat[c] EXCEPT !.age = beat[c].age + 1]
    BY <1>2, <2>1, BeatFacts DEF IInv
  <2>3. /\ beat'[c].pc = beat[c].pc /\ beat'[c].node = beat[c].node
        /\ beat'[c].commands = beat[c].commands
    BY <2>2 DEF BeatRows
  <2> QED BY <1>2, <2>3 DEF CommandInv, BeatInv
<1>3. ASSUME NEW b \in Beats, NEW c \in Beats, beat'[c].pc = "read",
             \/ \E n \in Nodes : StartBeat(b, n)
             \/ LockRow(b) \/ ReadCommands(b) \/ BeatFails(b)
      PROVE  beat'[c].commands = pending[beat'[c].node]
  <2>1. CASE c # b
    <3>1. beat'[c] = beat[c]
      BY <1>3, <2>1, TypeFacts DEF IInv, StartBeat, LockRow, ReadCommands, BeatFails
    <3> QED BY <1>3, <3>1 DEF CommandInv, BeatInv
  <2>2. CASE c = b
    <3>1. CASE ReadCommands(b)
      <4>1. beat[b] \in BeatRows /\ beat[b].node \in Nodes
        BY <3>1, BeatFacts DEF IInv, ReadCommands
      <4>2. PICK m \in Nodes : m = beat[b].node
        BY <4>1
      <4>3. beat'[b] = ReadOf(beat[b], pending[m]) /\ pending[m] \in Seq(Commands)
        BY <3>1, <4>2, TypeFacts DEF IInv, ReadCommands, ReadOf
      <4>4. beat'[b].node = beat[b].node /\ beat'[b].commands = pending[m]
        BY <4>1, <4>3, ReadRow
      <4> QED BY <2>2, <4>2, <4>4
    <3>2. CASE \E n \in Nodes : StartBeat(b, n)
      BY <1>3, <2>2, <3>2, TypeFacts DEF IInv, StartBeat
    <3>3. CASE LockRow(b)
      <4>1. beat[b] \in BeatRows /\ beat'[b] = [beat[b] EXCEPT !.pc = "locked"]
        BY <3>3, BeatFacts, TypeFacts DEF IInv, LockRow
      <4> QED BY <1>3, <2>2, <4>1 DEF BeatRows
    <3>4. CASE BeatFails(b)
      BY <1>3, <2>2, <3>4, TypeFacts DEF IInv, BeatFails, NoBeat
    <3> QED BY <1>3, <3>1, <3>2, <3>3, <3>4
  <2> QED BY <2>1, <2>2
<1>4. BeatInv'
  BY <1>1, <1>2, <1>3 DEF BeatInv
<1> QED BY <1>1, <1>4, CommandsAlone

\* What a heartbeat takes from the row is given: the requests that read it before
\* have still everything accounted for.
LEMMA CommitBeatCommands ==
  ASSUME IInv, CommandInv, NEW b \in Beats, CommitBeat(b)
  PROVE  CommandInv'
<1>1. PICK n \in Nodes, cs \in Seq(Commands) :
        n = beat[b].node /\ cs = beat[b].commands /\ beat[b].pc = "read"
  BY BeatFacts DEF IInv, CommitBeat
<1>2. cs = pending[n] /\ lock[n] = b
  BY <1>1 DEF CommandInv, BeatInv, IInv, BeatHolds
<1>3. /\ pending' = [pending EXCEPT ![n] = IF cs = << >> THEN pending[n] ELSE << >>]
      /\ given' = [given EXCEPT ![n] = given[n] \cup {cs[i] : i \in DOMAIN cs}]
      /\ beat' = [beat EXCEPT ![b] = NoBeat]
      /\ UNCHANGED <<op, queued, raced>>
  BY <1>1 DEF CommitBeat
<1>4. /\ pending'[n] = << >> /\ given'[n] = given[n] \cup {cs[i] : i \in 1 .. Len(cs)}
      /\ \A m \in Nodes \ {n} : pending'[m] = pending[m] /\ given'[m] = given[m]
      /\ \A m \in Nodes : given[m] \subseteq given'[m]
  BY <1>1, <1>2, <1>3, TypeFacts, LenProperties DEF IInv, TypeOK
<1>5. \A m \in Nodes : \A s, q, x, z :
        Accounted(s, q, x, given[m], z) => Accounted(s, q, x, given'[m], z)
  BY <1>4 DEF Accounted, Found
<1>6. RowInv'
  <2> SUFFICES ASSUME NEW m \in Nodes
               PROVE  IsFiniteSet(queued[m]) /\ Waiting(pending'[m], queued[m])
                      /\ Accounted(pending'[m], queued[m], queued[m], given'[m], raced)
    BY <1>3 DEF RowInv
  <2>1. /\ IsFiniteSet(queued[m]) /\ Waiting(pending[m], queued[m])
        /\ Accounted(pending[m], queued[m], queued[m], given[m], raced)
    BY DEF CommandInv, RowInv
  <2>2. CASE m # n
    BY <1>4, <2>1, <2>2
  <2>3. CASE m = n
    <3>1. Waiting(pending'[m], queued[m])
      BY <1>4, <2>3 DEF Waiting, Rising
    <3>2. Accounted(pending'[m], queued[m], queued[m], given'[m], raced)
      <4>1. ASSUME NEW c \in queued[n]
            PROVE  Found(pending'[n], queued[n], queued[n], given'[n], raced, c)
        <5>1. Found(cs, queued[n], queued[n], given[n], raced, c)
          BY <1>2, <2>1, <2>3 DEF Accounted
        <5>2. (\E i \in 1 .. Len(cs) : cs[i] = c) => c \in given'[n]
          BY <1>4
        <5>3. given[n] \subseteq given'[n]
          BY <1>1, <1>4
        <5> QED BY <5>1, <5>2, <5>3 DEF Found
      <4> QED BY <2>3, <4>1 DEF Accounted
    <3> QED BY <2>1, <3>1, <3>2
  <2> QED BY <2>2, <2>3
<1>7. OpInv' /\ OpenRace'
  <2> SUFFICES ASSUME NEW o \in Operators, op[o] # NoOp
               PROVE  Accounted(op[o].seen, queued[op[o].node],
                                queued[op[o].node] \cup {op[o].command},
                                given'[op[o].node], raced)
    BY <1>3 DEF CommandInv, OpInv, OpenRace
  <2>1. op[o].node \in Nodes
          /\ Accounted(op[o].seen, queued[op[o].node], queued[op[o].node] \cup {op[o].command},
                       given[op[o].node], raced)
    BY TypeFacts DEF IInv, OpRows, CommandInv, OpInv
  <2> QED BY <1>5, <2>1
<1>8. BeatInv'
  <2> SUFFICES ASSUME NEW c \in Beats, beat'[c].pc = "read"
               PROVE  beat'[c].commands = pending'[beat'[c].node]
    BY DEF BeatInv
  <2>1. c # b
    BY <1>3, TypeFacts DEF IInv, NoBeat
  <2>2. beat'[c] = beat[c] /\ beat[c].node \in Nodes /\ beat[c].commands = pending[beat[c].node]
          /\ lock[beat[c].node] = c
    BY <1>3, <2>1, BeatFacts, TypeFacts DEF IInv, BeatHolds, CommandInv, BeatInv
  <2> QED BY <1>2, <1>4, <2>1, <2>2
<1>9. GivenInOrder'
  BY <1>3 DEF CommandInv, GivenInOrder, Given
<1> QED BY <1>6, <1>7, <1>8, <1>9 DEF CommandInv

\* The next command is newer than all that were queued, and overlaps with those whose
\* requests are open.
LEMMA ReadNetworkCommands ==
  ASSUME IInv, CommandInv, NEW o \in Operators, NEW n \in Nodes,
         NEW c \in Commands, ReadNetwork(o, n, c)
  PROVE  CommandInv'
<1> DEFINE r == [pc |-> "read", node |-> n, command |-> c, seen |-> pending[n]]
<1>1. /\ op[o] = NoOp /\ op' = [op EXCEPT ![o] = r]
      /\ ~ Given(c) /\ (\A d \in Commands : d < c => Given(d))
      /\ raced' = raced \cup {{c, d} : d \in Open(n)}
      /\ UNCHANGED <<pending, beat, given, queued>>
  BY DEF ReadNetwork
<1>2. op'[o] = r /\ r # NoOp /\ \A p \in Operators \ {o} : op'[p] = op[p]
  BY <1>1, TypeFacts DEF IInv, NoOp
<1>3. \A m \in Nodes : \A d \in queued[m] : d < c
  <2> SUFFICES ASSUME NEW m \in Nodes, NEW d \in queued[m] PROVE d < c
    OBVIOUS
  <2>1. d \in Commands /\ d \in Nat /\ c \in Nat /\ Given(d)
    BY FleetAssumption DEF IInv, TypeOK, Given
  <2>2. d # c /\ ~ c < d
    BY <1>1, <2>1 DEF CommandInv, GivenInOrder
  <2> QED BY <2>1, <2>2
<1>4. \A s, q, x, g : Accounted(s, q, x, g, raced) => Accounted(s, q, x, g, raced')
  BY <1>1 DEF Accounted, Found
<1>5. RowInv'
  BY <1>1, <1>4 DEF CommandInv, RowInv
<1>6. OpInv'
  <2>1. /\ Len(pending[n]) <= Keep /\ Waiting(pending[n], queued[n])
        /\ Accounted(pending[n], queued[n], queued[n], given[n], raced)
    BY DEF IInv, TypeOK, CommandInv, RowInv
  <2>2. Accounted(pending[n], queued[n], queued[n] \cup {c}, given[n], raced')
    BY <1>4, <2>1 DEF Accounted, Found
  <2>3. \A i \in 1 .. Len(pending[n]) : pending[n][i] < c
    BY <1>3, <2>1 DEF Waiting
  <2>4. r.seen = pending[n] /\ r.node = n /\ r.command = c
    OBVIOUS
  <2> HIDE DEF r
  <2> SUFFICES ASSUME NEW p \in Operators, op'[p] # NoOp
               PROVE  /\ Len(op'[p].seen) <= Keep
                      /\ Waiting(op'[p].seen, queued[op'[p].node])
                      /\ Accounted(op'[p].seen, queued[op'[p].node],
                                   queued[op'[p].node] \cup {op'[p].command},
                                   given[op'[p].node], raced')
                      /\ \A i \in 1 .. Len(op'[p].seen) : op'[p].seen[i] < op'[p].command
    BY <1>1 DEF OpInv
  <2>5. CASE p = o
    BY <1>2, <2>1, <2>2, <2>3, <2>4, <2>5
  <2>6. CASE p # o
    BY <1>2, <1>4, <2>6 DEF CommandInv, OpInv
  <2> QED BY <2>5, <2>6
<1>7. OpenRace'
  <2>0. r.node = n /\ r.command = c
    OBVIOUS
  <2> HIDE DEF r
  <2>1. ASSUME NEW p \in Operators \ {o}, op[p] # NoOp, op[p].node = n
        PROVE  {c, op[p].command} \in raced'
    <3>1. op[p].command \in Open(n)
      BY <2>1 DEF Open
    <3> QED BY <1>1, <3>1
  <2>2. ASSUME NEW p \in Operators \ {o}, NEW u \in Operators \ {o}, p # u,
               op[p] # NoOp, op[u] # NoOp, op[p].node = op[u].node
        PROVE  {op[p].command, op[u].command} \in raced'
    BY <1>1, <2>2 DEF CommandInv, OpenRace
  <2>3. ASSUME NEW p \in Operators \ {o}, op[p] # NoOp, op[p].node = n
        PROVE  {op[p].command, c} \in raced'
    <3>1. {op[p].command, c} = {c, op[p].command}
      OBVIOUS
    <3> QED BY <2>1, <2>3, <3>1
  <2> SUFFICES ASSUME NEW p \in Operators, NEW u \in Operators, p # u,
                      op'[p] # NoOp, op'[u] # NoOp, op'[p].node = op'[u].node
               PROVE  {op'[p].command, op'[u].command} \in raced'
    BY DEF OpenRace
  <2>4. CASE p = o
    BY <1>2, <2>0, <2>1, <2>4
  <2>5. CASE u = o
    BY <1>2, <2>0, <2>3, <2>5
  <2>6. CASE p # o /\ u # o
    BY <1>2, <2>2, <2>6
  <2> QED BY <2>4, <2>5, <2>6
<1>8. BeatInv'
  BY <1>1 DEF CommandInv, BeatInv
<1>9. GivenInOrder'
  <2>1. \A d \in Commands : Given(d)' <=> Given(d) \/ d = c
    <3>0. r.command = c
      OBVIOUS
    <3> HIDE DEF r
    <3>1. \A d : (\E p \in Operators : op'[p] # NoOp /\ op'[p].command = d)
                   <=> (\E p \in Operators : op[p] # NoOp /\ op[p].command = d) \/ d = c
      BY <1>1, <1>2, <3>0
    <3> QED BY <1>1, <3>1 DEF Given
  <2> QED BY <1>1, <2>1, FleetAssumption DEF CommandInv, GivenInOrder
<1> QED BY <1>5, <1>6, <1>7, <1>8, <1>9 DEF CommandInv

\* The operator writes what he read with his command: a heartbeat took what has gone
\* from the row since, and what has come overlaps with his request, as it does with
\* every other that is open.
LEMMA WriteNetworkCommands ==
  ASSUME IInv, CommandInv, NEW o \in Operators, WriteNetwork(o)
  PROVE  CommandInv'
<1>1. op[o] # NoOp /\ op[o] \in OpRows
  BY TypeFacts DEF IInv, WriteNetwork
<1>2. PICK n \in Nodes, c \in Commands, s \in Seq(Commands) :
        n = op[o].node /\ c = op[o].command /\ s = op[o].seen
  BY <1>1 DEF OpRows
<1>3. /\ lock[n] = Free
      /\ pending' = [pending EXCEPT ![n] = With(s, c)]
      /\ queued' = [queued EXCEPT ![n] = queued[n] \cup {c}]
      /\ op' = [op EXCEPT ![o] = NoOp]
      /\ UNCHANGED <<beat, given, raced>>
  BY <1>2 DEF WriteNetwork, Added, With
<1>4. /\ pending'[n] = With(s, c) /\ queued'[n] = queued[n] \cup {c}
      /\ \A m \in Nodes \ {n} : pending'[m] = pending[m] /\ queued'[m] = queued[m]
      /\ op'[o] = NoOp /\ \A p \in Operators \ {o} : op'[p] = op[p]
  BY <1>3, TypeFacts DEF IInv, TypeOK
<1>5. /\ Len(s) <= Keep /\ Waiting(s, queued[n])
      /\ Accounted(s, queued[n], queued[n] \cup {c}, given[n], raced)
      /\ \A i \in 1 .. Len(s) : s[i] < c
  BY <1>1, <1>2 DEF CommandInv, OpInv
<1>6. RowInv'
  <2> SUFFICES ASSUME NEW m \in Nodes
               PROVE  /\ IsFiniteSet(queued'[m])
                      /\ Waiting(pending'[m], queued'[m])
                      /\ Accounted(pending'[m], queued'[m], queued'[m], given'[m], raced')
    BY DEF RowInv
  <2>1. CASE m # n
    <3>1. /\ IsFiniteSet(queued[m]) /\ Waiting(pending[m], queued[m])
          /\ Accounted(pending[m], queued[m], queued[m], given[m], raced)
      BY DEF CommandInv, RowInv
    <3> QED BY <1>3, <1>4, <2>1, <3>1
  <2>2. CASE m = n
    <3>1. queued[n] \in SUBSET Commands /\ IsFiniteSet(queued[n])
      BY DEF IInv, TypeOK, CommandInv, RowInv
    <3> DEFINE t == With(s, c)
               r == queued[n] \cup {c}
    <3>2. t = With(s, c) /\ r = queued[n] \cup {c}
      OBVIOUS
    <3>3. pending'[n] = t /\ queued'[n] = r /\ given'[n] = given[n] /\ raced' = raced
      BY <1>3, <1>4
    <3>4. Accounted(s, queued[n], r, given[n], raced)
      BY <1>5
    <3> HIDE DEF t, r
    <3>5. IsFiniteSet(r) /\ Waiting(t, r) /\ Accounted(t, r, r, given[n], raced)
      <4>1. PICK q \in SUBSET Commands : q = queued[n]
        BY <3>1
      <4>2. IsFiniteSet(q) /\ Waiting(s, q) /\ r = q \cup {c} /\ Accounted(s, q, r, given[n], raced)
        BY <1>5, <3>1, <3>2, <3>4, <4>1
      <4>3. Len(s) <= Keep /\ c \in Commands /\ s \in Seq(Commands)
            /\ \A i \in 1 .. Len(s) : s[i] < c
        BY <1>2, <1>5
      <4> QED BY <3>2, <4>1, <4>2, <4>3, WrittenRow
    <3> QED BY <2>2, <3>3, <3>5
  <2> QED BY <2>1, <2>2
<1>7. OpInv'
  <2> SUFFICES ASSUME NEW p \in Operators, op'[p] # NoOp
               PROVE  /\ Len(op'[p].seen) <= Keep
                      /\ Waiting(op'[p].seen, queued'[op'[p].node])
                      /\ Accounted(op'[p].seen, queued'[op'[p].node],
                                   queued'[op'[p].node] \cup {op'[p].command},
                                   given[op'[p].node], raced)
                      /\ \A i \in 1 .. Len(op'[p].seen) : op'[p].seen[i] < op'[p].command
    BY <1>3 DEF OpInv
  <2>1. p # o /\ op'[p] = op[p] /\ op[p] # NoOp /\ op[p] \in OpRows
    BY <1>4, TypeFacts DEF IInv
  <2>2. PICK m \in Nodes, d \in Commands, v \in Seq(Commands) :
          m = op[p].node /\ d = op[p].command /\ v = op[p].seen
    BY <2>1 DEF OpRows
  <2>3. /\ Len(v) <= Keep /\ Waiting(v, queued[m])
        /\ Accounted(v, queued[m], queued[m] \cup {d}, given[m], raced)
        /\ \A i \in 1 .. Len(v) : v[i] < d
    BY <2>1, <2>2 DEF CommandInv, OpInv
  <2>4. IsFiniteSet(queued'[m]) /\ queued[m] \subseteq queued'[m]
    BY <1>4, <1>6 DEF RowInv
  <2>5. Waiting(v, queued'[m])
    BY <2>3, <2>4 DEF Waiting
  <2>6. ASSUME NEW e \in queued[m]
        PROVE  Found(v, queued'[m], queued'[m] \cup {d}, given[m], raced, e)
    <3>1. Found(v, queued[m], queued[m] \cup {d}, given[m], raced, e)
      BY <2>3 DEF Accounted
    <3>2. queued[m] \cup {d} \subseteq queued'[m] \cup {d}
      BY <2>4
    <3> QED BY <2>4, <3>1, <3>2, FoundMore
  <2>7. ASSUME NEW e \in queued'[m] \ queued[m]
        PROVE  Found(v, queued'[m], queued'[m] \cup {d}, given[m], raced, e)
    <3>1. m = n /\ e = c
      BY <1>4, <2>7
    <3>2. {c, d} \in raced
      BY <1>1, <1>2, <2>1, <2>2, <3>1 DEF CommandInv, OpenRace
    <3> QED BY <3>1, <3>2 DEF Found
  <2>8. Accounted(v, queued'[m], queued'[m] \cup {d}, given[m], raced)
    BY <2>6, <2>7 DEF Accounted
  <2> QED BY <2>1, <2>2, <2>3, <2>5, <2>8
<1>8. OpenRace'
  <2> SUFFICES ASSUME NEW p \in Operators, NEW u \in Operators, p # u,
                      op'[p] # NoOp, op'[u] # NoOp, op'[p].node = op'[u].node
               PROVE  {op'[p].command, op'[u].command} \in raced
    BY <1>3 DEF OpenRace
  <2>1. op'[p] = op[p] /\ op'[u] = op[u]
    BY <1>4
  <2> QED BY <2>1 DEF CommandInv, OpenRace
<1>9. BeatInv'
  <2> SUFFICES ASSUME NEW b \in Beats, beat[b].pc = "read"
               PROVE  beat[b].commands = pending'[beat[b].node]
    BY <1>3 DEF BeatInv
  <2>1. /\ beat[b].node \in Nodes /\ beat[b].commands = pending[beat[b].node]
        /\ lock[beat[b].node] = b /\ b # Free
    BY BeatFacts DEF IInv, BeatHolds, CommandInv, BeatInv
  <2> QED BY <1>3, <1>4, <2>1
<1>10. GivenInOrder'
  <2>1. ASSUME NEW d \in Commands PROVE Given(d)' <=> Given(d)
    <3>1. (\E m \in Nodes : d \in queued'[m]) <=> (\E m \in Nodes : d \in queued[m]) \/ d = c
      BY <1>4
    <3>2. (\E p \in Operators : op[p] # NoOp /\ op[p].command = d)
            <=> (\E p \in Operators : op'[p] # NoOp /\ op'[p].command = d) \/ d = c
      BY <1>1, <1>2, <1>4, <3>1
    <3> QED BY <3>1, <3>2 DEF Given
  <2> QED BY <2>1 DEF CommandInv, GivenInOrder
<1> QED BY <1>6, <1>7, <1>8, <1>9, <1>10 DEF CommandInv

LEMMA InitCommands == Init => CommandInv
<1> SUFFICES ASSUME Init PROVE CommandInv
  OBVIOUS
<1>1. RowInv
  BY FS_EmptySet DEF Init, RowInv, Waiting, Accounted, Rising
<1>2. OpInv /\ OpenRace /\ BeatInv
  BY DEF Init, OpInv, OpenRace, BeatInv, NoBeat
<1>3. GivenInOrder
  BY DEF Init, GivenInOrder, Given
<1> QED BY <1>1, <1>2, <1>3 DEF CommandInv

LEMMA NextCommands == IInv /\ CommandInv /\ [Next]_vars => CommandInv'
<1> SUFFICES ASSUME IInv, CommandInv, [Next]_vars PROVE CommandInv'
  OBVIOUS
<1>1. CASE Tick \/ \E b \in Beats : \/ \E n \in Nodes : StartBeat(b, n)
                                  \/ LockRow(b) \/ ReadCommands(b) \/ BeatFails(b)
  BY <1>1, BeatCommands
<1>2. ASSUME NEW b \in Beats, CommitBeat(b) PROVE CommandInv'
  BY <1>2, CommitBeatCommands
<1>3. ASSUME NEW o \in Operators, NEW n \in Nodes, NEW c \in Commands, ReadNetwork(o, n, c)
      PROVE  CommandInv'
  BY <1>3, ReadNetworkCommands
<1>4. ASSUME NEW o \in Operators, WriteNetwork(o) PROVE CommandInv'
  BY <1>4, WriteNetworkCommands
<1>5. CASE Sweep \/ SweepDies \/ UNCHANGED vars
  <2>1. UNCHANGED <<pending, op, given, queued, raced, beat>>
    BY <1>5 DEF Sweep, StartSweep, SelectRows, CommitSweep, SweepDies, vars
  <2>2. BeatInv'
    BY <2>1 DEF CommandInv, BeatInv
  <2> QED BY <2>1, <2>2, CommandsAlone
<1> QED BY <1>1, <1>2, <1>3, <1>4, <1>5 DEF Next, HandleBeat

\* A command that an operator was told is queued waits, was given, made room, or had a
\* request that overlapped that of another queued command, for any number of operators
\* and however heartbeats overlap and fail (send_node_command, record_heartbeat): a
\* row that was read without a lock can otherwise only have been emptied by a
\* heartbeat since, which took what was there.
THEOREM CommandsAreNotLost == Spec => []AtLeastOnce
<1>1. IInv /\ CommandInv => AtLeastOnce
  BY TypeFacts, LenProperties DEF IInv, CommandInv, RowInv, Accounted, Found, AtLeastOnce
<1>2. IInv /\ CommandInv /\ [Next]_vars => CommandInv'
  BY NextCommands
<1> QED BY <1>1, <1>2, InitCommands, Invariance, PTL DEF Spec

-----------------------------------------------------------------------------
(***************************************************************************)
(* FederatedRound, for any number of rounds, updates and aggregators        *)
(***************************************************************************)

SubStates == [pc : {"chosen"}, round : Rounds]
               \cup [pc : {"inserted"}, round : Rounds, count : 1 .. Cardinality(Updates)]
               \cup {Idle, Done}
AggStates == [pc : {"locked"}, round : Rounds, found : SUBSET Updates] \cup {Idle}
UpdateRows == [status : {"UPLOADED", "AGGREGATED"}, round : Rounds]

\* A request that has inserted holds its share of the round, so nobody commits to
\* the round before it, and its count stays right.
SubmissionsWait ==
  \A u \in Updates :
    /\ sub[u] # Done => update[u] = Absent
    /\ sub[u].pc = "inserted" =>
         /\ u \in share[sub[u].round]
         /\ sub[u].count = Cardinality(Committed(sub[u].round)) + 1

\* A request that aggregates owns the round, so what it found is what is there.
FoundIsThere ==
  \A a \in Aggregators : agg[a] # Idle =>
    /\ owner[agg[a].round] = a
    /\ agg[a].found = Uploaded(agg[a].round)

\* Rounds are never deleted.
RoundsExist ==
  /\ \A u \in Updates :
       /\ sub[u].pc \in {"chosen", "inserted"} => Exists(sub[u].round)
       /\ update[u] # Absent => Exists(update[u].round)
  /\ \A a \in Aggregators : agg[a] # Idle => Exists(agg[a].round)

FederatedInv == FederatedTypeOK /\ RoundsExist /\ SubmissionsWait /\ FoundIsThere
          /\ AggregatedOnce /\ CountKept /\ CompletedEnough

USE DEF Nobody

LEMMA FederatedTypeFacts ==
  ASSUME FederatedTypeOK
  PROVE  /\ round \in [Rounds -> RoundRows \cup {Absent}]
         /\ update \in [Updates -> UpdateRows \cup {Absent}]
         /\ sub \in [Updates -> SubStates]
         /\ agg \in [Aggregators -> AggStates]
         /\ share \in [Rounds -> SUBSET Updates]
         /\ owner \in [Rounds -> Aggregators \cup {Nobody}]
         /\ used \in [Updates -> 0 .. MaxUses]
BY DEF FederatedTypeOK, UpdateRows, SubStates, AggStates

LEMMA RoundCounts ==
  ASSUME NEW r \in Rounds
  PROVE  /\ IsFiniteSet(Committed(r)) /\ Committed(r) \subseteq Updates
         /\ Cardinality(Committed(r)) \in 0 .. Cardinality(Updates)
         /\ Cardinality(Updates) \in Nat
<1>1. Committed(r) \subseteq Updates
  BY DEF Committed
<1>2. IsFiniteSet(Updates)
  BY FederatedAssumption
<1>3. IsFiniteSet(Committed(r)) /\ Cardinality(Committed(r)) <= Cardinality(Updates)
  BY <1>1, <1>2, FS_Subset
<1>4. Cardinality(Updates) \in Nat /\ Cardinality(Committed(r)) \in Nat
  BY <1>2, <1>3, FS_CardinalityType
<1>5. Cardinality(Committed(r)) \in 0 .. Cardinality(Updates)
  BY <1>3, <1>4
<1> QED BY <1>1, <1>3, <1>4, <1>5

LEMMA OneMore ==
  ASSUME NEW r \in Rounds, NEW u \in Updates, u \notin Committed(r)
  PROVE  /\ Cardinality(Committed(r)) + 1 \in 1 .. Cardinality(Updates)
         /\ Cardinality(Committed(r) \cup {u}) = Cardinality(Committed(r)) + 1
<1>1. Cardinality(Committed(r) \cup {u}) = Cardinality(Committed(r)) + 1
  BY RoundCounts, FS_AddElement
<1>2. Committed(r) \cup {u} \subseteq Updates
  BY DEF Committed
<1>3. Cardinality(Committed(r) \cup {u}) <= Cardinality(Updates)
  BY <1>2, FederatedAssumption, FS_Subset
<1>4. Cardinality(Committed(r)) + 1 \in 1 .. Cardinality(Updates)
  BY <1>1, <1>3, RoundCounts
<1> QED BY <1>1, <1>4

LEMMA FederatedInitInv == FederatedInit => FederatedInv
<1> SUFFICES ASSUME FederatedInit PROVE FederatedInv
  OBVIOUS
<1>1. FederatedTypeOK
  BY FederatedAssumption DEF FederatedInit, FederatedTypeOK, Idle, Absent
<1>2. SubmissionsWait /\ RoundsExist
  BY DEF FederatedInit, SubmissionsWait, RoundsExist, Idle, Absent
<1>3. FoundIsThere
  BY DEF FederatedInit, FoundIsThere
<1>4. AggregatedOnce
  BY DEF FederatedInit, AggregatedOnce
<1>5. CountKept /\ CompletedEnough
  BY DEF FederatedInit, CountKept, CompletedEnough, Collecting, Exists, Absent
<1> QED BY <1>1, <1>2, <1>3, <1>4, <1>5 DEF FederatedInv

-----------------------------------------------------------------------------
(***************************************************************************)
(* What the rows are                                                       *)
(***************************************************************************)
LEMMA RowFacts ==
  ASSUME FederatedTypeOK
  PROVE  /\ \A r \in Rounds : Exists(r) => round[r] \in RoundRows
         /\ \A u \in Updates : update[u] # Absent => update[u] \in UpdateRows
         /\ \A u \in Updates : sub[u].pc \in {"chosen", "inserted"} => sub[u].round \in Rounds
         /\ \A u \in Updates : sub[u].pc = "inserted" => sub[u].count \in 1 .. Cardinality(Updates)
         /\ \A a \in Aggregators : agg[a] # Idle => agg[a].round \in Rounds /\ agg[a].found \subseteq Updates
<1>1. \A r \in Rounds : Exists(r) => round[r] \in RoundRows
  BY FederatedTypeFacts DEF Exists
<1>2. \A u \in Updates : update[u] # Absent => update[u] \in UpdateRows
  BY FederatedTypeFacts
<1>3. \A u \in Updates :
        /\ sub[u].pc \in {"chosen", "inserted"} => sub[u].round \in Rounds
        /\ sub[u].pc = "inserted" => sub[u].count \in 1 .. Cardinality(Updates)
  BY FederatedTypeFacts DEF SubStates, Idle, Done
<1>4. \A a \in Aggregators : agg[a] # Idle => agg[a].round \in Rounds /\ agg[a].found \subseteq Updates
  BY FederatedTypeFacts DEF AggStates
<1> QED BY <1>1, <1>2, <1>3, <1>4

\* What was committed and is no longer only uploaded has been aggregated.
LEMMA AggregatedRows ==
  ASSUME FederatedTypeOK, NEW r \in Rounds
  PROVE  Committed(r) \ Uploaded(r) = {u \in Committed(r) : update[u].status = "AGGREGATED"}
BY RowFacts DEF Committed, Uploaded, UpdateRows

\* Steps that commit nothing to updates keep what is said of them.
LEMMA UpdatesKept ==
  ASSUME FederatedInv, UNCHANGED <<update, used>>
  PROVE  /\ \A r : Committed(r)' = Committed(r) /\ Uploaded(r)' = Uploaded(r)
         /\ AggregatedOnce'
BY DEF FederatedInv, Committed, Uploaded, AggregatedOnce

-----------------------------------------------------------------------------
(***************************************************************************)
(* Rounds and submissions                                                  *)
(***************************************************************************)
LEMMA CreateRoundStep == ASSUME NEW r \in Rounds PROVE FederatedInv /\ CreateRound(r) => FederatedInv'
<1> SUFFICES ASSUME FederatedInv, CreateRound(r) PROVE FederatedInv'
  OBVIOUS
<1>1. UNCHANGED <<update, sub, agg, share, owner, used>> /\ ~ Exists(r)
        /\ round' = [round EXCEPT ![r] = [status |-> "COLLECTING", contributors |-> 0]]
  BY DEF CreateRound
<1>2. FederatedTypeOK'
  <2>1. round' \in [Rounds -> RoundRows \cup {Absent}]
    BY <1>1, RoundCounts, FederatedTypeFacts DEF FederatedInv, RoundRows
  <2> QED BY <1>1, <2>1 DEF FederatedInv, FederatedTypeOK
<1>3. \A q \in Rounds : Exists(q) => round'[q] = round[q] /\ Exists(q)'
  BY <1>1, FederatedTypeFacts DEF FederatedInv, Exists
<1>4. RoundsExist'
  BY <1>1, <1>3, RowFacts DEF FederatedInv, RoundsExist, UpdateRows
<1>5. SubmissionsWait' /\ FoundIsThere' /\ AggregatedOnce'
  BY <1>1, UpdatesKept DEF FederatedInv, SubmissionsWait, FoundIsThere
<1>6. Committed(r) = {}
  BY <1>1 DEF FederatedInv, RoundsExist, Committed
<1>7. round'[r] = [status |-> "COLLECTING", contributors |-> 0]
        /\ \A q \in Rounds \ {r} : round'[q] = round[q]
  BY <1>1, FederatedTypeFacts DEF FederatedInv
<1>8. CountKept'
  BY <1>1, <1>6, <1>7, UpdatesKept DEF FederatedInv, CountKept, Collecting, Exists
<1>9. CompletedEnough'
  BY <1>1, <1>7, UpdatesKept DEF FederatedInv, CompletedEnough, MinRequired
<1> QED BY <1>2, <1>4, <1>5, <1>8, <1>9 DEF FederatedInv

LEMMA ChooseStep ==
  ASSUME NEW u \in Updates, NEW r \in Rounds PROVE FederatedInv /\ Choose(u, r) => FederatedInv'
<1> SUFFICES ASSUME FederatedInv, Choose(u, r) PROVE FederatedInv'
  OBVIOUS
<1>1. UNCHANGED <<round, update, agg, share, owner, used>> /\ sub[u] = Idle /\ Exists(r)
        /\ sub' = [sub EXCEPT ![u] = [pc |-> "chosen", round |-> r]]
  BY DEF Choose
<1>2. sub' \in [Updates -> SubStates]
  BY <1>1, FederatedTypeFacts DEF FederatedInv, SubStates
<1>3. FederatedTypeOK'
  BY <1>1, <1>2 DEF FederatedInv, FederatedTypeOK, SubStates
<1>4. sub'[u] = [pc |-> "chosen", round |-> r] /\ \A v \in Updates \ {u} : sub'[v] = sub[v]
  BY <1>1, FederatedTypeFacts DEF FederatedInv
<1>5. RoundsExist'
  BY <1>1, <1>4 DEF FederatedInv, RoundsExist, Exists
<1>6. SubmissionsWait'
  <2>1. update[u] = Absent
    BY <1>1 DEF FederatedInv, SubmissionsWait, Idle, Done
  <2> QED BY <1>1, <1>4, <2>1, UpdatesKept DEF FederatedInv, SubmissionsWait
<1>7. FoundIsThere' /\ AggregatedOnce'
  BY <1>1, UpdatesKept DEF FederatedInv, FoundIsThere
<1>8. CountKept'
  BY <1>1, UpdatesKept DEF FederatedInv, CountKept, Collecting, Exists
<1>9. CompletedEnough'
  BY <1>1, UpdatesKept DEF FederatedInv, CompletedEnough, MinRequired
<1> QED BY <1>3, <1>5, <1>6, <1>7, <1>8, <1>9 DEF FederatedInv

LEMMA InsertStep == ASSUME NEW u \in Updates PROVE FederatedInv /\ Insert(u) => FederatedInv'
<1> SUFFICES ASSUME FederatedInv, Insert(u) PROVE FederatedInv'
  OBVIOUS
<1> DEFINE r == sub[u].round
<1>1. UNCHANGED <<round, update, agg, owner, used>> /\ sub[u].pc = "chosen"
        /\ share' = [share EXCEPT ![r] = @ \cup {u}]
        /\ sub' = [sub EXCEPT ![u] = [pc |-> "inserted", round |-> r,
                                      count |-> Cardinality(Committed(r)) + 1]]
  BY DEF Insert, Shared
<1>2. r \in Rounds /\ Exists(r) /\ update[u] = Absent
  BY <1>1, RowFacts DEF FederatedInv, RoundsExist, SubmissionsWait, Done
<1>3. Cardinality(Committed(r)) + 1 \in 1 .. Cardinality(Updates)
  BY <1>2, OneMore DEF Committed
<1>4. FederatedTypeOK'
  <2>1. sub' \in [Updates -> SubStates]
    BY <1>1, <1>2, <1>3, FederatedTypeFacts DEF FederatedInv, SubStates
  <2>2. share' \in [Rounds -> SUBSET Updates]
    BY <1>1, <1>2, FederatedTypeFacts DEF FederatedInv
  <2> QED BY <1>1, <2>1, <2>2 DEF FederatedInv, FederatedTypeOK, SubStates
<1>5. /\ sub'[u] = [pc |-> "inserted", round |-> r, count |-> Cardinality(Committed(r)) + 1]
      /\ \A v \in Updates \ {u} : sub'[v] = sub[v]
      /\ u \in share'[r] /\ \A q \in Rounds : share[q] \subseteq share'[q]
  BY <1>1, <1>2, FederatedTypeFacts DEF FederatedInv
<1>6. RoundsExist'
  BY <1>1, <1>2, <1>5 DEF FederatedInv, RoundsExist, Exists
<1>7. SubmissionsWait'
  BY <1>1, <1>2, <1>5, UpdatesKept, RowFacts DEF FederatedInv, SubmissionsWait
<1>8. FoundIsThere' /\ AggregatedOnce' /\ CountKept' /\ CompletedEnough'
  BY <1>1, UpdatesKept DEF FederatedInv, FoundIsThere, CountKept, CompletedEnough, Collecting, Exists, MinRequired
<1> QED BY <1>4, <1>6, <1>7, <1>8 DEF FederatedInv

LEMMA LoseUpdateStep == ASSUME NEW u \in Updates PROVE FederatedInv /\ LoseUpdate(u) => FederatedInv'
<1> SUFFICES ASSUME FederatedInv, LoseUpdate(u) PROVE FederatedInv'
  OBVIOUS
<1> DEFINE r == sub[u].round
<1>1. UNCHANGED <<round, update, agg, owner, used>> /\ sub[u].pc = "inserted"
        /\ share' = [share EXCEPT ![r] = @ \ {u}]
        /\ sub' = [sub EXCEPT ![u] = Done]
  BY DEF LoseUpdate
<1>2. r \in Rounds
  BY <1>1, RowFacts DEF FederatedInv
<1>3. FederatedTypeOK'
  <2>1. sub' \in [Updates -> SubStates]
    BY <1>1, FederatedTypeFacts DEF FederatedInv, SubStates
  <2>2. share' \in [Rounds -> SUBSET Updates]
    BY <1>1, <1>2, FederatedTypeFacts DEF FederatedInv
  <2> QED BY <1>1, <2>1, <2>2 DEF FederatedInv, FederatedTypeOK, SubStates
<1>4. /\ sub'[u] = Done /\ \A v \in Updates \ {u} : sub'[v] = sub[v]
      /\ \A v \in Updates \ {u}, q \in Rounds : v \in share[q] => v \in share'[q]
  BY <1>1, <1>2, FederatedTypeFacts DEF FederatedInv
<1>5. RoundsExist'
  BY <1>1, <1>4 DEF FederatedInv, RoundsExist, Exists, Done
<1>6. SubmissionsWait'
  <2> SUFFICES ASSUME NEW v \in Updates
               PROVE  (/\ sub[v] # Done => update[v] = Absent
                       /\ sub[v].pc = "inserted" =>
                            /\ v \in share[sub[v].round]
                            /\ sub[v].count = Cardinality(Committed(sub[v].round)) + 1)'
    BY DEF SubmissionsWait
  <2>1. CASE v = u
    BY <1>4, <2>1 DEF Done
  <2>2. CASE v # u
    <3>1. sub[v].pc = "inserted" => sub[v].round \in Rounds
      BY RowFacts DEF FederatedInv
    <3>2. sub'[v] = sub[v]
      BY <1>4, <2>2
    <3>3. \A q : Committed(q)' = Committed(q)
      BY <1>1, UpdatesKept
    <3> QED BY <1>1, <1>4, <2>2, <3>1, <3>2, <3>3 DEF FederatedInv, SubmissionsWait
  <2> QED BY <2>1, <2>2
<1>7. FoundIsThere' /\ AggregatedOnce' /\ CountKept' /\ CompletedEnough'
  BY <1>1, UpdatesKept DEF FederatedInv, FoundIsThere, CountKept, CompletedEnough, Collecting, Exists, MinRequired
<1> QED BY <1>3, <1>5, <1>6, <1>7 DEF FederatedInv

LEMMA CommitUpdateStep == ASSUME NEW u \in Updates PROVE FederatedInv /\ CommitUpdate(u) => FederatedInv'
<1> SUFFICES ASSUME FederatedInv, CommitUpdate(u) PROVE FederatedInv'
  OBVIOUS
<1>0. PICK r \in Rounds : r = sub[u].round
  BY RowFacts DEF FederatedInv, CommitUpdate
<1>1. UNCHANGED <<agg, owner, used>> /\ sub[u].pc = "inserted"
        /\ owner[r] = Nobody /\ share[r] \subseteq {u}
        /\ round' = [round EXCEPT ![r].contributors = sub[u].count + 1]
        /\ update' = [update EXCEPT ![u] = [status |-> "UPLOADED", round |-> r]]
        /\ share' = [share EXCEPT ![r] = @ \ {u}]
        /\ sub' = [sub EXCEPT ![u] = Done]
  BY <1>0 DEF CommitUpdate
<1>2. Exists(r) /\ round[r] \in RoundRows /\ update[u] = Absent
        /\ sub[u].count \in 1 .. Cardinality(Updates)
        /\ sub[u].count = Cardinality(Committed(r)) + 1
  BY <1>0, <1>1, RowFacts DEF FederatedInv, RoundsExist, SubmissionsWait, Done
<1>3. /\ sub'[u] = Done /\ \A v \in Updates \ {u} : sub'[v] = sub[v]
      /\ update'[u] = [status |-> "UPLOADED", round |-> r] /\ update'[u] # Absent
      /\ \A v \in Updates \ {u} : update'[v] = update[v]
      /\ \A v \in Updates \ {u}, q \in Rounds : v \in share[q] => v \in share'[q]
  BY <1>1, <1>2, FederatedTypeFacts DEF FederatedInv, Absent
<1>4. /\ round'[r].status = round[r].status /\ round'[r].contributors = sub[u].count + 1
      /\ round'[r] \in RoundRows
      /\ \A q \in Rounds \ {r} : round'[q] = round[q]
  <2>1. round'[r] = [round[r] EXCEPT !.contributors = sub[u].count + 1]
          /\ \A q \in Rounds \ {r} : round'[q] = round[q]
    BY <1>1, <1>2, FederatedTypeFacts DEF FederatedInv
  <2>2. sub[u].count + 1 \in 0 .. Cardinality(Updates) + 1
    BY <1>2, RoundCounts
  <2> QED BY <1>2, <2>1, <2>2 DEF RoundRows
<1>5. FederatedTypeOK'
  <2>1. sub' \in [Updates -> SubStates]
    BY <1>1, FederatedTypeFacts DEF FederatedInv, SubStates
  <2>2. share' \in [Rounds -> SUBSET Updates]
    BY <1>1, <1>2, FederatedTypeFacts DEF FederatedInv
  <2>3. update' \in [Updates -> UpdateRows \cup {Absent}]
    BY <1>1, <1>2, FederatedTypeFacts DEF FederatedInv, UpdateRows
  <2>4. round' \in [Rounds -> RoundRows \cup {Absent}]
    BY <1>1, <1>2, <1>4, FederatedTypeFacts DEF FederatedInv
  <2> QED BY <1>1, <2>1, <2>2, <2>3, <2>4 DEF FederatedInv, FederatedTypeOK, SubStates, UpdateRows
<1>6. \A q \in Rounds : Exists(q) => Exists(q)'
  BY <1>2, <1>4 DEF Exists, RoundRows, Absent
<1>7. RoundsExist'
  <2>1. (\A v \in Updates : sub[v].pc \in {"chosen", "inserted"} => Exists(sub[v].round))'
    BY <1>3, <1>6, RowFacts DEF FederatedInv, RoundsExist, Exists, Done
  <2>2. (\A v \in Updates : update[v] # Absent => Exists(update[v].round))'
    BY <1>2, <1>3, <1>6, RowFacts DEF FederatedInv, RoundsExist, Exists, UpdateRows
  <2>3. (\A a \in Aggregators : agg[a] # Idle => Exists(agg[a].round))'
    BY <1>1, <1>6, RowFacts DEF FederatedInv, RoundsExist, Exists
  <2> QED BY <2>1, <2>2, <2>3 DEF RoundsExist
<1>8. /\ Committed(r)' = Committed(r) \cup {u} /\ u \notin Committed(r)
      /\ Uploaded(r)' = Uploaded(r) \cup {u}
      /\ \A q \in Rounds \ {r} : Committed(q)' = Committed(q) /\ Uploaded(q)' = Uploaded(q)
  BY <1>2, <1>3 DEF Committed, Uploaded
<1>9. SubmissionsWait'
  <2> SUFFICES ASSUME NEW v \in Updates
               PROVE  (/\ sub[v] # Done => update[v] = Absent
                       /\ sub[v].pc = "inserted" =>
                            /\ v \in share[sub[v].round]
                            /\ sub[v].count = Cardinality(Committed(sub[v].round)) + 1)'
    BY DEF SubmissionsWait
  <2>1. CASE v = u
    BY <1>3, <2>1 DEF Done
  <2>2. CASE v # u
    <3>1. sub'[v] = sub[v] /\ update'[v] = update[v]
      BY <1>3, <2>2
    <3>2. ASSUME sub[v].pc = "inserted" PROVE sub[v].round \in Rounds \ {r}
      BY <1>0, <1>1, <2>2, <3>2, RowFacts DEF FederatedInv, SubmissionsWait
    <3> QED BY <1>3, <1>8, <2>2, <3>1, <3>2 DEF FederatedInv, SubmissionsWait
  <2> QED BY <2>1, <2>2
<1>10. FoundIsThere'
  <2>1. ASSUME NEW a \in Aggregators, agg[a] # Idle PROVE agg[a].round \in Rounds \ {r}
    BY <1>1, <2>1, RowFacts, FederatedAssumption DEF FederatedInv, FoundIsThere
  <2> QED BY <1>1, <1>8, <2>1 DEF FederatedInv, FoundIsThere
<1>11. AggregatedOnce'
  BY <1>1, <1>2, <1>3 DEF FederatedInv, AggregatedOnce
<1>12. CountKept'
  <2>1. Cardinality(Committed(r)') = Cardinality(Committed(r)) + 1
    BY <1>2, <1>8, OneMore
  <2>2. round'[r].contributors = Cardinality(Committed(r)') + 1
    BY <1>2, <1>4, <2>1, RoundCounts
  <2> QED BY <1>4, <1>8, <2>2 DEF FederatedInv, CountKept, Collecting, Exists
<1>13. CompletedEnough'
  <2>1. Committed(r)' \ Uploaded(r)' = Committed(r) \ Uploaded(r)
    BY <1>8
  <2> QED BY <1>4, <1>8, <2>1 DEF FederatedInv, CompletedEnough, MinRequired
<1> QED BY <1>5, <1>7, <1>9, <1>10, <1>11, <1>12, <1>13 DEF FederatedInv

-----------------------------------------------------------------------------
(***************************************************************************)
(* Aggregations                                                            *)
(***************************************************************************)
LEMMA LockRoundStep ==
  ASSUME NEW a \in Aggregators, NEW r \in Rounds PROVE FederatedInv /\ LockRound(a, r) => FederatedInv'
<1> SUFFICES ASSUME FederatedInv, LockRound(a, r) PROVE FederatedInv'
  OBVIOUS
<1>1. UNCHANGED <<round, update, sub, share, used>> /\ Exists(r) /\ owner[r] = Nobody
        /\ owner' = [owner EXCEPT ![r] = a]
        /\ agg' = [agg EXCEPT ![a] = [pc |-> "locked", round |-> r, found |-> Uploaded(r)]]
  BY DEF LockRound, Owned
<1>2. agg' \in [Aggregators -> AggStates] /\ owner' \in [Rounds -> Aggregators \cup {Nobody}]
  BY <1>1, FederatedTypeFacts DEF FederatedInv, AggStates, Uploaded, Committed
<1>3. FederatedTypeOK'
  BY <1>1, <1>2 DEF FederatedInv, FederatedTypeOK, AggStates
<1>4. /\ agg'[a] = [pc |-> "locked", round |-> r, found |-> Uploaded(r)]
      /\ \A b \in Aggregators \ {a} : agg'[b] = agg[b]
      /\ owner'[r] = a /\ \A q \in Rounds \ {r} : owner'[q] = owner[q]
  BY <1>1, FederatedTypeFacts DEF FederatedInv
<1>5. RoundsExist'
  BY <1>1, <1>4 DEF FederatedInv, RoundsExist, Exists
<1>6. FoundIsThere'
  <2>1. ASSUME NEW b \in Aggregators, agg[b] # Idle PROVE agg[b].round \in Rounds \ {r}
    BY <1>1, <2>1, RowFacts, FederatedAssumption DEF FederatedInv, FoundIsThere
  <2> QED BY <1>1, <1>4, <2>1, UpdatesKept DEF FederatedInv, FoundIsThere
<1>7. SubmissionsWait' /\ AggregatedOnce' /\ CountKept' /\ CompletedEnough'
  BY <1>1, UpdatesKept DEF FederatedInv, SubmissionsWait, CountKept, CompletedEnough, Collecting, Exists, MinRequired
<1> QED BY <1>3, <1>5, <1>6, <1>7 DEF FederatedInv

\* A request that ends lets its round go, and no other.
LEMMA UnlockFacts ==
  ASSUME FederatedInv, NEW a \in Aggregators, Unlock(a)
  PROVE  /\ agg' \in [Aggregators -> AggStates] /\ owner' \in [Rounds -> Aggregators \cup {Nobody}]
         /\ agg'[a] = Idle /\ \A b \in Aggregators \ {a} : agg'[b] = agg[b]
         /\ \A b \in Aggregators \ {a} : agg[b] # Idle => owner'[agg[b].round] = b
<1>1. agg' = [agg EXCEPT ![a] = Idle]
        /\ owner' = [r \in Rounds |-> IF owner[r] = a THEN Nobody ELSE owner[r]]
  BY DEF Unlock
<1>2. agg' \in [Aggregators -> AggStates] /\ agg'[a] = Idle
        /\ \A b \in Aggregators \ {a} : agg'[b] = agg[b]
  BY <1>1, FederatedTypeFacts DEF FederatedInv, AggStates
<1>3. owner' \in [Rounds -> Aggregators \cup {Nobody}]
  BY <1>1, FederatedTypeFacts DEF FederatedInv
<1>4. ASSUME NEW b \in Aggregators \ {a}, agg[b] # Idle PROVE owner'[agg[b].round] = b
  BY <1>1, <1>4, RowFacts DEF FederatedInv, FoundIsThere
<1> QED BY <1>2, <1>3, <1>4

LEMMA RollBackStep == ASSUME NEW a \in Aggregators PROVE FederatedInv /\ RollBack(a) => FederatedInv'
<1> SUFFICES ASSUME FederatedInv, RollBack(a) PROVE FederatedInv'
  OBVIOUS
<1>1. UNCHANGED <<round, update, sub, share, used>> /\ Unlock(a)
  BY DEF RollBack
<1>2. FederatedTypeOK'
  BY <1>1, UnlockFacts DEF FederatedInv, FederatedTypeOK, AggStates
<1>3. RoundsExist' /\ FoundIsThere'
  BY <1>1, UnlockFacts, UpdatesKept DEF FederatedInv, RoundsExist, FoundIsThere, Exists
<1>4. SubmissionsWait' /\ AggregatedOnce' /\ CountKept' /\ CompletedEnough'
  BY <1>1, UpdatesKept DEF FederatedInv, SubmissionsWait, CountKept, CompletedEnough, Collecting, Exists, MinRequired
<1> QED BY <1>2, <1>3, <1>4 DEF FederatedInv

LEMMA FailStep == ASSUME NEW a \in Aggregators PROVE FederatedInv /\ Fail(a) => FederatedInv'
<1> SUFFICES ASSUME FederatedInv, Fail(a) PROVE FederatedInv'
  OBVIOUS
<1>0. PICK r \in Rounds : r = agg[a].round
  BY RowFacts DEF FederatedInv, Fail
<1>1. UNCHANGED <<update, sub, share, used>> /\ Unlock(a) /\ agg[a] # Idle
        /\ round' = [round EXCEPT ![r].status = "FAILED"]
  BY <1>0 DEF Fail
<1>2. Exists(r) /\ round[r] \in RoundRows
  BY <1>0, <1>1, RowFacts DEF FederatedInv, RoundsExist
<1>3. /\ round'[r].status = "FAILED" /\ round'[r] \in RoundRows
      /\ \A q \in Rounds \ {r} : round'[q] = round[q]
  <2>1. round'[r] = [round[r] EXCEPT !.status = "FAILED"]
          /\ \A q \in Rounds \ {r} : round'[q] = round[q]
    BY <1>1, <1>2, FederatedTypeFacts DEF FederatedInv
  <2> QED BY <1>2, <2>1 DEF RoundRows
<1>4. FederatedTypeOK'
  <2>1. round' \in [Rounds -> RoundRows \cup {Absent}]
    BY <1>1, <1>3, FederatedTypeFacts DEF FederatedInv
  <2> QED BY <1>1, <2>1, UnlockFacts DEF FederatedInv, FederatedTypeOK, AggStates
<1>5. \A q \in Rounds : Exists(q) => Exists(q)'
  BY <1>2, <1>3 DEF Exists, RoundRows, Absent
<1>6. RoundsExist'
  BY <1>1, <1>5, UnlockFacts, RowFacts DEF FederatedInv, RoundsExist, Exists, UpdateRows
<1>7. FoundIsThere'
  BY <1>1, UnlockFacts, UpdatesKept DEF FederatedInv, FoundIsThere
<1>8. SubmissionsWait' /\ AggregatedOnce'
  BY <1>1, UpdatesKept DEF FederatedInv, SubmissionsWait
<1>9. CountKept'
  BY <1>1, <1>3, UpdatesKept DEF FederatedInv, CountKept, Collecting, Exists
<1>10. CompletedEnough'
  BY <1>1, <1>3, UpdatesKept DEF FederatedInv, CompletedEnough, MinRequired
<1> QED BY <1>4, <1>6, <1>7, <1>8, <1>9, <1>10 DEF FederatedInv

LEMMA CompleteStep == ASSUME NEW a \in Aggregators PROVE FederatedInv /\ Complete(a) => FederatedInv'
<1> SUFFICES ASSUME FederatedInv, Complete(a) PROVE FederatedInv'
  OBVIOUS
<1>0. PICK r \in Rounds, found \in SUBSET Updates : r = agg[a].round /\ found = agg[a].found
  BY RowFacts DEF FederatedInv, Complete
<1>1. UNCHANGED <<sub, share>> /\ Unlock(a) /\ agg[a] # Idle /\ Enough(a)
        /\ (\A u \in found : used[u] < MaxUses)
        /\ round' = [round EXCEPT ![r] = [status |-> "COMPLETED", contributors |-> Cardinality(found)]]
        /\ update' = [u \in Updates |-> IF u \in found THEN [update[u] EXCEPT !.status = "AGGREGATED"]
                                                       ELSE update[u]]
        /\ used' = [u \in Updates |-> IF u \in found THEN used[u] + 1 ELSE used[u]]
  BY <1>0 DEF Complete, TookPart
<1>2. Exists(r) /\ found = Uploaded(r)
  BY <1>0, <1>1, RowFacts DEF FederatedInv, RoundsExist, FoundIsThere
<1>3. IsFiniteSet(found) /\ Cardinality(found) \in 0 .. Cardinality(Updates) + 1
  <2>1. found \subseteq Committed(r)
    BY <1>2 DEF Uploaded
  <2>2. IsFiniteSet(found) /\ Cardinality(found) <= Cardinality(Committed(r))
    BY <1>2, <2>1, RoundCounts, FS_Subset
  <2>3. Cardinality(found) \in Nat
    BY <2>2, FS_CardinalityType
  <2> QED BY <1>2, <2>2, <2>3, RoundCounts
<1>4. /\ round'[r] = [status |-> "COMPLETED", contributors |-> Cardinality(found)]
      /\ \A q \in Rounds \ {r} : round'[q] = round[q]
  BY <1>1, <1>2, FederatedTypeFacts DEF FederatedInv
<1>5. \A u \in found : /\ update[u] # Absent /\ update[u].round = r /\ update[u].status = "UPLOADED"
                       /\ update'[u] # Absent /\ update'[u] \in UpdateRows
                       /\ update'[u].round = r /\ update'[u].status = "AGGREGATED"
                       /\ u \in Updates
  <2> SUFFICES ASSUME NEW u \in found
               PROVE  /\ update[u] # Absent /\ update[u].round = r /\ update[u].status = "UPLOADED"
                      /\ update'[u] # Absent /\ update'[u] \in UpdateRows
                      /\ update'[u].round = r /\ update'[u].status = "AGGREGATED"
                      /\ u \in Updates
    OBVIOUS
  <2>1. u \in Updates /\ update[u] # Absent /\ update[u].round = r /\ update[u].status = "UPLOADED"
    BY <1>2 DEF Uploaded, Committed
  <2>2. update[u] \in UpdateRows
    BY <2>1, RowFacts DEF FederatedInv
  <2>3. update'[u] = [update[u] EXCEPT !.status = "AGGREGATED"]
    BY <1>1, <2>1
  <2>4. update'[u] \in UpdateRows /\ update'[u].round = r /\ update'[u].status = "AGGREGATED"
    BY <2>1, <2>2, <2>3 DEF UpdateRows
  <2>5. update'[u] # Absent
    BY <2>4 DEF Absent
  <2> QED BY <2>1, <2>4, <2>5
<1>6. \A u \in Updates \ found : update'[u] = update[u]
  BY <1>1
<1>7. FederatedTypeOK'
  <2>1. round' \in [Rounds -> RoundRows \cup {Absent}]
    BY <1>1, <1>2, <1>3, <1>4, FederatedTypeFacts DEF FederatedInv, RoundRows
  <2>2. update' \in [Updates -> UpdateRows \cup {Absent}]
    BY <1>1, <1>5, <1>6, FederatedTypeFacts DEF FederatedInv
  <2>3. used' \in [Updates -> 0 .. MaxUses]
    BY <1>1, FederatedAssumption, FederatedTypeFacts DEF FederatedInv
  <2> QED BY <1>1, <2>1, <2>2, <2>3, UnlockFacts DEF FederatedInv, FederatedTypeOK, AggStates, UpdateRows
<1>8. \A q \in Rounds : Exists(q) => Exists(q)'
  BY <1>4 DEF Exists, Absent
<1>9. RoundsExist'
  <2>1. (\A u \in Updates : sub[u].pc \in {"chosen", "inserted"} => Exists(sub[u].round))'
    BY <1>1, <1>8, RowFacts DEF FederatedInv, RoundsExist, Exists
  <2>2. (\A u \in Updates : update[u] # Absent => Exists(update[u].round))'
    BY <1>2, <1>5, <1>6, <1>8, RowFacts DEF FederatedInv, RoundsExist, Exists, UpdateRows
  <2>3. (\A b \in Aggregators : agg[b] # Idle => Exists(agg[b].round))'
    BY <1>1, <1>8, UnlockFacts, RowFacts DEF FederatedInv, RoundsExist, Exists
  <2> QED BY <2>1, <2>2, <2>3 DEF RoundsExist
<1>10. /\ \A q \in Rounds : Committed(q)' = Committed(q)
       /\ \A q \in Rounds \ {r} : Uploaded(q)' = Uploaded(q)
       /\ Uploaded(r)' = {}
  BY <1>2, <1>5, <1>6 DEF Committed, Uploaded
<1>11. SubmissionsWait'
  <2>1. \A u \in Updates : sub[u] # Done => u \notin found
    BY <1>5 DEF FederatedInv, SubmissionsWait
  <2> QED BY <1>1, <1>6, <1>10, <2>1, RowFacts DEF FederatedInv, SubmissionsWait
<1>12. FoundIsThere'
  <2>1. ASSUME NEW b \in Aggregators \ {a}, agg[b] # Idle PROVE agg[b].round \in Rounds \ {r}
    BY <1>0, <1>1, <2>1, RowFacts DEF FederatedInv, FoundIsThere
  <2> QED BY <1>1, <1>10, <2>1, UnlockFacts DEF FederatedInv, FoundIsThere
<1>13. AggregatedOnce'
  <2>1. \A u \in found : used[u] = 0 /\ used'[u] = 1
    <3>1. \A u \in found : used[u] = 0
      BY <1>5 DEF FederatedInv, AggregatedOnce
    <3>2. \A u \in found : used'[u] = used[u] + 1
      BY <1>1
    <3> QED BY <3>1, <3>2
  <2>2. \A u \in Updates \ found : used'[u] = used[u]
    BY <1>1
  <2>3. ASSUME NEW u \in Updates
        PROVE  used'[u] = IF update'[u] # Absent /\ update'[u].status = "AGGREGATED" THEN 1 ELSE 0
    BY <1>5, <1>6, <2>1, <2>2 DEF FederatedInv, AggregatedOnce
  <2> QED BY <2>3 DEF AggregatedOnce
<1>14. CountKept'
  BY <1>4, <1>10 DEF FederatedInv, CountKept, Collecting, Exists
<1>15. CompletedEnough'
  <2>1. found \subseteq Committed(r)' \ Uploaded(r)' /\ IsFiniteSet(Committed(r)' \ Uploaded(r)')
    BY <1>2, <1>10, RoundCounts DEF Uploaded
  <2>2. Cardinality(found) <= Cardinality(Committed(r)' \ Uploaded(r)')
    BY <2>1, FS_Subset
  <2>3. Cardinality(Committed(r)' \ Uploaded(r)') \in Nat
    BY <2>1, FS_CardinalityType
  <2>4. Cardinality(found) >= MinRequired /\ MinRequired \in Nat
    BY <1>0, <1>1, FederatedAssumption DEF Enough, MinRequired
  <2>5. Cardinality(Committed(r)' \ Uploaded(r)') >= MinRequired
    BY <1>3, <2>2, <2>3, <2>4
  <2> QED BY <1>4, <1>10, <2>5 DEF FederatedInv, CompletedEnough, MinRequired
<1> QED BY <1>7, <1>9, <1>11, <1>12, <1>13, <1>14, <1>15 DEF FederatedInv

-----------------------------------------------------------------------------
(***************************************************************************)
(* The theorems                                                            *)
(***************************************************************************)
LEMMA FederatedInvariance == FederatedSpec => []FederatedInv
<1>1. FederatedInit => FederatedInv
  BY FederatedInitInv
<1>2. FederatedInv /\ [FederatedNext]_federatedVars => FederatedInv'
  <2> SUFFICES ASSUME FederatedInv, [FederatedNext]_federatedVars PROVE FederatedInv'
    OBVIOUS
  <2>1. ASSUME NEW r \in Rounds, CreateRound(r) PROVE FederatedInv'
    BY <2>1, CreateRoundStep
  <2>2. ASSUME NEW u \in Updates, Submit(u) PROVE FederatedInv'
    BY <2>2, ChooseStep, InsertStep, CommitUpdateStep, LoseUpdateStep DEF Submit
  <2>3. ASSUME NEW a \in Aggregators, Aggregate(a) PROVE FederatedInv'
    BY <2>3, LockRoundStep, FailStep, CompleteStep, RollBackStep DEF Aggregate
  <2>4. CASE UNCHANGED federatedVars
    <3>1. UNCHANGED <<round, update, sub, agg, share, owner, used>>
      BY <2>4 DEF federatedVars
    <3>2. FederatedTypeOK' /\ RoundsExist' /\ AggregatedOnce'
      BY <3>1, UpdatesKept DEF FederatedInv, FederatedTypeOK, RoundsExist, Exists
    <3>3. SubmissionsWait' /\ FoundIsThere'
      BY <3>1, UpdatesKept DEF FederatedInv, SubmissionsWait, FoundIsThere
    <3>4. CountKept' /\ CompletedEnough'
      BY <3>1, UpdatesKept DEF FederatedInv, CountKept, CompletedEnough, Collecting, Exists, MinRequired
    <3> QED BY <3>2, <3>3, <3>4 DEF FederatedInv
  <2> QED BY <2>1, <2>2, <2>3, <2>4 DEF FederatedNext
<1> QED BY <1>1, <1>2, PTL DEF FederatedSpec

\* Every variable stays in its type; in particular num_contributors never exceeds
\* the number of submissions by more than one.
THEOREM RoundsTypeCorrect == FederatedSpec => []FederatedTypeOK
<1>1. FederatedInv => FederatedTypeOK
  BY DEF FederatedInv
<1> QED BY <1>1, FederatedInvariance, PTL

\* However many requests aggregate, and whatever comes meanwhile, no weights take
\* part twice (aggregate_weights: FOR UPDATE on the round).
THEOREM WeightsUsedOnce == FederatedSpec => []AggregatedOnce
<1>1. FederatedInv => AggregatedOnce
  BY DEF FederatedInv
<1> QED BY <1>1, FederatedInvariance, PTL

\* No submission is lost from num_contributors (submit_weight_update).
THEOREM NoSubmissionLost == FederatedSpec => []CountKept
<1>1. FederatedInv => CountKept
  BY DEF FederatedInv
<1> QED BY <1>1, FederatedInvariance, PTL

\* A completed round has the weights of enough nodes (MIN_PARTICIPATION_FRACTION).
THEOREM EnoughTookPart == FederatedSpec => []CompletedEnough
<1>1. FederatedInv => CompletedEnough
  BY DEF FederatedInv
<1> QED BY <1>1, FederatedInvariance, PTL
=============================================================================
