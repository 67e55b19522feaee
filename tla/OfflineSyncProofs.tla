-------------------------- MODULE OfflineSyncProofs --------------------------
(***************************************************************************)
(* Proofs about OfflineSync, for any number of frames, edits and flushes   *)
(* that overlap, any number of retries and any cap on the queue.           *)
(***************************************************************************)
EXTENDS OfflineSync, FiniteSetTheorems, SequenceTheorems, TLAPS

\* What a flush of frames knows and what it was told is so.
KnownIsSaved == \A c \in Calls : call[c].known \subseteq saved
OkIsSaved == \A c \in Calls : call[c].pc = "answered" /\ call[c].ok => Frame(c) \in saved

\* It still has entries while it is in its loop, and the retryCount it read of each
\* one counts answers that came, however many came since.
InLoop == {"loop", "posting", "answered"}
Read(item, ans) == item[2] < MaxRetries /\ item[2] <= ans[item[1]]
TodoIsRead ==
  \A c \in Calls :
    /\ call[c].pc \in InLoop => call[c].todo # << >>
    /\ \A i \in 1 .. Len(call[c].todo) : Read(call[c].todo[i], answers)

\* A retryCount may lag behind the answers, since flushes overwrite each other's, but
\* an entry is given up only after MaxRetries of them.
RetriesLag ==
  \A f \in Frames : /\ queue[f].retries <= answers[f]
                    /\ queue[f].status = "failed" => answers[f] >= MaxRetries

\* A planned victim stays one, whatever becomes of its entry before it is evicted.
Expendable(f) == f \in saved \/ answers[f] >= MaxRetries
VictimsExpendable == victims # Unplanned => \A f \in victims : Expendable(f)

\* One flush of edits at a time, and what it read stays so.
OneBatch == \A c, d \in Calls : batch[c] # NoBatch /\ batch[d] # NoBatch => c = d
BatchIsRead ==
  \A c \in Calls : \A e \in DOMAIN batch[c] :
    /\ batch[c][e] = edits[e].retries /\ batch[c][e] < MaxRetries
    /\ edits[e].status = "syncing"

FrameSyncing ==
  reloads = 0 => \A f \in Frames : queue[f].status = "syncing" =>
    \E c \in Calls : call[c].pc \in {"posting", "answered"} /\ Frame(c) = f
EditSyncing ==
  reloads = 0 => \A e \in Edits : edits[e].status = "syncing" =>
    \E c \in Calls : e \in DOMAIN batch[c]

FrameInv ==
  /\ SettledIsSaved /\ KnownIsSaved /\ OkIsSaved /\ TodoIsRead
  /\ RetriesLag /\ VictimsExpendable /\ FrameSyncing
EditInv == AttemptsCounted /\ OneBatch /\ BatchIsRead /\ EditSyncing

IInv == TypeOK /\ FrameInv /\ EditInv

-----------------------------------------------------------------------------
(***************************************************************************)
(* Types and sequences                                                     *)
(***************************************************************************)
LEMMA RowFacts ==
  ASSUME TypeOK, NEW f \in Frames
  PROVE  /\ queue[f].retries \in 0 .. MaxRetries
         /\ Queued(f) => queue[f] \in Entries /\ queue[f].status # "absent"
         /\ ~ Queued(f) => queue[f] = Absent
         /\ answers[f] \in 0 .. MaxRetries
BY OfflineAssumption DEF TypeOK, Queued, Entries, Absent, Status

LEMMA EditFacts ==
  ASSUME TypeOK, NEW e \in Edits
  PROVE  /\ edits[e].retries \in 0 .. MaxRetries
         /\ edits[e] # Absent => edits[e] \in Entries
         /\ answers[e] \in 0 .. MaxRetries
BY OfflineAssumption DEF TypeOK, Entries, Absent, Status

LEMMA CallFacts ==
  ASSUME TypeOK, NEW c \in Calls
  PROVE  /\ call[c] \in CallRows /\ call[c].todo \in Seq(Items)
         /\ Len(call[c].todo) \in Nat
BY DEF TypeOK, CallRows

\* The entry that a flush is working on.
LEMMA HeadFacts ==
  ASSUME TypeOK, TodoIsRead, NEW c \in Calls, call[c].pc \in InLoop
  PROVE  /\ Frame(c) \in Frames /\ Retries(c) \in 0 .. MaxRetries - 1
         /\ Retries(c) <= answers[Frame(c)]
         /\ call[c].todo # << >>
         /\ Tail(call[c].todo) \in Seq(Items)
         /\ \A i \in 1 .. Len(Tail(call[c].todo)) : Read(Tail(call[c].todo)[i], answers)
<1>1. call[c].todo # << >> /\ call[c].todo \in Seq(Items)
  BY CallFacts DEF TodoIsRead
<1>2. 1 \in 1 .. Len(call[c].todo) /\ Head(call[c].todo) = call[c].todo[1]
  BY <1>1
<1>3. Read(Head(call[c].todo), answers) /\ Head(call[c].todo) \in Items
  BY <1>1, <1>2 DEF TodoIsRead
<1>4. Tail(call[c].todo) \in Seq(Items) /\ Len(Tail(call[c].todo)) = Len(call[c].todo) - 1
        /\ \A i \in 1 .. Len(Tail(call[c].todo)) : Tail(call[c].todo)[i] = call[c].todo[i + 1]
  BY <1>1, HeadTailProperties
<1>5. \A i \in 1 .. Len(Tail(call[c].todo)) :
        i + 1 \in 1 .. Len(call[c].todo)
  BY <1>1, <1>4
<1>6. \A i \in 1 .. Len(Tail(call[c].todo)) : Read(Tail(call[c].todo)[i], answers)
  BY <1>4, <1>5 DEF TodoIsRead
<1>7. Frame(c) \in Frames /\ Retries(c) \in 0 .. MaxRetries - 1
        /\ Retries(c) <= answers[Frame(c)]
  BY <1>3, OfflineAssumption DEF Frame, Retries, Items, Read
<1> QED BY <1>1, <1>4, <1>6, <1>7

LEMMA ContinueFacts ==
  ASSUME TypeOK, NEW c \in Calls, NEW todo \in Seq(Items), call' = Continue(c, todo)
  PROVE  /\ call' \in [Calls -> CallRows]
         /\ call'[c].known \subseteq call[c].known /\ call'[c].pc \in {"idle", "loop"}
         /\ call'[c].todo = todo
         /\ call'[c].pc = "loop" => todo # << >>
         /\ \A d \in Calls \ {c} : call'[d] = call[d]
<1>1. CASE todo = << >>
  <2>1. call' = [call EXCEPT ![c] = IdleCall]
    BY <1>1 DEF Continue
  <2>2. IdleCall \in CallRows
    BY EmptySeq DEF IdleCall, CallRows
  <2>3. call'[c] = IdleCall /\ \A d \in Calls \ {c} : call'[d] = call[d]
    BY <2>1 DEF TypeOK
  <2>4. call' \in [Calls -> CallRows]
    BY <2>1, <2>2 DEF TypeOK
  <2>5. IdleCall.known = {} /\ IdleCall.pc = "idle" /\ IdleCall.todo = << >>
    BY DEF IdleCall
  <2> QED BY <1>1, <2>3, <2>4, <2>5
<1>2. CASE todo # << >>
  <2>1. call' = [call EXCEPT ![c] = [call[c] EXCEPT !.pc = "loop", !.todo = todo, !.ok = FALSE]]
    BY <1>2 DEF Continue
  <2> DEFINE row == [call[c] EXCEPT !.pc = "loop", !.todo = todo, !.ok = FALSE]
  <2>2. row \in CallRows /\ row.known = call[c].known /\ row.pc = "loop" /\ row.todo = todo
    BY CallFacts DEF CallRows
  <2>3. call' = [call EXCEPT ![c] = row]
    BY <2>1
  <2> HIDE DEF row
  <2>4. /\ call' \in [Calls -> CallRows] /\ call'[c] = row
        /\ \A d \in Calls \ {c} : call'[d] = call[d]
    BY <2>2, <2>3 DEF TypeOK
  <2> QED BY <1>2, <2>2, <2>4
<1> QED BY <1>1, <1>2

LEMMA SetFacts ==
  ASSUME TypeOK, NEW f \in Frames, NEW entry, Queued(f) => entry \in Entries, Set(f, entry)
  PROVE  /\ queue' \in [Frames -> Entries \cup {Absent}]
         /\ Queued(f) => queue'[f] = entry
         /\ ~ Queued(f) => queue'[f] = queue[f]
         /\ \A g \in Frames \ {f} : queue'[g] = queue[g]
BY DEF TypeOK, Set, Queued

LEMMA CountedFacts ==
  ASSUME TypeOK, NEW failed \in SUBSET (Frames \cup Edits), answers' = Counted(failed)
  PROVE  /\ answers' \in [Frames \cup Edits -> 0 .. MaxRetries]
         /\ \A x \in Frames \cup Edits :
              /\ answers'[x] >= answers[x]
              /\ x \notin failed => answers'[x] = answers[x]
              /\ x \in failed /\ answers[x] < MaxRetries => answers'[x] = answers[x] + 1
              /\ x \in failed /\ answers[x] >= MaxRetries => answers'[x] = MaxRetries
BY OfflineAssumption DEF TypeOK, Counted

LEMMA AfterFailureFacts ==
  ASSUME NEW n \in 0 .. MaxRetries - 1
  PROVE  /\ AfterFailure(n) \in Entries /\ AfterFailure(n).retries = n + 1
         /\ AfterFailure(n).status \in {"pending", "failed"}
         /\ AfterFailure(n).status = "failed" => n + 1 = MaxRetries
BY OfflineAssumption DEF AfterFailure, Entries, Status

-----------------------------------------------------------------------------
(***************************************************************************)
(* What a step leaves alone                                                *)
(***************************************************************************)
LEMMA EditsUntouched ==
  ASSUME IInv, UNCHANGED <<edits, batch, reloads>>,
         \A e \in Edits : answers'[e] = answers[e]
  PROVE  EditInv'
BY DEF IInv, EditInv, AttemptsCounted, OneBatch, BatchIsRead, EditSyncing

LEMMA FramesUntouched ==
  ASSUME IInv, UNCHANGED <<queue, victims, call, saved, reloads>>,
         \A f \in Frames : answers'[f] = answers[f]
  PROVE  FrameInv'
<1>1. SettledIsSaved' /\ KnownIsSaved' /\ OkIsSaved' /\ RetriesLag' /\ FrameSyncing'
  BY DEF IInv, FrameInv, SettledIsSaved, KnownIsSaved, OkIsSaved, RetriesLag, FrameSyncing, Frame
<1>2. VictimsExpendable'
  BY DEF IInv, TypeOK, FrameInv, VictimsExpendable, Expendable
<1>3. ASSUME NEW c \in Calls, NEW i \in 1 .. Len(call[c].todo)
      PROVE  Read(call[c].todo[i], answers')
  <2>1. call[c].todo[i] \in Items
    BY CallFacts DEF IInv
  <2> QED BY <2>1 DEF IInv, FrameInv, TodoIsRead, Read, Items
<1>4. TodoIsRead'
  BY <1>3 DEF IInv, FrameInv, TodoIsRead
<1> QED BY <1>1, <1>2, <1>4 DEF FrameInv

\* More answers, and more frames saved, keep what was read and planned.
LEMMA ReadKept ==
  ASSUME IInv, \A f \in Frames : answers'[f] \in Nat /\ answers'[f] >= answers[f],
         NEW item \in Items, Read(item, answers)
  PROVE  Read(item, answers')
<1>1. item[1] \in Frames /\ item[2] \in Nat
  BY DEF Items
<1>2. answers[item[1]] \in Nat
  BY <1>1, RowFacts DEF IInv
<1> QED BY <1>1, <1>2 DEF Read

LEMMA ExpendableKept ==
  ASSUME IInv, saved \subseteq saved', UNCHANGED victims,
         \A f \in Frames : answers'[f] \in Nat /\ answers'[f] >= answers[f]
  PROVE  VictimsExpendable'
<1> SUFFICES ASSUME victims # Unplanned, NEW f \in victims PROVE Expendable(f)'
  BY DEF VictimsExpendable
<1>1. f \in Frames /\ Expendable(f)
  BY DEF IInv, TypeOK, FrameInv, VictimsExpendable
<1>2. answers[f] \in Nat /\ answers'[f] \in Nat /\ answers'[f] >= answers[f] /\ MaxRetries \in Nat
  BY <1>1, RowFacts, OfflineAssumption DEF IInv
<1> QED BY <1>1, <1>2 DEF Expendable

\* One flush that moves on keeps what the others know.
LEMMA CallsKept ==
  ASSUME IInv, NEW c \in Calls, \A d \in Calls \ {c} : call'[d] = call[d],
         saved \subseteq saved',
         \A f \in Frames : answers'[f] \in Nat /\ answers'[f] >= answers[f],
         call'[c].known \subseteq saved',
         call'[c].pc = "answered" /\ call'[c].ok => Frame(c)' \in saved',
         call'[c].pc \in InLoop => call'[c].todo # << >>,
         \A i \in 1 .. Len(call'[c].todo) : Read(call'[c].todo[i], answers')
  PROVE  KnownIsSaved' /\ OkIsSaved' /\ TodoIsRead'
<1>1. KnownIsSaved' /\ OkIsSaved'
  BY DEF IInv, FrameInv, KnownIsSaved, OkIsSaved, Frame
<1>2. ASSUME NEW d \in Calls \ {c}, NEW i \in 1 .. Len(call[d].todo) PROVE Read(call[d].todo[i], answers')
  <2>1. call[d].todo[i] \in Items /\ Read(call[d].todo[i], answers)
    BY CallFacts DEF IInv, FrameInv, TodoIsRead
  <2>2. PICK item \in Items : item = call[d].todo[i] /\ Read(item, answers)
    BY <2>1
  <2>3. Read(item, answers')
    BY <2>2, ReadKept
  <2>4. call'[d].todo[i] = item
    BY <2>2
  <2> QED BY <2>2, <2>3, <2>4 DEF Read
<1>3. ASSUME NEW d \in Calls
      PROVE  /\ call'[d].pc \in InLoop => call'[d].todo # << >>
             /\ \A i \in 1 .. Len(call'[d].todo) : Read(call'[d].todo[i], answers')
  <2>1. CASE d = c
    BY <2>1
  <2>2. CASE d # c
    <3>1. call'[d] = call[d]
      BY <2>2
    <3> QED BY <1>2, <2>2, <3>1 DEF IInv, FrameInv, TodoIsRead
  <2> QED BY <2>1, <2>2
<1>4. TodoIsRead'
  BY <1>3 DEF TodoIsRead
<1> QED BY <1>1, <1>4

-----------------------------------------------------------------------------
(***************************************************************************)
(* The steps of the frames                                                 *)
(***************************************************************************)
LEMMA PlanStep == ASSUME IInv, PlanEviction PROVE IInv'
<1>1. UNCHANGED <<queue, edits, call, batch, saved, late, answers, reloads>>
  BY DEF PlanEviction
<1>2. PICK v \in SUBSET {f \in Frames : Queued(f) /\ Rank(f) < 4} : victims' = v
  BY DEF PlanEviction
<1>3. ASSUME NEW f \in v PROVE Expendable(f)
  BY <1>2 DEF Rank, IInv, FrameInv, SettledIsSaved, RetriesLag, Expendable
<1>4. VictimsExpendable' /\ victims' \subseteq Frames
  BY <1>1, <1>2, <1>3 DEF VictimsExpendable, Expendable
<1>5. TypeOK'
  BY <1>1, <1>4 DEF IInv, TypeOK
<1>6. SettledIsSaved' /\ KnownIsSaved' /\ OkIsSaved' /\ TodoIsRead' /\ RetriesLag' /\ FrameSyncing'
  BY <1>1 DEF IInv, FrameInv, SettledIsSaved, KnownIsSaved, OkIsSaved, TodoIsRead, Read,
              RetriesLag, FrameSyncing, Frame
<1> QED BY <1>1, <1>4, <1>5, <1>6, EditsUntouched DEF IInv, FrameInv

LEMMA QueueStep == ASSUME IInv, NEW f \in Frames, QueueFrame(f) PROVE IInv'
<1>1. /\ UNCHANGED <<edits, call, batch, saved, late, answers, reloads>>
      /\ victims' = Unplanned
      /\ queue' = [g \in Frames |-> IF g = f THEN NewEntry
                                    ELSE IF g \in victims THEN Absent ELSE queue[g]]
  BY DEF QueueFrame
<1>2. NewEntry \in Entries
  BY OfflineAssumption DEF NewEntry, Entries, Status
<1>3. TypeOK'
  BY <1>1, <1>2 DEF IInv, TypeOK
<1>4. \A g \in Frames : queue'[g] \in {NewEntry, Absent, queue[g]}
  BY <1>1
<1>5. RetriesLag'
  BY <1>1, <1>4, RowFacts DEF IInv, FrameInv, RetriesLag, NewEntry, Absent
<1>6. SettledIsSaved' /\ FrameSyncing'
  BY <1>1, <1>4 DEF IInv, FrameInv, SettledIsSaved, FrameSyncing, Frame, NewEntry, Absent
<1>7. KnownIsSaved' /\ OkIsSaved' /\ TodoIsRead' /\ VictimsExpendable'
  BY <1>1 DEF IInv, FrameInv, KnownIsSaved, OkIsSaved, TodoIsRead, Read, VictimsExpendable, Frame
<1> QED BY <1>1, <1>3, <1>5, <1>6, <1>7, EditsUntouched DEF IInv, FrameInv

LEMMA LateStep == ASSUME IInv, NEW f \in Frames, ArriveLate(f) PROVE IInv'
<1>1. /\ UNCHANGED <<queue, victims, edits, call, batch, answers, reloads>>
      /\ saved' = saved \cup {f} /\ late' = late \ {f}
  BY DEF ArriveLate
<1>2. TypeOK'
  BY <1>1 DEF IInv, TypeOK
<1>3. SettledIsSaved' /\ KnownIsSaved' /\ OkIsSaved' /\ TodoIsRead' /\ RetriesLag' /\ FrameSyncing'
  BY <1>1 DEF IInv, FrameInv, SettledIsSaved, KnownIsSaved, OkIsSaved, TodoIsRead, Read,
              RetriesLag, FrameSyncing, Frame
<1>4. VictimsExpendable'
  BY <1>1 DEF IInv, FrameInv, VictimsExpendable, Expendable
<1> QED BY <1>1, <1>2, <1>3, <1>4, EditsUntouched DEF IInv, FrameInv

LEMMA FetchStep == ASSUME IInv, NEW c \in Calls, Fetch(c) PROVE IInv'
<1>1. UNCHANGED <<queue, victims, edits, batch, saved, late, answers, reloads>>
        /\ call[c].pc = "idle"
  BY DEF Fetch
<1>2. PICK known \in {{}, Clean \cap saved} :
        call' = [call EXCEPT ![c] = [IdleCall EXCEPT !.pc = "fetched", !.known = known]]
  BY DEF Fetch
<1> DEFINE row == [IdleCall EXCEPT !.pc = "fetched", !.known = known]
<1>3. IdleCall \in CallRows /\ IdleCall.todo = << >>
  BY EmptySeq DEF IdleCall, CallRows
<1>4. known \subseteq saved /\ known \subseteq Frames
  BY <1>2, OfflineAssumption
<1>5. << >> \in Seq(Items) /\ Len(<< >>) = 0
  BY EmptySeq
<1>6. row \in CallRows /\ row.known = known /\ row.pc = "fetched" /\ row.todo = << >>
  BY <1>3, <1>4, <1>5 DEF CallRows
<1>7. call' = [call EXCEPT ![c] = row]
  BY <1>2
<1> HIDE DEF row
<1>8. /\ call' \in [Calls -> CallRows] /\ call'[c] = row
      /\ \A d \in Calls \ {c} : call'[d] = call[d]
  BY <1>6, <1>7 DEF IInv, TypeOK
<1>9. TypeOK'
  BY <1>1, <1>8 DEF IInv, TypeOK
<1>10. \A f \in Frames : answers'[f] \in Nat /\ answers'[f] >= answers[f]
  BY <1>1, RowFacts DEF IInv
<1>11. KnownIsSaved' /\ OkIsSaved' /\ TodoIsRead'
  BY <1>1, <1>4, <1>5, <1>6, <1>8, <1>10, CallsKept DEF InLoop
<1>12. SettledIsSaved' /\ RetriesLag'
  BY <1>1 DEF IInv, FrameInv, SettledIsSaved, RetriesLag
<1>13. VictimsExpendable'
  BY <1>1, <1>10, ExpendableKept
<1>14. FrameSyncing'
  BY <1>1, <1>8 DEF IInv, FrameInv, FrameSyncing, Frame
<1> QED BY <1>1, <1>9, <1>11, <1>12, <1>13, <1>14, EditsUntouched DEF IInv, FrameInv

\* A flush that goes on with its loop, with no change to the entries.
LEMMA SelectStep == ASSUME IInv, NEW c \in Calls, Select(c) PROVE IInv'
<1>1. UNCHANGED <<queue, victims, edits, batch, saved, late, answers, reloads>>
        /\ call[c].pc = "fetched"
  BY DEF Select
<1> DEFINE ready == {f \in Frames : ReadyForRetry(queue[f])}
<1>2. PICK todo \in [1 .. Cardinality(ready) -> Items] :
        /\ {todo[i][1] : i \in DOMAIN todo} = ready
        /\ \A i \in DOMAIN todo : todo[i][2] = queue[todo[i][1]].retries
        /\ call' = Continue(c, todo)
  BY DEF Select
<1>3. Cardinality(ready) \in Nat
  BY FS_Subset, FS_CardinalityType, OfflineAssumption
<1>4. todo \in Seq(Items) /\ DOMAIN todo = 1 .. Len(todo)
  <2>1. todo \in Seq(Items)
    BY <1>3, SeqDef
  <2> QED BY <2>1, LenProperties
<1>5. ASSUME NEW i \in 1 .. Len(todo) PROVE Read(todo[i], answers')
  <2>1. todo[i] \in Items /\ todo[i][1] \in ready /\ todo[i][2] = queue[todo[i][1]].retries
    BY <1>2, <1>4
  <2>2. todo[i][2] < MaxRetries /\ todo[i][2] <= answers[todo[i][1]]
    BY <2>1 DEF ReadyForRetry, IInv, FrameInv, RetriesLag
  <2> QED BY <1>1, <2>2 DEF Read
<1>6. /\ call' \in [Calls -> CallRows]
      /\ call'[c].known \subseteq call[c].known /\ call'[c].pc \in {"idle", "loop"}
      /\ call'[c].todo = todo /\ (call'[c].pc = "loop" => todo # << >>)
      /\ \A d \in Calls \ {c} : call'[d] = call[d]
  BY <1>2, <1>4, ContinueFacts DEF IInv
<1>7. TypeOK'
  BY <1>1, <1>6 DEF IInv, TypeOK
<1>8. \A f \in Frames : answers'[f] \in Nat /\ answers'[f] >= answers[f]
  BY <1>1, RowFacts DEF IInv
<1>9. /\ call'[c].known \subseteq saved'
      /\ \A i \in 1 .. Len(call'[c].todo) : Read(call'[c].todo[i], answers')
  BY <1>1, <1>5, <1>6 DEF IInv, FrameInv, KnownIsSaved
<1>10. KnownIsSaved' /\ OkIsSaved' /\ TodoIsRead'
  BY <1>1, <1>6, <1>8, <1>9, CallsKept DEF InLoop
<1>11. SettledIsSaved' /\ RetriesLag'
  BY <1>1 DEF IInv, FrameInv, SettledIsSaved, RetriesLag
<1>12. VictimsExpendable'
  BY <1>1, <1>8, ExpendableKept
<1>13. FrameSyncing'
  BY <1>1, <1>6 DEF IInv, FrameInv, FrameSyncing, Frame
<1> QED BY <1>1, <1>7, <1>10, <1>11, <1>12, <1>13, EditsUntouched DEF IInv, FrameInv

\* What is left to show of a step that settles or marks entry f for flush c.
LEMMA EntryKept ==
  ASSUME IInv, NEW c \in Calls, NEW f \in Frames, NEW entry, UNCHANGED <<saved, reloads>>,
         Queued(f) => entry \in Entries, Set(f, entry),
         \A g \in Frames : answers'[g] \in Nat /\ answers'[g] >= answers[g],
         Queued(f) => /\ entry.retries <= answers'[f]
                      /\ entry.status = "failed" => answers'[f] >= MaxRetries
                      /\ entry.status \in {"resolved", "duplicate_checksum"} => f \in saved
  PROVE  SettledIsSaved' /\ RetriesLag'
<1>1. /\ Queued(f) => queue'[f] = entry
      /\ ~ Queued(f) => queue'[f] = queue[f]
      /\ \A g \in Frames \ {f} : queue'[g] = queue[g]
  BY SetFacts DEF IInv
<1>2. ASSUME NEW g \in Frames
      PROVE  /\ queue'[g].retries <= answers'[g]
             /\ queue'[g].status = "failed" => answers'[g] >= MaxRetries
             /\ queue'[g].status \in {"resolved", "duplicate_checksum"} => g \in saved
  <2>1. CASE g = f /\ Queued(f)
    BY <1>1, <2>1
  <2>2. CASE ~ (g = f /\ Queued(f))
    <3>1. queue'[g] = queue[g]
      BY <1>1, <2>2
    <3>2. /\ queue[g].retries <= answers[g]
          /\ queue[g].status = "failed" => answers[g] >= MaxRetries
          /\ queue[g].status \in {"resolved", "duplicate_checksum"} => g \in saved
      BY DEF IInv, FrameInv, RetriesLag, SettledIsSaved
    <3>3. queue[g].retries \in Nat /\ answers[g] \in Nat /\ MaxRetries \in Nat
      BY RowFacts, OfflineAssumption DEF IInv
    <3> QED BY <3>1, <3>2, <3>3
  <2> QED BY <2>1, <2>2
<1> QED BY <1>2 DEF SettledIsSaved, RetriesLag

LEMMA DuplicateStep == ASSUME IInv, NEW c \in Calls, Duplicate(c) PROVE IInv'
<1>1. UNCHANGED <<victims, edits, batch, saved, late, answers, reloads>> /\ call[c].pc = "loop"
  BY DEF Duplicate
<1>2. PICK f \in Frames : f = Frame(c)
  BY <1>1, HeadFacts DEF IInv, FrameInv, InLoop
<1> DEFINE entry == [queue[f] EXCEPT !.status = "duplicate_checksum"]
           todo == Tail(call[c].todo)
<1>3. f \in saved /\ Set(f, entry) /\ call' = Continue(c, todo)
  BY <1>2 DEF Duplicate, IInv, FrameInv, KnownIsSaved
<1>4. todo \in Seq(Items) /\ \A i \in 1 .. Len(todo) : Read(todo[i], answers)
  BY <1>1, HeadFacts DEF IInv, FrameInv, InLoop
<1>5. Queued(f) => /\ entry \in Entries /\ entry.status = "duplicate_checksum"
                   /\ entry.retries = queue[f].retries
  BY RowFacts DEF IInv, Entries, Status
<1> HIDE DEF entry, todo
<1>6. /\ call' \in [Calls -> CallRows]
      /\ call'[c].known \subseteq call[c].known /\ call'[c].pc \in {"idle", "loop"}
      /\ call'[c].todo = todo /\ (call'[c].pc = "loop" => todo # << >>)
      /\ \A d \in Calls \ {c} : call'[d] = call[d]
  BY <1>3, <1>4, ContinueFacts DEF IInv
<1>7. /\ queue' \in [Frames -> Entries \cup {Absent}]
      /\ Queued(f) => queue'[f] = entry
      /\ ~ Queued(f) => queue'[f] = queue[f]
      /\ \A g \in Frames \ {f} : queue'[g] = queue[g]
  BY <1>3, <1>5, SetFacts DEF IInv
<1>8. TypeOK'
  BY <1>1, <1>6, <1>7 DEF IInv, TypeOK
<1>9. \A g \in Frames : answers'[g] \in Nat /\ answers'[g] >= answers[g]
  BY <1>1, RowFacts DEF IInv
<1>10. SettledIsSaved' /\ RetriesLag'
  BY <1>1, <1>3, <1>5, <1>9, EntryKept DEF IInv, FrameInv, RetriesLag
<1>11. KnownIsSaved' /\ OkIsSaved' /\ TodoIsRead'
  <2>1. /\ call'[c].known \subseteq saved'
        /\ \A i \in 1 .. Len(call'[c].todo) : Read(call'[c].todo[i], answers')
    BY <1>1, <1>4, <1>6 DEF IInv, FrameInv, KnownIsSaved
  <2> QED BY <1>1, <1>6, <1>9, <2>1, CallsKept DEF InLoop
<1>12. VictimsExpendable'
  BY <1>1, <1>9, ExpendableKept
<1>13. FrameSyncing'
  <2> SUFFICES ASSUME reloads' = 0, NEW g \in Frames, queue'[g].status = "syncing"
               PROVE  \E d \in Calls : call'[d].pc \in {"posting", "answered"} /\ Frame(d)' = g
    BY DEF FrameSyncing
  <2>1. queue[g].status = "syncing"
    BY <1>5, <1>7
  <2>2. PICK d \in Calls : call[d].pc \in {"posting", "answered"} /\ Frame(d) = g
    BY <1>1, <2>1 DEF IInv, FrameInv, FrameSyncing
  <2> QED BY <1>1, <1>6, <2>2 DEF Frame
<1> QED BY <1>1, <1>8, <1>10, <1>11, <1>12, <1>13, EditsUntouched DEF IInv, FrameInv

LEMMA MarkStep == ASSUME IInv, NEW c \in Calls, Mark(c) PROVE IInv'
<1>1. UNCHANGED <<victims, edits, batch, saved, late, answers, reloads>> /\ call[c].pc = "loop"
        /\ call' = [call EXCEPT ![c].pc = "posting"]
  BY DEF Mark
<1>2. PICK f \in Frames : f = Frame(c)
  BY <1>1, HeadFacts DEF IInv, FrameInv, InLoop
<1> DEFINE entry == [queue[f] EXCEPT !.status = "syncing"]
<1>3. Set(f, entry)
  BY <1>2 DEF Mark
<1>4. Queued(f) => /\ entry \in Entries /\ entry.status = "syncing"
                   /\ entry.retries = queue[f].retries
  BY RowFacts DEF IInv, Entries, Status
<1> HIDE DEF entry
<1>5. /\ call' \in [Calls -> CallRows] /\ call'[c].pc = "posting"
      /\ call'[c].known = call[c].known /\ call'[c].todo = call[c].todo
      /\ \A d \in Calls \ {c} : call'[d] = call[d]
  BY <1>1 DEF IInv, TypeOK, CallRows
<1>6. /\ queue' \in [Frames -> Entries \cup {Absent}]
      /\ \A g \in Frames \ {f} : queue'[g] = queue[g]
  BY <1>3, <1>4, SetFacts DEF IInv
<1>7. TypeOK'
  BY <1>1, <1>5, <1>6 DEF IInv, TypeOK
<1>8. \A g \in Frames : answers'[g] \in Nat /\ answers'[g] >= answers[g]
  BY <1>1, RowFacts DEF IInv
<1>9. SettledIsSaved' /\ RetriesLag'
  BY <1>1, <1>3, <1>4, <1>8, EntryKept DEF IInv, FrameInv, RetriesLag
<1>10. KnownIsSaved' /\ OkIsSaved' /\ TodoIsRead'
  <2>1. /\ call'[c].known \subseteq saved' /\ call'[c].todo # << >>
        /\ \A i \in 1 .. Len(call'[c].todo) : Read(call'[c].todo[i], answers')
    BY <1>1, <1>5 DEF IInv, FrameInv, KnownIsSaved, TodoIsRead, InLoop
  <2> QED BY <1>1, <1>5, <1>8, <2>1, CallsKept
<1>11. VictimsExpendable'
  BY <1>1, <1>8, ExpendableKept
<1>12. FrameSyncing'
  <2> SUFFICES ASSUME reloads' = 0, NEW g \in Frames, queue'[g].status = "syncing"
               PROVE  \E d \in Calls : call'[d].pc \in {"posting", "answered"} /\ Frame(d)' = g
    BY DEF FrameSyncing
  <2>1. CASE g = f
    BY <1>2, <1>5, <2>1 DEF Frame
  <2>2. CASE g # f
    <3>1. PICK d \in Calls : call[d].pc \in {"posting", "answered"} /\ Frame(d) = g
      BY <1>1, <1>6, <2>2 DEF IInv, FrameInv, FrameSyncing
    <3> QED BY <1>1, <1>5, <3>1 DEF Frame
  <2> QED BY <2>1, <2>2
<1> QED BY <1>1, <1>7, <1>9, <1>10, <1>11, <1>12, EditsUntouched DEF IInv, FrameInv

LEMMA PostStep == ASSUME IInv, NEW c \in Calls, Post(c) PROVE IInv'
<1>1. UNCHANGED <<queue, victims, edits, batch, answers, reloads>> /\ call[c].pc = "posting"
  BY DEF Post
<1>2. PICK f \in Frames : f = Frame(c)
  BY <1>1, HeadFacts DEF IInv, FrameInv, InLoop
<1>3. PICK b \in BOOLEAN :
        /\ call' = [call EXCEPT ![c].pc = "answered", ![c].ok = b]
        /\ saved' = IF b THEN saved \cup {f} ELSE saved
        /\ late' \subseteq late \cup {f}
  BY <1>2 DEF Post
<1>4. /\ call' \in [Calls -> CallRows] /\ call'[c].pc = "answered" /\ call'[c].ok = b
      /\ call'[c].known = call[c].known /\ call'[c].todo = call[c].todo
      /\ \A d \in Calls \ {c} : call'[d] = call[d]
  BY <1>3 DEF IInv, TypeOK, CallRows
<1>5. TypeOK'
  BY <1>1, <1>3, <1>4 DEF IInv, TypeOK
<1>6. \A g \in Frames : answers'[g] \in Nat /\ answers'[g] >= answers[g]
  BY <1>1, RowFacts DEF IInv
<1>7. saved \subseteq saved'
  BY <1>3
<1>8. SettledIsSaved' /\ RetriesLag'
  BY <1>1, <1>7 DEF IInv, FrameInv, SettledIsSaved, RetriesLag
<1>9. KnownIsSaved' /\ OkIsSaved' /\ TodoIsRead'
  <2>1. /\ call'[c].known \subseteq saved' /\ call'[c].todo # << >>
        /\ \A i \in 1 .. Len(call'[c].todo) : Read(call'[c].todo[i], answers')
    BY <1>1, <1>4, <1>7 DEF IInv, FrameInv, KnownIsSaved, TodoIsRead, InLoop
  <2>2. Frame(c)' = f
    BY <1>2, <1>4 DEF Frame
  <2>3. call'[c].ok => Frame(c)' \in saved'
    BY <1>3, <1>4, <2>2
  <2> QED BY <1>4, <1>6, <1>7, <2>1, <2>3, CallsKept
<1>10. VictimsExpendable'
  BY <1>1, <1>6, <1>7, ExpendableKept
<1>11. FrameSyncing'
  BY <1>1, <1>4 DEF IInv, FrameInv, FrameSyncing, Frame
<1> QED BY <1>1, <1>5, <1>8, <1>9, <1>10, <1>11, EditsUntouched DEF IInv, FrameInv

LEMMA AnswerStep == ASSUME IInv, NEW c \in Calls, Answer(c) PROVE IInv'
<1>1. UNCHANGED <<victims, edits, batch, saved, late, reloads>> /\ call[c].pc = "answered"
  BY DEF Answer
<1>2. PICK f \in Frames : f = Frame(c)
  BY <1>1, HeadFacts DEF IInv, FrameInv, InLoop
<1> DEFINE todo == Tail(call[c].todo)
           entry == Settled(c)
<1>3. /\ Set(f, entry) /\ call' = Continue(c, todo)
      /\ answers' = IF call[c].ok THEN answers ELSE Counted({f})
  BY <1>2 DEF Answer
<1>4. todo \in Seq(Items) /\ Retries(c) \in 0 .. MaxRetries - 1 /\ Retries(c) <= answers[f]
        /\ \A i \in 1 .. Len(todo) : Read(todo[i], answers)
  BY <1>1, <1>2, HeadFacts DEF IInv, FrameInv, InLoop
<1>5. /\ answers' \in [Frames \cup Edits -> 0 .. MaxRetries]
      /\ \A x \in Frames \cup Edits : answers'[x] >= answers[x]
      /\ \A x \in (Frames \cup Edits) \ {f} : answers'[x] = answers[x]
      /\ ~ call[c].ok => answers'[f] >= Retries(c) + 1
  <2>1. CASE call[c].ok
    <3>1. answers' = answers
      BY <1>3, <2>1
    <3>2. answers \in [Frames \cup Edits -> 0 .. MaxRetries]
      BY DEF IInv, TypeOK
    <3> QED BY <2>1, <3>1, <3>2, OfflineAssumption
  <2>2. CASE ~ call[c].ok
    <3>1. answers' = Counted({f}) /\ {f} \in SUBSET (Frames \cup Edits)
      BY <1>3, <2>2
    <3>2. /\ answers' \in [Frames \cup Edits -> 0 .. MaxRetries]
          /\ \A x \in Frames \cup Edits :
               /\ answers'[x] >= answers[x]
               /\ x \notin {f} => answers'[x] = answers[x]
               /\ x \in {f} /\ answers[x] < MaxRetries => answers'[x] = answers[x] + 1
               /\ x \in {f} /\ answers[x] >= MaxRetries => answers'[x] = MaxRetries
      BY <3>1, CountedFacts DEF IInv
    <3>3. answers[f] \in 0 .. MaxRetries /\ MaxRetries \in Nat
      BY RowFacts, OfflineAssumption DEF IInv
    <3>4. answers'[f] >= Retries(c) + 1
      BY <1>4, <3>2, <3>3
    <3> QED BY <3>2, <3>4
  <2> QED BY <2>1, <2>2
<1>6. Queued(f) => /\ entry \in Entries /\ entry.retries <= answers'[f]
                   /\ entry.status \in {"resolved", "pending", "failed"}
                   /\ entry.status = "failed" => answers'[f] >= MaxRetries
                   /\ entry.status = "resolved" => f \in saved
  <2> SUFFICES ASSUME Queued(f)
               PROVE  /\ entry \in Entries /\ entry.retries <= answers'[f]
                      /\ entry.status \in {"resolved", "pending", "failed"}
                      /\ entry.status = "failed" => answers'[f] >= MaxRetries
                      /\ entry.status = "resolved" => f \in saved
    OBVIOUS
  <2>1. CASE call[c].ok
    <3>1. f \in saved
      BY <1>1, <1>2, <2>1 DEF IInv, FrameInv, OkIsSaved
    <3>2. entry = [queue[f] EXCEPT !.status = "resolved"]
      BY <1>2, <2>1 DEF Settled
    <3>3. entry \in Entries /\ entry.status = "resolved" /\ entry.retries = queue[f].retries
      BY <3>2, RowFacts DEF IInv, Entries, Status
    <3>4. queue[f].retries <= answers'[f]
      BY <1>3, <2>1 DEF IInv, FrameInv, RetriesLag
    <3> QED BY <3>1, <3>3, <3>4
  <2>2. CASE ~ call[c].ok
    <3>1. entry = AfterFailure(Retries(c))
      BY <2>2 DEF Settled
    <3> QED BY <1>4, <1>5, <2>2, <3>1, AfterFailureFacts
  <2> QED BY <2>1, <2>2
<1> HIDE DEF entry, todo
<1>7. /\ call' \in [Calls -> CallRows]
      /\ call'[c].known \subseteq call[c].known /\ call'[c].pc \in {"idle", "loop"}
      /\ call'[c].todo = todo /\ (call'[c].pc = "loop" => todo # << >>)
      /\ \A d \in Calls \ {c} : call'[d] = call[d]
  BY <1>3, <1>4, ContinueFacts DEF IInv
<1>8. /\ queue' \in [Frames -> Entries \cup {Absent}]
      /\ Queued(f) => queue'[f] = entry
      /\ ~ Queued(f) => queue'[f] = queue[f] /\ queue[f] = Absent
      /\ \A g \in Frames \ {f} : queue'[g] = queue[g]
  BY <1>3, <1>6, SetFacts DEF IInv, Queued
<1>9. TypeOK'
  BY <1>1, <1>5, <1>7, <1>8 DEF IInv, TypeOK
<1>10. \A g \in Frames : answers'[g] \in Nat /\ answers'[g] >= answers[g]
  BY <1>5, OfflineAssumption
<1>11. SettledIsSaved' /\ RetriesLag'
  BY <1>1, <1>3, <1>6, <1>10, EntryKept
<1>12. KnownIsSaved' /\ OkIsSaved' /\ TodoIsRead'
  <2>1. ASSUME NEW i \in 1 .. Len(todo) PROVE Read(todo[i], answers')
    <3>1. todo[i] \in Items /\ Read(todo[i], answers)
      BY <1>4
    <3> QED BY <1>10, <3>1, ReadKept
  <2>2. /\ call'[c].known \subseteq saved'
        /\ \A i \in 1 .. Len(call'[c].todo) : Read(call'[c].todo[i], answers')
    BY <1>1, <1>7, <2>1 DEF IInv, FrameInv, KnownIsSaved
  <2> QED BY <1>1, <1>7, <1>10, <2>2, CallsKept DEF InLoop
<1>13. VictimsExpendable'
  BY <1>1, <1>10, ExpendableKept
<1>14. FrameSyncing'
  <2> SUFFICES ASSUME reloads' = 0, NEW g \in Frames, queue'[g].status = "syncing"
               PROVE  \E d \in Calls : call'[d].pc \in {"posting", "answered"} /\ Frame(d)' = g
    BY DEF FrameSyncing
  <2>1. g # f
    BY <1>6, <1>8 DEF Absent
  <2>2. PICK d \in Calls : call[d].pc \in {"posting", "answered"} /\ Frame(d) = g
    BY <1>1, <1>8, <2>1 DEF IInv, FrameInv, FrameSyncing
  <2> QED BY <1>2, <1>7, <2>1, <2>2 DEF Frame
<1>15. \A e \in Edits : answers'[e] = answers[e]
  BY <1>5, OfflineAssumption
<1> QED BY <1>1, <1>9, <1>11, <1>12, <1>13, <1>14, <1>15, EditsUntouched DEF IInv, FrameInv

-----------------------------------------------------------------------------
(***************************************************************************)
(* The steps of the edits                                                  *)
(***************************************************************************)
LEMMA QueueEditStep == ASSUME IInv, NEW e \in Edits, QueueEdit(e) PROVE IInv'
<1>1. /\ UNCHANGED <<queue, victims, call, batch, saved, late, answers, reloads>>
      /\ edits[e] = Absent /\ edits' = [edits EXCEPT ![e] = NewEntry]
  BY DEF QueueEdit
<1>2. NewEntry \in Entries
  BY OfflineAssumption DEF NewEntry, Entries, Status
<1>3. TypeOK'
  BY <1>1, <1>2 DEF IInv, TypeOK
<1>4. \A d \in Edits : /\ edits'[d].retries = edits[d].retries
                       /\ edits'[d].status = "syncing" => edits[d].status = "syncing"
  BY <1>1 DEF IInv, TypeOK, NewEntry, Absent
<1>5. ASSUME NEW c \in Calls, NEW d \in DOMAIN batch[c] PROVE d \in Edits
  BY DEF IInv, TypeOK, Batches
<1>6. \A d \in Edits \ {e} : edits'[d] = edits[d]
  BY <1>1 DEF IInv, TypeOK
<1>7. ASSUME NEW c \in Calls, NEW d \in DOMAIN batch[c] PROVE d # e
  BY <1>1 DEF IInv, EditInv, BatchIsRead, Absent
<1>8. BatchIsRead'
  BY <1>1, <1>5, <1>6, <1>7 DEF IInv, EditInv, BatchIsRead
<1>9. AttemptsCounted' /\ OneBatch' /\ EditSyncing'
  BY <1>1, <1>4 DEF IInv, EditInv, AttemptsCounted, OneBatch, EditSyncing
<1> QED BY <1>1, <1>3, <1>8, <1>9, FramesUntouched DEF IInv, EditInv

LEMMA SendStep == ASSUME IInv, NEW c \in Calls, SendEdits(c) PROVE IInv'
<1> DEFINE read == [e \in ReadyEdits |-> edits[e].retries]
<1>1. /\ UNCHANGED <<queue, victims, call, saved, late, answers, reloads>>
      /\ \A d \in Calls : batch[d] = NoBatch
      /\ batch' = [batch EXCEPT ![c] = read]
      /\ edits' = [e \in Edits |-> IF e \in ReadyEdits THEN [edits[e] EXCEPT !.status = "syncing"]
                                   ELSE edits[e]]
  BY DEF SendEdits, Sends
<1>2. \A e \in ReadyEdits : /\ e \in Edits /\ edits[e] \in Entries
                            /\ edits[e].retries < MaxRetries
  BY EditFacts DEF IInv, ReadyEdits, ReadyForRetry, Absent
<1>3. ReadyEdits \in SUBSET Edits
  BY <1>2
<1>4. read \in [ReadyEdits -> 0 .. MaxRetries]
  BY <1>2, EditFacts DEF IInv
<1>5. read \in Batches
  BY <1>3, <1>4 DEF Batches
<1>6. DOMAIN read = ReadyEdits /\ \A e \in ReadyEdits : read[e] = edits[e].retries
  OBVIOUS
<1> HIDE DEF read
<1>7. /\ batch' \in [Calls -> Batches] /\ batch'[c] = read
      /\ \A d \in Calls \ {c} : batch'[d] = NoBatch
  BY <1>1, <1>5 DEF IInv, TypeOK
<1>8. /\ edits' \in [Edits -> Entries \cup {Absent}]
      /\ \A e \in Edits : /\ edits'[e].retries = edits[e].retries
                          /\ e \notin ReadyEdits => edits'[e] = edits[e]
  <2>1. ASSUME NEW e \in ReadyEdits
        PROVE  /\ [edits[e] EXCEPT !.status = "syncing"] \in Entries
               /\ [edits[e] EXCEPT !.status = "syncing"].retries = edits[e].retries
    BY <1>2 DEF Entries, Status
  <2> QED BY <1>1, <2>1 DEF IInv, TypeOK
<1>9. TypeOK'
  BY <1>1, <1>7, <1>8 DEF IInv, TypeOK
<1>10. AttemptsCounted'
  BY <1>1, <1>8 DEF IInv, EditInv, AttemptsCounted
<1>11. OneBatch'
  BY <1>7 DEF OneBatch
<1>12. BatchIsRead'
  <2>1. DOMAIN NoBatch = {}
    BY DEF NoBatch
  <2>2. \A e \in ReadyEdits : edits'[e].status = "syncing"
    BY <1>1, <1>2 DEF Entries
  <2> QED BY <1>2, <1>6, <1>7, <1>8, <2>1, <2>2 DEF BatchIsRead
<1>13. EditSyncing'
  <2> SUFFICES ASSUME reloads' = 0, NEW e \in Edits, edits'[e].status = "syncing"
               PROVE  \E d \in Calls : e \in DOMAIN batch'[d]
    BY DEF EditSyncing
  <2>1. DOMAIN NoBatch = {}
    BY DEF NoBatch
  <2>2. e \in ReadyEdits
    BY <1>1, <1>8, <2>1 DEF IInv, EditInv, EditSyncing
  <2> QED BY <1>6, <1>7, <2>2
<1> QED BY <1>1, <1>9, <1>10, <1>11, <1>12, <1>13, FramesUntouched DEF IInv, EditInv

LEMMA RefusedStep == ASSUME IInv, NEW c \in Calls, EditsRefused(c) PROVE IInv'
<1>1. /\ UNCHANGED <<queue, victims, call, saved, late, reloads>> /\ batch[c] # NoBatch
      /\ edits' = [e \in Edits |-> IF e \in DOMAIN batch[c] THEN AfterFailure(batch[c][e])
                                   ELSE edits[e]]
      /\ answers' = Counted(DOMAIN batch[c])
      /\ batch' = [batch EXCEPT ![c] = NoBatch]
  BY DEF EditsRefused
<1>2. /\ DOMAIN batch[c] \subseteq Edits
      /\ \A e \in DOMAIN batch[c] : /\ batch[c][e] \in 0 .. MaxRetries - 1
                                    /\ batch[c][e] = answers[e]
  <2>1. DOMAIN batch[c] \subseteq Edits /\ \A e \in DOMAIN batch[c] : batch[c][e] \in 0 .. MaxRetries
    BY DEF IInv, TypeOK, Batches
  <2> QED BY <2>1, OfflineAssumption DEF IInv, EditInv, BatchIsRead, AttemptsCounted
<1>3. /\ answers' \in [Frames \cup Edits -> 0 .. MaxRetries]
      /\ \A x \in Frames \cup Edits :
           /\ x \notin DOMAIN batch[c] => answers'[x] = answers[x]
           /\ x \in DOMAIN batch[c] /\ answers[x] < MaxRetries => answers'[x] = answers[x] + 1
  BY <1>1, <1>2, CountedFacts DEF IInv
<1>4. \A f \in Frames : answers'[f] = answers[f]
  BY <1>2, <1>3, OfflineAssumption
<1>5. NoBatch \in Batches /\ DOMAIN NoBatch = {}
  BY DEF NoBatch, Batches
<1>6. /\ batch' \in [Calls -> Batches] /\ batch'[c] = NoBatch
      /\ \A d \in Calls \ {c} : batch'[d] = batch[d] /\ batch[d] = NoBatch
  BY <1>1, <1>5 DEF IInv, TypeOK, EditInv, OneBatch
<1>7. \A e \in DOMAIN batch[c] :
        /\ AfterFailure(batch[c][e]) \in Entries
        /\ AfterFailure(batch[c][e]).retries = answers'[e]
        /\ AfterFailure(batch[c][e]).status # "syncing"
  <2> SUFFICES ASSUME NEW e \in DOMAIN batch[c]
               PROVE  /\ AfterFailure(batch[c][e]) \in Entries
                      /\ AfterFailure(batch[c][e]).retries = answers'[e]
                      /\ AfterFailure(batch[c][e]).status # "syncing"
    OBVIOUS
  <2>1. PICK n \in 0 .. MaxRetries - 1 : n = batch[c][e]
    BY <1>2
  <2>2. e \in Frames \cup Edits /\ answers[e] = n /\ n < MaxRetries
    BY <1>2, <2>1, OfflineAssumption
  <2>3. answers'[e] = n + 1
    BY <1>3, <2>2
  <2> QED BY <2>1, <2>3, AfterFailureFacts
<1>8. edits' \in [Edits -> Entries \cup {Absent}]
  BY <1>1, <1>7 DEF IInv, TypeOK
<1>9. TypeOK'
  BY <1>1, <1>3, <1>6, <1>8 DEF IInv, TypeOK
<1>10. AttemptsCounted'
  BY <1>1, <1>3, <1>7 DEF IInv, EditInv, AttemptsCounted
<1>11. OneBatch' /\ BatchIsRead'
  BY <1>5, <1>6 DEF OneBatch, BatchIsRead
<1>12. EditSyncing'
  <2> SUFFICES ASSUME reloads' = 0, NEW e \in Edits, edits'[e].status = "syncing" PROVE FALSE
    BY DEF EditSyncing
  <2>1. e \notin DOMAIN batch[c] /\ edits[e].status = "syncing"
    BY <1>1, <1>7
  <2>2. PICK d \in Calls : e \in DOMAIN batch[d]
    BY <1>1, <2>1 DEF IInv, EditInv, EditSyncing
  <2> QED BY <1>5, <1>6, <2>1, <2>2
<1> QED BY <1>1, <1>4, <1>9, <1>10, <1>11, <1>12, FramesUntouched DEF IInv, EditInv

\* What is in a batch is marked as being sent, so none of it is taken up again.
LEMMA RetryStep == ASSUME IInv, RetryFailed PROVE IInv'
<1> DEFINE failed == {e \in Edits : edits[e].status = "failed"}
<1>1. /\ UNCHANGED <<queue, victims, call, batch, saved, late, reloads>>
      /\ edits' = [e \in Edits |-> IF e \in failed THEN NewEntry ELSE edits[e]]
      /\ answers' = [x \in DOMAIN answers |-> IF x \in failed THEN 0 ELSE answers[x]]
  BY DEF RetryFailed
<1>2. /\ NewEntry \in Entries /\ NewEntry.retries = 0 /\ NewEntry.status # "syncing"
      /\ 0 \in 0 .. MaxRetries
  BY OfflineAssumption DEF NewEntry, Entries, Status
<1>3. /\ edits' \in [Edits -> Entries \cup {Absent}]
      /\ \A e \in failed : edits'[e] = NewEntry /\ answers'[e] = 0
      /\ \A e \in Edits \ failed : edits'[e] = edits[e] /\ answers'[e] = answers[e]
  BY <1>1, <1>2 DEF IInv, TypeOK
<1>4. answers' \in [Frames \cup Edits -> 0 .. MaxRetries]
  BY <1>1, <1>2 DEF IInv, TypeOK
<1>5. \A f \in Frames : answers'[f] = answers[f]
  BY <1>1, OfflineAssumption DEF IInv, TypeOK
<1>6. TypeOK'
  BY <1>1, <1>3, <1>4 DEF IInv, TypeOK
<1>7. ASSUME NEW c \in Calls, NEW e \in DOMAIN batch[c] PROVE e \in Edits \ failed
  BY DEF IInv, TypeOK, Batches, EditInv, BatchIsRead
<1>8. AttemptsCounted'
  BY <1>2, <1>3 DEF IInv, EditInv, AttemptsCounted
<1>9. OneBatch' /\ BatchIsRead'
  BY <1>1, <1>3, <1>7 DEF IInv, EditInv, OneBatch, BatchIsRead
<1>10. EditSyncing'
  BY <1>1, <1>2, <1>3 DEF IInv, EditInv, EditSyncing
<1> QED BY <1>1, <1>5, <1>6, <1>8, <1>9, <1>10, FramesUntouched DEF IInv, EditInv

\* After a reload nothing is under way, and entries may stay marked.
LEMMA ReloadStep == ASSUME IInv, Reload PROVE IInv'
<1>1. /\ UNCHANGED <<queue, edits, saved, answers>>
      /\ reloads' = reloads + 1 /\ reloads < MaxReloads /\ victims' = Unplanned
      /\ call' = [c \in Calls |-> IdleCall] /\ batch' = [c \in Calls |-> NoBatch]
  BY DEF Reload
<1>2. late' \subseteq Frames
  <2>1. \A c \in Calls : call[c].pc = "posting" => Frame(c) \in Frames
    BY HeadFacts DEF IInv, FrameInv, InLoop
  <2>2. {Frame(c) : c \in {d \in Calls : call[d].pc = "posting"}} \subseteq Frames
    BY <2>1
  <2>3. late \subseteq Frames
    BY DEF IInv, TypeOK
  <2> QED BY <2>2, <2>3 DEF Reload
<1>3. IdleCall \in CallRows /\ IdleCall.known = {} /\ IdleCall.pc = "idle"
        /\ IdleCall.todo = << >> /\ Len(<< >>) = 0
  BY EmptySeq DEF IdleCall, CallRows
<1>4. NoBatch \in Batches /\ DOMAIN NoBatch = {}
  BY DEF NoBatch, Batches
<1>5. reloads' \in 0 .. MaxReloads /\ reloads' # 0
  BY <1>1, OfflineAssumption DEF IInv, TypeOK
<1>6. TypeOK'
  BY <1>1, <1>2, <1>3, <1>4, <1>5 DEF IInv, TypeOK
<1>7. SettledIsSaved' /\ RetriesLag' /\ AttemptsCounted'
  BY <1>1 DEF IInv, FrameInv, EditInv, SettledIsSaved, RetriesLag, AttemptsCounted
<1>8. KnownIsSaved' /\ OkIsSaved' /\ TodoIsRead'
  BY <1>1, <1>3 DEF KnownIsSaved, OkIsSaved, TodoIsRead, InLoop
<1>9. VictimsExpendable' /\ FrameSyncing' /\ EditSyncing'
  BY <1>1, <1>5 DEF VictimsExpendable, FrameSyncing, EditSyncing
<1>10. OneBatch' /\ BatchIsRead'
  BY <1>1, <1>4 DEF OneBatch, BatchIsRead
<1> QED BY <1>6, <1>7, <1>8, <1>9, <1>10 DEF IInv, FrameInv, EditInv

-----------------------------------------------------------------------------
(***************************************************************************)
(* The theorems                                                            *)
(***************************************************************************)
LEMMA InitInv == Init => IInv
<1> SUFFICES ASSUME Init PROVE IInv
  OBVIOUS
<1>1. IdleCall \in CallRows /\ IdleCall.known = {} /\ IdleCall.pc = "idle"
        /\ IdleCall.todo = << >> /\ Len(<< >>) = 0
  BY EmptySeq DEF IdleCall, CallRows
<1>2. NoBatch \in Batches /\ DOMAIN NoBatch = {}
  BY DEF NoBatch, Batches
<1>3. TypeOK
  BY <1>1, <1>2, OfflineAssumption DEF Init, TypeOK
<1>4. SettledIsSaved /\ RetriesLag /\ AttemptsCounted /\ FrameSyncing /\ EditSyncing
  BY DEF Init, SettledIsSaved, RetriesLag, AttemptsCounted, FrameSyncing, EditSyncing, Absent
<1>5. KnownIsSaved /\ OkIsSaved /\ TodoIsRead /\ VictimsExpendable
  BY <1>1 DEF Init, KnownIsSaved, OkIsSaved, TodoIsRead, InLoop, VictimsExpendable
<1>6. OneBatch /\ BatchIsRead
  BY <1>2 DEF Init, OneBatch, BatchIsRead
<1> QED BY <1>3, <1>4, <1>5, <1>6 DEF IInv, FrameInv, EditInv

LEMMA NextInv == IInv /\ [Next]_vars => IInv'
<1> SUFFICES ASSUME IInv, [Next]_vars PROVE IInv'
  OBVIOUS
<1>1. CASE PlanEviction \/ RetryFailed \/ Reload
  BY <1>1, PlanStep, RetryStep, ReloadStep
<1>2. ASSUME NEW f \in Frames, QueueFrame(f) \/ ArriveLate(f) PROVE IInv'
  BY <1>2, QueueStep, LateStep
<1>3. ASSUME NEW e \in Edits, QueueEdit(e) PROVE IInv'
  BY <1>3, QueueEditStep
<1>4. ASSUME NEW c \in Calls, Flush(c) PROVE IInv'
  BY <1>4, FetchStep, SelectStep, DuplicateStep, MarkStep, PostStep, AnswerStep DEF Flush
<1>5. ASSUME NEW c \in Calls, FlushEdits(c) PROVE IInv'
  BY <1>5, SendStep, RefusedStep DEF FlushEdits
<1>6. CASE UNCHANGED vars
  <2>1. UNCHANGED <<queue, victims, edits, call, batch, saved, late, answers, reloads>>
    BY <1>6 DEF vars
  <2>2. TypeOK'
    BY <2>1 DEF IInv, TypeOK
  <2> QED BY <2>1, <2>2, EditsUntouched, FramesUntouched DEF IInv
<1> QED BY <1>1, <1>2, <1>3, <1>4, <1>5, <1>6 DEF Next

LEMMA Invariance == Spec => []IInv
BY InitInv, NextInv, PTL DEF Spec

\* What the user is told is done is on the server, for any number of flushes that
\* overlap and answers that come late or never (flushLiveFrameQueue).
THEOREM SettledAreSaved == Spec => []SettledIsSaved
<1>1. IInv => SettledIsSaved
  BY DEF IInv, FrameInv
<1> QED BY <1>1, Invariance, PTL

\* Types; until a reload every entry that is marked as being sent is being sent; and
\* the retries of an edit are its answers (flushSessionSync, syncLocks).
THEOREM MarksHaveCalls == Spec => []CallsCounted
<1>1. IInv => CallsCounted
  BY DEF IInv, FrameInv, EditInv, CallsCounted, SyncingHasCall, FrameSyncing, EditSyncing
<1> QED BY <1>1, Invariance, PTL

\* No step deletes the entry of a frame that may still be sent and is not saved,
\* though the victims are planned before the frame that replaces them is added
\* (enforceLiveFrameQueueLimits).
THEOREM UnsavedAreKept == Spec => UnsavedKept
<1> DEFINE Kept == \A f \in Frames : Queued(f) /\ queue'[f] = Absent =>
                     f \in saved \/ answers[f] >= MaxRetries
<1>1. IInv /\ [Next]_vars => [Kept]_vars
  <2> SUFFICES ASSUME IInv, Next PROVE Kept
    OBVIOUS
  <2>1. ASSUME NEW g \in Frames, QueueFrame(g), NEW f \in Frames, Queued(f), queue'[f] = Absent
        PROVE  f \in saved \/ answers[f] >= MaxRetries
    <3>1. f \in victims /\ victims # Unplanned
      BY <2>1 DEF QueueFrame, Queued, NewEntry, Absent
    <3> QED BY <3>1 DEF IInv, FrameInv, VictimsExpendable, Expendable
  <2>2. ASSUME NEW g \in Frames, NEW entry, Set(g, entry), entry.status # "absent",
               NEW f \in Frames, Queued(f)
        PROVE  queue'[f] # Absent
    BY <2>2 DEF Set, Queued, Absent, IInv, TypeOK
  <2>3. ASSUME NEW c \in Calls, Duplicate(c) \/ Mark(c) \/ Answer(c),
               NEW f \in Frames, Queued(f)
        PROVE  queue'[f] # Absent
    <3>1. Frame(c) \in Frames /\ Retries(c) \in 0 .. MaxRetries - 1
      BY <2>3, HeadFacts DEF Duplicate, Mark, Answer, InLoop, IInv, FrameInv
    <3>2. CASE Queued(Frame(c))
      <4>1. queue[Frame(c)] \in Entries
        BY <3>1, <3>2, RowFacts DEF IInv
      <4>2. [queue[Frame(c)] EXCEPT !.status = "duplicate_checksum"].status # "absent"
        BY <4>1 DEF Entries
      <4>3. [queue[Frame(c)] EXCEPT !.status = "syncing"].status # "absent"
        BY <4>1 DEF Entries
      <4>4. Settled(c).status # "absent"
        BY <3>1, <4>1, AfterFailureFacts DEF Settled, Entries
      <4> QED BY <2>2, <2>3, <3>1, <4>2, <4>3, <4>4 DEF Duplicate, Mark, Answer
    <3>3. CASE ~ Queued(Frame(c))
      <4>1. \A entry : Set(Frame(c), entry) => queue'[f] = queue[f]
        BY <2>3, <3>1, <3>3 DEF Set, Queued, IInv, TypeOK
      <4> QED BY <2>3, <4>1 DEF Duplicate, Mark, Answer, Queued
    <3> QED BY <3>2, <3>3
  <2>4. \/ UNCHANGED queue
        \/ \E g \in Frames : QueueFrame(g)
        \/ \E c \in Calls : Duplicate(c) \/ Mark(c) \/ Answer(c)
    BY DEF Next, PlanEviction, ArriveLate, QueueEdit, Flush, FlushEdits, Fetch, Select, Post,
           SendEdits, EditsRefused, RetryFailed, Reload
  <2> QED BY <2>1, <2>3, <2>4 DEF Queued
<1> QED BY <1>1, Invariance, PTL DEF Spec, UnsavedKept
=============================================================================
