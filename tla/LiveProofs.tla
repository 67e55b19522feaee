----------------------------- MODULE LiveProofs -----------------------------
(***************************************************************************)
(* Proofs about the three parts of live annotation: the session on the     *)
(* server (any number of frames and of events a frame, any lengths of the  *)
(* buffer and the clips), the browser (any number of runs of its effect),  *)
(* and tracks and events (any tracks, rules and times).  They share no     *)
(* variable, and each has an inductive invariant of its own.               *)
(***************************************************************************)
EXTENDS LiveSession, LiveClient, LiveTracks, FiniteSetTheorems, SequenceTheorems, TLAPS

(***************************************************************************)
(* The session                                                             *)
(***************************************************************************)
Single == \A f, g \in Frames : Running(f) /\ Running(g) => f = g
FlagIsTask == processing <=> \E f \in Frames : Running(f)

\* A frame that has not arrived, or waits, has no task yet.
NotYet == \A f \in Frames : f > received \/ f = pending => task[f] = NoTask

Below(s, n) == \A i \in 1 .. Len(s) : s[i] < n
Behind(n) == Below(answers, n) /\ Below(buffer, n) /\ (clip # NoClip => Below(clip.entries, n))

\* Until it is put in the buffer, everything there is older than the frame that is
\* handled; until it is answered, so is every answer.
Early == {"new", "detect", "announce", "replace"}
Ordered ==
  /\ Behind(received + 1)
  /\ \A f \in Frames : Running(f) =>
       /\ Behind(f + 1) /\ Below(answers, f)
       /\ task[f].pc \in Early => Behind(f)

\* The task that replaces a clip does so for an event.
ReplacesForEvent == \A f \in Frames : At(f, "replace") => task[f].todo > 0

IInv == /\ TypeOK /\ Single /\ FlagIsTask /\ NotYet /\ PendingIsLatest
        /\ InOrder /\ Ordered /\ ReplacesForEvent

\* An event that is still to be announced.
Future(e) ==
  \/ task[e.frame] = NoTask
  \/ Running(e.frame) /\ task[e.frame].pc \in {"new", "detect"}
  \/ /\ Running(e.frame) /\ task[e.frame].pc \in {"announce", "replace"}
     /\ e.nr <= task[e.frame].todo

\* How often the clip under way may be saved once the client has left: by the task
\* that runs, unless it is past that, and by the frame that waits.
MaySave(f) == Running(f) /\ task[f].pc \notin {"answer", "close"}
Chances == (IF \E f \in Frames : MaySave(f) THEN 1 ELSE 0)
             + (IF pending = None THEN 0 ELSE 1)

\* The clip under way was not saved, or it was because the client had left, and then
\* by no more tasks than have had their chance.
ClipInv == clip # NoClip =>
  IF open THEN saved[clip.event] = 0 ELSE saved[clip.event] + Chances <= 2

\* An event to come has no clip yet.
FutureInv == \A e \in Events :
  Future(e) => saved[e] = 0 /\ (clip # NoClip => clip.event # e)

\* A task that saves a clip has one.
SavesClip == \A f \in Frames : task[f].pc \in {"replace", "finish"} => clip # NoClip

SaveInv == SavedOnce /\ ClipInv /\ FutureInv /\ SavesClip

-----------------------------------------------------------------------------
(***************************************************************************)
(* Sequences of frames                                                     *)
(***************************************************************************)
LEMMA FramesAreNat == Frames \subseteq Nat /\ None \notin Frames
BY SessionAssumption DEF Frames

LEMMA LastFacts ==
  ASSUME NEW s \in Seq(Frames), NEW n \in Nat
  PROVE  /\ Last(s, n) \in Seq(Frames) /\ Len(Last(s, n)) <= n
         /\ Increasing(s) => Increasing(Last(s, n))
         /\ \A m : Below(s, m) => Below(Last(s, n), m)
<1> DEFINE k == IF Len(s) > n THEN Len(s) - n + 1 ELSE 1
           t == SubSeq(s, k, Len(s))
<1>1. Len(s) \in Nat /\ \A i \in 1 .. Len(s) : s[i] \in Frames
  BY LenProperties
<1>2. k \in Int /\ k >= 1 /\ Len(s) - k + 1 <= n
  BY <1>1
<1>3. \A i \in k .. Len(s) : s[i] \in Frames
  BY <1>1, <1>2
<1> HIDE DEF k
<1>4. /\ t \in Seq(Frames) /\ Len(t) = IF k <= Len(s) THEN Len(s) - k + 1 ELSE 0
      /\ \A i \in 1 .. Len(s) - k + 1 : t[i] = s[k + i - 1]
  BY <1>1, <1>2, <1>3, SubSeqProperties
<1>5. Len(t) <= n
  BY <1>1, <1>2, <1>4
<1>6. \A i \in 1 .. Len(t) : k + i - 1 \in 1 .. Len(s) /\ t[i] = s[k + i - 1]
  BY <1>1, <1>2, <1>4
<1> HIDE DEF t
<1>7. ASSUME Increasing(s) PROVE Increasing(t)
  <2> SUFFICES ASSUME NEW i \in 1 .. Len(t), NEW j \in 1 .. Len(t), i < j PROVE t[i] < t[j]
    BY DEF Increasing
  <2>1. Len(t) \in Int
    BY <1>1, <1>2, <1>4
  <2>2. k + i - 1 \in 1 .. Len(s) /\ k + j - 1 \in 1 .. Len(s) /\ k + i - 1 < k + j - 1
    BY <1>2, <1>6, <2>1
  <2>3. s[k + i - 1] < s[k + j - 1]
    BY <1>7, <2>2 DEF Increasing
  <2> QED BY <1>6, <2>3
<1>8. \A m : Below(s, m) => Below(t, m)
  BY <1>6 DEF Below
<1>9. Last(s, n) = t
  BY DEF Last, t, k
<1> QED BY <1>4, <1>5, <1>7, <1>8, <1>9

LEMMA AppendFacts ==
  ASSUME NEW s \in Seq(Frames), NEW f \in Frames
  PROVE  /\ Append(s, f) \in Seq(Frames)
         /\ Increasing(s) /\ Below(s, f) => Increasing(Append(s, f))
         /\ Below(s, f) => Below(Append(s, f), f + 1)
<1>1. /\ Append(s, f) \in Seq(Frames) /\ Len(Append(s, f)) = Len(s) + 1
      /\ \A i \in 1 .. Len(s) : Append(s, f)[i] = s[i]
      /\ Append(s, f)[Len(s) + 1] = f
  BY AppendProperties
<1>2. Len(s) \in Nat /\ \A i \in 1 .. Len(s) : s[i] \in Nat
  BY LenProperties, FramesAreNat
<1> DEFINE t == Append(s, f)
<1>3. /\ t \in Seq(Frames) /\ Len(t) = Len(s) + 1
      /\ \A i \in 1 .. Len(s) : t[i] = s[i]
      /\ t[Len(s) + 1] = f
  BY <1>1
<1> HIDE DEF t
<1>4. f \in Nat
  BY FramesAreNat
<1>5. ASSUME Increasing(s), Below(s, f) PROVE Increasing(t)
  BY <1>2, <1>3, <1>4, <1>5, SMTT(30) DEF Increasing, Below
<1>6. ASSUME Below(s, f) PROVE Below(t, f + 1)
  BY <1>2, <1>3, <1>4, <1>6 DEF Below
<1> QED BY <1>3, <1>5, <1>6 DEF t

LEMMA BelowMore ==
  ASSUME NEW s \in Seq(Frames), NEW m \in Nat, NEW n \in Nat, m <= n, Below(s, m)
  PROVE  Below(s, n)
<1>1. \A i \in 1 .. Len(s) : s[i] \in Nat
  BY LenProperties, FramesAreNat
<1> QED BY <1>1 DEF Below

LEMMA TypeFacts ==
  ASSUME TypeOK
  PROVE  /\ task \in [Frames -> Tasks \cup {NoTask, Ended}]
         /\ buffer \in Seq(Frames) /\ answers \in Seq(Frames)
         /\ clip \in Clips \cup {NoClip} /\ (clip # NoClip => clip.entries \in Seq(Frames))
         /\ received \in 0 .. MaxFrames /\ MaxFrames \in Nat
         /\ pending \in Frames \cup {None}
BY SessionAssumption DEF TypeOK, Clips

LEMMA BehindMore ==
  ASSUME TypeOK, NEW m \in Nat, NEW n \in Nat, m <= n, Behind(m)
  PROVE  Behind(n)
BY BelowMore, TypeFacts DEF Behind

LEMMA RunningFacts ==
  ASSUME TypeOK, NEW f \in Frames
  PROVE  /\ Running(f) => task[f] \in Tasks
         /\ task[f].pc \in {"new", "detect", "announce", "replace", "finish", "answer", "close"} => Running(f)
         /\ ~ (NoTask \in Tasks) /\ ~ (Ended \in Tasks) /\ NoTask # Ended
BY TypeFacts DEF Running, Tasks, NoTask, Ended

-----------------------------------------------------------------------------
(***************************************************************************)
(* Steps                                                                   *)
(***************************************************************************)
LEMMA InitInv == Init => IInv
<1> SUFFICES ASSUME Init PROVE IInv
  OBVIOUS
<1>1. << >> \in Seq(Frames) /\ Len(<< >>) = 0
  OBVIOUS
<1>2. TypeOK
  <2>1. received \in 0 .. MaxFrames /\ buffer \in Seq(Frames) /\ Len(buffer) <= BufferLen
          /\ answers \in Seq(Frames)
    BY <1>1, SessionAssumption DEF Init
  <2>2. processing \in BOOLEAN /\ open \in BOOLEAN /\ pending \in Frames \cup {None}
          /\ loop \in {"receive", "busy", "ended"}
    BY DEF Init
  <2>3. task \in [Frames -> Tasks \cup {NoTask, Ended}] /\ clip \in Clips \cup {NoClip}
    BY DEF Init
  <2>4. saved \in [Events -> Nat]
    BY DEF Init
  <2> QED BY <2>1, <2>2, <2>3, <2>4 DEF TypeOK
<1>3. \A f \in Frames : ~ Running(f) /\ task[f] = NoTask
  BY DEF Init, Running
<1>4. Single /\ FlagIsTask /\ NotYet
  BY <1>3 DEF Init, Single, FlagIsTask, NotYet
<1>5. PendingIsLatest /\ ReplacesForEvent
  BY DEF Init, PendingIsLatest, ReplacesForEvent, At, NoTask
<1>6. InOrder
  BY <1>1 DEF Init, InOrder, Increasing
<1>7. Ordered
  BY <1>1, <1>3 DEF Init, Ordered, Behind, Below
<1> QED BY <1>2, <1>4, <1>5, <1>6, <1>7 DEF IInv

\* Steps of the receive loop, and of the client, that touch no task.
LEMMA LoopStep ==
  IInv /\ (SendBusy \/ ClientLeaves \/ Disconnected) => IInv'
<1> SUFFICES ASSUME IInv, SendBusy \/ ClientLeaves \/ Disconnected PROVE IInv'
  OBVIOUS
<1>1. UNCHANGED <<received, processing, pending, task, buffer, clip, saved, answers>>
  BY DEF SendBusy, ClientLeaves, Disconnected
<1>2. loop' \in {"receive", "busy", "ended"} /\ open' \in BOOLEAN
  BY DEF IInv, TypeOK, SendBusy, ClientLeaves, Disconnected
<1>3. TypeOK'
  BY <1>1, <1>2 DEF IInv, TypeOK
<1>4. Single' /\ FlagIsTask' /\ NotYet' /\ PendingIsLatest' /\ ReplacesForEvent'
  BY <1>1 DEF IInv, Single, FlagIsTask, NotYet, PendingIsLatest, ReplacesForEvent, Running, At
<1>5. InOrder' /\ Ordered'
  BY <1>1 DEF IInv, InOrder, Ordered, Behind, Running
<1> QED BY <1>3, <1>4, <1>5 DEF IInv

LEMMA ReceiveStep == IInv /\ Receive => IInv'
<1> SUFFICES ASSUME IInv, Receive PROVE IInv'
  OBVIOUS
<1>1. PICK f \in Frames : f = received + 1 /\ received' = f
  BY TypeFacts DEF IInv, Receive, Frames
<1>2. UNCHANGED <<open, buffer, clip, saved, answers>> /\ f \in Nat /\ received \in Nat
        /\ task[f] = NoTask /\ f # None /\ pending # f
  BY <1>1, FramesAreNat, TypeFacts, SessionAssumption
     DEF IInv, Receive, NotYet, PendingIsLatest
<1>3. \A n : Behind(n)' = Behind(n)
  BY <1>2 DEF Behind
<1>4. Behind(f) /\ Behind(f)' /\ Behind(f + 1) /\ Behind(received + 1)'
  BY <1>1, <1>2, <1>3, BehindMore DEF IInv, Ordered
<1>5. CASE processing
  <2>1. pending' = f /\ loop' = "busy" /\ UNCHANGED <<processing, task>>
    BY <1>1, <1>5 DEF Receive, Waits
  <2>2. TypeOK'
    BY <1>1, <1>2, <2>1 DEF IInv, TypeOK, Frames
  <2>3. Single' /\ FlagIsTask' /\ ReplacesForEvent'
    BY <2>1 DEF IInv, Single, FlagIsTask, ReplacesForEvent, Running, At
  <2>4. NotYet' /\ PendingIsLatest'
    BY <1>1, <1>2, <1>5, <2>1, FramesAreNat DEF IInv, NotYet, PendingIsLatest
  <2>5. InOrder'
    BY <1>2 DEF IInv, InOrder
  <2>6. Ordered'
    BY <1>2, <1>3, <1>4, <2>1 DEF IInv, Ordered, Running
  <2> QED BY <2>2, <2>3, <2>4, <2>5, <2>6 DEF IInv
<1>6. CASE ~ processing
  <2>1. processing' = TRUE /\ task' = [task EXCEPT ![f] = New] /\ UNCHANGED <<pending, loop>>
    BY <1>1, <1>6 DEF Receive, FlagNow
  <2>2. task'[f] = New /\ \A g \in Frames \ {f} : task'[g] = task[g]
    BY <2>1, TypeFacts DEF IInv
  <2>3. New \in Tasks /\ New.pc = "new" /\ New # NoTask /\ New # Ended
    BY SessionAssumption DEF New, Tasks, NoTask, Ended
  <2>4. TypeOK'
    <3>1. task' \in [Frames -> Tasks \cup {NoTask, Ended}]
      BY <2>1, <2>3, TypeFacts DEF IInv
    <3> QED BY <1>1, <1>2, <2>1, <3>1 DEF IInv, TypeOK, Frames
  <2>5. \A g \in Frames : ~ Running(g)
    BY <1>6 DEF IInv, FlagIsTask
  <2>6. Running(f)' /\ \A g \in Frames \ {f} : ~ Running(g)'
    BY <2>2, <2>3, <2>5 DEF Running
  <2>7. Single' /\ FlagIsTask'
    BY <2>1, <2>6 DEF Single, FlagIsTask
  <2>8. NotYet' /\ PendingIsLatest'
    BY <1>1, <1>2, <1>6, <2>1, <2>2, FramesAreNat DEF IInv, NotYet, PendingIsLatest
  <2>9. InOrder' /\ ReplacesForEvent'
    BY <1>2, <2>2, <2>3 DEF IInv, InOrder, ReplacesForEvent, At
  <2>10. Ordered'
    BY <1>2, <1>3, <1>4, <2>6 DEF Ordered, Behind
  <2> QED BY <2>4, <2>7, <2>8, <2>9, <2>10 DEF IInv
<1> QED BY <1>5, <1>6

\* A task goes on: what it does to the clip and the buffer is all that matters.
LEMMA TaskGoes ==
  ASSUME IInv, NEW f \in Frames, Running(f), NEW t \in Tasks,
         task' = [task EXCEPT ![f] = t],
         t.pc = "replace" => t.todo > 0,
         UNCHANGED <<received, processing, pending, loop, open, answers>>,
         buffer' \in Seq(Frames), Len(buffer') <= BufferLen, Increasing(buffer'),
         clip' \in Clips \cup {NoClip}, clip' # NoClip => Increasing(clip'.entries),
         saved' \in [Events -> Nat],
         Behind(f + 1)', t.pc \in Early => Behind(f)'
  PROVE  IInv'
<1>1. task'[f] = t /\ \A g \in Frames \ {f} : task'[g] = task[g]
  BY TypeFacts DEF IInv
<1>2. TypeOK'
  <2>1. task' \in [Frames -> Tasks \cup {NoTask, Ended}]
    BY TypeFacts DEF IInv
  <2> QED BY <2>1 DEF IInv, TypeOK
<1>3. \A g \in Frames : Running(g)' <=> Running(g)
  BY <1>1, RunningFacts DEF IInv, Running
<1>4. Single' /\ FlagIsTask' /\ PendingIsLatest'
  BY <1>3 DEF IInv, Single, FlagIsTask, PendingIsLatest
<1>5. NotYet'
  BY <1>1 DEF IInv, NotYet, Running
<1>6. ReplacesForEvent' /\ InOrder'
  BY <1>1 DEF IInv, ReplacesForEvent, InOrder, At
<1>7. f \in Nat /\ received \in Nat /\ f <= received
  BY FramesAreNat, TypeFacts DEF IInv, NotYet, Running
<1>8. Behind(received + 1)'
  <2>1. f + 1 \in Nat /\ received + 1 \in Nat /\ f + 1 <= received + 1
    BY <1>7
  <2>2. answers' \in Seq(Frames) /\ (clip' # NoClip => clip'.entries \in Seq(Frames))
    BY TypeFacts DEF IInv, Clips
  <2>3. Below(answers', received + 1) /\ Below(buffer', received + 1)
    BY <2>1, <2>2, BelowMore DEF Behind
  <2>4. clip' # NoClip => Below(clip'.entries, received + 1)
    BY <2>1, <2>2, BelowMore DEF Behind
  <2> QED BY <2>3, <2>4 DEF Behind
<1>9. Ordered'
  <2>1. \A g \in Frames : Running(g)' => g = f
    BY <1>3 DEF IInv, Single
  <2>2. Below(answers, f)'
    BY DEF IInv, Ordered
  <2> QED BY <1>1, <1>8, <2>1, <2>2 DEF Ordered
<1> QED BY <1>2, <1>4, <1>5, <1>6, <1>9 DEF IInv

\* What a task that changes neither clip nor buffer leaves as it was.
LEMMA TaskGoesQuietly ==
  ASSUME IInv, NEW f \in Frames, Running(f), NEW t \in Tasks,
         task' = [task EXCEPT ![f] = t],
         t.pc = "replace" => t.todo > 0,
         UNCHANGED <<received, processing, pending, loop, open, answers, buffer, clip>>,
         saved' \in [Events -> Nat],
         t.pc \in Early => task[f].pc \in Early
  PROVE  IInv'
<1>1. \A n : Behind(n)' = Behind(n)
  BY DEF Behind
<1>2. Behind(f + 1)' /\ (t.pc \in Early => Behind(f)')
  BY <1>1 DEF IInv, Ordered
<1>3. /\ buffer' \in Seq(Frames) /\ Len(buffer') <= BufferLen /\ Increasing(buffer')
      /\ clip' \in Clips \cup {NoClip} /\ (clip' # NoClip => Increasing(clip'.entries))
  BY DEF IInv, TypeOK, InOrder
<1> QED BY <1>2, <1>3, TaskGoes

\* A task goes to another place with what it has to do.
LEMMA GoesFacts ==
  ASSUME TypeOK, NEW f \in Frames, Running(f), NEW pc \in {"new", "detect", "announce",
           "replace", "finish", "answer", "close"}, Goes(f, pc)
  PROVE  \E t \in Tasks : task' = [task EXCEPT ![f] = t] /\ t.pc = pc /\ t.todo = task[f].todo
<1> DEFINE t == [task[f] EXCEPT !.pc = pc]
<1>1. task[f] \in Tasks
  BY RunningFacts
<1>2. t \in Tasks /\ t.pc = pc /\ t.todo = task[f].todo
  BY <1>1 DEF Tasks
<1>3. task' = [task EXCEPT ![f] = t]
  BY DEF Goes
<1> QED BY <1>2, <1>3

LEMMA FinalizeFacts == TypeOK /\ Finalize => saved' \in [Events -> Nat]
<1> SUFFICES ASSUME TypeOK, Finalize PROVE saved' \in [Events -> Nat]
  OBVIOUS
<1>1. saved \in [Events -> Nat] /\ saved' = [saved EXCEPT ![clip.event] = @ + 1]
  BY DEF TypeOK, Finalize
<1> DEFINE c == clip.event
<1>2. saved' = [saved EXCEPT ![c] = saved[c] + 1]
  BY <1>1
<1> HIDE DEF c
<1>3. c \in Events => saved[c] + 1 \in Nat
  BY <1>1
<1> QED BY <1>1, <1>2, <1>3

LEMMA MovesStep ==
  ASSUME NEW f \in Frames
  PROVE  IInv /\ (Decode(f) \/ DetectFails(f) \/ SendFails(f) \/ FinishFails(f) \/ ReplaceFails(f)) => IInv'
<1> SUFFICES ASSUME IInv,
                    Decode(f) \/ DetectFails(f) \/ SendFails(f) \/ FinishFails(f) \/ ReplaceFails(f)
             PROVE  IInv'
  OBVIOUS
<1>1. /\ task[f].pc \in {"new", "detect", "announce", "replace", "finish", "answer", "close"}
      /\ UNCHANGED <<received, processing, pending, loop, open, buffer, clip, answers>>
      /\ UNCHANGED saved \/ Finalize
      /\ Goes(f, "close") \/ (Goes(f, "detect") /\ task[f].pc = "new")
  BY DEF Decode, DetectFails, SendFails, FinishFails, ReplaceFails, At
<1>2. Running(f)
  BY <1>1, RunningFacts DEF IInv
<1>3. saved' \in [Events -> Nat]
  BY <1>1, FinalizeFacts DEF IInv, TypeOK
<1>4. PICK t \in Tasks : /\ task' = [task EXCEPT ![f] = t]
                         /\ t.pc = "close" \/ (t.pc = "detect" /\ task[f].pc = "new")
  BY <1>1, <1>2, GoesFacts DEF IInv
<1> QED BY <1>1, <1>2, <1>3, <1>4, TaskGoesQuietly DEF Early

LEMMA DetectStep ==
  ASSUME NEW f \in Frames, NEW n \in 0 .. MaxEvents, NEW saves \in SUBSET (1 .. n)
  PROVE  IInv /\ Detect(f, n, saves) => IInv'
<1> SUFFICES ASSUME IInv, Detect(f, n, saves) PROVE IInv'
  OBVIOUS
<1> DEFINE t == [pc |-> "announce", todo |-> n, saves |-> saves]
<1>1. /\ task[f].pc = "detect" /\ task' = [task EXCEPT ![f] = t]
      /\ UNCHANGED <<received, processing, pending, loop, open, buffer, clip, saved, answers>>
  BY DEF Detect, At
<1>2. Running(f)
  BY <1>1, RunningFacts DEF IInv
<1>3. saves \in SUBSET (1 .. MaxEvents)
  BY SessionAssumption
<1>4. t \in Tasks /\ t.pc = "announce"
  BY <1>3 DEF Tasks
<1>5. saved' \in [Events -> Nat]
  BY <1>1 DEF IInv, TypeOK
<1> HIDE DEF t
<1> QED BY <1>1, <1>2, <1>4, <1>5, TaskGoesQuietly DEF Early

\* A clip is opened with frames that are older than the one that is handled.
LEMMA OpenClipFacts ==
  ASSUME IInv, NEW f \in Frames, Running(f), task[f].pc \in Early, task[f].todo > 0,
         OpenClip(f), UNCHANGED <<answers, buffer>>
  PROVE  /\ clip' \in Clips /\ Increasing(clip'.entries)
         /\ Behind(f)' /\ Behind(f + 1)'
<1>1. clip' = [event |-> Event(f), left |-> Post, entries |-> Last(buffer, Pre)]
  BY DEF OpenClip
<1>2. /\ Last(buffer, Pre) \in Seq(Frames) /\ Increasing(Last(buffer, Pre))
      /\ Below(Last(buffer, Pre), f) /\ Below(Last(buffer, Pre), f + 1)
      /\ Below(answers, f) /\ Below(answers, f + 1) /\ Below(buffer, f) /\ Below(buffer, f + 1)
  BY LastFacts, TypeFacts, SessionAssumption DEF IInv, InOrder, Ordered, Behind
<1>3. Event(f) \in Events
  <2>1. task[f].todo \in 1 .. MaxEvents
    BY RunningFacts, SessionAssumption DEF IInv, Tasks
  <2> QED BY <2>1 DEF Event, Events
<1>4. clip' \in Clips
  BY <1>1, <1>2, <1>3, SessionAssumption DEF Clips
<1>5. clip'.entries = Last(buffer, Pre)
  BY <1>1
<1> QED BY <1>2, <1>4, <1>5 DEF Behind

LEMMA AnnouncedFacts ==
  ASSUME TypeOK, NEW f \in Frames, Running(f), task[f].todo > 0, Announced(f)
  PROVE  \E t \in Tasks : /\ task' = [task EXCEPT ![f] = t] /\ t.pc = "announce"
                          /\ t.todo = task[f].todo - 1
<1> DEFINE t == [task[f] EXCEPT !.pc = "announce", !.todo = @ - 1, !.saves = @ \ {task[f].todo}]
<1>1. task[f] \in Tasks
  BY RunningFacts
<1>2. t = [pc |-> "announce", todo |-> task[f].todo - 1, saves |-> task[f].saves \ {task[f].todo}]
  <2>1. PICK pc \in {"new", "detect", "announce", "replace", "finish", "answer", "close"},
             todo \in 0 .. MaxEvents, saves \in SUBSET (1 .. MaxEvents) :
          task[f] = [pc |-> pc, todo |-> todo, saves |-> saves]
    BY <1>1, Zenon DEF Tasks
  <2>2. task[f].pc = pc /\ task[f].todo = todo /\ task[f].saves = saves
    BY <2>1
  <2>3. t = [[pc |-> pc, todo |-> todo, saves |-> saves] EXCEPT !.pc = "announce",
                   !.todo = todo - 1, !.saves = saves \ {todo}]
    BY <2>1, <2>2
  <2> HIDE DEF t
  <2>4. t = [pc |-> "announce", todo |-> todo - 1, saves |-> saves \ {todo}]
    BY <2>3
  <2> QED BY <2>2, <2>4
<1>3. task[f].todo - 1 \in 0 .. MaxEvents /\ task[f].saves \ {task[f].todo} \subseteq 1 .. MaxEvents
  BY <1>1, SessionAssumption DEF Tasks
<1>4. task' = [task EXCEPT ![f] = t]
  BY DEF Announced
<1> HIDE DEF t
<1>5. t \in Tasks /\ t.pc = "announce" /\ t.todo = task[f].todo - 1
  BY <1>2, <1>3 DEF Tasks
<1> QED BY <1>4, <1>5

LEMMA AnnounceStep == ASSUME NEW f \in Frames PROVE IInv /\ Announce(f) => IInv'
<1> SUFFICES ASSUME IInv, Announce(f) PROVE IInv'
  OBVIOUS
<1>1. /\ task[f].pc = "announce" /\ task[f].todo > 0
      /\ UNCHANGED <<received, processing, pending, loop, open, buffer, saved, answers>>
  BY DEF Announce, At
<1>2. Running(f) /\ task[f].pc \in Early /\ saved' \in [Events -> Nat]
  BY <1>1, RunningFacts DEF IInv, TypeOK, Early
<1>3. CASE Goes(f, "replace") /\ UNCHANGED clip
  <2>1. PICK t \in Tasks : task' = [task EXCEPT ![f] = t] /\ t.pc = "replace" /\ t.todo > 0
    BY <1>1, <1>2, <1>3, GoesFacts DEF IInv
  <2> QED BY <1>1, <1>2, <1>3, <2>1, TaskGoesQuietly
<1>4. CASE OpenClip(f) /\ Announced(f)
  <2>1. PICK t \in Tasks : task' = [task EXCEPT ![f] = t] /\ t.pc = "announce"
    BY <1>1, <1>2, <1>4, AnnouncedFacts DEF IInv
  <2>2. buffer' \in Seq(Frames) /\ Len(buffer') <= BufferLen /\ Increasing(buffer')
    BY <1>1 DEF IInv, TypeOK, InOrder
  <2> QED BY <1>1, <1>2, <1>4, <2>1, <2>2, OpenClipFacts, TaskGoes
<1>5. CASE Announced(f) /\ UNCHANGED clip
  <2>1. PICK t \in Tasks : task' = [task EXCEPT ![f] = t] /\ t.pc = "announce"
    BY <1>1, <1>2, <1>5, AnnouncedFacts DEF IInv
  <2> QED BY <1>1, <1>2, <1>5, <2>1, TaskGoesQuietly
<1> QED BY <1>3, <1>4, <1>5 DEF Announce

LEMMA ReplaceStep == ASSUME NEW f \in Frames PROVE IInv /\ Replace(f) => IInv'
<1> SUFFICES ASSUME IInv, Replace(f) PROVE IInv'
  OBVIOUS
<1>1. /\ task[f].pc = "replace" /\ OpenClip(f) /\ Announced(f) /\ Finalize
      /\ UNCHANGED <<received, processing, pending, loop, open, buffer, answers>>
  BY DEF Replace, At
<1>2. Running(f) /\ task[f].pc \in Early /\ task[f].todo > 0
  BY <1>1, RunningFacts DEF IInv, ReplacesForEvent, At, Early
<1>3. saved' \in [Events -> Nat]
  BY <1>1, FinalizeFacts DEF IInv
<1>4. PICK t \in Tasks : task' = [task EXCEPT ![f] = t] /\ t.pc = "announce"
  BY <1>1, <1>2, AnnouncedFacts DEF IInv
<1>5. buffer' \in Seq(Frames) /\ Len(buffer') <= BufferLen /\ Increasing(buffer')
  BY <1>1 DEF IInv, TypeOK, InOrder
<1> QED BY <1>1, <1>2, <1>3, <1>4, <1>5, OpenClipFacts, TaskGoes

LEMMA KeepStep == ASSUME NEW f \in Frames PROVE IInv /\ Keep(f) => IInv'
<1> SUFFICES ASSUME IInv, Keep(f) PROVE IInv'
  OBVIOUS
<1>1. /\ task[f].pc = "announce" /\ buffer' = Last(Append(buffer, f), BufferLen)
      /\ UNCHANGED <<received, processing, pending, loop, open, saved, answers>>
  BY DEF Keep, At
<1>2. Running(f) /\ Behind(f) /\ saved' \in [Events -> Nat] /\ Below(answers, f + 1)
  BY <1>1, RunningFacts DEF IInv, TypeOK, Early, Ordered, Behind
<1>3. /\ buffer' \in Seq(Frames) /\ Len(buffer') <= BufferLen /\ Increasing(buffer')
      /\ Below(buffer', f + 1)
  <2>1. Append(buffer, f) \in Seq(Frames) /\ Increasing(Append(buffer, f)) /\ Below(Append(buffer, f), f + 1)
    BY <1>2, AppendFacts, TypeFacts DEF IInv, InOrder, Behind
  <2> QED BY <1>1, <2>1, LastFacts, SessionAssumption
<1>4. /\ clip' \in Clips \cup {NoClip} /\ (clip' # NoClip => Increasing(clip'.entries))
      /\ (clip' # NoClip => Below(clip'.entries, f + 1))
  <2>1. CASE clip = NoClip
    BY <2>1 DEF Keep
  <2>2. CASE clip # NoClip
    <3>1. clip \in Clips /\ clip' = [clip EXCEPT !.left = clip.left - 1, !.entries = Append(clip.entries, f)]
      BY <2>2, TypeFacts DEF IInv, Keep
    <3>2. /\ Append(clip.entries, f) \in Seq(Frames) /\ Increasing(Append(clip.entries, f))
          /\ Below(Append(clip.entries, f), f + 1)
      BY <1>2, <2>2, AppendFacts, TypeFacts DEF IInv, InOrder, Behind
    <3>3. clip' = [event |-> clip.event, left |-> clip.left - 1, entries |-> Append(clip.entries, f)]
      BY <3>1 DEF Clips
    <3>4. clip.event \in Events /\ clip.left - 1 \in Int
      BY <3>1 DEF Clips
    <3>5. clip' \in Clips /\ clip'.entries = Append(clip.entries, f)
      BY <3>2, <3>3, <3>4 DEF Clips
    <3> QED BY <3>2, <3>5
  <2> QED BY <2>1, <2>2
<1>5. Behind(f + 1)'
  BY <1>1, <1>2, <1>3, <1>4 DEF Behind
<1>6. PICK t \in Tasks : task' = [task EXCEPT ![f] = t] /\ t.pc \in {"finish", "answer"}
  <2>1. Goes(f, "answer") \/ Goes(f, "finish")
    BY DEF Keep
  <2> QED BY <1>2, <2>1, GoesFacts DEF IInv
<1> QED BY <1>1, <1>2, <1>3, <1>4, <1>5, <1>6, TaskGoes DEF Early

LEMMA FinishStep == ASSUME NEW f \in Frames PROVE IInv /\ Finish(f) => IInv'
<1> SUFFICES ASSUME IInv, Finish(f) PROVE IInv'
  OBVIOUS
<1>1. /\ task[f].pc = "finish" /\ clip' = NoClip /\ Finalize /\ Goes(f, "answer")
      /\ UNCHANGED <<received, processing, pending, loop, open, buffer, answers>>
  BY DEF Finish, At, ClearClip
<1>2. Running(f) /\ saved' \in [Events -> Nat]
  BY <1>1, RunningFacts, FinalizeFacts DEF IInv
<1>3. buffer' \in Seq(Frames) /\ Len(buffer') <= BufferLen /\ Increasing(buffer')
  BY <1>1 DEF IInv, TypeOK, InOrder
<1>4. Behind(f + 1)'
  BY <1>1, <1>2 DEF IInv, Ordered, Behind
<1>5. PICK t \in Tasks : task' = [task EXCEPT ![f] = t] /\ t.pc = "answer"
  BY <1>1, <1>2, GoesFacts DEF IInv
<1> QED BY <1>1, <1>2, <1>3, <1>4, <1>5, TaskGoes DEF Early

\* The end of a task: the flag is cleared, or the frame that waits is started.
LEMMA EndStep == ASSUME NEW f \in Frames PROVE IInv /\ (Answer(f) \/ Close(f)) => IInv'
<1> SUFFICES ASSUME IInv, Answer(f) \/ Close(f) PROVE IInv'
  OBVIOUS
<1>1. /\ task[f].pc \in {"answer", "close"} /\ StartPending(f)
      /\ answers' = Append(answers, f) \/ UNCHANGED answers
      /\ UNCHANGED <<received, loop, open, buffer, clip, saved>>
  BY DEF Answer, Close, At
<1>2. Running(f) /\ f \in Nat /\ received \in Nat /\ f <= received /\ task[f] # NoTask
  BY <1>1, RunningFacts, FramesAreNat, TypeFacts DEF IInv, NotYet, Running
<1>3. /\ answers' \in Seq(Frames) /\ Increasing(answers') /\ Below(answers', f + 1)
  <2>1. Below(answers, f) /\ Below(answers, f + 1) /\ Increasing(answers) /\ answers \in Seq(Frames)
    BY <1>2, TypeFacts DEF IInv, Ordered, Behind, InOrder
  <2> QED BY <1>1, <2>1, AppendFacts
<1>4. Behind(f + 1)'
  BY <1>1, <1>2, <1>3 DEF IInv, Ordered, Behind
<1>5. \A n \in Nat : n >= f + 1 => Behind(n)'
  <2> SUFFICES ASSUME NEW n \in Nat, n >= f + 1 PROVE Behind(n)'
    OBVIOUS
  <2>1. buffer' \in Seq(Frames) /\ (clip' # NoClip => clip'.entries \in Seq(Frames))
    BY <1>1, TypeFacts DEF IInv
  <2>2. f + 1 \in Nat /\ f + 1 <= n
    BY <1>2
  <2>3. Below(answers', n) /\ Below(buffer', n)
    BY <1>3, <1>4, <2>1, <2>2, BelowMore DEF Behind
  <2>4. clip' # NoClip => Below(clip'.entries, n)
    BY <1>4, <2>1, <2>2, BelowMore DEF Behind
  <2> QED BY <2>3, <2>4 DEF Behind
<1>6. InOrder' /\ Behind(received + 1)'
  BY <1>1, <1>2, <1>3, <1>5 DEF IInv, InOrder
<1>7. CASE pending = None
  <2>1. processing' = FALSE /\ task' = [task EXCEPT ![f] = Ended] /\ UNCHANGED pending
    BY <1>1, <1>7 DEF StartPending
  <2>2. task'[f] = Ended /\ \A g \in Frames \ {f} : task'[g] = task[g]
    BY <2>1, TypeFacts DEF IInv
  <2>3. \A g \in Frames : ~ Running(g)'
    BY <1>2, <2>2 DEF IInv, Single, Running
  <2>4. TypeOK'
    <3>1. task' \in [Frames -> Tasks \cup {NoTask, Ended}]
      BY <2>1, TypeFacts DEF IInv
    <3> QED BY <1>1, <1>3, <2>1, <3>1 DEF IInv, TypeOK
  <2>5. Single' /\ FlagIsTask'
    BY <2>1, <2>3 DEF Single, FlagIsTask
  <2>6. NotYet' /\ PendingIsLatest'
    BY <1>1, <1>2, <1>7, <2>1, <2>2 DEF IInv, NotYet, PendingIsLatest
  <2>7. ReplacesForEvent'
    BY <2>2 DEF IInv, ReplacesForEvent, At, Ended
  <2>8. Ordered'
    BY <1>6, <2>3 DEF Ordered
  <2> QED BY <1>6, <2>4, <2>5, <2>6, <2>7, <2>8 DEF IInv
<1>8. CASE pending # None
  <2>1. PICK p \in Frames : p = pending /\ p = received /\ task[p] = NoTask
    BY <1>8, TypeFacts DEF IInv, PendingIsLatest, NotYet
  <2>2. p # f /\ p \in Nat /\ p >= f + 1
    BY <1>2, <2>1, FramesAreNat
  <2>3. processing' = TRUE /\ task' = [task EXCEPT ![f] = Ended, ![p] = New] /\ pending' = None
    BY <1>1, <1>8, <2>1 DEF StartPending
  <2>4. New \in Tasks /\ New.pc = "new" /\ New # NoTask /\ New # Ended
    BY SessionAssumption DEF New, Tasks, NoTask, Ended
  <2>5. /\ task'[f] = Ended /\ task'[p] = New
        /\ \A g \in Frames \ {f, p} : task'[g] = task[g]
    BY <2>2, <2>3, TypeFacts DEF IInv
  <2>6. Running(p)' /\ \A g \in Frames \ {p} : ~ Running(g)'
    BY <1>2, <2>4, <2>5 DEF IInv, Single, Running
  <2>7. TypeOK'
    <3>1. task' \in [Frames -> Tasks \cup {NoTask, Ended}]
      BY <2>3, <2>4, TypeFacts DEF IInv
    <3> QED BY <1>1, <1>3, <2>3, <3>1 DEF IInv, TypeOK
  <2>8. Single' /\ FlagIsTask'
    BY <2>3, <2>6 DEF Single, FlagIsTask
  <2>9. NotYet' /\ PendingIsLatest'
    <3>1. PendingIsLatest'
      BY <2>3 DEF PendingIsLatest
    <3>2. ASSUME NEW g \in Frames, g > received' \/ g = pending' PROVE task'[g] = NoTask
      <4>1. g > received
        BY <1>1, <2>3, <3>2, FramesAreNat
      <4>2. g # f /\ g # p
        BY <1>2, <2>1, <4>1, FramesAreNat
      <4> QED BY <2>5, <4>1, <4>2 DEF IInv, NotYet
    <3> QED BY <3>1, <3>2 DEF NotYet
  <2>10. ReplacesForEvent'
    BY <2>4, <2>5 DEF IInv, ReplacesForEvent, At, Ended
  <2>11. Ordered'
    <3>1. Behind(p)' /\ Behind(p + 1)'
      BY <1>5, <2>2
    <3>2. Below(answers, p)'
      BY <3>1 DEF Behind
    <3> QED BY <1>6, <2>6, <3>1, <3>2 DEF Ordered
  <2> QED BY <1>6, <2>7, <2>8, <2>9, <2>10, <2>11 DEF IInv
<1> QED BY <1>7, <1>8

-----------------------------------------------------------------------------
(***************************************************************************)
(* The theorems                                                            *)
(***************************************************************************)
LEMMA NextInv == IInv /\ [Next]_vars => IInv'
<1> SUFFICES ASSUME IInv, [Next]_vars PROVE IInv'
  OBVIOUS
<1>1. CASE Receive
  BY <1>1, ReceiveStep
<1>2. CASE SendBusy \/ ClientLeaves \/ Disconnected
  BY <1>2, LoopStep
<1>3. ASSUME NEW f \in Frames, TaskStep(f) PROVE IInv'
  <2>1. CASE Decode(f) \/ DetectFails(f) \/ SendFails(f) \/ FinishFails(f) \/ ReplaceFails(f)
    BY <2>1, MovesStep
  <2>2. ASSUME NEW n \in 0 .. MaxEvents, NEW saves \in SUBSET (1 .. n), Detect(f, n, saves)
        PROVE  IInv'
    BY <2>2, DetectStep
  <2>3. CASE Announce(f) \/ Replace(f) \/ Keep(f) \/ Finish(f)
    BY <2>3, AnnounceStep, ReplaceStep, KeepStep, FinishStep
  <2>4. CASE Answer(f) \/ Close(f)
    BY <2>4, EndStep
  <2> QED BY <1>3, <2>1, <2>2, <2>3, <2>4 DEF TaskStep
<1>4. CASE UNCHANGED vars
  <2>1. UNCHANGED <<received, processing, pending, loop, open, task, buffer, clip, saved, answers>>
    BY <1>4 DEF vars
  <2>2. TypeOK'
    BY <2>1 DEF IInv, TypeOK
  <2>3. Single' /\ FlagIsTask' /\ NotYet' /\ PendingIsLatest' /\ ReplacesForEvent'
    BY <2>1 DEF IInv, Single, FlagIsTask, NotYet, PendingIsLatest, ReplacesForEvent, Running, At
  <2>4. InOrder' /\ Ordered'
    BY <2>1 DEF IInv, InOrder, Ordered, Behind, Running
  <2> QED BY <2>2, <2>3, <2>4 DEF IInv
<1> QED BY <1>1, <1>2, <1>3, <1>4 DEF Next

LEMMA Invariance == Spec => []IInv
BY InitInv, NextInv, PTL DEF Spec

\* There is at most one task, and the flag says whether there is.
LEMMA CountRunning ==
  ASSUME IInv
  PROVE  /\ Cardinality({f \in Frames : Running(f)}) = IF processing THEN 1 ELSE 0
<1>1. CASE processing
  <2>1. PICK f \in Frames : Running(f)
    BY <1>1 DEF IInv, FlagIsTask
  <2>2. {g \in Frames : Running(g)} = {f}
    BY <2>1 DEF IInv, Single
  <2> QED BY <1>1, <2>2, FS_Singleton
<1>2. CASE ~ processing
  <2>1. {g \in Frames : Running(g)} = {}
    BY <1>2 DEF IInv, FlagIsTask
  <2> QED BY <1>2, <2>1, FS_EmptySet
<1> QED BY <1>1, <1>2

\* What the tasks of a session rely on at every await holds for any stream of
\* frames and any failures (ws_annotation): one task, the newest frame waits,
\* and frames are kept and answered in order.
THEOREM SessionFits == Spec => []SessionInv
<1>1. IInv => SessionInv
  BY CountRunning DEF IInv, SessionInv, OneInFlight, FlagIsTask
<1> QED BY <1>1, Invariance, PTL

\* A clip ends only when it was saved (_finalize_clip).
THEOREM ClipsAreSaved == Spec => ClipNotLost
<1> DEFINE A == clip # NoClip /\ clip'.event # clip.event => saved'[clip.event] > 0
<1>1. IInv /\ [Next]_vars => [A]_vars
  <2> SUFFICES ASSUME IInv, Next, clip # NoClip, clip'.event # clip.event
               PROVE  saved'[clip.event] > 0
    OBVIOUS
  <2>1. clip \in Clips /\ saved \in [Events -> Nat] /\ clip.event \in Events
    BY TypeFacts DEF IInv, TypeOK, Clips
  <2>2. Finalize => saved'[clip.event] > 0
    BY <2>1 DEF Finalize
  <2>3. ASSUME NEW f \in Frames, Keep(f) PROVE clip'.event = clip.event
    BY <2>1, <2>3 DEF Keep, Clips
  <2>4. ASSUME NEW f \in Frames, Announce(f) PROVE UNCHANGED clip
    BY <2>4 DEF Announce, MustSave
  <2>5. ASSUME NEW f \in Frames, Replace(f) \/ Finish(f) PROVE saved'[clip.event] > 0
    BY <2>2, <2>5 DEF Replace, Finish
  <2>6. ASSUME NEW f \in Frames, TaskStep(f), ~ Keep(f), ~ Announce(f), ~ Replace(f), ~ Finish(f)
        PROVE  UNCHANGED clip
    BY <2>6 DEF TaskStep, Decode, DetectFails, ReplaceFails, Detect, FinishFails, Answer, SendFails, Close
  <2>7. CASE Receive \/ SendBusy \/ ClientLeaves \/ Disconnected
    BY <2>7 DEF Receive, SendBusy, ClientLeaves, Disconnected
  <2> QED BY <2>3, <2>4, <2>5, <2>6, <2>7 DEF Next
<1> QED BY <1>1, Invariance, PTL DEF Spec, ClipNotLost

HeldIs == Held = (IF processing THEN 1 ELSE 0) + (IF pending = None THEN 0 ELSE 1)

\* Every step of a session is a step of the server that the browser relies on, or
\* leaves unchanged what it holds; that it answers is checked as ImplementsServer.
THEOREM SessionIsServer == Spec => Server!Init /\ [][Server!Next]_Held
<1>1. Init => Server!Init
  <2> SUFFICES ASSUME Init PROVE Held = 0
    BY DEF Server!Init
  <2>1. IInv
    BY InitInv
  <2> QED BY <2>1, CountRunning DEF Init, Held
<1>2. IInv /\ HeldIs /\ HeldIs' /\ [Next]_vars => [Server!Next]_Held
  <2> SUFFICES ASSUME IInv, HeldIs, HeldIs', [Next]_vars PROVE Server!Next \/ Held' = Held
    OBVIOUS
  <2>1. Held = (IF processing THEN 1 ELSE 0) + (IF pending = None THEN 0 ELSE 1)
    BY DEF HeldIs
  <2>2. Held' = (IF processing' THEN 1 ELSE 0) + (IF pending' = None THEN 0 ELSE 1)
    BY DEF HeldIs
  <2>3. pending # None => processing
    BY DEF IInv, PendingIsLatest
  <2>4. CASE Receive
    <3>1. CASE processing
      <4>1. processing' = processing /\ pending' # None
        BY <2>4, <3>1, FramesAreNat, TypeFacts DEF IInv, Receive, Waits, Frames
      <4> QED BY <2>1, <2>2, <3>1, <4>1 DEF Server!Next, Server!Take, Server!KeepsNewest
    <3>2. CASE ~ processing
      <4>1. processing' = TRUE /\ pending' = pending
        BY <2>4, <3>2 DEF Receive, FlagNow
      <4> QED BY <2>1, <2>2, <2>3, <3>2, <4>1 DEF Server!Next, Server!Take, Server!KeepsNewest
    <3> QED BY <3>1, <3>2
  <2>5. ASSUME NEW f \in Frames, Answer(f) \/ Close(f) PROVE Server!Next
    <3>1. processing /\ StartPending(f)
      <4>1. Running(f)
        BY <2>5, RunningFacts DEF IInv, Answer, Close, At
      <4> QED BY <2>5, <4>1 DEF IInv, FlagIsTask, Answer, Close
    <3>2. Held' = Held - 1 /\ Held > 0
      BY <2>1, <2>2, <3>1 DEF StartPending
    <3> QED BY <3>2 DEF Server!Next, Server!Give
  <2>6. ASSUME NEW f \in Frames, TaskStep(f), ~ Answer(f), ~ Close(f)
        PROVE  processing' = processing /\ pending' = pending
    BY <2>6 DEF TaskStep, Decode, DetectFails, Announce, Replace, ReplaceFails, Detect, Keep, Finish,
                FinishFails, SendFails
  <2>7. CASE SendBusy \/ ClientLeaves \/ Disconnected \/ UNCHANGED vars
    BY <2>1, <2>2, <2>7 DEF SendBusy, ClientLeaves, Disconnected, vars
  <2> QED BY <2>1, <2>2, <2>4, <2>5, <2>6, <2>7 DEF Next
<1>3. IInv => HeldIs
  BY CountRunning DEF HeldIs, Held
<1> QED BY <1>1, <1>2, <1>3, Invariance, PTL DEF Spec

-----------------------------------------------------------------------------
(***************************************************************************)
(* How often a clip is saved                                               *)
(***************************************************************************)
\* Chances and the state of the task that runs.
LEMMA ChancesFacts ==
  ASSUME IInv
  PROVE  /\ Chances \in 0 .. 2
         /\ \A f \in Frames : MaySave(f) => Chances >= 1
         /\ \A f \in Frames : Running(f) /\ ~ MaySave(f) =>
              Chances = IF pending = None THEN 0 ELSE 1
         /\ \A f \in Frames : MaySave(f) =>
              Chances = 1 + (IF pending = None THEN 0 ELSE 1)
BY DEF IInv, Single, MaySave, Chances

\* A step that saves nothing and opens no clip.
LEMMA SaveKept ==
  ASSUME IInv, SaveInv, UNCHANGED <<saved, open>>,
         clip' # NoClip => clip # NoClip /\ clip'.event = clip.event,
         ~ open => Chances' <= Chances,
         \A e \in Events : Future(e)' => Future(e),
         Chances' \in 0 .. 2, SavesClip'
  PROVE  SaveInv'
<1>1. saved \in [Events -> Nat] /\ (clip # NoClip => clip.event \in Events)
  BY TypeFacts DEF IInv, TypeOK, Clips
<1>2. SavedOnce'
  BY DEF SaveInv, SavedOnce
<1>3. ClipInv'
  BY <1>1, ChancesFacts DEF SaveInv, ClipInv
<1>4. FutureInv'
  BY DEF SaveInv, FutureInv
<1> QED BY <1>2, <1>3, <1>4 DEF SaveInv

\* A task goes on without going back: nothing becomes an event to come.
LEMMA TaskForward ==
  ASSUME IInv, IInv', NEW f \in Frames, Running(f), NEW t \in Tasks,
         task' = [task EXCEPT ![f] = t], UNCHANGED pending,
         t.pc \in {"new", "detect"} => task[f].pc \in {"new", "detect"},
         t.pc \in {"announce", "replace"} =>
           \/ task[f].pc \in {"new", "detect"}
           \/ task[f].pc \in {"announce", "replace"} /\ t.todo <= task[f].todo,
         t.pc \notin {"answer", "close"} => MaySave(f)
  PROVE  /\ \A e \in Events : Future(e)' => Future(e)
         /\ Chances' \in 0 .. 2 /\ Chances' <= Chances
         /\ MaySave(f) /\ t.pc \in {"answer", "close"} => Chances' = Chances - 1
<1>1. task'[f] = t /\ \A g \in Frames \ {f} : task'[g] = task[g]
  BY TypeFacts DEF IInv
<1>2. \A g \in Frames : Running(g)' <=> Running(g)
  BY <1>1, RunningFacts DEF IInv, Running
<1>3. ASSUME NEW e \in Events, Future(e)' PROVE Future(e)
  <2>1. e.frame \in Frames /\ e.nr \in Nat
    BY SessionAssumption DEF Events
  <2>2. CASE e.frame # f
    BY <1>1, <1>2, <1>3, <2>1, <2>2 DEF Future
  <2>3. CASE e.frame = f
    <3>1. task[f] \in Tasks /\ task[f].todo \in Nat /\ t.todo \in Nat /\ t # NoTask
      BY RunningFacts DEF IInv, Tasks
    <3>2. \/ t.pc \in {"new", "detect"}
          \/ t.pc \in {"announce", "replace"} /\ e.nr <= t.todo
      BY <1>1, <1>3, <2>3, <3>1 DEF Future
    <3> QED BY <2>1, <2>3, <3>1, <3>2 DEF Future
  <2> QED BY <2>2, <2>3
<1>4. \A g \in Frames : MaySave(g)' <=> g = f /\ t.pc \notin {"answer", "close"}
  BY <1>1, <1>2 DEF IInv, Single, MaySave
<1>5. Chances' = (IF t.pc \in {"answer", "close"} THEN 0 ELSE 1)
                   + (IF pending = None THEN 0 ELSE 1)
  BY <1>4 DEF Chances
<1>6. Chances = (IF MaySave(f) THEN 1 ELSE 0) + (IF pending = None THEN 0 ELSE 1)
  BY ChancesFacts
<1> QED BY <1>3, <1>5, <1>6

\* What saving the clip does to the counts.
LEMMA FinalizeCounts ==
  ASSUME IInv, SaveInv, Finalize, UNCHANGED open,
         NEW f \in Frames, task[f].pc \in {"replace", "finish"}
  PROVE  /\ SavedOnce'
         /\ \A e \in Events : Future(e) => saved'[e] = 0
         /\ clip # NoClip /\ clip.event \in Events
         /\ saved'[clip.event] = saved[clip.event] + 1
<1>1. saved \in [Events -> Nat] /\ saved' = [saved EXCEPT ![clip.event] = @ + 1]
  BY DEF IInv, TypeOK, Finalize
<1>2. MaySave(f) /\ clip # NoClip
  BY RunningFacts DEF IInv, SaveInv, SavesClip, MaySave
<1>3. SavedOnce' /\ (\A e \in Events : Future(e) => saved'[e] = 0)
        /\ clip.event \in Events /\ saved'[clip.event] = saved[clip.event] + 1
  <2>1. clip.event \in Events
    BY <1>2, TypeFacts DEF IInv, Clips
  <2>2. saved'[clip.event] = saved[clip.event] + 1
    BY <1>1, <2>1
  <2>3. \A e \in Events : e # clip.event => saved'[e] = saved[e]
    BY <1>1
  <2>4. saved'[clip.event] <= IF open THEN 1 ELSE 2
    <3>1. Chances >= 1 /\ Chances \in 0 .. 2
      BY <1>2, ChancesFacts
    <3>2. IF open THEN saved[clip.event] = 0 ELSE saved[clip.event] + Chances <= 2
      BY <1>2 DEF SaveInv, ClipInv
    <3> QED BY <1>1, <2>1, <2>2, <3>1, <3>2
  <2>5. SavedOnce'
    BY <2>3, <2>4 DEF SaveInv, SavedOnce
  <2>6. \A e \in Events : Future(e) => saved'[e] = 0
    BY <1>2, <2>3 DEF SaveInv, FutureInv
  <2> QED BY <2>1, <2>2, <2>5, <2>6
<1> QED BY <1>2, <1>3

\* The clip is saved, though the client is not there, and the task ends.
LEMMA SaveFails ==
  ASSUME IInv, IInv', SaveInv, NEW f \in Frames, ReplaceFails(f) \/ FinishFails(f)
  PROVE  SaveInv'
<1>1. /\ task[f].pc \in {"replace", "finish"} /\ ~ open /\ Finalize /\ Goes(f, "close")
      /\ UNCHANGED <<pending, open, clip>>
  BY DEF ReplaceFails, FinishFails, At
<1>2. Running(f) /\ MaySave(f)
  BY <1>1, RunningFacts DEF IInv, MaySave
<1>3. PICK t \in Tasks : task' = [task EXCEPT ![f] = t] /\ t.pc = "close"
  BY <1>1, <1>2, GoesFacts DEF IInv
<1>4. (\A e \in Events : Future(e)' => Future(e)) /\ Chances' = Chances - 1
  BY <1>1, <1>2, <1>3, TaskForward
<1>5. /\ SavedOnce' /\ (\A e \in Events : Future(e) => saved'[e] = 0)
      /\ clip # NoClip /\ clip.event \in Events
      /\ saved'[clip.event] = saved[clip.event] + 1
  BY <1>1, FinalizeCounts
<1>6. ClipInv'
  <2>1. saved[clip.event] + Chances <= 2 /\ saved[clip.event] \in Nat
    BY <1>1, <1>5 DEF IInv, TypeOK, SaveInv, ClipInv
  <2> QED BY <1>1, <1>4, <1>5, <2>1, ChancesFacts DEF ClipInv
<1>7. FutureInv' /\ SavesClip'
  BY <1>1, <1>4, <1>5 DEF SaveInv, FutureInv, SavesClip
<1> QED BY <1>5, <1>6, <1>7 DEF SaveInv

\* A clip is opened for an event that is announced, after the one before it was saved.
LEMMA SaveOpens ==
  ASSUME IInv, IInv', SaveInv, NEW f \in Frames, MaySave(f), task[f].todo > 0,
         task[f].pc \in {"announce", "replace"}, OpenClip(f), Announced(f),
         UNCHANGED <<pending, open>>, SavedOnce',
         \A e \in Events : Future(e) => saved'[e] = 0
  PROVE  SaveInv'
<1>1. Running(f) /\ task[f] \in Tasks
  BY RunningFacts DEF IInv, MaySave
<1>2. PICK t \in Tasks : task' = [task EXCEPT ![f] = t] /\ t.pc = "announce"
                         /\ t.todo = task[f].todo - 1
  BY <1>1, AnnouncedFacts DEF IInv
<1>3. /\ \A e \in Events : Future(e)' => Future(e)
      /\ Chances' \in 0 .. 2
  <2>1. t.todo <= task[f].todo
    BY <1>1, <1>2 DEF Tasks
  <2> QED BY <1>1, <1>2, <2>1, TaskForward
<1>4. PICK e \in Events : /\ clip' # NoClip /\ clip'.event = e
                          /\ e.frame = f /\ e.nr = task[f].todo
  <2>1. task[f].todo \in 1 .. MaxEvents
    BY <1>1, SessionAssumption DEF Tasks
  <2> QED BY <2>1 DEF OpenClip, Event, Events, NoClip
<1>5. Future(e) /\ ~ Future(e)'
  <2>1. Future(e)
    BY <1>1, <1>4 DEF Future, Tasks
  <2>2. task'[f] = t /\ t # NoTask /\ task[f].todo \in Nat
    BY <1>1, <1>2, RunningFacts, TypeFacts DEF IInv, Tasks
  <2>3. ~ Future(e)'
    BY <1>2, <1>4, <2>2 DEF Future
  <2> QED BY <2>1, <2>3
<1>6. ClipInv'
  BY <1>3, <1>4, <1>5 DEF ClipInv
<1>7. FutureInv'
  BY <1>3, <1>4, <1>5 DEF FutureInv
<1>8. SavesClip'
  BY <1>4 DEF SavesClip
<1> QED BY <1>6, <1>7, <1>8 DEF SaveInv

\* The receive loop and the client save nothing.
LEMMA SaveLoop ==
  ASSUME IInv, IInv', SaveInv,
         Receive \/ SendBusy \/ ClientLeaves \/ Disconnected \/ UNCHANGED vars
  PROVE  SaveInv'
<1>1. CASE Receive
  <2>1. PICK f \in Frames : f = received + 1
    BY <1>1, TypeFacts DEF IInv, Receive, Frames
  <2>2. task[f] = NoTask
    BY <2>1, FramesAreNat, TypeFacts DEF IInv, NotYet
  <2>3. open /\ UNCHANGED <<open, clip, saved>>
          /\ (UNCHANGED task \/ task' = [task EXCEPT ![f] = New])
    BY <1>1, <2>1 DEF Receive
  <2>4. \A e \in Events : Future(e)' => Future(e)
    BY <2>2, <2>3, TypeFacts DEF IInv, Future, Events, Running
  <2>5. SavesClip'
    BY <2>3, TypeFacts DEF IInv, SaveInv, SavesClip, New
  <2> QED BY <2>3, <2>4, <2>5, ChancesFacts, SaveKept DEF Chances
<1>2. CASE SendBusy \/ Disconnected \/ UNCHANGED vars
  <2>1. UNCHANGED <<task, pending, open, clip, saved>>
    BY <1>2 DEF SendBusy, Disconnected, vars
  <2>2. Chances' = Chances /\ (\A e \in Events : Future(e)' = Future(e)) /\ SavesClip'
    BY <2>1 DEF Chances, MaySave, Running, Future, SaveInv, SavesClip
  <2> QED BY <2>1, <2>2, ChancesFacts, SaveKept
<1>3. CASE ClientLeaves
  <2>1. open /\ ~ open' /\ UNCHANGED <<task, pending, clip, saved>>
    BY <1>3 DEF ClientLeaves
  <2>2. Chances' = Chances /\ (\A e \in Events : Future(e)' = Future(e)) /\ SavesClip'
    BY <2>1 DEF Chances, MaySave, Running, Future, SaveInv, SavesClip
  <2>3. ClipInv'
    BY <2>1, <2>2, ChancesFacts DEF SaveInv, ClipInv
  <2>4. FutureInv'
    BY <2>1, <2>2 DEF SaveInv, FutureInv
  <2>5. SavedOnce'
    <3>1. \A e \in Events : saved[e] \in Nat /\ saved[e] <= 1
      BY <2>1 DEF IInv, TypeOK, SaveInv, SavedOnce
    <3> QED BY <2>1, <3>1 DEF SavedOnce
  <2> QED BY <2>2, <2>3, <2>4, <2>5 DEF SaveInv
<1> QED BY <1>1, <1>2, <1>3

\* Nor does a task that goes on, unless it is at the end of a clip.
LEMMA SaveQuiet ==
  ASSUME IInv, IInv', SaveInv, NEW f \in Frames,
         \/ Decode(f) \/ DetectFails(f) \/ SendFails(f)
         \/ \E n \in 0 .. MaxEvents : \E saves \in SUBSET (1 .. n) : Detect(f, n, saves)
  PROVE  SaveInv'
<1>1. /\ task[f].pc \in {"new", "detect", "announce", "answer"}
      /\ UNCHANGED <<open, pending, clip, saved>>
  BY DEF Decode, DetectFails, SendFails, Detect, At
<1>2. Running(f)
  BY <1>1, RunningFacts DEF IInv
<1>3. PICK t \in Tasks :
        /\ task' = [task EXCEPT ![f] = t]
        /\ \/ t.pc = "close"
           \/ task[f].pc \in {"new", "detect"} /\ t.pc \in {"detect", "announce"}
  <2>1. CASE Decode(f) \/ DetectFails(f) \/ SendFails(f)
    <3>1. Goes(f, "close") \/ (Goes(f, "detect") /\ task[f].pc = "new")
      BY <2>1 DEF Decode, DetectFails, SendFails, At
    <3> QED BY <1>2, <3>1, GoesFacts DEF IInv
  <2>2. ASSUME NEW n \in 0 .. MaxEvents, NEW saves \in SUBSET (1 .. n), Detect(f, n, saves)
        PROVE  \E t \in Tasks :
                 /\ task' = [task EXCEPT ![f] = t]
                 /\ task[f].pc \in {"new", "detect"} /\ t.pc = "announce"
    <3> DEFINE t == [pc |-> "announce", todo |-> n, saves |-> saves]
    <3>1. task[f].pc = "detect" /\ task' = [task EXCEPT ![f] = t]
      BY <2>2 DEF Detect, At
    <3>2. saves \in SUBSET (1 .. MaxEvents)
      BY SessionAssumption
    <3>3. t \in Tasks /\ t.pc = "announce"
      BY <3>2 DEF Tasks
    <3> HIDE DEF t
    <3> QED BY <3>1, <3>3
  <2> QED BY <2>1, <2>2
<1>4. /\ \A e \in Events : Future(e)' => Future(e)
      /\ Chances' \in 0 .. 2 /\ Chances' <= Chances
  BY <1>1, <1>2, <1>3, TaskForward DEF MaySave
<1>5. SavesClip'
  BY <1>1, <1>3, TypeFacts DEF IInv, SaveInv, SavesClip
<1> QED BY <1>1, <1>4, <1>5, SaveKept

LEMMA SaveAnnounce ==
  ASSUME IInv, IInv', SaveInv, NEW f \in Frames, Announce(f)
  PROVE  SaveInv'
<1>1. /\ task[f].pc = "announce" /\ task[f].todo > 0
      /\ UNCHANGED <<open, pending, saved>>
  BY DEF Announce, At
<1>2. Running(f) /\ MaySave(f) /\ task[f] \in Tasks
  BY <1>1, RunningFacts DEF IInv, MaySave
<1>3. CASE Goes(f, "replace") /\ UNCHANGED clip /\ clip # NoClip
  <2>1. PICK t \in Tasks : task' = [task EXCEPT ![f] = t] /\ t.pc = "replace"
                           /\ t.todo = task[f].todo
    BY <1>1, <1>2, <1>3, GoesFacts DEF IInv
  <2>2. t.todo <= task[f].todo
    BY <2>1 DEF Tasks
  <2>3. /\ \A e \in Events : Future(e)' => Future(e)
        /\ Chances' \in 0 .. 2 /\ Chances' <= Chances
    BY <1>1, <1>2, <2>1, <2>2, TaskForward
  <2>4. SavesClip'
    BY <1>3 DEF SavesClip
  <2> QED BY <1>1, <1>3, <2>3, <2>4, SaveKept
<1>4. CASE OpenClip(f) /\ Announced(f)
  BY <1>1, <1>2, <1>4, SaveOpens DEF SaveInv, SavedOnce, FutureInv
<1>5. CASE Announced(f) /\ UNCHANGED clip
  <2>1. PICK t \in Tasks : task' = [task EXCEPT ![f] = t] /\ t.pc = "announce"
                           /\ t.todo = task[f].todo - 1
    BY <1>1, <1>2, <1>5, AnnouncedFacts DEF IInv
  <2>2. t.todo <= task[f].todo
    BY <1>2, <2>1 DEF Tasks
  <2>3. /\ \A e \in Events : Future(e)' => Future(e)
        /\ Chances' \in 0 .. 2 /\ Chances' <= Chances
    BY <1>1, <1>2, <2>1, <2>2, TaskForward
  <2>4. SavesClip'
    BY <1>5, <2>1, TypeFacts DEF IInv, SaveInv, SavesClip
  <2> QED BY <1>1, <1>5, <2>3, <2>4, SaveKept
<1> QED BY <1>3, <1>4, <1>5 DEF Announce, MustSave

LEMMA SaveKeep ==
  ASSUME IInv, IInv', SaveInv, NEW f \in Frames, Keep(f)
  PROVE  SaveInv'
<1>1. /\ task[f].pc = "announce"
      /\ UNCHANGED <<open, pending, saved>>
      /\ Goes(f, "answer") \/ (Goes(f, "finish") /\ clip # NoClip)
  BY DEF Keep, At
<1>2. Running(f) /\ MaySave(f)
  BY <1>1, RunningFacts DEF IInv, MaySave
<1>3. PICK t \in Tasks : /\ task' = [task EXCEPT ![f] = t]
                         /\ t.pc = "answer" \/ (t.pc = "finish" /\ clip # NoClip)
  BY <1>1, <1>2, GoesFacts DEF IInv
<1>4. /\ \A e \in Events : Future(e)' => Future(e)
      /\ Chances' \in 0 .. 2 /\ Chances' <= Chances
  BY <1>1, <1>2, <1>3, TaskForward
<1>5. (clip = NoClip => clip' = NoClip)
        /\ (clip # NoClip => clip' # NoClip /\ clip'.event = clip.event)
  <2>1. CASE clip # NoClip
    <3>1. clip \in Clips /\ clip' = [clip EXCEPT !.left = clip.left - 1, !.entries = Append(clip.entries, f)]
      BY <2>1, TypeFacts DEF IInv, Keep
    <3>2. clip' = [event |-> clip.event, left |-> clip.left - 1, entries |-> Append(clip.entries, f)]
      BY <3>1 DEF Clips
    <3> QED BY <2>1, <3>2 DEF NoClip
  <2> QED BY <2>1 DEF Keep
<1>6. SavesClip'
  BY <1>3, <1>5, TypeFacts DEF IInv, SaveInv, SavesClip
<1> QED BY <1>1, <1>4, <1>5, <1>6, SaveKept

LEMMA SaveFinish ==
  ASSUME IInv, IInv', SaveInv, NEW f \in Frames, Finish(f)
  PROVE  SaveInv'
<1>1. /\ task[f].pc = "finish" /\ Finalize /\ clip' = NoClip /\ Goes(f, "answer")
      /\ UNCHANGED <<open, pending>>
  BY DEF Finish, At, ClearClip
<1>2. Running(f) /\ MaySave(f)
  BY <1>1, RunningFacts DEF IInv, MaySave
<1>3. PICK t \in Tasks : task' = [task EXCEPT ![f] = t] /\ t.pc = "answer"
  BY <1>1, <1>2, GoesFacts DEF IInv
<1>4. \A e \in Events : Future(e)' => Future(e)
  BY <1>1, <1>2, <1>3, TaskForward
<1>5. SavedOnce' /\ \A e \in Events : Future(e) => saved'[e] = 0
  BY <1>1, FinalizeCounts
<1>6. ClipInv' /\ FutureInv'
  BY <1>1, <1>4, <1>5 DEF ClipInv, FutureInv
<1>7. SavesClip'
  <2> SUFFICES ASSUME NEW g \in Frames PROVE task'[g].pc \notin {"replace", "finish"}
    BY DEF SavesClip
  <2>1. CASE g = f
    BY <1>3, <2>1, TypeFacts DEF IInv
  <2>2. CASE g # f
    <3>1. ~ Running(g) /\ task'[g] = task[g]
      BY <1>2, <1>3, <2>2, TypeFacts DEF IInv, Single
    <3> QED BY <3>1, RunningFacts DEF IInv
  <2> QED BY <2>1, <2>2
<1> QED BY <1>5, <1>6, <1>7 DEF SaveInv

LEMMA SaveReplace ==
  ASSUME IInv, IInv', SaveInv, NEW f \in Frames, Replace(f)
  PROVE  SaveInv'
<1>1. /\ task[f].pc = "replace" /\ Finalize /\ OpenClip(f) /\ Announced(f)
      /\ UNCHANGED <<open, pending>>
  BY DEF Replace, At
<1>2. MaySave(f) /\ task[f].todo > 0
  BY <1>1, RunningFacts DEF IInv, MaySave, ReplacesForEvent, At
<1>3. SavedOnce' /\ \A e \in Events : Future(e) => saved'[e] = 0
  BY <1>1, FinalizeCounts
<1> QED BY <1>1, <1>2, <1>3, SaveOpens

\* A task that ends hands its chance to the frame that waited.
LEMMA SaveEnd ==
  ASSUME IInv, IInv', SaveInv, NEW f \in Frames, Answer(f) \/ Close(f)
  PROVE  SaveInv'
<1>1. /\ task[f].pc \in {"answer", "close"} /\ StartPending(f)
      /\ UNCHANGED <<open, clip, saved>>
  BY DEF Answer, Close, At
<1>2. Running(f) /\ ~ MaySave(f)
  BY <1>1, RunningFacts DEF IInv, MaySave
<1>3. Chances = IF pending = None THEN 0 ELSE 1
  BY <1>2, ChancesFacts
<1>4. CASE pending = None
  <2>1. task' = [task EXCEPT ![f] = Ended] /\ pending' = None
    BY <1>1, <1>4 DEF StartPending
  <2>2. task'[f] = Ended /\ \A g \in Frames \ {f} : task'[g] = task[g]
    BY <2>1, TypeFacts DEF IInv
  <2>3. \A g \in Frames : ~ Running(g)'
    BY <1>2, <2>2 DEF IInv, Single, Running
  <2>4. Chances' = 0
    BY <2>1, <2>3 DEF Chances, MaySave
  <2>5. \A e \in Events : Future(e)' => Future(e)
    BY <2>2, <2>3 DEF Future, Events, NoTask, Ended
  <2>6. SavesClip'
    BY <1>1, <2>2 DEF SaveInv, SavesClip, Ended
  <2> QED BY <1>1, <1>3, <1>4, <2>4, <2>5, <2>6, SaveKept
<1>5. CASE pending # None
  <2>1. PICK p \in Frames : p = pending /\ task[p] = NoTask
    BY <1>5, TypeFacts DEF IInv, NotYet
  <2>2. task' = [task EXCEPT ![f] = Ended, ![p] = New] /\ pending' = None /\ p # f
    BY <1>1, <1>2, <1>5, <2>1 DEF StartPending, Running
  <2>3. /\ task'[f] = Ended /\ task'[p] = New
        /\ \A g \in Frames \ {f, p} : task'[g] = task[g]
    BY <2>2, TypeFacts DEF IInv
  <2>4. Chances' \in 0 .. 1
    BY <2>2 DEF Chances
  <2>5. ASSUME NEW e \in Events, Future(e)' PROVE Future(e)
    <3>1. e.frame \in Frames
      BY DEF Events
    <3>2. CASE e.frame = p
      BY <2>1, <3>2 DEF Future
    <3>3. CASE e.frame = f
      BY <2>3, <2>5, <3>3 DEF Future, Running, NoTask, Ended
    <3>4. CASE e.frame \notin {f, p}
      BY <2>3, <2>5, <3>1, <3>4 DEF Future, Running
    <3> QED BY <3>2, <3>3, <3>4
  <2>6. SavesClip'
    BY <1>1, <2>3 DEF SaveInv, SavesClip, Ended, New
  <2> QED BY <1>1, <1>3, <1>5, <2>4, <2>5, <2>6, SaveKept
<1> QED BY <1>4, <1>5

LEMMA InitSave == Init => SaveInv
<1> SUFFICES ASSUME Init PROVE SaveInv
  OBVIOUS
<1>1. SavedOnce /\ ClipInv /\ FutureInv
  BY DEF Init, SavedOnce, ClipInv, FutureInv
<1>2. SavesClip
  BY DEF Init, SavesClip, NoTask
<1> QED BY <1>1, <1>2 DEF SaveInv

LEMMA NextSave == IInv /\ IInv' /\ SaveInv /\ [Next]_vars => SaveInv'
<1> SUFFICES ASSUME IInv, IInv', SaveInv, [Next]_vars PROVE SaveInv'
  OBVIOUS
<1>1. CASE Receive \/ SendBusy \/ ClientLeaves \/ Disconnected \/ UNCHANGED vars
  BY <1>1, SaveLoop
<1>2. ASSUME NEW f \in Frames, TaskStep(f) PROVE SaveInv'
  BY <1>2, SaveQuiet, SaveAnnounce, SaveReplace, SaveFails, SaveKeep, SaveFinish, SaveEnd
     DEF TaskStep
<1> QED BY <1>1, <1>2 DEF Next

\* While the client is there, each event has its clip saved at most once, and at most
\* twice when it leaves, for any number of frames and events (_finalize_clip): every
\* save is followed by a new clip or none, unless it is the telling that fails.
THEOREM ClipsAreSavedOnce == Spec => []SavedOnce
<1>1. SaveInv => SavedOnce
  BY DEF SaveInv
<1> QED BY <1>1, InitInv, NextInv, InitSave, NextSave, Invariance, PTL DEF Spec

-----------------------------------------------------------------------------
(***************************************************************************)
(* The browser                                                             *)
(***************************************************************************)
\* Nothing is under way for a run that has not begun, and only the socket of the last
\* run may be open.
LaterRuns ==
  \A r \in Runs : r > run => /\ socket[r] = "none" /\ captures[r] = 0
                            /\ server[r] = 0 /\ inbox[r] = << >>
OnlyLast ==
  /\ active => run > 0
  /\ \A r \in Runs : socket[r] \in {"connecting", "open"} => active /\ r = run

\* In the first run the flag is up as long as its frame is under way.
FirstRun ==
  run = 1 /\ socket[1] \in {"connecting", "open"} /\ UnderWay(1) > 0 => inferencing

\* A run brings two chances to capture a frame: its own, and one more when its socket
\* has closed.  A frame takes a chance and gives it back when it ends, so the frames
\* under way are never more than the chances.
Pairs(n) == {p \in Runs \X Nat : p[2] \in 1 .. n[p[1]]}
Coming == Pairs([r \in Runs |-> UnderWay(r)])
Sockets == {r \in Runs : socket[r] \notin {"none", "closed"}}
Chance == IF active /\ ~ inferencing THEN 1 ELSE 0
Tries == /\ IsFiniteSet(Coming)
         /\ Cardinality(Coming) + Cardinality(Sockets) + Chance <= 2 * run

States == {"none", "connecting", "open", "closing", "closed"}
Messages == {"answer", "busy"}
\* types, but for the bound on the captures, which follows from Tries
Shape ==
  /\ run \in 0 .. MaxRuns
  /\ active \in BOOLEAN
  /\ socket \in [Runs -> States]
  /\ inferencing \in BOOLEAN /\ pendingSend \in BOOLEAN
  /\ captures \in [Runs -> Nat]
  /\ server \in [Runs -> 0 .. 2]
  /\ inbox \in [Runs -> Seq(Messages)]

RunInv == /\ Shape /\ LaterRuns /\ OnlyLast /\ HeldForAReason
          /\ OneFrame /\ FirstRun /\ Tries

-----------------------------------------------------------------------------
(***************************************************************************)
(* Counting                                                                *)
(***************************************************************************)
AnswersIn(s) == {i \in 1 .. Len(s) : s[i] = "answer"}

LEMMA AnswersFinite ==
  ASSUME NEW s \in Seq(Messages)
  PROVE  IsFiniteSet(AnswersIn(s)) /\ Cardinality(AnswersIn(s)) \in Nat
<1>1. Len(s) \in Nat
  BY LenProperties
<1>2. IsFiniteSet(1 .. Len(s)) /\ AnswersIn(s) \subseteq 1 .. Len(s)
  BY <1>1, FS_Interval DEF AnswersIn
<1>3. IsFiniteSet(AnswersIn(s))
  BY <1>2, FS_Subset
<1> QED BY <1>3, FS_CardinalityType

LEMMA AnswersAppend ==
  ASSUME NEW s \in Seq(Messages), NEW m \in Messages
  PROVE  /\ Append(s, m) \in Seq(Messages)
         /\ Cardinality(AnswersIn(Append(s, m))) =
              Cardinality(AnswersIn(s)) + (IF m = "answer" THEN 1 ELSE 0)
<1> DEFINE n == Len(s)
           t == Append(s, m)
<1>1. /\ n \in Nat /\ t \in Seq(Messages) /\ Len(t) = n + 1 /\ t[n + 1] = m
      /\ \A i \in 1 .. n : t[i] = s[i]
  BY LenProperties, AppendProperties
<1>2. n + 1 \notin AnswersIn(s) /\ IsFiniteSet(AnswersIn(s))
  BY <1>1, AnswersFinite DEF AnswersIn
<1> HIDE DEF n, t
<1>3. CASE m = "answer"
  <2>1. AnswersIn(t) = AnswersIn(s) \cup {n + 1}
    BY <1>1, <1>3 DEF AnswersIn, n
  <2> QED BY <1>1, <1>2, <1>3, <2>1, FS_AddElement DEF t
<1>4. CASE m # "answer"
  <2>1. AnswersIn(t) = AnswersIn(s)
    BY <1>1, <1>4 DEF AnswersIn, n
  <2> QED BY <1>1, <1>4, <2>1, AnswersFinite DEF t
<1> QED BY <1>3, <1>4

LEMMA AnswersTail ==
  ASSUME NEW s \in Seq(Messages), s # << >>
  PROVE  /\ Tail(s) \in Seq(Messages) /\ Head(s) \in Messages
         /\ Cardinality(AnswersIn(s)) =
              Cardinality(AnswersIn(Tail(s))) + (IF Head(s) = "answer" THEN 1 ELSE 0)
<1> DEFINE n == Len(s)
           t == Tail(s)
           up == [i \in AnswersIn(t) |-> i + 1]
           rest == AnswersIn(s) \ {1}
<1>1. /\ n \in Nat /\ n > 0 /\ t \in Seq(Messages) /\ Len(t) = n - 1
      /\ \A i \in 1 .. n - 1 : t[i] = s[i + 1]
      /\ Head(s) = s[1] /\ Head(s) \in Messages
  BY LenProperties, HeadTailProperties, EmptySeq
<1>2. AnswersIn(t) \subseteq 1 .. n - 1 /\ rest \subseteq 2 .. n
  BY <1>1 DEF AnswersIn
<1>3. \A i \in 1 .. n - 1 : i \in AnswersIn(t) <=> i + 1 \in rest
  BY <1>1 DEF AnswersIn
<1> HIDE DEF n, t, rest
<1>4. up \in Bijection(AnswersIn(t), rest)
  <2>1. up \in [AnswersIn(t) -> rest]
    BY <1>1, <1>2, <1>3
  <2>2. \A i, j \in AnswersIn(t) : up[i] = up[j] => i = j
    BY <1>1, <1>2
  <2>3. \A j \in rest : \E i \in AnswersIn(t) : up[i] = j
    <3> SUFFICES ASSUME NEW j \in rest PROVE \E i \in AnswersIn(t) : up[i] = j
      OBVIOUS
    <3>1. j - 1 \in 1 .. n - 1 /\ (j - 1) + 1 = j
      BY <1>1, <1>2
    <3>2. j - 1 \in AnswersIn(t)
      BY <1>3, <3>1
    <3> QED BY <3>1, <3>2
  <2> HIDE DEF up
  <2> QED BY <2>1, <2>2, <2>3 DEF Bijection, Injection, Surjection, IsInjective
<1>5. IsFiniteSet(AnswersIn(t)) /\ Cardinality(AnswersIn(t)) \in Nat
  BY <1>1, AnswersFinite
<1>6. Cardinality(rest) = Cardinality(AnswersIn(t))
  BY <1>4, <1>5, FS_Bijection DEF ExistsBijection
<1>7. 1 \in AnswersIn(s) <=> Head(s) = "answer"
  BY <1>1 DEF AnswersIn, n
<1>8. IsFiniteSet(AnswersIn(s)) /\ Cardinality(AnswersIn(s)) \in Nat
  BY AnswersFinite
<1>9. Cardinality(rest) = IF 1 \in AnswersIn(s) THEN Cardinality(AnswersIn(s)) - 1
                          ELSE Cardinality(AnswersIn(s))
  BY <1>8, FS_RemoveElement DEF rest
<1> QED BY <1>1, <1>5, <1>6, <1>7, <1>8, <1>9 DEF t

LEMMA AnswersNone == Cardinality(AnswersIn(<< >>)) = 0 /\ << >> \in Seq(Messages)
<1>1. AnswersIn(<< >>) = {} /\ << >> \in Seq(Messages)
  BY EmptySeq DEF AnswersIn
<1> QED BY <1>1, FS_EmptySet

-----------------------------------------------------------------------------
LEMMA OneMore ==
  ASSUME NEW S, NEW x, NEW T \in SUBSET (S \cup {x}), IsFiniteSet(S)
  PROVE  /\ IsFiniteSet(T) /\ Cardinality(S) \in Nat /\ Cardinality(T) \in Nat
         /\ Cardinality(T) <= Cardinality(S) + 1
<1>1. Cardinality(S) \in Nat
  BY FS_CardinalityType
<1>2. /\ IsFiniteSet(S \cup {x})
      /\ Cardinality(S \cup {x}) = IF x \in S THEN Cardinality(S) ELSE Cardinality(S) + 1
  BY FS_AddElement
<1>3. IsFiniteSet(T) /\ Cardinality(T) <= Cardinality(S \cup {x})
  BY <1>2, FS_Subset
<1>4. Cardinality(T) \in Nat
  BY <1>3, FS_CardinalityType
<1> QED BY <1>1, <1>2, <1>3, <1>4

LEMMA OneLess ==
  ASSUME NEW S, NEW x \in S, NEW T \in SUBSET (S \ {x}), IsFiniteSet(S)
  PROVE  /\ IsFiniteSet(T) /\ Cardinality(S) \in Nat /\ Cardinality(T) \in Nat
         /\ Cardinality(T) + 1 <= Cardinality(S)
<1>1. Cardinality(S) \in Nat
  BY FS_CardinalityType
<1>2. IsFiniteSet(S \ {x}) /\ Cardinality(S \ {x}) = Cardinality(S) - 1
  BY FS_RemoveElement
<1>3. IsFiniteSet(T) /\ Cardinality(T) <= Cardinality(S \ {x})
  BY <1>2, FS_Subset
<1>4. Cardinality(T) \in Nat
  BY <1>3, FS_CardinalityType
<1> QED BY <1>1, <1>2, <1>3, <1>4

LEMMA NoneMore ==
  ASSUME NEW S, NEW T \in SUBSET S, IsFiniteSet(S)
  PROVE  /\ IsFiniteSet(T) /\ Cardinality(S) \in Nat /\ Cardinality(T) \in Nat
         /\ Cardinality(T) <= Cardinality(S)
BY FS_Subset, FS_CardinalityType

LEMMA PairsChange ==
  ASSUME NEW n \in [Runs -> Nat], NEW k \in [Runs -> Nat], NEW c \in Runs
  PROVE  /\ (\A r \in Runs : k[r] <= n[r]) => Pairs(k) \subseteq Pairs(n)
         /\ k[c] = n[c] + 1 /\ (\A r \in Runs \ {c} : k[r] <= n[r])
              => Pairs(k) \subseteq Pairs(n) \cup {<<c, k[c]>>}
         /\ k[c] < n[c] /\ (\A r \in Runs \ {c} : k[r] <= n[r])
              => /\ <<c, n[c]>> \in Pairs(n)
                 /\ Pairs(k) \subseteq Pairs(n) \ {<<c, n[c]>>}
BY DEF Pairs

\* The frames of one run are some of all.
LEMMA PairsHold ==
  ASSUME NEW n \in [Runs -> Nat], IsFiniteSet(Pairs(n)), NEW c \in Runs
  PROVE  n[c] <= Cardinality(Pairs(n))
<1> DEFINE mine == [i \in 1 .. n[c] |-> <<c, i>>]
<1>1. mine \in [1 .. n[c] -> Pairs(n)]
  BY DEF Pairs
<1>2. \A i, j \in 1 .. n[c] : mine[i] = mine[j] => i = j
  OBVIOUS
<1> HIDE DEF mine
<1>3. mine \in Injection(1 .. n[c], Pairs(n))
  BY <1>1, <1>2 DEF Injection, IsInjective
<1>4. Cardinality(1 .. n[c]) <= Cardinality(Pairs(n))
  BY <1>3, FS_Injection
<1>5. Cardinality(1 .. n[c]) = n[c]
  BY FS_Interval
<1> QED BY <1>4, <1>5

-----------------------------------------------------------------------------
(***************************************************************************)
(* What steps do to the counts                                             *)
(***************************************************************************)
Counts ==
  \A r \in Runs : /\ UnderWay(r) \in Nat
                  /\ Cardinality(AnswersIn(inbox[r])) \in Nat
                  /\ UnderWay(r) = captures[r] + server[r] + Cardinality(AnswersIn(inbox[r]))

Rows ==
  \A r \in Runs : /\ captures[r] \in Nat /\ server[r] \in 0 .. 2 /\ server[r] \in Nat
                  /\ inbox[r] \in Seq(Messages) /\ socket[r] \in States

LEMMA ShapeRows == Shape => Rows
BY DEF Shape, Rows

LEMMA RowsNext == Shape' => Rows'
BY ShapeRows, PTL

LEMMA ShapeCounts == Shape => Counts
<1> SUFFICES ASSUME Shape, NEW r \in Runs
             PROVE  /\ UnderWay(r) \in Nat
                    /\ Cardinality(AnswersIn(inbox[r])) \in Nat
                    /\ UnderWay(r) = captures[r] + server[r] + Cardinality(AnswersIn(inbox[r]))
  BY DEF Counts
<1>1. Cardinality(AnswersIn(inbox[r])) \in Nat
  BY AnswersFinite DEF Shape
<1>2. UnderWay(r) = captures[r] + server[r] + Cardinality(AnswersIn(inbox[r]))
  BY DEF UnderWay, Answers, AnswersIn
<1>3. captures[r] \in Nat /\ server[r] \in Nat
  BY DEF Shape
<1> QED BY <1>1, <1>2, <1>3

LEMMA CountsNext == Shape' => Counts'
BY ShapeCounts, PTL

\* No more frames are under way, of any run.
NoneNew == \A r \in Runs : UnderWay(r)' <= UnderWay(r)

LEMMA ComingLess ==
  ASSUME Shape, Shape', Tries, NoneNew
  PROVE  /\ IsFiniteSet(Coming') /\ Cardinality(Coming) \in Nat /\ Cardinality(Coming') \in Nat
         /\ Cardinality(Coming') <= Cardinality(Coming)
<1> DEFINE n == [r \in Runs |-> UnderWay(r)]
           k == [r \in Runs |-> UnderWay(r)']
<1>1. n \in [Runs -> Nat] /\ k \in [Runs -> Nat] /\ \A r \in Runs : k[r] <= n[r]
  BY ShapeCounts, CountsNext DEF Counts, NoneNew
<1>2. Coming = Pairs(n) /\ Coming' = Pairs(k)
  BY DEF Coming
<1> HIDE DEF n, k
<1>3. Pairs(k) \subseteq Pairs(n)
  BY <1>1 DEF Pairs
<1> QED BY <1>2, <1>3, NoneMore DEF Tries

LEMMA ComingMore ==
  ASSUME Shape, Shape', Tries, NEW c \in Runs, UnderWay(c)' = UnderWay(c) + 1,
         \A r \in Runs \ {c} : UnderWay(r)' <= UnderWay(r)
  PROVE  /\ IsFiniteSet(Coming') /\ Cardinality(Coming) \in Nat /\ Cardinality(Coming') \in Nat
         /\ Cardinality(Coming') <= Cardinality(Coming) + 1
<1> DEFINE n == [r \in Runs |-> UnderWay(r)]
           k == [r \in Runs |-> UnderWay(r)']
<1>1. /\ n \in [Runs -> Nat] /\ k \in [Runs -> Nat]
      /\ k[c] = n[c] + 1 /\ \A r \in Runs \ {c} : k[r] <= n[r]
  BY ShapeCounts, CountsNext DEF Counts
<1>2. Coming = Pairs(n) /\ Coming' = Pairs(k)
  BY DEF Coming
<1> HIDE DEF n, k
<1>3. Pairs(k) \subseteq Pairs(n) \cup {<<c, k[c]>>}
  BY <1>1, PairsChange
<1> QED BY <1>2, <1>3, OneMore DEF Tries

LEMMA ComingDrop ==
  ASSUME Shape, Shape', Tries, NEW c \in Runs, UnderWay(c)' < UnderWay(c),
         \A r \in Runs \ {c} : UnderWay(r)' <= UnderWay(r)
  PROVE  /\ IsFiniteSet(Coming') /\ Cardinality(Coming) \in Nat /\ Cardinality(Coming') \in Nat
         /\ Cardinality(Coming') + 1 <= Cardinality(Coming)
<1> DEFINE n == [r \in Runs |-> UnderWay(r)]
           k == [r \in Runs |-> UnderWay(r)']
<1>1. /\ n \in [Runs -> Nat] /\ k \in [Runs -> Nat]
      /\ k[c] < n[c] /\ \A r \in Runs \ {c} : k[r] <= n[r]
  BY ShapeCounts, CountsNext DEF Counts
<1>2. Coming = Pairs(n) /\ Coming' = Pairs(k)
  BY DEF Coming
<1> HIDE DEF n, k
<1>3. <<c, n[c]>> \in Pairs(n) /\ Pairs(k) \subseteq Pairs(n) \ {<<c, n[c]>>}
  BY <1>1, PairsChange
<1> QED BY <1>2, <1>3, OneLess DEF Tries

LEMMA SocketsFinite == IsFiniteSet(Sockets) /\ Cardinality(Sockets) \in Nat
<1>1. IsFiniteSet(Runs) /\ Sockets \subseteq Runs
  BY FS_Interval, ClientAssumption DEF Runs, Sockets
<1> QED BY <1>1, NoneMore

\* What a socket that closes takes away.
LEMMA HushedFacts ==
  ASSUME Shape, socket' \in [Runs -> States], Hushed(socket'), UNCHANGED captures
  PROVE  /\ server' \in [Runs -> 0 .. 2] /\ inbox' \in [Runs -> Seq(Messages)]
         /\ \A r \in Runs :
              /\ socket'[r] = "open" => server'[r] = server[r] /\ inbox'[r] = inbox[r]
              /\ server'[r] <= server[r]
              /\ socket'[r] # "open" => server'[r] = 0 /\ inbox'[r] = << >>
<1>1. /\ server' = [r \in Runs |-> IF socket'[r] = "open" THEN server[r] ELSE 0]
      /\ inbox' = [r \in Runs |-> IF socket'[r] = "open" THEN inbox[r] ELSE << >>]
  BY DEF Hushed
<1>2. \A r \in Runs : server[r] \in 0 .. 2 /\ inbox[r] \in Seq(Messages)
  BY DEF Shape
<1>3. << >> \in Seq(Messages)
  BY AnswersNone
<1> QED BY <1>1, <1>2, <1>3

LEMMA HushedLess ==
  ASSUME Shape, Shape', Hushed(socket'), UNCHANGED captures
  PROVE  NoneNew
<1> SUFFICES ASSUME NEW r \in Runs PROVE UnderWay(r)' <= UnderWay(r)
  BY DEF NoneNew
<1>1. /\ socket'[r] = "open" => server'[r] = server[r] /\ inbox'[r] = inbox[r]
      /\ server'[r] <= server[r]
      /\ socket'[r] # "open" => server'[r] = 0 /\ inbox'[r] = << >>
  BY HushedFacts DEF Shape
<1>2. /\ UnderWay(r) = captures[r] + server[r] + Cardinality(AnswersIn(inbox[r]))
      /\ UnderWay(r)' = captures'[r] + server'[r] + Cardinality(AnswersIn(inbox'[r]))
      /\ Cardinality(AnswersIn(inbox[r])) \in Nat /\ Cardinality(AnswersIn(inbox'[r])) \in Nat
  BY ShapeCounts, CountsNext DEF Counts
<1>3. captures'[r] = captures[r] /\ captures[r] \in Nat /\ server[r] \in Nat /\ server'[r] \in Nat
  BY ShapeRows, RowsNext DEF Rows
<1>4. CASE socket'[r] = "open"
  BY <1>1, <1>2, <1>3, <1>4
<1>5. CASE socket'[r] # "open"
  BY <1>1, <1>2, <1>3, <1>5, AnswersNone
<1> QED BY <1>4, <1>5

-----------------------------------------------------------------------------
(***************************************************************************)
(* Init and the steps                                                      *)
(***************************************************************************)
LEMMA InitClient == ClientInit => RunInv
<1> SUFFICES ASSUME ClientInit PROVE RunInv
  OBVIOUS
<1>1. << >> \in Seq(Messages) /\ Cardinality(AnswersIn(<< >>)) = 0
  BY AnswersNone
<1>2. Shape
  <2>1. run \in 0 .. MaxRuns
    BY ClientAssumption DEF ClientInit
  <2>2. socket \in [Runs -> States] /\ captures \in [Runs -> Nat] /\ server \in [Runs -> 0 .. 2]
    BY DEF ClientInit, States
  <2>3. inbox \in [Runs -> Seq(Messages)]
    BY <1>1 DEF ClientInit
  <2> QED BY <2>1, <2>2, <2>3 DEF ClientInit, Shape
<1>3. LaterRuns /\ OnlyLast /\ HeldForAReason /\ OneFrame /\ FirstRun
  BY DEF ClientInit, LaterRuns, OnlyLast, HeldForAReason, OneFrame, FirstRun
<1>4. \A r \in Runs : UnderWay(r) = 0
  BY <1>1, <1>2, ShapeCounts DEF ClientInit, Counts
<1>5. Coming = {} /\ Sockets = {}
  BY <1>4 DEF Coming, Pairs, Sockets, ClientInit
<1>6. Tries
  BY <1>5, FS_EmptySet DEF Tries, Chance, ClientInit
<1> QED BY <1>2, <1>3, <1>6 DEF RunInv

\* closing the socket of the last run
LEMMA CloseFacts ==
  ASSUME Shape, OnlyLast, NEW r \in Runs
  PROVE  /\ CloseSockets[r] \in States \ {"connecting", "open"}
         /\ socket[r] \in {"none", "closed"} => CloseSockets[r] = socket[r]
BY DEF CloseSockets, Shape, OnlyLast, States

LEMMA RerunStep == RunInv /\ Rerun => RunInv'
<1> SUFFICES ASSUME RunInv, Rerun PROVE RunInv'
  OBVIOUS
<1> DEFINE c == run + 1
<1> USE DEF RunInv
<1>1. /\ run < MaxRuns /\ run' = c /\ active' = TRUE /\ captures' = captures
      /\ inferencing' = FALSE /\ pendingSend' = FALSE
      /\ socket' = [CloseSockets EXCEPT ![c] = "connecting"] /\ Hushed(socket')
  BY DEF Rerun, ClearFlags
<1>2. run \in Nat /\ c \in Runs /\ c \in 0 .. MaxRuns /\ c > 0
  BY <1>1, ClientAssumption DEF Shape, Runs
<1>3. \A r \in Runs : socket'[r] = IF r = c THEN "connecting" ELSE CloseSockets[r]
  BY <1>1 DEF CloseSockets
<1>4. socket' \in [Runs -> States]
  BY <1>1, CloseFacts DEF CloseSockets, States
<1>5. /\ server' \in [Runs -> 0 .. 2] /\ inbox' \in [Runs -> Seq(Messages)]
      /\ \A r \in Runs : socket'[r] # "open" => server'[r] = 0 /\ inbox'[r] = << >>
  BY <1>1, <1>4, HushedFacts
<1>6. Shape'
  BY <1>1, <1>2, <1>4, <1>5 DEF Shape
<1>7. NoneNew
  BY <1>1, <1>6, HushedLess
<1>8. LaterRuns'
  <2> SUFFICES ASSUME NEW r \in Runs, r > c
               PROVE  socket'[r] = "none" /\ captures'[r] = 0 /\ server'[r] = 0 /\ inbox'[r] = << >>
    BY <1>1 DEF LaterRuns
  <2>1. r > run /\ r # c
    BY <1>2 DEF Runs
  <2>2. socket[r] = "none" /\ captures[r] = 0
    BY <2>1 DEF LaterRuns
  <2> QED BY <1>1, <1>3, <1>5, <2>1, <2>2, CloseFacts
<1>9. OnlyLast'
  BY <1>1, <1>2, <1>3, CloseFacts DEF OnlyLast
<1>10. HeldForAReason'
  BY <1>1 DEF HeldForAReason
<1>11. (OneFrame /\ FirstRun)'
  <2> SUFFICES ASSUME c = 1 PROVE UnderWay(1)' = 0
    BY <1>1 DEF OneFrame, FirstRun
  <2>1. 1 \in Runs /\ 1 > run
    BY <1>2
  <2>2. UnderWay(1) = 0
    BY <2>1, ShapeCounts, AnswersNone DEF Counts, LaterRuns
  <2>3. UnderWay(1)' \in Nat
    BY <1>6, <2>1, CountsNext DEF Counts
  <2> QED BY <1>7, <2>1, <2>2, <2>3 DEF NoneNew
<1>12. Tries'
  <2>1. Sockets' \subseteq Sockets \cup {c}
    BY <1>3, CloseFacts DEF Sockets
  <2>2. Cardinality(Sockets') \in Nat /\ Cardinality(Sockets') <= Cardinality(Sockets) + 1
    BY <2>1, SocketsFinite, OneMore
  <2>3. Chance \in 0 .. 1 /\ Chance' \in 0 .. 1
    BY DEF Chance
  <2> QED BY <1>1, <1>2, <1>6, <1>7, <2>2, <2>3, ComingLess, SocketsFinite DEF Tries
<1> QED BY <1>6, <1>8, <1>9, <1>10, <1>11, <1>12

LEMMA DisableStep == RunInv /\ Disable => RunInv'
<1> SUFFICES ASSUME RunInv, Disable PROVE RunInv'
  OBVIOUS
<1> USE DEF RunInv
<1>1. /\ run' = run /\ active' = FALSE /\ captures' = captures
      /\ inferencing' = FALSE /\ pendingSend' = FALSE
      /\ socket' = CloseSockets /\ Hushed(socket')
  BY DEF Disable, ClearFlags
<1>2. socket' \in [Runs -> States]
  BY <1>1, CloseFacts DEF CloseSockets
<1>3. /\ server' \in [Runs -> 0 .. 2] /\ inbox' \in [Runs -> Seq(Messages)]
      /\ \A r \in Runs : socket'[r] # "open" => server'[r] = 0 /\ inbox'[r] = << >>
  BY <1>1, <1>2, HushedFacts
<1>4. Shape'
  BY <1>1, <1>2, <1>3 DEF Shape
<1>5. NoneNew
  BY <1>1, <1>4, HushedLess
<1>6. LaterRuns'
  BY <1>1, <1>3, CloseFacts DEF LaterRuns
<1>7. OnlyLast'
  BY <1>1, CloseFacts DEF OnlyLast
<1>8. HeldForAReason'
  BY <1>1 DEF HeldForAReason
<1>9. (OneFrame /\ FirstRun)'
  <2> SUFFICES ASSUME run = 1 PROVE UnderWay(1)' <= 1 /\ socket'[1] \notin {"connecting", "open"}
    BY <1>1 DEF OneFrame, FirstRun
  <2>1. 1 \in Runs
    BY ClientAssumption DEF Shape, Runs
  <2>2. UnderWay(1) <= 1 /\ UnderWay(1) \in Nat /\ UnderWay(1)' \in Nat
    BY <1>4, <2>1, ShapeCounts, CountsNext DEF OneFrame, Counts
  <2> QED BY <1>1, <1>5, <2>1, <2>2, CloseFacts DEF NoneNew
<1>10. Tries'
  <2>1. Sockets' \subseteq Sockets
    BY <1>1, CloseFacts DEF Sockets
  <2>2. Cardinality(Sockets') \in Nat /\ Cardinality(Sockets') <= Cardinality(Sockets)
    BY <2>1, SocketsFinite, NoneMore
  <2>3. Chance \in 0 .. 1 /\ Chance' = 0 /\ run \in Nat
    BY <1>1 DEF Chance, Shape
  <2> QED BY <1>1, <1>4, <1>5, <2>2, <2>3, ComingLess, SocketsFinite DEF Tries
<1> QED BY <1>4, <1>6, <1>7, <1>8, <1>9, <1>10

LEMMA TickStep == RunInv /\ Tick => RunInv'
<1> SUFFICES ASSUME RunInv, Tick PROVE RunInv'
  OBVIOUS
<1> USE DEF RunInv
<1>1. /\ active /\ ~ inferencing /\ ~ pendingSend /\ socket[run] = "open"
      /\ inferencing' = TRUE /\ pendingSend' = TRUE
      /\ captures' = [captures EXCEPT ![run] = captures[run] + 1]
      /\ UNCHANGED <<run, active, socket, server, inbox>>
  BY DEF Tick, Current, RaiseFlags
<1>2. run \in Runs
  BY <1>1, ClientAssumption DEF OnlyLast, Shape, Runs
<1>3. Shape'
  BY <1>1, <1>2 DEF Shape
<1>4. \A r \in Runs : captures'[r] = IF r = run THEN captures[r] + 1 ELSE captures[r]
  BY <1>1 DEF Shape
<1>5. \A r \in Runs : /\ UnderWay(r)' = IF r = run THEN UnderWay(r) + 1 ELSE UnderWay(r)
                      /\ UnderWay(r) \in Nat
  <2> SUFFICES ASSUME NEW r \in Runs
               PROVE  /\ UnderWay(r)' = IF r = run THEN UnderWay(r) + 1 ELSE UnderWay(r)
                      /\ UnderWay(r) \in Nat
    OBVIOUS
  <2>1. /\ UnderWay(r) \in Nat /\ Cardinality(AnswersIn(inbox[r])) \in Nat
        /\ UnderWay(r) = captures[r] + server[r] + Cardinality(AnswersIn(inbox[r]))
        /\ UnderWay(r)' = captures'[r] + server[r] + Cardinality(AnswersIn(inbox[r]))
    BY <1>1, <1>3, ShapeCounts, CountsNext DEF Counts
  <2>2. captures[r] \in Nat /\ server[r] \in Nat
    BY ShapeRows DEF Rows
  <2> QED BY <1>4, <2>1, <2>2
<1>6. LaterRuns'
  BY <1>1, <1>4 DEF LaterRuns, Runs
<1>7. OnlyLast'
  BY <1>1 DEF OnlyLast
<1>8. HeldForAReason'
  BY <1>1, <1>2, <1>5 DEF HeldForAReason
<1>9. (OneFrame /\ FirstRun)'
  BY <1>1, <1>2, <1>5 DEF OneFrame, FirstRun
<1>10. Tries'
  <2>1. Sockets' = Sockets
    BY <1>1 DEF Sockets
  <2>2. Chance = 1 /\ Chance' = 0 /\ run \in Nat
    BY <1>1 DEF Chance, Shape
  <2>3. /\ IsFiniteSet(Coming') /\ Cardinality(Coming) \in Nat /\ Cardinality(Coming') \in Nat
        /\ Cardinality(Coming') <= Cardinality(Coming) + 1
    BY <1>2, <1>3, <1>5, ComingMore
  <2> QED BY <1>1, <2>1, <2>2, <2>3, SocketsFinite DEF Tries
<1> QED BY <1>3, <1>6, <1>7, <1>8, <1>9, <1>10

-----------------------------------------------------------------------------
\* A step that changes what is under way for one run, starts nothing, leaves a reason
\* where the flags stay up, and clears the flag at most when a frame ends.
Ends(c) == \/ UNCHANGED inferencing /\ UnderWay(c)' <= UnderWay(c)
           \/ ~ inferencing' /\ ~ pendingSend' /\ UnderWay(c)' < UnderWay(c)

LEMMA OneRunStep ==
  ASSUME RunInv, NEW c \in Runs, Shape', UNCHANGED <<run, active, socket>>,
         \A r \in Runs \ {c} : /\ captures'[r] = captures[r] /\ server'[r] = server[r]
                               /\ inbox'[r] = inbox[r],
         c <= run, Ends(c),
         pendingSend' => pendingSend,
         inferencing' \/ pendingSend' => (socket[c] = "open" /\ UnderWay(c) > 0 => UnderWay(c)' > 0)
  PROVE  RunInv'
<1> USE DEF RunInv
<1>1. \A r \in Runs : UnderWay(r) \in Nat /\ UnderWay(r)' \in Nat
  BY ShapeCounts, CountsNext DEF Counts
<1>2. \A r \in Runs \ {c} : UnderWay(r)' = UnderWay(r)
  BY DEF UnderWay, Answers
<1>3. UnderWay(c)' <= UnderWay(c)
  BY <1>1 DEF Ends
<1>4. NoneNew
  BY <1>1, <1>2, <1>3 DEF NoneNew
<1>5. LaterRuns'
  <2> SUFFICES ASSUME NEW r \in Runs, r > run
               PROVE  socket[r] = "none" /\ captures'[r] = 0 /\ server'[r] = 0 /\ inbox'[r] = << >>
    BY DEF LaterRuns
  <2>1. r # c
    BY DEF Runs, Shape
  <2> QED BY <2>1 DEF LaterRuns
<1>6. OnlyLast'
  BY DEF OnlyLast
<1>7. HeldForAReason'
  <2> SUFFICES ASSUME inferencing' \/ pendingSend'
               PROVE  \E r \in Runs : \/ socket[r] = "closing"
                                      \/ socket[r] = "open" /\ UnderWay(r)' > 0
    BY DEF HeldForAReason
  <2>1. inferencing \/ pendingSend
    BY DEF Ends
  <2>2. PICK r \in Runs : socket[r] = "closing" \/ (socket[r] = "open" /\ UnderWay(r) > 0)
    BY <2>1 DEF HeldForAReason
  <2>3. CASE r = c
    BY <2>2, <2>3
  <2>4. CASE r # c
    BY <1>2, <2>2, <2>4
  <2> QED BY <2>3, <2>4
<1>8. (OneFrame /\ FirstRun)'
  <2> SUFFICES ASSUME run = 1
               PROVE  /\ UnderWay(1)' <= 1
                      /\ socket[1] \in {"connecting", "open"} /\ UnderWay(1)' > 0 => inferencing'
    BY DEF OneFrame, FirstRun
  <2>1. 1 \in Runs /\ UnderWay(1) <= 1
    BY ClientAssumption DEF Shape, Runs, OneFrame
  <2>2. socket[1] \in {"connecting", "open"} /\ UnderWay(1) > 0 => inferencing
    BY DEF FirstRun
  <2>3. c = 1
    BY ClientAssumption DEF Runs
  <2>4. UnderWay(1)' <= UnderWay(1) /\ UnderWay(1) \in Nat /\ UnderWay(1)' \in Nat
    BY <1>1, <1>3, <2>1, <2>3
  <2> QED BY <2>1, <2>2, <2>3, <2>4 DEF Ends
<1>9. Tries'
  <2>1. Sockets' = Sockets /\ run \in Nat
    BY DEF Sockets, Shape
  <2>2. CASE UNCHANGED inferencing
    <3>1. Chance' = Chance /\ Chance \in 0 .. 1
      BY <2>2 DEF Chance
    <3> QED BY <1>4, <2>1, <3>1, ComingLess, SocketsFinite DEF Tries
  <2>3. CASE UnderWay(c)' < UnderWay(c)
    <3>1. Chance' \in 0 .. 1 /\ Chance \in 0 .. 1
      BY DEF Chance
    <3>2. /\ IsFiniteSet(Coming') /\ Cardinality(Coming) \in Nat /\ Cardinality(Coming') \in Nat
          /\ Cardinality(Coming') + 1 <= Cardinality(Coming)
      BY <1>4, <2>3, ComingDrop DEF NoneNew
    <3> QED BY <2>1, <3>1, <3>2, SocketsFinite DEF Tries
  <2> QED BY <2>2, <2>3 DEF Ends
<1> QED BY <1>5, <1>6, <1>7, <1>8, <1>9

LEMMA SendStep == ASSUME NEW c \in Runs PROVE RunInv /\ Send(c) => RunInv'
<1> SUFFICES ASSUME RunInv, Send(c) PROVE RunInv'
  OBVIOUS
<1>1. /\ Shape /\ LaterRuns /\ captures[c] > 0
      /\ captures' = [captures EXCEPT ![c] = captures[c] - 1]
      /\ UNCHANGED <<run, active, socket, inferencing, pendingSend>>
  BY DEF Send, RunInv
<1>2. /\ captures[c] \in Nat /\ server[c] \in 0 .. 2 /\ inbox[c] \in Seq(Messages)
      /\ Cardinality(AnswersIn(inbox[c])) \in Nat
      /\ UnderWay(c) = captures[c] + server[c] + Cardinality(AnswersIn(inbox[c]))
  BY <1>1, ShapeRows, ShapeCounts DEF Rows, Counts
<1>3. c <= run
  BY <1>1, <1>2 DEF LaterRuns, Runs, Shape
<1>4. captures' \in [Runs -> Nat] /\ captures'[c] = captures[c] - 1
  BY <1>1, <1>2 DEF Shape
<1>5. CASE socket[c] # "open"
  <2>1. UNCHANGED <<server, inbox>>
    BY <1>5 DEF Send
  <2>2. Shape'
    BY <1>1, <1>4, <2>1 DEF Shape
  <2>3. UnderWay(c)' = captures'[c] + server[c] + Cardinality(AnswersIn(inbox[c]))
    BY <2>1, <2>2, CountsNext DEF Counts
  <2>4. Ends(c)
    BY <1>1, <1>2, <1>4, <2>3 DEF Ends
  <2> QED BY <1>1, <1>3, <1>5, <2>1, <2>2, <2>4, OneRunStep DEF Shape
<1>6. CASE socket[c] = "open"
  <2> DEFINE k == IF server[c] = 0 THEN 1 ELSE 2
             b == IF server[c] = 0 THEN inbox[c] ELSE Append(inbox[c], "busy")
  <2>1. server' = [server EXCEPT ![c] = k] /\ inbox' = [inbox EXCEPT ![c] = b]
    BY <1>6 DEF Send, Remote!KeepsNewest
  <2>2. b \in Seq(Messages) /\ Cardinality(AnswersIn(b)) = Cardinality(AnswersIn(inbox[c]))
    BY <1>2, AnswersAppend DEF Messages
  <2>3. k \in 0 .. 2 /\ k <= server[c] + 1 /\ k > 0
    BY <1>2
  <2> HIDE DEF k, b
  <2>4. Shape' /\ server'[c] = k /\ inbox'[c] = b
    BY <1>1, <1>4, <2>1, <2>2, <2>3 DEF Shape
  <2>5. UnderWay(c)' = captures'[c] + k + Cardinality(AnswersIn(inbox[c]))
    BY <2>2, <2>4, CountsNext DEF Counts
  <2>6. UnderWay(c)' > 0 /\ Ends(c)
    BY <1>1, <1>2, <1>4, <2>3, <2>5 DEF Ends
  <2>7. \A r \in Runs \ {c} : /\ captures'[r] = captures[r] /\ server'[r] = server[r]
                              /\ inbox'[r] = inbox[r]
    BY <1>1, <2>1 DEF Shape
  <2> QED BY <1>1, <1>3, <2>4, <2>6, <2>7, OneRunStep
<1> QED BY <1>5, <1>6

LEMMA CaptureFailsStep == ASSUME NEW c \in Runs PROVE RunInv /\ CaptureFails(c) => RunInv'
<1> SUFFICES ASSUME RunInv, CaptureFails(c) PROVE RunInv'
  OBVIOUS
<1>1. /\ Shape /\ LaterRuns /\ captures[c] > 0
      /\ captures' = [captures EXCEPT ![c] = captures[c] - 1]
      /\ ~ inferencing' /\ ~ pendingSend' /\ inferencing' \in BOOLEAN /\ pendingSend' \in BOOLEAN
      /\ UNCHANGED <<run, active, socket, server, inbox>>
  BY DEF CaptureFails, ClearFlags, RunInv
<1>2. /\ captures[c] \in Nat /\ server[c] \in Nat /\ Cardinality(AnswersIn(inbox[c])) \in Nat
      /\ UnderWay(c) = captures[c] + server[c] + Cardinality(AnswersIn(inbox[c]))
  BY <1>1, ShapeRows, ShapeCounts DEF Rows, Counts
<1>3. c <= run
  BY <1>1, <1>2 DEF LaterRuns, Runs, Shape
<1>4. captures' \in [Runs -> Nat] /\ captures'[c] = captures[c] - 1
  BY <1>1, <1>2 DEF Shape
<1>5. Shape'
  BY <1>1, <1>4 DEF Shape
<1>6. UnderWay(c)' = captures'[c] + server[c] + Cardinality(AnswersIn(inbox[c]))
  BY <1>1, <1>5, CountsNext DEF Counts
<1>7. Ends(c)
  BY <1>1, <1>2, <1>4, <1>6 DEF Ends
<1>8. \A r \in Runs \ {c} : /\ captures'[r] = captures[r] /\ server'[r] = server[r]
                            /\ inbox'[r] = inbox[r]
  BY <1>1 DEF Shape
<1> QED BY <1>1, <1>3, <1>5, <1>7, <1>8, OneRunStep

LEMMA ReplyStep == ASSUME NEW c \in Runs PROVE RunInv /\ Reply(c) => RunInv'
<1> SUFFICES ASSUME RunInv, Reply(c) PROVE RunInv'
  OBVIOUS
<1> DEFINE b == Append(inbox[c], "answer")
<1>1. /\ Shape /\ LaterRuns /\ server[c] > 0
      /\ server' = [server EXCEPT ![c] = server[c] - 1] /\ inbox' = [inbox EXCEPT ![c] = b]
      /\ UNCHANGED <<run, active, socket, inferencing, pendingSend, captures>>
  BY DEF Reply, RunInv
<1>2. /\ captures[c] \in Nat /\ server[c] \in 0 .. 2 /\ inbox[c] \in Seq(Messages)
      /\ Cardinality(AnswersIn(inbox[c])) \in Nat
      /\ UnderWay(c) = captures[c] + server[c] + Cardinality(AnswersIn(inbox[c]))
  BY <1>1, ShapeRows, ShapeCounts DEF Rows, Counts
<1>3. c <= run
  BY <1>1, <1>2 DEF LaterRuns, Runs, Shape
<1>4. b \in Seq(Messages) /\ Cardinality(AnswersIn(b)) = Cardinality(AnswersIn(inbox[c])) + 1
  BY <1>2, AnswersAppend DEF Messages
<1> HIDE DEF b
<1>5. Shape' /\ server'[c] = server[c] - 1 /\ inbox'[c] = b
  BY <1>1, <1>2, <1>4 DEF Shape
<1>6. UnderWay(c)' = captures[c] + (server[c] - 1) + Cardinality(AnswersIn(inbox[c])) + 1
  <2>1. UnderWay(c)' = captures'[c] + server'[c] + Cardinality(AnswersIn(inbox'[c]))
    BY <1>5, CountsNext DEF Counts
  <2>2. captures'[c] = captures[c]
    BY <1>1
  <2>3. Cardinality(AnswersIn(inbox'[c])) = Cardinality(AnswersIn(inbox[c])) + 1
    BY <1>4, <1>5
  <2>4. server'[c] = server[c] - 1
    BY <1>5
  <2>5. UnderWay(c)' = captures[c] + (server[c] - 1) + (Cardinality(AnswersIn(inbox[c])) + 1)
    BY <2>1, <2>2, <2>3, <2>4
  <2> QED BY <1>2, <2>5
<1>7. UnderWay(c)' = UnderWay(c) /\ UnderWay(c) \in Nat
  BY <1>2, <1>6
<1>8. Ends(c)
  BY <1>1, <1>7 DEF Ends
<1>9. \A r \in Runs \ {c} : /\ captures'[r] = captures[r] /\ server'[r] = server[r]
                            /\ inbox'[r] = inbox[r]
  BY <1>1 DEF Shape
<1> QED BY <1>1, <1>3, <1>5, <1>7, <1>8, <1>9, OneRunStep

LEMMA MessageStep == ASSUME NEW c \in Runs PROVE RunInv /\ Message(c) => RunInv'
<1> SUFFICES ASSUME RunInv, Message(c) PROVE RunInv'
  OBVIOUS
<1> DEFINE b == Tail(inbox[c])
<1>1. /\ Shape /\ LaterRuns /\ socket[c] = "open" /\ inbox[c] # << >>
      /\ inbox' = [inbox EXCEPT ![c] = b]
      /\ UNCHANGED <<run, active, socket, captures, server>>
  BY DEF Message, RunInv
<1>2. /\ captures[c] \in Nat /\ server[c] \in Nat /\ inbox[c] \in Seq(Messages)
      /\ Cardinality(AnswersIn(inbox[c])) \in Nat
      /\ UnderWay(c) = captures[c] + server[c] + Cardinality(AnswersIn(inbox[c]))
  BY <1>1, ShapeRows, ShapeCounts DEF Rows, Counts
<1>3. c <= run
  BY <1>1, <1>2 DEF LaterRuns, Runs, Shape
<1>4. /\ b \in Seq(Messages) /\ Cardinality(AnswersIn(b)) \in Nat
      /\ Cardinality(AnswersIn(inbox[c])) =
           Cardinality(AnswersIn(b)) + (IF Head(inbox[c]) = "answer" THEN 1 ELSE 0)
  BY <1>1, <1>2, AnswersTail, AnswersFinite
<1> HIDE DEF b
<1>5. /\ inferencing' \in BOOLEAN /\ pendingSend' = FALSE
      /\ Head(inbox[c]) = "answer" => inferencing' = FALSE
      /\ Head(inbox[c]) # "answer" => inferencing' = inferencing
  BY <1>1 DEF Message, ClearFlags, Shape
<1>6. Shape' /\ inbox'[c] = b
  BY <1>1, <1>4, <1>5 DEF Shape
<1>7. UnderWay(c)' = captures[c] + server[c] + Cardinality(AnswersIn(b))
  BY <1>1, <1>6, CountsNext DEF Counts
<1>8. /\ Head(inbox[c]) = "answer" => UnderWay(c)' < UnderWay(c)
      /\ Head(inbox[c]) # "answer" => UnderWay(c)' = UnderWay(c) /\ UnderWay(c) \in Nat
  BY <1>2, <1>4, <1>7
<1>9. Ends(c)
  BY <1>5, <1>8 DEF Ends
<1>10. \A r \in Runs \ {c} : /\ captures'[r] = captures[r] /\ server'[r] = server[r]
                             /\ inbox'[r] = inbox[r]
  BY <1>1 DEF Shape
<1> QED BY <1>1, <1>3, <1>5, <1>6, <1>8, <1>9, <1>10, OneRunStep

-----------------------------------------------------------------------------
LEMMA OpenStep == ASSUME NEW c \in Runs PROVE RunInv /\ Open(c) => RunInv'
<1> SUFFICES ASSUME RunInv, Open(c) PROVE RunInv'
  OBVIOUS
<1> USE DEF RunInv
<1>1. /\ socket[c] = "connecting" /\ socket' = [socket EXCEPT ![c] = "open"]
      /\ UNCHANGED <<run, active, inferencing, pendingSend, captures, server, inbox>>
  BY DEF Open
<1>2. Shape' /\ \A r \in Runs : socket'[r] = IF r = c THEN "open" ELSE socket[r]
  BY <1>1 DEF Shape, States
<1>3. \A r \in Runs : UnderWay(r)' = UnderWay(r)
  BY <1>1 DEF UnderWay, Answers
<1>4. LaterRuns' /\ OnlyLast'
  BY <1>1, <1>2 DEF LaterRuns, OnlyLast
<1>5. HeldForAReason'
  <2>1. \A r \in Runs : socket[r] \in {"closing", "open"} => socket'[r] = socket[r]
    BY <1>1, <1>2
  <2> QED BY <1>1, <1>3, <2>1 DEF HeldForAReason
<1>6. (OneFrame /\ FirstRun)'
  <2> SUFFICES ASSUME run = 1
               PROVE  UnderWay(1)' <= 1 /\ (UnderWay(1)' > 0 => inferencing)
    BY <1>1 DEF OneFrame, FirstRun
  <2>1. c = 1
    BY <1>1 DEF OnlyLast
  <2>2. UnderWay(1) > 0 => inferencing
    BY <1>1, <2>1 DEF FirstRun
  <2>3. 1 \in Runs
    BY <2>1
  <2> QED BY <1>3, <2>2, <2>3 DEF OneFrame
<1>7. Tries'
  <2>1. Sockets' = Sockets /\ Coming' = Coming
    BY <1>1, <1>2, <1>3 DEF Sockets, Coming
  <2> QED BY <1>1, <2>1 DEF Tries, Chance
<1> QED BY <1>2, <1>4, <1>5, <1>6, <1>7

LEMMA LostStep == ASSUME NEW c \in Runs PROVE RunInv /\ Lost(c) => RunInv'
<1> SUFFICES ASSUME RunInv, Lost(c) PROVE RunInv'
  OBVIOUS
<1> USE DEF RunInv
<1>1. /\ socket[c] \in {"connecting", "open"} /\ socket' = [socket EXCEPT ![c] = "closing"]
      /\ Hushed(socket')
      /\ UNCHANGED <<run, active, inferencing, pendingSend, captures>>
  BY DEF Lost
<1>2. /\ socket' \in [Runs -> States]
      /\ \A r \in Runs : socket'[r] = IF r = c THEN "closing" ELSE socket[r]
  BY <1>1 DEF Shape, States
<1>3. /\ server' \in [Runs -> 0 .. 2] /\ inbox' \in [Runs -> Seq(Messages)]
      /\ \A r \in Runs : socket'[r] # "open" => server'[r] = 0 /\ inbox'[r] = << >>
  BY <1>1, <1>2, HushedFacts
<1>4. Shape'
  BY <1>1, <1>2, <1>3 DEF Shape
<1>5. NoneNew
  BY <1>1, <1>4, HushedLess
<1>6. c = run
  BY <1>1 DEF OnlyLast
<1>7. LaterRuns'
  BY <1>1, <1>2, <1>3, <1>6 DEF LaterRuns, Runs
<1>8. OnlyLast'
  BY <1>1, <1>2 DEF OnlyLast
<1>9. HeldForAReason'
  BY <1>2 DEF HeldForAReason
<1>10. (OneFrame /\ FirstRun)'
  <2> SUFFICES ASSUME run = 1 PROVE UnderWay(1)' <= 1 /\ socket'[1] \notin {"connecting", "open"}
    BY <1>1 DEF OneFrame, FirstRun
  <2>1. 1 \in Runs /\ c = 1
    BY <1>6
  <2>2. UnderWay(1) <= 1 /\ UnderWay(1) \in Nat /\ UnderWay(1)' \in Nat
    BY <1>4, <2>1, ShapeCounts, CountsNext DEF OneFrame, Counts
  <2> QED BY <1>2, <1>5, <2>1, <2>2 DEF NoneNew
<1>11. Tries'
  <2>1. Sockets' \subseteq Sockets
    BY <1>1, <1>2 DEF Sockets
  <2>2. Cardinality(Sockets') \in Nat /\ Cardinality(Sockets') <= Cardinality(Sockets)
    BY <2>1, SocketsFinite, NoneMore
  <2>3. Chance \in 0 .. 1 /\ Chance' = Chance /\ run \in Nat
    BY <1>1 DEF Chance, Shape
  <2> QED BY <1>1, <1>4, <1>5, <2>2, <2>3, ComingLess, SocketsFinite DEF Tries
<1> QED BY <1>4, <1>7, <1>8, <1>9, <1>10, <1>11

LEMMA ClosedStep == ASSUME NEW c \in Runs PROVE RunInv /\ Closed(c) => RunInv'
<1> SUFFICES ASSUME RunInv, Closed(c) PROVE RunInv'
  OBVIOUS
<1> USE DEF RunInv
<1>1. /\ socket[c] = "closing" /\ socket' = [socket EXCEPT ![c] = "closed"]
      /\ inferencing' = FALSE /\ pendingSend' = FALSE
      /\ UNCHANGED <<run, active, captures, server, inbox>>
  BY DEF Closed, OnClose, ClearFlags
<1>2. Shape' /\ \A r \in Runs : socket'[r] = IF r = c THEN "closed" ELSE socket[r]
  BY <1>1 DEF Shape, States
<1>3. \A r \in Runs : UnderWay(r)' = UnderWay(r)
  BY <1>1 DEF UnderWay, Answers
<1>4. c <= run
  BY <1>1 DEF LaterRuns, Runs, Shape
<1>5. LaterRuns' /\ OnlyLast'
  BY <1>1, <1>2, <1>4 DEF LaterRuns, OnlyLast, Runs, Shape
<1>6. HeldForAReason'
  BY <1>1 DEF HeldForAReason
<1>7. (OneFrame /\ FirstRun)'
  <2> SUFFICES ASSUME run = 1 PROVE UnderWay(1)' <= 1 /\ socket'[1] \notin {"connecting", "open"}
    BY <1>1 DEF OneFrame, FirstRun
  <2>1. c = 1
    BY <1>4 DEF Runs
  <2> QED BY <1>2, <1>3, <2>1 DEF OneFrame
<1>8. Tries'
  <2>1. Coming' = Coming /\ c \in Sockets /\ Sockets' \subseteq Sockets \ {c}
    BY <1>1, <1>2, <1>3 DEF Sockets, Coming
  <2>2. Cardinality(Sockets') \in Nat /\ Cardinality(Sockets') + 1 <= Cardinality(Sockets)
    BY <2>1, SocketsFinite, OneLess
  <2>3. Chance \in 0 .. 1 /\ Chance' \in 0 .. 1 /\ run \in Nat /\ Cardinality(Coming) \in Nat
    BY FS_CardinalityType DEF Chance, Shape, Tries
  <2> QED BY <1>1, <2>1, <2>2, <2>3, SocketsFinite DEF Tries
<1> QED BY <1>2, <1>5, <1>6, <1>7, <1>8

LEMMA NextClient == RunInv /\ [ClientNext]_clientVars => RunInv'
<1>1. ASSUME RunInv, UNCHANGED clientVars PROVE RunInv'
  <2>1. UNCHANGED <<run, active, socket, inferencing, pendingSend, captures, server, inbox>>
    BY <1>1 DEF clientVars
  <2>2. (\A r \in Runs : UnderWay(r)' = UnderWay(r)) /\ Coming' = Coming
    BY <2>1 DEF UnderWay, Answers, Coming
  <2> QED BY <1>1, <2>1, <2>2 DEF RunInv, Shape, LaterRuns, OnlyLast, HeldForAReason, OneFrame,
                                  FirstRun, Tries, Chance, Sockets, UnderWay, Answers
<1> QED BY <1>1, RerunStep, DisableStep, TickStep, SendStep, CaptureFailsStep, OpenStep, ReplyStep,
           MessageStep, LostStep, ClosedStep DEF ClientNext

\* The captures of a run are some of the frames under way.
LEMMA CapturesFit == RunInv => ClientTypeOK
<1> SUFFICES ASSUME RunInv, NEW r \in Runs PROVE captures[r] \in 0 .. 2 * MaxRuns
  BY DEF RunInv, Shape, ClientTypeOK, States, Messages
<1> DEFINE n == [s \in Runs |-> UnderWay(s)]
<1>1. /\ captures[r] \in Nat /\ server[r] \in Nat /\ UnderWay(r) \in Nat
      /\ Cardinality(AnswersIn(inbox[r])) \in Nat
      /\ UnderWay(r) = captures[r] + server[r] + Cardinality(AnswersIn(inbox[r]))
  BY ShapeRows, ShapeCounts DEF RunInv, Rows, Counts
<1>2. n \in [Runs -> Nat] /\ n[r] = UnderWay(r) /\ Coming = Pairs(n)
  BY ShapeCounts DEF RunInv, Counts, Coming
<1> HIDE DEF n
<1>3. UnderWay(r) <= Cardinality(Coming)
  BY <1>2, PairsHold DEF RunInv, Tries
<1>4. Cardinality(Coming) + Cardinality(Sockets) + Chance <= 2 * run
  BY DEF RunInv, Tries
<1>5. Cardinality(Coming) \in Nat /\ Cardinality(Sockets) \in Nat /\ Chance \in 0 .. 1
  BY SocketsFinite, FS_CardinalityType DEF RunInv, Tries, Chance
<1>6. run \in 0 .. MaxRuns
  BY DEF RunInv, Shape
<1> QED BY <1>1, <1>3, <1>4, <1>5, <1>6, ClientAssumption

\* Frames are held back only while something is to come that lets them go on, for any
\* number of runs of the effect (useLiveAnnotation, inferencingRef and pendingSendRef).
THEOREM HeldWithReason == ClientSpec => []ClientInv
<1>1. RunInv => ClientInv
  BY CapturesFit DEF RunInv, ClientInv
<1> QED BY <1>1, InitClient, NextClient, PTL DEF ClientSpec

-----------------------------------------------------------------------------
(***************************************************************************)
(* Tracks and events                                                       *)
(***************************************************************************)
\* The state of a track knows when it was last in the output, and its clock is right
\* as long as the gap since then may still be a short one.
StateFits(t) ==
  /\ state[t].seen = shown[t].last /\ state[t].seen <= clock
  /\ clock - state[t].seen <= Gap => state[t].since = shown[t].since
  /\ state[t].missing = Never => state[t].seen = clock

\* The state knows the last firing, unless the track was away for longer than a state
\* lasts after it.
FiringsFit(t) ==
  \A r \in Rules :
    /\ firedAt[<<t, r>>] <= state[t].seen
    /\ \/ state[t].fired[r] = firedAt[<<t, r>>]
       \/ state[t].fired[r] = Never /\ shown[t].back > firedAt[<<t, r>>]

\* A track without a state has not been in the output, or not for longer than a state
\* lasts, and was there when its rules fired.
Forgotten(t) ==
  /\ shown[t].last = Never \/ clock - shown[t].last > TTL
  /\ \A r \in Rules : firedAt[<<t, r>>] <= shown[t].last

TracksFit ==
  \A t \in Tracks : IF state[t] = NoState THEN Forgotten(t) ELSE StateFits(t) /\ FiringsFit(t)

TracksIInv == TracksTypeOK /\ TracksFit

-----------------------------------------------------------------------------
LEMMA RowsDiffer ==
  /\ Times \subseteq Nat /\ Never \notin Times
  /\ \A s \in StateRows : s # NoState
  /\ \A x \in TrackRows : x # NoTrack
<1>1. Times \subseteq Nat /\ Never \notin Times
  BY TracksAssumption DEF Times, Never
<1>2. \A s \in StateRows : s.seen # Never
  BY <1>1 DEF StateRows
<1>3. \A x \in TrackRows : x.coast # Never
  BY TracksAssumption DEF TrackRows, Never
<1> QED BY <1>1, <1>2, <1>3 DEF NoState, NoTrack

LEMMA RowFacts ==
  ASSUME TracksTypeOK, NEW t \in Tracks
  PROVE  /\ clock \in Times
         /\ state[t] # NoState => state[t] \in StateRows
         /\ shown[t] \in Spans
         /\ \A r \in Rules : firedAt[<<t, r>>] \in Times \cup {Never}
BY DEF TracksTypeOK

LEMMA LaterFacts ==
  ASSUME TracksTypeOK, NEW now \in Later
  PROVE  now \in Times /\ now > clock
BY TracksAssumption DEF Later, TracksTypeOK, Times

-----------------------------------------------------------------------------
\* The state of a track in the output before its rules are looked at.
Base(trk, t, now) == IF state[t] = NoState THEN NewState(trk, t, now) ELSE Touched(trk, t, now)

LEMMA BaseFacts ==
  ASSUME TracksIInv, NEW trk \in [Tracks -> TrackRows \cup {NoTrack}], NEW t \in Tracks,
         trk[t] \in TrackRows, NEW now \in Later
  PROVE  LET s == Base(trk, t, now) IN
         /\ s \in StateRows /\ s.seen = now /\ s.missing = Never
         /\ s.since = Prolong(shown[t], now).since
         /\ \A r \in Rules : s.fired[r] = IF state[t] = NoState THEN Never ELSE state[t].fired[r]
<1>1. clock \in Nat /\ now \in Times /\ now \in Nat /\ now > clock
  BY LaterFacts, RowsDiffer DEF TracksIInv, TracksTypeOK
<1>2. trk[t].strong \in BOOLEAN
  BY DEF TrackRows
<1>3. shown[t].last \in Times \cup {Never} /\ shown[t].since \in Times \cup {Never}
  BY DEF TracksIInv, TracksTypeOK, Spans
<1>4. Prolong(shown[t], now).since =
        IF shown[t].last = Never \/ now - shown[t].last > Gap THEN now ELSE shown[t].since
  BY DEF Prolong
<1>5. CASE state[t] = NoState
  <2>1. shown[t].last = Never \/ clock - shown[t].last > TTL
    BY <1>5 DEF TracksIInv, TracksFit, Forgotten
  <2>2. shown[t].last \in Nat \cup {Never}
    BY <1>3, RowsDiffer
  <2>3. shown[t].last = Never \/ now - shown[t].last > Gap
    BY <1>1, <2>1, <2>2, TracksAssumption
  <2>4. NewState(trk, t, now) \in StateRows
    BY <1>1, <1>2 DEF NewState, StateRows
  <2> QED BY <1>4, <1>5, <2>3, <2>4 DEF Base, NewState
<1>6. CASE state[t] # NoState
  <2> DEFINE old == state[t]
  <2>1. /\ old \in StateRows /\ old.seen \in Times /\ old.since \in Times
        /\ old.peak \in BOOLEAN /\ old.fired \in [Rules -> Times \cup {Never}]
    BY <1>6, RowFacts DEF TracksIInv, StateRows
  <2>2. old.seen = shown[t].last /\ (clock - old.seen <= Gap => old.since = shown[t].since)
    BY <1>6 DEF TracksIInv, TracksFit, StateFits
  <2>3. Since(old, now) = Prolong(shown[t], now).since
    <3>1. old.seen \in Nat /\ old.seen # Never
      BY <2>1, RowsDiffer
    <3> QED BY <1>1, <1>4, <2>2, <3>1, TracksAssumption DEF Since
  <2>4. Since(old, now) \in Times
    BY <1>1, <2>1 DEF Since
  <2>5. Touched(trk, t, now) =
          [old EXCEPT !.seen = now, !.since = Since(old, now), !.missing = Never,
                      !.peak = old.peak \/ trk[t].strong]
    BY DEF Touched
  <2> HIDE DEF old
  <2>6. /\ Touched(trk, t, now) \in StateRows
        /\ Touched(trk, t, now).seen = now /\ Touched(trk, t, now).missing = Never
        /\ Touched(trk, t, now).since = Since(old, now)
        /\ Touched(trk, t, now).fired = old.fired
    BY <1>1, <1>2, <2>1, <2>4, <2>5 DEF StateRows
  <2> QED BY <1>6, <2>3, <2>6 DEF Base, old
<1> QED BY <1>5, <1>6

\* What allows a rule to fire for a track at time now.
Allowed(t, r, now) ==
  \/ firedAt[<<t, r>>] = Never \/ now - firedAt[<<t, r>>] >= Cooldown[r]
  \/ Prolong(shown[t], now).back > firedAt[<<t, r>>]

\* What the state forgot is older than the return of the track.
LEMMA Returned ==
  ASSUME TracksIInv, NEW t \in Tracks, NEW r \in Rules, NEW now \in Later
  PROVE  LET known == IF state[t] = NoState THEN Never ELSE state[t].fired[r]
         IN  /\ firedAt[<<t, r>>] < now
             /\ \/ known = firedAt[<<t, r>>]
                \/ known = Never /\ Prolong(shown[t], now).back > firedAt[<<t, r>>]
<1>1. clock \in Nat /\ now \in Nat /\ now > clock
  BY LaterFacts, RowsDiffer DEF TracksIInv, TracksTypeOK
<1>2. firedAt[<<t, r>>] \in Nat \cup {Never}
  BY RowFacts, RowsDiffer DEF TracksIInv
<1>3. shown[t].last \in Nat \cup {Never} /\ shown[t].back \in Nat \cup {Never}
  BY RowFacts, RowsDiffer DEF TracksIInv, Spans
<1>4. Prolong(shown[t], now).back =
        IF shown[t].last # Never /\ now - shown[t].last > TTL THEN now ELSE shown[t].back
  BY DEF Prolong
<1>5. CASE state[t] = NoState
  <2>1. /\ shown[t].last = Never \/ clock - shown[t].last > TTL
        /\ firedAt[<<t, r>>] <= shown[t].last
    BY <1>5 DEF TracksIInv, TracksFit, Forgotten
  <2> QED BY <1>1, <1>2, <1>3, <1>4, <1>5, <2>1, TracksAssumption DEF Never
<1>6. CASE state[t] # NoState
  <2>1. state[t].seen \in Nat /\ state[t].seen <= clock
    BY <1>6, RowFacts, RowsDiffer DEF TracksIInv, TracksFit, StateFits, StateRows
  <2>2. /\ firedAt[<<t, r>>] <= state[t].seen
        /\ \/ state[t].fired[r] = firedAt[<<t, r>>]
           \/ state[t].fired[r] = Never /\ shown[t].back > firedAt[<<t, r>>]
    BY <1>6 DEF TracksIInv, TracksFit, FiringsFit
  <2> QED BY <1>1, <1>2, <1>3, <1>4, <1>6, <2>1, <2>2 DEF Never
<1> QED BY <1>5, <1>6

\* A rule fires for a track only when it is allowed to, by what the state knows.
LEMMA FiresCooled ==
  ASSUME TracksIInv, NEW t \in Tracks, NEW r \in Rules, NEW now \in Later, NEW s,
         s.fired[r] = IF state[t] = NoState THEN Never ELSE state[t].fired[r]
  PROVE  (CooldownOk(s, r, now) => Allowed(t, r, now)) /\ s.fired[r] # now
<1>1. clock \in Nat /\ now \in Nat
  BY LaterFacts, RowsDiffer DEF TracksIInv, TracksTypeOK
<1>2. firedAt[<<t, r>>] \in Nat \cup {Never}
  BY RowFacts, RowsDiffer DEF TracksIInv
<1>3. /\ firedAt[<<t, r>>] < now
      /\ \/ s.fired[r] = firedAt[<<t, r>>]
         \/ s.fired[r] = Never /\ Prolong(shown[t], now).back > firedAt[<<t, r>>]
  BY Returned
<1>4. s.fired[r] # now
  BY <1>1, <1>2, <1>3 DEF Never
<1> QED BY <1>3, <1>4 DEF CooldownOk, Allowed

-----------------------------------------------------------------------------
LEMMA PresentFacts ==
  ASSUME TracksIInv, NEW trk \in [Tracks -> TrackRows \cup {NoTrack}], NEW t \in Tracks,
         trk[t] \in TrackRows, NEW near, NEW now \in Later
  PROVE  LET p == Present(trk, t, near, now) IN
         /\ p \in StateRows /\ p.seen = now /\ p.missing = Never
         /\ p.since = Prolong(shown[t], now).since
         /\ \A r \in Rules :
              \/ p.fired[r] = now /\ Allowed(t, r, now)
              \/ p.fired[r] # now /\ p.fired[r] = IF state[t] = NoState THEN Never
                                                  ELSE state[t].fired[r]
<1> DEFINE s == Base(trk, t, now)
           all == [r \in Rules |-> IF r \in Fires(s, trk, t, near, now) THEN now ELSE s.fired[r]]
<1>1. Present(trk, t, near, now) = [s EXCEPT !.fired = all]
  BY DEF Present, Base
<1>2. /\ s \in StateRows /\ s.seen = now /\ s.missing = Never
      /\ s.since = Prolong(shown[t], now).since
      /\ \A r \in Rules : s.fired[r] = IF state[t] = NoState THEN Never ELSE state[t].fired[r]
  BY BaseFacts
<1>3. now \in Times
  BY LaterFacts DEF TracksIInv
<1> HIDE DEF s
<1>4. all \in [Rules -> Times \cup {Never}]
  BY <1>2, <1>3 DEF StateRows
<1>5. ASSUME NEW r \in Rules
      PROVE  \/ all[r] = now /\ Allowed(t, r, now)
             \/ all[r] # now /\ all[r] = s.fired[r]
  <2>0. s.fired[r] = IF state[t] = NoState THEN Never ELSE state[t].fired[r]
    BY <1>2
  <2>1. CooldownOk(s, r, now) => Allowed(t, r, now)
    BY <2>0, FiresCooled
  <2>2. s.fired[r] # now
    BY <2>0, FiresCooled
  <2> QED BY <2>1, <2>2 DEF Fires
<1> HIDE DEF all
<1>6. /\ [s EXCEPT !.fired = all] \in StateRows
      /\ [s EXCEPT !.fired = all].seen = s.seen /\ [s EXCEPT !.fired = all].missing = s.missing
      /\ [s EXCEPT !.fired = all].since = s.since /\ [s EXCEPT !.fired = all].fired = all
  BY <1>2, <1>4 DEF StateRows
<1> QED BY <1>1, <1>2, <1>5, <1>6

LEMMA MissingFacts ==
  ASSUME TracksIInv, NEW t \in Tracks, state[t] # NoState, NEW now \in Later
  PROVE  LET m == MarkMissing(state[t], now) IN
         /\ m \in StateRows /\ m.seen = state[t].seen /\ m.missing # Never
         /\ m.fired = state[t].fired
         /\ now - m.seen <= Gap => m.since = state[t].since
<1> DEFINE old == state[t]
           since == IF now - old.seen > Gap THEN now ELSE old.since
           missing == IF old.missing = Never THEN now ELSE old.missing
<1>1. now \in Times /\ now # Never
  BY LaterFacts, RowsDiffer DEF TracksIInv
<1>2. old \in StateRows
  BY RowFacts DEF TracksIInv
<1>3. MarkMissing(old, now) = [old EXCEPT !.missing = missing, !.since = since]
  BY DEF MarkMissing
<1>4. /\ since \in Times /\ missing \in Times /\ missing # Never
      /\ now - old.seen <= Gap => since = old.since
  <2>1. old.seen \in Nat /\ now \in Nat /\ Gap \in Nat
    BY <1>1, <1>2, RowsDiffer, TracksAssumption DEF StateRows
  <2> QED BY <1>1, <1>2, <2>1, RowsDiffer DEF StateRows
<1> HIDE DEF old, since, missing
<1>5. /\ MarkMissing(old, now) \in StateRows /\ MarkMissing(old, now).seen = old.seen
      /\ MarkMissing(old, now).missing = missing /\ MarkMissing(old, now).since = since
      /\ MarkMissing(old, now).fired = old.fired
  BY <1>2, <1>3, <1>4 DEF StateRows
<1> QED BY <1>4, <1>5 DEF old

-----------------------------------------------------------------------------
\* What a frame is to one of the tracks.
Handled(trk, out, near, now) ==
  /\ clock' = now
  /\ \A t \in Tracks :
       /\ shown'[t] = IF t \in out THEN Prolong(shown[t], now) ELSE shown[t]
       /\ t \in out => state'[t] = Present(trk, t, near, now)
       /\ t \notin out => state'[t] = IF state[t] = NoState \/ Stale(state[t], now) THEN NoState
                                     ELSE MarkMissing(state[t], now)
       /\ \A r \in Rules :
            firedAt'[<<t, r>>] = IF t \in out /\ Present(trk, t, near, now).fired[r] = now
                                 THEN now ELSE firedAt[<<t, r>>]
  /\ \A e \in events' : /\ e.track \in out /\ e.rule \in Rules
                        /\ Present(trk, e.track, near, now).fired[e.rule] = now

LEMMA HandleFacts ==
  ASSUME TracksIInv, NEW trk \in [Tracks -> TrackRows \cup {NoTrack}],
         NEW out \in SUBSET Tracks, \A t \in out : trk[t] \in TrackRows,
         NEW near, NEW now \in Later, Handle(trk, out, near, now)
  PROVE  Handled(trk, out, near, now)
<1> DEFINE new == UpdateStates(trk, out, near, now)
           fired == {p \in out \X Rules : new[p[1]].fired[p[2]] = now}
<1>1. /\ state' = new /\ clock' = now
      /\ events' = {[track |-> p[1], rule |-> p[2]] : p \in fired}
      /\ firedAt' = [p \in Tracks \X Rules |-> IF p \in fired THEN now ELSE firedAt[p]]
      /\ shown' = [t \in Tracks |-> IF t \in out THEN Prolong(shown[t], now) ELSE shown[t]]
  BY DEF Handle
<1>2. \A t \in Tracks :
        new[t] = IF t \in out THEN Present(trk, t, near, now)
                 ELSE IF state[t] = NoState \/ Stale(state[t], now) THEN NoState
                 ELSE MarkMissing(state[t], now)
  BY DEF UpdateStates
<1>3. \A t \in Tracks, r \in Rules :
        <<t, r>> \in fired <=> t \in out /\ Present(trk, t, near, now).fired[r] = now
  BY <1>2
<1>4. \A e \in events' :
        e.track \in out /\ e.rule \in Rules /\ Present(trk, e.track, near, now).fired[e.rule] = now
  BY <1>1, <1>2
<1> HIDE DEF new, fired
<1> QED BY <1>1, <1>2, <1>3, <1>4 DEF Handled

LEMMA HandleTypes ==
  ASSUME TracksIInv, NEW trk \in [Tracks -> TrackRows \cup {NoTrack}],
         NEW out \in SUBSET Tracks, \A t \in out : trk[t] \in TrackRows,
         NEW near, NEW now \in Later, Handle(trk, out, near, now)
  PROVE  /\ clock' \in Times
         /\ state' \in [Tracks -> StateRows \cup {NoState}]
         /\ events' \subseteq [track : Tracks, rule : Rules]
         /\ shown' \in [Tracks -> Spans]
         /\ firedAt' \in [Tracks \X Rules -> Times \cup {Never}]
<1>1. now \in Times
  BY LaterFacts DEF TracksIInv
<1>2. \A t \in out : Present(trk, t, near, now) \in StateRows
  BY PresentFacts
<1>3. \A t \in Tracks : state[t] # NoState => MarkMissing(state[t], now) \in StateRows
  BY MissingFacts
<1>4. \A t \in Tracks : Prolong(shown[t], now) \in Spans
  BY <1>1 DEF Prolong, Spans, TracksIInv, TracksTypeOK
<1>0. Handled(trk, out, near, now)
  BY HandleFacts
<1>5. \A t \in Tracks : state'[t] \in StateRows \cup {NoState}
  BY <1>0, <1>2, <1>3 DEF Handled
<1>6. DOMAIN state' = Tracks /\ state' = [t \in Tracks |-> state'[t]]
  BY DEF Handle, UpdateStates
<1>7. events' \subseteq [track : Tracks, rule : Rules]
  BY DEF Handle
<1>8. shown' \in [Tracks -> Spans]
  BY <1>4 DEF Handle, TracksIInv, TracksTypeOK
<1>9. firedAt' \in [Tracks \X Rules -> Times \cup {Never}]
  BY <1>1 DEF Handle, TracksIInv, TracksTypeOK
<1>10. clock' = now
  BY DEF Handle
<1>11. state' \in [Tracks -> StateRows \cup {NoState}]
  BY <1>5, <1>6
<1> QED BY <1>1, <1>7, <1>8, <1>9, <1>10, <1>11

LEMMA HandleFits ==
  ASSUME TracksIInv, NEW trk \in [Tracks -> TrackRows \cup {NoTrack}],
         NEW out \in SUBSET Tracks, \A t \in out : trk[t] \in TrackRows,
         NEW near, NEW now \in Later, Handle(trk, out, near, now)
  PROVE  TracksFit'
<1> SUFFICES ASSUME NEW t \in Tracks
             PROVE  (IF state[t] = NoState THEN Forgotten(t) ELSE StateFits(t) /\ FiringsFit(t))'
  BY DEF TracksFit
<1>1. clock \in Nat /\ now \in Nat /\ now > clock /\ clock' = now
  BY LaterFacts, RowsDiffer DEF TracksIInv, TracksTypeOK, Handle
<1> Handled(trk, out, near, now)
  BY HandleFacts
<1>2. \A r \in Rules : firedAt[<<t, r>>] \in Nat \cup {Never}
  BY RowFacts, RowsDiffer DEF TracksIInv
<1>3. CASE t \in out
  <2> DEFINE p == Present(trk, t, near, now)
  <2>1. /\ p \in StateRows /\ p.seen = now /\ p.missing = Never
        /\ p.since = Prolong(shown[t], now).since
        /\ \A r \in Rules :
             \/ p.fired[r] = now /\ Allowed(t, r, now)
             \/ p.fired[r] # now /\ p.fired[r] = IF state[t] = NoState THEN Never
                                                 ELSE state[t].fired[r]
    BY <1>3, PresentFacts
  <2>2. /\ state'[t] = p /\ shown'[t] = Prolong(shown[t], now)
        /\ \A r \in Rules : firedAt'[<<t, r>>] = IF p.fired[r] = now THEN now ELSE firedAt[<<t, r>>]
    BY <1>3 DEF Handled
  <2> HIDE DEF p
  <2>3. state'[t] # NoState
    BY <2>1, <2>2, RowsDiffer
  <2>4. StateFits(t)'
    BY <1>1, <2>1, <2>2 DEF StateFits, Prolong
  <2>5. ASSUME NEW r \in Rules
        PROVE  /\ firedAt'[<<t, r>>] <= now
               /\ \/ p.fired[r] = firedAt'[<<t, r>>]
                  \/ p.fired[r] = Never /\ Prolong(shown[t], now).back > firedAt'[<<t, r>>]
    <3>1. CASE p.fired[r] = now
      BY <1>1, <2>2, <3>1
    <3>2. CASE p.fired[r] # now
      <4>1. p.fired[r] = (IF state[t] = NoState THEN Never ELSE state[t].fired[r])
              /\ firedAt'[<<t, r>>] = firedAt[<<t, r>>]
        BY <2>1, <2>2, <3>2
      <4> QED BY <1>1, <1>2, <4>1, Returned DEF Never
    <3> QED BY <3>1, <3>2
  <2>6. FiringsFit(t)'
    BY <2>1, <2>2, <2>5 DEF FiringsFit
  <2> QED BY <2>3, <2>4, <2>6
<1>4. CASE t \notin out /\ (state[t] = NoState \/ Stale(state[t], now))
  <2>1. /\ state'[t] = NoState /\ shown'[t] = shown[t]
        /\ \A r \in Rules : firedAt'[<<t, r>>] = firedAt[<<t, r>>]
    BY <1>4 DEF Handled
  <2>2. shown[t].last \in Nat \cup {Never}
    BY RowFacts, RowsDiffer DEF TracksIInv, Spans
  <2>3. CASE state[t] = NoState
    BY <1>1, <2>1, <2>2, <2>3, TracksAssumption DEF TracksIInv, TracksFit, Forgotten
  <2>4. CASE state[t] # NoState
    <3>1. /\ state[t].seen = shown[t].last /\ state[t].seen \in Nat /\ state[t].seen <= clock
          /\ now - state[t].seen > TTL
      BY <1>4, <2>4, RowFacts, RowsDiffer DEF TracksIInv, TracksFit, StateFits, StateRows, Stale
    <3>2. \A r \in Rules : firedAt[<<t, r>>] <= shown[t].last
      BY <2>4, <3>1 DEF TracksIInv, TracksFit, FiringsFit
    <3> QED BY <1>1, <2>1, <3>1, <3>2 DEF Forgotten
  <2> QED BY <2>3, <2>4
<1>5. CASE t \notin out /\ state[t] # NoState /\ ~ Stale(state[t], now)
  <2> DEFINE m == MarkMissing(state[t], now)
  <2>1. /\ m \in StateRows /\ m.seen = state[t].seen /\ m.missing # Never
        /\ m.fired = state[t].fired /\ (now - m.seen <= Gap => m.since = state[t].since)
    BY <1>5, MissingFacts
  <2>2. /\ state'[t] = m /\ shown'[t] = shown[t]
        /\ \A r \in Rules : firedAt'[<<t, r>>] = firedAt[<<t, r>>]
    BY <1>5 DEF Handled
  <2> HIDE DEF m
  <2>3. state'[t] # NoState
    BY <2>1, <2>2, RowsDiffer
  <2>4. StateFits(t) /\ FiringsFit(t) /\ state[t].seen \in Nat
    BY <1>5, RowFacts, RowsDiffer DEF TracksIInv, TracksFit, StateRows
  <2>5. StateFits(t)'
    BY <1>1, <2>1, <2>2, <2>4, TracksAssumption DEF StateFits
  <2>6. FiringsFit(t)'
    BY <2>1, <2>2, <2>4 DEF FiringsFit
  <2> QED BY <2>3, <2>5, <2>6
<1> QED BY <1>3, <1>4, <1>5

-----------------------------------------------------------------------------
LEMMA TracksCount == Cardinality(Tracks) = NumTracks /\ NumTracks \in Nat
<1>1. NumTracks \in Nat
  BY TracksAssumption
<1>2. 1 <= NumTracks + 1
  BY <1>1
<1> QED BY <1>1, <1>2, FS_Interval DEF Tracks

LEMMA UpdateFacts ==
  ASSUME TracksTypeOK, NEW hits \in SUBSET Tracks, NEW fresh \in Nat, NEW strong,
         hits \subseteq Alive(track), NewIds(fresh) \subseteq Tracks
  PROVE  /\ UpdateTracks(hits, fresh, strong) \in [Tracks -> TrackRows \cup {NoTrack}]
         /\ nextId + fresh \in 1 .. Cardinality(Tracks) + 1
<1>1. Cardinality(Tracks) = NumTracks /\ NumTracks \in Nat
  BY TracksCount
<1>2. nextId \in 1 .. NumTracks + 1
  BY <1>1 DEF TracksTypeOK
<1>3. nextId + fresh \in 1 .. NumTracks + 1
  <2>1. CASE fresh = 0
    BY <1>2, <2>1
  <2>2. CASE fresh > 0
    <3>1. nextId + fresh - 1 \in NewIds(fresh)
      BY <1>2, <2>2 DEF NewIds
    <3> QED BY <1>1, <1>2, <3>1 DEF Tracks
  <2> QED BY <2>1, <2>2
<1>4. ASSUME NEW t \in Tracks PROVE Matched(t, strong) \in TrackRows
  BY TracksAssumption DEF Matched, TrackRows
<1>5. ASSUME NEW t \in Tracks, track[t] # NoTrack PROVE Missed(t) \in TrackRows \cup {NoTrack}
  <2> DEFINE row == track[t]
  <2>1. row \in TrackRows
    BY <1>5 DEF TracksTypeOK
  <2>2. Missed(t) = IF row.coast + 1 > MaxAge THEN NoTrack
                    ELSE [row EXCEPT !.coast = row.coast + 1]
    BY DEF Missed
  <2> HIDE DEF row
  <2>3. row.coast + 1 <= MaxAge => [row EXCEPT !.coast = row.coast + 1] \in TrackRows
    BY <2>1, TracksAssumption DEF TrackRows
  <2>4. row.coast \in Nat
    BY <2>1, TracksAssumption DEF TrackRows
  <2> QED BY <2>2, <2>3, <2>4, TracksAssumption
<1> QED BY <1>1, <1>3, <1>4, <1>5 DEF UpdateTracks

LEMMA InitTracks == TracksInit => TracksIInv
<1> SUFFICES ASSUME TracksInit PROVE TracksIInv
  OBVIOUS
<1>1. 0 \in Times
  BY TracksAssumption DEF Times
<1>2. Cardinality(Tracks) \in Nat
  BY TracksCount
<1>3. NoSpan \in Spans
  BY DEF NoSpan, Spans
<1>4. TracksTypeOK
  BY <1>1, <1>2, <1>3 DEF TracksInit, TracksTypeOK
<1>5. TracksFit
  BY DEF TracksInit, TracksFit, Forgotten, NoSpan, Never
<1> QED BY <1>4, <1>5 DEF TracksIInv

\* A step is a frame, whose output is some of the tracks that are there after it.
LEMMA FrameHandles ==
  ASSUME TracksIInv, TracksNext
  PROVE  /\ track' \in [Tracks -> TrackRows \cup {NoTrack}]
         /\ nextId' \in 1 .. Cardinality(Tracks) + 1
         /\ \E now \in Later, near \in SUBSET Tracks, out \in SUBSET Tracks :
              (\A t \in out : track'[t] \in TrackRows) /\ Handle(track', out, near, now)
<1>1. ASSUME NEW now \in Later, EmptyFrame(now)
      PROVE  /\ track' = track /\ nextId' = nextId /\ Handle(track', {}, {}, now)
  BY <1>1 DEF EmptyFrame
<1>2. ASSUME NEW now \in Later, NEW hits \in Matches, NEW fresh \in 0 .. Cardinality(Tracks),
             NEW strong, NEW near \in SUBSET Tracks, Frame(now, hits, fresh, strong, near)
      PROVE  /\ track' \in [Tracks -> TrackRows \cup {NoTrack}]
             /\ nextId' \in 1 .. Cardinality(Tracks) + 1
             /\ Alive(track') \in SUBSET Tracks
             /\ \A t \in Alive(track') : track'[t] \in TrackRows
             /\ Handle(track', Alive(track'), near, now)
  <2>1. /\ track' = UpdateTracks(hits, fresh, strong) /\ nextId' = nextId + fresh
        /\ NewIds(fresh) \subseteq Tracks /\ Handle(track', Alive(track'), near, now)
    BY <1>2 DEF Frame
  <2>2. hits \subseteq Alive(track) /\ hits \in SUBSET Tracks
    BY DEF Matches, Alive
  <2>3. fresh \in Nat
    BY FS_Interval, TracksAssumption DEF Tracks
  <2>4. /\ track' \in [Tracks -> TrackRows \cup {NoTrack}]
        /\ nextId' \in 1 .. Cardinality(Tracks) + 1
    BY <2>1, <2>2, <2>3, UpdateFacts DEF TracksIInv
  <2> QED BY <2>1, <2>4 DEF Alive
<1>3. PICK now \in Later :
        \/ EmptyFrame(now)
        \/ \E hits \in Matches, fresh \in 0 .. Cardinality(Tracks) :
             \E strong \in Smoothed(hits \cup NewIds(fresh)), near \in SUBSET Tracks :
               Frame(now, hits, fresh, strong, near)
  BY DEF TracksNext
<1>4. CASE EmptyFrame(now)
  BY <1>1, <1>4 DEF TracksIInv, TracksTypeOK
<1>5. CASE \E hits \in Matches, fresh \in 0 .. Cardinality(Tracks) :
             \E strong \in Smoothed(hits \cup NewIds(fresh)), near \in SUBSET Tracks :
               Frame(now, hits, fresh, strong, near)
  BY <1>2, <1>5
<1> QED BY <1>3, <1>4, <1>5

LEMMA NextTracks == TracksIInv /\ [TracksNext]_tracksVars => TracksIInv'
<1>1. ASSUME TracksIInv, TracksNext PROVE TracksIInv'
  <2>1. PICK now \in Later, near \in SUBSET Tracks, out \in SUBSET Tracks :
          (\A t \in out : track'[t] \in TrackRows) /\ Handle(track', out, near, now)
    BY <1>1, FrameHandles
  <2>2. track' \in [Tracks -> TrackRows \cup {NoTrack}] /\ nextId' \in 1 .. Cardinality(Tracks) + 1
    BY <1>1, FrameHandles
  <2>3. TracksTypeOK'
    BY <1>1, <2>1, <2>2, HandleTypes DEF TracksTypeOK
  <2>4. TracksFit'
    BY <1>1, <2>1, <2>2, HandleFits
  <2> QED BY <2>3, <2>4 DEF TracksIInv
<1>2. ASSUME TracksIInv, UNCHANGED tracksVars PROVE TracksIInv'
  BY <1>2 DEF tracksVars, TracksIInv, TracksTypeOK, TracksFit, Forgotten, StateFits, FiringsFit
<1> QED BY <1>1, <1>2

LEMMA TracksInvariance == TracksSpec => []TracksIInv
BY InitTracks, NextTracks, PTL DEF TracksSpec

\* The clock of a track in the output counts from the first frame of its presence, for
\* any rules and any times between frames (TrackEventState.touch, mark_missing).
THEOREM ClocksFit == TracksSpec => []TracksInv
<1>1. TracksIInv => TracksInv
  <2> SUFFICES ASSUME TracksIInv, NEW t \in Tracks, state[t] # NoState, state[t].missing = Never
               PROVE  state[t].since = shown[t].since
    BY DEF TracksIInv, TracksInv, ClockIsPresence
  <2>1. clock \in Nat
    BY RowsDiffer DEF TracksIInv, TracksTypeOK
  <2> QED BY <2>1, TracksAssumption DEF TracksIInv, TracksFit, StateFits
<1> QED BY <1>1, TracksInvariance, PTL

\* No rule fires twice for a track within its cooldown, whatever the cooldowns are, unless
\* the track was away for longer than its state lasts (EventEngine.update).
THEOREM CooldownsLast == TracksSpec => CooldownKept
<1> DEFINE Kept == \A e \in events' : LET last == firedAt[<<e.track, e.rule>>] IN
                     last # Never => \/ clock' - last >= Cooldown[e.rule]
                                     \/ shown'[e.track].back > last
<1>1. TracksIInv /\ [TracksNext]_tracksVars => [Kept]_tracksVars
  <2> SUFFICES ASSUME TracksIInv, TracksNext PROVE Kept
    OBVIOUS
  <2>1. PICK now \in Later, near \in SUBSET Tracks, out \in SUBSET Tracks :
          (\A t \in out : track'[t] \in TrackRows) /\ Handle(track', out, near, now)
    BY FrameHandles
  <2>2. track' \in [Tracks -> TrackRows \cup {NoTrack}]
    BY FrameHandles
  <2>3. Handled(track', out, near, now)
    BY <2>1, <2>2, HandleFacts
  <2> SUFFICES ASSUME NEW e \in events', firedAt[<<e.track, e.rule>>] # Never
               PROVE  \/ clock' - firedAt[<<e.track, e.rule>>] >= Cooldown[e.rule]
                      \/ shown'[e.track].back > firedAt[<<e.track, e.rule>>]
    OBVIOUS
  <2>4. /\ e.track \in out /\ e.rule \in Rules /\ clock' = now
        /\ Present(track', e.track, near, now).fired[e.rule] = now
    BY <2>3 DEF Handled
  <2>5. e.track \in Tracks /\ track'[e.track] \in TrackRows
    BY <2>1, <2>4
  <2>6. shown'[e.track] = Prolong(shown[e.track], now)
    BY <2>3, <2>4, <2>5 DEF Handled
  <2>7. Allowed(e.track, e.rule, now)
    BY <2>2, <2>4, <2>5, PresentFacts
  <2> QED BY <2>4, <2>6, <2>7 DEF Allowed
<1> QED BY <1>1, TracksInvariance, PTL DEF TracksSpec, CooldownKept
=============================================================================
