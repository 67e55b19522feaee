---------------------------- MODULE LiveSession ----------------------------
(***************************************************************************)
(* One WebSocket session of live annotation (app/api/ws_annotation).  On   *)
(* one event loop, the receive loop starts a task for a frame, or keeps    *)
(* the frame as the pending one while a task is under way; each task       *)
(* detects, announces the events of its frame, keeps the frames around an  *)
(* event as a clip that it saves, answers, and starts the pending frame.   *)
(* Actions are what runs between two awaits.                               *)
(***************************************************************************)
EXTENDS Integers, Sequences, FiniteSets

CONSTANTS MaxFrames,  \* bound on the frames that the client sends
          MaxEvents,  \* bound on the events of one frame
          BufferLen,  \* 24 in the code
          Pre, Post,  \* frames of a clip before its event, and from it on
          None

ASSUME SessionAssumption ==
  /\ MaxFrames \in Nat /\ MaxEvents \in Nat
  /\ BufferLen \in Nat \ {0} /\ Pre \in Nat /\ Post \in Nat
  /\ None \notin Nat

VARIABLES received,    \* how many frames arrived; frames are numbered
          processing,  \* the flag of the session
          pending,     \* the frame to process next, or None
          loop,        \* what the receive loop awaits
          open,        \* whether the client is still there
          task,        \* the task of each frame
          buffer,      \* FrameRingBuffer
          clip,        \* active_clip
          saved,       \* how often the clip of each event was saved
          answers      \* the frames that were answered, in order

vars == <<received, processing, pending, loop, open, task, buffer, clip, saved, answers>>

Frames == 1 .. MaxFrames
Events == [frame : Frames, nr : 1 .. MaxEvents]
NoTask == [pc |-> "none"]
Ended  == [pc |-> "ended"]
\* todo: the events of the frame that are not announced yet
Tasks  == [pc : {"new", "detect", "announce", "replace", "finish", "answer", "close"},
           todo : 0 .. MaxEvents, saves : SUBSET (1 .. MaxEvents)]
NoClip == [event |-> None]
Clips  == [event : Events, left : Int, entries : Seq(Frames)]

TypeOK ==
  /\ received \in 0 .. MaxFrames
  /\ processing \in BOOLEAN
  /\ pending \in Frames \cup {None}
  /\ loop \in {"receive", "busy", "ended"}
  /\ open \in BOOLEAN
  /\ task \in [Frames -> Tasks \cup {NoTask, Ended}]
  /\ buffer \in Seq(Frames) /\ Len(buffer) <= BufferLen
  /\ clip \in Clips \cup {NoClip}
  /\ saved \in [Events -> Nat]
  /\ answers \in Seq(Frames)

Init ==
  /\ received = 0
  /\ processing = FALSE
  /\ pending = None
  /\ loop = "receive"
  /\ open = TRUE
  /\ task = [f \in Frames |-> NoTask]
  /\ buffer = << >>
  /\ clip = NoClip
  /\ saved = [e \in Events |-> 0]
  /\ answers = << >>

Last(s, n) == SubSeq(s, IF Len(s) > n THEN Len(s) - n + 1 ELSE 1, Len(s))

Running(f) == task[f] \notin {NoTask, Ended}
New == [pc |-> "new", todo |-> 0, saves |-> {}]
At(f, pc) == task[f].pc = pc
Goes(f, pc) == task' = [task EXCEPT ![f].pc = pc]

(***************************************************************************)
(* The receive loop                                                        *)
(***************************************************************************)
\* bug: the flag is left to the task that was created
FlagLater == UNCHANGED processing
FlagNow == processing' = TRUE

\* It takes the place of the one that waits.
Waits(f) == pending' = f

Receive ==
  LET f == received + 1 IN
  /\ loop = "receive" /\ open
  /\ received < MaxFrames
  /\ received' = f
  /\ IF processing
       THEN /\ Waits(f)
            /\ loop' = "busy"
            /\ UNCHANGED <<processing, task>>
       ELSE /\ FlagNow
            /\ task' = [task EXCEPT ![f] = New]
            /\ UNCHANGED <<pending, loop>>
  /\ UNCHANGED <<open, buffer, clip, saved, answers>>

\* The client is told that the server is busy.
SendBusy ==
  /\ loop = "busy"
  /\ \/ loop' = "receive"
     \/ ~ open /\ loop' = "ended"
  /\ UNCHANGED <<received, processing, pending, open, task, buffer, clip, saved, answers>>

ClientLeaves ==
  /\ open
  /\ open' = FALSE
  /\ UNCHANGED <<received, processing, pending, loop, task, buffer, clip, saved, answers>>

\* WebSocketDisconnect: the tasks go on.
Disconnected ==
  /\ loop = "receive" /\ ~ open
  /\ loop' = "ended"
  /\ UNCHANGED <<received, processing, pending, open, task, buffer, clip, saved, answers>>

(***************************************************************************)
(* _process_frame                                                          *)
(***************************************************************************)
\* A frame that cannot be decoded is answered with an error.
Decode(f) ==
  /\ At(f, "new")
  /\ Goes(f, "detect") \/ Goes(f, "close")
  /\ UNCHANGED <<received, processing, pending, loop, open, buffer, clip, saved, answers>>

\* After the detection, which may fail: n events, some of rules that save a clip.
Detect(f, n, saves) ==
  /\ At(f, "detect")
  /\ saves \subseteq 1 .. n
  /\ task' = [task EXCEPT ![f] = [pc |-> "announce", todo |-> n, saves |-> saves]]
  /\ UNCHANGED <<received, processing, pending, loop, open, buffer, clip, saved, answers>>

DetectFails(f) ==
  /\ At(f, "detect")
  /\ Goes(f, "close")
  /\ UNCHANGED <<received, processing, pending, loop, open, buffer, clip, saved, answers>>

\* events are numbered backwards, from todo to 1
Event(f) == [frame |-> f, nr |-> task[f].todo]

OpenClip(f) ==
  clip' = [event |-> Event(f), left |-> Post, entries |-> Last(buffer, Pre)]
Announced(f) ==
  task' = [task EXCEPT ![f].pc = "announce", ![f].todo = @ - 1, ![f].saves = @ \ {task[f].todo}]

\* bug: a new clip replaces the one under way without saving it
NeverSaves == FALSE
MustSave == clip # NoClip

Announce(f) ==
  /\ At(f, "announce")
  /\ task[f].todo > 0
  /\ IF task[f].todo \in task[f].saves
       THEN IF MustSave
              THEN Goes(f, "replace") /\ UNCHANGED clip
              ELSE OpenClip(f) /\ Announced(f)
       ELSE Announced(f) /\ UNCHANGED clip
  /\ UNCHANGED <<received, processing, pending, loop, open, buffer, saved, answers>>

\* _finalize_clip: a frame, or the event, that cannot be stored is only logged.
Finalize == saved' = [saved EXCEPT ![clip.event] = @ + 1]

Replace(f) ==
  /\ At(f, "replace")
  /\ Finalize
  /\ OpenClip(f)
  /\ Announced(f)
  /\ UNCHANGED <<received, processing, pending, loop, open, buffer, answers>>

\* The clip is saved, but the client is not there to be told: it is kept.
ReplaceFails(f) ==
  /\ At(f, "replace") /\ ~ open
  /\ Finalize
  /\ Goes(f, "close")
  /\ UNCHANGED <<received, processing, pending, loop, open, buffer, clip, answers>>

\* The events are announced: the frame goes to the buffer and to the clip.
Keep(f) ==
  LET c == [clip EXCEPT !.left = @ - 1, !.entries = Append(@, f)] IN
  /\ At(f, "announce")
  /\ task[f].todo = 0
  /\ buffer' = Last(Append(buffer, f), BufferLen)
  /\ IF clip = NoClip
       THEN Goes(f, "answer") /\ UNCHANGED clip
       ELSE /\ clip' = c
            /\ Goes(f, IF c.left <= 0 THEN "finish" ELSE "answer")
  /\ UNCHANGED <<received, processing, pending, loop, open, saved, answers>>

\* bug: the clip is kept after it was saved
KeptClip == UNCHANGED clip
ClearClip == clip' = NoClip

Finish(f) ==
  /\ At(f, "finish")
  /\ Finalize
  /\ ClearClip
  /\ Goes(f, "answer")
  /\ UNCHANGED <<received, processing, pending, loop, open, buffer, answers>>

FinishFails(f) ==
  /\ At(f, "finish") /\ ~ open
  /\ Finalize
  /\ Goes(f, "close")
  /\ UNCHANGED <<received, processing, pending, loop, open, buffer, clip, answers>>

\* bug: the frame that waits is not started
LeavePending(f) == /\ processing' = FALSE
                   /\ task' = [task EXCEPT ![f] = Ended]
                   /\ UNCHANGED pending
\* finally: no await between the two
StartPending(f) ==
  IF pending = None
    THEN /\ processing' = FALSE
         /\ task' = [task EXCEPT ![f] = Ended]
         /\ UNCHANGED pending
    ELSE /\ processing' = TRUE
         /\ task' = [task EXCEPT ![f] = Ended, ![pending] = New]
         /\ pending' = None

Answer(f) ==
  /\ At(f, "answer")
  /\ answers' = Append(answers, f)
  /\ StartPending(f)
  /\ UNCHANGED <<received, loop, open, buffer, clip, saved>>

SendFails(f) ==
  /\ (At(f, "announce") /\ task[f].todo > 0) \/ At(f, "answer")
  /\ ~ open
  /\ Goes(f, "close")
  /\ UNCHANGED <<received, processing, pending, loop, open, buffer, clip, saved, answers>>

\* The client is told of the error, if it is there.
Close(f) ==
  /\ At(f, "close")
  /\ StartPending(f)
  /\ UNCHANGED <<received, loop, open, buffer, clip, saved, answers>>

TaskStep(f) ==
  \/ Decode(f) \/ DetectFails(f) \/ Announce(f) \/ Replace(f) \/ ReplaceFails(f)
  \/ \E n \in 0 .. MaxEvents : \E saves \in SUBSET (1 .. n) : Detect(f, n, saves)
  \/ Keep(f) \/ Finish(f) \/ FinishFails(f) \/ Answer(f) \/ SendFails(f) \/ Close(f)

Next == \/ Receive \/ SendBusy \/ ClientLeaves \/ Disconnected
        \/ \E f \in Frames : TaskStep(f)

Spec == Init /\ [][Next]_vars

\* The event loop runs what is ready.
Fairness == WF_vars(SendBusy) /\ \A f \in Frames : WF_vars(TaskStep(f))
FairSpec == Spec /\ Fairness

(***************************************************************************)
(* Properties                                                              *)
(***************************************************************************)
\* The tasks share the tracker, the event engine and the clip, so only one is
\* under way, and the flag says so, also while the loop awaits a send.
OneInFlight ==
  /\ Cardinality({f \in Frames : Running(f)}) <= 1
  /\ processing <=> \E f \in Frames : Running(f)

\* The frame that waits is the newest that arrived, and somebody will start it.
PendingIsLatest == pending # None => processing /\ pending = received

\* Frames are answered, buffered and put in clips in the order they arrived and
\* never twice, though events and errors cut the handling of a frame short.
Increasing(s) == \A i, j \in 1 .. Len(s) : i < j => s[i] < s[j]
InOrder == /\ Increasing(answers) /\ Increasing(buffer)
           /\ clip # NoClip => Increasing(clip.entries)

\* What the tasks of a session may rely on at every await.
SessionInv == TypeOK /\ OneInFlight /\ PendingIsLatest /\ InOrder

\* While the client is there the clip of an event is saved once.  When it leaves,
\* the clip may be saved again by the one frame that still waits.
SavedOnce == \A e \in Events : saved[e] <= IF open THEN 1 ELSE 2

\* A clip ends only when it is saved: a newer event does not throw it away.
ClipNotLost ==
  [][clip # NoClip /\ clip'.event # clip.event => saved'[clip.event] > 0]_vars

\* To the client the session is the server it takes it for: a frame that comes is
\* held with at most one other, and each that is held is answered in the end.
Held == Cardinality({f \in Frames : Running(f)}) + (IF pending = None THEN 0 ELSE 1)
Server == INSTANCE LiveServer WITH held <- Held
ImplementsServer == Server!Spec
=============================================================================
