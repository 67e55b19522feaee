---------------------------- MODULE OfflineSync ----------------------------
(***************************************************************************)
(* The queues of a browser that works offline (useOfflineSync.ts): frames  *)
(* of the live camera and edits of annotations wait in IndexedDB until a   *)
(* flush sends them.  Calls of flushLiveFrameQueue overlap, since nothing  *)
(* locks it: the online event, the user, each new action and, while a      *)
(* session is shown, a 30 s timer start one.  Flushes of the edits of a    *)
(* session exclude each other.  A reload ends every call and keeps         *)
(* IndexedDB.  The server stores a frame again each time it is sent one.   *)
(***************************************************************************)
EXTENDS Integers, Sequences, FiniteSets

CONSTANTS Frames,     \* numbered in the order they are taken
          Clean,      \* those whose checksum the server can tell: saved in a
                      \* dataset, with no face or plate to blur
          Calls,      \* flushes, of frames or of edits, that may overlap
          Edits,      \* edits of one session
          MaxRetries, \* MAX_RETRIES
          Cap,        \* MAX_LIVE_FRAME_ENTRIES
          MaxReloads  \* bound on reloads of the page

ASSUME OfflineAssumption ==
  /\ Frames \subseteq Nat /\ IsFiniteSet(Frames)
  /\ Frames \cap Edits = {}
  /\ Clean \subseteq Frames
  /\ MaxRetries \in Nat \ {0}
  /\ Cap \in Nat \ {0}
  /\ MaxReloads \in Nat

VARIABLES queue,    \* queue[f]: the entry of a frame, Absent when there is none
          victims,  \* entries to evict before the next frame is added, or Unplanned
          edits,    \* edits[e]: the entry of an edit, Absent until it is queued
          call,     \* call[c]: what a flush of frames is doing
          batch,    \* batch[c]: the edits a flush of the session sends, with the
                    \* retryCount that was read
          saved,    \* frames the server has, once or more often
          late,     \* frames not saved whose request was given up and may still arrive
          answers,  \* answers[x]: failed answers for a frame or an edit so far (of an
                    \* edit since retryFailed last took it up), counted up to MaxRetries
          reloads

vars == <<queue, victims, edits, call, batch, saved, late, answers, reloads>>

Status  == {"pending", "syncing", "failed", "resolved", "duplicate_checksum"}
Entries == [status : Status, retries : 0 .. MaxRetries]
Absent  == [status |-> "absent", retries |-> 0]
NewEntry == [status |-> "pending", retries |-> 0]

Items == Frames \X (0 .. MaxRetries)  \* a frame with the retryCount that was read
CallRows == [pc : {"idle", "fetched", "loop", "posting", "answered"},
             known : SUBSET Frames, todo : Seq(Items), ok : BOOLEAN]
IdleCall == [pc |-> "idle", known |-> {}, todo |-> << >>, ok |-> FALSE]
Unplanned == {0} \X Frames
Batches == UNION {[s -> 0 .. MaxRetries] : s \in SUBSET Edits}
NoBatch == [e \in {} |-> 0]

TypeOK ==
  /\ queue \in [Frames -> Entries \cup {Absent}]
  /\ victims = Unplanned \/ victims \subseteq Frames
  /\ edits \in [Edits -> Entries \cup {Absent}]
  /\ call \in [Calls -> CallRows]
  /\ batch \in [Calls -> Batches]
  /\ saved \subseteq Frames
  /\ late \subseteq Frames
  /\ answers \in [Frames \cup Edits -> 0 .. MaxRetries]
  /\ reloads \in 0 .. MaxReloads

Init ==
  /\ queue = [f \in Frames |-> Absent]
  /\ victims = Unplanned
  /\ edits = [e \in Edits |-> Absent]
  /\ call = [c \in Calls |-> IdleCall]
  /\ batch = [c \in Calls |-> NoBatch]
  /\ saved = {}
  /\ late = {}
  /\ answers = [x \in Frames \cup Edits |-> 0]
  /\ reloads = 0

Queued(f) == queue[f] # Absent
Counted(failed) ==
  [x \in DOMAIN answers |->
     IF x \in failed /\ answers[x] < MaxRetries THEN answers[x] + 1 ELSE answers[x]]
ReadyForRetry(x) == x.status \in {"pending", "failed"} /\ x.retries < MaxRetries

(***************************************************************************)
(* Taking a frame: queueLiveFrame                                          *)
(***************************************************************************)
\* bug: an entry that was never sent may make room as well
RankOfAny(f) == CASE queue[f].status = "resolved" -> 1 [] OTHER -> 2
\* what makes room first: resolved, then duplicates, then failed entries
Rank(f) == CASE queue[f].status = "resolved" -> 1
             [] queue[f].status = "duplicate_checksum" -> 2
             [] queue[f].status = "failed" -> 3
             [] OTHER -> 4

Goes(f, g) == Rank(f) < Rank(g) \/ (Rank(f) = Rank(g) /\ f < g)

\* The victims are the first in that order, at least as many as the cap on
\* entries asks for and more when the cap on bytes does; when only entries
\* that still have to be sent remain, the caps are exceeded.
PlanEviction ==
  /\ victims = Unplanned
  /\ \E f \in Frames : ~ Queued(f) /\ f \notin saved /\ answers[f] = 0
  /\ LET here == {f \in Frames : Queued(f)}
         may  == {f \in here : Rank(f) < 4}
     IN \E v \in SUBSET may :
          /\ \A f \in v, g \in may : Goes(g, f) => g \in v
          /\ Cardinality(here \ v) < Cap \/ v = may
          /\ victims' = v
  /\ UNCHANGED <<queue, edits, call, batch, saved, late, answers, reloads>>

QueueFrame(f) ==
  /\ victims # Unplanned
  /\ ~ Queued(f) /\ f \notin saved /\ answers[f] = 0
  /\ \A g \in Frames : g < f => Queued(g) \/ g \in saved \/ answers[g] > 0
  /\ queue' = [g \in Frames |-> IF g = f THEN NewEntry
                                ELSE IF g \in victims THEN Absent ELSE queue[g]]
  /\ victims' = Unplanned
  /\ UNCHANGED <<edits, call, batch, saved, late, answers, reloads>>

(***************************************************************************)
(* Sending the frames: flushLiveFrameQueue                                 *)
(***************************************************************************)
\* fetchServerChecksums; when it fails, nothing is known
Fetch(c) ==
  /\ call[c].pc = "idle" /\ batch[c] = NoBatch
  /\ \E f \in Frames : ReadyForRetry(queue[f])
  /\ \E known \in {{}, Clean \cap saved} :
       call' = [call EXCEPT ![c] = [IdleCall EXCEPT !.pc = "fetched", !.known = known]]
  /\ UNCHANGED <<queue, victims, edits, batch, saved, late, answers, reloads>>

\* the loop over the entries that were selected, which ends with the last one
Continue(c, todo) ==
  [call EXCEPT ![c] = IF todo = << >> THEN IdleCall
                      ELSE [@ EXCEPT !.pc = "loop", !.todo = todo, !.ok = FALSE]]

\* the entries that are ready, with their retryCount as of now
Select(c) ==
  /\ call[c].pc = "fetched"
  /\ \E todo \in [1 .. Cardinality({f \in Frames : ReadyForRetry(queue[f])}) -> Items] :
       /\ {todo[i][1] : i \in DOMAIN todo} = {f \in Frames : ReadyForRetry(queue[f])}
       /\ \A i, j \in DOMAIN todo : i < j => todo[i][1] < todo[j][1]
       /\ \A i \in DOMAIN todo : todo[i][2] = queue[todo[i][1]].retries
       /\ call' = Continue(c, todo)
  /\ UNCHANGED <<queue, victims, edits, batch, saved, late, answers, reloads>>

Frame(c)   == Head(call[c].todo)[1]
Retries(c) == Head(call[c].todo)[2]
\* db.liveFrameQueue.update does nothing when the entry has been deleted
Set(f, entry) == queue' = [queue EXCEPT ![f] = IF Queued(f) THEN entry ELSE Absent]

Duplicate(c) ==
  /\ call[c].pc = "loop"
  /\ Frame(c) \in call[c].known
  /\ Set(Frame(c), [queue[Frame(c)] EXCEPT !.status = "duplicate_checksum"])
  /\ call' = Continue(c, Tail(call[c].todo))
  /\ UNCHANGED <<victims, edits, batch, saved, late, answers, reloads>>

Mark(c) ==
  /\ call[c].pc = "loop"
  /\ Frame(c) \notin call[c].known
  /\ Set(Frame(c), [queue[Frame(c)] EXCEPT !.status = "syncing"])
  /\ call' = [call EXCEPT ![c].pc = "posting"]
  /\ UNCHANGED <<victims, edits, batch, saved, late, answers, reloads>>

\* The server stores the frame and answers, refuses it, or the connection is
\* lost and the request arrives later or never.
Post(c) ==
  /\ call[c].pc = "posting"
  /\ \/ /\ saved' = saved \cup {Frame(c)}
        /\ call' = [call EXCEPT ![c].pc = "answered", ![c].ok = TRUE]
        /\ late' = late \ {Frame(c)}
     \/ /\ late' \in {late, late \cup ({Frame(c)} \ saved)}
        /\ call' = [call EXCEPT ![c].pc = "answered", ![c].ok = FALSE]
        /\ UNCHANGED saved
  /\ UNCHANGED <<queue, victims, edits, batch, answers, reloads>>

ArriveLate(f) ==
  /\ f \in late
  /\ late' = late \ {f}
  /\ saved' = saved \cup {f}
  /\ UNCHANGED <<queue, victims, edits, call, batch, answers, reloads>>

AfterFailure(retries) ==
  [status  |-> IF retries + 1 >= MaxRetries THEN "failed" ELSE "pending",
   retries |-> retries + 1]

\* bug: the entry is settled whatever the server answers
SettledAnyway(c) == [status |-> "resolved", retries |-> Retries(c)]
\* bug: a failed upload is not counted
NotCounted(c) ==
  IF call[c].ok THEN [queue[Frame(c)] EXCEPT !.status = "resolved"]
  ELSE [status |-> "pending", retries |-> Retries(c)]
Settled(c) ==
  IF call[c].ok THEN [queue[Frame(c)] EXCEPT !.status = "resolved"]
  ELSE AfterFailure(Retries(c))

Answer(c) ==
  /\ call[c].pc = "answered"
  /\ Set(Frame(c), Settled(c))
  /\ answers' = IF call[c].ok THEN answers ELSE Counted({Frame(c)})
  /\ call' = Continue(c, Tail(call[c].todo))
  /\ UNCHANGED <<victims, edits, batch, saved, late, reloads>>

(***************************************************************************)
(* Edits: queueAction and flushSessionSync                                 *)
(***************************************************************************)
QueueEdit(e) ==
  /\ edits[e] = Absent
  /\ edits' = [edits EXCEPT ![e] = NewEntry]
  /\ UNCHANGED <<queue, victims, call, batch, saved, late, answers, reloads>>

ReadyEdits == {e \in Edits : ReadyForRetry(edits[e])}

\* bug: nothing keeps a second flush of the session out, and it selects
\* entries that are being sent as well
Unlocked(c) == {e \in Edits : edits[e] # Absent /\ edits[e].retries < MaxRetries}
\* what a flush of the session sends; syncLocks keeps a second one out
Sends(c) == IF \A d \in Calls : batch[d] = NoBatch THEN ReadyEdits ELSE {}

SendEdits(c) ==
  /\ call[c].pc = "idle" /\ batch[c] = NoBatch
  /\ Sends(c) # {}
  /\ batch' = [batch EXCEPT ![c] = [e \in Sends(c) |-> edits[e].retries]]
  /\ edits' = [e \in Edits |-> IF e \in Sends(c) THEN [edits[e] EXCEPT !.status = "syncing"]
                               ELSE edits[e]]
  /\ UNCHANGED <<queue, victims, call, saved, late, answers, reloads>>

\* Each action is sent with an image_id where SyncAction asks for an
\* annotation_id, so the batch is refused before sync_batch runs (422), or
\* does not arrive.
EditsRefused(c) ==
  /\ batch[c] # NoBatch
  /\ edits' = [e \in Edits |-> IF e \in DOMAIN batch[c] THEN AfterFailure(batch[c][e])
                               ELSE edits[e]]
  /\ answers' = Counted(DOMAIN batch[c])
  /\ batch' = [batch EXCEPT ![c] = NoBatch]
  /\ UNCHANGED <<queue, victims, call, saved, late, reloads>>

\* retryFailed, which the hook offers to a page: the edits that were given up are
\* taken up again with their retries from 0; none of them is in a batch.
RetryFailed ==
  LET failed == {e \in Edits : edits[e].status = "failed"} IN
  /\ failed # {}
  /\ edits' = [e \in Edits |-> IF e \in failed THEN NewEntry ELSE edits[e]]
  /\ answers' = [x \in DOMAIN answers |-> IF x \in failed THEN 0 ELSE answers[x]]
  /\ UNCHANGED <<queue, victims, call, batch, saved, late, reloads>>

\* The page is reloaded or closed: no call goes on, entries stay as they are,
\* and a request on its way may still arrive.
Reload ==
  /\ reloads < MaxReloads
  /\ reloads' = reloads + 1
  /\ late' \in {late,
               late \cup ({Frame(c) : c \in {d \in Calls : call[d].pc = "posting"}} \ saved)}
  /\ call' = [c \in Calls |-> IdleCall]
  /\ batch' = [c \in Calls |-> NoBatch]
  /\ victims' = Unplanned
  /\ UNCHANGED <<queue, edits, saved, answers>>

-----------------------------------------------------------------------------
Flush(c) == Fetch(c) \/ Select(c) \/ Duplicate(c) \/ Mark(c) \/ Post(c) \/ Answer(c)
FlushEdits(c) == SendEdits(c) \/ EditsRefused(c)

Next ==
  \/ PlanEviction
  \/ \E f \in Frames : QueueFrame(f) \/ ArriveLate(f)
  \/ \E e \in Edits : QueueEdit(e)
  \/ \E c \in Calls : Flush(c) \/ FlushEdits(c)
  \/ RetryFailed \/ Reload

Spec == Init /\ [][Next]_vars

\* A flush that was started goes on, as each of its requests ends one way or the
\* other.  Nothing is assumed about when one is started.
GoesOn(c) == Select(c) \/ Duplicate(c) \/ Mark(c) \/ Post(c) \/ Answer(c) \/ EditsRefused(c)
FairSpec == Spec /\ \A c \in Calls : WF_vars(GoesOn(c))

-----------------------------------------------------------------------------
\* An entry the user is told is done is on the server, however flushes overlap
\* and answers get lost (flushLiveFrameQueue, status resolved or duplicate).
SettledIsSaved ==
  \A f \in Frames : queue[f].status \in {"resolved", "duplicate_checksum"} => f \in saved

\* An entry is marked as being sent only while a call is sending it, so a later
\* flush finds every other one; only a reload leaves one behind.
SyncingHasCall ==
  reloads = 0 =>
    /\ \A f \in Frames : queue[f].status = "syncing" =>
         \E c \in Calls : call[c].pc \in {"posting", "answered"} /\ Frame(c) = f
    /\ \A e \in Edits : edits[e].status = "syncing" => \E c \in Calls : e \in DOMAIN batch[c]

\* A frame that is not on the server leaves the queue only after as many
\* failed uploads as there are retries (enforceLiveFrameQueueLimits).
UnsavedKept ==
  [][\A f \in Frames : Queued(f) /\ queue'[f] = Absent =>
       f \in saved \/ answers[f] >= MaxRetries]_vars

\* The retries of an edit are the answers it got since it was queued or taken up
\* again, as the lock of the session keeps a second flush from working on what the
\* first has read.
AttemptsCounted == \A e \in Edits : edits[e].retries = answers[e]

\* Marks and counts agree with the calls that are under way.
CallsCounted == TypeOK /\ SyncingHasCall /\ AttemptsCounted

\* As long as flushes are started while one of the frames waits, and unless the
\* page is reloaded, a frame in the queue is saved, found to be on the server, or
\* given up after its retries.  The timer starts them where a session is shown
\* (useOfflineSync.ts:417); on the live page only the online event and the user do.
StartsAgain == WF_vars(\E c \in Calls : Fetch(c))
FrameSettles ==
  StartsAgain =>
    \A f \in Frames : Queued(f) ~>
      \/ queue[f].status \in {"resolved", "duplicate_checksum", "failed", "absent"}
      \/ reloads > 0
=============================================================================
