----------------------------- MODULE LiveTracks -----------------------------
(***************************************************************************)
(* What a live session makes of the detections of its frames: tracks       *)
(* (app/ai/object_tracker), and from them the events of rules              *)
(* (app/ai/events).  A frame is handled as a whole; frames come at any     *)
(* intervals.  Boxes and embeddings decide which track a detection belongs *)
(* to: here any assignment, the confident detections first.                *)
(***************************************************************************)
EXTENDS Integers, FiniteSets

CONSTANTS NumTracks, \* bound on the tracks
          MaxClock,  \* bound on the time, in the units of the constants below
          MaxStep,   \* bound on the time between two frames
          MaxAge,    \* updates that a track survives without a detection
          Gap,       \* MAX_TRACK_GAP_SECONDS
          TTL,       \* TRACK_STATE_TTL_SECONDS
          Rules,     \* enabled rules that match every detection
          Dwell,     \* dwell_seconds
          Cooldown   \* cooldown_seconds of each rule

RuleTypes == {"dwell", "presence", "confidence_drop", "distance"}

ASSUME TracksAssumption ==
  /\ NumTracks \in Nat /\ MaxClock \in Nat /\ MaxStep \in Nat \ {0} /\ MaxAge \in Nat
  /\ Gap \in Nat \ {0} /\ TTL \in Nat /\ Dwell \in Nat \ {0}
  /\ Gap < TTL        \* 2 s and 120 s
  /\ Cooldown \in [Rules -> Nat]  \* 20 to 60 s by default, any in a configured rule
  /\ Rules \subseteq RuleTypes

VARIABLES clock,    \* the time of the last frame
          track,    \* ByteTrack._tracks
          nextId,   \* ByteTrack._next_id
          state,    \* EventEngine._states
          events,   \* what the last frame triggered
          shown,    \* since when, and when last, each track was in the output, and
                    \* when it came back after more than TTL
          firedAt   \* when each rule last fired for each track

tracksVars == <<clock, track, nextId, state, events, shown, firedAt>>

Tracks  == 1 .. NumTracks
Never   == -1
Times   == 0 .. MaxClock
NoTrack == [coast |-> Never]
NoState == [seen |-> Never]
NoSpan  == [since |-> Never, last |-> Never, back |-> Never]

\* strong: whether the smoothed confidence is above confidence_drop_from
TrackRows == [coast : 0 .. MaxAge, strong : BOOLEAN]
StateRows == [seen : Times, since : Times, missing : Times \cup {Never},
              peak : BOOLEAN, fired : [Rules -> Times \cup {Never}]]
Spans     == [since : Times \cup {Never}, last : Times \cup {Never},
              back : Times \cup {Never}]

TracksTypeOK ==
  /\ clock \in Times
  /\ track \in [Tracks -> TrackRows \cup {NoTrack}]
  /\ nextId \in 1 .. Cardinality(Tracks) + 1
  /\ state \in [Tracks -> StateRows \cup {NoState}]
  /\ events \subseteq [track : Tracks, rule : Rules]
  /\ shown \in [Tracks -> Spans]
  /\ firedAt \in [Tracks \X Rules -> Times \cup {Never}]

TracksInit ==
  /\ clock = 0
  /\ track = [t \in Tracks |-> NoTrack]
  /\ nextId = 1
  /\ state = [t \in Tracks |-> NoState]
  /\ events = {}
  /\ shown = [t \in Tracks |-> NoSpan]
  /\ firedAt = [p \in Tracks \X Rules |-> Never]

Alive(trk) == {t \in Tracks : trk[t] # NoTrack}

(***************************************************************************)
(* ByteTrack.update.  hits: the tracks that get a detection; fresh: how    *)
(* many confident detections are left over; strong: the tracks whose       *)
(* smoothed confidence is high after it.                                   *)
(***************************************************************************)
\* Boxes, classes and embeddings give each detection to at most one track.
Matches == SUBSET Alive(track)
\* The mean of the last confidences may be high or low after any of them.
Smoothed(seen) == SUBSET seen

Matched(t, strong) == [coast |-> 0, strong |-> t \in strong]

Missed(t) ==
  IF track[t].coast + 1 > MaxAge THEN NoTrack ELSE [track[t] EXCEPT !.coast = @ + 1]

NewIds(fresh) == nextId .. nextId + fresh - 1

UpdateTracks(hits, fresh, strong) ==
  [t \in Tracks |-> IF t \in hits \cup NewIds(fresh) THEN Matched(t, strong)
                    ELSE IF track[t] # NoTrack THEN Missed(t)
                    ELSE NoTrack]

(***************************************************************************)
(* EventEngine.update at time now, with the tracks in the output           *)
(***************************************************************************)
NewState(trk, t, now) ==
  [seen |-> now, since |-> now, missing |-> Never, peak |-> trk[t].strong,
   fired |-> [r \in Rules |-> Never]]

\* bug: a track that comes back goes on with its old clock
NoReset(s, now) == s.since
Since(s, now) == IF now - s.seen > Gap THEN now ELSE s.since

Touched(trk, t, now) ==
  LET s == state[t] IN
  [s EXCEPT !.seen = now, !.since = Since(s, now), !.missing = Never,
            !.peak = @ \/ trk[t].strong]

\* bug: the state is dropped with the gap, and what fired with it
StaleEarly(s, now) == now - s.seen > Gap
Stale(s, now) == now - s.seen > TTL

MarkMissing(s, now) ==
  [s EXCEPT !.missing = IF @ = Never THEN now ELSE @,
            !.since = IF now - s.seen > Gap THEN now ELSE @]

Holds(r, s, trk, t, near, now) ==
  CASE r = "dwell"           -> now - s.since >= Dwell
    [] r = "presence"        -> TRUE
    [] r = "confidence_drop" -> s.peak /\ ~ trk[t].strong
    [] r = "distance"        -> t \in near

CooldownOk(s, r, now) == s.fired[r] = Never \/ now - s.fired[r] >= Cooldown[r]

Fires(s, trk, t, near, now) ==
  {r \in Rules : CooldownOk(s, r, now) /\ Holds(r, s, trk, t, near, now)}

Present(trk, t, near, now) ==
  LET s == IF state[t] = NoState THEN NewState(trk, t, now) ELSE Touched(trk, t, now)
  IN  [s EXCEPT !.fired = [r \in Rules |-> IF r \in Fires(s, trk, t, near, now)
                                             THEN now ELSE s.fired[r]]]

UpdateStates(trk, out, near, now) ==
  [t \in Tracks |->
     IF t \in out THEN Present(trk, t, near, now)
     ELSE IF state[t] = NoState \/ Stale(state[t], now) THEN NoState
     ELSE MarkMissing(state[t], now)]

(***************************************************************************)
(* A frame                                                                 *)
(***************************************************************************)
\* The span of presence that a sighting at time now prolongs, or begins.
Prolong(span, now) ==
  [since |-> IF span.last = Never \/ now - span.last > Gap THEN now ELSE span.since,
   last  |-> now,
   back  |-> IF span.last # Never /\ now - span.last > TTL THEN now ELSE span.back]

Handle(trk, out, near, now) ==
  LET new == UpdateStates(trk, out, near, now)
      fired == {p \in out \X Rules : new[p[1]].fired[p[2]] = now}
  IN  /\ state' = new
      /\ events' = {[track |-> p[1], rule |-> p[2]] : p \in fired}
      /\ firedAt' = [p \in Tracks \X Rules |-> IF p \in fired THEN now ELSE firedAt[p]]
      /\ shown' = [t \in Tracks |-> IF t \in out THEN Prolong(shown[t], now) ELSE shown[t]]
      /\ clock' = now

Later == {now \in Times : now - clock \in 1 .. MaxStep}

\* The output has every track that is left, with or without a detection.
Frame(now, hits, fresh, strong, near) ==
  LET trk == UpdateTracks(hits, fresh, strong) IN
  /\ NewIds(fresh) \subseteq Tracks
  /\ track' = trk
  /\ nextId' = nextId + fresh
  /\ Handle(trk, Alive(trk), near, now)

\* run_seg_primary_detection returns before the tracker when nothing is detected.
EmptyFrame(now) ==
  /\ UNCHANGED <<track, nextId>>
  /\ Handle(track, {}, {}, now)

TracksNext ==
  \E now \in Later :
    \/ EmptyFrame(now)
    \/ \E hits \in Matches, fresh \in 0 .. Cardinality(Tracks) :
         \E strong \in Smoothed(hits \cup NewIds(fresh)), near \in SUBSET Tracks :
           Frame(now, hits, fresh, strong, near)

TracksSpec == TracksInit /\ [][TracksNext]_tracksVars

(***************************************************************************)
(* Properties                                                              *)
(***************************************************************************)
\* The clock of a track in the output counts from the first of the frames that
\* showed it with no gap above Gap, however it went missing and came back
\* (TrackEventState.touch, mark_missing and the pruning).
ClockIsPresence ==
  \A t \in Tracks : state[t] # NoState /\ state[t].missing = Never
                      => state[t].since = shown[t].since

\* Tracks, states and clocks fit together after every frame.
TracksInv == TracksTypeOK /\ ClockIsPresence

\* A rule fires for a track again only after its cooldown, of whatever length, unless
\* the track was out of the output for more than TTL in between: the state that knows
\* of the firing is pruned no earlier (EventEngine.update, is_stale).
CooldownKept ==
  [][\A e \in events' : LET last == firedAt[<<e.track, e.rule>>] IN
       last # Never => \/ clock' - last >= Cooldown[e.rule]
                       \/ shown'[e.track].back > last]_tracksVars
=============================================================================
