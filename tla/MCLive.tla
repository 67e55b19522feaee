------------------------------- MODULE MCLive -------------------------------
(* An instance of LiveSession, LiveClient and LiveTracks for TLC.  The three *)
(* share no variable, so each behaviour runs one of them: part says which.   *)
EXTENDS LiveSession, LiveClient, LiveTracks

\* One cooldown is longer than TTL, the others are not.
Cooldowns ==
  [r \in RuleTypes |-> IF r = "presence" THEN 6 ELSE IF r = "dwell" THEN 3 ELSE 2]

VARIABLE part

MCInit ==
  /\ part \in {"session", "client", "tracks"}
  /\ Init /\ ClientInit /\ TracksInit

MCNext ==
  /\ UNCHANGED part
  /\ \/ part = "session" /\ Next /\ UNCHANGED <<clientVars, tracksVars>>
     \/ part = "client" /\ ClientNext /\ UNCHANGED <<vars, tracksVars>>
     \/ part = "tracks" /\ TracksNext /\ UNCHANGED <<vars, clientVars>>

MCSpec ==
  /\ MCInit /\ [][MCNext]_<<part, vars, clientVars, tracksVars>>
  /\ Fairness /\ ClientFairness
=============================================================================
