----------------------------- MODULE LiveClient -----------------------------
(***************************************************************************)
(* The browser's side of live annotation (useLiveAnnotation): an effect    *)
(* that runs again whenever a setting or the frame rate changes, with a    *)
(* socket and a timer for each run, and two flags that all runs share and  *)
(* that hold frames back while one is under way.  Handlers run to their    *)
(* end; a capture is awaited.  The server is LiveServer, which LiveSession *)
(* implements.                                                             *)
(***************************************************************************)
EXTENDS Naturals, Sequences, FiniteSets

CONSTANT MaxRuns  \* bound on the runs of the effect

ASSUME ClientAssumption == MaxRuns \in Nat

Runs == 1 .. MaxRuns

VARIABLES run,         \* the last run of the effect
          active,      \* whether its timer is set
          socket,      \* the socket of each run
          inferencing, \* inferencingRef
          pendingSend, \* pendingSendRef
          captures,    \* frames of each run that are being captured
          server,      \* frames of each socket that the server has
          inbox        \* messages of each socket on their way back

clientVars == <<run, active, socket, inferencing, pendingSend, captures, server, inbox>>

Remote(r) == INSTANCE LiveServer WITH held <- server[r]

ClientTypeOK ==
  /\ run \in 0 .. MaxRuns
  /\ active \in BOOLEAN
  /\ socket \in [Runs -> {"none", "connecting", "open", "closing", "closed"}]
  /\ inferencing \in BOOLEAN /\ pendingSend \in BOOLEAN
  /\ captures \in [Runs -> 0 .. 2 * MaxRuns]
  /\ server \in [Runs -> 0 .. 2]
  /\ inbox \in [Runs -> Seq({"answer", "busy"})]

ClientInit ==
  /\ run = 0
  /\ active = FALSE
  /\ socket = [r \in Runs |-> "none"]
  /\ inferencing = FALSE /\ pendingSend = FALSE
  /\ captures = [r \in Runs |-> 0]
  /\ server = [r \in Runs |-> 0]
  /\ inbox = [r \in Runs |-> << >>]

ClearFlags == inferencing' = FALSE /\ pendingSend' = FALSE

\* A socket that closes brings no more messages, and the server drops its frames.
Hushed(s) == /\ server' = [r \in Runs |-> IF s[r] = "open" THEN server[r] ELSE 0]
             /\ inbox' = [r \in Runs |-> IF s[r] = "open" THEN inbox[r] ELSE << >>]

(***************************************************************************)
(* The effect                                                              *)
(***************************************************************************)
\* close() only begins to close; the handlers of the socket stay in place.
CloseSockets == [r \in Runs |->
  IF active /\ r = run /\ socket[r] \in {"connecting", "open"} THEN "closing" ELSE socket[r]]

Rerun ==
  /\ run < MaxRuns
  /\ ClearFlags
  /\ run' = run + 1
  /\ active' = TRUE
  /\ socket' = [CloseSockets EXCEPT ![run + 1] = "connecting"]
  /\ Hushed(socket')
  /\ UNCHANGED captures

\* The camera is switched off.
Disable ==
  /\ active
  /\ ClearFlags
  /\ active' = FALSE
  /\ socket' = CloseSockets
  /\ Hushed(socket')
  /\ UNCHANGED <<run, captures>>

(***************************************************************************)
(* The timer                                                               *)
(***************************************************************************)
\* bug: the timer keeps the first socket
FirstSocket == 1
\* wsRef
Current == run

RaiseFlags == inferencing' = TRUE /\ pendingSend' = TRUE

Tick ==
  /\ active
  /\ ~ inferencing /\ ~ pendingSend
  /\ socket[Current] = "open"
  /\ RaiseFlags
  /\ captures' = [captures EXCEPT ![Current] = @ + 1]
  /\ UNCHANGED <<run, active, socket, server, inbox>>

\* send() on a socket that is no longer open does nothing.
Send(r) ==
  /\ captures[r] > 0
  /\ captures' = [captures EXCEPT ![r] = @ - 1]
  /\ IF socket[r] # "open" THEN UNCHANGED <<server, inbox>>
     ELSE /\ server' = [server EXCEPT ![r] = Remote(r)!KeepsNewest(@)]
          /\ inbox' = [inbox EXCEPT ![r] = IF server[r] = 0 THEN @ ELSE Append(@, "busy")]
  /\ UNCHANGED <<run, active, socket, inferencing, pendingSend>>

CaptureFails(r) ==
  /\ captures[r] > 0
  /\ captures' = [captures EXCEPT ![r] = @ - 1]
  /\ ClearFlags
  /\ UNCHANGED <<run, active, socket, server, inbox>>

(***************************************************************************)
(* The socket                                                              *)
(***************************************************************************)
Open(r) ==
  /\ socket[r] = "connecting"
  /\ socket' = [socket EXCEPT ![r] = "open"]
  /\ UNCHANGED <<run, active, inferencing, pendingSend, captures, server, inbox>>

\* a result, or an error
Reply(r) ==
  /\ server[r] > 0
  /\ server' = [server EXCEPT ![r] = @ - 1]
  /\ inbox' = [inbox EXCEPT ![r] = Append(@, "answer")]
  /\ UNCHANGED <<run, active, socket, inferencing, pendingSend, captures>>

Message(r) ==
  /\ socket[r] = "open"
  /\ inbox[r] # << >>
  /\ inbox' = [inbox EXCEPT ![r] = Tail(@)]
  /\ IF Head(inbox[r]) = "answer" THEN ClearFlags
     ELSE pendingSend' = FALSE /\ UNCHANGED inferencing
  /\ UNCHANGED <<run, active, socket, captures, server>>

\* The server or the network ends the connection.
Lost(r) ==
  /\ socket[r] \in {"connecting", "open"}
  /\ socket' = [socket EXCEPT ![r] = "closing"]
  /\ Hushed(socket')
  /\ UNCHANGED <<run, active, inferencing, pendingSend, captures>>

\* bug: onclose says nothing of the frame that was under way
CloseQuietly == UNCHANGED <<inferencing, pendingSend>>
OnClose == ClearFlags

Closed(r) ==
  /\ socket[r] = "closing"
  /\ socket' = [socket EXCEPT ![r] = "closed"]
  /\ OnClose
  /\ UNCHANGED <<run, active, captures, server, inbox>>

ClientNext == \/ Rerun \/ Disable \/ Tick
        \/ \E r \in Runs : \/ Send(r) \/ CaptureFails(r) \/ Open(r) \/ Reply(r)
                           \/ Message(r) \/ Lost(r) \/ Closed(r)

ClientSpec == ClientInit /\ [][ClientNext]_clientVars

\* The browser and the server run what is ready, and messages arrive.
ClientFairness == /\ WF_clientVars(Tick)
            /\ \A r \in Runs : WF_clientVars(Send(r)) /\ WF_clientVars(Reply(r)) /\ WF_clientVars(Message(r))
ClientFairSpec == ClientSpec /\ ClientFairness

(***************************************************************************)
(* Properties                                                              *)
(***************************************************************************)
Answers(r) == Cardinality({i \in 1 .. Len(inbox[r]) : inbox[r][i] = "answer"})
UnderWay(r) == captures[r] + server[r] + Answers(r)

\* Frames are held back only while something is still to come that lets them go
\* on, whichever runs, sockets and captures come and go (inferencingRef).
HeldForAReason ==
  inferencing \/ pendingSend =>
    \E r \in Runs : socket[r] = "closing" \/ (socket[r] = "open" /\ UnderWay(r) > 0)

\* Until the effect runs again, one frame is under way at a time.
OneFrame == run = 1 => UnderWay(1) <= 1

\* The flags and the frames under way agree at every moment.
ClientInv == ClientTypeOK /\ HeldForAReason /\ OneFrame

\* While a socket stays open, its timer sends again and again: each frame gets an
\* answer or was never captured.
KeepsGoing(r) ==
  <>[](active /\ run = r /\ socket[r] = "open")
    => []<><<Message(r) \/ CaptureFails(r)>>_clientVars
Flows == \A r \in Runs : KeepsGoing(r)
=============================================================================
