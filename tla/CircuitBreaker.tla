--------------------------- MODULE CircuitBreaker ---------------------------
(***************************************************************************)
(* A circuit breaker of an API process (app/core/circuit_breaker) as       *)
(* get_db and ping_redis use it: a call looks at the breaker, awaits the   *)
(* service, and records what came of it, in whatever state the breaker is  *)
(* by then.  Each look and each record hold the lock of the breaker.       *)
(***************************************************************************)
EXTENDS Integers

CONSTANTS Calls,       \* requests that may be under way at once
          Threshold,   \* failure_threshold
          Recovery,    \* recovery_timeout, in ticks of the clock
          HalfOpenMax  \* half_open_max_calls

ASSUME BreakerAssumption ==
  /\ Threshold \in Nat \ {0} /\ Recovery \in Nat \ {0} /\ HalfOpenMax \in Nat \ {0}

VARIABLES state,         \* _state
          failures,      \* _failure_count, up to Threshold
          age,           \* the time since _last_failure_time, up to Recovery
          halfOpenCalls, \* _half_open_calls
          up,            \* whether the service answers
          call,          \* doomed: the service was down at some time during the call
          streak,        \* failures recorded since the last success, up to Threshold
          quiet          \* the time since the last failure was recorded, up to Recovery

breakerVars == <<state, failures, age, halfOpenCalls, up, call, streak, quiet>>

Never == -1  \* no failure was recorded
States == {"closed", "open", "half_open"}

BreakerTypeOK ==
  /\ state \in States
  /\ failures \in 0 .. Threshold
  /\ age \in 0 .. Recovery \cup {Never}
  /\ halfOpenCalls \in 0 .. HalfOpenMax - 1
  /\ up \in BOOLEAN
  /\ call \in [Calls -> {"idle", "waiting", "doomed"}]
  /\ streak \in 0 .. Threshold
  /\ quiet \in 0 .. Recovery

BreakerInit ==
  /\ state = "closed"
  /\ failures = 0
  /\ age = Never
  /\ halfOpenCalls = 0
  /\ up = TRUE
  /\ call = [c \in Calls |-> "idle"]
  /\ streak = 0
  /\ quiet = Recovery

UpTo(bound, n) == IF n < bound THEN n + 1 ELSE bound

(***************************************************************************)
(* The service and the clock                                               *)
(***************************************************************************)
Tick ==
  /\ age' = IF age = Never THEN Never ELSE UpTo(Recovery, age)
  /\ quiet' = UpTo(Recovery, quiet)
  /\ UNCHANGED <<state, failures, halfOpenCalls, up, call, streak>>

GoesDown ==
  /\ up
  /\ up' = FALSE
  /\ call' = [c \in Calls |-> IF call[c] = "waiting" THEN "doomed" ELSE call[c]]
  /\ UNCHANGED <<state, failures, age, halfOpenCalls, streak, quiet>>

ComesUp ==
  /\ ~ up
  /\ up' = TRUE
  /\ UNCHANGED <<state, failures, age, halfOpenCalls, call, streak, quiet>>

(***************************************************************************)
(* The breaker                                                             *)
(***************************************************************************)
MayProbe == state = "open" /\ age = Recovery

Look == IF MayProbe THEN state' = "half_open" /\ halfOpenCalls' = 0
                    ELSE UNCHANGED <<state, halfOpenCalls>>

Closes == state = "half_open" /\ halfOpenCalls + 1 >= HalfOpenMax

ResetCalls == halfOpenCalls' = 0

\* bug: a success is forgotten, or one that comes late forgets when the breaker opened
ForgetNothing == UNCHANGED <<failures, age>>
ForgetAll == failures' = 0 /\ age' = Never
Forget == failures' = (IF state = "closed" THEN 0 ELSE failures) /\ UNCHANGED age

RecordSuccess ==
  \/ /\ Closes
     /\ state' = "closed" /\ failures' = 0 /\ age' = Never
     /\ ResetCalls
  \/ /\ ~ Closes /\ state = "half_open"
     /\ halfOpenCalls' = halfOpenCalls + 1
     /\ UNCHANGED <<state, failures, age>>
  \/ /\ ~ Closes /\ state # "half_open"
     /\ Forget
     /\ UNCHANGED <<state, halfOpenCalls>>

\* bug: the time of a failure is noted only while the breaker is closed
NoteOnce == age' = IF state = "closed" THEN 0 ELSE age
NoteTime == age' = 0

RecordFailure ==
  /\ failures' = UpTo(Threshold, failures)
  /\ NoteTime
  /\ state' = IF state = "half_open" \/ failures + 1 >= Threshold THEN "open" ELSE state
  /\ UNCHANGED halfOpenCalls

(***************************************************************************)
(* Calls                                                                   *)
(***************************************************************************)
\* A look alone: get_redis, the MinIO clients and the health check.
Peek ==
  /\ Look
  /\ UNCHANGED <<failures, age, up, call, streak, quiet>>

Begin(c) ==
  /\ call[c] = "idle"
  /\ Look
  /\ call' = IF state' = "open" THEN call
             ELSE [call EXCEPT ![c] = IF up THEN "waiting" ELSE "doomed"]
  /\ UNCHANGED <<failures, age, up, streak, quiet>>

Succeeds(c) ==
  /\ call[c] # "idle" /\ up
  /\ RecordSuccess
  /\ streak' = 0
  /\ call' = [call EXCEPT ![c] = "idle"]
  /\ UNCHANGED <<up, quiet>>

Fails(c) ==
  /\ call[c] = "doomed"
  /\ RecordFailure
  /\ streak' = UpTo(Threshold, streak)
  /\ quiet' = 0
  /\ call' = [call EXCEPT ![c] = "idle"]
  /\ UNCHANGED up

\* The request is cancelled: CancelledError is no Exception, nothing is recorded.
Cancelled(c) ==
  /\ call[c] # "idle"
  /\ call' = [call EXCEPT ![c] = "idle"]
  /\ UNCHANGED <<state, failures, age, halfOpenCalls, up, streak, quiet>>

BreakerNext == \/ Tick \/ GoesDown \/ ComesUp \/ Peek
        \/ \E c \in Calls : Begin(c) \/ Succeeds(c) \/ Fails(c) \/ Cancelled(c)

BreakerSpec == BreakerInit /\ [][BreakerNext]_breakerVars

\* Time passes, requests keep coming, and not every one is cut off.
BreakerFairSpec ==
  /\ BreakerSpec /\ WF_breakerVars(Tick)
  /\ \A c \in Calls : WF_breakerVars(Begin(c)) /\ SF_breakerVars(Succeeds(c) \/ Fails(c))

(***************************************************************************)
(* Properties                                                              *)
(***************************************************************************)
\* A closed breaker counts the failures since the last success, and those only,
\* though calls that began in other states record late; so it opens after
\* Threshold failures in a row and never later (_record_failure).
CountsStreak == state = "closed" => failures = streak /\ failures < Threshold

\* An open breaker knows when it may be tried again (_last_failure_time).
NeverStuck == state = "open" => age # Never

\* An open breaker stays open until Recovery has passed since the last failure,
\* whatever late calls record.
StaysOpen == [][state = "open" /\ state' # "open" => quiet = Recovery]_breakerVars

\* When the service is up for good, the breaker closes for good.
Recovers == <>[]up => <>[](state = "closed")
=============================================================================
