--------------------------- MODULE CircuitBreaker ---------------------------
(***************************************************************************)
(* The circuit breaker for LLM calls (security/circuit_breaker.py) with    *)
(* the concurrent calls it guards.  Each process has one breaker: the API  *)
(* process calls the LLM in api/routes/generate.py, a worker process in    *)
(* extract_handler (ingestion/stages.py) through graph/extractor.py.       *)
(*                                                                         *)
(* The methods of the breaker run on the event loop without awaiting, so   *)
(* each is atomic; but a call awaits between is_allowed() and the record   *)
(* of its outcome, and any number of calls are under way at once: an       *)
(* outcome may be recorded in another state than the one that let the call *)
(* through.                                                                *)
(*                                                                         *)
(* Time is the age of the last recorded failure, in ticks and no further   *)
(* than RESET_TIMEOUT, beyond which the code tells no ages apart.          *)
(***************************************************************************)
EXTENDS Naturals

CONSTANTS
  Caller,             \* requests and handlers that call the LLM
  Extractor,          \* those that call it through graph/extractor.py
  FAILURE_THRESHOLD,  \* llm_circuit_breaker_threshold
  RESET_TIMEOUT,      \* llm_circuit_breaker_reset, in ticks
  MaxFailures         \* bound: failures counted without a success

ASSUME BreakerAssumption ==
  /\ Extractor \subseteq Caller
  /\ FAILURE_THRESHOLD \in Nat \ {0}
  /\ RESET_TIMEOUT \in Nat \ {0}
  /\ MaxFailures \in Nat

VARIABLES
  state,                    \* _state, as stored: expiry is noticed on reading
  failure_count,
  success_count_half_open,
  age,                      \* time since _last_failure_time
  call,                     \* whether each caller awaits the LLM
  losses,                   \* history: failures reported in a row
  wins,                     \* history: successes reported in a row, up to 2
  outage                    \* history: LLM calls that failed in a row

breaker == <<state, failure_count, success_count_half_open, age>>
history == <<losses, wins, outage>>
breakerVars == <<state, failure_count, success_count_half_open, age, call, losses, wins, outage>>

BreakerInit ==
  /\ state = "closed"
  /\ failure_count = 0
  /\ success_count_half_open = 0
  /\ age = RESET_TIMEOUT
  /\ call = [c \in Caller |-> "idle"]
  /\ losses = 0
  /\ wins = 0
  /\ outage = 0

(* Mutants: the timeout is one tick short; expiry goes unnoticed.          *)
CurrentTooEarly ==
  IF state = "open" /\ age >= RESET_TIMEOUT - 1 THEN "half_open" ELSE state

CurrentAsStored == state

(* The state property: reading it is what turns an expired open breaker    *)
(* half open.                                                              *)
Current == IF state = "open" /\ age >= RESET_TIMEOUT THEN "half_open" ELSE state

(* Mutant: test successes of an earlier half-open period still count.      *)
ReadStateKeepingTests ==
  /\ state' = Current
  /\ UNCHANGED <<failure_count, success_count_half_open, age>>

ReadState ==
  /\ state' = Current
  /\ success_count_half_open' = IF Current = state THEN success_count_half_open ELSE 0
  /\ UNCHANGED <<failure_count, age>>

(* Mutant: a success forgets no failure of a closed breaker.               *)
RecordSuccessForgetsNothing ==
  /\ IF state = "half_open"
       THEN success_count_half_open' = success_count_half_open + 1
       ELSE UNCHANGED success_count_half_open
  /\ IF success_count_half_open' >= 2 /\ state = "half_open"
       THEN state' = "closed" /\ failure_count' = 0
       ELSE UNCHANGED <<state, failure_count>>
  /\ UNCHANGED age

(* record_success() looks at the stored state, whatever its age.           *)
RecordSuccess ==
  \/ /\ state = "half_open"
     /\ success_count_half_open' = success_count_half_open + 1
     /\ IF success_count_half_open' >= 2
          THEN state' = "closed" /\ failure_count' = 0
          ELSE UNCHANGED <<state, failure_count>>
     /\ UNCHANGED age
  \/ /\ state # "half_open"
     /\ failure_count' = 0
     /\ UNCHANGED <<state, success_count_half_open, age>>

(* Mutant: opening one failure late.                                       *)
RecordFailureOneLate ==
  /\ failure_count < MaxFailures
  /\ failure_count' = failure_count + 1
  /\ age' = 0
  /\ state' = IF state = "half_open" \/ failure_count' > FAILURE_THRESHOLD
                THEN "open" ELSE state
  /\ UNCHANGED success_count_half_open

RecordFailure ==
  /\ failure_count < MaxFailures
  /\ failure_count' = failure_count + 1
  /\ age' = 0
  /\ state' = IF state = "half_open" \/ failure_count' >= FAILURE_THRESHOLD
                THEN "open" ELSE state
  /\ UNCHANGED success_count_half_open

ReportSuccess ==
  /\ RecordSuccess
  /\ losses' = 0
  /\ wins' = IF wins < 2 THEN wins + 1 ELSE wins

ReportFailure ==
  /\ RecordFailure
  /\ losses' = losses + 1
  /\ wins' = 0

-----------------------------------------------------------------------------
(* is_allowed() lets a call through.  It refuses while Current is "open",  *)
(* and then changes nothing.                                               *)
Admit(c) ==
  /\ call[c] = "idle"
  /\ Current # "open"
  /\ ReadState
  /\ call' = [call EXCEPT ![c] = "waiting"]
  /\ UNCHANGED history

(* The health endpoint reports the state.                                  *)
Health ==
  /\ ReadState
  /\ UNCHANGED <<call, history>>

Ends(c) ==
  /\ call[c] = "waiting"
  /\ call' = [call EXCEPT ![c] = "idle"]

(* A request that was let through ends without calling the LLM: retrieval  *)
(* raised or found nothing.                                                *)
GiveUp(c) ==
  /\ c \notin Extractor
  /\ Ends(c)
  /\ UNCHANGED <<breaker, history>>

(* The LLM answers.  The extractor may still raise while it builds records *)
(* from an answer that is JSON of the wrong shape.                         *)
Succeed(c) ==
  /\ Ends(c)
  /\ outage' = 0
  /\ \/ ReportSuccess
     \/ c \in Extractor /\ ReportFailure

(* The LLM raises.  The extractor catches that itself and returns an empty *)
(* result, which extract_handler takes for a success.                      *)
Fail(c) ==
  /\ Ends(c)
  /\ outage < MaxFailures
  /\ outage' = outage + 1
  /\ IF c \in Extractor THEN ReportSuccess ELSE ReportFailure

Tick ==
  /\ age < RESET_TIMEOUT
  /\ age' = age + 1
  /\ UNCHANGED <<state, failure_count, success_count_half_open, call, history>>

BreakerNext ==
  \/ \E c \in Caller : Admit(c) \/ GiveUp(c) \/ Succeed(c) \/ Fail(c)
  \/ Health
  \/ Tick

BreakerSpec == BreakerInit /\ [][BreakerNext]_breakerVars

(* Time passes, and somebody asks for the state again and again.           *)
BreakerFairSpec == BreakerSpec /\ WF_breakerVars(Tick) /\ WF_breakerVars(Health)

-----------------------------------------------------------------------------
BreakerTypeOK ==
  /\ state \in {"closed", "open", "half_open"}
  /\ failure_count \in 0..MaxFailures
  /\ success_count_half_open \in 0..2
  /\ age \in 0..RESET_TIMEOUT
  /\ call \in [Caller -> {"idle", "waiting"}]
  /\ losses \in 0..MaxFailures
  /\ wins \in 0..2
  /\ outage \in 0..MaxFailures

(* Half open means rested: no failure has been recorded for RESET_TIMEOUT, *)
(* not even one of a call that was let through before the breaker opened.  *)
HalfOpenIsRested == state = "half_open" => age >= RESET_TIMEOUT

(* The breaker opens after that many failures in a row, none of which was  *)
(* forgotten, though outcomes of calls from before and after its last      *)
(* recovery are recorded in any order.                                     *)
OpensAfterConsecutiveFailures == losses >= FAILURE_THRESHOLD => state # "closed"

(* The other direction: it opens from closed only after that many failures *)
(* in a row, none counted twice or left over from an earlier period.       *)
OpensOnlyAfterConsecutiveFailures ==
  [][state = "closed" /\ state' = "open" => losses' >= FAILURE_THRESHOLD]_breakerVars

(* Once that many failures in a row were reported, no call starts before   *)
(* RESET_TIMEOUT has passed since the last failure.  A breaker that opens  *)
(* again from half open after fewer is not meant here.                     *)
NoCallWhileOpen ==
  [][\A c \in Caller :
       call[c] = "idle" /\ call'[c] = "waiting"
       => losses < FAILURE_THRESHOLD \/ age >= RESET_TIMEOUT]_breakerVars

(* The breaker closes again only when the last two outcomes reported are   *)
(* successes, though calls of several generations end in any order.        *)
ClosesOnlyRecovered ==
  [][state # "closed" /\ state' = "closed" => wins' = 2]_breakerVars

(* An open breaker does not stay open: only finitely many calls are still  *)
(* under way to fail, and then the timeout passes.                         *)
OpenIsLeft == state = "open" ~> state = "half_open"

(* circuit_breaker.py, lines 3-4: "Prevents cascading failures by opening  *)
(* the circuit after consecutive LLM call failures".                       *)
OpensInOutage == outage >= FAILURE_THRESHOLD => state # "closed"
=============================================================================
