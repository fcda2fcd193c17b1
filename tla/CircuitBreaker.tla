--------------------------- MODULE CircuitBreaker ---------------------------
(***************************************************************************)
(* The circuit breaker of one agent or language model provider of Meridian *)
(* (ai/meridian/resilience/circuit_breaker.py, health.py), with the        *)
(* callers that ask it and report to it. Several of them may have passed   *)
(* it before the first one reports, so an answer can come when the breaker *)
(* has long changed its state. Every call that is let through is reported; *)
(* the program has no callers yet that could do otherwise. Of times only   *)
(* the age is kept, up to the recovery timeout.                            *)
(***************************************************************************)
EXTENDS Naturals

CONSTANTS
    Callers,
    FailureThreshold,
    RecoveryTimeout

ASSUME BreakerAssumption ==
    /\ FailureThreshold \in Nat \ {0}
    /\ RecoveryTimeout \in Nat \ {0}

VARIABLES
    breaker,     \* "closed", "open" or "half_open"
    failures,    \* counted up to FailureThreshold
    failureAge,  \* the time since the last failure
    halfOpen,    \* calls let through since the breaker is half open
    calls,       \* the call each caller has out: "none", "sound" if what it
                 \* calls worked when the call was made, else "doubtful"
    works,       \* whether what is called works
    probeAge     \* the time since a call was let through to test the recovery,
                 \* in the trouble that lasts since the breaker was last closed

breakerVars == <<breaker, failures, failureAge, halfOpen, calls, works, probeAge>>

BreakerInit ==
    /\ breaker = "closed" /\ failures = 0 /\ failureAge = RecoveryTimeout
    /\ halfOpen = 0
    /\ calls = [c \in Callers |-> "none"]
    /\ works = TRUE
    /\ probeAge = RecoveryTimeout

HalfOpenMax == 1

\* To read the property "state" moves an open breaker on.
Recovering == breaker = "open" /\ failureAge >= RecoveryTimeout
State      == IF Recovering THEN "half_open" ELSE breaker
\* Mutant: the count of an earlier recovery is kept.
TestedBefore == halfOpen

Tested     == IF Recovering THEN 0 ELSE halfOpen

Testing == State = "half_open" /\ Tested < HalfOpenMax

\* Read by get_agent_health, get_stats and a request that is rejected.
ReadState ==
    /\ breaker' = State
    /\ halfOpen' = Tested
    /\ UNCHANGED <<failures, failureAge, calls, works, probeAge>>

AllowRequest(c) ==
    /\ calls[c] = "none"
    /\ State = "closed" \/ Testing
    /\ breaker' = State
    /\ halfOpen' = IF Testing THEN Tested + 1 ELSE Tested
    /\ calls' = [calls EXCEPT ![c] = IF works THEN "sound" ELSE "doubtful"]
    /\ probeAge' = IF Testing THEN 0 ELSE probeAge
    /\ UNCHANGED <<failures, failureAge, works>>

RecordSuccess(c) ==
    /\ calls[c] # "none"
    /\ IF breaker = "open"
       THEN UNCHANGED <<breaker, failures, probeAge>>
       ELSE breaker' = "closed" /\ failures' = 0 /\ probeAge' = RecoveryTimeout
    /\ calls' = [calls EXCEPT ![c] = "none"]
    /\ UNCHANGED <<failureAge, halfOpen, works>>

Counted == IF failures < FailureThreshold THEN failures + 1 ELSE failures

\* Mutant: only failures of a closed breaker are timed.
RecordFailureUntimed(c) ==
    /\ calls[c] = "doubtful"
    /\ failures' = Counted
    /\ failureAge' = IF breaker = "closed" THEN 0 ELSE failureAge
    /\ breaker' = IF breaker = "half_open" \/ Counted >= FailureThreshold
                  THEN "open" ELSE breaker
    /\ calls' = [calls EXCEPT ![c] = "none"]
    /\ UNCHANGED <<halfOpen, works, probeAge>>

RecordFailure(c) ==
    /\ calls[c] = "doubtful"
    /\ failures' = Counted
    /\ failureAge' = 0
    /\ breaker' = IF breaker = "half_open" \/ Counted >= FailureThreshold
                  THEN "open" ELSE breaker
    /\ calls' = [calls EXCEPT ![c] = "none"]
    /\ UNCHANGED <<halfOpen, works, probeAge>>

\* reset, by hand
Reset ==
    /\ breaker' = "closed" /\ failures' = 0 /\ halfOpen' = 0
    /\ probeAge' = RecoveryTimeout
    /\ UNCHANGED <<failureAge, calls, works>>

\* What is called fails, or works again.
Turn == works' = ~works
        /\ UNCHANGED <<breaker, failures, failureAge, halfOpen, calls, probeAge>>

Older(a) == IF a < RecoveryTimeout THEN a + 1 ELSE a

BreakerTick ==
    /\ failureAge' = Older(failureAge)
    /\ probeAge' = Older(probeAge)
    /\ UNCHANGED <<breaker, failures, halfOpen, calls, works>>

Report(c) == RecordSuccess(c) \/ RecordFailure(c)

BreakerNext ==
    \/ ReadState
    \/ \E c \in Callers : AllowRequest(c) \/ Report(c)
    \/ Reset
    \/ Turn
    \/ BreakerTick

BreakerSpec == BreakerInit /\ [][BreakerNext]_breakerVars

-----------------------------------------------------------------------------
\* What is in trouble is left alone: whatever late answers arrive, the breaker
\* lets through one test call, and the next one no earlier than a recovery
\* timeout after it, unless it was closed in between.
ProbesSpaced == Testing => probeAge = RecoveryTimeout

\* Once what is called works for good, the breaker is closed for good: no order
\* of late failures and test calls leaves it open or half open for ever.
Recovers == <>[]works => <>[](breaker = "closed")
=============================================================================
