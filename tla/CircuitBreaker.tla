---------------------------- MODULE CircuitBreaker ----------------------------
(***************************************************************************)
(* The persisted circuit breaker of the AI provider: the single row of     *)
(* crypto_ai_circuit_breaker and the three transactions of                 *)
(* aiResearchQueueStore.ts that read and write it.  Time is abstracted:    *)
(* open_until is only ever compared with the clock, so the row carries     *)
(* whether it has elapsed.  consecutive_failures is only compared with the *)
(* threshold and is reset to 0, so it is kept saturated at FailureThreshold.*)
(***************************************************************************)
EXTENDS Naturals

CONSTANT FailureThreshold   \* circuitFailureThreshold of the worker limits

ASSUME FailureThresholdAssumption == FailureThreshold \in Nat \ {0}

VARIABLE breaker

BreakerStates == {"CLOSED", "OPEN", "HALF_OPEN"}

Breaker == [state: BreakerStates,
            failures: 0..FailureThreshold,      \* consecutive_failures
            elapsed: BOOLEAN,                   \* open_until <= now
            half_open_in_flight: BOOLEAN]

BreakerTypeOK == breaker \in Breaker

BreakerInit == breaker = [state |-> "CLOSED", failures |-> 0,
                          elapsed |-> FALSE, half_open_in_flight |-> FALSE]

-----------------------------------------------------------------------------
(* acquireCircuitPermit: a closed breaker lets every call through ...      *)
NormalPermit ==
    /\ breaker.state = "CLOSED"
    /\ UNCHANGED breaker

(* Mutant of MayProbe: the probe in flight is not looked at.               *)
MayProbeAgain == (breaker.state = "OPEN" /\ breaker.elapsed) \/ breaker.state = "HALF_OPEN"

(* ... an open one whose period is over, or a half-open one with no probe  *)
(* in flight, lets one probe through ...                                   *)
MayProbe == \/ breaker.state = "OPEN" /\ breaker.elapsed
            \/ breaker.state = "HALF_OPEN" /\ ~breaker.half_open_in_flight

ProbePermit ==
    /\ MayProbe
    /\ breaker' = [breaker EXCEPT !.state = "HALF_OPEN",
                                  !.half_open_in_flight = TRUE]

(* ... and otherwise the permit is refused.                                *)
PermitRefused ==
    /\ breaker.state # "CLOSED"
    /\ ~MayProbe
    /\ UNCHANGED breaker

(* recordCircuitSuccess: whatever the state was, it becomes closed.        *)
CircuitSuccess ==
    breaker' = [state |-> "CLOSED", failures |-> 0,
                elapsed |-> FALSE, half_open_in_flight |-> FALSE]

(* Mutant of CircuitFailure: half_open_in_flight is not reset.             *)
CircuitFailureInFlight ==
    breaker' = [breaker EXCEPT !.state = "OPEN", !.elapsed = FALSE]

(* recordCircuitFailure: opens at the threshold and from half-open.        *)
CircuitFailure ==
    LET failures == IF breaker.failures < FailureThreshold
                    THEN breaker.failures + 1 ELSE FailureThreshold
        shouldOpen == breaker.state = "HALF_OPEN" \/ failures >= FailureThreshold
    IN  breaker' = [state |-> IF shouldOpen THEN "OPEN" ELSE "CLOSED",
                    failures |-> failures,
                    elapsed |-> FALSE,
                    half_open_in_flight |-> FALSE]

(* The clock passes open_until.                                            *)
OpenPeriodElapses ==
    /\ breaker.state = "OPEN"
    /\ ~breaker.elapsed
    /\ breaker' = [breaker EXCEPT !.elapsed = TRUE]

BreakerNext == \/ NormalPermit \/ ProbePermit \/ PermitRefused
               \/ CircuitSuccess \/ CircuitFailure \/ OpenPeriodElapses

(* readCircuitBreaker, as the service sees it: open and still in the period.*)
ReadsOpen == breaker.state = "OPEN" /\ ~breaker.elapsed
=============================================================================
