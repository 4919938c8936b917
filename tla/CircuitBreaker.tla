---------------------------- MODULE CircuitBreaker ----------------------------
(***************************************************************************)
(* The circuit breaker (src/internal/processor/breaker.go). Each method is   *)
(* one step: the mutex is held for the whole of it. Time is counted in ticks *)
(* since openedAt, up to OpenFor, which is all Allow compares.              *)
(***************************************************************************)
EXTENDS Integers

CONSTANTS
  Threshold,  \* failureThreshold
  OpenFor     \* openFor, in ticks

ASSUME ThresholdAssumption == Threshold \in Nat \ {0}
ASSUME OpenForAssumption == OpenFor \in Nat \ {0}

VARIABLES
  state,          \* "closed", "half-open" or "open"
  failures,       \* failures since the last success, counted up to Threshold
  age,            \* ticks since openedAt
  probeInFlight

breaker == <<state, failures, age, probeInFlight>>

BreakerTypeOK ==
  /\ state \in {"closed", "half-open", "open"}
  /\ failures \in 0..Threshold
  /\ age \in 0..OpenFor
  /\ probeInFlight \in BOOLEAN

BreakerInit ==
  /\ state = "closed" /\ failures = 0 /\ age = 0 /\ probeInFlight = FALSE

\* Variant: an open breaker does not wait for openFor.
CooledDownAtOnce == state = "open"

CooledDown == state = "open" /\ age >= OpenFor

\* Variants of Allow: blind to the open state, to the clock, to the probe.
RefusesSecondProbe == state = "half-open" /\ probeInFlight
RefusesForGood == state = "open" \/ (state = "half-open" /\ probeInFlight)
RefusesOpen == state = "open" /\ ~CooledDown

\* Allow answers ErrCircuitOpen.
Refuses ==
  \/ state = "open" /\ ~CooledDown
  \/ state = "half-open" /\ probeInFlight

\* Allow returns nil: the caller is admitted, as the probe if half-open.
Admit ==
  /\ ~Refuses
  /\ state' = IF CooledDown THEN "half-open" ELSE state
  /\ probeInFlight' = (probeInFlight \/ state' = "half-open")
  /\ UNCHANGED <<failures, age>>

Success ==
  /\ state' = "closed"
  /\ failures' = 0
  /\ probeInFlight' = FALSE
  /\ UNCHANGED age

\* Variant: reopening keeps the old openedAt.
FailureKeepsOpenedAt ==
  /\ probeInFlight' = FALSE
  /\ failures' = IF failures < Threshold THEN failures + 1 ELSE failures
  /\ state' = IF state = "half-open" \/ failures' >= Threshold THEN "open" ELSE state
  /\ UNCHANGED age

Failure ==
  /\ probeInFlight' = FALSE
  /\ failures' = IF failures < Threshold THEN failures + 1 ELSE failures
  /\ IF state = "half-open" \/ failures' >= Threshold
     THEN state' = "open" /\ age' = 0
     ELSE UNCHANGED <<state, age>>

\* The clock moves on by one tick.
Elapse ==
  /\ age' = IF age < OpenFor THEN age + 1 ELSE age
  /\ UNCHANGED <<state, failures, probeInFlight>>
==============================================================================
