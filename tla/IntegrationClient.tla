-------------------------- MODULE IntegrationClient --------------------------
(***************************************************************************)
(* IntegrationClient.Process (src/internal/processor/integration.go): up to  *)
(* MaxAttempts calls with a pause between them, behind one circuit breaker   *)
(* that all callers of the process share. The worker has one caller; the     *)
(* breaker is written for several, so several are checked too. A call may    *)
(* come out either way: module Simulator says how it does.                   *)
(***************************************************************************)
EXTENDS CircuitBreaker, FiniteSets

CONSTANTS
  Callers,
  MaxAttempts,    \* calls of one Process (3 in the code)
  MaxTicks        \* the longest a Process can take: MaxAttempts timeouts and pauses

ASSUME CallersAssumption == MaxAttempts \in Nat \ {0}

\* With PROCESSING_TIMEOUT at 3s a Process takes at most 9.6s, and the breaker
\* stays open for 15s.
ASSUME TimingAssumption == MaxTicks \in Nat \ {0} /\ MaxTicks < OpenFor

VARIABLES
  stopping,  \* the context of the process was cancelled (SIGTERM)
  pc,        \* "idle", "call" or "backoff"
  attempt,   \* the attempt each caller is at
  spent,     \* ticks since it was admitted
  probing    \* history: it was admitted as the probe

callers == <<pc, attempt, spent, probing>>
vars == <<state, failures, age, probeInFlight,
          stopping, pc, attempt, spent, probing>>

TypeOK ==
  /\ BreakerTypeOK
  /\ stopping \in BOOLEAN
  /\ pc \in [Callers -> {"idle", "call", "backoff"}]
  /\ attempt \in [Callers -> 1..MaxAttempts]
  /\ spent \in [Callers -> 0..MaxTicks]
  /\ probing \in [Callers -> BOOLEAN]

Init ==
  /\ BreakerInit
  /\ stopping = FALSE
  /\ pc = [c \in Callers |-> "idle"]
  /\ attempt = [c \in Callers |-> 1]
  /\ spent = [c \in Callers |-> 0]
  /\ probing = [c \in Callers |-> FALSE]

Running(c) == pc[c] # "idle"

\* Process returns.
Return(c) ==
  /\ pc' = [pc EXCEPT ![c] = "idle"]
  /\ attempt' = [attempt EXCEPT ![c] = 1]
  /\ spent' = [spent EXCEPT ![c] = 0]
  /\ probing' = [probing EXCEPT ![c] = FALSE]

------------------------------------------------------------------------------
\* Process calls Allow and is admitted.
Enter(c) ==
  /\ ~Running(c) /\ ~stopping
  /\ Admit
  /\ pc' = [pc EXCEPT ![c] = "call"]
  /\ probing' = [probing EXCEPT ![c] = (state' = "half-open")]
  /\ UNCHANGED <<stopping, attempt, spent>>

\* Process calls Allow and returns ErrCircuitOpen: no call is made.
Refused(c) ==
  /\ ~Running(c) /\ ~stopping
  /\ Refuses
  /\ Return(c)
  /\ UNCHANGED <<breaker, stopping>>

\* Process returns nil.
CallSucceeds(c) ==
  /\ pc[c] = "call"
  /\ Success
  /\ Return(c)
  /\ UNCHANGED stopping

\* Variant: one attempt too many.
CallFailsOneMore(c) ==
  /\ pc[c] = "call"
  /\ attempt[c] <= MaxAttempts
  /\ pc' = [pc EXCEPT ![c] = "backoff"]
  /\ attempt' = [attempt EXCEPT ![c] = @ + 1]
  /\ UNCHANGED <<breaker, stopping, spent, probing>>

\* The call fails, times out, or is cut short by the cancelled context.
CallFails(c) ==
  /\ pc[c] = "call"
  /\ attempt[c] < MaxAttempts
  /\ pc' = [pc EXCEPT ![c] = "backoff"]
  /\ attempt' = [attempt EXCEPT ![c] = @ + 1]
  /\ UNCHANGED <<breaker, stopping, spent, probing>>

\* Process returns the last error.
LastCallFails(c) ==
  /\ pc[c] = "call"
  /\ attempt[c] = MaxAttempts
  /\ Failure
  /\ Return(c)
  /\ UNCHANGED stopping

\* The pause ends with the timer, or with ctx.Done.
Retry(c) ==
  /\ pc[c] = "backoff"
  /\ pc' = [pc EXCEPT ![c] = "call"]
  /\ UNCHANGED <<breaker, stopping, attempt, spent, probing>>

\* Variant: a cancelled Process does not report to the breaker.
CancelUnreported(c) ==
  /\ pc[c] = "backoff" /\ stopping
  /\ Return(c)
  /\ UNCHANGED <<breaker, stopping>>

\* Process returns ctx.Err() from the pause.
Cancel(c) ==
  /\ pc[c] = "backoff" /\ stopping
  /\ Failure
  /\ Return(c)
  /\ UNCHANGED stopping

------------------------------------------------------------------------------
\* SIGTERM cancels the context every call runs under.
Terminate == ~stopping /\ stopping' = TRUE /\ UNCHANGED <<breaker, callers>>

\* A tick passes; the timeouts keep every Process within MaxTicks.
Tick ==
  /\ \A c \in Callers: Running(c) => spent[c] < MaxTicks
  /\ Elapse
  /\ spent' = [c \in Callers |-> IF Running(c) THEN spent[c] + 1 ELSE spent[c]]
  /\ UNCHANGED <<stopping, pc, attempt, probing>>

CallerStep(c) ==
  \/ Enter(c) \/ Refused(c) \/ CallSucceeds(c) \/ CallFails(c) \/ LastCallFails(c)
  \/ Retry(c) \/ Cancel(c)

Next == Terminate \/ Tick \/ \E c \in Callers: CallerStep(c)

Spec == Init /\ [][Next]_vars

------------------------------------------------------------------------------
\* Properties

\* The breaker is never stuck half-open: the caller that has to report on the
\* probe is still running.
ProbeIsRunning ==
  state = "half-open" => probeInFlight /\ \E c \in Callers: Running(c) /\ probing[c]

\* A recovering integration sees one probe at a time, even when late reports of
\* callers admitted earlier reopen or close the breaker meanwhile.
OneProbe == Cardinality({c \in Callers: Running(c) /\ probing[c]}) <= 1

\* While the probe is out, nobody else is let through to the integration.
NobodyPassesTheProbe ==
  [][state = "half-open" => \A c \in Callers: Running(c)' => Running(c)]_vars

\* With the worker's single caller, the integration is not called while the
\* breaker is open.
OpenMeansQuiet == state = "open" => \A c \in Callers: ~Running(c)

\* With a single caller, an open breaker stays open until it has cooled down.
CooldownIsServed == [][state = "open" /\ age < OpenFor => state' = "open"]_vars
==============================================================================
