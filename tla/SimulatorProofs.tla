--------------------------- MODULE SimulatorProofs ---------------------------
(***************************************************************************)
(* Proofs about the client of the integration, in two parts. The first is    *)
(* about IntegrationClient, whose calls may come out either way: the         *)
(* circuit breaker under any number of concurrent callers, then with the     *)
(* single caller of the worker. The second puts the simulator at the other   *)
(* end: that is one way in which the client may run, so what the first part  *)
(* proves carries over; then what the shared counter and lost answers do.    *)
(***************************************************************************)
EXTENDS Simulator, FiniteSetTheorems, TLAPS

------------------------------------------------------------------------------
\* The inductive invariant

\* Only a caller that runs is a probe, or has spent time.
IdleIsClean == \A c \in Callers: ~Running(c) => ~probing[c] /\ spent[c] = 0

\* A second probe needs an open breaker that has cooled down. Whoever reopens
\* the breaker while a probe is out restarts the cooldown, which takes longer
\* than the probe has left: nobody else becomes a probe before it reports.
CooldownOutlastsProbe ==
  \A c \in Callers: probing[c] /\ state = "open" => age <= spent[c]

ProbesAreOne == \A c, d \in Callers: probing[c] /\ probing[d] => c = d

IInv ==
  /\ TypeOK
  /\ IdleIsClean
  /\ CooldownOutlastsProbe
  /\ ProbesAreOne
  /\ ProbeIsRunning

------------------------------------------------------------------------------
\* What the methods of the breaker do to its fields.
LEMMA AdmitEffect ==
  ASSUME BreakerTypeOK, Admit
  PROVE  /\ BreakerTypeOK'
         /\ state' \in {"half-open", "closed"}
         /\ state' = "half-open" => /\ probeInFlight'
                                  /\ \/ state = "open" /\ age >= OpenFor
                                     \/ state = "half-open" /\ ~probeInFlight
<1>1. /\ state' \in {"half-open", "closed"}
      /\ state' = "half-open" => \/ state = "open" /\ age >= OpenFor
                                 \/ state = "half-open" /\ ~probeInFlight
  BY DEF BreakerTypeOK, Admit, Refuses, CooledDown
<1>2. probeInFlight' \in BOOLEAN /\ (state' = "half-open" => probeInFlight')
  BY Zenon DEF BreakerTypeOK, Admit
<1>3. failures' = failures /\ age' = age
  BY DEF Admit
<1>. QED BY <1>1, <1>2, <1>3 DEF BreakerTypeOK

LEMMA SuccessEffect ==
  ASSUME BreakerTypeOK, Success PROVE BreakerTypeOK' /\ state' = "closed"
<1>1. probeInFlight' \in BOOLEAN
  BY Zenon DEF Success
<1>2. state' = "closed" /\ failures' = 0 /\ age' = age
  BY DEF Success
<1>. QED BY <1>1, <1>2, ThresholdAssumption DEF BreakerTypeOK

LEMMA FailureEffect ==
  ASSUME BreakerTypeOK, Failure
  PROVE  /\ BreakerTypeOK'
         /\ \/ state' = "open" /\ age' = 0
            \/ state = state' /\ state # "half-open" /\ age' = age
<1>1. probeInFlight' \in BOOLEAN
  BY Zenon DEF Failure
<1>2. failures' \in 0..Threshold
  BY ThresholdAssumption DEF BreakerTypeOK, Failure
<1>3. \/ state' = "open" /\ age' = 0
      \/ state' = state /\ state # "half-open" /\ age' = age
  BY DEF Failure
<1>. QED BY <1>1, <1>2, <1>3, OpenForAssumption DEF BreakerTypeOK

LEMMA ElapseEffect ==
  ASSUME BreakerTypeOK, Elapse
  PROVE  /\ BreakerTypeOK'
         /\ state' = state /\ probeInFlight' = probeInFlight
         /\ age' <= age + 1
BY OpenForAssumption DEF BreakerTypeOK, Elapse

\* Every step keeps the invariant.
LEMMA InvariantStep == IInv /\ [Next]_vars => IInv'
<1>. SUFFICES ASSUME IInv, [Next]_vars PROVE IInv'
  OBVIOUS
<1>. USE CallersAssumption, TimingAssumption, OpenForAssumption
     DEF IInv, TypeOK, Running, IdleIsClean, CooldownOutlastsProbe,
     ProbesAreOne, ProbeIsRunning, callers
<1>1. ASSUME NEW c \in Callers, Enter(c) PROVE IInv'
  <2>1. ASSUME state' = "half-open", NEW d \in Callers PROVE ~probing[d]
    <3>1. \/ state = "open" /\ age >= OpenFor
          \/ state = "half-open" /\ ~probeInFlight
      BY <1>1, <2>1, AdmitEffect DEF Enter
    <3>2. age \in Int /\ spent[d] \in Int /\ spent[d] < OpenFor
      BY DEF BreakerTypeOK
    <3>3. probing[d] /\ state = "open" => age <= spent[d]
      BY Zenon
    <3>4. state = "half-open" => probeInFlight
      BY Zenon
    <3>. QED BY <3>1, <3>2, <3>3, <3>4
  <2>2. /\ BreakerTypeOK' /\ state' \in {"half-open", "closed"}
        /\ state' = "half-open" => probeInFlight'
    BY <1>1, AdmitEffect DEF Enter
  <2>3. /\ pc' = [pc EXCEPT ![c] = "call"]
        /\ probing' = [probing EXCEPT ![c] = (state' = "half-open")]
        /\ UNCHANGED <<stopping, attempt, spent>>
    BY <1>1 DEF Enter
  <2>. QED BY <2>1, <2>2, <2>3
<1>2. ASSUME NEW c \in Callers, Refused(c) PROVE IInv'
  BY <1>2 DEF Refused, Return, breaker, BreakerTypeOK
<1>3. ASSUME NEW c \in Callers, CallSucceeds(c) PROVE IInv'
  BY <1>3, SuccessEffect DEF CallSucceeds, Return
<1>4. ASSUME NEW c \in Callers, CallFails(c) PROVE IInv'
  BY <1>4 DEF CallFails, breaker, BreakerTypeOK
<1>5. ASSUME NEW c \in Callers, LastCallFails(c) PROVE IInv'
  BY <1>5, FailureEffect DEF LastCallFails, Return
<1>6. ASSUME NEW c \in Callers, Retry(c) PROVE IInv'
  BY <1>6 DEF Retry, breaker, BreakerTypeOK
<1>7. ASSUME NEW c \in Callers, Cancel(c) PROVE IInv'
  BY <1>7, FailureEffect DEF Cancel, Return
<1>8. CASE Terminate
  BY <1>8 DEF Terminate, breaker, BreakerTypeOK
<1>9. CASE Tick
  BY <1>9, ElapseEffect DEF Tick, BreakerTypeOK
<1>10. CASE UNCHANGED vars
  BY <1>10 DEF vars, BreakerTypeOK
<1>. QED
  BY <1>1, <1>2, <1>3, <1>4, <1>5, <1>6, <1>7, <1>8, <1>9, <1>10
     DEF Next, CallerStep

LEMMA InitIsTyped == Init => TypeOK
<1>. SUFFICES ASSUME Init PROVE TypeOK
  OBVIOUS
<1>1. probeInFlight \in BOOLEAN /\ stopping \in BOOLEAN
  BY Zenon DEF Init, BreakerInit
<1>2. BreakerTypeOK
  BY <1>1, OpenForAssumption, ThresholdAssumption DEF Init, BreakerInit, BreakerTypeOK
<1>. QED
  BY <1>1, <1>2, CallersAssumption, TimingAssumption DEF Init, TypeOK

LEMMA InvariantHolds == Spec => []IInv
<1>1. Init => IInv
  BY InitIsTyped DEF Init, BreakerInit, IInv, Running, IdleIsClean, CooldownOutlastsProbe,
     ProbesAreOne, ProbeIsRunning
<1>. QED BY <1>1, InvariantStep, PTL DEF Spec

\* The breaker and its callers keep their types.
THEOREM TypeCorrect == Spec => []TypeOK
<1>1. IInv => TypeOK
  BY DEF IInv
<1>. QED BY <1>1, InvariantHolds, PTL

\* A half-open breaker has a running caller that owes it a report.
THEOREM ProbeIsNeverOrphaned == Spec => []ProbeIsRunning
<1>1. IInv => ProbeIsRunning
  BY DEF IInv
<1>. QED BY <1>1, InvariantHolds, PTL

\* Any number of callers and late reports leave at most one probe at a time.
THEOREM OnlyOneProbe == Spec => []OneProbe
<1>1. ASSUME IInv PROVE OneProbe
  <2>. DEFINE Probes == {c \in Callers: Running(c) /\ probing[c]}
  <2>1. CASE Probes = {}
    BY <2>1, FS_EmptySet DEF OneProbe
  <2>2. CASE Probes # {}
    <3>1. PICK c \in Probes: TRUE
      BY <2>2
    <3>2. Probes = {c}
      BY <1>1, <3>1 DEF IInv, ProbesAreOne
    <3>3. Cardinality(Probes) = 1
      BY <3>2, FS_Singleton
    <3>. QED BY <3>3 DEF OneProbe
  <2>. QED BY <2>1, <2>2
<1>. QED BY <1>1, InvariantHolds, PTL

\* Allow lets nobody through while the probe is out.
THEOREM ProbeIsAlone == Spec => NobodyPassesTheProbe
<1>. DEFINE Alone == state = "half-open" => \A c \in Callers: Running(c)' => Running(c)
<1>1. ASSUME IInv, [Next]_vars PROVE [Alone]_vars
  <2>. USE <1>1 DEF IInv, TypeOK, Running
  <2>1. ASSUME NEW c \in Callers, Enter(c) PROVE Alone
    BY <2>1 DEF Enter, Admit, Refuses, ProbeIsRunning
  <2>2. ASSUME NEW c \in Callers, CallerStep(c), ~Enter(c) PROVE Alone
    BY <2>2 DEF CallerStep, Refused, CallSucceeds, CallFails, LastCallFails, Retry,
       Cancel, Return
  <2>3. CASE Terminate \/ Tick
    BY <2>3 DEF Terminate, Tick, callers
  <2>. QED BY <2>1, <2>2, <2>3 DEF Next
<1>. QED BY <1>1, InvariantHolds, PTL DEF Spec, NobodyPassesTheProbe

------------------------------------------------------------------------------
\* With one caller

\* The worker's only caller never calls through an open breaker.
THEOREM SingleCallerIsQuiet ==
  ASSUME \A c, d \in Callers: c = d PROVE Spec => []OpenMeansQuiet
<1>. DEFINE Quiet == TypeOK /\ OpenMeansQuiet
<1>1. Init => OpenMeansQuiet
  BY DEF Init, BreakerInit, OpenMeansQuiet
<1>2. TypeOK /\ OpenMeansQuiet /\ [Next]_vars => OpenMeansQuiet'
  <2>. SUFFICES ASSUME TypeOK, OpenMeansQuiet, [Next]_vars PROVE OpenMeansQuiet'
    OBVIOUS
  <2>. USE DEF TypeOK, Running, OpenMeansQuiet, callers, breaker
  <2>1. ASSUME NEW c \in Callers, CallerStep(c) PROVE OpenMeansQuiet'
    BY <2>1, AdmitEffect DEF CallerStep, Enter, Refused, CallSucceeds, Success, CallFails,
       LastCallFails, Retry, Cancel, Return
  <2>2. CASE Terminate \/ Tick
    BY <2>2 DEF Terminate, Tick, Elapse
  <2>3. CASE UNCHANGED vars
    BY <2>3 DEF vars
  <2>. QED BY <2>1, <2>2, <2>3 DEF Next
<1>. QED BY <1>1, <1>2, TypeCorrect, PTL DEF Spec

\* With the worker's only caller, nothing closes or probes the breaker before
\* openFor has passed.
THEOREM SingleCallerWaits ==
  ASSUME \A c, d \in Callers: c = d PROVE Spec => CooldownIsServed
<1>. DEFINE Served == state = "open" /\ age < OpenFor => state' = "open"
<1>1. ASSUME TypeOK, OpenMeansQuiet, [Next]_vars PROVE [Served]_vars
  <2>. USE <1>1 DEF TypeOK, Running, OpenMeansQuiet, callers, breaker
  <2>1. ASSUME NEW c \in Callers, CallerStep(c) PROVE Served
    <3>1. CASE Enter(c)
      <4>. SUFFICES ASSUME state = "open", age < OpenFor PROVE FALSE
        OBVIOUS
      <4>1. ~(age >= OpenFor)
        BY OpenForAssumption DEF BreakerTypeOK
      <4>. QED BY <3>1, <4>1 DEF Enter, Admit, Refuses, CooledDown
    <3>2. CASE Refused(c)
      BY <3>2 DEF Refused
    <3>3. CASE ~Enter(c) /\ ~Refused(c)
      BY <2>1, <3>3 DEF CallerStep, CallSucceeds, CallFails, LastCallFails, Retry, Cancel
    <3>. QED BY <3>1, <3>2, <3>3
  <2>2. CASE Terminate \/ Tick
    BY <2>2 DEF Terminate, Tick, Elapse
  <2>. QED BY <2>1, <2>2 DEF Next
<1>. QED BY <1>1, TypeCorrect, SingleCallerIsQuiet, PTL DEF Spec, CooldownIsServed

------------------------------------------------------------------------------
\* The client with the simulator at the other end

\* What the client does with the simulator at the other end is a behaviour of
\* the client with an integration that may answer anything.
THEOREM SimulatorImplementsClient == SimSpec => Spec
<1>1. SimInit => Init
  BY DEF SimInit
<1>2. [SimNext]_simVars => [Next]_vars
  <2>. SUFFICES ASSUME [SimNext]_simVars PROVE [Next]_vars
    OBVIOUS
  <2>1. CASE (Terminate \/ Tick) /\ UNCHANGED simulator
    BY <2>1 DEF Next
  <2>2. ASSUME NEW c \in Callers, CallerNext(c) PROVE Next
    BY <2>2 DEF CallerNext, Start, GetAnswer, GetError, GiveUpCall, Continue, Next, CallerStep
  <2>3. ASSUME NEW c \in Callers, HandlerNext(c) PROVE UNCHANGED vars
    BY <2>3 DEF HandlerNext, Handle, SlowEnds, AnswerWith
  <2>4. CASE HandleLate \/ CutOrMend \/ Die \/ Reboot
    BY <2>4 DEF HandleLate, CutOrMend, Die, Reboot
  <2>5. CASE UNCHANGED simVars
    BY <2>5 DEF simVars
  <2>. QED BY <2>1, <2>2, <2>3, <2>4, <2>5 DEF SimNext
<1>. QED BY <1>1, <1>2, PTL DEF SimSpec, Spec

\* Against the simulator, a half-open breaker has a running caller that owes it
\* a report.
THEOREM SimProbeIsNeverOrphaned == SimSpec => []ProbeIsRunning
BY SimulatorImplementsClient, ProbeIsNeverOrphaned, PTL

\* Against the simulator, at most one probe is out.
THEOREM SimOnlyOneProbe == SimSpec => []OneProbe
BY SimulatorImplementsClient, OnlyOneProbe, PTL

\* Against the simulator, Allow lets nobody through while the probe is out.
THEOREM SimProbeIsAlone == SimSpec => NobodyPassesTheProbe
BY SimulatorImplementsClient, ProbeIsAlone, PTL

------------------------------------------------------------------------------
\* The inductive invariant of the histories

\* Between two calls, or before the handler answered, every effect of this
\* Process is one of its lost answers.
EffectsAreLostOrHeld ==
  \A c \in Callers: processed[c] = lost[c] + (IF reply[c] = "ok" THEN 1 ELSE 0)

\* Histories are those of the Process that runs; at each attempt it has lost or
\* been refused an answer for every attempt before.
HistoriesAreCurrent ==
  \A c \in Callers:
    /\ pc[c] # "call" => reply[c] = "none"
    /\ ~Running(c) => /\ attempt[c] = 1 /\ lost[c] = 0
                      /\ rejected[c] = 0 /\ foreign[c] = 0
    /\ lost[c] <= attempt[c] - 1
    /\ rejected[c] <= attempt[c] - 1 + (IF reply[c] = "error" THEN 1 ELSE 0)
    /\ reply[c] = "waiting" => source[c] = "slow"
    /\ source[c] # "flaky" => rejected[c] = 0

\* An undisturbed flaky Process has been rejected at an odd count each time, and
\* the requests of others are what brought the counter back: after its k-th
\* rejection the counter is odd unless an odd number of others came since.
RejectionsAlternate ==
  \A c \in Callers:
    source[c] = "flaky" /\ ~shaken[c] /\ rejected[c] > 0 =>
      \/ rejected[c] <= foreign[c]
      \/ rejected[c] = foreign[c] + 1 /\ (odd \/ reply[c] = "ok")

SimIInv ==
  /\ SimTypeOK
  /\ EffectsAreLostOrHeld
  /\ HistoriesAreCurrent
  /\ RejectionsAlternate

\* Every step keeps it. The client's own type invariant is known to hold.
LEMMA SimInvariantStep ==
  ASSUME TypeOK, TypeOK', SimIInv, [SimNext]_simVars
  PROVE  SimIInv'
<1>. USE CallersAssumption DEF Running
<1>0. /\ pc \in [Callers -> {"idle", "call", "backoff"}]
      /\ attempt \in [Callers -> 1..MaxAttempts]
      /\ attempt' \in [Callers -> 1..MaxAttempts]
  BY DEF TypeOK
<1>. USE <1>0
<1>1. CASE (Terminate \/ Tick) /\ UNCHANGED simulator
  <2>. USE <1>1 DEF Terminate, Tick, callers, simulator, histories
  <2>1. SimTypeOK'
    BY DEF SimIInv, SimTypeOK, Sources, Replies, MaxForeign, HistoriesAreCurrent
  <2>2. EffectsAreLostOrHeld'
    BY DEF SimIInv, SimTypeOK, EffectsAreLostOrHeld, HistoriesAreCurrent
  <2>3. HistoriesAreCurrent'
    BY DEF SimIInv, SimTypeOK, HistoriesAreCurrent
  <2>4. RejectionsAlternate'
    BY DEF SimIInv, SimTypeOK, RejectionsAlternate, EffectsAreLostOrHeld, HistoriesAreCurrent
  <2>. QED BY <2>1, <2>2, <2>3, <2>4 DEF SimIInv
<1>2. ASSUME NEW c \in Callers, Start(c) PROVE SimIInv'
  <2>. USE <1>2 DEF Start, Enter, histories
  <2>1. SimTypeOK'
    BY DEF SimIInv, SimTypeOK, Sources, Replies, MaxForeign, HistoriesAreCurrent
  <2>2. EffectsAreLostOrHeld'
    BY DEF SimIInv, SimTypeOK, EffectsAreLostOrHeld, HistoriesAreCurrent
  <2>3. HistoriesAreCurrent'
    BY DEF SimIInv, SimTypeOK, HistoriesAreCurrent
  <2>4. RejectionsAlternate'
    BY DEF SimIInv, SimTypeOK, RejectionsAlternate, EffectsAreLostOrHeld, HistoriesAreCurrent
  <2>. QED BY <2>1, <2>2, <2>3, <2>4 DEF SimIInv
<1>3. ASSUME NEW c \in Callers, GetAnswer(c) PROVE SimIInv'
  <2>. USE <1>3 DEF GetAnswer, CallSucceeds, Return, Forget, histories
  <2>1. SimTypeOK'
    <3>1. shaken' \in [Callers -> BOOLEAN] /\ odd' \in BOOLEAN /\ late' \in BOOLEAN
      BY Zenon DEF SimIInv, SimTypeOK
    <3>2. /\ link' \in {"up", "cut", "down"}
          /\ source' \in [Callers -> Sources] /\ reply' \in [Callers -> Replies]
      BY DEF SimIInv, SimTypeOK, Sources, Replies
    <3>3. /\ processed' \in [Callers -> 0..MaxAttempts]
          /\ lost' \in [Callers -> 0..MaxAttempts]
          /\ rejected' \in [Callers -> 0..MaxAttempts]
          /\ foreign' \in [Callers -> 0..MaxForeign]
      <4>1. CASE Running(c)'
        BY <4>1 DEF SimIInv, SimTypeOK, HistoriesAreCurrent, EffectsAreLostOrHeld
      <4>2. CASE ~Running(c)'
        <5>1. 0 \in 0..MaxAttempts /\ 0 \in 0..MaxForeign
          BY DEF MaxForeign
        <5>2. Forget(c)
          BY <4>2
        <5>3. /\ processed' = [processed EXCEPT ![c] = 0]
              /\ lost' = [lost EXCEPT ![c] = 0]
              /\ rejected' = [rejected EXCEPT ![c] = 0]
              /\ foreign' = [foreign EXCEPT ![c] = 0]
          BY <4>2, <5>2
        <5>. QED BY Zenon, <5>1, <5>3 DEF SimIInv, SimTypeOK
      <4>. QED BY <4>1, <4>2
    <3>. QED BY <3>1, <3>2, <3>3 DEF SimTypeOK
  <2>2. EffectsAreLostOrHeld'
    BY DEF SimIInv, SimTypeOK, EffectsAreLostOrHeld, HistoriesAreCurrent
  <2>3. HistoriesAreCurrent'
    BY DEF SimIInv, SimTypeOK, HistoriesAreCurrent
  <2>4. RejectionsAlternate'
    BY DEF SimIInv, SimTypeOK, RejectionsAlternate, EffectsAreLostOrHeld, HistoriesAreCurrent
  <2>. QED BY <2>1, <2>2, <2>3, <2>4 DEF SimIInv
<1>4. ASSUME NEW c \in Callers, GetError(c) PROVE SimIInv'
  <2>. USE <1>4 DEF GetError, CallFails, LastCallFails, Return, Forget, histories
  <2>1. SimTypeOK'
    <3>1. shaken' \in [Callers -> BOOLEAN] /\ odd' \in BOOLEAN /\ late' \in BOOLEAN
      BY Zenon DEF SimIInv, SimTypeOK
    <3>2. /\ link' \in {"up", "cut", "down"}
          /\ source' \in [Callers -> Sources] /\ reply' \in [Callers -> Replies]
      BY DEF SimIInv, SimTypeOK, Sources, Replies
    <3>3. /\ processed' \in [Callers -> 0..MaxAttempts]
          /\ lost' \in [Callers -> 0..MaxAttempts]
          /\ rejected' \in [Callers -> 0..MaxAttempts]
          /\ foreign' \in [Callers -> 0..MaxForeign]
      <4>1. CASE Running(c)'
        BY <4>1 DEF SimIInv, SimTypeOK, HistoriesAreCurrent, EffectsAreLostOrHeld
      <4>2. CASE ~Running(c)'
        <5>1. 0 \in 0..MaxAttempts /\ 0 \in 0..MaxForeign
          BY DEF MaxForeign
        <5>2. Forget(c)
          BY <4>2
        <5>3. /\ processed' = [processed EXCEPT ![c] = 0]
              /\ lost' = [lost EXCEPT ![c] = 0]
              /\ rejected' = [rejected EXCEPT ![c] = 0]
              /\ foreign' = [foreign EXCEPT ![c] = 0]
          BY <4>2, <5>2
        <5>. QED BY Zenon, <5>1, <5>3 DEF SimIInv, SimTypeOK
      <4>. QED BY <4>1, <4>2
    <3>. QED BY <3>1, <3>2, <3>3 DEF SimTypeOK
  <2>2. EffectsAreLostOrHeld'
    BY DEF SimIInv, SimTypeOK, EffectsAreLostOrHeld, HistoriesAreCurrent
  <2>3. HistoriesAreCurrent'
    BY DEF SimIInv, SimTypeOK, HistoriesAreCurrent
  <2>4. RejectionsAlternate'
    BY DEF SimIInv, SimTypeOK, RejectionsAlternate, EffectsAreLostOrHeld, HistoriesAreCurrent
  <2>. QED BY <2>1, <2>2, <2>3, <2>4 DEF SimIInv
<1>5. ASSUME NEW c \in Callers, GiveUpCall(c) PROVE SimIInv'
  <2>. USE <1>5 DEF GiveUpCall, CallFails, LastCallFails, Return, Forget, histories
  <2>1. SimTypeOK'
    <3>1. shaken' \in [Callers -> BOOLEAN] /\ odd' \in BOOLEAN /\ late' \in BOOLEAN
      BY Zenon DEF SimIInv, SimTypeOK
    <3>2. /\ link' \in {"up", "cut", "down"}
          /\ source' \in [Callers -> Sources] /\ reply' \in [Callers -> Replies]
      BY DEF SimIInv, SimTypeOK, Sources, Replies
    <3>3. /\ processed' \in [Callers -> 0..MaxAttempts]
          /\ lost' \in [Callers -> 0..MaxAttempts]
          /\ rejected' \in [Callers -> 0..MaxAttempts]
          /\ foreign' \in [Callers -> 0..MaxForeign]
      <4>1. CASE Running(c)'
        BY <4>1 DEF SimIInv, SimTypeOK, HistoriesAreCurrent, EffectsAreLostOrHeld
      <4>2. CASE ~Running(c)'
        <5>1. 0 \in 0..MaxAttempts /\ 0 \in 0..MaxForeign
          BY DEF MaxForeign
        <5>2. Forget(c)
          BY <4>2
        <5>3. /\ processed' = [processed EXCEPT ![c] = 0]
              /\ lost' = [lost EXCEPT ![c] = 0]
              /\ rejected' = [rejected EXCEPT ![c] = 0]
              /\ foreign' = [foreign EXCEPT ![c] = 0]
          BY <4>2, <5>2
        <5>. QED BY Zenon, <5>1, <5>3 DEF SimIInv, SimTypeOK
      <4>. QED BY <4>1, <4>2
    <3>. QED BY <3>1, <3>2, <3>3 DEF SimTypeOK
  <2>2. EffectsAreLostOrHeld'
    BY DEF SimIInv, SimTypeOK, EffectsAreLostOrHeld, HistoriesAreCurrent
  <2>3. HistoriesAreCurrent'
    BY DEF SimIInv, SimTypeOK, HistoriesAreCurrent
  <2>4. RejectionsAlternate'
    <3>1. CASE LastCallFails(c) /\ Forget(c)
      BY <3>1 DEF SimIInv, SimTypeOK, RejectionsAlternate
    <3>2. CASE CallFails(c)
      <4>1. source'[c] = "flaky" => shaken'[c]
        BY <3>2 DEF SimIInv, SimTypeOK
      <4>2. ASSUME NEW d \in Callers, d # c
            PROVE  /\ source'[d] = source[d] /\ shaken'[d] = shaken[d]
                   /\ reply'[d] = reply[d]
        BY <3>2, <4>2 DEF SimIInv, SimTypeOK
      <4>3. UNCHANGED <<rejected, foreign, odd>>
        BY <3>2
      <4>4. ASSUME NEW d \in Callers, source'[d] = "flaky", ~shaken'[d]
            PROVE  /\ d # c /\ source[d] = "flaky" /\ ~shaken[d]
                   /\ reply'[d] = reply[d]
        BY Zenon, <4>1, <4>2, <4>4
      <4>. QED BY <4>3, <4>4 DEF SimIInv, RejectionsAlternate
    <3>. QED BY <3>1, <3>2
  <2>. QED BY <2>1, <2>2, <2>3, <2>4 DEF SimIInv
<1>6. ASSUME NEW c \in Callers, Continue(c) PROVE SimIInv'
  <2>. USE <1>6 DEF Continue, Refused, Retry, Cancel, Return, Forget, histories
  <2>1. SimTypeOK'
    <3>1. shaken' \in [Callers -> BOOLEAN] /\ odd' \in BOOLEAN /\ late' \in BOOLEAN
      BY Zenon DEF SimIInv, SimTypeOK
    <3>2. /\ link' \in {"up", "cut", "down"}
          /\ source' \in [Callers -> Sources] /\ reply' \in [Callers -> Replies]
      BY DEF SimIInv, SimTypeOK, Sources, Replies
    <3>3. /\ processed' \in [Callers -> 0..MaxAttempts]
          /\ lost' \in [Callers -> 0..MaxAttempts]
          /\ rejected' \in [Callers -> 0..MaxAttempts]
          /\ foreign' \in [Callers -> 0..MaxForeign]
      <4>1. CASE Running(c)'
        BY <4>1 DEF SimIInv, SimTypeOK
      <4>2. CASE ~Running(c)'
        <5>1. 0 \in 0..MaxAttempts /\ 0 \in 0..MaxForeign
          BY DEF MaxForeign
        <5>2. /\ processed' = [processed EXCEPT ![c] = 0]
              /\ lost' = [lost EXCEPT ![c] = 0]
              /\ rejected' = [rejected EXCEPT ![c] = 0]
              /\ foreign' = [foreign EXCEPT ![c] = 0]
          BY <4>2
        <5>. QED BY Zenon, <5>1, <5>2 DEF SimIInv, SimTypeOK
      <4>. QED BY <4>1, <4>2
    <3>. QED BY <3>1, <3>2, <3>3 DEF SimTypeOK
  <2>2. EffectsAreLostOrHeld'
    BY DEF SimIInv, SimTypeOK, EffectsAreLostOrHeld, HistoriesAreCurrent
  <2>3. HistoriesAreCurrent'
    BY DEF SimIInv, SimTypeOK, HistoriesAreCurrent
  <2>4. RejectionsAlternate'
    BY DEF SimIInv, SimTypeOK, RejectionsAlternate, EffectsAreLostOrHeld, HistoriesAreCurrent
  <2>. QED BY <2>1, <2>2, <2>3, <2>4 DEF SimIInv
<1>7. ASSUME NEW c \in Callers, Handle(c) PROVE SimIInv'
  <2>. USE <1>7 DEF vars
  <2>0. PICK a \in {"error", "waiting", "ok"}:
          /\ AnswerWith(c, a) /\ Count(c)
          /\ a = "waiting" => source[c] = "slow"
          /\ source[c] = "flaky" /\ a = "error" => ~odd
          /\ source[c] = "flaky" /\ a # "error" => a = "ok"
    BY DEF Handle, AnswerTo
  <2>. pc[c] = "call" /\ reply[c] = "none"
    BY DEF Handle
  <2>. USE <2>0 DEF AnswerWith, Count
  <2>1. SimTypeOK'
    <3>1. shaken' \in [Callers -> BOOLEAN] /\ odd' \in BOOLEAN /\ late' \in BOOLEAN
      BY Zenon DEF SimIInv, SimTypeOK
    <3>2. /\ link' \in {"up", "cut", "down"}
          /\ source' \in [Callers -> Sources] /\ reply' \in [Callers -> Replies]
      BY DEF SimIInv, SimTypeOK, Sources, Replies
    <3>3. /\ processed' \in [Callers -> 0..MaxAttempts]
          /\ lost' \in [Callers -> 0..MaxAttempts]
          /\ rejected' \in [Callers -> 0..MaxAttempts]
          /\ foreign' \in [Callers -> 0..MaxForeign]
      BY DEF SimIInv, SimTypeOK, MaxForeign, HistoriesAreCurrent, EffectsAreLostOrHeld
    <3>. QED BY <3>1, <3>2, <3>3 DEF SimTypeOK
  <2>2. EffectsAreLostOrHeld'
    BY DEF SimIInv, SimTypeOK, EffectsAreLostOrHeld, HistoriesAreCurrent
  <2>3. HistoriesAreCurrent'
    <3>1. \A d \in Callers: d # c =>
            UNCHANGED <<reply[d], processed[d], lost[d], rejected[d], source[d], pc[d], attempt[d]>>
      BY DEF SimIInv, SimTypeOK
    <3>2. ASSUME NEW d \in Callers, ~Running(d) PROVE foreign'[d] = 0
      <4>1. rejected[d] = 0 /\ foreign[d] = 0 /\ processed[d] = 0
        BY <3>2 DEF SimIInv, SimTypeOK, EffectsAreLostOrHeld, HistoriesAreCurrent
      <4>2. ~Counted(d)
        BY <4>1 DEF Counted
      <4>. QED BY <4>1, <4>2
    <3>3. /\ reply'[c] = a /\ UNCHANGED <<pc, lost[c], source[c], attempt[c]>>
          /\ rejected'[c] = IF a = "error" /\ source[c] = "flaky" THEN rejected[c] + 1
                            ELSE rejected[c]
      BY DEF SimIInv, SimTypeOK
    <3>4. \A d \in Callers: rejected[d] \in Nat /\ attempt[d] \in Nat
      BY DEF SimIInv, SimTypeOK
    <3>. QED BY <3>1, <3>2, <3>3, <3>4 DEF SimIInv, HistoriesAreCurrent
  <2>4. ASSUME NEW d \in Callers, source'[d] = "flaky", ~shaken'[d], rejected'[d] > 0
        PROVE  \/ rejected'[d] <= foreign'[d]
               \/ rejected'[d] = foreign'[d] + 1 /\ (odd' \/ reply'[d] = "ok")
    <3>1. /\ rejected[d] \in Nat /\ foreign[d] \in Nat /\ rejected[d] <= MaxAttempts
          /\ foreign[d] <= MaxAttempts /\ source[d] = "flaky" /\ ~shaken[d]
          /\ processed[d] \in Nat
      BY <2>4 DEF SimIInv, SimTypeOK, MaxForeign
    <3>2. CASE d # c
      BY <3>1, <3>2, <2>4 DEF SimIInv, SimTypeOK, RejectionsAlternate, Counted, MaxForeign
    <3>3. CASE d = c /\ a = "error"
      <4>1. ~odd /\ odd'
        BY Zenon, <3>1, <3>3
      <4>2. rejected[c] <= foreign[c]
        BY <3>1, <3>3, <4>1 DEF SimIInv, RejectionsAlternate
      <4>. QED BY <3>1, <3>3, <4>1, <4>2 DEF SimIInv, SimTypeOK
    <3>4. CASE d = c /\ a # "error"
      <4>1. reply'[c] = "ok" /\ rejected'[c] = rejected[c] /\ foreign'[c] = foreign[c]
        BY <3>1, <3>4 DEF SimIInv, SimTypeOK
      <4>. QED BY <2>4, <3>1, <3>4, <4>1 DEF SimIInv, RejectionsAlternate
    <3>. QED BY <3>2, <3>3, <3>4
  <2>. QED BY <2>1, <2>2, <2>3, <2>4 DEF SimIInv, RejectionsAlternate
<1>8. ASSUME NEW c \in Callers, SlowEnds(c) PROVE SimIInv'
  <2>. USE <1>8 DEF SlowEnds, AnswerWith, vars
  <2>1. SimTypeOK'
    <3>1. shaken' \in [Callers -> BOOLEAN] /\ odd' \in BOOLEAN /\ late' \in BOOLEAN
      BY Zenon DEF SimIInv, SimTypeOK
    <3>2. /\ link' \in {"up", "cut", "down"}
          /\ source' \in [Callers -> Sources] /\ reply' \in [Callers -> Replies]
      BY DEF SimIInv, SimTypeOK, Sources, Replies
    <3>3. /\ processed' \in [Callers -> 0..MaxAttempts]
          /\ lost' \in [Callers -> 0..MaxAttempts]
          /\ rejected' \in [Callers -> 0..MaxAttempts]
          /\ foreign' \in [Callers -> 0..MaxForeign]
      BY DEF SimIInv, SimTypeOK, MaxForeign, HistoriesAreCurrent, EffectsAreLostOrHeld
    <3>. QED BY <3>1, <3>2, <3>3 DEF SimTypeOK
  <2>2. EffectsAreLostOrHeld'
    BY DEF SimIInv, SimTypeOK, EffectsAreLostOrHeld, HistoriesAreCurrent
  <2>3. HistoriesAreCurrent'
    BY DEF SimIInv, SimTypeOK, HistoriesAreCurrent
  <2>4. RejectionsAlternate'
    BY DEF SimIInv, SimTypeOK, RejectionsAlternate, EffectsAreLostOrHeld, HistoriesAreCurrent
  <2>. QED BY <2>1, <2>2, <2>3, <2>4 DEF SimIInv
<1>9. CASE HandleLate \/ CutOrMend \/ Die \/ Reboot
  <2>. USE <1>9 DEF HandleLate, CutOrMend, Die, Reboot, vars, histories
  <2>1. SimTypeOK'
    <3>1. shaken' \in [Callers -> BOOLEAN] /\ odd' \in BOOLEAN /\ late' \in BOOLEAN
      BY Zenon DEF SimIInv, SimTypeOK
    <3>2. /\ link' \in {"up", "cut", "down"}
          /\ source' \in [Callers -> Sources] /\ reply' \in [Callers -> Replies]
      BY DEF SimIInv, SimTypeOK, Sources, Replies
    <3>3. /\ processed' \in [Callers -> 0..MaxAttempts]
          /\ lost' \in [Callers -> 0..MaxAttempts]
          /\ rejected' \in [Callers -> 0..MaxAttempts]
          /\ foreign' \in [Callers -> 0..MaxForeign]
      BY DEF SimIInv, SimTypeOK, MaxForeign, HistoriesAreCurrent, EffectsAreLostOrHeld
    <3>. QED BY <3>1, <3>2, <3>3 DEF SimTypeOK
  <2>2. EffectsAreLostOrHeld'
    BY DEF SimIInv, SimTypeOK, EffectsAreLostOrHeld, HistoriesAreCurrent
  <2>3. HistoriesAreCurrent'
    BY DEF SimIInv, SimTypeOK, HistoriesAreCurrent
  <2>4. RejectionsAlternate'
    BY DEF SimIInv, SimTypeOK, RejectionsAlternate, EffectsAreLostOrHeld, HistoriesAreCurrent
  <2>. QED BY <2>1, <2>2, <2>3, <2>4 DEF SimIInv
<1>10. CASE UNCHANGED simVars
  <2>. USE <1>10 DEF simVars, simulator, histories, vars
  <2>1. SimTypeOK'
    BY DEF SimIInv, SimTypeOK, Sources, Replies, MaxForeign, HistoriesAreCurrent
  <2>2. EffectsAreLostOrHeld'
    BY DEF SimIInv, SimTypeOK, EffectsAreLostOrHeld, HistoriesAreCurrent
  <2>3. HistoriesAreCurrent'
    BY DEF SimIInv, SimTypeOK, HistoriesAreCurrent
  <2>4. RejectionsAlternate'
    BY DEF SimIInv, SimTypeOK, RejectionsAlternate, EffectsAreLostOrHeld, HistoriesAreCurrent
  <2>. QED BY <2>1, <2>2, <2>3, <2>4 DEF SimIInv
<1>. QED
  BY <1>1, <1>2, <1>3, <1>4, <1>5, <1>6, <1>7, <1>8, <1>9, <1>10
     DEF SimNext, CallerNext, HandlerNext

LEMMA SimInvariantHolds == SimSpec => []SimIInv
<1>1. SimInit => SimIInv
  <2>. SUFFICES ASSUME SimInit PROVE SimIInv
    OBVIOUS
  <2>1. TypeOK
    BY InitIsTyped DEF SimInit
  <2>2. shaken \in [Callers -> BOOLEAN] /\ odd \in BOOLEAN /\ late \in BOOLEAN
    BY Zenon DEF SimInit
  <2>3. SimTypeOK
    BY <2>1, <2>2, CallersAssumption DEF SimInit, SimTypeOK, Sources, Replies, MaxForeign
  <2>. QED
    BY <2>3, CallersAssumption DEF SimInit, Init, SimIInv, EffectsAreLostOrHeld,
       HistoriesAreCurrent, RejectionsAlternate, Running
<1>2. SimSpec => []TypeOK
  BY SimulatorImplementsClient, TypeCorrect, PTL
<1>3. TypeOK /\ TypeOK' /\ SimIInv /\ [SimNext]_simVars => SimIInv'
  BY SimInvariantStep
<1>. QED BY <1>1, <1>2, <1>3, PTL DEF SimSpec

\* The client, the simulator and the histories keep their types.
THEOREM SimTypeCorrect == SimSpec => []SimTypeOK
<1>1. SimIInv => SimTypeOK
  BY DEF SimIInv
<1>. QED BY <1>1, SimInvariantHolds, PTL

\* With any number of callers and attempts, a flaky source wears out all the
\* attempts of a Process only if the others' requests get in between.
THEOREM InterferenceIsNeeded == SimSpec => []FlakyFailsOnlyByInterference
<1>1. ASSUME SimIInv PROVE FlakyFailsOnlyByInterference
  <2>1. ASSUME NEW c \in Callers, source[c] = "flaky", ~shaken[c]
        PROVE  rejected[c] <= foreign[c] + 1
    <3>1. rejected[c] \in Nat /\ foreign[c] \in Nat
      BY <1>1, CallersAssumption DEF SimIInv, SimTypeOK, MaxForeign
    <3>. QED BY <1>1, <2>1, <3>1 DEF SimIInv, RejectionsAlternate
  <2>. QED BY <2>1 DEF FlakyFailsOnlyByInterference
<1>. QED BY <1>1, SimInvariantHolds, PTL

\* The retries of a Process repeat the work of the integration only when an
\* answer was lost, and a failed Process leaves work done only then.
THEOREM RepetitionsHaveACause == SimSpec => RepeatedEffectMeansLostAnswer
<1>. DEFINE Exact == \A c \in Callers:
       /\ CallSucceeds(c) => processed[c] = lost[c] + 1
       /\ LastCallFails(c) => \/ processed[c] = lost[c]
                             \/ /\ processed[c] = lost[c] + 1 /\ reply[c] = "ok"
                                /\ link # "up" \/ stopping
       /\ Cancel(c) => processed[c] = lost[c]
<1>1. ASSUME SimIInv, TypeOK, [SimNext]_simVars PROVE [Exact]_simVars
  <2>. SUFFICES ASSUME NEW c \in Callers
                PROVE  /\ CallSucceeds(c) => processed[c] = lost[c] + 1
                       /\ LastCallFails(c) => \/ processed[c] = lost[c]
                                              \/ /\ processed[c] = lost[c] + 1 /\ reply[c] = "ok"
                                                 /\ link # "up" \/ stopping
                       /\ Cancel(c) => processed[c] = lost[c]
    BY Zenon
  <2>0. /\ processed[c] = lost[c] + (IF reply[c] = "ok" THEN 1 ELSE 0)
        /\ processed[c] \in Int /\ lost[c] \in Int
        /\ pc[c] # "call" => reply[c] = "none"
        /\ pc \in [Callers -> {"idle", "call", "backoff"}]
    BY <1>1, CallersAssumption DEF SimIInv, SimTypeOK, EffectsAreLostOrHeld,
       HistoriesAreCurrent, TypeOK
  <2>1. ASSUME CallSucceeds(c) \/ LastCallFails(c)
        PROVE  GetAnswer(c) \/ GetError(c) \/ GiveUpCall(c)
    <3>1. pc[c] = "call" /\ pc'[c] = "idle"
      BY <2>0, <2>1 DEF CallSucceeds, LastCallFails, Return
    <3>2. ASSUME NEW d \in Callers, CallerNext(d) PROVE d = c
      BY <2>0, <3>1, <3>2 DEF CallerNext, Start, Enter, GetAnswer, GetError, GiveUpCall,
         Continue, CallSucceeds, CallFails, LastCallFails, Refused, Retry, Cancel, Return,
         Running
    <3>3. ~Start(c) /\ ~Continue(c)
      BY <2>0, <3>1 DEF Start, Enter, Continue, Refused, Retry, Cancel, Running
    <3>4. ASSUME NEW d \in Callers, HandlerNext(d) PROVE FALSE
      BY <3>1, <3>4 DEF HandlerNext, Handle, SlowEnds, AnswerWith, vars
    <3>5. ~((Terminate \/ Tick) /\ UNCHANGED simulator)
      BY <3>1 DEF Terminate, Tick, callers
    <3>6. ~(HandleLate \/ CutOrMend \/ Die \/ Reboot) /\ ~UNCHANGED simVars
      BY <3>1 DEF HandleLate, CutOrMend, Die, Reboot, vars, simVars
    <3>. QED BY <1>1, <3>2, <3>3, <3>4, <3>5, <3>6 DEF SimNext, CallerNext
  <2>2. CallSucceeds(c) => ~LastCallFails(c) /\ ~CallFails(c)
    <3>1. Success => failures' = 0
      BY DEF Success
    <3>2. Failure => failures' # 0
      BY <1>1, ThresholdAssumption DEF Failure, TypeOK, BreakerTypeOK
    <3>3. CallFails(c) => pc'[c] = "backoff"
      BY <2>0 DEF CallFails
    <3>4. CallSucceeds(c) => pc'[c] = "idle"
      BY <2>0 DEF CallSucceeds, Return
    <3>. QED BY <3>1, <3>2, <3>3, <3>4 DEF CallSucceeds, LastCallFails
  <2>3. CallSucceeds(c) => processed[c] = lost[c] + 1
    BY <2>0, <2>1, <2>2 DEF GetAnswer, GetError, GiveUpCall
  <2>4. LastCallFails(c) => \/ processed[c] = lost[c]
                            \/ /\ processed[c] = lost[c] + 1 /\ reply[c] = "ok"
                               /\ link # "up" \/ stopping
    <3>1. reply[c] = "ok" => processed[c] = lost[c] + 1
      BY <2>0
    <3>2. reply[c] # "ok" => processed[c] = lost[c]
      BY <2>0
    <3>3. LastCallFails(c) => reply[c] # "ok" \/ link # "up" \/ stopping
      BY <2>1, <2>2 DEF GetAnswer, GetError, GiveUpCall
    <3>. QED BY Zenon, <3>1, <3>2, <3>3
  <2>5. Cancel(c) => processed[c] = lost[c]
    BY <2>0 DEF Cancel
  <2>. QED BY <2>3, <2>4, <2>5
<1>2. SimSpec => []TypeOK
  BY SimulatorImplementsClient, TypeCorrect, PTL
<1>. QED BY <1>1, <1>2, SimInvariantHolds, PTL DEF SimSpec, RepeatedEffectMeansLostAnswer

------------------------------------------------------------------------------
\* What interference costs, and the deployed worker, which is a single caller

\* Every attempt of an undisturbed flaky Process but the present one was answered
\* with a rejection.
AttemptsAreRejections ==
  \A c \in Callers:
    source[c] = "flaky" /\ ~shaken[c] =>
      rejected[c] = attempt[c] - 1 + (IF reply[c] = "error" THEN 1 ELSE 0)

LEMMA AttemptsStep ==
  ASSUME TypeOK, TypeOK', SimIInv, AttemptsAreRejections, [SimNext]_simVars
  PROVE  AttemptsAreRejections'
<1>. USE CallersAssumption DEF AttemptsAreRejections, Running
<1>0. /\ pc \in [Callers -> {"idle", "call", "backoff"}]
      /\ attempt \in [Callers -> 1..MaxAttempts]
      /\ source \in [Callers -> Sources] /\ reply \in [Callers -> Replies]
      /\ rejected \in [Callers -> 0..MaxAttempts]
      /\ shaken \in [Callers -> BOOLEAN]
  BY DEF TypeOK, SimIInv, SimTypeOK
<1>1. \A c \in Callers: pc[c] # "call" => reply[c] = "none"
  BY DEF SimIInv, HistoriesAreCurrent
<1>2. \A c \in Callers: ~Running(c) => attempt[c] = 1 /\ rejected[c] = 0
  BY DEF SimIInv, HistoriesAreCurrent
<1>. USE <1>0, <1>1, <1>2
<1>3. CASE (Terminate \/ Tick) /\ UNCHANGED simulator
  BY <1>3 DEF Terminate, Tick, callers, simulator, histories
<1>4. ASSUME NEW c \in Callers, Start(c) PROVE AttemptsAreRejections'
  BY <1>4 DEF Start, Enter, histories
<1>5. ASSUME NEW c \in Callers, GetAnswer(c) PROVE AttemptsAreRejections'
  BY <1>5 DEF GetAnswer, CallSucceeds, Return, Forget, histories, Sources
<1>6. ASSUME NEW c \in Callers, GetError(c) PROVE AttemptsAreRejections'
  BY <1>6 DEF GetError, CallFails, LastCallFails, Return, Forget, histories, Sources
<1>7. ASSUME NEW c \in Callers, GiveUpCall(c) PROVE AttemptsAreRejections'
  <2>1. ASSUME NEW d \in Callers, d # c PROVE
          UNCHANGED <<source[d], shaken[d], rejected[d], attempt[d], reply[d]>>
    BY <1>7, <2>1 DEF GiveUpCall, CallFails, LastCallFails, Return, Forget, histories
  <2>2. ~(source'[c] = "flaky" /\ ~shaken'[c])
    BY <1>7 DEF GiveUpCall, LastCallFails, Return, Forget, Sources
  <2>. QED BY <2>1, <2>2
<1>8. ASSUME NEW c \in Callers, Continue(c) PROVE AttemptsAreRejections'
  BY <1>8 DEF Continue, Refused, Retry, Cancel, Return, Forget, histories, Sources
<1>9. ASSUME NEW c \in Callers, HandlerNext(c) PROVE AttemptsAreRejections'
  <2>1. PICK a \in {"error", "waiting", "ok"}: AnswerWith(c, a)
    BY <1>9 DEF HandlerNext, Handle, SlowEnds, AnswerTo
  <2>2. reply[c] # "error"
    BY <1>9 DEF HandlerNext, Handle, SlowEnds
  <2>. QED BY <2>1, <2>2 DEF AnswerWith, vars
<1>10. CASE HandleLate \/ CutOrMend \/ Die \/ Reboot
  BY <1>10 DEF HandleLate, CutOrMend, Die, Reboot, vars, histories
<1>11. CASE UNCHANGED simVars
  BY <1>11 DEF simVars, simulator, histories, vars
<1>. QED
  BY <1>3, <1>4, <1>5, <1>6, <1>7, <1>8, <1>9, <1>10, <1>11 DEF SimNext, CallerNext

LEMMA AttemptsHold == SimSpec => []AttemptsAreRejections
<1>1. SimInit => AttemptsAreRejections
  BY CallersAssumption DEF SimInit, Init, AttemptsAreRejections
<1>2. TypeOK /\ TypeOK' /\ SimIInv /\ AttemptsAreRejections /\ [SimNext]_simVars
        => AttemptsAreRejections'
  BY AttemptsStep
<1>3. SimSpec => []TypeOK
  BY SimulatorImplementsClient, TypeCorrect, PTL
<1>. QED BY <1>1, <1>2, <1>3, SimInvariantHolds, PTL DEF SimSpec

\* As long as its requests arrive and the counter is not restarted, a Process of
\* a flaky import is failed by an answer only after the simulator counted, for
\* every attempt but one, a request of another caller.
FlakyFailureWasInterfered ==
  [][\A c \in Callers:
       GetError(c) /\ LastCallFails(c) /\ source[c] = "flaky" /\ ~shaken[c]
         => foreign[c] >= MaxAttempts - 1]_simVars

\* It takes MaxAttempts - 1 requests of other callers to wear out the retries.
THEOREM InterferenceIsCounted == SimSpec => FlakyFailureWasInterfered
<1>. DEFINE Interfered == \A c \in Callers:
       GetError(c) /\ LastCallFails(c) /\ source[c] = "flaky" /\ ~shaken[c]
         => foreign[c] >= MaxAttempts - 1
<1>1. ASSUME SimIInv, AttemptsAreRejections PROVE Interfered
  <2>. SUFFICES ASSUME NEW c \in Callers, GetError(c), LastCallFails(c),
                       source[c] = "flaky", ~shaken[c]
                PROVE  foreign[c] >= MaxAttempts - 1
    OBVIOUS
  <2>1. rejected[c] \in Nat /\ foreign[c] \in Nat
    BY <1>1, CallersAssumption DEF SimIInv, SimTypeOK, MaxForeign
  <2>2. rejected[c] = MaxAttempts
    BY <1>1, CallersAssumption DEF AttemptsAreRejections, GetError, LastCallFails
  <2>3. rejected[c] <= foreign[c] + 1
    BY <1>1, <2>1, CallersAssumption DEF SimIInv, RejectionsAlternate
  <2>. QED BY <2>1, <2>2, <2>3, CallersAssumption
<1>. QED BY <1>1, SimInvariantHolds, AttemptsHold, PTL DEF SimSpec, FlakyFailureWasInterfered

\* The deployed worker retries a flaky import to success: as long as no request
\* is lost or late and the simulator is not restarted, no answer fails its
\* Process for good.
THEOREM SingleCallerOutlastsFlaky ==
  ASSUME \A c, d \in Callers: c = d, MaxAttempts > 1
  PROVE  SimSpec => [][\A c \in Callers:
           source[c] = "flaky" /\ ~shaken[c] => ~(GetError(c) /\ LastCallFails(c))]_simVars
<1>. DEFINE Alone == \A c \in Callers: foreign[c] = 0
            Outlasts == \A c \in Callers:
              source[c] = "flaky" /\ ~shaken[c] => ~(GetError(c) /\ LastCallFails(c))
<1>1. SimInit => Alone
  BY DEF SimInit
<1>2. SimIInv /\ Alone /\ [SimNext]_simVars => Alone'
  <2>. SUFFICES ASSUME SimIInv, Alone, [SimNext]_simVars PROVE Alone'
    OBVIOUS
  <2>0. foreign \in [Callers -> 0..MaxForeign]
    BY DEF SimIInv, SimTypeOK
  <2>1. \/ foreign' = foreign
        \/ \E c \in Callers: Forget(c) \/ Count(c)
    BY DEF SimNext, CallerNext, HandlerNext, Start, GetAnswer, GetError, GiveUpCall,
       Continue, Handle, SlowEnds, HandleLate, CutOrMend, Die, Reboot, simVars,
       simulator, histories
  <2>2. ASSUME NEW c \in Callers, Forget(c) PROVE Alone'
    BY <2>0, <2>2 DEF Forget, histories
  <2>3. ASSUME NEW c \in Callers, Count(c) PROVE Alone'
    BY <2>0, <2>3 DEF Count
  <2>. QED BY <2>1, <2>2, <2>3
<1>3. SimIInv /\ AttemptsAreRejections /\ Alone => Outlasts
  <2>. SUFFICES ASSUME SimIInv, AttemptsAreRejections, Alone, NEW c \in Callers,
                       GetError(c), LastCallFails(c), source[c] = "flaky", ~shaken[c]
                PROVE  FALSE
    OBVIOUS
  <2>1. rejected[c] \in Nat /\ foreign[c] = 0
    BY CallersAssumption DEF SimIInv, SimTypeOK
  <2>2. rejected[c] = MaxAttempts
    BY CallersAssumption DEF AttemptsAreRejections, GetError, LastCallFails
  <2>3. rejected[c] <= 1
    BY <2>1 DEF SimIInv, RejectionsAlternate
  <2>. QED BY <2>2, <2>3, CallersAssumption
<1>. QED BY <1>1, <1>2, <1>3, SimInvariantHolds, AttemptsHold, PTL DEF SimSpec

\* The deployed worker sends the integration nothing while the breaker is open,
\* and the breaker serves its whole cooldown. What the simulator still reads
\* then is a request given up on before.
THEOREM SingleCallerSparesTheSimulator ==
  ASSUME \A c, d \in Callers: c = d
  PROVE  SimSpec => /\ CooldownIsServed
                    /\ [][state = "open" => \A c \in Callers: ~HandlerNext(c)]_simVars
<1>1. SimSpec => []OpenMeansQuiet
  BY SimulatorImplementsClient, SingleCallerIsQuiet, PTL
<1>2. SimSpec => CooldownIsServed
  BY SimulatorImplementsClient, SingleCallerWaits, PTL
<1>3. OpenMeansQuiet /\ SimIInv => (state = "open" => \A c \in Callers: ~HandlerNext(c))
  BY DEF OpenMeansQuiet, Running, HandlerNext, Handle, SlowEnds, SimIInv, HistoriesAreCurrent
<1>. QED BY <1>1, <1>2, <1>3, SimInvariantHolds, PTL
==============================================================================
