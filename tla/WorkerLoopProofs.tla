-------------------------- MODULE WorkerLoopProofs --------------------------
(***************************************************************************)
(* Proofs about the worker's loop: what it takes for a living worker to let  *)
(* its heartbeat grow as old as the alert tolerates.                        *)
(***************************************************************************)
EXTENDS WorkerLoop, TLAPS

------------------------------------------------------------------------------
\* The inductive invariant

TypeOK ==
  /\ row \in [Imports -> Statuses \union {"none"}]
  /\ queue \in SUBSET Imports /\ cur \in SUBSET Imports
  /\ at \in Points
  /\ busy \in 0..MaxBusy
  /\ sinceBeat \in 0..BeatPeriod - 1 /\ sinceCount \in 0..CountPeriod - 1
  /\ beatDue \in BOOLEAN /\ countDue \in BOOLEAN /\ stopping \in BOOLEAN
  /\ age \in 0..AlertAfter + 1
  /\ passed \in 0..MaxPassed
  /\ stalled \in 0..AlertAfter
  /\ faults \in 0..MaxFaults

\* The loop holds one delivery in processDelivery and none otherwise, and what it
\* holds is not waiting as well; only Process counts its time.
Holding == {"start", "working", "succeed", "deadletter"}

OneInHand ==
  /\ cur \intersect queue = {}
  /\ at \in Holding => \E i \in Imports: cur = {i}
  /\ at \notin Holding => cur = {}
  /\ at # "working" => busy = 0

\* While no beat is due, the heartbeat is younger than the ticker's period.
FreshUntilDue == at # "down" /\ ~beatDue => age <= sinceBeat

\* A due heartbeat ages only under deliveries and stalled calls: the Process that
\* was running when it became due, those chosen over it since, and the calls.
SoFar == IF at \in {"start", "working"} THEN busy ELSE MaxBusy

DueAgesByDeliveries ==
  at # "down" /\ (passed < MaxPassed \/ MaxBusy = 0) =>
    age <= BeatPeriod + MaxBusy * passed + stalled + SoFar

IInv == TypeOK /\ OneInHand /\ FreshUntilDue /\ DueAgesByDeliveries

------------------------------------------------------------------------------
\* Arithmetic of the tickers and of the history

\* A ticker counts up to its period and starts again.
LEMMA TickerCounts ==
  ASSUME NEW P \in Nat \ {0}, NEW n \in 0..P - 1
  PROVE  /\ (n + 1) % P \in 0..P - 1
         /\ (n + 1) % P # 0 => (n + 1) % P = n + 1
<1>1. CASE n + 1 < P
  BY <1>1
<1>2. CASE n + 1 = P
  BY <1>2
<1>. QED BY <1>1, <1>2

LEMMA OneMoreDelivery ==
  ASSUME NEW M \in Nat, NEW n \in Nat
  PROVE  M * n \in Nat /\ M * (n + 1) = M * n + M
OBVIOUS

\* More deliveries take more time.
LEMMA MoreDeliveriesTakeLonger ==
  ASSUME NEW M \in Nat, NEW m \in Nat, NEW n \in Nat, m <= n
  PROVE  M * m <= M * n
<1>1. PICK k \in Nat: n = m + k
  BY n - m \in Nat, n = m + (n - m)
<1>2. M * n = M * m + M * k /\ M * m \in Nat /\ M * k \in Nat
  BY <1>1
<1>. QED BY <1>2

------------------------------------------------------------------------------
\* Every step keeps the invariant.

LEMMA TypeStep == TypeOK /\ OneInHand /\ [Next]_vars => TypeOK'
<1>. SUFFICES ASSUME TypeOK, OneInHand, [Next]_vars PROVE TypeOK'
  OBVIOUS
<1>. USE BoundsAssumption
     DEF TypeOK, OneInHand, Points, Calls, Holding, outside, tickers, history, Fault, Unanswered,
         Statuses
<1>1. ASSUME NEW i \in Imports, Arrive(i) PROVE TypeOK'
  BY <1>1 DEF Arrive
<1>2. ASSUME NEW i \in Imports, Take(i) PROVE TypeOK'
  BY <1>2 DEF Take
<1>3. ASSUME NEW status \in Statuses, Write(status)
      PROVE  row' \in [Imports -> Statuses \union {"none"}]
  BY <1>3 DEF Write
<1>4. CASE Tick
  <2>1. sinceBeat' \in 0..BeatPeriod - 1 /\ sinceCount' \in 0..CountPeriod - 1
    BY <1>4, TickerCounts DEF Tick
  <2>2. beatDue' \in BOOLEAN /\ countDue' \in BOOLEAN
    BY Zenon, <1>4 DEF Tick
  <2>3. busy' \in 0..MaxBusy /\ age' \in 0..AlertAfter + 1
    BY <1>4 DEF Tick
  <2>4. stalled' \in 0..AlertAfter
    BY <1>4 DEF Tick
  <2>. QED BY <1>4, <2>1, <2>2, <2>3, <2>4 DEF Tick
<1>5. CASE Boot
  <2>1. beatDue' \in BOOLEAN /\ countDue' \in BOOLEAN /\ stopping' \in BOOLEAN
    BY Zenon, <1>5 DEF Boot
  <2>. QED BY <1>5, <2>1 DEF Boot
<1>6. CASE Die \/ Leave \/ AckFails
  <2>1. row' \in [Imports -> Statuses \union {"none"}]
    BY <1>3, <1>6 DEF Die, Leave, AckFails
  <2>. QED BY <1>6, <2>1 DEF Die, Leave, AckFails, Gone
<1>7. CASE Signal
  BY <1>7 DEF Signal
<1>8. CASE Beat \/ CountTick
  <2>1. beatDue' \in BOOLEAN /\ countDue' \in BOOLEAN
    BY Zenon, <1>8 DEF Beat, CountTick
  <2>. QED BY <1>8, <2>1 DEF Beat, CountTick
<1>9. CASE StartProcessing \/ StartFails \/ Succeed \/ DeadLetter \/ CompleteFails
  <2>1. row' \in [Imports -> Statuses \union {"none"}]
    BY <1>3, <1>9 DEF StartProcessing, StartFails, Succeed, DeadLetter, CompleteFails
  <2>2. /\ queue' = queue /\ cur' \in {cur, {}} /\ at' \in Points /\ faults' \in 0..MaxFaults
        /\ UNCHANGED <<busy, tickers, stopping, age, gauge, read, history>>
    BY <1>9 DEF StartProcessing, StartFails, Succeed, DeadLetter, CompleteFails, Rejected
  <2>. QED BY <2>1, <2>2
<1>10. CASE Process
  BY <1>10 DEF Process
<1>11. CASE CountImportsByStatus \/ CountFails \/ SetGauge
  BY <1>11 DEF CountImportsByStatus, CountFails, SetGauge
<1>12. CASE UNCHANGED vars
  BY <1>12 DEF vars
<1>. QED
  BY <1>1, <1>2, <1>4, <1>5, <1>6, <1>7, <1>8, <1>9, <1>10, <1>11, <1>12 DEF Next, Finish

LEMMA OneInHandStep == TypeOK /\ OneInHand /\ [Next]_vars => OneInHand'
<1>. SUFFICES ASSUME TypeOK, OneInHand, [Next]_vars PROVE OneInHand'
  OBVIOUS
<1>. USE DEF TypeOK, OneInHand, Holding, Points, Calls, outside
<1>1. ASSUME NEW i \in Imports, Arrive(i) \/ Take(i) PROVE OneInHand'
  BY <1>1 DEF Arrive, Take
<1>2. CASE Tick \/ Signal \/ Beat \/ CountTick \/ Boot
  BY <1>2 DEF Tick, Signal, Beat, CountTick, Boot
<1>3. CASE Die \/ Leave \/ AckFails
  BY <1>3 DEF Die, Leave, AckFails, Gone
<1>4. CASE StartProcessing \/ Process \/ Succeed
  BY <1>4 DEF StartProcessing, Process, Succeed
<1>5. CASE StartFails \/ DeadLetter \/ CompleteFails
  BY <1>5 DEF StartFails, DeadLetter, CompleteFails, Rejected
<1>6. CASE CountImportsByStatus \/ CountFails \/ SetGauge
  BY <1>6 DEF CountImportsByStatus, CountFails, SetGauge
<1>7. CASE UNCHANGED vars
  BY <1>7 DEF vars
<1>. QED BY <1>1, <1>2, <1>3, <1>4, <1>5, <1>6, <1>7 DEF Next, Finish

\* When the goroutine comes back from a call or from Process, the heartbeat and its
\* history are as before, and no step of Process is left.
LEMMA FinishKeepsTime ==
  ASSUME TypeOK, OneInHand, Finish, ~AckFails
  PROVE  /\ at # "down" /\ at' # "down"
         /\ at' = "working" => at = "start" /\ busy' = busy
         /\ at' # "start"
         /\ UNCHANGED <<tickers, age, passed, stalled>>
BY DEF TypeOK, OneInHand, Finish, StartProcessing, StartFails, Process, Succeed, DeadLetter,
   CompleteFails, Rejected, CountImportsByStatus, CountFails, SetGauge, outside, history

LEMMA FreshStep == IInv /\ [Next]_vars => FreshUntilDue'
<1>. SUFFICES ASSUME IInv, [Next]_vars PROVE FreshUntilDue'
  OBVIOUS
<1>. USE BoundsAssumption DEF IInv, TypeOK, FreshUntilDue, outside, tickers
<1>1. ASSUME NEW i \in Imports, Arrive(i) \/ Take(i) PROVE FreshUntilDue'
  BY <1>1 DEF Arrive, Take
<1>2. CASE Tick
  <2>. SUFFICES ASSUME ~beatDue' PROVE age' <= sinceBeat'
    BY DEF FreshUntilDue
  <2>1. ~beatDue /\ sinceBeat' # 0
    BY Zenon, <1>2 DEF Tick
  <2>2. sinceBeat' = sinceBeat + 1
    BY <1>2, <2>1, TickerCounts DEF Tick
  <2>3. age <= sinceBeat
    BY <1>2, <2>1 DEF Tick, Calls
  <2>4. age' <= age + 1
    BY <1>2 DEF Tick
  <2>. QED BY <2>2, <2>3, <2>4, <1>2, TypeStep
<1>3. CASE Boot
  BY <1>3 DEF Boot
<1>4. CASE Die \/ Leave \/ AckFails
  BY <1>4 DEF Die, Leave, AckFails, Gone
<1>5. CASE Signal \/ Beat \/ CountTick
  BY <1>5 DEF Signal, Beat, CountTick
<1>6. CASE Finish /\ ~AckFails
  BY <1>6, FinishKeepsTime
<1>7. CASE UNCHANGED vars
  BY <1>7 DEF vars
<1>. QED BY <1>1, <1>2, <1>3, <1>4, <1>5, <1>6, <1>7 DEF Next

\* Adding up: what is no more than a part is no more than the sum.
LEMMA AddUp ==
  ASSUME NEW a \in Nat, NEW b \in Nat, NEW c \in Nat, NEW d \in Nat, NEW x \in Nat,
         \/ x <= a \/ x <= a + b \/ x <= a + c \/ x <= a + b + c
  PROVE  x <= a + b + c + d
OBVIOUS

LEMMA DueStep == IInv /\ [Next]_vars => DueAgesByDeliveries'
<1>. SUFFICES ASSUME IInv, [Next]_vars, at' # "down", passed' < MaxPassed \/ MaxBusy = 0
              PROVE  age' <= BeatPeriod + MaxBusy * passed' + stalled' + SoFar'
  BY DEF DueAgesByDeliveries
<1>. TypeOK /\ OneInHand /\ FreshUntilDue /\ DueAgesByDeliveries
  BY DEF IInv
<1>1. /\ BeatPeriod \in Nat /\ MaxBusy \in Nat /\ passed \in Nat /\ passed <= MaxPassed
      /\ age \in Nat /\ stalled \in Nat /\ busy \in 0..MaxBusy /\ SoFar \in 0..MaxBusy
      /\ MaxPassed \in Nat /\ AlertAfter \in Nat
  BY BoundsAssumption DEF TypeOK, SoFar
<1>2. MaxBusy * passed \in Nat /\ MaxBusy * (passed + 1) = MaxBusy * passed + MaxBusy
  BY <1>1, OneMoreDelivery
<1>3. MaxBusy * 0 = 0
  BY <1>1
<1>4. at # "down" /\ (passed < MaxPassed \/ MaxBusy = 0) =>
        age <= BeatPeriod + MaxBusy * passed + stalled + SoFar
  BY DEF DueAgesByDeliveries
<1>. DEFINE Same == /\ UNCHANGED <<age, passed, stalled>> /\ at # "down"
                    /\ SoFar' = SoFar \/ SoFar' = MaxBusy
<1>5. CASE Same
  <2>1. age <= BeatPeriod + MaxBusy * passed + stalled + SoFar
    BY <1>4, <1>5
  <2>. QED BY <1>1, <1>2, <1>5, <2>1
<1>6. ASSUME NEW i \in Imports, Take(i)
      PROVE  age' <= BeatPeriod + MaxBusy * passed' + stalled' + SoFar'
  <2>1. /\ at = "select" /\ UNCHANGED <<age, stalled>> /\ SoFar' = 0 /\ SoFar = MaxBusy
        /\ passed' = IF beatDue /\ passed < MaxPassed THEN passed + 1 ELSE passed
    BY <1>6 DEF Take, SoFar
  <2>2. CASE ~beatDue
    <3>1. age <= BeatPeriod
      BY <2>1, <2>2, <1>1 DEF FreshUntilDue, TypeOK
    <3>2. passed' = passed
      BY <2>1, <2>2
    <3>. QED BY <1>1, <1>2, <2>1, <3>1, <3>2
  <2>3. CASE beatDue /\ passed < MaxPassed
    <3>1. passed' = passed + 1
      BY Zenon, <2>1, <2>3
    <3>2. age <= BeatPeriod + MaxBusy * passed + stalled + MaxBusy
      BY <1>4, <2>1, <2>3
    <3>. QED BY <1>1, <1>2, <2>1, <3>1, <3>2
  <2>4. CASE beatDue /\ ~(passed < MaxPassed)
    <3>1. passed' = passed
      BY Zenon, <2>1, <2>4
    <3>2. MaxBusy = 0
      BY <2>4, <3>1
    <3>3. age <= BeatPeriod + MaxBusy * passed + stalled + 0
      BY <1>4, <2>1, <3>2
    <3>. QED BY <1>1, <1>2, <2>1, <3>1, <3>3
  <2>. QED BY <2>2, <2>3, <2>4
<1>7. CASE Tick
  <2>1. /\ passed' = passed /\ at' = at /\ age' <= age + 1 /\ age' \in 0..AlertAfter + 1
        /\ stalled' \in Nat
    BY <1>1, <1>7 DEF Tick, TypeOK
  <2>2. SoFar' \in Nat
    BY <1>1, <1>7 DEF Tick, SoFar
  <2>3. MaxBusy * passed' \in Nat
    BY <1>2, <2>1
  <2>4. CASE at = "working"
    <3>1. stalled' = stalled /\ SoFar = busy /\ SoFar' = busy + 1
      BY <1>7, <2>4 DEF Tick, SoFar, Calls
    <3>2. age <= BeatPeriod + MaxBusy * passed + stalled + SoFar
      BY <1>4, <2>1, <2>4
    <3>. QED BY <1>1, <1>2, <2>1, <3>1, <3>2
  <2>5. CASE at # "working" /\ ~beatDue
    <3>1. age <= sinceBeat /\ sinceBeat + 1 <= BeatPeriod /\ sinceBeat \in Nat
      BY <2>1, <2>5, <1>1 DEF FreshUntilDue, TypeOK
    <3>2. age' <= BeatPeriod
      BY <1>1, <2>1, <3>1
    <3>3. age' \in Nat
      BY <1>1, <2>1
    <3>. QED BY ONLY <1>1, <2>1, <2>2, <2>3, <3>2, <3>3, AddUp
  <2>6. CASE at \in Calls /\ beatDue
    <3>1. stalled' = stalled + 1 \/ (stalled' = AlertAfter /\ BeatPeriod >= 1)
      BY <1>1, <1>7, <2>6, BoundsAssumption DEF Tick, TypeOK
    <3>2. CASE stalled' = stalled + 1
      <4>1. SoFar' = SoFar
        BY <1>7, <2>6 DEF Tick, SoFar, Calls
      <4>2. age <= BeatPeriod + MaxBusy * passed + stalled + SoFar
        BY <1>4, <2>1
      <4>. QED BY <1>1, <1>2, <2>1, <3>2, <4>1, <4>2
    <3>3. CASE stalled' = AlertAfter /\ BeatPeriod >= 1
      <4>1. age' <= BeatPeriod + stalled'
        BY <1>1, <2>1, <3>3
      <4>2. age' \in Nat
        BY <1>1, <2>1
      <4>. QED BY ONLY <1>1, <2>1, <2>2, <2>3, <4>1, <4>2, AddUp
    <3>. QED BY <3>1, <3>2, <3>3
  <2>. QED BY <1>7, <2>4, <2>5, <2>6 DEF Tick, Ready, Calls
<1>8. CASE Boot \/ Beat
  <2>1. age' = 0 /\ passed' = 0 /\ stalled' = 0 /\ SoFar' \in Nat
    BY <1>1, <1>8 DEF Boot, Beat, SoFar
  <2>2. age' \in Nat /\ stalled' \in Nat /\ SoFar' \in Nat /\ age' <= BeatPeriod
    BY <1>1, <2>1
  <2>3. MaxBusy * passed' \in Nat
    BY <1>3, <2>1
  <2>. QED BY ONLY <1>1, <2>2, <2>3, AddUp
<1>9. ASSUME NEW i \in Imports, Arrive(i) PROVE Same
  BY <1>9 DEF Arrive, SoFar, history
<1>10. CASE Signal \/ CountTick
  BY <1>5, <1>10 DEF Signal, CountTick, SoFar, history
<1>11. CASE Finish /\ ~AckFails
  BY <1>5, <1>11, FinishKeepsTime DEF SoFar
<1>12. CASE Die \/ Leave \/ AckFails
  BY <1>12 DEF Die, Leave, AckFails, Gone
<1>13. CASE UNCHANGED vars
  BY <1>5, <1>13 DEF vars, SoFar
<1>. QED
  BY <1>5, <1>6, <1>7, <1>8, <1>9, <1>10, <1>11, <1>12, <1>13 DEF Next

LEMMA InvariantHolds == Spec => []IInv
<1>1. Init => IInv
  <2>. SUFFICES ASSUME Init PROVE IInv
    OBVIOUS
  <2>1. beatDue \in BOOLEAN /\ countDue \in BOOLEAN /\ stopping \in BOOLEAN
    BY Zenon DEF Init
  <2>2. TypeOK
    BY <2>1, BoundsAssumption DEF Init, TypeOK, Points
  <2>. QED
    BY <2>2 DEF Init, IInv, OneInHand, Holding, FreshUntilDue, DueAgesByDeliveries, SoFar
<1>2. IInv /\ [Next]_vars => IInv'
  BY TypeStep, OneInHandStep, FreshStep, DueStep DEF IInv
<1>. QED BY <1>1, <1>2, PTL DEF Spec

------------------------------------------------------------------------------
\* The theorems

\* The loop keeps its types and holds at most one delivery.
THEOREM TypeCorrect == Spec => [](TypeOK /\ OneInHand)
<1>1. IInv => TypeOK /\ OneInHand
  BY DEF IInv
<1>. QED BY <1>1, InvariantHolds, PTL

\* The alert on a missing heartbeat accuses a living worker only if deliveries
\* chosen over the due heartbeat, and calls without a deadline that stalled under
\* it, fill the time it tolerates.
THEOREM AlertNeedsStarvation == Spec => []AlertMeansStarved
<1>1. ASSUME IInv PROVE AlertMeansStarved
  <2>. USE <1>1, BoundsAssumption DEF IInv, TypeOK
  <2>. SUFFICES ASSUME at # "down", age > AlertAfter
                PROVE  BeatPeriod + MaxBusy * (passed + 1) + stalled > AlertAfter
    BY DEF AlertMeansStarved
  <2>1. MaxBusy * passed \in Nat /\ MaxBusy * (passed + 1) = MaxBusy * passed + MaxBusy
    BY OneMoreDelivery
  <2>2. CASE passed < MaxPassed \/ MaxBusy = 0
    BY <2>1, <2>2 DEF DueAgesByDeliveries, SoFar
  <2>3. CASE passed = MaxPassed /\ MaxBusy # 0
    BY <2>1, <2>3, HistoryAssumption
  <2>. QED BY <2>2, <2>3
<1>. QED BY <1>1, InvariantHolds, PTL

\* In numbers: if K deliveries at their longest, and stalls of D altogether, fit into
\* what the alert tolerates beyond the period of the ticker, an alert with no more
\* stalling means that select chose at least K deliveries while the heartbeat was
\* due. With 10 s, 60 s and Process at most 10 s those are five in a row if
\* PostgreSQL answers at once, and three if it took up to 20 s in the meantime.
THEOREM AlertMeansPassedOver ==
  ASSUME NEW K \in Nat, NEW D \in Nat, BeatPeriod + MaxBusy * K + D <= AlertAfter
  PROVE  Spec => [](at # "down" /\ age > AlertAfter /\ stalled <= D => passed >= K)
<1>1. IInv /\ AlertMeansStarved =>
        (at # "down" /\ age > AlertAfter /\ stalled <= D => passed >= K)
  <2>. SUFFICES ASSUME IInv, BeatPeriod + MaxBusy * (passed + 1) + stalled > AlertAfter,
                       stalled <= D, passed < K
                PROVE  FALSE
    BY BoundsAssumption DEF AlertMeansStarved, IInv, TypeOK
  <2>. USE BoundsAssumption DEF IInv, TypeOK
  <2>1. MaxBusy * (passed + 1) <= MaxBusy * K
    BY MoreDeliveriesTakeLonger
  <2>2. MaxBusy * K \in Nat /\ MaxBusy * (passed + 1) \in Nat
    BY OneMoreDelivery
  <2>. QED BY <2>1, <2>2
<1>. QED BY <1>1, InvariantHolds, AlertNeedsStarvation, PTL
==============================================================================
