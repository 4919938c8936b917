---------------------------- MODULE PipelineProofs ----------------------------
(***************************************************************************)
(* Proofs about the composition of outbox, RabbitMQ and workers, and of the   *)
(* whole system with the create in front of them, for any number of imports, *)
(* keys, publishers, workers, copies and faults. The workers' part rests on  *)
(* ImportWorkerProofs. What is needed of the outbox and of the create is     *)
(* proved again, in short, for their instances O and C: the prover cannot    *)
(* cite the lemmas of a module that is instantiated under a name.           *)
(***************************************************************************)
EXTENDS System, ImportWorkerProofs

------------------------------------------------------------------------------
\* The invariant of the outbox (its parts are explained in OutboxProofs)

RowTyping ==
  /\ O!TypeOK
  /\ \A p \in Publishers: ppc[p] \in {"sent", "accepted", "mark", "release"} =>
       current[p] \in batch[p]

RowsStored == limbo \subseteq stored /\ \A p \in Publishers: batch[p] \subseteq stored

RowsConfirmed ==
  \A p \in Publishers: ppc[p] \in {"accepted", "mark"} => accepted[current[p]] > 0

RowsHeld ==
  \A p \in Publishers: \A e \in batch[p] \ lapsed:
    lockedBy[e] = p /\ e \notin published /\ e \notin stale

RowsOnTheirWay ==
  \A e \in Imports \ (lapsed \union unsure): accepted[e] > 0 =>
    \/ e \in published
    \/ /\ lockedBy[e] # NoOne
       /\ \A p \in Publishers:
            e \in batch[p] => current[p] = e /\ ppc[p] \in {"accepted", "mark"}

\* Until a publisher loses a row of its batch, it is the only one that works on it.
RowLeases ==
  /\ \A p \in Publishers:
       /\ ppc[p] \in {"down", "idle"} => batch[p] = {}
       /\ overdue[p] \union robbed[p] \subseteq batch[p]
       /\ \A e \in batch[p] \ (overdue[p] \union robbed[p]):
            e \in published \/ (lockedBy[e] = p /\ e \notin stale)
  /\ \A e \in published: lockedBy[e] = NoOne
  /\ O!ExclusiveClaim

RowInv ==
  /\ RowTyping /\ RowsStored /\ RowsConfirmed /\ RowsHeld /\ RowsOnTheirWay
  /\ stale \subseteq lapsed /\ limbo \subseteq unsure
  /\ O!PublishedWasAccepted /\ O!SingleCopyUnlessDisturbed

------------------------------------------------------------------------------
\* What ties the two components to each other

\* Copies RabbitMQ accepted are messages published, counted to two.
Copied ==
  \A i \in Imports:
    /\ accepted[i] > 0 => <<i, 1>> \in sent
    /\ <<i, 1>> \in sent => accepted[i] > 0
    /\ <<i, 2>> \in sent => accepted[i] > 1

\* The workers know only imports that were committed.
Committed ==
  /\ \A m \in sent: ImportOf(m) \in stored
  /\ requeued \subseteq stored
  /\ \A i \in Imports: effects[i] > 0 => i \in stored

PipeInv == IInv /\ RowInv /\ Copied /\ Committed

------------------------------------------------------------------------------
\* The outbox keeps its invariant

LEMMA ClaimTakesClaimable ==
  \A p \in Publishers: \A rows \in O!Claims(p): \A e \in rows:
    e \in stored /\ e \notin published /\ (lockedBy[e] = NoOne \/ e \in stale)
BY DEF O!Claims, O!Oldest, O!Claimable

LEMMA RowStep == RowInv /\ O!Next => RowInv'
<1>. SUFFICES ASSUME RowInv, O!Next PROVE RowInv'
  OBVIOUS
<1>. USE PublishersAssumption, BoundsAssumption
     DEF RowInv, RowTyping, O!TypeOK, O!PCs, RowsStored, RowsConfirmed, RowsHeld, RowsOnTheirWay,
     O!PublishedWasAccepted, O!SingleCopyUnlessDisturbed, O!table, O!broker, O!history, O!lost,
     O!Fault
<1>1. ASSUME NEW e \in Imports, O!StoreEvent(e) PROVE RowInv'
  BY <1>1 DEF O!StoreEvent
<1>2. ASSUME NEW e \in Imports, O!LeaseExpires(e) PROVE RowInv'
  BY <1>2 DEF O!LeaseExpires
<1>3. ASSUME NEW e \in Imports, O!LateAccept(e) PROVE RowInv'
  BY <1>3 DEF O!LateAccept, O!Enqueue
<1>4. ASSUME NEW e \in Imports, O!LateDrop(e) PROVE RowInv'
  BY <1>4 DEF O!LateDrop
<1>5. ASSUME NEW p \in Publishers, O!Start(p) PROVE RowInv'
  BY <1>5 DEF O!Start
<1>6. ASSUME NEW p \in Publishers, O!ClaimOutbox(p) PROVE RowInv'
  BY <1>6, ClaimTakesClaimable DEF O!ClaimOutbox, O!Lock
<1>7. ASSUME NEW p \in Publishers, O!BeginPublish(p) PROVE RowInv'
  BY <1>7 DEF O!BeginPublish
<1>8. ASSUME NEW p \in Publishers, O!ReceiveConfirm(p) PROVE RowInv'
  BY <1>8 DEF O!ReceiveConfirm
<1>9. ASSUME NEW p \in Publishers, O!MarkOutboxPublished(p) PROVE RowInv'
  BY <1>9 DEF O!MarkOutboxPublished, O!MarkRow, O!Unlock, O!FinishRow
<1>10. ASSUME NEW p \in Publishers, O!ReleaseOutbox(p) PROVE RowInv'
  BY <1>10 DEF O!ReleaseOutbox, O!Unlock, O!DropBatch
<1>11. ASSUME NEW p \in Publishers, O!BrokerAccept(p) PROVE RowInv'
  BY <1>11 DEF O!BrokerAccept, O!Enqueue
<1>12. ASSUME NEW p \in Publishers, O!ClaimLost(p) PROVE RowInv'
  BY <1>12, ClaimTakesClaimable DEF O!ClaimLost, O!Lock
<1>13. ASSUME NEW p \in Publishers, O!MarkFails(p) PROVE RowInv'
  BY <1>13 DEF O!MarkFails, O!MarkRow, O!Unlock, O!AbandonBatch, O!DropBatch
<1>14. ASSUME NEW p \in Publishers, O!ReleaseFails(p) PROVE RowInv'
  BY <1>14 DEF O!ReleaseFails, O!AbandonBatch, O!DropBatch
<1>15. ASSUME NEW p \in Publishers, O!BrokerNack(p) PROVE RowInv'
  BY <1>15 DEF O!BrokerNack
<1>16. ASSUME NEW p \in Publishers, O!LoseConnection(p) PROVE RowInv'
  BY <1>16 DEF O!LoseConnection, O!CutOff
<1>17. ASSUME NEW p \in Publishers, O!Stop(p) PROVE RowInv'
  BY <1>17 DEF O!Stop, O!CutOff, O!DropBatch
<1>. HIDE DEF RowInv
<1>. QED
  BY <1>1, <1>2, <1>3, <1>4, <1>5, <1>6, <1>7, <1>8, <1>9, <1>10, <1>11,
     <1>12, <1>13, <1>14, <1>15, <1>16, <1>17
     DEF O!Next, O!PublisherStep, O!PublisherFault

LEMMA RowLeasesStep == RowInv /\ RowLeases /\ O!Next => RowLeases'
<1>. SUFFICES ASSUME RowInv, RowLeases, O!Next PROVE RowLeases'
  OBVIOUS
<1>. RowTyping
  BY DEF RowInv
<1>. USE PublishersAssumption
     DEF RowTyping, O!TypeOK, O!PCs, RowLeases, O!ExclusiveClaim, O!table, O!history, O!lost
<1>1. ASSUME NEW e \in Imports, O!LeaseExpires(e) PROVE RowLeases'
  BY <1>1 DEF O!LeaseExpires
<1>2. ASSUME NEW p \in Publishers, O!ClaimOutbox(p) PROVE RowLeases'
  BY <1>2, ClaimTakesClaimable DEF O!ClaimOutbox, O!Lock
<1>3. ASSUME NEW p \in Publishers, O!ClaimLost(p) PROVE RowLeases'
  BY <1>3, ClaimTakesClaimable DEF O!ClaimLost, O!Lock
<1>4. ASSUME NEW p \in Publishers, O!MarkOutboxPublished(p) PROVE RowLeases'
  BY <1>4 DEF O!MarkOutboxPublished, O!MarkRow, O!Unlock, O!FinishRow
<1>5. ASSUME NEW p \in Publishers, O!MarkFails(p) PROVE RowLeases'
  BY <1>5 DEF O!MarkFails, O!MarkRow, O!Unlock, O!AbandonBatch, O!DropBatch
<1>6. ASSUME NEW p \in Publishers, O!ReleaseOutbox(p) PROVE RowLeases'
  BY <1>6 DEF O!ReleaseOutbox, O!Unlock, O!DropBatch, O!Victim
<1>7. ASSUME NEW p \in Publishers, O!ReleaseFails(p) PROVE RowLeases'
  BY <1>7 DEF O!ReleaseFails, O!AbandonBatch, O!DropBatch
<1>8. ASSUME NEW p \in Publishers, O!Stop(p) PROVE RowLeases'
  BY <1>8 DEF O!Stop, O!DropBatch
<1>9. CASE /\ UNCHANGED <<published, lockedBy, stale, batch, overdue, robbed>>
           /\ \A p \in Publishers: ppc'[p] \in {"down", "idle"} => ppc[p] \in {"down", "idle"}
  BY <1>9
<1>10. \/ /\ UNCHANGED <<published, lockedBy, stale, batch, overdue, robbed>>
          /\ \A p \in Publishers: ppc'[p] \in {"down", "idle"} => ppc[p] \in {"down", "idle"}
       \/ \E e \in Imports: O!LeaseExpires(e)
       \/ \E p \in Publishers:
            \/ O!ClaimOutbox(p) \/ O!ClaimLost(p) \/ O!MarkOutboxPublished(p) \/ O!MarkFails(p)
            \/ O!ReleaseOutbox(p) \/ O!ReleaseFails(p) \/ O!Stop(p)
  BY DEF O!Next, O!PublisherStep, O!PublisherFault, O!StoreEvent, O!LateAccept, O!LateDrop,
     O!Start, O!BeginPublish, O!ReceiveConfirm, O!BrokerAccept, O!BrokerNack, O!LoseConnection
<1>. QED BY <1>1, <1>2, <1>3, <1>4, <1>5, <1>6, <1>7, <1>8, <1>9, <1>10

------------------------------------------------------------------------------
\* A step of the composition is a step of each component or leaves it alone.

\* What the publishers' side does is a step of the outbox, and its faults count.
LEMMA PublisherSideStep == PublisherSide => O!Next /\ UNCHANGED worker
BY DEF PublisherSide, O!Next

LEMMA WorkerSideStep == WorkerSide => Next /\ UNCHANGED outbox
BY DEF WorkerSide, Next

\* The two meet where RabbitMQ accepts a copy: an event of a stored import.
Meet(i) == O!Enqueue(i) /\ Enqueue(i) /\ UNCHANGED <<stored, published, lapsed, unsure>>

LEMMA MeetStep ==
  ASSUME PipeInv, (\E p \in Publishers: Accepted(p)) \/ (\E i \in Imports: AcceptedLate(i))
  PROVE  O!Next /\ Next /\ \E i \in stored: i \in Imports /\ Meet(i)
<1>1. ASSUME NEW p \in Publishers, Accepted(p)
      PROVE  O!Next /\ \E i \in stored: i \in Imports /\ Meet(i)
  <2>1. O!BrokerAccept(p) /\ Enqueue(current[p])
    BY <1>1 DEF Accepted
  <2>2. current[p] \in stored /\ current[p] \in Imports
    BY <2>1 DEF O!BrokerAccept, PipeInv, RowInv, RowTyping, O!TypeOK, RowsStored
  <2>. QED BY <2>1, <2>2 DEF Meet, O!Next, O!BrokerAccept, O!table, O!history
<1>2. ASSUME NEW i \in Imports, AcceptedLate(i)
      PROVE  O!Next /\ \E j \in stored: j \in Imports /\ Meet(j)
  <2>1. O!LateAccept(i) /\ Enqueue(i)
    BY <1>2 DEF AcceptedLate
  <2>2. i \in stored
    BY <2>1 DEF O!LateAccept, PipeInv, RowInv, RowsStored
  <2>. QED BY <2>1, <2>2 DEF Meet, O!Next, O!LateAccept, O!table, O!history
<1>3. ASSUME NEW i \in Imports, Enqueue(i) PROVE Next
  BY <1>3 DEF Enqueue, Next
<1>. QED BY <1>1, <1>2, <1>3 DEF Meet

\* The invariants of a component do not depend on the other's faults.
LEMMA WorkerFrame ==
  ASSUME IInv, UNCHANGED worker, faults' \in 0..MaxFaults
  PROVE  IInv'
BY DEF worker, queues, process, history, IInv, Typing, TypeOK, Occupied, Safe, Hands, InHand,
   Places, Numbered, Confirmed, ProcessedBeforeSettled, Findable, Found, Open, OneEffect, Spent,
   Undisturbed

LEMMA OutboxFrame ==
  ASSUME RowInv, UNCHANGED outbox, faults' \in 0..MaxFaults
  PROVE  RowInv'
BY DEF outbox, RowInv, RowTyping, O!TypeOK, RowsStored, RowsConfirmed, RowsHeld, RowsOnTheirWay,
   O!PublishedWasAccepted, O!SingleCopyUnlessDisturbed

\* The composition keeps the invariants of both components.
LEMMA ComponentsStep == PipeInv /\ [PipeNext]_pvars => IInv' /\ RowInv'
<1>. SUFFICES ASSUME PipeInv, [PipeNext]_pvars PROVE IInv' /\ RowInv'
  OBVIOUS
<1>1. IInv' => faults' \in 0..MaxFaults
  BY DEF IInv, Typing, TypeOK
<1>2. RowInv' => faults' \in 0..MaxFaults
  BY DEF RowInv, RowTyping, O!TypeOK
<1>3. Next => IInv'
  BY NextIInv DEF PipeInv
<1>4. O!Next => RowInv'
  BY RowStep DEF PipeInv
<1>5. CASE PublisherSide
  BY <1>2, <1>4, <1>5, PublisherSideStep, WorkerFrame DEF PipeInv
<1>6. CASE WorkerSide
  BY <1>1, <1>3, <1>6, WorkerSideStep, OutboxFrame DEF PipeInv
<1>7. CASE (\E p \in Publishers: Accepted(p)) \/ (\E i \in Imports: AcceptedLate(i))
  BY <1>3, <1>4, <1>7, MeetStep
<1>8. CASE UNCHANGED pvars
  <2>1. UNCHANGED worker /\ UNCHANGED outbox /\ UNCHANGED faults
    BY <1>8 DEF pvars
  <2>2. faults' \in 0..MaxFaults
    BY <2>1 DEF PipeInv, IInv, Typing, TypeOK
  <2>. QED BY <2>1, <2>2, WorkerFrame, OutboxFrame DEF PipeInv
<1>. QED BY <1>5, <1>6, <1>7, <1>8 DEF PipeNext
------------------------------------------------------------------------------
\* The ties hold

\* By itself the publishers' side neither accepts copies nor takes back a row.
LEMMA PublisherSideKeeps == PublisherSide => accepted' = accepted /\ stored \subseteq stored'
BY DEF PublisherSide, O!StoreEvent, O!LeaseExpires, O!LateDrop, O!Start, O!PublisherStep,
   O!ClaimOutbox, O!BeginPublish, O!ReceiveConfirm, O!MarkOutboxPublished, O!ReleaseOutbox,
   O!PublisherFault, O!ClaimLost, O!MarkFails, O!ReleaseFails, O!BrokerNack, O!LoseConnection,
   O!Stop, O!table, O!broker

\* By itself the workers' side publishes nothing, confirms only what a worker has
\* in hand, and requeues only what was delivered.
LEMMA WorkerSideKeeps ==
  WorkerSide =>
    /\ sent' = sent
    /\ effects' = effects \/ \E w \in Workers: ProcessSucceeds(w)
    /\ requeued' = requeued
       \/ \E w \in Workers: requeued' = requeued \union {ImportOf(m): m \in unacked[w]}
BY DEF WorkerSide, Step, Disturbance, Deliver, Boot, Exit, Gone, Requeue, Take, StartProcessing,
   ProcessSucceeds, ProcessFails, CompleteSucceeded, CompleteDeadLetter, Ack, Nack, StartFails,
   CompleteFails, LoseConnection, Terminate, Crash, queues, history

\* What a worker processes was committed by the API.
LEMMA InHandIsCommitted ==
  ASSUME PipeInv, NEW w \in Workers, cur[w] \in Msgs
  PROVE  ImportOf(cur[w]) \in stored
BY DEF PipeInv, Committed, IInv, Safe, Hands, InHand, Places

LEMMA TiesStep == PipeInv /\ [PipeNext]_pvars => Copied' /\ Committed'
<1>. SUFFICES ASSUME PipeInv, [PipeNext]_pvars PROVE Copied' /\ Committed'
  OBVIOUS
<1>. USE DEF PipeInv, Copied, Committed
<1>1. CASE PublisherSide
  BY <1>1, PublisherSideKeeps DEF PublisherSide, worker, queues, history
<1>2. CASE WorkerSide
  <2>1. UNCHANGED <<stored, accepted, sent>>
    BY <1>2, WorkerSideKeeps DEF WorkerSide, outbox
  <2>2. requeued' \subseteq stored
    BY <1>2, WorkerSideKeeps DEF IInv, Safe, Places
  <2>3. \A i \in Imports: effects'[i] > 0 => i \in stored
    <3>1. ASSUME NEW w \in Workers, ProcessSucceeds(w), NEW i \in Imports, effects'[i] > 0
          PROVE  i \in stored
      <4>1. cur[w] \in Msgs
        BY <3>1 DEF ProcessSucceeds, IInv, Typing, Occupied, Processing
      <4>2. i # ImportOf(cur[w]) => effects'[i] = effects[i]
        BY <3>1 DEF ProcessSucceeds, IInv, Typing, TypeOK
      <4>. QED BY <3>1, <4>1, <4>2, InHandIsCommitted
    <3>. QED BY <1>2, <3>1, WorkerSideKeeps
  <2>. QED BY <2>1, <2>2, <2>3
<1>3. ASSUME NEW i \in Imports, i \in stored, Meet(i) PROVE Copied' /\ Committed'
  <2>1. PICK n \in 1..MaxCopies: Publish(i, n)
    BY <1>3 DEF Meet, Enqueue
  <2>2. /\ sent' = sent \union {<<i, n>>} /\ UNCHANGED <<requeued, effects, stored>>
        /\ n > 1 => <<i, n - 1>> \in sent
    BY <1>3, <2>1 DEF Publish, history, Meet
  <2>3. /\ accepted' \in [Imports -> 0..2]
        /\ \A j \in Imports \ {i}: accepted'[j] = accepted[j]
        /\ accepted'[i] = IF accepted[i] = 0 THEN 1 ELSE 2
        /\ accepted[i] \in 0..2
    BY <1>3 DEF Meet, O!Enqueue, RowInv, RowTyping, O!TypeOK
  <2>4. n > 1 => accepted[i] > 0
    <3>. DEFINE k == n - 1
    <3>1. MaxCopies \in Nat /\ n \in Nat
      BY BoundsAssumption
    <3>2. n > 1 => k \in 1..MaxCopies
      BY <3>1
    <3>3. n > 1 => <<i, k>> \in sent
      BY <2>2
    <3>. HIDE DEF k
    <3>4. n > 1 => <<i, 1>> \in sent \/ <<i, 2>> \in sent
      <4>1. n > 1 => k = 1 \/ k \in 2..MaxCopies
        BY <3>1, <3>2
      <4>. QED BY <3>3, <4>1 DEF IInv, Safe, Numbered
    <3>. QED BY <2>3, <3>4
  <2>5. Copied'
    <3>. SUFFICES ASSUME NEW j \in Imports
                  PROVE  /\ accepted'[j] > 0 => <<j, 1>> \in sent'
                         /\ <<j, 1>> \in sent' => accepted'[j] > 0
                         /\ <<j, 2>> \in sent' => accepted'[j] > 1
      OBVIOUS
    <3>1. n = 1 \/ n > 1
      BY BoundsAssumption
    <3>2. CASE j # i
      BY <2>2, <2>3, <3>2
    <3>3. CASE j = i /\ n = 1
      <4>1. accepted'[i] > 0 /\ (accepted[i] > 1 => accepted'[i] > 1)
        BY <2>3
      <4>2. sent' = sent \union {<<i, 1>>} /\ <<i, 2>> # <<i, 1>>
        BY <2>2, <3>3
      <4>. QED BY <3>3, <4>1, <4>2
    <3>4. CASE j = i /\ n > 1
      BY <2>2, <2>3, <2>4, <3>4
    <3>. QED BY <3>1, <3>2, <3>3, <3>4
  <2>6. Committed'
    BY <1>3, <2>2 DEF ImportOf
  <2>. QED BY <2>5, <2>6
<1>4. CASE (\E p \in Publishers: Accepted(p)) \/ (\E i \in Imports: AcceptedLate(i))
  <2>1. PICK i \in stored: i \in Imports /\ Meet(i)
    BY <1>4, MeetStep
  <2>. QED BY <2>1, <1>3
<1>5. CASE UNCHANGED pvars
  BY <1>5 DEF pvars, outbox, worker, queues, history
<1>. QED BY <1>1, <1>2, <1>4, <1>5 DEF PipeNext

------------------------------------------------------------------------------
LEMMA InitPipeInv == PipeInit => PipeInv
<1>. SUFFICES ASSUME PipeInit PROVE PipeInv
  OBVIOUS
<1>1. IInv
  BY InitIInv DEF PipeInit
<1>2. RowInv
  BY PublishersAssumption, BoundsAssumption
     DEF PipeInit, O!Init, RowInv, RowTyping, O!TypeOK, O!PCs, RowsStored, RowsConfirmed, RowsHeld,
         RowsOnTheirWay, O!PublishedWasAccepted, O!SingleCopyUnlessDisturbed
<1>3. Copied /\ Committed
  BY DEF PipeInit, O!Init, Init, Copied, Committed
<1>. QED BY <1>1, <1>2, <1>3 DEF PipeInv

LEMMA SpecPipeInv == PipeSpec => []PipeInv
<1>1. PipeInv /\ [PipeNext]_pvars => PipeInv'
  BY ComponentsStep, TiesStep DEF PipeInv
<1>. QED BY <1>1, InitPipeInv, PTL DEF PipeSpec

\* A second effect at the integration is traced to the outbox (a lease that ran
\* out, a publish of unknown outcome) or to a delivery RabbitMQ took back: neither
\* ClaimOutbox nor processDelivery repeats work that goes undisturbed.
THEOREM SecondEffectsHaveACause == PipeSpec => []SecondEffectHasACause
<1>1. PipeInv => SecondEffectHasACause
  <2>. SUFFICES ASSUME PipeInv, NEW i \in Imports, effects[i] > 1, i \notin requeued
                PROVE  i \in lapsed \union unsure
    BY DEF SecondEffectHasACause
  <2>1. <<i, 2>> \in sent
    BY DEF PipeInv, IInv, OneEffect, Undisturbed, Typing, TypeOK
  <2>2. accepted[i] > 1
    BY <2>1 DEF PipeInv, Copied
  <2>. QED BY <2>2 DEF PipeInv, RowInv, O!SingleCopyUnlessDisturbed
<1>. QED BY <1>1, SpecPipeInv, PTL
------------------------------------------------------------------------------
\* From end to end: the system implements the life of an import. To the outside,
\* a step accepts, confirms, finishes or buries one import, or does nothing.
THEOREM SystemImplementsLifecycle == PipeSpec => ImplementsLifecycle
<1>1. PipeInit => Lifecycle!Init
  BY DEF PipeInit, O!Init, Init, Lifecycle!Init
<1>2. ASSUME PipeInv, [PipeNext]_pvars PROVE [Lifecycle!Next]_(Lifecycle!vars)
  <2>. USE <1>2 DEF PipeInv, IInv, Typing, Occupied, Processing
  <2>1. CASE UNCHANGED <<stored, effects, acked, dlq>>
    BY <2>1 DEF Lifecycle!vars
  <2>2. ASSUME NEW i \in Imports, O!StoreEvent(i), UNCHANGED worker PROVE Lifecycle!Accept(i)
    BY <2>2 DEF O!StoreEvent, worker, queues, history, Lifecycle!Accept
  <2>3. ASSUME NEW w \in Workers, ProcessSucceeds(w), UNCHANGED stored
        PROVE  \E i \in Imports: Lifecycle!Confirm(i)
    <3>1. cur[w] \in Msgs /\ ImportOf(cur[w]) \in stored /\ ImportOf(cur[w]) \in Imports
      BY <2>3, InHandIsCommitted, ImportOfTyped DEF ProcessSucceeds
    <3>2. /\ effects \in [Imports -> 0..2]
          /\ effects' = [effects EXCEPT ![ImportOf(cur[w])] = IF @ = 0 THEN 1 ELSE 2]
      BY <2>3 DEF ProcessSucceeds, TypeOK
    <3>3. {j \in Imports: effects'[j] > 0} = {j \in Imports: effects[j] > 0} \union {ImportOf(cur[w])}
      BY <3>1, <3>2
    <3>. QED BY <2>3, <3>1, <3>3 DEF ProcessSucceeds, queues, Lifecycle!Confirm
  <2>4. ASSUME NEW w \in Workers, Ack(w), acked' = acked \union {cur[w]}, UNCHANGED stored
        PROVE  \E i \in Imports: Lifecycle!Finish(i)
    <3>1. ImportOf(cur[w]) \in Imports /\ effects[ImportOf(cur[w])] > 0
      BY <2>4, ImportOfTyped DEF Ack, Confirmed
    <3>2. {ImportOf(m): m \in acked'} = {ImportOf(m): m \in acked} \union {ImportOf(cur[w])}
      BY <2>4
    <3>. QED BY <2>4, <3>1, <3>2 DEF Ack, history, Lifecycle!Finish
  <2>5. ASSUME NEW w \in Workers, Nack(w), dlq' = dlq \union {cur[w]}, UNCHANGED stored
        PROVE  \E i \in Imports: Lifecycle!Bury(i)
    <3>1. ImportOf(cur[w]) \in Imports /\ ImportOf(cur[w]) \in stored
      BY <2>5, InHandIsCommitted, ImportOfTyped DEF Nack
    <3>2. {ImportOf(m): m \in dlq'} = {ImportOf(m): m \in dlq} \union {ImportOf(cur[w])}
      BY <2>5
    <3>. QED BY <2>5, <3>1, <3>2 DEF Nack, history, Lifecycle!Bury
  <2>6. ASSUME NEW w \in Workers, Ack(w) \/ Nack(w), UNCHANGED stored
        PROVE  Lifecycle!Next \/ UNCHANGED <<stored, effects, acked, dlq>>
    <3>1. acked' = acked \/ acked' = acked \union {cur[w]}
      BY <2>6 DEF Ack, Nack, Settled
    <3>2. dlq' = dlq \/ dlq' = dlq \union {cur[w]}
      BY <2>6 DEF Ack, Nack, Settled
    <3>3. effects' = effects /\ (acked' = acked \/ dlq' = dlq)
      BY <2>6 DEF Ack, Nack, history
    <3>4. CASE Ack(w)
      BY <2>4, <2>6, <3>1, <3>3, <3>4 DEF Ack, Lifecycle!Next
    <3>5. CASE Nack(w)
      BY <2>5, <2>6, <3>2, <3>3, <3>5 DEF Nack, Lifecycle!Next
    <3>. QED BY <2>6, <3>4, <3>5
  <2>7. CASE PublisherSide
    <3>1. UNCHANGED <<effects, acked, dlq>>
      BY <2>7 DEF PublisherSide, worker, queues, history
    <3>2. stored' = stored \/ \E i \in Imports: O!StoreEvent(i)
      BY <2>7 DEF PublisherSide, O!LeaseExpires, O!LateDrop, O!Start, O!PublisherStep,
         O!ClaimOutbox, O!BeginPublish, O!ReceiveConfirm, O!MarkOutboxPublished,
         O!ReleaseOutbox, O!PublisherFault, O!ClaimLost, O!MarkFails, O!ReleaseFails,
         O!BrokerNack, O!LoseConnection, O!Stop, O!table
    <3>. QED BY <2>1, <2>2, <2>7, <3>1, <3>2 DEF PublisherSide, Lifecycle!Next
  <2>8. CASE WorkerSide
    <3>1. stored' = stored
      BY <2>8 DEF WorkerSide, outbox
    <3>2. \/ UNCHANGED <<effects, acked, dlq>>
          \/ \E w \in Workers: ProcessSucceeds(w) \/ Ack(w) \/ Nack(w)
      BY <2>8 DEF WorkerSide, Step, Disturbance, Deliver, Boot, Exit, Gone, Take,
         StartProcessing, ProcessFails, CompleteSucceeded, CompleteDeadLetter, StartFails,
         CompleteFails, LoseConnection, Terminate, Crash, queues, history
    <3>. QED BY <2>1, <2>3, <2>6, <3>1, <3>2 DEF Lifecycle!Next
  <2>9. ASSUME NEW i \in Imports, Meet(i) PROVE UNCHANGED <<stored, effects, acked, dlq>>
    BY <2>9 DEF Meet, Enqueue, Publish, history
  <2>10. CASE (\E p \in Publishers: Accepted(p)) \/ (\E i \in Imports: AcceptedLate(i))
    BY <2>1, <2>9, <2>10, MeetStep
  <2>11. CASE UNCHANGED pvars
    BY <2>1, <2>11 DEF pvars, outbox, worker, queues, history
  <2>. QED BY <2>7, <2>8, <2>10, <2>11 DEF PipeNext
<1>. QED BY <1>1, <1>2, SpecPipeInv, PTL DEF PipeSpec, ImplementsLifecycle, Lifecycle!Spec
------------------------------------------------------------------------------
\* The deployed single worker: no exception for lost connections

\* What RabbitMQ takes back from the only worker waits until the worker is done.
Kept == \A w \in Workers: InHand(w) \subseteq sent \ acked

LoneInv == Kept /\ \A i \in Imports: Found(i)

LEMMA KeptStep ==
  ASSUME \A v, w \in Workers: v = w, PipeInv, Kept, Next
  PROVE  Kept'
<1>. USE NoMsgAssumption
     DEF PipeInv, IInv, Typing, TypeOK, Occupied, Safe, Hands, Places, Kept, InHand,
         process, queues, history
<1>1. ASSUME NEW i \in Imports, NEW n \in 1..MaxCopies, Publish(i, n) PROVE Kept'
  BY <1>1 DEF Publish
<1>2. ASSUME NEW w \in Workers, NEW m \in Msgs, Deliver(w, m) \/ Take(w, m) PROVE Kept'
  BY <1>2 DEF Deliver, Take
<1>3. ASSUME NEW w \in Workers, Exit(w) \/ Crash(w) PROVE Kept'
  BY <1>3 DEF Exit, Crash, Gone
<1>4. ASSUME NEW w \in Workers, Ack(w) PROVE Kept'
  BY <1>4 DEF Ack, Settle, Settled
<1>5. ASSUME NEW w \in Workers, Nack(w) PROVE Kept'
  BY <1>5 DEF Nack, Settle
<1>6. CASE UNCHANGED <<sent, acked, held, cur>>
  BY <1>6
<1>. HIDE DEF Kept
<1>. QED
  BY <1>1, <1>2, <1>3, <1>4, <1>5, <1>6
     DEF Next, Step, Disturbance, Boot, StartProcessing, ProcessSucceeds, ProcessFails,
         CompleteSucceeded, CompleteDeadLetter, StartFails, CompleteFails, LoseConnection,
         Terminate

LEMMA LoneStep ==
  ASSUME \A v, w \in Workers: v = w, PipeInv, LoneInv, [PipeNext]_pvars
  PROVE  LoneInv'
<1>1. ASSUME Next PROVE LoneInv'
  <2>1. Kept'
    BY <1>1, KeptStep DEF LoneInv
  <2>2. ASSUME NEW i \in Imports PROVE InOpenHands(i)
    BY DEF LoneInv, Kept, InHand, InOpenHands, Open
  <2>3. ASSUME NEW i \in Imports PROVE Found(i)'
    BY <1>1, <2>2, FoundStays DEF LoneInv, PipeInv, IInv
  <2>. QED BY <2>1, <2>3 DEF LoneInv
<1>2. ASSUME UNCHANGED worker PROVE LoneInv'
  BY <1>2 DEF worker, queues, process, LoneInv, Kept, InHand, Found, Open
<1>3. Next \/ UNCHANGED worker
  BY PublisherSideStep, WorkerSideStep, MeetStep DEF PipeNext, pvars
<1>. QED BY <1>1, <1>2, <1>3

\* With one worker, as deployed, no committed import is lost, whatever crashes and
\* whichever connections close: it succeeded, its event is open (MarkOutboxPublished
\* closes it only after the confirm), or a message of it is not acknowledged.
THEOREM LoneWorkerLosesNothing ==
  ASSUME \A v, w \in Workers: v = w PROVE PipeSpec => []EveryImportIsAccountedFor
<1>1. PipeInit => LoneInv
  BY NoMsgAssumption DEF PipeInit, Init, LoneInv, Kept, InHand, Found
<1>2. PipeInv /\ LoneInv /\ [PipeNext]_pvars => LoneInv'
  BY LoneStep
<1>3. PipeInv /\ LoneInv => EveryImportIsAccountedFor
  <2>. SUFFICES ASSUME PipeInv, LoneInv, NEW i \in stored, status[i] # "SUCCEEDED",
                       i \in published
                PROVE  \E m \in sent \ acked: ImportOf(m) = i
    BY DEF EveryImportIsAccountedFor
  <2>1. i \in Imports /\ accepted[i] > 0
    BY DEF PipeInv, RowInv, RowTyping, O!TypeOK, O!PublishedWasAccepted
  <2>2. <<i, 1>> \in sent /\ ImportOf(<<i, 1>>) = i
    BY <2>1 DEF PipeInv, Copied, ImportOf
  <2>. QED BY <2>1, <2>2 DEF LoneInv, Found, Open
<1>. QED BY <1>1, <1>2, <1>3, SpecPipeInv, PTL DEF PipeSpec

------------------------------------------------------------------------------
\* What each component promises by itself holds in the composition

LEMMA WorkerOrFrame == PipeInv /\ [PipeNext]_pvars => Next \/ UNCHANGED worker
BY PublisherSideStep, WorkerSideStep, MeetStep DEF PipeNext, pvars

\* With the real outbox in front of them, the workers lose nothing and settle
\* nothing unconfirmed.
THEOREM PipeWorkersAreSafe == PipeSpec => [](NoSilentLoss /\ ProcessedBeforeSettled)
<1>1. PipeInv => NoSilentLoss /\ ProcessedBeforeSettled
  BY DEF PipeInv, IInv, Findable, Found, Open, NoSilentLoss
<1>. QED BY <1>1, SpecPipeInv, PTL

LEMMA PipeLeases == PipeSpec => []RowLeases
<1>1. PipeInit => RowLeases
  BY DEF PipeInit, O!Init, RowLeases, O!ExclusiveClaim
<1>2. PipeInv /\ RowLeases /\ [PipeNext]_pvars => RowLeases'
  <2>1. PipeInv /\ [PipeNext]_pvars => O!Next \/ UNCHANGED outbox
    BY PublisherSideStep, WorkerSideStep, MeetStep DEF PipeNext, pvars
  <2>2. PipeInv => RowInv
    BY DEF PipeInv
  <2>3. RowLeases /\ UNCHANGED outbox => RowLeases'
    BY DEF outbox, RowLeases, O!ExclusiveClaim
  <2>. QED BY <2>1, <2>2, <2>3, RowLeasesStep
<1>. QED BY <1>1, <1>2, SpecPipeInv, PTL DEF PipeSpec

\* With the real workers behind it, and RabbitMQ's faults shared with them, the
\* outbox closes no row early, lets two publishers work on a row only after one of
\* them has lost it, and copies an event only with a cause.
THEOREM PipeOutboxIsSafe ==
  PipeSpec => [](O!PublishedWasAccepted /\ O!ExclusiveClaim /\ O!SingleCopyUnlessDisturbed)
<1>1. PipeInv => O!PublishedWasAccepted /\ O!SingleCopyUnlessDisturbed
  BY DEF PipeInv, RowInv
<1>2. RowLeases => O!ExclusiveClaim
  BY DEF RowLeases
<1>. QED BY <1>1, <1>2, PipeLeases, SpecPipeInv, PTL

LEMMA PipeSomewhere == PipeSpec => [](InHandExactly /\ Somewhere)
<1>1. PipeInit => InHandExactly /\ Somewhere
  BY NoMsgAssumption DEF PipeInit, Init, InHandExactly, InHand, Somewhere
<1>2. PipeInv /\ InHandExactly /\ Somewhere /\ [PipeNext]_pvars => (InHandExactly /\ Somewhere)'
  <2>1. PipeInv /\ InHandExactly /\ Somewhere /\ Next => (InHandExactly /\ Somewhere)'
    BY InHandStep, SomewhereStep DEF PipeInv, IInv
  <2>2. InHandExactly /\ Somewhere /\ UNCHANGED worker => (InHandExactly /\ Somewhere)'
    BY DEF worker, queues, process, InHandExactly, InHand, Somewhere
  <2>. QED BY <2>1, <2>2, WorkerOrFrame
<1>. QED BY <1>1, <1>2, SpecPipeInv, PTL DEF PipeSpec

\* From the confirm to the settling no message is lost or multiplied: an event
\* RabbitMQ accepted is a message published, and each is in exactly one place.
THEOREM PipeMessagesAreConserved ==
  PipeSpec => [](OnePlace /\ \A i \in Imports: accepted[i] > 0 <=> <<i, 1>> \in sent)
<1>1. PipeInv /\ Somewhere => OnePlace
  BY DEF PipeInv, IInv, Safe, Places, Somewhere, OnePlace
<1>2. PipeInv => \A i \in Imports: accepted[i] > 0 <=> <<i, 1>> \in sent
  BY DEF PipeInv, Copied
<1>. QED BY <1>1, <1>2, PipeSomewhere, SpecPipeInv, PTL

------------------------------------------------------------------------------
\* End to end: what it takes to make a result wrong

\* An import that SUCCEEDED turns back to PROCESSING or DEAD_LETTER only for a
\* cause at one end of the queue: its outbox row lapsed, its publish had no
\* recorded outcome, or a delivery of it was taken back from a worker.
SuccessLostHasACause ==
  [][\A i \in Imports:
       status[i] = "SUCCEEDED" /\ status'[i] # "SUCCEEDED" =>
         i \in lapsed \union unsure \union requeued]_pvars

\* The statuses the API reports are final for every import without such a cause.
THEOREM SuccessIsFinalEndToEnd == PipeSpec => SuccessLostHasACause
<1>. DEFINE Caused == \A i \in Imports:
       status[i] = "SUCCEEDED" /\ status'[i] # "SUCCEEDED" =>
         i \in lapsed \union unsure \union requeued
<1>1. ASSUME PipeInv, [PipeNext]_pvars PROVE Caused
  <2>. SUFFICES ASSUME NEW i \in Imports, status[i] = "SUCCEEDED",
                       status'[i] # "SUCCEEDED", i \notin lapsed \union unsure \union requeued
                PROVE  FALSE
    OBVIOUS
  <2>1. Undisturbed(i)
    BY <1>1 DEF PipeInv, RowInv, Copied, O!SingleCopyUnlessDisturbed, Undisturbed
  <2>2. CASE Next
    BY <1>1, <2>1, <2>2, SuccessStays DEF PipeInv
  <2>3. CASE UNCHANGED worker
    BY <2>3 DEF worker
  <2>. QED BY <1>1, <2>2, <2>3, WorkerOrFrame
<1>. QED BY <1>1, SpecPipeInv, PTL DEF PipeSpec, SuccessLostHasACause

\* A publish has no recorded outcome only after a fault.
UnsureAfterFault == faults = 0 => unsure = {}

\* As long as nothing fails, an import whose lease did not run out is confirmed
\* at most once and ends as it is reported: dead letters have the status
\* DEAD_LETTER, acknowledged messages SUCCEEDED (docs/architecture.md).
ExactWithoutFaults ==
  faults = 0 => \A i \in Imports \ lapsed:
    /\ effects[i] < 2
    /\ \A m \in dlq: ImportOf(m) = i => status[i] = "DEAD_LETTER"
    /\ \A m \in acked: ImportOf(m) = i => status[i] = "SUCCEEDED"

LEMMA PublisherSideFaults ==
  ASSUME PipeInv, UnsureAfterFault, PublisherSide, faults' = 0
  PROVE  faults = 0 /\ unsure' = unsure
<1>1. ~O!Fault
  BY DEF O!Fault, PipeInv, RowInv, RowTyping, O!TypeOK
<1>. QED
  BY <1>1 DEF PublisherSide, O!StoreEvent, O!LeaseExpires, O!LateDrop, O!Start,
     O!PublisherStep, O!ClaimOutbox, O!BeginPublish, O!ReceiveConfirm, O!MarkOutboxPublished,
     O!ReleaseOutbox, O!PublisherFault, O!ClaimLost, O!MarkFails, O!ReleaseFails,
     O!BrokerNack, O!LoseConnection, O!Stop, O!table, O!broker, O!history

LEMMA UnsureStep == PipeInv /\ UnsureAfterFault /\ [PipeNext]_pvars => UnsureAfterFault'
<1>. SUFFICES ASSUME PipeInv, UnsureAfterFault, [PipeNext]_pvars, faults' = 0
              PROVE  unsure' = {}
  BY DEF UnsureAfterFault
<1>1. CASE PublisherSide
  BY <1>1, PublisherSideFaults DEF UnsureAfterFault
<1>2. CASE WorkerSide
  <2>1. faults \in Nat /\ (faults' = faults \/ faults' = faults + 1)
    BY <1>2 DEF WorkerSide, PipeInv, IInv, Typing, TypeOK, Fault, Trouble, Deliver, Boot, Exit,
       Step, Take, StartProcessing, ProcessSucceeds, ProcessFails, CompleteSucceeded,
       CompleteDeadLetter, Ack, Nack, Disturbance, StartFails, CompleteFails, LoseConnection,
       Terminate, Crash
  <2>2. unsure' = unsure
    BY <1>2 DEF WorkerSide, outbox
  <2>. QED BY <2>1, <2>2 DEF UnsureAfterFault
<1>3. CASE (\E p \in Publishers: Accepted(p)) \/ (\E i \in Imports: AcceptedLate(i))
  <2>1. unsure' = unsure /\ faults' = faults
    BY <1>3, MeetStep DEF Meet, Enqueue, Publish
  <2>. QED BY <2>1 DEF UnsureAfterFault
<1>4. CASE UNCHANGED pvars
  BY <1>4 DEF pvars, outbox, UnsureAfterFault
<1>. QED BY <1>1, <1>2, <1>3, <1>4 DEF PipeNext

LEMMA CalmAgreementStep ==
  ASSUME PipeInv, UnsureAfterFault, Somewhere, Calm, Agreement, [PipeNext]_pvars
  PROVE  Calm' /\ Agreement'
<1>1. CASE Next
  BY <1>1, CalmStep, AgreementStep DEF PipeInv, IInv
<1>2. CASE PublisherSide
  <2>1. UNCHANGED worker /\ (faults' = 0 => faults = 0)
    BY <1>2, PublisherSideFaults DEF PublisherSide
  <2>. QED BY <2>1 DEF worker, queues, process, history, Calm, Agreement, Agrees
<1>3. CASE UNCHANGED pvars
  BY <1>3 DEF pvars, worker, queues, process, history, Calm, Agreement, Agrees
<1>. QED BY <1>1, <1>2, <1>3, WorkerSideStep, MeetStep DEF PipeNext

\* Wrong or repeated results have a fault or a lapsed lease behind them.
THEOREM ResultsAreExactWithoutFaults == PipeSpec => []ExactWithoutFaults
<1>1. PipeInit => UnsureAfterFault /\ Calm /\ Agreement
  BY NoMsgAssumption DEF PipeInit, Init, O!Init, UnsureAfterFault, Calm, Agreement, Agrees
<1>2. PipeInv /\ UnsureAfterFault /\ Somewhere /\ Calm /\ Agreement /\ [PipeNext]_pvars
        => UnsureAfterFault' /\ Calm' /\ Agreement'
  BY UnsureStep, CalmAgreementStep
<1>3. ASSUME PipeInv, UnsureAfterFault, Somewhere, Calm, Agreement PROVE ExactWithoutFaults
  <2>. SUFFICES ASSUME faults = 0, NEW i \in Imports, i \notin lapsed
                PROVE  /\ effects[i] < 2
                       /\ \A m \in dlq: ImportOf(m) = i => status[i] = "DEAD_LETTER"
                       /\ \A m \in acked: ImportOf(m) = i => status[i] = "SUCCEEDED"
    BY DEF ExactWithoutFaults
  <2>. USE <1>3
  <2>1. Undisturbed(i) /\ <<i, 2>> \notin sent
    BY DEF UnsureAfterFault, Calm, PipeInv, RowInv, Copied, O!SingleCopyUnlessDisturbed,
       Undisturbed
  <2>2. effects[i] < 2
    BY <2>1 DEF PipeInv, IInv, OneEffect
  <2>3. Agrees(i)
    BY <2>1 DEF Agreement
  <2>4. ASSUME NEW m \in sent, ImportOf(m) = i PROVE m = <<i, 1>>
    <3>1. m \in Msgs
      BY DEF PipeInv, IInv, Typing, TypeOK
    <3>2. PICK n \in 1..MaxCopies: m = <<i, n>>
      BY <2>4, <3>1 DEF Msgs, ImportOf
    <3>3. n = 1
      BY <2>1, <3>2, BoundsAssumption DEF PipeInv, IInv, Safe, Numbered
    <3>. QED BY <3>2, <3>3
  <2>5. dlq \subseteq sent /\ acked \subseteq sent
    BY DEF Somewhere, PipeInv, IInv, Safe, Places
  <2>. QED BY <2>2, <2>3, <2>4, <2>5 DEF Agrees
<1>. QED BY <1>1, <1>2, <1>3, PipeSomewhere, SpecPipeInv, PTL DEF PipeSpec

------------------------------------------------------------------------------
\* The create in front of the pipeline: its invariant (see CreateImportProofs)

RequestTyping ==
  /\ C!TypeOK
  /\ \A r \in Imports:
       /\ rpc[r] = "new" => key[r] = NoKey
       /\ rpc[r] \notin {"new", "done"} => key[r] \in Keys
       /\ rpc[r] = "done" <=> reply[r] # NoReply

\* A request writes its own row and is done when the row is stored; a replay has
\* found a stored one.
OwnRows ==
  /\ \A r \in Imports: rpc[r] \in {"inserted", "staged"} => found[r] = r /\ r \notin stored
  /\ \A r \in stored: rpc[r] = "done" /\ key[r] \in Keys
  /\ \A r \in Imports: rpc[r] = "found" => found[r] \in stored

\* The unique index: committed or not, one row per key.
OneRow ==
  \A r, s \in Imports:
    /\ r \in stored \/ rpc[r] \in {"inserted", "staged"}
    /\ s \in stored \/ rpc[s] \in {"inserted", "staged"}
    /\ key[r] = key[s]
    => r = s

\* A successful answer names a stored import; who stored one was told, or failed.
Told ==
  /\ \A r \in Imports: C!Successful(r) => reply[r].import \in stored
  /\ \A r \in stored \ failed: reply[r].code = 201

RequestInv == RequestTyping /\ OwnRows /\ OneRow /\ Told

LEMMA RequestStep == RequestInv /\ C!Next => RequestInv'
<1>. SUFFICES ASSUME RequestInv, C!Next PROVE RequestInv'
  OBVIOUS
<1>. USE CreateAssumption, BoundsAssumption
     DEF RequestInv, RequestTyping, C!TypeOK, C!PCs, C!Codes, OwnRows, OneRow, Told,
     C!Successful, C!database, C!history, C!Conflicting, C!SameKey
<1>1. ASSUME NEW r \in Imports, NEW k \in Keys, C!Receive(r, k) PROVE RequestInv'
  BY <1>1 DEF C!Receive
<1>2. ASSUME NEW r \in Imports, C!Reject(r) PROVE RequestInv'
  BY <1>2 DEF C!Reject, C!Answer
<1>3. ASSUME NEW r \in Imports, C!StartStatement(r) PROVE RequestInv'
  BY <1>3 DEF C!StartStatement
<1>4. ASSUME NEW r \in Imports, C!Insert(r) PROVE RequestInv'
  BY <1>4 DEF C!Insert, C!InProgress
<1>5. ASSUME NEW r \in Imports, C!FindExisting(r) PROVE RequestInv'
  BY <1>5 DEF C!FindExisting
<1>6. ASSUME NEW r \in Imports, C!FindNothing(r) PROVE RequestInv'
  BY <1>6 DEF C!FindNothing, C!Answer
<1>7. ASSUME NEW r \in Imports, C!InsertEvent(r) PROVE RequestInv'
  BY <1>7 DEF C!InsertEvent
<1>8. ASSUME NEW r \in Imports, C!CommitCreated(r) PROVE RequestInv'
  BY <1>8 DEF C!CommitCreated, C!Publish, C!Answer
<1>9. ASSUME NEW r \in Imports, C!CommitReplay(r) PROVE RequestInv'
  BY <1>9 DEF C!CommitReplay, C!Answer
<1>10. ASSUME NEW r \in Imports, C!Fail(r) PROVE RequestInv'
  BY <1>10 DEF C!Fail, C!Fault, C!Answer
<1>11. ASSUME NEW r \in Imports, C!CommitInDoubt(r) PROVE RequestInv'
  BY <1>11 DEF C!CommitInDoubt, C!Fault, C!Publish, C!Answer
<1>. HIDE DEF RequestInv
<1>. QED
  BY <1>1, <1>2, <1>3, <1>4, <1>5, <1>6, <1>7, <1>8, <1>9, <1>10, <1>11 DEF C!Next, C!Step

LEMMA RequestFrame == RequestInv /\ UNCHANGED C!vars => RequestInv'
BY DEF C!vars, RequestInv, RequestTyping, C!TypeOK, OwnRows, OneRow, Told, C!Successful

\* Of the create, a step of the system is a step or leaves it alone.
LEMMA SystemStepsTheCreate == [SysNext]_svars => [C!Next]_(C!vars)
<1>1. \A r \in Imports: CommitImport(r) => C!Next
  BY DEF CommitImport, C!Next, C!Step
<1>2. ServerSide \/ UNCHANGED svars => UNCHANGED C!vars
  BY DEF ServerSide, svars, pvars, outbox, requests, C!vars
<1>. QED BY <1>1, <1>2 DEF SysNext, ClientSide

LEMMA SpecRequestInv == SysSpec => []RequestInv
<1>1. SysInit => RequestInv
  BY CreateAssumption, BoundsAssumption
     DEF SysInit, C!Init, RequestInv, RequestTyping, C!TypeOK, C!PCs, C!Codes, OwnRows, OneRow,
     Told, C!Successful
<1>2. RequestInv /\ [SysNext]_svars => RequestInv'
  BY RequestStep, RequestFrame, SystemStepsTheCreate
<1>. QED BY <1>1, <1>2, PTL DEF SysSpec

------------------------------------------------------------------------------
\* The system is its two parts at once

\* What the transaction commits is what the pipeline takes as StoreEvent: a row
\* the table did not have.
LEMMA SystemStepsThePipeline == RequestInv /\ [SysNext]_svars => [PipeNext]_pvars
<1>. SUFFICES ASSUME RequestInv, [SysNext]_svars PROVE [PipeNext]_pvars
  OBVIOUS
<1>1. ASSUME NEW r \in Imports, CommitImport(r) PROVE PipeNext
  <2>1. found[r] \in Imports
    BY <1>1 DEF CommitImport, C!CommitCreated, C!CommitInDoubt, RequestInv, OwnRows
  <2>2. O!StoreEvent(found[r]) /\ UNCHANGED worker
    BY <1>1 DEF CommitImport, worker
  <2>. QED BY <2>1, <2>2 DEF PipeNext, PublisherSide
<1>2. ClientSide \/ UNCHANGED svars => UNCHANGED pvars
  BY DEF ClientSide, svars
<1>. QED BY <1>1, <1>2 DEF SysNext, ServerSide

\* Whatever CreateImport and the pipeline promise each by itself they promise
\* together: every behaviour of the system is one of the create, whose invariants
\* and refinement of the idempotent create are in CreateImportProofs, and one of
\* the pipeline, whose environment StoreEvent is no longer assumed.
THEOREM SystemIsBothParts == SysSpec => C!Spec /\ PipeSpec
<1>1. SysInit => C!Init /\ PipeInit
  BY DEF SysInit
<1>. QED
  BY <1>1, SystemStepsTheCreate, SystemStepsThePipeline, SpecRequestInv, PTL
     DEF SysSpec, PipeSpec, C!Spec

\* Client retries never repeat the call to the integration, although CreateImport
\* and processDelivery know nothing of each other: of the imports with one key
\* one reaches the workers, and a second effect of it has its cause behind the
\* commit.
THEOREM RetriesNeverRepeatEffects == SysSpec => []RetriesRepeatNoEffect
<1>1. PipeInv /\ RequestInv /\ SecondEffectHasACause => RetriesRepeatNoEffect
  BY DEF PipeInv, Committed, RequestInv, OneRow, SecondEffectHasACause, RetriesRepeatNoEffect
<1>. QED BY <1>1, SystemIsBothParts, SpecRequestInv, SpecPipeInv, SecondEffectsHaveACause, PTL

\* The integration is asked only for imports a client asked for, and the client
\* was told so by a 201 unless its request failed in doubt.
EffectIsAskedFor ==
  \A i \in Imports: effects[i] > 0 =>
    /\ key[i] \in Keys
    /\ reply[i] # NoReply
    /\ reply[i].code = 201 \/ i \in failed

\* A request that was refused for its body, lost a race, or was a replay, causes
\* no effect of its own, however the messages of other imports are repeated.
THEOREM EffectsAreAskedFor == SysSpec => []EffectIsAskedFor
<1>1. PipeInv /\ RequestInv => EffectIsAskedFor
  BY DEF PipeInv, Committed, RequestInv, RequestTyping, OwnRows, Told, EffectIsAskedFor
<1>. QED BY <1>1, SystemIsBothParts, SpecRequestInv, SpecPipeInv, PTL

\* The system as a whole, from the first POST, implements the life of an import.
THEOREM SystemImplementsLifecycleFromCreate == SysSpec => ImplementsLifecycle
BY SystemIsBothParts, SystemImplementsLifecycle, PTL

\* An import that a client was told of, by 201 or by a 200 replay, can be found.
AnsweredIsAccountedFor ==
  \A r \in Imports: C!Successful(r) =>
    LET i == reply[r].import
    IN  status[i] # "SUCCEEDED" =>
          i \notin published \/ \E m \in sent \ acked: ImportOf(m) = i

\* What the API answered with success is never lost by the deployed single worker:
\* the promise of the 201, carried through the outbox and the queue.
THEOREM AnswersAreKept ==
  ASSUME \A v, w \in Workers: v = w
  PROVE  SysSpec => [](EveryImportIsAccountedFor /\ AnsweredIsAccountedFor)
<1>1. RequestInv /\ EveryImportIsAccountedFor => AnsweredIsAccountedFor
  BY DEF RequestInv, Told, EveryImportIsAccountedFor, AnsweredIsAccountedFor
<1>2. PipeSpec => []EveryImportIsAccountedFor
  BY LoneWorkerLosesNothing
<1>. QED BY <1>1, <1>2, SystemIsBothParts, SpecRequestInv, PTL
==============================================================================
