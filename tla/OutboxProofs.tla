----------------------------- MODULE OutboxProofs -----------------------------
(***************************************************************************)
(* Proofs about the outbox for any number of rows, publishers and faults.    *)
(***************************************************************************)
EXTENDS Outbox, FiniteSetTheorems, TLAPS

------------------------------------------------------------------------------
\* The inductive invariant

Working == {"sent", "accepted", "mark", "release"}

\* A publisher between two statements works on a row of its batch.
CurrentInBatch == \A p \in Publishers: pc[p] \in Working => current[p] \in batch[p]

\* Only stored rows are claimed, and so published.
OnlyStoredRows == limbo \subseteq stored /\ \A p \in Publishers: batch[p] \subseteq stored

\* A confirm is received, and a row marked, only for an event RabbitMQ has.
ConfirmedWasAccepted ==
  \A p \in Publishers: pc[p] \in {"accepted", "mark"} => accepted[current[p]] > 0

\* Until its lease runs out, a claimed row is locked by its holder, unpublished.
HolderOwnsRow ==
  \A p \in Publishers: \A e \in batch[p] \ lapsed:
    lockedBy[e] = p /\ e \notin published /\ e \notin stale

StaleHasLapsed == stale \subseteq lapsed

LimboIsUnsure == limbo \subseteq unsure

\* An undisturbed event that RabbitMQ has is published, or still locked, and
\* whoever holds it is past the publish.
AcceptedIsOnItsWay ==
  \A e \in Events \ (lapsed \union unsure): accepted[e] > 0 =>
    \/ e \in published
    \/ /\ lockedBy[e] # NoOne
       /\ \A p \in Publishers:
            e \in batch[p] => current[p] = e /\ pc[p] \in {"accepted", "mark"}

Typing == TypeOK /\ CurrentInBatch

Safe ==
  /\ OnlyStoredRows
  /\ PublishedWasAccepted
  /\ ConfirmedWasAccepted
  /\ HolderOwnsRow
  /\ StaleHasLapsed
  /\ LimboIsUnsure
  /\ AcceptedIsOnItsWay
  /\ SingleCopyUnlessDisturbed

IInv == Typing /\ Safe

------------------------------------------------------------------------------
\* What a claim takes: rows of the table that nobody holds within its lease.
LEMMA ClaimTakesClaimable ==
  \A p \in Publishers: \A rows \in Claims(p): \A e \in rows:
    e \in stored /\ e \notin published /\ (lockedBy[e] = NoOne \/ e \in stale)
BY DEF Claims, Oldest, Claimable

\* Every step keeps the types, and every working publisher on a row of its batch.
LEMMA TypingStep == Typing /\ [Next]_vars => Typing'
<1>. SUFFICES ASSUME Typing, [Next]_vars PROVE Typing'
  OBVIOUS
<1>. USE NullsAssumption, BoundsAssumption
     DEF Typing, TypeOK, PCs, CurrentInBatch, Working, table, broker, history, lost
<1>1. ASSUME NEW e \in Events, StoreEvent(e) PROVE Typing'
  BY <1>1 DEF StoreEvent
<1>2. ASSUME NEW e \in Events, LeaseExpires(e) PROVE Typing'
  BY <1>2 DEF LeaseExpires
<1>3. ASSUME NEW e \in Events, LateAccept(e) PROVE Typing'
  BY <1>3 DEF LateAccept, Enqueue
<1>4. ASSUME NEW e \in Events, LateDrop(e) PROVE Typing'
  BY <1>4 DEF LateDrop
<1>5. ASSUME NEW p \in Publishers, Start(p) PROVE Typing'
  BY <1>5 DEF Start
<1>6. ASSUME NEW p \in Publishers, ClaimOutbox(p) PROVE Typing'
  BY <1>6, ClaimTakesClaimable DEF ClaimOutbox, Lock
<1>7. ASSUME NEW p \in Publishers, BeginPublish(p) PROVE Typing'
  BY <1>7 DEF BeginPublish
<1>8. ASSUME NEW p \in Publishers, ReceiveConfirm(p) PROVE Typing'
  BY <1>8 DEF ReceiveConfirm
<1>9. ASSUME NEW p \in Publishers, MarkOutboxPublished(p) PROVE Typing'
  BY <1>9 DEF MarkOutboxPublished, MarkRow, Unlock, FinishRow
<1>10. ASSUME NEW p \in Publishers, ReleaseOutbox(p) PROVE Typing'
  BY <1>10 DEF ReleaseOutbox, Unlock, DropBatch
<1>11. ASSUME NEW p \in Publishers, BrokerAccept(p) PROVE Typing'
  BY <1>11 DEF BrokerAccept, Enqueue
<1>12. ASSUME NEW p \in Publishers, ClaimLost(p) PROVE Typing'
  BY <1>12, ClaimTakesClaimable DEF ClaimLost, Lock, Fault
<1>13. ASSUME NEW p \in Publishers, MarkFails(p) PROVE Typing'
  BY <1>13 DEF MarkFails, Fault, MarkRow, Unlock, AbandonBatch, DropBatch
<1>14. ASSUME NEW p \in Publishers, ReleaseFails(p) PROVE Typing'
  BY <1>14 DEF ReleaseFails, Fault, AbandonBatch, DropBatch
<1>15. ASSUME NEW p \in Publishers, BrokerNack(p) PROVE Typing'
  BY <1>15 DEF BrokerNack, Fault
<1>16. ASSUME NEW p \in Publishers, LoseConnection(p) PROVE Typing'
  BY <1>16 DEF LoseConnection, Fault, CutOff
<1>17. ASSUME NEW p \in Publishers, Stop(p) PROVE Typing'
  BY <1>17 DEF Stop, Fault, CutOff, DropBatch
<1>18. ASSUME UNCHANGED vars PROVE Typing'
  BY <1>18 DEF vars
<1>. QED
  BY <1>1, <1>2, <1>3, <1>4, <1>5, <1>6, <1>7, <1>8, <1>9, <1>10, <1>11,
     <1>12, <1>13, <1>14, <1>15, <1>16, <1>17, <1>18
     DEF Next, PublisherStep, PublisherFault

\* The variables keep their types through every operation of the outbox.
THEOREM TypeCorrect == Spec => []TypeOK
<1>1. Init => Typing
  BY NullsAssumption, BoundsAssumption
     DEF Init, Typing, TypeOK, PCs, CurrentInBatch, Working
<1>2. Typing => TypeOK
  BY DEF Typing
<1>. QED BY <1>1, <1>2, TypingStep, PTL DEF Spec

------------------------------------------------------------------------------
\* Every step keeps the rest of the invariant.
LEMMA InvariantStep == IInv /\ [Next]_vars => IInv'
<1>. SUFFICES ASSUME IInv, [Next]_vars PROVE Safe'
  BY TypingStep DEF IInv
<1>. USE NullsAssumption
     DEF IInv, Safe, Typing, TypeOK, CurrentInBatch, Working, OnlyStoredRows,
     PublishedWasAccepted, ConfirmedWasAccepted, HolderOwnsRow, StaleHasLapsed,
     LimboIsUnsure, AcceptedIsOnItsWay, SingleCopyUnlessDisturbed,
     table, broker, history, lost
<1>1. ASSUME NEW e \in Events, StoreEvent(e) PROVE Safe'
  BY <1>1 DEF StoreEvent
<1>2. ASSUME NEW e \in Events, LeaseExpires(e) PROVE Safe'
  BY <1>2 DEF LeaseExpires
<1>3. ASSUME NEW e \in Events, LateAccept(e) PROVE Safe'
  BY <1>3 DEF LateAccept, Enqueue
<1>4. ASSUME NEW e \in Events, LateDrop(e) PROVE Safe'
  BY <1>4 DEF LateDrop
<1>5. ASSUME NEW p \in Publishers, Start(p) PROVE Safe'
  BY <1>5 DEF Start
<1>6. ASSUME NEW p \in Publishers, ClaimOutbox(p) PROVE Safe'
  BY <1>6, ClaimTakesClaimable DEF ClaimOutbox, Lock
<1>7. ASSUME NEW p \in Publishers, BeginPublish(p) PROVE Safe'
  BY <1>7 DEF BeginPublish
<1>8. ASSUME NEW p \in Publishers, ReceiveConfirm(p) PROVE Safe'
  BY <1>8 DEF ReceiveConfirm
<1>9. ASSUME NEW p \in Publishers, MarkOutboxPublished(p) PROVE Safe'
  BY <1>9 DEF MarkOutboxPublished, MarkRow, Unlock, FinishRow
<1>10. ASSUME NEW p \in Publishers, ReleaseOutbox(p) PROVE Safe'
  BY <1>10 DEF ReleaseOutbox, Unlock, DropBatch
<1>11. ASSUME NEW p \in Publishers, BrokerAccept(p) PROVE Safe'
  BY <1>11 DEF BrokerAccept, Enqueue
<1>12. ASSUME NEW p \in Publishers, ClaimLost(p) PROVE Safe'
  BY <1>12, ClaimTakesClaimable DEF ClaimLost, Lock, Fault
<1>13. ASSUME NEW p \in Publishers, MarkFails(p) PROVE Safe'
  BY <1>13 DEF MarkFails, Fault, MarkRow, Unlock, AbandonBatch, DropBatch
<1>14. ASSUME NEW p \in Publishers, ReleaseFails(p) PROVE Safe'
  BY <1>14 DEF ReleaseFails, Fault, AbandonBatch, DropBatch
<1>15. ASSUME NEW p \in Publishers, BrokerNack(p) PROVE Safe'
  BY <1>15 DEF BrokerNack, Fault
<1>16. ASSUME NEW p \in Publishers, LoseConnection(p) PROVE Safe'
  BY <1>16 DEF LoseConnection, Fault, CutOff
<1>17. ASSUME NEW p \in Publishers, Stop(p) PROVE Safe'
  BY <1>17 DEF Stop, Fault, CutOff, DropBatch
<1>18. ASSUME UNCHANGED vars PROVE Safe'
  BY <1>18 DEF vars
<1>. QED
  BY <1>1, <1>2, <1>3, <1>4, <1>5, <1>6, <1>7, <1>8, <1>9, <1>10, <1>11,
     <1>12, <1>13, <1>14, <1>15, <1>16, <1>17, <1>18
     DEF Next, PublisherStep, PublisherFault

LEMMA InvariantHolds == Spec => []IInv
<1>1. Init => IInv
  BY NullsAssumption, BoundsAssumption
     DEF Init, IInv, Typing, Safe, TypeOK, PCs, CurrentInBatch, Working, OnlyStoredRows,
     PublishedWasAccepted, ConfirmedWasAccepted, HolderOwnsRow, StaleHasLapsed,
     LimboIsUnsure, AcceptedIsOnItsWay, SingleCopyUnlessDisturbed
<1>. QED BY <1>1, InvariantStep, PTL DEF Spec

\* publishBatch closes no row whose event RabbitMQ does not have.
THEOREM PublishedHasArrived == Spec => []PublishedWasAccepted
<1>1. IInv => PublishedWasAccepted
  BY DEF IInv, Safe
<1>. QED BY <1>1, InvariantHolds, PTL

\* Without a lapsed lease or a lost outcome, an event is enqueued once.
THEOREM DuplicatesHaveACause == Spec => []SingleCopyUnlessDisturbed
<1>1. IInv => SingleCopyUnlessDisturbed
  BY DEF IInv, Safe
<1>. QED BY <1>1, InvariantHolds, PTL

\* No statement of the publisher takes published_at back or locks a published row.
THEOREM PublishedStays == Spec => PublishedIsFinal
<1>. DEFINE Final == /\ published \subseteq published'
                     /\ \A e \in published: lockedBy'[e] # NoOne => lockedBy'[e] = lockedBy[e]
<1>1. ASSUME IInv, [Next]_vars PROVE Final
  <2>. USE <1>1, NullsAssumption DEF IInv, Typing, TypeOK, CurrentInBatch, Working
  <2>1. ASSUME NEW p \in Publishers, ClaimOutbox(p) \/ ClaimLost(p) PROVE Final
    BY <2>1, ClaimTakesClaimable DEF ClaimOutbox, ClaimLost, Lock
  <2>2. ASSUME NEW p \in Publishers,
               MarkOutboxPublished(p) \/ MarkFails(p) \/ ReleaseOutbox(p)
        PROVE Final
    BY <2>2 DEF MarkOutboxPublished, MarkFails, ReleaseOutbox, MarkRow, Unlock
  <2>3. CASE UNCHANGED <<published, lockedBy>>
    BY <2>3
  <2>4. \/ UNCHANGED <<published, lockedBy>>
        \/ \E p \in Publishers:
             \/ ClaimOutbox(p) \/ ClaimLost(p)
             \/ MarkOutboxPublished(p) \/ MarkFails(p) \/ ReleaseOutbox(p)
    BY <1>1 DEF Next, PublisherStep, PublisherFault, StoreEvent, LeaseExpires, LateAccept,
       LateDrop, Start, BeginPublish, ReceiveConfirm, BrokerAccept, ReleaseFails,
       BrokerNack, LoseConnection, Stop, vars, table
  <2>. QED BY <2>1, <2>2, <2>3, <2>4
<1>2. ASSUME IInv, [Next]_vars PROVE [Final]_vars
  BY <1>1, <1>2
<1>. QED BY <1>2, InvariantHolds, PTL DEF Spec, PublishedIsFinal

------------------------------------------------------------------------------
\* The outbox implements at-least-once delivery: a publisher's steps are, to the
\* outside, the recording, the delivery or the closing of one event, or nothing.
THEOREM OutboxImplementsAtLeastOnce == Spec => ImplementsAtLeastOnce
<1>1. Init => Contract!Init
  BY DEF Init, Contract!Init
<1>2. ASSUME IInv, [Next]_vars PROVE [Contract!Next]_(Contract!vars)
  <2>. USE <1>2 DEF IInv, Safe, Typing, TypeOK, CurrentInBatch, Working, OnlyStoredRows,
           ConfirmedWasAccepted, Contract!Next
  <2>1. ASSUME NEW e \in Events, StoreEvent(e) PROVE Contract!Record(e)
    BY <2>1 DEF StoreEvent, broker, Contract!Record
  <2>2. ASSUME NEW e \in Events, e \in stored, Enqueue(e), UNCHANGED <<stored, published>>
        PROVE Contract!Deliver(e)
    BY <2>2 DEF Enqueue, Contract!Deliver
  <2>3. ASSUME NEW e \in Events, LateAccept(e) PROVE Contract!Deliver(e)
    BY <2>2, <2>3 DEF LateAccept, table
  <2>4. ASSUME NEW p \in Publishers, BrokerAccept(p) PROVE Contract!Next
    <3>1. PICK e \in Events: e = current[p] /\ e \in stored
      BY <2>4 DEF BrokerAccept
    <3>2. Enqueue(e) /\ UNCHANGED <<stored, published>>
      BY <2>4, <3>1 DEF BrokerAccept, table, Enqueue
    <3>3. Contract!Deliver(e)
      BY <2>2, <3>1, <3>2
    <3>. QED BY <3>3
  <2>5. ASSUME NEW e \in Events, accepted[e] > 0, published' = published \union {e},
               UNCHANGED <<stored, accepted>>
        PROVE Contract!Close(e)
    BY <2>5 DEF Contract!Close
  <2>6. ASSUME NEW p \in Publishers, MarkOutboxPublished(p) \/ MarkFails(p)
        PROVE Contract!Next \/ UNCHANGED Contract!vars
    <3>1. current[p] \in Events /\ accepted[current[p]] > 0
      BY <2>6 DEF MarkOutboxPublished, MarkFails
    <3>2. CASE MarkRow(current[p]) /\ UNCHANGED <<stored, accepted>>
      BY <2>5, <3>1, <3>2 DEF MarkRow
    <3>3. CASE UNCHANGED <<stored, published, accepted>>
      BY <3>3 DEF Contract!vars
    <3>. QED BY <2>6, <3>2, <3>3 DEF MarkOutboxPublished, MarkFails, broker
  <2>7. CASE UNCHANGED <<stored, published, accepted>>
    BY <2>7 DEF Contract!vars
  <2>8. \/ UNCHANGED <<stored, published, accepted>>
        \/ \E e \in Events: StoreEvent(e) \/ LateAccept(e)
        \/ \E p \in Publishers: BrokerAccept(p) \/ MarkOutboxPublished(p) \/ MarkFails(p)
    BY <1>2 DEF Next, PublisherStep, PublisherFault, LeaseExpires, LateDrop, Start,
       ClaimOutbox, ClaimLost, BeginPublish, ReceiveConfirm, ReleaseOutbox, ReleaseFails,
       BrokerNack, LoseConnection, Stop, vars, table, broker
  <2>. QED BY <2>1, <2>3, <2>4, <2>6, <2>7, <2>8
<1>. QED BY <1>1, <1>2, InvariantHolds, PTL DEF Spec, ImplementsAtLeastOnce, Contract!Spec

------------------------------------------------------------------------------
\* What ORDER BY created_at LIMIT n gives

\* The rows created before e: finitely many, as created_at numbers start at 0.
Before(rows, e) == {f \in rows: f < e}

LEMMA BeforeIsFinite ==
  ASSUME NEW rows \in SUBSET Nat, NEW e \in Nat
  PROVE  IsFiniteSet(Before(rows, e)) /\ Cardinality(Before(rows, e)) \in Nat
<1>1. IsFiniteSet(0..e)
  BY FS_Interval
<1>2. Before(rows, e) \in SUBSET (0..e)
  <2>1. \A f \in Before(rows, e): f \in Nat /\ f < e
    BY DEF Before
  <2>2. \A f \in Before(rows, e): f \in 0..e
    BY <2>1
  <2>. QED BY <2>2
<1>3. IsFiniteSet(Before(rows, e))
  BY <1>1, <1>2, FS_Subset
<1>. QED BY <1>3, FS_CardinalityType

\* A younger row of the same set comes strictly later in the order.
LEMMA RankIsStrict ==
  ASSUME NEW rows \in SUBSET Nat, NEW d \in rows, NEW e \in rows, d < e
  PROVE  Cardinality(Before(rows, d)) < Cardinality(Before(rows, e))
<1>1. /\ IsFiniteSet(Before(rows, e))
      /\ Cardinality(Before(rows, e)) \in Nat /\ Cardinality(Before(rows, d)) \in Nat
  BY BeforeIsFinite
<1>2. Before(rows, d) \in SUBSET Before(rows, e)
  <2>1. ASSUME NEW f \in Before(rows, d) PROVE f \in rows /\ f < e
    BY <2>1 DEF Before
  <2>2. \A f \in Before(rows, d): f \in Before(rows, e)
    BY <2>1 DEF Before
  <2>. QED BY <2>2
<1>3. d \in Before(rows, e) /\ d \notin Before(rows, d)
  BY DEF Before
<1>4. /\ Cardinality(Before(rows, d)) <= Cardinality(Before(rows, e))
      /\ Cardinality(Before(rows, d)) # Cardinality(Before(rows, e))
  BY <1>1, <1>2, <1>3, FS_Subset
<1>. QED BY <1>1, <1>4

\* No more than n rows are taken: their ranks are different numbers below n.
LEMMA OldestIsLimited ==
  ASSUME NEW rows \in SUBSET Nat, NEW n \in Nat
  PROVE  IsFiniteSet(Oldest(rows, n)) /\ Cardinality(Oldest(rows, n)) <= n
<1>. DEFINE taken == Oldest(rows, n)
            rank == [e \in taken |-> Cardinality(Before(rows, e))]
<1>1. \A e \in taken: e \in rows /\ e \in Nat /\ Cardinality(Before(rows, e)) < n
  BY DEF Oldest, Before
<1>2. \A e \in taken: rank[e] \in 0..(n - 1)
  BY <1>1, BeforeIsFinite
<1>3. ASSUME NEW d \in taken, NEW e \in taken, d # e PROVE rank[d] # rank[e]
  <2>1. \/ rank[d] < rank[e]
        \/ rank[e] < rank[d]
    BY <1>1, <1>3, RankIsStrict
  <2>2. rank[d] \in Nat /\ rank[e] \in Nat
    BY <1>2
  <2>. QED BY <2>1, <2>2
<1>4. rank \in Injection(taken, 0..(n - 1))
  BY <1>2, <1>3 DEF Injection, IsInjective
<1>5. IsFiniteSet(0..(n - 1)) /\ Cardinality(0..(n - 1)) = n
  BY FS_Interval
<1>. HIDE DEF rank, taken
<1>6. IsFiniteSet(taken) /\ Cardinality(taken) <= n
  BY <1>4, <1>5, FS_Injection
<1>. QED BY <1>6 DEF taken

------------------------------------------------------------------------------
\* Batches

BatchesAreLimited ==
  \A p \in Publishers: IsFiniteSet(batch[p]) /\ Cardinality(batch[p]) <= BatchLimit

\* What a step does to a batch: it stays, shrinks by rows dealt with, or is a claim.
LEMMA BatchSteps ==
  ASSUME Typing, [Next]_vars, NEW p \in Publishers
  PROVE  batch'[p] \subseteq batch[p] \/ batch'[p] \in Claims(p)
<1>. USE DEF Typing, TypeOK
<1>1. CASE UNCHANGED batch
  BY <1>1
<1>2. ASSUME NEW q \in Publishers, ClaimOutbox(q)
      PROVE  batch'[p] = batch[p] \/ batch'[p] \in Claims(p)
  BY <1>2 DEF ClaimOutbox
<1>3. ASSUME NEW q \in Publishers,
             MarkOutboxPublished(q) \/ MarkFails(q) \/ ReleaseOutbox(q) \/ ReleaseFails(q)
             \/ Stop(q)
      PROVE  batch'[p] \subseteq batch[p]
  BY <1>3 DEF MarkOutboxPublished, MarkFails, ReleaseOutbox, ReleaseFails, Stop,
     FinishRow, AbandonBatch, DropBatch
<1>4. \/ UNCHANGED batch
      \/ \E q \in Publishers:
           \/ ClaimOutbox(q)
           \/ MarkOutboxPublished(q) \/ MarkFails(q) \/ ReleaseOutbox(q) \/ ReleaseFails(q)
           \/ Stop(q)
  BY DEF Next, PublisherStep, PublisherFault, StoreEvent, LeaseExpires, LateAccept,
     LateDrop, Start, BeginPublish, ReceiveConfirm, BrokerAccept, ClaimLost,
     BrokerNack, LoseConnection, vars
<1>. QED BY <1>1, <1>2, <1>3, <1>4

LEMMA ClaimableAreNumbered == Typing => Claimable \in SUBSET Nat
BY EventsAssumption DEF Typing, TypeOK, Claimable

\* However many rows wait and however its calls end, a publisher never works on
\* more of them than the LIMIT of one claim: what a crash or a failed publish adds
\* to the rows that stay locked for a minute is one batch at most.
THEOREM BatchesStayLimited == Spec => []BatchesAreLimited
<1>1. Init => BatchesAreLimited
  BY FS_EmptySet, BoundsAssumption DEF Init, BatchesAreLimited
<1>2. ASSUME Typing, BatchesAreLimited, [Next]_vars PROVE BatchesAreLimited'
  <2>. SUFFICES ASSUME NEW p \in Publishers
                PROVE  IsFiniteSet(batch'[p]) /\ Cardinality(batch'[p]) <= BatchLimit
    BY DEF BatchesAreLimited
  <2>1. CASE batch'[p] \subseteq batch[p]
    <3>1. /\ IsFiniteSet(batch'[p])
          /\ Cardinality(batch'[p]) <= Cardinality(batch[p])
      BY <1>2, <2>1, FS_Subset DEF BatchesAreLimited
    <3>2. /\ Cardinality(batch'[p]) \in Nat /\ Cardinality(batch[p]) \in Nat
          /\ Cardinality(batch[p]) <= BatchLimit
      BY <1>2, <3>1, FS_CardinalityType DEF BatchesAreLimited
    <3>. QED BY <3>1, <3>2, BoundsAssumption
  <2>2. CASE batch'[p] \in Claims(p)
    <3>1. PICK skipped \in SUBSET Skippable(p): batch'[p] = Oldest(Claimable \ skipped, BatchLimit)
      BY <2>2 DEF Claims
    <3>2. Claimable \ skipped \in SUBSET Nat /\ BatchLimit \in Nat
      BY <1>2, ClaimableAreNumbered, BoundsAssumption
    <3>. QED BY <3>1, <3>2, OldestIsLimited
  <2>. QED BY <1>2, <2>1, <2>2, BatchSteps
<1>3. IInv => Typing
  BY DEF IInv
<1>. QED BY <1>1, <1>2, <1>3, InvariantHolds, PTL DEF Spec

------------------------------------------------------------------------------
\* Locks

\* Between two batches a publisher has no row in its hands.
Resting == {"down", "idle"}
RestingIsEmpty == \A p \in Publishers: pc[p] \in Resting => batch[p] = {}

\* A publisher has lost only rows that are still in its hands.
LostIsInHand == \A p \in Publishers: overdue[p] \union robbed[p] \subseteq batch[p]

PublishedIsUnlocked == \A e \in published: lockedBy[e] = NoOne

\* Whoever has not lost a row of its batch holds the lock within its lease, unless
\* the late mark of another publisher has closed the row.
FreshClaims ==
  \A p \in Publishers: \A e \in batch[p] \ (overdue[p] \union robbed[p]):
    e \in published \/ (lockedBy[e] = p /\ e \notin stale)

LeaseInv ==
  RestingIsEmpty /\ LostIsInHand /\ PublishedIsUnlocked /\ FreshClaims /\ ExclusiveClaim

\* Every step keeps the leases in order: a claim takes only rows whose lease is over,
\* and a release under another publisher makes that one a publisher robbed.
LEMMA LeaseStep == Typing /\ LeaseInv /\ [Next]_vars => LeaseInv'
<1>. SUFFICES ASSUME Typing, LeaseInv, [Next]_vars PROVE LeaseInv'
  OBVIOUS
<1>. USE NullsAssumption
     DEF Typing, TypeOK, PCs, CurrentInBatch, Working, LeaseInv, Resting, RestingIsEmpty,
         LostIsInHand, PublishedIsUnlocked, FreshClaims, ExclusiveClaim, table, history, lost
<1>1. ASSUME NEW e \in Events, LeaseExpires(e) PROVE LeaseInv'
  BY <1>1 DEF LeaseExpires
<1>2. ASSUME NEW p \in Publishers, ClaimOutbox(p) PROVE LeaseInv'
  BY <1>2, ClaimTakesClaimable DEF ClaimOutbox, Lock
<1>3. ASSUME NEW p \in Publishers, ClaimLost(p) PROVE LeaseInv'
  BY <1>3, ClaimTakesClaimable DEF ClaimLost, Lock
<1>4. ASSUME NEW p \in Publishers, MarkOutboxPublished(p) PROVE LeaseInv'
  BY <1>4 DEF MarkOutboxPublished, MarkRow, Unlock, FinishRow
<1>5. ASSUME NEW p \in Publishers, MarkFails(p) PROVE LeaseInv'
  BY <1>5 DEF MarkFails, MarkRow, Unlock, AbandonBatch, DropBatch
<1>6. ASSUME NEW p \in Publishers, ReleaseOutbox(p) PROVE LeaseInv'
  BY <1>6 DEF ReleaseOutbox, Unlock, DropBatch, Victim
<1>7. ASSUME NEW p \in Publishers, ReleaseFails(p) PROVE LeaseInv'
  BY <1>7 DEF ReleaseFails, AbandonBatch, DropBatch
<1>8. ASSUME NEW p \in Publishers, Stop(p) PROVE LeaseInv'
  BY <1>8 DEF Stop, DropBatch
<1>9. CASE /\ UNCHANGED <<published, lockedBy, stale, batch, lost>>
           /\ \A p \in Publishers: pc'[p] \in Resting => pc[p] \in Resting
  BY <1>9
<1>10. \/ /\ UNCHANGED <<published, lockedBy, stale, batch, lost>>
          /\ \A p \in Publishers: pc'[p] \in Resting => pc[p] \in Resting
       \/ \E e \in Events: LeaseExpires(e)
       \/ \E p \in Publishers:
            \/ ClaimOutbox(p) \/ ClaimLost(p) \/ MarkOutboxPublished(p) \/ MarkFails(p)
            \/ ReleaseOutbox(p) \/ ReleaseFails(p) \/ Stop(p)
  BY DEF Next, PublisherStep, PublisherFault, StoreEvent, LateAccept, LateDrop, Start,
     BeginPublish, ReceiveConfirm, BrokerAccept, BrokerNack, LoseConnection, vars
<1>. QED BY <1>1, <1>2, <1>3, <1>4, <1>5, <1>6, <1>7, <1>8, <1>9, <1>10

LEMMA LeasesHold == Spec => [](Typing /\ LeaseInv)
<1>1. Init => LeaseInv
  BY DEF Init, LeaseInv, RestingIsEmpty, LostIsInHand, PublishedIsUnlocked, FreshClaims,
     ExclusiveClaim
<1>2. IInv => Typing
  BY DEF IInv
<1>. QED BY <1>1, <1>2, LeaseStep, InvariantHolds, PTL DEF Spec

\* Any number of replicas work on disjoint rows, however often a row has lapsed
\* before, until the lease of a claim runs out in its publisher's hands or a late
\* release takes the lock off; neither a claim nor a mark ends the exclusiveness.
THEOREM ClaimsAreExclusive == Spec => []ExclusiveClaim
<1>1. LeaseInv => ExclusiveClaim
  BY DEF LeaseInv
<1>. QED BY <1>1, LeasesHold, PTL

\* A lock within its lease, the current one, is taken off only by the publisher that
\* holds it or by one that has the row in hand and has lost it.
OnlyHolderUnlocks ==
  \A p \in Publishers: \A e \in Events \ stale:
    lockedBy[e] = p /\ lockedBy'[e] # p =>
      \E q \in Publishers:
        /\ MarkOutboxPublished(q) \/ MarkFails(q) \/ ReleaseOutbox(q)
        /\ current[q] = e
        /\ q = p \/ e \in overdue[q] \union robbed[q]

\* MarkOutboxPublished and ReleaseOutbox name the row by its id and do not look at
\* locked_by: the damage is confined to publishers whose own lease ran out, or was
\* ended by such a one; no other publisher frees a row under its holder.
THEOREM LocksAreRespected == Spec => [][OnlyHolderUnlocks]_vars
<1>1. ASSUME Typing, LeaseInv, [Next]_vars PROVE OnlyHolderUnlocks
  <2>. USE <1>1, NullsAssumption
       DEF Typing, TypeOK, CurrentInBatch, Working, LeaseInv, LostIsInHand,
           PublishedIsUnlocked, FreshClaims, OnlyHolderUnlocks
  <2>1. ASSUME NEW q \in Publishers, ClaimOutbox(q) \/ ClaimLost(q) PROVE OnlyHolderUnlocks
    BY <2>1, ClaimTakesClaimable DEF ClaimOutbox, ClaimLost, Lock
  <2>2. ASSUME NEW q \in Publishers,
               MarkOutboxPublished(q) \/ MarkFails(q) \/ ReleaseOutbox(q)
        PROVE  OnlyHolderUnlocks
    <3>. SUFFICES ASSUME NEW p \in Publishers, NEW e \in Events \ stale,
                         lockedBy[e] = p, lockedBy'[e] # p
                  PROVE  current[q] = e /\ (q = p \/ e \in overdue[q] \union robbed[q])
      BY <2>2
    <3>1. lockedBy' = [lockedBy EXCEPT ![current[q]] = NoOne] \/ lockedBy' = lockedBy
      BY <2>2 DEF MarkOutboxPublished, MarkFails, ReleaseOutbox, MarkRow, Unlock
    <3>2. current[q] = e
      BY <3>1
    <3>3. e \in batch[q]
      BY <2>2, <3>2 DEF MarkOutboxPublished, MarkFails, ReleaseOutbox
    <3>. QED BY <3>2, <3>3
  <2>3. CASE UNCHANGED lockedBy
    BY <2>3
  <2>4. \/ UNCHANGED lockedBy
        \/ \E q \in Publishers:
             \/ ClaimOutbox(q) \/ ClaimLost(q)
             \/ MarkOutboxPublished(q) \/ MarkFails(q) \/ ReleaseOutbox(q)
    BY DEF Next, PublisherStep, PublisherFault, StoreEvent, LeaseExpires, LateAccept,
       LateDrop, Start, BeginPublish, ReceiveConfirm, BrokerAccept, ReleaseFails,
       BrokerNack, LoseConnection, Stop, vars, table
  <2>. QED BY <2>1, <2>2, <2>3, <2>4
<1>2. ASSUME Typing, LeaseInv, [Next]_vars PROVE [OnlyHolderUnlocks]_vars
  BY <1>1, <1>2
<1>. QED BY <1>2, LeasesHold, PTL DEF Spec
==============================================================================
