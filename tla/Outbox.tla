-------------------------------- MODULE Outbox --------------------------------
(***************************************************************************)
(* The transactional outbox of imports-api: the outbox_events table         *)
(* (src/internal/database/store.go), the publisher loop of every API        *)
(* replica (src/internal/messaging/outbox.go), the broker connection it     *)
(* publishes on (src/internal/messaging/broker.go) and RabbitMQ itself.     *)
(*                                                                         *)
(* Each statement the publisher sends to PostgreSQL is one atomic step of   *)
(* the table; an error of that statement is a step of its own, because the  *)
(* statement may or may not have taken effect when the client gets an error.*)
(* SKIP LOCKED locks row by row and passes over rows that statements of     *)
(* other replicas hold: a claim of several replicas may leave any row out.  *)
(***************************************************************************)
EXTENDS Integers, FiniteSets

CONSTANTS
  Events,      \* outbox rows, numbered in created_at order
  Publishers,  \* API replicas, each with one publisher goroutine
  NoOne,       \* locked_by IS NULL
  NoEvent,     \* no row is being published
  BatchLimit,  \* LIMIT of a claim (25 in the code)
  MaxFaults,   \* bound: errors, crashes and lost connections in a behaviour
  Flaky        \* publishers whose AMQP connection may be lost

ASSUME EventsAssumption == Events \subseteq Nat
ASSUME NullsAssumption == NoOne \notin Publishers /\ NoEvent \notin Events
ASSUME BoundsAssumption == BatchLimit \in Nat \ {0} /\ MaxFaults \in Nat
ASSUME FlakyAssumption == Flaky \subseteq Publishers

VARIABLES
  \* the outbox_events table
  stored,     \* rows committed by CreateImport
  published,  \* rows with published_at set
  lockedBy,   \* locked_by of each row
  stale,      \* locked rows whose locked_at is more than a minute old
  \* the publisher goroutines
  pc,         \* where each publisher is
  batch,      \* rows it claimed and has not dealt with
  current,    \* the row it is publishing
  connected,  \* whether its AMQP channel is open
  \* RabbitMQ
  accepted,   \* copies of each event enqueued (2 stands for two or more)
  limbo,      \* events written to a connection that closed before RabbitMQ read them
  \* bookkeeping of the model
  faults,     \* faults so far
  lapsed,     \* history: rows whose lease ran out at least once
  unsure,     \* history: rows handed to RabbitMQ with an outcome nobody recorded
  overdue,    \* history: rows of a batch whose lease ran out in its publisher's hands
  robbed      \* history: rows of a batch that a late publisher unlocked in their lease

table == <<stored, published, lockedBy, stale>>
broker == <<accepted, limbo>>
lost == <<overdue, robbed>>
history == <<lapsed, unsure, lost>>
vars == <<stored, published, lockedBy, stale, pc, batch, current, connected,
          accepted, limbo, faults, lapsed, unsure, overdue, robbed>>

PCs == {"down", "idle", "batch", "sent", "accepted", "mark", "release"}

TypeOK ==
  /\ stored \subseteq Events
  /\ published \subseteq Events
  /\ lockedBy \in [Events -> Publishers \union {NoOne}]
  /\ stale \subseteq Events
  /\ pc \in [Publishers -> PCs]
  /\ batch \in [Publishers -> SUBSET Events]
  /\ current \in [Publishers -> Events \union {NoEvent}]
  /\ connected \in [Publishers -> BOOLEAN]
  /\ accepted \in [Events -> 0..2]
  /\ limbo \subseteq Events
  /\ faults \in 0..MaxFaults
  /\ lapsed \subseteq Events
  /\ unsure \subseteq Events
  /\ overdue \in [Publishers -> SUBSET Events]
  /\ robbed \in [Publishers -> SUBSET Events]

Init ==
  /\ stored = {} /\ published = {} /\ stale = {}
  /\ lockedBy = [e \in Events |-> NoOne]
  /\ pc = [p \in Publishers |-> "down"]
  /\ batch = [p \in Publishers |-> {}]
  /\ current = [p \in Publishers |-> NoEvent]
  /\ connected = [p \in Publishers |-> FALSE]
  /\ accepted = [e \in Events |-> 0]
  /\ limbo = {}
  /\ faults = 0
  /\ lapsed = {} /\ unsure = {}
  /\ overdue = [p \in Publishers |-> {}]
  /\ robbed = [p \in Publishers |-> {}]

------------------------------------------------------------------------------
\* Helpers

Fault == faults < MaxFaults /\ faults' = faults + 1

\* Variants of the claim: every unpublished row, no lease.
ClaimableLockedToo == stored \ published
ClaimableUnlocked == {e \in stored \ published: lockedBy[e] = NoOne}

\* The WHERE clause of the claim: unpublished, and unlocked or past its lease.
Claimable ==
  {e \in stored \ published: lockedBy[e] = NoOne \/ e \in stale}

\* ORDER BY created_at LIMIT n.
Oldest(rows, n) == {e \in rows: Cardinality({f \in rows: f < e}) < n}

\* FOR UPDATE SKIP LOCKED passes over a row, whatever its age, that a statement of
\* another replica holds locked at the moment the claim comes to it.
Skippable(p) == IF \E q \in Publishers: q # p THEN Claimable ELSE {}

\* The sets of rows that a claim of p may take.
Claims(p) == {Oldest(Claimable \ skipped, BatchLimit): skipped \in SUBSET Skippable(p)}

\* The columns written by the claim, the mark and the release.
Lock(p, rows) ==
  /\ lockedBy' = [e \in Events |-> IF e \in rows THEN p ELSE lockedBy[e]]
  /\ stale' = stale \ rows

Unlock(e) ==
  /\ lockedBy' = [lockedBy EXCEPT ![e] = NoOne]
  /\ stale' = stale \ {e}

\* Variant: the mark clears the lock and forgets published_at.
MarkRowUnpublished(e) == UNCHANGED published /\ Unlock(e)

MarkRow(e) == published' = published \union {e} /\ Unlock(e)

\* publishBatch is done with its current row and goes on to the next one.
FinishRow(p) ==
  /\ batch' = [batch EXCEPT ![p] = @ \ {current[p]}]
  /\ overdue' = [overdue EXCEPT ![p] = @ \ {current[p]}]
  /\ robbed' = [robbed EXCEPT ![p] = @ \ {current[p]}]
  /\ current' = [current EXCEPT ![p] = NoEvent]
  /\ pc' = [pc EXCEPT ![p] = IF batch[p] = {current[p]} THEN "idle" ELSE "batch"]

\* Nothing is left in the hands of p.
DropBatch(p) ==
  /\ batch' = [batch EXCEPT ![p] = {}]
  /\ current' = [current EXCEPT ![p] = NoEvent]
  /\ overdue' = [overdue EXCEPT ![p] = {}]

\* publishBatch returns an error: the rest of the batch stays locked.
AbandonBatch(p) ==
  /\ DropBatch(p)
  /\ robbed' = [robbed EXCEPT ![p] = {}]
  /\ pc' = [pc EXCEPT ![p] = "idle"]

\* The publisher that loses its row, within its lease, when p releases that row
\* by its id after having lost it itself.
Victim(p, q) ==
  /\ q # p
  /\ current[p] \in overdue[p] \union robbed[p]
  /\ current[p] \in batch[q] \ stale
  /\ lockedBy[current[p]] = q

Enqueue(e) == accepted' = [accepted EXCEPT ![e] = IF @ = 0 THEN 1 ELSE 2]

\* What becomes of the message in flight when the channel of p goes away.
CutOff(p) ==
  /\ limbo' = IF pc[p] = "sent" THEN limbo \union {current[p]} ELSE limbo
  /\ unsure' = IF pc[p] \in {"sent", "accepted", "mark"}
               THEN unsure \union {current[p]} ELSE unsure

------------------------------------------------------------------------------
\* The table, as seen from outside the publisher

\* CreateImport commits an import together with its event.
StoreEvent(e) ==
  /\ e \notin stored
  /\ stored' = stored \union {e}
  /\ UNCHANGED <<published, lockedBy, stale, pc, batch, current, connected,
                 broker, faults, history>>

\* locked_at < now() - interval '1 minute' becomes true of a locked row.
LeaseExpires(e) ==
  /\ lockedBy[e] # NoOne
  /\ e \notin stale
  /\ stale' = stale \union {e}
  /\ lapsed' = lapsed \union {e}
  /\ overdue' = [p \in Publishers |->
       IF lockedBy[e] = p THEN overdue[p] \union ({e} \intersect batch[p]) ELSE overdue[p]]
  /\ UNCHANGED <<stored, published, lockedBy, pc, batch, current, connected,
                 broker, faults, unsure, robbed>>

------------------------------------------------------------------------------
\* The life of a replica

\* main connects to RabbitMQ and starts the publisher goroutine.
Start(p) ==
  /\ pc[p] = "down"
  /\ pc' = [pc EXCEPT ![p] = "idle"]
  /\ connected' = [connected EXCEPT ![p] = TRUE]
  /\ UNCHANGED <<table, batch, current, broker, faults, history>>

\* The replica dies or is stopped: nothing unlocks its rows.
Stop(p) ==
  /\ pc[p] # "down"
  /\ Fault
  /\ CutOff(p)
  /\ pc' = [pc EXCEPT ![p] = "down"]
  /\ DropBatch(p)
  /\ robbed' = [robbed EXCEPT ![p] = {}]
  /\ connected' = [connected EXCEPT ![p] = FALSE]
  /\ UNCHANGED <<table, accepted, lapsed>>

\* The AMQP connection closes under a running replica; nothing reopens it.
\* A publish that is waiting for its confirm gets an error.
LoseConnection(p) ==
  /\ p \in Flaky
  /\ connected[p]
  /\ Fault
  /\ connected' = [connected EXCEPT ![p] = FALSE]
  /\ IF pc[p] \in {"sent", "accepted"}
     THEN CutOff(p) /\ pc' = [pc EXCEPT ![p] = "release"]
     ELSE UNCHANGED <<limbo, unsure, pc>>
  /\ UNCHANGED <<table, batch, current, accepted, lapsed, lost>>

------------------------------------------------------------------------------
\* publishBatch

\* A claim that finds no row leaves the publisher waiting for its next tick.
ClaimOutbox(p) ==
  /\ pc[p] = "idle"
  /\ \E rows \in Claims(p):
       /\ Lock(p, rows)
       /\ batch' = [batch EXCEPT ![p] = rows]
       /\ pc' = [pc EXCEPT ![p] = IF rows = {} THEN "idle" ELSE "batch"]
  /\ UNCHANGED <<stored, published, current, connected, broker, faults, history>>

\* The claim is committed and its result never reaches the publisher.
ClaimLost(p) ==
  /\ pc[p] = "idle"
  /\ Fault
  /\ \E rows \in Claims(p) \ {{}}: Lock(p, rows)
  /\ UNCHANGED <<stored, published, pc, batch, current, connected, broker, history>>

\* Variant: the loop variable is not set before the publish.
BeginPublishNothing(p) ==
  /\ pc[p] = "batch"
  /\ pc' = [pc EXCEPT ![p] = IF connected[p] THEN "sent" ELSE "release"]
  /\ UNCHANGED <<table, batch, current, connected, broker, faults, history>>

\* The rows come back in the order UPDATE ... RETURNING yields them: any.
BeginPublish(p) ==
  /\ pc[p] = "batch"
  /\ \E e \in batch[p]: current' = [current EXCEPT ![p] = e]
  /\ pc' = [pc EXCEPT ![p] = IF connected[p] THEN "sent" ELSE "release"]
  /\ UNCHANGED <<table, batch, connected, broker, faults, history>>

ReceiveConfirm(p) ==
  /\ pc[p] = "accepted"
  /\ pc' = [pc EXCEPT ![p] = "mark"]
  /\ UNCHANGED <<table, batch, current, connected, broker, faults, history>>

MarkOutboxPublished(p) ==
  /\ pc[p] = "mark"
  /\ MarkRow(current[p])
  /\ FinishRow(p)
  /\ UNCHANGED <<stored, connected, broker, faults, lapsed, unsure>>

\* The mark fails, with or without effect, and the batch is given up.
MarkFails(p) ==
  /\ pc[p] = "mark"
  /\ Fault
  /\ \/ MarkRow(current[p]) /\ UNCHANGED unsure
     \/ UNCHANGED <<published, lockedBy, stale>> /\ unsure' = unsure \union {current[p]}
  /\ AbandonBatch(p)
  /\ UNCHANGED <<stored, connected, broker, lapsed>>

\* Variant: a failed publish marks the row where it should release it.
ReleaseByMarking(p) ==
  /\ pc[p] = "release"
  /\ MarkRow(current[p])
  /\ AbandonBatch(p)
  /\ UNCHANGED <<stored, connected, broker, faults, lapsed, unsure>>

ReleaseOutbox(p) ==
  /\ pc[p] = "release"
  /\ Unlock(current[p])
  /\ DropBatch(p)
  /\ pc' = [pc EXCEPT ![p] = "idle"]
  /\ robbed' = [q \in Publishers |->
       IF q = p THEN {}
       ELSE IF Victim(p, q) THEN robbed[q] \union {current[p]} ELSE robbed[q]]
  /\ UNCHANGED <<stored, published, connected, broker, faults, lapsed, unsure>>

\* The release fails without effect; publishBatch ignores its error.
ReleaseFails(p) ==
  /\ pc[p] = "release"
  /\ Fault
  /\ AbandonBatch(p)
  /\ UNCHANGED <<table, connected, broker, lapsed, unsure>>

------------------------------------------------------------------------------
\* RabbitMQ

BrokerAccept(p) ==
  /\ pc[p] = "sent"
  /\ Enqueue(current[p])
  /\ pc' = [pc EXCEPT ![p] = "accepted"]
  /\ UNCHANGED <<table, batch, current, connected, limbo, faults, history>>

BrokerNack(p) ==
  /\ pc[p] = "sent"
  /\ Fault
  /\ pc' = [pc EXCEPT ![p] = "release"]
  /\ UNCHANGED <<table, batch, current, connected, broker, history>>

\* A message written before its connection closed is read after all, or lost.
LateAccept(e) ==
  /\ e \in limbo
  /\ Enqueue(e)
  /\ limbo' = limbo \ {e}
  /\ UNCHANGED <<table, pc, batch, current, connected, faults, history>>

LateDrop(e) ==
  /\ e \in limbo
  /\ limbo' = limbo \ {e}
  /\ UNCHANGED <<table, pc, batch, current, connected, accepted, faults, history>>

------------------------------------------------------------------------------
PublisherStep(p) ==
  \/ ClaimOutbox(p) \/ BeginPublish(p) \/ ReceiveConfirm(p)
  \/ MarkOutboxPublished(p) \/ ReleaseOutbox(p)

PublisherFault(p) ==
  \/ ClaimLost(p) \/ MarkFails(p) \/ ReleaseFails(p) \/ BrokerNack(p)
  \/ LoseConnection(p) \/ Stop(p)

Next ==
  \/ \E e \in Events: StoreEvent(e) \/ LeaseExpires(e) \/ LateAccept(e) \/ LateDrop(e)
  \/ \E p \in Publishers:
       Start(p) \/ PublisherStep(p) \/ BrokerAccept(p) \/ PublisherFault(p)

Spec == Init /\ [][Next]_vars

\* The ticker keeps calling publishBatch, containers are restarted, RabbitMQ
\* answers a publisher that is connected, and time passes. A claim that skips every
\* row changes nothing, so fairness of PublisherStep has a claim find a row in the
\* end: no statement of another replica holds a row lock for ever.
Fairness ==
  /\ \A p \in Publishers:
       WF_vars(Start(p)) /\ WF_vars(PublisherStep(p)) /\ WF_vars(BrokerAccept(p))
  /\ \A e \in Events: WF_vars(LeaseExpires(e))

FairSpec == Spec /\ Fairness

------------------------------------------------------------------------------
\* Properties

\* A row gets published_at only after RabbitMQ enqueued the event: no crash,
\* error or second publisher makes publishBatch close a row nobody received.
PublishedWasAccepted == \A e \in published: accepted[e] > 0

\* Two publishers work on a row at the same time only when one of them has lost
\* it: the lease of its claim ran out in its hands, or a publisher that had lost
\* the row released it by its id, the one way to free a row within its lease.
\* However often the row lapsed before, a claim made since is exclusive again.
ExclusiveClaim ==
  \A p, q \in Publishers: p # q =>
    batch[p] \intersect batch[q] \subseteq
      overdue[p] \union robbed[p] \union overdue[q] \union robbed[q]

\* Duplicates have a cause: a second copy needs a lease that ran out or a
\* publish whose outcome was lost between RabbitMQ and the table.
SingleCopyUnlessDisturbed ==
  \A e \in Events: accepted[e] > 1 => e \in lapsed \union unsure

\* published_at is never taken back, and a published row is never locked by a
\* claim again.
PublishedIsFinal ==
  [][/\ published \subseteq published'
     /\ \A e \in published: lockedBy'[e] # NoOne => lockedBy'[e] = lockedBy[e]]_vars

\* Every committed event is eventually marked as published (docs/decisions/0002
\* calls a failure between commit and publish recoverable). Refuted when a
\* connection is lost under a running replica.
EventuallyPublished == \A e \in Events: e \in stored ~> e \in published

\* It is if every replica that loses its connection is restarted in the end:
\* errors, crashes and leases only delay an event.
PublishedOnceConnected ==
  <>[](\A p \in Publishers: pc[p] # "down" => connected[p]) => EventuallyPublished

\* The outbox implements at-least-once delivery.
Contract ==
  INSTANCE AtLeastOnce WITH
    owed <- stored, given <- {e \in Events: accepted[e] > 0}, closed <- published

ImplementsAtLeastOnce == Contract!Spec
==============================================================================
