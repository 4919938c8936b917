----------------------------- MODULE ImportWorker -----------------------------
(***************************************************************************)
(* imports-worker: the consumer loop and processDelivery                     *)
(* (src/internal/processor/worker.go) of every worker process, the status    *)
(* columns it writes (StartProcessing and CompleteImport of                  *)
(* src/internal/database/store.go), the process that hosts it                *)
(* (src/cmd/worker/main.go), and the RabbitMQ queues it consumes from.       *)
(*                                                                         *)
(* The calls to the integration are one step here, with either result; the   *)
(* module IntegrationClient has their detail. A statement that fails may     *)
(* have taken effect: the client cannot tell.                               *)
(***************************************************************************)
EXTENDS Integers, FiniteSets

CONSTANTS
  Imports,
  Workers,    \* worker processes
  MaxCopies,  \* bound: messages the outbox publishes for one import
  Prefetch,   \* Qos: deliveries a channel may have unacknowledged (10)
  MaxFaults,  \* bound: errors, signals, crashes and lost connections
  NoMsg       \* a worker that processes nothing

ASSUME BoundsAssumption ==
  MaxCopies \in Nat \ {0} /\ Prefetch \in Nat \ {0} /\ MaxFaults \in Nat

Msgs == Imports \X (1..MaxCopies)
ImportOf(m) == m[1]

ASSUME NoMsgAssumption == NoMsg \notin Msgs

VARIABLES
  \* PostgreSQL
  status,    \* imports.status
  \* RabbitMQ
  sent,      \* messages published
  ready,     \* messages in the queue of the workers (QueueName)
  unacked,   \* messages delivered on each worker's channel and not answered
  dlq,       \* messages in the dead-letter queue
  acked,     \* messages acknowledged
  \* the worker processes
  pc,        \* where each worker is
  cur,       \* the delivery it processes
  held,      \* deliveries its client library holds for it
  linked,    \* its AMQP connection is open
  stopping,  \* its context is cancelled
  \* bookkeeping of the model
  faults,    \* faults so far
  effects,   \* history: successful Process calls of each import (2: two or more)
  requeued,  \* history: imports a message of which was requeued
  zombied    \* history: imports being processed when the connection was lost

queues == <<sent, ready, unacked, dlq, acked>>
process == <<pc, cur, held, linked, stopping>>
history == <<effects, requeued, zombied>>
vars == <<status, sent, ready, unacked, dlq, acked, pc, cur, held, linked, stopping,
          faults, effects, requeued, zombied>>

Statuses == {"QUEUED", "PROCESSING", "SUCCEEDED", "DEAD_LETTER"}
PCs == {"down", "idle", "start", "call", "succeed", "deadletter", "ack", "nack"}

TypeOK ==
  /\ status \in [Imports -> Statuses]
  /\ sent \subseteq Msgs /\ ready \subseteq Msgs /\ dlq \subseteq Msgs /\ acked \subseteq Msgs
  /\ unacked \in [Workers -> SUBSET Msgs]
  /\ pc \in [Workers -> PCs]
  /\ cur \in [Workers -> Msgs \union {NoMsg}]
  /\ held \in [Workers -> SUBSET Msgs]
  /\ linked \in [Workers -> BOOLEAN]
  /\ stopping \in [Workers -> BOOLEAN]
  /\ faults \in 0..MaxFaults
  /\ effects \in [Imports -> 0..2]
  /\ requeued \subseteq Imports
  /\ zombied \subseteq Imports

Init ==
  /\ status = [i \in Imports |-> "QUEUED"]
  /\ sent = {} /\ ready = {} /\ dlq = {} /\ acked = {}
  /\ unacked = [w \in Workers |-> {}]
  /\ pc = [w \in Workers |-> "down"]
  /\ cur = [w \in Workers |-> NoMsg]
  /\ held = [w \in Workers |-> {}]
  /\ linked = [w \in Workers |-> FALSE]
  /\ stopping = [w \in Workers |-> FALSE]
  /\ faults = 0
  /\ effects = [i \in Imports |-> 0]
  /\ requeued = {} /\ zombied = {}

------------------------------------------------------------------------------
\* Helpers

Fault == faults < MaxFaults /\ faults' = faults + 1

\* Under a cancelled context a statement fails of itself.
Trouble(w) == IF stopping[w] THEN UNCHANGED faults ELSE Fault

Goto(w, label) == pc' = [pc EXCEPT ![w] = label]

SetStatus(w, s) == status' = [status EXCEPT ![ImportOf(cur[w])] = s]

Busy(w) == cur[w] # NoMsg

\* RabbitMQ takes back what the closed channel of w had not answered.
Requeue(w) ==
  /\ ready' = ready \union unacked[w]
  /\ unacked' = [unacked EXCEPT ![w] = {}]
  /\ requeued' = requeued \union {ImportOf(m): m \in unacked[w]}

\* The process is gone, with everything it had in memory.
Gone(w) ==
  /\ Goto(w, "down")
  /\ cur' = [cur EXCEPT ![w] = NoMsg]
  /\ held' = [held EXCEPT ![w] = {}]
  /\ linked' = [linked EXCEPT ![w] = FALSE]
  /\ stopping' = [stopping EXCEPT ![w] = FALSE]
  /\ Requeue(w)

------------------------------------------------------------------------------
\* RabbitMQ

\* The outbox publishes an import's event, and may publish it again.
Publish(i, n) ==
  /\ <<i, n>> \notin sent
  /\ n > 1 => <<i, n - 1>> \in sent
  /\ sent' = sent \union {<<i, n>>}
  /\ ready' = ready \union {<<i, n>>}
  /\ UNCHANGED <<status, unacked, dlq, acked, process, faults, history>>

\* Variant: the consumer is registered with autoAck.
DeliverAutoAck(w, m) ==
  /\ linked[w]
  /\ m \in ready
  /\ ready' = ready \ {m}
  /\ acked' = acked \union {m}
  /\ held' = [held EXCEPT ![w] = @ \union {m}]
  /\ UNCHANGED <<status, sent, unacked, dlq, pc, cur, linked, stopping, faults, history>>

Deliver(w, m) ==
  /\ linked[w]
  /\ m \in ready
  /\ Cardinality(unacked[w]) < Prefetch
  /\ ready' = ready \ {m}
  /\ unacked' = [unacked EXCEPT ![w] = @ \union {m}]
  /\ held' = [held EXCEPT ![w] = @ \union {m}]
  /\ UNCHANGED <<status, sent, dlq, acked, pc, cur, linked, stopping, faults, history>>

------------------------------------------------------------------------------
\* The life of a worker process

\* main connects, and the container runtime restarts what has exited.
Boot(w) ==
  /\ pc[w] = "down"
  /\ Goto(w, "idle")
  /\ linked' = [linked EXCEPT ![w] = TRUE]
  /\ UNCHANGED <<status, queues, cur, held, stopping, faults, history>>

\* SIGTERM cancels the context; Run is not waited for.
Terminate(w) ==
  /\ pc[w] # "down" /\ ~stopping[w]
  /\ Fault
  /\ stopping' = [stopping EXCEPT ![w] = TRUE]
  /\ UNCHANGED <<status, queues, pc, cur, held, linked, history>>

\* The connection closes: the delivery in hand is processed to its end.
LoseConnection(w) ==
  /\ linked[w]
  /\ Fault
  /\ linked' = [linked EXCEPT ![w] = FALSE]
  /\ Requeue(w)
  /\ zombied' = zombied \union {ImportOf(m): m \in held[w] \union ({cur[w]} \ {NoMsg})}
  /\ UNCHANGED <<status, sent, dlq, acked, pc, cur, held, stopping, effects>>

\* main returns: after a signal at any point of Run, else because Run found
\* its delivery stream closed.
Exit(w) ==
  /\ pc[w] # "down"
  /\ stopping[w] \/ (pc[w] = "idle" /\ ~linked[w])
  /\ Gone(w)
  /\ UNCHANGED <<status, sent, dlq, acked, faults, effects, zombied>>

Crash(w) ==
  /\ pc[w] # "down"
  /\ Fault
  /\ Gone(w)
  /\ UNCHANGED <<status, sent, dlq, acked, effects, zombied>>

------------------------------------------------------------------------------
\* processDelivery

Take(w, m) ==
  /\ pc[w] = "idle"
  /\ m \in held[w]
  /\ held' = [held EXCEPT ![w] = @ \ {m}]
  /\ cur' = [cur EXCEPT ![w] = m]
  /\ Goto(w, "start")
  /\ UNCHANGED <<status, queues, linked, stopping, faults, history>>

\* The update has no condition on the status it overwrites.
StartProcessing(w) ==
  /\ pc[w] = "start" /\ ~stopping[w]
  /\ SetStatus(w, "PROCESSING")
  /\ Goto(w, "call")
  /\ UNCHANGED <<queues, cur, held, linked, stopping, faults, history>>

StartFails(w) ==
  /\ pc[w] = "start"
  /\ Trouble(w)
  /\ SetStatus(w, "PROCESSING") \/ UNCHANGED status
  /\ Goto(w, "nack")
  /\ UNCHANGED <<queues, cur, held, linked, stopping, history>>

ProcessSucceeds(w) ==
  /\ pc[w] = "call"
  /\ effects' = [effects EXCEPT ![ImportOf(cur[w])] = IF @ = 0 THEN 1 ELSE 2]
  /\ Goto(w, "succeed")
  /\ UNCHANGED <<status, queues, cur, held, linked, stopping, faults, requeued, zombied>>

\* All attempts failed, the breaker is open, or the context was cancelled.
ProcessFails(w) ==
  /\ pc[w] = "call"
  /\ Goto(w, "deadletter")
  /\ UNCHANGED <<status, queues, cur, held, linked, stopping, faults, history>>

CompleteSucceeded(w) ==
  /\ pc[w] = "succeed" /\ ~stopping[w]
  /\ SetStatus(w, "SUCCEEDED")
  /\ Goto(w, "ack")
  /\ UNCHANGED <<queues, cur, held, linked, stopping, faults, history>>

\* Variants: the failure is stored as FAILED, or as a success.
CompleteFailed(w) ==
  /\ pc[w] = "deadletter" /\ ~stopping[w]
  /\ SetStatus(w, "FAILED")
  /\ Goto(w, "nack")
  /\ UNCHANGED <<queues, cur, held, linked, stopping, faults, history>>

CompleteWrongStatus(w) ==
  /\ pc[w] = "deadletter" /\ ~stopping[w]
  /\ SetStatus(w, "SUCCEEDED")
  /\ Goto(w, "nack")
  /\ UNCHANGED <<queues, cur, held, linked, stopping, faults, history>>

CompleteDeadLetter(w) ==
  /\ pc[w] = "deadletter" /\ ~stopping[w]
  /\ SetStatus(w, "DEAD_LETTER")
  /\ Goto(w, "nack")
  /\ UNCHANGED <<queues, cur, held, linked, stopping, faults, history>>

\* Variant: an error of CompleteImport is only logged.
CompleteFailsAcked(w) ==
  /\ pc[w] \in {"succeed", "deadletter"}
  /\ Trouble(w)
  /\ Goto(w, "ack")
  /\ UNCHANGED <<status, queues, cur, held, linked, stopping, history>>

\* Either completion fails; the delivery is rejected all the same.
CompleteFails(w) ==
  /\ pc[w] \in {"succeed", "deadletter"}
  /\ Trouble(w)
  /\ \/ SetStatus(w, IF pc[w] = "succeed" THEN "SUCCEEDED" ELSE "DEAD_LETTER")
     \/ UNCHANGED status
  /\ Goto(w, "nack")
  /\ UNCHANGED <<queues, cur, held, linked, stopping, history>>

\* RabbitMQ settles the delivery of w in the given set, if its channel is open.
Settle(w) ==
  /\ unacked' = [unacked EXCEPT ![w] = @ \ {cur[w]}]
  /\ cur' = [cur EXCEPT ![w] = NoMsg]
  /\ Goto(w, "idle")

Settled(w) == IF linked[w] THEN {cur[w]} ELSE {}

Ack(w) ==
  /\ pc[w] = "ack"
  /\ acked' = acked \union Settled(w)
  /\ Settle(w)
  /\ UNCHANGED <<status, sent, ready, dlq, held, linked, stopping, faults, history>>

\* Variants of the rejection: with requeue, and an acknowledgement instead.
NackRequeues(w) ==
  /\ pc[w] = "nack"
  /\ ready' = ready \union Settled(w)
  /\ Settle(w)
  /\ UNCHANGED <<status, sent, dlq, acked, held, linked, stopping, faults, history>>

NackAcks(w) ==
  /\ pc[w] = "nack"
  /\ acked' = acked \union Settled(w)
  /\ Settle(w)
  /\ UNCHANGED <<status, sent, ready, dlq, held, linked, stopping, faults, history>>

\* Nack(false, false): RabbitMQ moves the message to the dead-letter queue.
Nack(w) ==
  /\ pc[w] = "nack"
  /\ dlq' = dlq \union Settled(w)
  /\ Settle(w)
  /\ UNCHANGED <<status, sent, ready, acked, held, linked, stopping, faults, history>>

------------------------------------------------------------------------------
Step(w) ==
  \/ \E m \in Msgs: Take(w, m)
  \/ StartProcessing(w) \/ ProcessSucceeds(w) \/ ProcessFails(w)
  \/ CompleteSucceeded(w) \/ CompleteDeadLetter(w)
  \/ Ack(w) \/ Nack(w)

Disturbance(w) ==
  \/ StartFails(w) \/ CompleteFails(w)
  \/ LoseConnection(w) \/ Terminate(w) \/ Crash(w)

Next ==
  \/ \E i \in Imports, n \in 1..MaxCopies: Publish(i, n)
  \/ \E w \in Workers:
       \/ \E m \in Msgs: Deliver(w, m)
       \/ Boot(w) \/ Exit(w) \/ Step(w) \/ Disturbance(w)

Spec == Init /\ [][Next]_vars

\* RabbitMQ delivers to open channels, workers go on, exit and are restarted.
Fairness ==
  \A w \in Workers:
    /\ WF_vars(\E m \in Msgs: Deliver(w, m))
    /\ WF_vars(Step(w)) /\ WF_vars(Exit(w)) /\ WF_vars(Boot(w))

FairSpec == Spec /\ Fairness

------------------------------------------------------------------------------
\* Properties

\* A published import that is not SUCCEEDED still has a message in a queue or
\* in a worker's hands: nothing waits with nobody left to process it or to find
\* it in the dead-letter queue. Workers that lost their connection are apart:
\* they write to a row whose message another worker may have settled.
NoSilentLoss ==
  \A i \in Imports \ zombied:
    (\E m \in sent: ImportOf(m) = i) /\ status[i] # "SUCCEEDED" =>
      \E m \in sent \ acked: ImportOf(m) = i

\* SUCCEEDED is written, and a message acknowledged, only after the integration
\* confirmed the import, whichever worker did which.
ProcessedBeforeSettled ==
  /\ \A i \in Imports: status[i] = "SUCCEEDED" => effects[i] > 0
  /\ \A m \in acked: effects[ImportOf(m)] > 0

\* The integration confirms an import twice only if the outbox published it
\* twice or RabbitMQ took a delivery back.
EffectOnceUnlessRedelivered ==
  \A i \in Imports: effects[i] > 1 => <<i, 2>> \in sent \/ i \in requeued

\* No message is bounced between the workers for ever: it ends up acknowledged
\* or dead-lettered.
MessageSettles == \A m \in Msgs: m \in sent ~> m \in acked \union dlq

\* docs/architecture.md: a final failure ends in DEAD_LETTER and the DLQ.
\* Refuted: a database error dead-letters the message and leaves the status.
DeadLetterQueueMatchesStatus == \A m \in dlq: status[ImportOf(m)] = "DEAD_LETTER"
==============================================================================
