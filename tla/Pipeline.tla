------------------------------- MODULE Pipeline -------------------------------
(***************************************************************************)
(* The way of an import through the whole system: ImportWorker with the      *)
(* Outbox in the place of its abstract Publish. The API commits the import    *)
(* with its event (StoreEvent), the publishers of the API replicas hand the  *)
(* event to RabbitMQ, which enqueues one message for the workers each time   *)
(* it accepts a copy. Publishers and workers share RabbitMQ and the bound on *)
(* faults; their processes, connections and failures are independent.       *)
(***************************************************************************)
EXTENDS ImportWorker

CONSTANTS Publishers, NoOne, NoEvent, BatchLimit

ASSUME NumberedAssumption == Imports \subseteq Nat
ASSUME PublishersAssumption ==
  NoOne \notin Publishers /\ NoEvent \notin Imports /\ BatchLimit \in Nat \ {0}

VARIABLES
  stored, published, lockedBy, stale,       \* outbox_events, see Outbox
  ppc, batch, current, connected,           \* the publishers
  accepted, limbo, lapsed, unsure, overdue, robbed

O == INSTANCE Outbox WITH Events <- Imports, Flaky <- Publishers, pc <- ppc

outbox == <<stored, published, lockedBy, stale, ppc, batch, current, connected,
            accepted, limbo, lapsed, unsure, overdue, robbed>>
worker == <<status, queues, process, history>>
pvars == <<outbox, worker, faults>>

PipeInit == Init /\ O!Init

------------------------------------------------------------------------------
\* A copy RabbitMQ accepts is a message in the queue of the workers.
Enqueue(i) == \E n \in 1..MaxCopies: Publish(i, n)

Accepted(p) == O!BrokerAccept(p) /\ Enqueue(current[p])

AcceptedLate(i) == O!LateAccept(i) /\ Enqueue(i)

\* What the publishers and their table do by themselves.
PublisherSide ==
  /\ \/ \E i \in Imports: O!StoreEvent(i) \/ O!LeaseExpires(i) \/ O!LateDrop(i)
     \/ \E p \in Publishers: O!Start(p) \/ O!PublisherStep(p) \/ O!PublisherFault(p)
  /\ UNCHANGED worker

WorkerSide ==
  /\ \E w \in Workers:
       \/ \E m \in Msgs: Deliver(w, m)
       \/ Boot(w) \/ Exit(w) \/ Step(w) \/ Disturbance(w)
  /\ UNCHANGED outbox

PipeNext ==
  \/ PublisherSide \/ WorkerSide
  \/ \E p \in Publishers: Accepted(p)
  \/ \E i \in Imports: AcceptedLate(i)

PipeSpec == PipeInit /\ [][PipeNext]_pvars

\* As in the two modules: tickers and deliveries go on, processes are restarted,
\* RabbitMQ answers, leases run out.
PipeFairness ==
  /\ \A w \in Workers:
       /\ WF_pvars((\E m \in Msgs: Deliver(w, m)) /\ UNCHANGED outbox)
       /\ WF_pvars(Step(w) /\ UNCHANGED outbox)
       /\ WF_pvars(Exit(w) /\ UNCHANGED outbox)
       /\ WF_pvars(Boot(w) /\ UNCHANGED outbox)
  /\ \A p \in Publishers:
       /\ WF_pvars(O!Start(p) /\ UNCHANGED worker)
       /\ WF_pvars(O!PublisherStep(p) /\ UNCHANGED worker)
       /\ WF_pvars(Accepted(p))
  /\ \A i \in Imports: WF_pvars(O!LeaseExpires(i) /\ UNCHANGED worker)

------------------------------------------------------------------------------
\* Properties

\* From the commit of the API on, an import that is not SUCCEEDED can always be
\* found: its event is not closed yet, or one of its messages is in a queue or
\* in a worker's hands. This holds of the deployed single worker, whatever
\* connections are lost (NoSilentLoss has the exception several workers need).
EveryImportIsAccountedFor ==
  \A i \in stored:
    status[i] # "SUCCEEDED" =>
      i \notin published \/ \E m \in sent \ acked: ImportOf(m) = i

\* A second effect of an import is traced to its cause on one of its two ways:
\* a lease that ran out or a publish of unknown outcome in the outbox, or a
\* delivery that RabbitMQ took back from a worker.
SecondEffectHasACause ==
  \A i \in Imports: effects[i] > 1 => i \in lapsed \union unsure \union requeued

\* Outbox, RabbitMQ and worker together implement the life of an import.
Lifecycle ==
  INSTANCE ImportLifecycle WITH
    accepted <- stored,
    confirmed <- {i \in Imports: effects[i] > 0},
    finished <- {ImportOf(m): m \in acked},
    buried <- {ImportOf(m): m \in dlq}

ImplementsLifecycle == Lifecycle!Spec

\* An import whose transaction committed ends up acknowledged or dead-lettered,
\* whatever fails on the way, if replicas without a connection are restarted.
EveryImportSettles ==
  <>[](\A p \in Publishers: ppc[p] # "down" => connected[p]) =>
    \A i \in Imports:
      i \in stored ~> i \in {ImportOf(m): m \in acked \union dlq}
==============================================================================
