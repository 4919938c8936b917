------------------------------ MODULE WorkerLoop ------------------------------
(***************************************************************************)
(* What imports-worker reports of itself: the select loop of Worker.Run      *)
(* (src/internal/processor/worker.go) with its two tickers, the heartbeat    *)
(* they set and the gauge of import statuses (updateImportMetrics,           *)
(* CountImportsByStatus). One goroutine does it all, so a delivery in hand   *)
(* keeps both waiting, and select chooses at random among what is ready.     *)
(* Only the call of the integration has a deadline: the statements run on a   *)
(* context without one and may wait for a connection of the pool as well.    *)
(* What a delivery does to the row and the queues is in ImportWorker: here   *)
(* it takes time and ends well or badly, and the row may change again later. *)
(***************************************************************************)
EXTENDS Integers, FiniteSets

CONSTANTS
  Imports,
  BeatPeriod,   \* of the heartbeat ticker (10 s)
  CountPeriod,  \* of the counts ticker (15 s)
  MaxBusy,      \* the longest Process of a delivery: its attempts, timeouts and waits
  AlertAfter,   \* age of the heartbeat that raises LabWorkerHeartbeatMissing (60 s)
  MaxFaults,    \* bound: redeliveries, database errors, deaths, signals
  MaxPassed     \* bound of the history passed

ASSUME BoundsAssumption ==
  /\ BeatPeriod \in Nat \ {0} /\ CountPeriod \in Nat \ {0}
  /\ MaxBusy \in Nat /\ AlertAfter \in Nat /\ MaxFaults \in Nat /\ MaxPassed \in Nat

\* The history passed is counted far enough to fill AlertAfter: nothing the code
\* has is bounded by MaxPassed.
ASSUME HistoryAssumption == MaxBusy = 0 \/ BeatPeriod + MaxBusy * (MaxPassed + 1) > AlertAfter

VARIABLES
  row,        \* imports.status
  queue,      \* imports with a message waiting for the worker
  at,         \* where the goroutine is: see Points
  cur,        \* the imports of the delivery in hand: one or none
  busy,       \* how long Process has worked on it
  sinceBeat, sinceCount,  \* time since each ticker fired
  beatDue, countDue,      \* a tick waits in the channel, which holds one
  stopping,   \* the context is cancelled
  age,        \* age of the heartbeat, up to AlertAfter + 1
  gauge,      \* ImportsCurrent
  read,       \* the counts CountImportsByStatus returned
  passed,     \* history: deliveries chosen while a heartbeat was due
  stalled,    \* history: time spent in Calls while a heartbeat was due, saturated
  faults

vars == <<row, queue, at, cur, busy, sinceBeat, sinceCount, beatDue, countDue, stopping,
          age, gauge, read, passed, stalled, faults>>

\* Calls without a deadline: StartProcessing, CompleteImport with the ack or nack
\* that follows it, for a success or a failure, and CountImportsByStatus.
Calls == {"start", "succeed", "deadletter", "read"}

\* Otherwise the goroutine waits in select, is in Process, or sets the gauge.
Points == {"down", "select", "working", "set"} \union Calls

Statuses == {"QUEUED", "PROCESSING", "SUCCEEDED", "DEAD_LETTER"}

Counts == [s \in Statuses |-> Cardinality({i \in Imports: row[i] = s})]
Zero == [s \in Statuses |-> 0]

Init ==
  /\ row = [i \in Imports |-> "none"] /\ queue = {}
  /\ at = "down" /\ cur = {} /\ busy = 0
  /\ sinceBeat = 0 /\ sinceCount = 0 /\ beatDue = FALSE /\ countDue = FALSE
  /\ stopping = FALSE
  /\ age = 0 /\ gauge = Zero /\ read = Zero
  /\ passed = 0 /\ stalled = 0 /\ faults = 0

------------------------------------------------------------------------------
\* Helpers

Fault == faults < MaxFaults /\ faults' = faults + 1

tickers == <<sinceBeat, sinceCount, beatDue, countDue>>
outside == <<row, queue, stopping>>
history == <<passed, stalled>>

\* Something is ready: select does not let time pass.
Ready == queue # {} \/ beatDue \/ countDue \/ stopping

------------------------------------------------------------------------------
\* The world

\* The outbox delivers a new import; RabbitMQ delivers an old one again.
Arrive(i) ==
  /\ i \notin queue \union cur
  /\ IF row[i] = "none"
     THEN row' = [row EXCEPT ![i] = "QUEUED"] /\ UNCHANGED faults
     ELSE Fault /\ UNCHANGED row
  /\ queue' = queue \union {i}
  /\ UNCHANGED <<at, cur, busy, tickers, stopping, age, gauge, read, history>>

\* Time is urgent for the loop: it passes when select waits, under Process up to
\* its deadline, and under the other calls for as long as they take.
Tick ==
  /\ \/ at = "select" /\ ~Ready
     \/ at = "working" /\ busy < MaxBusy
     \/ at \in Calls
  /\ stalled' = IF at \in Calls /\ beatDue /\ stalled < AlertAfter
                THEN stalled + 1 ELSE stalled
  /\ busy' = IF at = "working" THEN busy + 1 ELSE busy
  /\ sinceBeat' = (sinceBeat + 1) % BeatPeriod
  /\ sinceCount' = (sinceCount + 1) % CountPeriod
  /\ beatDue' = (beatDue \/ sinceBeat' = 0)
  /\ countDue' = (countDue \/ sinceCount' = 0)
  /\ age' = IF age > AlertAfter THEN age ELSE age + 1
  /\ UNCHANGED <<row, queue, at, cur, stopping, gauge, read, passed, faults>>

\* A new process: new tickers, gauges at zero, a first heartbeat.
Boot ==
  /\ at = "down"
  /\ at' = "select"
  /\ sinceBeat' = 0 /\ sinceCount' = 0 /\ beatDue' = FALSE /\ countDue' = FALSE
  /\ stopping' = FALSE
  /\ age' = 0 /\ gauge' = Zero /\ passed' = 0 /\ stalled' = 0
  /\ UNCHANGED <<row, queue, cur, busy, read, faults>>

\* The process ends and RabbitMQ takes its delivery back.
Gone ==
  /\ at' = "down"
  /\ queue' = queue \union cur
  /\ cur' = {} /\ busy' = 0 /\ read' = Zero

Die ==
  /\ at # "down"
  /\ Fault
  /\ Gone
  /\ UNCHANGED <<row, tickers, stopping, age, gauge, history>>

Signal ==
  /\ at # "down" /\ ~stopping
  /\ Fault
  /\ stopping' = TRUE
  /\ UNCHANGED <<row, queue, at, cur, busy, tickers, age, gauge, read, history>>

------------------------------------------------------------------------------
\* The cases of select

Leave ==
  /\ at = "select" /\ stopping
  /\ Gone
  /\ UNCHANGED <<row, tickers, stopping, age, gauge, history, faults>>

\* Variant: the tick is taken and the heartbeat not set.
BeatUnset ==
  /\ at = "select" /\ beatDue
  /\ beatDue' = FALSE /\ passed' = 0 /\ stalled' = 0
  /\ UNCHANGED <<outside, at, cur, busy, sinceBeat, sinceCount, countDue, age, gauge, read, faults>>

Beat ==
  /\ at = "select" /\ beatDue
  /\ beatDue' = FALSE
  /\ age' = 0 /\ passed' = 0 /\ stalled' = 0
  /\ UNCHANGED <<outside, at, cur, busy, sinceBeat, sinceCount, countDue, gauge, read, faults>>

CountTick ==
  /\ at = "select" /\ countDue
  /\ countDue' = FALSE
  /\ at' = "read"
  /\ UNCHANGED <<outside, cur, busy, sinceBeat, sinceCount, beatDue, age, gauge, read,
                 history, faults>>

\* A delivery is chosen, perhaps over a heartbeat that is due.
Take(i) ==
  /\ at = "select" /\ i \in queue
  /\ queue' = queue \ {i}
  /\ passed' = IF beatDue /\ passed < MaxPassed THEN passed + 1 ELSE passed
  /\ at' = "start"
  /\ cur' = {i} /\ busy' = 0
  /\ UNCHANGED <<row, tickers, stopping, age, gauge, read, stalled, faults>>

------------------------------------------------------------------------------
\* processDelivery and updateImportMetrics

Write(status) == row' = [i \in Imports |-> IF i \in cur THEN status ELSE row[i]]

\* A call is not answered: an error, or its context is cancelled.
Unanswered == IF stopping THEN UNCHANGED faults ELSE Fault

StartProcessing ==
  /\ at = "start" /\ ~stopping
  /\ Write("PROCESSING")
  /\ at' = "working"
  /\ UNCHANGED <<queue, cur, busy, tickers, stopping, age, gauge, read, history, faults>>

\* The delivery is out of hand, and the loop goes on without a new gauge.
Rejected ==
  /\ cur' = {} /\ at' = "select"
  /\ UNCHANGED <<queue, busy, tickers, stopping, age, gauge, read, history>>

\* StartProcessing fails, with or without effect, and the delivery is rejected.
StartFails ==
  /\ at = "start"
  /\ Unanswered
  /\ UNCHANGED row \/ Write("PROCESSING")
  /\ Rejected

\* The integration confirms, or its client gives up: an error or the deadline.
Process ==
  /\ at = "working"
  /\ at' \in {"succeed", "deadletter"}
  /\ busy' = 0
  /\ UNCHANGED <<outside, cur, tickers, age, gauge, read, history, faults>>

\* Acknowledged: the gauge is brought up to date at once.
Succeed ==
  /\ at = "succeed" /\ ~stopping
  /\ Write("SUCCEEDED")
  /\ cur' = {}
  /\ at' = "read"
  /\ UNCHANGED <<queue, busy, tickers, stopping, age, gauge, read, history, faults>>

\* The connection is gone: no acknowledgement, no gauge, and Run ends at its
\* closed stream.
AckFails ==
  /\ at = "succeed" /\ ~stopping
  /\ Fault
  /\ Write("SUCCEEDED")
  /\ Gone
  /\ UNCHANGED <<tickers, stopping, age, gauge, history>>

\* Dead-lettered: the gauge waits for the next tick.
DeadLetter ==
  /\ at = "deadletter" /\ ~stopping
  /\ Write("DEAD_LETTER")
  /\ UNCHANGED faults
  /\ Rejected

\* CompleteImport fails, with or without effect, and the delivery is rejected.
CompleteFails ==
  /\ \/ at = "succeed" /\ (UNCHANGED row \/ Write("SUCCEEDED"))
     \/ at = "deadletter" /\ (UNCHANGED row \/ Write("DEAD_LETTER"))
  /\ Unanswered
  /\ Rejected

CountImportsByStatus ==
  /\ at = "read" /\ ~stopping
  /\ read' = Counts
  /\ at' = "set"
  /\ UNCHANGED <<outside, cur, busy, tickers, age, gauge, history, faults>>

CountFails ==
  /\ at = "read"
  /\ Unanswered
  /\ at' = "select"
  /\ UNCHANGED <<outside, cur, busy, tickers, age, gauge, read, history>>

\* Variant: only the statuses the query returned are set.
SetPresent ==
  /\ at = "set"
  /\ gauge' = [s \in Statuses |-> IF read[s] > 0 THEN read[s] ELSE gauge[s]]
  /\ at' = "select" /\ read' = Zero
  /\ UNCHANGED <<outside, cur, busy, tickers, age, history, faults>>

\* A status no row has is missing from the answer, and set to zero.
SetGauge ==
  /\ at = "set"
  /\ gauge' = read
  /\ at' = "select" /\ read' = Zero
  /\ UNCHANGED <<outside, cur, busy, tickers, age, history, faults>>

------------------------------------------------------------------------------
Finish ==
  \/ StartProcessing \/ StartFails \/ Process
  \/ Succeed \/ AckFails \/ DeadLetter \/ CompleteFails
  \/ CountImportsByStatus \/ CountFails \/ SetGauge

Next ==
  \/ \E i \in Imports: Arrive(i) \/ Take(i)
  \/ Tick \/ Boot \/ Die \/ Signal \/ Leave \/ Beat \/ CountTick \/ Finish

Spec == Init /\ [][Next]_vars

\* Time passes, every call comes back in the end, the process is restarted, and a
\* case of select that is ready again and again is chosen: the choice is random.
\* Of deliveries it is enough that one is taken when nothing else is ready.
Fairness ==
  /\ WF_vars(Tick) /\ WF_vars(Boot) /\ WF_vars(Finish)
  /\ SF_vars(Leave) /\ SF_vars(Beat) /\ SF_vars(CountTick)
  /\ WF_vars(\E i \in Imports: Take(i))

FairSpec == Spec /\ Fairness

------------------------------------------------------------------------------
\* Properties

\* LabWorkerHeartbeatMissing accuses a living worker only if, over a heartbeat
\* that was due, select chose deliveries and their database calls stalled for so
\* long that both together fill the time: Process alone takes MaxBusy at most.
AlertMeansStarved ==
  at # "down" /\ age > AlertAfter =>
    BeatPeriod + MaxBusy * (passed + 1) + stalled > AlertAfter

\* Once the rows stay as they are, the gauge shows them and keeps showing them,
\* although nothing updates it after a failure, its queries may fail, and a new
\* process starts from zero.
GaugeCatchesUp == <>[](gauge = Counts)
==============================================================================
