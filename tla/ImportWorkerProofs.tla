-------------------------- MODULE ImportWorkerProofs --------------------------
(***************************************************************************)
(* Proofs about the workers for any number of imports, copies, workers and   *)
(* faults.                                                                  *)
(***************************************************************************)
EXTENDS ImportWorker, TLAPS

------------------------------------------------------------------------------
\* The inductive invariant

Processing == {"start", "call", "succeed", "deadletter", "ack", "nack"}

\* A worker has a delivery in hand exactly while it processes one.
Occupied ==
  \A w \in Workers:
    /\ pc[w] \in Processing => cur[w] \in Msgs
    /\ pc[w] \notin Processing => cur[w] = NoMsg
    /\ pc[w] = "down" => held[w] = {} /\ ~linked[w]

InHand(w) == {m \in Msgs: m \in held[w] \/ m = cur[w]}

\* What a worker has in hand is unacknowledged on its channel, or was taken back
\* when it lost its connection.
Hands ==
  \A w \in Workers:
    /\ cur[w] \notin held[w]
    /\ \A m \in InHand(w):
         IF linked[w] THEN m \in unacked[w] ELSE ImportOf(m) \in requeued \intersect zombied

\* A published message is in one place.
Places ==
  /\ ready \subseteq sent /\ acked \subseteq sent
  /\ ready \intersect acked = {}
  /\ \A w \in Workers:
       /\ unacked[w] \subseteq sent
       /\ unacked[w] \intersect (ready \union acked) = {}
       /\ \A v \in Workers: v # w => unacked[w] \intersect unacked[v] = {}

\* The outbox numbers its copies from one.
Numbered == \A i \in Imports: \A n \in 2..MaxCopies: <<i, n>> \in sent => <<i, 2>> \in sent

\* A worker goes on to success only with the confirmation of the integration.
Confirmed ==
  \A w \in Workers: pc[w] \in {"succeed", "ack"} => effects[ImportOf(cur[w])] > 0

\* A message that is neither acknowledged nor about to be.
Open(m) == m \in sent \ acked /\ \A w \in Workers: cur[w] = m => pc[w] # "ack"

\* NoSilentLoss, strengthened: the message that remains is not about to go.
Found(i) ==
  (\E m \in sent: ImportOf(m) = i) /\ status[i] # "SUCCEEDED" =>
    \E m \in Msgs: ImportOf(m) = i /\ Open(m)

Findable == \A i \in Imports \ zombied: Found(i)

\* Once its only copy was confirmed, nobody will call the integration for it.
Spent(i) ==
  /\ <<i, 1>> \in sent \ ready
  /\ \A w \in Workers:
       /\ <<i, 1>> \notin held[w]
       /\ cur[w] = <<i, 1>> => pc[w] \in {"succeed", "ack", "nack"}

Undisturbed(i) == <<i, 2>> \notin sent /\ i \notin requeued

OneEffect ==
  \A i \in Imports: Undisturbed(i) =>
    /\ effects[i] < 2
    /\ effects[i] > 0 => Spent(i)

Typing == TypeOK /\ Occupied
Safe == Hands /\ Places /\ Numbered
IInv == Typing /\ Safe /\ Confirmed /\ ProcessedBeforeSettled /\ Findable /\ OneEffect

------------------------------------------------------------------------------
\* Types

LEMMA ImportOfTyped == \A m \in Msgs: ImportOf(m) \in Imports
BY DEF Msgs, ImportOf

LEMMA RequeueTyped ==
  ASSUME TypeOK, NEW w \in Workers, Requeue(w)
  PROVE  ready' \subseteq Msgs /\ unacked' \in [Workers -> SUBSET Msgs] /\ requeued' \subseteq Imports
BY ImportOfTyped DEF TypeOK, Requeue

LEMMA FaultTyped ==
  ASSUME TypeOK, Fault
  PROVE  faults' \in 0..MaxFaults
BY BoundsAssumption DEF TypeOK, Fault

LEMMA TroubleTyped ==
  ASSUME TypeOK, NEW w \in Workers, Trouble(w)
  PROVE  faults' \in 0..MaxFaults
BY FaultTyped DEF Trouble, TypeOK

\* Every step keeps the types, and a delivery in hand while one is processed.
LEMMA TypingStep == Typing /\ [Next]_vars => Typing'
<1>. SUFFICES ASSUME Typing, [Next]_vars PROVE Typing'
  OBVIOUS
<1>. USE NoMsgAssumption, ImportOfTyped
     DEF Typing, TypeOK, PCs, Occupied, Processing, Statuses, process, queues, history, Goto
<1>1. ASSUME NEW i \in Imports, NEW n \in 1..MaxCopies, Publish(i, n) PROVE Typing'
  <2>1. <<i, n>> \in Msgs
    BY DEF Msgs
  <2>. QED BY <1>1, <2>1 DEF Publish
<1>2. ASSUME NEW w \in Workers, NEW m \in Msgs, Deliver(w, m) PROVE Typing'
  BY <1>2 DEF Deliver
<1>3. ASSUME NEW w \in Workers, Boot(w) PROVE Typing'
  BY <1>3 DEF Boot
<1>4. ASSUME NEW w \in Workers, Exit(w) PROVE Typing'
  BY <1>4, RequeueTyped DEF Exit, Gone
<1>5. ASSUME NEW w \in Workers, NEW m \in Msgs, Take(w, m) PROVE Typing'
  BY <1>5 DEF Take
<1>6. ASSUME NEW w \in Workers, StartProcessing(w) PROVE Typing'
  BY <1>6 DEF StartProcessing, SetStatus
<1>7. ASSUME NEW w \in Workers, ProcessSucceeds(w) PROVE Typing'
  BY <1>7 DEF ProcessSucceeds
<1>8. ASSUME NEW w \in Workers, ProcessFails(w) PROVE Typing'
  BY <1>8 DEF ProcessFails
<1>9. ASSUME NEW w \in Workers, CompleteSucceeded(w) PROVE Typing'
  BY <1>9 DEF CompleteSucceeded, SetStatus
<1>10. ASSUME NEW w \in Workers, CompleteDeadLetter(w) PROVE Typing'
  BY <1>10 DEF CompleteDeadLetter, SetStatus
<1>11. ASSUME NEW w \in Workers, Ack(w) PROVE Typing'
  BY <1>11 DEF Ack, Settle, Settled
<1>12. ASSUME NEW w \in Workers, Nack(w) PROVE Typing'
  BY <1>12 DEF Nack, Settle, Settled
<1>13. ASSUME NEW w \in Workers, StartFails(w) PROVE Typing'
  BY <1>13, TroubleTyped DEF StartFails, SetStatus
<1>14. ASSUME NEW w \in Workers, CompleteFails(w) PROVE Typing'
  BY <1>14, TroubleTyped DEF CompleteFails, SetStatus
<1>15. ASSUME NEW w \in Workers, LoseConnection(w) PROVE Typing'
  BY <1>15, RequeueTyped, FaultTyped DEF LoseConnection
<1>16. ASSUME NEW w \in Workers, Terminate(w) PROVE Typing'
  BY <1>16, FaultTyped DEF Terminate
<1>17. ASSUME NEW w \in Workers, Crash(w) PROVE Typing'
  BY <1>17, RequeueTyped, FaultTyped DEF Crash, Gone
<1>18. ASSUME UNCHANGED vars PROVE Typing'
  BY <1>18 DEF vars
<1>. HIDE DEF Typing
<1>. QED
  BY <1>1, <1>2, <1>3, <1>4, <1>5, <1>6, <1>7, <1>8, <1>9, <1>10, <1>11,
     <1>12, <1>13, <1>14, <1>15, <1>16, <1>17, <1>18
     DEF Next, Step, Disturbance

------------------------------------------------------------------------------
\* Where the messages are

\* Every step keeps Hands, Places and Numbered: steps that leave the queues and
\* the deliveries in hand alone keep them trivially.
LEMMA SafeStep == Typing /\ Safe /\ [Next]_vars => Safe'
<1>. SUFFICES ASSUME Typing, Safe, [Next]_vars PROVE Safe'
  OBVIOUS
<1>. USE NoMsgAssumption, ImportOfTyped
     DEF Typing, TypeOK, Occupied, Processing, Safe, Hands, InHand, Places, process, queues,
         history, Goto
<1>1. ASSUME NEW i \in Imports, NEW n \in 1..MaxCopies, Publish(i, n) PROVE Safe'
  <2>1. <<i, n>> \in Msgs
    BY DEF Msgs
  <2>2. Hands'
    BY <1>1 DEF Publish
  <2>3. Places'
    <3>1. sent' = sent \union {<<i, n>>} /\ ready' = ready \union {<<i, n>>}
      BY <1>1 DEF Publish
    <3>2. <<i, n>> \notin sent /\ acked' = acked /\ unacked' = unacked
      BY <1>1 DEF Publish
    <3>. HIDE DEF Hands, Typing, TypeOK
    <3>. QED BY <3>1, <3>2
  <2>4. Numbered'
    BY <1>1, BoundsAssumption DEF Publish, Numbered
  <2>. QED BY <2>2, <2>3, <2>4 DEF Safe
<1>2. CASE sent' = sent
  <2>1. Numbered'
    BY <1>2 DEF Numbered
  <2>2. ASSUME UNCHANGED <<sent, ready, unacked, acked, cur, held, linked, requeued, zombied>>
        PROVE  Safe'
    BY <2>1, <2>2
  <2>3. ASSUME NEW w \in Workers, NEW m \in Msgs, Deliver(w, m) PROVE Safe'
    BY <2>1, <2>3 DEF Deliver
  <2>4. ASSUME NEW w \in Workers, Boot(w) PROVE Safe'
    BY <2>1, <2>4 DEF Boot
  <2>5. ASSUME NEW w \in Workers, Exit(w) \/ Crash(w) PROVE Safe'
    <3>1. Gone(w) /\ UNCHANGED <<sent, acked, zombied>>
      BY <2>5 DEF Exit, Crash
    <3>2. Hands'
      BY <3>1 DEF Gone, Requeue
    <3>3. Places'
      BY <3>1 DEF Gone, Requeue
    <3>. QED BY <2>1, <3>2, <3>3
  <2>6. ASSUME NEW w \in Workers, NEW m \in Msgs, Take(w, m) PROVE Safe'
    BY <2>1, <2>6 DEF Take
  <2>7. ASSUME NEW w \in Workers, Ack(w) PROVE Safe'
    BY <2>1, <2>7 DEF Ack, Settle, Settled
  <2>8. ASSUME NEW w \in Workers, Nack(w) PROVE Safe'
    BY <2>1, <2>8 DEF Nack, Settle, Settled
  <2>9. ASSUME NEW w \in Workers, LoseConnection(w) PROVE Safe'
    BY <2>1, <2>9 DEF LoseConnection, Requeue
  <2>10. ASSUME NEW w \in Workers, StartProcessing(w) \/ ProcessSucceeds(w) \/ ProcessFails(w)
         PROVE  Safe'
    BY <2>2, <2>10 DEF StartProcessing, ProcessSucceeds, ProcessFails
  <2>11. ASSUME NEW w \in Workers, CompleteSucceeded(w) \/ CompleteDeadLetter(w) PROVE Safe'
    BY <2>2, <2>11 DEF CompleteSucceeded, CompleteDeadLetter
  <2>12. ASSUME NEW w \in Workers, StartFails(w) \/ CompleteFails(w) \/ Terminate(w) PROVE Safe'
    BY <2>2, <2>12 DEF StartFails, CompleteFails, Terminate
  <2>13. ASSUME UNCHANGED vars PROVE Safe'
    BY <2>2, <2>13 DEF vars
  <2>. HIDE DEF Safe
  <2>. QED
    BY <1>1, <2>3, <2>4, <2>5, <2>6, <2>7, <2>8, <2>9, <2>10, <2>11, <2>12, <2>13
       DEF Next, Step, Disturbance
<1>. HIDE DEF Safe
<1>3. sent' = sent \/ \E i \in Imports, n \in 1..MaxCopies: Publish(i, n)
  BY DEF vars, Next, Step, Disturbance, Deliver, Boot, Exit, Gone, Take, StartProcessing,
         ProcessSucceeds, ProcessFails, CompleteSucceeded, CompleteDeadLetter, Ack, Nack,
         StartFails, CompleteFails, LoseConnection, Terminate, Crash
<1>. QED BY <1>1, <1>2, <1>3

------------------------------------------------------------------------------
\* What settling presupposes

\* SUCCEEDED and the acknowledgements rest on the integration's confirmation.
LEMMA ConfirmedStep ==
  Typing /\ Confirmed /\ ProcessedBeforeSettled /\ [Next]_vars
    => Confirmed' /\ ProcessedBeforeSettled'
<1>. DEFINE Goal == Confirmed' /\ ProcessedBeforeSettled'
<1>. SUFFICES ASSUME Typing, Confirmed, ProcessedBeforeSettled, [Next]_vars PROVE Goal
  OBVIOUS
<1>. USE ImportOfTyped
     DEF Typing, TypeOK, Occupied, Processing, Confirmed, ProcessedBeforeSettled, process,
         queues, history, Goto, SetStatus
<1>1. ASSUME NEW i \in Imports, NEW n \in 1..MaxCopies, Publish(i, n) PROVE Goal
  BY <1>1 DEF Publish
<1>2. ASSUME NEW w \in Workers, NEW m \in Msgs, Deliver(w, m) \/ Take(w, m) PROVE Goal
  BY <1>2 DEF Deliver, Take
<1>3. ASSUME NEW w \in Workers, Boot(w) \/ Terminate(w) PROVE Goal
  BY <1>3 DEF Boot, Terminate
<1>4. ASSUME NEW w \in Workers, Exit(w) \/ Crash(w) PROVE Goal
  BY <1>4 DEF Exit, Crash, Gone
<1>5. ASSUME NEW w \in Workers, StartProcessing(w) \/ StartFails(w) PROVE Goal
  BY <1>5 DEF StartProcessing, StartFails
<1>6. ASSUME NEW w \in Workers, ProcessSucceeds(w) PROVE Goal
  BY <1>6 DEF ProcessSucceeds
<1>7. ASSUME NEW w \in Workers, ProcessFails(w) PROVE Goal
  BY <1>7 DEF ProcessFails
<1>8. ASSUME NEW w \in Workers, CompleteSucceeded(w) PROVE Goal
  BY <1>8 DEF CompleteSucceeded
<1>9. ASSUME NEW w \in Workers, CompleteDeadLetter(w) PROVE Goal
  BY <1>9 DEF CompleteDeadLetter
<1>10. ASSUME NEW w \in Workers, CompleteFails(w) PROVE Goal
  BY <1>10 DEF CompleteFails
<1>11. ASSUME NEW w \in Workers, Ack(w) PROVE Goal
  BY <1>11 DEF Ack, Settle, Settled
<1>12. ASSUME NEW w \in Workers, Nack(w) PROVE Goal
  BY <1>12 DEF Nack, Settle
<1>13. ASSUME NEW w \in Workers, LoseConnection(w) PROVE Goal
  BY <1>13 DEF LoseConnection
<1>14. ASSUME UNCHANGED vars PROVE Goal
  BY <1>14 DEF vars
<1>. HIDE DEF Goal
<1>. QED
  BY <1>1, <1>2, <1>3, <1>4, <1>5, <1>6, <1>7, <1>8, <1>9, <1>10, <1>11, <1>12, <1>13, <1>14
     DEF Next, Step, Disturbance

------------------------------------------------------------------------------
\* Nothing is lost

\* Whoever processes the import and is not about to acknowledge it has an open
\* message in hand.
InOpenHands(i) ==
  \A w \in Workers: cur[w] \in Msgs /\ ImportOf(cur[w]) = i =>
    cur[w] \in sent /\ (pc[w] # "ack" => Open(cur[w]))

\* The message in hand of a worker that did not lose it is nobody else's.
LEMMA MineIsOpen ==
  ASSUME Typing, Safe, NEW i \in Imports \ zombied
  PROVE  InOpenHands(i)
<1>. SUFFICES ASSUME NEW w \in Workers, cur[w] \in Msgs, ImportOf(cur[w]) = i
              PROVE  cur[w] \in sent /\ (pc[w] # "ack" => Open(cur[w]))
  BY DEF InOpenHands
<1>1. linked[w] /\ cur[w] \in unacked[w]
  BY DEF Safe, Hands, InHand
<1>2. cur[w] \in sent \ acked
  BY <1>1 DEF Safe, Places
<1>3. ASSUME NEW v \in Workers, cur[v] = cur[w], v # w PROVE FALSE
  <2>1. cur[v] \in unacked[v]
    BY <1>3 DEF Safe, Hands, InHand
  <2>. QED BY <1>1, <1>3, <2>1 DEF Safe, Places
<1>. QED BY <1>2, <1>3 DEF Open

\* An open message stays open unless its worker goes on to acknowledge it.
LEMMA OpenStays ==
  ASSUME Typing, Safe, [Next]_vars, NEW m \in Msgs, Open(m),
         \A w \in Workers: cur[w] = m => pc'[w] # "ack"
  PROVE  Open(m)'
<1>. USE NoMsgAssumption
     DEF Typing, TypeOK, Occupied, Processing, Open, process, queues, history, Goto
<1>1. ASSUME NEW i \in Imports, NEW n \in 1..MaxCopies, Publish(i, n) PROVE Open(m)'
  BY <1>1 DEF Publish
<1>2. ASSUME NEW w \in Workers, NEW k \in Msgs, Deliver(w, k) \/ Take(w, k) PROVE Open(m)'
  BY <1>2 DEF Deliver, Take
<1>3. ASSUME NEW w \in Workers, Boot(w) \/ Exit(w) \/ Crash(w) \/ LoseConnection(w)
      PROVE  Open(m)'
  BY <1>3 DEF Boot, Exit, Crash, Gone, LoseConnection
<1>4. ASSUME NEW w \in Workers, StartProcessing(w) \/ ProcessSucceeds(w) \/ ProcessFails(w)
      PROVE  Open(m)'
  BY <1>4 DEF StartProcessing, ProcessSucceeds, ProcessFails
<1>5. ASSUME NEW w \in Workers, CompleteSucceeded(w) PROVE Open(m)'
  BY <1>5 DEF CompleteSucceeded
<1>6. ASSUME NEW w \in Workers, CompleteDeadLetter(w) \/ StartFails(w) \/ CompleteFails(w)
      PROVE  Open(m)'
  BY <1>6 DEF CompleteDeadLetter, StartFails, CompleteFails
<1>7. ASSUME NEW w \in Workers, Ack(w) PROVE Open(m)'
  BY <1>7 DEF Ack, Settle, Settled
<1>8. ASSUME NEW w \in Workers, Nack(w) PROVE Open(m)'
  BY <1>8 DEF Nack, Settle
<1>9. ASSUME NEW w \in Workers, Terminate(w) PROVE Open(m)'
  BY <1>9 DEF Terminate
<1>10. ASSUME UNCHANGED vars PROVE Open(m)'
  BY <1>10 DEF vars
<1>. HIDE DEF Open
<1>. QED
  BY <1>1, <1>2, <1>3, <1>4, <1>5, <1>6, <1>7, <1>8, <1>9, <1>10 DEF Next, Step, Disturbance

\* Writes a status that leaves the import unfinished.
Unfinishes(w) ==
  StartProcessing(w) \/ StartFails(w) \/ CompleteDeadLetter(w) \/ CompleteFails(w)

\* Who writes which status: only CompleteImport before an acknowledgement, and
\* the steps that leave the import unfinished.
LEMMA StatusStep ==
  ASSUME Typing, [Next]_vars, NEW i \in Imports
  PROVE  \/ status'[i] = status[i]
         \/ \E w \in Workers: ImportOf(cur[w]) = i /\ (Unfinishes(w) \/ status'[i] = "SUCCEEDED")
<1>. DEFINE Goal == \/ status'[i] = status[i]
                    \/ \E w \in Workers: ImportOf(cur[w]) = i
                                         /\ (Unfinishes(w) \/ status'[i] = "SUCCEEDED")
<1>1. CASE status' = status
  BY <1>1
<1>2. ASSUME NEW w \in Workers, Unfinishes(w) PROVE Goal
  <2>1. ImportOf(cur[w]) # i => status'[i] = status[i]
    BY <1>2 DEF Typing, TypeOK, Unfinishes, StartProcessing, StartFails, CompleteDeadLetter,
                CompleteFails, SetStatus
  <2>. QED BY <1>2, <2>1
<1>3. ASSUME NEW w \in Workers, CompleteSucceeded(w) PROVE Goal
  <2>1. /\ ImportOf(cur[w]) # i => status'[i] = status[i]
        /\ ImportOf(cur[w]) = i => status'[i] = "SUCCEEDED"
    BY <1>3 DEF Typing, TypeOK, CompleteSucceeded, SetStatus
  <2>. QED BY <1>3, <2>1
<1>4. \/ status' = status
      \/ \E w \in Workers: Unfinishes(w) \/ CompleteSucceeded(w)
  BY DEF vars, Next, Step, Disturbance, Publish, Deliver, Boot, Exit, Gone, Take,
         ProcessSucceeds, ProcessFails, Ack, Nack, LoseConnection, Terminate, Crash, Unfinishes
<1>. QED BY <1>1, <1>2, <1>3, <1>4

\* A worker comes to acknowledge only after it stored SUCCEEDED.
LEMMA ToAck ==
  ASSUME Typing, [Next]_vars, NEW w \in Workers, pc[w] # "ack", pc'[w] = "ack"
  PROVE  status'[ImportOf(cur[w])] = "SUCCEEDED"
<1>. USE DEF Typing, TypeOK, Goto, process
<1>1. ASSUME NEW v \in Workers, CompleteSucceeded(v)
      PROVE  status'[ImportOf(cur[w])] = "SUCCEEDED"
  <2>1. v = w
    BY <1>1 DEF CompleteSucceeded
  <2>2. cur[w] \in Msgs
    BY <1>1, <2>1 DEF CompleteSucceeded, Occupied, Processing
  <2>. QED BY <1>1, <2>1, <2>2, ImportOfTyped DEF CompleteSucceeded, SetStatus
<1>2. ASSUME NEW v \in Workers, NEW l \in PCs \ {"ack"}, Goto(v, l) PROVE FALSE
  BY <1>2
<1>3. ASSUME UNCHANGED pc PROVE FALSE
  BY <1>3
<1>4. ASSUME NEW v \in Workers, StartProcessing(v) \/ ProcessSucceeds(v) \/ ProcessFails(v)
      PROVE  FALSE
  BY <1>2, <1>4 DEF StartProcessing, ProcessSucceeds, ProcessFails, PCs
<1>5. ASSUME NEW v \in Workers, CompleteDeadLetter(v) \/ StartFails(v) \/ CompleteFails(v)
      PROVE  FALSE
  BY <1>2, <1>5 DEF CompleteDeadLetter, StartFails, CompleteFails, PCs
<1>6. ASSUME NEW v \in Workers, Ack(v) \/ Nack(v) \/ Boot(v) \/ Exit(v) \/ Crash(v)
      PROVE  FALSE
  BY <1>2, <1>6 DEF Ack, Nack, Settle, Boot, Exit, Crash, Gone, PCs
<1>7. ASSUME NEW v \in Workers, NEW m \in Msgs, Take(v, m) PROVE FALSE
  BY <1>2, <1>7 DEF Take, PCs
<1>8. ASSUME NEW v \in Workers, Terminate(v) \/ LoseConnection(v) PROVE FALSE
  BY <1>3, <1>8 DEF Terminate, LoseConnection
<1>9. ASSUME NEW v \in Workers, NEW m \in Msgs, Deliver(v, m) PROVE FALSE
  BY <1>3, <1>9 DEF Deliver
<1>10. ASSUME NEW i \in Imports, NEW n \in 1..MaxCopies, Publish(i, n) PROVE FALSE
  BY <1>3, <1>10 DEF Publish
<1>11. ASSUME UNCHANGED vars PROVE FALSE
  BY <1>3, <1>11 DEF vars
<1>. QED
  BY <1>1, <1>4, <1>5, <1>6, <1>7, <1>8, <1>9, <1>10, <1>11 DEF Next, Step, Disturbance

\* What remains of an import remains.
LEMMA FoundStays ==
  ASSUME Typing, Safe, [Next]_vars, NEW i \in Imports, InOpenHands(i), Found(i)
  PROVE  Found(i)'
<1>. SUFFICES ASSUME NEW k \in sent', ImportOf(k) = i, status'[i] # "SUCCEEDED"
              PROVE  \E m \in Msgs: ImportOf(m) = i /\ Open(m)'
  BY DEF Found
<1>1. ASSUME NEW w \in Workers, ImportOf(cur[w]) = i, Unfinishes(w)
      PROVE  \E m \in Msgs: ImportOf(m) = i /\ Open(m)'
  <2>1. pc[w] \in Processing \ {"ack"} /\ pc' \in [Workers -> PCs] /\ pc'[w] # "ack"
    BY <1>1 DEF Unfinishes, StartProcessing, StartFails, CompleteDeadLetter, CompleteFails,
                Processing, Goto, Typing, TypeOK, PCs
  <2>2. PICK m \in Msgs: m = cur[w] /\ Open(m)
    BY <1>1, <2>1 DEF InOpenHands, Typing, Occupied
  <2>3. \A v \in Workers: v # w => pc'[v] = pc[v]
    BY <1>1 DEF Unfinishes, StartProcessing, StartFails, CompleteDeadLetter, CompleteFails,
                Goto, Typing, TypeOK
  <2>4. \A v \in Workers: cur[v] = m => pc'[v] # "ack"
    BY <2>1, <2>2, <2>3 DEF Open
  <2>. QED BY <1>1, <2>2, <2>4, OpenStays
<1>2. ASSUME NEW n \in 1..MaxCopies, Publish(i, n)
      PROVE  \E m \in Msgs: ImportOf(m) = i /\ Open(m)'
  <2>1. <<i, n>> \in Msgs /\ ImportOf(<<i, n>>) = i
    BY DEF Msgs, ImportOf
  <2>2. <<i, n>> \in sent' \ acked'
    BY <1>2, <2>1 DEF Publish, Safe, Places
  <2>3. ASSUME NEW w \in Workers, cur[w] = <<i, n>> PROVE FALSE
    BY <1>2, <2>1, <2>3 DEF Publish, InOpenHands
  <2>4. cur' = cur
    BY <1>2 DEF Publish, process
  <2>. QED BY <2>1, <2>2, <2>3, <2>4 DEF Open
<1>3. CASE status'[i] = status[i] /\ k \in sent
  <2>1. PICK m \in Msgs: ImportOf(m) = i /\ Open(m)
    BY <1>3 DEF Found
  <2>2. ASSUME NEW w \in Workers, cur[w] = m, pc'[w] = "ack" PROVE FALSE
    BY <2>1, <2>2, ToAck DEF Open
  <2>. QED BY <2>1, <2>2, OpenStays
<1>4. \/ sent' = sent
      \/ \E j \in Imports, n \in 1..MaxCopies: Publish(j, n)
  BY DEF vars, Next, Step, Disturbance, Deliver, Boot, Exit, Take, StartProcessing,
         ProcessSucceeds, ProcessFails, CompleteSucceeded, CompleteDeadLetter, Ack, Nack,
         StartFails, CompleteFails, LoseConnection, Terminate, Crash, queues
<1>5. ASSUME NEW j \in Imports, NEW n \in 1..MaxCopies, Publish(j, n), j # i
      PROVE  status' = status /\ k \in sent
  BY <1>5 DEF Publish, ImportOf
<1>. QED BY <1>1, <1>2, <1>3, <1>4, <1>5, StatusStep

LEMMA FindableStep == Typing /\ Safe /\ Findable /\ [Next]_vars => Findable'
<1>. SUFFICES ASSUME Typing, Safe, Findable, [Next]_vars, NEW i \in Imports \ zombied'
              PROVE  Found(i)'
  BY DEF Findable
<1>1. i \notin zombied
  BY DEF vars, Next, Step, Disturbance, Publish, Deliver, Boot, Exit, Take, StartProcessing,
         ProcessSucceeds, ProcessFails, CompleteSucceeded, CompleteDeadLetter, Ack, Nack,
         StartFails, CompleteFails, LoseConnection, Terminate, Crash, history
<1>. QED BY <1>1, FoundStays, MineIsOpen DEF Findable

------------------------------------------------------------------------------
\* The integration confirms an import once

\* While the outbox published an import once and no delivery of it was taken back,
\* a worker that processes the import has its only copy, and has it alone.
LEMMA OneHand ==
  ASSUME Typing, Safe, NEW i \in Imports, Undisturbed(i),
         NEW w \in Workers, cur[w] \in Msgs, ImportOf(cur[w]) = i
  PROVE  /\ cur[w] = <<i, 1>>
         /\ <<i, 1>> \in sent \ ready
         /\ \A v \in Workers: <<i, 1>> \notin held[v] /\ (cur[v] = <<i, 1>> => v = w)
<1>1. cur[w] \in unacked[w]
  BY DEF Safe, Hands, InHand, Undisturbed
<1>2. cur[w] \in sent /\ cur[w] \notin ready
  BY <1>1 DEF Safe, Places
<1>3. PICK n \in 1..MaxCopies: cur[w] = <<i, n>>
  BY DEF Msgs, ImportOf
<1>4. n = 1
  BY <1>2, <1>3, BoundsAssumption DEF Safe, Numbered, Undisturbed
<1>5. ASSUME NEW v \in Workers, cur[w] \in held[v] \/ (cur[v] = cur[w] /\ v # w) PROVE FALSE
  <2>1. v # w
    BY <1>5 DEF Safe, Hands
  <2>2. cur[w] \in unacked[v]
    BY <1>5 DEF Safe, Hands, InHand, Undisturbed
  <2>. QED BY <1>1, <2>1, <2>2 DEF Safe, Places
<1>. QED BY <1>2, <1>3, <1>4, <1>5

\* What was confirmed stays out of the queue and out of the hands of workers that
\* would call again, while nothing puts it back.
LEMMA SpentStays ==
  ASSUME Typing, Safe, [Next]_vars, NEW i \in Imports, Undisturbed(i)', Spent(i)
  PROVE  Spent(i)'
<1>. DEFINE m == <<i, 1>>
<1>1. m \in Msgs /\ m # NoMsg /\ ImportOf(m) = i
  BY BoundsAssumption, NoMsgAssumption DEF Msgs, ImportOf
<1>. HIDE DEF m
<1>. DEFINE Goal == /\ m \in sent' \ ready'
                    /\ \A w \in Workers:
                         m \notin held'[w] /\ (cur'[w] = m => pc'[w] \in {"succeed", "ack", "nack"})
<1>2. /\ m \in sent /\ m \notin ready
      /\ \A w \in Workers:
           m \notin held[w] /\ (cur[w] = m => pc[w] \in {"succeed", "ack", "nack"})
  BY DEF Spent, m
<1>3. i \notin requeued'
  BY DEF Undisturbed
<1>. USE <1>1, <1>2, <1>3 DEF Typing, TypeOK, process, queues, history, Goto
<1>4. ASSUME NEW j \in Imports, NEW n \in 1..MaxCopies, Publish(j, n) PROVE Goal
  BY <1>4 DEF Publish
<1>5. ASSUME NEW w \in Workers, NEW k \in Msgs, Deliver(w, k) \/ Take(w, k) PROVE Goal
  BY <1>5 DEF Deliver, Take
<1>6. ASSUME NEW w \in Workers, Requeue(w) PROVE m \notin ready'
  BY <1>6 DEF Requeue
<1>7. ASSUME NEW w \in Workers, Exit(w) \/ Crash(w) PROVE Goal
  BY <1>6, <1>7 DEF Exit, Crash, Gone
<1>8. ASSUME NEW w \in Workers, LoseConnection(w) PROVE Goal
  BY <1>6, <1>8 DEF LoseConnection
<1>9. ASSUME NEW w \in Workers, Boot(w) \/ Terminate(w) PROVE Goal
  BY <1>9 DEF Boot, Terminate, Occupied, Processing
<1>10. ASSUME NEW w \in Workers, StartProcessing(w) \/ ProcessSucceeds(w) \/ ProcessFails(w)
       PROVE  Goal
  BY <1>10 DEF StartProcessing, ProcessSucceeds, ProcessFails
<1>11. ASSUME NEW w \in Workers, CompleteSucceeded(w) \/ CompleteDeadLetter(w) PROVE Goal
  BY <1>11 DEF CompleteSucceeded, CompleteDeadLetter
<1>12. ASSUME NEW w \in Workers, StartFails(w) \/ CompleteFails(w) PROVE Goal
  BY <1>12 DEF StartFails, CompleteFails
<1>13. ASSUME NEW w \in Workers, Ack(w) \/ Nack(w) PROVE Goal
  BY <1>13 DEF Ack, Nack, Settle
<1>14. ASSUME UNCHANGED vars PROVE Goal
  BY <1>14 DEF vars
<1>. HIDE DEF Goal
<1>15. Goal
  BY <1>4, <1>5, <1>7, <1>8, <1>9, <1>10, <1>11, <1>12, <1>13, <1>14
     DEF Next, Step, Disturbance
<1>. QED BY <1>15 DEF Goal, Spent, m

\* Publications and requeues are never undone.
LEMMA DisturbedStays ==
  ASSUME [Next]_vars
  PROVE  sent \subseteq sent' /\ requeued \subseteq requeued'
BY DEF vars, Next, Step, Disturbance, Publish, Deliver, Boot, Exit, Gone, Requeue, Take,
       StartProcessing, ProcessSucceeds, ProcessFails, CompleteSucceeded, CompleteDeadLetter,
       Ack, Nack, StartFails, CompleteFails, LoseConnection, Terminate, Crash, queues, history

\* Each step keeps an undisturbed import at one confirmation.
LEMMA OneEffectStep == Typing /\ Safe /\ OneEffect /\ [Next]_vars => OneEffect'
<1>. SUFFICES ASSUME Typing, Safe, OneEffect, [Next]_vars,
                     NEW i \in Imports, Undisturbed(i)'
              PROVE  effects'[i] < 2 /\ (effects'[i] > 0 => Spent(i)')
  BY DEF OneEffect
<1>1. Undisturbed(i)
  BY DisturbedStays DEF Undisturbed
<1>2. effects[i] < 2 /\ (effects[i] > 0 => Spent(i))
  BY <1>1 DEF OneEffect
<1>3. CASE effects'[i] = effects[i]
  BY <1>2, <1>3, SpentStays
<1>4. ASSUME NEW w \in Workers, ProcessSucceeds(w), ImportOf(cur[w]) = i
      PROVE  effects'[i] < 2 /\ (effects'[i] > 0 => Spent(i)')
  <2>1. cur[w] \in Msgs /\ pc[w] = "call"
    BY <1>4 DEF ProcessSucceeds, Typing, Occupied, Processing
  <2>2. /\ cur[w] = <<i, 1>>
        /\ <<i, 1>> \in sent \ ready
        /\ \A v \in Workers: <<i, 1>> \notin held[v] /\ (cur[v] = <<i, 1>> => v = w)
    BY <1>1, <1>4, <2>1, OneHand
  <2>3. ~(effects[i] > 0)
    BY <1>2, <2>1, <2>2 DEF Spent
  <2>4. effects[i] = 0 /\ effects'[i] = 1
    BY <1>4, <2>3 DEF ProcessSucceeds, Typing, TypeOK
  <2>5. Spent(i)'
    BY <1>4, <2>2 DEF ProcessSucceeds, Spent, Goto, queues, Typing, TypeOK
  <2>. QED BY <2>4, <2>5
<1>5. ASSUME NEW w \in Workers, ProcessSucceeds(w), ImportOf(cur[w]) # i
      PROVE  effects'[i] = effects[i]
  BY <1>5 DEF ProcessSucceeds, Typing, TypeOK
<1>6. effects' = effects \/ \E w \in Workers: ProcessSucceeds(w)
  BY DEF vars, Next, Step, Disturbance, Publish, Deliver, Boot, Exit, Take, StartProcessing,
         ProcessFails, CompleteSucceeded, CompleteDeadLetter, Ack, Nack, StartFails,
         CompleteFails, LoseConnection, Terminate, Crash, history
<1>. QED BY <1>3, <1>4, <1>5, <1>6

------------------------------------------------------------------------------
\* The theorems

LEMMA InitIInv == Init => IInv
<1>. SUFFICES ASSUME Init PROVE IInv
  OBVIOUS
<1>1. Typing
  BY BoundsAssumption DEF Init, Typing, TypeOK, Occupied, Statuses, PCs, Processing
<1>2. Safe
  BY NoMsgAssumption DEF Init, Safe, Hands, InHand, Places, Numbered
<1>3. Confirmed /\ ProcessedBeforeSettled /\ Findable /\ OneEffect
  BY DEF Init, Confirmed, ProcessedBeforeSettled, Findable, Found, OneEffect
<1>. QED BY <1>1, <1>2, <1>3 DEF IInv

LEMMA NextIInv == IInv /\ [Next]_vars => IInv'
BY TypingStep, SafeStep, ConfirmedStep, FindableStep, OneEffectStep DEF IInv

LEMMA SpecIInv == Spec => []IInv
BY InitIInv, NextIInv, PTL DEF Spec

\* The types, for any number of workers that crash, exit and lose connections.
THEOREM TypeCorrect == Spec => []TypeOK
<1>1. IInv => TypeOK
  BY DEF IInv, Typing
<1>. QED BY <1>1, SpecIInv, PTL

\* A published import that did not succeed keeps a message that can still be
\* processed, or found in the dead-letter queue (processDelivery of worker.go),
\* whatever fails and however many workers share the queue.
THEOREM NothingIsLost == Spec => []NoSilentLoss
<1>1. IInv => NoSilentLoss
  BY DEF IInv, Findable, Found, Open, NoSilentLoss
<1>. QED BY <1>1, SpecIInv, PTL

\* Neither SUCCEEDED nor an acknowledgement comes before the integration's
\* confirmation (processDelivery of worker.go), whoever writes it.
THEOREM SettlingIsConfirmed == Spec => []ProcessedBeforeSettled
<1>1. IInv => ProcessedBeforeSettled
  BY DEF IInv
<1>. QED BY <1>1, SpecIInv, PTL

\* Two confirmations of an import have a second publication or a requeue behind
\* them: the worker itself never repeats a call that was confirmed.
THEOREM EffectsHaveACause == Spec => []EffectOnceUnlessRedelivered
<1>1. IInv => EffectOnceUnlessRedelivered
  BY DEF IInv, OneEffect, Undisturbed, EffectOnceUnlessRedelivered, Typing, TypeOK
<1>. QED BY <1>1, SpecIInv, PTL

------------------------------------------------------------------------------
\* Where the messages are

\* RabbitMQ and the workers agree: the deliveries a channel waits for are those
\* its living worker holds or has in hand. None is stuck, none answered twice.
InHandExactly ==
  \A w \in Workers: \A m \in Msgs: m \in unacked[w] <=> linked[w] /\ m \in InHand(w)

\* With Places: no message vanishes, and a dead letter is nowhere else.
Somewhere ==
  /\ dlq \subseteq sent /\ dlq \intersect (ready \union acked) = {}
  /\ \A w \in Workers: unacked[w] \intersect dlq = {}
  /\ \A m \in sent: m \in ready \union dlq \union acked \/ \E w \in Workers: m \in unacked[w]

LEMMA InHandStep == Typing /\ Safe /\ InHandExactly /\ [Next]_vars => InHandExactly'
<1>. SUFFICES ASSUME Typing, Safe, InHandExactly, [Next]_vars PROVE InHandExactly'
  OBVIOUS
<1>. USE NoMsgAssumption
     DEF Typing, TypeOK, Occupied, Processing, Safe, Hands, InHandExactly, InHand,
         process, queues, history, Goto
<1>1. ASSUME UNCHANGED <<unacked, cur, held, linked>> PROVE InHandExactly'
  BY <1>1
<1>2. ASSUME NEW w \in Workers, NEW m \in Msgs, Deliver(w, m) PROVE InHandExactly'
  BY <1>2 DEF Deliver
<1>3. ASSUME NEW w \in Workers, Boot(w) PROVE InHandExactly'
  BY <1>3 DEF Boot
<1>4. ASSUME NEW w \in Workers, Exit(w) \/ Crash(w) PROVE InHandExactly'
  BY <1>4 DEF Exit, Crash, Gone, Requeue
<1>5. ASSUME NEW w \in Workers, NEW m \in Msgs, Take(w, m) PROVE InHandExactly'
  BY <1>5 DEF Take
<1>6. ASSUME NEW w \in Workers, Ack(w) \/ Nack(w) PROVE InHandExactly'
  BY <1>6 DEF Ack, Nack, Settle
<1>7. ASSUME NEW w \in Workers, LoseConnection(w) PROVE InHandExactly'
  BY <1>7 DEF LoseConnection, Requeue
<1>. HIDE DEF InHandExactly
<1>. QED
  BY <1>1, <1>2, <1>3, <1>4, <1>5, <1>6, <1>7
     DEF vars, Next, Step, Disturbance, Publish, StartProcessing, ProcessSucceeds,
         ProcessFails, CompleteSucceeded, CompleteDeadLetter, StartFails, CompleteFails,
         Terminate

LEMMA SomewhereStep == Typing /\ Safe /\ InHandExactly /\ Somewhere /\ [Next]_vars => Somewhere'
<1>. SUFFICES ASSUME Typing, Safe, InHandExactly, Somewhere, [Next]_vars PROVE Somewhere'
  OBVIOUS
<1>. USE NoMsgAssumption
     DEF Typing, TypeOK, Safe, Places, Somewhere, process, queues, history, Goto
<1>1. ASSUME UNCHANGED <<sent, ready, unacked, dlq, acked>> PROVE Somewhere'
  BY <1>1
<1>2. ASSUME NEW i \in Imports, NEW n \in 1..MaxCopies, Publish(i, n) PROVE Somewhere'
  <2>. DEFINE new == <<i, n>>
  <2>1. /\ new \notin sent /\ sent' = sent \union {new} /\ ready' = ready \union {new}
        /\ UNCHANGED <<unacked, dlq, acked>>
    BY <1>2 DEF Publish
  <2>2. new \notin dlq /\ new \notin acked
    BY <2>1
  <2>. HIDE DEF new
  <2>. QED BY <2>1, <2>2
<1>3. ASSUME NEW w \in Workers, NEW m \in Msgs, Deliver(w, m) PROVE Somewhere'
  BY <1>3 DEF Deliver
<1>4. ASSUME NEW w \in Workers, Exit(w) \/ Crash(w) \/ LoseConnection(w) PROVE Somewhere'
  <2>1. Requeue(w) /\ UNCHANGED <<sent, dlq, acked>>
    BY <1>4 DEF Exit, Crash, Gone, LoseConnection
  <2>. QED BY <2>1 DEF Requeue
<1>5. ASSUME NEW w \in Workers, Ack(w) \/ Nack(w) PROVE Somewhere'
  <2>1. linked[w] => cur[w] \in unacked[w]
    BY <1>5 DEF Ack, Nack, Occupied, Processing, Hands, InHand
  <2>2. ~linked[w] => unacked[w] = {}
    BY DEF InHandExactly
  <2>3. \/ acked' = acked \union Settled(w) /\ dlq' = dlq
        \/ dlq' = dlq \union Settled(w) /\ acked' = acked
    BY <1>5 DEF Ack, Nack
  <2>4. /\ UNCHANGED <<sent, ready>>
        /\ unacked' = [unacked EXCEPT ![w] = @ \ {cur[w]}]
    BY <1>5 DEF Ack, Nack, Settle
  <2>5. CASE linked[w]
    BY <2>1, <2>3, <2>4, <2>5 DEF Settled
  <2>6. CASE ~linked[w]
    BY <2>2, <2>3, <2>4, <2>6 DEF Settled
  <2>. QED BY <2>5, <2>6
<1>. HIDE DEF Somewhere
<1>. QED
  BY <1>1, <1>2, <1>3, <1>4, <1>5
     DEF vars, Next, Step, Disturbance, Boot, Take, StartProcessing, ProcessSucceeds,
         ProcessFails, CompleteSucceeded, CompleteDeadLetter, StartFails, CompleteFails,
         Terminate

LEMMA SpecSomewhere == Spec => [](InHandExactly /\ Somewhere)
<1>1. Init => InHandExactly /\ Somewhere
  BY NoMsgAssumption DEF Init, InHandExactly, InHand, Somewhere
<1>2. IInv /\ InHandExactly /\ Somewhere /\ [Next]_vars => (InHandExactly /\ Somewhere)'
  BY InHandStep, SomewhereStep DEF IInv
<1>. QED BY <1>1, <1>2, SpecIInv, PTL DEF Spec

\* Whatever crashes, exits or loses its connection, a published message is at any
\* moment in exactly one place: the queue, one worker's channel, the dead-letter
\* queue or among the acknowledged.
OnePlace ==
  /\ sent = ready \union dlq \union acked \union UNION {unacked[w]: w \in Workers}
  /\ ready \intersect dlq = {} /\ ready \intersect acked = {} /\ dlq \intersect acked = {}
  /\ \A w \in Workers:
       /\ unacked[w] \intersect (ready \union dlq \union acked) = {}
       /\ \A v \in Workers: v # w => unacked[w] \intersect unacked[v] = {}

\* Messages are neither lost nor multiplied, and none waits on a channel for an
\* answer that no worker has in hand to give.
THEOREM MessagesAreConserved == Spec => [](OnePlace /\ InHandExactly)
<1>1. IInv /\ Somewhere => OnePlace
  BY DEF IInv, Safe, Places, Somewhere, OnePlace
<1>. QED BY <1>1, SpecIInv, SpecSomewhere, PTL

------------------------------------------------------------------------------
\* SUCCEEDED, and the agreement of the queues with the statuses

\* A status SUCCEEDED is overwritten only for an import the outbox published
\* twice or RabbitMQ delivered again, although StartProcessing and CompleteImport
\* (store.go) have no condition on the status they overwrite.
SucceededIsFinal ==
  [][\A i \in Imports:
       status[i] = "SUCCEEDED" /\ status'[i] # "SUCCEEDED" => ~Undisturbed(i)]_vars

LEMMA SuccessStays ==
  ASSUME IInv, [Next]_vars, NEW i \in Imports, status[i] = "SUCCEEDED", Undisturbed(i)
  PROVE  status'[i] = "SUCCEEDED"
<1>. SUFFICES ASSUME status'[i] # "SUCCEEDED" PROVE FALSE
  OBVIOUS
<1>1. Typing /\ Safe
  BY DEF IInv
<1>2. PICK w \in Workers: ImportOf(cur[w]) = i /\ Unfinishes(w)
  BY <1>1, StatusStep
<1>3. pc[w] \in {"start", "call", "deadletter", "succeed"}
  BY <1>2 DEF Unfinishes, StartProcessing, StartFails, CompleteDeadLetter, CompleteFails
<1>4. cur[w] = <<i, 1>>
  BY <1>1, <1>2, <1>3, OneHand DEF Typing, Occupied, Processing
<1>5. Spent(i)
  BY DEF IInv, OneEffect, ProcessedBeforeSettled
<1>6. pc[w] = "succeed"
  BY <1>3, <1>4, <1>5 DEF Spent
<1>7. status'[i] \in {status[i], "SUCCEEDED"}
  BY <1>1, <1>2, <1>6 DEF Unfinishes, StartProcessing, StartFails, CompleteDeadLetter,
     CompleteFails, SetStatus, Typing, TypeOK
<1>. QED BY <1>7

\* No step of a worker takes the success of an undisturbed import back.
THEOREM SuccessIsFinal == Spec => SucceededIsFinal
<1>. DEFINE Final == \A i \in Imports:
       status[i] = "SUCCEEDED" /\ status'[i] # "SUCCEEDED" => ~Undisturbed(i)
<1>1. IInv /\ [Next]_vars => Final
  BY SuccessStays
<1>. QED BY <1>1, SpecIInv, PTL DEF Spec, SucceededIsFinal

\* Until the first fault nothing is requeued, and every worker is connected.
Calm ==
  faults = 0 =>
    requeued = {} /\ \A w \in Workers: ~stopping[w] /\ (pc[w] # "down" => linked[w])

\* Without faults and further copies, how far the only copy has come is what the
\* status says.
Agrees(i) ==
  /\ <<i, 1>> \in dlq => status[i] = "DEAD_LETTER"
  /\ <<i, 1>> \in acked => status[i] = "SUCCEEDED"
  /\ \A w \in Workers: cur[w] = <<i, 1>> =>
       /\ pc[w] = "nack" => status[i] = "DEAD_LETTER"
       /\ pc[w] = "ack" => status[i] = "SUCCEEDED"

Agreement == \A i \in Imports: faults = 0 /\ <<i, 2>> \notin sent => Agrees(i)

LEMMA CalmStep == Typing /\ Calm /\ [Next]_vars => Calm'
<1>. SUFFICES ASSUME Typing, Calm, [Next]_vars, faults' = 0 PROVE Calm'
  BY DEF Calm
<1>. USE DEF Typing, TypeOK, Occupied, Processing, Calm, process, queues, history, Goto
<1>1. ASSUME NEW w \in Workers PROVE ~Disturbance(w)
  <2>1. ~Fault
    BY DEF Fault
  <2>2. ASSUME Trouble(w) PROVE FALSE
    <3>1. faults = 0
      BY <2>1, <2>2 DEF Trouble
    <3>. QED BY <2>1, <2>2, <3>1 DEF Trouble
  <2>. QED
    BY <2>1, <2>2 DEF Disturbance, StartFails, CompleteFails, LoseConnection, Terminate, Crash
<1>2. UNCHANGED faults
  BY <1>1 DEF vars, Next, Step, Publish, Deliver, Boot, Exit, Take, StartProcessing,
     ProcessSucceeds, ProcessFails, CompleteSucceeded, CompleteDeadLetter, Ack, Nack
<1>3. ASSUME NEW w \in Workers PROVE ~Exit(w)
  BY <1>2 DEF Exit
<1>4. ASSUME NEW w \in Workers, Boot(w) PROVE Calm'
  BY <1>2, <1>4 DEF Boot
<1>5. ASSUME NEW w \in Workers, Step(w) PROVE Calm'
  BY <1>2, <1>5 DEF Step, Take, StartProcessing, ProcessSucceeds, ProcessFails,
     CompleteSucceeded, CompleteDeadLetter, Ack, Nack, Settle
<1>6. ASSUME UNCHANGED <<pc, linked, stopping, requeued>> PROVE Calm'
  BY <1>2, <1>6
<1>. HIDE DEF Calm
<1>. QED BY <1>1, <1>3, <1>4, <1>5, <1>6 DEF vars, Next, Publish, Deliver

LEMMA AgreementStep ==
  Typing /\ Safe /\ Somewhere /\ Calm /\ Agreement /\ [Next]_vars => Agreement'
<1>. SUFFICES ASSUME Typing, Safe, Somewhere, Calm, Agreement, [Next]_vars,
                     NEW i \in Imports, faults' = 0, <<i, 2>> \notin sent'
              PROVE  Agrees(i)'
  BY DEF Agreement
<1>. DEFINE m == <<i, 1>>
<1>1. m \in Msgs /\ m # NoMsg /\ ImportOf(m) = i
  BY BoundsAssumption, NoMsgAssumption DEF Msgs, ImportOf
<1>2. \A w \in Workers: ~Fault /\ ~StartFails(w) /\ ~CompleteFails(w) /\ ~LoseConnection(w)
                         /\ ~Terminate(w) /\ ~Crash(w) /\ ~Exit(w)
  <2>1. ~Fault
    BY DEF Fault, Typing, TypeOK
  <2>2. ASSUME NEW w \in Workers PROVE ~(Trouble(w) /\ stopping[w])
    BY DEF Trouble, Calm
  <2>3. ASSUME NEW w \in Workers PROVE ~Exit(w)
    BY DEF Exit, Calm
  <2>. QED
    BY <2>1, <2>2, <2>3 DEF StartFails, CompleteFails, LoseConnection, Terminate, Crash, Trouble
<1>3. faults = 0 /\ <<i, 2>> \notin sent
  <2>1. UNCHANGED faults
    BY <1>2 DEF vars, Next, Step, Disturbance, Publish, Deliver, Boot, Take, StartProcessing,
       ProcessSucceeds, ProcessFails, CompleteSucceeded, CompleteDeadLetter, Ack, Nack
  <2>. QED BY <2>1, DisturbedStays
<1>4. Agrees(i) /\ Undisturbed(i)
  BY <1>3 DEF Agreement, Calm, Undisturbed
<1>. HIDE DEF m
<1>. DEFINE Goal == /\ m \in dlq' => status'[i] = "DEAD_LETTER"
                    /\ m \in acked' => status'[i] = "SUCCEEDED"
                    /\ \A w \in Workers: cur'[w] = m =>
                         /\ pc'[w] = "nack" => status'[i] = "DEAD_LETTER"
                         /\ pc'[w] = "ack" => status'[i] = "SUCCEEDED"
<1>5. /\ m \in dlq => status[i] = "DEAD_LETTER"
      /\ m \in acked => status[i] = "SUCCEEDED"
      /\ \A w \in Workers: cur[w] = m =>
           /\ pc[w] = "nack" => status[i] = "DEAD_LETTER"
           /\ pc[w] = "ack" => status[i] = "SUCCEEDED"
  BY <1>4 DEF Agrees, m
<1>6. ASSUME NEW w \in Workers, cur[w] \in Msgs, ImportOf(cur[w]) = i
      PROVE  /\ cur[w] = m /\ m \notin dlq /\ m \notin acked
             /\ \A v \in Workers: cur[v] = m => v = w
  <2>1. cur[w] = m /\ \A v \in Workers: cur[v] = m => v = w
    BY <1>4, <1>6, OneHand DEF m
  <2>2. cur[w] \in unacked[w]
    BY <1>4, <1>6 DEF Safe, Hands, InHand, Undisturbed
  <2>. QED BY <2>1, <2>2 DEF Safe, Places, Somewhere
<1>. USE <1>1, <1>5 DEF Typing, TypeOK, process, queues, history, Goto
<1>7. ASSUME UNCHANGED <<status, dlq, acked, pc, cur>> PROVE Goal
  BY <1>7
<1>8. ASSUME NEW w \in Workers, Boot(w) \/ ProcessSucceeds(w) \/ ProcessFails(w) PROVE Goal
  BY <1>8 DEF Boot, ProcessSucceeds, ProcessFails
<1>9. ASSUME NEW w \in Workers, NEW k \in Msgs, Take(w, k) PROVE Goal
  BY <1>9 DEF Take
<1>10. ASSUME NEW w \in Workers,
              StartProcessing(w) \/ CompleteSucceeded(w) \/ CompleteDeadLetter(w)
       PROVE  Goal
  <2>1. cur[w] \in Msgs
    BY <1>10 DEF StartProcessing, CompleteSucceeded, CompleteDeadLetter, Occupied, Processing
  <2>2. CASE ImportOf(cur[w]) # i
    <3>1. status'[i] = status[i]
      BY <1>10, <2>2 DEF StartProcessing, CompleteSucceeded, CompleteDeadLetter, SetStatus
    <3>. QED BY <1>10, <2>2, <3>1 DEF StartProcessing, CompleteSucceeded, CompleteDeadLetter
  <2>3. CASE ImportOf(cur[w]) = i
    <3>1. cur[w] = m /\ m \notin dlq /\ m \notin acked /\ \A v \in Workers: cur[v] = m => v = w
      BY <1>6, <2>1, <2>3
    <3>2. /\ UNCHANGED <<dlq, acked, cur>>
          /\ pc'[w] = "nack" => status'[i] = "DEAD_LETTER"
          /\ pc'[w] = "ack" => status'[i] = "SUCCEEDED"
      BY <1>10, <2>3 DEF StartProcessing, CompleteSucceeded, CompleteDeadLetter, SetStatus
    <3>. QED BY <3>1, <3>2
  <2>. QED BY <2>2, <2>3
<1>11. ASSUME NEW w \in Workers, Ack(w) PROVE Goal
  BY <1>11 DEF Ack, Settle, Settled
<1>12. ASSUME NEW w \in Workers, Nack(w) PROVE Goal
  BY <1>12 DEF Nack, Settle, Settled
<1>. HIDE DEF Goal
<1>13. Goal
  BY <1>2, <1>7, <1>8, <1>9, <1>10, <1>11, <1>12
     DEF vars, Next, Step, Disturbance, Publish, Deliver
<1>. QED BY <1>13 DEF Goal, Agrees, m

\* docs/architecture.md has a final failure end in DEAD_LETTER and the DLQ. The
\* run dlq refutes it after a database error; it holds as long as there is no
\* fault and no second copy, and acknowledged messages then mean SUCCEEDED.
QueuesMatchStatus ==
  \A i \in Imports: faults = 0 /\ <<i, 2>> \notin sent =>
    /\ <<i, 1>> \in dlq => status[i] = "DEAD_LETTER"
    /\ <<i, 1>> \in acked => status[i] = "SUCCEEDED"

\* Only faults and second copies make the queues disagree with the statuses.
THEOREM DisagreementHasACause == Spec => []QueuesMatchStatus
<1>1. Init => Calm /\ Agreement
  BY NoMsgAssumption DEF Init, Calm, Agreement, Agrees
<1>2. IInv /\ Somewhere /\ Calm /\ Agreement /\ [Next]_vars => Calm' /\ Agreement'
  BY CalmStep, AgreementStep DEF IInv
<1>3. Agreement => QueuesMatchStatus
  BY DEF Agreement, Agrees, QueuesMatchStatus
<1>. QED BY <1>1, <1>2, <1>3, SpecIInv, SpecSomewhere, PTL DEF Spec
==============================================================================
