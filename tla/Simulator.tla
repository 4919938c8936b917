------------------------------- MODULE Simulator -------------------------------
(***************************************************************************)
(* The integration-simulator (src/internal/simulator/handler.go) at the      *)
(* other end of the calls of IntegrationClient. Its only state is a counter  *)
(* of requests that all callers share; in lab mode the source of an import   *)
(* decides how its request is answered. A call that times out may have been  *)
(* processed, or may still be on its way to the simulator.                   *)
(***************************************************************************)
EXTENDS IntegrationClient

CONSTANT LabMode

VARIABLES
  link,       \* "up", "cut" (answers are lost) or "down" (the process is dead)
  odd,        \* whether the request counter is odd
  late,       \* whether a request is on its way that its caller gave up on
  source,     \* the source of the import of each caller
  reply,      \* what happened to the request of the call in flight
  processed,  \* history: times the integration processed the import in this Process
  lost,       \* history: answers "processed" that this Process did not get
  rejected,   \* history, flaky sources: answers 503 this Process got
  foreign,    \* history, flaky sources: requests of others counted since the first
  shaken      \* history, flaky sources: a request was lost, or the counter restarted

histories == <<processed, lost, rejected, foreign, shaken>>
simulator == <<link, odd, late, source, reply, histories>>
simVars == <<vars, simulator>>

Sources == {"normal", "slow", "flaky", "force-error"}
Replies == {"none", "waiting", "ok", "error"}
MaxForeign == MaxAttempts   \* bound on foreign: more makes no difference

SimTypeOK ==
  /\ TypeOK
  /\ link \in {"up", "cut", "down"} /\ odd \in BOOLEAN /\ late \in BOOLEAN
  /\ source \in [Callers -> Sources]
  /\ reply \in [Callers -> Replies]
  /\ processed \in [Callers -> 0..MaxAttempts]
  /\ lost \in [Callers -> 0..MaxAttempts]
  /\ rejected \in [Callers -> 0..MaxAttempts]
  /\ foreign \in [Callers -> 0..MaxForeign]
  /\ shaken \in [Callers -> BOOLEAN]

SimInit ==
  /\ Init
  /\ link = "up" /\ odd = FALSE /\ late = FALSE
  /\ source = [c \in Callers |-> "normal"]
  /\ reply = [c \in Callers |-> "none"]
  /\ processed = [c \in Callers |-> 0]
  /\ lost = [c \in Callers |-> 0]
  /\ rejected = [c \in Callers |-> 0]
  /\ foreign = [c \in Callers |-> 0]
  /\ shaken = [c \in Callers |-> FALSE]

------------------------------------------------------------------------------
\* The handler

\* A flaky Process of which the simulator has counted a request.
Counted(c) == source[c] = "flaky" /\ rejected[c] + processed[c] > 0

\* Variant: a rejected request is not counted.
CountAccepted(c) ==
  /\ odd' = IF source[c] = "flaky" /\ ~odd THEN odd ELSE ~odd
  /\ foreign' = [d \in Callers |->
       IF d # c /\ Counted(d) /\ foreign[d] < MaxForeign THEN foreign[d] + 1 ELSE foreign[d]]

\* Add(1) of the shared counter by a request of c.
Count(c) ==
  /\ odd' = ~odd
  /\ foreign' = [d \in Callers |->
       IF d # c /\ Counted(d) /\ foreign[d] < MaxForeign THEN foreign[d] + 1 ELSE foreign[d]]

\* The answer to a request of this source, given the counter before it.
AnswerTo(s) ==
  CASE LabMode /\ s = "force-error" -> "error"
    [] LabMode /\ s = "flaky" /\ ~odd -> "error"
    [] LabMode /\ s = "slow" -> "waiting"
    [] OTHER -> "ok"

\* The handler answers the request of c.
AnswerWith(c, r) ==
  /\ reply' = [reply EXCEPT ![c] = r]
  /\ processed' = [processed EXCEPT ![c] = IF r = "ok" THEN @ + 1 ELSE @]
  /\ rejected' = [rejected EXCEPT ![c] = IF r = "error" /\ source[c] = "flaky" THEN @ + 1 ELSE @]
  /\ UNCHANGED <<link, late, source, lost, shaken, vars>>

\* process: decode, count, and decide by the source.
Handle(c) ==
  /\ link # "down" /\ pc[c] = "call" /\ reply[c] = "none" /\ ~stopping
  /\ Count(c)
  /\ AnswerWith(c, AnswerTo(source[c]))

\* The 800 ms of a slow request are over.
SlowEnds(c) ==
  /\ link # "down" /\ reply[c] = "waiting"
  /\ AnswerWith(c, "ok")
  /\ UNCHANGED <<odd, foreign>>

\* A request whose caller has given up is read after all: it is counted, and
\* its answer reaches nobody. If it processes the import, it is one effect and
\* one lost answer more for whoever sent it; processed and lost leave out both.
HandleLate ==
  /\ link # "down" /\ late
  /\ late' = FALSE
  /\ odd' = ~odd
  /\ shaken' = [c \in Callers |-> source[c] = "flaky"]
  /\ UNCHANGED <<link, source, reply, processed, lost, rejected, foreign, vars>>

------------------------------------------------------------------------------
\* The calls of IntegrationClient, with what the simulator made of them

\* The histories of c once its Process has returned.
Forget(c) ==
  IF Running(c)' THEN UNCHANGED <<source, histories>>
  ELSE /\ source' = [source EXCEPT ![c] = "normal"]
       /\ processed' = [processed EXCEPT ![c] = 0]
       /\ lost' = [lost EXCEPT ![c] = 0]
       /\ rejected' = [rejected EXCEPT ![c] = 0]
       /\ foreign' = [foreign EXCEPT ![c] = 0]
       /\ shaken' = [shaken EXCEPT ![c] = FALSE]

Start(c) ==
  /\ Enter(c)
  /\ \E s \in Sources: source' = [source EXCEPT ![c] = s]
  /\ UNCHANGED <<link, odd, late, reply, histories>>

\* Variant: the status code is not looked at.
GetAnyAnswer(c) ==
  /\ reply[c] \in {"ok", "error"} /\ link = "up"
  /\ CallSucceeds(c)
  /\ Forget(c)
  /\ reply' = [reply EXCEPT ![c] = "none"]
  /\ UNCHANGED <<link, odd, late>>

GetAnswer(c) ==
  /\ reply[c] = "ok" /\ link = "up"
  /\ CallSucceeds(c)
  /\ Forget(c)
  /\ reply' = [reply EXCEPT ![c] = "none"]
  /\ UNCHANGED <<link, odd, late>>

GetError(c) ==
  /\ reply[c] = "error" /\ link = "up"
  /\ CallFails(c) \/ LastCallFails(c)
  /\ Forget(c)
  /\ reply' = [reply EXCEPT ![c] = "none"]
  /\ UNCHANGED <<link, odd, late>>

\* The call times out, its connection breaks or its context is cancelled. A
\* request not yet read may be lost or late; a handler that waits for a slow
\* answer sees the client leave.
GiveUpCall(c) ==
  /\ link # "up" \/ stopping
  /\ \/ /\ CallFails(c)
        /\ lost' = [lost EXCEPT ![c] = IF reply[c] = "ok" THEN @ + 1 ELSE @]
        /\ shaken' = [shaken EXCEPT ![c] = source[c] = "flaky"]
        /\ UNCHANGED <<source, processed, rejected, foreign>>
     \/ LastCallFails(c) /\ Forget(c)
  /\ \/ UNCHANGED late
     \/ reply[c] = "none" /\ link = "cut" /\ ~stopping /\ late' = TRUE
  /\ reply' = [reply EXCEPT ![c] = "none"]
  /\ UNCHANGED <<link, odd>>

Continue(c) ==
  /\ Refused(c) \/ Retry(c) \/ Cancel(c)
  /\ Forget(c)
  /\ UNCHANGED <<link, odd, late, reply>>

------------------------------------------------------------------------------
\* The network and the process of the simulator

\* Cut, or mended. A mended link delivers what waits at its ends.
CutOrMend ==
  /\ link \in {"up", "cut"}
  /\ link' = IF link = "up" THEN "cut" ELSE "up"
  /\ UNCHANGED <<odd, late, source, reply, histories, vars>>

\* The process dies: its counter and the requests it holds are gone.
Die ==
  /\ link # "down"
  /\ link' = "down" /\ odd' = FALSE /\ late' = FALSE
  /\ shaken' = [c \in Callers |-> source[c] = "flaky"]
  /\ UNCHANGED <<source, reply, processed, lost, rejected, foreign, vars>>

\* It is back for the calls to come: the ones it held have failed by then.
Reboot ==
  /\ link = "down" /\ \A c \in Callers: reply[c] = "none"
  /\ link' = "up"
  /\ UNCHANGED <<odd, late, source, reply, histories, vars>>

CallerNext(c) == Start(c) \/ GetAnswer(c) \/ GetError(c) \/ GiveUpCall(c) \/ Continue(c)
HandlerNext(c) == Handle(c) \/ SlowEnds(c)

SimNext ==
  \/ (Terminate \/ Tick) /\ UNCHANGED simulator
  \/ \E c \in Callers: CallerNext(c) \/ HandlerNext(c)
  \/ HandleLate \/ CutOrMend \/ Die \/ Reboot

SimSpec == SimInit /\ [][SimNext]_simVars

\* Calls, pauses and handlers end, imports keep arriving and time passes.
SimFairSpec ==
  /\ SimSpec
  /\ WF_simVars(Tick /\ UNCHANGED simulator)
  /\ \A c \in Callers: WF_simVars(CallerNext(c)) /\ WF_simVars(HandlerNext(c))

------------------------------------------------------------------------------
\* Properties

\* Retries repeat the work of the integration (a call carries no key by which
\* a repetition could be recognised), but only after an answer was lost: a
\* Process that succeeds has had one effect more than its lost answers, and one
\* that fails left an effect behind only if it gave up on an answer.
RepeatedEffectMeansLostAnswer ==
  [][\A c \in Callers:
       /\ CallSucceeds(c) => processed[c] = lost[c] + 1
       /\ LastCallFails(c) => \/ processed[c] = lost[c]
                             \/ /\ processed[c] = lost[c] + 1 /\ reply[c] = "ok"
                                /\ link # "up" \/ stopping
       /\ Cancel(c) => processed[c] = lost[c]]_simVars

\* The counter that makes a flaky source fail is shared, so the retries of one
\* caller are pushed back onto odd values by the requests of others: all the
\* calls of a Process are rejected only if others came in between each time.
FlakyFailsOnlyByInterference ==
  \A c \in Callers:
    source[c] = "flaky" /\ ~shaken[c] => rejected[c] <= foreign[c] + 1

\* Once the simulator answers, the worker keeps running and the imports are not
\* made to fail, the breaker closes and stays closed.
Recovers ==
  <>[](/\ link = "up" /\ ~stopping
       /\ \A c \in Callers: source[c] \in {"normal", "slow"})
    => <>[](state = "closed")
==============================================================================
