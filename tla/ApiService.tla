------------------------------ MODULE ApiService ------------------------------
(***************************************************************************)
(* The life of an imports-api process (src/cmd/api/main.go): it opens the    *)
(* pool, migrates and connects to RabbitMQ with bounded retries              *)
(* (OpenWithRetry, ConnectWithRetry), serves requests, and on SIGTERM shuts  *)
(* its server down while main runs its deferred calls. PostgreSQL and        *)
(* RabbitMQ come and go; the runtime restarts a process that has ended.      *)
(* What a request does in the database is in CreateImport, what Migrate does *)
(* in Migrations: here each is one use of a pooled connection. A claim of    *)
(* the outbox publisher is one more user of the pool, like a request.        *)
(***************************************************************************)
EXTENDS Integers, FiniteSets

CONSTANTS
  Requests,
  MaxAttempts,  \* attempts of each retry loop (15 in the code)
  MaxConns,     \* connections of the pool (15)
  MaxFaults     \* bound: signals, kills, failures to set up or to listen

ASSUME BoundsAssumption ==
  MaxAttempts \in Nat \ {0} /\ MaxConns \in Nat \ {0} /\ MaxFaults \in Nat

VARIABLES
  pc,         \* where main is
  attempt,    \* the attempt of the retry loop it is in
  pools,      \* pools it has opened and not closed
  links,      \* AMQP connections it has opened and that are not closed
  pool,       \* the pool of the Store: "none", "open" or "closed"
  amqp,       \* the connection of the Broker: "none", "open" or "lost"
  signalled,  \* SIGTERM cancelled its context
  listening,  \* the server accepts requests
  expired,    \* the 10 s of shutdownOnSignal are over
  phase,      \* where each request is
  db, mq,     \* PostgreSQL and RabbitMQ answer
  faults      \* faults so far

process == <<pc, attempt, pools, links, pool, amqp, signalled, listening, expired>>
vars == <<pc, attempt, pools, links, pool, amqp, signalled, listening, expired,
          phase, db, mq, faults>>

PCs == {"down", "opening", "pinging", "openPause", "migrating", "dialing", "setup",
        "dialPause", "listen", "serving", "closeBroker", "closeStore", "waitPool", "flush"}
Phases == {"none", "waiting", "query", "writing", "cut"}

TypeOK ==
  /\ pc \in PCs
  /\ attempt \in 1..MaxAttempts
  /\ pools \in Nat /\ links \in Nat
  /\ pool \in {"none", "open", "closed"}
  /\ amqp \in {"none", "open", "lost"}
  /\ signalled \in BOOLEAN /\ listening \in BOOLEAN /\ expired \in BOOLEAN
  /\ phase \in [Requests -> Phases]
  /\ db \in BOOLEAN /\ mq \in BOOLEAN
  /\ faults \in 0..MaxFaults

Init ==
  /\ pc = "down" /\ attempt = 1
  /\ pools = 0 /\ links = 0 /\ pool = "none" /\ amqp = "none"
  /\ signalled = FALSE /\ listening = FALSE /\ expired = FALSE
  /\ phase = [r \in Requests |-> "none"]
  /\ db = TRUE /\ mq = TRUE
  /\ faults = 0

------------------------------------------------------------------------------
\* Helpers

Fault == faults < MaxFaults /\ faults' = faults + 1

Querying == {r \in Requests: phase[r] = "query"}

\* The process ends, and the requests it was serving with it.
End ==
  /\ pc' = "down" /\ attempt' = 1
  /\ pools' = 0 /\ links' = 0 /\ pool' = "none" /\ amqp' = "none"
  /\ signalled' = FALSE /\ listening' = FALSE /\ expired' = FALSE
  /\ phase' = [r \in Requests |-> IF phase[r] = "none" THEN "none" ELSE "cut"]
  /\ UNCHANGED <<db, mq>>

Goto(label) == pc' = label

------------------------------------------------------------------------------
\* Startup

Boot ==
  /\ pc = "down"
  /\ Goto("opening")
  /\ UNCHANGED <<attempt, pools, links, pool, amqp, signalled, listening, expired,
                 phase, db, mq, faults>>

\* OpenWithRetry creates a pool, which does not connect yet.
NewPool ==
  /\ pc = "opening"
  /\ pools' = pools + 1
  /\ Goto("pinging")
  /\ UNCHANGED <<attempt, links, pool, amqp, signalled, listening, expired,
                 phase, db, mq, faults>>

PingSucceeds ==
  /\ pc = "pinging" /\ db /\ ~signalled
  /\ pool' = "open"
  /\ Goto("migrating")
  /\ UNCHANGED <<attempt, pools, links, amqp, signalled, listening, expired,
                 phase, db, mq, faults>>

\* Variant: the pool that could not be pinged is not closed.
PingFailsLeaking ==
  /\ pc = "pinging" /\ (~db \/ signalled)
  /\ Goto("openPause")
  /\ UNCHANGED <<attempt, pools, links, pool, amqp, signalled, listening, expired,
                 phase, db, mq, faults>>

PingFails ==
  /\ pc = "pinging" /\ (~db \/ signalled)
  /\ pools' = pools - 1
  /\ Goto("openPause")
  /\ UNCHANGED <<attempt, links, pool, amqp, signalled, listening, expired,
                 phase, db, mq, faults>>

\* Variant: the loop counts its attempts and never ends.
NextAttemptUnbounded ==
  /\ pc \in {"openPause", "dialPause"}
  /\ attempt' = attempt + 1
  /\ Goto(IF pc = "openPause" THEN "opening" ELSE "dialing")
  /\ UNCHANGED <<pools, links, pool, amqp, signalled, listening, expired,
                 phase, db, mq, faults>>

\* The pause after a failed attempt, the last one included; a cancelled context
\* or the end of the attempts makes main exit with status 1.
NextAttempt ==
  /\ pc \in {"openPause", "dialPause"} /\ attempt < MaxAttempts
  /\ attempt' = attempt + 1
  /\ Goto(IF pc = "openPause" THEN "opening" ELSE "dialing")
  /\ UNCHANGED <<pools, links, pool, amqp, signalled, listening, expired,
                 phase, db, mq, faults>>

\* Variant: only a signal ends a process that could not connect.
GiveUpOnSignal ==
  /\ pc \in {"openPause", "dialPause"} /\ signalled
  /\ End
  /\ UNCHANGED faults

GiveUp ==
  /\ pc \in {"openPause", "dialPause"} /\ (signalled \/ attempt = MaxAttempts)
  /\ End
  /\ UNCHANGED faults

MigrateSucceeds ==
  /\ pc = "migrating" /\ db /\ ~signalled
  /\ attempt' = 1
  /\ Goto("dialing")
  /\ UNCHANGED <<pools, links, pool, amqp, signalled, listening, expired,
                 phase, db, mq, faults>>

MigrateFails ==
  /\ pc = "migrating" /\ (~db \/ signalled)
  /\ End
  /\ UNCHANGED faults

\* ConnectWithRetry dials without the context: only its pause sees a signal.
Dial ==
  /\ pc = "dialing"
  /\ IF mq
     THEN links' = links + 1 /\ amqp' = "open" /\ Goto("setup")
     ELSE Goto("dialPause") /\ UNCHANGED <<links, amqp>>
  /\ UNCHANGED <<attempt, pools, pool, signalled, listening, expired,
                 phase, db, mq, faults>>

\* The channel is opened and the topology declared; the publisher starts.
SetupSucceeds ==
  /\ pc = "setup" /\ amqp = "open"
  /\ Goto("listen")
  /\ UNCHANGED <<attempt, pools, links, pool, amqp, signalled, listening, expired,
                 phase, db, mq, faults>>

CloseConnection ==
  /\ amqp' = "none"
  /\ links' = IF amqp = "open" THEN links - 1 ELSE links

\* Variant: a channel or setup error leaves the connection open.
SetupFailsLeaking ==
  /\ pc = "setup"
  /\ IF amqp = "open" THEN Fault ELSE UNCHANGED faults
  /\ amqp' = "none"
  /\ Goto("dialPause")
  /\ UNCHANGED <<attempt, pools, links, pool, signalled, listening, expired,
                 phase, db, mq>>

\* A declaration is refused, or the connection is lost under it.
SetupFails ==
  /\ pc = "setup"
  /\ IF amqp = "open" THEN Fault ELSE UNCHANGED faults
  /\ CloseConnection
  /\ Goto("dialPause")
  /\ UNCHANGED <<attempt, pools, pool, signalled, listening, expired, phase, db, mq>>

\* ListenAndServe accepts requests, unless Shutdown was called before it.
Listen ==
  /\ pc = "listen"
  /\ \E served \in {TRUE, ~signalled}:
       listening' = served /\ Goto(IF served THEN "serving" ELSE "closeBroker")
  /\ UNCHANGED <<attempt, pools, links, pool, amqp, signalled, expired,
                 phase, db, mq, faults>>

\* The port is taken: os.Exit(1), without the deferred calls.
ListenFails ==
  /\ pc = "listen"
  /\ Fault
  /\ End

------------------------------------------------------------------------------
\* Shutdown

Signal ==
  /\ pc # "down" /\ ~signalled
  /\ Fault
  /\ signalled' = TRUE
  /\ UNCHANGED <<pc, attempt, pools, links, pool, amqp, listening, expired,
                 phase, db, mq>>

\* Shutdown closes the listeners, which ends ListenAndServe at once; requests
\* go on while main runs its deferred calls.
Shutdown ==
  /\ pc = "serving" /\ signalled
  /\ listening' = FALSE
  /\ Goto("closeBroker")
  /\ UNCHANGED <<attempt, pools, links, pool, amqp, signalled, expired,
                 phase, db, mq, faults>>

Expire ==
  /\ pc \in {"closeBroker", "closeStore", "waitPool", "flush"} /\ ~expired
  /\ expired' = TRUE
  /\ UNCHANGED <<pc, attempt, pools, links, pool, amqp, signalled, listening,
                 phase, db, mq, faults>>

CloseBroker ==
  /\ pc = "closeBroker"
  /\ CloseConnection
  /\ Goto("closeStore")
  /\ UNCHANGED <<attempt, pools, pool, signalled, listening, expired,
                 phase, db, mq, faults>>

\* pool.Close: nobody gets a connection any more, and it waits for those in use.
CloseStore ==
  /\ pc = "closeStore"
  /\ pool' = "closed"
  /\ Goto("waitPool")
  /\ UNCHANGED <<attempt, pools, links, amqp, signalled, listening, expired,
                 phase, db, mq, faults>>

\* Variant: the pool is not waited for.
LeavePool ==
  /\ pc = "waitPool"
  /\ pools' = pools - 1
  /\ Goto("flush")
  /\ UNCHANGED <<attempt, links, pool, amqp, signalled, listening, expired,
                 phase, db, mq, faults>>

StoreClosed ==
  /\ pc = "waitPool" /\ Querying = {}
  /\ pools' = pools - 1
  /\ Goto("flush")
  /\ UNCHANGED <<attempt, links, pool, amqp, signalled, listening, expired,
                 phase, db, mq, faults>>

\* Telemetry is flushed and main returns.
Return ==
  /\ pc = "flush"
  /\ End
  /\ UNCHANGED faults

Kill ==
  /\ pc # "down"
  /\ Fault
  /\ End

------------------------------------------------------------------------------
\* Requests

\* Every route takes a connection, except live, info and metrics.
Accept(r) ==
  /\ listening /\ phase[r] \in {"none", "cut"}
  /\ \E p \in {"waiting", "writing"}: phase' = [phase EXCEPT ![r] = p]
  /\ UNCHANGED <<process, db, mq, faults>>

Acquire(r) ==
  /\ phase[r] = "waiting" /\ pool = "open"
  /\ Cardinality(Querying) < MaxConns
  /\ phase' = [phase EXCEPT ![r] = "query"]
  /\ UNCHANGED <<process, db, mq, faults>>

\* The pool is closed, or cannot connect: the answer is an error.
AcquireFails(r) ==
  /\ phase[r] = "waiting" /\ (pool = "closed" \/ ~db)
  /\ phase' = [phase EXCEPT ![r] = "writing"]
  /\ UNCHANGED <<process, db, mq, faults>>

\* The statement or transaction ends, well or not, and gives the connection back.
QueryEnds(r) ==
  /\ phase[r] = "query"
  /\ phase' = [phase EXCEPT ![r] = "writing"]
  /\ UNCHANGED <<process, db, mq, faults>>

Write(r) ==
  /\ phase[r] = "writing"
  /\ phase' = [phase EXCEPT ![r] = "none"]
  /\ UNCHANGED <<process, db, mq, faults>>

------------------------------------------------------------------------------
\* PostgreSQL and RabbitMQ

DbToggles == db' = ~db /\ UNCHANGED <<process, phase, mq, faults>>

MqReturns == ~mq /\ mq' = TRUE /\ UNCHANGED <<process, phase, db, faults>>

\* RabbitMQ goes, or only the connection: nothing opens it again.
ConnectionLost ==
  /\ mq' \in {mq, FALSE}
  /\ amqp' = IF amqp = "open" THEN "lost" ELSE amqp
  /\ links' = IF amqp = "open" THEN links - 1 ELSE links
  /\ UNCHANGED <<pc, attempt, pools, pool, signalled, listening, expired,
                 phase, db, faults>>

------------------------------------------------------------------------------
MainStep ==
  \/ NewPool \/ PingSucceeds \/ PingFails \/ NextAttempt \/ GiveUp
  \/ MigrateSucceeds \/ MigrateFails \/ Dial \/ SetupSucceeds \/ SetupFails \/ Listen
  \/ Shutdown \/ CloseBroker \/ CloseStore \/ StoreClosed \/ Return

RequestStep(r) == Acquire(r) \/ AcquireFails(r) \/ QueryEnds(r) \/ Write(r)

Next ==
  \/ Boot \/ MainStep \/ ListenFails \/ Signal \/ Expire \/ Kill
  \/ \E r \in Requests: Accept(r) \/ RequestStep(r)
  \/ DbToggles \/ MqReturns \/ ConnectionLost

Spec == Init /\ [][Next]_vars

\* The runtime restarts the process, main goes on, and requests that can end do.
FairSpec ==
  /\ Spec
  /\ WF_vars(Boot) /\ WF_vars(MainStep)
  /\ \A r \in Requests: WF_vars(RequestStep(r))

------------------------------------------------------------------------------
\* Properties

\* A failed attempt of either retry loop leaves neither a pool nor a connection
\* behind: the process never holds more than the one it uses.
RetriesLeakNothing ==
  /\ pools <= 1 /\ links <= 1
  /\ pc = "opening" => pools = 0
  /\ pc = "dialing" => links = 0

\* Only a kill cuts a request off in the middle of its transaction: a process
\* that ends by itself has waited for every connection in use.
GracefulExitAbortsNothing ==
  [][(\E r \in Requests: phase[r] = "query" /\ phase'[r] = "cut") => faults' # faults]_vars

\* docs/api.md: ready when PostgreSQL and RabbitMQ are reached.
Ready == pc = "serving" /\ db /\ amqp = "open"

\* However often its dependencies were away while it started, and wherever it
\* was signalled or killed, a replica is ready again and stays so, once they
\* stay and its connection is not lost under a running server.
ServesAgain == <>[](db /\ mq /\ amqp # "lost") => <>[]Ready

\* docs/architecture.md: graceful shutdown with a deadline of ten seconds.
\* Refuted: main returns under the requests Shutdown waits for.
DrainsUntilDeadline ==
  [][\A r \in Requests:
       phase[r] \in {"waiting", "query", "writing"} /\ phase'[r] = "cut" =>
         expired \/ faults' # faults]_vars
==============================================================================
