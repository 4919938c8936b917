------------------------------ MODULE Migrations ------------------------------
(***************************************************************************)
(* Store.Migrate (src/internal/database/store.go), which every replica of    *)
(* imports-api and imports-worker runs when it starts (src/cmd): the         *)
(* advisory lock, the registry of applied files and one transaction per      *)
(* file. The lock and the transactions belong to one PostgreSQL session.     *)
(*                                                                         *)
(* The session of a process that dies may outlive it on the server, with the *)
(* lock; a dead session that still waits for the lock ends as soon as it     *)
(* gets it, which is as if it had not waited.                               *)
(***************************************************************************)
EXTENDS Integers

CONSTANTS
  Replicas,
  Files,      \* migration files, numbered in the order of their names
  Nobody,     \* the lock is free
  Orphan,     \* the lock is held by the session of a dead process
  MaxFaults   \* bound: errors, lost sessions and crashes in a behaviour

ASSUME FilesAssumption == Files \subseteq Nat
ASSUME HoldersAssumption == Nobody # Orphan /\ {Nobody, Orphan} \intersect Replicas = {}
ASSUME FaultsAssumption == MaxFaults \in Nat

VARIABLES
  lock,        \* who holds the advisory lock
  registered,  \* rows of schema_migrations
  applied,     \* how often the contents of each file took effect (2: two or more)
  pc,          \* where each replica is
  seen,        \* files its loop is done with
  faults       \* faults so far

vars == <<lock, registered, applied, pc, seen, faults>>
schema == <<registered, applied>>

PCs == {"down", "locking", "loop", "apply", "register", "commit", "unlock", "failing", "ready"}

TypeOK ==
  /\ lock \in Replicas \union {Nobody, Orphan}
  /\ registered \subseteq Files
  /\ applied \in [Files -> 0..2]
  /\ pc \in [Replicas -> PCs]
  /\ seen \in [Replicas -> SUBSET Files]
  /\ faults \in 0..MaxFaults

Init ==
  /\ lock = Nobody
  /\ registered = {}
  /\ applied = [f \in Files |-> 0]
  /\ pc = [r \in Replicas |-> "down"]
  /\ seen = [r \in Replicas |-> {}]
  /\ faults = 0

------------------------------------------------------------------------------
\* Helpers

Fault == faults < MaxFaults /\ faults' = faults + 1

Goto(r, label) == pc' = [pc EXCEPT ![r] = label]

\* The states of a replica that got the lock and has not given it back.
Locked == {"loop", "apply", "register", "commit", "unlock", "failing"}

\* Variant: the directory entries are not sorted.
AnyFile(r, f) == f \in Files \ seen[r]

\* The file the loop of r is at.
AtFile(r, f) == f \in Files \ seen[r] /\ \A g \in Files \ seen[r]: f <= g

TakeEffect(f) == applied' = [applied EXCEPT ![f] = IF @ = 0 THEN 1 ELSE 2]

\* Variant: the zero-based index of the file is registered.
PublishIndex(f) == TakeEffect(f) /\ registered' = registered \union {f - 1}

\* The contents of a file and its registration become visible together.
Publish(f) == TakeEffect(f) /\ registered' = registered \union {f}

\* What becomes of the transaction of r when its outcome is not known: a commit
\* on its way may have taken effect, anything else is rolled back.
EndInDoubt(r) ==
  \/ UNCHANGED schema
  \/ pc[r] = "commit" /\ \E f \in Files: AtFile(r, f) /\ Publish(f)

------------------------------------------------------------------------------
\* Migrate

\* main opens the pool, Migrate acquires a connection and asks for the lock.
Boot(r) ==
  /\ pc[r] = "down"
  /\ Goto(r, "locking")
  /\ seen' = [seen EXCEPT ![r] = {}]
  /\ UNCHANGED <<lock, schema, faults>>

\* Variant: the lock is asked for with a try and its answer ignored.
TakeLockAnyway(r) ==
  /\ pc[r] = "locking"
  /\ lock' = IF lock = Nobody THEN r ELSE lock
  /\ Goto(r, "loop")
  /\ UNCHANGED <<schema, seen, faults>>

\* pg_advisory_lock returns; the registry is created if it does not exist.
TakeLock(r) ==
  /\ pc[r] = "locking"
  /\ lock = Nobody
  /\ lock' = r
  /\ Goto(r, "loop")
  /\ UNCHANGED <<schema, seen, faults>>

Skip(r, f) ==
  /\ pc[r] = "loop"
  /\ AtFile(r, f) /\ f \in registered
  /\ seen' = [seen EXCEPT ![r] = @ \union {f}]
  /\ UNCHANGED <<lock, schema, pc, faults>>

BeginFile(r, f) ==
  /\ pc[r] = "loop"
  /\ AtFile(r, f) /\ f \notin registered
  /\ Goto(r, "apply")
  /\ UNCHANGED <<lock, schema, seen, faults>>

\* Variant: the contents run outside the transaction.
ApplyAtOnce(r) ==
  /\ pc[r] = "apply"
  /\ \E f \in Files: AtFile(r, f) /\ TakeEffect(f)
  /\ Goto(r, "register")
  /\ UNCHANGED <<lock, registered, seen, faults>>

\* The contents of the file run inside the transaction.
Apply(r) ==
  /\ pc[r] = "apply"
  /\ Goto(r, "register")
  /\ UNCHANGED <<lock, schema, seen, faults>>

\* The primary key of the registry makes a second registration wait for the
\* first, and fail once it is committed.
Register(r, f) ==
  /\ pc[r] = "register"
  /\ AtFile(r, f)
  /\ \A s \in Replicas \ {r}: ~(pc[s] = "commit" /\ AtFile(s, f))
  /\ Goto(r, IF f \in registered THEN "failing" ELSE "commit")
  /\ UNCHANGED <<lock, schema, seen, faults>>

Commit(r, f) ==
  /\ pc[r] = "commit"
  /\ AtFile(r, f)
  /\ Publish(f)
  /\ seen' = [seen EXCEPT ![r] = @ \union {f}]
  /\ Goto(r, "loop")
  /\ UNCHANGED <<lock, faults>>

Finish(r) ==
  /\ pc[r] = "loop"
  /\ Files \subseteq seen[r]
  /\ Goto(r, "unlock")
  /\ UNCHANGED <<lock, schema, seen, faults>>

\* Variant: the connection goes back to the pool with its lock.
UnlockForgotten(r) ==
  /\ pc[r] = "unlock"
  /\ Goto(r, "ready")
  /\ UNCHANGED <<lock, schema, seen, faults>>

\* The deferred unlock, and Migrate returns.
Unlock(r) ==
  /\ pc[r] = "unlock"
  /\ lock' = Nobody
  /\ Goto(r, "ready")
  /\ UNCHANGED <<schema, seen, faults>>

\* Migrate failed: the deferred unlock, and main exits.
GiveUp(r) ==
  /\ pc[r] = "failing"
  /\ lock' = Nobody
  /\ Goto(r, "down")
  /\ UNCHANGED <<schema, seen, faults>>

------------------------------------------------------------------------------
\* Faults

\* Variant: an error of a file is logged and the loop goes on with the next.
StatementIgnored(r) ==
  /\ pc[r] \in {"loop", "apply", "register", "commit"}
  /\ Fault
  /\ EndInDoubt(r)
  /\ \E f \in Files: AtFile(r, f) /\ seen' = [seen EXCEPT ![r] = @ \union {f}]
  /\ Goto(r, "loop")
  /\ UNCHANGED lock

\* A statement or a commit returns an error: Migrate rolls back and returns.
StatementFails(r) ==
  /\ pc[r] \in {"loop", "apply", "register", "commit"}
  /\ Fault
  /\ EndInDoubt(r)
  /\ Goto(r, "failing")
  /\ UNCHANGED <<lock, seen>>

\* The connection is lost, and its session ends with lock and transaction. The
\* error of a deferred unlock is ignored, any other makes main exit.
LoseSession(r) ==
  /\ pc[r] \in Locked \union {"locking"}
  /\ Fault
  /\ EndInDoubt(r)
  /\ lock' = IF lock = r THEN Nobody ELSE lock
  /\ Goto(r, IF pc[r] = "unlock" THEN "ready" ELSE "down")
  /\ UNCHANGED seen

\* The process dies; the server may not notice for a while.
Crash(r) ==
  /\ pc[r] # "down"
  /\ Fault
  /\ EndInDoubt(r)
  /\ lock' = IF lock = r THEN Orphan ELSE lock
  /\ Goto(r, "down")
  /\ UNCHANGED seen

OrphanEnds ==
  /\ lock = Orphan
  /\ lock' = Nobody
  /\ UNCHANGED <<schema, pc, seen, faults>>

------------------------------------------------------------------------------
Step(r) ==
  \/ Boot(r) \/ TakeLock(r)
  \/ \E f \in Files: Skip(r, f) \/ BeginFile(r, f) \/ Register(r, f) \/ Commit(r, f)
  \/ Apply(r) \/ Finish(r) \/ Unlock(r) \/ GiveUp(r)

Next ==
  \/ OrphanEnds
  \/ \E r \in Replicas: Step(r) \/ StatementFails(r) \/ LoseSession(r) \/ Crash(r)

Spec == Init /\ [][Next]_vars

\* Containers are restarted, statements are executed, PostgreSQL grants the
\* lock in the order of the requests and ends dead sessions.
FairSpec == Spec /\ WF_vars(OrphanEnds) /\ \A r \in Replicas: SF_vars(Step(r))

------------------------------------------------------------------------------
\* Properties

\* Two replicas never migrate at the same time, and a replica migrates only
\* while its own session holds the lock.
OneMigrator == \A r \in Replicas: pc[r] \in Locked => lock = r

\* The registry tells the truth through every crash: a file is registered if
\* and only if its contents took effect, and they never take effect twice.
RegistryIsExact == \A f \in Files: applied[f] = IF f \in registered THEN 1 ELSE 0

\* No file takes effect before the files that precede it.
FilesInOrder == \A f \in registered: \A g \in Files: g < f => g \in registered

\* A replica serves only on a complete schema.
ReadyIsMigrated == \A r \in Replicas: pc[r] = "ready" => Files \subseteq registered

\* Replicas do not disturb each other: Migrate fails only because of a fault.
FailuresHaveACause ==
  [][\A r \in Replicas: pc[r] # "failing" /\ pc'[r] = "failing" => faults' > faults]_vars

\* Every replica gets to serve, whatever the others and the faults did before.
EveryReplicaStarts == \A r \in Replicas: pc[r] = "down" ~> pc[r] = "ready"
==============================================================================
