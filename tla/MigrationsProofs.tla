--------------------------- MODULE MigrationsProofs ---------------------------
(***************************************************************************)
(* Proofs about the migrations for any number of replicas, files and faults. *)
(***************************************************************************)
EXTENDS Migrations, TLAPS

------------------------------------------------------------------------------
\* The inductive invariant

\* What the loop is done with is registered, and the file it applies is not.
LoopIsTruthful ==
  \A r \in Replicas: pc[r] \in Locked \union {"locking"} =>
    /\ seen[r] \subseteq registered
    /\ pc[r] \in {"apply", "register", "commit"} =>
         \A f \in Files: AtFile(r, f) => f \notin registered

DoneIsMigrated ==
  \A r \in Replicas: pc[r] \in {"unlock", "ready"} => Files \subseteq registered

IInv ==
  /\ TypeOK
  /\ OneMigrator
  /\ RegistryIsExact
  /\ FilesInOrder
  /\ LoopIsTruthful
  /\ DoneIsMigrated

------------------------------------------------------------------------------
\* A file that takes effect is the first unregistered one: the schema stays
\* exact and in order.
LEMMA PublishKeepsTheSchema ==
  ASSUME TypeOK, RegistryIsExact, FilesInOrder,
         NEW r \in Replicas, seen[r] \subseteq registered,
         NEW f \in Files, AtFile(r, f), f \notin registered, Publish(f)
  PROVE  /\ applied' \in [Files -> 0..2]
         /\ registered' = registered \union {f}
         /\ RegistryIsExact' /\ FilesInOrder'
<1>. USE FilesAssumption DEF TypeOK, Publish, TakeEffect
<1>1. RegistryIsExact'
  BY DEF RegistryIsExact
<1>2. FilesInOrder'
  BY DEF FilesInOrder, AtFile
<1>. QED BY <1>1, <1>2

\* A transaction of unknown outcome either left no trace or is such a file.
LEMMA InDoubtKeepsTheSchema ==
  ASSUME IInv, NEW r \in Replicas, EndInDoubt(r)
  PROVE  /\ applied' \in [Files -> 0..2]
         /\ registered \subseteq registered' /\ registered' \subseteq Files
         /\ RegistryIsExact' /\ FilesInOrder'
         /\ registered' = registered \/ lock = r
<1>1. CASE UNCHANGED schema
  BY <1>1 DEF schema, IInv, TypeOK, RegistryIsExact, FilesInOrder
<1>2. CASE pc[r] = "commit" /\ \E f \in Files: AtFile(r, f) /\ Publish(f)
  BY <1>2, PublishKeepsTheSchema DEF IInv, TypeOK, OneMigrator, LoopIsTruthful, Locked
<1>. QED BY <1>1, <1>2 DEF EndInDoubt

\* Every step keeps the invariant. Only the holder of the lock touches the
\* schema, so what the other replicas know stays true.
LEMMA InvariantStep == IInv /\ [Next]_vars => IInv'
<1>. SUFFICES ASSUME IInv, [Next]_vars PROVE IInv'
  OBVIOUS
<1>. USE HoldersAssumption, FaultsAssumption DEF Goto, PCs, Locked
<1>. USE DEF IInv, TypeOK, OneMigrator, LoopIsTruthful, DoneIsMigrated
<1>1. ASSUME UNCHANGED schema PROVE RegistryIsExact' /\ FilesInOrder'
  BY <1>1 DEF schema, RegistryIsExact, FilesInOrder
<1>2. ASSUME NEW r \in Replicas, Boot(r) PROVE IInv'
  <2>1. \A s \in Replicas: pc'[s] \in Locked \union {"locking", "ready"} =>
          \/ pc'[s] = pc[s] /\ seen'[s] = seen[s]
          \/ pc'[s] = "locking" /\ seen'[s] = {}
    BY <1>2 DEF Boot
  <2>2. UNCHANGED <<lock, registered>>
    BY <1>2 DEF Boot, schema
  <2>3. OneMigrator' /\ LoopIsTruthful' /\ DoneIsMigrated'
    BY <2>1, <2>2 DEF AtFile
  <2>4. TypeOK'
    BY <1>2 DEF Boot, schema
  <2>. QED BY <1>1, <1>2, <2>3, <2>4 DEF Boot
<1>3. ASSUME NEW r \in Replicas, TakeLock(r) PROVE IInv'
  <2>1. \A s \in Replicas: pc[s] \notin Locked
    BY <1>3 DEF TakeLock
  <2>2. /\ lock' = r /\ pc' = [pc EXCEPT ![r] = "loop"]
        /\ UNCHANGED <<registered, applied, seen, faults>>
    BY <1>3 DEF TakeLock, schema
  <2>3. \A s \in Replicas: pc'[s] \in Locked => s = r
    BY <2>1, <2>2
  <2>4. seen[r] \subseteq registered
    BY <1>3 DEF TakeLock
  <2>5. OneMigrator' /\ LoopIsTruthful' /\ DoneIsMigrated'
    BY <2>2, <2>3, <2>4
  <2>6. TypeOK'
    BY <2>2
  <2>. QED BY <1>1, <2>2, <2>5, <2>6 DEF schema
<1>4. ASSUME NEW r \in Replicas, NEW f \in Files, Skip(r, f) PROVE IInv'
  BY <1>1, <1>4 DEF Skip, schema, AtFile
<1>5. ASSUME NEW r \in Replicas, NEW f \in Files, BeginFile(r, f) PROVE IInv'
  <2>1. \A g \in Files: AtFile(r, g) => g = f
    BY <1>5, FilesAssumption DEF BeginFile, AtFile
  <2>. QED BY <1>1, <1>5, <2>1 DEF BeginFile, schema, AtFile
<1>6. ASSUME NEW r \in Replicas, Apply(r) PROVE IInv'
  BY <1>1, <1>6 DEF Apply, schema, AtFile
<1>7. ASSUME NEW r \in Replicas, NEW f \in Files, Register(r, f) PROVE IInv'
  BY <1>1, <1>7 DEF Register, schema, AtFile
<1>8. ASSUME NEW r \in Replicas, NEW f \in Files, Commit(r, f) PROVE IInv'
  <2>1. /\ applied' \in [Files -> 0..2]
        /\ registered' = registered \union {f}
        /\ RegistryIsExact' /\ FilesInOrder'
    BY <1>8, PublishKeepsTheSchema DEF Commit
  <2>. QED BY <1>8, <2>1 DEF Commit, AtFile
<1>9. ASSUME NEW r \in Replicas, Finish(r) PROVE IInv'
  BY <1>1, <1>9 DEF Finish, schema, AtFile
<1>10. ASSUME NEW r \in Replicas, Unlock(r) PROVE IInv'
  BY <1>1, <1>10 DEF Unlock, schema, AtFile
<1>11. ASSUME NEW r \in Replicas, GiveUp(r) PROVE IInv'
  BY <1>1, <1>11 DEF GiveUp, schema, AtFile
<1>12. ASSUME NEW r \in Replicas, StatementFails(r) PROVE IInv'
  <2>1. /\ applied' \in [Files -> 0..2]
        /\ registered \subseteq registered' /\ registered' \subseteq Files
        /\ RegistryIsExact' /\ FilesInOrder'
        /\ registered' = registered \/ lock = r
    BY <1>12, InDoubtKeepsTheSchema DEF StatementFails
  <2>. QED BY <1>12, <2>1 DEF StatementFails, Fault, AtFile
<1>13. ASSUME NEW r \in Replicas, LoseSession(r) PROVE IInv'
  <2>1. /\ applied' \in [Files -> 0..2]
        /\ registered \subseteq registered' /\ registered' \subseteq Files
        /\ RegistryIsExact' /\ FilesInOrder'
        /\ registered' = registered \/ lock = r
    BY <1>13, InDoubtKeepsTheSchema DEF LoseSession
  <2>2. \A s \in Replicas: s # r =>
          /\ pc'[s] = pc[s] /\ seen'[s] = seen[s]
          /\ pc[s] \in Locked => lock' = lock /\ registered' = registered
    BY <1>13, <2>1 DEF LoseSession
  <2>3. pc'[r] \notin Locked \union {"locking"} /\ (pc'[r] = "ready" => pc[r] = "unlock")
    BY <1>13 DEF LoseSession
  <2>4. OneMigrator' /\ LoopIsTruthful' /\ DoneIsMigrated'
    BY <2>1, <2>2, <2>3 DEF AtFile
  <2>5. TypeOK'
    BY <1>13, <2>1 DEF LoseSession, Fault
  <2>. QED BY <2>1, <2>4, <2>5
<1>14. ASSUME NEW r \in Replicas, Crash(r) PROVE IInv'
  <2>1. /\ applied' \in [Files -> 0..2]
        /\ registered \subseteq registered' /\ registered' \subseteq Files
        /\ RegistryIsExact' /\ FilesInOrder'
        /\ registered' = registered \/ lock = r
    BY <1>14, InDoubtKeepsTheSchema DEF Crash
  <2>2. \A s \in Replicas: s # r =>
          /\ pc'[s] = pc[s] /\ seen'[s] = seen[s]
          /\ pc[s] \in Locked => lock' = lock /\ registered' = registered
    BY <1>14, <2>1 DEF Crash
  <2>3. pc'[r] \notin Locked \union {"locking"} /\ (pc'[r] = "ready" => pc[r] = "unlock")
    BY <1>14 DEF Crash
  <2>4. OneMigrator' /\ LoopIsTruthful' /\ DoneIsMigrated'
    BY <2>1, <2>2, <2>3 DEF AtFile
  <2>5. TypeOK'
    BY <1>14, <2>1 DEF Crash, Fault
  <2>. QED BY <2>1, <2>4, <2>5
<1>15. CASE OrphanEnds
  BY <1>1, <1>15 DEF OrphanEnds, schema, AtFile
<1>16. CASE UNCHANGED vars
  BY <1>1, <1>16 DEF vars, schema, AtFile
<1>. QED
  BY <1>2, <1>3, <1>4, <1>5, <1>6, <1>7, <1>8, <1>9, <1>10, <1>11, <1>12, <1>13, <1>14,
     <1>15, <1>16 DEF Next, Step

LEMMA InvariantHolds == Spec => []IInv
<1>1. Init => IInv
  BY FaultsAssumption
     DEF Init, IInv, TypeOK, PCs, OneMigrator, Locked, RegistryIsExact, FilesInOrder,
     LoopIsTruthful, DoneIsMigrated
<1>. QED BY <1>1, InvariantStep, PTL DEF Spec

\* The variables of the migrations keep their types.
THEOREM TypeCorrect == Spec => []TypeOK
<1>1. IInv => TypeOK
  BY DEF IInv
<1>. QED BY <1>1, InvariantHolds, PTL

\* The advisory lock keeps all other replicas out for the whole of Migrate.
THEOREM MigratorsAreExclusive == Spec => []OneMigrator
<1>1. IInv => OneMigrator
  BY DEF IInv
<1>. QED BY <1>1, InvariantHolds, PTL

\* Every file takes effect once and is registered with its effect.
THEOREM RegistryStaysExact == Spec => []RegistryIsExact
<1>1. IInv => RegistryIsExact
  BY DEF IInv
<1>. QED BY <1>1, InvariantHolds, PTL

\* The files take effect in the order of their names.
THEOREM FilesStayInOrder == Spec => []FilesInOrder
<1>1. IInv => FilesInOrder
  BY DEF IInv
<1>. QED BY <1>1, InvariantHolds, PTL

\* No replica leaves Migrate successfully with a file missing.
THEOREM ReadyReplicasAreMigrated == Spec => []ReadyIsMigrated
<1>1. IInv => ReadyIsMigrated
  BY DEF IInv, DoneIsMigrated, ReadyIsMigrated
<1>. QED BY <1>1, InvariantHolds, PTL

\* The registration of a file never clashes with another replica's.
THEOREM OnlyFaultsFail == Spec => FailuresHaveACause
<1>. DEFINE Caused == \A r \in Replicas: pc[r] # "failing" /\ pc'[r] = "failing" => faults' > faults
<1>1. ASSUME IInv, [Next]_vars PROVE [Caused]_vars
  <2>. USE <1>1 DEF IInv, TypeOK, Goto
  <2>1. ASSUME NEW r \in Replicas, NEW f \in Files, Register(r, f) PROVE Caused
    BY <2>1 DEF Register, LoopIsTruthful, Locked
  <2>2. ASSUME NEW r \in Replicas, StatementFails(r) PROVE Caused
    BY <2>2, FaultsAssumption DEF StatementFails, Fault
  <2>3. CASE \E r \in Replicas, label \in PCs \ {"failing"}: Goto(r, label)
    BY <2>3
  <2>4. CASE UNCHANGED pc
    BY <2>4
  <2>5. \/ UNCHANGED pc
        \/ \E r \in Replicas, label \in PCs \ {"failing"}: Goto(r, label)
        \/ \E r \in Replicas: StatementFails(r) \/ \E f \in Files: Register(r, f)
    BY DEF Next, Step, OrphanEnds, Boot, TakeLock, Skip, BeginFile, Commit, Apply, Finish,
       Unlock, GiveUp, LoseSession, Crash, PCs, vars
  <2>. QED BY <2>1, <2>2, <2>3, <2>4, <2>5
<1>. QED BY <1>1, InvariantHolds, PTL DEF Spec, FailuresHaveACause

------------------------------------------------------------------------------
\* The lock and the schema

\* A replica that holds the lock is in the middle of Migrate.
LockIsInUse == lock \in Replicas => pc[lock] \in Locked

\* However Migrate ends, by its deferred unlock, an error or a lost session, its
\* replica does not keep the lock: no serving replica shuts the others out.
THEOREM NobodyKeepsTheLock == Spec => []LockIsInUse
<1>1. Init => LockIsInUse
  BY HoldersAssumption DEF Init, LockIsInUse
<1>2. ASSUME IInv, LockIsInUse, [Next]_vars PROVE LockIsInUse'
  <2>. USE <1>2, HoldersAssumption DEF IInv, TypeOK, OneMigrator, LockIsInUse, Locked, Goto
  <2>1. CASE lock' \in {Nobody, Orphan}
    BY <2>1
  <2>2. ASSUME NEW r \in Replicas, Boot(r) PROVE LockIsInUse'
    BY <2>2 DEF Boot
  <2>3. ASSUME NEW r \in Replicas, TakeLock(r) PROVE LockIsInUse'
    BY <2>3 DEF TakeLock
  <2>4. ASSUME NEW r \in Replicas, NEW label \in Locked, Goto(r, label), lock' = lock
        PROVE  LockIsInUse'
    BY <2>4
  <2>5. ASSUME NEW r \in Replicas, LoseSession(r) \/ Crash(r) PROVE LockIsInUse'
    BY <2>5 DEF LoseSession, Crash
  <2>6. CASE UNCHANGED <<lock, pc>>
    BY <2>6
  <2>7. \/ lock' \in {Nobody, Orphan}
        \/ UNCHANGED <<lock, pc>>
        \/ \E r \in Replicas:
             \/ Boot(r) \/ TakeLock(r) \/ LoseSession(r) \/ Crash(r)
             \/ lock' = lock /\ \E label \in Locked: Goto(r, label)
    BY DEF Next, Step, OrphanEnds, Skip, BeginFile, Apply, Register, Commit, Finish, Unlock,
       GiveUp, StatementFails, vars
  <2>. QED BY <2>1, <2>2, <2>3, <2>4, <2>5, <2>6, <2>7
<1>. QED BY <1>1, <1>2, InvariantHolds, PTL DEF Spec

\* What a step may do to the registry: nothing, or to add the first missing file,
\* by the commit of the one replica that is in Migrate with the lock.
OneFileAtATime ==
  /\ registered \subseteq registered'
  /\ \A f \in registered' \ registered:
       /\ registered' = registered \union {f}
       /\ \A g \in Files: g < f => g \in registered
       /\ lock \in Replicas /\ pc[lock] = "commit"
       /\ \A r \in Replicas \ {lock}: pc[r] \notin Locked

\* The schema only ever moves forward, one file at a time in the order of the
\* names, and never behind the back of whoever has the lock.
THEOREM SchemaMovesForward == Spec => [][OneFileAtATime]_vars
<1>1. ASSUME IInv, IInv', [Next]_vars PROVE OneFileAtATime
  <2>. USE <1>1 DEF IInv, TypeOK, OneMigrator, Locked
  <2>1. ASSUME NEW r \in Replicas, pc[r] = "commit",
               NEW f \in Files, AtFile(r, f), Publish(f)
        PROVE  OneFileAtATime
    <3>1. registered' = registered \union {f}
      BY <2>1 DEF Publish
    <3>2. \A g \in Files: g < f => g \in registered
      BY <2>1, FilesAssumption DEF AtFile, LoopIsTruthful
    <3>3. lock = r /\ \A s \in Replicas \ {lock}: pc[s] \notin Locked
      BY <2>1
    <3>. QED BY <2>1, <3>1, <3>2, <3>3 DEF OneFileAtATime
  <2>2. CASE UNCHANGED registered
    BY <2>2 DEF OneFileAtATime
  <2>3. \/ UNCHANGED registered
        \/ \E r \in Replicas, f \in Files: pc[r] = "commit" /\ AtFile(r, f) /\ Publish(f)
    BY DEF Next, Step, OrphanEnds, Boot, TakeLock, Skip, BeginFile, Apply, Register, Commit,
       Finish, Unlock, GiveUp, StatementFails, LoseSession, Crash, EndInDoubt, schema, vars
  <2>. QED BY <2>1, <2>2, <2>3
<1>2. ASSUME IInv, IInv', [Next]_vars PROVE [OneFileAtATime]_vars
  BY <1>1, <1>2
<1>. QED BY <1>2, InvariantHolds, PTL DEF Spec
==============================================================================
