--------------------------- MODULE ApiServiceProofs ---------------------------
(* The types and the safety of ApiService, for any number of requests,        *)
(* attempts, connections and faults.                                         *)
EXTENDS ApiService, FiniteSetTheorems, TLAPS

------------------------------------------------------------------------------
\* The inductive invariant

Starting == {"down", "opening", "pinging", "openPause", "migrating", "dialing", "setup",
             "dialPause", "listen"}

\* What main holds is a function of where it is and of the connection's state.
Held ==
  /\ pools = IF pc \in {"down", "opening", "openPause", "flush"} THEN 0 ELSE 1
  /\ links = IF amqp = "open" THEN 1 ELSE 0
  /\ amqp # "none" => pc \in {"setup", "listen", "serving", "closeBroker"}

\* Nobody uses the pool before the server listens or after the pool was closed
\* and waited for.
Idle ==
  /\ listening => pc = "serving"
  /\ pc \in Starting => \A r \in Requests: phase[r] \in {"none", "cut"}
  /\ pc \in {"waitPool", "flush"} => pool = "closed"
  /\ pc = "flush" => Querying = {}

IInv == TypeOK /\ Held /\ Idle

\* What Idle comes to when main ends by itself.
LEMMA NoQueryAtAnEnd ==
  ASSUME IInv, pc \in Starting \union {"flush"}
  PROVE  \A r \in Requests: phase[r] # "query"
BY DEF IInv, Idle, Querying, Starting

LEMMA EndIsIdle ==
  ASSUME IInv, End, faults' \in 0..MaxFaults
  PROVE  IInv'
<1>1. MaxAttempts \in Nat \ {0}
  BY BoundsAssumption
<1>2. TypeOK'
  <2>1. attempt' \in 1..MaxAttempts
    BY <1>1 DEF End
  <2>2. phase' \in [Requests -> Phases]
    BY DEF End, Phases
  <2>3. db' \in BOOLEAN /\ mq' \in BOOLEAN
    BY Zenon DEF IInv, TypeOK, End
  <2>4. signalled' \in BOOLEAN /\ listening' \in BOOLEAN /\ expired' \in BOOLEAN
    BY DEF End
  <2>5. pc' \in PCs /\ pools' \in Nat /\ links' \in Nat /\ pool' = "none" /\ amqp' = "none"
    BY DEF End, PCs
  <2> QED BY <2>1, <2>2, <2>3, <2>4, <2>5 DEF TypeOK
<1>3. Held'
  BY DEF End, Held
<1>4. Idle'
  BY DEF IInv, TypeOK, End, Idle, Starting
<1> QED BY <1>2, <1>3, <1>4 DEF IInv

LEMMA FaultIsTyped ==
  ASSUME IInv, Fault
  PROVE  faults' \in 0..MaxFaults
BY BoundsAssumption DEF IInv, TypeOK, Fault

LEMMA InitIInv == Init => IInv
<1> SUFFICES ASSUME Init PROVE IInv
  OBVIOUS
<1>1. TypeOK
  <2>1. attempt \in 1..MaxAttempts /\ faults \in 0..MaxFaults
    BY BoundsAssumption DEF Init
  <2>2. phase \in [Requests -> Phases]
    BY DEF Init, Phases
  <2>3. /\ signalled \in BOOLEAN /\ listening \in BOOLEAN /\ expired \in BOOLEAN
        /\ db \in BOOLEAN /\ mq \in BOOLEAN
    BY DEF Init
  <2>4. pc \in PCs /\ pools \in Nat /\ links \in Nat /\ pool = "none" /\ amqp = "none"
    BY DEF Init, PCs
  <2> QED BY <2>1, <2>2, <2>3, <2>4 DEF TypeOK
<1>2. Held /\ Idle
  BY DEF Init, Held, Idle, Querying, Starting
<1> QED BY <1>1, <1>2 DEF IInv

LEMMA NextIInv == IInv /\ [Next]_vars => IInv'
<1> SUFFICES ASSUME IInv, [Next]_vars PROVE IInv'
  OBVIOUS
<1> USE BoundsAssumption DEF IInv, TypeOK, PCs, Phases, Held, Idle, Querying, Starting, Goto
<1>1. CASE Boot
  BY <1>1 DEF Boot
<1>2. CASE NewPool
  BY <1>2 DEF NewPool
<1>3. CASE PingSucceeds
  BY <1>3 DEF PingSucceeds
<1>4. CASE PingFails
  BY <1>4 DEF PingFails
<1>5. CASE NextAttempt
  BY <1>5 DEF NextAttempt
<1>6. CASE GiveUp
  BY <1>6, EndIsIdle DEF GiveUp
<1>7. CASE MigrateSucceeds
  BY <1>7 DEF MigrateSucceeds
<1>8. CASE MigrateFails
  BY <1>8, EndIsIdle DEF MigrateFails
<1>9. CASE Dial
  BY <1>9 DEF Dial
<1>10. CASE SetupSucceeds
  BY <1>10 DEF SetupSucceeds
<1>11. CASE SetupFails
  BY <1>11, FaultIsTyped DEF SetupFails, CloseConnection
<1>12. CASE Listen
  BY <1>12 DEF Listen
<1>13. CASE Shutdown
  BY <1>13 DEF Shutdown
<1>14. CASE CloseBroker
  BY <1>14 DEF CloseBroker, CloseConnection
<1>15. CASE CloseStore
  BY <1>15 DEF CloseStore
<1>16. CASE StoreClosed
  BY <1>16 DEF StoreClosed
<1>17. CASE Return
  BY <1>17, EndIsIdle DEF Return
<1>18. CASE ListenFails
  BY <1>18, EndIsIdle, FaultIsTyped DEF ListenFails
<1>19. CASE Signal
  BY <1>19, FaultIsTyped DEF Signal
<1>20. CASE Expire
  BY <1>20 DEF Expire
<1>21. CASE Kill
  BY <1>21, EndIsIdle, FaultIsTyped DEF Kill
<1>22. ASSUME NEW r \in Requests, Accept(r) PROVE IInv'
  BY <1>22 DEF Accept, process
<1>23. ASSUME NEW r \in Requests, Acquire(r) PROVE IInv'
  BY <1>23 DEF Acquire, process
<1>24. ASSUME NEW r \in Requests, AcquireFails(r) \/ QueryEnds(r) \/ Write(r) PROVE IInv'
  BY <1>24 DEF AcquireFails, QueryEnds, Write, process
<1>25. CASE DbToggles
  BY <1>25 DEF DbToggles, process
<1>26. CASE MqReturns
  BY <1>26 DEF MqReturns, process
<1>27. CASE ConnectionLost
  <2>1. mq' = mq \/ mq' = FALSE
    BY <1>27, Zenon DEF ConnectionLost
  <2>2. mq' \in BOOLEAN
    BY <2>1
  <2> QED BY <1>27, <2>2 DEF ConnectionLost
<1>28. CASE UNCHANGED vars
  BY <1>28 DEF vars
<1> HIDE DEF IInv, TypeOK, PCs, Phases, Held, Idle, Querying, Starting, Goto
<1>29. CASE MainStep
  BY <1>2, <1>3, <1>4, <1>5, <1>6, <1>7, <1>8, <1>9, <1>10, <1>11, <1>12, <1>13, <1>14,
     <1>15, <1>16, <1>17, <1>29, Zenon DEF MainStep
<1>30. ASSUME NEW r \in Requests, Accept(r) \/ RequestStep(r) PROVE IInv'
  BY <1>22, <1>23, <1>24, <1>30, Zenon DEF RequestStep
<1> QED
  BY <1>1, <1>18, <1>19, <1>20, <1>21, <1>25, <1>26, <1>27, <1>28, <1>29, <1>30, Zenon
  DEF Next

LEMMA SpecIInv == Spec => []IInv
BY InitIInv, NextIInv, PTL DEF Spec

------------------------------------------------------------------------------
\* The theorems

\* The variables of the process keep their types, whatever fails while it
\* starts, serves and stops.
THEOREM TypeCorrect == Spec => []TypeOK
<1>1. IInv => TypeOK
  BY DEF IInv
<1> QED BY <1>1, SpecIInv, PTL

\* OpenWithRetry and ConnectWithRetry leave nothing behind, for any number of
\* attempts and whatever fails in them.
THEOREM RetriesNeverLeak == Spec => []RetriesLeakNothing
<1>1. IInv => RetriesLeakNothing
  BY DEF IInv, TypeOK, Held, RetriesLeakNothing
<1> QED BY <1>1, SpecIInv, PTL

\* A process that ends by itself, at any point of its startup or after its
\* shutdown, cuts no transaction off.
THEOREM GracefulExitsAbortNothing == Spec => GracefulExitAbortsNothing
<1> DEFINE Step ==
      (\E r \in Requests: phase[r] = "query" /\ phase'[r] = "cut") => faults' # faults
<1>1. IInv /\ [Next]_vars => [Step]_vars
  <2> SUFFICES ASSUME IInv, Next, NEW r \in Requests, phase[r] = "query", phase'[r] = "cut"
               PROVE  faults' # faults
    BY DEF vars
  <2>1. ASSUME Fault PROVE faults' # faults
    BY <2>1, BoundsAssumption DEF IInv, TypeOK, Fault
  <2>2. CASE GiveUp \/ MigrateFails \/ Return
    BY <2>2, NoQueryAtAnEnd DEF GiveUp, MigrateFails, Return, Starting
  <2>3. CASE ListenFails \/ Kill
    BY <2>1, <2>3 DEF ListenFails, Kill
  <2>4. ASSUME NEW q \in Requests, Accept(q) \/ RequestStep(q) PROVE FALSE
    BY <2>4 DEF IInv, TypeOK, Accept, RequestStep, Acquire, AcquireFails, QueryEnds, Write
  <2>5. CASE Boot \/ Signal \/ Expire \/ DbToggles \/ MqReturns \/ ConnectionLost
    BY <2>5 DEF Boot, Signal, Expire, DbToggles, MqReturns, ConnectionLost
  <2>6. CASE NewPool \/ PingSucceeds \/ PingFails \/ NextAttempt \/ MigrateSucceeds
    BY <2>6 DEF NewPool, PingSucceeds, PingFails, NextAttempt, MigrateSucceeds
  <2>7. CASE Dial \/ SetupSucceeds \/ SetupFails \/ Listen
    BY <2>7 DEF Dial, SetupSucceeds, SetupFails, Listen
  <2>8. CASE Shutdown \/ CloseBroker \/ CloseStore \/ StoreClosed
    BY <2>8 DEF Shutdown, CloseBroker, CloseStore, StoreClosed
  <2> QED BY <2>2, <2>3, <2>4, <2>5, <2>6, <2>7, <2>8 DEF Next, MainStep
<1> QED BY <1>1, SpecIInv, PTL DEF Spec, GracefulExitAbortsNothing

------------------------------------------------------------------------------
\* The pool

\* A transaction runs on the one pool the process has, which is not given up
\* under it.
QueriesHaveAPool ==
  Querying # {} => /\ pools = 1 /\ pool \in {"open", "closed"}
                   /\ pc \in {"serving", "closeBroker", "closeStore", "waitPool"}

\* No transaction begins before the schema is migrated and RabbitMQ connected, and
\* none outlives the pool: Store.Close waits for the last.
THEOREM QueriesRunOnThePool == Spec => []QueriesHaveAPool
<1>1. IInv => (Querying # {} => pc \notin Starting \union {"flush"} /\ pools = 1)
  BY DEF IInv, TypeOK, PCs, Held, Idle, Querying, Starting
<1>2. Init => (pc \notin {"down", "opening", "pinging", "openPause"} => pool # "none")
  BY DEF Init
<1>3. ASSUME IInv, [Next]_vars,
             pc \notin {"down", "opening", "pinging", "openPause"} => pool # "none"
      PROVE  (pc \notin {"down", "opening", "pinging", "openPause"} => pool # "none")'
  <2>. USE <1>3 DEF Goto
  <2>1. CASE Boot \/ NewPool \/ PingSucceeds \/ PingFails
    BY <2>1 DEF Boot, NewPool, PingSucceeds, PingFails
  <2>2. CASE NextAttempt
    BY <2>2 DEF NextAttempt
  <2>3. CASE End
    BY <2>3 DEF End
  <2>4. CASE MigrateSucceeds \/ Dial \/ SetupSucceeds \/ SetupFails \/ Listen
    BY <2>4 DEF MigrateSucceeds, Dial, SetupSucceeds, SetupFails, Listen
  <2>5. CASE Shutdown \/ CloseBroker \/ CloseStore \/ StoreClosed
    BY <2>5 DEF Shutdown, CloseBroker, CloseStore, StoreClosed
  <2>6. CASE UNCHANGED <<pc, pool>>
    BY <2>6
  <2>7. CASE GiveUp \/ MigrateFails \/ Return \/ ListenFails \/ Kill
    BY <2>3, <2>7 DEF GiveUp, MigrateFails, Return, ListenFails, Kill
  <2>8. CASE Signal \/ Expire \/ DbToggles \/ MqReturns \/ ConnectionLost \/ UNCHANGED vars
    BY <2>6, <2>8 DEF Signal, Expire, DbToggles, MqReturns, ConnectionLost, process, vars
  <2>9. ASSUME NEW r \in Requests, Accept(r) \/ RequestStep(r) PROVE UNCHANGED <<pc, pool>>
    BY <2>9 DEF Accept, RequestStep, Acquire, AcquireFails, QueryEnds, Write, process
  <2>. QED BY <2>1, <2>2, <2>4, <2>5, <2>6, <2>7, <2>8, <2>9 DEF Next, MainStep
<1>4. IInv /\ (pc \notin {"down", "opening", "pinging", "openPause"} => pool # "none")
        => QueriesHaveAPool
  BY <1>1 DEF IInv, TypeOK, PCs, Starting, QueriesHaveAPool
<1>. QED BY <1>2, <1>3, <1>4, SpecIInv, PTL DEF Spec

PoolIsLimited == IsFiniteSet(Querying) /\ Cardinality(Querying) <= MaxConns

\* However many requests arrive, and while main closes the pool under them, no more
\* of them are in a transaction than the pool has connections.
THEOREM PoolStaysLimited == Spec => []PoolIsLimited
<1>1. Init => PoolIsLimited
  <2>. SUFFICES ASSUME Init PROVE PoolIsLimited
    OBVIOUS
  <2>1. Querying = {}
    BY DEF Init, Querying
  <2>. QED BY <2>1, FS_EmptySet, BoundsAssumption DEF PoolIsLimited
<1>2. ASSUME IInv, PoolIsLimited, [Next]_vars PROVE PoolIsLimited'
  <2>1. CASE Querying' \subseteq Querying
    <3>1. IsFiniteSet(Querying') /\ Cardinality(Querying') <= Cardinality(Querying)
      BY <1>2, <2>1, FS_Subset DEF PoolIsLimited
    <3>2. Cardinality(Querying') \in Nat /\ Cardinality(Querying) \in Nat
      BY <1>2, <3>1, FS_CardinalityType DEF PoolIsLimited
    <3>. QED BY <1>2, <3>1, <3>2, BoundsAssumption DEF PoolIsLimited
  <2>2. ASSUME NEW r \in Requests, Acquire(r) PROVE PoolIsLimited'
    <3>1. Querying' = Querying \union {r}
      <4>1. \A q \in Requests: phase'[q] = IF q = r THEN "query" ELSE phase[q]
        BY <1>2, <2>2 DEF IInv, TypeOK, Acquire
      <4>. QED BY <4>1 DEF Querying
    <3>2. r \notin Querying /\ Cardinality(Querying) < MaxConns
      BY <2>2 DEF Acquire, Querying
    <3>3. IsFiniteSet(Querying') /\ Cardinality(Querying') = Cardinality(Querying) + 1
      BY <1>2, <3>1, <3>2, FS_AddElement DEF PoolIsLimited
    <3>4. Cardinality(Querying) \in Nat
      BY <1>2, FS_CardinalityType DEF PoolIsLimited
    <3>. QED BY <3>2, <3>3, <3>4, BoundsAssumption DEF PoolIsLimited
  <2>3. \/ UNCHANGED phase \/ End
        \/ \E r \in Requests: Accept(r) \/ RequestStep(r)
    BY <1>2 DEF Next, MainStep, Boot, NewPool, PingSucceeds, PingFails, NextAttempt, GiveUp,
       MigrateSucceeds, MigrateFails, Dial, SetupSucceeds, SetupFails, Listen, ListenFails,
       Signal, Shutdown, Expire, CloseBroker, CloseStore, StoreClosed, Return, Kill,
       DbToggles, MqReturns, ConnectionLost, process, vars
  <2>4. CASE UNCHANGED phase \/ End
    BY <2>1, <2>4 DEF End, Querying
  <2>5. ASSUME NEW r \in Requests, Accept(r) \/ AcquireFails(r) \/ QueryEnds(r) \/ Write(r)
        PROVE  Querying' \subseteq Querying
    BY <1>2, <2>5 DEF IInv, TypeOK, Accept, AcquireFails, QueryEnds, Write, Querying
  <2>. QED BY <2>1, <2>2, <2>3, <2>4, <2>5 DEF RequestStep
<1>. QED BY <1>1, <1>2, SpecIInv, PTL DEF Spec
==============================================================================
