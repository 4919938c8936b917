-------------------------- MODULE CreateImportProofs --------------------------
(***************************************************************************)
(* Proofs about the create for any number of concurrent requests, keys and  *)
(* faults.                                                                  *)
(***************************************************************************)
EXTENDS CreateImport, TLAPS

------------------------------------------------------------------------------
\* The inductive invariant

Active == {"begun", "querying", "inserted", "staged", "found"}
Writing == {"inserted", "staged"}

\* A request has a key once it is accepted, and a reply once it is done.
Bookkeeping ==
  \A r \in Requests:
    /\ pc[r] = "new" => key[r] = NoKey /\ r \notin late
    /\ pc[r] \in Active => key[r] \in Keys
    /\ pc[r] = "done" <=> reply[r] # NoReply

\* Who writes a row writes its own, which nobody can see yet.
WritesOwnRow ==
  /\ \A r \in Requests: pc[r] \in Writing => found[r] = r /\ r \notin imports
  /\ \A r \in imports: pc[r] = "done" /\ key[r] \in Keys

\* The unique index: committed or not, one row per key.
OneRowPerKey ==
  \A r, s \in Requests:
    /\ r \in imports \/ pc[r] \in Writing
    /\ s \in imports \/ pc[s] \in Writing
    /\ key[r] = key[s]
    => r = s

\* A replay has found the stored import of its key.
FoundIsStored ==
  \A r \in Requests: pc[r] = "found" =>
    found[r] \in imports /\ key[found[r]] = key[r]

\* A successful answer names the stored import of its key.
AnswersNameTheImport ==
  \A r \in Requests: Successful(r) =>
    /\ reply[r].import \in imports
    /\ key[reply[r].import] = key[r]
    /\ reply[r].code = 201 => reply[r].import = r

\* A retry meets an import that its first statement can see.
LateSeesTheImport ==
  \A r \in late:
    /\ \E s \in imports: s # r /\ key[s] = key[r] /\ (pc[r] = "querying" => s \in snap[r])
    /\ pc[r] \notin Writing

Typing == TypeOK /\ Bookkeeping

Safe ==
  /\ WritesOwnRow
  /\ OneRowPerKey
  /\ FoundIsStored
  /\ ImportIffEvent
  /\ AnswersNameTheImport
  /\ LateSeesTheImport
  /\ RetryIsReplayed
  /\ ErrorMeansRace

IInv == Typing /\ Safe

------------------------------------------------------------------------------
\* Every step keeps the types and the bookkeeping.
LEMMA TypingStep == Typing /\ WritesOwnRow /\ FoundIsStored /\ [Next]_vars => Typing'
<1>. SUFFICES ASSUME Typing, WritesOwnRow, FoundIsStored, [Next]_vars PROVE Typing'
  OBVIOUS
<1>. USE NullsAssumption, ReplyAssumption, FaultsAssumption
     DEF Typing, TypeOK, PCs, Codes, Bookkeeping, Active, database, history
<1>1. ASSUME NEW r \in Requests, NEW k \in Keys, Receive(r, k) PROVE Typing'
  BY <1>1 DEF Receive
<1>2. ASSUME NEW r \in Requests, Reject(r) PROVE Typing'
  BY <1>2 DEF Reject, Answer
<1>3. ASSUME NEW r \in Requests, StartStatement(r) PROVE Typing'
  BY <1>3 DEF StartStatement
<1>4. ASSUME NEW r \in Requests, Insert(r) PROVE Typing'
  BY <1>4 DEF Insert
<1>5. ASSUME NEW r \in Requests, FindExisting(r) PROVE Typing'
  BY <1>5 DEF FindExisting, Conflicting
<1>6. ASSUME NEW r \in Requests, FindNothing(r) PROVE Typing'
  BY <1>6 DEF FindNothing, Answer
<1>7. ASSUME NEW r \in Requests, InsertEvent(r) PROVE Typing'
  BY <1>7 DEF InsertEvent
<1>8. ASSUME NEW r \in Requests, CommitCreated(r) PROVE Typing'
  BY <1>8 DEF CommitCreated, Publish, Answer, WritesOwnRow, Writing
<1>9. ASSUME NEW r \in Requests, CommitReplay(r) PROVE Typing'
  BY <1>9 DEF CommitReplay, Answer, FoundIsStored
<1>10. ASSUME NEW r \in Requests, Fail(r) PROVE Typing'
  BY <1>10 DEF Fail, Fault, Answer
<1>11. ASSUME NEW r \in Requests, CommitInDoubt(r) PROVE Typing'
  BY <1>11 DEF CommitInDoubt, Fault, Publish, Answer, WritesOwnRow, Writing
<1>12. ASSUME UNCHANGED vars PROVE Typing'
  BY <1>12 DEF vars
<1>. HIDE DEF Typing
<1>. QED
  BY <1>1, <1>2, <1>3, <1>4, <1>5, <1>6, <1>7, <1>8, <1>9, <1>10, <1>11, <1>12
     DEF Next, Step

\* Every step keeps the rest of the invariant.
LEMMA SafeStep == IInv /\ [Next]_vars => Safe'
<1>. SUFFICES ASSUME IInv, [Next]_vars PROVE Safe'
  OBVIOUS
<1>. USE NullsAssumption, ReplyAssumption
     DEF IInv, Typing, Safe, TypeOK, PCs, Codes, Bookkeeping, Active, Writing,
     WritesOwnRow, OneRowPerKey, FoundIsStored, ImportIffEvent, AnswersNameTheImport,
     LateSeesTheImport, RetryIsReplayed, ErrorMeansRace, Successful, Conflicting, SameKey,
     database, history
<1>1. ASSUME NEW r \in Requests, NEW k \in Keys, Receive(r, k) PROVE Safe'
  BY <1>1 DEF Receive
<1>2. ASSUME NEW r \in Requests, Reject(r) PROVE Safe'
  BY <1>2 DEF Reject, Answer
<1>3. ASSUME NEW r \in Requests, StartStatement(r) PROVE Safe'
  BY <1>3 DEF StartStatement
<1>4. ASSUME NEW r \in Requests, Insert(r) PROVE Safe'
  BY <1>4 DEF Insert, InProgress
<1>5. ASSUME NEW r \in Requests, FindExisting(r) PROVE Safe'
  BY <1>5 DEF FindExisting
<1>6. ASSUME NEW r \in Requests, FindNothing(r) PROVE Safe'
  BY <1>6 DEF FindNothing, Answer
<1>7. ASSUME NEW r \in Requests, InsertEvent(r) PROVE Safe'
  BY <1>7 DEF InsertEvent
<1>8. ASSUME NEW r \in Requests, CommitCreated(r) PROVE Safe'
  BY <1>8 DEF CommitCreated, Publish, Answer
<1>9. ASSUME NEW r \in Requests, CommitReplay(r) PROVE Safe'
  BY <1>9 DEF CommitReplay, Answer
<1>10. ASSUME NEW r \in Requests, Fail(r) PROVE Safe'
  BY <1>10 DEF Fail, Fault, Answer
<1>11. ASSUME NEW r \in Requests, CommitInDoubt(r) PROVE Safe'
  BY <1>11 DEF CommitInDoubt, Fault, Publish, Answer
<1>12. ASSUME UNCHANGED vars PROVE Safe'
  BY <1>12 DEF vars
<1>. HIDE DEF IInv, Safe
<1>. QED
  BY <1>1, <1>2, <1>3, <1>4, <1>5, <1>6, <1>7, <1>8, <1>9, <1>10, <1>11, <1>12
     DEF Next, Step

LEMMA InvariantHolds == Spec => []IInv
<1>1. Init => IInv
  BY NullsAssumption, ReplyAssumption, FaultsAssumption
     DEF Init, IInv, Typing, Safe, TypeOK, PCs, Codes, Bookkeeping, Active, Writing,
     WritesOwnRow, OneRowPerKey, FoundIsStored, ImportIffEvent, AnswersNameTheImport,
     LateSeesTheImport, RetryIsReplayed, ErrorMeansRace, Successful
<1>2. IInv => Typing /\ WritesOwnRow /\ FoundIsStored
  BY DEF IInv, Safe
<1>3. IInv <=> Typing /\ Safe
  BY DEF IInv
<1>. QED BY <1>1, <1>2, <1>3, TypingStep, SafeStep, PTL DEF Spec

\* The variables keep their types through every interleaving of requests.
THEOREM TypeCorrect == Spec => []TypeOK
<1>1. IInv => TypeOK
  BY DEF IInv, Typing
<1>. QED BY <1>1, InvariantHolds, PTL

\* Whatever interleaves, CreateImport stores one import per tenant and key.
THEOREM KeysAreUnique == Spec => []OneImportPerKey
<1>1. IInv => OneImportPerKey
  BY DEF IInv, Typing, TypeOK, Safe, OneRowPerKey, OneImportPerKey
<1>. QED BY <1>1, InvariantHolds, PTL

\* CreateImport stores an import and its outbox event together and once.
THEOREM ImportsHaveOneEvent == Spec => []ImportIffEvent
<1>1. IInv => ImportIffEvent
  BY DEF IInv, Safe
<1>. QED BY <1>1, InvariantHolds, PTL

\* Successful answers for a key name one stored import; one of them created it.
THEOREM AnswersNeverDisagree == Spec => []AnswersAgree
<1>1. IInv => AnswersAgree
  BY DEF IInv, Typing, TypeOK, Safe, OneRowPerKey, AnswersNameTheImport, AnswersAgree
<1>. QED BY <1>1, InvariantHolds, PTL

\* A retry after a success is replayed unless it meets a fault of its own.
THEOREM RetriesAreReplayed == Spec => []RetryIsReplayed
<1>1. IInv => RetryIsReplayed
  BY DEF IInv, Safe
<1>. QED BY <1>1, InvariantHolds, PTL

\* Without a fault, the handler answers 500 only to the loser of a race.
THEOREM ErrorsAreRaces == Spec => []ErrorMeansRace
<1>1. IInv => ErrorMeansRace
  BY DEF IInv, Safe
<1>. QED BY <1>1, InvariantHolds, PTL

\* No request deletes an import or moves it to another key.
THEOREM ImportsStay == Spec => ImportsAreKept
<1>. DEFINE Kept == imports \subseteq imports' /\ \A r \in imports: key'[r] = key[r]
<1>1. ASSUME IInv, [Next]_vars PROVE Kept
  <2>. USE <1>1 DEF IInv, Typing, TypeOK
  <2>1. ASSUME NEW r \in Requests, NEW k \in Keys, Receive(r, k) PROVE Kept
    BY <2>1 DEF Receive, database, Safe, WritesOwnRow
  <2>2. CASE imports \subseteq imports' /\ key' = key
    BY <2>2
  <2>3. \/ imports \subseteq imports' /\ key' = key
        \/ \E r \in Requests, k \in Keys: Receive(r, k)
    BY DEF Next, Step, Reject, StartStatement, Insert, FindExisting, FindNothing,
       InsertEvent, CommitCreated, CommitReplay, Fail, CommitInDoubt, Publish, vars, database
  <2>. QED BY <2>1, <2>2, <2>3
<1>2. ASSUME IInv, [Next]_vars PROVE [Kept]_vars
  BY <1>1, <1>2
<1>. QED BY <1>2, InvariantHolds, PTL DEF Spec, ImportsAreKept

------------------------------------------------------------------------------
\* Owners is a function of the stored imports: the same imports have the same owners.
LEMMA OwnersStay ==
  ASSUME OneImportPerKey, imports' = imports, \A r \in imports: key'[r] = key[r]
  PROVE  Owners' = Owners
<1>1. ASSUME NEW k \in Keys PROVE Owners'[k] = Owners[k]
  <2>1. CASE \E r \in imports: key[r] = k
    <3>1. PICK r \in imports: key[r] = k
      BY <2>1
    <3>2. \A s \in imports: key[s] = k <=> s = r
      BY <3>1 DEF OneImportPerKey
    <3>3. Owners[k] = r
      BY <3>1, <3>2 DEF Owners
    <3>4. imports' = imports /\ \A s \in imports': key'[s] = k <=> s = r
      BY <3>2
    <3>5. Owners'[k] = r
      BY <3>1, <3>4 DEF Owners
    <3>. QED BY <3>3, <3>5
  <2>2. CASE ~ \E r \in imports: key[r] = k
    BY <2>2 DEF Owners
  <2>. QED BY <2>1, <2>2
<1>2. Owners = [k \in Keys |-> Owners[k]] /\ Owners' = [k \in Keys |-> Owners'[k]]
  BY DEF Owners
<1>. HIDE DEF Owners
<1>. QED BY <1>1, <1>2, Zenon

\* Storing an import of a key without one makes it the owner of that key only.
LEMMA OwnerIsAdded ==
  ASSUME NEW r \in Requests, key[r] \in Keys, r \notin imports, key' = key,
         imports' = imports \union {r}, \A s \in imports: key[s] # key[r]
  PROVE  Owners' = [Owners EXCEPT ![key[r]] = r]
<1>1. ASSUME NEW k \in Keys PROVE Owners'[k] = IF k = key[r] THEN r ELSE Owners[k]
  <2>1. CASE k = key[r]
    <3>1. \A s: (s \in imports' /\ key'[s] = k) <=> s = r
      BY <2>1
    <3>. QED BY <2>1, <3>1 DEF Owners
  <2>2. CASE k # key[r]
    <3>1. \A s: (s \in imports' /\ key'[s] = k) <=> (s \in imports /\ key[s] = k)
      BY <2>2
    <3>2. (\E s \in imports': key'[s] = k) <=> (\E s \in imports: key[s] = k)
      BY <3>1
    <3>3. (CHOOSE s \in imports': key'[s] = k) = (CHOOSE s \in imports: key[s] = k)
      BY <3>1
    <3>. QED BY <2>2, <3>2, <3>3 DEF Owners
  <2>. QED BY <2>1, <2>2
<1>2. Owners = [k \in Keys |-> Owners[k]] /\ Owners' = [k \in Keys |-> Owners'[k]]
  BY DEF Owners
<1>. HIDE DEF Owners
<1>. QED BY <1>1, <1>2

\* An error is the refusal of the contract, whichever of its codes it has.
LEMMA AnswerRefuses ==
  ASSUME NEW r \in Requests, NEW code \in {400, 500}, reply[r] = NoReply,
         Answer(r, code, NoRequest), key' = key, Owners' = Owners
  PROVE  Contract!Refuse(r)
<1>. DEFINE Says(c) == reply' = [reply EXCEPT ![r] = Contract!Refused(c)]
<1>1. Says(code)
  BY Zenon DEF Answer, Contract!Refused
<1>2. UNCHANGED <<key, Owners>>
  BY Zenon
<1>. HIDE DEF Says
<1>3. \E c \in {400, 500}: Says(c)
  BY <1>1
<1>. QED BY <1>2, <1>3, Zenon DEF Says, Contract!Refuse

\* The handler implements the idempotent create. With one import per key, Owners
\* has no choice, and changes only when an import is stored.
THEOREM HandlerImplementsIdempotentCreate == Spec => ImplementsIdempotentCreate
<1>1. Init => Contract!Init
  BY DEF Init, Contract!Init, Owners
<1>2. ASSUME IInv, IInv', [Next]_vars PROVE [Contract!Next]_(Contract!vars)
  <2>. USE <1>2, NullsAssumption, ReplyAssumption
       DEF IInv, Typing, TypeOK, Bookkeeping, Active
  <2>1. OneImportPerKey /\ OneImportPerKey'
    BY DEF Safe, OneRowPerKey, OneImportPerKey
  <2>2. \A r \in imports: pc[r] = "done" /\ key[r] \in Keys
    BY DEF Safe, WritesOwnRow
  <2>3. ASSUME imports' = imports, \A r \in imports: key'[r] = key[r]
        PROVE Owners' = Owners
    BY <2>1, <2>3, OwnersStay
  <2>4. ASSUME NEW r \in Requests, NEW k \in Keys, Receive(r, k) PROVE Contract!Ask(r, k)
    <3>1. Owners' = Owners
      BY <2>2, <2>3, <2>4 DEF Receive, database
    <3>. QED BY <2>4, <3>1 DEF Receive, Contract!Ask
  <2>5. ASSUME NEW r \in Requests, NEW code \in {400, 500}, pc[r] # "done",
               Answer(r, code, NoRequest), UNCHANGED <<imports, key>>
        PROVE Contract!Refuse(r)
    <3>1. Owners' = Owners
      BY <2>3, <2>5
    <3>2. reply[r] = NoReply
      BY <2>5
    <3>3. key' = key
      BY <2>5
    <3>. QED BY <2>5, <3>1, <3>2, <3>3, AnswerRefuses
  <2>6. ASSUME NEW r \in Requests, Reject(r) \/ FindNothing(r) \/ Fail(r)
        PROVE Contract!Refuse(r)
    BY <2>5, <2>6 DEF Reject, FindNothing, Fail, database
  <2>7. ASSUME NEW r \in Requests, CommitReplay(r) PROVE Contract!Replay(r)
    <3>1. Owners' = Owners
      BY <2>3, <2>7 DEF CommitReplay, database
    <3>2. found[r] \in imports /\ key[found[r]] = key[r]
      BY <2>7 DEF Safe, FoundIsStored, CommitReplay
    <3>3. Owners[key[r]] = found[r]
      BY <2>1, <2>2, <3>2 DEF Owners, OneImportPerKey
    <3>. QED BY <2>7, <3>1, <3>2, <3>3 DEF CommitReplay, Answer, Contract!Replay, Contract!Replayed
  <2>8. ASSUME NEW r \in Requests, CommitCreated(r) \/ CommitInDoubt(r)
        PROVE Contract!Create(r)
    <3>1. pc[r] = "staged" /\ found[r] = r /\ imports' = imports \union {r} /\ key' = key
      BY <2>8 DEF CommitCreated, CommitInDoubt, Publish, Safe, WritesOwnRow, Writing
    <3>2. \A s \in imports: key[s] # key[r]
      BY <3>1, <2>2 DEF Safe, OneRowPerKey, Writing
    <3>3. Owners[key[r]] = NoRequest
      BY <3>1, <3>2 DEF Owners
    <3>4. Owners' = [Owners EXCEPT ![key[r]] = r]
      BY <3>1, <3>2, OwnerIsAdded DEF Safe, WritesOwnRow, Writing
    <3>5. \E answer \in {Contract!Created(r), Contract!Refused(500)}:
            reply' = [reply EXCEPT ![r] = answer]
      BY <2>8, <3>1 DEF CommitCreated, CommitInDoubt, Answer, Contract!Created, Contract!Refused
    <3>6. key[r] # NoKey /\ reply[r] = NoReply
      BY <3>1
    <3>. QED BY <3>1, <3>3, <3>4, <3>5, <3>6, Zenon DEF Contract!Create
  <2>9. CASE UNCHANGED <<imports, key, reply>>
    <3>1. Owners' = Owners
      BY <2>3, <2>9
    <3>. QED BY <2>9, <3>1 DEF Contract!vars
  <2>10. \/ UNCHANGED <<imports, key, reply>>
         \/ \E r \in Requests:
              \/ \E k \in Keys: Receive(r, k)
              \/ Reject(r) \/ FindNothing(r) \/ Fail(r)
              \/ CommitReplay(r) \/ CommitCreated(r) \/ CommitInDoubt(r)
    BY DEF Next, Step, StartStatement, Insert, FindExisting, InsertEvent, vars, database
  <2>. QED BY <2>4, <2>6, <2>7, <2>8, <2>9, <2>10 DEF Contract!Next
<1>. QED
  BY <1>1, <1>2, InvariantHolds, PTL DEF Spec, ImplementsIdempotentCreate, Contract!Spec

------------------------------------------------------------------------------
\* Who a request meets, and who is told of what it stored

\* The first statement meets at most one other row of its key, stored or not.
OneRival ==
  \A r \in Requests: pc[r] = "querying" =>
    \A s, t \in Conflicting(r) \union InProgress(r): s = t

\* An insert waits for one transaction at most, and that one is past its own wait,
\* so requests never wait in a chain or a circle; and the SELECT that scans a
\* single row never has two to choose from.
THEOREM WaitsAreForOneWriter == Spec => []OneRival
<1>1. IInv => OneRival
  BY DEF IInv, Typing, TypeOK, Safe, OneRowPerKey, OneRival, Conflicting, InProgress,
     SameKey, Writing
<1>. QED BY <1>1, InvariantHolds, PTL

\* Unless the request that stored it met a fault, an import was answered with 201.
StoredWasAnswered ==
  \A r \in imports \ failed:
    reply[r] # NoReply /\ reply[r].code = 201 /\ reply[r].import = r

\* An import nobody was told of has a cause: its own request failed in doubt. A
\* replay, a lost race or another request's rollback never stores one.
THEOREM SilentImportsHaveACause == Spec => []StoredWasAnswered
<1>1. Init => StoredWasAnswered
  BY DEF Init, StoredWasAnswered
<1>2. ASSUME IInv, StoredWasAnswered, [Next]_vars PROVE StoredWasAnswered'
  <2>. USE <1>2, ReplyAssumption
       DEF IInv, Typing, TypeOK, Codes, Bookkeeping, Active, Writing, StoredWasAnswered,
       Safe, WritesOwnRow, database, history
  <2>1. \A r \in imports: pc[r] = "done"
    BY DEF Safe
  <2>2. CASE imports' = imports /\ failed \subseteq failed'
             /\ \A r \in Requests: pc[r] = "done" => reply'[r] = reply[r]
    BY <2>1, <2>2
  <2>3. ASSUME NEW r \in Requests, CommitCreated(r) PROVE StoredWasAnswered'
    <3>0. found[r] = r
      BY <2>3 DEF CommitCreated
    <3>1. /\ imports' = imports \union {r} /\ failed' = failed
          /\ reply' = [reply EXCEPT ![r] = [code |-> 201, import |-> r]]
      BY <2>3, <3>0 DEF CommitCreated, Publish, Answer
    <3>2. reply'[r] # NoReply /\ reply'[r].code = 201 /\ reply'[r].import = r
      BY <3>1, <2>3 DEF CommitCreated
    <3>3. \A s \in imports \ {r}: reply'[s] = reply[s]
      BY <3>1
    <3>. QED BY <3>1, <3>2, <3>3
  <2>4. ASSUME NEW r \in Requests, CommitInDoubt(r) PROVE StoredWasAnswered'
    BY <2>4 DEF CommitInDoubt, Fault, Publish, Answer
  <2>5. \/ /\ imports' = imports /\ failed \subseteq failed'
           /\ \A r \in Requests: pc[r] = "done" => reply'[r] = reply[r]
        \/ \E r \in Requests: CommitCreated(r) \/ CommitInDoubt(r)
    <3>1. ASSUME NEW r \in Requests, NEW code, NEW import, pc[r] # "done",
                 Answer(r, code, import)
          PROVE  \A s \in Requests: pc[s] = "done" => reply'[s] = reply[s]
      BY <3>1 DEF Answer
    <3>2. ASSUME NEW r \in Requests, Reject(r) \/ FindNothing(r) \/ CommitReplay(r)
          PROVE  /\ imports' = imports /\ failed \subseteq failed'
                 /\ \A s \in Requests: pc[s] = "done" => reply'[s] = reply[s]
      BY <3>1, <3>2 DEF Reject, FindNothing, CommitReplay
    <3>3. ASSUME NEW r \in Requests, Fail(r)
          PROVE  /\ imports' = imports /\ failed \subseteq failed'
                 /\ \A s \in Requests: pc[s] = "done" => reply'[s] = reply[s]
      BY <3>1, <3>3 DEF Fail, Fault
    <3>4. CASE UNCHANGED <<imports, failed, reply>>
      BY <3>4
    <3>5. \/ UNCHANGED <<imports, failed, reply>>
          \/ \E r \in Requests:
               \/ Reject(r) \/ FindNothing(r) \/ CommitReplay(r) \/ Fail(r)
               \/ CommitCreated(r) \/ CommitInDoubt(r)
      BY DEF Next, Step, Receive, StartStatement, Insert, FindExisting, InsertEvent, vars
    <3>. QED BY <3>2, <3>3, <3>4, <3>5
  <2>. QED BY <2>2, <2>3, <2>4, <2>5
<1>. QED BY <1>1, <1>2, InvariantHolds, PTL DEF Spec

------------------------------------------------------------------------------
\* What the outbox is given

\* An import that was not stored is stored with its first event.
StoresOneEvent ==
  \E r \in Requests:
    /\ r \notin imports /\ imports' = imports \union {r}
    /\ events[r] = 0 /\ events' = [events EXCEPT ![r] = 1]

\* Every change of the two tables is such a step: of one import, with one event,
\* never of an import the tables had. This is what StoreEvent of Outbox and
\* Pipeline takes for granted of the create, as a step of its environment.
THEOREM CreateFeedsTheOutbox == Spec => [][StoresOneEvent]_database
<1>1. ASSUME IInv, [Next]_vars PROVE [StoresOneEvent]_database
  <2>. USE <1>1 DEF IInv, Typing, TypeOK, Safe, WritesOwnRow, ImportIffEvent, Writing
  <2>1. ASSUME NEW r \in Requests, pc[r] = "staged", Publish(r) PROVE StoresOneEvent
    <3>1. found[r] = r /\ r \notin imports /\ events[r] = 0
      BY <2>1
    <3>. QED BY <2>1, <3>1 DEF Publish, StoresOneEvent
  <2>2. \/ UNCHANGED database
        \/ \E r \in Requests: pc[r] = "staged" /\ Publish(r)
    BY DEF Next, Step, Receive, Reject, StartStatement, Insert, FindExisting, FindNothing,
       InsertEvent, CommitCreated, CommitReplay, Fail, CommitInDoubt, vars, database
  <2>. QED BY <2>1, <2>2
<1>. QED BY <1>1, InvariantHolds, PTL DEF Spec
==============================================================================
