----------------------------- MODULE CreateImport -----------------------------
(***************************************************************************)
(* POST /api/v1/imports: the handler (src/internal/httpapi/api.go) and the   *)
(* transaction that stores an import and its outbox event                    *)
(* (src/internal/database/store.go), run by concurrent requests under        *)
(* PostgreSQL's READ COMMITTED.                                             *)
(*                                                                         *)
(* The first statement is INSERT ... ON CONFLICT DO NOTHING and a SELECT of  *)
(* the existing row in one snapshot. PostgreSQL checks the unique index      *)
(* against what is committed and waits for an uncommitted row of the same    *)
(* key; the SELECT sees only what was committed when the statement started.  *)
(* An import is named by the request whose row it is.                       *)
(***************************************************************************)
EXTENDS Integers, FiniteSets

CONSTANTS
  Requests,   \* POSTs that reach the API
  Keys,       \* pairs of a tenant and an Idempotency-Key
  NoRequest, NoKey, NoReply,
  MaxFaults   \* bound: errors and cancelled requests in a behaviour

ASSUME NullsAssumption == NoRequest \notin Requests /\ NoKey \notin Keys
ASSUME ReplyAssumption ==
  NoReply \notin [code: {200, 201, 400, 500}, import: Requests \union {NoRequest}]
ASSUME FaultsAssumption == MaxFaults \in Nat

VARIABLES
  imports,  \* committed rows of imports
  events,   \* committed rows of outbox_events for each import (2: two or more)
  key,      \* the key of each request
  pc,       \* where each request's transaction is
  snap,     \* the imports its first statement can see
  found,    \* the import its first statement returned
  reply,    \* the answer it got
  faults,   \* faults so far
  failed,   \* history: requests that met a fault
  late      \* history: requests received after a success for their key

vars == <<imports, events, key, pc, snap, found, reply, faults, failed, late>>
database == <<imports, events>>
history == <<failed, late>>

PCs == {"new", "begun", "querying", "inserted", "staged", "found", "done"}
Codes == {200, 201, 400, 500}

TypeOK ==
  /\ imports \subseteq Requests
  /\ events \in [Requests -> 0..2]
  /\ key \in [Requests -> Keys \union {NoKey}]
  /\ pc \in [Requests -> PCs]
  /\ snap \in [Requests -> SUBSET Requests]
  /\ found \in [Requests -> Requests \union {NoRequest}]
  /\ reply \in [Requests -> [code: Codes, import: Requests \union {NoRequest}] \union {NoReply}]
  /\ faults \in 0..MaxFaults
  /\ failed \subseteq Requests
  /\ late \subseteq Requests

Init ==
  /\ imports = {}
  /\ events = [r \in Requests |-> 0]
  /\ key = [r \in Requests |-> NoKey]
  /\ pc = [r \in Requests |-> "new"]
  /\ snap = [r \in Requests |-> {}]
  /\ found = [r \in Requests |-> NoRequest]
  /\ reply = [r \in Requests |-> NoReply]
  /\ faults = 0
  /\ failed = {} /\ late = {}

------------------------------------------------------------------------------
\* Helpers

Fault(r) == faults < MaxFaults /\ faults' = faults + 1 /\ failed' = failed \union {r}

Answer(r, code, import) ==
  /\ pc' = [pc EXCEPT ![r] = "done"]
  /\ reply' = [reply EXCEPT ![r] = [code |-> code, import |-> import]]

SameKey(r) == {s \in Requests \ {r}: key[s] = key[r]}

Successful(r) == reply[r] # NoReply /\ reply[r].code \in {200, 201}

\* Variants of the wait: no unique index; rows not even inserted are waited for.
NothingInProgress(r) == {}
AnyInProgress(r) == {s \in SameKey(r): pc[s] \in {"querying", "inserted", "staged"}}

\* Rows the unique index reports: committed ones end the wait of an insert,
\* uncommitted ones of another transaction make it wait.
Conflicting(r) == imports \intersect SameKey(r)
InProgress(r) == {s \in SameKey(r): pc[s] \in {"inserted", "staged"}}

------------------------------------------------------------------------------
\* The handler

\* The request passes validation and CreateImport begins a transaction.
Receive(r, k) ==
  /\ pc[r] = "new"
  /\ key' = [key EXCEPT ![r] = k]
  /\ pc' = [pc EXCEPT ![r] = "begun"]
  /\ late' = IF \E s \in Requests: key[s] = k /\ Successful(s) THEN late \union {r} ELSE late
  /\ UNCHANGED <<database, snap, found, reply, faults, failed>>

\* Tenant, key or body is invalid.
Reject(r) ==
  /\ pc[r] = "new"
  /\ Answer(r, 400, NoRequest)
  /\ UNCHANGED <<database, key, snap, found, faults, history>>

------------------------------------------------------------------------------
\* The first statement

\* Variant: the statement reads a snapshot without the latest commits.
StartStatementStale(r) ==
  /\ pc[r] = "begun"
  /\ pc' = [pc EXCEPT ![r] = "querying"]
  /\ UNCHANGED <<database, key, snap, found, reply, faults, history>>

StartStatement(r) ==
  /\ pc[r] = "begun"
  /\ snap' = [snap EXCEPT ![r] = imports]
  /\ pc' = [pc EXCEPT ![r] = "querying"]
  /\ UNCHANGED <<database, key, found, reply, faults, history>>

Insert(r) ==
  /\ pc[r] = "querying"
  /\ Conflicting(r) = {} /\ InProgress(r) = {}
  /\ found' = [found EXCEPT ![r] = r]
  /\ pc' = [pc EXCEPT ![r] = "inserted"]
  /\ UNCHANGED <<database, key, snap, reply, faults, history>>

\* Variant: the replay flag is ignored and the existing import gets an event.
FindExistingAsNew(r) ==
  /\ pc[r] = "querying"
  /\ \E s \in Conflicting(r) \intersect snap[r]: found' = [found EXCEPT ![r] = s]
  /\ pc' = [pc EXCEPT ![r] = "inserted"]
  /\ UNCHANGED <<database, key, snap, reply, faults, history>>

\* DO NOTHING, and the SELECT sees the row.
FindExisting(r) ==
  /\ pc[r] = "querying"
  /\ \E s \in Conflicting(r) \intersect snap[r]: found' = [found EXCEPT ![r] = s]
  /\ pc' = [pc EXCEPT ![r] = "found"]
  /\ UNCHANGED <<database, key, snap, reply, faults, history>>

\* Variants: ErrNoRows is ignored; every existing row is an error.
FindNothingGoesOn(r) ==
  /\ pc[r] = "querying"
  /\ Conflicting(r) # {}
  /\ Conflicting(r) \intersect snap[r] = {}
  /\ pc' = [pc EXCEPT ![r] = "inserted"]
  /\ UNCHANGED <<database, key, snap, found, reply, faults, history>>

FindNothingEver(r) ==
  /\ pc[r] = "querying"
  /\ Conflicting(r) # {}
  /\ Answer(r, 500, NoRequest)
  /\ UNCHANGED <<database, key, snap, found, faults, history>>

\* DO NOTHING, and the row was committed after the snapshot: the SELECT is
\* empty, Scan fails with ErrNoRows and the handler answers 500.
FindNothing(r) ==
  /\ pc[r] = "querying"
  /\ Conflicting(r) # {}
  /\ Conflicting(r) \intersect snap[r] = {}
  /\ Answer(r, 500, NoRequest)
  /\ UNCHANGED <<database, key, snap, found, faults, history>>

------------------------------------------------------------------------------
\* The event and the end of the transaction

\* Only a row this transaction inserted gets an event.
InsertEvent(r) ==
  /\ pc[r] = "inserted"
  /\ pc' = [pc EXCEPT ![r] = "staged"]
  /\ UNCHANGED <<database, key, snap, found, reply, faults, history>>

\* The writes of the transaction become visible together.
Publish(r) ==
  /\ imports' = imports \union {found[r]}
  /\ events' = [events EXCEPT ![found[r]] = IF @ = 0 THEN 1 ELSE 2]

\* Variant: the answer is sent and the transaction is not committed.
CreatedUncommitted(r) ==
  /\ pc[r] = "staged"
  /\ Answer(r, 201, found[r])
  /\ UNCHANGED <<database, key, snap, found, faults, history>>

CommitCreated(r) ==
  /\ pc[r] = "staged"
  /\ Publish(r)
  /\ Answer(r, 201, found[r])
  /\ UNCHANGED <<key, snap, found, faults, history>>

CommitReplay(r) ==
  /\ pc[r] = "found"
  /\ Answer(r, 200, found[r])
  /\ UNCHANGED <<database, key, snap, found, faults, history>>

\* A statement or the commit fails, the client goes away, or the replica dies:
\* the deferred Rollback (or PostgreSQL itself) undoes the transaction.
Fail(r) ==
  /\ pc[r] \notin {"new", "done"}
  /\ Fault(r)
  /\ Answer(r, 500, NoRequest)
  /\ UNCHANGED <<database, key, snap, found, late>>

\* The commit takes effect and its acknowledgement is lost.
CommitInDoubt(r) ==
  /\ pc[r] = "staged"
  /\ Fault(r)
  /\ Publish(r)
  /\ Answer(r, 500, NoRequest)
  /\ UNCHANGED <<key, snap, found, late>>

------------------------------------------------------------------------------
Step(r) ==
  \/ StartStatement(r)
  \/ Insert(r) \/ FindExisting(r) \/ FindNothing(r)
  \/ InsertEvent(r) \/ CommitCreated(r) \/ CommitReplay(r)

Next ==
  \E r \in Requests:
    \/ \E k \in Keys: Receive(r, k)
    \/ Reject(r) \/ Step(r) \/ Fail(r) \/ CommitInDoubt(r)

Spec == Init /\ [][Next]_vars

\* PostgreSQL executes the statements it has been sent.
FairSpec == Spec /\ \A r \in Requests: WF_vars(Step(r))

------------------------------------------------------------------------------
\* Properties

\* However requests with one key interleave, the key gets at most one import.
OneImportPerKey == \A r, s \in imports: key[r] = key[s] => r = s

\* An import and its outbox event are stored together, once: no failure leaves
\* one without the other and no replay adds a second event.
ImportIffEvent == \A r \in Requests: events[r] = IF r \in imports THEN 1 ELSE 0

\* Successful answers for one key name one stored import, and at most one of
\* them says 201.
AnswersAgree ==
  \A r, s \in Requests:
    Successful(r) /\ Successful(s) /\ key[r] = key[s] =>
      /\ reply[r].import = reply[s].import
      /\ reply[r].import \in imports
      /\ reply[r].code = 201 /\ reply[s].code = 201 => r = s

\* A retry sent after a success was answered is a replay, unless it fails.
RetryIsReplayed ==
  \A r \in late \ failed: reply[r] # NoReply => reply[r].code = 200

\* A 500 without a fault of its own means that another request with the key
\* created the import while this one was running.
ErrorMeansRace ==
  \A r \in Requests \ failed:
    reply[r] # NoReply /\ reply[r].code = 500 =>
      \E s \in Conflicting(r): s \notin snap[r]

\* A stored import keeps its key and is never deleted by a request.
ImportsAreKept == [][imports \subseteq imports' /\ \A r \in imports: key'[r] = key[r]]_vars

\* Requests that wait for each other's uncommitted rows all get an answer.
EveryRequestAnswered == \A r \in Requests: pc[r] = "begun" ~> pc[r] = "done"

\* docs/api.md: a repeated tenant and key gets 200 or the request created the
\* import itself; it is refuted, see ErrorMeansRace for what holds.
RepeatGetsTheImport ==
  \A r \in Requests \ failed: reply[r] # NoReply => reply[r].code # 500

\* The handler implements the idempotent create.
Owners ==
  [k \in Keys |-> IF \E r \in imports: key[r] = k
                  THEN CHOOSE r \in imports: key[r] = k ELSE NoRequest]

Contract == INSTANCE IdempotentCreate WITH asked <- key, owner <- Owners

ImplementsIdempotentCreate == Contract!Spec
==============================================================================
