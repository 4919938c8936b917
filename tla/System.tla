-------------------------------- MODULE System --------------------------------
(***************************************************************************)
(* The system from the client's POST to the acknowledged message: the way    *)
(* of an import (Pipeline) with the create (CreateImport) in the place of    *)
(* its environment. The two share the tables imports and outbox_events: what *)
(* the transaction of a request commits is the row the publishers find.      *)
(* An import is named by the request that created it.                       *)
(***************************************************************************)
EXTENDS Pipeline

CONSTANTS Keys, NoRequest, NoKey, NoReply  \* see CreateImport

ASSUME CreateAssumption ==
  /\ NoRequest \notin Imports /\ NoKey \notin Keys
  /\ NoReply \notin [code: {200, 201, 400, 500}, import: Imports \union {NoRequest}]

VARIABLES events, key, rpc, snap, found, reply, errors, failed, late  \* see CreateImport

C == INSTANCE CreateImport WITH
  Requests <- Imports, imports <- stored, pc <- rpc, faults <- errors

requests == <<key, rpc, snap, found, reply, errors, failed, late>>
svars == <<pvars, events, requests>>

SysInit == PipeInit /\ C!Init

\* What a request does before its commit, or instead of one.
ClientSide == C!Next /\ UNCHANGED pvars

\* The commit of a request stores the import and the event the publishers claim.
CommitImport(r) ==
  /\ C!CommitCreated(r) \/ C!CommitInDoubt(r)
  /\ O!StoreEvent(found[r])
  /\ UNCHANGED <<worker, faults>>

\* Publishers, RabbitMQ and workers go on without the requests.
ServerSide == PipeNext /\ UNCHANGED <<stored, events, requests>>

\* The bound on faults counts those of both sides.
SysNext ==
  /\ ClientSide \/ ServerSide \/ \E r \in Imports: CommitImport(r)
  /\ faults' + errors' <= MaxFaults

SysSpec == SysInit /\ [][SysNext]_svars

\* Nothing is assumed of the requests: what they stored settles without them.
SysFairSpec == SysSpec /\ PipeFairness

------------------------------------------------------------------------------
\* Properties

\* However often a client repeats a request with its Idempotency-Key, at the same
\* time or later, and whatever answers it was given, the integration is asked for
\* one import of the key; a second effect of that one is traced to its cause in
\* the outbox or at a worker, never to the repetition.
RetriesRepeatNoEffect ==
  \A i, j \in Imports:
    effects[i] > 0 /\ effects[j] > 0 /\ key[i] = key[j] =>
      /\ i = j
      /\ effects[i] > 1 => i \in lapsed \union unsure \union requeued
==============================================================================
