--------------------------- MODULE IdempotentCreate ---------------------------
(***************************************************************************)
(* What POST /api/v1/imports promises (docs/api.md): a key owns at most one  *)
(* import, and every successful answer for the key names that import. An     *)
(* import is named by the request that created it.                          *)
(***************************************************************************)
CONSTANTS Requests, Keys, NoRequest, NoKey, NoReply

VARIABLES
  asked,  \* the key each request asks about
  owner,  \* the import each key stands for
  reply   \* the answer of each request

vars == <<asked, owner, reply>>

Created(r) == [code |-> 201, import |-> r]
Replayed(r) == [code |-> 200, import |-> r]
Refused(code) == [code |-> code, import |-> NoRequest]

Init ==
  /\ asked = [r \in Requests |-> NoKey]
  /\ owner = [k \in Keys |-> NoRequest]
  /\ reply = [r \in Requests |-> NoReply]

Ask(r, k) ==
  /\ asked[r] = NoKey
  /\ reply[r] = NoReply
  /\ asked' = [asked EXCEPT ![r] = k]
  /\ UNCHANGED <<owner, reply>>

\* The import exists from now on, whether or not the client learns of it.
Create(r) ==
  /\ asked[r] # NoKey /\ reply[r] = NoReply
  /\ owner[asked[r]] = NoRequest
  /\ owner' = [owner EXCEPT ![asked[r]] = r]
  /\ \E answer \in {Created(r), Refused(500)}: reply' = [reply EXCEPT ![r] = answer]
  /\ UNCHANGED asked

Replay(r) ==
  /\ asked[r] # NoKey /\ reply[r] = NoReply
  /\ owner[asked[r]] # NoRequest
  /\ reply' = [reply EXCEPT ![r] = Replayed(owner[asked[r]])]
  /\ UNCHANGED <<asked, owner>>

\* A request may be refused, but never with an effect on the key.
Refuse(r) ==
  /\ reply[r] = NoReply
  /\ \E code \in {400, 500}: reply' = [reply EXCEPT ![r] = Refused(code)]
  /\ UNCHANGED <<asked, owner>>

Next ==
  \E r \in Requests:
    (\E k \in Keys: Ask(r, k)) \/ Create(r) \/ Replay(r) \/ Refuse(r)

Spec == Init /\ [][Next]_vars
==============================================================================
