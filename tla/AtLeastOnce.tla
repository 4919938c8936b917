----------------------------- MODULE AtLeastOnce -----------------------------
(***************************************************************************)
(* What the transactional outbox promises (docs/decisions/0002): an event  *)
(* that a committed transaction recorded is handed to the broker at least  *)
(* once, and its record is closed only after the broker has it.            *)
(***************************************************************************)
CONSTANT Events

VARIABLES
  owed,    \* events recorded by a committed transaction
  given,   \* events the broker has accepted at least once
  closed   \* events nobody will publish again

vars == <<owed, given, closed>>

TypeOK == owed \subseteq Events /\ given \subseteq Events /\ closed \subseteq Events

Init == owed = {} /\ given = {} /\ closed = {}

Record(e) ==
  /\ e \notin owed
  /\ owed' = owed \union {e}
  /\ UNCHANGED <<given, closed>>

Deliver(e) ==
  /\ e \in owed
  /\ given' = given \union {e}
  /\ UNCHANGED <<owed, closed>>

Close(e) ==
  /\ e \in given
  /\ closed' = closed \union {e}
  /\ UNCHANGED <<owed, given>>

Next == \E e \in Events: Record(e) \/ Deliver(e) \/ Close(e)

Spec == Init /\ [][Next]_vars
==============================================================================
