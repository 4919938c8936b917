---------------------------- MODULE ImportLifecycle ----------------------------
(***************************************************************************)
(* What the system promises of an import from end to end: it is accepted    *)
(* once, the integration confirms it only then, its message is acknowledged  *)
(* only when it was confirmed or goes to the dead-letter queue, and nothing  *)
(* of this is ever taken back. An import may be confirmed repeatedly, and a  *)
(* repeated message may be acknowledged although another was buried.        *)
(***************************************************************************)
CONSTANT Imports

VARIABLES
  accepted,   \* imports the API has stored
  confirmed,  \* imports the integration has processed
  finished,   \* imports with an acknowledged message
  buried      \* imports with a message in the dead-letter queue

vars == <<accepted, confirmed, finished, buried>>

Init == accepted = {} /\ confirmed = {} /\ finished = {} /\ buried = {}

Accept(i) ==
  /\ accepted' = accepted \union {i}
  /\ UNCHANGED <<confirmed, finished, buried>>

Confirm(i) ==
  /\ i \in accepted
  /\ confirmed' = confirmed \union {i}
  /\ UNCHANGED <<accepted, finished, buried>>

Finish(i) ==
  /\ i \in confirmed
  /\ finished' = finished \union {i}
  /\ UNCHANGED <<accepted, confirmed, buried>>

Bury(i) ==
  /\ i \in accepted
  /\ buried' = buried \union {i}
  /\ UNCHANGED <<accepted, confirmed, finished>>

Next == \E i \in Imports: Accept(i) \/ Confirm(i) \/ Finish(i) \/ Bury(i)

Spec == Init /\ [][Next]_vars
==============================================================================
