--------------------------- MODULE ForwardLifecycle --------------------------
(***************************************************************************)
(* What the lifecycle of an incident promises (ARD-0017 and the head of    *)
(* domain/incident_lifecycle.py): every incident is opened once, moves     *)
(* only along ALLOWED_TRANSITIONS, one status at a time, and is never seen *)
(* again once it is removed.  The code keeps the promise until two status  *)
(* requests are at one incident at once; from then on nothing is said of   *)
(* its status.                                                             *)
(***************************************************************************)
EXTENDS Lifecycle

CONSTANT Incidents
VARIABLE status

Init == status = [i \in Incidents |-> "unborn"]

Open(i) ==
  /\ status[i] = "unborn"
  /\ status' = [status EXCEPT ![i] = "open"]

Advance(i) ==
  /\ status[i] \in Statuses
  /\ \E next \in AllowedTransitions[status[i]] : status' = [status EXCEPT ![i] = next]

Remove(i) ==
  /\ status[i] \in Statuses
  /\ status' = [status EXCEPT ![i] = "gone"]

\* Only an incident that is still there can be contested.
Contest(i) ==
  /\ status[i] \in Statuses
  /\ status' = [status EXCEPT ![i] = "contested"]

Next == \E i \in Incidents : Open(i) \/ Advance(i) \/ Remove(i) \/ Contest(i)

Spec == Init /\ [][Next]_status
==============================================================================
