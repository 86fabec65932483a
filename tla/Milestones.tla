----------------------------- MODULE Milestones ------------------------------
(***************************************************************************)
(* What the SLA computation relies on, and what survives any interleaving: *)
(* an incident is first responded to and only then resolved, neither is    *)
(* ever taken back, and a removed incident stays removed.                  *)
(***************************************************************************)
CONSTANT Incidents
VARIABLE reached

Init == reached = [i \in Incidents |-> "unborn"]

Move(i, from, to) ==
  /\ reached[i] = from
  /\ reached' = [reached EXCEPT ![i] = to]

Open(i)    == Move(i, "unborn", "waiting")
Respond(i) == Move(i, "waiting", "responded")
Resolve(i) == Move(i, "responded", "resolved")
Remove(i)  == \E from \in {"waiting", "responded", "resolved"} : Move(i, from, "gone")

Next == \E i \in Incidents : Open(i) \/ Respond(i) \/ Resolve(i) \/ Remove(i)

Spec == Init /\ [][Next]_reached
==============================================================================
