---------------------------- MODULE MCIncidentSla ----------------------------
(***************************************************************************)
(* Values of the constants for TLC: the last half second in time and the   *)
(* first half second too late for every deadline, and the last without and *)
(* the first with a warning.                                               *)
(***************************************************************************)
EXTENDS IncidentSla, TLC

CONSTANTS h1, h2

AnyOrder == Permutations(Sessions)

Goals == {"response", "resolution"}
Deadlines == {GetSlaTarget(s)[g] : s \in Given, g \in Goals}
Warnings  == {d - d \div 5 : d \in Deadlines}

Boundaries ==
  {0} \cup UNION {{t, t + 1} : t \in Deadlines} \cup UNION {{t - 2, t - 1} : t \in Warnings}

\* Somebody looks when an incident is due (see LookingWhenDue in IncidentSlaProofs).
ASSUME DeadlinesAssumption == Deadlines \subseteq Instants
==============================================================================
