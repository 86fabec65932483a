--------------------------- MODULE MCIncidentRaces ---------------------------
(***************************************************************************)
(* The same values for a service whose races are watched.                  *)
(***************************************************************************)
EXTENDS MCIncidentService, IncidentRaces
==============================================================================
