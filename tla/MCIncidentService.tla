-------------------------- MODULE MCIncidentService --------------------------
(***************************************************************************)
(* Values of the constants for TLC.                                        *)
(***************************************************************************)
EXTENDS IncidentServiceProps

CONSTANTS h1, h2, t1, t2, r1, r2, u1, c1, c2

\* Two replicas: h1 and t1 in one, h2 and t2 in the other.
TwoReplicas == [p \in Procs |-> IF p \in {h1, t1} THEN r1 ELSE r2]

\* Both handlers change the status, and each writes other columns or deletes.
SharedRow ==
  [h \in Handlers |-> {"UpdateIncidentStatus"} \cup
     (IF h = h1 THEN {"CreateIncident", "UpdateIncident"}
      ELSE {"AcceptSuggestedStatus", "AcceptSuggestedSeverity", "AssignIncident",
            "DeleteIncident"})]

\* Both link and delete; h1 changes the severity besides, h2 adds updates.
LinksAndDeletes ==
  [h \in Handlers |-> {"CreateIncident", "LinkChange", "UnlinkChange", "DeleteIncident"}
     \cup {IF h = h1 THEN "UpdateIncidentSeverity" ELSE "AddIncidentUpdate"}]
==============================================================================
