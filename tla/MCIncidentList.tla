---------------------------- MODULE MCIncidentList ----------------------------
EXTENDS IncidentList

Filter(status, sla_state, sort_by, sort_dir) ==
  [status |-> status, sla_state |-> sla_state, created_after |-> None,
   sort_by |-> sort_by, sort_dir |-> sort_dir]

\* Newest first; and the open ones that are late, sorted by status, so that all are ties.
Newest == Filter(None, None, "created_at", "desc")
Late == Filter("open", "breached", "status", "asc")
TwoForms == {Newest, Late}

\* The list as it is first, and another with a date that is no date.
TwoLinks ==
  {[form |-> f, page |-> 0, size |-> 1] :
     f \in {Newest, [Late EXCEPT !.created_after = "malformed"]}}

\* Two open incidents, one after the other; or two resolved ones from before there was a
\* created_at.
Incident(t, status, late) == [created_at |-> t, status |-> status, late |-> late]
TwoSeeds ==
  {<<Incident(1, "open", TRUE), Incident(3, "open", FALSE)>>,
   <<Incident(1, "resolved", TRUE), Incident(1, "resolved", FALSE)>>}
=============================================================================
