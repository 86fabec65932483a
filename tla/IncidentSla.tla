----------------------------- MODULE IncidentSla -----------------------------
(***************************************************************************)
(* The SLA of one incident as readers see it: compute_sla is applied anew  *)
(* by every read (incident_server._to_incident_response), to stamps that   *)
(* _apply_sla_timestamps takes before the commit that stores them.         *)
(* Nothing keeps two requests for a status apart: each has a session of    *)
(* its own, which goes by the row as it was when the session loaded it.    *)
(***************************************************************************)
EXTENDS Sla, OrmSession

CONSTANTS
  Sessions,  \* the sessions in which the status is changed, of all replicas
  Given,     \* the severities that the incident is ever given
  Instants,  \* the moments at which something happens, in half seconds
  None       \* Python's None, SQL's NULL

ASSUME GivenAssumption == Given \subseteq Severities
ASSUME InstantsAssumption == Instants \subseteq Nat /\ 0 \in Instants

\* The columns that a session which changes the status reads before it assigns, and assigns.
Columns == {"status", "first_response_at", "resolved_at"}
Copy == [status: Statuses, first_response_at: Nat \cup {None}, resolved_at: Nat \cup {None}]
Session == [loaded: Copy, requested: Statuses, pending: Copy \cup {None}]

ASSUME NoneAssumption == None \notin Nat \cup Copy \cup Session

VARIABLES
  row,       \* the columns of the incident that the SLA depends on
  sessions,  \* what each session has loaded, is to do, and has assigned; None if closed
  now        \* the clock

vars == <<row, sessions, now>>

sla == ComputeSla(row, now, None)

\* Mutant: the stamp of the resolution is forgotten.
StampedOnResponseOnly(r, status, at) ==
  [r EXCEPT !.status = status,
            !.first_response_at = IF status = "in_progress" /\ @ = None THEN at ELSE @]

\* Mutant: a second request for "resolved" moves the stamp.
StampedAgain(r, status, at) ==
  [StampedOnResponseOnly(r, status, at) EXCEPT
     !.resolved_at = IF status = "resolved" THEN at ELSE @]

\* The assignment and _apply_sla_timestamps
Stamped(r, status, at) ==
  [r EXCEPT !.status = status,
            !.first_response_at = IF status = "in_progress" /\ @ = None THEN at ELSE @,
            !.resolved_at = IF status = "resolved" /\ @ = None THEN at ELSE @]
-----------------------------------------------------------------------------
\* UpdateIncidentStatus and AcceptSuggestedStatus load the incident and check the request
\* against what they have loaded.
LoadForStatus(h, requested) ==
  /\ sessions[h] = None
  /\ ValidTransition(row.status, requested)
  /\ sessions' = [sessions EXCEPT ![h] =
       [loaded |-> Project(row, Columns), requested |-> Normalized(requested),
        pending |-> None]]
  /\ UNCHANGED <<row, now>>

\* The second SELECT returns the object loaded; what is assigned to it takes the stamps
\* from the clock, if this copy has none.
AssignStatus(h) ==
  /\ sessions[h] # None /\ sessions[h].pending = None
  /\ sessions' = [sessions EXCEPT ![h].pending =
       Stamped(sessions[h].loaded, sessions[h].requested, now)]
  /\ UNCHANGED <<row, now>>

\* The commit writes the columns that were changed.
Commit(h) ==
  /\ sessions[h] # None /\ sessions[h].pending # None
  /\ row' = Flush(row, sessions[h].loaded, sessions[h].pending)
  /\ sessions' = [sessions EXCEPT ![h] = None]
  /\ UNCHANGED now

\* A replica that dies loses what it has not committed.
Lose(h) ==
  /\ sessions[h] # None
  /\ sessions' = [sessions EXCEPT ![h] = None]
  /\ UNCHANGED <<row, now>>

\* UpdateIncidentSeverity, AcceptSuggestedSeverity, UpdateIncident: a commit of another
\* session, which writes no stamp.
UpdateSeverity(requested) ==
  /\ ValidSeverity(requested)
  /\ row' = [row EXCEPT !.severity = Normalized(requested)]
  /\ UNCHANGED <<sessions, now>>

\* Nothing need happen at any instant, but no instant is skipped.
Tick ==
  /\ \E t \in Instants :
       /\ t > now /\ \A u \in Instants : u > now => t <= u
       /\ now' = t
  /\ UNCHANGED <<row, sessions>>

Init ==
  /\ \E s \in Given :
       row = [severity |-> s, status |-> "open", first_response_at |-> None,
              resolved_at |-> None]
  /\ sessions = [h \in Sessions |-> None]
  /\ now = 0

\* The requests that give the incident one of these severities.
SeverityRequests ==
  {s \in Severities \cup SuggestedSeverities : Normalized(s) \in Given}

Next ==
  \/ \E h \in Sessions :
       \/ \E s \in Statuses \cup SuggestedStatuses : LoadForStatus(h, s)
       \/ AssignStatus(h) \/ Commit(h) \/ Lose(h)
  \/ \E s \in SeverityRequests : UpdateSeverity(s)
  \/ Tick

Spec == Init /\ [][Next]_vars
-----------------------------------------------------------------------------
Deadline(goal) == GetSlaTarget(row.severity)[goal]
Done(r) == r.status \in {"resolved", "closed"}
Stamps == {"first_response_at", "resolved_at"}

\* The step is a commit of a session whose copy is no longer what is stored.
StaleCommit ==
  \E h \in Sessions :
    /\ sessions[h] # None /\ sessions[h].pending # None /\ sessions'[h] = None
    /\ sessions[h].loaded # Project(row, Columns)

\* The step moves a stamp that was set.
Restamps == \E stamp \in Stamps : row[stamp] # None /\ row'[stamp] # row[stamp]

\* A report of "met" means that both milestones were reached in time: a resolved
\* incident without its stamp would be "met" however late it was (sla.py:33-40).
MetMeansInTime ==
  sla.state = "met" =>
    /\ row.first_response_at # None /\ row.first_response_at <= Deadline("response")
    /\ row.resolved_at # None /\ row.resolved_at <= Deadline("resolution")

\* Between an instant that sees an incident on track for a deadline and that deadline
\* somebody looks once more.
Watched ==
  \A severity \in Given : \A goal \in {"response", "resolution"} :
    LET deadline == GetSlaTarget(severity)[goal] IN
    \A t \in Instants :
      ~AtRisk(WholeSeconds(deadline - t), deadline) =>
        \E u \in Instants : t < u /\ u <= deadline

\* Nobody who looks at every instant sees an incident turn from on_track to breached:
\* it is at_risk in between (sla.py:47-52).  Two things are excepted: another severity,
\* and a stale session that moves a stamp past its deadline, although the stamps are
\* meant to be set once (incident_repository.py:131-138).
WarnedFirst ==
  [][row'.severity = row.severity /\ sla.state = "on_track" /\ sla'.state = "breached" =>
       StaleCommit /\ Restamps]_vars

\* For one severity, what is reported of a resolved incident changes only by a stale
\* session, which moves one of its stamps or takes its status back.  And a breach once
\* reported is withdrawn only by a stamp that was taken in time, whose commit came after
\* a reader had seen the deadline pass (incident_repository.py:134, 161), in a stale
\* session or not.
ReportsAreFinal ==
  [][row'.severity = row.severity =>
       /\ Done(row) /\ sla'.state # sla.state => StaleCommit /\ (Restamps \/ ~Done(row'))
       /\ sla.state = "breached" /\ sla'.state # "breached" =>
            \/ row'.first_response_at # row.first_response_at
               /\ row'.first_response_at <= Deadline("response")
            \/ row'.resolved_at # row.resolved_at
               /\ row'.resolved_at <= Deadline("resolution")]_vars

\* The countdown that a reader sees runs down: for one severity it rises only when
\* the first response replaces the deadline, the resolution ends it (sla.py:41-49), or a
\* stale session takes a resolution back.
CountsDown ==
  [][row'.severity = row.severity /\ sla'.remaining_seconds > sla.remaining_seconds =>
       \/ row'.first_response_at # row.first_response_at
       \/ Done(row')
       \/ Done(row) /\ StaleCommit]_vars
==============================================================================
