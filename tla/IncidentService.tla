--------------------------- MODULE IncidentService ---------------------------
(***************************************************************************)
(* The Incident Service: src/server/grpc_servers/incident_server.py with   *)
(* the repositories it calls.                                              *)
(*                                                                         *)
(* A gRPC handler is a coroutine that suspends at every await, and two     *)
(* replicas of the service share one Postgres, so handlers and background  *)
(* tasks interleave at every statement they send.  One action stands for   *)
(* what runs between two awaits that matter: the first SELECT with the     *)
(* validation that precedes or follows it, the repository's own SELECT     *)
(* with its assignments, the commit, the refresh, the audit call.          *)
(*                                                                         *)
(* A request that an early return refuses (NOT_FOUND, INVALID_ARGUMENT,    *)
(* FAILED_PRECONDITION before anything is written) changes nothing, so its *)
(* condition is the guard of the action that a request not refused takes.  *)
(***************************************************************************)
EXTENDS Lifecycle, OrmSession, Naturals, Sequences

CONSTANTS
  Handlers,         \* concurrent handler coroutines, over all replicas
  Tasks,            \* background tasks that may be under way at a time
  Replicas,         \* processes of the Deployment
  Home,             \* the replica each handler and task runs in
  Serves,           \* the operations that clients call through each handler
  Users,            \* ids the User Service knows
  Changes,          \* ids of change requests
  Details,          \* what title, description and ci_id say, as one token
  SeverityInputs,   \* words clients send for a severity
  StatusInputs,     \* words clients send for a status
  SeverityAnswers,  \* what classify_incident_severity may return
  StatusAnswers,    \* what classify_incident_status may return
  SummaryAnswers,   \* what generate_incident_summary may return
  AuditOutcomes,    \* "recorded", "lost" (a swallowed RpcError), or both
  MayCrash,         \* whether replicas crash and restart
  MayBackfill,      \* whether backfill_ai_summaries.py is run
  MaxIncidents,     \* bound: incidents ever created
  MaxCalls,         \* bound: requests ever accepted
  MaxTime,          \* bound: clock ticks
  None              \* Python's None, SQL's NULL

Procs == Handlers \cup Tasks

UpdateOps == {"UpdateIncident", "UpdateIncidentStatus", "UpdateIncidentSeverity",
              "AcceptSuggestedSeverity", "AcceptSuggestedStatus", "AssignIncident"}
ClientOps == UpdateOps \cup {"CreateIncident", "AddIncidentUpdate", "DeleteIncident",
                             "LinkChange", "UnlinkChange"}
TaskOps   == {"_generate_and_store_summary", "_classify_and_store_status"}

\* A handler and a task are different coroutines.
ASSUME ProcsAssumption == Handlers \cap Tasks = {}
ASSUME PlacementAssumption == Home \in [Procs -> Replicas]
ASSUME OperationsAssumption == Serves \in [Handlers -> SUBSET ClientOps]
\* The classifier answers one of its valid words or nothing at all.
ASSUME AnswersAssumption ==
  /\ SeverityAnswers \subseteq SuggestedSeverities \cup {None}
  /\ StatusAnswers \subseteq SuggestedStatuses \cup {None}
  /\ SummaryAnswers \subseteq {"summary", None}
  /\ AuditOutcomes \subseteq {"recorded", "lost"}
ASSUME BoundsAssumption ==
  MaxIncidents \in Nat /\ MaxCalls \in Nat /\ MaxTime \in Nat
ASSUME SwitchesAssumption == MayCrash \in BOOLEAN /\ MayBackfill \in BOOLEAN
\* NULL is no value of a column, and None no operation.
ASSUME NoneAssumption ==
  /\ None \notin Nat /\ None \notin Users /\ None \notin Changes
  /\ None \notin SuggestedSeverities \cup SuggestedStatuses \cup {"summary"}
  /\ None \notin ClientOps \cup TaskOps

VARIABLES
  incidents,  \* table incidents: id -> row, for the ids stored now
  next_id,    \* its id sequence
  updates,    \* table incident_updates: the number of rows naming each id
  links,      \* table incident_change_links: pairs <<incident_id, change_id>>
  audit,      \* the audit service's log, oldest first
  calls,      \* where each handler and task is, and its session
  clock,      \* datetime.now()
  served      \* requests accepted so far

tables == <<incidents, next_id, updates, links>>
vars == <<incidents, next_id, updates, links, audit, calls, clock, served>>

Ids == 1..MaxIncidents

IncidentRow ==
  [details: Details, status: Statuses, severity: Severities,
   ai_summary: {"summary", None}, ai_summary_status: {"pending", "ready", "failed"},
   ai_suggested_severity: SuggestedSeverities \cup {None},
   ai_suggested_status: SuggestedStatuses \cup {None},
   assignee_user_id: Users \cup {None},
   first_response_at: Nat \cup {None}, resolved_at: Nat \cup {None}]

\* NULL is no row either: a session that has loaded nothing has loaded None.
ASSUME NoRowAssumption == None \notin IncidentRow

\* The columns each repository function assigns.
Assignments ==
       [details: Details, severity: Severities]
  \cup [status: Statuses]
  \cup [severity: Severities]
  \cup [assignee_user_id: Users \cup {None}]
  \cup [ai_suggested_severity: SuggestedSeverities]
  \cup [ai_suggested_status: SuggestedStatuses]
  \cup [ai_summary: {"summary"}, ai_summary_status: {"ready"}]
  \cup [ai_summary_status: {"failed"}]

Stored(i) == i \in DOMAIN incidents
-----------------------------------------------------------------------------
(***************************************************************************)
(* Sessions.  "todo" holds the assignments of the repository calls still   *)
(* to come: one for a handler, one or two for a task, which opens a new    *)
(* session for each.  "loaded" is the row as the session first read it,    *)
(* "pending" the same object after the assignments.  "entry" is the audit  *)
(* record the handler sends once its change is committed.                  *)
(***************************************************************************)
Call(pc, op, i, entry) ==
  [pc |-> pc, op |-> op, id |-> i, todo |-> << >>,
   loaded |-> None, pending |-> None, entry |-> entry]

Idle == Call("idle", None, 0, None)

\* A handler that has read row i and will assign "columns".
Update(op, i, columns) ==
  [pc |-> "select", op |-> op, id |-> i, todo |-> <<columns>>,
   loaded |-> incidents[i], pending |-> None, entry |-> None]

Entry(action, i, before, after) ==
  [action |-> action, incident |-> i, before |-> before, after |-> after]

\* The handler can take a request of this kind.
Ready(h, op) == calls[h].pc = "idle" /\ op \in Serves[h] /\ served < MaxCalls

Enter(h, call) ==
  /\ calls' = [calls EXCEPT ![h] = call]
  /\ served' = served + 1

Become(p, call) == calls' = [calls EXCEPT ![p] = call]

InitialRow(details, severity) ==
  [details |-> details, status |-> "open", severity |-> severity,
   ai_summary |-> None, ai_summary_status |-> "pending",
   ai_suggested_severity |-> None, ai_suggested_status |-> None,
   assignee_user_id |-> None, first_response_at |-> None, resolved_at |-> None]

Init ==
  /\ incidents = << >>
  /\ next_id = 1
  /\ updates = [i \in Ids |-> 0]
  /\ links = {}
  /\ audit = << >>
  /\ calls = [p \in Procs |-> Idle]
  /\ clock = 1
  /\ served = 0
-----------------------------------------------------------------------------
(***************************************************************************)
(* Requests, up to the first statement that can find another request's     *)
(* work in between.                                                        *)
(***************************************************************************)
CreateIncident(h, details, severity) ==
  /\ Ready(h, "CreateIncident")
  /\ ValidSeverity(severity)
  /\ next_id \in Ids
  /\ LET row == InitialRow(details, Normalized(severity))
     IN /\ incidents' = [i \in DOMAIN incidents \cup {next_id} |->
                           IF i = next_id THEN row ELSE incidents[i]]
        /\ Enter(h, Call("audit", "CreateIncident", next_id,
                         Entry("incident.created", next_id, None,
                               Project(row, {"details", "severity", "status"}))))
  /\ next_id' = next_id + 1
  /\ UNCHANGED <<updates, links, audit, clock>>

UpdateIncident(h, i, details, severity) ==
  /\ Ready(h, "UpdateIncident")
  /\ ValidSeverity(severity)
  /\ Stored(i)
  /\ Enter(h, Update("UpdateIncident", i,
                     [details |-> details, severity |-> Normalized(severity)]))
  /\ UNCHANGED <<tables, audit, clock>>

UpdateIncidentStatus(h, i, requested) ==
  /\ Ready(h, "UpdateIncidentStatus")
  /\ Stored(i)
  /\ ValidTransition(incidents[i].status, requested)
  /\ Enter(h, Update("UpdateIncidentStatus", i, [status |-> Normalized(requested)]))
  /\ UNCHANGED <<tables, audit, clock>>

UpdateIncidentSeverity(h, i, severity) ==
  /\ Ready(h, "UpdateIncidentSeverity")
  /\ ValidSeverity(severity)
  /\ Stored(i)
  /\ Enter(h, Update("UpdateIncidentSeverity", i, [severity |-> Normalized(severity)]))
  /\ UNCHANGED <<tables, audit, clock>>

\* The suggestion that is accepted is the one the handler's session has loaded,
\* whatever a classification stores in the meantime.
AcceptSuggestedSeverity(h, i) ==
  /\ Ready(h, "AcceptSuggestedSeverity")
  /\ Stored(i)
  /\ incidents[i].ai_suggested_severity # None
  /\ ValidSeverity(incidents[i].ai_suggested_severity)
  /\ Enter(h, Update("AcceptSuggestedSeverity", i,
                     [severity |-> Lower(incidents[i].ai_suggested_severity)]))
  /\ UNCHANGED <<tables, audit, clock>>

AcceptSuggestedStatus(h, i) ==
  /\ Ready(h, "AcceptSuggestedStatus")
  /\ Stored(i)
  /\ incidents[i].ai_suggested_status # None
  /\ ValidTransition(incidents[i].status, incidents[i].ai_suggested_status)
  /\ Enter(h, Update("AcceptSuggestedStatus", i,
                     [status |-> Lower(incidents[i].ai_suggested_status)]))
  /\ UNCHANGED <<tables, audit, clock>>

\* A user id other than None has been looked up in the User Service; an unknown
\* id or an unreachable service refuses the request.
AssignIncident(h, i, user) ==
  /\ Ready(h, "AssignIncident")
  /\ Stored(i)
  /\ Enter(h, Update("AssignIncident", i, [assignee_user_id |-> user]))
  /\ UNCHANGED <<tables, audit, clock>>

AddIncidentUpdate(h, i) ==
  /\ Ready(h, "AddIncidentUpdate")
  /\ Stored(i)
  /\ Enter(h, Call("insert_update", "AddIncidentUpdate", i,
                   Entry("incident.update_added", i, None, None)))
  /\ UNCHANGED <<tables, audit, clock>>

DeleteIncident(h, i) ==
  /\ Ready(h, "DeleteIncident")
  /\ Stored(i)
  /\ Enter(h, Call("select_delete", "DeleteIncident", i,
                   Entry("incident.deleted", i,
                         Project(incidents[i], {"status", "severity"}), None)))
  /\ UNCHANGED <<tables, audit, clock>>

LinkChange(h, i, change) ==
  /\ Ready(h, "LinkChange")
  /\ Stored(i)
  /\ Enter(h, Call("check_link", "LinkChange", i,
                   Entry("incident.change_linked", i, None, change)))
  /\ UNCHANGED <<tables, audit, clock>>

\* The one handler that does not look at the incident first.
UnlinkChange(h, i, change) ==
  /\ Ready(h, "UnlinkChange")
  /\ <<i, change>> \in links
  /\ Enter(h, Call("delete_link", "UnlinkChange", i,
                   Entry("incident.change_unlinked", i, change, None)))
  /\ UNCHANGED <<tables, audit, clock>>
-----------------------------------------------------------------------------
(***************************************************************************)
(* Repository functions.                                                   *)
(***************************************************************************)

\* Mutant: a stamp is written again whenever its status is.
ApplySlaTimestampsAgain(row, new_status, now) ==
  [row EXCEPT
     !.first_response_at = IF new_status = "in_progress" THEN now ELSE @,
     !.resolved_at       = IF new_status = "resolved"    THEN now ELSE @]

\* _apply_sla_timestamps: what it looks at is the session's own object.
ApplySlaTimestamps(row, new_status, now) ==
  [row EXCEPT
     !.first_response_at = IF new_status = "in_progress" /\ @ = None THEN now ELSE @,
     !.resolved_at       = IF new_status = "resolved"    /\ @ = None THEN now ELSE @]

Assign(row, columns, now) ==
  IF "status" \in DOMAIN columns
  THEN ApplySlaTimestamps(Overlay(row, columns), columns.status, now)
  ELSE Overlay(row, columns)

\* A coroutine goes on after a repository call that wrote nothing because the
\* row is gone: a handler answers NOT_FOUND, a task makes its next call.
AfterNothing(p) ==
  IF p \in Handlers \/ Len(calls[p].todo) = 1
  THEN Idle
  ELSE [calls[p] EXCEPT !.todo = Tail(@)]

\* The SELECT of an update function and the assignments that follow it.
Select(p) ==
  /\ calls[p].pc = "select"
  /\ LET call == calls[p]
         row  == IF call.loaded = None THEN incidents[call.id] ELSE call.loaded
     IN Become(p, IF Stored(call.id)
                  THEN [call EXCEPT !.pc = "commit", !.loaded = row,
                                    !.pending = Assign(row, Head(call.todo), clock)]
                  ELSE AfterNothing(p))
  /\ UNCHANGED <<tables, audit, clock, served>>

\* A handler refreshes after its commit; a task closes the session and opens
\* another for its next call, if it has one.
AfterCommit(p) ==
  IF p \in Handlers
  THEN [calls[p] EXCEPT !.pc = "refresh"]
  ELSE IF Len(calls[p].todo) > 1
  THEN [calls[p] EXCEPT !.pc = "select", !.todo = Tail(@), !.loaded = None, !.pending = None]
  ELSE Idle

WritesNothing(p) == DirtyColumns(calls[p].loaded, calls[p].pending) = {}

Commit(p) ==
  /\ calls[p].pc = "commit"
  /\ WritesNothing(p) \/ Stored(calls[p].id)
  /\ incidents' = IF Stored(calls[p].id)
                  THEN [incidents EXCEPT ![calls[p].id] =
                          Flush(@, calls[p].loaded, calls[p].pending)]
                  ELSE incidents
  /\ Become(p, AfterCommit(p))
  /\ UNCHANGED <<next_id, updates, links, audit, clock, served>>

\* The UPDATE matches no row: StaleDataError, which nothing catches.
CommitFails(p) ==
  /\ calls[p].pc = "commit"
  /\ ~WritesNothing(p) /\ ~Stored(calls[p].id)
  /\ Become(p, Idle)
  /\ UNCHANGED <<tables, audit, clock, served>>

AuditedColumns ==
  [UpdateIncident          |-> {"details", "severity"},
   UpdateIncidentStatus    |-> {"status"},
   AcceptSuggestedStatus   |-> {"status"},
   UpdateIncidentSeverity  |-> {"severity"},
   AcceptSuggestedSeverity |-> {"severity"}]

AuditAction ==
  [UpdateIncident          |-> "incident.updated",
   UpdateIncidentStatus    |-> "incident.status_changed",
   AcceptSuggestedStatus   |-> "incident.status_changed",
   UpdateIncidentSeverity  |-> "incident.severity_changed",
   AcceptSuggestedSeverity |-> "incident.severity_changed"]

\* Mutant: a request that changed nothing is audited like any other.
AuditAlways(call, changed, entry) == Call("audit", call.op, call.id, entry)

\* Send the entry if there is something to say; otherwise the call is over.
AuditIf(call, changed, entry) ==
  IF changed
  THEN Call("audit", call.op, call.id, entry)
  ELSE Idle

\* db.refresh reads the row as it is now, other requests' writes included, and
\* that is what "changed" and the audited "after" are taken from.  When the row
\* is gone it raises, and the committed change is never audited.
Refresh(h) ==
  /\ calls[h].pc = "refresh"
  /\ LET call    == calls[h]
         columns == AuditedColumns[call.op]
         before  == Project(call.loaded, columns)
         after   == Project(incidents[call.id], columns)
     IN Become(h,
          IF ~Stored(call.id) THEN Idle
          ELSE IF call.op = "AssignIncident" THEN [call EXCEPT !.pc = "note"]
          ELSE AuditIf(call, call.op = "UpdateIncident" \/ before # after,
                       Entry(AuditAction[call.op], call.id, before, after)))
  /\ UNCHANGED <<tables, audit, clock, served>>

AssignmentAction(before, after) ==
  IF after = None THEN "incident.unassigned"
  ELSE IF before = None THEN "incident.assigned" ELSE "incident.reassigned"

\* The second commit of AssignIncident: the note in the update history.  It
\* audits the user that was asked for, against the one its session had loaded.
Note(h) ==
  /\ calls[h].pc = "note"
  /\ LET call   == calls[h]
         before == call.loaded.assignee_user_id
         after  == call.pending.assignee_user_id
     IN /\ updates' = [updates EXCEPT ![call.id] = @ + 1]
        /\ Become(h, AuditIf(call, before # after,
                             Entry(AssignmentAction(before, after), call.id, before, after)))
  /\ UNCHANGED <<incidents, next_id, links, audit, clock, served>>

\* incident_updates has no foreign key to incidents.
InsertUpdate(h) ==
  /\ calls[h].pc = "insert_update"
  /\ updates' = [updates EXCEPT ![calls[h].id] = @ + 1]
  /\ Become(h, [calls[h] EXCEPT !.pc = "audit"])
  /\ UNCHANGED <<incidents, next_id, links, audit, clock, served>>

SelectDelete(h) ==
  /\ calls[h].pc = "select_delete"
  /\ Become(h, IF Stored(calls[h].id) THEN [calls[h] EXCEPT !.pc = "delete"] ELSE Idle)
  /\ UNCHANGED <<tables, audit, clock, served>>

\* Mutant: the migration forgets the foreign key.
NoForeignKey(rows, pairs) == TRUE

\* incident_change_links.incident_id has a foreign key without ON DELETE.
ForeignKeyHolds(rows, pairs) == \A pair \in pairs : pair[1] \in rows

\* Mutant: the refusal is swallowed and the handler goes on to its audit call.
AuditAfterRefusal(h) == [calls[h] EXCEPT !.pc = "audit"]

\* A statement that a constraint refuses raises, nothing catches it, and the
\* handler ends without an audit call.
AfterRefusal(h) == Idle

\* A DELETE that a foreign key refuses raises; one that matches no row, because
\* another request was faster, only warns, and the handler reports success.
Delete(h) ==
  /\ calls[h].pc = "delete"
  /\ LET rest == DOMAIN incidents \ {calls[h].id}
     IN IF ForeignKeyHolds(rest, links)
        THEN /\ incidents' = [i \in rest |-> incidents[i]]
             /\ Become(h, [calls[h] EXCEPT !.pc = "audit"])
        ELSE Become(h, AfterRefusal(h)) /\ UNCHANGED incidents
  /\ UNCHANGED <<next_id, updates, links, audit, clock, served>>

CheckLink(h) ==
  /\ calls[h].pc = "check_link"
  /\ Become(h, IF <<calls[h].id, calls[h].entry.after>> \in links
               THEN Idle
               ELSE [calls[h] EXCEPT !.pc = "insert_link"])
  /\ UNCHANGED <<tables, audit, clock, served>>

\* Mutant: the migration forgets UNIQUE (incident_id, change_id).
LinkInsertableTwice(pair) == ForeignKeyHolds(DOMAIN incidents, {pair})

\* The foreign key and UNIQUE (incident_id, change_id) stand behind the check.
LinkInsertable(pair) ==
  pair \notin links /\ ForeignKeyHolds(DOMAIN incidents, {pair})

InsertLink(h) ==
  /\ calls[h].pc = "insert_link"
  /\ LET pair == <<calls[h].id, calls[h].entry.after>>
     IN IF LinkInsertable(pair)
        THEN links' = links \cup {pair} /\ Become(h, [calls[h] EXCEPT !.pc = "audit"])
        ELSE Become(h, AfterRefusal(h)) /\ UNCHANGED links
  /\ UNCHANGED <<incidents, next_id, updates, audit, clock, served>>

\* As for Delete, a link that is gone by now is only worth a warning.
DeleteLink(h) ==
  /\ calls[h].pc = "delete_link"
  /\ links' = links \ {<<calls[h].id, calls[h].entry.before>>}
  /\ Become(h, [calls[h] EXCEPT !.pc = "audit"])
  /\ UNCHANGED <<incidents, next_id, updates, audit, clock, served>>
-----------------------------------------------------------------------------
(***************************************************************************)
(* Audit calls and background tasks.                                       *)
(***************************************************************************)

\* The task a handler starts before it returns.
Spawned == [CreateIncident    |-> "_generate_and_store_summary",
            AddIncidentUpdate |-> "_classify_and_store_status"]

\* record_audit_event: best effort, a lost event is only printed.
RecordAudit(h) ==
  /\ calls[h].pc = "audit"
  /\ \E outcome \in AuditOutcomes :
       audit' = IF outcome = "recorded" THEN Append(audit, calls[h].entry) ELSE audit
  /\ Become(h, IF calls[h].op \in DOMAIN Spawned
               THEN Call("spawn", calls[h].op, calls[h].id, None)
               ELSE Idle)
  /\ UNCHANGED <<tables, clock, served>>

\* _fire_and_forget.  The set of tasks has no bound in the code; here at most
\* Tasks of them are under way, and a handler waits for a free one.
Spawn(h) ==
  /\ calls[h].pc = "spawn"
  /\ \E t \in Tasks :
       /\ Home[t] = Home[h]
       /\ calls[t].pc = "idle"
       /\ calls' = [calls EXCEPT ![h] = Idle,
                                 ![t] = Call("infer", Spawned[calls[h].op],
                                            calls[h].id, None)]
  /\ UNCHANGED <<tables, audit, clock, served>>

\* Mutant: a summary that fails is not marked as failed.
SummaryCallsUnmarked(severity, summary) ==
  << IF summary = None THEN [ai_suggested_severity |-> severity]
     ELSE [ai_summary |-> summary, ai_summary_status |-> "ready"] >>

\* Mutant: the suggested severity is stored as the severity.
SummaryCallsDeciding(severity, summary) ==
  << [severity |-> severity], [ai_summary |-> summary, ai_summary_status |-> "ready"] >>

\* What a generated summary and a suggested severity make the task write.
SummaryCalls(severity, summary) ==
  LET store == IF summary = None THEN [ai_summary_status |-> "failed"]
               ELSE [ai_summary |-> summary, ai_summary_status |-> "ready"]
  IN IF severity = None THEN <<store>>
     ELSE << [ai_suggested_severity |-> severity], store >>

\* The CMDB lookup, whose failure is tolerated, and the two completions.
InferSummary(t) ==
  /\ calls[t].pc = "infer" /\ calls[t].op = "_generate_and_store_summary"
  /\ \E severity \in SeverityAnswers, summary \in SummaryAnswers :
       Become(t, [calls[t] EXCEPT !.pc = "select", !.todo = SummaryCalls(severity, summary)])
  /\ UNCHANGED <<tables, audit, clock, served>>

\* The same for the status, which also reads the update history.
InferStatus(t) ==
  /\ calls[t].pc = "infer" /\ calls[t].op = "_classify_and_store_status"
  /\ \E status \in StatusAnswers :
       Become(t, IF status = None THEN Idle
                 ELSE [calls[t] EXCEPT !.pc = "select",
                                       !.todo = << [ai_suggested_status |-> status] >>])
  /\ UNCHANGED <<tables, audit, clock, served>>

\* backfill_ai_summaries.py runs the summary task for a row it found not ready.
Backfill(t, i) ==
  /\ MayBackfill
  /\ calls[t].pc = "idle" /\ served < MaxCalls
  /\ Stored(i) /\ incidents[i].ai_summary_status # "ready"
  /\ Enter(t, Call("infer", "_generate_and_store_summary", i, None))
  /\ UNCHANGED <<tables, audit, clock>>
-----------------------------------------------------------------------------
(***************************************************************************)
(* The environment.                                                        *)
(***************************************************************************)
Tick ==
  /\ clock < MaxTime
  /\ clock' = clock + 1
  /\ UNCHANGED <<tables, audit, calls, served>>

\* A replica is killed (liveness probe, rollout) and restarted: what it had
\* under way is forgotten, what it had committed stays.
Crash(r) ==
  /\ MayCrash
  /\ \E p \in Procs : Home[p] = r /\ calls[p].pc # "idle"
  /\ calls' = [p \in Procs |-> IF Home[p] = r THEN Idle ELSE calls[p]]
  /\ UNCHANGED <<tables, audit, clock, served>>
-----------------------------------------------------------------------------
Request(h) ==
  \/ \E d \in Details, s \in SeverityInputs : CreateIncident(h, d, s)
  \/ \E i \in Ids :
       \/ \E d \in Details, s \in SeverityInputs : UpdateIncident(h, i, d, s)
       \/ \E s \in StatusInputs : UpdateIncidentStatus(h, i, s)
       \/ \E s \in SeverityInputs : UpdateIncidentSeverity(h, i, s)
       \/ \E u \in Users \cup {None} : AssignIncident(h, i, u)
       \/ \E c \in Changes : LinkChange(h, i, c) \/ UnlinkChange(h, i, c)
       \/ AcceptSuggestedSeverity(h, i)
       \/ AcceptSuggestedStatus(h, i)
       \/ AddIncidentUpdate(h, i)
       \/ DeleteIncident(h, i)

\* What a handler that has taken a request does on its own.
HandlerStep(h) ==
  \/ Refresh(h) \/ Note(h) \/ InsertUpdate(h)
  \/ SelectDelete(h) \/ Delete(h)
  \/ CheckLink(h) \/ InsertLink(h) \/ DeleteLink(h)
  \/ RecordAudit(h) \/ Spawn(h)

TaskStep(t) == InferSummary(t) \/ InferStatus(t)

RepositoryStep(p) == Select(p) \/ Commit(p) \/ CommitFails(p)

Next ==
  \/ \E h \in Handlers : Request(h) \/ HandlerStep(h)
  \/ \E t \in Tasks : TaskStep(t) \/ \E i \in Ids : Backfill(t, i)
  \/ \E p \in Procs : RepositoryStep(p)
  \/ Tick
  \/ \E r \in Replicas : Crash(r)

Spec == Init /\ [][Next]_vars

\* The event loop resumes every coroutine whose await has finished, and every
\* awaited statement, RPC or completion finishes or raises in the end.
Fairness ==
  /\ \A h \in Handlers : WF_vars(HandlerStep(h))
  /\ \A t \in Tasks : WF_vars(TaskStep(t))
  /\ \A p \in Procs : WF_vars(RepositoryStep(p))

FairSpec == Spec /\ Fairness
-----------------------------------------------------------------------------
Pcs == {"idle", "select", "commit", "refresh", "note", "insert_update",
        "select_delete", "delete", "check_link", "insert_link", "delete_link",
        "audit", "spawn", "infer"}

AuditActions ==
  {"incident.created", "incident.updated", "incident.status_changed",
   "incident.severity_changed", "incident.assigned", "incident.reassigned",
   "incident.unassigned", "incident.update_added", "incident.change_linked",
   "incident.change_unlinked", "incident.deleted"}

\* The "before" and "after" of an audit entry.
Snapshots ==
       [details: Details, severity: Severities, status: Statuses]
  \cup [details: Details, severity: Severities]
  \cup [status: Statuses, severity: Severities]
  \cup [status: Statuses]
  \cup [severity: Severities]
  \cup Users \cup Changes \cup {None}

Entries ==
  [action: AuditActions, incident: Ids, before: Snapshots, after: Snapshots]

Calls ==
  [pc: Pcs, op: ClientOps \cup TaskOps \cup {None}, id: Nat, todo: Seq(Assignments),
   loaded: IncidentRow \cup {None}, pending: IncidentRow \cup {None},
   entry: Entries \cup {None}]

\* Type correctness of the tables, the audit log and every session.
TypeOK ==
  /\ incidents \in [DOMAIN incidents -> IncidentRow]
  /\ next_id \in 1..(MaxIncidents + 1)
  /\ DOMAIN incidents \subseteq {i \in Ids : i < next_id}
  /\ updates \in [Ids -> Nat]
  /\ links \subseteq Ids \X Changes
  /\ audit \in Seq(Entries)
  /\ calls \in [Procs -> Calls]
  /\ clock \in Nat
  /\ served \in Nat
=============================================================================
