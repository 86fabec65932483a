------------------------- MODULE IncidentServiceProps ------------------------
(***************************************************************************)
(* What the Incident Service is meant to guarantee, stated over the        *)
(* variables of IncidentService.                                           *)
(***************************************************************************)
EXTENDS IncidentService, FiniteSets, Functions

\* No commit writes two rows, so the rows that a step leaves stored are the
\* ones to compare.
StaysStored(i) == Stored(i) /\ i \in DOMAIN incidents'
-----------------------------------------------------------------------------
(***************************************************************************)
(* The lifecycle and the SLA time stamps.                                  *)
(***************************************************************************)

\* An incident past "open" has its response stamp, and one resolved or closed
\* has both: compute_sla never meets a finished incident whose missing stamp
\* would make a closed incident look unanswered (domain/sla.py).
StampsPresent(row) ==
  /\ row.status # "open" => row.first_response_at # None
  /\ row.status \in {"resolved", "closed"} => row.resolved_at # None

SlaStampsPresent == \A i \in DOMAIN incidents : StampsPresent(incidents[i])

\* Stamps name milestones that are reached in order and never taken back, in
\* every interleaving of handlers, tasks and crashes.
MilestoneOf(i) ==
  CASE i \in DOMAIN incidents /\ incidents[i].resolved_at # None -> "resolved"
    [] i \in DOMAIN incidents /\ incidents[i].resolved_at = None
         /\ incidents[i].first_response_at # None -> "responded"
    [] i \in DOMAIN incidents /\ incidents[i].resolved_at = None
         /\ incidents[i].first_response_at = None -> "waiting"
    [] i \notin DOMAIN incidents /\ i < next_id -> "gone"
    [] OTHER -> "unborn"

MilestoneSpec == INSTANCE Milestones WITH
  Incidents <- Ids, reached <- [i \in Ids |-> MilestoneOf(i)]

\* The service implements Milestones: a commit never clears a stamp that another
\* session set, never sets resolved_at first, and no write revives a row.
MilestonesInOrder == MilestoneSpec!Spec

StatusOf(i) ==
  IF Stored(i) THEN incidents[i].status ELSE IF i < next_id THEN "gone" ELSE "unborn"

\* "closed" is terminal and every move is an allowed one
\* (domain/incident_lifecycle.py:3-4).
ForwardOnly ==
  [][\A i \in Ids : StaysStored(i) /\ incidents'[i].status # incidents[i].status =>
       incidents'[i].status \in AllowedTransitions[incidents[i].status]]_vars
-----------------------------------------------------------------------------
(***************************************************************************)
(* Sessions that share a row.                                              *)
(***************************************************************************)

\* The columns an operation is there to write.
Owned ==
  [UpdateIncident              |-> {"details", "severity"},
   UpdateIncidentStatus        |-> {"status", "first_response_at", "resolved_at"},
   AcceptSuggestedStatus       |-> {"status", "first_response_at", "resolved_at"},
   UpdateIncidentSeverity      |-> {"severity"},
   AcceptSuggestedSeverity     |-> {"severity"},
   AssignIncident              |-> {"assignee_user_id"},
   _generate_and_store_summary |-> {"ai_suggested_severity", "ai_summary",
                                    "ai_summary_status"},
   _classify_and_store_status  |-> {"ai_suggested_status"}]

\* A column changes only when an operation that owns it commits, and to the
\* value that operation decided on: a session with an old copy of the row
\* overwrites nobody else's columns, and an AI task never changes what people
\* set.
ColumnsChangeOnlyByOwners ==
  [][\A i \in Ids : StaysStored(i) =>
       \A c \in DOMAIN incidents[i] : incidents'[i][c] # incidents[i][c] =>
         \E p \in Procs :
           /\ calls[p].pc = "commit" /\ calls[p].id = i
           /\ calls'[p].pc # "commit"
           /\ c \in Owned[calls[p].op]
           /\ incidents'[i][c] = calls[p].pending[c]]_vars

\* Every link joins a stored incident, whatever is deleted meanwhile.
LinksPointToStored == \A link \in links : Stored(link[1])
-----------------------------------------------------------------------------
(***************************************************************************)
(* The audit log.                                                          *)
(***************************************************************************)
IsStatusChange(e) == e.action = "incident.status_changed"

\* Where the audit log holds the status changes of incident i.
StatusEntries(i) == {k \in DOMAIN audit : audit[k].incident = i /\ IsStatusChange(audit[k])}

\* The status that the log, up to position k, leaves incident i in.
ToldBefore(i, k, status) ==
  \/ status = "open" /\ \A j \in StatusEntries(i) : j >= k
  \/ \E last \in StatusEntries(i) :
       /\ last < k /\ \A j \in StatusEntries(i) : j <= last \/ j >= k
       /\ audit[last].after.status = status

StatusOps == {"UpdateIncidentStatus", "AcceptSuggestedStatus"}

ChangingStatus(i) == \E h \in Handlers : calls[h].id = i /\ calls[h].op \in StatusOps

\* A deletion is audited only once it is true, and stays true.
AuditedDeletionsAreGone ==
  \A e \in Range(audit) : e.action = "incident.deleted" => ~Stored(e.incident)

Says(e, action, i, change) ==
  e.action = action /\ e.incident = i /\ change \in {e.before, e.after}

\* The audit entries of a kind about one link, sent or about to be.
LinkEntries(action, i, change) ==
  Cardinality({k \in DOMAIN audit : Says(audit[k], action, i, change)})
  + Cardinality({h \in Handlers : calls[h].pc = "audit"
                                   /\ Says(calls[h].entry, action, i, change)})

\* Linking twice is audited once: for each pair, the audited links exceed the
\* audited unlinks by at most the one link that is stored.
LinkTrailBalanced ==
  \A i \in Ids, change \in Changes :
    LinkEntries("incident.change_linked", i, change) <=
      LinkEntries("incident.change_unlinked", i, change)
      + (IF <<i, change>> \in links THEN 1 ELSE 0)
-----------------------------------------------------------------------------
(***************************************************************************)
(* Background summaries.                                                   *)
(***************************************************************************)

\* As long as no replica dies, a new incident's summary does not stay pending:
\* it becomes ready or failed, or the incident is deleted.
PendingResolves ==
  \A i \in Ids :
    Stored(i) ~> (~Stored(i) \/ incidents[i].ai_summary_status # "pending")
-----------------------------------------------------------------------------
(***************************************************************************)
(* The inductive invariant behind TypeOK and SlaStampsPresent.  The stamps *)
(* are safe although sessions work on old copies because a copy can only   *)
(* lag behind: a stamp it has, the row has, and the UPDATE leaves alone    *)
(* the columns that the session did not change.                            *)
(***************************************************************************)

\* Every stamp of "old" is set in "new" as well.
KeepsStamps(old, new) ==
  /\ old.first_response_at # None => new.first_response_at # None
  /\ old.resolved_at # None => new.resolved_at # None

\* The session did not touch a stamp it found set.
LeavesStamps(loaded, pending) ==
  /\ loaded.first_response_at \in {None, pending.first_response_at}
  /\ loaded.resolved_at \in {None, pending.resolved_at}

\* A handler's copy of row "i" of the table "rows".
GoodCopy(rows, i, loaded) ==
  /\ loaded \in IncidentRow
  /\ StampsPresent(loaded)
  /\ i \in DOMAIN rows => KeepsStamps(loaded, rows[i])

\* The assignments that are still to come are ones this process may make.
MayAssign(p, call) ==
  /\ call.todo # << >>
  /\ p \in Handlers => /\ call.op \in UpdateOps
                       /\ "status" \in DOMAIN Head(call.todo) =>
                            ValidTransition(call.loaded.status, Head(call.todo).status)
  /\ p \in Tasks => \A k \in DOMAIN call.todo : "status" \notin DOMAIN call.todo[k]

EntryPcs == {"insert_update", "select_delete", "delete", "check_link", "insert_link",
             "delete_link", "audit"}

GoodCall(rows, next, p, call) ==
  /\ call.pc # "idle" => call.id \in Ids /\ call.id < next
  /\ call.pc = "select" => MayAssign(p, call)
  /\ call.pc = "select" =>
       IF p \in Handlers THEN GoodCopy(rows, call.id, call.loaded) ELSE call.loaded = None
  /\ call.pc \in {"commit", "refresh", "note"} =>
       /\ p \in Handlers => call.op \in UpdateOps
       /\ p \in Tasks => call.todo # << >>
             /\ \A k \in DOMAIN call.todo : "status" \notin DOMAIN call.todo[k]
       /\ GoodCopy(rows, call.id, call.loaded)
       /\ call.pending \in IncidentRow
       /\ StampsPresent(call.pending) /\ LeavesStamps(call.loaded, call.pending)
  /\ call.pc \in EntryPcs => call.entry \in Entries
  /\ call.pc \in {"check_link", "insert_link"} => call.entry.after \in Changes
  /\ call.pc = "spawn" => call.op \in DOMAIN Spawned
  /\ call.pc = "infer" => call.loaded = None

IInv ==
  /\ TypeOK
  /\ LinksPointToStored
  /\ SlaStampsPresent
  /\ \A p \in Procs : GoodCall(incidents, next_id, p, calls[p])
-----------------------------------------------------------------------------
(***************************************************************************)
(* What every call observes besides, which is a matter of the call alone:  *)
(* a session writes only its own columns, and an audit entry is about the  *)
(* incident of the call and says what the call is there to say.            *)
(***************************************************************************)

\* The columns an assignment may change, with the stamps a status brings along.
Written(columns) ==
  DOMAIN columns \cup
    (IF "status" \in DOMAIN columns THEN {"first_response_at", "resolved_at"} ELSE {})

\* A session resolves only an incident that it has seen responded to.
ResponseFirst(loaded, pending) ==
  pending.resolved_at # loaded.resolved_at => loaded.first_response_at # None

\* The status it writes is the one it has loaded or one that may follow it.
StepsForward(loaded, pending) ==
  pending.status \in {loaded.status} \cup AllowedTransitions[loaded.status]

\* The action that the entry of a call tells of, from its statement on.
ActionAt ==
  [insert_update |-> "incident.update_added",
   select_delete |-> "incident.deleted",       delete      |-> "incident.deleted",
   check_link    |-> "incident.change_linked", insert_link |-> "incident.change_linked",
   delete_link   |-> "incident.change_unlinked"]

Linked(e, change)   == e.action = "incident.change_linked" /\ e.before = None /\ e.after = change
Unlinked(e, change) == e.action = "incident.change_unlinked" /\ e.after = None /\ e.before = change

IsLinkEntry(e) == e.action \in {"incident.change_linked", "incident.change_unlinked"}

EntryFits(call) ==
  LET e == call.entry IN
  /\ e.incident = call.id
  /\ call.pc \in DOMAIN ActionAt => e.action = ActionAt[call.pc]
  /\ IsLinkEntry(e) => \E change \in Changes : Linked(e, change) \/ Unlinked(e, change)
  /\ IsStatusChange(e) <=> call.op \in StatusOps

Disciplined(p, call) ==
  /\ call.pc # "idle" => call.op \in IF p \in Handlers THEN Serves[p] ELSE TaskOps
  /\ call.pc \in {"select", "commit"} =>
       \A k \in DOMAIN call.todo : Written(call.todo[k]) \subseteq Owned[call.op]
  /\ call.pc = "commit" =>
       /\ DirtyColumns(call.loaded, call.pending) \subseteq Owned[call.op]
       /\ ResponseFirst(call.loaded, call.pending)
       /\ StepsForward(call.loaded, call.pending)
  /\ call.pc = "note" => call.op = "AssignIncident"
  /\ call.pc \in EntryPcs => EntryFits(call)

Discipline == \A p \in Procs : Disciplined(p, calls[p])
-----------------------------------------------------------------------------
(***************************************************************************)
(* What it takes for AuditedDeletionsAreGone: ids are not used again, and  *)
(* a handler goes on to audit a deletion only once the row is gone.        *)
(***************************************************************************)
Gone(i) == i < next_id /\ ~Stored(i)

DeletionTrue(e) == e.action = "incident.deleted" => Gone(e.incident)

DeletionsInv ==
  /\ \A k \in DOMAIN audit : DeletionTrue(audit[k])
  /\ \A h \in Handlers : calls[h].pc = "audit" => DeletionTrue(calls[h].entry)
=============================================================================
