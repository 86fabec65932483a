------------------------ MODULE IncidentServiceProofs ------------------------
(***************************************************************************)
(* The Incident Service for any number of handlers, tasks, replicas and    *)
(* incidents.  First what holds however requests overlap: types, the SLA   *)
(* stamps, the integrity of links, who writes which column, the order of   *)
(* milestones, the truth of audited deletions and the trail of links.      *)
(* Then, with every race of status requests admitted and named: the        *)
(* lifecycle, the stamps that stay and the trail of statuses.              *)
(* IInv is the inductive invariant on which all the others build; one      *)
(* lemma per action shows that the action keeps it.                        *)
(***************************************************************************)
EXTENDS IncidentRaces, FiniteSetTheorems, TLAPS

-----------------------------------------------------------------------------
(***************************************************************************)
(* Rows: what the assignments of a repository function and the flush of a  *)
(* session do to the type and the stamps of a row.                         *)
(***************************************************************************)

\* A repository function's assignments keep a row well typed.
LEMMA OverlayType ==
  ASSUME NEW row \in IncidentRow, NEW columns \in Assignments
  PROVE  Overlay(row, columns) \in IncidentRow
BY DEF Overlay, IncidentRow, Assignments

\* So do they together with _apply_sla_timestamps.
LEMMA AssignType ==
  ASSUME NEW row \in IncidentRow, NEW columns \in Assignments, NEW now \in Nat
  PROVE  Assign(row, columns, now) \in IncidentRow
<1> DEFINE new == Overlay(row, columns)
<1>1. new \in IncidentRow
  BY OverlayType
<1> HIDE DEF new
<1>2. ApplySlaTimestamps(new, columns.status, now) \in IncidentRow
  <2>1. \A first, second \in Nat \cup {None} :
          [new EXCEPT !.first_response_at = first, !.resolved_at = second] \in IncidentRow
    BY <1>1 DEF IncidentRow
  <2>2. new.first_response_at \in Nat \cup {None} /\ new.resolved_at \in Nat \cup {None}
    BY <1>1 DEF IncidentRow
  <2> QED
    BY <2>1, <2>2 DEF ApplySlaTimestamps
<1> QED
  BY <1>1, <1>2 DEF Assign, new

\* An UPDATE of the dirty columns keeps the stored row well typed.
LEMMA FlushType ==
  ASSUME NEW stored \in IncidentRow, NEW loaded \in IncidentRow, NEW pending \in IncidentRow
  PROVE  Flush(stored, loaded, pending) \in IncidentRow
BY DEF Flush, DirtyColumns, IncidentRow

\* The assignments a session makes on a copy that has its stamps: the result
\* has them too, and no stamp that was set is moved.
LEMMA AssignStamps ==
  ASSUME NEW row \in IncidentRow, NEW columns \in Assignments, NEW now \in Nat,
         StampsPresent(row),
         "status" \in DOMAIN columns => ValidTransition(row.status, columns.status)
  PROVE  /\ StampsPresent(Assign(row, columns, now))
         /\ LeavesStamps(row, Assign(row, columns, now))
<1>1. CASE "status" \in DOMAIN columns
  <2>1. columns \in [status: Statuses]
    BY <1>1 DEF Assignments
  <2>2. /\ columns.status \in Statuses
        /\ Lower(columns.status) = columns.status
    BY <2>1 DEF Statuses, Lower, LowerCase
  <2>3. \/ columns.status = row.status
        \/ columns.status \in AllowedTransitions[row.status]
    BY <1>1, <2>2 DEF ValidTransition
  <2>4. \/ columns.status = row.status
        \/ row.status = "open" /\ columns.status = "in_progress"
        \/ row.status = "in_progress" /\ columns.status = "resolved"
        \/ row.status = "resolved" /\ columns.status = "closed"
    BY <2>3 DEF AllowedTransitions, IncidentRow, Statuses
  <2>5. Overlay(row, columns) = [row EXCEPT !.status = columns.status]
    BY <2>1 DEF Overlay, IncidentRow
  <2>6. now # None
    BY NoneAssumption
  <2> QED
    BY <1>1, <2>2, <2>4, <2>5, <2>6
    DEF Assign, ApplySlaTimestamps, StampsPresent, LeavesStamps, IncidentRow, Statuses
<1>2. CASE "status" \notin DOMAIN columns
  <2>1. /\ Overlay(row, columns).status = row.status
        /\ Overlay(row, columns).first_response_at = row.first_response_at
        /\ Overlay(row, columns).resolved_at = row.resolved_at
    BY <1>2 DEF Overlay, Assignments, IncidentRow
  <2> QED
    BY <1>2, <2>1 DEF Assign, StampsPresent, LeavesStamps
<1> QED
  BY <1>1, <1>2

\* The heart of the matter: the UPDATE of a session whose copy is old.  A status
\* it writes comes with its stamps, written now or in the row already, and it
\* clears no stamp that another session has set meanwhile.
LEMMA FlushStamps ==
  ASSUME NEW stored \in IncidentRow, NEW loaded \in IncidentRow, NEW pending \in IncidentRow,
         StampsPresent(stored), StampsPresent(pending),
         KeepsStamps(loaded, stored), LeavesStamps(loaded, pending)
  PROVE  /\ StampsPresent(Flush(stored, loaded, pending))
         /\ KeepsStamps(stored, Flush(stored, loaded, pending))
<1> DEFINE new == Flush(stored, loaded, pending)
<1>1. new.status = IF pending.status # loaded.status THEN pending.status ELSE stored.status
  BY DEF Flush, DirtyColumns, IncidentRow
<1>2. new.first_response_at = IF pending.first_response_at # loaded.first_response_at
                              THEN pending.first_response_at ELSE stored.first_response_at
  BY DEF Flush, DirtyColumns, IncidentRow
<1>3. new.resolved_at = IF pending.resolved_at # loaded.resolved_at
                        THEN pending.resolved_at ELSE stored.resolved_at
  BY DEF Flush, DirtyColumns, IncidentRow
<1> HIDE DEF new
<1>4. StampsPresent(new) /\ KeepsStamps(stored, new)
  BY <1>1, <1>2, <1>3 DEF StampsPresent, KeepsStamps, LeavesStamps
<1> QED
  BY <1>4 DEF new
-----------------------------------------------------------------------------
(***************************************************************************)
(* Calls: what it takes for a step to keep IInv.                           *)
(***************************************************************************)

\* A call stays good when other processes change the table: rows may be added
\* under new ids, removed, or updated without losing a stamp.
LEMMA GoodCallFrame ==
  ASSUME NEW rows, NEW next \in Nat, NEW rows1, NEW next1 \in Nat, next <= next1,
         NEW p, NEW call \in Calls, GoodCall(rows, next, p, call),
         DOMAIN rows \subseteq Nat,
         \A i \in DOMAIN rows1 : i < next =>
           i \in DOMAIN rows /\ KeepsStamps(rows[i], rows1[i])
  PROVE  GoodCall(rows1, next1, p, call)
<1>1. call.id \in Nat
  BY DEF Calls
<1>2. call.pc # "idle" => call.id \in Ids /\ call.id < next /\ call.id < next1
  BY <1>1 DEF GoodCall
<1>3. ASSUME call.pc # "idle", GoodCopy(rows, call.id, call.loaded)
      PROVE  GoodCopy(rows1, call.id, call.loaded)
  BY <1>2, <1>3 DEF GoodCopy, KeepsStamps
<1>4. call.pc = "select" =>
       IF p \in Handlers THEN GoodCopy(rows1, call.id, call.loaded) ELSE call.loaded = None
  BY <1>3 DEF GoodCall
<1>5. call.pc \in {"commit", "refresh", "note"} => GoodCopy(rows1, call.id, call.loaded)
  BY <1>3 DEF GoodCall
<1> QED
  BY <1>2, <1>4, <1>5 DEF GoodCall

\* The idle call is well typed and good in any state.
LEMMA IdleGood ==
  /\ Idle \in Calls
  /\ \A rows, next, p : GoodCall(rows, next, p, Idle)
<1>1. << >> \in Seq(Assignments)
  OBVIOUS
<1> QED
  BY <1>1 DEF Idle, Call, Calls, Pcs, GoodCall, EntryPcs

\* A step that leaves the incidents alone and moves one process to a good call.
LEMMA CallStep ==
  ASSUME IInv, NEW p \in Procs, NEW call \in Calls,
         GoodCall(incidents, next_id, p, call),
         calls' = [calls EXCEPT ![p] = call],
         UNCHANGED <<incidents, next_id>>,
         updates' \in [Ids -> Nat],
         links' \subseteq Ids \X Changes, \A link \in links' : Stored(link[1]),
         audit' \in Seq(Entries), clock' \in Nat, served' \in Nat
  PROVE  IInv'
<1>1. TypeOK'
  BY DEF IInv, TypeOK
<1>4. LinksPointToStored'
  BY DEF LinksPointToStored, Stored
<1>2. SlaStampsPresent'
  BY DEF IInv, SlaStampsPresent
<1>3. ASSUME NEW q \in Procs
      PROVE  GoodCall(incidents', next_id', q, calls'[q])
  <2>1. GoodCall(incidents, next_id, q, calls'[q])
    BY DEF IInv, TypeOK
  <2> QED
    BY <2>1
<1> QED
  BY <1>1, <1>2, <1>3, <1>4 DEF IInv
-----------------------------------------------------------------------------
(***************************************************************************)
(* Requests.                                                               *)
(***************************************************************************)

\* A handler that has just read a stored row is in a good call, if what it will
\* assign is an allowed transition from the status it read.
LEMMA UpdateGood ==
  ASSUME IInv, NEW h \in Handlers, NEW op \in UpdateOps, NEW i \in Ids, Stored(i),
         NEW columns \in Assignments,
         "status" \in DOMAIN columns =>
           ValidTransition(incidents[i].status, columns.status)
  PROVE  /\ Update(op, i, columns) \in Calls
         /\ GoodCall(incidents, next_id, h, Update(op, i, columns))
<1> DEFINE call == Update(op, i, columns)
<1>1. /\ incidents[i] \in IncidentRow
      /\ StampsPresent(incidents[i])
      /\ i < next_id
  BY DEF IInv, TypeOK, SlaStampsPresent, Stored
<1>2. /\ <<columns>> \in Seq(Assignments)
      /\ <<columns>> # << >>
      /\ Head(<<columns>>) = columns
  OBVIOUS
<1>3. call \in Calls
  BY <1>1, <1>2 DEF Update, Calls, Pcs, ClientOps, Ids
<1>4. GoodCopy(incidents, i, incidents[i])
  BY <1>1 DEF GoodCopy, KeepsStamps
<1>5. MayAssign(h, call)
  BY <1>2, ProcsAssumption DEF MayAssign, Update
<1>6. GoodCall(incidents, next_id, h, call)
  BY <1>1, <1>4, <1>5 DEF GoodCall, Update, EntryPcs
<1> QED
  BY <1>3, <1>6

\* The words a validated request stores.
LEMMA NormalizedType ==
  ASSUME NEW word
  PROVE  /\ ValidSeverity(word) => Normalized(word) \in Severities
         /\ \A status \in Statuses : ValidTransition(status, word) =>
              /\ Normalized(word) \in Statuses
              /\ ValidTransition(status, Normalized(word))
<1>1. \A w \in Statuses : Lower(w) = w
  BY DEF Statuses, Lower, LowerCase
<1> QED
  BY <1>1 DEF ValidSeverity, ValidTransition, Normalized

\* The requests that read a row and go on to update it.
LEMMA UpdateRequestInv ==
  ASSUME IInv, NEW h \in Handlers, NEW i \in Ids
  PROVE  /\ \A d \in Details, s \in SeverityInputs : UpdateIncident(h, i, d, s) => IInv'
         /\ \A s \in StatusInputs : UpdateIncidentStatus(h, i, s) => IInv'
         /\ \A s \in SeverityInputs : UpdateIncidentSeverity(h, i, s) => IInv'
         /\ \A u \in Users \cup {None} : AssignIncident(h, i, u) => IInv'
         /\ AcceptSuggestedSeverity(h, i) => IInv'
         /\ AcceptSuggestedStatus(h, i) => IInv'
<1>1. ASSUME NEW op \in UpdateOps, NEW columns \in Assignments, Stored(i),
             "status" \in DOMAIN columns =>
               ValidTransition(incidents[i].status, columns.status),
             Enter(h, Update(op, i, columns)), UNCHANGED <<tables, audit, clock>>
      PROVE  IInv'
  <2>1. /\ Update(op, i, columns) \in Calls
        /\ GoodCall(incidents, next_id, h, Update(op, i, columns))
    BY <1>1, UpdateGood
  <2>2. /\ calls' = [calls EXCEPT ![h] = Update(op, i, columns)]
        /\ UNCHANGED <<incidents, next_id, updates, links, audit, clock>>
        /\ served' = served + 1
    BY <1>1 DEF Enter, tables
  <2>3. /\ updates' \in [Ids -> Nat] /\ links' \subseteq Ids \X Changes
        /\ \A link \in links' : Stored(link[1])
        /\ audit' \in Seq(Entries) /\ clock' \in Nat /\ served' \in Nat
    BY <2>2 DEF IInv, TypeOK, LinksPointToStored
  <2> QED
    BY <2>1, <2>2, <2>3, CallStep DEF Procs
<1>2. ASSUME NEW d \in Details, NEW s \in SeverityInputs, UpdateIncident(h, i, d, s)
      PROVE  IInv'
  <2>1. [details |-> d, severity |-> Normalized(s)] \in Assignments
    BY <1>2, NormalizedType DEF UpdateIncident, Assignments
  <2> QED
    BY <1>1, <1>2, <2>1 DEF UpdateIncident, UpdateOps
<1>3. ASSUME NEW s \in StatusInputs, UpdateIncidentStatus(h, i, s)
      PROVE  IInv'
  <2>1. incidents[i].status \in Statuses
    BY <1>3 DEF UpdateIncidentStatus, Stored, IInv, TypeOK, IncidentRow
  <2>2. /\ [status |-> Normalized(s)] \in Assignments
        /\ ValidTransition(incidents[i].status, Normalized(s))
    BY <1>3, <2>1, NormalizedType DEF UpdateIncidentStatus, Assignments
  <2> QED
    BY <1>1, <1>3, <2>2 DEF UpdateIncidentStatus, UpdateOps
<1>4. ASSUME NEW s \in SeverityInputs, UpdateIncidentSeverity(h, i, s)
      PROVE  IInv'
  <2>1. [severity |-> Normalized(s)] \in Assignments
    BY <1>4, NormalizedType DEF UpdateIncidentSeverity, Assignments
  <2> QED
    BY <1>1, <1>4, <2>1 DEF UpdateIncidentSeverity, UpdateOps
<1>5. ASSUME NEW u \in Users \cup {None}, AssignIncident(h, i, u)
      PROVE  IInv'
  <2>1. [assignee_user_id |-> u] \in Assignments
    BY DEF Assignments
  <2> QED
    BY <1>1, <1>5, <2>1 DEF AssignIncident, UpdateOps
<1>6. ASSUME AcceptSuggestedSeverity(h, i)
      PROVE  IInv'
  <2>1. [severity |-> Lower(incidents[i].ai_suggested_severity)] \in Assignments
    BY <1>6 DEF AcceptSuggestedSeverity, ValidSeverity, Assignments
  <2> QED
    BY <1>1, <1>6, <2>1 DEF AcceptSuggestedSeverity, UpdateOps
<1>7. ASSUME AcceptSuggestedStatus(h, i)
      PROVE  IInv'
  <2>1. incidents[i].status \in Statuses
    BY <1>7 DEF AcceptSuggestedStatus, Stored, IInv, TypeOK, IncidentRow
  <2>2. /\ [status |-> Lower(incidents[i].ai_suggested_status)] \in Assignments
        /\ ValidTransition(incidents[i].status, Lower(incidents[i].ai_suggested_status))
    BY <1>7, <2>1, NormalizedType DEF AcceptSuggestedStatus, Normalized, Assignments
  <2> QED
    BY <1>1, <1>7, <2>2 DEF AcceptSuggestedStatus, UpdateOps
<1> QED
  BY <1>2, <1>3, <1>4, <1>5, <1>6, <1>7

\* The other requests on a stored incident start with an audit entry to send.
LEMMA EntryCall ==
  ASSUME IInv, NEW p \in Procs, NEW pc \in EntryPcs, NEW op \in ClientOps,
         NEW i \in Ids, i < next_id, NEW entry \in Entries,
         pc \in {"check_link", "insert_link"} => entry.after \in Changes
  PROVE  /\ Call(pc, op, i, entry) \in Calls
         /\ GoodCall(incidents, next_id, p, Call(pc, op, i, entry))
<1>1. << >> \in Seq(Assignments) /\ i \in Nat
  BY DEF Ids
<1>2. Call(pc, op, i, entry) \in Calls
  BY <1>1 DEF Call, Calls, Pcs, EntryPcs
<1>3. GoodCall(incidents, next_id, p, Call(pc, op, i, entry))
  BY <1>1 DEF Call, GoodCall, EntryPcs
<1> QED
  BY <1>2, <1>3

\* The requests on a stored incident that assign no column of it: updates, links
\* and deletions.
LEMMA EntryRequestInv ==
  ASSUME IInv, NEW h \in Handlers, NEW i \in Ids
  PROVE  /\ \A c \in Changes : LinkChange(h, i, c) \/ UnlinkChange(h, i, c) => IInv'
         /\ AddIncidentUpdate(h, i) => IInv'
         /\ DeleteIncident(h, i) => IInv'
<1>0. \A j : Stored(j) => j < next_id
  BY DEF IInv, TypeOK, Stored
<1>1. ASSUME NEW pc \in EntryPcs, NEW op \in ClientOps, NEW entry \in Entries,
             pc \in {"check_link", "insert_link"} => entry.after \in Changes, i < next_id,
             Enter(h, Call(pc, op, i, entry)), UNCHANGED <<tables, audit, clock>>
      PROVE  IInv'
  <2>1. /\ calls' = [calls EXCEPT ![h] = Call(pc, op, i, entry)]
        /\ UNCHANGED <<incidents, next_id, updates, links, audit, clock>>
        /\ served' = served + 1
    BY <1>1 DEF Enter, tables
  <2>2. /\ updates' \in [Ids -> Nat] /\ links' \subseteq Ids \X Changes
        /\ \A link \in links' : Stored(link[1])
        /\ audit' \in Seq(Entries) /\ clock' \in Nat /\ served' \in Nat
    BY <2>1 DEF IInv, TypeOK, LinksPointToStored
  <2>3. h \in Procs
    BY DEF Procs
  <2>4. /\ Call(pc, op, i, entry) \in Calls
        /\ GoodCall(incidents, next_id, h, Call(pc, op, i, entry))
    BY <1>1, <2>3, EntryCall
  <2> QED
    BY <2>1, <2>2, <2>3, <2>4, CallStep
<1>2. ASSUME NEW c \in Changes, LinkChange(h, i, c)
      PROVE  IInv'
  <2>1. Entry("incident.change_linked", i, None, c) \in Entries
    BY DEF Entry, Entries, AuditActions, Snapshots
  <2>2. Entry("incident.change_linked", i, None, c).after \in Changes
    BY DEF Entry
  <2> QED
    BY <1>0, <1>1, <1>2, <2>1, <2>2 DEF LinkChange, ClientOps, EntryPcs
<1>3. ASSUME NEW c \in Changes, UnlinkChange(h, i, c)
      PROVE  IInv'
  <2>1. Entry("incident.change_unlinked", i, c, None) \in Entries
    BY DEF Entry, Entries, AuditActions, Snapshots
  <2>2. i < next_id
    BY <1>0, <1>3 DEF UnlinkChange, IInv, LinksPointToStored
  <2> QED
    BY <1>1, <1>3, <2>1, <2>2 DEF UnlinkChange, ClientOps, EntryPcs
<1>4. ASSUME AddIncidentUpdate(h, i)
      PROVE  IInv'
  <2>1. Entry("incident.update_added", i, None, None) \in Entries
    BY DEF Entry, Entries, AuditActions, Snapshots
  <2> QED
    BY <1>0, <1>1, <1>4, <2>1 DEF AddIncidentUpdate, ClientOps, EntryPcs
<1>5. ASSUME DeleteIncident(h, i)
      PROVE  IInv'
  <2>1. incidents[i] \in IncidentRow
    BY <1>5 DEF DeleteIncident, Stored, IInv, TypeOK
  <2>2. Project(incidents[i], {"status", "severity"}) \in [status: Statuses, severity: Severities]
    BY <2>1 DEF Project, IncidentRow
  <2>3. Entry("incident.deleted", i, Project(incidents[i], {"status", "severity"}), None)
          \in Entries
    BY <2>2 DEF Entry, Entries, AuditActions, Snapshots
  <2> QED
    BY <1>0, <1>1, <1>5, <2>3 DEF DeleteIncident, ClientOps, EntryPcs
<1> QED
  BY <1>2, <1>3, <1>4, <1>5

\* CreateIncident adds a row under a fresh id, which no call names yet.
LEMMA CreateInv ==
  ASSUME IInv, NEW h \in Handlers, NEW d \in Details, NEW s \in SeverityInputs,
         CreateIncident(h, d, s)
  PROVE  IInv'
<1> DEFINE row == InitialRow(d, Normalized(s))
           snapshot == Project(row, {"details", "severity", "status"})
           entry == Entry("incident.created", next_id, None, snapshot)
           call == Call("audit", "CreateIncident", next_id, entry)
<1>1. row \in IncidentRow /\ StampsPresent(row)
  BY NormalizedType DEF CreateIncident, InitialRow, IncidentRow, Statuses, StampsPresent
<1>2. next_id \in Ids /\ next_id \in Nat /\ next_id' = next_id + 1
  BY DEF CreateIncident, Ids
<1>3. entry \in Entries
  <2>1. snapshot \in [details: Details, severity: Severities, status: Statuses]
    BY <1>1 DEF Project, IncidentRow
  <2> QED
    BY <1>2, <2>1 DEF Entry, Entries, AuditActions, Snapshots
<1>4. call \in Calls
  <2>1. << >> \in Seq(Assignments)
    OBVIOUS
  <2> QED
    BY <1>2, <1>3, <2>1 DEF Call, Calls, Pcs, ClientOps
<1>5. /\ incidents' = [i \in DOMAIN incidents \cup {next_id} |->
                        IF i = next_id THEN row ELSE incidents[i]]
      /\ calls' = [calls EXCEPT ![h] = call]
      /\ served' = served + 1
      /\ UNCHANGED <<updates, links, audit, clock>>
  BY DEF CreateIncident, Enter
<1>6. h \in Procs
  BY DEF Procs
<1> HIDE DEF row, entry, call
<1>7. TypeOK'
  <2>1. incidents' \in [DOMAIN incidents' -> IncidentRow]
    BY <1>1, <1>5 DEF IInv, TypeOK
  <2>2. next_id' \in 1..(MaxIncidents + 1)
    BY <1>2, BoundsAssumption DEF Ids
  <2>3. DOMAIN incidents' \subseteq {i \in Ids : i < next_id'}
    BY <1>2, <1>5 DEF IInv, TypeOK, Ids
  <2>4. calls' \in [Procs -> Calls]
    BY <1>4, <1>5 DEF IInv, TypeOK
  <2> QED
    BY <1>5, <2>1, <2>2, <2>3, <2>4 DEF IInv, TypeOK
<1>8. SlaStampsPresent'
  BY <1>1, <1>5 DEF IInv, SlaStampsPresent
<1>9. ASSUME NEW q \in Procs
      PROVE  GoodCall(incidents', next_id', q, calls'[q])
  <2>1. CASE q = h
    <3>1. calls'[q] = call
      BY <1>5, <1>6, <2>1 DEF IInv, TypeOK
    <3>2. call.pc = "audit" /\ call.id = next_id /\ call.entry = entry
      BY DEF call, Call
    <3> QED
      BY <1>2, <1>3, <3>1, <3>2 DEF GoodCall, EntryPcs
  <2>2. CASE q # h
    <3>1. calls'[q] = calls[q] /\ calls[q] \in Calls
      BY <1>5, <2>2 DEF IInv, TypeOK
    <3>2. GoodCall(incidents, next_id, q, calls[q])
      BY DEF IInv
    <3>3. DOMAIN incidents \subseteq Nat
      BY DEF IInv, TypeOK, Ids
    <3>4. \A i \in DOMAIN incidents' : i < next_id =>
            i \in DOMAIN incidents /\ KeepsStamps(incidents[i], incidents'[i])
      BY <1>2, <1>5 DEF KeepsStamps
    <3> QED
      BY <1>2, <3>1, <3>2, <3>3, <3>4, GoodCallFrame
  <2> QED
    BY <2>1, <2>2
<1>10. LinksPointToStored'
  BY <1>5 DEF IInv, LinksPointToStored, Stored
<1> QED
  BY <1>7, <1>8, <1>9, <1>10 DEF IInv
-----------------------------------------------------------------------------
(***************************************************************************)
(* Repository functions.                                                   *)
(***************************************************************************)

\* A step that only moves one process to a good call.
LEMMA QuietStep ==
  ASSUME IInv, NEW p \in Procs, NEW call \in Calls,
         GoodCall(incidents, next_id, p, call),
         Become(p, call), UNCHANGED <<tables, audit, clock, served>>
  PROVE  IInv'
<1>1. /\ calls' = [calls EXCEPT ![p] = call]
      /\ UNCHANGED <<incidents, next_id, updates, links, audit, clock, served>>
  BY DEF Become, tables
<1>2. /\ updates' \in [Ids -> Nat] /\ links' \subseteq Ids \X Changes
      /\ \A link \in links' : Stored(link[1])
      /\ audit' \in Seq(Entries) /\ clock' \in Nat /\ served' \in Nat
  BY <1>1 DEF IInv, TypeOK, LinksPointToStored
<1> QED
  BY <1>1, <1>2, CallStep

\* What the tail of a task's list of assignments keeps.
LEMMA TailOfTodo ==
  ASSUME NEW todo \in Seq(Assignments), todo # << >>
  PROVE  /\ Head(todo) \in Assignments
         /\ Tail(todo) \in Seq(Assignments)
         /\ Len(todo) # 1 => Tail(todo) # << >>
         /\ \A k \in DOMAIN Tail(todo) : \E j \in DOMAIN todo : Tail(todo)[k] = todo[j]
<1>1. /\ Head(todo) \in Assignments
      /\ Tail(todo) \in Seq(Assignments)
      /\ Len(Tail(todo)) = Len(todo) - 1
      /\ Len(todo) \in Nat /\ Len(todo) # 0
      /\ DOMAIN Tail(todo) = 1..(Len(todo) - 1)
      /\ DOMAIN todo = 1..Len(todo)
  OBVIOUS
<1>2. ASSUME NEW k \in DOMAIN Tail(todo)
      PROVE  \E j \in DOMAIN todo : Tail(todo)[k] = todo[j]
  <2>1. k + 1 \in DOMAIN todo /\ Tail(todo)[k] = todo[k + 1]
    BY <1>1
  <2> QED
    BY <2>1
<1>3. Len(todo) # 1 => Tail(todo) # << >>
  BY <1>1
<1> QED
  BY <1>1, <1>2, <1>3

\* The copy a session works on after its SELECT, and what it may assign to it.
LEMMA SelectInv ==
  ASSUME IInv, NEW p \in Procs, Select(p)
  PROVE  IInv'
<1> DEFINE call == calls[p]
           row == IF call.loaded = None THEN incidents[call.id] ELSE call.loaded
           chosen == [call EXCEPT !.pc = "commit", !.loaded = row,
                                  !.pending = Assign(row, Head(call.todo), clock)]
<1>1. call \in Calls /\ call.pc = "select" /\ GoodCall(incidents, next_id, p, call)
  BY DEF IInv, TypeOK, Select
<1>2. /\ call.id \in Ids /\ call.id < next_id /\ MayAssign(p, call)
      /\ IF p \in Handlers THEN GoodCopy(incidents, call.id, call.loaded)
                            ELSE call.loaded = None
  BY <1>1 DEF GoodCall
<1>3. call.todo \in Seq(Assignments) /\ call.todo # << >>
  BY <1>1, <1>2 DEF Calls, MayAssign
<1>4. clock \in Nat
  BY DEF IInv, TypeOK
<1>5. p \in Handlers \/ p \in Tasks
  BY DEF Procs
<1>6. CASE Stored(call.id)
  <2>1. /\ incidents[call.id] \in IncidentRow /\ StampsPresent(incidents[call.id])
    BY <1>6 DEF IInv, TypeOK, SlaStampsPresent, Stored
  <2>2. GoodCopy(incidents, call.id, row)
    <3>1. CASE p \in Handlers
      <4>1. row = call.loaded
        BY <1>2, <3>1, NoRowAssumption DEF GoodCopy
      <4> QED
        BY <1>2, <3>1, <4>1
    <3>2. CASE p \notin Handlers
      BY <1>2, <2>1, <3>2 DEF GoodCopy, KeepsStamps
    <3> QED
      BY <3>1, <3>2
  <2>3. "status" \in DOMAIN Head(call.todo) =>
          ValidTransition(row.status, Head(call.todo).status)
    <3>1. CASE p \in Handlers
      BY <1>2, <3>1, NoRowAssumption DEF GoodCopy, MayAssign
    <3>2. CASE p \in Tasks
      <4>1. Head(call.todo) = call.todo[1] /\ 1 \in DOMAIN call.todo
        BY <1>3
      <4> QED
        BY <1>2, <3>2, <4>1 DEF MayAssign
    <3> QED
      BY <1>5, <3>1, <3>2
  <2>4. Head(call.todo) \in Assignments
    BY <1>3, TailOfTodo
  <2> DEFINE pending == Assign(row, Head(call.todo), clock)
  <2>5. pending \in IncidentRow /\ StampsPresent(pending) /\ LeavesStamps(row, pending)
    BY <1>4, <2>2, <2>3, <2>4, AssignType, AssignStamps DEF GoodCopy
  <2>6. row \in IncidentRow
    BY <2>2 DEF GoodCopy
  <2> HIDE DEF row, pending
  <2>7. [call EXCEPT !.pc = "commit", !.loaded = row, !.pending = pending] \in Calls
    BY <1>1, <2>5, <2>6 DEF Calls, Pcs
  <2>8. GoodCall(incidents, next_id, p,
          [call EXCEPT !.pc = "commit", !.loaded = row, !.pending = pending])
    BY <1>1, <1>2, <1>3, <2>2, <2>5, <2>7 DEF GoodCall, MayAssign, Calls, EntryPcs
  <2>9. /\ Become(p, [call EXCEPT !.pc = "commit", !.loaded = row, !.pending = pending])
        /\ UNCHANGED <<tables, audit, clock, served>>
    BY <1>6 DEF Select, row, pending
  <2> QED
    BY <2>7, <2>8, <2>9, QuietStep
<1>7. CASE ~Stored(call.id)
  <2>1. Become(p, AfterNothing(p)) /\ UNCHANGED <<tables, audit, clock, served>>
    BY <1>7 DEF Select
  <2>2. CASE p \in Handlers \/ Len(call.todo) = 1
    BY <2>1, <2>2, IdleGood, QuietStep DEF AfterNothing
  <2>3. CASE p \notin Handlers /\ Len(call.todo) # 1
    <3> DEFINE rest == [call EXCEPT !.todo = Tail(call.todo)]
    <3>1. AfterNothing(p) = rest
      BY <2>3 DEF AfterNothing
    <3>2. rest \in Calls
      BY <1>1, <1>3, TailOfTodo DEF Calls
    <3>3. /\ rest.pc = "select" /\ rest.id = call.id /\ rest.loaded = call.loaded
          /\ rest.todo = Tail(call.todo) /\ rest.op = call.op
      BY <1>1 DEF Calls
    <3>4. \A k \in DOMAIN Tail(call.todo) : "status" \notin DOMAIN Tail(call.todo)[k]
      BY <1>2, <1>3, <1>5, <2>3, TailOfTodo DEF MayAssign
    <3>5. MayAssign(p, rest)
      BY <1>3, <2>3, <3>3, <3>4, TailOfTodo DEF MayAssign
    <3>6. GoodCall(incidents, next_id, p, rest)
      BY <1>2, <2>3, <3>3, <3>5 DEF GoodCall, EntryPcs
    <3> QED
      BY <2>1, <3>1, <3>2, <3>6, QuietStep
  <2> QED
    BY <2>2, <2>3
<1> QED
  BY <1>6, <1>7

\* A step that writes or removes rows without losing a stamp, and moves one
\* process to a call that is good for the table as it is then.
LEMMA TableStep ==
  ASSUME IInv, NEW p \in Procs, NEW call \in Calls,
         GoodCall(incidents', next_id, p, call),
         calls' = [calls EXCEPT ![p] = call],
         UNCHANGED <<next_id, updates, links, audit, clock, served>>,
         incidents' \in [DOMAIN incidents' -> IncidentRow],
         DOMAIN incidents' \subseteq DOMAIN incidents,
         \A i \in DOMAIN incidents' :
           StampsPresent(incidents'[i]) /\ KeepsStamps(incidents[i], incidents'[i]),
         \A link \in links : link[1] \in DOMAIN incidents'
  PROVE  IInv'
<1>1. TypeOK'
  BY DEF IInv, TypeOK
<1>2. SlaStampsPresent'
  BY DEF SlaStampsPresent
<1>3. LinksPointToStored'
  BY DEF LinksPointToStored, Stored
<1>4. ASSUME NEW q \in Procs
      PROVE  GoodCall(incidents', next_id', q, calls'[q])
  <2>1. CASE q = p
    <3>1. calls'[q] = call
      BY <2>1 DEF IInv, TypeOK
    <3> QED
      BY <2>1, <3>1
  <2>2. CASE q # p
    <3>1. calls'[q] = calls[q] /\ calls[q] \in Calls
      BY <2>2 DEF IInv, TypeOK
    <3>2. /\ next_id \in Nat /\ DOMAIN incidents \subseteq Nat
          /\ GoodCall(incidents, next_id, q, calls[q])
      BY DEF IInv, TypeOK, Ids
    <3>3. GoodCall(incidents', next_id, q, calls[q])
      BY <3>1, <3>2, GoodCallFrame
    <3> QED
      BY <3>1, <3>3
  <2> QED
    BY <2>1, <2>2
<1> QED
  BY <1>1, <1>2, <1>3, <1>4 DEF IInv

\* The call that a successful commit leads to is good, in any table in which the
\* session's copy is.
LEMMA AfterCommitGood ==
  ASSUME IInv, NEW p \in Procs, calls[p].pc = "commit", NEW rows,
         GoodCopy(rows, calls[p].id, calls[p].loaded)
  PROVE  AfterCommit(p) \in Calls /\ GoodCall(rows, next_id, p, AfterCommit(p))
<1> DEFINE call == calls[p]
<1>1. call \in Calls /\ GoodCall(incidents, next_id, p, call)
  BY DEF IInv, TypeOK
<1>2. CASE p \in Handlers
  <2> DEFINE next == [call EXCEPT !.pc = "refresh"]
  <2>1. AfterCommit(p) = next
    BY <1>2 DEF AfterCommit
  <2>2. next \in Calls
    BY <1>1 DEF Calls, Pcs
  <2>3. /\ next.pc = "refresh" /\ next.id = call.id /\ next.op = call.op
        /\ next.loaded = call.loaded /\ next.pending = call.pending
        /\ next.todo = call.todo
    BY <1>1 DEF Calls
  <2>4. GoodCall(rows, next_id, p, next)
    BY <1>1, <2>3 DEF GoodCall, EntryPcs
  <2> QED
    BY <2>1, <2>2, <2>4
<1>3. CASE p \notin Handlers /\ Len(call.todo) > 1
  <2> DEFINE next == [call EXCEPT !.pc = "select", !.todo = Tail(call.todo),
                                  !.loaded = None, !.pending = None]
  <2>1. AfterCommit(p) = next
    BY <1>3 DEF AfterCommit
  <2>2. p \in Tasks
    BY <1>3 DEF Procs
  <2>3. /\ call.todo \in Seq(Assignments) /\ call.todo # << >>
        /\ \A k \in DOMAIN call.todo : "status" \notin DOMAIN call.todo[k]
    BY <1>1, <2>2 DEF Calls, GoodCall
  <2>4. next \in Calls
    BY <1>1, <2>3, TailOfTodo DEF Calls, Pcs
  <2>5. /\ next.pc = "select" /\ next.id = call.id /\ next.loaded = None
        /\ next.todo = Tail(call.todo)
    BY <1>1 DEF Calls
  <2>6. MayAssign(p, next)
    <3>1. \A k \in DOMAIN Tail(call.todo) : "status" \notin DOMAIN Tail(call.todo)[k]
      BY <2>3, TailOfTodo
    <3>2. Len(call.todo) # 1
      BY <1>3, <2>3
    <3>3. Tail(call.todo) # << >>
      BY <2>3, <3>2, TailOfTodo
    <3> QED
      BY <1>3, <2>5, <3>1, <3>3 DEF MayAssign
  <2>7. GoodCall(rows, next_id, p, next)
    BY <1>1, <1>3, <2>5, <2>6 DEF GoodCall, EntryPcs
  <2> QED
    BY <2>1, <2>4, <2>7
<1>4. CASE p \notin Handlers /\ ~(Len(call.todo) > 1)
  BY <1>4, IdleGood DEF AfterCommit
<1> QED
  BY <1>2, <1>3, <1>4

\* The commit of a session with an old copy: FlushStamps at work.
LEMMA CommitInv ==
  ASSUME IInv, NEW p \in Procs, Commit(p)
  PROVE  IInv'
<1> DEFINE call == calls[p]
<1>1. call \in Calls /\ call.pc = "commit" /\ GoodCall(incidents, next_id, p, call)
  BY DEF IInv, TypeOK, Commit
<1>2. /\ GoodCopy(incidents, call.id, call.loaded)
      /\ call.pending \in IncidentRow /\ StampsPresent(call.pending)
      /\ LeavesStamps(call.loaded, call.pending)
  BY <1>1 DEF GoodCall
<1>3. /\ calls' = [calls EXCEPT ![p] = AfterCommit(p)]
      /\ UNCHANGED <<next_id, updates, links, audit, clock, served>>
      /\ incidents' = IF Stored(call.id)
                      THEN [incidents EXCEPT ![call.id] =
                              Flush(incidents[call.id], call.loaded, call.pending)]
                      ELSE incidents
  BY DEF Commit, Become
<1>4. \A i \in DOMAIN incidents : incidents[i] \in IncidentRow /\ StampsPresent(incidents[i])
  BY DEF IInv, TypeOK, SlaStampsPresent
<1>5. DOMAIN incidents' = DOMAIN incidents
  BY <1>3
<1>6. ASSUME NEW i \in DOMAIN incidents
      PROVE  /\ incidents'[i] \in IncidentRow
             /\ StampsPresent(incidents'[i])
             /\ KeepsStamps(incidents[i], incidents'[i])
  <2>1. CASE i = call.id
    <3>1. incidents'[i] = Flush(incidents[i], call.loaded, call.pending)
      BY <1>3, <2>1 DEF Stored
    <3>2. call.loaded \in IncidentRow /\ KeepsStamps(call.loaded, incidents[i])
      BY <1>2, <2>1 DEF GoodCopy
    <3> QED
      BY <1>2, <1>4, <3>1, <3>2, FlushType, FlushStamps
  <2>2. CASE i # call.id
    <3>1. incidents'[i] = incidents[i]
      BY <1>3, <2>2
    <3> QED
      BY <1>4, <3>1 DEF KeepsStamps
  <2> QED
    BY <2>1, <2>2
<1>7. incidents' \in [DOMAIN incidents' -> IncidentRow]
  <2>1. incidents' = [i \in DOMAIN incidents' |-> incidents'[i]]
    BY <1>3 DEF IInv, TypeOK
  <2> QED
    BY <1>5, <1>6, <2>1
<1>8. GoodCopy(incidents', call.id, call.loaded)
  BY <1>2, <1>5, <1>6 DEF GoodCopy, KeepsStamps
<1>9. AfterCommit(p) \in Calls /\ GoodCall(incidents', next_id, p, AfterCommit(p))
  BY <1>1, <1>8, AfterCommitGood
<1>10. \A link \in links : link[1] \in DOMAIN incidents'
  BY <1>5 DEF IInv, LinksPointToStored, Stored
<1> QED
  BY <1>3, <1>5, <1>6, <1>7, <1>9, <1>10, TableStep

\* The steps that handlers and tasks share keep the invariant.
LEMMA RepositoryInv ==
  ASSUME IInv, NEW p \in Procs, RepositoryStep(p)
  PROVE  IInv'
<1>1. CASE Select(p)
  BY <1>1, SelectInv
<1>2. CASE Commit(p)
  BY <1>2, CommitInv
<1>3. CASE CommitFails(p)
  BY <1>3, IdleGood, QuietStep DEF CommitFails
<1> QED
  BY <1>1, <1>2, <1>3 DEF RepositoryStep
-----------------------------------------------------------------------------
(***************************************************************************)
(* The rest of the handlers.                                               *)
(***************************************************************************)

\* A handler that carries its audit entry on to its next statement.
LEMMA EntryMove ==
  ASSUME IInv, NEW rows, NEW h \in Handlers, calls[h].pc \in EntryPcs,
         NEW pc \in EntryPcs, pc \in {"check_link", "insert_link"} => calls[h].pc = "check_link"
  PROVE  /\ [calls[h] EXCEPT !.pc = pc] \in Calls
         /\ GoodCall(rows, next_id, h, [calls[h] EXCEPT !.pc = pc])
<1> DEFINE call == calls[h]
           next == [call EXCEPT !.pc = pc]
<1>1. call \in Calls /\ GoodCall(incidents, next_id, h, call)
  BY DEF IInv, TypeOK, Procs
<1>2. next \in Calls
  BY <1>1 DEF Calls, Pcs, EntryPcs
<1>3. next.pc = pc /\ next.id = call.id /\ next.entry = call.entry
  BY <1>1 DEF Calls
<1>4. /\ call.id \in Ids /\ call.id < next_id /\ call.entry \in Entries
      /\ pc \in {"check_link", "insert_link"} => call.entry.after \in Changes
  BY <1>1 DEF GoodCall, EntryPcs
<1>5. GoodCall(rows, next_id, h, next)
  BY <1>3, <1>4 DEF GoodCall, EntryPcs
<1> QED
  BY <1>2, <1>5

\* The end of an update: nothing to say, or an entry to send.
LEMMA AuditIfGood ==
  ASSUME IInv, NEW h \in Handlers, calls[h].pc \in {"refresh", "note"},
         NEW changed, NEW entry \in Entries
  PROVE  /\ AuditIf(calls[h], changed, entry) \in Calls
         /\ GoodCall(incidents, next_id, h, AuditIf(calls[h], changed, entry))
<1>1. /\ calls[h].id \in Ids /\ calls[h].id < next_id /\ calls[h].op \in ClientOps
      /\ h \in Procs
  BY DEF IInv, GoodCall, Procs, ClientOps
<1>2. "audit" \in EntryPcs /\ "audit" \notin {"check_link", "insert_link"}
  BY DEF EntryPcs
<1>3. /\ Call("audit", calls[h].op, calls[h].id, entry) \in Calls
      /\ GoodCall(incidents, next_id, h, Call("audit", calls[h].op, calls[h].id, entry))
  BY <1>1, <1>2, EntryCall
<1> QED
  BY <1>3, IdleGood DEF AuditIf

\* The refresh after a commit, which ends in an audit entry, a note or nothing.
LEMMA RefreshInv ==
  ASSUME IInv, NEW h \in Handlers, Refresh(h)
  PROVE  IInv'
<1> DEFINE call == calls[h]
           columns == AuditedColumns[call.op]
           before == Project(call.loaded, columns)
           after == Project(incidents[call.id], columns)
           changed == call.op = "UpdateIncident" \/ before # after
           entry == Entry(AuditAction[call.op], call.id, before, after)
<1>1. /\ h \in Procs /\ call \in Calls /\ call.pc = "refresh"
      /\ GoodCall(incidents, next_id, h, call)
  BY DEF IInv, TypeOK, Procs, Refresh
<1>2. /\ call.loaded \in IncidentRow /\ call.op \in UpdateOps
      /\ call.id \in Ids
  BY <1>1 DEF GoodCall, GoodCopy
<1>3. CASE ~Stored(call.id)
  BY <1>1, <1>3, IdleGood, QuietStep DEF Refresh
<1>4. CASE Stored(call.id) /\ call.op = "AssignIncident"
  <2> DEFINE next == [call EXCEPT !.pc = "note"]
  <2>1. next \in Calls
    BY <1>1 DEF Calls, Pcs
  <2>2. /\ next.pc = "note" /\ next.id = call.id /\ next.op = call.op
        /\ next.loaded = call.loaded /\ next.pending = call.pending /\ next.todo = call.todo
    BY <1>1 DEF Calls
  <2>3. GoodCall(incidents, next_id, h, next)
    BY <1>1, <2>2 DEF GoodCall, EntryPcs
  <2>4. Become(h, next) /\ UNCHANGED <<tables, audit, clock, served>>
    BY <1>4 DEF Refresh
  <2> QED
    BY <1>1, <2>1, <2>3, <2>4, QuietStep
<1>5. CASE Stored(call.id) /\ call.op # "AssignIncident"
  <2>1. incidents[call.id] \in IncidentRow
    BY <1>5 DEF IInv, TypeOK, Stored
  <2>2. \A row \in IncidentRow :
          /\ Project(row, {"status"}) \in [status: Statuses]
          /\ Project(row, {"severity"}) \in [severity: Severities]
          /\ Project(row, {"details", "severity"}) \in [details: Details, severity: Severities]
    BY DEF Project, IncidentRow
  <2>3. columns \in {{"status"}, {"severity"}, {"details", "severity"}}
    BY <1>2, <1>5 DEF AuditedColumns, UpdateOps
  <2>4. before \in Snapshots /\ after \in Snapshots
    BY <1>2, <2>1, <2>2, <2>3 DEF Snapshots
  <2>5. AuditAction[call.op] \in AuditActions
    BY <1>2, <1>5 DEF AuditAction, AuditActions, UpdateOps
  <2>6. entry \in Entries
    BY <1>2, <2>4, <2>5 DEF Entry, Entries
  <2>7. /\ AuditIf(call, changed, entry) \in Calls
        /\ GoodCall(incidents, next_id, h, AuditIf(call, changed, entry))
    BY <1>1, <2>6, AuditIfGood
  <2>8. Become(h, AuditIf(call, changed, entry)) /\ UNCHANGED <<tables, audit, clock, served>>
    BY <1>5 DEF Refresh
  <2> QED
    BY <1>1, <2>7, <2>8, QuietStep
<1> QED
  BY <1>3, <1>4, <1>5

\* The note row of AssignIncident, which no foreign key ties to the incident.
LEMMA NoteInv ==
  ASSUME IInv, NEW h \in Handlers, Note(h)
  PROVE  IInv'
<1> DEFINE call == calls[h]
           before == call.loaded.assignee_user_id
           after == call.pending.assignee_user_id
           entry == Entry(AssignmentAction(before, after), call.id, before, after)
           next == AuditIf(call, before # after, entry)
<1>1. h \in Procs /\ call.pc = "note" /\ GoodCall(incidents, next_id, h, call)
  BY DEF IInv, Procs, Note
<1>2. /\ call.loaded \in IncidentRow /\ call.pending \in IncidentRow /\ call.id \in Ids
  BY <1>1 DEF GoodCall, GoodCopy
<1>3. before \in Users \cup {None} /\ after \in Users \cup {None}
  BY <1>2 DEF IncidentRow
<1>4. entry \in Entries
  BY <1>2, <1>3 DEF Entry, Entries, AssignmentAction, AuditActions, Snapshots
<1>5. next \in Calls /\ GoodCall(incidents, next_id, h, next)
  BY <1>1, <1>4, AuditIfGood
<1>6. /\ calls' = [calls EXCEPT ![h] = next]
      /\ updates' = [updates EXCEPT ![call.id] = updates[call.id] + 1]
      /\ UNCHANGED <<incidents, next_id, links, audit, clock, served>>
  BY DEF Note, Become
<1>7. /\ updates' \in [Ids -> Nat] /\ links' \subseteq Ids \X Changes
      /\ \A link \in links' : Stored(link[1])
      /\ audit' \in Seq(Entries) /\ clock' \in Nat /\ served' \in Nat
  BY <1>2, <1>6 DEF IInv, TypeOK, LinksPointToStored
<1> HIDE DEF next
<1> QED
  BY <1>1, <1>5, <1>6, <1>7, CallStep

\* The history row of AddIncidentUpdate, whether or not its incident still is.
LEMMA InsertUpdateInv ==
  ASSUME IInv, NEW h \in Handlers, InsertUpdate(h)
  PROVE  IInv'
<1> DEFINE next == [calls[h] EXCEPT !.pc = "audit"]
<1>1. h \in Procs /\ calls[h].pc = "insert_update"
  BY DEF Procs, InsertUpdate
<1>2. next \in Calls /\ GoodCall(incidents, next_id, h, next)
  BY <1>1, EntryMove DEF EntryPcs
<1>3. calls[h].id \in Ids
  BY <1>1 DEF IInv, GoodCall
<1>4. /\ calls' = [calls EXCEPT ![h] = next]
      /\ updates' = [updates EXCEPT ![calls[h].id] = updates[calls[h].id] + 1]
      /\ UNCHANGED <<incidents, next_id, links, audit, clock, served>>
  BY DEF InsertUpdate, Become
<1>5. /\ updates' \in [Ids -> Nat] /\ links' \subseteq Ids \X Changes
      /\ \A link \in links' : Stored(link[1])
      /\ audit' \in Seq(Entries) /\ clock' \in Nat /\ served' \in Nat
  BY <1>3, <1>4 DEF IInv, TypeOK, LinksPointToStored
<1> HIDE DEF next
<1> QED
  BY <1>1, <1>2, <1>4, <1>5, CallStep

\* The SELECT of a deletion finds the row or ends the request.
LEMMA SelectDeleteInv ==
  ASSUME IInv, NEW h \in Handlers, SelectDelete(h)
  PROVE  IInv'
<1> DEFINE next == [calls[h] EXCEPT !.pc = "delete"]
<1>1. h \in Procs /\ calls[h].pc = "select_delete"
  BY DEF Procs, SelectDelete
<1>2. next \in Calls /\ GoodCall(incidents, next_id, h, next)
  BY <1>1, EntryMove DEF EntryPcs
<1>3. /\ Become(h, next) \/ Become(h, Idle)
      /\ UNCHANGED <<tables, audit, clock, served>>
  BY DEF SelectDelete
<1> HIDE DEF next
<1> QED
  BY <1>1, <1>2, <1>3, IdleGood, QuietStep

\* A deletion that the foreign key allows leaves no link to the deleted row.
LEMMA DeleteInv ==
  ASSUME IInv, NEW h \in Handlers, Delete(h)
  PROVE  IInv'
<1> DEFINE next == [calls[h] EXCEPT !.pc = "audit"]
           rest == DOMAIN incidents \ {calls[h].id}
<1>1. h \in Procs /\ calls[h].pc = "delete"
  BY DEF Procs, Delete
<1>2. next \in Calls /\ \A rows : GoodCall(rows, next_id, h, next)
  BY <1>1, EntryMove DEF EntryPcs
<1>3. CASE ForeignKeyHolds(rest, links)
  <2>1. /\ incidents' = [i \in rest |-> incidents[i]]
        /\ calls' = [calls EXCEPT ![h] = next]
        /\ UNCHANGED <<next_id, updates, links, audit, clock, served>>
    BY <1>3 DEF Delete, Become
  <2>2. DOMAIN incidents' = rest /\ \A i \in rest : incidents'[i] = incidents[i]
    BY <2>1
  <2>3. \A i \in DOMAIN incidents : incidents[i] \in IncidentRow /\ StampsPresent(incidents[i])
    BY DEF IInv, TypeOK, SlaStampsPresent
  <2>4. incidents' \in [DOMAIN incidents' -> IncidentRow]
    BY <2>1, <2>2, <2>3
  <2>5. \A i \in DOMAIN incidents' :
          StampsPresent(incidents'[i]) /\ KeepsStamps(incidents[i], incidents'[i])
    BY <2>2, <2>3 DEF KeepsStamps
  <2>6. \A link \in links : link[1] \in DOMAIN incidents'
    BY <1>3, <2>2 DEF ForeignKeyHolds
  <2> HIDE DEF next
  <2> QED
    BY <1>1, <1>2, <2>1, <2>2, <2>4, <2>5, <2>6, TableStep
<1>4. CASE ~ForeignKeyHolds(rest, links)
  BY <1>1, <1>4, IdleGood, QuietStep DEF Delete, AfterRefusal, tables
<1> QED
  BY <1>3, <1>4

\* The link statements: a new link satisfies the foreign key, and taking one
\* away breaks nothing.
LEMMA LinkInv ==
  ASSUME IInv, NEW h \in Handlers, CheckLink(h) \/ InsertLink(h) \/ DeleteLink(h)
  PROVE  IInv'
<1> DEFINE moved(pc) == [calls[h] EXCEPT !.pc = pc]
<1>1. /\ h \in Procs
      /\ calls[h].pc \in {"check_link", "insert_link", "delete_link"}
      /\ calls[h] \in Calls /\ GoodCall(incidents, next_id, h, calls[h])
  BY DEF IInv, TypeOK, Procs, CheckLink, InsertLink, DeleteLink
<1>2. /\ moved("audit") \in Calls
      /\ GoodCall(incidents, next_id, h, moved("audit"))
  BY <1>1, EntryMove DEF EntryPcs
<1>3. /\ links \subseteq Ids \X Changes /\ \A link \in links : Stored(link[1])
      /\ updates \in [Ids -> Nat] /\ audit \in Seq(Entries)
      /\ clock \in Nat /\ served \in Nat
  BY DEF IInv, TypeOK, LinksPointToStored
<1>4. CASE CheckLink(h)
  <2>1. /\ moved("insert_link") \in Calls
        /\ GoodCall(incidents, next_id, h, moved("insert_link"))
    BY <1>4, EntryMove DEF EntryPcs, CheckLink
  <2>2. /\ Become(h, moved("insert_link")) \/ Become(h, Idle)
        /\ UNCHANGED <<tables, audit, clock, served>>
    BY <1>4 DEF CheckLink
  <2> HIDE DEF moved
  <2> QED
    BY <1>1, <2>1, <2>2, IdleGood, QuietStep
<1>5. CASE InsertLink(h)
  <2> DEFINE pair == <<calls[h].id, calls[h].entry.after>>
  <2>1. CASE LinkInsertable(pair)
    <3>1. /\ links' = links \cup {pair}
          /\ calls' = [calls EXCEPT ![h] = moved("audit")]
          /\ UNCHANGED <<incidents, next_id, updates, audit, clock, served>>
      BY <1>5, <2>1 DEF InsertLink, Become
    <3>2. pair \in Ids \X Changes
      BY <1>1, <1>5 DEF GoodCall, InsertLink
    <3>3. Stored(pair[1])
      BY <2>1 DEF LinkInsertable, ForeignKeyHolds, Stored
    <3> HIDE DEF moved, pair
    <3>4. links' \subseteq Ids \X Changes /\ \A link \in links' : Stored(link[1])
      BY <1>3, <3>1, <3>2, <3>3
    <3> QED
      BY <1>1, <1>2, <1>3, <3>1, <3>4, CallStep
  <2>2. CASE ~LinkInsertable(pair)
    BY <1>1, <1>5, <2>2, IdleGood, QuietStep DEF InsertLink, AfterRefusal, tables
  <2> QED
    BY <2>1, <2>2
<1>6. CASE DeleteLink(h)
  <2>1. /\ links' \subseteq links
        /\ calls' = [calls EXCEPT ![h] = moved("audit")]
        /\ UNCHANGED <<incidents, next_id, updates, audit, clock, served>>
    BY <1>6 DEF DeleteLink, Become
  <2> HIDE DEF moved
  <2>2. links' \subseteq Ids \X Changes /\ \A link \in links' : Stored(link[1])
    BY <1>3, <2>1
  <2> QED
    BY <1>1, <1>2, <1>3, <2>1, <2>2, CallStep
<1> QED
  BY <1>4, <1>5, <1>6

\* The audit call keeps the log well typed, and only the handlers that start a
\* task go on to do so.
LEMMA RecordAuditInv ==
  ASSUME IInv, NEW h \in Handlers, RecordAudit(h)
  PROVE  IInv'
<1> DEFINE next == IF calls[h].op \in DOMAIN Spawned
                   THEN Call("spawn", calls[h].op, calls[h].id, None)
                   ELSE Idle
<1>1. /\ h \in Procs /\ calls[h].pc = "audit" /\ calls[h] \in Calls
      /\ GoodCall(incidents, next_id, h, calls[h])
  BY DEF IInv, TypeOK, Procs, RecordAudit
<1>2. calls[h].id \in Ids /\ calls[h].id < next_id /\ calls[h].entry \in Entries
  BY <1>1 DEF GoodCall, EntryPcs
<1>3. next \in Calls /\ GoodCall(incidents, next_id, h, next)
  <2>1. CASE calls[h].op \in DOMAIN Spawned
    <3>1. << >> \in Seq(Assignments)
      OBVIOUS
    <3>2. Call("spawn", calls[h].op, calls[h].id, None) \in Calls
      BY <1>1, <3>1 DEF Call, Calls, Pcs
    <3>3. GoodCall(incidents, next_id, h, Call("spawn", calls[h].op, calls[h].id, None))
      BY <1>2, <2>1 DEF Call, GoodCall, EntryPcs
    <3> QED
      BY <2>1, <3>2, <3>3
  <2>2. CASE calls[h].op \notin DOMAIN Spawned
    BY <2>2, IdleGood
  <2> QED
    BY <2>1, <2>2
<1>4. /\ calls' = [calls EXCEPT ![h] = next]
      /\ audit' \in {audit, Append(audit, calls[h].entry)}
      /\ UNCHANGED <<incidents, next_id, updates, links, clock, served>>
  BY DEF RecordAudit, Become, tables
<1> HIDE DEF next
<1>5. audit' \in Seq(Entries)
  <2>1. \A log \in Seq(Entries), entry \in Entries : Append(log, entry) \in Seq(Entries)
    OBVIOUS
  <2>2. audit \in Seq(Entries)
    BY DEF IInv, TypeOK
  <2> QED
    BY <1>2, <1>4, <2>1, <2>2
<1>6. /\ updates' \in [Ids -> Nat] /\ links' \subseteq Ids \X Changes
      /\ \A link \in links' : Stored(link[1])
      /\ clock' \in Nat /\ served' \in Nat
  BY <1>4 DEF IInv, TypeOK, LinksPointToStored
<1> QED
  BY <1>1, <1>3, <1>4, <1>5, <1>6, CallStep
-----------------------------------------------------------------------------
(***************************************************************************)
(* Background tasks, the environment, and the theorems.                    *)
(***************************************************************************)

\* _fire_and_forget moves two processes, the handler and the task it starts.
LEMMA SpawnInv ==
  ASSUME IInv, NEW h \in Handlers, Spawn(h)
  PROVE  IInv'
<1>1. /\ h \in Procs /\ calls[h].pc = "spawn" /\ calls[h] \in Calls
      /\ GoodCall(incidents, next_id, h, calls[h])
  BY DEF IInv, TypeOK, Procs, Spawn
<1>2. calls[h].id \in Ids /\ calls[h].id < next_id /\ calls[h].op \in DOMAIN Spawned
  BY <1>1 DEF GoodCall
<1> DEFINE task == Call("infer", Spawned[calls[h].op], calls[h].id, None)
<1>3. task \in Calls /\ \A t : GoodCall(incidents, next_id, t, task)
  <2>1. << >> \in Seq(Assignments)
    OBVIOUS
  <2>2. Spawned[calls[h].op] \in TaskOps
    BY <1>2 DEF Spawned, TaskOps
  <2>3. task \in Calls
    BY <1>1, <2>1, <2>2 DEF Call, Calls, Pcs
  <2>4. \A t : GoodCall(incidents, next_id, t, task)
    BY <1>2 DEF Call, GoodCall, EntryPcs
  <2> QED
    BY <2>3, <2>4
<1> HIDE DEF task
<1>4. PICK t \in Tasks : calls' = [calls EXCEPT ![h] = Idle, ![t] = task]
  BY DEF Spawn, task
<1>5. UNCHANGED <<incidents, next_id, updates, links, audit, clock, served>>
  BY DEF Spawn, tables
<1>6. \A q \in Procs : calls'[q] \in {calls[q], Idle, task}
  BY <1>4 DEF IInv, TypeOK
<1>7. calls' \in [Procs -> Calls]
  BY <1>3, <1>4, IdleGood DEF IInv, TypeOK
<1>8. TypeOK'
  BY <1>5, <1>7 DEF IInv, TypeOK
<1>9. LinksPointToStored' /\ SlaStampsPresent'
  BY <1>5 DEF IInv, LinksPointToStored, SlaStampsPresent, Stored
<1>10. \A q \in Procs : GoodCall(incidents, next_id, q, calls'[q])
  BY <1>3, <1>6, IdleGood DEF IInv
<1> QED
  BY <1>5, <1>8, <1>9, <1>10 DEF IInv

\* A task that has its answers goes on to store them, and never a status.
LEMMA TaskCallGood ==
  ASSUME IInv, NEW t \in Tasks, calls[t].pc = "infer", NEW todo \in Seq(Assignments),
         todo # << >>, \A k \in DOMAIN todo : "status" \notin DOMAIN todo[k]
  PROVE  /\ [calls[t] EXCEPT !.pc = "select", !.todo = todo] \in Calls
         /\ GoodCall(incidents, next_id, t, [calls[t] EXCEPT !.pc = "select", !.todo = todo])
<1> DEFINE next == [calls[t] EXCEPT !.pc = "select", !.todo = todo]
<1>1. t \notin Handlers /\ t \in Procs
  BY ProcsAssumption DEF Procs
<1>2. calls[t] \in Calls /\ GoodCall(incidents, next_id, t, calls[t])
  BY <1>1 DEF IInv, TypeOK
<1>3. next \in Calls
  BY <1>2 DEF Calls, Pcs
<1>4. /\ next.pc = "select" /\ next.id = calls[t].id
      /\ next.todo = todo /\ next.loaded = calls[t].loaded
  BY <1>2 DEF Calls
<1>5. GoodCall(incidents, next_id, t, next)
  BY <1>1, <1>2, <1>4 DEF GoodCall, MayAssign, EntryPcs
<1> QED
  BY <1>3, <1>5

\* What the two tasks write: suggestions and the summary.
LEMMA TaskInv ==
  ASSUME IInv, NEW t \in Tasks, TaskStep(t)
  PROVE  IInv'
<1> DEFINE Unstatus(todo) == /\ todo \in Seq(Assignments) /\ todo # << >>
                             /\ \A k \in DOMAIN todo : "status" \notin DOMAIN todo[k]
           next(todo) == [calls[t] EXCEPT !.pc = "select", !.todo = todo]
<1>1. t \in Procs /\ calls[t].pc = "infer"
  BY DEF Procs, TaskStep, InferSummary, InferStatus
<1>2. ASSUME NEW todo, Unstatus(todo), Become(t, next(todo)),
             UNCHANGED <<tables, audit, clock, served>>
      PROVE  IInv'
  BY <1>1, <1>2, TaskCallGood, QuietStep
<1>3. ASSUME NEW first \in Assignments, "status" \notin DOMAIN first
      PROVE  /\ Unstatus(<<first>>)
             /\ \A second \in Assignments : "status" \notin DOMAIN second =>
                  Unstatus(<<first, second>>)
  BY <1>3
<1>4. CASE InferSummary(t)
  <2>1. PICK severity \in SeverityAnswers, summary \in SummaryAnswers :
          Become(t, next(SummaryCalls(severity, summary)))
    BY <1>4 DEF InferSummary
  <2> DEFINE suggest == [ai_suggested_severity |-> severity]
             store == IF summary = None THEN [ai_summary_status |-> "failed"]
                      ELSE [ai_summary |-> summary, ai_summary_status |-> "ready"]
  <2>2. severity # None => suggest \in Assignments /\ "status" \notin DOMAIN suggest
    BY AnswersAssumption DEF Assignments
  <2>3. store \in Assignments /\ "status" \notin DOMAIN store
    BY AnswersAssumption DEF Assignments
  <2>4. SummaryCalls(severity, summary) =
          IF severity = None THEN <<store>> ELSE <<suggest, store>>
    BY DEF SummaryCalls
  <2> HIDE DEF suggest, store
  <2>5. Unstatus(SummaryCalls(severity, summary))
    BY <1>3, <2>2, <2>3, <2>4
  <2> QED
    BY <1>2, <1>4, <2>1, <2>5 DEF InferSummary
<1>5. CASE InferStatus(t)
  <2>1. PICK status \in StatusAnswers :
          Become(t, IF status = None THEN Idle
                    ELSE next(<< [ai_suggested_status |-> status] >>))
    BY <1>5 DEF InferStatus
  <2>2. CASE status = None
    BY <1>1, <1>5, <2>1, <2>2, IdleGood, QuietStep DEF InferStatus
  <2>3. CASE status # None
    <3> DEFINE suggest == [ai_suggested_status |-> status]
    <3>1. suggest \in Assignments /\ "status" \notin DOMAIN suggest
      BY <2>3, AnswersAssumption DEF Assignments
    <3>2. Become(t, next(<<suggest>>))
      BY <2>1, <2>3
    <3> HIDE DEF suggest
    <3>3. Unstatus(<<suggest>>)
      BY <1>3, <3>1
    <3> QED
      BY <1>2, <1>5, <3>2, <3>3 DEF InferStatus
  <2> QED
    BY <2>2, <2>3
<1> QED
  BY <1>4, <1>5 DEF TaskStep

\* The backfill script starts the summary task for a stored row.
LEMMA BackfillInv ==
  ASSUME IInv, NEW t \in Tasks, NEW i \in Ids, Backfill(t, i)
  PROVE  IInv'
<1> DEFINE task == Call("infer", "_generate_and_store_summary", i, None)
<1>1. t \in Procs /\ i < next_id
  BY DEF Procs, Backfill, Stored, IInv, TypeOK
<1>2. task \in Calls
  <2>1. << >> \in Seq(Assignments) /\ i \in Nat
    BY DEF Ids
  <2> QED
    BY <2>1 DEF Call, Calls, Pcs, TaskOps
<1>3. GoodCall(incidents, next_id, t, task)
  BY <1>1 DEF Call, GoodCall, EntryPcs
<1>4. /\ calls' = [calls EXCEPT ![t] = task] /\ served' = served + 1
      /\ UNCHANGED <<incidents, next_id, updates, links, audit, clock>>
  BY DEF Backfill, Enter, tables
<1> HIDE DEF task
<1>5. /\ updates' \in [Ids -> Nat] /\ links' \subseteq Ids \X Changes
      /\ \A link \in links' : Stored(link[1])
      /\ audit' \in Seq(Entries) /\ clock' \in Nat /\ served' \in Nat
  BY <1>4 DEF IInv, TypeOK, LinksPointToStored
<1> QED
  BY <1>1, <1>2, <1>3, <1>4, <1>5, CallStep

\* A crash forgets calls, a tick changes the clock, and neither touches a table.
LEMMA EnvironmentInv ==
  ASSUME IInv, Tick \/ (\E r \in Replicas : Crash(r)) \/ UNCHANGED vars
  PROVE  IInv'
<1>1. /\ UNCHANGED <<incidents, next_id, updates, links, audit, served>>
      /\ clock' \in {clock, clock + 1}
  BY DEF Tick, Crash, vars, tables
<1>2. /\ calls' = [p \in Procs |-> calls'[p]]
      /\ \A p \in Procs : calls'[p] \in {calls[p], Idle}
  BY DEF Tick, Crash, vars, tables, IInv, TypeOK
<1>3. \A p \in Procs : calls[p] \in Calls /\ GoodCall(incidents, next_id, p, calls[p])
  BY DEF IInv, TypeOK
<1>4. \A p \in Procs : calls'[p] \in Calls /\ GoodCall(incidents, next_id, p, calls'[p])
  BY <1>2, <1>3, IdleGood
<1>5. calls' \in [Procs -> Calls]
  BY <1>2, <1>4
<1>6. TypeOK'
  BY <1>1, <1>5 DEF IInv, TypeOK
<1>7. LinksPointToStored' /\ SlaStampsPresent'
  BY <1>1 DEF IInv, LinksPointToStored, SlaStampsPresent, Stored
<1> QED
  BY <1>1, <1>4, <1>6, <1>7 DEF IInv

\* IInv is inductive: it holds at the start ...
LEMMA InitInv == Init => IInv
<1> SUFFICES ASSUME Init PROVE IInv
  OBVIOUS
<1>1. DOMAIN incidents = {} /\ incidents \in [DOMAIN incidents -> IncidentRow]
  BY DEF Init
<1>2. audit \in Seq(Entries) /\ updates \in [Ids -> Nat]
  BY DEF Init
<1>3. next_id \in 1..(MaxIncidents + 1)
  BY BoundsAssumption DEF Init
<1>4. calls \in [Procs -> Calls] /\ \A p \in Procs : calls[p] = Idle
  BY IdleGood DEF Init
<1>5. TypeOK
  BY <1>1, <1>2, <1>3, <1>4 DEF Init, TypeOK
<1>6. LinksPointToStored /\ SlaStampsPresent
  BY <1>1 DEF Init, LinksPointToStored, SlaStampsPresent
<1> QED
  BY <1>4, <1>5, <1>6, IdleGood DEF IInv

\* ... and every step keeps it.
LEMMA NextInv == IInv /\ [Next]_vars => IInv'
<1> SUFFICES ASSUME IInv, [Next]_vars PROVE IInv'
  OBVIOUS
<1>1. ASSUME NEW h \in Handlers, Request(h) PROVE IInv'
  <2>1. CASE \E d \in Details, s \in SeverityInputs : CreateIncident(h, d, s)
    BY <2>1, CreateInv
  <2>2. ASSUME NEW i \in Ids,
               \/ \E d \in Details, s \in SeverityInputs : UpdateIncident(h, i, d, s)
               \/ \E s \in StatusInputs : UpdateIncidentStatus(h, i, s)
               \/ \E s \in SeverityInputs : UpdateIncidentSeverity(h, i, s)
               \/ \E u \in Users \cup {None} : AssignIncident(h, i, u)
               \/ AcceptSuggestedSeverity(h, i)
               \/ AcceptSuggestedStatus(h, i)
        PROVE  IInv'
    BY <2>2, UpdateRequestInv
  <2>3. ASSUME NEW i \in Ids,
               \/ \E c \in Changes : LinkChange(h, i, c) \/ UnlinkChange(h, i, c)
               \/ AddIncidentUpdate(h, i)
               \/ DeleteIncident(h, i)
        PROVE  IInv'
    BY <2>3, EntryRequestInv
  <2> QED
    BY <1>1, <2>1, <2>2, <2>3 DEF Request
<1>2. ASSUME NEW h \in Handlers, HandlerStep(h) PROVE IInv'
  BY <1>2, RefreshInv, NoteInv, InsertUpdateInv, SelectDeleteInv, DeleteInv, LinkInv,
     RecordAuditInv, SpawnInv DEF HandlerStep
<1>3. ASSUME NEW t \in Tasks, TaskStep(t) \/ \E i \in Ids : Backfill(t, i) PROVE IInv'
  BY <1>3, TaskInv, BackfillInv
<1>4. ASSUME NEW p \in Procs, RepositoryStep(p) PROVE IInv'
  BY <1>4, RepositoryInv
<1>5. CASE Tick \/ (\E r \in Replicas : Crash(r)) \/ UNCHANGED vars
  BY <1>5, EnvironmentInv
<1> QED
  BY <1>1, <1>2, <1>3, <1>4, <1>5 DEF Next

\* In every reachable state, IInv.
LEMMA Inductive == Spec => []IInv
<1>1. Init => IInv
  BY InitInv
<1>2. IInv /\ [Next]_vars => IInv'
  BY NextInv
<1> QED
  BY <1>1, <1>2, PTL DEF Spec

\* Every table, the audit log and every session stay well typed.
THEOREM TypeCorrect == Spec => []TypeOK
<1>1. IInv => TypeOK
  BY DEF IInv
<1> QED
  BY <1>1, Inductive, PTL

\* No incident is past "open" without its response stamp, or resolved or closed
\* without both, whatever stale copies the sessions work on and whichever
\* replicas crash: _apply_sla_timestamps and the flush keep compute_sla safe.
THEOREM StampsCorrect == Spec => []SlaStampsPresent
<1>1. IInv => SlaStampsPresent
  BY DEF IInv
<1> QED
  BY <1>1, Inductive, PTL

\* No link outlives its incident, although LinkChange looks the incident up
\* before it inserts the link, and DeleteIncident may come in between.
THEOREM LinksCorrect == Spec => []LinksPointToStored
<1>1. IInv => LinksPointToStored
  BY DEF IInv
<1> QED
  BY <1>1, Inductive, PTL
-----------------------------------------------------------------------------
(***************************************************************************)
(* Discipline: what every call observes, as a matter of the call alone.    *)
(* OwnStep says once that a call changes only by a step of its own, so     *)
(* that one lemma per kind of step is all it takes.                        *)
(***************************************************************************)

\* A step of one process leaves the calls of the others alone.
LEMMA OthersStay ==
  ASSUME IInv, NEW p, NEW q \in Procs, q # p,
         \/ Request(p) \/ TaskStep(p) \/ RepositoryStep(p)
         \/ HandlerStep(p) /\ ~Spawn(p)
         \/ \E i \in Ids : Backfill(p, i)
  PROVE  calls'[q] = calls[q]
<1> SUFFICES \E call : calls' = [calls EXCEPT ![p] = call]
  BY DEF IInv, TypeOK
<1>1. CASE Request(p)
  BY <1>1 DEF Request, Enter, CreateIncident, UpdateIncident, UpdateIncidentStatus,
     UpdateIncidentSeverity, AcceptSuggestedSeverity, AcceptSuggestedStatus, AssignIncident,
     AddIncidentUpdate, DeleteIncident, LinkChange, UnlinkChange
<1>2. CASE TaskStep(p)
  BY <1>2 DEF TaskStep, InferSummary, InferStatus, Become
<1>3. CASE RepositoryStep(p)
  BY <1>3 DEF RepositoryStep, Select, Commit, CommitFails, Become
<1>4. CASE HandlerStep(p) /\ ~Spawn(p)
  BY <1>4 DEF HandlerStep, Refresh, Note, InsertUpdate, SelectDelete, Delete, CheckLink,
     InsertLink, DeleteLink, RecordAudit, Become
<1>5. CASE \E i \in Ids : Backfill(p, i)
  BY <1>5 DEF Backfill, Enter
<1> QED
  BY <1>1, <1>2, <1>3, <1>4, <1>5

\* What moves a call: a step of its own process, or the handler that starts a task.
LEMMA OwnStep ==
  ASSUME IInv, [Next]_vars, NEW p \in Procs
  PROVE  \/ calls'[p] \in {calls[p], Idle}
         \/ p \in Handlers /\ (Request(p) \/ (HandlerStep(p) /\ ~Spawn(p)))
         \/ p \in Tasks /\ (TaskStep(p) \/ \E i \in Ids : Backfill(p, i))
         \/ RepositoryStep(p)
         \/ \E h \in Handlers :
              /\ Spawn(h) /\ p \in Tasks
              /\ calls'[p] = Call("infer", Spawned[calls[h].op], calls[h].id, None)
<1>1. CASE \E h \in Handlers : Request(h) \/ (HandlerStep(h) /\ ~Spawn(h))
  BY <1>1, OthersStay
<1>2. CASE \E t \in Tasks : TaskStep(t) \/ \E i \in Ids : Backfill(t, i)
  BY <1>2, OthersStay
<1>3. CASE \E q \in Procs : RepositoryStep(q)
  BY <1>3, OthersStay
<1>4. ASSUME NEW h \in Handlers, Spawn(h)
      PROVE  \/ calls'[p] \in {calls[p], Idle}
             \/ /\ p \in Tasks
                /\ calls'[p] = Call("infer", Spawned[calls[h].op], calls[h].id, None)
  <2> DEFINE task == Call("infer", Spawned[calls[h].op], calls[h].id, None)
  <2>1. PICK t \in Tasks : calls' = [calls EXCEPT ![h] = Idle, ![t] = task]
    BY <1>4 DEF Spawn
  <2> HIDE DEF task
  <2>2. calls'[p] = IF p = t THEN task ELSE IF p = h THEN Idle ELSE calls[p]
    BY <2>1 DEF IInv, TypeOK
  <2> QED
    BY <2>2 DEF task
<1>5. CASE Tick \/ (\E r \in Replicas : Crash(r)) \/ UNCHANGED vars
  BY <1>5 DEF Tick, Crash, vars
<1> QED
  BY <1>1, <1>2, <1>3, <1>4, <1>5 DEF Next, HandlerStep

\* A call at none of the statements that Disciplined speaks of.
LEMMA QuietDisciplined ==
  ASSUME NEW p, NEW call,
         call.pc # "idle" => call.op \in IF p \in Handlers THEN Serves[p] ELSE TaskOps,
         call.pc \notin EntryPcs \cup {"select", "commit", "note"}
  PROVE  Disciplined(p, call)
BY DEF Disciplined

\* The assignments of one call of a session, and what the columns they touch are.
LEMMA AssignDiscipline ==
  ASSUME NEW row \in IncidentRow, NEW columns \in Assignments, NEW now \in Nat,
         StampsPresent(row),
         "status" \in DOMAIN columns => ValidTransition(row.status, columns.status)
  PROVE  /\ DirtyColumns(row, Assign(row, columns, now)) \subseteq Written(columns)
         /\ ResponseFirst(row, Assign(row, columns, now))
         /\ StepsForward(row, Assign(row, columns, now))
<1>1. CASE "status" \in DOMAIN columns
  <2>1. columns \in [status: Statuses]
    BY <1>1 DEF Assignments
  <2>2. Lower(columns.status) = columns.status
    BY <2>1 DEF Statuses, Lower, LowerCase
  <2>3. columns.status = row.status \/ columns.status \in AllowedTransitions[row.status]
    BY <1>1, <2>2 DEF ValidTransition
  <2>4. \/ columns.status = row.status
        \/ row.status = "open" /\ columns.status = "in_progress"
        \/ row.status = "in_progress" /\ columns.status = "resolved"
        \/ row.status = "resolved" /\ columns.status = "closed"
    BY <2>3 DEF AllowedTransitions, IncidentRow, Statuses
  <2>5. Overlay(row, columns) = [row EXCEPT !.status = columns.status]
    BY <2>1 DEF Overlay, IncidentRow
  <2> DEFINE new == Assign(row, columns, now)
  <2>6. new = ApplySlaTimestamps([row EXCEPT !.status = columns.status], columns.status, now)
    BY <1>1, <2>5 DEF Assign
  <2>7. /\ new.status = columns.status
        /\ new.resolved_at # row.resolved_at => columns.status = "resolved" /\ row.resolved_at = None
        /\ \A c \in DOMAIN row \ {"status", "first_response_at", "resolved_at"} : new[c] = row[c]
    BY <2>6 DEF ApplySlaTimestamps, IncidentRow
  <2> HIDE DEF new
  <2>8. DirtyColumns(row, new) \subseteq Written(columns)
    BY <1>1, <2>7 DEF DirtyColumns, Written
  <2>9. StepsForward(row, new)
    BY <2>3, <2>7 DEF StepsForward
  <2>10. ResponseFirst(row, new)
    BY <2>4, <2>7 DEF ResponseFirst, StampsPresent
  <2> QED
    BY <2>8, <2>9, <2>10 DEF new
<1>2. CASE "status" \notin DOMAIN columns
  <2>1. Assign(row, columns, now) = Overlay(row, columns)
    BY <1>2 DEF Assign
  <2>2. \A c \in DOMAIN row : Overlay(row, columns)[c] # row[c] => c \in DOMAIN columns
    BY DEF Overlay
  <2>3. /\ "status" \in DOMAIN row /\ "resolved_at" \in DOMAIN row
        /\ "resolved_at" \notin DOMAIN columns
    BY DEF IncidentRow, Assignments
  <2> QED
    BY <1>2, <2>1, <2>2, <2>3 DEF DirtyColumns, Written, ResponseFirst, StepsForward
<1> QED
  BY <1>1, <1>2

\* Where the statements of a session lead a call that keeps to its columns.
LEMMA RepositoryDisciplined ==
  ASSUME IInv, Discipline, NEW p \in Procs, RepositoryStep(p)
  PROVE  Disciplined(p, calls'[p])
<1> DEFINE call == calls[p]
<1>1. /\ call \in Calls /\ GoodCall(incidents, next_id, p, call) /\ Disciplined(p, call)
      /\ \A next : Become(p, next) => calls'[p] = next
  BY DEF IInv, TypeOK, Discipline, Become
<1>2. Disciplined(p, Idle)
  BY QuietDisciplined DEF Idle, Call, EntryPcs
<1>3. ASSUME call.pc \in {"select", "commit"}, call.todo # << >>,
             NEW next, next.pc = "select", next.op = call.op, next.todo = Tail(call.todo)
      PROVE  Disciplined(p, next)
  <2>1. \A k \in DOMAIN Tail(call.todo) : Written(Tail(call.todo)[k]) \subseteq Owned[call.op]
    BY <1>1, <1>3, TailOfTodo DEF Disciplined, Calls
  <2> QED
    BY <1>1, <1>3, <2>1 DEF Disciplined, EntryPcs
<1>4. CASE Select(p)
  <2> DEFINE row == IF call.loaded = None THEN incidents[call.id] ELSE call.loaded
             columns == Head(call.todo)
             pending == Assign(row, columns, clock)
             chosen == [call EXCEPT !.pc = "commit", !.loaded = row, !.pending = pending]
  <2>1. /\ call.pc = "select" /\ call.todo \in Seq(Assignments) /\ call.todo # << >>
        /\ MayAssign(p, call) /\ clock \in Nat
    BY <1>1, <1>4 DEF Select, GoodCall, MayAssign, Calls, IInv, TypeOK
  <2>2. columns \in Assignments /\ columns = call.todo[1] /\ 1 \in DOMAIN call.todo
    BY <2>1
  <2>3. CASE Stored(call.id)
    <3>1. row \in IncidentRow /\ StampsPresent(row)
      BY <1>1, <2>1, <2>3 DEF GoodCall, GoodCopy, IInv, TypeOK, SlaStampsPresent, Stored
    <3>2. "status" \in DOMAIN columns => ValidTransition(row.status, columns.status)
      BY <1>1, <2>1, <2>2, NoRowAssumption, ProcsAssumption
      DEF Procs, MayAssign, GoodCall, GoodCopy
    <3>3. /\ DirtyColumns(row, pending) \subseteq Written(columns)
          /\ ResponseFirst(row, pending) /\ StepsForward(row, pending)
      BY <2>1, <2>2, <3>1, <3>2, AssignDiscipline
    <3>4. calls'[p] = chosen
      BY <1>1, <1>4, <2>3 DEF Select
    <3> HIDE DEF row, pending, columns
    <3>5. /\ chosen.pc = "commit" /\ chosen.op = call.op /\ chosen.todo = call.todo
          /\ chosen.loaded = row /\ chosen.pending = pending
      BY <1>1 DEF Calls
    <3> HIDE DEF chosen
    <3>6. \A k \in DOMAIN call.todo : Written(call.todo[k]) \subseteq Owned[call.op]
      BY <1>1, <2>1 DEF Disciplined
    <3>7. /\ Written(columns) \subseteq Owned[call.op]
          /\ call.op \in IF p \in Handlers THEN Serves[p] ELSE TaskOps
      BY <1>1, <2>1, <2>2, <3>6 DEF Disciplined
    <3> QED
      BY <3>3, <3>4, <3>5, <3>6, <3>7 DEF Disciplined, EntryPcs
  <2>4. CASE ~Stored(call.id)
    <3>1. calls'[p] = AfterNothing(p)
      BY <1>1, <1>4, <2>4 DEF Select
    <3>2. AfterNothing(p) # Idle => /\ AfterNothing(p).pc = "select"
                                    /\ AfterNothing(p).op = call.op
                                    /\ AfterNothing(p).todo = Tail(call.todo)
      BY <1>1, <2>1 DEF AfterNothing, Calls
    <3> QED
      BY <1>2, <1>3, <2>1, <3>1, <3>2
  <2> QED
    BY <2>3, <2>4
<1>5. CASE Commit(p)
  <2>1. call.pc = "commit" /\ calls'[p] = AfterCommit(p)
    BY <1>1, <1>5 DEF Commit
  <2>2. CASE p \in Handlers
    <3>1. AfterCommit(p).pc = "refresh" /\ AfterCommit(p).op = call.op
      BY <1>1, <2>2 DEF AfterCommit, Calls
    <3> QED
      BY <1>1, <2>1, <3>1, QuietDisciplined DEF Disciplined, EntryPcs
  <2>3. CASE p \notin Handlers /\ Len(call.todo) > 1
    <3>1. /\ AfterCommit(p).pc = "select" /\ AfterCommit(p).op = call.op
          /\ AfterCommit(p).todo = Tail(call.todo)
      BY <1>1, <2>3 DEF AfterCommit, Calls
    <3>2. call.todo # << >>
      BY <2>3
    <3> QED
      BY <1>3, <2>1, <3>1, <3>2
  <2>4. CASE p \notin Handlers /\ ~(Len(call.todo) > 1)
    BY <1>2, <2>1, <2>4 DEF AfterCommit
  <2> QED
    BY <2>2, <2>3, <2>4
<1>6. CASE CommitFails(p)
  BY <1>1, <1>2, <1>6 DEF CommitFails
<1> QED
  BY <1>4, <1>5, <1>6 DEF RepositoryStep

\* A request that will assign columns assigns those that its operation owns.
LEMMA UpdateDisciplined ==
  ASSUME NEW h \in Handlers, NEW op \in Serves[h], NEW i, NEW columns,
         Written(columns) \subseteq Owned[op]
  PROVE  Disciplined(h, Update(op, i, columns))
<1>1. \A k \in DOMAIN <<columns>> : <<columns>>[k] = columns
  OBVIOUS
<1> QED
  BY <1>1 DEF Update, Disciplined, EntryPcs

\* The others start with an entry about the incident they were sent for.
LEMMA EntryDisciplined ==
  ASSUME NEW h \in Handlers, NEW op \in Serves[h], NEW i, NEW pc \in EntryPcs, NEW entry,
         entry.incident = i,
         pc \in DOMAIN ActionAt => entry.action = ActionAt[pc],
         IsLinkEntry(entry) => \E c \in Changes : Linked(entry, c) \/ Unlinked(entry, c),
         IsStatusChange(entry) <=> op \in StatusOps
  PROVE  Disciplined(h, Call(pc, op, i, entry))
BY DEF Call, Disciplined, EntryFits, EntryPcs

\* Every request starts as it should.
LEMMA RequestDisciplined ==
  ASSUME IInv, NEW h \in Handlers, Request(h)
  PROVE  Disciplined(h, calls'[h])
<1>1. \A call : Enter(h, call) => calls'[h] = call
  BY DEF IInv, TypeOK, Procs, Enter
<1>2. \A columns : /\ DOMAIN columns = {"status"} =>
                        Written(columns) = {"status", "first_response_at", "resolved_at"}
                   /\ "status" \notin DOMAIN columns => Written(columns) = DOMAIN columns
  BY DEF Written
<1>3. CASE \E d \in Details, s \in SeverityInputs : CreateIncident(h, d, s)
  <2>1. PICK snapshot : /\ calls'[h] = Call("audit", "CreateIncident", next_id,
                               Entry("incident.created", next_id, None, snapshot))
                        /\ "CreateIncident" \in Serves[h]
    BY <1>1, <1>3 DEF CreateIncident, Ready
  <2> QED
    BY <2>1, EntryDisciplined
    DEF Entry, EntryPcs, ActionAt, IsLinkEntry, IsStatusChange, StatusOps
<1>4. ASSUME NEW i \in Ids,
             \/ \E d \in Details, s \in SeverityInputs : UpdateIncident(h, i, d, s)
             \/ \E s \in StatusInputs : UpdateIncidentStatus(h, i, s)
             \/ \E s \in SeverityInputs : UpdateIncidentSeverity(h, i, s)
             \/ \E u \in Users \cup {None} : AssignIncident(h, i, u)
             \/ AcceptSuggestedSeverity(h, i)
             \/ AcceptSuggestedStatus(h, i)
      PROVE  Disciplined(h, calls'[h])
  <2>1. CASE \E d \in Details, s \in SeverityInputs : UpdateIncident(h, i, d, s)
    <3>1. PICK d, s : calls'[h] = Update("UpdateIncident", i, [details |-> d, severity |-> s])
      BY <1>1, <2>1 DEF UpdateIncident
    <3>2. "UpdateIncident" \in Serves[h]
      BY <2>1 DEF UpdateIncident, Ready
    <3> QED
      BY <1>2, <3>1, <3>2, UpdateDisciplined DEF Owned
  <2>2. CASE \/ \E s \in StatusInputs : UpdateIncidentStatus(h, i, s)
             \/ AcceptSuggestedStatus(h, i)
    <3>1. PICK op \in StatusOps \cap Serves[h] : \E s : calls'[h] = Update(op, i, [status |-> s])
      BY <1>1, <2>2 DEF UpdateIncidentStatus, AcceptSuggestedStatus, Ready, StatusOps
    <3> QED
      BY <1>2, <3>1, UpdateDisciplined DEF Owned, StatusOps
  <2>3. CASE \/ \E s \in SeverityInputs : UpdateIncidentSeverity(h, i, s)
             \/ AcceptSuggestedSeverity(h, i)
    <3> DEFINE ops == {"UpdateIncidentSeverity", "AcceptSuggestedSeverity"}
    <3>1. PICK op \in ops \cap Serves[h] : \E s : calls'[h] = Update(op, i, [severity |-> s])
      BY <1>1, <2>3 DEF UpdateIncidentSeverity, AcceptSuggestedSeverity, Ready
    <3> QED
      BY <1>2, <3>1, UpdateDisciplined DEF Owned
  <2>4. CASE \E u \in Users \cup {None} : AssignIncident(h, i, u)
    <3>1. PICK u : calls'[h] = Update("AssignIncident", i, [assignee_user_id |-> u])
      BY <1>1, <2>4 DEF AssignIncident
    <3>2. "AssignIncident" \in Serves[h]
      BY <2>4 DEF AssignIncident, Ready
    <3> QED
      BY <1>2, <3>1, <3>2, UpdateDisciplined DEF Owned
  <2> QED
    BY <1>4, <2>1, <2>2, <2>3, <2>4
<1>5. ASSUME NEW i \in Ids, NEW c \in Changes, LinkChange(h, i, c) \/ UnlinkChange(h, i, c)
      PROVE  Disciplined(h, calls'[h])
  <2>1. CASE LinkChange(h, i, c)
    <3>1. /\ calls'[h] = Call("check_link", "LinkChange", i,
                              Entry("incident.change_linked", i, None, c))
          /\ "LinkChange" \in Serves[h]
      BY <1>1, <2>1 DEF LinkChange, Ready
    <3>2. Linked(Entry("incident.change_linked", i, None, c), c)
      BY DEF Linked, Entry
    <3> QED
      BY <3>1, <3>2, EntryDisciplined DEF Entry, EntryPcs, ActionAt, IsStatusChange, StatusOps
  <2>2. CASE UnlinkChange(h, i, c)
    <3>1. /\ calls'[h] = Call("delete_link", "UnlinkChange", i,
                              Entry("incident.change_unlinked", i, c, None))
          /\ "UnlinkChange" \in Serves[h]
      BY <1>1, <2>2 DEF UnlinkChange, Ready
    <3>2. Unlinked(Entry("incident.change_unlinked", i, c, None), c)
      BY DEF Unlinked, Entry
    <3> QED
      BY <3>1, <3>2, EntryDisciplined DEF Entry, EntryPcs, ActionAt, IsStatusChange, StatusOps
  <2> QED
    BY <1>5, <2>1, <2>2
<1>6. ASSUME NEW i \in Ids, AddIncidentUpdate(h, i) PROVE Disciplined(h, calls'[h])
  <2>1. /\ calls'[h] = Call("insert_update", "AddIncidentUpdate", i,
                            Entry("incident.update_added", i, None, None))
        /\ "AddIncidentUpdate" \in Serves[h]
    BY <1>1, <1>6 DEF AddIncidentUpdate, Ready
  <2> QED
    BY <2>1, EntryDisciplined
    DEF Entry, EntryPcs, ActionAt, IsLinkEntry, IsStatusChange, StatusOps
<1>7. ASSUME NEW i \in Ids, DeleteIncident(h, i) PROVE Disciplined(h, calls'[h])
  <2>1. PICK snapshot : /\ calls'[h] = Call("select_delete", "DeleteIncident", i,
                               Entry("incident.deleted", i, snapshot, None))
                        /\ "DeleteIncident" \in Serves[h]
    BY <1>1, <1>7 DEF DeleteIncident, Ready
  <2> QED
    BY <2>1, EntryDisciplined
    DEF Entry, EntryPcs, ActionAt, IsLinkEntry, IsStatusChange, StatusOps
<1> QED
  BY <1>3, <1>4, <1>5, <1>6, <1>7 DEF Request

\* So does what a handler does on its own.
LEMMA HandlerDisciplined ==
  ASSUME IInv, Discipline, NEW h \in Handlers, HandlerStep(h), ~Spawn(h)
  PROVE  Disciplined(h, calls'[h])
<1> DEFINE call == calls[h]
<1>1. /\ call \in Calls /\ GoodCall(incidents, next_id, h, call) /\ Disciplined(h, call)
      /\ \A next : Become(h, next) => calls'[h] = next
  BY DEF IInv, TypeOK, Discipline, Procs, Become
<1>2. Disciplined(h, Idle)
  BY QuietDisciplined DEF Idle, Call, EntryPcs
<1>3. ASSUME call.pc \in EntryPcs, NEW pc \in EntryPcs,
             pc \in DOMAIN ActionAt => ActionAt[pc] = ActionAt[call.pc] /\ call.pc \in DOMAIN ActionAt
      PROVE  Disciplined(h, [call EXCEPT !.pc = pc])
  <2> DEFINE next == [call EXCEPT !.pc = pc]
  <2>1. next.pc = pc /\ next.op = call.op /\ next.entry = call.entry /\ next.id = call.id
    BY <1>1 DEF Calls
  <2>2. EntryFits(call) /\ call.op \in Serves[h]
    BY <1>1, <1>3 DEF Disciplined, EntryPcs
  <2>3. EntryFits(next)
    BY <1>3, <2>1, <2>2 DEF EntryFits
  <2>4. next.pc \notin {"idle", "select", "commit", "note"}
    BY <2>1 DEF EntryPcs
  <2> HIDE DEF next
  <2>5. Disciplined(h, next)
    BY <2>1, <2>2, <2>3, <2>4 DEF Disciplined
  <2> QED
    BY <2>5 DEF next
<1>4. CASE Refresh(h)
  <2>1. call.pc = "refresh" /\ call.op \in UpdateOps /\ call.op \in Serves[h]
    BY <1>1, <1>4 DEF Refresh, GoodCall, Disciplined
  <2>2. PICK before, after :
          \/ calls'[h] = Idle
          \/ calls'[h] = [call EXCEPT !.pc = "note"] /\ call.op = "AssignIncident"
          \/ /\ call.op # "AssignIncident"
             /\ calls'[h] = Call("audit", call.op, call.id,
                                 Entry(AuditAction[call.op], call.id, before, after))
    BY <1>1, <1>4 DEF Refresh, AuditIf
  <2>3. [call EXCEPT !.pc = "note"].pc = "note" /\ [call EXCEPT !.pc = "note"].op = call.op
    BY <1>1 DEF Calls
  <2>4. Disciplined(h, [call EXCEPT !.pc = "note"]) \/ call.op # "AssignIncident"
    BY <2>1, <2>3 DEF Disciplined, EntryPcs
  <2>5. CASE /\ call.op # "AssignIncident"
             /\ calls'[h] = Call("audit", call.op, call.id,
                                 Entry(AuditAction[call.op], call.id, before, after))
    <3> DEFINE entry == Entry(AuditAction[call.op], call.id, before, after)
    <3>1. /\ entry.action = AuditAction[call.op] /\ entry.incident = call.id
          /\ "audit" \in EntryPcs /\ "audit" \notin DOMAIN ActionAt
      BY DEF Entry, EntryPcs, ActionAt
    <3>2. /\ IsStatusChange(entry) <=> call.op \in StatusOps
          /\ ~IsLinkEntry(entry)
      BY <2>1, <2>5, <3>1 DEF AuditAction, UpdateOps, IsStatusChange, IsLinkEntry, StatusOps
    <3> HIDE DEF entry
    <3> QED
      BY <2>1, <2>5, <3>1, <3>2, EntryDisciplined DEF entry
  <2> QED
    BY <1>2, <2>2, <2>4, <2>5
<1>5. CASE Note(h)
  <2>1. call.op = "AssignIncident" /\ call.op \in Serves[h]
    BY <1>1, <1>5 DEF Note, Disciplined
  <2>2. PICK before, after :
          \/ calls'[h] = Idle
          \/ calls'[h] = Call("audit", call.op, call.id,
                              Entry(AssignmentAction(before, after), call.id, before, after))
    BY <1>1, <1>5 DEF Note, AuditIf
  <2> DEFINE entry == Entry(AssignmentAction(before, after), call.id, before, after)
  <2>3. /\ entry.incident = call.id /\ ~IsStatusChange(entry) /\ ~IsLinkEntry(entry)
        /\ "audit" \in EntryPcs /\ "audit" \notin DOMAIN ActionAt /\ call.op \notin StatusOps
    BY <2>1 DEF Entry, AssignmentAction, IsStatusChange, IsLinkEntry, EntryPcs, ActionAt, StatusOps
  <2> HIDE DEF entry
  <2> QED
    BY <1>2, <2>1, <2>2, <2>3, EntryDisciplined DEF entry
<1>6. CASE InsertUpdate(h) \/ Delete(h) \/ InsertLink(h) \/ DeleteLink(h)
  <2>1. calls'[h] \in {Idle, [call EXCEPT !.pc = "audit"]} /\ call.pc \in EntryPcs
    BY <1>1, <1>6 DEF InsertUpdate, Delete, InsertLink, DeleteLink, AfterRefusal, EntryPcs
  <2>2. Disciplined(h, [call EXCEPT !.pc = "audit"])
    BY <1>3, <2>1 DEF EntryPcs, ActionAt
  <2> QED
    BY <1>2, <2>1, <2>2
<1>7. CASE SelectDelete(h)
  <2>1. calls'[h] \in {Idle, [call EXCEPT !.pc = "delete"]} /\ call.pc = "select_delete"
    BY <1>1, <1>7 DEF SelectDelete
  <2>2. Disciplined(h, [call EXCEPT !.pc = "delete"])
    BY <1>3, <2>1 DEF EntryPcs, ActionAt
  <2> QED
    BY <1>2, <2>1, <2>2
<1>8. CASE CheckLink(h)
  <2>1. calls'[h] \in {Idle, [call EXCEPT !.pc = "insert_link"]} /\ call.pc = "check_link"
    BY <1>1, <1>8 DEF CheckLink
  <2>2. Disciplined(h, [call EXCEPT !.pc = "insert_link"])
    BY <1>3, <2>1 DEF EntryPcs, ActionAt
  <2> QED
    BY <1>2, <2>1, <2>2
<1>9. CASE RecordAudit(h)
  <2>1. /\ calls'[h] \in {Idle, Call("spawn", call.op, call.id, None)}
        /\ call.pc = "audit"
    BY <1>1, <1>9 DEF RecordAudit
  <2>2. Disciplined(h, Call("spawn", call.op, call.id, None))
    BY <1>1, <2>1, QuietDisciplined DEF Disciplined, Call, EntryPcs
  <2> QED
    BY <1>2, <2>1, <2>2
<1> QED
  BY <1>4, <1>5, <1>6, <1>7, <1>8, <1>9 DEF HandlerStep

\* And what the background tasks do.
LEMMA TaskDisciplined ==
  ASSUME IInv, Discipline, NEW t \in Tasks, TaskStep(t) \/ \E i \in Ids : Backfill(t, i)
  PROVE  Disciplined(t, calls'[t])
<1> DEFINE call == calls[t]
           next(todo) == [call EXCEPT !.pc = "select", !.todo = todo]
<1>1. /\ t \notin Handlers /\ call \in Calls /\ Disciplined(t, call)
      /\ \A c : Become(t, c) \/ Enter(t, c) => calls'[t] = c
  BY ProcsAssumption DEF IInv, TypeOK, Discipline, Procs, Become, Enter
<1>2. ASSUME call.op \in TaskOps, NEW todo,
             \A k \in DOMAIN todo : Written(todo[k]) \subseteq Owned[call.op]
      PROVE  Disciplined(t, next(todo))
  <2>1. next(todo).pc = "select" /\ next(todo).op = call.op /\ next(todo).todo = todo
    BY <1>1 DEF Calls
  <2> HIDE DEF next
  <2> QED
    BY <1>1, <1>2, <2>1 DEF Disciplined, EntryPcs
<1>3. \A columns : "status" \notin DOMAIN columns => Written(columns) = DOMAIN columns
  BY DEF Written
<1>4. CASE InferSummary(t)
  <2>1. PICK severity, summary : calls'[t] = next(SummaryCalls(severity, summary))
    BY <1>1, <1>4 DEF InferSummary
  <2>2. call.op = "_generate_and_store_summary" /\ call.op \in TaskOps
    BY <1>4 DEF InferSummary, TaskOps
  <2>3. \A k \in DOMAIN SummaryCalls(severity, summary) :
          DOMAIN SummaryCalls(severity, summary)[k] \in
            {{"ai_suggested_severity"}, {"ai_summary", "ai_summary_status"}, {"ai_summary_status"}}
    BY DEF SummaryCalls
  <2>4. \A k \in DOMAIN SummaryCalls(severity, summary) :
          Written(SummaryCalls(severity, summary)[k]) \subseteq Owned[call.op]
    BY <1>3, <2>2, <2>3 DEF Owned
  <2> QED
    BY <1>2, <2>1, <2>2, <2>4
<1>5. CASE InferStatus(t)
  <2>1. PICK status : calls'[t] \in {Idle, next(<< [ai_suggested_status |-> status] >>)}
    BY <1>1, <1>5 DEF InferStatus
  <2>2. call.op = "_classify_and_store_status" /\ call.op \in TaskOps
    BY <1>5 DEF InferStatus, TaskOps
  <2>3. \A k \in DOMAIN << [ai_suggested_status |-> status] >> :
          Written(<< [ai_suggested_status |-> status] >>[k]) \subseteq Owned[call.op]
    BY <1>3, <2>2 DEF Owned
  <2>4. Disciplined(t, next(<< [ai_suggested_status |-> status] >>))
    BY <1>2, <2>2, <2>3
  <2> QED
    BY <2>1, <2>4, QuietDisciplined DEF Idle, Call, EntryPcs
<1>6. CASE \E i \in Ids : Backfill(t, i)
  <2>1. PICK i \in Ids : calls'[t] = Call("infer", "_generate_and_store_summary", i, None)
    BY <1>1, <1>6 DEF Backfill
  <2> QED
    BY <1>1, <2>1, QuietDisciplined DEF Call, EntryPcs, TaskOps
<1> QED
  BY <1>4, <1>5, <1>6 DEF TaskStep

\* A step leaves every call disciplined.
LEMMA DisciplineStep ==
  ASSUME IInv, Discipline, [Next]_vars, NEW p \in Procs
  PROVE  Disciplined(p, calls'[p])
<1>1. CASE calls'[p] \in {calls[p], Idle}
  BY <1>1, QuietDisciplined DEF Discipline, Idle, Call, EntryPcs
<1>2. CASE p \in Handlers /\ (Request(p) \/ (HandlerStep(p) /\ ~Spawn(p)))
  BY <1>2, RequestDisciplined, HandlerDisciplined
<1>3. CASE p \in Tasks /\ (TaskStep(p) \/ \E i \in Ids : Backfill(p, i))
  BY <1>3, TaskDisciplined
<1>4. CASE RepositoryStep(p)
  BY <1>4, RepositoryDisciplined
<1>5. ASSUME NEW h \in Handlers, Spawn(h), p \in Tasks,
             calls'[p] = Call("infer", Spawned[calls[h].op], calls[h].id, None)
      PROVE  Disciplined(p, calls'[p])
  <2>1. calls[h].op \in DOMAIN Spawned
    BY <1>5 DEF Spawn, IInv, GoodCall, Procs
  <2>2. Spawned[calls[h].op] \in TaskOps /\ p \notin Handlers
    BY <1>5, <2>1, ProcsAssumption DEF Spawned, TaskOps
  <2> QED
    BY <1>5, <2>2, QuietDisciplined DEF Call, EntryPcs
<1> QED
  BY <1>1, <1>2, <1>3, <1>4, <1>5, OwnStep

\* Every call keeps to its columns and its entry, in every reachable state.
LEMMA Disciplines == Spec => [](IInv /\ Discipline)
<1>1. Init => Discipline
  BY QuietDisciplined DEF Init, Discipline, Idle, Call, EntryPcs
<1>2. IInv /\ Discipline /\ [Next]_vars => Discipline'
  BY DisciplineStep DEF Discipline
<1> QED
  BY <1>1, <1>2, Inductive, PTL DEF Spec

-----------------------------------------------------------------------------
(***************************************************************************)
(* Rows: a step creates, writes or removes one of them at most.            *)
(***************************************************************************)
SameRow(i) ==
  /\ i \in DOMAIN incidents' <=> i \in DOMAIN incidents
  /\ i \in DOMAIN incidents => incidents'[i] = incidents[i]
  /\ i < next_id' <=> i < next_id

Created(i) ==
  /\ i = next_id /\ i \notin DOMAIN incidents
  /\ i \in DOMAIN incidents' /\ i < next_id'
  /\ \E details, severity : incidents'[i] = InitialRow(details, severity)

Overwritten(i, p) ==
  /\ Commit(p) /\ calls[p].id = i
  /\ i \in DOMAIN incidents /\ i \in DOMAIN incidents'
  /\ incidents'[i] = Flush(incidents[i], calls[p].loaded, calls[p].pending)
  /\ i < next_id /\ i < next_id'

Removed(i) ==
  /\ i \in DOMAIN incidents /\ i \notin DOMAIN incidents'
  /\ i < next_id /\ i < next_id'

RowStep(i) ==
  /\ \/ Created(i) \/ Removed(i) \/ \E p \in Procs : Overwritten(i, p)
  /\ \A j \in Ids \ {i} : SameRow(j)

\* Three kinds of step touch the incidents at all.
LEMMA TableMoves ==
  ASSUME [Next]_vars
  PROVE  \/ UNCHANGED <<incidents, next_id>>
         \/ \E h \in Handlers, d \in Details, s \in SeverityInputs : CreateIncident(h, d, s)
         \/ \E p \in Procs : Commit(p) /\ Stored(calls[p].id)
         \/ \E h \in Handlers : Delete(h)
<1>1. ASSUME NEW h \in Handlers, Request(h)
      PROVE  \/ UNCHANGED <<incidents, next_id>>
             \/ \E d \in Details, s \in SeverityInputs : CreateIncident(h, d, s)
  BY <1>1 DEF Request, tables, UpdateIncident, UpdateIncidentStatus,
     UpdateIncidentSeverity, AcceptSuggestedSeverity, AcceptSuggestedStatus, AssignIncident,
     AddIncidentUpdate, DeleteIncident, LinkChange, UnlinkChange
<1>2. ASSUME NEW h \in Handlers, HandlerStep(h)
      PROVE  UNCHANGED <<incidents, next_id>> \/ Delete(h)
  BY <1>2 DEF HandlerStep, tables, Refresh, Note, InsertUpdate, SelectDelete, CheckLink,
     InsertLink, DeleteLink, RecordAudit, Spawn
<1>3. ASSUME NEW t \in Tasks, TaskStep(t) \/ \E i \in Ids : Backfill(t, i)
      PROVE  UNCHANGED <<incidents, next_id>>
  BY <1>3 DEF TaskStep, tables, InferSummary, InferStatus, Backfill
<1>4. ASSUME NEW p \in Procs, RepositoryStep(p)
      PROVE  \/ UNCHANGED <<incidents, next_id>>
             \/ Commit(p) /\ Stored(calls[p].id)
  BY <1>4 DEF RepositoryStep, tables, Select, Commit, CommitFails
<1>5. CASE Tick \/ (\E r \in Replicas : Crash(r)) \/ UNCHANGED vars
  BY <1>5 DEF Tick, Crash, vars, tables
<1> QED
  BY <1>1, <1>2, <1>3, <1>4, <1>5 DEF Next

\* One row at most is another after a step than it was before.
LEMMA RowSteps ==
  ASSUME IInv, [Next]_vars
  PROVE  (\A j \in Ids : SameRow(j)) \/ \E i \in Ids : RowStep(i)
<1>1. /\ next_id \in Nat /\ Ids \subseteq Nat
      /\ \A i \in DOMAIN incidents : i \in Ids /\ i < next_id
  BY DEF IInv, TypeOK, Ids
<1>2. CASE UNCHANGED <<incidents, next_id>>
  BY <1>2 DEF SameRow
<1>3. ASSUME NEW h \in Handlers, NEW d \in Details, NEW s \in SeverityInputs,
             CreateIncident(h, d, s)
      PROVE  next_id \in Ids /\ RowStep(next_id)
  <2>1. /\ next_id \in Ids /\ next_id' = next_id + 1
        /\ incidents' = [i \in DOMAIN incidents \cup {next_id} |->
                           IF i = next_id THEN InitialRow(d, Normalized(s)) ELSE incidents[i]]
    BY <1>3 DEF CreateIncident
  <2>2. Created(next_id)
    BY <1>1, <2>1 DEF Created
  <2>3. ASSUME NEW j \in Ids \ {next_id} PROVE SameRow(j)
    BY <1>1, <2>1 DEF SameRow
  <2> QED
    BY <2>1, <2>2, <2>3 DEF RowStep
<1>4. ASSUME NEW p \in Procs, Commit(p), Stored(calls[p].id)
      PROVE  calls[p].id \in Ids /\ RowStep(calls[p].id)
  <2> DEFINE i == calls[p].id
  <2>1. /\ i \in DOMAIN incidents /\ next_id' = next_id
        /\ incidents' = [incidents EXCEPT ![i] =
                           Flush(incidents[i], calls[p].loaded, calls[p].pending)]
    BY <1>4 DEF Commit, Stored
  <2>2. Overwritten(i, p)
    BY <1>1, <1>4, <2>1 DEF Overwritten
  <2>3. ASSUME NEW j \in Ids \ {i} PROVE SameRow(j)
    BY <2>1 DEF SameRow
  <2> QED
    BY <1>1, <2>1, <2>2, <2>3 DEF RowStep
<1>5. ASSUME NEW h \in Handlers, Delete(h)
      PROVE  (\A j \in Ids : SameRow(j)) \/ \E i \in Ids : RowStep(i)
  <2> DEFINE i == calls[h].id
  <2>1. /\ next_id' = next_id
        /\ \/ incidents' = incidents
           \/ incidents' = [j \in DOMAIN incidents \ {i} |-> incidents[j]]
    BY <1>5 DEF Delete
  <2>2. CASE incidents' = incidents \/ i \notin DOMAIN incidents
    BY <2>1, <2>2 DEF SameRow
  <2>3. CASE i \in DOMAIN incidents /\ incidents' = [j \in DOMAIN incidents \ {i} |-> incidents[j]]
    <3>1. Removed(i)
      BY <1>1, <2>1, <2>3 DEF Removed
    <3>2. ASSUME NEW j \in Ids \ {i} PROVE SameRow(j)
      BY <2>1, <2>3 DEF SameRow
    <3> QED
      BY <1>1, <2>3, <3>1, <3>2 DEF RowStep
  <2> QED
    BY <2>1, <2>2, <2>3
<1> QED
  BY <1>2, <1>3, <1>4, <1>5, TableMoves

\* What the UPDATE of a session leaves in a column: what the session assigned, if
\* it changed the column, and what is stored otherwise.
LEMMA FlushColumns ==
  ASSUME NEW stored \in IncidentRow, NEW loaded \in IncidentRow, NEW pending, NEW c \in DOMAIN stored
  PROVE  /\ c \in DOMAIN loaded
         /\ Flush(stored, loaded, pending)[c] =
              IF pending[c] # loaded[c] THEN pending[c] ELSE stored[c]
BY DEF Flush, DirtyColumns, IncidentRow

\* The copy that a commit writes back, and what it keeps to.
LEMMA CommitFacts ==
  ASSUME IInv, Discipline, NEW p \in Procs, calls[p].pc = "commit"
  PROVE  LET call == calls[p] IN
         /\ call.id \in Ids /\ call.loaded \in IncidentRow /\ call.pending \in IncidentRow
         /\ GoodCopy(incidents, call.id, call.loaded)
         /\ StampsPresent(call.pending) /\ LeavesStamps(call.loaded, call.pending)
         /\ DirtyColumns(call.loaded, call.pending) \subseteq Owned[call.op]
         /\ ResponseFirst(call.loaded, call.pending)
         /\ StepsForward(call.loaded, call.pending)
         /\ call.op \in IF p \in Handlers THEN Serves[p] ELSE TaskOps
<1>1. GoodCall(incidents, next_id, p, calls[p]) /\ Disciplined(p, calls[p])
  BY DEF IInv, Discipline
<1> QED
  BY <1>1 DEF GoodCall, GoodCopy, Disciplined

\* A commit is over once it has happened.
LEMMA CommitMovesOn ==
  ASSUME IInv, NEW p \in Procs, Commit(p)
  PROVE  calls'[p].pc # "commit"
<1>1. calls'[p] = AfterCommit(p) /\ calls[p] \in Calls
  BY DEF Commit, Become, IInv, TypeOK
<1>2. AfterCommit(p).pc \in {"refresh", "select", "idle"}
  BY <1>1 DEF AfterCommit, Calls, Idle, Call
<1> QED
  BY <1>1, <1>2

\* A column changes only when an operation that owns it commits, and to the value
\* that operation decided on: the flush of a session with an old copy of the row
\* (expire_on_commit = False, READ COMMITTED) overwrites nobody else's columns.
THEOREM ColumnOwnership == Spec => ColumnsChangeOnlyByOwners
<1>1. ASSUME IInv, Discipline, [Next]_vars,
             NEW i \in Ids, StaysStored(i),
             NEW c \in DOMAIN incidents[i], incidents'[i][c] # incidents[i][c]
      PROVE  \E p \in Procs :
               /\ calls[p].pc = "commit" /\ calls[p].id = i
               /\ calls'[p].pc # "commit"
               /\ c \in Owned[calls[p].op]
               /\ incidents'[i][c] = calls[p].pending[c]
  <2>1. i \in DOMAIN incidents /\ i \in DOMAIN incidents' /\ incidents[i] \in IncidentRow
    BY <1>1 DEF StaysStored, Stored, IInv, TypeOK
  <2>2. ~SameRow(i) /\ ~Created(i) /\ ~Removed(i)
    BY <1>1, <2>1 DEF SameRow, Created, Removed
  <2>3. PICK p \in Procs : Overwritten(i, p)
    BY <1>1, <2>2, RowSteps DEF RowStep
  <2>4. /\ Commit(p) /\ calls[p].pc = "commit" /\ calls[p].id = i
        /\ incidents'[i] = Flush(incidents[i], calls[p].loaded, calls[p].pending)
    BY <2>3 DEF Overwritten, Commit
  <2>5. calls[p].loaded \in IncidentRow
        /\ DirtyColumns(calls[p].loaded, calls[p].pending) \subseteq Owned[calls[p].op]
    BY <1>1, <2>4, CommitFacts
  <2>6. /\ c \in DOMAIN calls[p].loaded
        /\ incidents'[i][c] = IF calls[p].pending[c] # calls[p].loaded[c]
                              THEN calls[p].pending[c] ELSE incidents[i][c]
    BY <1>1, <2>1, <2>4, <2>5, FlushColumns
  <2>7. c \in DirtyColumns(calls[p].loaded, calls[p].pending)
    BY <1>1, <2>6 DEF DirtyColumns
  <2>8. calls'[p].pc # "commit"
    BY <1>1, <2>4, CommitMovesOn
  <2> QED
    BY <1>1, <2>4, <2>5, <2>6, <2>7, <2>8
<1>2. IInv /\ Discipline /\ [Next]_vars =>
        [\A i \in Ids : StaysStored(i) =>
           \A c \in DOMAIN incidents[i] : incidents'[i][c] # incidents[i][c] =>
             \E p \in Procs :
               /\ calls[p].pc = "commit" /\ calls[p].id = i
               /\ calls'[p].pc # "commit"
               /\ c \in Owned[calls[p].op]
               /\ incidents'[i][c] = calls[p].pending[c]]_vars
  BY <1>1
<1> QED
  BY <1>2, Disciplines, PTL DEF Spec, ColumnsChangeOnlyByOwners

-----------------------------------------------------------------------------
(***************************************************************************)
(* The service implements Milestones.                                      *)
(***************************************************************************)

\* A row that stays as it is stays at its milestone and in its status.
LEMMA SameRowSame ==
  ASSUME NEW i, SameRow(i)
  PROVE  MilestoneOf(i)' = MilestoneOf(i) /\ StatusOf(i)' = StatusOf(i)
BY DEF SameRow, MilestoneOf, StatusOf, Stored

\* Where the stamps of a stored row put it, and where an id without a row is.
LEMMA MilestoneCases ==
  ASSUME NEW i
  PROVE  /\ Stored(i) =>
              MilestoneOf(i) = IF incidents[i].resolved_at # None THEN "resolved"
                               ELSE IF incidents[i].first_response_at # None THEN "responded"
                               ELSE "waiting"
         /\ ~Stored(i) => MilestoneOf(i) = IF i < next_id THEN "gone" ELSE "unborn"
BY DEF MilestoneOf, Stored

\* The same after a step.
LEMMA MilestoneCasesNext ==
  ASSUME NEW i
  PROVE  /\ Stored(i)' =>
              MilestoneOf(i)' = IF incidents'[i].resolved_at # None THEN "resolved"
                                ELSE IF incidents'[i].first_response_at # None THEN "responded"
                                ELSE "waiting"
         /\ ~Stored(i)' => MilestoneOf(i)' = IF i < next_id' THEN "gone" ELSE "unborn"
BY DEF MilestoneOf, Stored

\* What a commit with an old copy of the row may do to the row's milestone: a stamp
\* that is set stays set, and the session that resolves has seen a response.
LEMMA CommitMilestone ==
  ASSUME IInv, Discipline, NEW i \in Ids, NEW p \in Procs, Overwritten(i, p)
  PROVE  \/ MilestoneOf(i)' = MilestoneOf(i)
         \/ MilestoneOf(i) = "waiting" /\ MilestoneOf(i)' = "responded"
         \/ MilestoneOf(i) = "responded" /\ MilestoneOf(i)' = "resolved"
<1> DEFINE old == incidents[i]
           new == incidents'[i]
           loaded == calls[p].loaded
           pending == calls[p].pending
<1>1. /\ calls[p].pc = "commit" /\ calls[p].id = i
      /\ new = Flush(old, loaded, pending)
      /\ Stored(i) /\ Stored(i)'
  BY DEF Overwritten, Commit, Stored
<1>2. /\ old \in IncidentRow /\ StampsPresent(old)
      /\ loaded \in IncidentRow /\ pending \in IncidentRow
      /\ KeepsStamps(loaded, old) /\ StampsPresent(pending) /\ LeavesStamps(loaded, pending)
      /\ ResponseFirst(loaded, pending)
  BY <1>1, CommitFacts DEF GoodCopy, Stored, IInv, TypeOK, SlaStampsPresent
<1>3. KeepsStamps(old, new)
  BY <1>1, <1>2, FlushStamps
<1>4. "resolved_at" \in DOMAIN old
  BY <1>2 DEF IncidentRow
<1>5. new.resolved_at # old.resolved_at => pending.resolved_at # loaded.resolved_at
  BY <1>1, <1>2, <1>4, FlushColumns
<1>6. old.resolved_at = None /\ new.resolved_at # None => old.first_response_at # None
  BY <1>2, <1>5 DEF ResponseFirst, KeepsStamps
<1> HIDE DEF old, new
<1>7. /\ MilestoneOf(i) = IF old.resolved_at # None THEN "resolved"
                          ELSE IF old.first_response_at # None THEN "responded" ELSE "waiting"
      /\ MilestoneOf(i)' = IF new.resolved_at # None THEN "resolved"
                           ELSE IF new.first_response_at # None THEN "responded" ELSE "waiting"
  BY <1>1, MilestoneCases, MilestoneCasesNext DEF old, new
<1> QED
  BY <1>3, <1>6, <1>7 DEF KeepsStamps

\* Every step is one of Milestones' or leaves all milestones where they are.
LEMMA MilestoneStep ==
  ASSUME IInv, Discipline, [Next]_vars
  PROVE  [MilestoneSpec!Next]_([i \in Ids |-> MilestoneOf(i)])
<1> DEFINE now == [i \in Ids |-> MilestoneOf(i)]
<1>1. CASE \A j \in Ids : SameRow(j)
  BY <1>1, SameRowSame
<1>2. ASSUME NEW i \in Ids, RowStep(i), NEW from, NEW to,
             MilestoneOf(i) = from, MilestoneOf(i)' = to
      PROVE  MilestoneSpec!Move(i, from, to)
  <2>1. \A j \in Ids \ {i} : MilestoneOf(j)' = MilestoneOf(j)
    BY <1>2, SameRowSame DEF RowStep
  <2> QED
    BY <1>2, <2>1 DEF MilestoneSpec!Move
<1>3. ASSUME NEW i \in Ids, RowStep(i)
      PROVE  [MilestoneSpec!Next]_now
  <2>1. CASE Created(i)
    <3>1. MilestoneOf(i) = "unborn"
      BY <2>1, MilestoneCases DEF Created, Stored, IInv, TypeOK
    <3>2. incidents'[i].resolved_at = None /\ incidents'[i].first_response_at = None
      BY <2>1 DEF Created, InitialRow
    <3>3. MilestoneOf(i)' = "waiting"
      BY <2>1, <3>2, MilestoneCasesNext DEF Created, Stored
    <3> QED
      BY <1>2, <1>3, <3>1, <3>3 DEF MilestoneSpec!Next, MilestoneSpec!Open
  <2>2. CASE Removed(i)
    <3>1. MilestoneOf(i) \in {"waiting", "responded", "resolved"}
      BY <2>2, MilestoneCases DEF Removed, Stored
    <3>2. MilestoneOf(i)' = "gone"
      BY <2>2, MilestoneCasesNext DEF Removed, Stored
    <3> QED
      BY <1>2, <1>3, <3>1, <3>2 DEF MilestoneSpec!Next, MilestoneSpec!Remove
  <2>3. ASSUME NEW p \in Procs, Overwritten(i, p)
        PROVE  [MilestoneSpec!Next]_now
    <3>1. CASE MilestoneOf(i)' = MilestoneOf(i)
      BY <1>3, <3>1, SameRowSame DEF RowStep
    <3>2. CASE MilestoneOf(i) = "waiting" /\ MilestoneOf(i)' = "responded"
      BY <1>2, <1>3, <3>2 DEF MilestoneSpec!Next, MilestoneSpec!Respond
    <3>3. CASE MilestoneOf(i) = "responded" /\ MilestoneOf(i)' = "resolved"
      BY <1>2, <1>3, <3>3 DEF MilestoneSpec!Next, MilestoneSpec!Resolve
    <3> QED
      BY <2>3, <3>1, <3>2, <3>3, CommitMilestone
  <2> QED
    BY <1>3, <2>1, <2>2, <2>3 DEF RowStep
<1> QED
  BY <1>1, <1>3, RowSteps

\* The service implements Milestones, in every interleaving of handlers, tasks and
\* crashes: an incident is responded to before it is resolved, a commit with an old
\* copy never takes a milestone back, and a removed incident stays removed.
THEOREM ImplementsMilestones == Spec => MilestonesInOrder
<1>1. Init => MilestoneSpec!Init
  BY DEF Init, MilestoneSpec!Init, MilestoneOf, Ids
<1>2. IInv /\ Discipline /\ [Next]_vars =>
        [MilestoneSpec!Next]_([i \in Ids |-> MilestoneOf(i)])
  BY MilestoneStep
<1> QED
  BY <1>1, <1>2, Disciplines, PTL DEF Spec, MilestonesInOrder, MilestoneSpec!Spec

-----------------------------------------------------------------------------
(***************************************************************************)
(* The audit log, and the handlers that are about to write to it.          *)
(***************************************************************************)

\* Only an audit call writes the log, and it appends the entry of its call.
LEMMA AuditMoves ==
  ASSUME [Next]_vars
  PROVE  \/ audit' = audit
         \/ \E h \in Handlers : RecordAudit(h) /\ audit' = Append(audit, calls[h].entry)
<1>1. ASSUME NEW h \in Handlers, Request(h) PROVE audit' = audit
  BY <1>1 DEF Request, tables, CreateIncident, UpdateIncident, UpdateIncidentStatus,
     UpdateIncidentSeverity, AcceptSuggestedSeverity, AcceptSuggestedStatus, AssignIncident,
     AddIncidentUpdate, DeleteIncident, LinkChange, UnlinkChange
<1>2. ASSUME NEW h \in Handlers, HandlerStep(h)
      PROVE  \/ audit' = audit
             \/ RecordAudit(h) /\ audit' = Append(audit, calls[h].entry)
  BY <1>2 DEF HandlerStep, tables, Refresh, Note, InsertUpdate, SelectDelete, Delete,
     CheckLink, InsertLink, DeleteLink, RecordAudit, Spawn
<1>3. ASSUME NEW t \in Tasks, TaskStep(t) \/ \E i \in Ids : Backfill(t, i)
      PROVE  audit' = audit
  BY <1>3 DEF TaskStep, tables, InferSummary, InferStatus, Backfill
<1>4. ASSUME NEW p \in Procs, RepositoryStep(p) PROVE audit' = audit
  BY <1>4 DEF RepositoryStep, tables, Select, Commit, CommitFails
<1>5. CASE Tick \/ (\E r \in Replicas : Crash(r)) \/ UNCHANGED vars
  BY <1>5 DEF Tick, Crash, vars, tables
<1> QED
  BY <1>1, <1>2, <1>3, <1>4, <1>5 DEF Next

\* Statements that lead straight to the audit call and keep the entry.
KeepsEntry(h) ==
  /\ Delete(h) \/ InsertLink(h) \/ DeleteLink(h)
  /\ calls'[h] = [calls[h] EXCEPT !.pc = "audit"]
  /\ calls'[h].entry = calls[h].entry /\ calls'[h].id = calls[h].id
  /\ calls'[h].op = calls[h].op

\* How a handler gets to its audit call: an entry about a deletion or a link is the
\* one that it set out with, and its statement has just succeeded.
LEMMA AuditArrival ==
  ASSUME IInv, Discipline, [Next]_vars, NEW h \in Handlers, calls'[h].pc = "audit"
  PROVE  \/ calls'[h] = calls[h]
         \/ KeepsEntry(h)
         \/ /\ calls'[h].entry.action # "incident.deleted"
            /\ ~IsLinkEntry(calls'[h].entry)
<1> DEFINE call == calls[h]
           Other == /\ calls'[h].entry.action # "incident.deleted"
                    /\ ~IsLinkEntry(calls'[h].entry)
<1>1. /\ h \in Procs /\ h \notin Tasks
      /\ call \in Calls /\ GoodCall(incidents, next_id, h, call) /\ Disciplined(h, call)
      /\ \A next : Become(h, next) \/ Enter(h, next) => calls'[h] = next
  BY ProcsAssumption DEF IInv, TypeOK, Discipline, Procs, Become, Enter
<1>2. CASE Request(h)
  <2>1. CASE \E d \in Details, s \in SeverityInputs : CreateIncident(h, d, s)
    <3>1. PICK snapshot : calls'[h] = Call("audit", "CreateIncident", next_id,
                               Entry("incident.created", next_id, None, snapshot))
      BY <1>1, <2>1 DEF CreateIncident
    <3> QED
      BY <3>1 DEF Call, Entry, IsLinkEntry
  <2>2. CASE ~ \E d \in Details, s \in SeverityInputs : CreateIncident(h, d, s)
    <3>1. \E pc \in {"select", "insert_update", "select_delete", "check_link", "delete_link"} :
          \E op, i, entry, columns :
            calls'[h] \in {Call(pc, op, i, entry), Update(op, i, columns)}
      BY <1>1, <1>2, <2>2 DEF Request, UpdateIncident, UpdateIncidentStatus,
         UpdateIncidentSeverity, AcceptSuggestedSeverity, AcceptSuggestedStatus,
         AssignIncident, AddIncidentUpdate, DeleteIncident, LinkChange, UnlinkChange
    <3> QED
      BY <3>1 DEF Call, Update
  <2> QED
    BY <2>1, <2>2
<1>3. CASE RepositoryStep(h)
  <2>1. calls'[h] \in {Idle, AfterCommit(h)} \/ calls'[h].pc = "commit"
    <3>1. ~Stored(call.id) => AfterNothing(h) = Idle
      BY DEF AfterNothing
    <3>2. CASE Select(h)
      BY <1>1, <3>1, <3>2 DEF Select, Calls
    <3> QED
      BY <1>1, <1>3, <3>2 DEF RepositoryStep, Commit, CommitFails
  <2>2. AfterCommit(h).pc = "refresh"
    BY <1>1 DEF AfterCommit, Calls
  <2> QED
    BY <2>1, <2>2 DEF Idle, Call
<1>4. CASE Refresh(h) \/ Note(h)
  <2>1. PICK action, before, after :
          /\ calls'[h] = Call("audit", call.op, call.id, Entry(action, call.id, before, after))
          /\ action \in {"incident.updated", "incident.status_changed",
                         "incident.severity_changed", "incident.assigned",
                         "incident.reassigned", "incident.unassigned"}
    <3>1. CASE Refresh(h)
      <4>1. call.pc = "refresh" /\ call.op \in UpdateOps
        BY <1>1, <3>1 DEF Refresh, GoodCall
      <4>2. call.op # "AssignIncident"
        BY <1>1, <3>1 DEF Refresh, Idle, Call, Calls
      <4>3. PICK before, after :
              calls'[h] = Call("audit", call.op, call.id,
                               Entry(AuditAction[call.op], call.id, before, after))
        BY <1>1, <3>1, <4>2 DEF Refresh, AuditIf, Idle, Call
      <4> QED
        BY <4>1, <4>2, <4>3 DEF UpdateOps, AuditAction
    <3>2. CASE Note(h)
      <4>1. PICK before, after :
              calls'[h] = Call("audit", call.op, call.id,
                               Entry(AssignmentAction(before, after), call.id, before, after))
        BY <1>1, <3>2 DEF Note, AuditIf, Idle, Call
      <4> QED
        BY <4>1 DEF AssignmentAction
    <3> QED
      BY <1>4, <3>1, <3>2
  <2> QED
    BY <2>1 DEF Call, Entry, IsLinkEntry
<1>5. CASE InsertUpdate(h)
  <2>1. call.pc = "insert_update" /\ calls'[h].entry = call.entry
    BY <1>1, <1>5 DEF InsertUpdate, Calls
  <2>2. call.entry.action = "incident.update_added"
    BY <1>1, <2>1 DEF Disciplined, EntryPcs, EntryFits, ActionAt
  <2> QED
    BY <2>1, <2>2 DEF IsLinkEntry
<1>6. CASE Delete(h) \/ InsertLink(h) \/ DeleteLink(h)
  <2>1. calls'[h] \in {Idle, [call EXCEPT !.pc = "audit"]}
    BY <1>1, <1>6 DEF Delete, InsertLink, DeleteLink, AfterRefusal
  <2> QED
    BY <1>1, <1>6, <2>1 DEF KeepsEntry, Calls, Idle, Call
<1>7. CASE SelectDelete(h) \/ CheckLink(h) \/ RecordAudit(h)
  BY <1>1, <1>7 DEF SelectDelete, CheckLink, RecordAudit, Calls, Idle, Call
<1>8. CASE calls'[h] \in {call, Idle}
  BY <1>8 DEF Idle, Call
<1> QED
  BY <1>1, <1>2, <1>3, <1>4, <1>5, <1>6, <1>7, <1>8, OwnStep DEF HandlerStep

\* Ids come from a sequence, so a removed incident is never seen again.
LEMMA GoneStays ==
  ASSUME IInv, [Next]_vars, NEW i \in Ids, Gone(i)
  PROVE  Gone(i)'
<1>1. SameRow(i)
  BY RowSteps DEF RowStep, Created, Removed, Overwritten, Gone, Stored, Ids, IInv, TypeOK
<1> QED
  BY <1>1 DEF SameRow, Gone, Stored

\* Every deletion that is audited, or about to be, is of an incident that is gone.
LEMMA DeletionsInductive == Spec => []DeletionsInv
<1>1. Init => DeletionsInv
  BY DEF Init, DeletionsInv, Procs, Idle, Call
<1>2. IInv /\ Discipline /\ DeletionsInv /\ [Next]_vars => DeletionsInv'
  <2> SUFFICES ASSUME IInv, Discipline, DeletionsInv, [Next]_vars
               PROVE  DeletionsInv'
    OBVIOUS
  <2> DEFINE after(e) == e.action = "incident.deleted" =>
                           e.incident < next_id' /\ e.incident \notin DOMAIN incidents'
  <2>1. ASSUME NEW e \in Entries, DeletionTrue(e)
        PROVE  after(e)
    BY <2>1, GoneStays DEF DeletionTrue, Entries, Gone, Stored
  <2>2. /\ audit \in Seq(Entries)
        /\ \A h \in Handlers : calls[h].pc = "audit" => calls[h].entry \in Entries
    BY DEF IInv, TypeOK, GoodCall, EntryPcs, Procs
  <2>3. ASSUME NEW k \in DOMAIN audit' PROVE after(audit'[k])
    <3>1. CASE audit' = audit
      BY <2>1, <2>2, <3>1 DEF DeletionsInv
    <3>2. ASSUME NEW h \in Handlers, RecordAudit(h), audit' = Append(audit, calls[h].entry)
          PROVE  after(audit'[k])
      <4>1. calls[h].entry \in Entries /\ DeletionTrue(calls[h].entry)
        BY <2>2, <3>2 DEF RecordAudit, DeletionsInv
      <4>2. \/ audit'[k] = calls[h].entry
            \/ k \in DOMAIN audit /\ audit'[k] = audit[k]
        BY <2>2, <3>2, <4>1
      <4>3. audit'[k] \in Entries /\ DeletionTrue(audit'[k])
        BY <2>2, <4>1, <4>2 DEF DeletionsInv
      <4> QED
        BY <2>1, <4>3
    <3> QED
      BY <3>1, <3>2, AuditMoves
  <2>4. ASSUME NEW h \in Handlers, calls'[h].pc = "audit" PROVE after(calls'[h].entry)
    <3>1. CASE calls'[h] = calls[h]
      <4>1. calls[h].entry \in Entries /\ DeletionTrue(calls[h].entry)
        BY <2>2, <2>4, <3>1 DEF DeletionsInv
      <4> QED
        BY <2>1, <3>1, <4>1
    <3>2. CASE KeepsEntry(h) /\ calls'[h].entry.action = "incident.deleted"
      <4>1. Delete(h)
        BY <3>2 DEF KeepsEntry, InsertLink, DeleteLink, Discipline, Disciplined, EntryPcs,
           EntryFits, ActionAt, Procs
      <4>2. /\ calls[h].pc = "delete" /\ calls[h].id < next_id
            /\ calls[h].entry.incident = calls[h].id
        BY <4>1 DEF Delete, IInv, GoodCall, Discipline, Disciplined, EntryPcs, EntryFits, Procs
      <4>3. calls'[h].pc # "idle" /\ calls'[h] # Idle
        BY <2>4 DEF Idle, Call
      <4>4. /\ incidents' = [j \in DOMAIN incidents \ {calls[h].id} |-> incidents[j]]
            /\ next_id' = next_id
        BY <4>1, <4>3 DEF Delete, AfterRefusal, Become, IInv, TypeOK, Procs
      <4> QED
        BY <3>2, <4>2, <4>4 DEF KeepsEntry
    <3>3. CASE calls'[h].entry.action # "incident.deleted"
      BY <3>3
    <3> QED
      BY <2>4, <3>1, <3>2, <3>3, AuditArrival
  <2> QED
    BY <2>3, <2>4 DEF DeletionsInv, DeletionTrue, Gone, Stored
<1> QED
  BY <1>1, <1>2, Disciplines, PTL DEF Spec

\* A deletion that the audit log tells of is true and stays true, whatever is deleted
\* or created meanwhile: the entry is sent after the DELETE, and ids are not reused.
THEOREM DeletionsTrue == Spec => []AuditedDeletionsAreGone
<1>1. DeletionsInv => AuditedDeletionsAreGone
  BY DEF DeletionsInv, AuditedDeletionsAreGone, DeletionTrue, Gone, Range
<1> QED
  BY <1>1, DeletionsInductive, PTL

-----------------------------------------------------------------------------
(***************************************************************************)
(* The trail of links, where no audit event is lost and no replica dies.   *)
(***************************************************************************)
InLog(action, i, change) == {k \in DOMAIN audit : Says(audit[k], action, i, change)}

Awaiting(action, i, change) ==
  {h \in Handlers : calls[h].pc = "audit" /\ Says(calls[h].entry, action, i, change)}

\* Both parts of the count that LinkTrailBalanced compares are finite.
LEMMA LinkEntriesCounted ==
  ASSUME IInv, IsFiniteSet(Handlers), NEW action, NEW i, NEW change
  PROVE  /\ IsFiniteSet(InLog(action, i, change))
         /\ IsFiniteSet(Awaiting(action, i, change))
         /\ Cardinality(InLog(action, i, change)) \in Nat
         /\ Cardinality(Awaiting(action, i, change)) \in Nat
         /\ LinkEntries(action, i, change) = Cardinality(InLog(action, i, change))
                                             + Cardinality(Awaiting(action, i, change))
<1>1. IsFiniteSet(1..Len(audit)) /\ DOMAIN audit = 1..Len(audit)
  <2>1. Len(audit) \in Int /\ 1 \in Int /\ DOMAIN audit = 1..Len(audit)
    BY DEF IInv, TypeOK
  <2> QED
    BY <2>1, FS_Interval
<1>2. InLog(action, i, change) \in SUBSET (1..Len(audit))
  BY <1>1 DEF InLog
<1>3. Awaiting(action, i, change) \in SUBSET Handlers
  BY DEF Awaiting
<1>4. IsFiniteSet(InLog(action, i, change)) /\ IsFiniteSet(Awaiting(action, i, change))
  BY <1>1, <1>2, <1>3, FS_Subset
<1> QED
  BY <1>4, FS_CardinalityType DEF LinkEntries, InLog, Awaiting

\* A handler's call moves by a step of the handler's, or its replica dies.
LEMMA HandlerMoves ==
  ASSUME IInv, [Next]_vars, NEW h \in Handlers, calls[h].pc # "spawn"
  PROVE  \/ calls'[h] = calls[h]
         \/ MayCrash /\ calls'[h] = Idle /\ UNCHANGED <<incidents, next_id, audit>>
         \/ Request(h) \/ (HandlerStep(h) /\ ~Spawn(h)) \/ RepositoryStep(h)
<1>1. h \in Procs /\ h \notin Tasks
  BY ProcsAssumption DEF Procs
<1>2. ASSUME NEW g \in Handlers, Request(g) \/ (HandlerStep(g) /\ ~Spawn(g)), g # h
      PROVE  calls'[h] = calls[h]
  BY <1>1, <1>2, OthersStay
<1>3. ASSUME NEW g \in Handlers, Spawn(g) PROVE calls'[h] = calls[h]
  <2>1. calls[g].pc = "spawn"
    BY <1>3 DEF Spawn
  <2>2. PICK t \in Tasks : \E call : calls' = [calls EXCEPT ![g] = Idle, ![t] = call]
    BY <1>3 DEF Spawn
  <2> QED
    BY <1>1, <2>1, <2>2 DEF IInv, TypeOK
<1>4. ASSUME NEW t \in Tasks, TaskStep(t) \/ \E i \in Ids : Backfill(t, i)
      PROVE  calls'[h] = calls[h]
  BY <1>1, <1>4, OthersStay
<1>5. ASSUME NEW p \in Procs, RepositoryStep(p), p # h PROVE calls'[h] = calls[h]
  BY <1>1, <1>5, OthersStay
<1>6. CASE Tick \/ (\E r \in Replicas : Crash(r)) \/ UNCHANGED vars
  BY <1>1, <1>6 DEF Tick, Crash, vars, tables
<1> QED
  BY <1>2, <1>3, <1>4, <1>5, <1>6 DEF Next, HandlerStep

\* As long as no replica dies, a handler leaves its audit call by making it.
LEMMA AuditWaits ==
  ASSUME IInv, [Next]_vars, ~MayCrash, NEW h \in Handlers, calls[h].pc = "audit"
  PROVE  calls'[h] = calls[h] \/ RecordAudit(h)
<1>1. ~Request(h)
  BY DEF Request, Ready, CreateIncident, UpdateIncident, UpdateIncidentStatus,
     UpdateIncidentSeverity, AcceptSuggestedSeverity, AcceptSuggestedStatus, AssignIncident,
     AddIncidentUpdate, DeleteIncident, LinkChange, UnlinkChange
<1>2. ~RepositoryStep(h)
  BY DEF RepositoryStep, Select, Commit, CommitFails
<1>3. HandlerStep(h) => RecordAudit(h)
  BY DEF HandlerStep, Refresh, Note, InsertUpdate, SelectDelete, Delete, CheckLink,
     InsertLink, DeleteLink, Spawn
<1> QED
  BY <1>1, <1>2, <1>3, HandlerMoves

\* The links change only where one is inserted or deleted.
LEMMA LinksMove ==
  ASSUME [Next]_vars
  PROVE  links' = links \/ \E h \in Handlers : InsertLink(h) \/ DeleteLink(h)
<1>1. ASSUME NEW h \in Handlers, Request(h) PROVE links' = links
  BY <1>1 DEF Request, tables, CreateIncident, UpdateIncident, UpdateIncidentStatus,
     UpdateIncidentSeverity, AcceptSuggestedSeverity, AcceptSuggestedStatus, AssignIncident,
     AddIncidentUpdate, DeleteIncident, LinkChange, UnlinkChange
<1>2. ASSUME NEW h \in Handlers, HandlerStep(h)
      PROVE  links' = links \/ InsertLink(h) \/ DeleteLink(h)
  BY <1>2 DEF HandlerStep, tables, Refresh, Note, InsertUpdate, SelectDelete, Delete,
     CheckLink, RecordAudit, Spawn
<1>3. ASSUME NEW t \in Tasks, TaskStep(t) \/ \E i \in Ids : Backfill(t, i)
      PROVE  links' = links
  BY <1>3 DEF TaskStep, tables, InferSummary, InferStatus, Backfill
<1>4. ASSUME NEW p \in Procs, RepositoryStep(p) PROVE links' = links
  BY <1>4 DEF RepositoryStep, tables, Select, Commit, CommitFails
<1>5. CASE Tick \/ (\E r \in Replicas : Crash(r)) \/ UNCHANGED vars
  BY <1>5 DEF Tick, Crash, vars, tables
<1> QED
  BY <1>1, <1>2, <1>3, <1>4, <1>5 DEF Next

\* An entry that is recorded is counted before and after.
LEMMA RecordCounted ==
  ASSUME IInv, IInv', IsFiniteSet(Handlers), AuditOutcomes = {"recorded"},
         NEW h \in Handlers, RecordAudit(h), NEW action, NEW i, NEW change
  PROVE  LinkEntries(action, i, change)' = LinkEntries(action, i, change)
<1> DEFINE log == InLog(action, i, change)
           await == Awaiting(action, i, change)
           said == Says(calls[h].entry, action, i, change)
<1>1. /\ audit' = Append(audit, calls[h].entry) /\ calls[h].pc = "audit"
      /\ audit \in Seq(Entries) /\ calls[h].entry \in Entries
  BY DEF RecordAudit, IInv, TypeOK, GoodCall, EntryPcs, Procs
<1>2. /\ Len(audit) + 1 \notin DOMAIN audit /\ Len(audit) + 1 \in DOMAIN audit'
      /\ audit'[Len(audit) + 1] = calls[h].entry
      /\ DOMAIN audit' = DOMAIN audit \cup {Len(audit) + 1}
      /\ \A k \in DOMAIN audit : audit'[k] = audit[k]
  BY <1>1
<1>3. log' = IF said THEN log \cup {Len(audit) + 1} ELSE log
  BY <1>2 DEF InLog, Says
<1>4. Len(audit) + 1 \notin log
  BY <1>2 DEF InLog
<1>5. /\ calls'[h].pc # "audit"
      /\ \A g \in Handlers \ {h} : calls'[g] = calls[g]
  BY DEF RecordAudit, Become, IInv, TypeOK, Procs, Call, Idle
<1>6. await' = await \ {h} /\ (h \in await <=> said)
  BY <1>1, <1>5 DEF Awaiting, Says
<1>7. /\ IsFiniteSet(log) /\ IsFiniteSet(await)
      /\ Cardinality(log) \in Nat /\ Cardinality(await) \in Nat
      /\ LinkEntries(action, i, change) = Cardinality(log) + Cardinality(await)
  BY LinkEntriesCounted
<1>8. LinkEntries(action, i, change)' = Cardinality(log') + Cardinality(await')
  BY DEF LinkEntries, InLog, Awaiting
<1>9. Cardinality(log') = IF said THEN Cardinality(log) + 1 ELSE Cardinality(log)
  <2> HIDE DEF log
  <2> QED
    BY <1>3, <1>4, <1>7, FS_AddElement
<1>10. Cardinality(await') = IF said THEN Cardinality(await) - 1 ELSE Cardinality(await)
  <2> HIDE DEF await
  <2> QED
    BY <1>6, <1>7, FS_RemoveElement
<1> HIDE DEF log, await, said
<1> QED
  BY <1>7, <1>8, <1>9, <1>10

\* A handler that arrives at its audit call adds its entry to the count.
LEMMA ArrivalCounted ==
  ASSUME IInv, IsFiniteSet(Handlers), NEW h \in Handlers, calls[h].pc # "audit",
         calls'[h] = [calls[h] EXCEPT !.pc = "audit"],
         \A g \in Handlers \ {h} : calls'[g] = calls[g],
         audit' = audit, NEW action, NEW i, NEW change
  PROVE  LinkEntries(action, i, change)' =
           LinkEntries(action, i, change)
           + (IF Says(calls[h].entry, action, i, change) THEN 1 ELSE 0)
<1> DEFINE log == InLog(action, i, change)
           await == Awaiting(action, i, change)
           said == Says(calls[h].entry, action, i, change)
<1>1. calls'[h].pc = "audit" /\ calls'[h].entry = calls[h].entry
  BY DEF IInv, TypeOK, Calls, Procs
<1>2. log' = log
  BY DEF InLog
<1>3. await' = (IF said THEN await \cup {h} ELSE await) /\ h \notin await
  BY <1>1 DEF Awaiting
<1>4. /\ IsFiniteSet(await)
      /\ Cardinality(log) \in Nat /\ Cardinality(await) \in Nat
      /\ LinkEntries(action, i, change) = Cardinality(log) + Cardinality(await)
  BY LinkEntriesCounted
<1>5. LinkEntries(action, i, change)' = Cardinality(log') + Cardinality(await')
  BY DEF LinkEntries, InLog, Awaiting
<1>6. Cardinality(await') = IF said THEN Cardinality(await) + 1 ELSE Cardinality(await)
  <2> HIDE DEF await
  <2> QED
    BY <1>3, <1>4, FS_AddElement
<1> HIDE DEF log, await
<1> QED
  BY <1>2, <1>4, <1>5, <1>6

\* The entry of a handler that is at the statement that inserts or deletes a link.
LEMMA LinkEntrySays ==
  ASSUME IInv, Discipline, NEW h \in Handlers, calls[h].pc \in {"insert_link", "delete_link"},
         NEW i \in Ids, NEW c \in Changes
  PROVE  LET e == calls[h].entry IN
         /\ Says(e, "incident.change_linked", i, c) <=>
              calls[h].pc = "insert_link" /\ <<i, c>> = <<calls[h].id, e.after>>
         /\ Says(e, "incident.change_unlinked", i, c) <=>
              calls[h].pc = "delete_link" /\ <<i, c>> = <<calls[h].id, e.before>>
<1> DEFINE e == calls[h].entry
<1>1. EntryFits(calls[h]) /\ e.incident = calls[h].id /\ e.action = ActionAt[calls[h].pc]
  BY DEF Discipline, Disciplined, EntryPcs, EntryFits, ActionAt, Procs
<1>2. IsLinkEntry(e)
  BY <1>1 DEF ActionAt, IsLinkEntry
<1>3. PICK d \in Changes : Linked(e, d) \/ Unlinked(e, d)
  BY <1>1, <1>2 DEF EntryFits
<1>4. None \notin Changes
  BY NoneAssumption
<1> QED
  BY <1>1, <1>3, <1>4 DEF ActionAt, Linked, Unlinked, Says

\* A step that sends no entry changes the count of a link only by the statement
\* that inserts or deletes it.
LEMMA BalanceStep ==
  ASSUME IInv, Discipline, LinkTrailBalanced, [Next]_vars, IInv',
         IsFiniteSet(Handlers), AuditOutcomes = {"recorded"}, ~MayCrash
  PROVE  LinkTrailBalanced'
<1> SUFFICES ASSUME NEW i \in Ids, NEW c \in Changes
             PROVE  LinkEntries("incident.change_linked", i, c)' <=
                      LinkEntries("incident.change_unlinked", i, c)'
                      + (IF <<i, c>> \in links' THEN 1 ELSE 0)
  BY DEF LinkTrailBalanced
<1> DEFINE count(action) == LinkEntries(action, i, c)
           linked == "incident.change_linked"
           unlinked == "incident.change_unlinked"
<1>1. count(linked) <= count(unlinked) + (IF <<i, c>> \in links THEN 1 ELSE 0)
  BY DEF LinkTrailBalanced
<1>2. count(linked) \in Nat /\ count(unlinked) \in Nat
  BY LinkEntriesCounted
<1>3. CASE \E h \in Handlers : RecordAudit(h)
  <2>1. PICK h \in Handlers : RecordAudit(h)
    BY <1>3
  <2>2. count(linked)' = count(linked) /\ count(unlinked)' = count(unlinked)
    BY <2>1, RecordCounted
  <2>3. links' = links
    BY <2>1 DEF RecordAudit, tables
  <2> HIDE DEF count
  <2> QED
    BY <1>1, <2>2, <2>3 DEF count
<1>4. ASSUME NEW h \in Handlers, KeepsEntry(h), InsertLink(h) \/ DeleteLink(h), audit' = audit
      PROVE  count(linked)' <= count(unlinked)' + (IF <<i, c>> \in links' THEN 1 ELSE 0)
  <2> DEFINE e == calls[h].entry
  <2>1. calls[h].pc \in {"insert_link", "delete_link"}
    BY <1>4 DEF InsertLink, DeleteLink
  <2>2. \A g \in Handlers \ {h} : calls'[g] = calls[g]
    BY <1>4, <2>1, OthersStay DEF Procs, HandlerStep, Spawn
  <2>3. \A action : count(action)' = count(action) + (IF Says(e, action, i, c) THEN 1 ELSE 0)
    BY <1>4, <2>1, <2>2, ArrivalCounted DEF KeepsEntry
  <2>4. CASE InsertLink(h)
    <3>1. /\ calls[h].pc = "insert_link" /\ <<calls[h].id, e.after>> \notin links
          /\ links' = links \cup {<<calls[h].id, e.after>>}
      BY <1>4, <2>4 DEF InsertLink, LinkInsertable, AfterRefusal, Become, KeepsEntry, Idle, Call,
         IInv, TypeOK, Procs
    <3>2. /\ count(linked)' = count(linked) +
               (IF <<i, c>> = <<calls[h].id, e.after>> THEN 1 ELSE 0)
          /\ count(unlinked)' = count(unlinked)
      BY <1>2, <2>1, <2>3, <3>1, LinkEntrySays
    <3> HIDE DEF count, e
    <3> QED
      BY <1>1, <1>2, <3>1, <3>2
  <2>5. CASE DeleteLink(h)
    <3>1. /\ calls[h].pc = "delete_link"
          /\ links' = links \ {<<calls[h].id, e.before>>}
      BY <2>5 DEF DeleteLink
    <3>2. /\ count(linked)' = count(linked)
          /\ count(unlinked)' = count(unlinked) +
               (IF <<i, c>> = <<calls[h].id, e.before>> THEN 1 ELSE 0)
      BY <1>2, <2>1, <2>3, <3>1, LinkEntrySays
    <3> HIDE DEF count, e
    <3> QED
      BY <1>1, <1>2, <3>1, <3>2
  <2> QED
    BY <1>4, <2>4, <2>5
<1>5. CASE /\ ~ \E h \in Handlers : RecordAudit(h)
           /\ ~ \E h \in Handlers : KeepsEntry(h) /\ (InsertLink(h) \/ DeleteLink(h))
  <2>1. audit' = audit
    BY <1>5, AuditMoves
  <2>2. links' = links
    <3>1. ASSUME NEW h \in Handlers, InsertLink(h) \/ DeleteLink(h), ~KeepsEntry(h)
          PROVE  links' = links
      <4>1. /\ h \in Procs /\ calls \in [Procs -> Calls]
            /\ calls' = [calls EXCEPT ![h] = [calls[h] EXCEPT !.pc = "audit"]] => KeepsEntry(h)
        BY <3>1 DEF IInv, TypeOK, Procs, KeepsEntry, Calls
      <4> QED
        BY <3>1, <4>1 DEF InsertLink, DeleteLink, Become
    <3> QED
      BY <1>5, <3>1, LinksMove
  <2>3. ASSUME NEW action \in {linked, unlinked}
        PROVE  Awaiting(action, i, c)' = Awaiting(action, i, c)
    <3>1. ASSUME NEW h \in Handlers, calls[h].pc = "audit" PROVE calls'[h] = calls[h]
      BY <1>5, <3>1, AuditWaits
    <3>2. ASSUME NEW h \in Handlers, calls'[h].pc = "audit", Says(calls'[h].entry, action, i, c)
          PROVE  calls'[h] = calls[h]
      <4>1. IsLinkEntry(calls'[h].entry)
        BY <2>3, <3>2 DEF Says, IsLinkEntry
      <4>2. ~KeepsEntry(h)
        <5> SUFFICES ASSUME KeepsEntry(h) PROVE Delete(h) /\ FALSE
          BY <1>5 DEF KeepsEntry
        <5>1. Delete(h) /\ calls'[h].entry = calls[h].entry
          BY <1>5 DEF KeepsEntry
        <5>2. calls[h].entry.action = "incident.deleted"
          BY <5>1 DEF Delete, Discipline, Disciplined, EntryPcs, EntryFits, ActionAt, Procs
        <5> QED
          BY <4>1, <5>1, <5>2 DEF IsLinkEntry
      <4> QED
        BY <3>2, <4>1, <4>2, AuditArrival
    <3> QED
      BY <3>1, <3>2 DEF Awaiting
  <2>4. \A action \in {linked, unlinked} : count(action)' = count(action)
    BY <2>1, <2>3 DEF LinkEntries, Awaiting
  <2> HIDE DEF count
  <2> QED
    BY <1>1, <2>2, <2>4 DEF count
<1> QED
  BY <1>3, <1>4, <1>5, AuditMoves

\* Where the audit service records every event and no replica dies, the log accounts
\* for every link: linking twice is audited once, because the second request finds
\* the link or is refused by UNIQUE (incident_id, change_id) before its audit call.
THEOREM LinkTrail ==
  ASSUME IsFiniteSet(Handlers), AuditOutcomes = {"recorded"}, ~MayCrash
  PROVE  Spec => []LinkTrailBalanced
<1>1. Init => LinkTrailBalanced
  <2> SUFFICES ASSUME Init, NEW i \in Ids, NEW c \in Changes
               PROVE  \A action : LinkEntries(action, i, c) = 0
    BY DEF LinkTrailBalanced
  <2> TAKE action
  <2>1. Cardinality({}) = 0
    BY FS_EmptySet
  <2>2. /\ {k \in DOMAIN audit : Says(audit[k], action, i, c)} = {}
        /\ {h \in Handlers : calls[h].pc = "audit"
                              /\ Says(calls[h].entry, action, i, c)} = {}
    BY DEF Init, Procs, Idle, Call
  <2> QED
    BY <2>1, <2>2 DEF LinkEntries
<1>2. IInv /\ IInv' /\ Discipline /\ LinkTrailBalanced /\ [Next]_vars => LinkTrailBalanced'
  BY BalanceStep
<1> QED
  BY <1>1, <1>2, Disciplines, PTL DEF Spec

-----------------------------------------------------------------------------
(***************************************************************************)
(* Races of status requests.  A request that is alone between its read and *)
(* its commit has a copy that is not old where it matters, so until two    *)
(* meet the service implements the strict lifecycle.                       *)
(***************************************************************************)
RacesStep == [Next /\ Watch]_<<vars, history>>

\* Every step of the service is watched, and there are no others.
LEMMA WatchedNext == RacesSpec => RacesInit /\ [][Next /\ Watch]_<<vars, history>>
<1>1. [RacesNext]_<<vars, history>> => [Next /\ Watch]_<<vars, history>>
  BY DEF RacesNext, Next
<1> QED
  BY <1>1, PTL DEF RacesSpec

\* What the history variables remember of a step.
LEMMA Watched ==
  ASSUME RaceInv, RacesStep
  PROVE  /\ [Next]_vars /\ RaceInv'
         /\ contested \subseteq contested' /\ untold \subseteq untold'
         /\ \A h \in Handlers : Silenced(h) => calls[h].id \in untold'
<1>1. CASE Next /\ Watch
  <2>1. Overlapping(Uncommitted)' \subseteq Overlapping(UnderWay)'
    BY DEF Overlapping, Uncommitted, UnderWay
  <2>2. /\ contested' = contested \cup Overlapping(Uncommitted)'
        /\ untold' = untold \cup Overlapping(UnderWay)'
                            \cup {calls[h].id : h \in {g \in Handlers : Silenced(g)}}
    BY <1>1 DEF Watch
  <2>3. ASSUME NEW h \in Handlers, Silenced(h) PROVE calls[h].id \in untold'
    BY <2>2, <2>3
  <2>4. RaceInv'
    BY <2>1, <2>2 DEF RaceInv
  <2> QED
    BY <1>1, <2>2, <2>3, <2>4
<1>2. CASE UNCHANGED <<vars, history>>
  <2>1. calls' = calls /\ contested' = contested /\ untold' = untold
    BY <1>2 DEF vars, history
  <2>2. RaceInv'
    BY <2>1 DEF RaceInv, Overlapping
  <2>3. \A h \in Handlers : ~Silenced(h)
    BY <2>1 DEF Silenced
  <2> QED
    BY <1>2, <2>1, <2>2, <2>3
<1> QED
  BY <1>1, <1>2 DEF RacesStep

\* Watching the service does not change it.
LEMMA WatchedSpec == RacesSpec => Spec
<1>1. RacesInit => Init
  BY DEF RacesInit
<1>2. [Next /\ Watch]_<<vars, history>> => [Next]_vars
  OBVIOUS
<1> QED
  BY <1>1, <1>2, WatchedNext, PTL DEF Spec

\* The history variables name the overlaps there are.
LEMMA RacesSeen == RacesSpec => []RaceInv
<1>1. RacesInit => RaceInv
  BY DEF RacesInit, Init, RaceInv, Overlapping, Idle, Call, Procs, Uncommitted, UnderWay
<1>2. RaceInv /\ [Next /\ Watch]_<<vars, history>> => RaceInv'
  BY Watched DEF RacesStep
<1> QED
  BY <1>1, <1>2, WatchedNext, PTL

\* A commit of any other operation leaves status and stamps as they are stored.
LEMMA OtherCommit ==
  ASSUME IInv, Discipline, NEW i \in Ids, NEW p \in Procs, Overwritten(i, p),
         calls[p].op \notin StatusOps
  PROVE  SameMilestones(incidents'[i], incidents[i])
<1> DEFINE columns == {"status", "first_response_at", "resolved_at"}
           loaded == calls[p].loaded
           pending == calls[p].pending
<1>1. /\ calls[p].pc = "commit" /\ incidents[i] \in IncidentRow
      /\ incidents'[i] = Flush(incidents[i], loaded, pending)
  BY DEF Overwritten, Commit, IInv, TypeOK
<1>2. /\ loaded \in IncidentRow /\ DirtyColumns(loaded, pending) \subseteq Owned[calls[p].op]
      /\ calls[p].op \in ClientOps \cup TaskOps
  BY <1>1, CommitFacts, OperationsAssumption
<1>3. calls[p].op \in DOMAIN Owned
  <2>1. p \in Handlers => calls[p].op \in UpdateOps
    BY <1>1 DEF IInv, GoodCall
  <2>2. p \notin Handlers => calls[p].op \in TaskOps
    BY <1>1, CommitFacts
  <2> QED
    BY <2>1, <2>2 DEF UpdateOps, TaskOps, Owned
<1>4. Owned[calls[p].op] \cap columns = {}
  BY <1>3 DEF Owned, StatusOps
<1>5. columns \subseteq DOMAIN incidents[i]
  BY <1>1 DEF IncidentRow
<1>6. \A c \in columns : incidents'[i][c] = incidents[i][c]
  <2> SUFFICES ASSUME NEW c \in columns PROVE incidents'[i][c] = incidents[i][c]
    OBVIOUS
  <2>1. /\ c \in DOMAIN loaded
        /\ incidents'[i][c] = IF pending[c] # loaded[c] THEN pending[c] ELSE incidents[i][c]
    BY <1>1, <1>2, <1>5, FlushColumns
  <2>2. pending[c] = loaded[c]
    BY <1>2, <1>4, <2>1 DEF DirtyColumns
  <2> QED
    BY <2>1, <2>2
<1> QED
  BY <1>6 DEF SameMilestones

\* A commit of a status that is not contested stores what the session has decided:
\* its copy has the status and the stamps of the row.
LEMMA StatusCommit ==
  ASSUME IInv, Discipline, CopiesFresh, NEW i \in Ids \ contested, NEW p \in Procs,
         Overwritten(i, p), calls[p].op \in StatusOps
  PROVE  /\ p \in Handlers
         /\ SameMilestones(incidents[i], calls[p].loaded)
         /\ SameMilestones(incidents'[i], calls[p].pending)
<1> DEFINE columns == {"status", "first_response_at", "resolved_at"}
           loaded == calls[p].loaded
           pending == calls[p].pending
<1>1. /\ calls[p].pc = "commit" /\ calls[p].id = i /\ Stored(i)
      /\ incidents[i] \in IncidentRow
      /\ incidents'[i] = Flush(incidents[i], loaded, pending)
  BY DEF Overwritten, Commit, IInv, TypeOK, Stored
<1>2. p \in Handlers /\ loaded \in IncidentRow
  BY <1>1, CommitFacts DEF StatusOps, TaskOps
<1>3. SameMilestones(incidents[i], loaded)
  BY <1>1, <1>2 DEF CopiesFresh, Uncommitted
<1>4. columns \subseteq DOMAIN incidents[i]
  BY <1>1 DEF IncidentRow
<1>5. \A c \in columns : incidents'[i][c] = IF pending[c] # loaded[c]
                                            THEN pending[c] ELSE incidents[i][c]
  BY <1>1, <1>2, <1>4, FlushColumns
<1>6. SameMilestones(incidents'[i], pending)
  <2> HIDE DEF loaded, pending
  <2> QED
    BY <1>3, <1>5 DEF SameMilestones
<1> QED
  BY <1>2, <1>3, <1>6

\* What a commit does, then, to the status and the stamps of such a row.
LEMMA StatusMoves ==
  ASSUME IInv, Discipline, CopiesFresh, NEW i \in Ids \ contested, NEW p \in Procs,
         Overwritten(i, p)
  PROVE  /\ incidents'[i].status \in
              {incidents[i].status} \cup AllowedTransitions[incidents[i].status]
         /\ LeavesStamps(incidents[i], incidents'[i])
<1>1. calls[p].pc = "commit"
  BY DEF Overwritten, Commit
<1>2. CASE calls[p].op \notin StatusOps
  BY <1>2, OtherCommit DEF SameMilestones, LeavesStamps
<1>3. CASE calls[p].op \in StatusOps
  <2>1. /\ SameMilestones(incidents[i], calls[p].loaded)
        /\ SameMilestones(incidents'[i], calls[p].pending)
    BY <1>3, StatusCommit
  <2>2. /\ StepsForward(calls[p].loaded, calls[p].pending)
        /\ LeavesStamps(calls[p].loaded, calls[p].pending)
    BY <1>1, CommitFacts
  <2> QED
    BY <2>1, <2>2 DEF SameMilestones, StepsForward, LeavesStamps
<1> QED
  BY <1>2, <1>3

\* No other status request is about to commit to the incident of h.
Alone(h) ==
  \A g \in Handlers : g # h /\ calls[g].op \in StatusOps /\ calls[g].id = calls[h].id =>
    calls[g].pc # "commit"

\* A row that one status request is alone with is not given another status or
\* stamp by anybody else.
LEMMA OthersLeaveStatus ==
  ASSUME IInv, Discipline, [Next]_vars, NEW h \in Handlers, Alone(h),
         calls[h].op \in StatusOps, calls[h].pc # "idle",
         ~Commit(h), calls[h].id \in DOMAIN incidents'
  PROVE  Stored(calls[h].id) /\ SameMilestones(incidents'[calls[h].id], incidents[calls[h].id])
<1> DEFINE i == calls[h].id
<1>1. i \in Ids /\ i < next_id /\ i \in DOMAIN incidents'
  <2>1. h \in Procs /\ GoodCall(incidents, next_id, h, calls[h])
    BY DEF IInv, Procs
  <2> QED
    BY <2>1 DEF GoodCall, Stored
<1>2. CASE SameRow(i)
  BY <1>1, <1>2 DEF SameRow, SameMilestones, Stored
<1>3. ~Created(i) /\ ~Removed(i)
  BY <1>1 DEF Created, Removed, IInv, TypeOK
<1>4. ASSUME NEW p \in Procs, Overwritten(i, p)
      PROVE  Stored(i) /\ SameMilestones(incidents'[i], incidents[i])
  <2>1. calls[p].pc = "commit" /\ calls[p].id = i /\ p # h
    BY <1>4 DEF Overwritten, Commit
  <2>2. calls[p].op \in IF p \in Handlers THEN Serves[p] ELSE TaskOps
    BY <2>1, CommitFacts
  <2>3. calls[p].op \notin StatusOps
    BY <2>1, <2>2 DEF Alone, StatusOps, TaskOps
  <2> QED
    BY <1>1, <1>4, <2>3, OtherCommit DEF Overwritten, Stored
<1> QED
  BY <1>1, <1>2, <1>3, <1>4, RowSteps DEF RowStep

\* Where a handler stands that is at the statements of an update after a step.
LEMMA AtUpdate ==
  ASSUME IInv, [Next]_vars, NEW h \in Handlers, calls'[h].pc \in {"select", "commit"}
  PROVE  \/ /\ calls[h].pc \in {"select", "commit"} /\ ~Commit(h)
            /\ calls'[h].op = calls[h].op /\ calls'[h].id = calls[h].id
            /\ calls'[h].loaded = calls[h].loaded
         \/ /\ Request(h) /\ calls[h].pc = "idle"
            /\ UNCHANGED <<incidents, next_id>> /\ Stored(calls'[h].id)
            /\ calls'[h].loaded = incidents[calls'[h].id]
<1> DEFINE call == calls[h]
<1>1. /\ h \in Procs /\ h \notin Tasks
      /\ call \in Calls /\ GoodCall(incidents, next_id, h, call)
      /\ \A next : Become(h, next) \/ Enter(h, next) => calls'[h] = next
  BY ProcsAssumption DEF IInv, TypeOK, Procs, Become, Enter
<1>2. CASE Request(h)
  <2>1. CASE \E d \in Details, s \in SeverityInputs : CreateIncident(h, d, s)
    <3>1. \E i, entry : calls'[h] = Call("audit", "CreateIncident", i, entry)
      BY <1>1, <2>1 DEF CreateIncident
    <3> QED
      BY <3>1 DEF Call
  <2>2. CASE ~ \E d \in Details, s \in SeverityInputs : CreateIncident(h, d, s)
    <3>1. \/ \E op, i, columns : /\ calls'[h] = Update(op, i, columns)
                                 /\ Stored(i) /\ UNCHANGED <<incidents, next_id>>
          \/ \E pc \in {"insert_update", "select_delete", "check_link", "delete_link"} :
               \E op, i, entry : calls'[h] = Call(pc, op, i, entry)
      BY <1>1, <1>2, <2>2 DEF Request, UpdateIncident, UpdateIncidentStatus,
         UpdateIncidentSeverity, AcceptSuggestedSeverity, AcceptSuggestedStatus, tables,
         AssignIncident, AddIncidentUpdate, DeleteIncident, LinkChange, UnlinkChange
    <3>2. ASSUME NEW op, NEW i, NEW columns, calls'[h] = Update(op, i, columns)
          PROVE  calls'[h].id = i /\ calls'[h].loaded = incidents[i]
      BY <3>2 DEF Update
    <3>3. ASSUME NEW pc, NEW op, NEW i, NEW entry, calls'[h] = Call(pc, op, i, entry)
          PROVE  calls'[h].pc = pc
      BY <3>3 DEF Call
    <3>4. calls[h].pc = "idle"
      BY <1>2 DEF Request, Ready, CreateIncident, UpdateIncident, UpdateIncidentStatus,
         UpdateIncidentSeverity, AcceptSuggestedSeverity, AcceptSuggestedStatus,
         AssignIncident, AddIncidentUpdate, DeleteIncident, LinkChange, UnlinkChange
    <3> QED
      BY <1>2, <3>1, <3>2, <3>3, <3>4
  <2> QED
    BY <2>1, <2>2
<1>3. CASE RepositoryStep(h)
  <2>1. CASE Select(h)
    <3>1. call.pc = "select" /\ call.loaded # None
      BY <1>1, <2>1, NoRowAssumption DEF Select, GoodCall, GoodCopy
    <3>2. AfterNothing(h) = Idle
      BY DEF AfterNothing
    <3>3. PICK pending : calls'[h] \in {Idle, [call EXCEPT !.pc = "commit",
                                     !.loaded = call.loaded, !.pending = pending]}
      BY <1>1, <2>1, <3>1, <3>2 DEF Select
    <3>4. calls'[h] # Idle
      BY DEF Idle, Call
    <3>5. /\ calls'[h].op = call.op /\ calls'[h].id = call.id
          /\ calls'[h].loaded = call.loaded
      BY <1>1, <3>3, <3>4 DEF Calls
    <3> QED
      BY <3>1, <3>5 DEF Commit
  <2>2. CASE Commit(h) \/ CommitFails(h)
    <3>1. AfterCommit(h).pc = "refresh"
      BY <1>1 DEF AfterCommit, Calls
    <3> QED
      BY <1>1, <2>2, <3>1 DEF Commit, CommitFails, Idle, Call
  <2> QED
    BY <1>3, <2>1, <2>2 DEF RepositoryStep
<1>4. CASE HandlerStep(h) /\ ~Spawn(h)
  <2>1. \/ calls'[h] = Idle
        \/ \E pc \in {"note", "audit", "delete", "insert_link"} :
              calls'[h] = [call EXCEPT !.pc = pc]
        \/ \E pc \in {"audit", "spawn"} : \E op, i, entry : calls'[h] = Call(pc, op, i, entry)
    BY <1>1, <1>4 DEF HandlerStep, Refresh, Note, InsertUpdate, SelectDelete, Delete,
       CheckLink, InsertLink, DeleteLink, RecordAudit, AuditIf, AfterRefusal
  <2>2. ASSUME NEW pc, NEW op, NEW i, NEW entry, calls'[h] = Call(pc, op, i, entry)
        PROVE  calls'[h].pc = pc
    BY <2>2 DEF Call
  <2>3. ASSUME NEW pc, calls'[h] = [call EXCEPT !.pc = pc]
        PROVE  calls'[h].pc = pc
    BY <1>1, <2>3 DEF Calls
  <2>4. calls'[h] # Idle
    BY DEF Idle, Call
  <2> QED
    BY <2>1, <2>2, <2>3, <2>4
<1>5. CASE calls'[h] \in {call, Idle}
  <2>1. calls'[h] = call
    BY <1>5 DEF Idle, Call
  <2> QED
    BY <2>1, CommitMovesOn, <1>1 DEF Commit
<1> QED
  BY <1>1, <1>2, <1>3, <1>4, <1>5, OwnStep

\* The copy of a request that is alone between its read and its commit stays fresh.
LEMMA FreshStep ==
  ASSUME IInv, Discipline, RaceInv, CopiesFresh, RacesStep
  PROVE  CopiesFresh'
<1> SUFFICES ASSUME NEW h \in Handlers, calls'[h].op \in StatusOps,
                    calls'[h].pc \in Uncommitted, Stored(calls[h].id)',
                    calls'[h].id \notin contested'
             PROVE  SameMilestones(incidents'[calls'[h].id], calls'[h].loaded)
  BY DEF CopiesFresh
<1>1. [Next]_vars /\ contested \subseteq contested' /\ calls'[h].pc \in {"select", "commit"}
  BY Watched DEF Uncommitted
<1>2. CASE /\ calls[h].pc \in {"select", "commit"} /\ ~Commit(h)
           /\ calls'[h].op = calls[h].op /\ calls'[h].id = calls[h].id
           /\ calls'[h].loaded = calls[h].loaded
  <2>1. calls[h].id \in Ids /\ calls[h].id \notin contested
    <3>1. h \in Procs /\ GoodCall(incidents, next_id, h, calls[h])
      BY DEF IInv, Procs
    <3> QED
      BY <1>1, <1>2, <3>1 DEF GoodCall
  <2>2. Alone(h)
    BY <1>2, <2>1 DEF Alone, RaceInv, Overlapping, Uncommitted
  <2>3. /\ Stored(calls[h].id)
        /\ SameMilestones(incidents'[calls[h].id], incidents[calls[h].id])
    BY <1>1, <1>2, <2>2, OthersLeaveStatus DEF Stored
  <2>4. SameMilestones(incidents[calls[h].id], calls[h].loaded)
    BY <1>2, <2>1, <2>3 DEF CopiesFresh, Uncommitted
  <2> QED
    BY <1>2, <2>3, <2>4 DEF SameMilestones
<1>3. CASE /\ UNCHANGED incidents /\ Stored(calls'[h].id)
           /\ calls'[h].loaded = incidents[calls'[h].id]
  BY <1>3 DEF SameMilestones
<1> QED
  BY <1>1, <1>2, <1>3, AtUpdate

LEMMA Fresh == RacesSpec => []CopiesFresh
<1>1. RacesInit => CopiesFresh
  BY DEF RacesInit, Init, CopiesFresh, Procs, Idle, Call, Uncommitted
<1>2. IInv /\ Discipline /\ RaceInv /\ CopiesFresh /\ [Next /\ Watch]_<<vars, history>>
        => CopiesFresh'
  BY FreshStep DEF RacesStep
<1> QED
  BY <1>1, <1>2, WatchedSpec, RacesSeen, Disciplines, WatchedNext, PTL

\* A step that contests an incident is one request's read of its row.
LEMMA ContestStep ==
  ASSUME IInv, RaceInv, Next, Watch, NEW i \in contested', i \notin contested
  PROVE  /\ UNCHANGED <<incidents, next_id>> /\ i \in Ids /\ Stored(i)
         /\ contested' = contested \cup {i}
<1>1. /\ Uncommitted = {"select", "commit"} /\ [Next]_vars
      /\ contested' = contested \cup Overlapping(Uncommitted)'
  BY DEF Uncommitted, Watch
<1>2. ASSUME NEW j \in contested', j \notin contested
      PROVE  /\ j \in Ids
             /\ \E f \in Handlers :
                  /\ Request(f) /\ calls[f].pc = "idle" /\ calls'[f].pc \in Uncommitted
                  /\ calls'[f].id = j
                  /\ UNCHANGED <<incidents, next_id>> /\ Stored(j)
  <2>1. PICK g \in Handlers, h \in Handlers :
          /\ g # h /\ j \in Ids
          /\ calls'[g].op \in StatusOps /\ calls'[g].id = j /\ calls'[g].pc \in Uncommitted
          /\ calls'[h].op \in StatusOps /\ calls'[h].id = j /\ calls'[h].pc \in Uncommitted
    BY <1>1, <1>2 DEF Overlapping
  <2>2. ~ /\ calls[g].op \in StatusOps /\ calls[g].id = j /\ calls[g].pc \in Uncommitted
          /\ calls[h].op \in StatusOps /\ calls[h].id = j /\ calls[h].pc \in Uncommitted
    BY <1>2, <2>1 DEF RaceInv, Overlapping
  <2>3. ASSUME NEW f \in Handlers, calls'[f].pc \in Uncommitted, calls'[f].id = j,
               calls'[f].op \in StatusOps
        PROVE  \/ /\ calls[f].op \in StatusOps /\ calls[f].id = j
                  /\ calls[f].pc \in Uncommitted
               \/ /\ Request(f) /\ calls[f].pc = "idle"
                  /\ UNCHANGED <<incidents, next_id>> /\ Stored(j)
    BY <1>1, <2>3, AtUpdate
  <2> QED
    BY <2>1, <2>2, <2>3
<1>3. PICK f \in Handlers :
        /\ Request(f) /\ calls'[f].id = i
        /\ UNCHANGED <<incidents, next_id>> /\ Stored(i)
  BY <1>2
<1>4. ASSUME NEW j \in contested', j \notin contested PROVE j = i
  <2>1. PICK g \in Handlers : /\ calls[g].pc = "idle" /\ calls'[g].pc \in Uncommitted
                              /\ calls'[g].id = j
    BY <1>2, <1>4
  <2>2. g \in Procs /\ calls'[g] # calls[g]
    BY <1>1, <2>1 DEF Procs
  <2>3. g = f
    BY <1>3, <2>2, OthersStay
  <2> QED
    BY <1>3, <2>1, <2>3
<1> QED
  BY <1>1, <1>2, <1>3, <1>4

Seen(i) == IF i \in contested THEN "contested" ELSE StatusOf(i)

\* Every step is one of ForwardLifecycle's or leaves all statuses as they are seen.
LEMMA LifecycleStep ==
  ASSUME IInv, Discipline, RaceInv, CopiesFresh, RacesStep
  PROVE  [Contests!Next]_([i \in Ids |-> Seen(i)])
<1> DEFINE now == [i \in Ids |-> Seen(i)]
<1>1. [Next]_vars
  BY Watched
<1>2. CASE Next /\ Watch /\ contested' # contested
  <2>1. PICK i \in contested' : i \notin contested
    BY <1>2, Watched
  <2>2. /\ UNCHANGED <<incidents, next_id>> /\ i \in Ids /\ Stored(i)
        /\ contested' = contested \cup {i}
    BY <1>2, <2>1, ContestStep
  <2>3. Seen(i) \in Statuses
    BY <2>1, <2>2 DEF Seen, StatusOf, Stored, IInv, TypeOK, IncidentRow
  <2>4. \A j \in Ids : StatusOf(j)' = StatusOf(j)
    BY <2>2 DEF StatusOf, Stored
  <2>5. now' = [now EXCEPT ![i] = "contested"]
    BY <2>2, <2>4 DEF Seen
  <2>6. Contests!Contest(i)
    BY <2>2, <2>3, <2>5 DEF Contests!Contest, Contests!Statuses, Statuses, Seen
  <2> QED
    BY <2>2, <2>6 DEF Contests!Next, Seen
<1>3. ASSUME contested' = contested, \A j \in Ids : SameRow(j)
      PROVE  now' = now
  BY <1>3, SameRowSame DEF Seen
<1>4. ASSUME contested' = contested, NEW i \in Ids, RowStep(i)
      PROVE  /\ i \in contested => now' = now
             /\ i \notin contested => /\ now' = [now EXCEPT ![i] = StatusOf(i)']
                                      /\ now[i] = StatusOf(i)
  BY <1>4, SameRowSame DEF RowStep, Seen
<1>5. ASSUME contested' = contested, NEW i \in Ids, RowStep(i), i \notin contested
      PROVE  [Contests!Next]_now
  <2>0. now' = [now EXCEPT ![i] = StatusOf(i)'] /\ now[i] = StatusOf(i)
    BY <1>4, <1>5
  <2>1. CASE Created(i)
    <3>1. StatusOf(i) = "unborn"
      BY <2>1 DEF Created, StatusOf, Stored, IInv, TypeOK
    <3>2. incidents'[i].status = "open"
      BY <2>1 DEF Created, InitialRow
    <3>3. StatusOf(i)' = "open"
      BY <2>1, <3>2 DEF Created, StatusOf, Stored
    <3>4. Contests!Open(i)
      BY <2>0, <3>1, <3>3 DEF Contests!Open, Seen
    <3> QED
      BY <3>4 DEF Contests!Next, Seen
  <2>2. CASE Removed(i)
    <3>1. StatusOf(i) \in Statuses
      BY <2>2 DEF Removed, StatusOf, Stored, IInv, TypeOK, IncidentRow
    <3>2. StatusOf(i)' = "gone"
      BY <2>2 DEF Removed, StatusOf, Stored
    <3>3. Contests!Remove(i)
      BY <2>0, <3>1, <3>2 DEF Contests!Remove, Contests!Statuses, Statuses, Seen
    <3> QED
      BY <3>3 DEF Contests!Next, Seen
  <2>3. ASSUME NEW p \in Procs, Overwritten(i, p)
        PROVE  [Contests!Next]_now
    <3>1. /\ StatusOf(i) = incidents[i].status /\ StatusOf(i)' = incidents'[i].status
          /\ StatusOf(i) \in Statuses
      BY <2>3 DEF Overwritten, StatusOf, Stored, IInv, TypeOK, IncidentRow
    <3>2. CASE StatusOf(i)' = StatusOf(i)
      BY <2>0, <3>2
    <3>3. CASE StatusOf(i)' \in AllowedTransitions[StatusOf(i)]
      <4>1. Contests!Advance(i)
        BY <2>0, <3>1, <3>3
        DEF Contests!Advance, Contests!Statuses, Contests!AllowedTransitions,
            Statuses, AllowedTransitions, Seen
      <4> QED
        BY <4>1 DEF Contests!Next, Seen
    <3> QED
      BY <1>5, <2>3, <3>1, <3>2, <3>3, StatusMoves
  <2> QED
    BY <1>5, <2>1, <2>2, <2>3 DEF RowStep
<1>6. CASE contested' = contested
  BY <1>1, <1>3, <1>4, <1>5, <1>6, RowSteps
<1> QED
  BY <1>2, <1>6 DEF RacesStep, history

\* Until two status requests are between the read and the commit of an incident at
\* once, the incident moves along ALLOWED_TRANSITIONS one status at a time
\* (ARD-0017), whatever else is written to the same row meanwhile, in any number of
\* handlers, replicas and crashes.
THEOREM ImplementsLifecycle == RacesSpec => ForwardUnlessContested
<1>1. RacesInit => Contests!Init
  BY DEF RacesInit, Init, Contests!Init, StatusOf, Stored, Ids
<1>2. IInv /\ Discipline /\ RaceInv /\ CopiesFresh /\ [Next /\ Watch]_<<vars, history>> =>
        [Contests!Next]_([i \in Ids |-> IF i \in contested THEN "contested" ELSE StatusOf(i)])
  BY LifecycleStep DEF RacesStep, Seen
<1> QED
  BY <1>1, <1>2, WatchedNext, WatchedSpec, RacesSeen, Fresh, Disciplines, PTL
  DEF ForwardUnlessContested, Contests!Spec

\* Until then first_response_at and resolved_at keep the value they are first given
\* (_apply_sla_timestamps writes them only when they are NULL in the session's copy,
\* and that copy is fresh), also when the status they belong to is asked for again.
THEOREM StampsKept == RacesSpec => StampedOnceUnlessContested
<1>1. ASSUME IInv, Discipline, CopiesFresh, [Next]_vars,
             NEW i \in Ids \ contested, StaysStored(i)
      PROVE  /\ incidents[i].first_response_at \in {None, incidents'[i].first_response_at}
             /\ incidents[i].resolved_at \in {None, incidents'[i].resolved_at}
  <2>1. ~Created(i) /\ ~Removed(i) /\ Stored(i)
    BY <1>1 DEF StaysStored, Created, Removed, Stored
  <2>2. CASE SameRow(i)
    BY <2>1, <2>2 DEF SameRow, Stored
  <2>3. ASSUME NEW p \in Procs, Overwritten(i, p)
        PROVE  LeavesStamps(incidents[i], incidents'[i])
    BY <1>1, <2>3, StatusMoves
  <2> QED
    BY <1>1, <2>1, <2>2, <2>3, RowSteps DEF RowStep, LeavesStamps
<1>2. IInv /\ Discipline /\ CopiesFresh /\ [Next /\ Watch]_<<vars, history>> =>
        [\A i \in Ids \ contested : StaysStored(i) =>
           /\ incidents[i].first_response_at \in {None, incidents'[i].first_response_at}
           /\ incidents[i].resolved_at \in {None, incidents'[i].resolved_at}]_<<vars, history>>
  BY <1>1
<1> QED
  BY <1>2, WatchedSpec, Fresh, Disciplines, WatchedNext, PTL DEF StampedOnceUnlessContested

-----------------------------------------------------------------------------
(***************************************************************************)
(* The status trail of an incident about which no two status requests are  *)
(* under way at once and no record of a stored change is lost.             *)
(***************************************************************************)

\* A request to change a status starts on an idle handler and goes through its own
\* four statements, with the copy it has read first.
LEMMA StatusCallMoves ==
  ASSUME IInv, Discipline, [Next]_vars, NEW h \in Handlers, calls'[h].op \in StatusOps
  PROVE  \/ calls'[h] = calls[h]
         \/ /\ calls[h].pc = "idle" /\ calls'[h].pc = "select" /\ Stored(calls'[h].id)
            /\ UNCHANGED <<incidents, audit>>
         \/ /\ calls'[h].op = calls[h].op /\ calls'[h].id = calls[h].id
            /\ \/ /\ calls[h].pc = "select" /\ calls'[h].pc = "commit"
                  /\ UNCHANGED <<incidents, audit>>
               \/ /\ Commit(h) /\ calls'[h].pc = "refresh"
                  /\ calls'[h].loaded = calls[h].loaded
               \/ /\ Refresh(h) /\ Stored(calls[h].id) /\ calls'[h].pc = "audit"
                  /\ calls[h].loaded.status # incidents[calls[h].id].status
                  /\ calls'[h].entry.before.status = calls[h].loaded.status
                  /\ calls'[h].entry.after.status = incidents[calls[h].id].status
<1> DEFINE call == calls[h]
<1>1. /\ h \in Procs /\ h \notin Tasks
      /\ call \in Calls /\ GoodCall(incidents, next_id, h, call) /\ Disciplined(h, call)
      /\ \A next : Become(h, next) \/ Enter(h, next) => calls'[h] = next
  BY ProcsAssumption DEF IInv, TypeOK, Discipline, Procs, Become, Enter
<1>2. calls'[h] # Idle
  BY NoneAssumption DEF Idle, Call, StatusOps, ClientOps, UpdateOps
<1>3. CASE Request(h)
  <2>1. PICK i \in Ids : \/ \E s \in StatusInputs : UpdateIncidentStatus(h, i, s)
                         \/ AcceptSuggestedStatus(h, i)
    <3>1. ASSUME NEW op, NEW i, NEW columns, calls'[h] = Update(op, i, columns)
          PROVE  op \in StatusOps
      BY <3>1 DEF Update
    <3>2. ASSUME NEW pc, NEW op, NEW i, NEW entry, calls'[h] = Call(pc, op, i, entry)
          PROVE  op \in StatusOps
      BY <3>2 DEF Call
    <3>3. ASSUME NEW d, NEW s PROVE ~CreateIncident(h, d, s)
      BY <1>1, <3>2 DEF CreateIncident, StatusOps
    <3>4. ASSUME NEW i, NEW d, NEW s PROVE ~UpdateIncident(h, i, d, s)
      BY <1>1, <3>1 DEF UpdateIncident, StatusOps
    <3>5. ASSUME NEW i, NEW s PROVE ~UpdateIncidentSeverity(h, i, s) /\ ~AssignIncident(h, i, s)
      BY <1>1, <3>1 DEF UpdateIncidentSeverity, AssignIncident, StatusOps
    <3>6. ASSUME NEW i PROVE ~AcceptSuggestedSeverity(h, i)
      BY <1>1, <3>1 DEF AcceptSuggestedSeverity, StatusOps
    <3>7. ASSUME NEW i, NEW c PROVE ~LinkChange(h, i, c) /\ ~UnlinkChange(h, i, c)
      BY <1>1, <3>2 DEF LinkChange, UnlinkChange, StatusOps
    <3>8. ASSUME NEW i PROVE ~AddIncidentUpdate(h, i) /\ ~DeleteIncident(h, i)
      BY <1>1, <3>2 DEF AddIncidentUpdate, DeleteIncident, StatusOps
    <3> QED
      BY <1>3, <3>3, <3>4, <3>5, <3>6, <3>7, <3>8 DEF Request
  <2>2. /\ calls[h].pc = "idle" /\ Stored(i) /\ UNCHANGED <<incidents, audit>>
        /\ \E op, columns : calls'[h] = Update(op, i, columns)
    BY <1>1, <2>1 DEF UpdateIncidentStatus, AcceptSuggestedStatus, Ready, tables
  <2>3. calls'[h].pc = "select" /\ calls'[h].id = i
    BY <2>2 DEF Update
  <2> QED
    BY <2>2, <2>3
<1>4. CASE Select(h)
  <2>1. AfterNothing(h) = Idle
    BY DEF AfterNothing
  <2>2. PICK row, pending :
          calls'[h] = [call EXCEPT !.pc = "commit", !.loaded = row, !.pending = pending]
    BY <1>1, <1>2, <1>4, <2>1 DEF Select
  <2>3. calls'[h].pc = "commit" /\ calls'[h].op = call.op /\ calls'[h].id = call.id
    BY <1>1, <2>2 DEF Calls
  <2> QED
    BY <1>4, <2>3 DEF Select, tables
<1>5. CASE Commit(h)
  <2>1. calls'[h] = [call EXCEPT !.pc = "refresh"]
    BY <1>1, <1>5 DEF Commit, AfterCommit
  <2>2. /\ calls'[h].pc = "refresh" /\ calls'[h].op = call.op /\ calls'[h].id = call.id
        /\ calls'[h].loaded = call.loaded
    BY <1>1, <2>1 DEF Calls
  <2> QED
    BY <1>5, <2>2
<1>6. CASE Refresh(h)
  <2> DEFINE before == Project(call.loaded, {"status"})
             after == Project(incidents[call.id], {"status"})
             entry == Entry("incident.status_changed", call.id, before, after)
  <2>1. Stored(call.id)
    BY <1>1, <1>2, <1>6 DEF Refresh
  <2>2. call.op \in StatusOps
    <3>1. CASE call.op = "AssignIncident"
      <4>1. calls'[h] = [call EXCEPT !.pc = "note"]
        BY <1>1, <1>6, <2>1, <3>1 DEF Refresh
      <4>2. calls'[h].op = call.op
        BY <1>1, <4>1 DEF Calls
      <4> QED
        BY <3>1, <4>2 DEF StatusOps
    <3>2. CASE call.op # "AssignIncident"
      <4>1. PICK other : calls'[h] = Call("audit", call.op, call.id, other)
        BY <1>1, <1>2, <1>6, <2>1, <3>2 DEF Refresh, AuditIf
      <4> QED
        BY <4>1 DEF Call
    <3> QED
      BY <3>1, <3>2
  <2>3. /\ call.op # "AssignIncident" /\ call.op # "UpdateIncident"
        /\ AuditedColumns[call.op] = {"status"}
        /\ AuditAction[call.op] = "incident.status_changed"
    BY <2>2 DEF StatusOps, AuditedColumns, AuditAction
  <2>4. calls'[h] = AuditIf(call, before # after, entry)
    BY <1>1, <1>6, <2>1, <2>3 DEF Refresh
  <2>5. before # after /\ calls'[h] = Call("audit", call.op, call.id, entry)
    BY <1>2, <2>4 DEF AuditIf
  <2>6. before.status = call.loaded.status /\ after.status = incidents[call.id].status
    BY DEF Project
  <2>7. call.loaded.status # incidents[call.id].status
    BY <2>5 DEF Project
  <2>8. entry.before.status = before.status /\ entry.after.status = after.status
    BY DEF Entry
  <2> HIDE DEF before, after, entry
  <2>9. /\ calls'[h].pc = "audit" /\ calls'[h].entry = entry
        /\ calls'[h].op = call.op /\ calls'[h].id = call.id
    BY <2>5 DEF Call
  <2> QED
    BY <1>6, <2>1, <2>6, <2>7, <2>8, <2>9
<1>7. CASE HandlerStep(h) /\ ~Spawn(h) /\ ~Refresh(h)
  <2>1. CASE Note(h)
    <3>1. \E entry : calls'[h] = Call("audit", call.op, call.id, entry)
      BY <1>1, <1>2, <2>1 DEF Note, AuditIf
    <3>2. call.op = "AssignIncident"
      BY <1>1, <2>1 DEF Note, Disciplined
    <3> QED
      BY <3>1, <3>2 DEF Call, StatusOps
  <2>2. CASE RecordAudit(h)
    <3>1. calls'[h] = Call("spawn", call.op, call.id, None) /\ call.op \in DOMAIN Spawned
      BY <1>1, <1>2, <2>2 DEF RecordAudit
    <3> QED
      BY <3>1 DEF Call, Spawned, StatusOps
  <2>3. CASE \/ InsertUpdate(h) \/ SelectDelete(h) \/ Delete(h)
             \/ CheckLink(h) \/ InsertLink(h) \/ DeleteLink(h)
    <3>1. /\ call.pc \in DOMAIN ActionAt /\ call.pc \in EntryPcs
          /\ \E pc : calls'[h] = [call EXCEPT !.pc = pc]
      BY <1>1, <1>2, <2>3 DEF InsertUpdate, SelectDelete, Delete, CheckLink, InsertLink,
         DeleteLink, AfterRefusal, ActionAt, EntryPcs
    <3>2. calls'[h].op = call.op
      BY <1>1, <3>1 DEF Calls
    <3>3. ~IsStatusChange(call.entry) /\ EntryFits(call)
      BY <1>1, <3>1 DEF Disciplined, EntryFits, IsStatusChange, ActionAt
    <3> QED
      BY <3>2, <3>3 DEF EntryFits
  <2> QED
    BY <1>7, <2>1, <2>2, <2>3 DEF HandlerStep
<1>8. CASE CommitFails(h)
  BY <1>1, <1>2, <1>8 DEF CommitFails
<1> QED
  BY <1>1, <1>2, <1>3, <1>4, <1>5, <1>6, <1>7, <1>8, OwnStep DEF HandlerStep, RepositoryStep

\* Such a request ends with its audit call, or without one when the row already had
\* the status, because the row is gone, or because its replica dies.
LEMMA StatusCallEnds ==
  ASSUME IInv, [Next]_vars, NEW h \in Handlers, calls[h].op \in StatusOps,
         calls[h].pc \in UnderWay, Stored(calls[h].id)
  PROVE  \/ calls'[h].op = calls[h].op /\ calls'[h].id = calls[h].id
         \/ RecordAudit(h)
         \/ Refresh(h) /\ calls[h].loaded.status = incidents[calls[h].id].status
         \/ calls'[h] = Idle /\ UNCHANGED <<incidents, next_id, audit>>
<1> DEFINE call == calls[h]
<1>1. /\ h \in Procs /\ call \in Calls
      /\ \A next : Become(h, next) => calls'[h] = next
  BY DEF IInv, TypeOK, Procs, Become
<1>2. CASE call.pc = "select" /\ RepositoryStep(h)
  <2>1. \E row, pending :
          calls'[h] = [call EXCEPT !.pc = "commit", !.loaded = row, !.pending = pending]
    BY <1>1, <1>2 DEF RepositoryStep, Select, Commit, CommitFails
  <2> QED
    BY <1>1, <2>1 DEF Calls
<1>3. CASE call.pc = "commit" /\ RepositoryStep(h)
  <2>1. calls'[h] = [call EXCEPT !.pc = "refresh"]
    BY <1>1, <1>3 DEF RepositoryStep, Select, Commit, CommitFails, AfterCommit
  <2> QED
    BY <1>1, <2>1 DEF Calls
<1>4. CASE call.pc = "refresh" /\ Refresh(h)
  <2> DEFINE before == Project(call.loaded, {"status"})
             after == Project(incidents[call.id], {"status"})
  <2>1. /\ call.op # "AssignIncident" /\ call.op # "UpdateIncident"
        /\ AuditedColumns[call.op] = {"status"}
    BY DEF StatusOps, AuditedColumns
  <2>2. PICK entry : calls'[h] = AuditIf(call, before # after, entry)
    BY <1>1, <1>4, <2>1 DEF Refresh
  <2>3. CASE before = after
    <3>1. before.status = call.loaded.status /\ after.status = incidents[call.id].status
      BY DEF Project
    <3> QED
      BY <1>4, <2>3, <3>1
  <2>4. CASE before # after
    <3>1. calls'[h] = Call("audit", call.op, call.id, entry)
      BY <2>2, <2>4 DEF AuditIf
    <3> QED
      BY <3>1 DEF Call
  <2> QED
    BY <2>3, <2>4
<1>5. ~Request(h)
  BY DEF UnderWay, Request, Ready, CreateIncident, UpdateIncident, UpdateIncidentStatus,
     UpdateIncidentSeverity, AcceptSuggestedSeverity, AcceptSuggestedStatus, AssignIncident,
     AddIncidentUpdate, DeleteIncident, LinkChange, UnlinkChange
<1>6. /\ HandlerStep(h) => RecordAudit(h) \/ (call.pc = "refresh" /\ Refresh(h))
      /\ RepositoryStep(h) => call.pc \in {"select", "commit"}
  BY DEF UnderWay, HandlerStep, Refresh, Note, InsertUpdate, SelectDelete, Delete, CheckLink,
     InsertLink, DeleteLink, Spawn, RepositoryStep, Select, Commit, CommitFails
<1>7. call.pc # "spawn"
  BY DEF UnderWay
<1> QED
  BY <1>2, <1>3, <1>4, <1>5, <1>6, <1>7, HandlerMoves

ToldNow(i, status) == ToldBefore(i, Len(audit) + 1, status)

\* What the log tells up to a position does not depend on what is appended.
LEMMA PastStays ==
  ASSUME audit \in Seq(Entries), NEW i,
         audit' = audit \/ \E e \in Entries : audit' = Append(audit, e)
  PROVE  /\ \A k \in DOMAIN audit : /\ k \in DOMAIN audit' /\ audit'[k] = audit[k]
                                    /\ k \in StatusEntries(i)' <=> k \in StatusEntries(i)
         /\ \A k \in 1..(Len(audit) + 1) : \A status :
              ToldBefore(i, k, status)' <=> ToldBefore(i, k, status)
<1>1. /\ DOMAIN audit = 1..Len(audit) /\ Len(audit) \in Nat
      /\ \A k \in DOMAIN audit : k \in DOMAIN audit' /\ audit'[k] = audit[k]
      /\ \A k \in DOMAIN audit' : k \in DOMAIN audit \/ k = Len(audit) + 1
  OBVIOUS
<1>2. ASSUME NEW k \in DOMAIN audit
      PROVE  k \in StatusEntries(i)' <=> k \in StatusEntries(i)
  BY <1>1 DEF StatusEntries, IsStatusChange
<1>3. /\ StatusEntries(i) \subseteq DOMAIN audit
      /\ \A k \in StatusEntries(i)' : k \in StatusEntries(i) \/ k = Len(audit) + 1
  BY <1>1, <1>2 DEF StatusEntries
<1>4. ASSUME NEW k \in 1..(Len(audit) + 1), NEW status
      PROVE  ToldBefore(i, k, status)' <=> ToldBefore(i, k, status)
  BY <1>1, <1>2, <1>3 DEF ToldBefore
<1> QED
  BY <1>1, <1>2, <1>4

\* An entry that is about something else leaves the trail as it is.
LEMMA TrailStays ==
  ASSUME audit \in Seq(Entries), NEW i,
         \/ audit' = audit
         \/ \E e \in Entries : /\ audit' = Append(audit, e)
                               /\ ~(e.incident = i /\ IsStatusChange(e))
  PROVE  /\ StatusEntries(i)' = StatusEntries(i)
         /\ \A status : ToldNow(i, status)' <=> ToldNow(i, status)
<1>1. /\ DOMAIN audit = 1..Len(audit) /\ Len(audit) \in Nat
      /\ DOMAIN audit' = 1..Len(audit') /\ Len(audit') \in {Len(audit), Len(audit) + 1}
      /\ \A k \in DOMAIN audit : k \in DOMAIN audit' /\ audit'[k] = audit[k]
      /\ \A k \in DOMAIN audit' :
           k \in DOMAIN audit \/ ~(audit'[k].incident = i /\ IsStatusChange(audit'[k]))
  OBVIOUS
<1>2. StatusEntries(i)' = StatusEntries(i)
  BY <1>1 DEF StatusEntries, IsStatusChange
<1>3. \A k \in StatusEntries(i) : k \in 1..Len(audit)
  BY <1>1 DEF StatusEntries
<1>4. ASSUME NEW status PROVE ToldNow(i, status)' <=> ToldNow(i, status)
  <2> DEFINE n == Len(audit) + 1
             told == \/ status = "open" /\ StatusEntries(i) = {}
                     \/ \E last \in StatusEntries(i) :
                          /\ \A j \in StatusEntries(i) : j <= last
                          /\ audit[last].after.status = status
  <2>1. \A k \in StatusEntries(i) : k < n /\ ~(k >= n) /\ k < n' /\ ~(k >= n')
    <3>1. Len(audit) \in Nat /\ (n' = Len(audit) + 1 \/ n' = Len(audit) + 2)
      <4>1. Len(audit') = Len(audit) \/ Len(audit') = Len(audit) + 1
        BY <1>1
      <4>2. Len(audit) \in Nat
        BY <1>1
      <4> QED
        BY <4>1, <4>2
    <3>2. ASSUME NEW k \in StatusEntries(i) PROVE k \in Nat /\ k <= Len(audit)
      BY <1>3, <3>1
    <3> QED
      BY <3>1, <3>2
  <2>2. /\ ToldNow(i, status) = ToldBefore(i, n, status)
        /\ ToldNow(i, status)' = ToldBefore(i, n, status)'
    BY DEF ToldNow
  <2>3. \A last \in StatusEntries(i) : audit'[last].after.status = audit[last].after.status
    BY <1>1, <1>3
  <2> HIDE DEF n
  <2>4. ToldNow(i, status) <=> told
    BY <2>1, <2>2 DEF ToldBefore
  <2>5. ToldNow(i, status)' <=> told
    BY <1>2, <2>1, <2>2, <2>3 DEF ToldBefore
  <2> QED
    BY <2>4, <2>5
<1> QED
  BY <1>2, <1>4

\* A status change that is appended is what the log tells then.
LEMMA TrailGrows ==
  ASSUME audit \in Seq(Entries), NEW i, NEW e \in Entries, audit' = Append(audit, e),
         e.incident = i, IsStatusChange(e)
  PROVE  /\ StatusEntries(i)' = StatusEntries(i) \cup {Len(audit) + 1}
         /\ audit'[Len(audit) + 1] = e
         /\ ToldNow(i, e.after.status)'
<1>1. /\ DOMAIN audit = 1..Len(audit) /\ Len(audit) \in Nat
      /\ DOMAIN audit' = DOMAIN audit \cup {Len(audit) + 1} /\ Len(audit') = Len(audit) + 1
      /\ \A k \in DOMAIN audit : audit'[k] = audit[k]
      /\ audit'[Len(audit) + 1] = e
  OBVIOUS
<1>2. StatusEntries(i)' = StatusEntries(i) \cup {Len(audit) + 1}
  BY <1>1 DEF StatusEntries, IsStatusChange
<1>3. \A k \in StatusEntries(i) : k \in 1..Len(audit)
  BY <1>1 DEF StatusEntries
<1>4. /\ Len(audit) + 1 < Len(audit') + 1
      /\ \A j \in StatusEntries(i)' : j <= Len(audit) + 1
  BY <1>1, <1>2, <1>3
<1> QED
  BY <1>1, <1>2, <1>4 DEF ToldNow, ToldBefore

\* One status request at most is under way about an incident that is not untold.
LEMMA OneWriter ==
  ASSUME RaceInv, TrailInv,
         NEW g \in Handlers, calls[g].op \in StatusOps,
         NEW h \in Handlers, calls[h].op \in StatusOps,
         calls[g].id = calls[h].id, calls[g].id \in Ids \ untold
  PROVE  g = h
<1>1. calls[g].pc \in UnderWay /\ calls[h].pc \in UnderWay
  BY DEF TrailInv
<1> QED
  BY <1>1 DEF RaceInv, Overlapping

\* What an audit call appends.
LEMMA Appended ==
  ASSUME IInv, Discipline, NEW h \in Handlers, RecordAudit(h)
  PROVE  LET e == calls[h].entry IN
         /\ e \in Entries /\ e.incident = calls[h].id /\ e.incident < next_id
         /\ calls[h].pc = "audit" /\ calls'[h] # calls[h]
         /\ IsStatusChange(e) <=> calls[h].op \in StatusOps
         /\ UNCHANGED <<incidents, next_id>>
<1>1. /\ calls[h].pc = "audit" /\ "audit" \in EntryPcs /\ h \in Procs
      /\ GoodCall(incidents, next_id, h, calls[h]) /\ Disciplined(h, calls[h])
      /\ UNCHANGED <<incidents, next_id>>
  BY DEF RecordAudit, IInv, Discipline, EntryPcs, Procs, tables
<1>2. calls'[h].pc # "audit"
  BY <1>1 DEF RecordAudit, Become, IInv, TypeOK, Call, Idle
<1> QED
  BY <1>1, <1>2 DEF GoodCall, Disciplined, EntryFits

\* The trail of one stored incident, before and after a step.
LEMMA TrailStep ==
  ASSUME IInv, Discipline, RaceInv, CopiesFresh, TrailInv, RacesStep,
         NEW i \in DOMAIN incidents', i \notin untold'
  PROVE  /\ \A k \in StatusEntries(i)' :
              /\ ToldBefore(i, k, audit[k].before.status)'
              /\ audit'[k].after.status \in AllowedTransitions[audit'[k].before.status]
         /\ ChangingStatus(i)' \/ ToldNow(i, incidents[i].status)'
<1> DEFINE Trail == \A k \in StatusEntries(i) :
                      /\ ToldBefore(i, k, audit[k].before.status)
                      /\ audit[k].after.status \in AllowedTransitions[audit[k].before.status]
           About(h) == calls[h].id = i /\ calls[h].op \in StatusOps
<1>0. /\ [Next]_vars /\ i \notin untold /\ i \notin contested
      /\ \A h \in Handlers : About(h) => ~Silenced(h)
  BY Watched DEF RaceInv
<1>1. audit \in Seq(Entries) /\ DOMAIN audit = 1..Len(audit) /\ Len(audit) \in Nat
  BY DEF IInv, TypeOK
<1>2. audit' = audit \/ \E e \in Entries : audit' = Append(audit, e)
  BY <1>0, AuditMoves, Appended
<1>3. /\ \A k \in DOMAIN audit : audit'[k] = audit[k] /\ k \in 1..(Len(audit) + 1)
      /\ \A k \in 1..(Len(audit) + 1) : \A status :
           ToldBefore(i, k, status)' <=> ToldBefore(i, k, status)
      /\ StatusEntries(i) \subseteq DOMAIN audit
  BY <1>1, <1>2, PastStays DEF StatusEntries
<1>4. ASSUME Trail, NEW k \in StatusEntries(i)
      PROVE  /\ ToldBefore(i, k, audit[k].before.status)'
             /\ audit'[k].after.status \in AllowedTransitions[audit'[k].before.status]
  <2>1. ToldBefore(i, k, audit[k].before.status)
    BY <1>4
  <2>2. /\ audit'[k] = audit[k]
        /\ \A status : ToldBefore(i, k, status)' <=> ToldBefore(i, k, status)
    BY <1>3, <1>4
  <2>3. ASSUME NEW status, status = audit[k].before.status
        PROVE  ToldBefore(i, k, audit[k].before.status)'
    <3>1. ToldBefore(i, k, status)' /\ status = audit'[k].before.status
      BY <2>1, <2>2, <2>3
    <3> QED
      BY <3>1 DEF ToldBefore
  <2> QED
    BY <1>4, <2>2, <2>3
<1>5. i \in Ids /\ \A status : ToldNow(i, status) <=> ToldBefore(i, Len(audit) + 1, status)
  BY <1>0, NextInv DEF IInv, TypeOK, ToldNow
<1>6. CASE i \notin DOMAIN incidents
  <2>1. Created(i)
    BY <1>0, <1>5, <1>6, RowSteps DEF RowStep, SameRow, Removed, Overwritten
  <2>2. incidents'[i].status = "open"
    BY <2>1 DEF Created, InitialRow
  <2>3. StatusEntries(i) = {}
    BY <2>1 DEF Created, TrailInv, StatusEntries, IInv, TypeOK
  <2>4. StatusEntries(i)' = {}
    <3>1. \/ audit' = audit
          \/ \E e \in Entries : /\ audit' = Append(audit, e)
                                /\ ~(e.incident = i /\ IsStatusChange(e))
      BY <1>0, <2>1, AuditMoves, Appended DEF Created, IInv, TypeOK
    <3> QED
      BY <1>1, <2>3, <3>1, TrailStays
  <2> QED
    BY <2>2, <2>4 DEF ToldNow, ToldBefore
<1>7. CASE i \in DOMAIN incidents
  <2>1. Trail /\ (ChangingStatus(i) \/ ToldNow(i, incidents[i].status))
    BY <1>0, <1>7 DEF TrailInv, TrailTellsStatus, ToldNow
  <2>2. ASSUME NEW h \in Handlers, RecordAudit(h), About(h)
        PROVE  /\ \A k \in StatusEntries(i)' :
                    /\ ToldBefore(i, k, audit[k].before.status)'
                    /\ audit'[k].after.status \in AllowedTransitions[audit'[k].before.status]
               /\ ToldNow(i, incidents[i].status)'
    <3>0. PICK e \in Entries, n \in 1..(Len(audit) + 1) :
            e = calls[h].entry /\ n = Len(audit) + 1
      BY <1>1, <2>2, Appended
    <3>1. /\ audit' = Append(audit, e) /\ e.incident = i /\ IsStatusChange(e)
          /\ incidents' = incidents /\ calls[h].pc = "audit"
      <4>1. /\ e.incident = i /\ IsStatusChange(e)
            /\ incidents' = incidents /\ calls[h].pc = "audit"
        BY <2>2, <3>0, Appended
      <4>2. calls'[h].pc = "idle"
        <5>1. calls[h].op \notin DOMAIN Spawned
          BY <2>2 DEF StatusOps, Spawned
        <5>2. calls'[h] = Idle
          BY <2>2, <5>1 DEF RecordAudit, Become, IInv, TypeOK, Procs
        <5> QED
          BY <5>2 DEF Idle, Call
      <4>3. audit' # audit
        BY <1>0, <2>2, <4>1, <4>2 DEF Silenced
      <4> QED
        BY <2>2, <3>0, <4>1, <4>3 DEF RecordAudit
    <3>2. /\ ToldBefore(i, n, e.before.status) /\ e.after.status = incidents[i].status
          /\ incidents[i].status \in AllowedTransitions[e.before.status]
      BY <1>0, <1>7, <2>2, <3>0, <3>1 DEF TrailInv, Stored
    <3>3. /\ StatusEntries(i)' = StatusEntries(i) \cup {n} /\ audit'[n] = e
          /\ ToldNow(i, e.after.status)'
      BY <1>1, <3>0, <3>1, TrailGrows
    <3>4. ToldNow(i, incidents[i].status)'
      <4>1. incidents'[i].status = e.after.status
        BY <3>1, <3>2
      <4> QED
        BY <3>3, <4>1 DEF ToldNow, ToldBefore
    <3>5. ToldBefore(i, n, audit[n].before.status)'
      <4>1. ToldBefore(i, n, e.before.status)'
        BY <1>3, <3>2
      <4> QED
        BY <3>3, <4>1 DEF ToldBefore
    <3>6. ASSUME NEW k \in StatusEntries(i)'
          PROVE  /\ ToldBefore(i, k, audit[k].before.status)'
                 /\ audit'[k].after.status \in AllowedTransitions[audit'[k].before.status]
      <4>1. CASE k \in StatusEntries(i)
        BY <1>4, <2>1, <4>1
      <4>2. CASE k = n
        BY <3>2, <3>3, <3>5, <4>2
      <4> QED
        BY <3>3, <4>1, <4>2
    <3> QED
      BY <3>4, <3>6
  <2>3. CASE ~ \E h \in Handlers : RecordAudit(h) /\ About(h)
    <3>1. \/ audit' = audit
          \/ \E e \in Entries : /\ audit' = Append(audit, e)
                                /\ ~(e.incident = i /\ IsStatusChange(e))
      BY <1>0, <2>3, AuditMoves, Appended
    <3>2. /\ StatusEntries(i)' = StatusEntries(i)
          /\ \A status : ToldNow(i, status)' <=> ToldNow(i, status)
      BY <1>1, <3>1, TrailStays
    <3>3. CASE ~ChangingStatus(i)
      <4>1. incidents'[i].status = incidents[i].status
        <5>1. ~Created(i) /\ ~Removed(i)
          BY <1>7 DEF Created, Removed
        <5>2. ASSUME NEW p \in Procs, Overwritten(i, p)
              PROVE  incidents'[i].status = incidents[i].status
          <6>1. calls[p].op \notin StatusOps
            BY <1>0, <1>5, <3>3, <5>2, StatusCommit DEF ChangingStatus, Overwritten
          <6> QED
            BY <1>5, <5>2, <6>1, OtherCommit DEF SameMilestones
        <5> QED
          BY <1>0, <1>5, <1>7, <5>1, <5>2, RowSteps DEF RowStep, SameRow
      <4> QED
        BY <2>1, <3>2, <3>3, <4>1, <1>4 DEF ToldNow
    <3>4. ASSUME NEW h \in Handlers, About(h)
          PROVE  ChangingStatus(i)' \/ ToldNow(i, incidents[i].status)'
      <4>1. calls[h].pc \in UnderWay /\ Stored(calls[h].id)
        BY <1>7, <3>4 DEF TrailInv, Stored
      <4>2. CASE calls'[h].op = calls[h].op /\ calls'[h].id = calls[h].id
        BY <3>4, <4>2 DEF ChangingStatus
      <4>3. CASE Refresh(h) /\ calls[h].loaded.status = incidents[calls[h].id].status
        <5>1. calls[h].pc = "refresh" /\ incidents' = incidents
          BY <4>3 DEF Refresh, tables
        <5>2. ToldNow(i, incidents[i].status)
          BY <1>0, <1>5, <3>4, <4>1, <4>3, <5>1 DEF TrailInv
        <5> QED
          BY <3>2, <5>1, <5>2 DEF ToldNow
      <4>4. CASE calls'[h] = Idle /\ UNCHANGED <<incidents, next_id, audit>>
        <5>1. calls'[h].pc = "idle" /\ audit' = audit /\ incidents' = incidents
          BY <4>4 DEF Idle, Call
        <5>2. /\ calls[h].pc # "audit"
              /\ calls[h].pc = "refresh" => incidents[i].status = calls[h].loaded.status
          BY <1>0, <3>4, <4>1, <5>1 DEF Silenced
        <5>3. calls[h].pc \in Uncommitted \/ calls[h].pc = "refresh"
          BY <4>1, <5>2 DEF Uncommitted, UnderWay
        <5>4. ToldNow(i, incidents[i].status)
          BY <1>0, <1>5, <3>4, <4>1, <5>2, <5>3 DEF TrailInv
        <5> QED
          BY <3>2, <5>1, <5>4 DEF ToldNow
      <4> QED
        BY <1>0, <2>3, <3>4, <4>1, <4>2, <4>3, <4>4, StatusCallEnds
    <3>5. ChangingStatus(i)' \/ ToldNow(i, incidents[i].status)'
      BY <3>3, <3>4 DEF ChangingStatus
    <3> QED
      BY <1>4, <2>1, <3>2, <3>5
  <2> QED
    BY <2>2, <2>3
<1> QED
  BY <1>6, <1>7

\* A handler begins its statements by taking a request.
LEMMA StatusRequested ==
  ASSUME IInv, [Next]_vars, NEW h \in Handlers,
         calls[h].pc = "idle", calls'[h].pc = "select"
  PROVE  Request(h)
<1>1. h \in Procs /\ h \notin Tasks
  BY ProcsAssumption DEF Procs
<1>2. ~RepositoryStep(h) /\ (HandlerStep(h) => FALSE)
  BY DEF RepositoryStep, Select, Commit, CommitFails, HandlerStep, Refresh, Note,
     InsertUpdate, SelectDelete, Delete, CheckLink, InsertLink, DeleteLink, RecordAudit, Spawn
<1>3. calls'[h] \notin {calls[h], Idle}
  BY DEF Idle, Call
<1> QED
  BY <1>1, <1>2, <1>3, OwnStep

\* Where the log stands when a step leaves a status request at one of its statements.
LEMMA WriterStep ==
  ASSUME IInv, Discipline, RaceInv, CopiesFresh, TrailInv, RacesStep,
         NEW h \in Handlers, calls'[h].op \in StatusOps,
         NEW i, calls'[h].id = i, i \in DOMAIN incidents', i \notin untold'
  PROVE  LET call == calls'[h]
             row  == incidents'[i]
         IN /\ call.pc \in Uncommitted => ToldNow(i, incidents[i].status)'
            /\ call.pc = "refresh" => /\ ToldNow(i, calls[h].loaded.status)'
                                      /\ StepsForward(call.loaded, row)
            /\ call.pc = "audit" =>
                 /\ ToldNow(i, calls[h].entry.before.status)'
                 /\ call.entry.after.status = row.status
                 /\ row.status \in AllowedTransitions[call.entry.before.status]
<1>0. /\ [Next]_vars /\ RaceInv' /\ i \notin untold /\ i \notin contested
      /\ Uncommitted = {"select", "commit"}
      /\ UnderWay = {"select", "commit", "refresh", "audit"}
  BY Watched DEF RaceInv, Uncommitted, UnderWay
<1>1. /\ audit \in Seq(Entries) /\ h \in Procs /\ next_id \in Nat
      /\ GoodCall(incidents, next_id, h, calls[h]) /\ i \in Ids
  BY <1>0, NextInv DEF IInv, TypeOK, Procs
<1>2. ASSUME NEW j, ToldNow(i, j), NEW now, now = j,
             \/ audit' = audit
             \/ \E e \in Entries : /\ audit' = Append(audit, e)
                                   /\ ~(e.incident = i /\ IsStatusChange(e))
      PROVE  ToldNow(i, now)'
  BY <1>1, <1>2, TrailStays
<1>3. ASSUME NEW status, ToldNow(i, status)'
      PROVE  /\ incidents'[i].status = status => ToldNow(i, incidents[i].status)'
             /\ calls'[h].loaded.status = status => ToldNow(i, calls[h].loaded.status)'
             /\ calls'[h].entry.before.status = status =>
                  ToldNow(i, calls[h].entry.before.status)'
  BY <1>3 DEF ToldNow, ToldBefore
<1>4. CASE calls'[h] = calls[h]
  <2>1. /\ calls[h].op \in StatusOps /\ calls[h].id = i
        /\ calls[h].pc \in UnderWay /\ calls[h].pc # "idle"
    BY <1>0, <1>4 DEF TrailInv
  <2>2. ~Commit(h)
    BY <1>1, <1>4, CommitMovesOn DEF Commit
  <2>3. Stored(i) /\ incidents'[i].status = incidents[i].status
    <3>1. Alone(h)
      BY <1>0, <1>1, <2>1, OneWriter DEF Alone
    <3> QED
      BY <1>0, <2>1, <2>2, <3>1, OthersLeaveStatus DEF SameMilestones
  <2>4. \/ audit' = audit
        \/ \E e \in Entries : /\ audit' = Append(audit, e)
                              /\ ~(e.incident = i /\ IsStatusChange(e))
    <3>1. ASSUME NEW g \in Handlers, RecordAudit(g)
          PROVE  /\ calls[g].entry \in Entries
                 /\ ~(calls[g].entry.incident = i /\ IsStatusChange(calls[g].entry))
      BY <1>0, <1>1, <1>4, <2>1, <3>1, Appended, OneWriter
    <3> QED
      BY <1>0, <3>1, AuditMoves
  <2>5. CASE calls[h].pc \in Uncommitted
    <3>1. ToldNow(i, incidents[i].status)
      BY <1>0, <2>1, <2>3, <2>5 DEF TrailInv, ToldNow
    <3> QED
      BY <1>0, <1>2, <1>3, <1>4, <2>3, <2>4, <2>5, <3>1
  <2>6. CASE calls[h].pc = "refresh"
    <3>1. ToldNow(i, calls[h].loaded.status) /\ StepsForward(calls[h].loaded, incidents[i])
      BY <1>0, <2>1, <2>3, <2>6 DEF TrailInv, ToldNow
    <3> QED
      BY <1>0, <1>2, <1>3, <1>4, <2>3, <2>4, <2>6, <3>1 DEF StepsForward
  <2>7. CASE calls[h].pc = "audit"
    <3>1. /\ ToldNow(i, calls[h].entry.before.status)
          /\ calls[h].entry.after.status = incidents[i].status
          /\ incidents[i].status \in AllowedTransitions[calls[h].entry.before.status]
      BY <1>0, <2>1, <2>3, <2>7 DEF TrailInv, ToldNow
    <3> QED
      BY <1>0, <1>2, <1>3, <1>4, <2>3, <2>4, <2>7, <3>1
  <2> QED
    BY <1>0, <1>4, <2>1, <2>5, <2>6, <2>7
<1>5. CASE /\ calls[h].pc = "idle" /\ calls'[h].pc = "select" /\ Stored(calls'[h].id)
           /\ UNCHANGED <<incidents, audit>>
  <2>1. ~ChangingStatus(i)
    <3> SUFFICES ASSUME NEW g \in Handlers, calls[g].op \in StatusOps, calls[g].id = i
                 PROVE  FALSE
      BY DEF ChangingStatus
    <3>1. calls[g].pc \in UnderWay /\ g # h
      BY <1>0, <1>5 DEF TrailInv
    <3>2. Request(h)
      BY <1>0, <1>1, <1>5, StatusRequested
    <3>3. calls'[g] = calls[g]
      BY <3>1, <3>2, OthersStay DEF Procs
    <3> QED
      BY <1>0, <1>1, <1>5, <3>1, <3>3 DEF RaceInv, Overlapping
  <2>2. ToldNow(i, incidents[i].status)
    BY <1>0, <1>5, <2>1 DEF TrailInv, TrailTellsStatus, ToldNow, Stored
  <2> QED
    BY <1>0, <1>2, <1>3, <1>5, <2>2
<1>6. CASE /\ calls'[h].op = calls[h].op /\ calls'[h].id = calls[h].id
           /\ calls[h].pc = "select" /\ calls'[h].pc = "commit"
           /\ UNCHANGED <<incidents, audit>>
  <2>1. ToldNow(i, incidents[i].status)
    BY <1>0, <1>6 DEF TrailInv, ToldNow, Stored
  <2> QED
    BY <1>0, <1>2, <1>3, <1>6, <2>1
<1>7. CASE /\ calls'[h].op = calls[h].op /\ calls'[h].id = calls[h].id
           /\ Commit(h) /\ calls'[h].pc = "refresh" /\ calls'[h].loaded = calls[h].loaded
  <2>1. /\ calls[h].pc = "commit" /\ calls[h].id = i /\ i \in Ids /\ i < next_id
        /\ audit' = audit /\ next_id' = next_id
    BY <1>1, <1>7 DEF Commit, GoodCall
  <2>2. Stored(i)
    BY <1>7, <2>1 DEF Commit, Stored
  <2>3. Overwritten(i, h)
    BY <1>7, <2>1, <2>2 DEF Overwritten, Commit, Stored
  <2>4. /\ incidents[i].status = calls[h].loaded.status
        /\ incidents'[i].status = calls[h].pending.status
    BY <1>0, <1>1, <1>7, <2>1, <2>3, StatusCommit DEF SameMilestones
  <2>5. StepsForward(calls[h].loaded, calls[h].pending)
    BY <1>1, <2>1, CommitFacts
  <2>6. ToldNow(i, calls[h].loaded.status)
    BY <1>0, <1>7, <2>1, <2>2, <2>4 DEF TrailInv, ToldNow
  <2> QED
    BY <1>0, <1>2, <1>3, <1>7, <2>1, <2>4, <2>5, <2>6 DEF StepsForward
<1>8. CASE /\ calls'[h].op = calls[h].op /\ calls'[h].id = calls[h].id
           /\ Refresh(h) /\ Stored(calls[h].id) /\ calls'[h].pc = "audit"
           /\ calls[h].loaded.status # incidents[calls[h].id].status
           /\ calls'[h].entry.before.status = calls[h].loaded.status
           /\ calls'[h].entry.after.status = incidents[calls[h].id].status
  <2>1. calls[h].pc = "refresh" /\ audit' = audit /\ incidents' = incidents
    BY <1>8 DEF Refresh, tables
  <2>2. ToldNow(i, calls[h].loaded.status) /\ StepsForward(calls[h].loaded, incidents[i])
    BY <1>0, <1>8, <2>1 DEF TrailInv, ToldNow
  <2> QED
    BY <1>0, <1>2, <1>3, <1>8, <2>1, <2>2 DEF StepsForward
<1> QED
  BY <1>0, <1>1, <1>4, <1>5, <1>6, <1>7, <1>8, StatusCallMoves

\* The trail stays in order, whatever else the service does.
LEMMA TrailInvStep ==
  ASSUME IInv, IInv', Discipline, RaceInv, CopiesFresh, TrailInv, RacesStep
  PROVE  TrailInv'
<1>1. [Next]_vars
  BY Watched
<1>2. TrailTellsStatus'
  BY TrailStep DEF TrailTellsStatus, ToldNow
<1>3. ASSUME NEW k \in DOMAIN audit' PROVE audit'[k].incident < next_id'
  <2>1. /\ audit \in Seq(Entries) /\ next_id \in Nat /\ next_id' \in {next_id, next_id + 1}
        /\ \A e \in Entries : e.incident \in Nat
    <3>1. next_id' \in {next_id, next_id + 1}
      BY <1>1, TableMoves DEF CreateIncident, Commit, Delete
    <3> QED
      BY <3>1 DEF IInv, TypeOK, Entries, Ids
  <2>2. CASE audit' = audit
    BY <1>3, <2>1, <2>2 DEF TrailInv
  <2>3. ASSUME NEW h \in Handlers, RecordAudit(h), audit' = Append(audit, calls[h].entry)
        PROVE  audit'[k].incident < next_id'
    <3>1. calls[h].entry \in Entries /\ calls[h].entry.incident < next_id
      BY <2>3, Appended
    <3>2. \/ audit'[k] = calls[h].entry
          \/ k \in DOMAIN audit /\ audit'[k] = audit[k] /\ audit[k] \in Entries
      BY <1>3, <2>1, <2>3, <3>1
    <3> QED
      BY <2>1, <3>1, <3>2 DEF TrailInv
  <2> QED
    BY <1>1, <2>2, <2>3, AuditMoves
<1>4. ASSUME NEW h \in Handlers, calls'[h].op \in StatusOps
      PROVE  calls'[h].pc \in UnderWay
  BY <1>1, <1>4, StatusCallMoves DEF TrailInv, UnderWay
<1> QED
  BY <1>2, <1>3, <1>4, WriterStep DEF TrailInv, ToldNow, Stored

LEMMA TrailInductive == RacesSpec => []TrailInv
<1>1. RacesInit => TrailInv
  BY NoneAssumption
  DEF RacesInit, Init, TrailInv, TrailTellsStatus, Procs, Idle, Call, StatusOps, ClientOps,
      UpdateOps
<1>2. /\ IInv /\ IInv' /\ Discipline /\ RaceInv /\ CopiesFresh /\ TrailInv
      /\ [Next /\ Watch]_<<vars, history>>
      => TrailInv'
  BY TrailInvStep DEF RacesStep
<1> QED
  BY <1>1, <1>2, WatchedSpec, RacesSeen, Fresh, Disciplines, WatchedNext, PTL

\* The audit log tells the whole status history of every stored incident, from "open"
\* to the status it has, in allowed transitions, until two status requests about it
\* are under way at once or the record of a stored change is lost, by a swallowed
\* RpcError or with its replica.
THEOREM StatusTrail == RacesSpec => []TrailTellsStatus
<1>1. TrailInv => TrailTellsStatus
  BY DEF TrailInv
<1> QED
  BY <1>1, TrailInductive, PTL
=============================================================================
