---------------------------- MODULE ChangeService ----------------------------
(***************************************************************************)
(* The Change Service: src/server/ChangeService/Services/ChangeServiceImpl *)
(* .cs, in C#.  Every call has a DbContext of its own (AddDbContext), so   *)
(* ApproveChange decides on the copy that FindAsync loaded; the entity     *)
(* has no concurrency token, and SaveChangesAsync writes the status        *)
(* unconditionally.  Calls of two replicas interleave at every await.      *)
(*                                                                         *)
(* Of a change only the status ever changes, so a row is its status.  A    *)
(* call that FindAsync or the status check refuses changes nothing: its    *)
(* condition is the guard of the call that goes on.  GetChange,            *)
(* ListChanges and GetChangeWithCI change nothing either.                  *)
(***************************************************************************)
EXTENDS Naturals, Sequences

CONSTANTS
  Handlers,    \* concurrent calls, over all replicas
  Replicas,    \* processes of the Deployment
  Home,        \* the replica each call runs in
  Approvers,   \* the handlers through which clients approve
  MayCrash,    \* whether replicas die and restart
  MaxChanges,  \* bound: changes ever created
  None         \* C#'s null

ASSUME PlacementAssumption == Home \in [Handlers -> Replicas]
ASSUME ApproversAssumption == Approvers \subseteq Handlers
ASSUME ChangesAssumption == MaxChanges \in Nat
ASSUME CrashAssumption == MayCrash \in BOOLEAN

VARIABLES
  changes,  \* table Changes: the status of the row with id n is changes[n]
  audit,    \* the Change Service's entries in the audit log, in order
  calls     \* where each handler is

vars == <<changes, audit, calls>>

Statuses == {"requested", "approved"}
Ids == 1..MaxChanges
Stored(i) == i \in DOMAIN changes

Entry(action, i, before, after) ==
  [action |-> action, change |-> i, before |-> before, after |-> after]

Idle == [pc |-> "idle"]
Approving(i, previous) == [pc |-> "save", id |-> i, previous |-> previous]
Auditing(entry) == [pc |-> "audit", entry |-> entry]

At(h, pc) == calls[h].pc = pc
Become(h, call) == calls' = [calls EXCEPT ![h] = call]
-----------------------------------------------------------------------------
\* Mutant: the status has the default of the other columns.
DefaultStatusEmpty == ""

\* What the model class gives a new change.
DefaultStatus == "requested"

\* Add and SaveChangesAsync
CreateChange(h) ==
  /\ At(h, "idle")
  /\ Len(changes) < MaxChanges
  /\ changes' = Append(changes, DefaultStatus)
  /\ Become(h, Auditing(Entry("change.created", Len(changes) + 1, None, DefaultStatus)))
  /\ UNCHANGED audit

\* Mutant: ApproveChange does not look at the status.
ApprovableAlways(status) == TRUE

\* The check of ApproveChange.
Approvable(status) == status # "approved"

\* FindAsync and the check; previousStatus is what they saw.
ApproveChange(h, i) ==
  /\ At(h, "idle") /\ h \in Approvers
  /\ Stored(i)
  /\ Approvable(changes[i])
  /\ Become(h, Approving(i, changes[i]))
  /\ UNCHANGED <<changes, audit>>

\* Mutant: the status is assigned after the save, too late to be stored.
SavedBefore(status) == status

\* UPDATE ... SET Status = 'approved' WHERE Id = id
Saved(status) == "approved"

SaveChanges(h) ==
  LET i == calls[h].id IN
  /\ At(h, "save")
  /\ changes' = [changes EXCEPT ![i] = Saved(@)]
  /\ Become(h, Auditing(Entry("change.approved", i, calls[h].previous, "approved")))
  /\ UNCHANGED audit

\* RecordAuditEventAsync; every failure is swallowed.
RecordAuditEvent(h) ==
  /\ At(h, "audit")
  /\ audit' \in {Append(audit, calls[h].entry), audit}
  /\ Become(h, Idle)
  /\ UNCHANGED changes

\* A replica dies and restarts with none of its calls.
Crash(r) ==
  /\ MayCrash
  /\ \E h \in Handlers : Home[h] = r /\ ~At(h, "idle")
  /\ calls' = [h \in Handlers |-> IF Home[h] = r THEN Idle ELSE calls[h]]
  /\ UNCHANGED <<changes, audit>>

Init ==
  /\ changes = << >> /\ audit = << >>
  /\ calls = [h \in Handlers |-> Idle]

Next ==
  \/ \E h \in Handlers :
       \/ CreateChange(h) \/ SaveChanges(h) \/ RecordAuditEvent(h)
       \/ \E i \in Ids : ApproveChange(h, i)
  \/ \E r \in Replicas : Crash(r)

Spec == Init /\ [][Next]_vars
-----------------------------------------------------------------------------
(***************************************************************************)
(* What it is meant to guarantee.                                          *)
(***************************************************************************)
ApprovalsOf(i) ==
  {n \in DOMAIN audit : audit[n].action = "change.approved" /\ audit[n].change = i}

Entries ==
  [action : {"change.created", "change.approved"}, change : Ids,
   before : Statuses \cup {None}, after : Statuses]

\* Rows, entries and calls have the form the code gives them.
TypeOK ==
  /\ changes \in Seq(Statuses) /\ Len(changes) <= MaxChanges
  /\ audit \in Seq(Entries)
  /\ calls \in [Handlers -> {Idle} \cup {Approving(i, s) : i \in Ids, s \in Statuses}
                                   \cup {Auditing(e) : e \in Entries}]

\* An approval is in the audit log only if the change is approved and stays so: the
\* entry follows the save, and nothing takes an approval back (ARD-0018: services
\* call RecordAuditEvent "after a successful mutation").
AuditedApprovalsHold ==
  \A n \in DOMAIN audit :
    audit[n].action = "change.approved" =>
      Stored(audit[n].change) /\ changes[audit[n].change] = "approved"

\* No change is approved twice in the audit log: a change that is approved already
\* must not "write a new audit entry" (ChangeServiceImpl.cs:93-94).
ApprovedOnce == \A i \in Ids : \A m, n \in ApprovalsOf(i) : m = n
=============================================================================
