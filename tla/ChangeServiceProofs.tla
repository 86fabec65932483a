------------------------- MODULE ChangeServiceProofs -------------------------
(***************************************************************************)
(* Theorems about the Change Service, for any number of calls, replicas    *)
(* and changes.                                                            *)
(***************************************************************************)
EXTENDS ChangeApprovals, TLAPS

\* A call that is about to record an approval has stored it, so that the entry holds
\* when it arrives; with TypeOK and AuditedApprovalsHold this is inductive.
AuditedAreSaved ==
  \A h \in Handlers : At(h, "audit") /\ calls[h].entry.action = "change.approved" =>
    Stored(calls[h].entry.change) /\ changes[calls[h].entry.change] = "approved"

\* A call that is about to save has found the change stored.
SavedAreStored == \A h \in Handlers : At(h, "save") => Stored(calls[h].id)

IInv == TypeOK /\ AuditedApprovalsHold /\ AuditedAreSaved /\ SavedAreStored

Calls == {Idle} \cup {Approving(i, s) : i \in Ids, s \in Statuses}
                \cup {Auditing(e) : e \in Entries}

\* The program counter tells which of the three forms a call has.
LEMMA CallForms ==
  ASSUME NEW c \in Calls
  PROVE  /\ c.pc = "save" => c.id \in Ids /\ c.previous \in Statuses
         /\ c.pc = "audit" => c.entry \in Entries
         /\ c.pc \in {"idle", "save", "audit"}
  BY DEF Calls, Idle, Approving, Auditing

LEMMA Initially == Init => IInv
  BY ChangesAssumption
  DEF Init, IInv, TypeOK, AuditedApprovalsHold, AuditedAreSaved, SavedAreStored, Idle, At

LEMMA CreateChangeStep ==
  ASSUME IInv, NEW h \in Handlers, CreateChange(h)
  PROVE  IInv'
  <1> DEFINE n == Len(changes) + 1
             entry == Entry("change.created", n, None, DefaultStatus)
  <1> USE DEF IInv, CreateChange, Become, At
  <1>1. changes \in Seq(Statuses) /\ Len(changes) \in Nat /\ n \in Ids
    BY ChangesAssumption DEF TypeOK, Ids
  <1>2. changes' \in Seq(Statuses) /\ Len(changes') = n /\ n <= MaxChanges
    BY <1>1 DEF Statuses, Ids, DefaultStatus
  <1>3. \A i \in DOMAIN changes : i \in DOMAIN changes' /\ changes'[i] = changes[i]
    BY <1>1, <1>2
  <1>4. entry \in Entries
    BY <1>1 DEF Entry, Entries, Statuses, DefaultStatus
  <1>5. calls' = [calls EXCEPT ![h] = Auditing(entry)]
    OBVIOUS
  <1>6. TypeOK'
    BY <1>2, <1>4, <1>5 DEF TypeOK
  <1>7. AuditedApprovalsHold'
    BY <1>3 DEF AuditedApprovalsHold, Stored
  <1>8. AuditedAreSaved'
    <2> SUFFICES ASSUME NEW g \in Handlers, At(g, "audit")',
                        (calls[g].entry.action = "change.approved")'
                 PROVE  (Stored(calls[g].entry.change)
                         /\ changes[calls[g].entry.change] = "approved")'
      BY DEF AuditedAreSaved
    <2>1. g # h
      BY <1>5 DEF TypeOK, Auditing, Entry
    <2>2. calls'[g] = calls[g]
      BY <1>5, <2>1 DEF TypeOK
    <2> QED
      BY <1>3, <2>2 DEF AuditedAreSaved, Stored
  <1>9. SavedAreStored'
    BY <1>3, <1>5 DEF SavedAreStored, Stored, TypeOK, Auditing
  <1> QED
    BY <1>6, <1>7, <1>8, <1>9

LEMMA ApproveChangeStep ==
  ASSUME IInv, NEW h \in Handlers, NEW i \in Ids, ApproveChange(h, i)
  PROVE  IInv'
  <1> USE DEF IInv, ApproveChange, Become, At
  <1>1. changes[i] \in Statuses
    BY DEF TypeOK, Stored
  <1>2. TypeOK'
    BY <1>1 DEF TypeOK
  <1>3. AuditedApprovalsHold'
    BY DEF AuditedApprovalsHold, Stored
  <1>4. AuditedAreSaved' /\ SavedAreStored'
    BY DEF AuditedAreSaved, SavedAreStored, Stored, TypeOK, Approving
  <1> QED
    BY <1>2, <1>3, <1>4

LEMMA SaveChangesStep ==
  ASSUME IInv, NEW h \in Handlers, SaveChanges(h)
  PROVE  IInv'
  <1> DEFINE i == calls[h].id
             entry == Entry("change.approved", i, calls[h].previous, "approved")
  <1> USE DEF IInv, SaveChanges, Become, At
  <1>1. calls[h] \in Calls
    BY DEF TypeOK, Calls
  <1>2. i \in Ids /\ calls[h].previous \in Statuses /\ i \in DOMAIN changes
    BY <1>1, CallForms DEF SavedAreStored, Stored
  <1>3. changes' \in Seq(Statuses) /\ Len(changes') = Len(changes)
    BY <1>2 DEF TypeOK, Statuses, Saved
  <1>4. changes'[i] = "approved" /\ DOMAIN changes' = DOMAIN changes
    BY <1>2 DEF TypeOK, Saved
  <1>5. \A j \in DOMAIN changes :
           changes[j] = "approved" => changes'[j] = "approved"
    BY <1>2, <1>4 DEF TypeOK, Saved
  <1>6. entry \in Entries
    BY <1>2 DEF Entry, Entries, Statuses
  <1>7. calls' = [calls EXCEPT ![h] = Auditing(entry)]
    OBVIOUS
  <1>8. TypeOK'
    BY <1>3, <1>6, <1>7 DEF TypeOK
  <1>9. AuditedApprovalsHold'
    BY <1>4, <1>5 DEF AuditedApprovalsHold, Stored
  <1>10. AuditedAreSaved'
    <2> SUFFICES ASSUME NEW g \in Handlers, At(g, "audit")',
                        (calls[g].entry.action = "change.approved")'
                 PROVE  (Stored(calls[g].entry.change)
                         /\ changes[calls[g].entry.change] = "approved")'
      BY DEF AuditedAreSaved
    <2>1. CASE g = h
      BY <1>2, <1>4, <1>7, <2>1 DEF Auditing, Entry, Stored, TypeOK
    <2>2. CASE g # h
      <3>1. calls'[g] = calls[g]
        BY <1>7, <2>2 DEF TypeOK
      <3> QED
        BY <1>4, <1>5, <3>1 DEF AuditedAreSaved, Stored
    <2> QED
      BY <2>1, <2>2
  <1>11. SavedAreStored'
    BY <1>4, <1>7 DEF SavedAreStored, Stored, TypeOK, Auditing
  <1> QED
    BY <1>8, <1>9, <1>10, <1>11

LEMMA RecordAuditEventStep ==
  ASSUME IInv, NEW h \in Handlers, RecordAuditEvent(h)
  PROVE  IInv'
  <1> DEFINE entry == calls[h].entry
  <1> USE DEF IInv, RecordAuditEvent, Become, At
  <1>1. calls[h] \in Calls
    BY DEF TypeOK, Calls
  <1>2. entry \in Entries
    BY <1>1, CallForms
  <1>3. audit' \in Seq(Entries)
    BY <1>2 DEF TypeOK
  <1>4. TypeOK'
    BY <1>3 DEF TypeOK, Idle
  <1>5. \A n \in DOMAIN audit' :
           audit'[n] = entry \/ (n \in DOMAIN audit /\ audit'[n] = audit[n])
    BY <1>2 DEF TypeOK
  <1>6. AuditedApprovalsHold'
    BY <1>5 DEF AuditedApprovalsHold, AuditedAreSaved, Stored
  <1>7. AuditedAreSaved' /\ SavedAreStored'
    BY DEF AuditedAreSaved, SavedAreStored, Stored, TypeOK, Idle
  <1> QED
    BY <1>4, <1>6, <1>7

LEMMA CrashStep ==
  ASSUME IInv, NEW r \in Replicas, Crash(r)
  PROVE  IInv'
  <1> USE DEF IInv, Crash
  <1>1. TypeOK'
    BY DEF TypeOK, Idle
  <1>2. AuditedApprovalsHold'
    BY DEF AuditedApprovalsHold, Stored
  <1>3. AuditedAreSaved' /\ SavedAreStored'
    BY DEF AuditedAreSaved, SavedAreStored, At, Stored, Idle, TypeOK
  <1> QED
    BY <1>1, <1>2, <1>3

LEMMA StutterStep ==
  ASSUME IInv, UNCHANGED vars
  PROVE  IInv'
  BY DEF IInv, TypeOK, AuditedApprovalsHold, AuditedAreSaved, SavedAreStored,
         Stored, At, vars

\* The inductive invariant of the Change Service (ChangeServiceImpl.cs:54-105).
THEOREM ChangeInductive == Spec => []IInv
  <1>1. IInv /\ [Next]_vars => IInv'
    <2> SUFFICES ASSUME IInv, [Next]_vars PROVE IInv'
      OBVIOUS
    <2>1. ASSUME NEW h \in Handlers, CreateChange(h) PROVE IInv'
      BY <2>1, CreateChangeStep
    <2>2. ASSUME NEW h \in Handlers, NEW i \in Ids, ApproveChange(h, i) PROVE IInv'
      BY <2>2, ApproveChangeStep
    <2>3. ASSUME NEW h \in Handlers, SaveChanges(h) PROVE IInv'
      BY <2>3, SaveChangesStep
    <2>4. ASSUME NEW h \in Handlers, RecordAuditEvent(h) PROVE IInv'
      BY <2>4, RecordAuditEventStep
    <2>5. ASSUME NEW r \in Replicas, Crash(r) PROVE IInv'
      BY <2>5, CrashStep
    <2> QED
      BY <2>1, <2>2, <2>3, <2>4, <2>5, StutterStep DEF Next
  <1> QED
    BY <1>1, Initially, PTL DEF Spec

\* However many calls approve, save and die between their steps, the log never
\* claims an approval that the table does not show (ChangeServiceImpl.cs:97-102).
THEOREM ApprovalsCorrect == Spec => []AuditedApprovalsHold
  BY ChangeInductive, PTL DEF IInv

\* Rows, entries and calls stay well formed.
THEOREM ChangeTypeCorrect == Spec => []TypeOK
  BY ChangeInductive, PTL DEF IInv
-----------------------------------------------------------------------------
(***************************************************************************)
(* Approvals that do not overlap.  What two overlapping calls can break,   *)
(* others cannot: the status a call found is still there when it saves,    *)
(* and the log holds no approval of a change it is about to record.        *)
(***************************************************************************)
AboutToRecord(h, i) ==
  At(h, "audit") /\ calls[h].entry.action = "change.approved" /\ calls[h].entry.change = i

FirstApproval(i) ==
  /\ ~Overlap(i)
  /\ \A h \in Handlers : Approves(h, i) => changes[i] = "requested"
  /\ \A h \in Handlers : AboutToRecord(h, i) => ApprovalsOf(i) = {}
  /\ \A g, h \in Handlers : AboutToRecord(g, i) /\ AboutToRecord(h, i) => g = h
  /\ \A m, n \in ApprovalsOf(i) : m = n

HistoryInv == \A i \in Ids \ overlapped : FirstApproval(i)

\* A step of h leaves what others are about to do alone.
LEMMA OthersStay ==
  ASSUME IInv, NEW h \in Handlers, NEW call, Become(h, call)
  PROVE  /\ calls'[h] = call
         /\ \A g \in Handlers : g # h => calls'[g] = calls[g]
  BY DEF IInv, TypeOK, Become

\* Where nobody begins to save or to record an approval of i, its history goes on.
LEMMA NothingNew ==
  ASSUME NEW i \in Ids, FirstApproval(i),
         \A g \in Handlers : Approves(g, i)' => Approves(g, i) /\ changes'[i] = changes[i],
         \A g \in Handlers : AboutToRecord(g, i)' => AboutToRecord(g, i),
         ApprovalsOf(i)' = ApprovalsOf(i)
  PROVE  FirstApproval(i)'
  <1>1. Overlap(i)' => Overlap(i)
    BY DEF Overlap
  <1>2. (\A h \in Handlers : Approves(h, i) => changes[i] = "requested")'
    BY DEF FirstApproval
  <1>3. (\A h \in Handlers : AboutToRecord(h, i) => ApprovalsOf(i) = {})'
    BY DEF FirstApproval
  <1>4. (\A g, h \in Handlers : AboutToRecord(g, i) /\ AboutToRecord(h, i) => g = h)'
    BY DEF FirstApproval
  <1>5. (\A m, n \in ApprovalsOf(i) : m = n)'
    BY DEF FirstApproval
  <1> QED
    BY <1>1, <1>2, <1>3, <1>4, <1>5 DEF FirstApproval

LEMMA FirstCreateChange ==
  ASSUME IInv, NEW i \in Ids, FirstApproval(i), NEW h \in Handlers, CreateChange(h)
  PROVE  FirstApproval(i)'
  <1> DEFINE entry == Entry("change.created", Len(changes) + 1, None, DefaultStatus)
  <1>1. calls'[h] = Auditing(entry) /\ \A g \in Handlers : g # h => calls'[g] = calls[g]
    BY OthersStay DEF CreateChange
  <1>2. \A j \in DOMAIN changes : changes'[j] = changes[j]
    BY DEF CreateChange, IInv, TypeOK
  <1>3. ApprovalsOf(i)' = ApprovalsOf(i)
    BY DEF CreateChange, ApprovalsOf
  <1>4. \A g \in Handlers : AboutToRecord(g, i)' => AboutToRecord(g, i)
    BY <1>1 DEF AboutToRecord, At, Auditing, Entry
  <1>5. \A g \in Handlers : Approves(g, i)' => Approves(g, i)
    BY <1>1 DEF Approves, At, Auditing
  <1>6. \A g \in Handlers : Approves(g, i)' => Approves(g, i) /\ changes'[i] = changes[i]
    BY <1>2, <1>5 DEF IInv, SavedAreStored, Stored, Approves
  <1> QED
    BY <1>3, <1>4, <1>6, NothingNew

LEMMA FirstApproveChange ==
  ASSUME IInv, NEW i \in Ids, FirstApproval(i), ~Overlap(i)',
         NEW h \in Handlers, NEW j \in Ids, ApproveChange(h, j)
  PROVE  FirstApproval(i)'
  <1>1. /\ calls'[h] = Approving(j, changes[j])
        /\ \A g \in Handlers : g # h => calls'[g] = calls[g]
    BY OthersStay DEF ApproveChange
  <1>2. changes' = changes /\ changes[j] = "requested"
    BY DEF ApproveChange, Approvable, Stored, IInv, TypeOK, Statuses
  <1>3. ApprovalsOf(i)' = ApprovalsOf(i)
    BY DEF ApproveChange, ApprovalsOf
  <1>4. \A g \in Handlers : AboutToRecord(g, i)' => AboutToRecord(g, i)
    BY <1>1 DEF AboutToRecord, At, Approving
  <1>5. \A g \in Handlers : Approves(g, i)' => (g = h /\ i = j) \/ Approves(g, i)
    BY <1>1 DEF Approves, At, Approving
  <1>6. (\A g \in Handlers : Approves(g, i) => changes[i] = "requested")'
    BY <1>2, <1>5 DEF FirstApproval
  <1>7. (\A g \in Handlers : AboutToRecord(g, i) => ApprovalsOf(i) = {})'
    BY <1>3, <1>4 DEF FirstApproval
  <1>8. (\A f, g \in Handlers : AboutToRecord(f, i) /\ AboutToRecord(g, i) => f = g)'
    BY <1>4 DEF FirstApproval
  <1>9. (\A m, n \in ApprovalsOf(i) : m = n)'
    BY <1>3 DEF FirstApproval
  <1> QED
    BY <1>6, <1>7, <1>8, <1>9 DEF FirstApproval

LEMMA FirstSaveChanges ==
  ASSUME IInv, NEW i \in Ids, FirstApproval(i), NEW h \in Handlers, SaveChanges(h)
  PROVE  FirstApproval(i)'
  <1> DEFINE j == calls[h].id
             entry == Entry("change.approved", j, calls[h].previous, "approved")
  <1>1. calls'[h] = Auditing(entry) /\ \A g \in Handlers : g # h => calls'[g] = calls[g]
    BY OthersStay DEF SaveChanges
  <1>2. ApprovalsOf(i)' = ApprovalsOf(i)
    BY DEF SaveChanges, ApprovalsOf
  <1>3. \A g \in Handlers : Approves(g, i)' => g # h /\ Approves(g, i)
    BY <1>1 DEF Approves, At, Auditing
  <1>4. \A g \in Handlers : AboutToRecord(g, i)' => (g = h /\ i = j) \/ AboutToRecord(g, i)
    BY <1>1 DEF AboutToRecord, At, Auditing, Entry
  <1>5. CASE i # j
    <2>1. changes'[i] = changes[i]
      BY <1>5 DEF SaveChanges, IInv, TypeOK
    <2> QED
      BY <1>2, <1>3, <1>4, <1>5, <2>1, NothingNew
  <1>6. CASE i = j
    <2>1. Approves(h, i) /\ changes[i] = "requested"
      BY <1>6 DEF SaveChanges, Approves, FirstApproval
    <2>2. ApprovalsOf(i) = {}
      BY <2>1 DEF ApprovalsOf, IInv, AuditedApprovalsHold
    <2>3. \A g \in Handlers : ~AboutToRecord(g, i)
      BY <2>1 DEF AboutToRecord, IInv, AuditedAreSaved
    <2>4. \A g \in Handlers : ~Approves(g, i)'
      BY <1>3, <2>1 DEF FirstApproval, Overlap
    <2>5. (\A f, g \in Handlers : AboutToRecord(f, i) /\ AboutToRecord(g, i) => f = g)'
      BY <1>4, <2>3
    <2>6. ~Overlap(i)'
      BY <2>4 DEF Overlap
    <2> QED
      BY <1>2, <2>2, <2>4, <2>5, <2>6 DEF FirstApproval
  <1> QED
    BY <1>5, <1>6

LEMMA FirstRecordAuditEvent ==
  ASSUME IInv, NEW i \in Ids, FirstApproval(i), NEW h \in Handlers, RecordAuditEvent(h)
  PROVE  FirstApproval(i)'
  <1> DEFINE entry == calls[h].entry
             new == Len(audit) + 1
  <1>1. calls'[h] = Idle /\ \A g \in Handlers : g # h => calls'[g] = calls[g]
    BY OthersStay DEF RecordAuditEvent
  <1>2. entry \in Entries /\ Len(audit) \in Nat /\ audit \in Seq(Entries)
    <2>1. calls[h] \in Calls
      BY DEF IInv, TypeOK, Calls
    <2> QED
      BY <2>1, CallForms DEF RecordAuditEvent, At, IInv, TypeOK
  <1>3. ApprovalsOf(i)' \subseteq
           ApprovalsOf(i) \cup (IF AboutToRecord(h, i) THEN {new} ELSE {})
    <2>1. CASE audit' = audit
      BY <2>1 DEF ApprovalsOf
    <2>2. CASE audit' = Append(audit, entry)
      <3>1. \A n \in DOMAIN audit' :
               \/ n = new /\ audit'[n] = entry
               \/ n \in DOMAIN audit /\ audit'[n] = audit[n]
        BY <1>2, <2>2
      <3> QED
        BY <3>1 DEF ApprovalsOf, AboutToRecord, RecordAuditEvent
    <2> QED
      BY <2>1, <2>2 DEF RecordAuditEvent
  <1>4. \A g \in Handlers : AboutToRecord(g, i)' => AboutToRecord(g, i) /\ g # h
    BY <1>1 DEF AboutToRecord, At, Idle
  <1>5. \A g \in Handlers : Approves(g, i)' => Approves(g, i)
    BY <1>1 DEF Approves, At, Idle
  <1>6. (\A g \in Handlers : AboutToRecord(g, i) => ApprovalsOf(i) = {})'
    BY <1>3, <1>4 DEF FirstApproval
  <1>7. (\A m, n \in ApprovalsOf(i) : m = n)'
    BY <1>3 DEF FirstApproval
  <1>8. (\A g \in Handlers : Approves(g, i) => changes[i] = "requested")'
    BY <1>5 DEF FirstApproval, RecordAuditEvent
  <1>9. ~Overlap(i)'
    BY <1>5 DEF FirstApproval, Overlap
  <1>10. (\A f, g \in Handlers : AboutToRecord(f, i) /\ AboutToRecord(g, i) => f = g)'
    BY <1>4 DEF FirstApproval
  <1> QED
    BY <1>6, <1>7, <1>8, <1>9, <1>10 DEF FirstApproval

LEMMA FirstCrash ==
  ASSUME IInv, NEW i \in Ids, FirstApproval(i), NEW r \in Replicas, Crash(r)
  PROVE  FirstApproval(i)'
  <1>1. \A g \in Handlers : calls'[g] = Idle \/ calls'[g] = calls[g]
    BY DEF Crash
  <1>2. ApprovalsOf(i)' = ApprovalsOf(i)
    BY DEF Crash, ApprovalsOf
  <1>3. \A g \in Handlers : AboutToRecord(g, i)' => AboutToRecord(g, i)
    BY <1>1 DEF AboutToRecord, At, Idle
  <1>4. \A g \in Handlers : Approves(g, i)' => Approves(g, i) /\ changes'[i] = changes[i]
    BY <1>1 DEF Approves, At, Idle, Crash
  <1> QED
    BY <1>2, <1>3, <1>4, NothingNew

LEMMA HistoryStep ==
  ASSUME IInv, HistoryInv, [HistoryNext]_hvars
  PROVE  HistoryInv'
  <1>1. CASE UNCHANGED hvars
    <2>1. \A i \in Ids : FirstApproval(i)' = FirstApproval(i)
      BY <1>1 DEF hvars, vars, FirstApproval, Overlap, Approves, AboutToRecord,
                  ApprovalsOf, At
    <2> QED
      BY <1>1, <2>1 DEF HistoryInv, hvars
  <1>2. CASE HistoryNext
    <2> SUFFICES ASSUME NEW i \in Ids, i \notin overlapped'
                 PROVE  FirstApproval(i)'
      BY DEF HistoryInv
    <2>1. FirstApproval(i) /\ ~Overlap(i)'
      BY <1>2 DEF HistoryInv, HistoryNext, Watch
    <2>2. ASSUME NEW h \in Handlers, CreateChange(h) PROVE FirstApproval(i)'
      BY <2>1, <2>2, FirstCreateChange
    <2>3. ASSUME NEW h \in Handlers, NEW j \in Ids, ApproveChange(h, j)
          PROVE  FirstApproval(i)'
      BY <2>1, <2>3, FirstApproveChange
    <2>4. ASSUME NEW h \in Handlers, SaveChanges(h) PROVE FirstApproval(i)'
      BY <2>1, <2>4, FirstSaveChanges
    <2>5. ASSUME NEW h \in Handlers, RecordAuditEvent(h) PROVE FirstApproval(i)'
      BY <2>1, <2>5, FirstRecordAuditEvent
    <2>6. ASSUME NEW r \in Replicas, Crash(r) PROVE FirstApproval(i)'
      BY <2>1, <2>6, FirstCrash
    <2> QED
      BY <1>2, <2>2, <2>3, <2>4, <2>5, <2>6 DEF HistoryNext, Next
  <1> QED
    BY <1>1, <1>2

\* For any number of calls, losses and crashes: two entries about the approval of one
\* change mean that two calls approved it at the same time (ChangeServiceImpl.cs:91-102).
THEOREM ApprovedOnceCorrect == HistorySpec => []ApprovedOnceUnlessOverlapped
  <1>1. HistoryInit => Init /\ HistoryInv
    BY DEF HistoryInit, Init, HistoryInv, FirstApproval, Overlap, Approves,
           AboutToRecord, ApprovalsOf, Idle, At
  <1>2. [HistoryNext]_hvars => [Next]_vars
    BY DEF HistoryNext, Next, hvars
  <1>3. HistorySpec => Spec
    BY <1>1, <1>2, PTL DEF HistorySpec, Spec
  <1>4. HistorySpec /\ []IInv => []HistoryInv
    BY <1>1, HistoryStep, PTL DEF HistorySpec
  <1>5. HistoryInv => ApprovedOnceUnlessOverlapped
    BY DEF HistoryInv, FirstApproval, ApprovedOnceUnlessOverlapped
  <1> QED
    BY <1>3, <1>4, <1>5, ChangeInductive, PTL
=============================================================================
