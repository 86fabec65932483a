--------------------------- MODULE ChangeApprovals ---------------------------
(***************************************************************************)
(* The Change Service with a history variable: which changes two calls     *)
(* have been approving at the same time.  ApproveChange has nothing that   *)
(* keeps them apart, so this is what the rule "approved once" depends on.  *)
(* The history reads the service and restricts none of its steps.          *)
(***************************************************************************)
EXTENDS ChangeService

VARIABLE overlapped  \* the changes that two calls were between find and save of at once

hvars == <<vars, overlapped>>

\* The call has found the change not approved and has yet to save it.
Approves(h, i) == At(h, "save") /\ calls[h].id = i

Overlap(i) == \E g, h \in Handlers : g # h /\ Approves(g, i) /\ Approves(h, i)

HistoryInit == Init /\ overlapped = {}

Watch == overlapped' = overlapped \cup {i \in Ids : Overlap(i)'}

\* Every step of the service, watched.
HistoryNext ==
  \/ \E h \in Handlers :
       \/ CreateChange(h) /\ Watch
       \/ \E i \in Ids : ApproveChange(h, i) /\ Watch
       \/ SaveChanges(h) /\ Watch
       \/ RecordAuditEvent(h) /\ Watch
  \/ \E r \in Replicas : Crash(r) /\ Watch

HistorySpec == HistoryInit /\ [][HistoryNext]_hvars
-----------------------------------------------------------------------------
\* A change is in the audit log as approved more than once only if two calls were
\* between its FindAsync and its SaveChangesAsync at the same time: the check of
\* ChangeServiceImpl.cs:91 stops every later call, however many calls there are,
\* whatever they save, lose or leave behind when they die.
ApprovedOnceUnlessOverlapped ==
  \A i \in Ids \ overlapped : \A m, n \in ApprovalsOf(i) : m = n
=============================================================================
