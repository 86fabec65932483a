-------------------------- MODULE IncidentSlaProofs --------------------------
(***************************************************************************)
(* What the SLA reports promise, whatever the instants at which something  *)
(* happens and however many sessions change the status at once.  IInv says *)
(* which stamps a row of each status has, and how what a session holds     *)
(* relates to the row; the reports are then compared before and after each *)
(* step.                                                                   *)
(***************************************************************************)
EXTENDS IncidentSla, TLAPS

SlaRow == [severity: Given, status: Statuses,
           first_response_at: Nat \cup {None}, resolved_at: Nat \cup {None}]

\* A row has the stamps that its status calls for.  It may have others: a stale session
\* may take the status back.
NoStampMissing(r) ==
  /\ r.status # "open" => r.first_response_at # None
  /\ Done(r) => r.resolved_at # None

\* No stamp is taken away.
Kept(r, next) ==
  /\ r.first_response_at # None => next.first_response_at # None
  /\ r.resolved_at # None => next.resolved_at # None

\* What a session holds, when the row is r and the clock says "at".
SessionOk(c, r, at) ==
  /\ NoStampMissing(c.loaded) /\ Kept(c.loaded, r)
  /\ c.requested = c.loaded.status \/ c.requested \in AllowedTransitions[c.loaded.status]
  /\ c.pending # None =>
       \E t \in Nat : t <= at /\ c.pending = Stamped(c.loaded, c.requested, t)

\* The stamps of r were taken in the past.
TakenBefore(r, at) ==
  \A stamp \in {r.first_response_at, r.resolved_at} : stamp # None => stamp <= at

IInv ==
  /\ row \in SlaRow /\ NoStampMissing(row) /\ TakenBefore(row, now)
  /\ now \in Nat /\ now \in Instants
  /\ sessions \in [Sessions -> Session \cup {None}]
  /\ \A h \in Sessions : sessions[h] # None => SessionOk(sessions[h], row, now)

-----------------------------------------------------------------------------
\* The words of the classifier are stored in lower case.
LEMMA WordsNormalized ==
  /\ \A s \in Statuses \cup SuggestedStatuses : Normalized(s) \in Statuses
  /\ \A s \in Severities \cup SuggestedSeverities : Normalized(s) \in Severities
BY DEF Statuses, SuggestedStatuses, Severities, SuggestedSeverities, Normalized, Lower, LowerCase

\* The clock moves to a later instant.
LEMMA LaterInstant ==
  ASSUME now \in Nat, Tick
  PROVE  now' \in Nat /\ now' \in Instants /\ now <= now'
BY InstantsAssumption DEF Tick

\* The statuses that may follow.
LEMMA Transitions ==
  ASSUME NEW from \in Statuses, NEW to \in Statuses,
         to = from \/ to \in AllowedTransitions[from]
  PROVE  /\ from = "open"        => to \in {"open", "in_progress"}
         /\ from = "in_progress" => to \in {"in_progress", "resolved"}
         /\ from = "resolved"    => to \in {"resolved", "closed"}
         /\ from = "closed"      => to = "closed"
BY DEF AllowedTransitions, Statuses

\* What a session that holds c, with stamps taken at t, makes of row r by its commit.
Committed(r, c, t, next) ==
  /\ next.severity = r.severity
  /\ next.status = IF c.requested # c.loaded.status THEN c.requested ELSE r.status
  /\ next.first_response_at =
       IF c.requested = "in_progress" /\ c.loaded.first_response_at = None
       THEN t ELSE r.first_response_at
  /\ next.resolved_at =
       IF c.requested = "resolved" /\ c.loaded.resolved_at = None THEN t ELSE r.resolved_at

\* The flush writes what the assignment changed.
LEMMA FlushCommits ==
  ASSUME NEW r \in SlaRow, NEW c \in Session, NEW t \in Nat,
         c.pending = Stamped(c.loaded, c.requested, t)
  PROVE  LET next == Flush(r, c.loaded, c.pending)
         IN  next \in SlaRow /\ Committed(r, c, t, next)
<1> DEFINE p == c.pending
           l == c.loaded
           next == Flush(r, l, p)
<1>1. l \in Copy /\ c.requested \in Statuses /\ t # None
  BY NoneAssumption DEF Session
<1>2. /\ DOMAIN l = Columns /\ p \in Copy
      /\ p.status = c.requested
      /\ p.first_response_at =
           IF c.requested = "in_progress" /\ l.first_response_at = None
           THEN t ELSE l.first_response_at
      /\ p.resolved_at =
           IF c.requested = "resolved" /\ l.resolved_at = None THEN t ELSE l.resolved_at
  BY <1>1 DEF Stamped, Copy, Columns
<1> HIDE DEF p, l
<1>3. /\ DOMAIN r = {"severity", "status", "first_response_at", "resolved_at"}
      /\ r = [severity |-> r.severity, status |-> r.status,
              first_response_at |-> r.first_response_at, resolved_at |-> r.resolved_at]
      /\ r.severity \in Given /\ r.status \in Statuses
      /\ r.first_response_at \in Nat \cup {None} /\ r.resolved_at \in Nat \cup {None}
  BY DEF SlaRow
<1>4. /\ next.severity = r.severity
      /\ next.status = IF p.status # l.status THEN p.status ELSE r.status
      /\ next.first_response_at =
           IF p.first_response_at # l.first_response_at
           THEN p.first_response_at ELSE r.first_response_at
      /\ next.resolved_at =
           IF p.resolved_at # l.resolved_at THEN p.resolved_at ELSE r.resolved_at
      /\ next = [severity |-> next.severity, status |-> next.status,
                 first_response_at |-> next.first_response_at, resolved_at |-> next.resolved_at]
  BY <1>2, <1>3 DEF Flush, DirtyColumns, Columns
<1> HIDE DEF next
<1>5. Committed(r, c, t, next)
  BY <1>1, <1>2, <1>4 DEF Committed, l
<1>6. next \in SlaRow
  BY <1>1, <1>2, <1>3, <1>4 DEF SlaRow, Copy
<1> QED
  BY <1>5, <1>6 DEF p, l, next

\* A commit takes no stamp away that a status calls for, or that a session has seen.
LEMMA CommitKeeps ==
  ASSUME NEW r \in SlaRow, NEW c \in Session, NEW t \in Nat, NEW at \in Nat, t <= at,
         NEW next \in SlaRow, Committed(r, c, t, next), NoStampMissing(r), TakenBefore(r, at),
         SessionOk(c, r, at)
  PROVE  NoStampMissing(next) /\ Kept(r, next) /\ TakenBefore(next, at)
<1>1. t # None /\ c.loaded.status \in Statuses /\ c.requested \in Statuses
  BY NoneAssumption DEF Session, Copy
<1>2. Kept(r, next)
  BY <1>1 DEF Committed, Kept
<1>3. TakenBefore(next, at)
  BY DEF Committed, TakenBefore
<1>4. CASE c.requested = c.loaded.status
  <2>1. next.status = r.status
    BY <1>4 DEF Committed
  <2> QED
    BY <1>2, <1>3, <2>1 DEF NoStampMissing, Kept, Done
<1>5. CASE c.requested # c.loaded.status
  <2>1. /\ c.requested \in AllowedTransitions[c.loaded.status] /\ next.status = c.requested
        /\ NoStampMissing(c.loaded) /\ Kept(c.loaded, r)
    BY <1>5 DEF Committed, SessionOk
  <2>2. /\ c.loaded.status = "open"        => c.requested = "in_progress"
        /\ c.loaded.status = "in_progress" => c.requested = "resolved"
        /\ c.loaded.status = "resolved"    => c.requested = "closed"
        /\ c.loaded.status # "closed"
    BY <1>1, <1>5, <2>1, Transitions
  <2>3. /\ c.loaded.first_response_at # None => next.first_response_at # None
        /\ c.loaded.resolved_at # None => next.resolved_at # None
    BY <1>2, <2>1 DEF Kept
  <2>4. /\ c.requested = "in_progress" => next.first_response_at # None
        /\ c.requested = "resolved" => next.resolved_at # None
    BY <1>1, <2>3 DEF Committed
  <2>5. NoStampMissing(next)
    BY <1>1, <2>1, <2>2, <2>3, <2>4 DEF NoStampMissing, Done, Statuses
  <2> QED
    BY <1>2, <1>3, <2>5
<1> QED
  BY <1>4, <1>5

\* What a commit does.
LEMMA CommitFacts ==
  ASSUME IInv, NEW h \in Sessions, Commit(h)
  PROVE  /\ row' \in SlaRow /\ now' = now
         /\ NoStampMissing(row') /\ Kept(row, row') /\ TakenBefore(row', now)
         /\ sessions[h] \in Session /\ SessionOk(sessions[h], row, now)
         /\ sessions[h] # None /\ sessions[h].pending # None
         /\ sessions' = [sessions EXCEPT ![h] = None] /\ sessions'[h] = None
         /\ \E t \in Nat : t <= now /\ Committed(row, sessions[h], t, row')
<1>1. /\ sessions[h] # None /\ sessions[h].pending # None /\ now' = now
      /\ row' = Flush(row, sessions[h].loaded, sessions[h].pending)
      /\ sessions' = [sessions EXCEPT ![h] = None]
  BY DEF Commit
<1>2. /\ row \in SlaRow /\ now \in Nat /\ NoStampMissing(row) /\ TakenBefore(row, now)
      /\ sessions[h] \in Session /\ SessionOk(sessions[h], row, now) /\ sessions'[h] = None
  BY <1>1 DEF IInv
<1>3. PICK t \in Nat :
        t <= now /\ sessions[h].pending = Stamped(sessions[h].loaded, sessions[h].requested, t)
  BY <1>1, <1>2 DEF SessionOk
<1>4. row' \in SlaRow /\ Committed(row, sessions[h], t, row')
  BY <1>1, <1>2, <1>3, FlushCommits
<1>5. NoStampMissing(row') /\ Kept(row, row') /\ TakenBefore(row', now)
  BY <1>2, <1>3, <1>4, CommitKeeps
<1> QED
  BY <1>1, <1>2, <1>3, <1>4, <1>5

-----------------------------------------------------------------------------
\* An incident starts with the stamps its status calls for, which is to have none.
LEMMA Initial == Init => IInv
<1> SUFFICES ASSUME Init PROVE IInv
  OBVIOUS
<1>1. row \in SlaRow /\ row.status = "open"
      /\ row.first_response_at = None /\ row.resolved_at = None
  BY DEF Init, SlaRow, Statuses
<1>2. now = 0 /\ now \in Nat /\ now \in Instants
  BY InstantsAssumption DEF Init
<1>3. sessions \in [Sessions -> Session \cup {None}] /\ \A h \in Sessions : sessions[h] = None
  BY DEF Init
<1>4. NoStampMissing(row) /\ TakenBefore(row, now)
  BY <1>1 DEF NoStampMissing, TakenBefore, Done
<1> QED
  BY <1>1, <1>2, <1>3, <1>4 DEF IInv

\* The sessions of a row that keeps its stamps, at a clock that does not go back.
LEMMA SessionKept ==
  ASSUME NEW c \in Session, NEW r, NEW s, NEW at \in Nat, NEW bt \in Nat, at <= bt,
         SessionOk(c, r, at), Kept(r, s)
  PROVE  SessionOk(c, s, bt)
<1>1. Kept(c.loaded, s)
  BY DEF SessionOk, Kept
<1>2. ASSUME c.pending # None
      PROVE  \E t \in Nat : t <= bt /\ c.pending = Stamped(c.loaded, c.requested, t)
  <2>1. PICK t \in Nat : t <= at /\ c.pending = Stamped(c.loaded, c.requested, t)
    BY <1>2 DEF SessionOk
  <2>2. t <= bt
    BY <2>1
  <2> QED
    BY <2>1, <2>2
<1> QED
  BY <1>1, <1>2 DEF SessionOk

\* What a session loads it holds.
LEMMA LoadKept ==
  ASSUME IInv, NEW h \in Sessions, NEW s \in Statuses \cup SuggestedStatuses,
         LoadForStatus(h, s)
  PROVE  sessions'[h] \in Session /\ SessionOk(sessions'[h], row, now)
<1> DEFINE l == Project(row, Columns)
           c == [loaded |-> l, requested |-> Normalized(s), pending |-> None]
<1>1. sessions' = [sessions EXCEPT ![h] = c] /\ ValidTransition(row.status, s)
  BY DEF LoadForStatus
<1>2. sessions'[h] = c
  BY <1>1 DEF IInv
<1>3. /\ l \in Copy /\ l.status = row.status
      /\ l.first_response_at = row.first_response_at /\ l.resolved_at = row.resolved_at
  BY DEF Project, Columns, Copy, IInv, SlaRow
<1>4. Normalized(s) \in Statuses
  BY WordsNormalized
<1>5. Normalized(s) = row.status \/ Normalized(s) \in AllowedTransitions[row.status]
  BY <1>1 DEF ValidTransition, Normalized
<1> HIDE DEF l
<1>6. c \in Session
  BY <1>3, <1>4 DEF Session
<1>7. NoStampMissing(l) /\ Kept(l, row)
  BY <1>3 DEF IInv, NoStampMissing, Kept, Done
<1>8. SessionOk(c, row, now)
  BY <1>3, <1>5, <1>7 DEF SessionOk
<1> QED
  BY <1>2, <1>6, <1>8

\* What a session assigns it assigns now.
LEMMA AssignKept ==
  ASSUME IInv, NEW h \in Sessions, AssignStatus(h)
  PROVE  sessions'[h] \in Session /\ SessionOk(sessions'[h], row, now)
<1> DEFINE c == sessions[h]
           p == Stamped(c.loaded, c.requested, now)
<1>1. /\ c # None /\ c \in Session /\ SessionOk(c, row, now)
      /\ sessions' = [sessions EXCEPT ![h].pending = p]
  BY DEF AssignStatus, IInv
<1>2. p \in Copy
  BY <1>1 DEF Session, Copy, Stamped, IInv
<1> HIDE DEF p
<1>3. sessions'[h] = [c EXCEPT !.pending = p]
  BY <1>1 DEF IInv
<1>4. /\ sessions'[h] \in Session /\ sessions'[h].loaded = c.loaded
      /\ sessions'[h].requested = c.requested /\ sessions'[h].pending = p
  BY <1>1, <1>2, <1>3 DEF Session
<1>5. now \in Nat /\ now <= now
  BY DEF IInv
<1> QED
  BY <1>1, <1>4, <1>5 DEF SessionOk, p

\* A step of session h, which holds afterwards what it may hold, or nothing.
LEMMA SessionStep ==
  ASSUME IInv, NEW h \in Sessions, NEW c \in Session \cup {None},
         sessions' = [sessions EXCEPT ![h] = c],
         row' \in SlaRow, NoStampMissing(row'), TakenBefore(row', now), Kept(row, row'),
         now' = now, c # None => SessionOk(c, row', now)
  PROVE  IInv'
<1>1. sessions' \in [Sessions -> Session \cup {None}]
  BY DEF IInv
<1>2. ASSUME NEW g \in Sessions, sessions'[g] # None
      PROVE  SessionOk(sessions'[g], row', now')
  <2>1. CASE g = h
    BY <1>2, <2>1 DEF IInv
  <2>2. CASE g # h
    <3>1. sessions'[g] = sessions[g] /\ sessions[g] \in Session /\ SessionOk(sessions[g], row, now)
      BY <1>2, <2>2 DEF IInv
    <3>2. now \in Nat /\ now <= now
      BY DEF IInv
    <3>3. SessionOk(sessions[g], row', now)
      BY <3>1, <3>2, SessionKept
    <3> QED
      BY <3>1, <3>3
  <2> QED
    BY <2>1, <2>2
<1>3. now' \in Nat /\ now' \in Instants /\ TakenBefore(row', now')
  BY DEF IInv
<1> QED
  BY <1>1, <1>2, <1>3 DEF IInv

\* A step that is none of a session's, and keeps the status and the stamps.
LEMMA OtherStep ==
  ASSUME IInv, UNCHANGED sessions, row' \in SlaRow, row'.status = row.status,
         row'.first_response_at = row.first_response_at, row'.resolved_at = row.resolved_at,
         now' \in Nat, now' \in Instants, now <= now'
  PROVE  IInv'
<1>1. NoStampMissing(row') /\ Kept(row, row')
  BY DEF IInv, NoStampMissing, Kept, Done
<1>2. TakenBefore(row', now')
  BY DEF IInv, TakenBefore, SlaRow
<1>3. ASSUME NEW h \in Sessions, sessions'[h] # None
      PROVE  SessionOk(sessions'[h], row', now')
  <2>1. sessions'[h] = sessions[h] /\ sessions[h] \in Session /\ SessionOk(sessions[h], row, now)
    BY <1>3 DEF IInv
  <2>2. now \in Nat
    BY DEF IInv
  <2> QED
    BY <1>1, <2>1, <2>2, SessionKept
<1> QED
  BY <1>1, <1>2, <1>3 DEF IInv

\* Another severity is one of those given, and changes nothing else.
LEMMA SeverityFacts ==
  ASSUME row \in SlaRow, NEW s \in SeverityRequests, UpdateSeverity(s)
  PROVE  /\ row' \in SlaRow /\ row'.status = row.status
         /\ row'.first_response_at = row.first_response_at
         /\ row'.resolved_at = row.resolved_at
         /\ row'.severity = row.severity => row' = row
         /\ sessions' = sessions /\ now' = now
BY DEF UpdateSeverity, SlaRow, SeverityRequests

\* No step leaves a row without a stamp that its status calls for.
LEMMA Inductive == IInv /\ [Next]_vars => IInv'
<1> SUFFICES ASSUME IInv, [Next]_vars PROVE IInv'
  OBVIOUS
<1>0. /\ row \in SlaRow /\ NoStampMissing(row) /\ TakenBefore(row, now) /\ Kept(row, row)
      /\ now \in Nat /\ now \in Instants /\ now <= now
  BY DEF IInv, Kept
<1>1. ASSUME NEW h \in Sessions, NEW s \in Statuses \cup SuggestedStatuses, LoadForStatus(h, s)
      PROVE  IInv'
  <2>1. sessions' = [sessions EXCEPT ![h] = sessions'[h]] /\ row' = row /\ now' = now
    BY <1>1 DEF LoadForStatus, IInv
  <2>2. sessions'[h] \in Session /\ SessionOk(sessions'[h], row, now)
    BY <1>1, LoadKept
  <2> QED
    BY <1>0, <2>1, <2>2, SessionStep
<1>2. ASSUME NEW h \in Sessions, AssignStatus(h) PROVE IInv'
  <2>1. sessions' = [sessions EXCEPT ![h] = sessions'[h]] /\ row' = row /\ now' = now
    BY <1>2 DEF AssignStatus, IInv
  <2>2. sessions'[h] \in Session /\ SessionOk(sessions'[h], row, now)
    BY <1>2, AssignKept
  <2> QED
    BY <1>0, <2>1, <2>2, SessionStep
<1>3. ASSUME NEW h \in Sessions, Commit(h) PROVE IInv'
  BY <1>3, CommitFacts, SessionStep
<1>4. ASSUME NEW h \in Sessions, Lose(h) PROVE IInv'
  <2>1. sessions' = [sessions EXCEPT ![h] = None] /\ row' = row /\ now' = now
    BY <1>4 DEF Lose
  <2> QED
    BY <1>0, <2>1, SessionStep
<1>5. ASSUME NEW s \in SeverityRequests, UpdateSeverity(s) PROVE IInv'
  BY <1>0, <1>5, SeverityFacts, OtherStep
<1>6. CASE Tick
  <2>1. row' = row /\ sessions' = sessions
    BY <1>6 DEF Tick
  <2> QED
    BY <1>0, <1>6, <2>1, LaterInstant, OtherStep
<1>7. CASE UNCHANGED vars
  BY <1>0, <1>7, OtherStep DEF vars
<1> QED
  BY <1>1, <1>2, <1>3, <1>4, <1>5, <1>6, <1>7 DEF Next

-----------------------------------------------------------------------------
(***************************************************************************)
(* Reports                                                                 *)
(***************************************************************************)
TargetOf(r) == GetSlaTarget(r.severity)

ResponseLate(r, at) == PastDeadline(r.first_response_at, at, TargetOf(r).response, None)
ResolutionLate(r, at) ==
  /\ r.resolved_at # None \/ ~Done(r)
  /\ PastDeadline(r.resolved_at, at, TargetOf(r).resolution, None)
ActiveDeadline(r) ==
  IF r.first_response_at = None THEN TargetOf(r).response ELSE TargetOf(r).resolution

\* Every severity has its targets.
LEMMA TargetsAreNumbers ==
  ASSUME NEW r \in SlaRow
  PROVE  /\ TargetOf(r).response \in Nat /\ TargetOf(r).resolution \in Nat
         /\ TargetOf(r).response <= TargetOf(r).resolution
         /\ TargetOf(r) = [goal \in {"response", "resolution"} |-> TargetOf(r)[goal]]
<1>1. r.severity \in Severities
  BY GivenAssumption DEF SlaRow
<1> QED
  BY <1>1 DEF TargetOf, GetSlaTarget, Severities, SlaTargetsMinutes, HalfSeconds

\* What a report says of a row.
LEMMA ReportSays ==
  ASSUME NEW r \in SlaRow, NEW at \in Nat
  PROVE  LET report == ComputeSla(r, at, None)
             late == ResponseLate(r, at) \/ ResolutionLate(r, at)
         IN  /\ report.state = "breached" <=> late
             /\ report.state = "met" <=> Done(r) /\ ~late
             /\ report.remaining_seconds =
                  IF Done(r) THEN 0 ELSE WholeSeconds(ActiveDeadline(r) - at)
BY DEF ComputeSla, ResponseLate, ResolutionLate, ActiveDeadline, TargetOf, Done

\* Cutting off the half seconds keeps the order.
LEMMA WholeSecondsMonotone ==
  ASSUME NEW m \in Int, NEW n \in Int, m <= n
  PROVE  WholeSeconds(m) <= WholeSeconds(n)
BY DEF WholeSeconds

\* A report of a resolved incident depends on its row alone.
LEMMA DoneReport ==
  ASSUME NEW r \in SlaRow, NEW s \in SlaRow, NEW at \in Nat, NEW bt \in Nat,
         NoStampMissing(r), Done(r), Done(s), r.severity = s.severity,
         r.first_response_at = s.first_response_at, r.resolved_at = s.resolved_at
  PROVE  ComputeSla(r, at, None).state = ComputeSla(s, bt, None).state
<1>1. TargetOf(r) = TargetOf(s)
  BY DEF TargetOf
<1>2. /\ ResponseLate(r, at) = ResponseLate(s, bt)
      /\ ResolutionLate(r, at) = ResolutionLate(s, bt)
  BY <1>1 DEF ResponseLate, ResolutionLate, PastDeadline, NoStampMissing, Done
<1>3. /\ ComputeSla(r, at, None).state \in {"met", "breached"}
      /\ ComputeSla(s, bt, None).state \in {"met", "breached"}
  BY DEF ComputeSla, Done
<1> QED
  BY <1>2, <1>3, ReportSays

\* A report of a breach is withdrawn only by a stamp that was taken in time.
LEMMA BreachWithdrawn ==
  ASSUME NEW r \in SlaRow, NEW s \in SlaRow, NEW at \in Nat, NEW bt \in Nat, at <= bt,
         NoStampMissing(s), r.severity = s.severity, Kept(r, s),
         ComputeSla(r, at, None).state = "breached",
         ComputeSla(s, bt, None).state # "breached"
  PROVE  \/ s.first_response_at # r.first_response_at
              /\ s.first_response_at <= TargetOf(r).response
         \/ s.resolved_at # r.resolved_at
              /\ s.resolved_at <= TargetOf(r).resolution
<1>1. TargetOf(r) = TargetOf(s) /\ TargetOf(r).response \in Nat /\ TargetOf(r).resolution \in Nat
  BY TargetsAreNumbers DEF TargetOf
<1>2. /\ ResponseLate(r, at) \/ ResolutionLate(r, at)
      /\ ~ResponseLate(s, bt) /\ ~ResolutionLate(s, bt)
  BY ReportSays
<1>3. /\ r.first_response_at \in Nat \cup {None} /\ s.first_response_at \in Nat \cup {None}
      /\ r.resolved_at \in Nat \cup {None} /\ s.resolved_at \in Nat \cup {None}
  BY DEF SlaRow
<1>4. CASE ResponseLate(r, at)
  <2>1. s.first_response_at # r.first_response_at
    BY <1>1, <1>2, <1>3, <1>4 DEF ResponseLate, PastDeadline
  <2>2. s.first_response_at # None
    BY <2>1 DEF Kept
  <2> QED
    BY <1>1, <1>2, <1>3, <2>1, <2>2 DEF ResponseLate, PastDeadline
<1>5. CASE ResolutionLate(r, at)
  <2>1. s.resolved_at # r.resolved_at
    <3>1. SUFFICES ASSUME s.resolved_at = r.resolved_at PROVE ResolutionLate(s, bt)
      BY <1>2
    <3>2. s.resolved_at # None \/ ~Done(s)
      BY DEF NoStampMissing
    <3> QED
      BY <1>1, <1>3, <1>5, <3>1, <3>2 DEF ResolutionLate, PastDeadline
  <2>2. s.resolved_at # None
    BY <2>1 DEF Kept
  <2> QED
    BY <1>1, <1>2, <1>3, <2>1, <2>2 DEF ResolutionLate, PastDeadline
<1> QED
  BY <1>2, <1>4, <1>5

\* What a step that leaves the severity does to the row and the clock.
LEMMA StepFacts ==
  ASSUME IInv, [Next]_vars, row'.severity = row.severity
  PROVE  /\ Kept(row, row') /\ now <= now'
         /\ \/ row' = row
            \/ \E h \in Sessions : Commit(h)
<1>1. row \in SlaRow /\ now \in Nat /\ now <= now /\ Kept(row, row)
  BY DEF IInv, Kept
<1>2. ASSUME NEW s \in SeverityRequests, UpdateSeverity(s)
      PROVE  row' = row /\ now' = now
  BY <1>1, <1>2, SeverityFacts
<1>3. CASE Tick
  BY <1>1, <1>3, LaterInstant DEF Tick
<1>4. ASSUME NEW h \in Sessions, Commit(h)
      PROVE  Kept(row, row') /\ now' = now
  BY <1>4, CommitFacts
<1>5. ASSUME NEW h \in Sessions,
             (\E s \in Statuses \cup SuggestedStatuses : LoadForStatus(h, s))
               \/ AssignStatus(h) \/ Lose(h)
      PROVE  row' = row /\ now' = now
  BY <1>5 DEF LoadForStatus, AssignStatus, Lose
<1>6. ASSUME UNCHANGED vars
      PROVE  row' = row /\ now' = now
  BY <1>6 DEF vars
<1>7. \/ row' = row /\ now <= now'
      \/ \E h \in Sessions : Commit(h)
  BY <1>1, <1>2, <1>3, <1>5, <1>6 DEF Next
<1>8. row' = row => Kept(row, row')
  BY <1>1
<1> QED
  BY <1>1, <1>4, <1>7, <1>8

\* Only a stale session moves a stamp or takes a resolution back.
LEMMA StaleOnly ==
  ASSUME IInv, NEW h \in Sessions, Commit(h)
  PROVE  /\ Restamps => StaleCommit
         /\ Done(row) /\ ~Done(row') => StaleCommit
<1> DEFINE c == sessions[h]
           l == Project(row, Columns)
<1>1. /\ c # None /\ c.pending # None /\ sessions'[h] = None /\ c \in Session
      /\ SessionOk(c, row, now) /\ row \in SlaRow
  BY CommitFacts DEF IInv
<1>2. PICK t \in Nat : Committed(row, c, t, row')
  BY CommitFacts
<1>3. /\ l.status = row.status /\ l.first_response_at = row.first_response_at
      /\ l.resolved_at = row.resolved_at
  BY DEF Project, Columns
<1>4. c.loaded # l => StaleCommit
  BY <1>1 DEF StaleCommit
<1> HIDE DEF l
<1>5. ASSUME Restamps, c.loaded = l
      PROVE  FALSE
  BY <1>2, <1>3, <1>5 DEF Restamps, Stamps, Committed
<1>6. ASSUME Done(row), ~Done(row'), c.loaded = l
      PROVE  FALSE
  <2>1. /\ c.requested = row.status \/ c.requested \in AllowedTransitions[row.status]
        /\ c.requested \in Statuses /\ row.status \in Statuses
    BY <1>1, <1>3, <1>6 DEF SessionOk, Session, SlaRow
  <2>2. c.requested \in {"resolved", "closed"}
    BY <1>6, <2>1, Transitions DEF Done
  <2>3. row'.status \in {c.requested, row.status}
    BY <1>2 DEF Committed
  <2> QED
    BY <1>6, <2>2, <2>3 DEF Done
<1> QED
  BY <1>4, <1>5, <1>6

-----------------------------------------------------------------------------
\* The invariant holds.
LEMMA SlaInvariant == Spec => []IInv
BY Initial, Inductive, PTL DEF Spec

\* However many sessions change the status at once, on copies however old: the row never
\* lacks a stamp that its status calls for, and no stamp is ahead of the clock.
THEOREM StampsNeverMissing == Spec => [](NoStampMissing(row) /\ TakenBefore(row, now))
<1>1. IInv => NoStampMissing(row) /\ TakenBefore(row, now)
  BY DEF IInv
<1> QED
  BY <1>1, SlaInvariant, PTL

\* A report of "met" means that both milestones were reached in time, whenever it is
\* computed (sla.py:33-40).
THEOREM MetCorrect == Spec => []MetMeansInTime
<1>1. IInv => MetMeansInTime
  <2> SUFFICES ASSUME IInv, sla.state = "met" PROVE MetMeansInTime
    BY DEF MetMeansInTime
  <2>1. Done(row) /\ ~ResponseLate(row, now) /\ ~ResolutionLate(row, now)
    BY ReportSays DEF IInv, sla
  <2>2. row.first_response_at # None /\ row.resolved_at # None
    BY <2>1 DEF IInv, NoStampMissing, Done
  <2>3. /\ row.first_response_at \in Nat /\ row.resolved_at \in Nat
        /\ TargetOf(row).response \in Nat /\ TargetOf(row).resolution \in Nat
    BY <2>2, TargetsAreNumbers DEF IInv, SlaRow
  <2> QED
    BY <2>1, <2>2, <2>3
       DEF MetMeansInTime, ResponseLate, ResolutionLate, PastDeadline, Deadline, TargetOf
<1> QED
  BY <1>1, SlaInvariant, PTL

\* What is reported of a resolved incident is changed by stale sessions only, and a breach
\* is withdrawn only by a stamp that was taken in time and committed late
\* (incident_repository.py:134, 161).
THEOREM ReportsFinal == Spec => ReportsAreFinal
<1>1. IInv /\ IInv' /\ [Next]_vars => [row'.severity = row.severity =>
       /\ Done(row) /\ sla'.state # sla.state => StaleCommit /\ (Restamps \/ ~Done(row'))
       /\ sla.state = "breached" /\ sla'.state # "breached" =>
            \/ row'.first_response_at # row.first_response_at
               /\ row'.first_response_at <= Deadline("response")
            \/ row'.resolved_at # row.resolved_at
               /\ row'.resolved_at <= Deadline("resolution")]_vars
  <2> SUFFICES ASSUME IInv, IInv', [Next]_vars, row'.severity = row.severity
               PROVE  /\ Done(row) /\ sla'.state # sla.state =>
                           StaleCommit /\ (Restamps \/ ~Done(row'))
                      /\ sla.state = "breached" /\ sla'.state # "breached" =>
                           \/ row'.first_response_at # row.first_response_at
                              /\ row'.first_response_at <= Deadline("response")
                           \/ row'.resolved_at # row.resolved_at
                              /\ row'.resolved_at <= Deadline("resolution")
    OBVIOUS
  <2>1. /\ row \in SlaRow /\ row' \in SlaRow /\ now \in Nat /\ now' \in Nat
        /\ NoStampMissing(row) /\ NoStampMissing(row')
    BY DEF IInv
  <2>2. Kept(row, row') /\ now <= now' /\ (row' = row \/ \E h \in Sessions : Commit(h))
    BY StepFacts
  <2>3. /\ sla = ComputeSla(row, now, None) /\ sla' = ComputeSla(row', now', None)
        /\ Deadline("response") = TargetOf(row).response
        /\ Deadline("resolution") = TargetOf(row).resolution
    BY DEF sla, Deadline, TargetOf
  <2>4. ASSUME Done(row), sla'.state # sla.state
        PROVE  StaleCommit /\ (Restamps \/ ~Done(row'))
    <3>1. Restamps \/ ~Done(row')
      <4>1. SUFFICES ASSUME ~Restamps, Done(row') PROVE FALSE
        OBVIOUS
      <4>2. row'.first_response_at = row.first_response_at /\ row'.resolved_at = row.resolved_at
        BY <2>1, <2>4, <4>1 DEF Restamps, Stamps, NoStampMissing, Done
      <4> QED
        BY <2>1, <2>3, <2>4, <4>1, <4>2, DoneReport
    <3>2. row' # row
      BY <2>4, <3>1 DEF Restamps
    <3> QED
      BY <2>2, <2>4, <3>1, <3>2, StaleOnly
  <2>5. ASSUME sla.state = "breached", sla'.state # "breached"
        PROVE  \/ /\ row'.first_response_at # row.first_response_at
                  /\ row'.first_response_at <= Deadline("response")
               \/ /\ row'.resolved_at # row.resolved_at
                  /\ row'.resolved_at <= Deadline("resolution")
    BY <2>1, <2>2, <2>3, <2>5, BreachWithdrawn
  <2> QED
    BY <2>4, <2>5
<1> QED
  BY <1>1, SlaInvariant, PTL DEF Spec, ReportsAreFinal

\* For one severity the countdown rises only when the first response replaces the deadline,
\* the resolution ends it (sla.py:41-49), or a stale session takes a resolution back.
THEOREM CountdownRunsDown == Spec => CountsDown
<1>1. IInv /\ IInv' /\ [Next]_vars =>
       [row'.severity = row.severity /\ sla'.remaining_seconds > sla.remaining_seconds =>
          \/ row'.first_response_at # row.first_response_at
          \/ Done(row')
          \/ Done(row) /\ StaleCommit]_vars
  <2> SUFFICES ASSUME IInv, IInv', [Next]_vars, row'.severity = row.severity,
                      sla'.remaining_seconds > sla.remaining_seconds,
                      row'.first_response_at = row.first_response_at, ~Done(row')
               PROVE  Done(row) /\ StaleCommit
    OBVIOUS
  <2>1. /\ row \in SlaRow /\ row' \in SlaRow /\ now \in Nat /\ now' \in Nat
    BY DEF IInv
  <2>2. now <= now' /\ (row' = row \/ \E h \in Sessions : Commit(h))
    BY StepFacts
  <2>3. Done(row)
    <3>1. SUFFICES ASSUME ~Done(row) PROVE FALSE
      OBVIOUS
    <3>2. /\ ActiveDeadline(row') = ActiveDeadline(row)
          /\ ActiveDeadline(row) \in Nat
      BY <2>1, TargetsAreNumbers DEF ActiveDeadline, TargetOf
    <3>3. /\ sla.remaining_seconds = WholeSeconds(ActiveDeadline(row) - now)
          /\ sla'.remaining_seconds = WholeSeconds(ActiveDeadline(row') - now')
      BY <2>1, <3>1, ReportSays DEF sla
    <3>4. /\ WholeSeconds(ActiveDeadline(row) - now') <= WholeSeconds(ActiveDeadline(row) - now)
          /\ WholeSeconds(ActiveDeadline(row) - now') \in Int
          /\ WholeSeconds(ActiveDeadline(row) - now) \in Int
      BY <2>1, <2>2, <3>2, WholeSecondsMonotone DEF WholeSeconds
    <3> QED
      BY <3>2, <3>3, <3>4
  <2>4. row' # row
    BY <2>3 DEF Done
  <2> QED
    BY <2>2, <2>3, <2>4, StaleOnly
<1> QED
  BY <1>1, SlaInvariant, PTL DEF Spec, CountsDown

-----------------------------------------------------------------------------
(***************************************************************************)
(* Warnings                                                                *)
(***************************************************************************)
\* Whoever looks every three minutes, a fifth of the shortest target, sees every warning.
LEMMA EveryThreeMinutes ==
  ASSUME \A t \in Nat : \E u \in Instants : t < u /\ u <= t + HalfSeconds(3)
  PROVE  Watched
<1> SUFFICES ASSUME NEW severity \in Given, NEW goal \in {"response", "resolution"},
                    NEW t \in Instants,
                    ~AtRisk(WholeSeconds(GetSlaTarget(severity)[goal] - t),
                            GetSlaTarget(severity)[goal])
             PROVE  \E u \in Instants : t < u /\ u <= GetSlaTarget(severity)[goal]
  BY DEF Watched
<1>1. GetSlaTarget(severity)[goal] \in Nat /\ GetSlaTarget(severity)[goal] >= 1800
  BY GivenAssumption DEF GetSlaTarget, Severities, SlaTargetsMinutes, HalfSeconds
<1>2. PICK deadline \in Nat : deadline = GetSlaTarget(severity)[goal]
  BY <1>1
<1>3. t \in Nat
  BY InstantsAssumption
<1>4. t + 360 <= deadline
  BY <1>1, <1>2, <1>3 DEF AtRisk, WholeSeconds
<1>5. PICK u \in Instants : t < u /\ u <= t + 360
  BY <1>3, InstantsAssumption DEF HalfSeconds
<1>6. u \in Nat
  BY InstantsAssumption
<1> QED
  BY <1>2, <1>3, <1>4, <1>5, <1>6

\* So does whoever looks at every moment when an incident may be due.
LEMMA LookingWhenDue ==
  ASSUME \A severity \in Given, goal \in {"response", "resolution"} :
           GetSlaTarget(severity)[goal] \in Instants
  PROVE  Watched
<1> SUFFICES ASSUME NEW severity \in Given, NEW goal \in {"response", "resolution"},
                    NEW t \in Instants,
                    ~AtRisk(WholeSeconds(GetSlaTarget(severity)[goal] - t),
                            GetSlaTarget(severity)[goal])
             PROVE  \E u \in Instants : t < u /\ u <= GetSlaTarget(severity)[goal]
  BY DEF Watched
<1>1. PICK deadline \in Instants : deadline = GetSlaTarget(severity)[goal]
  OBVIOUS
<1>2. t \in Nat /\ deadline \in Nat
  BY InstantsAssumption
<1>3. t < deadline
  BY <1>1, <1>2 DEF AtRisk, WholeSeconds
<1> QED
  BY <1>1, <1>2, <1>3

\* The clock passes no deadline that an incident is on track for.
LEMMA TickInTime ==
  ASSUME Watched, now \in Instants, now \in Nat, Tick, NEW r \in SlaRow,
         ~AtRisk(WholeSeconds(ActiveDeadline(r) - now), ActiveDeadline(r))
  PROVE  now' <= ActiveDeadline(r)
<1>1. \E severity \in Given, goal \in {"response", "resolution"} :
        ActiveDeadline(r) = GetSlaTarget(severity)[goal]
  BY DEF ActiveDeadline, TargetOf, SlaRow, GetSlaTarget
<1>2. PICK u \in Instants : now < u /\ u <= ActiveDeadline(r)
  BY <1>1 DEF Watched
<1>3. now' \in Instants /\ now' <= u
  BY <1>2 DEF Tick
<1> QED
  BY <1>2, <1>3, InstantsAssumption, TargetsAreNumbers DEF ActiveDeadline

\* Every incident that turns from on_track to breached under the eyes of somebody who lets
\* no warning pass unseen, for instance by looking every three minutes (EveryThreeMinutes)
\* or whenever one is due (LookingWhenDue), was given another severity, or had a stamp moved
\* by a stale session (sla.py:47-52).
THEOREM WarningsFirst == ASSUME Watched PROVE Spec => WarnedFirst
<1>1. IInv /\ IInv' /\ [Next]_vars =>
        [row'.severity = row.severity /\ sla.state = "on_track" /\ sla'.state = "breached" =>
           StaleCommit /\ Restamps]_vars
  <2> SUFFICES ASSUME IInv, IInv', [Next]_vars, row'.severity = row.severity,
                      sla.state = "on_track", sla'.state = "breached"
               PROVE  StaleCommit /\ Restamps
    OBVIOUS
  <2> DEFINE response == TargetOf(row).response
             resolution == TargetOf(row).resolution
  <2>1. /\ row \in SlaRow /\ row' \in SlaRow /\ now \in Nat /\ now' \in Nat
        /\ NoStampMissing(row) /\ NoStampMissing(row') /\ TakenBefore(row', now')
        /\ now \in Instants
    BY DEF IInv
  <2>2. now <= now' /\ (row' = row \/ \E h \in Sessions : Commit(h))
    BY StepFacts
  <2>3. /\ ~Done(row) /\ ~ResponseLate(row, now) /\ ~ResolutionLate(row, now)
        /\ ~AtRisk(WholeSeconds(ActiveDeadline(row) - now), ActiveDeadline(row))
    BY <2>1, ReportSays DEF sla, ComputeSla, ActiveDeadline, TargetOf, Done
  <2>4. response \in Nat /\ resolution \in Nat /\ response <= resolution
    BY <2>1, TargetsAreNumbers
  <2>5. now <= ActiveDeadline(row)
    BY <2>1, <2>3, <2>4 DEF AtRisk, WholeSeconds, ActiveDeadline
  <2>6. now' <= ActiveDeadline(row)
    <3>1. CASE Tick
      BY <2>1, <2>3, <3>1, TickInTime
    <3>2. CASE ~Tick
      <4>1. now' = now
        BY <3>2 DEF Next, LoadForStatus, AssignStatus, Commit, Lose, UpdateSeverity, vars
      <4> QED
        BY <2>5, <4>1
    <3> QED
      BY <3>1, <3>2
  <2>7. /\ ActiveDeadline(row) <= resolution
        /\ row.first_response_at = None => ActiveDeadline(row) = response
        /\ ActiveDeadline(row) \in Nat
    BY <2>4 DEF ActiveDeadline
  <2>8. /\ row.first_response_at \in Nat \cup {None} /\ row.resolved_at \in Nat \cup {None}
        /\ row'.first_response_at \in Nat \cup {None} /\ row'.resolved_at \in Nat \cup {None}
    BY <2>1 DEF SlaRow
  <2>9. /\ row'.first_response_at # None => row'.first_response_at <= now'
        /\ row'.resolved_at # None => row'.resolved_at <= now'
    BY <2>1 DEF TakenBefore
  <2>10. TargetOf(row') = TargetOf(row)
    BY DEF TargetOf
  <2>11. Restamps
    <3>1. SUFFICES ASSUME ~Restamps
                   PROVE  ~ResponseLate(row', now') /\ ~ResolutionLate(row', now')
      BY <2>1, ReportSays DEF sla
    <3>2. /\ row.first_response_at # None => row'.first_response_at = row.first_response_at
          /\ row.resolved_at # None => row'.resolved_at = row.resolved_at
      BY <3>1 DEF Restamps, Stamps
    <3>3. ~ResponseLate(row', now')
      <4>1. CASE row.first_response_at = None
        BY <2>1, <2>4, <2>6, <2>7, <2>8, <2>9, <2>10, <4>1 DEF ResponseLate, PastDeadline
      <4>2. CASE row.first_response_at # None
        BY <2>3, <2>10, <3>2, <4>2 DEF ResponseLate, PastDeadline
      <4> QED
        BY <4>1, <4>2
    <3>4. ~ResolutionLate(row', now')
      <4>1. CASE row.resolved_at = None
        BY <2>1, <2>4, <2>6, <2>7, <2>8, <2>9, <2>10, <4>1 DEF ResolutionLate, PastDeadline
      <4>2. CASE row.resolved_at # None
        BY <2>3, <2>10, <3>2, <4>2 DEF ResolutionLate, PastDeadline
      <4> QED
        BY <4>1, <4>2
    <3> QED
      BY <3>3, <3>4
  <2>12. row' # row
    BY <2>11 DEF Restamps
  <2> QED
    BY <2>2, <2>11, <2>12, StaleOnly
<1> QED
  BY <1>1, SlaInvariant, PTL DEF Spec, WarnedFirst
=============================================================================
