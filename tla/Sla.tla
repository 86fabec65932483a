--------------------------------- MODULE Sla ---------------------------------
(***************************************************************************)
(* The SLA computation: src/server/domain/sla.py.  Pure definitions; times *)
(* are half seconds since the incident was created, so that the truncation *)
(* of the remaining time to whole seconds shows.                           *)
(***************************************************************************)
EXTENDS Integers, Lifecycle

\* SLA_TARGETS_MINUTES
SlaTargetsMinutes ==
  [critical |-> [response |-> 15,     resolution |-> 4 * 60],
   high     |-> [response |-> 60,     resolution |-> 8 * 60],
   medium   |-> [response |-> 4 * 60, resolution |-> 24 * 60],
   low      |-> [response |-> 8 * 60, resolution |-> 72 * 60]]

HalfSeconds(minutes) == minutes * 120

\* A stored severity is one of Severities, so the fallback to "low" is unused.
GetSlaTarget(severity) ==
  [goal \in {"response", "resolution"} |-> HalfSeconds(SlaTargetsMinutes[severity][goal])]

\* Mutant: the size of the delay, whichever side of the deadline it is on.
WholeSecondsUnsigned(span) == (IF span >= 0 THEN span ELSE -span) \div 2

\* int((a - b).total_seconds()) truncates towards zero.
WholeSeconds(span) == IF span >= 0 THEN span \div 2 ELSE -((-span) \div 2)

\* (stamp or now) > deadline
PastDeadline(stamp, now, deadline, None) ==
  (IF stamp = None THEN now ELSE stamp) > deadline

\* Mutant: no warning.
AtRiskNever(remaining_seconds, target) == FALSE

\* AT_RISK_THRESHOLD = 0.2 of the target, in seconds
AtRisk(remaining_seconds, target) == 5 * remaining_seconds <= target \div 2

\* compute_sla for an incident created at 0
ComputeSla(row, now, None) ==
  LET target == GetSlaTarget(row.severity)
      is_done == row.status \in {"resolved", "closed"}
      response_breached == PastDeadline(row.first_response_at, now, target.response, None)
      resolution_breached ==
        /\ row.resolved_at # None \/ ~is_done
        /\ PastDeadline(row.resolved_at, now, target.resolution, None)
      breached == response_breached \/ resolution_breached
      active == IF row.first_response_at = None THEN target.response ELSE target.resolution
      remaining == WholeSeconds(active - now)
  IN [response_breached   |-> response_breached,
      resolution_breached |-> resolution_breached,
      state |->
        IF is_done THEN IF breached THEN "breached" ELSE "met"
        ELSE IF breached THEN "breached"
        ELSE IF AtRisk(remaining, active) THEN "at_risk" ELSE "on_track",
      remaining_seconds |-> IF is_done THEN 0 ELSE remaining]
==============================================================================
