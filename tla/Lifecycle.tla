------------------------------ MODULE Lifecycle ------------------------------
(***************************************************************************)
(* The incident lifecycle: src/server/domain/incident_lifecycle.py.        *)
(* Pure definitions, shared by the service that enforces the lifecycle and *)
(* by the specifications that say what enforcing it means.                 *)
(***************************************************************************)

Statuses == {"open", "in_progress", "resolved", "closed"}

\* ALLOWED_TRANSITIONS: strictly forward, no skipping, "closed" is terminal.
AllowedTransitions ==
  [open        |-> {"in_progress"},
   in_progress |-> {"resolved"},
   resolved    |-> {"closed"},
   closed      |-> {}]

Severities == {"low", "medium", "high", "critical"}

\* What the classifier may answer (foundry_client.VALID_STATUSES and
\* VALID_SEVERITIES): upper case, and never CLOSED.
SuggestedStatuses   == {"OPEN", "IN_PROGRESS", "RESOLVED"}
SuggestedSeverities == {"LOW", "MEDIUM", "HIGH", "CRITICAL"}

\* str.lower() on the words that clients and the classifier send; a word that
\* is lower case already, or unknown, is left as it is.
LowerCase ==
  [OPEN |-> "open", IN_PROGRESS |-> "in_progress", RESOLVED |-> "resolved",
   CLOSED |-> "closed", LOW |-> "low", MEDIUM |-> "medium", HIGH |-> "high",
   CRITICAL |-> "critical"]
Lower(word) == IF word \in DOMAIN LowerCase THEN LowerCase[word] ELSE word

\* Mutant: any status may follow any other.
ValidTransitionUnordered(current, requested) == Lower(requested) \in Statuses

\* validate_transition returns (does not raise): asking for the status the
\* incident already has is a no-op, not an error.
ValidTransition(current, requested) ==
  /\ Lower(requested) \in Statuses
  /\ \/ Lower(requested) = current
     \/ Lower(requested) \in AllowedTransitions[current]

\* validate_severity returns (does not raise).
ValidSeverity(requested) == Lower(requested) \in Severities

\* Mutant: the word is stored as the client wrote it.
NormalizedAsSent(requested) == requested

\* What both return: the word that is stored, not the word that was sent.
Normalized(requested) == Lower(requested)
==============================================================================
