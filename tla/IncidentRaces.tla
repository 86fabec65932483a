---------------------------- MODULE IncidentRaces ----------------------------
(***************************************************************************)
(* What two status requests do to each other.  Nothing in the code keeps   *)
(* them apart, so every promise about the status has the races as its      *)
(* exception.  The service is watched with two history variables that name *)
(* the incidents the exceptions are about, and no action depends on them.  *)
(***************************************************************************)
EXTENDS IncidentServiceProps

VARIABLES
  contested,  \* incidents that two status requests wrote from one old copy,
              \* or might have: both were between their read and their commit
  untold      \* incidents that the audit log may be wrong about

history == <<contested, untold>>

\* The incidents that two status requests are at, each between two of these points.
Overlapping(pcs) ==
  {i \in Ids : \E g, h \in Handlers :
     /\ g # h
     /\ calls[g].op \in StatusOps /\ calls[g].id = i /\ calls[g].pc \in pcs
     /\ calls[h].op \in StatusOps /\ calls[h].id = i /\ calls[h].pc \in pcs}

Uncommitted == {"select", "commit"}
UnderWay    == {"select", "commit", "refresh", "audit"}

\* A status request whose change is stored ends without a word in the log: the
\* record is lost, or the replica dies before it is sent.
Silenced(h) ==
  /\ calls[h].op \in StatusOps
  /\ calls'[h].pc = "idle" /\ audit' = audit
  /\ \/ calls[h].pc = "audit"
     \/ /\ calls[h].pc = "refresh" /\ Stored(calls[h].id)
        /\ incidents[calls[h].id].status # calls[h].loaded.status

Watch ==
  /\ contested' = contested \cup Overlapping(Uncommitted)'
  /\ untold' = untold \cup Overlapping(UnderWay)'
                      \cup {calls[h].id : h \in {g \in Handlers : Silenced(g)}}

RacesInit == Init /\ contested = {} /\ untold = {}

\* Every step of the service, watched.
RacesNext ==
  \/ \E h \in Handlers : (Request(h) /\ Watch) \/ (HandlerStep(h) /\ Watch)
  \/ \E t \in Tasks : (TaskStep(t) /\ Watch) \/ \E i \in Ids : Backfill(t, i) /\ Watch
  \/ \E p \in Procs : RepositoryStep(p) /\ Watch
  \/ Tick /\ Watch
  \/ \E r \in Replicas : Crash(r) /\ Watch

RacesSpec == RacesInit /\ [][RacesNext]_<<vars, history>>

FairRacesSpec == RacesSpec /\ Fairness
-----------------------------------------------------------------------------
\* The lifecycle of ARD-0017 as seen from outside, for an incident that no two
\* status requests changed at once.
Contests == INSTANCE ForwardLifecycle WITH
  Incidents <- Ids,
  status <- [i \in Ids |-> IF i \in contested THEN "contested" ELSE StatusOf(i)]

\* The service implements the strict lifecycle until two requests are between
\* the read and the commit of one incident at once: whatever else is going on,
\* no single request skips a status, goes back or revives an incident
\* (incident_server.py:193-215, incident_repository.py:152-165).
ForwardUnlessContested == Contests!Spec

\* And as long as they are not, a stamp that is set keeps its value, also when
\* its status is asked for again (incident_repository.py:131-138).
StampedOnceUnlessContested ==
  [][\A i \in Ids \ contested : StaysStored(i) =>
       /\ incidents[i].first_response_at \in {None, incidents'[i].first_response_at}
       /\ incidents[i].resolved_at \in {None, incidents'[i].resolved_at}]_<<vars, history>>

\* The audit log tells the whole status history of every incident about which
\* no status requests overlapped and no record was lost: the trail starts at
\* "open", each entry starts where the one before it ended and is an allowed
\* transition, and it ends at the status the row has, unless a status request
\* is under way.  Other incidents do not disturb it, nor deletions,
\* classifications, or crashes before a commit.
TrailTellsStatus ==
  \A i \in DOMAIN incidents \ untold :
    /\ \A k \in StatusEntries(i) :
         /\ ToldBefore(i, k, audit[k].before.status)
         /\ audit[k].after.status \in AllowedTransitions[audit[k].before.status]
    /\ ChangingStatus(i) \/ ToldBefore(i, Len(audit) + 1, incidents[i].status)
-----------------------------------------------------------------------------
(***************************************************************************)
(* What it takes: a request that is alone between its read and its commit  *)
(* has a copy that is not old where it matters, and while it is alone on   *)
(* its way into the log, the log stands where the request found it.        *)
(***************************************************************************)
RaceInv ==
  /\ Overlapping(Uncommitted) \subseteq contested
  /\ Overlapping(UnderWay) \subseteq untold
  /\ contested \subseteq untold

\* The copy is not old in this respect.
SameMilestones(row, copy) ==
  /\ row.status = copy.status
  /\ row.first_response_at = copy.first_response_at
  /\ row.resolved_at = copy.resolved_at

CopiesFresh ==
  \A h \in Handlers :
    /\ calls[h].op \in StatusOps /\ calls[h].pc \in Uncommitted
    /\ Stored(calls[h].id) /\ calls[h].id \notin contested
    => SameMilestones(incidents[calls[h].id], calls[h].loaded)

TrailInv ==
  /\ TrailTellsStatus
  /\ \A k \in DOMAIN audit : audit[k].incident < next_id
  /\ \A h \in Handlers : calls[h].op \in StatusOps => calls[h].pc \in UnderWay
  /\ \A h \in Handlers :
       calls[h].op \in StatusOps /\ Stored(calls[h].id) /\ calls[h].id \notin untold =>
         LET call == calls[h]
             row  == incidents[call.id]
             Told(status) == ToldBefore(call.id, Len(audit) + 1, status)
         IN /\ call.pc \in Uncommitted => Told(row.status)
            /\ call.pc = "refresh" => Told(call.loaded.status) /\ StepsForward(call.loaded, row)
            /\ call.pc = "audit" =>
                 /\ Told(call.entry.before.status)
                 /\ call.entry.after.status = row.status
                 /\ row.status \in AllowedTransitions[call.entry.before.status]
=============================================================================
