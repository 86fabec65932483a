------------------------------- MODULE Gateway --------------------------------
(***************************************************************************)
(* The HTTP gateway (routers/demo.py) in front of the five services, which *)
(* crash and come back.  A request asks one service after another, or      *)
(* several at once (asyncio.gather), and is answered with a status.        *)
(*                                                                         *)
(* Here a service carries out a call in one step and writes its audit      *)
(* entry in the next; the modules IncidentService, CmdbService,            *)
(* ChangeService and UserService take those steps apart.  A call that      *)
(* another one got in the way of remembers it, and may fail as one does    *)
(* whose steps were taken apart.  Of the rows only what refers to another  *)
(* service's rows is kept.  A service's own call of another service is     *)
(* part of its step.                                                       *)
(***************************************************************************)
EXTENDS Routes, Naturals, Sequences, FiniteSets

CONSTANTS
  Clients,       \* browsers, each with one request under way at a time
  SignedIn,      \* the user whose token each sends, or None
  Offers,        \* the routes each calls
  Asked,         \* the ids of rows that requests name
  UserIds,       \* the user ids that requests name
  Users,         \* those of them that the User Service knows
  RoleOf,        \* the role in the token of each
  SeedIncidents, \* seed_demo_data.py: the CI of each incident
  SeedCis,       \* and the number of CIs
  SeedChanges,   \* the number of changes registered before (ChangeClient)
  SeedLinks,     \* the links between them that users have made before
  PageLimit,     \* page_size of the incidents on a CI's page
  MaxRows,       \* bound: rows ever inserted in a table
  MaxRequests,   \* bound: requests
  MaxCrashes,    \* bound: crashes of services
  None,          \* Python's None
  Unstorable,    \* in the body or query: what Postgres refuses (a text with a NUL, a
                 \* date without a UTC; of a malformed date _parse_iso makes None)
  Gone           \* a row that was deleted

Ids == 1..MaxRows
Owners == Users \cup {None}

IncidentRow == [ci: Ids, assignee: Owners]
CiRow == [owner: Owners]

ASSUME BoundsAssumption ==
  PageLimit \in Nat /\ MaxRows \in Nat /\ MaxRequests \in Nat /\ MaxCrashes \in Nat
ASSUME ClientsAssumption ==
  /\ IsFiniteSet(Clients)
  /\ Offers \in [Clients -> SUBSET RouteNames] /\ SignedIn \in [Clients -> Owners]
ASSUME AskedAssumption == Asked \subseteq Ids
ASSUME UsersAssumption ==
  /\ Users \subseteq UserIds /\ RoleOf \in [Users -> Roles]
  /\ None \notin UserIds /\ Gone \notin IncidentRow \cup CiRow
  /\ Unstorable \notin Ids \cup UserIds \cup {None}
ASSUME SeedAssumption ==
  /\ SeedIncidents \in Seq(Ids) /\ Len(SeedIncidents) <= MaxRows
  /\ SeedCis \in 0..MaxRows /\ SeedChanges \in 0..MaxRows
  /\ SeedLinks \subseteq (1..Len(SeedIncidents)) \X (1..SeedChanges)

VARIABLES
  incidents,  \* table incidents: the row with id i is incidents[i]
  cis,        \* table configuration_items
  changes,    \* the number of rows of the table Changes; none is ever deleted
  links,      \* table incident_change_links: pairs of incident and change
  audit,      \* table audit_log
  down,       \* the services that are down
  calls,      \* where each request is
  requests,   \* how many requests there have been
  crashes     \* how many crashes there have been

tables == <<incidents, cis, changes, links>>
vars == <<tables, audit, down, calls, requests, crashes>>

RowOf(table, i) == i \in DOMAIN table /\ table[i] # Gone

\* What a request is about (0: nothing that exists already), and the other id or the
\* value in its path or body.
Named(route) ==
  CASE route \in {"link_change", "unlink_change", "update_incident"} -> Asked \X Asked
    [] route \in {"assign_incident", "update_ci"} -> Asked \X (UserIds \cup {None})
    [] route = "create_incident" -> {0} \X Asked
    [] route = "create_ci" -> {0} \X (UserIds \cup {None})
    [] route = "update_user_role" -> UserIds \X {None}
    [] route \in {"list_users", "create_user", "login", "list_incidents", "list_cis",
                  "list_changes", "create_change", "list_audit_events"} -> {0} \X {None}
    [] OTHER -> Asked \X {None}

\* The routes that hand on texts which no service compares with a list of its own.
texts == {"create_user", "login", "list_incidents", "create_incident", "add_incident_update",
          "update_incident", "create_ci", "update_ci", "create_change", "list_audit_events"}

Inputs(route) ==
  Named(route) \cup
  (IF route \in texts THEN {input[1] : input \in Named(route)} \X {Unstorable} ELSE {})

Idle == [pc |-> "idle"]

\* The pages that show what is related to their subject in another service.
pages == {"get_change", "get_linked_changes", "get_ci"}

\* What belongs on the page about "id", given the tables of the Incident Service.
Related(route, id, rows, pairs) ==
  CASE route = "get_change" -> {i \in Ids : <<i, id>> \in pairs}
    [] route = "get_linked_changes" -> {k \in Ids : <<id, k>> \in pairs}
    [] route = "get_ci" -> {i \in Ids : RowOf(rows, i) /\ rows[i].ci = id}
    [] OTHER -> {}

Ask(rpc, on) == [rpc |-> rpc, on |-> on]

\* Mutant: the link is stored without looking the change up.
LinkAtOnce(route, id, with) ==
  {Ask(IF route = "link_change" THEN "LinkChange" ELSE rpc, id) : rpc \in RouteTable[route].rpcs}

\* api_link_change looks the change up before it calls the Incident Service.
First(route, id, with) ==
  {Ask(rpc, IF route = "link_change" THEN with ELSE id) : rpc \in RouteTable[route].rpcs}

\* Bound: there is room for the rows that the requests under way insert.
Room(route, n) ==
  n + Cardinality({g \in Clients : calls[g].pc = "asking" /\ calls[g].route = route}) < MaxRows

Role(h) == IF SignedIn[h] = None THEN "nobody" ELSE RoleOf[SignedIn[h]]

\* A request that the Depends of its route lets through.
Request(h, route, id, with) ==
  /\ calls[h].pc = "idle" /\ requests < MaxRequests
  /\ route = "create_incident" => Room(route, Len(incidents))
  /\ route = "create_ci" => Room(route, Len(cis))
  /\ route = "create_change" => Room(route, changes)
  /\ Role(h) \in RouteTable[route].roles
  /\ LET now == Related(route, id, incidents, links) IN
     calls' = [calls EXCEPT ![h] =
       [pc |-> "asking", route |-> route, id |-> id, with |-> with,
        todo |-> First(route, id, with), got |-> {}, entry |-> None, written |-> FALSE,
        raced |-> FALSE, status |-> 0, dark |-> down, ever |-> now, always |-> now]]
  /\ requests' = requests + 1
  /\ UNCHANGED <<tables, audit, down, crashes>>
-----------------------------------------------------------------------------
(***************************************************************************)
(* What the route does with an answer.                                     *)
(***************************************************************************)
Answered(c, status) ==
  [c EXCEPT !.pc = "answered", !.status = status, !.todo = {}, !.id = 0,
            !.with = IF @ = Unstorable THEN Unstorable ELSE None]

\* Which calls come next, given what was returned.
Follow(c, ask, items) ==
  CASE c.route = "link_change" /\ ask.rpc = "GetChange" -> {Ask("LinkChange", c.id)}
    [] c.route = "get_change" /\ ask.rpc = "GetChange" ->
         {Ask("GetIncidentIdsForChange", c.id)}
    [] ask.rpc = "GetIncidentIdsForChange" -> {Ask("GetIncident", i) : i \in items}
    [] ask.rpc = "GetLinkedChangeIds" -> {Ask("GetChange", k) : k \in items}
    [] OTHER -> {}

\* gather(..., return_exceptions=True): an entry that fails is left out.
Skipped(route, rpc) ==
  <<route, rpc>> \in {<<"get_linked_changes", "GetChange">>, <<"get_change", "GetIncident">>}

\* The parts of an answer that are ids on the page.
Listed(route, rpc) ==
  Skipped(route, rpc) \/ <<route, rpc>> = <<"get_ci", "ListIncidents">>

\* The call after "ask" was answered with "items".
Continue(c, ask, items) ==
  LET todo == (c.todo \ {ask}) \cup Follow(c, ask, items)
      next == [c EXCEPT !.todo = todo,
                        !.got = @ \cup (IF Listed(c.route, ask.rpc) THEN items ELSE {})]
  IN IF todo = {} THEN Answered(next, 200) ELSE next

\* The call after "ask" failed: the other calls of a gather are not waited for.
Fail(c, ask, code) ==
  IF Skipped(c.route, ask.rpc)
  THEN LET todo == c.todo \ {ask} IN
       IF todo = {} THEN Answered(c, 200) ELSE [c EXCEPT !.todo = todo]
  ELSE Answered(c, Status(c.route, Raised(ask.rpc, code)))
-----------------------------------------------------------------------------
(***************************************************************************)
(* What a service answers.                                                 *)
(***************************************************************************)
Exists(ask) ==
  LET service == Host(ask.rpc) IN
  \/ service = "incident" /\ RowOf(incidents, ask.on)
  \/ service = "cmdb" /\ RowOf(cis, ask.on)
  \/ service = "change" /\ ask.on \in 1..changes
  \/ service = "user" /\ ask.on \in Users

\* What a handler checks before it looks for the row.
first_checked == {"INVALID_ARGUMENT", "PERMISSION_DENIED"}

\* Mutant: the tables have no foreign keys.
NoForeignKeys(c, ask) ==
  ask.rpc = "GetCIWithOwner" /\ cis[ask.on].owner # None /\ "user" \in down

\* The handler itself fails: Postgres refuses the input or a foreign key, or the
\* lookup of the owner fails.
Breaks(c, ask) ==
  \/ c.with = Unstorable
  \/ ask.rpc = "DeleteIncident" /\ \E k \in Ids : <<ask.on, k>> \in links
  \/ ask.rpc \in {"CreateCI", "UpdateCI"} /\ c.with \notin Owners
  \/ ask.rpc = "GetCIWithOwner" /\ cis[ask.on].owner # None /\ "user" \in down

\* Mutant: calls wait until the service is there (wait_for_ready).
wait_for_ready == {}

\* What gRPC answers for a service that is down: none of the channels waits for it.
connection_refused == {"UNAVAILABLE"}

\* GetCIWithOwner may find a copy in the cache, also of a row that is gone meanwhile.
Cached(ask) ==
  IF ask.rpc = "GetCIWithOwner" /\ ask.on \in DOMAIN cis THEN {"OK"} ELSE {}

\* DeleteCI fails as well if the item has relationships, which are not kept here.
MayBreak(ask) == IF ask.rpc = "DeleteCI" THEN {"UNKNOWN"} ELSE {}

\* UPDATEs of one row, which is read again afterwards (db.refresh).
refreshed == {"AcceptSuggestedSeverity", "AcceptSuggestedStatus", "UpdateIncident",
              "UpdateIncidentStatus", "UpdateIncidentSeverity", "AssignIncident"}

\* The calls that get in the way of this one, between its SELECT and its commit or its
\* refresh.
InTheWayOf(rpc) ==
  CASE rpc \in refreshed \cup {"DeleteIncident"} -> {"DeleteIncident"}
    [] rpc = "LinkChange" -> {"LinkChange", "DeleteIncident"}
    [] rpc = "UnlinkChange" -> {"UnlinkChange"}
    [] rpc \in {"UpdateCI", "DeleteCI"} -> {"DeleteCI"}
    [] OTHER -> {}

\* What the loser of a race learns.  The UPDATE of a row that is gone raises
\* StaleDataError, the INSERT of a link meets the foreign key or the UNIQUE of its
\* pair; the DELETE of a row that is gone is no error.
Lost(c, ask) ==
  CASE ~c.raced -> {}
    [] c.raced /\ ask.rpc \in refreshed \cup {"UpdateCI", "LinkChange"} -> {"UNKNOWN"}
    [] c.raced /\ ask.rpc = "DeleteIncident" /\ ask.on \in DOMAIN incidents -> {"OK"}
    [] c.raced /\ ask.rpc = "DeleteCI" /\ ask.on \in DOMAIN cis -> {"OK"}
    [] OTHER -> {}

Codes(c, ask) ==
  LET refusals == Refusals(ask.rpc) IN
  IF Host(ask.rpc) \in down THEN connection_refused
  ELSE IF ask.rpc = "AssignIncident" /\ c.with # None /\ "user" \in down
  THEN {"UNAVAILABLE"}
  ELSE IF ask.rpc = "AssignIncident" /\ c.with \notin Owners THEN {"INVALID_ARGUMENT"}
  ELSE IF "NOT_FOUND" \in refusals /\ ~Exists(ask)
  THEN {"NOT_FOUND"} \cup (refusals \cap first_checked) \cup Cached(ask) \cup Lost(c, ask)
  ELSE IF Breaks(c, ask) THEN {"UNKNOWN"} \cup (refusals \ {"NOT_FOUND"}) \cup Cached(ask)
  ELSE {"OK"} \cup (refusals \ {"NOT_FOUND"}) \cup MayBreak(ask) \cup Lost(c, ask)

\* The newest n of a set of ids.
Newest(n, S) == {i \in S : Cardinality({j \in S : j > i}) < n}

\* Mutant: the ids are looked up by the wrong column.
ItemsByWrongColumn(ask) ==
  IF ask.rpc = "GetIncidentIdsForChange" THEN {i \in Ids : <<ask.on, i>> \in links} ELSE {ask.on}

Items(ask) ==
  CASE ask.rpc = "GetIncidentIdsForChange" -> {i \in Ids : <<i, ask.on>> \in links}
    [] ask.rpc = "GetLinkedChangeIds" -> {k \in Ids : <<ask.on, k>> \in links}
    [] ask.rpc = "ListIncidents" ->
         Newest(PageLimit, {i \in Ids : RowOf(incidents, i) /\ incidents[i].ci = ask.on})
    [] OTHER -> {ask.on}

writes ==
  DOMAIN IncidentWrites
  \cup {"CreateUser", "UpdateUserRole", "CreateCI", "UpdateCI", "DeleteCI", "CreateChange",
        "ApproveChange"}

\* Any call that fails, and any that reads.
Refuse(h, ask) ==
  /\ \E code \in Codes(calls[h], ask) \ {"OK"} :
       calls' = [calls EXCEPT ![h] = Fail(@, ask, code)]
  /\ UNCHANGED <<tables, audit, down, requests, crashes>>

Read(h, ask) ==
  /\ ask.rpc \notin writes /\ "OK" \in Codes(calls[h], ask)
  /\ calls' = [calls EXCEPT ![h] = Continue(@, ask, Items(ask))]
  /\ UNCHANGED <<tables, audit, down, requests, crashes>>
-----------------------------------------------------------------------------
(***************************************************************************)
(* What a call changes.  The columns that are left out are those of which  *)
(* no other service knows.                                                 *)
(***************************************************************************)
SetIncident(i, row) ==
  /\ incidents' = [incidents EXCEPT ![i] = row]
  /\ UNCHANGED <<cis, changes, links>>

SetCi(i, row) ==
  /\ cis' = [cis EXCEPT ![i] = row]
  /\ UNCHANGED <<incidents, changes, links>>

CreateIncident(c) ==
  /\ incidents' = Append(incidents, [ci |-> c.with, assignee |-> None])
  /\ UNCHANGED <<cis, changes, links>>

CreateCI(c) ==
  /\ cis' = Append(cis, [owner |-> c.with])
  /\ UNCHANGED <<incidents, changes, links>>

CreateChange(c) ==
  /\ changes' = changes + 1
  /\ UNCHANGED <<incidents, cis, links>>

SetLinks(pairs) ==
  /\ links' = pairs
  /\ UNCHANGED <<incidents, cis, changes>>

Effect(c, rpc) ==
  \/ rpc = "CreateIncident" /\ CreateIncident(c)
  \/ rpc = "UpdateIncident" /\ SetIncident(c.id, [incidents[c.id] EXCEPT !.ci = c.with])
  \/ rpc = "AssignIncident" /\ SetIncident(c.id, [incidents[c.id] EXCEPT !.assignee = c.with])
  \/ rpc = "DeleteIncident" /\ SetIncident(c.id, Gone)
  \/ rpc = "LinkChange" /\ SetLinks(links \cup {<<c.id, c.with>>})
  \/ rpc = "UnlinkChange" /\ SetLinks(links \ {<<c.id, c.with>>})
  \/ rpc = "CreateCI" /\ CreateCI(c)
  \/ rpc = "UpdateCI" /\ SetCi(c.id, [owner |-> c.with])
  \/ rpc = "DeleteCI" /\ SetCi(c.id, Gone)
  \/ rpc = "CreateChange" /\ CreateChange(c)
  \/ /\ rpc \in {"AddIncidentUpdate", "AcceptSuggestedSeverity", "AcceptSuggestedStatus",
                 "UpdateIncidentStatus", "UpdateIncidentSeverity", "ApproveChange",
                 "CreateUser", "UpdateUserRole"}
     /\ UNCHANGED tables

Linked(c) == <<c.id, c.with>> \in links

\* Whether an entry of the audit log is due: not for what was so already, and the
\* User Service writes none.
Due(c, rpc) ==
  CASE rpc \in {"AcceptSuggestedSeverity", "AcceptSuggestedStatus",
                "UpdateIncidentStatus", "UpdateIncidentSeverity"} -> BOOLEAN
    [] rpc = "AssignIncident" -> {incidents[c.id].assignee # c.with}
    [] rpc = "LinkChange" -> {~Linked(c)}
    [] rpc = "UnlinkChange" -> {Linked(c), Linked(c) \/ c.raced}
    [] rpc \in {"CreateUser", "UpdateUserRole"} -> {FALSE}
    [] OTHER -> {TRUE}

\* The row an entry is about.
Subject(c, rpc) ==
  CASE rpc = "CreateIncident" -> Len(incidents) + 1
    [] rpc = "CreateCI" -> Len(cis) + 1
    [] rpc = "CreateChange" -> changes + 1
    [] OTHER -> c.id

Entry(h, rpc) == [actor |-> SignedIn[h], action |-> rpc, on |-> Subject(calls[h], rpc)]

\* The call "rpc" of request d gets in the way of one of request c.
Crosses(d, rpc, c) ==
  \E ask \in c.todo :
    /\ rpc \in InTheWayOf(ask.rpc) /\ ask.on = d.id
    /\ rpc \in {"LinkChange", "UnlinkChange"} => c.with = d.with

\* What the other requests could have seen, or stumble over.
Watch(c, d, rpc) ==
  IF c.pc \notin {"asking", "recording"} THEN c
  ELSE IF c.route \in pages
  THEN LET now == Related(c.route, c.id, incidents', links') IN
       [c EXCEPT !.ever = @ \cup now, !.always = @ \cap now]
  ELSE [c EXCEPT !.raced = @ \/ Crosses(d, rpc, c)]

Write(h, ask) ==
  LET c == calls[h] IN
  /\ ask.rpc \in writes /\ "OK" \in Codes(c, ask)
  /\ Effect(c, ask.rpc)
  /\ \E due \in Due(c, ask.rpc) :
       calls' = [g \in Clients |->
         IF g = h THEN [c EXCEPT !.pc = "recording", !.written = TRUE,
                                 !.entry = IF due THEN Entry(h, ask.rpc) ELSE None]
                  ELSE Watch(calls[g], c, ask.rpc)]
  /\ UNCHANGED <<audit, down, requests, crashes>>
-----------------------------------------------------------------------------
\* Mutant: the exception of the Audit Service is not caught.
record_or_raise(c) == IF c.entry # None /\ "audit" \in down THEN "UNKNOWN" ELSE "OK"

\* record_audit_event prints the error of an Audit Service that is down.
record_audit_event(c) == "OK"

\* Mutant: one entry is kept, the last.
LastEntry(c) == {c.entry}

\* RecordAuditEvent inserts a row.
RecordAuditEvent(c) == audit \cup {c.entry}

\* The row was deleted between commit and refresh: the handler fails, and what it has
\* written stays without an audit entry.
Unrefreshed(h) ==
  LET c == calls[h]
      ask == CHOOSE a \in c.todo : TRUE
  IN
  /\ c.pc = "recording" /\ c.raced /\ ask.rpc \in refreshed
  /\ calls' = [calls EXCEPT ![h] = Fail(c, ask, "UNKNOWN")]
  /\ UNCHANGED <<tables, audit, down, requests, crashes>>

\* The audit entry of what was written, and the answer.
Record(h) ==
  LET c == calls[h]
      ask == CHOOSE a \in c.todo : TRUE
      code == record_audit_event(c)
  IN
  /\ c.pc = "recording"
  /\ audit' = IF c.entry = None \/ "audit" \in down THEN audit ELSE RecordAuditEvent(c)
  /\ calls' = [calls EXCEPT ![h] =
       IF code = "OK" THEN Continue(c, ask, {}) ELSE Fail(c, ask, code)]
  /\ UNCHANGED <<tables, down, requests, crashes>>

\* The client has the answer.
Finish(h) ==
  /\ calls[h].pc = "answered"
  /\ calls' = [calls EXCEPT ![h] = Idle]
  /\ UNCHANGED <<tables, audit, down, requests, crashes>>

\* Whoever waits for a service that dies after it has written learns UNAVAILABLE.
Crash(s) ==
  /\ s \notin down /\ crashes < MaxCrashes
  /\ down' = down \cup {s} /\ crashes' = crashes + 1
  /\ calls' = [h \in Clients |->
       LET c == calls[h]
           ask == CHOOSE a \in c.todo : TRUE
       IN IF c.pc \notin {"asking", "recording"} THEN c
          ELSE LET dark == [c EXCEPT !.dark = @ \cup {s}] IN
               IF c.pc = "recording" /\ Host(ask.rpc) = s
               THEN Fail(dark, ask, "UNAVAILABLE") ELSE dark]
  /\ UNCHANGED <<tables, audit, requests>>

Restart(s) ==
  /\ s \in down
  /\ down' = down \ {s}
  /\ UNCHANGED <<tables, audit, calls, requests, crashes>>

Init ==
  /\ incidents = [i \in DOMAIN SeedIncidents |-> [ci |-> SeedIncidents[i], assignee |-> None]]
  /\ cis = [i \in 1..SeedCis |-> [owner |-> None]]
  /\ changes = SeedChanges /\ links = SeedLinks /\ audit = {} /\ down = {}
  /\ calls = [h \in Clients |-> Idle]
  /\ requests = 0 /\ crashes = 0

\* A service or the gateway goes on with the request.
Serve(h) ==
  \/ /\ calls[h].pc = "asking"
     /\ \E ask \in calls[h].todo : Refuse(h, ask) \/ Read(h, ask) \/ Write(h, ask)
  \/ Record(h) \/ Unrefreshed(h)

Next ==
  \/ \E h \in Clients :
       \/ \E route \in Offers[h] :
            \E input \in Inputs(route) : Request(h, route, input[1], input[2])
       \/ Serve(h) \/ Finish(h)
  \/ \E s \in Services : Crash(s) \/ Restart(s)

\* Every service works on what it was asked, and the gateway on what was answered.
Fairness == \A h \in Clients : WF_vars(Serve(h))

Spec == Init /\ [][Next]_vars /\ Fairness
-----------------------------------------------------------------------------
(***************************************************************************)
(* What it is meant to guarantee.                                          *)
(***************************************************************************)
Entries == [actor: Owners, action: writes, on: Ids \cup UserIds \cup {0}]
Asks == [rpc: RPCs, on: Ids \cup UserIds \cup {0}]
Statuses == {200, 400, 401, 403, 404, 409, 500, 503}

Calls ==
  [pc: {"asking", "recording", "answered"}, route: RouteNames,
   id: Ids \cup UserIds \cup {0}, with: Ids \cup UserIds \cup {None, Unstorable},
   todo: SUBSET Asks, got: SUBSET Ids, entry: Entries \cup {None},
   written: BOOLEAN, raced: BOOLEAN, status: Statuses \cup {0},
   dark: SUBSET Services, ever: SUBSET Ids, always: SUBSET Ids]

TypeOK ==
  /\ incidents \in Seq(IncidentRow \cup {Gone}) /\ Len(incidents) <= MaxRows
  /\ cis \in Seq(CiRow \cup {Gone}) /\ Len(cis) <= MaxRows
  /\ changes \in 0..MaxRows /\ links \subseteq Ids \X Ids
  /\ audit \subseteq Entries /\ down \subseteq Services
  /\ calls \in [Clients -> {Idle} \cup Calls]
  /\ requests \in 0..MaxRequests /\ crashes \in 0..MaxCrashes

\* Every link is between an incident and a change that exist, although the Incident
\* Service stores the id of a change it cannot look up: the gateway does, in a request
\* of its own, and the change may not vanish in between (demo.py:244).
LinksJoinRows ==
  \A link \in links : RowOf(incidents, link[1]) /\ link[2] \in 1..changes

\* Only an admin or an operator changes incidents, CIs and changes.  The services check
\* nothing and routes have no default: each of them must name its dependency.
ManagersWrite ==
  \A h \in Clients : calls[h].pc # "idle" /\ calls[h].written =>
    Role(h) \in manage \/ calls[h].route = "create_user"

\* Every code of every service, whatever state the tables are in and whichever service
\* is down, comes out as a status that the route chose: nothing is answered with 500.
EveryErrorHandled ==
  \A h \in Clients : calls[h].pc = "answered" => calls[h].status # 500

\* A request refused with 4xx has changed nothing, also if it takes two calls; a
\* request to change something answered with 200 has changed it.
AnswersTellWhatHappened ==
  \A h \in Clients : calls[h].pc = "answered" =>
    /\ calls[h].status \in 400..499 => ~calls[h].written
    /\ calls[h].status = 200 /\ RouteTable[calls[h].route].roles = manage => calls[h].written

\* The services without which a request cannot be answered.
Needs(route) ==
  CASE route = "assign_incident" -> {"incident", "user"}
    [] route = "link_change" -> {"incident", "change"}
    [] route = "get_change" -> {"incident", "change"}
    [] route = "get_ci" -> Services
    [] OTHER -> {Host(rpc) : rpc \in RouteTable[route].rpcs}

\* A request fails with 503 only if a service that it needs was down meanwhile: the
\* Audit Service never stands in the way of a change, nor CMDB or the User Service in
\* the way of an incident's page.  Exempt is what the clients have no exception for:
\* a lost race, an input that Postgres refuses, foreign keys, and the NOT_FOUND of
\* UpdateCI and DeleteCI; but only the loser of a race may have changed something.
OutagesAreContained ==
  \A h \in Clients : LET c == calls[h] IN
    c.pc = "answered" /\ c.status = 503 =>
      \/ c.dark \cap Needs(c.route) # {}
      \/ c.raced
      \/ c.with = Unstorable /\ ~c.written
      \/ c.route \in {"delete_incident", "create_ci", "update_ci", "delete_ci"} /\ ~c.written

\* What was answered with 200 is in the audit log under the name of the user who did
\* it, unless the Audit Service was down meanwhile.
AuditTrailComplete ==
  \A h \in Clients : LET c == calls[h] IN
    c.pc = "answered" /\ c.status = 200 /\ c.entry # None /\ "audit" \notin c.dark =>
      c.entry \in audit

\* A page put together from several answers, while others write, shows nothing that was
\* not related to its subject at some moment of the request, and all that was so the
\* whole time, unless the Incident or the Change Service was down meanwhile or there
\* is more than a page of it.
PagesTellTheTruth ==
  \A h \in Clients : LET c == calls[h] IN
    c.pc = "answered" /\ c.status = 200 /\ c.route \in pages =>
      /\ c.got \subseteq c.ever
      /\ \/ c.always \subseteq c.got
         \/ c.dark \cap {"incident", "change"} # {}
         \/ c.route = "get_ci" /\ Cardinality(c.ever) > PageLimit

\* Every request is answered, although services crash and some never come back.
RequestsAnswered ==
  \A h \in Clients : calls[h].pc \in {"asking", "recording"} ~> calls[h].pc = "answered"
=============================================================================
