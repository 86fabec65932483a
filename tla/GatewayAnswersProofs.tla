------------------------- MODULE GatewayAnswersProofs --------------------------
(***************************************************************************)
(* What an answer of the gateway tells its client, and what a page that is *)
(* put together from several answers shows, for any number of clients,     *)
(* users and rows, any offered routes and any crashes.                     *)
(***************************************************************************)
EXTENDS GatewayProofs

\* What the status of a request says about what was done and what was down.
Told(c) ==
  c.pc = "answered" =>
    /\ c.status # 500
    /\ c.status \in 400..499 => ~c.written
    /\ c.status = 200 /\ RouteTable[c.route].roles = manage => c.written
    /\ c.status = 503 =>
         \/ c.dark \cap Needs(c.route) # {}
         \/ c.raced
         \/ c.with = Unstorable /\ ~c.written
         \/ c.route \in {"delete_incident", "create_ci", "update_ci", "delete_ci"} /\ ~c.written

\* What it says about the audit log.
Logged(c, log) ==
  c.pc = "answered" /\ c.status = 200 /\ c.entry # None /\ "audit" \notin c.dark =>
    c.entry \in log

Answers == \A h \in Clients : Told(calls[h]) /\ Logged(calls[h], audit)

AInv == IInv /\ Answers
-----------------------------------------------------------------------------
\* The routes whose needs are named one by one.
LEMMA NamedRoutes ==
  /\ RouteTable["assign_incident"].rpcs = {"AssignIncident"}
  /\ RouteTable["link_change"].rpcs = {"GetChange"}
  /\ RouteTable["get_change"].rpcs = {"GetChange"}
<1>1. EditRoutes["assign_incident"].rpcs = {"AssignIncident"}
  BY DEF EditRoutes, Route
<1>2. LinkRoutes["link_change"].rpcs = {"GetChange"}
  BY DEF LinkRoutes, Route
<1>3. ChangeRoutes["get_change"].rpcs = {"GetChange"}
  BY DEF ChangeRoutes, Route
<1>4. RouteTable["assign_incident"] = EditRoutes["assign_incident"]
  BY DEF RouteTable, Join, UserRoutes, IncidentRoutes, EditRoutes
<1>5. RouteTable["link_change"] = LinkRoutes["link_change"]
  BY DEF RouteTable, Join, UserRoutes, IncidentRoutes, EditRoutes, LinkRoutes
<1>6. RouteTable["get_change"] = ChangeRoutes["get_change"]
  <2>1. "get_change" \notin DOMAIN UserRoutes /\ "get_change" \notin DOMAIN IncidentRoutes
    BY DEF UserRoutes, IncidentRoutes
  <2>2. "get_change" \notin DOMAIN EditRoutes /\ "get_change" \notin DOMAIN LinkRoutes
    BY DEF EditRoutes, LinkRoutes
  <2>3. "get_change" \notin DOMAIN CiRoutes /\ "get_change" \in DOMAIN ChangeRoutes
    BY DEF CiRoutes, ChangeRoutes
  <2>4. QED
    BY <2>1, <2>2, <2>3 DEF RouteTable, Join
<1>7. QED
  BY <1>1, <1>2, <1>3, <1>4, <1>5, <1>6

\* A service that is asked for something that may not be left out is needed.
LEMMA NeedsHost ==
  ASSUME NEW route \in RouteNames, NEW rpc \in MayAsk(route), ~Skipped(route, rpc)
  PROVE  /\ Host(rpc) \in Needs(route)
         /\ rpc \in {"AssignIncident", "GetCIWithOwner"} => "user" \in Needs(route)
<1>1. rpc \in RPCs /\ RowNames(route, RouteTable[route])
  BY AskKinds
<1>2. /\ Host("AssignIncident") = "incident" /\ Host("LinkChange") = "incident"
      /\ Host("GetIncidentIdsForChange") = "incident" /\ Host("GetChange") = "change"
  <2>1. /\ "AssignIncident" \in DOMAIN IncidentServicer /\ "LinkChange" \in DOMAIN IncidentServicer
        /\ "GetIncidentIdsForChange" \in DOMAIN IncidentServicer
    BY IncidentRpcs DEF IncidentReads, IncidentWrites
  <2>2. "GetChange" \in DOMAIN ChangeServiceImpl
    BY DEF ChangeServiceImpl
  <2>3. QED
    BY <2>1, <2>2, Hosts
<1>3. Host(rpc) \in Services
  BY <1>1 DEF RPCs, Host
<1>4. "user" \in Services
  BY DEF Services, grpc_servers
<1>5. CASE route = "assign_incident"
  BY <1>2, <1>5, NamedRoutes DEF MayAsk, FollowUps, Needs
<1>6. CASE route = "link_change"
  BY <1>2, <1>6, NamedRoutes DEF MayAsk, FollowUps, Needs
<1>7. CASE route = "get_change"
  BY <1>2, <1>7, NamedRoutes DEF MayAsk, FollowUps, Needs, Skipped
<1>8. CASE route = "get_ci"
  BY <1>3, <1>4, <1>8 DEF Needs
<1>9. CASE route \notin {"assign_incident", "link_change", "get_change", "get_ci"}
  <2>1. rpc \in RouteTable[route].rpcs
    BY <1>9 DEF MayAsk, FollowUps, Skipped
  <2>2. rpc \notin {"AssignIncident", "GetCIWithOwner"}
    BY <1>1, <1>9 DEF RowNames, MayAsk
  <2>3. QED
    BY <1>9, <2>1, <2>2 DEF Needs
<1>10. QED
  BY <1>5, <1>6, <1>7, <1>8, <1>9

\* Why a call may fail.
LEMMA CodeKinds ==
  ASSUME NEW c, NEW a, NEW code \in Codes(c, a), code # "OK"
  PROVE  \/ code \in Refusals(a.rpc)
         \/ code = "UNAVAILABLE" /\ Host(a.rpc) \in down
         \/ code = "UNAVAILABLE" /\ a.rpc = "AssignIncident" /\ "user" \in down
         \/ code = "UNKNOWN" /\ a.rpc \in {"DeleteIncident", "CreateCI", "UpdateCI", "DeleteCI"}
         \/ code = "UNKNOWN" /\ a.rpc = "GetCIWithOwner" /\ "user" \in down
         \/ code = "UNKNOWN" /\ c.with = Unstorable
         \/ code = "UNKNOWN" /\ c.raced
<1>1. "INVALID_ARGUMENT" \in Refusals("AssignIncident")
  BY IncidentWritesFacts
<1>2. code \in Lost(c, a) => code = "UNKNOWN" /\ c.raced
  BY DEF Lost
<1>3. code \in Cached(a) \/ code \in MayBreak(a) => code = "UNKNOWN" /\ a.rpc = "DeleteCI"
  BY DEF Cached, MayBreak
<1>4. Breaks(c, a) => \/ a.rpc \in {"DeleteIncident", "CreateCI", "UpdateCI", "DeleteCI"}
                      \/ a.rpc = "GetCIWithOwner" /\ "user" \in down
                      \/ c.with = Unstorable
  BY DEF Breaks
<1>5. QED
  BY <1>1, <1>2, <1>3, <1>4 DEF Codes, connection_refused, first_checked

\* A call that failed leaves a true answer, or none yet.
LEMMA RefuseTold ==
  ASSUME IInv, NEW h \in Clients, calls[h].pc = "asking", NEW a \in calls[h].todo,
         NEW code \in Codes(calls[h], a), code # "OK"
  PROVE  Told(Fail(calls[h], a, code)) /\ Logged(Fail(calls[h], a, code), audit)
<1> DEFINE c == calls[h]
<1>1. c # Idle /\ c \in Calls /\ PlanOk(h, c, down, changes)
  BY DEF IInv, TypeOK, Plans, Idle
<1>2. /\ c.route \in RouteNames /\ a.rpc \in MayAsk(c.route) /\ down \subseteq c.dark
      /\ ~c.written /\ c.entry = None
  BY <1>1 DEF PlanOk, Planned, Active, Calls
<1>3. CASE Skipped(c.route, a.rpc)
  <2>1. RouteTable[c.route].roles # manage
    BY <1>2, <1>3, AskKinds, Writes DEF Skipped, manage
  <2>2. \/ Fail(c, a, code) = Answered(c, 200)
        \/ Fail(c, a, code) = [c EXCEPT !.todo = @ \ {a}]
    BY <1>1, <1>3 DEF Fail, Calls
  <2>3. CASE Fail(c, a, code) = Answered(c, 200)
    <3> DEFINE d == Answered(c, 200)
    <3>1. d.status = 200 /\ d.route = c.route /\ d.entry = c.entry
      BY <1>1 DEF Answered, Calls
    <3> HIDE DEF d
    <3>2. Told(d) /\ Logged(d, audit)
      BY <1>2, <2>1, <3>1 DEF Told, Logged
    <3>3. QED
      BY <2>3, <3>2 DEF d
  <2>4. CASE Fail(c, a, code) = [c EXCEPT !.todo = @ \ {a}]
    <3>1. Fail(c, a, code).pc = "asking"
      BY <1>1, <2>4 DEF Calls
    <3>2. QED
      BY <3>1 DEF Told, Logged
  <2>5. QED
    BY <2>2, <2>3, <2>4
<1>4. CASE ~Skipped(c.route, a.rpc)
  <2> DEFINE status == Status(c.route, Raised(a.rpc, code))
             d == Fail(c, a, code)
  <2>1. /\ d.status = status /\ d.written = c.written /\ d.route = c.route
        /\ d.dark = c.dark /\ d.entry = c.entry /\ d.raced = c.raced
        /\ c.with = Unstorable => d.with = Unstorable
    BY <1>1, <1>4 DEF Fail, Answered, Calls
  <2>2. status \in {400, 401, 403, 404, 409, 500, 503}
    BY <1>2, StatusRange
  <2>3. \/ status \in {400, 401, 403, 404, 409}
        \/ /\ status = 503
           /\ \/ c.dark \cap Needs(c.route) # {}
              \/ c.raced \/ c.with = Unstorable
              \/ c.route \in {"delete_incident", "create_ci", "update_ci", "delete_ci"}
    <3>1. CASE code \in Refusals(a.rpc)
      BY <1>2, <1>4, <3>1, RefusedStatus
    <3>2. CASE code = "UNAVAILABLE" /\ Host(a.rpc) \in down
      BY <1>2, <1>4, <3>2, DownStatus, NeedsHost
    <3>3. CASE code = "UNAVAILABLE" /\ a.rpc = "AssignIncident" /\ "user" \in down
      BY <1>2, <1>4, <3>3, DownStatus, NeedsHost
    <3>4. CASE code = "UNKNOWN" /\ a.rpc \in {"DeleteIncident", "CreateCI", "UpdateCI", "DeleteCI"}
      <4>1. c.route \in {"delete_incident", "create_ci", "update_ci", "delete_ci"}
        BY <1>2, <3>4, AskKinds DEF RowNames, MayAsk
      <4>2. QED
        BY <1>2, <1>4, <3>4, <4>1, DownStatus
    <3>5. CASE code = "UNKNOWN" /\ a.rpc = "GetCIWithOwner" /\ "user" \in down
      BY <1>2, <1>4, <3>5, DownStatus, NeedsHost
    <3>6. CASE code = "UNKNOWN" /\ (c.with = Unstorable \/ c.raced)
      BY <1>2, <1>4, <3>6, DownStatus
    <3>7. QED
      BY <3>1, <3>2, <3>3, <3>4, <3>5, <3>6, CodeKinds
  <2> HIDE DEF status, d
  <2>4. Told(d) /\ Logged(d, audit)
    BY <1>2, <2>1, <2>2, <2>3 DEF Told, Logged
  <2>5. QED
    BY <2>4 DEF d
<1>5. QED
  BY <1>3, <1>4
-----------------------------------------------------------------------------
(***************************************************************************)
(* Every step leaves every answer true.                                    *)
(***************************************************************************)
\* A request that has no answer yet tells nothing.
LEMMA Silent ==
  ASSUME NEW c, NEW log, c.pc # "answered"
  PROVE  Told(c) /\ Logged(c, log)
  BY DEF Told, Logged

\* One request moves on, and the audit log loses nothing.
LEMMA OneAnswerMoves ==
  ASSUME IInv, Answers, NEW h \in Clients, NEW d, calls' = [calls EXCEPT ![h] = d],
         Told(d), Logged(d, audit'), audit \subseteq audit'
  PROVE  Answers'
<1>1. \A g \in Clients : calls'[g] = IF g = h THEN d ELSE calls[g]
  BY DEF IInv, TypeOK
<1>2. ASSUME NEW g \in Clients
      PROVE  Told(calls'[g]) /\ Logged(calls'[g], audit')
  <2>1. CASE g = h
    BY <1>1, <2>1
  <2>2. CASE g # h
    <3>1. calls'[g] = calls[g] /\ Told(calls[g]) /\ Logged(calls[g], audit)
      BY <1>1, <2>2 DEF Answers
    <3>2. QED
      BY <3>1 DEF Logged
  <2>3. QED
    BY <2>1, <2>2
<1>3. QED
  BY <1>2 DEF Answers, Told, Logged

\* A request that only reads is answered for whoever may read.
LEMMA ReadAnswers ==
  ASSUME AInv, NEW h \in Clients, calls[h].pc = "asking", NEW a \in calls[h].todo, Read(h, a)
  PROVE  Answers'
<1> DEFINE c == calls[h]
           d == Continue(c, a, Items(a))
<1>1. c \in Calls /\ PlanOk(h, c, down, changes) /\ a.rpc \notin writes
  BY DEF Read, AInv, IInv, TypeOK, Plans, Idle
<1>2. c.route \in RouteNames /\ a.rpc \in MayAsk(c.route) /\ c.entry = None
  BY <1>1 DEF PlanOk, Planned, Active, Calls
<1>3. /\ d.pc \in {"asking", "answered"} /\ d.route = c.route /\ d.entry = c.entry
      /\ d.pc = "answered" => d.status = 200 /\ Follow(c, a, Items(a)) = {}
  BY <1>1 DEF Continue, Answered, Calls
<1>4. c.route = "link_change" /\ a.rpc = "GetChange" => Follow(c, a, Items(a)) # {}
  BY DEF Follow
<1>5. d.pc = "answered" => RouteTable[c.route].roles # manage
  BY <1>1, <1>2, <1>3, <1>4, AskKinds DEF manage
<1> HIDE DEF d
<1>6. Told(d) /\ Logged(d, audit')
  BY <1>2, <1>3, <1>5 DEF Told, Logged
<1>7. calls' = [calls EXCEPT ![h] = d] /\ audit' = audit
  BY DEF Read, d
<1>8. QED
  BY <1>6, <1>7, OneAnswerMoves DEF AInv

\* What is answered after a write was stored before, and so was its audit entry unless
\* the Audit Service was down.
LEMMA RecordAnswers ==
  ASSUME AInv, NEW h \in Clients, Record(h)
  PROVE  Answers'
<1> DEFINE c == calls[h]
           a == CHOOSE x \in c.todo : TRUE
           d == Continue(c, a, {})
<1>1. c.pc = "recording" /\ c \in Calls /\ PlanOk(h, c, down, changes)
  BY DEF Record, AInv, IInv, TypeOK, Plans, Idle
<1>2. c.written /\ down \subseteq c.dark
  BY <1>1 DEF PlanOk, Active
<1>3. /\ d.route = c.route /\ d.entry = c.entry /\ d.written = c.written /\ d.dark = c.dark
      /\ d.pc = "answered" => d.status = 200
  BY <1>1 DEF Continue, Answered, Calls
<1>4. calls' = [calls EXCEPT ![h] = d]
  BY DEF Record, record_audit_event
<1>5. /\ audit \subseteq audit'
      /\ c.entry # None /\ "audit" \notin down => c.entry \in audit'
  BY DEF Record, RecordAuditEvent
<1> HIDE DEF c, d
<1>6. Told(d) /\ Logged(d, audit')
  BY <1>2, <1>3, <1>5 DEF Told, Logged
<1>7. QED
  BY <1>4, <1>5, <1>6, OneAnswerMoves DEF AInv

\* Who finds the row gone after the commit has met a deletion.
LEMMA UnrefreshedAnswers ==
  ASSUME AInv, NEW h \in Clients, Unrefreshed(h)
  PROVE  Answers'
<1> DEFINE c == calls[h]
           a == CHOOSE x \in c.todo : TRUE
           d == Fail(c, a, "UNKNOWN")
<1>1. c.pc = "recording" /\ c \in Calls /\ PlanOk(h, c, down, changes) /\ c.raced
  BY DEF Unrefreshed, AInv, IInv, TypeOK, Plans, Idle
<1>2. PICK b \in c.todo : b.rpc \in writes
  BY <1>1 DEF PlanOk
<1>3. c.todo = {b} /\ b.rpc \in MayAsk(c.route) /\ c.route \in RouteNames
  BY <1>1, <1>2 DEF PlanOk, Planned, Active, Calls
<1>4. a = b
  BY <1>3
<1>5. ~Skipped(c.route, a.rpc)
  <2>1. b.rpc \notin {"GetChange", "GetIncident"}
    BY <1>2, Writes
  <2>2. QED
    BY <1>4, <2>1 DEF Skipped
<1>6. Status(c.route, Raised(a.rpc, "UNKNOWN")) = 503
  BY <1>3, <1>4, <1>5, DownStatus
<1>7. calls' = [calls EXCEPT ![h] = d] /\ audit' = audit
  BY DEF Unrefreshed
<1>8. d = Answered(c, 503)
  BY <1>5, <1>6 DEF Fail
<1> HIDE DEF a
<1>9. d.status = 503 /\ d.raced
  BY <1>1, <1>8 DEF Answered, Calls
<1> HIDE DEF d
<1>10. Told(d) /\ Logged(d, audit')
  BY <1>9 DEF Told, Logged
<1>11. QED
  BY <1>7, <1>10, OneAnswerMoves DEF AInv

\* Nothing is answered while a write is carried out.
LEMMA WriteAnswers ==
  ASSUME AInv, NEW h \in Clients, calls[h].pc = "asking", NEW a \in calls[h].todo, Write(h, a)
  PROVE  Answers'
<1>1. audit' = audit /\ calls[h] \in Calls
  BY DEF Write, AInv, IInv, TypeOK, Idle
<1>2. ASSUME NEW g \in Clients
      PROVE  Told(calls'[g]) /\ Logged(calls'[g], audit')
  <2>1. CASE g = h
    <3>1. calls'[g].pc = "recording"
      BY <1>1, <2>1 DEF Write, Calls
    <3>2. QED
      BY <3>1, Silent
  <2>2. CASE g # h /\ calls[g].pc \in {"asking", "recording"}
    <3>1. calls[g] \in Calls
      BY <2>2 DEF AInv, IInv, TypeOK, Idle
    <3> DEFINE now == Related(calls[g].route, calls[g].id, incidents', links')
    <3>2. \/ calls'[g] = [calls[g] EXCEPT !.ever = @ \cup now, !.always = @ \cap now]
          \/ calls'[g] = [calls[g] EXCEPT !.raced = @ \/ Crosses(calls[h], a.rpc, calls[g])]
      BY <2>2 DEF Write, Watch
    <3> HIDE DEF now
    <3>4. calls'[g].pc = calls[g].pc
      BY <3>1, <3>2 DEF Calls
    <3>3. QED
      BY <2>2, <3>4, Silent
  <2>3. CASE g # h /\ calls[g].pc \notin {"asking", "recording"}
    <3>1. calls'[g] = calls[g]
      BY <2>3 DEF Write, Watch
    <3>2. QED
      BY <1>1, <3>1 DEF AInv, Answers
  <2>4. QED
    BY <2>1, <2>2, <2>3
<1>3. QED
  BY <1>2 DEF Answers, Told, Logged

\* A service that dies takes the answer of a write with it: 503, and it was needed.
LEMMA CrashAnswers ==
  ASSUME AInv, NEW s \in Services, Crash(s)
  PROVE  Answers'
<1>1. audit' = audit
  BY DEF Crash
<1>2. ASSUME NEW g \in Clients
      PROVE  Told(calls'[g]) /\ Logged(calls'[g], audit')
  <2> DEFINE c == calls[g]
             a == CHOOSE x \in c.todo : TRUE
             dark == [c EXCEPT !.dark = @ \cup {s}]
  <2>1. CASE c.pc \notin {"asking", "recording"}
    <3>1. calls'[g] = c
      BY <2>1 DEF Crash
    <3>2. QED
      BY <1>1, <3>1 DEF AInv, Answers
  <2>2. CASE c.pc \in {"asking", "recording"}
    <3>1. c \in Calls /\ PlanOk(g, c, down, changes)
      BY <2>2 DEF AInv, IInv, TypeOK, Plans, Idle
    <3>2. calls'[g] = IF c.pc = "recording" /\ Host(a.rpc) = s
                      THEN Fail(dark, a, "UNAVAILABLE") ELSE dark
      BY <2>2 DEF Crash
    <3>3. /\ dark.pc = c.pc /\ dark.route = c.route /\ dark.dark = c.dark \cup {s}
          /\ dark \in Calls
      BY <3>1 DEF Calls
    <3>4. CASE c.pc = "recording" /\ Host(a.rpc) = s
      <4>1. PICK b \in c.todo : b.rpc \in writes
        BY <3>1, <3>4 DEF PlanOk
      <4>2. c.todo = {b} /\ b.rpc \in MayAsk(c.route) /\ c.route \in RouteNames
        BY <3>1, <3>4, <4>1 DEF PlanOk, Planned, Active, Calls
      <4>3. a = b
        BY <4>2
      <4>4. ~Skipped(c.route, a.rpc)
        <5>1. b.rpc \notin {"GetChange", "GetIncident"}
          BY <4>1, Writes
        <5>2. QED
          BY <4>3, <5>1 DEF Skipped
      <4> DEFINE status == Status(c.route, Raised(a.rpc, "UNAVAILABLE"))
      <4>5. calls'[g] = Answered(dark, status)
        BY <3>2, <3>3, <3>4, <4>4 DEF Fail
      <4>6. status = 503 /\ s \in Needs(c.route)
        BY <3>4, <4>2, <4>3, <4>4, DownStatus, NeedsHost
      <4> HIDE DEF dark, status
      <4>7. /\ calls'[g].status = 503 /\ calls'[g].dark = c.dark \cup {s}
            /\ calls'[g].route = c.route
        BY <3>3, <4>5, <4>6 DEF Answered, Calls
      <4>8. QED
        BY <4>6, <4>7 DEF Told, Logged
    <3>5. CASE ~(c.pc = "recording" /\ Host(a.rpc) = s)
      BY <2>2, <3>2, <3>3, <3>5, Silent
    <3>6. QED
      BY <3>4, <3>5
  <2>3. QED
    BY <2>1, <2>2
<1>3. QED
  BY <1>2 DEF Answers, Told, Logged

\* Every step.
LEMMA StepAnswers ==
  ASSUME AInv, [Next]_vars
  PROVE  AInv'
<1>1. IInv'
  BY StepInv DEF AInv
<1>2. CASE \E h \in Clients : \E route \in Offers[h] :
             \E input \in Inputs(route) : Request(h, route, input[1], input[2])
  <2>1. PICK h \in Clients : \E route \in Offers[h] :
          \E input \in Inputs(route) : Request(h, route, input[1], input[2])
    BY <1>2
  <2>2. PICK route, input : Request(h, route, input[1], input[2])
    BY <2>1
  <2> DEFINE id == input[1]
             other == input[2]
             now == Related(route, id, incidents, links)
             d == [pc |-> "asking", route |-> route, id |-> id, with |-> other,
                   todo |-> First(route, id, other), got |-> {}, entry |-> None,
                   written |-> FALSE, raced |-> FALSE, status |-> 0, dark |-> down,
                   ever |-> now, always |-> now]
  <2>3. calls' = [calls EXCEPT ![h] = d] /\ audit' = audit
    BY <2>2 DEF Request
  <2>4. d.pc # "answered"
    OBVIOUS
  <2> HIDE DEF d
  <2>5. Told(d) /\ Logged(d, audit')
    BY <2>4, Silent
  <2>6. QED
    BY <1>1, <2>3, <2>5, OneAnswerMoves DEF AInv
<1>3. CASE \E h \in Clients : calls[h].pc = "asking" /\ \E a \in calls[h].todo : Refuse(h, a)
  <2>1. PICK h \in Clients : calls[h].pc = "asking" /\ \E a \in calls[h].todo : Refuse(h, a)
    BY <1>3
  <2>2. PICK a \in calls[h].todo : Refuse(h, a)
    BY <2>1
  <2>3. PICK code \in Codes(calls[h], a) :
          /\ code # "OK" /\ audit' = audit
          /\ calls' = [calls EXCEPT ![h] = Fail(calls[h], a, code)]
    BY <2>2 DEF Refuse, AInv, IInv, TypeOK
  <2>4. QED
    BY <1>1, <2>1, <2>3, RefuseTold, OneAnswerMoves DEF AInv
<1>4. CASE \E h \in Clients : calls[h].pc = "asking" /\ \E a \in calls[h].todo : Read(h, a)
  BY <1>1, <1>4, ReadAnswers DEF AInv
<1>5. CASE \E h \in Clients : calls[h].pc = "asking" /\ \E a \in calls[h].todo : Write(h, a)
  BY <1>1, <1>5, WriteAnswers DEF AInv
<1>6. CASE \E h \in Clients : Record(h)
  BY <1>1, <1>6, RecordAnswers DEF AInv
<1>7. CASE \E h \in Clients : Unrefreshed(h)
  BY <1>1, <1>7, UnrefreshedAnswers DEF AInv
<1>8. CASE \E h \in Clients : Finish(h)
  <2>1. PICK h \in Clients : calls' = [calls EXCEPT ![h] = Idle] /\ audit' = audit
    BY <1>8 DEF Finish
  <2>2. Idle.pc # "answered"
    BY DEF Idle
  <2>3. QED
    BY <1>1, <2>1, <2>2, Silent, OneAnswerMoves DEF AInv
<1>9. CASE \E s \in Services : Crash(s)
  BY <1>1, <1>9, CrashAnswers DEF AInv
<1>10. CASE (\E s \in Services : Restart(s)) \/ UNCHANGED vars
  <2>1. calls' = calls /\ audit' = audit
    BY <1>10 DEF Restart, vars
  <2>2. QED
    BY <1>1, <2>1 DEF AInv, Answers, Told, Logged
<1>11. QED
  BY <1>2, <1>3, <1>4, <1>5, <1>6, <1>7, <1>8, <1>9, <1>10 DEF Next, Serve

\* Nothing is answered at the start.
LEMMA InitAnswers ==
  ASSUME Init
  PROVE  AInv
<1>1. \A h \in Clients : calls[h].pc = "idle"
  BY DEF Init, Idle
<1>2. QED
  BY <1>1, InitInv DEF AInv, Answers, Told, Logged

\* Every answer is true in every reachable state.
THEOREM AnswersInductive == Spec => []AInv
<1>1. QED
  BY InitAnswers, StepAnswers, PTL DEF Spec

\* No request ends in an exception that its route does not catch, in whatever state the
\* tables are and whichever services are down or die meanwhile.
THEOREM ErrorsHandled == Spec => []EveryErrorHandled
<1>1. AInv => EveryErrorHandled
  BY DEF AInv, Answers, Told, EveryErrorHandled
<1>2. QED
  BY <1>1, AnswersInductive, PTL

\* A request refused with 4xx has changed nothing, and one that was to change something
\* and is answered with 200 has changed it.
THEOREM AnswersCorrect == Spec => []AnswersTellWhatHappened
<1>1. AInv => AnswersTellWhatHappened
  BY DEF AInv, Answers, Told, AnswersTellWhatHappened
<1>2. QED
  BY <1>1, AnswersInductive, PTL

\* 503 is answered only to a request that needed a service that was down meanwhile, that
\* lost a race, or that Postgres or a missing row of CMDB kept from changing anything.
THEOREM OutagesContained == Spec => []OutagesAreContained
<1>1. AInv => OutagesAreContained
  BY DEF AInv, Answers, Told, OutagesAreContained
<1>2. QED
  BY <1>1, AnswersInductive, PTL

\* What was answered with 200 is in the audit log under the name of its user, unless the
\* Audit Service was down meanwhile.
THEOREM AuditComplete == Spec => []AuditTrailComplete
<1>1. AInv => AuditTrailComplete
  BY DEF AInv, Answers, Logged, AuditTrailComplete
<1>2. QED
  BY <1>1, AnswersInductive, PTL

-----------------------------------------------------------------------------
(***************************************************************************)
(* Pages put together from several answers.                                *)
(***************************************************************************)
\* The calls that tell a page the ids of what is related to its subject.
Lookups == {"GetIncidentIdsForChange", "GetLinkedChangeIds", "ListIncidents"}

\* Some call of todo is one of those, or the one before it.
Unlisted(route, todo) ==
  \E a \in todo : a.rpc \in Lookups \/ (route = "get_change" /\ a.rpc = "GetChange")

\* The ids that the page was told and asks about with the calls of todo.
AskedFor(route, todo) == {a.on : a \in {x \in todo : Skipped(route, x.rpc)}}

\* Why a page may lack something.
Excused(c) ==
  \/ c.dark \cap {"incident", "change"} # {}
  \/ c.route = "get_ci" /\ Cardinality(c.ever) > PageLimit

\* A request for a page, when the tables of the Incident Service are rows and pairs: what
\* it shows or asks about was related once, and what was related all the time it shows,
\* asks about or has still to learn of.
PageOk(c, rows, pairs) ==
  /\ c.pc = "asking" /\ c.route \in pages =>
       /\ c.always \subseteq Related(c.route, c.id, rows, pairs)
       /\ Related(c.route, c.id, rows, pairs) \subseteq c.ever
       /\ c.got \cup AskedFor(c.route, c.todo) \subseteq c.ever
       /\ \/ Excused(c) \/ Unlisted(c.route, c.todo)
          \/ c.always \subseteq c.got \cup AskedFor(c.route, c.todo)
  /\ c.pc = "answered" /\ c.status = 200 /\ c.route \in pages =>
       /\ c.got \subseteq c.ever
       /\ Excused(c) \/ c.always \subseteq c.got

PagesOk == \A h \in Clients : PageOk(calls[h], incidents, links)

PInv == AInv /\ PagesOk
-----------------------------------------------------------------------------
\* What a page is put together from.
LEMMA PageAsks ==
  /\ MayAsk("get_change") = {"GetChange", "GetIncidentIdsForChange", "GetIncident"}
  /\ MayAsk("get_linked_changes") = {"GetLinkedChangeIds", "GetChange"}
  /\ MayAsk("get_ci") = {"GetCIWithOwner", "GetRelatedCIs", "ListIncidents", "ListChanges",
                         "ListAuditEvents"}
  /\ RouteTable["get_linked_changes"].rpcs = {"GetLinkedChangeIds"}
  /\ RouteTable["get_ci"].rpcs = MayAsk("get_ci")
<1>1. CiRoutes["get_ci"].rpcs = {"GetCIWithOwner", "GetRelatedCIs", "ListIncidents",
                                 "ListChanges", "ListAuditEvents"}
  BY DEF CiRoutes, Route
<1>2. LinkRoutes["get_linked_changes"].rpcs = {"GetLinkedChangeIds"}
  BY DEF LinkRoutes, Route
<1>3. RouteTable["get_linked_changes"] = LinkRoutes["get_linked_changes"]
  BY DEF RouteTable, Join, UserRoutes, IncidentRoutes, EditRoutes, LinkRoutes
<1>4. RouteTable["get_ci"] = CiRoutes["get_ci"]
  <2>1. "get_ci" \notin DOMAIN UserRoutes /\ "get_ci" \notin DOMAIN IncidentRoutes
    BY DEF UserRoutes, IncidentRoutes
  <2>2. "get_ci" \notin DOMAIN EditRoutes /\ "get_ci" \notin DOMAIN LinkRoutes
    BY DEF EditRoutes, LinkRoutes
  <2>3. "get_ci" \in DOMAIN CiRoutes
    BY DEF CiRoutes
  <2>4. QED
    BY <2>1, <2>2, <2>3 DEF RouteTable, Join
<1>5. QED
  BY <1>1, <1>2, <1>3, <1>4, NamedRoutes DEF MayAsk, FollowUps

\* A request that writes shows no page.
LEMMA WritersShowNoPage ==
  ASSUME NEW route, NEW rpc \in MayAsk(route), rpc \in writes
  PROVE  route \notin pages
  BY PageAsks, Writes DEF pages

\* A request without a page, or with an error, promises nothing.
LEMMA NoPage ==
  ASSUME NEW c, NEW rows, NEW pairs,
         c.route \notin pages \/ c.pc \notin {"asking", "answered"}
           \/ (c.pc = "answered" /\ c.status # 200)
  PROVE  PageOk(c, rows, pairs)
  BY DEF PageOk

\* A page hands no text on.
LEMMA PageInputs ==
  ASSUME NEW c, c.route \in pages, <<c.id, c.with>> \in Inputs(c.route)
  PROVE  c.with # Unstorable
<1>1. c.route \notin texts /\ Named(c.route) = Asked \X {None}
  BY DEF pages, texts, Named
<1>2. c.with = None
  BY <1>1 DEF Inputs
<1>3. QED
  BY <1>2, UsersAssumption

\* A row that is there is found if its service is.
LEMMA Uncrossed ==
  ASSUME NEW c, c.with # Unstorable, NEW a, a.rpc \in {"GetIncident", "GetChange"}, Exists(a),
         Refusals(a.rpc) = {"NOT_FOUND"}, NEW code \in Codes(c, a), code # "OK"
  PROVE  Host(a.rpc) \in down
<1>1. ~Breaks(c, a) /\ MayBreak(a) = {} /\ Lost(c, a) = {}
  BY DEF Breaks, MayBreak, Lost, refreshed
<1>2. QED
  BY <1>1 DEF Codes

\* What is left of a page when one of its calls fails: the row is gone, and was not
\* related all the time, or its service is down.
LEMMA PageRefused ==
  ASSUME PInv, NEW h \in Clients, calls[h].pc = "asking", NEW a \in calls[h].todo,
         NEW code \in Codes(calls[h], a), code # "OK"
  PROVE  PageOk(Fail(calls[h], a, code), incidents, links)
<1> DEFINE c == calls[h]
           d == Fail(c, a, code)
<1>1. c # Idle /\ c \in Calls /\ PlanOk(h, c, down, changes)
  BY DEF PInv, AInv, IInv, TypeOK, Plans, Idle
<1>2. /\ c.route \in RouteNames /\ a.rpc \in MayAsk(c.route) /\ down \subseteq c.dark
      /\ Planned(c, a, changes)
  BY <1>1 DEF PlanOk, Planned, Active, Calls
<1>3. CASE c.route \notin pages
  <2>1. d.route = c.route
    BY <1>1 DEF Fail, Answered, Calls
  <2>2. QED
    BY <1>3, <2>1, NoPage
<1>4. CASE ~Skipped(c.route, a.rpc)
  <2>1. d.pc = "answered" /\ d.status # 200
    BY <1>1, <1>2, <1>4, StatusRange DEF Fail, Answered, Calls
  <2>2. QED
    BY <2>1, NoPage
<1>7. c.route \in pages => c.with # Unstorable
  BY <1>1, PageInputs DEF PlanOk, Active
<1>5. CASE c.route \in pages /\ Skipped(c.route, a.rpc)
  <2>1. PageOk(c, incidents, links)
    BY DEF PInv, PagesOk
  <2>2. c.dark \cap {"incident", "change"} # {} \/ a.on \notin c.always
    <3>1. SUFFICES ASSUME a.on \in c.always
                   PROVE  c.dark \cap {"incident", "change"} # {}
      OBVIOUS
    <3>2. a.on \in Related(c.route, c.id, incidents, links)
      BY <2>1, <1>5, <3>1 DEF PageOk
    <3>3. CASE c.route = "get_change" /\ a.rpc = "GetIncident"
      <4>1. <<a.on, c.id>> \in links
        BY <3>2, <3>3 DEF Related
      <4>2. RowOf(incidents, a.on)
        BY <4>1 DEF PInv, AInv, IInv, LinksJoinRows
      <4>3. Exists(a) /\ Host(a.rpc) = "incident" /\ Refusals(a.rpc) = {"NOT_FOUND"}
        BY <3>3, <4>2, NotFoundKinds, IncidentReadsFacts DEF Exists
      <4>4. Host(a.rpc) \in down
        BY <1>7, <3>3, <4>3, Uncrossed DEF pages
      <4>5. QED
        BY <1>2, <4>3, <4>4
    <3>4. CASE c.route = "get_linked_changes" /\ a.rpc = "GetChange"
      <4>1. <<c.id, a.on>> \in links
        BY <3>2, <3>4 DEF Related
      <4>2. a.on \in 1..changes
        BY <4>1 DEF PInv, AInv, IInv, LinksJoinRows
      <4>3. Exists(a) /\ Host(a.rpc) = "change" /\ Refusals(a.rpc) = {"NOT_FOUND"}
        BY <3>4, <4>2, NotFoundKinds, ChangeServiceImplFacts DEF Exists
      <4>4. Host(a.rpc) \in down
        BY <1>7, <3>4, <4>3, Uncrossed DEF pages
      <4>5. QED
        BY <1>2, <4>3, <4>4
    <3>5. QED
      BY <1>5, <3>3, <3>4 DEF Skipped
  <2>3. CASE c.todo = {a}
    <3>1. d = Answered(c, 200)
      BY <1>5, <2>3 DEF Fail
    <3>2. /\ d.pc = "answered" /\ d.status = 200 /\ d.route = c.route /\ d.got = c.got
          /\ d.ever = c.ever /\ d.always = c.always /\ d.dark = c.dark
      BY <1>1, <3>1 DEF Answered, Calls
    <3> HIDE DEF d
    <3>3. AskedFor(c.route, c.todo) = {a.on} /\ ~Unlisted(c.route, c.todo)
      BY <1>5, <2>3 DEF AskedFor, Unlisted, Lookups, Skipped
    <3>4. d.got \subseteq d.ever
      BY <1>5, <2>1, <3>2 DEF PageOk
    <3>5. Excused(d) \/ d.always \subseteq d.got
      BY <1>5, <2>1, <2>2, <3>2, <3>3 DEF PageOk, Excused
    <3>6. PageOk(d, incidents, links)
      BY <3>2, <3>4, <3>5 DEF PageOk
    <3>7. QED
      BY <3>6 DEF d
  <2>4. CASE c.todo # {a}
    <3>1. d = [c EXCEPT !.todo = c.todo \ {a}]
      BY <1>1, <1>5, <2>4 DEF Fail
    <3>2. /\ d.pc = "asking" /\ d.route = c.route /\ d.got = c.got /\ d.id = c.id
          /\ d.ever = c.ever /\ d.always = c.always /\ d.dark = c.dark
          /\ d.todo = c.todo \ {a}
      BY <1>1, <3>1 DEF Calls
    <3> HIDE DEF d
    <3>3. /\ AskedFor(d.route, d.todo) \subseteq AskedFor(c.route, c.todo)
          /\ AskedFor(c.route, c.todo) \subseteq AskedFor(d.route, d.todo) \cup {a.on}
          /\ Unlisted(c.route, c.todo) => Unlisted(d.route, d.todo)
      BY <1>5, <3>2 DEF AskedFor, Unlisted, Lookups, Skipped
    <3>4. \/ Excused(d) \/ Unlisted(d.route, d.todo)
          \/ d.always \subseteq d.got \cup AskedFor(d.route, d.todo)
      BY <1>5, <2>1, <2>2, <3>2, <3>3 DEF PageOk, Excused
    <3>5. d.got \cup AskedFor(d.route, d.todo) \subseteq d.ever
      BY <1>5, <2>1, <3>2, <3>3 DEF PageOk
    <3>6. PageOk(d, incidents, links)
      BY <1>5, <2>1, <3>2, <3>4, <3>5 DEF PageOk
    <3>7. QED
      BY <3>6 DEF d
  <2>5. QED
    BY <2>3, <2>4
<1>6. QED
  BY <1>3, <1>4, <1>5

\* The newest n of no more than n are all of them.
LEMMA NewestOfFew ==
  ASSUME NEW n \in Nat, NEW S \in SUBSET Nat, IsFiniteSet(S), Cardinality(S) <= n
  PROVE  Newest(n, S) = S
<1>1. ASSUME NEW i \in S
      PROVE  Cardinality({j \in S : j > i}) < n
  <2>1. {j \in S : j > i} \subseteq S \ {i}
    OBVIOUS
  <2>2. IsFiniteSet(S \ {i}) /\ Cardinality(S \ {i}) = Cardinality(S) - 1
    BY FS_RemoveElement
  <2>3. /\ Cardinality({j \in S : j > i}) <= Cardinality(S \ {i})
        /\ IsFiniteSet({j \in S : j > i})
    BY <2>1, <2>2, FS_Subset
  <2>4. Cardinality({j \in S : j > i}) \in Nat /\ Cardinality(S) \in Nat
    BY <2>3, FS_CardinalityType
  <2> DEFINE k == Cardinality({j \in S : j > i})
             m == Cardinality(S)
             o == Cardinality(S \ {i})
  <2>5. k \in Nat /\ m \in Nat /\ o = m - 1 /\ k <= o /\ m <= n
    BY <2>2, <2>3, <2>4
  <2> HIDE DEF k, m, o
  <2>6. k < n
    BY <2>5
  <2>7. QED
    BY <2>6 DEF k
<1>2. QED
  BY <1>1 DEF Newest

\* Sets of ids are finite.
LEMMA FewIds ==
  ASSUME NEW S \in SUBSET Ids
  PROVE  IsFiniteSet(S) /\ Cardinality(S) \in Nat /\ S \subseteq Nat
<1>1. S \subseteq 1..MaxRows /\ MaxRows \in Nat
  BY BoundsAssumption DEF Ids
<1>2. IsFiniteSet(1..MaxRows)
  BY <1>1, FS_Interval
<1>3. IsFiniteSet(S)
  BY <1>1, <1>2, FS_Subset
<1>4. QED
  BY <1>1, <1>3, FS_CardinalityType

\* A page is told of what is related to its subject then, or of the newest if there is
\* no room for more.
LEMMA ListedItems ==
  ASSUME NEW route \in pages, NEW a, a.rpc \in MayAsk(route), a.rpc \in Lookups
  PROVE  LET now == Related(route, a.on, incidents, links) IN
         /\ Items(a) \subseteq now
         /\ \/ Items(a) = now
            \/ route = "get_ci" /\ Cardinality(now) > PageLimit
<1>1. CASE a.rpc = "GetIncidentIdsForChange"
  <2>1. route = "get_change"
    BY <1>1, PageAsks DEF pages
  <2>2. QED
    BY <1>1, <2>1 DEF Items, Related
<1>2. CASE a.rpc = "GetLinkedChangeIds"
  <2>1. route = "get_linked_changes"
    BY <1>2, PageAsks DEF pages
  <2>2. QED
    BY <1>2, <2>1 DEF Items, Related
<1>3. CASE a.rpc = "ListIncidents"
  <2> DEFINE now == Related(route, a.on, incidents, links)
  <2>1. route = "get_ci"
    BY <1>3, PageAsks DEF pages
  <2>2. Items(a) = Newest(PageLimit, now) /\ now \in SUBSET Ids
    BY <1>3, <2>1 DEF Items, Related
  <2> HIDE DEF now
  <2>3. Items(a) \subseteq now
    BY <2>2 DEF Newest
  <2>4. IsFiniteSet(now) /\ Cardinality(now) \in Nat /\ now \subseteq Nat
    BY <2>2, FewIds
  <2>5. CASE Cardinality(now) <= PageLimit
    <3>1. Items(a) = now
      BY <2>2, <2>4, <2>5, BoundsAssumption, NewestOfFew
    <3>2. QED
      BY <3>1 DEF now
  <2>6. CASE ~(Cardinality(now) <= PageLimit)
    <3>1. Cardinality(now) > PageLimit
      BY <2>4, <2>6, BoundsAssumption
    <3>2. QED
      BY <2>1, <2>3, <3>1 DEF now
  <2>7. QED
    BY <2>5, <2>6
<1>4. QED
  BY <1>1, <1>2, <1>3 DEF Lookups

\* What a request asks for when one call is done and others follow.
LEMMA AskedNext ==
  ASSUME NEW route, NEW todo, NEW a \in todo, NEW more
  PROVE  LET then == (todo \ {a}) \cup more IN
         /\ AskedFor(route, then) \subseteq AskedFor(route, todo) \cup AskedFor(route, more)
         /\ AskedFor(route, more) \subseteq AskedFor(route, then)
         /\ Skipped(route, a.rpc) =>
              AskedFor(route, todo) \subseteq AskedFor(route, then) \cup {a.on}
         /\ ~Skipped(route, a.rpc) => AskedFor(route, todo) \subseteq AskedFor(route, then)
  BY DEF AskedFor

\* Nothing to ask about is nothing left out.
LEMMA NothingAsked ==
  ASSUME NEW route
  PROVE  AskedFor(route, {}) = {} /\ ~Unlisted(route, {})
  BY DEF AskedFor, Unlisted

\* A page stays true as long as what it shows and asks about was related once, and
\* nothing that always was is lost.
LEMMA PageGoesOn ==
  ASSUME NEW c, NEW d, NEW rows, NEW pairs, PageOk(c, rows, pairs),
         c.pc = "asking", c.route \in pages,
         d.route = c.route, d.ever = c.ever, d.always = c.always, d.dark = c.dark,
         \/ d.pc = "asking" /\ d.id = c.id
         \/ d.pc = "answered" /\ d.todo = {},
         d.got \cup AskedFor(c.route, d.todo) \subseteq c.ever,
         \/ Excused(c) \/ Unlisted(c.route, d.todo)
         \/ c.always \subseteq d.got \cup AskedFor(c.route, d.todo)
  PROVE  PageOk(d, rows, pairs)
<1>1. Excused(c) <=> Excused(d)
  BY DEF Excused
<1>2. CASE d.pc = "asking" /\ d.id = c.id
  BY <1>1, <1>2 DEF PageOk
<1>3. CASE d.pc = "answered" /\ d.todo = {}
  BY <1>1, <1>3, NothingAsked DEF PageOk
<1>4. QED
  BY <1>2, <1>3

\* One question for each id asks for just these ids.
LEMMA AskedEach ==
  ASSUME NEW route, NEW rpc, Skipped(route, rpc), NEW items
  PROVE  AskedFor(route, {Ask(rpc, i) : i \in items}) = items
<1> DEFINE todo == {Ask(rpc, i) : i \in items}
<1>1. \A i : Ask(rpc, i).rpc = rpc /\ Ask(rpc, i).on = i
  BY DEF Ask
<1>2. \A a \in todo : a.rpc = rpc /\ a.on \in items
  BY <1>1
<1>3. \A i \in items : \E a \in todo : a.on = i
  BY <1>1
<1> HIDE DEF todo
<1>4. AskedFor(route, todo) = items
  BY <1>2, <1>3 DEF AskedFor
<1>5. QED
  BY <1>4 DEF todo

\* What follows on a call of a page: after a list of ids, the ids are shown or asked for.
LEMMA PageFollows ==
  ASSUME NEW c, c.route \in pages, NEW a, a.rpc \in MayAsk(c.route), NEW items,
         a.rpc \in Lookups
  PROVE  /\ ~Skipped(c.route, a.rpc)
         /\ \/ /\ Listed(c.route, a.rpc)
               /\ AskedFor(c.route, Follow(c, a, items)) = {}
            \/ /\ ~Listed(c.route, a.rpc)
               /\ AskedFor(c.route, Follow(c, a, items)) = items
<1>1. CASE a.rpc = "ListIncidents"
  <2>1. c.route = "get_ci"
    BY <1>1, PageAsks DEF pages
  <2>2. Follow(c, a, items) = {}
    BY <1>1, <2>1 DEF Follow
  <2>3. QED
    BY <1>1, <2>1, <2>2, NothingAsked DEF Listed, Skipped
<1>2. CASE a.rpc = "GetIncidentIdsForChange"
  <2>1. c.route = "get_change"
    BY <1>2, PageAsks DEF pages
  <2>2. Follow(c, a, items) = {Ask("GetIncident", i) : i \in items}
    BY <1>2, <2>1 DEF Follow
  <2>3. Skipped(c.route, "GetIncident")
    BY <2>1 DEF Skipped
  <2>4. AskedFor(c.route, Follow(c, a, items)) = items
    BY <2>2, <2>3, AskedEach
  <2>5. QED
    BY <1>2, <2>1, <2>4 DEF Listed, Skipped
<1>3. CASE a.rpc = "GetLinkedChangeIds"
  <2>1. c.route = "get_linked_changes"
    BY <1>3, PageAsks DEF pages
  <2>2. Follow(c, a, items) = {Ask("GetChange", i) : i \in items}
    BY <1>3, <2>1 DEF Follow
  <2>3. Skipped(c.route, "GetChange")
    BY <2>1 DEF Skipped
  <2>4. AskedFor(c.route, Follow(c, a, items)) = items
    BY <2>2, <2>3, AskedEach
  <2>5. QED
    BY <1>3, <2>1, <2>4 DEF Listed, Skipped
<1>4. QED
  BY <1>1, <1>2, <1>3 DEF Lookups

\* A page stays true with every answer that a service gives it.
LEMMA PageContinued ==
  ASSUME PInv, NEW h \in Clients, calls[h].pc = "asking", NEW a \in calls[h].todo
  PROVE  PageOk(Continue(calls[h], a, Items(a)), incidents, links)
<1> DEFINE c == calls[h]
           items == Items(a)
           more == Follow(c, a, items)
           todo == (c.todo \ {a}) \cup more
           got == c.got \cup (IF Listed(c.route, a.rpc) THEN items ELSE {})
           next == [c EXCEPT !.todo = todo, !.got = got]
           d == Continue(c, a, items)
           now == Related(c.route, c.id, incidents, links)
<1>1. c # Idle /\ c \in Calls /\ PlanOk(h, c, down, changes)
  BY DEF PInv, AInv, IInv, TypeOK, Plans, Idle
<1>2. a.rpc \in MayAsk(c.route) /\ Planned(c, a, changes)
  BY <1>1 DEF PlanOk, Planned, Active
<1>3. /\ d.route = c.route /\ d.got = got /\ d.ever = c.ever /\ d.always = c.always
      /\ d.dark = c.dark /\ d.todo = todo
      /\ \/ d.pc = "asking" /\ d.id = c.id
         \/ d.pc = "answered" /\ todo = {}
  <2>1. /\ next.route = c.route /\ next.got = got /\ next.ever = c.ever
        /\ next.always = c.always /\ next.dark = c.dark /\ next.pc = "asking"
        /\ next.todo = todo /\ next.id = c.id /\ DOMAIN next = DOMAIN c
    BY <1>1 DEF Calls
  <2>2. d = IF todo = {} THEN Answered(next, 200) ELSE next
    BY DEF Continue
  <2>3. "status" \in DOMAIN c /\ "pc" \in DOMAIN c /\ "todo" \in DOMAIN c
    BY <1>1 DEF Calls
  <2> HIDE DEF next, d, todo, got
  <2>4. CASE todo = {}
    BY <2>1, <2>2, <2>3, <2>4 DEF Answered
  <2>5. CASE todo # {}
    BY <2>1, <2>2, <2>5
  <2>6. QED
    BY <2>4, <2>5
<1>4. CASE c.route \notin pages
  BY <1>3, <1>4, NoPage
<1>5. CASE c.route \in pages
  <2>1. PageOk(c, incidents, links)
    BY DEF PInv, PagesOk
  <2>2. /\ c.always \subseteq now /\ now \subseteq c.ever
        /\ c.got \cup AskedFor(c.route, c.todo) \subseteq c.ever
        /\ \/ Excused(c) \/ Unlisted(c.route, c.todo)
           \/ c.always \subseteq c.got \cup AskedFor(c.route, c.todo)
    BY <1>5, <2>1 DEF PageOk
  <2>3. /\ AskedFor(c.route, todo) \subseteq AskedFor(c.route, c.todo) \cup AskedFor(c.route, more)
        /\ AskedFor(c.route, more) \subseteq AskedFor(c.route, todo)
        /\ Skipped(c.route, a.rpc) =>
             AskedFor(c.route, c.todo) \subseteq AskedFor(c.route, todo) \cup {a.on}
        /\ ~Skipped(c.route, a.rpc) =>
             AskedFor(c.route, c.todo) \subseteq AskedFor(c.route, todo)
    BY AskedNext
  <2>4. /\ got \cup AskedFor(c.route, todo) \subseteq c.ever
        /\ \/ Excused(c) \/ Unlisted(c.route, todo)
           \/ c.always \subseteq got \cup AskedFor(c.route, todo)
    <3>1. CASE a.rpc \in Lookups
      <4>1. a.on = c.id
        BY <1>2, <3>1 DEF Planned, Skipped, Lookups
      <4>2. /\ items \subseteq now
            /\ items = now \/ (c.route = "get_ci" /\ Cardinality(now) > PageLimit)
        BY <1>2, <1>5, <3>1, <4>1, ListedItems
      <4>3. Cardinality(now) > PageLimit => Cardinality(c.ever) > PageLimit
        <5>1. c.ever \in SUBSET Ids /\ now \in SUBSET Ids
          BY <1>1, <2>2 DEF Calls
        <5>2. IsFiniteSet(c.ever) /\ Cardinality(c.ever) \in Nat /\ Cardinality(now) \in Nat
          BY <5>1, FewIds
        <5>3. Cardinality(now) <= Cardinality(c.ever)
          BY <2>2, <5>2, FS_Subset
        <5>4. QED
          BY <5>2, <5>3, BoundsAssumption
      <4>4. /\ ~Skipped(c.route, a.rpc)
            /\ \/ Listed(c.route, a.rpc) /\ AskedFor(c.route, more) = {}
               \/ ~Listed(c.route, a.rpc) /\ AskedFor(c.route, more) = items
        BY <1>2, <1>5, <3>1, PageFollows
      <4>5. got \cup AskedFor(c.route, more) = c.got \cup items
        BY <4>4
      <4> HIDE DEF items, more, got, todo, now
      <4>6. Excused(c) \/ items = now
        BY <4>2, <4>3 DEF Excused
      <4>7. got \cup AskedFor(c.route, todo) \subseteq c.ever
        BY <2>2, <2>3, <4>2, <4>5
      <4>8. items = now => c.always \subseteq got \cup AskedFor(c.route, todo)
        BY <2>2, <2>3, <4>5
      <4>9. QED
        BY <4>6, <4>7, <4>8
    <3>2. CASE c.route = "get_change" /\ a.rpc = "GetChange"
      <4>1. more = {Ask("GetIncidentIdsForChange", c.id)}
        BY <3>2 DEF Follow
      <4>2. ~Listed(c.route, a.rpc) /\ ~Skipped(c.route, "GetIncidentIdsForChange")
        BY <3>2 DEF Listed, Skipped
      <4>3. AskedFor(c.route, more) = {} /\ got = c.got
        BY <4>1, <4>2 DEF AskedFor, Ask
      <4>4. Unlisted(c.route, todo)
        <5>1. Ask("GetIncidentIdsForChange", c.id) \in todo
          BY <4>1
        <5>2. Ask("GetIncidentIdsForChange", c.id).rpc \in Lookups
          BY DEF Ask, Lookups
        <5>3. QED
          BY <5>1, <5>2 DEF Unlisted
      <4> HIDE DEF more, got, todo
      <4>5. QED
        BY <2>2, <2>3, <4>3, <4>4
    <3>3. CASE a.rpc \notin Lookups /\ ~(c.route = "get_change" /\ a.rpc = "GetChange")
      <4>1. more = {}
        BY <1>5, <3>3 DEF Follow, pages, Lookups
      <4>2. Listed(c.route, a.rpc) <=> Skipped(c.route, a.rpc)
        BY <3>3 DEF Listed, Lookups
      <4>3. Skipped(c.route, a.rpc) => items = {a.on} /\ a.on \in AskedFor(c.route, c.todo)
        BY DEF Skipped, Items, AskedFor
      <4>4. Unlisted(c.route, c.todo) => Unlisted(c.route, todo)
        BY <3>3 DEF Unlisted
      <4>5. got = c.got \cup (IF Skipped(c.route, a.rpc) THEN {a.on} ELSE {})
        BY <4>2, <4>3
      <4>6. AskedFor(c.route, more) = {}
        BY <4>1, NothingAsked
      <4> HIDE DEF items, more, got, todo
      <4>7. got \cup AskedFor(c.route, todo) \subseteq c.ever
        BY <2>2, <2>3, <4>3, <4>5, <4>6
      <4>8. c.got \cup AskedFor(c.route, c.todo) \subseteq got \cup AskedFor(c.route, todo)
        BY <2>3, <4>5
      <4>9. QED
        BY <2>2, <4>4, <4>7, <4>8
    <3>4. QED
      BY <3>1, <3>2, <3>3
  <2> HIDE DEF d, got, todo, now, items, more, next
  <2>5. PageOk(d, incidents, links)
    BY <1>3, <1>5, <2>1, <2>4, PageGoesOn
  <2>6. QED
    BY <2>5 DEF d, items
<1>6. QED
  BY <1>4, <1>5

-----------------------------------------------------------------------------
(***************************************************************************)
(* Every step leaves every page true.                                      *)
(***************************************************************************)
\* One request moves on, and the tables stay as they are.
LEMMA OnePageMoves ==
  ASSUME PInv, NEW h \in Clients, NEW d, calls' = [calls EXCEPT ![h] = d],
         PageOk(d, incidents, links), UNCHANGED <<incidents, links>>
  PROVE  PagesOk'
<1>1. \A g \in Clients : calls'[g] = IF g = h THEN d ELSE calls[g]
  BY DEF PInv, AInv, IInv, TypeOK
<1>2. \A g \in Clients : PageOk(calls'[g], incidents, links)
  BY <1>1 DEF PInv, PagesOk
<1>3. QED
  BY <1>2 DEF PagesOk, PageOk

\* A page that is asked for has learned nothing yet, and its first calls tell the ids.
LEMMA RequestPages ==
  ASSUME PInv, NEW h \in Clients, NEW route, NEW id, NEW with, Request(h, route, id, with)
  PROVE  PagesOk'
<1> DEFINE now == Related(route, id, incidents, links)
           todo == First(route, id, with)
           d == [pc |-> "asking", route |-> route, id |-> id, with |-> with,
                 todo |-> todo, got |-> {}, entry |-> None, written |-> FALSE,
                 raced |-> FALSE, status |-> 0, dark |-> down, ever |-> now,
                 always |-> now]
<1>1. calls' = [calls EXCEPT ![h] = d] /\ UNCHANGED <<incidents, links>>
  BY DEF Request, tables
<1>2. /\ d.pc = "asking" /\ d.route = route /\ d.id = id /\ d.todo = todo /\ d.got = {}
      /\ d.ever = now /\ d.always = now
  OBVIOUS
<1>3. route \in pages => AskedFor(route, todo) = {} /\ Unlisted(route, todo)
  <2>1. SUFFICES ASSUME route \in pages
                 PROVE  AskedFor(route, todo) = {} /\ Unlisted(route, todo)
    OBVIOUS
  <2>2. todo = {Ask(rpc, id) : rpc \in RouteTable[route].rpcs}
    BY <2>1 DEF First, pages
  <2>3. PICK rpc \in RouteTable[route].rpcs :
          rpc \in Lookups \/ (route = "get_change" /\ rpc = "GetChange")
    <3>1. CASE route = "get_change"
      BY <3>1, NamedRoutes
    <3>2. CASE route = "get_linked_changes"
      <4>1. "GetLinkedChangeIds" \in RouteTable[route].rpcs
        BY <3>2, PageAsks
      <4>2. QED
        BY <4>1 DEF Lookups
    <3>3. CASE route = "get_ci"
      <4>1. "ListIncidents" \in RouteTable[route].rpcs
        BY <3>3, PageAsks
      <4>2. QED
        BY <4>1 DEF Lookups
    <3>4. QED
      BY <2>1, <3>1, <3>2, <3>3 DEF pages
  <2>4. \A a \in todo : ~Skipped(route, a.rpc)
    <3>1. \A other \in RouteTable[route].rpcs : ~Skipped(route, other)
      <4>1. CASE route = "get_change"
        BY <4>1, NamedRoutes DEF Skipped
      <4>2. CASE route = "get_linked_changes"
        BY <4>2, PageAsks DEF Skipped
      <4>3. CASE route = "get_ci"
        BY <4>3 DEF Skipped
      <4>4. QED
        BY <2>1, <4>1, <4>2, <4>3 DEF pages
    <3>2. \A a \in todo : a.rpc \in RouteTable[route].rpcs
      BY <2>2 DEF Ask
    <3>3. QED
      BY <3>1, <3>2
  <2>5. Ask(rpc, id) \in todo /\ Ask(rpc, id).rpc = rpc
    BY <2>2 DEF Ask
  <2> HIDE DEF todo
  <2>6. Unlisted(route, todo)
    BY <2>3, <2>5 DEF Unlisted
  <2>7. AskedFor(route, todo) = {}
    BY <2>4 DEF AskedFor
  <2>8. QED
    BY <2>6, <2>7
<1> HIDE DEF d, todo, now
<1>4. PageOk(d, incidents, links)
  BY <1>2, <1>3 DEF PageOk, now
<1>5. QED
  BY <1>1, <1>4, OnePageMoves

\* A request that has written shows no page.
LEMMA RecordingNoPage ==
  ASSUME IInv, NEW h \in Clients, calls[h].pc = "recording"
  PROVE  calls[h] \in Calls /\ calls[h].route \notin pages
<1>1. calls[h] \in Calls /\ PlanOk(h, calls[h], down, changes)
  BY DEF IInv, TypeOK, Plans, Idle
<1>2. PICK b \in calls[h].todo : b.rpc \in writes
  BY <1>1 DEF PlanOk
<1>3. b.rpc \in MayAsk(calls[h].route)
  BY <1>1, <1>2 DEF PlanOk, Planned, Active
<1>4. QED
  BY <1>1, <1>2, <1>3, WritersShowNoPage

\* A write takes its effect on what is related to the pages of others, which watch it.
LEMMA WritePages ==
  ASSUME PInv, NEW h \in Clients, calls[h].pc = "asking", NEW a \in calls[h].todo, Write(h, a)
  PROVE  PagesOk'
<1>1. ASSUME NEW g \in Clients
      PROVE  PageOk(calls'[g], incidents', links')
  <2> DEFINE c == calls[g]
             now == Related(c.route, c.id, incidents', links')
             d == [c EXCEPT !.ever = @ \cup now, !.always = @ \cap now]
  <2>1. PageOk(c, incidents, links)
    BY DEF PInv, PagesOk
  <2>2. CASE g = h
    <3>1. calls[h] \in Calls
      BY DEF PInv, AInv, IInv, TypeOK, Idle
    <3>2. calls'[g].pc = "recording"
      BY <2>2, <3>1 DEF Write, Calls
    <3>3. QED
      BY <3>2, NoPage
  <2>3. CASE g # h /\ c.pc \notin {"asking", "recording"}
    <3>1. calls'[g] = c
      BY <2>3 DEF Write, Watch
    <3>2. QED
      BY <2>1, <2>3, <3>1 DEF PageOk
  <2>6. CASE g # h /\ c.pc \in {"asking", "recording"} /\ c.route \notin pages
    <3>1. c \in Calls
      BY <2>6 DEF PInv, AInv, IInv, TypeOK, Idle
    <3>2. calls'[g].route = c.route
      BY <2>6, <3>1 DEF Write, Watch, Calls
    <3>3. QED
      BY <2>6, <3>2, NoPage
  <2>7. CASE g # h /\ c.pc = "recording" /\ c.route \in pages
    BY <2>7, RecordingNoPage DEF PInv, AInv
  <2>4. CASE g # h /\ c.pc = "asking" /\ c.route \in pages
    <3>1. calls'[g] = d
      BY <2>4 DEF Write, Watch
    <3>2. c \in Calls
      BY <2>4 DEF PInv, AInv, IInv, TypeOK, Idle
    <3>3. /\ d.pc = "asking" /\ d.route = c.route /\ d.id = c.id /\ d.todo = c.todo
          /\ d.got = c.got /\ d.dark = c.dark
          /\ d.ever = c.ever \cup now /\ d.always = c.always \cap now
      BY <2>4, <3>2 DEF Calls
    <3> HIDE DEF d
    <3>4. Excused(c) => Excused(d)
      <4>1. now \in SUBSET Ids /\ c.ever \in SUBSET Ids
        BY <3>2 DEF Related, Calls
      <4>2. /\ IsFiniteSet(d.ever) /\ Cardinality(d.ever) \in Nat
            /\ Cardinality(c.ever) \in Nat /\ c.ever \subseteq d.ever
        BY <3>3, <4>1, FewIds
      <4>3. Cardinality(c.ever) <= Cardinality(d.ever)
        BY <4>2, FS_Subset
      <4>4. Cardinality(c.ever) > PageLimit => Cardinality(d.ever) > PageLimit
        BY <4>2, <4>3, BoundsAssumption
      <4>5. QED
        BY <3>3, <4>4 DEF Excused
    <3> HIDE DEF now
    <3>5. PageOk(d, incidents', links')
      BY <2>1, <2>4, <3>3, <3>4 DEF PageOk, now
    <3>6. QED
      BY <3>1, <3>5
  <2>5. QED
    BY <2>2, <2>3, <2>4, <2>6, <2>7
<1>2. QED
  BY <1>1 DEF PagesOk, PageOk

\* The answer to a write promises no page.
LEMMA RecordPages ==
  ASSUME PInv, NEW h \in Clients, Record(h)
  PROVE  PagesOk'
<1> DEFINE c == calls[h]
           a == CHOOSE x \in c.todo : TRUE
           d == Continue(c, a, {})
<1>1. c \in Calls /\ c.route \notin pages
  BY RecordingNoPage DEF Record, PInv, AInv
<1>2. d.route = c.route
  BY <1>1 DEF Continue, Answered, Calls
<1>3. calls' = [calls EXCEPT ![h] = d] /\ UNCHANGED <<incidents, links>>
  BY DEF Record, record_audit_event, tables
<1> HIDE DEF d
<1>4. PageOk(d, incidents, links)
  BY <1>1, <1>2, NoPage
<1>5. QED
  BY <1>3, <1>4, OnePageMoves

\* Nor does a write whose row is gone.
LEMMA UnrefreshedPages ==
  ASSUME PInv, NEW h \in Clients, Unrefreshed(h)
  PROVE  PagesOk'
<1> DEFINE c == calls[h]
           a == CHOOSE x \in c.todo : TRUE
           d == Fail(c, a, "UNKNOWN")
<1>1. c \in Calls /\ c.route \notin pages
  BY RecordingNoPage DEF Unrefreshed, PInv, AInv
<1>2. d.route = c.route
  BY <1>1 DEF Fail, Answered, Calls
<1>3. calls' = [calls EXCEPT ![h] = d] /\ UNCHANGED <<incidents, links>>
  BY DEF Unrefreshed, tables
<1> HIDE DEF d
<1>4. PageOk(d, incidents, links)
  BY <1>1, <1>2, NoPage
<1>5. QED
  BY <1>3, <1>4, OnePageMoves

\* A service that dies gives a page one more reason to lack something.
LEMMA CrashPages ==
  ASSUME PInv, NEW s \in Services, Crash(s)
  PROVE  PagesOk'
<1>1. UNCHANGED <<incidents, links>>
  BY DEF Crash, tables
<1>2. ASSUME NEW g \in Clients
      PROVE  PageOk(calls'[g], incidents, links)
  <2> DEFINE c == calls[g]
             a == CHOOSE x \in c.todo : TRUE
             dark == [c EXCEPT !.dark = @ \cup {s}]
  <2>1. PageOk(c, incidents, links)
    BY DEF PInv, PagesOk
  <2>2. CASE c.pc \notin {"asking", "recording"}
    <3>1. calls'[g] = c
      BY <2>2 DEF Crash
    <3>2. QED
      BY <2>1, <3>1
  <2>3. CASE c.pc = "recording"
    <3>1. c \in Calls /\ c.route \notin pages
      BY <2>3, RecordingNoPage DEF PInv, AInv
    <3>2. calls'[g] = IF Host(a.rpc) = s THEN Fail(dark, a, "UNAVAILABLE") ELSE dark
      BY <2>3 DEF Crash
    <3>3. dark.route = c.route /\ Fail(dark, a, "UNAVAILABLE").route = c.route
      BY <3>1 DEF Fail, Answered, Calls
    <3>4. calls'[g].route = c.route
      BY <3>2, <3>3
    <3>5. QED
      BY <3>1, <3>4, NoPage
  <2>4. CASE c.pc = "asking"
    <3>1. c \in Calls
      BY <2>4 DEF PInv, AInv, IInv, TypeOK, Idle
    <3>2. calls'[g] = dark
      BY <2>4 DEF Crash
    <3>3. /\ dark.pc = "asking" /\ dark.route = c.route /\ dark.id = c.id
          /\ dark.todo = c.todo /\ dark.got = c.got /\ dark.dark = c.dark \cup {s}
          /\ dark.ever = c.ever /\ dark.always = c.always
      BY <2>4, <3>1 DEF Calls
    <3> HIDE DEF dark
    <3>4. Excused(c) => Excused(dark)
      BY <3>3 DEF Excused
    <3>5. PageOk(dark, incidents, links)
      BY <2>1, <2>4, <3>3, <3>4 DEF PageOk
    <3>6. QED
      BY <3>2, <3>5
  <2>5. QED
    BY <2>2, <2>3, <2>4
<1>3. QED
  BY <1>1, <1>2 DEF PagesOk, PageOk

\* Every step.
LEMMA StepPages ==
  ASSUME PInv, [Next]_vars
  PROVE  PInv'
<1>1. AInv'
  BY StepAnswers DEF PInv
<1>2. CASE \E h \in Clients : \E route \in Offers[h] :
             \E input \in Inputs(route) : Request(h, route, input[1], input[2])
  BY <1>1, <1>2, RequestPages DEF PInv
<1>3. CASE \E h \in Clients : calls[h].pc = "asking" /\ \E a \in calls[h].todo : Refuse(h, a)
  <2>1. PICK h \in Clients : calls[h].pc = "asking" /\ \E a \in calls[h].todo : Refuse(h, a)
    BY <1>3
  <2>2. PICK a \in calls[h].todo : Refuse(h, a)
    BY <2>1
  <2>3. PICK code \in Codes(calls[h], a) :
          /\ code # "OK" /\ UNCHANGED <<incidents, links>>
          /\ calls' = [calls EXCEPT ![h] = Fail(calls[h], a, code)]
    BY <2>2 DEF Refuse, tables, PInv, AInv, IInv, TypeOK
  <2>4. PageOk(Fail(calls[h], a, code), incidents, links)
    BY <2>1, <2>3, PageRefused
  <2>5. QED
    BY <1>1, <2>3, <2>4, OnePageMoves DEF PInv
<1>4. CASE \E h \in Clients : calls[h].pc = "asking" /\ \E a \in calls[h].todo : Read(h, a)
  <2>1. PICK h \in Clients : calls[h].pc = "asking" /\ \E a \in calls[h].todo : Read(h, a)
    BY <1>4
  <2>2. PICK a \in calls[h].todo : Read(h, a)
    BY <2>1
  <2>3. /\ calls' = [calls EXCEPT ![h] = Continue(calls[h], a, Items(a))]
        /\ UNCHANGED <<incidents, links>>
    BY <2>2 DEF Read, tables, PInv, AInv, IInv, TypeOK
  <2>4. PageOk(Continue(calls[h], a, Items(a)), incidents, links)
    BY <2>1, PageContinued
  <2>5. QED
    BY <1>1, <2>3, <2>4, OnePageMoves DEF PInv
<1>5. CASE \E h \in Clients : calls[h].pc = "asking" /\ \E a \in calls[h].todo : Write(h, a)
  BY <1>1, <1>5, WritePages DEF PInv
<1>6. CASE \E h \in Clients : Record(h)
  BY <1>1, <1>6, RecordPages DEF PInv
<1>7. CASE \E h \in Clients : Unrefreshed(h)
  BY <1>1, <1>7, UnrefreshedPages DEF PInv
<1>8. CASE \E h \in Clients : Finish(h)
  <2>1. PICK h \in Clients : calls' = [calls EXCEPT ![h] = Idle] /\ UNCHANGED <<incidents, links>>
    BY <1>8 DEF Finish, tables
  <2>2. PageOk(Idle, incidents, links)
    BY DEF Idle, PageOk
  <2>3. QED
    BY <1>1, <2>1, <2>2, OnePageMoves DEF PInv
<1>9. CASE \E s \in Services : Crash(s)
  BY <1>1, <1>9, CrashPages DEF PInv
<1>10. CASE (\E s \in Services : Restart(s)) \/ UNCHANGED vars
  <2>1. calls' = calls /\ UNCHANGED <<incidents, links>>
    BY <1>10 DEF Restart, vars, tables
  <2>2. QED
    BY <1>1, <2>1 DEF PInv, PagesOk, PageOk
<1>11. QED
  BY <1>2, <1>3, <1>4, <1>5, <1>6, <1>7, <1>8, <1>9, <1>10 DEF Next, Serve

\* A page put together from the answers of several services, while others write, shows
\* only what was related to its subject at some moment of the request, and all that was
\* so the whole time, unless a service it needs was down meanwhile or there is more than
\* a page of it.
THEOREM PagesTrue == Spec => []PagesTellTheTruth
<1>1. ASSUME Init
      PROVE  PInv
  <2>1. \A h \in Clients : calls[h].pc = "idle"
    BY <1>1 DEF Init, Idle
  <2>2. QED
    BY <1>1, <2>1, InitAnswers DEF PInv, PagesOk, PageOk
<1>2. PInv => PagesTellTheTruth
  BY DEF PInv, PagesOk, PageOk, Excused, PagesTellTheTruth
<1>3. QED
  BY <1>1, <1>2, StepPages, PTL DEF Spec
=============================================================================
