---------------------------- MODULE GatewayProofs -----------------------------
(***************************************************************************)
(* The tables of routes, clients and services: each route is right by      *)
(* itself, whatever the services answer.  Then the theorems about the      *)
(* gateway, for any number of clients, users and rows, any offered routes  *)
(* and any crashes.                                                        *)
(***************************************************************************)
EXTENDS Gateway, FiniteSetTheorems, TLAPS

-----------------------------------------------------------------------------
(***************************************************************************)
(* The services and their clients.                                         *)
(***************************************************************************)
\* The servicer of incidents is its two tables.
LEMMA IncidentRpcs ==
  /\ DOMAIN IncidentServicer = DOMAIN IncidentReads \cup DOMAIN IncidentWrites
  /\ \A rpc \in DOMAIN IncidentReads : IncidentServicer[rpc] = IncidentReads[rpc]
  /\ \A rpc \in DOMAIN IncidentWrites : IncidentServicer[rpc] = IncidentWrites[rpc]
<1>1. DOMAIN IncidentReads \cap DOMAIN IncidentWrites = {}
  BY DEF IncidentReads, IncidentWrites
<1>2. QED
  BY <1>1 DEF IncidentServicer, Join

\* Which service each call belongs to: no two of them share a name.
LEMMA Hosts ==
  /\ \A rpc \in DOMAIN UserServicer : Host(rpc) = "user"
  /\ \A rpc \in DOMAIN IncidentServicer : Host(rpc) = "incident"
  /\ \A rpc \in DOMAIN CmdbServicer : Host(rpc) = "cmdb"
  /\ \A rpc \in DOMAIN ChangeServiceImpl : Host(rpc) = "change"
  /\ \A rpc \in DOMAIN AuditServicer : Host(rpc) = "audit"
<1>1. /\ DOMAIN UserServicer = {"GetAllUsers", "CreateUser", "Login", "UpdateUserRole"}
      /\ DOMAIN CmdbServicer = {"CreateCI", "ListCIs", "GetRelatedCIs", "GetCIWithOwner",
                                "UpdateCI", "DeleteCI"}
      /\ DOMAIN ChangeServiceImpl = {"CreateChange", "GetChange", "ListChanges",
                                     "ApproveChange"}
      /\ DOMAIN AuditServicer = {"ListAuditEvents"}
  BY DEF UserServicer, CmdbServicer, ChangeServiceImpl, AuditServicer
<1>2. /\ DOMAIN IncidentServicer \cap DOMAIN UserServicer = {}
      /\ DOMAIN IncidentServicer \cap DOMAIN CmdbServicer = {}
      /\ DOMAIN IncidentServicer \cap DOMAIN ChangeServiceImpl = {}
      /\ DOMAIN IncidentServicer \cap DOMAIN AuditServicer = {}
  BY <1>1, IncidentRpcs DEF IncidentReads, IncidentWrites
<1>3. Services = {"user", "incident", "cmdb", "change", "audit"}
  BY DEF Services, grpc_servers
<1>4. /\ grpc_servers["user"] = UserServicer /\ grpc_servers["incident"] = IncidentServicer
      /\ grpc_servers["cmdb"] = CmdbServicer /\ grpc_servers["change"] = ChangeServiceImpl
      /\ grpc_servers["audit"] = AuditServicer
  BY DEF grpc_servers
<1>5. \A rpc \in DOMAIN UserServicer : Host(rpc) = "user"
  BY <1>1, <1>2, <1>3, <1>4 DEF Host
<1>6. \A rpc \in DOMAIN IncidentServicer : Host(rpc) = "incident"
  BY <1>2, <1>3, <1>4 DEF Host
<1>7. \A rpc \in DOMAIN CmdbServicer : Host(rpc) = "cmdb"
  BY <1>1, <1>2, <1>3, <1>4 DEF Host
<1>8. \A rpc \in DOMAIN ChangeServiceImpl : Host(rpc) = "change"
  BY <1>1, <1>2, <1>3, <1>4 DEF Host
<1>9. \A rpc \in DOMAIN AuditServicer : Host(rpc) = "audit"
  BY <1>1, <1>2, <1>3, <1>4 DEF Host
<1>10. QED
  BY <1>5, <1>6, <1>7, <1>8, <1>9

\* The calls there are.
LEMMA KnownRpcs ==
  RPCs = DOMAIN UserServicer \cup DOMAIN IncidentServicer \cup DOMAIN CmdbServicer
                          \cup DOMAIN ChangeServiceImpl \cup DOMAIN AuditServicer
<1>1. Services = {"user", "incident", "cmdb", "change", "audit"}
  BY DEF Services, grpc_servers
<1>2. /\ grpc_servers["user"] = UserServicer /\ grpc_servers["incident"] = IncidentServicer
      /\ grpc_servers["cmdb"] = CmdbServicer /\ grpc_servers["change"] = ChangeServiceImpl
      /\ grpc_servers["audit"] = AuditServicer
  BY DEF grpc_servers
<1>3. QED
  BY <1>1, <1>2 DEF RPCs

\* What the user client raises for a code.
LEMMA RaisedByUser ==
  \A rpc \in DOMAIN UserServicer : \A code :
    Raised(rpc, code) = IF code \in DOMAIN user_client[rpc] THEN user_client[rpc][code]
                        ELSE "UserServiceUnavailable"
  BY Hosts DEF Raised, grpc_clients, Unavailable

\* What the incident client raises for a code.
LEMMA RaisedByIncident ==
  \A rpc \in DOMAIN IncidentServicer : \A code :
    Raised(rpc, code) = IF code = "NOT_FOUND" THEN "IncidentNotFound"
                        ELSE IF code \in {"INVALID_ARGUMENT", "FAILED_PRECONDITION"}
                        THEN "InvalidIncidentInput"
                        ELSE "IncidentServiceUnavailable"
<1> TAKE rpc \in DOMAIN IncidentServicer
<1> TAKE code
<1>1. incident_client[rpc] = incident_call
  BY DEF incident_client
<1>2. Raised(rpc, code) = IF code \in DOMAIN incident_call THEN incident_call[code]
                          ELSE "IncidentServiceUnavailable"
  BY <1>1, Hosts DEF Raised, grpc_clients, Unavailable
<1>3. QED
  BY <1>2 DEF incident_call

\* What the CMDB client raises: only GetCIWithOwner has an exception of its own.
LEMMA RaisedByCmdb ==
  \A rpc \in DOMAIN CmdbServicer : \A code :
    Raised(rpc, code) = IF rpc = "GetCIWithOwner" /\ code = "NOT_FOUND" THEN "CINotFound"
                        ELSE "CmdbServiceUnavailable"
<1> TAKE rpc \in DOMAIN CmdbServicer
<1> TAKE code
<1>1. Raised(rpc, code) = IF code \in DOMAIN cmdb_client[rpc] THEN cmdb_client[rpc][code]
                          ELSE "CmdbServiceUnavailable"
  BY Hosts DEF Raised, grpc_clients, Unavailable
<1>2. QED
  BY <1>1 DEF cmdb_client

\* What the change client raises for a code.
LEMMA RaisedByChange ==
  \A rpc \in DOMAIN ChangeServiceImpl : \A code :
    Raised(rpc, code) = IF rpc \in {"GetChange", "ApproveChange"} /\ code = "NOT_FOUND"
                        THEN "ChangeNotFound"
                        ELSE IF rpc = "ApproveChange" /\ code = "FAILED_PRECONDITION"
                        THEN "InvalidChangeInput"
                        ELSE "ChangeServiceUnavailable"
<1> TAKE rpc \in DOMAIN ChangeServiceImpl
<1> TAKE code
<1>1. Raised(rpc, code) = IF code \in DOMAIN change_client[rpc] THEN change_client[rpc][code]
                          ELSE "ChangeServiceUnavailable"
  BY Hosts DEF Raised, grpc_clients, Unavailable
<1>2. QED
  BY <1>1 DEF change_client, ChangeServiceImpl

\* What the audit client raises: it knows of one exception.
LEMMA RaisedByAudit ==
  \A rpc \in DOMAIN AuditServicer : \A code :
    Raised(rpc, code) = "AuditServiceUnavailable"
<1> TAKE rpc \in DOMAIN AuditServicer
<1> TAKE code
<1>1. Raised(rpc, code) = IF code \in DOMAIN audit_client[rpc] THEN audit_client[rpc][code]
                          ELSE "AuditServiceUnavailable"
  BY Hosts DEF Raised, grpc_clients, Unavailable
<1>2. QED
  BY <1>1 DEF audit_client, AuditServicer

\* What a service refuses, by its own table.
LEMMA Refused ==
  /\ \A rpc \in DOMAIN UserServicer : Refusals(rpc) = UserServicer[rpc]
  /\ \A rpc \in DOMAIN IncidentServicer : Refusals(rpc) = IncidentServicer[rpc]
  /\ \A rpc \in DOMAIN CmdbServicer : Refusals(rpc) = CmdbServicer[rpc]
  /\ \A rpc \in DOMAIN ChangeServiceImpl : Refusals(rpc) = ChangeServiceImpl[rpc]
  /\ \A rpc \in DOMAIN AuditServicer : Refusals(rpc) = AuditServicer[rpc]
<1>1. /\ grpc_servers["user"] = UserServicer /\ grpc_servers["incident"] = IncidentServicer
      /\ grpc_servers["cmdb"] = CmdbServicer /\ grpc_servers["change"] = ChangeServiceImpl
      /\ grpc_servers["audit"] = AuditServicer
  BY DEF grpc_servers
<1>2. QED
  BY <1>1, Hosts DEF Refusals

-----------------------------------------------------------------------------
\* What a route calls after its first answers.
FollowUps(route) ==
  IF route = "link_change" THEN {"LinkChange"}
  ELSE IF route = "get_change" THEN {"GetIncidentIdsForChange", "GetIncident"}
  ELSE IF route = "get_linked_changes" THEN {"GetChange"}
  ELSE {}

\* The status of an exception in a row of the table.
Caught(row, exception) ==
  IF exception \in DOMAIN row.catches THEN row.catches[exception] ELSE 500

\* Everything a row names exists.
RowKnown(route, row) ==
  /\ row.roles \subseteq anybody
  /\ row.rpcs \cup FollowUps(route) \subseteq RPCs
  /\ \A e \in DOMAIN row.catches : row.catches[e] \in {400, 401, 403, 404, 409, 503}

\* Who may write may not only read, and what writes is asked for alone.
RowWrites(route, row) ==
  \A rpc \in row.rpcs \cup FollowUps(route) :
    /\ rpc \in writes =>
         /\ row.roles \subseteq manage \/ route = "create_user"
         /\ \/ \A other \in row.rpcs : other = rpc
            \/ route = "link_change" /\ rpc = "LinkChange"
    /\ "operator" \in row.roles /\ "viewer" \notin row.roles =>
         rpc \in writes \/ (route = "link_change" /\ rpc = "GetChange")

\* Every failure of what the route asks has a status of its own.
RowAnswers(route, row) ==
  \A rpc \in row.rpcs \cup FollowUps(route) :
    Skipped(route, rpc) \/
    /\ Caught(row, Unavailable[Host(rpc)]) = 503
    /\ \A code \in Refusals(rpc) :
         \/ Caught(row, Raised(rpc, code)) \in {400, 401, 403, 404, 409}
         \/ route \in {"update_ci", "delete_ci"} /\ Caught(row, Raised(rpc, code)) = 503

\* Which routes ask for what.
RowNames(route, row) ==
  \A rpc \in row.rpcs \cup FollowUps(route) :
    /\ rpc = "CreateIncident" => route = "create_incident"
    /\ rpc = "UpdateIncident" => route = "update_incident"
    /\ rpc = "AssignIncident" => route = "assign_incident"
    /\ rpc = "DeleteIncident" => route = "delete_incident"
    /\ rpc = "LinkChange" => route = "link_change"
    /\ rpc = "UnlinkChange" => route = "unlink_change"
    /\ rpc = "CreateCI" => route = "create_ci"
    /\ rpc = "UpdateCI" => route = "update_ci"
    /\ rpc = "DeleteCI" => route = "delete_ci"
    /\ rpc = "CreateChange" => route = "create_change"
    /\ rpc = "CreateUser" => route = "create_user"
    /\ rpc = "UpdateUserRole" => route = "update_user_role"
    /\ rpc = "GetCIWithOwner" => route = "get_ci"
    /\ rpc = "GetIncident" => route = "get_change"
    /\ rpc = "GetIncidentIdsForChange" => route = "get_change"
    /\ rpc = "GetLinkedChangeIds" => route = "get_linked_changes"
    /\ rpc = "GetChange" => route \in {"link_change", "get_change", "get_linked_changes"}
    /\ rpc = "ListIncidents" => route \in {"list_incidents", "get_ci"}

\* A row without a mistake.
RowRight(route, row) ==
  /\ RowKnown(route, row) /\ RowWrites(route, row)
  /\ RowNames(route, row) /\ RowAnswers(route, row)

\* The calls that write, one by one.
LEMMA Writes ==
  writes = {"CreateIncident", "AddIncidentUpdate", "AcceptSuggestedSeverity",
            "AcceptSuggestedStatus", "UpdateIncident", "UpdateIncidentStatus",
            "UpdateIncidentSeverity", "AssignIncident", "LinkChange", "UnlinkChange",
            "DeleteIncident", "CreateUser", "UpdateUserRole", "CreateCI", "UpdateCI",
            "DeleteCI", "CreateChange", "ApproveChange"}
  BY DEF writes, IncidentWrites

\* The calls of the User Service: what they refuse and what is raised for it.
LEMMA UserServicerFacts ==
  /\ \A rpc \in {"GetAllUsers", "CreateUser", "Login", "UpdateUserRole"} :
       /\ Unavailable[Host(rpc)] = "UserServiceUnavailable"
       /\ Raised(rpc, "UNAVAILABLE") = "UserServiceUnavailable"
       /\ Raised(rpc, "UNKNOWN") = "UserServiceUnavailable"
  /\ Refusals("GetAllUsers") = {}
  /\ Refusals("CreateUser") = {"ALREADY_EXISTS"}
  /\ Raised("CreateUser", "ALREADY_EXISTS") = "EmailAlreadyExists"
  /\ Refusals("Login") = {"UNAUTHENTICATED"}
  /\ Raised("Login", "UNAUTHENTICATED") = "InvalidCredentials"
  /\ Refusals("UpdateUserRole") = {"INVALID_ARGUMENT", "PERMISSION_DENIED", "NOT_FOUND"}
  /\ Raised("UpdateUserRole", "INVALID_ARGUMENT") = "InvalidRole"
  /\ Raised("UpdateUserRole", "PERMISSION_DENIED") = "RoleUpdateForbidden"
  /\ Raised("UpdateUserRole", "NOT_FOUND") = "RoleNotFound"
  BY Refused, Hosts, RaisedByUser DEF Unavailable, UserServicer, user_client

\* The same of the calls of the Incident Service that read.
LEMMA IncidentReadsFacts ==
  /\ \A rpc \in {"GetIncident", "ListIncidents", "GetIncidentWithCI", "GetIncidentUpdates",
                 "GetLinkedChangeIds", "GetIncidentIdsForChange"} :
       /\ Unavailable[Host(rpc)] = "IncidentServiceUnavailable"
       /\ Raised(rpc, "UNAVAILABLE") = "IncidentServiceUnavailable"
       /\ Raised(rpc, "UNKNOWN") = "IncidentServiceUnavailable"
  /\ Refusals("GetIncident") = {"NOT_FOUND"}
  /\ Raised("GetIncident", "NOT_FOUND") = "IncidentNotFound"
  /\ Refusals("ListIncidents") = {}
  /\ Refusals("GetIncidentWithCI") = {"NOT_FOUND"}
  /\ Raised("GetIncidentWithCI", "NOT_FOUND") = "IncidentNotFound"
  /\ Refusals("GetIncidentUpdates") = {}
  /\ Refusals("GetLinkedChangeIds") = {}
  /\ Refusals("GetIncidentIdsForChange") = {}
  BY Refused, Hosts, RaisedByIncident, IncidentRpcs DEF Unavailable, IncidentReads

\* The same of the calls of the Incident Service that write.
LEMMA IncidentWritesFacts ==
  /\ \A rpc \in {"CreateIncident", "AddIncidentUpdate", "AcceptSuggestedSeverity",
                 "AcceptSuggestedStatus", "UpdateIncident", "UpdateIncidentStatus",
                   "UpdateIncidentSeverity", "AssignIncident", "LinkChange", "UnlinkChange",
                     "DeleteIncident"} :
       /\ Unavailable[Host(rpc)] = "IncidentServiceUnavailable"
       /\ Raised(rpc, "UNAVAILABLE") = "IncidentServiceUnavailable"
       /\ Raised(rpc, "UNKNOWN") = "IncidentServiceUnavailable"
  /\ Refusals("CreateIncident") = {"INVALID_ARGUMENT"}
  /\ Raised("CreateIncident", "INVALID_ARGUMENT") = "InvalidIncidentInput"
  /\ Refusals("AddIncidentUpdate") = {"NOT_FOUND"}
  /\ Raised("AddIncidentUpdate", "NOT_FOUND") = "IncidentNotFound"
  /\ Refusals("AcceptSuggestedSeverity") = {"NOT_FOUND", "FAILED_PRECONDITION"}
  /\ Raised("AcceptSuggestedSeverity", "NOT_FOUND") = "IncidentNotFound"
  /\ Raised("AcceptSuggestedSeverity", "FAILED_PRECONDITION") = "InvalidIncidentInput"
  /\ Refusals("AcceptSuggestedStatus") = {"NOT_FOUND", "FAILED_PRECONDITION"}
  /\ Raised("AcceptSuggestedStatus", "NOT_FOUND") = "IncidentNotFound"
  /\ Raised("AcceptSuggestedStatus", "FAILED_PRECONDITION") = "InvalidIncidentInput"
  /\ Refusals("UpdateIncident") = {"INVALID_ARGUMENT", "NOT_FOUND"}
  /\ Raised("UpdateIncident", "INVALID_ARGUMENT") = "InvalidIncidentInput"
  /\ Raised("UpdateIncident", "NOT_FOUND") = "IncidentNotFound"
  /\ Refusals("UpdateIncidentStatus") = {"NOT_FOUND", "FAILED_PRECONDITION"}
  /\ Raised("UpdateIncidentStatus", "NOT_FOUND") = "IncidentNotFound"
  /\ Raised("UpdateIncidentStatus", "FAILED_PRECONDITION") = "InvalidIncidentInput"
  /\ Refusals("UpdateIncidentSeverity") = {"INVALID_ARGUMENT", "NOT_FOUND"}
  /\ Raised("UpdateIncidentSeverity", "INVALID_ARGUMENT") = "InvalidIncidentInput"
  /\ Raised("UpdateIncidentSeverity", "NOT_FOUND") = "IncidentNotFound"
  /\ Refusals("AssignIncident") = {"NOT_FOUND"}
  /\ Raised("AssignIncident", "NOT_FOUND") = "IncidentNotFound"
  /\ Refusals("LinkChange") = {"NOT_FOUND"}
  /\ Raised("LinkChange", "NOT_FOUND") = "IncidentNotFound"
  /\ Refusals("UnlinkChange") = {}
  /\ Refusals("DeleteIncident") = {"NOT_FOUND"}
  /\ Raised("DeleteIncident", "NOT_FOUND") = "IncidentNotFound"
  BY Refused, Hosts, RaisedByIncident, IncidentRpcs DEF Unavailable, IncidentWrites

\* The same of the calls of CMDB.
LEMMA CmdbServicerFacts ==
  /\ \A rpc \in {"CreateCI", "ListCIs", "GetRelatedCIs", "GetCIWithOwner", "UpdateCI",
                 "DeleteCI"} :
       /\ Unavailable[Host(rpc)] = "CmdbServiceUnavailable"
       /\ Raised(rpc, "UNAVAILABLE") = "CmdbServiceUnavailable"
       /\ Raised(rpc, "UNKNOWN") = "CmdbServiceUnavailable"
  /\ Refusals("CreateCI") = {}
  /\ Refusals("ListCIs") = {}
  /\ Refusals("GetRelatedCIs") = {}
  /\ Refusals("GetCIWithOwner") = {"NOT_FOUND"}
  /\ Raised("GetCIWithOwner", "NOT_FOUND") = "CINotFound"
  /\ Refusals("UpdateCI") = {"NOT_FOUND"}
  /\ Raised("UpdateCI", "NOT_FOUND") = "CmdbServiceUnavailable"
  /\ Refusals("DeleteCI") = {"NOT_FOUND"}
  /\ Raised("DeleteCI", "NOT_FOUND") = "CmdbServiceUnavailable"
  BY Refused, Hosts, RaisedByCmdb DEF Unavailable, CmdbServicer

\* The same of the calls of the Change Service.
LEMMA ChangeServiceImplFacts ==
  /\ \A rpc \in {"CreateChange", "GetChange", "ListChanges", "ApproveChange"} :
       /\ Unavailable[Host(rpc)] = "ChangeServiceUnavailable"
       /\ Raised(rpc, "UNAVAILABLE") = "ChangeServiceUnavailable"
       /\ Raised(rpc, "UNKNOWN") = "ChangeServiceUnavailable"
  /\ Refusals("CreateChange") = {}
  /\ Refusals("GetChange") = {"NOT_FOUND"}
  /\ Raised("GetChange", "NOT_FOUND") = "ChangeNotFound"
  /\ Refusals("ListChanges") = {}
  /\ Refusals("ApproveChange") = {"NOT_FOUND", "FAILED_PRECONDITION"}
  /\ Raised("ApproveChange", "NOT_FOUND") = "ChangeNotFound"
  /\ Raised("ApproveChange", "FAILED_PRECONDITION") = "InvalidChangeInput"
  BY Refused, Hosts, RaisedByChange DEF Unavailable, ChangeServiceImpl

\* The same of the one call of the Audit Service that a route makes.
LEMMA AuditServicerFacts ==
  /\ \A rpc \in {"ListAuditEvents"} :
       /\ Unavailable[Host(rpc)] = "AuditServiceUnavailable"
       /\ Raised(rpc, "UNAVAILABLE") = "AuditServiceUnavailable"
       /\ Raised(rpc, "UNKNOWN") = "AuditServiceUnavailable"
  /\ Refusals("ListAuditEvents") = {}
  BY Refused, Hosts, RaisedByAudit DEF Unavailable, AuditServicer

\* The names of the calls.
LEMMA AllRpcs ==
  RPCs = {"GetAllUsers", "CreateUser", "Login", "UpdateUserRole", "GetIncident",
          "ListIncidents", "GetIncidentWithCI", "GetIncidentUpdates", "GetLinkedChangeIds",
          "GetIncidentIdsForChange", "CreateIncident", "AddIncidentUpdate",
          "AcceptSuggestedSeverity", "AcceptSuggestedStatus", "UpdateIncident",
          "UpdateIncidentStatus", "UpdateIncidentSeverity", "AssignIncident", "LinkChange",
          "UnlinkChange", "DeleteIncident", "CreateCI", "ListCIs", "GetRelatedCIs",
          "GetCIWithOwner", "UpdateCI", "DeleteCI", "CreateChange", "GetChange",
          "ListChanges", "ApproveChange", "ListAuditEvents"}
  BY KnownRpcs, IncidentRpcs
  DEF UserServicer, IncidentReads, IncidentWrites, CmdbServicer, ChangeServiceImpl,
      AuditServicer

\* The routes of users.py and login.py are right.
LEMMA UserRoutesRight == \A route \in DOMAIN UserRoutes : RowRight(route, UserRoutes[route])
<1>1. RowRight("list_users", UserRoutes["list_users"])
  <2>1. UserRoutes["list_users"] =
          Route(get_current_user, {"GetAllUsers"}, [UserServiceUnavailable |-> 503])
    BY DEF UserRoutes
  <2>2. RowKnown("list_users", UserRoutes["list_users"])
    BY <2>1, AllRpcs DEF RowKnown, Route, FollowUps, get_current_user, anybody, Roles
  <2>3. RowWrites("list_users", UserRoutes["list_users"])
    BY <2>1, Writes DEF RowWrites, Route, FollowUps, get_current_user, manage, Roles
  <2>4. RowAnswers("list_users", UserRoutes["list_users"])
    BY <2>1, UserServicerFacts DEF RowAnswers, Route, FollowUps, Caught, Skipped
  <2>5. RowNames("list_users", UserRoutes["list_users"])
    BY <2>1 DEF RowNames, Route, FollowUps
  <2>6. QED
    BY <2>2, <2>3, <2>4, <2>5 DEF RowRight
<1>2. RowRight("create_user", UserRoutes["create_user"])
  <2>1. UserRoutes["create_user"] =
          Route(anybody, {"CreateUser"},
            [EmailAlreadyExists |-> 409, UserServiceUnavailable |-> 503])
    BY DEF UserRoutes
  <2>2. RowKnown("create_user", UserRoutes["create_user"])
    BY <2>1, AllRpcs DEF RowKnown, Route, FollowUps, anybody, anybody, Roles
  <2>3. RowWrites("create_user", UserRoutes["create_user"])
    BY <2>1, Writes DEF RowWrites, Route, FollowUps, anybody, manage, Roles
  <2>4. RowAnswers("create_user", UserRoutes["create_user"])
    BY <2>1, UserServicerFacts DEF RowAnswers, Route, FollowUps, Caught, Skipped
  <2>5. RowNames("create_user", UserRoutes["create_user"])
    BY <2>1 DEF RowNames, Route, FollowUps
  <2>6. QED
    BY <2>2, <2>3, <2>4, <2>5 DEF RowRight
<1>3. RowRight("update_user_role", UserRoutes["update_user_role"])
  <2>1. UserRoutes["update_user_role"] =
          Route(admin_only, {"UpdateUserRole"},
            [RoleNotFound |-> 404, InvalidRole |-> 400, RoleUpdateForbidden |-> 403,
             UserServiceUnavailable |-> 503])
    BY DEF UserRoutes
  <2>2. RowKnown("update_user_role", UserRoutes["update_user_role"])
    BY <2>1, AllRpcs DEF RowKnown, Route, FollowUps, admin_only, anybody, Roles
  <2>3. RowWrites("update_user_role", UserRoutes["update_user_role"])
    BY <2>1, Writes DEF RowWrites, Route, FollowUps, admin_only, manage, Roles
  <2>4. RowAnswers("update_user_role", UserRoutes["update_user_role"])
    BY <2>1, UserServicerFacts DEF RowAnswers, Route, FollowUps, Caught, Skipped
  <2>5. RowNames("update_user_role", UserRoutes["update_user_role"])
    BY <2>1 DEF RowNames, Route, FollowUps
  <2>6. QED
    BY <2>2, <2>3, <2>4, <2>5 DEF RowRight
<1>4. RowRight("login", UserRoutes["login"])
  <2>1. UserRoutes["login"] =
          Route(anybody, {"Login"}, [InvalidCredentials |-> 401,
                                     UserServiceUnavailable |-> 503])
    BY DEF UserRoutes
  <2>2. RowKnown("login", UserRoutes["login"])
    BY <2>1, AllRpcs DEF RowKnown, Route, FollowUps, anybody, anybody, Roles
  <2>3. RowWrites("login", UserRoutes["login"])
    BY <2>1, Writes DEF RowWrites, Route, FollowUps, anybody, manage, Roles
  <2>4. RowAnswers("login", UserRoutes["login"])
    BY <2>1, UserServicerFacts DEF RowAnswers, Route, FollowUps, Caught, Skipped
  <2>5. RowNames("login", UserRoutes["login"])
    BY <2>1 DEF RowNames, Route, FollowUps
  <2>6. QED
    BY <2>2, <2>3, <2>4, <2>5 DEF RowRight
<1>5. QED
  BY <1>1, <1>2, <1>3, <1>4 DEF UserRoutes

\* The routes that create and change incidents are right.
LEMMA IncidentRoutesRight ==
  \A route \in DOMAIN IncidentRoutes : RowRight(route, IncidentRoutes[route])
<1>1. RowRight("list_incidents", IncidentRoutes["list_incidents"])
  <2>1. IncidentRoutes["list_incidents"] =
          Route(get_current_user, {"ListIncidents"}, [IncidentServiceUnavailable |-> 503])
    BY DEF IncidentRoutes
  <2>2. RowKnown("list_incidents", IncidentRoutes["list_incidents"])
    BY <2>1, AllRpcs DEF RowKnown, Route, FollowUps, get_current_user, anybody, Roles
  <2>3. RowWrites("list_incidents", IncidentRoutes["list_incidents"])
    BY <2>1, Writes DEF RowWrites, Route, FollowUps, get_current_user, manage, Roles
  <2>4. RowAnswers("list_incidents", IncidentRoutes["list_incidents"])
    BY <2>1, IncidentReadsFacts DEF RowAnswers, Route, FollowUps, Caught, Skipped
  <2>5. RowNames("list_incidents", IncidentRoutes["list_incidents"])
    BY <2>1 DEF RowNames, Route, FollowUps
  <2>6. QED
    BY <2>2, <2>3, <2>4, <2>5 DEF RowRight
<1>2. RowRight("get_incident", IncidentRoutes["get_incident"])
  <2>1. IncidentRoutes["get_incident"] =
          Route(get_current_user, {"GetIncidentWithCI"}, incident_errors)
    BY DEF IncidentRoutes
  <2>2. RowKnown("get_incident", IncidentRoutes["get_incident"])
    BY <2>1, AllRpcs
    DEF RowKnown, Route, FollowUps, get_current_user, anybody, Roles, incident_errors
  <2>3. RowWrites("get_incident", IncidentRoutes["get_incident"])
    BY <2>1, Writes DEF RowWrites, Route, FollowUps, get_current_user, manage, Roles
  <2>4. RowAnswers("get_incident", IncidentRoutes["get_incident"])
    BY <2>1, IncidentReadsFacts
    DEF RowAnswers, Route, FollowUps, Caught, Skipped, incident_errors
  <2>5. RowNames("get_incident", IncidentRoutes["get_incident"])
    BY <2>1 DEF RowNames, Route, FollowUps
  <2>6. QED
    BY <2>2, <2>3, <2>4, <2>5 DEF RowRight
<1>3. RowRight("create_incident", IncidentRoutes["create_incident"])
  <2>1. IncidentRoutes["create_incident"] =
          Route(manage, {"CreateIncident"},
            [InvalidIncidentInput |-> 400, IncidentServiceUnavailable |-> 503])
    BY DEF IncidentRoutes
  <2>2. RowKnown("create_incident", IncidentRoutes["create_incident"])
    BY <2>1, AllRpcs DEF RowKnown, Route, FollowUps, manage, anybody, Roles
  <2>3. RowWrites("create_incident", IncidentRoutes["create_incident"])
    BY <2>1, Writes DEF RowWrites, Route, FollowUps, manage, manage, Roles
  <2>4. RowAnswers("create_incident", IncidentRoutes["create_incident"])
    BY <2>1, IncidentWritesFacts DEF RowAnswers, Route, FollowUps, Caught, Skipped
  <2>5. RowNames("create_incident", IncidentRoutes["create_incident"])
    BY <2>1 DEF RowNames, Route, FollowUps
  <2>6. QED
    BY <2>2, <2>3, <2>4, <2>5 DEF RowRight
<1>4. RowRight("add_incident_update", IncidentRoutes["add_incident_update"])
  <2>1. IncidentRoutes["add_incident_update"] =
          Route(manage, {"AddIncidentUpdate"}, incident_errors)
    BY DEF IncidentRoutes
  <2>2. RowKnown("add_incident_update", IncidentRoutes["add_incident_update"])
    BY <2>1, AllRpcs DEF RowKnown, Route, FollowUps, manage, anybody, Roles, incident_errors
  <2>3. RowWrites("add_incident_update", IncidentRoutes["add_incident_update"])
    BY <2>1, Writes DEF RowWrites, Route, FollowUps, manage, manage, Roles
  <2>4. RowAnswers("add_incident_update", IncidentRoutes["add_incident_update"])
    BY <2>1, IncidentWritesFacts
    DEF RowAnswers, Route, FollowUps, Caught, Skipped, incident_errors
  <2>5. RowNames("add_incident_update", IncidentRoutes["add_incident_update"])
    BY <2>1 DEF RowNames, Route, FollowUps
  <2>6. QED
    BY <2>2, <2>3, <2>4, <2>5 DEF RowRight
<1>5. RowRight("list_incident_updates", IncidentRoutes["list_incident_updates"])
  <2>1. IncidentRoutes["list_incident_updates"] =
          Route(get_current_user, {"GetIncidentUpdates"}, [IncidentServiceUnavailable |-> 503])
    BY DEF IncidentRoutes
  <2>2. RowKnown("list_incident_updates", IncidentRoutes["list_incident_updates"])
    BY <2>1, AllRpcs DEF RowKnown, Route, FollowUps, get_current_user, anybody, Roles
  <2>3. RowWrites("list_incident_updates", IncidentRoutes["list_incident_updates"])
    BY <2>1, Writes DEF RowWrites, Route, FollowUps, get_current_user, manage, Roles
  <2>4. RowAnswers("list_incident_updates", IncidentRoutes["list_incident_updates"])
    BY <2>1, IncidentReadsFacts DEF RowAnswers, Route, FollowUps, Caught, Skipped
  <2>5. RowNames("list_incident_updates", IncidentRoutes["list_incident_updates"])
    BY <2>1 DEF RowNames, Route, FollowUps
  <2>6. QED
    BY <2>2, <2>3, <2>4, <2>5 DEF RowRight
<1>6. QED
  BY <1>1, <1>2, <1>3, <1>4, <1>5 DEF IncidentRoutes

\* The routes that edit one field of an incident are right.
LEMMA EditRoutesRight == \A route \in DOMAIN EditRoutes : RowRight(route, EditRoutes[route])
<1>1. RowRight("accept_incident_severity", EditRoutes["accept_incident_severity"])
  <2>1. EditRoutes["accept_incident_severity"] =
          Route(manage, {"AcceptSuggestedSeverity"}, or_invalid(409))
    BY DEF EditRoutes
  <2>2. RowKnown("accept_incident_severity", EditRoutes["accept_incident_severity"])
    BY <2>1, AllRpcs
    DEF RowKnown, Route, FollowUps, manage, anybody, Roles, incident_errors, or_invalid, Join
  <2>3. RowWrites("accept_incident_severity", EditRoutes["accept_incident_severity"])
    BY <2>1, Writes DEF RowWrites, Route, FollowUps, manage, manage, Roles
  <2>4. RowAnswers("accept_incident_severity", EditRoutes["accept_incident_severity"])
    BY <2>1, IncidentWritesFacts
    DEF RowAnswers, Route, FollowUps, Caught, Skipped, incident_errors, or_invalid, Join
  <2>5. RowNames("accept_incident_severity", EditRoutes["accept_incident_severity"])
    BY <2>1 DEF RowNames, Route, FollowUps
  <2>6. QED
    BY <2>2, <2>3, <2>4, <2>5 DEF RowRight
<1>2. RowRight("accept_incident_status", EditRoutes["accept_incident_status"])
  <2>1. EditRoutes["accept_incident_status"] =
          Route(manage, {"AcceptSuggestedStatus"}, or_invalid(409))
    BY DEF EditRoutes
  <2>2. RowKnown("accept_incident_status", EditRoutes["accept_incident_status"])
    BY <2>1, AllRpcs
    DEF RowKnown, Route, FollowUps, manage, anybody, Roles, incident_errors, or_invalid, Join
  <2>3. RowWrites("accept_incident_status", EditRoutes["accept_incident_status"])
    BY <2>1, Writes DEF RowWrites, Route, FollowUps, manage, manage, Roles
  <2>4. RowAnswers("accept_incident_status", EditRoutes["accept_incident_status"])
    BY <2>1, IncidentWritesFacts
    DEF RowAnswers, Route, FollowUps, Caught, Skipped, incident_errors, or_invalid, Join
  <2>5. RowNames("accept_incident_status", EditRoutes["accept_incident_status"])
    BY <2>1 DEF RowNames, Route, FollowUps
  <2>6. QED
    BY <2>2, <2>3, <2>4, <2>5 DEF RowRight
<1>3. RowRight("update_incident", EditRoutes["update_incident"])
  <2>1. EditRoutes["update_incident"] = Route(manage, {"UpdateIncident"}, or_invalid(400))
    BY DEF EditRoutes
  <2>2. RowKnown("update_incident", EditRoutes["update_incident"])
    BY <2>1, AllRpcs
    DEF RowKnown, Route, FollowUps, manage, anybody, Roles, incident_errors, or_invalid, Join
  <2>3. RowWrites("update_incident", EditRoutes["update_incident"])
    BY <2>1, Writes DEF RowWrites, Route, FollowUps, manage, manage, Roles
  <2>4. RowAnswers("update_incident", EditRoutes["update_incident"])
    BY <2>1, IncidentWritesFacts
    DEF RowAnswers, Route, FollowUps, Caught, Skipped, incident_errors, or_invalid, Join
  <2>5. RowNames("update_incident", EditRoutes["update_incident"])
    BY <2>1 DEF RowNames, Route, FollowUps
  <2>6. QED
    BY <2>2, <2>3, <2>4, <2>5 DEF RowRight
<1>4. RowRight("update_incident_status", EditRoutes["update_incident_status"])
  <2>1. EditRoutes["update_incident_status"] =
          Route(manage, {"UpdateIncidentStatus"}, or_invalid(409))
    BY DEF EditRoutes
  <2>2. RowKnown("update_incident_status", EditRoutes["update_incident_status"])
    BY <2>1, AllRpcs
    DEF RowKnown, Route, FollowUps, manage, anybody, Roles, incident_errors, or_invalid, Join
  <2>3. RowWrites("update_incident_status", EditRoutes["update_incident_status"])
    BY <2>1, Writes DEF RowWrites, Route, FollowUps, manage, manage, Roles
  <2>4. RowAnswers("update_incident_status", EditRoutes["update_incident_status"])
    BY <2>1, IncidentWritesFacts
    DEF RowAnswers, Route, FollowUps, Caught, Skipped, incident_errors, or_invalid, Join
  <2>5. RowNames("update_incident_status", EditRoutes["update_incident_status"])
    BY <2>1 DEF RowNames, Route, FollowUps
  <2>6. QED
    BY <2>2, <2>3, <2>4, <2>5 DEF RowRight
<1>5. RowRight("update_incident_severity", EditRoutes["update_incident_severity"])
  <2>1. EditRoutes["update_incident_severity"] =
          Route(manage, {"UpdateIncidentSeverity"}, or_invalid(400))
    BY DEF EditRoutes
  <2>2. RowKnown("update_incident_severity", EditRoutes["update_incident_severity"])
    BY <2>1, AllRpcs
    DEF RowKnown, Route, FollowUps, manage, anybody, Roles, incident_errors, or_invalid, Join
  <2>3. RowWrites("update_incident_severity", EditRoutes["update_incident_severity"])
    BY <2>1, Writes DEF RowWrites, Route, FollowUps, manage, manage, Roles
  <2>4. RowAnswers("update_incident_severity", EditRoutes["update_incident_severity"])
    BY <2>1, IncidentWritesFacts
    DEF RowAnswers, Route, FollowUps, Caught, Skipped, incident_errors, or_invalid, Join
  <2>5. RowNames("update_incident_severity", EditRoutes["update_incident_severity"])
    BY <2>1 DEF RowNames, Route, FollowUps
  <2>6. QED
    BY <2>2, <2>3, <2>4, <2>5 DEF RowRight
<1>6. RowRight("assign_incident", EditRoutes["assign_incident"])
  <2>1. EditRoutes["assign_incident"] = Route(manage, {"AssignIncident"}, or_invalid(400))
    BY DEF EditRoutes
  <2>2. RowKnown("assign_incident", EditRoutes["assign_incident"])
    BY <2>1, AllRpcs
    DEF RowKnown, Route, FollowUps, manage, anybody, Roles, incident_errors, or_invalid, Join
  <2>3. RowWrites("assign_incident", EditRoutes["assign_incident"])
    BY <2>1, Writes DEF RowWrites, Route, FollowUps, manage, manage, Roles
  <2>4. RowAnswers("assign_incident", EditRoutes["assign_incident"])
    BY <2>1, IncidentWritesFacts
    DEF RowAnswers, Route, FollowUps, Caught, Skipped, incident_errors, or_invalid, Join
  <2>5. RowNames("assign_incident", EditRoutes["assign_incident"])
    BY <2>1 DEF RowNames, Route, FollowUps
  <2>6. QED
    BY <2>2, <2>3, <2>4, <2>5 DEF RowRight
<1>7. QED
  BY <1>1, <1>2, <1>3, <1>4, <1>5, <1>6 DEF EditRoutes

\* The routes of linked changes are right.
LEMMA LinkRoutesRight == \A route \in DOMAIN LinkRoutes : RowRight(route, LinkRoutes[route])
<1>1. RowRight("get_linked_changes", LinkRoutes["get_linked_changes"])
  <2>1. LinkRoutes["get_linked_changes"] =
          Route(get_current_user, {"GetLinkedChangeIds"}, [IncidentServiceUnavailable |-> 503])
    BY DEF LinkRoutes
  <2>2. RowKnown("get_linked_changes", LinkRoutes["get_linked_changes"])
    BY <2>1, AllRpcs DEF RowKnown, Route, FollowUps, get_current_user, anybody, Roles
  <2>3. RowWrites("get_linked_changes", LinkRoutes["get_linked_changes"])
    BY <2>1, Writes DEF RowWrites, Route, FollowUps, get_current_user, manage, Roles
  <2>4. RowAnswers("get_linked_changes", LinkRoutes["get_linked_changes"])
    BY <2>1, ChangeServiceImplFacts, IncidentReadsFacts
    DEF RowAnswers, Route, FollowUps, Caught, Skipped
  <2>5. RowNames("get_linked_changes", LinkRoutes["get_linked_changes"])
    BY <2>1 DEF RowNames, Route, FollowUps
  <2>6. QED
    BY <2>2, <2>3, <2>4, <2>5 DEF RowRight
<1>2. RowRight("link_change", LinkRoutes["link_change"])
  <2>1. LinkRoutes["link_change"] =
          Route(manage, {"GetChange"}, Join(incident_errors,
            [ChangeNotFound |-> 404, ChangeServiceUnavailable |-> 503]))
    BY DEF LinkRoutes
  <2>2. RowKnown("link_change", LinkRoutes["link_change"])
    BY <2>1, AllRpcs
    DEF RowKnown, Route, FollowUps, manage, anybody, Roles, incident_errors, Join
  <2>3. RowWrites("link_change", LinkRoutes["link_change"])
    BY <2>1, Writes DEF RowWrites, Route, FollowUps, manage, manage, Roles
  <2>4. RowAnswers("link_change", LinkRoutes["link_change"])
    BY <2>1, ChangeServiceImplFacts, IncidentWritesFacts
    DEF RowAnswers, Route, FollowUps, Caught, Skipped, incident_errors, Join
  <2>5. RowNames("link_change", LinkRoutes["link_change"])
    BY <2>1 DEF RowNames, Route, FollowUps
  <2>6. QED
    BY <2>2, <2>3, <2>4, <2>5 DEF RowRight
<1>3. RowRight("unlink_change", LinkRoutes["unlink_change"])
  <2>1. LinkRoutes["unlink_change"] =
          Route(manage, {"UnlinkChange"}, [IncidentServiceUnavailable |-> 503])
    BY DEF LinkRoutes
  <2>2. RowKnown("unlink_change", LinkRoutes["unlink_change"])
    BY <2>1, AllRpcs DEF RowKnown, Route, FollowUps, manage, anybody, Roles
  <2>3. RowWrites("unlink_change", LinkRoutes["unlink_change"])
    BY <2>1, Writes DEF RowWrites, Route, FollowUps, manage, manage, Roles
  <2>4. RowAnswers("unlink_change", LinkRoutes["unlink_change"])
    BY <2>1, IncidentWritesFacts DEF RowAnswers, Route, FollowUps, Caught, Skipped
  <2>5. RowNames("unlink_change", LinkRoutes["unlink_change"])
    BY <2>1 DEF RowNames, Route, FollowUps
  <2>6. QED
    BY <2>2, <2>3, <2>4, <2>5 DEF RowRight
<1>4. RowRight("delete_incident", LinkRoutes["delete_incident"])
  <2>1. LinkRoutes["delete_incident"] = Route(manage, {"DeleteIncident"}, incident_errors)
    BY DEF LinkRoutes
  <2>2. RowKnown("delete_incident", LinkRoutes["delete_incident"])
    BY <2>1, AllRpcs DEF RowKnown, Route, FollowUps, manage, anybody, Roles, incident_errors
  <2>3. RowWrites("delete_incident", LinkRoutes["delete_incident"])
    BY <2>1, Writes DEF RowWrites, Route, FollowUps, manage, manage, Roles
  <2>4. RowAnswers("delete_incident", LinkRoutes["delete_incident"])
    BY <2>1, IncidentWritesFacts
    DEF RowAnswers, Route, FollowUps, Caught, Skipped, incident_errors
  <2>5. RowNames("delete_incident", LinkRoutes["delete_incident"])
    BY <2>1 DEF RowNames, Route, FollowUps
  <2>6. QED
    BY <2>2, <2>3, <2>4, <2>5 DEF RowRight
<1>5. QED
  BY <1>1, <1>2, <1>3, <1>4 DEF LinkRoutes

\* The routes of CIs are right.
LEMMA CiRoutesRight == \A route \in DOMAIN CiRoutes : RowRight(route, CiRoutes[route])
<1>1. RowRight("list_cis", CiRoutes["list_cis"])
  <2>1. CiRoutes["list_cis"] =
          Route(get_current_user, {"ListCIs"}, [CmdbServiceUnavailable |-> 503])
    BY DEF CiRoutes
  <2>2. RowKnown("list_cis", CiRoutes["list_cis"])
    BY <2>1, AllRpcs DEF RowKnown, Route, FollowUps, get_current_user, anybody, Roles
  <2>3. RowWrites("list_cis", CiRoutes["list_cis"])
    BY <2>1, Writes DEF RowWrites, Route, FollowUps, get_current_user, manage, Roles
  <2>4. RowAnswers("list_cis", CiRoutes["list_cis"])
    BY <2>1, CmdbServicerFacts DEF RowAnswers, Route, FollowUps, Caught, Skipped
  <2>5. RowNames("list_cis", CiRoutes["list_cis"])
    BY <2>1 DEF RowNames, Route, FollowUps
  <2>6. QED
    BY <2>2, <2>3, <2>4, <2>5 DEF RowRight
<1>2. RowRight("get_ci", CiRoutes["get_ci"])
  <2>1. CiRoutes["get_ci"] =
          Route(get_current_user, {"GetCIWithOwner", "GetRelatedCIs", "ListIncidents",
                                   "ListChanges", "ListAuditEvents"},
            [CINotFound |-> 404, CmdbServiceUnavailable |-> 503,
             IncidentServiceUnavailable |-> 503, ChangeServiceUnavailable |-> 503,
               AuditServiceUnavailable |-> 503])
    BY DEF CiRoutes
  <2>2. RowKnown("get_ci", CiRoutes["get_ci"])
    BY <2>1, AllRpcs DEF RowKnown, Route, FollowUps, get_current_user, anybody, Roles
  <2>3. RowWrites("get_ci", CiRoutes["get_ci"])
    BY <2>1, Writes DEF RowWrites, Route, FollowUps, get_current_user, manage, Roles
  <2>4. RowAnswers("get_ci", CiRoutes["get_ci"])
    BY <2>1, AuditServicerFacts, ChangeServiceImplFacts, CmdbServicerFacts, IncidentReadsFacts
    DEF RowAnswers, Route, FollowUps, Caught, Skipped
  <2>5. RowNames("get_ci", CiRoutes["get_ci"])
    BY <2>1 DEF RowNames, Route, FollowUps
  <2>6. QED
    BY <2>2, <2>3, <2>4, <2>5 DEF RowRight
<1>3. RowRight("create_ci", CiRoutes["create_ci"])
  <2>1. CiRoutes["create_ci"] = Route(manage, {"CreateCI"}, [CmdbServiceUnavailable |-> 503])
    BY DEF CiRoutes
  <2>2. RowKnown("create_ci", CiRoutes["create_ci"])
    BY <2>1, AllRpcs DEF RowKnown, Route, FollowUps, manage, anybody, Roles
  <2>3. RowWrites("create_ci", CiRoutes["create_ci"])
    BY <2>1, Writes DEF RowWrites, Route, FollowUps, manage, manage, Roles
  <2>4. RowAnswers("create_ci", CiRoutes["create_ci"])
    BY <2>1, CmdbServicerFacts DEF RowAnswers, Route, FollowUps, Caught, Skipped
  <2>5. RowNames("create_ci", CiRoutes["create_ci"])
    BY <2>1 DEF RowNames, Route, FollowUps
  <2>6. QED
    BY <2>2, <2>3, <2>4, <2>5 DEF RowRight
<1>4. RowRight("update_ci", CiRoutes["update_ci"])
  <2>1. CiRoutes["update_ci"] = Route(manage, {"UpdateCI"}, [CmdbServiceUnavailable |-> 503])
    BY DEF CiRoutes
  <2>2. RowKnown("update_ci", CiRoutes["update_ci"])
    BY <2>1, AllRpcs DEF RowKnown, Route, FollowUps, manage, anybody, Roles
  <2>3. RowWrites("update_ci", CiRoutes["update_ci"])
    BY <2>1, Writes DEF RowWrites, Route, FollowUps, manage, manage, Roles
  <2>4. RowAnswers("update_ci", CiRoutes["update_ci"])
    BY <2>1, CmdbServicerFacts DEF RowAnswers, Route, FollowUps, Caught, Skipped
  <2>5. RowNames("update_ci", CiRoutes["update_ci"])
    BY <2>1 DEF RowNames, Route, FollowUps
  <2>6. QED
    BY <2>2, <2>3, <2>4, <2>5 DEF RowRight
<1>5. RowRight("delete_ci", CiRoutes["delete_ci"])
  <2>1. CiRoutes["delete_ci"] = Route(manage, {"DeleteCI"}, [CmdbServiceUnavailable |-> 503])
    BY DEF CiRoutes
  <2>2. RowKnown("delete_ci", CiRoutes["delete_ci"])
    BY <2>1, AllRpcs DEF RowKnown, Route, FollowUps, manage, anybody, Roles
  <2>3. RowWrites("delete_ci", CiRoutes["delete_ci"])
    BY <2>1, Writes DEF RowWrites, Route, FollowUps, manage, manage, Roles
  <2>4. RowAnswers("delete_ci", CiRoutes["delete_ci"])
    BY <2>1, CmdbServicerFacts DEF RowAnswers, Route, FollowUps, Caught, Skipped
  <2>5. RowNames("delete_ci", CiRoutes["delete_ci"])
    BY <2>1 DEF RowNames, Route, FollowUps
  <2>6. QED
    BY <2>2, <2>3, <2>4, <2>5 DEF RowRight
<1>6. QED
  BY <1>1, <1>2, <1>3, <1>4, <1>5 DEF CiRoutes

\* The routes of changes are right.
LEMMA ChangeRoutesRight ==
  \A route \in DOMAIN ChangeRoutes : RowRight(route, ChangeRoutes[route])
<1>1. RowRight("list_changes", ChangeRoutes["list_changes"])
  <2>1. ChangeRoutes["list_changes"] =
          Route(get_current_user, {"ListChanges"}, [ChangeServiceUnavailable |-> 503])
    BY DEF ChangeRoutes
  <2>2. RowKnown("list_changes", ChangeRoutes["list_changes"])
    BY <2>1, AllRpcs DEF RowKnown, Route, FollowUps, get_current_user, anybody, Roles
  <2>3. RowWrites("list_changes", ChangeRoutes["list_changes"])
    BY <2>1, Writes DEF RowWrites, Route, FollowUps, get_current_user, manage, Roles
  <2>4. RowAnswers("list_changes", ChangeRoutes["list_changes"])
    BY <2>1, ChangeServiceImplFacts DEF RowAnswers, Route, FollowUps, Caught, Skipped
  <2>5. RowNames("list_changes", ChangeRoutes["list_changes"])
    BY <2>1 DEF RowNames, Route, FollowUps
  <2>6. QED
    BY <2>2, <2>3, <2>4, <2>5 DEF RowRight
<1>2. RowRight("get_change", ChangeRoutes["get_change"])
  <2>1. ChangeRoutes["get_change"] =
          Route(get_current_user, {"GetChange"},
            [ChangeNotFound |-> 404, ChangeServiceUnavailable |-> 503,
             IncidentServiceUnavailable |-> 503])
    BY DEF ChangeRoutes
  <2>2. RowKnown("get_change", ChangeRoutes["get_change"])
    BY <2>1, AllRpcs DEF RowKnown, Route, FollowUps, get_current_user, anybody, Roles
  <2>3. RowWrites("get_change", ChangeRoutes["get_change"])
    BY <2>1, Writes DEF RowWrites, Route, FollowUps, get_current_user, manage, Roles
  <2>4. RowAnswers("get_change", ChangeRoutes["get_change"])
    BY <2>1, ChangeServiceImplFacts, IncidentReadsFacts
    DEF RowAnswers, Route, FollowUps, Caught, Skipped
  <2>5. RowNames("get_change", ChangeRoutes["get_change"])
    BY <2>1 DEF RowNames, Route, FollowUps
  <2>6. QED
    BY <2>2, <2>3, <2>4, <2>5 DEF RowRight
<1>3. RowRight("create_change", ChangeRoutes["create_change"])
  <2>1. ChangeRoutes["create_change"] =
          Route(manage, {"CreateChange"}, [ChangeServiceUnavailable |-> 503])
    BY DEF ChangeRoutes
  <2>2. RowKnown("create_change", ChangeRoutes["create_change"])
    BY <2>1, AllRpcs DEF RowKnown, Route, FollowUps, manage, anybody, Roles
  <2>3. RowWrites("create_change", ChangeRoutes["create_change"])
    BY <2>1, Writes DEF RowWrites, Route, FollowUps, manage, manage, Roles
  <2>4. RowAnswers("create_change", ChangeRoutes["create_change"])
    BY <2>1, ChangeServiceImplFacts DEF RowAnswers, Route, FollowUps, Caught, Skipped
  <2>5. RowNames("create_change", ChangeRoutes["create_change"])
    BY <2>1 DEF RowNames, Route, FollowUps
  <2>6. QED
    BY <2>2, <2>3, <2>4, <2>5 DEF RowRight
<1>4. RowRight("approve_change", ChangeRoutes["approve_change"])
  <2>1. ChangeRoutes["approve_change"] =
          Route(manage, {"ApproveChange"},
            [ChangeNotFound |-> 404, InvalidChangeInput |-> 409,
             ChangeServiceUnavailable |-> 503])
    BY DEF ChangeRoutes
  <2>2. RowKnown("approve_change", ChangeRoutes["approve_change"])
    BY <2>1, AllRpcs DEF RowKnown, Route, FollowUps, manage, anybody, Roles
  <2>3. RowWrites("approve_change", ChangeRoutes["approve_change"])
    BY <2>1, Writes DEF RowWrites, Route, FollowUps, manage, manage, Roles
  <2>4. RowAnswers("approve_change", ChangeRoutes["approve_change"])
    BY <2>1, ChangeServiceImplFacts DEF RowAnswers, Route, FollowUps, Caught, Skipped
  <2>5. RowNames("approve_change", ChangeRoutes["approve_change"])
    BY <2>1 DEF RowNames, Route, FollowUps
  <2>6. QED
    BY <2>2, <2>3, <2>4, <2>5 DEF RowRight
<1>5. QED
  BY <1>1, <1>2, <1>3, <1>4 DEF ChangeRoutes

\* The route of the audit log is right.
LEMMA AuditRoutesRight == \A route \in DOMAIN AuditRoutes : RowRight(route, AuditRoutes[route])
<1>1. RowRight("list_audit_events", AuditRoutes["list_audit_events"])
  <2>1. AuditRoutes["list_audit_events"] =
          Route(admin_only, {"ListAuditEvents"}, [AuditServiceUnavailable |-> 503])
    BY DEF AuditRoutes
  <2>2. RowKnown("list_audit_events", AuditRoutes["list_audit_events"])
    BY <2>1, AllRpcs DEF RowKnown, Route, FollowUps, admin_only, anybody, Roles
  <2>3. RowWrites("list_audit_events", AuditRoutes["list_audit_events"])
    BY <2>1, Writes DEF RowWrites, Route, FollowUps, admin_only, manage, Roles
  <2>4. RowAnswers("list_audit_events", AuditRoutes["list_audit_events"])
    BY <2>1, AuditServicerFacts DEF RowAnswers, Route, FollowUps, Caught, Skipped
  <2>5. RowNames("list_audit_events", AuditRoutes["list_audit_events"])
    BY <2>1 DEF RowNames, Route, FollowUps
  <2>6. QED
    BY <2>2, <2>3, <2>4, <2>5 DEF RowRight
<1>2. QED
  BY <1>1 DEF AuditRoutes

\* Every route is right.
LEMMA TableRight == \A route \in RouteNames : RowRight(route, RouteTable[route])
<1> TAKE route \in RouteNames
<1>1. \E table \in {UserRoutes, IncidentRoutes, EditRoutes, LinkRoutes, CiRoutes, ChangeRoutes,
                    AuditRoutes} :
        route \in DOMAIN table /\ RouteTable[route] = table[route]
  BY DEF RouteNames, RouteTable, Join
<1>2. QED
  BY <1>1, UserRoutesRight, IncidentRoutesRight, EditRoutesRight, LinkRoutesRight,
     CiRoutesRight, ChangeRoutesRight, AuditRoutesRight

-----------------------------------------------------------------------------
\* The digest of the tables that the proofs about the gateway use.
MayAsk(route) == RouteTable[route].rpcs \cup FollowUps(route)

\* A route answers with a status of its own or with 500.
LEMMA StatusRange ==
  ASSUME NEW route \in RouteNames, NEW exception
  PROVE  Status(route, exception) \in {400, 401, 403, 404, 409, 500, 503}
  BY TableRight DEF RowRight, RowKnown, Status

\* A service that is down, or a handler that fails, is reported as unavailable.
LEMMA DownRaises ==
  ASSUME NEW rpc \in RPCs
  PROVE  /\ Raised(rpc, "UNAVAILABLE") = Unavailable[Host(rpc)]
         /\ Raised(rpc, "UNKNOWN") = Unavailable[Host(rpc)]
  BY AllRpcs, UserServicerFacts, IncidentReadsFacts, IncidentWritesFacts, CmdbServicerFacts,
     ChangeServiceImplFacts, AuditServicerFacts

\* A route answers 503 for it.
LEMMA DownStatus ==
  ASSUME NEW route \in RouteNames, NEW rpc \in MayAsk(route), ~Skipped(route, rpc)
  PROVE  /\ Status(route, Raised(rpc, "UNAVAILABLE")) = 503
         /\ Status(route, Raised(rpc, "UNKNOWN")) = 503
<1>1. rpc \in RPCs
  BY TableRight DEF RowRight, RowKnown, MayAsk
<1>2. Caught(RouteTable[route], Unavailable[Host(rpc)]) = 503
  BY TableRight DEF RowRight, RowAnswers, MayAsk
<1>3. QED
  BY <1>1, <1>2, DownRaises DEF Caught, Status

\* A route answers 4xx for what a service refuses; CMDB's missing rows are 503.
LEMMA RefusedStatus ==
  ASSUME NEW route \in RouteNames, NEW rpc \in MayAsk(route), ~Skipped(route, rpc),
         NEW code \in Refusals(rpc)
  PROVE  LET status == Status(route, Raised(rpc, code)) IN
         \/ status \in {400, 401, 403, 404, 409}
         \/ route \in {"update_ci", "delete_ci"} /\ status = 503
<1>1. \/ Caught(RouteTable[route], Raised(rpc, code)) \in {400, 401, 403, 404, 409}
      \/ /\ route \in {"update_ci", "delete_ci"}
         /\ Caught(RouteTable[route], Raised(rpc, code)) = 503
  BY TableRight DEF RowRight, RowAnswers, MayAsk
<1>2. QED
  BY <1>1 DEF Caught, Status

-----------------------------------------------------------------------------
(***************************************************************************)
(* The requests and the tables of the services.                            *)
(***************************************************************************)
\* The request is being worked on.
Active(c) == c.pc \in {"asking", "recording"}

\* A call that the request c may have under way when there are n changes: whom it asks,
\* about what, and that nothing else is asked besides a call that writes.
Planned(c, a, n) ==
  /\ a.rpc \in MayAsk(c.route)
  /\ IF c.route = "link_change" /\ a.rpc = "GetChange" THEN a.on = c.with
     ELSE IF Skipped(c.route, a.rpc) THEN a.on \in Ids ELSE a.on = c.id
  /\ a.rpc \in writes \/ c.route = "link_change" => c.todo = {a}
  /\ a.rpc = "LinkChange" => c.with \in 1..n

\* Where a request of h may be when the services dn are down.
PlanOk(h, c, dn, n) ==
  /\ Role(h) \in RouteTable[c.route].roles
  /\ c.written => Role(h) \in manage \/ c.route = "create_user"
  /\ Active(c) =>
       /\ <<c.id, c.with>> \in Inputs(c.route)
       /\ c.todo # {} /\ \A a \in c.todo : Planned(c, a, n)
       /\ dn \subseteq c.dark
  /\ c.pc = "asking" => ~c.written /\ c.entry = None
  /\ c.pc = "recording" => c.written /\ \E a \in c.todo : a.rpc \in writes

Plans == \A h \in Clients : calls[h] # Idle => PlanOk(h, calls[h], down, changes)

\* There is room for every row that a request under way may insert.
Creating(route) == {g \in Clients : calls[g].pc = "asking" /\ calls[g].route = route}
RoomOk ==
  /\ Len(incidents) + Cardinality(Creating("create_incident")) <= MaxRows
  /\ Len(cis) + Cardinality(Creating("create_ci")) <= MaxRows
  /\ changes + Cardinality(Creating("create_change")) <= MaxRows

IInv == TypeOK /\ Plans /\ RoomOk /\ LinksJoinRows
-----------------------------------------------------------------------------
\* Ids are numbers.
LEMMA IdsAreNat == Ids \subseteq Nat /\ MaxRows \in Nat
  BY BoundsAssumption DEF Ids

\* What the tables say about a call a route may make.
LEMMA AskKinds ==
  ASSUME NEW route \in RouteNames, NEW rpc \in MayAsk(route)
  PROVE  /\ rpc \in RPCs
         /\ rpc \in writes =>
              /\ RouteTable[route].roles \subseteq manage \/ route = "create_user"
              /\ (\A other \in RouteTable[route].rpcs : other = rpc) \/ rpc = "LinkChange"
         /\ "operator" \in RouteTable[route].roles /\ "viewer" \notin RouteTable[route].roles =>
              rpc \in writes \/ (route = "link_change" /\ rpc = "GetChange")
         /\ RowNames(route, RouteTable[route])
  BY TableRight DEF RowRight, RowKnown, RowWrites, MayAsk

\* Ids and values of a request, by its route.
LEMMA InputKinds ==
  ASSUME NEW route, NEW id, NEW with, <<id, with>> \in Inputs(route)
  PROVE  /\ id \in Ids \cup UserIds \cup {0}
         /\ with \in Ids \cup UserIds \cup {None, Unstorable}
         /\ with = Unstorable => route \in texts
         /\ route \in {"link_change", "unlink_change"} => id \in Ids /\ with \in Ids
         /\ route = "update_incident" => id \in Ids /\ with \in Ids \cup {Unstorable}
         /\ route \in {"assign_incident", "update_ci"} => id \in Ids
         /\ route = "create_incident" => id = 0 /\ with \in Ids \cup {Unstorable}
         /\ route = "create_ci" => id = 0 /\ with \in UserIds \cup {None, Unstorable}
         /\ route = "update_user_role" => id \in UserIds
         /\ route \in {"delete_incident", "delete_ci", "get_change", "get_linked_changes",
                       "get_ci"} => id \in Ids
<1>1. PICK input \in Named(route) :
        id = input[1] /\ with \in {input[2], Unstorable} /\ input = <<input[1], input[2]>>
  <2>1. CASE <<id, with>> \in Named(route)
    BY <2>1
  <2>2. CASE <<id, with>> \notin Named(route)
    <3>1. PICK named \in Named(route) : id = named[1] /\ with = Unstorable
      BY <2>2 DEF Inputs
    <3>2. named = <<named[1], named[2]>>
      BY DEF Named
    <3>3. QED
      BY <3>1, <3>2
  <2>3. QED
    BY <2>1, <2>2
<1>2. with = Unstorable => route \in texts
  <2>1. \A named \in Named(route) : named[2] # Unstorable
    BY UsersAssumption, AskedAssumption DEF Named
  <2>2. QED
    BY <2>1 DEF Inputs
<1> DEFINE x == input[1]
           y == input[2]
<1>3. /\ x \in Ids \cup UserIds \cup {0} /\ y \in Ids \cup UserIds \cup {None}
      /\ route \in {"link_change", "unlink_change", "update_incident"} => x \in Ids /\ y \in Ids
      /\ route \in {"assign_incident", "update_ci"} => x \in Ids
      /\ route = "create_incident" => x = 0 /\ y \in Ids
      /\ route = "create_ci" => x = 0 /\ y \in UserIds \cup {None}
      /\ route = "update_user_role" => x \in UserIds
      /\ route \in {"delete_incident", "delete_ci", "get_change", "get_linked_changes",
                    "get_ci"} => x \in Ids
  BY AskedAssumption DEF Named
<1>4. route \in {"link_change", "unlink_change"} => with # Unstorable
  BY <1>2 DEF texts
<1> HIDE DEF x, y
<1>5. id = x /\ with \in {y, Unstorable}
  BY <1>1 DEF x, y
<1>6. QED
  BY <1>2, <1>3, <1>4, <1>5

\* Two requests are the same if all their parts are.
LEMMA SameCall ==
  ASSUME NEW x \in Calls, NEW y \in Calls,
         x.pc = y.pc, x.route = y.route, x.id = y.id, x.with = y.with, x.todo = y.todo,
         x.got = y.got, x.entry = y.entry, x.written = y.written, x.raced = y.raced,
         x.status = y.status, x.dark = y.dark, x.ever = y.ever, x.always = y.always
  PROVE  x = y
  BY DEF Calls

\* A request that is answered is a request.
LEMMA AnsweringOk ==
  ASSUME NEW c \in Calls, NEW status \in Statuses
  PROVE  Answered(c, status) \in Calls
  BY DEF Answered, Calls

\* What is still to be asked is forgotten with the answer.
LEMMA AnsweredForgets ==
  ASSUME NEW c \in Calls
  PROVE  Answered([c EXCEPT !.todo = {}], 200) = Answered(c, 200)
<1> DEFINE t == [c EXCEPT !.todo = {}]
           x == Answered(t, 200)
           y == Answered(c, 200)
<1>1. /\ t \in Calls /\ t.route = c.route /\ t.with = c.with /\ t.got = c.got
      /\ t.entry = c.entry /\ t.written = c.written /\ t.raced = c.raced /\ t.dark = c.dark
      /\ t.ever = c.ever /\ t.always = c.always
  BY DEF Calls
<1> HIDE DEF t
<1>2. ASSUME NEW u \in Calls
      PROVE  LET z == Answered(u, 200) IN
             /\ z \in Calls /\ z.pc = "answered" /\ z.status = 200 /\ z.todo = {} /\ z.id = 0
             /\ z.with = (IF u.with = Unstorable THEN Unstorable ELSE None)
             /\ z.route = u.route /\ z.got = u.got /\ z.entry = u.entry
             /\ z.written = u.written /\ z.raced = u.raced /\ z.dark = u.dark
             /\ z.ever = u.ever /\ z.always = u.always
  <2> DEFINE w == IF u.with = Unstorable THEN Unstorable ELSE None
             z == [u EXCEPT !.pc = "answered", !.status = 200, !.todo = {}, !.id = 0, !.with = w]
  <2>1. w \in {None, Unstorable}
    OBVIOUS
  <2>2. Answered(u, 200) = z
    BY DEF Answered, Calls
  <2>3. Answered(u, 200) \in Calls
    <3>1. 200 \in Statuses
      BY DEF Statuses
    <3>2. QED
      BY <3>1, AnsweringOk
  <2> HIDE DEF w
  <2>4. /\ z.pc = "answered" /\ z.status = 200 /\ z.todo = {} /\ z.id = 0 /\ z.with = w
        /\ z.route = u.route /\ z.got = u.got /\ z.entry = u.entry
        /\ z.written = u.written /\ z.raced = u.raced /\ z.dark = u.dark
        /\ z.ever = u.ever /\ z.always = u.always
    BY DEF Calls
  <2> HIDE DEF z
  <2>5. QED
    BY <2>2, <2>3, <2>4 DEF w
<1>3. x \in Calls /\ y \in Calls
  BY <1>1, <1>2
<1>4. /\ x.pc = y.pc /\ x.route = y.route /\ x.id = y.id /\ x.with = y.with
      /\ x.todo = y.todo /\ x.got = y.got /\ x.entry = y.entry /\ x.written = y.written
      /\ x.raced = y.raced /\ x.status = y.status /\ x.dark = y.dark /\ x.ever = y.ever
      /\ x.always = y.always
  <2>1. /\ x.pc = "answered" /\ x.status = 200 /\ x.todo = {} /\ x.id = 0
        /\ x.with = (IF t.with = Unstorable THEN Unstorable ELSE None)
        /\ x.route = t.route /\ x.got = t.got /\ x.entry = t.entry
        /\ x.written = t.written /\ x.raced = t.raced /\ x.dark = t.dark
        /\ x.ever = t.ever /\ x.always = t.always
    BY <1>1, <1>2
  <2>2. /\ y.pc = "answered" /\ y.status = 200 /\ y.todo = {} /\ y.id = 0
        /\ y.with = (IF c.with = Unstorable THEN Unstorable ELSE None)
        /\ y.route = c.route /\ y.got = c.got /\ y.entry = c.entry
        /\ y.written = c.written /\ y.raced = c.raced /\ y.dark = c.dark
        /\ y.ever = c.ever /\ y.always = c.always
    BY <1>2
  <2> HIDE DEF x, y
  <2>3. QED
    BY <1>1, <2>1, <2>2
<1> HIDE DEF x, y
<1>5. x = y
  BY <1>3, <1>4, SameCall
<1>6. QED
  BY <1>5 DEF x, y, t

\* A request that is answered is one that was let through.
LEMMA AnsweredOk ==
  ASSUME NEW h \in Clients, NEW dn, NEW n, NEW c \in Calls, NEW status \in Statuses,
         Role(h) \in RouteTable[c.route].roles,
         c.written => Role(h) \in manage \/ c.route = "create_user"
  PROVE  /\ Answered(c, status) \in Calls /\ PlanOk(h, Answered(c, status), dn, n)
         /\ Answered(c, status).pc = "answered" /\ Answered(c, status).route = c.route
  BY DEF Answered, Calls, PlanOk, Active

\* A request of which a call failed goes on, or is answered, as its route says.
LEMMA FailOk ==
  ASSUME NEW h \in Clients, NEW dn, NEW n, NEW c \in Calls, PlanOk(h, c, dn, n), Active(c),
         NEW a \in c.todo, NEW code
  PROVE  /\ Fail(c, a, code) \in Calls /\ PlanOk(h, Fail(c, a, code), dn, n)
         /\ Fail(c, a, code).pc \in {c.pc, "answered"} /\ Fail(c, a, code).route = c.route
<1>1. /\ c.route \in RouteNames /\ c.todo \subseteq Asks
      /\ Status(c.route, Raised(a.rpc, code)) \in Statuses \cup {0}
  BY StatusRange DEF Calls, Statuses
<1>2. \A status \in Statuses :
        /\ Answered(c, status) \in Calls /\ PlanOk(h, Answered(c, status), dn, n)
        /\ Answered(c, status).pc = "answered" /\ Answered(c, status).route = c.route
  BY AnsweredOk DEF PlanOk
<1>3. CASE ~Skipped(c.route, a.rpc)
  BY <1>2, <1>3, StatusRange DEF Fail, Statuses, Calls
<1>4. CASE Skipped(c.route, a.rpc) /\ c.todo = {a}
  <2>1. Fail(c, a, code) = Answered(c, 200)
    BY <1>4 DEF Fail
  <2>2. QED
    BY <2>1, <1>2 DEF Statuses
<1>5. CASE Skipped(c.route, a.rpc) /\ c.todo # {a}
  <2> DEFINE d == [c EXCEPT !.todo = @ \ {a}]
  <2>1. Fail(c, a, code) = d
    BY <1>5 DEF Fail, Calls
  <2>2. d \in Calls /\ d.todo = c.todo \ {a} /\ d.todo # {} /\ d.pc = c.pc /\ d.route = c.route
        /\ d.id = c.id /\ d.with = c.with /\ d.written = c.written /\ d.entry = c.entry
        /\ d.dark = c.dark
    BY <1>5 DEF Calls
  <2>3. \A b \in c.todo \ {a} : Planned(d, b, n)
    BY <2>2 DEF PlanOk, Planned
  <2>4. c.pc # "recording"
    <3>1. a.rpc \notin writes
      BY <1>5, Writes DEF Skipped
    <3>2. QED
      BY <1>5, <3>1 DEF PlanOk, Planned
  <2>5. PlanOk(h, d, dn, n)
    BY <2>2, <2>3, <2>4 DEF PlanOk, Active
  <2>6. QED
    BY <2>1, <2>2, <2>5
<1>6. QED
  BY <1>3, <1>4, <1>5

\* A request of which a call that reads was answered asks next what its route may ask.
LEMMA ContinueOk ==
  ASSUME NEW h \in Clients, NEW dn, NEW n, NEW c \in Calls, PlanOk(h, c, dn, n),
         c.pc = "asking", NEW a \in c.todo, NEW items, a.rpc \notin writes,
         Listed(c.route, a.rpc) \/ a.rpc \in {"GetIncidentIdsForChange", "GetLinkedChangeIds"}
           => items \subseteq Ids,
         c.route = "link_change" => c.with \in 1..n
  PROVE  /\ Continue(c, a, items) \in Calls /\ PlanOk(h, Continue(c, a, items), dn, n)
         /\ Continue(c, a, items).pc \in {"asking", "answered"}
         /\ Continue(c, a, items).route = c.route
<1> DEFINE todo == (c.todo \ {a}) \cup Follow(c, a, items)
           d == [c EXCEPT !.todo = todo,
                   !.got = @ \cup (IF Listed(c.route, a.rpc) THEN items ELSE {})]
<1>1. /\ c.route \in RouteNames /\ c.todo \subseteq Asks /\ Planned(c, a, n)
      /\ a.rpc \in MayAsk(c.route) /\ RowNames(c.route, RouteTable[c.route])
      /\ <<c.id, c.with>> \in Inputs(c.route)
  BY AskKinds DEF Calls, PlanOk, Planned, Active
<1>2. \A b \in Follow(c, a, items) :
        /\ b \in Asks /\ b.rpc \in MayAsk(c.route)
        /\ b.on = c.id \/ (b.on \in Ids /\ Skipped(c.route, b.rpc))
        /\ Skipped(c.route, b.rpc) => b.on \in Ids
        /\ b.rpc # "GetChange" \/ c.route # "link_change"
        /\ b.rpc \in writes \/ c.route = "link_change" =>
             c.route = "link_change" /\ b = Ask("LinkChange", c.id)
  <2>1. CASE c.route = "link_change" /\ a.rpc = "GetChange"
    <3>1. Follow(c, a, items) = {Ask("LinkChange", c.id)}
      BY <2>1 DEF Follow
    <3>2. "LinkChange" \in MayAsk(c.route) /\ c.id \in Ids
      BY <2>1, <1>1, InputKinds DEF MayAsk, FollowUps
    <3>3. QED
      BY <2>1, <3>1, <3>2, AskKinds, <1>1 DEF Ask, Asks, Skipped
  <2>2. CASE c.route = "get_change" /\ a.rpc = "GetChange"
    <3>1. Follow(c, a, items) = {Ask("GetIncidentIdsForChange", c.id)}
      BY <2>2 DEF Follow
    <3>2. "GetIncidentIdsForChange" \in MayAsk(c.route) /\ c.id \in Ids
      BY <2>2, <1>1, InputKinds DEF MayAsk, FollowUps
    <3>3. QED
      BY <2>2, <3>1, <3>2, AskKinds, <1>1, Writes DEF Ask, Asks, Skipped
  <2>3. CASE a.rpc = "GetIncidentIdsForChange"
    <3>1. Follow(c, a, items) = {Ask("GetIncident", i) : i \in items}
      BY <2>3 DEF Follow
    <3>2. c.route = "get_change"
      BY <2>3, <1>1 DEF RowNames, MayAsk
    <3>3. "GetIncident" \in MayAsk(c.route) /\ items \subseteq Ids
      BY <2>3, <3>2 DEF MayAsk, FollowUps
    <3>4. QED
      BY <3>1, <3>2, <3>3, AskKinds, <1>1, Writes DEF Ask, Asks, Skipped
  <2>4. CASE a.rpc = "GetLinkedChangeIds"
    <3>1. Follow(c, a, items) = {Ask("GetChange", k) : k \in items}
      BY <2>4 DEF Follow
    <3>2. c.route = "get_linked_changes"
      BY <2>4, <1>1 DEF RowNames, MayAsk
    <3>3. "GetChange" \in MayAsk(c.route) /\ items \subseteq Ids
      BY <2>4, <3>2 DEF MayAsk, FollowUps
    <3>4. QED
      BY <3>1, <3>2, <3>3, AskKinds, <1>1, Writes DEF Ask, Asks, Skipped
  <2>5. CASE /\ a.rpc \notin {"GetIncidentIdsForChange", "GetLinkedChangeIds"}
             /\ ~(c.route \in {"link_change", "get_change"} /\ a.rpc = "GetChange")
    BY <2>5 DEF Follow
  <2>6. QED
    BY <2>1, <2>2, <2>3, <2>4, <2>5
<1>3. d \in Calls /\ d.todo = todo /\ d.pc = c.pc /\ d.route = c.route
      /\ d.id = c.id /\ d.with = c.with /\ d.written = c.written /\ d.entry = c.entry
      /\ d.dark = c.dark
  BY <1>1, <1>2 DEF Calls
<1>4. CASE todo = {}
  <2>1. Continue(c, a, items) = Answered(d, 200)
    BY <1>4 DEF Continue
  <2> HIDE DEF d
  <2>2. Role(h) \in RouteTable[d.route].roles
        /\ (d.written => Role(h) \in manage \/ d.route = "create_user")
    BY <1>3 DEF PlanOk
  <2>3. QED
    BY <2>1, <2>2, <1>3, AnsweredOk DEF Statuses
<1>5. CASE todo # {}
  <2>1. Continue(c, a, items) = d
    BY <1>5 DEF Continue
  <2>2. ASSUME NEW b \in todo
        PROVE  Planned(d, b, n)
    <3>1. CASE b \in c.todo \ {a}
      BY <3>1, <1>3 DEF PlanOk, Planned, Active
    <3>2. CASE b \in Follow(c, a, items)
      <4>1. CASE b.rpc \in writes \/ c.route = "link_change"
        <5>1. c.route = "link_change" /\ b = Ask("LinkChange", c.id)
          BY <4>1, <3>2, <1>2
        <5>2. c.todo = {a}
          BY <5>1, <1>1 DEF Planned
        <5>3. todo = {b}
          BY <5>1, <5>2, <3>2, <1>2 DEF Follow
        <5>4. QED
          BY <5>1, <5>3, <1>2, <1>3, <3>2 DEF Planned, Ask, Skipped
      <4>2. CASE ~(b.rpc \in writes \/ c.route = "link_change")
        BY <4>2, <3>2, <1>2, <1>3, Writes DEF Planned
      <4>3. QED
        BY <4>1, <4>2
    <3>3. QED
      BY <3>1, <3>2
  <2>3. QED
    BY <2>1, <2>2, <1>3, <1>5 DEF PlanOk, Active
<1>6. QED
  BY <1>4, <1>5
-----------------------------------------------------------------------------
(***************************************************************************)
(* What an answer says about the tables.                                   *)
(***************************************************************************)
\* A row that was there and may have been deleted by another request.
DeletedAgain(a) ==
  \/ a.rpc = "DeleteIncident" /\ a.on \in DOMAIN incidents
  \/ a.rpc = "DeleteCI" /\ a.on \in DOMAIN cis

\* A service that answers OK was there and found the row, or had found it before.
LEMMA OkMeans ==
  ASSUME NEW c, NEW a, a.rpc \in RPCs, "OK" \in Codes(c, a), a.rpc # "GetCIWithOwner"
  PROVE  /\ Host(a.rpc) \notin down
         /\ "NOT_FOUND" \in Refusals(a.rpc) => Exists(a) \/ DeletedAgain(a)
         /\ Exists(a) \/ "NOT_FOUND" \notin Refusals(a.rpc) => ~Breaks(c, a)
         /\ a.rpc = "AssignIncident" => c.with \in Owners
<1>1. "OK" \in Lost(c, a) => DeletedAgain(a)
  BY DEF Lost, DeletedAgain
<1>2. Cached(a) = {}
  BY DEF Cached
<1>3. "OK" \notin Refusals(a.rpc)
  BY AllRpcs, UserServicerFacts, IncidentReadsFacts, IncidentWritesFacts, CmdbServicerFacts,
     ChangeServiceImplFacts, AuditServicerFacts
<1> DEFINE refusals == Refusals(a.rpc)
           lost == Lost(c, a)
           breaking == Breaks(c, a)
           found == Exists(a)
<1>4. "OK" \in
        IF Host(a.rpc) \in down THEN {"UNAVAILABLE"}
        ELSE IF a.rpc = "AssignIncident" /\ c.with # None /\ "user" \in down
        THEN {"UNAVAILABLE"}
        ELSE IF a.rpc = "AssignIncident" /\ c.with \notin Owners THEN {"INVALID_ARGUMENT"}
        ELSE IF "NOT_FOUND" \in refusals /\ ~found
        THEN {"NOT_FOUND"} \cup (refusals \cap {"INVALID_ARGUMENT", "PERMISSION_DENIED"})
                           \cup Cached(a) \cup lost
        ELSE IF breaking THEN {"UNKNOWN"} \cup (refusals \ {"NOT_FOUND"}) \cup Cached(a)
        ELSE {"OK"} \cup (refusals \ {"NOT_FOUND"}) \cup MayBreak(a) \cup lost
  BY DEF Codes, connection_refused, first_checked
<1>5. "OK" \in lost => DeletedAgain(a)
  BY <1>1
<1>6. "OK" \notin refusals
  BY <1>3
<1> HIDE DEF refusals, lost, breaking, found
<1>7. /\ Host(a.rpc) \notin down
      /\ "NOT_FOUND" \in refusals => found \/ DeletedAgain(a)
      /\ found \/ "NOT_FOUND" \notin refusals => ~breaking
      /\ a.rpc = "AssignIncident" => c.with \in Owners
  <2>1. Host(a.rpc) \notin down
    BY <1>4
  <2>2. a.rpc = "AssignIncident" => c.with \in Owners
    BY <1>4
  <2>3. ~(a.rpc = "AssignIncident" /\ c.with # None /\ "user" \in down)
    BY <1>4
  <2>4. CASE "NOT_FOUND" \in refusals /\ ~found
    BY <1>2, <1>4, <1>5, <1>6, <2>1, <2>2, <2>3, <2>4
  <2>5. CASE ~("NOT_FOUND" \in refusals /\ ~found)
    <3>1. ~breaking
      BY <1>2, <1>4, <1>6, <2>1, <2>2, <2>3, <2>5
    <3>2. QED
      BY <2>1, <2>2, <2>5, <3>1
  <2>6. QED
    BY <2>4, <2>5
<1>8. QED
  BY <1>7 DEF refusals, breaking, found

\* The calls that look for a row before anything else.
LEMMA NotFoundKinds ==
  /\ \A rpc \in {"UpdateIncident", "AssignIncident", "DeleteIncident", "LinkChange",
                 "GetIncident"} : "NOT_FOUND" \in Refusals(rpc) /\ Host(rpc) = "incident"
  /\ \A rpc \in {"UpdateCI", "DeleteCI"} : "NOT_FOUND" \in Refusals(rpc) /\ Host(rpc) = "cmdb"
  /\ "NOT_FOUND" \in Refusals("GetChange") /\ Host("GetChange") = "change"
<1>1. /\ Host("UpdateIncident") = "incident" /\ Host("AssignIncident") = "incident"
      /\ Host("DeleteIncident") = "incident" /\ Host("LinkChange") = "incident"
      /\ Host("GetIncident") = "incident"
  BY Hosts, IncidentRpcs DEF IncidentReads, IncidentWrites
<1>2. /\ Host("UpdateCI") = "cmdb" /\ Host("DeleteCI") = "cmdb" /\ Host("GetChange") = "change"
  BY Hosts DEF CmdbServicer, ChangeServiceImpl
<1>3. QED
  BY <1>1, <1>2, IncidentReadsFacts, IncidentWritesFacts, CmdbServicerFacts,
     ChangeServiceImplFacts

\* What a service that carries out a write has made sure of.
LEMMA WriteKnows ==
  ASSUME IInv, NEW h \in Clients, calls[h].pc = "asking", NEW a \in calls[h].todo,
         a.rpc \in writes, "OK" \in Codes(calls[h], a)
  PROVE  LET c == calls[h] IN
         /\ c \in Calls /\ PlanOk(h, c, down, changes) /\ c.todo = {a} /\ a.on = c.id
         /\ a.rpc \in MayAsk(c.route) /\ <<c.id, c.with>> \in Inputs(c.route)
         /\ RowNames(c.route, RouteTable[c.route])
         /\ RouteTable[c.route].roles \subseteq manage \/ c.route = "create_user"
         /\ a.rpc = "CreateIncident" => c.with \in Ids
         /\ a.rpc = "UpdateIncident" => RowOf(incidents, c.id) /\ c.with \in Ids
         /\ a.rpc = "AssignIncident" => RowOf(incidents, c.id) /\ c.with \in Owners
         /\ a.rpc = "DeleteIncident" =>
              c.id \in DOMAIN incidents /\ \A k \in Ids : <<c.id, k>> \notin links
         /\ a.rpc = "LinkChange" =>
              /\ RowOf(incidents, c.id) /\ c.with \in 1..changes /\ c.id \in Ids
              /\ c.with \in Ids
         /\ a.rpc = "CreateCI" => c.with \in Owners
         /\ a.rpc = "UpdateCI" => RowOf(cis, c.id) /\ c.with \in Owners
         /\ a.rpc = "DeleteCI" => c.id \in DOMAIN cis
<1> DEFINE c == calls[h]
<1>1. c # Idle /\ c \in Calls /\ PlanOk(h, c, down, changes)
  BY DEF IInv, TypeOK, Plans, Idle
<1>2. Planned(c, a, changes) /\ <<c.id, c.with>> \in Inputs(c.route) /\ c.route \in RouteNames
  BY <1>1 DEF PlanOk, Active, Calls
<1>3. /\ a.rpc \in MayAsk(c.route) /\ c.todo = {a} /\ RowNames(c.route, RouteTable[c.route])
      /\ RouteTable[c.route].roles \subseteq manage \/ c.route = "create_user"
      /\ a.on = c.id
  BY <1>2, AskKinds, Writes DEF Planned, Skipped
<1>4. /\ "NOT_FOUND" \in Refusals(a.rpc) => Exists(a) \/ DeletedAgain(a)
      /\ Exists(a) \/ "NOT_FOUND" \notin Refusals(a.rpc) => ~Breaks(c, a)
      /\ (a.rpc = "AssignIncident" => c.with \in Owners)
  BY <1>2, <1>3, AskKinds, OkMeans, Writes
<1>5. /\ a.rpc \in {"UpdateIncident", "AssignIncident", "LinkChange"} =>
           Exists(a) /\ RowOf(incidents, c.id)
      /\ a.rpc = "UpdateCI" => Exists(a) /\ RowOf(cis, c.id)
      /\ a.rpc = "DeleteIncident" => c.id \in DOMAIN incidents
      /\ a.rpc = "DeleteCI" => c.id \in DOMAIN cis
  BY <1>3, <1>4, NotFoundKinds DEF Exists, DeletedAgain, RowOf
<1>6. /\ a.rpc = "CreateIncident" => c.route = "create_incident"
      /\ a.rpc = "UpdateIncident" => c.route = "update_incident"
      /\ a.rpc = "LinkChange" => c.route = "link_change"
  BY <1>3 DEF RowNames, MayAsk
<1>7. "NOT_FOUND" \notin Refusals("CreateIncident") /\ "NOT_FOUND" \notin Refusals("CreateCI")
  BY IncidentWritesFacts, CmdbServicerFacts
<1>8. a.rpc \in {"CreateIncident", "UpdateIncident", "CreateCI", "UpdateCI"} => ~Breaks(c, a)
  BY <1>4, <1>5, <1>7
<1>9. /\ a.rpc = "CreateIncident" => c.with \in Ids
      /\ a.rpc = "UpdateIncident" => c.with \in Ids
      /\ a.rpc = "LinkChange" => c.id \in Ids /\ c.with \in Ids
  BY <1>2, <1>6, <1>8, InputKinds DEF Breaks
<1>10. a.rpc = "DeleteIncident" => \A k \in Ids : <<c.id, k>> \notin links
  <2>1. CASE RowOf(incidents, c.id)
    BY <2>1, <1>3, <1>4, NotFoundKinds DEF Breaks, Exists
  <2>2. CASE ~RowOf(incidents, c.id)
    BY <2>2 DEF IInv, LinksJoinRows
  <2>3. QED
    BY <2>1, <2>2
<1>11. a.rpc \in {"CreateCI", "UpdateCI"} => c.with \in Owners
  BY <1>8 DEF Breaks
<1>12. a.rpc = "LinkChange" => c.with \in 1..changes
  BY <1>2 DEF Planned
<1>13. QED
  BY <1>1, <1>2, <1>3, <1>4, <1>5, <1>9, <1>10, <1>11, <1>12

\* A request about to insert a row has room for it.
LEMMA RoomForOne ==
  ASSUME IInv, NEW h \in Clients, calls[h].pc = "asking"
  PROVE  /\ calls[h].route = "create_incident" => Len(incidents) + 1 <= MaxRows
         /\ calls[h].route = "create_ci" => Len(cis) + 1 <= MaxRows
         /\ calls[h].route = "create_change" => changes + 1 <= MaxRows
<1>1. ASSUME NEW route, calls[h].route = route
      PROVE  Cardinality(Creating(route)) \in Nat /\ Cardinality(Creating(route)) >= 1
  <2>1. Creating(route) \subseteq Clients /\ h \in Creating(route)
    BY <1>1 DEF Creating
  <2>2. IsFiniteSet(Creating(route))
    BY <2>1, FS_Subset, ClientsAssumption
  <2>3. Cardinality(Creating(route)) \in Nat /\ Creating(route) # {}
    BY <2>1, <2>2, FS_CardinalityType
  <2>4. QED
    BY <2>2, <2>3, FS_EmptySet
<1>2. Len(incidents) \in Nat /\ Len(cis) \in Nat /\ changes \in Nat /\ MaxRows \in Nat
  BY BoundsAssumption DEF IInv, TypeOK
<1>3. QED
  BY <1>1, <1>2 DEF IInv, RoomOk

\* Creating shrinks.
LEMMA RoomShrinks ==
  ASSUME IInv, NEW route, Creating(route)' \subseteq Creating(route)
  PROVE  /\ IsFiniteSet(Creating(route)) /\ Cardinality(Creating(route)) \in Nat
         /\ Cardinality(Creating(route)') \in Nat
         /\ Cardinality(Creating(route)') <= Cardinality(Creating(route))
         /\ \A h \in Creating(route) \ Creating(route)' :
              Cardinality(Creating(route)') < Cardinality(Creating(route))
<1>1. IsFiniteSet(Creating(route))
  BY FS_Subset, ClientsAssumption DEF Creating
<1>2. IsFiniteSet(Creating(route)') /\ Cardinality(Creating(route)') <= Cardinality(Creating(route))
      /\ (Cardinality(Creating(route)') = Cardinality(Creating(route))
            => Creating(route)' = Creating(route))
  BY <1>1, FS_Subset
<1>3. QED
  BY <1>1, <1>2, FS_CardinalityType
-----------------------------------------------------------------------------
\* What the tables say about the first calls of a route.
LEMMA FirstRpcs ==
  \A route \in RouteNames : LET rpcs == RouteTable[route].rpcs IN
    /\ rpcs # {}
    /\ route \in {"link_change", "get_change"} => rpcs = {"GetChange"}
    /\ route = "get_linked_changes" => rpcs = {"GetLinkedChangeIds"}
<1> TAKE route \in RouteNames
<1> DEFINE Fits(row) == /\ row.rpcs # {}
                        /\ route \in {"link_change", "get_change"} => row.rpcs = {"GetChange"}
                        /\ route = "get_linked_changes" => row.rpcs = {"GetLinkedChangeIds"}
<1>1. \E table \in {UserRoutes, IncidentRoutes, EditRoutes, LinkRoutes, CiRoutes, ChangeRoutes,
                    AuditRoutes} :
        route \in DOMAIN table /\ RouteTable[route] = table[route]
  BY DEF RouteNames, RouteTable, Join
<1>2. route \in DOMAIN UserRoutes => Fits(UserRoutes[route])
  BY DEF UserRoutes, Route
<1>3. route \in DOMAIN IncidentRoutes => Fits(IncidentRoutes[route])
  BY DEF IncidentRoutes, Route
<1>4. route \in DOMAIN EditRoutes => Fits(EditRoutes[route])
  BY DEF EditRoutes, Route
<1>5. route \in DOMAIN LinkRoutes => Fits(LinkRoutes[route])
  BY DEF LinkRoutes, Route
<1>6. route \in DOMAIN CiRoutes => Fits(CiRoutes[route])
  BY DEF CiRoutes, Route
<1>7. route \in DOMAIN ChangeRoutes => Fits(ChangeRoutes[route])
  BY DEF ChangeRoutes, Route
<1>8. route \in DOMAIN AuditRoutes => Fits(AuditRoutes[route])
  BY DEF AuditRoutes, Route
<1> HIDE DEF Fits
<1>9. Fits(RouteTable[route])
  BY <1>1, <1>2, <1>3, <1>4, <1>5, <1>6, <1>7, <1>8
<1>10. QED
  BY <1>9 DEF Fits

\* The invariant holds of the seeded tables.
LEMMA InitInv ==
  ASSUME Init
  PROVE  IInv
<1>1. incidents \in Seq(IncidentRow \cup {Gone}) /\ Len(incidents) = Len(SeedIncidents)
  <2>1. SeedIncidents \in Seq(Ids) /\ None \in Owners
    BY SeedAssumption DEF Owners
  <2>2. \A i \in DOMAIN SeedIncidents :
          [ci |-> SeedIncidents[i], assignee |-> None] \in IncidentRow \cup {Gone}
    BY <2>1 DEF IncidentRow
  <2>3. QED
    BY <2>1, <2>2 DEF Init
<1>2. cis \in Seq(CiRow \cup {Gone}) /\ Len(cis) = SeedCis
  <2>1. SeedCis \in Nat /\ [owner |-> None] \in CiRow \cup {Gone}
    BY SeedAssumption, BoundsAssumption DEF Owners, CiRow
  <2>2. QED
    BY <2>1 DEF Init
<1>3. SeedChanges \in 0..MaxRows /\ SeedLinks \subseteq Ids \X Ids
      /\ Len(SeedIncidents) <= MaxRows /\ SeedCis <= MaxRows
  BY SeedAssumption, BoundsAssumption DEF Ids
<1>4. TypeOK
  <2>1. /\ changes = SeedChanges /\ links = SeedLinks /\ audit = {} /\ down = {}
        /\ calls \in [Clients -> {Idle} \cup Calls] /\ requests = 0 /\ crashes = 0
    BY DEF Init
  <2>2. 0 \in 0..MaxRequests /\ 0 \in 0..MaxCrashes
    BY BoundsAssumption
  <2>3. QED
    BY <1>1, <1>2, <1>3, <2>1, <2>2 DEF TypeOK
<1>5. Plans
  BY DEF Init, Plans
<1>6. \A route : Cardinality(Creating(route)) = 0
  <2>1. \A route : Creating(route) = {}
    BY DEF Init, Creating, Idle
  <2>2. QED
    BY <2>1, FS_EmptySet
<1>7. RoomOk
  <2>1. changes = SeedChanges /\ Len(SeedIncidents) \in Nat /\ SeedCis \in Nat
        /\ SeedChanges \in Nat /\ SeedChanges <= MaxRows
    BY <1>3, SeedAssumption, BoundsAssumption DEF Init
  <2>2. QED
    BY <1>1, <1>2, <1>3, <1>6, <2>1, BoundsAssumption DEF RoomOk
<1>8. LinksJoinRows
  <2>1. ASSUME NEW link \in links
        PROVE  RowOf(incidents, link[1]) /\ link[2] \in 1..changes
    <3>1. link[1] \in 1..Len(SeedIncidents) /\ link[2] \in 1..SeedChanges
      BY <2>1, SeedAssumption DEF Init
    <3>2. link[1] \in DOMAIN SeedIncidents /\ SeedIncidents[link[1]] \in Ids
      BY <3>1, SeedAssumption
    <3>3. incidents[link[1]] \in IncidentRow /\ link[1] \in DOMAIN incidents
      BY <3>2 DEF Init, IncidentRow, Owners
    <3>4. QED
      BY <3>1, <3>3, UsersAssumption DEF Init, RowOf
  <2>2. QED
    BY <2>1 DEF LinksJoinRows
<1>9. QED
  BY <1>4, <1>5, <1>7, <1>8 DEF IInv

\* A step that moves one request and leaves the tables alone.
LEMMA OneCallMoves ==
  ASSUME IInv, NEW h \in Clients, NEW d \in {Idle} \cup Calls,
         calls' = [calls EXCEPT ![h] = d], d # Idle => PlanOk(h, d, down, changes),
         d.pc = "asking" => calls[h].pc = "asking" /\ calls[h].route = d.route,
         UNCHANGED <<tables, down>>
  PROVE  Plans' /\ RoomOk' /\ LinksJoinRows' /\ calls' \in [Clients -> {Idle} \cup Calls]
<1>1. calls \in [Clients -> {Idle} \cup Calls]
  BY DEF IInv, TypeOK
<1>2. calls' \in [Clients -> {Idle} \cup Calls]
  BY <1>1
<1>3. Plans'
  BY <1>1 DEF IInv, Plans, tables
<1>4. \A route : Creating(route)' \subseteq Creating(route)
  BY <1>1 DEF Creating
<1>5. RoomOk'
  <2>1. \A route : /\ Cardinality(Creating(route)) \in Nat /\ Cardinality(Creating(route)') \in Nat
                   /\ Cardinality(Creating(route)') <= Cardinality(Creating(route))
    BY <1>4, RoomShrinks
  <2>2. Len(incidents) \in Nat /\ Len(cis) \in Nat /\ changes \in Nat /\ MaxRows \in Nat
    BY BoundsAssumption DEF IInv, TypeOK
  <2>3. /\ Len(incidents) + Cardinality(Creating("create_incident")) <= MaxRows
        /\ Len(cis) + Cardinality(Creating("create_ci")) <= MaxRows
        /\ changes + Cardinality(Creating("create_change")) <= MaxRows
    BY DEF IInv, RoomOk
  <2>4. incidents' = incidents /\ cis' = cis /\ changes' = changes
    BY DEF tables
  <2>5. QED
    BY <2>1, <2>2, <2>3, <2>4 DEF RoomOk
<1>6. LinksJoinRows'
  BY DEF IInv, LinksJoinRows, RowOf, tables
<1>7. QED
  BY <1>2, <1>3, <1>5, <1>6

\* A request is let in only if there is room for the row it may insert.
LEMMA RequestInv ==
  ASSUME IInv, NEW h \in Clients, NEW route \in Offers[h], NEW input \in Inputs(route),
         Request(h, route, input[1], input[2])
  PROVE  IInv'
<1> DEFINE id == input[1]
           with == input[2]
           now == Related(route, id, incidents, links)
           d == [pc |-> "asking", route |-> route, id |-> id, with |-> with,
                 todo |-> First(route, id, with), got |-> {}, entry |-> None, written |-> FALSE,
                 raced |-> FALSE, status |-> 0, dark |-> down, ever |-> now, always |-> now]
<1>1. route \in RouteNames /\ <<id, with>> \in Inputs(route)
  <2>1. input = <<input[1], input[2]>>
    <3>1. input \in Named(route) => input = <<input[1], input[2]>>
      BY DEF Named
    <3>2. QED
      BY <3>1 DEF Inputs
  <2>2. QED
    BY <2>1, ClientsAssumption
<1>2. id \in Ids \cup UserIds \cup {0} /\ with \in Ids \cup UserIds \cup {None, Unstorable}
      /\ (route = "link_change" => with \in Ids)
  BY <1>1, InputKinds
<1>3. now \subseteq Ids
  BY DEF Related
<1>4. \A a \in First(route, id, with) :
        /\ a.rpc \in RouteTable[route].rpcs /\ a.rpc \in MayAsk(route) /\ a.rpc \in RPCs
        /\ a.on = IF route = "link_change" THEN with ELSE id
        /\ a \in Asks
  <2>1. ASSUME NEW rpc \in RouteTable[route].rpcs
        PROVE  rpc \in MayAsk(route) /\ rpc \in RPCs
    BY <1>1, AskKinds DEF MayAsk
  <2>2. QED
    BY <2>1, <1>2 DEF First, Ask, Asks
<1>5. First(route, id, with) # {} /\ First(route, id, with) \subseteq Asks
  BY <1>1, <1>4, FirstRpcs DEF First
<1>6. TypeOK
  BY DEF IInv
<1>7. d \in Calls
  BY <1>1, <1>2, <1>3, <1>5, <1>6 DEF Calls, TypeOK
<1>8. \A a \in First(route, id, with) : Planned(d, a, changes)
  <2> TAKE a \in First(route, id, with)
  <2>1. a.rpc \in MayAsk(route) /\ a.rpc \in RouteTable[route].rpcs
        /\ a.on = (IF route = "link_change" THEN with ELSE id)
    BY <1>4
  <2>2. ~Skipped(route, a.rpc)
    BY <2>1, <1>1, FirstRpcs DEF Skipped
  <2>3. (route = "link_change" => a.rpc = "GetChange") /\ a.rpc # "LinkChange"
    BY <2>1, <1>1, FirstRpcs, AskKinds DEF RowNames
  <2>4. a.rpc \in writes \/ route = "link_change" =>
          \A other \in RouteTable[route].rpcs : other = a.rpc
    BY <2>1, <2>3, <1>1, FirstRpcs, AskKinds
  <2>5. a.rpc \in writes \/ route = "link_change" => First(route, id, with) = {a}
    BY <2>1, <2>4 DEF First, Ask
  <2>6. QED
    BY <2>1, <2>2, <2>3, <2>5 DEF Planned
<1>9. PlanOk(h, d, down, changes)
  BY <1>1, <1>5, <1>8 DEF PlanOk, Active, Request
<1>10. calls[h].pc = "idle" /\ calls' = [calls EXCEPT ![h] = d]
       /\ UNCHANGED <<tables, audit, down, crashes>>
  BY DEF Request
<1> HIDE DEF d
<1>11. d.pc = "asking" /\ d.route = route
  BY DEF d
<1>12. calls' \in [Clients -> {Idle} \cup Calls] /\ calls \in [Clients -> {Idle} \cup Calls]
  BY <1>6, <1>7, <1>10 DEF TypeOK
<1>13. requests' \in 0..MaxRequests
  BY <1>6, BoundsAssumption DEF Request, TypeOK
<1>14. TypeOK'
  BY <1>6, <1>10, <1>12, <1>13 DEF TypeOK, tables
<1>15. Plans'
  BY <1>9, <1>10, <1>12 DEF IInv, Plans, tables
<1>16. \A r : /\ r # route => Creating(r)' = Creating(r)
              /\ Cardinality(Creating(r)) \in Nat
              /\ Cardinality(Creating(route)') = Cardinality(Creating(route)) + 1
  <2>1. \A r : IsFiniteSet(Creating(r))
    BY FS_Subset, ClientsAssumption DEF Creating
  <2>2. \A r : r # route => Creating(r)' = Creating(r)
    BY <1>10, <1>11, <1>12 DEF Creating
  <2>3. Creating(route)' = Creating(route) \cup {h} /\ h \notin Creating(route)
    BY <1>10, <1>11, <1>12 DEF Creating
  <2>4. QED
    BY <2>1, <2>2, <2>3, FS_AddElement, FS_CardinalityType
<1>17. RoomOk'
  <2>1. Len(incidents) \in Nat /\ Len(cis) \in Nat /\ changes \in Nat /\ MaxRows \in Nat
    BY <1>6, BoundsAssumption DEF TypeOK
  <2>2. /\ route = "create_incident" =>
             Len(incidents) + Cardinality(Creating("create_incident")) < MaxRows
        /\ route = "create_ci" => Len(cis) + Cardinality(Creating("create_ci")) < MaxRows
        /\ route = "create_change" => changes + Cardinality(Creating("create_change")) < MaxRows
    BY DEF Request, Room, Creating
  <2>3. incidents' = incidents /\ cis' = cis /\ changes' = changes
    BY <1>10 DEF tables
  <2>4. QED
    BY <1>16, <2>1, <2>2, <2>3 DEF IInv, RoomOk
<1>18. LinksJoinRows'
  BY <1>10 DEF IInv, LinksJoinRows, RowOf, tables
<1>19. QED
  BY <1>14, <1>15, <1>17, <1>18 DEF IInv

\* Every call that fails: the request is answered, or goes on without an entry.
LEMMA RefuseInv ==
  ASSUME IInv, NEW h \in Clients, calls[h].pc = "asking", NEW a \in calls[h].todo, Refuse(h, a)
  PROVE  IInv'
<1>1. PICK code \in Codes(calls[h], a) \ {"OK"} :
        calls' = [calls EXCEPT ![h] = Fail(@, a, code)]
  BY DEF Refuse
<1> DEFINE d == Fail(calls[h], a, code)
<1>2. calls[h] \in Calls /\ PlanOk(h, calls[h], down, changes) /\ Active(calls[h])
  BY DEF IInv, TypeOK, Plans, Idle, Active
<1>3. d \in Calls /\ PlanOk(h, d, down, changes) /\ d.route = calls[h].route
  BY <1>2, FailOk
<1>4. UNCHANGED <<tables, audit, down, requests, crashes>>
  BY DEF Refuse
<1>5. calls' = [calls EXCEPT ![h] = d]
  BY <1>1
<1> HIDE DEF d
<1>6. Plans' /\ RoomOk' /\ LinksJoinRows' /\ calls' \in [Clients -> {Idle} \cup Calls]
  BY <1>3, <1>4, <1>5, OneCallMoves
<1>7. TypeOK'
  BY <1>4, <1>6 DEF IInv, TypeOK, tables
<1>8. QED
  BY <1>6, <1>7 DEF IInv

\* What a call that reads returns is what the next calls may be about.
LEMMA ReadInv ==
  ASSUME IInv, NEW h \in Clients, calls[h].pc = "asking", NEW a \in calls[h].todo, Read(h, a)
  PROVE  IInv'
<1> DEFINE c == calls[h]
           d == Continue(c, a, Items(a))
<1>1. c \in Calls /\ PlanOk(h, c, down, changes) /\ Active(c)
  BY DEF IInv, TypeOK, Plans, Idle, Active
<1>2. Planned(c, a, changes) /\ c.route \in RouteNames /\ <<c.id, c.with>> \in Inputs(c.route)
  BY <1>1 DEF PlanOk, Calls
<1>3. a.rpc \notin writes /\ "OK" \in Codes(c, a)
  BY DEF Read
<1>4. /\ a.rpc \in {"GetIncidentIdsForChange", "GetLinkedChangeIds", "ListIncidents"} =>
           Items(a) \subseteq Ids
      /\ Skipped(c.route, a.rpc) => Items(a) \subseteq Ids
  <2>1. /\ a.rpc = "ListIncidents" => Items(a) \subseteq Ids
        /\ a.rpc = "GetIncidentIdsForChange" => Items(a) \subseteq Ids
        /\ a.rpc = "GetLinkedChangeIds" => Items(a) \subseteq Ids
    BY DEF Items, Newest
  <2>2. ASSUME Skipped(c.route, a.rpc)
        PROVE  Items(a) \subseteq Ids
    <3>1. a.rpc \in {"GetChange", "GetIncident"} /\ c.route # "link_change"
      BY <2>2 DEF Skipped
    <3>2. Items(a) = {a.on} /\ a.on \in Ids
      BY <2>2, <3>1, <1>2 DEF Items, Planned
    <3>3. QED
      BY <3>2
  <2>3. QED
    BY <2>1, <2>2
<1>5. Listed(c.route, a.rpc) \/ a.rpc \in {"GetIncidentIdsForChange", "GetLinkedChangeIds"}
        => Items(a) \subseteq Ids
  BY <1>4 DEF Listed
<1>6. c.route = "link_change" => c.with \in 1..changes
  <2>1. SUFFICES ASSUME c.route = "link_change"
                 PROVE  c.with \in 1..changes
    OBVIOUS
  <2>2. a.rpc = "GetChange" /\ a.on = c.with
    <3>1. a.rpc \in {"GetChange", "LinkChange"}
      BY <2>1, <1>2, FirstRpcs DEF Planned, MayAsk, FollowUps
    <3>2. QED
      BY <2>1, <3>1, <1>2, <1>3, Writes DEF Planned
  <2>3. Exists(a)
    BY <2>2, <1>3, AllRpcs, OkMeans, NotFoundKinds DEF DeletedAgain
  <2>4. QED
    BY <2>2, <2>3, NotFoundKinds DEF Exists
<1>7. /\ d \in Calls /\ PlanOk(h, d, down, changes)
      /\ d.pc \in {"asking", "answered"} /\ d.route = c.route
  BY <1>1, <1>3, <1>5, <1>6, ContinueOk
<1>8. calls' = [calls EXCEPT ![h] = d] /\ UNCHANGED <<tables, audit, down, requests, crashes>>
  BY DEF Read
<1> HIDE DEF d
<1>9. Plans' /\ RoomOk' /\ LinksJoinRows' /\ calls' \in [Clients -> {Idle} \cup Calls]
  BY <1>7, <1>8, OneCallMoves
<1>10. TypeOK'
  BY <1>8, <1>9 DEF IInv, TypeOK, tables
<1>11. QED
  BY <1>9, <1>10 DEF IInv

\* The audit entry is stored or lost, and the request answered.
LEMMA RecordInv ==
  ASSUME IInv, NEW h \in Clients, Record(h)
  PROVE  IInv'
<1> DEFINE c == calls[h]
           a == CHOOSE x \in c.todo : TRUE
           d == Answered(c, 200)
<1>1. c.pc = "recording" /\ c \in Calls /\ PlanOk(h, c, down, changes)
  BY DEF Record, IInv, TypeOK, Plans, Idle
<1>2. a \in c.todo /\ c.todo = {a} /\ a.rpc \in writes
  <2>1. PICK b \in c.todo : b.rpc \in writes
    BY <1>1 DEF PlanOk
  <2>2. c.todo = {b}
    BY <1>1, <2>1 DEF PlanOk, Planned, Active
  <2>3. QED
    BY <2>1, <2>2
<1>3. Follow(c, a, {}) = {} /\ ~Listed(c.route, a.rpc)
  <2>1. a.rpc \notin {"GetChange", "GetIncidentIdsForChange", "GetLinkedChangeIds",
                      "GetIncident", "ListIncidents"}
    BY <1>2, Writes
  <2> HIDE DEF a, c
  <2>2. QED
    BY <2>1 DEF Follow, Listed, Skipped
<1>4. Continue(c, a, {}) = d
  <2>1. (c.todo \ {a}) \cup Follow(c, a, {}) = {}
    BY <1>2, <1>3
  <2>2. [c EXCEPT !.todo = {}, !.got = @ \cup {}] = [c EXCEPT !.todo = {}]
    BY <1>1 DEF Calls
  <2>3. Answered([c EXCEPT !.todo = {}], 200) = d
    BY <1>1, AnsweredForgets
  <2>4. QED
    BY <2>1, <2>2, <2>3, <1>3 DEF Continue
<1>5. /\ d \in Calls /\ PlanOk(h, d, down, changes)
      /\ d.pc = "answered" /\ d.route = c.route
  <2>1. /\ Role(h) \in RouteTable[c.route].roles
        /\ c.written => Role(h) \in manage \/ c.route = "create_user"
    BY <1>1 DEF PlanOk
  <2>2. QED
    BY <1>1, <2>1, AnsweredOk DEF Statuses
<1>6. calls' = [calls EXCEPT ![h] = d] /\ UNCHANGED <<tables, down, requests, crashes>>
  BY <1>4 DEF Record, record_audit_event
<1>7. audit' \subseteq Entries
  <2>1. audit \subseteq Entries /\ c.entry \in Entries \cup {None}
    BY <1>1 DEF IInv, TypeOK, Calls
  <2>2. QED
    BY <2>1 DEF Record, RecordAuditEvent
<1> HIDE DEF d
<1>8. Plans' /\ RoomOk' /\ LinksJoinRows' /\ calls' \in [Clients -> {Idle} \cup Calls]
  BY <1>5, <1>6, OneCallMoves
<1>9. TypeOK'
  BY <1>6, <1>7, <1>8 DEF IInv, TypeOK, tables
<1>10. QED
  BY <1>8, <1>9 DEF IInv

\* A handler whose row was deleted before the refresh fails.
LEMMA UnrefreshedInv ==
  ASSUME IInv, NEW h \in Clients, Unrefreshed(h)
  PROVE  IInv'
<1> DEFINE c == calls[h]
           a == CHOOSE x \in c.todo : TRUE
           d == Fail(c, a, "UNKNOWN")
<1>1. c.pc = "recording" /\ c \in Calls /\ PlanOk(h, c, down, changes) /\ Active(c)
  BY DEF Unrefreshed, IInv, TypeOK, Plans, Idle, Active
<1>2. a \in c.todo
  BY <1>1 DEF PlanOk
<1>3. calls' = [calls EXCEPT ![h] = d] /\ UNCHANGED <<tables, audit, down, requests, crashes>>
  BY DEF Unrefreshed
<1> HIDE DEF a, c
<1>4. d \in Calls /\ PlanOk(h, d, down, changes) /\ d.route = c.route
      /\ d.pc \in {"recording", "answered"}
  BY <1>1, <1>2, FailOk
<1> HIDE DEF d
<1>5. Plans' /\ RoomOk' /\ LinksJoinRows' /\ calls' \in [Clients -> {Idle} \cup Calls]
  BY <1>3, <1>4, OneCallMoves DEF c
<1>6. TypeOK'
  BY <1>3, <1>5 DEF IInv, TypeOK, tables
<1>7. QED
  BY <1>5, <1>6 DEF IInv

\* A client that has its answer leaves nothing behind.
LEMMA FinishInv ==
  ASSUME IInv, NEW h \in Clients, Finish(h)
  PROVE  IInv'
<1>1. calls' = [calls EXCEPT ![h] = Idle] /\ UNCHANGED <<tables, audit, down, requests, crashes>>
  BY DEF Finish
<1>2. Plans' /\ RoomOk' /\ LinksJoinRows' /\ calls' \in [Clients -> {Idle} \cup Calls]
  <2>1. Idle.pc = "idle"
    BY DEF Idle
  <2>2. QED
    BY <1>1, <2>1, OneCallMoves
<1>3. TypeOK'
  BY <1>1, <1>2 DEF IInv, TypeOK, tables
<1>4. QED
  BY <1>2, <1>3 DEF IInv

\* A service comes back with the same tables.
LEMMA RestartInv ==
  ASSUME IInv, NEW s \in Services, Restart(s)
  PROVE  IInv'
<1>1. down' = down \ {s} /\ UNCHANGED <<tables, audit, calls, requests, crashes>>
  BY DEF Restart
<1>2. TypeOK'
  BY <1>1 DEF IInv, TypeOK, tables
<1>3. Plans'
  <2>1. ASSUME NEW h \in Clients, calls[h] # Idle
        PROVE  PlanOk(h, calls[h], down', changes)
    <3>1. PlanOk(h, calls[h], down, changes)
      BY <2>1 DEF IInv, Plans
    <3>2. QED
      BY <1>1, <3>1 DEF PlanOk
  <2>2. QED
    BY <1>1, <2>1 DEF Plans, tables
<1>4. RoomOk' /\ LinksJoinRows'
  BY <1>1 DEF IInv, RoomOk, Creating, LinksJoinRows, RowOf, tables
<1>5. QED
  BY <1>2, <1>3, <1>4 DEF IInv

\* Whoever waits learns of the crash, or notes it.
LEMMA CrashInv ==
  ASSUME IInv, NEW s \in Services, Crash(s)
  PROVE  IInv'
<1> DEFINE dark(h) == [calls[h] EXCEPT !.dark = @ \cup {s}]
           a(h) == CHOOSE x \in calls[h].todo : TRUE
<1>1. /\ down' = down \cup {s} /\ crashes < MaxCrashes /\ crashes' = crashes + 1
      /\ UNCHANGED <<tables, audit, requests>>
  BY DEF Crash
<1>2. calls \in [Clients -> {Idle} \cup Calls]
  BY DEF IInv, TypeOK
<1>3. ASSUME NEW h \in Clients, calls[h] # Idle
      PROVE  /\ calls'[h] \in Calls /\ PlanOk(h, calls'[h], down', changes)
             /\ calls'[h].pc = "asking" =>
                  calls[h].pc = "asking" /\ calls'[h].route = calls[h].route
  <2>1. calls[h] \in Calls /\ PlanOk(h, calls[h], down, changes)
    BY <1>2, <1>3 DEF IInv, Plans
  <2>2. CASE ~Active(calls[h])
    <3>1. calls'[h] = calls[h] /\ calls[h].pc = "answered"
      BY <2>1, <2>2 DEF Crash, Active, Calls
    <3>2. QED
      BY <2>1, <3>1, <2>2 DEF PlanOk, Active
  <2>3. CASE Active(calls[h])
    <3> DEFINE d == dark(h)
    <3>1. d \in Calls /\ d.pc = calls[h].pc /\ d.route = calls[h].route /\ d.id = calls[h].id
          /\ d.with = calls[h].with /\ d.todo = calls[h].todo /\ d.written = calls[h].written
          /\ d.entry = calls[h].entry /\ d.dark = calls[h].dark \cup {s}
      BY <2>1 DEF Calls
    <3> HIDE DEF d
    <3>2. PlanOk(h, d, down', changes)
      <4>1. \A x \in calls[h].todo : Planned(d, x, changes)
        BY <2>1, <2>3, <3>1 DEF PlanOk, Planned
      <4>2. QED
        BY <2>1, <2>3, <3>1, <4>1, <1>1 DEF PlanOk, Active
    <3>3. a(h) \in d.todo
      BY <2>1, <2>3, <3>1 DEF PlanOk
    <3>4. calls'[h] = IF calls[h].pc = "recording" /\ Host(a(h).rpc) = s
                      THEN Fail(d, a(h), "UNAVAILABLE") ELSE d
      BY <2>3 DEF Crash, Active, d
    <3>5. CASE calls[h].pc = "recording" /\ Host(a(h).rpc) = s
      <4>1. Active(d)
        BY <2>3, <3>1 DEF Active
      <4>2. /\ calls'[h] \in Calls /\ PlanOk(h, calls'[h], down', changes)
            /\ calls'[h].pc \in {d.pc, "answered"}
        BY <3>1, <3>2, <3>3, <3>4, <3>5, <4>1, FailOk
      <4>3. QED
        BY <4>2, <3>1, <3>5
    <3>6. CASE ~(calls[h].pc = "recording" /\ Host(a(h).rpc) = s)
      BY <3>1, <3>2, <3>4, <3>6
    <3>7. QED
      BY <3>5, <3>6
  <2>4. QED
    BY <2>2, <2>3
<1>4. ASSUME NEW h \in Clients, calls[h] = Idle
      PROVE  calls'[h] = Idle
  BY <1>4 DEF Crash, Idle
<1>5. calls' \in [Clients -> {Idle} \cup Calls]
  <2>1. calls' = [h \in Clients |-> calls'[h]]
    BY DEF Crash
  <2>2. QED
    BY <2>1, <1>2, <1>3, <1>4
<1>6. TypeOK'
  <2>1. crashes' \in 0..MaxCrashes
    BY <1>1, BoundsAssumption DEF IInv, TypeOK
  <2>2. QED
    BY <1>1, <1>5, <2>1 DEF IInv, TypeOK, tables
<1>7. Plans'
  BY <1>1, <1>3, <1>4 DEF Plans, tables
<1>8. RoomOk'
  <2>1. ASSUME NEW route
        PROVE  Creating(route)' \subseteq Creating(route)
    BY <1>3, <1>4 DEF Creating, Idle
  <2>2. \A route : /\ Cardinality(Creating(route)) \in Nat /\ Cardinality(Creating(route)') \in Nat
                   /\ Cardinality(Creating(route)') <= Cardinality(Creating(route))
    BY <2>1, RoomShrinks
  <2>3. Len(incidents) \in Nat /\ Len(cis) \in Nat /\ changes \in Nat /\ MaxRows \in Nat
    BY BoundsAssumption DEF IInv, TypeOK
  <2>4. /\ Len(incidents) + Cardinality(Creating("create_incident")) <= MaxRows
        /\ Len(cis) + Cardinality(Creating("create_ci")) <= MaxRows
        /\ changes + Cardinality(Creating("create_change")) <= MaxRows
    BY DEF IInv, RoomOk
  <2>5. incidents' = incidents /\ cis' = cis /\ changes' = changes
    BY <1>1 DEF tables
  <2>6. QED
    BY <2>2, <2>3, <2>4, <2>5 DEF RoomOk
<1>9. LinksJoinRows'
  BY <1>1 DEF IInv, LinksJoinRows, RowOf, tables
<1>10. QED
  BY <1>6, <1>7, <1>8, <1>9 DEF IInv
-----------------------------------------------------------------------------
(***************************************************************************)
(* A call that writes.                                                     *)
(***************************************************************************)
\* A row of a table is replaced by another.
LEMMA ReplaceRow ==
  ASSUME NEW S, NEW s \in Seq(S), NEW i, NEW x \in S
  PROVE  [s EXCEPT ![i] = x] \in Seq(S) /\ Len([s EXCEPT ![i] = x]) = Len(s)
<1> DEFINE t == [s EXCEPT ![i] = x]
<1>1. Len(s) \in Nat /\ DOMAIN t = 1..Len(s) /\ \A j \in 1..Len(s) : t[j] \in S
  OBVIOUS
<1>2. t \in [1..Len(s) -> S]
  BY <1>1
<1> HIDE DEF t
<1>3. t \in Seq(S) /\ Len(t) = Len(s)
  BY <1>1, <1>2
<1>4. QED
  BY <1>3 DEF t

\* What a step of the tables keeps, by the call that is carried out.
LEMMA EffectOk ==
  ASSUME IInv, NEW h \in Clients, calls[h].pc = "asking", NEW a \in calls[h].todo,
         a.rpc \in writes, "OK" \in Codes(calls[h], a), Effect(calls[h], a.rpc)
  PROVE  /\ incidents' \in Seq(IncidentRow \cup {Gone}) /\ cis' \in Seq(CiRow \cup {Gone})
         /\ links' \subseteq Ids \X Ids /\ changes' \in Nat
         /\ Len(incidents') = IF a.rpc = "CreateIncident" THEN Len(incidents) + 1
                                                         ELSE Len(incidents)
         /\ Len(cis') = IF a.rpc = "CreateCI" THEN Len(cis) + 1 ELSE Len(cis)
         /\ changes' = IF a.rpc = "CreateChange" THEN changes + 1 ELSE changes
         /\ LinksJoinRows'
<1> DEFINE c == calls[h]
<1>0. incidents \in Seq(IncidentRow \cup {Gone})
  BY DEF IInv, TypeOK
<1>1. /\ incidents \in Seq(IncidentRow \cup {Gone}) /\ cis \in Seq(CiRow \cup {Gone})
      /\ links \subseteq Ids \X Ids /\ changes \in Nat /\ LinksJoinRows
  BY BoundsAssumption DEF IInv, TypeOK
<1>2. /\ a.rpc = "CreateIncident" => c.with \in Ids
      /\ a.rpc = "UpdateIncident" => RowOf(incidents, c.id) /\ c.with \in Ids
      /\ a.rpc = "AssignIncident" => RowOf(incidents, c.id) /\ c.with \in Owners
      /\ a.rpc = "DeleteIncident" =>
           c.id \in DOMAIN incidents /\ \A k \in Ids : <<c.id, k>> \notin links
      /\ a.rpc = "LinkChange" =>
           RowOf(incidents, c.id) /\ c.with \in 1..changes /\ c.id \in Ids /\ c.with \in Ids
      /\ a.rpc = "CreateCI" => c.with \in Owners
      /\ a.rpc = "UpdateCI" => RowOf(cis, c.id) /\ c.with \in Owners
      /\ a.rpc = "DeleteCI" => c.id \in DOMAIN cis
  BY WriteKnows
<1> HIDE DEF c
<1>3. \A i \in DOMAIN incidents : incidents[i] \in IncidentRow \cup {Gone}
  BY <1>1
<1>4. Gone \notin IncidentRow /\ Gone \notin CiRow
  BY UsersAssumption
<1>5. CASE a.rpc = "CreateIncident"
  <2> DEFINE row == [ci |-> c.with, assignee |-> None]
  <2>1. row \in IncidentRow
    BY <1>2, <1>5 DEF IncidentRow, Owners
  <2>2. incidents' = Append(incidents, row) /\ UNCHANGED <<cis, changes, links>>
    BY <1>5 DEF Effect, CreateIncident, c
  <2> HIDE DEF row
  <2>3. incidents' \in Seq(IncidentRow \cup {Gone}) /\ Len(incidents') = Len(incidents) + 1
        /\ \A i \in DOMAIN incidents : i \in DOMAIN incidents' /\ incidents'[i] = incidents[i]
    BY <1>1, <2>1, <2>2
  <2>4. QED
    BY <1>1, <1>5, <2>2, <2>3 DEF LinksJoinRows, RowOf
<1>6. CASE a.rpc \in {"UpdateIncident", "AssignIncident"}
  <2>1. PICK row \in IncidentRow :
          incidents' = [incidents EXCEPT ![c.id] = row] /\ UNCHANGED <<cis, changes, links>>
    <3>1. c.id \in DOMAIN incidents /\ incidents[c.id] \in IncidentRow
      BY <1>2, <1>3, <1>6 DEF RowOf
    <3>2. CASE a.rpc = "UpdateIncident"
      <4>1. [incidents[c.id] EXCEPT !.ci = c.with] \in IncidentRow
        BY <3>1, <3>2, <1>2 DEF IncidentRow
      <4>2. QED
        BY <3>2, <4>1 DEF Effect, SetIncident, c
    <3>3. CASE a.rpc = "AssignIncident"
      <4>1. [incidents[c.id] EXCEPT !.assignee = c.with] \in IncidentRow
        BY <3>1, <3>3, <1>2 DEF IncidentRow
      <4>2. QED
        BY <3>3, <4>1 DEF Effect, SetIncident, c
    <3>4. QED
      BY <1>6, <3>2, <3>3
  <2>2. incidents' \in Seq(IncidentRow \cup {Gone}) /\ Len(incidents') = Len(incidents)
    <3>1. row \in IncidentRow \cup {Gone}
      BY <2>1
    <3>2. [incidents EXCEPT ![c.id] = row] \in Seq(IncidentRow \cup {Gone})
          /\ Len([incidents EXCEPT ![c.id] = row]) = Len(incidents)
      BY <1>0, <3>1, ReplaceRow
    <3>3. QED
      BY <2>1, <3>2
  <2>3. \A i : RowOf(incidents, i) => RowOf(incidents', i)
    BY <1>1, <1>4, <2>1 DEF RowOf
  <2>4. QED
    BY <1>1, <1>6, <2>1, <2>2, <2>3 DEF LinksJoinRows
<1>7. CASE a.rpc = "DeleteIncident"
  <2>1. incidents' = [incidents EXCEPT ![c.id] = Gone] /\ UNCHANGED <<cis, changes, links>>
    BY <1>7 DEF Effect, SetIncident, c
  <2>2. incidents' \in Seq(IncidentRow \cup {Gone}) /\ Len(incidents') = Len(incidents)
    <3> DEFINE rows == IncidentRow \cup {Gone}
    <3>1. Gone \in rows /\ incidents \in Seq(rows)
      BY <1>0
    <3> HIDE DEF rows
    <3>2. [incidents EXCEPT ![c.id] = Gone] \in Seq(rows)
          /\ Len([incidents EXCEPT ![c.id] = Gone]) = Len(incidents)
      BY <3>1, ReplaceRow
    <3>3. QED
      BY <2>1, <3>2 DEF rows
  <2>3. \A link \in links : link[1] # c.id
    BY <1>1, <1>2, <1>7
  <2>4. \A i : i # c.id /\ RowOf(incidents, i) => RowOf(incidents', i)
    BY <1>1, <2>1 DEF RowOf
  <2>5. QED
    BY <1>1, <1>7, <2>1, <2>2, <2>3, <2>4 DEF LinksJoinRows
<1>8. CASE a.rpc \in {"LinkChange", "UnlinkChange"}
  <2>1. PICK pairs : links' = pairs /\ UNCHANGED <<incidents, cis, changes>>
                     /\ \A p \in pairs : p \in links \/ (a.rpc = "LinkChange" /\ p = <<c.id, c.with>>)
    BY <1>8 DEF Effect, SetLinks, c
  <2>2. links' \subseteq Ids \X Ids
    BY <1>1, <1>2, <2>1
  <2>3. LinksJoinRows'
    BY <1>1, <1>2, <2>1 DEF LinksJoinRows, RowOf
  <2>4. QED
    BY <1>1, <1>8, <2>1, <2>2, <2>3
<1>9. CASE a.rpc = "CreateCI"
  <2>1. [owner |-> c.with] \in CiRow
    BY <1>2, <1>9 DEF CiRow
  <2>2. cis' = Append(cis, [owner |-> c.with]) /\ UNCHANGED <<incidents, changes, links>>
    BY <1>9 DEF Effect, CreateCI, c
  <2>3. cis' \in Seq(CiRow \cup {Gone}) /\ Len(cis') = Len(cis) + 1
    BY <1>1, <2>1, <2>2
  <2>4. QED
    BY <1>1, <1>9, <2>2, <2>3 DEF LinksJoinRows, RowOf
<1>10. CASE a.rpc \in {"UpdateCI", "DeleteCI"}
  <2>1. PICK row \in CiRow \cup {Gone} :
          cis' = [cis EXCEPT ![c.id] = row] /\ UNCHANGED <<incidents, changes, links>>
    <3>1. a.rpc = "UpdateCI" => [owner |-> c.with] \in CiRow
      BY <1>2 DEF CiRow
    <3>2. QED
      BY <1>10, <3>1 DEF Effect, SetCi, c
  <2>2. cis' \in Seq(CiRow \cup {Gone}) /\ Len(cis') = Len(cis)
    <3>1. row \in CiRow \cup {Gone}
      BY <2>1
    <3>2. [cis EXCEPT ![c.id] = row] \in Seq(CiRow \cup {Gone})
          /\ Len([cis EXCEPT ![c.id] = row]) = Len(cis)
      BY <1>1, <3>1, ReplaceRow
    <3>3. QED
      BY <2>1, <3>2
  <2>3. QED
    BY <1>1, <1>10, <2>1, <2>2 DEF LinksJoinRows, RowOf
<1>11. CASE a.rpc = "CreateChange"
  <2>1. changes' = changes + 1 /\ UNCHANGED <<incidents, cis, links>>
    BY <1>11 DEF Effect, CreateChange, c
  <2>2. QED
    BY <1>1, <1>11, <2>1 DEF LinksJoinRows, RowOf
<1>12. CASE a.rpc \in {"AddIncidentUpdate", "AcceptSuggestedSeverity", "AcceptSuggestedStatus",
                       "UpdateIncidentStatus", "UpdateIncidentSeverity", "ApproveChange",
                       "CreateUser", "UpdateUserRole"}
  <2>1. UNCHANGED tables
    BY <1>12 DEF Effect
  <2>2. QED
    BY <1>1, <1>12, <2>1 DEF LinksJoinRows, RowOf, tables
<1>13. QED
  BY <1>5, <1>6, <1>7, <1>8, <1>9, <1>10, <1>11, <1>12, Writes

\* A call that writes keeps the invariant.
LEMMA WriteInv ==
  ASSUME IInv, NEW h \in Clients, calls[h].pc = "asking", NEW a \in calls[h].todo, Write(h, a)
  PROVE  IInv'
<1> DEFINE c == calls[h]
<1>1. a.rpc \in writes /\ "OK" \in Codes(c, a) /\ Effect(c, a.rpc)
      /\ UNCHANGED <<audit, down, requests, crashes>>
  BY DEF Write
<1>2. PICK due \in Due(c, a.rpc) :
        calls' = [g \in Clients |->
          IF g = h THEN [c EXCEPT !.pc = "recording", !.written = TRUE,
                                  !.entry = IF due THEN Entry(h, a.rpc) ELSE None]
                   ELSE Watch(calls[g], c, a.rpc)]
  BY DEF Write
<1>3. /\ c \in Calls /\ PlanOk(h, c, down, changes) /\ c.todo = {a} /\ a.on = c.id
      /\ a.rpc \in MayAsk(c.route) /\ <<c.id, c.with>> \in Inputs(c.route)
      /\ RowNames(c.route, RouteTable[c.route])
      /\ RouteTable[c.route].roles \subseteq manage \/ c.route = "create_user"
  BY <1>1, WriteKnows
<1>4. /\ incidents' \in Seq(IncidentRow \cup {Gone}) /\ cis' \in Seq(CiRow \cup {Gone})
      /\ links' \subseteq Ids \X Ids /\ changes' \in Nat
      /\ Len(incidents') = IF a.rpc = "CreateIncident" THEN Len(incidents) + 1
                                                      ELSE Len(incidents)
      /\ Len(cis') = IF a.rpc = "CreateCI" THEN Len(cis) + 1 ELSE Len(cis)
      /\ changes' = IF a.rpc = "CreateChange" THEN changes + 1 ELSE changes
      /\ LinksJoinRows'
  BY <1>1, EffectOk
<1>5. calls \in [Clients -> {Idle} \cup Calls] /\ Len(incidents) \in Nat /\ Len(cis) \in Nat
      /\ changes \in Nat /\ MaxRows \in Nat
  BY BoundsAssumption DEF IInv, TypeOK
<1>6. Entry(h, a.rpc) \in Entries
  <2>1. /\ a.rpc = "CreateIncident" => Len(incidents) + 1 \in Ids
        /\ a.rpc = "CreateCI" => Len(cis) + 1 \in Ids
        /\ a.rpc = "CreateChange" => changes + 1 \in Ids
    <3>1. /\ a.rpc = "CreateIncident" => c.route = "create_incident"
          /\ a.rpc = "CreateCI" => c.route = "create_ci"
          /\ a.rpc = "CreateChange" => c.route = "create_change"
      BY <1>3 DEF RowNames, MayAsk
    <3>2. QED
      BY <3>1, <1>5, RoomForOne DEF Ids
  <2>2. c.id \in Ids \cup UserIds \cup {0}
    BY <1>3 DEF Calls
  <2>3. Subject(c, a.rpc) \in Ids \cup UserIds \cup {0}
    BY <2>1, <2>2 DEF Subject
  <2>4. SignedIn[h] \in Owners
    BY ClientsAssumption
  <2>5. QED
    BY <1>1, <2>3, <2>4 DEF Entry, Entries
<1> DEFINE d == [c EXCEPT !.pc = "recording", !.written = TRUE,
                          !.entry = IF due THEN Entry(h, a.rpc) ELSE None]
<1>7. /\ d \in Calls /\ d.pc = "recording" /\ d.route = c.route /\ d.id = c.id
      /\ d.with = c.with /\ d.todo = c.todo /\ d.written /\ d.dark = c.dark
  BY <1>3, <1>6 DEF Calls
<1> HIDE DEF d
<1>8. PlanOk(h, d, down', changes')
  <2>1. Planned(c, a, changes)
    BY <1>3 DEF PlanOk, Active
  <2>2. changes <= changes' /\ changes' \in Nat
    BY <1>4, <1>5
  <2>3. c.with \in 1..changes => c.with \in 1..changes'
    BY <2>2, <1>5
  <2>4. Planned(d, a, changes')
    BY <2>1, <2>3, <1>7 DEF Planned
  <2>5. Role(h) \in RouteTable[c.route].roles
    BY <1>3 DEF PlanOk
  <2>6. Role(h) \in manage \/ c.route = "create_user"
    BY <2>5, <1>3
  <2>7. down \subseteq c.dark
    BY <1>3 DEF PlanOk, Active
  <2>8. QED
    BY <1>1, <1>3, <1>7, <2>4, <2>5, <2>6, <2>7 DEF PlanOk, Active
<1>9. ASSUME NEW g \in Clients, g # h, calls[g] # Idle
      PROVE  /\ calls'[g] \in Calls /\ PlanOk(g, calls'[g], down', changes')
             /\ calls'[g].pc = calls[g].pc /\ calls'[g].route = calls[g].route
  <2>1. /\ calls[g] \in Calls /\ PlanOk(g, calls[g], down, changes)
        /\ calls'[g] = Watch(calls[g], c, a.rpc)
    BY <1>2, <1>5, <1>9 DEF IInv, Plans
  <2>2. PICK ever \in SUBSET Ids, always \in SUBSET Ids, raced \in BOOLEAN :
          calls'[g] = [calls[g] EXCEPT !.ever = ever, !.always = always, !.raced = raced]
    <3> DEFINE e == calls[g]
               now == Related(e.route, e.id, incidents', links')
               met == e.raced \/ Crosses(c, a.rpc, e)
    <3>1. now \subseteq Ids
      BY DEF Related
    <3>2. met \in BOOLEAN
      OBVIOUS
    <3>3. calls'[g] =
            IF e.pc \notin {"asking", "recording"} THEN e
            ELSE IF e.route \in pages THEN [e EXCEPT !.ever = @ \cup now, !.always = @ \cap now]
            ELSE [e EXCEPT !.raced = met]
      BY <2>1 DEF Watch
    <3>4. e \in Calls
      BY <2>1
    <3> HIDE DEF now, met, e
    <3>5. e.ever \in SUBSET Ids /\ e.always \in SUBSET Ids /\ e.raced \in BOOLEAN
      BY <3>4 DEF Calls
    <3> DEFINE Changed(x, y, z) == calls'[g] = [e EXCEPT !.ever = x, !.always = y, !.raced = z]
    <3>6. ASSUME e.pc \notin {"asking", "recording"}
          PROVE  \E x \in SUBSET Ids, y \in SUBSET Ids, z \in BOOLEAN : Changed(x, y, z)
      <4>1. Changed(e.ever, e.always, e.raced)
        BY <3>3, <3>4, <3>6 DEF Calls
      <4> HIDE DEF Changed
      <4>2. QED
        BY <3>5, <4>1
    <3>7. ASSUME e.pc \in {"asking", "recording"} /\ e.route \in pages
          PROVE  \E x \in SUBSET Ids, y \in SUBSET Ids, z \in BOOLEAN : Changed(x, y, z)
      <4>1. Changed(e.ever \cup now, e.always \cap now, e.raced)
        BY <3>3, <3>4, <3>7 DEF Calls
      <4>2. e.ever \cup now \in SUBSET Ids /\ e.always \cap now \in SUBSET Ids
        BY <3>1, <3>5
      <4> HIDE DEF Changed
      <4>3. QED
        BY <3>5, <4>1, <4>2
    <3>8. ASSUME e.pc \in {"asking", "recording"} /\ e.route \notin pages
          PROVE  \E x \in SUBSET Ids, y \in SUBSET Ids, z \in BOOLEAN : Changed(x, y, z)
      <4>1. Changed(e.ever, e.always, met)
        BY <3>3, <3>4, <3>8 DEF Calls
      <4> HIDE DEF Changed
      <4>2. QED
        BY <3>2, <3>5, <4>1
    <3>9. QED
      <4>1. \E x \in SUBSET Ids, y \in SUBSET Ids, z \in BOOLEAN : Changed(x, y, z)
        <5> HIDE DEF Changed
        <5>1. QED
          BY <3>6, <3>7, <3>8
      <4>2. QED
        BY <4>1 DEF e
  <2> DEFINE e == calls'[g]
  <2>3. /\ e \in Calls /\ e.pc = calls[g].pc /\ e.route = calls[g].route /\ e.id = calls[g].id
        /\ e.with = calls[g].with /\ e.todo = calls[g].todo /\ e.written = calls[g].written
        /\ e.entry = calls[g].entry /\ e.dark = calls[g].dark
    BY <2>1, <2>2 DEF Calls
  <2> HIDE DEF e
  <2>4. \A x : Planned(calls[g], x, changes) => Planned(e, x, changes')
    <3>1. changes <= changes' /\ changes' \in Nat
      BY <1>4, <1>5
    <3>2. \A w : w \in 1..changes => w \in 1..changes'
      BY <3>1, <1>5
    <3>3. QED
      BY <3>2, <2>3 DEF Planned
  <2>5. PlanOk(g, e, down', changes')
    BY <1>1, <2>1, <2>3, <2>4 DEF PlanOk, Active
  <2>6. QED
    BY <2>3, <2>5 DEF e
<1>10. ASSUME NEW g \in Clients, g # h, calls[g] = Idle
       PROVE  calls'[g] = Idle
  BY <1>2, <1>10 DEF Watch, Idle
<1>11. calls'[h] = d
  BY <1>2 DEF d
<1>12. calls' \in [Clients -> {Idle} \cup Calls]
  <2>1. calls' = [g \in Clients |-> calls'[g]]
    BY <1>2
  <2>2. QED
    BY <2>1, <1>7, <1>9, <1>10, <1>11
<1>13. Plans'
  BY <1>8, <1>9, <1>10, <1>11 DEF Plans
<1>14. /\ \A r : Creating(r)' \subseteq Creating(r)
       /\ \A r : r = c.route => h \in Creating(r) \ Creating(r)'
  <2>1. \A r : h \notin Creating(r)'
    BY <1>7, <1>11 DEF Creating
  <2>2. QED
    BY <2>1, <1>7, <1>9, <1>10, <1>11 DEF Creating, Idle
<1>15. \A r : /\ Cardinality(Creating(r)) \in Nat /\ Cardinality(Creating(r)') \in Nat
              /\ Cardinality(Creating(r)') <= Cardinality(Creating(r))
              /\ r = c.route => Cardinality(Creating(r)') < Cardinality(Creating(r))
  <2>1. \A r : /\ Cardinality(Creating(r)) \in Nat /\ Cardinality(Creating(r)') \in Nat
               /\ Cardinality(Creating(r)') <= Cardinality(Creating(r))
               /\ \A g \in Creating(r) \ Creating(r)' :
                    Cardinality(Creating(r)') < Cardinality(Creating(r))
    BY <1>14, RoomShrinks
  <2>2. QED
    BY <1>14, <2>1
<1>16. RoomOk'
  <2>1. /\ a.rpc = "CreateIncident" => c.route = "create_incident"
        /\ a.rpc = "CreateCI" => c.route = "create_ci"
        /\ a.rpc = "CreateChange" => c.route = "create_change"
    BY <1>3 DEF RowNames, MayAsk
  <2>2. /\ Len(incidents) + Cardinality(Creating("create_incident")) <= MaxRows
        /\ Len(cis) + Cardinality(Creating("create_ci")) <= MaxRows
        /\ changes + Cardinality(Creating("create_change")) <= MaxRows
    BY DEF IInv, RoomOk
  <2> HIDE DEF c
  <2>3. Len(incidents') + Cardinality(Creating("create_incident")') <= MaxRows
    <3>1. CASE a.rpc = "CreateIncident"
      BY <2>1, <2>2, <3>1, <1>4, <1>5, <1>15
    <3>2. CASE a.rpc # "CreateIncident"
      BY <2>2, <3>2, <1>4, <1>5, <1>15
    <3>3. QED
      BY <3>1, <3>2
  <2>4. Len(cis') + Cardinality(Creating("create_ci")') <= MaxRows
    <3>1. CASE a.rpc = "CreateCI"
      BY <2>1, <2>2, <3>1, <1>4, <1>5, <1>15
    <3>2. CASE a.rpc # "CreateCI"
      BY <2>2, <3>2, <1>4, <1>5, <1>15
    <3>3. QED
      BY <3>1, <3>2
  <2>5. changes' + Cardinality(Creating("create_change")') <= MaxRows
    <3>1. CASE a.rpc = "CreateChange"
      BY <2>1, <2>2, <3>1, <1>4, <1>5, <1>15
    <3>2. CASE a.rpc # "CreateChange"
      BY <2>2, <3>2, <1>4, <1>5, <1>15
    <3>3. QED
      BY <3>1, <3>2
  <2>6. QED
    BY <2>3, <2>4, <2>5 DEF RoomOk
<1>17. TypeOK'
  <2>1. Len(incidents') <= MaxRows /\ Len(cis') <= MaxRows /\ changes' \in 0..MaxRows
    <3>1. /\ a.rpc = "CreateIncident" => c.route = "create_incident"
          /\ a.rpc = "CreateCI" => c.route = "create_ci"
          /\ a.rpc = "CreateChange" => c.route = "create_change"
      BY <1>3 DEF RowNames, MayAsk
    <3>2. Len(incidents) <= MaxRows /\ Len(cis) <= MaxRows /\ changes <= MaxRows
      BY BoundsAssumption DEF IInv, TypeOK
    <3>3. QED
      BY <3>1, <3>2, <1>4, <1>5, RoomForOne
  <2>2. QED
    BY <2>1, <1>1, <1>4, <1>12 DEF IInv, TypeOK
<1>18. QED
  BY <1>4, <1>13, <1>16, <1>17 DEF IInv
-----------------------------------------------------------------------------
(***************************************************************************)
(* The invariant holds of every reachable state.                           *)
(***************************************************************************)
\* Every step of a client, of a service or of the environment keeps the invariant.
LEMMA StepInv ==
  ASSUME IInv, [Next]_vars
  PROVE  IInv'
<1>1. CASE \E h \in Clients : \E route \in Offers[h] :
             \E input \in Inputs(route) : Request(h, route, input[1], input[2])
  BY <1>1, RequestInv
<1>2. CASE \E h \in Clients : Serve(h)
  <2>1. PICK h \in Clients : Serve(h)
    BY <1>2
  <2>2. CASE calls[h].pc = "asking" /\ \E a \in calls[h].todo : Refuse(h, a)
    BY <2>2, RefuseInv
  <2>3. CASE calls[h].pc = "asking" /\ \E a \in calls[h].todo : Read(h, a)
    BY <2>3, ReadInv
  <2>4. CASE calls[h].pc = "asking" /\ \E a \in calls[h].todo : Write(h, a)
    BY <2>4, WriteInv
  <2>5. CASE Record(h)
    BY <2>5, RecordInv
  <2>6. CASE Unrefreshed(h)
    BY <2>6, UnrefreshedInv
  <2>7. QED
    BY <2>1, <2>2, <2>3, <2>4, <2>5, <2>6 DEF Serve
<1>3. CASE \E h \in Clients : Finish(h)
  BY <1>3, FinishInv
<1>4. CASE \E s \in Services : Crash(s) \/ Restart(s)
  BY <1>4, CrashInv, RestartInv
<1>5. CASE UNCHANGED vars
  <2>1. UNCHANGED <<incidents, cis, changes, links, audit, down, calls, requests, crashes>>
    BY <1>5 DEF vars, tables
  <2>2. TypeOK'
    BY <2>1 DEF IInv, TypeOK
  <2>3. Plans'
    BY <2>1 DEF IInv, Plans
  <2>4. RoomOk'
    BY <2>1 DEF IInv, RoomOk, Creating
  <2>5. LinksJoinRows'
    BY <2>1 DEF IInv, LinksJoinRows, RowOf
  <2>6. QED
    BY <2>2, <2>3, <2>4, <2>5 DEF IInv
<1>6. QED
  BY <1>1, <1>2, <1>3, <1>4, <1>5 DEF Next

\* The tables, the plan of every request under way and the room they leave for one
\* another hold together in every reachable state of the system.
THEOREM GatewayInductive == Spec => []IInv
<1>1. Init => IInv
  BY InitInv
<1>2. IInv /\ [Next]_vars => IInv'
  BY StepInv
<1>3. QED
  BY <1>1, <1>2, PTL DEF Spec

\* Type correctness of the composed system: whatever the services answer, and whichever
\* of them are down, no request leaves the states its route allows and no table
\* outgrows its bound, so that the bounds of the runs never cut a request short.
THEOREM GatewayTypeCorrect == Spec => []TypeOK
<1>1. IInv => TypeOK
  BY DEF IInv
<1>2. QED
  BY <1>1, GatewayInductive, PTL

\* No row of incident_changes outlives the incident or the change that it joins, while
\* the link_change route asks the two services one after the other and any other request
\* may delete the incident between its calls.
THEOREM LinksCorrect == Spec => []LinksJoinRows
<1>1. IInv => LinksJoinRows
  BY DEF IInv
<1>2. QED
  BY <1>1, GatewayInductive, PTL

\* Whatever is changed through the gateway was changed for an admin or an operator,
\* except the account that a visitor creates: every route that reaches a writing call of
\* a service names the dependency that its caller has to meet.
THEOREM ManagersCorrect == Spec => []ManagersWrite
<1>1. IInv => ManagersWrite
  <2>1. SUFFICES ASSUME IInv, NEW h \in Clients, calls[h].pc # "idle", calls[h].written
                 PROVE  Role(h) \in manage \/ calls[h].route = "create_user"
    BY DEF ManagersWrite
  <2>2. calls[h] # Idle
    BY <2>1 DEF Idle
  <2>3. PlanOk(h, calls[h], down, changes)
    BY <2>1, <2>2 DEF IInv, Plans
  <2>4. QED
    BY <2>1, <2>3 DEF PlanOk
<1>2. QED
  BY <1>1, GatewayInductive, PTL
=============================================================================
