-------------------------------- MODULE Routes --------------------------------
(***************************************************************************)
(* How an answer travels through the gateway (routers/demo.py): a service  *)
(* sets a gRPC code, the client of that service (grpc_clients) turns the   *)
(* code into an exception, the route turns the exception into an HTTP      *)
(* status.  The three translations are written in three places; here they  *)
(* are three tables.                                                       *)
(*                                                                         *)
(* A route is named after its function without "api_", an RPC as in the    *)
(* protocol.                                                               *)
(***************************************************************************)

\* The table f with the rows of g it does not have itself.
Join(f, g) == [x \in DOMAIN f \cup DOMAIN g |-> IF x \in DOMAIN f THEN f[x] ELSE g[x]]

\* What a Depends(...) of a route lets through; "nobody" has no valid token.
Roles == {"admin", "operator", "viewer"}
manage == {"admin", "operator"}
admin_only == {"admin"}
get_current_user == Roles
anybody == Roles \cup {"nobody"}
-----------------------------------------------------------------------------
(***************************************************************************)
(* The services: which codes a handler sets.  Of an exception it does not  *)
(* catch the caller learns UNKNOWN, of a service that is down UNAVAILABLE. *)
(***************************************************************************)
UserServicer == [
  GetAllUsers    |-> {},
  CreateUser     |-> {"ALREADY_EXISTS"},
  Login          |-> {"UNAUTHENTICATED"},
  UpdateUserRole |-> {"INVALID_ARGUMENT", "PERMISSION_DENIED", "NOT_FOUND"}]

IncidentReads == [
  GetIncident             |-> {"NOT_FOUND"},
  ListIncidents           |-> {},
  GetIncidentWithCI       |-> {"NOT_FOUND"},
  GetIncidentUpdates      |-> {},
  GetLinkedChangeIds      |-> {},
  GetIncidentIdsForChange |-> {}]

IncidentWrites == [
  CreateIncident          |-> {"INVALID_ARGUMENT"},
  AddIncidentUpdate       |-> {"NOT_FOUND"},
  AcceptSuggestedSeverity |-> {"NOT_FOUND", "FAILED_PRECONDITION"},
  AcceptSuggestedStatus   |-> {"NOT_FOUND", "FAILED_PRECONDITION"},
  UpdateIncident          |-> {"INVALID_ARGUMENT", "NOT_FOUND"},
  UpdateIncidentStatus    |-> {"NOT_FOUND", "FAILED_PRECONDITION"},
  UpdateIncidentSeverity  |-> {"INVALID_ARGUMENT", "NOT_FOUND"},
  AssignIncident          |-> {"NOT_FOUND"},  \* and what the User Service answers
  LinkChange              |-> {"NOT_FOUND"},
  UnlinkChange            |-> {},
  DeleteIncident          |-> {"NOT_FOUND"}]

CmdbServicer == [
  CreateCI       |-> {},
  ListCIs        |-> {},
  GetRelatedCIs  |-> {},
  GetCIWithOwner |-> {"NOT_FOUND"},
  UpdateCI       |-> {"NOT_FOUND"},
  DeleteCI       |-> {"NOT_FOUND"}]

ChangeServiceImpl == [
  CreateChange  |-> {},
  GetChange     |-> {"NOT_FOUND"},
  ListChanges   |-> {},
  ApproveChange |-> {"NOT_FOUND", "FAILED_PRECONDITION"}]

AuditServicer == [ListAuditEvents |-> {}]

IncidentServicer == Join(IncidentReads, IncidentWrites)

grpc_servers == [user |-> UserServicer, incident |-> IncidentServicer, cmdb |-> CmdbServicer,
              change |-> ChangeServiceImpl, audit |-> AuditServicer]

Services == DOMAIN grpc_servers
RPCs == UNION {DOMAIN grpc_servers[s] : s \in Services}
Host(rpc) == CHOOSE s \in Services : rpc \in DOMAIN grpc_servers[s]
Refusals(rpc) == grpc_servers[Host(rpc)][rpc]
-----------------------------------------------------------------------------
(***************************************************************************)
(* The clients: which exception stands for a code.  Every other code is    *)
(* "<Service>ServiceUnavailable".                                          *)
(***************************************************************************)
user_client == [
  GetAllUsers    |-> << >>,
  CreateUser     |-> [ALREADY_EXISTS |-> "EmailAlreadyExists"],
  Login          |-> [UNAUTHENTICATED |-> "InvalidCredentials"],
  UpdateUserRole |-> [NOT_FOUND |-> "RoleNotFound",
                      PERMISSION_DENIED |-> "RoleUpdateForbidden",
                      INVALID_ARGUMENT |-> "InvalidRole"]]

\* Mutant: a service that does not answer counts as "there is no such incident".
NotFoundIfDown == [NOT_FOUND |-> "IncidentNotFound", UNAVAILABLE |-> "IncidentNotFound",
                   INVALID_ARGUMENT |-> "InvalidIncidentInput",
                   FAILED_PRECONDITION |-> "InvalidIncidentInput"]

\* All functions of incident_client go through _call.
incident_call == [NOT_FOUND |-> "IncidentNotFound",
                  INVALID_ARGUMENT |-> "InvalidIncidentInput",
                  FAILED_PRECONDITION |-> "InvalidIncidentInput"]
incident_client == [rpc \in DOMAIN IncidentServicer |-> incident_call]

cmdb_client == [rpc \in DOMAIN CmdbServicer |->
  IF rpc = "GetCIWithOwner" THEN [NOT_FOUND |-> "CINotFound"] ELSE << >>]

change_client == [
  CreateChange  |-> << >>,
  GetChange     |-> [NOT_FOUND |-> "ChangeNotFound"],
  ListChanges   |-> << >>,
  ApproveChange |-> [NOT_FOUND |-> "ChangeNotFound",
                     FAILED_PRECONDITION |-> "InvalidChangeInput"]]

audit_client == [ListAuditEvents |-> << >>]

grpc_clients == [user |-> user_client, incident |-> incident_client, cmdb |-> cmdb_client,
            change |-> change_client, audit |-> audit_client]

Unavailable == [user |-> "UserServiceUnavailable", incident |-> "IncidentServiceUnavailable",
                cmdb |-> "CmdbServiceUnavailable", change |-> "ChangeServiceUnavailable",
                audit |-> "AuditServiceUnavailable"]

\* The exception the caller of a client's function sees.
Raised(rpc, code) ==
  LET names == grpc_clients[Host(rpc)][rpc] IN
  IF code \in DOMAIN names THEN names[code] ELSE Unavailable[Host(rpc)]
-----------------------------------------------------------------------------
(***************************************************************************)
(* The routes: whom they let through, what they call first, and which      *)
(* status each exception becomes that they catch.                          *)
(***************************************************************************)
\* Mutant: api_delete_incident depends on get_current_user.
RouteForViewers(roles, rpcs, catches) ==
  [roles |-> IF rpcs = {"DeleteIncident"} THEN get_current_user ELSE roles,
   rpcs |-> rpcs, catches |-> catches]

Route(roles, rpcs, catches) == [roles |-> roles, rpcs |-> rpcs, catches |-> catches]

UserRoutes == [
  list_users |-> Route(get_current_user, {"GetAllUsers"}, [UserServiceUnavailable |-> 503]),
  create_user |-> Route(anybody, {"CreateUser"},
    [EmailAlreadyExists |-> 409, UserServiceUnavailable |-> 503]),
  update_user_role |-> Route(admin_only, {"UpdateUserRole"},
    [RoleNotFound |-> 404, InvalidRole |-> 400, RoleUpdateForbidden |-> 403,
     UserServiceUnavailable |-> 503]),
  login |-> Route(anybody, {"Login"},
    [InvalidCredentials |-> 401, UserServiceUnavailable |-> 503])]

\* What a route catches that fails only for a missing incident.
incident_errors == [IncidentNotFound |-> 404, IncidentServiceUnavailable |-> 503]
\* Mutant: InvalidIncidentInput is not caught.
OnlyMissing(status) == incident_errors

\* The same, and a refused input.
or_invalid(status) == Join(incident_errors, [InvalidIncidentInput |-> status])

IncidentRoutes == [
  list_incidents |-> Route(get_current_user, {"ListIncidents"},
    [IncidentServiceUnavailable |-> 503]),
  get_incident |-> Route(get_current_user, {"GetIncidentWithCI"}, incident_errors),
  create_incident |-> Route(manage, {"CreateIncident"},
    [InvalidIncidentInput |-> 400, IncidentServiceUnavailable |-> 503]),
  add_incident_update |-> Route(manage, {"AddIncidentUpdate"}, incident_errors),
  list_incident_updates |-> Route(get_current_user, {"GetIncidentUpdates"},
    [IncidentServiceUnavailable |-> 503])]

\* 409 for what the state of the incident forbids, 400 for a bad input.
EditRoutes == [
  accept_incident_severity |-> Route(manage, {"AcceptSuggestedSeverity"}, or_invalid(409)),
  accept_incident_status |-> Route(manage, {"AcceptSuggestedStatus"}, or_invalid(409)),
  update_incident |-> Route(manage, {"UpdateIncident"}, or_invalid(400)),
  update_incident_status |-> Route(manage, {"UpdateIncidentStatus"}, or_invalid(409)),
  update_incident_severity |-> Route(manage, {"UpdateIncidentSeverity"}, or_invalid(400)),
  assign_incident |-> Route(manage, {"AssignIncident"}, or_invalid(400))]

LinkRoutes == [
  get_linked_changes |-> Route(get_current_user, {"GetLinkedChangeIds"},
    [IncidentServiceUnavailable |-> 503]),
  link_change |-> Route(manage, {"GetChange"},
    Join(incident_errors, [ChangeNotFound |-> 404, ChangeServiceUnavailable |-> 503])),
  unlink_change |-> Route(manage, {"UnlinkChange"}, [IncidentServiceUnavailable |-> 503]),
  delete_incident |-> Route(manage, {"DeleteIncident"}, incident_errors)]

\* api_get_ci asks five times at once.
CiRoutes == [
  list_cis |-> Route(get_current_user, {"ListCIs"}, [CmdbServiceUnavailable |-> 503]),
  get_ci |-> Route(get_current_user,
    {"GetCIWithOwner", "GetRelatedCIs", "ListIncidents", "ListChanges", "ListAuditEvents"},
    [CINotFound |-> 404, CmdbServiceUnavailable |-> 503, IncidentServiceUnavailable |-> 503,
     ChangeServiceUnavailable |-> 503, AuditServiceUnavailable |-> 503]),
  create_ci |-> Route(manage, {"CreateCI"}, [CmdbServiceUnavailable |-> 503]),
  update_ci |-> Route(manage, {"UpdateCI"}, [CmdbServiceUnavailable |-> 503]),
  delete_ci |-> Route(manage, {"DeleteCI"}, [CmdbServiceUnavailable |-> 503])]

ChangeRoutes == [
  list_changes |-> Route(get_current_user, {"ListChanges"}, [ChangeServiceUnavailable |-> 503]),
  get_change |-> Route(get_current_user, {"GetChange"},
    [ChangeNotFound |-> 404, ChangeServiceUnavailable |-> 503,
     IncidentServiceUnavailable |-> 503]),
  create_change |-> Route(manage, {"CreateChange"}, [ChangeServiceUnavailable |-> 503]),
  approve_change |-> Route(manage, {"ApproveChange"},
    [ChangeNotFound |-> 404, InvalidChangeInput |-> 409, ChangeServiceUnavailable |-> 503])]

AuditRoutes == [
  list_audit_events |-> Route(admin_only, {"ListAuditEvents"}, [AuditServiceUnavailable |-> 503])]

RouteTable ==
  Join(UserRoutes, Join(IncidentRoutes, Join(EditRoutes, Join(LinkRoutes,
    Join(CiRoutes, Join(ChangeRoutes, AuditRoutes))))))

RouteNames == DOMAIN RouteTable

\* FastAPI answers 500 for an exception a route does not catch.
Status(route, exception) ==
  LET catches == RouteTable[route].catches IN
  IF exception \in DOMAIN catches THEN catches[exception] ELSE 500
=============================================================================
