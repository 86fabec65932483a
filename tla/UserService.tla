----------------------------- MODULE UserService ------------------------------
(***************************************************************************)
(* The User Service (grpc_servers/user_server.py, user_repository.py) and  *)
(* the tokens it issues (auth/security.py), with the gateway's check of a  *)
(* token (auth/dependencies.py).                                           *)
(*                                                                         *)
(* Handlers suspend at every statement and while bcrypt works in a thread, *)
(* and two replicas share one Postgres.  A token carries the role its user *)
(* had when Login read the row; nothing revokes it before it expires.      *)
(*                                                                         *)
(* A call that is refused changes nothing.  If it is refused before it has *)
(* awaited anything that matters, its condition is the guard of the call   *)
(* that goes on.  GetAllUsers and GetUserById change nothing either.       *)
(***************************************************************************)
EXTENDS OrmSession, Naturals, Sequences, FiniteSets

CONSTANTS
  Handlers,   \* concurrent calls, over all replicas
  Serves,     \* the operations that clients call through each handler
  Emails,     \* addresses clients register
  Requested,  \* roles clients ask for
  MayReset,   \* whether seed_demo_data.py truncates the tables
  TTL,        \* ACCESS_TOKEN_EXPIRE_MINUTES, in ticks
  MaxUsers,   \* bound: accounts stored at a time
  MaxTokens,  \* bound: tokens valid at a time
  MaxTime,    \* bound: ticks of the clock
  None        \* Python's None

Roles == {"admin", "operator", "viewer"}
Ids == 1..MaxUsers

Times == 0..MaxTime

Operations == {"CreateUser", "Login", "UpdateUserRole", "bootstrap"}

ASSUME ServesAssumption == Serves \in [Handlers -> SUBSET Operations]
\* UserRoleUpdateSchema and the service refuse any other word.
ASSUME RequestedAssumption == Requested \subseteq Roles
ASSUME UserBoundsAssumption == TTL \in Nat /\ MaxUsers \in Nat /\ MaxTokens \in Nat /\ MaxTime \in Nat
ASSUME ResetAssumption == MayReset \in BOOLEAN
ASSUME UserNoneAssumption == None \notin Nat

VARIABLES
  users,         \* table users: the row with id n is users[n]
  tokens,        \* the tokens issued that have not expired
  now,           \* datetime.now(), the same for all replicas and the gateway
  calls,         \* where each handler is
  last_held,     \* history: when each id last had each role
  bootstrapped   \* history: whether a role was ever changed without a token

vars == <<users, tokens, now, calls, last_held, bootstrapped>>

UserRow == [email: Emails, role: Roles]
Token == [sub: Ids, role: Roles, exp: Nat]

Stored(i) == i \in DOMAIN users
Holding(e) == {i \in DOMAIN users : users[i].email = e}

Idle == [pc |-> "idle"]
Registering(pc, e) == [pc |-> pc, email |-> e]
Verifying(i, role) == [pc |-> "verify", id |-> i, role |-> role]
Changing(pc, t, i, role, loaded) ==
  [pc |-> pc, token |-> t, id |-> i, role |-> role, loaded |-> loaded]

At(h, pc) == calls[h].pc = pc
Ready(h, operation) == At(h, "idle") /\ operation \in Serves[h]
Become(h, call) == calls' = [calls EXCEPT ![h] = call]

\* The history of "i has this role now".
Held(i, role) == [last_held EXCEPT ![i] = [@ EXCEPT ![role] = now]]
-----------------------------------------------------------------------------
(***************************************************************************)
(* Tokens.                                                                 *)
(***************************************************************************)

\* Mutant: the signature is verified, the expiry is not.
AcceptedForever(t, time) == TRUE

\* decode_access_token: jose refuses a token once "exp" has passed.
Accepted(t, time) == time <= t.exp

create_access_token(i, role) == [sub |-> i, role |-> role, exp |-> now + TTL]

\* get_current_user and require_roles
require_roles(t, allowed) == Accepted(t, now) /\ t.role \in allowed

\* The clock.  Its unit is far longer than bcrypt takes.
Tick ==
  /\ now < MaxTime
  /\ \A h \in Handlers : ~At(h, "verify")
  /\ now' = now + 1
  /\ tokens' = {t \in tokens : Accepted(t, now + 1)}
  /\ last_held' = [i \in Ids |->
       IF Stored(i) THEN [last_held[i] EXCEPT ![users[i].role] = now + 1]
                    ELSE last_held[i]]
  /\ UNCHANGED <<users, calls, bootstrapped>>
-----------------------------------------------------------------------------
(***************************************************************************)
(* CreateUser: hash the password in a thread, look for the e-mail, insert. *)
(***************************************************************************)
CreateUser(h, e) ==
  /\ Ready(h, "CreateUser")
  /\ Become(h, Registering("check_email", e))
  /\ UNCHANGED <<users, tokens, now, last_held, bootstrapped>>

CheckEmail(h) ==
  LET e == calls[h].email IN
  /\ At(h, "check_email")
  /\ Become(h, IF Holding(e) = {} THEN Registering("insert", e) ELSE Idle)
  /\ UNCHANGED <<users, tokens, now, last_held, bootstrapped>>

\* Mutant: the migration that adds the constraint is not there.
NoConstraint(e) == TRUE

\* UNIQUE (email)
Unique(e) == Holding(e) = {}

\* Mutant: the word the model's default uses is not one of ROLES.
UnknownRole(e) == "Viewer"

\* Mutant: the role is the one named in the request.
RequestedRole(e) == "operator"

\* Self-registration is always "viewer".
InitialRole(e) == "viewer"

\* The INSERT, or the IntegrityError that is answered with ALREADY_EXISTS.
InsertUser(h) ==
  LET e == calls[h].email
      i == Len(users) + 1
  IN
  /\ At(h, "insert")
  /\ Become(h, Idle)
  /\ IF Unique(e)
     THEN /\ i \in Ids
          /\ users' = Append(users, [email |-> e, role |-> InitialRole(e)])
          /\ last_held' = Held(i, InitialRole(e))
     ELSE UNCHANGED <<users, last_held>>
  /\ UNCHANGED <<tokens, now, bootstrapped>>
-----------------------------------------------------------------------------
(***************************************************************************)
(* Login: read the row, verify the password in a thread, sign the role     *)
(* that was read.                                                          *)
(***************************************************************************)
Login(h, i) ==
  /\ Ready(h, "Login") /\ Cardinality(tokens) < MaxTokens
  /\ Stored(i)
  /\ Become(h, Verifying(i, users[i].role))
  /\ UNCHANGED <<users, tokens, now, last_held, bootstrapped>>

IssueToken(h) ==
  /\ At(h, "verify")
  /\ tokens' = tokens \cup {create_access_token(calls[h].id, calls[h].role)}
  /\ Become(h, Idle)
  /\ UNCHANGED <<users, now, last_held, bootstrapped>>
-----------------------------------------------------------------------------
(***************************************************************************)
(* UpdateUserRole: is there an admin, is the token an admin's, read the    *)
(* row, assign, commit.                                                    *)
(***************************************************************************)

\* PUT /api/users/{id}/role: the gateway asks for an admin and forwards the token.
ThroughGateway(h, t, i, role) ==
  /\ Ready(h, "UpdateUserRole")
  /\ require_roles(t, {"admin"})
  /\ Become(h, Changing("any_admin", t, i, role, None))
  /\ UNCHANGED <<users, tokens, now, last_held, bootstrapped>>

\* The first admin: seed_demo_data.py calls the service itself, without a token.
WithoutToken(h, i, role) ==
  /\ Ready(h, "bootstrap")
  /\ Become(h, Changing("any_admin", None, i, role, None))
  /\ UNCHANGED <<users, tokens, now, last_held, bootstrapped>>

any_admin_exists == \E i \in DOMAIN users : users[i].role = "admin"

Vouched(t) == t # None /\ Accepted(t, now) /\ t.role = "admin"

CheckAdmin(h) ==
  LET c == calls[h] IN
  /\ At(h, "any_admin")
  /\ Become(h, IF any_admin_exists /\ ~Vouched(c.token)
               THEN Idle ELSE [c EXCEPT !.pc = "select"])
  /\ UNCHANGED <<users, tokens, now, last_held, bootstrapped>>

SelectUser(h) ==
  LET c == calls[h] IN
  /\ At(h, "select")
  /\ Become(h, IF Stored(c.id)
               THEN [c EXCEPT !.pc = "commit", !.loaded = users[c.id]] ELSE Idle)
  /\ UNCHANGED <<users, tokens, now, last_held, bootstrapped>>

\* The UPDATE of the role, if the copy shows another; it finds no row after a reset.
CommitRole(h) ==
  LET c == calls[h]
      pending == [c.loaded EXCEPT !.role = c.role]
      row == Flush(users[c.id], c.loaded, pending)
  IN
  /\ At(h, "commit")
  /\ Become(h, Idle)
  /\ IF Stored(c.id) /\ DirtyColumns(c.loaded, pending) # {}
     THEN /\ users' = [users EXCEPT ![c.id] = row]
          /\ last_held' = Held(c.id, row.role)
          /\ bootstrapped' = (bootstrapped \/ c.token = None)
     ELSE UNCHANGED <<users, last_held, bootstrapped>>
  /\ UNCHANGED <<tokens, now>>
-----------------------------------------------------------------------------
\* TRUNCATE ... users RESTART IDENTITY: ids are given again, tokens stay valid.
Reset ==
  /\ MayReset
  /\ users' = << >>
  /\ UNCHANGED <<tokens, now, calls, last_held, bootstrapped>>

\* The replica that runs the call dies.
Crash(h) ==
  /\ ~At(h, "idle")
  /\ Become(h, Idle)
  /\ UNCHANGED <<users, tokens, now, last_held, bootstrapped>>

Init ==
  /\ users = << >> /\ tokens = {} /\ now = 0
  /\ calls = [h \in Handlers |-> Idle]
  /\ last_held = [i \in Ids |-> [r \in Roles |-> None]]
  /\ bootstrapped = FALSE

Calls(h) ==
  \/ \E e \in Emails : CreateUser(h, e)
  \/ CheckEmail(h) \/ InsertUser(h)
  \/ \E i \in Ids : Login(h, i)
  \/ IssueToken(h)
  \/ \E i \in Ids, r \in Requested :
       WithoutToken(h, i, r) \/ \E t \in tokens : ThroughGateway(h, t, i, r)
  \/ CheckAdmin(h) \/ SelectUser(h) \/ CommitRole(h)
  \/ Crash(h)

Next ==
  \/ \E h \in Handlers : Calls(h)
  \/ Tick
  \/ Reset

Spec == Init /\ [][Next]_vars
-----------------------------------------------------------------------------
(***************************************************************************)
(* What it is meant to guarantee.                                          *)
(***************************************************************************)
TypeOK ==
  /\ users \in Seq(UserRow) /\ Len(users) <= MaxUsers
  /\ tokens \subseteq Token
  /\ now \in Times
  /\ calls \in [Handlers ->
       {Idle}
       \cup {Registering(pc, e) : pc \in {"check_email", "insert"}, e \in Emails}
       \cup {Verifying(i, r) : i \in Ids, r \in Roles}
       \cup [pc: {"any_admin", "select"}, token: Token \cup {None},
             id: Ids, role: Roles, loaded: {None}]
       \cup [pc: {"commit"}, token: Token \cup {None},
             id: Ids, role: Roles, loaded: UserRow]]
  /\ last_held \in [Ids -> [Roles -> Times \cup {None}]]
  /\ bootstrapped \in BOOLEAN

\* No two accounts share an e-mail, however many registrations race past the check:
\* otherwise it is undefined which of them a login finds (migration 9d4b2f7c1e6a).
OneAccountPerEmail ==
  \A i, j \in DOMAIN users : users[i].email = users[j].email => i = j

\* The role a token stands for was its user's within the lifetime of a token: a role
\* that was taken away lets nobody pass any longer, although nothing revokes a token
\* and Login signs a role it read before it verified the password.
DemotionTakesEffect ==
  \A t \in tokens : require_roles(t, Roles) =>
    /\ last_held[t.sub][t.role] # None
    /\ now <= last_held[t.sub][t.role] + TTL

\* Until a role is changed without a token, everybody is a viewer, in the table and
\* in every token: registering, logging in and calling the gateway, in any order,
\* raises nobody.
ViewersUntilBootstrap ==
  ~bootstrapped =>
    /\ \A i \in DOMAIN users : users[i].role = "viewer"
    /\ \A t \in tokens : t.role = "viewer"
=============================================================================
