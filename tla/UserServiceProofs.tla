-------------------------- MODULE UserServiceProofs ---------------------------
(***************************************************************************)
(* Theorems about the User Service, for any number of calls, accounts,     *)
(* e-mails, tokens and ticks and any lifetime of a token.                  *)
(***************************************************************************)
EXTENDS UserService, TLAPS

\* The history is right about the present and never ahead of the clock.
HistoryRight ==
  /\ \A i \in DOMAIN users : last_held[i][users[i].role] = now
  /\ \A i \in Ids, r \in Roles : last_held[i][r] # None => last_held[i][r] <= now

\* A login under way has read a role that its user had in this tick: the clock does
\* not advance while a password is verified.
LoginsFresh ==
  \A h \in Handlers : At(h, "verify") => last_held[calls[h].id][calls[h].role] = now

\* A token expires at most TTL after its user last had the role it states.
TokensFresh ==
  \A t \in tokens : last_held[t.sub][t.role] # None
                    /\ t.exp <= last_held[t.sub][t.role] + TTL

\* Until the bootstrap no login under way and no change of a role that came through
\* the gateway could raise anybody.
CallsPowerless ==
  ~bootstrapped =>
    \A h \in Handlers :
      /\ At(h, "verify") => calls[h].role = "viewer"
      /\ calls[h].pc \in {"any_admin", "select", "commit"} => calls[h].token = None

IInv ==
  /\ TypeOK /\ OneAccountPerEmail /\ ViewersUntilBootstrap
  /\ HistoryRight /\ LoginsFresh /\ TokensFresh /\ CallsPowerless

CallSet ==
  {Idle}
  \cup {Registering(pc, e) : pc \in {"check_email", "insert"}, e \in Emails}
  \cup {Verifying(i, r) : i \in Ids, r \in Roles}
  \cup [pc: {"any_admin", "select"}, token: Token \cup {None},
        id: Ids, role: Roles, loaded: {None}]
  \cup [pc: {"commit"}, token: Token \cup {None}, id: Ids, role: Roles, loaded: UserRow]

\* The program counter tells what a call holds.
LEMMA CallForms ==
  ASSUME NEW c \in CallSet
  PROVE  /\ c.pc \in {"idle", "check_email", "insert", "verify",
                      "any_admin", "select", "commit"}
         /\ c.pc \in {"check_email", "insert"} => c.email \in Emails
         /\ c.pc = "verify" => c.id \in Ids /\ c.role \in Roles
         /\ c.pc \in {"any_admin", "select"} =>
              c \in [pc: {"any_admin", "select"}, token: Token \cup {None},
                     id: Ids, role: Roles, loaded: {None}]
         /\ c.pc = "commit" => c.id \in Ids /\ c.role \in Roles /\ c.loaded \in UserRow
  BY DEF CallSet, Idle, Registering, Verifying

\* The stored ids are among the ids.
LEMMA StoredIds ==
  ASSUME TypeOK
  PROVE  /\ DOMAIN users \subseteq Ids /\ Len(users) \in Nat
         /\ \A i \in DOMAIN users : users[i] \in UserRow /\ users[i].email \in Emails
                                    /\ users[i].role \in Roles
  <1>1. users \in Seq(UserRow) /\ Len(users) <= MaxUsers /\ MaxUsers \in Nat
    BY UserBoundsAssumption DEF TypeOK
  <1>2. Len(users) \in Nat /\ DOMAIN users = 1..Len(users)
    BY <1>1
  <1>3. DOMAIN users \subseteq Ids
    BY <1>1, <1>2 DEF Ids
  <1>4. ASSUME NEW i \in DOMAIN users
        PROVE  users[i] \in UserRow /\ users[i].email \in Emails /\ users[i].role \in Roles
    <2>1. users[i] \in UserRow
      BY <1>1, <1>2
    <2> QED
      BY <2>1 DEF UserRow
  <1> QED
    BY <1>2, <1>3, <1>4

LEMMA Initially == Init => IInv
  <1> SUFFICES ASSUME Init PROVE IInv
    OBVIOUS
  <1> USE UserBoundsAssumption DEF Init
  <1>1. TypeOK
    <2>1. users \in Seq(UserRow) /\ Len(users) <= MaxUsers
      OBVIOUS
    <2>2. now \in Times
      BY DEF Times
    <2>4. bootstrapped \in BOOLEAN
      OBVIOUS
    <2>5. tokens \subseteq Token
      OBVIOUS
    <2>3. last_held \in [Ids -> [Roles -> Times \cup {None}]]
      OBVIOUS
    <2> QED
      BY <2>1, <2>2, <2>3, <2>4, <2>5 DEF TypeOK, Idle
  <1>2. OneAccountPerEmail /\ ViewersUntilBootstrap
    BY DEF OneAccountPerEmail, ViewersUntilBootstrap
  <1>3. HistoryRight /\ LoginsFresh /\ TokensFresh /\ CallsPowerless
    BY DEF HistoryRight, LoginsFresh, TokensFresh, CallsPowerless, At, Idle
  <1> QED
    BY <1>1, <1>2, <1>3 DEF IInv

\* A step that only moves a call to another place, where it holds what it may hold.
LEMMA CallOnlyStep ==
  ASSUME IInv, NEW h \in Handlers, NEW c \in CallSet,
         Become(h, c), UNCHANGED <<users, tokens, now, last_held, bootstrapped>>,
         c.pc = "verify" => last_held[c.id][c.role] = now,
         ~bootstrapped =>
           /\ c.pc = "verify" => c.role = "viewer"
           /\ c.pc \in {"any_admin", "select", "commit"} => c.token = None
  PROVE  IInv'
  <1> USE DEF IInv, Become
  <1>1. TypeOK'
    BY DEF TypeOK, CallSet
  <1>2. OneAccountPerEmail' /\ ViewersUntilBootstrap' /\ HistoryRight' /\ TokensFresh'
    BY DEF OneAccountPerEmail, ViewersUntilBootstrap, HistoryRight, TokensFresh
  <1>3. LoginsFresh' /\ CallsPowerless'
    BY DEF LoginsFresh, CallsPowerless, At, TypeOK
  <1> QED
    BY <1>1, <1>2, <1>3

LEMMA HandlerCalls ==
  ASSUME IInv, NEW h \in Handlers
  PROVE  calls[h] \in CallSet
  BY DEF IInv, TypeOK, CallSet

\* A step that only adds "now" to the history keeps the logins and the tokens fresh.
LEMMA HistoryStep ==
  ASSUME IInv, NEW h \in Handlers, Become(h, Idle), UNCHANGED <<tokens, now>>,
         \A j \in Ids, r \in Roles :
           last_held'[j][r] = last_held[j][r] \/ last_held'[j][r] = now
  PROVE  LoginsFresh' /\ TokensFresh'
  <1> USE DEF IInv
  <1>1. now \in Nat /\ last_held \in [Ids -> [Roles -> Times \cup {None}]]
    BY DEF TypeOK, Times
  <1>2. LoginsFresh'
    <2> SUFFICES ASSUME NEW g \in Handlers, At(g, "verify")'
                 PROVE  (last_held[calls[g].id][calls[g].role] = now)'
      BY DEF LoginsFresh
    <2>1. calls'[g] = calls[g] /\ At(g, "verify")
      BY DEF Become, At, Idle, TypeOK
    <2>2. calls[g].id \in Ids /\ calls[g].role \in Roles
      BY <2>1, HandlerCalls, CallForms DEF At
    <2> QED
      BY <2>1, <2>2 DEF LoginsFresh
  <1>3. TokensFresh'
    <2> SUFFICES ASSUME NEW t \in tokens
                 PROVE  last_held'[t.sub][t.role] # None
                        /\ t.exp <= last_held'[t.sub][t.role] + TTL
      BY DEF TokensFresh
    <2>1. t.sub \in Ids /\ t.role \in Roles /\ t.exp \in Nat
      BY DEF TypeOK, Token
    <2>2. /\ last_held[t.sub][t.role] # None /\ last_held[t.sub][t.role] \in Nat
          /\ t.exp <= last_held[t.sub][t.role] + TTL /\ last_held[t.sub][t.role] <= now
      BY <1>1, <2>1 DEF TokensFresh, HistoryRight, Times
    <2> QED
      BY <1>1, <2>1, <2>2, UserBoundsAssumption, UserNoneAssumption
  <1> QED
    BY <1>2, <1>3

LEMMA RegistrationStarts ==
  ASSUME IInv, NEW h \in Handlers, NEW e \in Emails, CreateUser(h, e) \/ CheckEmail(h)
  PROVE  IInv'
  <1>1. CASE CreateUser(h, e)
    <2>1. Registering("check_email", e) \in CallSet
      BY DEF CallSet
    <2> QED
      BY <1>1, <2>1, CallOnlyStep DEF CreateUser, Registering
  <1>2. CASE CheckEmail(h)
    <2>1. calls[h].email \in Emails
      BY <1>2, HandlerCalls, CallForms DEF CheckEmail, At
    <2>2. Registering("insert", calls[h].email) \in CallSet /\ Idle \in CallSet
      BY <2>1 DEF CallSet
    <2> QED
      BY <1>2, <2>2, CallOnlyStep DEF CheckEmail, Registering, Idle
  <1> QED
    BY <1>1, <1>2

LEMMA InsertUserStep ==
  ASSUME IInv, NEW h \in Handlers, InsertUser(h)
  PROVE  IInv'
  <1> DEFINE e == calls[h].email
             i == Len(users) + 1
             row == [email |-> e, role |-> "viewer"]
  <1> USE DEF IInv
  <1>1. e \in Emails
    BY HandlerCalls, CallForms DEF InsertUser, At
  <1>2. Idle \in CallSet
    BY DEF CallSet
  <1>3. CASE ~Unique(e)
    BY <1>2, <1>3, CallOnlyStep DEF InsertUser, Idle
  <1>4. CASE Unique(e)
    <2>1. /\ i \in Ids /\ users' = Append(users, row)
          /\ last_held' = Held(i, "viewer") /\ Become(h, Idle)
          /\ UNCHANGED <<tokens, now, bootstrapped>>
      BY <1>4 DEF InsertUser, InitialRole
    <2>2. /\ row \in UserRow /\ users \in Seq(UserRow)
          /\ users' \in Seq(UserRow) /\ Len(users') = Len(users) + 1
      BY <1>1, <2>1 DEF UserRow, Roles, TypeOK
    <2>3. /\ DOMAIN users' = DOMAIN users \cup {i} /\ i \notin DOMAIN users
          /\ users'[i] = row /\ \A j \in DOMAIN users : users'[j] = users[j]
      BY <2>1, <2>2
    <2>4. i <= MaxUsers
      BY <2>1, UserBoundsAssumption DEF Ids
    <2>5. now \in Times /\ now \in Nat /\ last_held \in [Ids -> [Roles -> Times \cup {None}]]
      BY DEF TypeOK, Times
    <2>6. last_held' \in [Ids -> [Roles -> Times \cup {None}]]
      BY <2>1, <2>5 DEF Held
    <2>7. /\ last_held'[i]["viewer"] = now
          /\ \A j \in Ids, r \in Roles :
               last_held'[j][r] = last_held[j][r] \/ last_held'[j][r] = now
      BY <2>1, <2>5 DEF Held, Roles
    <2>8. TypeOK'
      BY <2>1, <2>2, <2>4, <2>6 DEF TypeOK, Become
    <2>9. OneAccountPerEmail'
      BY <1>4, <2>3 DEF OneAccountPerEmail, Unique, Holding
    <2>10. ViewersUntilBootstrap'
      BY <2>1, <2>3 DEF ViewersUntilBootstrap
    <2>11. HistoryRight'
      <3>1. \A j \in DOMAIN users : j \in Ids /\ users[j].role \in Roles
        BY StoredIds
      <3> QED
        BY <2>1, <2>3, <2>5, <2>7, <3>1 DEF HistoryRight, Roles
    <2>12. LoginsFresh' /\ TokensFresh'
      BY <2>1, <2>7, HistoryStep
    <2>14. CallsPowerless'
      BY <2>1 DEF CallsPowerless, Become, At, Idle, TypeOK
    <2> QED
      BY <2>8, <2>9, <2>10, <2>11, <2>12, <2>14
  <1> QED
    BY <1>3, <1>4

\* Signing in: the row is read, and the token is signed within the same tick.
LEMMA LoginSteps ==
  ASSUME IInv, NEW h \in Handlers, NEW i \in Ids, Login(h, i) \/ IssueToken(h)
  PROVE  IInv'
  <1>1. CASE Login(h, i)
    <2>1. i \in DOMAIN users /\ users[i].role \in Roles
      BY <1>1, StoredIds DEF IInv, Login, Stored
    <2>2. Verifying(i, users[i].role) \in CallSet
      BY <2>1 DEF CallSet
    <2>3. last_held[i][users[i].role] = now
      BY <2>1 DEF IInv, HistoryRight
    <2>4. ~bootstrapped => users[i].role = "viewer"
      BY <2>1 DEF IInv, ViewersUntilBootstrap
    <2> QED
      BY <1>1, <2>2, <2>3, <2>4, CallOnlyStep DEF Login, Verifying
  <1>2. CASE IssueToken(h)
    <2> DEFINE new == [sub |-> calls[h].id, role |-> calls[h].role, exp |-> now + TTL]
    <2>1. calls[h].id \in Ids /\ calls[h].role \in Roles
      BY <1>2, HandlerCalls, CallForms DEF IssueToken, At
    <2>2. /\ tokens' = tokens \cup {new} /\ Become(h, Idle)
          /\ UNCHANGED <<users, now, last_held, bootstrapped>>
      BY <1>2 DEF IssueToken, create_access_token
    <2>3. now \in Nat /\ now \in Times /\ TTL \in Nat /\ now # None
      BY UserBoundsAssumption, UserNoneAssumption DEF IInv, TypeOK, Times
    <2>4. new \in Token
      BY <2>1, <2>3 DEF Token
    <2>5. TypeOK'
      BY <2>2, <2>4 DEF IInv, TypeOK, Become
    <2>6. TokensFresh'
      <3>1. last_held[new.sub][new.role] = now
        BY <1>2 DEF IInv, LoginsFresh, IssueToken
      <3> QED
        BY <2>2, <2>3, <3>1 DEF IInv, TokensFresh
    <2>7. ViewersUntilBootstrap'
      <3>1. ~bootstrapped => new.role = "viewer"
        BY <1>2 DEF IInv, CallsPowerless, IssueToken
      <3> QED
        BY <2>2, <3>1 DEF IInv, ViewersUntilBootstrap
    <2>8. OneAccountPerEmail' /\ HistoryRight'
      BY <2>2 DEF IInv, OneAccountPerEmail, HistoryRight
    <2>9. LoginsFresh' /\ CallsPowerless'
      BY <2>2 DEF IInv, LoginsFresh, CallsPowerless, TypeOK, At, Become, Idle
    <2> QED
      BY <2>5, <2>6, <2>7, <2>8, <2>9 DEF IInv
  <1> QED
    BY <1>1, <1>2

\* What a call that changes a role may hold before and after it has read the row.
ChangeSet == [pc: {"any_admin", "select"}, token: Token \cup {None},
              id: Ids, role: Roles, loaded: {None}]
LoadedSet == [pc: {"commit"}, token: Token \cup {None},
              id: Ids, role: Roles, loaded: UserRow]

LEMMA RoleCallSteps ==
  ASSUME IInv, NEW h \in Handlers,
         \/ \E i \in Ids, r \in Requested :
              WithoutToken(h, i, r) \/ \E t \in tokens : ThroughGateway(h, t, i, r)
         \/ CheckAdmin(h) \/ SelectUser(h) \/ Crash(h)
  PROVE  IInv'
  <1> USE DEF IInv
  <1>1. Idle \in CallSet /\ Idle.pc = "idle" /\ ChangeSet \subseteq CallSet
       /\ LoadedSet \subseteq CallSet
    BY DEF CallSet, Idle, ChangeSet, LoadedSet
  <1>2. ASSUME NEW i \in Ids, NEW r \in Requested, WithoutToken(h, i, r)
        PROVE  IInv'
    <2>1. Changing("any_admin", None, i, r, None) \in ChangeSet
      BY RequestedAssumption DEF ChangeSet, Changing
    <2> QED
      BY <1>1, <1>2, <2>1, CallOnlyStep DEF WithoutToken, Changing
  <1>3. ASSUME NEW i \in Ids, NEW r \in Requested, NEW t \in tokens,
               ThroughGateway(h, t, i, r)
        PROVE  IInv'
    <2>1. Changing("any_admin", t, i, r, None) \in ChangeSet
      BY RequestedAssumption DEF ChangeSet, Changing, TypeOK
    <2>2. bootstrapped
      BY <1>3 DEF ViewersUntilBootstrap, ThroughGateway, require_roles
    <2> QED
      BY <1>1, <1>3, <2>1, <2>2, CallOnlyStep DEF ThroughGateway, Changing
  <1>4. CASE CheckAdmin(h)
    <2>1. calls[h] \in ChangeSet
      BY <1>4, HandlerCalls, CallForms DEF CheckAdmin, At, ChangeSet
    <2>2. [calls[h] EXCEPT !.pc = "select"] \in ChangeSet
          /\ [calls[h] EXCEPT !.pc = "select"].pc = "select"
          /\ [calls[h] EXCEPT !.pc = "select"].token = calls[h].token
      BY <2>1 DEF ChangeSet
    <2>3. ~bootstrapped => calls[h].token = None
      BY <1>4 DEF CallsPowerless, CheckAdmin, At
    <2> QED
      BY <1>1, <1>4, <2>2, <2>3, CallOnlyStep DEF CheckAdmin
  <1>5. CASE SelectUser(h)
    <2> DEFINE i == calls[h].id
               new == [calls[h] EXCEPT !.pc = "commit", !.loaded = users[i]]
    <2>1. calls[h] \in ChangeSet
      BY <1>5, HandlerCalls, CallForms DEF SelectUser, At, ChangeSet
    <2>2. Stored(i) => new \in LoadedSet /\ new.pc = "commit" /\ new.token = calls[h].token
      BY <2>1, StoredIds DEF ChangeSet, LoadedSet, Stored
    <2>3. ~bootstrapped => calls[h].token = None
      BY <1>5 DEF CallsPowerless, SelectUser, At
    <2> QED
      BY <1>1, <1>5, <2>2, <2>3, CallOnlyStep DEF SelectUser
  <1>6. CASE Crash(h)
    BY <1>1, <1>6, CallOnlyStep DEF Crash
  <1> QED
    BY <1>2, <1>3, <1>4, <1>5, <1>6

\* The UPDATE writes at most the role that was asked for.
LEMMA FlushRole ==
  ASSUME NEW row \in UserRow, NEW loaded \in UserRow, NEW role \in Roles,
         DirtyColumns(loaded, [loaded EXCEPT !.role = role]) # {}
  PROVE  Flush(row, loaded, [loaded EXCEPT !.role = role]) = [row EXCEPT !.role = role]
  BY DEF Flush, DirtyColumns, UserRow

LEMMA CommitRoleStep ==
  ASSUME IInv, NEW h \in Handlers, CommitRole(h)
  PROVE  IInv'
  <1> DEFINE c == calls[h]
             pending == [c.loaded EXCEPT !.role = c.role]
             row == [users[c.id] EXCEPT !.role = c.role]
             Writes == Stored(c.id) /\ DirtyColumns(c.loaded, pending) # {}
  <1> USE DEF IInv
  <1>1. c.id \in Ids /\ c.role \in Roles /\ c.loaded \in UserRow
    BY HandlerCalls, CallForms DEF CommitRole, At
  <1>2. Idle \in CallSet /\ Idle.pc = "idle"
    BY DEF CallSet, Idle
  <1>3. CASE ~Writes
    BY <1>2, <1>3, CallOnlyStep DEF CommitRole
  <1>4. CASE Writes
    <2>1. c.id \in DOMAIN users /\ users[c.id] \in UserRow
      BY <1>4, StoredIds DEF Stored
    <2>2. Flush(users[c.id], c.loaded, pending) = row
      BY <1>1, <1>4, <2>1, FlushRole
    <2>3. row \in UserRow /\ row.role = c.role /\ row.email = users[c.id].email
      BY <1>1, <2>1 DEF UserRow
    <2>4. /\ users' = [users EXCEPT ![c.id] = row] /\ last_held' = Held(c.id, c.role)
          /\ bootstrapped' = (bootstrapped \/ c.token = None)
          /\ Become(h, Idle) /\ UNCHANGED <<tokens, now>>
      BY <1>4, <2>2, <2>3 DEF CommitRole
    <2>5. /\ DOMAIN users' = DOMAIN users /\ Len(users') = Len(users)
          /\ users' \in Seq(UserRow) /\ users'[c.id] = row
          /\ \A j \in DOMAIN users : j # c.id => users'[j] = users[j]
      BY <2>1, <2>3, <2>4 DEF TypeOK
    <2>6. now \in Times /\ now \in Nat /\ last_held \in [Ids -> [Roles -> Times \cup {None}]]
      BY DEF TypeOK, Times
    <2>7. last_held' \in [Ids -> [Roles -> Times \cup {None}]]
      BY <2>4, <2>6 DEF Held
    <2>8. /\ last_held'[c.id][c.role] = now
          /\ \A j \in Ids, r \in Roles :
               last_held'[j][r] = last_held[j][r] \/ last_held'[j][r] = now
      BY <1>1, <2>4, <2>6 DEF Held
    <2>9. TypeOK'
      <3>1. bootstrapped' \in BOOLEAN
        BY <2>4
      <3> QED
        BY <2>4, <2>5, <2>7, <3>1 DEF TypeOK, Become
    <2>10. OneAccountPerEmail'
      <3>1. \A j \in DOMAIN users : users'[j].email = users[j].email
        BY <2>3, <2>5
      <3> QED
        BY <2>5, <3>1 DEF OneAccountPerEmail
    <2>11. bootstrapped'
      <3>1. ~bootstrapped => c.token = None
        BY DEF CallsPowerless, CommitRole, At
      <3> QED
        BY <2>4, <3>1
    <2>12. ViewersUntilBootstrap' /\ CallsPowerless'
      BY <2>11 DEF ViewersUntilBootstrap, CallsPowerless
    <2>13. HistoryRight'
      <3>1. \A j \in DOMAIN users : j \in Ids /\ users[j].role \in Roles
        BY StoredIds
      <3> QED
        BY <2>3, <2>4, <2>5, <2>6, <2>8, <3>1 DEF HistoryRight
    <2>14. LoginsFresh' /\ TokensFresh'
      BY <1>1, <2>4, <2>8, HistoryStep
    <2> QED
      BY <2>9, <2>10, <2>12, <2>13, <2>14
  <1> QED
    BY <1>3, <1>4

\* Forgetting the rows and keeping the tokens disturbs nothing.
LEMMA ResetStep ==
  ASSUME IInv, Reset
  PROVE  IInv'
  <1> USE DEF IInv, Reset
  <1>1. TypeOK'
    <2>1. users' \in Seq(UserRow) /\ Len(users') <= MaxUsers
      BY UserBoundsAssumption
    <2> QED
      BY <2>1 DEF TypeOK
  <1>2. OneAccountPerEmail' /\ ViewersUntilBootstrap' /\ HistoryRight'
    BY DEF OneAccountPerEmail, ViewersUntilBootstrap, HistoryRight
  <1>3. LoginsFresh' /\ TokensFresh' /\ CallsPowerless'
    BY DEF LoginsFresh, TokensFresh, CallsPowerless, At
  <1> QED
    BY <1>1, <1>2, <1>3

\* The clock advances while no password is being verified.
LEMMA TickStep ==
  ASSUME IInv, Tick
  PROVE  IInv'
  <1> USE DEF IInv
  <1>1. /\ now < MaxTime /\ now' = now + 1 /\ now \in Nat /\ now \in Times
        /\ now' \in Times /\ MaxTime \in Nat /\ TTL \in Nat /\ now' \in Nat
    BY UserBoundsAssumption DEF Tick, TypeOK, Times
  <1>2. last_held \in [Ids -> [Roles -> Times \cup {None}]]
    BY DEF TypeOK
  <1>3. /\ \A i \in DOMAIN users : last_held'[i][users[i].role] = now'
        /\ \A i \in Ids, r \in Roles :
             last_held'[i][r] = last_held[i][r] \/ last_held'[i][r] = now'
        /\ last_held' \in [Ids -> [Roles -> Times \cup {None}]]
    BY <1>1, <1>2, StoredIds DEF Tick, Stored
  <1>4. TypeOK'
    BY <1>1, <1>3 DEF TypeOK, Tick
  <1>5. OneAccountPerEmail' /\ ViewersUntilBootstrap' /\ CallsPowerless'
    BY DEF OneAccountPerEmail, ViewersUntilBootstrap, CallsPowerless, Tick, At
  <1>6. HistoryRight'
    <2>1. \A i \in Ids, r \in Roles :
            last_held[i][r] # None => last_held[i][r] <= now /\ last_held[i][r] \in Nat
      BY <1>2 DEF HistoryRight, Times
    <2>2. \A i \in Ids, r \in Roles : last_held'[i][r] # None => last_held'[i][r] <= now'
      BY <1>1, <1>3, <2>1
    <2> QED
      BY <1>3, <2>2 DEF HistoryRight, Tick
  <1>7. LoginsFresh'
    BY DEF LoginsFresh, Tick, At
  <1>8. TokensFresh'
    <2> SUFFICES ASSUME NEW t \in tokens'
                 PROVE  last_held'[t.sub][t.role] # None
                        /\ t.exp <= last_held'[t.sub][t.role] + TTL
      BY DEF TokensFresh
    <2>1. t \in tokens /\ t.sub \in Ids /\ t.role \in Roles /\ t.exp \in Nat
      BY DEF TypeOK, Token, Tick
    <2>2. /\ last_held[t.sub][t.role] # None /\ last_held[t.sub][t.role] \in Nat
          /\ t.exp <= last_held[t.sub][t.role] + TTL /\ last_held[t.sub][t.role] <= now
      BY <1>2, <2>1 DEF TokensFresh, HistoryRight, Times
    <2> QED
      BY <1>1, <1>3, <2>1, <2>2, UserNoneAssumption
  <1> QED
    BY <1>4, <1>5, <1>6, <1>7, <1>8

LEMMA NextKeeps == IInv /\ [Next]_vars => IInv'
  <1> SUFFICES ASSUME IInv, [Next]_vars PROVE IInv'
    OBVIOUS
  <1>1. ASSUME NEW h \in Handlers, Calls(h) PROVE IInv'
    <2>1. ASSUME NEW e \in Emails, CreateUser(h, e) PROVE IInv'
      BY <2>1, RegistrationStarts
    <2>2. CASE CheckEmail(h)
      <3>1. calls[h].email \in Emails
        BY <2>2, HandlerCalls, CallForms DEF CheckEmail, At
      <3> QED
        BY <2>2, <3>1, RegistrationStarts
    <2>3. CASE InsertUser(h)
      BY <2>3, InsertUserStep
    <2>4. ASSUME NEW i \in Ids, Login(h, i) PROVE IInv'
      BY <2>4, LoginSteps
    <2>5. CASE IssueToken(h)
      <3>1. calls[h].id \in Ids
        BY <2>5, HandlerCalls, CallForms DEF IssueToken, At
      <3> QED
        BY <2>5, <3>1, LoginSteps
    <2>6. CASE \/ \E i \in Ids, r \in Requested :
                    WithoutToken(h, i, r) \/ \E t \in tokens : ThroughGateway(h, t, i, r)
               \/ CheckAdmin(h) \/ SelectUser(h) \/ Crash(h)
      BY <2>6, RoleCallSteps
    <2>7. CASE CommitRole(h)
      BY <2>7, CommitRoleStep
    <2> QED
      BY <1>1, <2>1, <2>2, <2>3, <2>4, <2>5, <2>6, <2>7 DEF Calls
  <1>2. CASE UNCHANGED vars
    BY <1>2 DEF vars, IInv, TypeOK, OneAccountPerEmail, ViewersUntilBootstrap,
                HistoryRight, LoginsFresh, TokensFresh, CallsPowerless, At
  <1> QED
    BY <1>1, <1>2, TickStep, ResetStep DEF Next

THEOREM Inductive == Spec => []IInv
  BY Initially, NextKeeps, PTL DEF Spec

\* The tables, the tokens and the calls under way are what the code can hold.
THEOREM UserTypeCorrect == Spec => []TypeOK
  <1>1. IInv => TypeOK
    BY DEF IInv
  <1> QED
    BY <1>1, Inductive, PTL

\* No two accounts ever share an e-mail, however many replicas register at once.
THEOREM EmailsCorrect == Spec => []OneAccountPerEmail
  <1>1. IInv => OneAccountPerEmail
    BY DEF IInv
  <1> QED
    BY <1>1, Inductive, PTL

\* A role that was taken away is accepted for at most the lifetime of a token.
THEOREM DemotionCorrect == Spec => []DemotionTakesEffect
  <1>1. IInv => DemotionTakesEffect
    <2> SUFFICES ASSUME IInv, NEW t \in tokens, require_roles(t, Roles)
                 PROVE  /\ last_held[t.sub][t.role] # None
                        /\ now <= last_held[t.sub][t.role] + TTL
      BY DEF DemotionTakesEffect
    <2>1. t.sub \in Ids /\ t.role \in Roles /\ t.exp \in Nat
      BY DEF IInv, TypeOK, Token
    <2>2. /\ last_held[t.sub][t.role] # None /\ last_held[t.sub][t.role] \in Nat
          /\ t.exp <= last_held[t.sub][t.role] + TTL
      BY <2>1 DEF IInv, TypeOK, TokensFresh, Times
    <2>3. now <= t.exp /\ now \in Nat /\ TTL \in Nat
      BY UserBoundsAssumption DEF IInv, TypeOK, Times, require_roles, Accepted
    <2> QED
      BY <2>1, <2>2, <2>3
  <1> QED
    BY <1>1, Inductive, PTL

\* Nothing that clients do raises anybody before the first role is given out.
THEOREM ViewersCorrect == Spec => []ViewersUntilBootstrap
  <1>1. IInv => ViewersUntilBootstrap
    BY DEF IInv
  <1> QED
    BY <1>1, Inductive, PTL
=============================================================================
