# Formal model of the enterprise IT platform

TLA+ specifications of the platform's services, the TLC configurations that
check them on small instances, and TLAPS proofs of what matters most.

## 1. Inventory

| Component | State | Operations | Talks to |
|---|---|---|---|
| Incident Service (`grpc_servers/incident_server.py`, repositories, `domain/`) | tables `incidents`, `incident_updates`, `incident_change_links`; background tasks in memory | create, edit, status, severity, accept suggestions, assign, add update, link, unlink, delete; two AI tasks; backfill script | Postgres, CMDB, User, Audit, AI server |
| CMDB Service (`grpc_servers/cmdb_server.py`, `caching/`, `messaging/`) | tables of CIs and relationships; Redis keys `ci:`, `ci_with_owner:`, `related_cis:`, `cis:all` | create, update, delete, relate; cached reads | Postgres, Redis, RabbitMQ, User, Audit |
| Change Service (`ChangeService/`, C#) | table of changes | create, approve | Postgres, CMDB, Audit |
| User Service (`grpc_servers/user_server.py`, `auth/`) | table of users; roles inside signed tokens | register, log in, change role | Postgres |
| Audit Service (`grpc_servers/audit_server.py`) | append-only table | record, list | Postgres |
| Gateway (`main.py`, `routers/demo.py`, `grpc_clients/`) | none but the request under way | HTTP to gRPC, role checks, fan-out reads | all services |
| Angular client | per component: filter, page, answer shown, spinner; the URL; the token | queries and commands, one load per view | gateway |
| Scripts (`scripts/`) | none | backfill of summaries, seeding and resetting the demo data, command line clients (one polls a summary for 60 s) | services, Postgres |

What is hard in this code:

* **Interleaving.** Handlers are coroutines that suspend at every statement and
  RPC, every Deployment has two replicas, and nothing locks a row: no
  `SELECT ... FOR UPDATE`, no version column. Every check is made on a copy.
* **Stale copies.** A SQLAlchemy session keeps the object it loaded first, so the
  second SELECT in the repository functions does not bring newer values, while
  `db.refresh` after the commit does.
* **Constraints as the last guard.** Some checks have a constraint behind them
  (links, e-mail addresses), others have none (`incident_updates`).
* **No transaction spans two services.** A route asks one service after another, or
  several at once, and each of them may be down, die, or find another state than the one
  before.
* **Translations.** Codes, exceptions and HTTP statuses are three tables in three places.
* **Answers out of order.** The client does not cancel a request that it has overtaken.
* **Best effort.** Audit records, events, cache invalidation and AI answers may
  be lost at any time, and background tasks die with their replica.

The properties that make each component correct: *Incident Service*: forward
lifecycle, stamps that SLA computation can rely on, writers that do not
overwrite each other, links and updates that belong to an incident, an audit log
that tells what happened, summaries that do not stay pending. *CMDB*: relationships
name stored items, every write deletes the keys it outdates, and a cached value
does not stay stale. *Change Service*: one audited approval. *SLA*: a warning
before a breach, and reports that are not taken back.
*User Service*: one account per address, a token that shows a role its user really
had within its lifetime. *Gateway*: an answer that tells what happened, no error
without a status, an outage that fails only what needs the service, pages that show
what is there. *Client*: the list shown belongs to the link, and turning pages skips
nothing. The list of hazards with their lines is
in `PROJECT.json`.

## 2. Modules

| Module | What it is |
|---|---|
| `Lifecycle` | pure definitions of `domain/incident_lifecycle.py` and of the classifier's answers |
| `OrmSession` | what SQLAlchemy and Postgres do for one row of one session (external) |
| `IncidentService` | the service: tables, handlers, tasks, replicas |
| `ForwardLifecycle` | abstract: an incident moves forward one status at a time, until two requests contest it |
| `Milestones` | abstract: responded to, then resolved, never taken back |
| `IncidentServiceProps` | properties, refinement mappings, inductive invariant |
| `IncidentRaces` | the service with two history variables that name the incidents two status requests were at, and what holds of all others |
| `MCIncidentService`, `MCIncidentRaces` | constants for TLC |
| `IncidentServiceProofs` | TLAPS proofs |
| `CmdbService` | the CMDB Service, its relationships and its Redis cache |
| `CmdbServiceProps` | properties of it |
| `MCCmdbService`, `CmdbServiceProofs` | constants for TLC, TLAPS proofs |
| `ChangeService` | the Change Service and its properties |
| `ChangeApprovals` | the service with a history variable that names the changes two calls were approving at once |
| `MCChangeService`, `ChangeServiceProofs` | constants for TLC, TLAPS proofs |
| `Sla` | pure definitions of `domain/sla.py` |
| `IncidentSla` | one incident's SLA reports over time, while sessions with old copies change its status, and their properties |
| `MCIncidentSla`, `IncidentSlaProofs` | constants for TLC, TLAPS proofs |
| `UserService` | accounts, tokens, roles, and their properties |
| `MCUserService`, `UserServiceProofs` | constants for TLC, TLAPS proofs |
| `Routes` | three tables: which codes a service answers, which exceptions its client makes of them, which statuses a route makes of those |
| `Gateway` | requests to the gateway in front of five services that crash: the composition of the services, and its properties |
| `MCGateway` | constants for TLC |
| `GatewayProofs`, `GatewayAnswersProofs` | TLAPS proofs: every row of the tables is right, the tables and plans of the requests; what an answer or a page tells |
| `IncidentList` | `ListIncidents` and the Angular component that shows it page by page |
| `MCIncidentList`, `IncidentListProofs` | constants for TLC, TLAPS proofs |

`IncidentService`, `IncidentSla`, `CmdbService` and `UserService` are built on
`OrmSession`, `IncidentService` and `IncidentSla` on `Lifecycle`, `IncidentSla` on `Sla`,
`Gateway` on `Routes`. `IncidentRaces` and `ChangeApprovals` only watch: their history
variables read the service's state and restrict none of its steps (`WatchedNext` proves it
of the first; both passing runs of the Incident Service use its `RacesSpec`).

Definitions named after a mutation (`NoForeignKey`, `KeysOfRelationshipHalf`, ...) stand
next to the one they mutate; no specification uses them. Each shows that a
property would notice the bug it describes.

### How IncidentService corresponds to the code

`incidents` is a function from the stored ids to rows; title, description and
`ci_id`, which are always written together, are one column `details`.
`created_at`, `updated_at` and the unused `sla_*_notified` flags (the
`_sla_watch_loop` that `incident_model.py:30` mentions does not exist) are left
out. `updates` counts the history rows that name an id, `links` is the set of
pairs, `audit` the log of the audit service.

`calls[p]` is a coroutine: `pc` the statement it will run next, `loaded` the row
as its session first saw it, `pending` the same object after the assignments,
`todo` the assignments of the repository calls to come, `entry` the audit record
to send. A handler runs like this:

    request  --SELECT, validation-->  select  --SELECT, assignments-->  commit
    --UPDATE-->  refresh  --SELECT-->  audit  --RPC-->  (spawn -->)  idle

The action of a request stands for everything up to the first await at which
another request's work can matter. A request that an early return refuses before
anything is written changes nothing and is a stuttering step: its condition is
the guard of the request that is not refused. Refusals later on are explicit:

* `Select` on a row deleted meanwhile: NOT_FOUND for a handler, next call for a
  task.
* `CommitFails`: the UPDATE finds no row, `StaleDataError`, nothing catches it.
* `Refresh` on a row deleted meanwhile raises: committed, but never audited.
* `Delete` refused by the foreign key of a link raises; a DELETE that finds no row
  only warns, so the handler reports and audits a deletion.
* `InsertLink` refused by the foreign key or by UNIQUE raises.

The semantics of sessions is in `OrmSession`: the identity map, the UPDATE of
changed columns only, no UPDATE when nothing changed. It follows SQLAlchemy's
documented defaults and `data/database.py` (READ COMMITTED, `expire_on_commit =
False`), and is marked external.

Background tasks are processes of their own (`Tasks`), started by `Spawn` in the
handler's replica; `InferSummary` and `InferStatus` choose any answer the AI
client may give, None included. `Backfill` is the script, concurrent with the
service. `Crash(r)` forgets everything replica `r` had under way. `Tick` advances
the clock that `_apply_sla_timestamps` reads.

Nothing in the code keeps two status requests for one incident apart, so what they promise
has their races as its exception. `IncidentRaces` says exactly which: `contested` holds
the incidents of which two status requests were between their first SELECT and their
commit at once, `untold` those about which two were under way at once up to the audit
call, or whose audit record was lost, or whose replica died before sending it.

### How CmdbService corresponds to the code

`cis` and `relationships` are the tables, `cache` maps the Redis keys that exist to
a value and the ticks it has left. A key is a pair of a query shape and an id, as
`<<"ci", 1>>` for `ci:1`. Name, type, environment and team are one token `details`;
the owner is a column of its own, because `GetCIWithOwner` branches on it. A value
under `ci_with_owner` is the row it was made from, a value under `related_cis` the
set of rows in the list.

    read     Read (miss) --> Query --> (AskOwner | SelectMembers -->) SetCached
    create   CreateCI --> Publish --> RecordAudit
    update   UpdateCI --> Select --> CommitUpdate --> Invalidate ... --> RecordAudit
    delete   DeleteCI --> Select --> CommitDelete --> Invalidate ... --> RecordAudit
    relate   CreateRelationship --> Invalidate ... --> RecordAudit

Each arrow is an await at which other handlers run. A cache hit changes nothing and
is a stuttering step, and so is everything about `cis:all`, which `ListCIs` looks up
but never sets. The failures that the code catches are disjuncts of their action
(`MayFail`): a failed deletion skips the remaining keys of its `try` block. The ones
it does not catch end the call: a failed owner lookup, a DELETE that the foreign keys
refuse, an UPDATE that finds no row. ARD-0013 and ARD-0015 still say that reads do not
survive a Redis outage; the code has been guarded since, and the model follows the
code. The handlers set no deadline, so a call ends by itself or with its replica.

### How ChangeService corresponds to the code

`changes[n]` is the status of the row with id n (nothing else of a row ever
changes), `audit` the sequence of its audit records, `calls` the calls under way:
`ApproveChange` (find and check), `SaveChanges`, `RecordAuditEvent`. Any two calls may be at
one change. `overlapped` in `ChangeApprovals` is the history of the changes that two calls
were between `FindAsync` and `SaveChangesAsync` of.

### How Sla and IncidentSla correspond to the code

`ComputeSla` is `compute_sla` with the real targets; times are half seconds since
creation, because `int()` truncates the remaining time to whole seconds. In
`IncidentSla` the clock steps through the instants at which a report can change.
Each of `Sessions` changes the status as a handler does: `LoadForStatus` is the first
SELECT with the validation, `AssignStatus` the second, which returns the object already
loaded, with the assignment and `_apply_sla_timestamps` (a stamp is taken if this copy
has none), `Commit` the UPDATE of the changed columns, and `Lose` the death of the replica.
Between any two of them the other sessions may do the same, severities may change
(`UpdateSeverity`, among those in `Given`) and readers may look. `StaleCommit` is a commit
from a copy that is no longer what is stored. The clocks of the replicas and of the
database are taken to agree.

### How UserService corresponds to the code

`users` is the table, `tokens` what was issued and has not expired, and a handler is at
one of its awaits:

    register     CreateUser (hash) --> CheckEmail --> InsertUser
    log in       Login (read the row) --> IssueToken (verify, sign)
    change role  ThroughGateway | WithoutToken --> CheckAdmin --> SelectUser --> CommitRole

`ThroughGateway` is `require_roles` on a token of an admin, `WithoutToken` the call of
`seed_demo_data.py`, which makes the first admin. `Reset` truncates the tables while
tokens stay valid and ids are given again. `last_held` and `bootstrapped` are history:
when each id last had each role, and whether a role was ever changed without a token.

### How Routes and Gateway correspond to the code

`Routes` holds what the gateway is written down in: for each service the codes its
handlers set (`UserServicer`, `IncidentServicer`, ...), for each client what it raises
for them (`user_client`, ...), for each route whom its `Depends` lets through, which
calls it makes and which exceptions it catches (`UserRoutes`, `IncidentRoutes`, ...).

In `Gateway` a request is a record in `calls`: `route`, the calls under way (`todo`), what
was found (`got`), the audit entry due, the status, the services that were down meanwhile
(`dark`). `Request` starts it with the calls its route makes first, several at once for
`asyncio.gather`. A service answers a call with an error (`Refuse`), with something read
(`Read`) or after it wrote (`Write`, and `Record` for the audit entry of the write);
`Continue` and `Fail` are the body of the route: the calls that follow, the entries a
`return_exceptions=True` leaves out, the answer. `Crash` takes a service down between any
two steps, also between a write and its answer; `Restart` brings it back with its tables.
A service carries a write out in one step here, as the modules of the services take it
apart; only the columns are kept that another service's rows refer to. What their races do
to an answer is kept: `Watch` marks a call as `raced` when another one that gets in its way
(`InTheWayOf`, `Crosses`) commits while it is under way. Such a call may then end as one whose
statements the other came between (`Lost`): the UPDATE of a row that is gone and the INSERT
of a link against the foreign key or UNIQUE raise, while a DELETE that finds no row reports
success. `Unrefreshed` is the refresh of a row deleted since the commit: stored, never
audited, and answered with an error.

A request names the rows in `Asked` and is about ids, or carries `Unstorable`: a text with
a NUL byte or a date that Postgres cannot hold, which no schema and no handler refuses, so
the statement raises. A date that is merely malformed is none of these:
`_parse_iso` (`incident_server.py:67-73`) catches the ValueError and returns None, and the
filter is dropped.

### How IncidentList corresponds to the code

`rows` is the table; `Count` and `Select` are the two statements of `ListIncidents`,
between which others commit. The component is `filterForm` with its `debounceTime`
(`typing`) and `distinctUntilChanged` (`emitted`), the page, the URL's parameters and
`shown`, the answer that arrived last: `Type`, `FilterChanged`, `onPageChange`,
`Reload` (`loadIncidents` after a change was saved), `Receive`, `Fail`. One filter (status), the SLA
filter, which Python applies to all rows, and two columns to sort by stand for
the others. Two variables are history: `walk`, the pages shown one after the other since
the first, and `ahead`, whether a page was turned during the debounce since
`distinctUntilChanged` let something through.

Incidents may have the same `created_at`: the migration `b7c2e4f9a1d6` that added the
column gave all the rows there were one value, and two transactions may begin in the same
microsecond. Among ties `Select` takes any order, and another one for the next query.

The component is opened with any of `Links`. A link may have a date that is no date:
`loadIncidents` sets the spinner, then `buildFilter` throws a RangeError (`Throws`), so that no
request is sent. In `ngOnInit` this happens before the subscription to `valueChanges`, so
the component does not listen to its form from then on (`listening`); only a reload after
the field was emptied loads the list.

## 3. Runs

The runs of the Incident Service use two handlers and two tasks in two replicas.
Deadlock is checked where the clock or the reads keep a system going; elsewhere the
bounds on requests stop it.

| Run | Shows |
|---|---|
| `shared_row` | edits, status, assignment, accepted suggestions, deletions and both AI tasks on one row, from old copies, with crashes; both handlers change the status: `TypeOK`, `SlaStampsPresent`, the refinement of `Milestones` (`MilestonesInOrder`), `ColumnsChangeOnlyByOwners`; and of every incident that no two status requests were at: the refinement of `ForwardLifecycle` (`ForwardUnlessContested`), stamps set once (`StampedOnceUnlessContested`), an audit trail that tells the whole status history (`TrailTellsStatus`) |
| `links_summaries` | two incidents linked, unlinked, updated and deleted by both handlers while their summaries are generated by the tasks and by the backfill script: `LinksPointToStored`, `LinkTrailBalanced`, `AuditedDeletionsAreGone`, and, under fairness, no summary stays pending (`PendingResolves`) |
| `bug_forward_only` | `ForwardOnly` is **violated**: two requests validated against the same status move a resolved incident back |
| `cmdb_relations` | two items related, listed and deleted by two handlers: `RelationshipsPointToStored`, `AuditedDeletionsAreGone`, `InvalidationsOwed` |
| `cmdb_coherence` | two handlers edit, delete and read one item, every neighbour fails, replicas crash: `TypeOK`, and, under fairness, the cache agrees with Postgres in the end (`EventuallyCoherent`) |
| `bug_edit_invisible` | `EditsVisible` is **violated**: `GetCI`, which missed the cache, sets the row it read before `UpdateCI` committed, after `UpdateCI` has deleted the key |
| `change_approvals` | three calls create and approve changes, two of them approving, with crashes and lost records: `TypeOK`, `AuditedApprovalsHold`, `ApprovedOnceUnlessOverlapped` |
| `bug_approved_twice` | `ApprovedOnce` is **violated**: two calls find the change requested, both save it approved and both audit an approval |
| `sla_boundaries` | two severities, two sessions that change the status over each other's commits, every order of milestones, deadlines and warnings: `MetMeansInTime`, `WarnedFirst`, `ReportsAreFinal`, `CountsDown` |
| `users_tokens` | two handlers register, log in and change roles of two addresses, with and without a token, while the clock expires tokens, replicas crash and the tables are reset: `TypeOK`, `OneAccountPerEmail`, `DemotionTakesEffect`, `ViewersUntilBootstrap` |
| `gateway_requests` | two operators and a viewer call every route of the gateway at once, with inputs that Postgres refuses among them and calls that lose races, in front of services that crash: `TypeOK`, `LinksJoinRows`, `ManagersWrite`, `EveryErrorHandled`, `AnswersTellWhatHappened`, `OutagesAreContained`, `AuditTrailComplete`, `PagesTellTheTruth`, and, under fairness, every request is answered (`RequestsAnswered`) |
| `list_client` | a user opens the list by a link, also one with a malformed date, types filters, turns pages and reloads while others create, change and delete incidents and answers come late, swapped or not at all: `CountFitsPage`, `NothingSkipped`, `ViewIsLinked`, and, under fairness, `LoadingEnds` |

The three violations are disagreements between the code and its own comments and
decision records; `PROJECT.json` quotes them under "findings". They have one cause: a
step that relies on what was read before and that the write does not check again. With
one actor the promise holds, with two it does not. Beside each stands a run that shows
how much of the promise is left: `shared_row` beside `bug_forward_only` and
`change_approvals` beside `bug_approved_twice` show the overlap to be the only way to
break it.

Consequences of the same cause that the models contain but that have no run of
their own:

* The second of two overlapping requests for one status finds the stamp of its copy empty
  and moves the SLA stamp, which the comment at `incident_repository.py:132-133` means to
  rule out (`StampedOnceUnlessContested` is about the other incidents).
* A refresh that reads another request's status makes the audit log show a transition
  that nobody made, such as open to resolved (`TrailTellsStatus` is about incidents that
  are not `untold`).
* A stale status session can turn a report from on_track or met into breached without a
  warning, because it moves a stamp past its deadline, and can withdraw the report of a
  resolved incident by taking its status back. `WarnedFirst`, `ReportsAreFinal` and
  `CountsDown` name this as their exception and show that nothing else does it.
* An incident deleted between the existence check and the insert of its update leaves an
  update row without an incident, which the comment at `incident_server.py:248-250` means
  to rule out and no foreign key does.
* The backfill, started while an incident's own task is under way, can mark a
  summary failed that has become ready.
* `UpdateCI` deletes the keys of the item but not the `related_cis` lists of other
  items that hold a copy of its columns. These stay old until they expire, which
  `EventuallyCoherent` covers; `OutOfDate`, from which `InvalidationsOwed` and
  `EditsVisible` are built, leaves them out on purpose.

What the composition shows, where a property has an exception:

* 503 says nothing about whether a change was stored: a service that dies after its
  commit answers nothing. `AnswersTellWhatHappened` is about the other statuses.
* `cmdb_client` has no exception for a missing row, so `UpdateCI` and `DeleteCI` of a
  missing item come out as 503, and so does what a foreign key refuses (a linked
  incident, an item with relationships, an unknown owner). `OutagesAreContained` names
  these four routes.
* With every service up, 503 also answers whoever loses a race: the row was deleted under
  its UPDATE, or the same link stored first. If it was deleted between commit and refresh,
  the change was stored and has no audit entry. And it answers whoever sends what
  Postgres refuses: the services raise, and nothing between browser and
  statement has looked. `OutagesAreContained` says that only these losers can have changed
  something.
* `get_ci` fails while any service is down, as its `gather` has no `return_exceptions`,
  and shows the newest 100 incidents of an item as if they were all
  (`PageLimit` in `PagesTellTheTruth`).
* A page whose entries could not be fetched is answered with 200 and is shorter:
  `PagesTellTheTruth` promises completeness only when the services were up.

And in the list:

* The answer that arrives last is shown. If it is not the answer to the last request,
  the list belongs to another filter or page than the link (`ViewIsLinked` asks for the
  last answer to arrive last).
* A reload during the debounce sends the filter that is being typed. If it is then
  typed back, `distinctUntilChanged` lets nothing through and the view of the abandoned filter
  stays, under a URL that says otherwise.
* A page turned during the debounce puts the filter that is being typed into the URL. If
  it is then typed back, `distinctUntilChanged` lets nothing through, the URL keeps the
  abandoned filter, and a later reload shows the old one under it. It takes three edits
  and four requests, one each beyond the bounds of `list_client`: the attempt to prove
  `ViewIsLinked` showed that it was false without `~ahead`.
* An incident created between the count and the select of the last page moves a row
  past it that nobody sees, and rows with ties have no order from one query to the next:
  those of one status or severity, and those of before the migration, which share their
  `created_at`. `NothingSkipped` is about a quiet last page of a list by `created_at` and
  excepts ties.
* A commit between the count and the select makes the total and the page disagree for that
  one answer. `CountFitsPage` excepts exactly this answer, shows that none other has it, and
  that a filter by SLA state never has.
* A link with a malformed date leaves the spinner for good and a form that nobody listens
  to. `LoadingEnds` holds from the next load on.

**Bounds.** A race here needs two sessions on one row, so two handlers and one
incident show it; the second incident in `links_summaries` is there
because a freed id must not be confused with a new one. `MaxCalls` (4, or 5 in
`bug_forward_only`) is
the number of accepted requests: one to create, one for each of the
transitions, and one or two more to race or to delete. `MaxTime` is 2 where two
time stamps must be told apart, else 1. `Tasks` bounds the background tasks under
way, which the code does not bound; a handler waits for a free one. The words
clients send include one in upper case, so that normalisation matters.

In the CMDB runs two handlers suffice for the same reason; `MaxCIs` is 1 where one
item's keys are the subject and 2 for relationships, `MaxWrites` (3 or 4) allows a
creation, an edit, a deletion and one more write to race with. Reads are not
bounded. `TTL` is 1 or 2 ticks: a value expires at any moment between two steps, and
with 2 a key that is set again lives longer than the one it replaces. In the Change
Service's run two of the three calls approve and `MaxChanges` is 2: one change to be
overlapped and one that is not. In `sla_boundaries` the instants are, for each
of the four targets of `Given`, the last half second in time and the first too late, and the
last without and the first with a warning: between two of them no report changes
except by its countdown. Two severities show a change of severity in either direction; the
arithmetic of the others differs only in the targets, and the proofs cover them. Two
sessions are as many as it takes for one copy to be old.

In `users_tokens` two addresses race for one and have one each; a token lives one tick,
so that it expires while its user is demoted, and `MaxTime` lets two lifetimes pass.
Self-registered roles are viewers, so the two roles in `Requested` give every step up
and down. In `gateway_requests` the three clients send two requests between them after
every choice of routes, so that any two routes of the shared tables interleave step by
step, and one service crashes and may come back at any time: the property about one
request needs one other request to break, and one dead service. There are two incidents of
one item and one link to begin with, `Asked` names rows that are there,
that come and that go,
`MaxRows` leaves room for new rows in each table, and a page of one is exceeded by two. In
`list_client` two incidents and one commit are enough
to put a row on the other side of a page of one; three requests to have an old answer
arrive between two new ones; two edits to type a filter and to type it back. `Seeds` are
two incidents that follow each other and two that share their `created_at`, `Links` the list as it is
first and one with a malformed date.

**Audit delivery.** `AuditOutcomes` is `{"recorded"}` where the log is the subject
and `{"lost"}` where it is not. `links_summaries` compares the whole log with the table, so it
loses no record and no replica. In `shared_row` replicas die before the audit call; an
incident that this happens to is `untold`, and so would be one whose record the audit
service loses.

**Fairness.** `links_summaries` uses weak fairness of each handler's, each task's and
each session's next step: the event loop resumes every coroutine whose await has
finished, statements finish or raise, and the AI client catches every exception
and returns None. No fairness is assumed of clients, the clock or crashes.
`cmdb_coherence` uses weak fairness of each handler's next step (calls to Postgres,
Redis and the other services return or raise) and of the clock. It assumes nothing of
clients, every call may fail, and replicas may crash.
`gateway_requests` uses weak fairness of each client's `Serve`: a service that is up
works on what it was asked, and the channel to one that is down fails at once, as none
of them sets `wait_for_ready`. Nothing is assumed of clients, crashes and restarts: a
service may stay down. `list_client` uses weak fairness of each request: it is answered
or fails, and nothing is assumed of the user.
`PendingResolves` is checked without crashes, because with them it is false: the
task set lives in memory and nothing restarts it (only the backfill script, by
hand).

## 4. Proofs

`IncidentServiceProofs` proves, for any number of handlers, tasks, replicas,
incidents, requests and ticks:

* `TypeCorrect`: `Spec => []TypeOK`
* `StampsCorrect`: `Spec => []SlaStampsPresent`
* `LinksCorrect`: `Spec => []LinksPointToStored`
* `Inductive`: `Spec => []IInv`, from which the three follow
* `ColumnOwnership`: `Spec => ColumnsChangeOnlyByOwners`
* `ImplementsMilestones`: `Spec => MilestonesInOrder`, the refinement of `Milestones`
* `DeletionsTrue`: `Spec => []AuditedDeletionsAreGone`
* `LinkTrail`: `Spec => []LinkTrailBalanced`, for finitely many handlers, if no audit event
  is lost and no replica dies
* `ImplementsLifecycle`: `RacesSpec => ForwardUnlessContested`, the refinement of
  `ForwardLifecycle`
* `StampsKept`: `RacesSpec => StampedOnceUnlessContested`
* `StatusTrail`: `RacesSpec => []TrailTellsStatus`

The last three assume nothing about who writes, what is lost or what dies: the exceptions
are in the history variables, incident by incident.

Assumptions: those named in `IncidentService` (handlers are not tasks, the
classifier answers valid words or None, None is no value of a column), which TLC
evaluates in every run.

Why `SlaStampsPresent` needs more than itself: a commit writes from an old copy,
so the invariant has to say how a copy relates to the row. `IInv` does so for
every session: the copy had its stamps (`StampsPresent`), the row has every stamp
that the copy has (`KeepsStamps`: a copy can only lag behind), and the session
left alone the stamps it found set (`LeavesStamps`). `FlushStamps` is the heart: an
UPDATE of the changed columns from such a copy writes a status only together with
its stamps or over a row that has them, and clears no stamp. The frame lemma
`GoodCallFrame` then carries every other session over the step. `IInv` was found
with TLC (`shared_row`) before it was proved.

The others stand on `IInv` and on `Discipline`, which says what a call observes by itself,
whatever the tables hold: it is one its handler serves, what its session will write
belongs to its operation (`Owned`), a session resolves only what it has seen responded
to, and an audit entry is about the incident of its call and tells of its operation.

* *Steps of a row.* What a step does to a stored row is one of three things (`RowSteps`):
  nothing, or an insertion or deletion, or one session's UPDATE of the columns it
  changed (`Overwritten`). Ownership and both refinements are proved once for
  `Overwritten` instead of action by action. For `Milestones` a step may also be a
  stutter: a session with an old copy writes a status over a later one, and the milestones,
  which are read off the stamps, stay.
* *Deletions.* `DeletionsInv`: what the log, or a call about to record it, says is deleted
  has an id below `next_id` and no row, and ids are not given twice.
* *Links.* The log can only be compared with `links` by counting, of any number of
  handlers: an entry that a call is about to record counts already, so that the count
  changes in the statement that inserts or deletes the link, and `AuditArrival` says that
  moving it into the log changes no count. Without the conditions it is false of the code:
  a lost `change_unlinked` leaves two links in the log for one in the table.
* *Races.* `RaceInv` says that the history has seen what is going on now: whoever is not
  `contested` has at most one status request between read and commit, whoever is not `untold`
  at most one up to the audit call. `CopiesFresh` then says that the copy of a status request for
  an incident outside `contested` agrees with the row in the status and both stamps: other
  operations' commits leave these columns alone (`OtherCommit`), and a second status commit would have
  put the incident into `contested`. Inside it this is false, and `bug_forward_only` shows
  what follows. From it `LifecycleStep` maps every step to one of `ForwardLifecycle` or to a
  stutter; an incident that becomes contested takes the abstract step `Contest`, and of what it
  does from then on nothing is said.
* *The trail.* `TrailInv` says, for each point of a status request outside `untold`, where the log
  stands: at the row's status until the UPDATE, one transition behind it until the entry
  has arrived. `Watch` puts an incident into `untold` in the step that loses its entry, so
  that the property needs no condition on losses and crashes.

`CmdbServiceProofs` proves, for any number of handlers, items, writes and any
time-to-live:

* `CmdbTypeCorrect`: `Spec => []TypeOK`, inductive by itself: what a handler holds
  determines what it can put into the tables and the cache.
* `RelationshipsCorrect`: `Spec => []RelationshipsPointToStored`; a deletion commits
  only if no relationship names the item, an insertion only if both ends are stored.
* `InvalidationsCorrect`: `Spec => InvalidationsOwed`, an action property: for each
  action that changes a table or the cache, which keys it can put out of date, and
  that the handler owes them or is a reader setting what it holds.
* `CmdbDeletionsTrue`: `Spec => []AuditedDeletionsAreGone`, with an invariant of the same
  form as that of the Incident Service.

`ChangeServiceProofs` proves, for any number of calls, replicas and changes:

* `ChangeTypeCorrect` and `ApprovalsCorrect`: `Spec => []AuditedApprovalsHold`, with
  the strengthening that a call about to record an approval has stored it.
* `ApprovedOnceCorrect`: `HistorySpec => []ApprovedOnceUnlessOverlapped`, for any number of
  approvers. `HistoryInv` says of every change that is not `overlapped` that a call about to
  save it has found a status that is still there, that the log has no approval of it
  while a call is about to record one, and that one call at most is. Of an overlapped change
  this is false: both calls find it requested, and each saves and records an approval
  (`bug_approved_twice`).

`UserServiceProofs` proves, for any number of handlers, addresses, accounts and ticks:

* `UserTypeCorrect` and `EmailsCorrect`: `Spec => []OneAccountPerEmail`; the constraint
  is all it takes, as no row ever changes its address.
* `DemotionCorrect`: `Spec => []DemotionTakesEffect`. The invariant adds that a token
  expires within one lifetime of the moment its role was last held, and that a login
  under way verifies a role that is held now or was within this tick.
* `ViewersCorrect`: `Spec => []ViewersUntilBootstrap`; the invariant adds that a login
  under way signs a viewer and that a change of role under way has no vouching token.

`IncidentSlaProofs` proves of the SLA reports, for any set of instants (so for any
timing of requests, commits, crashes and reads):

* `StampsNeverMissing`: however sessions overlap, the row lacks no stamp that its status
  calls for, and no stamp lies in the future. The other direction is false: a stale session
  can put a resolved incident back and leave `resolved_at`. Its `IInv` adds of each session
  that its copy was such a row, that the row has the stamps the copy has, and that what it
  assigned was stamped at some time in the past (`SessionOk`). `CommitFacts` says what a commit
  then makes of the row.
* `MetCorrect`: `Spec => []MetMeansInTime`.
* `ReportsFinal`: `Spec => ReportsAreFinal`, with the commit of a stale session that moves a stamp or
  takes the status back as its only exception. `ReportSays` states what a report says of a
  row, `DoneReport` that it then depends on the row alone, `BreachWithdrawn` what it takes
  to withdraw a breach, `StepFacts` what a step does to the row and the clock, and
  `StaleOnly` that a step which takes back a status or moves a stamp is a commit from an
  old copy.
* `CountdownRunsDown`: `Spec => CountsDown`, from the monotony of the truncation to
  whole seconds; it too excepts that a stale session takes a resolution back.
* `WarningsFirst`: `Spec => WarnedFirst`, if the instants are such that between one that
  sees an incident on track and its deadline there is another (`Watched`): a reader who
  looks less often may miss the warning. `LookingWhenDue` shows this of the instants of
  `sla_boundaries`, which have every deadline among them. As stamps are taken in the past,
  a first stamp cannot turn on_track into breached, while a second one can; `TickInTime` says
  that the clock passes no deadline that an incident is on track for. `EveryThreeMinutes` shows that looking every three
  minutes is enough as well, for the targets in the code.

The gateway is proved in two modules, for any number of clients, users, roles, rows and
crashes, and for any choice of routes that each client calls.

* `GatewayProofs` first goes through the tables, row by row, and proves of every route
  (`TableRight`) that what it calls exists, that whoever may not manage calls nothing that
  writes, and that each failure of each call it makes has a status of its own.
  Then it proves `GatewayInductive`: `Spec => []IInv`. `Plans` says where a request
  may be: its caller has the role of its route, its calls are those the route may make, about the
  ids it was given, and a call that writes is the only one; a request about to link has
  found the change, and as changes are never deleted it is still there. `RoomOk` says
  that there is room for each row under way. From these follow
  `GatewayTypeCorrect`, `LinksCorrect` (`LinksJoinRows`) and `ManagersCorrect`
  (`ManagersWrite`).
* `GatewayAnswersProofs` proves `AnswersInductive` on top of it, that every answer is
  true: `ErrorsHandled` (`EveryErrorHandled`), `AnswersCorrect`
  (`AnswersTellWhatHappened`), `OutagesContained` (`OutagesAreContained`) and
  `AuditComplete` (`AuditTrailComplete`). The heart is `RefuseTold`: `CodeKinds` lists why a
  call can fail in any state, and the lemmas about the tables say which status each
  reason becomes: `Told` is what an answer says, of calls that raced and of unstorable inputs
  too. `CrashAnswers` is the case of a service that dies after it wrote,
  `UnrefreshedAnswers` that of a row deleted after its commit.
  `PagesTrue` (`PagesTellTheTruth`) relates a page to what was ever and always related
  while it was fetched: `PagesOk` says of a page under way that what it shows or asks about
  was related once, and that what was related all the time it shows, asks about or has
  still to learn of, unless one of the property's excuses holds already.

`IncidentListProofs` proves of the list, for any number of rows, requests, commits and
edits, any filters and any page sizes:

* `PagesFit`: `Spec => []CountFitsPage`. `CountsOk` says that a count under way is that of
  the table as long as nobody has committed since; `SliceFacts` gives the length of a page.
* `ViewLinked`: `Spec => []ViewIsLinked`. `InStep` says how the form, the URL and what
  `distinctUntilChanged` let through last stand to each other, `LastSettled` that the last
  request, and the answer to it if that is shown, asked for what the URL says and for what the
  form says or said when the typing began. Without `ahead` neither is invariant.
* `WalkComplete`: `Spec => []NothingSkipped`. What of a walk's incidents was not seen yet
  comes, unless it is tied with another row, after at least as many rows as the pages so far
  hold (`Reached`). Pages fit
  together because the place on a list by `created_at` of a row without ties is the number of rows
  before it (`PlaceOfRow`), and a row's place only grows when incidents are created
  (`ReachedKept`): a row that moves back is shown again and one that was not shown is not
  passed. An answer that was asked for from the page shown keeps what it will add to
  the walk until another one arrives (`AnswersOk`, `FromShown`).

Types (`Types`) and these parts are one inductive invariant, `LInv`. It was checked with TLC
before it was proved, also with more edits and requests than in `list_client`.

Assumptions are the named ones of each module: TLC evaluates them in every run.

Only model-checked: liveness (`PendingResolves`, `EventuallyCoherent`, `RequestsAnswered`,
`LoadingEnds`), which is out of the prover's reach. Every invariant and every action property of
a run, and both refinements, are proved.

## 5. Not modelled, and why

* Reads that only fetch a row (their answers are in `Gateway`), `ListAuditEvents`, and
  `ListCIs`, which never sets the key it looks up.
* Validation by the schemas: an input that is refused there reaches no service. Nor does
  a value that the protocol cannot carry (a lone surrogate in a text, an id beyond 32 bits):
  building the message raises in the gateway, outside of what the routes catch, and the answer
  is 500.
* The components of the client other than the list: each loads once and shows what
  arrives. Styling, static pages and response headers.
* Prompts and the AI model: any answer the AI client may return is allowed.
* Passwords and signatures: a token is what `Login` signed.
* Generated protocol code, metrics and traces, and the deployment beyond replicas,
  crashes and restarts. Migrations, except for the constraints they leave behind.
* The consumer of CI events, which is an example, and the in-memory services of an earlier
  version, which no route uses.

## 6. What is left

* A composition of `IncidentService` and `IncidentList` with more than one commit per
  page, which is beyond the size that TLC explores in minutes.
* `LinkTrailBalanced` is proved where no audit event is lost and no replica dies. A history
  variable like `untold` would lift the condition link by link.
* `EveryErrorHandled` and its like are about the composed services of `Gateway`, which
  carry out a write in one step and keep of its races that they happened; that
  `IncidentService` and `CmdbService` implement these steps is not stated as a refinement.
