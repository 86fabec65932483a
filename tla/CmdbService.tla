----------------------------- MODULE CmdbService -----------------------------
(***************************************************************************)
(* The CMDB Service: src/server/grpc_servers/cmdb_server.py with its       *)
(* repository and the Redis cache of src/server/caching/cache.py.          *)
(*                                                                         *)
(* Reads go through the cache: look the key up, on a miss query Postgres   *)
(* and set the key with a time-to-live.  Writes commit first and delete    *)
(* the keys they know of afterwards, one call after another.  Handlers of  *)
(* two replicas interleave at every one of these awaits, and nothing ties  *)
(* a value that a reader is about to set to the row it came from.          *)
(*                                                                         *)
(* A request that an early return or a constraint refuses at its first     *)
(* statement changes nothing, so its condition is the guard of the request *)
(* that is not refused.  ListCIs never sets the key cis:all that it looks  *)
(* up, so it leaves no trace, and neither does deleting that key.          *)
(***************************************************************************)
EXTENDS OrmSession, Naturals, Sequences

CONSTANTS
  Handlers,     \* concurrent handler coroutines, over all replicas
  Replicas,     \* processes of the Deployment
  Home,         \* the replica each handler runs in
  Serves,       \* the operations that clients call through each handler
  Details,      \* what name, ci_type and environment say, as one token
  Owners,       \* ids in the table users
  Failures,     \* which of Redis, RabbitMQ, User and Audit Service may fail
  TTL,          \* clock ticks a key lives (tti_seconds)
  MayCrash,     \* whether replicas crash and restart
  MaxCIs,       \* bound: items ever created
  MaxWrites,    \* bound: mutations ever accepted
  None          \* Python's None, SQL's NULL

Services == {"redis", "rabbitmq", "users", "audit"}
ReadOps  == {"ci", "ci_with_owner", "related_cis"}
WriteOps == {"CreateCI", "UpdateCI", "DeleteCI", "CreateRelationship"}

ASSUME PlacementAssumption == Home \in [Handlers -> Replicas]
ASSUME OperationsAssumption == Serves \in [Handlers -> SUBSET (ReadOps \cup WriteOps)]
ASSUME FailuresAssumption == Failures \subseteq Services
ASSUME TTLAssumption == TTL \in Nat \ {0}
ASSUME BoundsAssumption == MaxCIs \in Nat /\ MaxWrites \in Nat
ASSUME SwitchAssumption == MayCrash \in BOOLEAN
ASSUME NoneAssumption == None \notin Owners /\ "absent" \notin Owners

VARIABLES
  cis,            \* table configuration_items: id -> row, for the ids stored
  next_id,        \* its id sequence
  relationships,  \* table ci_relationships: pairs <<source, target>>
  cache,          \* Redis: key -> [value, left], for the keys it holds
  events,         \* ids announced on the exchange cmdb_events
  audit,          \* what the audit service recorded: pairs <<action, CIs>>
  calls,          \* where each handler is, and what it holds
  served          \* mutations accepted so far

tables == <<cis, next_id, relationships>>
vars == <<cis, next_id, relationships, cache, events, audit, calls, served>>

Ids    == 1..MaxCIs
CIRow  == [details: Details, owner_user_id: Owners \cup {None}]
Keys   == ReadOps \X Ids

\* NULL is no row either.
ASSUME NoRowAssumption == None \notin CIRow

KeyCI(k) == k[2]
Stored(i) == i \in DOMAIN cis

\* The other ends of the relationships that name i.
RelatedIds(i) ==
  {r[2] : r \in {x \in relationships : x[1] = i}} \cup
  {r[1] : r \in {x \in relationships : x[2] = i /\ x[1] # i}}

\* Mutant: the foreign keys are missing.
UnreferencedNever(i) == TRUE

\* No relationship names i: what the two foreign keys ask of a deletion.
Unreferenced(i) == RelatedIds(i) = {}

MayFail(service) == service \in Failures
-----------------------------------------------------------------------------
(***************************************************************************)
(* Handlers.  A reader holds the key it serves and what it has read so     *)
(* far; a writer holds the row it loaded, the row it asks for, the keys    *)
(* it still has to delete and the audit record it will send.               *)
(***************************************************************************)
Idle == [pc |-> "idle"]

Reader(pc, key, held) == [pc |-> pc, key |-> key, held |-> held]

Writer(pc, op, i, loaded, pending) ==
  [pc |-> pc, op |-> op, id |-> i, loaded |-> loaded, pending |-> pending]

\* A writer whose commit is done: "owed" are the keys it still has to delete.
Committed(pc, action, entity, owed) ==
  [pc |-> pc, action |-> action, entity |-> entity, owed |-> owed]

At(h, pc) == calls[h].pc = pc
Become(h, call) == calls' = [calls EXCEPT ![h] = call]
Serving(h, op) == At(h, "idle") /\ op \in Serves[h]

Accept(h, op, call) ==
  /\ Serving(h, op)
  /\ served < MaxWrites
  /\ served' = served + 1
  /\ Become(h, call)

\* Mutant: HasField is forgotten, and an absent field reads as 0.
OwnerColumnUnchecked(owner) == IF owner = "absent" THEN 0 ELSE owner

\* A request without the optional field stores NULL.
OwnerColumn(owner) == IF owner = "absent" THEN None ELSE owner

OwnerInputs == Owners \cup {"absent"}
-----------------------------------------------------------------------------
(***************************************************************************)
(* Redis.                                                                  *)
(***************************************************************************)
Cached(k) == k \in DOMAIN cache

\* Mutant: keys are set without an expiry.
WithKeyForever(k, value) ==
  [x \in DOMAIN cache \cup {k} |->
     IF x = k THEN [value |-> value, left |-> None] ELSE cache[x]]

\* SET with an expiry replaces value and expiry alike.
WithKey(k, value) ==
  [x \in DOMAIN cache \cup {k} |->
     IF x = k THEN [value |-> value, left |-> TTL] ELSE cache[x]]

WithoutKeys(K) == [k \in DOMAIN cache \ K |-> cache[k]]

\* What a tick of the clock leaves; a key without an expiry (None) is not touched.
Aged(c) == [k \in {x \in DOMAIN c : c[x].left # 1} |->
              [c[k] EXCEPT !.left = IF @ = None THEN None ELSE @ - 1]]
-----------------------------------------------------------------------------
(***************************************************************************)
(* Reads: GetCI, GetCIWithOwner, GetRelatedCIs.  A hit is answered and     *)
(* leaves no trace; a miss, or a Redis that fails, goes on to Postgres.    *)
(***************************************************************************)
Read(h, k) ==
  /\ Serving(h, k[1])
  /\ ~Cached(k) \/ MayFail("redis")
  /\ Become(h, Reader("query", k, None))
  /\ UNCHANGED <<tables, cache, events, audit, served>>

\* The SELECT; a missing item is answered NOT_FOUND and not cached, an item
\* with an owner is asked of the User Service, a list needs a second SELECT.
Query(h) ==
  LET k == calls[h].key
      i == KeyCI(k)
      related == RelatedIds(i)
  IN
  /\ At(h, "query")
  /\ \/ /\ k[1] \in {"ci", "ci_with_owner"} /\ ~Stored(i)
        /\ Become(h, Idle)
     \/ /\ k[1] = "ci" /\ Stored(i)
        /\ Become(h, Reader("set", k, cis[i]))
     \/ /\ k[1] = "ci_with_owner" /\ Stored(i)
        /\ Become(h, Reader(IF cis[i].owner_user_id = None THEN "set" ELSE "owner",
                            k, cis[i]))
     \/ /\ k[1] = "related_cis"
        /\ Become(h, IF related = {} THEN Reader("set", k, {})
                     ELSE [pc |-> "members", key |-> k, ids |-> related])
  /\ UNCHANGED <<tables, cache, events, audit, served>>

\* GetUserById; its failure is raised, and nothing is cached.
AskOwner(h) ==
  /\ At(h, "owner")
  /\ \/ Become(h, [calls[h] EXCEPT !.pc = "set"])
     \/ MayFail("users") /\ Become(h, Idle)
  /\ UNCHANGED <<tables, cache, events, audit, served>>

\* SELECT ... WHERE id IN related_ids
SelectMembers(h) ==
  LET found == {<<i, cis[i]>> : i \in {x \in calls[h].ids : Stored(x)}} IN
  /\ At(h, "members")
  /\ Become(h, Reader("set", calls[h].key, found))
  /\ UNCHANGED <<tables, cache, events, audit, served>>

\* set_cached, whose failure is swallowed
SetCached(h) ==
  /\ At(h, "set")
  /\ \/ cache' = WithKey(calls[h].key, calls[h].held)
     \/ MayFail("redis") /\ UNCHANGED cache
  /\ Become(h, Idle)
  /\ UNCHANGED <<tables, events, audit, served>>
-----------------------------------------------------------------------------
(***************************************************************************)
(* Writes.                                                                 *)
(***************************************************************************)
CreateCI(h, details, owner) ==
  LET row == [details |-> details, owner_user_id |-> OwnerColumn(owner)] IN
  /\ next_id <= MaxCIs
  /\ Accept(h, "CreateCI", Committed("publish", "ci.created", {next_id}, << >>))
  /\ cis' = [i \in DOMAIN cis \cup {next_id} |-> IF i = next_id THEN row ELSE cis[i]]
  /\ next_id' = next_id + 1
  /\ UNCHANGED <<relationships, cache, events, audit>>

\* publish_event, whose failure is swallowed
Publish(h) ==
  /\ At(h, "publish")
  /\ \/ events' = events \cup calls[h].entity
     \/ MayFail("rabbitmq") /\ UNCHANGED events
  /\ Become(h, [calls[h] EXCEPT !.pc = "audit"])
  /\ UNCHANGED <<tables, cache, audit, served>>

UpdateCI(h, i, details, owner) ==
  LET asked == [details |-> details, owner_user_id |-> OwnerColumn(owner)] IN
  /\ Stored(i)
  /\ Accept(h, "UpdateCI", Writer("select", "UpdateCI", i, cis[i], asked))
  /\ UNCHANGED <<tables, cache, events, audit>>

DeleteCI(h, i) ==
  /\ Stored(i)
  /\ Accept(h, "DeleteCI", Writer("select", "DeleteCI", i, cis[i], None))
  /\ UNCHANGED <<tables, cache, events, audit>>

\* The repository's own SELECT: NOT_FOUND if the item went meanwhile.
Select(h) ==
  /\ At(h, "select")
  /\ Become(h, IF Stored(calls[h].id) THEN [calls[h] EXCEPT !.pc = "commit"] ELSE Idle)
  /\ UNCHANGED <<tables, cache, events, audit, served>>

\* The keys that UpdateCI and DeleteCI delete, in this order.
KeysOfCI(i) == << <<"ci", i>>, <<"ci_with_owner", i>> >>

\* Only the columns that differ are written.  If none does, nothing is, not
\* even when the row is gone; if one does and the row is gone, the commit
\* raises StaleDataError, which nothing catches.
CommitUpdate(h) ==
  LET call == calls[h]
      i == call.id
      dirty == DirtyColumns(call.loaded, call.pending) # {}
  IN
  /\ At(h, "commit") /\ call.op = "UpdateCI"
  /\ \/ /\ dirty => Stored(i)
        /\ cis' = IF dirty
                  THEN [cis EXCEPT ![i] = Flush(@, call.loaded, call.pending)]
                  ELSE cis
        /\ Become(h, Committed("invalidate", "ci.updated", {i}, KeysOfCI(i)))
     \/ /\ dirty /\ ~Stored(i)
        /\ Become(h, Idle)
        /\ UNCHANGED cis
  /\ UNCHANGED <<next_id, relationships, cache, events, audit, served>>

\* Mutant: a refused DELETE is reported like a successful one.
DeletedRegardless(i) == Committed("audit", "ci.deleted", {i}, << >>)

\* IntegrityError is raised, nothing catches it.
Refused(i) == Idle

\* A DELETE that finds no row only warns.
CommitDelete(h) ==
  LET i == calls[h].id IN
  /\ At(h, "commit") /\ calls[h].op = "DeleteCI"
  /\ \/ /\ ~Stored(i) \/ Unreferenced(i)
        /\ cis' = [j \in DOMAIN cis \ {i} |-> cis[j]]
        /\ Become(h, Committed("invalidate", "ci.deleted", {i}, KeysOfCI(i)))
     \/ /\ Stored(i) /\ ~Unreferenced(i)
        /\ Become(h, Refused(i))
        /\ UNCHANGED cis
  /\ UNCHANGED <<next_id, relationships, cache, events, audit, served>>

\* Mutant: only the source's list is invalidated.
KeysOfRelationshipHalf(s, t) == << <<"related_cis", s>> >>

KeysOfRelationship(s, t) == << <<"related_cis", s>>, <<"related_cis", t>> >>

CreateRelationship(h, s, t) ==
  /\ Stored(s) /\ Stored(t)
  /\ Accept(h, "CreateRelationship",
            Committed("invalidate", "ci.relationship_created", {s, t},
                      KeysOfRelationship(s, t)))
  /\ relationships' = relationships \cup {<<s, t>>}
  /\ UNCHANGED <<cis, next_id, cache, events, audit>>

\* delete_cached for the next key; a failure skips the keys that are left.
Invalidate(h) ==
  LET call == calls[h]
      done == Committed("audit", call.action, call.entity, << >>)
  IN
  /\ At(h, "invalidate")
  /\ \/ /\ cache' = WithoutKeys({Head(call.owed)})
        /\ Become(h, IF Len(call.owed) = 1 THEN done
                     ELSE Committed("invalidate", call.action, call.entity, Tail(call.owed)))
     \/ /\ MayFail("redis")
        /\ Become(h, done)
        /\ UNCHANGED cache
  /\ UNCHANGED <<tables, events, audit, served>>

\* record_audit_event, whose failure is swallowed
RecordAudit(h) ==
  /\ At(h, "audit")
  /\ \/ audit' = audit \cup {<<calls[h].action, calls[h].entity>>}
     \/ MayFail("audit") /\ UNCHANGED audit
  /\ Become(h, Idle)
  /\ UNCHANGED <<tables, cache, events, served>>
-----------------------------------------------------------------------------
Tick ==
  /\ DOMAIN cache # {}
  /\ cache' = Aged(cache)
  /\ UNCHANGED <<tables, events, audit, calls, served>>

\* A replica dies and restarts with none of its calls.
Crash(r) ==
  /\ MayCrash
  /\ \E h \in Handlers : Home[h] = r /\ ~At(h, "idle")
  /\ calls' = [h \in Handlers |-> IF Home[h] = r THEN Idle ELSE calls[h]]
  /\ UNCHANGED <<tables, cache, events, audit, served>>

Init ==
  /\ cis = << >> /\ next_id = 1 /\ relationships = {}
  /\ cache = << >> /\ events = {} /\ audit = {}
  /\ calls = [h \in Handlers |-> Idle]
  /\ served = 0

\* What a handler does on its own once a request is accepted.
Step(h) ==
  \/ Query(h) \/ AskOwner(h) \/ SelectMembers(h) \/ SetCached(h)
  \/ Publish(h) \/ Select(h) \/ CommitUpdate(h) \/ CommitDelete(h)
  \/ Invalidate(h) \/ RecordAudit(h)

Request(h) ==
  \/ \E k \in Keys : Read(h, k)
  \/ \E d \in Details, o \in OwnerInputs :
       CreateCI(h, d, o) \/ \E i \in Ids : UpdateCI(h, i, d, o)
  \/ \E i \in Ids : DeleteCI(h, i)
  \/ \E s, t \in Ids : CreateRelationship(h, s, t)

Next ==
  \/ \E h \in Handlers : Request(h) \/ Step(h)
  \/ Tick
  \/ \E r \in Replicas : Crash(r)

Spec == Init /\ [][Next]_vars

\* Awaited calls return or raise, and time passes.
FairSpec == Spec /\ WF_vars(Tick) /\ \A h \in Handlers : WF_vars(Step(h))
==============================================================================
