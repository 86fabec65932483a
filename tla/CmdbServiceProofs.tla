-------------------------- MODULE CmdbServiceProofs --------------------------
(***************************************************************************)
(* Type correctness of the CMDB Service, the integrity of its              *)
(* relationships, the completeness of its invalidations and the truth of   *)
(* its audited deletions, for any number of handlers, replicas, items and  *)
(* mutations.                                                              *)
(***************************************************************************)
EXTENDS CmdbServiceProps, TLAPS

-----------------------------------------------------------------------------
(***************************************************************************)
(* What a well-formed call says at each of its statements.                 *)
(***************************************************************************)

\* A reader knows its key, and what it holds is a value of that key.
LEMMA ReaderForm ==
  ASSUME NEW c, WellFormed(c), c.pc \in {"query", "owner", "members", "set"}
  PROVE  /\ c.key \in Keys
         /\ c.pc = "owner" => c.key[1] = "ci_with_owner" /\ c.held \in CIRow
         /\ c.pc = "members" => c.key[1] = "related_cis" /\ c.ids \subseteq Ids
         /\ c.pc = "set" => c.held \in ValueOf(c.key)
BY DEF WellFormed, Idle

\* A writer before its commit knows the row it loaded and the row it asks for.
LEMMA WriterForm ==
  ASSUME NEW c, WellFormed(c), c.pc \in {"select", "commit"}
  PROVE  /\ c.id \in Ids /\ c.loaded \in CIRow /\ c.op \in {"UpdateCI", "DeleteCI"}
         /\ c.op = "UpdateCI" => c.pending \in CIRow
         /\ c = Writer(c.pc, c.op, c.id, c.loaded, c.pending)
BY DEF WellFormed, Idle

\* A writer after its commit knows what to announce and which keys it owes.
LEMMA CommittedForm ==
  ASSUME NEW c, WellFormed(c), c.pc \in {"publish", "invalidate", "audit"}
  PROVE  /\ c.entity \subseteq Ids /\ c.owed \in Seq(Keys)
         /\ c.pc = "invalidate" => Len(c.owed) \in 1..2
         /\ c = Committed(c.pc, c.action, c.entity, c.owed)
BY DEF WellFormed, Idle

\* A handler that moves on to a well-formed call leaves all calls well formed.
LEMMA BecomeOK ==
  ASSUME TypeOK, NEW h \in Handlers, NEW call, WellFormed(call), Become(h, call)
  PROVE  /\ calls' = [g \in Handlers |-> calls'[g]]
         /\ \A g \in Handlers : WellFormed(calls'[g])
         /\ calls'[h] = call
         /\ \A g \in Handlers \ {h} : calls'[g] = calls[g]
<1>1. calls = [g \in Handlers |-> calls[g]]
  BY DEF TypeOK
<1>2. calls' = [g \in Handlers |-> IF g = h THEN call ELSE calls[g]]
  BY <1>1 DEF Become
<1> QED
  BY <1>2 DEF TypeOK

\* The idle call is well formed.
LEMMA IdleOK == WellFormed(Idle)
BY DEF WellFormed

\* Related items are items.
LEMMA RelatedType ==
  ASSUME TypeOK, NEW i
  PROVE  RelatedIds(i) \subseteq Ids
BY DEF TypeOK, RelatedIds
-----------------------------------------------------------------------------
(***************************************************************************)
(* Each action keeps TypeOK.                                               *)
(***************************************************************************)

\* A step that changes calls only, and to a well-formed call, keeps the types.
LEMMA CallsOnlyType ==
  ASSUME TypeOK, NEW h \in Handlers, NEW call, WellFormed(call), Become(h, call),
         UNCHANGED <<tables, cache, events, served>>
  PROVE  TypeOK'
<1>1. /\ calls' = [g \in Handlers |-> calls'[g]]
      /\ \A g \in Handlers : WellFormed(calls'[g])
  BY BecomeOK
<1>2. UNCHANGED <<cis, next_id, relationships, cache, events, served>>
  BY DEF tables
<1> QED
  BY <1>1, <1>2 DEF TypeOK

\* Reads up to the SELECTs keep the types.
LEMMA ReadType ==
  ASSUME TypeOK, NEW h \in Handlers,
         (\E k \in Keys : Read(h, k)) \/ Query(h) \/ AskOwner(h) \/ SelectMembers(h)
  PROVE  TypeOK'
<1>0. WellFormed(calls[h])
  BY DEF TypeOK
<1>1. ASSUME NEW k \in Keys, Read(h, k) PROVE TypeOK'
  <2>1. WellFormed(Reader("query", k, None))
    BY DEF WellFormed, Reader
  <2> QED
    BY <1>1, <2>1, CallsOnlyType DEF Read
<1>2. CASE Query(h)
  <2> DEFINE k == calls[h].key
             i == KeyCI(k)
  <2>1. k \in Keys
    BY <1>0, <1>2, ReaderForm DEF Query, At
  <2>2. Stored(i) => cis[i] \in CIRow
    BY DEF TypeOK, Stored
  <2>3. ASSUME Stored(i), k[1] = "ci"
        PROVE  WellFormed(Reader("set", k, cis[i]))
    BY <2>1, <2>2, <2>3 DEF WellFormed, Reader, ValueOf
  <2>4. ASSUME Stored(i), k[1] = "ci_with_owner"
        PROVE  WellFormed(Reader(IF cis[i].owner_user_id = None THEN "set" ELSE "owner",
                                 k, cis[i]))
    BY <2>1, <2>2, <2>4 DEF WellFormed, Reader, ValueOf, CIRow
  <2>5. ASSUME k[1] = "related_cis", RelatedIds(i) = {}
        PROVE  WellFormed(Reader("set", k, {}))
    BY <2>1, <2>5 DEF WellFormed, Reader, ValueOf
  <2>6. ASSUME k[1] = "related_cis"
        PROVE  WellFormed([pc |-> "members", key |-> k, ids |-> RelatedIds(i)])
    BY <2>1, <2>6, RelatedType DEF WellFormed
  <2>7. UNCHANGED <<tables, cache, events, served>>
    BY <1>2 DEF Query
  <2>8. \E call : WellFormed(call) /\ Become(h, call)
    BY <1>2, <2>3, <2>4, <2>5, <2>6, IdleOK DEF Query
  <2> QED
    BY <2>7, <2>8, CallsOnlyType
<1>3. CASE AskOwner(h)
  <2>1. WellFormed([calls[h] EXCEPT !.pc = "set"])
    BY <1>0, <1>3 DEF AskOwner, At, WellFormed, Idle, Reader, ValueOf, Writer, Committed
  <2> QED
    BY <1>3, <2>1, IdleOK, CallsOnlyType DEF AskOwner
<1>4. CASE SelectMembers(h)
  <2> DEFINE k == calls[h].key
             found == {<<i, cis[i]>> : i \in {x \in calls[h].ids : Stored(x)}}
  <2>1. k \in Keys /\ k[1] = "related_cis" /\ calls[h].ids \subseteq Ids
    BY <1>0, <1>4, ReaderForm DEF SelectMembers, At
  <2>2. found \subseteq Ids \X CIRow
    BY <2>1 DEF TypeOK, Stored
  <2>3. WellFormed(Reader("set", k, found))
    BY <2>1, <2>2 DEF WellFormed, Reader, ValueOf
  <2> QED
    BY <1>4, <2>3, CallsOnlyType DEF SelectMembers
<1> QED
  BY <1>1, <1>2, <1>3, <1>4

\* Setting a key stores a value of that key.
LEMMA SetCachedType ==
  ASSUME TypeOK, NEW h \in Handlers, SetCached(h)
  PROVE  TypeOK'
<1> DEFINE k == calls[h].key
           v == calls[h].held
<1>1. k \in Keys /\ v \in ValueOf(k)
  BY ReaderForm DEF TypeOK, SetCached, At
<1>2. /\ calls' = [g \in Handlers |-> calls'[g]]
      /\ \A g \in Handlers : WellFormed(calls'[g])
  BY BecomeOK, IdleOK DEF SetCached
<1>3. /\ DOMAIN cache' \subseteq Keys
      /\ \A x \in DOMAIN cache' : cache'[x] \in [value : ValueOf(x), left : 1..TTL]
  BY <1>1, TTLAssumption DEF SetCached, WithKey, TypeOK
<1> QED
  BY <1>2, <1>3 DEF SetCached, TypeOK, tables

\* Requests that write keep the types.
LEMMA RequestType ==
  ASSUME TypeOK, NEW h \in Handlers,
         \/ \E d \in Details, o \in OwnerInputs :
              CreateCI(h, d, o) \/ \E i \in Ids : UpdateCI(h, i, d, o)
         \/ \E i \in Ids : DeleteCI(h, i)
         \/ \E s, t \in Ids : CreateRelationship(h, s, t)
  PROVE  TypeOK'
<1>1. \A d \in Details, o \in OwnerInputs :
        [details |-> d, owner_user_id |-> OwnerColumn(o)] \in CIRow
  BY DEF OwnerInputs, OwnerColumn, CIRow
<1>2. served < MaxWrites => served + 1 \in 0..MaxWrites
  BY BoundsAssumption DEF TypeOK
<1>3. ASSUME NEW d \in Details, NEW o \in OwnerInputs, CreateCI(h, d, o)
      PROVE  TypeOK'
  <2> DEFINE row == [details |-> d, owner_user_id |-> OwnerColumn(o)]
             call == Committed("publish", "ci.created", {next_id}, << >>)
  <2>1. next_id \in Ids /\ next_id' = next_id + 1 /\ next_id' \in 1..(MaxCIs + 1)
    BY <1>3, BoundsAssumption DEF CreateCI, TypeOK, Ids
  <2>2. WellFormed(call)
    BY <2>1 DEF WellFormed, Committed
  <2>3. /\ calls' = [g \in Handlers |-> calls'[g]]
        /\ \A g \in Handlers : WellFormed(calls'[g])
    BY <1>3, <2>2, BecomeOK DEF CreateCI, Accept
  <2>4. /\ DOMAIN cis' \subseteq 1..(next_id' - 1)
        /\ \A i \in DOMAIN cis' : cis'[i] \in CIRow
    BY <1>1, <1>3, <2>1 DEF CreateCI, TypeOK
  <2> QED
    BY <1>2, <1>3, <2>1, <2>3, <2>4 DEF CreateCI, Accept, TypeOK
<1>4. ASSUME NEW i \in Ids, NEW op \in {"UpdateCI", "DeleteCI"}, NEW pending,
             op = "UpdateCI" => pending \in CIRow,
             Stored(i), Accept(h, op, Writer("select", op, i, cis[i], pending)),
             UNCHANGED <<tables, cache, events, audit>>
      PROVE  TypeOK'
  <2>1. WellFormed(Writer("select", op, i, cis[i], pending))
    BY <1>4 DEF WellFormed, Writer, Stored, TypeOK
  <2>2. /\ calls' = [g \in Handlers |-> calls'[g]]
        /\ \A g \in Handlers : WellFormed(calls'[g])
    BY <1>4, <2>1, BecomeOK DEF Accept
  <2> QED
    BY <1>2, <1>4, <2>2 DEF Accept, TypeOK, tables
<1>5. ASSUME NEW d \in Details, NEW o \in OwnerInputs, NEW i \in Ids, UpdateCI(h, i, d, o)
      PROVE  TypeOK'
  BY <1>1, <1>4, <1>5 DEF UpdateCI
<1>6. ASSUME NEW i \in Ids, DeleteCI(h, i)
      PROVE  TypeOK'
  BY <1>4, <1>6 DEF DeleteCI
<1>7. ASSUME NEW s \in Ids, NEW t \in Ids, CreateRelationship(h, s, t)
      PROVE  TypeOK'
  <2> DEFINE call == Committed("invalidate", "ci.relationship_created", {s, t},
                               KeysOfRelationship(s, t))
  <2>1. /\ KeysOfRelationship(s, t) \in Seq(Keys)
        /\ Len(KeysOfRelationship(s, t)) \in 1..2
    BY DEF KeysOfRelationship, Keys, ReadOps
  <2>2. WellFormed(call)
    BY <2>1 DEF WellFormed, Committed
  <2>3. /\ calls' = [g \in Handlers |-> calls'[g]]
        /\ \A g \in Handlers : WellFormed(calls'[g])
    BY <1>7, <2>2, BecomeOK DEF CreateRelationship, Accept
  <2> QED
    BY <1>2, <1>7, <2>3 DEF CreateRelationship, Accept, TypeOK
<1> QED
  BY <1>3, <1>5, <1>6, <1>7

\* A handler on its way through a mutation keeps the types.
LEMMA WriteType ==
  ASSUME TypeOK, NEW h \in Handlers,
         Publish(h) \/ Select(h) \/ CommitUpdate(h) \/ CommitDelete(h)
           \/ Invalidate(h) \/ RecordAudit(h)
  PROVE  TypeOK'
<1> DEFINE c == calls[h]
           i == c.id
<1>0. WellFormed(c)
  BY DEF TypeOK
<1>1. CASE Publish(h)
  <2>1. c = Committed("publish", c.action, c.entity, c.owed)
        /\ c.entity \subseteq Ids /\ c.owed \in Seq(Keys)
    BY <1>0, <1>1, CommittedForm DEF Publish, At
  <2>2. WellFormed([c EXCEPT !.pc = "audit"])
    BY <2>1 DEF WellFormed, Committed
  <2>3. /\ calls' = [g \in Handlers |-> calls'[g]]
        /\ \A g \in Handlers : WellFormed(calls'[g])
    BY <1>1, <2>2, BecomeOK DEF Publish
  <2>4. events' \subseteq Ids
    BY <1>1, <2>1 DEF Publish, TypeOK
  <2> QED
    BY <1>1, <2>3, <2>4 DEF Publish, TypeOK, tables
<1>2. CASE Select(h)
  <2>1. c = Writer("select", c.op, i, c.loaded, c.pending)
        /\ i \in Ids /\ c.loaded \in CIRow /\ c.op \in {"UpdateCI", "DeleteCI"}
        /\ (c.op = "UpdateCI" => c.pending \in CIRow)
    BY <1>0, <1>2, WriterForm DEF Select, At
  <2>2. WellFormed([c EXCEPT !.pc = "commit"])
    BY <2>1 DEF WellFormed, Writer
  <2> QED
    BY <1>2, <2>2, IdleOK, CallsOnlyType DEF Select
<1>3. i \in Ids => KeysOfCI(i) \in Seq(Keys) /\ Len(KeysOfCI(i)) = 2
  BY DEF KeysOfCI, Keys, ReadOps
<1>4. ASSUME NEW call, WellFormed(call), Become(h, call),
             DOMAIN cis' \subseteq DOMAIN cis, \A j \in DOMAIN cis' : cis'[j] \in CIRow,
             UNCHANGED <<next_id, relationships, cache, events, audit, served>>
      PROVE  TypeOK'
  <2>1. /\ calls' = [g \in Handlers |-> calls'[g]]
        /\ \A g \in Handlers : WellFormed(calls'[g])
    BY <1>4, BecomeOK
  <2> QED
    BY <1>4, <2>1 DEF TypeOK
<1>5. CASE CommitUpdate(h)
  <2> DEFINE dirty == DirtyColumns(c.loaded, c.pending) # {}
  <2>1. i \in Ids /\ c.loaded \in CIRow /\ c.pending \in CIRow
    BY <1>0, <1>5, WriterForm DEF CommitUpdate, At
  <2>2. WellFormed(Committed("invalidate", "ci.updated", {i}, KeysOfCI(i)))
    BY <1>3, <2>1 DEF WellFormed, Committed
  <2>3. Stored(i) => Flush(cis[i], c.loaded, c.pending) \in CIRow
    BY <2>1 DEF Stored, TypeOK, Flush, DirtyColumns, CIRow
  <2>4. /\ DOMAIN cis' \subseteq DOMAIN cis
        /\ \A j \in DOMAIN cis' : cis'[j] \in CIRow
    BY <1>5, <2>3 DEF CommitUpdate, TypeOK, Stored
  <2>5. \E call : WellFormed(call) /\ Become(h, call)
    BY <1>5, <2>2, IdleOK DEF CommitUpdate
  <2> QED
    BY <1>4, <1>5, <2>4, <2>5 DEF CommitUpdate
<1>6. CASE CommitDelete(h)
  <2>1. i \in Ids
    BY <1>0, <1>6, WriterForm DEF CommitDelete, At
  <2>2. WellFormed(Committed("invalidate", "ci.deleted", {i}, KeysOfCI(i)))
    BY <1>3, <2>1 DEF WellFormed, Committed
  <2>3. /\ DOMAIN cis' \subseteq DOMAIN cis
        /\ \A j \in DOMAIN cis' : cis'[j] \in CIRow
    BY <1>6 DEF CommitDelete, TypeOK
  <2>4. \E call : WellFormed(call) /\ Become(h, call)
    BY <1>6, <2>2, IdleOK DEF CommitDelete, Refused
  <2> QED
    BY <1>4, <1>6, <2>3, <2>4 DEF CommitDelete
<1>7. CASE Invalidate(h)
  <2>1. c = Committed("invalidate", c.action, c.entity, c.owed)
        /\ c.entity \subseteq Ids /\ c.owed \in Seq(Keys) /\ Len(c.owed) \in 1..2
    BY <1>0, <1>7, CommittedForm DEF Invalidate, At
  <2>2. WellFormed(Committed("audit", c.action, c.entity, << >>))
    BY <2>1 DEF WellFormed, Committed
  <2>3. Len(c.owed) # 1 => Tail(c.owed) \in Seq(Keys) /\ Len(Tail(c.owed)) = 1
    BY <2>1
  <2>4. Len(c.owed) # 1 =>
          WellFormed(Committed("invalidate", c.action, c.entity, Tail(c.owed)))
    BY <2>1, <2>3 DEF WellFormed, Committed
  <2>5. \E call : WellFormed(call) /\ Become(h, call)
    BY <1>7, <2>2, <2>4 DEF Invalidate
  <2>6. /\ calls' = [g \in Handlers |-> calls'[g]]
        /\ \A g \in Handlers : WellFormed(calls'[g])
    BY <2>5, BecomeOK
  <2>7. /\ DOMAIN cache' \subseteq Keys
        /\ \A x \in DOMAIN cache' : cache'[x] \in [value : ValueOf(x), left : 1..TTL]
    BY <1>7 DEF Invalidate, WithoutKeys, TypeOK
  <2> QED
    BY <1>7, <2>6, <2>7 DEF Invalidate, TypeOK, tables
<1>8. CASE RecordAudit(h)
  BY <1>8, IdleOK, CallsOnlyType DEF RecordAudit
<1> QED
  BY <1>1, <1>2, <1>5, <1>6, <1>7, <1>8

\* Time and crashes keep the types.
LEMMA EnvironmentType ==
  ASSUME TypeOK, Tick \/ (\E r \in Replicas : Crash(r)) \/ UNCHANGED vars
  PROVE  TypeOK'
<1>1. CASE Tick
  <2>1. /\ DOMAIN cache' \subseteq DOMAIN cache
        /\ \A k \in DOMAIN cache' : cache[k].left # 1
    BY <1>1 DEF Tick, Aged
  <2>2. \A k \in DOMAIN cache' :
          cache'[k] \in [value : ValueOf(k), left : 1..TTL]
    <3>1. SUFFICES ASSUME NEW k \in DOMAIN cache'
                   PROVE  cache'[k] \in [value : ValueOf(k), left : 1..TTL]
      OBVIOUS
    <3>2. cache[k] \in [value : ValueOf(k), left : 2..TTL]
      BY <2>1, TTLAssumption DEF TypeOK
    <3> DEFINE left == cache[k].left
    <3>3. cache'[k] = [cache[k] EXCEPT !.left = IF left = None THEN None ELSE left - 1]
      BY <1>1 DEF Tick, Aged
    <3>4. (IF left = None THEN None ELSE left - 1) \in 1..TTL
      <4>1. CASE left = None
        BY <3>2, <4>1, TTLAssumption
      <4>2. CASE left # None
        BY <3>2, <4>2, TTLAssumption
      <4> QED
        BY <4>1, <4>2
    <3> QED
      BY <3>2, <3>3, <3>4
  <2> QED
    BY <1>1, <2>1, <2>2 DEF Tick, TypeOK, tables
<1>2. ASSUME NEW r \in Replicas, Crash(r)
      PROVE  TypeOK'
  BY <1>2, IdleOK DEF Crash, TypeOK, tables
<1>3. CASE UNCHANGED vars
  BY <1>3 DEF vars, tables, TypeOK
<1> QED
  BY <1>1, <1>2, <1>3

\* The initial state is well typed.
LEMMA InitType ==
  ASSUME Init
  PROVE  TypeOK
BY BoundsAssumption, IdleOK DEF Init, TypeOK

\* Every step keeps the types.
LEMMA NextType ==
  ASSUME TypeOK, [Next]_vars
  PROVE  TypeOK'
<1>1. ASSUME NEW h \in Handlers, Request(h) \/ Step(h)
      PROVE  TypeOK'
  BY <1>1, ReadType, SetCachedType, RequestType, WriteType DEF Request, Step
<1> QED
  BY <1>1, EnvironmentType DEF Next

\* Tables, cached values and every call keep the form the code gives them.
THEOREM CmdbTypeCorrect == Spec => []TypeOK
<1>1. Init => TypeOK
  BY InitType
<1>2. TypeOK /\ [Next]_vars => TypeOK'
  BY NextType
<1> QED
  BY <1>1, <1>2, PTL DEF Spec
-----------------------------------------------------------------------------
(***************************************************************************)
(* Relationships.                                                          *)
(***************************************************************************)

\* No relationship outlives one of its items, although CreateRelationship checks
\* nothing and DeleteCI looks at the item alone: the foreign keys refuse.
THEOREM RelationshipsCorrect == Spec => []RelationshipsPointToStored
<1>1. Init => RelationshipsPointToStored
  BY DEF Init, RelationshipsPointToStored
<1>2. RelationshipsPointToStored /\ [Next]_vars => RelationshipsPointToStored'
  <2> SUFFICES ASSUME RelationshipsPointToStored, [Next]_vars
               PROVE  RelationshipsPointToStored'
    OBVIOUS
  <2>1. CASE UNCHANGED <<cis, relationships>>
    BY <2>1 DEF RelationshipsPointToStored, Stored
  <2>2. ASSUME NEW h \in Handlers, NEW d \in Details, NEW o \in OwnerInputs, CreateCI(h, d, o)
        PROVE  RelationshipsPointToStored'
    BY <2>2 DEF CreateCI, RelationshipsPointToStored, Stored
  <2>3. ASSUME NEW h \in Handlers, NEW s \in Ids, NEW t \in Ids, CreateRelationship(h, s, t)
        PROVE  RelationshipsPointToStored'
    BY <2>3 DEF CreateRelationship, RelationshipsPointToStored, Stored
  <2>4. ASSUME NEW h \in Handlers, CommitUpdate(h)
        PROVE  RelationshipsPointToStored'
    BY <2>4 DEF CommitUpdate, RelationshipsPointToStored, Stored
  <2>5. ASSUME NEW h \in Handlers, CommitDelete(h)
        PROVE  RelationshipsPointToStored'
    <3>1. \A r \in relationships : Unreferenced(calls[h].id) =>
            r[1] # calls[h].id /\ r[2] # calls[h].id
      BY DEF Unreferenced, RelatedIds
    <3> QED
      BY <2>5, <3>1 DEF CommitDelete, RelationshipsPointToStored, Stored
  <2>6. ASSUME NEW h \in Handlers,
               Request(h) \/ Step(h)
        PROVE  RelationshipsPointToStored'
    BY <2>1, <2>2, <2>3, <2>4, <2>5, <2>6
    DEF Request, Step, Read, Query, AskOwner, SelectMembers, SetCached, Publish,
        UpdateCI, DeleteCI, Select, Invalidate, RecordAudit, tables
  <2> QED
    BY <2>1, <2>6 DEF Next, Tick, Crash, vars, tables
<1> QED
  BY <1>1, <1>2, PTL DEF Spec
-----------------------------------------------------------------------------
(***************************************************************************)
(* Invalidations.                                                          *)
(***************************************************************************)

\* A key that no step sets stays up to date while the tables stay as they are.
LEMMA QuietKey ==
  ASSUME NEW k \in Keys, UNCHANGED <<cis, relationships>>,
         k \in DOMAIN cache' => k \in DOMAIN cache /\ cache'[k].value = cache[k].value,
         OutOfDate(k)'
  PROVE  OutOfDate(k)
BY DEF OutOfDate, Stale, Cached, Current, RelatedIds, Stored

\* What a list names depends on the relationships alone.
LEMMA QuietList ==
  ASSUME NEW k \in Keys, k[1] = "related_cis", UNCHANGED <<relationships, cache>>,
         OutOfDate(k)'
  PROVE  OutOfDate(k)
BY DEF OutOfDate, Cached, RelatedIds

\* What an item's keys should say depends on its own row alone.
LEMMA QuietItem ==
  ASSUME NEW k \in Keys, k[1] # "related_cis", UNCHANGED cache,
         KeyCI(k) \in DOMAIN cis' <=> KeyCI(k) \in DOMAIN cis,
         KeyCI(k) \in DOMAIN cis => cis'[KeyCI(k)] = cis[KeyCI(k)],
         OutOfDate(k)'
  PROVE  OutOfDate(k)
BY DEF OutOfDate, Stale, Cached, Current, Stored

\* A pair has two elements.
LEMMA PairIndices ==
  ASSUME NEW a, NEW b
  PROVE  /\ 1 \in 1..Len(<<a, b>>) /\ <<a, b>>[1] = a
         /\ 2 \in 1..Len(<<a, b>>) /\ <<a, b>>[2] = b
OBVIOUS

\* A commit that changes item i owes the deletion of both of its keys.
LEMMA ItemOwed ==
  ASSUME NEW h \in Handlers, NEW i \in Ids, NEW action, NEW k \in Keys,
         k[1] # "related_cis", KeyCI(k) = i,
         calls'[h] = Committed("invalidate", action, {i}, KeysOfCI(i))
  PROVE  k \in Owed(h)'
<1>1. k = <<"ci", i>> \/ k = <<"ci_with_owner", i>>
  BY DEF Keys, ReadOps, KeyCI
<1>2. calls'[h].pc = "invalidate" /\ calls'[h].owed = << <<"ci", i>>, <<"ci_with_owner", i>> >>
  BY DEF Committed, KeysOfCI
<1> DEFINE pair == << <<"ci", i>>, <<"ci_with_owner", i>> >>
<1>3. /\ 1 \in 1..Len(pair) /\ pair[1] = <<"ci", i>>
      /\ 2 \in 1..Len(pair) /\ pair[2] = <<"ci_with_owner", i>>
  BY PairIndices
<1>4. Owed(h)' = {pair[n] : n \in 1..Len(pair)}
  BY <1>2 DEF Owed, At
<1> HIDE DEF pair
<1> QED
  BY <1>1, <1>3, <1>4

\* A new relationship changes the two lists whose deletion it owes.
LEMMA ListOwed ==
  ASSUME NEW h \in Handlers, NEW s \in Ids, NEW t \in Ids, NEW action, NEW k \in Keys,
         KeyCI(k) \in {s, t}, k[1] = "related_cis",
         calls'[h] = Committed("invalidate", action, {s, t}, KeysOfRelationship(s, t))
  PROVE  k \in Owed(h)'
<1>1. k = <<"related_cis", s>> \/ k = <<"related_cis", t>>
  BY DEF Keys, ReadOps, KeyCI
<1>2. /\ calls'[h].pc = "invalidate"
      /\ calls'[h].owed = << <<"related_cis", s>>, <<"related_cis", t>> >>
  BY DEF Committed, KeysOfRelationship
<1> DEFINE pair == << <<"related_cis", s>>, <<"related_cis", t>> >>
<1>3. /\ 1 \in 1..Len(pair) /\ pair[1] = <<"related_cis", s>>
      /\ 2 \in 1..Len(pair) /\ pair[2] = <<"related_cis", t>>
  BY PairIndices
<1>4. Owed(h)' = {pair[n] : n \in 1..Len(pair)}
  BY <1>2 DEF Owed, At
<1> HIDE DEF pair
<1> QED
  BY <1>1, <1>3, <1>4

\* Every commit that puts a key out of date owes its deletion, in every
\* interleaving, with failures of Redis and crashes: the lists of keys at the
\* mutations are complete, and only an overtaken reader escapes them.
THEOREM InvalidationsCorrect == Spec => InvalidationsOwed
<1> DEFINE Excuse(k) ==
      \/ \E h \in Handlers : k \in Owed(h)'
      \/ \E h \in Handlers : At(h, "set") /\ calls[h].key = k /\ At(h, "idle")'
<1>1. ASSUME TypeOK, [Next]_vars, NEW k \in Keys, ~OutOfDate(k), OutOfDate(k)'
      PROVE  Excuse(k)
  <2>1. CASE UNCHANGED <<cis, relationships, cache>>
    BY <1>1, <2>1, QuietKey
  <2>2. CASE Tick
    <3>1. k \in DOMAIN cache' => k \in DOMAIN cache /\ cache'[k].value = cache[k].value
      BY <2>2, <1>1 DEF Tick, Aged, TypeOK, Keys
    <3>2. UNCHANGED <<cis, relationships>>
      BY <2>2 DEF Tick, tables
    <3> QED
      BY <1>1, <3>1, <3>2, QuietKey
  <2>3. ASSUME NEW h \in Handlers, Invalidate(h) PROVE Excuse(k)
    <3>1. k \in DOMAIN cache' => k \in DOMAIN cache /\ cache'[k].value = cache[k].value
      BY <2>3 DEF Invalidate, WithoutKeys
    <3>2. UNCHANGED <<cis, relationships>>
      BY <2>3 DEF Invalidate, tables
    <3> QED
      BY <1>1, <3>1, <3>2, QuietKey
  <2>4. ASSUME NEW h \in Handlers, SetCached(h) PROVE Excuse(k)
    <3>1. CASE k = calls[h].key
      <4>1. calls'[h] = Idle
        BY <1>1, <2>4, IdleOK, BecomeOK DEF SetCached
      <4> QED
        BY <2>4, <3>1, <4>1 DEF SetCached, At, Idle
    <3>2. CASE k # calls[h].key
      <4>1. k \in DOMAIN cache' => k \in DOMAIN cache /\ cache'[k].value = cache[k].value
        BY <2>4, <3>2 DEF SetCached, WithKey
      <4>2. UNCHANGED <<cis, relationships>>
        BY <2>4 DEF SetCached, tables
      <4> QED
        BY <1>1, <4>1, <4>2, QuietKey
    <3> QED
      BY <3>1, <3>2
  <2>5. ASSUME NEW h \in Handlers, NEW d \in Details, NEW o \in OwnerInputs, CreateCI(h, d, o)
        PROVE  Excuse(k)
    <3>1. UNCHANGED <<relationships, cache>>
      BY <2>5 DEF CreateCI
    <3>2. CASE k[1] = "related_cis"
      BY <1>1, <3>1, <3>2, QuietList
    <3>3. CASE k[1] # "related_cis" /\ KeyCI(k) # next_id
      <4>1. /\ KeyCI(k) \in DOMAIN cis' <=> KeyCI(k) \in DOMAIN cis
            /\ KeyCI(k) \in DOMAIN cis => cis'[KeyCI(k)] = cis[KeyCI(k)]
        BY <2>5, <3>3 DEF CreateCI
      <4> QED
        BY <1>1, <3>1, <3>3, <4>1, QuietItem
    <3>4. CASE k[1] # "related_cis" /\ KeyCI(k) = next_id
      <4>1. ~Stored(next_id)
        BY <1>1 DEF TypeOK, Stored
      <4>2. Cached(k) => cache[k].value \in CIRow
        BY <1>1, <3>4 DEF TypeOK, Cached, ValueOf
      <4>3. ~Cached(k)
        BY <1>1, <3>4, <4>1, <4>2, NoRowAssumption DEF OutOfDate, Stale, Current
      <4>4. ~OutOfDate(k)'
        BY <3>1, <3>4, <4>3 DEF OutOfDate, Stale, Cached
      <4> QED
        BY <1>1, <4>4
    <3> QED
      BY <3>2, <3>3, <3>4
  <2>6. ASSUME NEW h \in Handlers, CommitUpdate(h) PROVE Excuse(k)
    <3> DEFINE i == calls[h].id
    <3>1. UNCHANGED <<relationships, cache>> /\ i \in Ids
      BY <1>1, <2>6, WriterForm DEF CommitUpdate, TypeOK, At
    <3>2. CASE k[1] = "related_cis"
      BY <1>1, <3>1, <3>2, QuietList
    <3>3. CASE k[1] # "related_cis" /\ KeyCI(k) # i
      BY <1>1, <2>6, <3>1, <3>3, QuietItem DEF CommitUpdate, Stored
    <3>4. CASE k[1] # "related_cis" /\ KeyCI(k) = i
      <4>1. CASE Become(h, Idle) /\ UNCHANGED cis
        BY <1>1, <3>1, <4>1, QuietKey
      <4>2. CASE Become(h, Committed("invalidate", "ci.updated", {i}, KeysOfCI(i)))
        <5>1. calls'[h] = Committed("invalidate", "ci.updated", {i}, KeysOfCI(i))
          BY <1>1, <4>2 DEF Become, TypeOK
        <5> QED
          BY <3>1, <3>4, <5>1, ItemOwed
      <4> QED
        BY <2>6, <4>1, <4>2 DEF CommitUpdate
    <3> QED
      BY <3>2, <3>3, <3>4
  <2>7. ASSUME NEW h \in Handlers, CommitDelete(h) PROVE Excuse(k)
    <3> DEFINE i == calls[h].id
    <3>1. UNCHANGED <<relationships, cache>> /\ i \in Ids
      BY <1>1, <2>7, WriterForm DEF CommitDelete, TypeOK, At
    <3>2. CASE k[1] = "related_cis"
      BY <1>1, <3>1, <3>2, QuietList
    <3>3. CASE k[1] # "related_cis" /\ KeyCI(k) # i
      BY <1>1, <2>7, <3>1, <3>3, QuietItem DEF CommitDelete, Stored
    <3>4. CASE k[1] # "related_cis" /\ KeyCI(k) = i
      <4>1. CASE UNCHANGED cis
        BY <1>1, <3>1, <4>1, QuietKey
      <4>2. CASE Become(h, Committed("invalidate", "ci.deleted", {i}, KeysOfCI(i)))
        <5>1. calls'[h] = Committed("invalidate", "ci.deleted", {i}, KeysOfCI(i))
          BY <1>1, <4>2 DEF Become, TypeOK
        <5> QED
          BY <3>1, <3>4, <5>1, ItemOwed
      <4> QED
        BY <2>7, <4>1, <4>2 DEF CommitDelete
    <3> QED
      BY <3>2, <3>3, <3>4
  <2>8. ASSUME NEW h \in Handlers, NEW s \in Ids, NEW t \in Ids, CreateRelationship(h, s, t)
        PROVE  Excuse(k)
    <3>1. UNCHANGED <<cis, cache>> /\ relationships' = relationships \cup {<<s, t>>}
      BY <2>8 DEF CreateRelationship
    <3>2. CASE k[1] # "related_cis"
      BY <1>1, <3>1, <3>2, QuietItem DEF Stored
    <3>3. CASE k[1] = "related_cis" /\ KeyCI(k) \notin {s, t}
      <4>1. RelatedIds(KeyCI(k))' = RelatedIds(KeyCI(k))
        BY <3>1, <3>3 DEF RelatedIds
      <4> QED
        BY <1>1, <3>1, <3>3, <4>1 DEF OutOfDate, Cached
    <3>4. CASE k[1] = "related_cis" /\ KeyCI(k) \in {s, t}
      <4>1. calls'[h] = Committed("invalidate", "ci.relationship_created", {s, t},
                                  KeysOfRelationship(s, t))
        BY <1>1, <2>8 DEF CreateRelationship, Accept, Become, TypeOK
      <4> QED
        BY <3>4, <4>1, ListOwed
    <3> QED
      BY <3>2, <3>3, <3>4
  <2>9. ASSUME NEW h \in Handlers, Request(h) \/ Step(h) PROVE Excuse(k)
    BY <2>1, <2>3, <2>4, <2>5, <2>6, <2>7, <2>8, <2>9
    DEF Request, Step, Read, Query, AskOwner, SelectMembers, Publish, UpdateCI,
        DeleteCI, Select, RecordAudit, tables
  <2> QED
    BY <1>1, <2>1, <2>2, <2>9 DEF Next, Crash, vars, tables
<1>2. TypeOK /\ [Next]_vars =>
        [\A k \in Keys : ~OutOfDate(k) /\ OutOfDate(k)' => Excuse(k)]_vars
  BY <1>1
<1> QED
  BY <1>2, CmdbTypeCorrect, PTL DEF Spec, InvalidationsOwed

-----------------------------------------------------------------------------
(***************************************************************************)
(* Audited deletions.                                                      *)
(***************************************************************************)

\* Ids are never taken back, and a row whose id was handed out is never inserted.
LEMMA GoneStays ==
  ASSUME TypeOK, [Next]_vars
  PROVE  /\ 1..(next_id - 1) \subseteq 1..(next_id - 1)'
         /\ \A i : Gone(i) => Gone(i)'
<1>1. next_id \in Nat
  BY BoundsAssumption DEF TypeOK
<1>2. CASE UNCHANGED <<cis, next_id>>
  BY <1>2 DEF Gone, Stored
<1>3. ASSUME NEW h \in Handlers, NEW d \in Details, NEW o \in OwnerInputs, CreateCI(h, d, o)
      PROVE  /\ 1..(next_id - 1) \subseteq 1..(next_id - 1)'
             /\ \A i : Gone(i) => Gone(i)'
  <2>1. next_id' = next_id + 1 /\ DOMAIN cis' = DOMAIN cis \cup {next_id}
    BY <1>3 DEF CreateCI
  <2> QED
    BY <1>1, <2>1 DEF Gone, Stored
<1>4. ASSUME NEW h \in Handlers, CommitUpdate(h) \/ CommitDelete(h)
      PROVE  /\ 1..(next_id - 1) \subseteq 1..(next_id - 1)'
             /\ \A i : Gone(i) => Gone(i)'
  <2>1. next_id' = next_id /\ DOMAIN cis' \subseteq DOMAIN cis
    BY <1>4 DEF CommitUpdate, CommitDelete
  <2> QED
    BY <2>1 DEF Gone, Stored
<1>5. ASSUME NEW h \in Handlers, Request(h) \/ Step(h)
      PROVE  /\ 1..(next_id - 1) \subseteq 1..(next_id - 1)'
             /\ \A i : Gone(i) => Gone(i)'
  BY <1>2, <1>3, <1>4, <1>5
  DEF Request, Step, Read, Query, AskOwner, SelectMembers, SetCached, Publish,
      UpdateCI, DeleteCI, CreateRelationship, Select, Invalidate, RecordAudit, tables
<1> QED
  BY <1>2, <1>5 DEF Next, Tick, Crash, vars, tables

\* A call that was truthful stays so while others work.
LEMMA TruthfulStays ==
  ASSUME TypeOK, [Next]_vars, NEW h \in Handlers, Truthful(calls[h]), calls'[h] = calls[h]
  PROVE  Truthful(calls[h])'
BY GoneStays DEF Truthful

\* The statements of a read leave a call that speaks of no write.
LEMMA ReadersTruthful ==
  ASSUME TypeOK, NEW h \in Handlers,
         \/ \E k \in Keys : Read(h, k)
         \/ Query(h) \/ AskOwner(h) \/ SelectMembers(h) \/ SetCached(h) \/ RecordAudit(h)
  PROVE  Truthful(calls[h])'
<1>1. calls'[h].pc \in {"query", "owner", "members", "set", "idle"}
  <2>1. h \in DOMAIN calls
    BY DEF TypeOK
  <2>2. CASE AskOwner(h)
    <3>1. WellFormed(calls[h]) /\ calls[h].pc = "owner"
      BY <2>2 DEF AskOwner, At, TypeOK
    <3>2. calls[h] = Reader("owner", calls[h].key, calls[h].held)
      BY <3>1 DEF WellFormed, Idle, Writer, Committed, Reader
    <3> QED
      BY <2>1, <2>2, <3>2 DEF AskOwner, Become, Idle, Reader
  <2> QED
    BY <2>1, <2>2 DEF Read, Query, SelectMembers, SetCached, RecordAudit, Become,
                      Idle, Reader
<1> QED
  BY <1>1 DEF Truthful

\* What a handler is left with by each statement of a write is truthful.
LEMMA WritersTruthful ==
  ASSUME TypeOK, NEW h \in Handlers, Truthful(calls[h]), [Next]_vars,
         \/ \E d \in Details, o \in OwnerInputs :
              CreateCI(h, d, o) \/ \E i \in Ids : UpdateCI(h, i, d, o)
         \/ \E i \in Ids : DeleteCI(h, i)
         \/ \E s, t \in Ids : CreateRelationship(h, s, t)
         \/ Publish(h) \/ Select(h) \/ CommitUpdate(h) \/ CommitDelete(h) \/ Invalidate(h)
  PROVE  Truthful(calls[h])'
<1>0. h \in DOMAIN calls /\ WellFormed(calls[h]) /\ next_id \in Nat
  BY BoundsAssumption DEF TypeOK
<1>1. ASSUME NEW d \in Details, NEW o \in OwnerInputs, CreateCI(h, d, o)
      PROVE  Truthful(calls[h])'
  <2>1. calls'[h] = Committed("publish", "ci.created", {next_id}, << >>)
    BY <1>0, <1>1 DEF CreateCI, Accept, Become
  <2> QED
    BY <2>1 DEF Truthful, Committed
<1>2. ASSUME NEW i \in Ids, NEW row,
             Stored(i), UNCHANGED tables,
             \E op \in WriteOps : calls'[h] = Writer("select", op, i, cis[i], row)
      PROVE  Truthful(calls[h])'
  <2>1. i \in 1..(next_id - 1) /\ next_id' = next_id
    BY <1>2 DEF Stored, TypeOK, tables
  <2> QED
    BY <1>2, <2>1 DEF Truthful, Writer
<1>3. ASSUME NEW s \in Ids, NEW t \in Ids, CreateRelationship(h, s, t)
      PROVE  Truthful(calls[h])'
  <2>1. calls'[h] = Committed("invalidate", "ci.relationship_created", {s, t},
                              KeysOfRelationship(s, t))
    BY <1>0, <1>3 DEF CreateRelationship, Accept, Become
  <2> QED
    BY <2>1 DEF Truthful, Committed
<1>4. CASE Publish(h)
  <2>1. calls[h] = Committed("publish", calls[h].action, calls[h].entity, calls[h].owed)
    BY <1>0, <1>4, CommittedForm DEF Publish, At
  <2>2. calls'[h] = Committed("audit", calls[h].action, calls[h].entity, calls[h].owed)
    BY <1>0, <1>4, <2>1 DEF Publish, Become, Committed
  <2>3. /\ calls[h].pc = "publish" /\ calls'[h].pc = "audit"
        /\ calls'[h].action = calls[h].action /\ calls'[h].entity = calls[h].entity
    BY <2>1, <2>2 DEF Committed
  <2> QED
    BY <2>3, GoneStays DEF Truthful
<1>5. CASE Select(h)
  <2>1. calls[h] = Writer("select", calls[h].op, calls[h].id, calls[h].loaded, calls[h].pending)
    BY <1>0, <1>5, WriterForm DEF Select, At
  <2>2. \/ calls'[h] = Idle
        \/ calls'[h] = Writer("commit", calls[h].op, calls[h].id, calls[h].loaded,
                              calls[h].pending)
    BY <1>0, <1>5, <2>1 DEF Select, Become, Writer
  <2>3. calls[h].pc = "select"
    BY <1>5 DEF Select, At
  <2>4. next_id' = next_id
    BY <1>5 DEF Select, tables
  <2> QED
    BY <2>2, <2>3, <2>4 DEF Truthful, Idle, Writer
<1>6. CASE CommitUpdate(h)
  <2>0. PICK i : i = calls[h].id
    OBVIOUS
  <2>1. \/ calls'[h] = Idle
        \/ calls'[h] = Committed("invalidate", "ci.updated", {i}, KeysOfCI(i))
    BY <1>0, <2>0, <1>6 DEF CommitUpdate, Become
  <2>2. CASE calls'[h] = Idle
    BY <2>2 DEF Truthful, Idle
  <2>3. CASE calls'[h] = Committed("invalidate", "ci.updated", {i}, KeysOfCI(i))
    BY <2>3 DEF Truthful, Committed
  <2> QED
    BY <2>1, <2>2, <2>3
<1>7. CASE CommitDelete(h)
  <2>0. PICK i : i = calls[h].id
    OBVIOUS
  <2>1. i \in 1..(next_id - 1) /\ next_id' = next_id
    BY <2>0, <1>7 DEF CommitDelete, At, Truthful
  <2>2. CASE calls'[h] = Idle
    BY <2>2 DEF Truthful, Idle
  <2>3. CASE /\ calls'[h] = Committed("invalidate", "ci.deleted", {i}, KeysOfCI(i))
             /\ cis' = [j \in DOMAIN cis \ {i} |-> cis[j]]
    <3>1. Gone(i)'
      BY <2>1, <2>3 DEF Gone, Stored
    <3>2. calls'[h].pc = "invalidate" /\ calls'[h].entity = {i}
      BY <2>3 DEF Committed
    <3>3. \A j \in calls'[h].entity : j = i
      BY <3>2
    <3> QED
      BY <3>1, <3>2, <3>3 DEF Truthful, Gone, Stored
  <2> QED
    BY <1>0, <1>7, <2>0, <2>2, <2>3 DEF CommitDelete, Become, Refused
<1>8. CASE Invalidate(h)
  <2>1. calls[h] = Committed("invalidate", calls[h].action, calls[h].entity, calls[h].owed)
    BY <1>0, <1>8, CommittedForm DEF Invalidate, At
  <2>2. \E owed : \E pc \in {"invalidate", "audit"} :
          calls'[h] = Committed(pc, calls[h].action, calls[h].entity, owed)
    BY <1>0, <1>8 DEF Invalidate, Become
  <2>3. /\ calls[h].pc = "invalidate" /\ calls'[h].pc \in {"invalidate", "audit"}
        /\ calls'[h].action = calls[h].action /\ calls'[h].entity = calls[h].entity
    BY <2>1, <2>2 DEF Committed
  <2> QED
    BY <2>3, GoneStays DEF Truthful
<1>9. ASSUME NEW i \in Ids, NEW d \in Details, NEW o \in OwnerInputs,
             UpdateCI(h, i, d, o)
      PROVE  Truthful(calls[h])'
  <2>1. Stored(i) /\ UNCHANGED tables
    BY <1>9 DEF UpdateCI
  <2>2. \E row : \E op \in WriteOps : calls'[h] = Writer("select", op, i, cis[i], row)
    BY <1>0, <1>9 DEF UpdateCI, Accept, Become, WriteOps
  <2> QED
    BY <1>2, <2>1, <2>2
<1> QED
  <2>1. ASSUME NEW d \in Details, NEW o \in OwnerInputs,
               CreateCI(h, d, o) \/ \E i \in Ids : UpdateCI(h, i, d, o)
        PROVE  Truthful(calls[h])'
    BY <2>1, <1>1, <1>9
  <2>2. ASSUME NEW i \in Ids, DeleteCI(h, i)
        PROVE  Truthful(calls[h])'
    <3>1. Stored(i) /\ UNCHANGED tables
      BY <2>2 DEF DeleteCI
    <3>2. \E row : \E op \in WriteOps : calls'[h] = Writer("select", op, i, cis[i], row)
      BY <1>0, <2>2 DEF DeleteCI, Accept, Become, WriteOps
    <3> QED
      BY <1>2, <3>1, <3>2
  <2> QED
    BY <1>3, <1>4, <1>5, <1>6, <1>7, <1>8, <2>1, <2>2

\* The invariant behind the audited deletions is inductive.
LEMMA DeletionsInductive ==
  ASSUME TypeOK, DeletionsInv, [Next]_vars
  PROVE  DeletionsInv'
<1>1. \A h \in Handlers : Truthful(calls[h])'
  <2> SUFFICES ASSUME NEW h \in Handlers
               PROVE  Truthful(calls[h])'
    OBVIOUS
  <2>1. CASE calls'[h] = calls[h]
    BY <2>1, TruthfulStays DEF DeletionsInv
  <2>2. ASSUME NEW g \in Handlers, g # h, NEW call, Become(g, call)
        PROVE  calls'[h] = calls[h]
    BY <2>2 DEF TypeOK, Become
  <2>3. CASE Request(h) \/ Step(h)
    BY <2>3, ReadersTruthful, WritersTruthful DEF DeletionsInv, Request, Step
  <2>4. ASSUME NEW g \in Handlers, g # h, Request(g) \/ Step(g)
        PROVE  calls'[h] = calls[h]
    <3>1. \E call : Become(g, call)
      BY <2>4 DEF Request, Step, Read, Query, AskOwner, SelectMembers, SetCached, Publish,
           CreateCI, UpdateCI, DeleteCI, CreateRelationship, Accept, Select, CommitUpdate,
           CommitDelete, Invalidate, RecordAudit
    <3> QED
      BY <2>2, <2>4, <3>1
  <2>5. ASSUME NEW r \in Replicas, Crash(r)
        PROVE  calls'[h] = calls[h] \/ calls'[h] = Idle
    BY <2>5 DEF Crash
  <2>6. CASE calls'[h] = Idle
    BY <2>6 DEF Truthful, Idle
  <2> QED
    BY <2>1, <2>3, <2>4, <2>5, <2>6 DEF Next, Tick, vars
<1>2. ASSUME NEW e \in audit', e[1] = "ci.deleted"
      PROVE  \A i \in e[2] : Gone(i)'
  <2>1. CASE e \in audit
    BY <1>2, <2>1, GoneStays DEF DeletionsInv
  <2>2. CASE e \notin audit
    <3>1. PICK h \in Handlers : /\ At(h, "audit")
                                /\ e = <<calls[h].action, calls[h].entity>>
      <4>1. ASSUME NEW h \in Handlers, Request(h) \/ Step(h)
            PROVE  RecordAudit(h)
        BY <1>2, <2>2, <4>1
        DEF Request, Step, Read, Query, AskOwner, SelectMembers, SetCached, Publish,
            CreateCI, UpdateCI, DeleteCI, CreateRelationship, Select, CommitUpdate,
            CommitDelete, Invalidate
      <4> QED
        BY <1>2, <2>2, <4>1 DEF Next, Tick, Crash, vars, RecordAudit
    <3>2. \A i \in e[2] : Gone(i)
      BY <1>2, <3>1 DEF DeletionsInv, Truthful, At
    <3> QED
      BY <3>2, GoneStays
  <2> QED
    BY <2>1, <2>2
<1> QED
  BY <1>1, <1>2 DEF DeletionsInv

\* What the audit log calls deleted is not stored, in any interleaving of two
\* deletions, an insertion and a relationship: only a DELETE that the foreign keys
\* let through is audited, and the id sequence never hands an id out again.
THEOREM CmdbDeletionsTrue == Spec => []AuditedDeletionsAreGone
<1>1. Init => DeletionsInv
  BY DEF Init, DeletionsInv, Truthful, Idle
<1>2. TypeOK /\ DeletionsInv /\ [Next]_vars => DeletionsInv'
  BY DeletionsInductive
<1>3. DeletionsInv => AuditedDeletionsAreGone
  BY DEF DeletionsInv, AuditedDeletionsAreGone, Gone
<1> QED
  BY <1>1, <1>2, <1>3, CmdbTypeCorrect, PTL DEF Spec
=============================================================================
