-------------------------- MODULE CmdbServiceProps ---------------------------
(***************************************************************************)
(* What the CMDB Service is meant to guarantee, stated over the variables  *)
(* of CmdbService.                                                         *)
(***************************************************************************)
EXTENDS CmdbService

\* What a read of k would find in Postgres.
Current(k) ==
  IF k[1] = "related_cis"
  THEN {<<i, cis[i]>> : i \in {x \in RelatedIds(KeyCI(k)) : Stored(x)}}
  ELSE IF Stored(KeyCI(k)) THEN cis[KeyCI(k)] ELSE None

\* Redis answers k with something Postgres no longer says.
Stale(k) == Cached(k) /\ cache[k].value # Current(k)

\* The part of it that the service means to invalidate: the item itself, and
\* which items a list names, but not what the list says of them.
OutOfDate(k) ==
  IF k[1] = "related_cis"
  THEN Cached(k) /\ {m[1] : m \in cache[k].value} # RelatedIds(KeyCI(k))
  ELSE Stale(k)

Owed(h) ==
  IF At(h, "invalidate") THEN {calls[h].owed[n] : n \in 1..Len(calls[h].owed)} ELSE {}
-----------------------------------------------------------------------------
ValueOf(k) == IF k[1] = "related_cis" THEN SUBSET (Ids \X CIRow) ELSE CIRow

\* A call of one of the forms that the handlers give it.
WellFormed(call) ==
  \/ call = Idle
  \/ /\ call.pc = "query" /\ call.key \in Keys
     /\ call = Reader("query", call.key, None)
  \/ /\ call.pc = "owner" /\ call.key \in Keys /\ call.key[1] = "ci_with_owner"
     /\ call.held \in CIRow /\ call.held.owner_user_id \in Owners
     /\ call = Reader("owner", call.key, call.held)
  \/ /\ call.pc = "members" /\ call.key \in Keys /\ call.key[1] = "related_cis"
     /\ call.ids \subseteq Ids
     /\ call = [pc |-> "members", key |-> call.key, ids |-> call.ids]
  \/ /\ call.pc = "set" /\ call.key \in Keys /\ call.held \in ValueOf(call.key)
     /\ call = Reader("set", call.key, call.held)
  \/ /\ call.pc \in {"select", "commit"} /\ call.op \in {"UpdateCI", "DeleteCI"}
     /\ call.id \in Ids /\ call.loaded \in CIRow
     /\ call.op = "UpdateCI" => call.pending \in CIRow
     /\ call = Writer(call.pc, call.op, call.id, call.loaded, call.pending)
  \/ /\ call.pc \in {"publish", "invalidate", "audit"} /\ call.entity \subseteq Ids
     /\ call.pc = "invalidate" => Len(call.owed) \in 1..2
     /\ call.owed \in Seq(Keys)
     /\ call = Committed(call.pc, call.action, call.entity, call.owed)

\* Rows, cached values and what handlers hold have the form the code gives them.
TypeOK ==
  /\ next_id \in 1..(MaxCIs + 1)
  /\ DOMAIN cis \subseteq 1..(next_id - 1)
  /\ \A i \in DOMAIN cis : cis[i] \in CIRow
  /\ relationships \subseteq Ids \X Ids
  /\ DOMAIN cache \subseteq Keys
  /\ \A k \in DOMAIN cache : cache[k] \in [value : ValueOf(k), left : 1..TTL]
  /\ events \subseteq Ids
  /\ calls = [h \in Handlers |-> calls[h]]
  /\ \A h \in Handlers : WellFormed(calls[h])
  /\ served \in 0..MaxWrites

\* A relationship names two stored items, whatever deletions and insertions
\* interleave (the foreign keys of ci_relationships; the handlers check nothing).
RelationshipsPointToStored == \A r \in relationships : Stored(r[1]) /\ Stored(r[2])

\* A deletion in the audit log is a deletion that happened: a DELETE that the
\* foreign keys refuse must not reach record_audit_event (cmdb_server.py:253-271).
AuditedDeletionsAreGone ==
  \A e \in audit : e[1] = "ci.deleted" => \A i \in e[2] : ~Stored(i)

\* A write that puts a cached value out of date still owes the deletion of that
\* very key, whoever else reads or writes; the only other way for a key to go out
\* of date is a reader that sets what it read before (the keys are kept in sync by
\* hand at each mutation, ARD-0013).
InvalidationsOwed ==
  [][\A k \in Keys : ~OutOfDate(k) /\ OutOfDate(k)' =>
       \/ \E h \in Handlers : k \in Owed(h)'
       \/ \E h \in Handlers : At(h, "set") /\ calls[h].key = k /\ At(h, "idle")']_vars

\* Once every mutation has made its cache calls, no key is out of date: "an edit is
\* visible immediately rather than up to 60s later" (ARD-0013).
EditsVisible ==
  (\A h \in Handlers : Owed(h) = {}) => \A k \in Keys : ~OutOfDate(k)

\* Lost invalidations, overtaken readers and crashes notwithstanding, the cache
\* agrees with Postgres for good once the mutations have ceased: a stale value
\* outlives neither its time-to-live nor the reader that held it.
EventuallyCoherent == <>[](\A k \in Keys : ~Stale(k))
-----------------------------------------------------------------------------
(***************************************************************************)
(* The invariant behind AuditedDeletionsAreGone.                           *)
(***************************************************************************)

\* An id that the sequence handed out and no row has: ids are not handed out twice.
Gone(i) == i \in 1..(next_id - 1) /\ ~Stored(i)

\* A writer speaks of an item that once was, and a call that will audit a deletion
\* speaks of items that are gone.
Truthful(call) ==
  /\ call.pc \in {"select", "commit"} => call.id \in 1..(next_id - 1)
  /\ call.pc \in {"publish", "invalidate", "audit"} /\ call.action = "ci.deleted" =>
       \A i \in call.entity : Gone(i)

\* What is audited as deleted, or about to be, is gone for good: nothing that the
\* code does between its commit and its audit call brings an item back.
DeletionsInv ==
  /\ \A e \in audit : e[1] = "ci.deleted" => \A i \in e[2] : Gone(i)
  /\ \A h \in Handlers : Truthful(calls[h])
==============================================================================
