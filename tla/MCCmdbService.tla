---------------------------- MODULE MCCmdbService ----------------------------
(***************************************************************************)
(* Values of the constants for TLC.                                        *)
(***************************************************************************)
EXTENDS CmdbServiceProps

CONSTANTS h1, h2, r1, r2, u1

OneReplica == [h \in Handlers |-> r1]
TwoReplicas == [h \in Handlers |-> IF h = h1 THEN r1 ELSE r2]

Everything == [h \in Handlers |-> ReadOps \cup WriteOps]

\* Both relate items and read lists, one deletes.
Relators ==
  [h \in Handlers |-> {"CreateRelationship", "related_cis"} \cup
     (IF h = h1 THEN {"CreateCI"} ELSE {"DeleteCI"})]

\* h1 writes, h2 reads and deletes.
WriterAndReader ==
  [h \in Handlers |-> IF h = h1 THEN WriteOps ELSE ReadOps \cup {"DeleteCI"}]

\* h1 creates and edits an item, h2 looks it up.
EditorAndReader ==
  [h \in Handlers |-> IF h = h1 THEN {"CreateCI", "UpdateCI"} ELSE {"ci"}]
==============================================================================
