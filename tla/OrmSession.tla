----------------------------- MODULE OrmSession ------------------------------
(***************************************************************************)
(* What SQLAlchemy and Postgres do for one row of one session, as the      *)
(* repositories of src/server use them (data/database.py: the default      *)
(* READ COMMITTED isolation, expire_on_commit = False).                    *)
(*                                                                         *)
(* A row is a record of columns.  A session that has loaded a row keeps    *)
(* the loaded object in its identity map: a second SELECT of the same key  *)
(* returns that object with its first values.  Assignments change the      *)
(* object only; commit() emits one UPDATE with the columns whose value     *)
(* differs from the loaded one, and no UPDATE when none does.              *)
(***************************************************************************)

\* The row with the columns of "columns" assigned.
Overlay(row, columns) ==
  [c \in DOMAIN row |-> IF c \in DOMAIN columns THEN columns[c] ELSE row[c]]

DirtyColumns(loaded, pending) ==
  {c \in DOMAIN loaded : pending[c] # loaded[c]}

\* The stored row after the UPDATE that the flush of "pending" emits.
Flush(stored, loaded, pending) ==
  [c \in DOMAIN stored |->
     IF c \in DirtyColumns(loaded, pending) THEN pending[c] ELSE stored[c]]

\* The part of a row that an audit snapshot quotes.
Project(row, columns) == [c \in columns |-> row[c]]
==============================================================================
