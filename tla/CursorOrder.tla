------------------------------ MODULE CursorOrder ------------------------------
(***************************************************************************)
(* What a page of SqlAlchemySource is, at the level of columns and values: *)
(* the checkpoint's cursor, the OR/AND expansion that compares a row with  *)
(* it, and what becomes of a value on its way into the checkpoint and      *)
(* back. PollRunner has the same order over pairs; PollRunnerProofs says   *)
(* why that is right for any number of primary key columns.                *)
(*                                                                         *)
(* A cell of the database, or a part of a cursor, is a sequence of one     *)
(* integer, or the empty one for NULL and None. SQLAlchemy compares a      *)
(* column with None by IS NULL, hence the plain equality below; in SQL     *)
(* nothing is greater than NULL, or NULL greater than anything.            *)
(***************************************************************************)
EXTENDS Integers, Sequences, FiniteSets

Null == <<>>
Cell == {Null} \cup {<<v>> : v \in Int}

\* Rows as the source orders them: the cursor column and the pk_columns.
Row(width) == [1 .. width -> Cell]
FullRow(width) == {r \in Row(width) : \A i \in 1 .. width : r[i] # Null}

GreaterThan(x, y) == x # Null /\ y # Null /\ x[1] > y[1]

-----------------------------------------------------------------------------
(* Values in a checkpoint. *)

PartKinds == {"str", "int", "float", "bool", "none"}
ValueKinds == PartKinds \cup {"datetime", "decimal", "uuid", "other"}

\* serialize_cursor_part; TypeError for the others
Serializable(kind) == kind # "other"
SerializedKind(kind) == IF kind \in PartKinds THEN kind ELSE "str"

\* The kinds that JSON gives back, _is_valid_cursor_part
ParsesBack(kind) == kind \in PartKinds

\* The operator > of SQLAlchemy accepts no None and no bool: ArgumentError,
\* which fetch turns into a FetchError.
Orderable(kind) == kind \notin {"none", "bool"}

-----------------------------------------------------------------------------
(* Queries. *)

\* _cursor_cols_values, or else FetchError
FitsColumns(cursor, width) == Len(cursor) = width

\* Every part is the operand of a > in one of the conditions.
Comparable(cursor) == \A i \in DOMAIN cursor : cursor[i] # Null

\* _build_or_and_expansion
Beyond(row, cursor) ==
    \E i \in DOMAIN cursor :
        /\ \A j \in 1 .. i - 1 : row[j] = cursor[j]
        /\ GreaterThan(row[i], cursor[i])

\* The rows of the query. The filter and the where clause are joined by AND;
\* where is the set of rows that its text lets through as one conjunct.
Matching(rows, where) == rows \cap where
MatchingBeyond(rows, where, cursor) ==
    {r \in rows \cap where : Beyond(r, cursor)}

\* ORDER BY the cursor column and pk_columns, LIMIT size, for rows without NULL.
IsPageOf(page, matching, size) ==
    /\ page \subseteq matching
    /\ Cardinality(page) <= size
    /\ \A r \in page, q \in matching : Beyond(r, q) => q \in page
    /\ Cardinality(page) < size => page = matching

\* events[-1], the row whose cursor becomes the checkpoint
IsLastOf(last, page) ==
    last \in page /\ \A r \in page : r = last \/ Beyond(last, r)
=============================================================================
