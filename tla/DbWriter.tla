------------------------------- MODULE DbWriter -------------------------------
(***************************************************************************)
(* One DbWriter (binding/writer.py) in the hands of a handler, over one    *)
(* table of a database.                                                    *)
(*                                                                         *)
(* Outside a transaction() block every call has a transaction of its own;  *)
(* inside, all calls share the block's connection. The handler may catch   *)
(* what a call raises and carry on, let it leave the block, nest a second  *)
(* transaction(), or close the writer in the middle of the block. The      *)
(* database may refuse any statement, and may fail to commit or to roll    *)
(* back.                                                                   *)
(***************************************************************************)
EXTENDS Naturals, Sequences

CONSTANTS
    Keys,           \* primary keys
    Values,         \* what the other columns of a row can hold
    Absent,         \* there is no row
    MaxBatch,       \* bound: rows of one insert_many or upsert_many
    Aborting        \* does every failed statement abort the transaction?

ASSUME AbsentAssumption == Absent \notin Values
ASSUME BatchAssumption == MaxBatch \in Nat \ {0} /\ Aborting \in BOOLEAN

VARIABLES
    table,          \* the committed rows
    work,           \* the rows as the block's transaction sees them
    aborted,        \* the database refuses all but the end of the transaction
    conns,          \* connections checked out of the engine's pool
    tx,             \* _tx and _tx_conn are set
    closedInTx,     \* _closed_in_active_tx
    closeRaised,    \* close() has raised in the block before it set closedInTx
    block,          \* is the handler inside or outside a transaction() block?
    ideal           \* the rows, had exactly the block's successful calls run

vars == <<table, work, aborted, conns, tx, closedInTx, closeRaised, block, ideal>>

Rows == [Keys -> Values \cup {Absent}]

-----------------------------------------------------------------------------
(* Statements and calls. *)

\* "add" is an insert or an upsert of a row that does not name its key: the
\* database generates one, which is then the statement's key. No call asks
\* for the key columns of its rows.
Adding == {"insert", "add"}
Storing == Adding \cup {"upsert"}

Stmts == [op : Storing \cup {"update", "delete"}, key : Keys, val : Values]

Effect(db, s) ==
    [db EXCEPT ![s.key] =
        CASE s.op \in Storing -> s.val
          [] s.op = "update" -> IF @ = Absent THEN Absent ELSE s.val
          [] s.op = "delete" -> Absent]

\* The rows after each of the call's statements, and before the first.
After(db, call) ==
    LET rows[n \in 0..Len(call)] ==
            IF n = 0 THEN db ELSE Effect(rows[n - 1], call[n])
    IN  rows

Apply(db, call) == After(db, call)[Len(call)]

\* The key of an inserted row must be new; a generated key is.
Accepts(db, s) == s.op \in Adding => db[s.key] = Absent

\* The first n statements of the call are accepted.
Runs(db, call, n) == \A m \in 1..n : Accepts(After(db, call)[m - 1], call[m])

\* insert, upsert, update and delete are one statement, insert_many and
\* upsert_many one per row. Calls without rows, and calls whose columns do
\* not fit the table, return or raise before they reach the database. Of the
\* rows of a batch, either all name their key here or none does.
Calls ==
    {call \in UNION {[1..n -> Stmts] : n \in 1..MaxBatch} :
        /\ \A m \in DOMAIN call : call[m].op = call[1].op
        /\ Len(call) > 1 => call[1].op \in Storing}

-----------------------------------------------------------------------------
Init ==
    /\ table = [k \in Keys |-> Absent]
    /\ work = table
    /\ aborted = FALSE
    /\ conns = 0
    /\ tx = FALSE
    /\ closedInTx = FALSE
    /\ closeRaised = FALSE
    /\ block = "outside"
    /\ ideal = table

\* _ensure_initialized raises WriteError once the writer has been closed in
\* an active block. (Its engine and table metadata are of no concern here.)
EnsureInitialized == ~closedInTx

\* Mutant: only the writer's own handles are reset.
EndTxKeepingConnection ==
    /\ tx' = FALSE
    /\ conns' = conns
    /\ aborted' = FALSE
    /\ work' = table'

\* The transaction is over: its connection goes back, and the rows it saw
\* are forgotten.
EndTx ==
    /\ tx' = FALSE
    /\ conns' = conns - 1
    /\ aborted' = FALSE
    /\ work' = table'

Leave == block' = "outside" /\ ideal' = table' /\ closeRaised' = FALSE

-----------------------------------------------------------------------------
(* Calls outside a block, in an engine.begin() of their own. If the call   *)
(* raises, whatever the statement, the table is as it was.                 *)

CallAlone(call) ==
    /\ ~tx
    /\ EnsureInitialized
    /\ Runs(table, call, Len(call))
    /\ table' = Apply(table, call)
    /\ work' = table'
    /\ ideal' = IF block = "outside" THEN table' ELSE ideal
    /\ UNCHANGED <<aborted, conns, tx, closedInTx, closeRaised, block>>

-----------------------------------------------------------------------------
(* transaction() *)

Begin ==
    /\ block = "outside"
    /\ ~tx
    /\ EnsureInitialized
    /\ tx' = TRUE
    /\ conns' = conns + 1
    /\ closedInTx' = FALSE
    /\ block' = "inside"
    /\ UNCHANGED <<table, work, aborted, closeRaised, ideal>>

\* A call inside the block returns normally.
CallInBlock(call) ==
    /\ block = "inside"
    /\ tx
    /\ ~aborted
    /\ Runs(work, call, Len(call))
    /\ work' = Apply(work, call)
    /\ ideal' = Apply(ideal, call)
    /\ UNCHANGED <<table, aborted, conns, tx, closedInTx, closeRaised, block>>

\* A call inside the block raises WriteError after n of its statements, and
\* the handler catches it. The statements before stay in the transaction,
\* unless the database has aborted it or the connection is lost.
CallFailsInBlock(call, n) ==
    /\ block = "inside"
    /\ tx
    /\ ~aborted
    /\ n < Len(call)
    /\ Runs(work, call, n)
    /\ aborted' \in {Aborting, TRUE}
    /\ work' = After(work, call)[n]
    /\ UNCHANGED <<table, conns, tx, closedInTx, closeRaised, block, ideal>>

\* The rows that committing the transaction leaves.
CommitResult == IF aborted THEN table ELSE work

\* The with block ends normally.
ExitCommits ==
    /\ block = "inside"
    /\ tx
    /\ table' = CommitResult
    /\ EndTx
    /\ Leave
    /\ UNCHANGED closedInTx

\* WriteError: the commit failed, or its success was not reported.
ExitCommitFails ==
    /\ block = "inside"
    /\ tx
    /\ table' \in {table, CommitResult}
    /\ EndTx
    /\ Leave
    /\ UNCHANGED closedInTx

\* Mutant: the connection goes back with the transaction still open.
ExitWithoutRollback ==
    /\ block = "inside"
    /\ tx
    /\ tx' = FALSE
    /\ conns' = conns - 1
    /\ UNCHANGED <<table, work, aborted, closedInTx>>
    /\ Leave

\* An exception leaves the block. If the rollback raises as well, the
\* connection is closed all the same, and the database rolls back.
ExitRollsBack ==
    /\ block = "inside"
    /\ tx
    /\ UNCHANGED table
    /\ EndTx
    /\ Leave
    /\ UNCHANGED closedInTx

\* The writer was closed inside the block, whether close() returned or
\* raised: neither commit nor rollback.
ExitAfterClose ==
    /\ block = "inside"
    /\ ~tx
    /\ UNCHANGED <<table, work, aborted, conns, tx, closedInTx>>
    /\ Leave

-----------------------------------------------------------------------------
(* close() *)

\* Mutant: close() does not remember that a block was active.
CloseForgets ==
    /\ tx
    /\ UNCHANGED <<table, ideal, block, closedInTx, closeRaised>>
    /\ EndTx

\* Mutant: close() ends a transaction although none is active.
CloseAlways ==
    /\ UNCHANGED <<table, ideal, block, closeRaised>>
    /\ EndTx
    /\ closedInTx' = tx

\* The active transaction is rolled back. (Without one, close() only gives
\* up the engine, and the next call creates it again.)
Close ==
    /\ tx
    /\ UNCHANGED <<table, ideal, block, closeRaised>>
    /\ EndTx
    /\ closedInTx' = TRUE

\* The writer's own engine is disposed after the transaction has ended and
\* before closedInTx is set, and disposing it raises: the writer goes on as
\* if it had never been in a block. (A nested transaction(), which it would
\* then accept, is left out.)
CloseRaises ==
    /\ tx
    /\ UNCHANGED <<table, ideal, block, closedInTx>>
    /\ EndTx
    /\ closeRaised' = TRUE

-----------------------------------------------------------------------------
Next ==
    \/ \E call \in Calls :
          \/ CallAlone(call)
          \/ CallInBlock(call)
          \/ \E n \in 0..MaxBatch : CallFailsInBlock(call, n)
    \/ Begin \/ ExitCommits \/ ExitCommitFails \/ ExitRollsBack
    \/ Close \/ CloseRaises \/ ExitAfterClose

Spec == Init /\ [][Next]_vars

-----------------------------------------------------------------------------
(* Properties. *)

\* The type invariant of the writer's state.
TypeOK ==
    /\ table \in Rows /\ work \in Rows /\ ideal \in Rows
    /\ conns \in Nat
    /\ aborted \in BOOLEAN /\ tx \in BOOLEAN
    /\ closedInTx \in BOOLEAN /\ closeRaised \in BOOLEAN
    /\ block \in {"inside", "outside"}

\* Nothing that is written inside a transaction() block reaches the table
\* before the block ends, neither while the transaction is active nor after
\* close() has torn it down; and once closed in a block, the writer never
\* writes again. It does not hold of a block in which close() has raised: what
\* is written after that is committed at once.
NothingEscapes ==
    [][\/ block = "inside" /\ block' = "inside" /\ ~closeRaised
       \/ closedInTx
       => table' = table]_vars

\* A transaction() block that ends has stored exactly its successful calls,
\* or nothing: never a part of a batch, and never a part of the block. (What
\* is committed before its end, after a close() that raised, is not its.)
AllOrNothing ==
    [][block = "inside" /\ block' = "outside" => table' \in {table, ideal}]_vars

\* Outside a block no transaction is left open, and no connection is kept.
Released == block = "outside" => ~tx /\ conns = 0
=============================================================================
