---------------------------- MODULE DbWriterProofs ----------------------------
(***************************************************************************)
(* Proofs about DbWriter: what a call does to the rows, also when it is    *)
(* made a second time, and what a transaction() block lets out, and when.  *)
(***************************************************************************)
EXTENDS DbWriter, FiniteSetTheorems, TLAPS

-----------------------------------------------------------------------------
(* Induction over the statements of a call. The library's principles take  *)
(* an operator; these take the set of the positions for which a statement  *)
(* holds.                                                                  *)

\* A set of positions has a first one. (Well-founded by the strict
\* inclusion of the intervals up to them.)
LEMMA FirstPosition ==
    ASSUME NEW n \in Nat, NEW T \in SUBSET (1..n), T # {}
    PROVE  \E m \in T : \A k \in T : m <= k
<1> DEFINE Upto == {1..k : k \in T}
<1>1. Upto \subseteq FiniteSubsetsOf(1..n)
    <2> SUFFICES ASSUME NEW k \in T PROVE 1..k \in FiniteSubsetsOf(1..n)
        OBVIOUS
    <2> QED
        BY FS_Interval DEF FiniteSubsetsOf
<1>2. IsWellFoundedOn(StrictSubsetOrdering(1..n), FiniteSubsetsOf(1..n))
    BY FS_StrictSubsetOrderingWellFounded
<1>3. Upto # {}
    OBVIOUS
<1> HIDE DEF Upto
<1>4. \E x \in Upto : \A y \in Upto : ~(<<y, x>> \in StrictSubsetOrdering(1..n))
    BY <1>1, <1>2, <1>3, WFMin
<1> USE DEF Upto
<1>5. PICK m \in T : \A k \in T : ~(<<1..k, 1..m>> \in StrictSubsetOrdering(1..n))
    BY <1>4
<1>6. ASSUME NEW k \in T, k < m PROVE FALSE
    <2>1. 1..k \subseteq 1..m /\ 1..m \subseteq 1..n /\ m \in 1..m /\ m \notin 1..k
        BY <1>6
    <2> QED
        BY <1>5, <2>1 DEF StrictSubsetOrdering
<1> QED
    BY <1>5, <1>6

\* What holds before the first statement, and after a statement if it held
\* before it, holds throughout.
LEMMA Throughout ==
    ASSUME NEW n \in Nat, NEW S, 0 \in S,
           \A m \in 1..n : m - 1 \in S => m \in S
    PROVE  0..n \subseteq S
<1> DEFINE T == {m \in 1..n : m \notin S}
<1>1. ASSUME T # {} PROVE FALSE
    <2>1. PICK m \in T : \A k \in T : m <= k
        BY <1>1, FirstPosition
    <2>2. m - 1 \in 0..n /\ m - 1 \notin T
        BY <2>1
    <2> QED
        BY <2>1, <2>2
<1> QED
    BY <1>1

-----------------------------------------------------------------------------
(* The rows after each statement of a call.                                *)

\* A statement turns rows into rows.
LEMMA EffectType ==
    ASSUME NEW db \in Rows, NEW s \in Stmts
    PROVE  Effect(db, s) \in Rows
  BY DEF Effect, Rows, Stmts, Storing, Adding

\* The rows after each statement are defined, and are rows.
LEMMA AfterExists ==
    ASSUME NEW db \in Rows, NEW N \in Nat, NEW call \in [1..N -> Stmts]
    PROVE  \E g \in [0..N -> Rows] :
              g = [n \in 0..N |-> IF n = 0 THEN db ELSE Effect(g[n - 1], call[n])]
<1> DEFINE Partial(m, g) ==
              g = [n \in 0..m |-> IF n = 0 THEN db ELSE Effect(g[n - 1], call[n])]
           S == {m \in 0..N : \E g \in [0..m -> Rows] : Partial(m, g)}
<1>1. 0 \in S
    <2> DEFINE g == [n \in 0..0 |-> db]
    <2>1. g \in [0..0 -> Rows]
        OBVIOUS
    <2>2. Partial(0, g)
        OBVIOUS
    <2>3. \E one \in [0..0 -> Rows] : Partial(0, one)
        BY <2>1, <2>2
    <2> HIDE DEF Partial
    <2> QED
        BY <2>3
<1>2. ASSUME NEW m \in 1..N, m - 1 \in S PROVE m \in S
    <2>1. PICK g \in [0..(m - 1) -> Rows] : Partial(m - 1, g)
        BY <1>2
    <2> DEFINE h == [n \in 0..m |-> IF n = m THEN Effect(g[m - 1], call[m]) ELSE g[n]]
    <2>2. Effect(g[m - 1], call[m]) \in Rows
        BY EffectType
    <2>3. h \in [0..m -> Rows]
        BY <2>2
    <2>4. ASSUME NEW n \in 0..m
          PROVE  h[n] = IF n = 0 THEN db ELSE Effect(h[n - 1], call[n])
        <3>1. CASE n = m
            <4>1. h[n] = Effect(g[m - 1], call[m])
                BY <3>1
            <4>2. h[m - 1] = g[m - 1]
                OBVIOUS
            <4> QED
                BY <3>1, <4>1, <4>2
        <3>2. CASE n # m
            <4>1. h[n] = g[n] /\ n \in 0..(m - 1)
                BY <3>2
            <4>2. g[n] = IF n = 0 THEN db ELSE Effect(g[n - 1], call[n])
                BY <2>1, <4>1
            <4>3. CASE n = 0
                BY <4>1, <4>2, <4>3
            <4>4. CASE n # 0
                <5>1. h[n - 1] = g[n - 1]
                    BY <3>2, <4>4
                <5> QED
                    BY <4>1, <4>2, <4>4, <5>1
            <4> QED
                BY <4>3, <4>4
        <3> QED
            BY <3>1, <3>2
    <2> HIDE DEF h
    <2>5. h = [n \in 0..m |-> h[n]]
        BY <2>3
    <2>6. [n \in 0..m |-> h[n]]
            = [n \in 0..m |-> IF n = 0 THEN db ELSE Effect(h[n - 1], call[n])]
        BY <2>4
    <2>7. Partial(m, h)
        BY <2>5, <2>6
    <2> QED
        BY <2>3, <2>7
<1> HIDE DEF S
<1>3. 0..N \subseteq S
    BY <1>1, <1>2, Throughout
<1>4. N \in S
    BY <1>3
<1> QED
    BY <1>4 DEF S

\* After is what its recursive definition says, and its values are rows.
LEMMA AfterDef ==
    ASSUME NEW db \in Rows, NEW N \in Nat, NEW call \in [1..N -> Stmts]
    PROVE  /\ After(db, call) \in [0..N -> Rows]
           /\ After(db, call)[0] = db
           /\ \A n \in 1..N :
                 After(db, call)[n] = Effect(After(db, call)[n - 1], call[n])
<1> DEFINE Whole(g) ==
              g = [n \in 0..Len(call) |-> IF n = 0 THEN db ELSE Effect(g[n - 1], call[n])]
           rows == After(db, call)
           S == {n \in 0..N : rows[n] \in Rows}
<1>1. call \in Seq(Stmts) /\ Len(call) = N
    OBVIOUS
<1>2. \E g : Whole(g)
    BY <1>1, AfterExists
<1>3. rows = CHOOSE g : Whole(g)
    BY DEF After
<1> HIDE DEF Whole
<1>4. Whole(rows)
    BY <1>2, <1>3
<1> HIDE DEF rows
<1>5. rows = [n \in 0..N |-> IF n = 0 THEN db ELSE Effect(rows[n - 1], call[n])]
    BY <1>1, <1>4 DEF Whole
<1>6. rows[0] = db
    BY <1>5
<1>7. \A n \in 1..N : rows[n] = Effect(rows[n - 1], call[n])
    BY <1>5
<1>8. 0..N \subseteq S
    <2>1. 0 \in S
        BY <1>6
    <2>2. ASSUME NEW m \in 1..N, m - 1 \in S PROVE m \in S
        BY <1>7, <2>2, EffectType
    <2> HIDE DEF S
    <2> QED
        BY <2>1, <2>2, Throughout
<1>9. rows \in [0..N -> Rows]
    BY <1>5, <1>8
<1> QED
    BY <1>6, <1>7, <1>9 DEF rows

\* A call is a list of statements, of the same operation.
LEMMA CallShape ==
    ASSUME NEW call \in Calls
    PROVE  /\ Len(call) \in 1..MaxBatch
           /\ call \in [1..Len(call) -> Stmts]
           /\ \A m \in 1..Len(call) : call[m].op = call[1].op
           /\ call[1].op \in Storing \/ Len(call) = 1
<1>1. PICK n \in 1..MaxBatch : call \in [1..n -> Stmts]
    BY DEF Calls
<1>2. Len(call) = n
    BY <1>1, BatchAssumption
<1> QED
    BY <1>1, <1>2 DEF Calls

\* Applying a call, or the first of its statements, turns rows into rows.
LEMMA ApplyType ==
    ASSUME NEW db \in Rows, NEW call \in Calls
    PROVE  /\ Apply(db, call) \in Rows
           /\ \A n \in 0..Len(call) : After(db, call)[n] \in Rows
  BY AfterDef, CallShape DEF Apply

\* Statements that store a row make the rows they name independent of what
\* was there, and leave the others alone.
LEMMA StoredRows ==
    ASSUME NEW db \in Rows, NEW other \in Rows, NEW N \in Nat,
           NEW call \in [1..N -> Stmts],
           \A m \in 1..N : call[m].op \in Storing
    PROVE  \A n \in 0..N, k \in Keys :
              After(db, call)[n][k] = IF \E m \in 1..n : call[m].key = k
                                      THEN After(other, call)[n][k]
                                      ELSE db[k]
<1> DEFINE this == After(db, call)
           that == After(other, call)
           Named(n, k) == \E m \in 1..n : call[m].key = k
           S == {n \in 0..N : \A k \in Keys :
                    this[n][k] = IF Named(n, k) THEN that[n][k] ELSE db[k]}
<1>1. /\ this \in [0..N -> Rows] /\ that \in [0..N -> Rows]
      /\ this[0] = db
      /\ \A n \in 1..N : this[n] = Effect(this[n - 1], call[n])
      /\ \A n \in 1..N : that[n] = Effect(that[n - 1], call[n])
    BY AfterDef
<1> HIDE DEF this, that
<1>2. 0 \in S
    BY <1>1
<1>3. ASSUME NEW n \in 1..N, n - 1 \in S PROVE n \in S
    <2> SUFFICES ASSUME NEW k \in Keys
                 PROVE  this[n][k] = IF Named(n, k) THEN that[n][k] ELSE db[k]
        OBVIOUS
    <2>1. call[n] \in Stmts /\ call[n].op \in Storing
        OBVIOUS
    <2>2. /\ this[n] = [this[n - 1] EXCEPT ![call[n].key] = call[n].val]
          /\ that[n] = [that[n - 1] EXCEPT ![call[n].key] = call[n].val]
        BY <1>1, <2>1 DEF Effect, Storing, Adding
    <2>3. this[n - 1] \in Rows /\ that[n - 1] \in Rows
        BY <1>1
    <2>4. CASE k = call[n].key
        <3>1. Named(n, k)
            BY <2>4
        <3>2. this[n][k] = call[n].val /\ that[n][k] = call[n].val
            BY <2>2, <2>3, <2>4 DEF Rows
        <3> QED
            BY <3>1, <3>2
    <2>5. CASE k # call[n].key
        <3>1. Named(n, k) <=> Named(n - 1, k)
            BY <2>5
        <3>2. this[n][k] = this[n - 1][k] /\ that[n][k] = that[n - 1][k]
            BY <2>2, <2>3, <2>5 DEF Rows
        <3>3. this[n - 1][k] = IF Named(n - 1, k) THEN that[n - 1][k] ELSE db[k]
            BY <1>3
        <3> QED
            BY <3>1, <3>2, <3>3
    <2> QED
        BY <2>4, <2>5
<1>4. 0..N \subseteq S
    <2> HIDE DEF S
    <2> QED
        BY <1>2, <1>3, Throughout
<1> QED
    BY <1>4 DEF this, that

-----------------------------------------------------------------------------
(* Calls that are made a second time, by a handler to which its rows were  *)
(* delivered again.                                                        *)

\* Upserts may be repeated: however many there are and whatever the table
\* holds, running the same upserts again changes nothing. It is what a
\* handler relies on that is given its rows a second time, provided that its
\* upserts name the keys of their rows.
THEOREM RepeatedUpserts ==
    ASSUME NEW db \in Rows, NEW N \in Nat, NEW call \in [1..N -> Stmts],
           \A m \in 1..N : call[m].op = "upsert"
    PROVE  Apply(Apply(db, call), call) = Apply(db, call)
<1> DEFINE once == Apply(db, call)
           twice == Apply(once, call)
<1>1. Len(call) = N
    OBVIOUS
<1>2. once \in Rows
    BY <1>1, AfterDef DEF Apply
<1>3. twice \in Rows
    BY <1>1, <1>2, AfterDef DEF Apply
<1>4. ASSUME NEW k \in Keys PROVE twice[k] = once[k]
    <2>1. twice[k] = IF \E m \in 1..N : call[m].key = k
                     THEN once[k] ELSE once[k]
        BY <1>1, <1>2, StoredRows DEF Apply, Storing
    <2> QED
        BY <2>1
<1> HIDE DEF once, twice
<1>5. twice = once
    BY <1>2, <1>3, <1>4 DEF Rows
<1> QED
    BY <1>5 DEF once, twice

\* Rows that must have new keys are added to what the table holds: none of
\* its rows is overwritten, and each of the call's is there afterwards.
LEMMA AddedRows ==
    ASSUME NEW db \in Rows, NEW call \in Calls,
           call[1].op \in Adding, Runs(db, call, Len(call))
    PROVE  /\ \A k \in Keys : db[k] # Absent => Apply(db, call)[k] = db[k]
           /\ \A m \in 1..Len(call) :
                 /\ db[call[m].key] = Absent
                 /\ Apply(db, call)[call[m].key] = call[m].val
<1> DEFINE N == Len(call)
           rows == After(db, call)
           Kept(n) == \A k \in Keys : db[k] # Absent => rows[n][k] = db[k]
           Added(n) == \A m \in 1..n : /\ db[call[m].key] = Absent
                                       /\ rows[n][call[m].key] = call[m].val
           S == {n \in 0..N : Kept(n) /\ Added(n)}
<1>1. N \in Nat /\ call \in [1..N -> Stmts]
    BY CallShape, BatchAssumption
<1>2. /\ rows \in [0..N -> Rows]
      /\ rows[0] = db
      /\ \A n \in 1..N : rows[n] = Effect(rows[n - 1], call[n])
      /\ \A n \in 1..N : Accepts(rows[n - 1], call[n])
    BY <1>1, AfterDef DEF Runs
<1> HIDE DEF rows
<1>3. 0 \in S
    BY <1>1, <1>2
<1>4. ASSUME NEW n \in 1..N, n - 1 \in S PROVE n \in S
    <2> DEFINE new == call[n].key
    <2>1. call[n] \in Stmts /\ call[n].op \in Adding
        BY <1>1, CallShape
    <2>2. new \in Keys /\ call[n].val \in Values
        BY <2>1 DEF Stmts
    <2>3. rows[n] = [rows[n - 1] EXCEPT ![new] = call[n].val]
        BY <1>2, <2>1 DEF Effect, Storing, Adding
    <2>4. rows[n - 1] \in Rows /\ rows[n - 1][new] = Absent
        BY <1>2, <2>1 DEF Accepts
    <2>5. \A k \in Keys : rows[n][k] = IF k = new THEN call[n].val
                                      ELSE rows[n - 1][k]
        BY <2>2, <2>3, <2>4 DEF Rows
    <2>6. Kept(n - 1) /\ Added(n - 1)
        BY <1>4
    <2>7. db[new] = Absent
        BY <2>2, <2>4, <2>6
    <2>8. Kept(n)
        BY <2>5, <2>6, <2>7
    <2>9. ASSUME NEW m \in 1..n
          PROVE  db[call[m].key] = Absent /\ rows[n][call[m].key] = call[m].val
        <3>1. CASE m = n
            BY <2>2, <2>5, <2>7, <3>1
        <3>2. CASE m # n
            <4>1. m \in 1..(n - 1) /\ m \in 1..N
                BY <3>2
            <4>2. call[m].key \in Keys /\ call[m].val \in Values
                BY <1>1, <4>1 DEF Stmts
            <4>3. rows[n - 1][call[m].key] = call[m].val /\ db[call[m].key] = Absent
                BY <2>6, <4>1
            <4>4. call[m].key # new
                BY <2>4, <4>2, <4>3, AbsentAssumption
            <4> QED
                BY <2>5, <4>2, <4>3, <4>4
        <3> QED
            BY <3>1, <3>2
    <2> HIDE DEF Kept
    <2> QED
        BY <2>8, <2>9
<1>5. N \in S
    <2> HIDE DEF S, N
    <2>1. 0..N \subseteq S
        BY <1>1, <1>3, <1>4, Throughout
    <2> QED
        BY <1>1, <2>1
<1> QED
    BY <1>5 DEF Apply, rows

\* Rows whose keys the database generates are stored again by a call that is
\* made again: after it the table holds the rows of the first call and, under
\* other keys, those of the second. A handler that is given its rows twice
\* duplicates them, unless its calls name their keys.
THEOREM RepeatedAdds ==
    ASSUME NEW db \in Rows, NEW call \in Calls, NEW again \in Calls,
           call[1].op = "add", Runs(db, call, Len(call)),
           Len(again) = Len(call),
           \A m \in 1..Len(call) :
               again[m].op = call[m].op /\ again[m].val = call[m].val,
           Runs(Apply(db, call), again, Len(again))
    PROVE  \A m \in 1..Len(call) :
              /\ Apply(Apply(db, call), again)[call[m].key] = call[m].val
              /\ Apply(Apply(db, call), again)[again[m].key] = call[m].val
              /\ \A n \in 1..Len(call) : again[m].key # call[n].key
<1> DEFINE once == Apply(db, call)
           N == Len(call)
<1>1. N \in Nat /\ 1 \in 1..N /\ call \in [1..N -> Stmts]
    BY CallShape, BatchAssumption
<1>2. call[1].op \in Adding /\ again[1].op \in Adding
    BY <1>1 DEF Adding
<1>3. once \in Rows
    BY ApplyType
<1>4. \A m \in 1..N : once[call[m].key] = call[m].val
    BY <1>2, AddedRows
<1>5. /\ \A k \in Keys : once[k] # Absent => Apply(once, again)[k] = once[k]
      /\ \A m \in 1..N : /\ once[again[m].key] = Absent
                          /\ Apply(once, again)[again[m].key] = again[m].val
    BY <1>2, <1>3, AddedRows
<1>6. \A m \in 1..N : call[m].key \in Keys /\ call[m].val \in Values
    BY <1>1 DEF Stmts
<1> HIDE DEF once
<1> QED
    BY <1>4, <1>5, <1>6, AbsentAssumption DEF once

\* No call that names the keys of its rows does its work twice: if it is run
\* on a table on which it has succeeded, it either changes nothing, or (an
\* insert) it is refused and the table left as it is. Calls that leave the
\* keys to the database are the subject of RepeatedAdds.
THEOREM RepeatedCall ==
    ASSUME NEW db \in Rows, NEW call \in Calls,
           call[1].op # "add",
           Runs(db, call, Len(call)),
           Runs(Apply(db, call), call, Len(call))
    PROVE  Apply(Apply(db, call), call) = Apply(db, call)
<1> DEFINE N == Len(call)
           once == Apply(db, call)
           first == call[1].key
<1>1. N \in Nat /\ 1 \in 1..N /\ call \in [1..N -> Stmts]
    BY CallShape, BatchAssumption
<1>2. once \in Rows
    BY ApplyType
<1>3. CASE call[1].op = "insert"
    <2>1. once[first] \in Values
        <3>1. once[first] = call[1].val
            BY <1>1, <1>3, AddedRows DEF Adding
        <3> QED
            BY <1>1, <3>1 DEF Stmts
    <2>2. Accepts(once, call[1])
        BY <1>1, <1>2, AfterDef DEF Runs
    <2> QED
        BY <1>3, <2>1, <2>2, AbsentAssumption DEF Accepts, Adding
<1>4. CASE call[1].op = "upsert"
    BY <1>1, <1>4, CallShape, RepeatedUpserts
<1>5. CASE call[1].op \in {"update", "delete"}
    <2>1. N = 1
        BY <1>5, CallShape DEF Storing, Adding
    <2>2. ASSUME NEW r \in Rows PROVE Apply(r, call) = Effect(r, call[1])
        <3>1. After(r, call)[0] = r /\ After(r, call)[1] = Effect(After(r, call)[0], call[1])
            BY <1>1, AfterDef
        <3> QED
            BY <2>1, <3>1 DEF Apply
    <2>4. once = Effect(db, call[1]) /\ Apply(once, call) = Effect(once, call[1])
        BY <1>2, <2>2
    <2>3. call[1] \in Stmts
        BY <1>1
    <2> SUFFICES Apply(once, call) = once
        OBVIOUS
    <2> HIDE DEF once
    <2>5. CASE call[1].op = "update"
        <3>1. ASSUME NEW r \in Rows
              PROVE  Effect(r, call[1]) =
                        [r EXCEPT ![first] = IF r[first] = Absent THEN Absent
                                             ELSE call[1].val]
            BY <2>5 DEF Effect, Storing, Adding
        <3>2. once[first] = Absent \/ once[first] = call[1].val
            BY <2>3, <2>4, <3>1 DEF Rows, Stmts
        <3>3. Apply(once, call) = [once EXCEPT ![first] = once[first]]
            BY <1>2, <2>4, <3>1, <3>2
        <3> QED
            BY <1>2, <3>3 DEF Rows
    <2>6. CASE call[1].op = "delete"
        <3>1. ASSUME NEW r \in Rows
              PROVE  Effect(r, call[1]) = [r EXCEPT ![first] = Absent]
            BY <2>6 DEF Effect, Storing, Adding
        <3>2. once[first] = Absent
            BY <2>3, <2>4, <3>1 DEF Rows, Stmts
        <3>3. Apply(once, call) = [once EXCEPT ![first] = once[first]]
            BY <1>2, <2>4, <3>1, <3>2
        <3> QED
            BY <1>2, <3>3 DEF Rows
    <2> QED
        BY <1>5, <2>5, <2>6
<1> QED
    BY <1>1, <1>3, <1>4, <1>5 DEF Stmts, Storing, Adding

-----------------------------------------------------------------------------
(* The bookkeeping of the writer's handles.                                *)

Handles ==
    /\ tx => conns = 1
    /\ ~tx => conns = 0
    /\ tx => block = "inside"
    /\ closedInTx => ~tx
    /\ block = "inside" /\ ~tx => closedInTx \/ closeRaised
    /\ closeRaised => block = "inside" /\ ~tx
    /\ tx \in BOOLEAN /\ closedInTx \in BOOLEAN /\ closeRaised \in BOOLEAN
    /\ block \in {"inside", "outside"}

\* The end of a transaction returns the only connection.
LEMMA EndTxHandles ==
    ASSUME Handles, tx, EndTx
    PROVE  tx' = FALSE /\ conns' = 0
<1>1. tx' = FALSE /\ conns' = conns - 1
    BY DEF EndTx
<1>2. conns = 1
    BY DEF Handles
<1>3. conns' = 0
    BY <1>1, <1>2
<1> QED
    BY <1>1, <1>3

\* Every step of the writer keeps its handles consistent.
LEMMA HandlesStep == Handles /\ [Next]_vars => Handles'
<1> SUFFICES ASSUME Handles, [Next]_vars PROVE Handles'
    OBVIOUS
<1> USE DEF Handles
<1>1. ASSUME NEW call \in Calls, CallAlone(call) PROVE Handles'
    BY <1>1 DEF CallAlone
<1>2. ASSUME NEW call \in Calls, CallInBlock(call) PROVE Handles'
    BY <1>2 DEF CallInBlock
<1>3. ASSUME NEW call \in Calls, NEW n \in 0..MaxBatch,
             CallFailsInBlock(call, n)
      PROVE  Handles'
    BY <1>3 DEF CallFailsInBlock
<1>4. CASE Begin
    <2>1. conns = 0 /\ conns' = conns + 1
        BY <1>4 DEF Begin
    <2>2. conns' = 1
        BY <2>1
    <2> QED
        BY <1>4, <2>2 DEF Begin
<1>5. CASE ExitCommits
    <2>1. tx' = FALSE /\ conns' = 0
        BY <1>5, EndTxHandles DEF ExitCommits
    <2> QED
        BY <1>5, <2>1 DEF ExitCommits, Leave
<1>6. CASE ExitCommitFails
    <2>1. tx' = FALSE /\ conns' = 0
        BY <1>6, EndTxHandles DEF ExitCommitFails
    <2> QED
        BY <1>6, <2>1 DEF ExitCommitFails, Leave
<1>7. CASE ExitRollsBack
    <2>1. tx' = FALSE /\ conns' = 0
        BY <1>7, EndTxHandles DEF ExitRollsBack
    <2> QED
        BY <1>7, <2>1 DEF ExitRollsBack, Leave
<1>8. CASE ExitAfterClose
    BY <1>8 DEF ExitAfterClose, Leave
<1>9. CASE Close
    <2>1. tx' = FALSE /\ conns' = 0
        BY <1>9, EndTxHandles DEF Close
    <2> QED
        BY <1>9, <2>1 DEF Close
<1>10. CASE CloseRaises
    <2>1. tx' = FALSE /\ conns' = 0
        BY <1>10, EndTxHandles DEF CloseRaises
    <2> QED
        BY <1>10, <2>1 DEF CloseRaises
<1>11. CASE UNCHANGED vars
    BY <1>11 DEF vars
<1> QED
    BY <1>1, <1>2, <1>3, <1>4, <1>5, <1>6, <1>7, <1>8, <1>9, <1>10, <1>11
    DEF Next

\* The handles are always consistent.
LEMMA HandlesAlways == Spec => []Handles
<1>1. Init => Handles
    BY DEF Init, Handles
<1> QED
    BY <1>1, HandlesStep, PTL DEF Spec

-----------------------------------------------------------------------------
(* The type of the state.                                                  *)

\* The state keeps its type: in particular every sequence of calls leaves
\* each key with a row or without one, in the table, in the transaction's
\* view and in the ideal, and no connection is given back that was not
\* checked out.
LEMMA TypeStep == TypeOK /\ Handles /\ [Next]_vars => TypeOK'
<1> SUFFICES ASSUME TypeOK, Handles, [Next]_vars PROVE TypeOK'
    OBVIOUS
<1> USE DEF TypeOK
<1>1. ASSUME NEW call \in Calls, CallAlone(call) PROVE TypeOK'
    <2>1. table' \in Rows
        BY <1>1, ApplyType DEF CallAlone
    <2> QED
        BY <1>1, <2>1 DEF CallAlone
<1>2. ASSUME NEW call \in Calls, CallInBlock(call) PROVE TypeOK'
    <2>1. work' \in Rows /\ ideal' \in Rows
        BY <1>2, ApplyType DEF CallInBlock
    <2> QED
        BY <1>2, <2>1 DEF CallInBlock
<1>3. ASSUME NEW call \in Calls, NEW n \in 0..MaxBatch,
             CallFailsInBlock(call, n)
      PROVE  TypeOK'
    <2>1. n \in 0..Len(call)
        BY <1>3, CallShape, BatchAssumption DEF CallFailsInBlock
    <2>2. work' \in Rows
        BY <1>3, <2>1, ApplyType DEF CallFailsInBlock
    <2>3. aborted' \in BOOLEAN
        BY <1>3, BatchAssumption DEF CallFailsInBlock
    <2> QED
        BY <1>3, <2>2, <2>3 DEF CallFailsInBlock
<1>4. CASE Begin
    <2>1. conns' \in Nat
        BY <1>4 DEF Begin
    <2> QED
        BY <1>4, <2>1 DEF Begin
<1>5. ASSUME tx, EndTx, table' \in Rows
      PROVE  tx' = FALSE /\ conns' = 0 /\ aborted' = FALSE /\ work' \in Rows
    BY <1>5, EndTxHandles DEF EndTx
<1>6. CommitResult \in Rows
    BY DEF CommitResult
<1>7. CASE ExitCommits
    <2>1. table' \in Rows /\ tx /\ EndTx /\ Leave /\ closedInTx' = closedInTx
        BY <1>6, <1>7 DEF ExitCommits
    <2>2. tx' = FALSE /\ conns' = 0 /\ aborted' = FALSE /\ work' \in Rows
        BY <1>5, <2>1
    <2>3. block' = "outside" /\ ideal' = table' /\ closeRaised' = FALSE
        BY <2>1 DEF Leave
    <2> QED
        BY <2>1, <2>2, <2>3
<1>8. CASE ExitCommitFails
    <2>1. table' \in Rows /\ tx /\ EndTx /\ Leave /\ closedInTx' = closedInTx
        BY <1>6, <1>8 DEF ExitCommitFails
    <2>2. tx' = FALSE /\ conns' = 0 /\ aborted' = FALSE /\ work' \in Rows
        BY <1>5, <2>1
    <2>3. block' = "outside" /\ ideal' = table' /\ closeRaised' = FALSE
        BY <2>1 DEF Leave
    <2> QED
        BY <2>1, <2>2, <2>3
<1>9. CASE ExitRollsBack
    <2>1. table' \in Rows /\ tx /\ EndTx /\ Leave /\ closedInTx' = closedInTx
        BY <1>9 DEF ExitRollsBack
    <2>2. tx' = FALSE /\ conns' = 0 /\ aborted' = FALSE /\ work' \in Rows
        BY <1>5, <2>1
    <2>3. block' = "outside" /\ ideal' = table' /\ closeRaised' = FALSE
        BY <2>1 DEF Leave
    <2> QED
        BY <2>1, <2>2, <2>3
<1>10. CASE ExitAfterClose
    BY <1>10 DEF ExitAfterClose, Leave
<1>11. CASE Close
    BY <1>5, <1>11 DEF Close
<1>12. CASE CloseRaises
    BY <1>5, <1>12 DEF CloseRaises
<1>13. CASE UNCHANGED vars
    BY <1>13 DEF vars
<1> QED
    BY <1>1, <1>2, <1>3, <1>4, <1>7, <1>8, <1>9, <1>10, <1>11, <1>12, <1>13
    DEF Next

\* A new writer finds an empty table, and its handles unset.
LEMMA TypeInit == Init => TypeOK
<1> SUFFICES ASSUME Init PROVE TypeOK
    OBVIOUS
<1>1. table \in Rows
    BY DEF Init, Rows
<1> QED
    BY <1>1 DEF Init, TypeOK

\* The writer's state has its type in every reachable state, for every set
\* of keys and values, every batch size and every dialect.
THEOREM TypeCorrect == Spec => []TypeOK
  BY TypeInit, TypeStep, HandlesAlways, PTL DEF Spec

-----------------------------------------------------------------------------
(* Outside a block nothing is left open.                                   *)

\* The writer keeps neither a transaction nor a connection beyond a block,
\* whichever way the block ended, for every dialect and batch size.
THEOREM NothingLeftOpen == Spec => []Released
<1>1. Handles => Released
    BY DEF Handles, Released
<1> QED
    BY <1>1, HandlesAlways, PTL

-----------------------------------------------------------------------------
(* Inside a block nothing is committed.                                    *)

\* No call that is made inside a block commits anything before the block
\* ends, also after close() has returned; a writer closed in a block never
\* writes again.
THEOREM Isolation == Spec => NothingEscapes
<1>1. ASSUME Handles, [Next]_vars,
             \/ block = "inside" /\ block' = "inside" /\ ~closeRaised
             \/ closedInTx
      PROVE  table' = table
    <2> USE DEF Handles
    <2>1. ASSUME NEW call \in Calls, CallAlone(call) PROVE FALSE
        BY <1>1, <2>1 DEF CallAlone, EnsureInitialized
    <2>2. ASSUME NEW call \in Calls, CallInBlock(call) PROVE table' = table
        BY <2>2 DEF CallInBlock
    <2>3. ASSUME NEW call \in Calls, NEW n \in 0..MaxBatch,
                 CallFailsInBlock(call, n)
          PROVE  table' = table
        BY <2>3 DEF CallFailsInBlock
    <2>4. CASE Begin
        BY <2>4 DEF Begin
    <2>5. CASE ExitCommits
        BY <1>1, <2>5 DEF ExitCommits, Leave
    <2>6. CASE ExitCommitFails
        BY <1>1, <2>6 DEF ExitCommitFails, Leave
    <2>7. CASE ExitRollsBack
        BY <2>7 DEF ExitRollsBack
    <2>8. CASE ExitAfterClose
        BY <2>8 DEF ExitAfterClose
    <2>9. CASE Close
        BY <2>9 DEF Close
    <2>10. CASE CloseRaises
        BY <2>10 DEF CloseRaises
    <2>11. CASE UNCHANGED vars
        BY <2>11 DEF vars
    <2> QED
        BY <1>1, <2>1, <2>2, <2>3, <2>4, <2>5, <2>6, <2>7, <2>8, <2>9, <2>10,
           <2>11
        DEF Next
<1>2. Handles /\ [Next]_vars =>
          [\/ block = "inside" /\ block' = "inside" /\ ~closeRaised
           \/ closedInTx
           => table' = table]_vars
    BY <1>1
<1> QED
    BY <1>2, HandlesAlways, PTL DEF Spec, NothingEscapes

-----------------------------------------------------------------------------
(* A block is stored as a whole or not at all, where a failed call takes   *)
(* the whole transaction with it or leaves nothing of its own behind.      *)

\* Unless it has been aborted, the active transaction sees exactly what the
\* block's successful calls have done.
Faithful ==
    /\ Handles /\ TypeOK
    /\ tx /\ ~aborted => work = ideal
    /\ ~tx => work = table
    /\ block = "outside" => ideal = table

\* Every step keeps the transaction faithful to the block's successful calls.
LEMMA FaithfulStep ==
    ASSUME Aborting = TRUE \/ MaxBatch = 1
    PROVE  Faithful /\ [Next]_vars => Faithful'
<1> SUFFICES ASSUME Faithful, [Next]_vars PROVE Faithful'
    OBVIOUS
<1>0. Handles' /\ TypeOK'
    BY HandlesStep, TypeStep DEF Faithful
<1> USE DEF Faithful, Handles
<1>1. ASSUME NEW call \in Calls, CallAlone(call) PROVE Faithful'
    BY <1>0, <1>1 DEF CallAlone, EnsureInitialized
<1>2. ASSUME NEW call \in Calls, CallInBlock(call) PROVE Faithful'
    BY <1>0, <1>2 DEF CallInBlock
<1>3. ASSUME NEW call \in Calls, NEW n \in 0..MaxBatch,
             CallFailsInBlock(call, n)
      PROVE  Faithful'
    <2>1. CASE Aborting = TRUE
        BY <1>0, <1>3, <2>1 DEF CallFailsInBlock
    <2>2. CASE MaxBatch = 1
        <3>1. n = 0
            BY <1>3, <2>2, CallShape DEF CallFailsInBlock
        <3>2. After(work, call)[0] = work
            BY AfterDef, CallShape, BatchAssumption DEF TypeOK
        <3>3. work' = work
            BY <1>3, <3>1, <3>2 DEF CallFailsInBlock
        <3> QED
            BY <1>0, <1>3, <3>3 DEF CallFailsInBlock
    <2> QED
        BY <2>1, <2>2
<1>4. CASE Begin
    BY <1>0, <1>4 DEF Begin
<1>5. CASE ExitCommits
    BY <1>0, <1>5 DEF ExitCommits, EndTx, Leave
<1>6. CASE ExitCommitFails
    BY <1>0, <1>6 DEF ExitCommitFails, EndTx, Leave
<1>7. CASE ExitRollsBack
    BY <1>0, <1>7 DEF ExitRollsBack, EndTx, Leave
<1>8. CASE ExitAfterClose
    BY <1>0, <1>8 DEF ExitAfterClose, Leave
<1>9. CASE Close
    BY <1>0, <1>9 DEF Close, EndTx
<1>10. CASE CloseRaises
    BY <1>0, <1>10 DEF CloseRaises, EndTx
<1>11. CASE UNCHANGED vars
    BY <1>0, <1>11 DEF vars
<1> QED
    BY <1>1, <1>2, <1>3, <1>4, <1>5, <1>6, <1>7, <1>8, <1>9, <1>10, <1>11
    DEF Next

\* The end of a block changes the table to what its successful calls have
\* made of it, or leaves it alone.
LEMMA EndOfBlock ==
    ASSUME Faithful, [Next]_vars, block = "inside", block' = "outside"
    PROVE  table' \in {table, ideal}
<1> USE DEF Faithful, Handles
<1>1. ASSUME NEW call \in Calls, CallAlone(call) PROVE FALSE
    BY <1>1 DEF CallAlone
<1>2. ASSUME NEW call \in Calls, CallInBlock(call) PROVE FALSE
    BY <1>2 DEF CallInBlock
<1>3. ASSUME NEW call \in Calls, NEW n \in 0..MaxBatch,
             CallFailsInBlock(call, n)
      PROVE  FALSE
    BY <1>3 DEF CallFailsInBlock
<1>4. CASE Begin
    BY <1>4 DEF Begin
<1>5. CASE ExitCommits
    BY <1>5 DEF ExitCommits, CommitResult
<1>6. CASE ExitCommitFails
    BY <1>6 DEF ExitCommitFails, CommitResult
<1>7. CASE ExitRollsBack
    BY <1>7 DEF ExitRollsBack
<1>8. CASE ExitAfterClose
    BY <1>8 DEF ExitAfterClose
<1>9. CASE Close
    BY <1>9 DEF Close
<1>10. CASE CloseRaises
    BY <1>10 DEF CloseRaises
<1>11. CASE UNCHANGED vars
    BY <1>11 DEF vars
<1> QED
    BY <1>1, <1>2, <1>3, <1>4, <1>5, <1>6, <1>7, <1>8, <1>9, <1>10, <1>11
    DEF Next

\* A block stores exactly its successful calls or nothing, whatever failures
\* the handler swallows, if every failed statement aborts its transaction (as
\* PostgreSQL has it), or if, on whatever database, every call made inside a
\* block is a single statement. The second part is how a handler avoids what
\* the batches of a block may leave behind.
THEOREM Atomicity ==
    ASSUME Aborting = TRUE \/ MaxBatch = 1
    PROVE  Spec => AllOrNothing
<1>1. Init => Faithful
    BY TypeInit DEF Init, Faithful, Handles
<1>2. Faithful /\ [Next]_vars => Faithful'
    BY FaithfulStep
<1>3. Faithful /\ [Next]_vars =>
          [block = "inside" /\ block' = "outside" => table' \in {table, ideal}]_vars
    BY EndOfBlock
<1> QED
    BY <1>1, <1>2, <1>3, PTL DEF Spec, AllOrNothing
=============================================================================
