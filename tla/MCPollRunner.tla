---------------------------- MODULE MCPollRunner ----------------------------
(* Instances of PollRunner for TLC, and the checks of CursorOrder. *)
EXTENDS PollRunner, CursorOrder, TLC

Symmetry == Permutations(Instances)

\* Only behaviours in which a tick has its lease until its handler runs: a
\* lease may end while the handler is at work on a page that was fetched
\* under it, and nowhere else.
LeaseLastsUntilHandler ==
    \A i \in Instances :
        pc[i] \notin {"idle", "handle"} => store.owner = i /\ store.phase = "live"

-----------------------------------------------------------------------------
(* Bounds: up to three columns, with two values and NULL. *)

Cells == {Null, <<0>>, <<1>>}
SmallRows(width) == [1 .. width -> Cells]
SmallFullRows(width) == [1 .. width -> Cells \ {Null}]

\* The first column that differs decides.
ComesAfter(r, c) ==
    LET differ == {i \in DOMAIN c : r[i] # c[i]}
    IN  \E i \in differ : (\A j \in differ : i <= j) /\ r[i][1] > c[i][1]

\* The OR/AND expansion of the source is the order by columns.
ASSUME ExpansionIsOrder ==
    \A width \in 1 .. 3 : \A r, c \in SmallFullRows(width) :
        Beyond(r, c) <=> ComesAfter(r, c)

\* A row is beyond a cursor by columns that are not NULL, or not at all: with
\* NULL in the cursor column it is in no page once there is a cursor.
ASSUME NullIsNeverBeyond ==
    \A r \in SmallRows(2), c \in SmallFullRows(2) :
        /\ r[1] = Null => ~Beyond(r, c)
        /\ Beyond(r, c) /\ r[2] = Null => r[1][1] > c[1][1]

\* After a page, the next query returns exactly the rows that are left.
ASSUME PagesPartition ==
    \A rs \in SUBSET SmallFullRows(2), size \in 1 .. 2 :
        \A page \in SUBSET rs : \A end \in page :
            IsPageOf(page, rs, size) /\ IsLastOf(end, page) =>
                MatchingBeyond(rs, SmallFullRows(2), end) = rs \ page

\* What is written into a checkpoint can be read back.
ASSUME SerializedParses ==
    \A kind \in ValueKinds : Serializable(kind) => ParsesBack(SerializedKind(kind))
=============================================================================
