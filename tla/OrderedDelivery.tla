--------------------------- MODULE OrderedDelivery ---------------------------
(***************************************************************************)
(* What a poller promises the owner of a table, without a word of leases,  *)
(* instances, ticks or crashes: rows reach the handler in the order of     *)
(* their keys, none is skipped, and the checkpoint follows behind.         *)
(*                                                                         *)
(* PollRunner, the loop of trigger/runner.py run by several instances over *)
(* the state blob, implements this specification as long as no row gets a  *)
(* key below one that a row has had.                                       *)
(***************************************************************************)
CONSTANTS
    Keys,           \* the cursor keys rows can have
    NoCursor,       \* the checkpoint before the first row
    Less(_, _)      \* the order of the keys

VARIABLES
    rows,           \* the rows of the table, each by its key
    newest,         \* the largest key a row has had
    handled,        \* keys that a handler call returned normally for
    checkpoint      \* where delivery starts again after a crash

vars == <<rows, newest, handled, checkpoint>>

Upto(k, c) == ~Less(c, k)

Init ==
    /\ rows = {}
    /\ newest = NoCursor
    /\ handled = {}
    /\ checkpoint = NoCursor

\* A row is inserted, or updated (and loses its old key), with a key beyond
\* all that came before.
Arrive(k) ==
    /\ Less(newest, k)
    /\ newest' = k
    /\ k \in rows' /\ rows' \subseteq rows \cup {k}
    /\ UNCHANGED <<handled, checkpoint>>

\* A handler call returns normally. It may have been given rows that were
\* handled before, but it leaves no gap: up to each of its rows that was not,
\* the table has nothing now that is still to be handled.
Deliver ==
    /\ handled \subseteq handled'
    /\ \A k \in handled' \ handled :
          /\ k \in Keys /\ Upto(k, newest)
          /\ \A r \in rows : Upto(r, k) => r \in handled'
    /\ UNCHANGED <<rows, newest, checkpoint>>

\* The checkpoint moves forward, to a key that has been handled, and before
\* which nothing is left.
Advance(c) ==
    /\ c \in handled
    /\ Less(checkpoint, c)
    /\ \A r \in rows : Upto(r, c) => r \in handled
    /\ checkpoint' = c
    /\ UNCHANGED <<rows, newest, handled>>

Next ==
    \/ \E k \in Keys : Arrive(k)
    \/ Deliver
    \/ \E c \in Keys : Advance(c)

Spec == Init /\ [][Next]_vars
=============================================================================
