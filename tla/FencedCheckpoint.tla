-------------------------- MODULE FencedCheckpoint --------------------------
(***************************************************************************)
(* What one poller's state blob promises its clients, seen as a single     *)
(* atomic object: a checkpoint that is written under a lease.              *)
(*                                                                         *)
(* The lease has a holder (an acquisition's unique owner id), a fencing    *)
(* token that numbers the acquisitions, and a flag saying that it has      *)
(* lapsed, that is, that its expiry has passed on the holder's own clock.  *)
(* CheckpointStore, the protocol of state/blob.py over Azure Blob Storage, *)
(* implements this specification.                                          *)
(***************************************************************************)
EXTENDS Naturals

CONSTANTS
    Owners,         \* owner ids, one per acquisition (uuid4 in the code)
    NoOwner,        \* the holder when the blob does not exist: no owner id
    Checkpoints,    \* the values a checkpoint can have
    Empty           \* the checkpoint of a new blob, one of Checkpoints

VARIABLES
    holder,         \* the owner id of the lease
    token,          \* its fencing token
    lapsed,         \* its expiry has passed on the holder's clock
    checkpoint,     \* the stored checkpoint
    author          \* the owner id for which the blob was last written

vars == <<holder, token, lapsed, checkpoint, author>>

Init ==
    /\ holder = NoOwner
    /\ token = 0
    /\ lapsed = TRUE
    /\ checkpoint = Empty
    /\ author = NoOwner

\* A client becomes the holder: of a blob that did not exist, or of a lease
\* that its holder itself already considers lapsed. The token grows by one
\* and the checkpoint is inherited.
Take(o) ==
    /\ holder # o
    /\ lapsed
    /\ holder' = o
    /\ token' = token + 1
    /\ lapsed' \in BOOLEAN
    /\ author' = o
    /\ UNCHANGED checkpoint

\* The holder moves its own expiry (renewal and release).
Extend ==
    /\ holder # NoOwner
    /\ lapsed' \in BOOLEAN
    /\ author' = holder
    /\ UNCHANGED <<holder, token, checkpoint>>

\* The holder replaces the checkpoint. This may happen after the lease has
\* lapsed, as long as nobody else has taken it.
Commit(c) ==
    /\ holder # NoOwner
    /\ checkpoint' = c
    /\ author' = holder
    /\ UNCHANGED <<holder, token, lapsed>>

\* Time passes the expiry.
Lapse ==
    /\ lapsed' = TRUE
    /\ UNCHANGED <<holder, token, checkpoint, author>>

\* An operator deletes the blob: lease and checkpoint start afresh.
Reset ==
    /\ holder' = NoOwner
    /\ token' = 0
    /\ lapsed' = TRUE
    /\ checkpoint' = Empty
    /\ author' = NoOwner

Next ==
    \/ \E o \in Owners : Take(o)
    \/ Extend
    \/ \E c \in Checkpoints : Commit(c)
    \/ Lapse
    \/ Reset

Spec == Init /\ [][Next]_vars
=============================================================================
