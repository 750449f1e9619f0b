--------------------------- MODULE CheckpointStore ---------------------------
(***************************************************************************)
(* BlobCheckpointStore (state/blob.py): the lease and the checkpoint of    *)
(* one poller, kept in one blob and changed by compare-and-swap.           *)
(*                                                                         *)
(* A call of an operation is not atomic. It reads the blob, decides on the *)
(* copy it read and on its local clock, sends a conditional write and      *)
(* waits for the answer. Between these steps time passes and the other     *)
(* instances make theirs. A write may be applied although its caller has   *)
(* been told of an error, or long after its caller has given up, and the   *)
(* storage client may send it twice.                                       *)
(*                                                                         *)
(* Time is counted in half seconds, the precision of the grace period.     *)
(***************************************************************************)
EXTENDS Integers, FiniteSets

CONSTANTS
    Instances,      \* processes that share the blob
    Checkpoints,    \* the values that clients commit, and Empty
    Empty,          \* the checkpoint of a new blob
    Fingerprint,    \* per instance: the fingerprint of its source
    Ttl,            \* per instance: lease_ttl_seconds
    Skew,           \* per instance: how far its clock is ahead
    NoDoc,          \* the content of a blob that does not exist
    NoLease,        \* a client that holds no lease id
    NoWrite,        \* a client that awaits no answer
    MaxNow,         \* bound: the last instant
    MaxOwners,      \* bound: owner ids one instance draws
    MaxWrites,      \* bound: writes the service accepts
    MaxDeletes      \* bound: deletions by an operator

ASSUME EmptyAssumption == Empty \in Checkpoints
ASSUME TtlAssumption == Ttl \in [Instances -> Nat \ {0}]
ASSUME SkewAssumption == Skew \in [Instances -> Int]
ASSUME BoundsAssumption ==
    /\ MaxNow \in Nat /\ MaxOwners \in Nat
    /\ MaxWrites \in Nat /\ MaxDeletes \in Nat

VARIABLES
    now,            \* true time
    blob,           \* the blob: its etag and its document
    author,         \* the owner id for which the blob was last written
    writes,         \* writes accepted so far; numbers the etags
    deletes,        \* deletions so far
    wire,           \* writes on their way to the service
    issued,         \* per instance: owner ids drawn
    pc,             \* per instance: where its current call is
    call,           \* per instance: its current call and the argument
    seen,           \* per instance: the blob as the call read it
    sent,           \* per instance: the write whose answer it awaits
    held,           \* per instance: the lease id it holds
    acked           \* per instance: its last call was the successful commit of this

service == <<blob, author, writes, deletes, wire>>
client == <<pc, call, seen, sent, held, acked>>
vars == <<now, service, issued, client>>

-----------------------------------------------------------------------------
(* Data. *)

\* An owner id is fresh in every acquisition. The instance is part of the
\* model's id only so that properties can name it.
Owners == [inst : Instances, n : 1..MaxOwners]

Leases == [owner : Owners, token : Nat, expires : Int]

Docs == [fingerprint : {Fingerprint[i] : i \in Instances},
         checkpoint : Checkpoints,
         lease : Leases]

\* The etag of a missing blob is 0.
Missing == [etag |-> 0, doc |-> NoDoc]
Blobs == [etag : Nat \ {0}, doc : Docs] \cup {Missing}

\* A conditional write of the client that acts as the owner by: If-Match the
\* etag, or only if missing (etag 0).
Writes == [by : Owners, etag : Nat, doc : Docs]

Calls == [name : {"none", "acquire", "renew", "release", "commit"},
          checkpoint : Checkpoints]
NoCall == [name |-> "none", checkpoint |-> Empty]

ASSUME AbsenceAssumption ==
    /\ NoDoc \notin Docs /\ NoWrite \notin Writes
    /\ NoLease \notin Leases /\ NoLease \notin Owners

Clock(i) == now + Skew[i]

\* lease_ttl_seconds in half seconds
TtlUnits(i) == 2 * Ttl[i]

\* Mutant: a lease is free as soon as it has expired on the reader's clock.
EffectiveGraceNone(i) == 0

\* min(ttl_seconds * 0.5, 5.0) in half seconds
EffectiveGrace(i) == IF Ttl[i] < 10 THEN Ttl[i] ELSE 10

IsLeaseExpired(lease, i) == Clock(i) > lease.expires + EffectiveGrace(i)

\* release_lease verifies this much of the lease it read
IsOwner(lease, id) == lease.owner = id.owner /\ lease.token = id.token

VerifyLease(lease, i) ==
    /\ IsOwner(lease, held[i])
    /\ ~(Clock(i) > lease.expires)

-----------------------------------------------------------------------------
Init ==
    /\ now = 0
    /\ blob = Missing
    /\ author = NoLease
    /\ writes = 0
    /\ deletes = 0
    /\ wire = {}
    /\ issued = [i \in Instances |-> 0]
    /\ pc = [i \in Instances |-> "idle"]
    /\ call = [i \in Instances |-> NoCall]
    /\ seen = [i \in Instances |-> Missing]
    /\ sent = [i \in Instances |-> NoWrite]
    /\ held = [i \in Instances |-> NoLease]
    /\ acked = [i \in Instances |-> Empty]

Tick ==
    /\ now < MaxNow
    /\ now' = now + 1
    /\ UNCHANGED <<service, issued, client>>

-----------------------------------------------------------------------------
(* The steps of a call. *)

\* The call of i ends: it returns or raises. The client is left with the
\* lease newHeld, and with the acknowledged checkpoint c (or Empty).
End(i, newHeld, c) ==
    /\ pc' = [pc EXCEPT ![i] = "idle"]
    /\ call' = [call EXCEPT ![i] = NoCall]
    /\ seen' = [seen EXCEPT ![i] = Missing]
    /\ sent' = [sent EXCEPT ![i] = NoWrite]
    /\ held' = [held EXCEPT ![i] = newHeld]
    /\ acked' = [acked EXCEPT ![i] = c]

\* The call of i raises an exception. After a failed release the client
\* forgets its lease id: PollRunner.tick makes no call after the release.
Raise(i) ==
    /\ End(i, IF call[i].name = "release" THEN NoLease ELSE held[i], Empty)
    /\ UNCHANGED <<now, service, issued>>

Deciding(i, name) == pc[i] = "decide" /\ call[i].name = name

\* A call of i starts with _read_state: the document and its etag, or None.
ReadState(i, name, c) ==
    /\ pc[i] = "idle"
    /\ pc' = [pc EXCEPT ![i] = "decide"]
    /\ call' = [call EXCEPT ![i] = [name |-> name, checkpoint |-> c]]
    /\ seen' = [seen EXCEPT ![i] = blob]
    /\ acked' = [acked EXCEPT ![i] = Empty]
    /\ UNCHANGED <<now, service, issued, sent, held>>

\* _read_state raises StateStoreError, or FingerprintMismatchError.
ReadFails(i) == pc[i] = "decide" /\ Raise(i)

\* Mutant: the fingerprint of the stored document is not compared.
ReadableUnchecked(i) == seen[i].doc # NoDoc

Readable(i) ==
    seen[i].doc # NoDoc /\ seen[i].doc.fingerprint = Fingerprint[i]

\* _write_state_conditional (If-Match the etag read) and, where the blob was
\* missing, _write_state_create (only if it is still missing)
Write(i, id, doc) == [by |-> id, etag |-> seen[i].etag, doc |-> doc]

Send(i, id, doc) ==
    /\ wire' = wire \cup {Write(i, id, doc)}
    /\ sent' = [sent EXCEPT ![i] = Write(i, id, doc)]
    /\ pc' = [pc EXCEPT ![i] = "await"]
    /\ UNCHANGED <<now, blob, author, writes, deletes, call, seen, held, acked>>

\* The client gives up waiting: StateStoreError. The write may be still on
\* its way, applied, or lost.
Timeout(i) == pc[i] = "await" /\ Raise(i)

-----------------------------------------------------------------------------
(* acquire_lease *)

Acquire(i) == held[i] = NoLease /\ ReadState(i, "acquire", Empty)

NewOwner(i) == [inst |-> i, n |-> issued[i] + 1]

NewLease(i, token) ==
    [owner |-> NewOwner(i),
     token |-> token,
     expires |-> Clock(i) + TtlUnits(i)]

\* Mutant: the initial document has no checkpoint member.
InitialStateBare(i) ==
    [fingerprint |-> Fingerprint[i], lease |-> NewLease(i, 1)]

InitialState(i) ==
    [fingerprint |-> Fingerprint[i],
     checkpoint |-> Empty,
     lease |-> NewLease(i, 1)]

\* Mutant: the stolen lease keeps the token of the old one.
StolenStateSameToken(i) ==
    [seen[i].doc EXCEPT !.lease = NewLease(i, seen[i].doc.lease.token)]

\* The stolen state is the whole document read before, with a new lease.
StolenState(i) ==
    [seen[i].doc EXCEPT !.lease = NewLease(i, seen[i].doc.lease.token + 1)]

DrawOwner(i) ==
    /\ issued[i] < MaxOwners
    /\ issued' = [issued EXCEPT ![i] = @ + 1]

AcquireCreate(i) ==
    /\ Deciding(i, "acquire")
    /\ seen[i].doc = NoDoc
    /\ DrawOwner(i)
    /\ Send(i, NewOwner(i), InitialState(i))

AcquireSteal(i) ==
    /\ Deciding(i, "acquire")
    /\ Readable(i)
    /\ IsLeaseExpired(seen[i].doc.lease, i)
    /\ DrawOwner(i)
    /\ Send(i, NewOwner(i), StolenState(i))

\* LeaseConflictError
AcquireConflict(i) ==
    /\ Deciding(i, "acquire")
    /\ Readable(i)
    /\ ~IsLeaseExpired(seen[i].doc.lease, i)
    /\ Raise(i)

-----------------------------------------------------------------------------
(* renew_lease, commit_checkpoint and release_lease *)

Renew(i) == held[i] # NoLease /\ ReadState(i, "renew", Empty)
Commit(i, c) == held[i] # NoLease /\ ReadState(i, "commit", c)
Release(i) == held[i] # NoLease /\ ReadState(i, "release", Empty)

RenewWrite(i) ==
    /\ Deciding(i, "renew")
    /\ Readable(i)
    /\ VerifyLease(seen[i].doc.lease, i)
    /\ Send(i, held[i].owner,
            [seen[i].doc EXCEPT !.lease.expires = Clock(i) + TtlUnits(i)])
    /\ UNCHANGED issued

\* Mutant: commit_checkpoint does not verify the lease it read.
CommitWriteUnverified(i) ==
    /\ Deciding(i, "commit")
    /\ Readable(i)
    /\ Send(i, held[i].owner,
            [seen[i].doc EXCEPT !.checkpoint = call[i].checkpoint])
    /\ UNCHANGED issued

CommitWrite(i) ==
    /\ Deciding(i, "commit")
    /\ Readable(i)
    /\ VerifyLease(seen[i].doc.lease, i)
    /\ Send(i, held[i].owner,
            [seen[i].doc EXCEPT !.checkpoint = call[i].checkpoint])
    /\ UNCHANGED issued

\* The expiry is not verified here: a lapsed lease that nobody has stolen
\* can still be released.
ReleaseWrite(i) ==
    /\ Deciding(i, "release")
    /\ Readable(i)
    /\ IsOwner(seen[i].doc.lease, held[i])
    /\ Send(i, held[i].owner,
            [seen[i].doc EXCEPT !.lease.expires = Clock(i)])
    /\ UNCHANGED issued

\* LostLeaseError: the blob is missing, or the lease read is not the
\* caller's, or it has expired.
Lost(i) ==
    /\ pc[i] = "decide"
    /\ \/ call[i].name # "acquire" /\ seen[i].doc = NoDoc
       \/ /\ call[i].name \in {"renew", "commit"}
          /\ Readable(i)
          /\ ~VerifyLease(seen[i].doc.lease, i)
       \/ /\ call[i].name = "release"
          /\ Readable(i)
          /\ ~IsOwner(seen[i].doc.lease, held[i])
    /\ Raise(i)

-----------------------------------------------------------------------------
(* The service applies or refuses a write, and the client gets an answer.  *)

\* The answer to w ends the call that waits for it, or is lost; then the
\* storage client sends the same request again, or gives up (Timeout).
\* Writes that nobody waits for and that no etag can match any more are
\* dropped.
Answer(w, newHeld, c) ==
    \/ /\ sent[w.by.inst] = w
       /\ End(w.by.inst, newHeld, c)
       /\ wire' = {v \in wire \ {w} : sent[v.by.inst] = v \/ v.etag \in {0, blob'.etag}}
    \/ /\ \E again \in BOOLEAN :
             wire' = {v \in wire :
                        /\ v = w => again /\ sent[w.by.inst] = w
                        /\ sent[v.by.inst] = v \/ v.etag \in {0, blob'.etag}}
       /\ UNCHANGED client

\* What an acknowledged write leaves the client with.
HeldAfter(w) ==
    CASE call[w.by.inst].name \in {"acquire", "renew"} -> w.doc.lease
      [] call[w.by.inst].name = "release" -> NoLease
      [] OTHER -> held[w.by.inst]

\* What a refused write leaves it with: LeaseConflictError, LostLeaseError.
HeldAfterConflict(w) ==
    IF call[w.by.inst].name = "release" THEN NoLease ELSE held[w.by.inst]

\* Mutant: the document is written without the If-Match condition, so no
\* write on its way is ever dropped.
AcceptUnconditional(w) ==
    /\ writes < MaxWrites
    /\ writes' = writes + 1
    /\ blob' = [etag |-> writes + 1, doc |-> w.doc]
    /\ author' = w.by
    /\ wire' = wire \ {w}
    /\ \/ /\ sent[w.by.inst] = w
          /\ End(w.by.inst, HeldAfter(w), call[w.by.inst].checkpoint)
       \/ UNCHANGED client
    /\ UNCHANGED <<now, deletes, issued>>

Accept(w) ==
    /\ w.etag = blob.etag
    /\ writes < MaxWrites
    /\ writes' = writes + 1
    /\ blob' = [etag |-> writes + 1, doc |-> w.doc]
    /\ author' = w.by
    /\ Answer(w, HeldAfter(w), call[w.by.inst].checkpoint)
    /\ UNCHANGED <<now, deletes, issued>>

Reject(w) ==
    /\ w.etag # blob.etag
    /\ UNCHANGED <<blob, author>>
    /\ Answer(w, HeldAfterConflict(w), Empty)
    /\ UNCHANGED <<now, writes, deletes, issued>>

-----------------------------------------------------------------------------
(* The environment. *)

\* The process dies and is started again; its writes stay on their way.
Crash(i) ==
    /\ pc[i] # "idle" \/ held[i] # NoLease
    /\ End(i, NoLease, Empty)
    /\ UNCHANGED <<now, service, issued>>

DeleteBlob ==
    /\ blob # Missing
    /\ deletes < MaxDeletes
    /\ deletes' = deletes + 1
    /\ blob' = Missing
    /\ author' = NoLease
    /\ UNCHANGED <<now, writes, wire, issued, client>>

Step(i) ==
    \/ Acquire(i) \/ Renew(i) \/ Release(i)
    \/ \E c \in Checkpoints \ {Empty} : Commit(i, c)
    \/ ReadFails(i)
    \/ AcquireCreate(i) \/ AcquireSteal(i) \/ AcquireConflict(i)
    \/ RenewWrite(i) \/ CommitWrite(i) \/ ReleaseWrite(i) \/ Lost(i)
    \/ Timeout(i) \/ Crash(i)

Next ==
    \/ Tick
    \/ \E i \in Instances : Step(i)
    \/ \E w \in wire : Accept(w) \/ Reject(w)
    \/ DeleteBlob

Spec == Init /\ [][Next]_vars

-----------------------------------------------------------------------------
(* Properties. *)

\* The type invariant of the store's state.
TypeOK ==
    /\ now \in Nat
    /\ blob \in Blobs
    /\ writes \in Nat
    /\ deletes \in Nat
    /\ wire \subseteq Writes
    /\ issued \in [Instances -> 0..MaxOwners]
    /\ pc \in [Instances -> {"idle", "decide", "await"}]
    /\ call \in [Instances -> Calls]
    /\ seen \in [Instances -> Blobs]
    /\ sent \in [Instances -> Writes \cup {NoWrite}]
    /\ held \in [Instances -> Leases \cup {NoLease}]
    /\ acked \in [Instances -> Checkpoints]

\* The lease as the code uses it: i was told that it holds one, has not
\* begun to release it, and by its own clock it has not expired.
Entitled(i) ==
    /\ held[i] # NoLease
    /\ call[i].name # "release"
    /\ ~(Clock(i) > held[i].expires)

\* No two instances believe at the same time, each by its own clock, that
\* they hold an unexpired lease: the grace period of acquire_lease absorbs
\* clock skew up to its length, whatever the delays of reads and writes.
LeaseExclusive ==
    \A i, j \in Instances : Entitled(i) /\ Entitled(j) => i = j

\* Once commit_checkpoint has returned, the checkpoint it wrote is the
\* stored one for as long as the lease is not taken over and the caller
\* starts no other call: no delayed or repeated write, its own included,
\* replaces it.
AckedCommitSticks ==
    \A i \in Instances :
        (/\ acked[i] # Empty
         /\ blob.doc # NoDoc
         /\ IsOwner(blob.doc.lease, held[i]))
        => blob.doc.checkpoint = acked[i]

\* A blob is held only by instances of the source whose fingerprint it
\* stores, so a checkpoint is never handed over to another source, also
\* when an operator deletes the blob under running calls.
SourceNeverMixed ==
    blob.doc # NoDoc =>
        Fingerprint[blob.doc.lease.owner.inst] = blob.doc.fingerprint

\* Compare-and-swap makes the store the atomic object of FencedCheckpoint:
\* a lease is taken only after it has lapsed by its holder's own clock, a
\* take-over keeps the checkpoint and raises the token, and nobody but the
\* holder changes the checkpoint.
Fenced ==
    INSTANCE FencedCheckpoint WITH
        NoOwner <- NoLease,
        holder <- IF blob.doc = NoDoc THEN NoLease ELSE blob.doc.lease.owner,
        token <- IF blob.doc = NoDoc THEN 0 ELSE blob.doc.lease.token,
        lapsed <- IF blob.doc = NoDoc THEN TRUE
                  ELSE Clock(blob.doc.lease.owner.inst) > blob.doc.lease.expires,
        checkpoint <- IF blob.doc = NoDoc THEN Empty ELSE blob.doc.checkpoint

ImplementsFenced == Fenced!Spec
=============================================================================
