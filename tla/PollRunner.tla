------------------------------ MODULE PollRunner ------------------------------
(***************************************************************************)
(* One poller, run by several instances: PollTrigger.run (trigger/poll.py) *)
(* and PollRunner.tick (trigger/runner.py) over a table that grows and     *)
(* changes, and over the state blob.                                       *)
(*                                                                         *)
(* A tick acquires the lease, loads the checkpoint, and then up to         *)
(* MaxBatches times fetches a page of rows beyond its cursor, hands it to  *)
(* the handler and commits the last row's cursor. It always ends with an   *)
(* attempt to release the lease. The tick of one instance is interleaved   *)
(* with those of the others, with time, with new and updated rows, and     *)
(* with crashes.                                                           *)
(*                                                                         *)
(* The blob is the atomic object that CheckpointStore implements. A write  *)
(* whose caller was told of an error may be lost, may have been applied,   *)
(* or may be applied later as long as no other write comes first.          *)
(***************************************************************************)
EXTENDS Integers, FiniteSets

CONSTANTS
    Instances,      \* processes that run the poller
    Nobody,         \* the owner of a lease that no running tick holds
    MaxTs,          \* bound: cursor column values
    MaxPk,          \* bound: primary keys
    BatchSize,      \* batch_size
    MaxBatches,     \* max_batches_per_tick
    Overruns,       \* may a tick outlive its lease?
    TiesArrive      \* may a row get the newest cursor value and a lower key?

ASSUME NobodyAssumption == Nobody \notin Instances
ASSUME SizesAssumption ==
    /\ MaxTs \in Nat /\ MaxPk \in Nat
    /\ BatchSize \in Nat \ {0} /\ MaxBatches \in Nat \ {0}
ASSUME SwitchesAssumption == Overruns \in BOOLEAN /\ TiesArrive \in BOOLEAN

VARIABLES
    rows,           \* the rows of the table, each by its cursor key
    newest,         \* the largest key a row has had
    handled,        \* keys that a handler call returned normally for
    store,          \* the blob: owner and phase of the lease, checkpoint
    late,           \* contents that delayed writes may still give the blob
    pc,             \* per instance: where its tick is
    cursor,         \* per instance: the cursor of the tick
    batch,          \* per instance: the page it works on
    last,           \* per instance: the key of the page's last row
    batches         \* per instance: pages finished in this tick

source == <<rows, newest>>
blob == <<store, late>>
tick == <<cursor, batch, last, batches>>
vars == <<source, handled, blob, pc, tick>>

-----------------------------------------------------------------------------
(* Rows are ordered by cursor column and primary key. *)

Keys == [ts : 1..MaxTs, pk : 1..MaxPk]
NoCursor == [ts |-> 0, pk |-> 0]        \* no checkpoint yet
Cursors == Keys \cup {NoCursor}

\* (cursor, pk) > (c, p), written out as OR of ANDs by the source
Less(a, b) == a.ts < b.ts \/ (a.ts = b.ts /\ a.pk < b.pk)
Upto(k, c) == ~Less(c, k)

Ahead(c) == {r \in rows : Less(c, r)}

\* Mutant: the query has a LIMIT, but no ORDER BY.
IsAnyPage(b, c) ==
    /\ Cardinality(b) <= BatchSize
    /\ Cardinality(b) < BatchSize => b = Ahead(c)

\* The result of the source's query: ORDER BY cursor, pk LIMIT BatchSize.
IsPage(b, c) ==
    /\ Cardinality(b) <= BatchSize
    /\ \A r \in b : \A q \in Ahead(c) : Less(q, r) => q \in b
    /\ Cardinality(b) < BatchSize => b = Ahead(c)

\* events[-1]: the row whose cursor becomes the checkpoint
IsLast(l, b) == l \in b /\ \A k \in b : Upto(k, l)

-----------------------------------------------------------------------------
(* The blob. Its lease is live, expired on its holder's clock, or free to  *)
(* be taken, when the grace period is over as well.                        *)

Phases == {"live", "expired", "free"}
Stores == [owner : Instances \cup {Nobody}, phase : Phases, checkpoint : Cursors]

\* What a write that is still on its way will make of the blob.
Contents == [owner : Instances \cup {Nobody}, checkpoint : Cursors]
Content(s) == [owner |-> s.owner, checkpoint |-> s.checkpoint]

\* When the tick of i has ended, nobody uses its owner id any more.
Disown(s, i) == IF s.owner = i THEN [s EXCEPT !.owner = Nobody] ELSE s

\* The blob's content becomes s; writes that were delayed have lost.
Put(s) == store' = s /\ late' = {}

\* A write of s whose caller is told of an error.
PutUnsure(s) ==
    \/ UNCHANGED blob
    \/ Put(s)
    \/ late' = late \cup {Content(s)} /\ UNCHANGED store

\* The tick of i is over. S and L are what the blob and the delayed writes
\* are then, up to the owner id that is given up.
EndTick(i, s, l) ==
    /\ store' = Disown(s, i)
    /\ late' = {Disown(d, i) : d \in l}
    /\ pc' = [pc EXCEPT ![i] = "idle"]
    /\ cursor' = [cursor EXCEPT ![i] = NoCursor]
    /\ batch' = [batch EXCEPT ![i] = {}]
    /\ last' = [last EXCEPT ![i] = NoCursor]
    /\ batches' = [batches EXCEPT ![i] = 0]
    /\ UNCHANGED <<source, handled>>

GoTo(i, place) == pc' = [pc EXCEPT ![i] = place]

-----------------------------------------------------------------------------
Init ==
    /\ rows = {}
    /\ newest = NoCursor
    /\ handled = {}
    /\ store = [owner |-> Nobody, phase |-> "free", checkpoint |-> NoCursor]
    /\ late = {}
    /\ pc = [i \in Instances |-> "idle"]
    /\ cursor = [i \in Instances |-> NoCursor]
    /\ batch = [i \in Instances |-> {}]
    /\ last = [i \in Instances |-> NoCursor]
    /\ batches = [i \in Instances |-> 0]

-----------------------------------------------------------------------------
(* The table. *)

\* A key that a row may get now: the cursor column does not decrease, and
\* unless TiesArrive neither does the whole key.
MayArrive(k) ==
    \/ Less(newest, k)
    \/ TiesArrive /\ k.ts = newest.ts /\ k \notin rows

Newest(k) == IF Less(newest, k) THEN k ELSE newest

Insert(k) ==
    /\ MayArrive(k)
    /\ \A r \in rows : r.pk # k.pk
    /\ rows' = rows \cup {k}
    /\ newest' = Newest(k)
    /\ UNCHANGED <<handled, blob, pc, tick>>

\* The row r is updated, and its cursor column with it.
Update(r, k) ==
    /\ MayArrive(k)
    /\ k.pk = r.pk
    /\ rows' = (rows \ {r}) \cup {k}
    /\ newest' = Newest(k)
    /\ UNCHANGED <<handled, blob, pc, tick>>

-----------------------------------------------------------------------------
(* The lease. *)

\* When the write is applied late, the new lease may be over already.
Taken(owner, phase) ==
    [owner |-> owner, phase |-> phase, checkpoint |-> store.checkpoint]

\* Mutant: the lease is taken whatever its expiry.
AcquireAnyway(i) ==
    /\ pc[i] = "idle"
    /\ Put(Taken(i, "live"))
    /\ GoTo(i, "load")
    /\ UNCHANGED <<source, handled, tick>>

AcquireOk(i) ==
    /\ pc[i] = "idle"
    /\ store.phase = "free"
    /\ \E phase \in Phases :
          /\ phase # "live" => Overruns
          /\ Put(Taken(i, phase))
    /\ GoTo(i, "load")
    /\ UNCHANGED <<source, handled, tick>>

\* LeaseAcquireError, which PollTrigger.run turns into 0. The lease may have
\* been taken nevertheless, for an owner id that nobody knows. (In a
\* LeaseConflictError the tick returns 0 and nothing changes.)
AcquireFails(i) ==
    /\ pc[i] = "idle"
    /\ store.phase = "free"
    /\ \E phase \in Phases : PutUnsure(Taken(Nobody, phase))
    /\ UNCHANGED <<source, handled, pc, tick>>

\* Time passes. A running tick loses its lease only if ticks may overrun.
Elapse ==
    /\ store.phase # "free"
    /\ Overruns \/ store.owner = Nobody
    /\ \E phase \in Phases \ {"live", store.phase} :
          store' = [store EXCEPT !.phase = phase]
    /\ UNCHANGED <<source, handled, late, pc, tick>>

\* A delayed write is applied. A commit keeps the lease as it is; what an
\* acquisition or a release writes may be over when it is applied.
Land(c) ==
    /\ \E phase \in Phases :
          /\ c.owner # Nobody => phase = store.phase
          /\ Put([owner |-> c.owner, phase |-> phase, checkpoint |-> c.checkpoint])
    /\ UNCHANGED <<source, handled, pc, tick>>

-----------------------------------------------------------------------------
(* The tick. *)

\* An exception that leaves the loop: the finally clause comes next.
Fail(i, place) ==
    /\ pc[i] = place
    /\ GoTo(i, "release")
    /\ UNCHANGED <<source, handled, blob, tick>>

\* Mutant: the whole stored state is taken for the cursor.
LoadState(i) ==
    /\ pc[i] = "load"
    /\ cursor' = [cursor EXCEPT ![i] = store]
    /\ GoTo(i, "fetch")
    /\ UNCHANGED <<source, handled, blob, batch, last, batches>>

\* Mutant: the checkpoint found is not used.
LoadNothing(i) ==
    /\ pc[i] = "load"
    /\ cursor' = [cursor EXCEPT ![i] = NoCursor]
    /\ GoTo(i, "fetch")
    /\ UNCHANGED <<source, handled, blob, batch, last, batches>>

\* load_checkpoint does not verify the lease.
Load(i) ==
    /\ pc[i] = "load"
    /\ cursor' = [cursor EXCEPT ![i] = store.checkpoint]
    /\ GoTo(i, "fetch")
    /\ UNCHANGED <<source, handled, blob, batch, last, batches>>

FetchBatch(i) ==
    /\ pc[i] = "fetch"
    /\ batches[i] < MaxBatches
    /\ \E b \in SUBSET Ahead(cursor[i]) : \E l \in b :
          /\ IsPage(b, cursor[i])
          /\ IsLast(l, b)
          /\ batch' = [batch EXCEPT ![i] = b]
          /\ last' = [last EXCEPT ![i] = l]
    /\ GoTo(i, "handle")
    /\ UNCHANGED <<source, handled, blob, cursor, batches>>

\* No more rows, or max_batches_per_tick reached.
LoopEnds(i) ==
    /\ pc[i] = "fetch"
    /\ batches[i] = MaxBatches \/ Ahead(cursor[i]) = {}
    /\ GoTo(i, "release")
    /\ UNCHANGED <<source, handled, blob, tick>>

HandlerOk(i) ==
    /\ pc[i] = "handle"
    /\ handled' = handled \cup batch[i]
    /\ GoTo(i, "commit")
    /\ UNCHANGED <<source, blob, tick>>

\* Mutant: the handler's exception is logged and the page committed.
HandlerFailsQuietly(i) ==
    /\ pc[i] = "handle"
    /\ GoTo(i, "commit")
    /\ UNCHANGED <<source, handled, blob, tick>>

\* HandlerError: the handler raised, for the whole page.
HandlerFails(i) == Fail(i, "handle")

\* commit_checkpoint reads the blob and verifies the lease ...
CommitVerify(i) ==
    /\ pc[i] = "commit"
    /\ store.owner = i /\ store.phase = "live"
    /\ GoTo(i, "write")
    /\ UNCHANGED <<source, handled, blob, tick>>

CommitLost(i) ==
    /\ store.owner # i \/ store.phase # "live"
    /\ Fail(i, "commit")

\* ... and writes it, if it is unchanged. As long as the tick of i runs, no
\* write but a take-over comes between.
Committed(i) == [store EXCEPT !.checkpoint = last[i]]

\* Mutant: the cursor of the tick does not advance after a commit.
CommitKeepsCursor(i) ==
    /\ pc[i] = "write"
    /\ store.owner = i
    /\ Put(Committed(i))
    /\ batches' = [batches EXCEPT ![i] = @ + 1]
    /\ GoTo(i, "fetch")
    /\ UNCHANGED <<source, handled, cursor, batch, last>>

CommitOk(i) ==
    /\ pc[i] = "write"
    /\ store.owner = i
    /\ Put(Committed(i))
    /\ cursor' = [cursor EXCEPT ![i] = last[i]]
    /\ batches' = [batches EXCEPT ![i] = @ + 1]
    /\ GoTo(i, "fetch")
    /\ UNCHANGED <<source, handled, batch, last>>

\* CommitError, or LostLeaseError from a repeated request: the caller cannot
\* know whether the checkpoint was stored.
CommitUnsure(i) ==
    /\ pc[i] = "write"
    /\ store.owner = i
    /\ PutUnsure(Committed(i))
    /\ GoTo(i, "release")
    /\ UNCHANGED <<source, handled, tick>>

\* Mutant: the checkpoint is overwritten although the lease was taken over.
CommitOverwrites(i) ==
    /\ pc[i] = "write"
    /\ store.owner # i
    /\ Put(Committed(i))
    /\ GoTo(i, "release")
    /\ UNCHANGED <<source, handled, tick>>

\* LostLeaseError: 412, the lease was taken over.
CommitConflict(i) == store.owner # i /\ Fail(i, "write")

\* release_lease sets the expiry to now, and keeps the checkpoint.
Released == [store EXCEPT !.phase = "expired"]

ReleaseOk(i) ==
    /\ pc[i] = "release"
    /\ store.owner = i
    /\ EndTick(i, Released, {})

\* The release fails, which is only logged.
ReleaseFails(i) ==
    /\ pc[i] = "release"
    /\ \/ EndTick(i, store, late)
       \/ store.owner = i /\ EndTick(i, store, late \cup {Content(Released)})

\* The process dies: no finally clause.
Crash(i) ==
    /\ pc[i] # "idle"
    /\ \/ EndTick(i, store, late)
       \/ /\ pc[i] = "write" /\ store.owner = i
          /\ EndTick(i, store, late \cup {Content(Committed(i))})

-----------------------------------------------------------------------------
Arrive == \E k \in Keys : Insert(k) \/ \E r \in rows : Update(r, k)

Run(i) ==
    \/ AcquireOk(i) \/ AcquireFails(i)
    \/ Load(i) \/ Fail(i, "load")
    \/ FetchBatch(i) \/ LoopEnds(i) \/ Fail(i, "fetch")
    \/ HandlerOk(i) \/ HandlerFails(i)
    \/ CommitVerify(i) \/ CommitLost(i) \/ Fail(i, "commit")
    \/ CommitOk(i) \/ CommitUnsure(i) \/ CommitConflict(i)
    \/ ReleaseOk(i) \/ ReleaseFails(i)
    \/ Crash(i)

Next ==
    \/ Arrive
    \/ Elapse
    \/ \E c \in late : Land(c)
    \/ \E i \in Instances : Run(i)

Spec == Init /\ [][Next]_vars

\* The timer keeps firing on every instance, time passes, and no failure is
\* permanent: what can succeed again and again does so at last.
Fairness ==
    /\ WF_vars(Elapse)
    /\ \A i \in Instances :
          /\ SF_vars(AcquireOk(i)) /\ SF_vars(Load(i))
          /\ SF_vars(FetchBatch(i)) /\ SF_vars(HandlerOk(i))
          /\ SF_vars(CommitVerify(i)) /\ SF_vars(CommitOk(i))
          /\ WF_vars(LoopEnds(i)) /\ WF_vars(ReleaseOk(i) \/ ReleaseFails(i))

FairSpec == Spec /\ Fairness

-----------------------------------------------------------------------------
(* Properties. *)

\* The type invariant of the poller's state.
TypeOK ==
    /\ rows \subseteq Keys
    /\ newest \in Cursors
    /\ handled \subseteq Keys
    /\ store \in Stores
    /\ late \subseteq Contents
    /\ pc \in [Instances -> {"idle", "load", "fetch", "handle",
                             "commit", "write", "release"}]
    /\ cursor \in [Instances -> Cursors]
    /\ batch \in [Instances -> SUBSET Keys]
    /\ last \in [Instances -> Cursors]
    /\ batches \in [Instances -> Nat]

\* At least once: a row at or below the stored checkpoint has been handed to
\* a handler that returned normally, whatever crashed, timed out, was lost
\* or arrived late between the two.
NoLoss == \A r \in rows : Upto(r, store.checkpoint) => r \in handled

\* The checkpoint never goes back: neither a tick that has lost its lease
\* nor a delayed write undoes the progress of another.
CheckpointMonotone == [][Upto(store.checkpoint, store'.checkpoint)]_store

\* A tick that still owns the lease hands no row to its handler that is at
\* or below the stored checkpoint.
NoRedelivery ==
    \A i \in Instances :
        store.owner = i /\ pc[i] = "handle" =>
            \A r \in batch[i] : Less(store.checkpoint, r)

\* At most one instance is between lease acquisition and release.
OneTickAtATime ==
    \A i, j \in Instances : pc[i] # "idle" /\ pc[j] # "idle" => i = j

\* No two handlers are at work at once, each on a page of its own tick.
OneHandlerAtATime ==
    \A i, j \in Instances : pc[i] = "handle" /\ pc[j] = "handle" => i = j

Delivery == INSTANCE OrderedDelivery WITH checkpoint <- store.checkpoint

\* Whatever the instances do to each other, the table's owner sees the rows
\* handled in the order of their keys, without a gap, and a checkpoint that
\* moves from one handled row to a later one.
DeliversInOrder == Delivery!Spec

\* Every row is at last handled and committed, unless it is updated first.
Delivered ==
    \A k \in Keys :
        k \in rows ~> (k \in rows => k \in handled /\ Upto(k, store.checkpoint))
=============================================================================
