--------------------------- MODULE PollerOverStore ---------------------------
(***************************************************************************)
(* The tick of PollRunner over the calls of CheckpointStore: the runner    *)
(* makes one call at a time, and how it goes on depends on how the call    *)
(* ends. PollRunner's one atomic blob is a view of this state, in which a  *)
(* request takes effect when the service accepts it, and a request that    *)
(* nobody waits for any more is a delayed write.                           *)
(***************************************************************************)
EXTENDS CheckpointStore

CONSTANTS
    Nobody,         \* the owner of a lease that no running tick holds
    MaxTs,          \* bound: cursor column values
    MaxPk,          \* bound: primary keys
    BatchSize,      \* batch_size
    MaxBatches,     \* max_batches_per_tick
    TiesArrive      \* may a row get the newest cursor value and a lower key?

VARIABLES
    rows,           \* the rows of the table, each by its cursor key
    newest,         \* the largest key a row has had
    handled,        \* keys that a handler call returned normally for
    place,          \* per instance: where its tick is
    cursor,         \* per instance: the cursor of the tick
    batch,          \* per instance: the page it works on
    last,           \* per instance: the key of the page's last row
    batches,        \* per instance: pages finished in this tick
    accepted        \* instances that wait for the answer to an accepted request

store == vars
locals == <<cursor, batch, last, batches>>
table == <<rows, newest, handled>>
pollerVars == <<store, table, place, locals, accepted>>

-----------------------------------------------------------------------------
(* What PollRunner sees of the blob and of the ticks. *)

\* i is in a tick: it holds a lease id that it has not asked to release.
Waiting(i, name) == pc[i] = "await" /\ call[i].name = name
Running(i) == held[i] # NoLease /\ ~Waiting(i, "release")

\* The instance whose tick runs under an owner id, or Nobody.
Tenant(id) ==
    IF Running(id.inst) /\ held[id.inst].owner = id THEN id.inst ELSE Nobody

PhaseOf(lease) ==
    IF \E i \in Instances : IsLeaseExpired(lease, i) THEN "free"
    ELSE IF Clock(lease.owner.inst) > lease.expires THEN "expired"
    ELSE "live"

SeenBlob ==
    IF blob.doc = NoDoc
    THEN [owner |-> Nobody, phase |-> "free", checkpoint |-> Empty]
    ELSE [owner |-> Tenant(blob.doc.lease.owner),
          phase |-> PhaseOf(blob.doc.lease),
          checkpoint |-> blob.doc.checkpoint]

\* Requests that the service can still accept, although no tick waits for
\* the answer. A tick that has sent its release is over for PollRunner.
Awaited(w) == sent[w.by.inst] = w /\ call[w.by.inst].name # "release"
Stray == {w \in wire : w.etag = blob.etag /\ ~Awaited(w)}
Makes(w) == [owner |-> Tenant(w.by), checkpoint |-> w.doc.checkpoint]
SeenLate == {Makes(w) : w \in Stray}

PlaceOf(i) ==
    CASE Waiting(i, "commit") -> IF i \in accepted THEN "release" ELSE "write"
      [] Waiting(i, "release") -> "idle"
      [] OTHER -> place[i]

\* The tick's own variables, as long as there is a tick.
InTick(f, none) ==
    [i \in Instances |-> IF Waiting(i, "release") THEN none ELSE f[i]]

SeenPlace == [i \in Instances |-> PlaceOf(i)]
SeenCursor == InTick(cursor, Empty)
SeenBatch == InTick(batch, {})
SeenLast == InTick(last, Empty)
SeenBatches == InTick(batches, 0)

\* The steps of the tick between its calls ...
Steps == INSTANCE PollRunner WITH
    Overruns <- TRUE, store <- SeenBlob, late <- {}, pc <- place

\* ... and all of PollRunner, of what it sees.
Runner == INSTANCE PollRunner WITH
    Overruns <- TRUE, store <- SeenBlob, late <- SeenLate, pc <- SeenPlace,
    cursor <- SeenCursor, batch <- SeenBatch, last <- SeenLast,
    batches <- SeenBatches

ASSUME RunnerAssumption ==
    /\ Nobody \notin Instances /\ TiesArrive \in BOOLEAN
    /\ MaxTs \in Nat /\ MaxPk \in Nat
    /\ BatchSize \in Nat \ {0} /\ MaxBatches \in Nat \ {0}

ASSUME CheckpointsAssumption ==
    Checkpoints = Steps!Cursors /\ Empty = Steps!NoCursor

\* Nobody deletes the blob of a poller that is in use.
ASSUME DeletesAssumption == MaxDeletes = 0

-----------------------------------------------------------------------------
PollerInit ==
    /\ Init
    /\ rows = {}
    /\ newest = Empty
    /\ handled = {}
    /\ place = [i \in Instances |-> "idle"]
    /\ cursor = [i \in Instances |-> Empty]
    /\ batch = [i \in Instances |-> {}]
    /\ last = [i \in Instances |-> Empty]
    /\ batches = [i \in Instances |-> 0]
    /\ accepted = {}

\* The table changes, or an instance goes on between two calls.
\* load_checkpoint is one read, which compares the fingerprint.
Between ==
    /\ UNCHANGED <<store, accepted>>
    /\ \/ Steps!Arrive
       \/ \E i \in Instances :
             \/ /\ blob.doc # NoDoc => blob.doc.fingerprint = Fingerprint[i]
                /\ Steps!Load(i)
             \/ Steps!Fail(i, "load")
             \/ Steps!FetchBatch(i) \/ Steps!LoopEnds(i) \/ Steps!Fail(i, "fetch")
             \/ Steps!HandlerOk(i) \/ Steps!HandlerFails(i)

\* The tick calls the store.
Calling ==
    /\ \E i \in Instances :
          \/ place[i] = "idle" /\ Acquire(i)
          \/ place[i] = "commit" /\ Commit(i, last[i])
          \/ place[i] = "release" /\ Release(i)
    /\ UNCHANGED <<table, place, locals, accepted>>

-----------------------------------------------------------------------------
(* The steps of the calls, and what their ends do to the tick. *)

Goes(i, to) == place' = [place EXCEPT ![i] = to]

\* acquire_lease returns the lease id, commit_checkpoint returns.
Acquired(i) ==
    /\ call[i].name = "acquire" /\ held'[i] # NoLease
    /\ Goes(i, "load")
    /\ UNCHANGED locals

Committed(i) ==
    /\ call[i].name = "commit" /\ acked'[i] # Empty
    /\ Goes(i, "fetch")
    /\ cursor' = [cursor EXCEPT ![i] = last[i]]
    /\ batches' = [batches EXCEPT ![i] = @ + 1]
    /\ UNCHANGED <<batch, last>>

\* Mutant: an error of commit_checkpoint is logged, and the loop goes on.
CommitErrorIgnored(i) ==
    /\ call[i].name = "commit" /\ acked'[i] = Empty
    /\ Goes(i, "fetch")
    /\ cursor' = [cursor EXCEPT ![i] = last[i]]
    /\ batches' = [batches EXCEPT ![i] = @ + 1]
    /\ UNCHANGED <<batch, last>>

\* CommitError, LostLeaseError: the finally clause comes next.
NotCommitted(i) ==
    /\ call[i].name = "commit" /\ acked'[i] = Empty
    /\ Goes(i, "release")
    /\ UNCHANGED locals

\* The tick is over, or has not begun: the lease was not acquired, the call
\* of release_lease has ended in one way or the other, or the process died.
Over(i) ==
    /\ held'[i] = NoLease
    /\ Goes(i, "idle")
    /\ cursor' = [cursor EXCEPT ![i] = Empty]
    /\ batch' = [batch EXCEPT ![i] = {}]
    /\ last' = [last EXCEPT ![i] = Empty]
    /\ batches' = [batches EXCEPT ![i] = 0]

\* The call of i has ended in this step.
Ends(i) == pc[i] # "idle" /\ pc'[i] = "idle"

GoesOn ==
    /\ \/ \E i \in Instances :
             /\ Ends(i)
             /\ Acquired(i) \/ Committed(i) \/ NotCommitted(i) \/ Over(i)
       \/ /\ \A i \in Instances : ~Ends(i)
          /\ UNCHANGED <<place, locals>>
    /\ UNCHANGED table

Unanswered(js) == accepted' = {i \in js : pc'[i] = "await"}

ClientSteps ==
    /\ \E i \in Instances :
          \/ ReadFails(i)
          \/ AcquireCreate(i) \/ AcquireSteal(i) \/ AcquireConflict(i)
          \/ CommitWrite(i) \/ ReleaseWrite(i) \/ Lost(i)
          \/ Timeout(i)
    /\ GoesOn
    /\ Unanswered(accepted)

ServiceSteps ==
    /\ \E w \in wire :
          \/ /\ Accept(w)
             /\ Unanswered(accepted \cup {i \in Instances : sent[i] = w})
          \/ Reject(w) /\ Unanswered(accepted)
    /\ GoesOn

Environment ==
    /\ \/ Tick /\ UNCHANGED <<place, locals>>
       \/ \E i \in Instances : Crash(i) /\ Over(i)
    /\ Unanswered(accepted)
    /\ UNCHANGED table

PollerNext == Between \/ Calling \/ ClientSteps \/ ServiceSteps \/ Environment

PollerSpec == PollerInit /\ [][PollerNext]_pollerVars

-----------------------------------------------------------------------------
(* Properties. *)

\* The checkpoint store gives the runner what PollRunner takes for granted,
\* one blob that is read and written atomically: every behaviour of ticks
\* whose calls are interleaved, repeated, delayed, lost and refused step by
\* step is one of PollRunner.
ImplementsRunner == Runner!Spec
=============================================================================
