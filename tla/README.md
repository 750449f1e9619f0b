# A verification development for azure-functions-db

`azure-functions-db` gives Azure Functions a database trigger (a poller that
keeps its checkpoint and its lease in one blob) and input and output bindings
(`DbReader`, `DbWriter`) over SQLAlchemy. This directory holds TLA+ modules that
model its stateful parts, TLC configurations that check them on small instances,
and proofs, checked by TLAPS, of the properties that matter most. All source
paths below are relative to `src/src/azure_functions_db/`.

    tlc -workers 2 -config StoreSkew.cfg MCCheckpointStore.tla
    tlapm PollRunnerProofs.tla

`PROJECT.json` is the index: components, runs, hazards, theorems, a mutant per
checked property, and for every definition the source lines it stands for.

## 1. The system

| Component | State | Operations |
|---|---|---|
| Checkpoint store, `state/blob.py` | one JSON blob per poller: source fingerprint, checkpoint, lease (owner id, fencing token, expiry); its etag | `acquire_lease`, `renew_lease`, `load_checkpoint`, `commit_checkpoint`, `release_lease` |
| Poll runner, `trigger/runner.py`, `trigger/poll.py` | per tick: lease id, cursor, page, page count | `tick`, `PollTrigger.run` |
| SQLAlchemy source, `adapter/sqlalchemy.py` | engine, reflected table | `fetch`, `source_descriptor` |
| Normalizers and serializers, `trigger/normalizers.py`, `core/serializers.py` | none | row to event, cursor to string |
| `DbWriter`, `binding/writer.py` | engine, table, `_tx`, `_tx_conn`, `_closed_in_active_tx` | `insert`, `upsert`, `update`, `delete`, `insert_many`, `upsert_many`, `transaction`, `close` |
| `DbReader`, `binding/reader.py` | engine, table | `get`, `query`, `scalar`, `one`, `one_or_none`, `close` |
| Metadata cache, `core/metadata.py` | `_cache`, `_inflight` events, a lock | `get_or_reflect`, `invalidate`, `clear` |
| Engine provider, `core/engine.py` | engines by configuration, a lock | `get_engine`, `create_isolated_engine`, `dispose_all` |
| Decorators, async proxies, `decorator.py` | one proxy per invocation | `trigger`, `input`, `output`, `inject_reader`, `inject_writer`; worker-thread calls |
| Retry policy, `trigger/retry.py` | none | delay of an attempt |
| Observability, `observability.py` | none | log fields, metrics |
| Configuration, types, errors, `core/*.py` | none | |

How they interact. A timer calls `PollTrigger.run` on every instance of the
function app. It builds a `PollRunner`, whose `tick` calls the store (lease,
checkpoint), the source (a page of rows), the normalizer and the handler. The
store talks to Azure Blob Storage by conditional requests; instances interact
only there and in the database. `SqlAlchemySource`, `DbReader` and `DbWriter`
share the metadata cache and, if configured, an engine provider with other
threads of their process. A decorated handler is called through the wrappers
that its decorators have put around it: the trigger's calls it once per page, an
input's reads first, the injections' make a client and close it afterwards. The
async proxies run every call in a worker thread.

What is hard, and what makes each part correct:

* **Store.** A call reads, decides on its copy and its own clock, and writes
  conditionally. In between, other instances act, leases expire, an operator
  deletes the blob. A write may be lost, late, repeated, or applied though its
  caller was told of an error. Correct means: two instances never both believe
  in an unexpired lease; nobody but the holder changes the checkpoint; a
  take-over keeps the checkpoint and raises the token; a returned commit
  stays; the checkpoint of one source never reaches another.
* **Runner.** Ticks crash, overrun their lease (nothing renews it), lose it
  while handling, time out in the commit. Correct means: at least once, no
  regression of the checkpoint, one tick at a time if leases hold, and every
  row is delivered at last.
* **Source.** Pages are defined by the order of (cursor, primary key), against a
  table that changes while it is polled.
* **DbWriter.** A handler may catch what a call raises inside `transaction()`,
  nest blocks, or close the writer in one, which may itself raise. The commit or
  the rollback may fail.
  Correct means: a block stores all of its successful calls or nothing, nothing
  earlier, and no connection stays out of the pool.
* **Metadata cache.** Threads miss together; the leader may fail; entries are
  dropped under a reflection. Correct means: one reflection at a time, no lost
  wake-up, staleness only through the one window the code leaves open.

* **Engines.** Engine, table, ownership and the flag `_initialized` are four
  fields, set on first use and reset by `close()` and by a failed first use,
  without a lock. Correct means: a handle that counts as initialised can be
  used, an engine is shared exactly if the provider was asked for it, nobody
  but `dispose_all` disposes a shared one, and everybody disposes his own.
* **Decorators.** Five decorators stack in any order. Each must see the signature
  that the one below has left, or arguments are given twice or not at all. At
  a call, exceptions and cancellation unwind the layers while threads that
  nobody waits for any more still run. Correct means: every argument exactly
  once, a resolver finds what it names, and nothing stays open afterwards.

The list of hazards in `PROJECT.json` names each of these at its line, with the
properties that would catch it, or the reason why none does.

## 2. The modules

| Module | Models | Lines of interest |
|---|---|---|
| `FencedCheckpoint` | what a poller's blob promises, as one atomic object | abstract: no code of its own |
| `CheckpointStore` | `BlobCheckpointStore`, step by step, over a blob service | `state/blob.py` |
| `OrderedDelivery` | what a poller promises its table's owner: no leases, instances or ticks | abstract: no code of its own |
| `PollRunner` | `tick` on several instances over a changing table and the atomic blob | `trigger/runner.py`, `trigger/poll.py`, the query of `adapter/sqlalchemy.py` |
| `PollerOverStore` | the same ticks over the steps of the store's calls: `PollRunner` and `CheckpointStore` composed | `trigger/runner.py`, `state/blob.py` |
| `DbWriter` | one `DbWriter` in a handler's hands over one table | `binding/writer.py` |
| `MetadataCache` | `MetadataCache` under threads | `core/metadata.py` |
| `LazyEngine` | the engines behind sources, readers and writers, and their provider, under threads | `core/engine.py`, `binding/reader.py`, the `_ensure_initialized`, `_reflect_table`, `close` and `dispose` of `adapter/sqlalchemy.py` and `binding/writer.py` |
| `Decorators` | stacking decorators at import time | `decorator.py` |
| `DecoratedCall` | invocations of a decorated handler: `Decorators` and `LazyEngine` composed | `decorator.py`, `trigger/poll.py` |
| `CursorOrder` | pages and cursors by columns, and cursor values in a checkpoint | the query of `adapter/sqlalchemy.py`, `core/serializers.py` |
| `MCCheckpointStore`, `MCPollRunner`, `MCPollerOverStore`, `MCDbWriter`, `MCLazyEngine`, `MCDecoratedCall` | constants, symmetry and bounds for TLC; `MCPollRunner` also the checks of `CursorOrder` | |
| `CheckpointStoreProofs`, `PollRunnerProofs`, `PollerOverStoreProofs`, `DbWriterProofs`, `MetadataCacheProofs`, `LazyEngineProofs`, `DecoratedCallProofs`, `DecoratedUseProofs` | theorems; `PollRunnerProofs` also those about `CursorOrder` | |

Definitions whose comment starts with `Mutant:` are plausible bugs in the
definition that follows them. Each checked property is violated when one of
them replaces the original; `PROJECT.json` lists the pairs. They take part in no
specification.

### 2.1 CheckpointStore implements FencedCheckpoint

A call is split where the code can be interrupted by the world:

| Step | Code |
|---|---|
| `ReadState` | the `_read_state` with which every operation begins |
| `AcquireCreate`, `AcquireSteal`, `RenewWrite`, `CommitWrite`, `ReleaseWrite` | the checks on the copy, and the conditional write they lead to (`Send`) |
| `AcquireConflict`, `Lost`, `ReadFails` | `LeaseConflictError`, `LostLeaseError`, `StateStoreError`, `FingerprintMismatchError` |
| `Accept`, `Reject` (external) | the service compares the etag and applies or refuses the request |
| `Answer` | the answer arrives, or is lost, after which the client repeats the request or not |
| `Timeout` | the caller gives up: `StateStoreError` |
| `Crash`, `DeleteBlob`, `Tick` | the process dies and restarts; an operator deletes the blob; half a second passes |

`wire` is the set of requests on their way. A request stays there when its
caller has given up or died, until its etag can no longer match. Time is counted
in half seconds, since the effective grace is `min(ttl / 2, 5 s)`; each instance
reads `Clock(i) = now + Skew[i]`. The document's other members (poller name,
version numbers, times of the last commit) are written and never read by a
decision, so they are left out. The ghost `author` names the owner id for which
the blob was last written; the abstract specification uses it to say that a
checkpoint is the holder's own. The ghost `acked` remembers that a client's last
call was a commit that returned.

`FencedCheckpoint` is the promise without protocol: a lease is taken only after
it has lapsed *on its holder's clock*, with a higher token and the old
checkpoint; only the holder moves the expiry or the checkpoint. `ImplementsFenced`
says that `CheckpointStore` implements it, under the mapping of its `INSTANCE`.
A lapsed lease may still commit as long as nobody has taken it over: the code
verifies the expiry before the write, not at it, and the abstract `Commit` says
so.

### 2.2 PollRunner implements OrderedDelivery

The blob is here the atomic object of 2.1: owner, a phase of the lease (`live`,
`expired` on the holder's clock, `free` when the grace is over too) and the
checkpoint. `late` holds the contents that requests with an unknown outcome may
still give it; `Put` empties it, since any accepted write invalidates their
etag. How much of its lease is left when a request is applied late is open,
except that a commit does not change it. When a tick ends its owner id is never used again, so the owner becomes
`Nobody` (`Disown`), which keeps the state finite without counting
acquisitions.

| Actions | Code (`trigger/runner.py`) |
|---|---|
| `AcquireOk`, `AcquireFails` | the acquisition; `LeaseAcquireError` becomes `return 0` in `PollTrigger.run` |
| `Load` | `load_checkpoint`, which does not verify the lease |
| `FetchBatch`, `LoopEnds` | one turn of the loop: page, no more rows, or `max_batches_per_tick` |
| `HandlerOk`, `HandlerFails` | the handler returns, or raises `HandlerError` for the whole page |
| `CommitVerify`, `CommitLost`, `CommitOk`, `CommitUnsure`, `CommitConflict` | the commit: its read, its write, and its three ways to fail |
| `ReleaseOk`, `ReleaseFails` | the `finally` clause |
| `Fail` | `FetchError` and the other exceptions that go straight to the `finally` clause |
| `Crash` | no `finally` clause |
| `Insert`, `Update`, `Elapse`, `Land` | the table, time and late requests |

The table grows, and rows get a new cursor value when they are updated. As the
documentation requires of a source, the cursor column of arriving rows does not
decrease. `TiesArrive = FALSE` asks for more: the pair (cursor, key) of an
arriving row increases. `Overruns` says whether a tick may outlive its lease. The
blob is not deleted here: a deletion is an operator's wish to start again from
the first row.

`OrderedDelivery` is what remains when instances, leases and ticks are forgotten:
rows arrive in the order of their keys; a handler call leaves no unhandled row
below one that it has handled for the first time; the checkpoint moves from one
handled key to a later one, and never past a row that is unhandled. An overrun,
a crash, a lost lease or a late write is a stuttering step, or a delivery of rows
that were handled before, which nobody sees there. `DeliversInOrder` says that
`PollRunner` implements it, with the blob's checkpoint as the checkpoint.

### 2.3 PollerOverStore implements PollRunner

That the blob may be taken as one atomic object is itself a claim: `ImplementsFenced`
says what the store does to the blob, not what a tick makes of the answers.
`PollerOverStore` has no atomic blob. It runs the calls of `CheckpointStore`, and a
tick goes on when its call has ended, and as the call has ended:

| Actions | Code (`trigger/runner.py`) |
|---|---|
| `Between` | what a tick does without the store's writes: `Load`, `FetchBatch`, `HandlerOk`, ... are those of `PollRunner`, over the blob as it is read |
| `Calling` | `acquire_lease`, `commit_checkpoint(..., last, ...)`, `release_lease` begin |
| `ClientSteps`, `ServiceSteps` | the steps of `CheckpointStore` in client and service |
| `GoesOn` | `Acquired`, `Committed`, `NotCommitted`, `Over`: what the end of a call does to the tick |
| `Environment` | time; a process dies, and its tick with it |

The mapping of `Runner` says what `PollRunner` sees of it. `SeenBlob` has the stored
checkpoint, the instance whose running tick has the stored owner id (`Tenant`), and
the phase of the stored lease by the clocks. `SeenLate` is what the requests on their
way can still make of the blob, if no running tick waits for them. A commit is at `write`
from the moment it has sent its request until the service has accepted it, and a
tick is over once its release is sent: the request is then a late one like any
other, whatever becomes of the call. The ghost `accepted` has the instances whose
request was accepted while they still wait: the answer was lost, and the repeated
request can only be refused, so that in `PollRunner` the commit has ended unsure and the tick
is at `release`. An answer that arrives late has no step of its own. When a client learns of a
success is seen by nobody; only what it does next is, and that may be delayed at will.

### 2.4 DbWriter

`table` is what is committed, `work` what the block's transaction sees, `tx`
that `_tx` and `_tx_conn` are set, `conns` the connections taken from the pool.
The ghost `ideal` is the table had exactly the block's successful calls run. A
call is a sequence of statements (a row each for `insert_many` and
`upsert_many`), whose rows `After` follows one by one, and may fail after any of them; the handler may catch the
`WriteError` and carry on. Outside a block a call has an `engine.begin()` of its
own and is atomic. No call asks for key columns: a row may leave its key to the database
(`insert` and `upsert` alike, `writer.py:428-439`), which the operation `add` stands for.
`close()` in a block may raise, if it disposes an engine of the writer's own and
`dispose()` raises (`CloseRaises`, `writer.py:331`): the transaction is over by then,
but `_closed_in_active_tx` is not set, so that the writer accepts calls again and commits
each at once. The ghost `closeRaised` marks such a block. `Aborting` is a fact about the database: with PostgreSQL a
failed statement aborts its transaction, with SQLite and MySQL it does not.
A commit of an aborted transaction that returns normally and stores nothing
is among the modelled outcomes.

### 2.5 MetadataCache

One action per region between lock operations: `Lead` and `Wait` (the first
locked region on a miss), `Reflect` and `ReflectFails` (outside the lock),
`Store`, `Finally` (unregister and set the event), `Resume` (a woken thread reads
the cache). `Drop` is `invalidate` or `clear`. A table is the version number of its
definition. The ghosts `floor` (the version when an entry was last dropped) and
`raced` (tables whose drop met a thread that had already read) say what may be
stale. No other code of the package calls `invalidate` or `clear`: they
are the cache's public operations.

### 2.6 LazyEngine

`SqlAlchemySource`, `DbReader` and `DbWriter` have the same `_ensure_initialized`
and the same closing, and the module has each step of them once, for *handles*;
`Tabled`, `Inspected`, `Provided` and `SelfClosing` say which of them take which
branch. A step ends where another thread can come between: at a lock, or where
the database is asked (`Reflect` and `TableFound`, `Inspect`, `Use`), and also
between `dispose()`, the fields' reset and the flag. Between these, Python
statements that touch only the handle are one step. This is an assumption, since
another thread may run between any two of them: that `_engine` and `_owns_engine` are set at once
(`adapter/sqlalchemy.py:174-175`), and the three fields reset at once (189-191). No property
that a run checks depends on it but the type invariant's clause that an owner has
an engine, which `EnginesTyped` proves under this assumption.

| Actions | Code |
|---|---|
| `Begin`, `CreateOwn`, `GetShared`, `CreateFails` | the early return and the first `try` of `_ensure_initialized` |
| `Reflect`, `ReflectNothing`, `TableFound`, `ReflectFails`, `Inspect`, `InspectFails` | `_reflect_table` |
| `Undo`, `UndoRaises`, `Forget`, `Mark` | its `except` clause, with a `dispose()` that returns or raises, and the flag |
| `Use`, `UseFails` | the rest of `fetch`, `get`, `query`, `insert`, ... |
| `CloseEngine`, `CloseEngineRaises`, `Reset`, `CloseNothing` | `close()`, `dispose()` |
| `GetEngine` | `get_engine`, under the provider's lock |
| `DisposeAll`, `DisposeOne`, `DisposeFails` | `dispose_all`: the locked part, each `dispose()`, one that raises |

An engine is a number, the least that nothing refers to. `open` is the set of
engines whose pool holds connections: `dispose()` takes one out, and as in
SQLAlchemy its next use puts it back. A `dispose()` that raises does so after the
pool is emptied (SQLAlchemy swallows the errors of closing a connection, but not those of
an event hook), and the statements after it are left out: the fields keep
what they had. The ghost `forgotten` remembers which
engines `dispose_all` has dropped. The transactions inside a writer's call are
`DbWriter`'s, the wait for another thread's reflection is `MetadataCache`'s.

### 2.7 Decorators and DecoratedCall

`Decorators` is the import: `Decorate` is one application of a decorator, with
the checks that reject it, and changes what the code changes: the marks and
layers, `__signature__` (`visible`) and the metadata. `EveryArgumentOnce` and
`ResolversServed` say what the signatures are for, by `Passed(i)`, the arguments
layer `i` is called with.

`DecoratedCall` then runs such a stack. `call` says which layer is entered,
waiting or being left; layer 0 is the handler's body. One action per step of a
wrapper: `StartFetch`, `Fetched`, `BatchDone`, `TickEnds` (the trigger, whose
lease and checkpoint are `PollRunner`'s), `StartRead`, `ReadDone`,
`ReadCancelled` (input), `OutputCalls`, `InjectCalls`, `InjectCloses`,
`InjectClosed`, and of the body: `UseClient`, `CloseClient`, `SetOutput`,
`BodyEnds`. A sync handler does all in one thread. In a coroutine each call of a
binding takes a thread of its own and the body goes on, since it may start
calls without awaiting them, or be cancelled at its `await`. What these
calls do to handles and engines is `LazyEngine`'s actions, so that every
invocation is a behaviour of `LazyEngine` (`InvocationsUseEngines`).

The ghost `disturbed` has the injected clients of which two calls have
overlapped, or that were closed or left during a call. There are three ways to get there:

* The handler starts two calls of one client at once. The documentation excludes this:
  instances "are **not** safe to share across concurrent threads or async invocations"
  (docs/04-python-api-spec.md:397; docs/02-architecture.md:240-241).
* It closes the client, or ends, while a call that it has not awaited goes on.
* It is **cancelled while it properly awaits a call** of its client
  (`decorator.py:1083-1095`). No document excludes this, and the docstring
  (`decorator.py:955-956`) says that the client is "closed automatically after the handler
  returns". The wrapper closes it, while the worker thread is still at its first use: that
  thread then makes an engine, or opens a pool, that nobody closes any more.

So `NothingLeaks` is stated for invocations all of whose disturbed clients have a
provider, whose engine is everybody's and is not lost, and `BindingsUsable` for all
handles but the disturbed ones, which their invocation drops. Neither says
that a cancelled invocation keeps its clients' own engines: it does not, and the
hazards list the place without a property. The input binding and `DbOut.set`
have no such gap, since their thread closes what it has made, and both
properties cover their cancellation.

### 2.8 CursorOrder

`PollRunner` orders pairs of a cursor value and a key. `CursorOrder` has the
predicate as it is written, for any number of primary key columns and with NULL:
`Beyond` is the OR/AND expansion, `IsPageOf` the query with its order and its
limit. `LessIsBeyond` proves that they agree where both apply. It also says which
kinds of values come back from a checkpoint (`SerializedParses`), and which of
these the operator `>` takes at all (`Orderable`).

## 3. The runs

| Run | Shows | Bounds |
|---|---|---|
| `store_skew` | `LeaseExclusive`, `ImplementsFenced`, `TypeOK` for two instances with skewed clocks | ttl 1 s, i.e. 2 units and 1 of grace; skew 1 = grace; 3 units of time; one acquisition per instance; 3 accepted writes |
| `store_deletes` | `SourceNeverMixed`, `AckedCommitSticks` for two sources and a deletion | 2 units, 3 writes, one deletion |
| `poller_over_store` | `ImplementsRunner`: ticks over the store's steps behave as `PollRunner` says | two instances with the same clock, 4 units of time, one acquisition per instance, 4 accepted writes; 2 cursor values of one key, pages of 1, one page per tick |
| `poll_overrun` | `NoLoss`, `NoRedelivery`, `CheckpointMonotone`, `DeliversInOrder`, `TypeOK` with overrunning ticks | two instances, 6 keys, pages of 2, two pages per tick |
| `poll_live` | `OneTickAtATime`, `Delivered` (liveness) | two instances, 4 keys, pages of 1 |
| `poll_ties` | `NoLoss` is violated if ties arrive late (finding) | 4 keys |
| `poll_two_ticks` | `OneHandlerAtATime` is violated by a handler that outlasts its lease (finding) | 4 keys, pages of 1; only behaviours in which a tick has its lease until its handler runs |
| `writer_aborts` | `NothingEscapes`, `AllOrNothing`, `Released`, `TypeOK` | 3 keys, 2 values, batches of 2; rows that name their key and rows that do not |
| `writer_batch` | `AllOrNothing` is violated where failed statements do not abort (finding) | 2 keys, 2 values, batches of 2 |
| `cache_threads` | `OneReflection`, `NobodyWaitsInVain`, `StaleOnlyByRace`, `LookupsReturn`, `TypeOK` | 3 threads, 2 tables, 2 versions |
| `decorated_calls` | `EveryArgumentOnce`, `ResolversServed`, `NothingLeaks`, `BindingsUsable`, `EnginesShared`, `SharedEngineSurvives`, `DecoratedTypeOK` | 5 parameters, every legal stack; 2 worker threads; one source, reader, writer and input reader, 2 writers of `DbOut.set`; some shared, some not |
| `source_shared` | `InitializedIsUsable` is violated if two threads begin at once (finding) | one source, 2 threads |

Why the bounds are enough. In `store_skew`, three units are exactly what i2 needs
to steal from i1 under the worst skew that the grace absorbs, and with a skew
one unit larger, or without the grace, two instances are entitled at once. Three
accepted writes allow create, steal and a write of either; every pair of
operations can meet. `poller_over_store` has time for a full life of a lease (2
units, 1 of grace, 1 to pass it), so that the second instance may steal it from a
tick that is anywhere, and writes for an acquisition and a commit of each. The row may
arrive, be updated and be fetched under both. `store_deletes` has what the re-creation of a blob under
a running call needs: create, delete, create, and a late write. In
`poll_overrun` two pages of two rows fit a tick, the last page may be short, a
row may move, and both instances can be in their loops at once. The theorems of
section 5 hold for every value of these constants, which is the stronger answer.
In `writer_aborts` a batch of two is the smallest that can fail half way;
`Keys` and `Values` are interchangeable, as are the instances of `poll_overrun`
and `poller_over_store`, so symmetry is used there. It is used in no run with a liveness property.

In `decorated_calls` three parameters are free and one is `context`, so that
three layers can stack, as many as the composition rules allow with the
trigger, one that reads and one that writes; two threads are what it takes for a
call to overlap another or the coroutine's end. The source, the writer and the
`DbOut` writers use the provider, the two readers do not, so that both kinds of
ownership meet. `Again` waits until the threads of an invocation have ended, and
only one `dispose_all` happens as long as an engine it has dropped is still held
by somebody. An invocation that has disturbed a client is the last one, as its engine
may be lost, and with each one the numbers go up. `Explored` bounds what the run looks at: not what a body does
after it has disturbed a client (the way out of the layers is explored), and a
`dispose_all` only beside undisturbed clients, with more than one layer beside one
worker thread at a time. `LazyEngineProofs` and `DecoratedUseProofs` cover what lies
beyond. `Relevant`, the view, leaves out which thread runs a call and how its last call has
ended unless somebody awaits it, and `failed` once the invocation is over: no
action and no property reads them there. Worker threads are
interchangeable, and so are the writers of `DbOut.set`. The run has about 455,000 states.

In `poll_two_ticks` an acquisition may also be applied late, when its lease has already
ended, so that two ticks overlap before either has done anything. `LeaseLastsUntilHandler` leaves
these behaviours out, and the trace is the one that the documents speak of: the
lease ends at the handler.

`CursorOrder`'s operators are checked when `MCPollRunner` is loaded, over up to
three columns of two values and NULL.

`writer_aborts` does not check deadlock: a writer that was closed in a block
refuses every further call, and once the block has ended nothing is left to do.
Nor does `decorated_calls`: an invocation that has disturbed a client is the last.
The other systems never stop: in `store_*` and `poller_over_store` a call can always begin or crash, and
the bounded actions are not the only ones.

### Fairness

`poll_live` assumes that the timer keeps firing on every instance and that time
passes (weak fairness of `Elapse`, `LoopEnds` and the release), and that no
failure is permanent: an acquisition, load, fetch, handler call or commit that
can succeed again and again does so at last (strong fairness). That the handler
is among them is an assumption about the user's code: a row on which it always
fails stops its poller, as the hazards note. Nothing is assumed of `Insert`,
`Update`, `Land`, `Crash` or the failures. `cache_threads` assumes that threads are
scheduled and that the database answers or refuses each reflection. No lookup
need ever start.

## 4. Findings

1. **`poll_ties`**: docs/24-polling-runtime-semantics.md:28-30 promises at-least-once
   delivery to sources whose cursor column does not decrease. The query of
   `adapter/sqlalchemy.py:360-378` selects (cursor, key) strictly beyond the
   checkpoint, so a row that becomes visible after a fetch, with the cursor
   value of the checkpoint and a lower key, is never selected.
2. **`poll_two_ticks`**: docs/24-polling-runtime-semantics.md:138-139 says that
   "exactly one tick runs at a time", and docs/06-checkpoint-lease-spec.md:105-113 that a heartbeat is
   required because handlers may take long, and that a handler that has lost its
   lease must be stopped. `tick` never renews its lease. The trace: a row
   arrives; i1 acquires the lease, loads the checkpoint, fetches the row and
   calls its handler; lease and grace end while the handler is at work; i2 acquires
   the lease, loads the checkpoint that i1 has not moved yet, fetches the same row
   and calls its handler beside the other. Only the commit is fenced. (Sections
   5.8 and 7 of docs/24 admit that there is no heartbeat.)
3. **`writer_batch`**: the docstring of `upsert_many` (`binding/writer.py:221`)
   and docs/22-binding-semantics.md:37,48 call a batch all-or-nothing and its
   failure a rollback of the entire batch. Inside a `transaction()` block there is
   no savepoint: if the handler catches the `WriteError` and the block ends
   normally, the rows before the failing one are committed, on a database that
   does not abort the transaction. `Atomicity` says when blocks *are* atomic there:
   if no batch is made inside one.

4. **`source_shared`**: docs/02-architecture.md:239 calls `SqlAlchemySource` shared
   between invocations, and thread-safe since "read-only after construction".
   Its engine and table are made on first use, without a lock. If two threads
   fetch first at once, and the reflection of one fails after the other has
   finished, the `except` clause (`adapter/sqlalchemy.py:186-192`) clears the
   engine and the table and leaves `_initialized` set. Every later fetch fails,
   and `dispose()` does not help, as it does nothing without an engine.
   `SerialUseIsSafe` proves that it takes two threads on one source: nothing else
   that fails, is closed or is disposed has this effect.

Two more disagreements need no model. docs/25-engine-provider-pooling.md (lines 46-53 and 81) and
docs/22-binding-semantics.md:30 say that a binding without a provider keeps its
engine, and a closed reader its pool, over warm invocations; the wrappers
close what they make in every invocation, and `close()` disposes an engine that
the handle owns (this is what `NothingLeaks` states). And docs/25 (lines
163-167) says that `connect_args` in `engine_kwargs` silently win; `create_isolated_engine`
(`core/engine.py:27-33`) rejects them.

Two places are met on the way, are outside of what the properties promise, and say so there:

* A coroutine that is cancelled while it awaits a call of its injected client
  without a provider may lose that client's engine (2.7; `decorator.py:1083-1095`).
* A `close()` in a `transaction()` block whose `dispose()` raises lets later writes of
  the block be committed one by one (2.4; `binding/writer.py:331`). SQLAlchemy swallows
  what closing a connection raises, so that only an event hook gets here.

## 5. The proofs

All theorems hold for every value of the constants that satisfies the named
assumptions of its module. Each follows the same path: an inductive invariant,
one step per action, `PTL` for the temporal conclusion.

**CheckpointStoreProofs**

The proofs never look at the eighteen actions again once `StepShape` has sorted
them into five kinds: quiet (a failure, a crash, time), reading, writing,
accepting, deletion.

* `TypeCorrect`: `[]TypeOK`.
* `SourcesApart`: `[]SourceNeverMixed`, by `AuthorInv`: every request and every
  document names its writer's owner id, which has been drawn, and carries that
  instance's fingerprint.
* `StoreIsFenced`, from `ClocksAgree` (no clock is ahead of another by more than
  its instance's grace period): `ImplementsFenced`. `EtagInv` says that a copy
  with the blob's etag is the blob; with it `RequestInv` says that a request
  which can still be accepted either keeps the lease's owner and changes only
  one of checkpoint and lease, or steals a lease that has expired on the
  thief's clock. `AcceptRefines` maps the first to `Commit` or `Extend`, the
  second to `Take`.
* `Exclusion`, from `ClocksAgree` and `MaxDeletes = 0`: `[]LeaseExclusive`.
  `HolderInv` says of every client that thinks it holds a lease that it is
  right, that the stored expiry is no earlier than the one it was told, and
  that no request of its own that is still on its way is either; or else that
  its lease has expired on its own clock. `BoundInv` (no lease ends later than
  one lease time from now) is what makes a renewal never shorten a lease.
  Without `MaxDeletes = 0` it is false: after a deletion the first caller gets a
  new lease while the old holder still trusts its own. Commits of the old
  holder are still refused.
* `CommitsStick`: `[]AckedCommitSticks`, with no assumption on clocks or
  deletions. `AckedInv` says that once a commit has returned, no request of the
  same owner id can be accepted any more, not even after a deletion.

**PollRunnerProofs**

* `TypeCorrect`: `[]TypeOK`.
* `AtLeastOnce`, from `TiesArrive = FALSE`: `[]NoLoss`. `NoLoss` is not inductive,
  since it says nothing of the cursors and writes that are still under way. Call
  a cursor *settled* if it is at most `newest` and every row up to it has been
  handled. `SettledInv` says that the checkpoint, every late write's checkpoint,
  every tick's cursor and, after the handler, its `last` are settled, and that a
  page contains every row between its cursor and its last row, also rows that
  came after the fetch. The last point is where ties matter: an arriving key
  is beyond `newest`, hence beyond every settled cursor. Overruns, crashes and
  late writes need no assumption.
* `CheckpointNeverRegresses`: `CheckpointMonotone`, and
  `HolderNeverRedelivers`: `[]NoRedelivery`. `ProgressInv` says that a late
  write never holds a checkpoint below the stored one, that the owner's cursor
  *is* the stored checkpoint from load to commit, and that the page lies
  beyond it.
* `DeliveryImplemented`, from `TiesArrive = FALSE`: `DeliversInOrder`, the
  refinement. With `SettledInv` and `ProgressInv` it needs `HandledInv`: a page's
  last row is one of the page, so that what becomes the checkpoint has been
  handled. Arrivals map to `Arrive`, `HandlerOk` to `Deliver` (the rows up to the
  page's last one are in the page, or at most at the tick's settled cursor), and
  every other step to `Advance` or a stutter (`AdvanceOrStay`).
* `MutualExclusion`, from `Overruns = FALSE`: `[]OneTickAtATime`, by
  `LeaseInv`: a running tick owns a live lease.

About `CursorOrder`, in the same module:

* `BeyondIrreflexive`, `BeyondTransitive`, `BeyondTotal`: on rows without NULL the
  expansion is a strict total order, for any number of columns. Both use
  `LeastColumn`: two different rows have a first column where they differ.
* `PagesContinue`: the rows beyond the last row of a page are those that the query
  has found and the page has left out. It needs rows without NULL, and that the
  where clause acts as one conjunct, which its text does not if it has an OR at
  its top level (a listed hazard).
* `LessIsBeyond`: `PollRunner`'s `Less` is `Beyond` with one key column.

**PollerOverStoreProofs**

* `RunnerImplemented`, from `ClocksAgree` (no clock is ahead of another by more than its
  instance's grace period) and `MaxDeletes = 0` (nobody deletes the blob of a poller
  that is in use): `ImplementsRunner`, with `Overruns = TRUE`, so that nothing is
  assumed of how long a handler takes. The inductive invariant `PollerInv` joins five:
  `StoreInv`, which is what `CheckpointStoreProofs` has shown of the store, and whose lemmas
  are used again here; `PollerTypeOK`; `CallInv`, which ties the place of a tick to
  the call under way (at `commit` nothing but a commit of `last`, between calls none,
  a lease id exactly in a tick); `KeptInv`, by which the lease of a running tick is the
  same in the client, in the blob, in the copy that was read and in the tick's requests, as `tick`
  never renews it; and `SentInv`, by which until its release a tick has no other request on its way
  that can be accepted than the one it waits for, and a request that was accepted cannot be accepted
  again. `KeptInv` is what makes the phase that `PollRunner` sees stay put over a commit, `SentInv`
  what makes a late write in `PollRunner` one that nobody waits for.
  `PollerShape` sorts the steps into six kinds, as `StepShape` does for the store, and one
  lemma per kind and outcome says which action of `PollRunner` it is:

  | Step here | Seen as |
  |---|---|
  | a call begins; an acquisition's request | nothing |
  | time | nothing, or `Elapse` |
  | a commit's request | `CommitVerify` |
  | a commit refused, lost or given up | `Fail`, `CommitUnsure`, `CommitConflict`, or nothing if it was accepted before |
  | a release's request | `ReleaseFails`, which leaves the request behind as a late one |
  | a release that fails before; a crash of a tick | `Crash`, with the commit's request left behind, if there is one |
  | an acquisition refused, lost or given up | nothing, or `AcquireFails` if its request may still be accepted |
  | an acquisition or a commit is accepted, and the caller learns of it | `AcquireOk`, `CommitOk` |
  | ... and the answer is lost | `AcquireFails`, `CommitUnsure` |
  | an accepted request that no tick waits for | `Land` |

  The proof found `PollRunner` too narrow in three places, each of which the step-by-step
  protocol can reach, and the module was corrected: a lease may be over in the very
  moment it is taken, as the request was applied late; time may pass from `live` to `free` in one
  step of a coarse clock; and what a late commit leaves of the lease is what there is, not
  what there was when it was sent.

`ImplementsRunner` instantiates `PollRunner` with `Overruns = TRUE`, and `RunnerAssumption` gives
its assumptions. Every theorem of PollRunnerProofs is about every behaviour of
`PollRunner`, hence about those of `PollerOverStore` under the mapping: `AtLeastOnce`,
`CheckpointNeverRegresses`, `HolderNeverRedelivers` and `DeliveryImplemented` hold of the
ticks over the real protocol. This last substitution is not itself a machine-checked step: the prover
does not take theorems of temporal formulas from an instantiated module.

**DbWriterProofs**

* `TypeCorrect`: `[]TypeOK`. The rows after a call are a recursive function of the
  position in it. `AfterExists` and `AfterDef` prove that the function exists and
  obeys its equation, by an induction written out over sets of positions
  (`FirstPosition`, from the well-foundedness of finite subsets in the library,
  and `Throughout`).
* `RepeatedUpserts`: applying a list of upserts, of any length, twice is applying
  it once, since each key ends as its last upsert says (`StoredRows`).
  `RepeatedCall`: if a call that names the keys of its rows is accepted on a table on
  which it has already succeeded, it changes nothing; an insert is not accepted.
  `RepeatedAdds`: rows whose keys the database generates are stored a second time, under other
  keys ("may run again (duplicate)", docs/22-binding-semantics.md:68-71). Together with
  `AtLeastOnce` they say which handlers can be given their page again: those
  whose calls name their keys.
* `NothingLeftOpen`: `[]Released`, and `Isolation`: `NothingEscapes`, by
  `Handles`, which ties `_tx`, `_closed_in_active_tx`, the block and the
  connection count together. `NothingEscapes` excepts, and thereby names, what is written in a
  block after a `close()` that raised.
* `Atomicity`, from `Aborting = TRUE \/ MaxBatch = 1`: `AllOrNothing`, by
  `Faithful`: unless the transaction is aborted, `work` equals `ideal`. A call of
  a single statement that fails has changed nothing; a longer one may have, and
  then only the database's abort helps. With neither it is false (finding 3).

**MetadataCacheProofs**

* `TypeCorrect`: `[]TypeOK`.
* `SingleReflection`: `[]OneReflection`, by `Registered`: the thread that
  reflects a table is the one registered for it.
* `EveryWaiterHasALeader`: `[]NobodyWaitsInVain`, by `Led`: a registered event has
  a thread that reflects, and who waits for an event waits for the one that is
  registered. It is the safety half of `LookupsReturn`.
* `Freshness`: `[]StaleOnlyByRace`, by `Fresh`: what a thread is about to store is
  at least `floor`, unless its table has raced.

**LazyEngineProofs**

* `EnginesTyped`: `[]EngineTypeOK`, whatever threads do.
* `EnginesSharedAlways`: `[]EnginesShared`, and `SharedEngineSurvivesAlways`:
  `SharedEngineSurvives`, by `Ownership`: an engine that a handle owns is neither
  in the provider's cache nor in another handle, and an engine that a handle has
  and does not own is either the provider's for that database or forgotten. Here
  the choice of a fresh number matters: it is nobody's, so that nobody is hurt.
* `SerialUseIsSafe`, of every behaviour in which no two threads are on one handle
  (`[]OneThreadPerHandle`): `[]InitializedIsUsable`, which is finding 4 without
  its race. The invariant is `SoundIfAlone`: the fields of a handle are what the
  place of the only thread on it says (`Sound`). A `dispose()` that raises leaves an
  engine in its field; it is the handle's own and its pool is empty, and `Sound` says so.
  The same lemmas carry `BindingsUsableAlways` below, where no two threads are on
  one undisturbed handle.

**DecoratedCallProofs**

* `InvocationsUseEngines`: every step of `DecoratedNext` is a step of `EngineNext`
  or leaves the engines alone; with it `InvocationsShareEngines` inherits the two
  theorems above.
* `ArgumentsPassed`: `[]EveryArgumentOnce`, and `ResolversFed`: `[]ResolversServed`,
  by `Decorated`: the layers' gifts and what is still visible are disjoint and
  make up the parameters, for any number of parameters and layers.

**DecoratedUseProofs**

* `DecoratedTyped`: `[]DecoratedTypeOK`. Its invariant `OneAtATime` carries more:
  where the stack and the call can be, that a sync handler leaves the worker
  threads idle, that an input's reader is not begun before its layer runs, and
  that no two threads are on one handle (`Exclusive`), and that none is on an injected
  client outside of the body (`ClientsLeft`), but on disturbed clients.
* `BindingsUsableAlways`: `[]BindingsUsable`, by `AllSound`: the fields of an undisturbed
  handle are what the place of its one thread says, and without a thread it is
  initialised, or has nothing, or has an engine that a raising `dispose()` has
  emptied (`Sound`).
* `NothingLeaksEver`: `[]NothingLeaks`, by `Accounted`: every open pool is that
  of a handle's engine, of the provider's, or of one that `dispose_all` has
  dropped (`OpenKnown`); an injected client has an engine only inside its layer
  (`Confined`); and a handle that closes itself has one only during its call
  (in `Sound`). When the invocation is over, only the source's is left.

Both are argued client by client: what happens to a disturbed one is followed no
further (without a provider, `close()` beside a first use leaves an engine behind), and what
happens to the others, in the same invocation, is proved.

Only model-checked: the liveness properties `Delivered` and `LookupsReturn`, since
liveness under fairness is out of the prover's reach, and the operators of
`CursorOrder` on serialised values. Every other property that a passing run
checks is a theorem.

## 6. What is not modelled

* `load_checkpoint` has no state of its own; it is `Load` of `PollRunner`.
* How a database compares a column with the string that a datetime, a Decimal or
  a UUID has become in the checkpoint: that is the database's, and a hazard.
  `default_normalizer`, which gives every event no cursor, is another.
* SQL text: the `where` of a source, dialects, column validation. `CursorOrder`
  takes the where clause as one conjunct.
* Event payloads, metrics and logs. Errors in emitting them are swallowed and
  change nothing.
* `trigger/retry.py`: the policy is stored by `PollRunner` and never consulted, so
  that no behaviour of the system depends on it; its `delay_for_attempt` is one
  line of arithmetic.
* Configuration and the substitution of environment variables, data classes,
  exceptions, and the example applications.
* Calls of a decorated handler by position: the Functions host passes bindings by
  keyword. The hazards name the difference between the trigger's wrapper and the
  others.
* The failure of `conn.begin()` before the block's `try`, and exceptions other
  than `Exception` in a commit.
* A nested `transaction()` after a `close()` that raised, which the code would accept.
* What becomes of a disturbed client. For one with an engine of its own, a pool may
  stay open until the garbage collector finds it.

## 7. What comes next

1. `DecoratedCall` with the tick of `PollRunner` as its trigger layer, for a source
   that two triggers share.
2. Liveness of invocations: a layer that has been entered is left, if the
   database answers.
