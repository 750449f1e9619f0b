------------------------------ MODULE LazyEngine ------------------------------
(***************************************************************************)
(* The engines behind SqlAlchemySource, DbReader and DbWriter: all three   *)
(* create or fetch an engine and reflect a table on first use, keep both   *)
(* in fields without a lock, and give them up in close() or dispose().     *)
(* EngineProvider (core/engine.py) shares engines under a lock.            *)
(*                                                                         *)
(* A step of an actor ends where another thread may run: at a lock, or     *)
(* where the database is asked. Of an engine only two things matter: who   *)
(* refers to it, and whether its pool holds connections. dispose() empties *)
(* the pool; the engine remains usable, and its next use fills a new one.  *)
(* It may raise after that (SQLAlchemy swallows what closing a connection  *)
(* raises, but not what an event hook does).                               *)
(*                                                                         *)
(* Assignments to several fields, with nothing between that could block,   *)
(* are one step here, although another thread may run between them: that   *)
(* _engine and _owns_engine are set at once, and three fields reset at     *)
(* once, is an assumption.                                                 *)
(***************************************************************************)
EXTENDS Integers

CONSTANTS
    Handles,        \* sources, readers and writers
    Actors,         \* threads that call them
    Closers,        \* the actors that may close a handle
    Provided,       \* handles that were given the engine_provider
    Tabled,         \* handles with a table to reflect
    Inspected,      \* sources with a table, whose indexes are inspected too
    SelfClosing,    \* handles whose call ends by closing them
    Urls,           \* databases
    UrlOf,          \* the database of each handle
    MaxEngines,     \* bound: engines that anything refers to
    Nothing         \* no handle

ASSUME SetsAssumption ==
    /\ Provided \subseteq Handles /\ SelfClosing \subseteq Handles
    /\ Inspected \subseteq Tabled /\ Tabled \subseteq Handles
    /\ Closers \subseteq Actors
    /\ UrlOf \in [Handles -> Urls]
ASSUME NothingAssumption == Nothing \notin Handles
ASSUME EnginesAssumption == MaxEngines \in Nat

Engines == 1..MaxEngines
NoEngine == 0

VARIABLES
    engine,         \* _engine of each handle
    owning,         \* handles with _owns_engine
    reflected,      \* handles with a _table
    initialized,    \* handles with _initialized
    cached,         \* the provider's _engines
    doomed,         \* engines a dispose_all has yet to dispose
    forgotten,      \* history: engines a dispose_all has dropped from the cache
    open,           \* engines whose pool holds connections
    job             \* what each actor is at, on which handle, and if all is well

fields == <<engine, owning, reflected, initialized>>
provider == <<cached, doomed, forgotten>>
engineVars == <<fields, provider, open, job>>

-----------------------------------------------------------------------------
Places == {"idle", "create", "reflect", "answer", "inspect", "mark", "use",
           "undo", "forget", "close", "reset"}
Jobs == [at : Places, on : Handles \cup {Nothing}, ok : BOOLEAN]

Rest == [at |-> "idle", on |-> Nothing, ok |-> TRUE]

Idle(a) == job[a].at = "idle"
Doing(a, place, h) == job[a].at = place /\ job[a].on = h

Go(a, place, h) ==
    job' = [job EXCEPT ![a] = [at |-> place, on |-> h, ok |-> job[a].ok]]
Err(a, place, h) ==
    job' = [job EXCEPT ![a] = [at |-> place, on |-> h, ok |-> FALSE]]

\* A call is over; the bindings that make their own handle close it next.
Ends(a, h, ok) ==
    job' = [job EXCEPT ![a] =
               IF h \in SelfClosing THEN [at |-> "close", on |-> h, ok |-> ok]
               ELSE [at |-> "idle", on |-> Nothing, ok |-> ok]]

ReferredTo ==
    {engine[h] : h \in Handles} \cup {cached[u] : u \in Urls} \cup doomed \cup open

\* The number for an engine that is created: the least that is not in use.
Fresh ==
    {e \in Engines \ ReferredTo : \A d \in Engines \ ReferredTo : e <= d}

EngineInit ==
    /\ engine = [h \in Handles |-> NoEngine]
    /\ owning = {} /\ reflected = {} /\ initialized = {}
    /\ cached = [u \in Urls |-> NoEngine]
    /\ doomed = {} /\ forgotten = {}
    /\ open = {}
    /\ job = [a \in Actors |-> Rest]

-----------------------------------------------------------------------------
(* _ensure_initialized *)

Begin(a, h) ==
    /\ Idle(a)
    /\ job' = [job EXCEPT ![a] =
                  [at |-> IF h \in initialized THEN "use" ELSE "create",
                   on |-> h, ok |-> TRUE]]
    /\ UNCHANGED <<fields, provider, open>>

AfterCreate(h) == IF h \in Tabled THEN "reflect" ELSE "mark"

\* create_engine(url), without a provider
CreateOwn(a, h) ==
    /\ Doing(a, "create", h)
    /\ h \notin Provided
    /\ \E e \in Fresh :
          /\ engine' = [engine EXCEPT ![h] = e]
          /\ forgotten' = forgotten \ {e}
    /\ owning' = owning \cup {h}
    /\ Go(a, AfterCreate(h), h)
    /\ UNCHANGED <<reflected, initialized, cached, doomed, open>>

\* Mutant: looked up before the lock is taken, a miss always creates.
GetEngineTwice(u, e) ==
    /\ e \in Fresh
    /\ cached' = [cached EXCEPT ![u] = e]
    /\ forgotten' = forgotten \ {e}
    /\ UNCHANGED doomed

\* get_engine: its lock is held while the engine is looked up and created.
GetEngine(u, e) ==
    \/ cached[u] # NoEngine /\ e = cached[u] /\ UNCHANGED provider
    \/ /\ cached[u] = NoEngine
       /\ e \in Fresh
       /\ cached' = [cached EXCEPT ![u] = e]
       /\ forgotten' = forgotten \ {e}
       /\ UNCHANGED doomed

GetShared(a, h) ==
    /\ Doing(a, "create", h)
    /\ h \in Provided
    /\ \E e \in Engines :
          /\ GetEngine(UrlOf[h], e)
          /\ engine' = [engine EXCEPT ![h] = e]
    /\ owning' = owning \ {h}
    /\ Go(a, AfterCreate(h), h)
    /\ UNCHANGED <<reflected, initialized, open>>

\* DbConnectionError or SourceConfigurationError: no engine, nothing to undo.
CreateFails(a, h) ==
    /\ Doing(a, "create", h)
    /\ Ends(a, h, FALSE)
    /\ UNCHANGED <<fields, provider, open>>

\* The database is asked through the engine that the field holds.
Connects(h) == engine[h] # NoEngine /\ open' = open \cup {engine[h]}

\* The table is asked for: the metadata cache knows it, or the database does.
Reflect(a, h) ==
    /\ Doing(a, "reflect", h)
    /\ engine[h] # NoEngine
    /\ UNCHANGED open \/ Connects(h)
    /\ Go(a, "answer", h)
    /\ UNCHANGED <<fields, provider>>

\* AssertionError: another thread has cleared the field.
ReflectNothing(a, h) ==
    /\ Doing(a, "reflect", h)
    /\ engine[h] = NoEngine
    /\ Err(a, "undo", h)
    /\ UNCHANGED <<fields, provider, open>>

TableFound(a, h) ==
    /\ Doing(a, "answer", h)
    /\ reflected' = reflected \cup {h}
    /\ Go(a, IF h \in Inspected THEN "inspect" ELSE "mark", h)
    /\ UNCHANGED <<engine, owning, initialized, provider, open>>

\* The database raises, the table is not found, or its columns do not fit.
ReflectFails(a, h) ==
    /\ Doing(a, "answer", h)
    /\ Err(a, "undo", h)
    /\ UNCHANGED <<fields, provider, open>>

\* The indexes are asked for through the engine the field holds by then.
Inspect(a, h) ==
    /\ Doing(a, "inspect", h)
    /\ Connects(h)
    /\ Go(a, "mark", h)
    /\ UNCHANGED <<fields, provider>>

InspectFails(a, h) ==
    /\ Doing(a, "inspect", h)
    /\ UNCHANGED open \/ Connects(h)
    /\ Err(a, "undo", h)
    /\ UNCHANGED <<fields, provider>>

\* Mutant: the engine is disposed whoever owns it.
DisposesAnyway(h) == open' = open \ {engine[h]}

\* The engine is disposed if the handle owns it, and then the fields reset.
Disposes(h) ==
    open' = IF h \in owning THEN open \ {engine[h]} ELSE open

Undo(a, h) ==
    /\ Doing(a, "undo", h)
    /\ Disposes(h)
    /\ Go(a, "forget", h)
    /\ UNCHANGED <<fields, provider>>

\* dispose() raises: the fields are left as they are.
UndoRaises(a, h) ==
    /\ Doing(a, "undo", h)
    /\ h \in owning
    /\ Disposes(h)
    /\ Ends(a, h, FALSE)
    /\ UNCHANGED <<fields, provider>>

\* Mutant: _owns_engine is not reset.
ClearFieldsKeepsOwning(h) ==
    /\ engine' = [engine EXCEPT ![h] = NoEngine]
    /\ reflected' = reflected \ {h}
    /\ UNCHANGED owning

ClearFields(h) ==
    /\ engine' = [engine EXCEPT ![h] = NoEngine]
    /\ reflected' = reflected \ {h}
    /\ owning' = owning \ {h}

\* _initialized is left as it is: this call has not set it.
Forget(a, h) ==
    /\ Doing(a, "forget", h)
    /\ ClearFields(h)
    /\ Ends(a, h, FALSE)
    /\ UNCHANGED <<initialized, provider, open>>

Mark(a, h) ==
    /\ Doing(a, "mark", h)
    /\ initialized' = initialized \cup {h}
    /\ Go(a, "use", h)
    /\ UNCHANGED <<engine, owning, reflected, provider, open>>

-----------------------------------------------------------------------------
(* fetch, get, query, insert, ...: the rest of the call. *)

\* Every call of a handle with a table asserts the table. (Those of DbReader
\* other than get() would do without it, which matters only to a handle that
\* counts as initialised and is not; see InitializedIsUsable.)
Use(a, h) ==
    /\ Doing(a, "use", h)
    /\ h \in Tabled => h \in reflected
    /\ Connects(h)
    /\ \E ok \in BOOLEAN : Ends(a, h, ok)
    /\ UNCHANGED <<fields, provider>>

\* AssertionError: another thread has cleared the fields.
UseFails(a, h) ==
    /\ Doing(a, "use", h)
    /\ engine[h] = NoEngine \/ h \in Tabled \ reflected
    /\ Ends(a, h, FALSE)
    /\ UNCHANGED <<fields, provider, open>>

-----------------------------------------------------------------------------
(* close() and dispose(). Without an engine they change nothing. *)

\* Mutant: the engine is given up without being disposed.
CloseEngineKept(a, h) ==
    /\ engine[h] # NoEngine
    /\ UNCHANGED open
    /\ Go(a, "reset", h)
    /\ UNCHANGED <<fields, provider>>

CloseEngine(a, h) ==
    /\ engine[h] # NoEngine
    /\ Disposes(h)
    /\ Go(a, "reset", h)
    /\ UNCHANGED <<fields, provider>>

\* dispose() raises: the fields are left as they are, and given up only with
\* the handle.
CloseEngineRaises(a, h) ==
    /\ h \in owning
    /\ Disposes(h)
    /\ job' = [job EXCEPT ![a] =
                  IF h \in SelfClosing THEN [at |-> "reset", on |-> h, ok |-> FALSE]
                  ELSE [at |-> "idle", on |-> Nothing, ok |-> FALSE]]
    /\ UNCHANGED <<fields, provider>>

CloseNothing(a, h) ==
    /\ engine[h] = NoEngine
    /\ job' = [job EXCEPT ![a] = [at |-> "idle", on |-> Nothing, ok |-> job[a].ok]]
    /\ UNCHANGED <<fields, provider, open>>

\* Mutant: close() forgets that it has to start again.
ResetKeepsInitialized(a, h) ==
    /\ Doing(a, "reset", h)
    /\ ClearFields(h)
    /\ job' = [job EXCEPT ![a] = [at |-> "idle", on |-> Nothing, ok |-> job[a].ok]]
    /\ UNCHANGED <<initialized, provider, open>>

Reset(a, h) ==
    /\ Doing(a, "reset", h)
    /\ ClearFields(h)
    /\ initialized' = initialized \ {h}
    /\ job' = [job EXCEPT ![a] = [at |-> "idle", on |-> Nothing, ok |-> job[a].ok]]
    /\ UNCHANGED <<provider, open>>

\* The finally clause of a call that made its handle itself.
CloseSelf(a, h) ==
    /\ Doing(a, "close", h)
    /\ CloseEngine(a, h) \/ CloseEngineRaises(a, h) \/ CloseNothing(a, h)

\* close() called by the code that was given the handle.
Close(a, h) ==
    a \in Closers /\ Idle(a) /\ (CloseEngine(a, h) \/ CloseEngineRaises(a, h))

-----------------------------------------------------------------------------
(* dispose_all: the cache is emptied under the lock, its engines are       *)
(* disposed outside. If one dispose() raises, the rest are not disposed.   *)

Cached == {cached[u] : u \in Urls} \ {NoEngine}

DisposeAll ==
    /\ doomed = {}
    /\ Cached # {}
    /\ doomed' = Cached
    /\ forgotten' = forgotten \cup Cached
    /\ cached' = [u \in Urls |-> NoEngine]
    /\ UNCHANGED <<fields, open, job>>

DisposeOne(e) ==
    /\ e \in doomed
    /\ open' = open \ {e}
    /\ doomed' = doomed \ {e}
    /\ UNCHANGED <<fields, cached, forgotten, job>>

DisposeFails ==
    /\ doomed # {}
    /\ doomed' = {}
    /\ UNCHANGED <<fields, cached, forgotten, open, job>>

-----------------------------------------------------------------------------
Continue(a, h) ==
    \/ CreateOwn(a, h) \/ GetShared(a, h) \/ CreateFails(a, h)
    \/ Reflect(a, h) \/ ReflectNothing(a, h)
    \/ TableFound(a, h) \/ ReflectFails(a, h)
    \/ Inspect(a, h) \/ InspectFails(a, h)
    \/ Undo(a, h) \/ UndoRaises(a, h) \/ Forget(a, h) \/ Mark(a, h)
    \/ Use(a, h) \/ UseFails(a, h)
    \/ CloseSelf(a, h) \/ Reset(a, h)

Disposal == DisposeAll \/ DisposeFails \/ \E e \in doomed : DisposeOne(e)

EngineNext ==
    \/ \E a \in Actors, h \in Handles : Begin(a, h) \/ Continue(a, h) \/ Close(a, h)
    \/ Disposal

EngineSpec == EngineInit /\ [][EngineNext]_engineVars

-----------------------------------------------------------------------------
(* Properties. *)

\* The type invariant of the handles', the provider's and the actors' state;
\* whoever owns an engine has one, and no owner was given the provider.
EngineTypeOK ==
    /\ engine \in [Handles -> Engines \cup {NoEngine}]
    /\ owning \subseteq {h \in Handles \ Provided : engine[h] # NoEngine}
    /\ reflected \subseteq Handles
    /\ initialized \subseteq Handles
    /\ cached \in [Urls -> Engines \cup {NoEngine}]
    /\ doomed \subseteq Engines /\ forgotten \subseteq Engines
    /\ open \subseteq Engines
    /\ job \in [Actors -> Jobs]

\* Handles are initialised only with what their calls assert: an engine, and
\* the table if they have one. Otherwise every later call fails, since
\* neither _ensure_initialized nor close() starts again.
InitializedIsUsable ==
    \A h \in initialized :
        engine[h] # NoEngine /\ (h \in Tabled => h \in reflected)

\* Two handles have the same engine exactly if the provider has given it to
\* both for one database, whichever threads asked first. (An engine that
\* dispose_all has dropped may still be held beside its successor.)
EnginesShared ==
    \A g, h \in Handles :
        /\ g # h
        /\ engine[g] # NoEngine /\ engine[h] # NoEngine
        /\ {engine[g], engine[h]} \cap forgotten = {}
        => ( engine[g] = engine[h] <=>
               {g, h} \subseteq Provided /\ UrlOf[g] = UrlOf[h] )

\* Closing or losing a handle never disposes an engine that the provider
\* still hands out to others: only dispose_all does.
SharedEngineSurvives ==
    [][\A u \in Urls : cached[u] \in open => cached[u] \in open' \/ cached'[u] # cached[u]]_engineVars
=============================================================================
