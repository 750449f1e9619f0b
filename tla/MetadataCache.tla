---------------------------- MODULE MetadataCache ----------------------------
(***************************************************************************)
(* MetadataCache (core/metadata.py): reflected tables, shared by the       *)
(* threads of a process. The first thread that misses a table reflects it  *)
(* outside the lock; the others wait for its event. A table is a version   *)
(* number of its definition in the database, None if it does not exist.    *)
(***************************************************************************)
EXTENDS Integers

CONSTANTS
    Threads,
    Tables,         \* cache keys: URL, schema and table name
    Nobody,         \* no thread is reflecting
    MaxVersion      \* bound: versions of a table's definition

ASSUME NobodyAssumption == Nobody \notin Threads
ASSUME VersionAssumption == MaxVersion \in Nat \ {0}

None == 0

VARIABLES
    version,        \* the definitions in the database
    cache,          \* _cache
    inflight,       \* _inflight: the thread whose event is registered
    pc,             \* where get_or_reflect is
    key,            \* the table asked for
    table,          \* what the thread's reflection has found
    floor,          \* history: the version when the entry was last dropped
    raced           \* history: tables whose drop met a reflection already read

vars == <<version, cache, inflight, pc, key, table, floor, raced>>

Init ==
    /\ version \in [Tables -> {None, 1}]
    /\ cache = [k \in Tables |-> None]
    /\ inflight = [k \in Tables |-> Nobody]
    /\ pc = [t \in Threads |-> "idle"]
    /\ key \in [Threads -> Tables]
    /\ table = [t \in Threads |-> None]
    /\ floor = [k \in Tables |-> None]
    /\ raced = {}

GoTo(t, place) == pc' = [pc EXCEPT ![t] = place]

-----------------------------------------------------------------------------
(* get_or_reflect. A cached table is returned under the lock at once.      *)

\* Mutant: a miss always reflects, whoever is reflecting already.
LeadAnyway(t, k) ==
    /\ pc[t] = "idle"
    /\ cache[k] = None
    /\ inflight' = [inflight EXCEPT ![k] = t]
    /\ key' = [key EXCEPT ![t] = k]
    /\ GoTo(t, "reflect")
    /\ UNCHANGED <<version, cache, table, floor, raced>>

Lead(t, k) ==
    /\ pc[t] = "idle"
    /\ cache[k] = None /\ inflight[k] = Nobody
    /\ inflight' = [inflight EXCEPT ![k] = t]
    /\ key' = [key EXCEPT ![t] = k]
    /\ GoTo(t, "reflect")
    /\ UNCHANGED <<version, cache, table, floor, raced>>

Wait(t, k) ==
    /\ pc[t] = "idle"
    /\ cache[k] = None /\ inflight[k] # Nobody
    /\ key' = [key EXCEPT ![t] = k]
    /\ GoTo(t, "wait")
    /\ UNCHANGED <<version, cache, inflight, table, floor, raced>>

\* The database answers. Only a table that was found is stored.
Reflect(t) ==
    /\ pc[t] = "reflect"
    /\ table' = [table EXCEPT ![t] = version[key[t]]]
    /\ GoTo(t, IF table'[t] = None THEN "finally" ELSE "store")
    /\ UNCHANGED <<version, cache, inflight, key, floor, raced>>

ReflectFails(t) ==
    /\ pc[t] = "reflect"
    /\ GoTo(t, "finally")
    /\ UNCHANGED <<version, cache, inflight, key, table, floor, raced>>

Store(t) ==
    /\ pc[t] = "store"
    /\ cache' = [cache EXCEPT ![key[t]] = table[t]]
    /\ GoTo(t, "finally")
    /\ UNCHANGED <<version, inflight, key, table, floor, raced>>

Waiters(k) == {u \in Threads : pc[u] = "wait" /\ key[u] = k}

\* Mutant: the event is unregistered but not set.
FinallyUnset(t) ==
    /\ pc[t] = "finally"
    /\ inflight' = [inflight EXCEPT ![key[t]] = Nobody]
    /\ GoTo(t, "idle")
    /\ table' = [table EXCEPT ![t] = None]
    /\ UNCHANGED <<version, cache, key, floor, raced>>

\* Mutant: the registered event is overwritten instead of removed.
FinallyKeepsEntry(t) ==
    /\ pc[t] = "finally"
    /\ inflight' = [inflight EXCEPT ![key[t]] = None]
    /\ pc' = [u \in Threads |-> IF u = t THEN "idle"
                               ELSE IF u \in Waiters(key[t]) THEN "woken"
                               ELSE pc[u]]
    /\ table' = [table EXCEPT ![t] = None]
    /\ UNCHANGED <<version, cache, key, floor, raced>>

\* The event is unregistered and set, and the reflecting thread returns its
\* table, or None, or raises. Event.set wakes the threads that wait for it.
Finally(t) ==
    /\ pc[t] = "finally"
    /\ inflight' = [inflight EXCEPT ![key[t]] = Nobody]
    /\ pc' = [u \in Threads |-> IF u = t THEN "idle"
                               ELSE IF u \in Waiters(key[t]) THEN "woken"
                               ELSE pc[u]]
    /\ table' = [table EXCEPT ![t] = None]
    /\ UNCHANGED <<version, cache, key, floor, raced>>

\* A woken thread returns what is in the cache by then, possibly None.
Resume(t) ==
    /\ pc[t] = "woken"
    /\ GoTo(t, "idle")
    /\ UNCHANGED <<version, cache, inflight, key, table, floor, raced>>

-----------------------------------------------------------------------------
(* invalidate and clear *)

Storing(t, k) == pc[t] = "store" /\ key[t] = k

\* Mutant: the entry is looked up under another key, and stays.
DropMisses(dropped) ==
    /\ floor' = [k \in Tables |-> IF k \in dropped THEN version[k] ELSE floor[k]]
    /\ raced' = (raced \ dropped) \cup {k \in dropped : \E t \in Threads : Storing(t, k)}
    /\ UNCHANGED <<version, cache, inflight, pc, key, table>>

\* A reflection that is under way is neither stopped nor marked.
Drop(dropped) ==
    /\ cache' = [k \in Tables |-> IF k \in dropped THEN None ELSE cache[k]]
    /\ floor' = [k \in Tables |-> IF k \in dropped THEN version[k] ELSE floor[k]]
    /\ raced' = (raced \ dropped) \cup {k \in dropped : \E t \in Threads : Storing(t, k)}
    /\ UNCHANGED <<version, inflight, pc, key, table>>

Invalidate(k) == Drop({k})
Clear == Drop(Tables)

\* Somebody creates or alters the table in the database.
Alter(k) ==
    /\ version[k] < MaxVersion
    /\ version' = [version EXCEPT ![k] = @ + 1]
    /\ UNCHANGED <<cache, inflight, pc, key, table, floor, raced>>

-----------------------------------------------------------------------------
Run(t) ==
    \/ \E k \in Tables : Lead(t, k) \/ Wait(t, k)
    \/ Reflect(t) \/ ReflectFails(t) \/ Store(t) \/ Finally(t)
    \/ Resume(t)

Next ==
    \/ \E t \in Threads : Run(t)
    \/ \E k \in Tables : Invalidate(k) \/ Alter(k)
    \/ Clear

Spec == Init /\ [][Next]_vars

\* Threads are scheduled, and the database answers or refuses at last.
Fairness ==
    \A t \in Threads :
        /\ WF_vars(Reflect(t) \/ ReflectFails(t))
        /\ WF_vars(Store(t)) /\ WF_vars(Finally(t)) /\ WF_vars(Resume(t))

FairSpec == Spec /\ Fairness

-----------------------------------------------------------------------------
(* Properties. *)

\* The type invariant of the cache's state.
TypeOK ==
    /\ {version, cache, floor} \subseteq [Tables -> 0..MaxVersion]
    /\ inflight \in [Tables -> Threads \cup {Nobody}]
    /\ pc \in [Threads -> {"idle", "wait", "woken", "reflect", "store", "finally"}]
    /\ key \in [Threads -> Tables]
    /\ table \in [Threads -> 0..MaxVersion]
    /\ raced \subseteq Tables

Reflecting(t) == pc[t] \in {"reflect", "store", "finally"}

\* However many threads miss a table at once, one of them reflects it, also
\* when the entry is dropped under its reflection.
OneReflection ==
    \A t, u \in Threads :
        Reflecting(t) /\ Reflecting(u) /\ key[t] = key[u] => t = u

\* Nobody waits in vain: as long as an event is registered for a table, or
\* anybody waits for one, a thread is on its way to setting it, whether it
\* finds the table or not, and whatever is dropped from the cache meanwhile.
NobodyWaitsInVain ==
    \A k \in Tables :
        inflight[k] # Nobody \/ Waiters(k) # {} =>
            \E t \in Threads : Reflecting(t) /\ key[t] = k /\ inflight[k] = t

\* A cached definition is at least as new as the last invalidate or clear,
\* unless a reflection had been read when it came and was stored after it.
StaleOnlyByRace ==
    \A k \in Tables : cache[k] # None /\ k \notin raced => cache[k] >= floor[k]

\* No lookup waits forever: a waiting thread is woken although the thread
\* it waits for fails, finds no table or has its entry dropped.
LookupsReturn ==
    \A t \in Threads : pc[t] # "idle" ~> pc[t] = "idle"
=============================================================================
