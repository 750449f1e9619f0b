-------------------------- MODULE MetadataCacheProofs --------------------------
(* Proofs about MetadataCache: one reflection at a time, and its result.   *)
EXTENDS MetadataCache, TLAPS

USE DEF None

-----------------------------------------------------------------------------
(* Type correctness. *)

\* Every step of the cache preserves the type invariant.
LEMMA TypeStep == TypeOK /\ [Next]_vars => TypeOK'
<1> SUFFICES ASSUME TypeOK, [Next]_vars PROVE TypeOK'
    OBVIOUS
<1> USE VersionAssumption DEF TypeOK
<1>1. ASSUME NEW t \in Threads, NEW k \in Tables, Lead(t, k) PROVE TypeOK'
    BY <1>1 DEF Lead, GoTo
<1>2. ASSUME NEW t \in Threads, NEW k \in Tables, Wait(t, k) PROVE TypeOK'
    BY <1>2 DEF Wait, GoTo
<1>3. ASSUME NEW t \in Threads, Reflect(t) PROVE TypeOK'
    BY <1>3 DEF Reflect, GoTo
<1>4. ASSUME NEW t \in Threads, ReflectFails(t) PROVE TypeOK'
    BY <1>4 DEF ReflectFails, GoTo
<1>5. ASSUME NEW t \in Threads, Store(t) PROVE TypeOK'
    BY <1>5 DEF Store, GoTo
<1>6. ASSUME NEW t \in Threads, Finally(t) PROVE TypeOK'
    BY <1>6 DEF Finally, Waiters
<1>7. ASSUME NEW t \in Threads, Resume(t) PROVE TypeOK'
    BY <1>7 DEF Resume, GoTo
<1>8. ASSUME NEW dropped \in SUBSET Tables, Drop(dropped) PROVE TypeOK'
    BY <1>8 DEF Drop, Storing
<1>9. ASSUME NEW k \in Tables, Alter(k) PROVE TypeOK'
    BY <1>9 DEF Alter
<1>10. CASE UNCHANGED vars
    BY <1>10 DEF vars
<1> QED
    BY <1>1, <1>2, <1>3, <1>4, <1>5, <1>6, <1>7, <1>8, <1>9, <1>10
    DEF Next, Run, Invalidate, Clear

\* The state of the cache is always of its type.
THEOREM TypeCorrect == Spec => []TypeOK
<1>1. Init => TypeOK
    BY VersionAssumption DEF Init, TypeOK
<1> QED
    BY <1>1, TypeStep, PTL DEF Spec

-----------------------------------------------------------------------------
(* One reflection at a time. *)

\* A thread is reflecting a table exactly as long as its event is the one
\* registered for it.
Registered ==
    /\ TypeOK
    /\ \A t \in Threads : Reflecting(t) => inflight[key[t]] = t

\* Every step keeps the reflecting threads registered.
LEMMA RegisteredStep == Registered /\ [Next]_vars => Registered'
<1> SUFFICES ASSUME Registered, [Next]_vars PROVE Registered'
    OBVIOUS
<1>0. TypeOK'
    BY TypeStep DEF Registered
<1> SUFFICES ASSUME NEW u \in Threads, Reflecting(u)'
             PROVE  inflight'[key'[u]] = u
    BY <1>0 DEF Registered
<1> USE NobodyAssumption DEF Registered, TypeOK, Reflecting
<1>1. ASSUME NEW t \in Threads, NEW k \in Tables, Lead(t, k)
      PROVE  inflight'[key'[u]] = u
    BY <1>1 DEF Lead, GoTo
<1>2. ASSUME NEW t \in Threads, NEW k \in Tables, Wait(t, k)
      PROVE  inflight'[key'[u]] = u
    BY <1>2 DEF Wait, GoTo
<1>3. ASSUME NEW t \in Threads, Reflect(t) PROVE inflight'[key'[u]] = u
    BY <1>3 DEF Reflect, GoTo
<1>4. ASSUME NEW t \in Threads, ReflectFails(t) PROVE inflight'[key'[u]] = u
    BY <1>4 DEF ReflectFails, GoTo
<1>5. ASSUME NEW t \in Threads, Store(t) PROVE inflight'[key'[u]] = u
    BY <1>5 DEF Store, GoTo
<1>6. ASSUME NEW t \in Threads, Finally(t) PROVE inflight'[key'[u]] = u
    BY <1>6 DEF Finally, Waiters
<1>7. ASSUME NEW t \in Threads, Resume(t) PROVE inflight'[key'[u]] = u
    BY <1>7 DEF Resume, GoTo
<1>8. ASSUME NEW dropped \in SUBSET Tables, Drop(dropped)
      PROVE  inflight'[key'[u]] = u
    BY <1>8 DEF Drop
<1>9. ASSUME NEW k \in Tables, Alter(k) PROVE inflight'[key'[u]] = u
    BY <1>9 DEF Alter
<1>10. CASE UNCHANGED vars
    BY <1>10 DEF vars
<1> QED
    BY <1>1, <1>2, <1>3, <1>4, <1>5, <1>6, <1>7, <1>8, <1>9, <1>10
    DEF Next, Run, Invalidate, Clear

\* Any number of threads that miss a table at once cause one reflection.
THEOREM SingleReflection == Spec => []OneReflection
<1>1. Init => Registered
    BY VersionAssumption DEF Init, Registered, TypeOK, Reflecting
<1>2. Registered => OneReflection
    BY DEF Registered, OneReflection
<1> QED
    BY <1>1, <1>2, RegisteredStep, PTL DEF Spec

-----------------------------------------------------------------------------
(* No lost wake-up. *)

\* A registered event has a thread that will set it, and whoever waits for a
\* table waits for a registered event.
Led ==
    /\ Registered
    /\ \A k \in Tables :
          inflight[k] # Nobody =>
              Reflecting(inflight[k]) /\ key[inflight[k]] = k
    /\ \A t \in Threads : pc[t] = "wait" => inflight[key[t]] # Nobody

\* Every step leaves a leader to every thread that waits.
LEMMA LedStep == Led /\ [Next]_vars => Led'
<1> SUFFICES ASSUME Led, [Next]_vars PROVE Led'
    OBVIOUS
<1>0. Registered' /\ TypeOK'
    BY RegisteredStep, TypeStep DEF Led, Registered
<1> USE NobodyAssumption DEF Led, Registered, TypeOK, Reflecting
<1>1. ASSUME NEW t \in Threads, NEW k \in Tables, Lead(t, k) PROVE Led'
    BY <1>0, <1>1 DEF Lead, GoTo
<1>2. ASSUME NEW t \in Threads, NEW k \in Tables, Wait(t, k) PROVE Led'
    BY <1>0, <1>2 DEF Wait, GoTo
<1>3. ASSUME NEW t \in Threads, Reflect(t) PROVE Led'
    BY <1>0, <1>3 DEF Reflect, GoTo
<1>4. ASSUME NEW t \in Threads, ReflectFails(t) PROVE Led'
    BY <1>0, <1>4 DEF ReflectFails, GoTo
<1>5. ASSUME NEW t \in Threads, Store(t) PROVE Led'
    BY <1>0, <1>5 DEF Store, GoTo
<1>6. ASSUME NEW t \in Threads, Finally(t) PROVE Led'
    BY <1>0, <1>6 DEF Finally, Waiters
<1>7. ASSUME NEW t \in Threads, Resume(t) PROVE Led'
    BY <1>0, <1>7 DEF Resume, GoTo
<1>8. ASSUME NEW dropped \in SUBSET Tables, Drop(dropped) PROVE Led'
    BY <1>0, <1>8 DEF Drop
<1>9. ASSUME NEW k \in Tables, Alter(k) PROVE Led'
    BY <1>0, <1>9 DEF Alter
<1>10. CASE UNCHANGED vars
    BY <1>0, <1>10 DEF vars
<1> HIDE DEF Led, Registered, TypeOK, Reflecting
<1> QED
    BY <1>1, <1>2, <1>3, <1>4, <1>5, <1>6, <1>7, <1>8, <1>9, <1>10
    DEF Next, Run, Invalidate, Clear

\* However many threads look up whatever tables, nobody waits for an event
\* that no thread is going to set, and no event outlives its thread's call,
\* which would let every later lookup of the table wait forever.
THEOREM EveryWaiterHasALeader == Spec => []NobodyWaitsInVain
<1>1. Init => Led
    BY VersionAssumption DEF Init, Led, Registered, TypeOK, Reflecting
<1>2. Led => NobodyWaitsInVain
    BY DEF Led, Registered, TypeOK, NobodyWaitsInVain, Waiters
<1> QED
    BY <1>1, <1>2, LedStep, PTL DEF Spec

-----------------------------------------------------------------------------
(* Staleness. *)

\* What is cached, and what is about to be, is as new as the last drop of
\* the entry, unless the drop met a reflection already read.
Fresh ==
    /\ TypeOK
    /\ \A k \in Tables : floor[k] <= version[k]
    /\ \A k \in Tables : cache[k] # None /\ k \notin raced => cache[k] >= floor[k]
    /\ \A t \in Threads :
          pc[t] = "store" /\ key[t] \notin raced => table[t] >= floor[key[t]]

\* Every step preserves Fresh.
LEMMA FreshStep == Fresh /\ [Next]_vars => Fresh'
<1> SUFFICES ASSUME Fresh, [Next]_vars PROVE Fresh'
    OBVIOUS
<1>0. TypeOK'
    BY TypeStep DEF Fresh
<1> USE DEF Fresh, TypeOK
<1>1. ASSUME NEW t \in Threads, NEW k \in Tables, Lead(t, k) PROVE Fresh'
    BY <1>0, <1>1 DEF Lead, GoTo
<1>2. ASSUME NEW t \in Threads, NEW k \in Tables, Wait(t, k) PROVE Fresh'
    BY <1>0, <1>2 DEF Wait, GoTo
<1>3. ASSUME NEW t \in Threads, Reflect(t) PROVE Fresh'
    BY <1>0, <1>3 DEF Reflect, GoTo
<1>4. ASSUME NEW t \in Threads, ReflectFails(t) PROVE Fresh'
    BY <1>0, <1>4 DEF ReflectFails, GoTo
<1>5. ASSUME NEW t \in Threads, Store(t) PROVE Fresh'
    BY <1>0, <1>5 DEF Store, GoTo
<1>6. ASSUME NEW t \in Threads, Finally(t) PROVE Fresh'
    BY <1>0, <1>6 DEF Finally, Waiters
<1>7. ASSUME NEW t \in Threads, Resume(t) PROVE Fresh'
    BY <1>0, <1>7 DEF Resume, GoTo
<1>8. ASSUME NEW dropped \in SUBSET Tables, Drop(dropped) PROVE Fresh'
    BY <1>0, <1>8 DEF Drop, Storing
<1>9. ASSUME NEW k \in Tables, Alter(k) PROVE Fresh'
    BY <1>0, <1>9 DEF Alter
<1>10. CASE UNCHANGED vars
    BY <1>0, <1>10 DEF vars
<1> QED
    BY <1>1, <1>2, <1>3, <1>4, <1>5, <1>6, <1>7, <1>8, <1>9, <1>10
    DEF Next, Run, Invalidate, Clear

\* A definition older than the last invalidate or clear is in the cache
\* only if a reflection straddled it.
THEOREM Freshness == Spec => []StaleOnlyByRace
<1>1. Init => Fresh
    BY VersionAssumption DEF Init, Fresh, TypeOK
<1>2. Fresh => StaleOnlyByRace
    BY DEF Fresh, StaleOnlyByRace
<1> QED
    BY <1>1, <1>2, FreshStep, PTL DEF Spec
=============================================================================
