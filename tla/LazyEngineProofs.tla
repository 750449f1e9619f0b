--------------------------- MODULE LazyEngineProofs ---------------------------
(***************************************************************************)
(* Theorems about LazyEngine: whatever the threads do with the handles, an *)
(* engine is shared exactly where the provider shares it, and nobody but   *)
(* dispose_all disposes an engine that the provider hands out.             *)
(***************************************************************************)
EXTENDS LazyEngine, TLAPS

\* Nobody else knows the engine of a handle that owns it.
OwnedAlone ==
    \A h \in owning :
        /\ \A g \in Handles : g # h => engine[g] # engine[h]
        /\ \A u \in Urls : cached[u] # engine[h]

\* Every other engine came from the provider, which still hands it out unless
\* a dispose_all has dropped it.
OthersProvided ==
    \A h \in Handles :
        engine[h] # NoEngine /\ h \notin owning =>
            /\ h \in Provided
            /\ engine[h] \in forgotten \/ engine[h] = cached[UrlOf[h]]

\* The provider has an engine of its own for every database, and none that is
\* still to be disposed.
CachedApart ==
    \A u \in Urls :
        /\ cached[u] \notin doomed
        /\ \A v \in Urls : u # v /\ cached[u] # NoEngine => cached[u] # cached[v]

\* The inductive invariant.
Ownership == EngineTypeOK /\ OwnedAlone /\ OthersProvided /\ CachedApart

\* The mark for no engine is none.
LEMMA NoEngineIsNone == NoEngine \notin Engines
  BY EnginesAssumption DEF NoEngine, Engines

\* A new engine is one that nothing refers to.
LEMMA FreshIsNew ==
    ASSUME NEW e \in Fresh
    PROVE  /\ e \in Engines
           /\ \A h \in Handles : engine[h] # e
           /\ \A u \in Urls : cached[u] # e
           /\ e \notin doomed
  BY DEF Fresh, ReferredTo

\* At first no handle has an engine.
THEOREM OwnershipInit == EngineInit => Ownership
  BY SetsAssumption, NothingAssumption
     DEF EngineInit, Ownership, EngineTypeOK, OwnedAlone, OthersProvided,
         CachedApart, Jobs, Places, Rest

-----------------------------------------------------------------------------
(* Type correctness. *)

\* Whatever a thread does next, it is known what it is at.
LEMMA JobsTyped ==
    ASSUME EngineTypeOK, NEW a \in Actors, NEW h \in Handles
    PROVE  /\ \A place \in Places : Go(a, place, h) => job' \in [Actors -> Jobs]
           /\ \A place \in Places : Err(a, place, h) => job' \in [Actors -> Jobs]
           /\ \A ok \in BOOLEAN : Ends(a, h, ok) => job' \in [Actors -> Jobs]
<1>0. job \in [Actors -> Jobs] /\ job[a].ok \in BOOLEAN
    BY DEF EngineTypeOK, Jobs
<1>1. ASSUME NEW place \in Places, NEW ok \in BOOLEAN,
             NEW on \in Handles \cup {Nothing}
      PROVE  [job EXCEPT ![a] = [at |-> place, on |-> on, ok |-> ok]]
                 \in [Actors -> Jobs]
    BY <1>0 DEF Jobs
<1>2. \A place \in Places : Go(a, place, h) => job' \in [Actors -> Jobs]
    BY <1>0, <1>1 DEF Go
<1>3. \A place \in Places : Err(a, place, h) => job' \in [Actors -> Jobs]
  <2> TAKE place \in Places
  <2>1. [job EXCEPT ![a] = [at |-> place, on |-> h, ok |-> FALSE]]
            \in [Actors -> Jobs]
      BY <1>0 DEF Jobs
  <2> QED
      BY <2>1 DEF Err
<1>4. \A ok \in BOOLEAN : Ends(a, h, ok) => job' \in [Actors -> Jobs]
  <2> TAKE ok \in BOOLEAN
  <2>1. /\ [job EXCEPT ![a] = [at |-> "close", on |-> h, ok |-> ok]]
              \in [Actors -> Jobs]
        /\ [job EXCEPT ![a] = [at |-> "idle", on |-> Nothing, ok |-> ok]]
              \in [Actors -> Jobs]
      BY <1>1 DEF Places
  <2> QED
      BY <2>1 DEF Ends
<1> QED
    BY <1>2, <1>3, <1>4

\* The first use of a handle keeps the types.
LEMMA InitialiseTyped ==
    ASSUME EngineTypeOK, NEW a \in Actors, NEW h \in Handles,
           \/ Begin(a, h) \/ CreateOwn(a, h) \/ GetShared(a, h) \/ CreateFails(a, h)
           \/ Reflect(a, h) \/ ReflectNothing(a, h)
           \/ TableFound(a, h) \/ ReflectFails(a, h)
           \/ Inspect(a, h) \/ InspectFails(a, h) \/ Mark(a, h)
    PROVE  EngineTypeOK'
<1> USE NoEngineIsNone, JobsTyped
<1>1. CASE Begin(a, h)
    BY <1>1 DEF EngineTypeOK, Begin, fields, provider, Jobs, Places
<1>2. CASE CreateOwn(a, h)
  <2>1. PICK e \in Fresh : /\ engine' = [engine EXCEPT ![h] = e]
                           /\ forgotten' = forgotten \ {e}
      BY <1>2 DEF CreateOwn
  <2>2. job' \in [Actors -> Jobs]
      BY <1>2 DEF CreateOwn, AfterCreate, Places
  <2> QED
      BY <1>2, <2>1, <2>2, FreshIsNew DEF EngineTypeOK, CreateOwn
<1>3. CASE GetShared(a, h)
  <2>1. PICK e \in Engines : /\ GetEngine(UrlOf[h], e)
                             /\ engine' = [engine EXCEPT ![h] = e]
      BY <1>3 DEF GetShared
  <2>2. job' \in [Actors -> Jobs]
      BY <1>3 DEF GetShared, AfterCreate, Places
  <2>3. /\ cached' \in [Urls -> Engines \cup {NoEngine}]
        /\ doomed' \subseteq Engines /\ forgotten' \subseteq Engines
      BY <2>1 DEF EngineTypeOK, GetEngine, provider
  <2> QED
      BY <1>3, <2>1, <2>2, <2>3 DEF EngineTypeOK, GetShared
<1>4. CASE CreateFails(a, h)
    BY <1>4 DEF EngineTypeOK, CreateFails, fields, provider
<1>5. CASE Reflect(a, h)
    BY <1>5 DEF EngineTypeOK, Reflect, Connects, fields, provider, Places
<1>6. CASE ReflectNothing(a, h)
    BY <1>6 DEF EngineTypeOK, ReflectNothing, fields, provider, Places
<1>7. CASE TableFound(a, h)
    BY <1>7 DEF EngineTypeOK, TableFound, provider, Places
<1>8. CASE ReflectFails(a, h)
    BY <1>8 DEF EngineTypeOK, ReflectFails, fields, provider, Places
<1>9. CASE Inspect(a, h)
    BY <1>9 DEF EngineTypeOK, Inspect, Connects, fields, provider, Places
<1>10. CASE InspectFails(a, h)
    BY <1>10 DEF EngineTypeOK, InspectFails, Connects, fields, provider, Places
<1>11. CASE Mark(a, h)
    BY <1>11 DEF EngineTypeOK, Mark, provider, Places
<1> QED
    BY <1>1, <1>2, <1>3, <1>4, <1>5, <1>6, <1>7, <1>8, <1>9, <1>10, <1>11

\* Its use and its end keep the types.
LEMMA UseTyped ==
    ASSUME EngineTypeOK, NEW a \in Actors, NEW h \in Handles,
           \/ Use(a, h) \/ UseFails(a, h)
           \/ Undo(a, h) \/ UndoRaises(a, h) \/ Forget(a, h)
           \/ CloseSelf(a, h) \/ Close(a, h) \/ Reset(a, h)
    PROVE  EngineTypeOK'
<1> USE NoEngineIsNone, JobsTyped
<1>1. CASE Use(a, h)
    BY <1>1 DEF EngineTypeOK, Use, Connects, fields, provider
<1>2. CASE UseFails(a, h)
    BY <1>2 DEF EngineTypeOK, UseFails, fields, provider
<1>3. CASE Undo(a, h)
    BY <1>3 DEF EngineTypeOK, Undo, Disposes, fields, provider, Places
<1>4. CASE Forget(a, h)
    BY <1>4 DEF EngineTypeOK, Forget, ClearFields, provider
<1>5. CASE CloseEngine(a, h)
    BY <1>5 DEF EngineTypeOK, CloseEngine, Disposes, fields, provider, Places
<1>6. CASE CloseNothing(a, h)
    BY <1>6, NothingAssumption
    DEF EngineTypeOK, CloseNothing, fields, provider, Jobs, Places
<1>7. CASE Reset(a, h)
    BY <1>7 DEF EngineTypeOK, Reset, ClearFields, provider, Jobs, Places
<1>8. CASE UndoRaises(a, h)
    BY <1>8 DEF EngineTypeOK, UndoRaises, Disposes, fields, provider
<1>9. CASE CloseEngineRaises(a, h)
    BY <1>9, NothingAssumption
    DEF EngineTypeOK, CloseEngineRaises, Disposes, fields, provider, Jobs, Places
<1> QED
    BY <1>1, <1>2, <1>3, <1>4, <1>5, <1>6, <1>7, <1>8, <1>9 DEF CloseSelf, Close

\* So does dispose_all.
LEMMA DisposalTyped == EngineTypeOK /\ Disposal => EngineTypeOK'
  BY NoEngineIsNone
     DEF EngineTypeOK, Disposal, DisposeAll, DisposeOne, DisposeFails, Cached, fields

\* Every step preserves the type invariant.
LEMMA TypeStep == EngineTypeOK /\ [EngineNext]_engineVars => EngineTypeOK'
<1> SUFFICES ASSUME EngineTypeOK, [EngineNext]_engineVars PROVE EngineTypeOK'
    OBVIOUS
<1>1. CASE \E a \in Actors, h \in Handles :
               Begin(a, h) \/ Continue(a, h) \/ Close(a, h)
    BY <1>1, InitialiseTyped, UseTyped DEF Continue
<1>2. CASE Disposal
    BY <1>2, DisposalTyped
<1>3. CASE UNCHANGED engineVars
    BY <1>3 DEF EngineTypeOK, engineVars, fields, provider
<1> QED
    BY <1>1, <1>2, <1>3 DEF EngineNext

\* The state of the engines is always of its type. (That an owner always has
\* an engine rests on the assumption that assignments to several fields are
\* one step; see LazyEngine.)
THEOREM EnginesTyped == EngineSpec => []EngineTypeOK
<1>1. EngineInit => EngineTypeOK
    BY OwnershipInit DEF Ownership
<1> QED
    BY <1>1, TypeStep, PTL DEF EngineSpec

-----------------------------------------------------------------------------
(* Who knows which engine. *)

\* A step that touches neither the fields nor the provider leaves it so.
LEMMA OwnershipQuiet ==
    Ownership /\ UNCHANGED <<engine, owning, provider>> /\ EngineTypeOK' => Ownership'
  BY DEF Ownership, OwnedAlone, OthersProvided, CachedApart, provider

\* An engine that a handle creates is its own.
LEMMA OwnershipCreateOwn ==
    ASSUME Ownership, EngineTypeOK', NEW a \in Actors, NEW h \in Handles,
           CreateOwn(a, h)
    PROVE  Ownership'
<1>1. PICK e \in Fresh : /\ engine' = [engine EXCEPT ![h] = e]
                         /\ forgotten' = forgotten \ {e}
    BY DEF CreateOwn
<1>2. /\ owning' = owning \cup {h} /\ cached' = cached /\ doomed' = doomed
    BY DEF CreateOwn
<1>3. engine'[h] = e /\ \A g \in Handles : g # h => engine'[g] = engine[g]
    BY <1>1 DEF Ownership, EngineTypeOK
<1>4. OwnedAlone'
    BY <1>1, <1>2, <1>3, FreshIsNew DEF Ownership, EngineTypeOK, OwnedAlone
<1>5. OthersProvided'
    BY <1>1, <1>2, <1>3, FreshIsNew DEF Ownership, OthersProvided
<1>6. CachedApart'
    BY <1>2 DEF Ownership, CachedApart
<1> QED
    BY <1>4, <1>5, <1>6 DEF Ownership

\* An engine that the provider hands out is no handle's own.
LEMMA OwnershipGetShared ==
    ASSUME Ownership, EngineTypeOK', NEW a \in Actors, NEW h \in Handles,
           GetShared(a, h)
    PROVE  Ownership'
<1>1. PICK e \in Engines : /\ GetEngine(UrlOf[h], e)
                           /\ engine' = [engine EXCEPT ![h] = e]
    BY DEF GetShared
<1>2. owning' = owning \ {h} /\ h \in Provided
    BY DEF GetShared
<1>3. engine'[h] = e /\ \A g \in Handles : g # h => engine'[g] = engine[g]
    BY <1>1 DEF Ownership, EngineTypeOK
<1>4. UrlOf[h] \in Urls /\ \A g \in Handles : UrlOf[g] \in Urls
    BY SetsAssumption
<1>5. CASE cached[UrlOf[h]] # NoEngine
  <2>1. e = cached[UrlOf[h]] /\ UNCHANGED provider
      BY <1>1, <1>5 DEF GetEngine
  <2>2. OwnedAlone'
      BY <1>2, <1>3, <1>4, <2>1 DEF Ownership, EngineTypeOK, OwnedAlone, provider
  <2>3. OthersProvided'
      BY <1>2, <1>3, <2>1 DEF Ownership, OthersProvided, provider
  <2>4. CachedApart'
      BY <2>1 DEF Ownership, CachedApart, provider
  <2> QED
      BY <2>2, <2>3, <2>4 DEF Ownership
<1>6. CASE cached[UrlOf[h]] = NoEngine
  <2>1. /\ e \in Fresh
        /\ cached' = [cached EXCEPT ![UrlOf[h]] = e]
        /\ forgotten' = forgotten \ {e}
        /\ doomed' = doomed
      BY <1>1, <1>6 DEF GetEngine
  <2>2. /\ cached'[UrlOf[h]] = e
        /\ \A u \in Urls : u # UrlOf[h] => cached'[u] = cached[u]
      BY <1>4, <2>1 DEF Ownership, EngineTypeOK
  <2>3. OwnedAlone'
      BY <1>2, <1>3, <2>1, <2>2, FreshIsNew DEF Ownership, EngineTypeOK, OwnedAlone
  <2>4. OthersProvided'
    <3> SUFFICES ASSUME NEW g \in Handles,
                        engine'[g] # NoEngine, g \notin owning'
                 PROVE  /\ g \in Provided
                        /\ \/ engine'[g] \in forgotten'
                           \/ engine'[g] = cached'[UrlOf[g]]
        BY DEF OthersProvided
    <3>1. CASE g = h
        BY <1>2, <1>3, <2>2, <3>1
    <3>2. CASE g # h
      <4>1. engine[g] # NoEngine /\ g \notin owning /\ engine[g] # e
          BY <1>2, <1>3, <2>1, <3>2, FreshIsNew
      <4>2. /\ g \in Provided
            /\ engine[g] \in forgotten \/ engine[g] = cached[UrlOf[g]]
          BY <4>1 DEF Ownership, OthersProvided
      <4> QED
          BY <1>3, <1>4, <1>6, <2>1, <2>2, <3>2, <4>1, <4>2
    <3> QED
        BY <3>1, <3>2
  <2>5. CachedApart'
      BY <1>4, <2>1, <2>2, FreshIsNew DEF Ownership, CachedApart
  <2> QED
      BY <2>3, <2>4, <2>5 DEF Ownership
<1> QED
    BY <1>5, <1>6

\* A handle that gives up its engine leaves the others as they were.
LEMMA OwnershipCleared ==
    ASSUME Ownership, EngineTypeOK', NEW h \in Handles, ClearFields(h),
           UNCHANGED provider
    PROVE  Ownership'
<1>1. /\ engine'[h] = NoEngine
      /\ \A g \in Handles : g # h => engine'[g] = engine[g]
    BY DEF ClearFields, Ownership, EngineTypeOK
<1> QED
    BY <1>1
    DEF Ownership, OwnedAlone, OthersProvided, CachedApart, ClearFields,
        EngineTypeOK, provider

\* dispose_all drops engines that no handle owns.
LEMMA OwnershipDisposal ==
    ASSUME Ownership, EngineTypeOK', Disposal
    PROVE  Ownership'
<1> USE NoEngineIsNone
<1>1. CASE DisposeAll
  <2>1. /\ \A u \in Urls : cached'[u] = NoEngine
        /\ forgotten' = forgotten \cup Cached /\ doomed' = Cached
        /\ engine' = engine /\ owning' = owning
      BY <1>1 DEF DisposeAll, fields
  <2>2. OwnedAlone'
      BY <2>1 DEF Ownership, EngineTypeOK, OwnedAlone
  <2>3. OthersProvided'
      BY <2>1, SetsAssumption DEF Ownership, OthersProvided, Cached
  <2>4. CachedApart'
      BY <2>1 DEF CachedApart, Cached
  <2> QED
      BY <2>2, <2>3, <2>4 DEF Ownership
<1>2. CASE DisposeFails \/ \E e \in doomed : DisposeOne(e)
    BY <1>2
    DEF Ownership, OwnedAlone, OthersProvided, CachedApart, DisposeOne,
        DisposeFails, fields
<1> QED
    BY <1>1, <1>2 DEF Disposal

\* Every step preserves the inductive invariant.
LEMMA OwnershipStep == Ownership /\ [EngineNext]_engineVars => Ownership'
<1> SUFFICES ASSUME Ownership, [EngineNext]_engineVars PROVE Ownership'
    OBVIOUS
<1>0. EngineTypeOK'
    BY TypeStep DEF Ownership
<1>1. ASSUME NEW a \in Actors, NEW h \in Handles,
             Begin(a, h) \/ Continue(a, h) \/ Close(a, h)
      PROVE  Ownership'
  <2>1. CASE CreateOwn(a, h)
      BY <1>0, <2>1, OwnershipCreateOwn
  <2>2. CASE GetShared(a, h)
      BY <1>0, <2>2, OwnershipGetShared
  <2>3. CASE Forget(a, h) \/ Reset(a, h)
      BY <1>0, <2>3, OwnershipCleared DEF Forget, Reset
  <2>4. CASE \/ Begin(a, h) \/ CreateFails(a, h)
             \/ Reflect(a, h) \/ ReflectNothing(a, h)
             \/ TableFound(a, h) \/ ReflectFails(a, h)
             \/ Inspect(a, h) \/ InspectFails(a, h)
             \/ Undo(a, h) \/ UndoRaises(a, h) \/ Mark(a, h)
             \/ Use(a, h) \/ UseFails(a, h) \/ CloseSelf(a, h) \/ Close(a, h)
      BY <1>0, <2>4, OwnershipQuiet
      DEF Begin, CreateFails, Reflect, ReflectNothing, TableFound, ReflectFails,
          Inspect, InspectFails, Undo, UndoRaises, Mark, Use, UseFails, CloseSelf,
          Close, CloseEngine, CloseEngineRaises, CloseNothing, fields, provider
  <2> QED
      BY <1>1, <2>1, <2>2, <2>3, <2>4 DEF Continue
<1>2. CASE Disposal
    BY <1>0, <1>2, OwnershipDisposal
<1>3. CASE UNCHANGED engineVars
    BY <1>0, <1>3, OwnershipQuiet DEF engineVars, fields
<1> QED
    BY <1>1, <1>2, <1>3 DEF EngineNext

\* The ownership of the engines holds in every state.
THEOREM OwnershipAlways == EngineSpec => []Ownership
  BY OwnershipInit, OwnershipStep, PTL DEF EngineSpec

\* Ownership is all that it takes for engines to be shared as they should be.
LEMMA OwnershipShares == Ownership => EnginesShared
<1> SUFFICES ASSUME Ownership, NEW g \in Handles, NEW h \in Handles, g # h,
                    engine[g] # NoEngine, engine[h] # NoEngine,
                    {engine[g], engine[h]} \cap forgotten = {}
             PROVE  engine[g] = engine[h] <=>
                        {g, h} \subseteq Provided /\ UrlOf[g] = UrlOf[h]
    BY DEF EnginesShared
<1>1. CASE g \in owning \/ h \in owning
    BY <1>1 DEF Ownership, OwnedAlone, EngineTypeOK
<1>2. CASE g \notin owning /\ h \notin owning
  <2>1. /\ {g, h} \subseteq Provided
        /\ engine[g] = cached[UrlOf[g]] /\ engine[h] = cached[UrlOf[h]]
      BY <1>2 DEF Ownership, OthersProvided
  <2> QED
      BY <2>1, SetsAssumption DEF Ownership, CachedApart
<1> QED
    BY <1>1, <1>2

\* Handles share an engine exactly if the provider gave both of them the one
\* for their database, in every interleaving of their first uses, failures,
\* close() and dispose_all().
THEOREM EnginesSharedAlways == EngineSpec => []EnginesShared
  BY OwnershipAlways, OwnershipShares, PTL

-----------------------------------------------------------------------------
(* Who disposes an engine. *)

\* Closing a handle, or losing it in a failed first use, disposes no engine
\* that the provider hands out; dispose_all has dropped what it disposes.
THEOREM SharedEngineSurvivesAlways == EngineSpec => SharedEngineSurvives
<1> DEFINE Survives ==
        \A u \in Urls : cached[u] \in open =>
            cached[u] \in open' \/ cached'[u] # cached[u]
<1>1. Ownership /\ [EngineNext]_engineVars => Survives
  <2> SUFFICES ASSUME Ownership, [EngineNext]_engineVars PROVE Survives
      OBVIOUS
  <2>1. ASSUME NEW h \in Handles, Disposes(h) PROVE Survives
      BY <2>1 DEF Disposes, Ownership, OwnedAlone
  <2>2. ASSUME open \subseteq open' PROVE Survives
      BY <2>2
  <2>3. ASSUME NEW a \in Actors, NEW h \in Handles,
               Begin(a, h) \/ Continue(a, h) \/ Close(a, h)
        PROVE  (\E g \in Handles : Disposes(g)) \/ open \subseteq open'
      BY <2>3
      DEF Continue, Begin, CreateOwn, GetShared, CreateFails, Reflect,
          ReflectNothing, TableFound, ReflectFails, Inspect, InspectFails, Undo,
          UndoRaises, Forget, Mark, Use, UseFails, CloseSelf, Close, CloseEngine,
          CloseEngineRaises, CloseNothing, Reset, Connects
  <2>4. ASSUME NEW e \in doomed, DisposeOne(e) PROVE Survives
      BY <2>4 DEF DisposeOne, Ownership, CachedApart
  <2>5. CASE DisposeAll \/ DisposeFails \/ UNCHANGED engineVars
      BY <2>2, <2>5 DEF DisposeAll, DisposeFails, engineVars
  <2> QED
      BY <2>1, <2>2, <2>3, <2>4, <2>5 DEF EngineNext, Disposal
<1> QED
    BY <1>1, OwnershipAlways, PTL DEF EngineSpec, SharedEngineSurvives

-----------------------------------------------------------------------------
(* How a step moves the threads. *)

\* Threads that rest are on no handle, and only they.
JobsShaped == \A a \in Actors : Idle(a) <=> job[a].on = Nothing

\* A thread that begins a call or a close() was at rest, and is on the handle.
LEMMA BeginMoves ==
    ASSUME EngineTypeOK, NEW a \in Actors, NEW h \in Handles,
           Begin(a, h) \/ (Idle(a) /\ CloseEngine(a, h))
    PROVE  /\ Idle(a) /\ job'[a].on = h /\ job'[a].at # "idle"
           /\ \A b \in Actors : b # a => job'[b] = job[b]
  BY DEF EngineTypeOK, Begin, CloseEngine, Go, Jobs

\* A close() whose dispose() raises is over at once for the code that called it.
LEMMA RaiseMoves ==
    ASSUME EngineTypeOK, NEW a \in Actors, NEW h \in Handles,
           Idle(a) /\ CloseEngineRaises(a, h)
    PROVE  /\ \/ job'[a].on = h /\ job'[a].at = "reset"
              \/ job'[a].on = Nothing /\ job'[a].at = "idle"
           /\ \A b \in Actors : b # a => job'[b] = job[b]
  BY DEF EngineTypeOK, CloseEngineRaises, Jobs

\* A thread in a call stays on the handle of the call, or comes to rest.
LEMMA ContinueMoves ==
    ASSUME EngineTypeOK, NEW a \in Actors, NEW h \in Handles, Continue(a, h)
    PROVE  /\ job[a].on = h /\ job[a].at # "idle"
           /\ \/ job'[a].on = h /\ job'[a].at # "idle"
              \/ job'[a].on = Nothing /\ job'[a].at = "idle"
           /\ \A b \in Actors : b # a => job'[b] = job[b]
<1> USE DEF EngineTypeOK, Doing, Go, Err, Ends
<1>1. CASE CreateOwn(a, h) \/ GetShared(a, h) \/ CreateFails(a, h)
    BY <1>1 DEF CreateOwn, GetShared, CreateFails, AfterCreate
<1>2. CASE Reflect(a, h) \/ ReflectNothing(a, h) \/ TableFound(a, h) \/ ReflectFails(a, h)
    BY <1>2 DEF Reflect, ReflectNothing, TableFound, ReflectFails
<1>3. CASE \/ Inspect(a, h) \/ InspectFails(a, h)
           \/ Undo(a, h) \/ UndoRaises(a, h) \/ Forget(a, h) \/ Mark(a, h)
    BY <1>3 DEF Inspect, InspectFails, Undo, UndoRaises, Forget, Mark
<1>4. CASE Use(a, h) \/ UseFails(a, h)
    BY <1>4 DEF Use, UseFails
<1>5. CASE CloseSelf(a, h) \/ Reset(a, h)
    BY <1>5 DEF CloseSelf, CloseEngine, CloseEngineRaises, CloseNothing, Reset
<1> QED
    BY <1>1, <1>2, <1>3, <1>4, <1>5 DEF Continue

-----------------------------------------------------------------------------
(* The fields of a handle that one thread at most is on. *)

\* A step that a thread makes on a handle.
HandleStep(a, h) == Begin(a, h) \/ Continue(a, h) \/ Close(a, h)

\* No other thread is on the handle.
Alone(a, h) == \A b \in Actors : b # a => job[b].on # h

FirstUse == {"create", "reflect", "answer", "inspect", "mark", "undo", "forget"}

\* Until a handle is initialised, its only thread is at its first use, which
\* has given it what the steps so far have; afterwards it has all it needs.
\* Given up, its own engine has been disposed, also one that a dispose() which
\* raises has left in its field.
Sound(a, h) ==
    /\ h \in initialized => engine[h] # NoEngine /\ (h \in Tabled => h \in reflected)
    /\ engine[h] # NoEngine =>
           \/ h \in initialized
           \/ job[a].on = h /\ job[a].at \in FirstUse \ {"create"}
           \/ h \in owning /\ engine[h] \notin open
    /\ h \in SelfClosing /\ engine[h] # NoEngine => job[a].on = h
    /\ job[a].on = h =>
           /\ job[a].at \in FirstUse => h \notin initialized
           /\ job[a].at = "use" => h \in initialized
           /\ job[a].at \in {"reflect", "answer", "inspect", "mark"} =>
                  engine[h] # NoEngine
           /\ job[a].at \in {"inspect", "mark"} /\ h \in Tabled => h \in reflected
           /\ job[a].at \in {"forget", "reset"} /\ h \in owning =>
                  engine[h] \notin open

\* A step on one handle leaves the others, and the other threads, alone.
LEMMA HandleStepTouches ==
    ASSUME EngineTypeOK, JobsShaped, NEW a \in Actors, NEW h \in Handles,
           HandleStep(a, h)
    PROVE  /\ \A g \in Handles : g # h =>
                  /\ engine'[g] = engine[g]
                  /\ g \in owning' <=> g \in owning
                  /\ g \in reflected' <=> g \in reflected
                  /\ g \in initialized' <=> g \in initialized
           /\ \A b \in Actors : b # a => job'[b] = job[b]
           /\ job[a].on \in {h, Nothing} /\ job'[a].on \in {h, Nothing}
           /\ open' \subseteq open \cup {engine[h]}
<1>1. /\ \A b \in Actors : b # a => job'[b] = job[b]
      /\ job[a].on \in {h, Nothing} /\ job'[a].on \in {h, Nothing}
    BY BeginMoves, RaiseMoves, ContinueMoves DEF HandleStep, Close, JobsShaped
<1> USE DEF fields, EngineTypeOK
<1>2. CASE CreateOwn(a, h) \/ GetShared(a, h)
    BY <1>1, <1>2 DEF CreateOwn, GetShared
<1>3. CASE \/ Begin(a, h) \/ CreateFails(a, h) \/ Reflect(a, h) \/ ReflectNothing(a, h)
           \/ ReflectFails(a, h) \/ Inspect(a, h) \/ InspectFails(a, h)
           \/ Undo(a, h) \/ UndoRaises(a, h) \/ Use(a, h) \/ UseFails(a, h)
           \/ CloseSelf(a, h) \/ Close(a, h)
    BY <1>1, <1>3
    DEF Begin, CreateFails, Reflect, ReflectNothing, ReflectFails, Inspect,
        InspectFails, Undo, UndoRaises, Use, UseFails, CloseSelf, Close,
        CloseEngine, CloseEngineRaises, CloseNothing, Connects, Disposes
<1>4. CASE TableFound(a, h) \/ Mark(a, h)
    BY <1>1, <1>4 DEF TableFound, Mark
<1>5. CASE Forget(a, h) \/ Reset(a, h)
    BY <1>1, <1>5 DEF Forget, Reset, ClearFields
<1> QED
    BY <1>1, <1>2, <1>3, <1>4, <1>5 DEF HandleStep, Continue

\* A step of the only thread on a handle keeps the handle sound.
LEMMA SoundMoves ==
    ASSUME EngineTypeOK, JobsShaped, NEW a \in Actors, NEW h \in Handles,
           Sound(a, h), HandleStep(a, h)
    PROVE  Sound(a, h)'
<1> USE SetsAssumption, NothingAssumption, NoEngineIsNone
    DEF Sound, FirstUse, EngineTypeOK, Jobs, fields
<1>1. CASE Begin(a, h)
    BY <1>1 DEF Begin, JobsShaped, Idle
<1>2. CASE CreateOwn(a, h)
    BY <1>2, FreshIsNew DEF CreateOwn, Doing, Go, AfterCreate
<1>3. CASE GetShared(a, h)
    BY <1>3 DEF GetShared, Doing, Go, AfterCreate
<1>4. CASE CreateFails(a, h) \/ UseFails(a, h)
    BY <1>4 DEF CreateFails, UseFails, Doing, Ends
<1>5. CASE Reflect(a, h) \/ ReflectNothing(a, h)
    BY <1>5 DEF Reflect, ReflectNothing, Doing, Go, Err
<1>6. CASE TableFound(a, h) \/ ReflectFails(a, h)
    BY <1>6 DEF TableFound, ReflectFails, Doing, Go, Err
<1>7. CASE Inspect(a, h) \/ InspectFails(a, h)
    BY <1>7 DEF Inspect, InspectFails, Doing, Go, Err
<1>8. CASE Undo(a, h) \/ Mark(a, h)
    BY <1>8 DEF Undo, Mark, Doing, Go, Disposes
<1>9. CASE Forget(a, h)
    BY <1>9 DEF Forget, Doing, Ends, ClearFields
<1>10. CASE Use(a, h)
    BY <1>10 DEF Use, Doing, Ends, Connects
<1>11. CASE CloseSelf(a, h) \/ Close(a, h)
  <2>1. Doing(a, "close", h) \/ Idle(a)
      BY <1>11 DEF CloseSelf, Close
  <2>2. CASE CloseEngine(a, h)
      BY <2>1, <2>2 DEF Doing, Idle, CloseEngine, Go, Disposes, JobsShaped
  <2>3. CASE CloseEngineRaises(a, h)
      BY <2>1, <2>3 DEF Doing, Idle, CloseEngineRaises, Disposes, JobsShaped
  <2>4. CASE CloseSelf(a, h) /\ CloseNothing(a, h)
      BY <2>4 DEF CloseSelf, Doing, CloseNothing
  <2> QED
      BY <1>11, <2>2, <2>3, <2>4 DEF CloseSelf, Close
<1>12. CASE Reset(a, h)
    BY <1>12 DEF Reset, Doing, ClearFields
<1>13. CASE UndoRaises(a, h)
    BY <1>13 DEF UndoRaises, Doing, Ends, Disposes
<1> QED
    BY <1>1, <1>2, <1>3, <1>4, <1>5, <1>6, <1>7, <1>8, <1>9, <1>10, <1>11, <1>12,
       <1>13
    DEF HandleStep, Continue

\* A step on one handle leaves the other handles sound.
LEMMA SoundElsewhere ==
    ASSUME Ownership, EngineTypeOK', JobsShaped, NEW a \in Actors, NEW h \in Handles,
           HandleStep(a, h), NEW g \in Handles, g # h, NEW c \in Actors, Sound(c, g)
    PROVE  Sound(c, g)'
<1>1. /\ engine'[g] = engine[g]
      /\ g \in owning' <=> g \in owning
      /\ g \in reflected' <=> g \in reflected
      /\ g \in initialized' <=> g \in initialized
      /\ \A b \in Actors : b # a => job'[b] = job[b]
      /\ job[a].on \in {h, Nothing} /\ job'[a].on \in {h, Nothing}
      /\ open' \subseteq open \cup {engine[h]}
    BY HandleStepTouches DEF Ownership
<1>2. g \in owning => engine[g] # engine[h]
    BY DEF Ownership, OwnedAlone
<1>3. g # Nothing
    BY NothingAssumption
<1> QED
    BY <1>1, <1>2, <1>3 DEF Sound

-----------------------------------------------------------------------------
(* What is lost when two threads first use a handle at once is the only    *)
(* thing that is.                                                          *)

\* No two threads are on one handle.
OneThreadPerHandle ==
    \A a, b \in Actors : a # b /\ job[a].on = job[b].on => Idle(a)

\* Every handle is sound to a thread that is alone on it.
SoundIfAlone ==
    /\ Ownership /\ JobsShaped
    /\ \A a \in Actors, h \in Handles : Alone(a, h) => Sound(a, h)
    /\ initialized # {} => Actors # {}

\* A step after which no two threads are on one handle keeps the handles sound.
LEMMA SoundIfAloneStep ==
    SoundIfAlone /\ OneThreadPerHandle /\ OneThreadPerHandle' /\ [EngineNext]_engineVars
        => SoundIfAlone'
<1> SUFFICES ASSUME SoundIfAlone, OneThreadPerHandle, OneThreadPerHandle',
                    [EngineNext]_engineVars
             PROVE  SoundIfAlone'
    OBVIOUS
<1>1. Ownership' /\ EngineTypeOK /\ EngineTypeOK'
    BY OwnershipStep DEF SoundIfAlone, Ownership
<1>2. ASSUME NEW a \in Actors, NEW h \in Handles, HandleStep(a, h),
             job[a].on = h \/ job'[a].on = h
      PROVE  SoundIfAlone'
  <2>1. /\ \A b \in Actors : b # a => job'[b] = job[b]
        /\ job[a].on \in {h, Nothing} /\ job'[a].on \in {h, Nothing}
      BY <1>1, <1>2, HandleStepTouches DEF SoundIfAlone
  <2>2. job'[a].on = Nothing <=> job'[a].at = "idle"
    <3>1. CASE Begin(a, h) \/ Continue(a, h)
        BY <1>1, <3>1, BeginMoves, ContinueMoves, NothingAssumption
    <3>2. CASE Close(a, h)
        BY <1>1, <3>2, BeginMoves, RaiseMoves, NothingAssumption DEF Close
    <3> QED
        BY <1>2, <3>1, <3>2 DEF HandleStep
  <2>3. JobsShaped'
      BY <2>1, <2>2 DEF SoundIfAlone, JobsShaped, Idle
  <2>4. Alone(a, h)
      BY <1>2, <2>1, <2>3, NothingAssumption
      DEF SoundIfAlone, JobsShaped, Alone, OneThreadPerHandle
  <2>5. Sound(a, h)'
      BY <1>1, <1>2, <2>4, SoundMoves DEF SoundIfAlone
  <2>6. ASSUME NEW c \in Actors, NEW g \in Handles, Alone(c, g)' PROVE Sound(c, g)'
    <3>1. CASE g = h /\ c = a
        BY <2>5, <3>1
    <3>2. CASE g = h /\ c # a
      <4>1. job'[a].on # h /\ job'[c].on # h
          BY <2>1, <2>4, <2>6, <3>2 DEF Alone
      <4> QED
          BY <2>5, <3>2, <4>1 DEF Sound
    <3>3. CASE g # h
      <4>1. Alone(c, g)
          BY <2>1, <2>6, <3>3, NothingAssumption DEF Alone
      <4> QED
          BY <1>1, <1>2, <3>3, <4>1, SoundElsewhere DEF SoundIfAlone
    <3> QED
        BY <3>1, <3>2, <3>3
  <2> QED
      BY <1>1, <2>3, <2>6 DEF SoundIfAlone
<1>3. ASSUME NEW a \in Actors, NEW h \in Handles, HandleStep(a, h),
             job[a].on # h, job'[a].on # h
      PROVE  SoundIfAlone'
  <2>1. Idle(a) /\ CloseEngineRaises(a, h)
      BY <1>1, <1>3, BeginMoves, ContinueMoves DEF HandleStep, Close
  <2>2. UNCHANGED fields /\ open' \subseteq open
      BY <2>1 DEF CloseEngineRaises, Disposes
  <2>3. \A b \in Actors : job'[b].on = job[b].on /\ job'[b].at = job[b].at
      BY <1>1, <1>3, <2>1, RaiseMoves DEF SoundIfAlone, JobsShaped, Idle
  <2> QED
      BY <1>1, <2>2, <2>3 DEF SoundIfAlone, JobsShaped, Idle, Alone, Sound, fields
<1>4. CASE Disposal
  <2>1. UNCHANGED <<fields, job>> /\ open' \subseteq open
      BY <1>4 DEF Disposal, DisposeAll, DisposeOne, DisposeFails
  <2> QED
      BY <1>1, <2>1 DEF SoundIfAlone, JobsShaped, Idle, Alone, Sound, fields
<1>5. CASE UNCHANGED engineVars
    BY <1>1, <1>5
    DEF SoundIfAlone, JobsShaped, Idle, Alone, Sound, engineVars, fields
<1> QED
    BY <1>2, <1>3, <1>4, <1>5 DEF EngineNext, HandleStep

\* As long as no two threads are on one handle at once, a handle that counts as
\* initialised has the engine and the table that its calls assert, whatever
\* fails, is closed or is disposed, also if dispose() raises, and whatever
\* threads do on other handles: it takes two threads on one handle to break it.
THEOREM SerialUseIsSafe ==
    EngineSpec /\ []OneThreadPerHandle => []InitializedIsUsable
<1>1. EngineInit => SoundIfAlone
  <2> SUFFICES ASSUME EngineInit PROVE SoundIfAlone
      OBVIOUS
  <2>1. Ownership
      BY OwnershipInit
  <2> QED
      BY <2>1, NothingAssumption
      DEF SoundIfAlone, JobsShaped, Idle, Alone, Sound, EngineInit, Rest
<1>2. SoundIfAlone /\ OneThreadPerHandle => InitializedIsUsable
  <2> SUFFICES ASSUME SoundIfAlone, OneThreadPerHandle, NEW h \in initialized
               PROVE  engine[h] # NoEngine /\ (h \in Tabled => h \in reflected)
      BY DEF InitializedIsUsable
  <2>1. h \in Handles
      BY DEF SoundIfAlone, Ownership, EngineTypeOK
  <2>2. ASSUME NEW b \in Actors, job[b].on = h PROVE Alone(b, h)
      BY <2>1, <2>2, NothingAssumption
      DEF SoundIfAlone, JobsShaped, OneThreadPerHandle, Alone
  <2>3. \E a \in Actors : Alone(a, h)
      BY <2>2 DEF SoundIfAlone, Alone
  <2> QED
      BY <2>1, <2>3 DEF SoundIfAlone, Sound
<1> QED
    BY <1>1, <1>2, SoundIfAloneStep, PTL DEF EngineSpec
=============================================================================
