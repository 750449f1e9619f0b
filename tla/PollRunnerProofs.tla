--------------------------- MODULE PollRunnerProofs ---------------------------
(***************************************************************************)
(* Proofs about PollRunner, for any number of instances, rows, page sizes  *)
(* and batches per tick; and about the order of CursorOrder, for any       *)
(* number of columns.                                                      *)
(***************************************************************************)
EXTENDS PollRunner, CursorOrder, FiniteSetTheorems, TLAPS

-----------------------------------------------------------------------------
(* The order of cursors. *)

\* Cursors are pairs of numbers, and no row is at the initial one.
LEMMA LessTypes ==
    /\ NoCursor \in Cursors
    /\ Keys \subseteq Cursors
    /\ \A c \in Cursors : c.ts \in Nat /\ c.pk \in Nat
    /\ \A k \in Keys : Less(NoCursor, k)
  BY SizesAssumption DEF Cursors, Keys, NoCursor, Less

\* The order is total and transitive, in the forms the proofs use.
LEMMA LessOrder ==
    ASSUME NEW a \in Cursors, NEW b \in Cursors, NEW c \in Cursors
    PROVE  /\ Upto(a, a)
           /\ Less(a, b) => Upto(a, b) /\ ~Upto(b, a)
           /\ ~Upto(a, b) => Less(b, a)
           /\ Upto(a, b) /\ Upto(b, c) => Upto(a, c)
           /\ Upto(a, b) /\ Less(b, c) => Less(a, c)
           /\ Less(a, b) /\ Upto(b, c) => Less(a, c)
  BY LessTypes DEF Less, Upto

-----------------------------------------------------------------------------
(* Type correctness. *)

\* What the writes of a tick make of the blob.
LEMMA NewContents ==
    ASSUME TypeOK, NEW i \in Instances
    PROVE  /\ store \in Stores /\ late \in SUBSET Contents
           /\ \A o \in Instances \cup {Nobody}, phase \in Phases :
                 /\ Taken(o, phase) \in Stores
                 /\ Taken(o, phase).checkpoint = store.checkpoint
                 /\ Taken(o, phase).owner = o
                 /\ Taken(o, phase).phase = phase
           /\ Released \in Stores
           /\ Released.checkpoint = store.checkpoint
           /\ Released.owner = store.owner
           /\ Committed(i) \in Stores
           /\ Committed(i).checkpoint = last[i]
           /\ Committed(i).owner = store.owner
           /\ Committed(i).phase = store.phase
           /\ \A s \in Stores : Content(s) \in Contents
           /\ \A s : /\ Content(s).checkpoint = s.checkpoint
                    /\ Content(s).owner = s.owner
<1>1. store \in Stores /\ late \in SUBSET Contents /\ last[i] \in Cursors
  BY DEF TypeOK
<1>2. \A o \in Instances \cup {Nobody}, phase \in Phases :
         /\ Taken(o, phase) \in Stores
         /\ Taken(o, phase).checkpoint = store.checkpoint
         /\ Taken(o, phase).owner = o
         /\ Taken(o, phase).phase = phase
  BY <1>1 DEF Taken, Stores
<1> QED
  BY <1>1, <1>2 DEF Released, Committed, Content, Stores, Contents, Phases

\* The end of a tick preserves the type invariant.
LEMMA EndTickType ==
    ASSUME TypeOK, NEW i \in Instances, NEW s \in Stores, NEW l \in SUBSET Contents,
           EndTick(i, s, l)
    PROVE  TypeOK'
<1>1. /\ \A d \in Stores : Disown(d, i) \in Stores
      /\ \A d \in Contents : Disown(d, i) \in Contents
  BY DEF Disown, Stores, Contents
<1>2. store' \in Stores /\ late' \subseteq Contents
  BY <1>1 DEF EndTick
<1> QED
  BY <1>2, LessTypes, SizesAssumption DEF TypeOK, EndTick, source

\* Every step of the poller preserves the type invariant.
LEMMA TypeStep == TypeOK /\ [Next]_vars => TypeOK'
<1> SUFFICES ASSUME TypeOK, [Next]_vars PROVE TypeOK'
  OBVIOUS
<1> USE DEF TypeOK
<1>1. ASSUME NEW k \in Keys, Insert(k) PROVE TypeOK'
  BY <1>1, LessTypes DEF Insert, Newest, blob, tick
<1>2. ASSUME NEW k \in Keys, NEW r \in rows, Update(r, k) PROVE TypeOK'
  BY <1>2, LessTypes DEF Update, Newest, blob, tick
<1>3. CASE Elapse
  BY <1>3 DEF Elapse, Stores, Phases, source, tick
<1>4. ASSUME NEW s \in late, Land(s) PROVE TypeOK'
  BY <1>4 DEF Land, Put, Stores, Contents, source, tick
<1>5. ASSUME NEW i \in Instances, Run(i) PROVE TypeOK'
  <2>1. store \in Stores /\ late \in SUBSET Contents
    OBVIOUS
  <2>2. /\ Committed(i) \in Stores /\ Released \in Stores
        /\ \A s \in Stores : Content(s) \in Contents
        /\ \A o \in Instances \cup {Nobody}, phase \in Phases :
              Taken(o, phase) \in Stores
    BY NewContents
  <2>3. CASE AcquireOk(i)
    <3>1. store' \in Stores /\ late' = {} /\ pc' = [pc EXCEPT ![i] = "load"]
      BY <2>2, <2>3 DEF AcquireOk, Put, GoTo
    <3> QED
      BY <2>3, <3>1 DEF AcquireOk, source, tick
  <2>4. CASE AcquireFails(i)
    <3>1. store' \in Stores /\ late' \subseteq Contents
      BY <2>1, <2>2, <2>4 DEF AcquireFails, PutUnsure, Put, blob
    <3> QED
      BY <2>4, <3>1 DEF AcquireFails, source, tick
  <2>5. CASE Load(i)
    BY <2>1, <2>5 DEF Load, GoTo, source, blob, Stores
  <2>6. ASSUME NEW place, Fail(i, place) PROVE TypeOK'
    BY <2>6 DEF Fail, GoTo, source, blob, tick
  <2>7. CASE FetchBatch(i)
    <3>1. PICK b \in SUBSET Ahead(cursor[i]) : \E l \in b :
             /\ batch' = [batch EXCEPT ![i] = b]
             /\ last' = [last EXCEPT ![i] = l]
      BY <2>7 DEF FetchBatch
    <3>2. PICK l \in b : last' = [last EXCEPT ![i] = l]
      BY <3>1
    <3>3. b \in SUBSET Keys /\ l \in Cursors
      BY <3>1, <3>2, LessTypes DEF Ahead
    <3> QED
      BY <2>7, <3>1, <3>2, <3>3 DEF FetchBatch, GoTo, source, blob
  <2>8. CASE LoopEnds(i)
    BY <2>8 DEF LoopEnds, GoTo, source, blob, tick
  <2>9. CASE HandlerOk(i)
    BY <2>9 DEF HandlerOk, GoTo, source, blob, tick
  <2>10. CASE CommitVerify(i)
    BY <2>10 DEF CommitVerify, GoTo, source, blob, tick
  <2>11. CASE CommitOk(i)
    BY <2>2, <2>11, SizesAssumption DEF CommitOk, Put, GoTo, source
  <2>12. CASE CommitUnsure(i)
    BY <2>2, <2>12 DEF CommitUnsure, PutUnsure, Put, GoTo, source, blob, tick
  <2>13. CASE ReleaseOk(i)
    BY <2>2, <2>13, EndTickType DEF ReleaseOk
  <2>14. CASE ReleaseFails(i)
    BY <2>1, <2>2, <2>14, EndTickType DEF ReleaseFails
  <2>15. CASE Crash(i)
    BY <2>1, <2>2, <2>15, EndTickType DEF Crash
  <2> QED
    BY <1>5, <2>3, <2>4, <2>5, <2>6, <2>7, <2>8, <2>9, <2>10, <2>11, <2>12,
       <2>13, <2>14, <2>15
       DEF Run, HandlerFails, CommitLost, CommitConflict
<1>6. CASE UNCHANGED vars
  BY <1>6 DEF vars, source, blob, tick
<1> QED
  BY <1>1, <1>2, <1>3, <1>4, <1>5, <1>6 DEF Next, Arrive

\* The poller's state always has its type.
THEOREM TypeCorrect == Spec => []TypeOK
<1>1. Init => TypeOK
  BY LessTypes, SizesAssumption DEF Init, TypeOK, Stores, Phases
<1> QED
  BY <1>1, TypeStep, PTL DEF Spec

-----------------------------------------------------------------------------
(* At least once. NoLoss is not inductive: what makes a checkpoint safe to *)
(* store was established when the handler returned, and must survive until *)
(* the write lands, while rows keep arriving.                              *)

\* Every row at or below c has been handled, and no later row will be.
Settled(c) ==
    /\ Upto(c, newest)
    /\ \A r \in rows : Upto(r, c) => r \in handled

\* Whatever may become the checkpoint is settled: the stored and the delayed
\* ones, the cursor a tick works from, and the page's last row once its
\* handler has returned. Before that, the page has every row up to its last.
SettledInv ==
    /\ \A r \in rows : Upto(r, newest)
    /\ Settled(store.checkpoint)
    /\ \A s \in late : Settled(s.checkpoint)
    /\ \A i \in Instances :
          /\ Settled(cursor[i])
          /\ pc[i] = "handle" =>
                /\ Upto(last[i], newest)
                /\ \A r \in rows :
                      Less(cursor[i], r) /\ Upto(r, last[i]) => r \in batch[i]
          /\ pc[i] \in {"commit", "write"} => Settled(last[i])

\* A cursor stays settled while the table stays as it is.
LEMMA SettledKept ==
    ASSUME rows' = rows, newest' = newest, handled \subseteq handled',
           NEW c, Settled(c)
    PROVE  /\ Upto(c, newest')
           /\ \A r \in rows' : Upto(r, c) => r \in handled'
  BY DEF Settled

\* A cursor stays settled when a row gets a key beyond all others.
LEMMA SettledArrival ==
    ASSUME TypeOK, NEW k \in Keys, Less(newest, k), newest' = k,
           rows' \subseteq rows \cup {k}, handled' = handled,
           NEW c \in Cursors, Settled(c)
    PROVE  /\ Upto(c, newest')
           /\ \A r \in rows' : Upto(r, c) => r \in handled'
<1>1. newest \in Cursors /\ k \in Cursors
  BY LessTypes DEF TypeOK
<1>2. Upto(c, newest)
  BY DEF Settled
<1>3. Less(c, k)
  BY <1>1, <1>2, LessOrder
<1>4. Upto(c, k) /\ ~Upto(k, c)
  BY <1>1, <1>3, LessOrder
<1> QED
  BY <1>4 DEF Settled

\* Nothing is at or below the cursor of a tick that has not loaded one.
LEMMA NoCursorSettled ==
    ASSUME TypeOK
    PROVE  Settled(NoCursor)
<1>1. \A r \in rows : ~Upto(r, NoCursor)
  BY LessTypes DEF TypeOK, Upto
<1>2. Upto(NoCursor, newest)
  BY LessTypes DEF TypeOK, Upto, Less, NoCursor
<1> QED
  BY <1>1, <1>2 DEF Settled

\* An arrival beyond all other keys preserves SettledInv.
LEMMA SettledOnArrival ==
    ASSUME TypeOK, SettledInv, NEW k \in Keys, Less(newest, k), newest' = k,
           rows' \subseteq rows \cup {k},
           UNCHANGED <<handled, blob, pc, tick>>
    PROVE  SettledInv'
<1> USE DEF SettledInv
<1>1. UNCHANGED <<handled, store, late, pc, cursor, batch, last>>
  BY DEF blob, tick
<1>2. newest \in Cursors /\ k \in Cursors /\ Keys \subseteq Cursors
  BY LessTypes DEF TypeOK
<1>3. /\ store.checkpoint \in Cursors
      /\ \A s \in late : s.checkpoint \in Cursors
      /\ \A i \in Instances : cursor[i] \in Cursors /\ last[i] \in Cursors
  BY DEF TypeOK, Stores, Contents
<1>4. \A c \in Cursors : Settled(c) => Settled(c)'
  BY <1>1, SettledArrival DEF Settled
<1>5. \A c \in Cursors : Upto(c, newest) => Upto(c, k) /\ ~Upto(k, c)
  BY <1>2, LessOrder
<1>6. Upto(k, k)
  BY <1>2, LessOrder
<1>7. \A r \in rows' : Upto(r, newest')
  BY <1>2, <1>5, <1>6 DEF TypeOK
<1>8. Settled(store.checkpoint)' /\ \A s \in late' : Settled(s.checkpoint)'
  BY <1>1, <1>3, <1>4 DEF Settled
<1>9. ASSUME NEW i \in Instances
      PROVE  /\ Settled(cursor[i])'
             /\ pc'[i] = "handle" =>
                   /\ Upto(last'[i], newest')
                   /\ \A r \in rows' :
                         Less(cursor'[i], r) /\ Upto(r, last'[i]) => r \in batch'[i]
             /\ pc'[i] \in {"commit", "write"} => Settled(last[i])'
  <2>1. Settled(cursor[i])'
    BY <1>1, <1>3, <1>4 DEF Settled
  <2>2. pc'[i] \in {"commit", "write"} => Settled(last[i])'
    BY <1>1, <1>3, <1>4 DEF Settled
  <2>3. ASSUME pc'[i] = "handle"
        PROVE  /\ Upto(last'[i], newest')
               /\ \A r \in rows' :
                     Less(cursor'[i], r) /\ Upto(r, last'[i]) => r \in batch'[i]
    <3>1. Upto(last[i], k) /\ ~Upto(k, last[i])
      BY <1>1, <1>3, <1>5, <2>3
    <3> QED
      BY <1>1, <2>3, <3>1
  <2> QED
    BY <2>1, <2>2, <2>3
<1> QED
  BY <1>7, <1>8, <1>9

\* The end of a tick preserves SettledInv, whatever settled content the blob
\* and the delayed writes are left with.
LEMMA SettledOnEndTick ==
    ASSUME TypeOK, SettledInv, NEW i \in Instances,
           NEW s \in Stores, Settled(s.checkpoint),
           NEW l \in SUBSET Contents, \A d \in l : Settled(d.checkpoint),
           EndTick(i, s, l)
    PROVE  SettledInv'
<1> USE DEF SettledInv
<1>1. /\ rows' = rows /\ newest' = newest /\ handled' = handled
      /\ store' = Disown(s, i)
      /\ late' = {Disown(d, i) : d \in l}
      /\ pc' = [pc EXCEPT ![i] = "idle"]
      /\ cursor' = [cursor EXCEPT ![i] = NoCursor]
      /\ batch' = [batch EXCEPT ![i] = {}]
      /\ last' = [last EXCEPT ![i] = NoCursor]
  BY DEF EndTick, source
<1>2. \A d \in Stores \cup Contents : Disown(d, i).checkpoint = d.checkpoint
  BY DEF Disown, Stores, Contents
<1>3. Settled(store.checkpoint)' /\ \A d \in late' : Settled(d.checkpoint)'
  BY <1>1, <1>2, SettledKept DEF Settled
<1>4. ASSUME NEW j \in Instances
      PROVE  /\ Settled(cursor[j])'
             /\ pc'[j] = "handle" =>
                   /\ Upto(last'[j], newest')
                   /\ \A r \in rows' :
                         Less(cursor'[j], r) /\ Upto(r, last'[j]) => r \in batch'[j]
             /\ pc'[j] \in {"commit", "write"} => Settled(last[j])'
  <2>1. CASE j = i
    <3>1. cursor'[j] = NoCursor /\ pc'[j] = "idle"
      BY <1>1, <2>1 DEF TypeOK
    <3>2. Settled(cursor[j])'
      BY <1>1, <3>1, NoCursorSettled DEF Settled
    <3> QED
      BY <3>1, <3>2
  <2>2. CASE j # i
    <3>1. /\ cursor'[j] = cursor[j] /\ pc'[j] = pc[j]
          /\ last'[j] = last[j] /\ batch'[j] = batch[j]
      BY <1>1, <2>2 DEF TypeOK
    <3> QED
      BY <1>1, <3>1 DEF Settled
  <2> QED
    BY <2>1, <2>2
<1>5. \A r \in rows' : Upto(r, newest')
  BY <1>1
<1> QED
  BY <1>3, <1>4, <1>5

\* Every step preserves SettledInv, provided that no row gets a key below
\* one that a row has had.
LEMMA SettledStep ==
    ASSUME TypeOK, SettledInv, [Next]_vars, TiesArrive = FALSE
    PROVE  SettledInv'
<1> USE DEF SettledInv
<1>1. ASSUME NEW k \in Keys, Insert(k) PROVE SettledInv'
  <2>1. Less(newest, k) /\ newest' = k
    BY <1>1 DEF Insert, MayArrive, Newest
  <2> QED
    BY <1>1, <2>1, SettledOnArrival DEF Insert
<1>2. ASSUME NEW k \in Keys, NEW r \in rows, Update(r, k) PROVE SettledInv'
  <2>1. Less(newest, k) /\ newest' = k
    BY <1>2 DEF Update, MayArrive, Newest
  <2> QED
    BY <1>2, <2>1, SettledOnArrival DEF Update
<1>3. CASE Elapse
  <2>1. store'.checkpoint = store.checkpoint
    BY <1>3 DEF Elapse, TypeOK, Stores
  <2> QED
    BY <1>3, <2>1 DEF Elapse, source, tick, Settled
<1>4. ASSUME NEW s \in late, Land(s) PROVE SettledInv'
  <2>1. store'.checkpoint = s.checkpoint /\ late' = {}
    BY <1>4 DEF Land, Put
  <2> QED
    BY <1>4, <2>1 DEF Land, source, tick, Settled
<1>5. ASSUME NEW i \in Instances, Run(i) PROVE SettledInv'
  <2>1. /\ Released.checkpoint = store.checkpoint
        /\ Committed(i).checkpoint = last[i]
        /\ \A s : Content(s).checkpoint = s.checkpoint
    BY NewContents
  <2>2. /\ Released \in Stores /\ Committed(i) \in Stores
        /\ store \in Stores /\ late \in SUBSET Contents
        /\ \A s \in Stores : Content(s) \in Contents
    BY NewContents
  <2>3. CASE AcquireOk(i)
    <3>1. /\ UNCHANGED <<rows, newest, handled, cursor, batch, last>>
          /\ store'.checkpoint = store.checkpoint /\ late' = {}
          /\ pc' = [pc EXCEPT ![i] = "load"]
      BY <2>3, NewContents DEF AcquireOk, Put, GoTo, source, tick
    <3> QED
      BY <3>1 DEF Settled, TypeOK
  <2>4. CASE AcquireFails(i)
    <3>1. /\ UNCHANGED <<rows, newest, handled, pc, cursor, batch, last>>
          /\ store'.checkpoint = store.checkpoint
          /\ \A d \in late' : d \in late \/ d.checkpoint = store.checkpoint
      BY <2>4, NewContents DEF AcquireFails, PutUnsure, Put, source, tick, blob
    <3> QED
      BY <3>1 DEF Settled
  <2>5. CASE Load(i)
    <3>1. /\ UNCHANGED <<rows, newest, handled, store, late, batch, last>>
          /\ pc' = [pc EXCEPT ![i] = "fetch"]
          /\ cursor' = [cursor EXCEPT ![i] = store.checkpoint]
      BY <2>5 DEF Load, GoTo, source, blob
    <3> QED
      BY <3>1 DEF Settled, TypeOK
  <2>6. ASSUME NEW place, Fail(i, place) PROVE SettledInv'
    <3>1. /\ UNCHANGED <<rows, newest, handled, store, late, cursor, batch, last>>
          /\ pc' = [pc EXCEPT ![i] = "release"]
      BY <2>6 DEF Fail, GoTo, source, blob, tick
    <3> QED
      BY <3>1 DEF Settled, TypeOK
  <2>7. CASE FetchBatch(i)
    <3>1. PICK b \in SUBSET Ahead(cursor[i]) : \E l \in b :
             /\ IsPage(b, cursor[i]) /\ IsLast(l, b)
             /\ batch' = [batch EXCEPT ![i] = b]
             /\ last' = [last EXCEPT ![i] = l]
      BY <2>7 DEF FetchBatch
    <3>2. PICK l \in b : IsLast(l, b) /\ last' = [last EXCEPT ![i] = l]
      BY <3>1
    <3>3. /\ UNCHANGED <<rows, newest, handled, store, late, cursor>>
          /\ pc' = [pc EXCEPT ![i] = "handle"]
      BY <2>7 DEF FetchBatch, GoTo, source, blob
    <3>4. Upto(l, newest)
      BY DEF Ahead
    <3>5. \A r \in rows : Less(cursor[i], r) /\ Upto(r, l) => r \in b
      <4>1. ASSUME NEW r \in rows, Less(cursor[i], r), Upto(r, l), r \notin b
            PROVE  FALSE
        <5>1. r \in Ahead(cursor[i])
          BY <4>1 DEF Ahead
        <5>2. ~Less(r, l)
          BY <3>1, <4>1, <5>1 DEF IsPage
        <5>3. r \in Keys /\ l \in Keys
          BY DEF Ahead, TypeOK
        <5>4. r = l
          BY <4>1, <5>2, <5>3 DEF Upto, Less, Keys
        <5> QED
          BY <4>1, <5>4
      <4> QED
        BY <4>1
    <3> QED
      BY <3>1, <3>2, <3>3, <3>4, <3>5 DEF Settled, TypeOK
  <2>8. CASE LoopEnds(i)
    <3>1. /\ UNCHANGED <<rows, newest, handled, store, late, cursor, batch, last>>
          /\ pc' = [pc EXCEPT ![i] = "release"]
      BY <2>8 DEF LoopEnds, GoTo, source, blob, tick
    <3> QED
      BY <3>1 DEF Settled, TypeOK
  <2>9. CASE HandlerOk(i)
    <3>1. /\ UNCHANGED <<rows, newest, store, late, cursor, batch, last>>
          /\ handled' = handled \cup batch[i]
          /\ pc[i] = "handle" /\ pc' = [pc EXCEPT ![i] = "commit"]
      BY <2>9 DEF HandlerOk, GoTo, source, blob, tick
    <3>2. /\ Upto(last[i], newest)
          /\ \A r \in rows : Upto(r, last[i]) => r \in handled'
      BY <3>1 DEF Settled, Upto
    <3> QED
      BY <3>1, <3>2 DEF Settled, TypeOK
  <2>10. CASE CommitVerify(i)
    <3>1. /\ UNCHANGED <<rows, newest, handled, store, late, cursor, batch, last>>
          /\ pc[i] = "commit" /\ pc' = [pc EXCEPT ![i] = "write"]
      BY <2>10 DEF CommitVerify, GoTo, source, blob, tick
    <3> QED
      BY <3>1 DEF Settled, TypeOK
  <2>11. CASE CommitOk(i)
    <3>1. /\ UNCHANGED <<rows, newest, handled, batch, last>>
          /\ store' = Committed(i) /\ late' = {}
          /\ cursor' = [cursor EXCEPT ![i] = last[i]]
          /\ pc[i] = "write" /\ pc' = [pc EXCEPT ![i] = "fetch"]
      BY <2>11 DEF CommitOk, Put, GoTo, source
    <3> QED
      BY <2>1, <3>1 DEF Settled, TypeOK
  <2>12. CASE CommitUnsure(i)
    <3>1. /\ UNCHANGED <<rows, newest, handled, cursor, batch, last>>
          /\ store' \in {store, Committed(i)}
          /\ late' \subseteq late \cup {Content(Committed(i))}
          /\ pc[i] = "write" /\ pc' = [pc EXCEPT ![i] = "release"]
      BY <2>12 DEF CommitUnsure, PutUnsure, Put, GoTo, source, blob, tick
    <3> QED
      BY <2>1, <3>1 DEF Settled, TypeOK
  <2>13. CASE ReleaseOk(i)
    BY <2>1, <2>2, <2>13, SettledOnEndTick DEF ReleaseOk
  <2>14. CASE ReleaseFails(i)
    BY <2>1, <2>2, <2>14, SettledOnEndTick DEF ReleaseFails
  <2>15. CASE Crash(i)
    BY <2>1, <2>2, <2>15, SettledOnEndTick DEF Crash
  <2> QED
    BY <1>5, <2>3, <2>4, <2>5, <2>6, <2>7, <2>8, <2>9, <2>10, <2>11, <2>12,
       <2>13, <2>14, <2>15
       DEF Run, HandlerFails, CommitLost, CommitConflict
<1>6. CASE UNCHANGED vars
  BY <1>6 DEF vars, source, blob, tick, Settled
<1> QED
  BY <1>1, <1>2, <1>3, <1>4, <1>5, <1>6 DEF Next, Arrive

\* At least once: in a table in which no row gets a key below one that a row
\* has had, no row at or below the stored checkpoint is unhandled.
THEOREM AtLeastOnce ==
    ASSUME TiesArrive = FALSE
    PROVE  Spec => []NoLoss
<1>1. TypeOK /\ Init => SettledInv
  BY NoCursorSettled DEF Init, SettledInv
<1>2. SettledInv => NoLoss
  BY DEF SettledInv, Settled, NoLoss
<1>3. TypeOK /\ SettledInv /\ [Next]_vars => SettledInv'
  BY SettledStep
<1> QED
  BY <1>1, <1>2, <1>3, TypeCorrect, PTL DEF Spec

-----------------------------------------------------------------------------
(* Progress is kept.                                                       *)

\* No delayed write is behind the stored checkpoint, and a tick that still
\* owns the lease works from the stored checkpoint itself.
ProgressInv ==
    /\ \A s \in late :
          /\ Upto(store.checkpoint, s.checkpoint)
          /\ s.owner \in Instances => pc[s.owner] = "release"
    /\ \A i \in Instances :
          /\ /\ store.owner = i
             /\ pc[i] \in {"fetch", "handle", "commit", "write"}
             => cursor[i] = store.checkpoint
          /\ pc[i] \in {"handle", "commit", "write"} =>
                /\ Less(cursor[i], last[i])
                /\ \A r \in batch[i] : Less(cursor[i], r)

\* The end of a tick preserves ProgressInv.
LEMMA ProgressOnEndTick ==
    ASSUME TypeOK, ProgressInv, NEW i \in Instances,
           NEW s \in Stores, s.owner = store.owner,
           s.checkpoint = store.checkpoint,
           NEW l \in SUBSET Contents,
           \A d \in l : \/ d \in late
                        \/ d.owner = i /\ Upto(store.checkpoint, d.checkpoint),
           EndTick(i, s, l)
    PROVE  ProgressInv'
<1> USE DEF ProgressInv
<1>1. /\ store' = Disown(s, i)
      /\ late' = {Disown(d, i) : d \in l}
      /\ pc' = [pc EXCEPT ![i] = "idle"]
      /\ cursor' = [cursor EXCEPT ![i] = NoCursor]
      /\ batch' = [batch EXCEPT ![i] = {}]
      /\ last' = [last EXCEPT ![i] = NoCursor]
  BY DEF EndTick
<1>2. \A d \in Stores \cup Contents :
         /\ Disown(d, i).checkpoint = d.checkpoint
         /\ Disown(d, i).owner # i
         /\ Disown(d, i).owner \in {d.owner, Nobody}
  BY NobodyAssumption DEF Disown, Stores, Contents
<1>3. store'.checkpoint = store.checkpoint
  BY <1>1, <1>2
<1>4. ASSUME NEW d \in late'
      PROVE  /\ Upto(store'.checkpoint, d.checkpoint)
             /\ d.owner \in Instances => pc'[d.owner] = "release"
  <2>1. PICK e \in l : d = Disown(e, i)
    BY <1>1
  <2>2. d.checkpoint = e.checkpoint /\ d.owner # i /\ d.owner \in {e.owner, Nobody}
    BY <1>2, <2>1
  <2>3. Upto(store'.checkpoint, d.checkpoint)
    BY <1>3, <2>2
  <2>4. ASSUME d.owner \in Instances PROVE pc'[d.owner] = "release"
    <3>1. d.owner = e.owner /\ e.owner # i
      BY <2>2, <2>4, NobodyAssumption
    <3>2. pc[e.owner] = "release"
      BY <2>4, <3>1
    <3> QED
      BY <1>1, <3>1, <3>2 DEF TypeOK
  <2> QED
    BY <2>3, <2>4
<1>5. ASSUME NEW j \in Instances
      PROVE  /\ /\ store'.owner = j
                /\ pc'[j] \in {"fetch", "handle", "commit", "write"}
                => cursor'[j] = store'.checkpoint
             /\ pc'[j] \in {"handle", "commit", "write"} =>
                   /\ Less(cursor'[j], last'[j])
                   /\ \A r \in batch'[j] : Less(cursor'[j], r)
  <2>1. CASE j = i
    BY <1>1, <2>1 DEF TypeOK
  <2>2. CASE j # i
    <3>1. /\ pc'[j] = pc[j] /\ cursor'[j] = cursor[j]
          /\ last'[j] = last[j] /\ batch'[j] = batch[j]
      BY <1>1, <2>2 DEF TypeOK
    <3>2. store'.owner = j => store.owner = j
      BY <1>1, <1>2, NobodyAssumption
    <3> QED
      BY <1>3, <3>1, <3>2
  <2> QED
    BY <2>1, <2>2
<1> QED
  BY <1>4, <1>5

\* Every step preserves ProgressInv, and never moves the checkpoint back.
LEMMA ProgressStep ==
    ASSUME TypeOK, ProgressInv, [Next]_vars
    PROVE  ProgressInv' /\ Upto(store.checkpoint, store'.checkpoint)
<1> USE DEF ProgressInv
<1> DEFINE Goal == ProgressInv' /\ Upto(store.checkpoint, store'.checkpoint)
<1>0. /\ store.checkpoint \in Cursors /\ Upto(store.checkpoint, store.checkpoint)
      /\ store \in Stores /\ late \in SUBSET Contents
  BY LessOrder DEF TypeOK, Stores
<1>1. ASSUME NEW k \in Keys, Insert(k) PROVE Goal
  BY <1>0, <1>1 DEF Insert, blob, tick
<1>2. ASSUME NEW k \in Keys, NEW r \in rows, Update(r, k) PROVE Goal
  BY <1>0, <1>2 DEF Update, blob, tick
<1>3. CASE Elapse
  <2>1. store'.checkpoint = store.checkpoint /\ store'.owner = store.owner
    BY <1>3 DEF Elapse, TypeOK, Stores
  <2> QED
    BY <1>0, <1>3, <2>1 DEF Elapse, tick
<1>4. ASSUME NEW s \in late, Land(s) PROVE Goal
  <2>1. /\ store'.checkpoint = s.checkpoint /\ store'.owner = s.owner
        /\ late' = {}
        /\ UNCHANGED <<pc, cursor, batch, last>>
    BY <1>4 DEF Land, Put, tick
  <2> QED
    BY <2>1
<1>5. ASSUME NEW i \in Instances, Run(i) PROVE Goal
  <2>1. /\ Released.checkpoint = store.checkpoint /\ Released.owner = store.owner
        /\ Committed(i).checkpoint = last[i] /\ Committed(i).owner = store.owner
        /\ \A s : /\ Content(s).checkpoint = s.checkpoint
                 /\ Content(s).owner = s.owner
    BY NewContents
  <2>2. /\ Released \in Stores /\ Committed(i) \in Stores
        /\ \A s \in Stores : Content(s) \in Contents
        /\ cursor[i] \in Cursors /\ last[i] \in Cursors
    BY NewContents DEF TypeOK
  <2>3. pc[i] = "write" /\ store.owner = i => Upto(store.checkpoint, last[i])
    BY <1>0, <2>2, LessOrder
  <2>4. ASSUME NEW s \in Stores, s.owner = store.owner,
               s.checkpoint = store.checkpoint,
               NEW l \in SUBSET Contents,
               \A d \in l : \/ d \in late
                            \/ d.owner = i /\ Upto(store.checkpoint, d.checkpoint),
               EndTick(i, s, l)
        PROVE  Goal
    <3>1. store'.checkpoint = store.checkpoint
      BY <2>4 DEF EndTick, Disown, Stores
    <3> QED
      BY <1>0, <2>4, <3>1, ProgressOnEndTick
  <2>5. CASE AcquireOk(i)
    <3>1. /\ UNCHANGED <<cursor, batch, last>>
          /\ store'.checkpoint = store.checkpoint /\ store'.owner = i
          /\ late' = {}
          /\ pc' = [pc EXCEPT ![i] = "load"]
      BY <2>5, NewContents DEF AcquireOk, Put, GoTo, tick
    <3> QED
      BY <1>0, <3>1 DEF TypeOK
  <2>6. CASE AcquireFails(i)
    <3>1. PICK phase \in Phases : PutUnsure(Taken(Nobody, phase))
      BY <2>6 DEF AcquireFails
    <3>2. /\ Taken(Nobody, phase).checkpoint = store.checkpoint
          /\ Taken(Nobody, phase).owner = Nobody
      BY NewContents
    <3>3. /\ UNCHANGED <<pc, cursor, batch, last>>
          /\ store' \in {store, Taken(Nobody, phase)}
          /\ late' \subseteq late \cup {Content(Taken(Nobody, phase))}
      BY <2>6, <3>1 DEF AcquireFails, PutUnsure, Put, tick, blob
    <3> QED
      BY <1>0, <2>1, <3>2, <3>3, NobodyAssumption
  <2>7. CASE Load(i)
    <3>1. /\ UNCHANGED <<store, late, batch, last>>
          /\ pc[i] = "load" /\ pc' = [pc EXCEPT ![i] = "fetch"]
          /\ cursor' = [cursor EXCEPT ![i] = store.checkpoint]
      BY <2>7 DEF Load, GoTo, blob
    <3> QED
      BY <1>0, <3>1 DEF TypeOK
  <2>8. ASSUME NEW place, Fail(i, place) PROVE Goal
    <3>1. /\ UNCHANGED <<store, late, cursor, batch, last>>
          /\ pc' = [pc EXCEPT ![i] = "release"]
      BY <2>8 DEF Fail, GoTo, blob, tick
    <3> QED
      BY <1>0, <3>1 DEF TypeOK
  <2>9. CASE FetchBatch(i)
    <3>1. PICK b \in SUBSET Ahead(cursor[i]) : \E l \in b :
             /\ batch' = [batch EXCEPT ![i] = b]
             /\ last' = [last EXCEPT ![i] = l]
      BY <2>9 DEF FetchBatch
    <3>2. PICK l \in b : last' = [last EXCEPT ![i] = l]
      BY <3>1
    <3>3. /\ UNCHANGED <<store, late, cursor>>
          /\ pc[i] = "fetch" /\ pc' = [pc EXCEPT ![i] = "handle"]
      BY <2>9 DEF FetchBatch, GoTo, blob
    <3>4. \A r \in b : Less(cursor[i], r)
      BY DEF Ahead
    <3> QED
      BY <1>0, <3>1, <3>2, <3>3, <3>4 DEF TypeOK
  <2>10. CASE LoopEnds(i)
    <3>1. /\ UNCHANGED <<store, late, cursor, batch, last>>
          /\ pc' = [pc EXCEPT ![i] = "release"]
      BY <2>10 DEF LoopEnds, GoTo, blob, tick
    <3> QED
      BY <1>0, <3>1 DEF TypeOK
  <2>11. CASE HandlerOk(i)
    <3>1. /\ UNCHANGED <<store, late, cursor, batch, last>>
          /\ pc[i] = "handle" /\ pc' = [pc EXCEPT ![i] = "commit"]
      BY <2>11 DEF HandlerOk, GoTo, blob, tick
    <3> QED
      BY <1>0, <3>1 DEF TypeOK
  <2>12. CASE CommitVerify(i)
    <3>1. /\ UNCHANGED <<store, late, cursor, batch, last>>
          /\ pc[i] = "commit" /\ pc' = [pc EXCEPT ![i] = "write"]
      BY <2>12 DEF CommitVerify, GoTo, blob, tick
    <3> QED
      BY <1>0, <3>1 DEF TypeOK
  <2>13. CASE CommitOk(i)
    <3>1. /\ UNCHANGED <<batch, last>>
          /\ store.owner = i /\ store' = Committed(i) /\ late' = {}
          /\ cursor' = [cursor EXCEPT ![i] = last[i]]
          /\ pc[i] = "write" /\ pc' = [pc EXCEPT ![i] = "fetch"]
      BY <2>13 DEF CommitOk, Put, GoTo
    <3> QED
      BY <2>1, <2>3, <3>1 DEF TypeOK
  <2>14. CASE CommitUnsure(i)
    <3>1. /\ UNCHANGED <<cursor, batch, last>>
          /\ store.owner = i
          /\ \/ store' = store /\ late' \subseteq late \cup {Content(Committed(i))}
             \/ store' = Committed(i) /\ late' = {}
          /\ pc[i] = "write" /\ pc' = [pc EXCEPT ![i] = "release"]
      BY <2>14 DEF CommitUnsure, PutUnsure, Put, GoTo, blob, tick
    <3> QED
      BY <1>0, <2>1, <2>3, <3>1 DEF TypeOK
  <2>15. CASE ReleaseOk(i)
    BY <2>1, <2>2, <2>4, <2>15 DEF ReleaseOk
  <2>16. CASE ReleaseFails(i)
    <3>1. CASE EndTick(i, store, late)
      BY <1>0, <2>4, <3>1
    <3>2. CASE store.owner = i /\ EndTick(i, store, late \cup {Content(Released)})
      <4>1. late \cup {Content(Released)} \in SUBSET Contents
        BY <1>0, <2>2
      <4> QED
        BY <1>0, <2>1, <2>4, <3>2, <4>1
    <3> QED
      BY <2>16, <3>1, <3>2 DEF ReleaseFails
  <2>17. CASE Crash(i)
    <3>1. CASE EndTick(i, store, late)
      BY <1>0, <2>4, <3>1
    <3>2. CASE /\ pc[i] = "write" /\ store.owner = i
               /\ EndTick(i, store, late \cup {Content(Committed(i))})
      <4>1. late \cup {Content(Committed(i))} \in SUBSET Contents
        BY <1>0, <2>2
      <4> QED
        BY <1>0, <2>1, <2>3, <2>4, <3>2, <4>1
    <3> QED
      BY <2>17, <3>1, <3>2 DEF Crash
  <2> QED
    BY <1>5, <2>5, <2>6, <2>7, <2>8, <2>9, <2>10, <2>11, <2>12, <2>13, <2>14,
       <2>15, <2>16, <2>17
       DEF Run, HandlerFails, CommitLost, CommitConflict
<1>6. CASE UNCHANGED vars
  BY <1>0, <1>6 DEF vars, blob, tick
<1> QED
  BY <1>1, <1>2, <1>3, <1>4, <1>5, <1>6 DEF Next, Arrive

\* ProgressInv holds throughout.
LEMMA Progress == Spec => []ProgressInv
<1>1. Init => ProgressInv
  BY NobodyAssumption DEF Init, ProgressInv
<1>2. TypeOK /\ ProgressInv /\ [Next]_vars => ProgressInv'
  BY ProgressStep
<1> QED
  BY <1>1, <1>2, TypeCorrect, PTL DEF Spec

\* The stored checkpoint never goes back, with any number of instances, any
\* delays of writes, and ticks that outlive their lease.
THEOREM CheckpointNeverRegresses == Spec => CheckpointMonotone
<1>1. TypeOK /\ ProgressInv /\ [Next]_vars
      => [Upto(store.checkpoint, store'.checkpoint)]_store
  BY ProgressStep
<1> QED
  BY <1>1, TypeCorrect, Progress, PTL DEF Spec, CheckpointMonotone

\* A tick that owns the lease hands out only rows beyond the checkpoint.
THEOREM HolderNeverRedelivers == Spec => []NoRedelivery
<1>1. ProgressInv => NoRedelivery
  BY DEF ProgressInv, NoRedelivery
<1> QED
  BY <1>1, Progress, PTL

-----------------------------------------------------------------------------
(* The poller delivers in order: PollRunner implements OrderedDelivery.    *)

\* The abstract definitions, in the poller's variables.
USE DEF Delivery!Upto, Delivery!vars

\* What becomes the checkpoint has been handled: a page's last row is one of
\* the page, and is handled with it.
HandledInv ==
    /\ store.checkpoint \in handled \cup {NoCursor}
    /\ \A s \in late : s.checkpoint \in handled \cup {NoCursor}
    /\ \A i \in Instances :
          /\ pc[i] = "handle" => IsLast(last[i], batch[i])
          /\ pc[i] \in {"commit", "write"} => last[i] \in handled

\* The end of a tick preserves HandledInv.
LEMMA HandledOnEndTick ==
    ASSUME TypeOK, HandledInv, NEW i \in Instances,
           NEW s \in Stores, s.checkpoint \in handled \cup {NoCursor},
           NEW l \in SUBSET Contents,
           \A d \in l : d.checkpoint \in handled \cup {NoCursor},
           EndTick(i, s, l)
    PROVE  HandledInv'
<1>1. /\ handled' = handled
      /\ store' = Disown(s, i)
      /\ late' = {Disown(d, i) : d \in l}
      /\ pc' = [pc EXCEPT ![i] = "idle"]
      /\ batch' = [batch EXCEPT ![i] = {}]
      /\ last' = [last EXCEPT ![i] = NoCursor]
  BY DEF EndTick
<1>2. \A d \in Stores \cup Contents : Disown(d, i).checkpoint = d.checkpoint
  BY DEF Disown, Stores, Contents
<1>3. /\ store'.checkpoint \in handled' \cup {NoCursor}
      /\ \A d \in late' : d.checkpoint \in handled' \cup {NoCursor}
  BY <1>1, <1>2
<1>4. ASSUME NEW j \in Instances
      PROVE  /\ pc'[j] = "handle" => IsLast(last[j], batch[j])'
             /\ pc'[j] \in {"commit", "write"} => last'[j] \in handled'
  <2>1. CASE j = i
    BY <1>1, <2>1 DEF TypeOK
  <2>2. CASE j # i
    BY <1>1, <2>2 DEF TypeOK, HandledInv, IsLast
  <2> QED
    BY <2>1, <2>2
<1> QED
  BY <1>3, <1>4 DEF HandledInv

\* Every step preserves HandledInv.
LEMMA HandledStep ==
    ASSUME TypeOK, HandledInv, [Next]_vars
    PROVE  HandledInv'
<1> USE DEF HandledInv
<1>1. ASSUME NEW k \in Keys, Insert(k) PROVE HandledInv'
  BY <1>1 DEF Insert, blob, tick, IsLast
<1>2. ASSUME NEW k \in Keys, NEW r \in rows, Update(r, k) PROVE HandledInv'
  BY <1>2 DEF Update, blob, tick, IsLast
<1>3. CASE Elapse
  <2>1. store'.checkpoint = store.checkpoint
    BY <1>3 DEF Elapse, TypeOK, Stores
  <2> QED
    BY <1>3, <2>1 DEF Elapse, tick, IsLast
<1>4. ASSUME NEW s \in late, Land(s) PROVE HandledInv'
  <2>1. store'.checkpoint = s.checkpoint /\ late' = {}
    BY <1>4 DEF Land, Put
  <2> QED
    BY <1>4, <2>1 DEF Land, tick, IsLast
<1>5. ASSUME NEW i \in Instances, Run(i) PROVE HandledInv'
  <2>1. /\ Released.checkpoint = store.checkpoint
        /\ Committed(i).checkpoint = last[i]
        /\ \A s : Content(s).checkpoint = s.checkpoint
    BY NewContents
  <2>2. /\ Released \in Stores /\ Committed(i) \in Stores
        /\ store \in Stores /\ late \in SUBSET Contents
        /\ \A s \in Stores : Content(s) \in Contents
    BY NewContents
  <2>3. CASE AcquireOk(i)
    <3>1. /\ UNCHANGED <<handled, batch, last>>
          /\ store'.checkpoint = store.checkpoint /\ late' = {}
          /\ pc' = [pc EXCEPT ![i] = "load"]
      BY <2>3, NewContents DEF AcquireOk, Put, GoTo, tick
    <3> QED
      BY <3>1 DEF TypeOK, IsLast
  <2>4. CASE AcquireFails(i)
    <3>1. /\ UNCHANGED <<handled, pc, batch, last>>
          /\ store'.checkpoint = store.checkpoint
          /\ \A d \in late' : d \in late \/ d.checkpoint = store.checkpoint
      BY <2>4, NewContents DEF AcquireFails, PutUnsure, Put, tick, blob
    <3> QED
      BY <3>1 DEF IsLast
  <2>5. CASE Load(i)
    <3>1. /\ UNCHANGED <<handled, store, late, batch, last>>
          /\ pc' = [pc EXCEPT ![i] = "fetch"]
      BY <2>5 DEF Load, GoTo, blob
    <3> QED
      BY <3>1 DEF TypeOK, IsLast
  <2>6. ASSUME NEW place, Fail(i, place) PROVE HandledInv'
    <3>1. /\ UNCHANGED <<handled, store, late, batch, last>>
          /\ pc' = [pc EXCEPT ![i] = "release"]
      BY <2>6 DEF Fail, GoTo, blob, tick
    <3> QED
      BY <3>1 DEF TypeOK, IsLast
  <2>7. CASE FetchBatch(i)
    <3>1. PICK b \in SUBSET Ahead(cursor[i]) : \E l \in b :
             /\ IsLast(l, b)
             /\ batch' = [batch EXCEPT ![i] = b]
             /\ last' = [last EXCEPT ![i] = l]
      BY <2>7 DEF FetchBatch
    <3>2. PICK l \in b : IsLast(l, b) /\ last' = [last EXCEPT ![i] = l]
      BY <3>1
    <3>3. /\ UNCHANGED <<handled, store, late>>
          /\ pc' = [pc EXCEPT ![i] = "handle"]
      BY <2>7 DEF FetchBatch, GoTo, blob
    <3> QED
      BY <3>1, <3>2, <3>3 DEF TypeOK, IsLast
  <2>8. CASE LoopEnds(i)
    <3>1. /\ UNCHANGED <<handled, store, late, batch, last>>
          /\ pc' = [pc EXCEPT ![i] = "release"]
      BY <2>8 DEF LoopEnds, GoTo, blob, tick
    <3> QED
      BY <3>1 DEF TypeOK, IsLast
  <2>9. CASE HandlerOk(i)
    <3>1. /\ UNCHANGED <<store, late, batch, last>>
          /\ handled' = handled \cup batch[i]
          /\ pc[i] = "handle" /\ pc' = [pc EXCEPT ![i] = "commit"]
      BY <2>9 DEF HandlerOk, GoTo, blob, tick
    <3> QED
      BY <3>1 DEF TypeOK, IsLast
  <2>10. CASE CommitVerify(i)
    <3>1. /\ UNCHANGED <<handled, store, late, batch, last>>
          /\ pc[i] = "commit" /\ pc' = [pc EXCEPT ![i] = "write"]
      BY <2>10 DEF CommitVerify, GoTo, blob, tick
    <3> QED
      BY <3>1 DEF TypeOK, IsLast
  <2>11. CASE CommitOk(i)
    <3>1. /\ UNCHANGED <<handled, batch, last>>
          /\ store' = Committed(i) /\ late' = {}
          /\ pc[i] = "write" /\ pc' = [pc EXCEPT ![i] = "fetch"]
      BY <2>11 DEF CommitOk, Put, GoTo
    <3> QED
      BY <2>1, <3>1 DEF TypeOK, IsLast
  <2>12. CASE CommitUnsure(i)
    <3>1. /\ UNCHANGED <<handled, batch, last>>
          /\ store' \in {store, Committed(i)}
          /\ late' \subseteq late \cup {Content(Committed(i))}
          /\ pc[i] = "write" /\ pc' = [pc EXCEPT ![i] = "release"]
      BY <2>12 DEF CommitUnsure, PutUnsure, Put, GoTo, blob, tick
    <3> QED
      BY <2>1, <3>1 DEF TypeOK, IsLast
  <2>13. CASE ReleaseOk(i)
    BY <2>1, <2>2, <2>13, HandledOnEndTick DEF ReleaseOk
  <2>14. CASE ReleaseFails(i)
    <3>1. CASE EndTick(i, store, late)
      BY <2>2, <3>1, HandledOnEndTick
    <3>2. CASE EndTick(i, store, late \cup {Content(Released)})
      <4>1. late \cup {Content(Released)} \in SUBSET Contents
        BY <2>2
      <4> QED
        BY <2>1, <2>2, <3>2, <4>1, HandledOnEndTick
    <3> QED
      BY <2>14, <3>1, <3>2 DEF ReleaseFails
  <2>15. CASE Crash(i)
    <3>1. CASE EndTick(i, store, late)
      BY <2>2, <3>1, HandledOnEndTick
    <3>2. CASE pc[i] = "write" /\ EndTick(i, store, late \cup {Content(Committed(i))})
      <4>1. late \cup {Content(Committed(i))} \in SUBSET Contents
        BY <2>2
      <4> QED
        BY <2>1, <2>2, <3>2, <4>1, HandledOnEndTick
    <3> QED
      BY <2>15, <3>1, <3>2 DEF Crash
  <2> QED
    BY <1>5, <2>3, <2>4, <2>5, <2>6, <2>7, <2>8, <2>9, <2>10, <2>11, <2>12,
       <2>13, <2>14, <2>15
       DEF Run, HandlerFails, CommitLost, CommitConflict
<1>6. CASE UNCHANGED vars
  BY <1>6 DEF vars, blob, tick, IsLast
<1> QED
  BY <1>1, <1>2, <1>3, <1>4, <1>5, <1>6 DEF Next, Arrive

\* A step that touches neither the table nor what was handled moves the
\* checkpoint forward to a key that may become it, or not at all.
LEMMA AdvanceOrStay ==
    ASSUME TypeOK, TypeOK', SettledInv', HandledInv',
           Upto(store.checkpoint, store'.checkpoint),
           UNCHANGED <<source, handled>>
    PROVE  [Delivery!Next]_Delivery!vars
<1>1. UNCHANGED <<rows, newest, handled>>
  BY DEF source
<1>2. CASE store'.checkpoint = store.checkpoint
  BY <1>1, <1>2
<1>3. CASE store'.checkpoint # store.checkpoint
  <2> DEFINE c == store'.checkpoint
  <2>1. c \in Cursors /\ store.checkpoint \in Cursors
    BY DEF TypeOK, Stores
  <2>2. Less(store.checkpoint, c)
    BY <1>3, <2>1, LessTypes DEF Upto, Less, Cursors, Keys, NoCursor
  <2>3. c # NoCursor
    BY <2>1, <2>2, LessTypes DEF Less, NoCursor
  <2>4. c \in handled /\ c \in Keys
    BY <1>1, <2>1, <2>3 DEF HandledInv, Cursors
  <2>5. \A r \in rows : Upto(r, c) => r \in handled
    BY <1>1 DEF SettledInv, Settled
  <2>6. Delivery!Advance(c)
    BY <1>1, <2>2, <2>4, <2>5 DEF Delivery!Advance, Upto
  <2> QED
    BY <2>4, <2>6 DEF Delivery!Next
<1> QED
  BY <1>2, <1>3

\* Every step of the poller is a step of the abstract delivery, or none.
LEMMA DeliveryStep ==
    ASSUME TypeOK, SettledInv, ProgressInv, HandledInv, [Next]_vars,
           TiesArrive = FALSE
    PROVE  [Delivery!Next]_Delivery!vars
<1>0. /\ TypeOK' /\ SettledInv' /\ HandledInv'
      /\ Upto(store.checkpoint, store'.checkpoint)
  BY TypeStep, SettledStep, ProgressStep, HandledStep
<1>1. ASSUME NEW k \in Keys, Less(newest, k), newest' = k,
             k \in rows', rows' \subseteq rows \cup {k},
             UNCHANGED <<handled, blob>>
      PROVE  [Delivery!Next]_Delivery!vars
  <2>1. Delivery!Arrive(k)
    BY <1>1 DEF Delivery!Arrive, blob
  <2> QED
    BY <2>1 DEF Delivery!Next
<1>2. ASSUME NEW k \in Keys, Insert(k) PROVE [Delivery!Next]_Delivery!vars
  <2>1. Less(newest, k) /\ newest' = k
    BY <1>2 DEF Insert, MayArrive, Newest
  <2> QED
    BY <1>1, <1>2, <2>1 DEF Insert
<1>3. ASSUME NEW k \in Keys, NEW r \in rows, Update(r, k)
      PROVE  [Delivery!Next]_Delivery!vars
  <2>1. Less(newest, k) /\ newest' = k
    BY <1>3 DEF Update, MayArrive, Newest
  <2> QED
    BY <1>1, <1>3, <2>1 DEF Update
<1>4. CASE Elapse
  BY <1>0, <1>4, AdvanceOrStay DEF Elapse
<1>5. ASSUME NEW s \in late, Land(s) PROVE [Delivery!Next]_Delivery!vars
  BY <1>0, <1>5, AdvanceOrStay DEF Land
<1>6. ASSUME NEW i \in Instances, HandlerOk(i)
      PROVE  [Delivery!Next]_Delivery!vars
  <2>1. /\ UNCHANGED <<rows, newest, store>>
        /\ handled' = handled \cup batch[i] /\ pc[i] = "handle"
    BY <1>6 DEF HandlerOk, source, blob
  <2>2. /\ batch[i] \subseteq Keys /\ Keys \subseteq Cursors /\ rows \subseteq Keys
        /\ newest \in Cursors /\ last[i] \in Cursors /\ cursor[i] \in Cursors
    BY LessTypes DEF TypeOK
  <2>3. ASSUME NEW k \in batch[i]
        PROVE  /\ k \in Keys /\ Upto(k, newest)
               /\ \A r \in rows : Upto(r, k) => r \in handled'
    <3>1. Upto(k, last[i]) /\ Upto(last[i], newest)
      BY <2>1 DEF HandledInv, IsLast, SettledInv
    <3>2. Upto(k, newest)
      BY <2>2, <3>1, LessOrder
    <3>3. ASSUME NEW r \in rows, Upto(r, k) PROVE r \in handled'
      <4>1. Upto(r, last[i])
        BY <2>2, <3>1, <3>3, LessOrder
      <4>2. CASE Upto(r, cursor[i])
        BY <2>1, <4>2 DEF SettledInv, Settled
      <4>3. CASE ~Upto(r, cursor[i])
        BY <2>1, <2>2, <4>1, <4>3, LessOrder DEF SettledInv
      <4> QED
        BY <4>2, <4>3
    <3> QED
      BY <2>2, <3>2, <3>3
  <2>4. Delivery!Deliver
    BY <2>1, <2>3 DEF Delivery!Deliver, Upto
  <2> QED
    BY <2>4 DEF Delivery!Next
<1>7. ASSUME NEW i \in Instances, Run(i), ~HandlerOk(i)
      PROVE  [Delivery!Next]_Delivery!vars
  <2>1. UNCHANGED <<source, handled>>
    BY <1>7 DEF Run, AcquireOk, AcquireFails, Load, Fail, FetchBatch, LoopEnds,
                HandlerFails, CommitVerify, CommitLost, CommitOk, CommitUnsure,
                CommitConflict, ReleaseOk, ReleaseFails, Crash, EndTick
  <2> QED
    BY <1>0, <2>1, AdvanceOrStay
<1>8. CASE UNCHANGED vars
  BY <1>0, <1>8, AdvanceOrStay DEF vars
<1> QED
  BY <1>2, <1>3, <1>4, <1>5, <1>6, <1>7, <1>8 DEF Next, Arrive

\* Any number of instances, with crashes, expired leases and delayed writes,
\* together deliver the rows of a table in the order of their keys, without
\* a gap: every step of theirs is one of OrderedDelivery, or changes nothing
\* that the table's owner can see. No row may get a key below one that a row
\* has had; finding 1 shows what happens when one does.
THEOREM DeliveryImplemented ==
    ASSUME TiesArrive = FALSE
    PROVE  Spec => DeliversInOrder
<1>1. Init => Delivery!Init /\ HandledInv
  BY DEF Init, Delivery!Init, HandledInv
<1>2. TypeOK /\ Init => SettledInv
  BY NoCursorSettled DEF Init, SettledInv
<1>3. TypeOK /\ SettledInv /\ [Next]_vars => SettledInv'
  BY SettledStep
<1>4. TypeOK /\ HandledInv /\ [Next]_vars => HandledInv'
  BY HandledStep
<1>5. TypeOK /\ SettledInv /\ ProgressInv /\ HandledInv /\ [Next]_vars
      => [Delivery!Next]_Delivery!vars
  BY DeliveryStep
<1> QED
  BY <1>1, <1>2, <1>3, <1>4, <1>5, TypeCorrect, Progress, PTL
  DEF Spec, DeliversInOrder, Delivery!Spec

-----------------------------------------------------------------------------
(* One tick at a time, if no tick outlives its lease.                      *)

\* A running tick owns the live lease, and so would it after any delayed
\* write.
LeaseInv ==
    \A i \in Instances :
        pc[i] # "idle" =>
            /\ store.owner = i /\ store.phase = "live"
            /\ \A s \in late : s.owner = i

\* The end of the only running tick preserves LeaseInv.
LEMMA LeaseOnEndTick ==
    ASSUME TypeOK, LeaseInv, NEW i \in Instances, pc[i] # "idle",
           NEW s, NEW l, EndTick(i, s, l)
    PROVE  LeaseInv'
<1>1. \A j \in Instances : j # i => pc[j] = "idle"
  BY DEF LeaseInv
<1>2. \A j \in Instances : pc'[j] = "idle"
  BY <1>1 DEF EndTick, TypeOK
<1> QED
  BY <1>2 DEF LeaseInv

\* Every step preserves LeaseInv, provided that ticks do not overrun.
LEMMA LeaseStep ==
    ASSUME TypeOK, LeaseInv, [Next]_vars, Overruns = FALSE
    PROVE  LeaseInv'
<1> USE DEF LeaseInv
<1>1. ASSUME NEW k \in Keys, Insert(k) PROVE LeaseInv'
  BY <1>1 DEF Insert, blob
<1>2. ASSUME NEW k \in Keys, NEW r \in rows, Update(r, k) PROVE LeaseInv'
  BY <1>2 DEF Update, blob
<1>3. CASE Elapse
  BY <1>3, NobodyAssumption DEF Elapse
<1>4. ASSUME NEW s \in late, Land(s) PROVE LeaseInv'
  <2>1. /\ store'.owner = s.owner /\ late' = {} /\ pc' = pc
        /\ s.owner # Nobody => store'.phase = store.phase
    BY <1>4 DEF Land, Put
  <2> QED
    BY <2>1, NobodyAssumption
<1>5. ASSUME NEW i \in Instances, Run(i) PROVE LeaseInv'
  <2>1. CASE AcquireOk(i)
    <3>1. \A j \in Instances : pc[j] = "idle"
      BY <2>1 DEF AcquireOk
    <3>2. store'.owner = i /\ store'.phase = "live" /\ late' = {}
          /\ pc' = [pc EXCEPT ![i] = "load"]
      BY <2>1, NewContents DEF AcquireOk, Put, GoTo
    <3> QED
      BY <3>1, <3>2 DEF TypeOK
  <2>2. CASE AcquireFails(i)
    BY <2>2 DEF AcquireFails
  <2>3. CASE Load(i) \/ FetchBatch(i) \/ LoopEnds(i) \/ HandlerOk(i) \/ CommitVerify(i)
    <3>1. UNCHANGED <<store, late>> /\ pc[i] # "idle"
          /\ \A j \in Instances : j # i => pc'[j] = pc[j]
      BY <2>3 DEF Load, FetchBatch, LoopEnds, HandlerOk, CommitVerify, GoTo, blob,
                  TypeOK
    <3> QED
      BY <3>1
  <2>4. ASSUME NEW place, place # "idle", Fail(i, place) PROVE LeaseInv'
    BY <2>4 DEF Fail, GoTo, blob, TypeOK
  <2>5. CASE CommitOk(i) \/ CommitUnsure(i)
    <3>1. /\ Committed(i).owner = store.owner /\ Committed(i).phase = store.phase
          /\ Content(Committed(i)).owner = store.owner
      BY NewContents
    <3>2. /\ pc[i] # "idle" /\ store' \in {store, Committed(i)}
          /\ late' \subseteq late \cup {Content(Committed(i))}
          /\ \A j \in Instances : j # i => pc'[j] = pc[j]
      BY <2>5 DEF CommitOk, CommitUnsure, PutUnsure, Put, GoTo, blob, TypeOK
    <3> QED
      BY <3>1, <3>2
  <2>6. CASE ReleaseOk(i)
    BY <2>6, LeaseOnEndTick DEF ReleaseOk
  <2>7. CASE ReleaseFails(i)
    BY <2>7, LeaseOnEndTick DEF ReleaseFails
  <2>8. CASE Crash(i)
    BY <2>8, LeaseOnEndTick DEF Crash
  <2> QED
    BY <1>5, <2>1, <2>2, <2>3, <2>4, <2>5, <2>6, <2>7, <2>8
       DEF Run, HandlerFails, CommitLost, CommitConflict
<1>6. CASE UNCHANGED vars
  BY <1>6 DEF vars, blob
<1> QED
  BY <1>1, <1>2, <1>3, <1>4, <1>5, <1>6 DEF Next, Arrive

\* If every tick ends before its lease expires, at most one tick runs.
THEOREM MutualExclusion ==
    ASSUME Overruns = FALSE
    PROVE  Spec => []OneTickAtATime
<1>1. Init => LeaseInv
  BY DEF Init, LeaseInv
<1>2. TypeOK /\ LeaseInv /\ [Next]_vars => LeaseInv'
  BY LeaseStep
<1>3. LeaseInv => OneTickAtATime
  BY DEF LeaseInv, OneTickAtATime
<1> QED
  BY <1>1, <1>2, <1>3, TypeCorrect, PTL DEF Spec

-----------------------------------------------------------------------------
(* The expansion of the source's query is a strict order, total on rows    *)
(* without NULL, and so a page goes on exactly where the one before it     *)
(* ended.                                                                  *)

\* A set of column numbers has a least one. (Well-founded by the strict
\* inclusion of the intervals up to them.)
LEMMA LeastColumn ==
    ASSUME NEW n \in Nat, NEW T \in SUBSET (1 .. n), T # {}
    PROVE  \E m \in T : \A k \in T : m <= k
<1> DEFINE S == {1 .. k : k \in T}
<1>1. S # {}
    OBVIOUS
<1>2. S \subseteq FiniteSubsetsOf(1 .. n)
  <2> SUFFICES ASSUME NEW k \in T PROVE 1 .. k \in FiniteSubsetsOf(1 .. n)
      OBVIOUS
  <2>1. k \in 1 .. n /\ 1 .. k \subseteq 1 .. n
      OBVIOUS
  <2>2. IsFiniteSet(1 .. k)
      BY <2>1, FS_Interval
  <2> QED
      BY <2>1, <2>2 DEF FiniteSubsetsOf
<1>3. IsWellFoundedOn(StrictSubsetOrdering(1 .. n), FiniteSubsetsOf(1 .. n))
    BY FS_StrictSubsetOrderingWellFounded
<1> HIDE DEF S
<1>4. \E x \in S : \A y \in S : ~ (<<y, x>> \in StrictSubsetOrdering(1 .. n))
    BY <1>1, <1>2, <1>3, WFMin
<1> USE DEF S
<1>5. PICK m \in T : \A k \in T : ~ (<<1 .. k, 1 .. m>> \in StrictSubsetOrdering(1 .. n))
    BY <1>4
<1>6. ASSUME NEW k \in T, k < m PROVE FALSE
  <2>1. k \in 1 .. n /\ m \in 1 .. n
      OBVIOUS
  <2>2. 1 .. k \subseteq 1 .. m /\ 1 .. m \subseteq 1 .. n /\ m \in 1 .. m /\ m \notin 1 .. k
      BY <1>6, <2>1
  <2>3. <<1 .. k, 1 .. m>> \in StrictSubsetOrdering(1 .. n)
      BY <2>2 DEF StrictSubsetOrdering
  <2> QED
      BY <1>5, <2>3
<1> QED
    BY <1>5, <1>6

\* No row is beyond the cursor that was made of it, so that no page begins
\* with the row that ended the one before it.
THEOREM BeyondIrreflexive ==
    ASSUME NEW width \in Nat, NEW r \in Row(width)
    PROVE  ~Beyond(r, r)
  BY DEF Beyond, GreaterThan, Row, Cell

\* Rows beyond a row that is beyond the cursor are beyond the cursor.
THEOREM BeyondTransitive ==
    ASSUME NEW width \in Nat, NEW a \in Row(width), NEW b \in Row(width),
           NEW c \in Row(width), Beyond(b, a), Beyond(c, b)
    PROVE  Beyond(c, a)
<1>1. PICK i \in 1 .. width : /\ \A j \in 1 .. i - 1 : b[j] = a[j]
                              /\ GreaterThan(b[i], a[i])
    BY DEF Beyond, Row
<1>2. PICK k \in 1 .. width : /\ \A j \in 1 .. k - 1 : c[j] = b[j]
                              /\ GreaterThan(c[k], b[k])
    BY DEF Beyond, Row
<1>3. DOMAIN a = 1 .. width
    BY DEF Row
<1>4. \A x, y, z \in Cell : GreaterThan(x, y) /\ GreaterThan(y, z) => GreaterThan(x, z)
    BY DEF GreaterThan, Cell
<1>5. /\ a \in [1 .. width -> Cell] /\ b \in [1 .. width -> Cell]
      /\ c \in [1 .. width -> Cell]
    BY DEF Row
<1>6. CASE i < k
    BY <1>1, <1>2, <1>3, <1>6 DEF Beyond
<1>7. CASE i = k
    BY <1>1, <1>2, <1>3, <1>4, <1>5, <1>7 DEF Beyond
<1>8. CASE k < i
    BY <1>1, <1>2, <1>3, <1>8 DEF Beyond
<1> QED
    BY <1>6, <1>7, <1>8

\* Of two different rows without NULL one is beyond the other: the primary
\* key breaks every tie of the cursor column.
THEOREM BeyondTotal ==
    ASSUME NEW width \in Nat, NEW a \in FullRow(width), NEW b \in FullRow(width),
           a # b
    PROVE  Beyond(a, b) \/ Beyond(b, a)
<1> DEFINE T == {i \in 1 .. width : a[i] # b[i]}
<1>1. /\ a \in [1 .. width -> Cell] /\ b \in [1 .. width -> Cell]
      /\ \A i \in 1 .. width : a[i] # Null /\ b[i] # Null
    BY DEF FullRow, Row
<1>2. T # {}
    BY <1>1
<1>3. PICK i \in T : \A k \in T : i <= k
  <2>1. T \in SUBSET (1 .. width)
      OBVIOUS
  <2> HIDE DEF T
  <2> QED
      BY <1>2, <2>1, LeastColumn
<1>4. \A j \in 1 .. i - 1 : a[j] = b[j]
    BY <1>3
<1>5. \A x, y \in Cell : x # y /\ x # Null /\ y # Null =>
          GreaterThan(x, y) \/ GreaterThan(y, x)
    BY DEF GreaterThan, Cell
<1>6. GreaterThan(a[i], b[i]) \/ GreaterThan(b[i], a[i])
    BY <1>1, <1>3, <1>5
<1> QED
    BY <1>1, <1>3, <1>4, <1>6 DEF Beyond

\* Pages neither skip nor repeat a row: what is beyond the last row of a page
\* is exactly what the query found and the page has left out. This takes rows
\* without NULL, and a where clause that acts as one conjunct.
THEOREM PagesContinue ==
    ASSUME NEW width \in Nat, NEW table \in SUBSET FullRow(width), NEW where,
           NEW from \in Row(width), NEW size, NEW page, NEW end,
           IsPageOf(page, MatchingBeyond(table, where, from), size),
           IsLastOf(end, page)
    PROVE  MatchingBeyond(table, where, end) =
               MatchingBeyond(table, where, from) \ page
<1> DEFINE found == MatchingBeyond(table, where, from)
<1>1. /\ page \subseteq found /\ end \in page
      /\ \A r \in page, q \in found : Beyond(r, q) => q \in page
      /\ \A r \in page : r = end \/ Beyond(end, r)
    BY DEF IsPageOf, IsLastOf
<1>2. \A r \in table : r \in FullRow(width) /\ r \in Row(width)
    BY DEF FullRow
<1>3. /\ found \subseteq table
      /\ \A r \in table : r \in found <=> r \in where /\ Beyond(r, from)
    BY DEF MatchingBeyond
<1>4. end \in Row(width) /\ end \in FullRow(width) /\ Beyond(end, from)
    BY <1>1, <1>2, <1>3
<1> HIDE DEF found
<1>5. ASSUME NEW r \in table, r \in where, Beyond(r, end)
      PROVE  r \in found /\ r \notin page
  <2>1. Beyond(r, from)
      BY <1>2, <1>4, <1>5, BeyondTransitive
  <2>2. ~Beyond(end, r) /\ r # end
      BY <1>2, <1>4, <1>5, BeyondTransitive, BeyondIrreflexive
  <2> QED
      BY <1>1, <1>3, <1>5, <2>1, <2>2
<1>6. ASSUME NEW r \in found, r \notin page
      PROVE  r \in where /\ Beyond(r, end)
  <2>1. ~Beyond(end, r) /\ r # end
      BY <1>1, <1>6
  <2> QED
      BY <1>2, <1>3, <1>4, <2>1, BeyondTotal
<1> QED
    BY <1>3, <1>5, <1>6 DEF MatchingBeyond, found

\* PollRunner's order of keys is the expansion for one primary key column.
THEOREM LessIsBeyond ==
    ASSUME NEW a \in Cursors, NEW b \in Cursors
    PROVE  Less(a, b) <=>
               Beyond(<< <<b.ts>>, <<b.pk>> >>, << <<a.ts>>, <<a.pk>> >>)
<1>1. /\ a.ts \in Int /\ a.pk \in Int /\ b.ts \in Int /\ b.pk \in Int
    BY SizesAssumption DEF Cursors, Keys, NoCursor
<1> DEFINE x == << <<b.ts>>, <<b.pk>> >>
           y == << <<a.ts>>, <<a.pk>> >>
<1>2. /\ DOMAIN y = 1 .. 2
      /\ GreaterThan(x[1], y[1]) <=> b.ts > a.ts
      /\ GreaterThan(x[2], y[2]) <=> b.pk > a.pk
      /\ x[1] = y[1] <=> b.ts = a.ts
    BY <1>1 DEF GreaterThan, Null
<1> HIDE DEF x, y
<1>3. Beyond(x, y) <=> \/ GreaterThan(x[1], y[1])
                       \/ x[1] = y[1] /\ GreaterThan(x[2], y[2])
  <2>1. 1 .. 2 = {1, 2} /\ 1 .. 1 - 1 = {} /\ 1 .. 2 - 1 = {1}
      OBVIOUS
  <2> QED
      BY <1>2, <2>1 DEF Beyond
<1> QED
    BY <1>1, <1>2, <1>3 DEF Less, x, y
=============================================================================
