------------------------ MODULE PollerOverStoreProofs ------------------------
(***************************************************************************)
(* Ticks over the calls of the checkpoint store implement PollRunner, for  *)
(* any number of instances, rows, owner ids and writes, and clocks that    *)
(* agree up to the grace period.                                           *)
(***************************************************************************)
EXTENDS PollerOverStore, CheckpointStoreProofs

-----------------------------------------------------------------------------
(* The inductive invariant. StoreInv is what CheckpointStoreProofs knows   *)
(* of the store; the others relate the ticks to their calls.               *)

StoreInv ==
    /\ TypeOK /\ AuthorInv /\ EtagInv /\ RequestInv /\ BoundInv /\ HolderInv
    /\ AwaitInv

PollerTypeOK ==
    /\ rows \subseteq Steps!Keys
    /\ place \in [Instances -> {"idle", "load", "fetch", "handle", "commit", "release"}]
    /\ cursor \in [Instances -> Checkpoints]
    /\ batch \in [Instances -> SUBSET Steps!Keys]
    /\ last \in [Instances -> Checkpoints]
    /\ batches \in [Instances -> Nat]
    /\ accepted \subseteq Instances

\* A tick that is not at a call has no call under way, a tick has a lease
\* id, and the locals of no tick are unset.
CallInv ==
    \A i \in Instances :
        /\ place[i] = "idle" <=> held[i] = NoLease
        /\ pc[i] = "idle" <=> call[i].name = "none"
        /\ pc[i] = "await" => sent[i] # NoWrite
        /\ \/ pc[i] = "idle"
           \/ place[i] = "idle" /\ call[i].name = "acquire"
           \/ /\ place[i] = "commit" /\ call[i].name = "commit"
              /\ call[i].checkpoint = last[i]
           \/ place[i] = "release" /\ call[i].name = "release"
        /\ place[i] \in {"handle", "commit"} => last[i] # Empty
        /\ place[i] = "idle" =>
              /\ cursor[i] = Empty /\ batch[i] = {}
              /\ last[i] = Empty /\ batches[i] = 0

\* The lease of a running tick is the same in the blob, in the copy it has
\* read and in its requests.
KeptInv ==
    \A i \in Instances : Running(i) =>
        /\ blob.doc # NoDoc /\ blob.doc.lease.owner = held[i].owner
           => blob.doc.lease = held[i]
        /\ seen[i].doc # NoDoc /\ seen[i].doc.lease.owner = held[i].owner
           => seen[i].doc.lease = held[i]
        /\ \A w \in wire : w.by = held[i].owner => w.doc.lease = held[i]

\* Until it is over, a tick has no request on its way but the one it waits
\* for. A request that can still be accepted has not been accepted before.
SentInv ==
    \A i \in Instances :
        /\ place[i] \in {"load", "fetch", "handle", "commit"} =>
              \A w \in wire : Live(w) /\ w.by = held[i].owner => w = sent[i]
        /\ /\ Waiting(i, "acquire")
           /\ sent[i] \in wire /\ Live(sent[i]) /\ blob.doc # NoDoc
           => blob.doc.lease.owner # sent[i].by
        /\ i \in accepted => pc[i] = "await" /\ sent[i].etag < blob.etag

PollerInv == StoreInv /\ PollerTypeOK /\ CallInv /\ KeptInv /\ SentInv

\* The cursors of the runner are the checkpoints of the store.
LEMMA CursorTypes ==
    /\ Checkpoints = Steps!Keys \cup {Empty}
    /\ Empty \notin Steps!Keys
    /\ Empty = Runner!NoCursor /\ Empty = Steps!NoCursor
    /\ Runner!Keys = Steps!Keys /\ Runner!Cursors = Checkpoints
  BY CheckpointsAssumption
     DEF Steps!Keys, Steps!Cursors, Steps!NoCursor,
         Runner!Keys, Runner!Cursors, Runner!NoCursor

-----------------------------------------------------------------------------
(* The kinds of step of the composition.                                   *)

Others(i) == \A j \in Instances \ {i} : Same(j)

\* Nothing but the time and requests that cannot be accepted any more.
Passing ==
    /\ UNCHANGED <<table, place, locals, accepted, blob, writes, issued>>
    /\ now' \in {now, now + 1}
    /\ wire' \subseteq wire /\ \A w \in wire : Live(w) => w \in wire'
    /\ \A j \in Instances : Same(j)

\* A tick calls the store.
Starting(i) ==
    /\ Reading(i)
    /\ UNCHANGED <<table, place, locals, accepted>>
    /\ \/ place[i] = "idle" /\ call'[i].name = "acquire"
       \/ /\ place[i] = "commit" /\ call'[i].name = "commit"
          /\ call'[i].checkpoint = last[i]
       \/ place[i] = "release" /\ call'[i].name = "release"

\* A call sends its request.
Requesting(i, w) ==
    /\ Writing(i, w)
    /\ UNCHANGED <<table, place, locals, accepted>>
    /\ call[i].name \in {"acquire", "commit", "release"}
    /\ call[i].name = "commit" => VerifyLease(seen[i].doc.lease, i)

\* A call fails, or a process dies.
Failing(i) ==
    /\ UNCHANGED <<table, now, blob, writes, issued>>
    /\ wire' \subseteq wire /\ \A w \in wire : Live(w) => w \in wire'
    /\ Others(i) /\ Ended(i, held'[i], Empty)
    /\ accepted' = accepted \ {i}
    /\ \/ held'[i] = NoLease /\ Over(i)
       \/ held'[i] = held[i] /\ pc[i] # "idle" /\ NotCommitted(i)

\* The service accepts a request, and its tick may learn of it.
Applying(w) ==
    /\ Accepting(w)
    /\ UNCHANGED table
    /\ \/ /\ \A j \in Instances : Same(j)
          /\ UNCHANGED <<place, locals>>
          /\ accepted' = accepted \cup {j \in Instances : sent[j] = w}
       \/ /\ sent[w.by.inst] = w /\ w \notin wire'
          /\ Ended(w.by.inst, HeldAfter(w), call[w.by.inst].checkpoint)
          /\ Others(w.by.inst)
          /\ accepted' = accepted \ {w.by.inst}
          /\ \/ Acquired(w.by.inst) \/ Committed(w.by.inst)
             \/ Over(w.by.inst)

\* A step of the composition is a step of the store, or leaves it alone.
LEMMA StepOfStore ==
    ASSUME PollerTypeOK, CallInv, [PollerNext]_pollerVars
    PROVE  [Next]_vars
<1>1. Between => UNCHANGED vars
  BY DEF Between, store
<1>2. Calling => Next
  <2> SUFFICES ASSUME NEW i \in Instances,
                      \/ Acquire(i)
                      \/ place[i] = "commit" /\ Commit(i, last[i])
                      \/ Release(i)
               PROVE  Next
    BY DEF Calling
  <2>1. place[i] = "commit" => last[i] \in Checkpoints \ {Empty}
    BY DEF CallInv, PollerTypeOK
  <2> QED
    BY <2>1 DEF Next, Step
<1>3. ClientSteps => Next
  BY DEF ClientSteps, Next, Step
<1>4. ServiceSteps => Next
  BY DEF ServiceSteps, Next
<1>5. Environment => Next
  BY DEF Environment, Next, Step
<1>6. UNCHANGED pollerVars => UNCHANGED vars
  BY DEF pollerVars, store
<1> QED
  BY <1>1, <1>2, <1>3, <1>4, <1>5, <1>6 DEF PollerNext

\* A step in which the call of i ends with an exception.
LEMMA RaisesFail ==
    ASSUME PollerInv, NEW i \in Instances, pc[i] # "idle",
           UNCHANGED <<now, blob, writes, issued>>,
           wire' \subseteq wire, \A w \in wire : Live(w) => w \in wire',
           Ended(i, IF call[i].name = "release" THEN NoLease ELSE held[i], Empty),
           Others(i), GoesOn, Unanswered(accepted)
    PROVE  Failing(i)
<1>0. PollerTypeOK /\ CallInv /\ SentInv
  BY DEF PollerInv
<1>1. \A j \in Instances \ {i} : ~Ends(j)
  BY DEF Others, Same, Ends
<1>2. Ends(i)
  BY DEF Ended, Ends
<1>3. UNCHANGED table /\ (Acquired(i) \/ Committed(i) \/ NotCommitted(i) \/ Over(i))
  BY <1>1, <1>2 DEF GoesOn
<1>4. accepted' = accepted \ {i}
  BY <1>0 DEF Unanswered, Ended, Others, Same, SentInv, PollerTypeOK
<1> QED
  BY <1>0, <1>3, <1>4 DEF Failing, CallInv, Ended, Acquired, Committed, NotCommitted, Over

\* A call that goes on leaves the tick where it is.
LEMMA StaysThere ==
    ASSUME PollerInv, GoesOn, Unanswered(accepted),
           \A j \in Instances : pc'[j] = "idle" => pc[j] = "idle",
           \A j \in Instances : pc[j] = "await" => pc'[j] = "await"
    PROVE  UNCHANGED <<table, place, locals, accepted>>
<1>1. \A j \in Instances : ~Ends(j)
  BY DEF Ends
<1>2. accepted' = accepted
  BY DEF Unanswered, PollerInv, PollerTypeOK, SentInv
<1> QED
  BY <1>1, <1>2 DEF GoesOn

\* The steps of a client's call: it sends its request, or it fails.
LEMMA ClientShape ==
    ASSUME PollerInv, ClientSteps
    PROVE  \E i \in Instances : Failing(i) \/ \E w \in Writes : Requesting(i, w)
<1>0. TypeOK /\ CallInv
  BY DEF PollerInv, StoreInv
<1>1. PICK i \in Instances :
         \/ ReadFails(i) \/ AcquireConflict(i) \/ Lost(i) \/ Timeout(i)
         \/ AcquireCreate(i) \/ AcquireSteal(i) \/ CommitWrite(i) \/ ReleaseWrite(i)
  BY DEF ClientSteps
<1>2. CASE ReadFails(i) \/ AcquireConflict(i) \/ Lost(i) \/ Timeout(i)
  <2>1. Raise(i) /\ pc[i] # "idle"
    BY <1>2 DEF ReadFails, AcquireConflict, Lost, Timeout, Deciding
  <2>2. /\ Ended(i, IF call[i].name = "release" THEN NoLease ELSE held[i], Empty)
        /\ Others(i)
    BY <1>0, <2>1, EndFrame DEF Raise, Others
  <2> QED
    BY <2>1, <2>2, RaisesFail DEF Raise, ClientSteps, service
<1>3. CASE AcquireCreate(i) \/ AcquireSteal(i) \/ CommitWrite(i) \/ ReleaseWrite(i)
  <2>1. PICK w \in Writes : Writing(i, w)
    BY <1>0, <1>3, RequestShape
  <2>2. UNCHANGED <<table, place, locals, accepted>>
    <3>1. \A j \in Instances : \/ pc'[j] = pc[j]
                               \/ pc[j] = "decide" /\ pc'[j] = "await"
      BY <2>1 DEF Writing, Same
    <3> QED
      BY <3>1, StaysThere DEF ClientSteps
  <2>3. /\ call[i].name \in {"acquire", "commit", "release"}
        /\ call[i].name = "commit" => VerifyLease(seen[i].doc.lease, i)
    BY <1>3 DEF AcquireCreate, AcquireSteal, CommitWrite, ReleaseWrite, Deciding
  <2> QED
    BY <2>1, <2>2, <2>3 DEF Requesting
<1> QED
  BY <1>1, <1>2, <1>3

\* The steps of the service: a request is accepted, its caller is told that
\* it is refused, or nobody is told.
LEMMA ServiceShape ==
    ASSUME PollerInv, ServiceSteps
    PROVE  \/ Passing
           \/ \E i \in Instances : Failing(i)
           \/ \E w \in wire : Applying(w)
<1>0. TypeOK /\ CallInv /\ PollerTypeOK /\ SentInv /\ AwaitInv
  BY DEF PollerInv, StoreInv
<1>1. ASSUME NEW w \in wire, Accept(w),
             Unanswered(accepted \cup {i \in Instances : sent[i] = w}), GoesOn
      PROVE  Applying(w)
  <2> DEFINE i == w.by.inst
  <2>1. i \in Instances /\ w # NoWrite
    BY <1>0, Members, AbsenceAssumption DEF TypeOK
  <2>2. \A j \in Instances : sent[j] = w => pc[j] = "await" /\ j = i
    BY <1>0, <2>1 DEF AwaitInv
  <2>3. Accepting(w)
    BY <1>0, <1>1, AnswerShape DEF Accept, Accepting
  <2>4. CASE \A j \in Instances : Same(j)
    <3>1. \A j \in Instances : ~Ends(j)
      BY <2>4 DEF Same, Ends
    <3>2. accepted' = accepted \cup {j \in Instances : sent[j] = w}
      BY <1>0, <1>1, <2>2, <2>4 DEF Unanswered, Same, SentInv, PollerTypeOK
    <3> QED
      BY <1>1, <2>3, <2>4, <3>1, <3>2 DEF GoesOn, Applying
  <2>5. CASE \E j \in Instances : ~Same(j)
    <3>1. /\ sent[i] = w /\ w \notin wire'
          /\ Ended(i, HeldAfter(w), call[i].checkpoint) /\ Others(i)
      BY <2>3, <2>5 DEF Accepting, Others
    <3>2. /\ Ends(i) /\ \A j \in Instances \ {i} : ~Ends(j)
      BY <2>1, <2>2, <3>1 DEF Ends, Ended, Others, Same
    <3>3. /\ Acquired(i) \/ Committed(i) \/ NotCommitted(i) \/ Over(i)
          /\ UNCHANGED table
      BY <1>1, <2>1, <3>2 DEF GoesOn
    <3>4. ~NotCommitted(i)
      <4>1. call[i].name = "commit" => call[i].checkpoint # Empty
        BY <1>0, <2>1, <2>2, <3>1 DEF CallInv
      <4> QED
        BY <3>1, <4>1 DEF NotCommitted, Ended
    <3>5. accepted' = accepted \ {i}
      BY <1>0, <1>1, <2>1, <2>2, <3>1
         DEF Unanswered, Ended, Others, Same, SentInv, PollerTypeOK
    <3> QED
      BY <2>3, <3>1, <3>3, <3>4, <3>5 DEF Applying
  <2> QED
    BY <2>4, <2>5
<1>2. ASSUME NEW w \in wire, Reject(w), Unanswered(accepted), GoesOn
      PROVE  Passing \/ Failing(w.by.inst)
  <2> DEFINE i == w.by.inst
  <2>1. i \in Instances /\ w # NoWrite
    BY <1>0, Members, AbsenceAssumption DEF TypeOK
  <2>2. /\ UNCHANGED <<now, blob, writes, issued>>
        /\ wire' \subseteq wire /\ \A v \in wire : Live(v) => v \in wire'
    BY <1>2 DEF Reject, Answer, Live
  <2>3. CASE UNCHANGED client
    <3>1. \A j \in Instances : Same(j)
      BY <2>3 DEF client, Same
    <3>2. UNCHANGED <<table, place, locals, accepted>>
      BY <1>2, <3>1, StaysThere DEF Same
    <3> QED
      BY <2>2, <3>1, <3>2 DEF Passing
  <2>4. CASE sent[i] = w /\ End(i, HeldAfterConflict(w), Empty)
    <3>1. Ended(i, HeldAfterConflict(w), Empty) /\ Others(i)
      BY <1>0, <2>1, <2>4, EndFrame DEF Others
    <3>2. pc[i] # "idle"
      BY <1>0, <2>1, <2>4 DEF AwaitInv
    <3> QED
      BY <1>2, <2>1, <2>2, <3>1, <3>2, RaisesFail DEF HeldAfterConflict
  <2> QED
    BY <1>2, <2>3, <2>4 DEF Reject, Answer
<1> QED
  BY <1>0, <1>1, <1>2, Members DEF ServiceSteps, TypeOK

\* Every step is of one of the kinds.
LEMMA PollerShape ==
    ASSUME PollerInv, [PollerNext]_pollerVars
    PROVE  \/ Between
           \/ Passing
           \/ \E i \in Instances : Starting(i) \/ Failing(i)
           \/ \E i \in Instances : \E w \in Writes : Requesting(i, w)
           \/ \E w \in wire : Applying(w)
<1>0. TypeOK /\ CallInv /\ PollerTypeOK /\ SentInv
  BY DEF PollerInv, StoreInv
<1>1. CASE Calling
  <2>1. PICK i \in Instances :
           \/ place[i] = "idle" /\ Acquire(i)
           \/ place[i] = "commit" /\ Commit(i, last[i])
           \/ place[i] = "release" /\ Release(i)
    BY <1>1 DEF Calling
  <2>2. place[i] = "commit" => last[i] \in Checkpoints \ {Empty}
    BY <1>0 DEF CallInv, PollerTypeOK
  <2>3. Reading(i)
    BY <1>0, <2>1, <2>2, ReadShape, EmptyAssumption DEF Acquire, Commit, Release
  <2>4. \/ place[i] = "idle" /\ call'[i].name = "acquire"
        \/ /\ place[i] = "commit" /\ call'[i].name = "commit"
           /\ call'[i].checkpoint = last[i]
        \/ place[i] = "release" /\ call'[i].name = "release"
    BY <1>0, <2>1 DEF Acquire, Commit, Release, ReadState, TypeOK
  <2> QED
    BY <1>1, <2>3, <2>4 DEF Calling, Starting
<1>2. CASE Tick /\ UNCHANGED <<place, locals, table>> /\ Unanswered(accepted)
  <2>1. (\A j \in Instances : Same(j)) /\ UNCHANGED <<blob, writes, wire, issued>>
    BY <1>2 DEF Tick, Same, client, service
  <2>2. accepted' = accepted
    BY <1>0, <1>2, <2>1 DEF Unanswered, Same, SentInv, PollerTypeOK
  <2> QED
    BY <1>2, <2>1, <2>2 DEF Tick, Passing
<1>3. ASSUME NEW i \in Instances, Crash(i), Over(i), Unanswered(accepted),
             UNCHANGED table
      PROVE  Failing(i)
  <2>1. Ended(i, NoLease, Empty) /\ Others(i)
    BY <1>0, <1>3, EndFrame DEF Crash, Others
  <2>2. accepted' = accepted \ {i}
    BY <1>0, <1>3, <2>1 DEF Unanswered, Ended, Others, Same, SentInv, PollerTypeOK
  <2> QED
    BY <1>3, <2>1, <2>2 DEF Crash, Failing, Ended, service
<1>4. CASE UNCHANGED pollerVars
  BY <1>4 DEF pollerVars, store, vars, service, client, Passing, Same
<1> QED
  BY <1>1, <1>2, <1>3, <1>4, ClientShape, ServiceShape
     DEF PollerNext, Environment

-----------------------------------------------------------------------------
(* Every step preserves the invariant.                                     *)

\* What a step of the tick between its calls does.
Works(i, from, to) ==
    /\ place[i] = from /\ place' = [place EXCEPT ![i] = to]
    /\ UNCHANGED <<vars, accepted, batches>>

\* The steps between the calls.
LEMMA BetweenShape ==
    ASSUME PollerInv, Between
    PROVE  \/ Steps!Arrive /\ UNCHANGED <<vars, accepted, place, locals>>
           \/ \E i \in Instances :
                 /\ rows' = rows
                 /\ \/ /\ Works(i, "load", "fetch")
                       /\ \E c \in Checkpoints : cursor' = [cursor EXCEPT ![i] = c]
                       /\ UNCHANGED <<batch, last>>
                    \/ /\ Works(i, "fetch", "handle")
                       /\ \E b \in SUBSET Steps!Keys : batch' = [batch EXCEPT ![i] = b]
                       /\ \E l \in Steps!Keys : last' = [last EXCEPT ![i] = l]
                       /\ UNCHANGED cursor
                    \/ /\ \/ Works(i, "handle", "commit")
                          \/ \E from \in {"load", "fetch", "handle"} :
                                Works(i, from, "release")
                       /\ UNCHANGED <<cursor, batch, last>>
<1> USE DEF Steps!tick, Steps!source, Steps!blob, Steps!GoTo, Works, store, locals
<1>1. UNCHANGED <<vars, accepted>>
  BY DEF Between
<1>2. CASE Steps!Arrive
  BY <1>1, <1>2 DEF Steps!Arrive, Steps!Insert, Steps!Update
<1>3. ASSUME NEW i \in Instances, Steps!Load(i)
      PROVE  /\ rows' = rows /\ Works(i, "load", "fetch")
             /\ \E c \in Checkpoints : cursor' = [cursor EXCEPT ![i] = c]
             /\ UNCHANGED <<batch, last>>
  <2>1. SeenBlob.checkpoint \in Checkpoints
    BY Members, EmptyAssumption DEF SeenBlob, PollerInv, StoreInv, TypeOK, Docs
  <2> QED
    BY <1>1, <1>3, <2>1 DEF Steps!Load
<1>4. ASSUME NEW i \in Instances, Steps!FetchBatch(i)
      PROVE  /\ rows' = rows /\ Works(i, "fetch", "handle")
             /\ \E b \in SUBSET Steps!Keys : batch' = [batch EXCEPT ![i] = b]
             /\ \E l \in Steps!Keys : last' = [last EXCEPT ![i] = l]
             /\ UNCHANGED cursor
  <2>1. Steps!Ahead(cursor[i]) \subseteq Steps!Keys
    BY DEF Steps!Ahead, PollerInv, PollerTypeOK
  <2>2. PICK b \in SUBSET Steps!Ahead(cursor[i]) : \E l \in b :
           /\ batch' = [batch EXCEPT ![i] = b]
           /\ last' = [last EXCEPT ![i] = l]
    BY <1>4 DEF Steps!FetchBatch
  <2> QED
    BY <1>1, <1>4, <2>1, <2>2 DEF Steps!FetchBatch
<1>5. ASSUME NEW i \in Instances, NEW from \in {"load", "fetch"}, Steps!Fail(i, from)
      PROVE  /\ rows' = rows /\ Works(i, from, "release")
             /\ UNCHANGED <<cursor, batch, last>>
  BY <1>1, <1>5 DEF Steps!Fail
<1>6. ASSUME NEW i \in Instances, Steps!LoopEnds(i)
      PROVE  /\ rows' = rows /\ Works(i, "fetch", "release")
             /\ UNCHANGED <<cursor, batch, last>>
  BY <1>1, <1>6 DEF Steps!LoopEnds
<1>7. ASSUME NEW i \in Instances, Steps!HandlerOk(i)
      PROVE  /\ rows' = rows /\ Works(i, "handle", "commit")
             /\ UNCHANGED <<cursor, batch, last>>
  BY <1>1, <1>7 DEF Steps!HandlerOk
<1>8. ASSUME NEW i \in Instances, Steps!HandlerFails(i)
      PROVE  /\ rows' = rows /\ Works(i, "handle", "release")
             /\ UNCHANGED <<cursor, batch, last>>
  BY <1>1, <1>8 DEF Steps!HandlerFails, Steps!Fail
<1> QED
  BY <1>2, <1>3, <1>4, <1>5, <1>6, <1>7, <1>8 DEF Between

\* The steps between the calls preserve what relates ticks and calls.
LEMMA BetweenKeeps ==
    ASSUME PollerInv, Between
    PROVE  PollerTypeOK' /\ CallInv' /\ KeptInv' /\ SentInv'
<1>0. PollerTypeOK /\ CallInv /\ KeptInv /\ SentInv
  BY DEF PollerInv
<1>1. CASE Steps!Arrive /\ UNCHANGED <<vars, accepted, place, locals>>
  <2>1. rows' \subseteq Steps!Keys
    BY <1>0, <1>1 DEF Steps!Arrive, Steps!Insert, Steps!Update, PollerTypeOK
  <2> QED
    BY <1>0, <1>1, <2>1
       DEF vars, service, client, locals, PollerTypeOK, CallInv, KeptInv, SentInv,
           Running, Waiting, Live
<1>2. ASSUME NEW i \in Instances, rows' = rows,
             \/ /\ Works(i, "load", "fetch")
                /\ \E c \in Checkpoints : cursor' = [cursor EXCEPT ![i] = c]
                /\ UNCHANGED <<batch, last>>
             \/ /\ Works(i, "fetch", "handle")
                /\ \E b \in SUBSET Steps!Keys : batch' = [batch EXCEPT ![i] = b]
                /\ \E l \in Steps!Keys : last' = [last EXCEPT ![i] = l]
                /\ UNCHANGED cursor
             \/ /\ \/ Works(i, "handle", "commit")
                   \/ \E from \in {"load", "fetch", "handle"} :
                         Works(i, from, "release")
                /\ UNCHANGED <<cursor, batch, last>>
      PROVE  PollerTypeOK' /\ CallInv' /\ KeptInv' /\ SentInv'
  <2>1. UNCHANGED <<blob, wire, pc, call, seen, sent, held, accepted>>
    BY <1>2 DEF Works, vars, service, client
  <2>2. PollerTypeOK'
    BY <1>0, <1>2, CursorTypes DEF PollerTypeOK, Works
  <2>3. CallInv'
    <3> SUFFICES ASSUME NEW j \in Instances PROVE CallInv!(j)'
      BY DEF CallInv
    <3>1. CASE j = i
      <4>1. pc[i] = "idle" /\ place[i] # "idle"
        BY <1>0, <1>2 DEF CallInv, Works
      <4>2. /\ place'[i] \in {"fetch", "handle", "commit", "release"}
            /\ place'[i] \in {"handle", "commit"} => last'[i] # Empty
        BY <1>0, <1>2, CursorTypes DEF Works, PollerTypeOK, CallInv
      <4> QED
        BY <1>0, <2>1, <3>1, <4>1, <4>2 DEF CallInv
    <3>2. CASE j # i
      <4>1. /\ place'[j] = place[j] /\ cursor'[j] = cursor[j] /\ batch'[j] = batch[j]
            /\ last'[j] = last[j] /\ batches'[j] = batches[j]
        BY <1>0, <1>2, <3>2 DEF Works, PollerTypeOK
      <4> QED
        BY <1>0, <2>1, <4>1 DEF CallInv
    <3> QED
      BY <3>1, <3>2
  <2>4. KeptInv'
    BY <1>0, <2>1 DEF KeptInv, Running, Waiting
  <2>5. SentInv'
    <3>1. \A j \in Instances :
             place'[j] \in {"load", "fetch", "handle", "commit"} =>
                place[j] \in {"load", "fetch", "handle", "commit"}
      BY <1>0, <1>2 DEF Works, PollerTypeOK
    <3> QED
      BY <1>0, <2>1, <3>1 DEF SentInv, Waiting, Live
  <2> QED
    BY <2>2, <2>3, <2>4, <2>5
<1> QED
  BY <1>1, <1>2, BetweenShape

\* The passing of time preserves what relates ticks and calls.
LEMMA PassingKeeps ==
    ASSUME PollerInv, Passing
    PROVE  PollerTypeOK' /\ CallInv' /\ KeptInv' /\ SentInv'
<1>0. PollerTypeOK /\ CallInv /\ KeptInv /\ SentInv
  BY DEF PollerInv
<1>1. UNCHANGED <<rows, place, cursor, batch, last, batches, accepted, blob>>
  BY DEF Passing, table, locals
<1>2. PollerTypeOK'
  BY <1>0, <1>1 DEF PollerTypeOK
<1>3. CallInv'
  BY <1>0, <1>1 DEF CallInv, Passing, Same
<1>4. KeptInv'
  BY <1>0, <1>1 DEF KeptInv, Running, Waiting, Passing, Same
<1>5. SentInv'
  BY <1>0, <1>1 DEF SentInv, Waiting, Live, Passing, Same
<1> QED
  BY <1>2, <1>3, <1>4, <1>5

\* So does the beginning of a call.
LEMMA StartingKeeps ==
    ASSUME PollerInv, NEW i \in Instances, Starting(i)
    PROVE  PollerTypeOK' /\ CallInv' /\ KeptInv' /\ SentInv'
<1>0. PollerTypeOK /\ CallInv /\ KeptInv /\ SentInv
  BY DEF PollerInv
<1>1. UNCHANGED <<rows, place, cursor, batch, last, batches, accepted, blob, wire>>
  BY DEF Starting, Reading, table, locals, service
<1>2. /\ \A j \in Instances \ {i} : Same(j)
      /\ pc[i] = "idle" /\ pc'[i] = "decide" /\ seen'[i] = blob
      /\ sent'[i] = sent[i] /\ held'[i] = held[i]
  BY DEF Starting, Reading
<1>3. PollerTypeOK'
  BY <1>0, <1>1 DEF PollerTypeOK
<1>4. CallInv'
  BY <1>0, <1>1, <1>2 DEF CallInv, Starting, Same
<1>5. KeptInv'
  BY <1>0, <1>1, <1>2 DEF KeptInv, Running, Waiting, Same
<1>6. SentInv'
  BY <1>0, <1>1, <1>2 DEF SentInv, Waiting, Live, Same
<1> QED
  BY <1>3, <1>4, <1>5, <1>6

\* So does the failure of a call, or of a process.
LEMMA FailingKeeps ==
    ASSUME PollerInv, NEW i \in Instances, Failing(i)
    PROVE  PollerTypeOK' /\ CallInv' /\ KeptInv' /\ SentInv'
<1>0. PollerTypeOK /\ CallInv /\ KeptInv /\ SentInv
  BY DEF PollerInv
<1>1. /\ UNCHANGED <<rows, blob>> /\ wire' \subseteq wire
      /\ accepted' = accepted \ {i}
      /\ \A j \in Instances \ {i} : Same(j)
      /\ pc'[i] = "idle" /\ call'[i] = NoCall /\ seen'[i] = Missing
  BY DEF Failing, table, Others, Ended
<1>2. NoCall.name = "none" /\ Missing.doc = NoDoc
  BY DEF NoCall, Missing
<1>3. \/ /\ held'[i] = NoLease
         /\ place' = [place EXCEPT ![i] = "idle"]
         /\ cursor' = [cursor EXCEPT ![i] = Empty]
         /\ batch' = [batch EXCEPT ![i] = {}]
         /\ last' = [last EXCEPT ![i] = Empty]
         /\ batches' = [batches EXCEPT ![i] = 0]
      \/ /\ held'[i] = held[i] /\ held[i] # NoLease
         /\ pc[i] # "idle" /\ call[i].name = "commit"
         /\ place' = [place EXCEPT ![i] = "release"]
         /\ UNCHANGED <<cursor, batch, last, batches>>
  BY <1>0 DEF Failing, Over, NotCommitted, Goes, locals, CallInv
<1>4. \A j \in Instances \ {i} :
         /\ place'[j] = place[j] /\ cursor'[j] = cursor[j] /\ batch'[j] = batch[j]
         /\ last'[j] = last[j] /\ batches'[j] = batches[j]
  BY <1>0, <1>3 DEF PollerTypeOK
<1>5. PollerTypeOK'
  BY <1>0, <1>1, <1>3, EmptyAssumption DEF PollerTypeOK
<1>6. CallInv'
  <2>1. ASSUME NEW j \in Instances \ {i} PROVE CallInv!(j)'
    BY <1>0, <1>1, <1>4 DEF CallInv, Same
  <2>2. CallInv!(i)'
    BY <1>0, <1>1, <1>2, <1>3 DEF PollerTypeOK
  <2> QED
    BY <2>1, <2>2 DEF CallInv
<1>7. KeptInv'
  BY <1>0, <1>1, <1>2, <1>3 DEF KeptInv, Running, Waiting, Same
<1>8. SentInv'
  BY <1>0, <1>1, <1>2, <1>3, <1>4 DEF SentInv, Waiting, Live, Same, PollerTypeOK
<1> QED
  BY <1>5, <1>6, <1>7, <1>8

\* The owner id of a request is drawn: a request under a new one is not of
\* the blob's owner, and of no other request.
LEMMA TakingIsNew ==
    ASSUME PollerInv, NEW i \in Instances, NEW w \in Writes, Writing(i, w), Taking(i, w)
    PROVE  /\ \A v \in wire : v.by # w.by
           /\ \A j \in Instances : held[j] # NoLease => held[j].owner # w.by
           /\ blob.doc # NoDoc => blob.doc.lease.owner # w.by
<1>1. TypeOK /\ AuthorInv
  BY DEF PollerInv, StoreInv
<1>2. ~Drawn(w.by)
  BY <1>1, HoldingBy, BoundsAssumption DEF Taking, Drawn, TypeOK
<1> QED
  BY <1>1, <1>2 DEF AuthorInv

\* A request that is sent carries the lease of its tick.
LEMMA SentKeeps ==
    ASSUME PollerInv, NEW i \in Instances, NEW w \in Writes, Requesting(i, w),
           Holding(i, w)
    PROVE  /\ held[i] # NoLease /\ w.by = held[i].owner
           /\ call[i].name = "commit" => /\ seen[i].doc.lease = held[i]
                                         /\ w.doc.lease = held[i]
<1>1. TypeOK /\ AuthorInv /\ KeptInv /\ CallInv
  BY DEF PollerInv, StoreInv
<1>2. held[i] # NoLease /\ w.by = held[i].owner
  BY <1>1, HoldingBy DEF Requesting, Holding
<1>3. call[i].name = "commit" => Running(i)
  BY <1>2 DEF Running, Waiting
<1> QED
  BY <1>1, <1>2, <1>3 DEF KeptInv, Holding

\* The sending of a request preserves what relates ticks and calls.
LEMMA RequestingKeeps ==
    ASSUME PollerInv, NEW i \in Instances, NEW w \in Writes, Requesting(i, w)
    PROVE  PollerTypeOK' /\ CallInv' /\ KeptInv' /\ SentInv'
<1>0. /\ PollerTypeOK /\ CallInv /\ KeptInv /\ SentInv
      /\ TypeOK /\ AuthorInv /\ AwaitInv
  BY DEF PollerInv, StoreInv
<1>1. /\ UNCHANGED <<rows, place, cursor, batch, last, batches, accepted, blob>>
      /\ Writing(i, w) /\ w # NoWrite
      /\ call[i].name \in {"acquire", "commit", "release"}
  BY AbsenceAssumption DEF Requesting, Writing, table, locals
<1>2. /\ \A j \in Instances \ {i} : Same(j)
      /\ pc[i] = "decide" /\ pc'[i] = "await"
      /\ UNCHANGED <<call[i], seen[i], held[i]>>
      /\ wire' = wire \cup {w} /\ sent'[i] = w
  BY <1>1 DEF Writing
<1>3. w.by.inst = i
  BY <1>0, <1>1, HoldingBy
<1>4. \A j \in Instances : held[j] # NoLease /\ w.by = held[j].owner =>
         /\ j = i /\ Holding(i, w)
         /\ call[i].name = "commit" => w.doc.lease = held[i]
  BY <1>0, <1>1, <1>3, TakingIsNew, SentKeeps DEF AuthorInv, Writing
<1>5. PollerTypeOK'
  BY <1>0, <1>1 DEF PollerTypeOK
<1>6. CallInv'
  BY <1>0, <1>1, <1>2 DEF CallInv, Same
<1>7. KeptInv'
  <2> SUFFICES ASSUME NEW j \in Instances, Running(j)' PROVE KeptInv!(j)!2'
    BY DEF KeptInv
  <2>1. /\ Running(j) /\ held'[j] = held[j] /\ seen'[j] = seen[j]
        /\ j = i => call[i].name # "release"
    BY <1>2 DEF Running, Waiting, Same
  <2>2. w.by = held[j].owner => w.doc.lease = held[j]
    <3>1. ASSUME w.by = held[j].owner PROVE w.doc.lease = held[j]
      <4>1. j = i /\ Holding(i, w)
        BY <1>4, <2>1, <3>1 DEF Running
      <4>2. call[i].name = "commit"
        BY <1>1, <2>1, <4>1 DEF Holding
      <4> QED
        BY <1>4, <2>1, <3>1, <4>1, <4>2 DEF Running
    <3> QED
      BY <3>1
  <2> QED
    BY <1>0, <1>1, <1>2, <2>1, <2>2 DEF KeptInv
<1>8. SentInv'
  <2> SUFFICES ASSUME NEW j \in Instances PROVE SentInv!(j)'
    BY DEF SentInv
  <2>1. CASE j # i
    <3>1. /\ held'[j] = held[j] /\ sent'[j] = sent[j] /\ pc'[j] = pc[j]
          /\ call'[j] = call[j]
      BY <1>2, <2>1 DEF Same
    <3>2. sent[j] # w
      BY <1>0, <1>1, <1>3, <2>1 DEF AwaitInv
    <3>3. place[j] # "idle" => w.by # held[j].owner
      BY <1>0, <1>4, <2>1 DEF CallInv
    <3> QED
      BY <1>0, <1>1, <1>2, <3>1, <3>2, <3>3 DEF SentInv, Live, Waiting
  <2>2. CASE j = i
    <3>1. sent[i] = NoWrite /\ NoWrite \notin wire /\ i \notin accepted
      BY <1>0, <1>2, AbsenceAssumption DEF AwaitInv, TypeOK, SentInv
    <3>2. place[i] \in {"load", "fetch", "handle", "commit"} =>
             \A v \in wire : ~(Live(v) /\ v.by = held[i].owner)
      BY <1>0, <3>1 DEF SentInv
    <3>3. call[i].name = "acquire" /\ blob.doc # NoDoc => blob.doc.lease.owner # w.by
      BY <1>0, <1>1, TakingIsNew DEF Writing, Holding
    <3> QED
      BY <1>1, <1>2, <2>2, <3>1, <3>2, <3>3 DEF Live, Waiting
  <2> QED
    BY <2>1, <2>2
<1> QED
  BY <1>5, <1>6, <1>7, <1>8

\* So does the acceptance of a request.
LEMMA ApplyingKeeps ==
    ASSUME PollerInv, NEW w \in wire, Applying(w)
    PROVE  PollerTypeOK' /\ CallInv' /\ KeptInv' /\ SentInv'
<1> DEFINE i == w.by.inst
<1>0. /\ PollerTypeOK /\ CallInv /\ KeptInv /\ SentInv
      /\ TypeOK /\ AuthorInv /\ EtagInv /\ AwaitInv
  BY DEF PollerInv, StoreInv
<1>1. /\ i \in Instances /\ w # NoWrite /\ w \in Writes
      /\ w.etag = blob.etag /\ w.doc.lease.owner = w.by
      /\ w.doc # NoDoc /\ w.doc.lease \in Leases /\ w.doc.lease # NoLease
  BY <1>0, Members, AbsenceAssumption DEF TypeOK, AuthorInv, Applying, Accepting
<1>2. /\ rows' = rows /\ wire' \subseteq wire
      /\ blob'.doc = w.doc /\ blob'.etag = writes + 1
      /\ writes \in Nat /\ blob.etag \in Nat /\ blob.etag <= writes
  BY <1>0, Members DEF Applying, Accepting, table, TypeOK, EtagInv
<1>3. \A v \in wire' : ~Live(v)'
  BY <1>0, <1>2, Members DEF EtagInv, TypeOK, Live
<1>4. NoCall.name = "none" /\ Missing.doc = NoDoc
  BY DEF NoCall, Missing
<1>5. CASE /\ \A j \in Instances : Same(j)
           /\ UNCHANGED <<place, locals>>
           /\ accepted' = accepted \cup {j \in Instances : sent[j] = w}
  <2>1. PollerTypeOK'
    BY <1>0, <1>2, <1>5 DEF PollerTypeOK, locals
  <2>2. CallInv'
    BY <1>0, <1>5 DEF CallInv, Same, locals
  <2>3. KeptInv'
    BY <1>0, <1>1, <1>2, <1>5 DEF KeptInv, Running, Waiting, Same
  <2>4. SentInv'
    <3>1. \A j \in Instances : sent[j] = w => pc[j] = "await"
      BY <1>0, <1>1 DEF AwaitInv
    <3>2. \A j \in accepted' : pc'[j] = "await" /\ sent'[j].etag < blob'.etag
      <4> SUFFICES ASSUME NEW j \in accepted'
                   PROVE  pc'[j] = "await" /\ sent'[j].etag < blob'.etag
        OBVIOUS
      <4>1. /\ j \in Instances /\ pc[j] = "await" /\ sent[j] \in Writes
            /\ pc'[j] = pc[j] /\ sent'[j] = sent[j]
            /\ sent[j] = w \/ sent[j].etag < blob.etag
        BY <1>0, <1>5, <3>1 DEF SentInv, CallInv, TypeOK, PollerTypeOK, Same
      <4>2. sent[j].etag \in Nat
        BY <4>1, Members
      <4> QED
        BY <1>1, <1>2, <4>1, <4>2
    <3> QED
      BY <1>3, <3>2 DEF SentInv
  <2> QED
    BY <2>1, <2>2, <2>3, <2>4
<1>6. CASE /\ sent[i] = w /\ w \notin wire'
           /\ Ended(i, HeldAfter(w), call[i].checkpoint)
           /\ Others(i)
           /\ accepted' = accepted \ {i}
           /\ Acquired(i) \/ Committed(i) \/ Over(i)
  <2>1. /\ \A j \in Instances \ {i} : Same(j)
        /\ pc'[i] = "idle" /\ call'[i] = NoCall /\ seen'[i] = Missing
        /\ held'[i] = HeldAfter(w)
    BY <1>6 DEF Others, Ended
  <2>2. \/ /\ held'[i] = NoLease
           /\ place' = [place EXCEPT ![i] = "idle"]
           /\ cursor' = [cursor EXCEPT ![i] = Empty]
           /\ batch' = [batch EXCEPT ![i] = {}]
           /\ last' = [last EXCEPT ![i] = Empty]
           /\ batches' = [batches EXCEPT ![i] = 0]
        \/ /\ call[i].name = "acquire" /\ held'[i] = w.doc.lease
           /\ place' = [place EXCEPT ![i] = "load"]
           /\ UNCHANGED <<cursor, batch, last, batches>>
        \/ /\ call[i].name = "commit" /\ held'[i] = held[i] /\ held[i] # NoLease
           /\ place' = [place EXCEPT ![i] = "fetch"]
           /\ cursor' = [cursor EXCEPT ![i] = last[i]]
           /\ batches' = [batches EXCEPT ![i] = @ + 1]
           /\ UNCHANGED <<batch, last>>
    BY <1>0, <1>1, <1>6, <2>1
       DEF Acquired, Committed, Over, Goes, locals, HeldAfter, AuthorInv
  <2>3. \A j \in Instances \ {i} :
           /\ place'[j] = place[j] /\ cursor'[j] = cursor[j] /\ batch'[j] = batch[j]
           /\ last'[j] = last[j] /\ batches'[j] = batches[j]
    BY <1>0, <2>2 DEF PollerTypeOK
  <2>4. PollerTypeOK'
    BY <1>0, <1>1, <1>2, <1>6, <2>2, EmptyAssumption DEF PollerTypeOK
  <2>5. CallInv'
    <3>1. ASSUME NEW j \in Instances \ {i} PROVE CallInv!(j)'
      BY <1>0, <2>1, <2>3 DEF CallInv, Same
    <3>2. CallInv!(i)'
      BY <1>0, <1>1, <1>4, <2>1, <2>2 DEF PollerTypeOK
    <3> QED
      BY <3>1, <3>2 DEF CallInv
  <2>6. KeptInv'
    <3> SUFFICES ASSUME NEW j \in Instances, Running(j)' PROVE KeptInv!(j)!2'
      BY DEF KeptInv
    <3>1. CASE j # i
      <4>1. Running(j) /\ held'[j] = held[j] /\ seen'[j] = seen[j]
        BY <2>1, <3>1 DEF Running, Waiting, Same
      <4> QED
        BY <1>0, <1>1, <1>2, <4>1 DEF KeptInv
    <3>2. CASE j = i /\ call[i].name = "acquire"
      <4>1. held'[i] = w.doc.lease
        BY <1>1, <2>2, <3>2 DEF Running
      <4>2. \A v \in wire' : v.by # w.by
        BY <1>0, <1>1, <1>2, <1>6, <3>2 DEF AwaitInv
      <4> QED
        BY <1>1, <1>2, <1>4, <2>1, <3>2, <4>1, <4>2
    <3>3. CASE j = i /\ call[i].name # "acquire"
      <4>1. held'[i] = held[i] /\ held[i] # NoLease /\ call[i].name = "commit"
        BY <2>2, <3>3 DEF Running
      <4>2. Running(i)
        BY <4>1 DEF Running, Waiting
      <4> QED
        BY <1>0, <1>1, <1>2, <1>4, <2>1, <3>3, <4>1, <4>2 DEF KeptInv
    <3> QED
      BY <3>1, <3>2, <3>3
  <2>7. SentInv'
    <3>1. \A j \in accepted' : pc'[j] = "await" /\ sent'[j].etag < blob'.etag
      <4> SUFFICES ASSUME NEW j \in accepted'
                   PROVE  pc'[j] = "await" /\ sent'[j].etag < blob'.etag
        OBVIOUS
      <4>1. /\ j \in Instances /\ pc[j] = "await" /\ sent[j] \in Writes
            /\ pc'[j] = pc[j] /\ sent'[j] = sent[j]
            /\ sent[j].etag < blob.etag
        BY <1>0, <1>6, <2>1 DEF SentInv, CallInv, TypeOK, PollerTypeOK, Same
      <4>2. sent[j].etag \in Nat
        BY <4>1, Members
      <4> QED
        BY <1>1, <1>2, <4>1, <4>2
    <3> QED
      BY <1>3, <3>1 DEF SentInv
  <2> QED
    BY <2>4, <2>5, <2>6, <2>7
<1> QED
  BY <1>5, <1>6 DEF Applying

\* Every step of the composition preserves its invariant.
LEMMA PollerStep ==
    ASSUME ClocksAgree, PollerInv, [PollerNext]_pollerVars
    PROVE  PollerInv'
<1>1. [Next]_vars
  BY StepOfStore DEF PollerInv
<1>2. TypeOK' /\ AuthorInv' /\ EtagInv' /\ RequestInv' /\ BoundInv'
  BY <1>1, TypeStep, AuthorStep, EtagStep, RequestStep, BoundStep
     DEF PollerInv, StoreInv
<1>3. HolderInv' /\ AwaitInv'
  BY <1>1, DeletesAssumption, HolderStep, AwaitStep DEF PollerInv, StoreInv
<1>4. PollerTypeOK' /\ CallInv' /\ KeptInv' /\ SentInv'
  BY PollerShape, BetweenKeeps, PassingKeeps, StartingKeeps, FailingKeeps,
     RequestingKeeps, ApplyingKeeps
<1> QED
  BY <1>2, <1>3, <1>4 DEF PollerInv, StoreInv

\* It holds at first.
LEMMA PollerStart == PollerInit => PollerInv
<1> SUFFICES ASSUME PollerInit PROVE PollerInv
  OBVIOUS
<1>1. TypeOK
  BY Members, EmptyAssumption, BoundsAssumption
     DEF PollerInit, Init, TypeOK, NoCall, Calls, Missing
<1>2. AuthorInv /\ EtagInv /\ RequestInv /\ BoundInv /\ HolderInv /\ AwaitInv
  BY AuthorInit, EtagInit, RequestInit, HolderInit, AckedInit DEF PollerInit
<1>3. PollerTypeOK
  BY EmptyAssumption DEF PollerInit, PollerTypeOK
<1>4. CallInv /\ KeptInv /\ SentInv
  BY DEF PollerInit, Init, CallInv, KeptInv, SentInv, NoCall, Running, Waiting
<1> QED
  BY <1>1, <1>2, <1>3, <1>4 DEF PollerInv, StoreInv

\* It always holds.
LEMMA PollerAlways == ASSUME ClocksAgree PROVE PollerSpec => []PollerInv
  BY ClocksAgree, PollerStart, PollerStep, PTL DEF PollerSpec

-----------------------------------------------------------------------------
(* What PollRunner sees of a step.                                         *)

\* The tick of j is seen as before.
SameSeen(j) ==
    /\ PlaceOf(j)' = PlaceOf(j)
    /\ SeenCursor'[j] = SeenCursor[j] /\ SeenBatch'[j] = SeenBatch[j]
    /\ SeenLast'[j] = SeenLast[j] /\ SeenBatches'[j] = SeenBatches[j]

\* The ticks, when only that of i is seen to change.
LEMMA SeenTicks ==
    ASSUME NEW i \in Instances, \A j \in Instances \ {i} : SameSeen(j)
    PROVE  /\ SeenPlace' = [SeenPlace EXCEPT ![i] = PlaceOf(i)']
           /\ SeenCursor' = [SeenCursor EXCEPT ![i] = SeenCursor'[i]]
           /\ SeenBatch' = [SeenBatch EXCEPT ![i] = SeenBatch'[i]]
           /\ SeenLast' = [SeenLast EXCEPT ![i] = SeenLast'[i]]
           /\ SeenBatches' = [SeenBatches EXCEPT ![i] = SeenBatches'[i]]
           /\ SameSeen(i) => UNCHANGED <<SeenPlace, SeenCursor, SeenBatch,
                                         SeenLast, SeenBatches>>
  BY DEF SameSeen, SeenPlace, SeenCursor, SeenBatch, SeenLast, SeenBatches, InTick

\* The variables of the ticks, one by one.
LEMMA SeenLocals ==
    ASSUME NEW i \in Instances, \A j \in Instances \ {i} : SameSeen(j)
    PROVE  /\ SeenCursor'[i] = SeenCursor[i] => SeenCursor' = SeenCursor
           /\ SeenBatch'[i] = SeenBatch[i] => SeenBatch' = SeenBatch
           /\ SeenLast'[i] = SeenLast[i] => SeenLast' = SeenLast
           /\ SeenBatches'[i] = SeenBatches[i] => SeenBatches' = SeenBatches
  BY DEF SameSeen, SeenCursor, SeenBatch, SeenLast, SeenBatches, InTick

\* What is seen of one tick.
LEMMA SeenTick ==
    ASSUME NEW i \in Instances
    PROVE  /\ SeenPlace[i] = PlaceOf(i)
           /\ ~Waiting(i, "release") =>
                 /\ SeenCursor[i] = cursor[i] /\ SeenBatch[i] = batch[i]
                 /\ SeenLast[i] = last[i] /\ SeenBatches[i] = batches[i]
           /\ Waiting(i, "release") =>
                 /\ SeenCursor[i] = Empty /\ SeenBatch[i] = {}
                 /\ SeenLast[i] = Empty /\ SeenBatches[i] = 0
           /\ ~Waiting(i, "release")' =>
                 /\ SeenCursor'[i] = cursor'[i] /\ SeenBatch'[i] = batch'[i]
                 /\ SeenLast'[i] = last'[i] /\ SeenBatches'[i] = batches'[i]
           /\ Waiting(i, "release")' =>
                 /\ SeenCursor'[i] = Empty /\ SeenBatch'[i] = {}
                 /\ SeenLast'[i] = Empty /\ SeenBatches'[i] = 0
  BY DEF SeenPlace, SeenCursor, SeenBatch, SeenLast, SeenBatches, InTick

\* A tick that takes no part in a step is seen as before.
LEMMA SameIsSeen ==
    ASSUME NEW j \in Instances, Same(j), j \in accepted' <=> j \in accepted,
           place'[j] = place[j], cursor'[j] = cursor[j], batch'[j] = batch[j],
           last'[j] = last[j], batches'[j] = batches[j]
    PROVE  SameSeen(j) /\ (Running(j)' <=> Running(j))
<1>1. /\ \A name : Waiting(j, name)' <=> Waiting(j, name)
      /\ Running(j)' <=> Running(j)
  BY DEF Same, Waiting, Running
<1>2. PlaceOf(j)' = PlaceOf(j)
  BY <1>1 DEF PlaceOf
<1> QED
  BY <1>1, <1>2, SeenTick DEF SameSeen

\* The instance that an owner id stands for stays the same ...
LEMMA TenantStays ==
    ASSUME NEW id, Running(id.inst)' <=> Running(id.inst),
           held'[id.inst] = held[id.inst]
    PROVE  Tenant(id)' = Tenant(id)
  BY DEF Tenant

\* ... unless its tick ends.
LEMMA TenantEnds ==
    ASSUME NEW i \in Instances, ~Running(i)',
           \A j \in Instances \ {i} : held'[j] = held[j]
                                      /\ (Running(j)' <=> Running(j)),
           NEW id, id.inst \in Instances
    PROVE  Tenant(id)' = IF Tenant(id) = i THEN Nobody ELSE Tenant(id)
  BY DEF Tenant

\* The holder of the lease, and nobody else, is seen as its owner.
LEMMA TenantIs ==
    ASSUME NEW i \in Instances, Running(i), held[i].owner.inst = i
    PROVE  Tenant(held[i].owner) = i
  BY DEF Tenant

\* The phase of a lease depends on the time only.
LEMMA PhaseStays ==
    ASSUME NEW lease, now' = now
    PROVE  PhaseOf(lease)' = PhaseOf(lease)
  BY DEF PhaseOf, IsLeaseExpired, Clock

\* The blob, when nothing is written.
LEMMA SeenBlobStays ==
    ASSUME UNCHANGED <<blob, now>>,
           blob.doc # NoDoc =>
              Tenant(blob.doc.lease.owner)' = Tenant(blob.doc.lease.owner)
    PROVE  SeenBlob' = SeenBlob
<1>1. blob.doc # NoDoc => PhaseOf(blob.doc.lease)' = PhaseOf(blob.doc.lease)
  BY PhaseStays
<1> QED
  BY <1>1 DEF SeenBlob

\* The delayed writes, when they are the same requests.
LEMMA SeenLateStays ==
    ASSUME Stray' = Stray, \A w \in Stray : Tenant(w.by)' = Tenant(w.by)
    PROVE  SeenLate' = SeenLate
  BY DEF SeenLate, Makes

\* The blob, when nothing is written and the tick of i ends.
LEMMA SeenBlobDisowned ==
    ASSUME TypeOK, NEW i \in Instances, ~Running(i)',
           \A j \in Instances \ {i} : held'[j] = held[j]
                                      /\ (Running(j)' <=> Running(j)),
           UNCHANGED <<blob, now>>
    PROVE  SeenBlob' = Runner!Disown(SeenBlob, i)
<1>1. CASE blob.doc = NoDoc
  BY <1>1 DEF SeenBlob, Runner!Disown
<1>2. CASE blob.doc # NoDoc
  <2>1. blob.doc.lease.owner.inst \in Instances
    BY <1>2, Members DEF TypeOK
  <2>2. Tenant(blob.doc.lease.owner)' =
           IF Tenant(blob.doc.lease.owner) = i THEN Nobody
           ELSE Tenant(blob.doc.lease.owner)
    BY <2>1, TenantEnds
  <2>3. PhaseOf(blob.doc.lease)' = PhaseOf(blob.doc.lease)
    BY PhaseStays
  <2> QED
    BY <1>2, <2>2, <2>3 DEF SeenBlob, Runner!Disown
<1> QED
  BY <1>1, <1>2

\* A request is a delayed write when nobody waits for it.
LEMMA StrayIs ==
    /\ \A w : w \in Stray <=> w \in wire /\ Live(w) /\ ~Awaited(w)
    /\ \A w : w \in Stray' <=> w \in wire' /\ Live(w)' /\ ~Awaited(w)'
  BY DEF Stray, Live

\* What PollRunner's actions leave alone.
SeenSame == UNCHANGED <<rows, newest, handled, SeenBlob, SeenLate, SeenPlace,
                        SeenCursor, SeenBatch, SeenLast, SeenBatches>>

\* They are all that PollRunner has.
LEMMA SeenVars == SeenSame <=> UNCHANGED Runner!vars
  BY DEF SeenSame, Runner!vars, Runner!source, Runner!blob, Runner!tick

-----------------------------------------------------------------------------
(* Every kind of step is a step of PollRunner, or is not seen.             *)

\* The beginning of a call is not seen.
LEMMA StartingSeen ==
    ASSUME PollerInv, NEW i \in Instances, Starting(i)
    PROVE  UNCHANGED Runner!vars
<1>0. TypeOK /\ AwaitInv /\ CallInv /\ PollerTypeOK
  BY DEF PollerInv, StoreInv
<1>1. /\ UNCHANGED <<rows, newest, handled, place, cursor, batch, last, batches, accepted>>
      /\ UNCHANGED <<blob, now, wire>>
  BY DEF Starting, Reading, table, locals, service
<1>2. /\ \A j \in Instances \ {i} : Same(j)
      /\ pc[i] = "idle" /\ pc'[i] = "decide"
      /\ sent'[i] = sent[i] /\ held'[i] = held[i] /\ sent[i] = NoWrite
  BY <1>0 DEF Starting, Reading, AwaitInv
<1>3. \A j \in Instances : SameSeen(j) /\ (Running(j)' <=> Running(j)) /\ held'[j] = held[j]
  <2>1. ASSUME NEW j \in Instances \ {i}
        PROVE  SameSeen(j) /\ (Running(j)' <=> Running(j)) /\ held'[j] = held[j]
    BY <1>1, <1>2, SameIsSeen DEF Same
  <2>2. (\A name : ~Waiting(i, name) /\ ~Waiting(i, name)')
    BY <1>2 DEF Waiting
  <2>3. PlaceOf(i)' = PlaceOf(i)
    BY <1>1, <2>2 DEF PlaceOf
  <2>4. SameSeen(i) /\ (Running(i)' <=> Running(i))
    BY <1>1, <1>2, <2>2, <2>3, SeenTick DEF SameSeen, Running
  <2> QED
    BY <1>2, <2>1, <2>4
<1>4. \A w \in wire : Tenant(w.by)' = Tenant(w.by)
  BY <1>0, <1>3, TenantStays, Members DEF TypeOK
<1>5. SeenBlob' = SeenBlob
  BY <1>0, <1>1, <1>3, TenantStays, SeenBlobStays, Members DEF TypeOK
<1>6. Stray' = Stray
  <2>1. \A w \in wire : Awaited(w)' <=> Awaited(w)
    BY <1>0, <1>2, Members, AbsenceAssumption DEF Awaited, Same, TypeOK
  <2> QED
    BY <1>1, <2>1 DEF Stray
<1>7. SeenLate' = SeenLate
  BY <1>4, <1>6, SeenLateStays DEF Stray
<1> QED
  BY <1>1, <1>3, <1>5, <1>7, SeenTicks, SeenVars DEF SeenSame

\* When time passes, the lease may run out.
LEMMA PassingSeen ==
    ASSUME PollerInv, Passing
    PROVE  Runner!Elapse \/ UNCHANGED Runner!vars
<1>0. TypeOK
  BY DEF PollerInv, StoreInv
<1>1. /\ UNCHANGED <<rows, newest, handled, place, cursor, batch, last, batches, accepted>>
      /\ blob' = blob /\ now' \in {now, now + 1}
      /\ wire' \subseteq wire /\ \A w \in wire : Live(w) => w \in wire'
      /\ \A j \in Instances : Same(j)
  BY DEF Passing, table, locals
<1>2. \A j \in Instances : SameSeen(j) /\ (Running(j)' <=> Running(j)) /\ held'[j] = held[j]
  BY <1>1, SameIsSeen DEF Same
<1>3. UNCHANGED <<SeenPlace, SeenCursor, SeenBatch, SeenLast, SeenBatches>>
  BY <1>2 DEF SameSeen, SeenPlace, SeenCursor, SeenBatch, SeenLast, SeenBatches, InTick
<1>4. SeenLate' = SeenLate
  <2>1. \A w \in wire : /\ Awaited(w)' <=> Awaited(w)
                        /\ Tenant(w.by)' = Tenant(w.by)
    BY <1>0, <1>1, <1>2, TenantStays, Members DEF Awaited, Same, TypeOK
  <2>2. Stray' = Stray
    BY <1>1, <2>1 DEF Stray, Live
  <2> QED
    BY <2>1, <2>2, SeenLateStays DEF Stray
<1>5. CASE blob.doc = NoDoc
  <2>1. SeenBlob' = SeenBlob
    BY <1>1, <1>5 DEF SeenBlob
  <2> QED
    BY <1>1, <1>3, <1>4, <2>1, SeenVars DEF SeenSame
<1>6. CASE blob.doc # NoDoc
  <2> DEFINE lease == blob.doc.lease
  <2>1. lease \in Leases /\ lease.owner.inst \in Instances /\ lease.expires \in Int
    BY <1>0, <1>6, Members DEF TypeOK
  <2>2. Tenant(lease.owner)' = Tenant(lease.owner)
    BY <1>1, <1>2, <2>1, TenantStays
  <2>3. SeenBlob' = [SeenBlob EXCEPT !.phase = PhaseOf(lease)']
        /\ SeenBlob.phase = PhaseOf(lease)
    BY <1>1, <1>6, <2>2 DEF SeenBlob
  <2>4. PhaseOf(lease) = "free" => PhaseOf(lease)' = "free"
    BY <1>0, <1>1, <2>1, ExpiredStays DEF PhaseOf
  <2>5. PhaseOf(lease)' = "live" => PhaseOf(lease) \in {"live", "free"}
    <3>1. Skew[lease.owner.inst] \in Int /\ now \in Nat
      BY <1>0, <2>1, Numbers DEF TypeOK
    <3>2. Clock(lease.owner.inst) > lease.expires =>
             (Clock(lease.owner.inst) > lease.expires)'
      BY <1>1, <2>1, <3>1 DEF Clock
    <3> QED
      BY <3>2, <1>1 DEF PhaseOf
  <2>6. PhaseOf(lease) \in {"free", "expired", "live"}
        /\ PhaseOf(lease)' \in {"free", "expired", "live"}
    BY DEF PhaseOf
  <2>7. CASE PhaseOf(lease)' = PhaseOf(lease)
    <3>1. SeenBlob' = SeenBlob
      BY <1>1, <1>6, <2>2, <2>7 DEF SeenBlob
    <3> QED
      BY <1>1, <1>3, <1>4, <3>1, SeenVars DEF SeenSame
  <2>8. CASE PhaseOf(lease)' # PhaseOf(lease)
    <3>1. PhaseOf(lease) # "free" /\ PhaseOf(lease)' \in Runner!Phases \ {"live", PhaseOf(lease)}
      BY <2>4, <2>5, <2>6, <2>8 DEF Runner!Phases
    <3> QED
      BY <1>1, <1>3, <1>4, <2>3, <3>1 DEF Runner!Elapse, Runner!source, Runner!tick
  <2> QED
    BY <2>7, <2>8
<1> QED
  BY <1>5, <1>6

\* What a failure leaves of the delayed writes: the request that the caller
\* was waiting for becomes one, if it can still be accepted.
LEMMA FailingStray ==
    ASSUME PollerInv, NEW i \in Instances, Failing(i)
    PROVE  /\ Stray \subseteq wire
           /\ sent[i] \in wire /\ Live(sent[i]) /\ call[i].name # "release"
              => Stray' = Stray \cup {sent[i]}
           /\ ~(sent[i] \in wire /\ Live(sent[i]) /\ call[i].name # "release")
              => Stray' = Stray
<1>0. TypeOK /\ AwaitInv
  BY DEF PollerInv, StoreInv
<1>1. /\ blob' = blob
      /\ wire' \subseteq wire /\ \A w \in wire : Live(w) => w \in wire'
      /\ \A j \in Instances \ {i} : Same(j)
      /\ sent'[i] = NoWrite
  BY DEF Failing, Others, Ended
<1>2. \A w \in wire : w.by.inst \in Instances /\ w # NoWrite
  BY <1>0, Members, AbsenceAssumption DEF TypeOK
<1>3. \A w \in wire : w.by.inst # i => (Awaited(w)' <=> Awaited(w))
  BY <1>1, <1>2 DEF Awaited, Same
<1>4. \A w \in wire : w.by.inst = i => /\ ~Awaited(w)'
                                       /\ Awaited(w) <=> /\ sent[i] = w
                                                         /\ call[i].name # "release"
  BY <1>1, <1>2 DEF Awaited
<1>5. sent[i] \in wire => sent[i].by.inst = i
  BY <1>0, <1>2 DEF AwaitInv
<1>6. \A w : w \in Stray' <=> w \in wire /\ Live(w) /\ ~Awaited(w)'
  BY <1>1, StrayIs DEF Live
<1>7. \A w : w \in Stray <=> w \in wire /\ Live(w) /\ ~Awaited(w)
  BY StrayIs
<1>8. ASSUME sent[i] \in wire, Live(sent[i]), call[i].name # "release"
      PROVE  Stray' = Stray \cup {sent[i]}
  BY <1>3, <1>4, <1>5, <1>6, <1>7, <1>8
<1>9. ASSUME ~(sent[i] \in wire /\ Live(sent[i]) /\ call[i].name # "release")
      PROVE  Stray' = Stray
  BY <1>3, <1>4, <1>6, <1>7, <1>9
<1> QED
  BY <1>7, <1>8, <1>9

\* A request of a running tick that can be accepted is of the blob's owner.
LEMMA LiveIsOwner ==
    ASSUME PollerInv, NEW i \in Instances, Running(i),
           NEW w \in wire, Live(w), w.by = held[i].owner
    PROVE  SeenBlob.owner = i
<1>1. blob.doc # NoDoc /\ blob.doc.lease.owner = held[i].owner
      /\ held[i].owner.inst = i
  BY DEF PollerInv, StoreInv, HolderInv, AuthorInv, Running
<1> QED
  BY <1>1, TenantIs DEF SeenBlob

\* A request for a new lease can be accepted only while the lease is free,
\* and keeps the checkpoint.
LEMMA AcquireIsFree ==
    ASSUME PollerInv, NEW i \in Instances, Waiting(i, "acquire"),
           sent[i] \in wire, Live(sent[i])
    PROVE  /\ SeenBlob.phase = "free"
           /\ sent[i].doc.checkpoint = SeenBlob.checkpoint
<1>0. TypeOK /\ RequestInv /\ AwaitInv /\ SentInv
  BY DEF PollerInv, StoreInv
<1>1. sent[i].by.inst \in Instances
  BY <1>0, Members DEF TypeOK
<1>2. CASE blob.doc = NoDoc
  <2>1. sent[i].etag = 0
    BY <1>0, <1>2, Members DEF Live, Missing, TypeOK
  <2> QED
    BY <1>0, <1>2, <2>1 DEF RequestInv, SeenBlob
<1>3. CASE blob.doc # NoDoc
  <2>1. Steals(sent[i], blob.doc)
    BY <1>0, <1>3 DEF RequestInv, SentInv, Keeps
  <2> QED
    BY <1>1, <1>3, <2>1 DEF Steals, SeenBlob, PhaseOf
<1> QED
  BY <1>2, <1>3

\* commit_checkpoint raises.
LEMMA CommitFailsSeen ==
    ASSUME PollerInv, NEW i \in Instances, Failing(i),
           held'[i] = held[i], pc[i] # "idle", NotCommitted(i)
    PROVE  \/ Runner!Fail(i, "commit") \/ Runner!CommitUnsure(i)
           \/ Runner!CommitConflict(i) \/ UNCHANGED Runner!vars
<1>0. /\ TypeOK /\ AwaitInv /\ AuthorInv
      /\ PollerTypeOK /\ CallInv /\ SentInv
  BY DEF PollerInv, StoreInv
<1>1. /\ UNCHANGED <<rows, newest, handled, cursor, batch, last, batches>>
      /\ UNCHANGED <<blob, now>>
      /\ place' = [place EXCEPT ![i] = "release"]
      /\ accepted' = accepted \ {i}
      /\ \A j \in Instances \ {i} : Same(j)
      /\ pc'[i] = "idle" /\ call[i].name = "commit"
  BY DEF Failing, NotCommitted, Goes, locals, table, Others, Ended
<1>2. /\ held[i] # NoLease /\ place[i] = "commit"
      /\ Running(i) /\ Running(i)'
      /\ \A name : ~Waiting(i, name)'
      /\ ~Waiting(i, "release")
  BY <1>0, <1>1 DEF CallInv, Running, Waiting
<1>3. \A j \in Instances \ {i} : SameSeen(j) /\ (Running(j)' <=> Running(j))
                                 /\ held'[j] = held[j]
  BY <1>0, <1>1, SameIsSeen DEF PollerTypeOK, Same
<1>4. PlaceOf(i)' = "release"
  BY <1>0, <1>1, <1>2 DEF PlaceOf, PollerTypeOK
<1>5. SeenPlace' = [SeenPlace EXCEPT ![i] = "release"]
  BY <1>3, <1>4, SeenTicks
<1>6. UNCHANGED <<SeenCursor, SeenBatch, SeenLast, SeenBatches>>
  <2>1. /\ SeenCursor'[i] = SeenCursor[i] /\ SeenBatch'[i] = SeenBatch[i]
        /\ SeenLast'[i] = SeenLast[i] /\ SeenBatches'[i] = SeenBatches[i]
    BY <1>1, <1>2, SeenTick
  <2> QED
    BY <1>3, <2>1 DEF SameSeen, SeenCursor, SeenBatch, SeenLast, SeenBatches, InTick
<1>7. \A id \in Owners : Tenant(id)' = Tenant(id)
  BY <1>2, <1>3, TenantStays DEF Owners
<1>8. SeenBlob' = SeenBlob
  BY <1>0, <1>1, <1>7, SeenBlobStays, Members DEF TypeOK
<1>9. \A w \in wire : w \in Writes /\ w.by \in Owners
  BY <1>0, Members DEF TypeOK
<1>10. CASE Stray' = Stray
  <2>1. SeenLate' = SeenLate
    BY <1>7, <1>9, <1>10, SeenLateStays DEF Stray
  <2>2. CASE pc[i] = "decide"
    <3>1. PlaceOf(i) = "commit"
      BY <1>2, <2>2 DEF PlaceOf, Waiting
    <3> QED
      BY <1>1, <1>5, <1>6, <1>8, <2>1, <3>1, SeenTick
         DEF Runner!Fail, Runner!GoTo, Runner!source, Runner!blob, Runner!tick
  <2>3. CASE pc[i] = "await" /\ i \in accepted
    <3>1. PlaceOf(i) = "release"
      BY <1>1, <2>3 DEF PlaceOf, Waiting
    <3>2. UNCHANGED SeenPlace
      BY <1>3, <1>4, <3>1 DEF SeenPlace, SameSeen
    <3> QED
      BY <1>1, <1>6, <1>8, <2>1, <3>2, SeenVars DEF SeenSame
  <2>4. CASE pc[i] = "await" /\ i \notin accepted
    <3>1. PlaceOf(i) = "write"
      BY <1>1, <2>4 DEF PlaceOf, Waiting
    <3>2. CASE SeenBlob.owner = i
      BY <1>1, <1>5, <1>6, <1>8, <2>1, <3>1, <3>2, SeenTick
         DEF Runner!CommitUnsure, Runner!PutUnsure, Runner!GoTo,
             Runner!source, Runner!blob, Runner!tick
    <3>3. CASE SeenBlob.owner # i
      BY <1>1, <1>5, <1>6, <1>8, <2>1, <3>1, <3>3, SeenTick
         DEF Runner!CommitConflict, Runner!Fail, Runner!GoTo,
             Runner!source, Runner!blob, Runner!tick
    <3> QED
      BY <3>2, <3>3
  <2> QED
    BY <1>0, <2>2, <2>3, <2>4 DEF TypeOK
<1>11. CASE Stray' # Stray
  <2>0. PICK w \in wire : w = sent[i]
    BY <1>11, FailingStray
  <2>1. w \in wire /\ Live(w) /\ Stray' = Stray \cup {w} /\ Stray \subseteq wire
    BY <1>11, <2>0, FailingStray
  <2>2. /\ w # NoWrite /\ pc[i] = "await"
        /\ w.by = held[i].owner /\ w.doc.checkpoint = last[i]
    BY <1>0, <1>1, <1>9, <2>0, AbsenceAssumption DEF AwaitInv, CallInv, TypeOK
  <2>3. i \notin accepted
    <3>1. w.etag = blob.etag /\ w.etag \in Nat
      BY <1>9, <2>1, Members DEF Live
    <3> QED
      BY <1>0, <2>0, <3>1 DEF SentInv
  <2>4. PlaceOf(i) = "write"
    BY <1>1, <2>2, <2>3 DEF PlaceOf, Waiting
  <2>5. SeenBlob.owner = i
    BY <1>2, <2>1, <2>2, LiveIsOwner
  <2>6. Tenant(w.by)' = i
    BY <1>0, <1>2, <1>7, <1>9, <2>1, <2>2, TenantIs DEF AuthorInv
  <2>7. SeenLast[i] = last[i]
    BY <1>2, SeenTick
  <2>8. Makes(w)' = Runner!Content(Runner!Committed(i))
    BY <2>2, <2>5, <2>6, <2>7 DEF Makes, Runner!Content, Runner!Committed, SeenBlob
  <2>9. \A v \in Stray : Makes(v)' = Makes(v)
    BY <1>7, <1>9, <2>1 DEF Makes
  <2>10. SeenLate' = SeenLate \cup {Runner!Content(Runner!Committed(i))}
    BY <2>1, <2>8, <2>9 DEF SeenLate
  <2> QED
    BY <1>1, <1>5, <1>6, <1>8, <2>4, <2>5, <2>10, SeenTick
       DEF Runner!CommitUnsure, Runner!PutUnsure, Runner!GoTo,
           Runner!source, Runner!blob, Runner!tick
<1> QED
  BY <1>10, <1>11

\* To give a function a value that it has changes nothing.
LEMMA ExceptSame ==
    ASSUME NEW S, NEW f, f = [j \in S |-> f[j]], NEW i \in S
    PROVE  [f EXCEPT ![i] = f[i]] = f
  OBVIOUS

\* What the end of a tick, or of a call that was no part of one, does to
\* what is seen.
LEMMA OverSeen ==
    ASSUME PollerInv, NEW i \in Instances, Failing(i), held'[i] = NoLease, Over(i)
    PROVE  /\ UNCHANGED <<rows, newest, handled, blob, now>>
           /\ ~Running(i)'
           /\ \A j \in Instances \ {i} : held'[j] = held[j] /\ (Running(j)' <=> Running(j))
           /\ SeenPlace' = [SeenPlace EXCEPT ![i] = "idle"]
           /\ SeenCursor' = [SeenCursor EXCEPT ![i] = Empty]
           /\ SeenBatch' = [SeenBatch EXCEPT ![i] = {}]
           /\ SeenLast' = [SeenLast EXCEPT ![i] = Empty]
           /\ SeenBatches' = [SeenBatches EXCEPT ![i] = 0]
<1>0. PollerTypeOK
  BY DEF PollerInv
<1>1. /\ UNCHANGED <<rows, newest, handled, blob, now>>
      /\ accepted' = accepted \ {i}
      /\ \A j \in Instances \ {i} : Same(j)
      /\ pc'[i] = "idle"
      /\ place' = [place EXCEPT ![i] = "idle"]
      /\ cursor' = [cursor EXCEPT ![i] = Empty]
      /\ batch' = [batch EXCEPT ![i] = {}]
      /\ last' = [last EXCEPT ![i] = Empty]
      /\ batches' = [batches EXCEPT ![i] = 0]
  BY DEF Failing, Over, Goes, table, Others, Ended
<1>2. (\A name : ~Waiting(i, name)') /\ ~Running(i)'
  BY <1>1 DEF Waiting, Running
<1>3. \A j \in Instances \ {i} : SameSeen(j) /\ (Running(j)' <=> Running(j))
                                 /\ held'[j] = held[j]
  BY <1>0, <1>1, SameIsSeen DEF PollerTypeOK, Same
<1>4. PlaceOf(i)' = "idle"
  BY <1>0, <1>1, <1>2 DEF PlaceOf, PollerTypeOK
<1>5. /\ SeenCursor'[i] = Empty /\ SeenBatch'[i] = {}
      /\ SeenLast'[i] = Empty /\ SeenBatches'[i] = 0
  BY <1>0, <1>1, <1>2, SeenTick DEF PollerTypeOK
<1> QED
  BY <1>1, <1>2, <1>3, <1>4, <1>5, SeenTicks

\* The tick of i is over: a crash, for PollRunner.
LEMMA TickDies ==
    ASSUME PollerInv, NEW i \in Instances, Failing(i), held'[i] = NoLease, Over(i),
           Running(i)
    PROVE  Runner!Crash(i)
<1>0. /\ TypeOK /\ AwaitInv /\ AuthorInv /\ HolderInv
      /\ PollerTypeOK /\ CallInv /\ SentInv
  BY DEF PollerInv, StoreInv
<1>1. SeenPlace[i] # "idle"
  BY <1>0, SeenTick DEF CallInv, Running, PlaceOf, Waiting
<1>2. SeenBlob' = Runner!Disown(SeenBlob, i)
  BY <1>0, OverSeen, SeenBlobDisowned
<1>3. \A id \in Owners : Tenant(id)' = IF Tenant(id) = i THEN Nobody ELSE Tenant(id)
  BY OverSeen, TenantEnds DEF Owners
<1>4. \A w \in wire : w \in Writes /\ w.by \in Owners
  BY <1>0, Members DEF TypeOK
<1>5. \A w \in wire : Makes(w)' = Runner!Disown(Makes(w), i)
  BY <1>3, <1>4 DEF Makes, Runner!Disown
<1>6. CASE Stray' = Stray
  <2>1. SeenLate' = {Runner!Disown(d, i) : d \in SeenLate}
    BY <1>5, <1>6 DEF SeenLate, Stray
  <2> QED
    BY <1>1, <1>2, <2>1, OverSeen, CursorTypes
       DEF Runner!Crash, Runner!EndTick, Runner!source
<1>7. CASE Stray' # Stray
  <2>0. PICK w \in wire : w = sent[i]
    BY <1>7, FailingStray
  <2>1. /\ Live(w) /\ call[i].name # "release"
        /\ Stray' = Stray \cup {w} /\ Stray \subseteq wire
    BY <1>7, <2>0, FailingStray
  <2>2. /\ w # NoWrite /\ pc[i] = "await" /\ call[i].name = "commit"
        /\ w.by = held[i].owner /\ w.doc.checkpoint = last[i]
    BY <1>0, <1>4, <2>0, <2>1, AbsenceAssumption
       DEF AwaitInv, CallInv, TypeOK, Running
  <2>3. i \notin accepted
    <3>1. w.etag = blob.etag /\ w.etag \in Nat
      BY <1>4, <2>1, Members DEF Live
    <3> QED
      BY <1>0, <2>0, <3>1 DEF SentInv
  <2>4. SeenPlace[i] = "write"
    BY <2>2, <2>3, SeenTick DEF PlaceOf, Waiting
  <2>5. SeenBlob.owner = i
    BY <2>1, <2>2, LiveIsOwner
  <2>6. Tenant(w.by) = i /\ SeenLast[i] = last[i]
    BY <1>0, <2>2, TenantIs, SeenTick DEF AuthorInv, Running
  <2>7. Makes(w) = Runner!Content(Runner!Committed(i))
    BY <2>2, <2>5, <2>6 DEF Makes, Runner!Content, Runner!Committed, SeenBlob
  <2>8. SeenLate' = {Runner!Disown(d, i) :
                        d \in SeenLate \cup {Runner!Content(Runner!Committed(i))}}
    <3>1. SeenLate' = {Makes(v)' : v \in Stray \cup {w}}
      BY <2>1 DEF SeenLate
    <3>2. SeenLate' = {Runner!Disown(Makes(v), i) : v \in Stray \cup {w}}
      BY <1>5, <2>1, <3>1
    <3> QED
      BY <2>7, <3>2 DEF SeenLate
  <2> QED
    BY <1>1, <1>2, <2>4, <2>5, <2>8, OverSeen, CursorTypes
       DEF Runner!Crash, Runner!EndTick, Runner!source
<1> QED
  BY <1>6, <1>7

\* A call that was no part of a tick ends: an acquisition may have left a
\* request behind, and a release was over before.
LEMMA CallDies ==
    ASSUME PollerInv, NEW i \in Instances, Failing(i), held'[i] = NoLease, Over(i),
           ~Running(i)
    PROVE  Runner!AcquireFails(i) \/ UNCHANGED Runner!vars
<1>0. /\ TypeOK /\ AwaitInv /\ AuthorInv /\ PollerTypeOK /\ CallInv /\ SentInv
  BY DEF PollerInv, StoreInv
<1>1. /\ SeenPlace[i] = "idle" /\ SeenCursor[i] = Empty /\ SeenBatch[i] = {}
      /\ SeenLast[i] = Empty /\ SeenBatches[i] = 0
  BY <1>0, SeenTick DEF Running, Waiting, CallInv, PlaceOf
<1>2. UNCHANGED <<SeenPlace, SeenCursor, SeenBatch, SeenLast, SeenBatches>>
  <2>1. /\ SeenPlace = [j \in Instances |-> SeenPlace[j]]
        /\ SeenCursor = [j \in Instances |-> SeenCursor[j]]
        /\ SeenBatch = [j \in Instances |-> SeenBatch[j]]
        /\ SeenLast = [j \in Instances |-> SeenLast[j]]
        /\ SeenBatches = [j \in Instances |-> SeenBatches[j]]
    BY DEF SeenPlace, SeenCursor, SeenBatch, SeenLast, SeenBatches, InTick
  <2>2. /\ SeenPlace' = [SeenPlace EXCEPT ![i] = SeenPlace[i]]
        /\ SeenCursor' = [SeenCursor EXCEPT ![i] = SeenCursor[i]]
        /\ SeenBatch' = [SeenBatch EXCEPT ![i] = SeenBatch[i]]
        /\ SeenLast' = [SeenLast EXCEPT ![i] = SeenLast[i]]
        /\ SeenBatches' = [SeenBatches EXCEPT ![i] = SeenBatches[i]]
    BY <1>1, OverSeen
  <2> QED
    BY <2>1, <2>2, ExceptSame
<1>3. \A j \in Instances : Running(j)' <=> Running(j)
  BY OverSeen
<1>4. \A id \in Owners : Tenant(id)' = Tenant(id)
  BY <1>3, OverSeen DEF Tenant, Owners
<1>5. SeenBlob' = SeenBlob
  BY <1>0, <1>4, OverSeen, SeenBlobStays, Members DEF TypeOK
<1>6. \A w \in wire : w \in Writes /\ w.by \in Owners
  BY <1>0, Members DEF TypeOK
<1>7. CASE Stray' = Stray
  <2>1. SeenLate' = SeenLate
    BY <1>4, <1>6, <1>7, SeenLateStays DEF Stray
  <2> QED
    BY <1>2, <1>5, <2>1, OverSeen, SeenVars DEF SeenSame
<1>8. CASE Stray' # Stray
  <2>0. PICK w \in wire : w = sent[i]
    BY <1>8, FailingStray
  <2>1. /\ Live(w) /\ call[i].name # "release"
        /\ Stray' = Stray \cup {w} /\ Stray \subseteq wire
    BY <1>8, <2>0, FailingStray
  <2>2. w # NoWrite /\ pc[i] = "await" /\ call[i].name = "acquire" /\ w.by.inst = i
    BY <1>0, <1>6, <2>0, <2>1, AbsenceAssumption
       DEF AwaitInv, CallInv, TypeOK, Running, Waiting
  <2>3. SeenBlob.phase = "free" /\ w.doc.checkpoint = SeenBlob.checkpoint
    BY <2>0, <2>1, <2>2, AcquireIsFree DEF Waiting
  <2>4. Tenant(w.by)' = Nobody
    BY <2>2, OverSeen DEF Tenant
  <2>5. Makes(w)' = [owner |-> Nobody, checkpoint |-> SeenBlob.checkpoint]
    BY <2>3, <2>4 DEF Makes
  <2>6. \A phase : Runner!Content(Runner!Taken(Nobody, phase)) = Makes(w)'
    BY <2>5 DEF Runner!Content, Runner!Taken, SeenBlob
  <2>7. \A v \in Stray : Makes(v)' = Makes(v)
    BY <1>4, <1>6, <2>1 DEF Makes
  <2>8. SeenLate' = SeenLate \cup {Makes(w)'}
    BY <2>1, <2>7 DEF SeenLate
  <2> QED
    BY <1>1, <1>2, <1>5, <2>3, <2>6, <2>8, OverSeen
       DEF Runner!AcquireFails, Runner!PutUnsure, Runner!Phases,
           Runner!source, Runner!blob, Runner!tick
<1> QED
  BY <1>7, <1>8

\* What the sending of a request does to what is seen.
LEMMA RequestingFrame ==
    ASSUME PollerInv, NEW i \in Instances, NEW w \in Writes, Requesting(i, w)
    PROVE  /\ UNCHANGED <<rows, newest, handled, blob, now>>
           /\ w.by.inst = i /\ w \in wire'
           /\ i \notin accepted /\ i \notin accepted'
           /\ pc[i] = "decide" /\ pc'[i] = "await" /\ call'[i] = call[i]
           /\ \A j \in Instances : held'[j] = held[j] /\ place'[j] = place[j]
                                   /\ cursor'[j] = cursor[j] /\ batch'[j] = batch[j]
                                   /\ last'[j] = last[j] /\ batches'[j] = batches[j]
           /\ \A j \in Instances \ {i} : SameSeen(j) /\ (Running(j)' <=> Running(j))
           /\ \A v \in wire : v # w => (Awaited(v)' <=> Awaited(v))
           /\ Awaited(w)' <=> call[i].name # "release"
           /\ ~Awaited(w) /\ wire' = wire \cup {w}
<1>0. /\ TypeOK /\ AwaitInv /\ AuthorInv /\ SentInv
  BY DEF PollerInv, StoreInv
<1>1. /\ UNCHANGED <<rows, newest, handled, place, cursor, batch, last, batches, accepted>>
      /\ Writing(i, w) /\ w # NoWrite /\ w.by.inst = i
  BY <1>0, HoldingBy, AbsenceAssumption DEF Requesting, table, locals
<1>2. /\ \A j \in Instances \ {i} : Same(j)
      /\ pc[i] = "decide" /\ pc'[i] = "await" /\ UNCHANGED <<blob, now>>
      /\ call'[i] = call[i] /\ held'[i] = held[i]
      /\ wire' = wire \cup {w} /\ sent'[i] = w
  BY <1>1 DEF Writing
<1>3. \A j \in Instances \ {i} : SameSeen(j) /\ (Running(j)' <=> Running(j))
                                 /\ held'[j] = held[j]
  BY <1>1, <1>2, SameIsSeen DEF Same
<1>4. sent[i] = NoWrite /\ i \notin accepted
  BY <1>0, <1>2 DEF AwaitInv, SentInv
<1>5. \A v \in wire : v.by.inst \in Instances /\ v # NoWrite
  BY <1>0, Members, AbsenceAssumption DEF TypeOK
<1>6. \A v \in wire : v # w => (Awaited(v)' <=> Awaited(v))
  <2>1. ASSUME NEW v \in wire, v # w, v.by.inst = i
        PROVE  ~Awaited(v)' /\ ~Awaited(v)
    BY <1>2, <1>4, <1>5, <2>1 DEF Awaited
  <2>2. ASSUME NEW v \in wire, v # w, v.by.inst # i
        PROVE  Awaited(v)' <=> Awaited(v)
    BY <1>2, <1>5, <2>2 DEF Awaited, Same
  <2> QED
    BY <2>1, <2>2
<1>7. ~Awaited(w) /\ (Awaited(w)' <=> call[i].name # "release")
  BY <1>1, <1>2, <1>4 DEF Awaited
<1> QED
  BY <1>1, <1>2, <1>3, <1>4, <1>6, <1>7

\* An acquisition is not seen until its request is accepted.
LEMMA AcquireSeen ==
    ASSUME PollerInv, NEW i \in Instances, NEW w \in Writes, Requesting(i, w),
           call[i].name = "acquire"
    PROVE  UNCHANGED Runner!vars
<1>0. TypeOK /\ AuthorInv /\ CallInv
  BY DEF PollerInv, StoreInv
<1>1. held[i] = NoLease /\ place[i] = "idle"
  BY <1>0, RequestingFrame DEF CallInv
<1>2. \A j \in Instances : SameSeen(j) /\ (Running(j)' <=> Running(j))
  <2>1. ~Waiting(i, "release") /\ ~Waiting(i, "release")'
        /\ ~Waiting(i, "commit") /\ ~Waiting(i, "commit")'
        /\ ~Running(i) /\ ~Running(i)'
    BY <1>1, RequestingFrame DEF Waiting, Running
  <2>2. PlaceOf(i)' = PlaceOf(i)
    BY <2>1, RequestingFrame DEF PlaceOf
  <2>3. SameSeen(i)
    BY <2>1, <2>2, SeenTick, RequestingFrame DEF SameSeen
  <2> QED
    BY <2>1, <2>3, RequestingFrame
<1>3. \A id \in Owners : Tenant(id)' = Tenant(id)
  BY <1>2, TenantStays, RequestingFrame DEF Owners
<1>4. SeenBlob' = SeenBlob
  BY <1>0, <1>3, SeenBlobStays, RequestingFrame, Members DEF TypeOK
<1>5. w \notin wire
  BY <1>0, TakingIsNew DEF Requesting, Writing, Holding
<1>6. Stray' = Stray
  <2>1. \A v : v \in Stray' <=> v \in Stray
    BY <1>5, RequestingFrame, StrayIs DEF Live
  <2> QED
    BY <2>1 DEF Stray
<1>7. SeenLate' = SeenLate
  BY <1>0, <1>3, <1>6, SeenLateStays, Members DEF Stray, TypeOK
<1> QED
  BY <1>2, <1>4, <1>7, SeenTicks, SeenVars, RequestingFrame DEF SeenSame

\* A lease that its holder finds unexpired is the blob's, and live.
LEMMA VerifiedIsLive ==
    ASSUME ClocksAgree, PollerInv, NEW i \in Instances, Running(i),
           call[i].name = "commit", ~(Clock(i) > held[i].expires)
    PROVE  SeenBlob.owner = i /\ SeenBlob.phase = "live"
<1>0. TypeOK /\ AuthorInv /\ HolderInv /\ KeptInv
  BY DEF PollerInv, StoreInv
<1>1. held[i] # NoLease /\ held[i].owner.inst = i /\ held[i] \in Leases
  BY <1>0 DEF Running, AuthorInv, TypeOK
<1>2. blob.doc # NoDoc /\ blob.doc.lease.owner = held[i].owner
  BY <1>0, <1>1 DEF HolderInv, Relies
<1>3. blob.doc.lease = held[i]
  BY <1>0, <1>2 DEF KeptInv
<1>4. PhaseOf(held[i]) = "live"
  BY <1>0, <1>1, ExpiredHasLapsed, ClocksAgree DEF PhaseOf
<1> QED
  BY <1>1, <1>2, <1>3, <1>4, TenantIs DEF SeenBlob

\* commit_checkpoint verifies the lease that it has read.
LEMMA CommitSeen ==
    ASSUME ClocksAgree, PollerInv, NEW i \in Instances, NEW w \in Writes,
           Requesting(i, w), call[i].name = "commit"
    PROVE  Runner!CommitVerify(i)
<1>0. TypeOK /\ AuthorInv /\ CallInv /\ SentInv /\ AwaitInv
  BY DEF PollerInv, StoreInv
<1>1. /\ place[i] = "commit" /\ held[i] # NoLease
      /\ w.by = held[i].owner /\ seen[i].doc.lease = held[i]
      /\ ~(Clock(i) > held[i].expires)
  BY <1>0, SentKeeps, RequestingFrame
     DEF CallInv, Requesting, Writing, Taking, VerifyLease
<1>2. /\ Running(i) /\ Running(i)'
      /\ ~Waiting(i, "release") /\ ~Waiting(i, "release")'
      /\ ~Waiting(i, "commit") /\ Waiting(i, "commit")'
  BY <1>1, RequestingFrame DEF Running, Waiting
<1>3. SeenBlob.owner = i /\ SeenBlob.phase = "live"
  BY <1>1, <1>2, VerifiedIsLive
<1>4. /\ SeenPlace[i] = "commit"
      /\ SeenPlace' = [SeenPlace EXCEPT ![i] = "write"]
  <2>1. PlaceOf(i) = "commit" /\ PlaceOf(i)' = "write"
    BY <1>1, <1>2, RequestingFrame DEF PlaceOf
  <2> QED
    BY <2>1, SeenTick, SeenTicks, RequestingFrame
<1>5. UNCHANGED <<SeenCursor, SeenBatch, SeenLast, SeenBatches>>
  <2>1. /\ SeenCursor'[i] = SeenCursor[i] /\ SeenBatch'[i] = SeenBatch[i]
        /\ SeenLast'[i] = SeenLast[i] /\ SeenBatches'[i] = SeenBatches[i]
    BY <1>2, SeenTick, RequestingFrame
  <2> QED
    BY <2>1, RequestingFrame
       DEF SameSeen, SeenCursor, SeenBatch, SeenLast, SeenBatches, InTick
<1>6. \A id \in Owners : Tenant(id)' = Tenant(id)
  BY <1>2, TenantStays, RequestingFrame DEF Owners
<1>7. SeenBlob' = SeenBlob
  BY <1>0, <1>6, SeenBlobStays, RequestingFrame, Members DEF TypeOK
<1>8. ~(w \in wire /\ Live(w))
  <2>1. sent[i] = NoWrite /\ w # NoWrite
    BY <1>0, RequestingFrame, AbsenceAssumption DEF AwaitInv
  <2> QED
    BY <1>0, <1>1, <2>1 DEF SentInv
<1>9. Stray' = Stray
  <2>1. \A v : v \in Stray' <=> v \in Stray
    BY <1>8, RequestingFrame, StrayIs DEF Live
  <2> QED
    BY <2>1 DEF Stray
<1>10. SeenLate' = SeenLate
  BY <1>0, <1>6, <1>9, SeenLateStays, Members DEF Stray, TypeOK
<1> QED
  BY <1>3, <1>4, <1>5, <1>7, <1>10, RequestingFrame
     DEF Runner!CommitVerify, Runner!GoTo, Runner!source, Runner!blob, Runner!tick

\* The tick is over when its release is sent, which may be applied late.
LEMMA ReleaseSeen ==
    ASSUME PollerInv, NEW i \in Instances, NEW w \in Writes,
           Requesting(i, w), call[i].name = "release"
    PROVE  Runner!ReleaseFails(i)
<1>0. TypeOK /\ AuthorInv /\ CallInv /\ EtagInv
  BY DEF PollerInv, StoreInv
<1>1. /\ place[i] = "release" /\ held[i] # NoLease /\ held[i].owner.inst = i
      /\ Holding(i, w)
  BY <1>0, RequestingFrame DEF CallInv, Requesting, Writing, Taking, AuthorInv
<1>2. /\ Running(i) /\ ~Running(i)'
      /\ ~Waiting(i, "release") /\ ~Waiting(i, "commit") /\ Waiting(i, "release")'
      /\ ~Waiting(i, "commit")'
  BY <1>1, RequestingFrame DEF Running, Waiting
<1>3. /\ SeenPlace[i] = "release"
      /\ SeenPlace' = [SeenPlace EXCEPT ![i] = "idle"]
      /\ SeenCursor' = [SeenCursor EXCEPT ![i] = Empty]
      /\ SeenBatch' = [SeenBatch EXCEPT ![i] = {}]
      /\ SeenLast' = [SeenLast EXCEPT ![i] = Empty]
      /\ SeenBatches' = [SeenBatches EXCEPT ![i] = 0]
  <2>1. PlaceOf(i) = "release" /\ PlaceOf(i)' = "idle"
    BY <1>1, <1>2, RequestingFrame DEF PlaceOf
  <2>2. /\ SeenCursor'[i] = Empty /\ SeenBatch'[i] = {}
        /\ SeenLast'[i] = Empty /\ SeenBatches'[i] = 0
    BY <1>2, SeenTick
  <2> QED
    BY <2>1, <2>2, SeenTick, SeenTicks, RequestingFrame
<1>4. SeenBlob' = Runner!Disown(SeenBlob, i)
  BY <1>0, <1>2, SeenBlobDisowned, RequestingFrame
<1>5. \A id \in Owners : Tenant(id)' = IF Tenant(id) = i THEN Nobody ELSE Tenant(id)
  BY <1>2, TenantEnds, RequestingFrame DEF Owners
<1>6. \A v \in wire \cup {w} : Makes(v)' = Runner!Disown(Makes(v), i)
  BY <1>0, <1>5, Members DEF Makes, Runner!Disown, TypeOK
<1>7. CASE Live(w)
  <2>1. Stray' = Stray \cup {w} /\ Stray \subseteq wire
    <3>1. \A v : v \in Stray' <=> v \in Stray \/ v = w
      BY <1>7, RequestingFrame, StrayIs DEF Live
    <3>2. Stray \subseteq wire
      BY DEF Stray
    <3> QED
      BY <3>1, <3>2
  <2>2. blob.doc # NoDoc /\ blob.doc.lease.owner = held[i].owner
        /\ w.by = held[i].owner /\ w.doc.checkpoint = blob.doc.checkpoint
    <3>1. seen[i] = blob
      BY <1>0, <1>7 DEF Requesting, Writing, Live, EtagInv
    <3> QED
      BY <1>1, <3>1, RequestingFrame DEF Holding
  <2>3. Tenant(held[i].owner) = i
    BY <1>1, <1>2, TenantIs
  <2>4. SeenBlob.owner = i
    BY <2>2, <2>3 DEF SeenBlob
  <2>5. Makes(w) = Runner!Content(Runner!Released)
    BY <2>2, <2>3 DEF Makes, Runner!Content, Runner!Released, SeenBlob
  <2>6. SeenLate' = {Runner!Disown(d, i) :
                        d \in SeenLate \cup {Runner!Content(Runner!Released)}}
    <3>1. SeenLate' = {Makes(v)' : v \in Stray \cup {w}}
      BY <2>1 DEF SeenLate
    <3>2. SeenLate' = {Runner!Disown(Makes(v), i) : v \in Stray \cup {w}}
      BY <1>6, <2>1, <3>1
    <3> QED
      BY <2>5, <3>2 DEF SeenLate
  <2> QED
    BY <1>3, <1>4, <2>4, <2>6, RequestingFrame, CursorTypes
       DEF Runner!ReleaseFails, Runner!EndTick, Runner!source
<1>8. CASE ~Live(w)
  <2>1. Stray' = Stray
    <3>1. \A v : v \in Stray' <=> v \in Stray
      BY <1>8, RequestingFrame, StrayIs DEF Live
    <3> QED
      BY <3>1 DEF Stray
  <2>2. SeenLate' = {Runner!Disown(d, i) : d \in SeenLate}
    BY <1>6, <2>1 DEF SeenLate, Stray
  <2> QED
    BY <1>3, <1>4, <2>2, RequestingFrame, CursorTypes
       DEF Runner!ReleaseFails, Runner!EndTick, Runner!source
<1> QED
  BY <1>7, <1>8

\* What the acceptance of a request does to what is seen.
LEMMA ApplyingFrame ==
    ASSUME PollerInv, NEW w \in wire, Applying(w)
    PROVE  /\ UNCHANGED <<rows, newest, handled, now>>
           /\ w \in Writes /\ w # NoWrite /\ w.by.inst \in Instances /\ Live(w)
           /\ SeenLate' = {}
           /\ SeenBlob' = [owner |-> Tenant(w.by)',
                           phase |-> PhaseOf(w.doc.lease),
                           checkpoint |-> w.doc.checkpoint]
           /\ \A j \in Instances \ {w.by.inst} : SameSeen(j)
<1> DEFINE i == w.by.inst
<1>0. TypeOK /\ AuthorInv /\ EtagInv /\ AwaitInv /\ PollerTypeOK
  BY DEF PollerInv, StoreInv
<1>1. /\ UNCHANGED <<rows, newest, handled, now>>
      /\ blob'.doc = w.doc /\ blob'.etag = writes + 1 /\ wire' \subseteq wire
      /\ w.etag = blob.etag /\ w.doc.lease.owner = w.by
  BY <1>0 DEF Applying, Accepting, table, AuthorInv
<1>2. w \in Writes /\ w # NoWrite /\ i \in Instances /\ w.doc # NoDoc
  BY <1>0, Members, AbsenceAssumption DEF TypeOK
<1>3. SeenLate' = {}
  <2>1. \A v \in wire' : ~Live(v)'
    BY <1>0, <1>1, Members DEF EtagInv, TypeOK, Live
  <2> QED
    BY <2>1, StrayIs DEF SeenLate
<1>4. SeenBlob' = [owner |-> Tenant(w.by)', phase |-> PhaseOf(w.doc.lease),
                   checkpoint |-> w.doc.checkpoint]
  <2>1. PhaseOf(w.doc.lease)' = PhaseOf(w.doc.lease)
    BY <1>1, PhaseStays
  <2> QED
    BY <1>1, <1>2, <2>1 DEF SeenBlob
<1>5. ASSUME NEW j \in Instances \ {i} PROVE SameSeen(j)
  <2>1. Same(j)
    BY DEF Applying, Others
  <2>2. /\ place'[j] = place[j] /\ cursor'[j] = cursor[j] /\ batch'[j] = batch[j]
        /\ last'[j] = last[j] /\ batches'[j] = batches[j]
    BY <1>0, <1>2 DEF Applying, Acquired, Committed, Over, Goes, locals, PollerTypeOK
  <2>3. sent[j] # w
    BY <1>0, <1>2 DEF AwaitInv
  <2>4. j \in accepted' <=> j \in accepted
    BY <2>3 DEF Applying
  <2> QED
    BY <2>1, <2>2, <2>4, SameIsSeen
<1> QED
  BY <1>1, <1>2, <1>3, <1>4, <1>5 DEF Live

\* What the acceptance of a request does to its sender.
LEMMA ApplyingSender ==
    ASSUME PollerInv, NEW w \in wire, Applying(w), NEW i, i = w.by.inst
    PROVE  \/ /\ Same(i) /\ UNCHANGED <<place, locals>>
              /\ i \in accepted' <=> i \in accepted \/ sent[i] = w
           \/ /\ sent[i] = w /\ pc'[i] = "idle" /\ held'[i] = HeldAfter(w)
              /\ i \notin accepted'
              /\ Acquired(i) \/ Committed(i) \/ Over(i)
<1>1. i \in Instances
  BY ApplyingFrame
<1> QED
  BY <1>1 DEF Applying, Ended

\* What a commit makes of the blob.
LEMMA CommittedIs ==
    ASSUME NEW i
    PROVE  Runner!Committed(i) = [owner |-> SeenBlob.owner, phase |-> SeenBlob.phase,
                                  checkpoint |-> SeenLast[i]]
<1>1. ASSUME NEW r, NEW o, NEW p, NEW c, NEW d,
             r = [owner |-> o, phase |-> p, checkpoint |-> c]
      PROVE  [r EXCEPT !.checkpoint = d] =
                [owner |-> r.owner, phase |-> r.phase, checkpoint |-> d]
  BY <1>1
<1>2. PICK r, o, p, c :
         r = SeenBlob /\ r = [owner |-> o, phase |-> p, checkpoint |-> c]
  BY DEF SeenBlob
<1> QED
  BY <1>1, <1>2 DEF Runner!Committed

\* acquire_lease: its tick learns of it, or not.
LEMMA AcquireAccepted ==
    ASSUME PollerInv, NEW w \in wire, Applying(w), NEW i, i = w.by.inst,
           sent[i] = w, call[i].name = "acquire"
    PROVE  Runner!AcquireOk(i) \/ Runner!AcquireFails(i)
<1>0. TypeOK /\ AwaitInv /\ CallInv /\ PollerTypeOK
  BY DEF PollerInv, StoreInv
<1>1. /\ i \in Instances /\ pc[i] = "await" /\ place[i] = "idle" /\ held[i] = NoLease
      /\ w.doc.lease # NoLease
  <2>1. i \in Instances /\ pc[i] = "await"
    BY <1>0, ApplyingFrame DEF AwaitInv
  <2> QED
    BY <1>0, <2>1, Members, AbsenceAssumption DEF CallInv, TypeOK
<1>2. SeenBlob.phase = "free" /\ w.doc.checkpoint = SeenBlob.checkpoint
  BY <1>1, AcquireIsFree, ApplyingFrame DEF Waiting
<1>3. SeenPlace[i] = "idle"
  BY <1>1, SeenTick DEF PlaceOf, Waiting
<1>4. PhaseOf(w.doc.lease) \in Runner!Phases
  BY DEF PhaseOf, Runner!Phases
<1>5. ~Waiting(i, "release")
  BY DEF Waiting
<1>6. CASE Same(i) /\ UNCHANGED <<place, locals>>
  <2>1. ~Running(i)'
    BY <1>1, <1>6 DEF Same, Running
  <2>2. Tenant(w.by)' = Nobody
    BY <2>1 DEF Tenant
  <2>3. SameSeen(i)
    <3>1. ~Waiting(i, "release")' /\ ~Waiting(i, "commit")' /\ ~Waiting(i, "commit")
      BY <1>6 DEF Waiting, Same
    <3>2. PlaceOf(i)' = PlaceOf(i)
      BY <1>5, <1>6, <3>1 DEF PlaceOf
    <3> QED
      BY <1>1, <1>5, <1>6, <3>1, <3>2, SeenTick DEF SameSeen, locals
  <2>4. UNCHANGED <<SeenPlace, SeenCursor, SeenBatch, SeenLast, SeenBatches>>
    BY <1>1, <2>3, ApplyingFrame, SeenTicks
  <2>5. SeenBlob' = Runner!Taken(Nobody, PhaseOf(w.doc.lease))
    BY <1>2, <2>2, ApplyingFrame DEF Runner!Taken
  <2>6. Runner!PutUnsure(Runner!Taken(Nobody, PhaseOf(w.doc.lease)))
    BY <2>5, ApplyingFrame DEF Runner!PutUnsure, Runner!Put
  <2> QED
    BY <1>2, <1>3, <1>4, <2>4, <2>6, ApplyingFrame
       DEF Runner!AcquireFails, Runner!source, Runner!tick
<1>7. CASE /\ pc'[i] = "idle" /\ held'[i] = HeldAfter(w)
           /\ Acquired(i) \/ Committed(i) \/ Over(i)
  <2>1. held'[i] = w.doc.lease /\ Acquired(i)
    BY <1>1, <1>7 DEF HeldAfter, Committed, Over
  <2>2. (\A name : ~Waiting(i, name)') /\ Running(i)'
    BY <1>1, <1>7, <2>1 DEF Waiting, Running
  <2>3. Tenant(w.by)' = i
    <3>1. w.doc.lease.owner = w.by
      BY DEF PollerInv, StoreInv, AuthorInv
    <3> QED
      BY <2>1, <2>2, <3>1 DEF Tenant
  <2>4. /\ SeenPlace' = [SeenPlace EXCEPT ![i] = "load"]
        /\ UNCHANGED <<SeenCursor, SeenBatch, SeenLast, SeenBatches>>
    <3>1. PlaceOf(i)' = "load"
      BY <1>0, <1>1, <2>1, <2>2 DEF PlaceOf, Acquired, Goes, PollerTypeOK
    <3>2. /\ SeenCursor'[i] = SeenCursor[i] /\ SeenBatch'[i] = SeenBatch[i]
          /\ SeenLast'[i] = SeenLast[i] /\ SeenBatches'[i] = SeenBatches[i]
      BY <1>1, <1>5, <2>1, <2>2, SeenTick DEF Acquired, locals
    <3>3. UNCHANGED <<SeenCursor, SeenBatch, SeenLast, SeenBatches>>
      BY <1>1, <3>2, ApplyingFrame
         DEF SameSeen, SeenCursor, SeenBatch, SeenLast, SeenBatches, InTick
    <3> QED
      BY <1>1, <3>1, <3>3, ApplyingFrame, SeenTicks
  <2>5. SeenBlob' = Runner!Taken(i, PhaseOf(w.doc.lease))
    BY <1>2, <2>3, ApplyingFrame DEF Runner!Taken
  <2> QED
    BY <1>2, <1>3, <1>4, <2>4, <2>5, ApplyingFrame
       DEF Runner!AcquireOk, Runner!Put, Runner!GoTo, Runner!source, Runner!tick
<1> QED
  BY <1>6, <1>7, ApplyingSender

\* commit_checkpoint: its tick learns of it, or not.
LEMMA CommitAccepted ==
    ASSUME PollerInv, NEW w \in wire, Applying(w), NEW i, i = w.by.inst,
           sent[i] = w, call[i].name = "commit"
    PROVE  Runner!CommitOk(i) \/ Runner!CommitUnsure(i)
<1>0. /\ TypeOK /\ AuthorInv /\ AwaitInv /\ HolderInv
      /\ CallInv /\ KeptInv /\ SentInv /\ PollerTypeOK
  BY DEF PollerInv, StoreInv
<1>1. /\ i \in Instances /\ pc[i] = "await" /\ place[i] = "commit"
      /\ held[i] # NoLease /\ held[i].owner.inst = i
      /\ w.by = held[i].owner /\ w.doc.checkpoint = last[i]
  <2>1. i \in Instances /\ pc[i] = "await"
    BY <1>0, ApplyingFrame DEF AwaitInv
  <2> QED
    BY <1>0, <2>1, ApplyingFrame DEF CallInv, AuthorInv, AwaitInv
<1>2. ~Waiting(i, "release") /\ Waiting(i, "commit") /\ Running(i)
  BY <1>1 DEF Waiting, Running
<1>3. i \notin accepted
  <2>1. w.etag = blob.etag /\ w.etag \in Nat
    BY ApplyingFrame, Members DEF Live
  <2> QED
    BY <1>0, <1>1, <2>1 DEF SentInv
<1>4. \A j \in Instances \ {i} : SameSeen(j)
  BY ApplyingFrame
<1>5. SeenPlace[i] = "write" /\ SeenLast[i] = last[i]
  BY <1>1, <1>2, <1>3, SeenTick DEF PlaceOf
<1>6. SeenBlob.owner = i
  BY <1>1, <1>2, LiveIsOwner, ApplyingFrame
<1>7. SeenBlob.phase = PhaseOf(w.doc.lease)
  <2>1. blob.doc # NoDoc /\ blob.doc.lease.owner = held[i].owner
    BY <1>0, <1>1, ApplyingFrame DEF HolderInv
  <2>2. blob.doc.lease = held[i] /\ w.doc.lease = held[i]
    BY <1>0, <1>1, <1>2, <2>1 DEF KeptInv
  <2> QED
    BY <2>1, <2>2 DEF SeenBlob
<1>8. ASSUME held'[i] = held[i], ~Waiting(i, "release")'
      PROVE  SeenBlob' = Runner!Committed(i)
  <2>1. Tenant(w.by)' = i
    BY <1>1, <1>8 DEF Tenant, Running
  <2> QED
    BY <1>1, <1>5, <1>6, <1>7, <2>1, ApplyingFrame, CommittedIs
<1>9. CASE Same(i) /\ UNCHANGED <<place, locals>> /\ i \in accepted'
  <2>1. ~Waiting(i, "release")' /\ Waiting(i, "commit")' /\ held'[i] = held[i]
    BY <1>2, <1>9 DEF Waiting, Same
  <2>2. PlaceOf(i)' = "release"
    BY <1>9, <2>1 DEF PlaceOf
  <2>3. /\ SeenCursor'[i] = SeenCursor[i] /\ SeenBatch'[i] = SeenBatch[i]
        /\ SeenLast'[i] = SeenLast[i] /\ SeenBatches'[i] = SeenBatches[i]
    BY <1>1, <1>2, <1>9, <2>1, SeenTick DEF locals
  <2>4. UNCHANGED <<SeenCursor, SeenBatch, SeenLast, SeenBatches>>
    BY <1>1, <1>4, <2>3, SeenLocals
  <2>5. SeenPlace' = [SeenPlace EXCEPT ![i] = "release"]
    BY <1>1, <1>4, <2>2, SeenTicks
  <2>6. SeenBlob' = Runner!Committed(i)
    BY <1>8, <2>1
  <2> QED
    BY <1>5, <1>6, <2>4, <2>5, <2>6, ApplyingFrame
       DEF Runner!CommitUnsure, Runner!PutUnsure, Runner!Put, Runner!GoTo,
           Runner!source, Runner!tick
<1>10. CASE /\ pc'[i] = "idle" /\ held'[i] = HeldAfter(w)
            /\ Acquired(i) \/ Committed(i) \/ Over(i)
  <2>1. held'[i] = held[i] /\ Committed(i)
    BY <1>1, <1>10 DEF HeldAfter, Acquired, Over
  <2>2. \A name : ~Waiting(i, name)'
    BY <1>10 DEF Waiting
  <2>3. PlaceOf(i)' = "fetch"
    BY <1>0, <1>1, <2>1, <2>2 DEF PlaceOf, Committed, Goes, PollerTypeOK
  <2>4. /\ SeenCursor'[i] = last[i] /\ SeenBatches'[i] = SeenBatches[i] + 1
        /\ SeenBatch'[i] = SeenBatch[i] /\ SeenLast'[i] = SeenLast[i]
    <3>1. /\ cursor'[i] = last[i] /\ batches'[i] = batches[i] + 1
          /\ UNCHANGED <<batch, last>>
      BY <1>0, <1>1, <2>1 DEF Committed, PollerTypeOK
    <3> QED
      BY <1>1, <1>2, <2>2, <3>1, SeenTick
  <2>5. UNCHANGED <<SeenBatch, SeenLast>>
    BY <1>1, <1>4, <2>4, SeenLocals
  <2>6. /\ SeenPlace' = [SeenPlace EXCEPT ![i] = "fetch"]
        /\ SeenCursor' = [SeenCursor EXCEPT ![i] = SeenLast[i]]
        /\ SeenBatches' = [SeenBatches EXCEPT ![i] = SeenBatches[i] + 1]
    <3>1. SeenPlace' = [SeenPlace EXCEPT ![i] = "fetch"]
      BY <1>1, <1>4, <2>3, SeenTicks
    <3>2. SeenCursor' = [SeenCursor EXCEPT ![i] = SeenLast[i]]
      BY <1>1, <1>4, <1>5, <2>4, SeenTicks
    <3>3. SeenBatches' = [SeenBatches EXCEPT ![i] = SeenBatches[i] + 1]
      BY <1>1, <1>4, <2>4, SeenTicks
    <3> QED
      BY <3>1, <3>2, <3>3
  <2>7. SeenBlob' = Runner!Committed(i)
    BY <1>8, <2>1, <2>2
  <2> QED
    BY <1>5, <1>6, <2>5, <2>6, <2>7, ApplyingFrame
       DEF Runner!CommitOk, Runner!Put, Runner!GoTo, Runner!source
<1> QED
  BY <1>9, <1>10, ApplyingSender

\* A request that no tick waits for is applied late.
LEMMA StrayAccepted ==
    ASSUME PollerInv, NEW w \in wire, Applying(w), ~Awaited(w)
    PROVE  \E c \in SeenLate : Runner!Land(c)
<1> DEFINE i == w.by.inst
<1>0. /\ TypeOK /\ AuthorInv /\ AwaitInv /\ HolderInv
      /\ CallInv /\ KeptInv /\ SentInv /\ PollerTypeOK
  BY DEF PollerInv, StoreInv
<1>1. i \in Instances /\ Makes(w) \in SeenLate
  BY ApplyingFrame, StrayIs DEF SeenLate
<1>2. sent[i] = w => Waiting(i, "release")
  BY <1>0, <1>1, ApplyingFrame DEF Awaited, AwaitInv, Waiting
<1>3. SameSeen(i) /\ (Running(i)' <=> Running(i)) /\ (Running(i) => held'[i] = held[i])
  <2>1. CASE sent[i] # w
    <3>1. Same(i) /\ UNCHANGED <<place, locals>> /\ (i \in accepted' <=> i \in accepted)
      BY <1>1, <2>1, ApplyingSender
    <3> QED
      BY <1>1, <3>1, SameIsSeen DEF locals, Same
  <2>2. CASE Waiting(i, "release") /\ Waiting(i, "release")'
    <3>1. PlaceOf(i) = "idle" /\ PlaceOf(i)' = "idle"
      BY <2>2 DEF PlaceOf, Waiting
    <3>2. SameSeen(i)
      <4>1. /\ SeenCursor[i] = Empty /\ SeenBatch[i] = {}
            /\ SeenLast[i] = Empty /\ SeenBatches[i] = 0
        BY <1>1, <2>2, SeenTick
      <4>2. /\ SeenCursor'[i] = Empty /\ SeenBatch'[i] = {}
            /\ SeenLast'[i] = Empty /\ SeenBatches'[i] = 0
        BY <1>1, <2>2, SeenTick
      <4> QED
        BY <3>1, <4>1, <4>2 DEF SameSeen
    <3>3. ~Running(i) /\ ~Running(i)'
      BY <2>2 DEF Running
    <3> QED
      BY <3>2, <3>3
  <2>3. CASE /\ Waiting(i, "release") /\ pc'[i] = "idle" /\ held'[i] = HeldAfter(w)
             /\ Acquired(i) \/ Committed(i) \/ Over(i)
    <3>1. held'[i] = NoLease /\ Over(i)
      BY <2>3 DEF HeldAfter, Waiting, Acquired, Committed, Over
    <3>2. (\A name : ~Waiting(i, name)') /\ ~Running(i)' /\ ~Running(i)
      BY <2>3, <3>1 DEF Waiting, Running
    <3>3. PlaceOf(i) = "idle" /\ PlaceOf(i)' = "idle"
      BY <1>0, <1>1, <2>3, <3>1, <3>2 DEF PlaceOf, Waiting, Over, Goes, PollerTypeOK
    <3>4. /\ cursor'[i] = Empty /\ batch'[i] = {} /\ last'[i] = Empty
          /\ batches'[i] = 0
      BY <1>0, <1>1, <3>1 DEF Over, PollerTypeOK
    <3>5. SameSeen(i)
      <4>1. /\ SeenCursor[i] = Empty /\ SeenBatch[i] = {}
            /\ SeenLast[i] = Empty /\ SeenBatches[i] = 0
        BY <1>1, <2>3, SeenTick
      <4>2. /\ SeenCursor'[i] = Empty /\ SeenBatch'[i] = {}
            /\ SeenLast'[i] = Empty /\ SeenBatches'[i] = 0
        BY <1>1, <3>2, <3>4, SeenTick
      <4> QED
        BY <3>3, <4>1, <4>2 DEF SameSeen
    <3> QED
      BY <3>2, <3>5
  <2> QED
    BY <1>1, <1>2, <2>1, <2>2, <2>3, ApplyingSender DEF Same, Waiting
<1>4. Tenant(w.by)' = Tenant(w.by)
  BY <1>3 DEF Tenant
<1>5. UNCHANGED <<SeenPlace, SeenCursor, SeenBatch, SeenLast, SeenBatches>>
  BY <1>1, <1>3, ApplyingFrame, SeenTicks
<1>6. Makes(w).owner # Nobody => PhaseOf(w.doc.lease) = SeenBlob.phase
  <2> SUFFICES ASSUME Makes(w).owner # Nobody
               PROVE  PhaseOf(w.doc.lease) = SeenBlob.phase
    OBVIOUS
  <2>1. Running(i) /\ held[i].owner = w.by
    BY DEF Makes, Tenant
  <2>2. held[i] # NoLease
    BY <2>1 DEF Running
  <2>3. blob.doc # NoDoc /\ blob.doc.lease.owner = held[i].owner
    BY <1>0, <1>1, <2>1, <2>2, ApplyingFrame DEF HolderInv
  <2>4. blob.doc.lease = held[i] /\ w.doc.lease = held[i]
    BY <1>0, <1>1, <2>1, <2>3 DEF KeptInv
  <2> QED
    BY <2>3, <2>4 DEF SeenBlob
<1>7. PhaseOf(w.doc.lease) \in Runner!Phases
  BY DEF PhaseOf, Runner!Phases
<1>8. SeenBlob' = [owner |-> Makes(w).owner, phase |-> PhaseOf(w.doc.lease),
                   checkpoint |-> Makes(w).checkpoint]
  BY <1>4, ApplyingFrame DEF Makes
<1>9. Runner!Land(Makes(w))
  BY <1>5, <1>6, <1>7, <1>8, ApplyingFrame
     DEF Runner!Land, Runner!Put, Runner!source, Runner!tick
<1> QED
  BY <1>1, <1>9

\* Every accepted request is a step of PollRunner.
LEMMA ApplyingSeen ==
    ASSUME PollerInv, NEW w \in wire, Applying(w)
    PROVE  \/ \E c \in SeenLate : Runner!Land(c)
           \/ \E i \in Instances :
                 \/ Runner!AcquireOk(i) \/ Runner!AcquireFails(i)
                 \/ Runner!CommitOk(i) \/ Runner!CommitUnsure(i)
<1>1. CASE ~Awaited(w)
  BY <1>1, StrayAccepted
<1>2. CASE Awaited(w)
  <2>1. PICK i : i = w.by.inst /\ sent[i] = w /\ call[i].name # "release"
    BY <1>2 DEF Awaited
  <2>2. i \in Instances /\ pc[i] = "await"
    BY <2>1, ApplyingFrame DEF PollerInv, StoreInv, AwaitInv
  <2>3. call[i].name \in {"acquire", "commit"}
    BY <2>1, <2>2 DEF PollerInv, CallInv
  <2> QED
    BY <2>1, <2>2, <2>3, AcquireAccepted, CommitAccepted
<1> QED
  BY <1>1, <1>2

\* What a step between the calls leaves alone is seen to be so.
LEMMA BetweenFrame ==
    ASSUME PollerInv, UNCHANGED <<vars, accepted>>
    PROVE  /\ SeenBlob' = SeenBlob /\ SeenLate' = SeenLate
           /\ \A i \in Instances :
                 /\ Running(i)' <=> Running(i)
                 /\ \A name : Waiting(i, name)' <=> Waiting(i, name)
                 /\ /\ place'[i] = place[i] /\ cursor'[i] = cursor[i]
                    /\ batch'[i] = batch[i] /\ last'[i] = last[i]
                    /\ batches'[i] = batches[i]
                    => SameSeen(i)
<1>0. TypeOK
  BY DEF PollerInv, StoreInv
<1>1. UNCHANGED <<now, blob, wire, pc, call, seen, sent, held, acked, accepted>>
  BY DEF vars, service, client
<1>2. \A i : /\ Running(i)' <=> Running(i)
             /\ \A name : Waiting(i, name)' <=> Waiting(i, name)
  BY <1>1 DEF Running, Waiting
<1>3. \A id : Tenant(id)' = Tenant(id)
  BY <1>1, <1>2 DEF Tenant
<1>4. SeenBlob' = SeenBlob
  BY <1>1, <1>3, SeenBlobStays
<1>5. SeenLate' = SeenLate
  <2>1. Stray' = Stray
    BY <1>1 DEF Stray, Awaited
  <2> QED
    BY <1>3, <2>1, SeenLateStays
<1>6. ASSUME NEW i \in Instances, place'[i] = place[i], cursor'[i] = cursor[i],
             batch'[i] = batch[i], last'[i] = last[i], batches'[i] = batches[i]
      PROVE  SameSeen(i)
  BY <1>1, <1>6, SameIsSeen DEF Same
<1> QED
  BY <1>2, <1>4, <1>5, <1>6

\* A tick that is not at a call is seen as it is.
LEMMA BetweenTick ==
    ASSUME PollerInv, UNCHANGED <<vars, accepted>>,
           NEW i \in Instances, place[i] \in {"load", "fetch", "handle"},
           NEW to, to # "idle", place' = [place EXCEPT ![i] = to],
           \A j \in Instances \ {i} :
              /\ cursor'[j] = cursor[j] /\ batch'[j] = batch[j]
              /\ last'[j] = last[j] /\ batches'[j] = batches[j]
    PROVE  /\ SeenPlace[i] = place[i] /\ SeenCursor[i] = cursor[i]
           /\ SeenBatch[i] = batch[i] /\ SeenLast[i] = last[i]
           /\ SeenBatches[i] = batches[i]
           /\ SeenPlace' = [SeenPlace EXCEPT ![i] = to]
           /\ SeenCursor' = [SeenCursor EXCEPT ![i] = cursor'[i]]
           /\ SeenBatch' = [SeenBatch EXCEPT ![i] = batch'[i]]
           /\ SeenLast' = [SeenLast EXCEPT ![i] = last'[i]]
           /\ SeenBatches' = [SeenBatches EXCEPT ![i] = batches'[i]]
           /\ cursor'[i] = cursor[i] => SeenCursor' = SeenCursor
           /\ batch'[i] = batch[i] => SeenBatch' = SeenBatch
           /\ last'[i] = last[i] => SeenLast' = SeenLast
           /\ batches'[i] = batches[i] => SeenBatches' = SeenBatches
<1>1. PollerTypeOK /\ CallInv
  BY DEF PollerInv
<1>2. pc[i] = "idle" /\ pc'[i] = "idle"
  BY <1>1 DEF CallInv, vars, client
<1>3. \A name : ~Waiting(i, name) /\ ~Waiting(i, name)'
  BY <1>2 DEF Waiting
<1>4. \A j \in Instances \ {i} : place'[j] = place[j]
  BY <1>1 DEF PollerTypeOK
<1>5. \A j \in Instances \ {i} : SameSeen(j)
  BY <1>4, BetweenFrame
<1>6. PlaceOf(i) = place[i] /\ PlaceOf(i)' = to
  BY <1>1, <1>3 DEF PlaceOf, PollerTypeOK
<1>7. /\ SeenPlace[i] = place[i] /\ SeenCursor[i] = cursor[i]
      /\ SeenBatch[i] = batch[i] /\ SeenLast[i] = last[i]
      /\ SeenBatches[i] = batches[i]
      /\ SeenCursor'[i] = cursor'[i] /\ SeenBatch'[i] = batch'[i]
      /\ SeenLast'[i] = last'[i] /\ SeenBatches'[i] = batches'[i]
  BY <1>3, <1>6, SeenTick
<1> QED
  BY <1>5, <1>6, <1>7, SeenTicks, SeenLocals

\* The query and its pages are the same.
LEMMA SameQuery ==
    /\ \A c : Steps!Ahead(c) = Runner!Ahead(c)
    /\ \A b, c : Steps!IsPage(b, c) <=> Runner!IsPage(b, c)
    /\ \A l, b : Steps!IsLast(l, b) <=> Runner!IsLast(l, b)
<1>1. \A a, b : Steps!Less(a, b) <=> Runner!Less(a, b)
  BY DEF Steps!Less, Runner!Less
<1>2. \A c : Steps!Ahead(c) = Runner!Ahead(c)
  BY <1>1 DEF Steps!Ahead, Runner!Ahead
<1>3. \A b, c : Steps!IsPage(b, c) <=> Runner!IsPage(b, c)
  <2>1. \A b : Steps!Cardinality(b) = Runner!Cardinality(b)
    BY DEF Steps!Cardinality, Runner!Cardinality
  <2> QED
    BY <1>1, <1>2, <2>1 DEF Steps!IsPage, Runner!IsPage
<1>4. \A l, b : Steps!IsLast(l, b) <=> Runner!IsLast(l, b)
  BY <1>1 DEF Steps!IsLast, Runner!IsLast, Steps!Upto, Runner!Upto
<1> QED
  BY <1>2, <1>3, <1>4

\* The steps between the calls are those of PollRunner.
LEMMA BetweenSeen ==
    ASSUME PollerInv, Between
    PROVE  \/ Runner!Arrive
           \/ \E i \in Instances :
                 \/ Runner!Load(i) \/ Runner!Fail(i, "load")
                 \/ Runner!FetchBatch(i) \/ Runner!LoopEnds(i) \/ Runner!Fail(i, "fetch")
                 \/ Runner!HandlerOk(i) \/ Runner!HandlerFails(i)
<1>0. PollerTypeOK /\ UNCHANGED <<vars, accepted>> /\ SeenBlob' = SeenBlob /\ SeenLate' = SeenLate
  BY BetweenFrame DEF Between, store, PollerInv
<1> USE DEF Steps!tick, Steps!source, Steps!blob, Steps!GoTo,
            Runner!tick, Runner!source, Runner!blob, Runner!GoTo
<1>1. CASE Steps!Arrive
  <2>1. UNCHANGED <<handled, place, cursor, batch, last, batches>>
    BY <1>1 DEF Steps!Arrive, Steps!Insert, Steps!Update
  <2>2. UNCHANGED <<SeenPlace, SeenCursor, SeenBatch, SeenLast, SeenBatches>>
    <3>1. \A i \in Instances : SameSeen(i)
      BY <1>0, <2>1, BetweenFrame
    <3> QED
      BY <3>1 DEF SameSeen, SeenPlace, SeenCursor, SeenBatch, SeenLast, SeenBatches, InTick
  <2> QED
    BY <1>0, <1>1, <2>1, <2>2
       DEF Steps!Arrive, Steps!Insert, Steps!Update, Steps!MayArrive, Steps!Newest,
           Steps!Less, Steps!Keys, Runner!Arrive, Runner!Insert, Runner!Update,
           Runner!MayArrive, Runner!Newest, Runner!Less, Runner!Keys
<1>2. ASSUME NEW i \in Instances, Steps!Load(i) PROVE Runner!Load(i)
  <2>1. place[i] = "load" /\ place' = [place EXCEPT ![i] = "fetch"]
        /\ cursor' = [cursor EXCEPT ![i] = SeenBlob.checkpoint]
        /\ UNCHANGED <<rows, newest, handled, batch, last, batches>>
    BY <1>2 DEF Steps!Load
  <2>2. /\ cursor'[i] = SeenBlob.checkpoint
        /\ \A j \in Instances \ {i} : cursor'[j] = cursor[j]
    BY <1>0, <2>1 DEF PollerTypeOK
  <2> QED
    BY <1>0, <2>1, <2>2, BetweenTick DEF Runner!Load
<1>3. ASSUME NEW i \in Instances, Steps!FetchBatch(i) PROVE Runner!FetchBatch(i)
  <2>1. PICK b \in SUBSET Steps!Ahead(cursor[i]) : \E l \in b :
           /\ Steps!IsPage(b, cursor[i]) /\ Steps!IsLast(l, b)
           /\ batch' = [batch EXCEPT ![i] = b]
           /\ last' = [last EXCEPT ![i] = l]
    BY <1>3 DEF Steps!FetchBatch
  <2>2. PICK l \in b :
           /\ Steps!IsPage(b, cursor[i]) /\ Steps!IsLast(l, b)
           /\ batch' = [batch EXCEPT ![i] = b]
           /\ last' = [last EXCEPT ![i] = l]
    BY <2>1
  <2>3. /\ place[i] = "fetch" /\ place' = [place EXCEPT ![i] = "handle"]
        /\ batches[i] < MaxBatches
        /\ UNCHANGED <<rows, newest, handled, cursor, batches>>
    BY <1>3 DEF Steps!FetchBatch
  <2>4. /\ batch'[i] = b /\ last'[i] = l
        /\ \A j \in Instances \ {i} : batch'[j] = batch[j] /\ last'[j] = last[j]
    BY <1>0, <2>2 DEF PollerTypeOK
  <2>5. /\ SeenPlace[i] = "fetch" /\ SeenCursor[i] = cursor[i]
        /\ SeenBatches[i] = batches[i]
        /\ SeenPlace' = [SeenPlace EXCEPT ![i] = "handle"]
        /\ SeenBatch' = [SeenBatch EXCEPT ![i] = b]
        /\ SeenLast' = [SeenLast EXCEPT ![i] = l]
        /\ SeenCursor' = SeenCursor /\ SeenBatches' = SeenBatches
    BY <1>0, <2>3, <2>4, BetweenTick
  <2>6. /\ b \in SUBSET Runner!Ahead(cursor[i])
        /\ Runner!IsPage(b, cursor[i]) /\ Runner!IsLast(l, b)
    BY <2>1, <2>2, SameQuery
  <2> QED
    BY <1>0, <2>2, <2>3, <2>5, <2>6 DEF Runner!FetchBatch
<1>4. ASSUME NEW i \in Instances, NEW from \in {"load", "fetch", "handle"},
             Steps!Fail(i, from)
      PROVE  Runner!Fail(i, from)
  <2>1. /\ place[i] = from /\ place' = [place EXCEPT ![i] = "release"]
        /\ UNCHANGED <<rows, newest, handled, cursor, batch, last, batches>>
    BY <1>4 DEF Steps!Fail
  <2> QED
    BY <1>0, <2>1, BetweenTick DEF Runner!Fail
<1>5. ASSUME NEW i \in Instances, Steps!LoopEnds(i) PROVE Runner!LoopEnds(i)
  <2>1. /\ place[i] = "fetch" /\ place' = [place EXCEPT ![i] = "release"]
        /\ UNCHANGED <<rows, newest, handled, cursor, batch, last, batches>>
        /\ batches[i] = MaxBatches \/ Steps!Ahead(cursor[i]) = {}
    BY <1>5 DEF Steps!LoopEnds
  <2>2. batches[i] = MaxBatches \/ Runner!Ahead(cursor[i]) = {}
    BY <2>1, SameQuery
  <2> QED
    BY <1>0, <2>1, <2>2, BetweenTick DEF Runner!LoopEnds
<1>6. ASSUME NEW i \in Instances, Steps!HandlerOk(i) PROVE Runner!HandlerOk(i)
  <2>1. /\ place[i] = "handle" /\ place' = [place EXCEPT ![i] = "commit"]
        /\ handled' = handled \cup batch[i]
        /\ UNCHANGED <<rows, newest, cursor, batch, last, batches>>
    BY <1>6 DEF Steps!HandlerOk
  <2> QED
    BY <1>0, <2>1, BetweenTick DEF Runner!HandlerOk
<1>7. ASSUME NEW i \in Instances, Steps!HandlerFails(i) PROVE Runner!HandlerFails(i)
  BY <1>4, <1>7 DEF Steps!HandlerFails, Runner!HandlerFails
<1> QED
  BY <1>1, <1>2, <1>3, <1>4, <1>5, <1>6, <1>7 DEF Between

-----------------------------------------------------------------------------
(* The theorem.                                                            *)

\* The beginning of the composition is one of PollRunner.
LEMMA StartSeen == PollerInit => Runner!Init
<1> SUFFICES ASSUME PollerInit PROVE Runner!Init
  OBVIOUS
<1>1. SeenBlob = [owner |-> Nobody, phase |-> "free", checkpoint |-> Empty]
      /\ SeenLate = {}
  BY DEF PollerInit, Init, SeenBlob, SeenLate, Stray, Missing
<1>2. \A i \in Instances : pc[i] = "idle" /\ \A name : ~Waiting(i, name)
  BY DEF PollerInit, Init, Waiting
<1>3. /\ SeenPlace = [i \in Instances |-> "idle"]
      /\ SeenCursor = [i \in Instances |-> Empty]
      /\ SeenBatch = [i \in Instances |-> {}]
      /\ SeenLast = [i \in Instances |-> Empty]
      /\ SeenBatches = [i \in Instances |-> 0]
  BY <1>2 DEF PollerInit, SeenPlace, SeenCursor, SeenBatch, SeenLast, SeenBatches,
              InTick, PlaceOf
<1> QED
  BY <1>1, <1>3, CursorTypes DEF PollerInit, Runner!Init

\* Every step of the composition is one of PollRunner, or is not seen.
LEMMA StepSeen ==
    ASSUME ClocksAgree, PollerInv, [PollerNext]_pollerVars
    PROVE  [Runner!Next]_(Runner!vars)
<1>1. CASE Between
  BY <1>1, BetweenSeen DEF Runner!Next, Runner!Run
<1>2. CASE Passing
  BY <1>2, PassingSeen DEF Runner!Next
<1>3. ASSUME NEW i \in Instances, Starting(i) PROVE UNCHANGED Runner!vars
  BY <1>3, StartingSeen
<1>4. ASSUME NEW i \in Instances, Failing(i)
      PROVE  Runner!Run(i) \/ UNCHANGED Runner!vars
  BY <1>4, CommitFailsSeen, TickDies, CallDies DEF Failing, Runner!Run
<1>5. ASSUME NEW i \in Instances, NEW w \in Writes, Requesting(i, w)
      PROVE  Runner!Run(i) \/ UNCHANGED Runner!vars
  BY ClocksAgree, <1>5, AcquireSeen, CommitSeen, ReleaseSeen DEF Requesting, Runner!Run
<1>6. ASSUME NEW w \in wire, Applying(w) PROVE Runner!Next
  BY <1>6, ApplyingSeen DEF Runner!Next, Runner!Run
<1> QED
  BY <1>1, <1>2, <1>3, <1>4, <1>5, <1>6, PollerShape DEF Runner!Next

\* Ticks that work on the store call by call, with requests lost, delayed
\* and repeated and processes that crash, behave as PollRunner says, as long
\* as the clocks agree up to the grace period and nobody deletes the blob.
THEOREM RunnerImplemented ==
    ASSUME ClocksAgree
    PROVE  PollerSpec => ImplementsRunner
<1>1. PollerInv /\ [PollerNext]_pollerVars => [Runner!Next]_(Runner!vars)
  BY ClocksAgree, StepSeen
<1> QED
  BY <1>1, ClocksAgree, StartSeen, PollerAlways, PTL
     DEF PollerSpec, ImplementsRunner, Runner!Spec
=============================================================================
