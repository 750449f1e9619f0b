------------------------ MODULE CheckpointStoreProofs ------------------------
(***************************************************************************)
(* Proofs about CheckpointStore, for any number of instances, any lease    *)
(* times and any bounds: its types, its safety properties, and that it     *)
(* implements FencedCheckpoint.                                            *)
(***************************************************************************)
EXTENDS CheckpointStore, TLAPS

-----------------------------------------------------------------------------
(* Type correctness. *)

\* Durations and clock readings are integers.
LEMMA Numbers ==
    ASSUME NEW i \in Instances
    PROVE  /\ Ttl[i] \in Nat \ {0} /\ Skew[i] \in Int
           /\ TtlUnits(i) \in Nat
           /\ EffectiveGrace(i) \in Nat
           /\ now \in Nat => Clock(i) \in Int
  BY TtlAssumption, SkewAssumption DEF TtlUnits, EffectiveGrace, Clock

\* The members of a blob that exists, and of a request.
LEMMA Members ==
    /\ \A b \in Blobs : /\ b.etag \in Nat
                        /\ b.doc = NoDoc => b = Missing
                        /\ b.doc # NoDoc => b.doc \in Docs /\ b.etag # 0
    /\ \A d \in Docs : /\ d.lease \in Leases /\ d.checkpoint \in Checkpoints
                       /\ d.lease.owner \in Owners
                       /\ d.lease.owner.inst \in Instances
                       /\ d.lease.owner.n \in Nat
                       /\ d.lease.token \in Nat /\ d.lease.expires \in Int
    /\ \A w \in Writes : /\ w.by \in Owners /\ w.by.inst \in Instances
                         /\ w.by.n \in Nat
                         /\ w.etag \in Nat /\ w.doc \in Docs
    /\ Missing \in Blobs
  BY AbsenceAssumption, BoundsAssumption
     DEF Blobs, Missing, Docs, Leases, Owners, Writes

\* The end of a call leaves the client's state typed.
LEMMA EndType ==
    ASSUME TypeOK, NEW i \in Instances, NEW h \in Leases \cup {NoLease},
           NEW c \in Checkpoints, End(i, h, c)
    PROVE  /\ pc' \in [Instances -> {"idle", "decide", "await"}]
           /\ call' \in [Instances -> Calls]
           /\ seen' \in [Instances -> Blobs]
           /\ sent' \in [Instances -> Writes \cup {NoWrite}]
           /\ held' \in [Instances -> Leases \cup {NoLease}]
           /\ acked' \in [Instances -> Checkpoints]
<1>1. NoCall \in Calls
  BY EmptyAssumption DEF NoCall, Calls
<1> QED
  BY <1>1, Members DEF End, TypeOK

\* A raised exception preserves the type invariant.
LEMMA RaiseType ==
    ASSUME TypeOK, NEW i \in Instances, Raise(i)
    PROVE  TypeOK'
<1>1. PICK h \in Leases \cup {NoLease} : End(i, h, Empty)
  BY DEF Raise, TypeOK
<1> QED
  BY <1>1, EndType, EmptyAssumption DEF Raise, TypeOK, service

\* The beginning of a call preserves the type invariant.
LEMMA ReadStateType ==
    ASSUME TypeOK, NEW i \in Instances,
           NEW name \in {"acquire", "renew", "release", "commit"},
           NEW c \in Checkpoints, ReadState(i, name, c)
    PROVE  TypeOK'
  BY EmptyAssumption DEF ReadState, TypeOK, service, Calls

\* The sending of a typed request preserves the type invariant.
LEMMA SendType ==
    ASSUME TypeOK, NEW i \in Instances, NEW id \in Owners, NEW doc \in Docs,
           Send(i, id, doc), issued' \in [Instances -> 0..MaxOwners]
    PROVE  TypeOK'
<1>1. Write(i, id, doc) \in Writes
  BY Members DEF Write, Writes, TypeOK
<1> QED
  BY <1>1 DEF Send, TypeOK

\* What the instances write is a document.
LEMMA NewDocs ==
    ASSUME TypeOK, NEW i \in Instances
    PROVE  /\ DrawOwner(i) => /\ issued' \in [Instances -> 0..MaxOwners]
                              /\ NewOwner(i) \in Owners
                              /\ InitialState(i) \in Docs
                              /\ Readable(i) => StolenState(i) \in Docs
           /\ Readable(i) => /\ seen[i].doc \in Docs
                             /\ seen[i].doc.fingerprint = Fingerprint[i]
<1>1. Readable(i) => seen[i].doc \in Docs
  BY Members DEF Readable, TypeOK
<1>2. ASSUME DrawOwner(i)
      PROVE  NewOwner(i) \in Owners /\ issued' \in [Instances -> 0..MaxOwners]
  BY <1>2, BoundsAssumption DEF DrawOwner, NewOwner, Owners, TypeOK
<1>3. ASSUME NewOwner(i) \in Owners, NEW token \in Nat
      PROVE  NewLease(i, token) \in Leases
  BY <1>3, Numbers DEF NewLease, Leases, TypeOK
<1>4. ASSUME DrawOwner(i) PROVE InitialState(i) \in Docs
  BY <1>2, <1>3, <1>4, EmptyAssumption DEF InitialState, Docs
<1>5. ASSUME DrawOwner(i), Readable(i) PROVE StolenState(i) \in Docs
  <2>1. NewLease(i, seen[i].doc.lease.token + 1) \in Leases
    BY <1>1, <1>2, <1>3, <1>5, Members
  <2> QED
    BY <2>1, <1>1, <1>5 DEF StolenState, Docs
<1> QED
  BY <1>1, <1>2, <1>4, <1>5 DEF Readable

\* What the holder writes back is a document.
LEMMA OwnDocs ==
    ASSUME TypeOK, NEW i \in Instances, Readable(i)
    PROVE  /\ \A e \in Int : [seen[i].doc EXCEPT !.lease.expires = e] \in Docs
           /\ \A c \in Checkpoints : [seen[i].doc EXCEPT !.checkpoint = c] \in Docs
           /\ IsOwner(seen[i].doc.lease, held[i]) => held[i].owner \in Owners
           /\ VerifyLease(seen[i].doc.lease, i) => held[i].owner \in Owners
<1>1. seen[i].doc \in Docs
  BY NewDocs
<1> QED
  BY <1>1, Members DEF IsOwner, VerifyLease, Docs, Leases

\* An answer, or its loss, leaves clients and requests typed.
LEMMA AnswerType ==
    ASSUME TypeOK, NEW w \in wire, NEW h \in Leases \cup {NoLease},
           NEW c \in Checkpoints, Answer(w, h, c)
    PROVE  /\ wire' \subseteq Writes
           /\ pc' \in [Instances -> {"idle", "decide", "await"}]
           /\ call' \in [Instances -> Calls]
           /\ seen' \in [Instances -> Blobs]
           /\ sent' \in [Instances -> Writes \cup {NoWrite}]
           /\ held' \in [Instances -> Leases \cup {NoLease}]
           /\ acked' \in [Instances -> Checkpoints]
<1>1. wire' \subseteq wire
  BY DEF Answer
<1>2. w.by.inst \in Instances
  BY Members DEF TypeOK
<1>3. CASE End(w.by.inst, h, c)
  BY <1>1, <1>2, <1>3, EndType DEF TypeOK
<1>4. CASE UNCHANGED client
  BY <1>1, <1>4 DEF TypeOK, client
<1> QED
  BY <1>3, <1>4 DEF Answer

\* What an answer leaves a client with is of its type.
LEMMA AfterType ==
    ASSUME TypeOK, NEW w \in wire
    PROVE  /\ HeldAfter(w) \in Leases \cup {NoLease}
           /\ HeldAfterConflict(w) \in Leases \cup {NoLease}
           /\ call[w.by.inst].checkpoint \in Checkpoints
<1>1. w.by.inst \in Instances /\ w.doc.lease \in Leases
  BY Members DEF TypeOK
<1>2. held[w.by.inst] \in Leases \cup {NoLease} /\ call[w.by.inst] \in Calls
  BY <1>1 DEF TypeOK
<1> QED
  BY <1>1, <1>2 DEF HeldAfter, HeldAfterConflict, Calls

\* Every step of the store preserves the type invariant.
LEMMA TypeStep == TypeOK /\ [Next]_vars => TypeOK'
<1> SUFFICES ASSUME TypeOK, [Next]_vars PROVE TypeOK'
  OBVIOUS
<1>1. CASE Tick
  BY <1>1 DEF Tick, TypeOK, service, client
<1>2. ASSUME NEW i \in Instances, Step(i) PROVE TypeOK'
  <2>1. CASE Acquire(i) \/ Renew(i) \/ Release(i)
    BY <2>1, ReadStateType, EmptyAssumption DEF Acquire, Renew, Release
  <2>2. ASSUME NEW c \in Checkpoints \ {Empty}, Commit(i, c) PROVE TypeOK'
    BY <2>2, ReadStateType DEF Commit
  <2>3. CASE ReadFails(i) \/ AcquireConflict(i) \/ Lost(i) \/ Timeout(i)
    BY <2>3, RaiseType DEF ReadFails, AcquireConflict, Lost, Timeout
  <2>4. CASE AcquireCreate(i)
    BY <2>4, NewDocs, SendType DEF AcquireCreate
  <2>5. CASE AcquireSteal(i)
    BY <2>5, NewDocs, SendType DEF AcquireSteal
  <2>6. CASE RenewWrite(i)
    <3>1. Clock(i) + TtlUnits(i) \in Int
      BY Numbers DEF TypeOK
    <3> QED
      BY <2>6, <3>1, OwnDocs, SendType DEF RenewWrite, TypeOK
  <2>7. CASE CommitWrite(i)
    <3>1. call[i].checkpoint \in Checkpoints
      BY DEF TypeOK, Calls
    <3> QED
      BY <2>7, <3>1, OwnDocs, SendType DEF CommitWrite, TypeOK
  <2>8. CASE ReleaseWrite(i)
    <3>1. Clock(i) \in Int
      BY Numbers DEF TypeOK
    <3> QED
      BY <2>8, <3>1, OwnDocs, SendType DEF ReleaseWrite, TypeOK
  <2>9. CASE Crash(i)
    BY <2>9, EndType, EmptyAssumption DEF Crash, TypeOK, service
  <2> QED
    BY <1>2, <2>1, <2>2, <2>3, <2>4, <2>5, <2>6, <2>7, <2>8, <2>9 DEF Step
<1>3. ASSUME NEW w \in wire, Accept(w) PROVE TypeOK'
  <2>1. blob' \in Blobs /\ writes' \in Nat
    BY <1>3, Members DEF Accept, TypeOK, Blobs
  <2> QED
    BY <1>3, <2>1, AnswerType, AfterType DEF Accept, TypeOK
<1>4. ASSUME NEW w \in wire, Reject(w) PROVE TypeOK'
  BY <1>4, AnswerType, AfterType, EmptyAssumption DEF Reject, TypeOK
<1>5. CASE DeleteBlob
  BY <1>5, Members DEF DeleteBlob, TypeOK, client
<1>6. CASE UNCHANGED vars
  BY <1>6 DEF vars, service, client, TypeOK
<1> QED
  BY <1>1, <1>2, <1>3, <1>4, <1>5, <1>6 DEF Next

\* The store's state always has its type.
THEOREM TypeCorrect == Spec => []TypeOK
<1>1. Init => TypeOK
  BY Members, EmptyAssumption, BoundsAssumption
     DEF Init, TypeOK, NoCall, Calls, Missing
<1> QED
  BY <1>1, TypeStep, PTL DEF Spec

-----------------------------------------------------------------------------
(* The five kinds of step, which the other proofs distinguish. *)

Same(j) ==
    /\ pc'[j] = pc[j] /\ call'[j] = call[j] /\ seen'[j] = seen[j]
    /\ sent'[j] = sent[j] /\ held'[j] = held[j] /\ acked'[j] = acked[j]

Ended(j, h, c) ==
    /\ pc'[j] = "idle" /\ call'[j] = NoCall /\ seen'[j] = Missing
    /\ sent'[j] = NoWrite /\ held'[j] = h /\ acked'[j] = c

\* A call fails, a process dies, time passes, or nothing happens.
Quiet ==
    /\ UNCHANGED <<blob, author, writes, deletes, issued>>
    /\ wire' \subseteq wire
    /\ now' \in {now, now + 1}
    /\ \A j \in Instances :
          \/ Same(j)
          \/ \E h \in {held[j], NoLease} :
                Ended(j, h, Empty) /\ (call[j].name = "release" => h = NoLease)

\* A call begins.
Reading(i) ==
    /\ UNCHANGED <<now, service, issued>>
    /\ \A j \in Instances \ {i} : Same(j)
    /\ pc[i] = "idle" /\ pc'[i] = "decide"
    /\ seen'[i] = blob /\ acked'[i] = Empty
    /\ UNCHANGED <<sent[i], held[i]>>
    /\ call'[i] \in Calls
    /\ call'[i].name \in {"renew", "release", "commit"} => held[i] # NoLease
    /\ call'[i].checkpoint # Empty => call'[i].name = "commit"

\* An instance writes under a new owner id ...
Taking(i, w) ==
    /\ call[i].name = "acquire"
    /\ w.by.n = issued[i] + 1
    /\ issued' = [issued EXCEPT ![i] = @ + 1]
    /\ w.doc.lease.expires = Clock(i) + TtlUnits(i)
    /\ \/ /\ seen[i].doc = NoDoc
          /\ w.doc.lease.token = 1 /\ w.doc.checkpoint = Empty
       \/ /\ seen[i].doc # NoDoc
          /\ w.doc.lease.token = seen[i].doc.lease.token + 1
          /\ w.doc.checkpoint = seen[i].doc.checkpoint
          /\ IsLeaseExpired(seen[i].doc.lease, i)

\* ... or under the one it holds.
Holding(i, w) ==
    /\ issued' = issued
    /\ seen[i].doc # NoDoc
    /\ w.by = held[i].owner /\ w.by = seen[i].doc.lease.owner
    /\ w.doc.lease.token = seen[i].doc.lease.token
    /\ \/ /\ call[i].name = "commit"
          /\ w.doc.lease = seen[i].doc.lease
          /\ w.doc.checkpoint = call[i].checkpoint
       \/ /\ call[i].name = "renew"
          /\ w.doc.lease.expires = Clock(i) + TtlUnits(i)
          /\ w.doc.checkpoint = seen[i].doc.checkpoint
       \/ /\ call[i].name = "release"
          /\ w.doc.lease.expires = Clock(i)
          /\ w.doc.checkpoint = seen[i].doc.checkpoint

Writing(i, w) ==
    /\ UNCHANGED <<now, blob, author, writes, deletes>>
    /\ \A j \in Instances \ {i} : Same(j)
    /\ pc[i] = "decide" /\ pc'[i] = "await"
    /\ UNCHANGED <<call[i], seen[i], held[i], acked[i]>>
    /\ wire' = wire \cup {w} /\ sent'[i] = w
    /\ w.etag = seen[i].etag
    /\ w.doc.lease.owner = w.by
    /\ w.doc.fingerprint = Fingerprint[i]
    /\ (Taking(i, w) /\ w.by.inst = i) \/ Holding(i, w)

\* The service applies a write, and its client may learn of it.
Accepting(w) ==
    /\ UNCHANGED <<now, deletes, issued>>
    /\ w.etag = blob.etag
    /\ writes' = writes + 1
    /\ blob' = [etag |-> writes + 1, doc |-> w.doc]
    /\ author' = w.by
    /\ wire' \subseteq wire
    /\ \A j \in Instances :
          \/ Same(j)
          \/ /\ j = w.by.inst /\ sent[j] = w /\ w \notin wire'
             /\ Ended(j, HeldAfter(w), call[j].checkpoint)

\* The end of a call concerns one client only.
LEMMA EndFrame ==
    ASSUME TypeOK, NEW i \in Instances, NEW h, NEW c, End(i, h, c)
    PROVE  Ended(i, h, c) /\ \A j \in Instances \ {i} : Same(j)
  BY DEF End, Ended, Same, TypeOK

\* A raised exception is a quiet step.
LEMMA RaiseShape ==
    ASSUME TypeOK, NEW i \in Instances, Raise(i)
    PROVE  Quiet
<1>1. PICK h \in {held[i], NoLease} :
         End(i, h, Empty) /\ (call[i].name = "release" => h = NoLease)
  BY DEF Raise
<1> QED
  BY <1>1, EndFrame DEF Raise, Quiet, service

\* An answer reaches the client that awaits it, or nobody.
LEMMA AnswerShape ==
    ASSUME TypeOK, NEW w \in wire, NEW h, NEW c, Answer(w, h, c)
    PROVE  /\ wire' \subseteq wire
           /\ \A j \in Instances :
                 \/ Same(j)
                 \/ /\ j = w.by.inst /\ sent[j] = w /\ w \notin wire'
                    /\ Ended(j, h, c)
<1>1. w.by.inst \in Instances
  BY Members DEF TypeOK
<1>2. CASE /\ sent[w.by.inst] = w
           /\ End(w.by.inst, h, c)
           /\ wire' = {v \in wire \ {w} : sent[v.by.inst] = v \/ v.etag \in {0, blob'.etag}}
  BY <1>1, <1>2, EndFrame
<1>3. CASE UNCHANGED client
  BY <1>3 DEF Same, client, Answer
<1> QED
  BY <1>2, <1>3 DEF Answer

\* The beginning of a call is a reading step.
LEMMA ReadShape ==
    ASSUME TypeOK, NEW i \in Instances,
           NEW name \in {"acquire", "renew", "release", "commit"},
           NEW c \in Checkpoints, ReadState(i, name, c),
           name # "acquire" => held[i] # NoLease,
           c # Empty => name = "commit"
    PROVE  Reading(i)
  BY DEF ReadState, Reading, Same, TypeOK, Calls

\* The sending of a request is a writing step.
LEMMA SendShape ==
    ASSUME TypeOK, NEW i \in Instances, NEW id \in Owners, NEW doc \in Docs,
           pc[i] = "decide", Send(i, id, doc),
           doc.lease.owner = id, doc.fingerprint = Fingerprint[i],
           LET w == Write(i, id, doc)
           IN  (Taking(i, w) /\ w.by.inst = i) \/ Holding(i, w)
    PROVE  \E w \in Writes : Writing(i, w)
<1>1. Write(i, id, doc) \in Writes
  BY Members DEF Write, Writes, TypeOK
<1>2. /\ Write(i, id, doc).etag = seen[i].etag
      /\ Write(i, id, doc).doc = doc /\ Write(i, id, doc).by = id
  BY DEF Write
<1>3. /\ sent'[i] = Write(i, id, doc) /\ pc'[i] = "await"
      /\ \A j \in Instances \ {i} : Same(j)
  BY DEF Send, Same, TypeOK
<1>4. Writing(i, Write(i, id, doc))
  BY <1>2, <1>3 DEF Writing, Send
<1> QED
  BY <1>1, <1>4

\* Each of the five requests is written under an id, and for a reason, of
\* one of the two kinds.
LEMMA RequestShape ==
    ASSUME TypeOK, NEW i \in Instances,
           \/ AcquireCreate(i) \/ AcquireSteal(i)
           \/ RenewWrite(i) \/ CommitWrite(i) \/ ReleaseWrite(i)
    PROVE  \E w \in Writes : Writing(i, w)
<1> USE DEF Taking, Holding, Write, Deciding
<1>0. /\ Clock(i) \in Int /\ Clock(i) + TtlUnits(i) \in Int
      /\ call[i].checkpoint \in Checkpoints
  BY Numbers DEF TypeOK, Calls
<1>1. CASE AcquireCreate(i)
  BY <1>1, NewDocs, SendShape
     DEF AcquireCreate, DrawOwner, InitialState, NewLease, NewOwner
<1>2. CASE AcquireSteal(i)
  <2>1. /\ StolenState(i).lease = NewLease(i, seen[i].doc.lease.token + 1)
        /\ StolenState(i).checkpoint = seen[i].doc.checkpoint
        /\ StolenState(i).fingerprint = Fingerprint[i]
    BY <1>2, NewDocs DEF AcquireSteal, StolenState, Docs
  <2>2. /\ StolenState(i).lease.owner = NewOwner(i)
        /\ StolenState(i).lease.token = seen[i].doc.lease.token + 1
        /\ StolenState(i).lease.expires = Clock(i) + TtlUnits(i)
        /\ NewOwner(i).inst = i /\ NewOwner(i).n = issued[i] + 1
    BY <2>1 DEF NewLease, NewOwner
  <2>3. NewOwner(i) \in Owners /\ StolenState(i) \in Docs
    BY <1>2, NewDocs DEF AcquireSteal
  <2>4. /\ Send(i, NewOwner(i), StolenState(i)) /\ pc[i] = "decide"
        /\ call[i].name = "acquire" /\ seen[i].doc # NoDoc
        /\ issued' = [issued EXCEPT ![i] = @ + 1]
        /\ IsLeaseExpired(seen[i].doc.lease, i)
    BY <1>2 DEF AcquireSteal, DrawOwner, Readable
  <2> QED
    BY <2>1, <2>2, <2>3, <2>4, SendShape
<1>3. CASE RenewWrite(i)
  <2> DEFINE d == [seen[i].doc EXCEPT !.lease.expires = Clock(i) + TtlUnits(i)]
  <2>1. /\ d.lease.expires = Clock(i) + TtlUnits(i)
        /\ d.lease.owner = seen[i].doc.lease.owner
        /\ d.lease.token = seen[i].doc.lease.token
        /\ d.checkpoint = seen[i].doc.checkpoint
        /\ d.fingerprint = Fingerprint[i]
    BY <1>0, <1>3, NewDocs DEF RenewWrite, Docs, Leases
  <2>2. d \in Docs /\ held[i].owner \in Owners
    BY <1>0, <1>3, OwnDocs DEF RenewWrite
  <2>3. Send(i, held[i].owner, d) /\ issued' = issued /\ pc[i] = "decide"
        /\ call[i].name = "renew" /\ seen[i].doc # NoDoc
        /\ seen[i].doc.lease.owner = held[i].owner
    BY <1>3 DEF RenewWrite, VerifyLease, IsOwner, Readable
  <2> HIDE DEF d
  <2> QED
    BY <2>1, <2>2, <2>3, SendShape
<1>4. CASE CommitWrite(i)
  <2> DEFINE d == [seen[i].doc EXCEPT !.checkpoint = call[i].checkpoint]
  <2>1. /\ d.lease = seen[i].doc.lease
        /\ d.checkpoint = call[i].checkpoint
        /\ d.fingerprint = Fingerprint[i]
    BY <1>0, <1>4, NewDocs DEF CommitWrite, Docs
  <2>2. d \in Docs /\ held[i].owner \in Owners
    BY <1>0, <1>4, OwnDocs DEF CommitWrite
  <2>3. Send(i, held[i].owner, d) /\ issued' = issued /\ pc[i] = "decide"
        /\ call[i].name = "commit" /\ seen[i].doc # NoDoc
        /\ seen[i].doc.lease.owner = held[i].owner
    BY <1>4 DEF CommitWrite, VerifyLease, IsOwner, Readable
  <2> HIDE DEF d
  <2> QED
    BY <2>1, <2>2, <2>3, SendShape
<1>5. CASE ReleaseWrite(i)
  <2> DEFINE d == [seen[i].doc EXCEPT !.lease.expires = Clock(i)]
  <2>1. /\ d.lease.expires = Clock(i)
        /\ d.lease.owner = seen[i].doc.lease.owner
        /\ d.lease.token = seen[i].doc.lease.token
        /\ d.checkpoint = seen[i].doc.checkpoint
        /\ d.fingerprint = Fingerprint[i]
    BY <1>0, <1>5, NewDocs DEF ReleaseWrite, Docs, Leases
  <2>2. d \in Docs /\ held[i].owner \in Owners
    BY <1>0, <1>5, OwnDocs DEF ReleaseWrite
  <2>3. Send(i, held[i].owner, d) /\ issued' = issued /\ pc[i] = "decide"
        /\ call[i].name = "release" /\ seen[i].doc # NoDoc
        /\ seen[i].doc.lease.owner = held[i].owner
    BY <1>5 DEF ReleaseWrite, IsOwner, Readable
  <2> HIDE DEF d
  <2> QED
    BY <2>1, <2>2, <2>3, SendShape
<1> QED
  BY <1>1, <1>2, <1>3, <1>4, <1>5

\* Every step is of one of the kinds.
LEMMA StepShape ==
    ASSUME TypeOK, [Next]_vars
    PROVE  \/ Quiet
           \/ \E i \in Instances : Reading(i)
           \/ \E i \in Instances : \E w \in Writes : Writing(i, w)
           \/ \E w \in wire : Accepting(w)
           \/ DeleteBlob
<1>1. CASE Tick \/ UNCHANGED vars
  BY <1>1 DEF Tick, vars, Quiet, Same, service, client
<1>2. ASSUME NEW i \in Instances, Step(i)
      PROVE  \/ Quiet \/ Reading(i)
             \/ \E w \in Writes : Writing(i, w)
  <2>1. CASE Acquire(i) \/ Renew(i) \/ Release(i)
    BY <2>1, ReadShape, EmptyAssumption DEF Acquire, Renew, Release
  <2>2. ASSUME NEW c \in Checkpoints \ {Empty}, Commit(i, c) PROVE Reading(i)
    BY <2>2, ReadShape DEF Commit
  <2>3. CASE ReadFails(i) \/ AcquireConflict(i) \/ Lost(i) \/ Timeout(i)
    BY <2>3, RaiseShape DEF ReadFails, AcquireConflict, Lost, Timeout
  <2>4. CASE Crash(i)
    BY <2>4, EndFrame DEF Crash, Quiet, service
  <2> QED
    BY <1>2, <2>1, <2>2, <2>3, <2>4, RequestShape DEF Step
<1>3. ASSUME NEW w \in wire, Accept(w) PROVE Accepting(w)
  BY <1>3, AnswerShape DEF Accept, Accepting
<1>4. ASSUME NEW w \in wire, Reject(w) PROVE Quiet
  <2>1. HeldAfterConflict(w) \in {held[w.by.inst], NoLease}
        /\ (call[w.by.inst].name = "release" => HeldAfterConflict(w) = NoLease)
    BY DEF HeldAfterConflict
  <2> QED
    BY <1>4, <2>1, AnswerShape DEF Reject, Quiet
<1> QED
  BY <1>1, <1>2, <1>3, <1>4 DEF Next

-----------------------------------------------------------------------------
(* Owner ids. Every document names the owner id that wrote it last, and    *)
(* carries the fingerprint of that instance's source.                      *)

Drawn(o) == o.n <= issued[o.inst]

AuthorInv ==
    /\ \A w \in wire : /\ w.doc.lease.owner = w.by /\ Drawn(w.by)
                       /\ w.doc.fingerprint = Fingerprint[w.by.inst]
    /\ blob.doc # NoDoc =>
          /\ Drawn(blob.doc.lease.owner)
          /\ Fingerprint[blob.doc.lease.owner.inst] = blob.doc.fingerprint
    /\ \A i \in Instances :
          /\ seen[i].doc # NoDoc => Drawn(seen[i].doc.lease.owner)
          /\ held[i] # NoLease => held[i].owner.inst = i /\ Drawn(held[i].owner)
          /\ call[i].name \in {"renew", "release", "commit"} => held[i] # NoLease

\* An owner id that has been drawn stays so.
LEMMA DrawnStays ==
    ASSUME TypeOK, NEW i \in Instances,
           \/ UNCHANGED issued
           \/ issued' = [issued EXCEPT ![i] = @ + 1],
           NEW o \in Owners, Drawn(o)
    PROVE  Drawn(o)'
<1>1. o.inst \in Instances /\ o.n \in Nat /\ issued[o.inst] \in Nat
  BY BoundsAssumption DEF Owners, TypeOK
<1>2. issued'[o.inst] = issued[o.inst] \/ issued'[o.inst] = issued[o.inst] + 1
  BY <1>1 DEF TypeOK
<1> QED
  BY <1>1, <1>2 DEF Drawn

\* A request is the instance's own, and its lease, if it writes as holder.
LEMMA HoldingBy ==
    ASSUME TypeOK, AuthorInv, NEW i \in Instances, NEW w \in Writes, Writing(i, w)
    PROVE  w.by.inst = i /\ (Holding(i, w) => held[i] # NoLease)
  BY DEF AuthorInv, Writing, Holding

\* Every step preserves AuthorInv.
LEMMA AuthorStep ==
    ASSUME TypeOK, AuthorInv, [Next]_vars
    PROVE  AuthorInv'
<1>0. TypeOK'
  BY TypeStep
<1>1. CASE Quiet
  BY <1>1 DEF Quiet, AuthorInv, Drawn, Same, Ended, NoCall, Missing
<1>2. ASSUME NEW i \in Instances, Reading(i) PROVE AuthorInv'
  BY <1>2 DEF Reading, AuthorInv, Drawn, Same, service
<1>3. ASSUME NEW i \in Instances, NEW w \in Writes, Writing(i, w) PROVE AuthorInv'
  <2>1. w.by.inst = i /\ w.by \in Owners /\ w.by.n \in Nat
    BY <1>3, HoldingBy, Members
  <2>2. \A o \in Owners : Drawn(o) => Drawn(o)'
    BY <1>3, DrawnStays DEF Writing, Taking, Holding
  <2>3. Drawn(w.by)'
    <3>1. CASE Taking(i, w)
      BY <2>1, <3>1 DEF Taking, Drawn, TypeOK
    <3>2. CASE Holding(i, w)
      BY <1>3, <2>1, <2>2, <3>2, HoldingBy DEF Holding, AuthorInv
    <3> QED
      BY <1>3, <3>1, <3>2 DEF Writing
  <2>4. \A v \in wire' : /\ v.doc.lease.owner = v.by /\ Drawn(v.by)'
                         /\ v.doc.fingerprint = Fingerprint[v.by.inst]
    BY <1>3, <2>1, <2>2, <2>3, Members DEF Writing, AuthorInv, TypeOK
  <2>5. blob.doc # NoDoc => Drawn(blob.doc.lease.owner)'
    BY <2>2, <1>3, Members DEF AuthorInv, TypeOK, Writing
  <2>6. \A j \in Instances :
           /\ seen[j].doc # NoDoc => Drawn(seen[j].doc.lease.owner)'
           /\ held[j] # NoLease => Drawn(held[j].owner)'
    <3>1. \A j \in Instances :
             /\ seen[j].doc # NoDoc => seen[j].doc.lease.owner \in Owners
                                       /\ seen'[j] = seen[j]
             /\ held[j] # NoLease => held[j].owner \in Owners /\ held'[j] = held[j]
      BY <1>3, Members DEF TypeOK, Leases, Writing, Same
    <3> QED
      BY <2>2, <3>1 DEF AuthorInv, Drawn
  <2> QED
    BY <1>3, <2>4, <2>5, <2>6 DEF AuthorInv, Writing, Same, Drawn
<1>4. ASSUME NEW w \in wire, Accepting(w) PROVE AuthorInv'
  <2>1. HeldAfter(w) # NoLease =>
          HeldAfter(w) = w.doc.lease \/ HeldAfter(w) = held[w.by.inst]
    BY DEF HeldAfter
  <2>2. w.by.inst \in Instances
    BY Members DEF TypeOK
  <2> QED
    BY <1>4, <2>1, <2>2 DEF Accepting, AuthorInv, Drawn, Same, Ended, NoCall, Missing
<1>5. CASE DeleteBlob
  BY <1>5 DEF DeleteBlob, AuthorInv, Drawn, client, Missing
<1> QED
  BY <1>1, <1>2, <1>3, <1>4, <1>5, StepShape

\* AuthorInv holds at first.
LEMMA AuthorInit == Init => AuthorInv
  BY DEF Init, AuthorInv, Missing, NoCall

\* The checkpoint of one source is never held by an instance of another.
THEOREM SourcesApart == Spec => []SourceNeverMixed
<1>1. AuthorInv => SourceNeverMixed
  BY DEF AuthorInv, SourceNeverMixed
<1> QED
  BY <1>1, AuthorInit, AuthorStep, TypeCorrect, PTL DEF Spec

-----------------------------------------------------------------------------
(* Etags. A copy whose etag is the blob's is the blob, so a request that   *)
(* the service can still accept was derived from the present document.     *)

EtagInv ==
    /\ blob.etag <= writes
    /\ \A w \in wire : w.etag <= writes
    /\ \A i \in Instances :
          /\ seen[i].etag <= writes
          /\ seen[i].etag = blob.etag => seen[i] = blob

\* EtagInv holds at first.
LEMMA EtagInit == Init => EtagInv
  BY DEF Init, EtagInv, Missing

\* Every step preserves EtagInv.
LEMMA EtagStep ==
    ASSUME TypeOK, EtagInv, [Next]_vars
    PROVE  EtagInv'
<1>0. /\ writes \in Nat /\ blob.etag \in Nat
      /\ \A w \in wire : w.etag \in Nat
      /\ \A i \in Instances : seen[i].etag \in Nat
      /\ Missing.etag = 0 /\ Missing.doc = NoDoc
      /\ blob.etag = 0 => blob = Missing
      /\ \A i \in Instances : seen[i].etag = 0 => seen[i] = Missing
  BY Members DEF TypeOK, Missing
<1>1. CASE Quiet
  BY <1>0, <1>1 DEF Quiet, EtagInv, Same, Ended
<1>2. ASSUME NEW i \in Instances, Reading(i) PROVE EtagInv'
  BY <1>2 DEF Reading, EtagInv, Same, service
<1>3. ASSUME NEW i \in Instances, NEW w \in Writes, Writing(i, w) PROVE EtagInv'
  BY <1>3 DEF Writing, EtagInv, Same
<1>4. ASSUME NEW w \in wire, Accepting(w) PROVE EtagInv'
  BY <1>0, <1>4 DEF Accepting, EtagInv, Same, Ended
<1>5. CASE DeleteBlob
  BY <1>0, <1>5 DEF DeleteBlob, EtagInv, client
<1> QED
  BY <1>1, <1>2, <1>3, <1>4, <1>5, StepShape

-----------------------------------------------------------------------------
(* Requests. What a request that can still be accepted would change.       *)

Live(w) == w.etag = blob.etag

\* The holder of the lease changes the checkpoint or the expiry ...
Keeps(w, old) ==
    /\ w.by = old.lease.owner
    /\ w.doc.lease.token = old.lease.token
    /\ w.doc.lease = old.lease \/ w.doc.checkpoint = old.checkpoint

\* ... or a new owner takes over a lease that it has seen expired.
Steals(w, old) ==
    /\ w.by # old.lease.owner
    /\ w.doc.lease.token = old.lease.token + 1
    /\ w.doc.checkpoint = old.checkpoint
    /\ IsLeaseExpired(old.lease, w.by.inst)

RequestInv ==
    \A w \in wire :
        /\ w.etag = 0 => w.doc.lease.token = 1 /\ w.doc.checkpoint = Empty
        /\ Live(w) /\ blob.doc # NoDoc => Keeps(w, blob.doc) \/ Steals(w, blob.doc)

\* RequestInv holds at first.
LEMMA RequestInit == Init => RequestInv
  BY DEF Init, RequestInv

\* A lease that has expired stays so.
LEMMA ExpiredStays ==
    ASSUME TypeOK, NEW i \in Instances, NEW lease \in Leases,
           now' \in {now, now + 1}, IsLeaseExpired(lease, i)
    PROVE  IsLeaseExpired(lease, i)'
<1>1. /\ lease.expires \in Int /\ EffectiveGrace(i) \in Nat
      /\ Skew[i] \in Int /\ now \in Nat
  BY Numbers DEF Leases, TypeOK
<1> QED
  BY <1>1 DEF IsLeaseExpired, Clock

\* The request that an instance sends is of one of the two kinds.
LEMMA RequestSent ==
    ASSUME TypeOK, AuthorInv, EtagInv,
           NEW i \in Instances, NEW w \in Writes, Writing(i, w)
    PROVE  /\ w.etag = 0 => w.doc.lease.token = 1 /\ w.doc.checkpoint = Empty
           /\ Live(w) /\ blob.doc # NoDoc => Keeps(w, blob.doc) \/ Steals(w, blob.doc)
<1>1. /\ w.by.inst = i /\ w.etag = seen[i].etag
      /\ w.etag = 0 <=> seen[i].doc = NoDoc
  BY HoldingBy, Members DEF Writing, TypeOK, Missing
<1>2. Live(w) => seen[i] = blob
  BY <1>1 DEF Live, EtagInv
<1>3. CASE Taking(i, w)
  <2>1. seen[i].doc # NoDoc => w.by # seen[i].doc.lease.owner
    <3>1. issued[i] \in Nat /\ w.by.n = issued[i] + 1
      BY <1>3, BoundsAssumption DEF Taking, TypeOK
    <3>2. ~Drawn(w.by)
      BY <1>1, <3>1 DEF Drawn
    <3> QED
      BY <3>2 DEF AuthorInv
  <2> QED
    BY <1>1, <1>2, <1>3, <2>1 DEF Taking, Steals
<1>4. CASE Holding(i, w)
  BY <1>1, <1>2, <1>4 DEF Holding, Keeps
<1> QED
  BY <1>3, <1>4 DEF Writing

\* Every step preserves RequestInv.
LEMMA RequestStep ==
    ASSUME TypeOK, AuthorInv, EtagInv, RequestInv, [Next]_vars
    PROVE  RequestInv'
<1>0. /\ writes \in Nat
      /\ \A w \in wire : w.etag \in Nat /\ w.etag <= writes /\ w.by.inst \in Instances
      /\ blob.doc # NoDoc => blob.doc.lease \in Leases
  BY Members DEF TypeOK, EtagInv
<1>1. CASE Quiet
  <2>1. ASSUME NEW w \in wire, blob.doc # NoDoc, Steals(w, blob.doc)
        PROVE  Steals(w, blob.doc)'
    BY <1>0, <1>1, <2>1, ExpiredStays DEF Quiet, Steals
  <2> QED
    BY <1>1, <2>1 DEF Quiet, RequestInv, Live, Keeps
<1>2. ASSUME NEW i \in Instances, Reading(i) PROVE RequestInv'
  BY <1>2 DEF Reading, RequestInv, Live, Keeps, Steals, IsLeaseExpired, Clock, service
<1>3. ASSUME NEW i \in Instances, NEW w \in Writes, Writing(i, w) PROVE RequestInv'
  BY <1>3, RequestSent
     DEF Writing, RequestInv, Live, Keeps, Steals, IsLeaseExpired, Clock
<1>4. ASSUME NEW w \in wire, Accepting(w) PROVE RequestInv'
  <2>1. \A v \in wire' : v \in wire /\ ~Live(v)'
    BY <1>0, <1>4 DEF Accepting, Live
  <2> QED
    BY <2>1 DEF RequestInv
<1>5. CASE DeleteBlob
  BY <1>5 DEF DeleteBlob, RequestInv, Missing
<1> QED
  BY <1>1, <1>2, <1>3, <1>4, <1>5, StepShape

-----------------------------------------------------------------------------
(* Refinement of FencedCheckpoint.                                         *)

\* No clock is ahead of another by more than the grace period that its own
\* instance grants to a lease.
ClocksAgree ==
    \A i, j \in Instances : Skew[i] - Skew[j] <= EffectiveGrace(i)

\* A lease that one instance may steal has lapsed on its holder's clock.
LEMMA ExpiredHasLapsed ==
    ASSUME TypeOK, ClocksAgree, NEW i \in Instances, NEW lease \in Leases,
           IsLeaseExpired(lease, i)
    PROVE  Clock(lease.owner.inst) > lease.expires
<1>1. /\ lease.owner.inst \in Instances /\ lease.expires \in Int
      /\ now \in Nat
  BY DEF Leases, Owners, TypeOK
<1>2. /\ Skew[i] \in Int /\ Skew[lease.owner.inst] \in Int
      /\ EffectiveGrace(i) \in Nat
      /\ Skew[i] - Skew[lease.owner.inst] <= EffectiveGrace(i)
  BY <1>1, Numbers DEF ClocksAgree
<1> QED
  BY <1>1, <1>2 DEF IsLeaseExpired, Clock

\* A write that the service accepts is a step of the abstract object.
LEMMA AcceptRefines ==
    ASSUME TypeOK, ClocksAgree, AuthorInv, RequestInv,
           NEW w \in wire, Accepting(w)
    PROVE  Fenced!Next
<1>1. /\ blob'.doc = w.doc /\ w.doc # NoDoc /\ author' = w.by /\ now' = now
      /\ w.doc.lease.owner = w.by /\ Live(w)
      /\ w.by \in Owners /\ w.by # NoLease
      /\ w.doc.checkpoint \in Checkpoints
  BY Members, AbsenceAssumption DEF Accepting, AuthorInv, Live, TypeOK
<1>2. CASE blob.doc = NoDoc
  <2>1. w.doc.lease.token = 1 /\ w.doc.checkpoint = Empty
    BY <1>1, <1>2, Members DEF Live, RequestInv, Missing, TypeOK
  <2>2. Fenced!Take(w.by)
    BY <1>1, <1>2, <2>1 DEF Fenced!Take
  <2> QED
    BY <1>1, <2>2 DEF Fenced!Next
<1>3. CASE blob.doc # NoDoc /\ Steals(w, blob.doc)
  <2>1. Clock(blob.doc.lease.owner.inst) > blob.doc.lease.expires
    BY <1>3, ExpiredHasLapsed, Members DEF Steals, TypeOK
  <2>2. Fenced!Take(w.by)
    BY <1>1, <1>3, <2>1 DEF Fenced!Take, Steals
  <2> QED
    BY <1>1, <2>2 DEF Fenced!Next
<1>4. CASE blob.doc # NoDoc /\ Keeps(w, blob.doc)
  <2>1. CASE w.doc.lease = blob.doc.lease
    <3>1. Fenced!Commit(w.doc.checkpoint)
      BY <1>1, <1>4, <2>1 DEF Fenced!Commit, Clock
    <3> QED
      BY <1>1, <3>1 DEF Fenced!Next
  <2>2. CASE w.doc.checkpoint = blob.doc.checkpoint
    <3>1. Fenced!Extend
      BY <1>1, <1>4, <2>2 DEF Fenced!Extend, Keeps
    <3> QED
      BY <3>1 DEF Fenced!Next
  <2> QED
    BY <1>4, <2>1, <2>2 DEF Keeps
<1> QED
  BY <1>1, <1>2, <1>3, <1>4 DEF RequestInv

\* Every step is one of the abstract object, or leaves it as it is.
LEMMA StepRefines ==
    ASSUME TypeOK, ClocksAgree, AuthorInv, EtagInv, RequestInv, [Next]_vars
    PROVE  [Fenced!Next]_(Fenced!vars)
<1>1. CASE Quiet
  <2>1. CASE blob.doc = NoDoc
    BY <1>1, <2>1 DEF Quiet, Fenced!vars
  <2>2. CASE blob.doc # NoDoc
    <3>1. /\ blob.doc.lease.expires \in Int
          /\ Skew[blob.doc.lease.owner.inst] \in Int /\ now \in Nat
      BY <2>2, Members, Numbers DEF TypeOK
    <3>2. Clock(blob.doc.lease.owner.inst) > blob.doc.lease.expires
          => (Clock(blob.doc.lease.owner.inst) > blob.doc.lease.expires)'
      BY <1>1, <3>1 DEF Quiet, Clock
    <3>3. Fenced!Lapse \/ UNCHANGED Fenced!vars
      BY <1>1, <2>2, <3>2 DEF Quiet, Fenced!Lapse, Fenced!vars
    <3> QED
      BY <3>3 DEF Fenced!Next
  <2> QED
    BY <2>1, <2>2
<1>2. ASSUME NEW i \in Instances, Reading(i) PROVE UNCHANGED Fenced!vars
  BY <1>2 DEF Reading, service, Fenced!vars, Clock
<1>3. ASSUME NEW i \in Instances, NEW w \in Writes, Writing(i, w)
      PROVE  UNCHANGED Fenced!vars
  BY <1>3 DEF Writing, Fenced!vars, Clock
<1>4. ASSUME NEW w \in wire, Accepting(w) PROVE Fenced!Next
  BY <1>4, AcceptRefines
<1>5. CASE DeleteBlob
  BY <1>5 DEF DeleteBlob, Missing, Fenced!Reset, Fenced!Next
<1> QED
  BY <1>1, <1>2, <1>3, <1>4, <1>5, StepShape

\* Over compare-and-swap and clocks that agree up to the grace period, the
\* store is the atomic object, for any number of instances, with requests
\* lost, delayed and repeated, crashes and deletions.
THEOREM StoreIsFenced ==
    ASSUME ClocksAgree
    PROVE  Spec => ImplementsFenced
<1>1. Init => Fenced!Init
  BY DEF Init, Missing, Fenced!Init
<1>2. TypeOK /\ AuthorInv /\ EtagInv /\ RequestInv /\ [Next]_vars
      => [Fenced!Next]_(Fenced!vars)
  BY ClocksAgree, StepRefines
<1>3. TypeOK /\ AuthorInv /\ EtagInv /\ RequestInv /\ [Next]_vars
      => (AuthorInv /\ EtagInv /\ RequestInv)'
  BY AuthorStep, EtagStep, RequestStep
<1>4. Init => AuthorInv /\ EtagInv /\ RequestInv
  BY AuthorInit, EtagInit, RequestInit
<1> QED
  BY <1>1, <1>2, <1>3, <1>4, TypeCorrect, PTL
     DEF Spec, ImplementsFenced, Fenced!Spec

-----------------------------------------------------------------------------
(* Exclusion. What a client was told about its lease is true, or the lease *)
(* has expired on its own clock.                                           *)

\* A lease expires no later than a lease time from now.
Bounded(lease) ==
    lease.expires <= Clock(lease.owner.inst) + TtlUnits(lease.owner.inst)

BoundInv ==
    /\ blob.doc # NoDoc => Bounded(blob.doc.lease)
    /\ \A w \in wire : Bounded(w.doc.lease)
    /\ \A i \in Instances :
          /\ seen[i].doc # NoDoc => Bounded(seen[i].doc.lease)
          /\ held[i] # NoLease => Bounded(held[i])

\* The holder can rely on its lease: also the requests that it has still on
\* their way, if they are accepted, do not shorten it.
Relies(i) ==
    /\ held[i].owner = blob.doc.lease.owner
    /\ held[i].expires <= blob.doc.lease.expires
    /\ \A w \in wire : Live(w) /\ w.by = held[i].owner
                       => held[i].expires <= w.doc.lease.expires

HolderInv ==
    /\ blob.doc = NoDoc => \A i \in Instances : held[i] = NoLease
    /\ \A i \in Instances :
          /\ pc[i] = "idle" => call[i].name # "release"
          /\ held[i] # NoLease =>
                \A w \in wire : Live(w) /\ w.by = held[i].owner
                                => w.by = blob.doc.lease.owner
          /\ held[i] # NoLease /\ call[i].name # "release" =>
                \/ Relies(i)
                \/ /\ held[i].owner # blob.doc.lease.owner
                   /\ Clock(i) > held[i].expires

\* BoundInv and HolderInv hold at first.
LEMMA HolderInit == Init => BoundInv /\ HolderInv
  BY DEF Init, BoundInv, HolderInv, Missing, NoCall

\* Time only relaxes the bound on a lease.
LEMMA BoundedStays ==
    ASSUME TypeOK, NEW lease \in Leases, now' \in {now, now + 1}, Bounded(lease)
    PROVE  Bounded(lease)'
<1>1. lease.owner.inst \in Instances /\ lease.expires \in Int /\ now \in Nat
  BY DEF Leases, Owners, TypeOK
<1>2. Skew[lease.owner.inst] \in Int /\ TtlUnits(lease.owner.inst) \in Nat
  BY <1>1, Numbers
<1> QED
  BY <1>1, <1>2 DEF Bounded, Clock

\* Every step preserves BoundInv.
LEMMA BoundStep ==
    ASSUME TypeOK, AuthorInv, BoundInv, [Next]_vars
    PROVE  BoundInv'
<1>0. /\ blob.doc # NoDoc => blob.doc.lease \in Leases
      /\ \A w \in wire : w.doc.lease \in Leases /\ w.by.inst \in Instances
      /\ \A i \in Instances :
            /\ seen[i].doc # NoDoc => seen[i].doc.lease \in Leases
            /\ held[i] # NoLease => held[i] \in Leases
      /\ Missing.doc = NoDoc
  BY Members DEF TypeOK, Missing
<1>1. CASE Quiet
  <2> DEFINE Soon(lease) ==
               lease.expires <= (now' + Skew[lease.owner.inst])
                                + TtlUnits(lease.owner.inst)
  <2>1. \A lease \in Leases : Bounded(lease) => Soon(lease)
    BY <1>1, BoundedStays DEF Quiet, Bounded, Clock, TtlUnits
  <2>2. /\ blob.doc # NoDoc => Soon(blob.doc.lease)
        /\ \A w \in wire : Soon(w.doc.lease)
        /\ \A i \in Instances : /\ seen[i].doc # NoDoc => Soon(seen[i].doc.lease)
                                /\ held[i] # NoLease => Soon(held[i])
    BY <1>0, <2>1 DEF BoundInv
  <2>3. /\ blob' = blob /\ wire' \subseteq wire
        /\ \A i \in Instances : /\ seen'[i].doc # NoDoc => seen'[i] = seen[i]
                                /\ held'[i] # NoLease => held'[i] = held[i]
    BY <1>0, <1>1 DEF Quiet, Same, Ended
  <2> QED
    BY <2>2, <2>3 DEF BoundInv, Bounded, Clock, TtlUnits
<1>2. ASSUME NEW i \in Instances, Reading(i) PROVE BoundInv'
  BY <1>2 DEF Reading, BoundInv, Bounded, Clock, Same, service
<1>3. ASSUME NEW i \in Instances, NEW w \in Writes, Writing(i, w) PROVE BoundInv'
  <2>1. w.by.inst = i /\ w.doc.lease.owner = w.by
    BY <1>3, HoldingBy DEF Writing
  <2>2. Clock(i) \in Int /\ TtlUnits(i) \in Nat
    BY Numbers DEF TypeOK
  <2>3. Bounded(w.doc.lease)
    BY <1>3, <2>1, <2>2 DEF Writing, Taking, Holding, Bounded, BoundInv
  <2> QED
    BY <1>3, <2>3 DEF Writing, BoundInv, Bounded, Clock, Same
<1>4. ASSUME NEW w \in wire, Accepting(w) PROVE BoundInv'
  <2>1. HeldAfter(w) # NoLease =>
          HeldAfter(w) = w.doc.lease \/ HeldAfter(w) = held[w.by.inst]
    BY DEF HeldAfter
  <2> QED
    BY <1>0, <1>4, <2>1 DEF Accepting, BoundInv, Bounded, Clock, Same, Ended
<1>5. CASE DeleteBlob
  BY <1>0, <1>5 DEF DeleteBlob, BoundInv, Bounded, Clock, client
<1> QED
  BY <1>1, <1>2, <1>3, <1>4, <1>5, StepShape

\* What a client still believes after an accepted write is true of the new
\* document, or has run out.
LEMMA HolderOnAccept ==
    ASSUME TypeOK, ClocksAgree, AuthorInv, EtagInv, RequestInv, HolderInv,
           NEW w \in wire, Accepting(w), NEW i \in Instances,
           held[i] # NoLease, call[i].name # "release"
    PROVE  \/ held[i].owner = w.by /\ held[i].expires <= w.doc.lease.expires
           \/ held[i].owner # w.by /\ Clock(i) > held[i].expires
<1>1. Live(w) /\ w.doc.lease.owner = w.by /\ blob.doc # NoDoc
  BY DEF Accepting, Live, AuthorInv, HolderInv
<1>2. /\ held[i].owner.inst = i /\ held[i].expires \in Int
      /\ blob.doc.lease \in Leases /\ blob.doc.lease.expires \in Int
      /\ Clock(i) \in Int
  BY <1>1, Members, Numbers DEF AuthorInv, TypeOK, Leases
<1>3. CASE Relies(i) /\ Keeps(w, blob.doc)
  BY <1>1, <1>3 DEF Relies, Keeps
<1>4. CASE Relies(i) /\ Steals(w, blob.doc)
  <2>1. Clock(i) > blob.doc.lease.expires
    BY <1>2, <1>4, Members, ExpiredHasLapsed DEF Steals, Relies, TypeOK
  <2> QED
    BY <1>2, <1>4, <2>1 DEF Steals, Relies
<1>5. CASE held[i].owner # blob.doc.lease.owner /\ Clock(i) > held[i].expires
  BY <1>1, <1>5 DEF HolderInv
<1> QED
  BY <1>1, <1>3, <1>4, <1>5 DEF RequestInv, HolderInv

\* A request that is sent, if it can be accepted, does not take away what
\* its sender relies on.
LEMMA HolderOnSend ==
    ASSUME TypeOK, AuthorInv, EtagInv, BoundInv, HolderInv,
           NEW i \in Instances, NEW w \in Writes, Writing(i, w),
           NEW j \in Instances, held[j] # NoLease, Live(w), w.by = held[j].owner
    PROVE  /\ w.by = blob.doc.lease.owner
           /\ Relies(j) /\ call[j].name # "release"
              => held[j].expires <= w.doc.lease.expires
<1>1. w.by.inst = i /\ j = i
  BY HoldingBy DEF AuthorInv
<1>2. ~Taking(i, w)
  <2>1. issued[i] \in Nat
    BY BoundsAssumption DEF TypeOK
  <2> QED
    BY <1>1, <2>1 DEF Taking, AuthorInv, Drawn
<1>3. Holding(i, w) /\ seen[i] = blob
  BY <1>2 DEF Writing, Live, EtagInv
<1>4. held[i].expires <= Clock(i) + TtlUnits(i)
  BY <1>1 DEF BoundInv, Bounded, AuthorInv
<1> QED
  BY <1>1, <1>3, <1>4 DEF Holding, Relies

\* Every step preserves HolderInv, if the blob is never deleted.
LEMMA HolderStep ==
    ASSUME TypeOK, ClocksAgree, MaxDeletes = 0,
           AuthorInv, EtagInv, RequestInv, BoundInv, HolderInv, [Next]_vars
    PROVE  HolderInv'
<1>0. /\ writes \in Nat
      /\ \A w \in wire : w.etag \in Nat /\ w.etag <= writes /\ w.doc # NoDoc
      /\ \A i \in Instances : held[i] # NoLease => held[i].expires \in Int
      /\ NoCall.name = "none"
      /\ \A i \in Instances : Clock(i) \in Int
  BY Members, Numbers, AbsenceAssumption DEF TypeOK, EtagInv, Leases, NoCall
<1>1. CASE Quiet
  <2>1. /\ blob' = blob /\ wire' \subseteq wire
        /\ \A w : Live(w)' <=> Live(w)
    BY <1>1 DEF Quiet, Live
  <2>2. \A i \in Instances : /\ Clock(i) <= Clock(i)'
                             /\ Clock(i)' \in Int
    BY <1>1, Numbers DEF Quiet, Clock, TypeOK
  <2>3. ASSUME NEW i \in Instances
        PROVE  /\ held'[i] # NoLease =>
                    held'[i] = held[i]
                    /\ (call'[i].name # "release" => call[i].name # "release")
               /\ pc'[i] = "idle" => call'[i].name # "release"
    BY <1>0, <1>1 DEF Quiet, Same, Ended, HolderInv
  <2> QED
    BY <1>0, <2>1, <2>2, <2>3 DEF HolderInv, Relies
<1>2. ASSUME NEW i \in Instances, Reading(i) PROVE HolderInv'
  BY <1>2 DEF Reading, HolderInv, Relies, Live, Clock, Same, service
<1>3. ASSUME NEW i \in Instances, NEW w \in Writes, Writing(i, w) PROVE HolderInv'
  <2>1. /\ blob' = blob /\ wire' = wire \cup {w} /\ now' = now
        /\ \A v : Live(v)' <=> Live(v)
        /\ \A j \in Instances : held'[j] = held[j] /\ call'[j] = call[j]
        /\ \A j \in Instances : pc'[j] = "idle" => pc[j] = "idle"
    BY <1>3 DEF Writing, Live, Same
  <2>2. ASSUME NEW j \in Instances, held[j] # NoLease, Live(w), w.by = held[j].owner
        PROVE  /\ w.by = blob.doc.lease.owner
               /\ Relies(j) /\ call[j].name # "release"
                  => held[j].expires <= w.doc.lease.expires
    BY <1>3, <2>2, HolderOnSend
  <2>3. ASSUME NEW j \in Instances, Relies(j), held[j] # NoLease,
               call[j].name # "release"
        PROVE  Relies(j)'
    BY <2>1, <2>2, <2>3 DEF Relies
  <2> QED
    BY <2>1, <2>2, <2>3 DEF HolderInv, Clock
<1>4. ASSUME NEW w \in wire, Accepting(w) PROVE HolderInv'
  <2>1. /\ blob'.doc = w.doc /\ w.doc # NoDoc /\ now' = now
        /\ w.doc.lease.owner = w.by /\ w.doc.lease.expires \in Int
        /\ \A v \in wire' : ~Live(v)'
    BY <1>0, <1>4, Members DEF Accepting, Live, AuthorInv, TypeOK
  <2>2. ASSUME NEW i \in Instances, held'[i] # NoLease, call'[i].name # "release"
        PROVE  \/ held'[i] = w.doc.lease
               \/ held'[i] = held[i] /\ call[i].name # "release"
    BY <1>4, <2>2 DEF Accepting, Same, Ended, HeldAfter
  <2>3. ASSUME NEW i \in Instances, held'[i] # NoLease, call'[i].name # "release"
        PROVE  \/ Relies(i)'
               \/ /\ held'[i].owner # w.by
                  /\ Clock(i)' > held'[i].expires
    <3>1. CASE held'[i] = w.doc.lease
      BY <2>1, <3>1 DEF Relies
    <3>2. CASE held'[i] = held[i] /\ call[i].name # "release"
      BY <1>4, <2>1, <2>3, <3>2, HolderOnAccept DEF Relies, Clock
    <3> QED
      BY <2>2, <2>3, <3>1, <3>2
  <2>4. \A i \in Instances : pc'[i] = "idle" => call'[i].name # "release"
    BY <1>0, <1>4 DEF Accepting, Same, Ended, HolderInv
  <2> QED
    BY <2>1, <2>3, <2>4 DEF HolderInv
<1>5. CASE DeleteBlob
  BY <1>5 DEF DeleteBlob, TypeOK
<1> QED
  BY <1>1, <1>2, <1>3, <1>4, <1>5, StepShape

\* As long as the clocks agree up to the grace period and nobody deletes
\* the blob, two instances never hold an unexpired lease at once.
THEOREM Exclusion ==
    ASSUME ClocksAgree, MaxDeletes = 0
    PROVE  Spec => []LeaseExclusive
<1>1. TypeOK /\ AuthorInv /\ HolderInv => LeaseExclusive
  <2> SUFFICES ASSUME TypeOK, AuthorInv, HolderInv,
                      NEW i \in Instances, NEW j \in Instances,
                      Entitled(i), Entitled(j)
               PROVE  i = j
    BY DEF LeaseExclusive
  <2>1. \A k \in {i, j} : held[k].owner = blob.doc.lease.owner
    BY DEF Entitled, HolderInv, Relies
  <2> QED
    BY <2>1 DEF AuthorInv, Entitled
<1>2. TypeOK /\ AuthorInv /\ EtagInv /\ RequestInv /\ BoundInv /\ HolderInv
      /\ [Next]_vars
      => (AuthorInv /\ EtagInv /\ RequestInv /\ BoundInv /\ HolderInv)'
  BY ClocksAgree, MaxDeletes = 0,
     AuthorStep, EtagStep, RequestStep, BoundStep, HolderStep
<1>3. Init => AuthorInv /\ EtagInv /\ RequestInv /\ BoundInv /\ HolderInv
  BY AuthorInit, EtagInit, RequestInit, HolderInit
<1> QED
  BY <1>1, <1>2, <1>3, TypeCorrect, PTL DEF Spec

-----------------------------------------------------------------------------
(* Acknowledged commits. When a commit has returned, no other request of   *)
(* its owner id can be accepted any more.                                  *)

\* The request whose answer an instance awaits.
AwaitInv ==
    \A i \in Instances :
        /\ pc[i] # "await" => sent[i] = NoWrite
        /\ call[i].checkpoint # Empty => call[i].name = "commit"
        /\ sent[i] # NoWrite =>
              /\ sent[i].by.inst = i
              /\ call[i].name = "acquire" =>
                    \A w \in wire : w.by = sent[i].by => w = sent[i]
              /\ call[i].name \in {"renew", "commit", "release"} =>
                    sent[i].by = held[i].owner
              /\ call[i].name = "commit" =>
                    sent[i].doc.checkpoint = call[i].checkpoint

AckedInv ==
    \A i \in Instances :
        /\ pc[i] # "idle" => acked[i] = Empty
        /\ held[i] # NoLease =>
              \A w \in wire : w.etag = 0 => w.by # held[i].owner
        /\ acked[i] # Empty =>
              /\ held[i] # NoLease
              /\ \A w \in wire : Live(w) => w.by # held[i].owner

\* The invariants about acknowledged commits hold at first.
LEMMA AckedInit == Init => AwaitInv /\ AckedInv /\ AckedCommitSticks
  BY DEF Init, AwaitInv, AckedInv, AckedCommitSticks, NoCall

\* A request under a new owner id is the only one of that id.
LEMMA TakingIsFresh ==
    ASSUME TypeOK, AuthorInv, NEW i \in Instances, NEW w \in Writes,
           Writing(i, w), Taking(i, w)
    PROVE  /\ \A v \in wire : v.by # w.by
           /\ \A j \in Instances : held[j] # NoLease => held[j].owner # w.by
<1>1. ~Drawn(w.by)
  BY HoldingBy, BoundsAssumption DEF Taking, Drawn, TypeOK
<1> QED
  BY <1>1 DEF AuthorInv

\* Every step preserves AwaitInv.
LEMMA AwaitStep ==
    ASSUME TypeOK, AuthorInv, AwaitInv, [Next]_vars
    PROVE  AwaitInv'
<1>0. NoCall.name = "none" /\ NoCall.checkpoint = Empty
  BY DEF NoCall
<1>1. CASE Quiet
  BY <1>0, <1>1 DEF Quiet, Same, Ended, AwaitInv
<1>2. ASSUME NEW i \in Instances, Reading(i) PROVE AwaitInv'
  BY <1>2 DEF Reading, Same, AwaitInv, service
<1>3. ASSUME NEW i \in Instances, NEW w \in Writes, Writing(i, w) PROVE AwaitInv'
  <2>1. w.by.inst = i /\ w \in wire' /\ wire' = wire \cup {w}
    BY <1>3, HoldingBy DEF Writing
  <2>2. ASSUME NEW j \in Instances \ {i}, sent[j] # NoWrite
        PROVE  w.by # sent[j].by
    BY <2>1, <2>2 DEF AwaitInv
  <2>3. Taking(i, w) => \A v \in wire : v.by # w.by
    BY <1>3, TakingIsFresh
  <2> QED
    BY <1>3, <2>1, <2>2, <2>3 DEF Writing, Taking, Holding, Same, AwaitInv
<1>4. ASSUME NEW w \in wire, Accepting(w) PROVE AwaitInv'
  BY <1>0, <1>4 DEF Accepting, Same, Ended, AwaitInv
<1>5. CASE DeleteBlob
  BY <1>5 DEF DeleteBlob, AwaitInv, client
<1> QED
  BY <1>1, <1>2, <1>3, <1>4, <1>5, StepShape

\* Every step preserves AckedInv and, with it, AckedCommitSticks.
LEMMA AckedStep ==
    ASSUME TypeOK, AuthorInv, EtagInv, AwaitInv, AckedInv, AckedCommitSticks,
           [Next]_vars
    PROVE  AckedInv' /\ AckedCommitSticks'
<1>1. CASE Quiet
  BY <1>1 DEF Quiet, Same, Ended, AckedInv, AckedCommitSticks, Live, IsOwner
<1>2. ASSUME NEW i \in Instances, Reading(i)
      PROVE  AckedInv' /\ AckedCommitSticks'
  BY <1>2 DEF Reading, Same, AckedInv, AckedCommitSticks, Live, IsOwner, service
<1>3. ASSUME NEW i \in Instances, NEW w \in Writes, Writing(i, w)
      PROVE  AckedInv' /\ AckedCommitSticks'
  <2>1. w.by.inst = i /\ wire' = wire \cup {w} /\ blob' = blob
    BY <1>3, HoldingBy DEF Writing
  <2>2. acked[i] = Empty
    BY <1>3 DEF Writing, AckedInv
  <2>3. w.etag = 0 => Taking(i, w)
    BY <1>3, Members DEF Writing, Holding, TypeOK, Missing
  <2>4. ASSUME NEW j \in Instances, held[j] # NoLease, w.by = held[j].owner
        PROVE  j = i /\ w.etag # 0
    BY <1>3, <2>1, <2>3, <2>4, TakingIsFresh DEF AuthorInv
  <2>5. \A j \in Instances : /\ held'[j] = held[j] /\ acked'[j] = acked[j]
                             /\ pc'[j] # "idle" => pc[j] # "idle"
    BY <1>3 DEF Writing, Same
  <2> QED
    BY <2>1, <2>2, <2>4, <2>5 DEF AckedInv, AckedCommitSticks, Live, IsOwner
<1>4. ASSUME NEW w \in wire, Accepting(w) PROVE AckedInv' /\ AckedCommitSticks'
  <2>1. /\ w \in Writes /\ w # NoWrite /\ w.doc.lease.owner = w.by
        /\ Live(w) /\ blob'.doc = w.doc /\ wire' \subseteq wire
        /\ \A v \in wire' : ~Live(v)'
    <3>1. writes \in Nat /\ \A v \in wire : v.etag \in Nat /\ v.etag <= writes
      BY Members DEF TypeOK, EtagInv
    <3> QED
      BY <1>4, <3>1, AbsenceAssumption DEF Accepting, Live, AuthorInv, TypeOK
  <2>2. ASSUME NEW i \in Instances, Same(i)
        PROVE  /\ acked'[i] # Empty => w.by # held'[i].owner
               /\ pc'[i] # "idle" => acked'[i] = Empty
               /\ acked'[i] # Empty => held'[i] # NoLease
    BY <2>1, <2>2 DEF Same, AckedInv
  <2>3. ASSUME NEW i \in Instances, i = w.by.inst, sent[i] = w, w \notin wire',
               Ended(i, HeldAfter(w), call[i].checkpoint)
        PROVE  /\ held'[i] # NoLease =>
                     \A v \in wire' : v.etag = 0 => v.by # held'[i].owner
               /\ acked'[i] # Empty => /\ held'[i] # NoLease
                                       /\ w.doc.checkpoint = acked'[i]
    <3>1. CASE call[i].name = "acquire"
      <4>1. held'[i] = w.doc.lease /\ acked'[i] = Empty
        BY <2>3, <3>1 DEF Ended, HeldAfter, AwaitInv
      <4> QED
        BY <2>1, <2>3, <3>1, <4>1 DEF AwaitInv
    <3>2. CASE call[i].name = "renew"
      <4>1. held'[i] = w.doc.lease /\ acked'[i] = Empty /\ held[i] # NoLease
        BY <2>3, <3>2 DEF Ended, HeldAfter, AwaitInv, AuthorInv
      <4> QED
        BY <2>1, <2>3, <3>2, <4>1 DEF AwaitInv, AckedInv
    <3>3. CASE call[i].name \notin {"acquire", "renew"}
      <4>1. /\ held'[i] \in {held[i], NoLease}
            /\ call[i].name # "release" => held'[i] = held[i]
            /\ acked'[i] = call[i].checkpoint
        BY <2>3, <3>3 DEF Ended, HeldAfter
      <4>2. acked'[i] # Empty => call[i].name = "commit"
        BY <4>1 DEF AwaitInv
      <4> QED
        BY <2>1, <2>3, <4>1, <4>2 DEF AwaitInv, AuthorInv, AckedInv
    <3> QED
      BY <3>1, <3>2, <3>3
  <2>4. \A i \in Instances : Same(i) /\ held'[i] # NoLease =>
              \A v \in wire' : v.etag = 0 => v.by # held'[i].owner
    BY <2>1 DEF Same, AckedInv
  <2>5. \A i \in Instances :
           \/ Same(i)
           \/ /\ i = w.by.inst /\ sent[i] = w /\ w \notin wire'
              /\ Ended(i, HeldAfter(w), call[i].checkpoint)
    BY <1>4 DEF Accepting
  <2>6. AckedInv'
    BY <2>1, <2>2, <2>3, <2>4, <2>5 DEF AckedInv, Ended
  <2>7. AckedCommitSticks'
    BY <2>1, <2>2, <2>3, <2>5 DEF AckedCommitSticks, IsOwner
  <2> QED
    BY <2>6, <2>7
<1>5. CASE DeleteBlob
  BY <1>5 DEF DeleteBlob, Missing, AckedInv, AckedCommitSticks, Live, client
<1> QED
  BY <1>1, <1>2, <1>3, <1>4, <1>5, StepShape

\* A commit that has returned is not undone by a late write, its own
\* included, and also when the blob is deleted and created again.
THEOREM CommitsStick == Spec => []AckedCommitSticks
<1>1. TypeOK /\ AuthorInv /\ EtagInv /\ AwaitInv /\ AckedInv
      /\ AckedCommitSticks /\ [Next]_vars
      => (AuthorInv /\ EtagInv /\ AwaitInv /\ AckedInv /\ AckedCommitSticks)'
  BY AuthorStep, EtagStep, AwaitStep, AckedStep
<1>2. Init => AuthorInv /\ EtagInv /\ AwaitInv /\ AckedInv /\ AckedCommitSticks
  BY AuthorInit, EtagInit, AckedInit
<1> QED
  BY <1>1, <1>2, TypeCorrect, PTL DEF Spec
=============================================================================
