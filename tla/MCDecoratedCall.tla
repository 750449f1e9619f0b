--------------------------- MODULE MCDecoratedCall ---------------------------
(* Instances of DecoratedCall for TLC. *)
EXTENDS DecoratedCall, TLC

OneDatabase == [h \in Handles |-> CHOOSE u \in Urls : TRUE]

\* Worker threads are alike, and so are the writers of DbOut.set.
Alike == Permutations(Workers) \cup Permutations(OutWriters)

AtMostOneWorker == \E w \in Workers : \A v \in Workers \ {w} : Idle(v)

\* Bounds: what the body does after it has disturbed a client is not explored;
\* a dispose_all is explored beside undisturbed clients, and under more than
\* one layer beside one worker at a time. (LazyEngineProofs and
\* DecoratedUseProofs cover all that threads do.)
Explored ==
    /\ call.phase = "enter" /\ call.at = 0 => disturbed = {}
    /\ forgotten # {} =>
          disturbed = {} /\ (Len(stack) <= 1 \/ AtMostOneWorker)

\* Which thread runs a call, and how a thread's last one has ended, is part of
\* the state only while it is awaited; whether an invocation has failed, until
\* it is over.
Awaited(a) == call.phase = "wait" /\ call.by = a
Relevant ==
    << decoratorVars, fields, provider, open, stack, disturbed,
       call.phase, call.at, {a \in Actors : Awaited(a)},
       call.phase # "over" /\ call.failed,
       [a \in Actors |-> IF Idle(a) /\ ~Awaited(a) THEN Rest ELSE job[a]] >>
=============================================================================
