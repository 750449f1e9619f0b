------------------------- MODULE DecoratedUseProofs -------------------------
(***************************************************************************)
(* Theorems about the calls of a decorated handler: but for the injected   *)
(* clients that it has disturbed, no two threads use one handle, every     *)
(* binding stays usable, and an invocation that is over has left no pool   *)
(* open; disturbed clients lose no pool if they have a provider.           *)
(***************************************************************************)
EXTENDS DecoratedCallProofs

-----------------------------------------------------------------------------
(* One call at a time on each handle. *)

\* The variables of the invocation have their types.
CallTyped ==
    /\ stack \in Seq(Kinds)
    /\ call \in [phase : Phases, at : 0 .. Len(stack) + 1,
                 by : Actors, failed : BOOLEAN]
    /\ disturbed \subseteq Injected

\* Only one layer of each kind; and a trigger only around a plain function.
StackShaped ==
    /\ \A i, j \in DOMAIN stack : i # j => stack[i] # stack[j]
    /\ \A i, j \in DOMAIN layers : i # j => layers[i].kind # layers[j].kind
    /\ isAsync => /\ \A i \in DOMAIN stack : stack[i] # "trigger"
                  /\ \A i \in DOMAIN layers : layers[i].kind # "trigger"

\* Where the invocation is.
CallShaped ==
    /\ call.phase = "import" => stack = <<>> /\ \A a \in Actors : Idle(a)
    /\ call.phase = "over" => call.at = Len(stack) + 1
    /\ call.phase = "enter" => call.at \in 0 .. Len(stack)
    /\ call.phase \in {"wait", "leave"} => call.at \in DOMAIN stack

\* The calls of a plain function all run in its own thread.
PlainRunsInMain == ~isAsync => \A a \in Workers : Idle(a)

\* The read of an input layer that has yet to run has not begun.
ReadNotBegun ==
    isAsync /\ call.phase = "enter" =>
        \A i \in DOMAIN stack : stack[i] = "input" /\ i <= call.at =>
            \A a \in Actors : job[a].on # InputReader

\* Outside of the handler's body, no worker is on an injected client that is
\* not disturbed.
ClientsLeft ==
    ~(call.phase = "enter" /\ call.at = 0) =>
        \A a \in Workers : job[a].on \notin Injected \ disturbed

\* No two threads are on one handle, but on a disturbed client.
Exclusive ==
    \A a, b \in Actors :
        a # b /\ job[a].on = job[b].on => Idle(a) \/ job[a].on \in disturbed

\* The inductive invariant of the handler's threads.
OneAtATime ==
    /\ Decorated /\ EngineTypeOK /\ CallTyped /\ JobsShaped /\ StackShaped /\ CallShaped
    /\ PlainRunsInMain /\ ReadNotBegun /\ ClientsLeft /\ Exclusive

\* When a plain function's thread is in its own code, all threads rest.
LEMMA PlainRests ==
    ASSUME OneAtATime, ~isAsync, Idle(Main)
    PROVE  \A a \in Actors : Idle(a) /\ job[a].on = Nothing
  BY DEF OneAtATime, PlainRunsInMain, JobsShaped, Workers

-----------------------------------------------------------------------------
(* Steps of the wrappers that leave the threads alone. *)

\* What is known of a typed invocation.
LEMMA CallFields ==
    ASSUME CallTyped
    PROVE  /\ Len(stack) \in Nat /\ DOMAIN stack = 1 .. Len(stack)
           /\ call.phase \in Phases /\ call.at \in 0 .. Len(stack) + 1
           /\ call.by \in Actors /\ call.failed \in BOOLEAN
           /\ call = [phase |-> call.phase, at |-> call.at,
                      by |-> call.by, failed |-> call.failed]
  BY DEF CallTyped

\* An invocation is typed if its fields are.
LEMMA CallRetyped ==
    ASSUME stack' \in Seq(Kinds), disturbed' \subseteq Injected,
           NEW phase \in Phases, NEW k \in 0 .. Len(stack') + 1,
           NEW a \in Actors, NEW failed \in BOOLEAN,
           call' = [phase |-> phase, at |-> k, by |-> a, failed |-> failed]
    PROVE  CallTyped'
  BY DEF CallTyped

\* A layer calls the one inside it, or the handler.
LEMMA InwardsKeeps ==
    ASSUME OneAtATime, Decorated', EngineTypeOK', Inwards, Idle(Main),
           call.at \in DOMAIN stack,
           \/ call.phase = "enter"
           \/ call.phase = "wait" /\ (stack[call.at] = "input" \/ ~isAsync),
           UNCHANGED <<decoratorVars, engineVars, stack, disturbed>>
    PROVE  OneAtATime'
<1> DEFINE k == call.at
<1>1. /\ k \in 1 .. Len(stack) /\ Len(stack) \in Nat
      /\ call'.phase = "enter" /\ call'.at = k - 1
      /\ CallTyped'
  <2>0. CallTyped /\ stack' = stack /\ disturbed' = disturbed
      BY DEF OneAtATime
  <2>1. k \in 1 .. Len(stack) /\ Len(stack) \in Nat
      BY <2>0, CallFields
  <2>2. call' = [phase |-> "enter", at |-> k - 1, by |-> call.by, failed |-> call.failed]
      BY <2>0, CallFields DEF Inwards
  <2>3. stack' \in Seq(Kinds) /\ disturbed' \subseteq Injected
      BY <2>0 DEF CallTyped
  <2>4. k - 1 \in 0 .. Len(stack') + 1 /\ "enter" \in Phases
      BY <2>0, <2>1 DEF Phases
  <2>5. CallTyped'
      BY <2>0, <2>2, <2>3, <2>4, CallFields, CallRetyped
  <2> QED
      BY <2>1, <2>2, <2>5
<1>2. UNCHANGED <<isAsync, layers, stack, job, disturbed>>
    BY DEF decoratorVars, engineVars
<1>3. JobsShaped' /\ StackShaped' /\ PlainRunsInMain' /\ Exclusive'
    BY <1>2
    DEF OneAtATime, JobsShaped, StackShaped, PlainRunsInMain, Exclusive, Idle
<1>4. CallShaped'
    BY <1>1, <1>2 DEF CallShaped
<1>5. ReadNotBegun'
  <2> SUFFICES ASSUME isAsync, NEW i \in DOMAIN stack, stack[i] = "input", i <= k - 1,
                      NEW a \in Actors
               PROVE  job[a].on # InputReader
      BY <1>1, <1>2 DEF ReadNotBegun
  <2>1. i < k /\ i \in Nat
      BY <1>1
  <2>2. call.phase = "enter"
      BY <1>1, <2>1 DEF OneAtATime, StackShaped
  <2> QED
      BY <1>1, <2>1, <2>2 DEF OneAtATime, ReadNotBegun
<1>6. ClientsLeft'
    BY <1>1, <1>2 DEF OneAtATime, ClientsLeft
<1> QED
    BY <1>1, <1>3, <1>4, <1>5, <1>6 DEF OneAtATime

\* A layer, or the handler, returns or raises to the layer around it.
LEMMA OutwardsKeeps ==
    ASSUME OneAtATime, Decorated', EngineTypeOK', NEW failed \in BOOLEAN,
           Outwards(failed),
           call.phase \in {"enter", "wait", "leave"}, call.at \in 0 .. Len(stack),
           disturbed \subseteq disturbed', disturbed' \subseteq Injected,
           call.at = 0 => \A h \in Injected \ disturbed' : ~Busy(h),
           UNCHANGED <<decoratorVars, engineVars, stack>>
    PROVE  OneAtATime'
<1> DEFINE k == call.at
<1>1. /\ k \in 0 .. Len(stack) /\ Len(stack) \in Nat /\ DOMAIN stack = 1 .. Len(stack)
      /\ call'.phase = IF k < Len(stack) THEN "leave" ELSE "over"
      /\ call'.at = k + 1
      /\ CallTyped'
  <2> DEFINE phase == IF k < Len(stack) THEN "leave" ELSE "over"
  <2>0. CallTyped /\ stack' = stack
      BY DEF OneAtATime
  <2>1. k \in 0 .. Len(stack) /\ Len(stack) \in Nat /\ DOMAIN stack = 1 .. Len(stack)
      BY <2>0, CallFields
  <2>2. call' = [phase |-> phase, at |-> k + 1, by |-> call.by, failed |-> failed]
      BY <2>0, CallFields DEF Outwards
  <2>3. stack' \in Seq(Kinds)
      BY <2>0 DEF CallTyped
  <2>4. k + 1 \in 0 .. Len(stack') + 1 /\ phase \in Phases
      BY <2>0, <2>1 DEF Phases
  <2>5. CallTyped'
      BY <2>0, <2>2, <2>3, <2>4, CallFields, CallRetyped
  <2> QED
      BY <2>1, <2>2, <2>5
<1>2. UNCHANGED <<isAsync, layers, stack, job>>
    BY DEF decoratorVars, engineVars
<1>3. JobsShaped' /\ StackShaped' /\ PlainRunsInMain' /\ Exclusive'
    BY <1>2
    DEF OneAtATime, JobsShaped, StackShaped, PlainRunsInMain, Exclusive, Idle
<1>4. CallShaped' /\ ReadNotBegun'
    BY <1>1, <1>2 DEF CallShaped, ReadNotBegun
<1>5. ClientsLeft'
    BY <1>1, <1>2 DEF OneAtATime, ClientsLeft, Busy, Workers
<1> QED
    BY <1>1, <1>3, <1>4, <1>5 DEF OneAtATime

\* An invocation begins, or a tick goes on, when all threads rest.
LEMMA EntersKeeps ==
    ASSUME OneAtATime, Decorated', EngineTypeOK', NEW layer \in 0 .. Len(stack'),
           call' = Enters(layer), StackShaped', stack' \in Seq(Kinds),
           \A a \in Actors : Idle(a),
           UNCHANGED <<isAsync, engineVars, disturbed>>
    PROVE  OneAtATime'
<1>1. /\ call'.phase = "enter" /\ call'.at = layer
      /\ CallTyped'
  <2>0. CallTyped /\ disturbed' \subseteq Injected
      BY DEF OneAtATime, CallTyped
  <2>1. call' = [phase |-> "enter", at |-> layer, by |-> call.by, failed |-> FALSE]
      BY <2>0, CallFields DEF Enters
  <2>2. layer \in 0 .. Len(stack') + 1 /\ "enter" \in Phases
      BY DEF Phases
  <2>3. CallTyped'
      BY <2>0, <2>1, <2>2, CallFields, CallRetyped
  <2> QED
      BY <2>1, <2>3
<1>2. \A a \in Actors : Idle(a)' /\ job'[a].on = Nothing
    BY DEF OneAtATime, JobsShaped, Idle, engineVars
<1>3. Nothing # InputReader /\ Nothing \notin Injected
    BY NothingAssumption, RolesAssumption DEF Injected
<1> QED
    BY <1>1, <1>2, <1>3
    DEF OneAtATime, JobsShaped, CallShaped, PlainRunsInMain, ReadNotBegun,
        ClientsLeft, Exclusive, Workers

\* Nothing happens but to the engines.
LEMMA RestKeeps ==
    ASSUME OneAtATime, Decorated', EngineTypeOK',
           UNCHANGED <<decoratorVars, callVars, job>>
    PROVE  OneAtATime'
<1>1. UNCHANGED <<isAsync, layers, stack, call, disturbed, job>>
    BY DEF decoratorVars, callVars
<1> QED
    BY <1>1
    DEF OneAtATime, CallTyped, JobsShaped, StackShaped, CallShaped, PlainRunsInMain,
        ReadNotBegun, ClientsLeft, Exclusive, Idle

-----------------------------------------------------------------------------
(* Steps of the threads. *)

\* A thread begins a call, or a close(), on a handle that nobody is on.
BeginsAlone(a, h) ==
    /\ Begin(a, h) \/ (a = Main /\ Idle(a) /\ CloseEngine(a, h))
    /\ a # Main => isAsync
    /\ \/ InBody /\ call' = call
       \/ call.at \in DOMAIN stack /\ call.phase \in {"enter", "leave"} /\ WaitFor(a)
    /\ h = InputReader => call'.phase = "wait"
    /\ a # Main /\ h \in Injected => InBody /\ call' = call
    /\ \A kind \in Clients : h = Client(kind) =>
           \/ InBody /\ call' = call /\ Has(kind)
           \/ call' # call /\ stack[call.at] = kind
    /\ call' # call /\ stack[call.at] \in Clients =>
           a = Main /\ CloseEngine(a, h) /\ h = Client(stack[call.at])
    /\ disturbed \subseteq disturbed' /\ disturbed' \subseteq Injected
    /\ h \notin disturbed' => ~Busy(h)
    /\ UNCHANGED <<decoratorVars, stack>>

\* It keeps the threads apart.
LEMMA BeginKeeps ==
    ASSUME OneAtATime, Decorated', EngineTypeOK', NEW a \in Actors, NEW h \in Handles,
           BeginsAlone(a, h)
    PROVE  OneAtATime'
<1> USE DEF BeginsAlone
<1>1. /\ Idle(a) /\ job'[a].on = h /\ job'[a].at # "idle"
      /\ \A b \in Actors : b # a => job'[b] = job[b]
    BY BeginMoves DEF OneAtATime
<1>2. UNCHANGED <<isAsync, layers, stack>>
    BY DEF decoratorVars
<1>3. CallTyped'
  <2>0. CallTyped
      BY DEF OneAtATime
  <2>1. CASE call' = call
      BY <2>0, <2>1 DEF CallTyped
  <2>2. CASE WaitFor(a)
    <3>1. call' = [phase |-> "wait", at |-> call.at, by |-> a, failed |-> call.failed]
        BY <2>0, <2>2, CallFields DEF WaitFor
    <3>2. "wait" \in Phases /\ stack' \in Seq(Kinds)
        BY <2>0 DEF Phases, CallTyped
    <3> QED
        BY <2>0, <3>1, <3>2, CallFields, CallRetyped
  <2> QED
      BY <2>1, <2>2
<1>4. \/ call' = call /\ call.phase = "enter" /\ call.at = 0
      \/ call'.phase = "wait" /\ call'.at = call.at /\ call.at \in DOMAIN stack
  <2>1. CASE InBody /\ call' = call
      BY <2>1 DEF InBody
  <2>2. CASE call.at \in DOMAIN stack /\ WaitFor(a)
      BY <2>2, CallFields DEF OneAtATime, WaitFor
  <2> QED
      BY <2>1, <2>2
<1>5. DOMAIN stack = 1 .. Len(stack) /\ Len(stack) \in Nat
    BY CallFields DEF OneAtATime
<1>6. JobsShaped'
    BY <1>1, NothingAssumption DEF OneAtATime, JobsShaped, Idle
<1>7. StackShaped'
    BY <1>2 DEF OneAtATime, StackShaped
<1>8. CallShaped'
    BY <1>2, <1>4, <1>5 DEF CallShaped
<1>9. PlainRunsInMain'
    BY <1>1, <1>2 DEF OneAtATime, PlainRunsInMain, Workers, Idle
<1>10. ReadNotBegun'
    BY <1>1, <1>2, <1>4, <1>5 DEF OneAtATime, ReadNotBegun
<1>11. ClientsLeft'
  <2> SUFFICES ASSUME ~(call'.phase = "enter" /\ call'.at = 0),
                      NEW b \in Workers
               PROVE  job'[b].on \notin Injected \ disturbed'
      BY DEF ClientsLeft
  <2>1. ~(call.phase = "enter" /\ call.at = 0)
      BY <1>4, <1>5
  <2>2. b \in Actors /\ b # Main
      BY DEF Workers
  <2>3. CASE b = a
      BY <1>1, <2>1, <2>2, <2>3 DEF InBody
  <2>4. CASE b # a
      BY <1>1, <2>1, <2>2, <2>4 DEF OneAtATime, ClientsLeft
  <2> QED
      BY <2>3, <2>4
<1>12. Exclusive'
  <2> SUFFICES ASSUME NEW b \in Actors, NEW c \in Actors, b # c,
                      job'[b].on = job'[c].on, job'[b].on \notin disturbed'
               PROVE  Idle(b)'
      BY DEF Exclusive
  <2>1. h \notin disturbed' => \A d \in Actors : job[d].on # h
      BY DEF Busy
  <2>2. b # a /\ c # a
      BY <1>1, <2>1
  <2> QED
      BY <1>1, <2>2 DEF OneAtATime, Exclusive, Idle
<1> QED
    BY <1>3, <1>6, <1>7, <1>8, <1>9, <1>10, <1>11, <1>12 DEF OneAtATime

\* A call in a thread goes on, or is over.
LEMMA ThreadsKeep ==
    ASSUME OneAtATime, Decorated', EngineTypeOK', Threads
    PROVE  OneAtATime'
<1>1. PICK a \in Actors, h \in Handles : Continue(a, h)
    BY DEF Threads
<1>2. /\ job[a].on = h /\ job[a].at # "idle"
      /\ \/ job'[a].on = h /\ job'[a].at # "idle"
         \/ job'[a].on = Nothing /\ job'[a].at = "idle"
      /\ \A b \in Actors : b # a => job'[b] = job[b]
    BY <1>1, ContinueMoves DEF OneAtATime
<1>3. UNCHANGED <<isAsync, layers, stack, call, disturbed>>
    BY DEF Threads, decoratorVars, callVars
<1>4. CallTyped' /\ StackShaped'
    BY <1>3 DEF OneAtATime, CallTyped, StackShaped
<1>5. JobsShaped'
    BY <1>2, NothingAssumption DEF OneAtATime, JobsShaped, Idle
<1>6. CallShaped' /\ PlainRunsInMain'
    BY <1>2, <1>3 DEF OneAtATime, CallShaped, PlainRunsInMain, Workers, Idle
<1>7. ReadNotBegun' /\ ClientsLeft'
    BY <1>2, <1>3, NothingAssumption, RolesAssumption
    DEF OneAtATime, ReadNotBegun, ClientsLeft, Workers, Injected
<1>8. Exclusive'
  <2> SUFFICES ASSUME NEW b \in Actors, NEW c \in Actors, b # c,
                      job'[b].on = job'[c].on, job'[b].on \notin disturbed
               PROVE  Idle(b)'
      BY <1>3 DEF Exclusive
  <2>1. JobsShaped' /\ (job'[b].on = Nothing => Idle(b)')
      BY <1>5 DEF JobsShaped
  <2>2. CASE job'[b].on # Nothing
      BY <1>2, <2>2 DEF OneAtATime, Exclusive, Idle
  <2> QED
      BY <2>1, <2>2
<1> QED
    BY <1>4, <1>5, <1>6, <1>7, <1>8 DEF OneAtATime

-----------------------------------------------------------------------------
(* One call at a time on each handle, in every state. *)

\* One more layer, of another kind.
LEMMA ImportKeeps ==
    ASSUME OneAtATime, Decorated', EngineTypeOK', Import
    PROVE  OneAtATime'
<1>1. /\ call.phase = "import" /\ isAsync' = isAsync
      /\ UNCHANGED <<job, stack, call, disturbed>>
    BY DEF Import, DecoratorNext, Decorate, engineVars, callVars
<1>2. PICK kind \in Kinds, arg \in Params, needs \in SUBSET Params :
          Decorate(kind, arg, needs)
    BY DEF Import, DecoratorNext
<1> DEFINE n == Len(layers) + 1
           new == [kind |-> kind, gives |-> Gives(kind, arg), needs |-> needs]
<1>3. /\ DOMAIN layers' = DOMAIN layers \cup {n}
      /\ layers'[n].kind = kind
      /\ \A i \in DOMAIN layers : layers'[i] = layers[i] /\ layers[i].kind # kind
  <2>1. layers \in Seq(Layers) /\ layers' = Append(layers, new)
      BY <1>2 DEF Decorate, OneAtATime, Decorated, DecoratorTypeOK
  <2>2. /\ DOMAIN layers' = DOMAIN layers \cup {n} /\ layers'[n] = new
        /\ \A i \in DOMAIN layers : layers'[i] = layers[i]
      BY <2>1
  <2>3. \A i \in DOMAIN layers : layers[i].kind # kind
      BY <1>2 DEF Decorate, CheckComposition, Excludes, Marks
  <2> QED
      BY <2>2, <2>3
<1>4. kind = "trigger" => ~isAsync
    BY <1>2 DEF Decorate
<1>5. StackShaped'
    BY <1>1, <1>3, <1>4 DEF OneAtATime, StackShaped
<1> QED
    BY <1>1, <1>5
    DEF OneAtATime, CallTyped, JobsShaped, CallShaped, PlainRunsInMain,
        ReadNotBegun, ClientsLeft, Exclusive, Idle

\* The first invocation.
LEMMA DeployKeeps ==
    ASSUME OneAtATime, Decorated', EngineTypeOK', Deploy
    PROVE  OneAtATime'
<1>1. layers \in Seq(Layers)
    BY DEF OneAtATime, Decorated, DecoratorTypeOK
<1>2. /\ stack' = [i \in 1 .. Len(layers) |-> layers[i].kind]
      /\ \A i \in 1 .. Len(layers) : layers[i].kind \in Kinds
      /\ DOMAIN layers = 1 .. Len(layers) /\ Len(layers) \in Nat
  <2>1. DOMAIN layers = 1 .. Len(layers) /\ Len(layers) \in Nat
      BY <1>1
  <2>2. \A i \in 1 .. Len(layers) : layers[i] \in Layers
      BY <1>1
  <2>3. \A layer \in Layers : layer.kind \in Kinds
      BY DEF Layers
  <2> QED
      BY <2>1, <2>2, <2>3 DEF Deploy
<1>3. stack' \in Seq(Kinds) /\ Len(stack') = Len(layers) /\ DOMAIN stack' = DOMAIN layers
    BY <1>2
<1>4. layers' = <<>> /\ DOMAIN layers' = {}
    BY DEF Deploy
<1>5. StackShaped'
    BY <1>2, <1>3, <1>4 DEF Deploy, OneAtATime, StackShaped
<1>6. Len(layers) \in 0 .. Len(stack')
    BY <1>2, <1>3
<1> QED
    BY <1>3, <1>5, <1>6, EntersKeeps
    DEF Deploy, OneAtATime, CallShaped

\* What runs inside a layer runs after it was entered.
LEMMA InCallStands ==
    ASSUME CallTyped, NEW phase \in Phases, NEW kind \in Kinds, InCall(phase, kind)
    PROVE  /\ Idle(Main) /\ call.phase = phase /\ stack[call.at] = kind
           /\ call.at \in DOMAIN stack /\ call.at \in 1 .. Len(stack)
           /\ call.at # 0 /\ call.at \in 0 .. Len(stack) /\ Len(stack) \in Nat
  BY CallFields DEF InCall

\* The layers' own steps.
LEMMA LayersKeep ==
    ASSUME OneAtATime, Decorated', EngineTypeOK',
           \/ Again \/ TickEnds \/ Fetched \/ BatchDone
           \/ ReadDone \/ ReadCancelled \/ InputDone \/ OutputCalls \/ OutputDone
           \/ \E kind \in Clients : InjectCalls(kind) \/ InjectClosed(kind)
           \/ BodyEnds
    PROVE  OneAtATime'
<1> USE DEF Phases, Kinds, Clients
<1>0. CallTyped /\ disturbed \subseteq Injected /\ call.failed \in BOOLEAN
    BY CallFields DEF OneAtATime, CallTyped
<1>1. CASE Again
  <2>1. StackShaped' /\ stack' \in Seq(Kinds) /\ Len(stack) \in 0 .. Len(stack')
      BY <1>1, CallFields
      DEF Again, OneAtATime, StackShaped, CallTyped, decoratorVars
  <2> QED
      BY <1>1, <2>1, EntersKeeps DEF Again, decoratorVars
<1>2. CASE TickEnds
    BY <1>0, <1>2, InCallStands, OutwardsKeeps DEF TickEnds
<1>3. CASE Fetched
  <2>1. /\ Idle(Main) /\ call.phase = "wait" /\ stack[call.at] = "trigger"
        /\ call.at \in DOMAIN stack /\ call.at # 0 /\ call.at \in 0 .. Len(stack)
      BY <1>0, <1>3, InCallStands DEF Fetched
  <2>2. ~isAsync
      BY <2>1 DEF OneAtATime, StackShaped
  <2> QED
      BY <1>0, <1>3, <2>1, <2>2, InwardsKeeps, OutwardsKeeps DEF Fetched
<1>4. CASE BatchDone
  <2>1. /\ Idle(Main) /\ call.phase = "leave" /\ stack[call.at] = "trigger"
        /\ call.at \in DOMAIN stack /\ call.at # 0 /\ call.at \in 0 .. Len(stack)
      BY <1>0, <1>4, InCallStands DEF BatchDone
  <2>2. CASE call.failed
      BY <1>0, <1>4, <2>1, <2>2, OutwardsKeeps DEF BatchDone
  <2>3. CASE ~call.failed
    <3>1. \A a \in Actors : Idle(a)
        BY <2>1, PlainRests DEF OneAtATime, StackShaped
    <3>2. StackShaped' /\ stack' \in Seq(Kinds)
        BY <1>4 DEF BatchDone, OneAtATime, StackShaped, CallTyped, decoratorVars
    <3> QED
        BY <1>4, <2>1, <2>3, <3>1, <3>2, EntersKeeps DEF BatchDone, decoratorVars
  <2> QED
      BY <2>2, <2>3
<1>5. CASE ReadDone
    BY <1>0, <1>5, InCallStands, InwardsKeeps, OutwardsKeeps DEF ReadDone
<1>6. CASE ReadCancelled
    BY <1>0, <1>6, InCallStands, OutwardsKeeps DEF ReadCancelled
<1>7. CASE InputDone \/ OutputDone
    BY <1>0, <1>7, InCallStands, OutwardsKeeps DEF InputDone, OutputDone
<1>8. CASE OutputCalls
    BY <1>0, <1>8, InCallStands, InwardsKeeps DEF OutputCalls
<1>9. ASSUME NEW kind \in Clients, InjectCalls(kind) \/ InjectClosed(kind)
      PROVE  OneAtATime'
    BY <1>0, <1>9, InCallStands, InwardsKeeps, OutwardsKeeps DEF InjectCalls, InjectClosed
<1>10. CASE BodyEnds
  <2>1. /\ disturbed \subseteq disturbed' /\ disturbed' \subseteq Injected
        /\ \A h \in Injected \ disturbed' : ~Busy(h)
        /\ 0 \in 0 .. Len(stack)
      BY <1>0, <1>10, CallFields DEF BodyEnds, Disturbs
  <2> QED
      BY <1>10, <2>1, OutwardsKeeps DEF BodyEnds, InBody
<1> QED
    BY <1>1, <1>2, <1>3, <1>4, <1>5, <1>6, <1>7, <1>8, <1>9, <1>10

\* An injecting layer ends with nothing to close.
ClosesNothing(kind) ==
    /\ InCall("leave", kind)
    /\ engine[Client(kind)] = NoEngine
    /\ Outwards(call.failed)
    /\ UNCHANGED <<decoratorVars, engineVars, stack, disturbed>>

\* The handler closes its client early, and dispose() raises.
ClosesRaising(h) ==
    /\ InBody /\ h \in Injected
    /\ CloseEngineRaises(Main, h)
    /\ disturbed \subseteq disturbed' /\ disturbed' \subseteq Injected
    /\ h \notin disturbed' => ~Busy(h)
    /\ UNCHANGED <<decoratorVars, stack, call>>

\* The calls and the closing of the bindings begin alone on their handles; or
\* there is nothing to close, or closing raises.
LEMMA CallsBegin ==
    ASSUME OneAtATime,
           \/ StartFetch \/ StartRead \/ SetOutput
           \/ \E kind \in Clients :
                  InjectCloses(kind) \/ UseClient(kind) \/ CloseClient(kind)
    PROVE  \/ \E a \in Actors, h \in Handles : BeginsAlone(a, h)
           \/ \E kind \in Clients : ClosesNothing(kind)
           \/ \E h \in Handles : ClosesRaising(h)
<1> DEFINE Goal == \/ \E a \in Actors, h \in Handles : BeginsAlone(a, h)
                   \/ \E kind \in Clients : ClosesNothing(kind)
                   \/ \E h \in Handles : ClosesRaising(h)
<1> USE DEF Phases, Kinds, Clients
<1>0. /\ CallTyped /\ disturbed \subseteq Injected /\ call.failed \in BOOLEAN
      /\ Main \in Actors /\ Source \in Handles /\ InputReader \in Handles
      /\ OutWriters \subseteq Handles
      /\ \A kind \in Clients : Client(kind) \in Handles /\ Client(kind) \in Injected
    BY CallFields, RolesAssumption DEF OneAtATime, CallTyped, Client, Injected
<1>a. /\ Injected \cap ({Source, InputReader} \cup OutWriters) = {}
      /\ \A k1, k2 \in Clients : Client(k1) = Client(k2) => k1 = k2
    BY RolesAssumption DEF Client, Injected
<1>1. ASSUME NEW a \in Actors, NEW h \in Handles, ~isAsync, Idle(Main)
      PROVE  ~Busy(h)
    BY <1>1, PlainRests, NothingAssumption DEF Busy
<1>2. CASE StartFetch
  <2>1. /\ Idle(Main) /\ call.phase = "enter" /\ stack[call.at] = "trigger"
        /\ call.at \in DOMAIN stack
      BY <1>0, <1>2, InCallStands DEF StartFetch
  <2>2. ~Busy(Source)
      BY <1>0, <1>1, <2>1 DEF OneAtATime, StackShaped
  <2>3. Source # InputReader
      BY RolesAssumption
  <2> QED
      BY <1>0, <1>a, <1>2, <2>1, <2>2, <2>3 DEF BeginsAlone, StartFetch
<1>3. CASE StartRead
  <2>1. /\ Idle(Main) /\ call.phase = "enter" /\ stack[call.at] = "input"
        /\ call.at \in DOMAIN stack /\ call.at \in 0 .. Len(stack)
      BY <1>0, <1>3, InCallStands DEF StartRead
  <2>2. PICK a \in Actors : Runs(a) /\ Begin(a, InputReader) /\ WaitFor(a)
      BY <1>3 DEF StartRead
  <2>3. ~Busy(InputReader)
    <3>1. CASE isAsync
        BY <2>1, <3>1 DEF OneAtATime, ReadNotBegun, Busy
    <3>2. CASE ~isAsync
        BY <1>0, <1>1, <2>1, <3>2
    <3> QED
        BY <3>1, <3>2
  <2>4. InputReader \notin Injected
      BY RolesAssumption DEF Injected
  <2>5. call'.phase = "wait" /\ (a # Main => isAsync)
      BY <1>0, <2>2, CallFields DEF WaitFor, Runs
  <2> QED
      BY <1>0, <1>a, <1>3, <2>1, <2>2, <2>3, <2>4, <2>5 DEF BeginsAlone, StartRead
<1>4. CASE SetOutput
  <2>1. PICK a \in Actors, h \in OutWriters : ~Busy(h) /\ Runs(a) /\ Begin(a, h)
      BY <1>4 DEF SetOutput
  <2>2. h # InputReader /\ h \notin Injected /\ (a # Main => isAsync)
      BY <2>1, RolesAssumption DEF Injected, Runs
  <2> QED
      BY <1>0, <1>a, <1>4, <2>1, <2>2 DEF BeginsAlone, SetOutput, callVars
<1>5. ASSUME NEW kind \in Clients, UseClient(kind) PROVE Goal
  <2>1. PICK a \in Actors : Runs(a) /\ Begin(a, Client(kind))
      BY <1>5 DEF UseClient
  <2>2. Client(kind) # InputReader /\ (a # Main => isAsync)
      BY <2>1, RolesAssumption DEF Client, Runs
  <2>3. /\ disturbed \subseteq disturbed' /\ disturbed' \subseteq Injected
        /\ (Client(kind) \notin disturbed' => ~Busy(Client(kind)))
      BY <1>0, <1>5 DEF UseClient, Disturbs
  <2> QED
      BY <1>0, <1>a, <1>5, <2>1, <2>2, <2>3 DEF BeginsAlone, UseClient
<1>6. ASSUME NEW kind \in Clients, CloseClient(kind) PROVE Goal
  <2>1. Client(kind) # InputReader
      BY RolesAssumption DEF Client
  <2>2. /\ disturbed \subseteq disturbed' /\ disturbed' \subseteq Injected
        /\ (Client(kind) \notin disturbed' => ~Busy(Client(kind)))
      BY <1>0, <1>6 DEF CloseClient, Disturbs
  <2>3. CASE Idle(Main) /\ CloseEngine(Main, Client(kind))
    <3>1. BeginsAlone(Main, Client(kind))
        BY <1>0, <1>a, <1>6, <2>1, <2>2, <2>3 DEF BeginsAlone, CloseClient
    <3> QED
        BY <1>0, <3>1
  <2>4. CASE CloseEngineRaises(Main, Client(kind))
    <3>1. ClosesRaising(Client(kind))
        BY <1>0, <1>6, <2>2, <2>4 DEF ClosesRaising, CloseClient
    <3> QED
        BY <1>0, <3>1
  <2> QED
      BY <1>6, <2>3, <2>4 DEF CloseClient, Close
<1>7. ASSUME NEW kind \in Clients, InjectCloses(kind) PROVE Goal
  <2>1. /\ Idle(Main) /\ call.phase = "leave" /\ call.at # 0
        /\ call.at \in DOMAIN stack /\ call.at \in 0 .. Len(stack)
      BY <1>0, <1>7, InCallStands DEF InjectCloses
  <2>2. CASE CloseEngine(Main, Client(kind)) /\ WaitFor(Main)
    <3>1. Client(kind) \notin disturbed => ~Busy(Client(kind))
      <4> SUFFICES ASSUME Client(kind) \notin disturbed, NEW a \in Actors
                   PROVE  job[a].on # Client(kind)
          BY DEF Busy
      <4>1. CASE a = Main
          BY <1>0, <2>1, <4>1, NothingAssumption DEF OneAtATime, JobsShaped
      <4>2. CASE a # Main
          BY <1>0, <2>1, <4>2 DEF OneAtATime, ClientsLeft, Workers
      <4> QED
          BY <4>1, <4>2
    <3>2. Client(kind) # InputReader
        BY RolesAssumption DEF Client
    <3>3. stack[call.at] = kind
        BY <1>7 DEF InjectCloses, InCall
    <3>4. UNCHANGED <<decoratorVars, stack, disturbed>>
        BY <1>7 DEF InjectCloses
    <3>5. \A k \in Clients : Client(kind) = Client(k) => k = kind
        BY <1>a
    <3>6. call' # call
        BY <1>0, <2>1, <2>2, CallFields DEF WaitFor
    <3>7. BeginsAlone(Main, Client(kind))
        BY <1>0, <2>1, <2>2, <3>1, <3>2, <3>3, <3>4, <3>5, <3>6 DEF BeginsAlone
    <3> QED
        BY <1>0, <3>7
  <2>3. CASE engine[Client(kind)] = NoEngine /\ Outwards(call.failed) /\ UNCHANGED engineVars
      BY <1>7, <2>1, <2>3 DEF InjectCloses, ClosesNothing
  <2> QED
      BY <1>7, <2>2, <2>3 DEF InjectCloses
<1> QED
    BY <1>2, <1>3, <1>4, <1>5, <1>6, <1>7

\* A close() that raises moves no thread.
LEMMA RaiseKeeps ==
    ASSUME OneAtATime, Decorated', EngineTypeOK', NEW h \in Handles, ClosesRaising(h)
    PROVE  OneAtATime'
<1>1. h \notin SelfClosing /\ Idle(Main) /\ Main \in Actors
    BY RolesAssumption DEF ClosesRaising, Injected, InBody
<1>2. job' = [job EXCEPT ![Main] = [at |-> "idle", on |-> Nothing, ok |-> FALSE]]
    BY <1>1 DEF ClosesRaising, CloseEngineRaises
<1>3. \A a \in Actors : job'[a].on = job[a].on /\ job'[a].at = job[a].at
    BY <1>1, <1>2 DEF OneAtATime, EngineTypeOK, JobsShaped, Idle
<1>4. UNCHANGED <<isAsync, layers, stack, call>>
    BY DEF ClosesRaising, decoratorVars
<1>5. disturbed \subseteq disturbed' /\ disturbed' \subseteq Injected
    BY DEF ClosesRaising
<1>6. CallTyped' /\ JobsShaped' /\ StackShaped' /\ CallShaped'
    BY <1>3, <1>4, <1>5
    DEF OneAtATime, CallTyped, JobsShaped, StackShaped, CallShaped, Idle
<1>7. PlainRunsInMain' /\ ReadNotBegun' /\ ClientsLeft' /\ Exclusive'
    BY <1>3, <1>4, <1>5
    DEF OneAtATime, PlainRunsInMain, ReadNotBegun, ClientsLeft, Exclusive, Idle,
        Workers
<1> QED
    BY <1>6, <1>7 DEF OneAtATime

\* They keep the threads apart.
LEMMA CallsKeep ==
    ASSUME OneAtATime, Decorated', EngineTypeOK',
           \/ StartFetch \/ StartRead \/ SetOutput
           \/ \E kind \in Clients :
                  InjectCloses(kind) \/ UseClient(kind) \/ CloseClient(kind)
    PROVE  OneAtATime'
<1>1. ASSUME NEW kind \in Clients, ClosesNothing(kind) PROVE OneAtATime'
  <2>1. /\ call.phase = "leave" /\ call.at # 0 /\ call.at \in 0 .. Len(stack)
        /\ call.failed \in BOOLEAN
        /\ disturbed' = disturbed /\ disturbed' \subseteq Injected
      BY <1>1, InCallStands, CallFields
      DEF ClosesNothing, OneAtATime, CallTyped, Phases, Kinds, Clients
  <2> QED
      BY <1>1, <2>1, OutwardsKeeps DEF ClosesNothing
<1>2. ASSUME NEW h \in Handles, ClosesRaising(h) PROVE OneAtATime'
    BY <1>2, RaiseKeeps
<1> QED
    BY <1>1, <1>2, CallsBegin, BeginKeeps

\* Every step preserves the invariant of the threads.
LEMMA OneAtATimeStep == OneAtATime /\ [DecoratedNext]_allVars => OneAtATime'
<1> SUFFICES ASSUME OneAtATime, [DecoratedNext]_allVars PROVE OneAtATime'
    OBVIOUS
<1>0. Decorated' /\ EngineTypeOK'
    BY DecoratedStep, StepOfEngines, TypeStep DEF OneAtATime
<1>1. CASE Import
    BY <1>0, <1>1, ImportKeeps
<1>2. CASE Deploy
    BY <1>0, <1>2, DeployKeeps
<1>3. CASE Threads
    BY <1>0, <1>3, ThreadsKeep
<1>4. CASE Disposals
  <2>1. UNCHANGED <<decoratorVars, callVars, job>>
      BY <1>4 DEF Disposals, Disposal, DisposeAll, DisposeOne, DisposeFails
  <2> QED
      BY <1>0, <2>1, RestKeeps
<1>5. CASE UNCHANGED allVars
    BY <1>0, <1>5, RestKeeps DEF allVars, engineVars
<1> QED
    BY <1>0, <1>1, <1>2, <1>3, <1>4, <1>5, LayersKeep, CallsKeep DEF DecoratedNext

\* Nobody is on a handle before the first invocation.
LEMMA OneAtATimeInit == DecoratedInit => OneAtATime
<1> SUFFICES ASSUME DecoratedInit PROVE OneAtATime
    OBVIOUS
<1>1. Decorated /\ EngineTypeOK
    BY DecoratedInitially, OwnershipInit DEF DecoratedInit, DecoratorInit, Ownership
<1>2. /\ stack = <<>> /\ DOMAIN stack = {} /\ Len(stack) = 0
      /\ layers = <<>> /\ DOMAIN layers = {} /\ disturbed = {}
      /\ call = [phase |-> "import", at |-> 0, by |-> Main, failed |-> FALSE]
      /\ \A a \in Actors : Idle(a) /\ job[a].on = Nothing
    BY DEF DecoratedInit, DecoratorInit, CallInit, EngineInit, Idle, Rest
<1>3. CallTyped
  <2>1. stack \in Seq(Kinds) /\ 0 \in 0 .. Len(stack) + 1
      BY <1>2
  <2>2. "import" \in Phases /\ Main \in Actors
      BY RolesAssumption DEF Phases
  <2> QED
      BY <1>2, <2>1, <2>2 DEF CallTyped
<1> QED
    BY <1>1, <1>2, <1>3, NothingAssumption, RolesAssumption
    DEF OneAtATime, JobsShaped, StackShaped, CallShaped, PlainRunsInMain,
        ReadNotBegun, ClientsLeft, Exclusive, Injected, Workers

\* The state of a decorated handler and its invocations is always of its type.
THEOREM DecoratedTyped == DecoratedSpec => []DecoratedTypeOK
<1>1. OneAtATime => DecoratedTypeOK
    BY DEF OneAtATime, Decorated, CallTyped, DecoratedTypeOK
<1> QED
    BY <1>1, OneAtATimeInit, OneAtATimeStep, PTL DEF DecoratedSpec

-----------------------------------------------------------------------------
(* An undisturbed handle has one thread at most, which keeps it sound. *)

\* Every handle is sound, unless two threads are on it, or have been.
AllSound ==
    \A a \in Actors, h \in Handles \ disturbed : Alone(a, h) => Sound(a, h)

\* Every step is the engines', or one on a handle, alone unless it disturbs it.
LEMMA StepsAreAlone ==
    ASSUME OneAtATime, [DecoratedNext]_allVars
    PROVE  /\ disturbed \subseteq disturbed'
           /\ \/ UNCHANGED engineVars
              \/ Disposal
              \/ \E a \in Actors, h \in Handles :
                     HandleStep(a, h) /\ (h \notin disturbed' => Alone(a, h))
<1> DEFINE Goal ==
        /\ disturbed \subseteq disturbed'
        /\ \/ UNCHANGED engineVars
           \/ Disposal
           \/ \E a \in Actors, h \in Handles :
                  HandleStep(a, h) /\ (h \notin disturbed' => Alone(a, h))
<1>1. CASE \/ Import \/ Deploy \/ Again \/ TickEnds \/ Fetched \/ BatchDone
           \/ ReadDone \/ ReadCancelled \/ InputDone \/ OutputCalls \/ OutputDone
           \/ \E kind \in Clients : InjectCalls(kind) \/ InjectClosed(kind)
  <2>1. UNCHANGED <<engineVars, disturbed>>
      BY <1>1
      DEF Import, Deploy, Again, TickEnds, Fetched, BatchDone, ReadDone,
          ReadCancelled, InputDone, OutputCalls, OutputDone, InjectCalls,
          InjectClosed, callVars
  <2> QED
      BY <2>1
<1>2. ASSUME NEW a \in Actors, NEW h \in Handles, BeginsAlone(a, h) PROVE Goal
  <2>1. HandleStep(a, h)
    <3>1. CASE Begin(a, h)
        BY <3>1 DEF HandleStep
    <3>2. CASE a = Main /\ Idle(a) /\ CloseEngine(a, h)
        BY <3>2, RolesAssumption DEF HandleStep, Close
    <3> QED
        BY <1>2, <3>1, <3>2 DEF BeginsAlone
  <2> QED
      BY <1>2, <2>1 DEF BeginsAlone, Alone, Busy
<1>3. ASSUME NEW kind \in Clients, ClosesNothing(kind) PROVE Goal
    BY <1>3 DEF ClosesNothing
<1>4. CASE Threads
  <2>1. PICK a \in Actors, h \in Handles : Continue(a, h)
      BY <1>4 DEF Threads
  <2>2. disturbed' = disturbed
      BY <1>4 DEF Threads, callVars
  <2>3. h \notin disturbed => Alone(a, h)
      BY <2>1, ContinueMoves DEF OneAtATime, Exclusive, Alone, Idle
  <2> QED
      BY <2>1, <2>2, <2>3 DEF HandleStep
<1>5. CASE Disposals \/ UNCHANGED allVars
    BY <1>5 DEF Disposals, allVars, callVars
<1>6. CASE BodyEnds
    BY <1>6 DEF BodyEnds, Disturbs
<1>7. ASSUME NEW h \in Handles, ClosesRaising(h) PROVE Goal
  <2>1. HandleStep(Main, h) /\ Main \in Actors
      BY <1>7, RolesAssumption DEF ClosesRaising, HandleStep, Close, InBody
  <2> QED
      BY <1>7, <2>1 DEF ClosesRaising, Alone, Busy
<1> QED
    BY <1>1, <1>2, <1>3, <1>4, <1>5, <1>6, <1>7, CallsBegin DEF DecoratedNext

\* Every step keeps the handles sound.
LEMMA AllSoundStep ==
    ASSUME OneAtATime, Ownership, AllSound, [DecoratedNext]_allVars
    PROVE  AllSound'
<1> SUFFICES ASSUME NEW c \in Actors, NEW g \in Handles, g \notin disturbed',
                    Alone(c, g)'
             PROVE  Sound(c, g)'
    BY DEF AllSound
<1>1. g \notin disturbed /\ EngineTypeOK' /\ JobsShaped
    BY StepsAreAlone, StepOfEngines, TypeStep DEF OneAtATime
<1>2. CASE UNCHANGED engineVars
    BY <1>1, <1>2 DEF AllSound, Alone, Sound, engineVars, fields
<1>3. CASE Disposal
  <2>1. UNCHANGED <<fields, job>> /\ open' \subseteq open
      BY <1>3 DEF Disposal, DisposeAll, DisposeOne, DisposeFails
  <2> QED
      BY <1>1, <2>1 DEF AllSound, Alone, Sound, fields
<1>4. ASSUME NEW a \in Actors, NEW h \in Handles, HandleStep(a, h),
             g = h => Alone(a, h)
      PROVE  Sound(c, g)'
  <2>1. /\ \A b \in Actors : b # a => job'[b] = job[b]
        /\ job[a].on \in {h, Nothing} /\ job'[a].on \in {h, Nothing}
      BY <1>1, <1>4, HandleStepTouches DEF Ownership
  <2>2. CASE g = h
    <3>1. Sound(a, h)'
        BY <1>1, <1>4, <2>2, SoundMoves DEF AllSound, Ownership
    <3>2. CASE c = a
        BY <2>2, <3>1, <3>2
    <3>3. CASE c # a
      <4>1. job'[a].on # h /\ job'[c].on # h
          BY <1>4, <2>1, <2>2, <3>3 DEF Alone
      <4> QED
          BY <2>2, <3>1, <4>1 DEF Sound
    <3> QED
        BY <3>2, <3>3
  <2>3. CASE g # h
    <3>1. Alone(c, g)
        BY <2>1, <2>3, NothingAssumption DEF Alone
    <3> QED
        BY <1>1, <1>4, <2>3, <3>1, SoundElsewhere DEF AllSound
  <2> QED
      BY <2>2, <2>3
<1> QED
    BY <1>1, <1>2, <1>3, <1>4, StepsAreAlone

\* Some thread is alone on each undisturbed handle: the one that is on it, or
\* any.
LEMMA SomebodyIsAlone ==
    ASSUME OneAtATime, NEW h \in Handles, h \notin disturbed
    PROVE  \E a \in Actors : Alone(a, h)
<1>1. CASE \E b \in Actors : job[b].on = h
  <2>1. PICK b \in Actors : job[b].on = h
      BY <1>1
  <2>2. job[b].on # Nothing /\ ~Idle(b)
      BY <2>1, NothingAssumption DEF OneAtATime, JobsShaped
  <2>3. Alone(b, h)
      BY <2>1, <2>2 DEF OneAtATime, Exclusive, Alone
  <2> QED
      BY <2>3
<1>2. CASE \A b \in Actors : job[b].on # h
    BY <1>2, RolesAssumption DEF Alone
<1> QED
    BY <1>1, <1>2

\* The invariant with the engines' owners.
SoundOwners == OneAtATime /\ Ownership /\ AllSound

\* Every step preserves it.
LEMMA SoundOwnersStep == SoundOwners /\ [DecoratedNext]_allVars => SoundOwners'
  BY OneAtATimeStep, OwnershipStep, StepOfEngines, AllSoundStep DEF SoundOwners

\* It holds at first.
LEMMA SoundOwnersInit == DecoratedInit => SoundOwners
<1> SUFFICES ASSUME DecoratedInit PROVE SoundOwners
    OBVIOUS
<1>1. OneAtATime /\ Ownership
    BY OneAtATimeInit, OwnershipInit DEF DecoratedInit
<1>2. AllSound
    BY NothingAssumption DEF AllSound, Sound, DecoratedInit, EngineInit, Rest
<1> QED
    BY <1>1, <1>2 DEF SoundOwners

\* Every binding that counts as initialised has the engine and the table that
\* its calls assert, whatever its calls, their undoing, its closing or a
\* dispose_all meet, and whatever other bindings do; excepted are the injected
\* clients of which two calls have overlapped, or that were closed or left
\* during a call, until their invocation drops them.
THEOREM BindingsUsableAlways == DecoratedSpec => []BindingsUsable
<1>1. SoundOwners => BindingsUsable
  <2> SUFFICES ASSUME SoundOwners, NEW h \in initialized, h \notin disturbed
               PROVE  engine[h] # NoEngine /\ (h \in Tabled => h \in reflected)
      BY DEF BindingsUsable
  <2>1. h \in Handles
      BY DEF SoundOwners, OneAtATime, EngineTypeOK
  <2> QED
      BY <2>1, SomebodyIsAlone DEF SoundOwners, AllSound, Sound
<1> QED
    BY <1>1, SoundOwnersInit, SoundOwnersStep, PTL DEF DecoratedSpec

-----------------------------------------------------------------------------
(* Every open pool is known. *)

\* The pool of a handle's engine, of the provider's, or of one that the
\* provider has dropped.
Known(e) ==
    \/ \E h \in Handles : engine[h] = e
    \/ \E u \in Urls : cached[u] = e
    \/ e \in forgotten

OpenKnown == doomed \subseteq forgotten /\ \A e \in open : Known(e)

\* The only thread on a sound handle loses no open pool, and nor does any on a
\* handle with a provider.
LEMMA KnownMoves ==
    ASSUME Ownership, EngineTypeOK', JobsShaped, OpenKnown,
           NEW a \in Actors, NEW h \in Handles, HandleStep(a, h),
           Sound(a, h) \/ h \in Provided
    PROVE  OpenKnown'
<1> USE NoEngineIsNone
<1>1. open \subseteq Engines /\ EngineTypeOK
    BY DEF Ownership, EngineTypeOK
<1>2. \A g \in Handles : g # h => engine'[g] = engine[g]
    BY <1>1, HandleStepTouches
<1>3. ASSUME h \in owning => engine[h] \notin open
      PROVE  engine[h] \in open =>
                 engine[h] \in forgotten \/ \E u \in Urls : cached[u] = engine[h]
    BY <1>1, <1>3, SetsAssumption DEF Ownership, OthersProvided
<1>4. CASE CreateOwn(a, h) \/ GetShared(a, h)
  <2>1. engine[h] \in open =>
            engine[h] \in forgotten \/ \E u \in Urls : cached[u] = engine[h]
    <3>1. h \in Provided => h \notin owning
        BY <1>1 DEF EngineTypeOK
    <3>2. h \in owning => engine[h] # NoEngine
        BY <1>1 DEF EngineTypeOK
    <3>3. job[a].at = "create" /\ job[a].on = h
        BY <1>4 DEF CreateOwn, GetShared, Doing
    <3>4. Sound(a, h) /\ h \in owning => engine[h] \notin open
        BY <3>2, <3>3 DEF Sound, FirstUse
    <3> QED
        BY <1>3, <3>1, <3>4
  <2>2. /\ open' = open
        /\ \A u \in Urls : cached[u] # NoEngine => cached'[u] = cached[u]
        /\ doomed' = doomed
        /\ forgotten' = forgotten \/ \E e \in Fresh : forgotten' = forgotten \ {e}
    <3>1. CASE CreateOwn(a, h)
        BY <3>1 DEF CreateOwn
    <3>2. CASE GetShared(a, h)
      <4>1. PICK e \in Engines : GetEngine(UrlOf[h], e)
          BY <3>2 DEF GetShared
      <4> QED
          BY <3>2, <4>1, <1>1, SetsAssumption
          DEF GetShared, GetEngine, provider, EngineTypeOK
    <3> QED
        BY <1>4, <3>1, <3>2
  <2>3. \A e \in Fresh : e \notin open /\ e \notin doomed
      BY DEF Fresh, ReferredTo
  <2> QED
      BY <1>1, <1>2, <2>1, <2>2, <2>3 DEF OpenKnown, Known
<1>5. CASE Forget(a, h) \/ Reset(a, h)
  <2>1. UNCHANGED <<provider, open>>
      BY <1>5 DEF Forget, Reset
  <2>2. engine[h] \in open => engine[h] \in forgotten \/ \E u \in Urls : cached[u] = engine[h]
    <3>1. h \in Provided => h \notin owning
        BY <1>1 DEF EngineTypeOK
    <3>2. Sound(a, h) /\ h \in owning => engine[h] \notin open
        BY <1>5 DEF Sound, Forget, Reset, Doing
    <3> QED
        BY <1>3, <3>1, <3>2
  <2> QED
      BY <1>2, <2>1, <2>2 DEF OpenKnown, Known, provider
<1>6. CASE \/ Begin(a, h) \/ CreateFails(a, h) \/ Reflect(a, h) \/ ReflectNothing(a, h)
           \/ TableFound(a, h) \/ ReflectFails(a, h) \/ Inspect(a, h) \/ InspectFails(a, h)
           \/ Undo(a, h) \/ UndoRaises(a, h) \/ Mark(a, h)
           \/ Use(a, h) \/ UseFails(a, h)
           \/ CloseSelf(a, h) \/ Close(a, h)
  <2>1. UNCHANGED <<engine, provider>> /\ open' \subseteq open \cup {engine[h]}
      BY <1>6
      DEF Begin, CreateFails, Reflect, ReflectNothing, TableFound, ReflectFails,
          Inspect, InspectFails, Undo, UndoRaises, Mark, Use, UseFails, CloseSelf,
          Close, CloseEngine, CloseEngineRaises, CloseNothing, Connects, Disposes,
          fields
  <2> QED
      BY <2>1 DEF OpenKnown, Known, provider
<1> QED
    BY <1>4, <1>5, <1>6 DEF HandleStep, Continue

\* dispose_all drops engines, and remembers that it has.
LEMMA KnownDisposal == OpenKnown /\ Disposal => OpenKnown'
  BY DEF OpenKnown, Known, Disposal, DisposeAll, DisposeOne, DisposeFails, Cached, fields

-----------------------------------------------------------------------------
(* An injected client stays inside its layer. *)

\* The layer has been entered and has not returned.
Inside(kind) ==
    \E i \in DOMAIN stack :
        /\ stack[i] = kind
        /\ call.at < i \/ (call.at = i /\ call.phase \in {"wait", "leave"})

\* A client is in use, or has an engine.
Live(kind) == engine[Client(kind)] # NoEngine \/ Busy(Client(kind))

\* Undisturbed clients live inside their layers only; and when a layer has
\* closed its client, the client has no engine.
Confined ==
    \A kind \in Clients : Client(kind) \notin disturbed =>
        /\ Live(kind) => Inside(kind)
        /\ call.phase = "wait" /\ stack[call.at] = kind =>
               \/ job[Main].at = "reset" /\ job[Main].on = Client(kind)
               \/ Idle(Main) /\ engine[Client(kind)] = NoEngine

\* Going inwards leaves no layer.
LEMMA InwardsStays ==
    ASSUME CallTyped, NEW kind \in Kinds, Inwards, UNCHANGED stack, Inside(kind)
    PROVE  Inside(kind)' /\ call'.phase = "enter"
<1>1. call.at \in Int /\ call'.at = call.at - 1 /\ call'.phase = "enter"
    BY CallFields DEF Inwards
<1>2. DOMAIN stack = 1 .. Len(stack) /\ Len(stack) \in Nat
    BY CallFields
<1> QED
    BY <1>1, <1>2 DEF Inside

\* Going outwards leaves one layer.
LEMMA OutwardsLeaves ==
    ASSUME CallTyped, NEW kind \in Kinds, NEW failed \in BOOLEAN, Outwards(failed),
           UNCHANGED stack, Inside(kind),
           ~(call.at \in DOMAIN stack /\ stack[call.at] = kind)
    PROVE  Inside(kind)'
<1>1. /\ call.at \in Int /\ call'.at = call.at + 1
      /\ call.at < Len(stack) => call'.phase = "leave"
    BY CallFields DEF Outwards
<1>2. DOMAIN stack = 1 .. Len(stack) /\ Len(stack) \in Nat
    BY CallFields
<1>3. PICK i \in DOMAIN stack : stack[i] = kind /\ call.at <= i
    BY <1>1, <1>2 DEF Inside
<1>4. call.at < i
    BY <1>1, <1>2, <1>3
<1> QED
    BY <1>1, <1>2, <1>3, <1>4 DEF Inside

\* A wrapper's own step confines the clients if it leaves no live one behind.
LEMMA ConfinedTurns ==
    ASSUME Confined, UNCHANGED <<engineVars, stack>>, call'.phase # "wait",
           disturbed \subseteq disturbed',
           \A kind \in Clients :
               Client(kind) \notin disturbed' /\ Live(kind) /\ Inside(kind)
                   => Inside(kind)'
    PROVE  Confined'
<1>1. UNCHANGED <<engine, job, stack>>
    BY DEF engineVars, fields
<1> QED
    BY <1>1 DEF Confined, Live, Busy

\* So a layer may call what is inside it.
LEMMA ConfinedInwards ==
    ASSUME OneAtATime, Confined, UNCHANGED <<engineVars, stack, disturbed>>, Inwards
    PROVE  Confined'
<1>1. call'.phase = "enter"
    BY CallFields DEF Inwards, OneAtATime
<1> QED
    BY <1>1, InwardsStays, ConfinedTurns DEF OneAtATime, Kinds, Clients

\* And it may return, or raise, if its own client is not live.
LEMMA ConfinedOutwards ==
    ASSUME OneAtATime, Confined, UNCHANGED <<engineVars, stack>>,
           disturbed \subseteq disturbed', NEW failed \in BOOLEAN, Outwards(failed),
           \A kind \in Clients :
               /\ Client(kind) \notin disturbed'
               /\ call.at \in DOMAIN stack /\ stack[call.at] = kind
               => ~Live(kind)
    PROVE  Confined'
<1>1. call'.phase # "wait"
    BY CallFields DEF Outwards, OneAtATime
<1> QED
    BY <1>1, OutwardsLeaves, ConfinedTurns DEF OneAtATime, Kinds, Clients

\* Outside of the body, an undisturbed client without an engine is not live.
LEMMA NotLive ==
    ASSUME OneAtATime, NEW kind \in Clients, Client(kind) \notin disturbed,
           Idle(Main), call.at # 0, engine[Client(kind)] = NoEngine
    PROVE  ~Live(kind)
<1>1. Client(kind) \in Injected /\ Client(kind) # Nothing
    BY RolesAssumption, NothingAssumption DEF Client, Injected
<1>2. job[Main].on = Nothing
    BY RolesAssumption DEF OneAtATime, JobsShaped
<1>3. \A b \in Actors : job[b].on # Client(kind)
    BY <1>1, <1>2 DEF OneAtATime, ClientsLeft, Workers
<1> QED
    BY <1>3 DEF Live, Busy

\* The layers' own steps keep the clients confined.
LEMMA ConfinedLayers ==
    ASSUME OneAtATime, Confined,
           \/ Deploy \/ Again \/ TickEnds \/ Fetched \/ BatchDone
           \/ ReadDone \/ ReadCancelled \/ InputDone \/ OutputCalls \/ OutputDone
           \/ \E kind \in Clients :
                  InjectCalls(kind) \/ InjectClosed(kind) \/ ClosesNothing(kind)
           \/ BodyEnds
    PROVE  Confined'
<1> USE DEF Phases, Kinds, Clients
<1>0. CallTyped /\ call.failed \in BOOLEAN /\ 0 \notin DOMAIN stack
    BY CallFields DEF OneAtATime
<1>1. ASSUME call.phase \in {"import", "over"}
      PROVE  \A kind \in Clients : Client(kind) \notin disturbed => ~Live(kind)
  <2>1. \A i \in DOMAIN stack : ~(call.at <= i)
      BY <1>0, <1>1, CallFields DEF OneAtATime, CallShaped
  <2>2. call.at \in Int /\ DOMAIN stack \subseteq Int
      BY <1>0, CallFields
  <2> QED
      BY <2>1, <2>2 DEF Confined, Inside
<1>2. CASE Deploy
  <2>1. /\ UNCHANGED <<engine, job, disturbed>> /\ call'.phase # "wait"
        /\ call.phase = "import"
      BY <1>2, CallFields DEF Deploy, engineVars, fields, Enters, OneAtATime
  <2> QED
      BY <1>1, <2>1 DEF Confined, Live, Busy
<1>3. CASE Again
  <2>1. /\ UNCHANGED <<engineVars, stack, disturbed>> /\ call'.phase # "wait"
        /\ call.phase = "over"
      BY <1>0, <1>3, CallFields DEF Again, Enters
  <2> QED
      BY <1>1, <2>1, ConfinedTurns
<1>4. CASE TickEnds \/ ReadCancelled \/ InputDone \/ OutputDone
    BY <1>0, <1>4, ConfinedOutwards DEF TickEnds, ReadCancelled, InputDone, OutputDone, InCall
<1>5. CASE Fetched \/ ReadDone \/ OutputCalls
    BY <1>0, <1>5, ConfinedInwards, ConfinedOutwards DEF Fetched, ReadDone, OutputCalls, InCall
<1>6. CASE BatchDone
  <2>1. /\ call.phase = "leave" /\ call.at \in DOMAIN stack /\ stack[call.at] = "trigger"
        /\ UNCHANGED <<engineVars, stack, disturbed>>
      BY <1>6 DEF BatchDone, InCall
  <2>2. CASE call.failed
      BY <1>0, <1>6, <2>1, <2>2, ConfinedOutwards DEF BatchDone
  <2>3. CASE ~call.failed
    <3>1. call'.phase = "enter" /\ call'.at = call.at
        BY <1>0, <1>6, <2>3, CallFields DEF BatchDone, Enters
    <3>2. \A kind \in Clients : Inside(kind) => Inside(kind)'
        BY <2>1, <3>1 DEF Inside
    <3> QED
        BY <2>1, <3>1, <3>2, ConfinedTurns
  <2> QED
      BY <2>2, <2>3
<1>7. ASSUME NEW kind \in Clients, InjectCalls(kind) PROVE Confined'
    BY <1>7, ConfinedInwards DEF InjectCalls
<1>8. ASSUME NEW kind \in Clients, InjectClosed(kind) \/ ClosesNothing(kind)
      PROVE  Confined'
  <2>1. /\ call.at \in DOMAIN stack /\ stack[call.at] = kind /\ Idle(Main)
        /\ call.at # 0 /\ UNCHANGED <<engineVars, stack, disturbed>>
        /\ Outwards(call.failed) \/ Outwards(TRUE)
      BY <1>0, <1>8 DEF InjectClosed, ClosesNothing, InCall
  <2>2. Client(kind) \notin disturbed => engine[Client(kind)] = NoEngine
    <3>1. CASE InjectClosed(kind)
        BY <2>1, <3>1 DEF InjectClosed, InCall, Confined, Idle
    <3>2. CASE ClosesNothing(kind)
        BY <3>2 DEF ClosesNothing
    <3> QED
        BY <1>8, <3>1, <3>2
  <2>3. Client(kind) \notin disturbed => ~Live(kind)
      BY <2>1, <2>2, NotLive
  <2> QED
      BY <1>0, <2>1, <2>3, ConfinedOutwards
<1>9. CASE BodyEnds
    BY <1>0, <1>9, ConfinedOutwards DEF BodyEnds, InBody, Disturbs
<1> QED
    BY <1>2, <1>3, <1>4, <1>5, <1>6, <1>7, <1>8, <1>9

\* So do the calls that begin,
LEMMA ConfinedBegins ==
    ASSUME OneAtATime, Confined, NEW a \in Actors, NEW h \in Handles, BeginsAlone(a, h)
    PROVE  Confined'
<1> USE DEF Phases, Kinds, Clients
<1>1. /\ \A g \in Handles : g # h => engine'[g] = engine[g]
      /\ \A b \in Actors : b # a => job'[b] = job[b]
      /\ job[a].on = Nothing /\ job'[a].on = h /\ Idle(a)
  <2>1. HandleStep(a, h)
      BY RolesAssumption DEF BeginsAlone, HandleStep, Close
  <2> QED
      BY <2>1, HandleStepTouches, BeginMoves DEF OneAtATime, BeginsAlone, JobsShaped
<1>2. stack' = stack /\ CallTyped /\ DOMAIN stack = 1 .. Len(stack) /\ Len(stack) \in Nat
    BY CallFields DEF BeginsAlone, OneAtATime
<1>3. \/ call' = call /\ call.phase = "enter" /\ call.at = 0
      \/ /\ call' # call /\ call'.phase = "wait" /\ call'.at = call.at
         /\ call.at \in DOMAIN stack
    BY <1>2, CallFields DEF BeginsAlone, InBody, WaitFor
<1>4. \A kind \in Clients : Client(kind) \in Handles
    BY RolesAssumption DEF Client
<1>5. ASSUME NEW kind \in Clients, Client(kind) \notin disturbed', Live(kind)'
      PROVE  Inside(kind)'
  <2>1. CASE h = Client(kind)
    <3>1. CASE InBody /\ call' = call /\ Has(kind)
        BY <1>2, <3>1 DEF InBody, Has, Inside
    <3>2. CASE call' # call /\ stack[call.at] = kind
        BY <1>2, <1>3, <3>2 DEF Inside
    <3> QED
        BY <2>1, <3>1, <3>2 DEF BeginsAlone
  <2>2. CASE h # Client(kind)
    <3>1. Live(kind)
        BY <1>1, <1>4, <1>5, <2>2, NothingAssumption DEF Live, Busy
    <3>2. Inside(kind)
        BY <1>5, <3>1 DEF Confined, BeginsAlone
    <3> QED
        BY <1>2, <1>3, <3>2 DEF Inside
  <2> QED
      BY <2>1, <2>2
<1>6. ASSUME call'.phase = "wait", NEW kind \in Clients, stack[call.at] = kind
      PROVE  job'[Main].at = "reset" /\ job'[Main].on = Client(kind)
  <2>1. a = Main /\ CloseEngine(a, h) /\ h = Client(kind)
      BY <1>3, <1>6 DEF BeginsAlone
  <2> QED
      BY <2>1, RolesAssumption
      DEF CloseEngine, Go, OneAtATime, EngineTypeOK
<1> QED
    BY <1>2, <1>3, <1>5, <1>6 DEF Confined

\* and those that go on.
LEMMA ConfinedThreads ==
    ASSUME OneAtATime, Confined, Threads
    PROVE  Confined'
<1>1. PICK a \in Actors, h \in Handles : Continue(a, h)
    BY DEF Threads
<1>2. /\ \A g \in Handles : g # h => engine'[g] = engine[g]
      /\ \A b \in Actors : b # a => job'[b] = job[b]
      /\ job[a].on = h /\ job[a].at # "idle" /\ job'[a].on \in {h, Nothing}
    BY <1>1, HandleStepTouches, ContinueMoves DEF OneAtATime, HandleStep
<1>3. UNCHANGED <<stack, call, disturbed>>
    BY DEF Threads, callVars
<1>4. \A kind \in Clients : Client(kind) \in Handles /\ Client(kind) \in Injected
    BY RolesAssumption DEF Client, Injected, Clients
<1>5. ASSUME NEW kind \in Clients, Client(kind) \notin disturbed, Live(kind)'
      PROVE  Inside(kind)'
  <2>1. Live(kind)
      BY <1>2, <1>4, <1>5, NothingAssumption DEF Live, Busy
  <2> QED
      BY <1>3, <1>5, <2>1 DEF Confined, Inside
<1>6. ASSUME call.phase = "wait", NEW kind \in Clients, stack[call.at] = kind,
             Client(kind) \notin disturbed
      PROVE  \/ job'[Main].at = "reset" /\ job'[Main].on = Client(kind)
             \/ Idle(Main)' /\ engine'[Client(kind)] = NoEngine
  <2>1. CASE a = Main
    <3>1. job[Main].at = "reset" /\ h = Client(kind)
        BY <1>2, <1>6, <2>1 DEF Confined, Idle
    <3>2. Reset(a, h)
        BY <1>1, <2>1, <3>1
        DEF Continue, CreateOwn, GetShared, CreateFails, Reflect, ReflectNothing,
            TableFound, ReflectFails, Inspect, InspectFails, Undo, UndoRaises,
            Forget, Mark, Use, UseFails, CloseSelf, Doing
    <3> QED
        BY <2>1, <3>1, <3>2, RolesAssumption
        DEF Reset, ClearFields, Idle, OneAtATime, EngineTypeOK
  <2>2. CASE a # Main
    <3>1. h # Client(kind)
        BY <1>2, <1>4, <1>6, <2>2 DEF OneAtATime, ClientsLeft, Workers
    <3> QED
        BY <1>2, <1>4, <1>6, <2>2, <3>1, RolesAssumption DEF Confined, Idle
  <2> QED
      BY <2>1, <2>2
<1> QED
    BY <1>3, <1>5, <1>6 DEF Confined

\* Every step keeps the clients confined.
LEMMA ConfinedStep ==
    ASSUME OneAtATime, Confined, [DecoratedNext]_allVars
    PROVE  Confined'
<1>1. CASE Import \/ Disposals \/ UNCHANGED allVars
  <2>1. UNCHANGED <<engine, job, stack, call, disturbed>>
      BY <1>1
      DEF Import, Disposals, Disposal, DisposeAll, DisposeOne, DisposeFails,
          allVars, engineVars, callVars, fields
  <2> QED
      BY <2>1 DEF Confined, Live, Busy, Inside, Idle
<1>2. ASSUME NEW h \in Handles, ClosesRaising(h) PROVE Confined'
  <2>1. UNCHANGED <<engine, stack, call>> /\ disturbed \subseteq disturbed'
      BY <1>2 DEF ClosesRaising, CloseEngineRaises, fields
  <2>2. h \notin SelfClosing /\ Idle(Main) /\ Main \in Actors /\ InBody
      BY <1>2, RolesAssumption DEF ClosesRaising, Injected, InBody
  <2>3. job' = [job EXCEPT ![Main] = [at |-> "idle", on |-> Nothing, ok |-> FALSE]]
      BY <1>2, <2>2 DEF ClosesRaising, CloseEngineRaises
  <2>4. \A a \in Actors : job'[a].on = job[a].on
      BY <2>2, <2>3 DEF OneAtATime, EngineTypeOK, JobsShaped
  <2>5. call'.phase # "wait"
      BY <2>1, <2>2 DEF InBody
  <2> QED
      BY <2>1, <2>4, <2>5 DEF Confined, Live, Busy, Inside
<1> QED
    BY <1>1, <1>2, ConfinedLayers, ConfinedBegins, ConfinedThreads, CallsBegin
    DEF DecoratedNext

-----------------------------------------------------------------------------
(* Nothing leaks. *)

\* The inductive invariant of the engines behind an invocation.
Accounted ==
    SoundOwners /\ Confined /\ (disturbed \subseteq Provided => OpenKnown)

\* Every step preserves it.
LEMMA AccountedStep == Accounted /\ [DecoratedNext]_allVars => Accounted'
<1> SUFFICES ASSUME Accounted, [DecoratedNext]_allVars PROVE Accounted'
    OBVIOUS
<1>1. /\ OneAtATime /\ Ownership /\ AllSound /\ Confined
      /\ SoundOwners' /\ EngineTypeOK' /\ JobsShaped
    BY SoundOwnersStep DEF Accounted, SoundOwners, OneAtATime
<1>2. ASSUME disturbed' \subseteq Provided PROVE OpenKnown'
  <2>0. OpenKnown
      BY <1>1, <1>2, StepsAreAlone DEF Accounted
  <2>1. CASE UNCHANGED engineVars
      BY <2>0, <2>1 DEF OpenKnown, Known, engineVars, fields, provider
  <2>2. CASE Disposal
      BY <2>0, <2>2, KnownDisposal
  <2>3. ASSUME NEW a \in Actors, NEW h \in Handles, HandleStep(a, h),
               h \notin disturbed' => Alone(a, h)
        PROVE  OpenKnown'
    <3>1. h \notin Provided => h \notin disturbed' /\ h \notin disturbed
        BY <1>1, <1>2, StepsAreAlone
    <3>2. Sound(a, h) \/ h \in Provided
        BY <1>1, <2>3, <3>1 DEF AllSound
    <3> QED
        BY <1>1, <2>0, <2>3, <3>2, KnownMoves
  <2> QED
      BY <1>1, <2>1, <2>2, <2>3, StepsAreAlone
<1> QED
    BY <1>1, <1>2, ConfinedStep DEF Accounted

\* It holds at first.
LEMMA AccountedInit == DecoratedInit => Accounted
<1> SUFFICES ASSUME DecoratedInit PROVE Accounted
    OBVIOUS
<1>1. OpenKnown
    BY DEF OpenKnown, DecoratedInit, EngineInit
<1>2. Confined
  <2>1. \A kind \in Clients : Client(kind) \in Handles
      BY RolesAssumption DEF Client
  <2> QED
      BY <2>1, NothingAssumption
      DEF Confined, Live, Busy, DecoratedInit, EngineInit, CallInit, Rest
<1> QED
    BY <1>1, <1>2, SoundOwnersInit DEF Accounted

\* When an invocation is over and its threads have ended, only the engines
\* that are meant to last have an open pool.
LEMMA AccountedSuffices == Accounted => NothingLeaks
<1> SUFFICES ASSUME Accounted, call.phase = "over", \A a \in Actors : Idle(a),
                    disturbed \subseteq Provided, NEW e \in open
             PROVE  e \in Lasting
    BY DEF NothingLeaks
<1>1. /\ OneAtATime /\ Ownership /\ AllSound /\ OpenKnown /\ Confined
      /\ e # NoEngine
    BY NoEngineIsNone DEF Accounted, SoundOwners, OneAtATime, EngineTypeOK
<1>2. \A a \in Actors, h \in Handles : job[a].on # h
    BY <1>1, NothingAssumption DEF OneAtATime, JobsShaped
<1>3. ASSUME NEW h \in Handles, engine[h] = e, h \notin disturbed PROVE h = Source
  <2>1. h \notin SelfClosing
      BY <1>1, <1>2, <1>3, RolesAssumption DEF AllSound, Alone, Sound
  <2>2. ASSUME NEW kind \in Clients PROVE h # Client(kind)
    <3>1. \A i \in DOMAIN stack : ~(call.at <= i)
        BY <1>1, CallFields DEF OneAtATime, CallShaped
    <3>2. ~Inside(kind)
        BY <1>1, <3>1, CallFields DEF Inside, OneAtATime
    <3> QED
        BY <1>1, <1>3, <3>2 DEF Confined, Live
  <2>3. h # Reader /\ h # Writer
      BY <2>2 DEF Client, Clients
  <2> QED
      BY <2>1, <2>3, RolesAssumption
<1>4. ASSUME NEW h \in Handles, engine[h] = e, h \in disturbed
      PROVE  e \in forgotten \/ \E u \in Urls : cached[u] = e
  <2>1. h \in Provided /\ h \notin owning
      BY <1>1, <1>4 DEF OneAtATime, EngineTypeOK
  <2> QED
      BY <1>1, <1>4, <2>1, SetsAssumption DEF Ownership, OthersProvided
<1> QED
    BY <1>1, <1>3, <1>4 DEF OpenKnown, Known, Lasting

\* An invocation that is over, however it ended, has left no pool of its own
\* open, unless it has disturbed an injected client without a provider: let two
\* calls of it overlap, or closed or left it during a call.
THEOREM NothingLeaksEver == DecoratedSpec => []NothingLeaks
  BY AccountedInit, AccountedStep, AccountedSuffices, PTL DEF DecoratedSpec
=============================================================================
