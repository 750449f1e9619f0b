------------------------- MODULE DecoratedCallProofs -------------------------
(***************************************************************************)
(* Theorems about decorated handlers: every parameter of a handler is      *)
(* passed once, in whatever order it is decorated; and an invocation is a  *)
(* behaviour of LazyEngine, so that what is proved there holds here.       *)
(***************************************************************************)
EXTENDS DecoratedCall, LazyEngineProofs

-----------------------------------------------------------------------------
(* An invocation uses the engines as LazyEngine says. *)

\* Every step of an invocation is a step of the engines or leaves them alone.
LEMMA StepOfEngines == [DecoratedNext]_allVars => [EngineNext]_engineVars
<1> SUFFICES ASSUME [DecoratedNext]_allVars PROVE [EngineNext]_engineVars
    OBVIOUS
<1> USE RolesAssumption DEF EngineNext
<1>1. CASE \/ Import \/ Deploy \/ Again
           \/ TickEnds \/ Fetched \/ BatchDone
           \/ ReadDone \/ ReadCancelled \/ InputDone
           \/ OutputCalls \/ OutputDone \/ BodyEnds
           \/ \E kind \in Clients : InjectCalls(kind) \/ InjectClosed(kind)
    BY <1>1
    DEF Import, Deploy, Again, TickEnds, Fetched, BatchDone, ReadDone,
        ReadCancelled, InputDone, OutputCalls, OutputDone, BodyEnds,
        InjectCalls, InjectClosed
<1>2. CASE StartFetch \/ StartRead \/ SetOutput
    BY <1>2 DEF StartFetch, StartRead, SetOutput
<1>3. ASSUME NEW kind \in Clients,
             InjectCloses(kind) \/ UseClient(kind) \/ CloseClient(kind)
      PROVE  [EngineNext]_engineVars
  <2>1. CASE InjectCloses(kind)
      BY <2>1 DEF InjectCloses, InCall, Close, Client
  <2>2. CASE UseClient(kind) \/ CloseClient(kind)
      BY <2>2 DEF UseClient, CloseClient, Client
  <2> QED
      BY <1>3, <2>1, <2>2
<1>4. CASE Threads
    BY <1>4 DEF Threads
<1>5. CASE Disposals
    BY <1>5 DEF Disposals
<1>6. CASE UNCHANGED allVars
    BY <1>6 DEF allVars
<1> QED
    BY <1>1, <1>2, <1>3, <1>4, <1>5, <1>6 DEF DecoratedNext

\* Decorated handlers and their invocations implement the engines' behaviour:
\* no wrapper, proxy or cancellation touches an engine in another way.
THEOREM InvocationsUseEngines == DecoratedSpec => EngineSpec
<1>1. DecoratedInit => EngineInit
    BY DEF DecoratedInit
<1> QED
    BY <1>1, StepOfEngines, PTL DEF DecoratedSpec, EngineSpec

\* Invocations share engines exactly where the provider shares them, and none
\* disposes an engine under another.
THEOREM InvocationsShareEngines ==
    DecoratedSpec => []EnginesShared /\ SharedEngineSurvives
  BY InvocationsUseEngines, EnginesSharedAlways, SharedEngineSurvivesAlways, PTL

-----------------------------------------------------------------------------
(* Who passes what. *)

\* Each parameter is passed by the host or one layer, and a resolver needs
\* nothing that its own layer or one inside it gives.
Partitioned ==
    /\ \A p \in Params : p \in visible \/ \E i \in DOMAIN layers : p \in layers[i].gives
    /\ \A i \in DOMAIN layers :
          /\ layers[i].gives \cap visible = {}
          /\ \A j \in DOMAIN layers : i # j => layers[i].gives \cap layers[j].gives = {}
          /\ \A j \in DOMAIN layers : j <= i => layers[i].needs \cap layers[j].gives = {}

\* The metadata name what the layers give, but for the trigger's context.
DescribedRightly ==
    /\ Described \cap visible = {}
    /\ Params \ (Described \cup visible) \subseteq
           IF "trigger" \in Marks THEN {Context} ELSE {}

\* The inductive invariant of a handler that is being decorated.
Decorated == DecoratorTypeOK /\ Partitioned /\ DescribedRightly

\* An undecorated handler is passed everything by the host.
LEMMA DecoratedInitially ==
    ASSUME layers = <<>>, visible = Params, isAsync \in BOOLEAN,
           metadata = [bindings |-> <<>>, injections |-> <<>>]
    PROVE  Decorated
<1>1. DOMAIN layers = {}
    OBVIOUS
<1>2. Described = {}
    BY DEF Described
<1> QED
    BY <1>1, <1>2
    DEF Decorated, DecoratorTypeOK, Partitioned, DescribedRightly

\* The metadata gain the argument that the new layer is for.
LEMMA MergeDescribes ==
    ASSUME DecoratorTypeOK, NEW kind \in Kinds, NEW arg \in Params,
           metadata' = MergeMetadata(kind, arg)
    PROVE  /\ metadata' \in [bindings : Seq(Params), injections : Seq(Params)]
           /\ Described' = Described \cup {arg}
<1> DEFINE RangeOf(s) == {s[i] : i \in DOMAIN s}
           b == metadata.bindings
           j == metadata.injections
<1>1. ASSUME NEW s \in Seq(Params)
      PROVE  RangeOf(Append(s, arg)) = RangeOf(s) \cup {arg}
  <2>1. /\ DOMAIN s = 1 .. Len(s) /\ DOMAIN Append(s, arg) = 1 .. Len(s) + 1
        /\ Len(s) \in Nat
        /\ Append(s, arg)[Len(s) + 1] = arg
        /\ \A i \in 1 .. Len(s) : Append(s, arg)[i] = s[i]
      OBVIOUS
  <2> QED
      BY <2>1
<1>2. /\ b \in Seq(Params) /\ j \in Seq(Params)
      /\ Append(b, arg) \in Seq(Params) /\ Append(j, arg) \in Seq(Params)
      /\ metadata = [bindings |-> b, injections |-> j]
    BY DEF DecoratorTypeOK
<1>3. Described = RangeOf(b) \cup RangeOf(j)
    BY DEF Described
<1>4. Described' = RangeOf(metadata'.bindings) \cup RangeOf(metadata'.injections)
    BY DEF Described
<1> HIDE DEF RangeOf, b, j
<1>5. \/ metadata' = [bindings |-> Append(b, arg), injections |-> j]
      \/ metadata' = [bindings |-> b, injections |-> Append(j, arg)]
    BY <1>2 DEF MergeMetadata
<1>6. CASE metadata' = [bindings |-> Append(b, arg), injections |-> j]
    BY <1>1, <1>2, <1>3, <1>4, <1>6
<1>7. CASE metadata' = [bindings |-> b, injections |-> Append(j, arg)]
    BY <1>1, <1>2, <1>3, <1>4, <1>7
<1> QED
    BY <1>5, <1>6, <1>7

\* One more layer takes over what it gives from the host.
LEMMA DecorateKeeps ==
    ASSUME Decorated, NEW kind \in Kinds, NEW arg \in Params,
           NEW needs \in SUBSET Params, Decorate(kind, arg, needs)
    PROVE  Decorated'
<1> DEFINE n == Len(layers) + 1
           new == [kind |-> kind, gives |-> Gives(kind, arg), needs |-> needs]
<1>1. /\ arg \in visible /\ arg # Context
      /\ Gives(kind, arg) \subseteq visible
      /\ visible \subseteq Params
    BY ParamsAssumption
    DEF Decorate, ValidArg, Gives, Decorated, DecoratorTypeOK
<1>2. /\ Len(layers) \in Nat
      /\ DOMAIN layers = 1 .. Len(layers)
      /\ layers' \in Seq(Layers)
      /\ DOMAIN layers' = DOMAIN layers \cup {n} /\ n \notin DOMAIN layers
      /\ layers'[n] = new
      /\ \A i \in DOMAIN layers : layers'[i] = layers[i]
  <2>1. layers \in Seq(Layers) /\ new \in Layers /\ layers' = Append(layers, new)
      BY <1>1 DEF Decorate, Decorated, DecoratorTypeOK, Layers
  <2> QED
      BY <2>1
<1>3. visible' = visible \ Gives(kind, arg) /\ isAsync' = isAsync
    BY DEF Decorate, HostSignature
<1>4. needs \subseteq visible \ Gives(kind, arg) \/ needs = {}
    BY DEF Decorate, ValidResolver, Gives
<1>5. /\ metadata' \in [bindings : Seq(Params), injections : Seq(Params)]
      /\ Described' = Described \cup {arg}
    BY MergeDescribes DEF Decorate, Decorated
<1>6. DecoratorTypeOK'
    BY <1>1, <1>2, <1>3, <1>5 DEF Decorated, DecoratorTypeOK
<1>7. Partitioned'
  <2>1. ASSUME NEW p \in Params
        PROVE  p \in visible' \/ \E i \in DOMAIN layers' : p \in layers'[i].gives
      BY <1>2, <1>3 DEF Decorated, Partitioned
  <2>2. ASSUME NEW i \in DOMAIN layers
        PROVE  /\ layers[i].gives \cap visible' = {}
               /\ layers[i].gives \cap new.gives = {}
               /\ new.needs \cap layers[i].gives = {}
      BY <1>1, <1>3, <1>4 DEF Decorated, Partitioned
  <2>3. /\ new.gives \cap visible' = {}
        /\ new.needs \cap new.gives = {}
      BY <1>3, <1>4
  <2>4. \A i \in DOMAIN layers : ~(n <= i)
      BY <1>2
  <2> QED
      BY <1>2, <2>1, <2>2, <2>3, <2>4 DEF Decorated, Partitioned
<1>8. DescribedRightly'
  <2>1. Marks' = Marks \cup {kind}
      BY <1>2 DEF Marks
  <2>2. Described' \cap visible' = {}
      BY <1>3, <1>5 DEF Decorated, DescribedRightly, Gives
  <2> QED
      BY <1>3, <1>5, <2>1, <2>2 DEF Decorated, DescribedRightly, Gives
<1> QED
    BY <1>6, <1>7, <1>8 DEF Decorated

\* Every step of a handler's life preserves the invariant.
LEMMA DecoratedStep == Decorated /\ [DecoratedNext]_allVars => Decorated'
<1> SUFFICES ASSUME Decorated, [DecoratedNext]_allVars PROVE Decorated'
    OBVIOUS
<1>1. CASE Import
    BY <1>1, DecorateKeeps DEF Import, DecoratorNext
<1>2. CASE Deploy
  <2>1. /\ layers' = <<>> /\ visible' = Params /\ isAsync' \in BOOLEAN
        /\ metadata' = [bindings |-> <<>>, injections |-> <<>>]
      BY <1>2 DEF Deploy, Decorated, DecoratorTypeOK
  <2>2. DOMAIN layers' = {}
      BY <2>1
  <2>3. Described' = {}
      BY <2>1 DEF Described
  <2> QED
      BY <2>1, <2>2, <2>3
      DEF Decorated, DecoratorTypeOK, Partitioned, DescribedRightly
<1>3. CASE UNCHANGED decoratorVars
    BY <1>3
    DEF Decorated, DecoratorTypeOK, Partitioned, DescribedRightly, Described,
        Marks, decoratorVars
<1>4. [DecoratedNext]_allVars => Import \/ Deploy \/ UNCHANGED decoratorVars
    BY DEF DecoratedNext, allVars, Again, TickEnds, StartFetch, Fetched, BatchDone,
           StartRead, ReadDone, ReadCancelled, InputDone, OutputCalls, OutputDone,
           InjectCalls, InjectCloses, InjectClosed, UseClient, CloseClient,
           SetOutput, BodyEnds, Threads, Disposals
<1> QED
    BY <1>1, <1>2, <1>3, <1>4

\* The invariant says what the two properties ask for.
LEMMA DecoratedSuffices == Decorated => EveryArgumentOnce /\ ResolversServed
<1> SUFFICES ASSUME Decorated PROVE EveryArgumentOnce /\ ResolversServed
    OBVIOUS
<1>1. /\ Len(layers) \in Nat /\ DOMAIN layers = 1 .. Len(layers)
      /\ \A i \in DOMAIN layers : layers[i] \in Layers
      /\ visible \subseteq Params
    BY DEF Decorated, DecoratorTypeOK
<1>2. Passed(0) = Params
    BY <1>1 DEF Passed, Decorated, Partitioned, Layers
<1>3. ASSUME NEW i \in DOMAIN layers
      PROVE  /\ layers[i].gives \cap Passed(i) = {}
             /\ layers[i].needs \subseteq Passed(i)
  <2>1. layers[i].gives \cap Passed(i) = {}
      BY <1>1 DEF Passed, Decorated, Partitioned
  <2>2. ASSUME NEW p \in layers[i].needs PROVE p \in Passed(i)
    <3>1. p \in Params
        BY <1>1 DEF Layers
    <3>2. CASE p \in visible
        BY <3>2 DEF Passed
    <3>3. CASE p \notin visible
      <4>1. PICK j \in DOMAIN layers : p \in layers[j].gives
          BY <3>1, <3>3 DEF Decorated, Partitioned
      <4>2. ~(j <= i)
          BY <4>1 DEF Decorated, Partitioned
      <4>3. j \in i + 1 .. Len(layers)
          BY <1>1, <4>2
      <4> QED
          BY <4>1, <4>3 DEF Passed
    <3> QED
        BY <3>2, <3>3
  <2> QED
      BY <2>1, <2>2
<1> QED
    BY <1>2, <1>3
    DEF EveryArgumentOnce, ResolversServed, Decorated, DescribedRightly

\* The decorated handler keeps its invariant as long as it lives.
LEMMA DecoratedAlways == DecoratedSpec => []Decorated
<1>1. DecoratedInit => Decorated
    BY DecoratedInitially DEF DecoratedInit, DecoratorInit
<1> QED
    BY <1>1, DecoratedStep, PTL DEF DecoratedSpec

\* In whatever order the decorators of DbBindings are applied, the host's
\* signature and the layers' arguments make up the handler's parameters, each
\* once, and no parameter is left both undescribed and hidden.
THEOREM ArgumentsPassed == DecoratedSpec => []EveryArgumentOnce
<1>1. Decorated => EveryArgumentOnce
    BY DecoratedSuffices
<1> QED
    BY <1>1, DecoratedAlways, PTL

\* In whatever order the decorators are applied, every resolver of an input
\* finds its arguments when its layer runs: none is left to a layer inside.
THEOREM ResolversFed == DecoratedSpec => []ResolversServed
<1>1. Decorated => ResolversServed
    BY DecoratedSuffices
<1> QED
    BY <1>1, DecoratedAlways, PTL
=============================================================================
