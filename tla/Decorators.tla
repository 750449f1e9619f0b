------------------------------ MODULE Decorators ------------------------------
(***************************************************************************)
(* DbBindings (decorator.py) at import time: a handler is wrapped in       *)
(* layers, each of which gives it some of its parameters at every call.    *)
(* A layer hides what it gives from the signature, so that the next one,   *)
(* and in the end the Functions host, sees only what is still missing. A   *)
(* rejected decorator raises ConfigurationError and changes nothing.       *)
(***************************************************************************)
EXTENDS Integers, Sequences

CONSTANTS
    Params,         \* the handler's parameters
    Reserved,       \* those with a name in _RESERVED_ARGS
    Context         \* the name "context"

ASSUME ParamsAssumption == Reserved \subseteq Params /\ Context \in Reserved

Kinds == {"trigger", "input", "output", "inject_reader", "inject_writer"}

VARIABLES
    isAsync,        \* the handler is a coroutine function
    layers,         \* the decorators applied so far, innermost first
    visible,        \* __signature__ of the outermost wrapper
    metadata        \* what _azure_functions_metadata says is injected

decoratorVars == <<isAsync, layers, visible, metadata>>

Layers == [kind : Kinds, gives : SUBSET Params, needs : SUBSET Params]

DecoratorInit ==
    /\ isAsync \in BOOLEAN
    /\ layers = <<>>
    /\ visible = Params
    /\ metadata = [bindings |-> <<>>, injections |-> <<>>]

-----------------------------------------------------------------------------
Marks == {layers[i].kind : i \in DOMAIN layers}

\* What a handler that carries this decorator can no longer get.
Excludes(kind) ==
    {kind} \cup
    (CASE kind = "input" -> {"inject_reader"}
       [] kind = "inject_reader" -> {"input"}
       [] kind = "output" -> {"inject_writer"}
       [] kind = "inject_writer" -> {"output"}
       [] OTHER -> {})

CheckComposition(kind) == Excludes(kind) \cap Marks = {}

ValidArg(arg) == arg \in visible \ Reserved

\* Mutant: the parameters of the innermost function (follow_wrapped).
ValidResolverUnwrapped(needs, arg) == needs \subseteq Params \ {arg}

ValidResolver(needs, arg) == needs \subseteq visible \ {arg}

Gives(kind, arg) ==
    {arg} \cup (IF kind = "trigger" THEN {Context} \cap visible ELSE {})

\* Mutant: built from the innermost function (follow_wrapped).
HostSignatureUnwrapped(given) == Params \ given

HostSignature(given) == visible \ given

MergeMetadata(kind, arg) ==
    IF kind \in {"trigger", "input", "output"}
    THEN [metadata EXCEPT !.bindings = Append(@, arg)]
    ELSE [metadata EXCEPT !.injections = Append(@, arg)]

Decorate(kind, arg, needs) ==
    /\ CheckComposition(kind)
    /\ ValidArg(arg)
    /\ kind = "trigger" => ~isAsync
    /\ IF kind = "input" THEN ValidResolver(needs, arg) ELSE needs = {}
    /\ layers' = Append(layers,
                    [kind |-> kind, gives |-> Gives(kind, arg), needs |-> needs])
    /\ visible' = HostSignature(Gives(kind, arg))
    /\ metadata' = MergeMetadata(kind, arg)
    /\ UNCHANGED isAsync

DecoratorNext ==
    \E kind \in Kinds, arg \in Params, needs \in SUBSET Params :
        Decorate(kind, arg, needs)

-----------------------------------------------------------------------------
(* What reaches whom at a call. *)

\* The arguments that layer i is called with: the host's, and what the layers
\* around it add. Layer 0 is the handler.
Passed(i) == visible \cup UNION {layers[j].gives : j \in i + 1 .. Len(layers)}

Described == {metadata.bindings[i] : i \in DOMAIN metadata.bindings} \cup
             {metadata.injections[i] : i \in DOMAIN metadata.injections}

\* The type invariant of a decorated handler.
DecoratorTypeOK ==
    /\ isAsync \in BOOLEAN
    /\ layers \in Seq(Layers)
    /\ visible \subseteq Params
    /\ metadata \in [bindings : Seq(Params), injections : Seq(Params)]

\* In whatever order the decorators are applied, every parameter of the
\* handler is passed exactly once, by the host or by one layer; and the
\* metadata and the host's signature leave out none but the context.
EveryArgumentOnce ==
    /\ Passed(0) = Params
    /\ \A i \in DOMAIN layers : layers[i].gives \cap Passed(i) = {}
    /\ Described \cap visible = {}
    /\ Params \ (Described \cup visible) \subseteq
           IF "trigger" \in Marks THEN {Context} ELSE {}

\* When an input layer runs, every argument that its resolver names is there:
\* none is left to a layer that only runs later, inside it.
ResolversServed == \A i \in DOMAIN layers : layers[i].needs \subseteq Passed(i)
=============================================================================
