---------------------------- MODULE DecoratedCall ----------------------------
(***************************************************************************)
(* A decorated handler and its invocations (decorator.py): the wrappers    *)
(* run from the outermost inwards, the handler's body uses what they give  *)
(* it, and on the way out they close what they made. The engines behind    *)
(* the bindings are those of LazyEngine, the layers those of Decorators.   *)
(*                                                                         *)
(* A synchronous handler and all its calls run in one thread. In a         *)
(* coroutine every call of a binding runs in a worker thread               *)
(* (asyncio.to_thread), and goes on if the coroutine is cancelled or does  *)
(* not wait for it; close() runs in the event loop.                        *)
(***************************************************************************)
EXTENDS Decorators, LazyEngine

CONSTANTS
    Main,           \* the thread of the handler or of the event loop
    Source,         \* the trigger's source, made at import time
    InputReader,    \* the reader that an input layer makes and closes
    Reader,         \* the reader that inject_reader makes
    Writer,         \* the writer that inject_writer makes
    OutWriters      \* writers that DbOut.set makes, one per call

ASSUME RolesAssumption ==
    /\ Main \in Actors /\ Closers = {Main}
    /\ Handles = {Source, InputReader, Reader, Writer} \cup OutWriters
    /\ SelfClosing = {InputReader} \cup OutWriters
    /\ {Source, Reader, Writer} \cap SelfClosing = {}
    /\ Source \notin {Reader, Writer} /\ Reader # Writer
    /\ InputReader \notin OutWriters

VARIABLES
    stack,          \* the kinds of the layers, once the handler is deployed
    call,           \* the layer that runs, what it is at, and if it fails
    disturbed       \* history: the injected clients of which two calls have
                    \* overlapped, or that were closed or left during a call

callVars == <<stack, call, disturbed>>
allVars == <<decoratorVars, engineVars, callVars>>

Phases == {"import", "enter", "wait", "leave", "over"}
Workers == Actors \ {Main}
Injected == {Reader, Writer}

CallInit ==
    /\ stack = <<>>
    /\ call = [phase |-> "import", at |-> 0, by |-> Main, failed |-> FALSE]
    /\ disturbed = {}

DecoratedInit == DecoratorInit /\ EngineInit /\ CallInit

-----------------------------------------------------------------------------
InCall(phase, kind) ==
    /\ call.phase = phase
    /\ call.at \in DOMAIN stack
    /\ stack[call.at] = kind
    /\ Idle(Main)

InBody == call.phase = "enter" /\ call.at = 0 /\ Idle(Main)

\* The layer calls what it wraps; it returns, or raises, to the one around it.
Inwards == call' = [call EXCEPT !.phase = "enter", !.at = @ - 1]
Outwards(failed) ==
    call' = [call EXCEPT !.phase = IF call.at < Len(stack) THEN "leave" ELSE "over",
                         !.at = @ + 1, !.failed = failed]
WaitFor(a) == call' = [call EXCEPT !.phase = "wait", !.by = a]

Enters(layer) ==
    [call EXCEPT !.phase = "enter", !.at = layer, !.failed = FALSE]

\* The threads in which a blocking call of a binding may run.
Runs(a) == IF isAsync THEN a \in Workers ELSE a = Main

Import ==
    /\ call.phase = "import"
    /\ DecoratorNext
    /\ UNCHANGED <<engineVars, callVars>>

\* Of the layers, calls need only the kinds; their names are forgotten here.
Deploy ==
    /\ call.phase = "import"
    /\ layers # <<>>
    /\ stack' = [i \in DOMAIN layers |-> layers[i].kind]
    /\ call' = Enters(Len(layers))
    /\ layers' = <<>> /\ visible' = Params
    /\ metadata' = [bindings |-> <<>>, injections |-> <<>>]
    /\ UNCHANGED <<isAsync, engineVars, disturbed>>

\* The next invocation. Bound: the threads of the last one have ended, and
\* it has disturbed no client.
Again ==
    /\ call.phase = "over"
    /\ disturbed = {}
    /\ \A a \in Actors : Idle(a)
    /\ call' = Enters(Len(stack))
    /\ UNCHANGED <<decoratorVars, engineVars, stack, disturbed>>

-----------------------------------------------------------------------------
(* trigger: PollTrigger.run. Its lease and its checkpoint are PollRunner's. *)

\* No lease, no more batches, or a LeaseAcquireError; or the store raises.
TickEnds ==
    /\ InCall("enter", "trigger")
    /\ \E failed \in BOOLEAN : Outwards(failed)
    /\ UNCHANGED <<decoratorVars, engineVars, stack, disturbed>>

\* Bound: a tick that has disturbed a client fetches no more.
StartFetch ==
    /\ InCall("enter", "trigger")
    /\ disturbed = {}
    /\ Begin(Main, Source)
    /\ WaitFor(Main)
    /\ UNCHANGED <<decoratorVars, stack, disturbed>>

\* A batch for the handler, or no rows; FetchError, or the normalizer raises.
Fetched ==
    /\ InCall("wait", "trigger")
    /\ (job[Main].ok /\ (Inwards \/ Outwards(FALSE))) \/ Outwards(TRUE)
    /\ UNCHANGED <<decoratorVars, engineVars, stack, disturbed>>

\* HandlerError; or the batch is committed and the loop goes on.
BatchDone ==
    /\ InCall("leave", "trigger")
    /\ IF call.failed THEN Outwards(TRUE)
       ELSE call' = Enters(call.at)
    /\ UNCHANGED <<decoratorVars, engineVars, stack, disturbed>>

-----------------------------------------------------------------------------
(* input: a reader of its own, for one read. *)

StartRead ==
    /\ InCall("enter", "input")
    /\ \E a \in Actors :
          /\ Runs(a)
          /\ Begin(a, InputReader)
          /\ WaitFor(a)
    /\ UNCHANGED <<decoratorVars, stack, disturbed>>

\* The data; or the read, NotFoundError, or the model's validation raises.
ReadDone ==
    /\ InCall("wait", "input")
    /\ Idle(call.by)
    /\ (job[call.by].ok /\ Inwards) \/ Outwards(TRUE)
    /\ UNCHANGED <<decoratorVars, engineVars, stack, disturbed>>

\* The coroutine is cancelled at its await; the worker goes on.
ReadCancelled ==
    /\ InCall("wait", "input")
    /\ isAsync
    /\ Outwards(TRUE)
    /\ UNCHANGED <<decoratorVars, engineVars, stack, disturbed>>

InputDone ==
    /\ InCall("leave", "input")
    /\ Outwards(call.failed)
    /\ UNCHANGED <<decoratorVars, engineVars, stack, disturbed>>

-----------------------------------------------------------------------------
(* output: the handler gets a DbOut, which makes a writer for every set(). *)

OutputCalls ==
    /\ InCall("enter", "output")
    /\ Inwards
    /\ UNCHANGED <<decoratorVars, engineVars, stack, disturbed>>

OutputDone ==
    /\ InCall("leave", "output")
    /\ Outwards(call.failed)
    /\ UNCHANGED <<decoratorVars, engineVars, stack, disturbed>>

-----------------------------------------------------------------------------
(* inject_reader, inject_writer: a client of the invocation's own. *)

Client(kind) == IF kind = "inject_reader" THEN Reader ELSE Writer

InjectCalls(kind) ==
    /\ InCall("enter", kind)
    /\ Inwards
    /\ UNCHANGED <<decoratorVars, engineVars, stack, disturbed>>

\* Mutant: the client is closed only if the handler has returned.
InjectClosesOnReturn(kind) ==
    /\ InCall("leave", kind)
    /\ \/ ~call.failed /\ CloseEngine(Main, Client(kind)) /\ WaitFor(Main)
       \/ /\ engine[Client(kind)] = NoEngine \/ call.failed
          /\ Outwards(call.failed)
          /\ UNCHANGED engineVars
    /\ UNCHANGED <<decoratorVars, stack, disturbed>>

\* The finally clause: close(), which does nothing without an engine. The
\* client is dropped after it, whatever close() has left in its fields.
InjectCloses(kind) ==
    /\ InCall("leave", kind)
    /\ \/ CloseEngine(Main, Client(kind)) /\ WaitFor(Main)
       \/ /\ engine[Client(kind)] = NoEngine
          /\ Outwards(call.failed)
          /\ UNCHANGED engineVars
    /\ UNCHANGED <<decoratorVars, stack, disturbed>>

\* Disposing an engine of the client's own may have raised.
InjectClosed(kind) ==
    /\ InCall("wait", kind)
    /\ \/ Outwards(call.failed)
       \/ Client(kind) \notin Provided /\ Outwards(TRUE)
    /\ UNCHANGED <<decoratorVars, engineVars, stack, disturbed>>

-----------------------------------------------------------------------------
(* The handler. *)

Busy(h) == \E a \in Actors : job[a].on = h
\* The clients hs that are in a call are disturbed.
Disturbs(hs) == disturbed' = disturbed \cup {h \in hs : Busy(h)}
Has(kind) == \E i \in DOMAIN stack : stack[i] = kind

\* A call of an injected client, waited for or not.
UseClient(kind) ==
    /\ InBody
    /\ Has(kind)
    /\ \E a \in Actors : Runs(a) /\ Begin(a, Client(kind))
    /\ Disturbs({Client(kind)})
    /\ UNCHANGED <<decoratorVars, stack, call>>

\* The handler may close its client early, and use it again.
CloseClient(kind) ==
    /\ InBody
    /\ Has(kind)
    /\ Close(Main, Client(kind))
    /\ Disturbs({Client(kind)})
    /\ UNCHANGED <<decoratorVars, stack, call>>

\* DbOut.set: a new writer each time.
SetOutput ==
    /\ InBody
    /\ Has("output")
    /\ \E a \in Actors, h \in OutWriters :
          /\ ~Busy(h)
          /\ Runs(a) /\ Begin(a, h)
    /\ UNCHANGED <<decoratorVars, callVars>>

\* It returns or raises, or its coroutine is cancelled.
BodyEnds ==
    /\ InBody
    /\ \E failed \in BOOLEAN : Outwards(failed)
    /\ Disturbs(Injected)
    /\ UNCHANGED <<decoratorVars, engineVars, stack>>

-----------------------------------------------------------------------------
Threads ==
    /\ \E a \in Actors, h \in Handles : Continue(a, h)
    /\ UNCHANGED <<decoratorVars, callVars>>

\* Bound: one dispose_all as long as an engine that it has dropped is known.
Disposals ==
    /\ forgotten = {} \/ doomed # {}
    /\ Disposal
    /\ UNCHANGED <<decoratorVars, callVars>>

Clients == {"inject_reader", "inject_writer"}

DecoratedNext ==
    \/ Import \/ Deploy \/ Again
    \/ TickEnds \/ StartFetch \/ Fetched \/ BatchDone
    \/ StartRead \/ ReadDone \/ ReadCancelled \/ InputDone
    \/ OutputCalls \/ OutputDone
    \/ \E kind \in Clients :
          \/ InjectCalls(kind) \/ InjectCloses(kind) \/ InjectClosed(kind)
          \/ UseClient(kind) \/ CloseClient(kind)
    \/ SetOutput \/ BodyEnds
    \/ Threads \/ Disposals

DecoratedSpec == DecoratedInit /\ [][DecoratedNext]_allVars

-----------------------------------------------------------------------------
(* Properties. *)

\* The type invariant of an invocation.
DecoratedTypeOK ==
    /\ DecoratorTypeOK
    /\ EngineTypeOK
    /\ stack \in Seq(Kinds)
    /\ call \in [phase : Phases, at : 0 .. Len(stack) + 1,
                 by : Actors, failed : BOOLEAN]
    /\ disturbed \subseteq Injected

\* The engines that live on between invocations: those the provider has made,
\* and the source's.
Lasting == {cached[u] : u \in Urls} \cup doomed \cup forgotten \cup {engine[Source]}

\* An invocation leaves no pool of its own open, however it ends: by a return,
\* an exception of any layer, of the handler or of a close(), or a cancellation
\* while calls go on in their threads. Excepted is an invocation that has
\* disturbed an injected client with an engine of its own: the code loses that
\* engine if the thread of a cancelled call opens it after the close(), or if
\* two first calls each create one. A client with a provider may be disturbed.
NothingLeaks ==
    call.phase = "over" /\ (\A a \in Actors : Idle(a)) /\ disturbed \subseteq Provided
        => open \subseteq Lasting

\* No binding gets stuck that counts as initialised and has not what its calls
\* assert, but injected clients that have been disturbed, which their
\* invocation drops.
BindingsUsable ==
    \A h \in initialized \ disturbed :
        engine[h] # NoEngine /\ (h \in Tabled => h \in reflected)
=============================================================================
