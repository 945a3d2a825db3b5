------------------------------ MODULE AbiHost -------------------------------
(***************************************************************************)
(* The host's side of a loaded ABI plugin (crates/mutsuki-service-runtime/ *)
(* src/abi_plugin/connection.rs, connection/v1.rs, v2.rs, io.rs).  The     *)
(* handles the Core holds on the plugin share one connection.  Version 1   *)
(* calls the plugin under a mutex; version 2 puts frames into bounded      *)
(* queues, from which pools of threads call the plugin and send what it    *)
(* returns to the reader.  The connection and every thread own a part of   *)
(* the PluginLifetime, whose last owner closes the plugin and unloads its  *)
(* library.  The BinaryTransport between handles and queues is external:   *)
(* it pairs answers with requests, times out, and fails all of them when   *)
(* the reader meets an empty read.                                         *)
(***************************************************************************)
EXTENDS Naturals, Sequences

CONSTANTS
  AbiHandles,   \* runners and resource providers of the plugin
  QueueLimit,   \* capacity of the queue of a class of frames
  PoolSize,     \* threads of a class
  MaxRequests   \* bound: requests made

Classes == {"work", "management"}

ASSUME AbiAssumption ==
  /\ QueueLimit \in [Classes -> Nat \ {0}] /\ PoolSize \in [Classes -> Nat \ {0}]
  /\ MaxRequests \in Nat

Loader == "loader"    \* load_abi_plugin, which initializes the plugin

Holders == AbiHandles \cup {Loader}

CallbackWorkers == UNION {{<<c, i>> : i \in 1..PoolSize[c]} : c \in Classes}

NoFrame == 0              \* a thread without a frame; frames are numbered

Exited == MaxRequests + 1   \* a thread that has ended, or was never spawned

VARIABLES
  abVersion,   \* select_transport: "v1" or "v2"
  abPlugin,    \* "none", "entered", or "refused"
  abHandles,   \* who holds the connection
  abCaller,    \* the request of each holder
  abCount,     \* requests made
  abQueue,     \* the two queues
  abWorker,    \* what each thread does
  abResponses, \* what the plugin returned, for the reader
  abReader,    \* the transport's reader has not failed
  abClosed     \* calls of the plugin's close

abVars == <<abVersion, abPlugin, abHandles, abCaller, abCount, abQueue, abWorker,
            abResponses, abReader, abClosed>>

Frames == 1..MaxRequests

NoRequest == [pc |-> "idle", class |-> "work", frame |-> NoFrame]

AbiRequests == [pc : {"idle", "writing", "waiting", "calling", "ok", "failed"}, class : Classes,
                frame : Frames \cup {NoFrame}]

AbiTypeOK ==
  /\ abVersion \in {"v1", "v2"} /\ abPlugin \in {"none", "entered", "refused"}
  /\ abHandles \subseteq Holders
  /\ abCaller \in [Holders -> AbiRequests]
  /\ \A h \in Holders : abCaller[h].pc \in {"writing", "waiting", "calling"} =>
       h \in abHandles /\ abCaller[h].frame \in Frames
  /\ abCount \in 0..MaxRequests
  /\ abQueue \in [Classes -> Seq(Frames)] /\ \A c \in Classes : Len(abQueue[c]) <= QueueLimit[c]
  /\ abWorker \in [CallbackWorkers -> Frames \cup {NoFrame, Exited}]
  /\ abResponses \in Seq([frame : Frames, ok : BOOLEAN])
  /\ abReader \in BOOLEAN /\ abClosed \in Nat

AbiInit ==
  /\ abVersion \in {"v1", "v2"} /\ abPlugin = "none"
  /\ abHandles = {} /\ abCaller = [h \in Holders |-> NoRequest] /\ abCount = 0
  /\ abQueue = [c \in Classes |-> <<>>]
  /\ abWorker = [w \in CallbackWorkers |-> Exited]
  /\ abResponses = <<>> /\ abReader = TRUE /\ abClosed = 0

\* Mutant: the threads borrow the plugin from the connection.
Lifetime_ConnectionOnly == IF abHandles = {} THEN {} ELSE {<<"connection", 1>>}

\* Who keeps the PluginLifetime: the connection and, in version 2, every
\* thread.
Lifetime ==
  (IF abHandles = {} THEN {} ELSE {<<"connection", 1>>})
    \cup {w \in CallbackWorkers : abWorker[w] # Exited}

\* Drop of PluginLifetime or V1Connection: close, then the library goes.
DropLifetime == abClosed' = IF Lifetime # {} /\ Lifetime' = {} THEN abClosed + 1 ELSE abClosed

-----------------------------------------------------------------------------
\* open: an entry of another version or with a callback missing is refused,
\* and closed if it has a context and a close.
EntryRefused ==
  /\ abPlugin = "none" /\ abPlugin' = "refused" /\ abClosed' \in {0, 1}
  /\ UNCHANGED <<abVersion, abHandles, abCaller, abCount, abQueue, abWorker, abResponses, abReader>>

OpenV1 ==
  /\ abVersion = "v1" /\ abPlugin = "none"
  /\ abPlugin' = "entered" /\ abHandles' = {Loader}
  /\ UNCHANGED <<abVersion, abCaller, abCount, abQueue, abWorker, abResponses, abReader, abClosed>>

\* callback_io spawns the pools.  with_limits may fail after that: there is no
\* connection then, and the threads find the queues without a sender.
OpenV2 ==
  /\ abVersion = "v2" /\ abPlugin = "none"
  /\ abPlugin' = "entered" /\ abHandles' \in {{Loader}, {}}
  /\ abWorker' = [w \in CallbackWorkers |-> NoFrame]
  /\ UNCHANGED <<abVersion, abCaller, abCount, abQueue, abResponses, abReader, abClosed>>

Moves(h, pc) == abCaller' = [abCaller EXCEPT ![h].pc = pc]

\* What a request ends with matters to the loader only.
Outcome(h, result) == [NoRequest EXCEPT !.pc = IF h = Loader THEN result ELSE "idle"]

Concluded(h, result) == abCaller' = [abCaller EXCEPT ![h] = Outcome(h, result)]

\* The loader initializes the plugin with its only request.
AbiRequest(h, class) ==
  /\ h \in abHandles /\ abCaller[h].pc = "idle" /\ abCount < MaxRequests
  /\ abCount' = abCount + 1
  /\ abCaller' = [abCaller EXCEPT ![h] = [pc |-> "writing", class |-> class, frame |-> abCount + 1]]
  /\ UNCHANGED <<abVersion, abPlugin, abHandles, abQueue, abWorker, abResponses, abReader, abClosed>>

\* V1Connection::call: one call at a time, and its error is this caller's.
CallV1(h) ==
  /\ abVersion = "v1" /\ abCaller[h].pc = "writing"
  /\ \A g \in Holders : abCaller[g].pc # "calling"
  /\ Moves(h, "calling")
  /\ UNCHANGED <<abVersion, abPlugin, abHandles, abCount, abQueue, abWorker, abResponses, abReader, abClosed>>

ReturnV1(h) ==
  /\ abCaller[h].pc = "calling"
  /\ \E result \in {"ok", "failed"} : Concluded(h, result)
  /\ UNCHANGED <<abVersion, abPlugin, abHandles, abCount, abQueue, abWorker, abResponses, abReader, abClosed>>

\* CallbackWriter::flush: the frame goes to the queue of its class and blocks
\* while that is full; it fails once no thread of the class is left.
PoolGone(class) == \A w \in CallbackWorkers : w[1] = class => abWorker[w] = Exited

\* Mutant: an unbounded channel.
Flush_Unbounded(h) ==
  LET class == abCaller[h].class IN
  /\ abVersion = "v2" /\ abCaller[h].pc = "writing"
  /\ IF PoolGone(class) THEN Concluded(h, "failed") /\ UNCHANGED abQueue
     ELSE /\ abQueue' = [abQueue EXCEPT ![class] = Append(@, abCaller[h].frame)]
          /\ Moves(h, "waiting")
  /\ UNCHANGED <<abVersion, abPlugin, abHandles, abCount, abWorker, abResponses, abReader, abClosed>>

Flush(h) ==
  LET class == abCaller[h].class IN
  /\ abVersion = "v2" /\ abCaller[h].pc = "writing"
  /\ IF PoolGone(class) THEN Concluded(h, "failed") /\ UNCHANGED abQueue
     ELSE /\ Len(abQueue[class]) < QueueLimit[class]
          /\ abQueue' = [abQueue EXCEPT ![class] = Append(@, abCaller[h].frame)]
          /\ Moves(h, "waiting")
  /\ UNCHANGED <<abVersion, abPlugin, abHandles, abCount, abWorker, abResponses, abReader, abClosed>>

\* A thread of spawn_workers takes the next frame and calls the plugin.
TakeFrame(w) ==
  /\ abWorker[w] = NoFrame /\ abQueue[w[1]] # <<>>
  /\ abWorker' = [abWorker EXCEPT ![w] = Head(abQueue[w[1]])]
  /\ abQueue' = [abQueue EXCEPT ![w[1]] = Tail(@)]
  /\ UNCHANGED <<abVersion, abPlugin, abHandles, abCaller, abCount, abResponses, abReader, abClosed>>

\* invoke: a failed callback becomes an empty frame.  A thread that finds the
\* reader gone ends, and with it its part of the lifetime.
CallbackReturns(w) ==
  /\ abWorker[w] \in Frames
  /\ IF abReader
     THEN /\ \E ok \in BOOLEAN : abResponses' = Append(abResponses, [frame |-> abWorker[w], ok |-> ok])
          /\ abWorker' = [abWorker EXCEPT ![w] = NoFrame]
     ELSE abWorker' = [abWorker EXCEPT ![w] = Exited] /\ UNCHANGED abResponses
  /\ abQueue' = IF abWorker'[w] = Exited /\ \A v \in CallbackWorkers \ {w} : v[1] = w[1] => abWorker[v] = Exited
                THEN [abQueue EXCEPT ![w[1]] = <<>>] ELSE abQueue
  /\ UNCHANGED <<abVersion, abPlugin, abHandles, abCaller, abCount, abReader>>
  /\ DropLifetime

\* recv fails when the writer is gone and the queue is empty.
WorkerEnds(w) ==
  /\ abWorker[w] = NoFrame /\ abHandles = {} /\ abQueue[w[1]] = <<>>
  /\ abWorker' = [abWorker EXCEPT ![w] = Exited]
  /\ UNCHANGED <<abVersion, abPlugin, abHandles, abCaller, abCount, abQueue, abResponses, abReader>>
  /\ DropLifetime

\* CallbackReader and the transport's reader.  An answer nobody waits for is
\* thrown away; an empty frame reads as the end of the stream.
ReadResponse ==
  /\ abReader /\ abResponses # <<>>
  /\ LET r == Head(abResponses) IN
       /\ abReader' = r.ok
       /\ abResponses' = IF r.ok THEN Tail(abResponses) ELSE <<>>
       /\ abCaller' = [h \in Holders |->
            IF abCaller[h].pc = "waiting" /\ (~r.ok \/ abCaller[h].frame = r.frame)
            THEN Outcome(h, IF r.ok THEN "ok" ELSE "failed") ELSE abCaller[h]]
  /\ UNCHANGED <<abVersion, abPlugin, abHandles, abCount, abQueue, abWorker, abClosed>>

\* The timer of the transport, which runs while an answer is awaited.
AbiTimeout(h) ==
  /\ abCaller[h].pc = "waiting" /\ Concluded(h, "failed")
  /\ UNCHANGED <<abVersion, abPlugin, abHandles, abCount, abQueue, abWorker, abResponses, abReader, abClosed>>

\* The plugin is initialized: its runners and providers get the connection,
\* which goes at once when there are none.
ShareConnection ==
  /\ abHandles = {Loader} /\ abCaller[Loader].pc = "ok"
  /\ abHandles' = AbiHandles
  /\ UNCHANGED abWorker
  /\ UNCHANGED <<abVersion, abPlugin, abCaller, abCount, abQueue, abResponses, abReader>>
  /\ DropLifetime

\* A holder is dropped, by a failed load or with the Core it belongs to.
DropHandle(h) ==
  /\ h \in abHandles /\ abCaller[h].pc \in {"idle", "ok", "failed"}
  /\ h = Loader => abCaller[h].pc # "idle"
  /\ abHandles' = abHandles \ {h}
  /\ UNCHANGED abWorker
  /\ UNCHANGED <<abVersion, abPlugin, abCaller, abCount, abQueue, abResponses, abReader>>
  /\ DropLifetime

AbiNext ==
  \/ EntryRefused \/ OpenV1 \/ OpenV2 \/ ShareConnection \/ ReadResponse
  \/ \E h \in Holders :
       \/ \E class \in Classes : AbiRequest(h, class)
       \/ CallV1(h) \/ ReturnV1(h) \/ Flush(h) \/ AbiTimeout(h) \/ DropHandle(h)
  \/ \E w \in CallbackWorkers : TakeFrame(w) \/ CallbackReturns(w) \/ WorkerEnds(w)

AbiSpec == AbiInit /\ [][AbiNext]_abVars

-----------------------------------------------------------------------------
InCallback ==
  \/ \E w \in CallbackWorkers : abWorker[w] \in Frames
  \/ \E h \in Holders : abCaller[h].pc = "calling"

\* A plugin that was entered is closed once, when nobody can call it any more:
\* never while one of its callbacks runs or a frame for it is queued, and not
\* left open when the connection and all its threads are gone.
PluginClosedOnce ==
  abPlugin = "entered" =>
    /\ abClosed <= 1
    /\ abClosed = 1 => /\ ~InCallback /\ abHandles = {}
                       /\ \A c \in Classes : abQueue[c] = <<>>
    /\ abHandles = {} /\ (\A w \in CallbackWorkers : abWorker[w] = Exited) => abClosed = 1
=============================================================================
