------------------------------- MODULE RpcPerf -------------------------------
(***************************************************************************)
(* One execution of BM_Rpc (fleetbench/rpc/rpcperf_benchmark.cc): a server *)
(* (grpc_server.cc), a client that keeps a number of streams of calls in   *)
(* flight (grpc_client.cc), and their shutdown (rpcperf.cc, Wait).         *)
(*                                                                         *)
(* The main thread starts the streams and then waits for all of them.  A   *)
(* stream goes on in the callback of its last call, on a thread of gRPC,   *)
(* as long as the benchmark keeps running.  The callbacks use the client,  *)
(* which the main thread destroys when its Wait has returned.              *)
(***************************************************************************)
EXTENDS Integers, FiniteSets

CONSTANTS
  NumStreams,  \* max_outstanding_rpcs * the number of stubs
  Iterations,  \* how often state.KeepRunning() returns true
  MayFail,     \* may a call end with an error status?
  CountLimit   \* 2^64, the range of inflight_rpcs_count_

ASSUME RpcAssumption ==
  /\ NumStreams \in Nat /\ Iterations \in Nat
  /\ MayFail \in BOOLEAN
  /\ CountLimit \in Nat /\ NumStreams < CountLimit

Streams == 1 .. NumStreams

VARIABLES
  main,      \* where BM_Rpc, the constructor and Wait are
  next,      \* the stream the constructor is about to start
  granted,   \* how often KeepRunning() has returned true
  mutex,     \* does the constructor hold inflight_rpcs_mtx_?
  count,     \* inflight_rpcs_count_
  stream,    \* where each stream is
  context,   \* the streams whose GRPCClientRPC exists
  handlers,  \* the handlers that have finished their call and not returned
  server,    \* the grpc::Server: "up", "closing" or "down"
  calls      \* history: the callbacks that have run, those of them with an
             \* error, and the handlers that have returned

vars == <<main, next, granted, mutex, count, stream, context, handlers, server,
          calls>>

(***************************************************************************)
(* calls is what the RPCCounters of the client and of the server count     *)
(* (client_queries_, client_errors_, server_queries_) where there are any. *)
(* Client and server test for them (grpc_client.cc:61, grpc_server.cc:60), *)
(* BM_Rpc has none, and nothing else depends on them.                      *)
(***************************************************************************)

(***************************************************************************)
(* A stream: "idle" before its first call; "sent" and "handling" while a   *)
(* call is out; "ok" or "error" when its callback is due; "asking" in the  *)
(* callback before keep_running_(), "marking" when that was false; "done". *)
(***************************************************************************)
StreamStates ==
  {"idle", "sent", "handling", "ok", "error", "asking", "marking", "done"}

TypeOK ==
  /\ main \in {"ask", "lock", "send", "count", "wait", "shutdown", "join", "done"}
  /\ next \in 1 .. NumStreams + 1
  /\ granted \in 0 .. Iterations
  /\ mutex \in BOOLEAN
  /\ count \in 0 .. CountLimit - 1
  /\ stream \in [Streams -> StreamStates]
  /\ context \in SUBSET Streams
  /\ handlers \in Nat
  /\ server \in {"up", "closing", "down"}
  /\ calls \in [client : Nat, errors : Nat, server : Nat]

Init ==
  /\ main = "ask" /\ next = 1 /\ granted = 0
  /\ mutex = FALSE /\ count = 0
  /\ stream = [s \in Streams |-> "idle"]
  /\ context = {} /\ handlers = 0
  /\ server = "up"
  /\ calls = [client |-> 0, errors |-> 0, server |-> 0]

-----------------------------------------------------------------------------
(***************************************************************************)
(* keep_running_(), which a mutex makes one step: true Iterations times.   *)
(***************************************************************************)
KeepRunning ==
  /\ granted < Iterations
  /\ granted' = granted + 1

StopRunning ==
  /\ granted = Iterations
  /\ UNCHANGED granted

SendOneRPC(s) ==
  /\ stream' = [stream EXCEPT ![s] = "sent"]
  /\ context' = context \cup {s}

(***************************************************************************)
(* The constructor: for each stream, ask; then, under the mutex, send the  *)
(* first call and count the stream.                                        *)
(***************************************************************************)
Ask ==
  /\ main = "ask" /\ next <= NumStreams
  /\ \/ KeepRunning /\ main' = "lock" /\ UNCHANGED next
     \/ StopRunning /\ next' = next + 1 /\ UNCHANGED main
  /\ UNCHANGED <<mutex, count, stream, context, handlers, server, calls>>

\* Mutant: the constructor does not take the mutex.
LockMissing ==
  /\ main = "lock"
  /\ main' = "send"
  /\ UNCHANGED <<next, granted, mutex, count, stream, context, handlers,
                 server, calls>>

Lock ==
  /\ main = "lock" /\ ~mutex
  /\ mutex' = TRUE
  /\ main' = "send"
  /\ UNCHANGED <<next, granted, count, stream, context, handlers, server, calls>>

Send ==
  /\ main = "send"
  /\ SendOneRPC(next)
  /\ main' = "count"
  /\ UNCHANGED <<next, granted, mutex, count, handlers, server, calls>>

Count ==
  /\ main = "count"
  /\ count' = (count + 1) % CountLimit
  /\ mutex' = FALSE
  /\ next' = next + 1
  /\ main' = "ask"
  /\ UNCHANGED <<granted, stream, context, handlers, server, calls>>

StartWait ==
  /\ main = "ask" /\ next > NumStreams
  /\ main' = "wait"
  /\ UNCHANGED <<next, granted, mutex, count, stream, context, handlers,
                 server, calls>>

(***************************************************************************)
(* GRPCClient::Wait, GRPCServer::Shutdown, GRPCServer::Wait, and the end   *)
(* of both objects.                                                        *)
(***************************************************************************)
\* Mutant: the benchmark does not wait for the streams.
WaitMissing ==
  /\ main = "wait"
  /\ main' = "shutdown"
  /\ UNCHANGED <<next, granted, mutex, count, stream, context, handlers,
                 server, calls>>

ClientWait ==
  /\ main = "wait" /\ ~mutex /\ count = 0
  /\ main' = "shutdown"
  /\ UNCHANGED <<next, granted, mutex, count, stream, context, handlers,
                 server, calls>>

Shutdown ==
  /\ main = "shutdown"
  /\ server' = "closing"
  /\ main' = "join"
  /\ UNCHANGED <<next, granted, mutex, count, stream, context, handlers, calls>>

\* Mutant: the server is destroyed while handlers run.
ServerWaitMissing ==
  /\ main = "join"
  /\ server' = "down"
  /\ main' = "done"
  /\ UNCHANGED <<next, granted, mutex, count, stream, context, handlers, calls>>

ServerWait ==
  /\ main = "join" /\ handlers = 0
  /\ \A s \in Streams : stream[s] # "handling"
  /\ server' = "down"
  /\ main' = "done"
  /\ UNCHANGED <<next, granted, mutex, count, stream, context, handlers, calls>>

-----------------------------------------------------------------------------
(***************************************************************************)
(* gRPC and the server: a call reaches its handler, which finishes it and  *)
(* then returns, when the client may already have the answer.  A call      *)
(* may also end with an error before or during its handler, and it does    *)
(* once the server is closing.                                             *)
(***************************************************************************)
Message(s) ==
  /\ stream[s] = "sent" /\ server = "up"
  /\ stream' = [stream EXCEPT ![s] = "handling"]
  /\ UNCHANGED <<main, next, granted, mutex, count, context, handlers, server,
                 calls>>

Finish(s) ==
  /\ stream[s] = "handling"
  /\ stream' = [stream EXCEPT ![s] = "ok"]
  /\ handlers' = handlers + 1
  /\ UNCHANGED <<main, next, granted, mutex, count, context, server, calls>>

HandlerReturns ==
  /\ handlers > 0
  /\ handlers' = handlers - 1
  /\ calls' = [calls EXCEPT !.server = @ + 1]
  /\ UNCHANGED <<main, next, granted, mutex, count, stream, context, server>>

Fail(s) ==
  /\ MayFail \/ server # "up"
  /\ \/ stream[s] = "sent" /\ UNCHANGED handlers
     \/ stream[s] = "handling" /\ handlers' = handlers + 1
  /\ stream' = [stream EXCEPT ![s] = "error"]
  /\ UNCHANGED <<main, next, granted, mutex, count, context, server, calls>>

(***************************************************************************)
(* The callback of a call: delete its context, and ask whether to send     *)
(* another; if not, the stream is no longer in flight.                     *)
(***************************************************************************)
Callback(s) ==
  /\ stream[s] \in {"ok", "error"}
  /\ calls' = [calls EXCEPT !.client = @ + 1,
                            !.errors = IF stream[s] = "ok" THEN @ ELSE @ + 1]
  /\ context' = context \ {s}
  /\ stream' = [stream EXCEPT ![s] = "asking"]
  /\ UNCHANGED <<main, next, granted, mutex, count, handlers, server>>

Continue(s) ==
  /\ stream[s] = "asking"
  /\ \/ KeepRunning /\ SendOneRPC(s)
     \/ /\ StopRunning
        /\ stream' = [stream EXCEPT ![s] = "marking"]
        /\ UNCHANGED context
  /\ UNCHANGED <<main, next, mutex, count, handlers, server, calls>>

\* Mutant: a stream that stops is not counted down.
MarkForgotten(s) ==
  /\ stream[s] = "marking" /\ ~mutex
  /\ stream' = [stream EXCEPT ![s] = "done"]
  /\ UNCHANGED <<main, next, granted, mutex, count, context, handlers, server,
                 calls>>

MarkRPCStreamDone(s) ==
  /\ stream[s] = "marking" /\ ~mutex
  /\ count' = (count - 1) % CountLimit
  /\ stream' = [stream EXCEPT ![s] = "done"]
  /\ UNCHANGED <<main, next, granted, mutex, context, handlers, server, calls>>

Finished == main = "done" /\ UNCHANGED vars

-----------------------------------------------------------------------------
Main == Ask \/ Lock \/ Send \/ Count \/ StartWait \/ ClientWait \/ Shutdown \/ ServerWait

Server(s) == Message(s) \/ Finish(s) \/ Fail(s)
Client(s) == Callback(s) \/ Continue(s) \/ MarkRPCStreamDone(s)

Next ==
  \/ Main
  \/ \E s \in Streams : Server(s) \/ Client(s)
  \/ HandlerReturns
  \/ Finished

Spec == Init /\ [][Next]_vars

(***************************************************************************)
(* Fairness: the main thread and the threads of gRPC are scheduled, and a  *)
(* call is answered or fails.                                              *)
(***************************************************************************)
FairSpec ==
  /\ Spec
  /\ WF_vars(Main) /\ WF_vars(HandlerReturns)
  /\ \A s \in Streams : WF_vars(Server(s)) /\ WF_vars(Client(s))

-----------------------------------------------------------------------------
InFlight == {s \in Streams : stream[s] \notin {"idle", "done"}}

(***************************************************************************)
(* inflight_rpcs_count_ is the number of streams in flight whenever the    *)
(* constructor does not hold the mutex, although a stream is sent before   *)
(* it is counted and its callbacks may already have ended it; so it never  *)
(* wraps below zero.                                                       *)
(***************************************************************************)
CountsStreams == ~mutex => count = Cardinality(InFlight)

(***************************************************************************)
(* Once GRPCClient::Wait has returned no stream is in flight and no call   *)
(* has a context (grpc_client.h:79), and none will start again: the client *)
(* can be destroyed.                                                       *)
(***************************************************************************)
QuietAfterWait ==
  main \in {"shutdown", "join", "done"} => InFlight = {} /\ context = {}

(***************************************************************************)
(* At the end every iteration of the benchmark was one call whose callback *)
(* has run, and the handler of every call that did not fail has returned,  *)
(* even if it was still running when the client had the answer.            *)
(***************************************************************************)
EveryIterationAnswered ==
  main = "done" =>
    /\ NumStreams > 0 => granted = Iterations
    /\ calls.client = granted
    /\ calls.server \in granted - calls.errors .. granted

(***************************************************************************)
(* BM_Rpc ends.                                                            *)
(***************************************************************************)
Termination == <>(main = "done")
=============================================================================
