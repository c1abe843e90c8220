--------------------------- MODULE RpcPerfProofs ---------------------------
(***************************************************************************)
(* Proofs about RpcPerf, for every number of streams and iterations.       *)
(***************************************************************************)
EXTENDS RpcPerf, FiniteSetTheorems, TLAPS

(***************************************************************************)
(* The streams that have been counted: not yet the one that the            *)
(* constructor has sent and is about to count.                             *)
(***************************************************************************)
Counted == {s \in InFlight : ~(main = "count" /\ s = next)}

(***************************************************************************)
(* The constructor starts the streams in order and holds the mutex from    *)
(* before it sends until it has counted; in between the stream it sent     *)
(* cannot end, because to be done it has to take the mutex.                *)
(***************************************************************************)
Starting ==
  /\ mutex <=> main \in {"send", "count"}
  /\ main \in {"lock", "send", "count"} => next \in Streams
  /\ \A s \in Streams : s > next => stream[s] = "idle"
  /\ next \in Streams => (stream[next] = "idle" <=> main # "count")
  /\ next \in Streams /\ main = "count" => stream[next] # "done"

(***************************************************************************)
(* The streams with a call out: those whose GRPCClientRPC exists.          *)
(***************************************************************************)
Calling == {s \in Streams : stream[s] \in {"sent", "handling", "ok", "error"}}

(***************************************************************************)
(* The inductive invariant.                                                *)
(***************************************************************************)
IndInv ==
  /\ TypeOK
  /\ Starting
  /\ count = Cardinality(Counted)
  /\ context = Calling
  /\ QuietAfterWait

LEMMA StreamsFinite ==
  /\ IsFiniteSet(Streams) /\ Cardinality(Streams) = NumStreams
BY FS_Interval, RpcAssumption DEF Streams

(***************************************************************************)
(* A count of streams is below the limit of the counter.                   *)
(***************************************************************************)
LEMMA CountInRange ==
  ASSUME NEW S \in SUBSET Streams
  PROVE  /\ IsFiniteSet(S) /\ Cardinality(S) \in Nat
         /\ Cardinality(S) < CountLimit
<1>1. IsFiniteSet(S) /\ Cardinality(S) <= Cardinality(Streams)
  BY StreamsFinite, FS_Subset
<1>2. Cardinality(S) \in Nat
  BY <1>1, FS_CardinalityType
<1> QED BY <1>1, <1>2, StreamsFinite, RpcAssumption

LEMMA InitInv == Init => IndInv
<1> SUFFICES ASSUME Init PROVE IndInv
  OBVIOUS
<1>1. TypeOK
  <2>1. stream \in [Streams -> StreamStates]
    BY DEF Init, StreamStates
  <2>2. /\ next \in 1 .. NumStreams + 1 /\ count \in 0 .. CountLimit - 1
        /\ granted \in 0 .. Iterations
    BY RpcAssumption DEF Init
  <2>3. calls \in [client : Nat, errors : Nat, server : Nat]
    BY DEF Init
  <2> QED BY <2>1, <2>2, <2>3 DEF Init, TypeOK
<1>2. InFlight = {} /\ Counted = {} /\ Calling = {}
  BY DEF Init, InFlight, Counted, Calling
<1>3. Cardinality(Counted) = 0
  BY <1>2, FS_EmptySet
<1> QED
  BY <1>1, <1>2, <1>3, RpcAssumption DEF IndInv, Starting, QuietAfterWait, Init, Streams

-----------------------------------------------------------------------------
(***************************************************************************)
(* The steps of the main thread that start no stream and count none.       *)
(***************************************************************************)
LEMMA MainQuietStep ==
  ASSUME IndInv, Ask \/ Lock \/ StartWait \/ ClientWait \/ Shutdown \/ ServerWait
  PROVE  IndInv'
<1> USE RpcAssumption DEF IndInv
<1>1. UNCHANGED <<stream, context, count>> /\ main # "count" /\ main' # "count"
  BY DEF Ask, Lock, StartWait, ClientWait, Shutdown, ServerWait
<1>2. /\ InFlight' = InFlight /\ Counted' = Counted /\ Counted = InFlight
      /\ Calling' = Calling
  BY <1>1 DEF InFlight, Counted, Calling
<1>3. TypeOK'
  <2>1. CASE Ask
    <3>1. granted' \in 0 .. Iterations /\ next' \in 1 .. NumStreams + 1
      BY <2>1 DEF TypeOK, Ask, KeepRunning, StopRunning
    <3> QED BY <2>1, <3>1 DEF TypeOK, Ask
  <2>2. CASE Lock \/ StartWait
    BY <2>2 DEF TypeOK, Lock, StartWait
  <2>3. CASE ClientWait \/ Shutdown \/ ServerWait
    BY <2>3 DEF TypeOK, ClientWait, Shutdown, ServerWait
  <2> QED BY <2>1, <2>2, <2>3
<1>4. Starting'
  <2>1. CASE Ask
    BY <2>1, <1>1 DEF Ask, Starting, TypeOK, Streams
  <2>2. CASE Lock
    BY <2>2 DEF Lock, Starting, TypeOK, Streams
  <2>3. CASE StartWait \/ ClientWait \/ Shutdown \/ ServerWait
    BY <2>3 DEF StartWait, ClientWait, Shutdown, ServerWait, Starting, TypeOK
  <2> QED BY <2>1, <2>2, <2>3
<1>5. QuietAfterWait'
  <2>1. CASE ClientWait
    <3>1. Cardinality(Counted) = 0
      BY <2>1 DEF ClientWait
    <3>2. IsFiniteSet(Counted)
      BY CountInRange DEF Counted, InFlight
    <3>3. InFlight = {}
      BY <1>2, <3>1, <3>2, FS_EmptySet
    <3>4. context = {}
      BY <3>3 DEF Calling, InFlight
    <3> QED BY <1>1, <1>2, <3>3, <3>4 DEF QuietAfterWait
  <2>2. CASE Ask \/ Lock \/ StartWait \/ Shutdown \/ ServerWait
    BY <1>1, <1>2, <2>2 DEF QuietAfterWait, Ask, Lock, StartWait, Shutdown, ServerWait
  <2> QED BY <2>1, <2>2
<1> QED BY <1>1, <1>2, <1>3, <1>4, <1>5

(***************************************************************************)
(* The constructor sends the first call of a stream: it is in flight and   *)
(* not yet counted.                                                        *)
(***************************************************************************)
LEMMA SendStep ==
  ASSUME IndInv, Send
  PROVE  IndInv'
<1> USE RpcAssumption DEF IndInv, Send, SendOneRPC
<1>1. next \in Streams /\ stream[next] = "idle" /\ stream'[next] = "sent"
  BY DEF Starting, TypeOK
<1>2. \A s \in Streams : s # next => stream'[s] = stream[s]
  BY DEF TypeOK
<1>3. InFlight' = InFlight \cup {next} /\ next \notin InFlight
  BY <1>1, <1>2 DEF InFlight
<1>4. Counted' = InFlight /\ Counted = InFlight
  BY <1>3 DEF Counted
<1>5. TypeOK'
  BY <1>1 DEF TypeOK, StreamStates
<1>6. Starting'
  BY <1>1, <1>2 DEF Starting, TypeOK, Streams
<1>7. context' = Calling' /\ QuietAfterWait'
  BY <1>1, <1>2 DEF QuietAfterWait, Calling
<1> QED BY <1>4, <1>5, <1>6, <1>7

(***************************************************************************)
(* It counts the stream.                                                   *)
(***************************************************************************)
LEMMA CountStep ==
  ASSUME IndInv, Count
  PROVE  IndInv'
<1> USE RpcAssumption DEF IndInv, Count
<1>1. next \in InFlight /\ InFlight' = InFlight
  BY DEF Starting, InFlight
<1>2. Counted' = Counted \cup {next} /\ next \notin Counted
  BY <1>1 DEF Counted
<1>3. /\ Counted \in SUBSET Streams /\ Counted' \in SUBSET Streams
  BY <1>1 DEF Counted, InFlight
<1>4. /\ IsFiniteSet(Counted)
      /\ Cardinality(Counted) \in Nat /\ Cardinality(Counted') < CountLimit
  BY <1>2, <1>3, CountInRange
<1>5. Cardinality(Counted') = Cardinality(Counted) + 1
  BY <1>2, <1>4, FS_AddElement
<1>6. count' = Cardinality(Counted')
  BY <1>4, <1>5
<1>7. TypeOK'
  <2>1. count' \in 0 .. CountLimit - 1
    BY <1>4, <1>5, <1>6
  <2>2. next' \in 1 .. NumStreams + 1
    BY DEF TypeOK, Starting, Streams
  <2> QED BY <2>1, <2>2 DEF TypeOK
<1>8. Starting'
  BY DEF Starting, TypeOK, Streams
<1> QED BY <1>1, <1>6, <1>7, <1>8 DEF QuietAfterWait, Calling

-----------------------------------------------------------------------------
(***************************************************************************)
(* The steps of gRPC, of a handler and of a callback but its last.         *)
(***************************************************************************)
LEMMA StreamQuietStep ==
  ASSUME IndInv, NEW s \in Streams, Server(s) \/ Callback(s) \/ Continue(s)
  PROVE  IndInv'
<1> USE RpcAssumption DEF IndInv
<1>1. /\ s \in InFlight
      /\ stream'[s] \notin {"idle", "done"} /\ stream'[s] \in StreamStates
      /\ stream' = [stream EXCEPT ![s] = stream'[s]]
      /\ UNCHANGED <<main, next, mutex, count, server>>
  BY DEF Server, Message, Finish, Fail, Callback, Continue, SendOneRPC, InFlight,
     TypeOK, StreamStates
<1>2. InFlight' = InFlight /\ Counted' = Counted
  BY <1>1 DEF InFlight, Counted, TypeOK
<1>3. context' = Calling'
  <2>1. CASE Server(s)
    BY <1>1, <2>1 DEF Server, Message, Finish, Fail, Calling, TypeOK
  <2>2. CASE Callback(s)
    BY <1>1, <2>2 DEF Callback, Calling, TypeOK
  <2>3. CASE Continue(s)
    BY <1>1, <2>3 DEF Continue, SendOneRPC, Calling, TypeOK
  <2> QED BY <2>1, <2>2, <2>3
<1>4. handlers' \in Nat /\ granted' \in 0 .. Iterations
  BY DEF TypeOK, Server, Message, Finish, Fail, Callback, Continue, KeepRunning, StopRunning
<1>5. calls' \in [client : Nat, errors : Nat, server : Nat]
  <2>1. CASE Callback(s)
    <3> DEFINE e == IF stream[s] = "ok" THEN calls.errors ELSE calls.errors + 1
    <3>1. e \in Nat /\ calls.client + 1 \in Nat
      BY DEF TypeOK
    <3>2. calls' = [calls EXCEPT !.client = calls.client + 1, !.errors = e]
      BY <2>1 DEF Callback
    <3>3. calls \in [client : Nat, errors : Nat, server : Nat]
      BY DEF TypeOK
    <3> HIDE DEF e
    <3> QED BY ONLY <3>1, <3>2, <3>3
  <2>2. CASE Server(s) \/ Continue(s)
    BY <2>2 DEF TypeOK, Server, Message, Finish, Fail, Continue
  <2> QED BY <2>1, <2>2
<1>6. TypeOK'
  <2>1. stream' \in [Streams -> StreamStates]
    BY <1>1 DEF TypeOK
  <2>2. context' \in SUBSET Streams
    BY <1>3 DEF Calling
  <2> QED BY <1>1, <1>4, <1>5, <2>1, <2>2 DEF TypeOK
<1>7. Starting'
  BY <1>1 DEF Starting, TypeOK, InFlight, Streams
<1>8. QuietAfterWait'
  BY <1>1, <1>2 DEF QuietAfterWait
<1> QED BY <1>1, <1>2, <1>3, <1>6, <1>7, <1>8

(***************************************************************************)
(* A stream ends and is counted down.                                      *)
(***************************************************************************)
LEMMA MarkStep ==
  ASSUME IndInv, NEW s \in Streams, MarkRPCStreamDone(s)
  PROVE  IndInv'
<1> USE RpcAssumption DEF IndInv, MarkRPCStreamDone
<1>1. s \in InFlight /\ main # "count"
  BY DEF InFlight, Starting
<1>2. InFlight' = InFlight \ {s} /\ Calling' = Calling
  BY DEF InFlight, Calling, TypeOK
<1>3. Counted = InFlight /\ Counted' = InFlight \ {s}
  BY <1>1, <1>2 DEF Counted
<1>4. /\ IsFiniteSet(InFlight)
      /\ Cardinality(InFlight) \in Nat /\ Cardinality(InFlight) < CountLimit
      /\ Cardinality(InFlight \ {s}) \in Nat
  <2>1. InFlight \in SUBSET Streams /\ InFlight \ {s} \in SUBSET Streams
    BY DEF InFlight
  <2> QED BY <2>1, CountInRange
<1>5. Cardinality(InFlight \ {s}) = Cardinality(InFlight) - 1
  BY <1>1, <1>4, FS_RemoveElement
<1>6. count' = Cardinality(Counted')
  BY <1>3, <1>4, <1>5
<1>7. TypeOK'
  <2>1. count' \in 0 .. CountLimit - 1
    BY <1>3, <1>4, <1>5, <1>6
  <2>2. stream' \in [Streams -> StreamStates]
    BY DEF TypeOK, StreamStates
  <2> QED BY <2>1, <2>2 DEF TypeOK
<1>8. Starting'
  BY DEF Starting, TypeOK, Streams
<1>9. QuietAfterWait'
  BY <1>2 DEF QuietAfterWait
<1> QED BY <1>2, <1>6, <1>7, <1>8, <1>9

-----------------------------------------------------------------------------
(***************************************************************************)
(* Every reachable state of RpcPerf satisfies the inductive invariant.     *)
(***************************************************************************)
THEOREM IndInvCorrect == Spec => []IndInv
<1>1. Init => IndInv
  BY InitInv
<1>2. IndInv /\ [Next]_vars => IndInv'
  <2> SUFFICES ASSUME IndInv, [Next]_vars
               PROVE  IndInv'
    OBVIOUS
  <2>1. CASE Main
    BY <2>1, MainQuietStep, SendStep, CountStep DEF Main
  <2>2. CASE \E s \in Streams : Server(s) \/ Client(s)
    BY <2>2, StreamQuietStep, MarkStep DEF Client
  <2>3. CASE HandlerReturns
    <3>1. calls' \in [client : Nat, errors : Nat, server : Nat] /\ handlers' \in Nat
      BY <2>3 DEF HandlerReturns, IndInv, TypeOK
    <3> QED BY <2>3, <3>1 DEF HandlerReturns, IndInv, TypeOK, Starting, Counted,
               InFlight, Calling, QuietAfterWait
  <2>4. CASE UNCHANGED vars
    BY <2>4 DEF vars, IndInv, TypeOK, Starting, Counted, InFlight, Calling, QuietAfterWait
  <2> QED BY <2>1, <2>2, <2>3, <2>4 DEF Next, Finished
<1> QED BY <1>1, <1>2, PTL DEF Spec

(***************************************************************************)
(* inflight_rpcs_count_ (grpc_client.h:116) is the number of streams in    *)
(* flight whenever the constructor does not hold the mutex, and stays      *)
(* within its range.                                                       *)
(***************************************************************************)
THEOREM CountCorrect == Spec => [](TypeOK /\ CountsStreams)
<1>1. IndInv => TypeOK /\ CountsStreams
  BY DEF IndInv, CountsStreams, Counted, Starting
<1> QED BY <1>1, IndInvCorrect, PTL

(***************************************************************************)
(* When GRPCClient::Wait (grpc_client.cc:146) has returned no callback can *)
(* use the client any more.                                                *)
(***************************************************************************)
THEOREM WaitCorrect == Spec => []QuietAfterWait
<1>1. IndInv => QuietAfterWait
  BY DEF IndInv
<1> QED BY <1>1, IndInvCorrect, PTL

-----------------------------------------------------------------------------
(***************************************************************************)
(* The calls whose answer, and those whose answer or error, the callback   *)
(* has still to see.                                                       *)
(***************************************************************************)
Answered == {s \in Streams : stream[s] = "ok"}
Ended == {s \in Streams : stream[s] \in {"ok", "error"}}

Pending == IF main \in {"lock", "send"} THEN 1 ELSE 0

(***************************************************************************)
(* Every iteration that was granted is a call whose callback ran, is out,  *)
(* or is about to be sent by the constructor; and whoever stops, a stream  *)
(* or the constructor that leaves one idle, was told there are no more.    *)
(***************************************************************************)
EachGrantIsACall ==
  /\ granted = calls.client + Cardinality(Calling) + Pending
  /\ \A s \in Streams :
       stream[s] \in {"marking", "done"} \/ (s < next /\ stream[s] = "idle")
         => granted = Iterations

(***************************************************************************)
(* A call that ended without an error had a handler, which has returned or *)
(* will; a handler belongs to one call that ended.                         *)
(***************************************************************************)
HandlersCounted ==
  /\ calls.client + Cardinality(Answered) <= calls.server + handlers + calls.errors
  /\ calls.server + handlers <= calls.client + Cardinality(Ended)

(***************************************************************************)
(* The end of BM_Rpc: every stream was offered, no handler is left.        *)
(***************************************************************************)
AtTheEnd ==
  /\ main \in {"wait", "shutdown", "join", "done"} => next = NumStreams + 1
  /\ main = "done" => handlers = 0

Accounting == EachGrantIsACall /\ HandlersCounted /\ AtTheEnd

(***************************************************************************)
(* The size of a set of streams when one joins or leaves it.               *)
(***************************************************************************)
LEMMA OneMore ==
  ASSUME NEW S \in SUBSET Streams, NEW s \in Streams
  PROVE  /\ Cardinality(S) \in Nat
         /\ s \notin S => Cardinality(S \cup {s}) = Cardinality(S) + 1
         /\ s \in S => Cardinality(S \ {s}) = Cardinality(S) - 1
<1>1. IsFiniteSet(S) /\ Cardinality(S) \in Nat
  BY CountInRange
<1> QED BY <1>1, FS_AddElement, FS_RemoveElement

LEMMA AccountingInit == Init => Accounting
<1> SUFFICES ASSUME Init PROVE Accounting
  OBVIOUS
<1>1. Calling = {} /\ Answered = {} /\ Ended = {} /\ Cardinality({}) = 0
  BY FS_EmptySet DEF Init, Calling, Answered, Ended
<1>2. \A s \in Streams : stream[s] = "idle" /\ ~(s < next)
  BY RpcAssumption DEF Init, Streams
<1> QED BY <1>1, <1>2 DEF Init, Accounting, EachGrantIsACall, HandlersCounted, AtTheEnd, Pending

(***************************************************************************)
(* The main thread: what it is granted it sends, after the lock.           *)
(***************************************************************************)
LEMMA AccountingMain ==
  ASSUME IndInv, Accounting, Main
  PROVE  Accounting'
<1> USE DEF IndInv, Accounting
<1>1. /\ calls' = calls /\ handlers' = handlers
      /\ granted \in Int /\ Iterations \in Nat /\ next \in Int /\ NumStreams \in Nat
      /\ calls.client \in Nat /\ handlers \in Nat
  BY RpcAssumption DEF Main, Ask, Lock, Send, Count, StartWait, ClientWait, Shutdown,
     ServerWait, TypeOK
<1>2. CASE Send
  <2>1. next \in Streams /\ stream[next] = "idle" /\ stream'[next] = "sent"
    BY <1>2 DEF Starting, TypeOK, Send, SendOneRPC
  <2>2. \A s \in Streams : s # next => stream'[s] = stream[s]
    BY <1>2 DEF TypeOK, Send, SendOneRPC
  <2>3. /\ Calling' = Calling \cup {next} /\ next \notin Calling
        /\ Answered' = Answered /\ Ended' = Ended
    BY <2>1, <2>2 DEF Calling, Answered, Ended
  <2>4. Cardinality(Calling') = Cardinality(Calling) + 1 /\ Cardinality(Calling) \in Nat
    <3>1. Calling \in SUBSET Streams
      BY DEF Calling
    <3> QED BY <2>1, <2>3, <3>1, OneMore
  <2>5. Pending = 1 /\ Pending' = 0 /\ granted' = granted /\ next' = next
    BY <1>2 DEF Pending, Send
  <2>6. EachGrantIsACall'
    BY <1>1, <2>1, <2>2, <2>4, <2>5 DEF EachGrantIsACall
  <2> QED BY <1>1, <1>2, <2>3, <2>6 DEF HandlersCounted, AtTheEnd, Send
<1>3. CASE ~Send
  <2>1. stream' = stream /\ Calling' = Calling /\ Answered' = Answered /\ Ended' = Ended
    BY <1>3 DEF Main, Ask, Lock, Count, StartWait, ClientWait, Shutdown, ServerWait,
       Calling, Answered, Ended
  <2>2. Cardinality(Calling) \in Nat
    <3>1. Calling \in SUBSET Streams
      BY DEF Calling
    <3> QED BY <3>1, CountInRange
  <2>3. EachGrantIsACall'
    <3>1. CASE Ask
      BY <1>1, <2>1, <2>2, <3>1 DEF Ask, KeepRunning, StopRunning, EachGrantIsACall, Pending,
         Streams, Starting
    <3>2. CASE Count
      <4>1. stream[next] # "idle"
        BY <3>2 DEF Count, Starting
      <4> QED BY <1>1, <2>1, <3>2, <4>1 DEF Count, EachGrantIsACall, Pending, Streams
    <3>3. CASE Lock \/ StartWait \/ ClientWait \/ Shutdown \/ ServerWait
      BY <2>1, <1>1, <3>3 DEF Lock, StartWait, ClientWait, Shutdown, ServerWait,
         EachGrantIsACall, Pending
    <3> QED BY <1>3, <3>1, <3>2, <3>3 DEF Main
  <2>4. HandlersCounted'
    BY <1>1, <2>1 DEF HandlersCounted
  <2>5. AtTheEnd'
    BY <1>1, <1>3, RpcAssumption DEF AtTheEnd, Main, Ask, Lock, Count, StartWait, ClientWait,
       Shutdown, ServerWait, TypeOK
  <2> QED BY <2>3, <2>4, <2>5
<1> QED BY <1>2, <1>3

(***************************************************************************)
(* A stream: a call that ends leaves its handler behind, a callback turns  *)
(* it into a count, and an iteration that is granted into the next call.   *)
(***************************************************************************)
LEMMA AccountingStream ==
  ASSUME IndInv, Accounting, NEW s \in Streams, Server(s) \/ Client(s)
  PROVE  Accounting'
<1> USE DEF IndInv, Accounting
<1>1. /\ Calling \in SUBSET Streams /\ Answered \in SUBSET Streams
      /\ Ended \in SUBSET Streams
  BY DEF Calling, Answered, Ended
<1>2. /\ Cardinality(Calling) \in Nat /\ Cardinality(Answered) \in Nat
      /\ Cardinality(Ended) \in Nat
  BY <1>1, CountInRange
<1>3. /\ granted \in Int /\ Iterations \in Nat /\ next \in Int /\ handlers \in Nat
      /\ calls.client \in Nat /\ calls.server \in Nat /\ calls.errors \in Nat
      /\ Pending \in Nat
  BY RpcAssumption DEF TypeOK, Pending
<1>4. /\ main' = main /\ next' = next /\ Pending' = Pending
      /\ \A t \in Streams : t # s => stream'[t] = stream[t]
  BY DEF Server, Client, Message, Finish, Fail, Callback, Continue, MarkRPCStreamDone,
     SendOneRPC, TypeOK, Pending
<1>5. AtTheEnd'
  <2>1. s \in InFlight
    BY DEF Server, Client, Message, Finish, Fail, Callback, Continue, MarkRPCStreamDone, InFlight
  <2> QED BY <1>4, <2>1 DEF AtTheEnd, QuietAfterWait
<1>6. CASE Message(s)
  <2>1. stream[s] = "sent" /\ stream'[s] = "handling"
    BY <1>6 DEF Message, TypeOK
  <2>2. Calling' = Calling /\ Answered' = Answered /\ Ended' = Ended
    BY <1>4, <2>1 DEF Calling, Answered, Ended
  <2>3. EachGrantIsACall'
    BY <1>3, <1>4, <1>6, <2>1, <2>2 DEF EachGrantIsACall, Message
  <2> QED BY <1>5, <1>6, <2>2, <2>3 DEF HandlersCounted, Message
<1>7. CASE Finish(s)
  <2>1. stream[s] = "handling" /\ stream'[s] = "ok"
    BY <1>7 DEF Finish, TypeOK
  <2>2. /\ Calling' = Calling
        /\ Answered' = Answered \cup {s} /\ s \notin Answered
        /\ Ended' = Ended \cup {s} /\ s \notin Ended
    BY <1>4, <2>1 DEF Calling, Answered, Ended
  <2>3. /\ Cardinality(Answered') = Cardinality(Answered) + 1
        /\ Cardinality(Ended') = Cardinality(Ended) + 1
    BY <1>1, <2>2, OneMore
  <2>4. EachGrantIsACall'
    BY <1>3, <1>4, <1>7, <2>1, <2>2 DEF EachGrantIsACall, Finish
  <2>5. HandlersCounted'
    BY <1>2, <1>3, <1>7, <2>3 DEF HandlersCounted, Finish
  <2> QED BY <1>5, <2>4, <2>5
<1>8. CASE Fail(s)
  <2>1. stream[s] \in {"sent", "handling"} /\ stream'[s] = "error"
    BY <1>8 DEF Fail, TypeOK
  <2>2. /\ Calling' = Calling /\ Answered' = Answered
        /\ Ended' = Ended \cup {s} /\ s \notin Ended
    BY <1>4, <2>1 DEF Calling, Answered, Ended
  <2>3. Cardinality(Ended') = Cardinality(Ended) + 1
    BY <1>1, <2>2, OneMore
  <2>4. EachGrantIsACall'
    BY <1>3, <1>4, <1>8, <2>1, <2>2 DEF EachGrantIsACall, Fail
  <2>5. HandlersCounted'
    BY <1>2, <1>3, <1>8, <2>2, <2>3 DEF HandlersCounted, Fail
  <2> QED BY <1>5, <2>4, <2>5
<1>9. CASE Callback(s)
  <2>1. stream[s] \in {"ok", "error"} /\ stream'[s] = "asking"
    BY <1>9 DEF Callback, TypeOK
  <2>2. /\ Calling' = Calling \ {s} /\ s \in Calling
        /\ Ended' = Ended \ {s} /\ s \in Ended
        /\ Answered' = Answered \ {s} /\ (s \in Answered <=> stream[s] = "ok")
    BY <1>4, <2>1 DEF Calling, Answered, Ended
  <2>3. /\ Cardinality(Calling') = Cardinality(Calling) - 1
        /\ Cardinality(Ended') = Cardinality(Ended) - 1
    BY <1>1, <2>2, OneMore
  <2>4. Cardinality(Answered')
          = IF stream[s] = "ok" THEN Cardinality(Answered) - 1 ELSE Cardinality(Answered)
    <3>1. CASE stream[s] = "ok"
      BY <1>1, <2>2, <3>1, OneMore
    <3>2. CASE stream[s] # "ok"
      <4>1. Answered' = Answered
        BY <2>2, <3>2
      <4> QED BY <3>2, <4>1
    <3> QED BY <3>1, <3>2
  <2>5. /\ calls'.client = calls.client + 1 /\ calls'.server = calls.server
        /\ calls'.errors
             = IF stream[s] = "ok" THEN calls.errors ELSE calls.errors + 1
        /\ handlers' = handlers /\ granted' = granted
    BY <1>9 DEF Callback, TypeOK
  <2>6. EachGrantIsACall'
    BY <1>2, <1>3, <1>4, <2>1, <2>3, <2>5 DEF EachGrantIsACall
  <2>7. HandlersCounted'
    BY <1>2, <1>3, <2>3, <2>4, <2>5 DEF HandlersCounted
  <2> QED BY <1>5, <2>6, <2>7
<1>10. CASE Continue(s)
  <2>1. /\ stream[s] = "asking" /\ stream'[s] \in {"sent", "marking"}
        /\ handlers' = handlers /\ calls' = calls
    BY <1>10 DEF Continue, SendOneRPC, TypeOK
  <2>2. Answered' = Answered /\ Ended' = Ended
    BY <1>4, <2>1 DEF Answered, Ended
  <2>3. EachGrantIsACall'
    <3>1. CASE stream'[s] = "sent"
      <4>1. granted < Iterations /\ granted' = granted + 1
        BY <1>10, <3>1 DEF Continue, KeepRunning, TypeOK
      <4>2. Calling' = Calling \cup {s} /\ s \notin Calling
        BY <1>4, <2>1, <3>1 DEF Calling
      <4>3. Cardinality(Calling') = Cardinality(Calling) + 1
        BY <1>1, <4>2, OneMore
      <4>4. granted' = calls'.client + Cardinality(Calling') + Pending'
        BY <1>2, <1>3, <1>4, <2>1, <4>1, <4>3 DEF EachGrantIsACall
      <4>5. \A t \in Streams : ~(stream'[t] \in {"marking", "done"}
                                   \/ (t < next' /\ stream'[t] = "idle"))
        BY <1>3, <1>4, <3>1, <4>1 DEF EachGrantIsACall
      <4> QED BY <4>4, <4>5 DEF EachGrantIsACall
    <3>2. CASE stream'[s] = "marking"
      <4>1. granted = Iterations /\ granted' = granted
        BY <1>10, <3>2 DEF Continue, SendOneRPC, StopRunning, TypeOK
      <4>2. Calling' = Calling
        BY <1>4, <2>1, <3>2 DEF Calling
      <4> QED BY <1>4, <2>1, <4>1, <4>2 DEF EachGrantIsACall
    <3> QED BY <2>1, <3>1, <3>2
  <2>4. HandlersCounted'
    BY <2>1, <2>2 DEF HandlersCounted
  <2> QED BY <1>5, <2>3, <2>4
<1>11. CASE MarkRPCStreamDone(s)
  <2>1. /\ stream[s] = "marking" /\ stream'[s] = "done"
        /\ handlers' = handlers /\ calls' = calls /\ granted' = granted
    BY <1>11 DEF MarkRPCStreamDone, TypeOK
  <2>2. Calling' = Calling /\ Answered' = Answered /\ Ended' = Ended
    BY <1>4, <2>1 DEF Calling, Answered, Ended
  <2>3. EachGrantIsACall'
    BY <1>4, <2>1, <2>2 DEF EachGrantIsACall
  <2>4. HandlersCounted'
    BY <2>1, <2>2 DEF HandlersCounted
  <2> QED BY <1>5, <2>3, <2>4
<1> QED BY <1>6, <1>7, <1>8, <1>9, <1>10, <1>11 DEF Server, Client

(***************************************************************************)
(* When BM_Rpc ends, every iteration KeepRunning() granted (all of them,   *)
(* if there is a stream) was one call whose callback has run, and the      *)
(* handler of every call that did not fail has returned, none twice for a  *)
(* call, although it returns (grpc_server.cc) after the answer is on its   *)
(* way.  Counters of client and server, where there are any, agree so.     *)
(***************************************************************************)
THEOREM IterationsCorrect == Spec => []EveryIterationAnswered
<1>1. Init => Accounting
  BY AccountingInit
<1>2. IndInv /\ Accounting /\ [Next]_vars => Accounting'
  <2> SUFFICES ASSUME IndInv, Accounting, [Next]_vars
               PROVE  Accounting'
    OBVIOUS
  <2>1. CASE Main
    BY <2>1, AccountingMain
  <2>2. CASE \E s \in Streams : Server(s) \/ Client(s)
    BY <2>2, AccountingStream
  <2>3. CASE HandlerReturns
    <3>1. /\ calls'.server = calls.server + 1 /\ calls'.errors = calls.errors
          /\ calls'.client = calls.client /\ handlers' = handlers - 1
          /\ calls.server \in Nat /\ handlers \in Nat /\ handlers > 0
      BY <2>3 DEF HandlerReturns, IndInv, TypeOK
    <3>2. EachGrantIsACall'
      BY <2>3, <3>1 DEF HandlerReturns, Accounting, EachGrantIsACall, Calling, Pending
    <3>3. HandlersCounted'
      <4>1. Answered' = Answered /\ Ended' = Ended
        BY <2>3 DEF HandlerReturns, Answered, Ended
      <4>2. Answered \in SUBSET Streams /\ Ended \in SUBSET Streams
        BY DEF Answered, Ended
      <4>3. Cardinality(Answered) \in Nat /\ Cardinality(Ended) \in Nat
        BY <4>2, CountInRange
      <4>4. calls.client \in Nat /\ calls.errors \in Nat
        BY DEF IndInv, TypeOK
      <4> QED BY <3>1, <4>1, <4>3, <4>4 DEF Accounting, HandlersCounted
    <3>4. AtTheEnd'
      BY <2>3, <3>1 DEF HandlerReturns, Accounting, AtTheEnd
    <3> QED BY <3>2, <3>3, <3>4 DEF Accounting
  <2>4. CASE UNCHANGED vars
    BY <2>4 DEF vars, Accounting, EachGrantIsACall, HandlersCounted, AtTheEnd, Calling,
       Answered, Ended, Pending
  <2> QED BY <2>1, <2>2, <2>3, <2>4 DEF Next, Finished
<1>3. IndInv /\ Accounting => EveryIterationAnswered
  <2> SUFFICES ASSUME IndInv, Accounting, main = "done"
               PROVE  /\ NumStreams > 0 => granted = Iterations
                      /\ calls.client = granted
                      /\ calls.server \in granted - calls.errors .. granted
    BY DEF EveryIterationAnswered
  <2>1. Calling = {} /\ Answered = {} /\ Ended = {} /\ Cardinality({}) = 0
    BY FS_EmptySet DEF IndInv, QuietAfterWait, InFlight, Calling, Answered, Ended
  <2>2. calls.client = granted
    BY <2>1 DEF IndInv, TypeOK, Accounting, EachGrantIsACall, Pending
  <2>3. calls.server \in granted - calls.errors .. granted
    BY <2>1, <2>2 DEF IndInv, TypeOK, Accounting, HandlersCounted, AtTheEnd
  <2>4. ASSUME NumStreams > 0 PROVE granted = Iterations
    <3>1. 1 \in Streams /\ 1 < next
      BY <2>4, RpcAssumption DEF Accounting, AtTheEnd, Streams
    <3>2. stream[1] \in {"idle", "done"}
      BY <3>1 DEF IndInv, QuietAfterWait, InFlight
    <3> QED BY <3>1, <3>2 DEF Accounting, EachGrantIsACall
  <2> QED BY <2>2, <2>3, <2>4
<1> QED BY <1>1, <1>2, <1>3, IndInvCorrect, PTL DEF Spec
=============================================================================
