------------------------- MODULE ZLibCompressProofs -------------------------
(***************************************************************************)
(* Proofs about the compressing half of class ZLib, for data and           *)
(* destinations of any sizes, cut in any way, in every header mode.        *)
(***************************************************************************)
EXTENDS ZLibCompress, TLAPS

-----------------------------------------------------------------------------
(***************************************************************************)
(* The inductive invariant                                                 *)
(***************************************************************************)
HeaderLen == IF mode = "gzip" THEN HeaderSize ELSE 0

\* Data is begun by a first chunk and ends with first_chunk_ set again.
ChunksInv ==
  /\ phase # "open" => z.first
  /\ phase = "open" /\ z.first => taken = 0 /\ written = 0

\* Amid chunks the object counts what was taken and what was written, and bytes
\* are pending only if a destination was full.
CountsInv ==
  phase = "open" /\ ~z.first =>
    /\ z.size = taken /\ (mode = "gzip" => z.crc = taken)
    /\ written = z.stream.made + HeaderLen
    /\ ~z.stream.ended
    /\ ~tight => z.stream.pending = 0

ToldInv == mode # "gzip" => told = written

IInv == TypeOK /\ ChunksInv /\ CountsInv /\ ToldInv /\ OutputComplete

-----------------------------------------------------------------------------
(***************************************************************************)
(* deflate                                                                 *)
(***************************************************************************)
Streams == [pending : Nat, flushed : BOOLEAN, ended : BOOLEAN, made : Nat]
Flushes == {"Z_SYNC_FLUSH", "Z_FINISH"}

LEMMA ClosingIsLength ==
  ASSUME NEW stream, NEW n, NEW flush
  PROVE  Closing(stream, n, flush) \in Nat
<1>1. CASE flush = "Z_FINISH" /\ ~stream.ended
  BY <1>1 DEF Closing
<1>2. CASE ~(flush = "Z_FINISH" /\ ~stream.ended)
  BY <1>2 DEF Closing
<1> QED
  BY <1>1, <1>2

\* What fits is written and counted; if the destination is not filled, all data
\* was taken and nothing is pending.
LEMMA DeflateDoes ==
  ASSUME NEW stream \in Streams, NEW n \in Nat, NEW room \in Nat, NEW flush \in Flushes
  PROVE  LET r == deflate(stream, n, room, flush)
         IN  /\ r.consumed \in 0..n /\ r.out \in 0..room /\ r.stream \in Streams
             /\ r.stream.made = stream.made + r.out
             /\ flush = "Z_SYNC_FLUSH" => r.stream.ended = stream.ended
             /\ r.out < room => /\ r.consumed = n /\ r.stream.pending = 0
                                /\ flush = "Z_FINISH" => r.stream.ended
<1> DEFINE free     == IF room < stream.pending THEN 0 ELSE room - stream.pending
           consumed == Least(n, free)
           closing  == IF consumed = n THEN Closing(stream, n, flush) ELSE 0
           total    == stream.pending + consumed + closing
           out      == Least(total, room)
           ended    == stream.ended \/ (consumed = n /\ flush = "Z_FINISH")
           r        == deflate(stream, n, room, flush)
<1>1. /\ stream.pending \in Nat /\ stream.made \in Nat
      /\ stream.flushed \in BOOLEAN /\ stream.ended \in BOOLEAN
  BY DEF Streams
<1>2. free \in Nat
  BY <1>1
<1>3. consumed \in Nat /\ consumed <= n /\ consumed <= free /\ (consumed < n => consumed = free)
  BY <1>2 DEF Least
<1>4. closing \in Nat
  BY ClosingIsLength
<1>5. r = Deflated(stream, consumed, consumed = n, flush, total, out)
  BY DEF deflate
<1> HIDE DEF r, closing
<1>6. total \in Nat
  BY <1>1, <1>3, <1>4
<1>7. out \in Nat /\ out <= room /\ out <= total /\ (out < room => out = total)
  BY <1>6 DEF Least
<1>8. out < room => consumed = n
  <2> SUFFICES ASSUME out < room, consumed < n PROVE FALSE
    BY <1>3
  <2>1. consumed = free /\ total < room
    BY <1>3, <1>7
  <2> HIDE DEF consumed
  <2> QED
    BY <1>1, <1>4, <2>1
<1> HIDE DEF consumed, total, out
<1>9. /\ r.consumed = consumed /\ r.out = out
      /\ r.stream = [pending |-> total - out, flushed |-> consumed = n, ended |-> ended,
                     made |-> stream.made + out]
  BY <1>5 DEF Deflated
<1>10. total - out \in Nat /\ stream.made + out \in Nat /\ (out < room => total - out = 0)
  BY <1>1, <1>6, <1>7
<1>11. ended \in BOOLEAN /\ (consumed = n) \in BOOLEAN
  OBVIOUS
<1>12. /\ r.stream \in Streams /\ r.stream.pending = total - out
       /\ r.stream.made = stream.made + out /\ r.stream.ended = ended
  <2> HIDE DEF ended
  <2> QED
    BY <1>9, <1>10, <1>11 DEF Streams
<1>13. r.consumed \in 0..n /\ r.out \in 0..room
  BY <1>3, <1>7, <1>9
<1>14. flush = "Z_SYNC_FLUSH" => ended = stream.ended
  BY <1>1
<1>15. consumed = n /\ flush = "Z_FINISH" => ended
  OBVIOUS
<1> HIDE DEF ended
<1>16. r.out < room => /\ r.consumed = n /\ r.stream.pending = 0
                       /\ flush = "Z_FINISH" => r.stream.ended
  BY <1>8, <1>9, <1>10, <1>12, <1>15
<1> QED
  BY <1>9, <1>12, <1>13, <1>14, <1>16 DEF r

-----------------------------------------------------------------------------
(***************************************************************************)
(* The methods                                                             *)
(***************************************************************************)
\* The object that deflate is called for, and what is written before.
Begun(o) ==
  IF o.first
  THEN [CompressInit(o) EXCEPT !.first = FALSE, !.size = 0,
                               !.crc = IF mode = "gzip" THEN 0 ELSE @]
  ELSE o

HeaderOf(o) == IF o.first /\ mode = "gzip" THEN HeaderSize ELSE 0

LEMMA FirstChunkBegins ==
  ASSUME NEW o \in Object, o.first
  PROVE  /\ CompressInit(o) \in Object /\ CompressInit(o).first
         /\ Begun(o) \in Object /\ ~Begun(o).first
         /\ Begun(o).size = 0 /\ (mode = "gzip" => Begun(o).crc = 0)
         /\ Begun(o).stream.made = 0 /\ ~Begun(o).stream.ended
<1>1. NewStream \in Streams /\ NewStream.made = 0 /\ ~NewStream.ended
  BY DEF NewStream, Streams
<1>2. PICK stream \in Streams : stream = NewStream
  BY <1>1
<1>3. /\ CompressInit(o) = [o EXCEPT !.stream = stream]
      /\ CompressInit(o) \in Object /\ CompressInit(o).first
      /\ CompressInit(o).stream = stream
  BY <1>2 DEF CompressInit, Object, Streams
<1>4. PICK c \in Object : c = CompressInit(o)
  BY <1>3
<1>5. PICK k \in Nat : k = (IF mode = "gzip" THEN 0 ELSE c.crc)
  BY DEF Object
<1>6. Begun(o) = [first |-> FALSE, crc |-> k, size |-> 0, stream |-> c.stream]
  BY <1>4, <1>5 DEF Begun, Object
<1>7. c.stream \in Streams
  BY DEF Object, Streams
<1>8. /\ Begun(o) \in Object /\ ~Begun(o).first /\ Begun(o).stream = c.stream
      /\ Begun(o).size = 0 /\ (mode = "gzip" => Begun(o).crc = 0)
  BY <1>5, <1>6, <1>7 DEF Object, Streams
<1> QED
  BY <1>1, <1>2, <1>3, <1>4, <1>8

LEMMA BegunObject ==
  ASSUME NEW o \in Object
  PROVE  Begun(o) \in Object /\ ~Begun(o).first /\ (~o.first => Begun(o) = o)
<1>1. CASE o.first
  BY <1>1, FirstChunkBegins
<1>2. CASE ~o.first
  BY <1>2 DEF Begun
<1> QED
  BY <1>1, <1>2

\* CompressAtMostOrAll, when it does not fail for the header.
LEMMA ChunkDoes ==
  ASSUME NEW o \in Object, NEW n \in Nat, NEW room \in Nat, NEW flush \in Flushes,
         HeaderOf(o) > 0 => ~NoRoomForHeader(room)
  PROVE  LET r == CompressAtMostOrAll(o, n, room, flush)
         IN  /\ r.z \in Object /\ ~r.z.first
             /\ r.took \in 0..n /\ r.len \in Nat /\ r.wrote = r.len
             /\ r.z.size = Begun(o).size + r.took
             /\ mode = "gzip" => r.z.crc = Begun(o).crc + r.took
             /\ r.wrote = HeaderOf(o) + r.z.stream.made - Begun(o).stream.made
             /\ flush = "Z_SYNC_FLUSH" => r.z.stream.ended = Begun(o).stream.ended
             /\ r.ret \in {"Z_OK", "Z_BUF_ERROR"}
             /\ r.ret = "Z_OK" => /\ r.took = n /\ r.z.stream.pending = 0
                                  /\ flush = "Z_FINISH" => r.z.stream.ended
<1> DEFINE r == CompressAtMostOrAll(o, n, room, flush)
           d == deflate(Begun(o).stream, n, room - HeaderOf(o), flush)
           len == HeaderOf(o) + d.out
<1>1. PICK b \in Object : b = Begun(o) /\ ~b.first
  BY BegunObject
<1>2. HeaderOf(o) \in Nat /\ room - HeaderOf(o) \in Nat
  BY DEF HeaderOf, HeaderSize, NoRoomForHeader
<1>3. b.stream \in Streams /\ b.size \in Nat /\ b.crc \in Nat /\ b.stream.made \in Nat
  BY DEF Object, Streams
<1>4. /\ d.consumed \in 0..n /\ d.out \in 0..(room - HeaderOf(o)) /\ d.stream \in Streams
      /\ d.stream.made = b.stream.made + d.out
      /\ flush = "Z_SYNC_FLUSH" => d.stream.ended = b.stream.ended
      /\ d.out < room - HeaderOf(o) => /\ d.consumed = n /\ d.stream.pending = 0
                                       /\ flush = "Z_FINISH" => d.stream.ended
  <2>1. PICK left \in Nat : left = room - HeaderOf(o)
    BY <1>2
  <2> DEFINE e == deflate(b.stream, n, left, flush)
  <2>2. d = e
    BY <1>1, <2>1
  <2>3. /\ e.consumed \in 0..n /\ e.out \in 0..left /\ e.stream \in Streams
        /\ e.stream.made = b.stream.made + e.out
        /\ flush = "Z_SYNC_FLUSH" => e.stream.ended = b.stream.ended
        /\ e.out < left => /\ e.consumed = n /\ e.stream.pending = 0
                           /\ flush = "Z_FINISH" => e.stream.ended
    BY <1>3, DeflateDoes
  <2> HIDE DEF d, e
  <2>4. /\ d.consumed \in 0..n /\ d.out \in 0..left /\ d.stream \in Streams
        /\ d.stream.made = b.stream.made + d.out
        /\ flush = "Z_SYNC_FLUSH" => d.stream.ended = b.stream.ended
        /\ d.out < left => /\ d.consumed = n /\ d.stream.pending = 0
                           /\ flush = "Z_FINISH" => d.stream.ended
    BY <2>2, <2>3
  <2> QED
    BY <2>1, <2>4
<1> HIDE DEF d
<1>5. r = AfterDeflate(b, n, room, len, d)
  BY <1>1 DEF CompressAtMostOrAll, DeflateMore, HeaderOf, Begun, d
<1>6. PICK c \in Nat : c = (IF mode = "gzip" THEN b.crc + d.consumed ELSE b.crc)
  BY <1>3, <1>4
<1>7. r.z = [b EXCEPT !.stream = d.stream, !.size = b.size + d.consumed, !.crc = c]
  <2>1. r.z = [b EXCEPT !.stream = d.stream, !.size = @ + d.consumed,
                        !.crc = IF mode = "gzip" THEN @ + d.consumed ELSE @]
    BY <1>5 DEF AfterDeflate, Returns, Consumed
  <2> QED
    BY <1>6, <2>1 DEF Object
<1>8. /\ r.took = d.consumed /\ r.len = len /\ r.wrote = len
      /\ r.ret = IF len = room \/ d.ret = "Z_BUF_ERROR" THEN "Z_BUF_ERROR" ELSE "Z_OK"
  BY <1>5 DEF AfterDeflate, Returns, DestLen
<1> HIDE DEF r
<1>9. /\ r.z \in Object /\ ~r.z.first /\ r.z.stream = d.stream
      /\ r.z.size = b.size + d.consumed /\ r.z.crc = c
  <2>1. PICK stream \in Streams : stream = d.stream
    BY <1>4
  <2>2. PICK size \in Nat : size = b.size + d.consumed
    BY <1>3, <1>4
  <2>3. r.z = [b EXCEPT !.stream = stream, !.size = size, !.crc = c]
    BY <1>7, <2>1, <2>2
  <2>4. ~b.first
    BY <1>1
  <2>5. /\ r.z \in Object /\ ~r.z.first /\ r.z.stream = stream
        /\ r.z.size = size /\ r.z.crc = c
    BY <2>3, <2>4 DEF Object, Streams
  <2> QED
    BY <2>1, <2>2, <2>5
<1>10. len \in Nat /\ r.wrote = HeaderOf(o) + r.z.stream.made - b.stream.made
  BY <1>2, <1>3, <1>4, <1>8, <1>9
<1>11. r.ret = "Z_OK" => d.out < room - HeaderOf(o)
  BY <1>2, <1>4, <1>8
<1>12. r.ret = "Z_OK" => /\ r.took = n /\ r.z.stream.pending = 0
                         /\ flush = "Z_FINISH" => r.z.stream.ended
  <2> SUFFICES ASSUME r.ret = "Z_OK"
               PROVE  /\ r.took = n /\ r.z.stream.pending = 0
                      /\ flush = "Z_FINISH" => r.z.stream.ended
    OBVIOUS
  <2>1. d.out < room - HeaderOf(o)
    BY <1>11
  <2>2. d.consumed = n /\ d.stream.pending = 0
    BY <1>4, <2>1
  <2>3. flush = "Z_FINISH" => d.stream.ended
    BY <1>4, <2>1
  <2> QED
    BY <1>8, <1>9, <2>2, <2>3, Zenon
<1>13. /\ r.took \in 0..n /\ r.len \in Nat /\ r.wrote = r.len
       /\ r.ret \in {"Z_OK", "Z_BUF_ERROR"}
       /\ mode = "gzip" => r.z.crc = b.crc + r.took
       /\ flush = "Z_SYNC_FLUSH" => r.z.stream.ended = b.stream.ended
  BY <1>4, <1>6, <1>8, <1>9, <1>10
<1> QED
  BY <1>1, <1>8, <1>9, <1>10, <1>12, <1>13 DEF r

\* The parts of what a method returns.
IsResult(r) == r = Returns(r.z, r.ret, r.took, r.len, r.wrote)

LEMMA ReturnsResult ==
  ASSUME NEW o, NEW ret, NEW took, NEW len, NEW wrote
  PROVE  LET r == Returns(o, ret, took, len, wrote)
         IN  /\ IsResult(r) /\ r.z = o /\ r.ret = ret /\ r.took = took /\ r.len = len
             /\ r.wrote = wrote
BY DEF IsResult, Returns

LEMMA AtMostResult ==
  ASSUME NEW o, NEW n, NEW room, NEW flush
  PROVE  IsResult(CompressAtMostOrAll(o, n, room, flush))
<1> DEFINE r == CompressAtMostOrAll(o, n, room, flush)
<1>1. \E a, b, c, d, e : r = Returns(a, b, c, d, e)
  BY DEF CompressAtMostOrAll, DeflateMore, AfterDeflate
<1> HIDE DEF r
<1>2. IsResult(r)
  BY <1>1, ReturnsResult
<1> QED
  BY <1>2 DEF r

\* A destination that the header does not fit in: the first chunk is still to come.
LEMMA HeaderDoesNotFit ==
  ASSUME NEW o \in Object, NEW n, NEW room, NEW flush,
         HeaderOf(o) > 0, NoRoomForHeader(room)
  PROVE  LET r == CompressAtMostOrAll(o, n, room, flush)
         IN  /\ mode = "gzip" /\ o.first
             /\ r.z \in Object /\ r.z.first /\ r.ret = "Z_BUF_ERROR"
             /\ r.took = 0 /\ r.len = room /\ r.wrote = 0
<1> DEFINE r == CompressAtMostOrAll(o, n, room, flush)
<1>1. mode = "gzip" /\ o.first
  BY DEF HeaderOf
<1>2. r = Returns(CompressInit(o), "Z_BUF_ERROR", 0, room, 0)
  BY <1>1 DEF CompressAtMostOrAll, HeaderOf
<1>3. CompressInit(o) \in Object /\ CompressInit(o).first
  BY <1>1, FirstChunkBegins
<1> HIDE DEF r
<1>4. /\ r.z = CompressInit(o) /\ r.ret = "Z_BUF_ERROR"
      /\ r.took = 0 /\ r.len = room /\ r.wrote = 0
  BY <1>2, ReturnsResult
<1> QED
  BY <1>1, <1>3, <1>4 DEF r

LEMMA ResetObject ==
  ASSUME NEW o \in Object
  PROVE  /\ Reset(o) \in Object /\ Reset(o).first
         /\ Reset(o).size = o.size /\ Reset(o).crc = o.crc /\ Reset(o).stream = o.stream
BY DEF Reset, Object

\* CompressChunkOrAll: a full destination ends the data.
LEMMA BufErrorResult ==
  ASSUME NEW r, IsResult(r)
  PROVE  LET q == BufErrorEnds(r)
         IN  /\ IsResult(q) /\ q.ret = r.ret /\ q.took = r.took /\ q.len = r.len
             /\ q.wrote = r.wrote
             /\ q.z = IF r.ret = "Z_BUF_ERROR" THEN Reset(r.z) ELSE r.z
<1>1. r = [z |-> r.z, ret |-> r.ret, took |-> r.took, len |-> r.len, wrote |-> r.wrote]
  BY DEF IsResult, Returns
<1>2. CASE r.ret = "Z_BUF_ERROR"
  <2>1. BufErrorEnds(r) = Returns(Reset(r.z), r.ret, r.took, r.len, r.wrote)
    BY <1>1, <1>2 DEF BufErrorEnds, CompressErrorInit, Returns
  <2> QED
    BY <1>2, <2>1, ReturnsResult
<1>3. CASE r.ret # "Z_BUF_ERROR"
  BY <1>3 DEF BufErrorEnds
<1> QED
  BY <1>2, <1>3

FooterLen == IF mode = "gzip" THEN FooterSize ELSE 0

\* The end of the data, with the footer if there is room for it.
LEMMA FinishResult ==
  ASSUME NEW r, IsResult(r), r.len \in Nat, r.wrote \in Nat, NEW room \in Nat
  PROVE  LET f == FinishIfOk(r, room)
         IN  /\ f.took = r.took
             /\ f.ret = "Z_OK" => /\ r.ret = "Z_OK" /\ f.z = Reset(r.z)
                                  /\ f.len = r.len + FooterLen /\ f.wrote = r.wrote + FooterLen
             /\ f.ret # "Z_OK" => /\ f.z = IF r.ret = "Z_OK" THEN Reset(r.z) ELSE r.z
                                  /\ f.len = r.len /\ f.wrote = r.wrote
             /\ r.ret = "Z_OK" /\ (mode = "gzip" => room - r.len >= FooterSize) => f.ret = "Z_OK"
<1> DEFINE f == FinishIfOk(r, room)
           e == Returns(Reset(r.z), r.ret, r.took, r.len, r.wrote)
<1>1. r = [z |-> r.z, ret |-> r.ret, took |-> r.took, len |-> r.len, wrote |-> r.wrote]
  BY DEF IsResult, Returns
<1>2. CASE r.ret # "Z_OK"
  BY <1>2 DEF FinishIfOk
<1>3. CASE r.ret = "Z_OK"
  <2>1. [r EXCEPT !.z = Reset(@)] = e
    BY <1>1 DEF Returns
  <2>2. f = Finish(e, room)
    BY <1>3, <2>1 DEF FinishIfOk
  <2>3. /\ e.z = Reset(r.z) /\ e.ret = "Z_OK" /\ e.took = r.took /\ e.len = r.len
        /\ e.wrote = r.wrote
    BY <1>3, ReturnsResult
  <2>4. CASE mode # "gzip"
    <3>1. f = e /\ FooterLen = 0
      BY <2>2, <2>4 DEF Finish, FooterLen
    <3> HIDE DEF e, f
    <3>2. /\ f.took = r.took /\ f.ret = "Z_OK" /\ f.z = Reset(r.z)
          /\ f.len = r.len + FooterLen /\ f.wrote = r.wrote + FooterLen
      BY <2>3, <3>1
    <3> QED
      BY <1>3, <3>2 DEF f
  <2>5. CASE mode = "gzip" /\ room - r.len < FooterSize
    <3>1. f = [e EXCEPT !.ret = "Z_BUF_ERROR"]
      BY <2>2, <2>3, <2>5 DEF Finish
    <3>2. f = Returns(Reset(r.z), "Z_BUF_ERROR", r.took, r.len, r.wrote)
      BY <3>1 DEF Returns
    <3> HIDE DEF f
    <3>3. /\ f.took = r.took /\ f.ret = "Z_BUF_ERROR" /\ f.z = Reset(r.z)
          /\ f.len = r.len /\ f.wrote = r.wrote
      BY <3>2, ReturnsResult
    <3>4. ~(room - r.len >= FooterSize)
      BY <2>5 DEF FooterSize
    <3> QED
      BY <1>3, <2>5, <3>3, <3>4 DEF f
  <2>6. CASE mode = "gzip" /\ ~(room - r.len < FooterSize)
    <3>1. f = [e EXCEPT !.len = @ + FooterSize, !.wrote = @ + FooterSize]
      BY <2>2, <2>3, <2>6 DEF Finish
    <3>2. f = Returns(Reset(r.z), r.ret, r.took, r.len + FooterSize, r.wrote + FooterSize)
      BY <3>1 DEF Returns
    <3> HIDE DEF f
    <3>3. /\ f.took = r.took /\ f.ret = "Z_OK" /\ f.z = Reset(r.z)
          /\ f.len = r.len + FooterLen /\ f.wrote = r.wrote + FooterLen
      BY <1>3, <2>6, <3>2, ReturnsResult DEF FooterLen
    <3> QED
      BY <1>3, <3>3 DEF f
  <2> QED
    BY <2>4, <2>5, <2>6
<1> QED
  BY <1>2, <1>3

-----------------------------------------------------------------------------
(***************************************************************************)
(* The invariant holds at the start and after every call                   *)
(***************************************************************************)
LEMMA Initially == Init => IInv
<1> SUFFICES ASSUME Init PROVE IInv
  OBVIOUS
<1>1. NewStream \in Streams
  BY DEF NewStream, Streams
<1>2. Virgin \in Object /\ Virgin.first
  BY <1>1 DEF Virgin, Object, Streams
<1>3. source \in Nat /\ MaxCalls \in Nat
  BY CompressAssumption DEF Init
<1>4. TypeOK
  <2>1. mode \in Modes /\ z \in Object /\ tight \in BOOLEAN /\ phase \in {"open", "done", "failed"}
    BY <1>2 DEF Init
  <2>2. /\ source \in SourceLens /\ taken \in 0..source /\ told \in Nat /\ written \in Nat
        /\ calls \in 0..MaxCalls
    BY <1>3 DEF Init
  <2> QED
    BY <2>1, <2>2 DEF TypeOK
<1> QED
  BY <1>2, <1>4 DEF Init, IInv, ChunksInv, CountsInv, ToldInv, OutputComplete

LEMMA Numerals ==
  ASSUME TypeOK
  PROVE  /\ z \in Object /\ source \in Nat /\ taken \in Nat /\ taken <= source
         /\ told \in Nat /\ written \in Nat /\ calls \in Nat /\ MaxCalls \in Nat
         /\ HeaderLen \in Nat
BY CompressAssumption DEF TypeOK, HeaderLen, HeaderSize

\* What a call for a chunk adds to what was counted before, if the data was not
\* ended for want of room for the header.
LEMMA ChunkCounts ==
  ASSUME IInv, phase = "open",
         NEW n \in Nat, NEW room \in Nat, NEW flush \in Flushes,
         HeaderOf(z) > 0 => ~NoRoomForHeader(room)
  PROVE  LET r == CompressAtMostOrAll(z, n, room, flush)
         IN  /\ r.z \in Object /\ ~r.z.first
             /\ r.took \in 0..n /\ r.len \in Nat /\ r.wrote = r.len
             /\ r.z.size = taken + r.took
             /\ mode = "gzip" => r.z.crc = taken + r.took
             /\ written + r.wrote = r.z.stream.made + HeaderLen
             /\ flush = "Z_SYNC_FLUSH" => ~r.z.stream.ended
             /\ r.ret \in {"Z_OK", "Z_BUF_ERROR"}
             /\ r.ret = "Z_OK" => /\ r.took = n /\ r.z.stream.pending = 0
                                  /\ flush = "Z_FINISH" => r.z.stream.ended
<1> DEFINE r == CompressAtMostOrAll(z, n, room, flush)
<1>1. /\ z \in Object /\ taken \in Nat /\ written \in Nat /\ HeaderLen \in Nat
  BY Numerals DEF IInv
<1>2. /\ r.z \in Object /\ ~r.z.first
      /\ r.took \in 0..n /\ r.len \in Nat /\ r.wrote = r.len
      /\ r.z.size = Begun(z).size + r.took
      /\ mode = "gzip" => r.z.crc = Begun(z).crc + r.took
      /\ r.wrote = HeaderOf(z) + r.z.stream.made - Begun(z).stream.made
      /\ flush = "Z_SYNC_FLUSH" => r.z.stream.ended = Begun(z).stream.ended
      /\ r.ret \in {"Z_OK", "Z_BUF_ERROR"}
      /\ r.ret = "Z_OK" => /\ r.took = n /\ r.z.stream.pending = 0
                           /\ flush = "Z_FINISH" => r.z.stream.ended
  BY <1>1, ChunkDoes
<1> HIDE DEF r
<1>3. r.z.stream.made \in Nat
  BY <1>2 DEF Object
<1>4. /\ Begun(z).size = taken /\ (mode = "gzip" => Begun(z).crc = taken)
      /\ HeaderOf(z) \in Nat /\ Begun(z).stream.made \in Nat
      /\ written + HeaderOf(z) = Begun(z).stream.made + HeaderLen
      /\ ~Begun(z).stream.ended
  <2>1. CASE z.first
    <3>1. taken = 0 /\ written = 0 /\ HeaderOf(z) = HeaderLen
      BY <2>1 DEF IInv, ChunksInv, HeaderOf, HeaderLen
    <3>2. /\ Begun(z).size = 0 /\ (mode = "gzip" => Begun(z).crc = 0)
          /\ Begun(z).stream.made = 0 /\ ~Begun(z).stream.ended
      BY <1>1, <2>1, FirstChunkBegins
    <3> QED
      BY <1>1, <3>1, <3>2
  <2>2. CASE ~z.first
    <3>1. Begun(z) = z /\ HeaderOf(z) = 0
      BY <2>2 DEF Begun, HeaderOf
    <3>2. /\ z.size = taken /\ (mode = "gzip" => z.crc = taken)
          /\ written = z.stream.made + HeaderLen /\ ~z.stream.ended
      BY <2>2 DEF IInv, CountsInv
    <3>3. z.stream.made \in Nat
      BY <1>1 DEF Object
    <3> QED
      BY <1>1, <3>1, <3>2, <3>3
  <2> QED
    BY <2>1, <2>2
<1>5. written + r.wrote = r.z.stream.made + HeaderLen
  BY <1>1, <1>2, <1>3, <1>4
<1>6. r.z.size = taken + r.took /\ (mode = "gzip" => r.z.crc = taken + r.took)
  BY <1>2, <1>4
<1>7. flush = "Z_SYNC_FLUSH" => ~r.z.stream.ended
  BY <1>2, <1>4
<1> QED
  BY <1>2, <1>5, <1>6, <1>7 DEF r

LEMMA CompressAtMostKeeps ==
  ASSUME IInv, NEW n \in 0..source, NEW room \in Rooms, CompressAtMost(n, room)
  PROVE  IInv'
<1> DEFINE r == CompressAtMostOrAll(z, n, room, "Z_SYNC_FLUSH")
<1>1. /\ phase = "open" /\ phase' = "open" /\ UNCHANGED <<mode, source>>
      /\ calls < MaxCalls /\ calls' = calls + 1 /\ taken + n <= source
      /\ z' = r.z /\ taken' = taken + r.took /\ told' = told + r.len
      /\ written' = written + r.wrote /\ tight' = (r.ret = "Z_BUF_ERROR")
  BY DEF CompressAtMost, Got
<1>2. /\ source \in Nat /\ taken \in Nat /\ taken <= source /\ told \in Nat /\ written \in Nat
      /\ calls \in Nat /\ MaxCalls \in Nat /\ z \in Object /\ n \in Nat /\ room \in Nat
      /\ mode \in Modes /\ source \in SourceLens
  BY Numerals, CompressAssumption DEF IInv, TypeOK
<1>3. HeaderLen' = HeaderLen
  BY <1>1 DEF HeaderLen
<1>4. CASE HeaderOf(z) > 0 /\ NoRoomForHeader(room)
  <2>1. /\ mode = "gzip" /\ z.first
        /\ r.z \in Object /\ r.z.first /\ r.ret = "Z_BUF_ERROR"
        /\ r.took = 0 /\ r.len = room /\ r.wrote = 0
    BY <1>2, <1>4, HeaderDoesNotFit
  <2> HIDE DEF r
  <2>2. /\ z' \in Object /\ z'.first /\ taken' = taken /\ written' = written
        /\ told' \in Nat /\ tight' \in BOOLEAN
    <3>1. z' \in Object /\ z'.first /\ tight' \in BOOLEAN
      BY <1>1, <2>1
    <3>2. taken' = taken /\ written' = written /\ told' \in Nat
      BY <1>1, <1>2, <2>1
    <3> QED
      BY <3>1, <3>2
  <2>3. TypeOK'
    BY <1>1, <1>2, <2>2 DEF TypeOK
  <2>4. ChunksInv'
    BY <1>1, <2>1, <2>2 DEF IInv, ChunksInv
  <2> QED
    BY <1>1, <2>1, <2>2, <2>3, <2>4 DEF IInv, CountsInv, ToldInv, OutputComplete
<1>5. CASE ~(HeaderOf(z) > 0 /\ NoRoomForHeader(room))
  <2>1. /\ r.z \in Object /\ ~r.z.first
        /\ r.took \in 0..n /\ r.len \in Nat /\ r.wrote = r.len
        /\ r.z.size = taken + r.took
        /\ mode = "gzip" => r.z.crc = taken + r.took
        /\ written + r.wrote = r.z.stream.made + HeaderLen
        /\ ~r.z.stream.ended
        /\ r.ret \in {"Z_OK", "Z_BUF_ERROR"}
        /\ r.ret = "Z_OK" => r.took = n /\ r.z.stream.pending = 0
    BY <1>1, <1>2, <1>5, ChunkCounts DEF Flushes
  <2> HIDE DEF r
  <2>2. TypeOK'
    BY <1>1, <1>2, <2>1 DEF TypeOK
  <2>3. ChunksInv' /\ CountsInv'
    BY <1>1, <1>3, <2>1 DEF ChunksInv, CountsInv
  <2>4. ToldInv' /\ OutputComplete'
    BY <1>1, <1>2, <2>1 DEF IInv, ToldInv, OutputComplete
  <2> QED
    BY <2>2, <2>3, <2>4 DEF IInv
<1> QED
  BY <1>4, <1>5

\* What a call that ends the data for want of room returns, and what one returns
\* that does not.
LEMMA ChunkOrAllCounts ==
  ASSUME IInv, phase = "open",
         NEW n \in Nat, NEW room \in Nat, NEW flush \in Flushes
  PROVE  LET q == CompressChunkOrAll(z, n, room, flush)
         IN  /\ IsResult(q) /\ q.z \in Object /\ q.took \in 0..n
             /\ q.len \in Nat /\ q.wrote \in Nat /\ (mode # "gzip" => q.len = q.wrote)
             /\ q.ret \in {"Z_OK", "Z_BUF_ERROR"}
             /\ q.ret = "Z_BUF_ERROR" => q.z.first
             /\ q.ret = "Z_OK" =>
                  /\ ~q.z.first /\ q.took = n /\ q.len = q.wrote
                  /\ q.z.size = taken + n
                  /\ mode = "gzip" => q.z.crc = taken + n
                  /\ written + q.wrote = q.z.stream.made + HeaderLen
                  /\ q.z.stream.pending = 0
                  /\ flush = "Z_SYNC_FLUSH" => ~q.z.stream.ended
                  /\ flush = "Z_FINISH" => q.z.stream.ended
<1> DEFINE r == CompressAtMostOrAll(z, n, room, flush)
           q == CompressChunkOrAll(z, n, room, flush)
<1>1. z \in Object
  BY Numerals DEF IInv
<1>2. q = BufErrorEnds(r)
  BY DEF CompressChunkOrAll
<1>3. IsResult(r)
  BY AtMostResult
<1>4. /\ r.z \in Object /\ r.took \in 0..n
      /\ r.len \in Nat /\ r.wrote \in Nat /\ (mode # "gzip" => r.len = r.wrote)
      /\ r.ret \in {"Z_OK", "Z_BUF_ERROR"}
      /\ r.ret = "Z_OK" =>
           /\ ~r.z.first /\ r.took = n /\ r.len = r.wrote
           /\ r.z.size = taken + n
           /\ mode = "gzip" => r.z.crc = taken + n
           /\ written + r.wrote = r.z.stream.made + HeaderLen
           /\ r.z.stream.pending = 0
           /\ flush = "Z_SYNC_FLUSH" => ~r.z.stream.ended
           /\ flush = "Z_FINISH" => r.z.stream.ended
  <2>1. CASE HeaderOf(z) > 0 /\ NoRoomForHeader(room)
    <3>1. /\ mode = "gzip" /\ r.z \in Object /\ r.ret = "Z_BUF_ERROR"
          /\ r.took = 0 /\ r.len = room /\ r.wrote = 0
      BY <1>1, <2>1, HeaderDoesNotFit
    <3> HIDE DEF r
    <3> QED
      BY <3>1
  <2>2. CASE ~(HeaderOf(z) > 0 /\ NoRoomForHeader(room))
    <3>1. /\ r.z \in Object /\ ~r.z.first
          /\ r.took \in 0..n /\ r.len \in Nat /\ r.wrote = r.len
          /\ r.z.size = taken + r.took
          /\ mode = "gzip" => r.z.crc = taken + r.took
          /\ written + r.wrote = r.z.stream.made + HeaderLen
          /\ flush = "Z_SYNC_FLUSH" => ~r.z.stream.ended
          /\ r.ret \in {"Z_OK", "Z_BUF_ERROR"}
          /\ r.ret = "Z_OK" => /\ r.took = n /\ r.z.stream.pending = 0
                               /\ flush = "Z_FINISH" => r.z.stream.ended
      BY <2>2, ChunkCounts
    <3> HIDE DEF r
    <3> QED
      BY <3>1
  <2> QED
    BY <2>1, <2>2
<1> HIDE DEF r
<1>5. /\ IsResult(q) /\ q.ret = r.ret /\ q.took = r.took /\ q.len = r.len
      /\ q.wrote = r.wrote
      /\ q.z = IF r.ret = "Z_BUF_ERROR" THEN Reset(r.z) ELSE r.z
  BY <1>2, <1>3, BufErrorResult
<1> HIDE DEF q
<1>6. CASE r.ret = "Z_BUF_ERROR"
  <2>1. q.z \in Object /\ q.z.first
    BY <1>4, <1>5, <1>6, ResetObject
  <2>2. q.ret # "Z_OK"
    BY <1>5, <1>6
  <2> QED
    BY <1>4, <1>5, <2>1, <2>2 DEF q
<1>7. CASE r.ret = "Z_OK"
  <2>1. q.z = r.z /\ q.ret # "Z_BUF_ERROR"
    BY <1>5, <1>7
  <2> QED
    BY <1>4, <1>5, <1>7, <2>1 DEF q
<1> QED
  BY <1>4, <1>6, <1>7

\* Data that failed: the object starts anew with the next.
LEMMA FailureKeeps ==
  ASSUME IInv, phase' = "failed", UNCHANGED <<mode, source>>,
         calls < MaxCalls, calls' = calls + 1,
         z' \in Object, z'.first, taken' \in 0..source, told' \in Nat, written' \in Nat,
         mode # "gzip" => told' = written', tight' \in BOOLEAN
  PROVE  IInv'
<1>1. TypeOK'
  BY Numerals DEF IInv, TypeOK
<1> QED
  BY <1>1 DEF IInv, ChunksInv, CountsInv, ToldInv, OutputComplete

LEMMA CompressChunkKeeps ==
  ASSUME IInv, NEW n \in 0..source, NEW room \in Rooms, CompressChunk(n, room)
  PROVE  IInv'
<1> DEFINE q == CompressChunkOrAll(z, n, room, "Z_SYNC_FLUSH")
<1>1. /\ phase = "open" /\ UNCHANGED <<mode, source>>
      /\ phase' = IF q.ret = "Z_OK" THEN "open" ELSE "failed"
      /\ calls < MaxCalls /\ calls' = calls + 1 /\ taken + n <= source
      /\ z' = q.z /\ taken' = taken + q.took /\ told' = told + q.len
      /\ written' = written + q.wrote /\ tight' = FALSE
  BY DEF CompressChunk, Got
<1>2. /\ source \in Nat /\ taken \in Nat /\ taken <= source /\ told \in Nat /\ written \in Nat
      /\ calls \in Nat /\ MaxCalls \in Nat /\ z \in Object /\ n \in Nat /\ room \in Nat
      /\ mode \in Modes /\ source \in SourceLens
  BY Numerals, CompressAssumption DEF IInv, TypeOK
<1>3. HeaderLen' = HeaderLen
  BY <1>1 DEF HeaderLen
<1>4. /\ q.z \in Object /\ q.took \in 0..n
      /\ q.len \in Nat /\ q.wrote \in Nat /\ (mode # "gzip" => q.len = q.wrote)
      /\ q.ret \in {"Z_OK", "Z_BUF_ERROR"}
      /\ q.ret = "Z_BUF_ERROR" => q.z.first
      /\ q.ret = "Z_OK" =>
           /\ ~q.z.first /\ q.took = n
           /\ q.z.size = taken + n
           /\ mode = "gzip" => q.z.crc = taken + n
           /\ written + q.wrote = q.z.stream.made + HeaderLen
           /\ q.z.stream.pending = 0
           /\ ~q.z.stream.ended
  BY <1>1, <1>2, ChunkOrAllCounts DEF Flushes
<1> HIDE DEF q
<1>5. /\ taken' \in 0..source /\ told' \in Nat /\ written' \in Nat
      /\ mode # "gzip" => told' = written'
  BY <1>1, <1>2, <1>4 DEF IInv, ToldInv
<1>6. CASE q.ret = "Z_BUF_ERROR"
  <2>1. phase' = "failed" /\ z' \in Object /\ z'.first /\ tight' \in BOOLEAN
    BY <1>1, <1>4, <1>6
  <2> QED
    BY <1>1, <1>5, <2>1, FailureKeeps
<1>7. CASE q.ret = "Z_OK"
  <2>1. phase' = "open" /\ z' \in Object /\ ~z'.first /\ tight' \in BOOLEAN
    BY <1>1, <1>4, <1>7
  <2>2. TypeOK'
    BY <1>1, <1>2, <1>5, <2>1 DEF TypeOK
  <2>3. CountsInv'
    BY <1>1, <1>3, <1>4, <1>7 DEF CountsInv
  <2> QED
    BY <1>1, <1>5, <2>1, <2>2, <2>3 DEF IInv, ChunksInv, ToldInv, OutputComplete
<1> QED
  BY <1>4, <1>6, <1>7

\* The last call for data of which the rest, n bytes, is taken now.
LEMMA EndKeeps ==
  ASSUME IInv, phase = "open", NEW n \in Nat, NEW room \in Nat, taken + n = source,
         UNCHANGED <<mode, source>>, calls < MaxCalls, calls' = calls + 1, UNCHANGED tight,
         NEW f, f = FinishIfOk(CompressChunkOrAll(z, n, room, "Z_FINISH"), room),
         z' = f.z, taken' = taken + f.took, told' = told + f.len,
         written' = written + f.wrote,
         phase' = IF f.ret = "Z_OK" THEN "done" ELSE "failed"
  PROVE  IInv'
<1> DEFINE q == CompressChunkOrAll(z, n, room, "Z_FINISH")
<1>1. /\ source \in Nat /\ taken \in Nat /\ taken <= source /\ told \in Nat /\ written \in Nat
      /\ calls \in Nat /\ MaxCalls \in Nat /\ mode \in Modes /\ source \in SourceLens
      /\ tight \in BOOLEAN
  BY Numerals DEF IInv, TypeOK
<1>2. /\ IsResult(q) /\ q.z \in Object /\ q.took \in 0..n
      /\ q.len \in Nat /\ q.wrote \in Nat /\ (mode # "gzip" => q.len = q.wrote)
      /\ q.ret \in {"Z_OK", "Z_BUF_ERROR"}
      /\ q.ret = "Z_BUF_ERROR" => q.z.first
      /\ q.ret = "Z_OK" =>
           /\ q.took = n /\ q.z.size = taken + n
           /\ mode = "gzip" => q.z.crc = taken + n
           /\ written + q.wrote = q.z.stream.made + HeaderLen
           /\ q.z.stream.pending = 0 /\ q.z.stream.ended
  BY ChunkOrAllCounts DEF Flushes
<1> HIDE DEF q
<1>3. /\ f.took = q.took
      /\ f.ret = "Z_OK" => /\ q.ret = "Z_OK" /\ f.z = Reset(q.z)
                           /\ f.len = q.len + FooterLen /\ f.wrote = q.wrote + FooterLen
      /\ f.ret # "Z_OK" => /\ f.z = IF q.ret = "Z_OK" THEN Reset(q.z) ELSE q.z
                           /\ f.len = q.len /\ f.wrote = q.wrote
  BY <1>2, FinishResult DEF q
<1>4. /\ Reset(q.z) \in Object /\ Reset(q.z).first /\ Reset(q.z).size = q.z.size
      /\ Reset(q.z).crc = q.z.crc /\ Reset(q.z).stream = q.z.stream
  BY <1>2, ResetObject
<1>5. FooterLen \in Nat
  BY DEF FooterLen, FooterSize
<1>6. /\ f.z \in Object /\ f.z.first
      /\ f.len \in Nat /\ f.wrote \in Nat /\ (mode # "gzip" => f.len = f.wrote)
  <2>1. CASE f.ret = "Z_OK"
    <3>1. f.z \in Object /\ f.z.first
      BY <1>3, <1>4, <2>1
    <3>2. f.len = q.len + FooterLen /\ f.wrote = q.wrote + FooterLen
      BY <1>3, <2>1
    <3>3. f.len \in Nat /\ f.wrote \in Nat /\ (mode # "gzip" => f.len = f.wrote)
      BY <1>2, <1>5, <3>2
    <3> QED
      BY <3>1, <3>3
  <2>2. CASE f.ret # "Z_OK"
    <3>1. f.z \in Object /\ f.z.first
      BY <1>2, <1>3, <1>4, <2>2
    <3> QED
      BY <1>2, <1>3, <2>2, <3>1
  <2> QED
    BY <2>1, <2>2
<1>7. taken' \in 0..source
  BY <1>1, <1>2, <1>3
<1>8. told' \in Nat /\ written' \in Nat /\ (mode # "gzip" => told' = written')
  BY <1>1, <1>6 DEF IInv, ToldInv
<1>9. z' \in Object /\ z'.first /\ tight' \in BOOLEAN
  BY <1>1, <1>6
<1>10. CASE f.ret # "Z_OK"
  <2>1. phase' = "failed"
    BY <1>10
  <2> QED
    BY <1>7, <1>8, <1>9, <2>1, FailureKeeps
<1>11. CASE f.ret = "Z_OK"
  <2>1. phase' = "done"
    BY <1>11
  <2>2. TypeOK'
    BY <1>1, <1>7, <1>8, <1>9, <2>1 DEF TypeOK
  <2>3. ChunksInv' /\ CountsInv' /\ ToldInv'
    BY <1>8, <1>9, <2>1 DEF ChunksInv, CountsInv, ToldInv
  <2>4. q.ret = "Z_OK" /\ z' = Reset(q.z) /\ f.wrote = q.wrote + FooterLen
    BY <1>3, <1>11
  <2>5. taken' = source' /\ z'.size = source' /\ (mode' = "gzip" => z'.crc = source')
    BY <1>1, <1>2, <1>3, <1>4, <2>4
  <2>6. z'.stream.ended /\ z'.stream.pending = 0
    BY <1>2, <1>4, <2>4
  <2>7. z'.stream.made \in Nat /\ z'.stream = q.z.stream
    BY <1>4, <1>9, <2>4 DEF Object
  <2>8. written' = z'.stream.made + HeaderLen + FooterLen
    <3>1. PICK made \in Nat : made = z'.stream.made /\ made = q.z.stream.made
      BY <2>7
    <3>2. written + q.wrote = made + HeaderLen
      BY <1>2, <2>4, <3>1
    <3>3. HeaderLen \in Nat
      BY DEF HeaderLen, HeaderSize
    <3> QED
      BY <1>1, <1>2, <1>5, <2>4, <3>1, <3>2, <3>3
  <2>9. HeaderLen + FooterLen = (IF mode' = "gzip" THEN HeaderSize + FooterSize ELSE 0)
    BY DEF HeaderLen, FooterLen, HeaderSize, FooterSize
  <2>10. HeaderLen \in Nat
    BY DEF HeaderLen, HeaderSize
  <2>11. written' = z'.stream.made + (IF mode' = "gzip" THEN HeaderSize + FooterSize ELSE 0)
    <3>1. written' = z'.stream.made + (HeaderLen + FooterLen)
      BY <1>5, <2>7, <2>8, <2>10
    <3> QED
      BY <2>9, <3>1
  <2>12. OutputComplete'
    BY <2>5, <2>6, <2>11 DEF OutputComplete
  <2> QED
    BY <2>2, <2>3, <2>12 DEF IInv
<1> QED
  BY <1>10, <1>11

LEMMA CompressKeeps ==
  ASSUME IInv, NEW room \in Rooms, Compress(room)
  PROVE  IInv'
<1> DEFINE f == CompressAll(z, source, room)
<1>1. /\ phase = "open" /\ UNCHANGED <<mode, source>> /\ UNCHANGED tight
      /\ phase' = IF f.ret = "Z_OK" THEN "done" ELSE "failed"
      /\ calls < MaxCalls /\ calls' = calls + 1 /\ taken = 0
      /\ z' = f.z /\ taken' = taken + f.took /\ told' = told + f.len
      /\ written' = written + f.wrote
  BY DEF Compress, Got
<1>2. source \in Nat /\ room \in Nat /\ taken + source = source
  BY <1>1, Numerals, CompressAssumption DEF IInv
<1>3. f = FinishIfOk(CompressChunkOrAll(z, source, room, "Z_FINISH"), room)
  BY DEF CompressAll
<1> HIDE DEF f
<1> QED
  BY <1>1, <1>2, <1>3, EndKeeps

LEMMA CompressChunkDoneKeeps ==
  ASSUME IInv, NEW room \in Rooms, CompressChunkDone(room)
  PROVE  IInv'
<1> DEFINE f == CompressDone(z, room)
<1>1. /\ phase = "open" /\ UNCHANGED <<mode, source>> /\ UNCHANGED tight
      /\ phase' = CASE f.ret = "Z_OK" -> "done"
                    [] room < MinFooterSize -> "open"
                    [] OTHER -> "failed"
      /\ calls < MaxCalls /\ calls' = calls + 1 /\ taken = source
      /\ z' = f.z /\ taken' = taken + f.took /\ told' = told + f.len
      /\ written' = written + f.wrote
  BY DEF CompressChunkDone, Got
<1>2. source \in Nat /\ room \in Nat /\ taken + 0 = source
  BY <1>1, Numerals, CompressAssumption DEF IInv
<1>3. CASE room < MinFooterSize
  <2>1. f = Returns(z, "Z_BUF_ERROR", 0, 0, 0)
    BY <1>3 DEF CompressDone
  <2> HIDE DEF f
  <2>2. f.z = z /\ f.ret = "Z_BUF_ERROR" /\ f.took = 0 /\ f.len = 0 /\ f.wrote = 0
    BY <2>1, ReturnsResult
  <2>3. /\ z' = z /\ taken' = taken /\ told' = told /\ written' = written
        /\ phase' = phase
    <3>1. z' = z /\ phase' = phase
      BY <1>1, <1>3, <2>2
    <3> QED
      BY <1>1, <2>2, <3>1, Numerals DEF IInv
  <2>4. calls' \in 0..MaxCalls
    BY <1>1, Numerals DEF IInv, TypeOK
  <2> QED
    BY <1>1, <2>3, <2>4
       DEF IInv, TypeOK, ChunksInv, CountsInv, ToldInv, OutputComplete, HeaderLen
<1>4. CASE ~(room < MinFooterSize)
  <2>1. f = FinishIfOk(CompressChunkOrAll(z, 0, room, "Z_FINISH"), room)
    BY <1>4 DEF CompressDone
  <2>2. phase' = IF f.ret = "Z_OK" THEN "done" ELSE "failed"
    BY <1>1, <1>4
  <2> HIDE DEF f
  <2>3. 0 \in Nat
    OBVIOUS
  <2> QED
    BY <1>1, <1>2, <2>1, <2>2, <2>3, EndKeeps
<1> QED
  BY <1>3, <1>4

LEMMA NextDataKeeps ==
  ASSUME IInv, NEW n \in SourceLens, NextData(n)
  PROVE  IInv'
<1>1. /\ source' = n /\ taken' = 0 /\ told' = 0 /\ written' = 0 /\ tight' = FALSE
      /\ phase' = "open" /\ calls' = 0 /\ mode' = mode /\ z' = z /\ z.first
  BY DEF NextData, IInv, ChunksInv
<1>2. n \in Nat /\ MaxCalls \in Nat
  BY CompressAssumption
<1>3. TypeOK'
  <2>1. taken' \in 0..source' /\ told' \in Nat /\ written' \in Nat /\ calls' \in 0..MaxCalls
    BY <1>1, <1>2
  <2>2. mode' \in Modes /\ z' \in Object /\ source' \in SourceLens /\ tight' \in BOOLEAN
    BY <1>1 DEF IInv, TypeOK
  <2> QED
    BY <1>1, <2>1, <2>2 DEF TypeOK
<1> QED
  BY <1>1, <1>3 DEF IInv, ChunksInv, CountsInv, ToldInv, OutputComplete

LEMMA Inductive == IInv /\ [Next]_vars => IInv'
<1> SUFFICES ASSUME IInv, [Next]_vars PROVE IInv'
  OBVIOUS
<1>1. ASSUME NEW n \in 0..source, NEW room \in Rooms, CompressChunk(n, room) PROVE IInv'
  BY <1>1, CompressChunkKeeps
<1>2. ASSUME NEW n \in 0..source, NEW room \in Rooms, CompressAtMost(n, room) PROVE IInv'
  BY <1>2, CompressAtMostKeeps
<1>3. ASSUME NEW room \in Rooms, CompressChunkDone(room) PROVE IInv'
  BY <1>3, CompressChunkDoneKeeps
<1>4. ASSUME NEW room \in Rooms, Compress(room) PROVE IInv'
  BY <1>4, CompressKeeps
<1>5. ASSUME NEW n \in SourceLens, NextData(n) PROVE IInv'
  BY <1>5, NextDataKeeps
<1>6. CASE UNCHANGED vars
  BY <1>6 DEF vars, IInv, TypeOK, ChunksInv, CountsInv, ToldInv, OutputComplete, HeaderLen
<1> QED
  BY <1>1, <1>2, <1>3, <1>4, <1>5, <1>6, Zenon DEF Next

-----------------------------------------------------------------------------
(***************************************************************************)
(* A gzip file can be ended in MinFooterSize bytes                         *)
(***************************************************************************)
\* With nothing pending the last block of 2 bytes is all that deflate writes.
LEMMA LastBlockIsShort ==
  ASSUME mode = "gzip", NEW stream \in Streams, stream.pending = 0, ~stream.ended,
         NEW room \in Nat, room >= 2
  PROVE  LET d == deflate(stream, 0, room, "Z_FINISH")
         IN  d.out = 2 /\ d.ret = "Z_STREAM_END"
<1> DEFINE d == deflate(stream, 0, room, "Z_FINISH")
<1>1. Closing(stream, 0, "Z_FINISH") = 2
  BY DEF Closing
<1>2. Least(0, room - 0) = 0 /\ Least(2, room) = 2
  BY DEF Least
<1>3. d = Deflated(stream, 0, TRUE, "Z_FINISH", 2, 2)
  <2> DEFINE free == IF room < stream.pending THEN 0 ELSE room - stream.pending
             consumed == Least(0, free)
             total == stream.pending + consumed
                        + IF consumed = 0 THEN Closing(stream, 0, "Z_FINISH") ELSE 0
  <2>1. d = Deflated(stream, consumed, consumed = 0, "Z_FINISH", total, Least(total, room))
    BY DEF deflate
  <2>2. free = room - 0
    OBVIOUS
  <2>3. consumed = 0
    BY <1>2, <2>2
  <2> HIDE DEF consumed
  <2>4. total = 2
    BY <1>1, <2>3
  <2>5. (consumed = 0) = TRUE
    BY <2>3
  <2> HIDE DEF total, d
  <2> QED
    BY <1>2, <2>1, <2>3, <2>4, <2>5
<1>4. d.out = 2 /\ d.ret = "Z_STREAM_END"
  BY <1>3 DEF Deflated
<1> QED
  BY <1>4

LEMMA FooterFits == IInv => MinFooterSizeIsEnough
<1> SUFFICES ASSUME IInv, mode = "gzip", phase = "open", ~z.first, ~tight,
                    NEW room \in Rooms, room >= MinFooterSize
             PROVE  CompressDone(z, room).ret = "Z_OK"
  BY DEF MinFooterSizeIsEnough
<1> DEFINE d == deflate(z.stream, 0, room, "Z_FINISH")
           r == CompressAtMostOrAll(z, 0, room, "Z_FINISH")
           q == CompressChunkOrAll(z, 0, room, "Z_FINISH")
<1>1. room \in Nat /\ room >= 10 /\ ~(room < MinFooterSize)
  BY CompressAssumption DEF MinFooterSize, FooterSize
<1>2. z \in Object /\ z.stream \in Streams /\ z.stream.pending = 0 /\ ~z.stream.ended
  BY Numerals DEF IInv, CountsInv, Object, Streams
<1>3. d.out = 2 /\ d.ret = "Z_STREAM_END"
  BY <1>1, <1>2, LastBlockIsShort
<1>4. r = AfterDeflate(z, 0, room, 0 + d.out, d)
  <2>1. room - 0 = room
    BY <1>1
  <2> QED
    BY <2>1 DEF CompressAtMostOrAll, DeflateMore
<1> HIDE DEF d
<1>5. r.len = 2 /\ r.wrote = 2 /\ r.ret = "Z_OK"
  BY <1>1, <1>3, <1>4 DEF AfterDeflate, Returns, DestLen
<1>6. IsResult(r)
  BY AtMostResult
<1>7. q = BufErrorEnds(r)
  BY DEF CompressChunkOrAll
<1> HIDE DEF r
<1>8. IsResult(q) /\ q.len = 2 /\ q.wrote = 2 /\ q.ret = "Z_OK"
  BY <1>5, <1>6, <1>7, BufErrorResult
<1>9. CompressDone(z, room) = FinishIfOk(q, room)
  BY <1>1 DEF CompressDone
<1> HIDE DEF q
<1>10. room - q.len >= FooterSize
  BY <1>1, <1>8 DEF FooterSize
<1>11. q.len \in Nat /\ q.wrote \in Nat
  BY <1>8
<1>12. FinishIfOk(q, room).ret = "Z_OK"
  BY <1>1, <1>8, <1>10, <1>11, FinishResult
<1> QED
  BY <1>9, <1>12

-----------------------------------------------------------------------------
(***************************************************************************)
(* The results                                                             *)
(***************************************************************************)
LEMMA Invariant == Spec => []IInv
<1> QED
  BY Initially, Inductive, PTL DEF Spec

\* The variables of the object and of its caller are of their types: no call
\* takes more than the source has, and every length is a natural number.
THEOREM CompressTyped == Spec => []TypeOK
<1>1. IInv => TypeOK
  BY DEF IInv
<1> QED
  BY <1>1, Invariant, PTL

\* However data and destinations are cut, in every header mode: the output of a
\* piece of data is its header, all deflate made of it, and a footer that counts
\* its bytes (Compress, CompressChunk, CompressAtMost, CompressChunkDone);
\* without a gzip header destLen is what was written; and a gzip file can be
\* ended in a destination of MinFooterSize bytes.
THEOREM CompressionWhole == Spec => []CompressedWhole
<1>1. IInv => OutputComplete /\ LengthTold
  BY DEF IInv, ToldInv, LengthTold
<1>2. IInv => CompressedWhole
  BY <1>1, FooterFits DEF CompressedWhole
<1> QED
  BY <1>2, Invariant, PTL
=============================================================================
