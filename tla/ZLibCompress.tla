---------------------------- MODULE ZLibCompress ----------------------------
(***************************************************************************)
(* The compressing half of class ZLib (compression/zlibwrapper.cc): one    *)
(* object that compresses data in one call (Compress) or in chunks         *)
(* (CompressChunk or CompressAtMost, then CompressChunkDone) into          *)
(* destinations of any size.  ZLibSettings models how the stream is        *)
(* configured; here the bytes that go in and out of it are counted.        *)
(***************************************************************************)
EXTENDS Integers

CONSTANTS
  Modes,      \* of "gzip", "bare" (no-header mode) and "zlib"
  SourceLens, \* the lengths of the data
  Rooms,      \* the sizes of the destinations
  MaxCalls    \* bound: the calls for one piece of data

ASSUME CompressAssumption ==
  /\ Modes \subseteq {"gzip", "bare", "zlib"} /\ SourceLens \subseteq Nat
  /\ Rooms \subseteq Nat /\ MaxCalls \in Nat

HeaderSize == 10 \* sizeof(GZIP_HEADER) - 1: without the '\0'
FooterSize == 8

VARIABLES
  mode,    \* what settings_ says of the header
  z,       \* the ZLib object
  source,  \* the length of the data
  taken,   \* how much of it was taken
  told,    \* the sum of the lengths the calls returned in destLen
  written, \* the bytes they wrote
  tight,   \* the last chunk returned Z_BUF_ERROR
  phase,   \* "open", "done", or "failed"
  calls

vars == <<mode, z, source, taken, told, written, tight, phase, calls>>

-----------------------------------------------------------------------------
(***************************************************************************)
(* zlib's deflate (external), for data that does not shrink: a byte for a  *)
(* byte.  A flush ends with an empty block of 5 bytes, the data with one   *)
(* of 2 bytes, and a stream with a zlib header has 2 bytes before the data *)
(* and 4 after it.  Bytes for which there is no room stay pending.         *)
(***************************************************************************)
NewStream == [pending |-> IF mode = "zlib" THEN 2 ELSE 0,
              flushed |-> FALSE, ended |-> FALSE, made |-> 0]

Closing(stream, n, flush) ==
  CASE flush = "Z_FINISH" /\ ~stream.ended -> IF mode = "zlib" THEN 6 ELSE 2
    [] flush = "Z_SYNC_FLUSH" /\ (n > 0 \/ ~stream.flushed) -> 5
    [] OTHER -> 0

\* Of the bytes in total, out are written.
Deflated(stream, consumed, all, flush, total, out) ==
  LET ended == stream.ended \/ (all /\ flush = "Z_FINISH")
  IN  [consumed |-> consumed, out |-> out,
       stream |-> [pending |-> total - out, flushed |-> all, ended |-> ended,
                   made |-> stream.made + out],
       ret |-> CASE ended /\ total = out -> "Z_STREAM_END"
                 [] consumed + out = 0 -> "Z_BUF_ERROR"
                 [] OTHER -> "Z_OK"]

Least(a, b) == IF a < b THEN a ELSE b

deflate(stream, n, room, flush) ==
  LET free     == IF room < stream.pending THEN 0 ELSE room - stream.pending
      consumed == Least(n, free)
      total    == stream.pending + consumed
                    + IF consumed = n THEN Closing(stream, n, flush) ELSE 0
  IN  Deflated(stream, consumed, consumed = n, flush, total, Least(total, room))

-----------------------------------------------------------------------------
(***************************************************************************)
(* The methods, as functions of the object.  A result is the object, the   *)
(* value returned, what was taken of the source, the length returned in    *)
(* destLen and the bytes written.                                          *)
(***************************************************************************)
Object == [first : BOOLEAN, crc : Nat, size : Nat,
           stream : [pending : Nat, flushed : BOOLEAN, ended : BOOLEAN, made : Nat]]

Virgin == [first |-> TRUE, crc |-> 0, size |-> 0, stream |-> NewStream]

Reset(o) == [o EXCEPT !.first = TRUE]

\* The stream is ended; the next first chunk makes a new one.
CompressErrorInit(o) == Reset(o)

\* For a first chunk the stream is reset or made anew.
CompressInit(o) == IF o.first THEN [o EXCEPT !.stream = NewStream] ELSE o

\* 2 for an empty block.
MinFooterSize == IF mode = "gzip" THEN 2 + FooterSize ELSE 2

Returns(o, ret, took, len, wrote) ==
  [z |-> o, ret |-> ret, took |-> took, len |-> len, wrote |-> wrote]

\* Mutant: the header is written without a look at the destination.
NoRoomForHeaderUnchecked(room) == FALSE

\* WriteGzipHeader compares with sizeof, the '\0' included.
NoRoomForHeader(room) == room < HeaderSize + 1

\* Mutant: the footer counts the whole source, taken or not.
ConsumedAll(r, n) == n

\* source_bytes_consumed
Consumed(r, n) == r.consumed

\* *destLen
DestLen(len, room) == len

(***************************************************************************)
(* CompressAtMostOrAll, WriteGzipHeader for a first chunk included.  A     *)
(* full destination is Z_BUF_ERROR, also if everything fitted.             *)
(***************************************************************************)
AfterDeflate(o, n, room, len, r) ==
  Returns([o EXCEPT !.stream = r.stream, !.size = @ + Consumed(r, n),
                    !.crc = IF mode = "gzip" THEN @ + Consumed(r, n) ELSE @],
          IF len = room \/ r.ret = "Z_BUF_ERROR" THEN "Z_BUF_ERROR" ELSE "Z_OK",
          r.consumed, DestLen(len, room), len)

DeflateMore(o, n, room, header, r) == AfterDeflate(o, n, room, header + r.out, r)

CompressAtMostOrAll(o, n, room, flush) ==
  LET header == IF o.first /\ mode = "gzip" THEN HeaderSize ELSE 0
      begun  == IF o.first
                THEN [CompressInit(o) EXCEPT !.first = FALSE, !.size = 0,
                                             !.crc = IF mode = "gzip" THEN 0 ELSE @]
                ELSE o
  IN  IF header > 0 /\ NoRoomForHeader(room)
      THEN Returns(CompressInit(o), "Z_BUF_ERROR", 0, room, 0)
      ELSE DeflateMore(begun, n, room, header,
                       deflate(begun.stream, n, room - header, flush))

\* A full destination is an error here.
BufErrorEnds(r) ==
  IF r.ret = "Z_BUF_ERROR" THEN [r EXCEPT !.z = CompressErrorInit(@)] ELSE r

CompressChunkOrAll(o, n, room, flush) ==
  BufErrorEnds(CompressAtMostOrAll(o, n, room, flush))

\* WriteGzipFooter behind the data, if the mode asks for it.
Finish(r, room) ==
  IF mode # "gzip" THEN r
  ELSE IF room - r.len < FooterSize THEN [r EXCEPT !.ret = "Z_BUF_ERROR"]
  ELSE [r EXCEPT !.len = @ + FooterSize, !.wrote = @ + FooterSize]

\* After an error CompressErrorInit has reset the object already.
FinishIfOk(r, room) == IF r.ret = "Z_OK" THEN Finish([r EXCEPT !.z = Reset(@)], room) ELSE r

CompressDone(o, room) ==
  IF room < MinFooterSize THEN Returns(o, "Z_BUF_ERROR", 0, 0, 0)
  ELSE FinishIfOk(CompressChunkOrAll(o, 0, room, "Z_FINISH"), room)

CompressAll(o, n, room) ==
  FinishIfOk(CompressChunkOrAll(o, n, room, "Z_FINISH"), room)

-----------------------------------------------------------------------------
Init ==
  /\ mode \in Modes /\ z = Virgin /\ source \in SourceLens
  /\ taken = 0 /\ told = 0 /\ written = 0 /\ tight = FALSE
  /\ phase = "open" /\ calls = 0

Got(r, end) ==
  /\ phase = "open" /\ calls < MaxCalls /\ calls' = calls + 1
  /\ z' = r.z /\ taken' = taken + r.took
  /\ told' = told + r.len /\ written' = written + r.wrote
  /\ phase' = end /\ UNCHANGED <<mode, source>>

CompressChunk(n, room) ==
  LET r == CompressChunkOrAll(z, n, room, "Z_SYNC_FLUSH") IN
  /\ taken + n <= source
  /\ Got(r, IF r.ret = "Z_OK" THEN "open" ELSE "failed")
  /\ tight' = FALSE

\* The caller goes on with what was not taken.
CompressAtMost(n, room) ==
  LET r == CompressAtMostOrAll(z, n, room, "Z_SYNC_FLUSH") IN
  /\ taken + n <= source
  /\ Got(r, "open")
  /\ tight' = (r.ret = "Z_BUF_ERROR")

\* assert(!first_chunk_ && comp_init_); a destination too small may be
\* followed by a larger one.
CompressChunkDone(room) ==
  LET r == CompressDone(z, room) IN
  /\ ~z.first /\ taken = source
  /\ Got(r, CASE r.ret = "Z_OK" -> "done"
              [] room < MinFooterSize -> "open"
              [] OTHER -> "failed")
  /\ UNCHANGED tight

Compress(room) ==
  LET r == CompressAll(z, source, room) IN
  /\ z.first /\ taken = 0
  /\ Got(r, IF r.ret = "Z_OK" THEN "done" ELSE "failed")
  /\ UNCHANGED tight

\* The object is used again.
NextData(n) ==
  /\ phase # "open"
  /\ source' = n /\ taken' = 0 /\ told' = 0 /\ written' = 0 /\ tight' = FALSE
  /\ phase' = "open" /\ calls' = 0
  /\ UNCHANGED <<mode, z>>

Next ==
  \/ \E n \in 0 .. source, room \in Rooms :
       CompressChunk(n, room) \/ CompressAtMost(n, room)
  \/ \E room \in Rooms : CompressChunkDone(room) \/ Compress(room)
  \/ \E n \in SourceLens : NextData(n)

Spec == Init /\ [][Next]_vars

-----------------------------------------------------------------------------
\* The variables are of their types: never more written than there is room for,
\* which would make a length negative.
TypeOK ==
  /\ mode \in Modes /\ z \in Object
  /\ source \in SourceLens /\ taken \in 0 .. source
  /\ told \in Nat /\ written \in Nat
  /\ tight \in BOOLEAN /\ phase \in {"open", "done", "failed"}
  /\ calls \in 0 .. MaxCalls

(***************************************************************************)
(* However the data and the destinations are cut, and whatever failed      *)
(* before: what was written for a piece of data is its header, every byte  *)
(* deflate made of it, and a footer that counts exactly its bytes.         *)
(***************************************************************************)
OutputComplete ==
  phase = "done" =>
    /\ taken = source /\ z.size = source
    /\ z.stream.ended /\ z.stream.pending = 0
    /\ written = z.stream.made
                   + (IF mode = "gzip" THEN HeaderSize + FooterSize ELSE 0)
    /\ mode = "gzip" => z.crc = source

(***************************************************************************)
(* Every call of a caller that goes on after Z_BUF_ERROR tells in destLen  *)
(* how many bytes it wrote, so the caller can put the output together.     *)
(* (With a gzip header this holds only if the first destination has room   *)
(* for it: without, the call returns before it sets destLen.)              *)
(***************************************************************************)
LengthTold == mode # "gzip" /\ phase # "failed" => told = written

(***************************************************************************)
(* zlibwrapper.h on CompressChunkDone: "destLen should be at least         *)
(* MinFooterSize() long": such a destination is enough, unless bytes were  *)
(* still pending from a chunk that returned Z_BUF_ERROR.  (Of a gzip file: *)
(* a zlib stream needs more than these two bytes, and a bare one is        *)
(* reported as cut short when it fills them.)                              *)
(***************************************************************************)
MinFooterSizeIsEnough ==
  mode = "gzip" /\ phase = "open" /\ ~z.first /\ ~tight =>
    \A room \in Rooms : room >= MinFooterSize => CompressDone(z, room).ret = "Z_OK"

(***************************************************************************)
(* What was written for a piece of data is its header, all deflate made of *)
(* it and a footer that counts its bytes (Compress, CompressAtMost and the *)
(* others); without a gzip header every call tells the length of what it   *)
(* wrote (destLen), and with a gzip footer CompressChunkDone has enough    *)
(* room in MinFooterSize bytes.                                            *)
(***************************************************************************)
CompressedWhole == OutputComplete /\ LengthTold /\ MinFooterSizeIsEnough
=============================================================================
