--------------------------- MODULE ZLibUncompress ---------------------------
(***************************************************************************)
(* The uncompressing half of class ZLib (compression/zlibwrapper.cc): one  *)
(* object that is given documents one after the other, each in one call    *)
(* (Uncompress, UncompressGzipAndAllocate) or in chunks (UncompressChunk   *)
(* or UncompressAtMost, then UncompressChunkDone).                         *)
(*                                                                         *)
(* A gzip document is a header, deflated data and a footer with the        *)
(* checksum and the length of the data.  Here a deflated byte is "Block",  *)
(* which stands for two bytes of data, or "Final", which stands for one    *)
(* and ends the data; the footer has one byte for the checksum and one     *)
(* for the length; and the checksum of n bytes of data is n.               *)
(***************************************************************************)
EXTENDS GZipHeader, FiniteSetsExt, TLC

CONSTANTS
  Gzip,      \* settings_.gzip_header_mode_, else settings_.no_header_mode_
  Flexible,  \* FLAGS_flexible_with_gzip_footer
  Documents, \* the documents, as sequences of bytes
  Rooms,     \* the sizes of the destination of a chunk
  MaxDocs    \* bound: the documents given to the object

Block == 1
Final == 3
FooterSize == 2 \* sizeof(gzip_footer_)

VARIABLES
  z,       \* the ZLib object
  doc,     \* the document
  pos,     \* how many of its bytes were supplied and taken
  out,     \* how many bytes of data the caller got
  full,    \* the last chunk returned Z_OK with its destination full
  verdict, \* "open", or what the caller was told of the document
  docs,    \* the documents begun
  cut      \* history: one before this document was cut in its header

vars == <<z, doc, pos, out, full, verdict, docs, cut>>

-----------------------------------------------------------------------------
(***************************************************************************)
(* zlib's inflate (external).  It takes the next byte once the data of the *)
(* last one is written, also when the destination is full, and returns     *)
(* Z_BUF_ERROR if it could do nothing or was told to finish and did not.   *)
(***************************************************************************)
NewStream == [pending |-> 0, ended |-> FALSE, total |-> 0]

inflate(stream, src, room, flush) ==
  LET yield(byte) == IF byte = Block THEN 2 ELSE 1
      run[read \in 0 .. Len(src), pending \in Nat, ended \in BOOLEAN, o \in Nat] ==
        LET n == Min({pending, room - o}) IN
        IF \/ pending > n \/ ended \/ read = Len(src)
           \/ src[read + 1] \notin {Block, Final}
        THEN [read |-> read, out |-> o + n,
              stream |-> [pending |-> pending - n, ended |-> ended,
                          total |-> stream.total + o + n],
              ret |-> CASE pending = n /\ ended -> "Z_STREAM_END"
                        [] pending = n /\ ~ended /\ read < Len(src) -> "Z_DATA_ERROR"
                        [] flush = "Z_FINISH" \/ read + o + n = 0 -> "Z_BUF_ERROR"
                        [] OTHER -> "Z_OK"]
        ELSE run[read + 1, yield(src[read + 1]), src[read + 1] = Final, o + n]
  IN  run[0, stream.pending, stream.ended, 0]

-----------------------------------------------------------------------------
(***************************************************************************)
(* The methods, as functions of the object.  A result is the object, the   *)
(* value returned, the bytes left of the source and the bytes of data.     *)
(***************************************************************************)
Object ==
  [first : BOOLEAN, parser : Parser, init : BOOLEAN, footer : Seq(Byte),
   footerBytes : -1 .. FooterSize, crc : Nat, size : Nat,
   stream : [pending : Nat, ended : BOOLEAN, total : Nat]]

Reinit ==
  [first |-> TRUE, parser |-> Reset, init |-> FALSE, footer |-> <<>>,
   footerBytes |-> -1, crc |-> 0, size |-> 0, stream |-> NewStream]

\* ZLib::Reset
ResetObject(o) == [o EXCEPT !.first = TRUE, !.parser = Reset]

UncompressErrorInit(o) == ResetObject([o EXCEPT !.init = FALSE])

\* For the first chunk the stream is reset or made anew.
UncompressInit(o) ==
  IF o.first THEN [o EXCEPT !.stream = NewStream, !.init = TRUE] ELSE o

Returns(o, ret, left, n) == [z |-> o, ret |-> ret, left |-> left, out |-> n]

\* Mutant: the bytes of the footer already read are overwritten.
ReadFooterOverwrites(o, src) ==
  LET room == FooterSize - o.footerBytes
      len  == Min({room, Len(src)})
  IN  IF Len(src) > room /\ ~Flexible
      THEN Returns(ResetObject(o), "Z_DATA_ERROR", Len(src), 0)
      ELSE Returns([o EXCEPT !.footer = SubSeq(src, 1, len)
                                          \o SubSeq(@ \o <<0, 0>>, len + 1, FooterSize),
                             !.footerBytes = @ + len],
                   "Z_OK", Len(src) - len, 0)

\* The data is complete, what comes now is the footer.
ReadFooter(o, src) ==
  LET room == FooterSize - o.footerBytes
      len  == Min({room, Len(src)})
  IN  IF Len(src) > room /\ ~Flexible
      THEN Returns(ResetObject(o), "Z_DATA_ERROR", Len(src), 0)
      ELSE Returns([o EXCEPT !.footer = @ \o SubSeq(src, 1, len),
                             !.footerBytes = @ + len],
                   "Z_OK", Len(src) - len, 0)

\* What inflate did, and the footer behind the data, if any.
AfterInflate(o, src, room, r) ==
  LET rest == SubSeq(src, r.read + 1, Len(src))
      foot == Min({FooterSize, Len(rest)})
      new  == [o EXCEPT !.stream = r.stream, !.size = r.stream.total,
                        !.crc = IF Gzip THEN @ + r.out ELSE @]
  IN  CASE /\ r.ret = "Z_STREAM_END" /\ o.footerBytes < FooterSize
           /\ Len(rest) <= FooterSize \/ Flexible ->
             Returns([new EXCEPT !.footer = SubSeq(rest, 1, foot),
                                 !.footerBytes = foot],
                     "Z_OK", Len(rest) - foot, r.out)
        [] r.ret \in {"Z_STREAM_END", "Z_OK"} /\ rest = <<>> ->
             Returns(new, "Z_OK", 0, r.out)
        [] r.ret \in {"Z_STREAM_END", "Z_DATA_ERROR"} ->
             Returns(UncompressErrorInit(o), "Z_DATA_ERROR", Len(rest), r.out)
        [] OTHER ->
             Returns(new, IF r.out = room THEN "Z_BUF_ERROR" ELSE r.ret,
                     Len(rest), r.out)

InflateMore(o, src, room, flush) ==
  AfterInflate(o, src, room, inflate(o.stream, src, room, flush))

\* The call, with what ReadMore made of the source for a first chunk.
AfterHeader(o, src, room, flush, head) ==
  LET body  == IF Gzip /\ o.first THEN SubSeq(src, head.end + 1, Len(src)) ELSE src
      fresh == IF o.first THEN [o EXCEPT !.footerBytes = -1] ELSE o
      read  == IF Gzip /\ o.first THEN [fresh EXCEPT !.parser = head.parser]
               ELSE fresh
      ready == UncompressInit([read EXCEPT !.crc = IF Gzip /\ o.first THEN 0 ELSE @])
      begun == [ready EXCEPT !.first = FALSE]
  IN  CASE Gzip /\ o.first /\ head.status = "INCOMPLETE_HEADER" ->
             Returns(read, "Z_OK", 0, 0)
        [] Gzip /\ o.first /\ head.status = "INVALID_HEADER" ->
             Returns(ResetObject(fresh), "Z_DATA_ERROR", Len(src), 0)
        [] ~o.first /\ o.footerBytes >= 0 -> ReadFooter(o, src)
        [] o.first /\ body = <<>> -> Returns(begun, "Z_OK", 0, 0)
        [] OTHER -> InflateMore(begun, body, room, flush)

UncompressAtMostOrAll(o, src, room, flush) ==
  AfterHeader(o, src, room, flush, ReadMore(o.parser, src))

\* A destination that was too small is an error here.
BufErrorEnds(r) ==
  IF r.ret = "Z_BUF_ERROR" THEN [r EXCEPT !.z = UncompressErrorInit(@)] ELSE r

UncompressChunkOrAll(o, src, room, flush) ==
  BufErrorEnds(UncompressAtMostOrAll(o, src, room, flush))

IsGzipFooterComplete(o) == o.footerBytes >= FooterSize

IsGzipFooterValid(o) ==
  /\ IsGzipFooterComplete(o)
  /\ o.footer[2] = o.size % 256
  /\ o.footer[1] = o.crc

\* r is what the last call, for no bytes, made of the object.
CheckFooter(r) ==
  IF r.ret # "Z_OK" THEN [z |-> r.z, ok |-> FALSE]
  ELSE [z  |-> ResetObject(r.z),
        ok |-> \/ Flexible
               \/ /\ r.z.footerBytes \in {-1, 0, FooterSize}
                  /\ Gzip => IsGzipFooterValid(r.z)]

UncompressChunkDone(o) ==
  IF o.first \/ ~o.init THEN [z |-> o, ok |-> FALSE]
  ELSE CheckFooter(UncompressChunkOrAll(o, <<>>, 0, "Z_FINISH"))

\* r is what the call for all bytes made of the object.
FinishAll(r) ==
  IF r.ret # "Z_OK" THEN [z |-> ResetObject(r.z), ok |-> FALSE, out |-> 0]
  ELSE [out |-> r.out] @@ UncompressChunkDone(r.z)

\* Uncompress: the object, whether Z_OK is returned, and the bytes of data.
UncompressAll(o, src, room) ==
  FinishAll(UncompressChunkOrAll(o, src, room, "Z_FINISH"))

\* 0 for data too short to hold a length.
GzipUncompressedLength(src) == IF Len(src) <= 1 THEN 0 ELSE src[Len(src)]

-----------------------------------------------------------------------------
Init ==
  /\ z = Reinit /\ doc \in Documents
  /\ pos = 0 /\ out = 0 /\ full = FALSE /\ verdict = "open" /\ docs = 1
  /\ cut = FALSE

Told(ok) == verdict' = IF ok THEN "accepted" ELSE "rejected"

\* A chunk of n bytes and a destination of room bytes.
UncompressChunk(n, room) ==
  LET r == UncompressChunkOrAll(z, SubSeq(doc, pos + 1, pos + n), room,
                                "Z_SYNC_FLUSH") IN
  /\ verdict = "open" /\ pos + n <= Len(doc)
  /\ z' = r.z /\ pos' = pos + n /\ out' = out + r.out
  /\ IF r.ret = "Z_OK" THEN UNCHANGED verdict ELSE Told(FALSE)
  /\ full' = (r.ret = "Z_OK" /\ r.out = room)
  /\ UNCHANGED <<doc, docs, cut>>

(***************************************************************************)
(* As UncompressChunk, but the caller supplies again what was not taken.   *)
(* It may call again without bytes when a Z_OK came with a full            *)
(* destination, for there may be more data; or it may not.                 *)
(***************************************************************************)
UncompressAtMost(n, room) ==
  LET r == UncompressAtMostOrAll(z, SubSeq(doc, pos + 1, pos + n), room,
                                 "Z_SYNC_FLUSH") IN
  /\ verdict = "open" /\ pos + n <= Len(doc)
  /\ n > 0 \/ full
  /\ z' = r.z /\ pos' = pos + n - r.left /\ out' = out + r.out
  /\ IF r.ret = "Z_DATA_ERROR" THEN Told(FALSE) ELSE UNCHANGED verdict
  /\ full' = (r.ret = "Z_OK" /\ r.out = room)
  /\ UNCHANGED <<doc, docs, cut>>

\* The caller has no more bytes.
ChunkDone ==
  LET d == UncompressChunkDone(z) IN
  /\ verdict = "open" /\ pos = Len(doc)
  /\ z' = d.z /\ Told(d.ok)
  /\ UNCHANGED <<doc, pos, out, full, docs, cut>>

\* The destination has room for all the data.
Uncompress(room) ==
  LET r == UncompressAll(z, doc, room) IN
  /\ verdict = "open" /\ pos = 0
  /\ z' = r.z /\ Told(r.ok)
  /\ pos' = Len(doc) /\ out' = r.out
  /\ UNCHANGED <<doc, full, docs, cut>>

UncompressGzipAndAllocate(limit) ==
  LET length == GzipUncompressedLength(doc)
      r == UncompressAll(z, doc, length) IN
  /\ verdict = "open" /\ pos = 0 /\ Gzip
  /\ IF length > limit
     THEN z' = z /\ Told(FALSE) /\ out' = 0
     ELSE z' = r.z /\ Told(r.ok) /\ out' = r.out
  /\ pos' = Len(doc)
  /\ UNCHANGED <<doc, full, docs, cut>>

CutInHeader(d) ==
  Gzip /\ d # <<>> /\ ReadMore(Reset, d).status = "INCOMPLETE_HEADER"

NextDocument(d) ==
  /\ verdict # "open" /\ docs < MaxDocs
  /\ doc' = d /\ docs' = docs + 1 /\ cut' = (cut \/ CutInHeader(doc))
  /\ pos' = 0 /\ out' = 0 /\ full' = FALSE /\ verdict' = "open"
  /\ UNCHANGED z

\* Room for the data of any document.
Enough == 2 * Max({Len(d) : d \in Documents})

Next ==
  \/ \E n \in 1 .. Len(doc) : UncompressChunk(n, Enough)
  \/ \E n \in 0 .. Len(doc), room \in Rooms : UncompressAtMost(n, room)
  \/ ChunkDone
  \/ Uncompress(Enough)
  \/ UncompressGzipAndAllocate(Enough)
  \/ \E d \in Documents : NextDocument(d)

Spec == Init /\ [][Next]_vars

-----------------------------------------------------------------------------
\* The variables are of their types: the footer never has more bytes than fit.
TypeOK ==
  /\ z \in Object
  /\ doc \in Documents
  /\ pos \in 0 .. Len(doc)
  /\ out \in Nat /\ full \in BOOLEAN
  /\ verdict \in {"open", "accepted", "rejected"}
  /\ docs \in 1 .. MaxDocs /\ cut \in BOOLEAN

(***************************************************************************)
(* A document as a whole: where its header, data and footer end.           *)
(***************************************************************************)
Start(d) == IF Gzip THEN ReadMore(Reset, d).end ELSE 0
HasHeader(d) == Gzip => ReadMore(Reset, d).status = "COMPLETE_HEADER"

IsData(d, from, to) ==
  /\ from < to /\ d[to] = Final
  /\ \A i \in from + 1 .. to - 1 : d[i] = Block

DataLength(from, to) == 2 * (to - from) - 1

Valid(d) ==
  /\ HasHeader(d)
  /\ \E end \in Start(d) + 1 .. Len(d) :
       LET length == DataLength(Start(d), end) IN
       /\ IsData(d, Start(d), end)
       /\ \/ Flexible
          \/ /\ Len(d) = end + FooterSize
             /\ Gzip => d[end + 1] = length /\ d[end + 2] = length
          \/ ~Gzip /\ Len(d) = end

(***************************************************************************)
(* However a document is split, and whatever documents the object was      *)
(* given before it, it is accepted exactly when it is valid as a whole,    *)
(* and then the caller has all of its data; with two exceptions.  After a  *)
(* document that was cut within its header nothing is said, for            *)
(* UncompressChunkDone leaves the parser in the middle of the header.  And *)
(* a caller that asks for no more data after a Z_OK that filled the        *)
(* destination may be told that a valid document is not.                   *)
(***************************************************************************)
AcceptsExactlyValid ==
  ~cut =>
    /\ verdict = "accepted" =>
         /\ Valid(doc)
         /\ \E end \in Start(doc) + 1 .. Len(doc) :
              IsData(doc, Start(doc), end) /\ out = DataLength(Start(doc), end)
    /\ verdict = "rejected" => ~Valid(doc) \/ full
=============================================================================
