----------------------------- MODULE GZipHeader -----------------------------
(***************************************************************************)
(* The parser of gzip headers of fleetbench/compression/gzipheader.cc.     *)
(* The header may arrive over any number of ReadMore calls; the parser     *)
(* keeps what it needs between them.                                       *)
(*                                                                         *)
(* A buffer is a sequence of bytes, pos counts the bytes already read.     *)
(***************************************************************************)
EXTENDS Integers, Sequences

FHCRC == 2
FEXTRA == 4
FNAME == 8
FCOMMENT == 16
Flags == {FHCRC, FEXTRA, FNAME, FCOMMENT}

magic == <<31, 139>>
Z_DEFLATED == 8

\* enum State, which the code increments.
IN_HEADER_ID1 == 0
IN_HEADER_ID2 == 1
IN_HEADER_CM == 2
IN_HEADER_FLG == 3
IN_HEADER_OS == 9
IN_XLEN_BYTE_0 == 10
IN_XLEN_BYTE_1 == 11
IN_FEXTRA == 12
IN_FNAME == 13
IN_FCOMMENT == 14
IN_FHCRC_BYTE_0 == 15
IN_FHCRC_BYTE_1 == 16
IN_DONE == 17

Byte == 0 .. 255
Parser == [state : IN_HEADER_ID1 .. IN_DONE, flags : SUBSET Flags,
           extra : 0 .. 65535]
Status == {"INCOMPLETE_HEADER", "COMPLETE_HEADER", "INVALID_HEADER"}

Reset == [state |-> IN_HEADER_ID1, flags |-> {}, extra |-> 0]

FlagsOf(byte) == {f \in Flags : (byte \div f) % 2 = 1}

(***************************************************************************)
(* One round of the loop of ReadMore in a state that accepts its byte.     *)
(* A round either reads bytes or, where the field of the state is absent,  *)
(* moves on to the state of the next field.                                *)
(***************************************************************************)
\* The first byte of the next field, after the '\0' that ends this one.
AfterZero(buf, pos) ==
  LET zeros == {i \in pos + 1 .. Len(buf) : buf[i] = 0}
  IN  IF zeros = {} THEN Len(buf)
      ELSE CHOOSE i \in zeros : \A j \in zeros : i <= j

\* Mutant: an extra field of length 0 is not noticed before its next byte.
ExtraKeepsFlag(p, buf, pos) ==
  LET taken == IF p.extra < Len(buf) - pos THEN p.extra ELSE Len(buf) - pos
      left  == p.extra - taken
      over  == left = 0 /\ taken > 0
  IN  [pos |-> pos + taken,
       p   |-> [state |-> IF over THEN IN_FNAME ELSE IN_FEXTRA,
                flags |-> IF over THEN p.flags \ {FEXTRA} ELSE p.flags,
                extra |-> left]]

\* IN_FEXTRA: as many bytes of the extra field as there are.
Extra(p, buf, pos) ==
  LET taken == IF p.extra < Len(buf) - pos THEN p.extra ELSE Len(buf) - pos
      left  == p.extra - taken
  IN  [pos |-> pos + taken,
       p   |-> [state |-> IF left = 0 THEN IN_FNAME ELSE IN_FEXTRA,
                flags |-> IF left = 0 THEN p.flags \ {FEXTRA} ELSE p.flags,
                extra |-> left]]

\* IN_FNAME and IN_FCOMMENT: a field that ends with '\0'.
String(p, flag, next, buf, pos) ==
  LET end  == AfterZero(buf, pos)
      over == buf[end] = 0
  IN  [pos |-> end,
       p   |-> [p EXCEPT !.state = IF over THEN next ELSE @,
                         !.flags = IF over THEN @ \ {flag} ELSE @]]

Round(p, buf, pos) ==
  LET byte == buf[pos + 1]
      skip(next)    == [pos |-> pos, p |-> [p EXCEPT !.state = next]]
      read(q)       == [pos |-> pos + 1, p |-> [q EXCEPT !.state = @ + 1]]
      absent(flag)  == flag \notin p.flags
  IN  CASE p.state = IN_HEADER_FLG -> read([p EXCEPT !.flags = FlagsOf(byte)])
        [] p.state = IN_XLEN_BYTE_0 ->
             IF absent(FEXTRA) THEN skip(IN_FNAME)
             ELSE read([p EXCEPT !.extra = byte])
        [] p.state = IN_XLEN_BYTE_1 ->
             Extra([p EXCEPT !.extra = @ + 256 * byte], buf, pos + 1)
        [] p.state = IN_FEXTRA -> Extra(p, buf, pos)
        [] p.state = IN_FNAME ->
             IF absent(FNAME) THEN skip(IN_FCOMMENT)
             ELSE String(p, FNAME, IN_FCOMMENT, buf, pos)
        [] p.state = IN_FCOMMENT ->
             IF absent(FCOMMENT) THEN skip(IN_FHCRC_BYTE_0)
             ELSE String(p, FCOMMENT, IN_FHCRC_BYTE_0, buf, pos)
        [] p.state = IN_FHCRC_BYTE_0 ->
             IF absent(FHCRC) THEN skip(IN_DONE) ELSE read(p)
        [] p.state = IN_FHCRC_BYTE_1 ->
             read([p EXCEPT !.flags = @ \ {FHCRC}])
        [] OTHER -> read(p)

Accepts(state, byte) ==
  /\ state = IN_HEADER_ID1 => byte = magic[1]
  /\ state = IN_HEADER_ID2 => byte = magic[2]
  /\ state = IN_HEADER_CM => byte = Z_DEFLATED

\* Where a buffer ends, the header is complete when no field is left.
AtEnd(p) == p.state > IN_HEADER_OS /\ p.flags = {}

(***************************************************************************)
(* ReadMore(inbuf): the status, the parser as it is left, and how many     *)
(* bytes of inbuf belong to the header.                                    *)
(***************************************************************************)
ReadMore(parser, buf) ==
  LET loop[p \in Parser, pos \in 0 .. Len(buf)] ==
        IF pos = Len(buf)
        THEN [status |-> IF AtEnd(p) THEN "COMPLETE_HEADER"
                         ELSE "INCOMPLETE_HEADER",
              parser |-> p, end |-> pos]
        ELSE IF p.state = IN_DONE
        THEN [status |-> "COMPLETE_HEADER", parser |-> p, end |-> pos]
        ELSE IF ~Accepts(p.state, buf[pos + 1])
        THEN [status |-> "INVALID_HEADER", parser |-> p, end |-> pos]
        ELSE LET r == Round(p, buf, pos) IN loop[r.p, r.pos]
  IN  loop[parser, 0]
=============================================================================
