---------------------------- MODULE MCGZipHeader ----------------------------
(***************************************************************************)
(* GZipHeader fed a header in pieces, as UncompressAtMostOrAll feeds it    *)
(* (zlibwrapper.cc), checked against the layout of a header in RFC 1952,   *)
(* which the comments of zlibwrapper.cc refer to.                          *)
(***************************************************************************)
EXTENDS GZipHeader, SequencesExt, FiniteSetsExt

CONSTANTS
  MaxExtra,  \* bound: the length of an extra field
  MaxString, \* bound: the length of a name or comment
  Body       \* what follows the header

VARIABLES input, fed, parser, status, end
vars == <<input, fed, parser, status, end>>

(***************************************************************************)
(* The headers of RFC 1952.  The bytes of a field are 7, or 0 in an extra  *)
(* field, where a 0 does not end the field.                                *)
(***************************************************************************)
Bytes(n, byte) == [i \in 1 .. n |-> byte]
Field(flag, flags, bytes) == IF flag \in flags THEN bytes ELSE <<>>

Header(id, flags, spare, xlen, len) ==
  id \o <<SumSet(flags) + spare, 7, 0, 7, 7, 2, 255>>
     \o Field(FEXTRA, flags, <<xlen, 0>> \o Bytes(xlen, 0))
     \o Field(FNAME, flags, Bytes(len, 7) \o <<0>>)
     \o Field(FCOMMENT, flags, Bytes(MaxString - len, 7) \o <<0>>)
     \o Field(FHCRC, flags, <<0, 7>>)

ValidId == magic \o <<Z_DEFLATED>>
Ids == {ValidId, <<31, 139, 7>>, <<31, 8, 8>>, <<8, 139, 8>>}

\* spare: a bit the parser ignores (FTEXT, or a reserved one).
Variants ==
  [id : Ids, flags : SUBSET Flags, spare : {0, 1, 32},
   xlen : 0 .. MaxExtra, len : 0 .. MaxString]

HeaderOf(v) == Header(v.id, v.flags, v.spare, v.xlen, v.len)

Init ==
  /\ input \in Variants
  /\ fed = 0 /\ parser = Reset /\ status = "INCOMPLETE_HEADER" /\ end = 0

Feed(n) ==
  LET bytes == HeaderOf(input) \o Body
      r     == ReadMore(parser, SubSeq(bytes, fed + 1, fed + n)) IN
  /\ status = "INCOMPLETE_HEADER"
  /\ fed + n <= Len(bytes)
  /\ fed' = fed + n
  /\ parser' = r.parser
  /\ status' = r.status
  /\ end' = fed + r.end
  /\ UNCHANGED input

Next == \E n \in 1 .. Len(HeaderOf(input) \o Body) : Feed(n)

Spec == Init /\ [][Next]_vars

(***************************************************************************)
(* However the bytes are split, ReadMore finds the header valid exactly    *)
(* when its first three bytes are, complete exactly when the last byte of  *)
(* its last field was fed, and its end right there, so that not a byte of  *)
(* the compressed data is taken for header or the other way round.         *)
(***************************************************************************)
SplitDoesNotMatter ==
  LET valid == \A i \in 1 .. 3 : i <= fed => input.id[i] = ValidId[i] IN
  /\ (status = "INVALID_HEADER") = ~valid
  /\ valid => (status = "COMPLETE_HEADER") = (fed >= Len(HeaderOf(input)))
  /\ status = "COMPLETE_HEADER" => end = Len(HeaderOf(input))
=============================================================================
