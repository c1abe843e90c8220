------------------------------- MODULE MCZLib -------------------------------
(***************************************************************************)
(* Instances for TLC of three views of the compression wrappers, side by   *)
(* side: the settings of an object, which is ZLibSettings itself, and      *)
(* reading headers and documents.  The initial state chooses which part    *)
(* runs; the settings of the others stay at their defaults.                *)
(***************************************************************************)
EXTENDS ZLibSettings, Sequences

VARIABLES
  part,
  input, fed, parser, status, end,            \* MCGZipHeader
  z, doc, pos, out, full, verdict, docs, cut  \* ZLibUncompress

header     == <<input, fed, parser, status, end>>
uncompress == <<z, doc, pos, out, full, verdict, docs, cut>>

Unused == "unused"
NoHeader     == input = Unused /\ fed = Unused /\ parser = Unused /\ status = Unused /\ end = Unused
NoUncompress == z = Unused /\ doc = Unused /\ pos = Unused /\ out = Unused /\ full = Unused
                /\ verdict = Unused /\ docs = Unused /\ cut = Unused

-----------------------------------------------------------------------------
(***************************************************************************)
(* Documents: a header, deflated data (1: a block, 3: the last byte), and  *)
(* a footer with the checksum and the length, which are both 3.            *)
(***************************************************************************)
Gz == INSTANCE GZipHeader
Fixed(flags) == Gz!magic \o <<Gz!Z_DEFLATED, flags, 0, 0, 0, 0, 2, 255>>
Data == <<1, 3>>
Footer == <<3, 3>>

\* With the faults that come behind a header: in the footer, of the data, extra bytes.
Tails ==
  {Data \o Footer, Data, Data \o <<3>>, Data \o <<2, 3>>, Data \o <<3, 4>>,
   Data \o Footer \o <<9>>, <<1>>, <<1, 7>>, << >>}

BadMagic == <<31, 140>> \o Data

\* Cut after the first byte, in the fixed part, and in the name.
CutHeaders == {<<31>>, SubSeq(Fixed(0), 1, 5), Fixed(Gz!FNAME) \o <<7>>}

GzipDocuments ==
  {Fixed(0) \o t : t \in Tails}
    \cup {Fixed(Gz!FNAME) \o <<7, 0>> \o Data \o Footer, BadMagic, << >>}
    \cup CutHeaders

\* The compressed data begins with bytes that could be part of a header.
Header == INSTANCE MCGZipHeader WITH MaxExtra <- 2, MaxString <- 2, Body <- <<0, 31>>

OfGzip == INSTANCE ZLibUncompress WITH
  Gzip <- TRUE, Flexible <- FALSE, Documents <- GzipDocuments, Rooms <- {1, 20}, MaxDocs <- 2
OfRaw == INSTANCE ZLibUncompress WITH
  Gzip <- FALSE, Flexible <- FALSE, Documents <- Tails, Rooms <- {1, 20}, MaxDocs <- 2
OfFlexible == INSTANCE ZLibUncompress WITH
  Gzip <- TRUE, Flexible <- TRUE, Documents <- GzipDocuments, Rooms <- {}, MaxDocs <- 2

MCInit ==
  /\ Init
  /\ \/ part = "header" /\ Header!Init /\ NoUncompress
     \/ /\ \/ part = "gzip" /\ OfGzip!Init
           \/ part = "raw" /\ OfRaw!Init
           \/ part = "flexible" /\ OfFlexible!Init
        /\ NoHeader
     \/ part = "settings" /\ NoHeader /\ NoUncompress

MCNext ==
  \/ part = "header" /\ Header!Next /\ UNCHANGED <<part, uncompress, vars>>
  \/ /\ \/ part = "gzip" /\ OfGzip!Next
        \/ part = "raw" /\ OfRaw!Next
        \/ part = "flexible" /\ OfFlexible!Next
     /\ UNCHANGED <<part, header, vars>>
  \/ part = "settings" /\ Next /\ UNCHANGED <<part, header, uncompress>>

MCSpec == MCInit /\ [][MCNext]_<<part, header, uncompress, vars>>

-----------------------------------------------------------------------------
\* GZipHeader::ReadMore finds a header, and where it ends, alike for every split.
SplitDoesNotMatter == part = "header" => Header!SplitDoesNotMatter

\* However it is split, a document is accepted exactly when it is valid as a whole,
\* and its data is then complete (Uncompress, UncompressChunk, UncompressAtMost and
\* UncompressChunkDone), also behind a document that was faulty, unless that one was
\* cut within its header; and unless the caller asked for no more data when a Z_OK
\* had come with a full destination.  The object never has more bytes of a footer
\* than a footer is long.
AcceptsExactlyValid ==
  /\ part = "gzip" => OfGzip!TypeOK /\ OfGzip!AcceptsExactlyValid
  /\ part = "raw" => OfRaw!TypeOK /\ OfRaw!AcceptsExactlyValid
  /\ part = "flexible" => OfFlexible!TypeOK /\ OfFlexible!AcceptsExactlyValid
=============================================================================
