---------------------------- MODULE ZLibSettings ----------------------------
(***************************************************************************)
(* The settings of class ZLib (compression/zlibwrapper.cc) and the two     *)
(* zlib streams they configure.  Settings are recorded in settings_ and    *)
(* applied when the first chunk of data comes; init_settings_, one record  *)
(* for both streams, says what was applied last, so that a stream that     *)
(* still fits is reset instead of made anew.                               *)
(*                                                                         *)
(* A window stands for window_bits_ and mem_level_, which are treated      *)
(* alike.                                                                  *)
(***************************************************************************)
EXTENDS Naturals

CONSTANTS
  Levels, DefaultLevel,   \* compression_level_
  Windows, DefaultWindow, \* window_bits_, mem_level_
  Dictionaries, NoDict,   \* dictionary_, nullptr
  MayReinitBare,          \* the caller may call Reinit after no-header mode
  MayTurnBack,            \* it may leave no-header mode while in gzip mode
  MayInterrupt            \* it may set the header mode amid chunks

ASSUME SettingsAssumption ==
  /\ DefaultLevel \in Levels /\ DefaultWindow \in Windows
  /\ MayReinitBare \in BOOLEAN /\ MayTurnBack \in BOOLEAN /\ MayInterrupt \in BOOLEAN

VARIABLES
  settings, \* settings_
  init,     \* init_settings_
  comp,     \* comp_init_ and what comp_stream_ was configured with
  uncomp,   \* uncomp_init_ and what uncomp_stream_ was configured with
  first,    \* first_chunk_
  busy,     \* what chunks the caller is amid
  asked,    \* settings_ at the first of these chunks
  used      \* the stream the last call to deflate or inflate was given

vars == <<settings, init, comp, uncomp, first, busy, asked, used>>

Dicts == Dictionaries \cup {NoDict}
Settings == [level : Levels, window : Windows, dict : Dicts,
             noHeader : BOOLEAN, gzip : BOOLEAN]
Stream == [init : BOOLEAN, raw : BOOLEAN, level : Levels, window : Windows,
           dict : Dicts]

Default == [level |-> DefaultLevel, window |-> DefaultWindow, dict |-> NoDict,
            noHeader |-> FALSE, gzip |-> FALSE]
NoStream == [init |-> FALSE, raw |-> FALSE, level |-> DefaultLevel,
             window |-> DefaultWindow, dict |-> NoDict]

End(stream) == [stream EXCEPT !.init = FALSE]

\* CheckValidParams: LOG(FATAL), which callers avoid.
ValidParams(s) == s.dict = NoDict \/ ~(s.noHeader \/ s.gzip)

Init ==
  /\ settings = Default /\ init = Default
  /\ comp = NoStream /\ uncomp = NoStream
  /\ first = TRUE /\ busy = "no" /\ asked = Default /\ used = NoStream

-----------------------------------------------------------------------------
(***************************************************************************)
(* The setters.                                                            *)
(***************************************************************************)
Set(s) == settings' = s /\ ValidParams(s)

SetCompressionLevel(l) ==
  /\ settings' = [settings EXCEPT !.level = l]
  /\ UNCHANGED <<init, comp, uncomp, first, busy, asked, used>>

SetCompressionWindowSizeInBits(w) ==
  /\ settings' = [settings EXCEPT !.window = w]
  /\ UNCHANGED <<init, comp, uncomp, first, busy, asked, used>>

SetDictionary(d) ==
  /\ Set([settings EXCEPT !.dict = d])
  /\ UNCHANGED <<init, comp, uncomp, first, busy, asked, used>>

\* The body of SetNoHeaderMode.
ApplyHeaderMode(s) ==
  /\ Set(s)
  /\ IF init.noHeader # s.noHeader
     THEN comp' = End(comp) /\ uncomp' = End(uncomp) /\ UNCHANGED <<first, busy>>
     ELSE first' = TRUE /\ busy' = "no" /\ UNCHANGED <<comp, uncomp>>
  /\ UNCHANGED <<init, asked, used>>

SetNoHeaderMode(b) ==
  /\ busy = "no" \/ MayInterrupt
  /\ settings.gzip /\ ~b => MayTurnBack
  /\ ApplyHeaderMode([settings EXCEPT !.noHeader = b])

SetGzipHeaderMode ==
  /\ busy = "no" \/ MayInterrupt
  /\ ApplyHeaderMode([settings EXCEPT !.noHeader = TRUE, !.gzip = TRUE])

Reset ==
  /\ first' = TRUE /\ busy' = "no"
  /\ UNCHANGED <<settings, init, comp, uncomp, asked, used>>

\* deflateReset keeps the configuration; inflateReset2 changes the framing.
Reinit ==
  /\ comp.init /\ comp.raw => MayReinitBare
  /\ settings' = Default
  /\ comp' = [comp EXCEPT !.dict = NoDict]
  /\ uncomp' = [uncomp EXCEPT !.dict = NoDict, !.raw = IF uncomp.init THEN FALSE ELSE @]
  /\ init' = [init EXCEPT !.noHeader = IF uncomp.init THEN FALSE ELSE @]
  /\ first' = TRUE /\ busy' = "no"
  /\ UNCHANGED <<asked, used>>

-----------------------------------------------------------------------------
(***************************************************************************)
(* Compressing.  A call sets up the stream if it is the first.             *)
(***************************************************************************)
\* Mutant: a stream with another window is used again.
FitsCompIgnoresWindow ==
  comp.init /\ init.dict = settings.dict /\ init.noHeader = settings.noHeader

\* The stream need not be made anew.
FitsComp ==
  /\ comp.init
  /\ init.dict = settings.dict
  /\ init.window = settings.window
  /\ init.noHeader = settings.noHeader

\* deflateReset and, for another level, deflateParams; or
\* DeflateInit.
CompressInit ==
  IF FitsComp
  THEN [comp EXCEPT !.dict = NoDict,
                    !.level = IF init.level # settings.level
                              THEN settings.level ELSE @]
  ELSE [init |-> TRUE, raw |-> settings.noHeader, level |-> settings.level,
        window |-> settings.window, dict |-> NoDict]

CompressInitSettings ==
  IF FitsComp THEN [init EXCEPT !.level = settings.level]
  ELSE [init EXCEPT !.level = settings.level, !.window = settings.window,
                    !.noHeader = settings.noHeader]

\* deflateSetDictionary, if there is a dictionary.
RecordDictionary(s) ==
  IF settings.dict = NoDict THEN s ELSE [s EXCEPT !.dict = settings.dict]

\* The setup of a first chunk, and deflate.
CompressAtMostOrAll ==
  IF first
  THEN /\ comp' = RecordDictionary(CompressInit)
       /\ init' = RecordDictionary(CompressInitSettings)
       /\ asked' = settings
       /\ used' = comp'
  ELSE used' = comp /\ UNCHANGED <<comp, init, asked>>

\* Mutant: after Z_FINISH the next chunk is not a first one.
CompressOkNoReset(finish) ==
  /\ CompressAtMostOrAll
  /\ first' = FALSE /\ busy' = IF finish THEN "no" ELSE "comp"
  /\ UNCHANGED <<settings, uncomp>>

\* The output fits.  With Z_FINISH the object is ready for other data.
CompressOk(finish) ==
  /\ CompressAtMostOrAll
  /\ first' = finish /\ busy' = IF finish THEN "no" ELSE "comp"
  /\ UNCHANGED <<settings, uncomp>>

\* Mutant: the stream is ended but the next chunk is not a first one.
CompressFailsNoReset ==
  /\ init' = IF first THEN RecordDictionary(CompressInitSettings) ELSE init
  /\ comp' = End(IF first THEN CompressInit ELSE comp)
  /\ UNCHANGED <<settings, uncomp, first, busy, asked, used>>

\* Z_BUF_ERROR or another error: CompressErrorInit.
CompressFails ==
  /\ init' = IF first THEN RecordDictionary(CompressInitSettings) ELSE init
  /\ comp' = End(IF first THEN CompressInit ELSE comp)
  /\ first' = TRUE /\ busy' = "no"
  /\ UNCHANGED <<settings, uncomp, asked, used>>

\* No room for the gzip header: the first chunk is still to come.
CompressHeaderFails ==
  /\ first /\ settings.gzip
  /\ comp' = CompressInit /\ init' = CompressInitSettings
  /\ UNCHANGED <<settings, uncomp, first, busy, asked, used>>

Compress == busy = "no" /\ first /\ (CompressOk(TRUE) \/ CompressFails)
CompressChunk == busy # "uncomp" /\ (CompressOk(FALSE) \/ CompressFails)
CompressAtMost ==
  busy # "uncomp" /\ (CompressOk(FALSE) \/ CompressFails \/ CompressHeaderFails)
CompressChunkDone == busy = "comp" /\ (CompressOk(TRUE) \/ CompressFails)

-----------------------------------------------------------------------------
(***************************************************************************)
(* Uncompressing.                                                          *)
(***************************************************************************)
\* inflateReset2, or inflateInit2 of a stream that is new or was made for
\* another dictionary.
UncompressInit ==
  [uncomp EXCEPT !.init = TRUE, !.raw = settings.noHeader, !.dict = NoDict]

\* Data that was compressed with a dictionary makes inflate ask for it.
UncompressAtMostOrAll(needDict) ==
  /\ needDict => settings.dict # NoDict
  /\ LET ready == IF first THEN UncompressInit ELSE uncomp IN
     uncomp' = [ready EXCEPT !.dict = IF needDict THEN settings.dict ELSE @]
  /\ init' = [init EXCEPT !.noHeader = IF first THEN settings.noHeader ELSE @,
                          !.dict = IF needDict THEN settings.dict ELSE @]
  /\ asked' = IF first THEN settings ELSE asked
  /\ used' = [uncomp' EXCEPT !.level = asked'.level, !.window = asked'.window,
                             !.dict = asked'.dict]

UncompressOk(needDict, done) ==
  /\ UncompressAtMostOrAll(needDict)
  /\ first' = done /\ busy' = IF done THEN "no" ELSE "uncomp"
  /\ UNCHANGED <<settings, comp>>

\* UncompressErrorInit
UncompressFails(needDict) ==
  /\ needDict => settings.dict # NoDict
  /\ init' = [init EXCEPT !.noHeader = IF first THEN settings.noHeader ELSE @,
                          !.dict = IF needDict THEN settings.dict ELSE @]
  /\ uncomp' = End(IF first THEN UncompressInit ELSE uncomp)
  /\ first' = TRUE /\ busy' = "no"
  /\ UNCHANGED <<settings, comp, asked, used>>

Uncompress ==
  /\ busy = "no" /\ first
  /\ \E need \in BOOLEAN : UncompressOk(need, TRUE) \/ UncompressFails(need)

UncompressChunk ==
  /\ busy # "comp"
  /\ \E need \in BOOLEAN : UncompressOk(need, FALSE) \/ UncompressFails(need)

UncompressChunkDone ==
  /\ busy = "uncomp"
  /\ UncompressOk(FALSE, TRUE) \/ UncompressFails(FALSE)

Next ==
  \/ \E l \in Levels : SetCompressionLevel(l)
  \/ \E w \in Windows : SetCompressionWindowSizeInBits(w)
  \/ \E d \in Dicts : SetDictionary(d)
  \/ \E b \in BOOLEAN : SetNoHeaderMode(b)
  \/ SetGzipHeaderMode \/ Reset \/ Reinit
  \/ Compress \/ CompressChunk \/ CompressAtMost \/ CompressChunkDone
  \/ Uncompress \/ UncompressChunk \/ UncompressChunkDone

Spec == Init /\ [][Next]_vars

-----------------------------------------------------------------------------
\* The variables are of their types, and first_chunk_ is set exactly when the
\* caller is not amid chunks.
TypeOK ==
  /\ settings \in Settings /\ init \in Settings /\ asked \in Settings
  /\ comp \in Stream /\ uncomp \in Stream /\ used \in Stream
  /\ first \in BOOLEAN /\ busy \in {"no", "comp", "uncomp"}
  /\ first <=> busy = "no"

(***************************************************************************)
(* A stream is only reused if it fits: whatever was set, and on whichever  *)
(* of the two streams, since it was made, data is compressed with the      *)
(* level, window and dictionary that were asked for when its first chunk   *)
(* came, in a bare stream exactly when no zlib header was asked for, and   *)
(* uncompressed accordingly; without MayReinitBare, as Reinit keeps a bare *)
(* stream and forgets that it is one.                                      *)
(***************************************************************************)
FitsAsked ==
  used.init =>
    /\ used.raw = asked.noHeader
    /\ used.level = asked.level
    /\ used.window = asked.window
    /\ used.dict = asked.dict

(***************************************************************************)
(* The stream given to deflate or inflate is one that deflateInit2 or      *)
(* inflateInit2 made and nothing ended since, also after errors and        *)
(* whatever was set; without MayInterrupt, that is if the caller does not  *)
(* set the header mode amid chunks.                                        *)
(***************************************************************************)
StreamReady == [][used' # used => used'.init]_vars

(***************************************************************************)
(* zlibwrapper.h on SetGzipHeaderMode: "the output is a valid gzip file",  *)
(* which is a gzip header before a bare deflate stream; without            *)
(* MayTurnBack.                                                            *)
(***************************************************************************)
GzipIsBare == used.init /\ asked.gzip => used.raw

\* A stream is reused only if it fits what was asked for (CompressInit,
\* UncompressInit), and in gzip header mode it is one without a zlib header
\* (SetGzipHeaderMode).  Of callers that do not Reinit an object whose compressing
\* stream is a bare one (MayReinitBare = FALSE), nor leave no-header mode while in
\* gzip mode (MayTurnBack = FALSE).
UsedAsAsked == FitsAsked /\ GzipIsBare
=============================================================================
