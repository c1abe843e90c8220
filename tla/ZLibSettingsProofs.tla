-------------------------- MODULE ZLibSettingsProofs --------------------------
(***************************************************************************)
(* Proofs about the settings of class ZLib and the streams they configure  *)
(* (compression/zlibwrapper.cc), for any levels, windows and dictionaries. *)
(* What a theorem asks of the caller (MayReinitBare, MayTurnBack,          *)
(* MayInterrupt) is its hypothesis.                                        *)
(***************************************************************************)
EXTENDS ZLibSettings, TLAPS

(***************************************************************************)
(* The stream that chunks go through is neither ended nor yet to be made.  *)
(***************************************************************************)
AmidChunks ==
  /\ busy = "comp" => comp.init
  /\ busy = "uncomp" => uncomp.init

(***************************************************************************)
(* One init_settings_ for two streams still describes the stream for       *)
(* compressing: the setters of the header mode end both streams whenever   *)
(* an uncompression could overwrite what it says of the header.            *)
(***************************************************************************)
InitDescribesComp ==
  comp.init =>
    /\ comp.level = init.level
    /\ comp.window = init.window
    /\ comp.raw = init.noHeader
    /\ init.noHeader = settings.noHeader

(***************************************************************************)
(* Amid chunks the stream is the one the first chunk asked for, whatever   *)
(* was set since.                                                          *)
(***************************************************************************)
StreamAsAsked ==
  /\ busy = "comp" => /\ comp.raw = asked.noHeader /\ comp.level = asked.level
                      /\ comp.window = asked.window /\ comp.dict = asked.dict
  /\ busy = "uncomp" => uncomp.raw = asked.noHeader

ReadyInv == TypeOK /\ AmidChunks

SettingsInv ==
  TypeOK /\ InitDescribesComp /\ StreamAsAsked /\ FitsAsked

(***************************************************************************)
(* Gzip mode implies no-header mode.                                       *)
(***************************************************************************)
GzipNoHeader ==
  (settings.gzip => settings.noHeader) /\ (asked.gzip => asked.noHeader)

-----------------------------------------------------------------------------
(***************************************************************************)
(* What CompressInit leaves is a stream, ready, and its settings.          *)
(***************************************************************************)
LEMMA MadeTyped ==
  ASSUME TypeOK
  PROVE  /\ CompressInit \in Stream /\ CompressInitSettings \in Settings
         /\ CompressInit.init
<1> USE DEF TypeOK, Stream, Settings, Dicts, CompressInit, CompressInitSettings
<1>1. CASE FitsComp
  BY <1>1 DEF FitsComp
<1>2. CASE ~FitsComp
  BY <1>2
<1> QED BY <1>1, <1>2

(***************************************************************************)
(* What a first chunk makes of the stream for compressing: one with the    *)
(* settings asked for, and init_settings_ describes it.  This is where it  *)
(* matters that a stream which is used again really has the window, the    *)
(* header mode and the level that init_settings_ says.                     *)
(***************************************************************************)
LEMMA MadeAsAsked ==
  ASSUME TypeOK, InitDescribesComp
  PROVE  /\ CompressInit \in Stream /\ CompressInitSettings \in Settings
         /\ CompressInit.init /\ CompressInit.dict = NoDict
         /\ CompressInit.raw = settings.noHeader
         /\ CompressInit.level = settings.level
         /\ CompressInit.window = settings.window
         /\ CompressInitSettings.level = settings.level
         /\ CompressInitSettings.window = settings.window
         /\ CompressInitSettings.noHeader = settings.noHeader
<1> USE DEF TypeOK, Stream, Settings, Dicts, CompressInit, CompressInitSettings
<1>1. CASE FitsComp
  BY <1>1 DEF FitsComp, InitDescribesComp
<1>2. CASE ~FitsComp
  BY <1>2
<1> QED BY <1>1, <1>2

(***************************************************************************)
(* deflateSetDictionary touches nothing but the dictionary.                *)
(***************************************************************************)
LEMMA DictionaryRecorded ==
  ASSUME TypeOK, NEW s, s \in Stream \/ s \in Settings
  PROVE  /\ s \in Stream => /\ RecordDictionary(s) \in Stream
                            /\ RecordDictionary(s).init = s.init
                            /\ RecordDictionary(s).raw = s.raw
                            /\ s.dict = NoDict => RecordDictionary(s).dict = settings.dict
         /\ s \in Settings => /\ RecordDictionary(s) \in Settings
                              /\ RecordDictionary(s).noHeader = s.noHeader
         /\ RecordDictionary(s).level = s.level
         /\ RecordDictionary(s).window = s.window
BY DEF TypeOK, RecordDictionary, Stream, Settings, Dicts

(***************************************************************************)
(* The calls that go through the stream for compressing, and what they do  *)
(* with it.                                                                *)
(***************************************************************************)
Compressing ==
  \/ busy # "uncomp" /\ \E finish \in BOOLEAN : CompressOk(finish)
  \/ busy # "uncomp" /\ CompressFails
  \/ busy # "uncomp" /\ CompressHeaderFails

Uncompressing ==
  \/ busy # "comp" /\ \E need, done \in BOOLEAN : UncompressOk(need, done)
  \/ busy # "comp" /\ \E need \in BOOLEAN : UncompressFails(need)

Setting ==
  \/ \E l \in Levels : SetCompressionLevel(l)
  \/ \E w \in Windows : SetCompressionWindowSizeInBits(w)
  \/ \E d \in Dicts : SetDictionary(d)

SettingHeaderMode ==
  \/ \E b \in BOOLEAN : SetNoHeaderMode(b)
  \/ SetGzipHeaderMode

LEMMA NextKinds ==
  ASSUME Next
  PROVE  Setting \/ SettingHeaderMode \/ Reset \/ Reinit \/ Compressing \/ Uncompressing
<1>1. Compress \/ CompressChunk \/ CompressAtMost \/ CompressChunkDone => Compressing
  BY DEF Compress, CompressChunk, CompressAtMost, CompressChunkDone, Compressing
<1>2. Uncompress \/ UncompressChunk \/ UncompressChunkDone => Uncompressing
  BY DEF Uncompress, UncompressChunk, UncompressChunkDone, Uncompressing
<1> QED BY <1>1, <1>2 DEF Next, Setting, SettingHeaderMode

(***************************************************************************)
(* Every call keeps SettingsInv, if Reinit does not follow no-header mode. *)
(***************************************************************************)
LEMMA CompressingKeeps ==
  ASSUME SettingsInv, Compressing
  PROVE  SettingsInv'
<1> USE DEF SettingsInv
<1>1. /\ CompressInit \in Stream /\ CompressInitSettings \in Settings
      /\ CompressInit.init /\ CompressInit.dict = NoDict
      /\ CompressInit.raw = settings.noHeader
      /\ CompressInit.level = settings.level
      /\ CompressInit.window = settings.window
      /\ CompressInitSettings.level = settings.level
      /\ CompressInitSettings.window = settings.window
      /\ CompressInitSettings.noHeader = settings.noHeader
  BY MadeAsAsked
<1>2. PICK made \in Stream : made = CompressInit
  BY <1>1
<1>3. PICK says \in Settings : says = CompressInitSettings
  BY <1>1
<1>4. PICK full \in Stream : /\ full = RecordDictionary(CompressInit)
                             /\ full.init = made.init /\ full.raw = made.raw
                             /\ full.dict = settings.dict
                             /\ full.level = made.level /\ full.window = made.window
  BY <1>1, <1>2, DictionaryRecorded
<1>5. PICK told \in Settings : /\ told = RecordDictionary(CompressInitSettings)
                               /\ told.noHeader = says.noHeader
                               /\ told.level = says.level /\ told.window = says.window
  BY <1>1, <1>3, DictionaryRecorded
<1>6. ASSUME NEW finish \in BOOLEAN, busy # "uncomp", CompressOk(finish)
      PROVE  SettingsInv'
  <2>0. /\ first' = finish /\ busy' = (IF finish THEN "no" ELSE "comp")
        /\ UNCHANGED <<settings, uncomp>>
    BY <1>6 DEF CompressOk
  <2>1. CASE first
    <3>1. comp' = full /\ init' = told /\ asked' = settings /\ used' = full
      BY <1>4, <1>5, <1>6, <2>1 DEF CompressOk, CompressAtMostOrAll
    <3> QED BY <1>1, <1>2, <1>3, <1>4, <1>5, <2>0, <3>1
            DEF TypeOK, InitDescribesComp, StreamAsAsked, FitsAsked
  <2>2. CASE ~first
    <3>1. used' = comp /\ UNCHANGED <<comp, init, asked>> /\ busy = "comp"
      BY <1>6, <2>2 DEF CompressOk, CompressAtMostOrAll, TypeOK
    <3> QED BY <2>0, <3>1 DEF TypeOK, InitDescribesComp, StreamAsAsked, FitsAsked
  <2> QED BY <2>1, <2>2
<1>7. CASE CompressFails
  <2>1. PICK s \in Stream : comp' = End(s)
    BY <1>1, <1>7 DEF CompressFails, TypeOK
  <2>2. comp' \in Stream /\ ~comp'.init
    BY <2>1 DEF End, Stream
  <2>3. /\ first' = TRUE /\ busy' = "no" /\ UNCHANGED <<settings, uncomp, asked, used>>
        /\ init' \in Settings
    BY <1>5, <1>7 DEF CompressFails, TypeOK
  <2> QED BY <2>2, <2>3 DEF TypeOK, InitDescribesComp, StreamAsAsked, FitsAsked
<1>8. CASE CompressHeaderFails
  <2>1. /\ comp' = made /\ init' = says /\ first
        /\ UNCHANGED <<settings, uncomp, first, busy, asked, used>>
    BY <1>2, <1>3, <1>8 DEF CompressHeaderFails
  <2> QED BY <1>1, <1>2, <1>3, <2>1 DEF TypeOK, InitDescribesComp, StreamAsAsked, FitsAsked
<1> QED BY <1>6, <1>7, <1>8 DEF Compressing

LEMMA UncompressingKeeps ==
  ASSUME SettingsInv, Uncompressing
  PROVE  SettingsInv'
<1> USE DEF SettingsInv
<1>1. PICK made \in Stream : made = UncompressInit /\ made.init /\ made.raw = settings.noHeader
  <2>1. NoDict \in Dicts /\ settings.noHeader \in BOOLEAN /\ uncomp \in Stream
    BY DEF TypeOK, Settings, Dicts
  <2>2. /\ UncompressInit \in Stream /\ UncompressInit.init
        /\ UncompressInit.raw = settings.noHeader
    BY <2>1 DEF UncompressInit, Stream
  <2> QED BY <2>2
<1>2. PICK ready \in Stream : ready = IF first THEN UncompressInit ELSE uncomp
  BY <1>1 DEF TypeOK
<1>3. ASSUME NEW need \in BOOLEAN,
             init' = [init EXCEPT !.noHeader = IF first THEN settings.noHeader ELSE @,
                                  !.dict = IF need THEN settings.dict ELSE @],
             UNCHANGED <<settings, comp>>
      PROVE  init' \in Settings /\ InitDescribesComp'
  <2>1. /\ init' \in Settings /\ init'.level = init.level /\ init'.window = init.window
        /\ init'.noHeader = IF first THEN settings.noHeader ELSE init.noHeader
    BY <1>3 DEF TypeOK, Settings
  <2> QED BY <1>3, <2>1 DEF InitDescribesComp
<1>4. ASSUME NEW need \in BOOLEAN, NEW done \in BOOLEAN, busy # "comp", UncompressOk(need, done)
      PROVE  SettingsInv'
  <2>1. /\ uncomp' = [ready EXCEPT !.dict = IF need THEN settings.dict ELSE @]
        /\ init' = [init EXCEPT !.noHeader = IF first THEN settings.noHeader ELSE @,
                                !.dict = IF need THEN settings.dict ELSE @]
        /\ asked' = IF first THEN settings ELSE asked
        /\ used' = [uncomp' EXCEPT !.level = asked'.level, !.window = asked'.window,
                                   !.dict = asked'.dict]
        /\ first' = done /\ busy' = (IF done THEN "no" ELSE "uncomp")
        /\ UNCHANGED <<settings, comp>>
    BY <1>2, <1>4 DEF UncompressOk, UncompressAtMostOrAll
  <2>2. init' \in Settings /\ InitDescribesComp'
    BY <1>3, <2>1
  <2>3. uncomp' \in Stream /\ uncomp'.raw = ready.raw /\ asked' \in Settings
    BY <2>1 DEF TypeOK, Stream, Settings
  <2>4. ready.raw = asked'.noHeader
    BY <1>1, <1>2, <1>4, <2>1 DEF TypeOK, StreamAsAsked
  <2>5. /\ used' \in Stream /\ used'.raw = uncomp'.raw
        /\ used'.level = asked'.level /\ used'.window = asked'.window
        /\ used'.dict = asked'.dict
    BY <2>1, <2>3 DEF Stream, Settings
  <2> QED BY <2>1, <2>2, <2>3, <2>4, <2>5 DEF TypeOK, StreamAsAsked, FitsAsked
<1>5. ASSUME NEW need \in BOOLEAN, UncompressFails(need)
      PROVE  SettingsInv'
  <2>1. init' \in Settings /\ InitDescribesComp'
    BY <1>3, <1>5 DEF UncompressFails
  <2>2. uncomp' = End(ready)
    BY <1>2, <1>5 DEF UncompressFails
  <2>3. uncomp' \in Stream
    BY <2>2 DEF End, Stream
  <2> QED BY <1>5, <2>1, <2>3 DEF UncompressFails, TypeOK, StreamAsAsked, FitsAsked
<1> QED BY <1>4, <1>5 DEF Uncompressing

LEMMA CallsKeep ==
  ASSUME ~MayReinitBare,
         SettingsInv, Next
  PROVE  SettingsInv'
<1> USE DEF SettingsInv
<1>1. CASE Setting
  <2>1. /\ UNCHANGED <<init, comp, uncomp, first, busy, asked, used>>
        /\ settings' \in Settings /\ settings'.noHeader = settings.noHeader
    BY <1>1 DEF Setting, SetCompressionLevel, SetCompressionWindowSizeInBits, SetDictionary,
       Set, TypeOK, Settings
  <2> QED BY <2>1 DEF TypeOK, InitDescribesComp, StreamAsAsked, FitsAsked
<1>2. CASE SettingHeaderMode
  <2>1. PICK s \in Settings : ApplyHeaderMode(s)
    BY <1>2 DEF SettingHeaderMode, SetNoHeaderMode, SetGzipHeaderMode, TypeOK, Settings
  <2>2. settings' = s /\ UNCHANGED <<init, asked, used>>
    BY <2>1 DEF ApplyHeaderMode, Set
  <2>3. CASE init.noHeader # s.noHeader
    <3>1. comp' = End(comp) /\ uncomp' = End(uncomp) /\ UNCHANGED <<first, busy>>
      BY <2>1, <2>3 DEF ApplyHeaderMode
    <3>2. /\ comp' \in Stream /\ uncomp' \in Stream /\ ~comp'.init
          /\ comp'.raw = comp.raw /\ comp'.level = comp.level
          /\ comp'.window = comp.window /\ comp'.dict = comp.dict
          /\ uncomp'.raw = uncomp.raw
      BY <3>1 DEF TypeOK, End, Stream
    <3> QED BY <2>2, <3>1, <3>2 DEF TypeOK, InitDescribesComp, StreamAsAsked, FitsAsked
  <2>4. CASE init.noHeader = s.noHeader
    <3>1. first' = TRUE /\ busy' = "no" /\ UNCHANGED <<comp, uncomp>>
      BY <2>1, <2>4 DEF ApplyHeaderMode
    <3> QED BY <2>2, <2>4, <3>1 DEF TypeOK, InitDescribesComp, StreamAsAsked, FitsAsked
  <2> QED BY <2>3, <2>4
<1>3. CASE Reset
  BY <1>3 DEF Reset, TypeOK, InitDescribesComp, StreamAsAsked, FitsAsked
<1>4. CASE Reinit
  <2>1. /\ ~(comp.init /\ comp.raw) /\ settings' = Default
        /\ comp' = [comp EXCEPT !.dict = NoDict]
        /\ uncomp' = [uncomp EXCEPT !.dict = NoDict, !.raw = IF uncomp.init THEN FALSE ELSE @]
        /\ init' = [init EXCEPT !.noHeader = IF uncomp.init THEN FALSE ELSE @]
        /\ first' = TRUE /\ busy' = "no" /\ UNCHANGED <<asked, used>>
    BY <1>4 DEF Reinit
  <2>2. /\ settings' \in Settings /\ settings'.noHeader = FALSE
        /\ init' \in Settings /\ init'.level = init.level /\ init'.window = init.window
        /\ init'.noHeader = IF uncomp.init THEN FALSE ELSE init.noHeader
    BY <2>1, SettingsAssumption DEF TypeOK, Settings, Default, Dicts
  <2>3. /\ comp' \in Stream /\ comp'.init = comp.init /\ comp'.raw = comp.raw
        /\ comp'.level = comp.level /\ comp'.window = comp.window
    BY <2>1 DEF TypeOK, Stream, Dicts
  <2>4. uncomp' \in Stream
    BY <2>1 DEF TypeOK, Stream, Dicts
  <2>5. InitDescribesComp'
    <3>1. comp.init => init.noHeader = FALSE /\ comp.raw = FALSE
      BY <2>1 DEF InitDescribesComp, TypeOK, Settings, Stream
    <3> QED BY <2>2, <2>3, <3>1 DEF InitDescribesComp
  <2> QED BY <2>1, <2>2, <2>3, <2>4, <2>5 DEF TypeOK, StreamAsAsked, FitsAsked
<1> QED BY <1>1, <1>2, <1>3, <1>4, CompressingKeeps, UncompressingKeeps, NextKinds

(***************************************************************************)
(* Initially nothing is configured and nothing was used.                   *)
(***************************************************************************)
LEMMA InitFits ==
  ASSUME Init
  PROVE  SettingsInv
<1>1. Default \in Settings /\ NoStream \in Stream /\ ~NoStream.init
  BY SettingsAssumption DEF Default, NoStream, Settings, Stream, Dicts
<1> QED BY <1>1 DEF Init, SettingsInv, TypeOK, InitDescribesComp, StreamAsAsked, FitsAsked

(***************************************************************************)
(* Every call keeps the types, whatever the caller does.                   *)
(***************************************************************************)
LEMMA CallsKeepTypes ==
  ASSUME TypeOK, Next
  PROVE  TypeOK'
<1>1. CASE Setting
  <2>1. /\ UNCHANGED <<init, comp, uncomp, first, busy, asked, used>>
        /\ settings' \in Settings
    BY <1>1 DEF Setting, SetCompressionLevel, SetCompressionWindowSizeInBits, SetDictionary,
       Set, TypeOK, Settings
  <2> QED BY <2>1 DEF TypeOK
<1>2. CASE SettingHeaderMode
  <2>1. PICK s \in Settings : ApplyHeaderMode(s)
    BY <1>2 DEF SettingHeaderMode, SetNoHeaderMode, SetGzipHeaderMode, TypeOK, Settings
  <2>2. settings' = s /\ UNCHANGED <<init, asked, used>>
    BY <2>1 DEF ApplyHeaderMode, Set
  <2>3. comp' \in Stream /\ uncomp' \in Stream
    BY <2>1 DEF ApplyHeaderMode, End, TypeOK, Stream
  <2>4. UNCHANGED <<first, busy>> \/ (first' = TRUE /\ busy' = "no")
    BY <2>1 DEF ApplyHeaderMode
  <2>5. CASE UNCHANGED <<first, busy>>
    BY <2>2, <2>3, <2>5 DEF TypeOK
  <2>6. CASE first' = TRUE /\ busy' = "no"
    BY <2>2, <2>3, <2>6 DEF TypeOK
  <2> QED BY <2>4, <2>5, <2>6
<1>3. CASE Reset
  BY <1>3 DEF Reset, TypeOK
<1>4. CASE Reinit
  <2>1. /\ settings' = Default
        /\ comp' = [comp EXCEPT !.dict = NoDict]
        /\ uncomp' = [uncomp EXCEPT !.dict = NoDict, !.raw = IF uncomp.init THEN FALSE ELSE @]
        /\ init' = [init EXCEPT !.noHeader = IF uncomp.init THEN FALSE ELSE @]
        /\ first' = TRUE /\ busy' = "no" /\ UNCHANGED <<asked, used>>
    BY <1>4 DEF Reinit
  <2>2. settings' \in Settings /\ init' \in Settings
    BY <2>1, SettingsAssumption DEF TypeOK, Settings, Default, Dicts
  <2>3. comp' \in Stream /\ uncomp' \in Stream
    BY <2>1 DEF TypeOK, Stream, Dicts
  <2> QED BY <2>1, <2>2, <2>3 DEF TypeOK
<1>5. CASE Compressing
  <2>1. PICK made \in Stream : made = CompressInit
    BY MadeTyped
  <2>2. PICK says \in Settings : says = CompressInitSettings
    BY MadeTyped
  <2>3. PICK full \in Stream : full = RecordDictionary(CompressInit)
    BY <2>1, DictionaryRecorded
  <2>4. PICK told \in Settings : told = RecordDictionary(CompressInitSettings)
    BY <2>2, DictionaryRecorded
  <2>5. ASSUME NEW finish \in BOOLEAN, busy # "uncomp", CompressOk(finish)
        PROVE  TypeOK'
    <3>1. /\ first' = finish /\ busy' = (IF finish THEN "no" ELSE "comp")
          /\ UNCHANGED <<settings, uncomp>>
      BY <2>5 DEF CompressOk
    <3>2. CASE first
      <4>1. comp' = full /\ init' = told /\ asked' = settings /\ used' = full
        BY <2>3, <2>4, <2>5, <3>2 DEF CompressOk, CompressAtMostOrAll
      <4> QED BY <2>3, <3>1, <4>1 DEF TypeOK
    <3>3. CASE ~first
      <4>1. used' = comp /\ UNCHANGED <<comp, init, asked>> /\ busy = "comp"
        BY <2>5, <3>3 DEF CompressOk, CompressAtMostOrAll, TypeOK
      <4> QED BY <3>1, <4>1 DEF TypeOK
    <3> QED BY <3>2, <3>3
  <2>6. CASE CompressFails
    <3>1. PICK s \in Stream : comp' = End(s)
      BY <2>1, <2>6 DEF CompressFails, TypeOK
    <3>2. comp' \in Stream
      BY <3>1 DEF End, Stream
    <3>3. /\ first' = TRUE /\ busy' = "no" /\ UNCHANGED <<settings, uncomp, asked, used>>
          /\ init' \in Settings
      BY <2>4, <2>6 DEF CompressFails, TypeOK
    <3> QED BY <3>2, <3>3 DEF TypeOK
  <2>7. CASE CompressHeaderFails
    BY <2>1, <2>2, <2>7 DEF CompressHeaderFails, TypeOK
  <2> QED BY <1>5, <2>5, <2>6, <2>7 DEF Compressing
<1>6. CASE Uncompressing
  <2>1. PICK made \in Stream : made = UncompressInit
    <3>1. NoDict \in Dicts /\ settings.noHeader \in BOOLEAN /\ uncomp \in Stream
      BY DEF TypeOK, Settings, Dicts
    <3>2. UncompressInit \in Stream
      BY <3>1 DEF UncompressInit, Stream
    <3> QED BY <3>2
  <2>2. PICK ready \in Stream : ready = IF first THEN UncompressInit ELSE uncomp
    BY <2>1 DEF TypeOK
  <2>3. ASSUME NEW need \in BOOLEAN, NEW done \in BOOLEAN, busy # "comp", UncompressOk(need, done)
        PROVE  TypeOK'
    <3>1. /\ uncomp' = [ready EXCEPT !.dict = IF need THEN settings.dict ELSE @]
          /\ init' = [init EXCEPT !.noHeader = IF first THEN settings.noHeader ELSE @,
                                  !.dict = IF need THEN settings.dict ELSE @]
          /\ asked' = IF first THEN settings ELSE asked
          /\ used' = [uncomp' EXCEPT !.level = asked'.level, !.window = asked'.window,
                                     !.dict = asked'.dict]
          /\ first' = done /\ busy' = (IF done THEN "no" ELSE "uncomp")
          /\ UNCHANGED <<settings, comp>>
      BY <2>2, <2>3 DEF UncompressOk, UncompressAtMostOrAll
    <3>3. uncomp' \in Stream /\ asked' \in Settings /\ init' \in Settings
      BY <3>1 DEF TypeOK, Stream, Settings
    <3>4. used' = [uncomp' EXCEPT !.level = asked'.level, !.window = asked'.window,
                                  !.dict = asked'.dict]
      BY <3>1
    <3>5. used' \in Stream
      BY <3>3, <3>4 DEF Stream, Settings
    <3> QED BY <3>1, <3>3, <3>5 DEF TypeOK
  <2>4. ASSUME NEW need \in BOOLEAN, UncompressFails(need)
        PROVE  TypeOK'
    <3>1. uncomp' = End(ready)
      BY <2>2, <2>4 DEF UncompressFails
    <3>2. uncomp' \in Stream
      BY <3>1 DEF End, Stream
    <3>3. init' \in Settings
      BY <2>4 DEF UncompressFails, TypeOK, Settings
    <3> QED BY <2>4, <3>2, <3>3 DEF UncompressFails, TypeOK
  <2> QED BY <1>6, <2>3, <2>4 DEF Uncompressing
<1> QED BY <1>1, <1>2, <1>3, <1>4, <1>5, <1>6, NextKinds

(***************************************************************************)
(* first_chunk_ always says whether the caller is amid chunks: it is set   *)
(* again by whatever ends them, errors and Reinit included.                *)
(***************************************************************************)
THEOREM SettingsTyped == Spec => []TypeOK
<1>1. Init => TypeOK
  BY InitFits DEF SettingsInv
<1>2. TypeOK /\ [Next]_vars => TypeOK'
  <2> SUFFICES ASSUME TypeOK, [Next]_vars PROVE TypeOK'
    OBVIOUS
  <2>1. CASE Next
    BY <2>1, CallsKeepTypes
  <2>2. CASE UNCHANGED vars
    BY <2>2 DEF vars, TypeOK
  <2> QED BY <2>1, <2>2
<1> QED BY <1>1, <1>2, PTL DEF Spec

(***************************************************************************)
(* A caller that does not call Reinit on an object which compressed in     *)
(* no-header mode may set what it likes when it likes, amid chunks too,    *)
(* and may use one ZLib object in both directions: the data of a message   *)
(* goes through a stream with the level, window, dictionary and header     *)
(* mode that were set when its first chunk came.                           *)
(***************************************************************************)
THEOREM SettingsCorrect ==
  ASSUME ~MayReinitBare
  PROVE  Spec => []FitsAsked
<1>1. Init => SettingsInv
  BY InitFits
<1>2. SettingsInv /\ [Next]_vars => SettingsInv'
  <2> SUFFICES ASSUME SettingsInv, [Next]_vars PROVE SettingsInv'
    OBVIOUS
  <2>1. CASE Next
    BY <2>1, CallsKeep
  <2>2. CASE UNCHANGED vars
    BY <2>2 DEF vars, SettingsInv, TypeOK, InitDescribesComp, StreamAsAsked, FitsAsked
  <2> QED BY <2>1, <2>2
<1>3. SettingsInv => FitsAsked
  BY DEF SettingsInv
<1> QED BY <1>1, <1>2, <1>3, PTL DEF Spec

-----------------------------------------------------------------------------
(***************************************************************************)
(* Every call keeps ReadyInv, if the header mode is not set amid chunks;   *)
(* a stream that is used is ready.                                         *)
(***************************************************************************)
LEMMA CallsKeepReady ==
  ASSUME ~MayInterrupt,
         ReadyInv, Next
  PROVE  ReadyInv' /\ (used' # used => used'.init)
<1> USE DEF ReadyInv
<1>1. CASE Setting
  <2>1. /\ UNCHANGED <<init, comp, uncomp, first, busy, asked, used>>
        /\ settings' \in Settings
    BY <1>1 DEF Setting, SetCompressionLevel, SetCompressionWindowSizeInBits, SetDictionary,
       Set, TypeOK, Settings
  <2> QED BY <2>1 DEF TypeOK, AmidChunks
<1>2. CASE SettingHeaderMode
  <2>1. PICK s \in Settings : ApplyHeaderMode(s) /\ busy = "no"
    BY <1>2 DEF SettingHeaderMode, SetNoHeaderMode, SetGzipHeaderMode, TypeOK, Settings
  <2>2. settings' = s /\ UNCHANGED <<init, asked, used>>
    BY <2>1 DEF ApplyHeaderMode, Set
  <2>3. first' /\ busy' = "no"
    BY <2>1 DEF ApplyHeaderMode, TypeOK
  <2>4. comp' \in Stream /\ uncomp' \in Stream
    BY <2>1 DEF ApplyHeaderMode, End, TypeOK, Stream
  <2>5. first' \in BOOLEAN
    BY <2>1 DEF ApplyHeaderMode, TypeOK
  <2> QED BY <2>2, <2>3, <2>4, <2>5 DEF TypeOK, AmidChunks
<1>3. CASE Reset
  BY <1>3 DEF Reset, TypeOK, AmidChunks
<1>4. CASE Reinit
  <2>1. /\ settings' = Default
        /\ comp' = [comp EXCEPT !.dict = NoDict]
        /\ uncomp' = [uncomp EXCEPT !.dict = NoDict, !.raw = IF uncomp.init THEN FALSE ELSE @]
        /\ init' = [init EXCEPT !.noHeader = IF uncomp.init THEN FALSE ELSE @]
        /\ first' = TRUE /\ busy' = "no" /\ UNCHANGED <<asked, used>>
    BY <1>4 DEF Reinit
  <2>2. settings' \in Settings /\ init' \in Settings
    BY <2>1, SettingsAssumption DEF TypeOK, Settings, Default, Dicts
  <2>3. comp' \in Stream /\ uncomp' \in Stream
    BY <2>1 DEF TypeOK, Stream, Dicts
  <2> QED BY <2>1, <2>2, <2>3 DEF TypeOK, AmidChunks
<1>5. CASE Compressing
  <2>1. PICK made \in Stream : made = CompressInit /\ made.init
    BY MadeTyped
  <2>2. PICK says \in Settings : says = CompressInitSettings
    BY MadeTyped
  <2>3. PICK full \in Stream : full = RecordDictionary(CompressInit) /\ full.init
    BY <2>1, DictionaryRecorded
  <2>4. PICK told \in Settings : told = RecordDictionary(CompressInitSettings)
    BY <2>2, DictionaryRecorded
  <2>5. ASSUME NEW finish \in BOOLEAN, busy # "uncomp", CompressOk(finish)
        PROVE  ReadyInv' /\ (used' # used => used'.init)
    <3>1. /\ first' = finish /\ busy' = (IF finish THEN "no" ELSE "comp")
          /\ UNCHANGED <<settings, uncomp>>
      BY <2>5 DEF CompressOk
    <3>2. CASE first
      <4>1. comp' = full /\ init' = told /\ asked' = settings /\ used' = full
        BY <2>3, <2>4, <2>5, <3>2 DEF CompressOk, CompressAtMostOrAll
      <4> QED BY <2>3, <3>1, <4>1 DEF TypeOK, AmidChunks
    <3>3. CASE ~first
      <4>1. used' = comp /\ UNCHANGED <<comp, init, asked>> /\ busy = "comp"
        BY <2>5, <3>3 DEF CompressOk, CompressAtMostOrAll, TypeOK, AmidChunks
      <4> QED BY <3>1, <4>1 DEF TypeOK, AmidChunks
    <3> QED BY <3>2, <3>3
  <2>6. CASE CompressFails
    <3>1. PICK s \in Stream : comp' = End(s)
      BY <2>1, <2>6 DEF CompressFails, TypeOK
    <3>2. comp' \in Stream
      BY <3>1 DEF End, Stream
    <3>3. /\ first' = TRUE /\ busy' = "no" /\ UNCHANGED <<settings, uncomp, asked, used>>
          /\ init' \in Settings
      BY <2>4, <2>6 DEF CompressFails, TypeOK
    <3> QED BY <3>2, <3>3 DEF TypeOK, AmidChunks
  <2>7. CASE CompressHeaderFails
    BY <2>1, <2>2, <2>7 DEF CompressHeaderFails, TypeOK, AmidChunks
  <2> QED BY <1>5, <2>5, <2>6, <2>7 DEF Compressing
<1>6. CASE Uncompressing
  <2>1. PICK made \in Stream : made = UncompressInit /\ made.init
    <3>1. NoDict \in Dicts /\ settings.noHeader \in BOOLEAN /\ uncomp \in Stream
      BY DEF TypeOK, Settings, Dicts
    <3>2. UncompressInit \in Stream /\ UncompressInit.init
      BY <3>1 DEF UncompressInit, Stream
    <3> QED BY <3>2
  <2>2. PICK ready \in Stream : ready = IF first THEN UncompressInit ELSE uncomp
    BY <2>1 DEF TypeOK
  <2>3. ASSUME NEW need \in BOOLEAN, NEW done \in BOOLEAN, busy # "comp", UncompressOk(need, done)
        PROVE  ReadyInv' /\ (used' # used => used'.init)
    <3>1. /\ uncomp' = [ready EXCEPT !.dict = IF need THEN settings.dict ELSE @]
          /\ init' = [init EXCEPT !.noHeader = IF first THEN settings.noHeader ELSE @,
                                  !.dict = IF need THEN settings.dict ELSE @]
          /\ asked' = IF first THEN settings ELSE asked
          /\ used' = [uncomp' EXCEPT !.level = asked'.level, !.window = asked'.window,
                                     !.dict = asked'.dict]
          /\ first' = done /\ busy' = (IF done THEN "no" ELSE "uncomp")
          /\ UNCHANGED <<settings, comp>>
      BY <2>2, <2>3 DEF UncompressOk, UncompressAtMostOrAll
    <3>2. ready.init
      BY <2>1, <2>2, <2>3 DEF TypeOK, AmidChunks
    <3>3. uncomp' \in Stream /\ uncomp'.init /\ asked' \in Settings /\ init' \in Settings
      BY <3>1, <3>2 DEF TypeOK, Stream, Settings
    <3>4. used' = [uncomp' EXCEPT !.level = asked'.level, !.window = asked'.window,
                                  !.dict = asked'.dict]
      BY <3>1
    <3>5. used' \in Stream /\ used'.init
      BY <3>3, <3>4 DEF Stream, Settings
    <3> QED BY <3>1, <3>3, <3>5 DEF TypeOK, AmidChunks
  <2>4. ASSUME NEW need \in BOOLEAN, UncompressFails(need)
        PROVE  ReadyInv' /\ (used' # used => used'.init)
    <3>1. uncomp' = End(ready)
      BY <2>2, <2>4 DEF UncompressFails
    <3>2. uncomp' \in Stream
      BY <3>1 DEF End, Stream
    <3>3. init' \in Settings
      BY <2>4 DEF UncompressFails, TypeOK, Settings
    <3> QED BY <2>4, <3>2, <3>3 DEF UncompressFails, TypeOK, AmidChunks
  <2> QED BY <1>6, <2>3, <2>4 DEF Uncompressing
<1> QED BY <1>1, <1>2, <1>3, <1>4, <1>5, <1>6, NextKinds

(***************************************************************************)
(* A caller that does not set the header mode amid chunks never has        *)
(* deflate or inflate given a stream that was ended or never made, however *)
(* calls fail and settings change in between.                              *)
(***************************************************************************)
THEOREM StreamsReady ==
  ASSUME ~MayInterrupt
  PROVE  Spec => StreamReady
<1>1. Init => ReadyInv
  BY InitFits DEF Init, ReadyInv, SettingsInv, AmidChunks
<1>2. ReadyInv /\ [Next]_vars => ReadyInv' /\ [used' # used => used'.init]_vars
  <2> SUFFICES ASSUME ReadyInv, [Next]_vars
               PROVE  ReadyInv' /\ [used' # used => used'.init]_vars
    OBVIOUS
  <2>1. CASE Next
    BY <2>1, CallsKeepReady
  <2>2. CASE UNCHANGED vars
    BY <2>2 DEF vars, ReadyInv, TypeOK, AmidChunks
  <2> QED BY <2>1, <2>2
<1> QED BY <1>1, <1>2, PTL DEF Spec, StreamReady

(***************************************************************************)
(* A caller that stays in no-header mode while in gzip mode, and does not  *)
(* Reinit after it, gets what it asked for and what zlibwrapper.h says of  *)
(* SetGzipHeaderMode: the data behind a gzip header is always a bare       *)
(* deflate stream.                                                         *)
(***************************************************************************)
THEOREM GzipStreamsBare ==
  ASSUME ~MayReinitBare, ~MayTurnBack
  PROVE  Spec => []UsedAsAsked
<1>1. Init => GzipNoHeader
  BY DEF Init, Default, GzipNoHeader
<1>2. TypeOK /\ GzipNoHeader /\ [Next]_vars => GzipNoHeader'
  <2> SUFFICES ASSUME TypeOK, GzipNoHeader, [Next]_vars PROVE GzipNoHeader'
    OBVIOUS
  <2>1. CASE Setting
    <3>1. /\ asked' = asked
          /\ settings'.gzip = settings.gzip /\ settings'.noHeader = settings.noHeader
      BY <2>1 DEF Setting, SetCompressionLevel, SetCompressionWindowSizeInBits,
         SetDictionary, Set, TypeOK, Settings
    <3> QED BY <3>1 DEF GzipNoHeader
  <2>2. CASE SettingHeaderMode
    <3>1. asked' = asked
      BY <2>2 DEF SettingHeaderMode, SetNoHeaderMode, SetGzipHeaderMode, ApplyHeaderMode
    <3>2. settings'.gzip => settings'.noHeader
      BY <2>2 DEF SettingHeaderMode, SetNoHeaderMode, SetGzipHeaderMode, ApplyHeaderMode, Set,
         TypeOK, Settings
    <3> QED BY <3>1, <3>2 DEF GzipNoHeader
  <2>3. CASE Reset \/ Reinit
    <3>1. asked' = asked /\ settings' \in {settings, Default}
      BY <2>3 DEF Reset, Reinit
    <3>2. ~Default.gzip
      BY DEF Default
    <3> QED BY <3>1, <3>2 DEF GzipNoHeader
  <2>4. CASE Compressing \/ Uncompressing
    <3>1. settings' = settings /\ asked' \in {asked, settings}
      BY <2>4 DEF Compressing, Uncompressing, CompressOk, CompressFails, CompressHeaderFails,
         CompressAtMostOrAll, UncompressOk, UncompressFails, UncompressAtMostOrAll
    <3> QED BY <3>1 DEF GzipNoHeader
  <2>5. CASE UNCHANGED vars
    BY <2>5 DEF vars, GzipNoHeader
  <2> QED BY <2>1, <2>2, <2>3, <2>4, <2>5, NextKinds
<1>3. GzipNoHeader /\ FitsAsked => UsedAsAsked
  BY DEF GzipNoHeader, FitsAsked, GzipIsBare, UsedAsAsked
<1> QED BY <1>1, <1>2, <1>3, SettingsTyped, SettingsCorrect, PTL DEF Spec
=============================================================================
