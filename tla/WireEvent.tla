------------------------------ MODULE WireEvent ------------------------------
(***************************************************************************)
(* The samples of an event on their way from the encoder into the          *)
(* channels of the data model: EventEncoder::EncodeEvent packs or          *)
(* compresses them (daq/src/EventEncoder.cc, dlardaq.cc),                  *)
(* EventDecoder::Decode takes them apart (EventDecoder.cc), and            *)
(* RawDataFormatUtil::FillEvent puts them where the channel map says       *)
(* (datautils/src/RawDataFormatUtil.cc).  The channels of the data model   *)
(* are made once for a run and filled again with every event.              *)
(***************************************************************************)
EXTENDS HuffDecoder, ChannelMap311

CONSTANTS
  Setups,      \* [map, nsample, strips: per view those of the geometry file,
               \*  events: the k-th is from events[k], a sequence of channels,
               \*  as many as the geometry file has strips]
  NoData       \* what a channel holds before the first event

VARIABLES
  setup,
  sent,        \* the events sent, each its channels' samples
  starts,      \* history: where the channels start in buf, and where it ends
  packed,      \* an event on the wire that is not compressed, as bytes
  crp,         \* the samples of every strip of the data model
  filled       \* whether the event sent last is in crp

wireVars == <<huffVars, setup, sent, starts, packed, crp, filled>>

NCh        == setup.strips[0] + setup.strips[1]
Strips     == UNION {[view : {v}, chv : 0 .. setup.strips[v] - 1] : v \in 0 .. 1}
Flat(event) == FlattenSeq(event)

(* Bug form of Pack16into12: the low part of the first sample is lost.     *)
Pack16into12Low(samples) ==
  LET pair(k) == LET v1 == samples[2 * k - 1]
                     v2 == samples[2 * k]
                 IN  <<(v1 \div 16) % 256, (v2 \div 256) % 16, v2 % 256>>
  IN  FlattenSeq([k \in 1 .. Len(samples) \div 2 |-> pair(k)])

(* pack16into12: two samples of 12 bits in three bytes *)
Pack16into12(samples) ==
  LET pair(k) == LET v1 == samples[2 * k - 1]
                     v2 == samples[2 * k]
                 IN  <<(v1 \div 16) % 256, ((v1 % 16) * 16) + ((v2 \div 256) % 16), v2 % 256>>
  IN  FlattenSeq([k \in 1 .. Len(samples) \div 2 |-> pair(k)])

(* unpack12into16 *)
Unpack12into16(bytes) ==
  LET triple(k) == LET v1 == bytes[3 * k - 2]
                       v2 == bytes[3 * k - 1]
                       v3 == bytes[3 * k]
                   IN  <<(v1 * 16) + (v2 \div 16), ((v2 % 16) * 256) + v3>>
  IN  FlattenSeq([k \in 1 .. Len(bytes) \div 3 |-> triple(k)])

(* EncodeEvent of the next event, and the call of Decode for it *)
SendCompressed(event) ==
  /\ StartDecoding(CompressEventData(event), NCh, setup.nsample)
  /\ starts' = [k \in 0 .. NCh |-> Len(CompressEventData(SubSeq(event, 1, k)))]
  /\ UNCHANGED packed

SendPacked(event) ==
  /\ packed' = Pack16into12(Flat(event))
  /\ adc' = <<>>
  /\ status' = "unpacking"
  /\ UNCHANGED <<starts, callerVars, byteidx, noread, bitqueue, ss, lastdelta, bitsread,
                 chdata, chread>>

Send ==
  /\ status \in {"idle", "ok", "gaveup"} /\ filled = (sent # <<>>)
  /\ Len(sent) < Len(setup.events)
  /\ \E event \in setup.events[Len(sent) + 1] :
       /\ sent' = Append(sent, event)
       /\ SendCompressed(event) \/ SendPacked(event)
  /\ filled' = FALSE
  /\ UNCHANGED <<setup, crp>>

(* Decode of an event that is not compressed *)
Unpack ==
  /\ status = "unpacking"
  /\ adc' = Unpack12into16(packed)
  /\ status' = "ok"
  /\ UNCHANGED <<callerVars, byteidx, noread, bitqueue, ss, lastdelta, bitsread,
                 chdata, chread, setup, sent, starts, packed, crp, filled>>

Decompress ==
  /\ Iteration
  /\ UNCHANGED <<setup, sent, starts, packed, crp, filled>>

(* Bug form of Filled: a strip is looked up in view 0 whatever its view.   *)
FilledView0(strip, samples) ==
  LET daqch == MapToDAQFile(setup.map, 0, 0, strip.chv)
  IN  [i \in DOMAIN crp[strip] |->
         LET spos == daqch * setup.nsample + i
         IN  IF daqch # NoChannel /\ spos < Len(samples) THEN samples[spos + 1] ELSE crp[strip][i]]

(* What a strip holds after it was filled from the samples: those that are *)
(* not there leave what it held.                                           *)
Filled(strip, samples) ==
  LET daqch == MapToDAQFile(setup.map, 0, strip.view, strip.chv)
  IN  [i \in DOMAIN crp[strip] |->
         LET spos == daqch * setup.nsample + i
         IN  IF daqch # NoChannel /\ spos < Len(samples) THEN samples[spos + 1] ELSE crp[strip][i]]

(* FillEvent complains about samples that are missing and goes on. *)
FillEvent ==
  /\ status \in {"ok", "gaveup"} /\ ~filled
  /\ crp' = [strip \in Strips |-> Filled(strip, adc)]
  /\ filled' = TRUE
  /\ UNCHANGED <<huffVars, setup, sent, starts, packed>>

WireInit ==
  /\ HuffInit
  /\ setup \in Setups /\ InitMapOk(setup.map)
  /\ sent = <<>> /\ starts = <<>> /\ packed = <<>> /\ filled = FALSE
  /\ crp = [strip \in Strips |-> [i \in 0 .. setup.nsample - 1 |-> NoData]]

WireNext == Send \/ Unpack \/ Decompress \/ FillEvent
WireSpec == WireInit /\ [][WireNext]_wireVars

-----------------------------------------------------------------------------
(* The samples of the event are those that were sent, whether compressed   *)
(* or packed.  Only an event whose last channel is as short as two bytes   *)
(* is given up, with the channels before it (HuffDataCompressor.cc:        *)
(* 574-584): the loop allows a single iteration without a byte to read,    *)
(* and two packets may be left.  And the program is never ended: abort()   *)
(* is only for data that are damaged (:592, :663, :681).                   *)
RoundTrip ==
  /\ status # "abort"
  /\ status = "ok" => adc = Flat(Last(sent))
  /\ status = "gaveup" =>
       /\ IsPrefix(adc, Flat(Last(sent)))
       /\ Len(CompressChData(Last(Last(sent)))) <= 2 * m_NbitsByte

(* "the first entry in the bitqueue deck should always be aligned on the   *)
(* compressed / raw flag" (HuffDataCompressor.cc:562): a channel starts at *)
(* its first byte, and a packet behind the packets before it.              *)
FlagFirst ==
  status = "decoding" =>
    /\ m_NbitsByte * byteidx - Len(bitqueue) = starts[chread] + bitsread
    /\ bitsread % m_PacketSize = 0

(* A strip that the map does not have never gets samples, although         *)
(* CheckCRPInputs does not look at the channel (ChannelMap.cc:100).        *)
OutOfRangeEmpty ==
  \A strip \in Strips :
    strip.chv >= ChPerView(setup.map)[strip.view] =>
      \A i \in 0 .. setup.nsample - 1 : crp[strip][i] = NoData

(* Every channel of the readout whose samples were decoded is shown by the *)
(* strip that MapToCRP gives for it: the table InitMap() makes for         *)
(* MapToDAQFile (ChannelMap.cc:113) is the inverse of that function.  The  *)
(* strips of channels that were lost keep what an earlier event left.      *)
(* Strips without a channel get none.                                      *)
ChannelsAtTheirStrips ==
  /\ OutOfRangeEmpty
  /\ filled =>
      \A d \in DAQChannels(setup.map) :
         LET strip == StripOf(setup.map, d)
             seqch == SeqChannelOf(setup.map, d)
             shows(event) == \A i \in 0 .. setup.nsample - 1 :
                                crp[strip][i] = event[seqch + 1][i + 1]
         IN  strip \in Strips =>
               IF (seqch + 1) * setup.nsample <= Len(adc)
                 THEN shows(Last(sent))
                 ELSE \/ \E k \in 1 .. Len(sent) - 1 : shows(sent[k])
                      \/ \A i \in 0 .. setup.nsample - 1 : crp[strip][i] = NoData
=============================================================================
