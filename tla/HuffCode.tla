------------------------------ MODULE HuffCode ------------------------------
(***************************************************************************)
(* The compressed form of the samples of one channel                       *)
(* (daq/src/HuffDataCompressor.cc).  A channel is a row of packets of one  *)
(* flag bit and NBits data bits: flag 0 and a sample, or flag 1 and as     *)
(* many bits of codes of differences as fit, a code being cut where the    *)
(* packet ends.  The last packet may be shorter, and the row is padded to  *)
(* a byte.  Bits are 0 and 1; a sequence of bits stands for the string of  *)
(* characters the code builds.                                             *)
(***************************************************************************)
EXTENDS Integers, SequencesExt

CONSTANTS NBits        \* bits of a sample, 12 in the experiment

ASSUME HuffAssumption == NBits \in 8 .. 15

m_PacketSize == NBits + 1
m_NbitsByte  == 8
m_MaxDiff    == 3
m_NSeqRep    == 4
m_NSeqRepVal == m_MaxDiff + m_NSeqRep      \* stands for four more of the same

(* n zeros *)
Zeros(n) == [k \in 1 .. n |-> 0]

(* SetEncoding(): zeros that end in a one, at least one of them, so that   *)
(* a single one is left for the repetition                                 *)
ZerosBefore == [v \in {0, -1, 1, -2, 2, -3, 3, m_NSeqRepVal} |->
                  IF v = m_NSeqRepVal THEN 0 ELSE IF v < 0 THEN -2 * v ELSE 2 * v + 1]
m_CmMap       == [v \in DOMAIN ZerosBefore |-> Append(Zeros(ZerosBefore[v]), 1)]
m_MaxCodeSize == 8

(* The values by the lengths of their codes, which are all different *)
m_UCmMap == [size \in 1 .. m_MaxCodeSize |->
               CHOOSE v \in DOMAIN m_CmMap : Len(m_CmMap[v]) = size]

IsCode(bits) == Len(bits) \in DOMAIN m_UCmMap /\ m_CmMap[m_UCmMap[Len(bits)]] = bits

(* The last n bits of a number, the highest first *)
GetBinaryString(val, n) == [k \in 1 .. n |-> (val \div 2 ^ (n - k)) % 2]
Number(bits) == FoldLeft(LAMBDA sum, bit : 2 * sum + bit, 0, bits)

(* AddToHuffBuffer: equal differences in a row are counted in one entry    *)
AddToHuffBuffer(buffer, val, raw) ==
  IF ~raw /\ ~Last(buffer).raw /\ Last(buffer).value = val
    THEN Append(Front(buffer), [Last(buffer) EXCEPT !.nrep = @ + 1])
    ELSE Append(buffer, [raw |-> raw, value |-> val, nrep |-> 0])

(* The first sample, and those that are too far from the one before, are   *)
(* stored as they are, the others as differences.                          *)
HuffBuffer(data) ==
  LET delta(i)       == data[i] - data[i - 1]
      far(i)         == i = 1 \/ delta(i) \notin -m_MaxDiff .. m_MaxDiff
      add(buffer, i) == AddToHuffBuffer(buffer, IF far(i) THEN data[i] ELSE delta(i),
                                        far(i))
  IN  FoldLeft(add, <<>>, [i \in DOMAIN data |-> i])

(* Bug form of Codes: the first code is counted among the repeated ones.   *)
CodesFour(entry) ==
  LET fours == entry.nrep \div m_NSeqRep
      code  == m_CmMap[entry.value]
  IN  [k \in 1 .. fours |-> m_CmMap[m_NSeqRepVal]]
        \o [k \in 1 .. 1 + entry.nrep - m_NSeqRep * fours |-> code]

(* The codes of an entry, the loop over jj: the difference once, then four *)
(* at a time as long as jj + m_NSeqRep <= nhcrep, jj being at the first of *)
(* the four, then the rest one by one                                      *)
Codes(entry) ==
  LET fours == IF entry.nrep = 0 THEN 0 ELSE (entry.nrep - 1) \div m_NSeqRep
      code  == m_CmMap[entry.value]
  IN  <<code>> \o [k \in 1 .. fours |-> m_CmMap[m_NSeqRepVal]]
               \o [k \in 1 .. entry.nrep - m_NSeqRep * fours |-> code]

(* Bug form of AddCode: what did not fit is carried over without a flag.   *)
AddCodeNoFlag(stream, code) ==
  LET word == stream.bitword \o code
  IN  IF Len(word) < m_PacketSize
        THEN [stream EXCEPT !.bitword = word]
        ELSE [out     |-> stream.out \o SubSeq(word, 1, m_PacketSize),
              bitword |-> SubSeq(word, m_PacketSize + 1, Len(word))]

(* A code is added to the packet that is being filled.                     *)
AddCode(stream, code) ==
  LET word == stream.bitword \o code
  IN  IF Len(word) < m_PacketSize
        THEN [stream EXCEPT !.bitword = word]
        ELSE [out     |-> stream.out \o SubSeq(word, 1, m_PacketSize),
              bitword |-> <<1>> \o SubSeq(word, m_PacketSize + 1, Len(word))]

(* A sample is written as it is, behind the padded packet of codes.        *)
AddRaw(stream, val) ==
  LET word   == stream.bitword
      before == IF Len(word) > 1 THEN word \o Zeros(m_PacketSize - Len(word)) ELSE <<>>
  IN  [out     |-> stream.out \o before \o <<0>> \o GetBinaryString(val, NBits),
       bitword |-> <<1>>]

AddEntry(stream, entry) ==
  IF entry.raw THEN AddRaw(stream, entry.value)
               ELSE FoldLeft(AddCode, stream, Codes(entry))

(* AddWordsToByteBuffer: whole bytes, the last one padded with zeros *)
PadByte(bits) == bits \o Zeros((-Len(bits)) % m_NbitsByte)

CompressChData(data) ==
  LET stream == FoldLeft(AddEntry, [out |-> <<>>, bitword |-> <<>>], HuffBuffer(data))
  IN  PadByte(stream.out \o (IF Len(stream.bitword) > 1 THEN stream.bitword ELSE <<>>))

(* CompressEventData: the channels one after the other *)
CompressEventData(event) ==
  FoldLeft(LAMBDA bits, data : bits \o CompressChData(data), <<>>, event)
=============================================================================
