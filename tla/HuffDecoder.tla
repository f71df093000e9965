----------------------------- MODULE HuffDecoder -----------------------------
(***************************************************************************)
(* HuffDataCompressor::DecompressEventData (daq/src/                       *)
(* HuffDataCompressor.cc), from a buffer.  The loop reads one byte and     *)
(* takes at most one packet in an iteration: an iteration is a step.       *)
(***************************************************************************)
EXTENDS HuffCode

VARIABLES
  buf, nch, seqlen,  \* the call: bits of the buffer, channels, samples of a channel
  status,            \* "idle", "decoding", "ok", "gaveup" or "abort",
                     \* which also stands for what has no defined outcome
  byteidx,           \* bytes read
  bitqueue,          \* bits read and not yet taken
  ss,                \* bits of a code that is not complete
  lastdelta, bitsread, noread,
  chdata,            \* samples of the channel being decoded
  chread,            \* channels decoded
  adc                \* their samples

callerVars   == <<buf, nch, seqlen>>
packetVars == <<bitqueue, ss, lastdelta, bitsread, chdata, chread, adc>>
huffVars   == <<callerVars, status, byteidx, noread, packetVars>>

bufsize == Len(buf) \div m_NbitsByte
Smaller(a, b) == IF a < b THEN a ELSE b
QueueRead ==
  IF byteidx < bufsize
    THEN bitqueue \o SubSeq(buf, m_NbitsByte * byteidx + 1, m_NbitsByte * (byteidx + 1))
    ELSE bitqueue

(* The call of DecompressEventData *)
StartDecoding(bits, channels, samples) ==
  /\ buf' = bits /\ nch' = channels /\ seqlen' = samples
  /\ status' = "decoding"
  /\ byteidx' = 0 /\ noread' = 0
  /\ bitqueue' = <<>> /\ ss' = <<>> /\ lastdelta' = -999 /\ bitsread' = 0
  /\ chdata' = <<>> /\ chread' = 0 /\ adc' = <<>>

(* ReadNextByte, and nothing more: the packet is not complete *)
ReadMore ==
  /\ status = "decoding"
  /\ byteidx < bufsize
  /\ byteidx + 1 # bufsize /\ Len(QueueRead) < m_PacketSize
  /\ byteidx' = byteidx + 1
  /\ bitqueue' = QueueRead
  /\ UNCHANGED <<callerVars, status, noread, ss, lastdelta, bitsread, chdata, chread, adc>>

(* The second iteration that finds nothing to read *)
GiveUp ==
  /\ status = "decoding"
  /\ byteidx = bufsize /\ noread >= 1
  /\ status' = "gaveup"
  /\ noread' = noread + 1
  /\ UNCHANGED <<callerVars, byteidx, packetVars>>

(* One more bit of a compressed packet, unless the channel is complete *)
TakeBit(acc, bit) ==
  LET code == Append(acc.ss, bit)
      val  == m_UCmMap[Len(code)]
      one  == [acc EXCEPT !.ss = <<>>, !.taken = @ + 1, !.lastdelta = val,
                          !.chdata = Append(@, (Last(@) + val) % 2 ^ 16)]
      four == [acc EXCEPT !.ss = <<>>, !.taken = @ + 1,
                          !.chdata = @ \o [k \in 1 .. m_NSeqRep |->
                                             (Last(@) + k * acc.lastdelta) % 2 ^ 16]]
  IN  IF Len(acc.chdata) = seqlen THEN acc
      ELSE IF ~IsCode(code)
             THEN [acc EXCEPT !.ss = code, !.taken = @ + 1]
      ELSE IF val = m_NSeqRepVal THEN four ELSE one

(* The packet at the front of queue q: what is known after it.  A code     *)
(* that was cut at the end of the packet before goes on here, unless a     *)
(* sample came between.                                                    *)
Taken(q) ==
  LET bits == SubSeq(q, 2, IF Len(q) < m_PacketSize THEN Len(q) ELSE m_PacketSize)
      acc  == [ss |-> ss, taken |-> 1, lastdelta |-> lastdelta, chdata |-> chdata]
  IN  IF Head(q) = 1 THEN FoldLeft(TakeBit, acc, bits)
      ELSE [acc EXCEPT !.taken = m_PacketSize, !.ss = <<>>,
                       !.chdata = Append(@, Number(bits))]

(* bits that fill up the last byte of a channel *)
Padding(read) == (-read) % m_NbitsByte

(* Whether the program aborts: a sample that is cut off, padding that is   *)
(* missing, or a next channel that does not start with a sample            *)
Aborts(q, new, rest) ==
  \/ Head(q) = 0 /\ Len(q) < m_PacketSize
  \/ /\ Len(new.chdata) = seqlen
     /\ \/ Len(rest) < Padding(bitsread + new.taken)
        \/ /\ Len(rest) > Padding(bitsread + new.taken)
           /\ rest[Padding(bitsread + new.taken) + 1] = 1

(* front() of an empty queue, or back() of a channel without a sample      *)
Undefined(q) == q = <<>> \/ (Head(q) = 1 /\ chdata = <<>>)

(* An iteration that takes a packet, after reading a byte if there is one  *)
TakePacket ==
  LET q    == QueueRead
      new  == Taken(q)
      rest == SubSeq(q, new.taken + 1, Len(q))
      full == Len(new.chdata) = seqlen
      left == IF full THEN SubSeq(rest, 1 + Padding(bitsread + new.taken), Len(rest))
              ELSE rest
      over == full /\ chread + 1 = nch /\ left # <<>>     \* read too far
  IN  /\ status = "decoding"
      /\ byteidx < bufsize \/ noread = 0
      /\ Len(q) >= m_PacketSize \/ byteidx + 1 >= bufsize
      /\ byteidx' = Smaller(byteidx + 1, bufsize) - (IF over THEN 1 ELSE 0)
      /\ noread' = IF byteidx < bufsize THEN noread ELSE noread + 1
      /\ UNCHANGED callerVars
      /\ IF Undefined(q) \/ Aborts(q, new, rest)
           THEN status' = "abort" /\ UNCHANGED packetVars
           ELSE /\ ss' = new.ss /\ lastdelta' = new.lastdelta
                /\ bitqueue' = left
                /\ bitsread' = IF full THEN 0 ELSE bitsread + new.taken
                /\ chdata' = IF full THEN <<>> ELSE new.chdata
                /\ chread' = IF full THEN chread + 1 ELSE chread
                /\ adc' = IF full THEN adc \o new.chdata ELSE adc
                /\ status' = IF full /\ chread + 1 = nch THEN "ok" ELSE "decoding"

Iteration == ReadMore \/ TakePacket \/ GiveUp

HuffInit ==
  /\ buf = <<>> /\ nch = 0 /\ seqlen = 0
  /\ status = "idle"
  /\ byteidx = 0 /\ noread = 0 /\ bitqueue = <<>> /\ ss = <<>>
  /\ lastdelta = -999 /\ bitsread = 0 /\ chdata = <<>> /\ chread = 0 /\ adc = <<>>
=============================================================================
