--------------------------- MODULE NetworkProofs ----------------------------
(***************************************************************************)
(* Events over the network: what is proved of the decoder that receives    *)
(* them (EventDecoderOnline) and of the client that keeps the connection   *)
(* (EventClient).                                                          *)
(***************************************************************************)
EXTENDS EventDecoderOnline, EventClient, SequenceTheorems, FiniteSetTheorems,
        WellFoundedInduction, TLAPS

(***************************************************************************)
(* On one connection ReadBuffer never stores anything but the whole data   *)
(* of the event whose header it holds, unless that header is none: for any *)
(* number of events of any sizes, cut into chunks of any lengths, whatever *)
(* data look like a frame.  And the chain from the socket to the display   *)
(* implements EventFeed.                                                   *)
(***************************************************************************)

Units == [ev : Events, part : Int]

USE OnlineAssumption DEF Events, NoAdc, Unknown

-----------------------------------------------------------------------------
LEMMA UnitFields == \A e, i : Unit(e, i).ev = e /\ Unit(e, i).part = i
BY DEF Unit

LEMMA UnitType == \A e \in Events, i \in Int : Unit(e, i) \in Units
BY DEF Unit, Units

LEMMA FunctionIsSeq ==
  ASSUME NEW S, NEW n \in Nat, NEW s \in [1 .. n -> S]
  PROVE  s \in Seq(S) /\ Len(s) = n
<1>1. s \in Seq(S)
  BY SeqDef
<1>2. DOMAIN s = 1 .. n /\ DOMAIN s = 1 .. Len(s) /\ Len(s) \in Nat
  BY <1>1, LenProperties
<1> QED BY <1>1, <1>2

(* A frame is the units -1 .. Size[e] of its event. *)
LEMMA FrameUnits ==
  ASSUME NEW e \in Events
  PROVE  /\ Data(e) \in Seq(Units)
         /\ Len(Data(e)) = Size[e]
         /\ \A i \in 1 .. Size[e] : Data(e)[i] = Unit(e, i)
         /\ Frame(e) \in Seq(Units)
         /\ Len(Frame(e)) = Size[e] + 2
         /\ \A i \in 1 .. Size[e] + 2 : Frame(e)[i] = Unit(e, i - 2)
<1> DEFINE h == <<RunHead(e), EveHead(e)>>
<1>1. Size[e] \in Nat
  OBVIOUS
<1>2. /\ Data(e) \in Seq(Units)
      /\ Len(Data(e)) = Size[e]
      /\ \A i \in 1 .. Size[e] : Data(e)[i] = Unit(e, i)
  <2>1. Data(e) = [i \in 1 .. Size[e] |-> Unit(e, i)]
    BY DEF Data
  <2>2. \A i \in 1 .. Size[e] : Unit(e, i) \in Units
    BY UnitType
  <2>3. Data(e) \in [1 .. Size[e] -> Units]
    BY <2>1, <2>2
  <2>4. Data(e) \in Seq(Units) /\ Len(Data(e)) = Size[e]
    BY <1>1, <2>3, FunctionIsSeq
  <2> QED BY <2>1, <2>4
<1>3. h \in Seq(Units) /\ Len(h) = 2 /\ h[1] = Unit(e, -1) /\ h[2] = Unit(e, 0)
  <2>1. h = <<Unit(e, -1), Unit(e, 0)>>
    BY DEF RunHead, EveHead
  <2>2. Unit(e, -1) \in Units /\ Unit(e, 0) \in Units
    BY UnitType
  <2> HIDE DEF h
  <2> QED BY <2>1, <2>2
<1>4. Frame(e) = h \o Data(e)
  BY DEF Frame
<1> HIDE DEF h
<1>5. /\ Frame(e) \in Seq(Units)
      /\ Len(Frame(e)) = Size[e] + 2
      /\ \A i \in 1 .. Size[e] + 2 :
           Frame(e)[i] = IF i <= 2 THEN h[i] ELSE Data(e)[i - 2]
  <2> DEFINE d == Data(e)
  <2>1. d \in Seq(Units) /\ Len(d) = Size[e] /\ Frame(e) = h \o d
    BY <1>2, <1>4
  <2> HIDE DEF d
  <2>2. h \o d \in Seq(Units)
    BY <1>3, <2>1, ConcatProperties
  <2>3. Len(h \o d) = Len(h) + Len(d)
    BY <1>3, <2>1, ConcatProperties
  <2>4. \A i \in 1 .. Len(h) + Len(d) :
          (h \o d)[i] = IF i <= Len(h) THEN h[i] ELSE d[i - Len(h)]
    BY <1>3, <2>1, ConcatProperties
  <2>5. Len(h) + Len(d) = Size[e] + 2
    BY <1>1, <1>3, <2>1
  <2> QED BY <1>3, <2>1, <2>2, <2>3, <2>4, <2>5 DEF d
<1>6. ASSUME NEW i \in 1 .. Size[e] + 2 PROVE Frame(e)[i] = Unit(e, i - 2)
  <2>1. CASE i = 1
    BY <1>3, <1>5, <2>1
  <2>2. CASE i = 2
    BY <1>3, <1>5, <2>2
  <2>3. CASE i > 2
    <3>1. i - 2 \in 1 .. Size[e]
      BY <1>1, <2>3
    <3> QED BY <1>2, <1>5, <2>3, <3>1
  <2> QED BY <1>1, <2>1, <2>2, <2>3
<1> QED BY <1>2, <1>5, <1>6

(* The chunk of the first n units, and what it leaves in the socket. *)
LEMMA ChunkUnits ==
  ASSUME NEW s \in Seq(Units), NEW n \in 1 .. Len(s)
  PROVE  /\ SubSeq(s, 1, n) \in Seq(Units)
         /\ Len(SubSeq(s, 1, n)) = n
         /\ \A i \in 1 .. n : SubSeq(s, 1, n)[i] = s[i]
         /\ SubSeq(s, n + 1, Len(s)) \in Seq(Units)
         /\ Len(SubSeq(s, n + 1, Len(s))) = Len(s) - n
         /\ \A i \in 1 .. Len(s) - n : SubSeq(s, n + 1, Len(s))[i] = s[n + i]
<1>1. Len(s) \in Nat /\ \A i \in 1 .. Len(s) : s[i] \in Units
  OBVIOUS
<1>2. /\ SubSeq(s, 1, n) \in Seq(Units)
      /\ Len(SubSeq(s, 1, n)) = n
      /\ \A i \in 1 .. n : SubSeq(s, 1, n)[i] = s[i]
  <2>1. \A i \in 1 .. n : s[i] \in Units
    BY <1>1
  <2>2. /\ SubSeq(s, 1, n) \in Seq(Units)
        /\ Len(SubSeq(s, 1, n)) = IF 1 <= n THEN n - 1 + 1 ELSE 0
        /\ \A i \in 1 .. n - 1 + 1 : SubSeq(s, 1, n)[i] = s[1 + i - 1]
    BY <1>1, <2>1, SubSeqProperties
  <2> QED BY <1>1, <2>2
<1>3. /\ SubSeq(s, n + 1, Len(s)) \in Seq(Units)
      /\ Len(SubSeq(s, n + 1, Len(s))) = Len(s) - n
      /\ \A i \in 1 .. Len(s) - n : SubSeq(s, n + 1, Len(s))[i] = s[n + i]
  <2>1. \A i \in n + 1 .. Len(s) : s[i] \in Units
    BY <1>1
  <2>2. /\ SubSeq(s, n + 1, Len(s)) \in Seq(Units)
        /\ Len(SubSeq(s, n + 1, Len(s)))
             = IF n + 1 <= Len(s) THEN Len(s) - (n + 1) + 1 ELSE 0
        /\ \A i \in 1 .. Len(s) - (n + 1) + 1 :
             SubSeq(s, n + 1, Len(s))[i] = s[n + 1 + i - 1]
    BY <1>1, <2>1, SubSeqProperties
  <2> QED BY <1>1, <2>2
<1> QED BY <1>2, <1>3

(* What follows the two headers in a chunk. *)
LEMMA RestUnits ==
  ASSUME NEW c \in Seq(Units), Len(c) >= 2
  PROVE  /\ SubSeq(c, 3, Len(c)) \in Seq(Units)
         /\ Len(SubSeq(c, 3, Len(c))) = Len(c) - 2
         /\ \A i \in 1 .. Len(c) - 2 : SubSeq(c, 3, Len(c))[i] = c[i + 2]
<1> DEFINE m == Len(c)
           r == SubSeq(c, 3, m)
<1>1. m \in Nat /\ m >= 2 /\ 3 \in Int /\ \A i \in 3 .. m : c[i] \in Units
  OBVIOUS
<1> HIDE DEF m
<1>2. r \in Seq(Units)
  BY <1>1, SubSeqProperties
<1>3. Len(r) = IF 3 <= m THEN m - 3 + 1 ELSE 0
  BY <1>1, SubSeqProperties
<1>4. \A i \in 1 .. m - 3 + 1 : r[i] = c[3 + i - 1]
  BY <1>1, SubSeqProperties
<1> HIDE DEF r
<1>5. Len(r) = m - 2
  BY <1>1, <1>3
<1>6. \A i \in 1 .. m - 2 : r[i] = c[i + 2]
  BY <1>1, <1>4
<1> QED BY <1>2, <1>5, <1>6 DEF r, m

-----------------------------------------------------------------------------
(* Whatever is in the socket of a frame includes the rest of that frame.   *)
WholeTail(s) ==
  \A i \in 1 .. Len(s) : \A q \in 0 .. Size[s[i].ev] - s[i].part :
    i + q <= Len(s) /\ s[i + q] = Unit(s[i].ev, s[i].part + q)

(* An event that is being put together: what is there are its first units, *)
(* and the rest of them come next in the socket.                           *)
Continues ==
  (m_bytes_left > 0 /\ ~expired /\ m_evh # Unknown) =>
    /\ m_evh \in Events
    /\ m_EveDataBuf \in Seq(Units)
    /\ Len(m_EveDataBuf) = Size[m_evh] - m_bytes_left
    /\ \A i \in 1 .. Len(m_EveDataBuf) : m_EveDataBuf[i] = Unit(m_evh, i)
    /\ m_bytes_left <= Len(stream)
    /\ \A q \in 1 .. m_bytes_left : stream[q] = Unit(m_evh, Len(m_EveDataBuf) + q)

StoredIsData ==
  (m_EveData # NoAdc /\ m_evh # Unknown) => (m_evh \in Events /\ m_EveData = Data(m_evh))

IInv ==
  /\ stream \in Seq(Units)
  /\ WholeTail(stream)
  /\ reconnects = 0
  /\ m_bytes_left \in Int
  /\ Continues
  /\ StoredIsData

LEMMA InitIInv == Init => IInv
BY DEF Init, IInv, WholeTail, Continues, StoredIsData

(* A frame behind what is in the socket leaves that as it was. *)
LEMMA SendIInv ==
  ASSUME IInv, NEW e \in Events, Send(e)
  PROVE  IInv'
<1> DEFINE F == Frame(e)
           L == Len(stream)
<1>1. /\ F \in Seq(Units) /\ Len(F) = Size[e] + 2 /\ Size[e] \in Nat
      /\ \A i \in 1 .. Size[e] + 2 : F[i] = Unit(e, i - 2)
  BY FrameUnits
<1>2. stream \in Seq(Units) /\ WholeTail(stream) /\ L \in Nat
  BY DEF IInv
<1>3. /\ stream' = stream \o F
      /\ UNCHANGED <<reconnects, m_bytes_left, m_EveDataBuf, m_EveData, m_evh, expired>>
  BY DEF Send, decVars
<1> HIDE DEF F
<1>4. /\ stream' \in Seq(Units)
      /\ Len(stream') = L + (Size[e] + 2)
      /\ Len(stream') = L + Size[e] + 2
  <2>1. stream \o F \in Seq(Units) /\ Len(stream \o F) = Len(stream) + Len(F)
    BY <1>1, <1>2, ConcatProperties
  <2>2. L + (Size[e] + 2) = L + Size[e] + 2
    BY <1>1, <1>2
  <2> QED BY <1>1, <1>3, <2>1, <2>2
<1>5. \A i \in 1 .. L : stream'[i] = stream[i]
  BY <1>1, <1>2, <1>3
<1>6. \A i \in L + 1 .. L + Size[e] + 2 : stream'[i] = Unit(e, i - L - 2)
  <2>1. ASSUME NEW i \in L + 1 .. L + Size[e] + 2
        PROVE  stream'[i] = Unit(e, i - L - 2)
    <3>1. stream'[i] = F[i - L]
      BY <1>1, <1>2, <1>3, SMTT(30)
    <3>2. i - L \in 1 .. Size[e] + 2
      BY <1>1, <1>2
    <3> QED BY <1>1, <3>1, <3>2
  <2> QED BY <2>1
<1>7. WholeTail(stream')
  <2> SUFFICES ASSUME NEW i \in 1 .. Len(stream'),
                      NEW q \in 0 .. Size[stream'[i].ev] - stream'[i].part
               PROVE  /\ i + q <= Len(stream')
                      /\ stream'[i + q] = Unit(stream'[i].ev, stream'[i].part + q)
    BY DEF WholeTail
  <2>1. CASE i \in 1 .. L
    <3>1. stream'[i] = stream[i]
      BY <1>5, <2>1
    <3>2. i + q <= L /\ stream[i + q] = Unit(stream[i].ev, stream[i].part + q)
      BY <1>2, <2>1, <3>1 DEF WholeTail
    <3>3. i + q \in 1 .. L
      <4>1. i \in Int /\ 1 <= i /\ q \in Int /\ 0 <= q
        BY <2>1
      <4>2. L \in Int /\ i + q <= L
        BY <1>2, <3>2
      <4> HIDE DEF L
      <4> QED BY <4>1, <4>2
    <3>4. i + q <= Len(stream')
      BY <1>1, <1>2, <1>4, <3>3, SMTT(30)
    <3>5. stream'[i + q] = Unit(stream'[i].ev, stream'[i].part + q)
      BY <1>5, <3>1, <3>2, <3>3
    <3> QED BY <3>4, <3>5
  <2>2. CASE i \in L + 1 .. L + Size[e] + 2
    <3>1. stream'[i] = Unit(e, i - L - 2)
      BY <1>6, <2>2
    <3>2. stream'[i].ev = e /\ stream'[i].part = i - L - 2
      BY <3>1, UnitFields
    <3>3. q \in 0 .. Size[e] - (i - L - 2)
      BY <3>2
    <3>4. i + q \in L + 1 .. L + Size[e] + 2
      <4> DEFINE z == Size[e]
      <4>1. z \in Nat /\ L \in Nat /\ i \in Int /\ i >= L + 1 /\ i <= L + z + 2
        BY <1>1, <1>2, <2>2
      <4>2. q \in Int /\ 0 <= q /\ q <= z - (i - L - 2)
        BY <3>3, <4>1
      <4> HIDE DEF z
      <4>3. i + q >= L + 1 /\ i + q <= L + z + 2 /\ i + q \in Int
        BY <4>1, <4>2
      <4> QED BY <4>1, <4>3 DEF z
    <3>5. stream'[i + q] = Unit(e, i + q - L - 2)
      BY <1>6, <3>4
    <3>6. i + q - L - 2 = (i - L - 2) + q
      BY <1>2, <2>2, <3>3, SMTT(30)
    <3>7. i + q <= Len(stream')
      BY <1>4, <3>4
    <3>8. stream'[i + q] = Unit(stream'[i].ev, stream'[i].part + q)
      BY <3>2, <3>5, <3>6
    <3> QED BY <3>7, <3>8
  <2>3. i \in 1 .. L + Size[e] + 2
    BY <1>4
  <2> QED BY <1>1, <1>2, <2>1, <2>2, <2>3
<1>8. Continues'
  <2> SUFFICES ASSUME m_bytes_left > 0, ~expired, m_evh # Unknown
               PROVE  /\ m_bytes_left <= Len(stream')
                      /\ \A q \in 1 .. m_bytes_left :
                           stream'[q] = Unit(m_evh, Len(m_EveDataBuf) + q)
    BY <1>3 DEF Continues, IInv
  <2>1. /\ m_bytes_left \in Int
        /\ m_bytes_left <= L
        /\ \A q \in 1 .. m_bytes_left : stream[q] = Unit(m_evh, Len(m_EveDataBuf) + q)
    BY DEF IInv, Continues
  <2>2. \A q \in 1 .. m_bytes_left : q \in 1 .. L
    BY <1>2, <2>1
  <2>3. m_bytes_left <= Len(stream')
    <3> DEFINE z == Size[e]
    <3>1. z \in Nat /\ L \in Nat /\ Len(stream') = L + z + 2
      BY <1>1, <1>2, <1>4
    <3> HIDE DEF L, z
    <3> QED BY <2>1, <3>1
  <2>4. \A q \in 1 .. m_bytes_left : stream'[q] = Unit(m_evh, Len(m_EveDataBuf) + q)
    BY <1>5, <2>1, <2>2
  <2> QED BY <2>3, <2>4
<1> QED BY <1>3, <1>4, <1>7, <1>8 DEF IInv, StoredIsData

(* What is left in the socket when its first n units are read. *)
LEMMA TailWhole ==
  ASSUME NEW s \in Seq(Units), NEW n \in 1 .. Len(s), WholeTail(s)
  PROVE  WholeTail(SubSeq(s, n + 1, Len(s)))
<1> DEFINE t == SubSeq(s, n + 1, Len(s))
<1>1. /\ Len(s) \in Nat /\ Len(t) = Len(s) - n
      /\ \A i \in 1 .. Len(s) - n : t[i] = s[n + i]
  BY ChunkUnits
<1> HIDE DEF t
<1> SUFFICES ASSUME NEW i \in 1 .. Len(t), NEW q \in 0 .. Size[t[i].ev] - t[i].part
             PROVE  i + q <= Len(t) /\ t[i + q] = Unit(t[i].ev, t[i].part + q)
  BY DEF WholeTail, t
<1>2. t[i] = s[n + i] /\ n + i \in 1 .. Len(s)
  BY <1>1
<1>3. (n + i) + q <= Len(s) /\ s[(n + i) + q] = Unit(t[i].ev, t[i].part + q)
  BY <1>2 DEF WholeTail
<1>4. i + q \in 1 .. Len(t) /\ n + (i + q) = (n + i) + q
  <2> DEFINE m == Len(t)
             l == Len(s)
  <2>1. i \in Int /\ 1 <= i /\ q \in Int /\ 0 <= q
    OBVIOUS
  <2>2. n \in Int /\ l \in Int /\ m = l - n /\ (n + i) + q <= l
    BY <1>1, <1>3
  <2> HIDE DEF m, l
  <2>3. i + q \in Int /\ 1 <= i + q /\ i + q <= m /\ n + (i + q) = (n + i) + q
    BY <2>1, <2>2
  <2> QED BY <2>2, <2>3 DEF m
<1>5. t[i + q] = s[n + (i + q)]
  BY <1>1, <1>4
<1> QED BY <1>1, <1>3, <1>4, <1>5

LEMMA ConsumeUnits ==
  ASSUME IInv, NEW n \in 1 .. Len(stream), Consume(SubSeq(stream, 1, n))
  PROVE  /\ stream' \in Seq(Units)
         /\ WholeTail(stream')
         /\ Len(stream') = Len(stream) - n
         /\ \A i \in 1 .. Len(stream) - n : stream'[i] = stream[n + i]
<1>1. stream \in Seq(Units) /\ WholeTail(stream)
  BY DEF IInv
<1>2. stream' = SubSeq(stream, n + 1, Len(stream))
  BY <1>1, ChunkUnits DEF Consume
<1>3. WholeTail(SubSeq(stream, n + 1, Len(stream)))
  BY <1>1, TailWhole
<1>4. /\ SubSeq(stream, n + 1, Len(stream)) \in Seq(Units)
      /\ Len(SubSeq(stream, n + 1, Len(stream))) = Len(stream) - n
      /\ \A i \in 1 .. Len(stream) - n :
           SubSeq(stream, n + 1, Len(stream))[i] = stream[n + i]
  BY <1>1, ChunkUnits
<1> QED BY <1>2, <1>3, <1>4

(* A first packet: the rest of its frame is the event's data, in order. *)
LEMMA FirstPacketIInv ==
  ASSUME IInv, NEW n \in 1 .. Len(stream), FirstPacket(SubSeq(stream, 1, n))
  PROVE  IInv'
<1> DEFINE c == SubSeq(stream, 1, n)
           rest == SubSeq(c, 3, Len(c))
<1>1. /\ c \in Seq(Units) /\ Len(c) = n
      /\ \A i \in 1 .. n : c[i] = stream[i]
  BY ChunkUnits DEF IInv
<1>2. /\ stream' \in Seq(Units) /\ WholeTail(stream')
      /\ Len(stream') = Len(stream) - n /\ Len(stream) \in Nat
      /\ \A i \in 1 .. Len(stream) - n : stream'[i] = stream[n + i]
  BY ConsumeUnits DEF FirstPacket, IInv
<1>3. n >= 2 /\ \E e \in Events : c[1] = RunHead(e)
  BY <1>1 DEF FirstPacket, IsFirstPacket
<1>4. PICK e \in Events : c[1] = RunHead(e)
  BY <1>3
<1>5. c[1].ev = e /\ stream[1] = Unit(e, -1) /\ Size[e] \in Nat
  BY <1>1, <1>4, UnitFields DEF RunHead
<1>6. rest \in Seq(Units) /\ Len(rest) = n - 2 /\ \A i \in 1 .. n - 2 : rest[i] = c[i + 2]
  BY <1>1, <1>3, RestUnits
<1>7. /\ UNCHANGED reconnects
      /\ StartEvent(e, Run[e], Size[e], rest)
  BY <1>5 DEF FirstPacket
<1> HIDE DEF c, rest
<1>8. \A q \in 0 .. Size[e] + 1 : 1 + q <= Len(stream) /\ stream[1 + q] = Unit(e, q - 1)
  <2>1. WholeTail(stream) /\ 1 \in 1 .. Len(stream)
    BY <1>2 DEF IInv
  <2>2. stream[1].ev = e /\ stream[1].part = -1
    BY <1>5, UnitFields
  <2>3. Size[e] - (-1) = Size[e] + 1
    BY <1>5
  <2>4. \A q \in 0 .. Size[e] + 1 : 1 + q <= Len(stream) /\ stream[1 + q] = Unit(e, -1 + q)
    BY <2>1, <2>2, <2>3 DEF WholeTail
  <2>5. \A q \in 0 .. Size[e] + 1 : -1 + q = q - 1
    BY <1>5
  <2> QED BY <2>4, <2>5
<1>9. \A i \in 1 .. Size[e] : i + 2 <= Len(stream) /\ stream[i + 2] = Unit(e, i)
  <2>1. ASSUME NEW i \in 1 .. Size[e]
        PROVE  i + 2 <= Len(stream) /\ stream[i + 2] = Unit(e, i)
    <3>1. i + 1 \in 0 .. Size[e] + 1 /\ 1 + (i + 1) = i + 2 /\ (i + 1) - 1 = i
      BY <1>5
    <3> QED BY <1>8, <3>1
  <2> QED BY <2>1
<1>10. m_evh' = e /\ m_EveData' = NoAdc
  BY <1>7 DEF StartEvent
<1>11. m_bytes_left' \in Int
  BY <1>5, <1>6, <1>7 DEF StartEvent
<1>12. Continues'
  <2> SUFFICES ASSUME m_bytes_left' > 0
               PROVE  Continues'
    BY DEF Continues
  <2>1. m_EveDataBuf' = rest /\ m_bytes_left' = Size[e] - (n - 2)
    BY <1>5, <1>6, <1>7 DEF StartEvent
  <2>2. \A i \in 1 .. n - 2 : rest[i] = Unit(e, i)
    <3>1. ASSUME NEW i \in 1 .. n - 2 PROVE rest[i] = Unit(e, i)
      <4>1. i + 2 \in 1 .. n /\ i \in 1 .. Size[e]
        BY <1>5, <2>1, SMTT(30)
      <4> QED BY <1>1, <1>6, <1>9, <4>1
    <3> QED BY <3>1
  <2>3. m_bytes_left' <= Len(stream')
    <3>1. Size[e] \in 1 .. Size[e]
      BY <1>3, <1>5, <2>1, SMTT(30)
    <3>2. Size[e] + 2 <= Len(stream)
      BY <1>9, <3>1
    <3> QED BY <1>2, <1>5, <2>1, <3>2
  <2>4. ASSUME NEW q \in 1 .. m_bytes_left'
        PROVE  stream'[q] = Unit(e, (n - 2) + q)
    <3>1. (n - 2) + q \in 1 .. Size[e] /\ ((n - 2) + q) + 2 = n + q
      BY <1>3, <1>5, <2>1, SMTT(30)
    <3>2. q \in 1 .. Len(stream) - n
      BY <1>2, <1>11, <2>3
    <3> QED BY <1>2, <1>9, <3>1, <3>2
  <2>5. Len(m_EveDataBuf') = Size[e] - m_bytes_left'
    BY <1>5, <1>6, <2>1, SMTT(30)
  <2> QED BY <1>6, <1>10, <2>1, <2>2, <2>3, <2>4, <2>5 DEF Continues
<1> QED BY <1>2, <1>7, <1>10, <1>11, <1>12 DEF IInv, StoredIsData

(* A packet that goes on with an event, under a header that is one. *)
LEMMA AppendPacketIInv ==
  ASSUME IInv, expired \in BOOLEAN, m_evh # Unknown, NEW n \in 1 .. Len(stream),
         AppendPacket(SubSeq(stream, 1, n))
  PROVE  IInv'
<1> DEFINE c == SubSeq(stream, 1, n)
           k == Len(m_EveDataBuf)
<1>1. /\ c \in Seq(Units) /\ Len(c) = n
      /\ \A i \in 1 .. n : c[i] = stream[i]
  BY ChunkUnits DEF IInv
<1>2. /\ stream' \in Seq(Units) /\ WholeTail(stream')
      /\ Len(stream') = Len(stream) - n /\ Len(stream) \in Nat
      /\ \A i \in 1 .. Len(stream) - n : stream'[i] = stream[n + i]
  BY ConsumeUnits DEF AppendPacket, IInv
<1>3. m_bytes_left > 0 /\ ~expired /\ m_bytes_left \in Int
  BY DEF AppendPacket, Waiting, IInv
<1>4. /\ m_evh \in Events
      /\ m_EveDataBuf \in Seq(Units) /\ k \in Nat
      /\ k = Size[m_evh] - m_bytes_left
      /\ \A i \in 1 .. k : m_EveDataBuf[i] = Unit(m_evh, i)
      /\ m_bytes_left <= Len(stream)
      /\ \A q \in 1 .. m_bytes_left : stream[q] = Unit(m_evh, k + q)
      /\ Size[m_evh] \in Nat
  BY <1>3 DEF IInv, Continues
<1>5. /\ m_EveDataBuf' = m_EveDataBuf \o c
      /\ m_bytes_left' = m_bytes_left - n
      /\ m_EveData' = IF m_bytes_left' = 0 THEN m_EveDataBuf' ELSE NoAdc
      /\ UNCHANGED <<reconnects, m_evh, expired>>
  BY <1>1 DEF AppendPacket
<1> HIDE DEF c
<1>6. m_EveDataBuf' \in Seq(Units) /\ Len(m_EveDataBuf') = k + n
  BY <1>1, <1>4, <1>5, ConcatProperties
<1>7. \A i \in 1 .. k + n : m_EveDataBuf'[i] = IF i <= k THEN m_EveDataBuf[i] ELSE c[i - k]
  BY <1>1, <1>4, <1>5, ConcatProperties
<1> HIDE DEF k
<1>8. ASSUME n <= m_bytes_left, NEW i \in 1 .. k + n
      PROVE  m_EveDataBuf'[i] = Unit(m_evh, i)
  <2>1. k \in Nat /\ n \in Nat /\ i \in Nat /\ 1 <= i /\ i <= k + n
    BY <1>2, <1>4
  <2>2. CASE i <= k
    <3>1. i \in 1 .. k
      BY <2>1, <2>2
    <3> QED BY <1>4, <1>7, <2>2, <3>1
  <2>3. CASE i > k
    <3>1. i - k \in 1 .. n /\ k + (i - k) = i
      BY <2>1, <2>3
    <3>2. i - k \in 1 .. m_bytes_left
      BY <1>3, <1>8, <2>1, <3>1
    <3>3. m_EveDataBuf'[i] = c[i - k]
      BY <1>7, <2>1, <2>3
    <3>4. stream[i - k] = Unit(m_evh, k + (i - k))
      BY <1>4, <3>2
    <3> QED BY <1>1, <3>1, <3>3, <3>4
  <2> QED BY <2>1, <2>2, <2>3
<1>9. Continues'
  <2> SUFFICES ASSUME m_bytes_left' > 0
               PROVE  Continues'
    BY DEF Continues
  <2>1. n <= m_bytes_left /\ m_bytes_left' \in Int
    BY <1>3, <1>5
  <2>2. Len(m_EveDataBuf') = Size[m_evh] - m_bytes_left'
    BY <1>3, <1>4, <1>5, <1>6
  <2>3. m_bytes_left' <= Len(stream')
    BY <1>2, <1>3, <1>4, <1>5
  <2>4. ASSUME NEW q \in 1 .. m_bytes_left'
        PROVE  stream'[q] = Unit(m_evh, (k + n) + q)
    <3>1. n + q \in 1 .. m_bytes_left /\ k + (n + q) = (k + n) + q
      BY <1>3, <1>4, <1>5
    <3>2. q \in 1 .. Len(stream) - n
      BY <1>2, <2>1, <2>3
    <3> QED BY <1>2, <1>4, <3>1, <3>2
  <2>5. \A i \in 1 .. Len(m_EveDataBuf') : m_EveDataBuf'[i] = Unit(m_evh, i)
    BY <1>6, <1>8, <2>1
  <2> QED BY <1>4, <1>5, <1>6, <2>1, <2>2, <2>3, <2>4, <2>5 DEF Continues
<1>10. StoredIsData'
  <2> SUFFICES ASSUME m_bytes_left' = 0
               PROVE  m_EveDataBuf' = Data(m_evh)
    BY <1>4, <1>5 DEF StoredIsData
  <2>1. n <= m_bytes_left /\ k + n = Size[m_evh]
    BY <1>3, <1>4, <1>5, SMTT(30)
  <2>2. \A i \in 1 .. Size[m_evh] : m_EveDataBuf'[i] = Data(m_evh)[i]
    BY <1>4, <1>8, <2>1, FrameUnits
  <2>3. /\ m_EveDataBuf' \in Seq(Units) /\ Len(m_EveDataBuf') = Size[m_evh]
        /\ Data(m_evh) \in Seq(Units) /\ Len(Data(m_evh)) = Size[m_evh]
    BY <1>4, <1>6, <2>1, FrameUnits
  <2> QED BY <2>2, <2>3, SeqEqual
<1> QED BY <1>2, <1>3, <1>5, <1>9, <1>10 DEF IInv

(* Under a header that is none nothing is promised but the types. *)
LEMMA FalseHeaderIInv ==
  ASSUME IInv, NEW n \in 1 .. Len(stream), Consume(SubSeq(stream, 1, n)),
         UNCHANGED reconnects, m_evh' = Unknown, m_bytes_left' \in Int
  PROVE  IInv'
<1>1. stream' \in Seq(Units) /\ WholeTail(stream')
  BY ConsumeUnits
<1> QED BY <1>1 DEF IInv, Continues, StoredIsData

-----------------------------------------------------------------------------
(* No step of the net, the decoder or the display breaks the invariant, as *)
(* long as there is one connection.                                        *)
LEMMA NextIInv ==
  ASSUME IInv, expired \in BOOLEAN, [Next]_vars, reconnects' = 0
  PROVE  IInv'
<1>1. ASSUME NEW e \in Events, Send(e) PROVE IInv'
  BY <1>1, SendIInv
<1>2. CASE Reconnect
  BY <1>2 DEF Reconnect, IInv
<1>3. CASE TimePasses
  BY <1>3 DEF TimePasses, netVars, IInv, Continues, StoredIsData
<1>4. CASE ReadBuffer
  <2>1. PICK n \in 1 .. Len(stream) :
          LET c == SubSeq(stream, 1, n)
          IN  FirstPacket(c) \/ FalsePacket(c) \/ OtherPacket(c) \/ ShortPacket(c)
                \/ AppendPacket(c)
    BY <1>4 DEF ReadBuffer
  <2> DEFINE c == SubSeq(stream, 1, n)
  <2>2. CASE FirstPacket(c)
    BY <2>2, FirstPacketIInv
  <2>3. CASE FalsePacket(c)
    <3>1. PICK size \in {Size[e] : e \in Events} :
            StartEvent(Unknown, Unknown, size, SubSeq(c, 3, Len(c)))
      BY <2>3 DEF FalsePacket
    <3>2. c \in Seq(Units) /\ Len(c) >= 2 /\ size \in Nat
      BY <2>3, ChunkUnits DEF FalsePacket, IInv
    <3> DEFINE rest == SubSeq(c, 3, Len(c))
    <3> HIDE DEF c
    <3>3. Len(rest) \in Int
      BY <3>2, RestUnits
    <3> HIDE DEF rest
    <3>4. StartEvent(Unknown, Unknown, size, rest)
      BY <3>1 DEF rest
    <3>5. m_bytes_left' \in Int /\ m_evh' = Unknown
      BY <3>2, <3>3, <3>4 DEF StartEvent
    <3> QED BY <2>3, <3>5, FalseHeaderIInv DEF FalsePacket, c
  <2>4. CASE OtherPacket(c)
    <3>1. stream' \in Seq(Units) /\ WholeTail(stream')
      BY <2>4, ConsumeUnits DEF OtherPacket
    <3>2. ~(m_bytes_left' > 0 /\ ~expired')
      BY <2>4 DEF OtherPacket, Waiting, IInv
    <3>3. m_EveData' = NoAdc /\ UNCHANGED <<reconnects, m_bytes_left>>
      BY <2>4 DEF OtherPacket
    <3> QED BY <3>1, <3>2, <3>3 DEF IInv, Continues, StoredIsData
  <2>5. CASE ShortPacket(c)
    BY <2>5 DEF ShortPacket, netVars, IInv, Continues, StoredIsData
  <2>6. CASE AppendPacket(c)
    <3>1. CASE m_evh # Unknown
      BY <2>6, <3>1, AppendPacketIInv
    <3>2. CASE m_evh = Unknown
      <4>1. c \in Seq(Units) /\ Len(c) \in Int
        BY ChunkUnits DEF IInv
      <4>2. m_bytes_left' = m_bytes_left - Len(c) /\ UNCHANGED <<reconnects, m_evh>>
        BY <2>6 DEF AppendPacket
      <4>3. m_bytes_left' \in Int
        BY <4>1, <4>2 DEF IInv
      <4> QED BY <2>6, <3>2, <4>2, <4>3, FalseHeaderIInv DEF AppendPacket
    <3> QED BY <3>1, <3>2
  <2> QED BY <2>1, <2>2, <2>3, <2>4, <2>5, <2>6
<1>5. CASE GetOnlineEvent
  <2>1. UNCHANGED <<netVars, m_bytes_left, m_EveDataBuf, m_evh, expired>>
    BY <1>5 DEF GetOnlineEvent, SeesEvent, TakesEvent, FillsEvent, decVars
  <2>2. m_EveData' = m_EveData \/ m_EveData' = NoAdc
    BY <1>5 DEF GetOnlineEvent, SeesEvent, TakesEvent, FillsEvent, decVars
  <2> QED BY <2>1, <2>2 DEF netVars, IInv, Continues, StoredIsData
<1>6. CASE UNCHANGED vars
  BY <1>6 DEF vars, netVars, decVars, IInv, Continues, StoredIsData
<1> QED BY <1>1, <1>2, <1>3, <1>4, <1>5, <1>6 DEF Next

(* A connection is never taken back. *)
LEMMA NextReconnects ==
  reconnects \in Nat /\ [Next]_vars => reconnects' \in Nat /\ (reconnects' = 0 => reconnects = 0)
<1> SUFFICES ASSUME reconnects \in Nat, [Next]_vars
             PROVE  reconnects' = reconnects \/ reconnects' = reconnects + 1
  OBVIOUS
<1> QED BY DEF Next, vars, netVars, Send, Reconnect, TimePasses, ReadBuffer, FirstPacket,
       FalsePacket, OtherPacket, ShortPacket, AppendPacket,
       GetOnlineEvent, SeesEvent, TakesEvent, FillsEvent

LEMMA NextExpired == expired \in BOOLEAN /\ [Next]_vars => expired' \in BOOLEAN
BY DEF Next, vars, netVars, decVars, Send, Reconnect, TimePasses, ReadBuffer, FirstPacket,
       FalsePacket, OtherPacket, ShortPacket, AppendPacket, StartEvent,
       GetOnlineEvent, SeesEvent, TakesEvent, FillsEvent

(* The data of an event are recognised as that event's. *)
LEMMA StoredIsWholeEvent == (reconnects = 0 => IInv) => StoredIsWhole
<1> SUFFICES ASSUME IInv, m_EveData # NoAdc, m_evh # Unknown
             PROVE  WholeEvent(m_EveData) = m_evh
  BY DEF StoredIsWhole
<1>1. m_evh \in Events /\ m_EveData = Data(m_evh)
  BY DEF IInv, StoredIsData
<1>2. m_EveData \in Seq(Units) /\ Len(m_EveData) = Size[m_evh] /\ Size[m_evh] \in Nat
  BY <1>1, FrameUnits
<1>3. Size[m_evh] > 0
  BY <1>2
<1>4. m_EveData[1].ev = m_evh
  <2>1. 1 \in 1 .. Size[m_evh]
    BY <1>2, <1>3
  <2>2. m_EveData[1] = Unit(m_evh, 1)
    BY <1>1, <2>1, FrameUnits
  <2> QED BY <2>2, UnitFields
<1> QED BY <1>1, <1>4 DEF WholeEvent

(* On one connection, what ReadBuffer leaves for the display is always the *)
(* whole data of the event whose header it holds, unless it read a header  *)
(* from data that look like one (daq/src/EventDecoder.cc, ReadBuffer).     *)
THEOREM StoredWhole == Spec => []StoredIsWhole
<1> DEFINE Inv == /\ reconnects = 0 => IInv
                  /\ reconnects \in Nat
                  /\ expired \in BOOLEAN
<1>1. Init => Inv
  <2>1. Init => reconnects \in Nat /\ expired \in BOOLEAN
    <3>1. Init => reconnects \in Nat
      BY DEF Init
    <3>2. Init => expired \in BOOLEAN
      BY Zenon DEF Init
    <3> QED BY <3>1, <3>2
  <2> QED BY <2>1, InitIInv
<1>2. Inv /\ [Next]_vars => Inv'
  BY NextIInv, NextExpired, NextReconnects
<1>3. Inv => StoredIsWhole
  BY StoredIsWholeEvent
<1> HIDE DEF Inv
<1> QED BY <1>1, <1>2, <1>3, PTL DEF Spec

-----------------------------------------------------------------------------
(* Over any number of connections: the units in the socket and in the      *)
(* buffer are units, and the count that is left belongs to the header that *)
(* was read.                                                               *)
TInv ==
  /\ TypeOK
  /\ stream \in Seq(Units) /\ Len(stream) <= MaxInFlight
  /\ m_EveDataBuf \in Seq(Units)
  /\ (m_bytes_left > 0 /\ ~expired /\ m_evh # Unknown)
       => Len(m_EveDataBuf) = Size[m_evh] - m_bytes_left
  /\ StoredHasSize

LEMMA InitTInv == Init => TInv
<1> SUFFICES ASSUME Init PROVE TInv
  OBVIOUS
<1>1. MaxInFlight \in Nat /\ MaxReconnects \in Nat /\ NEvents \in Nat
  OBVIOUS
<1>2. TypeOK /\ StoredHasSize
  <2>1. 0 \in 0 .. NEvents /\ 0 \in 0 .. MaxReconnects /\ 0 >= -MaxInFlight
    BY <1>1
  <2>2. StoredHasSize
    BY DEF Init, StoredHasSize
  <2>3. /\ sent \in 0 .. NEvents /\ reconnects \in 0 .. MaxReconnects
        /\ m_bytes_left \in Int /\ m_bytes_left >= -MaxInFlight
    BY <2>1 DEF Init
  <2>4. /\ m_evh = 0 /\ m_rnh = 0 /\ eh = 0 /\ fEvtHead = 0 /\ fRunHead = 0
    BY DEF Init
  <2>5. expired \in BOOLEAN /\ aborted \in BOOLEAN /\ pc \in {"idle", "checked", "taken"}
    BY Zenon DEF Init
  <2>6. TypeOK
    BY <2>3, <2>4, <2>5 DEF TypeOK
  <2> QED BY <2>2, <2>6
<1>3. stream = <<>> /\ m_EveDataBuf = <<>> /\ m_evh = Unknown
  BY DEF Init
<1>4. stream \in Seq(Units) /\ m_EveDataBuf \in Seq(Units)
  BY <1>3
<1>5. Len(stream) <= MaxInFlight
  BY <1>1, <1>3
<1> QED BY <1>2, <1>3, <1>4, <1>5 DEF TInv

(* A chunk off the socket leaves units there, no more than there were. *)
LEMMA ConsumeFits ==
  ASSUME TInv, NEW n \in 1 .. Len(stream), Consume(SubSeq(stream, 1, n))
  PROVE  stream' \in Seq(Units) /\ Len(stream') <= MaxInFlight
<1>1. stream \in Seq(Units) /\ Len(stream) \in Nat /\ Len(stream) <= MaxInFlight
  BY DEF TInv
<1>2. stream' = SubSeq(stream, n + 1, Len(stream))
  BY <1>1, ChunkUnits DEF Consume
<1>3. stream' \in Seq(Units) /\ Len(stream') = Len(stream) - n
  BY <1>1, <1>2, ChunkUnits
<1> QED BY <1>1, <1>3

(* A new event, whatever size its header gave. *)
LEMMA StartEventTInv ==
  ASSUME TInv, NEW n \in 1 .. Len(stream), n >= 2, Consume(SubSeq(stream, 1, n)),
         NEW evh \in Events \cup {Unknown}, NEW rnh \in Nat, NEW size \in Nat,
         evh # Unknown => size = Size[evh],
         StartEvent(evh, rnh, size, SubSeq(SubSeq(stream, 1, n), 3, Len(SubSeq(stream, 1, n)))),
         UNCHANGED <<sent, reconnects, pollVars>>
  PROVE  TInv'
<1> DEFINE c == SubSeq(stream, 1, n)
           rest == SubSeq(c, 3, Len(c))
<1>1. stream \in Seq(Units) /\ n \in Nat /\ n <= MaxInFlight /\ MaxInFlight \in Nat
  BY DEF TInv
<1>2. c \in Seq(Units) /\ Len(c) = n
  BY <1>1, ChunkUnits
<1>3. StartEvent(evh, rnh, size, rest)
  OBVIOUS
<1> HIDE DEF c
<1>4. rest \in Seq(Units) /\ Len(rest) = n - 2
  BY <1>2, RestUnits
<1> HIDE DEF rest
<1>5. stream' \in Seq(Units) /\ Len(stream') <= MaxInFlight
  BY ConsumeFits
<1>6. /\ m_evh' = evh /\ m_rnh' = rnh /\ m_EveData' = NoAdc
      /\ UNCHANGED aborted /\ (expired' = expired \/ expired' = FALSE)
  BY <1>3 DEF StartEvent
<1>7. \/ size = 0 /\ m_bytes_left' = 0 /\ m_EveDataBuf' = <<>>
      \/ m_bytes_left' = size - (n - 2) /\ m_EveDataBuf' = rest
  BY <1>3, <1>4 DEF StartEvent
<1>8. /\ m_bytes_left' \in Int /\ m_bytes_left' >= -MaxInFlight
      /\ m_EveDataBuf' \in Seq(Units)
      /\ m_bytes_left' > 0 => Len(m_EveDataBuf') = size - m_bytes_left'
  <2>1. CASE m_bytes_left' = 0 /\ m_EveDataBuf' = <<>>
    <3>1. m_EveDataBuf' \in Seq(Units)
      BY <2>1
    <3> QED BY <1>1, <2>1, <3>1
  <2>2. CASE m_bytes_left' = size - (n - 2) /\ m_EveDataBuf' = rest
    <3> DEFINE l == m_bytes_left'
    <3>1. l = size - (n - 2)
      BY <2>2
    <3> HIDE DEF l
    <3>2. l \in Int /\ l >= -MaxInFlight /\ n - 2 = size - l
      BY <1>1, <3>1
    <3> QED BY <1>4, <2>2, <3>2 DEF l
  <2> QED BY <1>7, <2>1, <2>2
<1>9. TypeOK'
  BY <1>6, <1>8 DEF TInv, TypeOK, pollVars
<1> QED BY <1>5, <1>6, <1>8, <1>9 DEF TInv, StoredHasSize

LEMMA AppendPacketTInv ==
  ASSUME TInv, NEW n \in 1 .. Len(stream), AppendPacket(SubSeq(stream, 1, n))
  PROVE  TInv'
<1> DEFINE c == SubSeq(stream, 1, n)
<1>1. stream \in Seq(Units) /\ n \in Nat /\ n <= MaxInFlight /\ MaxInFlight \in Nat
  BY DEF TInv
<1>2. c \in Seq(Units) /\ Len(c) = n
  BY <1>1, ChunkUnits
<1>3. stream' \in Seq(Units) /\ Len(stream') <= MaxInFlight
  BY ConsumeFits DEF AppendPacket
<1>4. /\ ~Waiting
      /\ m_EveDataBuf' = m_EveDataBuf \o c
      /\ m_bytes_left' = m_bytes_left - n
      /\ m_EveData' = IF m_bytes_left' = 0 THEN m_EveDataBuf' ELSE NoAdc
      /\ UNCHANGED <<sent, reconnects, m_evh, m_rnh, expired, aborted, pollVars>>
  BY <1>2 DEF AppendPacket
<1> HIDE DEF c
<1>5. m_bytes_left > 0 /\ ~expired /\ m_bytes_left \in Int /\ m_EveDataBuf \in Seq(Units)
  BY <1>4 DEF Waiting, TInv, TypeOK
<1>6. /\ m_EveDataBuf' \in Seq(Units)
      /\ Len(m_EveDataBuf') = Len(m_EveDataBuf) + n
      /\ Len(m_EveDataBuf) \in Nat
  <2>1. /\ m_EveDataBuf \o c \in Seq(Units)
        /\ Len(m_EveDataBuf \o c) = Len(m_EveDataBuf) + Len(c)
    BY <1>2, <1>5, ConcatProperties
  <2>2. Len(m_EveDataBuf) \in Nat
    BY <1>5
  <2> QED BY <1>2, <1>4, <2>1, <2>2
<1>7. m_bytes_left' \in Int /\ m_bytes_left' >= -MaxInFlight
  BY <1>1, <1>4, <1>5
<1>8. m_evh # Unknown => Size[m_evh] \in Nat
  BY DEF TInv, TypeOK
<1>9. m_evh # Unknown => Len(m_EveDataBuf') = Size[m_evh] - m_bytes_left'
  <2> SUFFICES ASSUME m_evh # Unknown
               PROVE  Len(m_EveDataBuf') = Size[m_evh] - m_bytes_left'
    OBVIOUS
  <2>1. Len(m_EveDataBuf) = Size[m_evh] - m_bytes_left
    BY <1>5 DEF TInv
  <2> QED BY <1>1, <1>4, <1>5, <1>6, <1>8, <2>1
<1>10. StoredHasSize'
  BY <1>4, <1>8, <1>9 DEF StoredHasSize
<1>11. TypeOK'
  BY <1>4, <1>7 DEF TInv, TypeOK, pollVars
<1> QED BY <1>3, <1>4, <1>6, <1>9, <1>10, <1>11 DEF TInv

LEMMA NextTInv ==
  ASSUME TInv, [Next]_vars
  PROVE  TInv'
<1>1. ASSUME NEW e \in Events, Send(e) PROVE TInv'
  <2>1. /\ Frame(e) \in Seq(Units) /\ Len(Frame(e)) = Size[e] + 2 /\ Size[e] \in Nat
        /\ stream \in Seq(Units)
    BY FrameUnits DEF TInv
  <2>2. /\ stream' = stream \o Frame(e) /\ Len(stream) + Size[e] + 2 <= MaxInFlight
        /\ sent' = e /\ UNCHANGED <<reconnects, decVars, pollVars>>
    BY <1>1 DEF Send
  <2>3. stream' \in Seq(Units) /\ Len(stream') = Len(stream) + Len(Frame(e))
    BY <2>1, <2>2, ConcatProperties
  <2>4. Len(stream') <= MaxInFlight
    BY <2>1, <2>2, <2>3
  <2> QED BY <2>2, <2>3, <2>4 DEF TInv, TypeOK, decVars, pollVars, StoredHasSize
<1>2. CASE Reconnect
  <2>1. stream' = <<>> /\ reconnects' \in 0 .. MaxReconnects
    BY <1>2 DEF Reconnect, TInv, TypeOK
  <2>2. UNCHANGED <<sent, decVars, pollVars>>
    BY <1>2 DEF Reconnect
  <2> QED BY <2>1, <2>2 DEF TInv, TypeOK, decVars, pollVars, StoredHasSize
<1>3. CASE TimePasses
  BY <1>3 DEF TimePasses, TInv, TypeOK, netVars, pollVars, StoredHasSize
<1>4. CASE ReadBuffer
  <2>1. PICK n \in 1 .. Len(stream) :
          LET c == SubSeq(stream, 1, n)
          IN  FirstPacket(c) \/ FalsePacket(c) \/ OtherPacket(c) \/ ShortPacket(c)
                \/ AppendPacket(c)
    BY <1>4 DEF ReadBuffer
  <2> DEFINE c == SubSeq(stream, 1, n)
  <2>2. c \in Seq(Units) /\ Len(c) = n
    BY ChunkUnits DEF TInv
  <2>3. CASE FirstPacket(c)
    <3>1. n >= 2 /\ \E e \in Events : c[1] = RunHead(e)
      BY <2>2, <2>3 DEF FirstPacket, IsFirstPacket
    <3>2. c[1].ev \in Events
      BY <3>1, UnitFields DEF RunHead
    <3> QED BY <2>3, <3>1, <3>2, StartEventTInv DEF FirstPacket
  <2>4. CASE FalsePacket(c)
    <3>1. PICK size \in {Size[e] : e \in Events} :
            StartEvent(Unknown, Unknown, size, SubSeq(c, 3, Len(c)))
      BY <2>4 DEF FalsePacket
    <3>2. size \in Nat /\ n >= 2 /\ Unknown \in Nat
      BY <2>2, <2>4 DEF FalsePacket
    <3> QED BY <2>4, <3>1, <3>2, StartEventTInv DEF FalsePacket
  <2>5. CASE OtherPacket(c)
    <3>1. stream' \in Seq(Units) /\ Len(stream') <= MaxInFlight
      BY <2>5, ConsumeFits DEF OtherPacket
    <3>2. Waiting /\ m_EveDataBuf' = <<>> /\ m_EveData' = NoAdc
      BY <2>5 DEF OtherPacket
    <3>3. UNCHANGED <<sent, reconnects, m_bytes_left, m_evh, m_rnh, expired, aborted,
                      pollVars>>
      BY <2>5 DEF OtherPacket
    <3> QED BY <3>1, <3>2, <3>3 DEF Waiting, TInv, TypeOK, pollVars, StoredHasSize
  <2>6. CASE ShortPacket(c)
    BY <2>6 DEF ShortPacket, netVars, pollVars, TInv, TypeOK, StoredHasSize
  <2>7. CASE AppendPacket(c)
    BY <2>7, AppendPacketTInv
  <2> QED BY <2>1, <2>3, <2>4, <2>5, <2>6, <2>7
<1>5. CASE GetOnlineEvent
  <2>1. CASE SeesEvent
    BY <2>1 DEF SeesEvent, netVars, decVars, TInv, TypeOK, StoredHasSize
  <2>2. CASE TakesEvent
    BY <2>2 DEF TakesEvent, netVars, TInv, TypeOK, StoredHasSize
  <2>3. CASE FillsEvent
    BY <2>3 DEF FillsEvent, netVars, decVars, TInv, TypeOK, StoredHasSize
  <2> QED BY <1>5, <2>1, <2>2, <2>3 DEF GetOnlineEvent
<1>6. CASE UNCHANGED vars
  BY <1>6 DEF vars, netVars, decVars, pollVars, TInv, TypeOK, StoredHasSize
<1> QED BY <1>1, <1>2, <1>3, <1>4, <1>5, <1>6 DEF Next

(* The decoder's state keeps its shape: above all the count of bytes left  *)
(* never falls below what one socket can hold, whatever sizes headers      *)
(* give.  (daq/src/EventDecoder.cc, ReadBuffer)                            *)
THEOREM OnlineTypeOK == Spec => []TypeOK
<1>1. TInv => TypeOK
  BY DEF TInv
<1> QED BY <1>1, InitTInv, NextTInv, PTL DEF Spec

(* Whatever is lost between connections and whatever looks like a key, an  *)
(* event that is stored has as many data units as its header said.         *)
(* (daq/src/EventDecoder.cc, ReadBuffer)                                   *)
THEOREM OnlineHasSize == Spec => []StoredHasSize
<1>1. TInv => StoredHasSize
  BY DEF TInv
<1> QED BY <1>1, InitTInv, NextTInv, PTL DEF Spec

-----------------------------------------------------------------------------
(* The units in the socket are those of events already sent, in the order  *)
(* they were sent in: none is there twice.                                 *)
StreamInv ==
  /\ \A i \in 1 .. Len(stream) : stream[i].ev <= sent
  /\ \A i, j \in 1 .. Len(stream) : i < j =>
       \/ stream[i].ev < stream[j].ev
       \/ stream[i].ev = stream[j].ev /\ stream[i].part < stream[j].part

(* The decoder has read true headers only; those to come are of later      *)
(* events, and data are stored only when none are left to wait for.        *)
DecoderInv ==
  /\ m_evh \in 0 .. sent
  /\ \A i \in 1 .. Len(stream) : stream[i].part = -1 => m_evh < stream[i].ev
  /\ m_evh = Unknown => m_EveData = NoAdc /\ m_bytes_left <= 0
  /\ m_EveData # NoAdc => m_bytes_left = 0

(* The event that left the decoder last: the display may still hold an     *)
(* earlier one while GetOnlineEvent has the data in its copy.              *)
LastOut == IF pc = "taken" /\ adc # NoAdc THEN WholeEvent(adc) ELSE WholeEvent(fQData)

(* From the display back to the decoder events only get later: what is on  *)
(* display, what was copied, what is stored or being put together.         *)
DisplayInv ==
  /\ WholeEvent(fQData) \in 0 .. NEvents
  /\ pc = "taken" /\ adc # NoAdc =>
       WholeEvent(adc) \in 0 .. NEvents /\ WholeEvent(fQData) < WholeEvent(adc)
  /\ LastOut <= m_evh
  /\ m_EveData # NoAdc \/ m_bytes_left > 0 => LastOut < m_evh

FeedInv ==
  /\ TInv
  /\ StreamInv
  /\ reconnects = 0 => IInv
  /\ ~Rough => DecoderInv /\ DisplayInv

(* The units of a frame behind what is in the socket. *)
LEMMA SocketUnits ==
  ASSUME NEW s \in Seq(Units)
  PROVE  /\ Len(s) \in Nat /\ DOMAIN s = 1 .. Len(s)
         /\ \A i \in 1 .. Len(s) : s[i].ev \in Int /\ s[i].part \in Int
<1>1. \A i \in 1 .. Len(s) : s[i] \in Units
  OBVIOUS
<1>2. \A u \in Units : u.ev \in Int /\ u.part \in Int
  BY DEF Units
<1>3. Len(s) \in Nat /\ DOMAIN s = 1 .. Len(s)
  OBVIOUS
<1> QED BY <1>1, <1>2, <1>3

(* What the stream holds once one more frame came in behind it. *)
Behind(s, e) == s \o Frame(e)

LEMMA FrameBehind ==
  ASSUME NEW s \in Seq(Units), NEW e \in Events
  PROVE  /\ Behind(s, e) \in Seq(Units)
         /\ Len(Behind(s, e)) = Len(s) + (Size[e] + 2)
         /\ \A i \in 1 .. Len(s) : Behind(s, e)[i] = s[i]
         /\ \A i \in Len(s) + 1 .. Len(s) + (Size[e] + 2) :
              /\ Behind(s, e)[i] = Unit(e, (i - Len(s)) - 2)
              /\ Behind(s, e)[i].ev = e
<1> DEFINE F == Frame(e)
           L == Len(s)
           z == Size[e] + 2
<1>1. F \in Seq(Units) /\ Len(F) = z /\ \A i \in 1 .. z : F[i] = Unit(e, i - 2)
  BY FrameUnits
<1>2. L \in Nat /\ z \in Nat
  <2>1. Size[e] \in Nat
    OBVIOUS
  <2> QED BY <2>1
<1> HIDE DEF F, z
<1>3. /\ s \o F \in Seq(Units)
      /\ Len(s \o F) = Len(s) + Len(F)
      /\ \A i \in 1 .. Len(s) + Len(F) : (s \o F)[i] = IF i <= Len(s) THEN s[i] ELSE F[i - Len(s)]
  BY <1>1, ConcatProperties
<1> HIDE DEF L
<1>4. Len(s) = L
  BY DEF L
<1>5. \A i \in 1 .. L : (s \o F)[i] = s[i]
  BY <1>1, <1>2, <1>3, <1>4
<1>6. ASSUME NEW i \in L + 1 .. L + z
      PROVE  (s \o F)[i] = Unit(e, (i - L) - 2) /\ (s \o F)[i].ev = e
  <2>1. i \in 1 .. L + z /\ ~(i <= L) /\ i - L \in 1 .. z
    BY <1>2
  <2>2. (s \o F)[i] = F[i - L]
    BY <1>1, <1>3, <1>4, <2>1
  <2>3. (s \o F)[i] = Unit(e, (i - L) - 2)
    BY <1>1, <2>1, <2>2
  <2> QED BY <2>3, UnitFields
<1> QED BY <1>1, <1>3, <1>4, <1>5, <1>6 DEF Behind, F, z, L

(* What a step may do to the socket. *)
LEMMA StreamMoves ==
  ASSUME TInv, [Next]_vars
  PROVE  \/ \E e \in Events : e = sent + 1 /\ sent' = e /\ stream' = stream \o Frame(e)
         \/ sent' = sent /\ stream' = <<>>
         \/ sent' = sent /\ stream' = stream
         \/ /\ sent' = sent
            /\ \E n \in 1 .. Len(stream) : stream' = SubSeq(stream, n + 1, Len(stream))
<1>1. ASSUME NEW e \in Events, Send(e)
      PROVE  e = sent + 1 /\ sent' = e /\ stream' = stream \o Frame(e)
  BY <1>1 DEF Send
<1>2. CASE Reconnect
  BY <1>2 DEF Reconnect
<1>3. CASE TimePasses
  BY <1>3 DEF TimePasses, netVars
<1>4. CASE ReadBuffer
  <2>1. PICK n \in 1 .. Len(stream) :
          LET c == SubSeq(stream, 1, n)
          IN  FirstPacket(c) \/ FalsePacket(c) \/ OtherPacket(c) \/ ShortPacket(c)
                \/ AppendPacket(c)
    BY <1>4 DEF ReadBuffer
  <2> DEFINE c == SubSeq(stream, 1, n)
  <2>2. Len(c) = n
    BY ChunkUnits DEF TInv
  <2>3. CASE Consume(c) /\ sent' = sent
    BY <2>2, <2>3 DEF Consume
  <2>4. CASE ShortPacket(c)
    BY <2>4 DEF ShortPacket, netVars
  <2> HIDE DEF c
  <2>5. (Consume(c) /\ sent' = sent) \/ ShortPacket(c)
    BY <2>1 DEF FirstPacket, FalsePacket, OtherPacket, AppendPacket, c
  <2> QED BY <2>3, <2>4, <2>5
<1>5. CASE GetOnlineEvent
  BY <1>5 DEF GetOnlineEvent, SeesEvent, TakesEvent, FillsEvent, netVars
<1>6. CASE UNCHANGED vars
  BY <1>6 DEF vars, netVars
<1> QED BY <1>1, <1>2, <1>3, <1>4, <1>5, <1>6 DEF Next

LEMMA NextStreamInv ==
  ASSUME TInv, StreamInv, [Next]_vars
  PROVE  StreamInv'
<1>1. /\ stream \in Seq(Units) /\ Len(stream) \in Nat /\ sent \in Nat
      /\ \A i \in 1 .. Len(stream) : stream[i].ev \in Int /\ stream[i].part \in Int
  BY SocketUnits DEF TInv, TypeOK
<1>2. ASSUME NEW e \in Events, e = sent + 1, sent' = e, stream' = stream \o Frame(e)
      PROVE  StreamInv'
  <2> DEFINE L == Len(stream)
             z == Size[e] + 2
  <2>1. /\ Len(stream') = L + z
        /\ \A i \in 1 .. L : stream'[i] = stream[i]
        /\ \A i \in L + 1 .. L + z : stream'[i] = Unit(e, (i - L) - 2)
    <3>1. stream' = Behind(stream, e)
      BY <1>2 DEF Behind
    <3> QED BY <1>1, <3>1, FrameBehind
  <2>2. L \in Nat /\ z \in Nat
    <3>1. Size[e] \in Nat
      OBVIOUS
    <3> QED BY <1>1, <3>1
  <2>3. \A i \in L + 1 .. L + z : stream'[i].ev = e /\ stream'[i].part = (i - L) - 2
    <3>1. ASSUME NEW i \in L + 1 .. L + z
          PROVE  stream'[i].ev = e /\ stream'[i].part = (i - L) - 2
      <4>1. stream'[i] = Unit(e, (i - L) - 2)
        BY <2>1
      <4>2. /\ Unit(e, (i - L) - 2).ev = e
            /\ Unit(e, (i - L) - 2).part = (i - L) - 2
        BY UnitFields, Zenon
      <4> QED BY <4>1, <4>2, Zenon
    <3> QED BY <3>1
  <2>4. \A i \in 1 .. L : stream[i].ev <= sent /\ stream[i].ev \in Int
    BY <1>1 DEF StreamInv
  <2>5. \A i, j \in 1 .. L : i < j =>
          \/ stream[i].ev < stream[j].ev
          \/ stream[i].ev = stream[j].ev /\ stream[i].part < stream[j].part
    BY DEF StreamInv
  <2>6. sent' = sent + 1 /\ sent \in Nat /\ sent' = e
    BY <1>1, <1>2
  <2> HIDE DEF L, z
  <2>7. ASSUME NEW i \in 1 .. L + z PROVE stream'[i].ev <= sent'
    <3>1. CASE i \in 1 .. L
      <4>1. stream'[i].ev <= sent /\ stream'[i].ev \in Int
        BY <2>1, <2>4, <3>1
      <4> QED BY <2>6, <4>1
    <3>2. CASE i \in L + 1 .. L + z
      <4>1. stream'[i].ev = sent'
        BY <2>3, <2>6, <3>2
      <4> QED BY <2>6, <4>1
    <3> QED BY <2>2, <3>1, <3>2
  <2>8. ASSUME NEW i \in 1 .. L + z, NEW j \in 1 .. L + z, i < j
        PROVE  \/ stream'[i].ev < stream'[j].ev
               \/ stream'[i].ev = stream'[j].ev /\ stream'[i].part < stream'[j].part
    <3>1. CASE j \in 1 .. L
      <4>1. i \in 1 .. L
        BY <2>2, <2>8, <3>1
      <4>2. stream'[i] = stream[i] /\ stream'[j] = stream[j]
        BY <2>1, <3>1, <4>1, Zenon
      <4> QED BY <2>5, <2>8, <3>1, <4>1, <4>2, Zenon
    <3>2. CASE j \in L + 1 .. L + z /\ i \in 1 .. L
      <4>1. stream'[i].ev <= sent /\ stream'[i].ev \in Int /\ stream'[j].ev = sent + 1
        BY <1>2, <2>1, <2>3, <2>4, <3>2
      <4> QED BY <1>1, <4>1
    <3>3. CASE j \in L + 1 .. L + z /\ i \in L + 1 .. L + z
      <4>1. stream'[i].ev = stream'[j].ev
        BY <2>3, <3>3
      <4>2. stream'[i].part = (i - L) - 2 /\ stream'[j].part = (j - L) - 2
        BY <2>3, <3>3
      <4>3. (i - L) - 2 < (j - L) - 2
        BY <2>2, <2>8
      <4> QED BY <4>1, <4>2, <4>3
    <3> QED BY <2>2, <3>1, <3>2, <3>3
  <2> QED BY <2>1, <2>7, <2>8 DEF StreamInv
<1>3. ASSUME NEW n \in 1 .. Len(stream), stream' = SubSeq(stream, n + 1, Len(stream)),
             sent' = sent
      PROVE  StreamInv'
  <2>1. Len(stream') = Len(stream) - n /\ \A i \in 1 .. Len(stream) - n : stream'[i] = stream[n + i]
    BY <1>1, <1>3, ChunkUnits
  <2>2. \A i \in 1 .. Len(stream) - n : n + i \in 1 .. Len(stream)
    BY <1>1
  <2>3. \A i \in 1 .. Len(stream') : stream'[i].ev <= sent'
    BY <1>3, <2>1, <2>2 DEF StreamInv
  <2>4. ASSUME NEW i \in 1 .. Len(stream'), NEW j \in 1 .. Len(stream'), i < j
        PROVE  \/ stream'[i].ev < stream'[j].ev
               \/ stream'[i].ev = stream'[j].ev /\ stream'[i].part < stream'[j].part
    <3>1. n + i \in 1 .. Len(stream) /\ n + j \in 1 .. Len(stream) /\ n + i < n + j
      BY <1>1, <2>1, <2>2, <2>4
    <3>2. stream'[i] = stream[n + i] /\ stream'[j] = stream[n + j]
      BY <2>1
    <3>3. \/ stream[n + i].ev < stream[n + j].ev
          \/ stream[n + i].ev = stream[n + j].ev /\ stream[n + i].part < stream[n + j].part
      BY <3>1 DEF StreamInv
    <3> QED BY <3>2, <3>3
  <2> QED BY <2>3, <2>4 DEF StreamInv
<1>4. ASSUME stream' = <<>> PROVE StreamInv'
  BY <1>4 DEF StreamInv
<1>5. ASSUME sent' = sent, stream' = stream PROVE StreamInv'
  BY <1>5 DEF StreamInv
<1> QED BY <1>2, <1>3, <1>4, <1>5, StreamMoves

(* What was lost stays lost. *)
LEMMA StaysRough ==
  ASSUME TInv, [Next]_vars, Rough
  PROVE  Rough'
<1>1. /\ stream \in Seq(Units) /\ Len(stream) \in Nat /\ sent \in Nat
      /\ DOMAIN stream = 1 .. Len(stream) /\ reconnects \in Nat
  BY DEF TInv, TypeOK
<1>2. CASE reconnects > 0
  <2>1. reconnects' > 0
    BY <1>1, <1>2, NextReconnects
  <2> QED BY <2>1 DEF Rough
<1>3. ASSUME NEW u \in FalseKeys, u.ev <= sent, \A i \in DOMAIN stream : stream[i] # u
      PROVE  Rough'
  <2>1. u.ev \in Int
    BY FalseKeysAssumption
  <2>2. u.ev <= sent' /\ \A i \in DOMAIN stream' : stream'[i] # u
    <3>1. ASSUME NEW e \in Events, e = sent + 1, sent' = e, stream' = stream \o Frame(e)
          PROVE  u.ev <= sent' /\ \A i \in DOMAIN stream' : stream'[i] # u
      <4>1. /\ stream' \in Seq(Units)
            /\ Len(stream') = Len(stream) + (Size[e] + 2)
            /\ \A i \in 1 .. Len(stream) : stream'[i] = stream[i]
            /\ \A i \in Len(stream) + 1 .. Len(stream) + (Size[e] + 2) :
                 stream'[i].ev = e
        <5>1. stream' = Behind(stream, e)
          BY <3>1 DEF Behind
        <5> QED BY <1>1, <5>1, FrameBehind
      <4>2. u.ev # e /\ u.ev <= sent'
        BY <1>1, <1>3, <2>1, <3>1
      <4>3. \A i \in Len(stream) + 1 .. Len(stream) + (Size[e] + 2) : stream'[i] # u
        BY <4>1, <4>2
      <4>4. DOMAIN stream' = 1 .. Len(stream) + (Size[e] + 2) /\ Size[e] \in Nat
        BY <4>1
      <4>5. ASSUME NEW i \in DOMAIN stream' PROVE stream'[i] # u
        <5>1. i \in 1 .. Len(stream) \/ i \in Len(stream) + 1 .. Len(stream) + (Size[e] + 2)
          BY <1>1, <4>4
        <5> QED BY <1>1, <1>3, <4>1, <4>3, <5>1
      <4> QED BY <4>2, <4>5
    <3>2. ASSUME NEW n \in 1 .. Len(stream), stream' = SubSeq(stream, n + 1, Len(stream)),
                 sent' = sent
          PROVE  u.ev <= sent' /\ \A i \in DOMAIN stream' : stream'[i] # u
      <4>1. /\ stream' \in Seq(Units) /\ Len(stream') = Len(stream) - n
            /\ \A i \in 1 .. Len(stream) - n : stream'[i] = stream[n + i]
        BY <1>1, <3>2, ChunkUnits
      <4>2. DOMAIN stream' = 1 .. Len(stream) - n
        BY <1>1, <4>1
      <4>3. \A i \in 1 .. Len(stream) - n : n + i \in 1 .. Len(stream)
        BY <1>1
      <4> QED BY <1>1, <1>3, <3>2, <4>1, <4>2, <4>3
    <3>3. ASSUME sent' = sent, stream' = <<>>
          PROVE  u.ev <= sent' /\ \A i \in DOMAIN stream' : stream'[i] # u
      BY <1>3, <3>3
    <3>4. ASSUME sent' = sent, stream' = stream
          PROVE  u.ev <= sent' /\ \A i \in DOMAIN stream' : stream'[i] # u
      BY <1>3, <3>4
    <3> QED BY <3>1, <3>2, <3>3, <3>4, StreamMoves
  <2> QED BY <2>2 DEF Rough
<1> QED BY <1>2, <1>3 DEF Rough

(* Data that are taken for a frame are gone from the socket. *)
LEMMA FalseIsRough ==
  ASSUME TInv, StreamInv, NEW n \in 1 .. Len(stream), FalsePacket(SubSeq(stream, 1, n))
  PROVE  Rough'
<1> DEFINE c == SubSeq(stream, 1, n)
<1>1. /\ stream \in Seq(Units) /\ Len(stream) \in Nat /\ sent \in Nat /\ n \in Nat
      /\ \A i \in 1 .. Len(stream) : stream[i].ev \in Int /\ stream[i].part \in Int
  BY SocketUnits DEF TInv, TypeOK
<1>2. c[1] = stream[1] /\ Len(c) = n
  BY <1>1, ChunkUnits
<1>3. stream[1] \in FalseKeys /\ sent' = sent /\ stream' = SubSeq(stream, n + 1, Len(stream))
  BY <1>2 DEF FalsePacket, Consume
<1>4. /\ stream' \in Seq(Units) /\ Len(stream') = Len(stream) - n
      /\ \A i \in 1 .. Len(stream) - n : stream'[i] = stream[n + i]
  BY <1>1, <1>3, ChunkUnits
<1>5. ASSUME NEW i \in DOMAIN stream' PROVE stream'[i] # stream[1]
  <2>1. i \in 1 .. Len(stream) - n /\ n + i \in 1 .. Len(stream) /\ 1 \in 1 .. Len(stream) /\ 1 < n + i
    BY <1>1, <1>4
  <2>2. \/ stream[1].ev < stream[n + i].ev
        \/ stream[1].ev = stream[n + i].ev /\ stream[1].part < stream[n + i].part
    BY <2>1 DEF StreamInv
  <2>3. stream[1].ev # stream[n + i].ev \/ stream[1].part # stream[n + i].part
    BY <1>1, <2>1, <2>2
  <2> QED BY <1>4, <2>1, <2>3
<1>6. stream[1].ev <= sent
  BY <1>1 DEF StreamInv
<1> QED BY <1>3, <1>5, <1>6 DEF Rough

(* A header is read from the socket: the ones behind it are of later events. *)
LEMMA HeadsFollow ==
  ASSUME TInv, StreamInv, NEW n \in 1 .. Len(stream), Consume(SubSeq(stream, 1, n)),
         NEW k \in Int, \A i \in 1 .. Len(stream) : stream[i].part = -1 => k < stream[i].ev
  PROVE  /\ \A i \in 1 .. Len(stream') : stream'[i].part = -1 => k < stream'[i].ev
         /\ stream[1].part = -1 =>
              \A i \in 1 .. Len(stream') : stream'[i].part = -1 => stream[1].ev < stream'[i].ev
<1>1. /\ stream \in Seq(Units) /\ Len(stream) \in Nat /\ n \in Nat
      /\ \A i \in 1 .. Len(stream) : stream[i].ev \in Int /\ stream[i].part \in Int
  <2>1. stream \in Seq(Units)
    BY DEF TInv
  <2> QED BY <2>1, SocketUnits
<1>2. stream' = SubSeq(stream, n + 1, Len(stream))
  BY <1>1, ChunkUnits DEF Consume
<1>3. Len(stream') = Len(stream) - n /\ \A i \in 1 .. Len(stream) - n : stream'[i] = stream[n + i]
  BY <1>1, <1>2, ChunkUnits
<1>4. \A i \in 1 .. Len(stream') : n + i \in 1 .. Len(stream) /\ 1 < n + i
  BY <1>1, <1>3
<1>5. 1 \in 1 .. Len(stream)
  BY <1>1
<1>6. ASSUME stream[1].part = -1, NEW i \in 1 .. Len(stream'), stream'[i].part = -1
      PROVE  stream[1].ev < stream'[i].ev
  <2>1. \/ stream[1].ev < stream[n + i].ev
        \/ stream[1].ev = stream[n + i].ev /\ stream[1].part < stream[n + i].part
    BY <1>4, <1>5 DEF StreamInv
  <2>2. stream'[i] = stream[n + i]
    BY <1>3
  <2> QED BY <1>6, <2>1, <2>2
<1> QED BY <1>3, <1>4, <1>6

(* ReadBuffer starts only later events, and stores only what it started. *)
LEMMA ReadFeeds ==
  ASSUME TInv, StreamInv, DecoderInv, DisplayInv, ~Rough', ReadBuffer
  PROVE  DecoderInv' /\ DisplayInv' /\ fQData' = fQData
<1>1. PICK n \in 1 .. Len(stream) :
        LET c == SubSeq(stream, 1, n)
        IN  FirstPacket(c) \/ FalsePacket(c) \/ OtherPacket(c) \/ ShortPacket(c)
              \/ AppendPacket(c)
  BY DEF ReadBuffer
<1> DEFINE c == SubSeq(stream, 1, n)
<1>2. /\ stream \in Seq(Units) /\ Len(stream) \in Nat /\ sent \in 0 .. NEvents
      /\ m_bytes_left \in Int /\ m_evh \in Int
  BY DEF TInv, TypeOK, DecoderInv
<1>3. c \in Seq(Units) /\ Len(c) = n /\ c[1] = stream[1] /\ 1 \in 1 .. Len(stream)
  BY <1>2, ChunkUnits
<1>4. LastOut \in Int
  BY DEF LastOut, DisplayInv
<1>5. CASE FirstPacket(c)
  <2> DEFINE e == stream[1].ev
  <2>1. stream[1].part = -1 /\ e \in Events
    BY <1>3, <1>5, UnitFields DEF FirstPacket, IsFirstPacket, RunHead
  <2>2. Consume(c) /\ UNCHANGED <<sent, reconnects, pollVars>>
    BY <1>5 DEF FirstPacket
  <2>3. m_evh' = e /\ m_EveData' = NoAdc
    BY <1>3, <1>5 DEF FirstPacket, StartEvent
  <2>4. e <= sent /\ m_evh < e
    BY <1>3, <2>1 DEF StreamInv, DecoderInv
  <2>5. \A i \in 1 .. Len(stream') : stream'[i].part = -1 => e < stream'[i].ev
    BY <1>2, <2>1, <2>2, HeadsFollow DEF DecoderInv
  <2> HIDE DEF e
  <2>6. DecoderInv'
    BY <1>2, <2>1, <2>2, <2>3, <2>4, <2>5 DEF DecoderInv
  <2>7. LastOut' = LastOut /\ UNCHANGED <<pc, adc, fQData>>
    BY <2>2 DEF LastOut, pollVars
  <2>8. LastOut < e
    BY <1>2, <1>4, <2>1, <2>4 DEF DisplayInv
  <2> QED BY <1>2, <1>4, <2>1, <2>3, <2>6, <2>7, <2>8 DEF DisplayInv
<1>6. CASE FalsePacket(c)
  BY <1>6, FalseIsRough
<1>7. CASE OtherPacket(c)
  <2>1. /\ Consume(c) /\ m_EveData' = NoAdc
        /\ UNCHANGED <<sent, reconnects, m_bytes_left, m_evh, pollVars>>
    BY <1>7 DEF OtherPacket
  <2>2. \A i \in 1 .. Len(stream') : stream'[i].part = -1 => m_evh < stream'[i].ev
    BY <1>2, <2>1, HeadsFollow DEF DecoderInv
  <2>3. DecoderInv'
    BY <2>1, <2>2 DEF DecoderInv
  <2>4. LastOut' = LastOut /\ UNCHANGED <<pc, adc, fQData>>
    BY <2>1 DEF LastOut, pollVars
  <2> QED BY <2>1, <2>3, <2>4 DEF DisplayInv
<1>8. CASE ShortPacket(c)
  <2>1. UNCHANGED <<netVars, m_bytes_left, m_EveData, m_evh, pollVars>>
    BY <1>8 DEF ShortPacket
  <2>2. LastOut' = LastOut /\ UNCHANGED <<pc, adc, fQData>>
    BY <2>1 DEF LastOut, pollVars
  <2> QED BY <2>1, <2>2 DEF netVars, DecoderInv, DisplayInv
<1>9. CASE AppendPacket(c)
  <2>1. /\ Consume(c) /\ m_bytes_left > 0
        /\ m_bytes_left' = m_bytes_left - n
        /\ m_EveData' # NoAdc => m_bytes_left' = 0
        /\ UNCHANGED <<sent, reconnects, m_evh, pollVars>>
    BY <1>2, <1>3, <1>9 DEF AppendPacket, Waiting
  <2>2. \A i \in 1 .. Len(stream') : stream'[i].part = -1 => m_evh < stream'[i].ev
    BY <1>2, <2>1, HeadsFollow DEF DecoderInv
  <2>3. m_evh # Unknown /\ LastOut < m_evh
    BY <1>2, <2>1 DEF DecoderInv, DisplayInv
  <2>4. DecoderInv'
    BY <2>1, <2>2, <2>3 DEF DecoderInv
  <2>5. LastOut' = LastOut /\ UNCHANGED <<pc, adc, fQData>>
    BY <2>1 DEF LastOut, pollVars
  <2> QED BY <2>1, <2>3, <2>4, <2>5 DEF DisplayInv
<1> QED BY <1>1, <1>5, <1>6, <1>7, <1>8, <1>9

(* What GetOnlineEvent takes is later than what it took before. *)
LEMMA PollFeeds ==
  ASSUME TInv, IInv, DecoderInv, DisplayInv, GetOnlineEvent
  PROVE  /\ DecoderInv' /\ DisplayInv'
         /\ fQData' = fQData \/ WholeEvent(fQData) < WholeEvent(fQData')
<1>1. LastOut \in Int /\ m_evh \in Int /\ sent \in 0 .. NEvents
  BY DEF LastOut, DisplayInv, DecoderInv, TInv, TypeOK
<1>2. UNCHANGED <<stream, sent, m_bytes_left, m_evh>>
  BY DEF GetOnlineEvent, SeesEvent, TakesEvent, FillsEvent, netVars, decVars
<1>3. CASE SeesEvent
  <2>1. UNCHANGED <<m_EveData, adc, fQData>> /\ pc = "idle" /\ pc' = "checked"
    BY <1>3 DEF SeesEvent, decVars
  <2>2. LastOut' = LastOut
    BY <2>1 DEF LastOut
  <2> QED BY <1>2, <2>1, <2>2 DEF DecoderInv, DisplayInv
<1>4. CASE TakesEvent
  <2>1. /\ adc' = m_EveData /\ m_EveData' = NoAdc /\ fQData' = fQData
        /\ pc = "checked" /\ pc' = "taken"
    BY <1>4 DEF TakesEvent
  <2>2. LastOut = WholeEvent(fQData)
    BY <2>1 DEF LastOut
  <2>3. DecoderInv'
    BY <1>2, <2>1 DEF DecoderInv
  <2>4. CASE m_EveData = NoAdc
    <3>1. LastOut' = LastOut
      BY <2>1, <2>2, <2>4 DEF LastOut
    <3> QED BY <1>2, <2>1, <2>3, <2>4, <3>1 DEF DisplayInv
  <2>5. CASE m_EveData # NoAdc
    <3>1. m_evh # Unknown /\ m_bytes_left = 0 /\ LastOut < m_evh
      BY <2>5 DEF DecoderInv, DisplayInv
    <3>2. WholeEvent(m_EveData) = m_evh
      BY <2>5, <3>1, StoredIsWholeEvent DEF IInv, StoredIsWhole
    <3>3. LastOut' = m_evh
      BY <2>1, <2>5, <3>2 DEF LastOut
    <3>4. m_evh \in 0 .. NEvents
      BY <1>1 DEF DecoderInv
    <3> QED BY <1>1, <1>2, <2>1, <2>2, <2>3, <3>1, <3>2, <3>3, <3>4 DEF DisplayInv
  <2> QED BY <2>4, <2>5
<1>5. CASE FillsEvent
  <2>1. /\ UNCHANGED <<m_EveData, adc>> /\ pc = "taken" /\ pc' = "idle"
        /\ fQData' = IF adc = NoAdc THEN fQData ELSE adc
    BY <1>5 DEF FillsEvent, decVars
  <2>2. LastOut' = LastOut /\ WholeEvent(fQData') = LastOut
    BY <2>1 DEF LastOut
  <2>3. DecoderInv'
    BY <1>2, <2>1 DEF DecoderInv
  <2>4. WholeEvent(fQData') \in 0 .. NEvents
    BY <2>1 DEF DisplayInv
  <2>5. DisplayInv'
    BY <1>2, <2>1, <2>2, <2>4 DEF DisplayInv
  <2> QED BY <2>1, <2>3, <2>5 DEF DisplayInv
<1> QED BY <1>3, <1>4, <1>5 DEF GetOnlineEvent

(* One step, as long as nothing was lost. *)
LEMMA NextFeeds ==
  ASSUME FeedInv, [Next]_vars, ~Rough'
  PROVE  /\ ~Rough
         /\ DecoderInv' /\ DisplayInv'
         /\ fQData' = fQData \/ WholeEvent(fQData) < WholeEvent(fQData')
<1>1. ~Rough
  BY StaysRough DEF FeedInv
<1>2. TInv /\ StreamInv /\ DecoderInv /\ DisplayInv
  BY <1>1 DEF FeedInv
<1>3. reconnects \in Nat /\ reconnects = 0 /\ IInv
  <2>1. reconnects \in Nat
    BY <1>2 DEF TInv, TypeOK
  <2>2. reconnects = 0
    BY <1>1, <2>1 DEF Rough
  <2> QED BY <2>1, <2>2 DEF FeedInv
<1>4. ASSUME NEW e \in Events, Send(e)
      PROVE  DecoderInv' /\ DisplayInv' /\ fQData' = fQData
  <2>1. /\ e = sent + 1 /\ sent' = e /\ stream' = stream \o Frame(e)
        /\ UNCHANGED <<m_bytes_left, m_EveData, m_evh, pollVars>>
    BY <1>4 DEF Send, decVars
  <2>2. stream \in Seq(Units) /\ Len(stream) \in Nat /\ sent \in 0 .. NEvents /\ Size[e] \in Nat
    BY <1>2, SocketUnits DEF TInv, TypeOK
  <2>3. /\ Len(stream') = Len(stream) + (Size[e] + 2)
        /\ \A i \in 1 .. Len(stream) : stream'[i] = stream[i]
        /\ \A i \in Len(stream) + 1 .. Len(stream) + (Size[e] + 2) : stream'[i].ev = e
    <3>1. stream' = Behind(stream, e)
      BY <2>1 DEF Behind
    <3> QED BY <2>2, <3>1, FrameBehind
  <2>4. m_evh \in 0 .. sent' /\ m_evh < e
    BY <1>2, <2>1, <2>2 DEF DecoderInv
  <2>5. ASSUME NEW i \in 1 .. Len(stream'), stream'[i].part = -1
        PROVE  m_evh < stream'[i].ev
    <3>1. i \in 1 .. Len(stream) \/ i \in Len(stream) + 1 .. Len(stream) + (Size[e] + 2)
      BY <2>2, <2>3
    <3> QED BY <1>2, <2>3, <2>4, <2>5, <3>1 DEF DecoderInv
  <2>6. DecoderInv'
    BY <1>2, <2>1, <2>4, <2>5 DEF DecoderInv
  <2>7. LastOut' = LastOut /\ UNCHANGED <<pc, adc, fQData>>
    BY <2>1 DEF LastOut, pollVars
  <2> QED BY <1>2, <2>1, <2>6, <2>7 DEF DisplayInv
<1>5. CASE Reconnect
  <2>1. reconnects' > 0
    BY <1>3, <1>5 DEF Reconnect
  <2> QED BY <2>1 DEF Rough
<1>6. CASE TimePasses \/ UNCHANGED vars
  <2>1. UNCHANGED <<stream, sent, m_bytes_left, m_EveData, m_evh, pc, adc, fQData>>
    BY <1>6 DEF TimePasses, vars, netVars, decVars, pollVars
  <2>2. LastOut' = LastOut
    BY <2>1 DEF LastOut
  <2>3. DecoderInv'
    BY <1>2, <2>1 DEF DecoderInv
  <2>4. DisplayInv'
    BY <1>2, <2>1, <2>2 DEF DisplayInv
  <2> QED BY <1>1, <2>1, <2>3, <2>4
<1>7. CASE ReadBuffer
  BY <1>1, <1>2, <1>7, ReadFeeds
<1>8. CASE GetOnlineEvent
  BY <1>1, <1>2, <1>3, <1>8, PollFeeds
<1> QED BY <1>1, <1>4, <1>5, <1>6, <1>7, <1>8 DEF Next

LEMMA InitFeedInv == Init => FeedInv
<1> SUFFICES ASSUME Init PROVE FeedInv
  OBVIOUS
<1>1. StreamInv
  BY DEF Init, StreamInv
<1>2. WholeEvent(fQData) = 0
  BY DEF Init, WholeEvent
<1>3. LastOut = 0
  BY <1>2 DEF Init, LastOut
<1>4. NEvents \in Nat
  OBVIOUS
<1>5. DecoderInv
  BY DEF Init, DecoderInv
<1>6. pc # "taken"
  BY DEF Init
<1>7. DisplayInv
  BY <1>2, <1>3, <1>4, <1>6 DEF Init, DisplayInv
<1> QED BY <1>1, <1>5, <1>7, InitIInv, InitTInv DEF FeedInv

LEMMA NextFeedInv ==
  ASSUME FeedInv, [Next]_vars
  PROVE  FeedInv'
<1>1. TInv' /\ StreamInv'
  BY NextTInv, NextStreamInv DEF FeedInv
<1>2. ASSUME reconnects' = 0 PROVE IInv'
  <2>1. reconnects \in Nat /\ expired \in BOOLEAN
    BY DEF FeedInv, TInv, TypeOK
  <2> QED BY <1>2, <2>1, NextReconnects, NextIInv DEF FeedInv
<1>3. ~Rough' => DecoderInv' /\ DisplayInv'
  BY NextFeeds
<1> QED BY <1>1, <1>2, <1>3 DEF FeedInv

(* The chain from the socket to the display implements EventFeed: the      *)
(* display shows nothing or one whole event, and what comes after it is a  *)
(* later one, however frames are cut into chunks and however ReadBuffer    *)
(* and the three steps of GetOnlineEvent interleave.                       *)
(* (daq/src/EventDecoder.cc, ReadBuffer and GetEvent;                      *)
(* datautils/src/EventDataManager.cc, GetOnlineEvent)                      *)
THEOREM OnlineImplementsFeed == Spec => FeedSpec
<1> DEFINE given == IF Rough THEN NEvents ELSE WholeEvent(fQData)
<1>1. Init => Feed!Init
  <2> SUFFICES ASSUME Init PROVE given = 0
    BY DEF Feed!Init
  <2>1. WholeEvent(fQData) = 0
    BY DEF Init, WholeEvent
  <2>2. ~Rough
    <3>1. \A u \in FalseKeys : ~(u.ev <= 0)
      BY FalseKeysAssumption
    <3> QED BY <3>1 DEF Init, Rough
  <2> QED BY <2>1, <2>2
<1>2. FeedInv /\ [Next]_vars => [Feed!Next]_given
  <2> SUFFICES ASSUME FeedInv, [Next]_vars
               PROVE  given' = given \/ given' \in given + 1 .. NEvents
    BY DEF Feed!Next
  <2>1. FeedInv' /\ NEvents \in Nat
    BY NextFeedInv
  <2>2. CASE Rough
    <3>1. given = NEvents /\ given' = NEvents
      BY <2>2, StaysRough DEF FeedInv
    <3> QED BY <3>1
  <2>3. CASE ~Rough /\ Rough'
    <3>1. given \in 0 .. NEvents /\ given' = NEvents
      BY <2>3 DEF FeedInv, DisplayInv
    <3> HIDE DEF given
    <3> QED BY <2>1, <3>1
  <2>4. CASE ~Rough /\ ~Rough'
    <3>1. given = WholeEvent(fQData) /\ given' = WholeEvent(fQData')
      BY <2>4
    <3>2. fQData' = fQData \/ WholeEvent(fQData) < WholeEvent(fQData')
      BY <2>4, NextFeeds
    <3>3. given \in 0 .. NEvents /\ given' \in 0 .. NEvents
      BY <2>1, <2>4 DEF FeedInv, DisplayInv
    <3> HIDE DEF given
    <3> QED BY <2>1, <3>1, <3>2, <3>3
  <2> QED BY <2>2, <2>3, <2>4
<1> QED BY <1>1, <1>2, InitFeedInv, NextFeedInv, PTL DEF Spec, FeedSpec, Feed!Spec

-----------------------------------------------------------------------------
(***************************************************************************)
(* The client's connection, for any servers and any number of bufferevents *)
(* at a time: what holds whatever disturbs, and what holds as long as the  *)
(* disturbances named in each property stay away.                          *)
(***************************************************************************)

Calm == may \subseteq {"SIGINT"}

(* The client runs while its thread does.                                  *)
RunsInv == m_running <=> thread = "running"

(* Unless callbacks run late, a client that is connected runs.             *)
ConnectedInv == "late" \notin may => (m_connected => m_running)

(* There is only the current bufferevent.  It is connecting as long as     *)
(* m_connected is not set; when it is set, there is one.                   *)
CurrentInv ==
  Calm => /\ Alive \subseteq {bev}
          /\ thread = "running" =>
               IF m_connected THEN bev # NULL ELSE bev = NULL \/ bevs[bev] = "connecting"

(* Only Stop lets the loop exit, and waits for it.                         *)
ExitInv ==
  may = {} => /\ ~crashed
              /\ thread = "exiting" => caller = "joining"

ClientInv == ClientTypes /\ RunsInv /\ ConnectedInv /\ CurrentInv /\ ExitInv

USE ClientAssumption DEF ClientAssumption, NULL, Nothing, Destroy

-----------------------------------------------------------------------------
LEMMA MinOf == ASSUME NEW S, S \subseteq Nat, S # {} PROVE Min(S) \in S
<1>1. PICK n \in S : \A m \in S : ~(<<m, n>> \in OpToRel(<, Nat))
  BY NatLessThanWellFounded, WFMin
<1>2. ASSUME NEW m \in S PROVE n <= m
  <2>1. <<m, n>> \in OpToRel(<, Nat) <=> m < n
    BY Zenon DEF OpToRel
  <2>2. ~(m < n) /\ m \in Nat /\ n \in Nat
    BY <1>1, <2>1
  <2> QED BY <2>2
<1> QED BY <1>2 DEF Min

LEMMA MinFree == ASSUME NEW S, S \subseteq BevIds, S # {} PROVE Min(S) \in S /\ Min(S) \in BevIds
<1>1. S \subseteq Nat
  BY DEF BevIds
<1> QED BY <1>1, MinOf

LEMMA InitClientInv == ClientInit => ClientInv
<1> SUFFICES ASSUME ClientInit PROVE ClientInv
  OBVIOUS
<1>1. ClientTypes
  BY DEF ClientInit, ClientTypes
<1>2. Alive = {}
  BY DEF ClientInit, Alive, In
<1> QED BY <1>1, <1>2 DEF ClientInit, ClientInv, RunsInv, ConnectedInv, CurrentInv, ExitInv

(* What the steps that leave the bufferevents alone have to show.          *)
LEMMA MakeConnectionIInv ==
  ASSUME ClientInv, UNCHANGED envVars, NEW port \in Ports, NEW th \in {"none", "running", "exiting", "ended"},
         MakeConnection(port, th), may = {} => th \notin {"running", "exiting"}
  PROVE  ClientInv'
<1> DEFINE free == {b \in BevIds : Cleaned[b] = "free"}
           n    == Min(free)
<1>1. n \in free /\ n \in BevIds
  BY MinFree DEF MakeConnection
<1>2. /\ bev' = n /\ bevs' = [Cleaned EXCEPT ![n] = "connecting"]
      /\ m_connected' = TRUE /\ m_running' = TRUE /\ thread' = "running"
      /\ caller' = "idle" /\ after' = Nothing /\ m_sin' = port
      /\ crashed' = (th \in {"running", "exiting"})
      /\ UNCHANGED <<may, serverUp>>
  BY DEF MakeConnection, envVars
<1> HIDE DEF n
<1>3. Cleaned \in [BevIds -> {"free", "failed"}]
  BY DEF Cleaned
<1>4. /\ bevs' \in [BevIds -> {"free", "connecting", "failed"}]
      /\ bevs'[n] = "connecting"
      /\ \A b \in BevIds : b # n => bevs'[b] = Cleaned[b]
  BY <1>1, <1>2, <1>3
<1>5. n # 0
  BY <1>1 DEF BevIds
<1>6. ClientTypes'
  <2>1. bev' \in Alive'
    BY <1>1, <1>2, <1>4 DEF Alive, In
  <2>2. bevs' \in [BevIds -> {"free", "connecting", "up", "lost", "pinged", "failed"}]
    BY <1>4
  <2> QED BY <1>2, <2>1, <2>2 DEF ClientInv, ClientTypes
<1>7. CurrentInv'
  <2> SUFFICES ASSUME Calm PROVE Alive' \subseteq {n}
    BY <1>2, <1>5 DEF CurrentInv, Calm
  <2>1. \A b \in BevIds : b # bev => bevs[b] = "free"
    BY DEF ClientInv, CurrentInv, Alive, In
  <2>2. \A b \in BevIds : Cleaned[b] = "free"
    BY <2>1 DEF Cleaned
  <2> QED BY <1>4, <2>2 DEF Alive, In
<1> QED BY <1>2, <1>6, <1>7 DEF ClientInv, RunsInv, ConnectedInv, ExitInv

LEMMA CleanupForGoodIInv ==
  ASSUME ClientInv, UNCHANGED envVars, NEW th \in {"none", "exiting", "ended"}, ~m_running,
         CleanupForGood(th), may = {} => th # "exiting"
  PROVE  ClientInv'
<1>1. /\ bev' = NULL /\ bevs' = Cleaned /\ m_sin' = 0 /\ caller' = "gone" /\ after' = Nothing
      /\ crashed' = (th \in {"running", "exiting"}) /\ thread' = th
      /\ UNCHANGED <<may, serverUp, m_running, m_connected>>
  BY DEF CleanupForGood, envVars
<1>2. Cleaned \in [BevIds -> {"free", "failed"}]
  BY DEF Cleaned
<1>3. ClientTypes'
  BY <1>1, <1>2 DEF ClientInv, ClientTypes
<1>4. CurrentInv'
  <2> SUFFICES ASSUME Calm PROVE Alive' \subseteq {NULL}
    BY <1>1 DEF CurrentInv, Calm
  <2>1. \A b \in BevIds : b # bev => bevs[b] = "free"
    BY DEF ClientInv, CurrentInv, Alive, In
  <2>2. \A b \in BevIds : Cleaned[b] = "free"
    BY <2>1 DEF Cleaned
  <2> QED BY <1>1, <2>2 DEF Alive, In
<1> QED BY <1>1, <1>3, <1>4 DEF ClientInv, RunsInv, ConnectedInv, ExitInv

LEMMA CallStopIInv ==
  ASSUME ClientInv, UNCHANGED envVars, caller = "idle",
         NEW what \in Ports \cup {Destroy, Nothing}, CallStop(what)
  PROVE  ClientInv'
<1>1. /\ caller' = "testing" /\ after' = what
      /\ UNCHANGED <<m_running, m_connected, m_sin, bev, bevs, thread, crashed, may, serverUp>>
  BY DEF CallStop, envVars
<1>2. ClientTypes' /\ CurrentInv'
  BY <1>1 DEF ClientInv, ClientTypes, CurrentInv, Calm, Alive, In
<1> QED BY <1>1, <1>2 DEF ClientInv, RunsInv, ConnectedInv, ExitInv

(* What follows Stop() keeps the invariant, with no thread or one that     *)
(* does not run.                                                           *)
LEMMA StopReturnedIInv ==
  ASSUME ClientInv, UNCHANGED envVars, ~m_running, caller \in {"testing", "joining"},
         NEW th \in {"none", "exiting", "ended"}, StopReturned(th), may = {} => th # "exiting"
  PROVE  ClientInv'
<1>1. after \in Ports \cup {Destroy, Nothing} /\ Destroy \notin Ports /\ Nothing \notin Ports
  BY DEF ClientInv, ClientTypes
<1>2. CASE after = Nothing
  <2>1. /\ thread' = th /\ caller' = "idle"
        /\ UNCHANGED <<m_running, m_connected, m_sin, bev, bevs, after, may, serverUp, crashed>>
    BY <1>1, <1>2 DEF StopReturned, envVars
  <2>2. ClientTypes' /\ CurrentInv'
    BY <2>1 DEF ClientInv, ClientTypes, CurrentInv, Calm, Alive, In
  <2> QED BY <1>1, <2>1, <2>2 DEF ClientInv, RunsInv, ConnectedInv, ExitInv
<1>3. CASE after \in Ports
  <2>1. MakeConnection(after, th)
    BY <1>1, <1>3 DEF StopReturned
  <2> QED BY <1>1, <1>3, <2>1, MakeConnectionIInv
<1>4. CASE after = Destroy
  <2>1. CleanupForGood(th)
    BY <1>1, <1>4 DEF StopReturned
  <2> QED BY <1>1, <2>1, CleanupForGoodIInv
<1> QED BY <1>1, <1>2, <1>3, <1>4

-----------------------------------------------------------------------------
(* Without late callbacks, the dispatch thread runs until it is stopped.   *)
LEMMA DispatchingRuns ==
  ASSUME ClientInv, Dispatching, "late" \notin may PROVE m_running /\ thread = "running" /\ ~crashed
BY DEF ClientInv, Dispatching, RunsInv

LEMMA CalmNotLate == ASSUME Calm \/ may = {} PROVE "late" \notin may /\ Calm
BY DEF Calm

LEMMA ConnectedEventIInv ==
  ASSUME ClientInv, Dispatching, NEW b \in BevIds, ConnectedEvent(b) PROVE ClientInv'
<1>1. /\ bevs[b] = "connecting" /\ bevs' = [bevs EXCEPT ![b] = "up"] /\ m_connected' = TRUE
      /\ UNCHANGED <<m_running, m_sin, bev, thread, caller, after, may, serverUp, crashed>>
  BY DEF ConnectedEvent, appVars, envVars
<1>2. bevs \in [BevIds -> {"free", "connecting", "up", "lost", "pinged", "failed"}]
  BY DEF ClientInv, ClientTypes
<1>3. Alive' = Alive /\ b \in Alive
  BY <1>1, <1>2 DEF Alive, In
<1>4. ClientTypes'
  BY <1>1, <1>2, <1>3 DEF ClientInv, ClientTypes
<1>5. ConnectedInv'
  BY <1>1, DispatchingRuns DEF ClientInv, ConnectedInv
<1>6. CurrentInv'
  <2> SUFFICES ASSUME Calm PROVE bev # NULL /\ Alive \subseteq {bev}
    BY <1>1, <1>3 DEF CurrentInv, Calm
  <2> QED BY <1>3 DEF ClientInv, CurrentInv, BevIds
<1> QED BY <1>1, <1>4, <1>5, <1>6 DEF ClientInv, RunsInv, ExitInv

LEMMA ErrorEventIInv ==
  ASSUME ClientInv, Dispatching, NEW b \in BevIds, ErrorEvent(b) PROVE ClientInv'
<1>1. /\ bevs[b] # "free" /\ m_connected' = FALSE /\ bev' = NULL /\ crashed' = (bev = NULL)
      /\ bevs' = [c \in BevIds |-> CASE c = bev            -> "free"
                                     [] c = b /\ c # bev   -> "failed"
                                     [] OTHER              -> bevs[c]]
      /\ UNCHANGED <<m_running, m_sin, thread, caller, after, may, serverUp>>
  BY DEF ErrorEvent, RemoveBufEvent, appVars, envVars
<1>2. bevs \in [BevIds -> {"free", "connecting", "up", "lost", "pinged", "failed"}]
  BY DEF ClientInv, ClientTypes
<1>3. /\ bevs' \in [BevIds -> {"free", "connecting", "up", "lost", "pinged", "failed"}]
      /\ \A c \in BevIds : bevs'[c] = IF c = bev THEN "free" ELSE IF c = b THEN "failed" ELSE bevs[c]
  BY <1>1, <1>2
<1>4. ClientTypes'
  BY <1>1, <1>3 DEF ClientInv, ClientTypes
<1>5. ASSUME Calm PROVE bev = b /\ bev # NULL /\ Alive' = {}
  <2>1. b \in Alive
    BY <1>1 DEF Alive, In
  <2>2. bev = b /\ bev # NULL
    BY <1>5, <2>1 DEF ClientInv, CurrentInv, BevIds
  <2>3. \A c \in BevIds : c # bev => bevs[c] = "free"
    BY <1>5 DEF ClientInv, CurrentInv, Alive, In
  <2> QED BY <1>3, <2>2, <2>3 DEF Alive, In
<1>6. CurrentInv'
  BY <1>1, <1>5 DEF CurrentInv, Calm
<1>7. ExitInv'
  BY <1>1, <1>5, CalmNotLate DEF ClientInv, ExitInv
<1> QED BY <1>1, <1>4, <1>6, <1>7 DEF ClientInv, RunsInv, ConnectedInv

LEMMA ReadEventIInv ==
  ASSUME ClientInv, Dispatching, NEW b \in BevIds, ReadEvent(b) PROVE ClientInv'
<1>1. /\ bevs[b] = "up" /\ crashed' = (bev = NULL)
      /\ UNCHANGED <<m_running, m_connected, m_sin, bev, bevs, thread, caller, after, may, serverUp>>
  BY DEF ReadEvent, appVars, envVars
<1>2. ClientTypes' /\ CurrentInv' /\ RunsInv' /\ ConnectedInv'
  BY <1>1 DEF ClientInv, ClientTypes, CurrentInv, RunsInv, ConnectedInv, Calm, Alive, In
<1>3. Calm => bev # NULL
  <2>1. b \in Alive /\ b # NULL
    BY <1>1 DEF Alive, In, BevIds
  <2> QED BY <2>1 DEF ClientInv, CurrentInv
<1>4. ExitInv'
  BY <1>1, <1>3, CalmNotLate DEF ClientInv, ExitInv
<1> QED BY <1>2, <1>4 DEF ClientInv

LEMMA PingIInv == ASSUME ClientInv, Dispatching, Ping PROVE ClientInv'
<1>1. /\ m_connected /\ crashed' = (bev = NULL)
      /\ bevs' = [b \in BevIds |-> IF b = bev /\ bevs[b] = "lost" THEN "pinged" ELSE bevs[b]]
      /\ UNCHANGED <<m_running, m_connected, m_sin, bev, thread, caller, after, may, serverUp>>
  BY DEF Ping, appVars, envVars
<1>2. bevs \in [BevIds -> {"free", "connecting", "up", "lost", "pinged", "failed"}]
  BY DEF ClientInv, ClientTypes
<1>3. /\ bevs' \in [BevIds -> {"free", "connecting", "up", "lost", "pinged", "failed"}]
      /\ Alive' = Alive
  BY <1>1, <1>2 DEF Alive, In
<1>4. ClientTypes'
  BY <1>1, <1>3 DEF ClientInv, ClientTypes
<1>5. Calm => bev # NULL
  BY <1>1, DispatchingRuns, CalmNotLate DEF ClientInv, CurrentInv
<1>6. CurrentInv'
  BY <1>1, <1>3, <1>5 DEF ClientInv, CurrentInv, Calm
<1>7. ExitInv'
  BY <1>1, <1>5, CalmNotLate DEF ClientInv, ExitInv
<1> QED BY <1>1, <1>4, <1>6, <1>7 DEF ClientInv, RunsInv, ConnectedInv

(* The timer finds nothing under way: what there was is up, and then       *)
(* m_connected is set, or it was freed.                                    *)
LEMMA AddBufEventIInv ==
  ASSUME ClientInv, Dispatching, AddBufEvent, "slow" \in may \/ In("connecting") = {}
  PROVE  ClientInv'
<1> DEFINE n == Min(In("free"))
<1>1. n \in BevIds /\ bevs[n] = "free"
  <2>1. In("free") \subseteq BevIds
    BY DEF In
  <2>2. n \in In("free")
    BY <2>1, MinFree DEF AddBufEvent
  <2> QED BY <2>2 DEF In
<1>2. /\ ~m_connected /\ bev' = n /\ bevs' = [bevs EXCEPT ![n] = "connecting"]
      /\ UNCHANGED <<m_running, m_connected, m_sin, thread, caller, after, may, serverUp, crashed>>
  BY DEF AddBufEvent, appVars, envVars
<1> HIDE DEF n
<1>3. bevs \in [BevIds -> {"free", "connecting", "up", "lost", "pinged", "failed"}]
  BY DEF ClientInv, ClientTypes
<1>4. /\ bevs' \in [BevIds -> {"free", "connecting", "up", "lost", "pinged", "failed"}]
      /\ bevs'[n] = "connecting" /\ Alive' = Alive \cup {n}
  BY <1>1, <1>2, <1>3 DEF Alive, In
<1>5. ClientTypes'
  BY <1>2, <1>4 DEF ClientInv, ClientTypes
<1>6. CurrentInv'
  <2> SUFFICES ASSUME Calm PROVE Alive = {}
    BY <1>2, <1>4 DEF CurrentInv, Calm
  <2>1. Alive \subseteq {bev} /\ (bev = NULL \/ bevs[bev] = "connecting")
    BY <1>2, DispatchingRuns, CalmNotLate DEF ClientInv, CurrentInv
  <2>2. In("connecting") = {}
    BY DEF Calm
  <2> QED BY <2>1, <2>2 DEF Alive, In, BevIds
<1> QED BY <1>2, <1>5, <1>6 DEF ClientInv, RunsInv, ConnectedInv, ExitInv

LEMMA SignalEventIInv == ASSUME ClientInv, Dispatching, SignalEvent PROVE ClientInv'
<1>1. /\ "SIGINT" \in may /\ m_running' = FALSE /\ m_connected' = FALSE /\ thread' = "exiting"
      /\ UNCHANGED <<m_sin, bev, bevs, caller, after, may, serverUp, crashed>>
  BY DEF SignalEvent, appVars, envVars
<1>2. ClientTypes' /\ CurrentInv'
  BY <1>1 DEF ClientInv, ClientTypes, CurrentInv, Calm, Alive, In
<1> QED BY <1>1, <1>2 DEF ClientInv, RunsInv, ConnectedInv, ExitInv

LEMMA ThreadEndsIInv == ASSUME ClientInv, ThreadEnds PROVE ClientInv'
<1>1. /\ thread = "exiting" /\ thread' = "ended"
      /\ UNCHANGED <<m_running, m_connected, m_sin, bev, bevs, caller, after, may, serverUp, crashed>>
  BY DEF ThreadEnds, appVars, envVars
<1>2. ClientTypes' /\ CurrentInv'
  BY <1>1 DEF ClientInv, ClientTypes, CurrentInv, Calm, Alive, In
<1> QED BY <1>1, <1>2 DEF ClientInv, RunsInv, ConnectedInv, ExitInv

-----------------------------------------------------------------------------
LEMMA ConnectIInv == ASSUME ClientInv, NEW port \in Ports, Connect(port) PROVE ClientInv'
<1>1. caller = "idle" /\ UNCHANGED envVars
  BY DEF Connect
<1>2. CASE m_running
  BY <1>1, <1>2, CallStopIInv DEF Connect
<1>3. CASE ~m_running
  <2>1. thread \in {"none", "running", "exiting", "ended"} /\ thread # "running"
    BY <1>3 DEF ClientInv, ClientTypes, RunsInv
  <2>2. may = {} => thread # "exiting"
    BY <1>1 DEF ClientInv, ExitInv
  <2>3. MakeConnection(port, thread)
    BY <1>3 DEF Connect
  <2> QED BY <1>1, <2>1, <2>2, <2>3, MakeConnectionIInv
<1> QED BY <1>2, <1>3

LEMMA TestRunningIInv == ASSUME ClientInv, TestRunning PROVE ClientInv'
<1>1. caller = "testing" /\ UNCHANGED envVars
  BY DEF TestRunning
<1>2. CASE m_running
  <2>1. /\ caller' = "stopping"
        /\ UNCHANGED <<m_running, m_connected, m_sin, bev, bevs, thread, after, may, serverUp,
                       crashed>>
    BY <1>1, <1>2 DEF TestRunning, envVars
  <2>2. ClientTypes' /\ CurrentInv'
    BY <2>1 DEF ClientInv, ClientTypes, CurrentInv, Calm, Alive, In
  <2> QED BY <1>1, <2>1, <2>2 DEF ClientInv, RunsInv, ConnectedInv, ExitInv
<1>3. CASE ~m_running
  <2>1. thread \in {"none", "exiting", "ended"}
    BY <1>3 DEF ClientInv, ClientTypes, RunsInv
  <2>2. may = {} => thread # "exiting"
    BY <1>1 DEF ClientInv, ExitInv
  <2>3. StopReturned(thread)
    BY <1>3 DEF TestRunning
  <2> QED BY <1>1, <1>3, <2>1, <2>2, <2>3, StopReturnedIInv
<1> QED BY <1>2, <1>3

LEMMA StopLoopIInv == ASSUME ClientInv, StopLoop PROVE ClientInv'
<1>1. /\ m_running' = FALSE /\ m_connected' = FALSE /\ caller' = "joining"
      /\ thread' = Exiting /\ caller = "stopping"
      /\ UNCHANGED <<m_sin, bev, bevs, after, crashed, may, serverUp>>
  BY DEF StopLoop, envVars
<1>2. thread' \in {"none", "exiting", "ended"}
  BY <1>1 DEF Exiting, ClientInv, ClientTypes
<1>3. ClientTypes' /\ CurrentInv'
  BY <1>1, <1>2 DEF ClientInv, ClientTypes, CurrentInv, Calm, Alive, In
<1> QED BY <1>1, <1>2, <1>3 DEF ClientInv, RunsInv, ConnectedInv, ExitInv

LEMMA JoinedIInv == ASSUME ClientInv, Joined PROVE ClientInv'
<1>1. thread = "ended" /\ caller = "joining" /\ UNCHANGED envVars /\ ~m_running
  BY DEF Joined, ClientInv, RunsInv
<1>2. StopReturned("none")
  BY DEF Joined
<1> QED BY <1>1, <1>2, StopReturnedIInv

LEMMA ServerIInv == ASSUME ClientInv, ServerGoes \/ ServerComes PROVE ClientInv'
<1>1. /\ bevs' = bevs \/ bevs' = [b \in BevIds |-> IF bevs[b] = "up" THEN "lost" ELSE bevs[b]]
      /\ serverUp' \in BOOLEAN
      /\ UNCHANGED <<m_running, m_connected, m_sin, bev, thread, caller, after, may, crashed>>
  BY DEF ServerGoes, ServerComes, appVars
<1>2. bevs \in [BevIds -> {"free", "connecting", "up", "lost", "pinged", "failed"}]
  BY DEF ClientInv, ClientTypes
<1>3. /\ bevs' \in [BevIds -> {"free", "connecting", "up", "lost", "pinged", "failed"}]
      /\ Alive' = Alive /\ \A b \in BevIds : bevs[b] = "connecting" => bevs'[b] = "connecting"
  BY <1>1, <1>2 DEF Alive, In
<1>4. ClientTypes'
  BY <1>1, <1>3 DEF ClientInv, ClientTypes
<1>5. CurrentInv'
  <2>1. bev \in BevIds \cup {NULL}
    BY DEF ClientInv, ClientTypes, Alive
  <2> QED BY <1>1, <1>3, <2>1 DEF ClientInv, CurrentInv, Calm
<1> QED BY <1>1, <1>4, <1>5 DEF ClientInv, RunsInv, ConnectedInv, ExitInv

LEMMA NextClientInv == ClientInv /\ [ClientNext]_clientVars => ClientInv'
<1> SUFFICES ASSUME ClientInv, [ClientNext]_clientVars PROVE ClientInv'
  OBVIOUS
<1>1. CASE UNCHANGED clientVars
  <2>1. ClientTypes' /\ CurrentInv'
    BY <1>1 DEF ClientInv, ClientTypes, CurrentInv, Calm, Alive, In, clientVars, appVars, envVars
  <2> QED BY <1>1, <2>1 DEF ClientInv, RunsInv, ConnectedInv, ExitInv, clientVars, appVars, envVars
<1>2. CASE Callbacks
  BY <1>2, ConnectedEventIInv, ErrorEventIInv, ReadEventIInv, PingIInv, AddBufEventIInv,
     SignalEventIInv, ThreadEndsIInv DEF Callbacks, BevEvent, ConnectCb
<1>3. CASE \E port \in Ports : Connect(port)
  BY <1>3, ConnectIInv
<1>4. CASE Stop \/ Destructor
  BY <1>4, CallStopIInv DEF Stop, Destructor
<1>5. CASE TestRunning \/ StopLoop \/ Joined \/ ServerGoes \/ ServerComes
  BY <1>5, TestRunningIInv, StopLoopIInv, JoinedIInv, ServerIInv
<1> QED BY <1>1, <1>2, <1>3, <1>4, <1>5 DEF ClientNext

LEMMA Invariance == ClientSpec => []ClientInv
BY InitClientInv, NextClientInv, PTL DEF ClientSpec

(* bev is NULL or a bufferevent that was not freed, whatever disturbs.     *)
(* (daq/src/EventClient.cc, removeBufEvent, addBufEvent and Cleanup)       *)
THEOREM ClientTypeOK == ClientSpec => []ClientTypes
<1>1. ClientInv => ClientTypes
  BY DEF ClientInv
<1> QED BY <1>1, Invariance, PTL

(* One connection or attempt at a time, none left behind, as long as no    *)
(* attempt outlasts the timer and no callback runs after Stop.             *)
(* (daq/src/EventClient.cc, connect_cb and buffer_eventcb)                 *)
THEOREM ClientOneConnection == ClientSpec => []OneConnection
<1>1. ClientInv => OneConnection
  <2> SUFFICES ASSUME ClientInv, Calm PROVE Cardinality(Alive) <= 1
    BY DEF OneConnection, Calm
  <2>1. Alive \in SUBSET {bev}
    BY DEF ClientInv, CurrentInv
  <2>2. IsFiniteSet({bev}) /\ Cardinality({bev}) = 1
    BY FS_Singleton
  <2> QED BY <2>1, <2>2, FS_Subset
<1> QED BY <1>1, Invariance, PTL

(* Nothing is used that is NULL or freed, as long as nothing disturbs.     *)
(* (daq/src/EventClient.cc, all callbacks, Stop and Cleanup)               *)
THEOREM ClientNoCrash == ClientSpec => []NoCrash
<1>1. ClientInv => NoCrash
  BY DEF ClientInv, ExitInv, NoCrash
<1> QED BY <1>1, Invariance, PTL

(* A port is refused only by a client that runs, unless a callback runs    *)
(* late.                                                                   *)
(* (daq/src/EventClient.cc, Connect)                                       *)
THEOREM ClientRefusedMeansConnected == ClientSpec => []RefusedMeansConnected
<1>1. ClientInv => RefusedMeansConnected
  BY DEF ClientInv, ConnectedInv, RefusedMeansConnected, Refused
<1> QED BY <1>1, Invariance, PTL
=============================================================================
