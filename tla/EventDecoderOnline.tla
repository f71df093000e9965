------------------------- MODULE EventDecoderOnline -------------------------
(***************************************************************************)
(* Events over the network: dlardaq::EventDecoder fed by the dispatch      *)
(* thread of EventClient (daq/src/EventDecoder.cc, ReadBuffer) and polled  *)
(* by the thread of the display (datautils/src/EventDataManager.cc,        *)
(* GetOnlineEvent).                                                        *)
(*                                                                         *)
(* A frame is a run header, an event header and the event data.  TCP keeps *)
(* the order of its units, but the client reads chunks whose borders have  *)
(* nothing to do with those of the frames.  ReadBuffer holds m_data_mutex  *)
(* from end to end and is one action; GetOnlineEvent takes it for the copy *)
(* only, and is three.                                                     *)
(***************************************************************************)
EXTENDS Integers, Sequences

CONSTANTS NEvents,      \* events sent are 1 .. NEvents, in this order
          Size,         \* Size[e]: data units of event e, its ev_size
          Run,          \* Run[e]: run number in the run header of its frame
          MaxInFlight,  \* bound: units in the socket at any time
          MaxReconnects,\* bound: connections made after the first one
          FalseKeys     \* data units that look like a frame at a chunk's start

ASSUME OnlineAssumption ==
  /\ NEvents \in Nat
  /\ Size \in [1 .. NEvents -> Nat]
  /\ Run \in [1 .. NEvents -> Nat]
  /\ MaxInFlight \in Nat /\ MaxReconnects \in Nat

ASSUME FalseKeysAssumption ==
  \A u \in FalseKeys : u.ev \in 1 .. NEvents /\ u.part \in 1 .. Size[u.ev]

Events  == 1 .. NEvents
NoAdc   == <<>>
Unknown == 0            \* event and run number before anything was decoded,
                        \* or decoded from bytes that are no header

(* The units of event e on the wire, and the data among them. *)
Unit(e, i) == [ev |-> e, part |-> i]
RunHead(e) == Unit(e, -1)
EveHead(e) == Unit(e, 0)
Data(e)    == [i \in 1 .. Size[e] |-> Unit(e, i)]
Frame(e)   == <<RunHead(e), EveHead(e)>> \o Data(e)

VARIABLES
  stream, sent, reconnects,                       \* the connection
  m_bytes_left, m_EveDataBuf, m_EveData, m_evh, m_rnh,  \* the decoder
  expired,        \* more than TMAXWAIT seconds since Timer::start()
  aborted,        \* the program died of undefined behaviour
  pc, eh, adc,    \* GetOnlineEvent: where it is and its local copies
  fEvtHead, fQData, fRunHead                      \* the event on display

netVars  == <<stream, sent, reconnects>>
decVars  == <<m_bytes_left, m_EveDataBuf, m_EveData, m_evh, m_rnh, expired, aborted>>
pollVars == <<pc, eh, adc, fEvtHead, fQData, fRunHead>>
vars     == <<netVars, decVars, pollVars>>

-----------------------------------------------------------------------------
(* The server hands whole frames to a connection, one after the other. *)
Send(e) ==
  /\ e = sent + 1
  /\ Len(stream) + Size[e] + 2 <= MaxInFlight
  /\ stream' = stream \o Frame(e)
  /\ sent' = e
  /\ UNCHANGED <<reconnects, decVars, pollVars>>

(* What was in flight is lost; the decoder is not told.  (EventClient:     *)
(* removeBufEvent, later addBufEvent; or Connect of another server)        *)
Reconnect ==
  /\ reconnects < MaxReconnects
  /\ reconnects' = reconnects + 1
  /\ stream' = <<>>
  /\ UNCHANGED <<sent, decVars, pollVars>>

TimePasses ==
  /\ ~expired
  /\ expired' = TRUE
  /\ UNCHANGED <<netVars, m_bytes_left, m_EveDataBuf, m_EveData, m_evh, m_rnh,
                 aborted, pollVars>>

-----------------------------------------------------------------------------
(* ReadBuffer(c): the branch for a new event, or the one that appends *)
Waiting == m_bytes_left <= 0 \/ expired

(* EVSKEY EVSKEY right after the size of a run header *)
IsFirstPacket(c) == /\ Len(c) >= 2
                    /\ \E e \in Events : c[1] = RunHead(e) /\ c[2] = EveHead(e)

Consume(c) == stream' = SubSeq(stream, Len(c) + 1, Len(stream))

(* Bug form of StartEvent: what is left of the last event is kept. *)
StartEventKeepsBuffer(evh, rnh, size, rest) ==
  /\ m_rnh' = rnh
  /\ m_evh' = evh
  /\ m_EveData' = NoAdc
  /\ m_bytes_left' = size - Len(rest)
  /\ m_EveDataBuf' = m_EveDataBuf \o rest
  /\ expired' = IF size = 0 THEN expired ELSE FALSE
  /\ UNCHANGED aborted

(* The header gives the size; what follows it in the chunk is data.  When  *)
(* that is all the data, nothing decodes it.                               *)
StartEvent(evh, rnh, size, rest) ==
  /\ m_rnh' = rnh
  /\ m_evh' = evh
  /\ m_EveData' = NoAdc
  /\ IF size = 0
       THEN /\ m_bytes_left' = 0
            /\ m_EveDataBuf' = <<>>
            /\ UNCHANGED expired
       ELSE /\ m_bytes_left' = size - Len(rest)
            /\ m_EveDataBuf' = rest
            /\ expired' = FALSE
  /\ UNCHANGED aborted

FirstPacket(c) ==
  /\ Waiting
  /\ IsFirstPacket(c)
  /\ Consume(c)
  /\ LET e == c[1].ev IN StartEvent(e, Run[e], Size[e], SubSeq(c, 3, Len(c)))
  /\ UNCHANGED <<sent, reconnects, pollVars>>

(* Data that holds the key where a frame has it: any size may be read. *)
FalsePacket(c) ==
  /\ Waiting
  /\ c[1] \in FalseKeys /\ Len(c) >= 2
  /\ Consume(c)
  /\ \E size \in {Size[e] : e \in Events} :
       StartEvent(Unknown, Unknown, size, SubSeq(c, 3, Len(c)))
  /\ UNCHANGED <<sent, reconnects, pollVars>>

(* Bug form of OtherPacket: dropped bytes are counted as received ones. *)
OtherPacketCounts(c) ==
  /\ Waiting
  /\ ~IsFirstPacket(c)
  /\ c[1] \notin FalseKeys \/ Len(c) < 2
  /\ Consume(c)
  /\ m_EveDataBuf' = <<>>
  /\ m_EveData' = NoAdc
  /\ m_bytes_left' = m_bytes_left - Len(c)
  /\ UNCHANGED <<sent, reconnects, m_evh, m_rnh, expired, aborted, pollVars>>

OtherPacket(c) ==
  /\ Waiting
  /\ ~IsFirstPacket(c)
  /\ c[1] \notin FalseKeys \/ Len(c) < 2
  /\ Consume(c)
  /\ m_EveDataBuf' = <<>>
  /\ m_EveData' = NoAdc
  /\ UNCHANGED <<sent, reconnects, m_bytes_left, m_evh, m_rnh, expired, aborted,
                 pollVars>>

(* A chunk that ends before the event header does: the key is looked for   *)
(* beyond its end, in what the stack buffer held before.  When it happens  *)
(* to be there, pdata + nb - nb_read lies before pdata.                    *)
ShortPacket(c) ==
  /\ Waiting
  /\ Len(c) = 1 /\ \E e \in Events : c[1] = RunHead(e)
  /\ aborted' = TRUE
  /\ UNCHANGED <<netVars, m_bytes_left, m_EveDataBuf, m_EveData, m_evh, m_rnh,
                 expired, pollVars>>

(* Bug form of AppendPacket: a size mismatch is taken for a full event. *)
AppendPacketMismatch(c) ==
  /\ ~Waiting
  /\ Consume(c)
  /\ m_EveDataBuf' = m_EveDataBuf \o c
  /\ m_bytes_left' = m_bytes_left - Len(c)
  /\ m_EveData' = IF m_bytes_left' <= 0 THEN m_EveDataBuf' ELSE NoAdc
  /\ UNCHANGED <<sent, reconnects, m_evh, m_rnh, expired, aborted, pollVars>>

AppendPacket(c) ==
  /\ ~Waiting
  /\ Consume(c)
  /\ m_EveDataBuf' = m_EveDataBuf \o c
  /\ m_bytes_left' = m_bytes_left - Len(c)
  /\ m_EveData' = IF m_bytes_left' = 0 THEN m_EveDataBuf' ELSE NoAdc
  /\ UNCHANGED <<sent, reconnects, m_evh, m_rnh, expired, aborted, pollVars>>

ReadBuffer ==
  /\ ~aborted
  /\ \E n \in 1 .. Len(stream) :
       LET c == SubSeq(stream, 1, n)
       IN  FirstPacket(c) \/ FalsePacket(c) \/ OtherPacket(c) \/ ShortPacket(c)
             \/ AppendPacket(c)

-----------------------------------------------------------------------------
(* GetEvent(eh, adc): `if( m_EveData.empty() ) return -1' without the lock *)
SeesEvent ==
  /\ pc = "idle"
  /\ m_EveData # NoAdc
  /\ pc' = "checked"
  /\ UNCHANGED <<netVars, decVars, eh, adc, fEvtHead, fQData, fRunHead>>

(* the copy under the lock *)
TakesEvent ==
  /\ pc = "checked"
  /\ eh' = m_evh
  /\ adc' = m_EveData
  /\ m_EveData' = NoAdc
  /\ pc' = "taken"
  /\ UNCHANGED <<netVars, m_bytes_left, m_EveDataBuf, m_evh, m_rnh, expired,
                 aborted, fEvtHead, fQData, fRunHead>>

(* GetRunHeader() without the lock, then RawDataFormatUtil::FillEvent: it  *)
(* sets the header and overwrites as many samples as there are in adc      *)
FillsEvent ==
  /\ pc = "taken"
  /\ fRunHead' = m_rnh
  /\ fEvtHead' = eh
  /\ fQData' = IF adc = NoAdc THEN fQData ELSE adc
  /\ pc' = "idle"
  /\ UNCHANGED <<netVars, decVars, eh, adc>>

GetOnlineEvent == ~aborted /\ (SeesEvent \/ TakesEvent \/ FillsEvent)

-----------------------------------------------------------------------------
Init ==
  /\ stream = <<>> /\ sent = 0 /\ reconnects = 0
  /\ m_bytes_left = 0 /\ m_EveDataBuf = <<>> /\ m_EveData = NoAdc
  /\ m_evh = Unknown /\ m_rnh = Unknown
  /\ expired = FALSE /\ aborted = FALSE
  /\ pc = "idle" /\ eh = Unknown /\ adc = NoAdc
  /\ fEvtHead = Unknown /\ fQData = NoAdc /\ fRunHead = Unknown

Next == (\E e \in Events : Send(e)) \/ Reconnect \/ TimePasses
          \/ ReadBuffer \/ GetOnlineEvent

Spec == Init /\ [][Next]_vars

-----------------------------------------------------------------------------
TypeOK ==
  /\ sent \in 0 .. NEvents /\ reconnects \in 0 .. MaxReconnects
  /\ m_bytes_left \in Int /\ m_bytes_left >= -MaxInFlight
  /\ m_evh \in Events \cup {Unknown} /\ m_rnh \in Nat
  /\ expired \in BOOLEAN /\ aborted \in BOOLEAN
  /\ pc \in {"idle", "checked", "taken"}
  /\ eh \in Events \cup {Unknown}
  /\ fEvtHead \in Events \cup {Unknown} /\ fRunHead \in Nat

(* The event whose data d are, whole and in order; 0 for no data, -1 for   *)
(* data that are no event's.                                               *)
WholeEvent(d) ==
  CASE d = NoAdc -> 0
    [] d # NoAdc /\ (\E e \in Events : d = Data(e)) -> d[1].ev
    [] d # NoAdc /\ (\A e \in Events : d # Data(e)) -> -1

(* A data unit that looks like a frame has left the socket, or a           *)
(* connection has ended with units in it.                                  *)
Rough == \/ reconnects > 0
         \/ \E u \in FalseKeys : u.ev <= sent /\ \A i \in DOMAIN stream : stream[i] # u

(* The samples on display: nothing, then whole events, each later than the *)
(* one before, so none is shown twice or after a later one.  That is kept  *)
(* until a connection is lost or data are taken for a frame; from then on  *)
(* nothing of the kind is promised, and the display counts as having seen  *)
(* the last event.                                                         *)
Feed == INSTANCE EventFeed WITH given <- IF Rough THEN NEvents ELSE WholeEvent(fQData)
FeedSpec == Feed!Spec

(* What ReadBuffer stores for the display is the whole data of one event,  *)
(* the one m_evh is the header of: as long as there was one connection,    *)
(* and under every header that is one.  The rest of an event that a        *)
(* reconnection cut off is taken from the next frame, and data that look   *)
(* like a frame give a header that is none.                                *)
(* (daq/src/EventDecoder.cc:278, "we assume that the buffer is run header  *)
(* + event header + event data but it can come in different packets", and  *)
(* :385, "detect new event key after run header")                          *)
StoredIsWhole ==
  (reconnects = 0 /\ m_evh # Unknown /\ m_EveData # NoAdc) => WholeEvent(m_EveData) = m_evh

(* Whatever happens to connections and keys, what is stored is as many     *)
(* bytes as the header said.  (They may hold fewer samples, see WireEvent.) *)
(* (daq/src/EventDecoder.cc, m_bytes_left)                                 *)
StoredHasSize ==
  (m_EveData # NoAdc /\ m_evh # Unknown) => Len(m_EveData) = Size[m_evh]

(* A frame that comes in one packet is an event that is stored.            *)
(* (daq/src/EventDecoder.cc:278, the same sentence)                        *)
WholeFrameStored ==
  [][\A e \in Events :
       (Size[e] > 0 /\ Waiting /\ ReadBuffer /\ ~aborted' /\ stream = Frame(e) \o stream')
         => m_EveData' = Data(e)]_vars

(* Header and samples on display are of the same event.                    *)
(* (daq/src/EventDecoder.cc:4, "The general idea is to try to make this    *)
(* object threadsave when possible")                                       *)
HeaderMatchesData == fQData # NoAdc => WholeEvent(fQData) = fEvtHead
=============================================================================
