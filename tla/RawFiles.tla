------------------------------ MODULE RawFiles ------------------------------
(***************************************************************************)
(* Raw data files from their writer to their reader: EventEncoder in one   *)
(* program, the sequential caller of EventDecoder in another, the disk     *)
(* between them.  Some files are there from earlier runs; the others are   *)
(* written meanwhile, and the reader may open one that is still written,   *)
(* or whose writer died.                                                   *)
(***************************************************************************)
EXTENDS FileReader

CONSTANTS FootMod, MaxEvents,    \* see EventEncoder
          Old                    \* the files written earlier

ASSUME RawFilesAssumption ==
  /\ FootMod \in Nat \ {0} /\ MaxEvents \in Nat
  /\ Old \subseteq Files
  /\ \A f \in Files \ Old : Disk[f] = [evs |-> <<>>, whole |-> Short, foot |-> NoFoot]
  /\ \A f \in Old : Disk[f].foot \in {NoFoot, Len(Disk[f].evs) % FootMod}

VARIABLES made, fOut, mixed, written    \* written: m_totev of the encoder

Writer == INSTANCE EventEncoder WITH m_totev <- written

writeVars == <<made, fOut, mixed, written>>
rawVars   == <<readerVars, writeVars>>

decoderVars == <<m_file, pos, m_events, m_totev, m_evh, m_EndFootBuf, own, rval, last, far>>

WriterStep == /\ Writer!Next
              /\ UNCHANGED decoderVars

(* The user opens any file but those whose writer encoded frames while it  *)
(* wrote them: frames take numbers from the same counter, and the footer   *)
(* of such a file promises events that are not there.                      *)
ReaderStep ==
  /\ \/ \E f \in made \ mixed : Open(f) /\ Restart
     \/ OpenFails /\ Restart
     \/ Close /\ Restart
     \/ \E k \in 0 .. MaxRequest : ReaderGet(k)
  /\ UNCHANGED writeVars

RawInit == /\ ReaderInit
           /\ made = Old /\ fOut = NoFile /\ written = 0 /\ mixed = {}

RawNext == WriterStep \/ ReaderStep
RawSpec == RawInit /\ [][RawNext]_rawVars

-----------------------------------------------------------------------------
(* Event k of a file that its writer has closed is the k-th one that was   *)
(* written to it, and it carries that number.                              *)
(* (daq/src/EventDecoder.cc, GetEvent; daq/src/EventEncoder.cc, WriteEvent)*)
ReadAsWritten == (rval >= 0 /\ own /\ m_file \notin Old) => m_evh = rval

(* A footer that Open read from its file was written by Close, so nothing  *)
(* writes the file any more, and all its events are offered, as many as    *)
(* the footer can count: of a file with FootMod events or more it offers   *)
(* their number modulo FootMod, and one with exactly FootMod is refused as *)
(* empty.                                                                  *)
(* (daq/src/EventEncoder.cc:71, "write out total number of events", and    *)
(* :252, "total number of events for footer"; EventDecoder.cc, Open)       *)
AllEventsOffered ==
  own => /\ m_file # fOut
         /\ m_totev = Len(disk[m_file].evs) % FootMod
         /\ Stored(m_file) = Len(disk[m_file].evs)
=============================================================================
