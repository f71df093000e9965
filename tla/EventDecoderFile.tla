-------------------------- MODULE EventDecoderFile --------------------------
(***************************************************************************)
(* dlardaq::EventDecoder reading a raw data file (daq/src/EventDecoder.cc).*)
(*                                                                         *)
(* A raw file is a run header, whole events one after the other and a      *)
(* footer with the number of events.  The decoder has one stream and a     *)
(* vector m_events of bookmarks.  An event it has a bookmark for is read   *)
(* by seeking to it; for any other one the decoder walks on from WHEREVER  *)
(* THE STREAM IS, reading headers, and bookmarks what it meets.            *)
(*                                                                         *)
(* No read is checked: one that fails leaves the bytes of an earlier one   *)
(* in its buffer, and these are decoded again.  So a file that is shorter  *)
(* than its run header is opened with the footer of the last file that was *)
(* longer, and its "events" have the header that was read last.            *)
(*                                                                         *)
(* A stream position is the number of whole events before it; Eof stands   *)
(* for a stream whose failbit is set, which no seek repairs.               *)
(***************************************************************************)
EXTENDS Integers, Sequences

CONSTANTS Files,      \* names of raw data files
          Disk,       \* their contents at first, a function on Files
          NoFile,     \* m_file is not open
          NoEvent,    \* the zeroed header decode_evehead leaves without a key
          CutEvent,   \* the header, or part of it, of an event not all on disk
          Chance,     \* counts a footer is taken to hold where data look like one
          MaxRequest  \* bound: the largest event index a caller asks for

Eof    == -1
NoFoot == -1          \* the last four bytes hold no ENDKEY ENDKEY
Short  == -1          \* of the run header, too, bytes are missing

(* Every event is a real one; a footer is written after all events are on  *)
(* disk, and promises none that is not there (see EventEncoder: its 16 bit *)
(* count may promise fewer).                                               *)
ASSUME DiskAssumption ==
  /\ MaxRequest \in Nat
  /\ NoFile \notin Files
  /\ NoEvent \notin Int /\ CutEvent \notin Int
  /\ Chance \subseteq Nat
  /\ Disk \in [Files -> [evs : Seq(Int), whole : Int, foot : Int]]
  /\ \A f \in Files :
       /\ Disk[f].whole \in Short .. Len(Disk[f].evs)
       /\ Disk[f].foot \in NoFoot .. Len(Disk[f].evs)
       /\ Disk[f].foot # NoFoot => Disk[f].whole = Len(Disk[f].evs)

VARIABLES disk,       \* contents of the files, never changed by the decoder
          m_file,     \* the open file, or NoFile
          pos,        \* tellg(): events before the stream position
          m_events,   \* bookmarks: m_events[k+1] is where event k begins
          m_totev,    \* events the open file offers
          m_evh,      \* header of the event decoded last, and of m_EveHeadBuf
          m_EndFootBuf, \* the count in the footer that was read last, or NoFoot
          own,        \* history: Open read the footer its writer gave the file
          rval        \* what the last GetEvent returned, -1 for none

vars == <<disk, m_file, pos, m_events, m_totev, m_evh, m_EndFootBuf, own, rval>>

(* disk[f].evs are the events written to f, of which disk[f].whole are on  *)
(* disk as a whole, and disk[f].foot is the count in its footer.           *)
Stored(f)     == disk[f].whole
EventAt(f, p) == IF p \in 0 .. Stored(f) - 1 THEN disk[f].evs[p + 1] ELSE NoEvent

(* The places behind the last whole event that a stream may be moved to:   *)
(* seekg past the end is no error, behind a header that is there.          *)
Beyond(f) == IF disk[f].foot = NoFoot THEN {Stored(f), Stored(f) + 1} ELSE {Stored(f)}

(* Where the stream is after i more events were skipped from position p,   *)
(* when the farthest place it may be moved to is `end'.                    *)
Skip(p, i, end) == IF p # Eof /\ p + i <= end THEN p + i ELSE Eof

(* and after the event at p was read, *)
After(f, p) == IF p # Eof /\ p < Stored(f) THEN p + 1 ELSE Eof

(* Headers that may be in m_EveHeadBuf after n events were skipped from p  *)
(* and one was read: behind the events there is a footer, or part of one   *)
(* more event; and if nothing is left to read the buffer stays as it is.   *)
Headers(f, p, n) ==
  IF p = Eof THEN {m_evh}
  ELSE IF p + n < Stored(f) THEN {EventAt(f, p + n)}
  ELSE IF disk[f].foot # NoFoot THEN {NoEvent}
  ELSE {CutEvent, IF p < Stored(f) THEN EventAt(f, Stored(f) - 1) ELSE m_evh}

(* seekg does not clear failbit. *)
Seek(p) == IF pos = Eof THEN Eof ELSE p

(* What Open may find in m_EndFootBuf: what was there before if the stream *)
(* failed at the run header, else the last four bytes of f, which in an    *)
(* unfinished file are data.                                               *)
Footers(f) ==
  IF Stored(f) = Short THEN {m_EndFootBuf}
  ELSE IF disk[f].foot # NoFoot THEN {disk[f].foot}
  ELSE Chance \cup {NoFoot}

(* Bug form of CountIn: without ENDKEY ENDKEY the count is not reset. *)
CountInNotReset(foot) == foot

(* decode_filefoot(): the number of events is zero without ENDKEY ENDKEY   *)
CountIn(foot) == IF foot = NoFoot THEN 0 ELSE foot

-----------------------------------------------------------------------------
Closed == /\ m_file' = NoFile
          /\ m_totev' = 0
          /\ own' = FALSE

(* what Open does with the counts and the file *)
Counted(f, count) ==
  IF count = 0
    THEN Closed
    ELSE /\ m_file' = f /\ m_totev' = count
         /\ own' = (Stored(f) # Short /\ disk[f].foot # NoFoot)

(* Bug form of Open: the bookmarks of the previous file are kept. *)
OpenKeepsBookmarks(f) ==
  /\ m_EndFootBuf' \in Footers(f)
  /\ Counted(f, CountIn(m_EndFootBuf'))
  /\ pos' = IF Stored(f) = Short THEN Eof ELSE 0
  /\ rval' = -1
  /\ UNCHANGED <<disk, m_evh, m_events>>

Open(f) ==
  /\ m_EndFootBuf' \in Footers(f)
  /\ Counted(f, CountIn(m_EndFootBuf'))
  /\ pos' = IF Stored(f) = Short THEN Eof ELSE 0
  /\ m_events' = <<>>
  /\ rval' = -1
  /\ UNCHANGED <<disk, m_evh>>

OpenFails ==
  /\ Closed
  /\ m_events' = <<>>
  /\ pos' = 0
  /\ rval' = -1
  /\ UNCHANGED <<disk, m_evh, m_EndFootBuf>>

Close ==
  /\ m_file # NoFile
  /\ Closed
  /\ rval' = -1
  /\ UNCHANGED <<disk, pos, m_events, m_evh, m_EndFootBuf>>

(* an event with a bookmark: seek, read *)
ReadKnown(evnum) ==
  LET start == Seek(m_events[evnum + 1])
  IN  /\ m_evh' \in Headers(m_file, start, 0)
      /\ pos' = After(m_file, start)
      /\ UNCHANGED m_events

(* Bug form of ReadAhead: a bookmark is taken after its event is read. *)
ReadAheadLate(evnum) ==
  LET n == evnum - Len(m_events)
  IN  \E end \in Beyond(m_file) :
        /\ m_events' = m_events \o [i \in 1 .. n + 1 |-> Skip(pos, i, end)]
        /\ m_evh' \in Headers(m_file, pos, n)
        /\ pos' = After(m_file, Skip(pos, n, end))

(* any other event: walk on, bookmark every event up to evnum, read that one *)
ReadAhead(evnum) ==
  LET n == evnum - Len(m_events)
  IN  \E end \in Beyond(m_file) :
        /\ m_events' = m_events \o [i \in 1 .. n + 1 |-> Skip(pos, i - 1, end)]
        /\ m_evh' \in Headers(m_file, pos, n)
        /\ pos' = After(m_file, Skip(pos, n, end))

GetEvent(evnum) ==
  /\ UNCHANGED <<disk, m_file, m_totev, m_EndFootBuf, own>>
  /\ IF m_file = NoFile \/ evnum \notin 0 .. m_totev - 1  \* a negative one wraps
       THEN rval' = -1 /\ UNCHANGED <<pos, m_events, m_evh>>
       ELSE /\ rval' = evnum
            /\ IF evnum < Len(m_events) THEN ReadKnown(evnum) ELSE ReadAhead(evnum)

-----------------------------------------------------------------------------
Init ==
  /\ disk = Disk
  /\ m_file = NoFile
  /\ pos = 0
  /\ m_events = <<>>
  /\ m_totev = 0
  /\ m_evh = NoEvent
  /\ m_EndFootBuf = NoFoot
  /\ own = FALSE
  /\ rval = -1

Next == \/ \E f \in Files : Open(f)
        \/ OpenFails
        \/ Close
        \/ \E k \in 0 .. MaxRequest : GetEvent(k)

-----------------------------------------------------------------------------
(* The shape of the state, for a disk whose files hold integer event       *)
(* numbers.                                                                *)
TypeOK ==
  /\ m_file \in Files \cup {NoFile}
  /\ pos \in Nat \cup {Eof}
  /\ m_events \in Seq(Nat \cup {Eof})
  /\ m_totev \in Nat
  /\ m_evh \in Int \cup {NoEvent, CutEvent}
  /\ m_EndFootBuf \in Nat \cup {NoFoot}
  /\ own \in BOOLEAN
  /\ rval \in -1 .. MaxRequest

(* What a caller of GetEvent(k) relies on: of a file that its writer had   *)
(* closed before it was opened, the event it is given is the k-th one,     *)
(* whatever was opened before and however it ended.                        *)
RightEvent ==
  (rval >= 0 /\ own) => (m_evh = EventAt(m_file, rval) /\ m_evh # NoEvent)

(* In such a file bookmark k is the place where event k begins, and none   *)
(* is taken on a stream that failed.                                       *)
BookmarksExact ==
  own => \A k \in 1 .. Len(m_events) : m_events[k] = k - 1

(* The event GetEvent(k) returns belongs to the open file: not so when     *)
(* Open, which checks no read, took the footer of the file before it for   *)
(* that of one whose run header is not on disk yet.                        *)
(* (daq/inc/EventDecoder.h:41, "get a given event from file")              *)
EventOfFile ==
  rval >= 0 => \E i \in DOMAIN disk[m_file].evs : m_evh = disk[m_file].evs[i]
=============================================================================
