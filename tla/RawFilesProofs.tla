--------------------------- MODULE RawFilesProofs ---------------------------
(***************************************************************************)
(* What is proved of raw data files: of their decoder in the hands of a    *)
(* caller that does not jump (FileReader), of files that are read while    *)
(* others are written, or after their writer died (RawFiles), and of the   *)
(* event display (RawViewer).  For any files, of any length, for any       *)
(* counts that data may look like, a footer's counter of any width, and    *)
(* any playback step.                                                      *)
(***************************************************************************)
EXTENDS RawFiles, RawViewer, SequenceTheorems, TLAPS

USE DiskAssumption DEF DiskAssumption, Eof, NoFoot, Short

-----------------------------------------------------------------------------
(* The decoder *)

(* A file as it may be while it is written,                                *)
FileOK(f) == /\ disk[f].evs \in Seq(Int)
             /\ disk[f].whole \in Short .. Len(disk[f].evs)
             /\ disk[f].foot \in Nat \cup {NoFoot}

(* and one whose footer, if it has one, promises no event that is not      *)
(* there.                                                                  *)
GoodFile(f) == /\ FileOK(f)
               /\ disk[f].foot # NoFoot => /\ disk[f].whole = Len(disk[f].evs)
                                           /\ disk[f].foot <= disk[f].whole

(* The open file is the closed one that its footer was read from.          *)
OwnFile == /\ m_file \in Files /\ GoodFile(m_file) /\ disk[m_file].foot # NoFoot
           /\ m_totev = disk[m_file].foot

(* What holds of the decoder whatever its caller does.                     *)
DecoderInv ==
  /\ TypeOK
  /\ m_file # NoFile => FileOK(m_file)
  /\ m_file = NoFile => rval = -1
  /\ own => OwnFile

(* Whole events are real ones.                                             *)
LEMMA StoredNat == ASSUME NEW f \in Files, FileOK(f)
                   PROVE  /\ Stored(f) \in Nat \cup {Short}
                          /\ \A p \in 0 .. Stored(f) - 1 :
                               /\ EventAt(f, p) \in Int
                               /\ EventAt(f, p) # NoEvent
                          /\ \A p : EventAt(f, p) \in Int \cup {NoEvent}
<1>1. Stored(f) \in Nat \cup {Short} /\ Stored(f) <= Len(disk[f].evs)
  BY DEF Stored, FileOK
<1>2. ASSUME NEW p \in 0 .. Stored(f) - 1 PROVE disk[f].evs[p + 1] \in Int
  <2>1. disk[f].evs \in Seq(Int)
    BY DEF FileOK
  <2> DEFINE evs == disk[f].evs
             s == Stored(f)
  <2> HIDE DEF evs, s
  <2>2. s \in Nat \cup {Short} /\ s <= Len(evs) /\ evs \in Seq(Int) /\ p \in 0 .. s - 1
    BY <1>1, <2>1 DEF evs, s
  <2>3. p + 1 \in 1 .. Len(evs)
    BY <2>2
  <2>4. evs[p + 1] \in Int
    BY <2>2, <2>3
  <2> QED BY <2>4 DEF evs
<1> QED BY <1>1, <1>2 DEF EventAt

(* What a failed or cut read leaves behind is a header all the same.       *)
LEMMA HeadersTyped ==
  ASSUME TypeOK, NEW f \in Files, FileOK(f), NEW p, NEW n
  PROVE  Headers(f, p, n) \subseteq Int \cup {NoEvent, CutEvent}
<1>1. \A q : EventAt(f, q) \in Int \cup {NoEvent}
  BY StoredNat
<1>2. m_evh \in Int \cup {NoEvent, CutEvent}
  BY DEF TypeOK
<1>3. CASE p = Eof
  BY <1>2, <1>3 DEF Headers
<1>4. CASE p # Eof
  BY <1>1, <1>2, <1>4 DEF Headers
<1> QED BY <1>3, <1>4

(* Positions stay positions.                                               *)
LEMMA PlacesTyped ==
  ASSUME NEW f \in Files, FileOK(f), NEW p \in Nat \cup {Eof}
  PROVE  /\ After(f, p) \in Nat \cup {Eof}
         /\ \A n \in Nat : \A end : Skip(p, n, end) \in Nat \cup {Eof}
<1>1. Stored(f) \in Int
  BY DEF FileOK, Stored
<1> QED BY <1>1 DEF After, Skip

LEMMA KnownTypes ==
  ASSUME DecoderInv, NEW k \in 0 .. MaxRequest, m_file # NoFile, k < Len(m_events), ReadKnown(k)
  PROVE  /\ m_evh' \in Int \cup {NoEvent, CutEvent}
         /\ pos' \in Nat \cup {Eof} /\ m_events' \in Seq(Nat \cup {Eof})
<1>1. /\ m_file \in Files /\ FileOK(m_file) /\ TypeOK
      /\ m_events \in Seq(Nat \cup {Eof}) /\ Len(m_events) \in Nat
  BY DEF DecoderInv, TypeOK
<1> DEFINE start == Seek(m_events[k + 1])
<1>2. start \in Nat \cup {Eof}
  <2>1. k + 1 \in 1 .. Len(m_events)
    BY <1>1
  <2>2. m_events[k + 1] \in Nat \cup {Eof}
    BY <1>1, <2>1
  <2> QED BY <2>2 DEF Seek
<1>3. m_evh' \in Headers(m_file, start, 0) /\ pos' = After(m_file, start) /\ m_events' = m_events
  BY DEF ReadKnown
<1> HIDE DEF start
<1> QED BY <1>1, <1>2, <1>3, HeadersTyped, PlacesTyped

(* Bookmarks are added at the end.                                         *)
LEMMA Bookmarks ==
  ASSUME NEW s \in Seq(Nat \cup {Eof}), NEW n \in Nat, NEW at,
         \A i \in 1 .. n : at[i] \in Nat \cup {Eof},
         at = [i \in 1 .. n |-> at[i]]
  PROVE  /\ s \o at \in Seq(Nat \cup {Eof}) /\ Len(s \o at) = Len(s) + n
         /\ \A i \in 1 .. Len(s) : (s \o at)[i] = s[i]
         /\ \A i \in 1 .. n : (s \o at)[Len(s) + i] = at[i]
<1> DEFINE T == Nat \cup {Eof}
<1> HIDE DEF T
<1>1. at \in [1 .. n -> T]
  BY DEF T
<1>2. at \in Seq(T)
  BY <1>1, SeqDef
<1>3. Len(at) = n
  <2>1. DOMAIN at = 1 .. n /\ DOMAIN at = 1 .. Len(at) /\ Len(at) \in Nat
    BY <1>1, <1>2, LenProperties
  <2> QED BY <2>1
<1>4. s \in Seq(T)
  BY DEF T
<1>5. /\ s \o at \in Seq(T) /\ Len(s \o at) = Len(s) + n /\ Len(s) \in Nat
      /\ \A i \in 1 .. Len(s) + n : (s \o at)[i] = IF i <= Len(s) THEN s[i] ELSE at[i - Len(s)]
  BY <1>2, <1>3, <1>4
<1>6. \A i \in 1 .. n : (s \o at)[Len(s) + i] = at[i]
  <2> SUFFICES ASSUME NEW i \in 1 .. n PROVE (s \o at)[Len(s) + i] = at[i]
    OBVIOUS
  <2>1. /\ Len(s) + i \in 1 .. Len(s) + n /\ ~(Len(s) + i <= Len(s))
        /\ (Len(s) + i) - Len(s) = i
    BY <1>5
  <2> QED BY <1>5, <2>1
<1> QED BY <1>5, <1>6 DEF T

LEMMA AheadTypes ==
  ASSUME DecoderInv, NEW k \in 0 .. MaxRequest, m_file # NoFile, k >= Len(m_events), ReadAhead(k)
  PROVE  /\ m_evh' \in Int \cup {NoEvent, CutEvent}
         /\ pos' \in Nat \cup {Eof} /\ m_events' \in Seq(Nat \cup {Eof})
<1>1. /\ m_file \in Files /\ FileOK(m_file) /\ TypeOK /\ pos \in Nat \cup {Eof}
      /\ m_events \in Seq(Nat \cup {Eof}) /\ Len(m_events) \in Nat
  BY DEF DecoderInv, TypeOK
<1> DEFINE n == k - Len(m_events)
<1>2. n \in Nat /\ n + 1 \in Nat /\ \A i \in 1 .. n + 1 : i - 1 \in Nat
  BY <1>1
<1>3. PICK end \in Beyond(m_file) :
        /\ m_events' = m_events \o [i \in 1 .. n + 1 |-> Skip(pos, i - 1, end)]
        /\ m_evh' \in Headers(m_file, pos, n)
        /\ pos' = After(m_file, Skip(pos, n, end))
  BY DEF ReadAhead
<1> DEFINE at == [i \in 1 .. n + 1 |-> Skip(pos, i - 1, end)]
<1> HIDE DEF n
<1>4. Skip(pos, n, end) \in Nat \cup {Eof} /\ pos' \in Nat \cup {Eof}
  BY <1>1, <1>2, <1>3, PlacesTyped
<1>5. \A i \in 1 .. n + 1 : at[i] \in Nat \cup {Eof}
  BY <1>1, <1>2, PlacesTyped
<1>6. at = [i \in 1 .. n + 1 |-> at[i]] /\ m_events' = m_events \o at
  BY <1>3
<1> HIDE DEF at
<1>7. m_events' \in Seq(Nat \cup {Eof})
  BY <1>1, <1>2, <1>5, <1>6, Bookmarks
<1> QED BY <1>1, <1>3, <1>4, <1>7, HeadersTyped

LEMMA GetDecoderInv ==
  ASSUME DecoderInv, NEW k \in 0 .. MaxRequest, GetEvent(k)
  PROVE  DecoderInv' /\ UNCHANGED <<disk, m_file, m_totev, m_EndFootBuf, own>>
<1>1. UNCHANGED <<disk, m_file, m_totev, m_EndFootBuf, own>>
  BY DEF GetEvent
<1>2. /\ m_evh' \in Int \cup {NoEvent, CutEvent}
      /\ pos' \in Nat \cup {Eof} /\ m_events' \in Seq(Nat \cup {Eof})
      /\ rval' \in -1 .. MaxRequest /\ (m_file = NoFile => rval' = -1)
  <2>1. CASE m_file = NoFile \/ k \notin 0 .. m_totev - 1
    BY <2>1 DEF GetEvent, DecoderInv, TypeOK
  <2>2. CASE ~(m_file = NoFile \/ k \notin 0 .. m_totev - 1)
    <3>1. /\ m_file # NoFile /\ rval' = k /\ Len(m_events) \in Nat
          /\ IF k < Len(m_events) THEN ReadKnown(k) ELSE ReadAhead(k)
      BY <2>2 DEF GetEvent, DecoderInv, TypeOK
    <3>2. CASE k < Len(m_events)
      BY <3>1, <3>2, KnownTypes
    <3>3. CASE ~(k < Len(m_events))
      BY <3>1, <3>3, AheadTypes
    <3> QED BY <3>2, <3>3
  <2> QED BY <2>1, <2>2
<1>3. TypeOK'
  BY <1>1, <1>2 DEF DecoderInv, TypeOK
<1> QED BY <1>1, <1>2, <1>3 DEF DecoderInv, FileOK, OwnFile, GoodFile

LEMMA OpenDecoderInv ==
  ASSUME DecoderInv, NEW f \in Files, GoodFile(f), Open(f)
  PROVE  /\ DecoderInv' /\ disk' = disk /\ m_events' = <<>> /\ rval' = -1
         /\ m_EndFootBuf' \in {m_EndFootBuf, disk[f].foot, NoFoot} \cup Chance
         /\ m_totev' = CountIn(m_EndFootBuf')
         /\ m_file' = (IF m_totev' = 0 THEN NoFile ELSE f)
         /\ own' => pos' = 0 /\ disk[f].foot # NoFoot /\ m_file' = f
<1>1. /\ disk' = disk /\ m_events' = <<>> /\ rval' = -1 /\ m_evh' = m_evh
      /\ m_EndFootBuf' \in Footers(f) /\ Counted(f, CountIn(m_EndFootBuf'))
      /\ pos' = IF Stored(f) = Short THEN Eof ELSE 0
  BY DEF Open
<1>2. m_EndFootBuf' \in {m_EndFootBuf, disk[f].foot, NoFoot} \cup Chance
  BY <1>1 DEF Footers
<1>3. /\ m_EndFootBuf' \in Nat \cup {NoFoot} /\ CountIn(m_EndFootBuf') \in Nat
      /\ m_totev' = CountIn(m_EndFootBuf')
      /\ m_file' = (IF m_totev' = 0 THEN NoFile ELSE f)
      /\ own' \in BOOLEAN
  BY <1>1, <1>2 DEF DecoderInv, TypeOK, GoodFile, FileOK, Counted, Closed, CountIn
<1>4. TypeOK'
  BY <1>1, <1>3 DEF DecoderInv, TypeOK
<1>5. GoodFile(f)' /\ FileOK(f)'
  BY <1>1 DEF GoodFile, FileOK
<1>6. ASSUME own'
      PROVE  /\ pos' = 0 /\ disk[f].foot # NoFoot /\ m_file' = f
             /\ m_totev' = disk[f].foot
  <2>1. m_file' = f /\ Stored(f) # Short /\ disk[f].foot # NoFoot
    BY <1>1, <1>6 DEF Counted, Closed
  <2> QED BY <1>1, <1>3, <2>1 DEF Footers, CountIn
<1> QED BY <1>1, <1>2, <1>3, <1>4, <1>5, <1>6 DEF DecoderInv, OwnFile

LEMMA CloseDecoderInv ==
  ASSUME DecoderInv, Close \/ OpenFails
  PROVE  DecoderInv' /\ ~own' /\ m_file' = NoFile /\ rval' = -1 /\ disk' = disk
<1>1. /\ m_file' = NoFile /\ m_totev' = 0 /\ rval' = -1 /\ disk' = disk /\ own' = FALSE
      /\ m_evh' = m_evh /\ m_EndFootBuf' = m_EndFootBuf
      /\ (pos' = pos \/ pos' = 0) /\ (m_events' = m_events \/ m_events' = <<>>)
  BY DEF Close, OpenFails, Closed
<1>2. pos' \in Nat \cup {Eof} /\ m_events' \in Seq(Nat \cup {Eof})
  <2>1. pos \in Nat \cup {Eof} /\ m_events \in Seq(Nat \cup {Eof})
    BY DEF DecoderInv, TypeOK
  <2>2. CASE m_events' = <<>>
    BY <1>1, <2>1, <2>2
  <2>3. CASE m_events' = m_events
    BY <1>1, <2>1, <2>3
  <2> QED BY <1>1, <2>2, <2>3
<1>3. own' \in BOOLEAN
  BY <1>1
<1>4. TypeOK'
  <2>1. m_file' \in Files \cup {NoFile} /\ m_totev' \in Nat /\ rval' \in -1 .. MaxRequest
    BY <1>1
  <2>2. m_evh' \in Int \cup {NoEvent, CutEvent} /\ m_EndFootBuf' \in Nat \cup {NoFoot}
    BY <1>1 DEF DecoderInv, TypeOK
  <2> QED BY <1>2, <1>3, <2>1, <2>2 DEF TypeOK
<1> QED BY <1>1, <1>4 DEF DecoderInv

(* What GetEvent(k) does on a file of its own whose bookmarks are exact.    *)
Readable == DecoderInv /\ BookmarksExact /\ own

LEMMA ReadableFile ==
  ASSUME Readable, NEW k \in Nat, k < m_totev
  PROVE  /\ m_file \in Files /\ m_file # NoFile /\ disk[m_file].foot # NoFoot
         /\ Stored(m_file) \in Nat /\ k < Stored(m_file) /\ m_totev \in Nat
         /\ EventAt(m_file, k) \in Int /\ EventAt(m_file, k) # NoEvent
         /\ Len(m_events) \in Nat /\ m_events \in Seq(Nat \cup {Eof})
<1>1. /\ m_file \in Files /\ GoodFile(m_file) /\ disk[m_file].foot # NoFoot
      /\ m_totev = disk[m_file].foot /\ m_totev \in Nat /\ TypeOK
  BY DEF Readable, DecoderInv, OwnFile, TypeOK
<1>2. Stored(m_file) \in Nat /\ k < Stored(m_file) /\ FileOK(m_file)
  <2>1. FileOK(m_file) /\ m_totev <= disk[m_file].whole
    BY <1>1 DEF GoodFile
  <2>2. disk[m_file].whole \in Int
    BY <2>1 DEF FileOK
  <2> QED BY <1>1, <2>1, <2>2 DEF Stored
<1>3. EventAt(m_file, k) \in Int /\ EventAt(m_file, k) # NoEvent
  BY <1>1, <1>2, StoredNat
<1> QED BY <1>1, <1>2, <1>3 DEF TypeOK

LEMMA KnownEvent ==
  ASSUME Readable, pos # Eof,
         NEW k \in 0 .. MaxRequest, GetEvent(k), k < m_totev, k < Len(m_events)
  PROVE  /\ m_evh' = EventAt(m_file, k) /\ rval' = k /\ pos' = k + 1
         /\ UNCHANGED <<disk, m_file, m_totev, m_events, own>>
<1>1. /\ m_file # NoFile /\ k < Stored(m_file) /\ Stored(m_file) \in Nat
      /\ k \in 0 .. m_totev - 1 /\ Len(m_events) \in Nat
  BY ReadableFile
<1>2. m_events[k + 1] = k
  BY <1>1 DEF Readable, BookmarksExact
<1>3. Seek(m_events[k + 1]) = k
  BY <1>2 DEF Seek
<1>4. /\ m_evh' \in Headers(m_file, k, 0) /\ pos' = After(m_file, k) /\ rval' = k
      /\ UNCHANGED <<disk, m_file, m_totev, m_events, own>>
  BY <1>1, <1>3 DEF GetEvent, ReadKnown
<1>5. Headers(m_file, k, 0) = {EventAt(m_file, k)} /\ After(m_file, k) = k + 1
  BY <1>1 DEF Headers, After
<1> QED BY <1>4, <1>5

LEMMA AheadEvent ==
  ASSUME Readable, NEW k \in 0 .. MaxRequest, GetEvent(k), k < m_totev,
         k >= Len(m_events), pos = Len(m_events)
  PROVE  /\ m_evh' = EventAt(m_file, k) /\ rval' = k /\ pos' = k + 1
         /\ UNCHANGED <<disk, m_file, m_totev, own>>
         /\ Len(m_events') = k + 1
         /\ \A i \in 1 .. k + 1 : m_events'[i] = i - 1
<1> DEFINE L == Len(m_events)
           n == k - L
<1>1. /\ m_file # NoFile /\ k < Stored(m_file) /\ Stored(m_file) \in Nat
      /\ disk[m_file].foot # NoFoot /\ k \in 0 .. m_totev - 1
      /\ L \in Nat /\ m_events \in Seq(Nat \cup {Eof})
  BY ReadableFile
<1>2. ReadAhead(k) /\ rval' = k /\ UNCHANGED <<disk, m_file, m_totev, own>>
  BY <1>1 DEF GetEvent
<1>3. PICK end \in Beyond(m_file) :
        /\ m_events' = m_events \o [i \in 1 .. n + 1 |-> Skip(pos, i - 1, end)]
        /\ m_evh' \in Headers(m_file, pos, n)
        /\ pos' = After(m_file, Skip(pos, n, end))
  BY <1>2 DEF ReadAhead
<1>4. end = Stored(m_file)
  BY <1>1, <1>3 DEF Beyond
<1>5. \A i \in 0 .. n + 1 : i <= n => Skip(pos, i, end) = L + i
  BY <1>1, <1>4 DEF Skip
<1>6. n \in Nat /\ L + n = k /\ pos # Eof /\ pos + n < Stored(m_file) /\ Skip(pos, n, end) = k
  BY <1>1, <1>5
<1>7. m_evh' = EventAt(m_file, k) /\ pos' = k + 1
  BY <1>1, <1>3, <1>6 DEF Headers, After
<1> DEFINE at == [i \in 1 .. n + 1 |-> Skip(pos, i - 1, end)]
<1>8. ASSUME NEW i \in 1 .. n + 1 PROVE at[i] = L + i - 1
  <2>1. i \in Nat /\ i - 1 \in 0 .. n + 1 /\ i - 1 <= n
    BY <1>6
  <2>2. Skip(pos, i - 1, end) = L + (i - 1)
    BY <1>5, <2>1
  <2>3. at[i] = Skip(pos, i - 1, end)
    BY Zenon
  <2> HIDE DEF at, n, L
  <2> QED BY <1>1, <2>1, <2>2, <2>3
<1>9. at = [i \in 1 .. n + 1 |-> at[i]] /\ m_events' = m_events \o at
  BY <1>3
<1> HIDE DEF at
<1>10. \A i \in 1 .. n + 1 : at[i] \in Nat \cup {Eof}
  BY <1>1, <1>6, <1>8
<1>11. /\ Len(m_events') = L + (n + 1)
       /\ \A i \in 1 .. L : m_events'[i] = m_events[i]
       /\ \A i \in 1 .. n + 1 : m_events'[L + i] = at[i]
  <2>1. m_events \in Seq(Nat \cup {Eof}) /\ n + 1 \in Nat
    BY <1>1, <1>6
  <2> HIDE DEF n
  <2>2. /\ Len(m_events \o at) = Len(m_events) + (n + 1)
        /\ \A i \in 1 .. Len(m_events) : (m_events \o at)[i] = m_events[i]
        /\ \A i \in 1 .. n + 1 : (m_events \o at)[Len(m_events) + i] = at[i]
    <3> DEFINE m == n + 1
    <3>1. /\ m \in Nat /\ \A i \in 1 .. m : at[i] \in Nat \cup {Eof}
          /\ at = [i \in 1 .. m |-> at[i]]
      BY <1>9, <1>10, <2>1
    <3> HIDE DEF m
    <3>2. /\ Len(m_events \o at) = Len(m_events) + m
          /\ \A i \in 1 .. Len(m_events) : (m_events \o at)[i] = m_events[i]
          /\ \A i \in 1 .. m : (m_events \o at)[Len(m_events) + i] = at[i]
      BY <2>1, <3>1, Bookmarks
    <3> QED BY <3>2 DEF m
  <2> QED BY <1>9, <2>2, Zenon
<1>12. ASSUME NEW j \in 1 .. k + 1 PROVE m_events'[j] = j - 1
  <2>1. CASE j <= L
    BY <1>1, <1>11, <2>1 DEF Readable, BookmarksExact
  <2>2. CASE j > L
    <3>1. j - L \in 1 .. n + 1 /\ L + (j - L) = j
      BY <1>1, <1>6, <2>2
    <3>2. m_events'[j] = at[j - L] /\ at[j - L] = L + (j - L) - 1
      BY <1>8, <1>11, <3>1
    <3> QED BY <1>1, <3>2
  <2> QED BY <1>1, <2>1, <2>2
<1> QED BY <1>1, <1>2, <1>6, <1>7, <1>11, <1>12

(* Either way the event is the right one, and bookmarks stay exact.        *)
LEMMA GetRight ==
  ASSUME Readable, NEW k \in 0 .. MaxRequest, GetEvent(k), k < m_totev,
         pos # Eof, k >= Len(m_events) => pos = Len(m_events)
  PROVE  /\ RightEvent' /\ BookmarksExact' /\ rval' = k /\ pos' = k + 1
         /\ UNCHANGED <<disk, m_file, m_totev, own>>
         /\ Len(m_events') = IF k < Len(m_events) THEN Len(m_events) ELSE k + 1
<1>1. /\ EventAt(m_file, k) # NoEvent /\ Len(m_events) \in Nat
  BY ReadableFile
<1>2. CASE k < Len(m_events)
  <2>1. /\ m_evh' = EventAt(m_file, k) /\ rval' = k /\ pos' = k + 1
        /\ UNCHANGED <<disk, m_file, m_totev, m_events, own>>
    BY <1>2, KnownEvent
  <2> QED BY <1>1, <1>2, <2>1 DEF RightEvent, EventAt, Stored, Readable, BookmarksExact
<1>3. CASE ~(k < Len(m_events))
  <2>1. /\ m_evh' = EventAt(m_file, k) /\ rval' = k /\ pos' = k + 1
        /\ UNCHANGED <<disk, m_file, m_totev, own>>
        /\ Len(m_events') = k + 1 /\ \A i \in 1 .. k + 1 : m_events'[i] = i - 1
    BY <1>1, <1>3, AheadEvent
  <2>2. RightEvent'
    BY <1>1, <2>1 DEF RightEvent, EventAt, Stored
  <2>3. BookmarksExact'
    BY <2>1 DEF BookmarksExact
  <2> QED BY <1>3, <2>1, <2>2, <2>3
<1> QED BY <1>2, <1>3

-----------------------------------------------------------------------------
(* A caller that does not jump *)

(* While the open file is one that was closed before, the bookmarks number *)
(* far + 1, and right after the farthest event the stream is at the first  *)
(* event without a bookmark: that is what ReadAhead takes for granted.     *)
Inside ==
  own => /\ pos # Eof
         /\ far = Len(m_events) - 1
         /\ (last = far) => (pos = far + 1)

ReaderInv ==
  /\ DecoderInv /\ BookmarksExact /\ RightEvent
  /\ last \in Int /\ far \in Int
  /\ Inside

LEMMA InitReaderInv ==
  ASSUME Init, last = -1, far = -1 PROVE ReaderInv
<1>1. own = FALSE /\ own \in BOOLEAN
  BY DEF Init
<1>2. TypeOK
  <2>1. /\ m_file \in Files \cup {NoFile} /\ m_totev \in Nat /\ rval \in -1 .. MaxRequest
        /\ pos \in Nat \cup {Eof} /\ m_events \in Seq(Nat \cup {Eof})
    BY DEF Init
  <2>2. m_evh \in Int \cup {NoEvent, CutEvent} /\ m_EndFootBuf \in Nat \cup {NoFoot}
    BY DEF Init
  <2> QED BY <1>1, <2>1, <2>2 DEF TypeOK
<1> QED BY <1>1, <1>2 DEF Init, ReaderInv, DecoderInv, Inside, BookmarksExact, RightEvent

LEMMA OpenReaderInv ==
  ASSUME ReaderInv, NEW f \in Files, GoodFile(f), Open(f), Restart
  PROVE  ReaderInv'
<1>1. /\ DecoderInv' /\ m_events' = <<>> /\ rval' = -1
      /\ own' => pos' = 0 /\ disk[f].foot # NoFoot /\ m_file' = f
  BY OpenDecoderInv DEF ReaderInv
<1> QED BY <1>1 DEF ReaderInv, Restart, Inside, BookmarksExact, RightEvent

LEMMA CloseReaderInv ==
  ASSUME ReaderInv, Close \/ OpenFails, Restart
  PROVE  ReaderInv'
<1>1. DecoderInv' /\ ~own' /\ rval' = -1
  BY CloseDecoderInv DEF ReaderInv
<1> QED BY <1>1 DEF ReaderInv, Restart, Inside, BookmarksExact, RightEvent

LEMMA GetReaderInv ==
  ASSUME ReaderInv, NEW k \in 0 .. MaxRequest, ReaderGet(k) PROVE ReaderInv'
<1>1. /\ DecoderInv' /\ GetEvent(k) /\ UNCHANGED <<disk, m_file, m_totev, own>>
      /\ k <= far \/ last = far
  BY GetDecoderInv DEF ReaderInv, ReaderGet
<1>2. last' \in Int /\ far' \in Int
  BY DEF ReaderInv, ReaderGet
<1>3. CASE ~own
  BY <1>1, <1>2, <1>3 DEF ReaderInv, Inside, BookmarksExact, RightEvent
<1>4. CASE own /\ k < m_totev
  <2>1. /\ Readable /\ pos # Eof /\ Len(m_events) \in Nat /\ far = Len(m_events) - 1
        /\ (last = far) => (pos = far + 1)
    BY <1>4 DEF ReaderInv, Readable, Inside, DecoderInv, TypeOK
  <2>2. k >= Len(m_events) => pos = Len(m_events)
    BY <1>1, <2>1
  <2>3. /\ RightEvent' /\ BookmarksExact' /\ rval' = k /\ pos' = k + 1
        /\ Len(m_events') = IF k < Len(m_events) THEN Len(m_events) ELSE k + 1
    BY <1>1, <1>4, <2>1, <2>2, GetRight
  <2>4. last' = k /\ far' = IF k > far THEN k ELSE far
    BY <2>3 DEF ReaderGet
  <2>5. Inside'
    BY <2>1, <2>3, <2>4 DEF Inside
  <2> QED BY <1>1, <1>2, <2>3, <2>5 DEF ReaderInv
<1>5. CASE own /\ ~(k < m_totev)
  <2>1. m_totev \in Nat
    BY DEF ReaderInv, DecoderInv, TypeOK
  <2>2. rval' = -1 /\ UNCHANGED <<pos, m_events, m_evh, last, far>>
    BY <1>5, <2>1 DEF ReaderGet, GetEvent
  <2> QED BY <1>1, <1>2, <2>2 DEF ReaderInv, Inside, BookmarksExact, RightEvent
<1> QED BY <1>3, <1>4, <1>5

(* Others write; not to a file that is closed.                             *)
LEMMA SameReaderInv ==
  ASSUME ReaderInv, UNCHANGED decoderVars,
         m_file # NoFile => FileOK(m_file)',
         own => disk'[m_file] = disk[m_file]
  PROVE  ReaderInv'
<1>1. own => /\ OwnFile' /\ EventAt(m_file, rval)' = EventAt(m_file, rval)
  BY DEF ReaderInv, DecoderInv, OwnFile, GoodFile, FileOK, Stored, EventAt, decoderVars
<1>2. TypeOK'
  BY DEF ReaderInv, DecoderInv, TypeOK, decoderVars
<1> QED BY <1>1, <1>2 DEF ReaderInv, DecoderInv, Inside, BookmarksExact, RightEvent, decoderVars

FilesInv == \A f \in Files : GoodFile(f)

LEMMA InitGood == ASSUME Init PROVE FilesInv
<1> SUFFICES ASSUME NEW f \in Files PROVE GoodFile(f)
  BY DEF FilesInv
<1>1. disk[f] = Disk[f] /\ Disk[f].evs \in Seq(Int) /\ Disk[f].foot \in -1 .. Len(Disk[f].evs)
  BY DEF Init
<1> QED BY <1>1 DEF GoodFile, FileOK

LEMMA ReaderInvariance == ReaderSpec => [](ReaderInv /\ FilesInv)
<1>1. ReaderInit => ReaderInv /\ FilesInv
  BY InitReaderInv, InitGood DEF ReaderInit
<1>2. ASSUME ReaderInv, FilesInv, [ReaderNext]_readerVars PROVE ReaderInv' /\ FilesInv'
  <2>1. disk' = disk
    BY <1>2 DEF ReaderNext, readerVars, vars, Open, OpenFails, Close, ReaderGet, GetEvent
  <2>2. FilesInv'
    BY <1>2, <2>1 DEF FilesInv, GoodFile, FileOK
  <2>3. ASSUME NEW f \in Files, Open(f), Restart PROVE ReaderInv'
    BY <1>2, <2>3, OpenReaderInv DEF FilesInv
  <2>4. CASE (OpenFails \/ Close) /\ Restart
    BY <1>2, <2>2, <2>4, CloseReaderInv
  <2>5. ASSUME NEW k \in 0 .. MaxRequest, ReaderGet(k) PROVE ReaderInv'
    BY <1>2, <2>5, GetReaderInv
  <2>6. CASE UNCHANGED readerVars
    <3>1. UNCHANGED decoderVars /\ (m_file # NoFile => FileOK(m_file)')
      BY <1>2, <2>2, <2>6 DEF readerVars, vars, decoderVars, ReaderInv, DecoderInv, FileOK
    <3> QED BY <1>2, <2>1, <2>2, <3>1, SameReaderInv
  <2> QED BY <1>2, <2>2, <2>3, <2>4, <2>5, <2>6 DEF ReaderNext
<1> QED BY <1>1, <1>2, PTL DEF ReaderSpec

(* The state keeps its shape, whatever is found on disk.                   *)
(* (daq/src/EventDecoder.cc, Open and GetEvent)                            *)
THEOREM ReaderTypeOK == ReaderSpec => []TypeOK
<1>1. ReaderInv => TypeOK
  BY DEF ReaderInv, DecoderInv
<1> QED BY <1>1, ReaderInvariance, PTL

(* Of a file that was closed by its writer, GetEvent(k) hands out event k  *)
(* and nothing else, whatever was opened before.                           *)
(* (daq/src/EventDecoder.cc, GetEvent)                                     *)
THEOREM ReaderRightEvent == ReaderSpec => []RightEvent
<1>1. ReaderInv => RightEvent
  BY DEF ReaderInv
<1> QED BY <1>1, ReaderInvariance, PTL

(* In such a file every bookmark is where its event begins, also after     *)
(* files were closed and others opened.                                    *)
(* (daq/src/EventDecoder.cc, m_events)                                     *)
THEOREM ReaderBookmarksExact == ReaderSpec => []BookmarksExact
<1>1. ReaderInv => BookmarksExact
  BY DEF ReaderInv
<1> QED BY <1>1, ReaderInvariance, PTL
-----------------------------------------------------------------------------
(* The event display *)

ViewerTypes ==
  /\ disk = Disk /\ DecoderInv
  /\ fEntries = m_totev /\ m_totev <= MaxRequest /\ m_EndFootBuf <= MaxRequest
  /\ m_file = NoFile <=> fEntries = 0
  /\ fCurEvent \in Int /\ fPlayOn \in BOOLEAN /\ jumped \in BOOLEAN
  /\ fSkipEvents \in 1 .. MaxSkip /\ fRatePlayback \in 1 .. MaxSkip
  /\ shown = Crashed => ~fetching

(* In a file with events the viewer is at one of them unless it plays, and *)
(* the buttons are those of where it is, unless an event is to be fetched. *)
AtInv ==
  fEntries > 0 =>
    /\ fCurEvent >= 0
    /\ ~fPlayOn => fCurEvent < fEntries
    /\ ~fetching => buttons = ButtonState(fCurEvent, fEntries, fPlayOn)
    /\ shown # Crashed

(* A file that was just opened is fetched from.  Later the display shows   *)
(* what the decoder read last, and as long as the viewer did not jump the  *)
(* stream of a closed file is where the decoder takes it to be.            *)
ShownInv ==
  fEntries > 0 =>
    IF rval = -1 THEN fetching /\ fCurEvent = 0 ELSE shown = [k |-> rval, ev |-> m_evh]

StreamInv ==
  ~jumped /\ own =>
    /\ BookmarksExact /\ RightEvent /\ pos # Eof
    /\ rval >= Len(m_events) - 1 => pos = Len(m_events) /\ rval = Len(m_events) - 1

ViewerInv == ViewerTypes /\ AtInv /\ ShownInv /\ StreamInv

USE ViewerAssumption DEF ViewerAssumption

LEMMA InitViewerInv == ViewerInit => ViewerInv
<1> SUFFICES ASSUME ViewerInit PROVE ViewerInv
  OBVIOUS
<1>1. /\ Init /\ fEntries = 0 /\ fCurEvent = 0 /\ fPlayOn = FALSE /\ jumped = FALSE
      /\ fSkipEvents = 1 /\ fRatePlayback = MaxSkip /\ shown = Nothing
  BY DEF ViewerInit
<1>2. /\ disk = Disk /\ m_file = NoFile /\ rval = -1 /\ m_totev = 0 /\ m_EndFootBuf = NoFoot
      /\ own = FALSE
  BY <1>1 DEF Init
<1>3. DecoderInv
  <2>2. TypeOK
    <3>1. /\ m_file \in Files \cup {NoFile} /\ m_totev \in Nat /\ rval \in -1 .. MaxRequest
          /\ pos \in Nat \cup {Eof} /\ m_events \in Seq(Nat \cup {Eof})
      BY <1>1 DEF Init
    <3>2. m_evh \in Int \cup {NoEvent, CutEvent} /\ m_EndFootBuf \in Nat \cup {NoFoot}
      BY <1>1 DEF Init
    <3>3. own \in BOOLEAN
      BY <1>2
    <3> QED BY <3>1, <3>2, <3>3 DEF TypeOK
  <2> QED BY <1>2, <2>2 DEF DecoderInv
<1>4. ViewerTypes
  <2>1. shown # Crashed
    BY <1>1 DEF Nothing, Crashed
  <2>2. fPlayOn \in BOOLEAN /\ jumped \in BOOLEAN
    BY <1>1
  <2>3. fSkipEvents \in 1 .. MaxSkip /\ fRatePlayback \in 1 .. MaxSkip /\ fCurEvent \in Int
    BY <1>1
  <2>4. m_totev <= MaxRequest /\ m_EndFootBuf <= MaxRequest
    BY <1>2
  <2> QED BY <1>1, <1>2, <1>3, <2>1, <2>2, <2>3, <2>4 DEF ViewerTypes
<1> QED BY <1>1, <1>2, <1>4 DEF ViewerInv, AtInv, ShownInv, StreamInv

(* Steps that leave the decoder alone.                                     *)
LEMMA SameDecoder ==
  ASSUME ViewerInv, UNCHANGED <<vars, fEntries, jumped>>
  PROVE  DecoderInv' /\ StreamInv'
<1>1. UNCHANGED <<disk, m_file, pos, m_events, m_totev, m_evh, m_EndFootBuf, own, rval>>
  BY DEF vars
<1>2. TypeOK' /\ (own' => OwnFile') /\ (m_file' # NoFile => FileOK(m_file)')
  BY <1>1 DEF ViewerInv, ViewerTypes, DecoderInv, TypeOK, OwnFile, GoodFile, FileOK
<1>3. StreamInv'
  BY <1>1 DEF ViewerInv, StreamInv, BookmarksExact, RightEvent, EventAt, Stored
<1> QED BY <1>1, <1>2, <1>3 DEF ViewerInv, ViewerTypes, DecoderInv

LEMMA OpenViewerInv == ASSUME ViewerInv, NEW f \in Files, OpenNewFile(f) PROVE ViewerInv'
<1>1. /\ Open(f) /\ ~fetching /\ shown # Crashed
      /\ fEntries' = m_totev' /\ fCurEvent' = 0 /\ (fetching' <=> m_totev' # 0)
      /\ fSkipEvents' = IF m_totev' = 0 THEN fSkipEvents ELSE fRatePlayback
      /\ jumped' = FALSE /\ UNCHANGED <<fPlayOn, fRatePlayback, buttons, shown>>
  BY DEF OpenNewFile, Ready
<1>2. disk = Disk /\ DecoderInv /\ GoodFile(f) /\ Disk[f].foot <= MaxRequest
      /\ m_EndFootBuf <= MaxRequest
  <2>1. Disk[f].evs \in Seq(Int) /\ Disk[f].foot \in -1 .. Len(Disk[f].evs)
    OBVIOUS
  <2> QED BY <2>1 DEF ViewerInv, ViewerTypes, GoodFile, FileOK
<1>3. /\ DecoderInv' /\ disk' = disk /\ m_events' = <<>> /\ rval' = -1
      /\ m_EndFootBuf' \in {m_EndFootBuf, disk[f].foot, NoFoot} \cup Chance
      /\ m_totev' = CountIn(m_EndFootBuf')
      /\ m_file' = (IF m_totev' = 0 THEN NoFile ELSE f)
      /\ own' => pos' = 0
  BY <1>1, <1>2, OpenDecoderInv
<1>4. m_EndFootBuf' <= MaxRequest /\ m_totev' <= MaxRequest /\ m_totev' \in Nat
  <2>1. m_EndFootBuf' <= MaxRequest
    <3>1. /\ disk[f].foot <= MaxRequest /\ NoFoot <= MaxRequest
          /\ \A n \in Chance : n <= MaxRequest
      BY <1>2
    <3> QED BY <1>2, <1>3, <3>1
  <2>2. m_totev' \in Nat
    BY <1>3 DEF DecoderInv, TypeOK
  <2> QED BY <1>3, <2>1, <2>2 DEF CountIn
<1>5. ViewerTypes'
  <2>1. fSkipEvents' \in 1 .. MaxSkip /\ fRatePlayback' \in 1 .. MaxSkip
    BY <1>1 DEF ViewerInv, ViewerTypes
  <2>2. fPlayOn' \in BOOLEAN /\ jumped' \in BOOLEAN
    BY <1>1 DEF ViewerInv, ViewerTypes
  <2>3. m_file' = NoFile <=> m_totev' = 0
    BY <1>3
  <2> QED BY <1>1, <1>2, <1>3, <1>4, <2>1, <2>2, <2>3 DEF ViewerTypes
<1>6. AtInv' /\ ShownInv'
  BY <1>1, <1>3, <1>4 DEF ViewerInv, AtInv, ShownInv
<1>7. StreamInv'
  BY <1>3 DEF StreamInv, BookmarksExact, RightEvent
<1> QED BY <1>5, <1>6, <1>7 DEF ViewerInv

LEMMA StepViewerInv ==
  ASSUME ViewerInv, NextEvent \/ PrevEvent \/ TimerTick PROVE ViewerInv'
<1>1. /\ ~fetching /\ shown # Crashed /\ fetching' = TRUE
      /\ UNCHANGED <<disk, m_file, pos, m_events, m_totev, m_evh, m_EndFootBuf, own, rval>>
      /\ UNCHANGED <<fEntries, fPlayOn, fPlayEnd, fRatePlayback, fSkipEvents, buttons, shown, jumped>>
      /\ \/ "next" \in buttons /\ fCurEvent' = fCurEvent + 1
         \/ "prev" \in buttons /\ fCurEvent' = fCurEvent - 1
         \/ fPlayOn /\ fCurEvent' = fCurEvent
  BY DEF NextEvent, PrevEvent, TimerTick, Ready, vars, playVars
<1>2. DecoderInv' /\ StreamInv'
  BY <1>1, SameDecoder DEF vars
<1>3. ViewerTypes'
  BY <1>1, <1>2 DEF ViewerInv, ViewerTypes
<1>4. AtInv'
  <2> SUFFICES ASSUME fEntries > 0
               PROVE  fCurEvent' >= 0 /\ (~fPlayOn => fCurEvent' < fEntries)
    BY <1>1 DEF ViewerInv, AtInv
  <2>1. /\ fCurEvent >= 0 /\ fCurEvent \in Int /\ fEntries \in Int
        /\ ~fPlayOn => fCurEvent < fEntries
        /\ "next" \in buttons => fCurEvent < fEntries - 1
        /\ "prev" \in buttons => fCurEvent >= 1
    BY <1>1 DEF ViewerInv, ViewerTypes, DecoderInv, TypeOK, AtInv, ButtonState
  <2> QED BY <1>1, <2>1
<1>5. ShownInv'
  BY <1>1 DEF ViewerInv, ShownInv
<1> QED BY <1>2, <1>3, <1>4, <1>5 DEF ViewerInv

LEMMA PlayViewerInv == ASSUME ViewerInv, PlayEvents PROVE ViewerInv'
<1>1. /\ ~fetching /\ shown # Crashed /\ ~fetching' /\ (fPlayOn' <=> ~fPlayOn) /\ fPlayOn' \in BOOLEAN
      /\ UNCHANGED <<disk, m_file, pos, m_events, m_totev, m_evh, m_EndFootBuf, own, rval>>
      /\ UNCHANGED <<fEntries, fRatePlayback, fSkipEvents, shown, jumped>>
      /\ fCurEvent' = CASE ~fPlayOn                         -> fCurEvent + 1
                        [] fPlayOn /\ fCurEvent >= fEntries -> fEntries - 1
                        [] OTHER                            -> fCurEvent
      /\ buttons' = ButtonState(fCurEvent', fEntries, fPlayOn')
  BY DEF PlayEvents, Ready, vars
<1>2. DecoderInv' /\ StreamInv'
  BY <1>1, SameDecoder DEF vars
<1>3. fEntries \in Int /\ fCurEvent' \in Int
  BY <1>1 DEF ViewerInv, ViewerTypes, DecoderInv, TypeOK
<1>4. ViewerTypes'
  BY <1>1, <1>2, <1>3 DEF ViewerInv, ViewerTypes
<1>5. AtInv' /\ ShownInv'
  BY <1>1, <1>3 DEF ViewerInv, ViewerTypes, AtInv, ShownInv
<1> QED BY <1>2, <1>4, <1>5 DEF ViewerInv

LEMMA RateViewerInv ==
  ASSUME ViewerInv, SetRefreshTime \/ \E n \in 1 .. MaxSkip : SetPlaybackRate(n)
  PROVE  ViewerInv'
<1>1. /\ UNCHANGED <<disk, m_file, pos, m_events, m_totev, m_evh, m_EndFootBuf, own, rval>>
      /\ UNCHANGED <<fEntries, fCurEvent, fPlayOn, buttons, fetching, shown, jumped>>
      /\ fSkipEvents' \in 1 .. MaxSkip /\ fRatePlayback' \in 1 .. MaxSkip
  BY DEF SetRefreshTime, SetPlaybackRate, Ready, vars, ViewerInv, ViewerTypes
<1>2. DecoderInv' /\ StreamInv'
  BY <1>1, SameDecoder DEF vars
<1> QED BY <1>1, <1>2 DEF ViewerInv, ViewerTypes, AtInv, ShownInv

LEMMA FetchNoneViewerInv == ASSUME ViewerInv, FetchWaits \/ FetchNull PROVE ViewerInv'
<1>1. /\ fetching /\ ~fetching' /\ fCurEvent >= fEntries
      /\ UNCHANGED <<disk, m_file, pos, m_events, m_totev, m_evh, m_EndFootBuf, own, rval>>
      /\ UNCHANGED <<fEntries, fPlayOn, fRatePlayback, fSkipEvents, jumped>>
  BY DEF FetchWaits, FetchNull, vars, playVars
<1>2. DecoderInv' /\ StreamInv'
  BY <1>1, SameDecoder DEF vars
<1>3. fEntries \in Nat /\ fCurEvent' \in Int
  <2>1. fCurEvent \in Int /\ fEntries \in Nat
    BY DEF ViewerInv, ViewerTypes, DecoderInv, TypeOK
  <2>2. fCurEvent' = fEntries \/ fCurEvent' = fCurEvent
    BY DEF FetchWaits, FetchNull
  <2> QED BY <2>1, <2>2
<1>4. ViewerTypes'
  BY <1>1, <1>2, <1>3 DEF ViewerInv, ViewerTypes
<1>5. CASE FetchWaits
  <2>1. /\ fPlayOn = TRUE /\ fCurEvent' = fEntries /\ shown' = shown
        /\ buttons' = ButtonState(fEntries, fEntries, TRUE)
    BY <1>5 DEF FetchWaits, playVars, ViewerInv, ViewerTypes
  <2> QED BY <1>1, <1>2, <1>3, <1>4, <2>1 DEF ViewerInv, ViewerTypes, AtInv, ShownInv
<1>6. CASE FetchNull
  <2>1. fEntries = 0
    BY <1>1, <1>3, <1>6 DEF FetchNull, ViewerInv, AtInv
  <2> QED BY <1>1, <1>2, <1>4, <2>1 DEF ViewerInv, AtInv, ShownInv
<1> QED BY <1>5, <1>6

(* The event fetched is the right one as long as the viewer did not jump.  *)
LEMMA FetchStream ==
  ASSUME ViewerInv, NEW k \in 0 .. MaxRequest, k < fEntries, GetEvent(k),
         ~jumped, own, ~Jumps(k)
  PROVE  /\ BookmarksExact' /\ RightEvent' /\ pos' # Eof
         /\ rval' >= Len(m_events') - 1 => pos' = Len(m_events') /\ rval' = Len(m_events') - 1
<1>1. /\ DecoderInv /\ Len(m_events) \in Nat /\ k < m_totev /\ Readable /\ pos # Eof
      /\ rval >= Len(m_events) - 1 => pos = Len(m_events) /\ rval = Len(m_events) - 1
  BY DEF ViewerInv, ViewerTypes, StreamInv, DecoderInv, TypeOK, Readable
<1>2. k >= Len(m_events) => pos = Len(m_events)
  BY <1>1 DEF Jumps
<1>3. /\ RightEvent' /\ BookmarksExact' /\ rval' = k /\ pos' = k + 1
      /\ Len(m_events') = IF k < Len(m_events) THEN Len(m_events) ELSE k + 1
  BY <1>1, <1>2, GetRight
<1> QED BY <1>1, <1>3

LEMMA FetchEventViewerInv == ASSUME ViewerInv, FetchEvent PROVE ViewerInv'
<1> DEFINE next == IF fPlayOn THEN AfterStep(fCurEvent)
                              ELSE [cur |-> fCurEvent, end |-> fPlayEnd]
<1>1. /\ fetching /\ ~fetching' /\ fCurEvent < fEntries /\ GetEvent(fCurEvent)
      /\ shown' = [k |-> fCurEvent, ev |-> IF rval' = -1 THEN NoEvent ELSE m_evh']
      /\ fCurEvent' = next.cur /\ buttons' = ButtonState(next.cur, fEntries, fPlayOn)
      /\ jumped' = (jumped \/ Jumps(fCurEvent))
      /\ UNCHANGED <<fEntries, fPlayOn, fRatePlayback, fSkipEvents>>
  BY DEF FetchEvent
<1>2. fCurEvent \in Int /\ fEntries \in Nat /\ m_totev \in Nat
  BY DEF ViewerInv, ViewerTypes, DecoderInv, TypeOK
<1>3. /\ next.cur \in Int
      /\ fEntries > 0 /\ fCurEvent >= 0 => next.cur >= 0 /\ (~fPlayOn => next.cur < fEntries)
  BY <1>1, <1>2 DEF ViewerInv, ViewerTypes, AfterStep
<1> HIDE DEF next
<1>4. jumped' \in BOOLEAN /\ fPlayOn' \in BOOLEAN
  BY <1>1 DEF ViewerInv, ViewerTypes
<1>5. CASE fEntries > 0
  <2>1. fCurEvent \in 0 .. MaxRequest /\ fEntries = m_totev /\ m_file # NoFile /\ DecoderInv
    BY <1>1, <1>2, <1>5 DEF ViewerInv, ViewerTypes, AtInv
  <2>2. DecoderInv' /\ UNCHANGED <<disk, m_file, m_totev, m_EndFootBuf, own>>
    BY <1>1, <2>1, GetDecoderInv
  <2>3. rval' = fCurEvent
    BY <1>1, <1>2, <2>1 DEF GetEvent
  <2>4. shown' = [k |-> rval', ev |-> m_evh'] /\ rval' # -1
    BY <1>1, <2>1, <2>3
  <2>5. shown' # Crashed
    BY <2>1, <2>3, <2>4 DEF Crashed
  <2>6. ViewerTypes'
    BY <1>1, <1>3, <1>4, <2>1, <2>2, <2>5 DEF ViewerInv, ViewerTypes
  <2>7. AtInv' /\ ShownInv'
    BY <1>1, <1>3, <2>1, <2>4, <2>5 DEF AtInv, ShownInv
  <2>8. StreamInv'
    <3> SUFFICES ASSUME ~jumped', own' PROVE StreamInv'
      BY DEF StreamInv
    <3>1. ~jumped /\ ~Jumps(fCurEvent) /\ own
      BY <1>1, <2>2
    <3> QED BY <1>1, <2>1, <3>1, FetchStream DEF StreamInv
  <2> QED BY <2>6, <2>7, <2>8 DEF ViewerInv
<1>6. CASE ~(fEntries > 0)
  <2>1. m_file = NoFile /\ fEntries = 0 /\ m_totev = 0 /\ ViewerTypes
    BY <1>2, <1>6 DEF ViewerInv, ViewerTypes
  <2>2. /\ rval' = -1
        /\ UNCHANGED <<disk, m_file, m_totev, pos, m_events, m_evh, m_EndFootBuf, own>>
    BY <1>1, <2>1 DEF GetEvent
  <2>3. ~own /\ TypeOK
    BY <2>1 DEF ViewerTypes, DecoderInv, OwnFile
  <2>4. TypeOK'
    BY <2>2, <2>3 DEF TypeOK
  <2>5. DecoderInv'
    BY <2>1, <2>2, <2>3, <2>4 DEF DecoderInv
  <2>6. shown'.k = fCurEvent /\ (shown' = Crashed => ~fetching')
    BY <1>1
  <2>7. ViewerTypes'
    BY <1>1, <1>3, <1>4, <2>1, <2>2, <2>5, <2>6 DEF ViewerTypes
  <2> QED BY <1>1, <2>1, <2>2, <2>3, <2>7 DEF ViewerInv, AtInv, ShownInv, StreamInv
<1> QED BY <1>5, <1>6

LEMMA NextViewerInv == ViewerInv /\ [ViewerNext]_allVars => ViewerInv'
<1> SUFFICES ASSUME ViewerInv, [ViewerNext]_allVars PROVE ViewerInv'
  OBVIOUS
<1>1. CASE UNCHANGED allVars
  <2>1. UNCHANGED <<vars, viewVars>> /\ UNCHANGED playVars
    BY <1>1 DEF allVars, viewVars
  <2>2. DecoderInv' /\ StreamInv'
    BY <2>1, SameDecoder DEF viewVars
  <2>3. ViewerTypes' /\ AtInv' /\ ShownInv'
    BY <2>1, <2>2 DEF ViewerInv, ViewerTypes, AtInv, ShownInv, vars, viewVars, playVars
  <2> QED BY <2>2, <2>3 DEF ViewerInv
<1> QED BY <1>1, OpenViewerInv, StepViewerInv, PlayViewerInv, RateViewerInv,
           FetchNoneViewerInv, FetchEventViewerInv DEF ViewerNext

LEMMA ViewerInvariance == ViewerSpec => []ViewerInv
BY InitViewerInv, NextViewerInv, PTL DEF ViewerSpec

(* The display goes through a null event only on a file without events.    *)
(* (guiutils/src/RawViewer.cc, FetchEvent and the button handlers)         *)
THEOREM ViewerNullOnlyOnEmptyFile == ViewerSpec => []NullOnlyOnEmptyFile
<1>1. ViewerInv => NullOnlyOnEmptyFile
  BY DEF ViewerInv, ViewerTypes, DecoderInv, TypeOK, AtInv, NullOnlyOnEmptyFile
<1> QED BY <1>1, ViewerInvariance, PTL

(* Label and event of a closed file belong together on display, until      *)
(* playback has jumped.                                                    *)
(* (guiutils/src/RawViewer.cc, FetchEvent; daq/src/EventDecoder.cc,        *)
(* GetEvent)                                                               *)
THEOREM ViewerShownAsLabelled == ViewerSpec => []ShownAsLabelled
<1>1. ViewerInv => ShownAsLabelled
  <2> SUFFICES ASSUME ViewerInv, shown.k >= 0, own, ~fetching, ~jumped
               PROVE  shown.ev = EventAt(m_file, shown.k)
    BY DEF ShownAsLabelled
  <2>1. fEntries > 0
    BY DEF ViewerInv, ViewerTypes, DecoderInv, OwnFile, TypeOK
  <2>2. rval # -1 /\ shown = [k |-> rval, ev |-> m_evh]
    BY <2>1 DEF ViewerInv, ShownInv
  <2>3. RightEvent /\ rval \in -1 .. MaxRequest
    BY DEF ViewerInv, StreamInv, ViewerTypes, DecoderInv, TypeOK
  <2> QED BY <2>2, <2>3 DEF RightEvent
<1> QED BY <1>1, ViewerInvariance, PTL


-----------------------------------------------------------------------------
(* Files that are read while others are written *)

Contents == [evs : Seq(Int), whole : Int, foot : Int]

New == made \ Old       \* the files of this behaviour

(* A file that no frames were encoded into: event k carries number k, and  *)
(* the footer counts them all.                                             *)
Counts(f) ==
  /\ disk[f].foot \in {NoFoot, Len(disk[f].evs) % FootMod}
  /\ disk[f].foot # NoFoot => disk[f].whole = Len(disk[f].evs)
  /\ \A i \in 1 .. Len(disk[f].evs) : disk[f].evs[i] = i - 1

(* The file that is written counts its events; no other one has a footer   *)
(* that promises too much or an event that is not the one it is counted    *)
(* as, except those that frames were encoded into.                         *)
WriterInv ==
  /\ disk \in [Files -> Contents]
  /\ \A f \in Files : FileOK(f)
  /\ Old \subseteq made /\ made \subseteq Files
  /\ fOut \in New \cup {NoFile}
  /\ written \in Nat
  /\ fOut # NoFile => disk[fOut].foot = NoFoot
  /\ fOut # NoFile /\ fOut \notin mixed => Len(disk[fOut].evs) = written
  /\ mixed \cap Old = {}
  /\ \A f \in Old : disk[f] = Disk[f]
  /\ \A f \in New \ mixed : Counts(f)

(* A file whose footer was read is not written any more, and frames were   *)
(* not encoded into it.                                                    *)
ReadInv == own => m_file \in made /\ m_file \notin mixed /\ m_file # fOut

RawInv == ReaderInv /\ WriterInv /\ ReadInv

USE RawFilesAssumption DEF RawFilesAssumption, Writer!NoFoot, Writer!Short

LEMMA FootBound == ASSUME NEW n \in Nat PROVE n % FootMod \in 0 .. n
<1>1. n % FootMod \in 0 .. FootMod - 1
  OBVIOUS
<1>2. n < FootMod => n % FootMod = n
  OBVIOUS
<1> QED BY <1>1, <1>2

(* One file is changed.                                                    *)
LEMMA ChangeFile ==
  ASSUME NEW d \in [Files -> Contents], NEW f \in Files, NEW c, c \in Contents
  PROVE  /\ [d EXCEPT ![f] = c] \in [Files -> Contents]
         /\ [d EXCEPT ![f] = c][f] = c
         /\ \A g \in Files : g # f => [d EXCEPT ![f] = c][g] = d[g]
<1> HIDE DEF Contents
<1> QED OBVIOUS

(* What the user may open is a good file, also while others are written.   *)
LEMMA MadeIsGood ==
  ASSUME WriterInv, NEW f \in made, f \notin mixed PROVE f \in Files /\ GoodFile(f)
<1>1. f \in Files /\ FileOK(f) /\ Len(disk[f].evs) \in Nat
  BY DEF WriterInv, FileOK
<1>2. CASE f \in Old
  <2>1. disk[f] = Disk[f]
    BY <1>2 DEF WriterInv
  <2>2. /\ Disk[f].foot \in NoFoot .. Len(Disk[f].evs)
        /\ Disk[f].foot # NoFoot => Disk[f].whole = Len(Disk[f].evs)
    BY <1>1
  <2> QED BY <1>1, <2>1, <2>2 DEF GoodFile
<1>3. CASE f \notin Old
  <2>1. Len(disk[f].evs) % FootMod \in 0 .. Len(disk[f].evs)
    BY <1>1, FootBound
  <2>2. Counts(f)
    BY <1>3 DEF WriterInv, New
  <2> DEFINE len  == Len(disk[f].evs)
             rest == len % FootMod
             foot == disk[f].foot
             n    == disk[f].whole
  <2>3. len \in Nat /\ rest \in 0 .. len /\ foot \in {NoFoot, rest} /\ (foot # NoFoot => n = len)
    BY <1>1, <2>1, <2>2 DEF Counts
  <2>4. foot # NoFoot => n = len /\ foot <= n
    <3> HIDE DEF len, rest, foot, n
    <3> QED BY <2>3
  <2> QED BY <1>1, <2>4 DEF GoodFile
<1> QED BY <1>2, <1>3

LEMMA InitRawInv == RawInit => RawInv
<1> SUFFICES ASSUME RawInit PROVE RawInv
  OBVIOUS
<1>1. Init /\ last = -1 /\ far = -1 /\ disk = Disk
  BY DEF RawInit, ReaderInit, Init
<1>2. ReaderInv /\ FilesInv
  BY <1>1, InitReaderInv, InitGood
<1>3. made = Old /\ fOut = NoFile /\ written = 0 /\ mixed = {}
  BY DEF RawInit
<1>4. disk \in [Files -> Contents]
  BY <1>1 DEF Contents
<1>5. WriterInv
  BY <1>1, <1>2, <1>3, <1>4 DEF WriterInv, New, FilesInv, GoodFile
<1>6. ReadInv
  BY <1>1 DEF Init, ReadInv
<1> QED BY <1>2, <1>5, <1>6 DEF RawInv

-----------------------------------------------------------------------------
(* the writer *)

(* It changes no closed file.                                              *)
LEMMA WriterLeavesReader ==
  ASSUME RawInv, WriterInv', UNCHANGED decoderVars,
         own => /\ disk'[m_file] = disk[m_file]
                /\ m_file \notin mixed' /\ m_file # fOut' /\ m_file \in made'
  PROVE  RawInv'
<1>1. m_file # NoFile => FileOK(m_file)'
  BY DEF WriterInv, RawInv, ReaderInv, DecoderInv, TypeOK, decoderVars
<1>2. ReaderInv'
  BY <1>1, SameReaderInv DEF RawInv
<1>3. ReadInv'
  BY DEF RawInv, ReadInv, decoderVars
<1> QED BY <1>2, <1>3 DEF RawInv

(* Closing brings the events to disk, and the footer.                      *)
LEMMA CloseDisk ==
  ASSUME WriterInv, NEW d, d = Writer!DiskAfterClose
  PROVE  /\ d \in [Files -> Contents]
         /\ \A f \in Files : d[f].evs = disk[f].evs /\ (f # fOut => d[f] = disk[f])
         /\ fOut # NoFile => /\ d[fOut].foot = written % FootMod
                             /\ d[fOut].whole = Len(disk[fOut].evs)
<1>1. CASE fOut = NoFile
  BY <1>1 DEF WriterInv, Writer!DiskAfterClose
<1>2. CASE fOut # NoFile
  <2> DEFINE c == [evs   |-> disk[fOut].evs,
                   whole |-> Len(disk[fOut].evs),
                   foot  |-> written % FootMod]
  <2>1. d = [disk EXCEPT ![fOut] = c]
    BY <1>2 DEF Writer!DiskAfterClose, Writer!Footer
  <2>2. /\ fOut \in Files /\ written % FootMod \in Int /\ disk[fOut].evs \in Seq(Int)
        /\ disk \in [Files -> Contents]
    BY <1>2 DEF WriterInv, New, FileOK
  <2>3. /\ c \in Contents /\ c.evs = disk[fOut].evs
        /\ c.foot = written % FootMod /\ c.whole = Len(disk[fOut].evs)
    BY <2>2 DEF Contents
  <2> HIDE DEF c, Contents
  <2>4. /\ d \in [Files -> Contents] /\ d[fOut] = c
        /\ \A g \in Files : g # fOut => d[g] = disk[g]
    BY <2>1, <2>2, <2>3, ChangeFile
  <2> QED BY <1>2, <2>3, <2>4
<1> QED BY <1>1, <1>2

(* A file that does not change stays as good as it is.                     *)
LEMMA SameFile ==
  ASSUME NEW f, disk'[f] = disk[f], FileOK(f)
  PROVE  /\ FileOK(f)'
         /\ Counts(f) => Counts(f)'
         /\ disk[f] = Disk[f] => disk'[f] = Disk[f]
<1>1. FileOK(f)'
  BY DEF FileOK
<1>2. ASSUME Counts(f) PROVE Counts(f)'
  BY <1>2 DEF Counts
<1> QED BY <1>1, <1>2

(* Nor does the writer's part, if nothing is written.                      *)
LEMMA SameWriterInv ==
  ASSUME WriterInv, disk' = disk, UNCHANGED <<made, mixed, fOut, written>>
  PROVE  WriterInv'
<1>1. \A f \in Files : FileOK(f)'
  BY SameFile DEF WriterInv
<1>2. \A f \in New \ mixed : Counts(f)'
  BY SameFile DEF WriterInv, New
<1> QED BY <1>1, <1>2 DEF WriterInv, New

(* Every file is what it was, or closed as it should be.                   *)
LEMMA ClosedFile ==
  ASSUME WriterInv, NEW d, d = Writer!DiskAfterClose, NEW f \in Files, disk'[f] = d[f]
  PROVE  /\ FileOK(f)'
         /\ f \in New \ mixed => Counts(f)'
         /\ f \in Old => disk'[f] = Disk[f]
<1>1. /\ d[f].evs = disk[f].evs /\ (f # fOut => d[f] = disk[f])
      /\ f = fOut => d[f].foot = written % FootMod /\ d[f].whole = Len(disk[f].evs)
  BY CloseDisk DEF WriterInv
<1>2. FileOK(f) /\ Len(disk[f].evs) \in Nat /\ written % FootMod \in Nat
  BY DEF WriterInv, FileOK
<1>3. CASE f # fOut
  <2>1. disk'[f] = disk[f]
    BY <1>1, <1>3
  <2> QED BY <1>2, <2>1, SameFile DEF WriterInv
<1>4. CASE f = fOut
  <2>1. FileOK(f)'
    <3>1. disk'[f].evs \in Seq(Int) /\ disk'[f].evs = disk[f].evs
      BY <1>1, <1>2 DEF FileOK
    <3>2. disk'[f].whole = Len(disk'[f].evs) /\ disk'[f].foot \in Nat
      BY <1>1, <1>2, <1>4, <3>1
    <3> QED BY <1>2, <3>1, <3>2 DEF FileOK
  <2>2. f \in New /\ f # NoFile
    BY <1>4 DEF WriterInv, New
  <2>3. ASSUME f \notin mixed PROVE Counts(f)'
    <3>1. Len(disk[f].evs) = written /\ Counts(f)
      BY <1>4, <2>2, <2>3 DEF WriterInv
    <3> QED BY <1>1, <1>4, <3>1 DEF Counts
  <2> QED BY <2>1, <2>2, <2>3 DEF New
<1> QED BY <1>3, <1>4

LEMMA WriterCloses ==
  ASSUME RawInv, Writer!Close, UNCHANGED decoderVars PROVE RawInv'
<1> DEFINE d == Writer!DiskAfterClose
<1>1. /\ disk' = d /\ fOut' = NoFile /\ written' = 0 /\ made' = made /\ mixed' = mixed
  BY DEF Writer!Close
<1>2. WriterInv
  BY DEF RawInv
<1>3. d \in [Files -> Contents] /\ \A f \in Files : f # fOut => d[f] = disk[f]
  BY <1>2, CloseDisk
<1>4. \A f \in Files : /\ FileOK(f)'
                       /\ f \in New \ mixed => Counts(f)'
                       /\ f \in Old => disk'[f] = Disk[f]
  BY <1>1, <1>2, ClosedFile
<1> HIDE DEF d
<1>5. WriterInv'
  <2>1. Old \subseteq made /\ made \subseteq Files /\ mixed \cap Old = {}
    BY <1>2 DEF WriterInv
  <2> HIDE DEF Contents
  <2> QED BY <1>1, <1>3, <1>4, <2>1 DEF WriterInv, New
<1>6. own => m_file \in Files /\ m_file # fOut /\ m_file \notin mixed /\ m_file \in made
  BY <1>2 DEF RawInv, ReadInv, WriterInv
<1>7. own => m_file # NoFile
  BY <1>6
<1> QED BY <1>1, <1>3, <1>5, <1>6, <1>7, WriterLeavesReader

LEMMA WriterOpens ==
  ASSUME RawInv, NEW g \in Files, Writer!OpenNew(g), UNCHANGED decoderVars PROVE RawInv'
<1> DEFINE d == Writer!DiskAfterClose
           e == Writer!Empty
<1>1. /\ g \notin made /\ made' = made \cup {g}
      /\ disk' = [d EXCEPT ![g] = e]
      /\ fOut' = g /\ written' = 0 /\ mixed' = mixed
  BY DEF Writer!OpenNew
<1>2. WriterInv
  BY DEF RawInv
<1>3. d \in [Files -> Contents] /\ \A f \in Files : f # fOut => d[f] = disk[f]
  BY <1>2, CloseDisk
<1>4. e = [evs |-> <<>>, whole |-> Short, foot |-> NoFoot] /\ e \in Contents
  BY DEF Writer!Empty, Contents
<1>5. /\ disk' \in [Files -> Contents] /\ disk'[g] = e
      /\ \A f \in Files : f # g => disk'[f] = d[f]
  <2> HIDE DEF d, e, Contents
  <2> QED BY <1>1, <1>3, <1>4, ChangeFile
<1>6. ASSUME NEW f \in Files, f # g
      PROVE  /\ FileOK(f)'
             /\ f \in New \ mixed => Counts(f)'
             /\ f \in Old => disk'[f] = Disk[f]
  BY <1>2, <1>5, <1>6, ClosedFile
<1>7. FileOK(g)' /\ Counts(g)' /\ Len(disk'[g].evs) = 0 /\ disk'[g].foot = NoFoot
  <2>1. /\ disk'[g].evs = <<>> /\ disk'[g].whole = Short /\ disk'[g].foot = NoFoot
        /\ Len(<<>>) = 0 /\ <<>> \in Seq(Int)
    BY <1>4, <1>5
  <2> QED BY <2>1 DEF FileOK, Counts
<1>8. WriterInv'
  <2>1. /\ Old \subseteq made /\ made \subseteq Files /\ mixed \cap Old = {} /\ g \notin Old
    BY <1>1, <1>2 DEF WriterInv
  <2>2. \A f \in Files : FileOK(f)'
    BY <1>6, <1>7
  <2>3. \A f \in New' \ mixed : Counts(f)'
    BY <1>1, <1>6, <1>7, <2>1 DEF New
  <2>4. \A f \in Old : disk'[f] = Disk[f]
    BY <1>6, <2>1
  <2> HIDE DEF Contents
  <2> QED BY <1>1, <1>5, <1>7, <2>1, <2>2, <2>3, <2>4 DEF WriterInv, New
<1>9. own => /\ m_file \in Files /\ m_file # fOut /\ m_file \notin mixed
             /\ m_file \in made /\ m_file # g
  BY <1>1, <1>2 DEF RawInv, ReadInv, WriterInv
<1>10. own => disk'[m_file] = disk[m_file]
  BY <1>3, <1>5, <1>9
<1> HIDE DEF d, e
<1> QED BY <1>1, <1>8, <1>9, <1>10, WriterLeavesReader

LEMMA WriterWrites ==
  ASSUME RawInv, Writer!WriteEvent, UNCHANGED decoderVars PROVE RawInv'
<1> DEFINE evs == Append(disk[fOut].evs, written)
<1>1. PICK n \in disk[fOut].whole .. Len(evs) :
        disk' = [disk EXCEPT ![fOut] = [evs |-> evs, whole |-> n, foot |-> NoFoot]]
  BY DEF Writer!WriteEvent
<1>2. /\ fOut # NoFile /\ written' = written + 1
      /\ made' = made /\ mixed' = mixed /\ fOut' = fOut
  BY DEF Writer!WriteEvent
<1>3. WriterInv
  BY DEF RawInv
<1>4. /\ fOut \in New /\ fOut \in Files /\ written \in Nat /\ FileOK(fOut)
      /\ disk \in [Files -> Contents]
  BY <1>2, <1>3 DEF WriterInv, New
<1>5. /\ evs \in Seq(Int) /\ Len(evs) = Len(disk[fOut].evs) + 1 /\ Len(disk[fOut].evs) \in Nat
      /\ \A i \in 1 .. Len(disk[fOut].evs) : evs[i] = disk[fOut].evs[i]
      /\ evs[Len(disk[fOut].evs) + 1] = written
  BY <1>4 DEF FileOK
<1> DEFINE c == [evs |-> evs, whole |-> n, foot |-> NoFoot]
<1> HIDE DEF evs
<1>6. /\ n \in Int /\ n \in Short .. Len(evs) /\ c \in Contents
      /\ c.evs = evs /\ c.whole = n /\ c.foot = NoFoot
  <2>1. disk[fOut].whole \in Int /\ disk[fOut].whole >= Short
    BY <1>4 DEF FileOK
  <2>2. n \in Int /\ n \in Short .. Len(evs)
    BY <1>1, <1>5, <2>1
  <2> QED BY <1>5, <2>2 DEF Contents
<1>7. /\ disk' \in [Files -> Contents] /\ disk'[fOut] = c
      /\ \A f \in Files : f # fOut => disk'[f] = disk[f]
  <2>1. disk' = [disk EXCEPT ![fOut] = c]
    BY <1>1
  <2> HIDE DEF c, Contents
  <2> QED BY <1>4, <1>6, <2>1, ChangeFile
<1> HIDE DEF c
<1>8. disk'[fOut].evs = evs /\ disk'[fOut].whole = n /\ disk'[fOut].foot = NoFoot
  BY <1>6, <1>7
<1>9. FileOK(fOut)'
  BY <1>2, <1>5, <1>6, <1>8 DEF FileOK
<1>10. ASSUME fOut \notin mixed PROVE Counts(fOut)' /\ Len(evs) = written + 1
  <2>1. /\ Len(disk[fOut].evs) = written
        /\ \A i \in 1 .. Len(disk[fOut].evs) : disk[fOut].evs[i] = i - 1
    BY <1>2, <1>3, <1>4, <1>10 DEF WriterInv, Counts
  <2>2. \A i \in 1 .. Len(evs) : evs[i] = i - 1
    <3> DEFINE before == disk[fOut].evs
    <3>1. /\ Len(before) = written /\ \A i \in 1 .. Len(before) : before[i] = i - 1
          /\ Len(before) \in Nat /\ Len(evs) = Len(before) + 1
          /\ \A i \in 1 .. Len(before) : evs[i] = before[i]
          /\ evs[Len(before) + 1] = written
      BY <1>4, <1>5, <2>1
    <3> HIDE DEF before
    <3> QED BY <3>1
  <2> QED BY <1>2, <1>5, <1>8, <2>1, <2>2 DEF Counts
<1>11. ASSUME NEW f \in Files, f # fOut
       PROVE  /\ FileOK(f)' /\ (f \in New \ mixed => Counts(f)')
              /\ f \in Old => disk'[f] = Disk[f]
  <2>1. disk'[f] = disk[f]
    BY <1>7, <1>11
  <2>2. FileOK(f) /\ (f \in New \ mixed => Counts(f)) /\ (f \in Old => disk[f] = Disk[f])
    BY <1>3 DEF WriterInv
  <2> QED BY <2>1, <2>2, SameFile
<1>12. WriterInv'
  <2>1. /\ Old \subseteq made /\ made \subseteq Files /\ mixed \cap Old = {} /\ fOut \notin Old
        /\ written + 1 \in Nat
    BY <1>3, <1>4 DEF WriterInv, New
  <2>2. \A f \in Files : FileOK(f)'
    BY <1>2, <1>9, <1>11
  <2>3. \A f \in New \ mixed : Counts(f)'
    BY <1>2, <1>10, <1>11, <2>1 DEF New
  <2>4. \A f \in Old : disk'[f] = Disk[f]
    BY <1>11, <2>1
  <2> HIDE DEF Contents
  <2> QED BY <1>2, <1>4, <1>7, <1>8, <1>10, <2>1, <2>2, <2>3, <2>4 DEF WriterInv, New
<1>13. own => /\ m_file \in Files /\ m_file # fOut /\ m_file \notin mixed /\ m_file \in made
              /\ disk'[m_file] = disk[m_file]
  BY <1>3, <1>7 DEF RawInv, ReadInv, WriterInv
<1> QED BY <1>2, <1>12, <1>13, WriterLeavesReader

(* Frames are encoded, or the writer dies: the files stay as they are.     *)
LEMMA WriterElse ==
  ASSUME RawInv, Writer!WriteBufferEvent \/ Writer!Crash, UNCHANGED decoderVars PROVE RawInv'
<1>1. /\ disk' = disk /\ made' = made
      /\ \/ fOut' = fOut /\ mixed' = mixed \cup {fOut} /\ written' = written + 1
         \/ fOut' = NoFile /\ mixed' = mixed /\ written' = 0
  BY DEF Writer!WriteBufferEvent, Writer!Crash
<1>2. WriterInv
  BY DEF RawInv
<1>3. fOut \notin Old
  BY <1>2 DEF WriterInv, New
<1>4. WriterInv'
  <2>1. mixed' \cap Old = {} /\ mixed \subseteq mixed' /\ written' \in Nat
    BY <1>1, <1>2, <1>3 DEF WriterInv
  <2>2. fOut' \in New' \cup {NoFile} /\ (fOut' # NoFile => fOut' = fOut /\ fOut' \in mixed')
    BY <1>1, <1>2 DEF WriterInv, New
  <2>3. \A f \in Files : FileOK(f)' /\ (f \in New \ mixed => Counts(f)')
    BY <1>1, <1>2 DEF WriterInv, FileOK, Counts
  <2> HIDE DEF Contents
  <2> QED BY <1>1, <1>2, <2>1, <2>2, <2>3 DEF WriterInv, New
<1>5. own => m_file \in Files /\ m_file # fOut /\ m_file \notin mixed /\ m_file \in made
  BY <1>2 DEF RawInv, ReadInv, WriterInv
<1> QED BY <1>1, <1>4, <1>5, WriterLeavesReader

-----------------------------------------------------------------------------
LEMMA ReaderStepRawInv == ASSUME RawInv, ReaderStep PROVE RawInv'
<1>1. /\ UNCHANGED <<made, fOut, mixed, written>> /\ disk' = disk
  BY DEF ReaderStep, writeVars, Open, OpenFails, Close, ReaderGet, GetEvent
<1>2. WriterInv /\ WriterInv'
  BY <1>1, SameWriterInv DEF RawInv
<1>3. ASSUME NEW f \in made \ mixed, Open(f), Restart PROVE RawInv'
  <2>1. f \in Files /\ GoodFile(f) /\ f \in made /\ f \notin mixed
    BY <1>2, <1>3, MadeIsGood
  <2>2. ReaderInv'
    BY <1>3, <2>1, OpenReaderInv DEF RawInv
  <2>3. own' => m_file' = f /\ disk[f].foot # NoFoot
    BY <1>3, <2>1, OpenDecoderInv DEF RawInv, ReaderInv
  <2>4. f = fOut => disk[f].foot = NoFoot
    BY <1>2, <2>1 DEF WriterInv
  <2> QED BY <1>1, <1>2, <2>1, <2>2, <2>3, <2>4 DEF RawInv, ReadInv
<1>4. CASE (OpenFails \/ Close) /\ Restart
  <2>1. ReaderInv' /\ ~own'
    BY <1>4, CloseReaderInv, CloseDecoderInv DEF RawInv, ReaderInv
  <2> QED BY <1>2, <2>1 DEF RawInv, ReadInv
<1>5. ASSUME NEW k \in 0 .. MaxRequest, ReaderGet(k) PROVE RawInv'
  <2>1. ReaderInv'
    BY <1>5, GetReaderInv DEF RawInv
  <2>2. m_file' = m_file /\ own' = own
    BY <1>5 DEF ReaderGet, GetEvent
  <2> QED BY <1>1, <1>2, <2>1, <2>2 DEF RawInv, ReadInv
<1> QED BY <1>3, <1>4, <1>5 DEF ReaderStep

LEMMA NextRawInv == RawInv /\ [RawNext]_rawVars => RawInv'
<1> SUFFICES ASSUME RawInv, [RawNext]_rawVars PROVE RawInv'
  OBVIOUS
<1>1. CASE WriterStep
  BY <1>1, WriterCloses, WriterOpens, WriterWrites, WriterElse DEF WriterStep, Writer!Next
<1>2. CASE ReaderStep
  BY <1>2, ReaderStepRawInv
<1>3. CASE UNCHANGED rawVars
  <2>1. UNCHANGED decoderVars /\ disk' = disk /\ UNCHANGED <<made, mixed, fOut, written>>
    BY <1>3 DEF rawVars, readerVars, vars, writeVars, decoderVars
  <2>2. WriterInv'
    BY <2>1, SameWriterInv DEF RawInv
  <2> QED BY <2>1, <2>2, WriterLeavesReader DEF RawInv, ReadInv
<1> QED BY <1>1, <1>2, <1>3 DEF RawNext

LEMMA RawInvariance == RawSpec => []RawInv
BY InitRawInv, NextRawInv, PTL DEF RawSpec

(* The decoder's state keeps its shape while files are written under it.   *)
(* (daq/src/EventDecoder.cc, Open and GetEvent)                            *)
THEOREM RawTypeOK == RawSpec => []TypeOK
<1>1. RawInv => TypeOK
  BY DEF RawInv, ReaderInv, DecoderInv
<1> QED BY <1>1, RawInvariance, PTL

(* Of a file that was closed when it was opened, GetEvent(k) hands out     *)
(* event k, whatever a writer does meanwhile and whatever unfinished file  *)
(* was opened before.  (daq/src/EventDecoder.cc, GetEvent)                 *)
THEOREM RawRightEvent == RawSpec => []RightEvent
<1>1. RawInv => RightEvent
  BY DEF RawInv, ReaderInv
<1> QED BY <1>1, RawInvariance, PTL

(* No bookmark of a closed file is ever moved by a writer, or left from    *)
(* another file.  (daq/src/EventDecoder.cc, m_events)                      *)
THEOREM RawBookmarksExact == RawSpec => []BookmarksExact
<1>1. RawInv => BookmarksExact
  BY DEF RawInv, ReaderInv
<1> QED BY <1>1, RawInvariance, PTL

(* What is read as event k of a closed file was written as event k.        *)
(* (daq/src/EventDecoder.cc, GetEvent; daq/src/EventEncoder.cc, WriteEvent)*)
THEOREM RawReadAsWritten == RawSpec => []ReadAsWritten
<1>1. RawInv => ReadAsWritten
  <2> SUFFICES ASSUME RawInv, rval >= 0, own, m_file \notin Old PROVE m_evh = rval
    BY DEF ReadAsWritten
  <2>1. m_evh = EventAt(m_file, rval) /\ m_evh # NoEvent /\ rval \in Int
    BY DEF RawInv, ReaderInv, RightEvent, DecoderInv, TypeOK
  <2>2. m_file \in New \ mixed /\ m_file \in Files
    BY DEF RawInv, ReadInv, New, WriterInv
  <2>3. /\ FileOK(m_file)
        /\ \A i \in 1 .. Len(disk[m_file].evs) : disk[m_file].evs[i] = i - 1
    BY <2>2 DEF RawInv, WriterInv, Counts
  <2>4. rval + 1 \in 1 .. Len(disk[m_file].evs) /\ m_evh = disk[m_file].evs[rval + 1]
    BY <2>1, <2>3 DEF EventAt, Stored, FileOK
  <2> QED BY <2>1, <2>3, <2>4
<1> QED BY <1>1, RawInvariance, PTL

(* A footer that is read from its file counts all that the writer, which   *)
(* has closed it, wrote to it, as far as a footer can count.               *)
(* (daq/src/EventEncoder.cc, EncodeRunFoot; daq/src/EventDecoder.cc, Open) *)
THEOREM RawAllEventsOffered == RawSpec => []AllEventsOffered
<1>1. RawInv => AllEventsOffered
  <2> SUFFICES ASSUME RawInv, own PROVE AllEventsOffered
    BY DEF AllEventsOffered
  <2>1. /\ m_file \in made /\ m_file \notin mixed /\ m_file # fOut
        /\ disk[m_file].foot # NoFoot /\ m_totev = disk[m_file].foot
        /\ disk[m_file].whole = Len(disk[m_file].evs)
    BY DEF RawInv, ReadInv, ReaderInv, DecoderInv, OwnFile, GoodFile
  <2>2. disk[m_file].foot \in {NoFoot, Len(disk[m_file].evs) % FootMod}
    BY <2>1 DEF RawInv, WriterInv, New, Counts
  <2> QED BY <2>1, <2>2 DEF Stored, AllEventsOffered
<1> QED BY <1>1, RawInvariance, PTL
=============================================================================
