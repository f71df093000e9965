---------------------------- MODULE EventEncoder ----------------------------
(***************************************************************************)
(* dlardaq::EventEncoder (daq/src/EventEncoder.cc): writes raw data files, *)
(* or encodes frames into memory for EventServer.  Both kinds of event are *)
(* counted by m_totev, which numbers the events and goes into the footer.  *)
(* A file is known by its events' numbers, by how many of them the stream  *)
(* has brought to disk, and by its footer.                                 *)
(***************************************************************************)
EXTENDS Integers, Sequences

CONSTANTS Files, NoFile,
          FootMod,    \* the footer's count is modulo this: 2^16
          MaxEvents   \* bound: events in a file, frames since the last file

NoFoot == -1
Short  == -1          \* not even the run header is on disk

VARIABLES disk,      \* the files: [evs, whole, foot], foot is NoFoot till Close
          made,      \* files that were opened for writing
          fOut,      \* the open one, or NoFile
          m_totev,
          mixed      \* files that were open while frames were encoded

vars == <<disk, made, fOut, m_totev, mixed>>

Empty == [evs |-> <<>>, whole |-> Short, foot |-> NoFoot]

(* Bug form of Footer: the last event is not counted. *)
FooterMisses(n) == IF n = 0 THEN 0 ELSE (n - 1) % FootMod

(* EncodeRunFoot(): two bytes of m_totev *)
Footer(n) == n % FootMod

(* what Close() leaves on disk *)
DiskAfterClose ==
  IF fOut = NoFile
    THEN disk
    ELSE [disk EXCEPT ![fOut] = [evs   |-> @.evs,
                                 whole |-> Len(@.evs),
                                 foot  |-> Footer(m_totev)]]

Close ==
  /\ disk' = DiskAfterClose
  /\ fOut' = NoFile
  /\ m_totev' = 0
  /\ UNCHANGED <<made, mixed>>

(* Bug form of OpenNew: the count goes on. *)
OpenNewCountsOn(f) ==
  /\ f \notin made
  /\ made' = made \cup {f}
  /\ disk' = [DiskAfterClose EXCEPT ![f] = Empty]
  /\ fOut' = f
  /\ UNCHANGED <<m_totev, mixed>>

(* Open of a file that was not there before *)
OpenNew(f) ==
  /\ f \notin made
  /\ made' = made \cup {f}
  /\ disk' = [DiskAfterClose EXCEPT ![f] = Empty]
  /\ fOut' = f
  /\ m_totev' = 0
  /\ UNCHANGED mixed

(* The stream keeps what is written to it till its buffer is full: any     *)
(* part of what it holds may come to disk.                                 *)
WriteEvent ==
  /\ fOut # NoFile
  /\ m_totev < MaxEvents
  /\ LET evs == Append(disk[fOut].evs, m_totev)
     IN  \E n \in disk[fOut].whole .. Len(evs) :
           disk' = [disk EXCEPT ![fOut] = [evs |-> evs, whole |-> n, foot |-> NoFoot]]
  /\ m_totev' = m_totev + 1
  /\ UNCHANGED <<made, fOut, mixed>>

WriteBufferEvent ==
  /\ m_totev < MaxEvents
  /\ m_totev' = m_totev + 1
  /\ mixed' = mixed \cup {fOut}
  /\ UNCHANGED <<disk, made, fOut>>

(* The program dies, with what its stream holds, and starts again. *)
Crash ==
  /\ fOut' = NoFile /\ m_totev' = 0
  /\ UNCHANGED <<disk, made, mixed>>

Init ==
  /\ disk = [f \in Files |-> Empty] /\ made = {}
  /\ fOut = NoFile /\ m_totev = 0 /\ mixed = {}

Next == \/ \E f \in Files : OpenNew(f)
        \/ Close \/ WriteEvent \/ WriteBufferEvent \/ Crash

Spec == Init /\ [][Next]_vars
=============================================================================
