----------------------------- MODULE FileReader -----------------------------
(***************************************************************************)
(* A caller of EventDecoder that moves through a file the way the decoder  *)
(* can follow: an event beyond the farthest one read so far is asked for   *)
(* only right after that farthest one.  The loops of src/checkevrate.cc,   *)
(* src/dofft.cc, src/caliana.cc and EventDataManager::NextEvent are of     *)
(* this kind, and so is a user who only steps one event back or forth.     *)
(***************************************************************************)
EXTENDS EventDecoderFile

VARIABLES last,        \* the event read last, -1 after Open
          far          \* the farthest event read since Open, -1 after Open

readerVars == <<vars, last, far>>

ReaderInit == Init /\ last = -1 /\ far = -1

Restart == last' = -1 /\ far' = -1

ReaderGet(k) ==
  /\ k <= far \/ last = far
  /\ GetEvent(k)
  /\ IF rval' = -1
       THEN UNCHANGED <<last, far>>
       ELSE last' = k /\ far' = IF k > far THEN k ELSE far

ReaderNext ==
  \/ \E f \in Files : Open(f) /\ Restart
  \/ OpenFails /\ Restart
  \/ Close /\ Restart
  \/ \E k \in 0 .. MaxRequest : ReaderGet(k)

ReaderSpec == ReaderInit /\ [][ReaderNext]_readerVars
=============================================================================
