---------------------------- MODULE MCRawDisplay ----------------------------
(* The two halves of the display of raw data, one of which moves in a      *)
(* behaviour: the viewer that goes through a file, and the samples of an   *)
(* event on their way to the strips that are drawn.                        *)
(* The files: one of five events, one that was closed without any, and two *)
(* whose writer is at work or died: of one the run header is not on disk,  *)
(* of the other two of three events are, and its last bytes may look like  *)
(* a footer.                                                               *)
EXTENDS RawViewer, MCWireEvent, TLC

CONSTANTS fLong, fEmpty, fShort, fCut

MCFiles == {fLong, fEmpty, fShort, fCut}

MCDisk ==
  (fLong  :> [evs |-> <<10, 11, 12, 13, 14>>, whole |-> 5,     foot |-> 5]) @@
  (fEmpty :> [evs |-> <<>>,                   whole |-> 0,     foot |-> 0]) @@
  (fShort :> [evs |-> <<20>>,                 whole |-> Short, foot |-> NoFoot]) @@
  (fCut   :> [evs |-> <<30, 31, 32>>,         whole |-> 2,     foot |-> NoFoot])

VARIABLE half

displayVars == <<allVars, wireVars, half>>

DisplayInit ==
  /\ half \in {"viewer", "samples"}
  /\ ViewerInit /\ WireInit
  /\ half = "viewer" => setup = QuietSetup

DisplayNext ==
  /\ half' = half
  /\ \/ half = "viewer" /\ ViewerNext /\ UNCHANGED wireVars
     \/ half = "samples" /\ WireNext /\ UNCHANGED allVars

DisplaySpec == DisplayInit /\ [][DisplayNext]_displayVars /\ ViewerFairness
=============================================================================
