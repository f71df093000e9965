----------------------------- MODULE RecoTasks ------------------------------
(***************************************************************************)
(* The tasks recotask runs on an event (src/recotask.cc): each does all of *)
(* its work in ProcessEvent before the next one starts.  HitRecoTask adds  *)
(* hits to the event; CRTrackRecoTask takes its hits from the event, where *)
(* those of every channel are, or those of an earlier run of the program.  *)
(***************************************************************************)
EXTENDS HitReco, CRTrackReco

recoVars == <<hitVars, trackVars>>

RecoInit == HitInit /\ TrackInit

RecoNext ==
  \/ step = "idle" /\ HitNext /\ UNCHANGED trackVars
  \/ stage = "idle" /\ TrackNext /\ UNCHANGED hitVars

RecoSpec == RecoInit /\ [][RecoNext]_recoVars
=============================================================================
