------------------------------ MODULE RecoChain ------------------------------
(***************************************************************************)
(* Programs of the reconstruction, one at a time: recotask with its tasks, *)
(* and recoviewer on a file that holds their hits and tracks.              *)
(***************************************************************************)
EXTENDS RecoTasks, RecoViewer

chainVars == <<recoVars, recoViewVars>>

ChainInit == RecoInit /\ RecoViewInit

ChainNext ==
  \/ viewer = "closed" /\ RecoNext /\ UNCHANGED recoViewVars
  \/ stage = "idle" /\ step = "idle" /\ RecoViewNext /\ UNCHANGED recoVars

ChainSpec == ChainInit /\ [][ChainNext]_chainVars
=============================================================================
