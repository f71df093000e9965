----------------------------- MODULE MCDataPath -----------------------------
(* The two ends of a reconstructed file, one of which is at work in a      *)
(* behaviour: the event loop that writes it, and the monitor that looks    *)
(* for such files.  Of these there are two, one with the histograms of     *)
(* both items.                                                             *)
EXTENDS MCEventDataManager, Monitor

MCFiles == {"a", "b"}
MCOrder == <<"a", "b">>
MCMaxVersions == [f \in MCFiles |-> IF f = "a" THEN 2 ELSE 1]
MCItems == {"CRP_RecoHits", "CRP_RecoTracks"}
MCHolds == [f \in MCFiles |-> IF f = "a" THEN MCItems ELSE {"CRP_RecoHits"}]

VARIABLE end

pathVars == <<vars, monVars, end>>

PathInit ==
  /\ end \in {"loop", "monitor"}
  /\ Init /\ MonInit
  /\ end = "monitor" => input = fRaw

PathNext ==
  /\ end' = end
  /\ \/ end = "loop" /\ Next /\ UNCHANGED monVars
     \/ end = "monitor" /\ MonNext /\ UNCHANGED vars

PathSpec == PathInit /\ [][PathNext]_pathVars
=============================================================================
