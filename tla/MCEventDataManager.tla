------------------------- MODULE MCEventDataManager -------------------------
(* A raw file of three events and a ROOT file of two. *)
EXTENDS EventDataManager, TLC

CONSTANTS fRaw, fRoot

MCInputs  == {fRaw, fRoot}
MCBin     == {fRaw}
MCEntries == (fRaw :> 3) @@ (fRoot :> 2)

\* none, the second event, and one past the end
MCStarts  == {None, 1, 7}
=============================================================================
