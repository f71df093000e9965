----------------------------- MODULE MCRawFiles -----------------------------
(* From an earlier run a file of five events whose footer can count but   *)
(* two of them; two more files to be written.                            *)
EXTENDS RawFiles, TLC

CONSTANTS fWrapped, f1, f2

MCOld   == {fWrapped}
MCFiles == {fWrapped, f1, f2}

MCDisk ==
  (fWrapped :> [evs |-> <<30, 31, 32, 33, 34>>, whole |-> 5, foot |-> 2]) @@
  [f \in {f1, f2} |-> [evs |-> <<>>, whole |-> Short, foot |-> NoFoot]]

MCSymmetry == Permutations({f1, f2})
=============================================================================
