------------------------------ MODULE Sifting -------------------------------
(***************************************************************************)
(* SelectSeq, which the prover knows nothing of, as a fold.                *)
(***************************************************************************)
EXTENDS Integers, SequencesExt

(* The elements of s that are in a set, in their order                     *)
Sift(s, set) == FoldLeft(LAMBDA taken, x : IF x \in set THEN Append(taken, x) ELSE taken, <<>>, s)
=============================================================================
