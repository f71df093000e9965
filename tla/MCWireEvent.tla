----------------------------- MODULE MCWireEvent -----------------------------
(* Two settings.  One for the code: two channels of seven samples, the     *)
(* first of which takes every row of six steps: none, up by the most there *)
(* is a code for, and too far for a code; then the second, which also goes *)
(* down by one.  One for the map: eight channels of two samples in two     *)
(* crates of two cards, and a geometry file that has a strip too many in   *)
(* view 0 and one too few in view 1; some events of it are so short that   *)
(* they are given up.                                                      *)
EXTENDS WireEvent

MCSteps == {0, 3, 50}
Wave(steps) == [i \in 1 .. 7 |-> 3500 + FoldLeft(LAMBDA a, b : a + b, 0, SubSeq(steps, 1, i - 1))]
Leaps == <<0, 4095, 15, 4080, 240, 4000, 17>>
Falls == <<9, 7, 4, 2, 0, 1, 4>>

CodeSetup ==
  [map |-> [Crates |-> 1, CardPerCrate |-> 1, ChPerCard |-> 2], nsample |-> 7,
   strips |-> [v \in 0 .. 1 |-> IF v = 0 THEN 2 ELSE 0],
   events |-> <<{<<Wave(steps), other>> : steps \in [1 .. 6 -> MCSteps],
                                          other \in {Falls}}
                  \cup {<<other, Wave(steps)>> : steps \in [1 .. 6 -> {0, -1}],
                                                 other \in {Leaps, Falls}}>>]

Level(ch)  == <<100 + ch, 100 + ch>>
Steep(ch)    == <<200 + 10 * ch, 4000 - ch>>
MapSetup ==
  [map |-> [Crates |-> 2, CardPerCrate |-> 2, ChPerCard |-> 2], nsample |-> 2,
   strips |-> [v \in 0 .. 1 |-> IF v = 0 THEN 5 ELSE 3],
   events |-> << {[c \in 1 .. 8 |-> Steep(c)]},
                 {[c \in 1 .. 8 |-> IF c \in short THEN Level(c) ELSE Steep(9 - c)] :
                    short \in SUBSET (1 .. 8)} >>]

(* and one in which nothing is sent *)
QuietSetup ==
  [map |-> [Crates |-> 1, CardPerCrate |-> 1, ChPerCard |-> 1], nsample |-> 0,
   strips |-> [v \in 0 .. 1 |-> 0], events |-> <<>>]

MCSetups == {CodeSetup, MapSetup, QuietSetup}
=============================================================================
