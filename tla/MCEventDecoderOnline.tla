------------------------ MODULE MCEventDecoderOnline ------------------------
(* Six events over two runs: one of three data units, one of one, one with *)
(* an empty payload, two of two and one of one.                            *)
EXTENDS EventDecoderOnline

MCSize == <<3, 1, 0, 2, 2, 1>>
MCRun  == <<1, 1, 2, 2, 2, 2>>

(* the first data units of event 5 are all saturated samples *)
MCSaturated == {Unit(5, 1)}
=============================================================================
