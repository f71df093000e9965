---------------------------- MODULE MCRecoTasks -----------------------------
EXTENDS RecoChain

(* A channel: seven samples at three levels, below, between and above the  *)
(* thresholds of hits.                                                     *)

MCWaves == [0 .. 6 -> {0, 2, 5}]

Par(guess, t, low, left, right, width, pl, pr) ==
  [guess |-> guess, t1 |-> t, low1 |-> low, t |-> t, low |-> low,
   left |-> left, right |-> right, rms |-> 2, abs1 |-> 1, rel1 |-> 2,
   abs2 |-> 3, rel2 |-> 1, width |-> width, pl |-> pl, pr |-> pr]

MCPars == { Par(TRUE, 1, 1, 1, 1, 3, 1, 1),     \* every level above 0 is a region
            Par(FALSE, 3, 1, 2, 2, 1, 1, 0),    \* regions around the highest level
            Par(TRUE, 3, 3, 1, 0, 1, 0, 1) }    \* regions end between the levels

OtherHit(ch, crm, s) ==
  [ch |-> ch, crm |-> crm, view |-> 0, start |-> s, max |-> s, end |-> s + 1,
   amp |-> 5, win |-> [from |-> s, to |-> s + 1]]

(* a channel below with a gap, and a hit that has the channel's number but *)
(* belongs to another CRM                                                  *)
MCOthers == {OtherHit(1, 0, 1), OtherHit(3, 1, 2)}

(* three hits of one channel, the one in the middle longer                 *)
MCThree == {[OtherHit(1, 0, 0) EXCEPT !.end = 0], [OtherHit(1, 0, 1) EXCEPT !.end = 3],
            OtherHit(1, 0, 4)}
MCChannel == [ch |-> 3, crm |-> 0, view |-> 0]

-----------------------------------------------------------------------------
(* Events of one view: hits [crm, ch, start, veto]                         *)

Hit(crm, ch, y) == [crm |-> crm, view |-> 0, ch |-> ch, start |-> y, end |-> y, veto |-> FALSE]
Vetoed(h) == [h EXCEPT !.veto = TRUE]

(* two lines that cross, in one module                                     *)
Crossing == << Hit(0, 1, 1), Hit(0, 1, 3), Hit(0, 2, 2), Hit(0, 3, 1), Hit(0, 3, 3), Hit(0, 4, 4) >>
(* a channel without a hit on the line, a masked hit, hits aside           *)
Gaps == << Hit(0, 1, 1), Hit(0, 2, 1), Vetoed(Hit(0, 3, 1)), Hit(0, 3, 2), Hit(0, 5, 2), Hit(0, 6, 3) >>
(* two short pieces of a line                                              *)
Pieces == << Hit(0, 1, 1), Hit(0, 2, 1), Hit(0, 3, 1), Hit(0, 5, 3), Hit(0, 6, 3), Hit(0, 7, 3) >>
(* two hits on every channel                                               *)
Doubles == << Hit(0, 1, 1), Hit(0, 1, 2), Hit(0, 2, 1), Hit(0, 2, 2) >>
(* channels with several hits at both ends                                 *)
BothEnds == << Hit(0, 1, 1), Hit(0, 1, 2), Hit(0, 2, 1), Hit(0, 2, 2), Hit(0, 3, 1),
            Hit(0, 4, 1), Hit(0, 4, 2), Hit(0, 5, 1), Hit(0, 5, 2), Hit(0, 5, 3) >>
(* a track through three modules, hits of the first in two pieces          *)
Through == << Hit(0, 1, 1), Hit(0, 2, 1), Hit(0, 3, 2), Hit(0, 4, 2),
              Hit(1, 7, 3), Hit(1, 8, 3), Hit(1, 9, 4),
              Hit(2, 1, 5), Hit(2, 2, 5), Hit(2, 3, 6) >>
(* clusters one tick too far apart, a lone hit, one that is too small      *)
Scattered == << Hit(0, 5, 1), Hit(0, 1, 1), Hit(0, 3, 1), Hit(0, 3, 4), Hit(0, 2, 4),
                Hit(0, 1, 4), Hit(1, 9, 9), Hit(1, 11, 4), Hit(1, 12, 4), Hit(0, 20, 1) >>

(* all events with these hits on five channels, after a seed               *)
Columns == { <<1>>, <<1, 3>>, <<>>, <<2>> }
OnChannel(ch, ys) == [k \in DOMAIN ys |-> Hit(0, ch, ys[k])]
Grid == { << Hit(0, 1, 1), Hit(0, 1, 3), Hit(0, 2, 2) >>
            \o FlattenSeq([ch \in 1 .. 3 |-> OnChannel(ch + 2, cols[ch])]) :
            cols \in [1 .. 3 -> Columns] }

MCInputs == {Crossing, Gaps, Pieces, Doubles, BothEnds, Through, Scattered} \cup Grid
MCPredictions == 1 .. 6

-----------------------------------------------------------------------------
(* Files for the display: a track that goes from CRM 0 to 1 and back, with *)
(* delta rays, hits of both CRMs mixed; one CRM; files without events, or  *)
(* without the hits of a view; the second view has no tracks, or hits      *)
(* only.                                                                   *)
TrackOf(hs, rays) == [hits |-> hs, drays |-> rays]
MixedView  == [hits |-> <<1, 0, 0, 1, 0, 1, 0>>,
               trks |-> <<TrackOf(<<2, 3, 4, 5>>, <<6, 7>>), TrackOf(<<1>>, <<>>)>>]
OneCRMView == [hits |-> <<0, 0, 0>>, trks |-> <<TrackOf(<<3, 1>>, <<2>>)>>]
EmptyView  == [hits |-> <<>>, trks |-> <<>>]
MCEvents   == {[v \in 0 .. 1 |-> IF v = 0 THEN a ELSE b] :
                 a, b \in {MixedView, OneCRMView, EmptyView}}
MCRecoFiles ==
  {[crms |-> 2, hits |-> {0, 1}, tracks |-> ts, events |-> evs] :
      ts \in {{}, {0}, {0, 1}}, evs \in UNION {[1 .. n -> MCEvents] : n \in 1 .. 2}}
    \cup {[crms |-> 2, hits |-> hs, tracks |-> {0, 1}, events |-> <<e, f, e, f>>] :
      hs \in SUBSET {0, 1}, e, f \in MCEvents}
    \cup {[crms |-> 2, hits |-> {0, 1}, tracks |-> {}, events |-> <<>>]}
=============================================================================
