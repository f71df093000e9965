---------------------------- MODULE ChannelMap311 ----------------------------
(***************************************************************************)
(* From the channels of the readout to the strips of the two views, and    *)
(* back (daq/src/ChannelMap.cc).  A map is the record of its sizes:        *)
(* Crates crates of CardPerCrate cards of ChPerCard channels, 4, 5 and 64  *)
(* for the 3x1x1 detector.  Crate 0 reads view 0, the others view 1.       *)
(***************************************************************************)
EXTENDS Integers, FiniteSetsExt

ChPerCrate(m)  == m.ChPerCard * m.CardPerCrate
Half(m)        == m.ChPerCard \div 2
Offset(m)      == m.CardPerCrate * Half(m)
MaxCRMs        == 1
MaxViews       == 2
ChPerView(m)   == [view \in 0 .. MaxViews - 1 |->
                     IF view = 0 THEN ChPerCrate(m) ELSE (m.Crates - 1) * ChPerCrate(m)]
MaxChPerView(m) == Max({ChPerView(m)[0], ChPerView(m)[1]})

DAQChannels(m) == [crate : 0 .. m.Crates - 1, card : 0 .. m.CardPerCrate - 1,
                   ch : 0 .. m.ChPerCard - 1]

(* MapToCRP(crate, card, ch): the halves of the cards make two groups,     *)
(* which change places in view 1; view 0 is counted backwards.             *)
StripOf(m, d) ==
  LET low   == d.ch < Half(m)
      tmp1  == IF d.crate = 0 THEN 0 ELSE (d.crate - 1) * ChPerCrate(m)
      tmp2  == IF low = (d.crate = 0) THEN 0 ELSE Offset(m)
      tmp3  == IF low THEN d.ch ELSE d.ch - Half(m)
      chv   == d.card * Half(m) + tmp1 + tmp2 + tmp3
  IN  [view |-> IF d.crate = 0 THEN 0 ELSE 1,
       chv  |-> IF d.crate = 0 THEN ChPerCrate(m) - 1 - chv ELSE chv]

(* MapToCRP(seqch): channel seqch of the data of an event *)
ChannelAt(m, seqch) ==
  LET crate == seqch \div ChPerCrate(m)
      card  == (seqch - crate * ChPerCrate(m)) \div m.ChPerCard
  IN  [crate |-> crate, card |-> card,
       ch    |-> seqch - crate * ChPerCrate(m) - card * m.ChPerCard]

SeqChannels(m)     == 0 .. m.Crates * ChPerCrate(m) - 1
SeqChannelOf(m, d) == d.crate * ChPerCrate(m) + d.card * m.ChPerCard + d.ch

(* CheckCRPInputs, which tests the view where it means to test the channel *)
CheckCRPInputs(m, crm, view, ch) ==
  /\ crm \in 0 .. MaxCRMs - 1
  /\ view \in 0 .. MaxViews - 1
  /\ view < MaxChPerView(m)

(* ViewChansCRM::CheckSize *)
CheckSize(m, view, chv) == view \in 0 .. MaxViews - 1 /\ chv \in 0 .. ChPerView(m)[view] - 1

(* The channels for which InitMap() sets a strip: it asks MapToCRP for all *)
SetFor(m, view, chv) == {d \in DAQChannels(m) : StripOf(m, d) = [view |-> view, chv |-> chv]}

(* InitMap() ends the program unless it set as many strips as a view has.  *)
InitMapOk(m) ==
  \A view \in 0 .. MaxViews - 1 :
     Cardinality({d \in DAQChannels(m) :
                    /\ StripOf(m, d).view = view
                    /\ CheckSize(m, view, StripOf(m, d).chv)}) = ChPerView(m)[view]

NoChannel == -1

(* Bug form of MapToDAQFile: the strips of both views are in one row, which *)
(* is looked up without its bounds.                                        *)
MapToDAQFileRow(m, crm, view, chv) ==
  LET row(s) == s.chv + (IF s.view = 0 THEN 0 ELSE ChPerView(m)[0])
      found  == {d \in DAQChannels(m) : row(StripOf(m, d)) = row([view |-> view, chv |-> chv])}
  IN  IF CheckCRPInputs(m, crm, view, chv) /\ found # {}
        THEN Max({SeqChannelOf(m, d) : d \in found})
        ELSE NoChannel

(* MapToDAQFile: the place of a strip in the data of an event, or -1; the  *)
(* channel that was set last counts                                        *)
MapToDAQFile(m, crm, view, chv) ==
  IF /\ CheckCRPInputs(m, crm, view, chv)
     /\ CheckSize(m, view, chv)
     /\ SetFor(m, view, chv) # {}
    THEN Max({SeqChannelOf(m, d) : d \in SetFor(m, view, chv)})
    ELSE NoChannel
=============================================================================
