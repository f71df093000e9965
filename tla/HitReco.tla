------------------------------ MODULE HitReco -------------------------------
(***************************************************************************)
(* Hits of one channel from its samples, as HitRecoTask finds them         *)
(* (tasks/src/HitRecoTask.cc, FindHitsView and FindHitsCh; HitRecon of     *)
(* lowrecon does the same), and the collection that hits of several        *)
(* channels are put into by their readers, in any order.                   *)
(*                                                                         *)
(* The thresholds the code computes from pedestal and noise are floating   *)
(* point; they are chosen from a set.  The pedestal itself is 0.           *)
(***************************************************************************)
EXTENDS MultiHit, HitCollection

CONSTANTS
  Waves,      \* what the channel may have recorded, functions on 0 .. n-1
  Pars,       \* thresholds, see Par below
  Cuts,       \* where zero suppressed data are cut into fragments
  Others,     \* hits of other channels
  Channel     \* [ch, crm, view] of this channel

(* guess: the pedestal is found from the samples, first with the region    *)
(* thresholds t1 and low1; t, low: the region thresholds; left, right: the *)
(* padding of regions; rms, abs1, rel1, abs2, rel2, width, pl, pr: the     *)
(* parameters of the hit finder.                                           *)
ParFields == {"guess", "t1", "low1", "t", "low", "left", "right",
              "rms", "abs1", "rel1", "abs2", "rel2", "width", "pl", "pr"}

SameChannel(a, b) == a.ch = b.ch /\ a.crm = b.crm /\ a.view = b.view

(* Hits of one channel share no sample, whichever channel it is.  The noise *)
(* is a root mean square, never negative, so that Algorithm does not return *)
(* at once (AlgoMultiHit.cc:76).                                           *)
ASSUME HitRecoAssumption ==
  /\ \A w \in Waves :
       /\ Size(w) \in 0 .. Wrap - 1 /\ w \in [0 .. Size(w) - 1 -> Int]
       /\ Cuts \subseteq 0 .. Size(w)
  /\ \A p \in Pars :
       /\ DOMAIN p = ParFields
       /\ p.guess \in BOOLEAN
       /\ \A f \in {"t1", "low1", "t", "low", "rms", "abs1", "rel1", "abs2", "rel2"} : p[f] \in Int
       /\ p.rms >= 0
       /\ \A f \in {"left", "right", "width", "pl", "pr"} : p[f] \in Nat
  /\ Channel \in [ch : Nat, crm : Int, view : Int]
  /\ \A h \in Others : h.ch \in Nat /\ h.crm \in Int /\ h.view \in Int
  /\ \A h \in Others : h.start \in Int /\ h.end \in Int /\ h.start <= h.end
  /\ \A h \in Others : ~SameChannel(h, Channel)
  /\ \A g, h \in Others : SameChannel(g, h) /\ g # h => g.end < h.start \/ h.end < g.start

VARIABLES wave, par, stage, ped, rois, frags, hits, pending,
          coll      \* the collection

hitVars == <<wave, par, stage, ped, rois, frags, hits, pending, coll>>

Th1 == Threshold(par.abs1, par.rel1, par.rms)
Th2 == Threshold(par.abs2, par.rel2, par.rms)

HitInit ==
  /\ wave = <<>> /\ par = <<>>
  /\ stage = "idle"
  /\ ped = {} /\ rois = <<>> /\ frags = <<>> /\ hits = <<>> /\ pending = {}
  /\ coll = EmptyCollection

(* The data of a channel of the event, with the parameters of the run      *)
TakeChannel ==
  /\ stage = "idle"
  /\ wave' \in Waves /\ par' \in Pars
  /\ stage' = "raw"
  /\ UNCHANGED <<ped, rois, frags, hits, pending, coll>>

(* All samples of the channel are there (FULLDATA): RawChDataROI::FindROI, *)
(* with a pedestal from elsewhere or from the samples outside of regions.  *)
FindROI ==
  /\ stage = "raw"
  /\ ped' = IF par.guess THEN PedSamples(wave, par.t1, par.low1) ELSE {}
  /\ rois' = Scan(wave, par.t, par.low).rois
  /\ LET padded == PadROI(rois', par.left, par.right, Size(wave))
     IN  frags' = [k \in DOMAIN padded |-> Fragment(wave, padded[k], 0)]
  /\ stage' = "frags"
  /\ UNCHANGED <<wave, par, hits, pending, coll>>

(* Zero suppressed data (ZSDATA) come as the fragments the card kept       *)
TakeFragments ==
  /\ stage = "raw"
  /\ \E cut \in Cuts :
       frags' = << Fragment(wave, [first |-> 0, second |-> cut], 0),
                   Fragment(wave, [first |-> cut, second |-> Size(wave)], 0) >>
  /\ stage' = "frags"
  /\ UNCHANGED <<wave, par, ped, rois, hits, pending, coll>>

(* The full data of a channel do not start at sample 0, or its status is    *)
(* none of the two: an error, and there are no regions.                    *)
NotTreated ==
  /\ stage = "raw"
  /\ frags' = <<>>
  /\ stage' = "frags"
  /\ UNCHANGED <<wave, par, ped, rois, hits, pending, coll>>

(* The hits of a channel get its CRM, view and number.                     *)
SetChannel(h) ==
  [ch |-> Channel.ch, crm |-> Channel.crm, view |-> Channel.view,
   start |-> h.start, max |-> h.max, end |-> h.end, amp |-> h.amp, win |-> h.win]

(* The loop over fragments                                                 *)
FindHitsCh ==
  /\ stage = "frags"
  /\ hits' = FlattenSeq([k \in DOMAIN frags |->
                           FindHits(frags[k], Th1, Th2, par.width, par.pl, par.pr)])
  /\ pending' = Others \cup {SetChannel(hits'[k]) : k \in DOMAIN hits'}
  /\ stage' = "collect"
  /\ UNCHANGED <<wave, par, ped, rois, frags, coll>>

Collect ==
  /\ stage = "collect"
  /\ \E h \in pending : coll' = AddHit(coll, h) /\ pending' = pending \ {h}
  /\ UNCHANGED <<wave, par, stage, ped, rois, frags, hits>>

(* the next event *)
ResetCollection ==
  /\ stage = "collect" /\ pending = {}
  /\ wave' = <<>> /\ par' = <<>>
  /\ ped' = {} /\ rois' = <<>> /\ frags' = <<>> /\ hits' = <<>>
  /\ coll' = EmptyCollection
  /\ stage' = "idle"
  /\ UNCHANGED pending

HitNext ==
  \/ TakeChannel \/ FindROI \/ TakeFragments \/ NotTreated
  \/ FindHitsCh \/ Collect \/ ResetCollection

HitSpec == HitInit /\ [][HitNext]_hitVars

-----------------------------------------------------------------------------
Samples(f) == {f.start + j : j \in DOMAIN f.data}
Recorded == DOMAIN wave

(* The samples a pedestal is taken from are outside of the regions found   *)
(* with the same bounds; the first sample of a region is below the lower   *)
(* bound, or it is sample 0, which the search for the start of a region    *)
(* does not look at and which may be signal.                               *)
(* (lowrecon/inc/RawChDataProcess.h:246, "refine pedestal and rms          *)
(* calculation excluding found ROI")                                       *)
PedestalIsQuiet ==
  (rois # <<>> /\ par.guess /\ par.t = par.t1 /\ par.low = par.low1 /\ Lowest(wave) <= par.low) =>
    \A k \in DOMAIN rois : ped \cap (rois[k].first + 1 .. rois[k].second) = {}

(* Fragments are in order and share no sample, whatever the padding does.  *)
FragmentsApart ==
  \A k, m \in DOMAIN frags : k < m =>
    /\ Samples(frags[k]) \cap Samples(frags[m]) = {}
    /\ Samples(frags[k]) \cup Samples(frags[m]) \subseteq Recorded

(* Every sample above the threshold of the regions is in a fragment, but   *)
(* for two losses: the sample on the border of a region that ran into the  *)
(* one before, and a region, not the first one, that starts less than the  *)
(* left padding after sample 0: unsigned, it then starts far beyond.  What *)
(* its right padding reaches into is lost with it, as the region behind is *)
(* kept from starting there.                                               *)
(* (lowrecon/src/RawChDataProcess.cc, PadROI)                              *)
SignalKept ==
  (rois # <<>> /\ par.low <= par.t) =>
    \A i \in Recorded :
      wave[i] > par.t =>
        \/ \E k \in DOMAIN frags : i \in Samples(frags[k])
        \/ \E k \in DOMAIN rois \ {1} :
             \/ i = frags[k].start - 1
             \/ /\ rois[k].first < par.left
                /\ i \in rois[k].first .. Smaller(rois[k].second + par.right, Size(wave))

(* What is left outside of the regions is quiet, what is inside is signal  *)
(* that is kept in fragments and handed on once.                           *)
RegionsOfInterest == PedestalIsQuiet /\ FragmentsApart /\ SignalKept

(* Maximal runs of samples above the threshold of hits inside a fragment,  *)
(* those that reach its end left out                                       *)
Pulses(f) ==
  {p \in Samples(f) \X Samples(f) :
     /\ p[1] <= p[2]
     /\ \A i \in p[1] .. p[2] : wave[i] > Th1
     /\ p[1] = f.start \/ wave[p[1] - 1] <= Th1
     /\ p[2] + 1 \in Samples(f) /\ wave[p[2] + 1] <= Th1}

HitSpan(h) == h.start .. h.end

(* The hits are the pulses: each pulse that is wide enough is one hit or   *)
(* is divided among several without a gap, and all hits are such.  A pulse *)
(* that is still above threshold where the fragment ends is lost.          *)
(* (lowrecon/src/AlgoMultiHit.cc, Algorithm)                               *)
HitsArePulses ==
  stage = "collect" =>
    LET all == UNION {Pulses(frags[k]) : k \in DOMAIN frags}
        divided(p) == {k \in DOMAIN hits : HitSpan(hits[k]) \subseteq p[1] .. p[2]}
        spans(ks) == UNION {HitSpan(hits[k]) : k \in ks}
    IN  /\ \A p \in all : p[2] - p[1] + 1 >= par.width =>
             spans(divided(p)) = p[1] .. p[2]
        /\ \A k \in DOMAIN hits :
             \/ \E p \in all : k \in divided(p)
             \/ \E f \in Range(frags) :      \* the first ones of a pulse that is cut off
                  /\ HitSpan(hits[k]) \subseteq Samples(f)
                  /\ \A i \in hits[k].start .. f.start + Size(f.data) - 1 : wave[i] > Th1

(* Hits of a channel are in order of time and share no sample, and the     *)
(* peak of each is the highest of its samples and among them.              *)
HitsInOrder ==
  /\ \A k \in DOMAIN hits \ {1} : hits[k - 1].end < hits[k].start
  /\ \A k \in DOMAIN hits :
       /\ hits[k].max \in HitSpan(hits[k])
       /\ hits[k].amp = wave[hits[k].max]
       /\ \A i \in HitSpan(hits[k]) : wave[i] <= hits[k].amp

(* Charge is counted once: windows of neighbours have at most the sample   *)
(* in the middle in common, unless the later one starts less than the left *)
(* padding after its fragment does.                                        *)
(* (lowrecon/src/AlgoMultiHit.cc, FinalizeHits)                            *)
ChargeCountedOnce ==
  \A k \in DOMAIN hits \ {1} :
    LET f == CHOOSE g \in Range(frags) : hits[k].start \in Samples(g)
    IN  hits[k].start - f.start >= par.pl => hits[k - 1].win.to <= hits[k].win.from

(* The hits of a channel divide its pulses, and their charge is that of    *)
(* the pulses.                                                             *)
HitsFound == HitsArePulses /\ HitsInOrder /\ ChargeCountedOnce

-----------------------------------------------------------------------------
(* The collection is one block without gaps, its channels in order, the    *)
(* hits of each, none twice, its own and in order of time; its counts are  *)
(* right.                                                                  *)
(* (datautils/src/HitCollection.cc)                                        *)
CollectionInOrder ==
  /\ coll.fNch = Len(coll.fHits)
  /\ coll.fHits # <<>> => coll.fNch = coll.fChEnd - coll.fChStart + 1
  /\ \A k \in DOMAIN coll.fHits :
       /\ coll.fHits[k].fChId \in {-1, coll.fChStart + k - 1}
       /\ IsInjective(coll.fHits[k].fHits)
       /\ \A h \in Range(coll.fHits[k].fHits) : h.ch = coll.fHits[k].fChId
       /\ \A m \in DOMAIN coll.fHits[k].fHits \ {1} :
            coll.fHits[k].fHits[m - 1].start <= coll.fHits[k].fHits[m].start
  /\ coll.fNhits = Len(coll.fHitChCoord)

(* Nothing added is lost or doubled but hits whose channel belongs to      *)
(* another CRM or view.                                                    *)
NothingLost ==
  stage = "collect" =>
    LET added == (Others \cup {SetChannel(hits[k]) : k \in DOMAIN hits}) \ pending
        held  == UNION {Range(coll.fHits[k].fHits) : k \in DOMAIN coll.fHits}
    IN  /\ held \subseteq added /\ Cardinality(held) = coll.fNhits
        /\ \A h \in added \ held : \E g \in held : g.ch = h.ch /\ ~Matches(coll.fHits[h.ch - coll.fChStart + 1], h)

(* In whatever order hits are added, the collection holds them, once, in   *)
(* the order its readers rely on.                                          *)
CollectionHoldsHits == CollectionInOrder /\ NothingLost

(* The hit for a clock tick is the one that starts nearest to it, but for  *)
(* a tick no later than the end of the first hit, which has the first.     *)
(* (datautils/src/HitCollection.cc:176, "find the closest hit to the start *)
(* edge")                                                                  *)
ClosestHit ==
  \A k \in DOMAIN coll.fHits :
    LET hs == coll.fHits[k].fHits
    IN  hs # <<>> => \A tick \in Recorded :
          LET c == GetClosestHit(hs, tick)
          IN  \/ c = 1 /\ tick <= hs[1].end
              \/ \A h \in Range(hs) : Distance(hs[c].start, tick) <= Distance(h.start, tick)

(* "Get closest hit based on time tick" (datautils/inc/HitCollection.h:87):*)
(* no hit is closer to a tick than one the tick is inside of.              *)
HitAroundTick ==
  \A k \in DOMAIN coll.fHits :
    LET hs == coll.fHits[k].fHits
    IN  \A m \in DOMAIN hs : \A tick \in Recorded \cap HitSpan(hs[m]) :
          GetClosestHit(hs, tick) = m
=============================================================================
