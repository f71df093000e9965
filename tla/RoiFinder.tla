----------------------------- MODULE RoiFinder ------------------------------
(***************************************************************************)
(* Regions of interest in the samples of one channel: RawChDataROI         *)
(* (lowrecon/inc/RawChDataProcess.h, lowrecon/src/RawChDataProcess.cc).    *)
(* Samples are functions on 0 .. n-1 to integers; a region is the half     *)
(* open range of samples first .. second-1.                                *)
(***************************************************************************)
EXTENDS Integers, SequencesExt

CONSTANTS
  Wrap,       \* what size_t and UInt_t wrap around at: beyond every index and time
  PedShare    \* one sample in PedShare makes a pedestal, 10 in the code

ASSUME RoiAssumption == Wrap \in Nat \ {0} /\ PedShare \in Nat \ {0}

Size(data)    == Cardinality(DOMAIN data)
Lowest(data)  == CHOOSE v \in Range(data) : \A w \in Range(data) : v <= w
Indexes(data) == [k \in 1 .. Size(data) |-> k - 1]
Smaller(a, b) == IF a < b THEN a ELSE b

(* Bug form of StepForward: stops one sample early. *)
StepForwardShort(data, lowbound, i) ==
  Min({j \in i .. Size(data) - 1 : j + 1 \in DOMAIN data /\ data[j + 1] < lowbound}
        \cup {Size(data)})

(* Stepping forward from sample i: to the first one below lowbound         *)
StepForward(data, lowbound, i) ==
  Min({j \in i .. Size(data) - 1 : data[j] < lowbound} \cup {Size(data)})

(* Stepping back from sample i: sample 0 is not looked at                  *)
StepBack(data, lowbound, i) ==
  Max({j \in 1 .. i : data[j] < lowbound} \cup {0})

(* Bug form of Outside: stepping back takes nothing away. *)
OutsideKept(ped, start, i) == ped \cup {i}

(* The samples outside of regions, after stepping back from i to start     *)
Outside(ped, start, i) == (ped \cup {i}) \ (start + 1 .. i)

(* FindROI(data, thresh, lowbound): the loop over samples, which jumps     *)
(* behind a region it found.  `ped' are the samples outside of regions.    *)
Scan(data, thresh, lowbound) ==
  LET visit(acc, i) ==
        IF i < acc.next THEN acc
        ELSE IF data[i] <= thresh
          THEN [acc EXCEPT !.next = i + 1, !.ped = @ \cup {i}]
          ELSE LET end   == StepForward(data, lowbound, i)
                   start == StepBack(data, lowbound, i)
               IN  [next |-> end + 1,
                    ped  |-> Outside(acc.ped, start, i),
                    rois |-> IF start < end
                               THEN Append(acc.rois, [first |-> start, second |-> end])
                               ELSE acc.rois]
  IN  FoldLeft(visit, [next |-> 0, ped |-> {}, rois |-> <<>>], Indexes(data))

(* Bug form of PadROI: the left end is not kept clear of the region before. *)
PadROIOverlap(rois, padleft, padright, maxsize) ==
  LET pad(r) == [first  |-> IF r.first < padleft THEN 0 ELSE r.first - padleft,
                 second |-> Smaller(r.second + padright, maxsize)]
  IN  [k \in DOMAIN rois |-> pad(rois[k])]

(* PadROI(): only the first region is kept from starting before sample 0;  *)
(* one that reaches into the region before it starts behind that one.      *)
PadROI(rois, padleft, padright, maxsize) ==
  LET pad(done, r) ==
        LET start == IF done = <<>> /\ r.first < padleft
                       THEN 0
                       ELSE (r.first - padleft) % Wrap
            first == IF done # <<>> /\ Last(done).second >= start
                       THEN Last(done).second + 1
                       ELSE start
        IN  Append(done, [first |-> first,
                          second |-> Smaller(r.second + padright, maxsize)])
  IN  FoldLeft(pad, <<>>, rois)

(* The data fragment of a region: samples with the pedestal subtracted     *)
Fragment(data, roi, ped) ==
  [start |-> roi.first,
   data  |-> [j \in 0 .. roi.second - roi.first - 1 |-> data[roi.first + j] - ped]]

(* The samples the pedestal is taken from: a lower bound that leaves too   *)
(* few of them is replaced by one just above the smallest sample.          *)
PedSamples(data, thresh, lowbound) ==
  LET first == Scan(data, thresh, lowbound).ped
  IN  IF Cardinality(first) < Size(data) \div PedShare /\ Lowest(data) > lowbound
        THEN Scan(data, thresh, Lowest(data) + 1).ped
        ELSE first
=============================================================================
