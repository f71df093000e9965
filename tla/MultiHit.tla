------------------------------ MODULE MultiHit ------------------------------
(***************************************************************************)
(* The hit finder AlgoMultiHit (lowrecon/src/AlgoMultiHit.cc): pulses      *)
(* above a threshold in the samples of one fragment, split where they have *)
(* a minimum that is deep enough, and the windows their charge is          *)
(* integrated over.                                                        *)
(***************************************************************************)
EXTENDS RoiFinder

(* The thresholds above the pedestal: in ADC counts or, if that is less,   *)
(* in units of the noise, but at least one count.                          *)
Threshold(abs, rel, rms) ==
  IF rms = 0 THEN 1 ELSE Max({1, Smaller(abs, rel * rms)})

NewHit(start, i, d) == [start |-> start, max |-> i, end |-> 0, amp |-> d]

(* Bug form of Split: both hits get the minimum. *)
SplitShared(hit, minSample) == [hit EXCEPT !.end = minSample]

(* A hit that ends at a minimum, which belongs to the next one             *)
Split(hit, minSample) == [hit EXCEPT !.end = minSample - 1]

(* Sample i above threshold: starts a hit, deepens the minimum behind the  *)
(* peak, closes the hit at that minimum when the signal rises again, or    *)
(* raises the peak.                                                        *)
AboveThreshold(st, i, d, th2) ==
  LET a == IF st.hitFlag THEN st
           ELSE [st EXCEPT !.hitFlag = TRUE, !.single = TRUE,
                           !.hit = NewHit(i, i, d), !.minSample = -1]
      b == IF /\ i > a.hit.max
              /\ d < a.hit.amp - th2
              /\ a.minSample = -1 \/ a.minimum >= d
             THEN [a EXCEPT !.minSample = i, !.minimum = d]
             ELSE a
      c == IF b.minSample >= 0 /\ i > b.minSample /\ d > b.minimum + th2
             THEN [b EXCEPT !.hits = Append(@, Split(b.hit, b.minSample)),
                            !.single = FALSE,
                            !.hit = NewHit(b.minSample, i, d),
                            !.minSample = -1]
             ELSE b
  IN  IF c.hit.end = 0 /\ d > c.hit.amp
        THEN [c EXCEPT !.hit.max = i, !.hit.amp = d]
        ELSE c

(* Bug form of BelowThreshold: the last hit of a group must be wide, too. *)
BelowThresholdStrict(st, i, minWidth) ==
  IF st.hitFlag
    THEN [st EXCEPT !.hitFlag = FALSE,
                    !.hits = IF i - st.hit.start >= minWidth
                               THEN Append(@, [st.hit EXCEPT !.end = i - 1])
                               ELSE @]
    ELSE st

(* Sample i below threshold: closes the hit, a single one if it is wide    *)
(* enough.                                                                 *)
BelowThreshold(st, i, minWidth) ==
  IF st.hitFlag
    THEN [st EXCEPT !.hitFlag = FALSE,
                    !.hits = IF ~st.single \/ i - st.hit.start >= minWidth
                               THEN Append(@, [st.hit EXCEPT !.end = i - 1])
                               ELSE @]
    ELSE st

(* Algorithm(): a hit that is still open after the last sample is dropped. *)
Algorithm(data, th1, th2, minWidth) ==
  LET step(st, i) == IF data[i] > th1
                       THEN AboveThreshold(st, i, data[i], th2)
                       ELSE BelowThreshold(st, i, minWidth)
      start == [hitFlag |-> FALSE, single |-> TRUE, hit |-> NewHit(0, 0, 0),
                minimum |-> 1000, minSample |-> -1, hits |-> <<>>]
  IN  FoldLeft(step, start, Indexes(data)).hits

(* The middle between two neighbours, where their windows meet             *)
Middle(left, right) == (left.end + right.start) \div 2 + 1

(* Bug form of Window: neighbours are not looked at. *)
WindowFree(hits, k, n, padLeft, padRight) ==
  [from |-> IF hits[k].start > padLeft THEN hits[k].start - padLeft ELSE 0,
   to   |-> Smaller(hits[k].end + padRight, n - 1)]

(* The samples, both ends included, the charge of hit k is summed over.    *)
(* The subtraction for the next hit is one of unsigned numbers.            *)
Window(hits, k, n, padLeft, padRight) ==
  LET h     == hits[k]
      left  == IF h.start > padLeft THEN h.start - padLeft ELSE 0
      right == Smaller(h.end + padRight, n - 1)
      from  == IF k > 1 /\ left <= hits[k - 1].end + padRight
                 THEN Middle(hits[k - 1], h) ELSE left
      to    == IF k < Len(hits) /\ right >= (hits[k + 1].start - padLeft) % Wrap
                 THEN Middle(h, hits[k + 1]) ELSE right
  IN  IF from >= to THEN [from |-> h.start, to |-> h.end] ELSE [from |-> from, to |-> to]

(* FinalizeHits() also moves times from the fragment's to the channel's.   *)
FinalizeHits(hits, tStart, n, padLeft, padRight) ==
  [k \in DOMAIN hits |->
     LET w == Window(hits, k, n, padLeft, padRight)
     IN  [start |-> hits[k].start + tStart, max |-> hits[k].max + tStart,
          end   |-> hits[k].end + tStart,   amp |-> hits[k].amp,
          win   |-> [from |-> w.from + tStart, to |-> w.to + tStart]]]

FindHits(frag, th1, th2, minWidth, padLeft, padRight) ==
  FinalizeHits(Algorithm(frag.data, th1, th2, minWidth), frag.start,
               Size(frag.data), padLeft, padRight)
=============================================================================
