--------------------------- MODULE TrackBuilderSm ---------------------------
(***************************************************************************)
(* The simple track builder, for clusters that are one track:              *)
(* TrackBuilderSm (recon/src).  A smooth curve is drawn through the        *)
(* channels with one hit; how near the others are to it is a choice.       *)
(***************************************************************************)
EXTENDS Sifting

CONSTANTS
  fNGapStep,       \* channels off the curve that end a track
  ShowerHits,      \* more hits on a channel make a large group, 3 in the code
  ShowerGroups     \* more large groups make a shower, 20 in the code

ASSUME SmAssumption == fNGapStep \in Nat /\ ShowerHits \in Nat /\ ShowerGroups \in Nat

Single(block) == Len(block) = 1

(* The hits of a cluster by channel, channels without hits left out        *)
Blocks(hits) ==
  LET add(bs, h) == IF bs # <<>> /\ Last(bs)[1].ch = h.ch
                      THEN Front(bs) \o <<Append(Last(bs), h)>>
                      ELSE Append(bs, <<h>>)
  IN  FoldLeft(add, <<>>, hits)

Reversed(bs) == [k \in 1 .. Len(bs) |-> bs[Len(bs) - k + 1]]

(* Where a search from the first block on ends: at a channel with one hit  *)
(* or in a shower; 0 if there is neither                                   *)
Reasonable(bs) ==
  LET large(k) == Cardinality({j \in 1 .. k : Len(bs[j]) > ShowerHits})
  IN  Min({k \in DOMAIN bs : Single(bs[k]) \/ large(k) > ShowerGroups} \cup {Len(bs) + 1})
        % (Len(bs) + 1)

IFirst(bs) == Max({1, Reasonable(bs)})

(* The search for the end does not stop before the first block: its index  *)
(* is unsigned, and the blocks it reads then do not exist.                 *)
EndExists(bs) == Reasonable(Reversed(bs)) # 0
ILast(bs) == Len(bs) - Reasonable(Reversed(bs)) + 1

(* Bug form of Outward: gives up one channel further in. *)
OutwardShort(near, from, stay) ==
  LET gaveUp == {k \in from .. Len(near) :
                   k - from >= fNGapStep /\ \A j \in k - fNGapStep .. k : ~near[j]}
  IN  IF gaveUp = {} THEN stay ELSE Min(gaveUp) - fNGapStep - 2

(* RunSmoother() outward from block `from': more than fNGapStep channels   *)
(* off the curve end the track before them.  If the end of the cluster is  *)
(* reached first, the track's end stays where it was.                      *)
Outward(near, from, stay) ==
  LET gaveUp == {k \in from .. Len(near) :
                   k - from >= fNGapStep /\ \A j \in k - fNGapStep .. k : ~near[j]}
  IN  IF gaveUp = {} THEN stay ELSE Min(gaveUp) - fNGapStep - 1

(* The blocks of the track, `near' as Accept() finds them                  *)
Ends(bs, near) ==
  LET n     == Len(bs)
      first == n - IFirst(bs) + 1      \* counted from the end
  IN  [first |-> n + 1 - Outward(Reversed(near), first + 1, first),
       last  |-> Outward(near, ILast(bs), ILast(bs))]

(* Too few channels with one hit: everything is taken.                     *)
GivesUp(bs) ==
  LET singles == {k \in IFirst(bs) .. ILast(bs) : Single(bs[k])}
  IN  5 * Cardinality(singles) < Len(bs)

Pick(bs, k, saved) == bs[k][saved[k]]

(* BuildTrack() from blocks first to last: the hit nearest to the curve is *)
(* on the track, the others of its channel are delta ray hits.             *)
SmTrack(bs, first, last, saved) ==
  LET n == last - first + 1
      on(k) == Pick(bs, first + k - 1, saved)
      rest(k) == Sift(bs[first + k - 1], Range(bs[first + k - 1]) \ {on(k)})
  IN  [hits  |-> [k \in 1 .. n |-> on(k)],
       drays |-> FlattenSeq([k \in 1 .. n |-> rest(k)]),
       path  |-> [k \in 1 .. n |-> [ch |-> on(k).ch, hit |-> TRUE]],
       start |-> on(1).start, end |-> on(n).start, pid |-> 0, crm |-> on(1).crm]

AllOfIt(bs) ==
  [hits  |-> FlattenSeq(bs), drays |-> <<>>,
   path  |-> [k \in DOMAIN bs |-> [ch |-> bs[k][1].ch, hit |-> TRUE]],
   start |-> bs[1][1].start, end |-> Last(bs)[1].start, pid |-> 0, crm |-> bs[1][1].crm]

(* The tracks MakeTrack() may find                                         *)
SmTracks(hits) ==
  LET bs == Blocks(hits)
      nears == {near \in [DOMAIN bs -> BOOLEAN] : \A k \in DOMAIN bs : Single(bs[k]) => near[k]}
      saves == {saved \in [DOMAIN bs -> 1 .. Len(hits)] :
                  \A k \in DOMAIN bs : saved[k] \in DOMAIN bs[k]}
      track(near, saved) == LET e == Ends(bs, near) IN SmTrack(bs, e.first, e.last, saved)
  IN  IF GivesUp(bs) THEN {AllOfIt(bs)} ELSE {track(n, s) : n \in nears, s \in saves}
=============================================================================
