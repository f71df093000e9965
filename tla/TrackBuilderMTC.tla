-------------------------- MODULE TrackBuilderMTC ---------------------------
(***************************************************************************)
(* Tracks from one cluster of hits: TrackBuilderMTC (recon/src), with the  *)
(* trajectories it builds them from (Track2DTrajectory) and its search for *)
(* hits by channel (LILUtil).                                              *)
(*                                                                         *)
(* Positions along the drift are integers; those the Kalman filter         *)
(* predicts, its chi squares and all it says about slopes, lengths and     *)
(* momenta are choices.                                                    *)
(***************************************************************************)
EXTENDS Sifting

CONSTANTS
  fDistThresh,     \* how far from a prediction to search for hits
  fHitMergeD,      \* the same, for hits missing on a finished track
  fGapCounter,     \* channels without a hit that end a trajectory
  Predictions      \* where a hit may be predicted

ASSUME BuilderAssumption ==
  /\ fDistThresh \in Nat /\ fHitMergeD \in Nat /\ fGapCounter \in Nat \ {0}
  /\ Predictions \subseteq Int

fResetGapCounter == 2

VARIABLES
  phase,           \* idle, seed, expand, join, select
  fHitPoints,      \* hits of the cluster by channel and position
  fHitsInUse,      \* of each: 0 not looked at, 1 taken, -1 free again or masked
  hitIdx,          \* the loop over hits of MakeTrack()
  fTrjs,           \* trajectories: points by channel, with the hits of each
  walk,            \* ExpandTrj() on the last of them
  trjsLong, trjsShort,
  pair,            \* the double loop of MergeTrjs()
  found            \* tracks made of this cluster

builderVars == <<phase, fHitPoints, fHitsInUse, hitIdx, fTrjs, walk,
                 trjsLong, trjsShort, pair, found>>

-----------------------------------------------------------------------------
(* LILUtil: the nearest hit of a channel, the first one of two as near; 0  *)
(* if there is none.  One exactly on the lower end of the range is missed  *)
(* unless it is the first of its channel.                                  *)
OfChannel(ch) == {k \in DOMAIN fHitPoints : fHitPoints[k].ch = ch}

FindClosest(ch, y, tol) ==
  LET Y(k) == fHitPoints[k].start
      Off(k) == IF Y(k) < y THEN y - Y(k) ELSE Y(k) - y
      lowest == Min({Y(k) : k \in OfChannel(ch)})
      inRange == {k \in OfChannel(ch) : Y(k) <= y + tol /\ (Y(k) > y - tol \/ y - tol < lowest)}
      nearest == {k \in inRange : \A j \in inRange : Off(k) <= Off(j)}
  IN  IF nearest = {} THEN 0 ELSE Min(nearest)

(* The place of the first point that is not on an earlier channel, behind  *)
(* the last one if there is none                                           *)
PlaceOf(points, ch) == Min({k \in DOMAIN points : points[k].ch >= ch} \cup {Len(points) + 1})

(* Bug form of AddPoint: a point goes before the one its channel has. *)
AddPointTwice(points, pnt) == InsertAt(points, PlaceOf(points, pnt.ch), pnt)

(* Track2DTrajectory::AddPoint(): by channel, hits of one channel make one *)
(* point.                                                                  *)
AddPoint(points, pnt) ==
  LET k == PlaceOf(points, pnt.ch)
  IN  IF k \in DOMAIN points /\ points[k].ch = pnt.ch
        THEN [points EXCEPT ![k].uids = @ \o pnt.uids]
        ELSE InsertAt(points, k, pnt)

PointOf(k)   == [ch |-> fHitPoints[k].ch, uids |-> <<k>>]
Uids(points) == UNION {Range(points[k].uids) : k \in DOMAIN points}
FirstCh(points) == points[1].ch
LastCh(points)  == Last(points).ch

(* SetPointsFlag() *)
Flagged(use, hits, flag) == [k \in DOMAIN use |-> IF k \in hits THEN flag ELSE use[k]]

-----------------------------------------------------------------------------
BuilderIdle ==
  /\ phase = "idle" /\ fHitPoints = <<>> /\ fHitsInUse = <<>> /\ hitIdx = 0
  /\ fTrjs = <<>> /\ walk = <<>> /\ trjsLong = <<>> /\ trjsShort = <<>>
  /\ pair = <<>> /\ found = <<>>

(* Init(): hits in the veto region are flagged *)
StartBuilder(hits) ==
  /\ phase = "idle"
  /\ phase' = "seed"
  /\ fHitPoints' = hits
  /\ fHitsInUse' = [k \in DOMAIN hits |-> IF hits[k].veto THEN -1 ELSE 0]
  /\ hitIdx' = 0 /\ fTrjs' = <<>> /\ found' = <<>>
  /\ UNCHANGED <<walk, trjsLong, trjsShort, pair>>

(* Bug form of SeedTrj: a seed that fails leaves no flag. *)
SeedTrjUnflagged(idx) == [ok |-> FALSE, use |-> fHitsInUse]

(* SeedTrj(idx): a hit on each of the next two channels, near the first    *)
(* and near the line through both.  The hits looked at are flagged as      *)
(* tried, whether or not there are three.                                  *)
SeedTrj(idx) ==
  LET y(k) == fHitPoints[k].start
      ch   == fHitPoints[idx].ch
      snd  == FindClosest(ch + 1, y(idx), fDistThresh)
      ok2  == snd # 0 /\ fHitsInUse[snd] <= 0
      thd  == FindClosest(ch + 2, 2 * y(snd) - y(idx), fDistThresh)
      ok3  == ok2 /\ thd # 0 /\ fHitsInUse[thd] <= 0
  IN  IF ok3 THEN [ok |-> TRUE, use |-> Flagged(Flagged(fHitsInUse, {snd, thd}, -1), {idx}, 1)]
             ELSE [ok |-> FALSE,
                   use |-> Flagged(fHitsInUse, IF ok2 THEN {idx, snd} ELSE {idx}, -1)]

StartWalk(dir, ch) == [dir |-> dir, nextch |-> ch, gap |-> 0, reset |-> 0,
                       tmp |-> <<>>, n |-> 0]

TrySeed ==
  /\ phase = "seed" /\ hitIdx < Len(fHitPoints)
  /\ hitIdx' = hitIdx + 1
  /\ IF fHitsInUse[hitIdx'] # 0
       THEN UNCHANGED <<fHitsInUse, fTrjs, walk, phase>>
       ELSE LET seed == SeedTrj(hitIdx')
            IN  /\ fHitsInUse' = seed.use
                /\ IF seed.ok
                     THEN /\ fTrjs' = Append(fTrjs, [points |-> <<PointOf(hitIdx')>>, pid |-> 0])
                          /\ walk' = StartWalk(1, fHitPoints[hitIdx'].ch)
                          /\ phase' = "expand"
                     ELSE UNCHANGED <<fTrjs, walk, phase>>
  /\ UNCHANGED <<fHitPoints, trjsLong, trjsShort, pair, found>>

-----------------------------------------------------------------------------
Points == Last(fTrjs).points
SetPoints(points) == fTrjs' = [fTrjs EXCEPT ![Len(fTrjs)].points = points]

(* Channels without a hit to take *)
NextGap == [walk EXCEPT !.nextch = @ + walk.dir, !.gap = @ + 1, !.n = @ + 1]

(* Every second hit after a gap sets the count of gaps back.               *)
NextHit ==
  LET gap   == IF walk.reset >= fResetGapCounter THEN 0 ELSE walk.gap
      reset == IF walk.reset >= fResetGapCounter THEN 0 ELSE walk.reset
  IN  [walk EXCEPT !.nextch = @ + walk.dir, !.n = @ + 1, !.gap = gap,
                   !.reset = IF gap > 0 THEN reset + 1 ELSE reset]

(* One direction is done; then the other one, from the other end.  Points  *)
(* kept back are dropped, not freed.                                       *)
EndWalk(points) ==
  walk' = IF walk.dir = 1 THEN StartWalk(-1, FirstCh(points)) ELSE <<>>

InWalk == /\ phase = "expand" /\ walk # <<>>
          /\ walk.n < Len(fHitPoints)
          /\ walk.nextch + walk.dir \in fHitPoints[1].ch .. Last(fHitPoints).ch

(* The hits FindNextHit() may come up with, and 0                          *)
NextHits == {FindClosest(walk.nextch + walk.dir, y, fDistThresh) : y \in Predictions} \cup {0}

AddTmp(points) == FoldLeft(AddPoint, points, walk.tmp)

(* No hit, one with too large a chi square, or one that is taken           *)
StepGap ==
  /\ InWalk
  /\ IF NextGap.gap >= fGapCounter
       THEN SetPoints(AddTmp(Points)) /\ EndWalk(AddTmp(Points))
       ELSE walk' = NextGap /\ UNCHANGED fTrjs
  /\ UNCHANGED <<phase, fHitPoints, fHitsInUse, hitIdx, trjsLong, trjsShort, pair, found>>

(* Bug form of StepHit: also takes hits of other trajectories. *)
StepHitAny ==
  /\ InWalk
  /\ \E k \in NextHits \ {0} :
       /\ fHitsInUse' = Flagged(fHitsInUse, {k}, 1)
       /\ SetPoints(AddPoint(Points, PointOf(k)))
       /\ walk' = NextHit
  /\ UNCHANGED <<phase, fHitPoints, hitIdx, trjsLong, trjsShort, pair, found>>

(* A hit that is not taken, masked ones included, is.  Its chi square is   *)
(* below the cut, or it is kept back: then it equals the cut or is no      *)
(* number.  The count of gaps does not grow, so that the walk goes on.     *)
StepHit ==
  /\ InWalk
  /\ \E k \in NextHits \ {0} :
       /\ fHitsInUse[k] <= 0
       /\ fHitsInUse' = Flagged(fHitsInUse, {k}, 1)
       /\ \/ /\ SetPoints(AddTmp(AddPoint(Points, PointOf(k))))
             /\ walk' = [NextHit EXCEPT !.tmp = <<>>]
          \/ /\ walk' = [NextHit EXCEPT !.tmp = Append(@, PointOf(k))]
             /\ UNCHANGED fTrjs
  /\ UNCHANGED <<phase, fHitPoints, hitIdx, trjsLong, trjsShort, pair, found>>

(* The end of the cluster *)
StepOut ==
  /\ phase = "expand" /\ walk # <<>> /\ ~InWalk
  /\ EndWalk(Points)
  /\ UNCHANGED <<phase, fHitPoints, fHitsInUse, hitIdx, fTrjs, trjsLong, trjsShort, pair, found>>

(* After ExpandTrj(): a seed that did not grow is freed, others are taken  *)
(* for a muon (13) or, by their scattering, for an electron (11).          *)
EndTrj ==
  /\ phase = "expand" /\ walk = <<>>
  /\ phase' = "seed"
  /\ IF Len(Points) < 3
       THEN /\ fHitsInUse' = Flagged(fHitsInUse, Uids(Points), -1)
            /\ fTrjs' = Front(fTrjs)
       ELSE /\ \E pid \in {11, 13} : fTrjs' = [fTrjs EXCEPT ![Len(fTrjs)].pid = pid]
            /\ UNCHANGED fHitsInUse
  /\ UNCHANGED <<fHitPoints, hitIdx, walk, trjsLong, trjsShort, pair, found>>

-----------------------------------------------------------------------------
OfPid(trjs, pid) == Sift(trjs, {t \in Range(trjs) : t.pid = pid})
Orders(s) == {[k \in DOMAIN s |-> s[p[k]]] : p \in Bijection(DOMAIN s, DOMAIN s)}
FirstPair == [i |-> 1, j |-> 0, joined |-> FALSE, short |-> FALSE]

(* All hits were tried: trajectories by length, electrons set apart        *)
SortTrjs ==
  /\ phase = "seed" /\ hitIdx = Len(fHitPoints)
  /\ phase' = "join"
  /\ \E s \in Orders(fTrjs) : trjsLong' = OfPid(s, 13) /\ trjsShort' = OfPid(s, 11)
  /\ fTrjs' = <<>>
  /\ pair' = FirstPair
  /\ UNCHANGED <<fHitPoints, fHitsInUse, hitIdx, walk, found>>

Trjs == IF pair.short THEN trjsShort ELSE trjsLong
SetTrjs(trjs) == IF pair.short THEN trjsShort' = trjs /\ UNCHANGED trjsLong
                               ELSE trjsLong' = trjs /\ UNCHANGED trjsShort

(* The pairs of MergeTrjs() still to be tried in this pass, in their order *)
PairsLeft == {p \in (DOMAIN Trjs) \X (DOMAIN Trjs) :
                /\ p[1] # p[2] /\ (p[1] > pair.i \/ (p[1] = pair.i /\ p[2] > pair.j))
                /\ Trjs[p[1]].points # <<>> /\ Trjs[p[2]].points # <<>>}
NextPair == CHOOSE p \in PairsLeft : \A q \in PairsLeft : p[1] < q[1] \/ (p[1] = q[1] /\ p[2] <= q[2])

(* Bug form of Joined: points of the other trajectory stay with it, too. *)
JoinedKept(trjs, i, j) ==
  [trjs EXCEPT ![i].points = FoldLeft(AddPoint, @, trjs[j].points)]

(* MergeTrjPoints(): into the one that starts first; the other is empty    *)
Joined(trjs, i, j) ==
  LET a == trjs[i].points
      b == trjs[j].points
      all == IF FirstCh(b) < FirstCh(a) THEN FoldLeft(AddPoint, b, a)
                                        ELSE FoldLeft(AddPoint, a, b)
  IN  [trjs EXCEPT ![i].points = all, ![j].points = <<>>]

Overlapping(a, b) == FirstCh(a) <= LastCh(b) /\ FirstCh(b) <= LastCh(a)

(* TryJoin(): near enough and in the same direction; electrons are not     *)
(* joined with one that overlaps.                                          *)
TryJoin ==
  /\ phase = "join" /\ PairsLeft # {}
  /\ LET i == NextPair[1]
         j == NextPair[2]
     IN  \/ /\ ~(pair.short /\ Overlapping(Trjs[i].points, Trjs[j].points))
            /\ SetTrjs(Joined(Trjs, i, j))
            /\ pair' = [pair EXCEPT !.i = i, !.j = j, !.joined = TRUE]
         \/ /\ UNCHANGED <<trjsLong, trjsShort>>
            /\ pair' = [pair EXCEPT !.i = i, !.j = j]
  /\ UNCHANGED <<phase, fHitPoints, fHitsInUse, hitIdx, fTrjs, walk, found>>

(* The end of a pass: empty trajectories are removed, and there is another *)
(* pass if any were joined.                                                *)
EndPass ==
  /\ phase = "join" /\ PairsLeft = {}
  /\ SetTrjs(Sift(Trjs, {t \in Range(Trjs) : t.points # <<>>}))
  /\ pair' = [FirstPair EXCEPT !.short = pair.short \/ ~pair.joined]
  /\ phase' = IF pair.short /\ ~pair.joined THEN "select" ELSE "join"
  /\ UNCHANGED <<fHitPoints, fHitsInUse, hitIdx, fTrjs, walk, found>>

-----------------------------------------------------------------------------
(* Bug form of Path: channels without a hit are left out. *)
PathHitsOnly(points) == [k \in DOMAIN points |-> [ch |-> points[k].ch, hit |-> TRUE]]

(* The path of AddToTracks(): steps over channels without hits, with no    *)
(* charge                                                                  *)
Path(points) ==
  LET step(path, p) ==
        IF path = <<>> THEN <<[ch |-> p.ch, hit |-> TRUE]>>
        ELSE LET lastch == Last(path).ch
                 sgn    == IF p.ch > lastch THEN 1 ELSE -1
                 nch    == sgn * (p.ch - lastch)
             IN  path \o [k \in 1 .. nch |-> [ch |-> lastch + sgn * k, hit |-> k = nch]]
  IN  FoldLeft(step, <<>>, points)

(* The track starts at its end that is earlier in time; predicted          *)
(* positions are taken to be those of the hits there.                      *)
Track(trj) ==
  LET y(p) == fHitPoints[p.uids[1]].start
      up   == y(trj.points[1]) < y(Last(trj.points))
      ps   == IF up THEN trj.points ELSE Reverse(trj.points)
      uids == FlattenSeq([k \in DOMAIN ps |-> ps[k].uids])
  IN  [hits |-> [k \in DOMAIN uids |-> fHitPoints[uids[k]]],
       drays |-> <<>>, path |-> Path(ps), start |-> y(ps[1]), end |-> y(Last(ps)),
       pid |-> trj.pid, crm |-> fHitPoints[1].crm]

(* FindMissingHits(): for channels of the track without a hit, hits near   *)
(* the predicted position that are not taken                               *)
Missing(trj) == (FirstCh(trj.points) .. LastCh(trj.points)) \ {trj.points[k].ch : k \in DOMAIN trj.points}

MissingHits(ch) ==
  {k \in {FindClosest(ch, y, fHitMergeD) : y \in Predictions} \ {0} : fHitsInUse[k] <= 0}

Drop(trj) == fHitsInUse' = Flagged(fHitsInUse, Uids(trj.points), -1) /\ UNCHANGED found

(* Long trajectories: those of few points are dropped, and short ones      *)
SelectLong ==
  /\ phase = "select" /\ trjsLong # <<>>
  /\ LET trj == Head(trjsLong)
     IN  \/ Drop(trj)
         \/ /\ Len(trj.points) > 3
            /\ \E ks \in SUBSET UNION {MissingHits(ch) : ch \in Missing(trj)} :
                 /\ \A j, k \in ks : fHitPoints[j].ch = fHitPoints[k].ch => j = k
                 /\ LET add == SetToSeq(ks)     \* AddPoint puts them in order
                        all == [trj EXCEPT !.points =
                                  FoldLeft(AddPoint, @, [n \in DOMAIN add |-> PointOf(add[n])])]
                    IN  found' = Append(found, Track(all))
                 /\ fHitsInUse' = Flagged(fHitsInUse, ks, 1)
  /\ trjsLong' = Tail(trjsLong)
  /\ UNCHANGED <<phase, fHitPoints, hitIdx, fTrjs, walk, trjsShort, pair>>

(* Then short ones: those with a bad chi square are dropped                *)
SelectShort ==
  /\ phase = "select" /\ trjsLong = <<>> /\ trjsShort # <<>>
  /\ LET trj == Head(trjsShort)
     IN  Drop(trj) \/ (found' = Append(found, Track(trj)) /\ UNCHANGED fHitsInUse)
  /\ trjsShort' = Tail(trjsShort)
  /\ UNCHANGED <<phase, fHitPoints, hitIdx, fTrjs, walk, trjsLong, pair>>

MakeTrack ==
  \/ TrySeed \/ StepGap \/ StepHit \/ StepOut \/ EndTrj
  \/ SortTrjs \/ TryJoin \/ EndPass \/ SelectLong \/ SelectShort

TracksMade == phase = "select" /\ trjsLong = <<>> /\ trjsShort = <<>>
EndBuilder == phase' = "idle"
=============================================================================
