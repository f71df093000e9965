---------------------------- MODULE CRTrackReco -----------------------------
(***************************************************************************)
(* Cosmic ray tracks of one view from its hits: CRTrackRecoTask            *)
(* (tasks/src), FindTracksView, with CRTrackSegRecon (recon/src): hits are *)
(* collected by readout module (CRM), clustered, tracks are built of each  *)
(* cluster, and those of all modules joined.                               *)
(***************************************************************************)
EXTENDS NNCluster, TrackBuilderMTC, TrackBuilderSm, TrackJoinCRM

CONSTANTS
  Inputs,      \* lists of hits of an event in one view
  Builders     \* which track builders may be configured: MTC, Sm

(* The hits of an event are told apart, and their modules are numbered.    *)
ASSUME InputsAssumption ==
  \A hits \in Inputs :
    /\ hits \in Seq(Range(hits)) /\ IsInjective(hits)
    /\ \A k \in DOMAIN hits :
         /\ hits[k].ch \in Nat /\ hits[k].crm \in Nat /\ hits[k].view \in Int
         /\ hits[k].start \in Int /\ hits[k].end \in Int

VARIABLES
  hitsView,    \* a collection of each CRM
  crmNo,       \* the one that is worked on
  step,        \* segments, join, crashed
  builder,     \* the track builder in use
  input,       \* the hits of the event
  made         \* history: hits of the segments given to the joiner

trackVars == <<hitsView, crmNo, step, builder, input, made, clusVars, builderVars, joinVars>>

(* A new collection begins whenever the CRM changes from hit to hit.       *)
ByCRM(hits) ==
  LET take(acc, h) ==
        IF h.crm # acc.lastcrm
          THEN [lastcrm |-> h.crm, colls |-> Append(acc.colls, AddHit(EmptyCollection, h))]
          ELSE [acc EXCEPT !.colls = Front(@) \o <<AddHit(Last(@), h)>>]
  IN  FoldLeft(take, [lastcrm |-> -1, colls |-> <<>>], hits).colls

TrackInit ==
  /\ input = <<>> /\ hitsView = <<>> /\ builder = "none"
  /\ crmNo = 0 /\ step = "idle" /\ made = {}
  /\ NoClusters /\ BuilderIdle /\ JoinIdle

(* The hits of the event in one view are collected, each module's of its   *)
(* own.                                                                    *)
FindTracksView(hits) ==
  /\ step = "idle"
  /\ input' = hits
  /\ hitsView' = ByCRM(hits)
  /\ builder' \in Builders
  /\ step' = "segments"
  /\ UNCHANGED <<crmNo, made, clusVars, builderVars, joinVars>>

CRMDone == ClustersDone /\ hitclus = <<>> /\ phase = "idle"

NextCollection ==
  /\ step = "segments" /\ CRMDone /\ crmNo < Len(hitsView)
  /\ crmNo' = crmNo + 1
  /\ tracksegs' = Append(tracksegs, <<>>)
  /\ StartClusters(GetHitList(hitsView[crmNo'], -1))
  /\ UNCHANGED <<hitsView, step, builder, input, made, builderVars, tracks, at>>

BuildClusters ==
  /\ step = "segments"
  /\ SeedCluster \/ ExpandCluster \/ EndCluster
  /\ UNCHANGED <<hitsView, crmNo, step, builder, input, made, builderVars, joinVars>>

AllHits(coll) == FlattenSeq([k \in DOMAIN coll.fHits |-> coll.fHits[k].fHits])

(* FindTracks(): clusters from the last to the first                       *)
NextCluster ==
  /\ step = "segments" /\ ClustersDone /\ hitclus # <<>> /\ builder = "MTC"
  /\ StartBuilder(AllHits(Last(hitclus)))
  /\ UNCHANGED <<hitsView, crmNo, step, builder, input, made, clusVars, joinVars>>

Build ==
  /\ MakeTrack
  /\ UNCHANGED <<hitsView, crmNo, step, builder, input, made, clusVars, joinVars>>

ClusterDone ==
  /\ TracksMade
  /\ EndBuilder
  /\ tracksegs' = [tracksegs EXCEPT ![crmNo] = @ \o found]
  /\ made' = made \cup UNION {Range(found[k].hits) : k \in DOMAIN found}
  /\ found' = <<>> /\ fHitPoints' = <<>> /\ fHitsInUse' = <<>> /\ hitIdx' = 0 /\ pair' = <<>>
  /\ hitclus' = Front(hitclus)
  /\ UNCHANGED <<hitsView, crmNo, step, builder, input, fTrjs, walk, trjsLong, trjsShort,
                 fData, isVisited, seedHit, hitList, listPos, hitCluster, tracks, at>>

(* The simple builder makes one track of a cluster; without a channel with *)
(* one hit it reads beyond its blocks.                                     *)
BuildSm ==
  /\ step = "segments" /\ ClustersDone /\ hitclus # <<>> /\ builder = "Sm"
  /\ IF EndExists(Blocks(AllHits(Last(hitclus))))
       THEN /\ \E t \in SmTracks(AllHits(Last(hitclus))) :
                 /\ tracksegs' = [tracksegs EXCEPT ![crmNo] = Append(@, t)]
                 /\ made' = made \cup Range(t.hits) \cup Range(t.drays)
            /\ hitclus' = Front(hitclus)
            /\ UNCHANGED step
       ELSE step' = "crashed" /\ UNCHANGED <<tracksegs, made, hitclus>>
  /\ UNCHANGED <<hitsView, crmNo, builder, input, builderVars, tracks, at,
                 fData, isVisited, seedHit, hitList, listPos, hitCluster>>

MergeSegments ==
  /\ step = "segments" /\ CRMDone /\ crmNo = Len(hitsView)
  /\ step' = "join" /\ at' = JoinStart
  /\ UNCHANGED <<hitsView, crmNo, builder, input, made, clusVars, builderVars, tracksegs, tracks>>

JoinTracks ==
  /\ step = "join" /\ Join
  /\ UNCHANGED <<hitsView, crmNo, step, builder, input, made, clusVars, builderVars>>

(* The tracks are added to the event, and the next one comes; after a     *)
(* crash none does.                                                        *)
AddTracks ==
  /\ step = "join" /\ JoinDone
  /\ input' = <<>> /\ hitsView' = <<>> /\ builder' = "none"
  /\ crmNo' = 0 /\ step' = "idle" /\ made' = {}
  /\ fData' = <<>> /\ isVisited' = <<>> /\ seedHit' = 0 /\ hitList' = <<>>
  /\ listPos' = 0 /\ hitCluster' = <<>> /\ hitclus' = <<>>
  /\ tracksegs' = <<>> /\ tracks' = <<>> /\ at' = <<>>
  /\ UNCHANGED builderVars

Crashed == step = "crashed" /\ UNCHANGED trackVars

TrackNext ==
  \/ \E hits \in Inputs : FindTracksView(hits)
  \/ NextCollection \/ BuildClusters \/ NextCluster \/ Build \/ ClusterDone \/ BuildSm
  \/ MergeSegments \/ JoinTracks \/ AddTracks \/ Crashed

TrackSpec == TrackInit /\ [][TrackNext]_trackVars

-----------------------------------------------------------------------------
(* The lists of points that have hits of this cluster: those of            *)
(* trajectories, and the points kept back                                  *)
Holders ==
  LET trjs == fTrjs \o trjsLong \o trjsShort
      kept == IF phase = "expand" /\ walk # <<>> THEN walk.tmp ELSE <<>>
  IN  Append([t \in DOMAIN trjs |-> trjs[t].points], kept)

Apiece(points) ==
  /\ \A n \in DOMAIN points : IsInjective(points[n].uids)
  /\ \A n, m \in DOMAIN points : n # m => Range(points[n].uids) \cap Range(points[m].uids) = {}

(* While tracks are built, merged, dropped and filled up, a hit is in one  *)
(* place of one trajectory or track at most and is then flagged as taken:  *)
(* no step frees a hit that another trajectory holds.                      *)
(* (recon/src/TrackBuilderMTC.cc, fHitsInUse)                              *)
HitOwned ==
  LET hits(points) == {fHitPoints[k] : k \in Uids(points)}
      flagged == {fHitPoints[k] : k \in {j \in DOMAIN fHitsInUse : fHitsInUse[j] = 1}}
  IN  /\ \A a \in DOMAIN Holders : Apiece(Holders[a]) /\ hits(Holders[a]) \subseteq flagged
      /\ \A a, b \in DOMAIN Holders : a # b => Uids(Holders[a]) \cap Uids(Holders[b]) = {}
      /\ \A a \in DOMAIN found : IsInjective(found[a].hits) /\ Range(found[a].hits) \subseteq flagged
      /\ \A a, b \in DOMAIN found : a # b => Range(found[a].hits) \cap Range(found[b].hits) = {}
      /\ \A a \in DOMAIN Holders, b \in DOMAIN found :
           hits(Holders[a]) \cap Range(found[b].hits) = {}

(* Every hit was tried as a seed or taken before trajectories are sorted.  *)
AllTried ==
  phase \in {"join", "select"} => \A k \in DOMAIN fHitsInUse : fHitsInUse[k] # 0

(* The flags of the hits tell the truth, and none is forgotten.            *)
HitsAccountedFor == HitOwned /\ AllTried

(* Points of trajectories are in order of their channels, one a channel,   *)
(* so that hits of one channel are one point.                              *)
PointsInOrder ==
  \A t \in Range(fTrjs \o trjsLong \o trjsShort) :
    \A k \in DOMAIN t.points \ {1} : t.points[k - 1].ch < t.points[k].ch

(* The path of a track, joined or not, goes from its first channel in a    *)
(* module to its last one in steps of one channel, in the order of time,   *)
(* and has a hit at both ends.                                             *)
(* (recon/src/TrackBuilderMTC.cc:288, "set q = 0 if missing hits")         *)
PathComplete ==
  \A t \in Range(found) :
    /\ t.start <= t.end
    /\ t.path[1].hit /\ Last(t.path).hit
    /\ {h.ch : h \in Range(t.hits)} = {p.ch : p \in {q \in Range(t.path) : q.hit}}
    /\ \E sgn \in {1, -1} : \A k \in DOMAIN t.path \ {1} :
         t.path[k].ch = t.path[k - 1].ch + sgn

(* From trajectory to track, channels are passed in order and none is left *)
(* out.                                                                    *)
TracksInOrder == PointsInOrder /\ PathComplete

(* The tracks, and the segments not yet copied to them                     *)
Places ==
  {<<0, k>> : k \in DOMAIN tracks}
    \cup UNION {{<<i, k>> : k \in {n \in DOMAIN tracksegs[i] :
                   step = "join" => i > at.i \/ (i = at.i /\ n >= at.ii)}} : i \in DOMAIN tracksegs}

HitsAt(p) ==
  LET t == IF p[1] = 0 THEN tracks[p[2]] ELSE tracksegs[p[1]][p[2]]
  IN  t.hits \o t.drays

(* No hit of the view is in two tracks, or twice in one, through all of    *)
(* clustering, building and joining.                                       *)
OneTrackPerHit ==
  /\ \A p \in Places : IsInjective(HitsAt(p)) /\ Range(HitsAt(p)) \subseteq Range(input)
  /\ \A p, q \in Places : p # q => Range(HitsAt(p)) \cap Range(HitsAt(q)) = {}

(* Joining keeps every segment: its hits are all in a track in the end.    *)
SegmentsKept ==
  step = "join" /\ JoinDone =>
    UNION {Range(tracks[k].hits) \cup Range(tracks[k].drays) : k \in DOMAIN tracks} = made

(* The tracks divide the hits of the segments among them.                  *)
TracksDivideHits == OneTrackPerHit /\ SegmentsKept

(* The simple builder's track reaches from the first to the last channel   *)
(* of its cluster that has one hit, and has that hit of each of them:      *)
(* giving up at the ends never cuts into the middle, not even when the     *)
(* search for an end stopped in a shower.                                  *)
(* (recon/src/TrackBuilderSm.cc:235, "always accepts the hits in the       *)
(* middle")                                                                *)
SinglesOnTrack ==
  (builder = "Sm" /\ ClustersDone) =>
    \A c \in {d \in Range(hitclus) : EndExists(Blocks(AllHits(d)))} :
      \A t \in SmTracks(AllHits(c)) :
        LET bs == Blocks(AllHits(c))
        IN  \A k \in DOMAIN bs : Single(bs[k]) => bs[k][1] \in Range(t.hits)

(* Merging ends: a pass that is followed by another one over the same list *)
(* has made the list shorter.                                              *)
(* (recon/src/TrackBuilderMTC.cc:897, "recursive function")                *)
MergingEnds ==
  [][phase = "join" /\ PairsLeft = {} /\ pair.joined =>
       Len(IF pair.short THEN trjsShort' ELSE trjsLong') < Len(Trjs)]_trackVars
=============================================================================
