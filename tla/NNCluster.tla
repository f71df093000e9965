----------------------------- MODULE NNCluster ------------------------------
(***************************************************************************)
(* Clusters of neighbouring hits: NNCluster (recon/src/NNCluster.cc).      *)
(* Hits are two channels and two ticks apart at most.                      *)
(***************************************************************************)
EXTENDS HitCollection

CONSTANT fMinClus          \* clusters with that many hits are left out, too
ASSUME MinClusAssumption == fMinClus \in Nat

fEps == 2                  \* fEpsx and fEpsy
fMinPts == 2               \* hits to seed a cluster

VARIABLES
  fData,       \* the hits
  isVisited,   \* of each: 0 no, 1 seen, 2 member of a cluster, -1 alone
  seedHit,     \* the loop over hits
  hitList,     \* hits reached from the seed; <<>> between clusters
  listPos,     \* the loop over hitList, which grows
  hitCluster,  \* members of this cluster
  hitclus      \* clusters found: collections

clusVars == <<fData, isVisited, seedHit, hitList, listPos, hitCluster, hitclus>>

Close(a, b) ==
  /\ Distance(a.ch, b.ch) <= fEps
  /\ Max({a.end, b.end}) - Min({a.start, b.start})
       <= (a.end - a.start) + (b.end - b.start) + fEps

RegionQuery(idx) ==
  Sift([k \in DOMAIN fData |-> k], {k \in DOMAIN fData : k = idx \/ Close(fData[idx], fData[k])})

(* BuildClusters() is called with the hits of a collection                 *)
StartClusters(hits) ==
  /\ fData' = hits
  /\ isVisited' = [k \in DOMAIN hits |-> 0]
  /\ seedHit' = 0 /\ hitList' = <<>> /\ listPos' = 0 /\ hitCluster' = <<>>
  /\ hitclus' = <<>>

NoClusters ==
  /\ fData = <<>> /\ isVisited = <<>> /\ seedHit = 0
  /\ hitList = <<>> /\ listPos = 0 /\ hitCluster = <<>> /\ hitclus = <<>>

(* The next hit not visited seeds a cluster, unless it is alone.           *)
SeedCluster ==
  /\ hitList = <<>> /\ seedHit < Len(fData)
  /\ seedHit' = seedHit + 1
  /\ IF isVisited[seedHit'] # 0
       THEN UNCHANGED <<isVisited, hitList, listPos>>
       ELSE LET near == RegionQuery(seedHit')
            IN  IF Len(near) < fMinPts
                  THEN /\ isVisited' = [isVisited EXCEPT ![seedHit'] = -1]
                       /\ UNCHANGED <<hitList, listPos>>
                  ELSE /\ isVisited' = [isVisited EXCEPT ![seedHit'] = 1]
                       /\ hitList' = near /\ listPos' = 1
  /\ UNCHANGED <<fData, hitCluster, hitclus>>

(* Bug form of ExpandCluster: the neighbours of a neighbour are not taken. *)
ExpandClusterOnce ==
  /\ hitList # <<>> /\ listPos <= Len(hitList)
  /\ LET idx == hitList[listPos]
     IN  /\ isVisited' = [isVisited EXCEPT ![idx] = 2]
         /\ hitCluster' = IF isVisited[idx] = 2 THEN hitCluster ELSE Append(hitCluster, idx)
  /\ listPos' = listPos + 1
  /\ UNCHANGED <<fData, seedHit, hitclus, hitList>>

(* ExpandCluster(): a hit not visited adds its neighbours to the list, and *)
(* itself again; seen the second time it becomes a member.                 *)
ExpandCluster ==
  /\ hitList # <<>> /\ listPos <= Len(hitList)
  /\ LET idx  == hitList[listPos]
         near == RegionQuery(idx)
     IN  /\ isVisited' = [isVisited EXCEPT ![idx] = IF @ = 0 THEN 1 ELSE 2]
         /\ hitList' = IF isVisited[idx] = 0 /\ Len(near) >= fMinPts
                         THEN hitList \o near ELSE hitList
         /\ hitCluster' = IF isVisited[idx] \in {1, -1} THEN Append(hitCluster, idx)
                                                       ELSE hitCluster
  /\ listPos' = listPos + 1
  /\ UNCHANGED <<fData, seedHit, hitclus>>

(* A cluster that is large enough becomes a collection.                    *)
EndCluster ==
  /\ hitList # <<>> /\ listPos > Len(hitList)
  /\ hitList' = <<>> /\ listPos' = 0 /\ hitCluster' = <<>>
  /\ hitclus' = IF Len(hitCluster) <= fMinClus
                  THEN hitclus
                  ELSE Append(hitclus, FoldLeft(AddHit, EmptyCollection,
                                         [k \in DOMAIN hitCluster |-> fData[hitCluster[k]]]))
  /\ UNCHANGED <<fData, isVisited, seedHit>>

ClustersDone == hitList = <<>> /\ seedHit = Len(fData)

-----------------------------------------------------------------------------
HitsOf(coll) == UNION {Range(coll.fHits[k].fHits) : k \in DOMAIN coll.fHits}

(* Hits that can be reached from hit k in steps from neighbour to          *)
(* neighbour                                                               *)
Component(hits, k) ==
  LET wider(set, n) == set \cup {j \in DOMAIN hits : \E i \in set : Close(hits[i], hits[j])}
  IN  FoldLeft(wider, {k}, hits)

(* Groups of connected hits larger than fMinClus, lone hits left out       *)
LargeGroups ==
  {{fData[k] : k \in g} :
     g \in {h \in {Component(fData, k) : k \in DOMAIN fData} :
             Cardinality(h) > Max({fMinClus, 1})}}

(* When clustering ends, the clusters are the groups of connected hits     *)
(* that are large enough, each once and whole and no hit in two of them,   *)
(* whatever order the hits come in.                                        *)
(* (recon/src/NNCluster.cc, BuildClusters and ExpandCluster)               *)
ClustersAreComponents ==
  [][ClustersDone' /\ ~ClustersDone =>
       /\ Len(hitclus') = Cardinality(LargeGroups)
       /\ {HitsOf(hitclus'[k]) : k \in DOMAIN hitclus'} = LargeGroups]_clusVars
=============================================================================
