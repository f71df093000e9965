---------------------------- MODULE TrackProofs -----------------------------
(***************************************************************************)
(* The properties of CRTrackReco in the chain of reconstruction tasks: the *)
(* clusters, the task around the builder of BuilderProofs, the order of    *)
(* the points of a track, and the builder that follows single hits         *)
(* (TrackBuilderSm).                                                       *)
(***************************************************************************)
EXTENDS BuilderProofs

-----------------------------------------------------------------------------
(* Collections, and clusters                                               *)

(* Hits of an event, of a numbered module                                  *)
HitsOK(H) == \A x \in H : HitOK(x) /\ x.crm # -1

(* Collections that have no hit in common                                  *)
CollsOK(H, cs) ==
  /\ \E S : cs \in Seq(S)
  /\ \A i \in DOMAIN cs : CollOK(H, cs[i])
  /\ \A i, j \in DOMAIN cs : i # j => Held(cs[i]) \cap Held(cs[j]) = {}

(* The hits of collections                                                 *)
HeldIn(cs) == UNION {Held(cs[i]) : i \in DOMAIN cs}

(* A hit of them is in one of them.                                        *)
LEMMA HeldInIs ==
  ASSUME NEW cs, NEW x
  PROVE  x \in HeldIn(cs) <=> \E i \in DOMAIN cs : x \in Held(cs[i])
BY Zenon DEF HeldIn

(* No collections have no hits.                                            *)
LEMMA NoColls == ASSUME NEW H PROVE CollsOK(H, <<>>) /\ HeldIn(<<>>) = {}
<1>1. <<>> \in Seq({}) /\ DOMAIN (<<>>) = {}
  OBVIOUS
<1> QED BY <1>1, Zenon DEF CollsOK, HeldIn

(* One more collection                                                     *)
LEMMA CollAppended ==
  ASSUME NEW H, NEW cs, CollsOK(H, cs), NEW c, CollOK(H, c), Held(c) \cap HeldIn(cs) = {}
  PROVE  CollsOK(H, Append(cs, c)) /\ HeldIn(Append(cs, c)) = HeldIn(cs) \cup Held(c)
<1> DEFINE r == Append(cs, c)
           n == Len(cs)
<1>1. PICK S : cs \in Seq(S)
  BY Zenon DEF CollsOK
<1>2. cs \in Seq(S \cup {c})
  <2>1. cs \in [1 .. Len(cs) -> S] /\ Len(cs) \in Nat
    BY <1>1
  <2>2. cs \in [1 .. Len(cs) -> S \cup {c}]
    BY <2>1
  <2> QED BY <2>1, <2>2
<1>3. /\ n \in Nat /\ DOMAIN cs = 1 .. n /\ r \in Seq(S \cup {c}) /\ DOMAIN r = 1 .. n + 1
      /\ r[n + 1] = c /\ \A i \in 1 .. n : r[i] = cs[i]
  <2>1. c \in S \cup {c}
    OBVIOUS
  <2> QED BY <1>2, <2>1
<1> HIDE DEF r, n
<1>4. /\ \A i \in 1 .. n + 1 : (i \in 1 .. n /\ i # n + 1) \/ i = n + 1
      /\ \A i \in 1 .. n : i \in 1 .. n + 1
      /\ n + 1 \in 1 .. n + 1
  BY <1>3
<1>5. /\ \A i \in 1 .. n : CollOK(H, cs[i])
      /\ \A i, j \in 1 .. n : i # j => Held(cs[i]) \cap Held(cs[j]) = {}
  BY <1>3, Zenon DEF CollsOK
<1>6. \A i \in 1 .. n : Held(cs[i]) \cap Held(c) = {}
  BY <1>3, HeldInIs, Zenon
<1>7. \A i \in 1 .. n + 1 : CollOK(H, r[i])
  BY <1>3, <1>4, <1>5, Zenon
<1>8. ASSUME NEW i \in 1 .. n + 1, NEW j \in 1 .. n + 1, i # j
      PROVE  Held(r[i]) \cap Held(r[j]) = {}
  <2>1. CASE i \in 1 .. n /\ j \in 1 .. n
    BY <1>3, <1>5, <1>8, <2>1, Zenon
  <2>2. CASE i \in 1 .. n /\ j = n + 1
    BY <1>3, <1>6, <2>2, Zenon
  <2>3. CASE j \in 1 .. n /\ i = n + 1
    BY <1>3, <1>6, <2>3, Zenon
  <2> QED BY <1>4, <1>8, <2>1, <2>2, <2>3, Zenon
<1>9. CollsOK(H, r)
  BY <1>3, <1>7, <1>8, Zenon DEF CollsOK
<1>10. ASSUME NEW x PROVE x \in HeldIn(r) <=> x \in HeldIn(cs) \/ x \in Held(c)
  <2>1. x \in HeldIn(r) <=> \E i \in 1 .. n + 1 : x \in Held(r[i])
    BY <1>3, HeldInIs, Zenon
  <2>2. x \in HeldIn(cs) <=> \E i \in 1 .. n : x \in Held(cs[i])
    BY <1>3, HeldInIs, Zenon
  <2> QED BY <1>3, <1>4, <2>1, <2>2, Zenon
<1> QED BY <1>9, <1>10, Zenon DEF r

(* The last collection, and those before it                                *)
LEMMA CollFront ==
  ASSUME NEW H, NEW cs, CollsOK(H, cs), cs # <<>>
  PROVE  /\ CollsOK(H, Front(cs)) /\ CollOK(H, Last(cs))
         /\ Held(Last(cs)) \cap HeldIn(Front(cs)) = {}
         /\ HeldIn(Front(cs)) \subseteq HeldIn(cs) /\ Held(Last(cs)) \subseteq HeldIn(cs)
<1> DEFINE r == Front(cs)
           n == Len(cs)
<1>1. PICK S : cs \in Seq(S)
  BY Zenon DEF CollsOK
<1>2. /\ n \in Nat \ {0} /\ DOMAIN cs = 1 .. n /\ r \in Seq(S) /\ DOMAIN r = 1 .. n - 1
      /\ Last(cs) = cs[n] /\ \A i \in 1 .. n - 1 : r[i] = cs[i]
  <2>1. n \in Nat /\ DOMAIN cs = 1 .. n /\ n # 0
    BY <1>1
  <2>2. r \in Seq(S) /\ DOMAIN r = 1 .. n - 1 /\ \A i \in 1 .. n - 1 : r[i] = cs[i]
    BY <1>1, <2>1 DEF Front
  <2>3. Last(cs) = cs[n]
    BY Zenon DEF Last
  <2> QED BY <2>1, <2>2, <2>3
<1> HIDE DEF r, n
<1>3. n \in 1 .. n /\ \A i \in 1 .. n - 1 : i \in 1 .. n /\ i # n
  <2>1. n \in Nat /\ n # 0
    BY <1>2
  <2> QED BY <2>1
<1>4. /\ \A i \in 1 .. n : CollOK(H, cs[i])
      /\ \A i, j \in 1 .. n : i # j => Held(cs[i]) \cap Held(cs[j]) = {}
  BY <1>2, Zenon DEF CollsOK
<1>5. /\ \A i \in 1 .. n - 1 : CollOK(H, r[i])
      /\ \A i, j \in 1 .. n - 1 : i # j => Held(r[i]) \cap Held(r[j]) = {}
  BY <1>2, <1>3, <1>4, Zenon
<1>6. CollsOK(H, r) /\ CollOK(H, Last(cs))
  BY <1>1, <1>2, <1>3, <1>4, <1>5, Zenon DEF CollsOK
<1>7. ASSUME NEW x \in HeldIn(r) PROVE x \in HeldIn(cs) /\ x \notin Held(Last(cs))
  <2>1. PICK i \in 1 .. n - 1 : x \in Held(r[i])
    BY <1>2, HeldInIs, Zenon
  <2>2. x \in Held(cs[i]) /\ i \in 1 .. n /\ i # n
    BY <1>2, <1>3, <2>1, Zenon
  <2> QED BY <1>2, <1>3, <1>4, <2>2, HeldInIs, Zenon
<1>8. Held(Last(cs)) \subseteq HeldIn(cs)
  BY <1>2, <1>3, HeldInIs, Zenon
<1> QED BY <1>6, <1>7, <1>8, Zenon DEF r

-----------------------------------------------------------------------------
(* A collection of hits that are added one after the other                 *)
CollectStep(c, acc, h) == AddHit(acc, h)

(* The collection has some of the first k hits.                            *)
CollectInv(c, k, acc) ==
  CollOK(c.hits, acc) /\ \A x \in Held(acc) : \E i \in 1 .. k : x = c.seq[i]

(* Collecting, as a fold over the hits                                     *)
CollectFold == INSTANCE FoldTheorems WITH Step <- CollectStep, Inv <- CollectInv

(* The collection of hs                                                    *)
Collected(hs) == FoldLeft(AddHit, EmptyCollection, hs)

(* Hits collected: each once, and no others                                *)
LEMMA CollectedOK ==
  ASSUME NEW H, HitsOK(H), NEW hs \in Seq(H), IsInjective(hs)
  PROVE  CollOK(H, Collected(hs)) /\ Held(Collected(hs)) \subseteq Range(hs)
<1> DEFINE c == [hits |-> H, seq |-> hs]
           n == Len(hs)
<1>1. c.hits = H /\ c.seq = hs
  OBVIOUS
<1>2. n \in Nat /\ DOMAIN hs = 1 .. n
  OBVIOUS
<1> HIDE DEF c
<1>3. CollectInv(c, 0, EmptyCollection)
  BY <1>1, EmptyOK, Zenon DEF CollectInv
<1>4. ASSUME NEW k \in 0 .. n - 1, NEW acc, CollectInv(c, k, acc)
      PROVE  CollectInv(c, k + 1, CollectStep(c, acc, hs[k + 1]))
  <2> DEFINE h == hs[k + 1]
             new == AddHit(acc, h)
  <2>1. CollOK(H, acc) /\ \A x \in Held(acc) : \E i \in 1 .. k : x = hs[i]
    BY <1>1, <1>4, Zenon DEF CollectInv
  <2>2. k + 1 \in 1 .. n /\ \A i \in 1 .. k : i \in 1 .. n /\ i # k + 1 /\ i \in 1 .. k + 1
    BY <1>2
  <2>3. k + 1 \in 1 .. k + 1
    OBVIOUS
  <2>4. h \in H
    BY <2>2
  <2>5. h \notin Held(acc)
    BY <1>2, <2>1, <2>2, Zenon DEF IsInjective
  <2> HIDE DEF h
  <2>6. CollOK(H, new) /\ (Held(new) = Held(acc) \cup {h} \/ Held(new) = Held(acc))
    BY <2>1, <2>4, <2>5, AddHitOK, Zenon DEF HitsOK
  <2> HIDE DEF new
  <2>7. \A x \in Held(new) : \E i \in 1 .. k + 1 : x = hs[i]
    BY <2>1, <2>2, <2>3, <2>6, Zenon DEF h
  <2>8. CollectInv(c, k + 1, new)
    BY <1>1, <2>6, <2>7, Zenon DEF CollectInv
  <2> QED BY <2>8, Zenon DEF CollectStep, new, h
<1> DEFINE r == CollectFold!Fold(c, EmptyCollection, hs)
<1>5. CollectInv(c, n, r)
  BY <1>2, <1>3, <1>4, CollectFold!FoldInvariant
<1>6. Collected(hs) = r
  BY Zenon DEF r, Collected, CollectFold!Fold, CollectStep, CollectFold!FoldLeft,
     CollectFold!MapThenFoldSet, FoldLeft, MapThenFoldSet, CollectFold!Max, Max
<1> HIDE DEF r
<1>7. CollOK(H, r) /\ \A x \in Held(r) : \E i \in 1 .. n : x = hs[i]
  BY <1>1, <1>5, Zenon DEF CollectInv
<1>8. Held(r) \subseteq Range(hs)
  BY <1>2, <1>7, Zenon DEF Range
<1> QED BY <1>6, <1>7, <1>8, Zenon

(* The hits of each readout module                                         *)
CRMStep(c, acc, h) ==
  IF h.crm # acc.lastcrm
    THEN [lastcrm |-> h.crm, colls |-> Append(acc.colls, AddHit(EmptyCollection, h))]
    ELSE [acc EXCEPT !.colls = Front(@) \o <<AddHit(Last(@), h)>>]

(* The collections of the first k hits have no hit in common.              *)
CRMInv(c, k, acc) ==
  /\ CollsOK(c.hits, acc.colls)
  /\ acc.colls = <<>> => acc.lastcrm = -1
  /\ \A x \in HeldIn(acc.colls) : \E i \in 1 .. k : x = c.seq[i]
  /\ \E S : acc \in [lastcrm : S, colls : S]

(* Sorting by module, as a fold over the hits                              *)
CRMFold == INSTANCE FoldTheorems WITH Step <- CRMStep, Inv <- CRMInv

(* The last collection with one more hit                                   *)
LEMMA LastGrown ==
  ASSUME NEW cs, NEW S, cs \in Seq(S), NEW c
  PROVE  cs \o <<c>> = Append(cs, c)
<1>1. cs \in Seq(S \cup {c})
  <2>1. cs \in [1 .. Len(cs) -> S] /\ Len(cs) \in Nat
    OBVIOUS
  <2>2. cs \in [1 .. Len(cs) -> S \cup {c}]
    BY <2>1
  <2> QED BY <2>1, <2>2
<1>2. c \in S \cup {c}
  OBVIOUS
<1> DEFINE T == S \cup {c}
<1> HIDE DEF T
<1>3. cs \in Seq(T) /\ c \in T
  BY <1>1, <1>2 DEF T
<1> QED BY <1>3

(* One hit more, in the collection of its module                           *)
LEMMA CRMStepOK ==
  ASSUME NEW c, HitsOK(c.hits), NEW n \in Nat, c.seq \in Seq(c.hits), n = Len(c.seq), IsInjective(c.seq),
         NEW k \in 0 .. n - 1, NEW acc, CRMInv(c, k, acc)
  PROVE  CRMInv(c, k + 1, CRMStep(c, acc, c.seq[k + 1]))
<1> DEFINE H == c.hits
           hs == c.seq
           h == hs[k + 1]
           colls == acc.colls
           next == CRMStep(c, acc, h)
<1>1. /\ CollsOK(H, colls) /\ (colls = <<>> => acc.lastcrm = -1)
      /\ \A x \in HeldIn(colls) : \E i \in 1 .. k : x = hs[i]
  BY Zenon DEF CRMInv
<1>2. DOMAIN hs = 1 .. n /\ h \in H
  BY DEF hs
<1>3. h \notin HeldIn(colls)
  <2>1. k + 1 \in 1 .. n /\ \A i \in 1 .. k : i \in 1 .. n /\ i # k + 1
    OBVIOUS
  <2> QED BY <1>1, <1>2, <2>1, Zenon DEF IsInjective
<1>4. h.crm # -1 /\ \A x \in H : HitOK(x)
  BY <1>2, Zenon DEF HitsOK
<1> HIDE DEF H, hs, h, colls
<1>5. CASE h.crm # acc.lastcrm
  <2> DEFINE one == AddHit(EmptyCollection, h)
             new == Append(colls, one)
  <2>1. CollOK(H, one) /\ Held(one) \subseteq {h}
    <3>1. CollOK(H, EmptyCollection) /\ Held(EmptyCollection) = {}
      BY EmptyOK, Zenon
    <3>2. CollOK(H, one) /\ (Held(one) = Held(EmptyCollection) \cup {h} \/ Held(one) = Held(EmptyCollection))
      BY <1>2, <1>4, <3>1, AddHitOK, Zenon
    <3> QED BY <3>1, <3>2, Zenon
  <2> HIDE DEF one
  <2>2. CollsOK(H, new) /\ HeldIn(new) = HeldIn(colls) \cup Held(one)
    <3>1. Held(one) \cap HeldIn(colls) = {}
      BY <1>3, <2>1, Zenon
    <3> QED BY <1>1, <2>1, <3>1, CollAppended, Zenon
  <2>3. new # <<>>
    <3>1. PICK S : colls \in Seq(S)
      BY <1>1, Zenon DEF CollsOK
    <3>2. Len(new) = Len(colls) + 1 /\ Len(colls) \in Nat
      BY <3>1
    <3> QED BY <3>2
  <2> DEFINE r == [lastcrm |-> h.crm, colls |-> new]
  <2>4. next = r
    BY <1>5, Zenon DEF CRMStep, new, one, colls
  <2> HIDE DEF new
  <2>5. r.colls = new /\ \E S : r \in [lastcrm : S, colls : S]
    <3>1. r \in [lastcrm : {h.crm, new}, colls : {h.crm, new}]
      OBVIOUS
    <3> QED BY <3>1, Zenon
  <2> HIDE DEF r
  <2>6. \A x \in HeldIn(new) : \E i \in 1 .. k + 1 : x = hs[i]
    <3>1. k + 1 \in 1 .. k + 1 /\ \A i \in 1 .. k : i \in 1 .. k + 1
      OBVIOUS
    <3> QED BY <1>1, <2>1, <2>2, <3>1, Zenon DEF h
  <2>7. CRMInv(c, k + 1, r)
    BY <2>2, <2>3, <2>5, <2>6, Zenon DEF CRMInv, H, hs
  <2> QED BY <2>4, <2>7 DEF next, h, hs
<1>6. CASE h.crm = acc.lastcrm
  <2> DEFINE one == AddHit(Last(colls), h)
             new == Append(Front(colls), one)
  <2>1. colls # <<>>
    BY <1>1, <1>4, <1>6, Zenon
  <2>2. /\ CollsOK(H, Front(colls)) /\ CollOK(H, Last(colls))
        /\ Held(Last(colls)) \cap HeldIn(Front(colls)) = {}
        /\ HeldIn(Front(colls)) \subseteq HeldIn(colls) /\ Held(Last(colls)) \subseteq HeldIn(colls)
    BY <1>1, <2>1, CollFront, Zenon
  <2>3. CollOK(H, one) /\ Held(one) \subseteq Held(Last(colls)) \cup {h}
    <3>1. h \notin Held(Last(colls))
      BY <1>3, <2>2, Zenon
    <3>2. CollOK(H, one) /\ (Held(one) = Held(Last(colls)) \cup {h} \/ Held(one) = Held(Last(colls)))
      BY <1>2, <1>4, <2>2, <3>1, AddHitOK, Zenon
    <3> QED BY <3>2, Zenon
  <2> HIDE DEF one
  <2>4. CollsOK(H, new) /\ HeldIn(new) = HeldIn(Front(colls)) \cup Held(one)
    <3>1. Held(one) \cap HeldIn(Front(colls)) = {}
      BY <1>3, <2>2, <2>3, Zenon
    <3> QED BY <2>2, <2>3, <3>1, CollAppended, Zenon
  <2>5. PICK S : Front(colls) \in Seq(S)
    BY <2>2, Zenon DEF CollsOK
  <2>6. new # <<>> /\ new = Front(colls) \o <<one>>
    <3>1. Len(new) = Len(Front(colls)) + 1 /\ Len(Front(colls)) \in Nat
      BY <2>5
    <3>2. new # <<>>
      BY <3>1
    <3> QED BY <2>5, <3>2, LastGrown, Zenon
  <2> DEFINE r == [acc EXCEPT !.colls = new]
  <2>7. next = r
    BY <1>6, <2>6, Zenon DEF CRMStep, one, colls
  <2> HIDE DEF new
  <2>8. r.colls = new /\ \E U : r \in [lastcrm : U, colls : U]
    <3>1. PICK U : acc \in [lastcrm : U, colls : U]
      BY Zenon DEF CRMInv
    <3>2. r.colls = new /\ r \in [lastcrm : U \cup {new}, colls : U \cup {new}]
      BY <3>1
    <3> QED BY <3>2, Zenon
  <2> HIDE DEF r
  <2>9. \A x \in HeldIn(new) : \E i \in 1 .. k + 1 : x = hs[i]
    <3>1. k + 1 \in 1 .. k + 1 /\ \A i \in 1 .. k : i \in 1 .. k + 1
      OBVIOUS
    <3> QED BY <1>1, <2>2, <2>3, <2>4, <3>1, Zenon DEF h
  <2>10. CRMInv(c, k + 1, r)
    BY <2>4, <2>6, <2>8, <2>9, Zenon DEF CRMInv, H, hs
  <2> QED BY <2>7, <2>10 DEF next, h, hs
<1> QED BY <1>5, <1>6 DEF next, h, hs

(* Hits of one module are in one collection, once.                         *)
LEMMA ByCRMOK ==
  ASSUME NEW H, HitsOK(H), NEW hs \in Seq(H), IsInjective(hs)
  PROVE  CollsOK(H, ByCRM(hs))
<1> DEFINE c == [hits |-> H, seq |-> hs]
           n == Len(hs)
           base == [lastcrm |-> -1, colls |-> <<>>]
           r == CRMFold!Fold(c, base, hs)
<1>1. c.hits = H /\ c.seq = hs
  OBVIOUS
<1>2. n \in Nat /\ DOMAIN hs = 1 .. n
  OBVIOUS
<1> HIDE DEF c
<1>3. CRMInv(c, 0, base)
  <2>1. base.colls = <<>> /\ base.lastcrm = -1 /\ base \in [lastcrm : {-1, <<>>}, colls : {-1, <<>>}]
    OBVIOUS
  <2>2. CollsOK(H, <<>>) /\ HeldIn(<<>>) = {}
    BY NoColls, Zenon
  <2> HIDE DEF base
  <2> QED BY <1>1, <2>1, <2>2, Zenon DEF CRMInv
<1> HIDE DEF base
<1>4. ASSUME NEW k \in 0 .. n - 1, NEW acc, CRMInv(c, k, acc)
      PROVE  CRMInv(c, k + 1, CRMStep(c, acc, hs[k + 1]))
  <2>1. HitsOK(c.hits) /\ c.seq \in Seq(c.hits) /\ n = Len(c.seq) /\ IsInjective(c.seq)
    BY <1>1, Zenon
  <2>2. CRMInv(c, k + 1, CRMStep(c, acc, c.seq[k + 1]))
    BY <1>2, <1>4, <2>1, CRMStepOK
  <2> QED BY <1>1, <2>2, Zenon
<1>5. CRMInv(c, n, r)
  BY <1>2, <1>3, <1>4, CRMFold!FoldInvariant
<1>6. ByCRM(hs) = r.colls
  BY Zenon DEF r, base, ByCRM, CRMFold!Fold, CRMStep, CRMFold!FoldLeft,
     CRMFold!MapThenFoldSet, FoldLeft, MapThenFoldSet, CRMFold!Max, Max
<1> HIDE DEF r
<1> QED BY <1>1, <1>5, <1>6, Zenon DEF CRMInv

(* The hits of the view, by readout module                                 *)
InputInv ==
  /\ input \in Seq(Range(input)) /\ IsInjective(input) /\ HitsOK(Range(input))
  /\ CollsOK(Range(input), hitsView) /\ crmNo \in Nat
  /\ step = "idle" => crmNo = 0 /\ fData = <<>>
  /\ fData = <<>> \/ (crmNo \in DOMAIN hitsView /\ Range(fData) \subseteq Held(hitsView[crmNo]))

(* Those of the module in work, and the list of hits of a cluster          *)
VisitInv ==
  /\ fData \in Seq(Range(input)) /\ IsInjective(fData)
  /\ isVisited \in [DOMAIN fData -> {-1, 0, 1, 2}]
  /\ seedHit \in 0 .. Len(fData)
  /\ hitList \in Seq(DOMAIN fData) /\ (hitList # <<>> => listPos \in Nat \ {0})

(* A hit is a member of a cluster once, and of one cluster only.           *)
MemberInv ==
  /\ hitCluster \in Seq(DOMAIN fData) /\ IsInjective(hitCluster)
  /\ \A k \in Range(hitCluster) : isVisited[k] = 2
  /\ CollsOK(Range(input), hitclus) /\ HeldIn(hitclus) \subseteq Range(fData)
  /\ \A k \in DOMAIN fData : fData[k] \in HeldIn(hitclus) => isVisited[k] = 2 /\ k \notin Range(hitCluster)

(* The inductive invariant of clustering                                   *)
ClusInv == InputInv /\ VisitInv /\ MemberInv

(* The hits near a hit are hits of the module.                             *)
LEMMA RegionQueryOK ==
  ASSUME VisitInv, NEW idx
  PROVE  RegionQuery(idx) \in Seq(DOMAIN fData)
<1> DEFINE s == [k \in DOMAIN fData |-> k]
           T == DOMAIN fData
           S == {k \in DOMAIN fData : k = idx \/ Close(fData[idx], fData[k])}
<1>1. s \in Seq(T)
  <2>1. fData \in Seq(Range(input))
    BY Zenon DEF VisitInv
  <2>2. Len(fData) \in Nat /\ T = 1 .. Len(fData)
    BY <2>1
  <2> QED BY <2>2
<1> HIDE DEF s, T, S
<1>2. Sift(s, S) \in Seq(T)
  BY <1>1, SiftOK
<1> QED BY <1>2, Zenon DEF RegionQuery, s, S, T

(* A hit is visited as the seed of a cluster.                              *)
LEMMA SeedClusterKeeps ==
  ASSUME ClusInv, SeedCluster, input' = input, hitsView' = hitsView, crmNo' = crmNo, step' = step
  PROVE  ClusInv'
<1> DEFINE k == seedHit + 1
           near == RegionQuery(k)
<1>1. /\ hitList = <<>> /\ seedHit < Len(fData) /\ seedHit' = k
      /\ fData' = fData /\ hitCluster' = hitCluster /\ hitclus' = hitclus
      /\ \/ isVisited' = isVisited /\ hitList' = hitList
         \/ isVisited[k] = 0 /\ isVisited' = [isVisited EXCEPT ![k] = -1] /\ hitList' = hitList
         \/ /\ isVisited[k] = 0 /\ isVisited' = [isVisited EXCEPT ![k] = 1]
            /\ hitList' = near /\ listPos' = 1
  BY DEF SeedCluster
<1>2. /\ fData \in Seq(Range(input)) /\ IsInjective(fData)
      /\ isVisited \in [DOMAIN fData -> {-1, 0, 1, 2}]
      /\ seedHit \in 0 .. Len(fData) /\ hitList \in Seq(DOMAIN fData)
  BY Zenon DEF ClusInv, VisitInv
<1>3. Len(fData) \in Nat /\ DOMAIN fData = 1 .. Len(fData)
  BY <1>2
<1>4. k \in DOMAIN fData /\ k \in 0 .. Len(fData)
  BY <1>1, <1>2, <1>3
<1>5. near \in Seq(DOMAIN fData)
  BY RegionQueryOK, Zenon DEF ClusInv
<1> HIDE DEF k, near
<1>6. /\ isVisited' \in [DOMAIN fData -> {-1, 0, 1, 2}]
      /\ \A j \in DOMAIN fData : isVisited[j] = 2 => isVisited'[j] = 2
  BY <1>1, <1>2, <1>4
<1>7. hitList' \in Seq(DOMAIN fData) /\ (hitList' # <<>> => listPos' \in Nat \ {0})
  <2>1. hitList' = hitList => hitList' = <<>>
    BY <1>1, Zenon
  <2>2. hitList' # hitList => hitList' = near /\ listPos' = 1
    BY <1>1, Zenon
  <2>3. hitList' \in Seq(DOMAIN fData)
    BY <1>2, <1>5, <2>2, Zenon
  <2>4. 1 \in Nat \ {0}
    OBVIOUS
  <2> QED BY <2>1, <2>2, <2>3, <2>4, Zenon
<1>8. VisitInv'
  BY <1>1, <1>2, <1>4, <1>6, <1>7 DEF VisitInv
<1>9. InputInv'
  BY <1>1 DEF ClusInv, InputInv
<1>10. MemberInv'
  <2>1. /\ hitCluster \in Seq(DOMAIN fData) /\ IsInjective(hitCluster)
        /\ \A j \in Range(hitCluster) : isVisited[j] = 2
        /\ CollsOK(Range(input), hitclus) /\ HeldIn(hitclus) \subseteq Range(fData)
        /\ \A j \in DOMAIN fData : fData[j] \in HeldIn(hitclus) => isVisited[j] = 2 /\ j \notin Range(hitCluster)
    BY Zenon DEF ClusInv, MemberInv
  <2>2. Range(hitCluster) \subseteq DOMAIN fData
    BY <2>1 DEF Range
  <2>3. \A j \in Range(hitCluster) : isVisited'[j] = 2
    BY <1>6, <2>1, <2>2, Zenon
  <2>4. \A j \in DOMAIN fData : fData[j] \in HeldIn(hitclus) => isVisited'[j] = 2 /\ j \notin Range(hitCluster)
    BY <1>6, <2>1, Zenon
  <2> QED BY <1>1, <2>1, <2>3, <2>4 DEF MemberInv
<1> QED BY <1>8, <1>9, <1>10, Zenon DEF ClusInv

(* One more member, that is none yet                                       *)
LEMMA OneMore ==
  ASSUME NEW T, NEW s \in Seq(T), IsInjective(s), NEW x \in T, x \notin Range(s)
  PROVE  Append(s, x) \in Seq(T) /\ IsInjective(Append(s, x)) /\ Range(Append(s, x)) = Range(s) \cup {x}
<1> DEFINE r == Append(s, x)
           n == Len(s)
<1>1. /\ n \in Nat /\ DOMAIN s = 1 .. n /\ r \in Seq(T) /\ DOMAIN r = 1 .. n + 1
      /\ r[n + 1] = x /\ \A i \in 1 .. n : r[i] = s[i]
  OBVIOUS
<1> HIDE DEF r, n
<1>2. /\ \A i \in 1 .. n + 1 : (i \in 1 .. n /\ i # n + 1) \/ i = n + 1
      /\ \A i \in 1 .. n : i \in 1 .. n + 1
      /\ n + 1 \in 1 .. n + 1
  BY <1>1
<1>3. \A i \in 1 .. n : s[i] # x
  BY <1>1, Zenon DEF Range
<1>4. \A i, j \in 1 .. n + 1 : r[i] = r[j] => i = j
  <2>1. \A i, j \in 1 .. n : s[i] = s[j] => i = j
    BY <1>1, Zenon DEF IsInjective
  <2> QED BY <1>1, <1>2, <1>3, <2>1, Zenon
<1>5. IsInjective(r)
  BY <1>1, <1>4, Zenon DEF IsInjective
<1>6. ASSUME NEW y PROVE y \in Range(r) <=> y \in Range(s) \/ y = x
  BY <1>1, <1>2, Zenon DEF Range
<1> QED BY <1>1, <1>5, <1>6, Zenon DEF r

(* A hit of the list is visited, and what is near it joins the cluster.    *)
LEMMA ExpandClusterKeeps ==
  ASSUME ClusInv, ExpandCluster, input' = input, hitsView' = hitsView, crmNo' = crmNo, step' = step
  PROVE  ClusInv'
<1> DEFINE idx == hitList[listPos]
           near == RegionQuery(idx)
<1>1. /\ hitList # <<>> /\ listPos <= Len(hitList) /\ listPos' = listPos + 1
      /\ fData' = fData /\ seedHit' = seedHit /\ hitclus' = hitclus
      /\ isVisited' = [isVisited EXCEPT ![idx] = IF isVisited[idx] = 0 THEN 1 ELSE 2]
      /\ (hitList' = hitList \/ hitList' = hitList \o near)
      /\ hitCluster' = IF isVisited[idx] \in {1, -1} THEN Append(hitCluster, idx) ELSE hitCluster
  BY DEF ExpandCluster
<1>2. /\ fData \in Seq(Range(input)) /\ IsInjective(fData)
      /\ isVisited \in [DOMAIN fData -> {-1, 0, 1, 2}]
      /\ seedHit \in 0 .. Len(fData) /\ hitList \in Seq(DOMAIN fData)
      /\ listPos \in Nat \ {0}
  BY <1>1, Zenon DEF ClusInv, VisitInv
<1>3. idx \in DOMAIN fData
  <2> DEFINE T == DOMAIN fData
  <2> HIDE DEF T
  <2>1. hitList \in Seq(T) /\ listPos \in 1 .. Len(hitList)
    BY <1>1, <1>2 DEF T
  <2>2. hitList[listPos] \in T
    BY <2>1
  <2> QED BY <2>2 DEF T
<1>4. near \in Seq(DOMAIN fData)
  BY RegionQueryOK, Zenon DEF ClusInv
<1> HIDE DEF idx, near
<1>5. hitList' \in Seq(DOMAIN fData)
  <2> DEFINE T == DOMAIN fData
  <2> HIDE DEF T
  <2>1. hitList \in Seq(T) /\ near \in Seq(T)
    BY <1>2, <1>4 DEF T
  <2>2. hitList \o near \in Seq(T)
    BY <2>1
  <2>3. hitList' \in Seq(T)
    BY <1>1, <2>1, <2>2, Zenon
  <2> QED BY <2>3, Zenon DEF T
<1>6. isVisited' \in [DOMAIN fData -> {-1, 0, 1, 2}] /\ listPos' \in Nat \ {0}
  BY <1>1, <1>2, <1>3
<1>7. /\ \A j \in DOMAIN fData : isVisited[j] = 2 => isVisited'[j] = 2
      /\ isVisited[idx] \in {1, -1} => isVisited'[idx] = 2
  BY <1>1, <1>2, <1>3
<1>8. VisitInv'
  BY <1>1, <1>2, <1>5, <1>6 DEF VisitInv
<1>9. InputInv'
  BY <1>1 DEF ClusInv, InputInv
<1>10. MemberInv'
  <2>1. /\ hitCluster \in Seq(DOMAIN fData) /\ IsInjective(hitCluster)
        /\ \A j \in Range(hitCluster) : isVisited[j] = 2
        /\ CollsOK(Range(input), hitclus) /\ HeldIn(hitclus) \subseteq Range(fData)
        /\ \A j \in DOMAIN fData : fData[j] \in HeldIn(hitclus) => isVisited[j] = 2 /\ j \notin Range(hitCluster)
    BY Zenon DEF ClusInv, MemberInv
  <2>2. Range(hitCluster) \subseteq DOMAIN fData
    BY <2>1 DEF Range
  <2>3. CASE isVisited[idx] \in {1, -1}
    <3>1. isVisited[idx] # 2
      BY <2>3
    <3>2. idx \notin Range(hitCluster) /\ fData[idx] \notin HeldIn(hitclus)
      BY <1>3, <2>1, <3>1, Zenon
    <3>3. hitCluster' = Append(hitCluster, idx)
      BY <1>1, <2>3, Zenon
    <3>4. /\ hitCluster' \in Seq(DOMAIN fData) /\ IsInjective(hitCluster')
          /\ Range(hitCluster') = Range(hitCluster) \cup {idx}
      <4> DEFINE T == DOMAIN fData
      <4> HIDE DEF T
      <4>1. hitCluster \in Seq(T) /\ IsInjective(hitCluster) /\ idx \in T
        BY <1>3, <2>1, Zenon DEF T
      <4>2. /\ Append(hitCluster, idx) \in Seq(T) /\ IsInjective(Append(hitCluster, idx))
            /\ Range(Append(hitCluster, idx)) = Range(hitCluster) \cup {idx}
        BY <3>2, <4>1, OneMore
      <4> QED BY <3>3, <4>2, Zenon DEF T
    <3>5. \A j \in Range(hitCluster') : isVisited'[j] = 2
      BY <1>7, <2>1, <2>2, <2>3, <3>4, Zenon
    <3>6. \A j \in DOMAIN fData : fData[j] \in HeldIn(hitclus) => isVisited'[j] = 2 /\ j \notin Range(hitCluster')
      BY <1>7, <2>1, <3>2, <3>4, Zenon
    <3> QED BY <1>1, <2>1, <3>4, <3>5, <3>6 DEF MemberInv
  <2>4. CASE isVisited[idx] \notin {1, -1}
    <3>1. hitCluster' = hitCluster
      BY <1>1, <2>4, Zenon
    <3>2. \A j \in Range(hitCluster) : isVisited'[j] = 2
      BY <1>7, <2>1, <2>2, Zenon
    <3>3. \A j \in DOMAIN fData : fData[j] \in HeldIn(hitclus) => isVisited'[j] = 2 /\ j \notin Range(hitCluster)
      BY <1>7, <2>1, Zenon
    <3> QED BY <1>1, <2>1, <3>1, <3>2, <3>3 DEF MemberInv
  <2> QED BY <2>3, <2>4
<1> QED BY <1>8, <1>9, <1>10, Zenon DEF ClusInv

(* The hits of a cluster                                                   *)
LEMMA MembersOnce ==
  ASSUME NEW H, NEW data \in Seq(H), IsInjective(data), NEW ks \in Seq(DOMAIN data), IsInjective(ks)
  PROVE  LET hs == [k \in DOMAIN ks |-> data[ks[k]]]
         IN  hs \in Seq(H) /\ IsInjective(hs) /\ \A x \in Range(hs) : \E k \in Range(ks) : x = data[k]
<1> DEFINE hs == [k \in DOMAIN ks |-> data[ks[k]]]
           T == DOMAIN data
           n == Len(ks)
<1>1. /\ T = 1 .. Len(data) /\ \A k \in T : data[k] \in H
  OBVIOUS
<1> HIDE DEF T
<1>2. ks \in Seq(T)
  BY DEF T
<1>3. n \in Nat /\ DOMAIN ks = 1 .. n /\ \A k \in 1 .. n : ks[k] \in T
  BY <1>2
<1> HIDE DEF n
<1>4. hs = [k \in 1 .. n |-> data[ks[k]]]
  BY <1>3, Zenon
<1>5. \A k \in 1 .. n : data[ks[k]] \in H
  BY <1>1, <1>3, Zenon
<1>6. hs \in Seq(H) /\ DOMAIN hs = 1 .. n
  BY <1>3, <1>4, <1>5
<1>7. \A k \in 1 .. n : hs[k] = data[ks[k]]
  BY <1>4, Zenon
<1> HIDE DEF hs
<1>8. IsInjective(hs)
  <2>1. \A i, j \in 1 .. n : hs[i] = hs[j] => i = j
    BY <1>3, <1>7, Zenon DEF IsInjective, T
  <2> QED BY <1>6, <2>1, Zenon DEF IsInjective
<1>9. \A x \in Range(hs) : \E k \in Range(ks) : x = data[k]
  <2> TAKE x \in Range(hs)
  <2>1. PICK i \in DOMAIN hs : x = hs[i]
    BY Zenon DEF Range
  <2>2. x = data[ks[i]] /\ i \in DOMAIN ks
    BY <1>3, <1>6, <1>7, <2>1, Zenon
  <2>3. ks[i] \in Range(ks)
    BY <2>2, Zenon DEF Range
  <2> QED BY <2>2, <2>3, Zenon
<1> QED BY <1>6, <1>8, <1>9, Zenon DEF hs

(* A cluster is complete and collected.                                    *)
LEMMA EndClusterKeeps ==
  ASSUME ClusInv, EndCluster, input' = input, hitsView' = hitsView, crmNo' = crmNo, step' = step
  PROVE  ClusInv'
<1> DEFINE H == Range(input)
           hs == [k \in DOMAIN hitCluster |-> fData[hitCluster[k]]]
           new == Collected(hs)
<1>1. /\ fData' = fData /\ seedHit' = seedHit /\ isVisited' = isVisited
      /\ hitList' = <<>> /\ hitCluster' = <<>>
      /\ (hitclus' = hitclus \/ hitclus' = Append(hitclus, new))
  BY Zenon DEF EndCluster, Collected
<1>2. /\ fData \in Seq(H) /\ IsInjective(fData)
      /\ isVisited \in [DOMAIN fData -> {-1, 0, 1, 2}]
      /\ seedHit \in 0 .. Len(fData)
  BY Zenon DEF ClusInv, VisitInv
<1>3. /\ hitCluster \in Seq(DOMAIN fData) /\ IsInjective(hitCluster)
      /\ \A j \in Range(hitCluster) : isVisited[j] = 2
      /\ CollsOK(H, hitclus) /\ HeldIn(hitclus) \subseteq Range(fData)
      /\ \A j \in DOMAIN fData : fData[j] \in HeldIn(hitclus) => isVisited[j] = 2 /\ j \notin Range(hitCluster)
  BY Zenon DEF ClusInv, MemberInv
<1>4. HitsOK(H)
  BY Zenon DEF ClusInv, InputInv
<1>5. <<>> \in Seq(DOMAIN fData) /\ IsInjective(<<>>) /\ Range(<<>>) = {}
  BY DEF IsInjective, Range
<1>6. VisitInv'
  BY <1>1, <1>2, <1>5 DEF VisitInv
<1>7. InputInv'
  BY <1>1 DEF ClusInv, InputInv
<1>8. Range(hitCluster) \subseteq DOMAIN fData
  BY <1>3 DEF Range
<1>9. hs \in Seq(H) /\ IsInjective(hs) /\ \A x \in Range(hs) : \E k \in Range(hitCluster) : x = fData[k]
  BY <1>2, <1>3, MembersOnce
<1> HIDE DEF hs, H
<1>10. CollOK(H, new) /\ Held(new) \subseteq Range(hs)
  BY <1>4, <1>9, CollectedOK, Zenon
<1> HIDE DEF new
<1>11. \A x \in Held(new) : \E k \in Range(hitCluster) : x = fData[k] /\ k \in DOMAIN fData
  BY <1>8, <1>9, <1>10, Zenon
<1>12. Held(new) \cap HeldIn(hitclus) = {} /\ Held(new) \subseteq Range(fData)
  BY <1>3, <1>11, Zenon DEF Range
<1>13. CollsOK(H, Append(hitclus, new)) /\ HeldIn(Append(hitclus, new)) = HeldIn(hitclus) \cup Held(new)
  BY <1>3, <1>10, <1>12, CollAppended, Zenon
<1>14. CollsOK(H, hitclus') /\ HeldIn(hitclus') \subseteq HeldIn(hitclus) \cup Held(new)
  BY <1>1, <1>3, <1>13, Zenon
<1>15. HeldIn(hitclus') \subseteq Range(fData)
  BY <1>3, <1>12, <1>14, Zenon
<1>16. ASSUME NEW j \in DOMAIN fData, fData[j] \in HeldIn(hitclus') PROVE isVisited[j] = 2
  <2>1. CASE fData[j] \in HeldIn(hitclus)
    BY <1>3, <2>1, Zenon
  <2>2. CASE fData[j] \in Held(new)
    <3>1. PICK k \in Range(hitCluster) : fData[j] = fData[k] /\ k \in DOMAIN fData
      BY <1>11, <2>2, Zenon
    <3>2. j = k
      BY <1>2, <3>1, Zenon DEF IsInjective
    <3> QED BY <1>3, <3>1, <3>2, Zenon
  <2> QED BY <1>14, <1>16, <2>1, <2>2, Zenon
<1>17. MemberInv'
  BY <1>1, <1>5, <1>14, <1>15, <1>16 DEF MemberInv, H
<1> QED BY <1>6, <1>7, <1>17, Zenon DEF ClusInv

(* The hits of the next module, each once                                  *)
LEMMA NextCollectionKeeps == ASSUME ClusInv, NextCollection PROVE ClusInv'
<1> DEFINE H == Range(input)
           n == crmNo + 1
           hits2 == GetHitList(hitsView[n], -1)
<1>1. /\ step = "segments" /\ crmNo < Len(hitsView) /\ crmNo' = n /\ fData' = hits2
      /\ isVisited' = [k \in DOMAIN hits2 |-> 0]
      /\ seedHit' = 0 /\ hitList' = <<>> /\ hitCluster' = <<>> /\ hitclus' = <<>>
      /\ input' = input /\ hitsView' = hitsView /\ step' = step
  BY DEF NextCollection, StartClusters
<1>2. /\ input \in Seq(H) /\ IsInjective(input) /\ HitsOK(H) /\ CollsOK(H, hitsView) /\ crmNo \in Nat
  BY Zenon DEF ClusInv, InputInv
<1>3. n \in DOMAIN hitsView /\ n \in Nat
  <2>1. PICK S : hitsView \in Seq(S)
    BY <1>2, Zenon DEF CollsOK
  <2> QED BY <1>1, <1>2, <2>1
<1> HIDE DEF n
<1>4. CollOK(H, hitsView[n])
  BY <1>2, <1>3, Zenon DEF CollsOK
<1>5. hits2 \in Seq(H) /\ IsInjective(hits2) /\ Range(hits2) \subseteq Held(hitsView[n])
  <2>1. Listed(H, hitsView[n], hits2)
    BY <1>4, HitListOK, Zenon
  <2> QED BY <2>1, Zenon DEF Listed
<1> HIDE DEF hits2
<1>6. InputInv'
  BY <1>1, <1>2, <1>3, <1>5 DEF InputInv
<1>7. <<>> \in Seq(DOMAIN hits2) /\ IsInjective(<<>>) /\ Range(<<>>) = {}
  BY DEF IsInjective, Range
<1>8. 0 \in 0 .. Len(hits2) /\ [k \in DOMAIN hits2 |-> 0] \in [DOMAIN hits2 -> {-1, 0, 1, 2}]
  BY <1>5
<1>9. VisitInv'
  BY <1>1, <1>5, <1>7, <1>8 DEF VisitInv
<1>10. MemberInv'
  <2>1. CollsOK(H, <<>>) /\ HeldIn(<<>>) = {}
    BY NoColls, Zenon
  <2> QED BY <1>1, <1>7, <2>1, Zenon DEF MemberInv
<1> QED BY <1>6, <1>9, <1>10, Zenon DEF ClusInv

(* A cluster that is done with is left out.                                *)
LEMMA FrontClusters ==
  ASSUME ClusInv, hitclus # <<>>, hitclus' = Front(hitclus), input' = input, hitsView' = hitsView,
         crmNo' = crmNo, step' = step, fData' = fData, isVisited' = isVisited, seedHit' = seedHit,
         hitList' = hitList, listPos' = listPos, hitCluster' = hitCluster
  PROVE  ClusInv'
<1>1. CollsOK(Range(input), hitclus)
  BY Zenon DEF ClusInv, MemberInv
<1>2. CollsOK(Range(input), Front(hitclus)) /\ HeldIn(Front(hitclus)) \subseteq HeldIn(hitclus)
  BY <1>1, CollFront, Zenon
<1>3. InputInv' /\ VisitInv'
  BY DEF ClusInv, InputInv, VisitInv
<1>4. MemberInv'
  <2>1. /\ hitCluster \in Seq(DOMAIN fData) /\ IsInjective(hitCluster)
        /\ \A j \in Range(hitCluster) : isVisited[j] = 2
        /\ HeldIn(hitclus) \subseteq Range(fData)
        /\ \A j \in DOMAIN fData : fData[j] \in HeldIn(hitclus) => isVisited[j] = 2 /\ j \notin Range(hitCluster)
    BY Zenon DEF ClusInv, MemberInv
  <2>2. /\ HeldIn(Front(hitclus)) \subseteq Range(fData)
        /\ \A j \in DOMAIN fData : fData[j] \in HeldIn(Front(hitclus)) => isVisited[j] = 2 /\ j \notin Range(hitCluster)
    BY <1>2, <2>1, Zenon
  <2> QED BY <1>2, <2>1, <2>2 DEF MemberInv
<1> QED BY <1>3, <1>4, Zenon DEF ClusInv

(* The cluster worked on next: its hits, each once                         *)
LEMMA ClusterHits ==
  ASSUME ClusInv, hitclus # <<>>
  PROVE  LET hs == AllHits(Last(hitclus))
         IN  /\ HitPointsOK(hs) /\ hs \in Seq(Range(input)) /\ IsInjective(hs)
             /\ Range(hs) = Held(Last(hitclus))
<1> DEFINE H == Range(input)
           c == Last(hitclus)
           hs == AllHits(c)
<1>1. CollsOK(H, hitclus) /\ HitsOK(H)
  BY Zenon DEF ClusInv, MemberInv, InputInv
<1>2. CollOK(H, c)
  BY <1>1, CollFront, Zenon
<1>3. Listed(H, c, hs) /\ Range(hs) = Held(c)
  BY <1>2, AllHitsOK, Zenon
<1> HIDE DEF hs, H
<1>4. hs \in Seq(H) /\ IsInjective(hs)
  BY <1>3, Zenon DEF Listed
<1>5. hs \in Seq(Range(hs)) /\ \A k \in DOMAIN hs : hs[k] \in H
  BY <1>4 DEF Range
<1>6. \A k \in DOMAIN hs : hs[k].ch \in Int /\ hs[k].start \in Int
  <2> TAKE k \in DOMAIN hs
  <2>1. hs[k].ch \in Nat /\ hs[k].start \in Int
    BY <1>1, <1>5, Zenon DEF HitsOK, HitOK
  <2> QED BY <2>1
<1>7. HitPointsOK(hs)
  BY <1>4, <1>5, <1>6, Zenon DEF HitPointsOK
<1> QED BY <1>3, <1>4, <1>7, Zenon DEF hs, H

-----------------------------------------------------------------------------
(* The track reconstruction                                                *)

(* A builder works for a cluster that waits to be done, in the loop over   *)
(* the modules.                                                            *)
BuildControl ==
  /\ phase # "idle" => step = "segments" /\ builder = "MTC" /\ ClustersDone /\ hitclus # <<>>
  /\ step = "idle" => hitclus = <<>>

(* The inductive invariant of the track reconstruction                     *)
TrackInv == ClusInv /\ BuilderInv /\ BuildControl

(* What holds when nothing is there                                        *)
LEMMA NothingThere ==
  ASSUME input = <<>>, hitsView = <<>>, crmNo = 0, fData = <<>>, isVisited = <<>>, seedHit = 0,
         hitList = <<>>, hitCluster = <<>>, hitclus = <<>>
  PROVE  ClusInv
<1>1. /\ <<>> \in Seq(Range(<<>>)) /\ IsInjective(<<>>) /\ HitsOK(Range(<<>>)) /\ Range(<<>>) = {}
      /\ 0 \in Nat /\ <<>> \in [DOMAIN <<>> -> {-1, 0, 1, 2}] /\ 0 \in 0 .. Len(<<>>)
      /\ <<>> \in Seq(DOMAIN <<>>)
  BY DEF IsInjective, Range, HitsOK
<1>2. CollsOK(Range(<<>>), <<>>) /\ HeldIn(<<>>) = {}
  BY NoColls, Zenon
<1>3. InputInv
  BY <1>1, <1>2, Zenon DEF InputInv
<1>4. VisitInv
  BY <1>1, Zenon DEF VisitInv
<1>5. MemberInv
  BY <1>1, <1>2, Zenon DEF MemberInv
<1> QED BY <1>3, <1>4, <1>5, Zenon DEF ClusInv

(* The same, of a step that leaves nothing                                 *)
LEMMA NothingLeft ==
  ASSUME input' = <<>>, hitsView' = <<>>, crmNo' = 0, fData' = <<>>, isVisited' = <<>>, seedHit' = 0,
         hitList' = <<>>, hitCluster' = <<>>, hitclus' = <<>>
  PROVE  ClusInv'
<1>1. /\ <<>> \in Seq(Range(<<>>)) /\ IsInjective(<<>>) /\ HitsOK(Range(<<>>)) /\ Range(<<>>) = {}
      /\ 0 \in Nat /\ <<>> \in [DOMAIN <<>> -> {-1, 0, 1, 2}] /\ 0 \in 0 .. Len(<<>>)
      /\ <<>> \in Seq(DOMAIN <<>>)
  BY DEF IsInjective, Range, HitsOK
<1>2. CollsOK(Range(<<>>), <<>>) /\ HeldIn(<<>>) = {}
  BY NoColls, Zenon
<1>3. InputInv'
  BY <1>1, <1>2, Zenon DEF InputInv
<1>4. VisitInv'
  BY <1>1, Zenon DEF VisitInv
<1>5. MemberInv'
  BY <1>1, <1>2, Zenon DEF MemberInv
<1> QED BY <1>3, <1>4, <1>5, Zenon DEF ClusInv

(* A builder that rests                                                    *)
LEMMA NoHitPoints == HitPointsOK(<<>>) /\ Flags(<<>>, <<>>)
BY DEF HitPointsOK, Flags, IsInjective, Range

(* It keeps the invariant.                                                 *)
LEMMA RestingBuilder == BuilderIdle => BuilderInv
<1> SUFFICES ASSUME BuilderIdle PROVE BuilderInv
  OBVIOUS
<1>1. phase = "idle" /\ fHitPoints = <<>> /\ fHitsInUse = <<>> /\ hitIdx = 0 /\ walk = <<>>
  BY DEF BuilderIdle
<1>2. FlagsInv
  <2>1. hitIdx \in 0 .. Len(fHitPoints) /\ 1 .. hitIdx = {}
    BY <1>1
  <2> QED BY <1>1, <2>1, NoHitPoints, Zenon DEF FlagsInv
<1> QED BY <1>1, <1>2 DEF BuilderInv, IdleInv, GrowInv, WalkInv, SelectInv, JoinInv

(* A step to such a builder                                                *)
LEMMA BuilderRests == BuilderIdle' => BuilderInv'
<1> SUFFICES ASSUME BuilderIdle' PROVE BuilderInv'
  OBVIOUS
<1>1. phase' = "idle" /\ fHitPoints' = <<>> /\ fHitsInUse' = <<>> /\ hitIdx' = 0 /\ walk' = <<>>
  BY DEF BuilderIdle
<1>2. FlagsInv'
  <2>1. hitIdx' \in 0 .. Len(fHitPoints') /\ 1 .. hitIdx' = {}
    BY <1>1
  <2> QED BY <1>1, <2>1, NoHitPoints, Zenon DEF FlagsInv
<1>3. IdleInv'
  BY Zenon DEF IdleInv
<1> QED BY <1>1, <1>2, <1>3 DEF BuilderInv, GrowInv, WalkInv, SelectInv, JoinInv

(* A step that leaves the builder, or the clusters, as they are            *)
LEMMA BuilderSame == ASSUME BuilderInv, UNCHANGED builderVars PROVE BuilderInv'
BY DEF builderVars, BuilderInv, FlagsInv, IdleInv, BuilderIdle, GrowInv, WalkInv, Kept, SelectInv, JoinInv, Trjs

(* A step that leaves the clusters as they are                             *)
LEMMA ClusSame ==
  ASSUME ClusInv, UNCHANGED clusVars, input' = input, hitsView' = hitsView, crmNo' = crmNo,
         step' = "idle" => step = "idle"
  PROVE  ClusInv'
BY DEF clusVars, ClusInv, InputInv, VisitInv, MemberInv

(* The program starts with the invariant.                                  *)
LEMMA TrackInitInv == TrackInit => TrackInv
<1> SUFFICES ASSUME TrackInit PROVE TrackInv
  OBVIOUS
<1>1. BuilderInv
  BY RestingBuilder, Zenon DEF TrackInit
<1>2. ClusInv
  BY NothingThere, Zenon DEF TrackInit, NoClusters
<1>3. BuildControl
  BY Zenon DEF TrackInit, NoClusters, BuilderIdle, BuildControl
<1> QED BY <1>1, <1>2, <1>3, Zenon DEF TrackInv

(* The hits of an event                                                    *)
LEMMA EventHits ==
  ASSUME NEW evt \in Inputs
  PROVE  /\ evt \in Seq(Range(evt)) /\ IsInjective(evt) /\ HitsOK(Range(evt))
         /\ CollsOK(Range(evt), ByCRM(evt))
<1>1. /\ evt \in Seq(Range(evt)) /\ IsInjective(evt)
      /\ \A k \in DOMAIN evt :
           /\ evt[k].ch \in Nat /\ evt[k].crm \in Nat /\ evt[k].view \in Int
           /\ evt[k].start \in Int
  BY InputsAssumption, Zenon
<1>2. HitsOK(Range(evt))
  <2> SUFFICES ASSUME NEW x \in Range(evt) PROVE HitOK(x) /\ x.crm # -1
    BY Zenon DEF HitsOK
  <2>1. PICK k \in DOMAIN evt : x = evt[k]
    BY Zenon DEF Range
  <2>2. x.ch \in Nat /\ x.crm \in Nat /\ x.view \in Int /\ x.start \in Int
    BY <1>1, <2>1, Zenon
  <2> QED BY <2>2 DEF HitOK
<1> QED BY <1>1, <1>2, ByCRMOK, Zenon

(* The hits of a view come in.                                             *)
LEMMA FindTracksViewKeeps ==
  ASSUME TrackInv, NEW evt \in Inputs, FindTracksView(evt)
  PROVE  TrackInv'
<1>1. /\ step = "idle" /\ input' = evt /\ hitsView' = ByCRM(evt) /\ step' = "segments"
      /\ crmNo' = crmNo /\ UNCHANGED clusVars /\ UNCHANGED builderVars
  BY Zenon DEF FindTracksView
<1>2. ClusInv /\ BuilderInv /\ BuildControl
  BY Zenon DEF TrackInv
<1>3. phase = "idle" /\ hitclus = <<>>
  <2>1. step # "segments"
    BY <1>1
  <2> QED BY <1>1, <1>2, <2>1, Zenon DEF BuildControl
<1>4. crmNo = 0 /\ fData = <<>>
  BY <1>1, <1>2, Zenon DEF ClusInv, InputInv
<1>5. InputInv'
  <2>1. crmNo \in Nat /\ step' # "idle" /\ fData' = <<>>
    BY <1>1, <1>4 DEF clusVars
  <2>2. /\ evt \in Seq(Range(evt)) /\ IsInjective(evt) /\ HitsOK(Range(evt))
        /\ CollsOK(Range(evt), ByCRM(evt))
    BY EventHits, Zenon
  <2>3. /\ input' \in Seq(Range(input')) /\ IsInjective(input') /\ HitsOK(Range(input'))
        /\ CollsOK(Range(input'), hitsView')
    BY <1>1, <2>2, Zenon
  <2>4. crmNo' \in Nat
    BY <1>1, <2>1, Zenon
  <2> QED BY <2>1, <2>3, <2>4, Zenon DEF InputInv
<1>6. VisitInv' /\ MemberInv'
  <2>1. /\ fData' = fData /\ isVisited' = isVisited /\ seedHit' = seedHit /\ hitList' = hitList
        /\ listPos' = listPos /\ hitCluster' = hitCluster /\ hitclus' = hitclus
    BY <1>1 DEF clusVars
  <2>2. fData \in Seq(Range(evt)) /\ DOMAIN fData = {}
    BY <1>4
  <2>3. CollsOK(Range(evt), hitclus)
    BY <1>3, NoColls, Zenon
  <2>4. VisitInv'
    BY <1>1, <1>2, <2>1, <2>2, Zenon DEF ClusInv, VisitInv
  <2>5. MemberInv'
    BY <1>1, <1>2, <2>1, <2>3, Zenon DEF ClusInv, MemberInv
  <2> QED BY <2>4, <2>5
<1>7. BuilderInv'
  BY <1>1, <1>2, BuilderSame, Zenon
<1>8. BuildControl'
  BY <1>1, <1>3 DEF BuildControl, builderVars
<1> QED BY <1>5, <1>6, <1>7, <1>8, Zenon DEF TrackInv, ClusInv

(* The loop goes to a module.                                              *)
LEMMA NextCollectionKept == ASSUME TrackInv, NextCollection PROVE TrackInv'
<1>1. step = "segments" /\ phase = "idle" /\ UNCHANGED builderVars /\ step' = step
  BY Zenon DEF NextCollection, CRMDone
<1>2. BuilderInv' /\ ClusInv'
  BY <1>1, NextCollectionKeeps, BuilderSame, Zenon DEF TrackInv
<1>3. BuildControl'
  BY <1>1 DEF BuildControl, builderVars
<1> QED BY <1>2, <1>3, Zenon DEF TrackInv

(* A step of clustering                                                    *)
LEMMA BuildClustersKept == ASSUME TrackInv, BuildClusters PROVE TrackInv'
<1>1. /\ step = "segments" /\ UNCHANGED builderVars /\ step' = step
      /\ input' = input /\ hitsView' = hitsView /\ crmNo' = crmNo
      /\ SeedCluster \/ ExpandCluster \/ EndCluster
  BY Zenon DEF BuildClusters
<1>2. ClusInv /\ BuilderInv /\ BuildControl
  BY Zenon DEF TrackInv
<1>3. phase = "idle"
  <2>1. ~ClustersDone
    <3>1. seedHit \in 0 .. Len(fData) /\ Len(fData) \in Nat
      <4>1. fData \in Seq(Range(input)) /\ seedHit \in 0 .. Len(fData)
        BY <1>2, Zenon DEF ClusInv, VisitInv
      <4> QED BY <4>1
    <3>2. seedHit < Len(fData) => seedHit # Len(fData)
      BY <3>1
    <3> QED BY <1>1, <3>2, Zenon DEF SeedCluster, ExpandCluster, EndCluster, ClustersDone
  <2> QED BY <1>2, <2>1, Zenon DEF BuildControl
<1>4. ClusInv'
  BY <1>1, <1>2, SeedClusterKeeps, ExpandClusterKeeps, EndClusterKeeps, Zenon
<1>5. BuilderInv'
  BY <1>1, <1>2, BuilderSame, Zenon
<1>6. BuildControl'
  BY <1>1, <1>3 DEF BuildControl, builderVars
<1> QED BY <1>4, <1>5, <1>6, Zenon DEF TrackInv

(* The builder begins with the hits of the last cluster.                   *)
LEMMA StartBuilderKeeps ==
  ASSUME BuilderInv, phase = "idle", NEW evt, HitPointsOK(evt), StartBuilder(evt)
  PROVE  BuilderInv'
<1> DEFINE use == [k \in DOMAIN evt |-> IF evt[k].veto THEN -1 ELSE 0]
<1>1. /\ phase' = "seed" /\ fHitPoints' = evt /\ fHitsInUse' = use
      /\ hitIdx' = 0 /\ fTrjs' = <<>> /\ found' = <<>>
      /\ walk' = walk /\ trjsLong' = trjsLong /\ trjsShort' = trjsShort
  BY DEF StartBuilder
<1>2. walk = <<>> /\ trjsLong = <<>> /\ trjsShort = <<>>
  BY Zenon DEF BuilderInv, IdleInv, BuilderIdle
<1>3. Flags(evt, use)
  BY DEF Flags
<1> HIDE DEF use
<1>4. FlagsInv'
  <2>1. Len(evt) \in Nat
    BY DEF HitPointsOK
  <2>2. 0 \in 0 .. Len(evt) /\ 1 .. 0 = {}
    BY <2>1
  <2> QED BY <1>1, <1>3, <2>2 DEF FlagsInv
<1>5. TrjsOK(evt, <<>>) /\ NoneEmpty(<<>>) /\ HeldBy(<<>>) = {}
  BY DEF TrjsOK, NoneEmpty, HeldBy
<1>6. GrowInv'
  BY <1>1, <1>2, <1>5, Zenon DEF GrowInv
<1> QED BY <1>1, <1>2, <1>4, <1>6 DEF BuilderInv, IdleInv, WalkInv, SelectInv, JoinInv

(* The builder starts on a cluster.                                        *)
LEMMA NextClusterKept == ASSUME TrackInv, NextCluster PROVE TrackInv'
<1>1. /\ step = "segments" /\ ClustersDone /\ hitclus # <<>> /\ builder = "MTC"
      /\ StartBuilder(AllHits(Last(hitclus)))
      /\ hitsView' = hitsView /\ crmNo' = crmNo /\ step' = step /\ builder' = builder /\ input' = input
      /\ UNCHANGED clusVars
  BY Zenon DEF NextCluster
<1>2. ClusInv /\ BuilderInv /\ phase = "idle"
  BY <1>1, Zenon DEF TrackInv, StartBuilder
<1>3. ClusInv'
  BY <1>1, <1>2, ClusSame, Zenon
<1>4. BuilderInv'
  <2>1. HitPointsOK(AllHits(Last(hitclus)))
    BY <1>1, <1>2, ClusterHits, Zenon
  <2> QED BY <1>1, <1>2, <2>1, StartBuilderKeeps, Zenon
<1>5. BuildControl'
  BY <1>1 DEF BuildControl, clusVars, ClustersDone
<1> QED BY <1>3, <1>4, <1>5, Zenon DEF TrackInv

(* A step of the builder                                                   *)
LEMMA BuildKept == ASSUME TrackInv, Build PROVE TrackInv'
<1>1. /\ MakeTrack /\ UNCHANGED clusVars
      /\ hitsView' = hitsView /\ crmNo' = crmNo /\ step' = step /\ builder' = builder /\ input' = input
  BY Zenon DEF Build
<1>2. ClusInv /\ BuilderInv /\ BuildControl
  BY Zenon DEF TrackInv
<1>3. phase # "idle"
  BY <1>1 DEF MakeTrack, TrySeed, StepGap, StepHit, StepOut, EndTrj, InWalk,
              SortTrjs, TryJoin, EndPass, SelectLong, SelectShort
<1>4. BuilderInv'
  BY <1>1, <1>2, TrySeedKeeps, StepGapKeeps, StepHitKeeps, StepOutKeeps, EndTrjKeeps,
     SortTrjsKeeps, TryJoinKeeps, EndPassKeeps, SelectLongKeeps, SelectShortKeeps, Zenon DEF MakeTrack
<1>5. ClusInv'
  BY <1>1, <1>2, ClusSame, Zenon
<1>6. BuildControl'
  BY <1>1, <1>2, <1>3 DEF BuildControl, clusVars, ClustersDone
<1> QED BY <1>4, <1>5, <1>6, Zenon DEF TrackInv

(* The builder is done with a cluster.                                     *)
LEMMA ClusterDoneKept == ASSUME TrackInv, ClusterDone PROVE TrackInv'
<1>1. /\ phase = "select" /\ trjsLong = <<>> /\ trjsShort = <<>>
      /\ phase' = "idle" /\ found' = <<>> /\ fHitPoints' = <<>> /\ fHitsInUse' = <<>>
      /\ hitIdx' = 0 /\ pair' = <<>> /\ hitclus' = Front(hitclus)
      /\ hitsView' = hitsView /\ crmNo' = crmNo /\ step' = step /\ input' = input
      /\ fTrjs' = fTrjs /\ walk' = walk /\ trjsLong' = trjsLong /\ trjsShort' = trjsShort
      /\ fData' = fData /\ isVisited' = isVisited /\ seedHit' = seedHit
      /\ hitList' = hitList /\ listPos' = listPos /\ hitCluster' = hitCluster
  BY DEF ClusterDone, TracksMade, EndBuilder
<1>2. ClusInv /\ BuilderInv /\ BuildControl
  BY Zenon DEF TrackInv
<1>3. step = "segments" /\ hitclus # <<>>
  BY <1>1, <1>2 DEF BuildControl
<1>4. ClusInv'
  BY <1>1, <1>2, <1>3, FrontClusters, Zenon
<1>5. BuilderInv'
  <2>1. walk = <<>> /\ fTrjs = <<>>
    <3>1. phase \in {"join", "select"}
      BY <1>1
    <3> QED BY <1>2, <3>1, SelectFacts, Zenon
  <2> QED BY <1>1, <2>1, BuilderRests, Zenon DEF BuilderIdle
<1>6. BuildControl'
  BY <1>1, <1>3 DEF BuildControl
<1> QED BY <1>4, <1>5, <1>6, Zenon DEF TrackInv

(* The other builder does a cluster in one step.                           *)
LEMMA BuildSmKept == ASSUME TrackInv, BuildSm PROVE TrackInv'
<1>1. /\ step = "segments" /\ ClustersDone /\ hitclus # <<>> /\ builder = "Sm"
      /\ UNCHANGED builderVars /\ step' \in {"segments", "crashed"}
      /\ (hitclus' = hitclus \/ (hitclus' = Front(hitclus) /\ step' = step))
      /\ hitsView' = hitsView /\ crmNo' = crmNo /\ builder' = builder /\ input' = input
      /\ fData' = fData /\ isVisited' = isVisited /\ seedHit' = seedHit
      /\ hitList' = hitList /\ listPos' = listPos /\ hitCluster' = hitCluster
  <2> DEFINE P == EndExists(Blocks(AllHits(Last(hitclus))))
             Q == \E t \in SmTracks(AllHits(Last(hitclus))) :
                    /\ tracksegs' = [tracksegs EXCEPT ![crmNo] = Append(@, t)]
                    /\ made' = made \cup Range(t.hits) \cup Range(t.drays)
  <2>1. /\ step = "segments" /\ ClustersDone /\ hitclus # <<>> /\ builder = "Sm"
        /\ IF P THEN Q /\ hitclus' = Front(hitclus) /\ UNCHANGED step
                ELSE step' = "crashed" /\ UNCHANGED <<tracksegs, made, hitclus>>
        /\ UNCHANGED <<hitsView, crmNo, builder, input, builderVars, tracks, at,
                       fData, isVisited, seedHit, hitList, listPos, hitCluster>>
    BY Zenon DEF BuildSm
  <2> HIDE DEF P, Q
  <2>2. step' \in {"segments", "crashed"}
    <3>1. step' = step \/ step' = "crashed"
      BY <2>1, Zenon
    <3>2. step \in {"segments", "crashed"} /\ "crashed" \in {"segments", "crashed"}
      BY <2>1
    <3> QED BY <3>1, <3>2, Zenon
  <2>3. hitclus' = hitclus \/ (hitclus' = Front(hitclus) /\ step' = step)
    BY <2>1, Zenon
  <2> QED BY <2>1, <2>2, <2>3, Zenon
<1>2. ClusInv /\ BuilderInv /\ BuildControl
  BY Zenon DEF TrackInv
<1>3. phase = "idle" /\ phase' = phase /\ step' # "idle"
  BY <1>1, <1>2 DEF BuildControl, builderVars
<1>4. ClusInv'
  <2>1. CASE hitclus' = hitclus
    BY <1>1, <1>2, <1>3, <2>1, ClusSame, Zenon DEF clusVars
  <2>2. CASE hitclus' = Front(hitclus) /\ step' = step
    BY <1>1, <1>2, <2>2, FrontClusters, Zenon
  <2> QED BY <1>1, <2>1, <2>2, Zenon
<1>5. BuilderInv'
  BY <1>1, <1>2, BuilderSame, Zenon
<1>6. BuildControl'
  BY <1>3, Zenon DEF BuildControl
<1> QED BY <1>4, <1>5, <1>6, Zenon DEF TrackInv

(* The tracks of the view are handed out.                                  *)
LEMMA AddTracksKept == ASSUME TrackInv, AddTracks PROVE TrackInv'
<1>1. /\ step = "join" /\ UNCHANGED builderVars
      /\ input' = <<>> /\ hitsView' = <<>> /\ crmNo' = 0 /\ fData' = <<>> /\ isVisited' = <<>>
      /\ seedHit' = 0 /\ hitList' = <<>> /\ hitCluster' = <<>> /\ hitclus' = <<>>
  BY Zenon DEF AddTracks
<1>2. BuilderInv /\ BuildControl
  BY Zenon DEF TrackInv
<1>3. phase' = "idle"
  BY <1>1, <1>2 DEF BuildControl, builderVars
<1>4. ClusInv'
  BY <1>1, NothingLeft, Zenon
<1>5. BuilderInv'
  BY <1>1, <1>2, BuilderSame, Zenon
<1>6. BuildControl'
  BY <1>1, <1>3, Zenon DEF BuildControl
<1> QED BY <1>4, <1>5, <1>6, Zenon DEF TrackInv

(* Steps that change neither clusters nor the builder                      *)
LEMMA OtherStepKept ==
  ASSUME TrackInv, MergeSegments \/ JoinTracks \/ Crashed \/ UNCHANGED trackVars
  PROVE  TrackInv'
<1>1. /\ UNCHANGED builderVars /\ UNCHANGED clusVars
      /\ input' = input /\ hitsView' = hitsView /\ crmNo' = crmNo /\ builder' = builder
      /\ (step' = step \/ (step' = "join" /\ phase = "idle"))
  BY Zenon DEF MergeSegments, CRMDone, JoinTracks, Crashed, trackVars
<1>2. ClusInv /\ BuilderInv /\ BuildControl
  BY Zenon DEF TrackInv
<1>3. step' = "idle" => step = "idle"
  BY <1>1
<1>4. ClusInv' /\ BuilderInv'
  BY <1>1, <1>2, <1>3, ClusSame, BuilderSame, Zenon
<1>5. BuildControl'
  BY <1>1, <1>2 DEF BuildControl, clusVars, builderVars, ClustersDone
<1> QED BY <1>4, <1>5, Zenon DEF TrackInv

(* Every step keeps the invariant.                                         *)
LEMMA TrackNextKeeps == TrackInv /\ [TrackNext]_trackVars => TrackInv'
BY FindTracksViewKeeps, NextCollectionKept, BuildClustersKept, NextClusterKept, BuildKept,
   ClusterDoneKept, BuildSmKept, AddTracksKept, OtherStepKept, Zenon DEF TrackNext

(* Two lists of trajectories one after the other                           *)
LEMMA ConcatTrjs ==
  ASSUME NEW H, NEW a, TrjsOK(H, a), NEW b, TrjsOK(H, b), HeldBy(a) \cap HeldBy(b) = {}
  PROVE  TrjsOK(H, a \o b) /\ HeldBy(a \o b) = HeldBy(a) \cup HeldBy(b)
<1> DEFINE c == a \o b
           T == TrjRec(H)
           la == Len(a)
           lb == Len(b)
<1>1. a \in Seq(T) /\ b \in Seq(T)
  BY Zenon DEF TrjsOK
<1> HIDE DEF T
<1>2. /\ c \in Seq(T) /\ DOMAIN a = 1 .. la /\ DOMAIN b = 1 .. lb /\ la \in Nat /\ lb \in Nat
      /\ DOMAIN c = 1 .. la + lb
      /\ \A k \in 1 .. la + lb : c[k] = IF k <= la THEN a[k] ELSE b[k - la]
  BY <1>1
<1> HIDE DEF c, la, lb
<1>3. /\ \A k \in DOMAIN c : (k \in DOMAIN a /\ c[k] = a[k]) \/ \E j \in DOMAIN b : k = la + j /\ c[k] = b[j]
      /\ \A k \in DOMAIN a : k \in DOMAIN c /\ c[k] = a[k]
      /\ \A j \in DOMAIN b : la + j \in DOMAIN c /\ c[la + j] = b[j]
  <2>1. ASSUME NEW k \in DOMAIN c PROVE (k \in DOMAIN a /\ c[k] = a[k]) \/ \E j \in DOMAIN b : k = la + j /\ c[k] = b[j]
    <3>1. CASE k <= la
      BY <1>2, <3>1
    <3>2. CASE ~(k <= la)
      <4>1. k - la \in DOMAIN b /\ k = la + (k - la) /\ c[k] = b[k - la]
        BY <1>2, <3>2
      <4> QED BY <4>1, Zenon
    <3> QED BY <3>1, <3>2
  <2>2. ASSUME NEW k \in DOMAIN a PROVE k \in DOMAIN c /\ c[k] = a[k]
    BY <1>2
  <2>3. ASSUME NEW j \in DOMAIN b PROVE la + j \in DOMAIN c /\ c[la + j] = b[j]
    <3>1. la + j \in DOMAIN c /\ ~(la + j <= la) /\ (la + j) - la = j
      BY <1>2
    <3> QED BY <1>2, <3>1
  <2> QED BY <2>1, <2>2, <2>3, Zenon
<1>4. /\ \A k \in DOMAIN a : PointsOK(H, a[k].points)
      /\ \A k \in DOMAIN b : PointsOK(H, b[k].points)
      /\ \A k, m \in DOMAIN a : k # m => Uids(a[k].points) \cap Uids(a[m].points) = {}
      /\ \A k, m \in DOMAIN b : k # m => Uids(b[k].points) \cap Uids(b[m].points) = {}
  BY Zenon DEF TrjsOK
<1>5. \A k \in DOMAIN a, m \in DOMAIN b : Uids(a[k].points) \cap Uids(b[m].points) = {}
  BY HeldByIs, Zenon
<1>6. \A k \in DOMAIN c : PointsOK(H, c[k].points)
  BY <1>3, <1>4, Zenon
<1>7. ASSUME NEW k \in DOMAIN c, NEW m \in DOMAIN c, k # m
      PROVE  Uids(c[k].points) \cap Uids(c[m].points) = {}
  <2>1. CASE (k \in DOMAIN a /\ c[k] = a[k]) /\ (m \in DOMAIN a /\ c[m] = a[m])
    BY <1>4, <1>7, <2>1, Zenon
  <2>2. CASE (k \in DOMAIN a /\ c[k] = a[k]) /\ \E j \in DOMAIN b : m = la + j /\ c[m] = b[j]
    BY <1>5, <2>2, Zenon
  <2>3. CASE (m \in DOMAIN a /\ c[m] = a[m]) /\ \E j \in DOMAIN b : k = la + j /\ c[k] = b[j]
    BY <1>5, <2>3, Zenon
  <2>4. CASE /\ \E j \in DOMAIN b : k = la + j /\ c[k] = b[j]
             /\ \E j \in DOMAIN b : m = la + j /\ c[m] = b[j]
    BY <1>4, <1>7, <2>4, Zenon
  <2> QED BY <1>3, <2>1, <2>2, <2>3, <2>4, Zenon
<1>8. ASSUME NEW u PROVE u \in HeldBy(c) <=> u \in HeldBy(a) \/ u \in HeldBy(b)
  <2>1. (\E n \in DOMAIN c : u \in Uids(c[n].points))
           <=> (\E n \in DOMAIN a : u \in Uids(a[n].points)) \/ (\E n \in DOMAIN b : u \in Uids(b[n].points))
    BY <1>3, Zenon
  <2> QED BY <2>1, HeldByIs, Zenon
<1>9. TrjsOK(H, c)
  BY <1>2, <1>6, <1>7, Zenon DEF TrjsOK, T
<1> QED BY <1>8, <1>9, Zenon DEF c

(* What is true of all trajectories, the points kept back and the tracks   *)
AllHeld(trjs) ==
  /\ TrjsOK(fHitPoints, trjs) /\ HeldBy(trjs) \subseteq Taken(fHitsInUse)
  /\ KeptOK(fHitPoints, Kept) /\ Uids(Kept) \subseteq Taken(fHitsInUse)
  /\ Uids(Kept) \cap HeldBy(trjs) = {}
  /\ FoundOK(fHitPoints, found) /\ MadeOf(fHitPoints, found) \subseteq Taken(fHitsInUse)
  /\ MadeOf(fHitPoints, found) \cap HeldBy(trjs) = {}
  /\ MadeOf(fHitPoints, found) \cap Uids(Kept) = {}

(* So are those of the builder, at all times.                              *)
LEMMA AllAreHeld == ASSUME BuilderInv PROVE AllHeld(fTrjs \o trjsLong \o trjsShort)
<1> DEFINE trjs == fTrjs \o trjsLong \o trjsShort
<1>1. phase \in {"idle", "seed", "expand", "join", "select"}
  BY Zenon DEF BuilderInv, FlagsInv
<1>2. /\ TrjsOK(fHitPoints, <<>>) /\ HeldBy(<<>>) = {}
      /\ KeptOK(fHitPoints, <<>>) /\ Uids(<<>>) = {}
      /\ FoundOK(fHitPoints, <<>>) /\ MadeOf(fHitPoints, <<>>) = {}
  <2>1. TrjsOK(fHitPoints, <<>>) /\ HeldBy(<<>>) = {}
    BY DEF TrjsOK, HeldBy
  <2> QED BY <2>1, NoneKept, FoundNone, Zenon
<1>3. CASE phase = "idle"
  <2>1. fTrjs = <<>> /\ trjsLong = <<>> /\ trjsShort = <<>> /\ found = <<>>
    BY <1>3, Zenon DEF BuilderInv, IdleInv, BuilderIdle
  <2>2. trjs = <<>>
    BY <2>1
  <2>3. Kept = <<>>
    BY <1>3 DEF Kept
  <2> HIDE DEF trjs
  <2>4. AllHeld(trjs)
    BY <1>2, <2>1, <2>2, <2>3, Zenon DEF AllHeld
  <2> QED BY <2>4, Zenon DEF trjs
<1>4. CASE phase \in {"seed", "expand"}
  <2>1. /\ TrjsOK(fHitPoints, fTrjs) /\ HeldBy(fTrjs) \subseteq Taken(fHitsInUse)
        /\ trjsLong = <<>> /\ trjsShort = <<>> /\ found = <<>>
    BY <1>4, Zenon DEF BuilderInv, GrowInv
  <2>2. trjs = fTrjs
    <3>1. PICK S : fTrjs \in Seq(S)
      BY <2>1, Zenon DEF TrjsOK
    <3> QED BY <2>1, <3>1
  <2>3. /\ KeptOK(fHitPoints, Kept) /\ Uids(Kept) \subseteq Taken(fHitsInUse)
        /\ Uids(Kept) \cap HeldBy(fTrjs) = {}
    <3>1. CASE phase = "expand"
      BY <3>1, Zenon DEF BuilderInv, WalkInv
    <3>2. CASE phase # "expand"
      <4>1. Kept = <<>>
        BY <3>2, Zenon DEF Kept
      <4> QED BY <1>2, <4>1, Zenon
    <3> QED BY <3>1, <3>2, Zenon
  <2> HIDE DEF trjs
  <2>4. AllHeld(trjs)
    BY <1>2, <2>1, <2>2, <2>3, Zenon DEF AllHeld
  <2> QED BY <2>4, Zenon DEF trjs
<1>5. CASE phase \in {"join", "select"}
  <2>1. /\ TrjsOK(fHitPoints, trjsLong) /\ TrjsOK(fHitPoints, trjsShort) /\ fTrjs = <<>>
        /\ HeldBy(trjsLong) \subseteq Taken(fHitsInUse) /\ HeldBy(trjsShort) \subseteq Taken(fHitsInUse)
        /\ HeldBy(trjsLong) \cap HeldBy(trjsShort) = {}
        /\ FoundOK(fHitPoints, found) /\ MadeOf(fHitPoints, found) \subseteq Taken(fHitsInUse)
        /\ MadeOf(fHitPoints, found) \cap HeldBy(trjsLong) = {}
        /\ MadeOf(fHitPoints, found) \cap HeldBy(trjsShort) = {}
    BY <1>5, SelectFacts, Zenon
  <2>2. trjs = trjsLong \o trjsShort
    <3>1. PICK S : trjsLong \in Seq(S)
      BY <2>1, Zenon DEF TrjsOK
    <3>2. <<>> \o trjsLong = trjsLong
      BY <3>1
    <3> QED BY <2>1, <3>2, Zenon
  <2> HIDE DEF trjs
  <2>3. TrjsOK(fHitPoints, trjs) /\ HeldBy(trjs) = HeldBy(trjsLong) \cup HeldBy(trjsShort)
    <3>1. /\ TrjsOK(fHitPoints, trjsLong \o trjsShort)
          /\ HeldBy(trjsLong \o trjsShort) = HeldBy(trjsLong) \cup HeldBy(trjsShort)
      BY <2>1, ConcatTrjs
    <3> QED BY <2>2, <3>1, Zenon
  <2>4. Kept = <<>>
    BY <1>5 DEF Kept
  <2>5. AllHeld(trjs)
    BY <1>2, <2>1, <2>3, <2>4, Zenon DEF AllHeld
  <2> QED BY <2>5, Zenon DEF trjs
<1>6. phase = "idle" \/ phase \in {"seed", "expand"} \/ phase \in {"join", "select"}
  BY <1>1
<1> QED BY <1>3, <1>4, <1>5, <1>6, Zenon

(* The lists of points share no hit, with each other or with a track.      *)
LEMMA HoldersApart ==
  ASSUME BuilderInv
  PROVE  /\ \A a \in DOMAIN Holders : /\ Apiece(Holders[a]) /\ Uids(Holders[a]) \subseteq Taken(fHitsInUse)
                                      /\ Uids(Holders[a]) \cap MadeOf(fHitPoints, found) = {}
         /\ \A a, b \in DOMAIN Holders : a # b => Uids(Holders[a]) \cap Uids(Holders[b]) = {}
<1> DEFINE trjs == fTrjs \o trjsLong \o trjsShort
           n == Len(trjs)
           s == [t \in DOMAIN trjs |-> trjs[t].points]
           hs == Append(s, Kept)
<1>1. AllHeld(trjs)
  BY AllAreHeld
<1>2. Holders = hs
  BY Zenon DEF Holders, Kept
<1> HIDE DEF trjs
<1>3. n \in Nat /\ DOMAIN trjs = 1 .. n
  <2>1. PICK S : trjs \in Seq(S)
    BY <1>1, Zenon DEF AllHeld, TrjsOK
  <2> QED BY <2>1
<1> HIDE DEF n
<1>4. /\ \A a \in 1 .. n : PointsOK(fHitPoints, trjs[a].points) /\ Uids(trjs[a].points) \subseteq HeldBy(trjs)
      /\ \A a, b \in 1 .. n : a # b => Uids(trjs[a].points) \cap Uids(trjs[b].points) = {}
  BY <1>1, <1>3, HeldByIs, Zenon DEF AllHeld, TrjsOK
<1>5. DOMAIN hs = 1 .. n + 1 /\ hs[n + 1] = Kept /\ \A a \in 1 .. n : hs[a] = trjs[a].points
  <2>1. s = [t \in 1 .. n |-> trjs[t].points]
    BY <1>3, Zenon
  <2> HIDE DEF s
  <2>2. s \in Seq({trjs[t].points : t \in 1 .. n}) /\ Len(s) = n
    BY <1>3, <2>1
  <2>3. \A a \in 1 .. n : s[a] = trjs[a].points
    BY <2>1, Zenon
  <2>4. DOMAIN hs = 1 .. n + 1 /\ hs[n + 1] = Kept /\ \A a \in 1 .. n : hs[a] = s[a]
    BY <1>3, <2>2
  <2> QED BY <2>3, <2>4, Zenon
<1> HIDE DEF hs, s
<1>6. \A a \in 1 .. n + 1 : a \in 1 .. n \/ a = n + 1
  BY <1>3
<1>7. ASSUME NEW a \in 1 .. n
      PROVE  /\ Apiece(hs[a]) /\ Uids(hs[a]) \subseteq HeldBy(trjs)
  BY <1>4, <1>5, PointsApart, Zenon
<1>8. Apiece(hs[n + 1]) /\ Uids(hs[n + 1]) = Uids(Kept)
  BY <1>1, <1>5, Zenon DEF AllHeld, KeptOK
<1>9. ASSUME NEW a \in DOMAIN hs
      PROVE  /\ Apiece(hs[a]) /\ Uids(hs[a]) \subseteq Taken(fHitsInUse)
             /\ Uids(hs[a]) \cap MadeOf(fHitPoints, found) = {}
  BY <1>1, <1>5, <1>6, <1>7, <1>8, Zenon DEF AllHeld
<1>10. ASSUME NEW a \in DOMAIN hs, NEW b \in DOMAIN hs, a # b
       PROVE  Uids(hs[a]) \cap Uids(hs[b]) = {}
  <2>1. CASE a \in 1 .. n /\ b \in 1 .. n
    BY <1>4, <1>5, <1>10, <2>1, Zenon
  <2>2. CASE a \in 1 .. n /\ b = n + 1
    BY <1>1, <1>7, <1>8, <2>2, Zenon DEF AllHeld
  <2>3. CASE a = n + 1 /\ b \in 1 .. n
    BY <1>1, <1>7, <1>8, <2>3, Zenon DEF AllHeld
  <2> QED BY <1>5, <1>6, <1>10, <2>1, <2>2, <2>3, Zenon
<1> QED BY <1>2, <1>9, <1>10, Zenon

(* The flags of the hits tell the truth.                                   *)
LEMMA InvHitOwned == BuilderInv => HitOwned
<1> SUFFICES ASSUME BuilderInv PROVE HitOwned
  OBVIOUS
<1> DEFINE H == fHitPoints
           hs(points) == {fHitPoints[k] : k \in Uids(points)}
           flagged == {fHitPoints[k] : k \in {j \in DOMAIN fHitsInUse : fHitsInUse[j] = 1}}
<1>1. /\ \A a \in DOMAIN Holders : /\ Apiece(Holders[a]) /\ Uids(Holders[a]) \subseteq Taken(fHitsInUse)
                                   /\ Uids(Holders[a]) \cap MadeOf(H, found) = {}
      /\ \A a, b \in DOMAIN Holders : a # b => Uids(Holders[a]) \cap Uids(Holders[b]) = {}
  BY HoldersApart, Zenon
<1>2. FoundOK(H, found) /\ MadeOf(H, found) \subseteq Taken(fHitsInUse)
  BY AllAreHeld, Zenon DEF AllHeld
<1>3. DOMAIN fHitsInUse = DOMAIN H
  BY DEF BuilderInv, FlagsInv, Flags
<1>4. \A x : x \in flagged <=> \E k \in Taken(fHitsInUse) : x = H[k]
  BY Zenon DEF Taken
<1>5. \A points, x : x \in hs(points) <=> \E k \in Uids(points) : x = H[k]
  BY Zenon
<1> HIDE DEF flagged, hs
<1>6. \A a \in DOMAIN Holders : Apiece(Holders[a]) /\ hs(Holders[a]) \subseteq flagged
  <2> TAKE a \in DOMAIN Holders
  <2>1. Apiece(Holders[a]) /\ Uids(Holders[a]) \subseteq Taken(fHitsInUse)
    BY <1>1, Zenon
  <2>2. ASSUME NEW x \in hs(Holders[a]) PROVE x \in flagged
    <3>1. PICK k \in Uids(Holders[a]) : x = H[k]
      BY <1>5, Zenon
    <3> QED BY <1>4, <2>1, <3>1, Zenon
  <2>3. hs(Holders[a]) \subseteq flagged
    BY <2>2, Zenon
  <2> QED BY <2>1, <2>3, Zenon
<1>7. /\ \A a \in DOMAIN found : found[a].hits \in Seq(Range(H)) /\ IsInjective(found[a].hits)
      /\ \A a, b \in DOMAIN found : a # b => Range(found[a].hits) \cap Range(found[b].hits) = {}
  BY <1>2, Zenon DEF FoundOK
<1>8. ASSUME NEW a \in DOMAIN found, NEW x \in Range(found[a].hits) PROVE \E k \in MadeOf(H, found) : x = H[k]
  <2> DEFINE S == Range(H)
             s == found[a].hits
  <2>1. s \in Seq(S)
    BY <1>7, Zenon
  <2> HIDE DEF S, s
  <2>2. Range(s) \subseteq S
    BY <2>1 DEF Range
  <2>3. PICK k \in DOMAIN H : x = H[k]
    BY <2>2, Zenon DEF Range, S, s
  <2>4. k \in MadeOf(H, found)
    BY <2>3, Zenon DEF MadeOf
  <2> QED BY <2>3, <2>4, Zenon
<1>9. \A a \in DOMAIN found : IsInjective(found[a].hits) /\ Range(found[a].hits) \subseteq flagged
  BY <1>2, <1>4, <1>7, <1>8, Zenon
<1>10. ASSUME NEW a \in DOMAIN Holders, NEW b \in DOMAIN found, NEW x \in hs(Holders[a]), x \in Range(found[b].hits)
       PROVE  FALSE
  <2>1. PICK k \in Uids(Holders[a]) : x = H[k]
    BY <1>5, Zenon
  <2>2. k \in DOMAIN H
    BY <1>1, <1>3, <2>1, Zenon DEF Taken
  <2>3. k \in MadeOf(H, found)
    BY <1>10, <2>1, <2>2, Zenon DEF MadeOf
  <2> QED BY <1>1, <2>1, <2>3, Zenon
<1>11. \A a \in DOMAIN Holders, b \in DOMAIN found : hs(Holders[a]) \cap Range(found[b].hits) = {}
  BY <1>10, Zenon
<1> QED BY <1>1, <1>6, <1>7, <1>9, <1>11, Zenon DEF HitOwned, flagged, hs

(* Building ends after every hit was tried.                                *)
LEMMA InvAllTried == BuilderInv => AllTried
<1> SUFFICES ASSUME BuilderInv, phase \in {"join", "select"}, NEW k \in DOMAIN fHitsInUse
             PROVE  fHitsInUse[k] # 0
  BY Zenon DEF AllTried
<1>1. /\ HitPointsOK(fHitPoints) /\ Flags(fHitPoints, fHitsInUse) /\ hitIdx = Len(fHitPoints)
      /\ \A j \in 1 .. hitIdx : fHitsInUse[j] # 0
  BY SelectFacts, Zenon
<1>2. DOMAIN fHitsInUse = 1 .. Len(fHitPoints)
  BY <1>1 DEF HitPointsOK, Flags
<1> QED BY <1>1, <1>2, Zenon

(* Tracks the builder made are in order.                                   *)
LEMMA InvTracksInOrder == BuilderInv => TracksInOrder
<1> SUFFICES ASSUME BuilderInv PROVE PointsInOrder /\ PathComplete
  BY Zenon DEF TracksInOrder
<1> DEFINE trjs == fTrjs \o trjsLong \o trjsShort
<1>1. AllHeld(trjs)
  BY AllAreHeld
<1> HIDE DEF trjs
<1>2. TrjsOK(fHitPoints, trjs) /\ FoundOK(fHitPoints, found)
  BY <1>1, Zenon DEF AllHeld
<1>3. PointsInOrder
  <2> SUFFICES ASSUME NEW t \in Range(trjs), NEW k \in DOMAIN t.points \ {1}
               PROVE  t.points[k - 1].ch < t.points[k].ch
    BY Zenon DEF PointsInOrder, trjs
  <2>1. PICK m \in DOMAIN trjs : t = trjs[m]
    BY Zenon DEF Range
  <2> DEFINE ps == t.points
             T == PointSet(fHitPoints)
  <2>2. ps \in Seq(T) /\ \A i, j \in DOMAIN ps : i < j => ps[i].ch < ps[j].ch
    BY <1>2, <2>1, Zenon DEF TrjsOK, PointsOK
  <2> HIDE DEF ps, T
  <2>3. k \in DOMAIN ps /\ k # 1
    BY DEF ps
  <2>4. k - 1 \in DOMAIN ps /\ k - 1 < k
    BY <2>2, <2>3
  <2> QED BY <2>2, <2>3, <2>4, Zenon DEF ps
<1>4. PathComplete
  <2> SUFFICES ASSUME NEW t \in Range(found) PROVE TrackOK(t)
    BY Zenon DEF PathComplete, TrackOK
  <2>1. PICK m \in DOMAIN found : t = found[m]
    BY Zenon DEF Range
  <2> QED BY <1>2, <2>1, Zenon DEF FoundOK
<1> QED BY <1>3, <1>4

(* A pass that joined trajectories has emptied one, which its end removes. *)
LEMMA PassShortens ==
  ASSUME BuilderInv, EndPass, pair.joined
  PROVE  Len(IF pair.short THEN trjsShort' ELSE trjsLong') < Len(Trjs)
<1> DEFINE S == {t \in Range(Trjs) : t.points # <<>>}
           new == Sift(Trjs, S)
<1>1. phase = "join" /\ IF pair.short THEN trjsShort' = new ELSE trjsLong' = new
  BY Zenon DEF EndPass, SetTrjs
<1>2. TrjsOK(fHitPoints, Trjs) /\ ~NoneEmpty(Trjs)
  BY <1>1, JoinFacts, Zenon
<1>3. \E m \in DOMAIN Trjs : Trjs[m] \notin S
  BY <1>2, Zenon DEF NoneEmpty
<1> HIDE DEF S
<1>4. Len(new) < Len(Trjs)
  BY <1>2, <1>3, SiftTrjs
<1>5. (IF pair.short THEN trjsShort' ELSE trjsLong') = new
  BY <1>1, Zenon
<1> QED BY <1>4, <1>5, Zenon

(* The step after a pass that joined two trajectories                      *)
LEMMA MergingStep ==
  ASSUME TrackInv, [TrackNext]_trackVars, phase = "join", PairsLeft = {}, pair.joined,
         ~UNCHANGED trackVars
  PROVE  Len(IF pair.short THEN trjsShort' ELSE trjsLong') < Len(Trjs)
<1>1. ClusInv /\ BuilderInv /\ BuildControl
  BY Zenon DEF TrackInv
<1>2. /\ phase # "idle" /\ phase # "seed" /\ phase # "expand" /\ phase # "select"
      /\ "segments" # "idle" /\ "segments" # "join" /\ "segments" # "crashed" /\ "MTC" # "Sm"
  OBVIOUS
<1>3. step = "segments" /\ builder = "MTC" /\ ClustersDone
  BY <1>1, <1>2, Zenon DEF BuildControl
<1>4. ~(SeedCluster \/ ExpandCluster \/ EndCluster)
  <2>1. seedHit = Len(fData) /\ hitList = <<>>
    BY <1>3, Zenon DEF ClustersDone
  <2>2. Len(fData) \in Nat
    <3>1. fData \in Seq(Range(input))
      BY <1>1, Zenon DEF ClusInv, VisitInv
    <3> QED BY <3>1
  <2>3. ~(seedHit < Len(fData))
    BY <2>1, <2>2
  <2> QED BY <2>1, <2>3, Zenon DEF SeedCluster, ExpandCluster, EndCluster
<1>5. ~Crashed
  BY <1>2, <1>3, Zenon DEF Crashed
<1>6. Build
  <2>1. TrackNext
    BY Zenon
  <2> QED BY <1>2, <1>3, <1>4, <1>5, <2>1, Zenon DEF TrackNext, FindTracksView, NextCollection, CRMDone,
             BuildClusters, NextCluster, StartBuilder, ClusterDone, TracksMade, BuildSm, MergeSegments,
             JoinTracks, AddTracks
<1>7. EndPass
  BY <1>2, <1>6, Zenon DEF Build, MakeTrack, TrySeed, StepGap, StepHit, StepOut, EndTrj, InWalk,
     SortTrjs, TryJoin, SelectLong, SelectShort
<1> QED BY <1>1, <1>7, PassShortens, Zenon

(* A step of the chain is one of track reconstruction, or leaves it as it  *)
(* is.                                                                     *)
LEMMA ChainTrackStep == [ChainNext]_chainVars => [TrackNext]_trackVars
<1> SUFFICES ASSUME [ChainNext]_chainVars PROVE [TrackNext]_trackVars
  OBVIOUS
<1>1. CASE RecoNext
  BY <1>1, Zenon DEF RecoNext
<1>2. CASE UNCHANGED recoVars
  BY <1>2 DEF recoVars
<1>3. CASE UNCHANGED chainVars
  BY <1>3 DEF chainVars, recoVars
<1> QED BY <1>1, <1>2, <1>3, Zenon DEF ChainNext

(* The invariant holds throughout the chain of tasks.                      *)
LEMMA ChainTrackInv == ChainSpec => []TrackInv
<1>1. ChainInit => TrackInv
  BY TrackInitInv, Zenon DEF ChainInit, RecoInit
<1>2. TrackInv /\ [ChainNext]_chainVars => TrackInv'
  BY ChainTrackStep, TrackNextKeeps, Zenon
<1> QED BY <1>1, <1>2, PTL DEF ChainSpec

(* While tracks are built, merged, dropped and filled up, a hit is in one  *)
(* trajectory or track at most, its flag says so, and none is left out     *)
(* before trajectories are sorted: for events of any number of hits and    *)
(* any predictions.  (recon/src/TrackBuilderMTC.cc, fHitsInUse)            *)
THEOREM ChainHitsAccountedFor == ChainSpec => []HitsAccountedFor
<1>1. TrackInv => HitsAccountedFor
  BY InvHitOwned, InvAllTried, Zenon DEF TrackInv, HitsAccountedFor
<1> QED BY <1>1, ChainTrackInv, PTL

(* Points of trajectories are in order of their channels, one a channel,   *)
(* and the path of a track passes every channel from its first to its      *)
(* last.  (recon/src/TrackBuilderMTC.cc:288)                               *)
THEOREM ChainTracksInOrder == ChainSpec => []TracksInOrder
<1>1. TrackInv => TracksInOrder
  BY InvTracksInOrder, Zenon DEF TrackInv
<1> QED BY <1>1, ChainTrackInv, PTL

(* A pass of merging that is followed by another one has made the list     *)
(* shorter, for trajectories of any number.                                *)
(* (recon/src/TrackBuilderMTC.cc:897)                                      *)
THEOREM ChainMergingEnds == ChainSpec => MergingEnds
<1> DEFINE Shorter == phase = "join" /\ PairsLeft = {} /\ pair.joined =>
                        Len(IF pair.short THEN trjsShort' ELSE trjsLong') < Len(Trjs)
<1>1. TrackInv /\ [ChainNext]_chainVars => [Shorter]_trackVars
  BY ChainTrackStep, MergingStep, Zenon
<1>2. ChainSpec => [][Shorter]_trackVars
  BY <1>1, ChainTrackInv, PTL DEF ChainSpec
<1> QED BY <1>2 DEF MergingEnds

-----------------------------------------------------------------------------
(* The builder that follows single hits                                    *)

(* Lists that have no element in common and none twice, none empty         *)
ListsOK(T, ss) ==
  /\ ss \in Seq(Seq(T))
  /\ \A i \in DOMAIN ss : IsInjective(ss[i]) /\ ss[i] # <<>>
  /\ \A i, j \in DOMAIN ss : i # j => Range(ss[i]) \cap Range(ss[j]) = {}

(* The elements of lists                                                   *)
AllIn(ss) == UNION {Range(ss[i]) : i \in DOMAIN ss}

(* An element of them is in one of them.                                   *)
LEMMA AllInIs ==
  ASSUME NEW ss, NEW x
  PROVE  x \in AllIn(ss) <=> \E i \in DOMAIN ss : x \in Range(ss[i])
BY Zenon DEF AllIn

(* No lists have no elements.                                              *)
LEMMA NoLists == ASSUME NEW T PROVE ListsOK(T, <<>>) /\ AllIn(<<>>) = {}
BY DEF ListsOK, AllIn

(* One more list of other elements                                         *)
LEMMA ListAppended ==
  ASSUME NEW T, NEW ss, ListsOK(T, ss), NEW s \in Seq(T), IsInjective(s), s # <<>>,
         Range(s) \cap AllIn(ss) = {}
  PROVE  ListsOK(T, Append(ss, s)) /\ AllIn(Append(ss, s)) = AllIn(ss) \cup Range(s)
<1> DEFINE r == Append(ss, s)
           n == Len(ss)
           S == Seq(T)
<1>2. ss \in Seq(S) /\ s \in S
  BY Zenon DEF ListsOK
<1> HIDE DEF S
<1>3. /\ r \in Seq(S) /\ n \in Nat /\ DOMAIN ss = 1 .. n /\ DOMAIN r = 1 .. n + 1
      /\ r[n + 1] = s /\ \A i \in 1 .. n : r[i] = ss[i]
  BY <1>2
<1> HIDE DEF r, n
<1>4. /\ \A i \in 1 .. n + 1 : i \in 1 .. n \/ i = n + 1
      /\ \A i \in 1 .. n : i \in 1 .. n + 1
      /\ n + 1 \in 1 .. n + 1
  BY <1>3
<1>5. /\ \A i \in DOMAIN ss : IsInjective(ss[i]) /\ ss[i] # <<>>
      /\ \A i, j \in DOMAIN ss : i # j => Range(ss[i]) \cap Range(ss[j]) = {}
      /\ \A i \in DOMAIN ss : Range(ss[i]) \cap Range(s) = {}
  BY AllInIs, Zenon DEF ListsOK
<1>6. \A i \in DOMAIN r : IsInjective(r[i]) /\ r[i] # <<>>
  BY <1>3, <1>4, <1>5, Zenon
<1>7. ASSUME NEW i \in DOMAIN r, NEW j \in DOMAIN r, i # j PROVE Range(r[i]) \cap Range(r[j]) = {}
  <2>1. CASE i \in 1 .. n /\ j \in 1 .. n
    BY <1>3, <1>5, <1>7, <2>1, Zenon
  <2>2. CASE i \in 1 .. n /\ j = n + 1
    BY <1>3, <1>5, <2>2, Zenon
  <2>3. CASE i = n + 1 /\ j \in 1 .. n
    BY <1>3, <1>5, <2>3, Zenon
  <2> QED BY <1>3, <1>4, <1>7, <2>1, <2>2, <2>3, Zenon
<1>8. ListsOK(T, r)
  BY <1>3, <1>6, <1>7, Zenon DEF ListsOK, S
<1>9. ASSUME NEW x PROVE x \in AllIn(r) <=> x \in AllIn(ss) \/ x \in Range(s)
  <2>1. (\E i \in DOMAIN r : x \in Range(r[i])) <=> (\E i \in DOMAIN ss : x \in Range(ss[i])) \/ x \in Range(s)
    BY <1>3, <1>4, Zenon
  <2> QED BY <2>1, AllInIs, Zenon
<1> QED BY <1>8, <1>9, Zenon DEF r

(* All lists but the last                                                  *)
LEMMA ListFront ==
  ASSUME NEW T, NEW ss, ListsOK(T, ss), ss # <<>>
  PROVE  /\ ListsOK(T, Front(ss)) /\ Last(ss) \in Seq(T) /\ IsInjective(Last(ss)) /\ Last(ss) # <<>>
         /\ Range(Last(ss)) \cap AllIn(Front(ss)) = {}
         /\ AllIn(ss) = AllIn(Front(ss)) \cup Range(Last(ss))
<1> DEFINE f == Front(ss)
           n == Len(ss)
           S == Seq(T)
<1>1. ss \in Seq(S)
  BY Zenon DEF ListsOK
<1> HIDE DEF S
<1>2. /\ n \in Nat \ {0} /\ DOMAIN ss = 1 .. n /\ \A i \in 1 .. n : ss[i] \in S
      /\ f \in Seq(S) /\ DOMAIN f = 1 .. n - 1 /\ (\A i \in 1 .. n - 1 : f[i] = ss[i])
      /\ Last(ss) = ss[n]
  BY <1>1 DEF Front, Last
<1> HIDE DEF f, n
<1>3. /\ \A i \in 1 .. n : (i \in 1 .. n - 1 /\ i # n) \/ i = n
      /\ \A i \in 1 .. n - 1 : i \in 1 .. n /\ i # n
      /\ n \in 1 .. n
  BY <1>2
<1>4. /\ \A i \in DOMAIN ss : IsInjective(ss[i]) /\ ss[i] # <<>>
      /\ \A i, j \in DOMAIN ss : i # j => Range(ss[i]) \cap Range(ss[j]) = {}
  BY Zenon DEF ListsOK
<1>5. ListsOK(T, f)
  BY <1>2, <1>3, <1>4, Zenon DEF ListsOK, S
<1>6. Last(ss) \in S /\ IsInjective(Last(ss)) /\ Last(ss) # <<>>
  BY <1>2, <1>3, <1>4, Zenon
<1>7. ASSUME NEW x PROVE x \in AllIn(f) <=> \E i \in 1 .. n - 1 : x \in Range(ss[i])
  BY <1>2, AllInIs, Zenon
<1>8. Range(Last(ss)) \cap AllIn(f) = {}
  BY <1>2, <1>3, <1>4, <1>7, Zenon
<1>9. ASSUME NEW x PROVE x \in AllIn(ss) <=> x \in AllIn(f) \/ x \in Range(Last(ss))
  BY <1>2, <1>3, <1>7, AllInIs, Zenon
<1> QED BY <1>5, <1>6, <1>8, <1>9, Zenon DEF f, S

(* Lists one after the other                                               *)
LEMMA ListsFlat ==
  ASSUME NEW T, NEW ss, ListsOK(T, ss)
  PROVE  FlattenSeq(ss) \in Seq(T) /\ IsInjective(FlattenSeq(ss)) /\ Range(FlattenSeq(ss)) = AllIn(ss)
<1>1. /\ ss \in Seq(Seq(T)) /\ \A i \in DOMAIN ss : IsInjective(ss[i])
      /\ \A i, j \in DOMAIN ss : i # j => Range(ss[i]) \cap Range(ss[j]) = {}
  BY Zenon DEF ListsOK
<1>2. FlatOnce(T, ss, Len(ss), FlattenSeq(ss))
  BY <1>1, FlattenOnce
<1>3. DOMAIN ss = 1 .. Len(ss)
  <2> DEFINE S == Seq(T)
  <2>1. ss \in Seq(S)
    BY <1>1
  <2> HIDE DEF S
  <2> QED BY <2>1
<1>4. ASSUME NEW x PROVE x \in Range(FlattenSeq(ss)) <=> x \in AllIn(ss)
  BY <1>2, <1>3, AllInIs, Zenon DEF FlatOnce
<1> QED BY <1>2, <1>4, Zenon DEF FlatOnce

(* The hits of a cluster by channel                                        *)
BlockStep(c, bs, h) ==
  IF bs # <<>> /\ Last(bs)[1].ch = h.ch
    THEN Front(bs) \o <<Append(Last(bs), h)>>
    ELSE Append(bs, <<h>>)

(* The blocks have the first k hits.                                       *)
BlockInv(c, k, bs) ==
  ListsOK(c.hits, bs) /\ \A x : x \in AllIn(bs) <=> \E i \in 1 .. k : x = c.seq[i]

(* Blocks, as a fold over the hits                                         *)
BlockFold == INSTANCE FoldTheorems WITH Step <- BlockStep, Inv <- BlockInv

(* One hit more, in the last block or in one of its own                    *)
LEMMA BlockStepOK ==
  ASSUME NEW c, NEW n \in Nat, c.seq \in Seq(c.hits), n = Len(c.seq), IsInjective(c.seq),
         NEW k \in 0 .. n - 1, NEW bs, BlockInv(c, k, bs)
  PROVE  BlockInv(c, k + 1, BlockStep(c, bs, c.seq[k + 1]))
<1> DEFINE T == c.hits
           hs == c.seq
           h == hs[k + 1]
           next == BlockStep(c, bs, h)
<1>1. ListsOK(T, bs) /\ \A x : x \in AllIn(bs) <=> \E i \in 1 .. k : x = hs[i]
  BY Zenon DEF BlockInv
<1>2. DOMAIN hs = 1 .. n /\ h \in T
  BY DEF hs
<1>3. k + 1 \in 1 .. n /\ \A i \in 1 .. k : i \in 1 .. n /\ i # k + 1
  OBVIOUS
<1>4. h \notin AllIn(bs)
  <2> SUFFICES ASSUME h \in AllIn(bs) PROVE FALSE
    OBVIOUS
  <2>1. PICK i \in 1 .. k : h = hs[i]
    BY <1>1, Zenon
  <2>2. i = k + 1
    BY <1>2, <1>3, <2>1, Zenon DEF IsInjective
  <2> QED BY <1>3, <2>2, Zenon
<1>5. \A i \in 1 .. k + 1 : i \in 1 .. k \/ i = k + 1
  OBVIOUS
<1>6. k + 1 \in 1 .. k + 1 /\ \A i \in 1 .. k : i \in 1 .. k + 1
  OBVIOUS
<1>7. \A x : (\E i \in 1 .. k + 1 : x = hs[i]) <=> (\E i \in 1 .. k : x = hs[i]) \/ x = h
  BY <1>5, <1>6, Zenon
<1> HIDE DEF T, hs, h
<1>8. CASE bs # <<>> /\ Last(bs)[1].ch = h.ch
  <2> DEFINE f == Front(bs)
             l == Last(bs)
             s == Append(l, h)
             new == Append(f, s)
  <2>1. /\ ListsOK(T, f) /\ l \in Seq(T) /\ IsInjective(l) /\ l # <<>>
        /\ Range(l) \cap AllIn(f) = {} /\ AllIn(bs) = AllIn(f) \cup Range(l)
    BY <1>1, <1>8, ListFront, Zenon
  <2> HIDE DEF f, l
  <2>2. s \in Seq(T) /\ IsInjective(s) /\ Range(s) = Range(l) \cup {h}
    <3>1. h \notin Range(l)
      BY <1>4, <2>1, Zenon
    <3> QED BY <1>2, <2>1, <3>1, OneMore
  <2>3. s # <<>>
    BY <1>2, <2>1
  <2> HIDE DEF s
  <2>4. ListsOK(T, new) /\ AllIn(new) = AllIn(f) \cup Range(s)
    <3>1. Range(s) \cap AllIn(f) = {}
      BY <1>4, <2>1, <2>2, Zenon
    <3> QED BY <2>1, <2>2, <2>3, <3>1, ListAppended
  <2>5. f \o <<s>> = new
    <3>1. f \in Seq(Seq(T))
      BY <2>1, Zenon DEF ListsOK
    <3> QED BY <3>1, LastGrown
  <2>6. next = new
    BY <1>8, <2>5, Zenon DEF BlockStep, f, l, s
  <2> HIDE DEF new
  <2>7. \A x : x \in AllIn(new) <=> \E i \in 1 .. k + 1 : x = hs[i]
    BY <1>1, <1>7, <2>1, <2>2, <2>4, Zenon
  <2>8. BlockInv(c, k + 1, new)
    BY <2>4, <2>7, Zenon DEF BlockInv, T, hs
  <2> QED BY <2>6, <2>8, Zenon DEF next, h, hs
<1>9. CASE ~(bs # <<>> /\ Last(bs)[1].ch = h.ch)
  <2> DEFINE s == <<h>>
             new == Append(bs, s)
  <2>1. s \in Seq(T) /\ IsInjective(s) /\ s # <<>> /\ Range(s) = {h}
    BY <1>2 DEF IsInjective, Range
  <2> HIDE DEF s
  <2>2. ListsOK(T, new) /\ AllIn(new) = AllIn(bs) \cup Range(s)
    <3>1. Range(s) \cap AllIn(bs) = {}
      BY <1>4, <2>1, Zenon
    <3> QED BY <1>1, <2>1, <3>1, ListAppended
  <2>3. next = new
    BY <1>9, Zenon DEF BlockStep, s
  <2> HIDE DEF new
  <2>4. \A x : x \in AllIn(new) <=> \E i \in 1 .. k + 1 : x = hs[i]
    BY <1>1, <1>7, <2>1, <2>2, Zenon
  <2>5. BlockInv(c, k + 1, new)
    BY <2>2, <2>4, Zenon DEF BlockInv, T, hs
  <2> QED BY <2>3, <2>5, Zenon DEF next, h, hs
<1> QED BY <1>8, <1>9 DEF next, h, hs

(* Every hit is in one block, once.                                        *)
LEMMA BlocksOK ==
  ASSUME NEW T, NEW hs \in Seq(T), IsInjective(hs)
  PROVE  ListsOK(T, Blocks(hs)) /\ AllIn(Blocks(hs)) = Range(hs)
<1> DEFINE c == [hits |-> T, seq |-> hs]
           n == Len(hs)
           base == <<>>
           r == BlockFold!Fold(c, base, hs)
<1>1. c.hits = T /\ c.seq = hs
  OBVIOUS
<1>2. n \in Nat /\ DOMAIN hs = 1 .. n
  OBVIOUS
<1> HIDE DEF c
<1>3. BlockInv(c, 0, base)
  <2>1. ListsOK(T, <<>>) /\ AllIn(<<>>) = {}
    BY NoLists, Zenon
  <2>2. 1 .. 0 = {}
    OBVIOUS
  <2> QED BY <1>1, <2>1, <2>2, Zenon DEF BlockInv
<1> HIDE DEF base
<1>4. ASSUME NEW k \in 0 .. n - 1, NEW bs, BlockInv(c, k, bs)
      PROVE  BlockInv(c, k + 1, BlockStep(c, bs, hs[k + 1]))
  <2>1. c.seq \in Seq(c.hits) /\ n = Len(c.seq) /\ IsInjective(c.seq)
    BY <1>1, Zenon
  <2>2. BlockInv(c, k + 1, BlockStep(c, bs, c.seq[k + 1]))
    BY <1>2, <1>4, <2>1, BlockStepOK
  <2> QED BY <1>1, <2>2, Zenon
<1>5. BlockInv(c, n, r)
  BY <1>2, <1>3, <1>4, BlockFold!FoldInvariant
<1>6. Blocks(hs) = r
  BY Zenon DEF r, base, Blocks, BlockFold!Fold, BlockStep, BlockFold!FoldLeft,
     BlockFold!MapThenFoldSet, FoldLeft, MapThenFoldSet, BlockFold!Max, Max
<1> HIDE DEF r
<1>7. ListsOK(T, r) /\ \A x : x \in AllIn(r) <=> \E i \in 1 .. n : x = hs[i]
  BY <1>1, <1>5, Zenon DEF BlockInv
<1>8. \A x : x \in AllIn(r) <=> x \in Range(hs)
  BY <1>2, <1>7, Zenon DEF Range
<1> QED BY <1>6, <1>7, <1>8, Zenon

(* What is left of a list keeps its elements apart.                        *)
LEMMA SiftSub ==
  ASSUME NEW T, NEW s \in Seq(T), IsInjective(s), NEW S
  PROVE  Sift(s, S) \in Seq(T) /\ IsInjective(Sift(s, S)) /\ Range(Sift(s, S)) \subseteq Range(s) \cap S
<1> DEFINE r == Sift(s, S)
           c == [seq |-> s, set |-> S]
           n == Len(s)
           l == Len(r)
<1>1. r \in Seq(T) /\ \E f : SiftedBy(c, n, r, f)
  BY SiftOK
<1>2. c.seq = s /\ c.set = S
  OBVIOUS
<1>3. n \in Nat /\ DOMAIN s = 1 .. n
  OBVIOUS
<1> HIDE DEF r, c, n
<1>4. l \in Nat /\ DOMAIN r = 1 .. l
  BY <1>1
<1>5. PICK f : /\ f \in [1 .. l -> 1 .. n]
               /\ \A i \in 1 .. l : r[i] = s[f[i]] /\ s[f[i]] \in S
               /\ \A i, j \in 1 .. l : i < j => f[i] < f[j]
  BY <1>1, <1>2, Zenon DEF SiftedBy
<1> HIDE DEF l
<1>6. \A i \in 1 .. l : f[i] \in DOMAIN s
  BY <1>3, <1>5
<1>7. ASSUME NEW i \in 1 .. l, NEW j \in 1 .. l, r[i] = r[j] PROVE i = j
  <2>1. f[i] = f[j]
    <3>1. f[i] \in DOMAIN s /\ f[j] \in DOMAIN s
      BY <1>6, Zenon
    <3>2. s[f[i]] = r[i] /\ s[f[j]] = r[j]
      BY <1>5, Zenon
    <3>3. s[f[i]] = s[f[j]]
      BY <1>7, <3>2
    <3> QED BY <3>1, <3>3, Zenon DEF IsInjective
  <2>2. ~(i < j) /\ ~(j < i)
    <3>1. f[i] \in Int /\ f[j] \in Int
      BY <1>3, <1>5
    <3> QED BY <1>5, <2>1, <3>1
  <2> QED BY <1>4, <2>2
<1>8. IsInjective(r)
  BY <1>4, <1>7, Zenon DEF IsInjective
<1>9. Range(r) \subseteq Range(s) \cap S
  BY <1>4, <1>5, <1>6, Zenon DEF Range
<1> QED BY <1>1, <1>8, <1>9, Zenon DEF r

(* A sequence reversed, place by place                                     *)
LEMMA ReversedForm ==
  ASSUME NEW X, NEW s \in Seq(X)
  PROVE  /\ Reversed(s) \in Seq(X) /\ Len(Reversed(s)) = Len(s)
         /\ \A k \in 1 .. Len(s) : Reversed(s)[k] = s[Len(s) - k + 1]
<1> DEFINE n == Len(s)
<1>1. n \in Nat /\ \A k \in 1 .. n : n - k + 1 \in 1 .. n /\ s[n - k + 1] \in X
  OBVIOUS
<1>2. Reversed(s) = [k \in 1 .. n |-> s[n - k + 1]]
  BY Zenon DEF Reversed
<1> HIDE DEF n
<1>3. [k \in 1 .. n |-> s[n - k + 1]] \in Seq(X) /\ Len([k \in 1 .. n |-> s[n - k + 1]]) = n
  BY <1>1
<1> QED BY <1>2, <1>3, Zenon DEF n

(* Where a search ends                                                     *)
Fits(bs, k) == Single(bs[k]) \/ Cardinality({j \in 1 .. k : Len(bs[j]) > ShowerHits}) > ShowerGroups

(* A search ends at the first place that fits, or at none.                 *)
LEMMA ReasonableOK ==
  ASSUME NEW X, NEW bs \in Seq(X)
  PROVE  LET r == Reasonable(bs)
         IN  /\ r \in 0 .. Len(bs)
             /\ r # 0 => Fits(bs, r)
             /\ \A k \in 1 .. Len(bs) : Fits(bs, k) => r # 0 /\ r <= k
<1> DEFINE n == Len(bs)
           S == {k \in DOMAIN bs : Fits(bs, k)} \cup {n + 1}
           m == Min(S)
           r == Reasonable(bs)
<1>1. n \in Nat /\ DOMAIN bs = 1 .. n
  OBVIOUS
<1>2. r = m % (n + 1)
  BY Zenon DEF Reasonable, Fits
<1> HIDE DEF n, r
<1>3. \A k : k \in S <=> (k \in 1 .. n /\ Fits(bs, k)) \/ k = n + 1
  BY <1>1, Zenon
<1> HIDE DEF S
<1>4. S \subseteq 1 .. n + 1 /\ S # {}
  <2>1. \A k : k \in 1 .. n \/ k = n + 1 => k \in 1 .. n + 1
    BY <1>1
  <2> QED BY <1>3, <2>1, Zenon
<1>5. m \in S /\ \A k \in S : m <= k
  <2>1. S \subseteq Nat
    BY <1>1, <1>4
  <2> QED BY <1>4, <2>1, MinIsLeast, Zenon
<1> HIDE DEF m
<1>6. m \in 1 .. n + 1
  BY <1>4, <1>5, Zenon
<1>7. CASE m = n + 1
  <2>1. r = 0
    BY <1>1, <1>2, <1>7
  <2>2. ASSUME NEW k \in 1 .. n PROVE ~Fits(bs, k)
    <3>1. ~(n + 1 <= k)
      BY <1>1
    <3> QED BY <1>3, <1>5, <1>7, <3>1, Zenon
  <2>3. r \in 0 .. n
    BY <1>1, <2>1
  <2> QED BY <2>1, <2>2, <2>3, Zenon DEF n, r
<1>8. CASE m # n + 1
  <2>1. m \in 1 .. n
    BY <1>1, <1>6, <1>8
  <2>2. r = m
    BY <1>1, <1>2, <2>1
  <2>3. Fits(bs, m)
    BY <1>3, <1>5, <1>8, Zenon
  <2>4. \A k \in 1 .. n : Fits(bs, k) => m <= k
    BY <1>3, <1>5, Zenon
  <2>5. m \in 0 .. n /\ m # 0
    BY <1>1, <2>1
  <2> QED BY <2>2, <2>3, <2>4, <2>5, Zenon DEF n, r
<1> QED BY <1>7, <1>8

(* Both ends of the search                                                 *)
LEMMA EndsFound ==
  ASSUME NEW X, NEW bs \in Seq(X), EndExists(bs)
  PROVE  Len(bs) \in Nat \ {0} /\ IFirst(bs) \in 1 .. Len(bs) /\ ILast(bs) \in 1 .. Len(bs)
<1> DEFINE n == Len(bs)
           r == Reasonable(bs)
           q == Reasonable(Reversed(bs))
<1>1. n \in Nat
  OBVIOUS
<1>2. r \in 0 .. n
  BY ReasonableOK
<1>3. q \in 0 .. n /\ q # 0
  <2>1. Reversed(bs) \in Seq(X) /\ Len(Reversed(bs)) = n
    BY ReversedForm
  <2>2. q \in 0 .. Len(Reversed(bs))
    BY <2>1, ReasonableOK
  <2> QED BY <2>1, <2>2, Zenon DEF EndExists
<1>4. ILast(bs) = n - q + 1 /\ IFirst(bs) = Max({1, r})
  BY Zenon DEF ILast, IFirst
<1> HIDE DEF n, r, q
<1>5. {1, r} \in SUBSET (0 .. n) /\ {1, r} # {}
  BY <1>1, <1>2, <1>3
<1>6. Max({1, r}) \in {1, r} /\ \A m \in {1, r} : m <= Max({1, r})
  BY <1>1, <1>5, MaxIsGreatest, Zenon
<1>7. Max({1, r}) \in 1 .. n
  <2> DEFINE x == Max({1, r})
  <2>1. (x = 1 \/ x = r) /\ 1 <= x
    BY <1>6, Zenon
  <2> HIDE DEF x
  <2> QED BY <1>1, <1>2, <1>3, <2>1 DEF x
<1>8. n - q + 1 \in 1 .. n /\ n \in Nat \ {0}
  BY <1>1, <1>3
<1> QED BY <1>4, <1>7, <1>8, Zenon DEF n

(* How far outward the track goes                                          *)
LEMMA OutwardRange ==
  ASSUME NEW near \in Seq(BOOLEAN), NEW from \in Nat \ {0}, NEW stay
  PROVE  LET o == Outward(near, from, stay)
         IN  \/ o = stay
             \/ o \in from - 1 .. Len(near) /\ (near[from] => o >= from)
<1> DEFINE n == Len(near)
           g == fNGapStep
           gaveUp == {k \in from .. Len(near) :
                        k - from >= fNGapStep /\ \A j \in k - fNGapStep .. k : ~near[j]}
           m == Min(gaveUp)
           o == Outward(near, from, stay)
<1>1. n \in Nat /\ g \in Nat /\ from \in Nat /\ from # 0
  BY SmAssumption
<1>2. o = IF gaveUp = {} THEN stay ELSE m - g - 1
  BY Zenon DEF Outward
<1>3. CASE gaveUp = {}
  BY <1>2, <1>3, Zenon
<1>4. CASE gaveUp # {}
  <2>1. o = m - g - 1
    BY <1>2, <1>4, Zenon
  <2>2. gaveUp \subseteq Nat
    BY <1>1
  <2>3. m \in gaveUp
    BY <1>4, <2>2, MinIsLeast, Zenon
  <2>4. m \in from .. n /\ m - from >= g /\ \A j \in m - g .. m : ~near[j]
    BY <2>3, Zenon
  <2> HIDE DEF m, o, g, n, gaveUp
  <2>5. o \in from - 1 .. n /\ (o >= from \/ m - g = from)
    BY <1>1, <2>1, <2>4
  <2>6. m - g = from => ~near[from]
    <3>1. m - g \in m - g .. m
      BY <1>1, <2>4
    <3> QED BY <2>4, <3>1, Zenon
  <2> QED BY <2>5, <2>6, Zenon DEF o, n
<1> QED BY <1>3, <1>4

(* The ends of a track enclose the channels found from both sides.         *)
LEMMA EndsOK ==
  ASSUME NEW X, NEW bs \in Seq(X), EndExists(bs), NEW near \in [DOMAIN bs -> BOOLEAN]
  PROVE  LET e == Ends(bs, near)
         IN  /\ e.first \in 1 .. IFirst(bs) /\ e.last \in ILast(bs) - 1 .. Len(bs)
             /\ near[ILast(bs)] => e.last >= ILast(bs)
<1> DEFINE n == Len(bs)
           i == IFirst(bs)
           l == ILast(bs)
           first == n - i + 1
           rev == Reversed(near)
           a == Outward(rev, first + 1, first)
           b == Outward(near, l, l)
           e == Ends(bs, near)
<1>1. n \in Nat \ {0} /\ i \in 1 .. n /\ l \in 1 .. n
  BY EndsFound
<1>2. near \in Seq(BOOLEAN) /\ Len(near) = n
  OBVIOUS
<1>3. rev \in Seq(BOOLEAN) /\ Len(rev) = n
  BY <1>2, ReversedForm
<1>4. Ends(bs, near) = [first |-> n + 1 - a, last |-> b]
  BY Zenon DEF Ends
<1>5. e.first = n + 1 - a /\ e.last = b
  BY <1>4
<1> HIDE DEF n, i, l, rev, e
<1>6. first \in 1 .. n /\ first + 1 \in Nat \ {0} /\ l \in Nat \ {0}
  BY <1>1
<1>7. a = first \/ a \in first + 1 - 1 .. n
  BY <1>3, <1>6, OutwardRange
<1>8. b = l \/ (b \in l - 1 .. n /\ (near[l] => b >= l))
  BY <1>2, <1>6, OutwardRange
<1> HIDE DEF a, b
<1>9. n + 1 - a \in 1 .. i
  BY <1>1, <1>7
<1>10. b \in l - 1 .. n /\ (near[l] => b >= l)
  BY <1>1, <1>8
<1> QED BY <1>5, <1>9, <1>10, Zenon DEF n, i, l, e

(* What is true of a track of hits of S: none is on it twice.              *)
TrackOf(S, t) ==
  /\ \E T : t.hits \in Seq(T) /\ t.drays \in Seq(T)
  /\ IsInjective(t.hits \o t.drays) /\ Range(t.hits \o t.drays) \subseteq S

(* Everything of a cluster                                                 *)
LEMMA AllOfItOK ==
  ASSUME NEW T, NEW bs, ListsOK(T, bs)
  PROVE  TrackOf(AllIn(bs), AllOfIt(bs)) /\ Range(AllOfIt(bs).hits) = AllIn(bs)
<1> DEFINE t == AllOfIt(bs)
           f == FlattenSeq(bs)
<1>1. t.hits = f /\ t.drays = <<>>
  BY DEF AllOfIt
<1>2. f \in Seq(T) /\ IsInjective(f) /\ Range(f) = AllIn(bs)
  BY ListsFlat, Zenon
<1> HIDE DEF t, f
<1>3. f \o <<>> = f /\ <<>> \in Seq(T)
  BY <1>2
<1> QED BY <1>1, <1>2, <1>3 DEF TrackOf, t

(* A track through blocks first to last, with a hit of each                *)
LEMMA SmTrackOK ==
  ASSUME NEW T, NEW bs, ListsOK(T, bs), NEW first \in 1 .. Len(bs), NEW last \in 0 .. Len(bs),
         NEW saved, \A k \in DOMAIN bs : saved[k] \in DOMAIN bs[k]
  PROVE  LET t == SmTrack(bs, first, last, saved)
         IN  /\ TrackOf(AllIn(bs), t)
             /\ \A k \in first .. last : bs[k][saved[k]] \in Range(t.hits)
<1> DEFINE n == last - first + 1
           at2(k) == first + k - 1
           on(k) == Pick(bs, first + k - 1, saved)
           rest(k) == Sift(bs[first + k - 1], Range(bs[first + k - 1]) \ {on(k)})
           hs == [k \in 1 .. n |-> on(k)]
           rs == [k \in 1 .. n |-> rest(k)]
           ds == FlattenSeq(rs)
           t == SmTrack(bs, first, last, saved)
           S == Seq(T)
<1>1. t.hits = hs /\ t.drays = ds
  BY DEF SmTrack
<1>2. bs \in Seq(S)
  BY Zenon DEF ListsOK
<1> HIDE DEF S
<1>3. DOMAIN bs = 1 .. Len(bs) /\ Len(bs) \in Nat /\ \A k \in DOMAIN bs : bs[k] \in S
  BY <1>2
<1>4. \A k \in 1 .. n : at2(k) \in DOMAIN bs
  BY <1>3
<1>5. \A j, k \in 1 .. n : j # k => at2(j) # at2(k)
  OBVIOUS
<1>6. \A k \in first .. last : k - first + 1 \in 1 .. n /\ at2(k - first + 1) = k
  OBVIOUS
<1>7. /\ \A i \in DOMAIN bs : IsInjective(bs[i])
      /\ \A i, j \in DOMAIN bs : i # j => Range(bs[i]) \cap Range(bs[j]) = {}
  BY Zenon DEF ListsOK
<1> HIDE DEF n
<1>8. ASSUME NEW k \in 1 .. n
      PROVE  /\ on(k) \in Range(bs[at2(k)]) /\ on(k) \in T
             /\ rest(k) \in S /\ IsInjective(rest(k)) /\ Range(rest(k)) \subseteq Range(bs[at2(k)]) \ {on(k)}
  <2> DEFINE b == bs[at2(k)]
             x == on(k)
             R == Range(b) \ {x}
  <2>1. b \in Seq(T) /\ IsInjective(b) /\ at2(k) \in DOMAIN bs
    BY <1>3, <1>4, <1>7, Zenon DEF S
  <2>2. x = b[saved[at2(k)]] /\ saved[at2(k)] \in DOMAIN b
    BY <2>1, Zenon DEF Pick
  <2>3. rest(k) = Sift(b, R)
    BY Zenon
  <2> HIDE DEF b, x
  <2>4. x \in Range(b) /\ x \in T
    <3>1. \A i \in DOMAIN b : b[i] \in T
      BY <2>1
    <3> QED BY <2>2, <3>1, Zenon DEF Range
  <2> HIDE DEF R
  <2>5. Sift(b, R) \in Seq(T) /\ IsInjective(Sift(b, R)) /\ Range(Sift(b, R)) \subseteq Range(b) \cap R
    BY <2>1, SiftSub
  <2>6. Range(Sift(b, R)) \subseteq Range(b) \ {x}
    BY <2>5, Zenon DEF R
  <2> QED BY <2>3, <2>4, <2>5, <2>6, Zenon DEF b, x, S
<1> HIDE DEF on, rest, at2
<1>9. n \in Int
  BY DEF n
<1>10. /\ hs \in Seq(T) /\ DOMAIN hs = 1 .. n /\ \A k \in 1 .. n : hs[k] = on(k)
  <2>1. \A k \in 1 .. n : on(k) \in T
    BY <1>8, Zenon
  <2>2. hs \in [1 .. n -> T]
    BY <2>1
  <2>3. hs \in Seq(T)
    <3>1. CASE n >= 0
      BY <1>9, <2>2, <3>1
    <3>2. CASE ~(n >= 0)
      <4>1. 1 .. n = {} /\ 1 .. 0 = {}
        BY <1>9, <3>2
      <4>2. hs \in [1 .. 0 -> T]
        BY <2>2, <4>1, Zenon
      <4> HIDE DEF hs
      <4> QED BY <4>2
    <3> QED BY <3>1, <3>2
  <2> QED BY <2>3
<1>11. /\ rs \in Seq(S) /\ DOMAIN rs = 1 .. n /\ \A k \in 1 .. n : rs[k] = rest(k)
  <2>1. \A k \in 1 .. n : rest(k) \in S
    BY <1>8, Zenon
  <2>2. rs \in [1 .. n -> S]
    BY <2>1
  <2>3. rs \in Seq(S)
    <3>1. CASE n >= 0
      BY <1>9, <2>2, <3>1
    <3>2. CASE ~(n >= 0)
      <4>1. 1 .. n = {} /\ 1 .. 0 = {}
        BY <1>9, <3>2
      <4>2. rs \in [1 .. 0 -> S]
        BY <2>2, <4>1, Zenon
      <4> HIDE DEF rs
      <4> QED BY <4>2
    <3> QED BY <3>1, <3>2
  <2> QED BY <2>3
<1> HIDE DEF hs, rs
<1>12. ASSUME NEW j \in 1 .. n, NEW k \in 1 .. n, j # k PROVE Range(bs[at2(j)]) \cap Range(bs[at2(k)]) = {}
  <2>1. at2(j) # at2(k) /\ at2(j) \in DOMAIN bs /\ at2(k) \in DOMAIN bs
    BY <1>4, <1>5, <1>12, Zenon
  <2> QED BY <1>7, <2>1, Zenon
<1>13. IsInjective(hs)
  <2>1. \A j, k \in 1 .. n : on(j) = on(k) => j = k
    BY <1>8, <1>12, Zenon
  <2> QED BY <1>10, <2>1, Zenon DEF IsInjective
<1>22. FlatOnce(T, rs, Len(rs), ds)
  <2>1. \A j \in DOMAIN rs : IsInjective(rs[j])
    BY <1>8, <1>11, Zenon
  <2>2. ASSUME NEW i \in DOMAIN rs, NEW j \in DOMAIN rs, i # j PROVE Range(rs[i]) \cap Range(rs[j]) = {}
    <3>1. i \in 1 .. n /\ j \in 1 .. n /\ rs[i] = rest(i) /\ rs[j] = rest(j)
      BY <1>11, Zenon
    <3>2. Range(rest(i)) \subseteq Range(bs[at2(i)]) /\ Range(rest(j)) \subseteq Range(bs[at2(j)])
      BY <1>8, <3>1, Zenon
    <3>3. Range(bs[at2(i)]) \cap Range(bs[at2(j)]) = {}
      BY <1>12, <2>2, <3>1, Zenon
    <3>4. Range(rest(i)) \cap Range(rest(j)) = {}
      BY <3>2, <3>3, Zenon
    <3> QED BY <3>1, <3>4
  <2> QED BY <1>11, <2>1, <2>2, FlattenOnce DEF S
<1>14. ASSUME NEW x PROVE x \in Range(ds) <=> \E k \in 1 .. n : x \in Range(rest(k))
  <2>1. DOMAIN rs = 1 .. Len(rs)
    BY <1>11
  <2>2. x \in Range(ds) <=> \E k \in 1 .. Len(rs) : x \in Range(rs[k])
    BY <1>22, Zenon DEF FlatOnce
  <2> QED BY <1>11, <2>1, <2>2, Zenon
<1>15. ds \in Seq(T) /\ IsInjective(ds)
  BY <1>22, Zenon DEF FlatOnce
<1> HIDE DEF ds
<1>16. ASSUME NEW x PROVE x \in Range(hs) <=> \E k \in 1 .. n : x = on(k)
  BY <1>10, Zenon DEF Range
<1>17. Range(hs) \cap Range(ds) = {}
  <2> SUFFICES ASSUME NEW x \in Range(hs), x \in Range(ds) PROVE FALSE
    BY Zenon
  <2>1. PICK k \in 1 .. n : x = on(k)
    BY <1>16, Zenon
  <2>2. PICK j \in 1 .. n : x \in Range(rest(j))
    BY <1>14, Zenon
  <2> QED BY <1>8, <1>12, <2>1, <2>2, Zenon
<1>18. IsInjective(hs \o ds) /\ Range(hs \o ds) = Range(hs) \cup Range(ds)
  BY <1>10, <1>13, <1>15, <1>17, ConcatInjective
<1>19. Range(hs) \cup Range(ds) \subseteq AllIn(bs)
  <2> SUFFICES ASSUME NEW x, x \in Range(hs) \/ x \in Range(ds) PROVE x \in AllIn(bs)
    BY Zenon
  <2>1. \E k \in 1 .. n : x \in Range(bs[at2(k)])
    <3>1. CASE x \in Range(hs)
      <4>1. PICK k \in 1 .. n : x = on(k)
        BY <1>16, <3>1, Zenon
      <4>2. on(k) \in Range(bs[at2(k)])
        BY <1>8, Zenon
      <4> QED BY <4>1, <4>2
    <3>2. CASE x \in Range(ds)
      <4>1. PICK k \in 1 .. n : x \in Range(rest(k))
        BY <1>14, <3>2, Zenon
      <4> QED BY <1>8, <4>1, Zenon
    <3> QED BY <3>1, <3>2, Zenon
  <2> QED BY <1>4, <2>1, AllInIs, Zenon
<1>20. TrackOf(AllIn(bs), t)
  BY <1>1, <1>10, <1>15, <1>18, <1>19, Zenon DEF TrackOf
<1>21. ASSUME NEW k \in first .. last PROVE bs[k][saved[k]] \in Range(hs)
  <2>1. on(k - first + 1) = bs[k][saved[k]] /\ k - first + 1 \in 1 .. n
    <3>1. at2(k - first + 1) = k /\ k - first + 1 \in 1 .. n
      BY <1>6, Zenon
    <3> QED BY <3>1, Zenon DEF on, Pick, at2
  <2> QED BY <1>16, <2>1, Zenon
<1> QED BY <1>1, <1>20, <1>21, Zenon DEF t

(* The tracks of the simple builder have hits of their cluster, each once. *)
LEMMA SmTracksOK ==
  ASSUME NEW T, NEW hs \in Seq(T), IsInjective(hs), EndExists(Blocks(hs)), NEW t \in SmTracks(hs)
  PROVE  TrackOf(Range(hs), t)
<1> DEFINE bs == Blocks(hs)
           nears == {near \in [DOMAIN bs -> BOOLEAN] : \A k \in DOMAIN bs : Single(bs[k]) => near[k]}
           saves == {saved \in [DOMAIN bs -> 1 .. Len(hs)] :
                       \A k \in DOMAIN bs : saved[k] \in DOMAIN bs[k]}
           track(near, saved) == LET e == Ends(bs, near) IN SmTrack(bs, e.first, e.last, saved)
<1>1. ListsOK(T, bs) /\ AllIn(bs) = Range(hs)
  BY BlocksOK
<1>2. t = AllOfIt(bs) \/ \E near \in nears, saved \in saves : t = track(near, saved)
  BY DEF SmTracks
<1>3. CASE t = AllOfIt(bs)
  BY <1>1, <1>3, AllOfItOK, Zenon
<1>4. CASE \E near \in nears, saved \in saves : t = track(near, saved)
  <2>1. PICK near \in nears, saved \in saves : t = track(near, saved)
    BY <1>4, Zenon
  <2>2. near \in [DOMAIN bs -> BOOLEAN] /\ \A k \in DOMAIN bs : saved[k] \in DOMAIN bs[k]
    BY Zenon
  <2> DEFINE e == Ends(bs, near)
  <2>3. bs \in Seq(Seq(T))
    BY <1>1, Zenon DEF ListsOK
  <2> HIDE DEF bs
  <2>4. /\ e.first \in 1 .. IFirst(bs) /\ e.last \in ILast(bs) - 1 .. Len(bs)
        /\ IFirst(bs) \in 1 .. Len(bs) /\ ILast(bs) \in 1 .. Len(bs) /\ Len(bs) \in Nat \ {0}
    <3>1. EndExists(bs)
      BY DEF bs
    <3> QED BY <2>2, <2>3, <3>1, EndsOK, EndsFound
  <2> HIDE DEF e
  <2>5. e.first \in 1 .. Len(bs) /\ e.last \in 0 .. Len(bs)
    BY <2>4
  <2>6. TrackOf(AllIn(bs), SmTrack(bs, e.first, e.last, saved))
    BY <1>1, <2>2, <2>5, SmTrackOK
  <2> QED BY <1>1, <2>1, <2>6, Zenon DEF e
<1> QED BY <1>2, <1>3, <1>4

(* A hit that is alone on its channel is on the track.                     *)
LEMMA SingleTaken ==
  ASSUME NEW T, NEW hs \in Seq(T), IsInjective(hs), EndExists(Blocks(hs)), NEW t \in SmTracks(hs),
         NEW k \in DOMAIN Blocks(hs), Single(Blocks(hs)[k])
  PROVE  Blocks(hs)[k][1] \in Range(t.hits)
<1> DEFINE bs == Blocks(hs)
           n == Len(bs)
           nears == {near \in [DOMAIN bs -> BOOLEAN] : \A j \in DOMAIN bs : Single(bs[j]) => near[j]}
           saves == {saved \in [DOMAIN bs -> 1 .. Len(hs)] :
                       \A j \in DOMAIN bs : saved[j] \in DOMAIN bs[j]}
           track(near, saved) == LET e == Ends(bs, near) IN SmTrack(bs, e.first, e.last, saved)
<1>1. ListsOK(T, bs)
  BY BlocksOK
<1>2. t = AllOfIt(bs) \/ \E near \in nears, saved \in saves : t = track(near, saved)
  BY DEF SmTracks
<1>3. bs \in Seq(Seq(T))
  BY <1>1, Zenon DEF ListsOK
<1>4. EndExists(bs) /\ Single(bs[k]) /\ k \in DOMAIN bs
  OBVIOUS
<1> DEFINE S == Seq(T)
<1>5. bs \in Seq(S)
  BY <1>3
<1> HIDE DEF bs, S
<1>6. n \in Nat /\ DOMAIN bs = 1 .. n /\ \A j \in 1 .. n : bs[j] \in S
  BY <1>5
<1>7. 1 \in DOMAIN bs[k] /\ \A m \in DOMAIN bs[k] : m = 1
  <2> DEFINE b == bs[k]
  <2>1. b \in Seq(T) /\ Len(b) = 1
    BY <1>4, <1>6, Zenon DEF Single, S
  <2> HIDE DEF b
  <2>2. DOMAIN b = 1 .. 1
    BY <2>1
  <2> QED BY <2>2 DEF b
<1>8. CASE t = AllOfIt(bs)
  <2> DEFINE b == bs[k]
  <2>1. 1 \in DOMAIN b
    BY <1>7
  <2>2. b[1] \in Range(b)
    <3> HIDE DEF b
    <3> QED BY <2>1, Zenon DEF Range
  <2>3. bs[k][1] \in Range(bs[k])
    BY <2>2, Zenon DEF b
  <2> HIDE DEF b
  <2>4. bs[k][1] \in AllIn(bs)
    BY <1>1, <1>4, <2>3, AllInIs, Zenon
  <2> QED BY <1>1, <1>8, <2>4, AllOfItOK, Zenon DEF bs
<1>9. CASE \E near \in nears, saved \in saves : t = track(near, saved)
  <2>1. PICK near \in nears, saved \in saves : t = track(near, saved)
    BY <1>9, Zenon
  <2>2. near \in [DOMAIN bs -> BOOLEAN] /\ \A j \in DOMAIN bs : saved[j] \in DOMAIN bs[j]
    BY Zenon
  <2>3. \A j \in DOMAIN bs : Single(bs[j]) => near[j]
    BY Zenon
  <2> DEFINE e == Ends(bs, near)
             rev == Reversed(bs)
             q == Reasonable(rev)
             r == Reasonable(bs)
  <2>4. /\ e.first \in 1 .. IFirst(bs) /\ e.last \in ILast(bs) - 1 .. n
        /\ near[ILast(bs)] => e.last >= ILast(bs)
        /\ IFirst(bs) \in 1 .. n /\ ILast(bs) \in 1 .. n /\ n \in Nat \ {0}
    BY <1>4, <1>5, <2>2, EndsOK, EndsFound
  <2> HIDE DEF e
  <2>5. IFirst(bs) <= k
    <3>0. Fits(bs, k)
      BY <1>4, Zenon DEF Fits
    <3>1. r \in 0 .. n /\ r <= k
      BY <1>4, <1>5, <1>6, <3>0, ReasonableOK
    <3>2. IFirst(bs) = Max({1, r})
      BY Zenon DEF IFirst
    <3> HIDE DEF r
    <3>3. {1, r} \in SUBSET (0 .. n) /\ {1, r} # {}
      BY <2>4, <3>1
    <3>4. Max({1, r}) \in {1, r}
      BY <1>6, <3>3, MaxIsGreatest, Zenon
    <3>5. IFirst(bs) = 1 \/ IFirst(bs) = r
      BY <3>2, <3>4, Zenon
    <3> QED BY <1>4, <1>6, <3>1, <3>5
  <2>6. k <= ILast(bs)
    <3>1. /\ rev \in Seq(S) /\ Len(rev) = n
          /\ \A j \in 1 .. n : rev[j] = bs[n - j + 1]
      BY <1>5, ReversedForm
    <3>2. ILast(bs) = n - q + 1
      BY Zenon DEF ILast
    <3> HIDE DEF rev
    <3>3. n - k + 1 \in 1 .. n /\ n - (n - k + 1) + 1 = k
      BY <1>4, <1>6
    <3>4. rev[n - k + 1] = bs[k]
      BY <3>1, <3>3, Zenon
    <3>5. Fits(rev, n - k + 1)
      BY <1>4, <3>4, Zenon DEF Fits
    <3>6. q \in 0 .. n /\ q <= n - k + 1
      BY <3>1, <3>3, <3>5, ReasonableOK
    <3> HIDE DEF q
    <3>7. k <= n - q + 1
      BY <1>4, <1>6, <3>6
    <3> QED BY <3>2, <3>7, Zenon
  <2>7. k = ILast(bs) => near[ILast(bs)]
    BY <1>4, <2>3, Zenon
  <2>8. k \in e.first .. e.last /\ e.first \in 1 .. n /\ e.last \in 0 .. n
    <3> DEFINE f == e.first
               l == e.last
               i == IFirst(bs)
               z == ILast(bs)
    <3>1. /\ f \in 1 .. i /\ l \in z - 1 .. n /\ (k = z => l >= z)
          /\ i \in 1 .. n /\ z \in 1 .. n /\ n \in Nat /\ i <= k /\ k <= z /\ k \in 1 .. n
      BY <1>4, <1>6, <2>4, <2>5, <2>6, <2>7, Zenon DEF f, l, i, z
    <3> HIDE DEF f, l, i, z, n
    <3>2. k \in f .. l /\ f \in 1 .. n /\ l \in 0 .. n
      BY <3>1
    <3> QED BY <3>2, Zenon DEF f, l
  <2>9. \A j \in e.first .. e.last : bs[j][saved[j]] \in Range(SmTrack(bs, e.first, e.last, saved).hits)
    BY <1>1, <2>2, <2>8, SmTrackOK
  <2>10. saved[k] = 1
    BY <1>4, <1>7, <2>2, Zenon
  <2>11. bs[k][saved[k]] \in Range(SmTrack(bs, e.first, e.last, saved).hits)
    BY <2>8, <2>9, Zenon
  <2>12. t = SmTrack(bs, e.first, e.last, saved)
    BY <2>1, Zenon DEF e
  <2>13. bs[k][1] \in Range(t.hits)
    BY <2>10, <2>11, <2>12
  <2> QED BY <2>13, Zenon DEF bs
<1> QED BY <1>2, <1>8, <1>9

(* A track of the other builder has every hit that is alone on its channel. *)
LEMMA InvSingles == ClusInv => SinglesOnTrack
<1> SUFFICES ASSUME ClusInv, NEW c \in Range(hitclus), EndExists(Blocks(AllHits(c))),
                    NEW t \in SmTracks(AllHits(c)),
                    NEW k \in DOMAIN Blocks(AllHits(c)), Single(Blocks(AllHits(c))[k])
             PROVE  Blocks(AllHits(c))[k][1] \in Range(t.hits)
  BY Zenon DEF SinglesOnTrack
<1> DEFINE H == Range(input)
           hs == AllHits(c)
           bs == Blocks(hs)
<1>1. PICK i \in DOMAIN hitclus : c = hitclus[i]
  BY Zenon DEF Range
<1>2. CollOK(H, c)
  BY <1>1, Zenon DEF ClusInv, MemberInv, CollsOK
<1>3. hs \in Seq(H) /\ IsInjective(hs)
  <2>1. Listed(H, c, hs)
    BY <1>2, AllHitsOK, Zenon
  <2> QED BY <2>1, Zenon DEF Listed
<1> HIDE DEF hs, H
<1> QED BY <1>3, SingleTaken DEF hs

(* The simple builder's track has every hit that is alone on its channel,  *)
(* from the first such channel of the cluster to the last, for any gaps    *)
(* and any sizes of showers.  (recon/src/TrackBuilderSm.cc:235)            *)
THEOREM ChainSinglesOnTrack == ChainSpec => []SinglesOnTrack
<1>1. TrackInv => SinglesOnTrack
  BY InvSingles, Zenon DEF TrackInv
<1> QED BY <1>1, ChainTrackInv, PTL
=============================================================================
