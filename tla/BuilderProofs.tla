--------------------------- MODULE BuilderProofs ----------------------------
(***************************************************************************)
(* The builder of tracks from trajectories (TrackBuilderMTC) keeps every   *)
(* hit of a cluster in one place: the invariant of CRTrackReco, and each   *)
(* step of the builder.  For any events and parameters of the builder.     *)
(***************************************************************************)
EXTENDS HitProofs, RecoChain

-----------------------------------------------------------------------------
(* The builder of tracks: points, trajectories and flags                   *)

(* One element looked at by Sift                                           *)
SiftStep(c, acc, x) == IF x \in c.set THEN Append(acc, x) ELSE acc

(* r has the elements of the first k of seq that are in the set, in order: *)
(* f tells where each comes from.                                          *)
SiftedBy(c, k, r, f) ==
  /\ f \in [1 .. Len(r) -> 1 .. k]
  /\ \A i \in 1 .. Len(r) : r[i] = c.seq[f[i]] /\ c.seq[f[i]] \in c.set
  /\ \A i, j \in 1 .. Len(r) : i < j => f[i] < f[j]
  /\ \A m \in 1 .. k : c.seq[m] \in c.set => \E i \in 1 .. Len(r) : f[i] = m

(* The first k places of c.seq are sifted into r.                          *)
SiftInv(c, k, r) ==
  /\ r \in Seq(Range(c.seq)) /\ Len(r) <= k
  /\ (\E m \in 1 .. k : c.seq[m] \notin c.set) => Len(r) < k
  /\ \E f : SiftedBy(c, k, r, f)

(* Sifting, as a fold over the places of c.seq                             *)
SiftFold == INSTANCE FoldTheorems WITH Step <- SiftStep, Inv <- SiftInv

(* One place more is sifted.                                               *)
LEMMA SiftStepOK ==
  ASSUME NEW c, NEW n \in Nat, DOMAIN c.seq = 1 .. n, NEW k \in 0 .. n - 1, NEW r, SiftInv(c, k, r)
  PROVE  SiftInv(c, k + 1, SiftStep(c, r, c.seq[k + 1]))
<1> DEFINE x == c.seq[k + 1]
           l == Len(r)
<1>1. k \in Nat /\ k + 1 \in 1 .. n /\ k + 1 \in 1 .. k + 1
  OBVIOUS
<1>2. x \in Range(c.seq)
  BY <1>1, Zenon DEF Range
<1>3. r \in Seq(Range(c.seq)) /\ l \in Nat /\ l <= k /\ ((\E m \in 1 .. k : c.seq[m] \notin c.set) => l < k)
  BY DEF SiftInv
<1>4. PICK f : SiftedBy(c, k, r, f)
  BY Zenon DEF SiftInv
<1>5. /\ f \in [1 .. l -> 1 .. k]
      /\ \A i \in 1 .. l : r[i] = c.seq[f[i]] /\ c.seq[f[i]] \in c.set
      /\ \A i, j \in 1 .. l : i < j => f[i] < f[j]
      /\ \A m \in 1 .. k : c.seq[m] \in c.set => \E i \in 1 .. l : f[i] = m
  BY <1>4, Zenon DEF SiftedBy
<1>6. CASE x \notin c.set
  <2>1. SiftStep(c, r, x) = r
    BY <1>6, Zenon DEF SiftStep
  <2>2. \A m \in 1 .. k + 1 : m \in 1 .. k \/ m = k + 1
    BY <1>1
  <2>3. SiftedBy(c, k + 1, r, f)
    <3>1. f \in [1 .. l -> 1 .. k + 1]
      BY <1>1, <1>3, <1>5
    <3>2. \A m \in 1 .. k + 1 : c.seq[m] \in c.set => \E i \in 1 .. l : f[i] = m
      BY <1>5, <1>6, <2>2, Zenon
    <3> QED BY <1>5, <3>1, <3>2, Zenon DEF SiftedBy
  <2>4. l <= k + 1 /\ l < k + 1
    BY <1>1, <1>3
  <2> QED BY <1>3, <2>1, <2>3, <2>4, Zenon DEF SiftInv
<1>7. CASE x \in c.set
  <2> DEFINE r2 == Append(r, x)
             f2 == [i \in 1 .. l + 1 |-> IF i \in 1 .. l THEN f[i] ELSE k + 1]
  <2>1. SiftStep(c, r, x) = r2
    BY <1>7, Zenon DEF SiftStep
  <2> HIDE DEF x
  <2>2. /\ r2 \in Seq(Range(c.seq)) /\ Len(r2) = l + 1 /\ r2[l + 1] = x
        /\ \A i \in 1 .. l : r2[i] = r[i]
    BY <1>2, <1>3
  <2>3. /\ \A i \in 1 .. l : f2[i] = f[i] /\ f[i] \in 1 .. k /\ i \in 1 .. l + 1
        /\ f2[l + 1] = k + 1 /\ l + 1 \in 1 .. l + 1 /\ l + 1 \notin 1 .. l
        /\ f2 \in [1 .. l + 1 -> 1 .. k + 1]
    <3>1. l + 1 \in 1 .. l + 1 /\ l + 1 \notin 1 .. l
      BY <1>3
    <3>2. \A i \in 1 .. l : f[i] \in 1 .. k /\ i \in 1 .. l + 1
      BY <1>3, <1>5
    <3>3. \A i \in 1 .. k : i \in 1 .. k + 1
      BY <1>1
    <3> QED BY <1>1, <3>1, <3>2, <3>3, Zenon
  <2>4. \A i \in 1 .. l + 1 : i \in 1 .. l \/ i = l + 1
    BY <1>3
  <2> HIDE DEF f2, r2
  <2>5. \A i \in 1 .. l + 1 : r2[i] = c.seq[f2[i]] /\ c.seq[f2[i]] \in c.set
    <3> SUFFICES ASSUME NEW i \in 1 .. l + 1 PROVE r2[i] = c.seq[f2[i]] /\ c.seq[f2[i]] \in c.set
      OBVIOUS
    <3>1. CASE i \in 1 .. l
      BY <1>5, <2>2, <2>3, <3>1, Zenon
    <3>2. CASE i = l + 1
      BY <1>7, <2>2, <2>3, <3>2, Zenon DEF x
    <3> QED BY <2>4, <3>1, <3>2
  <2>6. \A i, j \in 1 .. l + 1 : i < j => f2[i] < f2[j]
    <3> SUFFICES ASSUME NEW i \in 1 .. l + 1, NEW j \in 1 .. l + 1, i < j PROVE f2[i] < f2[j]
      OBVIOUS
    <3>1. i \in 1 .. l
      BY <1>3
    <3>2. CASE j \in 1 .. l
      BY <1>5, <2>3, <3>1, <3>2, Zenon
    <3>3. CASE j = l + 1
      <4>1. f2[i] \in 1 .. k /\ f2[j] = k + 1
        BY <2>3, <3>1, <3>3, Zenon
      <4> QED BY <1>1, <4>1
    <3> QED BY <2>4, <3>2, <3>3
  <2>7. \A m \in 1 .. k + 1 : c.seq[m] \in c.set => \E i \in 1 .. l + 1 : f2[i] = m
    <3> SUFFICES ASSUME NEW m \in 1 .. k + 1, c.seq[m] \in c.set PROVE \E i \in 1 .. l + 1 : f2[i] = m
      OBVIOUS
    <3>1. m \in 1 .. k \/ m = k + 1
      BY <1>1
    <3>2. CASE m \in 1 .. k
      BY <1>5, <2>3, <3>2, Zenon
    <3>3. CASE m = k + 1
      BY <2>3, <3>3, Zenon
    <3> QED BY <3>1, <3>2, <3>3
  <2>8. SiftedBy(c, k + 1, r2, f2)
    BY <2>2, <2>3, <2>5, <2>6, <2>7, Zenon DEF SiftedBy
  <2>9. l + 1 <= k + 1 /\ ((\E m \in 1 .. k + 1 : c.seq[m] \notin c.set) => l + 1 < k + 1)
    <3>1. l + 1 <= k + 1 /\ (l < k => l + 1 < k + 1)
      BY <1>1, <1>3
    <3>2. ASSUME NEW m \in 1 .. k + 1, c.seq[m] \notin c.set PROVE l < k
      <4>1. m \in 1 .. k \/ m = k + 1
        BY <1>1
      <4>2. m # k + 1
        BY <1>7, <3>2, Zenon DEF x
      <4> QED BY <1>3, <3>2, <4>1, <4>2, Zenon
    <3> QED BY <3>1, <3>2
  <2> QED BY <2>1, <2>2, <2>8, <2>9, Zenon DEF SiftInv, x
<1> QED BY <1>6, <1>7, Zenon

(* What Sift gives                                                         *)
LEMMA SiftOK ==
  ASSUME NEW T, NEW s \in Seq(T), NEW S
  PROVE  LET r == Sift(s, S)
         IN  /\ r \in Seq(T) /\ Len(r) <= Len(s)
             /\ (\E m \in DOMAIN s : s[m] \notin S) => Len(r) < Len(s)
             /\ \E f : SiftedBy([seq |-> s, set |-> S], Len(s), r, f)
<1> DEFINE c == [seq |-> s, set |-> S]
           n == Len(s)
<1>1. c.seq = s /\ c.set = S /\ n \in Nat /\ DOMAIN s = 1 .. n
  OBVIOUS
<1> HIDE DEF c, n
<1>2. SiftInv(c, 0, <<>>)
  <2>1. <<>> \in Seq(Range(c.seq)) /\ Len(<<>>) = 0 /\ 1 .. 0 = {} /\ 0 <= 0
    OBVIOUS
  <2>2. SiftedBy(c, 0, <<>>, [i \in {} |-> 0])
    <3>1. [i \in {} |-> 0] \in [{} -> {}]
      OBVIOUS
    <3> QED BY <2>1, <3>1, Zenon DEF SiftedBy
  <2> QED BY <2>1, <2>2, Zenon DEF SiftInv
<1>3. \A k \in 0 .. n - 1 : \A r : SiftInv(c, k, r) => SiftInv(c, k + 1, SiftStep(c, r, s[k + 1]))
  BY <1>1, SiftStepOK, Zenon
<1>4. SiftInv(c, n, SiftFold!Fold(c, <<>>, s))
  BY <1>1, <1>2, <1>3, SiftFold!FoldInvariant, Zenon
<1>5. Sift(s, S) = SiftFold!Fold(c, <<>>, s)
  <2>1. Sift(c.seq, c.set) = SiftFold!Fold(c, <<>>, c.seq)
    BY Zenon DEF Sift, SiftFold!Fold, SiftStep, SiftFold!FoldLeft, SiftFold!MapThenFoldSet,
                 FoldLeft, MapThenFoldSet, SiftFold!Max, Max
  <2> QED BY <1>1, <2>1, Zenon
<1>6. SiftInv(c, n, Sift(s, S))
  BY <1>4, <1>5, Zenon
<1>7. /\ Sift(s, S) \in Seq(Range(s)) /\ Len(Sift(s, S)) <= n
      /\ (\E m \in 1 .. n : s[m] \notin S) => Len(Sift(s, S)) < n
      /\ \E f : SiftedBy(c, n, Sift(s, S), f)
  BY <1>1, <1>6, Zenon DEF SiftInv
<1>8. Sift(s, S) \in Seq(T)
  <2>1. Range(s) \subseteq T
    BY DEF Range
  <2> QED BY <1>7, <2>1
<1> QED BY <1>1, <1>7, <1>8, Zenon DEF c, n

-----------------------------------------------------------------------------
(* What the proofs need of a hit of a cluster                              *)
HitPointsOK(H) ==
  /\ H \in Seq(Range(H)) /\ IsInjective(H)
  /\ \A k \in DOMAIN H : H[k].ch \in Int /\ H[k].start \in Int

(* A point: hits of one channel                                            *)
PointSet(H) ==
  {p \in [ch : Int, uids : Seq(DOMAIN H)] :
     p.uids # <<>> /\ IsInjective(p.uids) /\ \A u \in Range(p.uids) : H[u].ch = p.ch}

(* Points of a trajectory, in order of their channels                      *)
PointsOK(H, ps) ==
  ps \in Seq(PointSet(H)) /\ \A n, m \in DOMAIN ps : n < m => ps[n].ch < ps[m].ch

(* Trajectories with points of hits H                                      *)
TrjRec(H) == [points : Seq(PointSet(H)), pid : Int]

(* The hits trajectories have                                              *)
HeldBy(ts) == UNION {Uids(ts[n].points) : n \in DOMAIN ts}

(* Trajectories that have no hit in common                                 *)
TrjsOK(H, ts) ==
  /\ ts \in Seq(TrjRec(H))
  /\ \A n \in DOMAIN ts : PointsOK(H, ts[n].points)
  /\ \A n, m \in DOMAIN ts : n # m => Uids(ts[n].points) \cap Uids(ts[m].points) = {}

(* Every trajectory has a point.                                           *)
NoneEmpty(ts) == \A n \in DOMAIN ts : ts[n].points # <<>>

(* Points kept back during a walk: no hit is in two of them.               *)
KeptOK(H, ps) == ps \in Seq(PointSet(H)) /\ Apiece(ps)

(* Two sequences without an element in common, put together                *)
LEMMA ConcatInjective ==
  ASSUME NEW T, NEW a \in Seq(T), NEW b \in Seq(T)
  PROVE  /\ a \o b \in Seq(T) /\ Range(a \o b) = Range(a) \cup Range(b)
         /\ IsInjective(a) /\ IsInjective(b) /\ Range(a) \cap Range(b) = {} => IsInjective(a \o b)
<1> DEFINE c == a \o b
           la == Len(a)
           lb == Len(b)
<1>1. la \in Nat /\ lb \in Nat /\ DOMAIN a = 1 .. la /\ DOMAIN b = 1 .. lb
  OBVIOUS
<1>2. /\ c \in Seq(T) /\ Len(c) = la + lb
      /\ \A i \in 1 .. la + lb : c[i] = IF i <= la THEN a[i] ELSE b[i - la]
  BY ConcatProperties, Zenon
<1> HIDE DEF c, la, lb
<1>3. DOMAIN c = 1 .. la + lb
  BY <1>2
<1>4. \A i \in 1 .. la : i \in 1 .. la + lb /\ c[i] = a[i]
  BY <1>1, <1>2
<1>5. \A i \in 1 .. lb : la + i \in 1 .. la + lb /\ c[la + i] = b[i]
  <2> SUFFICES ASSUME NEW i \in 1 .. lb PROVE la + i \in 1 .. la + lb /\ c[la + i] = b[i]
    OBVIOUS
  <2>1. la + i \in 1 .. la + lb /\ ~(la + i <= la) /\ (la + i) - la = i
    BY <1>1
  <2> QED BY <1>2, <2>1, Zenon
<1>6. ASSUME NEW i \in 1 .. la + lb
      PROVE  \/ i \in 1 .. la /\ c[i] = a[i]
             \/ i - la \in 1 .. lb /\ c[i] = b[i - la] /\ ~(i <= la)
  BY <1>1, <1>2
<1>7. Range(c) = Range(a) \cup Range(b)
  <2>1. ASSUME NEW x \in Range(c) PROVE x \in Range(a) \cup Range(b)
    <3>1. PICK i \in 1 .. la + lb : x = c[i]
      BY <1>3, Zenon DEF Range
    <3> QED BY <1>1, <1>6, <3>1, Zenon DEF Range
  <2>2. ASSUME NEW x \in Range(a) PROVE x \in Range(c)
    BY <1>1, <1>3, <1>4, Zenon DEF Range
  <2>3. ASSUME NEW x \in Range(b) PROVE x \in Range(c)
    BY <1>1, <1>3, <1>5, Zenon DEF Range
  <2> QED BY <2>1, <2>2, <2>3, Zenon
<1>8. ASSUME IsInjective(a), IsInjective(b), Range(a) \cap Range(b) = {}
      PROVE  IsInjective(c)
  <2> SUFFICES ASSUME NEW i \in 1 .. la + lb, NEW j \in 1 .. la + lb, c[i] = c[j] PROVE i = j
    BY <1>3, Zenon DEF IsInjective
  <2>1. \A x \in DOMAIN a, y \in DOMAIN b : a[x] # b[y]
    BY <1>8, Zenon DEF Range
  <2>2. CASE i \in 1 .. la /\ c[i] = a[i]
    <3>1. CASE j \in 1 .. la /\ c[j] = a[j]
      BY <1>1, <1>8, <2>2, <3>1, Zenon DEF IsInjective
    <3>2. CASE j - la \in 1 .. lb /\ c[j] = b[j - la]
      BY <1>1, <2>1, <2>2, <3>2, Zenon
    <3> QED BY <1>6, <3>1, <3>2, Zenon
  <2>3. CASE i - la \in 1 .. lb /\ c[i] = b[i - la]
    <3>1. CASE j \in 1 .. la /\ c[j] = a[j]
      BY <1>1, <2>1, <2>3, <3>1, Zenon
    <3>2. CASE j - la \in 1 .. lb /\ c[j] = b[j - la]
      <4>1. i - la = j - la
        BY <1>1, <1>8, <2>3, <3>2, Zenon DEF IsInjective
      <4> QED BY <1>1, <4>1
    <3> QED BY <1>6, <3>1, <3>2, Zenon
  <2> QED BY <1>6, <2>2, <2>3, Zenon
<1> QED BY <1>2, <1>7, <1>8, Zenon DEF c

(* c has the hits of points a and b of its channel.                        *)
PointsMerged(H, a, b, c) ==
  c \in PointSet(H) /\ c.ch = a.ch /\ Range(c.uids) = Range(a.uids) \cup Range(b.uids)

(* Two points of a channel made one                                        *)
LEMMA MergePoint ==
  ASSUME NEW H, NEW a \in PointSet(H), NEW b \in PointSet(H), a.ch = b.ch,
         Range(a.uids) \cap Range(b.uids) = {}
  PROVE  PointsMerged(H, a, b, [a EXCEPT !.uids = @ \o b.uids])
<1> DEFINE c == [a EXCEPT !.uids = @ \o b.uids]
           u == a.uids
           v == b.uids
<1>1. /\ a \in [ch : Int, uids : Seq(DOMAIN H)] /\ u # <<>> /\ IsInjective(u)
      /\ b \in [ch : Int, uids : Seq(DOMAIN H)] /\ v # <<>> /\ IsInjective(v)
      /\ \A x \in Range(u) : H[x].ch = a.ch
      /\ \A x \in Range(v) : H[x].ch = b.ch
  BY DEF PointSet
<1>2. u \in Seq(DOMAIN H) /\ v \in Seq(DOMAIN H) /\ a.ch \in Int
  BY <1>1, Zenon
<1>3. c = [ch |-> a.ch, uids |-> u \o v]
  <2> DEFINE w == u \o v
  <2>1. a \in [ch : Int, uids : Seq(DOMAIN H)] /\ c = [a EXCEPT !.uids = w]
    BY <1>1, Zenon
  <2> HIDE DEF w, c
  <2>2. c = [ch |-> a.ch, uids |-> w]
    BY <2>1
  <2> QED BY <2>2, Zenon DEF w
<1>4. c.ch = a.ch /\ c.uids = u \o v
  BY <1>3
<1> HIDE DEF u, v, c
<1>5. u \o v \in Seq(DOMAIN H) /\ IsInjective(u \o v) /\ Range(u \o v) = Range(u) \cup Range(v)
  <2>1. Range(u) \cap Range(v) = {} /\ IsInjective(u) /\ IsInjective(v)
    BY <1>1, Zenon DEF u, v
  <2> QED BY <1>2, <2>1, ConcatInjective
<1>6. u \o v # <<>>
  <2>1. Len(u \o v) = Len(u) + Len(v) /\ Len(u) \in Nat /\ Len(v) \in Nat /\ Len(u) # 0
    BY <1>1, <1>2, EmptySeq
  <2> QED BY <1>5, <2>1
<1>7. c \in [ch : Int, uids : Seq(DOMAIN H)]
  BY <1>2, <1>3, <1>5
<1>8. \A x \in Range(u \o v) : H[x].ch = a.ch
  BY <1>1, <1>5, Zenon
<1>9. c \in PointSet(H)
  BY <1>4, <1>5, <1>6, <1>7, <1>8, Zenon DEF PointSet
<1> QED BY <1>4, <1>5, <1>9, Zenon DEF c, u, v, PointsMerged

(* t is s with e inserted at p.                                            *)
InsertedAt(T, s, p, e, t) ==
  /\ t \in Seq(T) /\ Len(t) = Len(s) + 1
  /\ \A i \in 1 .. Len(s) + 1 :
       t[i] = IF i < p THEN s[i] ELSE IF i = p THEN e ELSE s[i - 1]

(* InsertAt does that.                                                     *)
LEMMA InsertAtForm ==
  ASSUME NEW T, NEW s \in Seq(T), NEW e \in T, NEW p \in 1 .. Len(s) + 1
  PROVE  InsertedAt(T, s, p, e, InsertAt(s, p, e))
<1> DEFINE t == InsertAt(s, p, e)
           n == Len(s)
           a == SubSeq(s, 1, p - 1)
           b == SubSeq(s, p, n)
           c == a \o <<e>>
<1>1. n \in Nat /\ DOMAIN s = 1 .. n /\ p \in Nat /\ p >= 1 /\ p <= n + 1 /\ <<e>> \in Seq(T)
  OBVIOUS
<1>2. t = c \o b
  BY Zenon DEF InsertAt
<1> HIDE DEF t
<1>3. /\ a \in Seq(T) /\ Len(a) = p - 1
      /\ \A i \in 1 .. p - 1 : a[i] = s[i]
      /\ b \in Seq(T) /\ Len(b) = n - p + 1
      /\ \A i \in 1 .. n - p + 1 : b[i] = s[p + i - 1]
  BY <1>1
<1> HIDE DEF a, b
<1>4. c \in Seq(T) /\ Len(c) = p /\ \A i \in 1 .. p : c[i] = IF i < p THEN a[i] ELSE e
  BY <1>1, <1>3
<1> HIDE DEF c
<1>5. t \in Seq(T) /\ Len(t) = Len(c) + Len(b)
      /\ \A i \in 1 .. Len(c) + Len(b) : t[i] = IF i <= Len(c) THEN c[i] ELSE b[i - Len(c)]
  BY <1>2, <1>3, <1>4, ConcatProperties, Zenon
<1>6. Len(c) = p /\ Len(c) + Len(b) = n + 1
  BY <1>1, <1>3, <1>4
<1>7. \A i \in 1 .. n + 1 : t[i] = IF i <= p THEN c[i] ELSE b[i - p]
  BY <1>5, <1>6
<1>8. ASSUME NEW i \in 1 .. n + 1
      PROVE  t[i] = IF i < p THEN s[i] ELSE IF i = p THEN e ELSE s[i - 1]
  <2>1. CASE i < p
    <3>1. i \in 1 .. p /\ i \in 1 .. p - 1 /\ i <= p
      BY <1>1, <2>1
    <3> QED BY <1>3, <1>4, <1>7, <2>1, <3>1, Zenon
  <2>2. CASE i = p
    <3>1. i \in 1 .. p /\ i <= p /\ ~(i < p)
      BY <1>1, <2>2
    <3> QED BY <1>4, <1>7, <2>2, <3>1, Zenon
  <2>3. CASE i > p
    <3>1. i - p \in 1 .. n - p + 1 /\ p + (i - p) - 1 = i - 1 /\ ~(i <= p) /\ ~(i < p) /\ i # p
      BY <1>1, <2>3
    <3> QED BY <1>3, <1>7, <3>1, Zenon
  <2> QED BY <1>1, <2>1, <2>2, <2>3
<1>9. Len(t) = n + 1
  BY <1>5, <1>6, Zenon
<1> QED BY <1>5, <1>8, <1>9, Zenon DEF t, n, InsertedAt

(* A point belongs behind those on earlier channels.                       *)
LEMMA PlaceOfOK ==
  ASSUME NEW H, NEW ps \in Seq(PointSet(H)), NEW ch \in Int
  PROVE  LET k == PlaceOf(ps, ch)
         IN  /\ k \in 1 .. Len(ps) + 1
             /\ \A j \in DOMAIN ps : j < k => ps[j].ch < ch
             /\ k \in DOMAIN ps => ps[k].ch >= ch
<1> DEFINE n == Len(ps)
           K == {j \in DOMAIN ps : ps[j].ch >= ch}
           k == PlaceOf(ps, ch)
<1>1. n \in Nat /\ DOMAIN ps = 1 .. n /\ \A j \in 1 .. n : ps[j] \in PointSet(H)
  OBVIOUS
<1>2. \A j \in 1 .. n : ps[j].ch \in Int
  BY <1>1 DEF PointSet
<1>3. k = Min(K \cup {n + 1})
  BY Zenon DEF PlaceOf
<1> HIDE DEF n, k
<1>4. K \cup {n + 1} \subseteq Nat /\ n + 1 \in K \cup {n + 1}
  BY <1>1
<1>5. k \in K \cup {n + 1} /\ \A m \in K \cup {n + 1} : k <= m
  <2> HIDE DEF K
  <2>1. K \cup {n + 1} # {}
    BY <1>4, Zenon
  <2> QED BY <1>3, <1>4, <2>1, MinIsLeast, Zenon
<1>6. k \in 1 .. n + 1
  BY <1>1, <1>5
<1>7. \A j \in DOMAIN ps : j < k => ps[j].ch < ch
  <2> SUFFICES ASSUME NEW j \in 1 .. n, j < k PROVE ps[j].ch < ch
    BY <1>1, Zenon
  <2>1. j \notin K
    BY <1>5, <1>6
  <2> QED BY <1>1, <1>2, <2>1
<1>8. k \in DOMAIN ps => ps[k].ch >= ch
  BY <1>1, <1>5
<1> QED BY <1>6, <1>7, <1>8, Zenon DEF k, n

(* Hits of points are those of each of them.                               *)
LEMMA UidsOf ==
  ASSUME NEW ps, NEW u
  PROVE  u \in Uids(ps) <=> \E n \in DOMAIN ps : u \in Range(ps[n].uids)
BY Zenon DEF Uids

(* Points in order of their channels share no hit.                         *)
LEMMA PointsApart ==
  ASSUME NEW H, NEW ps, PointsOK(H, ps)
  PROVE  Apiece(ps)
<1>1. \A n \in DOMAIN ps : ps[n] \in PointSet(H)
  BY DEF PointsOK
<1>2. \A n \in DOMAIN ps : /\ ps[n].ch \in Int /\ IsInjective(ps[n].uids)
                           /\ \A u \in Range(ps[n].uids) : H[u].ch = ps[n].ch
  BY <1>1 DEF PointSet
<1>3. ASSUME NEW n \in DOMAIN ps, NEW m \in DOMAIN ps, n # m
      PROVE  Range(ps[n].uids) \cap Range(ps[m].uids) = {}
  <2>1. ps[n].ch # ps[m].ch
    <3>1. n \in Nat /\ m \in Nat
      BY DEF PointsOK
    <3>2. n < m \/ m < n
      BY <1>3, <3>1
    <3>3. ps[n].ch < ps[m].ch \/ ps[m].ch < ps[n].ch
      BY <3>2, Zenon DEF PointsOK
    <3> QED BY <1>2, <3>3
  <2> QED BY <1>2, <2>1, Zenon
<1> QED BY <1>2, <1>3, Zenon DEF Apiece

(* A point added to a trajectory, whose hits are not in it                 *)
LEMMA AddPointOK ==
  ASSUME NEW H, NEW ps, PointsOK(H, ps), NEW p \in PointSet(H), Range(p.uids) \cap Uids(ps) = {}
  PROVE  /\ PointsOK(H, AddPoint(ps, p)) /\ Uids(AddPoint(ps, p)) = Uids(ps) \cup Range(p.uids)
         /\ AddPoint(ps, p) # <<>>
<1> DEFINE q == AddPoint(ps, p)
           n == Len(ps)
           k == PlaceOf(ps, p.ch)
<1>1. ps \in Seq(PointSet(H)) /\ \A i, j \in DOMAIN ps : i < j => ps[i].ch < ps[j].ch
  BY Zenon DEF PointsOK
<1>2. n \in Nat /\ DOMAIN ps = 1 .. n /\ \A j \in 1 .. n : ps[j] \in PointSet(H)
  BY <1>1
<1>3. p.ch \in Int /\ \A j \in 1 .. n : ps[j].ch \in Int
  BY <1>2 DEF PointSet
<1> HIDE DEF n
<1>4. /\ k \in 1 .. n + 1
      /\ \A j \in DOMAIN ps : j < k => ps[j].ch < p.ch
      /\ k \in DOMAIN ps => ps[k].ch >= p.ch
  BY <1>1, <1>3, PlaceOfOK, Zenon DEF n
<1>5. q = IF k \in DOMAIN ps /\ ps[k].ch = p.ch
            THEN [ps EXCEPT ![k].uids = @ \o p.uids]
            ELSE InsertAt(ps, k, p)
  BY Zenon DEF AddPoint
<1> HIDE DEF k, q
<1>6. CASE k \in DOMAIN ps /\ ps[k].ch = p.ch
  <2> DEFINE r == [ps[k] EXCEPT !.uids = @ \o p.uids]
  <2>1. q = [ps EXCEPT ![k] = r]
    <3>1. q = [ps EXCEPT ![k].uids = @ \o p.uids]
      BY <1>5, <1>6, Zenon
    <3> QED BY <3>1
  <2>2. Range(ps[k].uids) \cap Range(p.uids) = {}
    BY <1>6, Zenon DEF Uids
  <2>3. r \in PointSet(H) /\ r.ch = ps[k].ch /\ Range(r.uids) = Range(ps[k].uids) \cup Range(p.uids)
    <3>1. ps[k] \in PointSet(H) /\ ps[k].ch = p.ch
      BY <1>2, <1>6, Zenon
    <3>2. PointsMerged(H, ps[k], p, r)
      BY <2>2, <3>1, MergePoint, Zenon
    <3> HIDE DEF r
    <3> QED BY <3>2, Zenon DEF PointsMerged
  <2> HIDE DEF r
  <2>4. /\ q \in Seq(PointSet(H)) /\ DOMAIN q = 1 .. n /\ Len(q) = n
        /\ \A j \in 1 .. n : q[j] = IF j = k THEN r ELSE ps[j]
    <3>1. q \in Seq(PointSet(H)) /\ Len(q) = Len(ps) /\ DOMAIN q = DOMAIN ps
      <4>1. k \in 1 .. Len(ps) /\ r \in PointSet(H)
        BY <1>2, <1>6, <2>3, Zenon DEF n
      <4>2. DOMAIN q = DOMAIN ps
        BY <2>1, Zenon
      <4> QED BY <1>1, <2>1, <4>1, <4>2, ExceptSeq
    <3>2. \A j \in DOMAIN ps : q[j] = IF j = k THEN r ELSE ps[j]
      BY <2>1, Zenon
    <3> QED BY <1>2, <3>1, <3>2, Zenon DEF n
  <2>5. \A j \in 1 .. n : q[j].ch = ps[j].ch
    BY <2>3, <2>4
  <2>6. PointsOK(H, q)
    <3>1. \A i, j \in DOMAIN q : i < j => q[i].ch < q[j].ch
      <4> SUFFICES ASSUME NEW i \in 1 .. n, NEW j \in 1 .. n, i < j PROVE q[i].ch < q[j].ch
        BY <2>4, Zenon
      <4>1. ps[i].ch < ps[j].ch
        BY <1>1, <1>2, Zenon
      <4>2. q[i].ch = ps[i].ch /\ q[j].ch = ps[j].ch
        BY <2>5, Zenon
      <4> QED BY <4>1, <4>2, Zenon
    <3> QED BY <2>4, <3>1, Zenon DEF PointsOK
  <2>7. Uids(q) = Uids(ps) \cup Range(p.uids)
    <3>1. ASSUME NEW u \in Uids(q) PROVE u \in Uids(ps) \cup Range(p.uids)
      <4>1. PICK j \in 1 .. n : u \in Range(q[j].uids)
        BY <2>4, UidsOf, Zenon
      <4>2. CASE j = k
        BY <1>2, <1>6, <2>3, <2>4, <4>1, <4>2, UidsOf, Zenon
      <4>3. CASE j # k
        BY <1>2, <2>4, <4>1, <4>3, UidsOf, Zenon
      <4> QED BY <4>2, <4>3
    <3>2. ASSUME NEW u \in Uids(ps) PROVE u \in Uids(q)
      <4>1. PICK j \in 1 .. n : u \in Range(ps[j].uids)
        BY <1>2, UidsOf, Zenon
      <4>2. u \in Range(q[j].uids)
        BY <2>3, <2>4, <4>1, Zenon
      <4> QED BY <2>4, <4>2, UidsOf, Zenon
    <3>3. ASSUME NEW u \in Range(p.uids) PROVE u \in Uids(q)
      <4>1. u \in Range(q[k].uids)
        BY <1>2, <1>6, <2>3, <2>4, <3>3, Zenon
      <4> QED BY <1>2, <1>6, <2>4, <4>1, UidsOf, Zenon
    <3> QED BY <3>1, <3>2, <3>3, Zenon
  <2>8. q # <<>>
    <3>1. n # 0
      BY <1>2, <1>6
    <3> QED BY <2>4, <3>1, LenProperties
  <2> QED BY <2>6, <2>7, <2>8, Zenon DEF q
<1>7. CASE ~(k \in DOMAIN ps /\ ps[k].ch = p.ch)
  <2>1. /\ q \in Seq(PointSet(H)) /\ Len(q) = n + 1
        /\ \A i \in 1 .. n + 1 : q[i] = IF i < k THEN ps[i] ELSE IF i = k THEN p ELSE ps[i - 1]
    <3>1. q = InsertAt(ps, k, p)
      BY <1>5, <1>7, Zenon
    <3>2. k \in 1 .. Len(ps) + 1
      BY <1>4, Zenon DEF n
    <3>3. InsertedAt(PointSet(H), ps, k, p, q)
      BY <1>1, <3>1, <3>2, InsertAtForm, Zenon
    <3> QED BY <3>3, Zenon DEF n, InsertedAt
  <2>2. DOMAIN q = 1 .. n + 1
    BY <1>2, <2>1
  <2>3. \A j \in 1 .. n : j >= k => ps[j].ch > p.ch
    <3> SUFFICES ASSUME NEW j \in 1 .. n, j >= k PROVE ps[j].ch > p.ch
      OBVIOUS
    <3>1. k \in DOMAIN ps
      BY <1>2, <1>4
    <3>2. ps[k].ch > p.ch
      <4>1. ps[k].ch >= p.ch /\ ps[k].ch # p.ch
        BY <1>4, <1>7, <3>1, Zenon
      <4>2. ps[k].ch \in Int
        BY <1>2, <1>3, <3>1, Zenon
      <4> QED BY <1>3, <4>1, <4>2
    <3>3. j = k \/ ps[k].ch < ps[j].ch
      <4>1. j = k \/ k < j
        BY <1>4
      <4> QED BY <1>1, <1>2, <3>1, <4>1, Zenon
    <3>4. ps[k].ch \in Int /\ ps[j].ch \in Int
      BY <1>2, <1>3, <3>1, Zenon
    <3> QED BY <1>3, <3>2, <3>3, <3>4
  <2>4. ASSUME NEW i \in 1 .. n + 1
        PROVE  \/ i < k /\ i \in 1 .. n /\ q[i] = ps[i] /\ q[i].ch < p.ch
               \/ i = k /\ q[i] = p
               \/ i > k /\ i - 1 \in 1 .. n /\ q[i] = ps[i - 1] /\ q[i].ch > p.ch
    <3>1. CASE i < k
      <4>1. i \in 1 .. n /\ q[i] = ps[i]
        BY <1>2, <1>4, <2>1, <3>1
      <4> QED BY <1>2, <1>4, <3>1, <4>1, Zenon
    <3>2. CASE i = k
      <4>1. ~(i < k)
        BY <1>4, <3>2
      <4> QED BY <2>1, <3>2, <4>1, Zenon
    <3>3. CASE i > k
      <4>1. ~(i < k) /\ i # k /\ i - 1 \in 1 .. n /\ i - 1 >= k
        BY <1>2, <1>4, <3>3
      <4> QED BY <2>1, <2>3, <3>3, <4>1, Zenon
    <3> QED BY <1>4, <3>1, <3>2, <3>3
  <2>5. PointsOK(H, q)
    <3>1. \A i, j \in DOMAIN q : i < j => q[i].ch < q[j].ch
      <4> SUFFICES ASSUME NEW i \in 1 .. n + 1, NEW j \in 1 .. n + 1, i < j PROVE q[i].ch < q[j].ch
        BY <2>2, Zenon
      <4>0. q[i].ch \in Int /\ q[j].ch \in Int
        <5>1. q[i] \in PointSet(H) /\ q[j] \in PointSet(H)
          BY <2>1, <2>2
        <5> QED BY <5>1 DEF PointSet
      <4>1. CASE i < k /\ j < k
        <5>1. i \in 1 .. n /\ j \in 1 .. n /\ q[i] = ps[i] /\ q[j] = ps[j]
          BY <1>4, <2>4, <4>1
        <5> QED BY <1>1, <1>2, <5>1, Zenon
      <4>2. CASE i > k /\ j > k
        <5>1. i - 1 \in 1 .. n /\ j - 1 \in 1 .. n /\ q[i] = ps[i - 1] /\ q[j] = ps[j - 1] /\ i - 1 < j - 1
          BY <1>2, <1>4, <2>4, <4>2
        <5> QED BY <1>1, <1>2, <5>1, Zenon
      <4>3. CASE i <= k /\ j >= k
        <5>3. ~(i > k) /\ ~(j < k)
          BY <1>4, <4>3
        <5>1. (i < k /\ q[i].ch < p.ch) \/ (i = k /\ q[i].ch = p.ch)
          BY <2>4, <5>3, Zenon
        <5>2. (j > k /\ q[j].ch > p.ch) \/ (j = k /\ q[j].ch = p.ch)
          BY <2>4, <5>3, Zenon
        <5> QED BY <1>3, <1>4, <4>0, <5>1, <5>2
      <4> QED BY <1>4, <4>1, <4>2, <4>3
    <3> QED BY <2>1, <3>1, Zenon DEF PointsOK
  <2>6. Uids(q) = Uids(ps) \cup Range(p.uids)
    <3>1. ASSUME NEW u \in Uids(q) PROVE u \in Uids(ps) \cup Range(p.uids)
      <4>1. PICK j \in 1 .. n + 1 : u \in Range(q[j].uids)
        BY <2>2, UidsOf, Zenon
      <4> QED BY <1>2, <2>4, <4>1, UidsOf, Zenon
    <3>2. ASSUME NEW u \in Uids(ps) PROVE u \in Uids(q)
      <4>1. PICK j \in 1 .. n : u \in Range(ps[j].uids)
        BY <1>2, UidsOf, Zenon
      <4>2. CASE j < k
        <5>1. j \in 1 .. n + 1 /\ q[j] = ps[j]
          BY <1>2, <1>4, <2>1, <4>2
        <5> QED BY <2>2, <4>1, <5>1, UidsOf, Zenon
      <4>3. CASE ~(j < k)
        <5>1. PICK m \in 1 .. n + 1 : ~(m < k) /\ m # k /\ m - 1 = j
          <6>1. k \in 1 .. n + 1
            BY <1>4, Zenon
          <6>2. j + 1 \in 1 .. n + 1 /\ ~(j + 1 < k) /\ j + 1 # k /\ (j + 1) - 1 = j
            BY <1>2, <4>3, <6>1
          <6> QED BY <6>2, Zenon
        <5>2. q[m] = ps[j]
          BY <2>1, <5>1, Zenon
        <5> QED BY <2>2, <4>1, <5>2, UidsOf, Zenon
      <4> QED BY <4>2, <4>3
    <3>3. ASSUME NEW u \in Range(p.uids) PROVE u \in Uids(q)
      <4>1. q[k] = p
        BY <1>4, <2>4
      <4> QED BY <1>4, <2>2, <3>3, <4>1, UidsOf, Zenon
    <3> QED BY <3>1, <3>2, <3>3, Zenon
  <2>7. q # <<>>
    <3>1. n + 1 # 0
      BY <1>2
    <3> QED BY <2>1, <3>1, LenProperties
  <2> QED BY <2>5, <2>6, <2>7, Zenon DEF q
<1> QED BY <1>6, <1>7

(* One of the points of c.seq added                                        *)
AddStep(c, acc, p) == AddPoint(acc, p)

(* The first k of them are added to c.base.                                *)
AddInv(c, k, acc) ==
  /\ PointsOK(c.hits, acc)
  /\ \A u : u \in Uids(acc) <=> u \in Uids(c.base) \/ \E i \in 1 .. k : u \in Range(c.seq[i].uids)
  /\ c.base # <<>> \/ k # 0 => acc # <<>>

(* Adding points, as a fold over c.seq                                     *)
AddFold == INSTANCE FoldTheorems WITH Step <- AddStep, Inv <- AddInv

(* All points of q added to ps *)
AddAll(ps, q) == FoldLeft(AddPoint, ps, q)

(* Points added to a trajectory: it has its hits and theirs.               *)
LEMMA AddAllOK ==
  ASSUME NEW H, NEW ps, PointsOK(H, ps), NEW q, KeptOK(H, q), Uids(q) \cap Uids(ps) = {}
  PROVE  /\ PointsOK(H, AddAll(ps, q))
         /\ Uids(AddAll(ps, q)) = Uids(ps) \cup Uids(q)
         /\ ps # <<>> => AddAll(ps, q) # <<>>
<1> DEFINE c == [hits |-> H, base |-> ps, seq |-> q]
           n == Len(q)
           r == AddAll(ps, q)
<1>1. c.hits = H /\ c.base = ps /\ c.seq = q
  OBVIOUS
<1> HIDE DEF c
<1>2. n \in Nat /\ DOMAIN q = 1 .. n /\ \A i \in 1 .. n : q[i] \in PointSet(H)
  BY DEF KeptOK
<1>3. \A i, j \in 1 .. n : i # j => Range(q[i].uids) \cap Range(q[j].uids) = {}
  BY <1>2, Zenon DEF KeptOK, Apiece
<1>4. \A i \in 1 .. n : Range(q[i].uids) \cap Uids(ps) = {}
  BY <1>2, Zenon DEF Uids
<1> HIDE DEF n, r
<1>5. AddInv(c, 0, ps)
  <2>1. 1 .. 0 = {}
    OBVIOUS
  <2> QED BY <1>1, <2>1, Zenon DEF AddInv
<1>6. ASSUME NEW k \in 0 .. n - 1, NEW acc, AddInv(c, k, acc)
      PROVE  AddInv(c, k + 1, AddStep(c, acc, q[k + 1]))
  <2>1. k + 1 \in 1 .. n /\ k + 1 # 0 /\ \A i \in 1 .. k : i \in 1 .. n /\ i # k + 1
    BY <1>2
  <2>2. \A i : i \in 1 .. k + 1 <=> i \in 1 .. k \/ i = k + 1
    BY <1>2
  <2>3. /\ PointsOK(H, acc)
        /\ \A u : u \in Uids(acc) <=> u \in Uids(ps) \/ \E i \in 1 .. k : u \in Range(q[i].uids)
    BY <1>1, <1>6, Zenon DEF AddInv
  <2>4. Range(q[k + 1].uids) \cap Uids(acc) = {}
    <3> SUFFICES ASSUME NEW u \in Range(q[k + 1].uids), u \in Uids(acc) PROVE FALSE
      BY Zenon
    <3>1. u \in Uids(ps) \/ \E i \in 1 .. k : u \in Range(q[i].uids)
      BY <2>3, Zenon
    <3>2. u \notin Uids(ps)
      BY <1>4, <2>1, Zenon
    <3> QED BY <1>3, <2>1, <3>1, <3>2, Zenon
  <2> DEFINE p == q[k + 1]
             new == AddPoint(acc, p)
  <2>5. p \in PointSet(H)
    BY <1>2, <2>1, Zenon
  <2>6. PointsOK(H, new) /\ Uids(new) = Uids(acc) \cup Range(p.uids) /\ new # <<>>
    BY <2>3, <2>4, <2>5, AddPointOK, Zenon
  <2>7. AddStep(c, acc, p) = new
    BY Zenon DEF AddStep
  <2> HIDE DEF new
  <2>8. \A u : u \in Uids(new) <=> u \in Uids(ps) \/ \E i \in 1 .. k + 1 : u \in Range(q[i].uids)
    BY <2>2, <2>3, <2>6, Zenon
  <2> QED BY <1>1, <2>6, <2>7, <2>8, Zenon DEF AddInv
<1>7. AddInv(c, n, AddFold!Fold(c, ps, q))
  BY <1>2, <1>5, <1>6, AddFold!FoldInvariant, Zenon
<1>8. r = AddFold!Fold(c, ps, q)
  BY Zenon DEF r, AddAll, AddFold!Fold, AddStep, AddFold!FoldLeft, AddFold!MapThenFoldSet,
               FoldLeft, MapThenFoldSet, AddFold!Max, Max
<1>9. AddInv(c, n, r)
  BY <1>7, <1>8, Zenon
<1>10. Uids(r) = Uids(ps) \cup Uids(q)
  <2>1. \A u : u \in Uids(q) <=> \E i \in 1 .. n : u \in Range(q[i].uids)
    BY <1>2, UidsOf, Zenon
  <2>2. \A u : u \in Uids(r) <=> u \in Uids(ps) \/ \E i \in 1 .. n : u \in Range(q[i].uids)
    BY <1>1, <1>9, Zenon DEF AddInv
  <2> QED BY <2>1, <2>2, Zenon
<1>11. ps # <<>> => r # <<>>
  BY <1>1, <1>9, Zenon DEF AddInv
<1> QED BY <1>1, <1>9, <1>10, <1>11, Zenon DEF AddInv, r

(* A hit alone is a point.                                                 *)
LEMMA OnePoint ==
  ASSUME NEW H, HitPointsOK(H), NEW k \in DOMAIN H
  PROVE  /\ [ch |-> H[k].ch, uids |-> <<k>>] \in PointSet(H)
         /\ Range([ch |-> H[k].ch, uids |-> <<k>>].uids) = {k}
<1> DEFINE p == [ch |-> H[k].ch, uids |-> <<k>>]
           d == DOMAIN H
<1>1. p.ch = H[k].ch /\ p.uids = <<k>> /\ H[k].ch \in Int
  BY DEF HitPointsOK
<1>5. k \in d
  OBVIOUS
<1> HIDE DEF d
<1>2. <<k>> \in Seq(d) /\ DOMAIN <<k>> = {1} /\ <<k>>[1] = k /\ <<k>> # <<>>
  BY <1>5
<1>3. Range(<<k>>) = {k} /\ IsInjective(<<k>>)
  BY <1>2, Zenon DEF Range, IsInjective
<1>4. p \in [ch : Int, uids : Seq(d)]
  BY <1>1, <1>2
<1> HIDE DEF p
<1>6. p \in PointSet(H)
  <2>1. \A u \in Range(p.uids) : H[u].ch = p.ch
    BY <1>1, <1>3, Zenon
  <2> QED BY <1>1, <1>2, <1>3, <1>4, <2>1, Zenon DEF PointSet, d
<1>7. Range(p.uids) = {k}
  BY <1>1, <1>3, Zenon
<1> QED BY <1>6, <1>7, Zenon DEF p

(* A walk that keeps nothing back                                          *)
LEMMA NoneKept == ASSUME NEW H PROVE KeptOK(H, <<>>) /\ Uids(<<>>) = {} /\ PointsOK(H, <<>>)
<1>1. <<>> \in Seq(PointSet(H)) /\ DOMAIN (<<>>) = {}
  OBVIOUS
<1> QED BY <1>1, Zenon DEF KeptOK, Apiece, Uids, PointsOK

(* The trajectories of new are some of those of ts, each from place f.     *)
TrjsFrom(H, ts, new, f) ==
  /\ new \in Seq(TrjRec(H)) /\ f \in [DOMAIN new -> DOMAIN ts] /\ IsInjective(f)
  /\ \A n \in DOMAIN new : new[n].points = ts[f[n]].points

(* A hit that is held is in a point of some trajectory.                    *)
LEMMA HeldByIs ==
  ASSUME NEW ts, NEW u
  PROVE  u \in HeldBy(ts) <=> \E n \in DOMAIN ts : u \in Uids(ts[n].points)
BY Zenon DEF HeldBy

(* Trajectories picked from others, in any order, share no hit either.     *)
LEMMA TrjsRearranged ==
  ASSUME NEW H, NEW ts, TrjsOK(H, ts), NEW new, NEW f, TrjsFrom(H, ts, new, f)
  PROVE  /\ TrjsOK(H, new) /\ HeldBy(new) \subseteq HeldBy(ts)
         /\ NoneEmpty(ts) => NoneEmpty(new)
         /\ (\A n \in DOMAIN ts : ts[n].points # <<>> => \E m \in DOMAIN new : f[m] = n)
              => HeldBy(new) = HeldBy(ts)
<1>1. /\ new \in Seq(TrjRec(H)) /\ \A n \in DOMAIN new : f[n] \in DOMAIN ts /\ new[n].points = ts[f[n]].points
      /\ \A n, m \in DOMAIN new : f[n] = f[m] => n = m
  BY Zenon DEF TrjsFrom, IsInjective
<1>2. /\ \A n \in DOMAIN ts : PointsOK(H, ts[n].points)
      /\ \A n, m \in DOMAIN ts : n # m => Uids(ts[n].points) \cap Uids(ts[m].points) = {}
  BY Zenon DEF TrjsOK
<1>3. \A n \in DOMAIN new : PointsOK(H, new[n].points)
  BY <1>1, <1>2, Zenon
<1>4. ASSUME NEW n \in DOMAIN new, NEW m \in DOMAIN new, n # m
      PROVE  Uids(new[n].points) \cap Uids(new[m].points) = {}
  <2>1. f[n] # f[m] /\ f[n] \in DOMAIN ts /\ f[m] \in DOMAIN ts
    BY <1>1, <1>4, Zenon
  <2>2. Uids(ts[f[n]].points) \cap Uids(ts[f[m]].points) = {}
    BY <1>2, <2>1, Zenon
  <2> QED BY <1>1, <2>2, Zenon
<1>5. TrjsOK(H, new)
  BY <1>1, <1>3, <1>4, Zenon DEF TrjsOK
<1>6. ASSUME NEW u \in HeldBy(new) PROVE u \in HeldBy(ts)
  <2>1. PICK n \in DOMAIN new : u \in Uids(new[n].points)
    BY HeldByIs, Zenon
  <2> QED BY <1>1, <2>1, HeldByIs, Zenon
<1>7. NoneEmpty(ts) => NoneEmpty(new)
  BY <1>1, Zenon DEF NoneEmpty
<1>8. ASSUME \A n \in DOMAIN ts : ts[n].points # <<>> => \E m \in DOMAIN new : f[m] = n,
             NEW u \in HeldBy(ts)
      PROVE  u \in HeldBy(new)
  <2>1. PICK n \in DOMAIN ts : u \in Uids(ts[n].points)
    BY HeldByIs, Zenon
  <2>2. ts[n].points # <<>>
    BY <2>1, NoneKept, Zenon
  <2>3. PICK m \in DOMAIN new : f[m] = n
    BY <1>8, <2>2, Zenon
  <2> QED BY <1>1, <2>1, <2>3, HeldByIs, Zenon
<1>9. (\A n \in DOMAIN ts : ts[n].points # <<>> => \E m \in DOMAIN new : f[m] = n)
              => HeldBy(new) = HeldBy(ts)
  BY <1>6, <1>8, Zenon
<1> QED BY <1>5, <1>6, <1>7, <1>9, Zenon

(* One more trajectory                                                     *)
LEMMA TrjAppended ==
  ASSUME NEW H, NEW ts, TrjsOK(H, ts), NEW t \in TrjRec(H), PointsOK(H, t.points),
         Uids(t.points) \cap HeldBy(ts) = {}
  PROVE  /\ TrjsOK(H, Append(ts, t)) /\ HeldBy(Append(ts, t)) = HeldBy(ts) \cup Uids(t.points)
         /\ NoneEmpty(ts) /\ t.points # <<>> => NoneEmpty(Append(ts, t))
<1> DEFINE new == Append(ts, t)
           l == Len(ts)
<1>1. ts \in Seq(TrjRec(H))
  BY DEF TrjsOK
<1>2. /\ new \in Seq(TrjRec(H)) /\ l \in Nat /\ DOMAIN ts = 1 .. l /\ DOMAIN new = 1 .. l + 1
      /\ new[l + 1] = t /\ \A n \in 1 .. l : new[n] = ts[n]
  BY <1>1
<1>3. l + 1 \in 1 .. l + 1 /\ \A n \in 1 .. l + 1 : (n \in 1 .. l /\ n # l + 1) \/ n = l + 1
  BY <1>2
<1>10. \A n \in 1 .. l : n \in 1 .. l + 1
  BY <1>2
<1> HIDE DEF new, l
<1>4. /\ \A n \in 1 .. l : PointsOK(H, ts[n].points)
      /\ \A n, m \in 1 .. l : n # m => Uids(ts[n].points) \cap Uids(ts[m].points) = {}
  BY <1>2, Zenon DEF TrjsOK
<1>5. \A n \in 1 .. l : Uids(ts[n].points) \subseteq HeldBy(ts)
  BY <1>2, Zenon DEF HeldBy
<1>6. \A n \in 1 .. l + 1 : PointsOK(H, new[n].points)
  BY <1>2, <1>3, <1>4, Zenon
<1>7. ASSUME NEW n \in 1 .. l + 1, NEW m \in 1 .. l + 1, n # m
      PROVE  Uids(new[n].points) \cap Uids(new[m].points) = {}
  <2>1. CASE n \in 1 .. l /\ m \in 1 .. l
    BY <1>2, <1>4, <1>7, <2>1, Zenon
  <2>2. CASE n \in 1 .. l /\ m = l + 1
    BY <1>2, <1>5, <2>2, Zenon
  <2>3. CASE m \in 1 .. l /\ n = l + 1
    BY <1>2, <1>5, <2>3, Zenon
  <2> QED BY <1>3, <1>7, <2>1, <2>2, <2>3, Zenon
<1>8. HeldBy(new) = HeldBy(ts) \cup Uids(t.points)
  <2>1. ASSUME NEW u PROVE u \in HeldBy(new) <=> u \in HeldBy(ts) \/ u \in Uids(t.points)
    <3>1. u \in HeldBy(new) <=> \E n \in 1 .. l + 1 : u \in Uids(new[n].points)
      BY <1>2, HeldByIs, Zenon
    <3>2. u \in HeldBy(ts) <=> \E n \in 1 .. l : u \in Uids(ts[n].points)
      BY <1>2, HeldByIs, Zenon
    <3> QED BY <1>2, <1>3, <1>10, <3>1, <3>2, Zenon
  <2> QED BY <2>1, Zenon
<1>9. NoneEmpty(ts) /\ t.points # <<>> => NoneEmpty(new)
  BY <1>2, <1>3, Zenon DEF NoneEmpty
<1> QED BY <1>2, <1>6, <1>7, <1>8, <1>9, Zenon DEF TrjsOK, new

(* new is ts, but for the points of trajectory i.                          *)
TrjChange(H, ts, i, ps, new) ==
  /\ TrjsOK(H, new) /\ HeldBy(new) = (HeldBy(ts) \ Uids(ts[i].points)) \cup Uids(ps)
  /\ Len(new) = Len(ts) /\ DOMAIN new = DOMAIN ts
  /\ \A n \in DOMAIN ts : new[n].points = IF n = i THEN ps ELSE ts[n].points

(* Points of a trajectory replaced by points that have its hits and others *)
LEMMA TrjChanged ==
  ASSUME NEW H, NEW ts, TrjsOK(H, ts), NEW i \in DOMAIN ts, NEW ps, PointsOK(H, ps),
         NEW X, X \cap HeldBy(ts) = {}, Uids(ps) \subseteq Uids(ts[i].points) \cup X
  PROVE  TrjChange(H, ts, i, ps, [ts EXCEPT ![i].points = ps])
<1> DEFINE new == [ts EXCEPT ![i].points = ps]
           r == [ts[i] EXCEPT !.points = ps]
<1>1. ts \in Seq(TrjRec(H)) /\ ts[i] \in TrjRec(H)
  BY DEF TrjsOK
<1>2. ps \in Seq(PointSet(H))
  BY DEF PointsOK
<1>3. r \in TrjRec(H) /\ r.points = ps
  BY <1>1, <1>2 DEF TrjRec
<1>4. new = [ts EXCEPT ![i] = r]
  BY <1>1
<1> HIDE DEF r
<1>5. /\ new \in Seq(TrjRec(H)) /\ DOMAIN new = DOMAIN ts /\ Len(new) = Len(ts)
      /\ \A n \in DOMAIN ts : new[n] = IF n = i THEN r ELSE ts[n]
  <2>1. i \in 1 .. Len(ts) /\ DOMAIN ts = 1 .. Len(ts)
    BY <1>1
  <2>2. DOMAIN new = DOMAIN ts
    BY <1>4, Zenon
  <2> HIDE DEF new
  <2> QED BY <1>1, <1>3, <1>4, <2>1, <2>2, ExceptSeq
<1> HIDE DEF new
<1>6. \A n \in DOMAIN ts : (n = i /\ new[n].points = ps) \/ (n # i /\ new[n].points = ts[n].points)
  BY <1>3, <1>5, Zenon
<1>7. /\ \A n \in DOMAIN ts : PointsOK(H, ts[n].points)
      /\ \A n, m \in DOMAIN ts : n # m => Uids(ts[n].points) \cap Uids(ts[m].points) = {}
  BY Zenon DEF TrjsOK
<1>8. \A n \in DOMAIN ts : Uids(ts[n].points) \subseteq HeldBy(ts)
  BY Zenon DEF HeldBy
<1>9. \A n \in DOMAIN new : PointsOK(H, new[n].points)
  BY <1>5, <1>6, <1>7, Zenon
<1>10. ASSUME NEW n \in DOMAIN ts, NEW m \in DOMAIN ts, n # m
       PROVE  Uids(new[n].points) \cap Uids(new[m].points) = {}
  <2>1. CASE n # i /\ m # i
    BY <1>6, <1>7, <1>10, <2>1, Zenon
  <2>2. CASE n = i /\ m # i
    <3>1. Uids(ts[n].points) \cap Uids(ts[m].points) = {}
      BY <1>7, <1>10, Zenon
    <3> QED BY <1>6, <1>8, <2>2, <3>1, Zenon
  <2>3. CASE m = i /\ n # i
    <3>1. Uids(ts[n].points) \cap Uids(ts[m].points) = {}
      BY <1>7, <1>10, Zenon
    <3> QED BY <1>6, <1>8, <2>3, <3>1, Zenon
  <2> QED BY <1>10, <2>1, <2>2, <2>3, Zenon
<1>11. HeldBy(new) = (HeldBy(ts) \ Uids(ts[i].points)) \cup Uids(ps)
  <2>1. ASSUME NEW u PROVE u \in HeldBy(new) <=> u \in (HeldBy(ts) \ Uids(ts[i].points)) \cup Uids(ps)
    <3>1. u \in HeldBy(new) <=> \E n \in DOMAIN ts : u \in Uids(new[n].points)
      BY <1>5, HeldByIs, Zenon
    <3>2. u \in HeldBy(ts) <=> \E n \in DOMAIN ts : u \in Uids(ts[n].points)
      BY HeldByIs, Zenon
    <3>3. \A n \in DOMAIN ts : n # i /\ u \in Uids(ts[n].points) => u \notin Uids(ts[i].points)
      BY <1>7, Zenon
    <3> QED BY <1>6, <3>1, <3>2, <3>3, Zenon
  <2> QED BY <2>1, Zenon
<1>12. \A n \in DOMAIN ts : new[n].points = IF n = i THEN ps ELSE ts[n].points
  BY <1>6, Zenon
<1> QED BY <1>5, <1>9, <1>10, <1>11, <1>12, Zenon DEF TrjsOK, TrjChange, new

(* Points of the later of two trajectories given to the earlier one        *)
LEMMA JoinedOK ==
  ASSUME NEW H, NEW ts, TrjsOK(H, ts), NEW i \in DOMAIN ts, NEW j \in DOMAIN ts, i # j,
         ts[i].points # <<>>, ts[j].points # <<>>
  PROVE  /\ TrjsOK(H, Joined(ts, i, j)) /\ HeldBy(Joined(ts, i, j)) = HeldBy(ts)
         /\ DOMAIN Joined(ts, i, j) = DOMAIN ts /\ Joined(ts, i, j)[j].points = <<>>
<1> DEFINE a == ts[i].points
           b == ts[j].points
           all == IF FirstCh(b) < FirstCh(a) THEN FoldLeft(AddPoint, b, a) ELSE FoldLeft(AddPoint, a, b)
           s1 == [ts EXCEPT ![j].points = <<>>]
           new == Joined(ts, i, j)
<1>1. /\ PointsOK(H, a) /\ PointsOK(H, b) /\ Uids(a) \cap Uids(b) = {}
      /\ Uids(a) \subseteq HeldBy(ts) /\ Uids(b) \subseteq HeldBy(ts)
  BY Zenon DEF TrjsOK, HeldBy
<1>2. KeptOK(H, a) /\ KeptOK(H, b)
  BY <1>1, PointsApart, Zenon DEF KeptOK, PointsOK
<1>3. PointsOK(H, all) /\ Uids(all) = Uids(a) \cup Uids(b)
  <2> DEFINE x == AddAll(b, a)
             y == AddAll(a, b)
             later == FirstCh(b) < FirstCh(a)
  <2> HIDE DEF a, b
  <2>1. /\ PointsOK(H, x) /\ Uids(x) = Uids(b) \cup Uids(a)
        /\ PointsOK(H, y) /\ Uids(y) = Uids(a) \cup Uids(b)
    <3>1. PointsOK(H, a) /\ PointsOK(H, b) /\ KeptOK(H, a) /\ KeptOK(H, b)
      BY <1>1, <1>2, Zenon
    <3>2. Uids(a) \cap Uids(b) = {} /\ Uids(b) \cap Uids(a) = {}
      BY <1>1, Zenon
    <3>3. PointsOK(H, AddAll(b, a)) /\ Uids(AddAll(b, a)) = Uids(b) \cup Uids(a)
      BY <3>1, <3>2, AddAllOK
    <3>4. PointsOK(H, AddAll(a, b)) /\ Uids(AddAll(a, b)) = Uids(a) \cup Uids(b)
      BY <3>1, <3>2, AddAllOK
    <3> QED BY <3>3, <3>4, Zenon
  <2>2. all = IF later THEN x ELSE y
    BY Zenon DEF all, AddAll
  <2> HIDE DEF x, y, later, all
  <2>3. all = x \/ all = y
    BY <2>2, Zenon
  <2> QED BY <2>1, <2>3, Zenon
<1>4. TrjChange(H, ts, j, <<>>, s1)
  <2>1. PointsOK(H, <<>>) /\ Uids(<<>>) \subseteq Uids(ts[j].points) \cup {} /\ {} \cap HeldBy(ts) = {}
    BY NoneKept, Zenon
  <2> QED BY <2>1, TrjChanged, Zenon
<1>5. ts \in Seq(TrjRec(H))
  BY Zenon DEF TrjsOK
<1>6. new = [s1 EXCEPT ![i].points = all]
  <2>1. new = [ts EXCEPT ![i].points = all, ![j].points = <<>>]
    BY Zenon DEF Joined
  <2> HIDE DEF new, all
  <2> QED BY <1>5, <2>1
<1> HIDE DEF s1, new, all
<1>7. /\ TrjsOK(H, s1) /\ HeldBy(s1) = HeldBy(ts) \ Uids(b) /\ DOMAIN s1 = DOMAIN ts
      /\ s1[i].points = a /\ s1[j].points = <<>>
  <2>1. Uids(<<>>) = {}
    BY NoneKept, Zenon
  <2> QED BY <1>4, <2>1, Zenon DEF TrjChange
<1>8. TrjChange(H, s1, i, all, new)
  <2>1. Uids(b) \cap HeldBy(s1) = {} /\ Uids(all) \subseteq Uids(s1[i].points) \cup Uids(b)
    BY <1>3, <1>7, Zenon
  <2> QED BY <1>3, <1>6, <1>7, <2>1, TrjChanged, Zenon
<1>9. HeldBy(new) = HeldBy(ts)
  <2>1. HeldBy(new) = (HeldBy(s1) \ Uids(a)) \cup Uids(all)
    BY <1>7, <1>8, Zenon DEF TrjChange
  <2> QED BY <1>1, <1>3, <1>7, <2>1, Zenon
<1>10. TrjsOK(H, new) /\ DOMAIN new = DOMAIN ts /\ new[j].points = <<>>
  BY <1>7, <1>8, Zenon DEF TrjChange
<1> QED BY <1>9, <1>10, Zenon DEF new

(* F has the elements of the first k of seqs, each once.                   *)
FlatOnce(T, seqs, k, F) ==
  /\ F \in Seq(T) /\ IsInjective(F)
  /\ \A x : x \in Range(F) <=> \E j \in 1 .. k : x \in Range(seqs[j])

(* Sequences without an element twice, no two of which have one in common, *)
(* put together                                                            *)
LEMMA FlattenOnce ==
  ASSUME NEW T, NEW seqs \in Seq(Seq(T)),
         \A j \in DOMAIN seqs : IsInjective(seqs[j]),
         \A i, j \in DOMAIN seqs : i # j => Range(seqs[i]) \cap Range(seqs[j]) = {}
  PROVE  FlatOnce(T, seqs, Len(seqs), FlattenSeq(seqs))
<1> DEFINE n == Len(seqs)
           F == FlattenSeq(seqs)
<1>1. n \in Nat /\ DOMAIN seqs = 1 .. n /\ \A j \in 1 .. n : seqs[j] \in Seq(T)
  OBVIOUS
<1>2. CASE n = 0
  <2>1. F = <<>>
    <3>1. F = seqs
      BY <1>2, Zenon DEF FlattenSeq
    <3> QED BY <1>2, <3>1, EmptySeq
  <2>2. <<>> \in Seq(T) /\ DOMAIN (<<>>) = {} /\ 1 .. 0 = {}
    OBVIOUS
  <2> HIDE DEF F, n
  <2>3. FlatOnce(T, seqs, 0, F)
    BY <2>1, <2>2, Zenon DEF FlatOnce, IsInjective, Range
  <2> QED BY <1>2, <2>3, Zenon DEF F, n
<1>3. CASE n # 0
  <2>1. PICK g : Flattening(seqs, n, g) /\ F = g[n]
    BY <1>1, <1>3, FlattenIs, Zenon
  <2>2. \A i \in 1 .. n : g[i] = IF i = 1 THEN seqs[i] ELSE g[i - 1] \o seqs[i]
    BY <2>1, Zenon DEF Flattening
  <2>3. \A j \in 1 .. n : seqs[j] \in Seq(T) /\ IsInjective(seqs[j])
    BY <1>1, Zenon
  <2> HIDE DEF F, n
  <2> DEFINE Bad == {k \in Nat : k \in 1 .. n /\ ~FlatOnce(T, seqs, k, g[k])}
  <2>4. Bad = {}
    <3>1. SUFFICES ASSUME Bad # {} PROVE FALSE
      OBVIOUS
    <3>2. PICK k \in Bad : \A m \in Bad : k <= m
      BY <3>1, LeastNumber, Zenon
    <3>3. k \in 1 .. n /\ ~FlatOnce(T, seqs, k, g[k])
      BY <3>2
    <3>4. CASE k = 1
      <4>1. g[k] = seqs[1] /\ 1 \in 1 .. n
        BY <2>2, <3>3, <3>4, Zenon
      <4>2. \A j : j \in 1 .. 1 <=> j = 1
        OBVIOUS
      <4>3. FlatOnce(T, seqs, 1, seqs[1])
        BY <2>3, <4>1, <4>2, Zenon DEF FlatOnce
      <4> QED BY <3>3, <3>4, <4>1, <4>3, Zenon
    <3>5. CASE k # 1
      <4>1. PICK j \in Nat : j + 1 = k /\ j \in 1 .. n /\ k - 1 = j /\ ~(k <= j)
        <5>1. k - 1 \in Nat /\ (k - 1) + 1 = k /\ k - 1 \in 1 .. n /\ ~(k <= k - 1)
          BY <1>1, <3>3, <3>5
        <5> QED BY <5>1, Zenon
      <4>2. j \notin Bad
        BY <3>2, <4>1, Zenon
      <4>3. FlatOnce(T, seqs, j, g[j])
        BY <4>1, <4>2, Zenon
      <4> DEFINE a == g[j]
                 b == seqs[k]
      <4>4. g[k] = a \o b
        BY <2>2, <3>3, <3>5, <4>1, Zenon
      <4>5. a \in Seq(T) /\ IsInjective(a) /\ \A x : x \in Range(a) <=> \E m \in 1 .. j : x \in Range(seqs[m])
        BY <4>3, Zenon DEF FlatOnce
      <4>6. b \in Seq(T) /\ IsInjective(b)
        BY <2>3, <3>3, Zenon
      <4>7. \A m \in 1 .. j : m \in 1 .. n /\ m # k
        BY <1>1, <3>3, <4>1
      <4>8. \A m : m \in 1 .. k <=> m \in 1 .. j \/ m = k
        BY <4>1
      <4> HIDE DEF a
      <4>9. Range(a) \cap Range(b) = {}
        <5> SUFFICES ASSUME NEW x \in Range(a), x \in Range(b) PROVE FALSE
          BY Zenon
        <5>1. PICK m \in 1 .. j : x \in Range(seqs[m])
          BY <4>5, Zenon
        <5>2. m \in DOMAIN seqs /\ k \in DOMAIN seqs /\ m # k
          BY <1>1, <3>3, <4>7, Zenon
        <5>3. Range(seqs[m]) \cap Range(seqs[k]) = {}
          BY <5>2, Zenon
        <5> QED BY <5>1, <5>3, Zenon
      <4> HIDE DEF b
      <4>10. a \o b \in Seq(T) /\ IsInjective(a \o b) /\ Range(a \o b) = Range(a) \cup Range(b)
        BY <4>5, <4>6, <4>9, ConcatInjective
      <4>11. \A x : x \in Range(a \o b) <=> \E m \in 1 .. k : x \in Range(seqs[m])
        BY <4>5, <4>8, <4>10, Zenon DEF b
      <4>12. FlatOnce(T, seqs, k, a \o b)
        BY <4>10, <4>11, Zenon DEF FlatOnce
      <4> QED BY <3>3, <4>4, <4>12, Zenon DEF b
    <3> QED BY <3>4, <3>5
  <2>5. n \in 1 .. n
    BY <1>1, <1>3
  <2>6. FlatOnce(T, seqs, n, g[n])
    BY <1>1, <2>4, <2>5
  <2> QED BY <2>1, <2>6, Zenon DEF F, n
<1> QED BY <1>2, <1>3

(* Points kept apart, the other way round                                  *)
LEMMA Turned ==
  ASSUME NEW H, NEW ps, KeptOK(H, ps)
  PROVE  KeptOK(H, Reverse(ps)) /\ Uids(Reverse(ps)) = Uids(ps)
<1> DEFINE n == Len(ps)
           r == Reverse(ps)
<1>1. ps \in Seq(PointSet(H)) /\ Apiece(ps)
  BY Zenon DEF KeptOK
<1>2. n \in Nat /\ DOMAIN ps = 1 .. n /\ \A i \in 1 .. n : ps[i] \in PointSet(H)
  BY <1>1
<1>3. r = [i \in 1 .. n |-> ps[(n - i) + 1]]
  BY Zenon DEF Reverse
<1> HIDE DEF r, n
<1>4. \A i \in 1 .. n : (n - i) + 1 \in 1 .. n
  BY <1>2
<1>5. \A i, j \in 1 .. n : i # j => (n - i) + 1 # (n - j) + 1
  BY <1>2
<1>6. \A i \in 1 .. n : \E j \in 1 .. n : (n - j) + 1 = i
  <2> SUFFICES ASSUME NEW i \in 1 .. n PROVE \E j \in 1 .. n : (n - j) + 1 = i
    OBVIOUS
  <2>1. (n - i) + 1 \in 1 .. n /\ (n - ((n - i) + 1)) + 1 = i
    BY <1>2
  <2> QED BY <2>1, Zenon
<1>7. DOMAIN r = 1 .. n /\ \A i \in 1 .. n : r[i] = ps[(n - i) + 1]
  BY <1>3, Zenon
<1>8. r \in Seq(PointSet(H))
  <2>1. r \in [1 .. n -> PointSet(H)]
    BY <1>2, <1>3, <1>4, Zenon
  <2> QED BY <1>2, <2>1
<1>9. Apiece(r)
  <2>1. \A i \in 1 .. n : IsInjective(ps[i].uids)
    BY <1>1, <1>2, Zenon DEF Apiece
  <2>2. \A i, j \in 1 .. n : i # j => Range(ps[i].uids) \cap Range(ps[j].uids) = {}
    BY <1>1, <1>2, Zenon DEF Apiece
  <2>3. \A i \in 1 .. n : IsInjective(r[i].uids)
    BY <1>4, <1>7, <2>1, Zenon
  <2>4. ASSUME NEW i \in 1 .. n, NEW j \in 1 .. n, i # j
        PROVE  Range(r[i].uids) \cap Range(r[j].uids) = {}
    <3>1. Range(ps[(n - i) + 1].uids) \cap Range(ps[(n - j) + 1].uids) = {}
      BY <1>4, <1>5, <2>2, <2>4, Zenon
    <3> QED BY <1>7, <3>1, Zenon
  <2> QED BY <1>7, <2>3, <2>4, Zenon DEF Apiece
<1>10. Uids(r) = Uids(ps)
  <2>1. ASSUME NEW u PROVE u \in Uids(r) <=> u \in Uids(ps)
    <3>1. u \in Uids(r) <=> \E i \in 1 .. n : u \in Range(r[i].uids)
      BY <1>7, UidsOf, Zenon
    <3>2. u \in Uids(ps) <=> \E i \in 1 .. n : u \in Range(ps[i].uids)
      BY <1>2, UidsOf, Zenon
    <3>3. ASSUME NEW i \in 1 .. n, u \in Range(r[i].uids)
          PROVE  \E j \in 1 .. n : u \in Range(ps[j].uids)
      BY <1>4, <1>7, <3>3, Zenon
    <3>4. ASSUME NEW i \in 1 .. n, u \in Range(ps[i].uids)
          PROVE  \E j \in 1 .. n : u \in Range(r[j].uids)
      BY <1>6, <1>7, <3>4, Zenon
    <3> QED BY <3>1, <3>2, <3>3, <3>4, Zenon
  <2> QED BY <2>1, Zenon
<1> QED BY <1>8, <1>9, <1>10, Zenon DEF KeptOK, r

(* The hits of points, one after the other                                 *)
LEMMA PointsFlat ==
  ASSUME NEW H, NEW ps, KeptOK(H, ps)
  PROVE  LET us == FlattenSeq([k \in DOMAIN ps |-> ps[k].uids])
         IN  us \in Seq(DOMAIN H) /\ IsInjective(us) /\ Range(us) = Uids(ps)
<1> DEFINE n == Len(ps)
           T == DOMAIN H
           L == [k \in DOMAIN ps |-> ps[k].uids]
           us == FlattenSeq(L)
<1>1. ps \in Seq(PointSet(H)) /\ Apiece(ps)
  BY Zenon DEF KeptOK
<1>2. n \in Nat /\ DOMAIN ps = 1 .. n /\ \A i \in 1 .. n : ps[i] \in PointSet(H)
  BY <1>1
<1>3. \A i \in 1 .. n : ps[i].uids \in Seq(T)
  BY <1>2 DEF PointSet
<1>4. L \in [1 .. n -> Seq(T)] /\ DOMAIN L = 1 .. n /\ \A i \in 1 .. n : L[i] = ps[i].uids
  BY <1>2, <1>3, Zenon
<1> HIDE DEF L, n, T
<1>5. L \in Seq(Seq(T)) /\ Len(L) = n
  BY <1>2, <1>4
<1>6. \A i \in DOMAIN L : IsInjective(L[i])
  BY <1>1, <1>2, <1>4, Zenon DEF Apiece
<1>7. \A i, j \in DOMAIN L : i # j => Range(L[i]) \cap Range(L[j]) = {}
  BY <1>1, <1>2, <1>4, Zenon DEF Apiece
<1>8. FlatOnce(T, L, n, us)
  <2>1. FlatOnce(T, L, Len(L), us)
    BY <1>5, <1>6, <1>7, FlattenOnce
  <2> QED BY <1>5, <2>1, Zenon
<1> HIDE DEF us
<1>9. us \in Seq(T) /\ IsInjective(us) /\ \A x : x \in Range(us) <=> \E j \in 1 .. n : x \in Range(L[j])
  BY <1>8, Zenon DEF FlatOnce
<1>10. ASSUME NEW x PROVE x \in Range(us) <=> x \in Uids(ps)
  <2>1. x \in Uids(ps) <=> \E i \in 1 .. n : x \in Range(ps[i].uids)
    BY <1>2, UidsOf, Zenon
  <2> QED BY <1>4, <1>9, <2>1, Zenon
<1>11. Range(us) = Uids(ps)
  BY <1>10, Zenon
<1> QED BY <1>9, <1>11, Zenon DEF us, L, T

(* hs are the hits of u, one after the other.                              *)
HitsAre(H, hs, u) == hs \in Seq(Range(H)) /\ IsInjective(hs) /\ Range(hs) = {H[k] : k \in u}

(* A track has the hits of its trajectory.                                 *)
LEMMA TrackHits ==
  ASSUME HitPointsOK(fHitPoints), NEW t, PointsOK(fHitPoints, t.points)
  PROVE  HitsAre(fHitPoints, Track(t).hits, Uids(t.points))
<1> DEFINE H == fHitPoints
           y(p) == H[p.uids[1]].start
           up   == y(t.points[1]) < y(Last(t.points))
           ps   == IF up THEN t.points ELSE Reverse(t.points)
           us   == FlattenSeq([k \in DOMAIN ps |-> ps[k].uids])
           hs   == [k \in DOMAIN us |-> H[us[k]]]
<1>1. Track(t).hits = hs
  BY DEF Track
<1>2. KeptOK(H, t.points)
  BY PointsApart, Zenon DEF KeptOK, PointsOK
<1>3. KeptOK(H, ps) /\ Uids(ps) = Uids(t.points)
  <2> HIDE DEF up
  <2>1. ps = t.points \/ ps = Reverse(t.points)
    BY Zenon
  <2> QED BY <1>2, <2>1, Turned, Zenon
<1> HIDE DEF ps
<1>4. us \in Seq(DOMAIN H) /\ IsInjective(us) /\ Range(us) = Uids(ps)
  BY <1>3, PointsFlat
<1> HIDE DEF us
<1>5. \A k \in DOMAIN us : us[k] \in DOMAIN H
  BY <1>4
<1>6. IsInjective(H) /\ \A k \in DOMAIN H : H[k] \in Range(H)
  BY Zenon DEF HitPointsOK, Range
<1>7. hs \in Seq(Range(H))
  <2>1. DOMAIN us = 1 .. Len(us) /\ Len(us) \in Nat
    BY <1>4
  <2>2. hs \in [1 .. Len(us) -> Range(H)]
    BY <1>5, <1>6, <2>1, Zenon
  <2> QED BY <2>1, <2>2
<1>8. IsInjective(hs)
  <2> SUFFICES ASSUME NEW i \in DOMAIN us, NEW j \in DOMAIN us, H[us[i]] = H[us[j]] PROVE i = j
    BY Zenon DEF IsInjective
  <2>1. us[i] = us[j]
    BY <1>5, <1>6, Zenon DEF IsInjective
  <2> QED BY <1>4, <2>1, Zenon DEF IsInjective
<1>9. Range(hs) = {H[k] : k \in Uids(t.points)}
  <2>1. \A k : k \in Uids(t.points) <=> \E i \in DOMAIN us : us[i] = k
    BY <1>3, <1>4, Zenon DEF Range
  <2>2. \A x : x \in Range(hs) <=> \E i \in DOMAIN us : x = H[us[i]]
    BY Zenon DEF Range
  <2>3. \A x : x \in {H[k] : k \in Uids(t.points)} <=> \E k \in Uids(t.points) : x = H[k]
    OBVIOUS
  <2> HIDE DEF hs
  <2>4. ASSUME NEW x PROVE x \in Range(hs) <=> \E k \in Uids(t.points) : x = H[k]
    BY <2>1, <2>2, Zenon
  <2> DEFINE U == {H[k] : k \in Uids(t.points)}
  <2>5. \A x : x \in U <=> x \in Range(hs)
    BY <2>3, <2>4, Zenon
  <2> HIDE DEF U
  <2>6. Range(hs) = U
    BY <2>5, Zenon
  <2> QED BY <2>6, Zenon DEF U
<1> HIDE DEF hs
<1> QED BY <1>1, <1>7, <1>8, <1>9, Zenon DEF HitsAre

(* Trajectories that are some of ts                                        *)
SomeOf(H, ts, new) ==
  TrjsOK(H, new) /\ HeldBy(new) \subseteq HeldBy(ts) /\ (NoneEmpty(ts) => NoneEmpty(new))

(* Those that are taken from places of ts are.                             *)
LEMMA FromPlaces ==
  ASSUME NEW H, NEW ts, TrjsOK(H, ts), NEW new, NEW f, TrjsFrom(H, ts, new, f)
  PROVE  SomeOf(H, ts, new)
BY TrjsRearranged, Zenon DEF SomeOf

(* All but the last                                                        *)
LEMMA FrontTrjs ==
  ASSUME NEW H, NEW ts, TrjsOK(H, ts), ts # <<>>
  PROVE  /\ SomeOf(H, ts, Front(ts)) /\ HeldBy(Front(ts)) \cap Uids(Last(ts).points) = {}
         /\ PointsOK(H, Last(ts).points) /\ Uids(Last(ts).points) \subseteq HeldBy(ts)
         /\ Last(ts) = ts[Len(ts)] /\ Len(ts) \in DOMAIN ts
<1> DEFINE n == Len(ts)
           r == Front(ts)
           f == [i \in 1 .. n - 1 |-> i]
<1>1. ts \in Seq(TrjRec(H))
  BY DEF TrjsOK
<1>2. n \in Nat /\ DOMAIN ts = 1 .. n /\ n \in 1 .. n /\ n # 0
  BY <1>1
<1>3. r \in Seq(TrjRec(H)) /\ DOMAIN r = 1 .. n - 1 /\ \A i \in 1 .. n - 1 : r[i] = ts[i]
  BY <1>1, <1>2 DEF Front
<1>4. Last(ts) = ts[n]
  BY Zenon DEF Last
<1> HIDE DEF n, r
<1>5. \A i \in 1 .. n - 1 : i \in 1 .. n /\ i # n
  BY <1>2
<1>6. TrjsFrom(H, ts, r, f)
  <2>1. f \in [1 .. n - 1 -> 1 .. n] /\ IsInjective(f) /\ \A i \in 1 .. n - 1 : f[i] = i
    BY <1>5, Zenon DEF IsInjective
  <2> HIDE DEF f
  <2> QED BY <1>2, <1>3, <2>1, Zenon DEF TrjsFrom
<1>7. HeldBy(r) \cap Uids(ts[n].points) = {}
  <2> SUFFICES ASSUME NEW u \in HeldBy(r), u \in Uids(ts[n].points) PROVE FALSE
    BY Zenon
  <2>1. PICK i \in 1 .. n - 1 : u \in Uids(r[i].points)
    BY <1>3, HeldByIs, Zenon
  <2>2. u \in Uids(ts[i].points) /\ i \in DOMAIN ts /\ i # n /\ n \in DOMAIN ts
    BY <1>2, <1>3, <1>5, <2>1, Zenon
  <2>3. Uids(ts[i].points) \cap Uids(ts[n].points) = {}
    BY <2>2, Zenon DEF TrjsOK
  <2> QED BY <2>2, <2>3, Zenon
<1>8. PointsOK(H, ts[n].points) /\ Uids(ts[n].points) \subseteq HeldBy(ts)
  BY <1>2, HeldByIs, Zenon DEF TrjsOK
<1>9. SomeOf(H, ts, r)
  BY <1>6, FromPlaces, Zenon
<1> QED BY <1>2, <1>4, <1>7, <1>8, <1>9, Zenon DEF r, n

(* All but the first                                                       *)
LEMMA TailTrjs ==
  ASSUME NEW H, NEW ts, TrjsOK(H, ts), ts # <<>>
  PROVE  /\ SomeOf(H, ts, Tail(ts)) /\ HeldBy(Tail(ts)) \cap Uids(Head(ts).points) = {}
         /\ PointsOK(H, Head(ts).points) /\ Uids(Head(ts).points) \subseteq HeldBy(ts)
         /\ NoneEmpty(ts) => Head(ts).points # <<>>
         /\ Head(ts) \in TrjRec(H)
<1> DEFINE n == Len(ts)
           r == Tail(ts)
           f == [i \in 1 .. n - 1 |-> i + 1]
<1>1. ts \in Seq(TrjRec(H))
  BY DEF TrjsOK
<1>2. n \in Nat /\ DOMAIN ts = 1 .. n /\ 1 \in 1 .. n /\ n # 0 /\ ts[1] \in TrjRec(H)
  BY <1>1, EmptySeq
<1>3. r \in Seq(TrjRec(H)) /\ DOMAIN r = 1 .. n - 1 /\ \A i \in 1 .. n - 1 : r[i] = ts[i + 1]
  BY <1>1, <1>2
<1>4. Head(ts) = ts[1]
  BY <1>1, <1>2
<1> HIDE DEF n, r
<1>5. /\ \A i \in 1 .. n - 1 : i + 1 \in 1 .. n /\ i + 1 # 1
      /\ \A i, j \in 1 .. n - 1 : i + 1 = j + 1 => i = j
  BY <1>2
<1>6. TrjsFrom(H, ts, r, f)
  <2>1. f \in [1 .. n - 1 -> 1 .. n] /\ IsInjective(f) /\ \A i \in 1 .. n - 1 : f[i] = i + 1
    BY <1>5, Zenon DEF IsInjective
  <2> HIDE DEF f
  <2> QED BY <1>2, <1>3, <2>1, Zenon DEF TrjsFrom
<1>7. HeldBy(r) \cap Uids(ts[1].points) = {}
  <2> SUFFICES ASSUME NEW u \in HeldBy(r), u \in Uids(ts[1].points) PROVE FALSE
    BY Zenon
  <2>1. PICK i \in 1 .. n - 1 : u \in Uids(r[i].points)
    BY <1>3, HeldByIs, Zenon
  <2>2. u \in Uids(ts[i + 1].points) /\ i + 1 \in DOMAIN ts /\ i + 1 # 1 /\ 1 \in DOMAIN ts
    BY <1>2, <1>3, <1>5, <2>1, Zenon
  <2>3. Uids(ts[i + 1].points) \cap Uids(ts[1].points) = {}
    BY <2>2, Zenon DEF TrjsOK
  <2> QED BY <2>2, <2>3, Zenon
<1>8. PointsOK(H, ts[1].points) /\ Uids(ts[1].points) \subseteq HeldBy(ts)
  BY <1>2, HeldByIs, Zenon DEF TrjsOK
<1>9. SomeOf(H, ts, r)
  BY <1>6, FromPlaces, Zenon
<1>10. NoneEmpty(ts) => ts[1].points # <<>>
  BY <1>2, Zenon DEF NoneEmpty
<1> QED BY <1>2, <1>4, <1>7, <1>8, <1>9, <1>10, Zenon DEF r, n

(* A trajectory taken for another particle                                 *)
LEMMA PidChanged ==
  ASSUME NEW H, NEW ts, TrjsOK(H, ts), NEW k \in DOMAIN ts, NEW pid \in Int
  PROVE  SomeOf(H, ts, [ts EXCEPT ![k].pid = pid])
<1> DEFINE new == [ts EXCEPT ![k].pid = pid]
           r == [ts[k] EXCEPT !.pid = pid]
           f == [i \in DOMAIN ts |-> i]
<1>1. ts \in Seq(TrjRec(H)) /\ ts[k] \in TrjRec(H)
  BY DEF TrjsOK
<1>2. r \in TrjRec(H) /\ r.points = ts[k].points
  BY <1>1 DEF TrjRec
<1>3. new = [ts EXCEPT ![k] = r]
  BY <1>1
<1> HIDE DEF r
<1>4. new \in Seq(TrjRec(H)) /\ DOMAIN new = DOMAIN ts
  <2>1. k \in 1 .. Len(ts)
    BY <1>1
  <2>2. DOMAIN new = DOMAIN ts
    BY <1>3, Zenon
  <2> HIDE DEF new
  <2> QED BY <1>1, <1>2, <1>3, <2>1, <2>2, ExceptSeq
<1>5. \A i \in DOMAIN ts : new[i].points = ts[i].points
  <2> SUFFICES ASSUME NEW i \in DOMAIN ts PROVE new[i].points = ts[i].points
    OBVIOUS
  <2>1. new[i] = IF i = k THEN r ELSE ts[i]
    BY <1>3, Zenon
  <2> HIDE DEF new
  <2> QED BY <1>2, <2>1
<1> HIDE DEF new
<1>6. TrjsFrom(H, ts, new, f)
  <2>1. f \in [DOMAIN ts -> DOMAIN ts] /\ IsInjective(f) /\ \A i \in DOMAIN ts : f[i] = i
    BY Zenon DEF IsInjective
  <2> HIDE DEF f
  <2> QED BY <1>4, <1>5, <2>1, Zenon DEF TrjsFrom
<1> QED BY <1>6, FromPlaces, Zenon DEF new

(* The same trajectories in another order                                  *)
LEMMA OrderTrjs ==
  ASSUME NEW H, NEW ts, TrjsOK(H, ts), NEW s \in Orders(ts)
  PROVE  SomeOf(H, ts, s)
<1> DEFINE D == DOMAIN ts
<1>1. ts \in Seq(TrjRec(H))
  BY DEF TrjsOK
<1>2. PICK p \in Bijection(D, D) : s = [k \in D |-> ts[p[k]]]
  BY Zenon DEF Orders
<1>3. p \in [D -> D] /\ IsInjective(p)
  BY Zenon DEF Bijection, Injection, IsInjective
<1>4. \A k \in D : ts[k] \in TrjRec(H)
  BY <1>1
<1>5. D = 1 .. Len(ts) /\ Len(ts) \in Nat
  BY <1>1
<1> HIDE DEF D
<1>6. s \in [D -> TrjRec(H)] /\ DOMAIN s = D /\ \A k \in D : s[k] = ts[p[k]]
  BY <1>2, <1>3, <1>4, Zenon
<1>7. s \in Seq(TrjRec(H))
  BY <1>5, <1>6
<1>8. TrjsFrom(H, ts, s, p)
  BY <1>3, <1>6, <1>7, Zenon DEF TrjsFrom, D
<1> QED BY <1>8, FromPlaces, Zenon

(* Trajectories chosen by Sift                                             *)
LEMMA SiftTrjs ==
  ASSUME NEW H, NEW ts, TrjsOK(H, ts), NEW S
  PROVE  /\ SomeOf(H, ts, Sift(ts, S))
         /\ (\E m \in DOMAIN ts : ts[m] \notin S) => Len(Sift(ts, S)) < Len(ts)
         /\ \A u \in HeldBy(Sift(ts, S)) : \E m \in DOMAIN ts : ts[m] \in S /\ u \in Uids(ts[m].points)
         /\ \A n \in DOMAIN Sift(ts, S) : Sift(ts, S)[n] \in S
<1> DEFINE r == Sift(ts, S)
           c == [seq |-> ts, set |-> S]
<1>1. ts \in Seq(TrjRec(H))
  BY DEF TrjsOK
<1>2. c.seq = ts /\ c.set = S
  OBVIOUS
<1>3. /\ r \in Seq(TrjRec(H)) /\ ((\E m \in DOMAIN ts : ts[m] \notin S) => Len(r) < Len(ts))
      /\ \E f : SiftedBy(c, Len(ts), r, f)
  BY <1>1, SiftOK, Zenon
<1> HIDE DEF c, r
<1>4. PICK f : SiftedBy(c, Len(ts), r, f)
  BY <1>3, Zenon
<1>5. DOMAIN r = 1 .. Len(r) /\ Len(r) \in Nat /\ DOMAIN ts = 1 .. Len(ts) /\ Len(ts) \in Nat
  BY <1>1, <1>3
<1>6. /\ f \in [DOMAIN r -> DOMAIN ts]
      /\ \A i \in DOMAIN r : r[i] = ts[f[i]] /\ ts[f[i]] \in S
      /\ \A i, j \in DOMAIN r : i < j => f[i] < f[j]
  BY <1>2, <1>4, <1>5, Zenon DEF SiftedBy
<1>7. IsInjective(f)
  <2> SUFFICES ASSUME NEW i \in DOMAIN r, NEW j \in DOMAIN r, f[i] = f[j] PROVE i = j
    BY <1>6, Zenon DEF IsInjective
  <2>1. ~(f[i] < f[j]) /\ ~(f[j] < f[i])
    <3>1. f[i] \in Nat /\ f[j] \in Nat
      BY <1>5, <1>6
    <3> HIDE <1>6
    <3> QED BY <3>1
  <2>2. ~(i < j) /\ ~(j < i)
    BY <1>6, <2>1, Zenon
  <2> QED BY <1>5, <2>2
<1>8. TrjsFrom(H, ts, r, f)
  BY <1>3, <1>6, <1>7, Zenon DEF TrjsFrom
<1>9. SomeOf(H, ts, r)
  BY <1>8, FromPlaces, Zenon
<1>10. ASSUME NEW u \in HeldBy(r)
       PROVE  \E m \in DOMAIN ts : ts[m] \in S /\ u \in Uids(ts[m].points)
  <2>1. PICK i \in DOMAIN r : u \in Uids(r[i].points)
    BY HeldByIs, Zenon
  <2> QED BY <1>6, <2>1, Zenon
<1>11. \A n \in DOMAIN r : r[n] \in S
  BY <1>6, Zenon
<1> QED BY <1>3, <1>9, <1>10, <1>11, Zenon DEF r

(* Those of one particle and of another have no hit in common.             *)
LEMMA PidsApart ==
  ASSUME NEW H, NEW ts, TrjsOK(H, ts), NEW p, NEW q, p # q
  PROVE  /\ SomeOf(H, ts, OfPid(ts, p)) /\ SomeOf(H, ts, OfPid(ts, q))
         /\ HeldBy(OfPid(ts, p)) \cap HeldBy(OfPid(ts, q)) = {}
<1> DEFINE P == {t \in Range(ts) : t.pid = p}
           Q == {t \in Range(ts) : t.pid = q}
<1>1. OfPid(ts, p) = Sift(ts, P) /\ OfPid(ts, q) = Sift(ts, Q)
  BY Zenon DEF OfPid
<1>2. \A t \in P : t.pid = p
  OBVIOUS
<1>3. \A t \in Q : t.pid = q
  OBVIOUS
<1> HIDE DEF P, Q
<1>4. SomeOf(H, ts, Sift(ts, P)) /\ SomeOf(H, ts, Sift(ts, Q))
  BY SiftTrjs, Zenon
<1>5. ASSUME NEW u, u \in HeldBy(Sift(ts, P)), u \in HeldBy(Sift(ts, Q)) PROVE FALSE
  <2>1. PICK m \in DOMAIN ts : ts[m] \in P /\ u \in Uids(ts[m].points)
    BY <1>5, SiftTrjs, Zenon
  <2>2. PICK n \in DOMAIN ts : ts[n] \in Q /\ u \in Uids(ts[n].points)
    BY <1>5, SiftTrjs, Zenon
  <2>3. m # n
    BY <1>2, <1>3, <2>1, <2>2
  <2>4. Uids(ts[m].points) \cap Uids(ts[n].points) = {}
    BY <2>3, Zenon DEF TrjsOK
  <2> QED BY <2>1, <2>2, <2>4, Zenon
<1> QED BY <1>1, <1>4, <1>5, Zenon

(* A hit is free, untried or taken.                                        *)
Flags(H, use) == use \in [DOMAIN H -> {-1, 0, 1}]

(* The hits taken                                                          *)
Taken(use) == {k \in DOMAIN use : use[k] = 1}

(* Flags of some hits set                                                  *)
LEMMA FlaggedOK ==
  ASSUME NEW H, NEW use, Flags(H, use), NEW hs, NEW flag \in {-1, 1}
  PROVE  /\ Flags(H, Flagged(use, hs, flag))
         /\ \A k \in DOMAIN H : use[k] # 0 => Flagged(use, hs, flag)[k] # 0
         /\ \A k \in hs \cap DOMAIN H : Flagged(use, hs, flag)[k] = flag
         /\ \A k \in DOMAIN H \ hs : Flagged(use, hs, flag)[k] = use[k]
         /\ flag = 1 => Taken(Flagged(use, hs, flag)) = Taken(use) \cup (hs \cap DOMAIN H)
         /\ flag = -1 => Taken(Flagged(use, hs, flag)) = Taken(use) \ hs
<1> DEFINE new == Flagged(use, hs, flag)
<1>1. DOMAIN use = DOMAIN H /\ \A k \in DOMAIN H : use[k] \in {-1, 0, 1}
  BY DEF Flags
<1>2. new = [k \in DOMAIN H |-> IF k \in hs THEN flag ELSE use[k]]
  BY <1>1, Zenon DEF Flagged
<1> HIDE DEF new
<1>3. DOMAIN new = DOMAIN H /\ \A k \in DOMAIN H : new[k] = IF k \in hs THEN flag ELSE use[k]
  BY <1>2, Zenon
<1>4. \A k \in DOMAIN H : new[k] \in {-1, 0, 1}
  BY <1>1, <1>3
<1>5. Flags(H, new)
  BY <1>2, <1>3, <1>4, Zenon DEF Flags
<1>6. flag # 0 /\ (flag = 1 \/ flag # 1)
  OBVIOUS
<1>7. \A k \in DOMAIN H : use[k] # 0 => new[k] # 0
  BY <1>3, <1>6, Zenon
<1>8. flag = 1 => Taken(new) = Taken(use) \cup (hs \cap DOMAIN H)
  BY <1>1, <1>3 DEF Taken
<1>9. flag = -1 => Taken(new) = Taken(use) \ hs
  BY <1>1, <1>3 DEF Taken
<1> QED BY <1>3, <1>5, <1>7, <1>8, <1>9, Zenon DEF new

(* A hit found by its channel is one of the cluster.                       *)
LEMMA ClosestPlace ==
  ASSUME HitPointsOK(fHitPoints), NEW ch, NEW y, NEW tol, FindClosest(ch, y, tol) # 0
  PROVE  FindClosest(ch, y, tol) \in DOMAIN fHitPoints
<1> DEFINE Y(k) == fHitPoints[k].start
           Off(k) == IF Y(k) < y THEN y - Y(k) ELSE Y(k) - y
           lowest == Min({Y(k) : k \in OfChannel(ch)})
           inRange == {k \in OfChannel(ch) : Y(k) <= y + tol /\ (Y(k) > y - tol \/ y - tol < lowest)}
           nearest == {k \in inRange : \A j \in inRange : Off(k) <= Off(j)}
           c == FindClosest(ch, y, tol)
<1>1. c = IF nearest = {} THEN 0 ELSE Min(nearest)
  BY Zenon DEF FindClosest
<1>2. nearest \subseteq DOMAIN fHitPoints
  BY DEF OfChannel
<1>3. DOMAIN fHitPoints \subseteq Nat
  <2>1. fHitPoints \in Seq(Range(fHitPoints))
    BY Zenon DEF HitPointsOK
  <2> QED BY <2>1
<1> HIDE DEF nearest, c
<1>4. nearest # {} /\ nearest \subseteq Nat /\ c = Min(nearest)
  BY <1>1, <1>2, <1>3, Zenon DEF c
<1>5. c \in nearest
  BY <1>4, MinIsLeast, Zenon
<1> QED BY <1>2, <1>5, Zenon DEF c

(* One more point kept back                                                *)
LEMMA KeptMore ==
  ASSUME NEW H, NEW ps, KeptOK(H, ps), NEW p \in PointSet(H), Range(p.uids) \cap Uids(ps) = {}
  PROVE  KeptOK(H, Append(ps, p)) /\ Uids(Append(ps, p)) = Uids(ps) \cup Range(p.uids)
<1> DEFINE r == Append(ps, p)
           n == Len(ps)
<1>1. ps \in Seq(PointSet(H)) /\ Apiece(ps)
  BY Zenon DEF KeptOK
<1>2. /\ n \in Nat /\ DOMAIN ps = 1 .. n /\ r \in Seq(PointSet(H)) /\ DOMAIN r = 1 .. n + 1
      /\ r[n + 1] = p /\ \A i \in 1 .. n : r[i] = ps[i]
  BY <1>1
<1> HIDE DEF r, n
<1>3. /\ \A i \in 1 .. n + 1 : (i \in 1 .. n /\ i # n + 1) \/ i = n + 1
      /\ \A i \in 1 .. n : i \in 1 .. n + 1
      /\ n + 1 \in 1 .. n + 1
  BY <1>2
<1>4. IsInjective(p.uids)
  BY DEF PointSet
<1>5. \A i \in 1 .. n : IsInjective(ps[i].uids) /\ Range(ps[i].uids) \cap Range(p.uids) = {}
  BY <1>1, <1>2, UidsOf, Zenon DEF Apiece
<1>6. \A i, j \in 1 .. n : i # j => Range(ps[i].uids) \cap Range(ps[j].uids) = {}
  BY <1>1, <1>2, Zenon DEF Apiece
<1>7. \A i \in 1 .. n + 1 : IsInjective(r[i].uids)
  BY <1>2, <1>3, <1>4, <1>5, Zenon
<1>8. ASSUME NEW i \in 1 .. n + 1, NEW j \in 1 .. n + 1, i # j
      PROVE  Range(r[i].uids) \cap Range(r[j].uids) = {}
  <2>1. CASE i \in 1 .. n /\ j \in 1 .. n
    BY <1>2, <1>6, <1>8, <2>1, Zenon
  <2>2. CASE i \in 1 .. n /\ j = n + 1
    BY <1>2, <1>5, <2>2, Zenon
  <2>3. CASE j \in 1 .. n /\ i = n + 1
    BY <1>2, <1>5, <2>3, Zenon
  <2> QED BY <1>3, <1>8, <2>1, <2>2, <2>3, Zenon
<1>9. KeptOK(H, r)
  BY <1>2, <1>7, <1>8, Zenon DEF KeptOK, Apiece
<1>10. ASSUME NEW u PROVE u \in Uids(r) <=> u \in Uids(ps) \/ u \in Range(p.uids)
  <2>1. u \in Uids(r) <=> \E i \in 1 .. n + 1 : u \in Range(r[i].uids)
    BY <1>2, UidsOf, Zenon
  <2>2. u \in Uids(ps) <=> \E i \in 1 .. n : u \in Range(ps[i].uids)
    BY <1>2, UidsOf, Zenon
  <2> QED BY <1>2, <1>3, <2>1, <2>2, Zenon
<1> QED BY <1>9, <1>10, Zenon DEF r

-----------------------------------------------------------------------------
(* The path of a track goes from its first to its last channel.            *)
TrackOK(t) ==
  /\ t.start <= t.end
  /\ t.path[1].hit /\ Last(t.path).hit
  /\ {h.ch : h \in Range(t.hits)} = {p.ch : p \in {q \in Range(t.path) : q.hit}}
  /\ \E sgn \in {1, -1} : \A k \in DOMAIN t.path \ {1} :
       t.path[k].ch = t.path[k - 1].ch + sgn

(* The hits of tracks                                                      *)
MadeOf(H, ts) == {k \in DOMAIN H : \E n \in DOMAIN ts : H[k] \in Range(ts[n].hits)}

(* Tracks that have no hit in common                                       *)
FoundOK(H, ts) ==
  /\ \E S : ts \in Seq(S)
  /\ \A n \in DOMAIN ts : /\ ts[n].hits \in Seq(Range(H)) /\ IsInjective(ts[n].hits)
                          /\ ts[n].drays = <<>> /\ TrackOK(ts[n])
  /\ \A n, m \in DOMAIN ts : n # m => Range(ts[n].hits) \cap Range(ts[m].hits) = {}

(* No tracks have no hits.                                                 *)
LEMMA FoundNone == ASSUME NEW H PROVE FoundOK(H, <<>>) /\ MadeOf(H, <<>>) = {}
<1>1. <<>> \in Seq({}) /\ DOMAIN (<<>>) = {}
  OBVIOUS
<1> QED BY <1>1, Zenon DEF FoundOK, MadeOf

(* One more track, of hits that no other has                               *)
LEMMA FoundMore ==
  ASSUME NEW H, HitPointsOK(H), NEW ts, FoundOK(H, ts), NEW t, TrackOK(t), t.drays = <<>>,
         NEW U \in SUBSET DOMAIN H, HitsAre(H, t.hits, U), U \cap MadeOf(H, ts) = {}
  PROVE  FoundOK(H, Append(ts, t)) /\ MadeOf(H, Append(ts, t)) = MadeOf(H, ts) \cup U
<1> DEFINE r == Append(ts, t)
           n == Len(ts)
<1>1. PICK S : ts \in Seq(S)
  BY Zenon DEF FoundOK
<1>2. ts \in Seq(S \cup {t})
  <2>1. ts \in [1 .. Len(ts) -> S] /\ Len(ts) \in Nat
    BY <1>1
  <2>2. ts \in [1 .. Len(ts) -> S \cup {t}]
    BY <2>1
  <2> QED BY <2>1, <2>2
<1>3. /\ n \in Nat /\ DOMAIN ts = 1 .. n /\ r \in Seq(S \cup {t}) /\ DOMAIN r = 1 .. n + 1
      /\ r[n + 1] = t /\ \A i \in 1 .. n : r[i] = ts[i]
  <2>1. t \in S \cup {t}
    OBVIOUS
  <2> QED BY <1>2, <2>1
<1> HIDE DEF r, n
<1>4. /\ \A i \in 1 .. n + 1 : (i \in 1 .. n /\ i # n + 1) \/ i = n + 1
      /\ \A i \in 1 .. n : i \in 1 .. n + 1
      /\ n + 1 \in 1 .. n + 1
  BY <1>3
<1>5. /\ \A i \in 1 .. n : /\ ts[i].hits \in Seq(Range(H)) /\ IsInjective(ts[i].hits)
                           /\ ts[i].drays = <<>> /\ TrackOK(ts[i])
      /\ \A i, j \in 1 .. n : i # j => Range(ts[i].hits) \cap Range(ts[j].hits) = {}
  BY <1>3, Zenon DEF FoundOK
<1>6. t.hits \in Seq(Range(H)) /\ IsInjective(t.hits) /\ Range(t.hits) = {H[k] : k \in U}
  BY Zenon DEF HitsAre
<1>7. \A x : x \in Range(t.hits) <=> \E k \in U : x = H[k]
  BY <1>6
<1>8. ASSUME NEW i \in 1 .. n PROVE Range(ts[i].hits) \cap Range(t.hits) = {}
  <2> SUFFICES ASSUME NEW x \in Range(ts[i].hits), x \in Range(t.hits) PROVE FALSE
    BY Zenon
  <2>1. PICK k \in U : x = H[k]
    BY <1>7, Zenon
  <2>2. k \in MadeOf(H, ts)
    BY <1>3, <2>1, Zenon DEF MadeOf
  <2> QED BY <2>2, Zenon
<1>9. ASSUME NEW i \in 1 .. n + 1
      PROVE  /\ r[i].hits \in Seq(Range(H)) /\ IsInjective(r[i].hits)
             /\ r[i].drays = <<>> /\ TrackOK(r[i])
  <2>1. CASE i \in 1 .. n
    BY <1>3, <1>5, <2>1, Zenon
  <2>2. CASE i = n + 1
    BY <1>3, <1>6, <2>2, Zenon
  <2> QED BY <1>4, <2>1, <2>2, Zenon
<1>10. ASSUME NEW i \in 1 .. n + 1, NEW j \in 1 .. n + 1, i # j
       PROVE  Range(r[i].hits) \cap Range(r[j].hits) = {}
  <2>1. CASE i \in 1 .. n /\ j \in 1 .. n
    BY <1>3, <1>5, <1>10, <2>1, Zenon
  <2>2. CASE i \in 1 .. n /\ j = n + 1
    BY <1>3, <1>8, <2>2, Zenon
  <2>3. CASE j \in 1 .. n /\ i = n + 1
    BY <1>3, <1>8, <2>3, Zenon
  <2> QED BY <1>4, <1>10, <2>1, <2>2, <2>3, Zenon
<1>11. FoundOK(H, r)
  BY <1>3, <1>9, <1>10, Zenon DEF FoundOK
<1>12. ASSUME NEW k \in DOMAIN H PROVE k \in MadeOf(H, r) <=> k \in MadeOf(H, ts) \/ k \in U
  <2>1. k \in MadeOf(H, r) <=> \E i \in 1 .. n + 1 : H[k] \in Range(r[i].hits)
    BY <1>3, Zenon DEF MadeOf
  <2>2. k \in MadeOf(H, ts) <=> \E i \in 1 .. n : H[k] \in Range(ts[i].hits)
    BY <1>3, Zenon DEF MadeOf
  <2>3. H[k] \in Range(t.hits) <=> k \in U
    <3>1. \A j \in U : H[k] = H[j] => k = j
      BY Zenon DEF HitPointsOK, IsInjective
    <3> QED BY <1>7, <3>1, Zenon
  <2> QED BY <1>3, <1>4, <2>1, <2>2, <2>3, Zenon
<1>13. MadeOf(H, r) \subseteq DOMAIN H /\ MadeOf(H, ts) \subseteq DOMAIN H
  BY DEF MadeOf
<1>14. MadeOf(H, r) = MadeOf(H, ts) \cup U
  BY <1>12, <1>13, Zenon
<1> QED BY <1>11, <1>14, Zenon DEF r

(* Points of one hit each, of a set of hits                                *)
LEMMA PointsOfHits ==
  ASSUME HitPointsOK(fHitPoints), NEW ks \in SUBSET DOMAIN fHitPoints
  PROVE  LET add == SetToSeq(ks)
             q == [n \in DOMAIN add |-> PointOf(add[n])]
         IN  KeptOK(fHitPoints, q) /\ Uids(q) \subseteq ks
<1> DEFINE H == fHitPoints
           add == SetToSeq(ks)
           m == Cardinality(ks)
           q == [n \in DOMAIN add |-> PointOf(add[n])]
<1>1. IsFiniteSet(ks)
  <2>1. H \in Seq(Range(H))
    BY Zenon DEF HitPointsOK
  <2>2. DOMAIN H = 1 .. Len(H) /\ Len(H) \in Nat
    BY <2>1
  <2>3. IsFiniteSet(DOMAIN H)
    BY <2>2, FS_Interval
  <2> QED BY <2>3, FS_Subset
<1>2. m \in Nat /\ \E f \in [1 .. m -> ks] : IsInjective(f)
  <2>1. m \in Nat /\ ExistsBijection(1 .. m, ks)
    BY <1>1, FS_CardinalityType
  <2>2. PICK f : f \in Bijection(1 .. m, ks)
    BY <2>1, Zenon DEF ExistsBijection
  <2>3. f \in [1 .. m -> ks] /\ IsInjective(f)
    BY <2>2, Zenon DEF Bijection, Injection, IsInjective
  <2> QED BY <2>1, <2>3, Zenon
<1>3. add \in [1 .. m -> ks] /\ IsInjective(add)
  BY <1>2, Zenon DEF SetToSeq
<1> HIDE DEF add, m
<1>4. DOMAIN add = 1 .. m /\ \A n \in 1 .. m : add[n] \in ks /\ add[n] \in DOMAIN H
  BY <1>3, Zenon
<1>5. DOMAIN q = 1 .. m /\ \A n \in 1 .. m : q[n] = [ch |-> H[add[n]].ch, uids |-> <<add[n]>>]
  BY <1>4, Zenon DEF PointOf
<1> HIDE DEF q
<1>6. ASSUME NEW n \in 1 .. m
      PROVE  q[n] \in PointSet(H) /\ Range(q[n].uids) = {add[n]} /\ IsInjective(q[n].uids)
  <2> DEFINE p == [ch |-> H[add[n]].ch, uids |-> <<add[n]>>]
  <2>1. p \in PointSet(H) /\ Range(p.uids) = {add[n]}
    BY <1>4, OnePoint
  <2>2. q[n] = p
    BY <1>5, Zenon
  <2> HIDE DEF p
  <2> QED BY <2>1, <2>2 DEF PointSet
<1>7. q \in Seq(PointSet(H))
  <2>1. q \in [1 .. m -> PointSet(H)]
    <3>1. q = [n \in 1 .. m |-> q[n]]
      BY <1>4, <1>5, Zenon DEF q
    <3> QED BY <1>6, <3>1, Zenon
  <2> QED BY <1>2, <2>1
<1>8. ASSUME NEW i \in 1 .. m, NEW j \in 1 .. m, i # j
      PROVE  Range(q[i].uids) \cap Range(q[j].uids) = {}
  <2>1. add[i] # add[j]
    BY <1>3, <1>4, <1>8, Zenon DEF IsInjective
  <2> QED BY <1>6, <2>1, Zenon
<1>9. KeptOK(H, q)
  BY <1>5, <1>6, <1>7, <1>8, Zenon DEF KeptOK, Apiece
<1>10. ASSUME NEW u \in Uids(q) PROVE u \in ks
  <2>1. PICK n \in 1 .. m : u \in Range(q[n].uids)
    BY <1>5, UidsOf, Zenon
  <2> QED BY <1>4, <1>6, <2>1, Zenon
<1> QED BY <1>9, <1>10, Zenon DEF q, add

(* While there are pairs, there is a next one.                             *)
LEMMA NextPairOK ==
  ASSUME PairsLeft # {}, DOMAIN Trjs \subseteq Nat
  PROVE  NextPair \in PairsLeft
<1> DEFINE P == PairsLeft
           I == {p[1] : p \in P}
<1>1. \A p \in P : p[1] \in Nat /\ p[2] \in Nat
  BY DEF PairsLeft
<1> HIDE DEF P
<1>2. I # {} /\ I \subseteq Nat
  BY <1>1, Zenon DEF P
<1> DEFINE Least(i) == i \in I /\ \A k \in I : i <= k
<1>3. PICK i \in I : \A k \in I : i <= k
  <2> HIDE DEF I
  <2> QED BY <1>2, LeastNumber, Zenon
<1> DEFINE J == {p[2] : p \in {q \in P : q[1] = i}}
<1>4. J # {} /\ J \subseteq Nat
  BY <1>1, Zenon
<1>5. PICK j \in J : \A k \in J : j <= k
  <2> HIDE DEF J
  <2> QED BY <1>4, LeastNumber, Zenon
<1>6. PICK p \in P : p[1] = i /\ p[2] = j
  BY Zenon
<1>7. \A q \in P : p[1] < q[1] \/ (p[1] = q[1] /\ p[2] <= q[2])
  <2> SUFFICES ASSUME NEW q \in P PROVE p[1] < q[1] \/ (p[1] = q[1] /\ p[2] <= q[2])
    OBVIOUS
  <2>1. i <= q[1] /\ i \in Nat /\ q[1] \in Nat
    BY <1>1, <1>2, <1>3, Zenon
  <2>2. q[1] = i => j <= q[2]
    BY <1>5, Zenon
  <2>3. i < q[1] \/ i = q[1]
    BY <2>1
  <2> QED BY <1>6, <2>2, <2>3, Zenon
<1> QED BY <1>6, <1>7, Zenon DEF NextPair, P

(* Steps of a path                                                         *)
Steps == [ch : Int, hit : BOOLEAN]

(* One point more of a trajectory whose points are in c.seq                *)
PathNext(c, path, p) ==
  IF path = <<>> THEN <<[ch |-> p.ch, hit |-> TRUE]>>
  ELSE LET lastch == Last(path).ch
           sgn    == IF p.ch > lastch THEN 1 ELSE -1
           nch    == sgn * (p.ch - lastch)
       IN  path \o [k \in 1 .. nch |-> [ch |-> lastch + sgn * k, hit |-> k = nch]]

(* The path passes the first k points, in steps of one channel.            *)
PathInv(c, k, path) ==
  /\ path \in Seq(Steps)
  /\ path = <<>> <=> k = 0
  /\ k # 0 => /\ path[1].hit /\ path[Len(path)] = [ch |-> c.seq[k].ch, hit |-> TRUE]
              /\ \A j \in 2 .. Len(path) : path[j].ch = path[j - 1].ch + c.sgn
              /\ \A x : (\E j \in 1 .. Len(path) : path[j].hit /\ path[j].ch = x)
                          <=> \E i \in 1 .. k : c.seq[i].ch = x

(* The path, as a fold over the points                                     *)
PathFold == INSTANCE FoldTheorems WITH Step <- PathNext, Inv <- PathInv

(* Channels in one direction                                               *)
Directed(ps, s) ==
  \A n, m \in DOMAIN ps : n < m => IF s = 1 THEN ps[n].ch < ps[m].ch ELSE ps[m].ch < ps[n].ch

(* Steps from channel a to channel b                                       *)
StepsTo(a, b, s, n, e) ==
  /\ n \in Nat \ {0} /\ e \in Seq(Steps) /\ Len(e) = n
  /\ e[1].ch = a + s
  /\ \A j \in 2 .. n : e[j].ch = e[j - 1].ch + s
  /\ e[n] = [ch |-> b, hit |-> TRUE]
  /\ \A j \in 1 .. n : e[j].hit => j = n

(* A step of a path                                                        *)
LEMMA StepFields ==
  ASSUME NEW a \in Int, NEW P
  PROVE  LET r == [ch |-> a, hit |-> P = {}]
         IN  r.ch = a /\ r.hit = (P = {}) /\ r \in Steps
BY DEF Steps

(* From channel to channel                                                 *)
LEMMA StepsBetween ==
  ASSUME NEW a \in Int, NEW b \in Int, NEW s \in {1, -1}, IF s = 1 THEN a < b ELSE b < a
  PROVE  LET sgn == IF b > a THEN 1 ELSE -1
             nch == sgn * (b - a)
         IN  sgn = s /\ StepsTo(a, b, s, nch, [k \in 1 .. nch |-> [ch |-> a + sgn * k, hit |-> k = nch]])
<1> DEFINE sgn == IF b > a THEN 1 ELSE -1
           nch == sgn * (b - a)
           e == [k \in 1 .. nch |-> [ch |-> a + sgn * k, hit |-> k = nch]]
<1>1. sgn = s
  BY SMT
<1>2. nch \in Nat \ {0} /\ a + s * nch = b
  <2>1. CASE s = 1
    <3>1. nch = b - a
      BY <1>1, <2>1
    <3> HIDE DEF nch
    <3> QED BY <2>1, <3>1
  <2>2. CASE s = -1
    <3>1. nch = a - b
      BY <1>1, <2>2
    <3> HIDE DEF nch
    <3> QED BY <2>2, <3>1
  <2> QED BY <2>1, <2>2
<1>3. e = [k \in 1 .. nch |-> [ch |-> a + s * k, hit |-> k = nch]]
  <2> HIDE DEF nch, sgn
  <2> QED BY <1>1
<1> HIDE DEF nch, sgn, e
<1>4. \A k \in 1 .. nch : e[k] = [ch |-> a + s * k, hit |-> k = nch]
  BY <1>3, Zenon
<1>5. \A k \in 1 .. nch : a + s * k \in Int
  BY <1>2
<1>6. ASSUME NEW k \in 1 .. nch
      PROVE  e[k].ch = a + s * k /\ (e[k].hit <=> k = nch) /\ e[k] \in Steps
  <2> DEFINE v == a + s * k
             last == k = nch
  <2>1. e[k] = [ch |-> v, hit |-> last] /\ v \in Int
    BY <1>4, <1>5, Zenon
  <2>2. last \in BOOLEAN
    OBVIOUS
  <2> HIDE DEF v, last
  <2>3. e[k].ch = v /\ e[k].hit = last
    BY <2>1, <2>2
  <2>4. e[k] \in Steps
    BY <2>1, <2>2 DEF Steps
  <2>5. e[k].hit <=> last
    BY <2>3, Zenon
  <2> QED BY <2>3, <2>4, <2>5, Zenon DEF v, last
<1>7. e \in Seq(Steps) /\ Len(e) = nch
  <2>1. e \in [1 .. nch -> Steps]
    BY <1>3, <1>6, Zenon
  <2> QED BY <1>2, <2>1
<1>8. e[1].ch = a + s
  <2>1. 1 \in 1 .. nch /\ a + s * 1 = a + s
    BY <1>2
  <2> QED BY <1>6, <2>1, Zenon
<1>9. ASSUME NEW j \in 2 .. nch PROVE e[j].ch = e[j - 1].ch + s
  <2>1. j \in 1 .. nch /\ j - 1 \in 1 .. nch
    BY <1>2
  <2>2. a + s * j = (a + s * (j - 1)) + s
    BY <1>2
  <2> QED BY <1>6, <2>1, <2>2, Zenon
<1>10. e[nch] = [ch |-> b, hit |-> TRUE]
  <2>1. nch \in 1 .. nch
    BY <1>2
  <2> QED BY <1>2, <1>4, <2>1
<1>11. \A j \in 1 .. nch : e[j].hit => j = nch
  BY <1>6, Zenon
<1>12. StepsTo(a, b, s, nch, e)
  BY <1>2, <1>7, <1>8, <1>9, <1>10, <1>11, Zenon DEF StepsTo
<1> QED BY <1>1, <1>12, Zenon DEF e, nch, sgn

(* The path goes on to the next point.                                     *)
LEMMA PathNextOK ==
  ASSUME NEW c, NEW n \in Nat, DOMAIN c.seq = 1 .. n, c.sgn \in {1, -1},
         \A i \in 1 .. n : c.seq[i].ch \in Int, Directed(c.seq, c.sgn),
         NEW k \in 0 .. n - 1, NEW path, PathInv(c, k, path)
  PROVE  PathInv(c, k + 1, PathNext(c, path, c.seq[k + 1]))
<1> DEFINE b == c.seq[k + 1].ch
           s == c.sgn
           new == PathNext(c, path, c.seq[k + 1])
<1>1. /\ k \in Nat /\ k + 1 \in 1 .. n /\ k + 1 # 0 /\ \A i : i \in 1 .. k + 1 <=> i \in 1 .. k \/ i = k + 1
  OBVIOUS
<1>2. b \in Int /\ s \in {1, -1} /\ s \in Int
  BY <1>1
<1>3. path \in Seq(Steps) /\ (path = <<>> <=> k = 0)
  BY Zenon DEF PathInv
<1>4. CASE k = 0
  <2> DEFINE e == <<[ch |-> b, hit |-> TRUE]>>
  <2>1. new = e
    BY <1>3, <1>4, Zenon DEF PathNext
  <2> HIDE DEF new, s
  <2>2. e[1] = [ch |-> b, hit |-> TRUE] /\ Len(e) = 1 /\ e # <<>>
    OBVIOUS
  <2>3. [ch |-> b, hit |-> TRUE] \in Steps /\ [ch |-> b, hit |-> TRUE].hit /\ [ch |-> b, hit |-> TRUE].ch = b
    BY <1>2 DEF Steps
  <2> DEFINE r == [ch |-> b, hit |-> TRUE]
  <2>4. e = <<r>>
    OBVIOUS
  <2> HIDE DEF e, b, r
  <2>5. e \in Seq(Steps)
    BY <2>3, <2>4 DEF r
  <2>6. 0 + 1 = 1 /\ 1 # 0 /\ \A i : (i \in 1 .. 1 <=> i = 1) /\ i \notin 2 .. 1
    OBVIOUS
  <2>7. c.seq[1].ch = b
    BY <1>4, <2>6, Zenon DEF b
  <2>8. e[1].hit /\ e[1].ch = b
    BY <2>2, <2>3, Zenon
  <2>9. \A x : (\E j \in 1 .. 1 : e[j].hit /\ e[j].ch = x) <=> \E i \in 1 .. 1 : c.seq[i].ch = x
    BY <2>6, <2>7, <2>8, Zenon
  <2>10. e[1] = [ch |-> c.seq[1].ch, hit |-> TRUE]
    BY <2>2, <2>7, Zenon
  <2>11. \A j \in 2 .. 1 : e[j].ch = e[j - 1].ch + c.sgn
    BY <2>6, Zenon
  <2>12. PathInv(c, 1, e)
    <3>1. \A j \in 2 .. Len(e) : e[j].ch = e[j - 1].ch + c.sgn
      BY <2>2, <2>11, Zenon
    <3>2. \A x : (\E j \in 1 .. Len(e) : e[j].hit /\ e[j].ch = x) <=> \E i \in 1 .. 1 : c.seq[i].ch = x
      BY <2>2, <2>9, Zenon
    <3>3. e[Len(e)] = [ch |-> c.seq[1].ch, hit |-> TRUE]
      BY <2>2, <2>10, Zenon
    <3> QED BY <2>2, <2>5, <2>6, <2>8, <3>1, <3>2, <3>3 DEF PathInv
  <2> QED BY <1>4, <2>1, <2>6, <2>12, Zenon DEF new
<1>5. CASE k # 0
  <2> DEFINE a == c.seq[k].ch
             sgn == IF b > a THEN 1 ELSE -1
             nch == sgn * (b - a)
             e == [i \in 1 .. nch |-> [ch |-> a + sgn * i, hit |-> i = nch]]
             l == Len(path)
  <2>1. /\ path # <<>> /\ path[1].hit /\ path[l] = [ch |-> a, hit |-> TRUE]
        /\ \A j \in 2 .. l : path[j].ch = path[j - 1].ch + s
        /\ \A x : (\E j \in 1 .. l : path[j].hit /\ path[j].ch = x) <=> \E i \in 1 .. k : c.seq[i].ch = x
    BY <1>3, <1>5, Zenon DEF PathInv
  <2>2. path[l].ch = a
    BY <2>1
  <2>3. k \in 1 .. n /\ k < k + 1
    BY <1>1, <1>5
  <2>4. a \in Int
    BY <2>3
  <2>5. IF s = 1 THEN a < b ELSE b < a
    BY <1>1, <2>3, Zenon DEF Directed
  <2>6. new = path \o e
    BY <2>1, <2>2, Zenon DEF PathNext, Last
  <2> HIDE DEF a, b, s
  <2>7. StepsTo(a, b, s, nch, e)
    BY <1>2, <2>4, <2>5, StepsBetween
  <2> HIDE DEF new, e, nch, sgn
  <2>8. /\ nch \in Nat \ {0} /\ e \in Seq(Steps) /\ Len(e) = nch
        /\ e[1].ch = a + s
        /\ \A j \in 2 .. nch : e[j].ch = e[j - 1].ch + s
        /\ e[nch] = [ch |-> b, hit |-> TRUE]
        /\ \A j \in 1 .. nch : e[j].hit => j = nch
    BY <2>7, Zenon DEF StepsTo
  <2>9. l \in Nat \ {0}
    BY <1>3, <2>1, EmptySeq
  <2> HIDE DEF l
  <2>10. /\ new \in Seq(Steps) /\ Len(new) = l + nch
         /\ \A i \in 1 .. l + nch : new[i] = IF i <= l THEN path[i] ELSE e[i - l]
    <3>1. /\ new \in Seq(Steps) /\ Len(new) = Len(path) + Len(e)
          /\ \A i \in 1 .. Len(path) + Len(e) : new[i] = IF i <= Len(path) THEN path[i] ELSE e[i - Len(path)]
      <4>1. path \in Seq(Steps) /\ e \in Seq(Steps)
        BY <1>3, <2>8, Zenon
      <4>2. /\ path \o e \in Seq(Steps) /\ Len(path \o e) = Len(path) + Len(e)
            /\ \A i \in 1 .. Len(path) + Len(e) :
                 (path \o e)[i] = IF i <= Len(path) THEN path[i] ELSE e[i - Len(path)]
        BY <4>1, ConcatProperties, Zenon
      <4> QED BY <2>6, <4>2, Zenon
    <3> QED BY <2>8, <3>1, Zenon DEF l
  <2>11. \A i \in 1 .. l : i \in 1 .. l + nch /\ new[i] = path[i]
    <3>1. \A i \in 1 .. l : i \in 1 .. l + nch /\ i <= l
      BY <2>8, <2>9
    <3> QED BY <2>10, <3>1, Zenon
  <2>12. \A i \in 1 .. nch : l + i \in 1 .. l + nch /\ new[l + i] = e[i]
    <3> SUFFICES ASSUME NEW i \in 1 .. nch PROVE l + i \in 1 .. l + nch /\ new[l + i] = e[i]
      OBVIOUS
    <3>1. l + i \in 1 .. l + nch /\ ~(l + i <= l) /\ (l + i) - l = i
      BY <2>8, <2>9
    <3> QED BY <2>10, <3>1, Zenon
  <2>13. ASSUME NEW i \in 1 .. l + nch
         PROVE  i \in 1 .. l \/ \E m \in 1 .. nch : i = l + m
    <3>1. i \in 1 .. l \/ (i - l \in 1 .. nch /\ i = l + (i - l))
      BY <2>8, <2>9
    <3> QED BY <3>1, Zenon
  <2>14. new # <<>> /\ new[1].hit
    <3>1. 1 \in 1 .. l /\ l + nch # 0
      BY <2>8, <2>9
    <3> QED BY <2>1, <2>10, <2>11, <3>1, LenProperties, Zenon
  <2>15. new[l + nch] = [ch |-> b, hit |-> TRUE]
    <3>1. nch \in 1 .. nch
      BY <2>8
    <3> QED BY <2>8, <2>12, <3>1, Zenon
  <2>16. ASSUME NEW j \in 2 .. l + nch PROVE new[j].ch = new[j - 1].ch + s
    <3>1. CASE j \in 2 .. l
      <4>1. j \in 1 .. l /\ j - 1 \in 1 .. l
        BY <2>9, <3>1
      <4> QED BY <2>1, <2>11, <3>1, <4>1, Zenon
    <3>2. CASE j = l + 1
      <4>1. 1 \in 1 .. nch /\ l \in 1 .. l /\ j - 1 = l
        BY <2>8, <2>9, <3>2
      <4> QED BY <2>2, <2>8, <2>11, <2>12, <3>2, <4>1, Zenon DEF l
    <3>3. CASE j \in l + 2 .. l + nch
      <4>1. PICK m \in 2 .. nch : m = j - l
        <5>1. j - l \in 2 .. nch
          BY <2>8, <2>9, <3>3
        <5> QED BY <5>1, Zenon
      <4>2. j = l + m /\ j - 1 = l + (m - 1) /\ m \in 1 .. nch /\ m - 1 \in 1 .. nch
        BY <2>8, <2>9, <4>1
      <4> QED BY <2>8, <2>12, <4>2, Zenon
    <3>4. j \in 2 .. l \/ j = l + 1 \/ j \in l + 2 .. l + nch
      BY <2>8, <2>9
    <3> QED BY <3>1, <3>2, <3>3, <3>4
  <2>17. ASSUME NEW x
         PROVE  (\E j \in 1 .. l + nch : new[j].hit /\ new[j].ch = x)
                  <=> \E i \in 1 .. k + 1 : c.seq[i].ch = x
    <3>1. nch \in 1 .. nch
      BY <2>8
    <3>2. e[nch].hit /\ e[nch].ch = b
      BY <2>8
    <3>3. ASSUME NEW j \in 1 .. l + nch, new[j].hit, new[j].ch = x
          PROVE  \E i \in 1 .. k + 1 : c.seq[i].ch = x
      <4>1. CASE j \in 1 .. l
        BY <1>1, <2>1, <2>11, <3>3, <4>1, Zenon
      <4>2. CASE \E m \in 1 .. nch : j = l + m
        <5>1. PICK m \in 1 .. nch : j = l + m
          BY <4>2
        <5>2. m = nch
          BY <2>8, <2>12, <3>3, <5>1, Zenon
        <5>3. x = b
          BY <2>12, <3>1, <3>2, <3>3, <5>1, <5>2, Zenon
        <5> QED BY <1>1, <5>3, Zenon DEF b
      <4> QED BY <2>13, <4>1, <4>2, Zenon
    <3>4. ASSUME NEW i \in 1 .. k + 1, c.seq[i].ch = x
          PROVE  \E j \in 1 .. l + nch : new[j].hit /\ new[j].ch = x
      <4>1. CASE i \in 1 .. k
        <5>1. PICK j \in 1 .. l : path[j].hit /\ path[j].ch = x
          BY <2>1, <3>4, <4>1, Zenon
        <5>2. j \in 1 .. l + nch /\ new[j] = path[j]
          BY <2>11, Zenon
        <5> QED BY <5>1, <5>2, Zenon
      <4>2. CASE i = k + 1
        BY <2>12, <3>1, <3>2, <3>4, <4>2, Zenon DEF b
      <4> QED BY <1>1, <4>1, <4>2, Zenon
    <3> QED BY <3>3, <3>4, Zenon
  <2>18. PathInv(c, k + 1, new)
    <3> DEFINE k1 == k + 1
               z == l + nch
    <3>1. /\ new \in Seq(Steps) /\ (new = <<>> <=> k1 = 0) /\ Len(new) = z
          /\ new[1].hit /\ new[z] = [ch |-> c.seq[k1].ch, hit |-> TRUE]
          /\ \A j \in 2 .. z : new[j].ch = new[j - 1].ch + c.sgn
          /\ \A x : (\E j \in 1 .. z : new[j].hit /\ new[j].ch = x) <=> \E i \in 1 .. k1 : c.seq[i].ch = x
      BY <1>1, <2>10, <2>14, <2>15, <2>16, <2>17, Zenon DEF b, s
    <3> HIDE DEF k1, z
    <3>2. \A j \in 2 .. Len(new) : new[j].ch = new[j - 1].ch + c.sgn
      BY <3>1, Zenon
    <3>3. ASSUME NEW x
          PROVE  (\E j \in 1 .. Len(new) : new[j].hit /\ new[j].ch = x) <=> \E i \in 1 .. k1 : c.seq[i].ch = x
      <4> DEFINE P(j) == new[j].hit /\ new[j].ch = x
                 Q == \E i \in 1 .. k1 : c.seq[i].ch = x
      <4>1. (\E j \in 1 .. z : P(j)) <=> Q
        BY <3>1, Zenon
      <4>2. Len(new) = z
        BY <3>1, Zenon
      <4> HIDE DEF P, Q
      <4>3. (\E j \in 1 .. Len(new) : P(j)) <=> Q
        BY <4>1, <4>2
      <4> QED BY <4>3, Zenon DEF P, Q
    <3>4. new[Len(new)] = [ch |-> c.seq[k1].ch, hit |-> TRUE]
      BY <3>1, Zenon
    <3>5. new \in Seq(Steps) /\ (new = <<>> <=> k1 = 0) /\ new[1].hit
      BY <3>1, Zenon
    <3>6. PathInv(c, k1, new)
      BY <3>2, <3>3, <3>4, <3>5 DEF PathInv
    <3> QED BY <3>6, Zenon DEF k1
  <2> QED BY <2>18, Zenon DEF new
<1> QED BY <1>4, <1>5

(* The path past all points                                                *)
PathFrom(ps, s, path) ==
  /\ path \in Seq(Steps) /\ path # <<>> /\ path[1].hit /\ path[Len(path)].hit
  /\ \A j \in 2 .. Len(path) : path[j].ch = path[j - 1].ch + s
  /\ \A x : (\E j \in 1 .. Len(path) : path[j].hit /\ path[j].ch = x) <=> \E i \in DOMAIN ps : ps[i].ch = x

(* Points in one direction have such a path.                               *)
LEMMA PathOK ==
  ASSUME NEW ps, NEW n \in Nat \ {0}, DOMAIN ps = 1 .. n, Len(ps) = n, NEW s \in {1, -1},
         \A i \in 1 .. n : ps[i].ch \in Int, Directed(ps, s)
  PROVE  PathFrom(ps, s, Path(ps))
<1> DEFINE c == [seq |-> ps, sgn |-> s]
           r == Path(ps)
<1>1. c.seq = ps /\ c.sgn = s
  OBVIOUS
<1> HIDE DEF c, r
<1>2. PathInv(c, 0, <<>>)
  <2>1. <<>> \in Seq(Steps)
    OBVIOUS
  <2> QED BY <2>1, Zenon DEF PathInv
<1>3. ASSUME NEW k \in 0 .. n - 1, NEW acc, PathInv(c, k, acc)
      PROVE  PathInv(c, k + 1, PathNext(c, acc, ps[k + 1]))
  BY <1>1, <1>3, PathNextOK
<1>4. PathInv(c, n, PathFold!Fold(c, <<>>, ps))
  BY <1>2, <1>3, PathFold!FoldInvariant, Zenon
<1>5. r = PathFold!Fold(c, <<>>, ps)
  BY Zenon DEF r, Path, PathFold!Fold, PathNext, PathFold!FoldLeft, PathFold!MapThenFoldSet,
               FoldLeft, MapThenFoldSet, PathFold!Max, Max
<1>6. PathInv(c, n, r)
  BY <1>4, <1>5, Zenon
<1>7. n # 0
  OBVIOUS
<1>8. /\ r \in Seq(Steps) /\ r # <<>> /\ r[1].hit /\ r[Len(r)] = [ch |-> c.seq[n].ch, hit |-> TRUE]
      /\ \A j \in 2 .. Len(r) : r[j].ch = r[j - 1].ch + c.sgn
      /\ \A x : (\E j \in 1 .. Len(r) : r[j].hit /\ r[j].ch = x) <=> \E i \in 1 .. n : c.seq[i].ch = x
  BY <1>6, <1>7, Zenon DEF PathInv
<1>9. r[Len(r)].hit
  BY <1>8
<1>10. \A j \in 2 .. Len(r) : r[j].ch = r[j - 1].ch + s
  BY <1>1, <1>8, Zenon
<1>11. ASSUME NEW x
       PROVE  (\E j \in 1 .. Len(r) : r[j].hit /\ r[j].ch = x) <=> \E i \in DOMAIN ps : ps[i].ch = x
  <2> DEFINE P == \E j \in 1 .. Len(r) : r[j].hit /\ r[j].ch = x
             Q(q, d) == \E i \in d : q[i].ch = x
  <2>1. P <=> Q(c.seq, 1 .. n)
    <3>1. \A y : (\E j \in 1 .. Len(r) : r[j].hit /\ r[j].ch = y) <=> \E i \in 1 .. n : c.seq[i].ch = y
      BY <1>6, <1>7, Zenon DEF PathInv
    <3> QED BY <3>1
  <2> HIDE DEF P, Q
  <2>2. P <=> Q(ps, DOMAIN ps)
    BY <1>1, <2>1
  <2> QED BY <2>2, Zenon DEF P, Q
<1> QED BY <1>8, <1>9, <1>10, <1>11, Zenon DEF PathFrom, r

(* Points of a trajectory from either end                                  *)
LEMMA EitherEnd ==
  ASSUME NEW H, NEW ps, PointsOK(H, ps)
  PROVE  /\ Directed(ps, 1) /\ Directed(Reverse(ps), -1) /\ Len(Reverse(ps)) = Len(ps)
         /\ ps # <<>> => Reverse(ps)[1] = Last(ps) /\ Last(Reverse(ps)) = ps[1]
<1> DEFINE n == Len(ps)
           r == Reverse(ps)
<1>1. ps \in Seq(PointSet(H)) /\ \A i, j \in DOMAIN ps : i < j => ps[i].ch < ps[j].ch
  BY Zenon DEF PointsOK
<1>2. n \in Nat /\ DOMAIN ps = 1 .. n
  BY <1>1
<1>3. r = [i \in 1 .. n |-> ps[(n - i) + 1]]
  BY Zenon DEF Reverse
<1> HIDE DEF r, n
<1>4. DOMAIN r = 1 .. n /\ \A i \in 1 .. n : r[i] = ps[(n - i) + 1]
  BY <1>3, Zenon
<1>5. Len(r) = n
  BY <1>2, <1>3
<1>6. Directed(r, -1)
  <2> SUFFICES ASSUME NEW i \in 1 .. n, NEW j \in 1 .. n, i < j PROVE r[j].ch < r[i].ch
    <3>1. -1 # 1
      OBVIOUS
    <3> QED BY <1>4, <3>1, Zenon DEF Directed
  <2>1. (n - i) + 1 \in 1 .. n /\ (n - j) + 1 \in 1 .. n /\ (n - j) + 1 < (n - i) + 1
    BY <1>2
  <2> QED BY <1>1, <1>2, <1>4, <2>1, Zenon
<1>7. Directed(ps, 1)
  BY <1>1, Zenon DEF Directed
<1>8. ASSUME ps # <<>> PROVE r[1] = ps[n] /\ r[n] = ps[1]
  <2>1. n # 0
    BY <1>1, <1>8, EmptySeq, Zenon DEF n
  <2>2. 1 \in 1 .. n /\ n \in 1 .. n /\ (n - 1) + 1 = n /\ (n - n) + 1 = 1
    BY <1>2, <2>1
  <2> QED BY <1>4, <2>2, Zenon
<1> QED BY <1>5, <1>6, <1>7, <1>8, Zenon DEF r, n, Last

(* Tracks are complete.                                                    *)
LEMMA TrackComplete ==
  ASSUME HitPointsOK(fHitPoints), NEW t, PointsOK(fHitPoints, t.points), t.points # <<>>
  PROVE  TrackOK(Track(t)) /\ Track(t).drays = <<>>
<1> DEFINE H == fHitPoints
           y(p) == H[p.uids[1]].start
           up   == y(t.points[1]) < y(Last(t.points))
           ps   == IF up THEN t.points ELSE Reverse(t.points)
           k    == Track(t)
           n    == Len(t.points)
           s    == IF up THEN 1 ELSE -1
<1>1. k.path = Path(ps) /\ k.start = y(ps[1]) /\ k.end = y(Last(ps)) /\ k.drays = <<>>
  BY DEF Track
<1>2. t.points \in Seq(PointSet(H)) /\ n \in Nat \ {0}
  <2>1. t.points \in Seq(PointSet(H))
    BY Zenon DEF PointsOK
  <2> QED BY <2>1, EmptySeq
<1>3. HitsAre(H, k.hits, Uids(t.points))
  BY TrackHits
<1> HIDE DEF k
<1>4. KeptOK(H, t.points)
  BY PointsApart, Zenon DEF KeptOK, PointsOK
<1>5. KeptOK(H, ps) /\ Uids(ps) = Uids(t.points) /\ Len(ps) = n /\ Directed(ps, s)
  <2> HIDE DEF up
  <2>1. CASE up
    BY <1>4, <2>1, EitherEnd, Zenon
  <2>2. CASE ~up
    BY <1>4, <2>2, EitherEnd, Turned, Zenon
  <2> QED BY <2>1, <2>2
<1>6. DOMAIN ps = 1 .. n /\ \A i \in DOMAIN ps : ps[i] \in PointSet(H)
  <2> HIDE DEF ps
  <2>1. ps \in Seq(PointSet(H))
    BY <1>5, Zenon DEF KeptOK
  <2> QED BY <1>5, <2>1
<1>7. ASSUME NEW p \in PointSet(H)
      PROVE  /\ p.ch \in Int /\ p.uids[1] \in Range(p.uids) /\ Range(p.uids) \subseteq DOMAIN H
             /\ \A u \in Range(p.uids) : H[u].ch = p.ch
  <2>1. p.ch \in Int /\ p.uids \in Seq(DOMAIN H) /\ p.uids # <<>> /\ \A u \in Range(p.uids) : H[u].ch = p.ch
    BY DEF PointSet
  <2>2. 1 \in DOMAIN p.uids
    BY <2>1, EmptySeq
  <2>3. Range(p.uids) \subseteq DOMAIN H
    BY <2>1 DEF Range
  <2> QED BY <2>1, <2>2, <2>3, Zenon DEF Range
<1>8. \A p \in PointSet(H) : y(p) \in Int
  <2>1. \A u \in DOMAIN H : H[u].start \in Int
    BY Zenon DEF HitPointsOK
  <2> QED BY <1>7, <2>1, Zenon
<1>9. k.start <= k.end
  <2> DEFINE a == t.points[1]
             b == Last(t.points)
  <2>1. a \in PointSet(H) /\ b \in PointSet(H)
    BY <1>2 DEF Last
  <2>2. y(a) \in Int /\ y(b) \in Int
    BY <1>8, <2>1, Zenon
  <2>3. CASE up
    <3>1. k.start = y(a) /\ k.end = y(b)
      BY <1>1, <2>3, Zenon
    <3>2. y(a) < y(b)
      BY <2>3
    <3> HIDE DEF y
    <3> QED BY <2>2, <3>1, <3>2
  <2>4. CASE ~up
    <3>1. Reverse(t.points)[1] = b /\ Last(Reverse(t.points)) = a
      BY EitherEnd, Zenon
    <3>2. k.start = y(b) /\ k.end = y(a)
      <4>1. ps = Reverse(t.points)
        BY <2>4, Zenon
      <4> HIDE DEF ps, y, a, b
      <4> QED BY <1>1, <3>1, <4>1, Zenon
    <3>3. ~(y(a) < y(b))
      BY <2>4
    <3> HIDE DEF y
    <3> QED BY <2>2, <3>2, <3>3
  <2> QED BY <2>3, <2>4
<1> HIDE DEF ps, s, n, y
<1>10. PathFrom(ps, s, Path(ps))
  <2>1. s \in {1, -1}
    BY DEF s
  <2>2. \A i \in 1 .. n : ps[i].ch \in Int
    <3>1. \A i \in 1 .. n : ps[i] \in PointSet(H)
      BY <1>6, Zenon
    <3> QED BY <1>7, <3>1, Zenon
  <2> QED BY <1>2, <1>5, <1>6, <2>1, <2>2, PathOK
<1> DEFINE path == k.path
<1>11. /\ path \in Seq(Steps) /\ path # <<>> /\ path[1].hit /\ path[Len(path)].hit
       /\ \A j \in 2 .. Len(path) : path[j].ch = path[j - 1].ch + s
  BY <1>1, <1>10, Zenon DEF PathFrom
<1>12. ASSUME NEW x
       PROVE  (\E j \in 1 .. Len(path) : path[j].hit /\ path[j].ch = x) <=> \E i \in DOMAIN ps : ps[i].ch = x
  <2>1. PathFrom(ps, s, path)
    BY <1>1, <1>10, Zenon
  <2> HIDE DEF path
  <2> QED BY <2>1 DEF PathFrom
<1> HIDE DEF path
<1>13. DOMAIN path = 1 .. Len(path) /\ Len(path) \in Nat
  BY <1>11
<1>14. \E sgn \in {1, -1} : \A j \in DOMAIN path \ {1} : path[j].ch = path[j - 1].ch + sgn
  <2>1. s \in {1, -1}
    BY DEF s
  <2>2. \A j \in DOMAIN path \ {1} : j \in 2 .. Len(path)
    BY <1>13
  <2> QED BY <1>11, <2>1, <2>2, Zenon
<1>15. {h.ch : h \in Range(k.hits)} = {p.ch : p \in {q \in Range(path) : q.hit}}
  <2> DEFINE X == {h.ch : h \in Range(k.hits)}
             Z == {p.ch : p \in {q \in Range(path) : q.hit}}
  <2>1. ASSUME NEW x PROVE x \in X <=> \E u \in Uids(ps) : H[u].ch = x
    <3>1. Range(k.hits) = {H[u] : u \in Uids(ps)}
      BY <1>3, <1>5, Zenon DEF HitsAre
    <3> QED BY <3>1
  <2>2. ASSUME NEW x PROVE x \in Z <=> \E j \in DOMAIN path : path[j].hit /\ path[j].ch = x
    BY DEF Range
  <2> HIDE DEF X, Z
  <2>3. ASSUME NEW x PROVE (\E u \in Uids(ps) : H[u].ch = x) <=> \E i \in DOMAIN ps : ps[i].ch = x
    <3>1. \A i \in DOMAIN ps : ps[i] \in PointSet(H)
      BY <1>6, Zenon
    <3>2. ASSUME NEW u \in Uids(ps), H[u].ch = x PROVE \E i \in DOMAIN ps : ps[i].ch = x
      <4>1. PICK i \in DOMAIN ps : u \in Range(ps[i].uids)
        BY UidsOf, Zenon
      <4> QED BY <1>7, <3>1, <3>2, <4>1, Zenon
    <3>3. ASSUME NEW i \in DOMAIN ps, ps[i].ch = x PROVE \E u \in Uids(ps) : H[u].ch = x
      <4>1. ps[i].uids[1] \in Range(ps[i].uids) /\ H[ps[i].uids[1]].ch = x
        BY <1>7, <3>1, <3>3, Zenon
      <4>2. ps[i].uids[1] \in Uids(ps)
        BY <4>1, UidsOf, Zenon
      <4> QED BY <4>1, <4>2, Zenon
    <3> QED BY <3>2, <3>3, Zenon
  <2>4. \A x : x \in X <=> x \in Z
    BY <1>12, <1>13, <2>1, <2>2, <2>3
  <2>5. X = Z
    BY <2>4, Zenon
  <2> QED BY <2>5, Zenon DEF X, Z
<1>16. path[1].hit /\ Last(path).hit
  BY <1>11, Zenon DEF Last
<1>17. TrackOK(k)
  BY <1>9, <1>14, <1>15, <1>16, Zenon DEF TrackOK, path
<1> QED BY <1>1, <1>17, Zenon DEF k

-----------------------------------------------------------------------------
(* The inductive invariant of the builder, step by step                    *)

(* A walk along the channels                                               *)
WalkRec(H) ==
  [dir : Int, nextch : Int, gap : Int, reset : Int, tmp : Seq(PointSet(H)), n : Int]

(* A pair of trajectories looked at                                        *)
PairRec == [i : Int, j : Int, joined : BOOLEAN, short : BOOLEAN]

(* Points kept back by the walk                                            *)
Kept == IF phase = "expand" /\ walk # <<>> THEN walk.tmp ELSE <<>>

(* Hits and their flags; every hit before the next seed was tried.         *)
FlagsInv ==
  /\ phase \in {"idle", "seed", "expand", "join", "select"}
  /\ HitPointsOK(fHitPoints) /\ Flags(fHitPoints, fHitsInUse)
  /\ hitIdx \in 0 .. Len(fHitPoints)
  /\ \A k \in 1 .. hitIdx : fHitsInUse[k] # 0

(* A builder without hits rests.                                           *)
IdleInv == phase = "idle" => BuilderIdle

(* Trajectories that grow have taken hits, and none has one of another.    *)
GrowInv ==
  phase \in {"seed", "expand"} =>
    /\ TrjsOK(fHitPoints, fTrjs) /\ NoneEmpty(fTrjs) /\ HeldBy(fTrjs) \subseteq Taken(fHitsInUse)
    /\ trjsLong = <<>> /\ trjsShort = <<>> /\ found = <<>>

(* Nor have the points kept back.                                          *)
WalkInv ==
  /\ phase # "expand" => walk = <<>>
  /\ phase = "expand" =>
       /\ fTrjs # <<>> /\ (walk # <<>> => walk \in WalkRec(fHitPoints))
       /\ KeptOK(fHitPoints, Kept) /\ Uids(Kept) \subseteq Taken(fHitsInUse)
       /\ Uids(Kept) \cap HeldBy(fTrjs) = {}

(* Long and short trajectories and the tracks made have taken hits, too.   *)
SelectInv ==
  phase \in {"join", "select"} =>
    /\ fTrjs = <<>> /\ hitIdx = Len(fHitPoints)
    /\ TrjsOK(fHitPoints, trjsLong) /\ TrjsOK(fHitPoints, trjsShort)
    /\ HeldBy(trjsLong) \subseteq Taken(fHitsInUse) /\ HeldBy(trjsShort) \subseteq Taken(fHitsInUse)
    /\ HeldBy(trjsLong) \cap HeldBy(trjsShort) = {}
    /\ FoundOK(fHitPoints, found) /\ MadeOf(fHitPoints, found) \subseteq Taken(fHitsInUse)
    /\ MadeOf(fHitPoints, found) \cap HeldBy(trjsLong) = {}
    /\ MadeOf(fHitPoints, found) \cap HeldBy(trjsShort) = {}

(* Only joining empties a trajectory, of the list it works on; a pass that *)
(* joined two has emptied one.                                             *)
JoinInv ==
  /\ phase = "join" =>
       /\ pair \in PairRec
       /\ pair.joined <=> ~NoneEmpty(Trjs)
       /\ pair.short => NoneEmpty(trjsLong)
       /\ ~pair.short => NoneEmpty(trjsShort)
  /\ phase = "select" => NoneEmpty(trjsLong) /\ NoneEmpty(trjsShort)

(* The inductive invariant of the builder                                  *)
BuilderInv == FlagsInv /\ IdleInv /\ GrowInv /\ WalkInv /\ SelectInv /\ JoinInv

(* Hits taken, and hits set free                                           *)
LEMMA FlagTaken ==
  ASSUME NEW H, NEW use, Flags(H, use), NEW hs
  PROVE  /\ Flags(H, Flagged(use, hs, 1))
         /\ \A k \in DOMAIN H : use[k] # 0 => Flagged(use, hs, 1)[k] # 0
         /\ \A k \in hs \cap DOMAIN H : Flagged(use, hs, 1)[k] = 1
         /\ Taken(Flagged(use, hs, 1)) = Taken(use) \cup (hs \cap DOMAIN H)
<1> DEFINE new == Flagged(use, hs, 1)
<1>1. DOMAIN use = DOMAIN H /\ \A k \in DOMAIN H : use[k] \in {-1, 0, 1}
  BY DEF Flags
<1>2. new = [k \in DOMAIN H |-> IF k \in hs THEN 1 ELSE use[k]]
  BY <1>1, Zenon DEF Flagged
<1> HIDE DEF new
<1>3. DOMAIN new = DOMAIN H /\ \A k \in DOMAIN H : new[k] = IF k \in hs THEN 1 ELSE use[k]
  BY <1>2, Zenon
<1>4. \A k \in DOMAIN H : new[k] \in {-1, 0, 1} /\ (use[k] # 0 => new[k] # 0)
  BY <1>1, <1>3
<1>5. Flags(H, new)
  BY <1>2, <1>3, <1>4, Zenon DEF Flags
<1>6. Taken(new) = Taken(use) \cup (hs \cap DOMAIN H)
  BY <1>1, <1>3 DEF Taken
<1> QED BY <1>3, <1>4, <1>5, <1>6, Zenon DEF new

(* Hits set free                                                           *)
LEMMA FlagFree ==
  ASSUME NEW H, NEW use, Flags(H, use), NEW hs
  PROVE  /\ Flags(H, Flagged(use, hs, -1))
         /\ \A k \in DOMAIN H : use[k] # 0 => Flagged(use, hs, -1)[k] # 0
         /\ \A k \in hs \cap DOMAIN H : Flagged(use, hs, -1)[k] = -1
         /\ Taken(Flagged(use, hs, -1)) = Taken(use) \ hs
<1> DEFINE new == Flagged(use, hs, -1)
<1>1. DOMAIN use = DOMAIN H /\ \A k \in DOMAIN H : use[k] \in {-1, 0, 1}
  BY DEF Flags
<1>2. new = [k \in DOMAIN H |-> IF k \in hs THEN -1 ELSE use[k]]
  BY <1>1, Zenon DEF Flagged
<1> HIDE DEF new
<1>3. DOMAIN new = DOMAIN H /\ \A k \in DOMAIN H : new[k] = IF k \in hs THEN -1 ELSE use[k]
  BY <1>2, Zenon
<1>4. \A k \in DOMAIN H : new[k] \in {-1, 0, 1} /\ (use[k] # 0 => new[k] # 0)
  BY <1>1, <1>3
<1>5. Flags(H, new)
  BY <1>2, <1>3, <1>4, Zenon DEF Flags
<1>6. Taken(new) = Taken(use) \ hs
  BY <1>1, <1>3 DEF Taken
<1> QED BY <1>3, <1>4, <1>5, <1>6, Zenon DEF new

(* What a seed does to the flags                                           *)
LEMMA SeedFlags ==
  ASSUME Flags(fHitPoints, fHitsInUse), NEW idx \in DOMAIN fHitPoints
  PROVE  LET seed == SeedTrj(idx)
         IN  /\ Flags(fHitPoints, seed.use)
             /\ \A k \in DOMAIN fHitPoints : fHitsInUse[k] # 0 => seed.use[k] # 0
             /\ seed.use[idx] # 0
             /\ fHitsInUse[idx] # 1 => Taken(fHitsInUse) \subseteq Taken(seed.use)
             /\ seed.ok => idx \in Taken(seed.use)
<1> DEFINE H    == fHitPoints
           use  == fHitsInUse
           y(k) == fHitPoints[k].start
           ch   == fHitPoints[idx].ch
           snd  == FindClosest(ch + 1, y(idx), fDistThresh)
           ok2  == snd # 0 /\ fHitsInUse[snd] <= 0
           thd  == FindClosest(ch + 2, 2 * y(snd) - y(idx), fDistThresh)
           ok3  == ok2 /\ thd # 0 /\ fHitsInUse[thd] <= 0
           seed == SeedTrj(idx)
           u1   == Flagged(use, {snd, thd}, -1)
           u2   == Flagged(u1, {idx}, 1)
           hs   == IF ok2 THEN {idx, snd} ELSE {idx}
           u3   == Flagged(use, hs, -1)
<1>1. seed = IF ok3 THEN [ok |-> TRUE, use |-> u2] ELSE [ok |-> FALSE, use |-> u3]
  BY Zenon DEF SeedTrj
<1>2. ok2 => snd \notin Taken(use)
  BY DEF Taken
<1>3. ok3 => snd \notin Taken(use) /\ thd \notin Taken(use)
  BY DEF Taken
<1> HIDE DEF ok2, ok3, snd, thd, seed, u1, u2, u3, hs
<1>4. idx \in hs /\ hs \subseteq {idx, snd} /\ (snd \in hs => ok2 \/ snd = idx)
  BY Zenon DEF hs
<1>5. -1 \in {-1, 1} /\ 1 \in {-1, 1} /\ -1 # 0 /\ 1 # 0 /\ -1 # 1
  OBVIOUS
<1>6. DOMAIN use = DOMAIN H
  BY DEF Flags
<1>7. /\ Flags(H, u1) /\ Taken(u1) = Taken(use) \ {snd, thd}
      /\ \A k \in DOMAIN H : use[k] # 0 => u1[k] # 0
  BY FlagFree, Zenon DEF u1
<1>8. /\ Flags(H, u2) /\ Taken(u2) = Taken(u1) \cup ({idx} \cap DOMAIN H)
      /\ \A k \in DOMAIN H : u1[k] # 0 => u2[k] # 0
      /\ u2[idx] = 1
  <2>1. /\ Flags(H, u2) /\ Taken(u2) = Taken(u1) \cup ({idx} \cap DOMAIN H)
        /\ \A k \in DOMAIN H : u1[k] # 0 => u2[k] # 0
        /\ \A k \in {idx} \cap DOMAIN H : u2[k] = 1
    <3>1. Flags(H, u1)
      BY <1>7, Zenon
    <3> HIDE DEF u1
    <3> QED BY <3>1, FlagTaken DEF u2
  <2> QED BY <2>1
<1>9. /\ Flags(H, u3) /\ Taken(u3) = Taken(use) \ hs
      /\ \A k \in DOMAIN H : use[k] # 0 => u3[k] # 0
      /\ u3[idx] = -1
  <2>1. /\ Flags(H, u3) /\ Taken(u3) = Taken(use) \ hs
        /\ \A k \in DOMAIN H : use[k] # 0 => u3[k] # 0
        /\ \A k \in hs \cap DOMAIN H : u3[k] = -1
    BY FlagFree DEF u3
  <2> QED BY <1>4, <2>1
<1>10. CASE ok3
  <2>1. seed.use = u2 /\ seed.ok
    BY <1>1, <1>10
  <2>2. idx \in Taken(u2) /\ Taken(use) \subseteq Taken(u2)
    BY <1>3, <1>7, <1>8, <1>10, Zenon
  <2>3. \A k \in DOMAIN H : use[k] # 0 => u2[k] # 0
    BY <1>7, <1>8, Zenon
  <2> QED BY <1>5, <1>8, <2>1, <2>2, <2>3, Zenon DEF seed
<1>11. CASE ~ok3
  <2>1. seed.use = u3 /\ ~seed.ok
    BY <1>1, <1>11
  <2>2. use[idx] # 1 => Taken(use) \subseteq Taken(u3)
    <3>1. use[idx] # 1 => idx \notin Taken(use)
      BY Zenon DEF Taken
    <3> QED BY <1>2, <1>4, <1>9, <3>1, Zenon
  <2> QED BY <1>5, <1>9, <2>1, <2>2, Zenon DEF seed
<1> QED BY <1>10, <1>11

(* A hit is tried as a seed.                                               *)
LEMMA TrySeedKeeps == ASSUME BuilderInv, TrySeed PROVE BuilderInv'
<1> DEFINE H   == fHitPoints
           idx == hitIdx + 1
           seed == SeedTrj(idx)
<1>1. /\ phase = "seed" /\ hitIdx < Len(H) /\ hitIdx' = idx
      /\ fHitPoints' = H /\ trjsLong' = trjsLong /\ trjsShort' = trjsShort /\ pair' = pair /\ found' = found
      /\ IF fHitsInUse[idx] # 0
           THEN fHitsInUse' = fHitsInUse /\ fTrjs' = fTrjs /\ walk' = walk /\ phase' = phase
           ELSE /\ fHitsInUse' = seed.use
                /\ IF seed.ok
                     THEN /\ fTrjs' = Append(fTrjs, [points |-> <<PointOf(idx)>>, pid |-> 0])
                          /\ walk' = StartWalk(1, H[idx].ch)
                          /\ phase' = "expand"
                     ELSE fTrjs' = fTrjs /\ walk' = walk /\ phase' = phase
  BY DEF TrySeed
<1>2. /\ HitPointsOK(H) /\ Flags(H, fHitsInUse) /\ hitIdx \in 0 .. Len(H)
      /\ \A k \in 1 .. hitIdx : fHitsInUse[k] # 0
  BY Zenon DEF BuilderInv, FlagsInv
<1>3. /\ TrjsOK(H, fTrjs) /\ NoneEmpty(fTrjs) /\ HeldBy(fTrjs) \subseteq Taken(fHitsInUse)
      /\ trjsLong = <<>> /\ trjsShort = <<>> /\ found = <<>> /\ walk = <<>>
  <2>1. "seed" # "expand"
    OBVIOUS
  <2> QED BY <1>1, <2>1, Zenon DEF BuilderInv, GrowInv, WalkInv
<1>4. Len(H) \in Nat /\ DOMAIN H = 1 .. Len(H)
  <2>1. H \in Seq(Range(H))
    BY <1>2, Zenon DEF HitPointsOK
  <2> QED BY <2>1
<1>5. /\ idx \in 0 .. Len(H) /\ idx \in DOMAIN H
      /\ \A k \in 1 .. idx : k \in DOMAIN H /\ (k \in 1 .. hitIdx \/ k = idx)
  BY <1>1, <1>2, <1>4
<1>6. DOMAIN fHitsInUse = DOMAIN H
  BY <1>2 DEF Flags
<1> HIDE DEF idx, seed
<1>7. CASE fHitsInUse[idx] # 0
  <2>1. fHitsInUse' = fHitsInUse /\ fTrjs' = fTrjs /\ walk' = walk /\ phase' = phase
    BY <1>1, <1>7, Zenon
  <2>2. \A k \in 1 .. idx : fHitsInUse[k] # 0
    BY <1>2, <1>5, <1>7, Zenon
  <2>3. FlagsInv'
    BY <1>1, <1>2, <1>5, <2>1, <2>2, Zenon DEF FlagsInv
  <2> QED BY <1>1, <1>3, <2>1, <2>3
          DEF BuilderInv, IdleInv, GrowInv, WalkInv, SelectInv, JoinInv
<1>8. CASE fHitsInUse[idx] = 0
  <2> DEFINE use == seed.use
  <2>1. /\ Flags(H, use) /\ \A k \in DOMAIN H : fHitsInUse[k] # 0 => use[k] # 0
        /\ use[idx] # 0 /\ Taken(fHitsInUse) \subseteq Taken(use) /\ (seed.ok => idx \in Taken(use))
    <3>1. fHitsInUse[idx] # 1
      BY <1>8
    <3> QED BY <1>2, <1>5, <3>1, SeedFlags, Zenon DEF seed
  <2> HIDE DEF use
  <2>2. fHitsInUse' = use
    BY <1>1, <1>8, Zenon DEF use
  <2>3. \A k \in 1 .. idx : use[k] # 0
    BY <1>2, <1>5, <2>1, Zenon
  <2>4. HeldBy(fTrjs) \subseteq Taken(use)
    BY <1>3, <2>1, Zenon
  <2>5. CASE ~seed.ok
    <3>1. fTrjs' = fTrjs /\ walk' = walk /\ phase' = phase
      BY <1>1, <1>8, <2>5, Zenon
    <3>2. FlagsInv'
      BY <1>1, <1>2, <1>5, <2>1, <2>2, <2>3, <3>1, Zenon DEF FlagsInv
    <3>3. GrowInv'
      BY <1>1, <1>3, <2>2, <2>4, <3>1, Zenon DEF GrowInv
    <3> QED BY <1>1, <1>3, <3>1, <3>2, <3>3
            DEF BuilderInv, IdleInv, WalkInv, SelectInv, JoinInv
  <2>6. CASE seed.ok
    <3> DEFINE p == PointOf(idx)
               t == [points |-> <<p>>, pid |-> 0]
               new == Append(fTrjs, t)
    <3>1. fTrjs' = new /\ walk' = StartWalk(1, H[idx].ch) /\ phase' = "expand"
      BY <1>1, <1>8, <2>6, Zenon
    <3>2. p \in PointSet(H) /\ Range(p.uids) = {idx}
      BY <1>2, <1>5, OnePoint DEF PointOf
    <3> HIDE DEF p
    <3>3. PointsOK(H, <<p>>) /\ Uids(<<p>>) = {idx} /\ <<p>> # <<>>
      <4>1. <<p>> \in Seq(PointSet(H)) /\ DOMAIN <<p>> = {1} /\ <<p>>[1] = p /\ <<p>> # <<>> /\ ~(1 < 1)
        BY <3>2
      <4>2. PointsOK(H, <<p>>)
        BY <4>1 DEF PointsOK
      <4>3. ASSUME NEW u PROVE u \in Uids(<<p>>) <=> u \in Range(p.uids)
        BY <4>1, UidsOf
      <4> QED BY <3>2, <4>1, <4>2, <4>3, Zenon
    <3>4. t \in TrjRec(H) /\ t.points = <<p>>
      BY <3>2 DEF TrjRec
    <3> HIDE DEF t
    <3>5. idx \notin HeldBy(fTrjs)
      <4>1. fHitsInUse[idx] # 1
        BY <1>8
      <4>2. idx \notin Taken(fHitsInUse)
        BY <4>1, Zenon DEF Taken
      <4> QED BY <1>3, <4>2, Zenon
    <3>6. TrjsOK(H, new) /\ HeldBy(new) = HeldBy(fTrjs) \cup {idx} /\ NoneEmpty(new)
      <4>1. PointsOK(H, t.points) /\ Uids(t.points) = {idx} /\ t.points # <<>>
        BY <3>3, <3>4, Zenon
      <4>2. Uids(t.points) \cap HeldBy(fTrjs) = {}
        BY <3>5, <4>1, Zenon
      <4>3. TrjsOK(H, new) /\ HeldBy(new) = HeldBy(fTrjs) \cup Uids(t.points) /\ NoneEmpty(new)
        BY <1>3, <3>4, <4>1, <4>2, TrjAppended, Zenon
      <4> QED BY <4>1, <4>3, Zenon
    <3>7. new # <<>>
      <4>1. fTrjs \in Seq(TrjRec(H))
        BY <1>3, Zenon DEF TrjsOK
      <4> QED BY <3>4, <4>1
    <3> HIDE DEF new
    <3>8. FlagsInv'
      BY <1>1, <1>2, <1>5, <2>1, <2>2, <2>3, <3>1, Zenon DEF FlagsInv
    <3>9. GrowInv'
      <4>1. HeldBy(new) \subseteq Taken(use)
        BY <2>1, <2>4, <2>6, <3>6, Zenon
      <4> QED BY <1>1, <1>3, <2>2, <3>1, <3>6, <4>1, Zenon DEF GrowInv
    <3>10. WalkInv'
      <4>1. walk'.tmp = <<>>
        BY <3>1 DEF StartWalk
      <4>2. Kept' = <<>>
        BY <4>1, Zenon DEF Kept
      <4>3. KeptOK(H, <<>>) /\ Uids(<<>>) \subseteq Taken(use) /\ Uids(<<>>) \cap HeldBy(new) = {}
        BY NoneKept, Zenon
      <4>4. walk' \in WalkRec(H)
        <5>1. H[idx].ch \in Int
          BY <1>2, <1>5, Zenon DEF HitPointsOK
        <5> QED BY <3>1, <5>1 DEF StartWalk, WalkRec
      <4> QED BY <1>1, <2>2, <3>1, <3>7, <4>2, <4>3, <4>4, Zenon DEF WalkInv
    <3> QED BY <1>1, <1>3, <3>1, <3>8, <3>9, <3>10
            DEF BuilderInv, IdleInv, SelectInv, JoinInv
  <2> QED BY <2>5, <2>6
<1> QED BY <1>7, <1>8

(* The last trajectory while it grows                                      *)
LEMMA ExpandFacts ==
  ASSUME BuilderInv, phase = "expand"
  PROVE  /\ HitPointsOK(fHitPoints) /\ Flags(fHitPoints, fHitsInUse) /\ hitIdx \in 0 .. Len(fHitPoints)
         /\ \A k \in 1 .. hitIdx : k \in DOMAIN fHitPoints /\ fHitsInUse[k] # 0
         /\ TrjsOK(fHitPoints, fTrjs) /\ NoneEmpty(fTrjs) /\ HeldBy(fTrjs) \subseteq Taken(fHitsInUse)
         /\ fTrjs # <<>> /\ (walk # <<>> => walk \in WalkRec(fHitPoints) /\ Kept = walk.tmp)
         /\ KeptOK(fHitPoints, Kept) /\ Uids(Kept) \subseteq Taken(fHitsInUse)
         /\ Uids(Kept) \cap HeldBy(fTrjs) = {}
         /\ PointsOK(fHitPoints, Points) /\ Points # <<>> /\ Uids(Points) \subseteq HeldBy(fTrjs)
         /\ Points = fTrjs[Len(fTrjs)].points /\ Len(fTrjs) \in DOMAIN fTrjs
         /\ trjsLong = <<>> /\ trjsShort = <<>> /\ found = <<>>
<1> DEFINE H == fHitPoints
<1>1. /\ HitPointsOK(H) /\ Flags(H, fHitsInUse) /\ hitIdx \in 0 .. Len(H)
      /\ \A k \in 1 .. hitIdx : fHitsInUse[k] # 0
  BY Zenon DEF BuilderInv, FlagsInv
<1>2. /\ TrjsOK(H, fTrjs) /\ NoneEmpty(fTrjs) /\ HeldBy(fTrjs) \subseteq Taken(fHitsInUse)
      /\ trjsLong = <<>> /\ trjsShort = <<>> /\ found = <<>>
  BY Zenon DEF BuilderInv, GrowInv
<1>3. /\ fTrjs # <<>> /\ (walk # <<>> => walk \in WalkRec(H))
      /\ KeptOK(H, Kept) /\ Uids(Kept) \subseteq Taken(fHitsInUse) /\ Uids(Kept) \cap HeldBy(fTrjs) = {}
  BY Zenon DEF BuilderInv, WalkInv
<1>4. /\ PointsOK(H, Last(fTrjs).points) /\ Uids(Last(fTrjs).points) \subseteq HeldBy(fTrjs)
      /\ Last(fTrjs) = fTrjs[Len(fTrjs)] /\ Len(fTrjs) \in DOMAIN fTrjs
  BY <1>2, <1>3, FrontTrjs, Zenon
<1>5. Points # <<>> /\ Points = fTrjs[Len(fTrjs)].points
  BY <1>2, <1>4, Zenon DEF Points, NoneEmpty
<1>6. walk # <<>> => Kept = walk.tmp
  BY Zenon DEF Kept
<1>7. \A k \in 1 .. hitIdx : k \in DOMAIN H
  <2>1. H \in Seq(Range(H))
    BY <1>1, Zenon DEF HitPointsOK
  <2> QED BY <1>1, <2>1
<1> QED BY <1>1, <1>2, <1>3, <1>4, <1>5, <1>6, <1>7, Zenon DEF Points

(* What a step of the walk has to show                                     *)
LEMMA ExpandKeeps ==
  ASSUME BuilderInv, phase = "expand", phase' = phase, fHitPoints' = fHitPoints, hitIdx' = hitIdx,
         trjsLong' = trjsLong, trjsShort' = trjsShort, found' = found,
         Flags(fHitPoints, fHitsInUse'), \A k \in 1 .. hitIdx : fHitsInUse'[k] # 0,
         TrjsOK(fHitPoints, fTrjs'), NoneEmpty(fTrjs'), HeldBy(fTrjs') \subseteq Taken(fHitsInUse'),
         fTrjs' # <<>>, walk' # <<>> => walk' \in WalkRec(fHitPoints),
         KeptOK(fHitPoints, Kept'), Uids(Kept') \subseteq Taken(fHitsInUse'),
         Uids(Kept') \cap HeldBy(fTrjs') = {}
  PROVE  BuilderInv'
<1>1. /\ HitPointsOK(fHitPoints) /\ hitIdx \in 0 .. Len(fHitPoints)
      /\ trjsLong = <<>> /\ trjsShort = <<>> /\ found = <<>>
  BY ExpandFacts, Zenon
<1>2. FlagsInv'
  BY <1>1 DEF FlagsInv
<1>3. GrowInv'
  BY <1>1 DEF GrowInv
<1>4. WalkInv'
  BY DEF WalkInv
<1> QED BY <1>2, <1>3, <1>4 DEF BuilderInv, IdleInv, SelectInv, JoinInv

(* The last trajectory with other points                                   *)
LEMMA PointsSet ==
  ASSUME BuilderInv, phase = "expand", NEW ps, PointsOK(fHitPoints, ps), ps # <<>>,
         NEW X, X \cap HeldBy(fTrjs) = {}, Uids(ps) \subseteq Uids(Points) \cup X, SetPoints(ps)
  PROVE  /\ TrjsOK(fHitPoints, fTrjs') /\ NoneEmpty(fTrjs') /\ fTrjs' # <<>>
         /\ HeldBy(fTrjs') \subseteq HeldBy(fTrjs) \cup X
<1> DEFINE H == fHitPoints
           i == Len(fTrjs)
           new == [fTrjs EXCEPT ![i].points = ps]
<1>1. /\ TrjsOK(H, fTrjs) /\ NoneEmpty(fTrjs) /\ Points = fTrjs[i].points /\ i \in DOMAIN fTrjs
      /\ Uids(Points) \subseteq HeldBy(fTrjs)
  BY ExpandFacts, Zenon
<1>2. fTrjs' = new
  BY Zenon DEF SetPoints
<1> HIDE DEF i
<1>3. TrjChange(H, fTrjs, i, ps, new)
  BY <1>1, TrjChanged, Zenon
<1> HIDE DEF new
<1>4. /\ TrjsOK(H, new) /\ HeldBy(new) = (HeldBy(fTrjs) \ Uids(Points)) \cup Uids(ps)
      /\ DOMAIN new = DOMAIN fTrjs
      /\ \A n \in DOMAIN fTrjs : new[n].points = IF n = i THEN ps ELSE fTrjs[n].points
  BY <1>1, <1>3, Zenon DEF TrjChange
<1>5. NoneEmpty(new)
  BY <1>1, <1>4, Zenon DEF NoneEmpty
<1>6. new # <<>>
  <2>1. DOMAIN new # {} /\ DOMAIN (<<>>) = {}
    BY <1>1, <1>4
  <2> QED BY <2>1, Zenon
<1> QED BY <1>1, <1>2, <1>4, <1>5, <1>6, Zenon

(* A walk goes on from any end.                                            *)
LEMMA EndWalkOK ==
  ASSUME HitPointsOK(fHitPoints), NEW ps, PointsOK(fHitPoints, ps), ps # <<>>, EndWalk(ps), phase' = "expand"
  PROVE  /\ walk' # <<>> => walk' \in WalkRec(fHitPoints)
         /\ Kept' = <<>>
<1>1. ps[1].ch \in Int
  <2>1. ps \in Seq(PointSet(fHitPoints))
    BY Zenon DEF PointsOK
  <2>2. ps[1] \in PointSet(fHitPoints)
    BY <2>1
  <2> QED BY <2>2 DEF PointSet
<1>2. StartWalk(-1, FirstCh(ps)) \in WalkRec(fHitPoints) /\ StartWalk(-1, FirstCh(ps)).tmp = <<>>
  BY <1>1 DEF StartWalk, WalkRec, FirstCh
<1>3. walk' = <<>> \/ walk' = StartWalk(-1, FirstCh(ps))
  BY DEF EndWalk
<1>4. walk' # <<>> => walk'.tmp = <<>>
  BY <1>2, <1>3, Zenon
<1>5. Kept' = <<>>
  BY <1>4, Zenon DEF Kept
<1> QED BY <1>2, <1>3, <1>5, Zenon

(* Channel by channel, points kept back stay.                              *)
OverGap(w, a, b, c) == [w EXCEPT !.nextch = a, !.gap = b, !.n = c]

(* A walk over a channel without a hit keeps its points.                   *)
LEMMA WalkGap ==
  ASSUME NEW H, NEW w \in WalkRec(H), NEW a \in Int, NEW b \in Int, NEW c \in Int
  PROVE  OverGap(w, a, b, c) \in WalkRec(H) /\ OverGap(w, a, b, c).tmp = w.tmp /\ OverGap(w, a, b, c) # <<>>
<1> DEFINE S == Seq(PointSet(H))
           r == OverGap(w, a, b, c)
<1> HIDE DEF S
<1>1. w \in [dir : Int, nextch : Int, gap : Int, reset : Int, tmp : S, n : Int]
  BY Zenon DEF WalkRec, S
<1>2. r \in [dir : Int, nextch : Int, gap : Int, reset : Int, tmp : S, n : Int]
  BY <1>1 DEF OverGap
<1>3. r.tmp = w.tmp
  BY <1>1 DEF OverGap
<1> HIDE DEF r
<1>4. DOMAIN r = {"dir", "nextch", "gap", "reset", "tmp", "n"}
  BY <1>2
<1>5. "dir" \notin DOMAIN (<<>>)
  OBVIOUS
<1>6. r # <<>>
  BY <1>4, <1>5, Zenon
<1> QED BY <1>2, <1>3, <1>6, Zenon DEF r, WalkRec, S

(* A walk that comes to a hit                                              *)
OnHit(w, a, b, c, d) == [w EXCEPT !.nextch = a, !.n = b, !.gap = c, !.reset = d]

(* It keeps its points, too.                                               *)
LEMMA WalkHit ==
  ASSUME NEW H, NEW w \in WalkRec(H), NEW a \in Int, NEW b \in Int, NEW c \in Int, NEW d \in Int
  PROVE  OnHit(w, a, b, c, d) \in WalkRec(H) /\ OnHit(w, a, b, c, d).tmp = w.tmp /\ OnHit(w, a, b, c, d) # <<>>
<1> DEFINE S == Seq(PointSet(H))
           r == OnHit(w, a, b, c, d)
<1> HIDE DEF S
<1>1. w \in [dir : Int, nextch : Int, gap : Int, reset : Int, tmp : S, n : Int]
  BY Zenon DEF WalkRec, S
<1>2. r \in [dir : Int, nextch : Int, gap : Int, reset : Int, tmp : S, n : Int]
  BY <1>1 DEF OnHit
<1>3. r.tmp = w.tmp
  BY <1>1 DEF OnHit
<1> HIDE DEF r
<1>4. DOMAIN r = {"dir", "nextch", "gap", "reset", "tmp", "n"}
  BY <1>2
<1>5. "dir" \notin DOMAIN (<<>>)
  OBVIOUS
<1>6. r # <<>>
  BY <1>4, <1>5, Zenon
<1> QED BY <1>2, <1>3, <1>6, Zenon DEF r, WalkRec, S

(* A walk that keeps points back                                           *)
Keeping(w, e) == [w EXCEPT !.tmp = e]

(* It has these points only.                                               *)
LEMMA WalkKept ==
  ASSUME NEW H, NEW w \in WalkRec(H), NEW e \in Seq(PointSet(H))
  PROVE  Keeping(w, e) \in WalkRec(H) /\ Keeping(w, e).tmp = e /\ Keeping(w, e) # <<>>
<1> DEFINE S == Seq(PointSet(H))
           r == Keeping(w, e)
<1> HIDE DEF S
<1>1. w \in [dir : Int, nextch : Int, gap : Int, reset : Int, tmp : S, n : Int]
  BY Zenon DEF WalkRec, S
<1>2. r \in [dir : Int, nextch : Int, gap : Int, reset : Int, tmp : S, n : Int]
  BY <1>1 DEF Keeping, S
<1>3. r.tmp = e
  BY <1>1 DEF Keeping
<1> HIDE DEF r
<1>4. DOMAIN r = {"dir", "nextch", "gap", "reset", "tmp", "n"}
  BY <1>2
<1>5. "dir" \notin DOMAIN (<<>>)
  OBVIOUS
<1>6. r # <<>>
  BY <1>4, <1>5, Zenon
<1> QED BY <1>2, <1>3, <1>6, Zenon DEF r, WalkRec, S

(* The parts of a walk                                                     *)
LEMMA WalkRecFields ==
  ASSUME NEW H, NEW w \in WalkRec(H)
  PROVE  /\ w.dir \in Int /\ w.nextch \in Int /\ w.gap \in Int /\ w.reset \in Int
         /\ w.tmp \in Seq(PointSet(H)) /\ w.n \in Int
BY DEF WalkRec

(* The walk of StepGap keeps its points.                                   *)
LEMMA GapWalk ==
  ASSUME NEW H, walk \in WalkRec(H)
  PROVE  NextGap \in WalkRec(H) /\ NextGap.tmp = walk.tmp /\ NextGap # <<>>
<1> DEFINE a == walk.nextch + walk.dir
           b == walk.gap + 1
           c == walk.n + 1
<1>1. NextGap = OverGap(walk, a, b, c)
  BY Zenon DEF NextGap, OverGap
<1>2. a \in Int /\ b \in Int /\ c \in Int
  BY WalkRecFields
<1> HIDE DEF a, b, c
<1>3. OverGap(walk, a, b, c) \in WalkRec(H)
  BY <1>2, WalkGap
<1>4. OverGap(walk, a, b, c).tmp = walk.tmp
  BY <1>2, WalkGap
<1>5. OverGap(walk, a, b, c) # <<>>
  BY <1>2, WalkGap, Zenon
<1> QED BY <1>1, <1>3, <1>4, <1>5, Zenon

(* A hit that is the next one                                              *)
LEMMA HitWalk ==
  ASSUME NEW H, walk \in WalkRec(H)
  PROVE  NextHit \in WalkRec(H) /\ NextHit.tmp = walk.tmp /\ NextHit # <<>>
<1> DEFINE a == walk.nextch + walk.dir
           b == walk.n + 1
           gap   == IF walk.reset >= fResetGapCounter THEN 0 ELSE walk.gap
           reset == IF walk.reset >= fResetGapCounter THEN 0 ELSE walk.reset
           d == IF gap > 0 THEN reset + 1 ELSE reset
<1>1. NextHit = OnHit(walk, a, b, gap, d)
  BY Zenon DEF NextHit, OnHit
<1>2. /\ walk.dir \in Int /\ walk.nextch \in Int /\ walk.gap \in Int /\ walk.reset \in Int
      /\ walk.n \in Int
  BY WalkRecFields
<1>3. a \in Int /\ b \in Int /\ gap \in Int /\ d \in Int
  BY <1>2
<1> HIDE DEF a, b, gap, d
<1>4. OnHit(walk, a, b, gap, d) \in WalkRec(H)
  BY <1>3, WalkHit
<1>5. OnHit(walk, a, b, gap, d).tmp = walk.tmp
  BY <1>3, WalkHit
<1>6. OnHit(walk, a, b, gap, d) # <<>>
  BY <1>3, WalkHit, Zenon
<1> QED BY <1>1, <1>4, <1>5, <1>6, Zenon

(* The walk leaves the channels of the view.                               *)
LEMMA StepOutKeeps == ASSUME BuilderInv, StepOut PROVE BuilderInv'
<1>1. /\ phase = "expand" /\ phase' = phase /\ fHitPoints' = fHitPoints /\ hitIdx' = hitIdx
      /\ trjsLong' = trjsLong /\ trjsShort' = trjsShort /\ found' = found
      /\ fHitsInUse' = fHitsInUse /\ fTrjs' = fTrjs /\ EndWalk(Points)
  BY DEF StepOut
<1>2. /\ HitPointsOK(fHitPoints) /\ PointsOK(fHitPoints, Points) /\ Points # <<>>
      /\ Flags(fHitPoints, fHitsInUse) /\ \A k \in 1 .. hitIdx : fHitsInUse[k] # 0
      /\ TrjsOK(fHitPoints, fTrjs) /\ NoneEmpty(fTrjs) /\ HeldBy(fTrjs) \subseteq Taken(fHitsInUse)
      /\ fTrjs # <<>>
  BY <1>1, ExpandFacts, Zenon
<1>3. (walk' # <<>> => walk' \in WalkRec(fHitPoints)) /\ Kept' = <<>>
  BY <1>1, <1>2, EndWalkOK, Zenon
<1>4. KeptOK(fHitPoints, <<>>) /\ Uids(<<>>) = {}
  BY NoneKept, Zenon
<1> QED BY <1>1, <1>2, <1>3, <1>4, ExpandKeeps

(* The walk finds no hit on a channel.                                     *)
LEMMA StepGapKeeps == ASSUME BuilderInv, StepGap PROVE BuilderInv'
<1> DEFINE H == fHitPoints
           ps == AddTmp(Points)
<1>1. /\ phase = "expand" /\ phase' = phase /\ fHitPoints' = fHitPoints /\ hitIdx' = hitIdx
      /\ trjsLong' = trjsLong /\ trjsShort' = trjsShort /\ found' = found
      /\ fHitsInUse' = fHitsInUse /\ walk # <<>>
      /\ \/ SetPoints(ps) /\ EndWalk(ps)
         \/ walk' = NextGap /\ fTrjs' = fTrjs
  BY DEF StepGap, InWalk
<1>2. /\ HitPointsOK(H) /\ PointsOK(H, Points) /\ Points # <<>>
      /\ Flags(H, fHitsInUse) /\ \A k \in 1 .. hitIdx : fHitsInUse[k] # 0
      /\ TrjsOK(H, fTrjs) /\ NoneEmpty(fTrjs) /\ HeldBy(fTrjs) \subseteq Taken(fHitsInUse)
      /\ fTrjs # <<>> /\ walk \in WalkRec(H) /\ Kept = walk.tmp
      /\ KeptOK(H, Kept) /\ Uids(Kept) \subseteq Taken(fHitsInUse) /\ Uids(Kept) \cap HeldBy(fTrjs) = {}
      /\ Uids(Points) \subseteq HeldBy(fTrjs)
  BY <1>1, ExpandFacts, Zenon
<1>3. CASE SetPoints(ps) /\ EndWalk(ps)
  <2>1. ps = AddAll(Points, walk.tmp)
    BY Zenon DEF AddTmp, AddAll
  <2>2. KeptOK(H, walk.tmp) /\ Uids(walk.tmp) \cap Uids(Points) = {}
    BY <1>2, Zenon
  <2>3. PointsOK(H, ps) /\ Uids(ps) = Uids(Points) \cup Uids(walk.tmp) /\ ps # <<>>
    <3> DEFINE tmp == walk.tmp
               P == Points
    <3>1. ps = AddAll(P, tmp) /\ KeptOK(H, tmp) /\ Uids(tmp) \cap Uids(P) = {} /\ PointsOK(H, P) /\ P # <<>>
      BY <1>2, <2>1, <2>2, Zenon
    <3> HIDE DEF ps, tmp, P
    <3>2. /\ PointsOK(H, AddAll(P, tmp)) /\ Uids(AddAll(P, tmp)) = Uids(P) \cup Uids(tmp)
          /\ P # <<>> => AddAll(P, tmp) # <<>>
      BY <3>1, AddAllOK
    <3> QED BY <3>1, <3>2, Zenon DEF tmp, P
  <2> HIDE DEF ps
  <2>4. /\ TrjsOK(H, fTrjs') /\ NoneEmpty(fTrjs') /\ fTrjs' # <<>>
        /\ HeldBy(fTrjs') \subseteq HeldBy(fTrjs) \cup Uids(Kept)
    <3>1. Uids(ps) \subseteq Uids(Points) \cup Uids(Kept) /\ Uids(Kept) \cap HeldBy(fTrjs) = {}
      BY <1>2, <2>3, Zenon
    <3> QED BY <1>1, <1>3, <2>3, <3>1, PointsSet
  <2>5. HeldBy(fTrjs') \subseteq Taken(fHitsInUse)
    BY <1>2, <2>4, Zenon
  <2>6. (walk' # <<>> => walk' \in WalkRec(H)) /\ Kept' = <<>>
    BY <1>1, <1>2, <1>3, <2>3, EndWalkOK, Zenon
  <2>7. KeptOK(H, <<>>) /\ Uids(<<>>) = {}
    BY NoneKept, Zenon
  <2> QED BY <1>1, <1>2, <2>4, <2>5, <2>6, <2>7, ExpandKeeps
<1>4. CASE walk' = NextGap /\ fTrjs' = fTrjs
  <2>1. NextGap \in WalkRec(H) /\ NextGap.tmp = walk.tmp /\ NextGap # <<>>
    BY <1>2, GapWalk, Zenon
  <2>2. Kept' = Kept
    BY <1>1, <1>2, <1>4, <2>1, Zenon DEF Kept
  <2> QED BY <1>1, <1>2, <1>4, <2>1, <2>2, ExpandKeeps
<1> QED BY <1>1, <1>3, <1>4

(* A hit taken next is one that is free.                                   *)
LEMMA HitTaken ==
  ASSUME BuilderInv, phase = "expand", NEW k \in NextHits \ {0}, fHitsInUse[k] <= 0
  PROVE  LET use == Flagged(fHitsInUse, {k}, 1)
         IN  /\ Flags(fHitPoints, use) /\ (\A j \in 1 .. hitIdx : use[j] # 0)
             /\ Taken(use) = Taken(fHitsInUse) \cup {k}
             /\ PointOf(k) \in PointSet(fHitPoints) /\ Range(PointOf(k).uids) = {k}
             /\ k \notin HeldBy(fTrjs) /\ k \notin Uids(Kept)
<1> DEFINE H == fHitPoints
           use == Flagged(fHitsInUse, {k}, 1)
<1>1. /\ HitPointsOK(H) /\ Flags(H, fHitsInUse)
      /\ \A j \in 1 .. hitIdx : j \in DOMAIN H /\ fHitsInUse[j] # 0
      /\ HeldBy(fTrjs) \subseteq Taken(fHitsInUse) /\ Uids(Kept) \subseteq Taken(fHitsInUse)
  BY ExpandFacts, Zenon
<1>2. k \in DOMAIN H
  <2>1. k # 0 /\ \E y \in Predictions : k = FindClosest(walk.nextch + walk.dir, y, fDistThresh)
    BY DEF NextHits
  <2> DEFINE ch == walk.nextch + walk.dir
  <2> HIDE DEF ch
  <2>2. \E y \in Predictions : k = FindClosest(ch, y, fDistThresh)
    BY <2>1, Zenon DEF ch
  <2> QED BY <1>1, <2>1, <2>2, ClosestPlace, Zenon
<1>3. /\ Flags(H, use) /\ \A j \in DOMAIN H : fHitsInUse[j] # 0 => use[j] # 0
      /\ Taken(use) = Taken(fHitsInUse) \cup ({k} \cap DOMAIN H)
  BY <1>1, FlagTaken
<1> HIDE DEF use
<1>4. k \notin Taken(fHitsInUse)
  <2>1. fHitsInUse[k] # 1
    OBVIOUS
  <2> QED BY <2>1, Zenon DEF Taken
<1>5. PointOf(k) \in PointSet(H) /\ Range(PointOf(k).uids) = {k}
  BY <1>1, <1>2, OnePoint DEF PointOf
<1>6. Taken(use) = Taken(fHitsInUse) \cup {k}
  BY <1>2, <1>3, Zenon
<1>7. \A j \in 1 .. hitIdx : use[j] # 0
  BY <1>1, <1>3, Zenon
<1> QED BY <1>1, <1>3, <1>4, <1>5, <1>6, <1>7, Zenon DEF use

(* A hit for the trajectory, with all that was kept back                   *)
LEMMA HitAdded ==
  ASSUME BuilderInv, phase = "expand", walk # <<>>, NEW p \in PointSet(fHitPoints),
         Range(p.uids) \cap HeldBy(fTrjs) = {}, Range(p.uids) \cap Uids(Kept) = {}
  PROVE  LET ps == AddTmp(AddPoint(Points, p))
         IN  PointsOK(fHitPoints, ps) /\ ps # <<>> /\ Uids(ps) = Uids(Points) \cup Range(p.uids) \cup Uids(Kept)
<1> DEFINE H == fHitPoints
           P == Points
           one == AddPoint(P, p)
           tmp == walk.tmp
           all == AddTmp(one)
<1>1. /\ PointsOK(H, P) /\ Uids(P) \subseteq HeldBy(fTrjs) /\ KeptOK(H, Kept)
      /\ Uids(Kept) \cap HeldBy(fTrjs) = {} /\ Kept = tmp
  BY ExpandFacts, Zenon
<1>2. all = AddAll(one, tmp)
  BY Zenon DEF AddTmp, AddAll
<1> HIDE DEF P, tmp, all
<1>3. Range(p.uids) \cap Uids(P) = {}
  BY <1>1, Zenon
<1>4. PointsOK(H, one) /\ Uids(one) = Uids(P) \cup Range(p.uids) /\ one # <<>>
  BY <1>1, <1>3, AddPointOK
<1> HIDE DEF one
<1>5. Uids(tmp) \cap Uids(one) = {}
  BY <1>1, <1>4, Zenon
<1>6. /\ PointsOK(H, AddAll(one, tmp)) /\ Uids(AddAll(one, tmp)) = Uids(one) \cup Uids(tmp)
      /\ one # <<>> => AddAll(one, tmp) # <<>>
  BY <1>1, <1>4, <1>5, AddAllOK
<1>7. PointsOK(H, all) /\ all # <<>> /\ Uids(all) = Uids(P) \cup Range(p.uids) \cup Uids(Kept)
  BY <1>1, <1>2, <1>4, <1>6, Zenon
<1> QED BY <1>7, Zenon DEF all, one, P

(* The walk finds a hit on a channel.                                      *)
LEMMA StepHitKeeps == ASSUME BuilderInv, StepHit PROVE BuilderInv'
<1> DEFINE H == fHitPoints
<1>1. /\ phase = "expand" /\ phase' = phase /\ fHitPoints' = fHitPoints /\ hitIdx' = hitIdx
      /\ trjsLong' = trjsLong /\ trjsShort' = trjsShort /\ found' = found /\ walk # <<>>
      /\ \E k \in NextHits \ {0} :
           /\ fHitsInUse[k] <= 0
           /\ fHitsInUse' = Flagged(fHitsInUse, {k}, 1)
           /\ \/ /\ SetPoints(AddTmp(AddPoint(Points, PointOf(k))))
                 /\ walk' = [NextHit EXCEPT !.tmp = <<>>]
              \/ /\ walk' = [NextHit EXCEPT !.tmp = Append(@, PointOf(k))]
                 /\ fTrjs' = fTrjs
  BY DEF StepHit, InWalk
<1>2. PICK k \in NextHits \ {0} :
           /\ fHitsInUse[k] <= 0
           /\ fHitsInUse' = Flagged(fHitsInUse, {k}, 1)
           /\ \/ /\ SetPoints(AddTmp(AddPoint(Points, PointOf(k))))
                 /\ walk' = [NextHit EXCEPT !.tmp = <<>>]
              \/ /\ walk' = [NextHit EXCEPT !.tmp = Append(@, PointOf(k))]
                 /\ fTrjs' = fTrjs
  BY <1>1, Zenon
<1>3. /\ TrjsOK(H, fTrjs) /\ NoneEmpty(fTrjs) /\ HeldBy(fTrjs) \subseteq Taken(fHitsInUse)
      /\ fTrjs # <<>> /\ walk \in WalkRec(H) /\ Kept = walk.tmp
      /\ KeptOK(H, Kept) /\ Uids(Kept) \subseteq Taken(fHitsInUse) /\ Uids(Kept) \cap HeldBy(fTrjs) = {}
  BY <1>1, ExpandFacts, Zenon
<1> DEFINE p == PointOf(k)
<1>4. /\ Flags(H, fHitsInUse') /\ (\A j \in 1 .. hitIdx : fHitsInUse'[j] # 0)
      /\ Taken(fHitsInUse') = Taken(fHitsInUse) \cup {k}
      /\ p \in PointSet(H) /\ Range(p.uids) = {k}
      /\ k \notin HeldBy(fTrjs) /\ k \notin Uids(Kept)
  <2> DEFINE use == Flagged(fHitsInUse, {k}, 1)
  <2>1. /\ Flags(H, use) /\ (\A j \in 1 .. hitIdx : use[j] # 0)
        /\ Taken(use) = Taken(fHitsInUse) \cup {k}
        /\ p \in PointSet(H) /\ Range(p.uids) = {k}
        /\ k \notin HeldBy(fTrjs) /\ k \notin Uids(Kept)
    BY <1>1, <1>2, HitTaken, Zenon
  <2>2. fHitsInUse' = use
    BY <1>2, Zenon
  <2> HIDE DEF use
  <2> QED BY <2>1, <2>2
<1>5. NextHit \in WalkRec(H) /\ NextHit.tmp = walk.tmp
  BY <1>3, HitWalk, Zenon
<1>6. KeptOK(H, <<>>) /\ Uids(<<>>) = {}
  BY NoneKept, Zenon
<1>7. CASE SetPoints(AddTmp(AddPoint(Points, PointOf(k)))) /\ walk' = [NextHit EXCEPT !.tmp = <<>>]
  <2> DEFINE ps == AddTmp(AddPoint(Points, p))
  <2>1. PointsOK(H, ps) /\ ps # <<>> /\ Uids(ps) = Uids(Points) \cup Range(p.uids) \cup Uids(Kept)
    <3>1. Range(p.uids) \cap HeldBy(fTrjs) = {} /\ Range(p.uids) \cap Uids(Kept) = {}
      BY <1>4, Zenon
    <3> HIDE DEF p
    <3> QED BY <1>1, <1>4, <3>1, HitAdded
  <2>2. SetPoints(ps)
    BY <1>7
  <2> DEFINE X == {k} \cup Uids(Kept)
  <2>3. X \cap HeldBy(fTrjs) = {} /\ Uids(ps) \subseteq Uids(Points) \cup X
    BY <1>3, <1>4, <2>1, Zenon
  <2> HIDE DEF ps, X
  <2>4. /\ TrjsOK(H, fTrjs') /\ NoneEmpty(fTrjs') /\ fTrjs' # <<>>
        /\ HeldBy(fTrjs') \subseteq HeldBy(fTrjs) \cup X
    BY <1>1, <2>1, <2>2, <2>3, PointsSet
  <2>5. HeldBy(fTrjs') \subseteq Taken(fHitsInUse')
    BY <1>3, <1>4, <2>4, Zenon DEF X
  <2>6. walk' \in WalkRec(H) /\ walk'.tmp = <<>>
    <3>1. walk' = Keeping(NextHit, <<>>)
      BY <1>7, Zenon DEF Keeping
    <3>2. <<>> \in Seq(PointSet(H))
      OBVIOUS
    <3>3. Keeping(NextHit, <<>>) \in WalkRec(H) /\ Keeping(NextHit, <<>>).tmp = <<>>
      BY <1>5, <3>2, WalkKept
    <3> QED BY <3>1, <3>3, Zenon
  <2>7. Kept' = <<>>
    BY <2>6, Zenon DEF Kept
  <2> QED BY <1>1, <1>3, <1>4, <1>6, <2>4, <2>5, <2>6, <2>7, ExpandKeeps
<1>8. CASE walk' = [NextHit EXCEPT !.tmp = Append(@, PointOf(k))] /\ fTrjs' = fTrjs
  <2> DEFINE q == Append(Kept, p)
  <2>1. KeptOK(H, q) /\ Uids(q) = Uids(Kept) \cup Range(p.uids)
    <3>1. Range(p.uids) \cap Uids(Kept) = {}
      BY <1>4, Zenon
    <3> HIDE DEF p
    <3> QED BY <1>3, <1>4, <3>1, KeptMore
  <2>2. q = Append(NextHit.tmp, p)
    BY <1>3, <1>5, Zenon
  <2> HIDE DEF q
  <2>3. walk' = Keeping(NextHit, q)
    BY <1>8, <2>2, Zenon DEF Keeping
  <2>4. q \in Seq(PointSet(H))
    BY <2>1, Zenon DEF KeptOK
  <2>5. Keeping(NextHit, q) \in WalkRec(H) /\ Keeping(NextHit, q).tmp = q /\ Keeping(NextHit, q) # <<>>
    BY <1>5, <2>4, WalkKept
  <2>6. walk' \in WalkRec(H) /\ walk'.tmp = q /\ walk' # <<>>
    BY <2>3, <2>5, Zenon
  <2>7. Kept' = q
    BY <1>1, <2>6, Zenon DEF Kept
  <2>8. HeldBy(fTrjs') \subseteq Taken(fHitsInUse')
    BY <1>3, <1>4, <1>8, Zenon
  <2>9. Uids(Kept') \subseteq Taken(fHitsInUse') /\ Uids(Kept') \cap HeldBy(fTrjs') = {}
    BY <1>3, <1>4, <1>8, <2>1, <2>7, Zenon
  <2> QED BY <1>1, <1>3, <1>4, <1>8, <2>1, <2>6, <2>7, <2>8, <2>9, ExpandKeeps
<1> QED BY <1>2, <1>7, <1>8

(* The walk ends in one direction.                                         *)
LEMMA EndTrjKeeps == ASSUME BuilderInv, EndTrj PROVE BuilderInv'
<1> DEFINE H == fHitPoints
           free == Flagged(fHitsInUse, Uids(Points), -1)
<1>1. /\ phase = "expand" /\ phase' = "seed" /\ fHitPoints' = fHitPoints /\ hitIdx' = hitIdx
      /\ trjsLong' = trjsLong /\ trjsShort' = trjsShort /\ found' = found /\ walk = <<>> /\ walk' = walk
      /\ \/ fHitsInUse' = free /\ fTrjs' = Front(fTrjs)
         \/ /\ \E pid \in {11, 13} : fTrjs' = [fTrjs EXCEPT ![Len(fTrjs)].pid = pid]
            /\ fHitsInUse' = fHitsInUse
  BY DEF EndTrj
<1>2. /\ HitPointsOK(H) /\ Flags(H, fHitsInUse) /\ hitIdx \in 0 .. Len(H)
      /\ \A j \in 1 .. hitIdx : j \in DOMAIN H /\ fHitsInUse[j] # 0
      /\ TrjsOK(H, fTrjs) /\ NoneEmpty(fTrjs) /\ HeldBy(fTrjs) \subseteq Taken(fHitsInUse)
      /\ fTrjs # <<>> /\ Len(fTrjs) \in DOMAIN fTrjs
      /\ trjsLong = <<>> /\ trjsShort = <<>> /\ found = <<>>
  BY <1>1, ExpandFacts, Zenon
<1>3. /\ Flags(H, fHitsInUse') /\ (\A j \in 1 .. hitIdx : fHitsInUse'[j] # 0)
      /\ TrjsOK(H, fTrjs') /\ NoneEmpty(fTrjs') /\ HeldBy(fTrjs') \subseteq Taken(fHitsInUse')
  <2>1. CASE fHitsInUse' = free /\ fTrjs' = Front(fTrjs)
    <3>1. /\ SomeOf(H, fTrjs, Front(fTrjs)) /\ HeldBy(Front(fTrjs)) \cap Uids(Points) = {}
      BY <1>2, FrontTrjs, Zenon DEF Points
    <3>2. /\ Flags(H, free) /\ \A k \in DOMAIN H : fHitsInUse[k] # 0 => free[k] # 0
          /\ Taken(free) = Taken(fHitsInUse) \ Uids(Points)
      BY <1>2, FlagFree
    <3> HIDE DEF free
    <3>3. \A j \in 1 .. hitIdx : free[j] # 0
      BY <1>2, <3>2, Zenon
    <3>4. TrjsOK(H, Front(fTrjs)) /\ NoneEmpty(Front(fTrjs)) /\ HeldBy(Front(fTrjs)) \subseteq HeldBy(fTrjs)
      BY <1>2, <3>1, Zenon DEF SomeOf
    <3>5. HeldBy(Front(fTrjs)) \subseteq Taken(free)
      BY <1>2, <3>1, <3>2, <3>4, Zenon
    <3> QED BY <2>1, <3>2, <3>3, <3>4, <3>5
  <2>2. CASE fHitsInUse' = fHitsInUse /\ \E pid \in {11, 13} : fTrjs' = [fTrjs EXCEPT ![Len(fTrjs)].pid = pid]
    <3>1. PICK pid \in {11, 13} : fTrjs' = [fTrjs EXCEPT ![Len(fTrjs)].pid = pid]
      BY <2>2
    <3>2. pid \in Int
      OBVIOUS
    <3>3. SomeOf(H, fTrjs, fTrjs')
      <4> DEFINE i == Len(fTrjs)
      <4>1. i \in DOMAIN fTrjs /\ fTrjs' = [fTrjs EXCEPT ![i].pid = pid]
        BY <1>2, <3>1
      <4> HIDE DEF i
      <4>2. SomeOf(H, fTrjs, [fTrjs EXCEPT ![i].pid = pid])
        BY <1>2, <3>2, <4>1, PidChanged
      <4> QED BY <4>1, <4>2, Zenon
    <3>4. TrjsOK(H, fTrjs') /\ NoneEmpty(fTrjs') /\ HeldBy(fTrjs') \subseteq HeldBy(fTrjs)
      BY <1>2, <3>3, Zenon DEF SomeOf
    <3> QED BY <1>2, <2>2, <3>4
  <2> QED BY <1>1, <2>1, <2>2
<1>4. FlagsInv'
  BY <1>1, <1>2, <1>3 DEF FlagsInv
<1>5. GrowInv'
  BY <1>1, <1>2, <1>3 DEF GrowInv
<1> QED BY <1>1, <1>4, <1>5 DEF BuilderInv, IdleInv, WalkInv, SelectInv, JoinInv

(* Hits of trajectories that are merged or made into tracks                *)
LEMMA SelectFacts ==
  ASSUME BuilderInv, phase \in {"join", "select"}
  PROVE  /\ HitPointsOK(fHitPoints) /\ Flags(fHitPoints, fHitsInUse) /\ hitIdx \in 0 .. Len(fHitPoints)
         /\ \A k \in 1 .. hitIdx : k \in DOMAIN fHitPoints /\ fHitsInUse[k] # 0
         /\ walk = <<>> /\ fTrjs = <<>> /\ hitIdx = Len(fHitPoints)
         /\ TrjsOK(fHitPoints, trjsLong) /\ TrjsOK(fHitPoints, trjsShort)
         /\ HeldBy(trjsLong) \subseteq Taken(fHitsInUse) /\ HeldBy(trjsShort) \subseteq Taken(fHitsInUse)
         /\ HeldBy(trjsLong) \cap HeldBy(trjsShort) = {}
         /\ FoundOK(fHitPoints, found) /\ MadeOf(fHitPoints, found) \subseteq Taken(fHitsInUse)
         /\ MadeOf(fHitPoints, found) \cap HeldBy(trjsLong) = {}
         /\ MadeOf(fHitPoints, found) \cap HeldBy(trjsShort) = {}
<1>1. HitPointsOK(fHitPoints) /\ Flags(fHitPoints, fHitsInUse) /\ hitIdx \in 0 .. Len(fHitPoints)
      /\ \A k \in 1 .. hitIdx : fHitsInUse[k] # 0
  BY Zenon DEF BuilderInv, FlagsInv
<1>2. walk = <<>>
  BY DEF BuilderInv, WalkInv
<1>3. \A k \in 1 .. hitIdx : k \in DOMAIN fHitPoints
  <2>1. fHitPoints \in Seq(Range(fHitPoints))
    BY <1>1, Zenon DEF HitPointsOK
  <2> QED BY <1>1, <2>1
<1>4. SelectInv
  BY Zenon DEF BuilderInv
<1> QED BY <1>1, <1>2, <1>3, <1>4, Zenon DEF SelectInv

(* While trajectories are merged only the lists of them change.            *)
LEMMA MergeKeeps ==
  ASSUME BuilderInv, phase = "join", phase' \in {"join", "select"},
         fHitPoints' = fHitPoints, fHitsInUse' = fHitsInUse, hitIdx' = hitIdx, fTrjs' = fTrjs,
         walk' = walk, found' = found,
         TrjsOK(fHitPoints, trjsLong'), HeldBy(trjsLong') \subseteq HeldBy(trjsLong),
         TrjsOK(fHitPoints, trjsShort'), HeldBy(trjsShort') \subseteq HeldBy(trjsShort),
         JoinInv'
  PROVE  BuilderInv'
<1>1. /\ HitPointsOK(fHitPoints) /\ Flags(fHitPoints, fHitsInUse) /\ hitIdx \in 0 .. Len(fHitPoints)
      /\ \A k \in 1 .. hitIdx : fHitsInUse[k] # 0
      /\ walk = <<>> /\ fTrjs = <<>> /\ hitIdx = Len(fHitPoints)
  BY SelectFacts, Zenon
<1>2. /\ HeldBy(trjsLong) \subseteq Taken(fHitsInUse) /\ HeldBy(trjsShort) \subseteq Taken(fHitsInUse)
      /\ HeldBy(trjsLong) \cap HeldBy(trjsShort) = {}
      /\ FoundOK(fHitPoints, found) /\ MadeOf(fHitPoints, found) \subseteq Taken(fHitsInUse)
      /\ MadeOf(fHitPoints, found) \cap HeldBy(trjsLong) = {}
      /\ MadeOf(fHitPoints, found) \cap HeldBy(trjsShort) = {}
  BY SelectFacts, Zenon
<1>3. FlagsInv'
  BY <1>1 DEF FlagsInv
<1>4. /\ HeldBy(trjsLong') \subseteq Taken(fHitsInUse) /\ HeldBy(trjsShort') \subseteq Taken(fHitsInUse)
      /\ HeldBy(trjsLong') \cap HeldBy(trjsShort') = {}
      /\ MadeOf(fHitPoints, found) \cap HeldBy(trjsLong') = {}
      /\ MadeOf(fHitPoints, found) \cap HeldBy(trjsShort') = {}
  BY <1>2, Zenon
<1>5. SelectInv'
  BY <1>1, <1>2, <1>4, Zenon DEF SelectInv
<1>6. phase' # "idle" /\ phase' # "seed" /\ phase' # "expand"
  OBVIOUS
<1> QED BY <1>1, <1>3, <1>5, <1>6 DEF BuilderInv, IdleInv, GrowInv, WalkInv

(* The first pair of a pass                                                *)
LEMMA FirstPairOK ==
  ASSUME NEW b \in BOOLEAN
  PROVE  LET p == [FirstPair EXCEPT !.short = b]
         IN  p \in PairRec /\ p.short = b /\ p.joined = FALSE
<1> DEFINE p == [FirstPair EXCEPT !.short = b]
<1>1. FirstPair \in PairRec /\ FirstPair.joined = FALSE
  BY DEF FirstPair, PairRec
<1>2. p \in PairRec
  BY <1>1 DEF PairRec
<1>3. p.short = b
  BY <1>1 DEF PairRec
<1>4. p.joined = FALSE
  BY <1>1 DEF PairRec
<1> QED BY <1>2, <1>3, <1>4, Zenon

(* Trajectories are told apart by their length.                            *)
LEMMA SortTrjsKeeps == ASSUME BuilderInv, SortTrjs PROVE BuilderInv'
<1> DEFINE H == fHitPoints
<1>1. /\ phase = "seed" /\ phase' = "join" /\ hitIdx = Len(H) /\ fHitPoints' = H /\ fHitsInUse' = fHitsInUse
      /\ hitIdx' = hitIdx /\ walk' = walk /\ found' = found /\ fTrjs' = <<>> /\ pair' = FirstPair
      /\ \E s \in Orders(fTrjs) : trjsLong' = OfPid(s, 13) /\ trjsShort' = OfPid(s, 11)
  BY DEF SortTrjs
<1>2. /\ HitPointsOK(H) /\ Flags(H, fHitsInUse) /\ hitIdx \in 0 .. Len(H)
      /\ \A k \in 1 .. hitIdx : fHitsInUse[k] # 0
  BY Zenon DEF BuilderInv, FlagsInv
<1>3. /\ TrjsOK(H, fTrjs) /\ NoneEmpty(fTrjs) /\ HeldBy(fTrjs) \subseteq Taken(fHitsInUse)
      /\ found = <<>> /\ walk = <<>>
  <2>1. "seed" # "expand"
    OBVIOUS
  <2> QED BY <1>1, <2>1, Zenon DEF BuilderInv, GrowInv, WalkInv
<1>4. PICK s \in Orders(fTrjs) : trjsLong' = OfPid(s, 13) /\ trjsShort' = OfPid(s, 11)
  BY <1>1, Zenon
<1>5. TrjsOK(H, s) /\ HeldBy(s) \subseteq HeldBy(fTrjs) /\ NoneEmpty(s)
  <2>1. SomeOf(H, fTrjs, s)
    BY <1>3, OrderTrjs, Zenon
  <2> QED BY <1>3, <2>1, Zenon DEF SomeOf
<1>6. /\ SomeOf(H, s, trjsLong') /\ SomeOf(H, s, trjsShort') /\ HeldBy(trjsLong') \cap HeldBy(trjsShort') = {}
  <2>1. 13 # 11
    OBVIOUS
  <2>2. /\ SomeOf(H, s, OfPid(s, 13)) /\ SomeOf(H, s, OfPid(s, 11))
        /\ HeldBy(OfPid(s, 13)) \cap HeldBy(OfPid(s, 11)) = {}
    BY <1>5, <2>1, PidsApart, Zenon
  <2> QED BY <1>4, <2>2, Zenon
<1>7. /\ TrjsOK(H, trjsLong') /\ NoneEmpty(trjsLong') /\ HeldBy(trjsLong') \subseteq Taken(fHitsInUse)
      /\ TrjsOK(H, trjsShort') /\ NoneEmpty(trjsShort') /\ HeldBy(trjsShort') \subseteq Taken(fHitsInUse)
  BY <1>3, <1>5, <1>6, Zenon DEF SomeOf
<1>8. FlagsInv'
  BY <1>1, <1>2 DEF FlagsInv
<1>9. SelectInv'
  <2>1. FoundOK(H, <<>>) /\ MadeOf(H, <<>>) = {}
    BY FoundNone, Zenon
  <2> QED BY <1>1, <1>3, <1>6, <1>7, <2>1, Zenon DEF SelectInv
<1>10. JoinInv'
  <2>1. pair' \in PairRec /\ pair'.joined = FALSE /\ pair'.short = FALSE
    BY <1>1 DEF FirstPair, PairRec
  <2>2. Trjs' = trjsLong'
    BY <2>1 DEF Trjs
  <2> QED BY <1>1, <1>7, <2>1, <2>2 DEF JoinInv
<1> QED BY <1>1, <1>3, <1>8, <1>9, <1>10 DEF BuilderInv, IdleInv, GrowInv, WalkInv

(* Trajectories of the list that is worked on                              *)
LEMMA JoinFacts ==
  ASSUME BuilderInv, phase = "join"
  PROVE  /\ pair \in PairRec /\ (pair.joined <=> ~NoneEmpty(Trjs))
         /\ pair.short => NoneEmpty(trjsLong)
         /\ ~pair.short => NoneEmpty(trjsShort)
         /\ TrjsOK(fHitPoints, Trjs) /\ TrjsOK(fHitPoints, trjsLong) /\ TrjsOK(fHitPoints, trjsShort)
         /\ pair.short \in BOOLEAN /\ pair.joined \in BOOLEAN
         /\ pair.short => Trjs = trjsShort
         /\ ~pair.short => Trjs = trjsLong
<1>1. TrjsOK(fHitPoints, trjsLong) /\ TrjsOK(fHitPoints, trjsShort)
  BY SelectFacts
<1>2. /\ pair \in PairRec /\ (pair.joined <=> ~NoneEmpty(Trjs))
      /\ pair.short => NoneEmpty(trjsLong)
      /\ ~pair.short => NoneEmpty(trjsShort)
  BY Zenon DEF BuilderInv, JoinInv
<1>3. pair.short \in BOOLEAN /\ pair.joined \in BOOLEAN
  BY <1>2 DEF PairRec
<1>4. /\ pair.short => Trjs = trjsShort
      /\ ~pair.short => Trjs = trjsLong
  BY Zenon DEF Trjs
<1>5. TrjsOK(fHitPoints, Trjs)
  BY <1>1, <1>4, Zenon
<1> QED BY <1>1, <1>2, <1>3, <1>4, <1>5, Zenon

(* A pair of trajectories is looked at.                                    *)
LEMMA TryJoinKeeps == ASSUME BuilderInv, TryJoin PROVE BuilderInv'
<1> DEFINE H == fHitPoints
           i == NextPair[1]
           j == NextPair[2]
<1>1. /\ phase = "join" /\ phase' = phase /\ fHitPoints' = H /\ fHitsInUse' = fHitsInUse /\ hitIdx' = hitIdx
      /\ fTrjs' = fTrjs /\ walk' = walk /\ found' = found /\ PairsLeft # {}
      /\ \/ SetTrjs(Joined(Trjs, i, j)) /\ pair' = [pair EXCEPT !.i = i, !.j = j, !.joined = TRUE]
         \/ trjsLong' = trjsLong /\ trjsShort' = trjsShort /\ pair' = [pair EXCEPT !.i = i, !.j = j]
  BY DEF TryJoin
<1>2. /\ pair \in PairRec /\ (pair.joined <=> ~NoneEmpty(Trjs))
      /\ pair.short => NoneEmpty(trjsLong)
      /\ ~pair.short => NoneEmpty(trjsShort)
      /\ TrjsOK(H, Trjs) /\ TrjsOK(H, trjsLong) /\ TrjsOK(H, trjsShort)
      /\ pair.short \in BOOLEAN
      /\ pair.short => Trjs = trjsShort
      /\ ~pair.short => Trjs = trjsLong
  BY <1>1, JoinFacts, Zenon
<1>3. DOMAIN Trjs \subseteq Nat
  <2>1. Trjs \in Seq(TrjRec(H))
    BY <1>2, Zenon DEF TrjsOK
  <2> QED BY <2>1
<1>4. /\ i \in DOMAIN Trjs /\ j \in DOMAIN Trjs /\ i # j
      /\ Trjs[i].points # <<>> /\ Trjs[j].points # <<>>
  <2>1. NextPair \in PairsLeft
    BY <1>1, <1>3, NextPairOK, Zenon
  <2> QED BY <2>1 DEF PairsLeft
<1>5. i \in Int /\ j \in Int
  BY <1>3, <1>4
<1> HIDE DEF i, j
<1>6. CASE SetTrjs(Joined(Trjs, i, j)) /\ pair' = [pair EXCEPT !.i = i, !.j = j, !.joined = TRUE]
  <2> DEFINE new == Joined(Trjs, i, j)
  <2>1. /\ TrjsOK(H, new) /\ HeldBy(new) = HeldBy(Trjs)
        /\ DOMAIN new = DOMAIN Trjs /\ new[j].points = <<>>
    BY <1>2, <1>4, JoinedOK
  <2>2. IF pair.short THEN trjsShort' = new /\ trjsLong' = trjsLong
                      ELSE trjsLong' = new /\ trjsShort' = trjsShort
    BY <1>6 DEF SetTrjs
  <2> HIDE DEF new
  <2>3. pair' \in PairRec /\ pair'.joined = TRUE /\ pair'.short = pair.short
    BY <1>2, <1>5, <1>6 DEF PairRec
  <2>4. ~NoneEmpty(new)
    BY <1>4, <2>1, Zenon DEF NoneEmpty
  <2>5. Trjs' = new
    BY <2>2, <2>3, Zenon DEF Trjs
  <2>6. JoinInv'
    <3>1. /\ pair.short => NoneEmpty(trjsLong')
          /\ ~pair.short => NoneEmpty(trjsShort')
      BY <1>2, <2>2, Zenon
    <3> QED BY <1>1, <2>3, <2>4, <2>5, <3>1 DEF JoinInv
  <2>7. /\ TrjsOK(H, trjsLong') /\ HeldBy(trjsLong') \subseteq HeldBy(trjsLong)
        /\ TrjsOK(H, trjsShort') /\ HeldBy(trjsShort') \subseteq HeldBy(trjsShort)
    BY <1>2, <2>1, <2>2, Zenon
  <2> QED BY <1>1, <2>6, <2>7, MergeKeeps
<1>7. CASE trjsLong' = trjsLong /\ trjsShort' = trjsShort /\ pair' = [pair EXCEPT !.i = i, !.j = j]
  <2>1. pair' \in PairRec /\ pair'.joined = pair.joined /\ pair'.short = pair.short
    BY <1>2, <1>5, <1>7 DEF PairRec
  <2>2. Trjs' = Trjs
    BY <1>7, <2>1, Zenon DEF Trjs
  <2>3. JoinInv'
    <3>1. /\ pair'.joined <=> ~NoneEmpty(Trjs')
          /\ pair'.short => NoneEmpty(trjsLong')
          /\ ~pair'.short => NoneEmpty(trjsShort')
      BY <1>2, <1>7, <2>1, <2>2, Zenon
    <3>2. phase' # "select"
      BY <1>1
    <3> QED BY <2>1, <3>1, <3>2, Zenon DEF JoinInv
  <2> QED BY <1>1, <1>2, <1>7, <2>3, MergeKeeps
<1> QED BY <1>1, <1>6, <1>7 DEF i, j

(* A pass over the pairs ends.                                             *)
LEMMA EndPassKeeps == ASSUME BuilderInv, EndPass PROVE BuilderInv'
<1> DEFINE H == fHitPoints
           S == {t \in Range(Trjs) : t.points # <<>>}
           new == Sift(Trjs, S)
           b == pair.short \/ ~pair.joined
<1>1. /\ phase = "join" /\ fHitPoints' = H /\ fHitsInUse' = fHitsInUse /\ hitIdx' = hitIdx
      /\ fTrjs' = fTrjs /\ walk' = walk /\ found' = found
      /\ IF pair.short THEN trjsShort' = new /\ trjsLong' = trjsLong
                       ELSE trjsLong' = new /\ trjsShort' = trjsShort
      /\ pair' = [FirstPair EXCEPT !.short = b]
      /\ phase' = IF pair.short /\ ~pair.joined THEN "select" ELSE "join"
  BY Zenon DEF EndPass, SetTrjs
<1>2. /\ pair \in PairRec /\ (pair.joined <=> ~NoneEmpty(Trjs))
      /\ pair.short => NoneEmpty(trjsLong)
      /\ ~pair.short => NoneEmpty(trjsShort)
      /\ TrjsOK(H, Trjs) /\ TrjsOK(H, trjsLong) /\ TrjsOK(H, trjsShort)
      /\ pair.short \in BOOLEAN
      /\ pair.short => Trjs = trjsShort
      /\ ~pair.short => Trjs = trjsLong
  BY <1>1, JoinFacts, Zenon
<1>3. TrjsOK(H, new) /\ HeldBy(new) \subseteq HeldBy(Trjs) /\ \A n \in DOMAIN new : new[n] \in S
  <2>1. SomeOf(H, Trjs, new) /\ \A n \in DOMAIN new : new[n] \in S
    BY <1>2, SiftTrjs
  <2> QED BY <2>1, Zenon DEF SomeOf
<1>4. NoneEmpty(new)
  BY <1>3, Zenon DEF NoneEmpty
<1>5. pair' \in PairRec /\ pair'.short = b /\ pair'.joined = FALSE
  <2>1. b \in BOOLEAN
    OBVIOUS
  <2> HIDE DEF b
  <2> QED BY <1>1, <2>1, FirstPairOK, Zenon
<1> HIDE DEF new
<1>6. JoinInv'
  <2>1. CASE pair.short /\ ~pair.joined
    <3>1. phase' = "select" /\ trjsShort' = new /\ trjsLong' = trjsLong
      BY <1>1, <2>1, Zenon
    <3> QED BY <1>2, <1>4, <2>1, <3>1 DEF JoinInv
  <2>2. CASE pair.short /\ pair.joined
    <3>1. phase' = "join" /\ trjsShort' = new /\ trjsLong' = trjsLong
      BY <1>1, <2>2, Zenon
    <3>2. pair'.short /\ ~pair'.joined
      BY <1>5, <2>2, Zenon
    <3>3. Trjs' = new
      BY <3>1, <3>2, Zenon DEF Trjs
    <3> QED BY <1>2, <1>4, <1>5, <2>2, <3>1, <3>2, <3>3 DEF JoinInv
  <2>3. CASE ~pair.short /\ pair.joined
    <3>1. phase' = "join" /\ trjsLong' = new /\ trjsShort' = trjsShort
      BY <1>1, <2>3, Zenon
    <3>2. ~pair'.short /\ ~pair'.joined
      BY <1>5, <2>3, Zenon
    <3>3. Trjs' = new
      BY <3>1, <3>2, Zenon DEF Trjs
    <3> QED BY <1>2, <1>4, <1>5, <2>3, <3>1, <3>2, <3>3 DEF JoinInv
  <2>4. CASE ~pair.short /\ ~pair.joined
    <3>1. phase' = "join" /\ trjsLong' = new /\ trjsShort' = trjsShort
      BY <1>1, <2>4, Zenon
    <3>2. pair'.short /\ ~pair'.joined
      BY <1>5, <2>4, Zenon
    <3>3. Trjs' = trjsShort
      BY <3>1, <3>2, Zenon DEF Trjs
    <3> QED BY <1>2, <1>4, <1>5, <2>4, <3>1, <3>2, <3>3 DEF JoinInv
  <2> QED BY <2>1, <2>2, <2>3, <2>4, Zenon
<1>7. /\ TrjsOK(H, trjsLong') /\ HeldBy(trjsLong') \subseteq HeldBy(trjsLong)
      /\ TrjsOK(H, trjsShort') /\ HeldBy(trjsShort') \subseteq HeldBy(trjsShort)
  BY <1>1, <1>2, <1>3, Zenon
<1>8. phase' \in {"join", "select"}
  BY <1>1, Zenon
<1> QED BY <1>1, <1>6, <1>7, <1>8, MergeKeeps

(* While tracks are made, hits are added or set free.                      *)
LEMMA SelectKeeps ==
  ASSUME BuilderInv, phase = "select", phase' = phase,
         fHitPoints' = fHitPoints, hitIdx' = hitIdx, fTrjs' = fTrjs, walk' = walk,
         Flags(fHitPoints, fHitsInUse'),
         \A k \in DOMAIN fHitPoints : fHitsInUse[k] # 0 => fHitsInUse'[k] # 0,
         TrjsOK(fHitPoints, trjsLong'), HeldBy(trjsLong') \subseteq Taken(fHitsInUse'),
         TrjsOK(fHitPoints, trjsShort'), HeldBy(trjsShort') \subseteq Taken(fHitsInUse'),
         HeldBy(trjsLong') \cap HeldBy(trjsShort') = {},
         NoneEmpty(trjsLong'), NoneEmpty(trjsShort'),
         FoundOK(fHitPoints, found'), MadeOf(fHitPoints, found') \subseteq Taken(fHitsInUse'),
         MadeOf(fHitPoints, found') \cap HeldBy(trjsLong') = {},
         MadeOf(fHitPoints, found') \cap HeldBy(trjsShort') = {}
  PROVE  BuilderInv'
<1>1. /\ HitPointsOK(fHitPoints) /\ hitIdx \in 0 .. Len(fHitPoints)
      /\ \A k \in 1 .. hitIdx : k \in DOMAIN fHitPoints /\ fHitsInUse[k] # 0
      /\ walk = <<>> /\ fTrjs = <<>> /\ hitIdx = Len(fHitPoints)
  BY SelectFacts, Zenon
<1>2. \A k \in 1 .. hitIdx : fHitsInUse'[k] # 0
  BY <1>1, Zenon
<1>3. FlagsInv'
  BY <1>1, <1>2 DEF FlagsInv
<1>4. SelectInv'
  BY <1>1, Zenon DEF SelectInv
<1>5. phase' # "idle" /\ phase' # "seed" /\ phase' # "expand" /\ phase' # "join"
  OBVIOUS
<1>6. JoinInv'
  BY <1>5, Zenon DEF JoinInv
<1> QED BY <1>1, <1>3, <1>4, <1>5, <1>6 DEF BuilderInv, IdleInv, GrowInv, WalkInv

(* Every trajectory that is left to select has a point.                    *)
LEMMA SelectNoneEmpty ==
  ASSUME BuilderInv, phase = "select"
  PROVE  NoneEmpty(trjsLong) /\ NoneEmpty(trjsShort)
BY Zenon DEF BuilderInv, JoinInv

(* Hits missing on a track are free ones of the cluster.                   *)
LEMMA MissingFree ==
  ASSUME HitPointsOK(fHitPoints), NEW ch, NEW k \in MissingHits(ch)
  PROVE  k \in DOMAIN fHitPoints /\ k \notin Taken(fHitsInUse)
<1>1. k # 0 /\ fHitsInUse[k] <= 0 /\ \E y \in Predictions : k = FindClosest(ch, y, fHitMergeD)
  BY DEF MissingHits
<1>2. k \in DOMAIN fHitPoints
  BY <1>1, ClosestPlace, Zenon
<1>3. fHitsInUse[k] # 1
  BY <1>1
<1> QED BY <1>2, <1>3, Zenon DEF Taken

(* A trajectory with other points                                          *)
LEMMA PointsOf ==
  ASSUME NEW H, NEW t \in TrjRec(H), NEW ps
  PROVE  [t EXCEPT !.points = ps].points = ps
BY DEF TrjRec

(* The hits of a dropped trajectory are nobody else's.                     *)
LEMMA DropKeeps ==
  ASSUME BuilderInv, phase = "select", phase' = phase,
         fHitPoints' = fHitPoints, hitIdx' = hitIdx, fTrjs' = fTrjs, walk' = walk,
         NEW U, fHitsInUse' = Flagged(fHitsInUse, U, -1), found' = found,
         TrjsOK(fHitPoints, trjsLong'), HeldBy(trjsLong') \subseteq HeldBy(trjsLong) \ U,
         TrjsOK(fHitPoints, trjsShort'), HeldBy(trjsShort') \subseteq HeldBy(trjsShort) \ U,
         NoneEmpty(trjsLong'), NoneEmpty(trjsShort'),
         U \subseteq HeldBy(trjsLong) \cup HeldBy(trjsShort)
  PROVE  BuilderInv'
<1> DEFINE H == fHitPoints
           free == Flagged(fHitsInUse, U, -1)
<1>1. /\ Flags(H, fHitsInUse)
      /\ HeldBy(trjsLong) \subseteq Taken(fHitsInUse) /\ HeldBy(trjsShort) \subseteq Taken(fHitsInUse)
      /\ HeldBy(trjsLong) \cap HeldBy(trjsShort) = {}
      /\ FoundOK(H, found) /\ MadeOf(H, found) \subseteq Taken(fHitsInUse)
      /\ MadeOf(H, found) \cap HeldBy(trjsLong) = {}
      /\ MadeOf(H, found) \cap HeldBy(trjsShort) = {}
  BY SelectFacts, Zenon
<1>2. /\ Flags(H, free) /\ (\A k \in DOMAIN H : fHitsInUse[k] # 0 => free[k] # 0)
      /\ Taken(free) = Taken(fHitsInUse) \ U
  BY <1>1, FlagFree
<1> HIDE DEF free
<1>3. fHitsInUse' = free
  BY Zenon DEF free
<1>4. /\ HeldBy(trjsLong') \subseteq Taken(free) /\ HeldBy(trjsShort') \subseteq Taken(free)
      /\ HeldBy(trjsLong') \cap HeldBy(trjsShort') = {}
      /\ MadeOf(H, found) \subseteq Taken(free)
      /\ MadeOf(H, found) \cap HeldBy(trjsLong') = {}
      /\ MadeOf(H, found) \cap HeldBy(trjsShort') = {}
  BY <1>1, <1>2, Zenon
<1> QED BY <1>1, <1>2, <1>3, <1>4, SelectKeeps

(* A track of a trajectory, with hits that are free                        *)
LEMMA MadeKeeps ==
  ASSUME BuilderInv, phase = "select", phase' = phase,
         fHitPoints' = fHitPoints, hitIdx' = hitIdx, fTrjs' = fTrjs, walk' = walk,
         NEW t, PointsOK(fHitPoints, t.points), t.points # <<>>,
         NEW U, NEW ks, Uids(t.points) \subseteq U \cup ks,
         U \subseteq HeldBy(trjsLong) \cup HeldBy(trjsShort),
         ks \subseteq DOMAIN fHitPoints, ks \cap Taken(fHitsInUse) = {},
         fHitsInUse' = Flagged(fHitsInUse, ks, 1), found' = Append(found, Track(t)),
         TrjsOK(fHitPoints, trjsLong'), HeldBy(trjsLong') \subseteq HeldBy(trjsLong) \ U,
         TrjsOK(fHitPoints, trjsShort'), HeldBy(trjsShort') \subseteq HeldBy(trjsShort) \ U,
         NoneEmpty(trjsLong'), NoneEmpty(trjsShort')
  PROVE  BuilderInv'
<1> DEFINE H == fHitPoints
           use == Flagged(fHitsInUse, ks, 1)
           tr == Track(t)
           V == Uids(t.points)
<1>1. /\ HitPointsOK(H) /\ Flags(H, fHitsInUse)
      /\ HeldBy(trjsLong) \subseteq Taken(fHitsInUse) /\ HeldBy(trjsShort) \subseteq Taken(fHitsInUse)
      /\ HeldBy(trjsLong) \cap HeldBy(trjsShort) = {}
      /\ FoundOK(H, found) /\ MadeOf(H, found) \subseteq Taken(fHitsInUse)
      /\ MadeOf(H, found) \cap HeldBy(trjsLong) = {}
      /\ MadeOf(H, found) \cap HeldBy(trjsShort) = {}
  BY SelectFacts, Zenon
<1>2. /\ Flags(H, use) /\ (\A k \in DOMAIN H : fHitsInUse[k] # 0 => use[k] # 0)
      /\ Taken(use) = Taken(fHitsInUse) \cup (ks \cap DOMAIN H)
  BY <1>1, FlagTaken
<1>3. HitsAre(H, tr.hits, V)
  BY <1>1, TrackHits
<1>4. TrackOK(tr) /\ tr.drays = <<>>
  BY <1>1, TrackComplete
<1>5. V \subseteq DOMAIN H /\ V \cap MadeOf(H, found) = {}
  <2>1. DOMAIN fHitsInUse = DOMAIN H
    BY <1>1 DEF Flags
  <2>2. Taken(fHitsInUse) \subseteq DOMAIN H
    BY <2>1 DEF Taken
  <2> HIDE DEF V
  <2>3. V \subseteq U \cup ks
    BY DEF V
  <2> QED BY <1>1, <2>2, <2>3, Zenon
<1> HIDE DEF use
<1>6. FoundOK(H, found') /\ MadeOf(H, found') = MadeOf(H, found) \cup V
  <2>1. found' = Append(found, tr) /\ V \in SUBSET DOMAIN H
    BY <1>5, Zenon
  <2> HIDE DEF tr, V
  <2>2. FoundOK(H, Append(found, tr)) /\ MadeOf(H, Append(found, tr)) = MadeOf(H, found) \cup V
    BY <1>1, <1>3, <1>4, <1>5, <2>1, FoundMore
  <2> QED BY <2>1, <2>2, Zenon
<1>7. V \subseteq U \cup ks
  OBVIOUS
<1> HIDE DEF V, tr
<1>8. fHitsInUse' = use
  BY Zenon DEF use
<1>9. /\ HeldBy(trjsLong') \subseteq Taken(use) /\ HeldBy(trjsShort') \subseteq Taken(use)
      /\ HeldBy(trjsLong') \cap HeldBy(trjsShort') = {}
      /\ MadeOf(H, found') \subseteq Taken(use)
  BY <1>1, <1>2, <1>6, <1>7, Zenon
<1>10. /\ MadeOf(H, found') \cap HeldBy(trjsLong') = {}
       /\ MadeOf(H, found') \cap HeldBy(trjsShort') = {}
  BY <1>1, <1>6, <1>7, Zenon
<1> QED BY <1>1, <1>2, <1>6, <1>8, <1>9, <1>10, SelectKeeps

(* A long trajectory becomes a track, or is dropped.                       *)
LEMMA SelectLongKeeps == ASSUME BuilderInv, SelectLong PROVE BuilderInv'
<1> DEFINE H == fHitPoints
           trj == Head(trjsLong)
           U == Uids(trj.points)
           q(ks) == LET add == SetToSeq(ks) IN [n \in DOMAIN add |-> PointOf(add[n])]
           all(ks) == [trj EXCEPT !.points = AddAll(@, q(ks))]
<1>1. /\ phase = "select" /\ phase' = phase /\ fHitPoints' = H /\ hitIdx' = hitIdx
      /\ fTrjs' = fTrjs /\ walk' = walk /\ trjsShort' = trjsShort
      /\ trjsLong # <<>> /\ trjsLong' = Tail(trjsLong)
  BY DEF SelectLong
<1>2. \/ fHitsInUse' = Flagged(fHitsInUse, U, -1) /\ found' = found
      \/ \E ks \in SUBSET UNION {MissingHits(ch) : ch \in Missing(trj)} :
           fHitsInUse' = Flagged(fHitsInUse, ks, 1) /\ found' = Append(found, Track(all(ks)))
  BY Zenon DEF SelectLong, Drop, AddAll
<1>3. /\ HitPointsOK(H) /\ TrjsOK(H, trjsLong) /\ TrjsOK(H, trjsShort)
      /\ HeldBy(trjsLong) \subseteq Taken(fHitsInUse) /\ HeldBy(trjsLong) \cap HeldBy(trjsShort) = {}
      /\ NoneEmpty(trjsLong) /\ NoneEmpty(trjsShort)
  BY <1>1, SelectFacts, SelectNoneEmpty, Zenon
<1>4. /\ SomeOf(H, trjsLong, Tail(trjsLong)) /\ HeldBy(Tail(trjsLong)) \cap U = {}
      /\ PointsOK(H, trj.points) /\ U \subseteq HeldBy(trjsLong)
      /\ trj.points # <<>> /\ trj \in TrjRec(H)
  BY <1>1, <1>3, TailTrjs, Zenon
<1> HIDE DEF U
<1>5. /\ TrjsOK(H, trjsLong') /\ HeldBy(trjsLong') \subseteq HeldBy(trjsLong) \ U /\ NoneEmpty(trjsLong')
      /\ TrjsOK(H, trjsShort') /\ HeldBy(trjsShort') \subseteq HeldBy(trjsShort) \ U /\ NoneEmpty(trjsShort')
      /\ U \subseteq HeldBy(trjsLong) \cup HeldBy(trjsShort)
  BY <1>1, <1>3, <1>4, Zenon DEF SomeOf
<1>6. CASE fHitsInUse' = Flagged(fHitsInUse, U, -1) /\ found' = found
  BY <1>1, <1>5, <1>6, DropKeeps
<1>7. ASSUME NEW ks \in SUBSET UNION {MissingHits(ch) : ch \in Missing(trj)},
             fHitsInUse' = Flagged(fHitsInUse, ks, 1), found' = Append(found, Track(all(ks)))
      PROVE  BuilderInv'
  <2>1. \A k \in ks : k \in DOMAIN H /\ k \notin Taken(fHitsInUse)
    <3> TAKE k \in ks
    <3>1. PICK ch \in Missing(trj) : k \in MissingHits(ch)
      BY Zenon
    <3> QED BY <1>3, <3>1, MissingFree, Zenon
  <2>2. KeptOK(H, q(ks)) /\ Uids(q(ks)) \subseteq ks
    <3>1. ks \in SUBSET DOMAIN H
      BY <2>1, Zenon
    <3> QED BY <1>3, <3>1, PointsOfHits, Zenon
  <2> DEFINE Q == q(ks)
             P == trj.points
             t == all(ks)
  <2>3. t.points = AddAll(P, Q)
    <3>1. t = [trj EXCEPT !.points = AddAll(P, Q)]
      BY Zenon
    <3> HIDE DEF t, Q, P
    <3>2. [trj EXCEPT !.points = AddAll(P, Q)].points = AddAll(P, Q)
      <4> DEFINE ps == AddAll(P, Q)
                 one == trj
      <4>1. one \in TrjRec(H)
        BY <1>4, Zenon
      <4> HIDE DEF ps, one
      <4>2. [one EXCEPT !.points = ps].points = ps
        BY <4>1, PointsOf
      <4> QED BY <4>2, Zenon DEF ps, one
    <3> QED BY <3>1, <3>2, Zenon
  <2>4. found' = Append(found, Track(t))
    BY <1>7
  <2>5. PointsOK(H, P) /\ P # <<>> /\ Uids(P) = U /\ KeptOK(H, Q) /\ Uids(Q) \subseteq ks
    BY <1>4, <2>2, Zenon DEF U
  <2> HIDE DEF t, Q, P
  <2>6. Uids(Q) \cap Uids(P) = {}
    BY <1>3, <1>4, <2>1, <2>5, Zenon
  <2>7. /\ PointsOK(H, AddAll(P, Q)) /\ Uids(AddAll(P, Q)) = Uids(P) \cup Uids(Q)
        /\ P # <<>> => AddAll(P, Q) # <<>>
    BY <2>5, <2>6, AddAllOK
  <2>8. PointsOK(H, t.points) /\ t.points # <<>> /\ Uids(t.points) \subseteq U \cup ks
    BY <2>3, <2>5, <2>7, Zenon
  <2>9. ks \subseteq DOMAIN H /\ ks \cap Taken(fHitsInUse) = {}
    BY <2>1, Zenon
  <2> QED BY <1>1, <1>5, <1>7, <2>4, <2>8, <2>9, MadeKeeps
<1> QED BY <1>2, <1>6, <1>7, Zenon DEF U

(* So does a short one.                                                    *)
LEMMA SelectShortKeeps == ASSUME BuilderInv, SelectShort PROVE BuilderInv'
<1> DEFINE H == fHitPoints
           trj == Head(trjsShort)
           U == Uids(trj.points)
<1>1. /\ phase = "select" /\ phase' = phase /\ fHitPoints' = H /\ hitIdx' = hitIdx
      /\ fTrjs' = fTrjs /\ walk' = walk /\ trjsLong' = trjsLong
      /\ trjsShort # <<>> /\ trjsShort' = Tail(trjsShort)
  BY DEF SelectShort
<1>2. \/ fHitsInUse' = Flagged(fHitsInUse, U, -1) /\ found' = found
      \/ fHitsInUse' = fHitsInUse /\ found' = Append(found, Track(trj))
  BY Zenon DEF SelectShort, Drop
<1>3. /\ HitPointsOK(H) /\ Flags(H, fHitsInUse) /\ TrjsOK(H, trjsLong) /\ TrjsOK(H, trjsShort)
      /\ HeldBy(trjsLong) \cap HeldBy(trjsShort) = {}
      /\ NoneEmpty(trjsLong) /\ NoneEmpty(trjsShort)
  BY <1>1, SelectFacts, SelectNoneEmpty, Zenon
<1>4. /\ SomeOf(H, trjsShort, Tail(trjsShort)) /\ HeldBy(Tail(trjsShort)) \cap U = {}
      /\ PointsOK(H, trj.points) /\ U \subseteq HeldBy(trjsShort)
      /\ trj.points # <<>>
  BY <1>1, <1>3, TailTrjs, Zenon
<1>5. U = Uids(trj.points)
  OBVIOUS
<1> HIDE DEF U, trj
<1>6. /\ TrjsOK(H, trjsLong') /\ HeldBy(trjsLong') \subseteq HeldBy(trjsLong) \ U /\ NoneEmpty(trjsLong')
      /\ TrjsOK(H, trjsShort') /\ HeldBy(trjsShort') \subseteq HeldBy(trjsShort) \ U /\ NoneEmpty(trjsShort')
      /\ U \subseteq HeldBy(trjsLong) \cup HeldBy(trjsShort)
  BY <1>1, <1>3, <1>4, Zenon DEF SomeOf
<1>7. CASE fHitsInUse' = Flagged(fHitsInUse, U, -1) /\ found' = found
  BY <1>1, <1>6, <1>7, DropKeeps
<1>8. CASE fHitsInUse' = fHitsInUse /\ found' = Append(found, Track(trj))
  <2>1. fHitsInUse' = Flagged(fHitsInUse, {}, 1)
    <3>1. fHitsInUse = [k \in DOMAIN fHitsInUse |-> fHitsInUse[k]]
      BY <1>3, Zenon DEF Flags
    <3>2. \A k \in DOMAIN fHitsInUse : k \notin {}
      OBVIOUS
    <3>3. Flagged(fHitsInUse, {}, 1) = [k \in DOMAIN fHitsInUse |-> fHitsInUse[k]]
      BY <3>2 DEF Flagged
    <3> QED BY <1>8, <3>1, <3>3, Zenon
  <2>2. Uids(trj.points) \subseteq U \cup {} /\ {} \subseteq DOMAIN H /\ {} \cap Taken(fHitsInUse) = {}
    BY <1>5, Zenon
  <2> DEFINE ks == {}
  <2>3. /\ Uids(trj.points) \subseteq U \cup ks /\ ks \subseteq DOMAIN H /\ ks \cap Taken(fHitsInUse) = {}
        /\ fHitsInUse' = Flagged(fHitsInUse, ks, 1)
    BY <2>1, <2>2, Zenon
  <2> HIDE DEF ks
  <2> QED BY <1>1, <1>4, <1>6, <1>8, <2>3, MadeKeeps
<1> QED BY <1>2, <1>7, <1>8 DEF trj

(* Hits of a collection in one list: some of them, or all                  *)
Listed(H, col, hs) == hs \in Seq(H) /\ IsInjective(hs) /\ Range(hs) \subseteq Held(col)

(* Channels of a collection have hits of their own.                        *)
LEMMA ChannelsApart ==
  ASSUME NEW H, NEW col, CollOK(H, col)
  PROVE  /\ \A k \in DOMAIN col.fHits : /\ col.fHits[k] \in ChRec(H)
                                         /\ col.fHits[k].fHits \in Seq(H)
                                         /\ IsInjective(col.fHits[k].fHits)
         /\ \A j, k \in DOMAIN col.fHits : j # k =>
              Range(col.fHits[j].fHits) \cap Range(col.fHits[k].fHits) = {}
<1> DEFINE s == col.fHits
           from == col.fChStart
<1>1. s \in Seq(ChRec(H)) /\ from \in Int /\ \A k \in DOMAIN s : ChannelOK(from + k - 1, s[k])
  BY Zenon DEF CollOK
<1> HIDE DEF s, from
<1>2. DOMAIN s \subseteq Nat /\ \A k \in DOMAIN s : s[k] \in ChRec(H)
  <2> HIDE DEF ChRec
  <2> QED BY <1>1
<1>3. ASSUME NEW k \in DOMAIN s PROVE s[k].fHits \in Seq(H) /\ IsInjective(s[k].fHits)
  <2>1. IsInjective(s[k].fHits)
    BY <1>1, Zenon DEF ChannelOK
  <2>2. s[k] \in ChRec(H)
    BY <1>2, Zenon
  <2> QED BY <2>1, <2>2 DEF ChRec
<1>4. ASSUME NEW k \in DOMAIN s, NEW x \in Range(s[k].fHits) PROVE x.ch = from + k - 1
  <2>1. ChannelOK(from + k - 1, s[k])
    BY <1>1, Zenon
  <2>2. PICK m \in DOMAIN s[k].fHits : x = s[k].fHits[m]
    BY Zenon DEF Range
  <2>3. Matches(s[k], s[k].fHits[m])
    BY <2>1, Zenon DEF ChannelOK
  <2>4. x.ch = s[k].fChId
    BY <2>2, <2>3, Zenon DEF Matches
  <2>5. s[k].fHits # <<>>
    <3> DEFINE hs == s[k].fHits
    <3>1. m \in DOMAIN hs
      BY <2>2
    <3> HIDE DEF hs
    <3>2. hs # <<>>
      BY <3>1
    <3> QED BY <3>2 DEF hs
  <2>6. s[k].fChId \in {-1, from + k - 1} /\ (s[k].fChId = -1 <=> s[k].fHits = <<>>)
    BY <2>1, Zenon DEF ChannelOK
  <2> QED BY <2>4, <2>5, <2>6, Zenon
<1>5. ASSUME NEW j \in DOMAIN s, NEW k \in DOMAIN s, j # k
      PROVE  Range(s[j].fHits) \cap Range(s[k].fHits) = {}
  <2>1. from + j - 1 # from + k - 1
    BY <1>1, <1>2, <1>5
  <2> QED BY <1>4, <2>1, Zenon
<1> QED BY <1>2, <1>3, <1>5, Zenon DEF s

(* Some channels of a collection, each once                                *)
LEMMA ChannelsListed ==
  ASSUME NEW H, NEW col, CollOK(H, col), NEW n \in Nat,
         NEW f \in [1 .. n -> DOMAIN col.fHits], IsInjective(f)
  PROVE  LET hs == FlattenSeq([k \in 1 .. n |-> col.fHits[f[k]].fHits])
         IN  /\ Listed(H, col, hs)
             /\ \A x : x \in Range(hs) <=> \E k \in 1 .. n : x \in Range(col.fHits[f[k]].fHits)
<1> DEFINE s == col.fHits
           seqs == [k \in 1 .. n |-> col.fHits[f[k]].fHits]
<1>1. /\ \A k \in DOMAIN s : s[k].fHits \in Seq(H) /\ IsInjective(s[k].fHits)
      /\ \A j, k \in DOMAIN s : j # k => Range(s[j].fHits) \cap Range(s[k].fHits) = {}
  BY ChannelsApart, Zenon
<1>2. /\ \A k \in 1 .. n : f[k] \in DOMAIN s
      /\ \A j, k \in 1 .. n : j # k => f[j] # f[k]
  BY DEF IsInjective
<1>3. DOMAIN seqs = 1 .. n /\ \A k \in 1 .. n : seqs[k] = s[f[k]].fHits
  BY Zenon
<1>4. seqs \in Seq(Seq(H)) /\ Len(seqs) = n
  <2>1. \A k \in 1 .. n : col.fHits[f[k]].fHits \in Seq(H)
    BY <1>1, <1>2, Zenon
  <2> QED BY <2>1
<1> HIDE DEF s, seqs
<1>5. \A k \in 1 .. n : IsInjective(seqs[k])
  BY <1>1, <1>2, <1>3, Zenon
<1>6. \A j, k \in 1 .. n : j # k => Range(seqs[j]) \cap Range(seqs[k]) = {}
  BY <1>1, <1>2, <1>3, Zenon
<1>7. FlatOnce(H, seqs, n, FlattenSeq(seqs))
  <2>1. FlatOnce(H, seqs, Len(seqs), FlattenSeq(seqs))
    BY <1>3, <1>4, <1>5, <1>6, FlattenOnce
  <2> QED BY <1>4, <2>1, Zenon
<1> DEFINE hs == FlattenSeq(seqs)
<1>8. hs \in Seq(H) /\ IsInjective(hs) /\ \A x : x \in Range(hs) <=> \E k \in 1 .. n : x \in Range(seqs[k])
  BY <1>7, Zenon DEF FlatOnce
<1>9. \A x : x \in Range(hs) <=> \E k \in 1 .. n : x \in Range(s[f[k]].fHits)
  BY <1>3, <1>8, Zenon
<1>10. Range(hs) \subseteq Held(col)
  <2> SUFFICES ASSUME NEW x \in Range(hs) PROVE x \in Held(col)
    BY Zenon
  <2>1. PICK k \in 1 .. n : x \in Range(s[f[k]].fHits)
    BY <1>9, Zenon
  <2>2. f[k] \in DOMAIN col.fHits /\ x \in Range(col.fHits[f[k]].fHits)
    BY <1>2, <2>1, Zenon DEF s
  <2> QED BY <2>2, Zenon DEF Held
<1> QED BY <1>8, <1>9, <1>10, Zenon DEF Listed, seqs, s

(* GetHitList() returns every hit once, AllHits those of all channels.     *)
LEMMA HitListOK ==
  ASSUME NEW H, NEW col, CollOK(H, col), NEW from
  PROVE  Listed(H, col, GetHitList(col, from))
<1> DEFINE s == col.fHits
           c == s[FromCh(col, from) - col.fChStart + 1]
           S == {d \in Range(s) : d.fCrmId = c.fCrmId /\ d.fView = c.fView}
           same == Sift(s, S)
           n == Len(same)
<1>1. s \in Seq(ChRec(H))
  BY Zenon DEF CollOK
<1>2. GetHitList(col, from) = FlattenSeq([k \in DOMAIN same |-> same[k].fHits])
  BY Zenon DEF GetHitList
<1> HIDE DEF S
<1>3. same \in Seq(ChRec(H)) /\ \E f : SiftedBy([seq |-> s, set |-> S], Len(s), same, f)
  <2> HIDE DEF s, ChRec
  <2> QED BY <1>1, SiftOK
<1>4. PICK f : SiftedBy([seq |-> s, set |-> S], Len(s), same, f)
  BY <1>3, Zenon
<1> HIDE DEF same, s
<1>5. /\ f \in [1 .. n -> 1 .. Len(s)]
      /\ \A i \in 1 .. n : same[i] = s[f[i]]
      /\ \A i, j \in 1 .. n : i < j => f[i] < f[j]
  BY <1>4 DEF SiftedBy
<1>6. n \in Nat /\ DOMAIN same = 1 .. n /\ DOMAIN s = 1 .. Len(s) /\ Len(s) \in Nat
  BY <1>1, <1>3
<1>7. IsInjective(f)
  <2>1. \A i, j \in 1 .. n : f[i] = f[j] => i = j
    BY <1>5, <1>6
  <2> QED BY <1>5, <2>1 DEF IsInjective
<1>8. f \in [1 .. n -> DOMAIN col.fHits]
  BY <1>5, <1>6, Zenon DEF s
<1>9. [k \in DOMAIN same |-> same[k].fHits] = [k \in 1 .. n |-> col.fHits[f[k]].fHits]
  BY <1>5, <1>6, Zenon DEF s
<1> DEFINE hs == FlattenSeq([k \in 1 .. n |-> col.fHits[f[k]].fHits])
<1> HIDE DEF n
<1>10. /\ Listed(H, col, hs)
       /\ \A x : x \in Range(hs) <=> \E k \in 1 .. n : x \in Range(col.fHits[f[k]].fHits)
  BY <1>6, <1>7, <1>8, ChannelsListed, Zenon
<1> QED BY <1>2, <1>9, <1>10, Zenon

(* All hits of a collection, each once                                     *)
LEMMA AllHitsOK ==
  ASSUME NEW H, NEW col, CollOK(H, col)
  PROVE  Listed(H, col, AllHits(col)) /\ Range(AllHits(col)) = Held(col)
<1> DEFINE s == col.fHits
           n == Len(s)
           f == [k \in 1 .. n |-> k]
           hs == FlattenSeq([k \in 1 .. n |-> col.fHits[f[k]].fHits])
<1>1. s \in Seq(ChRec(H))
  BY Zenon DEF CollOK
<1> HIDE DEF s
<1>2. n \in Nat /\ DOMAIN s = 1 .. n
  <2> HIDE DEF ChRec
  <2> QED BY <1>1
<1>3. f \in [1 .. n -> DOMAIN col.fHits] /\ IsInjective(f) /\ \A k \in 1 .. n : f[k] = k
  BY <1>2, Zenon DEF s, IsInjective
<1> HIDE DEF n, f
<1>4. /\ Listed(H, col, hs)
      /\ \A x : x \in Range(hs) <=> \E k \in 1 .. n : x \in Range(col.fHits[f[k]].fHits)
  BY <1>2, <1>3, ChannelsListed, Zenon
<1>5. AllHits(col) = hs
  <2>1. [k \in DOMAIN col.fHits |-> col.fHits[k].fHits] = [k \in 1 .. n |-> col.fHits[f[k]].fHits]
    BY <1>2, <1>3, Zenon DEF s
  <2> QED BY <2>1, Zenon DEF AllHits
<1> HIDE DEF hs
<1>6. \A x : x \in Range(hs) <=> \E k \in DOMAIN col.fHits : x \in Range(col.fHits[k].fHits)
  BY <1>2, <1>3, <1>4, Zenon DEF s
<1>7. Range(hs) = Held(col)
  BY <1>6 DEF Held
<1> QED BY <1>4, <1>5, <1>7, Zenon
=============================================================================
