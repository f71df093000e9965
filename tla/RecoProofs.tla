----------------------------- MODULE RecoProofs -----------------------------
(***************************************************************************)
(* The properties of HitReco, in the chain of reconstruction tasks, for    *)
(* waves of any length, any thresholds and paddings, and any hits of other *)
(* channels.                                                               *)
(***************************************************************************)
EXTENDS HitProofs, RecoChain

-----------------------------------------------------------------------------
(* What the hit finders do with a wave of the model                        *)

(* The waves the model is checked with are such.                           *)
LEMMA WavesOK ==
  ASSUME NEW w \in Waves
  PROVE  /\ WaveOK(w) /\ w \in [0 .. Size(w) - 1 -> Int] /\ DOMAIN w = 0 .. Size(w) - 1
         /\ Size(w) \in 0 .. Wrap - 1 /\ Size(w) \in Nat
         /\ \A cut \in Cuts : cut \in 0 .. Size(w)
<1>1. Size(w) \in 0 .. Wrap - 1 /\ w \in [0 .. Size(w) - 1 -> Int] /\ Cuts \subseteq 0 .. Size(w)
  BY HitRecoAssumption, Zenon
<1>2. DOMAIN w = 0 .. Size(w) - 1
  BY <1>1, Zenon
<1>3. \A n \in 0 .. Wrap - 1 : n \in Nat
  BY RoiAssumption
<1> QED BY <1>1, <1>2, <1>3, Zenon DEF WaveOK

(* The parameters of a run, field by field.                                *)
LEMMA ParsOK ==
  ASSUME NEW p \in Pars
  PROVE  /\ p.t1 \in Int /\ p.low1 \in Int /\ p.t \in Int /\ p.low \in Int
         /\ p.rms \in Int /\ p.abs1 \in Int /\ p.rel1 \in Int /\ p.abs2 \in Int /\ p.rel2 \in Int
         /\ p.left \in Nat /\ p.right \in Nat /\ p.width \in Nat /\ p.pl \in Nat /\ p.pr \in Nat
<1>1. /\ \A f \in {"t1", "low1", "t", "low", "rms", "abs1", "rel1", "abs2", "rel2"} : p[f] \in Int
      /\ \A f \in {"left", "right", "width", "pl", "pr"} : p[f] \in Nat
  BY HitRecoAssumption, Zenon
<1> QED BY <1>1

(* A threshold is a natural number.                                        *)
LEMMA ThresholdOK ==
  ASSUME NEW a \in Int, NEW r \in Int, NEW s \in Int
  PROVE  Threshold(a, r, s) \in Nat
<1>1. Smaller(a, r * s) \in Int
  BY DEF Smaller
<1>2. Max({1, Smaller(a, r * s)}) \in Nat
  <2> DEFINE x == Smaller(a, r * s)
  <2>1. Max({1, x}) = IF 1 >= x THEN 1 ELSE x
    BY <1>1, MaxOfTwo
  <2> HIDE DEF x
  <2> QED BY <1>1, <2>1 DEF x
<1> QED BY <1>2 DEF Threshold

-----------------------------------------------------------------------------
(* Fragments *)

(* Fragments of a wave in turn: none overlaps a later one.                 *)
FragsOK(w, fr) ==
  /\ \E n \in Nat : DOMAIN fr = 1 .. n
  /\ \A k \in DOMAIN fr : FragOK(w, fr[k])
  /\ \A k, m \in DOMAIN fr : k < m /\ Size(fr[k].data) # 0 =>
       fr[k].start + Size(fr[k].data) <= fr[m].start

(* The samples from a to b are a fragment.                                 *)
LEMMA FragmentOK ==
  ASSUME NEW w, WaveOK(w), NEW a \in Nat, NEW b \in Nat, b <= Size(w)
  PROVE  LET f == Fragment(w, [first |-> a, second |-> b], 0)
         IN  /\ FragOK(w, f) /\ f.start = a
             /\ Size(f.data) = IF a < b THEN b - a ELSE 0
<1> DEFINE f == Fragment(w, [first |-> a, second |-> b], 0)
           n == IF a < b THEN b - a ELSE 0
           N == Size(w)
<1>1. N \in Nat /\ w \in [0 .. N - 1 -> Int] /\ n \in Nat
  BY RoiAssumption DEF WaveOK
<1>2. f.start = a /\ f.data = [j \in 0 .. b - a - 1 |-> w[a + j] - 0]
  BY DEF Fragment
<1> HIDE DEF f, N
<1>3. 0 .. b - a - 1 = 0 .. n - 1
  OBVIOUS
<1>4. \A j \in 0 .. n - 1 : a + j \in 0 .. N - 1
  BY <1>1 DEF N
<1>5. \A j \in 0 .. n - 1 : w[a + j] \in Int
  BY <1>1, <1>4, Zenon
<1> HIDE DEF n
<1>6. \A j \in 0 .. n - 1 : w[a + j] - 0 = w[a + j]
  BY <1>5
<1>7. f.data = [j \in 0 .. n - 1 |-> w[a + j]]
  BY <1>2, <1>3, <1>6
<1>8. DOMAIN f.data = 0 .. n - 1
  BY <1>7, Zenon
<1>9. Size(f.data) = n
  BY <1>1, <1>8, SizeOf
<1>10. n # 0 => a + n <= N
  BY <1>1 DEF n, N
<1>11. f.data \in [0 .. n - 1 -> Int] /\ \A j \in 0 .. n - 1 : f.data[j] = w[f.start + j]
  BY <1>2, <1>5, <1>7, Zenon
<1>12. FragOK(w, f)
  BY <1>1, <1>2, <1>9, <1>10, <1>11, Zenon DEF FragOK, N
<1> QED BY <1>2, <1>9, <1>12, Zenon DEF f, n

(* The fragments of padded regions d                                       *)
FragmentsOf(w, d) == [k \in DOMAIN d |-> Fragment(w, d[k], 0)]

(* The fragments of padded regions are in turn.                            *)
LEMMA RoiFragments ==
  ASSUME NEW w, WaveOK(w), NEW rs, InTurn(rs, Size(w)), NEW left \in Nat, NEW right \in Nat
  PROVE  LET d  == PadROI(rs, left, right, Size(w))
             fr == FragmentsOf(w, d)
         IN  /\ FragsOK(w, fr) /\ DOMAIN d = DOMAIN rs
             /\ \A k \in DOMAIN rs : /\ d[k].first \in Nat /\ d[k].second \in Nat
                                     /\ fr[k].start = d[k].first
                                     /\ Size(fr[k].data) = IF d[k].first < d[k].second
                                                             THEN d[k].second - d[k].first ELSE 0
<1> DEFINE N == Size(w)
           d == PadROI(rs, left, right, N)
           fr == FragmentsOf(w, d)
<1>1. N \in 0 .. Wrap - 1 /\ InTurn(rs, N)
  BY Zenon DEF WaveOK
<1> HIDE DEF N
<1>2. /\ d \in Seq(RoiRec) /\ Len(d) = Len(rs)
      /\ \A k \in DOMAIN rs : d[k].second <= N
      /\ \A k, m \in DOMAIN rs : k < m => d[k].second < d[m].first
  BY <1>1, PaddedRegions
<1> HIDE DEF d
<1>0. fr = [k \in DOMAIN d |-> Fragment(w, d[k], 0)]
  BY Zenon DEF FragmentsOf
<1> HIDE DEF fr
<1>3. DOMAIN d = 1 .. Len(rs) /\ DOMAIN rs = 1 .. Len(rs) /\ Len(rs) \in Nat
  BY <1>1, <1>2 DEF InTurn
<1>4. ASSUME NEW k \in DOMAIN rs
      PROVE  /\ d[k].first \in Nat /\ d[k].second \in Nat
             /\ FragOK(w, fr[k]) /\ fr[k].start = d[k].first
             /\ Size(fr[k].data) = IF d[k].first < d[k].second THEN d[k].second - d[k].first ELSE 0
  <2>1. d[k] \in RoiRec
    <3> HIDE DEF RoiRec
    <3> QED BY <1>2, <1>3
  <2>2. PICK a \in Nat, b \in Nat : d[k] = [first |-> a, second |-> b]
    BY <2>1 DEF RoiRec
  <2>3. d[k].first = a /\ d[k].second = b
    BY <2>2
  <2>4. b <= Size(w)
    BY <1>2, <2>3, Zenon DEF N
  <2>5. fr[k] = Fragment(w, [first |-> a, second |-> b], 0)
    BY <1>0, <1>3, <2>2, Zenon
  <2> DEFINE f == Fragment(w, [first |-> a, second |-> b], 0)
  <2>6. FragOK(w, f) /\ f.start = a /\ Size(f.data) = IF a < b THEN b - a ELSE 0
    BY <2>4, FragmentOK
  <2>7. f = fr[k]
    BY <2>5, Zenon
  <2> HIDE DEF f
  <2> QED BY <2>3, <2>6, <2>7, Zenon
<1>5. DOMAIN fr = 1 .. Len(rs)
  BY <1>0, <1>3, Zenon
<1>6. ASSUME NEW k \in DOMAIN fr, NEW m \in DOMAIN fr, k < m, Size(fr[k].data) # 0
      PROVE  fr[k].start + Size(fr[k].data) <= fr[m].start
  <2> DEFINE a == d[k].first
             b == d[k].second
             e == d[m].first
             s == Size(fr[k].data)
  <2>1. k \in DOMAIN rs /\ m \in DOMAIN rs
    BY <1>3, <1>5, <1>6, Zenon
  <2>2. a \in Nat /\ b \in Nat /\ s = IF a < b THEN b - a ELSE 0
    BY <1>4, <2>1, Zenon
  <2>3. b < e /\ e \in Nat
    BY <1>2, <1>4, <1>6, <2>1, Zenon
  <2> HIDE DEF a, b, e, s
  <2>4. s # 0 => a + s <= e
    BY <2>2, <2>3
  <2>5. fr[k].start = a /\ fr[m].start = e
    BY <1>4, <2>1, Zenon DEF a, e
  <2> QED BY <1>6, <2>4, <2>5, Zenon DEF s
<1>7. FragsOK(w, fr)
  BY <1>3, <1>4, <1>5, <1>6, Zenon DEF FragsOK
<1> QED BY <1>3, <1>4, <1>7, Zenon DEF fr, d, N
(* A fragment is the range of samples from its start                       *)
LEMMA SamplesOf ==
  ASSUME NEW w, NEW f, FragOK(w, f)
  PROVE  /\ f.start \in Nat /\ Size(f.data) \in Nat
         /\ Samples(f) = f.start .. f.start + Size(f.data) - 1
<1> DEFINE n == Size(f.data)
           s == f.start
<1>1. s \in Nat /\ n \in Nat /\ DOMAIN f.data = 0 .. n - 1
  BY Zenon DEF FragOK
<1>2. Samples(f) = {s + j : j \in 0 .. n - 1}
  BY <1>1, Zenon DEF Samples
<1> HIDE DEF n, s
<1>3. ASSUME NEW x \in s .. s + n - 1 PROVE x \in Samples(f)
  <2>1. x - s \in 0 .. n - 1 /\ s + (x - s) = x
    BY <1>1
  <2> QED BY <1>2, <2>1
<1>4. ASSUME NEW x \in Samples(f) PROVE x \in s .. s + n - 1
  BY <1>1, <1>2
<1>5. Samples(f) = s .. s + n - 1
  BY <1>3, <1>4
<1> QED BY <1>1, <1>5, Zenon DEF n, s

(* Fragments in turn share no sample.                                      *)
LEMMA ApartFragments ==
  ASSUME NEW w, WaveOK(w), NEW fr, FragsOK(w, fr), NEW k \in DOMAIN fr, NEW m \in DOMAIN fr, k < m
  PROVE  /\ Samples(fr[k]) \cap Samples(fr[m]) = {}
         /\ Samples(fr[k]) \cup Samples(fr[m]) \subseteq 0 .. Size(w) - 1
<1> DEFINE a == fr[k].start
           b == fr[m].start
           s == Size(fr[k].data)
           t == Size(fr[m].data)
           N == Size(w)
<1>1. FragOK(w, fr[k]) /\ FragOK(w, fr[m])
  BY Zenon DEF FragsOK
<1>2. /\ a \in Nat /\ s \in Nat /\ Samples(fr[k]) = a .. a + s - 1 /\ (s # 0 => a + s <= N)
      /\ b \in Nat /\ t \in Nat /\ Samples(fr[m]) = b .. b + t - 1 /\ (t # 0 => b + t <= N)
  BY <1>1, SamplesOf, Zenon DEF FragOK
<1>3. s # 0 => a + s <= b
  BY Zenon DEF FragsOK
<1>4. N \in Nat
  BY RoiAssumption DEF WaveOK
<1> HIDE DEF a, b, s, t, N
<1>5. (a .. a + s - 1) \cap (b .. b + t - 1) = {}
  BY <1>2, <1>3
<1>6. (a .. a + s - 1) \cup (b .. b + t - 1) \subseteq 0 .. N - 1
  BY <1>2, <1>4
<1> QED BY <1>2, <1>5, <1>6, Zenon DEF N

(* So are the two parts of a wave cut in two.                              *)
LEMMA CutFragments ==
  ASSUME NEW w, WaveOK(w), NEW cut \in 0 .. Size(w)
  PROVE  FragsOK(w, << Fragment(w, [first |-> 0, second |-> cut], 0),
                       Fragment(w, [first |-> cut, second |-> Size(w)], 0) >>)
<1> DEFINE N == Size(w)
           f == Fragment(w, [first |-> 0, second |-> cut], 0)
           g == Fragment(w, [first |-> cut, second |-> N], 0)
           fr == <<f, g>>
<1>1. N \in Nat
  BY RoiAssumption DEF WaveOK
<1>2. cut \in Nat /\ cut <= N
  BY <1>1
<1>3. FragOK(w, f) /\ f.start = 0 /\ Size(f.data) = IF 0 < cut THEN cut - 0 ELSE 0
  BY <1>2, FragmentOK
<1>4. FragOK(w, g) /\ g.start = cut
  BY <1>1, <1>2, FragmentOK
<1> HIDE DEF f, g
<1>5. DOMAIN fr = 1 .. 2 /\ fr[1] = f /\ fr[2] = g
  OBVIOUS
<1> HIDE DEF fr
<1>6. \A k \in DOMAIN fr : FragOK(w, fr[k])
  BY <1>3, <1>4, <1>5
<1>7. ASSUME NEW k \in DOMAIN fr, NEW m \in DOMAIN fr, k < m
      PROVE  fr[k].start + Size(fr[k].data) <= fr[m].start
  <2>1. k = 1 /\ m = 2
    BY <1>5, <1>7
  <2>2. Size(f.data) = cut
    BY <1>2, <1>3
  <2>3. 0 + cut <= cut
    BY <1>2
  <2> QED BY <1>3, <1>4, <1>5, <2>1, <2>2, <2>3, Zenon
<1>8. \E n \in Nat : DOMAIN fr = 1 .. n
  BY <1>5
<1>9. FragsOK(w, fr)
  BY <1>6, <1>7, <1>8, Zenon DEF FragsOK
<1> QED BY <1>9, Zenon DEF fr, f, g, N
-----------------------------------------------------------------------------
(* Regions of the samples of a channel *)

(* What the scan of a wave finds.                                          *)
LEMMA ScanRegions ==
  ASSUME NEW w, WaveOK(w), NEW th \in Int, NEW low \in Int
  PROVE  LET st == Scan(w, th, low)
             rs == st.rois
         IN  /\ InTurn(rs, Size(w))
             /\ \A k \in DOMAIN rs : \A i \in st.ped : ~(rs[k].first < i /\ i <= rs[k].second)
             /\ low <= th => \A i \in 0 .. Size(w) - 1 : w[i] > th =>
                  \E r \in DOMAIN rs : rs[r].first <= i /\ i < rs[r].second
<1> DEFINE st == Scan(w, th, low)
           rs == st.rois
           n == Size(w)
           c == [data |-> w, thresh |-> th, lowbound |-> low]
<1>1. n \in Nat /\ w \in [0 .. n - 1 -> Int]
  BY RoiAssumption DEF WaveOK
<1>2. c.data = w /\ c.thresh = th /\ c.lowbound = low
  OBVIOUS
<1> HIDE DEF n
<1>3. ScanInv(c, n, st)
  BY <1>1, ScanOK
<1> HIDE DEF c, st
<1>4. /\ st \in [next : Nat, ped : SUBSET Nat, rois : Seq(RoiRec)]
      /\ n <= st.next
      /\ \A r \in DOMAIN rs : /\ RegionOK(c, n, st.next, rs[r])
                              /\ \A i \in st.ped : ~(rs[r].first < i /\ i <= rs[r].second)
      /\ \A q, r \in DOMAIN rs : q < r => rs[q].second <= rs[r].first
      /\ low <= th => \A i \in 0 .. n - 1 : i < st.next /\ w[i] > th =>
                        \E r \in DOMAIN rs : rs[r].first <= i /\ i < rs[r].second
  BY <1>2, <1>3, Zenon DEF ScanInv, n, rs
<1>5. rs \in Seq(RoiRec) /\ st.next \in Nat
  BY <1>4
<1>6. \A k \in DOMAIN rs : rs[k].first < rs[k].second /\ rs[k].second <= n
  BY <1>4, Zenon DEF RegionOK
<1> HIDE DEF rs
<1>7. InTurn(rs, n)
  BY <1>4, <1>5, <1>6, Zenon DEF InTurn
<1>8. \A i \in 0 .. n - 1 : i < st.next
  <2> DEFINE x == st.next
  <2>1. x \in Nat /\ n <= x
    BY <1>4, <1>5
  <2> HIDE DEF x
  <2>2. \A i \in 0 .. n - 1 : i < x
    BY <1>1, <2>1
  <2> QED BY <2>2 DEF x
<1> QED BY <1>4, <1>7, <1>8, Zenon DEF rs, n, st

(* The lowest sample is a sample.                                          *)
LEMMA LowestSample ==
  ASSUME NEW n \in Nat, n # 0, NEW w \in [0 .. n - 1 -> Int]
  PROVE  Lowest(w) \in Int
<1> DEFINE Least(k) == \E j \in 0 .. k - 1 : \A i \in 0 .. k - 1 : w[j] <= w[i]
           Bad == {k \in Nat : k \in 1 .. n /\ ~Least(k)}
<1>1. \A i \in 0 .. n - 1 : w[i] \in Int
  OBVIOUS
<1>2. Bad = {}
  <2>1. SUFFICES ASSUME Bad # {} PROVE FALSE
    OBVIOUS
  <2> HIDE DEF Least
  <2>2. PICK k \in Bad : \A m \in Bad : k <= m
    BY <2>1, LeastNumber, Zenon
  <2>3. k \in 1 .. n /\ ~Least(k)
    BY <2>2
  <2>4. CASE k = 1
    <3>1. 0 .. k - 1 = {0} /\ 0 \in 0 .. n - 1
      BY <2>4
    <3>2. w[0] <= w[0]
      BY <1>1, <3>1
    <3> QED BY <2>3, <3>1, <3>2, Zenon DEF Least
  <2>5. CASE k # 1
    <3>1. k - 1 \in Nat /\ k - 1 \in 1 .. n /\ ~(k <= k - 1) /\ k - 1 \in 0 .. n - 1
      BY <2>3, <2>5
    <3>2. Least(k - 1)
      BY <2>2, <3>1, Zenon
    <3>3. PICK j \in 0 .. (k - 1) - 1 : \A i \in 0 .. (k - 1) - 1 : w[j] <= w[i]
      BY <3>2, Zenon DEF Least
    <3>4. j \in 0 .. n - 1 /\ j \in 0 .. k - 1 /\ k - 1 \in 0 .. k - 1
      BY <2>3, <3>1, <3>3
    <3> DEFINE a == w[j]
               b == w[k - 1]
    <3>5. a \in Int /\ b \in Int
      BY <1>1, <3>1, <3>4
    <3>6. \A i \in 0 .. k - 1 : i = k - 1 \/ (i \in 0 .. (k - 1) - 1 /\ i \in 0 .. n - 1)
      BY <2>3, <3>1
    <3>7. CASE a <= b
      <4>1. \A i \in 0 .. k - 1 : w[j] <= w[i]
        BY <3>3, <3>6, <3>7, Zenon
      <4> QED BY <2>3, <3>4, <4>1, Zenon DEF Least
    <3>8. CASE ~(a <= b)
      <4> HIDE DEF a, b
      <4>1. ASSUME NEW i \in 0 .. k - 1 PROVE b <= w[i]
        <5>1. CASE i = k - 1
          BY <3>5, <5>1 DEF b
        <5>2. CASE i # k - 1
          <6>1. w[i] \in Int /\ a <= w[i]
            BY <1>1, <3>3, <3>6, <5>2, Zenon DEF a
          <6> QED BY <3>5, <3>8, <6>1
        <5> QED BY <5>1, <5>2
      <4> QED BY <2>3, <3>4, <4>1, Zenon DEF Least, b
    <3> QED BY <3>7, <3>8
  <2> QED BY <2>4, <2>5
<1>3. Least(n)
  <2> HIDE DEF Least
  <2> QED BY <1>2
<1>4. PICK j \in 0 .. n - 1 : \A i \in 0 .. n - 1 : w[j] <= w[i]
  BY <1>3
<1>5. Range(w) = {w[i] : i \in 0 .. n - 1}
  BY DEF Range
<1>6. w[j] \in Range(w) /\ \A v \in Range(w) : w[j] <= v
  BY <1>4, <1>5
<1>7. Lowest(w) \in Range(w)
  BY <1>6, Zenon DEF Lowest
<1> QED BY <1>1, <1>5, <1>7

(* The samples the pedestal is taken from are outside the regions.         *)
LEMMA QuietPedestal ==
  ASSUME NEW w, WaveOK(w), NEW th \in Int, NEW low \in Int, Lowest(w) <= low,
         NEW k \in DOMAIN Scan(w, th, low).rois
  PROVE  LET r == Scan(w, th, low).rois[k]
         IN  PedSamples(w, th, low) \cap (r.first + 1 .. r.second) = {}
<1> DEFINE st == Scan(w, th, low)
           rs == st.rois
           n == Size(w)
           r == rs[k]
<1>1. n \in Nat /\ w \in [0 .. n - 1 -> Int]
  BY RoiAssumption DEF WaveOK
<1>2. InTurn(rs, n) /\ k \in DOMAIN rs /\ \A i \in st.ped : ~(r.first < i /\ i <= r.second)
  <2>1. /\ InTurn(rs, n) /\ k \in DOMAIN rs
        /\ \A m \in DOMAIN rs : \A i \in st.ped : ~(rs[m].first < i /\ i <= rs[m].second)
    BY ScanRegions, Zenon
  <2> QED BY <2>1, Zenon
<1> HIDE DEF st
<1>3. r \in RoiRec /\ r.first < r.second /\ r.second <= n
  <2> HIDE DEF RoiRec
  <2> QED BY <1>2 DEF InTurn
<1>4. r.first \in Nat /\ r.second \in Nat
  BY <1>3 DEF RoiRec
<1>5. n # 0
  <2> HIDE DEF r, n
  <2> QED BY <1>1, <1>3, <1>4
<1> HIDE DEF n
<1>6. Lowest(w) \in Int
  BY <1>1, <1>5, LowestSample
<1>7. ~(Lowest(w) > low)
  <2> DEFINE x == Lowest(w)
  <2> HIDE DEF x
  <2>1. x \in Int /\ x <= low
    BY <1>6 DEF x
  <2>2. ~(x > low)
    BY <2>1
  <2> QED BY <2>2 DEF x
<1>8. PedSamples(w, th, low) = st.ped
  BY <1>7, Zenon DEF PedSamples, st
<1>9. ASSUME NEW i \in st.ped, i \in r.first + 1 .. r.second PROVE FALSE
  <2> DEFINE a == r.first
             b == r.second
  <2> HIDE DEF r
  <2>1. a \in Nat /\ b \in Nat /\ i \in a + 1 .. b
    BY <1>4, <1>9
  <2> HIDE DEF a, b
  <2>2. a < i /\ i <= b
    BY <2>1
  <2> QED BY <1>2, <2>2, Zenon DEF a, b
<1> HIDE DEF r
<1>10. PedSamples(w, th, low) \cap (r.first + 1 .. r.second) = {}
  BY <1>8, <1>9, Zenon
<1> QED BY <1>10, Zenon DEF r, rs, st

(* A sample above the threshold is in a fragment, except right before a    *)
(* region that was cut off by the one before, and where a region near the  *)
(* start wraps below zero.                                                 *)
LEMMA SignalInFragments ==
  ASSUME NEW w, WaveOK(w), NEW th \in Int, NEW low \in Int, low <= th,
         NEW left \in Nat, NEW right \in Nat, NEW i \in 0 .. Size(w) - 1, w[i] > th
  PROVE  LET rs == Scan(w, th, low).rois
             d  == PadROI(rs, left, right, Size(w))
             fr == FragmentsOf(w, d)
         IN  \/ \E k \in DOMAIN fr : i \in Samples(fr[k])
             \/ \E k \in DOMAIN rs \ {1} :
                  \/ i = fr[k].start - 1
                  \/ /\ rs[k].first < left
                     /\ i \in rs[k].first .. Smaller(rs[k].second + right, Size(w))
<1> DEFINE n == Size(w)
           rs == Scan(w, th, low).rois
           d == PadROI(rs, left, right, Size(w))
           fr == FragmentsOf(w, d)
<1>1. n \in 0 .. Wrap - 1 /\ n \in Nat /\ i \in Nat
  BY RoiAssumption DEF WaveOK
<1>2. InTurn(rs, n) /\ \E r \in DOMAIN rs : rs[r].first <= i /\ i < rs[r].second
  BY ScanRegions, Zenon
<1> HIDE DEF rs
<1>3. PICK r \in DOMAIN rs : rs[r].first <= i /\ i < rs[r].second
  BY <1>2
<1>4. /\ FragsOK(w, fr) /\ DOMAIN d = DOMAIN rs
      /\ \A k \in DOMAIN rs : /\ d[k].first \in Nat /\ d[k].second \in Nat
                              /\ fr[k].start = d[k].first
                              /\ Size(fr[k].data) = IF d[k].first < d[k].second
                                                      THEN d[k].second - d[k].first ELSE 0
  <2>1. InTurn(rs, Size(w))
    BY <1>2, Zenon
  <2> HIDE DEF d, fr
  <2>2. FragsOK(w, FragmentsOf(w, PadROI(rs, left, right, Size(w))))
    BY <2>1, RoiFragments
  <2>3. DOMAIN PadROI(rs, left, right, Size(w)) = DOMAIN rs
    BY <2>1, RoiFragments
  <2>4. LET d2 == PadROI(rs, left, right, Size(w))
            f2 == FragmentsOf(w, d2)
        IN  \A k \in DOMAIN rs : /\ d2[k].first \in Nat /\ d2[k].second \in Nat
                              /\ f2[k].start = d2[k].first
                              /\ Size(f2[k].data) = IF d2[k].first < d2[k].second
                                                      THEN d2[k].second - d2[k].first ELSE 0
    BY <2>1, RoiFragments
  <2> QED BY <2>2, <2>3, <2>4, Zenon DEF d, fr, n
<1>5. \A k \in DOMAIN rs : d[k].second = Smaller(rs[k].second + right, n)
  BY <1>1, <1>2, PaddedRegions
<1>6. \/ \E k \in DOMAIN rs : d[k].first <= i /\ i < d[k].second
      \/ \E k \in DOMAIN rs \ {1} :
           \/ i = d[k].first - 1
           \/ rs[k].first < left /\ rs[k].first <= i /\ i <= d[k].second
  BY <1>1, <1>2, <1>3, PaddedKeepSignal, Zenon
<1>7. DOMAIN fr = DOMAIN rs
  BY <1>4, Zenon DEF FragmentsOf
<1> HIDE DEF d, fr, n
<1>8. ASSUME NEW k \in DOMAIN rs, d[k].first <= i, i < d[k].second
      PROVE  i \in Samples(fr[k])
  <2> DEFINE a == d[k].first
             b == d[k].second
             s == fr[k].start
             m == Size(fr[k].data)
  <2>1. Samples(fr[k]) = s .. s + m - 1
    BY <1>4, <1>7, SamplesOf, Zenon DEF FragsOK
  <2>2. a \in Nat /\ b \in Nat /\ s = a /\ m = (IF a < b THEN b - a ELSE 0) /\ a <= i /\ i < b
    BY <1>4, <1>8, Zenon
  <2> HIDE DEF a, b, s, m
  <2>3. i \in s .. s + m - 1
    BY <1>1, <2>2
  <2> QED BY <2>1, <2>3, Zenon
<1>9. ASSUME NEW k \in DOMAIN rs \ {1}, i = d[k].first - 1 PROVE i = fr[k].start - 1
  BY <1>4, <1>9, Zenon
<1>10. ASSUME NEW k \in DOMAIN rs \ {1}, rs[k].first <= i, i <= d[k].second
       PROVE  i \in rs[k].first .. Smaller(rs[k].second + right, n)
  <2> DEFINE a == rs[k].first
             b == Smaller(rs[k].second + right, n)
  <2>1. b = d[k].second /\ d[k].second \in Nat
    BY <1>4, <1>5, Zenon
  <2>2. rs[k] \in RoiRec
    <3> HIDE DEF RoiRec
    <3> QED BY <1>2 DEF InTurn
  <2>3. a \in Nat
    BY <2>2 DEF RoiRec
  <2>4. a <= i /\ i <= b
    BY <1>10, <2>1, Zenon
  <2> HIDE DEF a, b
  <2>5. i \in a .. b
    BY <1>1, <2>1, <2>3, <2>4
  <2> QED BY <2>5, Zenon DEF a, b
<1>11. \/ \E k \in DOMAIN fr : i \in Samples(fr[k])
       \/ \E k \in DOMAIN rs \ {1} :
            \/ i = fr[k].start - 1
            \/ rs[k].first < left /\ i \in rs[k].first .. Smaller(rs[k].second + right, n)
  <2>1. CASE \E k \in DOMAIN rs : d[k].first <= i /\ i < d[k].second
    BY <1>7, <1>8, <2>1, Zenon
  <2>2. CASE \E k \in DOMAIN rs \ {1} : i = d[k].first - 1
    BY <1>9, <2>2, Zenon
  <2>3. CASE \E k \in DOMAIN rs \ {1} : rs[k].first < left /\ rs[k].first <= i /\ i <= d[k].second
    BY <1>10, <2>3, Zenon
  <2> QED BY <1>6, <2>1, <2>2, <2>3, Zenon
<1> QED BY <1>11, Zenon DEF rs, d, fr, n
-----------------------------------------------------------------------------
(* Hits of all fragments *)

FragStart(fr, k) == fr[k].start
FragSize(fr, k)  == Size(fr[k].data)

(* A hit comes from fragment k: it is in a pulse there, or one of the      *)
(* first of a pulse that reaches the end.                                  *)
HitOfFrag(w, th1, fr, k, h) ==
  /\ HitInside(w, FragStart(fr, k), FragSize(fr, k), h)
  /\ \/ \E p, q \in Nat : PulseOf(w, th1, FragStart(fr, k), FragSize(fr, k), p, q) /\ Within(h, p, q)
     \/ \A i \in h.start .. FragStart(fr, k) + FragSize(fr, k) - 1 : w[i] > th1

(* What the hits of all fragments are                                      *)
FoundInAll(w, th1, width, pl, fr, F) ==
  /\ F \in Seq(KeptHit)
  /\ \A m \in DOMAIN F : \E k \in DOMAIN fr : HitOfFrag(w, th1, fr, k, F[m])
  /\ \A m \in DOMAIN F \ {1} : F[m - 1].end < F[m].start
  /\ \A m \in DOMAIN F \ {1} : \A k \in DOMAIN fr :
       HitInside(w, FragStart(fr, k), FragSize(fr, k), F[m]) /\ F[m].start - FragStart(fr, k) >= pl
         => F[m - 1].win.to <= F[m].win.from
  /\ \A k \in DOMAIN fr : \A p, q \in Nat :
       PulseOf(w, th1, FragStart(fr, k), FragSize(fr, k), p, q) /\ q - p + 1 >= width
         => CoveredBy(F, p, q)

(* The fields of a hit that is kept.                                       *)
LEMMA KeptFields ==
  ASSUME NEW h \in KeptHit
  PROVE  /\ h.start \in Nat /\ h.max \in Nat /\ h.end \in Nat /\ h.amp \in Int
         /\ h.win.from \in Nat /\ h.win.to \in Nat
BY DEF KeptHit

(* Hits of an earlier fragment end before those of a later one start, and  *)
(* so do their windows.                                                    *)
LEMMA EarlierFragment ==
  ASSUME NEW w, NEW fr, FragsOK(w, fr), NEW j \in DOMAIN fr, NEW k \in DOMAIN fr, j < k,
         NEW g \in KeptHit, NEW h \in KeptHit,
         HitInside(w, FragStart(fr, j), FragSize(fr, j), g),
         HitInside(w, FragStart(fr, k), FragSize(fr, k), h)
  PROVE  g.end < h.start /\ g.win.to <= h.win.from
<1> DEFINE a == FragStart(fr, j)
           s == FragSize(fr, j)
           b == FragStart(fr, k)
           t == FragSize(fr, k)
           e == g.end
           st == h.start
           to == g.win.to
           from == h.win.from
<1>1. a \in Nat /\ s \in Nat /\ b \in Nat /\ t \in Nat
  BY SamplesOf, Zenon DEF FragsOK, FragStart, FragSize
<1>2. e \in Nat /\ to \in Nat /\ st \in Nat /\ from \in Nat /\ g.start \in Nat /\ g.max \in Nat
  BY KeptFields, Zenon
<1>3. /\ a <= g.start /\ g.start <= g.max /\ g.max <= e /\ e < a + s /\ to < a + s
      /\ b <= st /\ b <= from
  BY Zenon DEF HitInside
<1>4. s # 0 => a + s <= b
  BY Zenon DEF FragsOK, FragStart, FragSize
<1> DEFINE x == g.start
           y == g.max
<1> HIDE DEF a, s, b, t, e, st, to, from, x, y
<1>5. x \in Nat /\ y \in Nat /\ a <= x /\ x <= y /\ y <= e
  BY <1>2, <1>3, Zenon DEF x, y
<1>6. s # 0
  BY <1>1, <1>2, <1>3, <1>5
<1>7. e < st /\ to <= from
  BY <1>1, <1>2, <1>3, <1>4, <1>6
<1> QED BY <1>7, Zenon DEF e, st, to, from

(* A sample is in one fragment.                                            *)
LEMMA OneFragment ==
  ASSUME NEW w, NEW fr, FragsOK(w, fr), NEW j \in DOMAIN fr, NEW k \in DOMAIN fr, NEW h \in KeptHit,
         HitInside(w, FragStart(fr, j), FragSize(fr, j), h),
         HitInside(w, FragStart(fr, k), FragSize(fr, k), h)
  PROVE  j = k
<1>1. j \in Nat /\ k \in Nat
  BY DEF FragsOK
<1>2. h.start \in Nat /\ h.max \in Nat /\ h.end \in Nat /\ h.start <= h.max /\ h.max <= h.end
  BY KeptFields, Zenon DEF HitInside
<1>3. ~(h.end < h.start)
  BY <1>2
<1>4. ~(j < k) /\ ~(k < j)
  BY <1>3, EarlierFragment, Zenon
<1> QED BY <1>1, <1>4

(* The hits of all fragments of a wave.                                    *)
LEMMA HitsOfFragments ==
  ASSUME NEW w, WaveOK(w), NEW fr, FragsOK(w, fr), NEW th1 \in Int, NEW th2 \in Nat,
         NEW width \in Nat, NEW pl \in Nat, NEW pr \in Nat
  PROVE  FoundInAll(w, th1, width, pl, fr,
                    FlattenSeq([k \in DOMAIN fr |-> FindHits(fr[k], th1, th2, width, pl, pr)]))
<1> DEFINE S(k) == FindHits(fr[k], th1, th2, width, pl, pr)
           seqs == [k \in DOMAIN fr |-> S(k)]
           F == FlattenSeq(seqs)
           Inside(k, h) == HitInside(w, FragStart(fr, k), FragSize(fr, k), h)
           Pulse(k, p, q) == PulseOf(w, th1, FragStart(fr, k), FragSize(fr, k), p, q)
<1>1. ASSUME NEW k \in DOMAIN fr
      PROVE  FoundIn(w, th1, width, pl, FragStart(fr, k), FragSize(fr, k), S(k))
  <2>1. FragOK(w, fr[k])
    BY Zenon DEF FragsOK
  <2> QED BY <2>1, FragHits, Zenon DEF FragStart, FragSize
<1> HIDE DEF S
<1>2. \A k \in DOMAIN fr :
        /\ S(k) \in Seq(KeptHit)
        /\ \A m \in DOMAIN S(k) : Inside(k, S(k)[m])
        /\ \A m \in DOMAIN S(k) \ {1} : S(k)[m - 1].end < S(k)[m].start
        /\ \A m \in DOMAIN S(k) \ {1} :
             S(k)[m].start - FragStart(fr, k) >= pl => S(k)[m - 1].win.to <= S(k)[m].win.from
        /\ \A p, q \in Nat : Pulse(k, p, q) /\ q - p + 1 >= width => CoveredBy(S(k), p, q)
        /\ \A m \in DOMAIN S(k) :
             \/ \E p, q \in Nat : Pulse(k, p, q) /\ Within(S(k)[m], p, q)
             \/ \A i \in S(k)[m].start .. FragStart(fr, k) + FragSize(fr, k) - 1 : w[i] > th1
  BY <1>1, Zenon DEF FoundIn
<1>3. seqs \in Seq(Seq(KeptHit)) /\ DOMAIN seqs = DOMAIN fr /\ DOMAIN fr = 1 .. Len(seqs)
  <2>1. PICK n \in Nat : DOMAIN fr = 1 .. n
    BY Zenon DEF FragsOK
  <2> HIDE DEF KeptHit, Inside, Pulse
  <2>2. seqs \in [1 .. n -> Seq(KeptHit)]
    BY <1>2, <2>1, Zenon
  <2>3. seqs \in Seq(Seq(KeptHit)) /\ DOMAIN seqs = 1 .. n
    BY <2>1, <2>2
  <2> QED BY <2>1, <2>3
<1>4. \A k \in DOMAIN fr : seqs[k] = S(k)
  BY Zenon
<1> HIDE DEF seqs, Inside, Pulse
<1>5. Flat(KeptHit, seqs, Len(seqs), F)
  BY <1>3, FlattenOK, Zenon
<1>6. /\ F \in Seq(KeptHit)
      /\ \A m \in DOMAIN F : \E k \in DOMAIN fr : \E i \in DOMAIN seqs[k] : ComesFrom(seqs, F, m, k, i)
      /\ \A k \in DOMAIN fr : \A i \in DOMAIN seqs[k] : \E m \in DOMAIN F : F[m] = seqs[k][i]
  BY <1>3, <1>5, Zenon DEF Flat
<1> HIDE DEF F
<1>7. ASSUME NEW k \in DOMAIN fr, NEW i \in DOMAIN S(k)
      PROVE  S(k)[i] \in KeptHit /\ Inside(k, S(k)[i]) /\ HitOfFrag(w, th1, fr, k, S(k)[i])
  <2>1. S(k)[i] \in KeptHit
    <3> DEFINE s == S(k)
    <3>1. s \in Seq(KeptHit) /\ i \in DOMAIN s
      BY <1>2, Zenon
    <3> HIDE DEF KeptHit, s
    <3>2. s[i] \in KeptHit
      BY <3>1
    <3> QED BY <3>2 DEF s
  <2>2. Inside(k, S(k)[i])
    BY <1>2, Zenon
  <2>3. HitOfFrag(w, th1, fr, k, S(k)[i])
    BY <1>2, <2>2, Zenon DEF HitOfFrag, Inside, Pulse
  <2> QED BY <2>1, <2>2, <2>3, Zenon
<1>8. ASSUME NEW m \in DOMAIN F PROVE \E k \in DOMAIN fr : HitOfFrag(w, th1, fr, k, F[m])
  <2>1. PICK k \in DOMAIN fr : \E i \in DOMAIN S(k) : ComesFrom(seqs, F, m, k, i)
    BY <1>4, <1>6, Zenon
  <2>2. PICK i \in DOMAIN S(k) : ComesFrom(seqs, F, m, k, i)
    BY <2>1, Zenon
  <2>3. F[m] = S(k)[i]
    BY <1>4, <2>2, Zenon DEF ComesFrom
  <2> QED BY <1>7, <2>3, Zenon
<1>9. ASSUME NEW m \in DOMAIN F \ {1}
      PROVE  /\ F[m - 1].end < F[m].start
             /\ \A k \in DOMAIN fr : Inside(k, F[m]) /\ F[m].start - FragStart(fr, k) >= pl
                  => F[m - 1].win.to <= F[m].win.from
  <2>1. PICK k \in DOMAIN fr : \E i \in DOMAIN S(k) : ComesFrom(seqs, F, m, k, i)
    BY <1>4, <1>6, Zenon
  <2>2. PICK i \in DOMAIN S(k) : ComesFrom(seqs, F, m, k, i)
    BY <2>1, Zenon
  <2>3. F[m] = S(k)[i]
    BY <1>4, <2>2, Zenon DEF ComesFrom
  <2>4. /\ m # 1
        /\ \/ i # 1 /\ F[m - 1] = S(k)[i - 1]
           \/ \E j \in DOMAIN fr : j < k /\ \E n \in DOMAIN S(j) : F[m - 1] = S(j)[n]
    BY <1>3, <1>4, <2>2, Zenon DEF ComesFrom
  <2>5. ASSUME i # 1, F[m - 1] = S(k)[i - 1]
        PROVE  /\ F[m - 1].end < F[m].start
               /\ \A k2 \in DOMAIN fr : Inside(k2, F[m]) /\ F[m].start - FragStart(fr, k2) >= pl
                    => F[m - 1].win.to <= F[m].win.from
    <3>1. \A k2 \in DOMAIN fr : Inside(k2, F[m]) => k2 = k
      BY <1>7, <2>3, OneFragment, Zenon DEF Inside
    <3>2. /\ F[m - 1].end < F[m].start
          /\ F[m].start - FragStart(fr, k) >= pl => F[m - 1].win.to <= F[m].win.from
      BY <1>2, <2>3, <2>5, Zenon
    <3> QED BY <3>1, <3>2, Zenon
  <2>6. ASSUME NEW j \in DOMAIN fr, j < k, NEW n \in DOMAIN S(j), F[m - 1] = S(j)[n]
        PROVE  /\ F[m - 1].end < F[m].start
               /\ \A k2 \in DOMAIN fr : Inside(k2, F[m]) /\ F[m].start - FragStart(fr, k2) >= pl
                    => F[m - 1].win.to <= F[m].win.from
    <3>1. F[m - 1].end < F[m].start /\ F[m - 1].win.to <= F[m].win.from
      BY <1>7, <2>3, <2>6, EarlierFragment, Zenon DEF Inside
    <3> QED BY <3>1, Zenon
  <2> QED BY <2>4, <2>5, <2>6, Zenon
<1>10. ASSUME NEW k \in DOMAIN fr, NEW p \in Nat, NEW q \in Nat, Pulse(k, p, q), q - p + 1 >= width
       PROVE  CoveredBy(F, p, q)
  <2>1. CoveredBy(S(k), p, q)
    BY <1>2, <1>10, Zenon
  <2>2. \A i \in DOMAIN S(k) : \E m \in DOMAIN F : F[m] = S(k)[i]
    <3>1. \A i \in DOMAIN seqs[k] : \E m \in DOMAIN F : F[m] = seqs[k][i]
      BY <1>6
    <3>2. seqs[k] = S(k)
      BY <1>4
    <3> HIDE DEF S
    <3> QED BY <3>1, <3>2, Zenon
  <2>3. ASSUME NEW j \in p .. q
        PROVE  \E m \in DOMAIN F : Within(F[m], p, q) /\ F[m].start <= j /\ j <= F[m].end
    <3>1. PICK i \in DOMAIN S(k) : Within(S(k)[i], p, q) /\ S(k)[i].start <= j /\ j <= S(k)[i].end
      BY <2>1, Zenon DEF CoveredBy
    <3>2. PICK m \in DOMAIN F : F[m] = S(k)[i]
      BY <2>2, Zenon
    <3> QED BY <3>1, <3>2, Zenon
  <2> QED BY <2>3, Zenon DEF CoveredBy
<1>11. FoundInAll(w, th1, width, pl, fr, F)
  BY <1>6, <1>8, <1>9, <1>10, Zenon DEF FoundInAll, Inside, Pulse
<1> QED BY <1>11, Zenon DEF F, seqs, S

-----------------------------------------------------------------------------
(* The collection's order of hits, and the closest one *)

(* Hits of one channel share no sample.                                    *)
Disjoint(H) ==
  /\ \A h \in H : HitOK(h) /\ h.end \in Int /\ h.start <= h.end
  /\ \A g, h \in H : SameChannel(g, h) /\ g # h => g.end < h.start \/ h.end < g.start

(* Hits of a channel end before the later ones start.                      *)
LEMMA ChannelHits ==
  ASSUME NEW H, Disjoint(H), NEW c \in ChRec(H), NEW ch, ChannelOK(ch, c)
  PROVE  LET hs == c.fHits
         IN  /\ hs \in Seq(H)
             /\ \A m \in DOMAIN hs : /\ hs[m] \in H /\ hs[m].start \in Int /\ hs[m].end \in Int
                                     /\ hs[m].start <= hs[m].end
             /\ \A m, n \in DOMAIN hs : m < n => hs[m].end < hs[n].start
<1> DEFINE hs == c.fHits
<1>1. hs \in Seq(H)
  BY DEF ChRec
<1>3. /\ \A m \in DOMAIN hs : Matches(c, hs[m])
      /\ InOrder(hs) /\ IsInjective(hs)
  BY Zenon DEF ChannelOK
<1> HIDE DEF hs
<1>2. \A m \in DOMAIN hs : hs[m] \in H
  BY <1>1
<1>4. \A m \in DOMAIN hs : hs[m].start \in Int /\ hs[m].end \in Int /\ hs[m].start <= hs[m].end
  BY <1>2, Zenon DEF Disjoint, HitOK
<1>5. ASSUME NEW m \in DOMAIN hs, NEW n \in DOMAIN hs, m < n PROVE hs[m].end < hs[n].start
  <2>0. m <= n /\ m # n
    <3>1. m \in Nat /\ n \in Nat
      BY <1>1
    <3> QED BY <1>5, <3>1
  <2>1. hs[m] # hs[n]
    BY <1>3, <2>0, Zenon DEF IsInjective
  <2>2. SameChannel(hs[m], hs[n])
    BY <1>3, Zenon DEF Matches, SameChannel
  <2>3. hs[m].end < hs[n].start \/ hs[n].end < hs[m].start
    BY <1>2, <2>1, <2>2, Zenon DEF Disjoint
  <2>4. hs[m].start <= hs[n].start
    BY <1>3, <2>0, Zenon DEF InOrder
  <2> DEFINE a == hs[m].start
             b == hs[n].start
             e == hs[m].end
             f == hs[n].end
  <2>5. a \in Int /\ b \in Int /\ e \in Int /\ f \in Int /\ a <= b /\ b <= f /\ (e < b \/ f < a)
    BY <1>4, <2>3, <2>4, Zenon
  <2> HIDE DEF a, b, e, f
  <2>6. e < b
    BY <2>5
  <2> QED BY <2>6, Zenon DEF e, b
<1> QED BY <1>1, <1>2, <1>4, <1>5, Zenon DEF hs

(* What ClosestHit asks of the hits of a channel and a tick                *)
ClosestIn(hs, tick) ==
  LET c == GetClosestHit(hs, tick)
  IN  \/ c = 1 /\ tick <= hs[1].end
      \/ \A h \in Range(hs) : Distance(hs[c].start, tick) <= Distance(h.start, tick)

(* The distances of two starts on the same side of a tick                  *)
LEMMA DistanceOrder ==
  ASSUME NEW a \in Int, NEW b \in Int, NEW tick \in Int
  PROVE  /\ Distance(a, tick) \in Int /\ Distance(b, tick) \in Int
         /\ a <= b /\ b <= tick => Distance(b, tick) <= Distance(a, tick)
         /\ tick < a /\ a <= b => Distance(a, tick) <= Distance(b, tick)
BY DEF Distance

(* The search through ordered hits returns the one that starts nearest.    *)
LEMMA ClosestFound ==
  ASSUME NEW hs, NEW n \in Nat, n # 0, DOMAIN hs = 1 .. n, Len(hs) = n, NEW tick \in Int,
         \A m \in 1 .. n : hs[m].start \in Int /\ hs[m].end \in Int /\ hs[m].start <= hs[m].end,
         \A l, m \in 1 .. n : l < m => hs[l].end < hs[m].start
  PROVE  ClosestIn(hs, tick)
<1> DEFINE s(m) == hs[m].start
           e(m) == hs[m].end
           c == GetClosestHit(hs, tick)
           Good(k) == \/ k = 1 /\ tick <= e(1)
                      \/ \A m \in 1 .. n : Distance(s(k), tick) <= Distance(s(m), tick)
<1>1. \A m \in 1 .. n : s(m) \in Int /\ e(m) \in Int /\ s(m) <= e(m)
  OBVIOUS
<1>2. \A l, m \in 1 .. n : l < m => e(l) < s(m)
  OBVIOUS
<1>3. Last(hs) = hs[n] /\ 1 \in 1 .. n /\ n \in 1 .. n
  BY DEF Last
<1> HIDE DEF s, e
<1>4. \A l, m \in 1 .. n : l < m => s(l) < s(m)
  <2> TAKE l, m \in 1 .. n
  <2> DEFINE a == s(l)
             b == e(l)
             d == s(m)
  <2>1. a \in Int /\ b \in Int /\ d \in Int /\ a <= b /\ (l < m => b < d)
    BY <1>1, <1>2, Zenon
  <2> HIDE DEF a, b, d
  <2>2. l < m => a < d
    BY <2>1
  <2> QED BY <2>2, Zenon DEF a, d
<1>a. \A l, m \in 1 .. n : l < m \/ l = m \/ m < l
  OBVIOUS
<1>b. \A m \in 1 .. n : m = n \/ m < n
  OBVIOUS
<1>c. \A m \in 1 .. n : m = 1 \/ 1 < m
  OBVIOUS
<1> HIDE DEF c
<1>5. ASSUME tick <= e(1) PROVE Good(c)
  <2>0. ~(tick > e(1))
    <3> DEFINE a == e(1)
    <3>1. a \in Int /\ tick <= a
      BY <1>1, <1>3, <1>5, Zenon
    <3> HIDE DEF a
    <3>2. ~(tick > a)
      BY <3>1
    <3> QED BY <3>2 DEF a
  <2>1. c = 1
    BY <1>5, <2>0, Zenon DEF GetClosestHit, e, c
  <2> QED BY <1>5, <2>1, Zenon
<1>6. ASSUME tick > e(1), tick >= s(n) PROVE Good(c)
  <2>0. ~(tick <= e(1))
    <3> DEFINE a == e(1)
    <3>1. a \in Int /\ tick > a
      BY <1>1, <1>3, <1>6, Zenon
    <3> HIDE DEF a
    <3> QED BY <3>1 DEF a
  <2>1. c = n
    BY <1>3, <1>6, <2>0, Zenon DEF GetClosestHit, e, s, c
  <2>2. \A m \in 1 .. n : m = n \/ s(m) < s(n)
    BY <1>3, <1>4, <1>b, Zenon
  <2>3. Good(n)
    <3> DEFINE b == s(n)
    <3>1. b \in Int /\ tick >= b
      BY <1>1, <1>3, <1>6, Zenon
    <3>2. ASSUME NEW m \in 1 .. n PROVE Distance(b, tick) <= Distance(s(m), tick)
      <4> DEFINE a == s(m)
      <4>1. a \in Int /\ (a = b \/ a < b)
        BY <1>1, <2>2, Zenon
      <4> HIDE DEF a, b
      <4>2. a <= b /\ b <= tick
        BY <3>1, <4>1
      <4>3. Distance(b, tick) <= Distance(a, tick)
        BY <3>1, <4>1, <4>2, DistanceOrder, Zenon
      <4> QED BY <4>3, Zenon DEF a
    <3> QED BY <3>2, Zenon DEF b
  <2> QED BY <2>1, <2>3
<1>7. ASSUME ~(tick <= e(1)), ~(tick >= s(n)) PROVE Good(c)
  <2> DEFINE N == {k \in DOMAIN hs : hs[k].start > tick}
             next == Min(N)
  <2>1. N = {k \in 1 .. n : s(k) > tick}
    BY Zenon DEF s
  <2>2. n \in N
    <3> DEFINE b == s(n)
    <3>1. b \in Int /\ ~(tick >= b)
      BY <1>1, <1>3, <1>7, Zenon
    <3> HIDE DEF b
    <3>2. b > tick
      BY <3>1
    <3> QED BY <1>3, <2>1, <3>2, Zenon DEF b
  <2>3. N \subseteq Nat /\ N # {}
    BY <2>1, <2>2
  <2> HIDE DEF N
  <2>4. next \in N /\ \A m \in N : next <= m
    BY <2>3, MinIsLeast, Zenon
  <2> HIDE DEF next
  <2>5. next \in 1 .. n /\ s(next) > tick
    BY <2>1, <2>4
  <2>6. next # 1
    BY <1>1, <1>3, <1>7, <2>5
  <2>7. next - 1 \in 1 .. n /\ ~(next <= next - 1) /\ next > 1
    BY <2>5, <2>6
  <2>8. ~(s(next - 1) > tick)
    BY <2>1, <2>4, <2>7, Zenon
  <2> DEFINE d == Distance(s(next), tick) < Distance(s(next - 1), tick)
  <2>9. c = IF d THEN next ELSE next - 1
    BY <1>3, <1>7, Zenon DEF GetClosestHit, e, s, c, next, N
  <2> DEFINE p == next - 1
             u == s(p)
             v == s(next)
  <2>10. u \in Int /\ v \in Int /\ v > tick /\ ~(u > tick)
    BY <1>1, <2>5, <2>7, <2>8, Zenon
  <2>11. \A m \in 1 .. n : m <= p \/ next <= m
    BY <2>5
  <2>12. \A m \in 1 .. n : (m <= p => m = p \/ m < p) /\ (next <= m => next = m \/ next < m)
    BY <2>5
  <2> HIDE DEF p
  <2>13. ASSUME NEW m \in 1 .. n PROVE s(m) <= u \/ v <= s(m)
    <3>1. CASE m <= p
      <4>1. s(m) = u \/ s(m) < u
        BY <1>4, <2>7, <2>12, <3>1, Zenon DEF p
      <4> QED BY <1>1, <2>10, <4>1
    <3>2. CASE next <= m
      <4>1. s(m) = v \/ v < s(m)
        BY <1>4, <2>5, <2>12, <3>2, Zenon
      <4> QED BY <1>1, <2>10, <4>1
    <3> QED BY <2>11, <3>1, <3>2
  <2>14. \A m \in 1 .. n : s(m) \in Int /\ (s(m) <= u \/ v <= s(m))
    BY <1>1, <2>13, Zenon
  <2> HIDE DEF u, v
  <2> DEFINE du == Distance(u, tick)
             dv == Distance(v, tick)
  <2>15. ASSUME NEW m \in 1 .. n
         PROVE  /\ du \in Int /\ dv \in Int /\ Distance(s(m), tick) \in Int
                /\ du <= Distance(s(m), tick) \/ dv <= Distance(s(m), tick)
    <3> DEFINE a == s(m)
    <3>1. a \in Int /\ (a <= u \/ v <= a)
      BY <2>14, Zenon
    <3> HIDE DEF a
    <3>2. u <= tick /\ tick < v
      BY <2>10
    <3>3. Distance(a, tick) \in Int /\ du \in Int /\ dv \in Int
      BY <2>10, <3>1, DistanceOrder, Zenon
    <3>4. (a <= u => du <= Distance(a, tick)) /\ (v <= a => dv <= Distance(a, tick))
      BY <2>10, <3>1, <3>2, DistanceOrder, Zenon
    <3> QED BY <3>1, <3>3, <3>4, Zenon DEF a
  <2>d. d <=> dv < du
    BY Zenon DEF p, u, v
  <2> HIDE DEF du, dv, d
  <2>16. CASE d
    <3>1. c = next
      BY <2>9, <2>16
    <3>2. ASSUME NEW m \in 1 .. n PROVE dv <= Distance(s(m), tick)
      <4> DEFINE x == Distance(s(m), tick)
      <4>1. du \in Int /\ dv \in Int /\ x \in Int /\ (du <= x \/ dv <= x) /\ dv < du
        BY <2>15, <2>16, <2>d, Zenon
      <4> HIDE DEF x
      <4>2. dv <= x
        BY <4>1
      <4> QED BY <4>2, Zenon DEF x
    <3> QED BY <3>1, <3>2, Zenon DEF dv, v
  <2>17. CASE ~d
    <3>1. c = p
      BY <2>9, <2>17 DEF p
    <3>2. ASSUME NEW m \in 1 .. n PROVE du <= Distance(s(m), tick)
      <4> DEFINE x == Distance(s(m), tick)
      <4>1. du \in Int /\ dv \in Int /\ x \in Int /\ (du <= x \/ dv <= x) /\ ~(dv < du)
        BY <2>15, <2>17, <2>d, Zenon
      <4> HIDE DEF x
      <4>2. du <= x
        BY <4>1
      <4> QED BY <4>2, Zenon DEF x
    <3> QED BY <3>1, <3>2, Zenon DEF du, u
  <2> QED BY <2>16, <2>17
<1>8. Good(c)
  <2> DEFINE a == e(1)
  <2>1. a \in Int
    BY <1>1, <1>3, Zenon
  <2> HIDE DEF a
  <2>2. tick <= a \/ tick > a
    BY <2>1
  <2>3. tick <= e(1) \/ tick > e(1)
    BY <2>2, Zenon DEF a
  <2> HIDE DEF Good
  <2> QED BY <1>5, <1>6, <1>7, <2>3, Zenon
<1>9. Range(hs) = {hs[m] : m \in 1 .. n}
  BY DEF Range
<1>10. (\A m \in 1 .. n : Distance(s(c), tick) <= Distance(s(m), tick)) =>
          \A h \in Range(hs) : Distance(hs[c].start, tick) <= Distance(h.start, tick)
  BY <1>9, Zenon DEF s
<1> QED BY <1>8, <1>10, Zenon DEF ClosestIn, s, e, c

-----------------------------------------------------------------------------
(* The invariant of the hit finding task (tasks/src/HitRecoTask.cc)        *)

(* The hits the collection may be given.                                   *)
Added == Others \cup {SetChannel(hits[k]) : k \in DOMAIN hits}

(* What is reset between events is empty until it is computed.             *)
StageInv ==
  /\ stage \in {"idle", "raw", "frags", "collect"}
  /\ stage # "idle" => wave \in Waves /\ par \in Pars
  /\ stage \in {"idle", "raw"} => rois = <<>> /\ frags = <<>>
  /\ stage # "collect" => hits = <<>> /\ pending = {} /\ coll = EmptyCollection

(* The fragments are parts of the wave.                                    *)
FragsInv == FragsOK(wave, frags)

(* The hits are what the finder returns for them.                          *)
HitsInv == stage = "collect" => FoundInAll(wave, Th1, par.width, par.pl, frags, hits)

(* The collection holds what was added, but for what it refused.           *)
CollInv == stage = "collect" =>
  /\ CollOK(Added, coll)
  /\ pending \subseteq Added
  /\ Held(coll) \subseteq Added \ pending
  /\ \A h \in (Added \ pending) \ Held(coll) : Refused(coll, h)

(* All of it, inductive.                                                   *)
HitRecoInv ==
  StageInv /\ FragsInv /\ PedestalIsQuiet /\ SignalKept /\ HitsInv /\ CollInv

(* No fragments are fragments.                                             *)
LEMMA NoFragments == ASSUME NEW w PROVE FragsOK(w, <<>>)
<1>1. DOMAIN <<>> = {} /\ 1 .. 0 = {} /\ 0 \in Nat
  OBVIOUS
<1> QED BY <1>1, Zenon DEF FragsOK

(* A hit of this channel *)
LEMMA OwnHit ==
  ASSUME NEW h \in KeptHit
  PROVE  /\ HitOK(SetChannel(h)) /\ SameChannel(SetChannel(h), Channel)
         /\ SetChannel(h).start = h.start /\ SetChannel(h).end = h.end
         /\ h.start \in Nat /\ h.end \in Nat
<1>1. Channel.ch \in Nat /\ Channel.crm \in Int /\ Channel.view \in Int
  BY HitRecoAssumption
<1>2. h.start \in Nat /\ h.end \in Nat
  BY DEF KeptHit
<1> QED BY <1>1, <1>2 DEF SetChannel, HitOK, SameChannel

(* The hits added share no sample.                                         *)
LEMMA AddedHits ==
  ASSUME hits \in Seq(KeptHit), \A m \in DOMAIN hits \ {1} : hits[m - 1].end < hits[m].start,
         \A m \in DOMAIN hits : hits[m].start <= hits[m].end
  PROVE  Disjoint(Added)
<1>1. \A k \in DOMAIN hits : hits[k] \in KeptHit
  <2> HIDE DEF KeptHit
  <2> QED OBVIOUS
<1>2. \A k \in DOMAIN hits : /\ HitOK(SetChannel(hits[k]))
                             /\ SameChannel(SetChannel(hits[k]), Channel)
                             /\ SetChannel(hits[k]).start = hits[k].start
                             /\ SetChannel(hits[k]).end = hits[k].end
                             /\ hits[k].start \in Nat /\ hits[k].end \in Nat
  BY <1>1, OwnHit
<1>3. \A j, k \in DOMAIN hits : j < k => hits[j].end < hits[k].start
  <2> DEFINE s(k) == hits[k].start
             e(k) == hits[k].end
             n == Len(hits)
             Bad(j) == {k \in Nat : k \in 1 .. n /\ j < k /\ ~(e(j) < s(k))}
  <2>1. n \in Nat /\ DOMAIN hits = 1 .. n
    OBVIOUS
  <2>2. /\ \A k \in 1 .. n : s(k) \in Nat /\ e(k) \in Nat /\ s(k) <= e(k)
        /\ \A k \in 1 .. n \ {1} : e(k - 1) < s(k)
    BY <1>2, <2>1, Zenon
  <2> HIDE DEF s, e, n
  <2>3. SUFFICES ASSUME NEW j \in 1 .. n, Bad(j) # {} PROVE FALSE
    BY <2>1 DEF s, e
  <2>4. PICK k \in Bad(j) : \A m \in Bad(j) : k <= m
    <3>1. Bad(j) \subseteq Nat
      OBVIOUS
    <3> HIDE DEF Bad
    <3> QED BY <2>3, <3>1, LeastNumber, Zenon
  <2>5. k \in 1 .. n /\ j < k /\ ~(e(j) < s(k)) /\ k # 1
    BY <2>1, <2>4
  <2>6. k - 1 \in 1 .. n /\ k - 1 \in Nat /\ ~(k <= k - 1) /\ e(k - 1) < s(k) /\ (j = k - 1 \/ j < k - 1)
    BY <2>1, <2>2, <2>5
  <2>7. j # k - 1
    BY <2>5, <2>6
  <2>8. e(j) < s(k - 1)
    BY <2>4, <2>6, <2>7
  <2> QED BY <2>2, <2>5, <2>6, <2>8
<1>4. /\ \A h \in Others : HitOK(h) /\ h.start \in Int /\ h.end \in Int /\ h.start <= h.end
      /\ \A h \in Others : ~SameChannel(h, Channel)
      /\ \A g, h \in Others : SameChannel(g, h) /\ g # h => g.end < h.start \/ h.end < g.start
  BY HitRecoAssumption, Zenon DEF HitOK
<1>5. ASSUME NEW h \in Added PROVE HitOK(h) /\ h.end \in Int /\ h.start <= h.end
  <2>1. CASE h \in Others
    BY <1>4, <2>1, Zenon
  <2>2. CASE h \notin Others
    <3>1. PICK k \in DOMAIN hits : h = SetChannel(hits[k])
      BY <2>2 DEF Added
    <3>2. HitOK(h) /\ h.end = hits[k].end /\ h.start = hits[k].start /\ hits[k].end \in Nat
      BY <1>2, <3>1, Zenon
    <3>3. h.end \in Int /\ h.start <= h.end
      BY <3>2
    <3> QED BY <3>2, <3>3
  <2> QED BY <2>1, <2>2
<1>6. ASSUME NEW g \in Added, NEW h \in Added, SameChannel(g, h), g # h
      PROVE  g.end < h.start \/ h.end < g.start
  <2>1. CASE g \in Others /\ h \in Others
    BY <1>4, <1>6, <2>1, Zenon
  <2>2. CASE g \in Others /\ h \notin Others
    <3>1. PICK k \in DOMAIN hits : h = SetChannel(hits[k])
      BY <2>2 DEF Added
    <3>2. SameChannel(h, Channel)
      BY <1>2, <3>1, Zenon
    <3>3. SameChannel(g, Channel)
      BY <1>6, <3>2, Zenon DEF SameChannel
    <3> QED BY <1>4, <2>2, <3>3, Zenon
  <2>3. CASE g \notin Others /\ h \in Others
    <3>1. PICK k \in DOMAIN hits : g = SetChannel(hits[k])
      BY <2>3 DEF Added
    <3>2. SameChannel(g, Channel)
      BY <1>2, <3>1, Zenon
    <3>3. SameChannel(h, Channel)
      BY <1>6, <3>2, Zenon DEF SameChannel
    <3> QED BY <1>4, <2>3, <3>3, Zenon
  <2>4. CASE g \notin Others /\ h \notin Others
    <3>1. PICK j \in DOMAIN hits : g = SetChannel(hits[j])
      BY <2>4 DEF Added
    <3>2. PICK k \in DOMAIN hits : h = SetChannel(hits[k])
      BY <2>4 DEF Added
    <3>3. j # k
      BY <1>6, <3>1, <3>2, Zenon
    <3>4. j < k \/ k < j
      <4>1. j \in Nat /\ k \in Nat
        OBVIOUS
      <4> QED BY <3>3, <4>1
    <3>5. hits[j].end < hits[k].start \/ hits[k].end < hits[j].start
      BY <1>3, <3>4, Zenon
    <3> QED BY <1>2, <3>1, <3>2, <3>5, Zenon
  <2> QED BY <2>1, <2>2, <2>3, <2>4, Zenon
<1> QED BY <1>5, <1>6, Zenon DEF Disjoint

-----------------------------------------------------------------------------
(* The steps *)

(* It holds at the start ...                                               *)
LEMMA InitHitRecoInv == HitInit => HitRecoInv
<1> SUFFICES ASSUME HitInit PROVE HitRecoInv
  OBVIOUS
<1>1. /\ wave = <<>> /\ stage = "idle" /\ rois = <<>> /\ frags = <<>> /\ hits = <<>>
      /\ pending = {} /\ coll = EmptyCollection
  BY DEF HitInit
<1>2. StageInv
  BY <1>1 DEF StageInv
<1>3. FragsInv
  BY <1>1, NoFragments, Zenon DEF FragsInv
<1>4. PedestalIsQuiet /\ SignalKept
  BY <1>1, Zenon DEF PedestalIsQuiet, SignalKept
<1>5. HitsInv
  BY <1>1 DEF HitsInv
<1>6. CollInv
  BY <1>1 DEF CollInv
<1> QED BY <1>2, <1>3, <1>4, <1>5, <1>6, Zenon DEF HitRecoInv

(* ... and every step keeps it.                                            *)
LEMMA TakeChannelKeeps ==
  ASSUME HitRecoInv, TakeChannel
  PROVE  HitRecoInv'
<1>1. /\ stage = "idle" /\ wave' \in Waves /\ par' \in Pars /\ stage' = "raw"
      /\ rois' = rois /\ frags' = frags /\ hits' = hits /\ pending' = pending /\ coll' = coll
  BY DEF TakeChannel
<1>2. /\ rois = <<>> /\ frags = <<>> /\ hits = <<>> /\ pending = {} /\ coll = EmptyCollection
  BY <1>1 DEF HitRecoInv, StageInv
<1>3. StageInv'
  BY <1>1, <1>2 DEF StageInv
<1>4. FragsInv'
  BY <1>1, <1>2, NoFragments, Zenon DEF FragsInv
<1>5. PedestalIsQuiet' /\ SignalKept'
  BY <1>1, <1>2, Zenon DEF PedestalIsQuiet, SignalKept
<1>6. HitsInv'
  BY <1>1 DEF HitsInv
<1>7. CollInv'
  BY <1>1 DEF CollInv
<1> QED BY <1>3, <1>4, <1>5, <1>6, <1>7, Zenon DEF HitRecoInv

LEMMA FindROIKeeps ==
  ASSUME HitRecoInv, FindROI
  PROVE  HitRecoInv'
<1>1. /\ stage = "raw" /\ stage' = "frags"
      /\ wave' = wave /\ par' = par /\ hits' = hits /\ pending' = pending /\ coll' = coll
      /\ ped' = (IF par.guess THEN PedSamples(wave, par.t1, par.low1) ELSE {})
      /\ rois' = Scan(wave, par.t, par.low).rois
      /\ frags' = LET d == PadROI(rois', par.left, par.right, Size(wave))
                  IN  [k \in DOMAIN d |-> Fragment(wave, d[k], 0)]
  BY Zenon DEF FindROI
<1>2. /\ wave \in Waves /\ par \in Pars
      /\ hits = <<>> /\ pending = {} /\ coll = EmptyCollection
  BY <1>1 DEF HitRecoInv, StageInv
<1>3. WaveOK(wave) /\ DOMAIN wave = 0 .. Size(wave) - 1
  BY <1>2, WavesOK
<1>4. /\ par.t1 \in Int /\ par.low1 \in Int /\ par.t \in Int /\ par.low \in Int
      /\ par.left \in Nat /\ par.right \in Nat
  BY <1>2, ParsOK
<1>5. InTurn(rois', Size(wave))
  BY <1>1, <1>3, <1>4, ScanRegions, Zenon
<1>6. frags' = FragmentsOf(wave, PadROI(rois', par.left, par.right, Size(wave)))
  BY <1>1, Zenon DEF FragmentsOf
<1>7. StageInv'
  BY <1>1, <1>2 DEF StageInv
<1>8. FragsInv'
  <2>1. FragsOK(wave, FragmentsOf(wave, PadROI(rois', par.left, par.right, Size(wave))))
    BY <1>3, <1>4, <1>5, RoiFragments
  <2> QED BY <1>1, <1>6, <2>1, Zenon DEF FragsInv
<1>9. PedestalIsQuiet'
  <2> SUFFICES ASSUME par.guess, par.t = par.t1, par.low = par.low1, Lowest(wave) <= par.low,
                      NEW k \in DOMAIN rois'
               PROVE  ped' \cap (rois'[k].first + 1 .. rois'[k].second) = {}
    BY <1>1, Zenon DEF PedestalIsQuiet
  <2>1. ped' = PedSamples(wave, par.t, par.low)
    BY <1>1, Zenon
  <2>2. k \in DOMAIN Scan(wave, par.t, par.low).rois
    BY <1>1, Zenon
  <2>3. LET r == Scan(wave, par.t, par.low).rois[k]
        IN  PedSamples(wave, par.t, par.low) \cap (r.first + 1 .. r.second) = {}
    BY <1>3, <1>4, <2>2, QuietPedestal, Zenon
  <2> QED BY <1>1, <2>1, <2>3, Zenon
<1>10. SignalKept'
  <2> SUFFICES ASSUME par.low <= par.t, NEW i \in DOMAIN wave, wave[i] > par.t
               PROVE  \/ \E k \in DOMAIN frags' : i \in Samples(frags'[k])
                      \/ \E k \in DOMAIN rois' \ {1} :
                           \/ i = frags'[k].start - 1
                           \/ /\ rois'[k].first < par.left
                              /\ i \in rois'[k].first .. Smaller(rois'[k].second + par.right, Size(wave))
    BY <1>1, Zenon DEF SignalKept, Recorded, Samples
  <2>1. i \in 0 .. Size(wave) - 1
    BY <1>3
  <2>2. LET rs == Scan(wave, par.t, par.low).rois
            d  == PadROI(rs, par.left, par.right, Size(wave))
            fr == FragmentsOf(wave, d)
        IN  \/ \E k \in DOMAIN fr : i \in Samples(fr[k])
            \/ \E k \in DOMAIN rs \ {1} :
                 \/ i = fr[k].start - 1
                 \/ /\ rs[k].first < par.left
                    /\ i \in rs[k].first .. Smaller(rs[k].second + par.right, Size(wave))
    BY <1>3, <1>4, <2>1, SignalInFragments
  <2> QED BY <1>1, <1>6, <2>2, Zenon
<1>11. HitsInv'
  BY <1>1 DEF HitsInv
<1>12. CollInv'
  BY <1>1 DEF CollInv
<1> QED BY <1>7, <1>8, <1>9, <1>10, <1>11, <1>12, Zenon DEF HitRecoInv

LEMMA TakeFragmentsKeeps ==
  ASSUME HitRecoInv, TakeFragments
  PROVE  HitRecoInv'
<1>1. /\ stage = "raw" /\ stage' = "frags"
      /\ wave' = wave /\ par' = par /\ rois' = rois /\ hits' = hits /\ pending' = pending /\ coll' = coll
      /\ \E cut \in Cuts :
           frags' = << Fragment(wave, [first |-> 0, second |-> cut], 0),
                       Fragment(wave, [first |-> cut, second |-> Size(wave)], 0) >>
  BY Zenon DEF TakeFragments
<1>2. /\ wave \in Waves /\ par \in Pars /\ rois = <<>>
      /\ hits = <<>> /\ pending = {} /\ coll = EmptyCollection
  BY <1>1 DEF HitRecoInv, StageInv
<1>3. WaveOK(wave) /\ Cuts \subseteq 0 .. Size(wave)
  BY <1>2, WavesOK, HitRecoAssumption, Zenon
<1>4. StageInv'
  BY <1>1, <1>2 DEF StageInv
<1>5. FragsInv'
  <2>1. PICK cut \in Cuts :
          frags' = << Fragment(wave, [first |-> 0, second |-> cut], 0),
                      Fragment(wave, [first |-> cut, second |-> Size(wave)], 0) >>
    BY <1>1, Zenon
  <2>2. cut \in 0 .. Size(wave)
    BY <1>3, Zenon
  <2> QED BY <1>1, <1>3, <2>1, <2>2, CutFragments, Zenon DEF FragsInv
<1>6. PedestalIsQuiet' /\ SignalKept'
  BY <1>1, <1>2, Zenon DEF PedestalIsQuiet, SignalKept
<1>7. HitsInv' /\ CollInv'
  BY <1>1 DEF HitsInv, CollInv
<1> QED BY <1>4, <1>5, <1>6, <1>7, Zenon DEF HitRecoInv

LEMMA NotTreatedKeeps ==
  ASSUME HitRecoInv, NotTreated
  PROVE  HitRecoInv'
<1>1. /\ stage = "raw" /\ stage' = "frags" /\ frags' = <<>>
      /\ wave' = wave /\ par' = par /\ rois' = rois /\ hits' = hits /\ pending' = pending /\ coll' = coll
  BY Zenon DEF NotTreated
<1>2. /\ wave \in Waves /\ par \in Pars /\ rois = <<>>
      /\ hits = <<>> /\ pending = {} /\ coll = EmptyCollection
  BY <1>1 DEF HitRecoInv, StageInv
<1>3. StageInv'
  BY <1>1, <1>2 DEF StageInv
<1>4. FragsInv'
  <2>1. DOMAIN <<>> = 1 .. 0 /\ 0 \in Nat /\ 1 .. 0 = {}
    OBVIOUS
  <2> QED BY <1>1, <2>1, Zenon DEF FragsInv, FragsOK
<1>5. PedestalIsQuiet' /\ SignalKept'
  BY <1>1, <1>2, Zenon DEF PedestalIsQuiet, SignalKept
<1>6. HitsInv' /\ CollInv'
  BY <1>1 DEF HitsInv, CollInv
<1> QED BY <1>3, <1>4, <1>5, <1>6, Zenon DEF HitRecoInv

LEMMA FindHitsChKeeps ==
  ASSUME HitRecoInv, FindHitsCh
  PROVE  HitRecoInv'
<1>1. /\ stage = "frags" /\ stage' = "collect"
      /\ wave' = wave /\ par' = par /\ ped' = ped /\ rois' = rois /\ frags' = frags /\ coll' = coll
      /\ hits' = FlattenSeq([k \in DOMAIN frags |->
                               FindHits(frags[k], Th1, Th2, par.width, par.pl, par.pr)])
      /\ pending' = Added'
  BY Zenon DEF FindHitsCh, Added
<1>2. wave \in Waves /\ par \in Pars /\ coll = EmptyCollection /\ FragsInv
  BY <1>1 DEF HitRecoInv, StageInv
<1>3. /\ par.width \in Nat /\ par.pl \in Nat /\ par.pr \in Nat
      /\ Th1 \in Int /\ Th2 \in Nat
  <2>1. /\ par.width \in Nat /\ par.pl \in Nat /\ par.pr \in Nat
        /\ par.abs1 \in Int /\ par.rel1 \in Int /\ par.rms \in Int /\ par.abs2 \in Int /\ par.rel2 \in Int
    BY <1>2, ParsOK, Zenon
  <2>2. Th1 \in Nat /\ Th2 \in Nat
    BY <2>1, ThresholdOK, Zenon DEF Th1, Th2
  <2>3. Th1 \in Int
    BY <2>2
  <2> QED BY <2>1, <2>2, <2>3
<1>4. StageInv'
  BY <1>1, <1>2 DEF StageInv
<1>5. FragsInv'
  BY <1>1, <1>2, Zenon DEF FragsInv
<1>6. PedestalIsQuiet' /\ SignalKept'
  BY <1>1, Zenon DEF PedestalIsQuiet, SignalKept, HitRecoInv, Recorded
<1>7. HitsInv'
  <2>1. WaveOK(wave) /\ FragsOK(wave, frags)
    BY <1>2, WavesOK, Zenon DEF FragsInv
  <2>2. FoundInAll(wave, Th1, par.width, par.pl, frags, hits')
    BY <1>1, <1>3, <2>1, HitsOfFragments, Zenon
  <2> QED BY <1>1, <2>2, Zenon DEF HitsInv, Th1
<1>8. CollInv'
  <2>1. CollOK(Added', coll') /\ Held(coll') = {}
    BY <1>1, <1>2, EmptyOK, Zenon
  <2>2. Added' \ pending' = {}
    BY <1>1
  <2> HIDE DEF Added
  <2>3. pending' \subseteq Added' /\ Held(coll') \subseteq Added' \ pending'
    BY <1>1, <2>1
  <2>4. \A h \in (Added' \ pending') \ Held(coll') : Refused(coll', h)
    BY <2>2
  <2> QED BY <2>1, <2>3, <2>4, Zenon DEF CollInv
<1> QED BY <1>4, <1>5, <1>6, <1>7, <1>8, Zenon DEF HitRecoInv

(* The hits added share no sample.                                         *)
LEMMA AddedDisjoint ==
  ASSUME HitRecoInv, stage = "collect"
  PROVE  Disjoint(Added)
<1>1. FoundInAll(wave, Th1, par.width, par.pl, frags, hits)
  BY Zenon DEF HitRecoInv, HitsInv
<1>2. hits \in Seq(KeptHit) /\ \A m \in DOMAIN hits \ {1} : hits[m - 1].end < hits[m].start
  BY <1>1, Zenon DEF FoundInAll
<1>3. ASSUME NEW m \in DOMAIN hits PROVE hits[m].start <= hits[m].end
  <2>1. PICK k \in DOMAIN frags : HitOfFrag(wave, Th1, frags, k, hits[m])
    BY <1>1, Zenon DEF FoundInAll
  <2>2. hits[m] \in KeptHit
    <3> HIDE DEF KeptHit
    <3> QED BY <1>2
  <2> DEFINE a == hits[m].start
             b == hits[m].max
             c == hits[m].end
  <2>3. a \in Nat /\ b \in Nat /\ c \in Nat /\ a <= b /\ b <= c
    BY <2>1, <2>2, KeptFields, Zenon DEF HitOfFrag, HitInside
  <2> HIDE DEF a, b, c
  <2>4. a <= c
    BY <2>3
  <2> QED BY <2>4, Zenon DEF a, c
<1> QED BY <1>2, <1>3, AddedHits, Zenon

LEMMA CollectKeeps ==
  ASSUME HitRecoInv, Collect
  PROVE  HitRecoInv'
<1>1. /\ stage = "collect" /\ stage' = stage
      /\ wave' = wave /\ par' = par /\ ped' = ped /\ rois' = rois /\ frags' = frags /\ hits' = hits
      /\ \E h \in pending : coll' = AddHit(coll, h) /\ pending' = pending \ {h}
  BY Zenon DEF Collect
<1>2. StageInv'
  BY <1>1 DEF StageInv, HitRecoInv
<1>3. FragsInv' /\ PedestalIsQuiet' /\ SignalKept' /\ HitsInv'
  BY <1>1, Zenon DEF FragsInv, PedestalIsQuiet, SignalKept, HitRecoInv, Recorded, HitsInv, Th1
<1>4. CollInv'
  <2>1. PICK h \in pending : coll' = AddHit(coll, h) /\ pending' = pending \ {h}
    BY <1>1, Zenon
  <2>2. /\ CollOK(Added, coll) /\ pending \subseteq Added /\ Held(coll) \subseteq Added \ pending
        /\ \A x \in (Added \ pending) \ Held(coll) : Refused(coll, x)
    BY <1>1, Zenon DEF HitRecoInv, CollInv
  <2>3. \A x \in Added : HitOK(x)
    BY <1>1, AddedDisjoint, Zenon DEF Disjoint
  <2>4. Added' = Added
    BY <1>1, Zenon DEF Added
  <2> HIDE DEF Added
  <2>5. h \in Added /\ h \notin Held(coll)
    BY <2>2
  <2>6. /\ CollOK(Added, coll')
        /\ \/ Held(coll') = Held(coll) \cup {h}
           \/ Held(coll') = Held(coll) /\ Refused(coll', h)
        /\ \A g : HitOK(g) /\ Refused(coll, g) => Refused(coll', g)
    BY <2>1, <2>2, <2>3, <2>5, AddHitOK, Zenon
  <2>7. pending' \subseteq Added /\ Held(coll') \subseteq Added \ pending'
    BY <2>1, <2>2, <2>5, <2>6
  <2>8. ASSUME NEW x \in (Added \ pending') \ Held(coll') PROVE Refused(coll', x)
    <3>1. CASE x = h
      BY <2>6, <3>1
    <3>2. CASE x # h
      <4>1. x \in (Added \ pending) \ Held(coll)
        BY <2>1, <2>6, <3>2
      <4> QED BY <2>2, <2>3, <2>6, <4>1
    <3> QED BY <3>1, <3>2
  <2> QED BY <1>1, <2>4, <2>6, <2>7, <2>8, Zenon DEF CollInv
<1> QED BY <1>2, <1>3, <1>4, Zenon DEF HitRecoInv

LEMMA ResetCollectionKeeps ==
  ASSUME HitRecoInv, ResetCollection
  PROVE  HitRecoInv'
<1>1. /\ pending = {} /\ pending' = pending /\ stage' = "idle" /\ rois' = <<>> /\ frags' = <<>>
      /\ hits' = <<>> /\ coll' = EmptyCollection
  BY DEF ResetCollection
<1>2. StageInv'
  BY <1>1 DEF StageInv
<1>3. FragsInv'
  BY <1>1, NoFragments, Zenon DEF FragsInv
<1>4. PedestalIsQuiet' /\ SignalKept'
  BY <1>1, Zenon DEF PedestalIsQuiet, SignalKept
<1>5. HitsInv' /\ CollInv'
  BY <1>1 DEF HitsInv, CollInv
<1> QED BY <1>2, <1>3, <1>4, <1>5, Zenon DEF HitRecoInv

LEMMA HitNextKeeps ==
  ASSUME HitRecoInv, [HitNext]_hitVars
  PROVE  HitRecoInv'
<1>1. CASE TakeChannel
  BY <1>1, TakeChannelKeeps
<1>2. CASE FindROI
  BY <1>2, FindROIKeeps
<1>3. CASE TakeFragments
  BY <1>3, TakeFragmentsKeeps
<1>a. CASE NotTreated
  BY <1>a, NotTreatedKeeps
<1>4. CASE FindHitsCh
  BY <1>4, FindHitsChKeeps
<1>5. CASE Collect
  BY <1>5, CollectKeeps
<1>6. CASE ResetCollection
  BY <1>6, ResetCollectionKeeps
<1>7. CASE UNCHANGED hitVars
  <2>1. /\ wave' = wave /\ par' = par /\ stage' = stage /\ ped' = ped /\ rois' = rois /\ frags' = frags
        /\ hits' = hits /\ pending' = pending /\ coll' = coll
    BY <1>7 DEF hitVars
  <2>2. StageInv' /\ FragsInv' /\ PedestalIsQuiet' /\ SignalKept'
    BY <2>1, Zenon DEF StageInv, FragsInv, PedestalIsQuiet, SignalKept, HitRecoInv, Recorded
  <2>3. HitsInv' /\ CollInv'
    BY <2>1, Zenon DEF HitsInv, CollInv, HitRecoInv, Th1, Added
  <2> QED BY <2>2, <2>3, Zenon DEF HitRecoInv
<1> QED BY <1>1, <1>2, <1>3, <1>a, <1>4, <1>5, <1>6, <1>7 DEF HitNext

-----------------------------------------------------------------------------
(* What the invariant says of each property *)

(* The invariant has each of the properties of the tasks in it.            *)
LEMMA InvRegions == ASSUME HitRecoInv PROVE RegionsOfInterest
<1>1. FragmentsApart
  <2> SUFFICES ASSUME NEW k \in DOMAIN frags, NEW m \in DOMAIN frags, k < m
               PROVE  /\ Samples(frags[k]) \cap Samples(frags[m]) = {}
                      /\ Samples(frags[k]) \cup Samples(frags[m]) \subseteq Recorded
    BY Zenon DEF FragmentsApart
  <2>1. stage # "idle"
    <3>1. frags # <<>>
      OBVIOUS
    <3> QED BY <3>1, Zenon DEF HitRecoInv, StageInv
  <2>2. wave \in Waves
    BY <2>1, Zenon DEF HitRecoInv, StageInv
  <2>3. WaveOK(wave) /\ DOMAIN wave = 0 .. Size(wave) - 1
    BY <2>2, WavesOK, Zenon
  <2> QED BY <2>3, ApartFragments, Zenon DEF HitRecoInv, FragsInv, Recorded
<1> QED BY <1>1, Zenon DEF RegionsOfInterest, HitRecoInv

(* A fragment's maximal runs of samples above the threshold                *)
LEMMA PulsesOfFragment ==
  ASSUME NEW f, FragOK(wave, f)
  PROVE  /\ \A p \in Pulses(f) : /\ p[1] \in Nat /\ p[2] \in Nat
                                 /\ PulseOf(wave, Th1, f.start, Size(f.data), p[1], p[2])
         /\ \A a, b \in Nat : PulseOf(wave, Th1, f.start, Size(f.data), a, b) => <<a, b>> \in Pulses(f)
<1> DEFINE s == f.start
           n == Size(f.data)
           S == Samples(f)
           PulseAt(p) == /\ p[1] <= p[2]
                         /\ \A i \in p[1] .. p[2] : wave[i] > Th1
                         /\ p[1] = f.start \/ wave[p[1] - 1] <= Th1
                         /\ p[2] + 1 \in Samples(f) /\ wave[p[2] + 1] <= Th1
<1>1. s \in Nat /\ n \in Nat /\ S = s .. s + n - 1
  BY SamplesOf, Zenon
<1>2. \A p : p \in Pulses(f) <=> p \in S \X S /\ PulseAt(p)
  BY Zenon DEF Pulses
<1> HIDE DEF S
<1>3. ASSUME NEW p \in Pulses(f)
      PROVE  /\ p[1] \in Nat /\ p[2] \in Nat
             /\ PulseOf(wave, Th1, f.start, Size(f.data), p[1], p[2])
  <2>1. p \in S \X S /\ PulseAt(p)
    BY <1>2, Zenon
  <2> DEFINE a == p[1]
             b == p[2]
  <2>2. a \in S /\ b \in S /\ b + 1 \in S
    BY <2>1 DEF S
  <2> HIDE DEF a, b, s, n
  <2>3. a \in Nat /\ b \in Nat /\ s <= a /\ b + 1 < s + n
    BY <1>1, <2>2
  <2>4. PulseOf(wave, Th1, s, n, a, b)
    BY <2>1, <2>3, Zenon DEF PulseOf, a, b, s
  <2> QED BY <2>3, <2>4, Zenon DEF a, b, s, n
<1>4. ASSUME NEW a \in Nat, NEW b \in Nat, PulseOf(wave, Th1, f.start, Size(f.data), a, b)
      PROVE  <<a, b>> \in Pulses(f)
  <2> DEFINE p == <<a, b>>
  <2>1. p[1] = a /\ p[2] = b
    OBVIOUS
  <2>2. s <= a /\ a <= b /\ b + 1 < s + n
    BY <1>4, Zenon DEF PulseOf
  <2> HIDE DEF s, n
  <2>3. a \in S /\ b \in S /\ b + 1 \in S
    BY <1>1, <2>2
  <2>4. p \in S \X S
    BY <2>3
  <2> HIDE DEF p
  <2>5. PulseAt(p)
    BY <1>4, <2>1, <2>3, Zenon DEF PulseOf, S, s
  <2> QED BY <1>2, <2>4, <2>5, Zenon DEF p
<1> QED BY <1>3, <1>4, Zenon

LEMMA InvPulses == ASSUME HitRecoInv PROVE HitsArePulses
<1> DEFINE all == UNION {Pulses(frags[k]) : k \in DOMAIN frags}
           divided(p) == {k \in DOMAIN hits : HitSpan(hits[k]) \subseteq p[1] .. p[2]}
           spans(ks) == UNION {HitSpan(hits[k]) : k \in ks}
           W == par.width
<1> SUFFICES ASSUME stage = "collect"
             PROVE  /\ \A p \in all : p[2] - p[1] + 1 >= W => spans(divided(p)) = p[1] .. p[2]
                    /\ \A k \in DOMAIN hits :
                         \/ \E p \in all : k \in divided(p)
                         \/ \E f \in Range(frags) :
                              /\ HitSpan(hits[k]) \subseteq Samples(f)
                              /\ \A i \in hits[k].start .. f.start + Size(f.data) - 1 : wave[i] > Th1
  BY Zenon DEF HitsArePulses
<1>1. FragsOK(wave, frags) /\ FoundInAll(wave, Th1, W, par.pl, frags, hits)
  BY Zenon DEF HitRecoInv, HitsInv, FragsInv
<1>2. \A k \in DOMAIN frags : FragOK(wave, frags[k])
  BY <1>1, Zenon DEF FragsOK
<1>3. \A k \in DOMAIN hits : hits[k].start \in Nat /\ hits[k].end \in Nat
  <2>1. hits \in Seq(KeptHit)
    BY <1>1, Zenon DEF FoundInAll
  <2>2. \A k \in DOMAIN hits : hits[k] \in KeptHit
    <3> HIDE DEF KeptHit
    <3> QED BY <2>1
  <2> QED BY <2>2, KeptFields, Zenon
<1>4. ASSUME NEW p \in all, p[2] - p[1] + 1 >= W PROVE spans(divided(p)) = p[1] .. p[2]
  <2>1. PICK k \in DOMAIN frags : p \in Pulses(frags[k])
    OBVIOUS
  <2>2. /\ p[1] \in Nat /\ p[2] \in Nat
        /\ PulseOf(wave, Th1, frags[k].start, Size(frags[k].data), p[1], p[2])
    BY <1>2, <2>1, PulsesOfFragment, Zenon
  <2>3. CoveredBy(hits, p[1], p[2])
    BY <1>1, <1>4, <2>2, Zenon DEF FoundInAll, FragStart, FragSize
  <2>4. ASSUME NEW j \in p[1] .. p[2] PROVE j \in spans(divided(p))
    <3>1. PICK m \in DOMAIN hits : Within(hits[m], p[1], p[2]) /\ hits[m].start <= j /\ j <= hits[m].end
      BY <2>3, Zenon DEF CoveredBy
    <3> DEFINE a == hits[m].start
               b == hits[m].end
               l == p[1]
               u == p[2]
    <3>2. a \in Nat /\ b \in Nat /\ l \in Nat /\ u \in Nat /\ j \in l .. u
          /\ a <= j /\ j <= b /\ l <= a /\ b <= u
      BY <1>3, <2>2, <3>1, Zenon DEF Within
    <3> HIDE DEF a, b, l, u
    <3>3. j \in a .. b /\ a .. b \subseteq l .. u
      BY <3>2
    <3>4. m \in divided(p) /\ j \in HitSpan(hits[m])
      BY <3>3, Zenon DEF HitSpan, a, b, l, u
    <3> HIDE DEF divided
    <3> QED BY <3>4, Zenon
  <2>5. spans(divided(p)) \subseteq p[1] .. p[2]
    BY Zenon
  <2>6. \A j : j \in spans(divided(p)) <=> j \in p[1] .. p[2]
    BY <2>4, <2>5, Zenon
  <2> HIDE DEF spans, divided, all
  <2> QED BY <2>6
<1>5. ASSUME NEW k \in DOMAIN hits
      PROVE  \/ \E p \in all : k \in divided(p)
             \/ \E f \in Range(frags) :
                  /\ HitSpan(hits[k]) \subseteq Samples(f)
                  /\ \A i \in hits[k].start .. f.start + Size(f.data) - 1 : wave[i] > Th1
  <2>1. PICK j \in DOMAIN frags : HitOfFrag(wave, Th1, frags, j, hits[k])
    BY <1>1, Zenon DEF FoundInAll
  <2> DEFINE f == frags[j]
             s == f.start
             n == Size(f.data)
             a == hits[k].start
             b == hits[k].end
  <2>2. FragOK(wave, f) /\ s \in Nat /\ n \in Nat /\ Samples(f) = s .. s + n - 1
    BY <1>2, SamplesOf, Zenon
  <2>3. a \in Nat /\ b \in Nat /\ s <= a /\ b < s + n
    BY <1>3, <2>1, Zenon DEF HitOfFrag, HitInside, FragStart, FragSize
  <2>4. CASE \E p, q \in Nat : PulseOf(wave, Th1, s, n, p, q) /\ Within(hits[k], p, q)
    <3>1. PICK p \in Nat, q \in Nat : PulseOf(wave, Th1, s, n, p, q) /\ Within(hits[k], p, q)
      BY <2>4, Zenon
    <3>2. <<p, q>> \in Pulses(f)
      BY <2>2, <3>1, PulsesOfFragment, Zenon
    <3>3. p <= a /\ b <= q
      BY <3>1, Zenon DEF Within
    <3> DEFINE pq == <<p, q>>
    <3>4. pq[1] = p /\ pq[2] = q
      OBVIOUS
    <3>5. pq \in all
      BY <3>2, Zenon
    <3> HIDE DEF a, b
    <3>6. a .. b \subseteq p .. q
      BY <2>3, <3>3
    <3> HIDE DEF pq, all
    <3>7. k \in divided(pq)
      BY <3>4, <3>6, Zenon DEF HitSpan, a, b
    <3> QED BY <3>5, <3>7, Zenon
  <2>5. CASE \A i \in a .. s + n - 1 : wave[i] > Th1
    <3> HIDE DEF a, b, s, n
    <3>1. a .. b \subseteq s .. s + n - 1
      BY <2>2, <2>3
    <3>2. HitSpan(hits[k]) \subseteq Samples(f)
      BY <2>2, <3>1, Zenon DEF HitSpan, a, b
    <3>3. f \in Range(frags)
      BY Zenon DEF Range
    <3> HIDE DEF f
    <3> QED BY <2>5, <3>2, <3>3, Zenon DEF a, s, n
  <2> QED BY <2>1, <2>4, <2>5, Zenon DEF HitOfFrag, FragStart, FragSize
<1> QED BY <1>4, <1>5, Zenon

LEMMA InvHits == ASSUME HitRecoInv PROVE HitsFound
<1>1. CASE stage # "collect"
  <2>1. hits = <<>>
    BY <1>1, Zenon DEF HitRecoInv, StageInv
  <2>2. DOMAIN hits = {}
    BY <2>1
  <2>3. HitsInOrder /\ ChargeCountedOnce
    BY <2>2, Zenon DEF HitsInOrder, ChargeCountedOnce
  <2> QED BY <2>3, InvPulses, Zenon DEF HitsFound
<1>2. CASE stage = "collect"
  <2>1. FragsOK(wave, frags) /\ FoundInAll(wave, Th1, par.width, par.pl, frags, hits)
    BY <1>2, Zenon DEF HitRecoInv, HitsInv, FragsInv
  <2>2. \A k \in DOMAIN frags : FragOK(wave, frags[k])
    BY <2>1, Zenon DEF FragsOK
  <2>3. \A k \in DOMAIN hits : hits[k] \in KeptHit
    <3>1. hits \in Seq(KeptHit)
      BY <2>1, Zenon DEF FoundInAll
    <3> HIDE DEF KeptHit
    <3> QED BY <3>1
  <2>4. ASSUME NEW k \in DOMAIN hits
        PROVE  /\ hits[k].max \in HitSpan(hits[k])
               /\ hits[k].amp = wave[hits[k].max]
               /\ \A i \in HitSpan(hits[k]) : wave[i] <= hits[k].amp
    <3>1. PICK j \in DOMAIN frags : HitOfFrag(wave, Th1, frags, j, hits[k])
      BY <2>1, Zenon DEF FoundInAll
    <3> DEFINE a == hits[k].start
               b == hits[k].max
               c == hits[k].end
    <3>2. a \in Nat /\ b \in Nat /\ c \in Nat /\ a <= b /\ b <= c
      BY <2>3, <3>1, KeptFields, Zenon DEF HitOfFrag, HitInside
    <3> HIDE DEF a, b, c
    <3>3. b \in a .. c
      BY <3>2
    <3> QED BY <3>1, <3>3, Zenon DEF HitOfFrag, HitInside, HitSpan, a, b, c
  <2>5. HitsInOrder
    BY <2>1, <2>4, Zenon DEF HitsInOrder, FoundInAll
  <2>6. ASSUME NEW k \in DOMAIN hits \ {1}
        PROVE  LET f == CHOOSE g \in Range(frags) : hits[k].start \in Samples(g)
               IN  hits[k].start - f.start >= par.pl => hits[k - 1].win.to <= hits[k].win.from
    <3>1. PICK j \in DOMAIN frags : HitOfFrag(wave, Th1, frags, j, hits[k])
      BY <2>1, Zenon DEF FoundInAll
    <3>2. HitInside(wave, FragStart(frags, j), FragSize(frags, j), hits[k])
      BY <3>1, Zenon DEF HitOfFrag
    <3>3. hits[k].start \in Samples(frags[j])
      <4> DEFINE a == hits[k].start
                 b == hits[k].max
                 c == hits[k].end
                 s == frags[j].start
                 n == Size(frags[j].data)
      <4>1. Samples(frags[j]) = s .. s + n - 1 /\ s \in Nat /\ n \in Nat
        BY <2>2, SamplesOf, Zenon
      <4>2. a \in Nat /\ b \in Nat /\ c \in Nat /\ s <= a /\ a <= b /\ b <= c /\ c < s + n
        BY <2>3, <3>2, KeptFields, Zenon DEF HitInside, FragStart, FragSize
      <4> HIDE DEF a, b, c, s, n
      <4>3. a \in s .. s + n - 1
        BY <4>1, <4>2
      <4> QED BY <4>1, <4>3, Zenon DEF a
    <3> DEFINE f == CHOOSE g \in Range(frags) : hits[k].start \in Samples(g)
    <3>4. frags[j] \in Range(frags)
      BY Zenon DEF Range
    <3>5. f \in Range(frags) /\ hits[k].start \in Samples(f)
      BY <3>3, <3>4, Zenon
    <3> HIDE DEF f
    <3>6. PICK i \in DOMAIN frags : f = frags[i]
      BY <3>5, Zenon DEF Range
    <3>7. i = j
      <4>1. wave \in Waves
        BY <1>2, Zenon DEF HitRecoInv, StageInv
      <4>2. WaveOK(wave)
        BY <4>1, WavesOK, Zenon
      <4>3. i \in Nat /\ j \in Nat
        BY <2>1 DEF FragsOK
      <4>4. Samples(frags[i]) \cap Samples(frags[j]) # {}
        BY <3>3, <3>5, <3>6, Zenon
      <4>5. ~(i < j)
        BY <2>1, <4>2, <4>4, ApartFragments, Zenon
      <4>6. Samples(frags[j]) \cap Samples(frags[i]) # {}
        BY <3>3, <3>5, <3>6, Zenon
      <4>7. ~(j < i)
        BY <2>1, <4>2, <4>6, ApartFragments, Zenon
      <4> QED BY <4>3, <4>5, <4>7
    <3>8. hits[k].start - f.start >= par.pl => hits[k - 1].win.to <= hits[k].win.from
      BY <2>1, <3>2, <3>6, <3>7, Zenon DEF FoundInAll, FragStart
    <3> QED BY <3>8, Zenon DEF f
  <2>7. ChargeCountedOnce
    BY <2>6, Zenon DEF ChargeCountedOnce
  <2> QED BY <2>5, <2>7, InvPulses, Zenon DEF HitsFound
<1> QED BY <1>1, <1>2, Zenon

LEMMA InvCollection == ASSUME HitRecoInv PROVE CollectionHoldsHits
<1>1. CollOK(Added, coll)
  <2>1. CASE stage = "collect"
    BY <2>1, Zenon DEF HitRecoInv, CollInv
  <2>2. CASE stage # "collect"
    BY <2>2, EmptyOK, Zenon DEF HitRecoInv, StageInv
  <2> QED BY <2>1, <2>2
<1>2. CollectionInOrder
  <2>1. /\ coll.fNch = Len(coll.fHits)
        /\ coll.fHits # <<>> => coll.fNch = coll.fChEnd - coll.fChStart + 1
        /\ coll.fNhits = Len(coll.fHitChCoord)
    BY <1>1, Zenon DEF CollOK
  <2>2. ASSUME NEW k \in DOMAIN coll.fHits
        PROVE  /\ coll.fHits[k].fChId \in {-1, coll.fChStart + k - 1}
               /\ IsInjective(coll.fHits[k].fHits)
               /\ \A h \in Range(coll.fHits[k].fHits) : h.ch = coll.fHits[k].fChId
               /\ \A m \in DOMAIN coll.fHits[k].fHits \ {1} :
                    coll.fHits[k].fHits[m - 1].start <= coll.fHits[k].fHits[m].start
    <3> DEFINE c == coll.fHits[k]
               hs == c.fHits
    <3>1. ChannelOK(coll.fChStart + k - 1, c)
      BY <1>1, Zenon DEF CollOK
    <3>2. c.fChId \in {-1, coll.fChStart + k - 1} /\ IsInjective(hs) /\ InOrder(hs)
          /\ \A m \in DOMAIN hs : Matches(c, hs[m])
      BY <3>1, Zenon DEF ChannelOK
    <3>3. \E H : hs \in Seq(H)
      <4> DEFINE s == coll.fHits
      <4>1. s \in Seq(ChRec(Added))
        BY <1>1, Zenon DEF CollOK
      <4> HIDE DEF s, ChRec
      <4>2. k \in DOMAIN s => s[k] \in ChRec(Added)
        BY <4>1
      <4>3. c \in ChRec(Added)
        BY <4>2, Zenon DEF s
      <4> QED BY <4>3 DEF ChRec
    <3> HIDE DEF hs
    <3>4. \A m \in DOMAIN hs \ {1} : m - 1 \in DOMAIN hs /\ m - 1 <= m
      BY <3>3
    <3>5. \A m \in DOMAIN hs \ {1} : hs[m - 1].start <= hs[m].start
      BY <3>2, <3>4, Zenon DEF InOrder
    <3>6. \A h \in Range(hs) : h.ch = c.fChId
      BY <3>2, Zenon DEF Range, Matches
    <3> QED BY <3>2, <3>5, <3>6, Zenon DEF hs
  <2> QED BY <2>1, <2>2, Zenon DEF CollectionInOrder
<1>3. NothingLost
  <2> SUFFICES ASSUME stage = "collect"
               PROVE  /\ Held(coll) \subseteq Added \ pending /\ Cardinality(Held(coll)) = coll.fNhits
                      /\ \A h \in (Added \ pending) \ Held(coll) : Refused(coll, h)
    BY Zenon DEF NothingLost, Held, Added, Refused
  <2> QED BY Zenon DEF HitRecoInv, CollInv, CollOK
<1> QED BY <1>2, <1>3, Zenon DEF CollectionHoldsHits

LEMMA InvClosest == ASSUME HitRecoInv PROVE ClosestHit
<1> SUFFICES ASSUME NEW k \in DOMAIN coll.fHits, coll.fHits[k].fHits # <<>>, NEW tick \in Recorded
             PROVE  ClosestIn(coll.fHits[k].fHits, tick)
  BY Zenon DEF ClosestHit, ClosestIn
<1>1. stage = "collect"
  <2>1. coll # EmptyCollection
    BY DEF EmptyCollection
  <2> QED BY <2>1, Zenon DEF HitRecoInv, StageInv
<1>2. CollOK(Added, coll) /\ Disjoint(Added) /\ wave \in Waves
  BY <1>1, AddedDisjoint, Zenon DEF HitRecoInv, CollInv, StageInv
<1>3. tick \in Int
  <2>1. DOMAIN wave = 0 .. Size(wave) - 1 /\ WaveOK(wave)
    BY <1>2, WavesOK, Zenon
  <2> QED BY <2>1 DEF Recorded, WaveOK
<1> DEFINE c == coll.fHits[k]
           hs == c.fHits
<1>4. c \in ChRec(Added)
  <2> DEFINE s == coll.fHits
  <2>1. s \in Seq(ChRec(Added)) /\ k \in DOMAIN s
    BY <1>2, Zenon DEF CollOK
  <2> HIDE DEF s, ChRec
  <2>2. s[k] \in ChRec(Added)
    BY <2>1
  <2> QED BY <2>2, Zenon DEF s
<1>5. ChannelOK(coll.fChStart + k - 1, c)
  BY <1>2, Zenon DEF CollOK
<1>6. /\ hs \in Seq(Added)
      /\ \A m \in DOMAIN hs : hs[m].start \in Int /\ hs[m].end \in Int /\ hs[m].start <= hs[m].end
      /\ \A l, m \in DOMAIN hs : l < m => hs[l].end < hs[m].start
  BY <1>2, <1>4, <1>5, ChannelHits, Zenon
<1>7. hs # <<>>
  OBVIOUS
<1> HIDE DEF hs, Added
<1>8. Len(hs) \in Nat /\ Len(hs) # 0 /\ DOMAIN hs = 1 .. Len(hs)
  BY <1>6, <1>7
<1>9. ClosestIn(hs, tick)
  BY <1>3, <1>6, <1>8, ClosestFound, Zenon
<1> QED BY <1>9, Zenon DEF hs

-----------------------------------------------------------------------------
(* The tasks of an event run one after the other, and the display only     *)
(* while no task does: a step of the chain is one of HitReco or leaves its *)
(* variables alone.                                                        *)

(* A step of the chain of tasks is one of this part, or leaves it as it    *)
(* is.                                                                     *)
LEMMA ChainHitStep == [ChainNext]_chainVars => [HitNext]_hitVars
<1> SUFFICES ASSUME [ChainNext]_chainVars PROVE [HitNext]_hitVars
  OBVIOUS
<1>1. CASE RecoNext
  BY <1>1, Zenon DEF RecoNext
<1>2. CASE UNCHANGED recoVars
  BY <1>2 DEF recoVars
<1>3. CASE UNCHANGED chainVars
  BY <1>3 DEF chainVars, recoVars
<1> QED BY <1>1, <1>2, <1>3, Zenon DEF ChainNext

(* The invariant holds in the chain.                                       *)
LEMMA ChainHitRecoInv == ChainSpec => []HitRecoInv
<1>1. ChainInit => HitRecoInv
  BY InitHitRecoInv, Zenon DEF ChainInit, RecoInit
<1>2. HitRecoInv /\ [ChainNext]_chainVars => HitRecoInv'
  BY ChainHitStep, HitNextKeeps, Zenon
<1> QED BY <1>1, <1>2, PTL DEF ChainSpec

(* The pedestal is taken from quiet samples, fragments share no sample,    *)
(* and every sample above the threshold of the regions is in one of them,  *)
(* but for the two losses SignalKept names: for samples, thresholds,       *)
(* paddings and cuts of any number and size.                               *)
(* (lowrecon/inc/RawChDataProcess.h, lowrecon/src/RawChDataProcess.cc)     *)
THEOREM ChainRegionsOfInterest == ChainSpec => []RegionsOfInterest
<1>1. HitRecoInv => RegionsOfInterest
  BY InvRegions
<1> QED BY <1>1, ChainHitRecoInv, PTL

(* The hits of a channel divide its pulses without gap and overlap, each   *)
(* has its highest sample as its peak, and their charge is counted once.   *)
(* (lowrecon/src/AlgoMultiHit.cc)                                          *)
THEOREM ChainHitsFound == ChainSpec => []HitsFound
<1>1. HitRecoInv => HitsFound
  BY InvHits
<1> QED BY <1>1, ChainHitRecoInv, PTL

(* Hits added in any order are held once, in the order of channels and     *)
(* time, but for those of another CRM or view.                             *)
(* (datautils/src/HitCollection.cc)                                        *)
THEOREM ChainCollectionHoldsHits == ChainSpec => []CollectionHoldsHits
<1>1. HitRecoInv => CollectionHoldsHits
  BY InvCollection
<1> QED BY <1>1, ChainHitRecoInv, PTL

(* The search through the hits of a channel returns the one that starts    *)
(* nearest to the tick, unless the tick is before the end of the first.    *)
(* (datautils/src/HitCollection.cc:176)                                    *)
THEOREM ChainClosestHit == ChainSpec => []ClosestHit
<1>1. HitRecoInv => ClosestHit
  BY InvClosest
<1> QED BY <1>1, ChainHitRecoInv, PTL
=============================================================================
