----------------------------- MODULE HitProofs ------------------------------
(***************************************************************************)
(* What the hit finders and the collection of hits compute: regions of     *)
(* interest, their padding, the search for hits in a fragment, their       *)
(* windows, and the order hits are kept in.  Loops over the samples are    *)
(* folds in the model: what holds after every number of them is an         *)
(* invariant of the fold, by FoldTheorems.                                 *)
(***************************************************************************)
EXTENDS HitCollection, RoiFinder, MultiHit, SequenceTheorems, FiniteSetTheorems,
        WellFoundedInduction, TLAPS


-----------------------------------------------------------------------------
(* Adding a hit to a collection (datautils/src/HitCollection.cc)           *)

(* The least number a set of numbers has                                   *)
LEMMA LeastNumber ==
  ASSUME NEW S, S \subseteq Nat, S # {}
  PROVE  \E n \in S : \A m \in S : n <= m
<1>1. PICK n \in S : \A m \in S : ~(<<m, n>> \in OpToRel(<, Nat))
  BY NatLessThanWellFounded, WFMin
<1>2. ASSUME NEW m \in S PROVE n <= m
  <2>1. <<m, n>> \in OpToRel(<, Nat) <=> m < n
    BY Zenon DEF OpToRel
  <2>2. ~(m < n) /\ m \in Nat /\ n \in Nat
    BY <1>1, <2>1
  <2> QED BY <2>2
<1> QED BY <1>1, <1>2

(* The least of a set of numbers is in it.                                 *)
LEMMA MinIsLeast ==
  ASSUME NEW S, S \subseteq Nat, S # {}
  PROVE  Min(S) \in S /\ \A m \in S : Min(S) <= m
BY LeastNumber, Zenon DEF Min

(* The greater and the smaller of two numbers.                             *)
LEMMA MaxOfTwo ==
  ASSUME NEW a \in Int, NEW b \in Int
  PROVE  /\ Max({a, b}) = IF a >= b THEN a ELSE b
         /\ Min({a, b}) = IF a <= b THEN a ELSE b
<1> DEFINE m == IF a >= b THEN a ELSE b
           l == IF a <= b THEN a ELSE b
<1>1. m \in {a, b} /\ \A y \in {a, b} : m >= y
  BY SMT
<1>2. l \in {a, b} /\ \A y \in {a, b} : l <= y
  BY SMT
<1>3. Max({a, b}) \in {a, b} /\ \A y \in {a, b} : Max({a, b}) >= y
  BY <1>1, Zenon DEF Max
<1>4. Min({a, b}) \in {a, b} /\ \A y \in {a, b} : Min({a, b}) <= y
  BY <1>2, Zenon DEF Min
<1> QED BY <1>3, <1>4, SMT

-----------------------------------------------------------------------------
(* What the proofs need of a hit                                           *)
HitOK(h) == h.ch \in Nat /\ h.crm \in Int /\ h.view \in Int /\ h.start \in Int

(* The hits a collection holds.                                            *)
Held(coll) == UNION {Range(coll.fHits[k].fHits) : k \in DOMAIN coll.fHits}

(* The hits of a channel, as a collection keeps them.                      *)
ChRec(H) == [fCrmId : Int, fView : Int, fChId : Int, fHits : Seq(H),
             fHitsMap : UNION {[T -> H] : T \in SUBSET Int}]

(* Hits in the order of their first samples.                               *)
InOrder(hits) == \A m, n \in DOMAIN hits : m <= n => hits[m].start <= hits[n].start

(* What is true of the hits at the place of channel ch.                    *)
ChannelOK(ch, c) ==
  /\ c.fChId \in {-1, ch}
  /\ c.fChId = -1 <=> c.fHits = <<>>
  /\ \A m \in DOMAIN c.fHits : Matches(c, c.fHits[m])
  /\ InOrder(c.fHits)
  /\ IsInjective(c.fHits)

(* What is true of a collection of hits of H: the block of channels is as  *)
(* long as it says, each channel has its own hits, in order and once, and  *)
(* all are counted.                                                        *)
CollOK(H, coll) ==
  /\ coll \in [fHits : Seq(ChRec(H)), fChStart : Int, fChEnd : Int, fNch : Int,
               fNhits : Int, fHitChCoord : Seq(Int \X Int)]
  /\ coll.fNch = Len(coll.fHits)
  /\ coll.fNhits = Len(coll.fHitChCoord)
  /\ coll.fHits # <<>> => coll.fNch = coll.fChEnd - coll.fChStart + 1
  /\ coll.fHits # <<>> => coll.fChStart \in Nat
  /\ \A k \in DOMAIN coll.fHits : ChannelOK(coll.fChStart + k - 1, coll.fHits[k])
  /\ IsFiniteSet(Held(coll)) /\ Cardinality(Held(coll)) = coll.fNhits

(* An empty collection is one.                                             *)
LEMMA EmptyOK == ASSUME NEW H PROVE CollOK(H, EmptyCollection) /\ Held(EmptyCollection) = {}
<1> DEFINE e == EmptyCollection
<1>1. e.fHits = <<>> /\ e.fChStart = -1 /\ e.fChEnd = -1 /\ e.fNch = 0 /\ e.fNhits = 0 /\ e.fHitChCoord = <<>>
  BY DEF EmptyCollection
<1>2. e \in [fHits : Seq(ChRec(H)), fChStart : Int, fChEnd : Int, fNch : Int,
               fNhits : Int, fHitChCoord : Seq(Int \X Int)]
  BY DEF EmptyCollection
<1>3. DOMAIN e.fHits = {}
  BY <1>1
<1>4. Held(e) = {}
  BY <1>3, Zenon DEF Held
<1> HIDE DEF e
<1>5. CollOK(H, e)
  BY <1>1, <1>2, <1>3, <1>4, FS_EmptySet DEF CollOK
<1> QED BY <1>4, <1>5 DEF e

(* Where a hit goes among those of its channel                             *)
LEMMA InsertHitForm ==
  ASSUME NEW H, \A x \in H : HitOK(x), NEW s \in Seq(H), s # <<>>, InOrder(s), NEW h \in H
  PROVE  LET t == InsertHit(s, h) IN
         /\ t \in Seq(H) /\ Len(t) = Len(s) + 1
         /\ \E p \in 1 .. Len(s) + 1 :
              /\ \A i \in 1 .. Len(s) + 1 :
                    t[i] = IF i < p THEN s[i] ELSE IF i = p THEN h ELSE s[i - 1]
              /\ \A i \in 1 .. Len(s) : i < p => s[i].start < h.start
              /\ \A i \in 1 .. Len(s) : i >= p => s[i].start >= h.start
<1> DEFINE t == InsertHit(s, h)
           n == Len(s)
<1>0. n \in Nat /\ n > 0 /\ DOMAIN s = 1 .. n /\ \A i \in 1 .. n : s[i] \in H
  OBVIOUS
<1>1. \A i \in 1 .. n : s[i].start \in Int
  BY <1>0 DEF HitOK
<1>2. h.start \in Int
  BY DEF HitOK
<1>3. CASE Last(s).start < h.start
  <2>1. t = Append(s, h)
    BY <1>3 DEF InsertHit
  <2>2. s[n].start < h.start
    BY <1>3 DEF Last
  <2>3. \A i \in 1 .. n : s[i].start < h.start
    BY <1>0, <1>1, <1>2, <2>2 DEF InOrder
  <2>4. t \in Seq(H) /\ Len(t) = n + 1 /\ \A i \in 1 .. n + 1 : t[i] = IF i < n + 1 THEN s[i] ELSE h
    BY <2>1
  <2>5. n + 1 \in 1 .. n + 1
    BY <1>0
  <2> HIDE DEF t
  <2>6. \A i \in 1 .. n + 1 : t[i] = IF i < n + 1 THEN s[i] ELSE IF i = n + 1 THEN h ELSE s[i - 1]
    BY <1>0, <2>4
  <2>7. \A i \in 1 .. n : i < n + 1 /\ ~(i >= n + 1)
    BY <1>0
  <2> QED BY <2>3, <2>4, <2>5, <2>6, <2>7 DEF t
<1>4. CASE ~(Last(s).start < h.start)
  <2> DEFINE K == {k \in DOMAIN s : s[k].start >= h.start}
             p == Min(K)
  <2>1. n \in K
    BY <1>0, <1>1, <1>2, <1>4 DEF Last
  <2>2. K \subseteq Nat
    BY <1>0
  <2>3. p \in K /\ \A m \in K : p <= m
    BY <2>1, <2>2, MinIsLeast
  <2>4. p \in 1 .. n /\ s[p].start >= h.start
    BY <1>0, <2>3
  <2>5. ASSUME NEW i \in 1 .. n, i < p PROVE s[i].start < h.start
    <3>1. ~(p <= i)
      BY <2>4, <2>5
    <3>2. i \notin K
      BY <2>3, <3>1, Zenon
    <3>3. ~(s[i].start >= h.start)
      BY <1>0, <3>2, Zenon
    <3> QED BY <1>1, <1>2, <3>3
  <2>6. \A i \in 1 .. n : i >= p => s[i].start >= h.start
    <3>1. SUFFICES ASSUME NEW i \in 1 .. n, i >= p PROVE s[i].start >= h.start
      OBVIOUS
    <3>2. s[p].start <= s[i].start
      BY <1>0, <2>4, <3>1 DEF InOrder
    <3> QED BY <1>1, <1>2, <2>4, <3>2
  <2>7. t = SubSeq(s, 1, p - 1) \o <<h>> \o SubSeq(s, p, n)
    BY <1>4, Zenon DEF InsertHit, InsertAt
  <2> HIDE DEF p, K, t
  <2>8. /\ SubSeq(s, 1, p - 1) \in Seq(H) /\ Len(SubSeq(s, 1, p - 1)) = p - 1
        /\ \A i \in 1 .. p - 1 : SubSeq(s, 1, p - 1)[i] = s[i]
        /\ SubSeq(s, p, n) \in Seq(H) /\ Len(SubSeq(s, p, n)) = n - p + 1
        /\ \A i \in 1 .. n - p + 1 : SubSeq(s, p, n)[i] = s[p + i - 1]
    BY <1>0, <2>4
  <2> DEFINE a == SubSeq(s, 1, p - 1)
             b == SubSeq(s, p, n)
  <2> HIDE DEF a, b
  <2>9. a \in Seq(H) /\ b \in Seq(H) /\ Len(a) = p - 1 /\ Len(b) = n - p + 1 /\ t = a \o <<h>> \o b
    BY <2>7, <2>8 DEF a, b
  <2> DEFINE c == a \o <<h>>
  <2>15. c \in Seq(H) /\ Len(c) = p /\ \A i \in 1 .. p : c[i] = IF i < p THEN a[i] ELSE h
    BY <1>0, <2>4, <2>9
  <2> HIDE DEF c
  <2>16. t = c \o b
    BY <2>9 DEF c
  <2>18. c \in Seq(H) /\ b \in Seq(H) /\ Len(c) = p /\ Len(b) = n - p + 1
    BY <2>9, <2>15
  <2>10. t \in Seq(H) /\ Len(t) = n + 1
    <3>1. t \in Seq(H) /\ Len(t) = Len(c) + Len(b)
      BY <2>16, <2>18, ConcatProperties, Zenon
    <3> QED BY <1>0, <2>4, <2>18, <3>1
  <2>17. \A i \in 1 .. n + 1 : t[i] = IF i <= p THEN c[i] ELSE b[i - p]
    BY <1>0, <2>4, <2>9, <2>15, <2>16
  <2>11. \A i \in 1 .. n + 1 : t[i] = IF i < p THEN a[i] ELSE IF i = p THEN h ELSE b[i - p]
    <3>1. SUFFICES ASSUME NEW i \in 1 .. n + 1
                   PROVE  t[i] = IF i < p THEN a[i] ELSE IF i = p THEN h ELSE b[i - p]
      OBVIOUS
    <3>2. i <= p => i \in 1 .. p /\ t[i] = c[i] /\ c[i] = IF i < p THEN a[i] ELSE h
      BY <2>4, <2>15, <2>17
    <3>3. ~(i <= p) => t[i] = b[i - p]
      BY <2>17
    <3> QED BY <2>4, <3>2, <3>3
  <2>12. \A i \in 1 .. p - 1 : a[i] = s[i]
    BY <2>8 DEF a
  <2>13. \A i \in 1 .. n - p + 1 : b[i] = s[p + i - 1]
    BY <2>8 DEF b
  <2>14. ASSUME NEW i \in 1 .. n + 1
         PROVE  t[i] = IF i < p THEN s[i] ELSE IF i = p THEN h ELSE s[i - 1]
    <3>1. CASE i < p
      BY <2>4, <2>11, <2>12, <3>1
    <3>2. CASE i = p
      BY <2>4, <2>11, <3>2
    <3>3. CASE i > p
      <4>1. i - p \in 1 .. n - p + 1 /\ p + (i - p) - 1 = i - 1
        BY <1>0, <2>4, <3>3
      <4>2. t[i] = b[i - p]
        BY <2>4, <2>11, <3>3
      <4> QED BY <2>4, <2>13, <3>3, <4>1, <4>2, SMTT(40)
    <3> QED BY <2>4, <3>1, <3>2, <3>3
  <2> QED BY <1>0, <2>4, <2>5, <2>6, <2>10, <2>14 DEF t
<1> QED BY <1>3, <1>4

(* A hit put among those of its channel keeps them in order.               *)
LEMMA InsertHitOK ==
  ASSUME NEW H, \A x \in H : HitOK(x), NEW s \in Seq(H), s # <<>>, InOrder(s), IsInjective(s),
         NEW h \in H, h \notin Range(s)
  PROVE  LET t == InsertHit(s, h) IN
         /\ t \in Seq(H) /\ t # <<>> /\ InOrder(t) /\ IsInjective(t)
         /\ Range(t) = Range(s) \cup {h}
<1> DEFINE t == InsertHit(s, h)
           n == Len(s)
<1>0. n \in Nat /\ n > 0 /\ DOMAIN s = 1 .. n /\ \A i \in 1 .. n : s[i] \in H
  OBVIOUS
<1>1. \A i \in 1 .. n : s[i].start \in Int /\ s[i] # h
  BY <1>0 DEF HitOK, Range
<1>2. h.start \in Int
  BY DEF HitOK
<1>3. /\ t \in Seq(H) /\ Len(t) = n + 1
      /\ \E p \in 1 .. n + 1 :
              /\ \A i \in 1 .. n + 1 :
                    t[i] = IF i < p THEN s[i] ELSE IF i = p THEN h ELSE s[i - 1]
              /\ \A i \in 1 .. n : i < p => s[i].start < h.start
              /\ \A i \in 1 .. n : i >= p => s[i].start >= h.start
  BY InsertHitForm
<1> HIDE DEF t
<1>4. PICK p \in 1 .. n + 1 :
              /\ \A i \in 1 .. n + 1 :
                    t[i] = IF i < p THEN s[i] ELSE IF i = p THEN h ELSE s[i - 1]
              /\ \A i \in 1 .. n : i < p => s[i].start < h.start
              /\ \A i \in 1 .. n : i >= p => s[i].start >= h.start
  BY <1>3
<1>5. DOMAIN t = 1 .. n + 1 /\ t # <<>>
  BY <1>0, <1>3
<1>6. ASSUME NEW i \in 1 .. n + 1
      PROVE  /\ i < p => i \in 1 .. n /\ t[i] = s[i]
             /\ i = p => t[i] = h
             /\ i > p => i - 1 \in 1 .. n /\ t[i] = s[i - 1] /\ i - 1 >= p
  BY <1>0, <1>4
<1>7. InOrder(t)
  <2>1. SUFFICES ASSUME NEW i \in 1 .. n + 1, NEW j \in 1 .. n + 1, i <= j
                 PROVE  t[i].start <= t[j].start
    BY <1>5 DEF InOrder
  <2>2. \A a, b \in 1 .. n : a <= b => s[a].start <= s[b].start
    BY <1>0 DEF InOrder
  <2>3. CASE i < p /\ j < p
    BY <1>6, <2>1, <2>2, <2>3
  <2>4. CASE i < p /\ j = p
    BY <1>1, <1>2, <1>4, <1>6, <2>4
  <2>5. CASE i < p /\ j > p
    <3>1. s[i].start < h.start /\ s[j - 1].start >= h.start
      BY <1>4, <1>6, <2>5
    <3> QED BY <1>1, <1>2, <1>6, <2>5, <3>1
  <2>6. CASE i = p /\ j = p
    BY <1>1, <1>2, <1>6, <2>6
  <2>7. CASE i = p /\ j > p
    BY <1>1, <1>2, <1>4, <1>6, <2>7
  <2>8. CASE i > p /\ j > p
    <3>1. i - 1 <= j - 1
      BY <2>1
    <3> QED BY <1>6, <2>2, <2>8, <3>1
  <2> QED BY <1>4, <2>1, <2>3, <2>4, <2>5, <2>6, <2>7, <2>8
<1>8. IsInjective(t)
  <2>1. SUFFICES ASSUME NEW i \in 1 .. n + 1, NEW j \in 1 .. n + 1, t[i] = t[j]
                 PROVE  i = j
    BY <1>5, Zenon DEF IsInjective
  <2>2. \A a, b \in 1 .. n : s[a] = s[b] => a = b
    BY <1>0, Zenon DEF IsInjective
  <2>3. CASE i < p /\ j < p
    BY <1>6, <2>1, <2>2, <2>3
  <2>4. CASE i = p \/ j = p
    BY <1>1, <1>4, <1>6, <2>1, <2>4
  <2>5. CASE i > p /\ j > p
    BY <1>6, <2>1, <2>2, <2>5
  <2>6. CASE i < p /\ j > p
    <3>1. i = j - 1 /\ j - 1 >= p
      BY <1>6, <2>1, <2>2, <2>6
    <3> QED BY <1>4, <2>6, <3>1
  <2>7. CASE i > p /\ j < p
    <3>1. j = i - 1 /\ i - 1 >= p
      BY <1>6, <2>1, <2>2, <2>7
    <3> QED BY <1>4, <2>7, <3>1
  <2> QED BY <1>4, <2>3, <2>4, <2>5, <2>6, <2>7
<1>9. Range(t) = Range(s) \cup {h}
  <2>1. ASSUME NEW x \in Range(t) PROVE x \in Range(s) \cup {h}
    BY <1>0, <1>4, <1>5, <1>6, <2>1 DEF Range
  <2>2. ASSUME NEW x \in Range(s) PROVE x \in Range(t)
    <3>1. PICK i \in 1 .. n : x = s[i]
      BY <1>0 DEF Range
    <3>2. CASE i < p
      <4>1. i \in 1 .. n + 1 /\ t[i] = s[i]
        BY <1>0, <1>6, <3>2
      <4> QED BY <1>5, <3>1, <4>1, Zenon DEF Range
    <3>3. CASE i >= p
      <4>1. i + 1 \in 1 .. n + 1 /\ i + 1 > p /\ i + 1 - 1 = i
        BY <1>0, <1>4, <3>3
      <4>2. t[i + 1] = s[i]
        BY <1>6, <4>1
      <4> QED BY <1>5, <3>1, <4>1, <4>2, Zenon DEF Range
    <3> QED BY <1>4, <3>2, <3>3
  <2>3. h \in Range(t)
    BY <1>4, <1>5, <1>6, Zenon DEF Range
  <2> QED BY <2>1, <2>2, <2>3
<1> QED BY <1>3, <1>5, <1>7, <1>8, <1>9 DEF t

(* A channel without hits, wherever it is in the block.                    *)
LEMMA NoHitsTyped == ASSUME NEW H PROVE NoHits \in ChRec(H) /\ \A ch \in Int : ChannelOK(ch, NoHits)
<1>1. <<>> \in [{} -> H]
  <2>1. <<>> \in Seq(H) /\ Len(<<>>) = 0
    BY EmptySeq
  <2>2. <<>> \in [1 .. 0 -> H]
    BY <2>1, LenProperties, Zenon
  <2>3. 1 .. 0 = {}
    BY SMT
  <2> QED BY <2>2, <2>3, Zenon
<1>2. {} \in SUBSET Int
  OBVIOUS
<1>3. <<>> \in UNION {[T -> H] : T \in SUBSET Int}
  BY <1>1, <1>2, Zenon
<1>4. <<>> \in Seq(H) /\ -1 \in Int
  BY EmptySeq
<1>5. /\ NoHits = [fCrmId |-> -1, fView |-> -1, fChId |-> -1, fHits |-> <<>>, fHitsMap |-> <<>>]
      /\ NoHits.fChId = -1 /\ NoHits.fHits = <<>>
  BY DEF NoHits
<1>6. NoHits \in ChRec(H)
  BY <1>3, <1>4, <1>5, Zenon DEF ChRec
<1>7. DOMAIN NoHits.fHits = {}
  BY <1>5
<1>8. InOrder(NoHits.fHits) /\ IsInjective(NoHits.fHits)
  BY <1>7, Zenon DEF InOrder, IsInjective
<1>9. \A ch \in Int : ChannelOK(ch, NoHits)
  BY <1>5, <1>7, <1>8, Zenon DEF ChannelOK
<1> QED BY <1>6, <1>9

(* Channels without hits, as many as the block grows by                    *)
LEMMA EmptiesForm ==
  ASSUME NEW H, NEW n \in Int
  PROVE  /\ Empties(n) \in Seq(ChRec(H))
         /\ Len(Empties(n)) = IF n >= 0 THEN n ELSE 0
         /\ \A k \in DOMAIN Empties(n) : Empties(n)[k] = NoHits
<1>1. Max({n, 0}) = IF n >= 0 THEN n ELSE 0
  BY MaxOfTwo
<1> DEFINE m == Max({n, 0})
<1>2. m \in Nat /\ m = IF n >= 0 THEN n ELSE 0
  BY <1>1
<1>3. Empties(n) = [k \in 1 .. m |-> NoHits]
  BY Zenon DEF Empties
<1> HIDE DEF m
<1> DEFINE e == [k \in 1 .. m |-> NoHits]
<1>4. NoHits \in ChRec(H)
  BY NoHitsTyped
<1>5. e \in Seq(ChRec(H)) /\ Len(e) = m /\ DOMAIN e = 1 .. m /\ \A k \in DOMAIN e : e[k] = NoHits
  <2> HIDE DEF NoHits
  <2> QED BY <1>2, <1>4
<1> QED BY <1>2, <1>3, <1>5, Zenon

(* What the block grown to take in channel ch looks like.                    *)
BlockIs(H, coll, ch, b) ==
  /\ b.start \in Nat /\ b.end \in Int /\ ch \in b.start .. b.end
  /\ b.chs \in Seq(ChRec(H)) /\ Len(b.chs) = b.end - b.start + 1
  /\ \A j \in DOMAIN coll.fHits :
       /\ coll.fChStart + j - b.start \in DOMAIN b.chs
       /\ b.chs[coll.fChStart + j - b.start] = coll.fHits[j]
  /\ \A k \in DOMAIN b.chs :
       b.chs[k] = NoHits \/ \E j \in DOMAIN coll.fHits : k = coll.fChStart + j - b.start

(* The block grown to take in channel ch has it, and every channel that    *)
(* was in it, with the hits it had.                                        *)
LEMMA BlockForm ==
  ASSUME NEW H, NEW coll, CollOK(H, coll), NEW ch \in Nat
  PROVE  BlockIs(H, coll, ch, Block(coll, ch))
<1> DEFINE b == Block(coll, ch)
           lo == coll.fChStart
           hi == coll.fChEnd
           s == coll.fHits
           n == Len(s)
<1> SUFFICES /\ b.start \in Nat /\ b.end \in Int /\ ch \in b.start .. b.end
             /\ b.chs \in Seq(ChRec(H)) /\ Len(b.chs) = b.end - b.start + 1
             /\ \A j \in DOMAIN coll.fHits :
                  /\ coll.fChStart + j - b.start \in DOMAIN b.chs
                  /\ b.chs[coll.fChStart + j - b.start] = coll.fHits[j]
             /\ \A k \in DOMAIN b.chs :
                  b.chs[k] = NoHits \/ \E j \in DOMAIN coll.fHits : k = coll.fChStart + j - b.start
  BY Zenon DEF BlockIs
<1>0. s \in Seq(ChRec(H)) /\ n \in Nat /\ DOMAIN s = 1 .. n /\ lo \in Int /\ hi \in Int
  BY DEF CollOK
<1>1. CASE s = <<>>
  <2>1. b.start = ch /\ b.end = ch /\ b.chs = <<NoHits>>
    BY <1>1 DEF Block
  <2>2. DOMAIN s = {}
    BY <1>1
  <2>3. NoHits \in ChRec(H)
    BY NoHitsTyped
  <2> HIDE DEF b
  <2>4. b.chs \in Seq(ChRec(H)) /\ Len(b.chs) = 1 /\ \A k \in DOMAIN b.chs : b.chs[k] = NoHits
    <3> HIDE DEF NoHits
    <3> QED BY <2>1, <2>3
  <2>5. Len(b.chs) = b.end - b.start + 1 /\ b.start \in Nat /\ b.end \in Int /\ ch \in b.start .. b.end
    BY <2>1, <2>4
  <2> QED BY <2>2, <2>4, <2>5 DEF b
<1>2. CASE s # <<>>
  <2>1. n = hi - lo + 1 /\ lo \in Nat
    BY <1>2 DEF CollOK
  <2>2. /\ b.start = IF lo <= ch THEN lo ELSE ch
        /\ b.end = IF hi >= ch THEN hi ELSE ch
    <3>1. b.start = Min({lo, ch}) /\ b.end = Max({hi, ch})
      BY <1>2 DEF Block
    <3>4. lo \in Int /\ hi \in Int /\ ch \in Int
      BY <1>0
    <3>2. Min({lo, ch}) = (IF lo <= ch THEN lo ELSE ch)
      BY <3>4, MaxOfTwo, Zenon
    <3>3. Max({hi, ch}) = (IF hi >= ch THEN hi ELSE ch)
      BY <3>4, MaxOfTwo, Zenon
    <3> QED BY <3>1, <3>2, <3>3, Zenon
  <2> DEFINE e1 == Empties(lo - ch)
             e2 == Empties(ch - hi)
  <2>3. b.chs = e1 \o s \o e2
    BY <1>2 DEF Block
  <2>4. /\ e1 \in Seq(ChRec(H)) /\ Len(e1) = (IF lo - ch >= 0 THEN lo - ch ELSE 0)
        /\ \A k \in DOMAIN e1 : e1[k] = NoHits
    <3>1. lo - ch \in Int
      BY <1>0
    <3> QED BY <3>1, EmptiesForm
  <2>5. /\ e2 \in Seq(ChRec(H)) /\ Len(e2) = (IF ch - hi >= 0 THEN ch - hi ELSE 0)
        /\ \A k \in DOMAIN e2 : e2[k] = NoHits
    <3>1. ch - hi \in Int
      BY <1>0
    <3> QED BY <3>1, EmptiesForm
  <2> DEFINE l1 == Len(e1)
             l2 == Len(e2)
             f == e1 \o s
  <2> HIDE DEF e1, e2, b, lo, hi, n
  <2>6. l1 = lo - b.start /\ l2 = b.end - hi /\ l1 \in Nat /\ l2 \in Nat /\ b.start \in Nat /\ b.end \in Int
    BY <1>0, <2>1, <2>2, <2>4, <2>5
  <2>7. /\ f \in Seq(ChRec(H)) /\ Len(f) = l1 + n
        /\ \A i \in 1 .. l1 + n : f[i] = IF i <= l1 THEN e1[i] ELSE s[i - l1]
    <3>1. Len(s) = n
      BY DEF n
    <3> QED BY <1>0, <2>4, <3>1, ConcatProperties, Zenon
  <2>15. e2 \in Seq(ChRec(H)) /\ Len(e2) = l2
    BY <2>5
  <2>16. Len(e1) = l1
    OBVIOUS
  <2> HIDE DEF f, l1, l2
  <2>18. f \in Seq(ChRec(H)) /\ Len(f) = l1 + n /\ n \in Nat /\ lo \in Int
    BY <1>0, <2>7
  <2>20. Len(f) = l1 + n /\ n \in Nat /\ l1 \in Nat /\ l2 \in Nat
    BY <2>6, <2>18
  <2>21. \A j \in Int : lo + j - b.start = l1 + j
    BY <2>6, <2>18
  <2>8. /\ b.chs \in Seq(ChRec(H)) /\ Len(b.chs) = Len(f) + l2
        /\ \A i \in 1 .. Len(f) + l2 : b.chs[i] = IF i <= Len(f) THEN f[i] ELSE e2[i - Len(f)]
    <3>1. b.chs = f \o e2
      BY <2>3 DEF f
    <3>2. /\ b.chs \in Seq(ChRec(H)) /\ Len(b.chs) = Len(f) + Len(e2)
          /\ \A i \in 1 .. Len(f) + Len(e2) : b.chs[i] = IF i <= Len(f) THEN f[i] ELSE e2[i - Len(f)]
      <4>1. f \in Seq(ChRec(H)) /\ e2 \in Seq(ChRec(H))
        BY <2>15, <2>18
      <4> QED BY <3>1, <4>1, ConcatProperties, ZenonT(60)
    <3>3. Len(e2) = l2
      BY <2>15
    <3> QED BY <3>2, <3>3, Zenon
  <2>17. Len(b.chs) = l1 + n + l2
    BY <2>8, <2>20
  <2>9. DOMAIN b.chs = 1 .. l1 + n + l2
    BY <2>8, <2>17
  <2>10. Len(b.chs) = b.end - b.start + 1 /\ b.start \in Nat /\ b.end \in Int /\ ch \in b.start .. b.end
    BY <1>0, <2>1, <2>2, <2>6, <2>17
  <2>11. DOMAIN e1 = 1 .. l1 /\ DOMAIN e2 = 1 .. l2
    BY <2>4, <2>15, <2>16
  <2>12. ASSUME NEW j \in 1 .. n
         PROVE  lo + j - b.start \in DOMAIN b.chs /\ b.chs[lo + j - b.start] = s[j]
    <3>1. lo + j - b.start = l1 + j /\ l1 + j \in 1 .. l1 + n /\ ~(l1 + j <= l1) /\ (l1 + j) - l1 = j
      <4>1. j \in Int /\ l1 + j \in 1 .. l1 + n /\ ~(l1 + j <= l1) /\ (l1 + j) - l1 = j
        BY <2>20
      <4> QED BY <2>21, <4>1, Zenon
    <3>2. f[l1 + j] = s[j]
      BY <2>7, <3>1
    <3>3. l1 + j \in 1 .. Len(f) + l2 /\ l1 + j <= Len(f)
      BY <2>20, <3>1
    <3>4. b.chs[l1 + j] = f[l1 + j]
      BY <2>8, <3>3
    <3>5. l1 + j \in DOMAIN b.chs
      <4>1. l1 + j \in 1 .. l1 + n + l2
        BY <2>20, <3>1
      <4> QED BY <2>9, <4>1, Zenon
    <3> QED BY <3>1, <3>2, <3>4, <3>5, Zenon
  <2>13. ASSUME NEW k \in DOMAIN b.chs
         PROVE  b.chs[k] = NoHits \/ \E j \in DOMAIN s : k = lo + j - b.start
    <3>1. k \in 1 .. l1 + n + l2 /\ k \in 1 .. Len(f) + l2
      BY <2>9, <2>20
    <3>2. CASE k <= l1
      <4>1. k \in 1 .. l1 + n /\ k <= Len(f) /\ k \in 1 .. l1
        BY <2>20, <3>1, <3>2
      <4>2. b.chs[k] = f[k] /\ f[k] = e1[k]
        BY <2>7, <2>8, <3>1, <3>2, <4>1
      <4> QED BY <2>4, <2>11, <4>1, <4>2, Zenon
    <3>3. CASE k > l1 /\ k <= l1 + n
      <4>1. k - l1 \in DOMAIN s /\ k = lo + (k - l1) - b.start
        <5>1. k - l1 \in 1 .. n /\ k - l1 \in Int /\ l1 + (k - l1) = k
          BY <2>20, <3>1, <3>3
        <5> QED BY <1>0, <2>21, <5>1, Zenon DEF n
      <4> QED BY <4>1, Zenon
    <3>4. CASE k > l1 + n
      <4>1. ~(k <= Len(f)) /\ k - Len(f) \in 1 .. l2
        BY <2>20, <3>1, <3>4
      <4>2. b.chs[k] = e2[k - Len(f)]
        BY <2>8, <3>1, <4>1
      <4> QED BY <2>5, <2>11, <4>1, <4>2, Zenon
    <3> QED BY <2>20, <3>1, <3>2, <3>3, <3>4
  <2> QED BY <1>0, <2>8, <2>10, <2>12, <2>13, Zenon DEF b, lo
<1> QED BY <1>1, <1>2

(* A map of hits stays one when a hit is put in.                           *)
LEMMA WithHitTyped ==
  ASSUME NEW H, \A x \in H : HitOK(x), NEW h \in H,
         NEW map \in UNION {[T -> H] : T \in SUBSET Int}
  PROVE  WithHit(map, h) \in UNION {[T -> H] : T \in SUBSET Int}
<1>1. PICK T \in SUBSET Int : map \in [T -> H]
  OBVIOUS
<1>2. h.start \in Int /\ DOMAIN map = T
  BY <1>1 DEF HitOK
<1> DEFINE T2 == T \cup {h.start}
<1>3. T2 \in SUBSET Int
  BY <1>2
<1>4. WithHit(map, h) = [t \in T2 |-> IF t = h.start THEN h ELSE map[t]]
  BY <1>2 DEF WithHit
<1>5. \A t \in T2 : (IF t = h.start THEN h ELSE map[t]) \in H
  BY <1>1
<1>6. WithHit(map, h) \in [T2 -> H]
  BY <1>4, <1>5, Zenon
<1> QED BY <1>3, <1>6, Zenon

(* A hit of the channel is put among the others.                           *)
LEMMA ChAddHitOK ==
  ASSUME NEW H, \A x \in H : HitOK(x), NEW h \in H, NEW c \in ChRec(H),
         ChannelOK(h.ch, c), c.fChId = -1 \/ Matches(c, h), h \notin Range(c.fHits)
  PROVE  LET d == ChAddHit(c, h)
         IN  /\ d \in ChRec(H) /\ ChannelOK(h.ch, d) /\ d.fChId = h.ch
             /\ Range(d.fHits) = Range(c.fHits) \cup {h}
             /\ c.fChId # -1 => d.fCrmId = c.fCrmId /\ d.fView = c.fView
<1> DEFINE d == ChAddHit(c, h)
           M == UNION {[T -> H] : T \in SUBSET Int}
<1>0. HitOK(h) /\ h.ch \in Nat /\ h.ch # -1 /\ h.crm \in Int /\ h.view \in Int /\ h.start \in Int
  BY DEF HitOK
<1>1. CASE c.fChId = -1
  <2>1. d = [fCrmId |-> h.crm, fView |-> h.view, fChId |-> h.ch,
             fHits |-> <<h>>, fHitsMap |-> WithHit(<<>>, h)]
    BY <1>1 DEF ChAddHit
  <2>2. c.fHits = <<>>
    BY <1>1, Zenon DEF ChannelOK
  <2>3. <<>> \in M
    BY NoHitsTyped, Zenon DEF NoHits, ChRec
  <2>4. WithHit(<<>>, h) \in M
    BY <2>3, WithHitTyped, Zenon
  <2>5. <<h>> \in Seq(H) /\ Len(<<h>>) = 1 /\ DOMAIN <<h>> = {1} /\ <<h>>[1] = h
    OBVIOUS
  <2>6. d \in ChRec(H)
    <3>1. h.ch \in Int
      BY <1>0
    <3> HIDE DEF M, d
    <3>2. WithHit(<<>>, h) \in UNION {[T -> H] : T \in SUBSET Int}
      BY <2>4, Zenon DEF M
    <3> QED BY <1>0, <2>1, <2>5, <3>1, <3>2, Zenon DEF ChRec
  <2> HIDE DEF d, M
  <2>7. d.fHits = <<h>> /\ d.fChId = h.ch /\ d.fCrmId = h.crm /\ d.fView = h.view
    BY <2>1
  <2>8. DOMAIN d.fHits = {1} /\ d.fHits[1] = h
    BY <2>5, <2>7, Zenon
  <2>9. InOrder(d.fHits) /\ IsInjective(d.fHits)
    <3>1. h.start <= h.start
      BY <1>0
    <3> QED BY <2>8, <3>1, Zenon DEF InOrder, IsInjective
  <2>10. ChannelOK(h.ch, d)
    <3>1. d.fHits # <<>>
      BY <2>7
    <3>2. d.fChId # -1
      BY <1>0, <2>7
    <3>3. Matches(d, h)
      BY <2>7, Zenon DEF Matches
    <3>4. \A m \in DOMAIN d.fHits : Matches(d, d.fHits[m])
      BY <2>8, <3>3, Zenon
    <3> QED BY <2>7, <2>9, <3>1, <3>2, <3>4, Zenon DEF ChannelOK
  <2>11. Range(d.fHits) = {h}
    BY <2>8, Zenon DEF Range
  <2>12. Range(c.fHits) = {}
    <3>1. DOMAIN c.fHits = {}
      BY <2>2
    <3> QED BY <3>1, Zenon DEF Range
  <2>13. Range(d.fHits) = Range(c.fHits) \cup {h}
    BY <2>11, <2>12, Zenon
  <2> QED BY <1>1, <2>6, <2>7, <2>10, <2>13, Zenon DEF d
<1>2. CASE c.fChId # -1
  <2> DEFINE t == InsertHit(c.fHits, h)
  <2>1. d = [c EXCEPT !.fHits = t, !.fHitsMap = WithHit(c.fHitsMap, h)]
    BY <1>2, Zenon DEF ChAddHit
  <2>2. c.fHits \in Seq(H) /\ c.fHits # <<>> /\ InOrder(c.fHits) /\ IsInjective(c.fHits) /\ c.fHitsMap \in M
    BY <1>2 DEF ChannelOK, ChRec
  <2>3. t \in Seq(H) /\ t # <<>> /\ InOrder(t) /\ IsInjective(t) /\ Range(t) = Range(c.fHits) \cup {h}
    BY <2>2, InsertHitOK
  <2>4. WithHit(c.fHitsMap, h) \in M
    BY <2>2, WithHitTyped, Zenon
  <2> HIDE DEF t, d, M
  <2>5. /\ d.fHits = t /\ d.fHitsMap = WithHit(c.fHitsMap, h) /\ d.fChId = c.fChId
        /\ d.fCrmId = c.fCrmId /\ d.fView = c.fView
    BY <2>1 DEF ChRec
  <2>6. d \in ChRec(H)
    <3>1. c.fCrmId \in Int /\ c.fView \in Int /\ c.fChId \in Int
      BY DEF ChRec
    <3>2. d = [fCrmId |-> c.fCrmId, fView |-> c.fView, fChId |-> c.fChId, fHits |-> t,
               fHitsMap |-> WithHit(c.fHitsMap, h)]
      BY <2>1 DEF ChRec
    <3>3. WithHit(c.fHitsMap, h) \in UNION {[T -> H] : T \in SUBSET Int}
      BY <2>4, Zenon DEF M
    <3> QED BY <2>3, <3>1, <3>2, <3>3, Zenon DEF ChRec
  <2>7. c.fChId = h.ch /\ Matches(c, h)
    BY <1>2, Zenon DEF ChannelOK
  <2>8. \A m \in DOMAIN d.fHits : Matches(d, d.fHits[m])
    <3>1. SUFFICES ASSUME NEW m \in DOMAIN t PROVE Matches(d, t[m])
      BY <2>5, Zenon
    <3>2. t[m] \in Range(c.fHits) \cup {h}
      BY <2>3, Zenon DEF Range
    <3>3. \A x \in Range(c.fHits) : Matches(c, x)
      BY Zenon DEF ChannelOK, Range
    <3>4. Matches(c, t[m])
      BY <2>7, <3>2, <3>3, Zenon
    <3> QED BY <2>5, <3>4, Zenon DEF Matches
  <2>9. ChannelOK(h.ch, d)
    BY <1>0, <2>3, <2>5, <2>7, <2>8, Zenon DEF ChannelOK
  <2> QED BY <2>3, <2>5, <2>6, <2>7, <2>9, Zenon DEF d
<1> QED BY <1>1, <1>2

(* A hit on a channel of another CRM or view                               *)
Refused(coll, g) ==
  \E x \in Held(coll) : x.ch = g.ch /\ ~Matches(coll.fHits[g.ch - coll.fChStart + 1], g)

(* The channels of the block, after it has grown                           *)
LEMMA BlockOK ==
  ASSUME NEW H, NEW coll, CollOK(H, coll), NEW ch \in Nat
  PROVE  LET b == Block(coll, ch)
         IN  /\ \A k \in DOMAIN b.chs : ChannelOK(b.start + k - 1, b.chs[k])
             /\ UNION {Range(b.chs[k].fHits) : k \in DOMAIN b.chs} = Held(coll)
             /\ ch - b.start + 1 \in DOMAIN b.chs
             /\ DOMAIN b.chs = 1 .. Len(b.chs)
<1> DEFINE b == Block(coll, ch)
           lo == coll.fChStart
           bs == b.start
           chs == b.chs
           s == coll.fHits
           n == Len(s)
           l == Len(chs)
<1>0. s \in Seq(ChRec(H)) /\ n \in Nat /\ DOMAIN s = 1 .. n /\ lo \in Int
  BY DEF CollOK
<1>1. /\ bs \in Nat /\ b.end \in Int /\ ch \in bs .. b.end
      /\ chs \in Seq(ChRec(H)) /\ l = b.end - bs + 1
      /\ \A j \in DOMAIN s : lo + j - bs \in DOMAIN chs /\ chs[lo + j - bs] = s[j]
      /\ \A k \in DOMAIN chs : chs[k] = NoHits \/ \E j \in DOMAIN s : k = lo + j - bs
  <2>1. BlockIs(H, coll, ch, b)
    BY BlockForm, Zenon
  <2> HIDE DEF b
  <2> QED BY <2>1, Zenon DEF BlockIs
<1>2. \A j \in DOMAIN s : ChannelOK(lo + j - 1, s[j])
  BY DEF CollOK
<1> DEFINE e == b.end
<1>3. bs \in Nat /\ e \in Int /\ bs <= ch /\ ch <= e /\ l = e - bs + 1 /\ DOMAIN chs = 1 .. l
  <2>1. DOMAIN chs = 1 .. l
    BY <1>1
  <2> QED BY <1>1, <2>1
<1> HIDE DEF b, lo, bs, chs, s, n, l, e
<1>4. ch - bs + 1 \in DOMAIN chs
  <2>1. ch - bs + 1 \in 1 .. l
    BY <1>3
  <2> QED BY <1>3, <2>1
<1>5. ASSUME NEW k \in DOMAIN chs PROVE ChannelOK(bs + k - 1, chs[k])
  <2>1. k \in Int
    BY <1>3
  <2>2. CASE chs[k] = NoHits
    <3>1. bs + k - 1 \in Int
      BY <1>3, <2>1
    <3> QED BY <2>2, <3>1, NoHitsTyped
  <2>3. CASE \E j \in DOMAIN s : k = lo + j - bs
    <3>1. PICK j \in DOMAIN s : k = lo + j - bs
      BY <2>3
    <3>2. chs[k] = s[j] /\ ChannelOK(lo + j - 1, s[j])
      BY <1>1, <1>2, <3>1
    <3>3. j \in Int
      BY <1>0
    <3>4. bs + k - 1 = lo + j - 1
      BY <1>0, <1>3, <3>1, <3>3
    <3> QED BY <3>2, <3>4, Zenon
  <2> QED BY <1>1, <2>2, <2>3
<1>6. UNION {Range(chs[k].fHits) : k \in DOMAIN chs} = UNION {Range(s[k].fHits) : k \in DOMAIN s}
  <2>1. ASSUME NEW x, NEW k \in DOMAIN chs, x \in Range(chs[k].fHits)
        PROVE  \E j \in DOMAIN s : x \in Range(s[j].fHits)
    <3>1. chs[k] # NoHits
      <4>1. SUFFICES ASSUME chs[k] = NoHits PROVE FALSE
        OBVIOUS
      <4>2. Range(NoHits.fHits) = {}
        <5>1. NoHits.fHits = <<>>
          BY DEF NoHits
        <5>2. DOMAIN NoHits.fHits = {}
          BY <5>1
        <5> QED BY <5>2, Zenon DEF Range
      <4> QED BY <2>1, <4>1, <4>2, Zenon
    <3>2. PICK j \in DOMAIN s : k = lo + j - bs
      BY <1>1, <3>1, Zenon
    <3>3. chs[k] = s[j]
      BY <1>1, <3>2, Zenon
    <3> QED BY <2>1, <3>3, Zenon
  <2>2. ASSUME NEW x, NEW j \in DOMAIN s, x \in Range(s[j].fHits)
        PROVE  \E k \in DOMAIN chs : x \in Range(chs[k].fHits)
    BY <1>1, <2>2, Zenon
  <2> QED BY <2>1, <2>2, Zenon
<1> QED BY <1>3, <1>4, <1>5, <1>6, Zenon DEF b, bs, chs, s, l, Held

(* Adding a hit keeps the collection in order, and what it holds.          *)
LEMMA AddHitOK ==
  ASSUME NEW H, \A x \in H : HitOK(x), NEW h \in H, NEW coll, CollOK(H, coll), h \notin Held(coll)
  PROVE  LET c2 == AddHit(coll, h)
         IN  /\ CollOK(H, c2)
             /\ \/ Held(c2) = Held(coll) \cup {h}
                \/ Held(c2) = Held(coll) /\ Refused(c2, h)
             /\ \A g : HitOK(g) /\ Refused(coll, g) => Refused(c2, g)
<1> DEFINE ch == h.ch
           b == Block(coll, ch)
           lo == coll.fChStart
           bs == b.start
           e == b.end
           chs == b.chs
           s == coll.fHits
           n == Len(s)
           l == Len(chs)
           k == ch - bs + 1
           old == chs[k]
           c2 == AddHit(coll, h)
<1>0. /\ s \in Seq(ChRec(H)) /\ n \in Nat /\ DOMAIN s = 1 .. n /\ lo \in Int
      /\ coll.fNch \in Int /\ coll.fNhits \in Int /\ coll.fHitChCoord \in Seq(Int \X Int)
      /\ coll.fNch = n /\ coll.fNhits = Len(coll.fHitChCoord)
  BY DEF CollOK
<1>1. HitOK(h) /\ h.ch \in Nat /\ h.start \in Int
  BY DEF HitOK
<1>16. ch \in Nat
  BY <1>1
<1> HIDE DEF ch
<1>2. /\ bs \in Nat /\ e \in Int /\ ch \in bs .. e
      /\ chs \in Seq(ChRec(H)) /\ l = e - bs + 1
      /\ \A j \in DOMAIN s : lo + j - bs \in DOMAIN chs /\ chs[lo + j - bs] = s[j]
  <2>1. BlockIs(H, coll, ch, b)
    BY <1>16, BlockForm, Zenon
  <2> HIDE DEF b
  <2> QED BY <2>1, Zenon DEF BlockIs
<1>3. /\ \A i \in DOMAIN chs : ChannelOK(bs + i - 1, chs[i])
      /\ UNION {Range(chs[i].fHits) : i \in DOMAIN chs} = Held(coll)
      /\ k \in DOMAIN chs /\ DOMAIN chs = 1 .. l
  BY <1>16, BlockOK, Zenon
<1> DEFINE ok == old.fChId = -1 \/ Matches(old, h)
<1>4. c2 = [fChStart |-> bs, fChEnd |-> e, fNch |-> coll.fNch + l - n,
            fHits |-> IF ok THEN [chs EXCEPT ![k] = ChAddHit(@, h)] ELSE chs,
            fNhits |-> IF ok THEN coll.fNhits + 1 ELSE coll.fNhits,
            fHitChCoord |-> IF ok THEN Append(coll.fHitChCoord, <<h.ch, h.start>>) ELSE coll.fHitChCoord]
  BY Zenon DEF AddHit, ch
<1> HIDE DEF b, lo, bs, e, chs, s, n, c2, ok
<1>5. /\ c2.fChStart = bs /\ c2.fChEnd = e /\ c2.fNch = coll.fNch + l - n
      /\ c2.fHits = (IF ok THEN [chs EXCEPT ![k] = ChAddHit(old, h)] ELSE chs)
      /\ c2.fNhits = (IF ok THEN coll.fNhits + 1 ELSE coll.fNhits)
      /\ c2.fHitChCoord = (IF ok THEN Append(coll.fHitChCoord, <<h.ch, h.start>>) ELSE coll.fHitChCoord)
  BY <1>4
<1>6. l \in Nat /\ coll.fNch + l - n = l /\ l # 0
  BY <1>0, <1>2
<1>7. old \in ChRec(H) /\ ChannelOK(h.ch, old)
  <2>1. old \in ChRec(H)
    BY <1>2, <1>3
  <2>2. bs + k - 1 = ch
    BY <1>2, <1>16
  <2>3. ChannelOK(bs + k - 1, old)
    BY <1>3, Zenon
  <2> QED BY <2>1, <2>2, <2>3, Zenon DEF ch
<1>17. bs + k - 1 = h.ch /\ k \in DOMAIN chs
  <2>1. bs + k - 1 = ch
    BY <1>2, <1>16
  <2> QED BY <1>3, <2>1, Zenon DEF ch
<1>8. h \notin Range(old.fHits)
  BY <1>3, Zenon
<1>9. /\ c2.fHits \in Seq(ChRec(H)) /\ Len(c2.fHits) = l /\ DOMAIN c2.fHits = DOMAIN chs
      /\ \A i \in DOMAIN chs : ChannelOK(bs + i - 1, c2.fHits[i])
      /\ \A i \in DOMAIN chs : chs[i].fChId # -1 =>
            /\ c2.fHits[i].fCrmId = chs[i].fCrmId /\ c2.fHits[i].fView = chs[i].fView
            /\ c2.fHits[i].fChId = chs[i].fChId
      /\ ok => Held(c2) = Held(coll) \cup {h}
      /\ ~ok => Held(c2) = Held(coll)
  <2>1. CASE ok
    <3> DEFINE d == ChAddHit(old, h)
    <3>1. /\ d \in ChRec(H) /\ ChannelOK(h.ch, d) /\ d.fChId = h.ch
          /\ Range(d.fHits) = Range(old.fHits) \cup {h}
          /\ old.fChId # -1 => d.fCrmId = old.fCrmId /\ d.fView = old.fView
      <4>1. old.fChId = -1 \/ Matches(old, h)
        BY <2>1, Zenon DEF ok
      <4> HIDE DEF old
      <4> QED BY <1>7, <1>8, <4>1, ChAddHitOK
    <3> HIDE DEF d
    <3>2. c2.fHits = [chs EXCEPT ![k] = d]
      BY <1>5, <2>1, Zenon DEF d
    <3>3. /\ c2.fHits \in Seq(ChRec(H)) /\ Len(c2.fHits) = l
          /\ \A i \in 1 .. l : c2.fHits[i] = IF i = k THEN d ELSE chs[i]
      BY <1>2, <1>3, <3>1, <3>2, ExceptSeq
    <3>4. DOMAIN c2.fHits = DOMAIN chs
      BY <3>2
    <3>5. bs + k - 1 = h.ch
      BY <1>17
    <3>6. \A i \in DOMAIN chs : ChannelOK(bs + i - 1, c2.fHits[i])
      BY <1>3, <3>1, <3>3, <3>5, Zenon
    <3>7. old.fChId # -1 => old.fChId = h.ch
      BY <1>7, Zenon DEF ChannelOK
    <3>8. \A i \in DOMAIN chs : chs[i].fChId # -1 =>
            /\ c2.fHits[i].fCrmId = chs[i].fCrmId /\ c2.fHits[i].fView = chs[i].fView
            /\ c2.fHits[i].fChId = chs[i].fChId
      BY <1>3, <3>1, <3>3, <3>7, Zenon
    <3>9. ASSUME NEW x PROVE x \in Held(c2) <=> x \in Held(coll) \cup {h}
      <4>1. x \in Held(c2) <=> \E i \in DOMAIN chs : x \in Range(c2.fHits[i].fHits)
        BY <3>4, Zenon DEF Held
      <4>2. x \in Held(coll) <=> \E i \in DOMAIN chs : x \in Range(chs[i].fHits)
        BY <1>3, Zenon
      <4> QED BY <1>3, <3>1, <3>3, <4>1, <4>2, Zenon
    <3>10. Held(c2) = Held(coll) \cup {h}
      BY <3>9, Zenon
    <3> QED BY <2>1, <3>3, <3>4, <3>6, <3>8, <3>10, Zenon
  <2>2. CASE ~ok
    <3>1. c2.fHits = chs
      BY <1>5, <2>2, Zenon
    <3>2. Held(c2) = Held(coll)
      BY <1>3, <3>1, Zenon DEF Held
    <3> QED BY <1>2, <1>3, <2>2, <3>1, <3>2, Zenon
  <2> QED BY <2>1, <2>2
<1>10. c2 \in [fHits : Seq(ChRec(H)), fChStart : Int, fChEnd : Int, fNch : Int,
                fNhits : Int, fHitChCoord : Seq(Int \X Int)]
  <2> DEFINE co == IF ok THEN Append(coll.fHitChCoord, <<h.ch, h.start>>) ELSE coll.fHitChCoord
             nh == IF ok THEN coll.fNhits + 1 ELSE coll.fNhits
             fh == IF ok THEN [chs EXCEPT ![k] = ChAddHit(@, h)] ELSE chs
  <2>1. co \in Seq(Int \X Int)
    BY <1>0, <1>1
  <2>2. nh \in Int /\ coll.fNch + l - n \in Int
    BY <1>0, <1>6
  <2>3. fh \in Seq(ChRec(H))
    BY <1>5, <1>9, Zenon
  <2>4. bs \in Int /\ e \in Int
    BY <1>2
  <2> HIDE DEF co, nh, fh
  <2>5. c2 = [fChStart |-> bs, fChEnd |-> e, fNch |-> coll.fNch + l - n,
              fHits |-> fh, fNhits |-> nh, fHitChCoord |-> co]
    BY <1>4, Zenon DEF co, nh, fh
  <2> QED BY <2>1, <2>2, <2>3, <2>4, <2>5, Zenon
<1>11. c2.fNhits = Len(c2.fHitChCoord)
  <2>1. CASE ok
    <3>1. c2.fNhits = coll.fNhits + 1 /\ c2.fHitChCoord = Append(coll.fHitChCoord, <<h.ch, h.start>>)
      BY <1>5, <2>1, Zenon
    <3> QED BY <1>0, <3>1
  <2>2. CASE ~ok
    BY <1>0, <1>5, <2>2, Zenon
  <2> QED BY <2>1, <2>2
<1>12. IsFiniteSet(Held(c2)) /\ Cardinality(Held(c2)) = c2.fNhits
  <2>1. IsFiniteSet(Held(coll)) /\ Cardinality(Held(coll)) = coll.fNhits
    BY Zenon DEF CollOK
  <2>2. CASE ok
    <3>1. IsFiniteSet(Held(coll) \cup {h}) /\ Cardinality(Held(coll) \cup {h}) = Cardinality(Held(coll)) + 1
      BY <2>1, FS_AddElement
    <3> QED BY <1>5, <1>9, <2>1, <2>2, <3>1, Zenon
  <2>3. CASE ~ok
    BY <1>5, <1>9, <2>1, <2>3, Zenon
  <2> QED BY <2>2, <2>3
<1>13. CollOK(H, c2)
  <2>1. c2.fNch = Len(c2.fHits) /\ (c2.fHits # <<>> => c2.fNch = c2.fChEnd - c2.fChStart + 1)
    <3>1. c2.fNch = l /\ Len(c2.fHits) = l
      BY <1>5, <1>6, <1>9, Zenon
    <3>2. l = c2.fChEnd - c2.fChStart + 1
      BY <1>2, <1>5, Zenon
    <3> QED BY <3>1, <3>2, Zenon
  <2>2. c2.fChStart \in Nat
    BY <1>2, <1>5, Zenon
  <2>3. \A i \in DOMAIN c2.fHits : ChannelOK(c2.fChStart + i - 1, c2.fHits[i])
    BY <1>5, <1>9, Zenon
  <2> QED BY <1>10, <1>11, <1>12, <2>1, <2>2, <2>3, Zenon DEF CollOK
<1>14. ~ok => Refused(c2, h)
  <2>1. SUFFICES ASSUME ~ok PROVE Refused(c2, h)
    OBVIOUS
  <2>2. old.fChId # -1 /\ ~Matches(old, h)
    BY <2>1, Zenon DEF ok
  <2>3. old.fHits # <<>> /\ old.fChId = h.ch /\ \A m \in DOMAIN old.fHits : Matches(old, old.fHits[m])
    BY <1>7, <2>2, Zenon DEF ChannelOK
  <2>4. 1 \in DOMAIN old.fHits
    BY <1>7, <2>3 DEF ChRec
  <2>5. old.fHits[1].ch = h.ch
    BY <2>3, <2>4, Zenon DEF Matches
  <2>6. old.fHits[1] \in Held(coll)
    <3>1. old.fHits[1] \in Range(old.fHits)
      BY <2>4, Zenon DEF Range
    <3>2. Range(old.fHits) \in {Range(chs[i].fHits) : i \in DOMAIN chs}
      BY <1>3, Zenon
    <3> QED BY <1>3, <3>1, <3>2, Zenon
  <2>7. Held(c2) = Held(coll) /\ c2.fHits = chs /\ c2.fChStart = bs
    BY <1>5, <1>9, <2>1, Zenon
  <2>8. c2.fHits[h.ch - c2.fChStart + 1] = old
    BY <2>7, Zenon DEF ch
  <2> HIDE DEF old
  <2>9. ~Matches(c2.fHits[h.ch - c2.fChStart + 1], h)
    BY <2>2, <2>8, Zenon
  <2>10. old.fHits[1] \in Held(c2)
    BY <2>6, <2>7, Zenon
  <2> QED BY <2>5, <2>9, <2>10, Zenon DEF Refused
<1>15. ASSUME NEW g, HitOK(g), Refused(coll, g) PROVE Refused(c2, g)
  <2>1. PICK x \in Held(coll) : x.ch = g.ch /\ ~Matches(s[g.ch - lo + 1], g)
    BY <1>15, Zenon DEF Refused, s, lo
  <2>2. PICK j \in DOMAIN s : x \in Range(s[j].fHits)
    BY <2>1, Zenon DEF Held, s
  <2>3. ChannelOK(lo + j - 1, s[j])
    BY <2>2, Zenon DEF CollOK, s, lo
  <2>4. PICK m \in DOMAIN s[j].fHits : x = s[j].fHits[m]
    BY <2>2, Zenon DEF Range
  <2>5. s[j].fChId = x.ch /\ s[j].fHits # <<>>
    <3>1. Matches(s[j], x)
      BY <2>3, <2>4, Zenon DEF ChannelOK
    <3>2. s[j] \in ChRec(H)
      BY <1>0
    <3>3. s[j].fHits # <<>>
      BY <2>4, <3>2 DEF ChRec
    <3> QED BY <3>1, <3>3, Zenon DEF Matches
  <2>6. s[j].fChId # -1 /\ s[j].fChId = lo + j - 1
    BY <2>3, <2>5, Zenon DEF ChannelOK
  <2>7. j \in Int /\ g.ch \in Int
    BY <1>0, <1>15 DEF HitOK
  <2>8. g.ch = lo + j - 1
    BY <2>1, <2>5, <2>6, Zenon
  <2>9. g.ch - lo + 1 = j /\ g.ch - bs + 1 = lo + j - bs
    BY <1>0, <1>2, <2>7, <2>8
  <2>10. ~Matches(s[j], g)
    BY <2>1, <2>9, Zenon
  <2> DEFINE i == lo + j - bs
  <2>11. i \in DOMAIN chs /\ chs[i] = s[j]
    BY <1>2, Zenon
  <2> HIDE DEF i
  <2>12. /\ c2.fHits[i].fCrmId = s[j].fCrmId /\ c2.fHits[i].fView = s[j].fView
         /\ c2.fHits[i].fChId = s[j].fChId
    BY <1>9, <2>6, <2>11, Zenon
  <2>13. ~Matches(c2.fHits[i], g)
    BY <2>10, <2>12, Zenon DEF Matches
  <2>14. x \in Held(c2)
    BY <1>9, <2>1, Zenon
  <2>15. g.ch - c2.fChStart + 1 = i
    BY <1>5, <2>9, Zenon DEF i
  <2> QED BY <2>1, <2>13, <2>14, <2>15, Zenon DEF Refused
<1> QED BY <1>9, <1>13, <1>14, <1>15, Zenon DEF c2

-----------------------------------------------------------------------------
(* Regions of interest (lowrecon/src/RawChDataProcess.cc)                  *)

(* The greatest of a set of numbers up to n is in it.                      *)
LEMMA MaxIsGreatest ==
  ASSUME NEW n \in Nat, NEW S \in SUBSET (0 .. n), S # {}
  PROVE  Max(S) \in S /\ \A m \in S : m <= Max(S)
<1> DEFINE B == {b \in Nat : \A x \in S : x <= b}
<1>1. n \in B
  BY SMT
<1>2. PICK b \in B : \A a \in B : b <= a
  BY <1>1, LeastNumber, Zenon
<1>3. b \in S
  <2>1. SUFFICES ASSUME b \notin S PROVE FALSE
    OBVIOUS
  <2>2. PICK x \in S : TRUE
    OBVIOUS
  <2>3. \A y \in S : y \in Nat /\ y <= b /\ y # b
    BY <1>2, <2>1
  <2>4. b - 1 \in Nat /\ \A y \in S : y <= b - 1
    BY <1>2, <2>2, <2>3
  <2>5. b - 1 \in B
    BY <2>4
  <2> QED BY <1>2, <2>5
<1>4. \A y \in S : b >= y
  BY <1>2
<1> HIDE DEF B
<1>5. Max(S) \in S /\ \A y \in S : Max(S) >= y
  BY <1>3, <1>4, Zenon DEF Max
<1> QED BY <1>5, SMT

(* The samples of a channel                                                *)
Samples0(data, n) == n \in Nat /\ data \in [0 .. n - 1 -> Int]

(* The size of data is the number of its samples.                          *)
LEMMA SizeOf ==
  ASSUME NEW n \in Nat, NEW data, DOMAIN data = 0 .. n - 1
  PROVE  Size(data) = n
<1>1. Cardinality(0 .. n - 1) = IF 0 > n - 1 THEN 0 ELSE n - 1 - 0 + 1
  BY FS_Interval
<1>2. Cardinality(0 .. n - 1) = n
  BY <1>1
<1> QED BY <1>2, Zenon DEF Size

(* The indexes of data, one after the other.                               *)
LEMMA IndexesForm ==
  ASSUME NEW n \in Nat, NEW data, DOMAIN data = 0 .. n - 1
  PROVE  /\ DOMAIN Indexes(data) = 1 .. n
         /\ \A k \in 0 .. n - 1 : Indexes(data)[k + 1] = k
<1>1. Indexes(data) = [k \in 1 .. n |-> k - 1]
  BY SizeOf, Zenon DEF Indexes
<1>2. ASSUME NEW k \in 0 .. n - 1 PROVE Indexes(data)[k + 1] = k
  <2>1. k + 1 \in 1 .. n /\ (k + 1) - 1 = k
    BY SMT
  <2> QED BY <1>1, <2>1, Zenon
<1> QED BY <1>1, <1>2, Zenon

(* The search onward stops at the first sample below the bound.            *)
LEMMA StepForwardOK ==
  ASSUME NEW n \in Nat, NEW data \in [0 .. n - 1 -> Int], NEW low \in Int, NEW i \in 0 .. n - 1
  PROVE  LET e == StepForward(data, low, i)
         IN  /\ e \in i .. n
             /\ e < n => data[e] < low
             /\ \A j \in i .. n - 1 : j < e => data[j] >= low
<1> DEFINE S == {j \in i .. Size(data) - 1 : data[j] < low} \cup {Size(data)}
           e == Min(S)
<1>1. Size(data) = n
  BY SizeOf
<1>2. S = {j \in i .. n - 1 : data[j] < low} \cup {n}
  BY <1>1, Zenon
<1>3. S \subseteq Nat /\ n \in S
  BY <1>2
<1>4. e \in S /\ \A m \in S : e <= m
  BY <1>3, MinIsLeast
<1> HIDE DEF S, e
<1>5. e \in i .. n /\ (e < n => data[e] < low)
  BY <1>2, <1>4
<1>6. ASSUME NEW j \in i .. n - 1, j < e PROVE data[j] >= low
  <2>1. j \notin S
    BY <1>4, <1>5, <1>6
  <2>2. ~(data[j] < low)
    BY <1>2, <2>1
  <2>3. data[j] \in Int
    BY SMT
  <2> QED BY <2>2, <2>3
<1>7. StepForward(data, low, i) = e
  BY Zenon DEF StepForward, S, e
<1> QED BY <1>5, <1>6, <1>7, Zenon

(* The search back stops at the last sample below the bound.               *)
LEMMA StepBackOK ==
  ASSUME NEW n \in Nat, NEW data \in [0 .. n - 1 -> Int], NEW low \in Int, NEW i \in 0 .. n - 1
  PROVE  LET s == StepBack(data, low, i)
         IN  /\ s \in 0 .. i
             /\ s # 0 => data[s] < low
             /\ \A j \in 1 .. i : data[j] < low => j <= s
<1> DEFINE S == {j \in 1 .. i : data[j] < low} \cup {0}
           s == Max(S)
<1>1. S \in SUBSET (0 .. i) /\ 0 \in S /\ i \in Nat
  OBVIOUS
<1>2. s \in S /\ \A m \in S : m <= s
  BY <1>1, MaxIsGreatest
<1>3. s \in 0 .. i /\ (s # 0 => data[s] < low)
  BY <1>1, <1>2
<1>4. ASSUME NEW j \in 1 .. i, data[j] < low PROVE j <= s
  <2>1. j \in S
    BY <1>4
  <2> QED BY <1>2, <2>1
<1>5. StepBack(data, low, i) = s
  BY Zenon DEF StepBack
<1> HIDE DEF S, s
<1> QED BY <1>3, <1>4, <1>5, Zenon

-----------------------------------------------------------------------------
(* The search for regions, one sample after the other                      *)
ScanStep(c, acc, i) ==
  IF i < acc.next THEN acc
  ELSE IF c.data[i] <= c.thresh
    THEN [acc EXCEPT !.next = i + 1, !.ped = @ \cup {i}]
    ELSE LET end   == StepForward(c.data, c.lowbound, i)
             start == StepBack(c.data, c.lowbound, i)
         IN  [next |-> end + 1,
              ped  |-> Outside(acc.ped, start, i),
              rois |-> IF start < end
                         THEN Append(acc.rois, [first |-> start, second |-> end])
                         ELSE acc.rois]

(* A region of interest.                                                   *)
RoiRec == [first : Nat, second : Nat]

(* A region ends behind its start, and before the sample looked at next    *)
RegionOK(c, n, next, r) ==
  /\ r.first < r.second /\ r.second <= n /\ r.second < next
  /\ r.second < n => c.data[r.second] < c.lowbound

(* What is true of the regions found among the first k samples: they are   *)
(* well formed and in turn, no pedestal sample is inside one, and every    *)
(* sample above the threshold so far is in one.                            *)
ScanInv(c, k, acc) ==
  LET n == Size(c.data)
  IN  /\ acc \in [next : Nat, ped : SUBSET Nat, rois : Seq(RoiRec)]
      /\ k <= acc.next
      /\ \A i \in acc.ped : i < acc.next
      /\ \A r \in DOMAIN acc.rois :
           /\ RegionOK(c, n, acc.next, acc.rois[r])
           /\ \A i \in acc.ped : ~(acc.rois[r].first < i /\ i <= acc.rois[r].second)
      /\ \A q, r \in DOMAIN acc.rois : q < r => acc.rois[q].second <= acc.rois[r].first
      /\ c.lowbound <= c.thresh =>
           \A i \in 0 .. n - 1 : i < acc.next /\ c.data[i] > c.thresh =>
             \E r \in DOMAIN acc.rois : acc.rois[r].first <= i /\ i < acc.rois[r].second

(* The samples and the thresholds the scan is given.                       *)
ScanContext(c, n) ==
  n \in Nat /\ c.data \in [0 .. n - 1 -> Int] /\ c.thresh \in Int /\ c.lowbound \in Int

(* One more sample scanned.                                                *)
LEMMA ScanStepOK ==
  ASSUME NEW c, NEW n, ScanContext(c, n), NEW i \in 0 .. n - 1, NEW acc, ScanInv(c, i, acc)
  PROVE  ScanInv(c, i + 1, ScanStep(c, acc, i))
<1> DEFINE data == c.data
           low == c.lowbound
           th == c.thresh
           nxt == acc.next
           rs == acc.rois
           pd == acc.ped
           a2 == ScanStep(c, acc, i)
<1>0. n \in Nat /\ data \in [0 .. n - 1 -> Int] /\ th \in Int /\ low \in Int /\ Size(data) = n
  BY SizeOf DEF ScanContext
<1>1. /\ acc \in [next : Nat, ped : SUBSET Nat, rois : Seq(RoiRec)]
      /\ i <= nxt
      /\ \A j \in pd : j < nxt
      /\ \A r \in DOMAIN rs : RegionOK(c, n, nxt, rs[r])
      /\ \A r \in DOMAIN rs : \A j \in pd : ~(rs[r].first < j /\ j <= rs[r].second)
      /\ \A q, r \in DOMAIN rs : q < r => rs[q].second <= rs[r].first
      /\ low <= th => \A j \in 0 .. n - 1 : j < nxt /\ data[j] > th =>
             \E r \in DOMAIN rs : rs[r].first <= j /\ j < rs[r].second
  BY <1>0, Zenon DEF ScanInv
<1>2. nxt \in Nat /\ pd \in SUBSET Nat /\ rs \in Seq(RoiRec)
  BY <1>1
<1> DEFINE Goal(x, p, s) ==
      /\ i + 1 <= x
      /\ \A j \in p : j < x
      /\ \A r \in DOMAIN s : RegionOK(c, n, x, s[r])
      /\ \A r \in DOMAIN s : \A j \in p : ~(s[r].first < j /\ j <= s[r].second)
      /\ \A q, r \in DOMAIN s : q < r => s[q].second <= s[r].first
      /\ low <= th => \A j \in 0 .. n - 1 : j < x /\ data[j] > th =>
             \E r \in DOMAIN s : s[r].first <= j /\ j < s[r].second
<1>3. ASSUME NEW x \in Nat, NEW p \in SUBSET Nat, NEW s \in Seq(RoiRec),
             a2 = [next |-> x, ped |-> p, rois |-> s], Goal(x, p, s)
      PROVE  ScanInv(c, i + 1, a2)
  <2>1. a2 \in [next : Nat, ped : SUBSET Nat, rois : Seq(RoiRec)]
    <3> HIDE DEF a2
    <3> QED BY <1>3
  <2>2. a2.next = x /\ a2.ped = p /\ a2.rois = s
    BY <1>3
  <2> HIDE DEF a2
  <2> QED BY <1>0, <1>3, <2>1, <2>2, Zenon DEF ScanInv
<1> HIDE DEF data, low, th, nxt, rs, pd
<1>4. \A r \in DOMAIN rs : rs[r] \in RoiRec
  BY <1>2
<1>5. \A r \in DOMAIN rs : /\ rs[r].first \in Nat /\ rs[r].second \in Nat
                           /\ rs[r].first < rs[r].second /\ rs[r].second <= n /\ rs[r].second < nxt
                           /\ rs[r].second < n => data[rs[r].second] < low
  BY <1>1, <1>4 DEF RegionOK, RoiRec, data, low
<1>6. CASE i < nxt
  <2>1. a2 = acc
    BY <1>6, Zenon DEF ScanStep, nxt
  <2>2. a2 = [next |-> nxt, ped |-> pd, rois |-> rs]
    BY <1>1, <2>1 DEF nxt, pd, rs
  <2>3. i + 1 <= nxt
    BY <1>2, <1>6
  <2>4. Goal(nxt, pd, rs)
    BY <1>1, <2>3, Zenon
  <2> QED BY <1>2, <1>3, <2>2, <2>4, Zenon
<1>7. CASE ~(i < nxt) /\ data[i] <= th
  <2>1. nxt = i
    BY <1>1, <1>2, <1>7
  <2> DEFINE p == pd \cup {i}
  <2>2. a2 = [next |-> i + 1, ped |-> p, rois |-> rs]
    <3>1. a2 = [acc EXCEPT !.next = i + 1, !.ped = @ \cup {i}]
      BY <1>7, Zenon DEF ScanStep, nxt, data, th
    <3> QED BY <1>1, <3>1 DEF pd, rs
  <2>3. i + 1 \in Nat /\ p \in SUBSET Nat
    BY <1>2
  <2>4. \A j \in p : j < i + 1
    BY <1>1, <1>2, <2>1
  <2>5. \A r \in DOMAIN rs : RegionOK(c, n, i + 1, rs[r])
    <3>1. ASSUME NEW r \in DOMAIN rs PROVE RegionOK(c, n, i + 1, rs[r])
      <4>1. rs[r].second < i + 1
        BY <1>5, <2>1
      <4> QED BY <1>1, <4>1, Zenon DEF RegionOK
    <3> QED BY <3>1
  <2>6. \A r \in DOMAIN rs : \A j \in p : ~(rs[r].first < j /\ j <= rs[r].second)
    <3>1. ASSUME NEW r \in DOMAIN rs PROVE ~(i <= rs[r].second)
      BY <1>5, <2>1
    <3> QED BY <1>1, <3>1, Zenon
  <2>7. low <= th => \A j \in 0 .. n - 1 : j < i + 1 /\ data[j] > th =>
             \E r \in DOMAIN rs : rs[r].first <= j /\ j < rs[r].second
    <3>1. SUFFICES ASSUME low <= th, NEW j \in 0 .. n - 1, j < i + 1, data[j] > th
                   PROVE  \E r \in DOMAIN rs : rs[r].first <= j /\ j < rs[r].second
      OBVIOUS
    <3>2. data[j] \in Int /\ data[i] \in Int
      BY <1>0
    <3>3. j # i
      BY <1>0, <1>7, <3>1, <3>2
    <3>4. j < nxt
      BY <2>1, <3>1, <3>3
    <3> QED BY <1>1, <3>1, <3>4, Zenon
  <2> HIDE DEF p
  <2>8. i + 1 <= i + 1
    BY <2>3
  <2>9. Goal(i + 1, p, rs)
    BY <1>1, <2>4, <2>5, <2>6, <2>7, <2>8, Zenon
  <2> QED BY <1>2, <1>3, <2>2, <2>3, <2>9, Zenon
<1>8. CASE ~(i < nxt) /\ ~(data[i] <= th)
  <2>1. nxt = i
    BY <1>1, <1>2, <1>8
  <2> DEFINE end == StepForward(data, low, i)
             start == StepBack(data, low, i)
             p == Outside(pd, start, i)
             new == [first |-> start, second |-> end]
             s == IF start < end THEN Append(rs, new) ELSE rs
  <2>2. a2 = [next |-> end + 1, ped |-> p, rois |-> s]
    BY <1>8, Zenon DEF ScanStep, nxt, data, low, th, pd, rs
  <2>3. end \in i .. n /\ (end < n => data[end] < low) /\ \A j \in i .. n - 1 : j < end => data[j] >= low
    BY <1>0, StepForwardOK, Zenon
  <2>4. start \in 0 .. i /\ \A j \in 1 .. i : data[j] < low => j <= start
    BY <1>0, StepBackOK, Zenon
  <2> HIDE DEF end, start
  <2>5. end \in Nat /\ start \in Nat /\ start <= i /\ i <= end /\ end <= n /\ new \in RoiRec
    BY <2>3, <2>4 DEF RoiRec
  <2>6. s \in Seq(RoiRec)
    BY <1>2, <2>5
  <2>7. end + 1 \in Nat /\ i + 1 <= end + 1
    BY <2>5
  <2>8. p \in SUBSET Nat /\ \A j \in p : j <= i /\ ~(start < j)
    <3>1. \A j \in p : (j \in pd \/ j = i) /\ j \notin start + 1 .. i
      BY Zenon DEF Outside
    <3>2. \A j \in pd : j \in Nat /\ j < i
      BY <1>1, <1>2, <2>1
    <3>3. \A j \in p : j \in Nat /\ j <= i /\ j \notin start + 1 .. i
      BY <3>1, <3>2
    <3> HIDE DEF p
    <3> QED BY <2>5, <3>3
  <2>9. \A j \in p : j < end + 1
    BY <2>5, <2>8
  <2>10. ASSUME NEW r \in DOMAIN rs PROVE rs[r].second <= start
    <3> DEFINE a == rs[r].first
               b == rs[r].second
    <3>0. a \in Nat /\ b \in Nat /\ a < b /\ b < nxt
      BY <1>5
    <3>1. b \in 1 .. i /\ b < n
      <4> HIDE DEF a, b
      <4> QED BY <1>0, <2>1, <3>0
    <3> QED BY <1>5, <2>4, <3>1
  <2>11. \A r \in DOMAIN s : \/ r \in DOMAIN rs /\ s[r] = rs[r]
                             \/ start < end /\ r = Len(rs) + 1 /\ s[r] = new
    BY <1>2, <2>5
  <2>12. DOMAIN rs = 1 .. Len(rs) /\ Len(rs) \in Nat
    BY <1>2
  <2>13. new.first = start /\ new.second = end
    OBVIOUS
  <2>14. \A r \in DOMAIN rs : r \in DOMAIN s /\ s[r] = rs[r]
    BY <1>2, <2>5
  <2>15. start < end => Len(rs) + 1 \in DOMAIN s /\ s[Len(rs) + 1] = new
    BY <1>2, <2>5
  <2> HIDE DEF s, new, p
  <2>16. ASSUME NEW r \in DOMAIN s PROVE RegionOK(c, n, end + 1, s[r])
    <3>1. CASE r \in DOMAIN rs /\ s[r] = rs[r]
      <4>1. rs[r].second < end + 1
        BY <1>5, <2>1, <2>5, <3>1
      <4> QED BY <1>1, <3>1, <4>1, Zenon DEF RegionOK
    <3>2. CASE start < end /\ s[r] = new
      <4>1. end < end + 1
        BY <2>5
      <4> QED BY <2>3, <2>5, <2>13, <3>2, <4>1, Zenon DEF RegionOK, data, low
    <3> QED BY <2>11, <3>1, <3>2
  <2>17. ASSUME NEW r \in DOMAIN s, NEW j \in p PROVE ~(s[r].first < j /\ j <= s[r].second)
    <3>1. CASE r \in DOMAIN rs /\ s[r] = rs[r]
      <4>1. j \in pd \/ j = i
        BY Zenon DEF Outside, p
      <4>2. ~(i <= rs[r].second)
        BY <1>5, <2>1, <3>1
      <4> QED BY <1>1, <3>1, <4>1, <4>2, Zenon
    <3>2. CASE s[r] = new
      BY <2>8, <2>13, <3>2, Zenon
    <3> QED BY <2>11, <3>1, <3>2
  <2>18. ASSUME NEW q \in DOMAIN s, NEW r \in DOMAIN s, q < r PROVE s[q].second <= s[r].first
    <3>1. CASE q \in DOMAIN rs /\ s[q] = rs[q] /\ r \in DOMAIN rs /\ s[r] = rs[r]
      BY <1>1, <2>18, <3>1, Zenon
    <3>2. CASE q \in DOMAIN rs /\ s[q] = rs[q] /\ s[r] = new
      BY <2>10, <2>13, <3>2, Zenon
    <3>3. CASE q = Len(rs) + 1
      <4>1. r \in Int /\ r <= Len(rs) + 1
        BY <2>11, <2>12
      <4> QED BY <2>12, <2>18, <3>3, <4>1
    <3> QED BY <2>11, <3>1, <3>2, <3>3
  <2>19. ASSUME low <= th, NEW j \in 0 .. n - 1, j < end + 1, data[j] > th
         PROVE  \E r \in DOMAIN s : s[r].first <= j /\ j < s[r].second
    <3>1. CASE j < i
      <4>1. PICK r \in DOMAIN rs : rs[r].first <= j /\ j < rs[r].second
        BY <1>1, <2>1, <2>19, <3>1, Zenon
      <4> QED BY <2>14, <4>1, Zenon
    <3>2. CASE ~(j < i)
      <4>1. data[j] \in Int /\ data[i] \in Int
        BY <1>0
      <4>2. j # end
        BY <1>0, <2>3, <2>5, <2>19, <4>1
      <4>3. j < end
        BY <2>5, <2>19, <4>2
      <4>4. start <= j
        BY <2>5, <3>2
      <4>5. start < end
        BY <2>5, <4>3, <4>4
      <4> QED BY <2>13, <2>15, <4>3, <4>4, <4>5, Zenon
    <3> QED BY <3>1, <3>2
  <2>20. Goal(end + 1, p, s)
    BY <2>7, <2>9, <2>16, <2>17, <2>18, <2>19, Zenon
  <2> QED BY <1>3, <2>2, <2>6, <2>7, <2>8, <2>20, Zenon DEF s, p, new
<1> QED BY <1>6, <1>7, <1>8

(* The scan is a fold of ScanStep.                                         *)
ScanFold == INSTANCE FoldTheorems WITH Step <- ScanStep, Inv <- ScanInv

(* All samples scanned.                                                    *)
LEMMA ScanOK ==
  ASSUME NEW n \in Nat, NEW data \in [0 .. n - 1 -> Int], NEW th \in Int, NEW low \in Int
  PROVE  ScanInv([data |-> data, thresh |-> th, lowbound |-> low], n, Scan(data, th, low))
<1> DEFINE c == [data |-> data, thresh |-> th, lowbound |-> low]
           base == [next |-> 0, ped |-> {}, rois |-> <<>>]
           s == Indexes(data)
<1>1. c.data = data /\ c.thresh = th /\ c.lowbound = low
  OBVIOUS
<1>2. Scan(data, th, low) = ScanFold!Fold(c, base, s)
  <2> HIDE DEF c
  <2>1. Scan(c.data, c.thresh, c.lowbound) = ScanFold!Fold(c, base, Indexes(c.data))
    BY Zenon DEF Scan, ScanFold!Fold, ScanStep, ScanFold!FoldLeft, ScanFold!MapThenFoldSet,
        FoldLeft, MapThenFoldSet, ScanFold!Max, Max
  <2> QED BY <1>1, <2>1, Zenon
<1>3. DOMAIN s = 1 .. n /\ \A k \in 0 .. n - 1 : s[k + 1] = k
  BY IndexesForm
<1>4. ScanContext(c, n)
  BY DEF ScanContext
<1>5. ScanInv(c, 0, base)
  <2>1. base \in [next : Nat, ped : SUBSET Nat, rois : Seq(RoiRec)]
    BY EmptySeq
  <2>2. base.next = 0 /\ base.ped = {} /\ DOMAIN base.rois = {}
    OBVIOUS
  <2>3. Size(data) = n
    BY SizeOf
  <2> HIDE DEF base
  <2>4. \A i \in 0 .. n - 1 : ~(i < 0)
    BY SMT
  <2> HIDE DEF c
  <2> QED BY <1>1, <2>1, <2>2, <2>3, <2>4 DEF ScanInv
<1> HIDE DEF c, base, s
<1>6. \A k \in 0 .. n - 1 : \A acc : ScanInv(c, k, acc) => ScanInv(c, k + 1, ScanStep(c, acc, s[k + 1]))
  BY <1>3, <1>4, ScanStepOK, Zenon
<1>7. ScanInv(c, n, ScanFold!Fold(c, base, s))
  BY <1>3, <1>5, <1>6, ScanFold!FoldInvariant, Zenon
<1> QED BY <1>2, <1>7, Zenon DEF c

-----------------------------------------------------------------------------
(* Their padding                                                           *)

(* One more region padded                                                  *)
PadStep(c, done, r) ==
  LET start == IF done = <<>> /\ r.first < c.left THEN 0 ELSE (r.first - c.left) % Wrap
      first == IF done # <<>> /\ Last(done).second >= start THEN Last(done).second + 1 ELSE start
  IN  Append(done, [first |-> first, second |-> Smaller(r.second + c.right, c.size)])

(* Where region j ends and starts once padded                              *)
PadSecond(c, j) == Smaller(c.rois[j].second + c.right, c.size)
PadStart(c, j) ==
  IF j = 1 /\ c.rois[j].first < c.left THEN 0 ELSE (c.rois[j].first - c.left) % Wrap
PadFirst(c, j, done) ==
  IF j # 1 /\ done[j - 1].second >= PadStart(c, j) THEN done[j - 1].second + 1 ELSE PadStart(c, j)

(* The first k regions, padded.                                            *)
PadInv(c, k, done) ==
  /\ done \in Seq(RoiRec)
  /\ Len(done) = k
  /\ \A j \in 1 .. k : /\ done[j].first = PadFirst(c, j, done)
                       /\ done[j].second = PadSecond(c, j)

(* Regions, paddings and the number of samples.                            *)
PadContext(c) ==
  /\ c.rois \in Seq(RoiRec)
  /\ c.left \in Nat /\ c.right \in Nat /\ c.size \in Nat

(* The bounds of a region are natural numbers.                             *)
LEMMA RoiAt ==
  ASSUME NEW rs \in Seq(RoiRec)
  PROVE  \A k \in DOMAIN rs : rs[k].first \in Nat /\ rs[k].second \in Nat
<1>1. \A k \in DOMAIN rs : rs[k] \in RoiRec
  BY SMT
<1> QED BY <1>1 DEF RoiRec

(* So are the bounds it is padded to.                                      *)
LEMMA PadTyped ==
  ASSUME NEW c, PadContext(c), NEW j \in DOMAIN c.rois
  PROVE  PadStart(c, j) \in Nat /\ PadSecond(c, j) \in Nat
<1> DEFINE a == c.rois[j].first
           b == c.rois[j].second
           left == c.left
           right == c.right
           size == c.size
<1>1. a \in Nat /\ b \in Nat /\ left \in Nat /\ right \in Nat /\ size \in Nat
  BY RoiAt DEF PadContext
<1>2. PadStart(c, j) = IF j = 1 /\ a < left THEN 0 ELSE (a - left) % Wrap
  BY Zenon DEF PadStart
<1>3. PadSecond(c, j) = IF b + right < size THEN b + right ELSE size
  BY Zenon DEF PadSecond, Smaller
<1> HIDE DEF a, b, left, right, size
<1>4. (a - left) % Wrap \in Nat
  BY <1>1, RoiAssumption
<1> QED BY <1>1, <1>2, <1>3, <1>4

(* One more region padded keeps PadInv.                                    *)
LEMMA PadStepOK ==
  ASSUME NEW c, PadContext(c), NEW k \in 0 .. Len(c.rois) - 1, NEW done, PadInv(c, k, done)
  PROVE  PadInv(c, k + 1, PadStep(c, done, c.rois[k + 1]))
<1> DEFINE r == c.rois[k + 1]
           new == [first |-> PadFirst(c, k + 1, done), second |-> PadSecond(c, k + 1)]
           d2 == Append(done, new)
<1>1. done \in Seq(RoiRec) /\ Len(done) = k /\ k \in Nat /\ k + 1 \in 1 .. k + 1
      /\ k + 1 \in DOMAIN c.rois
  BY DEF PadInv, PadContext
<1>2. done = <<>> <=> k = 0
  BY <1>1
<1>3. k + 1 = 1 <=> k = 0
  BY <1>1
<1>4. Last(done) = done[k] /\ (k + 1) - 1 = k
  BY <1>1 DEF Last
<1>5. PadStep(c, done, r) = d2
  <2>1. (IF done = <<>> /\ r.first < c.left THEN 0 ELSE (r.first - c.left) % Wrap) = PadStart(c, k + 1)
    BY <1>2, <1>3, Zenon DEF PadStart
  <2>2. (IF done # <<>> /\ Last(done).second >= PadStart(c, k + 1)
           THEN Last(done).second + 1 ELSE PadStart(c, k + 1)) = PadFirst(c, k + 1, done)
    BY <1>2, <1>3, <1>4, Zenon DEF PadFirst
  <2> QED BY <2>1, <2>2, Zenon DEF PadStep, PadSecond
<1>6. PadFirst(c, k + 1, done) \in Nat /\ PadSecond(c, k + 1) \in Nat
  <2>1. PadStart(c, k + 1) \in Nat /\ PadSecond(c, k + 1) \in Nat
    BY <1>1, PadTyped
  <2>2. k # 0 => done[k].second \in Nat
    <3>1. k # 0 => k \in DOMAIN done
      BY <1>1
    <3> QED BY <1>1, <3>1, RoiAt, Zenon
  <2> QED BY <1>3, <1>4, <2>1, <2>2 DEF PadFirst
<1>7. new \in RoiRec
  BY <1>6 DEF RoiRec
<1>8. d2 \in Seq(RoiRec) /\ Len(d2) = k + 1 /\ d2[k + 1] = new /\ \A j \in 1 .. k : d2[j] = done[j]
  BY <1>1, <1>7
<1>9. new.first = PadFirst(c, k + 1, done) /\ new.second = PadSecond(c, k + 1)
  OBVIOUS
<1> HIDE DEF new, d2
<1>10. \A j \in 1 .. k + 1 : PadFirst(c, j, d2) = PadFirst(c, j, done)
  <2>1. SUFFICES ASSUME NEW j \in 1 .. k + 1, j # 1 PROVE d2[j - 1] = done[j - 1]
    BY Zenon DEF PadFirst
  <2>2. j - 1 \in 1 .. k
    BY <2>1
  <2> QED BY <1>8, <2>2, Zenon
<1>11. ASSUME NEW j \in 1 .. k + 1
       PROVE  d2[j].first = PadFirst(c, j, d2) /\ d2[j].second = PadSecond(c, j)
  <2>1. CASE j = k + 1
    BY <1>8, <1>9, <1>10, <2>1, Zenon
  <2>2. CASE j # k + 1
    <3>1. j \in 1 .. k
      BY <1>1, <2>2
    <3> QED BY <1>8, <1>10, <3>1, Zenon DEF PadInv
  <2> QED BY <2>1, <2>2
<1> QED BY <1>5, <1>8, <1>11, Zenon DEF PadInv

(* The padding is a fold of PadStep.                                       *)
PadFold == INSTANCE FoldTheorems WITH Step <- PadStep, Inv <- PadInv

(* All regions padded.                                                     *)
LEMMA PadOK ==
  ASSUME NEW rs \in Seq(RoiRec), NEW left \in Nat, NEW right \in Nat, NEW size \in Nat
  PROVE  PadInv([rois |-> rs, left |-> left, right |-> right, size |-> size], Len(rs),
                PadROI(rs, left, right, size))
<1> DEFINE c == [rois |-> rs, left |-> left, right |-> right, size |-> size]
<1>1. c.rois = rs /\ c.left = left /\ c.right = right /\ c.size = size
  OBVIOUS
<1>2. PadROI(rs, left, right, size) = PadFold!Fold(c, <<>>, rs)
  <2> HIDE DEF c
  <2>1. PadROI(c.rois, c.left, c.right, c.size) = PadFold!Fold(c, <<>>, c.rois)
    BY Zenon DEF PadROI, PadFold!Fold, PadStep, PadFold!FoldLeft, PadFold!MapThenFoldSet,
        FoldLeft, MapThenFoldSet, PadFold!Max, Max
  <2> QED BY <1>1, <2>1, Zenon
<1>3. Len(rs) \in Nat /\ DOMAIN rs = 1 .. Len(rs)
  OBVIOUS
<1>4. PadContext(c)
  BY DEF PadContext
<1>5. PadInv(c, 0, <<>>)
  <2>1. <<>> \in Seq(RoiRec) /\ Len(<<>>) = 0 /\ 1 .. 0 = {}
    OBVIOUS
  <2> HIDE DEF c
  <2> QED BY <2>1, Zenon DEF PadInv
<1> HIDE DEF c
<1>6. \A k \in 0 .. Len(rs) - 1 : \A done : PadInv(c, k, done) => PadInv(c, k + 1, PadStep(c, done, rs[k + 1]))
  BY <1>1, <1>4, PadStepOK, Zenon
<1>7. PadInv(c, Len(rs), PadFold!Fold(c, <<>>, rs))
  BY <1>3, <1>5, <1>6, PadFold!FoldInvariant, Zenon
<1> QED BY <1>2, <1>7, Zenon DEF c

-----------------------------------------------------------------------------
(* Regions as the scan leaves them: not empty, apart, in order             *)
InTurn(rs, n) ==
  /\ rs \in Seq(RoiRec)
  /\ \A k \in DOMAIN rs : rs[k].first < rs[k].second /\ rs[k].second <= n
  /\ \A k, m \in DOMAIN rs : k < m => rs[k].second <= rs[m].first

(* Padded, regions in turn are apart, end inside the data, and start       *)
(* before what they started with, except where the one before them has     *)
(* padded into it.                                                         *)
LEMMA PaddedRegions ==
  ASSUME NEW n \in 0 .. Wrap - 1, NEW rs, InTurn(rs, n), NEW left \in Nat, NEW right \in Nat
  PROVE  LET d == PadROI(rs, left, right, n)
         IN  /\ d \in Seq(RoiRec) /\ Len(d) = Len(rs)
             /\ \A k \in DOMAIN rs : /\ d[k].second <= n /\ rs[k].second <= d[k].second
                                     /\ d[k].second = Smaller(rs[k].second + right, n)
             /\ \A k, m \in DOMAIN rs : k < m => d[k].second < d[m].first
             /\ \A k \in DOMAIN rs : k = 1 => d[k].first <= rs[k].first
             /\ \A k \in DOMAIN rs : (k # 1 /\ rs[k].first >= left) =>
                  IF d[k - 1].second < rs[k].first - left THEN d[k].first = rs[k].first - left
                  ELSE d[k].first = d[k - 1].second + 1
<1> DEFINE c == [rois |-> rs, left |-> left, right |-> right, size |-> n]
           d == PadROI(rs, left, right, n)
<1>1. n \in Nat /\ n < Wrap /\ Wrap \in Nat
  BY RoiAssumption
<1>2. rs \in Seq(RoiRec)
  BY DEF InTurn
<1>3. PadInv(c, Len(rs), d)
  BY <1>1, <1>2, PadOK
<1>4. c.rois = rs /\ c.left = left /\ c.right = right /\ c.size = n
  OBVIOUS
<1>5. PadContext(c)
  BY <1>1, <1>2 DEF PadContext
<1> HIDE DEF c, d
<1>6. d \in Seq(RoiRec) /\ Len(d) = Len(rs) /\ DOMAIN rs = 1 .. Len(rs) /\ Len(rs) \in Nat
      /\ DOMAIN d = 1 .. Len(rs)
  BY <1>2, <1>3 DEF PadInv
<1>7. \A k \in DOMAIN rs : d[k].first = PadFirst(c, k, d) /\ d[k].second = PadSecond(c, k)
  BY <1>3, <1>6, Zenon DEF PadInv
<1>8. \A k \in DOMAIN rs : rs[k].first \in Nat /\ rs[k].second \in Nat
                           /\ d[k].first \in Nat /\ d[k].second \in Nat
  BY <1>2, <1>6, RoiAt, Zenon
<1>9. ASSUME NEW k \in DOMAIN rs
      PROVE  /\ d[k].second <= n /\ rs[k].second <= d[k].second
             /\ d[k].second = Smaller(rs[k].second + right, n)
  <2> DEFINE b == rs[k].second
             e == d[k].second
  <2>1. e = (IF b + right < n THEN b + right ELSE n) /\ e = Smaller(b + right, n)
    BY <1>4, <1>7, Zenon DEF PadSecond, Smaller
  <2>2. b \in Nat /\ e \in Nat /\ b <= n
    BY <1>8 DEF InTurn
  <2>3. e <= n /\ b <= e
    <3> HIDE DEF b, e
    <3> QED BY <1>1, <2>1, <2>2
  <2> QED BY <2>1, <2>3, Zenon
<1>10. ASSUME NEW k \in DOMAIN rs, NEW m \in DOMAIN rs, k < m PROVE d[k].second <= d[m].second
  <2> DEFINE bk == rs[k].second
             bm == rs[m].second
             am == rs[m].first
             ek == d[k].second
             em == d[m].second
  <2>1. /\ ek = (IF bk + right < n THEN bk + right ELSE n)
        /\ em = (IF bm + right < n THEN bm + right ELSE n)
    BY <1>4, <1>7, Zenon DEF PadSecond, Smaller
  <2>2. bk \in Nat /\ bm \in Nat /\ am \in Nat /\ bk <= am /\ am < bm
    BY <1>8, <1>10 DEF InTurn
  <2> HIDE DEF bk, bm, am, ek, em
  <2>3. ek <= em
    BY <1>1, <2>1, <2>2
  <2> QED BY <2>3 DEF ek, em
<1>11. ASSUME NEW m \in DOMAIN rs, m # 1
       PROVE  /\ m - 1 \in DOMAIN rs /\ d[m - 1].second < d[m].first
              /\ d[m].first = IF d[m - 1].second >= PadStart(c, m) THEN d[m - 1].second + 1 ELSE PadStart(c, m)
  <2>1. m - 1 \in DOMAIN rs
    BY <1>6, <1>11
  <2> DEFINE e == d[m - 1].second
             f == d[m].first
             s == PadStart(c, m)
  <2>2. f = IF e >= s THEN e + 1 ELSE s
    BY <1>7, <1>11, Zenon DEF PadFirst
  <2>3. e \in Nat /\ s \in Nat
    BY <1>4, <1>5, <1>8, <2>1, PadTyped
  <2>4. e < f
    <3> HIDE DEF e, f, s
    <3> QED BY <2>2, <2>3
  <2> QED BY <2>1, <2>2, <2>4, Zenon
<1>12. ASSUME NEW k \in DOMAIN rs, NEW m \in DOMAIN rs, k < m PROVE d[k].second < d[m].first
  <2>1. m # 1 /\ m - 1 \in DOMAIN rs /\ (k = m - 1 \/ k < m - 1)
    BY <1>6, <1>12
  <2>2. d[k].second <= d[m - 1].second
    BY <1>8, <1>10, <2>1
  <2>3. d[m - 1].second < d[m].first
    BY <1>11, <2>1, Zenon
  <2> QED BY <1>8, <2>1, <2>2, <2>3
<1>13. ASSUME NEW k \in DOMAIN rs PROVE rs[k].first >= left => PadStart(c, k) = rs[k].first - left
  <2> DEFINE a == rs[k].first
  <2>1. PadStart(c, k) = IF k = 1 /\ a < left THEN 0 ELSE (a - left) % Wrap
    BY <1>4, Zenon DEF PadStart
  <2>2. a \in Nat /\ a < Wrap
    <3>1. rs[k].first < rs[k].second /\ rs[k].second <= n
      BY DEF InTurn
    <3> QED BY <1>1, <1>8, <3>1
  <2>3. a >= left => PadStart(c, k) = a - left
    <3> HIDE DEF a
    <3>1. a >= left => a - left \in 0 .. Wrap - 1
      BY <1>1, <2>2
    <3>2. a >= left => (a - left) % Wrap = a - left
      BY <1>1, <3>1
    <3> QED BY <2>1, <2>2, <3>2
  <2> QED BY <2>3
<1>14. ASSUME NEW k \in DOMAIN rs, k = 1 PROVE d[k].first <= rs[k].first
  <2> DEFINE a == rs[k].first
  <2>1. d[k].first = PadStart(c, k)
    BY <1>7, <1>14, Zenon DEF PadFirst
  <2>2. a < left => PadStart(c, k) = 0
    BY <1>4, <1>14, Zenon DEF PadStart
  <2> QED BY <1>8, <1>13, <2>1, <2>2
<1>15. ASSUME NEW k \in DOMAIN rs, k # 1, rs[k].first >= left
       PROVE  IF d[k - 1].second < rs[k].first - left THEN d[k].first = rs[k].first - left
              ELSE d[k].first = d[k - 1].second + 1
  <2> DEFINE e == d[k - 1].second
             f == d[k].first
             s == rs[k].first - left
  <2>1. f = (IF e >= s THEN e + 1 ELSE s) /\ k - 1 \in DOMAIN rs
    BY <1>11, <1>13, <1>15, Zenon
  <2>2. e \in Int /\ s \in Int
    BY <1>8, <2>1
  <2>3. IF e < s THEN f = s ELSE f = e + 1
    <3> HIDE DEF e, f, s
    <3> QED BY <2>1, <2>2
  <2> QED BY <2>3
<1> QED BY <1>6, <1>9, <1>12, <1>14, <1>15, Zenon DEF d

(* Every sample from the start of a region to its padded end is in a       *)
(* padded region, right before one, or behind one that started less than   *)
(* the left padding after sample 0.                                        *)
LEMMA PaddedKeepSignal ==
  ASSUME NEW n \in 0 .. Wrap - 1, NEW rs, InTurn(rs, n), NEW left \in Nat, NEW right \in Nat,
         NEW r \in DOMAIN rs, NEW i \in Nat, rs[r].first <= i, i < rs[r].second
  PROVE  LET d == PadROI(rs, left, right, n)
         IN  \/ \E k \in DOMAIN rs : d[k].first <= i /\ i < d[k].second
             \/ \E k \in DOMAIN rs \ {1} :
                  \/ i = d[k].first - 1
                  \/ rs[k].first < left /\ rs[k].first <= i /\ i <= d[k].second
<1> DEFINE d == PadROI(rs, left, right, n)
           Kept == \/ \E k \in DOMAIN rs : d[k].first <= i /\ i < d[k].second
                   \/ \E k \in DOMAIN rs \ {1} :
                        \/ i = d[k].first - 1
                        \/ rs[k].first < left /\ rs[k].first <= i /\ i <= d[k].second
           P(k) == k \in DOMAIN rs /\ rs[k].first <= i /\ i < d[k].second
           B == {k \in Nat : P(k)}
<1> HIDE DEF Kept, P, B
<1>a. d \in Seq(RoiRec) /\ Len(d) = Len(rs)
  BY PaddedRegions
<1>b. \A k \in DOMAIN rs : d[k].second <= n /\ rs[k].second <= d[k].second
  BY PaddedRegions, Zenon
<1>c. \A k \in DOMAIN rs : k = 1 => d[k].first <= rs[k].first
  BY PaddedRegions, Zenon
<1>d. \A k \in DOMAIN rs : (k # 1 /\ rs[k].first >= left) =>
           IF d[k - 1].second < rs[k].first - left THEN d[k].first = rs[k].first - left
           ELSE d[k].first = d[k - 1].second + 1
  BY PaddedRegions
<1>1. /\ d \in Seq(RoiRec) /\ Len(d) = Len(rs)
      /\ \A k \in DOMAIN rs : d[k].second <= n /\ rs[k].second <= d[k].second
      /\ \A k \in DOMAIN rs : k = 1 => d[k].first <= rs[k].first
      /\ \A k \in DOMAIN rs : (k # 1 /\ rs[k].first >= left) =>
           IF d[k - 1].second < rs[k].first - left THEN d[k].first = rs[k].first - left
           ELSE d[k].first = d[k - 1].second + 1
  BY <1>a, <1>b, <1>c, <1>d, Zenon
<1> HIDE DEF d
<1>2. /\ rs \in Seq(RoiRec) /\ DOMAIN rs = 1 .. Len(rs) /\ Len(rs) \in Nat
      /\ DOMAIN d = DOMAIN rs
  BY <1>1 DEF InTurn
<1>3. \A k \in DOMAIN rs : rs[k].first \in Nat /\ rs[k].second \in Nat
                           /\ d[k].first \in Nat /\ d[k].second \in Nat
  BY <1>1, <1>2, RoiAt, Zenon
<1> USE DEF Kept, P, B
<1>4. r \in B
  <2>1. r \in Nat /\ i < d[r].second
    BY <1>1, <1>2, <1>3
  <2> QED BY <2>1
<1>5. PICK k \in B : \A m \in B : k <= m
  BY <1>4, LeastNumber, Zenon
<1>6. k \in DOMAIN rs /\ rs[k].first <= i /\ i < d[k].second /\ k \in Nat
  BY <1>5
<1>7. \A m \in B : k <= m
  BY <1>5
<1>8. CASE k = 1
  <2>1. d[k].first <= i
    BY <1>1, <1>3, <1>6, <1>8
  <2> QED BY <1>6, <2>1, Zenon DEF d
<1>9. CASE k # 1 /\ rs[k].first < left
  <2>1. k \in DOMAIN rs \ {1} /\ i <= d[k].second
    BY <1>3, <1>6, <1>9
  <2> QED BY <1>6, <1>9, <2>1, Zenon DEF d
<1>10. CASE k # 1 /\ ~(rs[k].first < left)
  <2> DEFINE e == d[k - 1].second
             f == d[k].first
             a == rs[k].first
  <2>1. k - 1 \in DOMAIN rs /\ k - 1 < k /\ k - 1 \in Nat
    BY <1>2, <1>6, <1>10
  <2>2. e \in Nat /\ f \in Nat /\ a \in Nat
    BY <1>3, <1>6, <2>1
  <2>3. IF e < a - left THEN f = a - left ELSE f = e + 1
    <3>1. a >= left
      BY <1>10, <2>2
    <3> QED BY <1>1, <1>6, <1>10, <3>1, Zenon
  <2>4. CASE f <= i
    BY <1>6, <2>4, Zenon DEF d
  <2>5. CASE i = f - 1
    BY <1>6, <1>10, <2>5 DEF d
  <2>6. CASE ~(f <= i) /\ i # f - 1
    <3>1. i < e
      <4>1. a <= i
        BY <1>6
      <4> HIDE DEF e, f, a
      <4> QED BY <2>2, <2>3, <2>6, <4>1
    <3>2. rs[k - 1].first <= i
      <4>1. rs[k - 1].first < rs[k - 1].second /\ rs[k - 1].second <= rs[k].first
        BY <1>6, <2>1 DEF InTurn
      <4> QED BY <1>3, <1>6, <2>1, <4>1
    <3>3. k - 1 \in B
      BY <2>1, <3>1, <3>2
    <3>4. k <= k - 1
      BY <1>7, <3>3, Zenon
    <3> QED BY <1>6, <3>4
  <2> QED BY <2>4, <2>5, <2>6
<1> QED BY <1>8, <1>9, <1>10

-----------------------------------------------------------------------------
(* The search for hits (lowrecon/src/AlgoMultiHit.cc)                      *)

(* A hit found in the samples of one fragment, and the state of the search *)
FoundHit == [start : Nat, max : Nat, end : Nat, amp : Int]
SearchState == [hitFlag : BOOLEAN, single : BOOLEAN, hit : FoundHit,
                minimum : Int, minSample : Int, hits : Seq(FoundHit)]

(* The two records, field by field.                                        *)
HitAt(s, m, e, a) == [start |-> s, max |-> m, end |-> e, amp |-> a]
SearchAt(f, s, h, mn, ms, hs) ==
  [hitFlag |-> f, single |-> s, hit |-> h, minimum |-> mn, minSample |-> ms, hits |-> hs]

(* The samples, the thresholds and the least width of a hit.               *)
AlgoContext(c, n) ==
  n \in Nat /\ c.data \in [0 .. n - 1 -> Int] /\ c.th1 \in Int /\ c.th2 \in Nat /\ c.minWidth \in Nat

(* All samples from p to q above threshold, those around them not, the one *)
(* behind before sample k                                                  *)
PulseIn(c, k, p, q) ==
  /\ p <= q /\ q + 1 < k
  /\ \A j \in p .. q : c.data[j] > c.th1
  /\ p # 0 => ~(c.data[p - 1] > c.th1)
  /\ ~(c.data[q + 1] > c.th1)

(* A hit inside the samples from p to q.                                   *)
Within(h, p, q) == p <= h.start /\ h.end <= q

(* Every sample from p to q is in a hit that is itself inside them.        *)
CoveredBy(hs, p, q) ==
  \A j \in p .. q : \E m \in DOMAIN hs : Within(hs[m], p, q) /\ hs[m].start <= j /\ j <= hs[m].end

(* A closed hit before sample e                                            *)
ClosedHit(c, e, h) ==
  /\ h.start <= h.max /\ h.max <= h.end /\ h.end < e
  /\ h.amp = c.data[h.max]
  /\ \A j \in h.start .. h.end : c.data[j] <= h.amp /\ c.data[j] > c.th1

(* The hits so far are closed before e, and follow each other.             *)
ClosedHits(c, e, hs) ==
  /\ \A m \in DOMAIN hs : ClosedHit(c, e, hs[m])
  /\ \A a, b \in DOMAIN hs : a < b => hs[a].end < hs[b].start

(* The samples from gs to k - 1 are those above threshold before sample k  *)
GroupFrom(c, k, gs) ==
  /\ \A j \in gs .. k - 1 : c.data[j] > c.th1
  /\ gs # 0 => ~(c.data[gs - 1] > c.th1)

(* The open hit has the highest of its samples, and no sample behind its   *)
(* minimum is far enough above it                                          *)
OpenHit(c, k, gs, h, mn, ms) ==
  /\ gs <= h.start /\ h.start <= h.max /\ h.max < k /\ h.end = 0
  /\ h.amp = c.data[h.max]
  /\ \A j \in h.start .. k - 1 : c.data[j] <= h.amp
  /\ -1 <= ms /\ ms < k
  /\ ms >= 0 => /\ h.max < ms /\ mn = c.data[ms] /\ mn < h.amp - c.th2
                /\ \A j \in ms .. k - 1 : c.data[j] <= mn + c.th2

(* The group up to the open hit is divided without a gap                   *)
PiecesFrom(hs, gs, e) ==
  \A j \in gs .. e - 1 : \E m \in DOMAIN hs : gs <= hs[m].start /\ hs[m].start <= j /\ j <= hs[m].end

(* A hit so far is in a pulse that has ended, or in the one from gs on.    *)
FromPulses(c, k, gs, hs) ==
  \A m \in DOMAIN hs : \/ gs <= hs[m].start
                       \/ \E p, q \in Nat : PulseIn(c, k, p, q) /\ Within(hs[m], p, q)

(* A pulse that has ended and is wide enough is covered by hits.           *)
PulsesCovered(c, k, hs) ==
  \A p, q \in Nat : PulseIn(c, k, p, q) /\ q - p + 1 >= c.minWidth => CoveredBy(hs, p, q)

(* The samples before k, from gs on a group; the hits end before sample e  *)
Grouped(c, k, gs, e, hs) ==
  GroupFrom(c, k, gs) /\ ClosedHits(c, e, hs) /\ FromPulses(c, k, gs, hs) /\ PulsesCovered(c, k, hs)

(* The state of the search inside a pulse that started at gs.              *)
InGroup(c, k, gs, h, mn, ms, hs) ==
  /\ gs < k /\ OpenHit(c, k, gs, h, mn, ms)
  /\ PiecesFrom(hs, gs, h.start) /\ Grouped(c, k, gs, h.start, hs)

(* The state of the search after k samples.                                *)
AlgoInv(c, k, st) ==
  /\ st \in SearchState
  /\ st.hitFlag => \E gs \in 0 .. k :
       /\ InGroup(c, k, gs, st.hit, st.minimum, st.minSample, st.hits)
       /\ st.single => st.hit.start = gs
  /\ ~st.hitFlag => Grouped(c, k, k, k, st.hits)

(* One sample of the search.                                               *)
AlgoStep(c, st, i) ==
  IF c.data[i] > c.th1 THEN AboveThreshold(st, i, c.data[i], c.th2)
  ELSE BelowThreshold(st, i, c.minWidth)

(* The fields of a hit found.                                              *)
LEMMA FoundFields ==
  ASSUME NEW h \in FoundHit
  PROVE  /\ h.start \in Nat /\ h.max \in Nat /\ h.end \in Nat /\ h.amp \in Int
         /\ h = HitAt(h.start, h.max, h.end, h.amp)
BY DEF FoundHit, HitAt

(* The fields of the state of the search.                                  *)
LEMMA SearchFields ==
  ASSUME NEW st \in SearchState
  PROVE  /\ st.hitFlag \in BOOLEAN /\ st.single \in BOOLEAN /\ st.hit \in FoundHit
         /\ st.minimum \in Int /\ st.minSample \in Int /\ st.hits \in Seq(FoundHit)
         /\ st = SearchAt(st.hitFlag, st.single, st.hit, st.minimum, st.minSample, st.hits)
<1> HIDE DEF FoundHit
<1> QED BY DEF SearchState, SearchAt

(* What sample i above threshold makes of the search: a new hit, a deeper  *)
(* minimum, a split, a higher peak, or nothing                             *)
AboveOutcome(r, f, s, h, hs, a, m, amp, mn, ms, i, d, th2) ==
  \/ ~f /\ r = SearchAt(TRUE, TRUE, HitAt(i, i, 0, d), mn, -1, hs)
  \/ f /\ d < amp - th2 /\ r = SearchAt(TRUE, s, h, d, i, hs)
  \/ /\ f /\ ms >= 0 /\ d > mn + th2
     /\ r = SearchAt(TRUE, FALSE, HitAt(ms, i, 0, d), mn, -1, Append(hs, HitAt(a, m, ms - 1, amp)))
  \/ f /\ ms = -1 /\ d > amp /\ r = SearchAt(TRUE, s, HitAt(a, i, 0, d), mn, ms, hs)
  \/ f /\ d <= amp /\ (ms >= 0 => d <= mn + th2) /\ r = SearchAt(TRUE, s, h, mn, ms, hs)

(* A sample above the threshold opens a hit, raises its peak, is a new     *)
(* minimum, splits the hit, or changes nothing.                            *)
LEMMA AboveCases ==
  ASSUME NEW f \in BOOLEAN, NEW s \in BOOLEAN, NEW hs \in Seq(FoundHit),
         NEW a \in Nat, NEW m \in Nat, NEW amp \in Int, NEW mn \in Int, NEW ms \in Int,
         NEW i \in Nat, NEW d \in Int, NEW th2 \in Nat,
         f => m < i /\ -1 <= ms /\ ms < i /\ (ms >= 0 => mn < amp - th2),
         NEW e, f => e = 0
  PROVE  AboveOutcome(AboveThreshold(SearchAt(f, s, HitAt(a, m, e, amp), mn, ms, hs), i, d, th2),
                      f, s, HitAt(a, m, e, amp), hs, a, m, amp, mn, ms, i, d, th2)
<1> DEFINE h == HitAt(a, m, e, amp)
           st == SearchAt(f, s, h, mn, ms, hs)
           A == IF st.hitFlag THEN st
                ELSE [st EXCEPT !.hitFlag = TRUE, !.single = TRUE,
                                !.hit = NewHit(i, i, d), !.minSample = -1]
           B == IF /\ i > A.hit.max
                   /\ d < A.hit.amp - th2
                   /\ A.minSample = -1 \/ A.minimum >= d
                  THEN [A EXCEPT !.minSample = i, !.minimum = d]
                  ELSE A
           C == IF B.minSample >= 0 /\ i > B.minSample /\ d > B.minimum + th2
                  THEN [B EXCEPT !.hits = Append(@, Split(B.hit, B.minSample)),
                                 !.single = FALSE,
                                 !.hit = NewHit(B.minSample, i, d),
                                 !.minSample = -1]
                  ELSE B
           R == IF C.hit.end = 0 /\ d > C.hit.amp THEN [C EXCEPT !.hit.max = i, !.hit.amp = d] ELSE C
<1>1. AboveThreshold(st, i, d, th2) = R
  BY Zenon DEF AboveThreshold
<1>2. NewHit(i, i, d) = HitAt(i, i, 0, d) /\ NewHit(ms, i, d) = HitAt(ms, i, 0, d)
  BY Zenon DEF NewHit, HitAt
<1>3. Split(h, ms) = HitAt(a, m, ms - 1, amp)
  BY DEF Split, HitAt
<1>4. CASE ~f
  <2>1. A = SearchAt(TRUE, TRUE, HitAt(i, i, 0, d), mn, -1, hs)
    BY <1>2, <1>4 DEF SearchAt
  <2> HIDE DEF A
  <2>2. A.hit.max = i /\ A.minSample = -1 /\ A.hit.amp = d
    BY <2>1 DEF SearchAt, HitAt
  <2>3. B = A
    BY <2>2
  <2>4. C = A
    <3> HIDE DEF B
    <3> QED BY <2>2, <2>3
  <2>5. R = A
    <3> HIDE DEF C, B
    <3> QED BY <2>2, <2>4
  <2> HIDE DEF R, C, B
  <2> QED BY <1>1, <1>4, <2>1, <2>5, Zenon DEF AboveOutcome
<1>5. CASE f
  <2>0. A = st
    BY <1>5 DEF SearchAt
  <2>1. /\ A.hit = h /\ A.minSample = ms /\ A.minimum = mn
        /\ h.max = m /\ h.amp = amp /\ h.end = 0
    BY <1>5, <2>0 DEF SearchAt, HitAt
  <2> HIDE DEF A
  <2>2. CASE d < amp - th2 /\ (ms = -1 \/ mn >= d)
    <3>1. B = SearchAt(TRUE, s, h, d, i, hs)
      <4>1. B = [A EXCEPT !.minSample = i, !.minimum = d]
        BY <1>5, <2>1, <2>2
      <4> HIDE DEF B, h
      <4> QED BY <1>5, <2>0, <4>1 DEF SearchAt
    <3> HIDE DEF B
    <3>2. B.minSample = i /\ B.hit = h
      BY <3>1 DEF SearchAt
    <3>3. C = B
      BY <3>2
    <3> HIDE DEF C
    <3>4. R = C
      <4>1. C.hit = h
        BY <3>2, <3>3
      <4>2. ~(d > amp)
        BY <2>2
      <4> QED BY <2>1, <4>1, <4>2, Zenon
    <3> HIDE DEF R
    <3> QED BY <1>1, <1>5, <2>2, <3>1, <3>3, <3>4, Zenon DEF AboveOutcome
  <2>3. CASE ~(d < amp - th2 /\ (ms = -1 \/ mn >= d))
    <3>1. B = A
      BY <2>1, <2>3
    <3> HIDE DEF B
    <3>2. CASE ms >= 0 /\ d > mn + th2
      <4>1. C = [B EXCEPT !.hits = Append(@, Split(B.hit, B.minSample)),
                          !.single = FALSE,
                          !.hit = NewHit(B.minSample, i, d),
                          !.minSample = -1]
        BY <1>5, <2>1, <3>1, <3>2
      <4>2. C = SearchAt(TRUE, FALSE, HitAt(ms, i, 0, d), mn, -1, Append(hs, HitAt(a, m, ms - 1, amp)))
        <5>1. B.hit = h /\ B.minSample = ms
          BY <2>1, <3>1
        <5>2. B.hits = hs
          BY <2>0, <3>1 DEF SearchAt
        <5>3. C = [B EXCEPT !.hits = Append(hs, HitAt(a, m, ms - 1, amp)),
                            !.single = FALSE,
                            !.hit = HitAt(ms, i, 0, d),
                            !.minSample = -1]
          <6> HIDE DEF C, h
          <6> QED BY <1>2, <1>3, <4>1, <5>1, <5>2
        <5> HIDE DEF C, h
        <5> QED BY <1>5, <2>0, <3>1, <5>3 DEF SearchAt
      <4> HIDE DEF C
      <4>3. C.hit.amp = d
        BY <4>2 DEF SearchAt, HitAt
      <4>4. R = C
        BY <4>3
      <4> HIDE DEF R
      <4> QED BY <1>1, <1>5, <3>2, <4>2, <4>4, Zenon DEF AboveOutcome
    <3>3. CASE ~(ms >= 0 /\ d > mn + th2)
      <4>1. C = A
        BY <2>1, <3>1, <3>3
      <4> HIDE DEF C
      <4>2. CASE d > amp
        <5>1. R = [C EXCEPT !.hit.max = i, !.hit.amp = d]
          BY <2>1, <4>1, <4>2, Zenon
        <5>2. R = SearchAt(TRUE, s, HitAt(a, i, 0, d), mn, ms, hs)
          <6>1. R = [st EXCEPT !.hit = [h EXCEPT !.max = i, !.amp = d]]
            <7> HIDE DEF R
            <7> QED BY <2>0, <4>1, <5>1 DEF SearchAt
          <6>2. [h EXCEPT !.max = i, !.amp = d] = HitAt(a, i, 0, d)
            <7>1. e = 0
              BY <1>5
            <7>2. [h EXCEPT !.max = i, !.amp = d] = HitAt(a, i, e, d)
              <8>1. h = HitAt(a, m, e, amp)
                OBVIOUS
              <8> HIDE DEF h, R, C, st
              <8> DEFINE k == [h EXCEPT !.max = i]
                         l == [k EXCEPT !.amp = d]
              <8>2. [h EXCEPT !.max = i, !.amp = d] = l
                OBVIOUS
              <8>3. k = [start |-> a, max |-> i, end |-> e, amp |-> amp]
                BY <8>1 DEF HitAt
              <8> HIDE DEF k
              <8>4. l = [start |-> a, max |-> i, end |-> e, amp |-> d]
                BY <8>3
              <8> HIDE DEF l
              <8> QED BY <8>2, <8>4, Zenon DEF HitAt
            <7> HIDE DEF h
            <7> QED BY <7>1, <7>2
          <6> HIDE DEF R, h
          <6> QED BY <1>5, <6>1, <6>2 DEF SearchAt
        <5>3. ms = -1
          BY <1>5, <3>3, <4>2
        <5> HIDE DEF R
        <5> QED BY <1>1, <1>5, <4>2, <5>2, <5>3, Zenon DEF AboveOutcome
      <4>3. CASE ~(d > amp)
        <5>1. R = C
          BY <2>1, <4>1, <4>3, Zenon
        <5>2. d <= amp /\ (ms >= 0 => d <= mn + th2)
          BY <3>3, <4>3
        <5> HIDE DEF R
        <5> QED BY <1>1, <1>5, <2>0, <4>1, <5>1, <5>2, Zenon DEF AboveOutcome
      <4> QED BY <4>2, <4>3
    <3> QED BY <3>2, <3>3
  <2> QED BY <2>2, <2>3
<1> QED BY <1>4, <1>5

(* The same, of a state that is not written field by field.                *)
LEMMA AboveForm ==
  ASSUME NEW f \in BOOLEAN, NEW s \in BOOLEAN, NEW h \in FoundHit, NEW mn \in Int, NEW ms \in Int,
         NEW hs \in Seq(FoundHit), NEW i \in Nat, NEW d \in Int, NEW th2 \in Nat,
         f => h.max < i /\ -1 <= ms /\ ms < i /\ (ms >= 0 => mn < h.amp - th2),
         f => h.end = 0
  PROVE  AboveOutcome(AboveThreshold(SearchAt(f, s, h, mn, ms, hs), i, d, th2),
                      f, s, h, hs, h.start, h.max, h.amp, mn, ms, i, d, th2)
<1> DEFINE a == h.start
           m == h.max
           e == h.end
           amp == h.amp
           h0 == HitAt(a, m, e, amp)
           r0 == AboveThreshold(SearchAt(f, s, h0, mn, ms, hs), i, d, th2)
<1>1. a \in Nat /\ m \in Nat /\ amp \in Int /\ h0 = h
  BY FoundFields, Zenon
<1> HIDE DEF a, m, e, amp
<1>2. f => m < i /\ -1 <= ms /\ ms < i /\ (ms >= 0 => mn < amp - th2)
  BY Zenon DEF m, amp
<1>3. f => e = 0
  BY Zenon DEF e
<1>4. AboveOutcome(r0, f, s, h0, hs, a, m, amp, mn, ms, i, d, th2)
  <2> HIDE DEF FoundHit
  <2> QED BY <1>1, <1>2, <1>3, AboveCases, Zenon
<1>5. AboveThreshold(SearchAt(f, s, h, mn, ms, hs), i, d, th2) = r0
  BY <1>1, Zenon
<1> HIDE DEF r0, h0
<1> QED BY <1>1, <1>4, <1>5, Zenon DEF a, m, amp

-----------------------------------------------------------------------------
(* A hit appended is the last one.                                         *)
LEMMA HitsAppended ==
  ASSUME NEW hs \in Seq(FoundHit), NEW h \in FoundHit
  PROVE  LET h2 == Append(hs, h)
         IN  /\ h2 \in Seq(FoundHit)
             /\ \A m \in DOMAIN hs : m \in DOMAIN h2 /\ h2[m] = hs[m]
             /\ Len(hs) + 1 \in DOMAIN h2 /\ h2[Len(hs) + 1] = h
             /\ \A m \in DOMAIN h2 : m \in DOMAIN hs \/ m = Len(hs) + 1
             /\ DOMAIN hs = 1 .. Len(hs) /\ Len(hs) \in Nat
<1> HIDE DEF FoundHit
<1> QED OBVIOUS

(* The fields of one of the hits.                                          *)
LEMMA FoundAt ==
  ASSUME NEW hs \in Seq(FoundHit), NEW m \in DOMAIN hs
  PROVE  hs[m].start \in Nat /\ hs[m].max \in Nat /\ hs[m].end \in Nat /\ hs[m].amp \in Int
<1>1. hs[m] \in FoundHit
  <2> HIDE DEF FoundHit
  <2> QED OBVIOUS
<1> QED BY <1>1, FoundFields, Zenon

(* A hit that starts after those so far is closed next.                    *)
LEMMA AppendClosed ==
  ASSUME NEW c, NEW e \in Nat, NEW hs \in Seq(FoundHit), ClosedHits(c, e, hs),
         NEW h \in FoundHit, e <= h.start, NEW e2 \in Nat, ClosedHit(c, e2, h)
  PROVE  ClosedHits(c, e2, Append(hs, h))
<1> DEFINE h2 == Append(hs, h)
           a == h.start
<1>1. h2 \in Seq(FoundHit) /\ DOMAIN hs = 1 .. Len(hs) /\ Len(hs) \in Nat
      /\ \A m \in DOMAIN h2 : \/ m \in DOMAIN hs /\ h2[m] = hs[m]
                              \/ m = Len(hs) + 1 /\ h2[m] = h
  BY HitsAppended
<1>2. a \in Nat /\ a < e2
  <2>1. h.start \in Nat /\ h.max \in Nat /\ h.end \in Nat
    BY FoundFields, Zenon
  <2>2. h.start <= h.max /\ h.max <= h.end /\ h.end < e2
    BY Zenon DEF ClosedHit
  <2> QED BY <2>1, <2>2
<1>3. ASSUME NEW m \in DOMAIN hs PROVE hs[m].end < a /\ ClosedHit(c, e2, hs[m])
  <2>1. ClosedHit(c, e, hs[m])
    BY Zenon DEF ClosedHits
  <2>2. hs[m].end \in Nat /\ hs[m].end < e
    BY <2>1, FoundAt, Zenon DEF ClosedHit
  <2>3. hs[m].end < a /\ hs[m].end < e2
    BY <1>2, <2>2
  <2> QED BY <2>1, <2>3, Zenon DEF ClosedHit
<1> HIDE DEF h2
<1>4. \A m \in DOMAIN h2 : ClosedHit(c, e2, h2[m])
  BY <1>1, <1>3, Zenon
<1>5. ASSUME NEW x \in DOMAIN h2, NEW y \in DOMAIN h2, x < y PROVE h2[x].end < h2[y].start
  <2>1. x \in DOMAIN hs /\ h2[x] = hs[x]
    <3>1. ~(Len(hs) + 1 < y)
      BY <1>1
    <3> QED BY <1>1, <1>5, <3>1, Zenon
  <2>2. CASE y \in DOMAIN hs /\ h2[y] = hs[y]
    BY <1>5, <2>1, <2>2, Zenon DEF ClosedHits
  <2>3. CASE h2[y] = h
    BY <1>3, <2>1, <2>3
  <2> QED BY <1>1, <2>2, <2>3
<1> QED BY <1>4, <1>5, Zenon DEF ClosedHits, h2

(* It may be appended where the others are.                                *)
LEMMA AppendPulses ==
  ASSUME NEW c, NEW k, NEW gs, NEW hs \in Seq(FoundHit), NEW h \in FoundHit
  PROVE  /\ FromPulses(c, k, gs, hs) /\ gs <= h.start => FromPulses(c, k, gs, Append(hs, h))
         /\ PulsesCovered(c, k, hs) => PulsesCovered(c, k, Append(hs, h))
<1> DEFINE h2 == Append(hs, h)
<1>1. /\ \A m \in DOMAIN h2 : (m \in DOMAIN hs /\ h2[m] = hs[m]) \/ h2[m] = h
      /\ \A m \in DOMAIN hs : m \in DOMAIN h2 /\ h2[m] = hs[m]
  BY HitsAppended
<1> HIDE DEF h2
<1>2. ASSUME FromPulses(c, k, gs, hs), gs <= h.start PROVE FromPulses(c, k, gs, h2)
  BY <1>1, <1>2, Zenon DEF FromPulses
<1>3. ASSUME PulsesCovered(c, k, hs) PROVE PulsesCovered(c, k, h2)
  <2>1. ASSUME NEW p, NEW q, CoveredBy(hs, p, q) PROVE CoveredBy(h2, p, q)
    <3>1. ASSUME NEW j \in p .. q
          PROVE  \E m \in DOMAIN h2 : Within(h2[m], p, q) /\ h2[m].start <= j /\ j <= h2[m].end
      <4>1. PICK m \in DOMAIN hs : Within(hs[m], p, q) /\ hs[m].start <= j /\ j <= hs[m].end
        BY <2>1, <3>1, Zenon DEF CoveredBy
      <4>2. m \in DOMAIN h2 /\ h2[m] = hs[m]
        BY <1>1
      <4> QED BY <4>1, <4>2
    <3> QED BY <3>1, Zenon DEF CoveredBy
  <2> QED BY <1>3, <2>1, Zenon DEF PulsesCovered
<1> QED BY <1>2, <1>3, Zenon DEF h2

(* A sample above threshold ends no pulse and belongs to the group.        *)
LEMMA AboveKeeps ==
  ASSUME NEW c, NEW n, AlgoContext(c, n), NEW k \in 0 .. n - 1, c.data[k] > c.th1,
         NEW gs \in 0 .. k, NEW hs
  PROVE  /\ GroupFrom(c, k, gs) => GroupFrom(c, k + 1, gs)
         /\ FromPulses(c, k, gs, hs) => FromPulses(c, k + 1, gs, hs)
         /\ PulsesCovered(c, k, hs) => PulsesCovered(c, k + 1, hs)
<1>1. n \in Nat /\ k \in Nat /\ gs \in Nat
  BY DEF AlgoContext
<1>2. GroupFrom(c, k, gs) => GroupFrom(c, k + 1, gs)
  <2>1. \A j \in gs .. (k + 1) - 1 : j \in gs .. k - 1 \/ j = k
    BY <1>1
  <2> QED BY <2>1, Zenon DEF GroupFrom
<1>3. ASSUME NEW p \in Nat, NEW q \in Nat PROVE PulseIn(c, k + 1, p, q) <=> PulseIn(c, k, p, q)
  <2>1. q + 1 < k => q + 1 < k + 1
    BY <1>1
  <2>2. q + 1 < k + 1 => q + 1 < k \/ q + 1 = k
    BY <1>1
  <2> QED BY <2>1, <2>2, Zenon DEF PulseIn
<1>4. FromPulses(c, k, gs, hs) => FromPulses(c, k + 1, gs, hs)
  BY <1>3, Zenon DEF FromPulses
<1>5. PulsesCovered(c, k, hs) => PulsesCovered(c, k + 1, hs)
  BY <1>3, Zenon DEF PulsesCovered
<1> QED BY <1>2, <1>4, <1>5, Zenon

(* A hit written field by field is one.                                    *)
LEMMA HitAtForm ==
  ASSUME NEW s \in Nat, NEW m \in Nat, NEW e \in Nat, NEW a \in Int, NEW h, h = HitAt(s, m, e, a)
  PROVE  h \in FoundHit /\ h.start = s /\ h.max = m /\ h.end = e /\ h.amp = a
BY DEF HitAt, FoundHit

(* A sample above the threshold keeps the pulse going.                     *)
LEMMA GroupGoesOn ==
  ASSUME NEW c, NEW n, AlgoContext(c, n), NEW k \in 0 .. n - 1, c.data[k] > c.th1,
         NEW gs \in 0 .. k, NEW e, NEW hs, Grouped(c, k, gs, e, hs)
  PROVE  Grouped(c, k + 1, gs, e, hs)
BY AboveKeeps, Zenon DEF Grouped

(* The first sample of a group                                             *)
LEMMA GroupStarts ==
  ASSUME NEW c, NEW n, AlgoContext(c, n), NEW k \in 0 .. n - 1, c.data[k] > c.th1,
         NEW hs, Grouped(c, k, k, k, hs), NEW mn
  PROVE  InGroup(c, k + 1, k, HitAt(k, k, 0, c.data[k]), mn, -1, hs)
<1> DEFINE h == HitAt(k, k, 0, c.data[k])
<1>1. n \in Nat /\ k \in Nat /\ c.data[k] \in Int /\ k \in 0 .. k
  BY DEF AlgoContext
<1>2. h.start = k /\ h.max = k /\ h.end = 0 /\ h.amp = c.data[k]
  <2> DEFINE d == c.data[k]
  <2>1. 0 \in Nat /\ k \in Nat /\ d \in Int
    BY <1>1
  <2>2. h = HitAt(k, k, 0, d)
    OBVIOUS
  <2> HIDE DEF h, d
  <2>3. h.start = k /\ h.max = k /\ h.end = 0 /\ h.amp = d
    BY <2>1, <2>2, HitAtForm
  <2> QED BY <2>3 DEF d
<1> HIDE DEF h
<1>3. k .. (k + 1) - 1 = {k} /\ k .. k - 1 = {} /\ k < k + 1 /\ k <= k /\ -1 <= -1 /\ -1 < k + 1 /\ ~(-1 >= 0)
      /\ c.data[k] <= c.data[k]
  BY <1>1
<1>4. OpenHit(c, k + 1, k, h, mn, -1)
  BY <1>2, <1>3, Zenon DEF OpenHit
<1>5. PiecesFrom(hs, k, h.start)
  BY <1>2, <1>3, Zenon DEF PiecesFrom
<1>6. Grouped(c, k + 1, k, h.start, hs)
  BY <1>1, <1>2, GroupGoesOn, Zenon
<1> QED BY <1>3, <1>4, <1>5, <1>6, Zenon DEF InGroup, h

(* The numbers an open hit is made of, for arithmetic.                     *)
LEMMA OpenFields ==
  ASSUME NEW c, NEW n, AlgoContext(c, n), NEW k \in 0 .. n, NEW gs \in 0 .. k,
         NEW h \in FoundHit, NEW mn \in Int, NEW ms \in Int, OpenHit(c, k, gs, h, mn, ms)
  PROVE  /\ h.start \in Nat /\ h.max \in Nat /\ h.amp \in Int /\ gs \in Nat /\ k \in Nat /\ c.th2 \in Nat
         /\ gs <= h.start /\ h.start <= h.max /\ h.max < k /\ h.end = 0
         /\ h.amp = c.data[h.max]
         /\ \A j \in h.start .. k - 1 : c.data[j] <= h.amp
         /\ -1 <= ms /\ ms < k
         /\ ms >= 0 => h.max < ms
         /\ ms >= 0 => mn = c.data[ms] /\ mn < h.amp - c.th2
         /\ ms >= 0 => \A j \in ms .. k - 1 : c.data[j] <= mn + c.th2
<1>1. h.start \in Nat /\ h.max \in Nat /\ h.amp \in Int
  BY FoundFields, Zenon
<1>2. n \in Nat /\ c.th2 \in Nat
  BY DEF AlgoContext
<1>3. gs \in Nat /\ k \in Nat
  BY <1>2
<1> QED BY <1>1, <1>2, <1>3, Zenon DEF OpenHit

(* A deeper minimum behind the peak                                        *)
LEMMA HitDeepens ==
  ASSUME NEW c, NEW n, AlgoContext(c, n), NEW k \in 0 .. n - 1, c.data[k] > c.th1, NEW gs \in 0 .. k,
         NEW h \in FoundHit, NEW mn \in Int, NEW ms \in Int, NEW hs, InGroup(c, k, gs, h, mn, ms, hs),
         c.data[k] < h.amp - c.th2
  PROVE  InGroup(c, k + 1, gs, h, c.data[k], k, hs)
<1> DEFINE d == c.data[k]
           amp == h.amp
           a == h.start
           m == h.max
           th2 == c.th2
<1>1. gs < k /\ OpenHit(c, k, gs, h, mn, ms) /\ PiecesFrom(hs, gs, h.start) /\ Grouped(c, k, gs, h.start, hs)
  BY Zenon DEF InGroup
<1>2. k \in 0 .. n /\ d \in Int /\ n \in Nat
  BY DEF AlgoContext
<1>3. /\ a \in Nat /\ m \in Nat /\ amp \in Int /\ gs \in Nat /\ k \in Nat /\ th2 \in Nat
      /\ gs <= a /\ a <= m /\ m < k /\ h.end = 0 /\ amp = c.data[m]
  BY <1>1, <1>2, OpenFields
<1>4. \A j \in a .. k - 1 : c.data[j] <= amp
  BY <1>1, <1>2, OpenFields, Zenon
<1>5. d < amp - th2
  OBVIOUS
<1> HIDE DEF amp, a, m, th2
<1>6. \A j \in a .. (k + 1) - 1 : c.data[j] <= amp
  <2>1. d <= amp
    BY <1>2, <1>3, <1>5
  <2>2. \A j \in a .. (k + 1) - 1 : j \in a .. k - 1 \/ j = k
    BY <1>3
  <2> QED BY <1>4, <2>1, <2>2, Zenon
<1>7. \A j \in k .. (k + 1) - 1 : c.data[j] <= d + th2
  <2>1. d <= d + th2
    BY <1>2, <1>3
  <2>2. \A j \in k .. (k + 1) - 1 : j = k
    BY <1>3
  <2> QED BY <2>1, <2>2, Zenon
<1>8. gs < k + 1 /\ m < k + 1 /\ -1 <= k /\ k < k + 1
  BY <1>3, <1>1
<1>9. OpenHit(c, k + 1, gs, h, d, k)
  BY <1>3, <1>5, <1>6, <1>7, <1>8, Zenon DEF OpenHit, amp, a, m, th2
<1>10. Grouped(c, k + 1, gs, h.start, hs)
  BY <1>1, GroupGoesOn, Zenon
<1> QED BY <1>1, <1>8, <1>9, <1>10, Zenon DEF InGroup

(* A higher peak                                                           *)
LEMMA HitRises ==
  ASSUME NEW c, NEW n, AlgoContext(c, n), NEW k \in 0 .. n - 1, c.data[k] > c.th1, NEW gs \in 0 .. k,
         NEW h \in FoundHit, NEW mn \in Int, NEW hs, InGroup(c, k, gs, h, mn, -1, hs),
         c.data[k] > h.amp
  PROVE  InGroup(c, k + 1, gs, HitAt(h.start, k, 0, c.data[k]), mn, -1, hs)
<1> DEFINE d == c.data[k]
           amp == h.amp
           a == h.start
           m == h.max
           h2 == HitAt(a, k, 0, d)
<1>1. gs < k /\ OpenHit(c, k, gs, h, mn, -1) /\ PiecesFrom(hs, gs, h.start) /\ Grouped(c, k, gs, h.start, hs)
  BY Zenon DEF InGroup
<1>2. k \in 0 .. n /\ d \in Int /\ n \in Nat /\ -1 \in Int
  BY DEF AlgoContext
<1>3. /\ a \in Nat /\ m \in Nat /\ amp \in Int /\ gs \in Nat /\ k \in Nat
      /\ gs <= a /\ a <= m /\ m < k /\ h.end = 0 /\ amp = c.data[m]
  BY <1>1, <1>2, OpenFields
<1>4. \A j \in a .. k - 1 : c.data[j] <= amp
  BY <1>1, <1>2, OpenFields, Zenon
<1>5. d > amp
  OBVIOUS
<1>6. h2.start = a /\ h2.max = k /\ h2.end = 0 /\ h2.amp = d
  <2>1. h2 = HitAt(a, k, 0, d)
    OBVIOUS
  <2>2. a \in Nat /\ k \in Nat /\ d \in Int
    BY <1>2, <1>3
  <2> HIDE DEF h2, a, d
  <2> QED BY <2>1, <2>2 DEF HitAt
<1> HIDE DEF amp, a, m, h2
<1>7. ASSUME NEW j \in a .. (k + 1) - 1 PROVE c.data[j] <= d
  <2>1. CASE j = k
    BY <1>2, <2>1
  <2>2. CASE j # k
    <3>1. j \in a .. k - 1 /\ j \in 0 .. n - 1
      BY <1>2, <1>3, <2>2
    <3>2. c.data[j] \in Int
      BY <3>1 DEF AlgoContext
    <3>3. c.data[j] <= amp
      BY <1>4, <3>1, Zenon
    <3> QED BY <1>2, <1>3, <1>5, <3>2, <3>3
  <2> QED BY <2>1, <2>2
<1>8. gs < k + 1 /\ k < k + 1 /\ a <= k /\ -1 <= -1 /\ -1 < k + 1 /\ ~(-1 >= 0)
  BY <1>3, <1>1
<1>9. OpenHit(c, k + 1, gs, h2, mn, -1)
  BY <1>3, <1>6, <1>7, <1>8, Zenon DEF OpenHit
<1>10. Grouped(c, k + 1, gs, a, hs)
  BY <1>1, GroupGoesOn, Zenon DEF a
<1> QED BY <1>1, <1>6, <1>8, <1>9, <1>10, Zenon DEF InGroup, h2, a

(* Neither minimum nor peak                                                *)
LEMMA HitGoesOn ==
  ASSUME NEW c, NEW n, AlgoContext(c, n), NEW k \in 0 .. n - 1, c.data[k] > c.th1, NEW gs \in 0 .. k,
         NEW h \in FoundHit, NEW mn \in Int, NEW ms \in Int, NEW hs, InGroup(c, k, gs, h, mn, ms, hs),
         c.data[k] <= h.amp, ms >= 0 => c.data[k] <= mn + c.th2
  PROVE  InGroup(c, k + 1, gs, h, mn, ms, hs)
<1> DEFINE d == c.data[k]
           amp == h.amp
           a == h.start
           m == h.max
           th2 == c.th2
<1>1. gs < k /\ OpenHit(c, k, gs, h, mn, ms) /\ PiecesFrom(hs, gs, h.start) /\ Grouped(c, k, gs, h.start, hs)
  BY Zenon DEF InGroup
<1>2. k \in 0 .. n /\ d \in Int /\ n \in Nat
  BY DEF AlgoContext
<1>3. /\ a \in Nat /\ m \in Nat /\ amp \in Int /\ gs \in Nat /\ k \in Nat /\ th2 \in Nat
      /\ gs <= a /\ a <= m /\ m < k /\ h.end = 0 /\ amp = c.data[m]
      /\ -1 <= ms /\ ms < k
      /\ ms >= 0 => m < ms
      /\ ms >= 0 => mn = c.data[ms] /\ mn < amp - th2
  BY <1>1, <1>2, OpenFields
<1>4. /\ \A j \in a .. k - 1 : c.data[j] <= amp
      /\ ms >= 0 => \A j \in ms .. k - 1 : c.data[j] <= mn + th2
  BY <1>1, <1>2, OpenFields, Zenon
<1>5. d <= amp /\ (ms >= 0 => d <= mn + th2)
  OBVIOUS
<1> HIDE DEF amp, a, m, th2
<1>6. \A j \in a .. (k + 1) - 1 : j \in a .. k - 1 \/ j = k
  BY <1>3
<1>7. \A j \in ms .. (k + 1) - 1 : j \in ms .. k - 1 \/ j = k
  BY <1>3
<1>8. gs < k + 1 /\ m < k + 1 /\ ms < k + 1
  BY <1>3, <1>1
<1>9. OpenHit(c, k + 1, gs, h, mn, ms)
  BY <1>3, <1>4, <1>5, <1>6, <1>7, <1>8, Zenon DEF OpenHit, amp, a, m, th2
<1>10. Grouped(c, k + 1, gs, h.start, hs)
  BY <1>1, GroupGoesOn, Zenon
<1> QED BY <1>1, <1>8, <1>9, <1>10, Zenon DEF InGroup

(* The signal rises again behind a minimum                                 *)
LEMMA HitSplits ==
  ASSUME NEW c, NEW n, AlgoContext(c, n), NEW k \in 0 .. n - 1, c.data[k] > c.th1, NEW gs \in 0 .. k,
         NEW h \in FoundHit, NEW mn \in Int, NEW ms \in Int, NEW hs \in Seq(FoundHit),
         InGroup(c, k, gs, h, mn, ms, hs), ms >= 0, c.data[k] > mn + c.th2
  PROVE  LET g == HitAt(h.start, h.max, ms - 1, h.amp)
         IN  /\ g \in FoundHit /\ ms \in Nat
             /\ InGroup(c, k + 1, gs, HitAt(ms, k, 0, c.data[k]), mn, -1, Append(hs, g))
<1> DEFINE d == c.data[k]
           amp == h.amp
           a == h.start
           m == h.max
           th2 == c.th2
           g == HitAt(a, m, ms - 1, amp)
           h2 == HitAt(ms, k, 0, d)
           hs2 == Append(hs, g)
<1>1. gs < k /\ OpenHit(c, k, gs, h, mn, ms) /\ PiecesFrom(hs, gs, h.start) /\ Grouped(c, k, gs, h.start, hs)
  BY Zenon DEF InGroup
<1>2. k \in 0 .. n /\ d \in Int /\ n \in Nat
  BY DEF AlgoContext
<1>3. /\ a \in Nat /\ m \in Nat /\ amp \in Int /\ gs \in Nat /\ k \in Nat /\ th2 \in Nat
      /\ gs <= a /\ a <= m /\ m < k /\ h.end = 0 /\ amp = c.data[m]
      /\ ms < k /\ m < ms
  BY <1>1, <1>2, OpenFields
<1>4. /\ \A j \in a .. k - 1 : c.data[j] <= amp
      /\ \A j \in ms .. k - 1 : c.data[j] <= mn + th2
  BY <1>1, <1>2, OpenFields, Zenon
<1>5. d > mn + th2
  OBVIOUS
<1>6. ms \in Nat /\ ms - 1 \in Nat
  <2> HIDE DEF m
  <2> QED BY <1>3
<1>7. g \in FoundHit /\ g.start = a /\ g.max = m /\ g.end = ms - 1 /\ g.amp = amp
  <2>1. g = HitAt(a, m, ms - 1, amp)
    OBVIOUS
  <2>2. a \in Nat /\ m \in Nat /\ ms - 1 \in Nat /\ amp \in Int
    BY <1>3, <1>6
  <2> DEFINE e == ms - 1
  <2> HIDE DEF g, a, m, amp, e
  <2>3. g = HitAt(a, m, e, amp) /\ a \in Nat /\ m \in Nat /\ e \in Nat /\ amp \in Int
    BY <2>1, <2>2, Zenon DEF e
  <2>4. g \in FoundHit /\ g.start = a /\ g.max = m /\ g.end = e /\ g.amp = amp
    BY <2>3 DEF HitAt, FoundHit
  <2> QED BY <2>4, Zenon DEF e
<1>8. h2.start = ms /\ h2.max = k /\ h2.end = 0 /\ h2.amp = d
  <2>1. h2 = HitAt(ms, k, 0, d)
    OBVIOUS
  <2> HIDE DEF h2, d
  <2> QED BY <2>1 DEF HitAt
<1> HIDE DEF amp, a, m, th2, g, h2
<1>9. ASSUME NEW j \in ms .. (k + 1) - 1 PROVE c.data[j] <= d
  <2>1. CASE j = k
    BY <1>2, <2>1
  <2>2. CASE j # k
    <3>1. j \in ms .. k - 1 /\ j \in 0 .. n - 1
      BY <1>2, <1>3, <1>6, <2>2
    <3>2. c.data[j] \in Int
      BY <3>1 DEF AlgoContext
    <3>3. c.data[j] <= mn + th2
      BY <1>4, <3>1, Zenon
    <3> QED BY <1>2, <1>3, <1>5, <3>2, <3>3
  <2> QED BY <2>1, <2>2
<1>10. /\ gs < k + 1 /\ k < k + 1 /\ ms <= k /\ gs <= ms
       /\ -1 <= -1 /\ -1 < k + 1 /\ ~(-1 >= 0)
  BY <1>3, <1>1, <1>6
<1>11. OpenHit(c, k + 1, gs, h2, mn, -1)
  BY <1>8, <1>9, <1>10, Zenon DEF OpenHit
<1>12. ClosedHit(c, ms, g)
  <2>1. a <= m /\ m <= ms - 1 /\ ms - 1 < ms
    BY <1>3, <1>6
  <2>2. \A j \in a .. ms - 1 : j \in a .. k - 1 /\ j \in gs .. k - 1
    BY <1>3, <1>6
  <2>3. \A j \in gs .. k - 1 : c.data[j] > c.th1
    BY <1>1, Zenon DEF Grouped, GroupFrom
  <2> QED BY <1>3, <1>4, <1>7, <2>1, <2>2, <2>3, Zenon DEF ClosedHit
<1>13. ClosedHits(c, ms, hs2)
  <2>1. ClosedHits(c, a, hs)
    BY <1>1, Zenon DEF Grouped, a
  <2>2. a <= g.start
    BY <1>3, <1>7
  <2> QED BY <1>3, <1>6, <1>7, <1>12, <2>1, <2>2, AppendClosed, Zenon
<1>14. Grouped(c, k + 1, gs, ms, hs2)
  <2>1. Grouped(c, k + 1, gs, a, hs)
    BY <1>1, GroupGoesOn, Zenon DEF a
  <2>2. gs <= g.start
    BY <1>3, <1>7
  <2> QED BY <1>7, <1>13, <2>1, <2>2, AppendPulses, Zenon DEF Grouped
<1>15. PiecesFrom(hs2, gs, ms)
  <2>1. /\ \A x \in DOMAIN hs : x \in DOMAIN hs2 /\ hs2[x] = hs[x]
        /\ Len(hs) + 1 \in DOMAIN hs2 /\ hs2[Len(hs) + 1] = g
    BY <1>7, HitsAppended, Zenon
  <2> HIDE DEF hs2
  <2>2. ASSUME NEW j \in gs .. ms - 1
        PROVE  \E x \in DOMAIN hs2 : gs <= hs2[x].start /\ hs2[x].start <= j /\ j <= hs2[x].end
    <3>1. CASE j < a
      <4>1. j \in gs .. a - 1
        BY <1>3, <3>1, <1>6
      <4>2. PICK x \in DOMAIN hs : gs <= hs[x].start /\ hs[x].start <= j /\ j <= hs[x].end
        BY <1>1, <4>1, Zenon DEF PiecesFrom, a
      <4>3. x \in DOMAIN hs2 /\ hs2[x] = hs[x]
        BY <2>1, Zenon
      <4> QED BY <4>2, <4>3
    <3>2. CASE ~(j < a)
      <4>1. a <= j /\ j <= ms - 1
        BY <1>3, <1>6, <3>2
      <4> QED BY <1>3, <1>7, <2>1, <4>1
    <3> QED BY <3>1, <3>2
  <2> QED BY <2>2, Zenon DEF PiecesFrom
<1> QED BY <1>6, <1>7, <1>8, <1>10, <1>11, <1>14, <1>15, Zenon DEF InGroup, g, h2, a, m, amp

(* Hits closed before e are closed before a later sample.                  *)
LEMMA ClosedLater ==
  ASSUME NEW c, NEW hs \in Seq(FoundHit), NEW e \in Nat, NEW e2 \in Nat, e <= e2, ClosedHits(c, e, hs)
  PROVE  ClosedHits(c, e2, hs)
<1>1. ASSUME NEW m \in DOMAIN hs PROVE ClosedHit(c, e2, hs[m])
  <2>1. hs[m].end \in Nat /\ ClosedHit(c, e, hs[m]) /\ hs[m].end < e
    BY FoundAt, Zenon DEF ClosedHits, ClosedHit
  <2>2. hs[m].end < e2
    BY <2>1
  <2> QED BY <2>1, <2>2, Zenon DEF ClosedHit
<1> QED BY <1>1, Zenon DEF ClosedHits

(* A pulse that has ended stays; a new one ends at the sample before.      *)
LEMMA PulseLater ==
  ASSUME NEW c, NEW k \in Nat, NEW p \in Nat, NEW q \in Nat
  PROVE  /\ PulseIn(c, k, p, q) => PulseIn(c, k + 1, p, q)
         /\ PulseIn(c, k + 1, p, q) => PulseIn(c, k, p, q) \/ q + 1 = k
<1>1. (q + 1 < k => q + 1 < k + 1) /\ (q + 1 < k + 1 => q + 1 < k \/ q + 1 = k)
  OBVIOUS
<1> QED BY <1>1, Zenon DEF PulseIn

(* The pulse that ends before sample k is the group                        *)
LEMMA PulseIsGroup ==
  ASSUME NEW c, NEW k \in Nat, NEW gs \in 0 .. k, GroupFrom(c, k, gs),
         NEW p \in Nat, NEW q \in Nat, PulseIn(c, k + 1, p, q), q + 1 = k
  PROVE  p = gs /\ gs < k
<1>1. /\ p <= q /\ \A j \in p .. q : c.data[j] > c.th1
      /\ p # 0 => ~(c.data[p - 1] > c.th1)
  BY Zenon DEF PulseIn
<1>2. /\ \A j \in gs .. k - 1 : c.data[j] > c.th1
      /\ gs # 0 => ~(c.data[gs - 1] > c.th1)
  BY Zenon DEF GroupFrom
<1>3. gs <= p
  <2>1. SUFFICES ASSUME p < gs PROVE FALSE
    OBVIOUS
  <2>2. gs # 0 /\ gs - 1 \in p .. q
    BY <2>1
  <2> QED BY <1>1, <1>2, <2>2, Zenon
<1>4. p <= gs
  <2>1. SUFFICES ASSUME gs < p PROVE FALSE
    OBVIOUS
  <2>2. p # 0 /\ p - 1 \in gs .. k - 1
    BY <1>1, <2>1
  <2> QED BY <1>1, <1>2, <2>2, Zenon
<1> QED BY <1>1, <1>3, <1>4

(* A sample below the threshold outside a pulse changes nothing.           *)
LEMMA NoGroup ==
  ASSUME NEW c, NEW n, AlgoContext(c, n), NEW k \in 0 .. n - 1, ~(c.data[k] > c.th1),
         NEW hs \in Seq(FoundHit), Grouped(c, k, k, k, hs)
  PROVE  Grouped(c, k + 1, k + 1, k + 1, hs)
<1>1. k \in Nat /\ k + 1 \in Nat /\ k <= k + 1 /\ k \in 0 .. k /\ ~(k < k) /\ (k + 1) - 1 = k
      /\ (k + 1) .. k = {}
  BY DEF AlgoContext
<1>2. GroupFrom(c, k + 1, k + 1)
  BY <1>1, Zenon DEF GroupFrom
<1>3. ClosedHits(c, k + 1, hs) /\ ClosedHits(c, k, hs)
  BY <1>1, ClosedLater, Zenon DEF Grouped
<1>4. FromPulses(c, k + 1, k + 1, hs)
  <2>1. ASSUME NEW m \in DOMAIN hs
        PROVE  \E p, q \in Nat : PulseIn(c, k + 1, p, q) /\ Within(hs[m], p, q)
    <3>1. hs[m].start \in Nat /\ hs[m].max \in Nat /\ hs[m].end \in Nat
      BY FoundAt, Zenon
    <3>2. hs[m].start <= hs[m].max /\ hs[m].max <= hs[m].end /\ hs[m].end < k
      BY <1>3, Zenon DEF ClosedHits, ClosedHit
    <3>3. ~(k <= hs[m].start)
      BY <1>1, <3>1, <3>2
    <3>4. PICK p \in Nat, q \in Nat : PulseIn(c, k, p, q) /\ Within(hs[m], p, q)
      BY <3>3, Zenon DEF Grouped, FromPulses
    <3> QED BY <1>1, <3>4, PulseLater, Zenon
  <2> QED BY <2>1, Zenon DEF FromPulses
<1>5. PulsesCovered(c, k + 1, hs)
  <2>1. ASSUME NEW p \in Nat, NEW q \in Nat, PulseIn(c, k + 1, p, q) PROVE PulseIn(c, k, p, q)
    BY <1>1, <2>1, PulseLater, PulseIsGroup, Zenon DEF Grouped
  <2> QED BY <2>1, Zenon DEF PulsesCovered, Grouped
<1> QED BY <1>2, <1>3, <1>4, <1>5, Zenon DEF Grouped

(* One inside a pulse ends it, with its last hit kept if the pulse was     *)
(* split or is wide enough.                                                *)
LEMMA GroupEnds ==
  ASSUME NEW c, NEW n, AlgoContext(c, n), NEW k \in 0 .. n - 1, ~(c.data[k] > c.th1),
         NEW gs \in 0 .. k, NEW h \in FoundHit, NEW mn \in Int, NEW ms \in Int,
         NEW hs \in Seq(FoundHit), InGroup(c, k, gs, h, mn, ms, hs),
         NEW g, g = HitAt(h.start, h.max, k - 1, h.amp),
         NEW hs2, \/ hs2 = Append(hs, g)
                  \/ hs2 = hs /\ h.start = gs /\ ~(k - h.start >= c.minWidth)
  PROVE  g \in FoundHit /\ Grouped(c, k + 1, k + 1, k + 1, hs2)
<1> DEFINE amp == h.amp
           a == h.start
           m == h.max
<1>1. gs < k /\ OpenHit(c, k, gs, h, mn, ms) /\ PiecesFrom(hs, gs, a) /\ Grouped(c, k, gs, a, hs)
  BY Zenon DEF InGroup
<1>2. k \in 0 .. n /\ n \in Nat /\ k \in Nat /\ k + 1 \in Nat /\ k - 1 + 1 = k /\ (k + 1) - 1 = k
      /\ (k + 1) .. k = {} /\ c.minWidth \in Nat
  BY DEF AlgoContext
<1>3. /\ a \in Nat /\ m \in Nat /\ amp \in Int /\ gs \in Nat
      /\ gs <= a /\ a <= m /\ m < k /\ amp = c.data[m]
  BY <1>1, <1>2, OpenFields
<1>4. \A j \in a .. k - 1 : c.data[j] <= amp
  BY <1>1, <1>2, OpenFields, Zenon
<1>5. k - 1 \in Nat
  <2> HIDE DEF m, a
  <2> QED BY <1>2, <1>3, SMTT(40)
<1>6. g \in FoundHit /\ g.start = a /\ g.max = m /\ g.end = k - 1 /\ g.amp = amp
  <2> DEFINE e == k - 1
  <2> HIDE DEF a, m, amp, e
  <2>1. g = HitAt(a, m, e, amp) /\ a \in Nat /\ m \in Nat /\ e \in Nat /\ amp \in Int
    BY <1>3, <1>5, Zenon DEF e, a, m, amp
  <2>2. g \in FoundHit /\ g.start = a /\ g.max = m /\ g.end = e /\ g.amp = amp
    BY <2>1 DEF HitAt, FoundHit
  <2> QED BY <2>2, Zenon DEF e
<1> HIDE DEF amp, a, m
<1>7. hs2 = Append(hs, g) \/ (hs2 = hs /\ a = gs /\ ~(k - gs >= c.minWidth))
  BY Zenon DEF a
<1>8. GroupFrom(c, k, gs) /\ ClosedHits(c, a, hs) /\ FromPulses(c, k, gs, hs) /\ PulsesCovered(c, k, hs)
  BY <1>1, Zenon DEF Grouped
<1>9. GroupFrom(c, k + 1, k + 1)
  BY <1>2, Zenon DEF GroupFrom
<1>10. ClosedHit(c, k + 1, g)
  <2>1. a <= m /\ m <= k - 1 /\ k - 1 < k + 1
    BY <1>2, <1>3, SMTT(40)
  <2>2. \A j \in a .. k - 1 : j \in gs .. k - 1
    BY <1>2, <1>3
  <2> QED BY <1>3, <1>4, <1>6, <1>8, <2>1, <2>2, Zenon DEF ClosedHit, GroupFrom
<1>11. ClosedHits(c, k + 1, hs2)
  <2>1. a <= g.start /\ a <= k + 1
    BY <1>2, <1>3, <1>6
  <2>2. ClosedHits(c, k + 1, Append(hs, g))
    BY <1>2, <1>3, <1>6, <1>8, <1>10, <2>1, AppendClosed, Zenon
  <2>3. ClosedHits(c, k + 1, hs)
    BY <1>2, <1>3, <1>8, <2>1, ClosedLater, Zenon
  <2> QED BY <1>7, <2>2, <2>3
<1>12. hs2 \in Seq(FoundHit) /\ \A x \in DOMAIN hs : x \in DOMAIN hs2 /\ hs2[x] = hs[x]
  BY <1>6, <1>7, HitsAppended
<1>13. PulseIn(c, k + 1, gs, k - 1) /\ gs <= k - 1
  <2>1. gs <= k - 1 /\ k < k + 1
    BY <1>1, <1>2, <1>3
  <2> QED BY <1>2, <1>8, <2>1, Zenon DEF PulseIn, GroupFrom
<1>14. FromPulses(c, k + 1, k + 1, hs2)
  <2>1. FromPulses(c, k, gs, hs2)
    <3>1. gs <= g.start
      BY <1>3, <1>6
    <3> QED BY <1>6, <1>7, <1>8, <3>1, AppendPulses, Zenon
  <2>2. ASSUME NEW x \in DOMAIN hs2
        PROVE  \E p, q \in Nat : PulseIn(c, k + 1, p, q) /\ Within(hs2[x], p, q)
    <3>1. hs2[x].start \in Nat /\ hs2[x].end \in Nat
      BY <1>12, FoundAt, Zenon
    <3>2. CASE gs <= hs2[x].start
      <4>1. hs2[x].end <= k - 1
        <5>1. CASE hs2 = hs
          <6>1. hs2[x].end < a
            BY <1>8, <5>1, Zenon DEF ClosedHits, ClosedHit
          <6> QED BY <1>2, <1>3, <3>1, <6>1
        <5>2. CASE hs2 = Append(hs, g)
          <6>1. (x \in DOMAIN hs /\ hs2[x] = hs[x]) \/ hs2[x] = g
            BY <1>6, <5>2, HitsAppended
          <6>2. CASE hs2[x] = g
            BY <1>2, <1>6, <6>2
          <6>3. CASE x \in DOMAIN hs /\ hs2[x] = hs[x]
            <7>1. hs2[x].end < a
              BY <1>8, <6>3, Zenon DEF ClosedHits, ClosedHit
            <7> QED BY <1>2, <1>3, <3>1, <7>1
          <6> QED BY <6>1, <6>2, <6>3
        <5> QED BY <1>7, <5>1, <5>2
      <4> QED BY <1>3, <1>5, <1>13, <3>2, <4>1, Zenon DEF Within
    <3>3. CASE ~(gs <= hs2[x].start)
      <4>1. PICK p \in Nat, q \in Nat : PulseIn(c, k, p, q) /\ Within(hs2[x], p, q)
        BY <2>1, <3>3, Zenon DEF FromPulses
      <4> QED BY <1>2, <4>1, PulseLater, Zenon
    <3> QED BY <3>2, <3>3
  <2> QED BY <2>2, Zenon DEF FromPulses
<1>15. PulsesCovered(c, k + 1, hs2)
  <2>0. PulsesCovered(c, k, hs2)
    BY <1>6, <1>7, <1>8, AppendPulses, Zenon
  <2>1. SUFFICES ASSUME NEW p \in Nat, NEW q \in Nat, PulseIn(c, k + 1, p, q), q - p + 1 >= c.minWidth
                 PROVE  CoveredBy(hs2, p, q)
    BY Zenon DEF PulsesCovered
  <2>2. CASE PulseIn(c, k, p, q)
    BY <2>0, <2>1, <2>2, Zenon DEF PulsesCovered
  <2>3. CASE q + 1 = k
    <3>1. p = gs
      BY <1>2, <1>8, <2>1, <2>3, PulseIsGroup, SMTT(40)
    <3>2. q = k - 1 /\ k - gs >= c.minWidth
      BY <1>2, <1>3, <2>1, <2>3, <3>1, SMTT(40)
    <3>3. hs2 = Append(hs, g)
      BY <1>7, <3>2, Zenon
    <3>4. Len(hs) + 1 \in DOMAIN hs2 /\ hs2[Len(hs) + 1] = g
      BY <1>6, <3>3, HitsAppended
    <3>5. ASSUME NEW j \in p .. q
          PROVE  \E x \in DOMAIN hs2 : Within(hs2[x], p, q) /\ hs2[x].start <= j /\ j <= hs2[x].end
      <4>1. CASE j < a
        <5>1. j \in gs .. a - 1
          BY <1>3, <3>1, <4>1
        <5>2. PICK x \in DOMAIN hs : gs <= hs[x].start /\ hs[x].start <= j /\ j <= hs[x].end
          BY <1>1, <5>1, Zenon DEF PiecesFrom
        <5>3. hs[x].end \in Nat /\ hs[x].end < a
          BY <1>8, FoundAt, Zenon DEF ClosedHits, ClosedHit
        <5>4. hs[x].end <= q
          BY <1>2, <1>3, <3>2, <5>3
        <5> QED BY <1>12, <3>1, <5>2, <5>4, Zenon DEF Within
      <4>2. CASE ~(j < a)
        <5>1. a <= j /\ j <= k - 1 /\ k - 1 <= k - 1
          BY <1>2, <1>3, <3>1, <3>2, <4>2
        <5> QED BY <1>3, <1>6, <3>1, <3>2, <3>4, <5>1, Zenon DEF Within
      <4> QED BY <4>1, <4>2
    <3> QED BY <3>5, Zenon DEF CoveredBy
  <2> QED BY <1>2, <2>1, <2>2, <2>3, PulseLater, Zenon
<1> QED BY <1>6, <1>9, <1>11, <1>14, <1>15, Zenon DEF Grouped

(* One more sample of the search.                                          *)
LEMMA AlgoStepOK ==
  ASSUME NEW c, NEW n, AlgoContext(c, n), NEW k \in 0 .. n - 1, NEW st, AlgoInv(c, k, st)
  PROVE  AlgoInv(c, k + 1, AlgoStep(c, st, k))
<1> DEFINE f == st.hitFlag
           s == st.single
           h == st.hit
           mn == st.minimum
           ms == st.minSample
           hs == st.hits
           a == h.start
           m == h.max
           e == h.end
           amp == h.amp
           d == c.data[k]
           r == AlgoStep(c, st, k)
<1>1. /\ n \in Nat /\ k \in Nat /\ k \in 0 .. n /\ k + 1 \in Nat /\ d \in Int /\ c.th2 \in Nat
      /\ k \in 0 .. k + 1 /\ 0 .. k \subseteq 0 .. k + 1
  BY DEF AlgoContext
<1>2. /\ f \in BOOLEAN /\ s \in BOOLEAN /\ h \in FoundHit /\ mn \in Int /\ ms \in Int /\ hs \in Seq(FoundHit)
      /\ st = SearchAt(f, s, h, mn, ms, hs)
  BY SearchFields, Zenon DEF AlgoInv
<1>3. a \in Nat /\ m \in Nat /\ e \in Nat /\ amp \in Int /\ h = HitAt(a, m, e, amp)
  BY <1>2, FoundFields, Zenon
<1>4. ~f => Grouped(c, k, k, k, hs)
  BY Zenon DEF AlgoInv
<1>5. ASSUME f
      PROVE  \E gs \in 0 .. k : InGroup(c, k, gs, h, mn, ms, hs) /\ (s => h.start = gs)
  BY <1>5, Zenon DEF AlgoInv
<1>6. ASSUME NEW gs \in 0 .. k, InGroup(c, k, gs, h, mn, ms, hs)
      PROVE  m < k /\ -1 <= ms /\ ms < k /\ (ms >= 0 => mn < amp - c.th2) /\ e = 0
  <2>1. OpenHit(c, k, gs, h, mn, ms)
    BY <1>6, Zenon DEF InGroup
  <2> QED BY <1>1, <1>2, <2>1, OpenFields
<1> HIDE DEF f, s, h, mn, ms, hs, a, m, e, amp
<1>7. ASSUME NEW r2 \in SearchState, r2.hitFlag, NEW gs \in 0 .. k + 1,
             InGroup(c, k + 1, gs, r2.hit, r2.minimum, r2.minSample, r2.hits),
             r2.single => r2.hit.start = gs
      PROVE  AlgoInv(c, k + 1, r2)
  BY <1>7, Zenon DEF AlgoInv
<1>8. CASE d > c.th1
  <2>1. r = AboveThreshold(st, k, d, c.th2)
    BY <1>8, Zenon DEF AlgoStep
  <2>2. f => m < k /\ -1 <= ms /\ ms < k /\ (ms >= 0 => mn < amp - c.th2)
    BY <1>5, <1>6, Zenon
  <2>3. f => e = 0
    BY <1>5, <1>6, Zenon
  <2> HIDE DEF r, d
  <2>a. AboveOutcome(AboveThreshold(SearchAt(f, s, h, mn, ms, hs), k, d, c.th2),
                     f, s, h, hs, a, m, amp, mn, ms, k, d, c.th2)
    <3>1. /\ f \in BOOLEAN /\ s \in BOOLEAN /\ h \in FoundHit /\ mn \in Int /\ ms \in Int /\ hs \in Seq(FoundHit)
          /\ k \in Nat /\ d \in Int /\ c.th2 \in Nat
      BY <1>1, <1>2, Zenon DEF d
    <3>2. f => h.max < k /\ -1 <= ms /\ ms < k /\ (ms >= 0 => mn < h.amp - c.th2)
      BY <2>2, Zenon DEF m, amp
    <3>3. f => h.end = 0
      BY <2>3, Zenon DEF e
    <3> QED BY <3>1, <3>2, <3>3, AboveForm, Zenon DEF a, m, amp
  <2>b. AboveOutcome(r, f, s, h, hs, a, m, amp, mn, ms, k, d, c.th2)
    BY <1>2, <2>1, <2>a, Zenon
  <2>4. \/ ~f /\ r = SearchAt(TRUE, TRUE, HitAt(k, k, 0, d), mn, -1, hs)
        \/ f /\ d < amp - c.th2 /\ r = SearchAt(TRUE, s, h, d, k, hs)
        \/ f /\ ms >= 0 /\ d > mn + c.th2
             /\ r = SearchAt(TRUE, FALSE, HitAt(ms, k, 0, d), mn, -1, Append(hs, HitAt(a, m, ms - 1, amp)))
        \/ f /\ ms = -1 /\ d > amp /\ r = SearchAt(TRUE, s, HitAt(a, k, 0, d), mn, ms, hs)
        \/ f /\ d <= amp /\ (ms >= 0 => d <= mn + c.th2) /\ r = SearchAt(TRUE, s, h, mn, ms, hs)
    BY <2>b, Zenon DEF AboveOutcome
  <2>5. CASE ~f /\ r = SearchAt(TRUE, TRUE, HitAt(k, k, 0, d), mn, -1, hs)
    <3> DEFINE h2 == HitAt(k, k, 0, d)
    <3>1. h2 \in FoundHit /\ h2.start = k
      BY <1>1 DEF HitAt, FoundHit
    <3> HIDE DEF h2
    <3>2. r.hitFlag /\ r.single /\ r.hit = h2 /\ r.minimum = mn /\ r.minSample = -1 /\ r.hits = hs
      BY <2>5 DEF SearchAt, h2
    <3>3. r \in SearchState
      BY <1>2, <2>5, <3>1 DEF SearchAt, SearchState, h2
    <3>4. InGroup(c, k + 1, k, h2, mn, -1, hs)
      BY <1>2, <1>4, <1>8, <2>5, GroupStarts, Zenon DEF h2, d
    <3>5. InGroup(c, k + 1, k, r.hit, r.minimum, r.minSample, r.hits)
      BY <3>2, <3>4
    <3>6. r.single => r.hit.start = k
      BY <3>1, <3>2
    <3> QED BY <1>1, <1>7, <3>2, <3>3, <3>5, <3>6, Zenon DEF r
  <2>6. CASE f /\ d < amp - c.th2 /\ r = SearchAt(TRUE, s, h, d, k, hs)
    <3>1. PICK gs \in 0 .. k : InGroup(c, k, gs, h, mn, ms, hs) /\ (s => h.start = gs)
      BY <1>5, <2>6, Zenon
    <3>2. r.hitFlag /\ r.single = s /\ r.hit = h /\ r.minimum = d /\ r.minSample = k /\ r.hits = hs
      BY <1>2, <2>6 DEF SearchAt
    <3>3. r \in SearchState
      BY <1>1, <1>2, <2>6 DEF SearchAt, SearchState, d
    <3>4. InGroup(c, k + 1, gs, h, d, k, hs)
      BY <1>2, <1>8, <2>6, <3>1, HitDeepens, Zenon DEF amp, d
    <3>5. InGroup(c, k + 1, gs, r.hit, r.minimum, r.minSample, r.hits)
      BY <3>2, <3>4
    <3>6. r.single => r.hit.start = gs
      BY <1>2, <3>1, <3>2
    <3>7. gs \in 0 .. k + 1
      BY <1>1
    <3> QED BY <1>7, <3>2, <3>3, <3>5, <3>6, <3>7, Zenon DEF r
  <2>7. CASE f /\ ms >= 0 /\ d > mn + c.th2
             /\ r = SearchAt(TRUE, FALSE, HitAt(ms, k, 0, d), mn, -1, Append(hs, HitAt(a, m, ms - 1, amp)))
    <3>1. PICK gs \in 0 .. k : InGroup(c, k, gs, h, mn, ms, hs) /\ (s => h.start = gs)
      BY <1>5, <2>7, Zenon
    <3> DEFINE g == HitAt(a, m, ms - 1, amp)
               h2 == HitAt(ms, k, 0, d)
               hs2 == Append(hs, g)
    <3>2. g \in FoundHit /\ ms \in Nat /\ InGroup(c, k + 1, gs, h2, mn, -1, hs2)
      BY <1>2, <1>8, <2>7, <3>1, HitSplits, Zenon DEF a, m, amp, d
    <3>3. h2 \in FoundHit
      BY <1>1, <3>2 DEF HitAt, FoundHit, d
    <3>4. hs2 \in Seq(FoundHit)
      <4> HIDE DEF g
      <4> QED BY <1>2, <3>2
    <3> HIDE DEF g, h2, hs2
    <3>5. r = SearchAt(TRUE, FALSE, h2, mn, -1, hs2)
      BY <2>7, Zenon DEF h2, hs2, g
    <3>6. r.hitFlag /\ ~r.single /\ r.hit = h2 /\ r.minimum = mn /\ r.minSample = -1 /\ r.hits = hs2
      BY <3>5 DEF SearchAt
    <3>7. r \in SearchState
      BY <1>2, <3>3, <3>4, <3>5 DEF SearchAt, SearchState
    <3>8. InGroup(c, k + 1, gs, r.hit, r.minimum, r.minSample, r.hits)
      BY <3>2, <3>6 DEF h2, hs2, g
    <3>9. gs \in 0 .. k + 1
      BY <1>1
    <3> QED BY <1>7, <3>6, <3>7, <3>8, <3>9, Zenon DEF r
  <2>8. CASE f /\ ms = -1 /\ d > amp /\ r = SearchAt(TRUE, s, HitAt(a, k, 0, d), mn, ms, hs)
    <3>1. PICK gs \in 0 .. k : InGroup(c, k, gs, h, mn, ms, hs) /\ (s => h.start = gs)
      BY <1>5, <2>8, Zenon
    <3> DEFINE h2 == HitAt(a, k, 0, d)
    <3>2. h2 \in FoundHit /\ h2.start = a
      BY <1>1, <1>3 DEF HitAt, FoundHit, d
    <3>3. InGroup(c, k + 1, gs, h2, mn, -1, hs)
      <4>1. InGroup(c, k, gs, h, mn, -1, hs)
        BY <2>8, <3>1
      <4> QED BY <1>2, <1>8, <2>8, <4>1, HitRises, Zenon DEF a, amp, d
    <3> HIDE DEF h2
    <3>4. r = SearchAt(TRUE, s, h2, mn, -1, hs)
      BY <2>8, Zenon DEF h2
    <3>5. r.hitFlag /\ r.single = s /\ r.hit = h2 /\ r.minimum = mn /\ r.minSample = -1 /\ r.hits = hs
      BY <1>2, <3>4 DEF SearchAt
    <3>6. r \in SearchState
      BY <1>2, <3>2, <3>4 DEF SearchAt, SearchState
    <3>7. r.single => r.hit.start = gs
      BY <3>1, <3>2, <3>5 DEF a
    <3>8. InGroup(c, k + 1, gs, r.hit, r.minimum, r.minSample, r.hits)
      BY <3>3, <3>5 DEF h2
    <3>9. gs \in 0 .. k + 1
      BY <1>1
    <3> QED BY <1>7, <3>5, <3>6, <3>7, <3>8, <3>9, Zenon DEF r
  <2>9. CASE f /\ d <= amp /\ (ms >= 0 => d <= mn + c.th2) /\ r = SearchAt(TRUE, s, h, mn, ms, hs)
    <3>1. PICK gs \in 0 .. k : InGroup(c, k, gs, h, mn, ms, hs) /\ (s => h.start = gs)
      BY <1>5, <2>9, Zenon
    <3>2. r.hitFlag /\ r.single = s /\ r.hit = h /\ r.minimum = mn /\ r.minSample = ms /\ r.hits = hs
      BY <1>2, <2>9 DEF SearchAt
    <3>3. r \in SearchState
      BY <1>2, <2>9 DEF SearchAt, SearchState
    <3>4. InGroup(c, k + 1, gs, h, mn, ms, hs)
      BY <1>2, <1>8, <2>9, <3>1, HitGoesOn, Zenon DEF amp, d
    <3>5. InGroup(c, k + 1, gs, r.hit, r.minimum, r.minSample, r.hits)
      BY <3>2, <3>4
    <3>6. r.single => r.hit.start = gs
      BY <1>2, <3>1, <3>2
    <3>7. gs \in 0 .. k + 1
      BY <1>1
    <3> QED BY <1>7, <3>2, <3>3, <3>5, <3>6, <3>7, Zenon DEF r
  <2> QED BY <2>4, <2>5, <2>6, <2>7, <2>8, <2>9, Zenon DEF r
<1>9. CASE ~(d > c.th1)
  <2>1. r = BelowThreshold(st, k, c.minWidth)
    BY <1>9, Zenon DEF AlgoStep
  <2> HIDE DEF r, d
  <2>2. CASE ~f
    <3>1. r = st
      BY <2>1, <2>2, Zenon DEF BelowThreshold, f
    <3>2. Grouped(c, k + 1, k + 1, k + 1, hs)
      BY <1>2, <1>4, <1>9, <2>2, NoGroup, Zenon DEF d
    <3> QED BY <2>2, <3>1, <3>2 DEF AlgoInv, r, f, hs
  <2>3. CASE f
    <3>1. PICK gs \in 0 .. k : InGroup(c, k, gs, h, mn, ms, hs) /\ (s => h.start = gs)
      BY <1>5, <2>3, Zenon
    <3> DEFINE g == [h EXCEPT !.end = k - 1]
               hs2 == IF ~s \/ k - a >= c.minWidth THEN Append(hs, g) ELSE hs
    <3>2. g = HitAt(a, m, k - 1, amp)
      BY <1>3 DEF HitAt
    <3>3. r = [st EXCEPT !.hitFlag = FALSE, !.hits = hs2]
      BY <2>1, <2>3, Zenon DEF BelowThreshold, f, s, h, a, hs
    <3> HIDE DEF g
    <3>4. hs2 = Append(hs, g) \/ (hs2 = hs /\ h.start = gs /\ ~(k - h.start >= c.minWidth))
      BY <3>1 DEF a
    <3> HIDE DEF hs2
    <3>5. g \in FoundHit /\ Grouped(c, k + 1, k + 1, k + 1, hs2)
      BY <1>2, <1>9, <3>1, <3>2, <3>4, GroupEnds, Zenon DEF a, m, amp, d
    <3>6. hs2 \in Seq(FoundHit)
      BY <1>2, <3>4, <3>5
    <3>7. r = SearchAt(FALSE, s, h, mn, ms, hs2)
      BY <1>2, <3>3 DEF SearchAt
    <3>8. ~r.hitFlag /\ r.hits = hs2
      BY <3>7 DEF SearchAt
    <3>9. r \in SearchState
      BY <1>2, <3>6, <3>7 DEF SearchAt, SearchState
    <3> QED BY <3>5, <3>8, <3>9 DEF AlgoInv, r
  <2> QED BY <2>2, <2>3
<1> QED BY <1>8, <1>9

(* The search is a fold of AlgoStep.                                       *)
AlgoFold == INSTANCE FoldTheorems WITH Step <- AlgoStep, Inv <- AlgoInv

(* The state the search starts in.                                         *)
AlgoStart == [hitFlag |-> FALSE, single |-> TRUE, hit |-> NewHit(0, 0, 0),
              minimum |-> 1000, minSample |-> -1, hits |-> <<>>]

(* All samples searched.                                                   *)
LEMMA AlgoOK ==
  ASSUME NEW n \in Nat, NEW data \in [0 .. n - 1 -> Int], NEW th1 \in Int, NEW th2 \in Nat, NEW w \in Nat
  PROVE  LET c == [data |-> data, th1 |-> th1, th2 |-> th2, minWidth |-> w]
         IN  \E st : AlgoInv(c, n, st) /\ Algorithm(data, th1, th2, w) = st.hits
<1> DEFINE c == [data |-> data, th1 |-> th1, th2 |-> th2, minWidth |-> w]
           s == Indexes(data)
           st == AlgoFold!Fold(c, AlgoStart, s)
<1>1. c.data = data /\ c.th1 = th1 /\ c.th2 = th2 /\ c.minWidth = w
  OBVIOUS
<1>2. Algorithm(data, th1, th2, w) = st.hits
  <2> HIDE DEF c
  <2>1. Algorithm(c.data, c.th1, c.th2, c.minWidth) = AlgoFold!Fold(c, AlgoStart, Indexes(c.data)).hits
    BY Zenon DEF Algorithm, AlgoFold!Fold, AlgoStep, AlgoStart, AlgoFold!FoldLeft,
        AlgoFold!MapThenFoldSet, FoldLeft, MapThenFoldSet, AlgoFold!Max, Max
  <2> QED BY <1>1, <2>1, Zenon
<1>3. DOMAIN s = 1 .. n /\ \A k \in 0 .. n - 1 : s[k + 1] = k
  BY IndexesForm
<1>4. AlgoContext(c, n)
  BY DEF AlgoContext
<1>5. AlgoInv(c, 0, AlgoStart)
  <2> HIDE DEF c
  <2>1. NewHit(0, 0, 0) \in FoundHit
    BY DEF NewHit, FoundHit
  <2>2. AlgoStart \in SearchState /\ ~AlgoStart.hitFlag /\ AlgoStart.hits = <<>>
    <3> DEFINE h == NewHit(0, 0, 0)
    <3> HIDE DEF h
    <3>1. h \in FoundHit
      BY <2>1 DEF h
    <3>2. AlgoStart = [hitFlag |-> FALSE, single |-> TRUE, hit |-> h,
              minimum |-> 1000, minSample |-> -1, hits |-> <<>>]
      BY Zenon DEF AlgoStart, h
    <3>3. <<>> \in Seq(FoundHit)
      BY EmptySeq
    <3> QED BY <3>1, <3>2, <3>3 DEF SearchState
  <2>3. DOMAIN (<<>>) = {}
    OBVIOUS
  <2>4. GroupFrom(c, 0, 0)
    <3>1. 0 .. 0 - 1 = {}
      OBVIOUS
    <3> QED BY <3>1, Zenon DEF GroupFrom
  <2>5. PulsesCovered(c, 0, <<>>)
    <3>1. \A q \in Nat : ~(q + 1 < 0)
      OBVIOUS
    <3> QED BY <3>1, Zenon DEF PulsesCovered, PulseIn
  <2>6. Grouped(c, 0, 0, 0, <<>>)
    BY <2>3, <2>4, <2>5, Zenon DEF Grouped, ClosedHits, FromPulses
  <2> QED BY <2>2, <2>6 DEF AlgoInv
<1> HIDE DEF c, s
<1>6. \A k \in 0 .. n - 1 : \A acc : AlgoInv(c, k, acc) => AlgoInv(c, k + 1, AlgoStep(c, acc, s[k + 1]))
  BY <1>3, <1>4, AlgoStepOK, Zenon
<1>7. AlgoInv(c, n, st)
  BY <1>3, <1>5, <1>6, AlgoFold!FoldInvariant, Zenon
<1> QED BY <1>2, <1>7, Zenon DEF c

-----------------------------------------------------------------------------
(* The windows of the hits                                                 *)

(* The context of the search as a record.                                  *)
AlgoData(data, th1, th2, w) == [data |-> data, th1 |-> th1, th2 |-> th2, minWidth |-> w]

LEMMA AlgoDataFields ==
  ASSUME NEW data, NEW th1, NEW th2, NEW w
  PROVE  LET c == AlgoData(data, th1, th2, w)
         IN  c.data = data /\ c.th1 = th1 /\ c.th2 = th2 /\ c.minWidth = w
BY DEF AlgoData

(* What the search through all samples finds                               *)
LEMMA AlgoResult ==
  ASSUME NEW n \in Nat, NEW data \in [0 .. n - 1 -> Int], NEW th1 \in Int, NEW th2 \in Nat, NEW w \in Nat
  PROVE  LET c == AlgoData(data, th1, th2, w)
             hs == Algorithm(data, th1, th2, w)
         IN  /\ hs \in Seq(FoundHit)
             /\ ClosedHits(c, n, hs)
             /\ PulsesCovered(c, n, hs)
             /\ \A m \in DOMAIN hs : \/ \E p, q \in Nat : PulseIn(c, n, p, q) /\ Within(hs[m], p, q)
                                     \/ \A j \in hs[m].start .. n - 1 : data[j] > th1
<1> DEFINE c == AlgoData(data, th1, th2, w)
           hs == Algorithm(data, th1, th2, w)
<1>1. PICK st : AlgoInv(c, n, st) /\ hs = st.hits
  BY AlgoOK, ZenonT(60) DEF AlgoData
<1>2. c.data = data /\ c.th1 = th1
  BY DEF AlgoData
<1>3. AlgoContext(c, n)
  BY DEF AlgoData, AlgoContext
<1> HIDE DEF c, hs
<1>4. hs \in Seq(FoundHit) /\ st \in SearchState /\ st.hit \in FoundHit /\ st.minimum \in Int /\ st.minSample \in Int
  BY <1>1, SearchFields DEF AlgoInv
<1> DEFINE Good == /\ ClosedHits(c, n, hs)
                   /\ PulsesCovered(c, n, hs)
                   /\ \A m \in DOMAIN hs : \/ \E p, q \in Nat : PulseIn(c, n, p, q) /\ Within(hs[m], p, q)
                                           \/ \A j \in hs[m].start .. n - 1 : data[j] > th1
<1>5. CASE ~st.hitFlag
  <2>1. Grouped(c, n, n, n, hs)
    BY <1>1, <1>5 DEF AlgoInv
  <2>2. ClosedHits(c, n, hs) /\ PulsesCovered(c, n, hs) /\ FromPulses(c, n, n, hs)
    BY <2>1, Zenon DEF Grouped
  <2>3. ASSUME NEW m \in DOMAIN hs PROVE ~(n <= hs[m].start)
    <3>1. hs[m].start \in Nat /\ hs[m].max \in Nat /\ hs[m].end \in Nat
      BY <1>4, FoundAt, Zenon
    <3>2. hs[m].start <= hs[m].max /\ hs[m].max <= hs[m].end /\ hs[m].end < n
      BY <2>2, Zenon DEF ClosedHits, ClosedHit
    <3> QED BY <3>1, <3>2
  <2>4. Good
    BY <2>2, <2>3, Zenon DEF FromPulses
  <2> QED BY <1>4, <2>4, Zenon DEF c, hs
<1>6. CASE st.hitFlag
  <2>1. PICK gs \in 0 .. n : InGroup(c, n, gs, st.hit, st.minimum, st.minSample, hs)
    BY <1>1, <1>6 DEF AlgoInv
  <2> DEFINE a == st.hit.start
  <2>2. OpenHit(c, n, gs, st.hit, st.minimum, st.minSample) /\ Grouped(c, n, gs, a, hs)
    BY <2>1, Zenon DEF InGroup
  <2>3. a \in Nat /\ a <= n
    <3>1. st.hit.start \in Nat /\ st.hit.max \in Nat
      BY <1>4, FoundFields, Zenon
    <3>2. st.hit.start <= st.hit.max /\ st.hit.max < n
      BY <2>2, Zenon DEF OpenHit
    <3> QED BY <3>1, <3>2
  <2> HIDE DEF a
  <2>4. ClosedHits(c, a, hs) /\ PulsesCovered(c, n, hs) /\ FromPulses(c, n, gs, hs)
        /\ \A j \in gs .. n - 1 : data[j] > th1
    BY <1>2, <2>2, Zenon DEF Grouped, GroupFrom
  <2>5. ClosedHits(c, n, hs)
    BY <1>4, <2>3, <2>4, ClosedLater, Zenon
  <2>6. ASSUME NEW m \in DOMAIN hs, gs <= hs[m].start PROVE \A j \in hs[m].start .. n - 1 : data[j] > th1
    <3>1. hs[m].start \in Nat
      BY <1>4, FoundAt, Zenon
    <3>2. \A j \in hs[m].start .. n - 1 : j \in gs .. n - 1
      BY <2>6, <3>1
    <3> QED BY <2>4, <3>2, Zenon
  <2>7. Good
    BY <2>4, <2>5, <2>6, Zenon DEF FromPulses
  <2> QED BY <1>4, <2>7, Zenon DEF c, hs
<1> QED BY <1>5, <1>6

-----------------------------------------------------------------------------
(* The windows of hits that are in order, before sample n                  *)
Ordered(hs, n) ==
  /\ hs \in Seq(FoundHit)
  /\ \A m \in DOMAIN hs : hs[m].start <= hs[m].end /\ hs[m].end < n
  /\ \A x, y \in DOMAIN hs : x < y => hs[x].end < hs[y].start

(* The middle of two samples is after the first, up to the second.         *)
LEMMA MiddleBetween ==
  ASSUME NEW p \in Nat, NEW q \in Nat, p < q
  PROVE  LET m == (p + q) \div 2 + 1 IN m \in Nat /\ p < m /\ m <= q
<1> DEFINE d == (p + q) \div 2
<1>1. d \in Int /\ 2 * d <= p + q /\ p + q < 2 * d + 2
  OBVIOUS
<1> HIDE DEF d
<1>2. d + 1 \in Nat /\ p < d + 1 /\ d + 1 <= q
  BY <1>1
<1> QED BY <1>2 DEF d

(* The ends of a window before the limits are looked at                    *)
WindowFrom(hs, k, pl, pr) ==
  LET left == IF hs[k].start > pl THEN hs[k].start - pl ELSE 0
  IN  IF k > 1 /\ left <= hs[k - 1].end + pr THEN Middle(hs[k - 1], hs[k]) ELSE left
(* Where the window of hit k ends, before it is checked.                   *)
WindowTo(hs, k, n, pl, pr) ==
  LET right == Smaller(hs[k].end + pr, n - 1)
  IN  IF k < Len(hs) /\ right >= (hs[k + 1].start - pl) % Wrap THEN Middle(hs[k], hs[k + 1]) ELSE right

(* The window of a hit, or the hit itself where it would be empty.         *)
LEMMA WindowForm ==
  ASSUME NEW hs, NEW k, NEW n, NEW pl, NEW pr
  PROVE  LET from == WindowFrom(hs, k, pl, pr)
             to == WindowTo(hs, k, n, pl, pr)
         IN  Window(hs, k, n, pl, pr) = IF from >= to THEN [from |-> hs[k].start, to |-> hs[k].end]
                                        ELSE [from |-> from, to |-> to]
BY Zenon DEF Window, WindowFrom, WindowTo

(* A window is inside the samples.                                         *)
LEMMA WindowInside ==
  ASSUME NEW n \in Nat, NEW hs, Ordered(hs, n), NEW k \in DOMAIN hs, NEW pl \in Nat, NEW pr \in Nat
  PROVE  LET w == Window(hs, k, n, pl, pr)
         IN  w.from \in Nat /\ w.to \in Nat /\ w.to < n
<1> DEFINE a == hs[k].start
           e == hs[k].end
           from == WindowFrom(hs, k, pl, pr)
           to == WindowTo(hs, k, n, pl, pr)
<1>1. hs \in Seq(FoundHit) /\ DOMAIN hs = 1 .. Len(hs) /\ Len(hs) \in Nat
  BY DEF Ordered
<1>2. a \in Nat /\ e \in Nat /\ a <= e /\ e < n
  BY <1>1, FoundAt, Zenon DEF Ordered
<1>3. from \in Nat
  <2> DEFINE left == IF a > pl THEN a - pl ELSE 0
             m == Middle(hs[k - 1], hs[k])
             cond == k > 1 /\ left <= hs[k - 1].end + pr
  <2>1. from = IF cond THEN m ELSE left
    BY Zenon DEF WindowFrom
  <2>2. left \in Nat
    <3> HIDE DEF a
    <3> QED BY <1>2
  <2>3. cond => m \in Nat
    <3>1. SUFFICES ASSUME k > 1 PROVE m \in Nat
      OBVIOUS
    <3>2. k - 1 \in DOMAIN hs /\ k - 1 < k
      BY <1>1, <3>1
    <3> DEFINE b == hs[k - 1].end
    <3>3. b \in Nat /\ b < a
      BY <1>1, <3>2, FoundAt, Zenon DEF Ordered
    <3>4. m = (b + a) \div 2 + 1
      BY Zenon DEF Middle
    <3> HIDE DEF m, a, b
    <3> QED BY <1>2, <3>3, <3>4, MiddleBetween
  <2> HIDE DEF left, m, cond, from
  <2> QED BY <2>1, <2>2, <2>3
<1>4. to \in Nat /\ to < n
  <2> DEFINE right == Smaller(e + pr, n - 1)
             m == Middle(hs[k], hs[k + 1])
             cond == k < Len(hs) /\ right >= (hs[k + 1].start - pl) % Wrap
  <2>1. to = IF cond THEN m ELSE right
    BY Zenon DEF WindowTo
  <2>2. right \in Nat /\ right < n
    <3>1. right = IF e + pr < n - 1 THEN e + pr ELSE n - 1
      BY Zenon DEF Smaller
    <3> HIDE DEF e, right
    <3> QED BY <1>2, <3>1
  <2>3. cond => m \in Nat /\ m < n
    <3>1. SUFFICES ASSUME k < Len(hs) PROVE m \in Nat /\ m < n
      OBVIOUS
    <3>2. k + 1 \in DOMAIN hs /\ k < k + 1
      BY <1>1, <3>1
    <3> DEFINE b == hs[k + 1].start
               f == hs[k + 1].end
    <3>3. b \in Nat /\ f \in Nat /\ e < b /\ b <= f /\ f < n
      BY <1>1, <3>2, FoundAt, Zenon DEF Ordered
    <3>4. m = (e + b) \div 2 + 1
      BY Zenon DEF Middle
    <3> HIDE DEF m, e, b, f
    <3>5. m \in Nat /\ m <= b
      BY <1>2, <3>3, <3>4, MiddleBetween
    <3> QED BY <3>3, <3>5
  <2> HIDE DEF right, m, cond, to
  <2> QED BY <2>1, <2>2, <2>3
<1> HIDE DEF from, to
<1>5. Window(hs, k, n, pl, pr) = IF from >= to THEN [from |-> a, to |-> e] ELSE [from |-> from, to |-> to]
  BY WindowForm, Zenon DEF from, to
<1> HIDE DEF a, e
<1> QED BY <1>2, <1>3, <1>4, <1>5

(* The windows of neighbours do not overlap.                               *)
LEMMA WindowsApart ==
  ASSUME NEW n \in 0 .. Wrap - 1, NEW hs, Ordered(hs, n), NEW k \in DOMAIN hs, k # 1,
         NEW pl \in Nat, NEW pr \in Nat, hs[k].start >= pl
  PROVE  Window(hs, k - 1, n, pl, pr).to <= Window(hs, k, n, pl, pr).from
<1> DEFINE i == k - 1
           a == hs[k].start
           e == hs[k].end
           b == hs[i].start
           f == hs[i].end
           from == WindowFrom(hs, k, pl, pr)
           to == WindowTo(hs, k, n, pl, pr)
           from1 == WindowFrom(hs, i, pl, pr)
           to1 == WindowTo(hs, i, n, pl, pr)
           right == Smaller(f + pr, n - 1)
           mid == (f + a) \div 2 + 1
<1>1. hs \in Seq(FoundHit) /\ DOMAIN hs = 1 .. Len(hs) /\ Len(hs) \in Nat /\ n \in Nat /\ n < Wrap /\ Wrap \in Nat
  BY RoiAssumption DEF Ordered
<1>2. i \in DOMAIN hs /\ i < k /\ i < Len(hs) /\ i + 1 = k /\ k > 1
  BY <1>1
<1>3. /\ a \in Nat /\ e \in Nat /\ b \in Nat /\ f \in Nat /\ a <= e /\ e < n /\ b <= f /\ f < a
  BY <1>1, <1>2, FoundAt, Zenon DEF Ordered
<1>4. a >= pl
  OBVIOUS
<1>5. mid \in Nat /\ f < mid /\ mid <= a
  <2> HIDE DEF f, a
  <2> QED BY <1>3, MiddleBetween
<1>6. right = IF f + pr < n - 1 THEN f + pr ELSE n - 1
  BY Zenon DEF Smaller
<1>7. (a - pl) % Wrap = a - pl /\ a - pl \in Nat /\ a - pl <= n - 1
  <2> HIDE DEF a
  <2>1. a - pl \in 0 .. Wrap - 1
    BY <1>1, <1>3, <1>4
  <2>2. (a - pl) % Wrap = a - pl
    BY <1>1, <2>1
  <2> QED BY <1>1, <1>3, <1>4, <2>2
<1>8. from = IF a - pl <= f + pr THEN mid ELSE a - pl
  <2>1. (IF a > pl THEN a - pl ELSE 0) = a - pl
    <3> HIDE DEF a
    <3> QED BY <1>3, <1>4
  <2>2. Middle(hs[i], hs[k]) = mid
    BY Zenon DEF Middle
  <2> HIDE DEF mid, a, f
  <2> QED BY <1>2, <2>1, <2>2, Zenon DEF WindowFrom, a, f
<1>9. to1 = IF right >= a - pl THEN mid ELSE right
  <2>1. Middle(hs[i], hs[i + 1]) = mid
    BY <1>2, Zenon DEF Middle
  <2>2. (hs[i + 1].start - pl) % Wrap = a - pl
    BY <1>2, <1>7, Zenon
  <2> HIDE DEF mid
  <2> QED BY <1>2, <2>1, <2>2, Zenon DEF WindowTo
<1>10. Window(hs, k, n, pl, pr) = IF from >= to THEN [from |-> a, to |-> e] ELSE [from |-> from, to |-> to]
  BY WindowForm, Zenon
<1>11. Window(hs, i, n, pl, pr) = IF from1 >= to1 THEN [from |-> b, to |-> f] ELSE [from |-> from1, to |-> to1]
  BY WindowForm, Zenon
<1> HIDE DEF from, to, from1, to1, right, mid, a, e, b, f
<1>12. Window(hs, k, n, pl, pr).from = from \/ Window(hs, k, n, pl, pr).from = a
  BY <1>10
<1>13. Window(hs, i, n, pl, pr).to = to1 \/ Window(hs, i, n, pl, pr).to = f
  BY <1>11
<1>14. to1 <= from /\ to1 <= a /\ f <= from /\ f <= a
  BY <1>1, <1>3, <1>4, <1>5, <1>6, <1>7, <1>8, <1>9
<1> QED BY <1>12, <1>13, <1>14

-----------------------------------------------------------------------------
(* The hits of several fragments put together                              *)

(* The first k of the sequences put together, for k up to n                *)
Flattening(seqs, n, g) == g = [i \in 1 .. n |-> IF i = 1 THEN seqs[i] ELSE g[i - 1] \o seqs[i]]

(* There is such a function, for any number of sequences.                  *)
LEMMA FlatteningExists ==
  ASSUME NEW seqs, NEW n \in Nat
  PROVE  \E g : Flattening(seqs, n, g)
<1> DEFINE Bad == {k \in Nat : ~ \E g : Flattening(seqs, k, g)}
<1>1. SUFFICES ASSUME Bad # {} PROVE FALSE
  OBVIOUS
<1>2. PICK k \in Bad : \A m \in Bad : k <= m
  BY <1>1, LeastNumber, Zenon
<1>3. CASE k = 0
  <2> DEFINE g == [i \in 1 .. 0 |-> 0]
  <2>1. 1 .. 0 = {}
    BY SMT
  <2>2. [i \in 1 .. 0 |-> IF i = 1 THEN seqs[i] ELSE g[i - 1] \o seqs[i]] = g
    BY <2>1, Zenon
  <2>3. Flattening(seqs, 0, g)
    BY <2>2, Zenon DEF Flattening
  <2> QED BY <1>2, <1>3, <2>3
<1>4. CASE k # 0
  <2>1. k - 1 \in Nat /\ k - 1 \notin Bad
    BY <1>2, <1>4, SMT
  <2>2. PICK j \in Nat : j = k - 1
    BY <2>1
  <2>3. j + 1 = k
    BY <1>2, <2>2
  <2>4. PICK g : Flattening(seqs, j, g)
    BY <2>1, <2>2
  <2> DEFINE new == [i \in 1 .. j + 1 |->
                       IF i = j + 1 THEN IF i = 1 THEN seqs[i] ELSE g[i - 1] \o seqs[i] ELSE g[i]]
  <2>5. ASSUME NEW i \in 1 .. j + 1
        PROVE  new[i] = IF i = 1 THEN seqs[i] ELSE new[i - 1] \o seqs[i]
    <3>1. i # 1 => i - 1 \in 1 .. j + 1 /\ i - 1 # j + 1
      BY SMT
    <3>2. i # 1 => new[i - 1] = g[i - 1]
      BY <3>1, Zenon
    <3>3. CASE i = j + 1
      <4>1. new[i] = IF i = 1 THEN seqs[i] ELSE g[i - 1] \o seqs[i]
        BY <3>3, Zenon
      <4> QED BY <3>2, <4>1, Zenon
    <3>4. CASE i # j + 1
      <4>1. i \in 1 .. j
        BY <3>4, SMT
      <4>2. new[i] = g[i]
        BY <3>4, Zenon
      <4>3. g[i] = IF i = 1 THEN seqs[i] ELSE g[i - 1] \o seqs[i]
        BY <2>4, <4>1, Zenon DEF Flattening
      <4> QED BY <3>2, <4>2, <4>3, Zenon
    <3> QED BY <3>3, <3>4
  <2>6. new = [i \in 1 .. j + 1 |-> new[i]]
    BY Zenon
  <2>7. Flattening(seqs, j + 1, new)
    <3> HIDE DEF new
    <3> QED BY <2>5, <2>6, Zenon DEF Flattening
  <2> QED BY <1>2, <2>3, <2>7
<1> QED BY <1>3, <1>4

(* The flattened sequence is the last value of such a function.            *)
LEMMA FlattenIs ==
  ASSUME NEW seqs, NEW n \in Nat, Len(seqs) = n, n # 0
  PROVE  \E g : Flattening(seqs, n, g) /\ FlattenSeq(seqs) = g[n]
<1> DEFINE g == CHOOSE g : g = [i \in 1 .. Len(seqs) |-> IF i = 1 THEN seqs[i] ELSE g[i - 1] \o seqs[i]]
<1>1. \E f : f = [i \in 1 .. Len(seqs) |-> IF i = 1 THEN seqs[i] ELSE f[i - 1] \o seqs[i]]
  BY FlatteningExists, Zenon DEF Flattening
<1>2. g = [i \in 1 .. Len(seqs) |-> IF i = 1 THEN seqs[i] ELSE g[i - 1] \o seqs[i]]
  BY <1>1, Zenon
<1>3. FlattenSeq(seqs) = g[Len(seqs)]
  BY Zenon DEF FlattenSeq
<1> QED BY <1>2, <1>3, Zenon DEF Flattening

(* Element m of F is element i of sequence j, and the one before it is the *)
(* one before there or belongs to an earlier sequence.                     *)
ComesFrom(seqs, F, m, j, i) ==
  /\ F[m] = seqs[j][i]
  /\ m # 1 => \/ i # 1 /\ F[m - 1] = seqs[j][i - 1]
              \/ \E j2 \in DOMAIN seqs : j2 < j /\ \E i2 \in DOMAIN seqs[j2] : F[m - 1] = seqs[j2][i2]

(* F is the first k of seqs put together, each element where it belongs.   *)
Flat(T, seqs, k, F) ==
  /\ F \in Seq(T)
  /\ \A m \in DOMAIN F : \E j \in 1 .. k : \E i \in DOMAIN seqs[j] : ComesFrom(seqs, F, m, j, i)
  /\ \A j \in 1 .. k : \A i \in DOMAIN seqs[j] : \E m \in DOMAIN F : F[m] = seqs[j][i]

(* One more sequence put at the end.                                       *)
LEMMA FlatStep ==
  ASSUME NEW T, NEW seqs \in Seq(Seq(T)), NEW k \in Nat, k + 1 \in DOMAIN seqs,
         NEW F, Flat(T, seqs, k, F)
  PROVE  Flat(T, seqs, k + 1, F \o seqs[k + 1])
<1> DEFINE s == seqs[k + 1]
           G == F \o s
           L == Len(F)
<1>1. s \in Seq(T) /\ F \in Seq(T) /\ 1 .. k \subseteq 1 .. k + 1 /\ k + 1 \in 1 .. k + 1
  BY DEF Flat
<1> HIDE DEF s
<1>2. /\ G \in Seq(T) /\ L \in Nat /\ DOMAIN F = 1 .. L /\ DOMAIN s = 1 .. Len(s) /\ Len(s) \in Nat
      /\ DOMAIN G = 1 .. L + Len(s)
      /\ \A m \in 1 .. L : G[m] = F[m]
      /\ \A i \in 1 .. Len(s) : G[L + i] = s[i]
  <2>1. Len(G) = L + Len(s)
    BY <1>1
  <2>2. G \in Seq(T) /\ L \in Nat /\ Len(s) \in Nat /\ DOMAIN F = 1 .. L /\ DOMAIN s = 1 .. Len(s)
    BY <1>1
  <2>3. DOMAIN G = 1 .. L + Len(s)
    BY <1>1, <2>1
  <2>4. \A m \in 1 .. L : G[m] = F[m]
    BY <1>1
  <2>5. ASSUME NEW i \in 1 .. Len(s) PROVE G[L + i] = s[i]
    BY <1>1, <2>2
  <2> QED BY <2>2, <2>3, <2>4, <2>5
<1> HIDE DEF G, L
<1>3. /\ \A m \in DOMAIN F : \E j \in 1 .. k : \E i \in DOMAIN seqs[j] : ComesFrom(seqs, F, m, j, i)
      /\ \A j \in 1 .. k : \A i \in DOMAIN seqs[j] : \E m \in DOMAIN F : F[m] = seqs[j][i]
  BY Zenon DEF Flat
<1>4. ASSUME NEW m \in DOMAIN G
      PROVE  \E j \in 1 .. k + 1 : \E i \in DOMAIN seqs[j] : ComesFrom(seqs, G, m, j, i)
  <2>1. CASE m \in 1 .. L
    <3>1. G[m] = F[m] /\ (m # 1 => G[m - 1] = F[m - 1])
      <4>1. m # 1 => m - 1 \in 1 .. L
        BY <1>2, <2>1
      <4> QED BY <1>2, <2>1, <4>1, Zenon
    <3>2. PICK j \in 1 .. k : \E i \in DOMAIN seqs[j] : ComesFrom(seqs, F, m, j, i)
      BY <1>2, <1>3, <2>1, Zenon
    <3>3. PICK i \in DOMAIN seqs[j] : ComesFrom(seqs, F, m, j, i)
      BY <3>2, Zenon
    <3>4. ComesFrom(seqs, G, m, j, i)
      BY <3>1, <3>3, Zenon DEF ComesFrom
    <3> QED BY <1>1, <3>3, <3>4, Zenon
  <2>2. CASE m \notin 1 .. L
    <3>1. PICK i \in 1 .. Len(s) : m = L + i
      <4>1. m - L \in 1 .. Len(s) /\ m = L + (m - L)
        BY <1>2, <2>2
      <4> QED BY <4>1, Zenon
    <3>2. G[m] = s[i] /\ i \in DOMAIN s
      BY <1>2, <3>1, Zenon
    <3>3. CASE i # 1
      <4>1. i - 1 \in 1 .. Len(s) /\ m - 1 = L + (i - 1)
        BY <1>2, <3>1, <3>3
      <4>2. G[m - 1] = s[i - 1]
        BY <1>2, <4>1, Zenon
      <4>3. ComesFrom(seqs, G, m, k + 1, i)
        BY <3>2, <3>3, <4>2, Zenon DEF ComesFrom, s
      <4> QED BY <1>1, <3>2, <4>3, Zenon DEF s
    <3>4. CASE i = 1
      <4>1. m = L + 1
        BY <3>1, <3>4
      <4>2. CASE L = 0
        <5>1. m = 1
          BY <4>1, <4>2
        <5>2. ComesFrom(seqs, G, m, k + 1, i)
          BY <3>2, <5>1, Zenon DEF ComesFrom, s
        <5> QED BY <1>1, <3>2, <5>2, Zenon DEF s
      <4>3. CASE L # 0
        <5>1. m - 1 = L /\ L \in 1 .. L
          BY <1>2, <4>1, <4>3
        <5>2. G[m - 1] = F[L] /\ L \in DOMAIN F
          BY <1>2, <5>1, Zenon
        <5>3. PICK j \in 1 .. k : \E x \in DOMAIN seqs[j] : ComesFrom(seqs, F, L, j, x)
          BY <1>3, <5>2, Zenon
        <5>4. PICK x \in DOMAIN seqs[j] : G[m - 1] = seqs[j][x]
          BY <5>2, <5>3, Zenon DEF ComesFrom
        <5>5. j < k + 1 /\ j \in DOMAIN seqs
          <6>1. DOMAIN seqs = 1 .. Len(seqs) /\ Len(seqs) \in Nat
            OBVIOUS
          <6> QED BY <6>1
        <5>6. ComesFrom(seqs, G, m, k + 1, i)
          BY <3>2, <5>4, <5>5, Zenon DEF ComesFrom, s
        <5> QED BY <1>1, <3>2, <5>6, Zenon DEF s
      <4> QED BY <4>2, <4>3
    <3> QED BY <3>3, <3>4
  <2> QED BY <2>1, <2>2
<1>5. ASSUME NEW j \in 1 .. k + 1, NEW i \in DOMAIN seqs[j]
      PROVE  \E m \in DOMAIN G : G[m] = seqs[j][i]
  <2>1. CASE j = k + 1
    <3>1. i \in 1 .. Len(s)
      BY <1>2, <2>1 DEF s
    <3>2. L + i \in DOMAIN G
      BY <1>2, <3>1
    <3> QED BY <1>2, <2>1, <3>1, <3>2, Zenon DEF s
  <2>2. CASE j # k + 1
    <3>1. j \in 1 .. k
      BY <2>2
    <3>2. PICK m \in DOMAIN F : F[m] = seqs[j][i]
      BY <1>3, <3>1, Zenon
    <3>3. m \in DOMAIN G /\ G[m] = F[m]
      BY <1>2
    <3> QED BY <3>2, <3>3, Zenon
  <2> QED BY <2>1, <2>2
<1> QED BY <1>2, <1>4, <1>5, Zenon DEF Flat, G, s

(* All sequences put together.                                             *)
LEMMA FlattenOK ==
  ASSUME NEW T, NEW seqs \in Seq(Seq(T))
  PROVE  Flat(T, seqs, Len(seqs), FlattenSeq(seqs))
<1> DEFINE n == Len(seqs)
           F == FlattenSeq(seqs)
<1>1. n \in Nat /\ DOMAIN seqs = 1 .. n
  OBVIOUS
<1>2. CASE n = 0
  <2>1. F = <<>>
    <3>1. F = seqs
      BY <1>2, Zenon DEF FlattenSeq
    <3> QED BY <1>2, <3>1, EmptySeq
  <2>2. <<>> \in Seq(T) /\ DOMAIN (<<>>) = {} /\ 1 .. 0 = {}
    OBVIOUS
  <2> HIDE DEF F, n
  <2>3. Flat(T, seqs, 0, F)
    BY <2>1, <2>2, Zenon DEF Flat
  <2> QED BY <1>2, <2>3, Zenon DEF F, n
<1>3. CASE n # 0
  <2>1. PICK g : Flattening(seqs, n, g) /\ F = g[n]
    BY <1>1, <1>3, FlattenIs, Zenon
  <2>2. \A i \in 1 .. n : g[i] = IF i = 1 THEN seqs[i] ELSE g[i - 1] \o seqs[i]
    BY <2>1, Zenon DEF Flattening
  <2> HIDE DEF F, n
  <2> DEFINE Bad == {k \in Nat : k \in 1 .. n /\ ~Flat(T, seqs, k, g[k])}
  <2>3. Bad = {}
    <3>1. SUFFICES ASSUME Bad # {} PROVE FALSE
      OBVIOUS
    <3>2. PICK k \in Bad : \A m \in Bad : k <= m
      BY <3>1, LeastNumber, Zenon
    <3>3. k \in 1 .. n /\ ~Flat(T, seqs, k, g[k])
      BY <3>2
    <3>4. CASE k = 1
      <4>1. g[k] = seqs[1] /\ 1 \in DOMAIN seqs
        BY <1>1, <2>2, <3>3, <3>4
      <4>2. Flat(T, seqs, 0, <<>>)
        <5>1. <<>> \in Seq(T) /\ DOMAIN (<<>>) = {} /\ 1 .. 0 = {}
          OBVIOUS
        <5> QED BY <5>1, Zenon DEF Flat
      <4>3. 0 \in Nat /\ 0 + 1 = 1
        OBVIOUS
      <4>4. Flat(T, seqs, 1, <<>> \o seqs[1])
        BY <4>1, <4>2, <4>3, FlatStep
      <4>5. <<>> \o seqs[1] = seqs[1]
        BY <4>1
      <4> QED BY <3>3, <3>4, <4>1, <4>4, <4>5
    <3>5. CASE k # 1
      <4>1. PICK j \in Nat : j + 1 = k /\ j \in 1 .. n
        <5>1. k - 1 \in Nat /\ (k - 1) + 1 = k /\ k - 1 \in 1 .. n
          BY <1>1, <3>3, <3>5
        <5> QED BY <5>1, Zenon
      <4>2. j \notin Bad
        BY <3>2, <4>1
      <4>3. Flat(T, seqs, j, g[j])
        BY <4>1, <4>2
      <4>4. k - 1 = j
        BY <4>1
      <4>5. g[k] = g[j] \o seqs[j + 1]
        BY <2>2, <3>3, <3>5, <4>1, <4>4, Zenon
      <4>6. j + 1 \in DOMAIN seqs
        BY <1>1, <3>3, <4>1, Zenon
      <4>7. Flat(T, seqs, j + 1, g[j] \o seqs[j + 1])
        BY <4>3, <4>6, FlatStep
      <4> QED BY <3>3, <4>1, <4>5, <4>7
    <3> QED BY <3>4, <3>5
  <2>4. n \in 1 .. n
    BY <1>1, <1>3
  <2>5. Flat(T, seqs, n, g[n])
    BY <1>1, <2>3, <2>4
  <2> QED BY <2>1, <2>5, Zenon DEF F, n
<1> QED BY <1>2, <1>3

-----------------------------------------------------------------------------
(* From the fragment to the wave                                           *)

(* A hit as it leaves the finder                                           *)
KeptHit == [start : Nat, max : Nat, end : Nat, amp : Int, win : [from : Nat, to : Nat]]

(* A fragment holds samples of the wave                                    *)
FragOK(w, f) ==
  LET n == Size(f.data)
  IN  /\ f.start \in Nat /\ n \in Nat /\ f.data \in [0 .. n - 1 -> Int]
      /\ n # 0 => f.start + n <= Size(w)
      /\ \A j \in 0 .. n - 1 : f.data[j] = w[f.start + j]

(* The samples of a channel: fewer than an unsigned number counts.         *)
WaveOK(w) == Size(w) \in 0 .. Wrap - 1 /\ w \in [0 .. Size(w) - 1 -> Int]

(* A pulse of the wave that ends inside the fragment of n samples from fs  *)
PulseOf(w, th1, fs, n, p, q) ==
  /\ fs <= p /\ p <= q /\ q + 1 < fs + n
  /\ \A i \in p .. q : w[i] > th1
  /\ p # fs => w[p - 1] <= th1
  /\ w[q + 1] <= th1

(* What is so of the hits of a fragment                                    *)
HitInside(w, fs, n, h) ==
  /\ fs <= h.start /\ h.start <= h.max /\ h.max <= h.end /\ h.end < fs + n
  /\ h.amp = w[h.max] /\ \A i \in h.start .. h.end : w[i] <= h.amp
  /\ fs <= h.win.from /\ h.win.to < fs + n

(* What is true of the hits F found among the n samples from fs on.        *)
FoundIn(w, th1, width, pl, fs, n, F) ==
  /\ F \in Seq(KeptHit)
  /\ \A m \in DOMAIN F : HitInside(w, fs, n, F[m])
  /\ \A m \in DOMAIN F \ {1} : F[m - 1].end < F[m].start
  /\ \A m \in DOMAIN F \ {1} : F[m].start - fs >= pl => F[m - 1].win.to <= F[m].win.from
  /\ \A p, q \in Nat : PulseOf(w, th1, fs, n, p, q) /\ q - p + 1 >= width => CoveredBy(F, p, q)
  /\ \A m \in DOMAIN F : \/ \E p, q \in Nat : PulseOf(w, th1, fs, n, p, q) /\ Within(F[m], p, q)
                         \/ \A i \in F[m].start .. fs + n - 1 : w[i] > th1

(* A pulse of the fragment is one of the wave, fs samples later.           *)
LEMMA PulseMoved ==
  ASSUME NEW w, NEW f, FragOK(w, f), NEW th1 \in Int, NEW c, c.data = f.data, c.th1 = th1,
         NEW p \in Nat, NEW q \in Nat
  PROVE  LET n == Size(f.data)
         IN  PulseIn(c, n, p, q) <=> PulseOf(w, th1, f.start, n, p + f.start, q + f.start)
<1> DEFINE n == Size(f.data)
           fs == f.start
           d == f.data
           P == p + fs
           Q == q + fs
<1>1. fs \in Nat /\ n \in Nat /\ d \in [0 .. n - 1 -> Int] /\ \A j \in 0 .. n - 1 : d[j] = w[fs + j]
  BY Zenon DEF FragOK
<1> HIDE DEF n, fs, d
<1>2. \A j \in 0 .. n - 1 : d[j] \in Int
  BY <1>1
<1>3. /\ (p <= q <=> P <= Q) /\ (q + 1 < n <=> Q + 1 < fs + n) /\ fs <= P
      /\ (p # 0 <=> P # fs)
  BY <1>1
<1>4. ASSUME q + 1 < n
      PROVE  (\A j \in p .. q : d[j] > th1) <=> (\A i \in P .. Q : w[i] > th1)
  <2>1. ASSUME \A j \in p .. q : d[j] > th1, NEW i \in P .. Q PROVE w[i] > th1
    <3>1. i - fs \in p .. q /\ i - fs \in 0 .. n - 1 /\ fs + (i - fs) = i
      BY <1>1, <1>4
    <3>2. d[i - fs] = w[i] /\ d[i - fs] > th1
      BY <1>1, <2>1, <3>1, Zenon
    <3> QED BY <3>2, Zenon
  <2>2. ASSUME \A i \in P .. Q : w[i] > th1, NEW j \in p .. q PROVE d[j] > th1
    <3>1. fs + j \in P .. Q /\ j \in 0 .. n - 1
      BY <1>1, <1>4
    <3>2. d[j] = w[fs + j] /\ w[fs + j] > th1
      BY <1>1, <2>2, <3>1, Zenon
    <3> QED BY <3>2, Zenon
  <2> QED BY <2>1, <2>2
<1>5. ASSUME q + 1 < n, p <= q
      PROVE  (p # 0 => ~(d[p - 1] > th1)) <=> (P # fs => w[P - 1] <= th1)
  <2>1. p # 0 => p - 1 \in 0 .. n - 1 /\ fs + (p - 1) = P - 1
    BY <1>1, <1>5
  <2>2. p # 0 => d[p - 1] = w[P - 1] /\ d[p - 1] \in Int
    BY <1>1, <1>2, <2>1, Zenon
  <2>3. p # 0 => (~(d[p - 1] > th1) <=> w[P - 1] <= th1)
    BY <2>2
  <2> QED BY <1>3, <2>3
<1>6. ASSUME q + 1 < n
      PROVE  ~(d[q + 1] > th1) <=> w[Q + 1] <= th1
  <2>1. q + 1 \in 0 .. n - 1 /\ fs + (q + 1) = Q + 1
    BY <1>1, <1>6
  <2>2. d[q + 1] = w[Q + 1]
    <3> HIDE DEF Q
    <3>1. d[q + 1] = w[fs + (q + 1)]
      BY <1>1, <2>1, Zenon
    <3> QED BY <2>1, <3>1, Zenon
  <2>3. d[q + 1] \in Int
    BY <1>2, <2>1, Zenon
  <2> QED BY <2>2, <2>3
<1>7. PulseIn(c, n, p, q) <=> /\ p <= q /\ q + 1 < n
                              /\ \A j \in p .. q : d[j] > th1
                              /\ p # 0 => ~(d[p - 1] > th1)
                              /\ ~(d[q + 1] > th1)
  BY Zenon DEF PulseIn, d
<1>8. PulseOf(w, th1, fs, n, P, Q) <=> /\ fs <= P /\ P <= Q /\ Q + 1 < fs + n
                                       /\ \A i \in P .. Q : w[i] > th1
                                       /\ P # fs => w[P - 1] <= th1
                                       /\ w[Q + 1] <= th1
  BY Zenon DEF PulseOf
<1> HIDE DEF P, Q
<1>9. ASSUME PulseIn(c, n, p, q) PROVE PulseOf(w, th1, fs, n, P, Q)
  <2>1. /\ p <= q /\ q + 1 < n
        /\ \A j \in p .. q : d[j] > th1
        /\ p # 0 => ~(d[p - 1] > th1)
        /\ ~(d[q + 1] > th1)
    BY <1>7, <1>9, Zenon
  <2>2. \A i \in P .. Q : w[i] > th1
    BY <2>1, <1>4, Zenon
  <2>3. P # fs => w[P - 1] <= th1
    BY <2>1, <1>5, Zenon
  <2>4. w[Q + 1] <= th1
    BY <2>1, <1>6, Zenon
  <2> QED BY <1>3, <1>8, <2>1, <2>2, <2>3, <2>4, Zenon
<1>10. ASSUME PulseOf(w, th1, fs, n, P, Q) PROVE PulseIn(c, n, p, q)
  <2>1. /\ P <= Q /\ Q + 1 < fs + n
        /\ \A i \in P .. Q : w[i] > th1
        /\ P # fs => w[P - 1] <= th1
        /\ w[Q + 1] <= th1
    BY <1>8, <1>10, Zenon
  <2>2. p <= q /\ q + 1 < n
    BY <2>1, <1>3, Zenon
  <2>3. \A j \in p .. q : d[j] > th1
    BY <2>1, <2>2, <1>4, Zenon
  <2>4. p # 0 => ~(d[p - 1] > th1)
    BY <2>1, <2>2, <1>5, Zenon
  <2>5. ~(d[q + 1] > th1)
    BY <2>1, <2>2, <1>6, Zenon
  <2> QED BY <1>7, <2>2, <2>3, <2>4, <2>5, Zenon
<1> QED BY <1>9, <1>10, Zenon DEF n, fs, P, Q

(* The hit moved to the time of the fragment                               *)
MovedHit(h, wd, fs) ==
  [start |-> h.start + fs, max |-> h.max + fs, end |-> h.end + fs, amp |-> h.amp,
   win |-> [from |-> wd.from + fs, to |-> wd.to + fs]]

(* A hit of the wave, field by field.                                      *)
LEMMA MovedForm ==
  ASSUME NEW s \in Nat, NEW x \in Nat, NEW e \in Nat, NEW a \in Int, NEW fr \in Nat, NEW t \in Nat,
         NEW h, h = [start |-> s, max |-> x, end |-> e, amp |-> a, win |-> [from |-> fr, to |-> t]]
  PROVE  /\ h \in KeptHit /\ h.start = s /\ h.max = x /\ h.end = e /\ h.amp = a
         /\ h.win.from = fr /\ h.win.to = t
BY DEF KeptHit

(* The hits of the fragment, each moved to the wave.                       *)
LEMMA FinalizeForm ==
  ASSUME NEW hs, NEW fs, NEW n, NEW pl, NEW pr
  PROVE  FinalizeHits(hs, fs, n, pl, pr)
           = [k \in DOMAIN hs |-> MovedHit(hs[k], Window(hs, k, n, pl, pr), fs)]
BY Zenon DEF FinalizeHits, MovedHit

(* What the finder returns for a fragment.                                 *)
LEMMA FragHits ==
  ASSUME NEW w, WaveOK(w), NEW f, FragOK(w, f), NEW th1 \in Int, NEW th2 \in Nat,
         NEW width \in Nat, NEW pl \in Nat, NEW pr \in Nat
  PROVE  FoundIn(w, th1, width, pl, f.start, Size(f.data), FindHits(f, th1, th2, width, pl, pr))
<1> DEFINE n == Size(f.data)
           fs == f.start
           d == f.data
           c == AlgoData(d, th1, th2, width)
           hs == Algorithm(d, th1, th2, width)
           W(k) == Window(hs, k, n, pl, pr)
           F == FindHits(f, th1, th2, width, pl, pr)
<1>1. fs \in Nat /\ n \in Nat /\ d \in [0 .. n - 1 -> Int] /\ \A j \in 0 .. n - 1 : d[j] = w[fs + j]
  BY Zenon DEF FragOK
<1>2. n \in 0 .. Wrap - 1
  <2>1. n = 0 \/ fs + n <= Size(w)
    BY Zenon DEF FragOK
  <2>2. Size(w) \in 0 .. Wrap - 1
    BY Zenon DEF WaveOK
  <2> HIDE DEF n, fs
  <2> QED BY <1>1, <2>1, <2>2, RoiAssumption
<1> HIDE DEF n, fs, d, hs, W, F
<1>3. c.data = d /\ c.th1 = th1 /\ c.minWidth = width
  BY DEF AlgoData
<1>4. /\ hs \in Seq(FoundHit)
      /\ ClosedHits(c, n, hs)
      /\ PulsesCovered(c, n, hs)
      /\ \A m \in DOMAIN hs : \/ \E p, q \in Nat : PulseIn(c, n, p, q) /\ Within(hs[m], p, q)
                              \/ \A j \in hs[m].start .. n - 1 : d[j] > th1
  BY <1>1, AlgoResult DEF hs
<1>5. F = [k \in DOMAIN hs |-> MovedHit(hs[k], W(k), fs)]
  BY FinalizeForm, Zenon DEF FindHits, fs, n, d, hs, W, F
<1> HIDE DEF c
<1>6. DOMAIN hs = 1 .. Len(hs) /\ Len(hs) \in Nat /\ DOMAIN F = DOMAIN hs
  BY <1>4, <1>5
<1>7. \A p, q \in Nat : PulseIn(c, n, p, q) <=> PulseOf(w, th1, fs, n, p + fs, q + fs)
  BY <1>3, PulseMoved, Zenon DEF n, fs, d
<1>8. Ordered(hs, n)
  <2>1. ASSUME NEW m \in DOMAIN hs PROVE hs[m].start <= hs[m].end /\ hs[m].end < n
    <3>1. hs[m].start \in Nat /\ hs[m].max \in Nat /\ hs[m].end \in Nat
      BY <1>4, FoundAt, Zenon
    <3>2. hs[m].start <= hs[m].max /\ hs[m].max <= hs[m].end /\ hs[m].end < n
      BY <1>4, Zenon DEF ClosedHits, ClosedHit
    <3> QED BY <3>1, <3>2
  <2> QED BY <1>4, <2>1, Zenon DEF Ordered, ClosedHits
<1>9. ASSUME NEW m \in DOMAIN hs
      PROVE  /\ hs[m].start \in Nat /\ hs[m].max \in Nat /\ hs[m].end \in Nat /\ hs[m].amp \in Int
             /\ W(m).from \in Nat /\ W(m).to \in Nat /\ W(m).to < n
             /\ F[m] \in KeptHit /\ F[m].start = hs[m].start + fs /\ F[m].max = hs[m].max + fs
             /\ F[m].end = hs[m].end + fs /\ F[m].amp = hs[m].amp
             /\ F[m].win.from = W(m).from + fs /\ F[m].win.to = W(m).to + fs
  <2> DEFINE s == hs[m].start
             x == hs[m].max
             e == hs[m].end
             a == hs[m].amp
             fr == W(m).from
             t == W(m).to
  <2>1. s \in Nat /\ x \in Nat /\ e \in Nat /\ a \in Int
    BY <1>4, FoundAt, Zenon
  <2>2. fr \in Nat /\ t \in Nat /\ t < n
    BY <1>1, <1>8, WindowInside, Zenon DEF W
  <2>3. F[m] = MovedHit(hs[m], W(m), fs)
    BY <1>5, Zenon
  <2>4. F[m] = [start |-> s + fs, max |-> x + fs, end |-> e + fs, amp |-> a,
                win |-> [from |-> fr + fs, to |-> t + fs]]
    BY <2>3, Zenon DEF MovedHit
  <2> HIDE DEF s, x, e, a, fr, t
  <2>5. s + fs \in Nat /\ x + fs \in Nat /\ e + fs \in Nat /\ fr + fs \in Nat /\ t + fs \in Nat
    BY <1>1, <2>1, <2>2
  <2> DEFINE S == s + fs
             X == x + fs
             E == e + fs
             FR == fr + fs
             TT == t + fs
             g == F[m]
  <2>6. g = [start |-> S, max |-> X, end |-> E, amp |-> a, win |-> [from |-> FR, to |-> TT]]
    BY <2>4, Zenon
  <2>7. S \in Nat /\ X \in Nat /\ E \in Nat /\ FR \in Nat /\ TT \in Nat
    BY <2>5, Zenon
  <2> HIDE DEF S, X, E, FR, TT, g
  <2>8. /\ g \in KeptHit /\ g.start = S /\ g.max = X /\ g.end = E /\ g.amp = a
        /\ g.win.from = FR /\ g.win.to = TT
    BY <2>1, <2>6, <2>7, SMT DEF KeptHit
  <2> QED BY <2>1, <2>2, <2>8, Zenon DEF s, x, e, a, fr, t, S, X, E, FR, TT, g
<1>10. F \in Seq(KeptHit)
  <2>1. F = [k \in 1 .. Len(hs) |-> F[k]]
    BY <1>5, <1>6, Zenon
  <2>2. \A k \in 1 .. Len(hs) : F[k] \in KeptHit
    BY <1>6, <1>9, Zenon
  <2> HIDE DEF KeptHit
  <2> QED BY <1>6, <2>1, <2>2
<1>11. ASSUME NEW m \in DOMAIN hs PROVE HitInside(w, fs, n, F[m])
  <2> DEFINE s == hs[m].start
             x == hs[m].max
             e == hs[m].end
             a == hs[m].amp
             S == F[m].start
             X == F[m].max
             E == F[m].end
             fr == W(m).from
             t == W(m).to
             FR == F[m].win.from
             TT == F[m].win.to
  <2>1. /\ s \in Nat /\ x \in Nat /\ e \in Nat /\ a \in Int /\ fr \in Nat /\ t \in Nat /\ t < n
        /\ S = s + fs /\ X = x + fs /\ E = e + fs /\ F[m].amp = a /\ FR = fr + fs /\ TT = t + fs
    BY <1>9, Zenon
  <2>2. s <= x /\ x <= e /\ e < n /\ a = d[x] /\ \A j \in s .. e : d[j] <= a
    BY <1>3, <1>4, Zenon DEF ClosedHits, ClosedHit
  <2> HIDE DEF s, x, e, a, S, X, E, fr, t, FR, TT
  <2>3. fs <= S /\ S <= X /\ X <= E /\ E < fs + n /\ fs <= FR /\ TT < fs + n
    BY <1>1, <2>1, <2>2
  <2>4. a = w[X]
    <3>1. x \in 0 .. n - 1 /\ fs + x = X
      BY <1>1, <2>1, <2>2
    <3> QED BY <1>1, <2>2, <3>1, Zenon
  <2>5. ASSUME NEW i \in S .. E PROVE w[i] <= a
    <3>1. i - fs \in s .. e /\ i - fs \in 0 .. n - 1 /\ fs + (i - fs) = i
      BY <1>1, <2>1, <2>2
    <3>2. d[i - fs] = w[i] /\ d[i - fs] <= a
      BY <1>1, <2>2, <3>1, Zenon
    <3> QED BY <3>2, Zenon
  <2> QED BY <2>1, <2>3, <2>4, <2>5, Zenon DEF HitInside, S, X, E, FR, TT
<1>12. ASSUME NEW m \in DOMAIN hs \ {1}
       PROVE  /\ F[m - 1].end < F[m].start
              /\ F[m].start - fs >= pl => F[m - 1].win.to <= F[m].win.from
  <2>0. m \in DOMAIN hs /\ m - 1 \in DOMAIN hs /\ m - 1 < m /\ m # 1
    BY <1>6
  <2> DEFINE s == hs[m].start
             e == hs[m - 1].end
             fr == W(m).from
             t == W(m - 1).to
             S == F[m].start
             E == F[m - 1].end
             FR == F[m].win.from
             TT == F[m - 1].win.to
  <2>1. /\ s \in Nat /\ fr \in Nat /\ S = s + fs /\ FR = fr + fs
    BY <1>9, <2>0, Zenon
  <2>2. /\ e \in Nat /\ t \in Nat /\ E = e + fs /\ TT = t + fs
    BY <1>9, <2>0, Zenon
  <2>3. e < s
    BY <1>8, <2>0, Zenon DEF Ordered
  <2>4. s >= pl => t <= fr
    BY <1>2, <1>8, <2>0, WindowsApart, Zenon DEF W
  <2> HIDE DEF s, e, fr, t, S, E, FR, TT
  <2>5. E < S /\ (S - fs >= pl => TT <= FR)
    BY <1>1, <2>1, <2>2, <2>3, <2>4
  <2> QED BY <2>5, Zenon DEF S, E, FR, TT
<1>13. ASSUME NEW p \in Nat, NEW q \in Nat, NEW m \in DOMAIN hs, Within(hs[m], p, q)
       PROVE  Within(F[m], p + fs, q + fs)
  <2> DEFINE s == hs[m].start
             e == hs[m].end
             S == F[m].start
             E == F[m].end
  <2>1. s \in Nat /\ e \in Nat /\ S = s + fs /\ E = e + fs
    BY <1>9, Zenon
  <2>2. p <= s /\ e <= q
    BY <1>13, Zenon DEF Within
  <2> HIDE DEF s, e, S, E
  <2>3. p + fs <= S /\ E <= q + fs
    BY <1>1, <2>1, <2>2
  <2> QED BY <2>3, Zenon DEF Within, S, E
<1>14. ASSUME NEW P \in Nat, NEW Q \in Nat, PulseOf(w, th1, fs, n, P, Q), Q - P + 1 >= width
       PROVE  CoveredBy(F, P, Q)
  <2>1. fs <= P /\ P <= Q
    BY <1>14, Zenon DEF PulseOf
  <2> DEFINE p == P - fs
             q == Q - fs
  <2>2. p \in Nat /\ q \in Nat /\ p + fs = P /\ q + fs = Q /\ q - p + 1 >= width
    BY <1>1, <1>14, <2>1
  <2> HIDE DEF p, q
  <2>3. PulseIn(c, n, p, q)
    BY <1>7, <1>14, <2>2, Zenon
  <2>4. CoveredBy(hs, p, q)
    BY <1>3, <1>4, <2>2, <2>3, Zenon DEF PulsesCovered
  <2>5. ASSUME NEW i \in P .. Q
        PROVE  \E m \in DOMAIN F : Within(F[m], P, Q) /\ F[m].start <= i /\ i <= F[m].end
    <3>1. i - fs \in p .. q
      BY <1>1, <2>2
    <3>2. PICK m \in DOMAIN hs : Within(hs[m], p, q) /\ hs[m].start <= i - fs /\ i - fs <= hs[m].end
      BY <2>4, <3>1, Zenon DEF CoveredBy
    <3>3. Within(F[m], P, Q)
      BY <1>13, <2>2, <3>2
    <3> DEFINE s == hs[m].start
               e == hs[m].end
               S == F[m].start
               E == F[m].end
    <3>4. s \in Nat /\ e \in Nat /\ S = s + fs /\ E = e + fs
      BY <1>9, Zenon
    <3>5. s <= i - fs /\ i - fs <= e
      BY <3>2, Zenon
    <3> HIDE DEF s, e, S, E
    <3>6. S <= i /\ i <= E
      BY <1>1, <1>14, <3>4, <3>5
    <3> QED BY <1>6, <3>3, <3>6, Zenon DEF S, E
  <2> QED BY <2>5, Zenon DEF CoveredBy
<1>15. ASSUME NEW m \in DOMAIN hs
       PROVE  \/ \E p, q \in Nat : PulseOf(w, th1, fs, n, p, q) /\ Within(F[m], p, q)
              \/ \A i \in F[m].start .. fs + n - 1 : w[i] > th1
  <2>1. CASE \E p, q \in Nat : PulseIn(c, n, p, q) /\ Within(hs[m], p, q)
    <3>1. PICK p \in Nat, q \in Nat : PulseIn(c, n, p, q) /\ Within(hs[m], p, q)
      BY <2>1
    <3>2. p + fs \in Nat /\ q + fs \in Nat
      BY <1>1
    <3>3. PulseOf(w, th1, fs, n, p + fs, q + fs) /\ Within(F[m], p + fs, q + fs)
      BY <1>7, <1>13, <3>1, Zenon
    <3> QED BY <3>2, <3>3, Zenon
  <2>2. CASE \A j \in hs[m].start .. n - 1 : d[j] > th1
    <3> DEFINE s == hs[m].start
               S == F[m].start
    <3>1. s \in Nat /\ S = s + fs
      BY <1>9, Zenon
    <3>2. \A j \in s .. n - 1 : d[j] > th1
      BY <2>2, Zenon
    <3> HIDE DEF s, S
    <3>3. ASSUME NEW i \in S .. fs + n - 1 PROVE w[i] > th1
      <4>1. i - fs \in s .. n - 1 /\ i - fs \in 0 .. n - 1 /\ fs + (i - fs) = i
        BY <1>1, <3>1
      <4>2. d[i - fs] = w[i] /\ d[i - fs] > th1
        BY <1>1, <3>2, <4>1, Zenon
      <4> QED BY <4>2, Zenon
    <3> QED BY <3>3, Zenon DEF S
  <2> QED BY <1>4, <2>1, <2>2, Zenon
<1>16. FoundIn(w, th1, width, pl, fs, n, F)
  <2> HIDE DEF KeptHit
  <2> QED BY <1>6, <1>10, <1>11, <1>12, <1>14, <1>15, Zenon DEF FoundIn
<1> QED BY <1>16, Zenon DEF F, fs, n
=============================================================================
