--------------------------- MODULE ProgramProofs ----------------------------
(***************************************************************************)
(* Programs that take events one after the other: what is proved of the    *)
(* event loop of the reconstruction (EventDataManager), of the online      *)
(* monitor (Monitor), and of the server that sends events (EventServer).   *)
(***************************************************************************)
EXTENDS EventDataManager, Monitor, EventServer, FiniteSetTheorems, SequenceTheorems,
        TLAPS

(***************************************************************************)
(* The properties of the event loop (EventDataManager) hold for any        *)
(* inputs with any number of events, any caller, any tasks and any number  *)
(* of outputs.                                                             *)
(***************************************************************************)

Processed == [ev : Int, cut : BOOLEAN]
Entry     == [head : Int, reco : Seq(Int)]
Selection == [first : Int, past : Int, inside : BOOLEAN]

-----------------------------------------------------------------------------
(* The inductive invariant *)

StateTypes ==
  /\ fInFileStat \in {NoFile, BinFile, RooFile} /\ fOutFileStat \in {NoFile, RooFile}
  /\ fNEvents \in Int /\ fCurEvent \in Int /\ fEvtHead \in Int
  /\ fStartEvLoop \in BOOLEAN /\ fEventToWrite \in BOOLEAN /\ fCut \in BOOLEAN
  /\ inHand \in BOOLEAN /\ atEnd \in BOOLEAN
  /\ fAddedBranches \in BOOLEAN /\ fEventBranches \in BOOLEAN
  /\ resumed \subseteq 1 .. Len(given)
  /\ fRecoData \in Seq(Int)
  /\ input \in Inputs /\ opens \in Nat
  /\ chosen \in Selection
  /\ fEvTreeOut \in Seq(Seq(Entry)) /\ given \in Seq(Seq(Processed))
  /\ Len(fEvTreeOut) = Len(given)
  /\ fOutFileStat # NoFile => given # <<>>
  /\ inHand => fEventToWrite

(* There is an output, and nothing has moved the buffers under it. *)
Promised == fOutFileStat # NoFile /\ Len(given) \notin looked

Current     == given[Len(given)]
CurrentTree == fEvTreeOut[Len(given)]

(* An output that is closed is complete. *)
ClosedInv ==
  \A i \in DOMAIN given \ looked :
    i # Len(given) \/ fOutFileStat = NoFile => Kept(fEvTreeOut[i], given[i], Without(i))

(* The open output lacks the event that is pending, which is in the        *)
(* buffers with its own products, or none, once its tasks have run.        *)
PendingInv ==
  Promised =>
    IF fEventToWrite /\ ~inHand
      THEN /\ Current # <<>> /\ Kept(CurrentTree, Front(Current), Without(Len(given)))
           /\ Last(Current) = [ev |-> fEvtHead, cut |-> fCut]
           /\ fRecoData \in {<<fEvtHead>>} \cup Without(Len(given))
      ELSE Kept(CurrentTree, Current, Without(Len(given))) /\ fRecoData = <<>>

(* The branches are made before an event is pending, and an event does not *)
(* know them only when the loop was started before the output was opened.  *)
BranchInv ==
  fOutFileStat # NoFile =>
    /\ fEventToWrite => fAddedBranches /\ fStartEvLoop
    /\ fStartEvLoop => fEventBranches \/ Len(given) \in resumed

(* The input keeps the caller's choice. *)
Selects == input \in BinInputs => opens = 1 /\ chosen.inside

(* fCurEvent runs from the first event chosen to the one past the last,    *)
(* one ahead of the events whose tasks ran while one is in hand.           *)
LoopInv ==
  Promised /\ Selects =>
    /\ chosen.first >= 0 /\ chosen.first <= chosen.past /\ fNEvents = chosen.past
    /\ ~fStartEvLoop =>
         /\ Current = <<>> /\ ~inHand /\ ~atEnd
         /\ fCurEvent = chosen.first \/ (input \in BinInputs /\ fCurEvent = None /\ chosen.first = 0)
    /\ fStartEvLoop =>
         /\ fCurEvent = chosen.first + Len(Current) + (IF inHand THEN 1 ELSE 0)
         /\ fCurEvent <= chosen.past
         /\ inHand => fEvtHead = chosen.first + Len(Current)
         /\ atEnd => fCurEvent = chosen.past /\ ~inHand
    /\ \A i \in DOMAIN Current : Current[i].ev = chosen.first + i - 1

(* The first input finds the loop as the constructor left it. *)
FreshInv ==
  opens = 0 => fInFileStat = NoFile /\ fOutFileStat = NoFile /\ fCurEvent = None /\ ~fStartEvLoop

IInv == StateTypes /\ ClosedInv /\ PendingInv /\ BranchInv /\ LoopInv /\ FreshInv

-----------------------------------------------------------------------------
(* Sequences *)

LEMMA FrontOfAppend ==
  ASSUME NEW S, NEW s \in Seq(S), NEW e \in S
  PROVE  /\ Append(s, e) \in Seq(S) /\ Append(s, e) # <<>> /\ Len(Append(s, e)) = Len(s) + 1
         /\ Front(Append(s, e)) = s /\ Last(Append(s, e)) = e
BY DEF Front, Last

LEMMA AppendOfFront ==
  ASSUME NEW S, NEW s \in Seq(S), s # <<>>
  PROVE  /\ Front(s) \in Seq(S) /\ Last(s) \in S
         /\ s = Append(Front(s), Last(s))
<1>1. Len(s) \in Nat \ {0} /\ Last(s) \in S BY DEF Last
<1>2. Front(s) \in Seq(S) /\ Len(Front(s)) = Len(s) - 1 BY <1>1, SMTT(20) DEF Front
<1>3. \A i \in 1 .. Len(s) - 1 : Front(s)[i] = s[i] BY <1>1 DEF Front
<1>4. Append(Front(s), Last(s)) \in Seq(S) /\ Len(Append(Front(s), Last(s))) = Len(s)
  BY <1>1, <1>2
<1>5. \A i \in 1 .. Len(s) : Append(Front(s), Last(s))[i] = s[i]
  BY <1>1, <1>2, <1>3 DEF Last
<1> QED BY <1>1, <1>2, <1>4, <1>5

(* The last member is replaced. *)
Replaced(s, e) == Front(s) \o <<e>>

LEMMA LastReplaced ==
  ASSUME NEW S, NEW s \in Seq(S), s # <<>>, NEW e \in S
  PROVE  /\ Replaced(s, e) \in Seq(S) /\ Replaced(s, e) # <<>>
         /\ Len(Replaced(s, e)) = Len(s) /\ Replaced(s, e)[Len(s)] = e
         /\ \A i \in 1 .. Len(s) : i # Len(s) => Replaced(s, e)[i] = s[i]
<1>1. Len(s) \in Nat \ {0} OBVIOUS
<1>2. Front(s) \in Seq(S) /\ Len(Front(s)) = Len(s) - 1
  <2>1. Front(s) \in Seq(S) /\ s = Append(Front(s), Last(s)) BY AppendOfFront
  <2> QED BY <2>1
<1>3. \A i \in 1 .. Len(s) - 1 : Front(s)[i] = s[i] BY <1>1 DEF Front
<1> DEFINE t == Front(s) \o <<e>>
<1>4. t \in Seq(S) /\ Len(t) = Len(s) BY <1>1, <1>2
<1>5. t[Len(s)] = e BY <1>1, <1>2
<1>6. \A i \in 1 .. Len(s) - 1 : t[i] = Front(s)[i] BY <1>1, <1>2
<1>7. \A i \in 1 .. Len(s) : i # Len(s) => t[i] = s[i]
  <2>1. \A i \in 1 .. Len(s) : i # Len(s) => i \in 1 .. Len(s) - 1 BY <1>1
  <2>2. \A i \in 1 .. Len(s) - 1 : t[i] = s[i] BY <1>3, <1>6
  <2> QED BY <2>1, <2>2
<1>8. t # <<>> BY <1>1, <1>4
<1>9. Replaced(s, e) = t BY DEF Replaced
<1> HIDE DEF t
<1> QED BY <1>4, <1>5, <1>7, <1>8, <1>9

LEMMA TreeReplaced ==
  ASSUME NEW s \in Seq(Seq(Entry)), s # <<>>, NEW e \in Seq(Entry)
  PROVE  /\ Replaced(s, e) \in Seq(Seq(Entry)) /\ Replaced(s, e) # <<>>
         /\ Len(Replaced(s, e)) = Len(s) /\ Replaced(s, e)[Len(s)] = e
         /\ \A i \in 1 .. Len(s) : i # Len(s) => Replaced(s, e)[i] = s[i]
<1>1. Replaced(s, e) \in Seq(Seq(Entry)) /\ Replaced(s, e) # <<>>
  BY LastReplaced, SMTT(30)
<1>2. Len(Replaced(s, e)) = Len(s) /\ Replaced(s, e)[Len(s)] = e
  BY LastReplaced, SMTT(30)
<1>3. \A i \in 1 .. Len(s) : i # Len(s) => Replaced(s, e)[i] = s[i]
  BY LastReplaced, SMTT(30)
<1> QED BY <1>1, <1>2, <1>3

LEMMA GivenReplaced ==
  ASSUME NEW s \in Seq(Seq(Processed)), s # <<>>, NEW e \in Seq(Processed)
  PROVE  /\ Replaced(s, e) \in Seq(Seq(Processed)) /\ Replaced(s, e) # <<>>
         /\ Len(Replaced(s, e)) = Len(s) /\ Replaced(s, e)[Len(s)] = e
         /\ \A i \in 1 .. Len(s) : i # Len(s) => Replaced(s, e)[i] = s[i]
<1>1. Replaced(s, e) \in Seq(Seq(Processed)) /\ Replaced(s, e) # <<>>
  BY LastReplaced, SMTT(30)
<1>2. Len(Replaced(s, e)) = Len(s) /\ Replaced(s, e)[Len(s)] = e
  BY LastReplaced, SMTT(30)
<1>3. \A i \in 1 .. Len(s) : i # Len(s) => Replaced(s, e)[i] = s[i]
  BY LastReplaced, SMTT(30)
<1> QED BY <1>1, <1>2, <1>3

LEMMA KeptNone ==
  ASSUME NEW w
  PROVE  Kept(<<>>, <<>>, w)
<1> DEFINE at == [i \in DOMAIN <<>> |-> i]
<1>1. DOMAIN <<>> = {} OBVIOUS
<1>2. at \in [DOMAIN <<>> -> DOMAIN <<>>] OBVIOUS
<1>3. {at[i] : i \in DOMAIN <<>>} = {} BY <1>1
<1> QED BY <1>1, <1>2, <1>3 DEF Kept

(* One more event is processed. *)
LEMMA KeptMore ==
  ASSUME NEW tree \in Seq(Entry), NEW p \in Seq(Processed), NEW e \in Processed, NEW w,
         Kept(tree, p, w), NEW x \in Entry, x.head = e.ev, x.reco \in {<<e.ev>>} \cup w
  PROVE  /\ e.cut => Kept(tree, Append(p, e), w)
         /\ ~e.cut => Kept(Append(tree, x), Append(p, e), w)
<1> DEFINE m == Len(tree)
           n == Len(p)
           q == Append(p, e)
           t == Append(tree, x)
           Own(y, z) == y.head = z.ev /\ y.reco \in {<<z.ev>>} \cup w
<1>0. Own(x, e) OBVIOUS
<1>1. /\ m \in Nat /\ n \in Nat /\ DOMAIN tree = 1 .. m /\ DOMAIN p = 1 .. n
      /\ DOMAIN q = 1 .. n + 1 /\ q[n + 1] = e /\ (\A k \in 1 .. n : q[k] = p[k])
      /\ e = [ev |-> e.ev, cut |-> e.cut]
  BY DEF Processed
<1>2. DOMAIN t = 1 .. m + 1 /\ t[m + 1] = x /\ (\A k \in 1 .. m : t[k] = tree[k])
  BY DEF Entry, Processed
<1>3. PICK at \in [1 .. m -> 1 .. n] :
        /\ \A i, j \in 1 .. m : i < j => at[i] < at[j]
        /\ {at[i] : i \in 1 .. m} = {k \in 1 .. n : ~p[k].cut}
        /\ \A i \in 1 .. m :
             Own(tree[i], p[at[i]])
  BY <1>1 DEF Kept
<1> HIDE DEF m, n, q, t, Own
<1>4. \A i \in 1 .. m : at[i] \in 1 .. n /\ q[at[i]] = p[at[i]] BY <1>1, <1>3
<1>5. \A k \in 1 .. n + 1 : k = n + 1 \/ (k \in 1 .. n /\ k # n + 1) BY <1>1
<1>6. \A k \in 1 .. n : k \in 1 .. n + 1 /\ k < n + 1 BY <1>1
<1>7. ASSUME e.cut PROVE Kept(tree, q, w)
  <2>1. at \in [1 .. m -> 1 .. n + 1] BY <1>3, <1>6
  <2>2. {k \in 1 .. n : ~p[k].cut} = {k \in 1 .. n + 1 : ~q[k].cut}
    BY <1>1, <1>5, <1>6, <1>7
  <2>3. \A i \in 1 .. m : Own(tree[i], q[at[i]])
    BY <1>3, <1>4
  <2>4. /\ \A i, j \in 1 .. m : i < j => at[i] < at[j]
        /\ {at[i] : i \in 1 .. m} = {k \in 1 .. n + 1 : ~q[k].cut}
    BY <1>3, <2>2
  <2>5. DOMAIN tree = 1 .. m /\ DOMAIN q = 1 .. n + 1 BY <1>1
  <2> QED BY <2>1, <2>3, <2>4, <2>5 DEF Kept, Own
<1>8. ASSUME ~e.cut PROVE Kept(t, q, w)
  <2> DEFINE to == [i \in 1 .. m + 1 |-> IF i = m + 1 THEN n + 1 ELSE at[i]]
  <2>0. /\ m + 1 \in 1 .. m + 1 /\ n + 1 \in 1 .. n + 1
        /\ \A i \in 1 .. m + 1 : i = m + 1 \/ (i \in 1 .. m /\ i # m + 1)
        /\ \A i \in 1 .. m : i \in 1 .. m + 1 /\ i # m + 1
    BY <1>1
  <2>1. to[m + 1] = n + 1 /\ (\A i \in 1 .. m : to[i] = at[i]) BY <2>0
  <2>2. to \in [1 .. m + 1 -> 1 .. n + 1] BY <2>0, <1>4, <1>6
  <2> HIDE DEF to
  <2>3. \A i, j \in 1 .. m + 1 : i < j => to[i] < to[j]
    <3> SUFFICES ASSUME NEW i \in 1 .. m + 1, NEW j \in 1 .. m + 1, i < j PROVE to[i] < to[j]
      OBVIOUS
    <3>1. i \in 1 .. m BY <1>1
    <3>2. CASE j = m + 1 BY <3>1, <3>2, <2>1, <1>4, <1>6
    <3>3. CASE j \in 1 .. m BY <3>1, <3>3, <2>1, <1>3
    <3> QED BY <2>0, <3>2, <3>3
  <2>4. {to[i] : i \in 1 .. m + 1} = {at[i] : i \in 1 .. m} \cup {n + 1}
    BY <2>0, <2>1
  <2>5. {k \in 1 .. n + 1 : ~q[k].cut} = {k \in 1 .. n : ~p[k].cut} \cup {n + 1}
    BY <1>1, <1>5, <1>6, <1>8, <2>0
  <2>6. \A i \in 1 .. m + 1 : Own(t[i], q[to[i]])
    <3> DEFINE G(i) == Own(t[i], q[to[i]])
    <3>1. G(m + 1) BY <1>0, <1>1, <1>2, <2>1
    <3>2. \A i \in 1 .. m : G(i)
      <4> TAKE i \in 1 .. m
      <4>1. Own(t[i], p[at[i]]) BY <1>2, <1>3
      <4>2. q[to[i]] = p[at[i]] BY <1>4, <2>1
      <4> QED BY <4>1, <4>2
    <3>3. \A i \in 1 .. m + 1 : G(i)
      <4> HIDE DEF G
      <4> QED BY <2>0, <3>1, <3>2
    <3> QED BY <3>3
  <2>7. {to[i] : i \in 1 .. m + 1} = {k \in 1 .. n + 1 : ~q[k].cut}
    BY <1>3, <2>4, <2>5
  <2>8. DOMAIN t = 1 .. m + 1 /\ DOMAIN q = 1 .. n + 1 BY <1>1, <1>2
  <2>9. \E f \in [DOMAIN t -> DOMAIN q] :
           /\ \A i, j \in DOMAIN t : i < j => f[i] < f[j]
           /\ {f[i] : i \in DOMAIN t} = {k \in DOMAIN q : ~q[k].cut}
           /\ \A i \in DOMAIN t :
                Own(t[i], q[f[i]])
    BY <2>2, <2>3, <2>6, <2>7, <2>8, Zenon
  <2> QED BY <2>9 DEF Kept, Own
<1> QED BY <1>7, <1>8 DEF q, t

-----------------------------------------------------------------------------
(* The end of an event *)

LEMMA EndKeepsTrees ==
  ASSUME StateTypes
  PROVE  /\ TreeAfterEnd \in Seq(Seq(Entry)) /\ Len(TreeAfterEnd) = Len(given)
         /\ \A i \in 1 .. Len(given) : i # Len(given) => TreeAfterEnd[i] = fEvTreeOut[i]
         /\ fOutFileStat = NoFile => TreeAfterEnd = fEvTreeOut
         /\ RecoAfterEnd \in Seq(Int) /\ PendingAfterEnd \in BOOLEAN
         /\ fOutFileStat # NoFile => ~PendingAfterEnd
<1>1. /\ fEvTreeOut \in Seq(Seq(Entry)) /\ given \in Seq(Seq(Processed))
      /\ Len(fEvTreeOut) = Len(given) /\ Len(given) \in Nat
      /\ fOutFileStat \in {NoFile, RooFile}
      /\ fRecoData \in Seq(Int) /\ fEvtHead \in Int /\ fEventToWrite \in BOOLEAN
      /\ fOutFileStat # NoFile => given # <<>>
  BY DEF StateTypes
<1>2. NoFile # RooFile BY DEF NoFile, RooFile
<1>3. RecoAfterEnd \in Seq(Int) BY <1>1 DEF RecoAfterEnd
<1>4. /\ PendingAfterEnd \in BOOLEAN /\ (fOutFileStat # NoFile => ~PendingAfterEnd)
  BY <1>1 DEF PendingAfterEnd
<1>5. CASE fEventToWrite /\ fOutFileStat = RooFile /\ ~fCut
  <2>1. fEvTreeOut # <<>> BY <1>1, <1>2, <1>5
  <2>2. Last(fEvTreeOut) \in Seq(Entry) BY <1>1, <2>1, AppendOfFront
  <2> DEFINE e == [head |-> fEvtHead, reco |-> fRecoData]
  <2>3. e \in Entry BY <1>1 DEF Entry
  <2> HIDE DEF e
  <2> DEFINE y == Append(Last(fEvTreeOut), e)
  <2>4. y \in Seq(Entry) BY <2>2, <2>3
  <2>5. TreeAfterEnd = Replaced(fEvTreeOut, y)
    BY <1>5 DEF TreeAfterEnd, Replaced, e
  <2> HIDE DEF y
  <2>6. /\ TreeAfterEnd \in Seq(Seq(Entry)) /\ Len(TreeAfterEnd) = Len(fEvTreeOut)
        /\ \A i \in 1 .. Len(fEvTreeOut) : i # Len(fEvTreeOut) => TreeAfterEnd[i] = fEvTreeOut[i]
    <3>1. Replaced(fEvTreeOut, y) \in Seq(Seq(Entry)) BY <1>1, <2>1, <2>4, LastReplaced
    <3>2. Len(Replaced(fEvTreeOut, y)) = Len(fEvTreeOut) BY <1>1, <2>1, <2>4, LastReplaced
    <3>3. \A i \in 1 .. Len(fEvTreeOut) :
            i # Len(fEvTreeOut) => Replaced(fEvTreeOut, y)[i] = fEvTreeOut[i]
      BY <1>1, <2>1, <2>4, LastReplaced
    <3> QED BY <2>5, <3>1, <3>2, <3>3
  <2> QED BY <1>1, <1>2, <1>3, <1>4, <1>5, <2>6
<1>6. CASE ~(fEventToWrite /\ fOutFileStat = RooFile /\ ~fCut)
  <2>1. TreeAfterEnd = fEvTreeOut BY <1>6 DEF TreeAfterEnd
  <2> QED BY <2>1, <1>1, <1>3, <1>4
<1> QED BY <1>5, <1>6

LEMMA EndWritesPending ==
  ASSUME StateTypes, PendingInv, BranchInv, Promised, ~inHand
  PROVE  Kept(TreeAfterEnd[Len(given)], Current, Without(Len(given))) /\ RecoAfterEnd = <<>>
<1>1. /\ fEvTreeOut \in Seq(Seq(Entry)) /\ given \in Seq(Seq(Processed))
      /\ Len(fEvTreeOut) = Len(given) /\ fOutFileStat = RooFile /\ given # <<>>
      /\ fEventToWrite \in BOOLEAN /\ fCut \in BOOLEAN /\ fEvtHead \in Int
      /\ fRecoData \in Seq(Int)
  BY DEF StateTypes, Promised
<1>2. /\ Len(given) \in 1 .. Len(given) /\ Current \in Seq(Processed)
      /\ CurrentTree \in Seq(Entry) /\ fEvTreeOut # <<>> /\ Last(fEvTreeOut) = CurrentTree
  BY <1>1 DEF Current, CurrentTree, Last
<1>3. CASE ~fEventToWrite
  <2>1. TreeAfterEnd = fEvTreeOut BY <1>3 DEF TreeAfterEnd
  <2>2. Kept(CurrentTree, Current, Without(Len(given))) /\ fRecoData = <<>> BY <1>3 DEF PendingInv
  <2> QED BY <1>3, <2>1, <2>2 DEF CurrentTree, RecoAfterEnd
<1>4. CASE fEventToWrite
  <2>1. /\ Current # <<>> /\ Kept(CurrentTree, Front(Current), Without(Len(given)))
        /\ Last(Current) = [ev |-> fEvtHead, cut |-> fCut]
        /\ fRecoData \in {<<fEvtHead>>} \cup Without(Len(given))
    BY <1>4 DEF PendingInv
  <2> DEFINE e == [ev |-> fEvtHead, cut |-> fCut]
             x == [head |-> fEvtHead, reco |-> fRecoData]
  <2>2. e \in Processed /\ e.cut = fCut /\ e.ev = fEvtHead /\ x \in Entry
    BY <1>1 DEF Processed, Entry
  <2>3. x.head = e.ev /\ x.reco \in {<<e.ev>>} \cup Without(Len(given)) BY <2>1, <2>2
  <2>4. e = Last(Current) BY <2>1
  <2> HIDE DEF e, x
  <2>5. Front(Current) \in Seq(Processed) /\ Current = Append(Front(Current), e)
    BY <1>2, <2>1, <2>4, AppendOfFront
  <2>6. /\ fCut => Kept(CurrentTree, Current, Without(Len(given)))
        /\ ~fCut => Kept(Append(CurrentTree, x), Current, Without(Len(given)))
    BY <1>2, <2>1, <2>2, <2>3, <2>5, KeptMore
  <2>7. RecoAfterEnd = <<>> BY <1>1, <1>4 DEF RecoAfterEnd, BranchInv, Promised
  <2>8. CASE fCut
    <3>1. TreeAfterEnd = fEvTreeOut BY <2>8 DEF TreeAfterEnd
    <3> QED BY <2>6, <2>7, <2>8, <3>1 DEF CurrentTree
  <2>9. CASE ~fCut
    <3>1. TreeAfterEnd = Replaced(fEvTreeOut, Append(CurrentTree, x))
      BY <1>1, <1>2, <1>4, <2>1, <2>9 DEF TreeAfterEnd, Replaced, x
    <3>2. Append(CurrentTree, x) \in Seq(Entry) BY <1>2, <2>2
    <3>3. TreeAfterEnd[Len(fEvTreeOut)] = Append(CurrentTree, x)
      BY <1>1, <1>2, <3>1, <3>2, TreeReplaced
    <3> QED BY <1>1, <2>6, <2>7, <2>9, <3>3
  <2> QED BY <1>1, <2>8, <2>9
<1> QED BY <1>1, <1>3, <1>4

(* Close() completes what is open. *)
LEMMA CloseCompletes ==
  ASSUME StateTypes, ClosedInv, PendingInv, BranchInv, ~inHand
  PROVE  /\ TreeAfterClose \in Seq(Seq(Entry)) /\ Len(TreeAfterClose) = Len(given)
         /\ \A i \in DOMAIN given \ looked : Kept(TreeAfterClose[i], given[i], Without(i))
         /\ PendingAfterClose \in BOOLEAN
<1>1. /\ fEvTreeOut \in Seq(Seq(Entry)) /\ given \in Seq(Seq(Processed))
      /\ Len(fEvTreeOut) = Len(given) /\ DOMAIN given = 1 .. Len(given)
      /\ fEventToWrite \in BOOLEAN
  BY DEF StateTypes
<1>2. PendingAfterClose \in BOOLEAN BY <1>1, EndKeepsTrees DEF PendingAfterClose
<1>3. CASE fOutFileStat = NoFile
  <2>1. TreeAfterClose = fEvTreeOut BY <1>3 DEF TreeAfterClose
  <2> QED BY <1>1, <1>2, <1>3, <2>1 DEF ClosedInv
<1>4. CASE fOutFileStat # NoFile
  <2>1. TreeAfterClose = TreeAfterEnd BY <1>4 DEF TreeAfterClose
  <2>2. ASSUME NEW i \in DOMAIN given \ looked PROVE Kept(TreeAfterEnd[i], given[i], Without(i))
    <3>1. CASE i = Len(given)
      <4>1. Promised BY <1>4, <2>2, <3>1 DEF Promised
      <4> QED BY <3>1, <4>1, EndWritesPending DEF Current
    <3>2. CASE i # Len(given)
      <4>1. TreeAfterEnd[i] = fEvTreeOut[i] BY <1>1, <3>2, EndKeepsTrees
      <4> QED BY <3>2, <4>1 DEF ClosedInv
    <3> QED BY <3>1, <3>2
  <2> QED BY <1>2, <2>1, <2>2, EndKeepsTrees
<1> QED BY <1>3, <1>4

-----------------------------------------------------------------------------
(* The actions, one by one *)

LEMMA EndEventKeeps ==
  ASSUME IInv, EndEvent
  PROVE  IInv'
<1>1. /\ ~inHand /\ fEvTreeOut' = TreeAfterEnd /\ fEventToWrite' = PendingAfterEnd
      /\ fRecoData' = RecoAfterEnd
      /\ fInFileStat' = fInFileStat /\ fOutFileStat' = fOutFileStat /\ input' = input
      /\ opens' = opens /\ fNEvents' = fNEvents /\ fCurEvent' = fCurEvent
      /\ fStartEvLoop' = fStartEvLoop /\ fEvtHead' = fEvtHead /\ fCut' = fCut
      /\ inHand' = inHand /\ chosen' = chosen /\ given' = given /\ atEnd' = atEnd
      /\ looked' = looked /\ resumed' = resumed
      /\ fAddedBranches' = fAddedBranches /\ fEventBranches' = fEventBranches
  BY DEF EndEvent, callVars, branVars
<1>2. StateTypes /\ ClosedInv /\ PendingInv /\ BranchInv /\ LoopInv /\ FreshInv BY DEF IInv
<1>3. /\ TreeAfterEnd \in Seq(Seq(Entry)) /\ Len(TreeAfterEnd) = Len(given)
      /\ \A i \in 1 .. Len(given) : i # Len(given) => TreeAfterEnd[i] = fEvTreeOut[i]
      /\ fOutFileStat = NoFile => TreeAfterEnd = fEvTreeOut
      /\ RecoAfterEnd \in Seq(Int) /\ PendingAfterEnd \in BOOLEAN
      /\ fOutFileStat # NoFile => ~PendingAfterEnd
  BY <1>2, EndKeepsTrees
<1>4. StateTypes' BY <1>1, <1>2, <1>3 DEF StateTypes
<1>5. ClosedInv'
  <2> SUFFICES ASSUME NEW i \in DOMAIN given \ looked, i # Len(given) \/ fOutFileStat = NoFile
               PROVE  Kept(TreeAfterEnd[i], given[i], Without(i))
    BY <1>1 DEF ClosedInv, Without
  <2>1. i \in 1 .. Len(given) BY <1>2 DEF StateTypes
  <2> QED BY <1>2, <1>3, <2>1 DEF ClosedInv
<1>6. PendingInv'
  <2> SUFFICES ASSUME Promised 
               PROVE  Kept(TreeAfterEnd[Len(given)], Current, Without(Len(given))) /\ RecoAfterEnd = <<>>
    BY <1>1, <1>3 DEF PendingInv, Promised, Current, CurrentTree, Without
  <2> QED BY <1>1, <1>2, EndWritesPending
<1>7. LoopInv' BY <1>1, <1>2 DEF LoopInv, Promised, Current, Selects
<1>8. FreshInv' BY <1>1, <1>2 DEF FreshInv
<1>9. BranchInv' BY <1>1, <1>2, <1>3 DEF BranchInv
<1> QED BY <1>4, <1>5, <1>6, <1>7, <1>8, <1>9 DEF IInv

LEMMA CloseKeeps ==
  ASSUME IInv, Close
  PROVE  IInv'
<1>1. /\ ~inHand /\ fInFileStat' = NoFile /\ fOutFileStat' = NoFile
      /\ fEvTreeOut' = TreeAfterClose /\ fEventToWrite' = PendingAfterClose
      /\ fRecoData' = <<>> /\ input' = input
      /\ opens' = opens /\ fNEvents' = fNEvents /\ fCurEvent' = fCurEvent
      /\ fStartEvLoop' = fStartEvLoop /\ fEvtHead' = fEvtHead /\ fCut' = fCut
      /\ inHand' = inHand /\ chosen' = chosen /\ given' = given /\ atEnd' = atEnd
      /\ looked' = looked /\ resumed' = resumed
      /\ ~fAddedBranches' /\ fAddedBranches' \in BOOLEAN /\ fEventBranches' = fEventBranches
  BY DEF Close, callVars
<1>2. StateTypes /\ ClosedInv /\ PendingInv /\ BranchInv /\ LoopInv /\ FreshInv BY DEF IInv
<1>3. /\ TreeAfterClose \in Seq(Seq(Entry)) /\ Len(TreeAfterClose) = Len(given)
      /\ \A i \in DOMAIN given \ looked : Kept(TreeAfterClose[i], given[i], Without(i))
      /\ PendingAfterClose \in BOOLEAN
  BY <1>1, <1>2, CloseCompletes
<1>4. StateTypes' BY <1>1, <1>2, <1>3 DEF StateTypes
<1>5. ClosedInv' BY <1>1, <1>3 DEF ClosedInv, Without
<1>6. ~Promised' BY <1>1 DEF Promised
<1>7. PendingInv' /\ LoopInv' BY <1>6 DEF PendingInv, LoopInv
<1>8. FreshInv' BY <1>1, <1>2 DEF FreshInv
<1>9. BranchInv' BY <1>1 DEF BranchInv
<1> QED BY <1>4, <1>5, <1>7, <1>8, <1>9 DEF IInv

(* What OpenInput sets *)
LEMMA InputOpened ==
  ASSUME IInv, NEW f \in Inputs, OpenInput(f)
  PROVE  /\ ~inHand /\ opens' = opens + 1 /\ input' = f /\ fNEvents' = Entries[f]
         /\ fInFileStat' \in {NoFile, BinFile, RooFile}
         /\ f \in BinInputs => fCurEvent' = fCurEvent /\ fStartEvLoop' = fStartEvLoop
         /\ f \notin BinInputs => fCurEvent' = 0 /\ fStartEvLoop' = FALSE
         /\ inHand' = FALSE /\ atEnd' = FALSE /\ chosen' = All(f)
         /\ fEvtHead' = fEvtHead /\ fCut' = fCut /\ looked' = looked
         /\ All(f).first = 0 /\ All(f).past = Entries[f] /\ All(f).inside
         /\ All(f) \in Selection /\ Entries[f] \in Nat
         /\ fNEvents' \in Int /\ fCurEvent' \in Int /\ fStartEvLoop' \in BOOLEAN
         /\ opens' \in Nat /\ opens' # 0 /\ (opens' = 1 => opens = 0)
         /\ fAddedBranches' \in BOOLEAN /\ fEventBranches' = fEventBranches
<1>1. Entries[f] \in Nat BY ManagerAssumption DEF ManagerAssumption
<1>2. /\ All(f).first = 0 /\ All(f).past = Entries[f] /\ All(f).inside
      /\ All(f) \in Selection
  BY <1>1 DEF All, Selection
<1>3. fCurEvent \in Int /\ fStartEvLoop \in BOOLEAN /\ opens \in Nat
  BY DEF IInv, StateTypes
<1>4. /\ ~inHand /\ opens' = opens + 1 /\ input' = f /\ fNEvents' = Entries[f]
      /\ fInFileStat' \in {NoFile, BinFile, RooFile}
      /\ f \in BinInputs => fCurEvent' = fCurEvent /\ fStartEvLoop' = fStartEvLoop
      /\ f \notin BinInputs => fCurEvent' = 0 /\ fStartEvLoop' = FALSE
      /\ inHand' = FALSE /\ atEnd' = FALSE /\ chosen' = All(f)
      /\ fEvtHead' = fEvtHead /\ fCut' = fCut /\ looked' = looked
      /\ fAddedBranches' \in BOOLEAN /\ fEventBranches' = fEventBranches
  BY DEF OpenInput
<1>5. fCurEvent' \in Int /\ fStartEvLoop' \in BOOLEAN
  <2>1. CASE f \in BinInputs BY <2>1, <1>3, <1>4, Zenon
  <2>2. CASE f \notin BinInputs
    <3>1. fCurEvent' = 0 BY <2>2, <1>4, Zenon
    <3>2. fCurEvent' \in Int BY <3>1
    <3> QED BY <2>2, <3>2, <1>4, Zenon
  <2> QED BY <2>1, <2>2
<1>6. opens' \in Nat /\ opens' # 0 /\ (opens' = 1 => opens = 0) BY <1>3, <1>4
<1>7. fNEvents' \in Int BY <1>1, <1>4
<1> QED BY <1>1, <1>2, <1>4, <1>5, <1>6, <1>7, Zenon

LEMMA OpenReadKeeps ==
  ASSUME IInv, NEW f \in Inputs, OpenRead(f)
  PROVE  IInv'
<1>1. /\ OpenInput(f) /\ fOutFileStat' = NoFile
      /\ fEvTreeOut' = TreeAfterClose /\ fEventToWrite' = PendingAfterClose
      /\ fRecoData' = <<>> /\ given' = given /\ resumed' = resumed
  BY DEF OpenRead
<1>2. StateTypes /\ ClosedInv /\ PendingInv /\ BranchInv /\ LoopInv /\ FreshInv BY DEF IInv
<1>3. /\ TreeAfterClose \in Seq(Seq(Entry)) /\ Len(TreeAfterClose) = Len(given)
      /\ \A i \in DOMAIN given \ looked : Kept(TreeAfterClose[i], given[i], Without(i))
      /\ PendingAfterClose \in BOOLEAN
  BY <1>1, <1>2, InputOpened, CloseCompletes
<1>4. StateTypes'
  <2>1. /\ fCurEvent' \in Int /\ fStartEvLoop' \in BOOLEAN /\ fNEvents' \in Int
        /\ opens' \in Nat /\ input' \in Inputs /\ inHand' = FALSE /\ atEnd' = FALSE
        /\ chosen' \in Selection /\ fEvtHead' = fEvtHead /\ fCut' = fCut
        /\ fInFileStat' \in {NoFile, BinFile, RooFile}
        /\ fAddedBranches' \in BOOLEAN /\ fEventBranches' = fEventBranches
    BY <1>1, InputOpened, Zenon
  <2>3. inHand' \in BOOLEAN /\ atEnd' \in BOOLEAN /\ ~inHand' BY <2>1, Zenon
  <2>4. fEvtHead' \in Int /\ fCut' \in BOOLEAN BY <1>2, <2>1, Zenon DEF StateTypes
  <2>5. /\ fEvTreeOut' \in Seq(Seq(Entry)) /\ given' \in Seq(Seq(Processed))
        /\ Len(fEvTreeOut') = Len(given') /\ fRecoData' \in Seq(Int)
        /\ fEventToWrite' \in BOOLEAN /\ fOutFileStat' = NoFile
    BY <1>1, <1>2, <1>3 DEF StateTypes
  <2>6. fEventBranches' \in BOOLEAN /\ resumed' \subseteq 1 .. Len(given')
    BY <1>1, <1>2, <2>1 DEF StateTypes
  <2> QED BY <2>1, <2>3, <2>4, <2>5, <2>6 DEF StateTypes
<1>5. ClosedInv' BY <1>1, <1>3, InputOpened DEF ClosedInv, Without
<1>6. ~Promised' BY <1>1 DEF Promised
<1>7. PendingInv' /\ LoopInv' BY <1>6 DEF PendingInv, LoopInv
<1>8. FreshInv'
  <2>1. opens' # 0 BY <1>1, InputOpened
  <2> QED BY <2>1 DEF FreshInv
<1>9. BranchInv' BY <1>1 DEF BranchInv
<1> QED BY <1>4, <1>5, <1>7, <1>8, <1>9 DEF IInv

LEMMA OpenReadWriteKeeps ==
  ASSUME IInv, NEW f \in Inputs, OpenReadWrite(f)
  PROVE  IInv'
<1>1. /\ OpenInput(f) /\ fOutFileStat' = RooFile
      /\ fEvTreeOut' = Append(TreeAfterClose, <<>>) /\ ~fEventToWrite'
      /\ fEventToWrite' \in BOOLEAN
      /\ fRecoData' = <<>> /\ given' = Append(given, <<>>)
      /\ resumed' = IF f \in BinInputs /\ fStartEvLoop THEN resumed \cup {Len(given) + 1}
                                                       ELSE resumed
  BY DEF OpenReadWrite
<1>2. StateTypes /\ ClosedInv /\ PendingInv /\ BranchInv /\ LoopInv /\ FreshInv BY DEF IInv
<1>3. /\ TreeAfterClose \in Seq(Seq(Entry)) /\ Len(TreeAfterClose) = Len(given)
      /\ \A i \in DOMAIN given \ looked : Kept(TreeAfterClose[i], given[i], Without(i))
  BY <1>1, <1>2, InputOpened, CloseCompletes
<1>4. /\ given \in Seq(Seq(Processed)) /\ Len(given) \in Nat /\ DOMAIN given = 1 .. Len(given)
  BY <1>2 DEF StateTypes
<1>5. /\ given' \in Seq(Seq(Processed)) /\ given' # <<>> /\ Len(given') = Len(given) + 1
      /\ DOMAIN given' = 1 .. Len(given) + 1 /\ given'[Len(given) + 1] = <<>>
      /\ \A i \in 1 .. Len(given) : given'[i] = given[i]
  <2>1. given' \in Seq(Seq(Processed)) BY <1>1, <1>4
  <2>2. Len(given') = Len(given) + 1 /\ DOMAIN given' = 1 .. Len(given) + 1 BY <1>1, <1>4
  <2>3. given'[Len(given) + 1] = <<>> BY <1>1, <1>4
  <2>4. \A i \in 1 .. Len(given) : given'[i] = given[i] BY <1>1, <1>4
  <2>5. given' # <<>> BY <2>2, <1>4
  <2> QED BY <2>1, <2>2, <2>3, <2>4, <2>5
<1>6. /\ fEvTreeOut' \in Seq(Seq(Entry)) /\ Len(fEvTreeOut') = Len(given')
      /\ fEvTreeOut'[Len(given) + 1] = <<>>
      /\ \A i \in 1 .. Len(given) : fEvTreeOut'[i] = TreeAfterClose[i]
  BY <1>1, <1>3, <1>4, <1>5
<1>7. /\ fCurEvent' \in Int /\ fStartEvLoop' \in BOOLEAN /\ fNEvents' \in Int
      /\ opens' \in Nat /\ input' = f /\ input' \in Inputs /\ inHand' = FALSE /\ atEnd' = FALSE
      /\ chosen' = All(f) /\ chosen' \in Selection
      /\ fEvtHead' = fEvtHead /\ fCut' = fCut /\ looked' = looked
      /\ fInFileStat' \in {NoFile, BinFile, RooFile}
      /\ fNEvents' = Entries[f] /\ chosen'.first = 0 /\ chosen'.past = Entries[f]
      /\ Entries[f] \in Nat /\ opens' # 0 /\ (opens' = 1 => opens = 0)
      /\ f \in BinInputs => fCurEvent' = fCurEvent /\ fStartEvLoop' = fStartEvLoop
      /\ f \notin BinInputs => fCurEvent' = 0 /\ fStartEvLoop' = FALSE
      /\ fAddedBranches' \in BOOLEAN /\ fEventBranches' = fEventBranches
  BY <1>1, InputOpened, Zenon
<1>8. inHand' \in BOOLEAN /\ atEnd' \in BOOLEAN /\ ~inHand' /\ ~atEnd' BY <1>7, Zenon
<1>9. StateTypes'
  <2>1. fEvtHead' \in Int /\ fCut' \in BOOLEAN BY <1>2, <1>7, Zenon DEF StateTypes
  <2>2. fRecoData' \in Seq(Int) BY <1>1
  <2>3. fOutFileStat' \in {NoFile, RooFile} BY <1>1
  <2>4. fEventBranches' \in BOOLEAN BY <1>2, <1>7, Zenon DEF StateTypes
  <2>5. resumed' \subseteq 1 .. Len(given')
    <3>1. resumed \subseteq 1 .. Len(given) BY <1>2 DEF StateTypes
    <3>2. \A i \in 1 .. Len(given) : i \in 1 .. Len(given) + 1 BY <1>4
    <3>3. Len(given) + 1 \in 1 .. Len(given) + 1 BY <1>4
    <3> QED BY <1>1, <1>5, <3>1, <3>2, <3>3
  <2> QED BY <1>1, <1>5, <1>6, <1>7, <1>8, <2>1, <2>2, <2>3, <2>4, <2>5, Zenon DEF StateTypes
<1>10. ClosedInv'
  <2> SUFFICES ASSUME NEW i \in DOMAIN given' \ looked, i # Len(given') \/ fOutFileStat' = NoFile
               PROVE  Kept(fEvTreeOut'[i], given'[i], Without(i)')
    BY <1>7 DEF ClosedInv
  <2>1. i \in 1 .. Len(given)
    <3>1. NoFile # RooFile BY DEF NoFile, RooFile
    <3> QED BY <3>1, <1>1, <1>4, <1>5
  <2>2. Without(i)' = Without(i)
    <3>1. i # Len(given) + 1 BY <1>4, <2>1
    <3> QED BY <1>1, <3>1 DEF Without
  <2> QED BY <2>1, <2>2, <1>3, <1>4, <1>5, <1>6
<1>11. PendingInv' BY <1>1, <1>5, <1>6, KeptNone DEF PendingInv, Current, CurrentTree
<1>12. LoopInv'
  <2>1. Current' = <<>> BY <1>5 DEF Current
  <2>2. CASE f \notin BinInputs
    <3>1. fCurEvent' = 0 /\ ~fStartEvLoop' BY <1>7, <2>2, Zenon
    <3> QED BY <1>7, <1>8, <2>1, <3>1 DEF LoopInv
  <2>3. CASE f \in BinInputs /\ opens' = 1
    <3>1. fCurEvent' = None /\ ~fStartEvLoop' BY <1>2, <1>7, <2>3, Zenon DEF FreshInv
    <3> QED BY <1>7, <1>8, <2>1, <2>3, <3>1 DEF LoopInv
  <2>4. CASE f \in BinInputs /\ opens' # 1
    <3>1. ~Selects' BY <1>7, <2>4 DEF Selects
    <3> QED BY <3>1 DEF LoopInv
  <2> QED BY <2>2, <2>3, <2>4
<1>13. FreshInv' BY <1>7 DEF FreshInv
<1>14. BranchInv'
  <2>1. CASE f \in BinInputs /\ fStartEvLoop
    <3>1. Len(given') \in resumed' BY <1>1, <1>5, <2>1
    <3> QED BY <1>1, <3>1 DEF BranchInv
  <2>2. CASE f \in BinInputs /\ ~fStartEvLoop
    <3>1. ~fStartEvLoop' BY <1>7, <2>2
    <3> QED BY <1>1, <3>1 DEF BranchInv
  <2>3. CASE f \notin BinInputs
    <3>1. ~fStartEvLoop' BY <1>7, <2>3, Zenon
    <3> QED BY <1>1, <3>1 DEF BranchInv
  <2> QED BY <2>1, <2>2, <2>3
<1> QED BY <1>9, <1>10, <1>11, <1>12, <1>13, <1>14 DEF IInv

LEMMA RegisterKeeps ==
  ASSUME IInv, RegisterDataProduct
  PROVE  IInv'
<1>1. /\ fAddedBranches' \in BOOLEAN /\ fAddedBranches'
      /\ fInFileStat' = fInFileStat /\ fOutFileStat' = fOutFileStat
      /\ fEvTreeOut' = fEvTreeOut /\ input' = input /\ opens' = opens
      /\ fNEvents' = fNEvents /\ fCurEvent' = fCurEvent /\ fStartEvLoop' = fStartEvLoop
      /\ fEventToWrite' = fEventToWrite /\ fEvtHead' = fEvtHead
      /\ fRecoData' = fRecoData /\ fCut' = fCut /\ fEventBranches' = fEventBranches
      /\ inHand' = inHand /\ chosen' = chosen /\ given' = given /\ atEnd' = atEnd
      /\ looked' = looked /\ resumed' = resumed
  BY DEF RegisterDataProduct, fileVars, loopVars, dataVars, callVars
<1>2. StateTypes' BY <1>1 DEF IInv, StateTypes
<1>3. ClosedInv' BY <1>1 DEF IInv, ClosedInv, Without
<1>4. PendingInv' BY <1>1 DEF IInv, PendingInv, Promised, Current, CurrentTree, Without
<1>5. LoopInv' BY <1>1 DEF IInv, LoopInv, Promised, Current, Selects
<1>6. FreshInv' BY <1>1 DEF IInv, FreshInv
<1>7. BranchInv' BY <1>1 DEF IInv, BranchInv
<1> QED BY <1>2, <1>3, <1>4, <1>5, <1>6, <1>7 DEF IInv

LEMMA SubSampleKeeps ==
  ASSUME IInv, NEW s \in Starts, NEW n \in Int, ProcessSubSample(s, n)
  PROVE  IInv'
<1> DEFINE cur == IF s \in 0 .. fNEvents - 1 THEN s ELSE fCurEvent
<1>1. /\ ~inHand /\ ~fStartEvLoop /\ chosen = All(input)
      /\ fCurEvent' = cur /\ fNEvents' = LastSelected(cur, n) /\ chosen' = Asked(s, n)
      /\ IsOpen
      /\ fInFileStat' = fInFileStat /\ fOutFileStat' = fOutFileStat
      /\ fEvTreeOut' = fEvTreeOut /\ input' = input /\ opens' = opens
      /\ fStartEvLoop' = fStartEvLoop /\ fEventToWrite' = fEventToWrite
      /\ fEvtHead' = fEvtHead /\ fRecoData' = fRecoData /\ fCut' = fCut
      /\ inHand' = inHand /\ given' = given /\ atEnd' = atEnd /\ looked' = looked
      /\ resumed' = resumed
      /\ fAddedBranches' = fAddedBranches /\ fEventBranches' = fEventBranches
  BY DEF ProcessSubSample, fileVars, dataVars, branVars
<1>2. StateTypes /\ ClosedInv /\ PendingInv /\ BranchInv /\ LoopInv /\ FreshInv BY DEF IInv
<1>3. s \in Int /\ fNEvents \in Int /\ fCurEvent \in Int
  BY <1>2, ManagerAssumption DEF ManagerAssumption, StateTypes
<1>4. cur \in Int /\ LastSelected(cur, n) \in Int BY <1>3 DEF LastSelected
<1>5. /\ Asked(s, n) \in Selection
      /\ Asked(s, n).first = (IF s \in 0 .. fNEvents - 1 THEN s ELSE 0)
      /\ Asked(s, n).past = LastSelected(Asked(s, n).first, n)
      /\ Asked(s, n).inside => s \in 0 .. fNEvents - 1
  <2> DEFINE first  == IF s \in 0 .. fNEvents - 1 THEN s ELSE 0
             inside == s \in 0 .. fNEvents - 1
  <2>1. Asked(s, n) = [first |-> first, past |-> LastSelected(first, n), inside |-> inside]
    BY DEF Asked, LastSelected
  <2>2. first \in Int /\ inside \in BOOLEAN BY <1>3
  <2>3. LastSelected(first, n) \in Int BY <1>3, <2>2 DEF LastSelected
  <2> HIDE DEF first, inside
  <2>4. /\ Asked(s, n).first = first /\ Asked(s, n).past = LastSelected(first, n)
        /\ (Asked(s, n).inside <=> inside) /\ Asked(s, n) \in Selection
    BY <2>1, <2>2, <2>3 DEF Selection
  <2> QED BY <2>4 DEF first, inside
<1>6. StateTypes' BY <1>1, <1>2, <1>4, <1>5 DEF StateTypes
<1>7. ClosedInv' BY <1>1, <1>2 DEF ClosedInv, Without
<1>8. PendingInv' BY <1>1, <1>2 DEF PendingInv, Promised, Current, CurrentTree, Without
<1>9. LoopInv'
  <2> SUFFICES ASSUME Promised, Selects'
               PROVE  LoopInv'
    BY <1>1 DEF LoopInv, Promised
  <2>1. All(input).inside BY DEF All
  <2>2. Selects /\ (input \in BinInputs => s \in 0 .. fNEvents - 1)
    BY <1>1, <1>5, <2>1 DEF Selects
  <2>3. /\ fNEvents = chosen.past /\ Current = <<>> /\ ~atEnd
        /\ fCurEvent = chosen.first \/ input \in BinInputs
        /\ chosen.first = 0 /\ chosen.past >= 0
    BY <1>1, <1>2, <2>2 DEF LoopInv, All
  <2>4. cur = Asked(s, n).first BY <1>5, <2>2, <2>3
  <2>5. fNEvents' = chosen'.past /\ fCurEvent' = chosen'.first BY <1>1, <1>5, <2>4
  <2>6. chosen'.first >= 0 /\ chosen'.first <= chosen'.past
    BY <1>1, <1>3, <1>5, <2>3 DEF LastSelected
  <2>7. Current' = <<>> BY <1>1, <2>3 DEF Current
  <2> QED BY <1>1, <2>3, <2>5, <2>6, <2>7 DEF LoopInv
<1>10. FreshInv'
  <2>1. opens # 0 BY <1>1, <1>2 DEF FreshInv, IsOpen
  <2> QED BY <1>1, <2>1 DEF FreshInv
<1>11. BranchInv' BY <1>1, <1>2 DEF BranchInv
<1> QED BY <1>6, <1>7, <1>8, <1>9, <1>10, <1>11 DEF IInv

LEMMA NextEventKeeps ==
  ASSUME IInv, NextEvent
  PROVE  IInv'
<1> DEFINE cur == IF ~fStartEvLoop /\ fCurEvent < 0 THEN 0 ELSE fCurEvent
<1>1. /\ ~inHand /\ ~atEnd /\ fInFileStat # NoFile
      /\ fStartEvLoop' = TRUE /\ fEvTreeOut' = TreeAfterEnd /\ fRecoData' = RecoAfterEnd
      /\ \/ /\ cur >= fNEvents /\ fCurEvent' = cur /\ fEventToWrite' = PendingAfterEnd
            /\ atEnd' = TRUE /\ fEvtHead' = fEvtHead /\ inHand' = inHand
         \/ /\ ~(cur >= fNEvents) /\ fCurEvent' = cur + 1 /\ fEventToWrite' = TRUE
            /\ fEvtHead' = cur /\ inHand' = TRUE /\ atEnd' = atEnd
      /\ fInFileStat' = fInFileStat /\ fOutFileStat' = fOutFileStat
      /\ input' = input /\ opens' = opens /\ fNEvents' = fNEvents /\ fCut' = fCut
      /\ chosen' = chosen /\ given' = given /\ looked' = looked /\ resumed' = resumed
      /\ fOutFileStat # NoFile => fAddedBranches
      /\ fAddedBranches' = fAddedBranches
      /\ fEventBranches' = IF fStartEvLoop THEN fEventBranches ELSE fAddedBranches
  BY DEF NextEvent, NoMore
<1>2. StateTypes /\ ClosedInv /\ PendingInv /\ BranchInv /\ LoopInv /\ FreshInv BY DEF IInv
<1>3. /\ TreeAfterEnd \in Seq(Seq(Entry)) /\ Len(TreeAfterEnd) = Len(given)
      /\ \A i \in 1 .. Len(given) : i # Len(given) => TreeAfterEnd[i] = fEvTreeOut[i]
      /\ fOutFileStat = NoFile => TreeAfterEnd = fEvTreeOut
      /\ RecoAfterEnd \in Seq(Int) /\ PendingAfterEnd \in BOOLEAN
      /\ fOutFileStat # NoFile => ~PendingAfterEnd
  BY <1>2, EndKeepsTrees
<1>4. fNEvents \in Int /\ fCurEvent \in Int /\ cur \in Int /\ fEvtHead \in Int
  BY <1>2 DEF StateTypes
<1> HIDE DEF cur
<1>5. StateTypes'
  <2>1. fCurEvent' \in Int /\ fEvtHead' \in Int BY <1>1, <1>4
  <2>2. /\ fStartEvLoop' \in BOOLEAN /\ fEventToWrite' \in BOOLEAN
        /\ inHand' \in BOOLEAN /\ atEnd' \in BOOLEAN /\ (inHand' => fEventToWrite')
    <3>1. inHand \in BOOLEAN /\ atEnd \in BOOLEAN BY <1>2 DEF StateTypes
    <3>2. CASE cur >= fNEvents
      <4>1. /\ fStartEvLoop' = TRUE /\ fEventToWrite' = PendingAfterEnd
            /\ atEnd' = TRUE /\ inHand' = inHand
        BY <1>1, <3>2
      <4> QED BY <1>1, <1>3, <3>1, <4>1, Zenon
    <3>3. CASE ~(cur >= fNEvents)
      <4>1. /\ fStartEvLoop' = TRUE /\ fEventToWrite' = TRUE
            /\ inHand' = TRUE /\ atEnd' = atEnd
        BY <1>1, <3>3
      <4> QED BY <3>1, <4>1, Zenon
    <3> QED BY <3>2, <3>3
  <2>3. fEventBranches' \in BOOLEAN BY <1>1, <1>2 DEF StateTypes
  <2> QED BY <1>1, <1>2, <1>3, <2>1, <2>2, <2>3 DEF StateTypes
<1>6. ClosedInv'
  <2> SUFFICES ASSUME NEW i \in DOMAIN given \ looked, i # Len(given) \/ fOutFileStat = NoFile
               PROVE  Kept(TreeAfterEnd[i], given[i], Without(i))
    BY <1>1 DEF ClosedInv, Without
  <2>1. i \in 1 .. Len(given) BY <1>2 DEF StateTypes
  <2> QED BY <1>2, <1>3, <2>1 DEF ClosedInv
<1>7. PendingInv'
  <2> SUFFICES ASSUME Promised PROVE PendingInv' BY <1>1 DEF PendingInv, Promised
  <2>1. Kept(CurrentTree', Current', Without(Len(given))) /\ fRecoData' = <<>>
    BY <1>1, <1>2, EndWritesPending DEF Current, CurrentTree
  <2>2. ~(fEventToWrite' /\ ~inHand')
    <3>1. ~PendingAfterEnd BY <1>3 DEF Promised
    <3> QED BY <1>1, <3>1, Zenon
  <2>3. Without(Len(given))' = Without(Len(given)) BY <1>1 DEF Without
  <2> QED BY <1>1, <2>1, <2>2, <2>3 DEF PendingInv
<1>8. LoopInv'
  <2> SUFFICES ASSUME Promised, Selects PROVE LoopInv' BY <1>1 DEF LoopInv, Promised, Selects
  <2>1. /\ chosen.first >= 0 /\ chosen.first <= chosen.past /\ fNEvents = chosen.past
        /\ \A i \in DOMAIN Current : Current[i].ev = chosen.first + i - 1
        /\ chosen.first \in Int /\ Len(Current) \in Nat
    <3>1. given \in Seq(Seq(Processed)) /\ given # <<>> /\ chosen \in Selection
      BY <1>2 DEF StateTypes, Promised
    <3>2. Len(given) \in 1 .. Len(given) BY <3>1
    <3>3. Current \in Seq(Processed) BY <3>1, <3>2 DEF Current
    <3>4. Len(Current) \in Nat /\ chosen.first \in Int BY <3>1, <3>3 DEF Selection
    <3> QED BY <1>2, <3>4 DEF LoopInv
  <2>2. cur = chosen.first + Len(Current) /\ cur <= chosen.past
    <3>1. CASE fStartEvLoop
      <4>1. fCurEvent = chosen.first + Len(Current) /\ fCurEvent <= chosen.past
        BY <1>1, <1>2, <2>1, <3>1 DEF LoopInv
      <4>2. cur = fCurEvent BY <3>1 DEF cur
      <4> QED BY <4>1, <4>2
    <3>2. CASE ~fStartEvLoop
      <4>1. /\ Current = <<>>
            /\ fCurEvent = chosen.first \/ (fCurEvent = -1 /\ chosen.first = 0)
        BY <1>2, <3>2 DEF LoopInv, None
      <4>2. cur = chosen.first BY <2>1, <3>2, <4>1 DEF cur
      <4> QED BY <2>1, <4>1, <4>2
    <3> QED BY <3>1, <3>2
  <2>3. /\ chosen' = chosen /\ Current' = Current /\ fNEvents' = fNEvents /\ fStartEvLoop'
    BY <1>1 DEF Current
  <2>4. CASE cur >= fNEvents
    <3>1. fCurEvent' = cur /\ atEnd' /\ ~inHand' BY <1>1, <2>4
    <3>2. cur = chosen.past BY <1>4, <2>1, <2>2, <2>4
    <3> QED BY <2>1, <2>2, <2>3, <3>1, <3>2 DEF LoopInv
  <2>5. CASE ~(cur >= fNEvents)
    <3>1. fCurEvent' = cur + 1 /\ ~atEnd' /\ inHand' /\ fEvtHead' = cur BY <1>1, <2>5
    <3>2. cur + 1 <= chosen.past BY <1>4, <2>1, <2>2, <2>5
    <3> QED BY <2>1, <2>2, <2>3, <3>1, <3>2 DEF LoopInv
  <2> QED BY <2>4, <2>5
<1>9. FreshInv' BY <1>1, <1>2 DEF FreshInv
<1>10. BranchInv'
  <2> SUFFICES ASSUME fOutFileStat # NoFile
               PROVE  fAddedBranches' /\ fStartEvLoop' /\ (fEventBranches' \/ Len(given') \in resumed')
    BY <1>1 DEF BranchInv
  <2>1. CASE fStartEvLoop BY <1>1, <1>2, <2>1 DEF BranchInv
  <2>2. CASE ~fStartEvLoop BY <1>1, <2>2
  <2> QED BY <2>1, <2>2
<1> QED BY <1>5, <1>6, <1>7, <1>8, <1>9, <1>10 DEF IInv

LEMMA RunTasksKeeps ==
  ASSUME IInv, NEW cut \in BOOLEAN, RunTasks(cut)
  PROVE  IInv'
<1> DEFINE e == [ev |-> fEvtHead, cut |-> cut]
<1>1. /\ inHand /\ ~inHand' /\ inHand' \in BOOLEAN
      /\ fInFileStat' = fInFileStat /\ fOutFileStat' = fOutFileStat
      /\ fEvTreeOut' = fEvTreeOut /\ input' = input /\ opens' = opens
      /\ fNEvents' = fNEvents /\ fCurEvent' = fCurEvent /\ fStartEvLoop' = fStartEvLoop
      /\ fEventToWrite' = fEventToWrite /\ fEvtHead' = fEvtHead
      /\ chosen' = chosen /\ atEnd' = atEnd /\ looked' = looked
      /\ resumed' = resumed
      /\ fAddedBranches' = fAddedBranches /\ fEventBranches' = fEventBranches
  BY DEF RunTasks, fileVars, loopVars, branVars
<1>2. StateTypes /\ ClosedInv /\ PendingInv /\ BranchInv /\ LoopInv /\ FreshInv BY DEF IInv
<1>3. FreshInv' BY <1>1, <1>2 DEF FreshInv
<1>4. CASE fOutFileStat = NoFile
  <2>1. fRecoData' = fRecoData /\ fCut' = fCut /\ given' = given BY <1>4 DEF RunTasks
  <2>2. StateTypes' BY <1>1, <1>2, <2>1 DEF StateTypes
  <2>3. ClosedInv' BY <1>1, <1>2, <2>1 DEF ClosedInv, Without
  <2>4. ~Promised' BY <1>1, <1>4 DEF Promised
  <2>5. PendingInv' /\ LoopInv' BY <2>4 DEF PendingInv, LoopInv
  <2>6. BranchInv' BY <1>1, <1>4 DEF BranchInv
  <2> QED BY <1>3, <2>2, <2>3, <2>5, <2>6 DEF IInv
<1>5. CASE fOutFileStat # NoFile
  <2>1. /\ fRecoData' = IF fEventBranches THEN Append(fRecoData, fEvtHead) ELSE fRecoData
        /\ fCut' = cut
        /\ given' = Replaced(given, Append(Last(given), e))
    BY <1>5 DEF RunTasks, Replaced
  <2>2. /\ given \in Seq(Seq(Processed)) /\ given # <<>> /\ fEvtHead \in Int
        /\ Len(given) \in Nat /\ DOMAIN given = 1 .. Len(given) /\ Len(given) \in 1 .. Len(given)
        /\ Last(given) = Current /\ Current \in Seq(Processed)
        /\ fRecoData \in Seq(Int) /\ fEventToWrite
    BY <1>1, <1>2, <1>5 DEF StateTypes, Current, Last
  <2>3. e \in Processed /\ e.ev = fEvtHead BY <2>2 DEF Processed
  <2> DEFINE y == Append(Current, e)
  <2>4. /\ y \in Seq(Processed) /\ y # <<>> /\ Front(y) = Current /\ Last(y) = e
        /\ Len(y) = Len(Current) + 1 /\ y[Len(Current) + 1] = e
        /\ \A i \in 1 .. Len(Current) : y[i] = Current[i]
    <3> HIDE DEF e
    <3>1. /\ y \in Seq(Processed) /\ y # <<>> /\ Len(y) = Len(Current) + 1
          /\ y[Len(Current) + 1] = e
          /\ \A i \in 1 .. Len(Current) : y[i] = Current[i]
      <4>1. y \in Seq(Processed) BY <2>2, <2>3
      <4>2. Len(y) = Len(Current) + 1 /\ y # <<>> BY <2>2, <2>3, FrontOfAppend
      <4>3. y[Len(Current) + 1] = e BY <2>2, <2>3
      <4>4. \A i \in 1 .. Len(Current) : y[i] = Current[i] BY <2>2, <2>3
      <4> QED BY <4>1, <4>2, <4>3, <4>4
    <3>2. Front(y) = Current /\ Last(y) = e BY <2>2, <2>3, FrontOfAppend
    <3> QED BY <3>1, <3>2
  <2>5. given' = Replaced(given, y) BY <2>1, <2>2
  <2> HIDE DEF y, e
  <2>6. /\ given' \in Seq(Seq(Processed)) /\ given' # <<>>
        /\ Len(given') = Len(given) /\ given'[Len(given)] = y
    <3>1. Replaced(given, y) \in Seq(Seq(Processed)) BY <2>2, <2>4, GivenReplaced
    <3>2. Replaced(given, y) # <<>> BY <2>2, <2>4, GivenReplaced
    <3>3. Len(Replaced(given, y)) = Len(given) /\ Replaced(given, y)[Len(given)] = y
      BY <2>2, <2>4, GivenReplaced
    <3> QED BY <2>5, <3>1, <3>2, <3>3
  <2>7. \A i \in 1 .. Len(given) : i # Len(given) => given'[i] = given[i]
    <3>1. \A i \in 1 .. Len(given) : i # Len(given) => Replaced(given, y)[i] = given[i]
      BY <2>2, <2>4, GivenReplaced
    <3> QED BY <2>5, <3>1
  <2>8. Current' = y BY <2>6 DEF Current
  <2>9. StateTypes'
    <3>1. fRecoData' \in Seq(Int) BY <2>1, <2>2
    <3>2. fCut' \in BOOLEAN BY <2>1
    <3> QED BY <1>1, <1>2, <2>6, <3>1, <3>2 DEF StateTypes
  <2>10. ClosedInv'
    <3> SUFFICES ASSUME NEW i \in DOMAIN given' \ looked, i # Len(given)
                 PROVE  Kept(fEvTreeOut[i], given'[i], Without(i))
      BY <1>1, <1>5, <2>6 DEF ClosedInv, Without
    <3>1. i \in 1 .. Len(given) BY <2>2, <2>6
    <3> QED BY <1>2, <2>2, <2>7, <3>1 DEF ClosedInv
  <2>11. PendingInv'
    <3> SUFFICES ASSUME Promised PROVE PendingInv' BY <1>1, <2>6 DEF PendingInv, Promised
    <3>1. Kept(CurrentTree, Current, Without(Len(given))) /\ fRecoData = <<>> BY <1>1, <1>2 DEF PendingInv
    <3>2. CurrentTree' = CurrentTree BY <1>1, <2>6 DEF CurrentTree
    <3>3. fRecoData' \in {<<fEvtHead>>} \cup Without(Len(given))
      <4>1. CASE fEventBranches BY <2>1, <3>1, <4>1
      <4>2. CASE ~fEventBranches
        <5>1. Len(given) \in resumed BY <1>2, <1>5, <2>2, <4>2 DEF BranchInv
        <5> QED BY <2>1, <3>1, <4>2, <5>1 DEF Without
      <4> QED BY <4>1, <4>2
    <3>4. Last(Current') = [ev |-> fEvtHead', cut |-> fCut'] BY <1>1, <2>1, <2>4, <2>8 DEF e
    <3>5. Current' # <<>> /\ Kept(CurrentTree', Front(Current'), Without(Len(given))) BY <2>4, <2>8, <3>1, <3>2
    <3>6. Len(given') = Len(given) BY <2>6
    <3>7. Without(Len(given))' = Without(Len(given)) BY <1>1, <3>6 DEF Without
    <3> QED BY <1>1, <2>2, <3>3, <3>4, <3>5, <3>7 DEF PendingInv
  <2>12. LoopInv'
    <3> SUFFICES ASSUME Promised, Selects PROVE LoopInv'
      BY <1>1, <2>6 DEF LoopInv, Promised, Selects
    <3>1. fStartEvLoop BY <1>1, <1>2 DEF LoopInv
    <3>2. /\ chosen.first >= 0 /\ chosen.first <= chosen.past /\ fNEvents = chosen.past
          /\ fCurEvent = chosen.first + Len(Current) + 1 /\ fCurEvent <= chosen.past
          /\ fEvtHead = chosen.first + Len(Current) /\ ~atEnd
          /\ \A i \in DOMAIN Current : Current[i].ev = chosen.first + i - 1
      BY <1>1, <1>2, <3>1 DEF LoopInv
    <3>3. /\ chosen.first \in Int /\ Len(Current) \in Nat /\ DOMAIN Current = 1 .. Len(Current)
          /\ DOMAIN y = 1 .. Len(Current) + 1
      BY <1>2, <2>2, <2>4 DEF StateTypes, Selection
    <3>4. \A i \in 1 .. Len(Current) + 1 : i \in 1 .. Len(Current) \/ i = Len(Current) + 1
      BY <3>3
    <3>5. \A i \in DOMAIN y : y[i].ev = chosen.first + i - 1
      <4> DEFINE G(i) == y[i].ev = chosen.first + i - 1
      <4>1. \A i \in 1 .. Len(Current) : G(i) BY <2>4, <3>2, <3>3
      <4>2. G(Len(Current) + 1)
        <5>1. y[Len(Current) + 1].ev = chosen.first + Len(Current) BY <2>3, <2>4, <3>2
        <5>2. chosen.first + Len(Current) = chosen.first + (Len(Current) + 1) - 1 BY <3>3
        <5> QED BY <5>1, <5>2
      <4> HIDE DEF G
      <4>3. \A i \in 1 .. Len(Current) + 1 : G(i) BY <3>4, <4>1, <4>2
      <4>4. DOMAIN y = 1 .. Len(Current) + 1 BY <3>3
      <4>5. \A i \in DOMAIN y : G(i) BY <4>3, <4>4
      <4> QED BY <4>5 DEF G
    <3>6. fCurEvent = chosen.first + Len(y)
      <4>1. Len(y) = Len(Current) + 1 BY <2>4
      <4>2. fCurEvent = chosen.first + Len(Current) + 1 BY <3>2
      <4> QED BY <3>3, <4>1, <4>2
    <3>7. /\ fStartEvLoop' = fStartEvLoop /\ fCurEvent' = fCurEvent /\ fNEvents' = fNEvents
          /\ chosen' = chosen /\ ~atEnd' /\ ~inHand'
      BY <1>1, <3>2
    <3>8. /\ chosen'.first >= 0 /\ chosen'.first <= chosen'.past /\ fNEvents' = chosen'.past
          /\ fCurEvent' <= chosen'.past /\ fStartEvLoop'
      BY <3>1, <3>2, <3>7
    <3>9. fCurEvent' = chosen'.first + Len(Current') + (IF inHand' THEN 1 ELSE 0)
      <4>1. Len(y) \in Nat BY <2>4
      <4>2. fCurEvent = chosen.first + Len(y) + 0 BY <3>3, <3>6, <4>1
      <4> QED BY <2>8, <3>7, <4>2, Zenon
    <3>10. \A i \in DOMAIN Current' : Current'[i].ev = chosen'.first + i - 1
      BY <2>8, <3>5, <3>7, Zenon
    <3> QED BY <3>7, <3>8, <3>9, <3>10, Zenon DEF LoopInv
  <2>13. BranchInv' BY <1>1, <1>2, <2>6 DEF BranchInv
  <2> QED BY <1>3, <2>9, <2>10, <2>11, <2>12, <2>13 DEF IInv
<1> QED BY <1>4, <1>5

LEMMA GetEventKeeps ==
  ASSUME IInv, NEW ev \in Int, GetEvent(ev)
  PROVE  IInv'
<1>1. /\ fInFileStat # NoFile /\ fCurEvent' = ev /\ fEvtHead' = ev
      /\ looked' = IF fOutFileStat = NoFile THEN looked ELSE looked \cup {Len(given)}
      /\ fInFileStat' = fInFileStat /\ fOutFileStat' = fOutFileStat
      /\ fEvTreeOut' = fEvTreeOut /\ input' = input /\ opens' = opens
      /\ fNEvents' = fNEvents /\ fStartEvLoop' = fStartEvLoop
      /\ fEventToWrite' = fEventToWrite /\ fRecoData' = fRecoData /\ fCut' = fCut
      /\ inHand' = inHand /\ chosen' = chosen /\ given' = given /\ atEnd' = atEnd
      /\ resumed' = resumed
      /\ fAddedBranches' = fAddedBranches /\ fEventBranches' = fEventBranches
  BY DEF GetEvent, fileVars, branVars
<1>2. StateTypes /\ ClosedInv /\ BranchInv /\ FreshInv BY DEF IInv
<1>3. StateTypes' BY <1>1, <1>2 DEF StateTypes
<1>4. ClosedInv' BY <1>1, <1>2 DEF ClosedInv, Without
<1>5. ~Promised' BY <1>1 DEF Promised
<1>6. PendingInv' /\ LoopInv' BY <1>5 DEF PendingInv, LoopInv
<1>7. FreshInv' BY <1>1, <1>2 DEF FreshInv
<1>8. BranchInv' BY <1>1, <1>2 DEF BranchInv
<1> QED BY <1>3, <1>4, <1>6, <1>7, <1>8 DEF IInv

LEMMA StartIInv ==
  ASSUME Init
  PROVE  IInv
<1>1. StateTypes
  <2>1. chosen = [first |-> 0, past |-> 0, inside |-> TRUE] /\ chosen \in Selection
    BY DEF Init, Selection
  <2>2. /\ fEvTreeOut \in Seq(Seq(Entry)) /\ given \in Seq(Seq(Processed))
        /\ Len(fEvTreeOut) = Len(given) /\ fRecoData \in Seq(Int)
    BY DEF Init
  <2>3. fNEvents \in Int /\ fCurEvent \in Int /\ fEvtHead \in Int /\ opens \in Nat
    BY DEF Init, None
  <2>4. /\ fStartEvLoop \in BOOLEAN /\ fEventToWrite \in BOOLEAN /\ fCut \in BOOLEAN
        /\ inHand \in BOOLEAN /\ atEnd \in BOOLEAN /\ (inHand => fEventToWrite)
        /\ fInFileStat \in {NoFile, BinFile, RooFile} /\ fOutFileStat \in {NoFile, RooFile}
        /\ input \in Inputs /\ fOutFileStat = NoFile
        /\ fAddedBranches \in BOOLEAN /\ fEventBranches \in BOOLEAN
        /\ resumed \subseteq 1 .. Len(given)
    BY Zenon DEF Init
  <2> QED BY <2>1, <2>2, <2>3, <2>4, Zenon DEF StateTypes
<1>2. ClosedInv BY DEF Init, ClosedInv
<1>3. ~Promised BY DEF Init, Promised
<1>4. PendingInv /\ LoopInv BY <1>3 DEF PendingInv, LoopInv
<1>5. FreshInv BY DEF Init, FreshInv
<1>6. BranchInv BY DEF Init, BranchInv
<1> QED BY <1>1, <1>2, <1>4, <1>5, <1>6 DEF IInv

LEMMA StepIInv ==
  ASSUME IInv, [Next]_vars
  PROVE  IInv'
<1>1. ASSUME NEW f \in Inputs, OpenRead(f) PROVE IInv' BY <1>1, OpenReadKeeps
<1>2. ASSUME NEW f \in Inputs, OpenReadWrite(f) PROVE IInv' BY <1>2, OpenReadWriteKeeps
<1>3. ASSUME NEW s \in Starts, NEW n \in {None} \cup 1 .. Entries[input], ProcessSubSample(s, n)
      PROVE IInv'
  <2>1. n \in Int BY DEF None
  <2> QED BY <1>3, <2>1, SubSampleKeeps
<1>4. CASE NextEvent BY <1>4, NextEventKeeps
<1>5. ASSUME NEW cut \in BOOLEAN, RunTasks(cut) PROVE IInv' BY <1>5, RunTasksKeeps
<1>6. ASSUME NEW ev \in {0} \cup 0 .. fCurEvent, GetEvent(ev) PROVE IInv'
  <2>1. ev \in Int OBVIOUS
  <2> QED BY <1>6, <2>1, GetEventKeeps
<1>7. CASE EndEvent BY <1>7, EndEventKeeps
<1>8. CASE Close BY <1>8, CloseKeeps
<1>9. CASE UNCHANGED vars
  <2>1. /\ fInFileStat' = fInFileStat /\ fOutFileStat' = fOutFileStat
        /\ fEvTreeOut' = fEvTreeOut /\ input' = input /\ opens' = opens
        /\ fNEvents' = fNEvents /\ fCurEvent' = fCurEvent /\ fStartEvLoop' = fStartEvLoop
        /\ fEventToWrite' = fEventToWrite /\ fEvtHead' = fEvtHead
        /\ fRecoData' = fRecoData /\ fCut' = fCut /\ inHand' = inHand
        /\ chosen' = chosen /\ given' = given /\ atEnd' = atEnd /\ looked' = looked
        /\ resumed' = resumed
        /\ fAddedBranches' = fAddedBranches /\ fEventBranches' = fEventBranches
    BY <1>9 DEF vars, fileVars, loopVars, dataVars, branVars, callVars
  <2>2. StateTypes' BY <2>1 DEF IInv, StateTypes
  <2>3. ClosedInv' BY <2>1 DEF IInv, ClosedInv, Without
  <2>4. PendingInv' BY <2>1 DEF IInv, PendingInv, Promised, Current, CurrentTree, Without
  <2>5. LoopInv' BY <2>1 DEF IInv, LoopInv, Promised, Current, Selects
  <2>6. FreshInv' BY <2>1 DEF IInv, FreshInv
  <2>7. BranchInv' BY <2>1 DEF IInv, BranchInv
  <2> QED BY <2>2, <2>3, <2>4, <2>5, <2>6, <2>7 DEF IInv
<1>10. CASE RegisterDataProduct BY <1>10, RegisterKeeps
<1> QED BY <1>1, <1>2, <1>3, <1>4, <1>5, <1>6, <1>7, <1>8, <1>9, <1>10 DEF Next

LEMMA Invariant == Spec => []IInv
<1>1. Init => IInv BY StartIInv
<1>2. IInv /\ [Next]_vars => IInv' BY StepIInv
<1> QED BY <1>1, <1>2, PTL DEF Spec

(***************************************************************************)
(* Every output keeps the events that were processed and not cut, once, in *)
(* order and with their own products only, or without them if a raw file   *)
(* was opened after the loop was started (EventDataManager::NextEvent,     *)
(* EndEvent and Close), unless GetEvent moved the buffers under it.        *)
(***************************************************************************)
THEOREM LoopOutputFollows == Spec => []OutputFollows
<1>1. ASSUME IInv PROVE OutputFollows
  <2> SUFFICES ASSUME NEW i \in DOMAIN given \ looked
               PROVE  \/ Kept(fEvTreeOut[i], given[i], Without(i))
                      \/ /\ i = Len(given) /\ fOutFileStat # NoFile /\ fEventToWrite /\ ~inHand
                         /\ given[i] # <<>> /\ Kept(fEvTreeOut[i], Front(given[i]), Without(i))
    BY DEF OutputFollows
  <2>1. CASE i # Len(given) \/ fOutFileStat = NoFile BY <1>1, <2>1 DEF IInv, ClosedInv
  <2>2. CASE i = Len(given) /\ fOutFileStat # NoFile
    <3>1. Promised BY <2>2 DEF Promised
    <3> QED BY <1>1, <2>2, <3>1 DEF IInv, PendingInv, Current, CurrentTree
  <2> QED BY <2>1, <2>2
<1> QED BY <1>1, Invariant, PTL

(***************************************************************************)
(* When NextEvent returns NULL the tasks have seen exactly the events that *)
(* the caller asked ProcessSubSample for, or all of them.                  *)
(***************************************************************************)
THEOREM LoopAllSelected == Spec => []AllSelected
<1>1. ASSUME IInv PROVE AllSelected
  <2> SUFFICES ASSUME atEnd, fOutFileStat # NoFile, Len(given) \notin looked,
                      input \in BinInputs => opens = 1 /\ chosen.inside
               PROVE  [i \in DOMAIN Current |-> Current[i].ev]
                        = [i \in 1 .. chosen.past - chosen.first |-> chosen.first + i - 1]
    BY DEF AllSelected, SeenAsAsked, Last, Current
  <2>1. Promised /\ Selects BY DEF Promised, Selects
  <2>2. fStartEvLoop BY <1>1, <2>1 DEF IInv, LoopInv
  <2>3. /\ ~inHand /\ fCurEvent = chosen.past
        /\ fCurEvent = chosen.first + Len(Current)
        /\ \A i \in DOMAIN Current : Current[i].ev = chosen.first + i - 1
    <3>1. given \in Seq(Seq(Processed)) /\ given # <<>> /\ chosen \in Selection
      BY <1>1 DEF IInv, StateTypes
    <3>2. Len(given) \in 1 .. Len(given) BY <3>1
    <3>3. Current \in Seq(Processed) BY <3>1, <3>2 DEF Current
    <3>4. Len(Current) \in Nat /\ chosen.first \in Int BY <3>1, <3>3 DEF Selection
    <3> QED BY <1>1, <2>1, <2>2, <3>4 DEF IInv, LoopInv
  <2>4. /\ chosen.first \in Int /\ chosen.past \in Int /\ Len(Current) \in Nat
        /\ DOMAIN Current = 1 .. Len(Current)
    <3>1. given \in Seq(Seq(Processed)) /\ given # <<>> /\ chosen \in Selection
      BY <1>1 DEF IInv, StateTypes
    <3>2. Len(given) \in 1 .. Len(given) BY <3>1
    <3>3. Current \in Seq(Processed) BY <3>1, <3>2 DEF Current
    <3> QED BY <3>1, <3>3 DEF Selection
  <2>5. chosen.past - chosen.first = Len(Current) BY <2>3, <2>4
  <2> QED BY <2>3, <2>4, <2>5
<1> QED BY <1>1, Invariant, PTL

-----------------------------------------------------------------------------
(***************************************************************************)
(* The properties of the online monitor (MonTask, MonBenchDist,            *)
(* DQMonViewer and FileFetcher) hold for any files, any order in which     *)
(* find meets them, any programs that write them, any length of a second   *)
(* and any poll time of a second at least.                                 *)
(***************************************************************************)

(* A file was found and waits to be read. *)
Pending(f) == \E k \in DOMAIN files : files[k] = f

-----------------------------------------------------------------------------
(* The inductive invariant *)

FetchTypes ==
  /\ now \in Nat
  /\ mtime \in [Files -> Nat \cup {Never}]
  /\ version \in [Files -> Nat]
  /\ whole \in [Files -> BOOLEAN]
  /\ reads \in [Files -> Nat]
  /\ lastaccess \in Nat \cup {Never}
  /\ registered \in Nat \cup {Never}
  /\ phase \in {"idle", "searching", "reading", "crashed"}
  /\ lastpoll \in Nat \cup {Never}
  /\ timenow \in Nat \cup {Never}
  /\ passed \in 0 .. Len(Order)
  /\ files \in Seq(Files)
  /\ late \in SUBSET Files /\ slipped \in SUBSET Files

(* What was noted of the clock lies in the past, the stamp is the first    *)
(* tick of a second, and what was never written is not whole.              *)
ClockInv ==
  /\ lastpoll <= now
  /\ lastaccess <= now
  /\ lastaccess # Never => ToSecond(lastaccess) = lastaccess
  /\ (lastaccess = Never) <=> (registered = Never)
  /\ phase # "idle" => registered # Never
  /\ timenow # Never => lastpoll <= timenow /\ timenow <= now
  /\ \A f \in Files : mtime[f] <= now /\ (whole[f] => mtime[f] # Never)

(* A file is found once, and only after find has looked at it.             *)
FoundInv ==
  /\ \A i, j \in DOMAIN files : files[i] = files[j] => i = j
  /\ phase = "searching" => \A k \in DOMAIN files : files[k] \in Passed
  /\ phase = "idle" => files = <<>>

(* A file that find has passed and that is newer than the stamp is in the  *)
(* list, or newer than the stamp to come, or was written in the gap.       *)
PassedInv ==
  phase = "searching" =>
    \A f \in Passed : mtime[f] > lastaccess =>
      \/ Pending(f)
      \/ timenow = Never /\ f \in late
      \/ timenow # Never /\ (mtime[f] > ToSecond(timenow) \/ f \in slipped)

(* Nothing is missed, at any time. *)
Covered(f) ==
  \/ ~whole[f]
  \/ registered = Never
  \/ mtime[f] <= registered
  \/ reads[f] > 0
  \/ mtime[f] > lastaccess
  \/ f \in slipped

CoveredInv == \A f \in Files : Covered(f) \/ (phase \in {"reading", "crashed"} /\ Pending(f))

(* How often a file was read bounds when it was written: a second reading  *)
(* needs a search that began later, a third a stamp that is later.         *)
Count(f) ==
  /\ reads[f] >= 1 => whole[f]
  /\ reads[f] <= 3
  /\ phase = "idle" \/ (phase = "reading" /\ ~Pending(f)) =>
       /\ reads[f] >= 2 => lastpoll >= mtime[f]
       /\ reads[f] >= 3 => lastaccess >= mtime[f]
  /\ phase = "searching" =>
       /\ reads[f] >= 1 => lastpoll >= mtime[f]
       /\ reads[f] >= 2 => lastpoll >= mtime[f] + Second
       /\ reads[f] >= 3 => lastaccess >= mtime[f]
       /\ Pending(f) => reads[f] <= 2
  /\ phase = "reading" /\ Pending(f) =>
       /\ reads[f] <= 2
       /\ reads[f] >= 1 => lastpoll >= mtime[f]
       /\ reads[f] >= 2 => lastaccess >= mtime[f]

CountInv == \A f \in Files : Count(f)

(* The canvas, at any time. *)
ScreenTypes ==
  /\ fGotData \in BOOLEAN /\ hidden \in BOOLEAN
  /\ item \in Items \cup {""}
  /\ canvas = [title |-> canvas.title, shows |-> canvas.shows]
  /\ hist = [i \in Items |-> hist[i]]

CanvasInv ==
  canvas.title \in Items => canvas.shows = hist[canvas.title] \/ fGotData \/ hidden

FetchInv  == FetchTypes /\ ClockInv /\ FoundInv
HistoryInv == PassedInv /\ CoveredInv /\ CountInv
MonInv    == FetchInv /\ HistoryInv
ScreenInv == ScreenTypes /\ CanvasInv

-----------------------------------------------------------------------------
LEMMA SecondType ==
  Second \in Nat \ {0} /\ PollTime \in Nat /\ PollTime >= Second
BY FetcherAssumption DEF FetcherAssumption

LEMMA SecondOf ==
  ASSUME NEW t \in Nat
  PROVE  /\ ToSecond(t) \in Nat /\ ToSecond(t) <= t /\ ToSecond(t) > t - Second
         /\ ToSecond(ToSecond(t)) = ToSecond(t)
<1> DEFINE r == t % Second
           u == t - r
<1>1. /\ r \in 0 .. Second - 1
      /\ u \in Nat
      /\ u % Second = 0
  BY SecondType
<1>2. ToSecond(t) = u BY DEF ToSecond
<1> HIDE DEF r
<1>3. u <= t /\ u > t - Second BY <1>1, SecondType
<1> HIDE DEF u
<1>4. ToSecond(u) = u BY <1>1 DEF ToSecond
<1> QED BY <1>1, <1>2, <1>3, <1>4

USE DEF Never

LEMMA OrderFacts ==
  /\ Len(Order) \in Nat /\ DOMAIN Order = 1 .. Len(Order)
  /\ \A k \in 1 .. Len(Order) : Order[k] \in Files
  /\ \A f \in Files : \E k \in 1 .. Len(Order) : Order[k] = f
  /\ \A i, j \in 1 .. Len(Order) : Order[i] = Order[j] => i = j
BY FetcherAssumption DEF FetcherAssumption, Range

LEMMA PassedFiles ==
  ASSUME FetchInv
  PROVE  /\ Passed \subseteq Files
         /\ passed = Len(Order) => Passed = Files
<1>1. passed \in 0 .. Len(Order) /\ Len(Order) \in Nat BY OrderFacts DEF FetchInv, FetchTypes
<1>2. \A k \in 1 .. passed : k \in 1 .. Len(Order) BY <1>1
<1>3. Passed \subseteq Files BY <1>2, OrderFacts DEF Passed
<1>4. passed = Len(Order) => Files \subseteq Passed BY OrderFacts DEF Passed
<1> QED BY <1>3, <1>4

(* The actions, one by one. *)

LEMMA FetchTick ==
  ASSUME FetchInv, Tick, reads' = reads
  PROVE  FetchInv'
<1>1. FetchTypes' BY DEF FetchInv, FetchTypes, Tick, fetchVars
<1>2. ClockInv' BY DEF FetchInv, FetchTypes, ClockInv, Tick, fetchVars, ToSecond
<1>3. FoundInv' BY DEF FetchInv, FoundInv, Tick, fetchVars, Passed
<1> QED BY <1>1, <1>2, <1>3 DEF FetchInv

LEMMA FetchWritten ==
  ASSUME FetchInv, NEW f \in Files, Written(f),
         whole' \in [Files -> BOOLEAN], version' \in [Files -> Nat],
         \A g \in Files \ {f} : whole'[g] = whole[g],
         reads' \in [Files -> Nat]
  PROVE  FetchInv'
<1>1. FetchTypes' BY DEF FetchInv, FetchTypes, Written
<1>2. ClockInv'
  <2>1. \A g \in Files : mtime'[g] <= now' /\ (whole'[g] => mtime'[g] # Never)
    BY DEF FetchInv, FetchTypes, ClockInv, Written
  <2> QED BY <2>1 DEF FetchInv, FetchTypes, ClockInv, Written, ToSecond
<1>3. FoundInv' BY DEF FetchInv, FoundInv, Written, Passed
<1> QED BY <1>1, <1>2, <1>3 DEF FetchInv

LEMMA FetchStart ==
  ASSUME FetchInv, StartSearch, reads' = reads
  PROVE  FetchInv'
<1>1. ToSecond(now) \in Nat /\ ToSecond(now) <= now /\ ToSecond(ToSecond(now)) = ToSecond(now)
  BY SecondOf DEF FetchInv, FetchTypes
<1>2. FetchTypes' BY <1>1, OrderFacts DEF FetchInv, FetchTypes, StartSearch, diskVars
<1>3. ClockInv'
  <2>1. \/ lastaccess' = ToSecond(now) /\ registered' = ToSecond(now)
        \/ lastaccess # Never /\ lastaccess' = lastaccess /\ registered' = registered
    BY DEF StartSearch
  <2>2. /\ lastpoll' = now /\ now' = now /\ timenow' = Never
        /\ mtime' = mtime /\ whole' = whole
    BY DEF StartSearch, diskVars
  <2>3. (lastaccess' # Never => ToSecond(lastaccess') = lastaccess') /\ lastaccess' <= now
    BY <1>1, <2>1 DEF FetchInv, FetchTypes, ClockInv
  <2>4. (lastaccess' = Never) <=> (registered' = Never)
    BY <1>1, <2>1 DEF FetchInv, ClockInv
  <2>5. \A f \in Files : mtime'[f] <= now /\ (whole'[f] => mtime'[f] # Never)
    BY <2>2 DEF FetchInv, ClockInv
  <2>6. registered' # Never
    BY <1>1, <2>1 DEF FetchInv, ClockInv
  <2> QED BY <2>2, <2>3, <2>4, <2>5, <2>6 DEF FetchInv, FetchTypes, ClockInv, ToSecond
<1>4. FoundInv' BY DEF FetchInv, FoundInv, StartSearch
<1> QED BY <1>2, <1>3, <1>4 DEF FetchInv

LEMMA FetchFind ==
  ASSUME FetchInv, FindNext, reads' = reads
  PROVE  FetchInv'
<1> DEFINE f == Order[passed + 1]
<1>1. passed \in Nat /\ passed + 1 \in 1 .. Len(Order) /\ f \in Files
  BY OrderFacts DEF FetchInv, FetchTypes, FindNext
<1>2. f \notin Passed
  <2> SUFFICES ASSUME NEW k \in 1 .. passed, Order[k] = f PROVE FALSE BY DEF Passed
  <2>1. k \in DOMAIN Order /\ k # passed + 1 BY <1>1, OrderFacts
  <2> QED BY <1>1, <2>1, OrderFacts
<1>3. Passed' = Passed \cup {f}
  BY <1>1 DEF Passed, FindNext
<1>4. /\ files \in Seq(Files)
      /\ files' = files \/ files' = Append(files, f)
      /\ phase = "searching" /\ phase' = "searching" /\ passed' = passed + 1
  BY DEF FetchInv, FetchTypes, FindNext
<1> HIDE DEF f
<1>5. FetchTypes'
  <2>1. files' \in Seq(Files)
    <3>1. Append(files, f) \in Seq(Files) BY <1>1, <1>4
    <3> QED BY <1>4, <3>1
  <2>2. passed' \in 0 .. Len(Order) BY <1>1, <1>4, OrderFacts
  <2> QED BY <2>1, <2>2, <1>4 DEF FetchInv, FetchTypes, FindNext, diskVars
<1>6. ClockInv' BY DEF FetchInv, FetchTypes, ClockInv, FindNext, diskVars, ToSecond
<1>7. FoundInv'
  <2>1. CASE files' = files BY <1>3, <1>4, <2>1 DEF FetchInv, FoundInv
  <2>2. CASE files' = Append(files, f)
    <3>1. /\ DOMAIN files = 1 .. Len(files) /\ Len(files) \in Nat
          /\ DOMAIN files' = 1 .. Len(files) + 1
          /\ \A k \in DOMAIN files : files'[k] = files[k] /\ files'[k] \in Passed
          /\ files'[Len(files) + 1] = f
      BY <1>1, <1>4, <2>2 DEF FetchInv, FoundInv
    <3>2. \A i, j \in DOMAIN files' : files'[i] = files'[j] => i = j
      BY <3>1, <1>2 DEF FetchInv, FoundInv
    <3> QED BY <3>1, <3>2, <1>3, <1>4 DEF FoundInv
  <2> QED BY <2>1, <2>2, <1>4
<1> QED BY <1>5, <1>6, <1>7 DEF FetchInv

LEMMA FetchTime ==
  ASSUME FetchInv, CallTime, reads' = reads
  PROVE  FetchInv'
<1>1. FetchTypes'
  <2>1. timenow' \in Nat BY DEF FetchInv, FetchTypes, CallTime
  <2>2. late \in SUBSET Files /\ slipped' \in SUBSET Files
    BY DEF FetchInv, FetchTypes, CallTime
  <2> QED BY <2>1, <2>2 DEF FetchInv, FetchTypes, CallTime, diskVars
<1>2. ClockInv' BY DEF FetchInv, FetchTypes, ClockInv, CallTime, diskVars, ToSecond
<1>3. FoundInv' BY DEF FetchInv, FoundInv, CallTime, Passed
<1> QED BY <1>1, <1>2, <1>3 DEF FetchInv

LEMMA FetchEnd ==
  ASSUME FetchInv, EndSearch, reads' = reads
  PROVE  FetchInv'
<1>1. timenow \in Nat /\ timenow <= now BY DEF FetchInv, FetchTypes, ClockInv, EndSearch
<1>2. /\ ToSecond(timenow) \in Nat /\ ToSecond(timenow) <= timenow
      /\ ToSecond(ToSecond(timenow)) = ToSecond(timenow)
  BY <1>1, SecondOf
<1>3. FetchTypes'
  <2>1. lastaccess' \in Nat \cup {Never}
    BY <1>2 DEF FetchInv, FetchTypes, EndSearch, StampAfter
  <2>2. /\ phase' = "reading" /\ now' = now /\ mtime' = mtime /\ version' = version
        /\ whole' = whole /\ lastpoll' = lastpoll /\ passed' = passed /\ timenow' = timenow
        /\ files' = files /\ late' = late /\ slipped' = slipped /\ registered' = registered
    BY DEF EndSearch, diskVars
  <2>3. reads' = reads OBVIOUS
  <2> QED BY <2>1, <2>2, <2>3 DEF FetchInv, FetchTypes
<1>4. ClockInv'
  <2>1. lastaccess' = ToSecond(timenow) \/ lastaccess' = lastaccess
    BY DEF EndSearch, StampAfter
  <2>2. /\ now' = now /\ timenow' = timenow /\ lastpoll' = lastpoll
        /\ mtime' = mtime /\ whole' = whole /\ registered' = registered
    BY DEF EndSearch, diskVars
  <2>3. registered # Never /\ lastaccess # Never BY DEF FetchInv, ClockInv, EndSearch
  <2>4. lastaccess' # Never /\ ToSecond(lastaccess') = lastaccess' /\ lastaccess' <= now
    BY <1>1, <1>2, <2>1, <2>3 DEF FetchInv, FetchTypes, ClockInv
  <2> QED BY <2>2, <2>3, <2>4 DEF FetchInv, FetchTypes, ClockInv, ToSecond
<1>5. FoundInv' BY DEF FetchInv, FoundInv, EndSearch
<1> QED BY <1>3, <1>4, <1>5 DEF FetchInv

LEMMA HeadAndTail ==
  ASSUME NEW s \in Seq(Files), s # <<>>
  PROVE  /\ s[1] = Head(s) /\ Head(s) \in Files /\ Tail(s) \in Seq(Files)
         /\ \A k \in DOMAIN s : s[k] = Head(s) \/ \E j \in DOMAIN Tail(s) : Tail(s)[j] = s[k]
         /\ \A j \in DOMAIN Tail(s) : \E k \in DOMAIN s : Tail(s)[j] = s[k]
         /\ (\A i, j \in DOMAIN s : s[i] = s[j] => i = j) =>
              /\ \A i, j \in DOMAIN Tail(s) : Tail(s)[i] = Tail(s)[j] => i = j
              /\ \A j \in DOMAIN Tail(s) : Tail(s)[j] # Head(s)
<1> DEFINE n == Len(s)
           t == Tail(s)
<1>1. /\ n \in Nat \ {0} /\ DOMAIN s = 1 .. n /\ s[1] = Head(s) /\ Head(s) \in Files
      /\ t \in Seq(Files) /\ DOMAIN t = 1 .. n - 1
  OBVIOUS
<1>2. \A k \in 1 .. n - 1 : t[k] = s[k + 1]
  OBVIOUS
<1> HIDE DEF n, t
<1>3. \A j \in 1 .. n - 1 : j + 1 \in 1 .. n
  BY <1>1
<1>4. \A k \in 1 .. n : k = 1 \/ k - 1 \in 1 .. n - 1
  BY <1>1
<1>5. \A k \in DOMAIN s : s[k] = Head(s) \/ \E j \in DOMAIN t : t[j] = s[k]
  <2> TAKE k \in DOMAIN s
  <2>1. CASE k = 1 BY <2>1, <1>1
  <2>2. CASE k # 1
    <3>1. k - 1 \in 1 .. n - 1 /\ (k - 1) + 1 = k BY <1>1, <2>2
    <3>2. t[k - 1] = s[k] BY <3>1, <1>2
    <3> QED BY <3>1, <3>2, <1>1
  <2> QED BY <2>1, <2>2
<1>6. \A j \in DOMAIN t : \E k \in DOMAIN s : t[j] = s[k]
  BY <1>1, <1>2, <1>3
<1>7. ASSUME \A i, j \in DOMAIN s : s[i] = s[j] => i = j
      PROVE  /\ \A i, j \in DOMAIN t : t[i] = t[j] => i = j
             /\ \A j \in DOMAIN t : t[j] # Head(s)
  <2>1. ASSUME NEW i \in DOMAIN t, NEW j \in DOMAIN t, t[i] = t[j] PROVE i = j
    <3>0. i \in 1 .. n - 1 /\ j \in 1 .. n - 1 BY <1>1
    <3>1. i \in Int /\ j \in Int /\ i + 1 \in DOMAIN s /\ j + 1 \in DOMAIN s
      BY <3>0, <1>1, <1>3
    <3>2. s[i + 1] = s[j + 1] BY <1>1, <1>2, <2>1
    <3>3. i + 1 = j + 1 BY <3>1, <3>2, <1>7
    <3> QED BY <3>1, <3>3
  <2>2. ASSUME NEW j \in DOMAIN t PROVE t[j] # Head(s)
    <3>1. j \in Nat \ {0} /\ j + 1 \in DOMAIN s /\ 1 \in DOMAIN s BY <1>1, <1>3
    <3>2. s[j + 1] # s[1] BY <3>1, <1>7
    <3> QED BY <3>2, <1>1, <1>2
  <2> QED BY <2>1, <2>2
<1> QED BY <1>1, <1>5, <1>6, <1>7 DEF t

LEMMA FetchRead ==
  ASSUME FetchInv, ReadFile \/ SkipFile
  PROVE  /\ FetchInv'
         /\ Head(files) \in Files
         /\ \A k \in DOMAIN files : files[k] = Head(files) \/ \E j \in DOMAIN files' : files'[j] = files[k]
         /\ \A j \in DOMAIN files' : files'[j] # Head(files)
         /\ \A j \in DOMAIN files' : \E k \in DOMAIN files : files'[j] = files[k]
<1>1. /\ files \in Seq(Files) /\ files # <<>> /\ files' = Tail(files)
      /\ phase = "reading" /\ phase' = "reading"
  BY DEF FetchInv, FetchTypes, ReadFile, SkipFile
<1>2. /\ files[1] = Head(files) /\ Head(files) \in Files /\ files' \in Seq(Files)
      /\ \A i, j \in DOMAIN files' : files'[i] = files'[j] => i = j
  BY <1>1, HeadAndTail DEF FetchInv, FoundInv
<1>3. \A k \in DOMAIN files :
        files[k] = Head(files) \/ \E j \in DOMAIN files' : files'[j] = files[k]
  BY <1>1, HeadAndTail
<1>4. \A j \in DOMAIN files' : \E k \in DOMAIN files : files'[j] = files[k]
  BY <1>1, HeadAndTail
<1>5. \A j \in DOMAIN files' : files'[j] # Head(files)
  BY <1>1, HeadAndTail DEF FetchInv, FoundInv
<1>8. reads' \in [Files -> Nat]
  <2>1. reads' = IF whole[Head(files)] THEN [reads EXCEPT ![Head(files)] = @ + 1] ELSE reads
    BY DEF ReadFile, SkipFile, taskVars
  <2>2. reads \in [Files -> Nat] BY DEF FetchInv, FetchTypes
  <2> QED BY <1>2, <2>1, <2>2
<1>9. FetchTypes'
  BY <1>1, <1>2, <1>8 DEF FetchInv, FetchTypes, ReadFile, SkipFile, diskVars
<1>10. ClockInv'
  BY <1>1 DEF FetchInv, FetchTypes, ClockInv, ReadFile, SkipFile, diskVars, ToSecond
<1>11. FoundInv' BY <1>1, <1>2 DEF FoundInv
<1> QED BY <1>2, <1>3, <1>4, <1>5, <1>9, <1>10, <1>11 DEF FetchInv

LEMMA FetchRest ==
  ASSUME FetchInv, reads' = reads, EndPoll \/ OpenNull \/ UNCHANGED <<diskVars, fetchVars>>
  PROVE  FetchInv'
<1>1. FetchTypes' BY DEF FetchInv, FetchTypes, EndPoll, OpenNull, diskVars, fetchVars
<1>2. ClockInv'
  BY DEF FetchInv, FetchTypes, ClockInv, EndPoll, OpenNull, diskVars, fetchVars, ToSecond
<1>3. FoundInv' BY DEF FetchInv, FoundInv, EndPoll, OpenNull, fetchVars, Passed
<1> QED BY <1>1, <1>2, <1>3 DEF FetchInv

-----------------------------------------------------------------------------
(* The rest of the invariant, action by action.  A file that is written is *)
(* newer than the stamp, and than the stamp to come.                       *)

LEMMA WrittenIsNewer ==
  ASSUME FetchInv, now # ToSecond(now)
  PROVE  now > lastaccess /\ (timenow # Never => now > ToSecond(timenow))
<1>1. /\ now \in Nat /\ lastaccess \in Nat \cup {Never} /\ lastaccess <= now
      /\ lastaccess # Never => ToSecond(lastaccess) = lastaccess
      /\ timenow \in Nat \cup {Never} /\ (timenow # Never => timenow <= now)
  BY DEF FetchInv, FetchTypes, ClockInv
<1>2. ASSUME timenow # Never PROVE now > ToSecond(timenow)
  <2>1. /\ ToSecond(timenow) \in Nat /\ ToSecond(timenow) <= timenow
        /\ ToSecond(ToSecond(timenow)) = ToSecond(timenow)
    BY <1>1, <1>2, SecondOf
  <2>2. ToSecond(timenow) # now BY <2>1
  <2> QED BY <1>1, <1>2, <2>1, <2>2
<1>3. lastaccess # now BY <1>1
<1> QED BY <1>1, <1>2, <1>3

LEMMA HistoryWritten ==
  ASSUME FetchInv, HistoryInv, NEW f \in Files, Written(f),
         reads' \in [Files -> Nat], reads'[f] = 0,
         \A g \in Files \ {f} : whole'[g] = whole[g] /\ reads'[g] = reads[g]
  PROVE  HistoryInv'
<1>1. now > lastaccess /\ (timenow # Never => now > ToSecond(timenow))
  BY WrittenIsNewer DEF Written
<1>2. /\ mtime'[f] = now /\ (\A g \in Files \ {f} : mtime'[g] = mtime[g])
      /\ lastaccess' = lastaccess /\ phase' = phase /\ lastpoll' = lastpoll
      /\ timenow' = timenow /\ files' = files /\ registered' = registered
      /\ Passed' = Passed /\ slipped' = slipped \ {f}
      /\ \A g \in Files \ {f} : g \in late => g \in late'
      /\ phase = "searching" /\ timenow = Never /\ f \in Passed => f \in late'
  BY DEF Written, FetchInv, FetchTypes, Passed
<1>3. \A g : Pending(g)' <=> Pending(g) BY <1>2 DEF Pending
<1>4. PassedInv'
  <2> SUFFICES ASSUME phase = "searching", NEW g \in Passed, mtime'[g] > lastaccess
               PROVE  \/ Pending(g)
                      \/ timenow = Never /\ g \in late'
                      \/ timenow # Never /\ (mtime'[g] > ToSecond(timenow) \/ g \in slipped')
    BY <1>2, <1>3 DEF PassedInv, ToSecond
  <2>1. CASE g = f
    <3>1. CASE timenow = Never BY <3>1, <2>1, <1>2
    <3>2. CASE timenow # Never
      <4>1. mtime'[g] > ToSecond(timenow) BY <3>2, <2>1, <1>1, <1>2
      <4> QED BY <3>2, <4>1
    <3> QED BY <3>1, <3>2
  <2>2. CASE g # f
    <3>1. g \in Files BY PassedFiles
    <3> QED BY <2>2, <3>1, <1>2 DEF HistoryInv, PassedInv
  <2> QED BY <2>1, <2>2
<1>5. CoveredInv'
  <2> SUFFICES ASSUME NEW g \in Files
               PROVE  Covered(g)' \/ (phase \in {"reading", "crashed"} /\ Pending(g))
    BY <1>2, <1>3 DEF CoveredInv
  <2>1. CASE g = f BY <2>1, <1>1, <1>2 DEF Covered
  <2>2. CASE g # f BY <2>2, <1>2 DEF HistoryInv, CoveredInv, Covered
  <2> QED BY <2>1, <2>2
<1>6. CountInv'
  <2> SUFFICES ASSUME NEW g \in Files PROVE Count(g)'
    BY DEF CountInv
  <2>1. CASE g = f BY <2>1 DEF Count
  <2>2. CASE g # f BY <2>2, <1>2, <1>3 DEF HistoryInv, CountInv, Count
  <2> QED BY <2>1, <2>2
<1> QED BY <1>4, <1>5, <1>6 DEF HistoryInv

(* The rest of the actions keep mtime, whole and version. *)
LEMMA HistoryRest ==
  ASSUME FetchInv, HistoryInv, reads' = reads,
         Tick \/ EndPoll \/ OpenNull \/ UNCHANGED <<diskVars, fetchVars>>
  PROVE  HistoryInv'
<1>1. /\ lastaccess' = lastaccess /\ lastpoll' = lastpoll /\ mtime' = mtime
      /\ timenow' = timenow /\ files' = files /\ registered' = registered
      /\ whole' = whole /\ late' = late /\ slipped' = slipped /\ Passed' = Passed
      /\ phase' = phase \/ (phase = "reading" /\ phase' = "idle" /\ files = <<>>)
         \/ (phase = "reading" /\ phase' = "crashed")
  BY DEF Tick, EndPoll, OpenNull, diskVars, fetchVars, Passed
<1>2. \A g : Pending(g)' <=> Pending(g) BY <1>1 DEF Pending
<1>3. files = <<>> => \A g : ~Pending(g) BY DEF Pending
<1>4. PassedInv' BY <1>1, <1>2 DEF HistoryInv, PassedInv, ToSecond
<1>5. CoveredInv' BY <1>1, <1>2, <1>3 DEF HistoryInv, CoveredInv, Covered
<1>6. CountInv'
  <2> SUFFICES ASSUME NEW g \in Files PROVE Count(g)' BY DEF CountInv
  <2> QED BY <1>1, <1>2, <1>3 DEF HistoryInv, CountInv, Count
<1> QED BY <1>4, <1>5, <1>6 DEF HistoryInv

LEMMA HistoryStart ==
  ASSUME FetchInv, HistoryInv, reads' = reads, StartSearch
  PROVE  HistoryInv'
<1>1. /\ now \in Nat /\ lastaccess \in Nat \cup {Never} /\ lastpoll \in Nat \cup {Never}
      /\ mtime \in [Files -> Nat \cup {Never}] /\ reads \in [Files -> Nat]
      /\ \A f \in Files : mtime[f] <= now /\ (whole[f] => mtime[f] # Never)
      /\ (lastaccess = Never) <=> (registered = Never)
  BY DEF FetchInv, FetchTypes, ClockInv
<1>2. /\ phase = "idle" /\ phase' = "searching" /\ lastpoll' = now /\ files' = <<>>
      /\ lastpoll = Never \/ now >= lastpoll + PollTime
      /\ timenow' = Never /\ passed' = 0 /\ mtime' = mtime /\ whole' = whole
      /\ slipped' = slipped
  BY DEF StartSearch, diskVars
<1>3. \/ registered = Never /\ lastaccess' = registered'
      \/ lastaccess' = lastaccess /\ registered' = registered
  BY <1>1 DEF StartSearch
<1>4. Passed' = {} /\ (\A g : ~Pending(g)') BY <1>2 DEF Passed, Pending
<1>5. PassedInv' BY <1>4 DEF PassedInv
<1>6. CoveredInv'
  <2> SUFFICES ASSUME NEW f \in Files PROVE Covered(f)' BY DEF CoveredInv
  <2>1. Covered(f) BY <1>2 DEF HistoryInv, CoveredInv
  <2>2. CASE registered = Never /\ lastaccess' = registered'
    <3>1. lastaccess' \in Int
      BY <1>1, SecondOf, <2>2 DEF StartSearch
    <3>2. mtime'[f] \in Int BY <1>1, <1>2
    <3> QED BY <3>1, <3>2, <2>2 DEF Covered
  <2>3. CASE lastaccess' = lastaccess /\ registered' = registered
    BY <2>1, <2>3, <1>2 DEF Covered
  <2> QED BY <2>2, <2>3, <1>3
<1>7. CountInv'
  <2> SUFFICES ASSUME NEW f \in Files PROVE Count(f)' BY DEF CountInv
  <2>1. /\ reads[f] >= 1 => whole[f]
        /\ reads[f] <= 3
        /\ reads[f] >= 2 => lastpoll >= mtime[f]
        /\ reads[f] >= 3 => lastaccess >= mtime[f]
    BY <1>2 DEF HistoryInv, CountInv, Count
  <2>2. reads[f] \in Nat /\ mtime[f] \in Nat \cup {Never} /\ mtime[f] <= now
        /\ (whole[f] => mtime[f] # Never)
    BY <1>1
  <2>3. reads[f] >= 2 => now >= mtime[f] + Second
    <3> SUFFICES ASSUME reads[f] >= 2 PROVE now >= mtime[f] + Second OBVIOUS
    <3>1. lastpoll # Never /\ lastpoll \in Nat /\ mtime[f] \in Nat
      BY <1>1, <2>1, <2>2
    <3> QED BY <1>1, <1>2, <2>1, <3>1, SecondType
  <2>4. reads[f] >= 3 => lastaccess' >= mtime[f]
    <3> SUFFICES ASSUME reads[f] >= 3 PROVE lastaccess' >= mtime[f] OBVIOUS
    <3>1. lastaccess # Never BY <1>1, <2>1, <2>2
    <3> QED BY <1>1, <1>3, <2>1, <3>1
  <2> QED BY <1>2, <1>4, <2>1, <2>2, <2>3, <2>4 DEF Count
<1> QED BY <1>5, <1>6, <1>7 DEF HistoryInv

LEMMA HistoryFind ==
  ASSUME FetchInv, HistoryInv, reads' = reads, FindNext
  PROVE  HistoryInv'
<1> DEFINE f == Order[passed + 1]
<1>1. passed \in Nat /\ passed + 1 \in 1 .. Len(Order) /\ f \in Files
  BY OrderFacts DEF FetchInv, FetchTypes, FindNext
<1>2. Passed' = Passed \cup {f} BY <1>1 DEF Passed, FindNext
<1>3. /\ files' = IF mtime[f] > lastaccess THEN Append(files, f) ELSE files
      /\ phase = "searching" /\ phase' = "searching"
      /\ lastaccess' = lastaccess /\ lastpoll' = lastpoll /\ mtime' = mtime
      /\ timenow' = timenow /\ registered' = registered
      /\ whole' = whole /\ late' = late /\ slipped' = slipped
  BY DEF FindNext, Newer, diskVars
<1> HIDE DEF f
<1>4. \A g : Pending(g)' <=> Pending(g) \/ (g = f /\ mtime[f] > lastaccess)
  <2>1. /\ files \in Seq(Files) /\ DOMAIN files = 1 .. Len(files) /\ Len(files) \in Nat
    BY DEF FetchInv, FetchTypes
  <2>2. CASE mtime[f] > lastaccess
    <3>1. /\ DOMAIN files' = 1 .. Len(files) + 1 /\ files'[Len(files) + 1] = f
          /\ \A k \in 1 .. Len(files) : files'[k] = files[k]
      BY <1>1, <1>3, <2>1, <2>2
    <3>2. \A k \in 1 .. Len(files) + 1 : k \in 1 .. Len(files) \/ k = Len(files) + 1
      BY <2>1
    <3>3. 1 .. Len(files) \subseteq 1 .. Len(files) + 1 /\ Len(files) + 1 \in 1 .. Len(files) + 1
      BY <2>1
    <3>4. \A g : (\E k \in DOMAIN files' : files'[k] = g) <=> (\E k \in DOMAIN files : files[k] = g) \/ g = f
      BY <2>1, <3>1, <3>2, <3>3
    <3> QED BY <2>2, <3>4 DEF Pending
  <2>3. CASE ~(mtime[f] > lastaccess)
    <3>1. files' = files BY <1>3, <2>3
    <3> QED BY <3>1, <2>3 DEF Pending
  <2> QED BY <2>2, <2>3
<1>5. PassedInv' BY <1>2, <1>3, <1>4 DEF HistoryInv, PassedInv, ToSecond
<1>6. CoveredInv' BY <1>3, <1>4 DEF HistoryInv, CoveredInv, Covered
<1>7. CountInv'
  <2> SUFFICES ASSUME NEW g \in Files PROVE Count(g)' BY DEF CountInv
  <2>1. reads[g] \in Nat /\ mtime[g] \in Nat \cup {Never} /\ lastaccess \in Nat \cup {Never}
    BY DEF FetchInv, FetchTypes
  <2>2. Count(g) BY DEF HistoryInv, CountInv
  <2> QED BY <1>3, <1>4, <2>1, <2>2 DEF Count
<1> QED BY <1>5, <1>6, <1>7 DEF HistoryInv

LEMMA HistoryTime ==
  ASSUME FetchInv, HistoryInv, reads' = reads, CallTime
  PROVE  HistoryInv'
<1>1. /\ phase = "searching" /\ phase' = "searching" /\ timenow = Never /\ timenow' = now
      /\ lastaccess' = lastaccess /\ lastpoll' = lastpoll /\ mtime' = mtime
      /\ files' = files /\ registered' = registered /\ Passed' = Passed
      /\ whole' = whole /\ late' = late
      /\ slipped' = slipped \cup {f \in late : mtime[f] <= ToSecond(now)}
  BY DEF CallTime, diskVars, Passed
<1>2. now \in Nat /\ ToSecond(now) \in Nat /\ mtime \in [Files -> Nat \cup {Never}]
  BY SecondOf DEF FetchInv, FetchTypes
<1>3. \A g : Pending(g)' <=> Pending(g) BY <1>1 DEF Pending
<1>4. PassedInv'
  <2> SUFFICES ASSUME NEW g \in Passed, mtime[g] > lastaccess, ~Pending(g)
               PROVE  mtime[g] > ToSecond(now) \/ g \in slipped'
    BY <1>1, <1>2, <1>3 DEF PassedInv, ToSecond
  <2>1. g \in Files /\ g \in late BY <1>1, PassedFiles DEF HistoryInv, PassedInv
  <2> QED BY <1>1, <1>2, <2>1
<1>5. CoveredInv' BY <1>1, <1>3 DEF HistoryInv, CoveredInv, Covered
<1>6. CountInv'
  <2> SUFFICES ASSUME NEW g \in Files PROVE Count(g)' BY DEF CountInv
  <2> QED BY <1>1, <1>3 DEF HistoryInv, CountInv, Count
<1> QED BY <1>4, <1>5, <1>6 DEF HistoryInv

LEMMA HistoryEnd ==
  ASSUME FetchInv, HistoryInv, reads' = reads, EndSearch
  PROVE  HistoryInv'
<1>1. /\ phase = "searching" /\ phase' = "reading" /\ timenow # Never
      /\ lastaccess' = IF files # <<>> THEN ToSecond(timenow) ELSE lastaccess
      /\ lastpoll' = lastpoll /\ mtime' = mtime /\ Passed = Files
      /\ files' = files /\ registered' = registered /\ whole' = whole
      /\ slipped' = slipped
  BY PassedFiles DEF EndSearch, StampAfter, diskVars
<1>2. /\ timenow \in Nat /\ lastpoll \in Nat \cup {Never} /\ lastpoll <= timenow
      /\ mtime \in [Files -> Nat \cup {Never}] /\ reads \in [Files -> Nat]
  BY <1>1 DEF FetchInv, FetchTypes, ClockInv
<1>3. ToSecond(timenow) \in Nat /\ ToSecond(timenow) > timenow - Second
  BY <1>2, SecondOf
<1>4. \A g : (Pending(g)' <=> Pending(g)) /\ (files = <<>> => ~Pending(g))
  BY <1>1 DEF Pending
<1>5. PassedInv' BY <1>1 DEF PassedInv
<1>6. CoveredInv'
  <2> SUFFICES ASSUME NEW g \in Files, ~Pending(g) PROVE Covered(g)'
    BY <1>1, <1>4 DEF CoveredInv
  <2>1. Covered(g) BY <1>1 DEF HistoryInv, CoveredInv
  <2>2. CASE files = <<>> BY <2>1, <2>2, <1>1 DEF Covered
  <2>3. CASE files # <<>>
    <3>1. lastaccess' = ToSecond(timenow) BY <1>1, <2>3
    <3>2. mtime[g] > lastaccess => mtime[g] > ToSecond(timenow) \/ g \in slipped
      BY <1>1 DEF HistoryInv, PassedInv
    <3> QED BY <2>1, <3>1, <3>2, <1>1 DEF Covered
  <2> QED BY <2>2, <2>3
<1>7. CountInv'
  <2> SUFFICES ASSUME NEW g \in Files PROVE Count(g)' BY DEF CountInv
  <2>1. reads[g] \in Nat /\ mtime[g] \in Nat \cup {Never} BY <1>2
  <2>2. /\ reads[g] >= 1 => whole[g]
        /\ reads[g] <= 3
        /\ reads[g] >= 1 => lastpoll >= mtime[g]
        /\ reads[g] >= 2 => lastpoll >= mtime[g] + Second
        /\ reads[g] >= 3 => lastaccess >= mtime[g]
        /\ Pending(g) => reads[g] <= 2
    BY <1>1 DEF HistoryInv, CountInv, Count
  <2>3. reads[g] >= 2 => ToSecond(timenow) >= mtime[g] /\ lastpoll >= mtime[g]
    BY <2>1, <2>2, <1>2, <1>3, SecondType
  <2>4. reads[g] >= 3 => lastaccess' >= mtime[g]
    BY <1>1, <2>1, <2>2, <2>3
  <2>5. Pending(g) => files # <<>> /\ (reads[g] >= 2 => lastaccess' >= mtime[g])
    BY <1>1, <1>4, <2>3
  <2> QED BY <1>1, <1>4, <2>2, <2>3, <2>4, <2>5 DEF Count
<1> QED BY <1>5, <1>6, <1>7 DEF HistoryInv

LEMMA HistoryRead ==
  ASSUME FetchInv, HistoryInv, ReadFile \/ SkipFile, NEW f, f = Head(files)
  PROVE  HistoryInv'
<1>1. /\ phase = "reading" /\ phase' = "reading"
      /\ lastaccess' = lastaccess /\ lastpoll' = lastpoll /\ mtime' = mtime
      /\ registered' = registered /\ whole' = whole /\ slipped' = slipped
      /\ reads' = IF whole[f] THEN [reads EXCEPT ![f] = @ + 1] ELSE reads
  BY DEF ReadFile, SkipFile, diskVars, taskVars
<1>2. f \in Files /\ Pending(f) /\ ~Pending(f)'
  <2>1. files \in Seq(Files) /\ files # <<>> BY DEF FetchInv, FetchTypes, ReadFile, SkipFile
  <2>2. 1 \in DOMAIN files /\ files[1] = f BY <2>1
  <2>3. Pending(f) BY <2>2 DEF Pending
  <2> QED BY <2>3, FetchRead DEF Pending
<1>3. \A g : g # f => (Pending(g)' <=> Pending(g))
  BY FetchRead DEF Pending
<1>4. reads \in [Files -> Nat] /\ mtime \in [Files -> Nat \cup {Never}]
  BY DEF FetchInv, FetchTypes
<1>5. PassedInv' BY <1>1 DEF PassedInv
<1>6. CoveredInv'
  <2> SUFFICES ASSUME NEW g \in Files, ~Pending(g)' PROVE Covered(g)'
    BY <1>1 DEF CoveredInv
  <2>1. CASE g = f
    <3>1. reads'[f] > 0 \/ ~whole'[f] BY <1>1, <1>2, <1>4
    <3> QED BY <3>1, <2>1 DEF Covered
  <2>2. CASE g # f
    <3>1. reads'[g] = reads[g] BY <1>1, <1>4, <2>2
    <3>2. Covered(g) BY <1>3, <2>2 DEF HistoryInv, CoveredInv
    <3> QED BY <1>1, <3>1, <3>2 DEF Covered
  <2> QED BY <2>1, <2>2
<1>7. CountInv'
  <2> SUFFICES ASSUME NEW g \in Files PROVE Count(g)' BY DEF CountInv
  <2>1. Count(g) BY DEF HistoryInv, CountInv
  <2>2. CASE g = f
    <3>1. /\ reads[f] >= 1 => whole[f]
          /\ reads[f] <= 2
          /\ reads[f] >= 1 => lastpoll >= mtime[f]
          /\ reads[f] >= 2 => lastaccess >= mtime[f]
      BY <1>1, <1>2, <2>1, <2>2 DEF Count
    <3>2. /\ reads[f] \in Nat /\ whole[f] => reads'[f] = reads[f] + 1
          /\ ~whole[f] => reads'[f] = reads[f]
      BY <1>1, <1>2, <1>4
    <3>3. /\ reads'[f] >= 1 => whole[f]
          /\ reads'[f] <= 3
          /\ reads'[f] >= 2 => lastpoll >= mtime[f]
          /\ reads'[f] >= 3 => lastaccess >= mtime[f]
      BY <1>2, <1>4, <3>1, <3>2
    <3> QED BY <1>1, <1>2, <2>2, <3>3 DEF Count
  <2>3. CASE g # f
    <3>1. reads'[g] = reads[g] BY <1>1, <1>4, <2>3
    <3> QED BY <1>1, <1>3, <2>1, <2>3, <3>1 DEF Count
  <2> QED BY <2>2, <2>3
<1> QED BY <1>5, <1>6, <1>7 DEF HistoryInv

LEMMA WorldKeeps ==
  ASSUME MonInv, WorldStep
  PROVE  MonInv'
<1>1. /\ reads' = [f \in Files |-> IF version'[f] # version[f] THEN 0 ELSE reads[f]]
      /\ World
  BY DEF WorldStep
<1>2. version \in [Files -> Nat] /\ reads \in [Files -> Nat] /\ whole \in [Files -> BOOLEAN]
  BY DEF MonInv, FetchInv, FetchTypes
<1>3. CASE Tick
  <2>1. reads' = reads BY <1>1, <1>2, <1>3 DEF Tick
  <2> QED BY <1>3, <2>1, FetchTick, HistoryRest DEF MonInv
<1>4. ASSUME NEW f \in Files, OpenFile(f) PROVE MonInv'
  <2>1. /\ version' \in [Files -> Nat] /\ version'[f] = version[f] + 1
        /\ \A g \in Files \ {f} : version'[g] = version[g]
        /\ whole' \in [Files -> BOOLEAN]
        /\ \A g \in Files \ {f} : whole'[g] = whole[g]
        /\ Written(f)
    BY <1>2, <1>4 DEF OpenFile
  <2>2. /\ reads' \in [Files -> Nat] /\ reads'[f] = 0
        /\ \A g \in Files \ {f} : reads'[g] = reads[g]
    BY <1>1, <1>2, <2>1
  <2> QED BY <2>1, <2>2, FetchWritten, HistoryWritten DEF MonInv
<1>5. ASSUME NEW f \in Files, CloseFile(f) PROVE MonInv'
  <2>1. /\ version' = version
        /\ ~whole[f] /\ whole' \in [Files -> BOOLEAN]
        /\ \A g \in Files \ {f} : whole'[g] = whole[g]
        /\ Written(f)
    BY <1>2, <1>5 DEF CloseFile
  <2>2. reads' = reads BY <1>1, <1>2, <2>1
  <2>3. reads[f] = 0
    BY <1>2, <2>1 DEF MonInv, HistoryInv, CountInv, Count
  <2> QED BY <1>2, <2>1, <2>2, <2>3, FetchWritten, HistoryWritten DEF MonInv
<1> QED BY <1>1, <1>3, <1>4, <1>5 DEF World

LEMMA MonStep ==
  ASSUME MonInv, [MonNext]_monVars
  PROVE  MonInv'
<1>1. CASE WorldStep BY <1>1, WorldKeeps
<1>2. CASE Search
  <2>1. reads' = reads BY <1>2 DEF Search, taskVars
  <2>2. CASE StartSearch BY <2>1, <2>2, FetchStart, HistoryStart DEF MonInv
  <2>3. CASE FindNext BY <2>1, <2>3, FetchFind, HistoryFind DEF MonInv
  <2>4. CASE CallTime BY <2>1, <2>4, FetchTime, HistoryTime DEF MonInv
  <2>5. CASE EndSearch BY <2>1, <2>5, FetchEnd, HistoryEnd DEF MonInv
  <2> QED BY <1>2, <2>2, <2>3, <2>4, <2>5 DEF Search
<1>3. CASE ReadFile \/ SkipFile BY <1>3, FetchRead, HistoryRead DEF MonInv
<1>4. CASE EndPoll \/ OpenNull
  <2>1. reads' = reads BY <1>4 DEF EndPoll, OpenNull, taskVars
  <2> QED BY <1>4, <2>1, FetchRest, HistoryRest DEF MonInv
<1>5. ASSUME reads' = reads, UNCHANGED <<diskVars, fetchVars>> PROVE MonInv'
  BY <1>5, FetchRest, HistoryRest DEF MonInv
<1>6. ASSUME NEW i \in Items, SelectedItem(i) PROVE MonInv'
  BY <1>5, <1>6, Zenon DEF SelectedItem, Draw
<1>7. CASE Unselected BY <1>5, <1>7, Zenon DEF Unselected
<1>8. CASE RefreshView BY <1>5, <1>8, Zenon DEF RefreshView, Draw
<1>9. CASE DoNewCanvas BY <1>5, <1>9, Zenon DEF DoNewCanvas
<1>10. CASE UNCHANGED monVars BY <1>5, <1>10, Zenon DEF monVars, taskVars
<1> QED BY <1>1, <1>2, <1>3, <1>4, <1>6, <1>7, <1>8, <1>9, <1>10, Zenon DEF MonNext

LEMMA MonStart ==
  ASSUME MonInit
  PROVE  MonInv
<1>1. FetchInit /\ reads = [f \in Files |-> 0] BY DEF MonInit
<1>2. FetchTypes BY <1>1, OrderFacts DEF FetchTypes, FetchInit
<1>3. ClockInv BY <1>1 DEF ClockInv, FetchInit
<1>4. FoundInv BY <1>1 DEF FoundInv, FetchInit
<1>5. HistoryInv
  <2>1. PassedInv BY <1>1 DEF PassedInv, FetchInit
  <2>2. CoveredInv BY <1>1 DEF CoveredInv, Covered, FetchInit
  <2>3. CountInv BY <1>1 DEF CountInv, Count, FetchInit
  <2> QED BY <2>1, <2>2, <2>3 DEF HistoryInv
<1> QED BY <1>2, <1>3, <1>4, <1>5 DEF MonInv, FetchInv

LEMMA MonInvariant == MonSpec => []MonInv
<1>1. MonInit => MonInv BY MonStart
<1>2. MonInv /\ [MonNext]_monVars => MonInv' BY MonStep
<1> QED BY <1>1, <1>2, PTL DEF MonSpec

(***************************************************************************)
(* Between polls, every file that was closed while the monitor runs was    *)
(* read as it is now, or will be found, or was written in the gap between  *)
(* find and time() (FileFetcher::GetFileList, MonTask::PollData).          *)
(***************************************************************************)
THEOREM MonitorNothingMissed == MonSpec => []NothingMissed
<1>1. MonInv => NothingMissed
  <2> SUFFICES ASSUME MonInv, phase = "idle", NEW f \in Files,
                      whole[f], mtime[f] > registered, registered # Never
               PROVE  reads[f] > 0 \/ mtime[f] > lastaccess \/ f \in slipped
    BY DEF NothingMissed
  <2>1. mtime[f] \in Nat \cup {Never} /\ registered \in Nat \cup {Never}
    BY DEF MonInv, FetchInv, FetchTypes
  <2>2. Covered(f) BY DEF MonInv, HistoryInv, CoveredInv
  <2> QED BY <2>1, <2>2 DEF Covered
<1> QED BY <1>1, MonInvariant, PTL

(***************************************************************************)
(* The same version of a file is read three times at most: the stamp is    *)
(* cut to a second (FileFetcher::GetFileList), but moves on with each      *)
(* search that found something.                                            *)
(***************************************************************************)
THEOREM MonitorReadsBounded == MonSpec => []ReadsBounded
<1>1. MonInv => ReadsBounded
  BY DEF MonInv, HistoryInv, CountInv, Count, ReadsBounded
<1> QED BY <1>1, MonInvariant, PTL

-----------------------------------------------------------------------------
(* The screen.  The name of no item, "", is not one of an item.            *)

LEMMA ScreenDraw ==
  ASSUME ScreenInv, NEW i \in Items, Draw(i), item' \in Items \cup {""}
  PROVE  ScreenInv'
<1>1. /\ canvas' = Drawn(i) /\ fGotData' = FALSE /\ hist' = hist
      /\ hidden' = (hidden /\ canvas.title = i /\ ~fGotData)
  BY Zenon DEF Draw
<1>2. /\ fGotData \in BOOLEAN /\ hidden \in BOOLEAN
      /\ canvas = [title |-> canvas.title, shows |-> canvas.shows]
      /\ hist = [k \in Items |-> hist[k]]
      /\ canvas.title \in Items => canvas.shows = hist[canvas.title] \/ fGotData \/ hidden
  BY Zenon DEF ScreenInv, ScreenTypes, CanvasInv
<1>3. CASE canvas.title # i \/ fGotData
  <2>1. canvas' = [title |-> i, shows |-> hist[i]] BY <1>1, <1>3, Zenon DEF Drawn
  <2>2. canvas'.title = i /\ canvas'.shows = hist[i] BY <2>1
  <2>3. canvas' = [title |-> canvas'.title, shows |-> canvas'.shows] BY <2>1, <2>2
  <2>4. CanvasInv' BY <1>1, <2>2, Zenon DEF CanvasInv
  <2> QED BY <1>1, <1>2, <2>3, <2>4, Zenon DEF ScreenInv, ScreenTypes
<1>4. CASE ~(canvas.title # i \/ fGotData)
  <2>1. canvas' = canvas BY <1>1, <1>4, Zenon DEF Drawn
  <2>2. CanvasInv' BY <1>1, <1>2, <1>4, <2>1, Zenon DEF CanvasInv
  <2> QED BY <1>1, <1>2, <2>1, <2>2, Zenon DEF ScreenInv, ScreenTypes
<1> QED BY <1>3, <1>4

LEMMA ScreenRead ==
  ASSUME ScreenInv, ReadFile
  PROVE  ScreenInv'
<1> DEFINE f   == Head(files)
           new == IF whole[f] THEN Holds[f] ELSE {}
<1>1. /\ hist' = [i \in Items |-> IF i \in new THEN [file |-> f, version |-> version[f]]
                                  ELSE hist[i]]
      /\ (fGotData' <=> new # {})
      /\ (hidden' <=> (hidden \/ (fGotData /\ new = {})))
      /\ fGotData' \in BOOLEAN /\ hidden' \in BOOLEAN
      /\ canvas' = IF canvas.title \in new THEN [canvas EXCEPT !.shows = Nothing] ELSE canvas
      /\ item' = item
  BY DEF ReadFile, Blanked
<1> HIDE DEF new
<1>2. /\ fGotData \in BOOLEAN /\ hidden \in BOOLEAN
      /\ item \in Items \cup {""}
      /\ canvas = [title |-> canvas.title, shows |-> canvas.shows]
      /\ canvas.title \in Items => canvas.shows = hist[canvas.title] \/ fGotData \/ hidden
  BY Zenon DEF ScreenInv, ScreenTypes, CanvasInv
<1>3. hist' = [i \in Items |-> hist'[i]] BY ONLY <1>1
<1>4. CASE canvas.title \in new
  <2>1. canvas' = [title |-> canvas.title, shows |-> Nothing] BY <1>1, <1>2, <1>4
  <2>2. canvas' = [title |-> canvas'.title, shows |-> canvas'.shows] BY <2>1
  <2>3. fGotData' BY <1>1, <1>4
  <2>4. CanvasInv' BY <2>3, Zenon DEF CanvasInv
  <2> QED BY <1>1, <1>2, <1>3, <2>2, <2>4, Zenon DEF ScreenInv, ScreenTypes
<1>5. CASE canvas.title \notin new
  <2>1. canvas' = canvas BY <1>1, <1>5
  <2>2. canvas.title \in Items => hist'[canvas.title] = hist[canvas.title]
    BY <1>1, <1>5
  <2>3. CanvasInv' BY <1>1, <1>2, <2>1, <2>2, Zenon DEF CanvasInv
  <2> QED BY <1>1, <1>2, <1>3, <2>1, <2>3, Zenon DEF ScreenInv, ScreenTypes
<1> QED BY <1>4, <1>5

LEMMA ScreenStep ==
  ASSUME ScreenInv, [MonNext]_monVars
  PROVE  ScreenInv'
<1>1. item \in Items \cup {""} BY Zenon DEF ScreenInv, ScreenTypes
<1>2. ASSUME UNCHANGED <<hist, fGotData, item, canvas, hidden>> PROVE ScreenInv'
  BY <1>2, Zenon DEF ScreenInv, ScreenTypes, CanvasInv
<1>3. CASE WorldStep BY <1>2, <1>3, Zenon DEF WorldStep
<1>4. CASE Search BY <1>2, <1>4, Zenon DEF Search, taskVars
<1>5. CASE ReadFile BY <1>5, ScreenRead
<1>6. CASE SkipFile \/ OpenNull \/ EndPoll
  BY <1>2, <1>6, Zenon DEF SkipFile, OpenNull, EndPoll, taskVars
<1>7. ASSUME NEW i \in Items, SelectedItem(i) PROVE ScreenInv'
  <2>1. Draw(i) /\ item' \in Items \cup {""} BY <1>7, Zenon DEF SelectedItem
  <2> QED BY <2>1, ScreenDraw
<1>8. CASE Unselected
  <2>1. item' \in Items \cup {""} BY <1>8, Zenon DEF Unselected
  <2> QED BY <1>8, <2>1, Zenon DEF Unselected, ScreenInv, ScreenTypes, CanvasInv
<1>9. CASE RefreshView
  <2>1. item \in Items /\ Draw(item) /\ item' = item BY <1>1, <1>9, Zenon DEF RefreshView
  <2>2. PICK i \in Items : i = item BY <2>1, Zenon
  <2>3. Draw(i) /\ item' \in Items \cup {""} BY <1>1, <2>1, <2>2, Zenon
  <2> QED BY <2>3, ScreenDraw
<1>10. CASE DoNewCanvas
  <2>1. /\ canvas' = [title |-> "", shows |-> Nothing]
        /\ hist' = hist /\ fGotData' = fGotData /\ item' = item /\ hidden' = hidden
    BY <1>10, Zenon DEF DoNewCanvas
  <2>2. canvas'.title = "" /\ canvas'.shows = Nothing BY <2>1, Zenon
  <2>3. canvas'.title \notin Items BY <2>2, MonitorAssumption, Zenon DEF MonitorAssumption
  <2>4. canvas' = [title |-> canvas'.title, shows |-> canvas'.shows] BY <2>1, <2>2, Zenon
  <2> QED BY <2>1, <2>3, <2>4, Zenon DEF ScreenInv, ScreenTypes, CanvasInv
<1>11. CASE UNCHANGED monVars BY <1>2, <1>11, Zenon DEF monVars, taskVars
<1> QED BY <1>3, <1>4, <1>5, <1>6, <1>7, <1>8, <1>9, <1>10, <1>11, Zenon DEF MonNext

LEMMA ScreenStart ==
  ASSUME MonInit
  PROVE  ScreenInv
<1>1. /\ hist = [i \in Items |-> Nothing] /\ fGotData = FALSE /\ hidden = FALSE
      /\ item = "" /\ canvas = [title |-> "", shows |-> Nothing]
  BY Zenon DEF MonInit
<1>2. canvas.title = "" /\ canvas.shows = Nothing BY <1>1, Zenon
<1>3. canvas = [title |-> canvas.title, shows |-> canvas.shows] BY <1>1, <1>2, Zenon
<1>4. canvas.title \notin Items BY <1>2, MonitorAssumption, Zenon DEF MonitorAssumption
<1>5. hist = [i \in Items |-> hist[i]] BY ONLY <1>1
<1> QED BY <1>1, <1>3, <1>4, <1>5, Zenon DEF ScreenInv, ScreenTypes, CanvasInv

(***************************************************************************)
(* Between polls the canvas shows the histograms that were read last, or   *)
(* it will be drawn again (MonBenchDist::DoDraw, Copy), unless a poll took *)
(* fGotData back before it was seen.                                       *)
(***************************************************************************)
THEOREM MonitorShowsTheLatest == MonSpec => []ShowsTheLatest
<1>1. MonInit => ScreenInv BY ScreenStart
<1>2. ScreenInv /\ [MonNext]_monVars => ScreenInv' BY ScreenStep
<1>3. ScreenInv => ShowsTheLatest BY DEF ScreenInv, CanvasInv, ShowsTheLatest
<1> QED BY <1>1, <1>2, <1>3, PTL DEF MonSpec

-----------------------------------------------------------------------------
(***************************************************************************)
(* The server keeps a bounded number of bounded buffers, and what a client *)
(* is sent is whole frames in their order: for any number of connections,  *)
(* whoever comes and goes while Send walks through the map, and also after *)
(* that walk has gone wrong.                                               *)
(***************************************************************************)

Piece   == [frame : Nat, part : {1, 2}]
Half(n) == <<[frame |-> n, part |-> 2]>>

AllBelow(w, n) == \A i \in DOMAIN w : w[i].frame < n

(* what WholeFrames says of one connection *)
Whole(w) ==
  \A i \in DOMAIN w :
    IF i % 2 = 1
      THEN w[i].part = 1 /\ (i > 1 => w[i].frame > w[i - 1].frame)
      ELSE w[i] = [frame |-> w[i - 1].frame, part |-> 2]

(* A client's buffer and what it was sent: the buffer holds nothing, a     *)
(* frame later than all that was sent, or the second half of the one that  *)
(* was sent last.                                                          *)
ConnOK(out, w, f) ==
  /\ w \in Seq(Piece)
  /\ Whole(w) /\ AllBelow(w, MaxFrames) /\ AllBelow(w, f + 1)
  /\ \/ out = <<>> /\ Len(w) % 2 = 0
     \/ \E n \in 1 .. f : out = Pieces(n) /\ Len(w) % 2 = 0 /\ AllBelow(w, n)
     \/ \E n \in 1 .. f : /\ out = Half(n)
                          /\ IF n < MaxFrames
                               THEN Len(w) % 2 = 1 /\ w[Len(w)].frame = n
                               ELSE Len(w) % 2 = 0

ClientsInv ==
  /\ conns \in 0 .. MaxConns
  /\ DOMAIN m_clients \subseteq Fds
  /\ IsFiniteSet(DOMAIN m_clients) /\ Cardinality(DOMAIN m_clients) <= MAXCLIENTS
  /\ \A fd \in DOMAIN m_clients : m_clients[fd] \in 1 .. conns
  /\ \A fd, g \in DOMAIN m_clients : m_clients[fd] = m_clients[g] => fd = g

ConnsInv ==
  /\ DOMAIN output = Conns /\ DOMAIN wire = Conns
  /\ output = [c \in Conns |-> output[c]] /\ wire = [c \in Conns |-> wire[c]]
  /\ \A c \in Conns :
       IF c \in Clients
         THEN ConnOK(output[c], wire[c], frame)
         ELSE /\ output[c] = <<>>
              /\ Whole(wire[c])
              /\ c > conns => wire[c] = <<>>

(* Nothing of frame f was handed to the connection. *)
Unvisited(out, w, f) ==
  /\ AllBelow(w, f)
  /\ \A i \in DOMAIN out : out[i].frame < f \/ out[i].frame = MaxFrames

(* The clients at or behind the iterator were not visited yet.             *)
SendInv ==
  /\ frame \in 0 .. MaxFrames
  /\ it # Idle =>
       /\ it \in Int /\ itConn \in 1 .. conns /\ frame > 0
       /\ \A fd \in DOMAIN m_clients :
            fd >= it => Unvisited(output[m_clients[fd]], wire[m_clients[fd]], frame)

ServerInv == ClientsInv /\ ConnsInv /\ SendInv

USE ServerAssumption DEF ServerAssumption, Idle, Conns

-----------------------------------------------------------------------------
(* one connection *)
LEMMA PiecesProperties ==
  ASSUME NEW n \in Nat
  PROVE  /\ Len(Pieces(n)) = 2 /\ Pieces(n) # <<>>
         /\ Head(Pieces(n)) = [frame |-> n, part |-> 1] /\ Tail(Pieces(n)) = Half(n)
         /\ DOMAIN Pieces(n) = 1 .. 2 /\ \A i \in 1 .. 2 : Pieces(n)[i].frame = n
         /\ Len(Half(n)) = 1 /\ Half(n) # <<>>
         /\ Head(Half(n)) = [frame |-> n, part |-> 2] /\ Tail(Half(n)) = <<>>
         /\ DOMAIN Half(n) = 1 .. 1 /\ Half(n)[1].frame = n
BY DEF Pieces, Half

LEMMA PieceSeq ==
  ASSUME NEW w \in Seq(Piece)
  PROVE  /\ Len(w) \in Nat /\ DOMAIN w = 1 .. Len(w)
         /\ \A i \in DOMAIN w : w[i] \in Piece /\ w[i].frame \in Nat
<1>1. \A p \in Piece : p.frame \in Nat
  BY DEF Piece
<1>2. Len(w) \in Nat /\ DOMAIN w = 1 .. Len(w) /\ \A i \in DOMAIN w : w[i] \in Piece
  OBVIOUS
<1> QED BY <1>1, <1>2

LEMMA ConnLater ==
  ASSUME NEW out, NEW w, NEW f \in Nat, NEW g \in Nat, g >= f, ConnOK(out, w, f)
  PROVE  ConnOK(out, w, g)
<1>1. w \in Seq(Piece) /\ \A i \in DOMAIN w : w[i].frame \in Nat
  BY PieceSeq DEF ConnOK
<1>2. AllBelow(w, g + 1)
  BY <1>1 DEF ConnOK, AllBelow
<1>3. \A n \in 1 .. f : n \in 1 .. g
  OBVIOUS
<1> QED BY <1>2, <1>3 DEF ConnOK

LEMMA ConnQueue ==
  ASSUME NEW w, NEW f \in Nat \ {0}, ConnOK(<<>>, w, f), AllBelow(w, f)
  PROVE  ConnOK(Pieces(f), w, f)
<1>1. Len(w) % 2 = 0
  <2>1. ASSUME NEW n \in 1 .. f PROVE Pieces(n) # <<>> /\ Half(n) # <<>>
    <3>1. n \in Nat
      OBVIOUS
    <3> QED BY <3>1, PiecesProperties
  <2> QED BY <2>1 DEF ConnOK
<1>2. f \in 1 .. f
  OBVIOUS
<1> QED BY <1>1, <1>2 DEF ConnOK

(* A piece that is added to whole frames. *)
LEMMA AppendPiece ==
  ASSUME NEW w \in Seq(Piece), NEW p \in Piece
  PROVE  /\ Append(w, p) \in Seq(Piece) /\ Len(Append(w, p)) = Len(w) + 1
         /\ DOMAIN Append(w, p) = 1 .. Len(w) + 1 /\ DOMAIN w = 1 .. Len(w) /\ Len(w) \in Nat
         /\ \A i \in 1 .. Len(w) : Append(w, p)[i] = w[i]
         /\ Append(w, p)[Len(w) + 1] = p
OBVIOUS

LEMMA AppendBelow ==
  ASSUME NEW w \in Seq(Piece), NEW p \in Piece, NEW n \in Nat, AllBelow(w, n), p.frame < n
  PROVE  AllBelow(Append(w, p), n)
<1> SUFFICES ASSUME NEW i \in 1 .. Len(w) + 1 PROVE Append(w, p)[i].frame < n
  BY AppendPiece DEF AllBelow
<1>1. CASE i \in 1 .. Len(w)
  BY <1>1, AppendPiece DEF AllBelow
<1>2. CASE i = Len(w) + 1
  BY <1>2, AppendPiece
<1> QED BY <1>1, <1>2, AppendPiece

LEMMA AppendWhole ==
  ASSUME NEW w \in Seq(Piece), NEW p \in Piece, Whole(w),
         IF Len(w) % 2 = 0
           THEN p.part = 1 /\ AllBelow(w, p.frame)
           ELSE p = [frame |-> w[Len(w)].frame, part |-> 2]
  PROVE  Whole(Append(w, p))
<1> DEFINE v == Append(w, p)
           L == Len(w)
<1>1. /\ DOMAIN v = 1 .. L + 1 /\ DOMAIN w = 1 .. L /\ L \in Nat
      /\ \A i \in 1 .. L : v[i] = w[i]
      /\ v[L + 1] = p
  BY AppendPiece
<1> HIDE DEF v
<1> SUFFICES ASSUME NEW i \in 1 .. L + 1
             PROVE  IF i % 2 = 1
                      THEN v[i].part = 1 /\ (i > 1 => v[i].frame > v[i - 1].frame)
                      ELSE v[i] = [frame |-> v[i - 1].frame, part |-> 2]
  BY <1>1 DEF Whole, v
<1>2. CASE i \in 1 .. L
  <2>1. i > 1 \/ i % 2 = 1
    BY <1>2
  <2>2. i > 1 => i - 1 \in 1 .. L
    BY <1>2
  <2> QED BY <1>1, <1>2, <2>1, <2>2 DEF Whole
<1>3. CASE i = L + 1 /\ L % 2 = 0
  <2>1. i % 2 = 1 /\ v[i] = p
    BY <1>1, <1>3
  <2>2. i > 1 => v[i].frame > v[i - 1].frame
    <3> SUFFICES ASSUME i > 1 PROVE v[i].frame > v[i - 1].frame
      OBVIOUS
    <3>1. i - 1 \in DOMAIN w /\ v[i - 1] = w[i - 1]
      BY <1>1, <1>3
    <3>2. w[i - 1].frame \in Nat /\ p.frame \in Nat
      BY <3>1, PieceSeq DEF Piece
    <3>3. w[i - 1].frame < p.frame
      BY <1>3, <3>1 DEF AllBelow
    <3> QED BY <2>1, <3>1, <3>2, <3>3
  <2> QED BY <1>3, <2>1, <2>2
<1>4. CASE i = L + 1 /\ L % 2 # 0
  <2>1. i % 2 # 1 /\ v[i] = p
    BY <1>1, <1>4
  <2>2. i - 1 = L /\ L \in 1 .. L
    BY <1>1, <1>4
  <2> QED BY <1>1, <1>4, <2>1, <2>2
<1> QED BY <1>1, <1>2, <1>3, <1>4

LEMMA ConnDrain ==
  ASSUME NEW out, NEW w, NEW f \in 0 .. MaxFrames, ConnOK(out, w, f), out # <<>>
  PROVE  ConnOK(Tail(out),
                IF Head(out).frame < MaxFrames THEN Append(w, Head(out)) ELSE w, f)
<1>1. /\ w \in Seq(Piece) /\ Whole(w) /\ AllBelow(w, MaxFrames) /\ AllBelow(w, f + 1)
      /\ Len(w) \in Nat /\ DOMAIN w = 1 .. Len(w)
  BY DEF ConnOK
<1>2. ASSUME NEW n \in 1 .. f, out = Pieces(n), Len(w) % 2 = 0, AllBelow(w, n)
      PROVE  ConnOK(Tail(out),
                IF Head(out).frame < MaxFrames THEN Append(w, Head(out)) ELSE w, f)
  <2> DEFINE p == [frame |-> n, part |-> 1]
  <2>1. Head(out) = p /\ Tail(out) = Half(n) /\ p \in Piece /\ p.frame = n /\ p.part = 1
    <3>1. n \in Nat
      OBVIOUS
    <3>2. p \in Piece /\ p.frame = n /\ p.part = 1
      BY <3>1 DEF Piece
    <3> QED BY <1>2, <3>1, <3>2, PiecesProperties
  <2>2. CASE n < MaxFrames
    <3>2. /\ Append(w, p) \in Seq(Piece) /\ Len(Append(w, p)) = Len(w) + 1
          /\ Append(w, p)[Len(w) + 1] = p
      BY <1>1, <2>1, AppendPiece
    <3>3. Whole(Append(w, p))
      BY <1>1, <1>2, <2>1, AppendWhole
    <3>4. AllBelow(Append(w, p), MaxFrames) /\ AllBelow(Append(w, p), f + 1)
      BY <1>1, <2>1, <2>2, AppendBelow
    <3>5. (Len(w) + 1) % 2 = 1
      BY <1>1, <1>2
    <3> HIDE DEF p
    <3> QED BY <2>1, <2>2, <3>2, <3>3, <3>4, <3>5 DEF ConnOK
  <2>3. CASE ~(n < MaxFrames)
    BY <1>1, <1>2, <2>1, <2>3 DEF ConnOK
  <2> QED BY <2>2, <2>3
<1>3. ASSUME NEW n \in 1 .. f, out = Half(n),
             IF n < MaxFrames THEN Len(w) % 2 = 1 /\ w[Len(w)].frame = n ELSE Len(w) % 2 = 0
      PROVE  ConnOK(Tail(out),
                IF Head(out).frame < MaxFrames THEN Append(w, Head(out)) ELSE w, f)
  <2> DEFINE p == [frame |-> n, part |-> 2]
  <2>1. Head(out) = p /\ Tail(out) = <<>> /\ p \in Piece /\ p.frame = n
    <3>1. n \in Nat
      OBVIOUS
    <3>2. p \in Piece /\ p.frame = n
      BY <3>1 DEF Piece
    <3> QED BY <1>3, <3>1, <3>2, PiecesProperties
  <2>2. CASE n < MaxFrames
    <3>1. Append(w, p) \in Seq(Piece) /\ Len(Append(w, p)) = Len(w) + 1
      BY <1>1, <2>1, AppendPiece
    <3>2. Whole(Append(w, p))
      <4>1. Len(w) % 2 # 0 /\ p = [frame |-> w[Len(w)].frame, part |-> 2]
        BY <1>3, <2>2
      <4> HIDE DEF p
      <4> QED BY <1>1, <2>1, <4>1, AppendWhole
    <3>3. AllBelow(Append(w, p), MaxFrames) /\ AllBelow(Append(w, p), f + 1)
      BY <1>1, <2>1, <2>2, AppendBelow
    <3>4. (Len(w) + 1) % 2 = 0
      BY <1>1, <1>3, <2>2
    <3> HIDE DEF p
    <3> QED BY <2>1, <2>2, <3>1, <3>2, <3>3, <3>4 DEF ConnOK
  <2>3. CASE ~(n < MaxFrames)
    BY <1>1, <1>3, <2>1, <2>3 DEF ConnOK
  <2> QED BY <2>2, <2>3
<1> QED BY <1>2, <1>3 DEF ConnOK

-----------------------------------------------------------------------------
(* the server *)
LEMMA EmptyConn == ASSUME NEW f \in Nat PROVE ConnOK(<<>>, <<>>, f)
<1>1. <<>> \in Seq(Piece) /\ Len(<<>>) % 2 = 0 /\ \A i \in DOMAIN <<>> : FALSE
  OBVIOUS
<1> QED BY <1>1 DEF ConnOK, Whole, AllBelow

LEMMA ClientConn ==
  ASSUME ClientsInv, NEW fd \in DOMAIN m_clients
  PROVE  m_clients[fd] \in Conns /\ m_clients[fd] \in Clients /\ fd \in Int
<1>1. m_clients[fd] \in 1 .. conns /\ conns \in 0 .. MaxConns /\ fd \in Fds
  BY DEF ClientsInv
<1>2. m_clients[fd] \in Conns
  BY <1>1
<1>4. fd \in Int
  <2>1. fd \in Fds /\ Fds \subseteq Nat
    BY <1>1
  <2> QED BY ONLY <2>1
<1>3. m_clients[fd] \in Clients
  BY DEF Clients
<1> QED BY <1>2, <1>3, <1>4

LEMMA InitServerInv == ServerInit => ServerInv
<1> SUFFICES ASSUME ServerInit PROVE ServerInv
  OBVIOUS
<1>1. DOMAIN m_clients = {} /\ conns = 0 /\ frame = 0 /\ it = Idle
  BY DEF ServerInit
<1>2. ClientsInv
  BY <1>1, FS_EmptySet DEF ClientsInv
<1>3. ConnsInv
  <2>1. Clients = {} /\ DOMAIN <<>> = {}
    BY <1>1 DEF Clients
  <2> QED BY <2>1 DEF ServerInit, ConnsInv, Whole
<1>4. SendInv
  BY <1>1 DEF SendInv
<1> QED BY <1>2, <1>3, <1>4 DEF ServerInv

LEMMA SameServerInv ==
  ASSUME ServerInv, UNCHANGED <<m_clients, conns, frame, it, itConn, output, wire>>
  PROVE  ServerInv'
<1>1. ClientsInv'
  BY DEF ServerInv, ClientsInv
<1>2. ConnsInv'
  BY DEF ServerInv, ConnsInv, Clients
<1>3. SendInv'
  BY DEF ServerInv, SendInv
<1> QED BY <1>1, <1>2, <1>3 DEF ServerInv

LEMMA MovesOn ==
  ASSUME ServerInv, NEW fd \in Int, NEW mayMiss, MoveOn(fd, mayMiss)
  PROVE  it' # Idle =>
           /\ it' \in DOMAIN m_clients /\ it' > fd /\ it' \in Int
           /\ itConn' = m_clients[it'] /\ itConn' \in 1 .. conns
<1> SUFFICES ASSUME it' # Idle
             PROVE  /\ it' \in DOMAIN m_clients /\ it' > fd /\ it' \in Int
                    /\ itConn' = m_clients[it'] /\ itConn' \in 1 .. conns
  OBVIOUS
<1>1. PICK g \in DOMAIN m_clients : g > fd /\ it' = g /\ itConn' = m_clients[g]
  BY DEF MoveOn
<1>2. g \in Int /\ m_clients[g] \in 1 .. conns
  BY ClientConn DEF ServerInv, ClientsInv
<1> QED BY <1>1, <1>2

LEMMA SendBeginServerInv == ASSUME ServerInv, SendBegin PROVE ServerInv'
<1>1. /\ frame \in 0 .. MaxFrames /\ frame' \in 1 .. MaxFrames /\ frame' >= frame
      /\ frame' = frame + 1 \/ (frame' = MaxFrames /\ frame = MaxFrames)
  BY DEF SendBegin, ServerInv, SendInv
<1>2. UNCHANGED <<m_clients, conns, output, wire>>
  BY DEF SendBegin
<1>3. ClientsInv'
  BY <1>2 DEF ClientsInv, ServerInv
<1>4. ASSUME NEW c \in Clients
      PROVE  ConnOK(output[c], wire[c], frame) /\ ConnOK(output[c], wire[c], frame')
  <2>1. ConnOK(output[c], wire[c], frame)
    BY DEF ServerInv, ClientsInv, ConnsInv, Clients
  <2> QED BY <1>1, <2>1, ConnLater
<1>5. ConnsInv'
  BY <1>2, <1>4 DEF ServerInv, ConnsInv, Clients
<1>6. ASSUME NEW c \in Clients PROVE Unvisited(output[c], wire[c], frame')
  <2> DEFINE w == wire[c]
             out == output[c]
  <2>1. ConnOK(out, w, frame)
    BY <1>4
  <2>2. AllBelow(w, frame')
    BY <1>1, <2>1 DEF ConnOK
  <2>3. \A i \in DOMAIN out : out[i].frame < frame' \/ out[i].frame = MaxFrames
    <3>1. ASSUME NEW n \in 1 .. frame, out = Pieces(n) \/ out = Half(n), NEW i \in DOMAIN out
          PROVE  out[i].frame < frame' \/ out[i].frame = MaxFrames
      <4>1. n \in Nat /\ (n < frame' \/ n = MaxFrames)
        BY <1>1
      <4> HIDE DEF out
      <4>2. CASE out = Pieces(n)
        <5>1. i \in 1 .. 2
          BY <4>1, <4>2, <3>1, PiecesProperties
        <5>2. Pieces(n)[i].frame = n
          BY <4>1, <5>1, PiecesProperties
        <5> QED BY <4>1, <4>2, <5>2
      <4>3. CASE out = Half(n)
        <5>1. i = 1
          BY <4>1, <4>3, <3>1, PiecesProperties
        <5> QED BY <4>1, <4>3, <5>1, PiecesProperties
      <4> QED BY <3>1, <4>2, <4>3
    <3>2. out = <<>> => DOMAIN out = {}
      OBVIOUS
    <3>3. out = <<>> \/ \E n \in 1 .. frame : out = Pieces(n) \/ out = Half(n)
      BY <2>1 DEF ConnOK
    <3> HIDE DEF out
    <3> QED BY <3>1, <3>2, <3>3
  <2> QED BY <2>2, <2>3 DEF Unvisited
<1>7. MoveOn(Idle, FALSE)
  BY DEF SendBegin
<1>8. SendInv'
  <2>1. \A fd \in DOMAIN m_clients : m_clients[fd] \in Clients
    BY DEF Clients
  <2>2. it' # Idle => it' \in Int /\ itConn' \in 1 .. conns
    <3>1. Idle \in Int
      OBVIOUS
    <3> HIDE DEF Idle
    <3> QED BY <1>7, <3>1, MovesOn
  <2> QED BY <1>1, <1>2, <1>6, <2>1, <2>2 DEF SendInv
<1> QED BY <1>3, <1>5, <1>8 DEF ServerInv

LEMMA SendOneServerInv == ASSUME ServerInv, SendOne PROVE ServerInv'
<1>1. CASE ~(it \in DOMAIN m_clients /\ m_clients[it] = itConn)
  BY <1>1, SameServerInv DEF SendOne, dispatchVars
<1>2. CASE it \in DOMAIN m_clients /\ m_clients[it] = itConn
  <2>1. /\ it # Idle
        /\ output' = [output EXCEPT ![itConn] = Queued(itConn)]
        /\ MoveOn(it, raced)
        /\ UNCHANGED <<m_clients, conns, wire, frame>>
    BY <1>2 DEF SendOne, dispatchVars
  <2>2. /\ itConn \in Conns /\ itConn \in Clients /\ it \in Int
        /\ frame \in 1 .. MaxFrames
        /\ Unvisited(output[itConn], wire[itConn], frame)
    BY <1>2, <2>1, ClientConn DEF ServerInv, SendInv
  <2>3. ConnOK(output[itConn], wire[itConn], frame)
    BY <2>2 DEF ServerInv, ConnsInv
  <2>4. ConnOK(Queued(itConn), wire[itConn], frame)
    <3>1. CASE output[itConn] = <<>>
      <4>1. ConnOK(<<>>, wire[itConn], frame) /\ AllBelow(wire[itConn], frame)
        BY <2>2, <2>3, <3>1 DEF Unvisited
      <4>2. ConnOK(Pieces(frame), wire[itConn], frame)
        BY <2>2, <4>1, ConnQueue
      <4> QED BY <3>1, <4>2 DEF Queued
    <3>2. CASE output[itConn] # <<>>
      BY <2>3, <3>2 DEF Queued
    <3> QED BY <3>1, <3>2
  <2>5. /\ DOMAIN output = Conns /\ DOMAIN output' = Conns
        /\ \A c \in Conns : output'[c] = IF c = itConn THEN Queued(itConn) ELSE output[c]
    BY <2>1 DEF ServerInv, ConnsInv
  <2>6. ConnsInv'
    <3>1. Clients' = Clients /\ wire' = wire /\ conns' = conns /\ frame' = frame
      BY <2>1 DEF Clients
    <3>2. output' = [c \in Conns |-> output'[c]]
      BY <2>1 DEF ServerInv, ConnsInv
    <3>3. ASSUME NEW c \in Conns
          PROVE  IF c \in Clients
                   THEN ConnOK(output'[c], wire[c], frame)
                   ELSE output'[c] = <<>> /\ Whole(wire[c]) /\ (c > conns => wire[c] = <<>>)
      BY <2>2, <2>4, <2>5 DEF ServerInv, ConnsInv
    <3> QED BY <2>5, <3>1, <3>2, <3>3 DEF ServerInv, ConnsInv
  <2>7. ClientsInv'
    BY <2>1 DEF ServerInv, ClientsInv
  <2>8. it' # Idle =>
          /\ it' \in DOMAIN m_clients /\ it' > it /\ it' \in Int
          /\ itConn' \in 1 .. conns
    BY <2>1, <2>2, MovesOn
  <2>9. ASSUME it' # Idle, NEW fd \in DOMAIN m_clients, fd >= it'
        PROVE  Unvisited(output'[m_clients[fd]], wire[m_clients[fd]], frame)
    <3>1. fd \in Int /\ m_clients[fd] \in Conns
      BY ClientConn DEF ServerInv
    <3>2. fd >= it /\ fd # it
      BY <2>2, <2>8, <2>9, <3>1
    <3>3. m_clients[fd] # itConn
      BY <1>2, <3>2 DEF ServerInv, ClientsInv
    <3>4. Unvisited(output[m_clients[fd]], wire[m_clients[fd]], frame)
      BY <2>1, <3>2 DEF ServerInv, SendInv
    <3>5. output'[m_clients[fd]] = output[m_clients[fd]]
      BY <2>5, <3>1, <3>3
    <3> QED BY <3>4, <3>5
  <2>10. SendInv'
    BY <2>1, <2>2, <2>8, <2>9 DEF SendInv
  <2> QED BY <2>6, <2>7, <2>10 DEF ServerInv
<1> QED BY <1>1, <1>2

LEMMA AcceptServerInv == ASSUME ServerInv, NEW fd \in Fds, Accept(fd) PROVE ServerInv'
<1> DEFINE new == conns + 1
<1>1. /\ conns \in Nat /\ conns < MaxConns /\ fd \notin DOMAIN m_clients /\ conns' = new
      /\ UNCHANGED <<frame, it, itConn, output, wire>>
  BY DEF Accept, sendVars, ServerInv, ClientsInv
<1>2. new \in Conns /\ new \in Int /\ new > conns /\ fd \in Int
  BY <1>1
<1>3. ASSUME NEW g \in DOMAIN m_clients PROVE m_clients[g] # new /\ m_clients[g] \in 1 .. new
  BY <1>1 DEF ServerInv, ClientsInv
<1>4. output[new] = <<>> /\ wire[new] = <<>>
  BY <1>2, <1>3 DEF ServerInv, ConnsInv, Clients
<1>5. CASE Full
  <2>1. m_clients' = m_clients
    BY <1>5 DEF Accept
  <2>2. ClientsInv'
    BY <1>1, <1>3, <2>1 DEF ServerInv, ClientsInv
  <2>3. ConnsInv'
    BY <1>1, <2>1 DEF ServerInv, ClientsInv, ConnsInv, Clients
  <2>4. SendInv'
    BY <1>1, <2>1 DEF ServerInv, SendInv
  <2> QED BY <2>2, <2>3, <2>4 DEF ServerInv
<1>6. CASE ~Full
  <2>1. /\ DOMAIN m_clients' = DOMAIN m_clients \cup {fd}
        /\ m_clients'[fd] = new
        /\ \A g \in DOMAIN m_clients : m_clients'[g] = m_clients[g]
    BY <1>1, <1>6 DEF Accept
  <2>2. IsFiniteSet(DOMAIN m_clients') /\ Cardinality(DOMAIN m_clients') <= MAXCLIENTS
    <3>1. /\ IsFiniteSet(DOMAIN m_clients) /\ Cardinality(DOMAIN m_clients) \in Nat
          /\ Cardinality(DOMAIN m_clients) <= MAXCLIENTS
      BY FS_CardinalityType DEF ServerInv, ClientsInv
    <3>2. Cardinality(DOMAIN m_clients) < MAXCLIENTS
      BY <1>6, <3>1 DEF Full
    <3>3. /\ IsFiniteSet(DOMAIN m_clients \cup {fd})
          /\ Cardinality(DOMAIN m_clients \cup {fd}) = Cardinality(DOMAIN m_clients) + 1
      BY <1>1, <3>1, FS_AddElement
    <3> QED BY <2>1, <3>1, <3>2, <3>3
  <2>3. ClientsInv'
    <3>1. \A g \in DOMAIN m_clients' : m_clients'[g] \in 1 .. conns'
      BY <1>1, <1>2, <1>3, <2>1
    <3>2. \A g, h \in DOMAIN m_clients' : m_clients'[g] = m_clients'[h] => g = h
      BY <1>3, <2>1 DEF ServerInv, ClientsInv
    <3>3. conns' \in 0 .. MaxConns /\ DOMAIN m_clients' \subseteq Fds
      BY <1>1, <2>1 DEF ServerInv, ClientsInv
    <3> QED BY <2>2, <3>1, <3>2, <3>3 DEF ClientsInv
  <2>4. Clients' = Clients \cup {new}
    BY <2>1 DEF Clients
  <2>5. ConnsInv'
    <3>1. ConnOK(output[new], wire[new], frame)
      BY <1>4, EmptyConn DEF ServerInv, SendInv
    <3>2. ASSUME NEW c \in Conns, c \notin Clients', c > conns' PROVE wire[c] = <<>>
      BY <1>1, <2>4, <3>2 DEF ServerInv, ConnsInv
    <3> QED BY <1>1, <2>4, <3>1, <3>2 DEF ServerInv, ConnsInv
  <2>6. SendInv'
    <3>1. Unvisited(output[new], wire[new], frame)
      <4>1. \A i \in DOMAIN <<>> : FALSE
        OBVIOUS
      <4> QED BY <1>4, <4>1 DEF Unvisited, AllBelow
    <3>2. ASSUME it # Idle, NEW g \in DOMAIN m_clients', g >= it
          PROVE  Unvisited(output[m_clients'[g]], wire[m_clients'[g]], frame)
      BY <2>1, <3>1, <3>2 DEF ServerInv, SendInv
    <3>3. it # Idle => /\ it \in Int /\ itConn \in 1 .. new /\ frame > 0
      BY <1>1 DEF ServerInv, SendInv
    <3>4. frame \in 0 .. MaxFrames
      BY DEF ServerInv, SendInv
    <3> HIDE DEF new
    <3> QED BY <1>1, <3>2, <3>3, <3>4 DEF SendInv
  <2> QED BY <2>3, <2>5, <2>6 DEF ServerInv
<1> QED BY <1>5, <1>6

LEMMA DrainServerInv == ASSUME ServerInv, NEW fd \in DOMAIN m_clients, Drain(fd) PROVE ServerInv'
<1> DEFINE c == m_clients[fd]
           w == IF Head(output[c]).frame < MaxFrames
                  THEN Append(wire[c], Head(output[c])) ELSE wire[c]
<1>1. c \in Conns /\ c \in Clients
  BY ClientConn DEF ServerInv
<1>2. /\ output[c] # <<>>
      /\ wire' = IF Head(output[c]).frame < MaxFrames
                   THEN [wire EXCEPT ![c] = Append(@, Head(output[c]))] ELSE wire
      /\ output' = [output EXCEPT ![c] = Tail(@)]
      /\ UNCHANGED <<m_clients, conns, frame, it, itConn>>
  BY DEF Drain, dispatchVars, sendVars
<1>3. /\ DOMAIN output' = Conns /\ DOMAIN wire' = Conns
      /\ output' = [d \in Conns |-> output'[d]] /\ wire' = [d \in Conns |-> wire'[d]]
      /\ \A d \in Conns : /\ output'[d] = IF d = c THEN Tail(output[c]) ELSE output[d]
                          /\ wire'[d] = IF d = c THEN w ELSE wire[d]
  BY <1>1, <1>2 DEF ServerInv, ConnsInv
<1>4. ConnOK(output[c], wire[c], frame) /\ frame \in 0 .. MaxFrames
  BY <1>1 DEF ServerInv, ConnsInv, SendInv
<1>5. ConnOK(Tail(output[c]), w, frame)
  BY <1>2, <1>4, ConnDrain
<1>6. ASSUME Unvisited(output[c], wire[c], frame) PROVE Unvisited(Tail(output[c]), w, frame)
  <2> DEFINE out == output[c]
  <2>1. PICK n \in 1 .. frame : out = Pieces(n) \/ out = Half(n)
    BY <1>2, <1>4 DEF ConnOK
  <2>2. n \in Nat
    BY <1>4
  <2> HIDE DEF out
  <2>3. /\ 1 \in DOMAIN out /\ out[1].frame = n /\ Head(out).frame = n
        /\ Tail(out) = <<>> \/ Tail(out) = Half(n)
    <3>1. /\ 1 \in DOMAIN Pieces(n) /\ Pieces(n)[1].frame = n
          /\ Head(Pieces(n)).frame = n /\ Tail(Pieces(n)) = Half(n)
      BY <2>2, PiecesProperties
    <3>2. /\ 1 \in DOMAIN Half(n) /\ Half(n)[1].frame = n
          /\ Head(Half(n)) = [frame |-> n, part |-> 2] /\ Tail(Half(n)) = <<>>
      BY <2>2 DEF Half
    <3> QED BY <2>1, <3>1, <3>2
  <2>4. n < frame \/ n = MaxFrames
    BY <1>6, <2>3 DEF Unvisited, out
  <2>5. \A i \in DOMAIN Tail(out) : Tail(out)[i].frame = n
    <3>1. DOMAIN <<>> = {}
      OBVIOUS
    <3>2. ASSUME NEW i \in DOMAIN Half(n) PROVE Half(n)[i].frame = n
      <4>1. i = 1
        BY <2>2, PiecesProperties
      <4> QED BY <2>2, <4>1, PiecesProperties
    <3> QED BY <2>3, <3>1, <3>2
  <2>6. AllBelow(w, frame)
    <3>1. wire[c] \in Seq(Piece) /\ AllBelow(wire[c], frame)
      BY <1>4, <1>6 DEF ConnOK, Unvisited
    <3>2. CASE n < MaxFrames
      <4>1. Head(out) \in Piece
        <5>1. [frame |-> n, part |-> 1] \in Piece /\ [frame |-> n, part |-> 2] \in Piece
          BY <2>2 DEF Piece
        <5>2. /\ Head(Pieces(n)) = [frame |-> n, part |-> 1]
              /\ Head(Half(n)) = [frame |-> n, part |-> 2]
          BY <2>2, PiecesProperties DEF Half
        <5> QED BY <2>1, <5>1, <5>2, Zenon
      <4>2. n < frame /\ frame \in Nat
        BY <1>4, <2>2, <2>4, <3>2
      <4>3. AllBelow(Append(wire[c], Head(out)), frame)
        BY <2>3, <3>1, <4>1, <4>2, AppendBelow
      <4> QED BY <2>3, <3>2, <4>3 DEF out
    <3>3. CASE ~(n < MaxFrames)
      BY <2>3, <3>1, <3>3 DEF out
    <3> QED BY <3>2, <3>3
  <2>7. \A i \in DOMAIN Tail(out) : Tail(out)[i].frame < frame \/ Tail(out)[i].frame = MaxFrames
    BY <2>4, <2>5
  <2> QED BY <2>6, <2>7 DEF Unvisited, out
<1> HIDE DEF w
<1>7. ConnsInv'
  BY <1>1, <1>2, <1>3, <1>5 DEF ServerInv, ConnsInv, Clients
<1>8. ClientsInv'
  BY <1>2 DEF ServerInv, ClientsInv
<1>9. ASSUME NEW g \in DOMAIN m_clients,
             Unvisited(output[m_clients[g]], wire[m_clients[g]], frame)
      PROVE  Unvisited(output'[m_clients[g]], wire'[m_clients[g]], frame)
  <2>1. CASE g = fd
    BY <1>1, <1>3, <1>6, <1>9, <2>1
  <2>2. CASE g # fd
    <3>1. m_clients[g] # c /\ m_clients[g] \in Conns
      BY <2>2, ClientConn DEF ServerInv, ClientsInv
    <3> QED BY <1>3, <1>9, <3>1
  <2> QED BY <2>1, <2>2
<1>10. SendInv'
  BY <1>2, <1>9 DEF ServerInv, SendInv
<1> QED BY <1>7, <1>8, <1>10 DEF ServerInv

LEMMA ErrorEventServerInv == ASSUME ServerInv, NEW fd \in DOMAIN m_clients, ErrorEvent(fd) PROVE ServerInv'
<1> DEFINE c == m_clients[fd]
<1>1. c \in Conns /\ c \in Clients
  BY ClientConn DEF ServerInv
<1>2. /\ output' = [output EXCEPT ![c] = <<>>]
      /\ DOMAIN m_clients' = DOMAIN m_clients \ {fd}
      /\ \A g \in DOMAIN m_clients \ {fd} : m_clients'[g] = m_clients[g] /\ m_clients[g] # c
      /\ UNCHANGED <<conns, frame, it, itConn, wire>>
  BY DEF ErrorEvent, RemoveClient, sendVars, ServerInv, ClientsInv
<1>3. ClientsInv'
  <2>1. /\ IsFiniteSet(DOMAIN m_clients) /\ Cardinality(DOMAIN m_clients) \in Nat
        /\ Cardinality(DOMAIN m_clients) <= MAXCLIENTS
    BY FS_CardinalityType DEF ServerInv, ClientsInv
  <2>2. /\ IsFiniteSet(DOMAIN m_clients \ {fd})
        /\ Cardinality(DOMAIN m_clients \ {fd}) = Cardinality(DOMAIN m_clients) - 1
    BY <2>1, FS_RemoveElement
  <2>3. IsFiniteSet(DOMAIN m_clients') /\ Cardinality(DOMAIN m_clients') <= MAXCLIENTS
    BY <1>2, <2>1, <2>2
  <2> QED BY <1>2, <2>3 DEF ServerInv, ClientsInv
<1>4. Clients' = Clients \ {c}
  BY <1>2 DEF Clients
<1>5. /\ DOMAIN output' = Conns /\ output' = [d \in Conns |-> output'[d]]
      /\ \A d \in Conns : output'[d] = IF d = c THEN <<>> ELSE output[d]
  BY <1>1, <1>2 DEF ServerInv, ConnsInv
<1>6. ConnsInv'
  <2>1. Whole(wire[c])
    BY <1>1 DEF ServerInv, ConnsInv, ConnOK
  <2>2. ~(c > conns)
    BY DEF ServerInv, ClientsInv
  <2> HIDE DEF c
  <2> QED BY <1>2, <1>4, <1>5, <2>1, <2>2 DEF ServerInv, ConnsInv
<1>7. ASSUME NEW g \in DOMAIN m_clients',
             Unvisited(output[m_clients[g]], wire[m_clients[g]], frame)
      PROVE  Unvisited(output'[m_clients'[g]], wire[m_clients'[g]], frame)
  <2>1. g \in DOMAIN m_clients /\ m_clients[g] # c /\ m_clients'[g] = m_clients[g]
    BY <1>2
  <2>2. output'[m_clients[g]] = output[m_clients[g]]
    BY <1>5, <2>1, ClientConn DEF ServerInv
  <2> QED BY <1>7, <2>1, <2>2
<1>8. SendInv'
  <2>1. \A g \in DOMAIN m_clients' : g \in DOMAIN m_clients /\ m_clients'[g] = m_clients[g]
    BY <1>2
  <2> QED BY <1>2, <1>7, <2>1 DEF ServerInv, SendInv
<1> QED BY <1>3, <1>6, <1>8 DEF ServerInv

LEMMA NextServerInv == ServerInv /\ [ServerNext]_serverVars => ServerInv'
<1> SUFFICES ASSUME ServerInv, [ServerNext]_serverVars PROVE ServerInv'
  OBVIOUS
<1>1. CASE Start \/ Stop \/ UNCHANGED serverVars
  BY <1>1, SameServerInv DEF Start, Stop, serverVars, dispatchVars, sendVars
<1>2. CASE SendBegin
  BY <1>2, SendBeginServerInv
<1>3. CASE SendOne
  BY <1>3, SendOneServerInv
<1>4. ASSUME NEW fd \in Fds, Accept(fd) PROVE ServerInv'
  BY <1>4, AcceptServerInv
<1>5. ASSUME NEW fd \in DOMAIN m_clients, Drain(fd) PROVE ServerInv'
  BY <1>5, DrainServerInv
<1>6. ASSUME NEW fd \in DOMAIN m_clients, ErrorEvent(fd) PROVE ServerInv'
  BY <1>6, ErrorEventServerInv
<1>7. ASSUME NEW fd \in DOMAIN m_clients, PeerGoes(fd) PROVE ServerInv'
  BY <1>7, SameServerInv DEF PeerGoes, sendVars
<1> QED BY <1>1, <1>2, <1>3, <1>4, <1>5, <1>6, <1>7 DEF ServerNext

(* Never more clients than the server takes, never more than a frame in a  *)
(* client's buffer, none for those that left.                              *)
(* (daq/src/EventServer.cc, accept_cb, RemoveClient and Send)              *)
THEOREM ServerMemoryBounded == ServerSpec => []MemoryBounded
<1>1. ServerInv => MemoryBounded
  <2> SUFFICES ASSUME ServerInv, NEW c \in Conns
               PROVE  Len(output[c]) <= (IF c \in Clients THEN 2 ELSE 0)
    BY DEF ServerInv, ClientsInv, MemoryBounded
  <2>1. frame \in Nat /\ Len(<<>>) = 0
    BY DEF ServerInv, SendInv
  <2>2. CASE c \notin Clients
    BY <2>1, <2>2 DEF ServerInv, ConnsInv
  <2>3. CASE c \in Clients
    <3>1. output[c] = <<>> \/ \E n \in Nat : output[c] = Pieces(n) \/ output[c] = Half(n)
      BY <2>1, <2>3 DEF ServerInv, ConnsInv, ConnOK
    <3>2. CASE output[c] = <<>>
      BY <2>1, <2>3, <3>2
    <3>3. ASSUME NEW n \in Nat, output[c] = Pieces(n) \/ output[c] = Half(n)
          PROVE  Len(output[c]) <= 2
      <4>1. CASE output[c] = Pieces(n)
        <5>1. Len(output[c]) = Len(Pieces(n)) BY <4>1, Zenon
        <5>2. Len(Pieces(n)) = 2 BY DEF Pieces
        <5> QED BY <5>1, <5>2
      <4>2. CASE output[c] = Half(n)
        <5>1. Len(output[c]) = Len(Half(n)) BY <4>2, Zenon
        <5>2. Len(Half(n)) = 1 BY DEF Half
        <5> QED BY <5>1, <5>2
      <4> QED BY <3>3, <4>1, <4>2
    <3> QED BY <2>3, <3>1, <3>2, <3>3
  <2> QED BY <2>2, <2>3
<1> QED BY <1>1, InitServerInv, NextServerInv, PTL DEF ServerSpec

(* A client is sent whole frames, each later than the one before.          *)
(* (daq/src/EventServer.cc, Send)                                          *)
THEOREM ServerWholeFrames == ServerSpec => []WholeFrames
<1>1. ServerInv => WholeFrames
  <2> SUFFICES ASSUME ServerInv, NEW c \in Conns PROVE Whole(wire[c])
    BY DEF WholeFrames, Whole
  <2> QED BY DEF ServerInv, ConnsInv, ConnOK
<1> QED BY <1>1, InitServerInv, NextServerInv, PTL DEF ServerSpec
=============================================================================
