--------------------------- MODULE HitCollection ----------------------------
(***************************************************************************)
(* The hits of a block of channels: HitCollection and ChHitCollection      *)
(* (datautils/src/HitCollection.cc).  Channels without hits fill the gaps  *)
(* of the block; a channel belongs to the CRM and view of its first hit.   *)
(* Sums of charge are left out.                                            *)
(***************************************************************************)
EXTENDS Sifting

(* fHits: the channels fChStart, fChStart + 1, ... fChEnd; fHitChCoord:    *)
(* channel and start of every hit, in the order added                      *)
EmptyCollection == [fHits |-> <<>>, fChStart |-> -1, fChEnd |-> -1,
                    fNch |-> 0, fNhits |-> 0, fHitChCoord |-> <<>>]

NoHits == [fCrmId |-> -1, fView |-> -1, fChId |-> -1, fHits |-> <<>>, fHitsMap |-> <<>>]

Empties(n) == [k \in 1 .. Max({n, 0}) |-> NoHits]

Matches(c, hit) == c.fCrmId = hit.crm /\ c.fView = hit.view /\ c.fChId = hit.ch

(* Bug form of InsertHit: always behind the others. *)
InsertHitLast(hits, hit) == Append(hits, hit)

(* In order of their starts; before the hits with the same start, as       *)
(* std::lower_bound has it, unless it starts last                          *)
InsertHit(hits, hit) ==
  IF Last(hits).start < hit.start
    THEN Append(hits, hit)
    ELSE InsertAt(hits, Min({k \in DOMAIN hits : hits[k].start >= hit.start}), hit)

WithHit(map, hit) == [t \in DOMAIN map \cup {hit.start} |-> IF t = hit.start THEN hit ELSE map[t]]

(* ChHitCollection::AddHit() on channel c *)
ChAddHit(c, hit) ==
  IF c.fChId = -1
    THEN [fCrmId |-> hit.crm, fView |-> hit.view, fChId |-> hit.ch,
          fHits |-> <<hit>>, fHitsMap |-> WithHit(<<>>, hit)]
    ELSE [c EXCEPT !.fHits = InsertHit(@, hit), !.fHitsMap = WithHit(@, hit)]

(* Bug form of Block: channels before the block are added behind it. *)
BlockNoFront(coll, ch) ==
  IF coll.fHits = <<>>
    THEN [start |-> ch, end |-> ch, chs |-> <<NoHits>>]
    ELSE [start |-> Min({coll.fChStart, ch}),
          end   |-> Max({coll.fChEnd, ch}),
          chs   |-> coll.fHits \o Empties(coll.fChStart - ch) \o Empties(ch - coll.fChEnd)]

(* GetChHitCollection(): the block, grown to hold channel ch *)
Block(coll, ch) ==
  IF coll.fHits = <<>>
    THEN [start |-> ch, end |-> ch, chs |-> <<NoHits>>]
    ELSE [start |-> Min({coll.fChStart, ch}),
          end   |-> Max({coll.fChEnd, ch}),
          chs   |-> Empties(coll.fChStart - ch) \o coll.fHits \o Empties(ch - coll.fChEnd)]

(* AddHit(): a hit of another CRM or view on a known channel is refused,   *)
(* but the block has grown.                                                *)
AddHit(coll, hit) ==
  LET b  == Block(coll, hit.ch)
      k  == hit.ch - b.start + 1
      ok == b.chs[k].fChId = -1 \/ Matches(b.chs[k], hit)
  IN  [fChStart |-> b.start,
       fChEnd   |-> b.end,
       fNch     |-> coll.fNch + Len(b.chs) - Len(coll.fHits),
       fHits    |-> IF ok THEN [b.chs EXCEPT ![k] = ChAddHit(@, hit)] ELSE b.chs,
       fNhits   |-> IF ok THEN coll.fNhits + 1 ELSE coll.fNhits,
       fHitChCoord |-> IF ok THEN Append(coll.fHitChCoord, <<hit.ch, hit.start>>)
                             ELSE coll.fHitChCoord]

-----------------------------------------------------------------------------
Distance(a, b) == IF a < b THEN b - a ELSE a - b

(* Bug form of GetClosestHit: the search is not taken one step back. *)
GetClosestHitNoStep(hits, tick) ==
  CASE tick <= hits[1].end -> 1
    [] tick > hits[1].end /\ tick >= Last(hits).start -> Len(hits)
    [] OTHER -> Min({k \in DOMAIN hits : hits[k].start > tick})

(* GetClosestHit(): the place of the hit for a clock tick.  The first and  *)
(* the last hit are tried first; between others the nearer start decides,  *)
(* the earlier one of two as near.  The binary search finds the first hit  *)
(* that starts after the tick.                                             *)
GetClosestHit(hits, tick) ==
  CASE tick <= hits[1].end -> 1
    [] tick > hits[1].end /\ tick >= Last(hits).start -> Len(hits)
    [] OTHER ->
         LET next == Min({k \in DOMAIN hits : hits[k].start > tick})
         IN  IF Distance(hits[next].start, tick) < Distance(hits[next - 1].start, tick)
               THEN next ELSE next - 1

(* GetHitList(): the hits of the CRM and view of one channel; -1 asks for  *)
(* those of the first channel, -2 of the last, one out of range is as -1.  *)
FromCh(coll, fromch) ==
  CASE fromch = -2 -> coll.fChEnd
    [] fromch \in coll.fChStart .. coll.fChEnd -> fromch
    [] OTHER -> coll.fChStart

GetHitList(coll, fromch) ==
  LET c    == coll.fHits[FromCh(coll, fromch) - coll.fChStart + 1]
      same == Sift(coll.fHits, {d \in Range(coll.fHits) : d.fCrmId = c.fCrmId /\ d.fView = c.fView})
  IN  FlattenSeq([k \in DOMAIN same |-> same[k].fHits])
=============================================================================
