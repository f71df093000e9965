---------------------------- MODULE TrackJoinCRM ----------------------------
(***************************************************************************)
(* Track segments of one view, found in each readout module (CRM), joined  *)
(* to tracks: TrackJoinCRM (recon/src) and Track2d::operator+=             *)
(* (datamodel/src).  Whether two segments are near and have the same       *)
(* direction is a choice.                                                  *)
(***************************************************************************)
EXTENDS Integers, SequencesExt

CONSTANT fNoJoin
ASSUME JoinAssumption == fNoJoin \in BOOLEAN

VARIABLES
  tracksegs,   \* of each CRM, a sequence of segments
  tracks,      \* the result
  at           \* the loops of Join(): CRM i, segment ii, joins made, CRM to skip

joinVars == <<tracksegs, tracks, at>>

JoinStart == [i |-> 1, ii |-> 1, rep |-> 0, skip |-> 0]
JoinIdle  == tracksegs = <<>> /\ tracks = <<>> /\ at = <<>>

NCrm == Len(tracksegs)
HasSegment == at.i <= NCrm /\ at.ii <= Len(tracksegs[at.i])
Current == tracksegs[at.i][at.ii]

(* Segments one after the other in time                                    *)
Sorted(a, b)  == IF a.end > b.end THEN <<b, a>> ELSE <<a, b>>
Apart(a, b)   == LET s == Sorted(a, b)
                 IN  s[1].start <= s[2].start /\ s[1].end <= s[2].start

(* Bug form of Appended: the path is joined, the hits are not. *)
AppendedPath(a, b) ==
  LET s == Sorted(a, b)
  IN  [s[1] EXCEPT !.path = @ \o s[2].path, !.end = s[2].end, !.crm = -1]

(* The later one is appended to the earlier one                            *)
Appended(a, b) ==
  LET s == Sorted(a, b)
  IN  [hits |-> s[1].hits \o s[2].hits, drays |-> s[1].drays \o s[2].drays, path |-> s[1].path \o s[2].path,
       start |-> s[1].start, end |-> s[2].end, pid |-> s[1].pid, crm |-> -1]

(* Bug form of JoinSegment: the segment joined stays where it was. *)
JoinSegmentKept ==
  /\ HasSegment /\ ~fNoJoin /\ Current.pid # 11 /\ at.rep < NCrm - at.i + 1
  /\ \E j \in at.i + 1 .. NCrm : \E k \in DOMAIN tracksegs[j] :
       /\ j # at.skip
       /\ Apart(Current, tracksegs[j][k])
       /\ tracksegs' = [tracksegs EXCEPT ![at.i][at.ii] = Appended(@, tracksegs[j][k])]
       /\ at' = [at EXCEPT !.rep = @ + 1, !.skip = j]
  /\ UNCHANGED tracks

(* A segment of a later CRM, but not of the one just joined, is joined and *)
(* taken from its list.  What the segment is taken for is asked once,      *)
(* before the first join, and not at all of the other one.                 *)
JoinSegment ==
  /\ HasSegment /\ ~fNoJoin /\ NCrm > 1
  /\ at.rep > 0 \/ Current.pid # 11
  /\ at.rep < NCrm - at.i + 1
  /\ \E j \in at.i + 1 .. NCrm : \E k \in DOMAIN tracksegs[j] :
       /\ j # at.skip
       /\ Apart(Current, tracksegs[j][k])
       /\ tracksegs' = [tracksegs EXCEPT ![at.i][at.ii] = Appended(@, tracksegs[j][k]),
                                         ![j] = RemoveAt(@, k)]
       /\ at' = [at EXCEPT !.rep = @ + 1, !.skip = j]
  /\ UNCHANGED tracks

(* No other segment fits, or enough were joined.                           *)
KeepTrack ==
  /\ HasSegment
  /\ tracks' = Append(tracks, Current)
  /\ at' = [JoinStart EXCEPT !.i = at.i, !.ii = at.ii + 1]
  /\ UNCHANGED tracksegs

NextCRM ==
  /\ at.i <= NCrm /\ ~HasSegment
  /\ at' = [JoinStart EXCEPT !.i = at.i + 1]
  /\ UNCHANGED <<tracksegs, tracks>>

Join == JoinSegment \/ KeepTrack \/ NextCRM
JoinDone == at.i > NCrm
=============================================================================
