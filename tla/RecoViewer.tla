------------------------------ MODULE RecoViewer ------------------------------
(***************************************************************************)
(* The display of reconstructed events (guiutils/src/RecoViewer.cc), which *)
(* src/recoviewer.cc opens on one file.  Per view there is a graph of hits *)
(* for each readout module (CRM) and one for all of them, which is the     *)
(* last; the same for the hits of tracks, where a graph is a piece of a    *)
(* track.  A point of a graph is the index of its hit.                     *)
(***************************************************************************)
EXTENDS Sifting

CONSTANTS
  RecoFiles,   \* [crms, hits, tracks, events]: number of CRMs, the views that
               \* have hits and tracks, and for each event and view the CRM
               \* of every hit, and of every track its hits and delta rays
  Origin       \* a point nobody set

ASSUME RecoFilesAssumption ==
  \A f \in RecoFiles : f.crms \in Nat \ {0} /\ f.hits \subseteq 0 .. 1 /\ f.tracks \subseteq 0 .. 1

Views == 0 .. 1

VARIABLES
  viewer,      \* "closed", "open", "nohits" or "crashed"
  recoFile,    \* the file that is open
  fCurEvent,
  buttons,     \* the enabled ones of "prev" and "next"
  graphs,      \* per view those of the event that was fetched last
  fSelCRM,     \* per view the CRM to show; crms stands for all of them
  canvas       \* per view what is drawn: hits, pieces of tracks, lines

recoViewVars == <<viewer, recoFile, fCurEvent, buttons, graphs, fSelCRM, canvas>>

fEntries == Len(recoFile.events)
All(f)   == f.crms
Axis     == [hits |-> <<>>, trkhits |-> <<>>, drays |-> <<>>, lines |-> 0]

-----------------------------------------------------------------------------
(* Hit i becomes point i of the graph of its CRM, whatever points that has *)
GraphHits(f, crms) ==
  [c \in 0 .. All(f) |->
     LET own == {i \in DOMAIN crms : c \in {crms[i], All(f)}}
     IN  [i \in 1 .. Max(own \cup {0}) |-> IF i \in own THEN i ELSE Origin]]

(* Bug form of PiecesIn: a piece is continued wherever the track went.       *)
PiecesJoined(crms, hits, c) ==
  LET own == Sift(hits, {i \in Range(hits) : crms[i] = c})
  IN  IF own = <<>> THEN <<>> ELSE <<own>>

(* The pieces of a track in a CRM: a new one whenever it comes back to it  *)
PiecesIn(crms, hits, c) ==
  LET add(ps, k) ==
        CASE crms[hits[k]] # c                    -> ps
          [] k > 1 /\ crms[hits[k - 1]] = c       -> Front(ps) \o <<Append(Last(ps), hits[k])>>
          [] OTHER                                -> Append(ps, <<hits[k]>>)
  IN  FoldLeft(add, <<>>, [k \in DOMAIN hits |-> k])

GraphTrackHits(f, crms, rows) ==
  [c \in 0 .. All(f) |-> IF c = All(f) THEN rows
                         ELSE FlattenSeq([n \in DOMAIN rows |-> PiecesIn(crms, rows[n], c)])]

Graphs(f, event, view) ==
  LET crms == event[view].hits
      trks == IF 0 \in f.tracks /\ view \in f.tracks THEN event[view].trks ELSE <<>>
      all  == [n \in DOMAIN trks |-> trks[n].drays]
      rays == Sift(all, Range(all) \ {<<>>})
  IN  [hits    |-> GraphHits(f, crms),
       trkhits |-> GraphTrackHits(f, crms, [n \in DOMAIN trks |-> trks[n].hits]),
       drays   |-> GraphTrackHits(f, crms, rays),
       lines   |-> Len(trks)]

(* RefreshView0() and RefreshView1(): tracks only where there are hits     *)
Drawing(g, c) ==
  IF g.hits[c] = <<>> THEN Axis
  ELSE [hits |-> g.hits[c], trkhits |-> g.trkhits[c], drays |-> g.drays[c], lines |-> g.lines]

(* Bug form of Browse: the first event leaves next as it is.               *)
BrowseKeepsNext(cur, entries, btns) ==
  IF cur < 1 THEN [cur |-> 0, btns |-> btns \ {"prev"}]
  ELSE IF cur >= entries - 1 THEN [cur |-> entries - 1, btns |-> btns \ {"next"}]
  ELSE [cur |-> cur, btns |-> {"prev", "next"}]

(* The event to show and the buttons, which are only switched: at the last *)
(* event, prev is as it was.                                               *)
Browse(cur, entries, btns) ==
  IF cur < 1
    THEN [cur |-> 0, btns |-> (btns \ {"prev"}) \cup {b \in {"next"} : entries > 1}]
  ELSE IF cur >= entries - 1
    THEN [cur |-> entries - 1, btns |-> btns \ {"next"}]
    ELSE [cur |-> cur, btns |-> {"prev", "next"}]

(* FetchEvent() and Refresh(-1).  Without an event, or without hits in     *)
(* view 1, which HasRecoBranch is not asked for, there is nothing to draw  *)
(* from.                                                                   *)
FetchEvent(f, cur, btns, sel) ==
  LET b == Browse(cur, Len(f.events), btns)
  IN  IF Len(f.events) = 0 \/ 1 \notin f.hits
        THEN viewer' = "crashed" /\ UNCHANGED <<fCurEvent, buttons, graphs, canvas>>
        ELSE LET gs == [v \in Views |-> Graphs(f, f.events[b.cur + 1], v)]
             IN  /\ viewer' = "open"
                 /\ fCurEvent' = b.cur /\ buttons' = b.btns
                 /\ graphs' = gs
                 /\ canvas' = [v \in Views |-> Drawing(gs[v], sel[v])]

-----------------------------------------------------------------------------
RecoViewInit ==
  /\ viewer = "closed" /\ recoFile = <<>> /\ fCurEvent = 0 /\ buttons = {}
  /\ graphs = <<>> /\ fSelCRM = <<>> /\ canvas = <<>>

(* A file without hits in view 0 is complained about, and nothing follows. *)
OpenFile ==
  /\ viewer = "closed"
  /\ \E f \in RecoFiles :
       /\ recoFile' = f
       /\ fSelCRM' = [v \in Views |-> All(f)]
       /\ IF 0 \notin f.hits
            THEN viewer' = "nohits" /\ UNCHANGED <<fCurEvent, buttons, graphs, canvas>>
            ELSE FetchEvent(f, 0, {}, fSelCRM')

NextEvent ==
  /\ viewer = "open" /\ "next" \in buttons
  /\ FetchEvent(recoFile, fCurEvent + 1, buttons, fSelCRM)
  /\ UNCHANGED <<recoFile, fSelCRM>>

PrevEvent ==
  /\ viewer = "open" /\ "prev" \in buttons
  /\ FetchEvent(recoFile, fCurEvent - 1, buttons, fSelCRM)
  /\ UNCHANGED <<recoFile, fSelCRM>>

CRP_Selector ==
  /\ viewer = "open"
  /\ \E v \in Views, c \in 0 .. All(recoFile) :
       /\ fSelCRM' = [fSelCRM EXCEPT ![v] = c]
       /\ canvas' = [canvas EXCEPT ![v] = Drawing(graphs[v], c)]
  /\ UNCHANGED <<viewer, recoFile, fCurEvent, buttons, graphs>>

(* the end of the program, by its button or by a crash *)
Exit ==
  /\ viewer # "closed"
  /\ viewer' = "closed" /\ recoFile' = <<>> /\ fCurEvent' = 0 /\ buttons' = {}
  /\ graphs' = <<>> /\ fSelCRM' = <<>> /\ canvas' = <<>>

RecoViewNext == OpenFile \/ NextEvent \/ PrevEvent \/ CRP_Selector \/ Exit

-----------------------------------------------------------------------------
(* The buttons lead to the event before and to the one behind wherever     *)
(* there is one, and never out of the file.  In a file of two events the   *)
(* second one is a dead end: nothing enables prev at the last event.       *)
(* (guiutils/src/RecoViewer.cc:45, "Go to previous event", and :51, "Go to *)
(* next event")                                                            *)
ButtonsLead ==
  viewer = "open" =>
    /\ fCurEvent \in 0 .. fEntries - 1
    /\ "next" \in buttons <=> fCurEvent < fEntries - 1
    /\ "prev" \in buttons <=> fCurEvent > 0 /\ fEntries # 2

(* A canvas shows the event and the CRM that are selected for it: each hit *)
(* of that CRM once, besides points at the origin that stand for earlier   *)
(* hits of other CRMs; and, unless it has no hits, the pieces of every     *)
(* track in that CRM, in which each of the track's hits there occurs once, *)
(* no piece leaving the CRM in between.                                    *)
(* (guiutils/src/RecoViewer.cc, GraphHits, GraphTrackHits and RefreshView) *)
CanvasShowsEvent ==
  viewer = "open" =>
    \A v \in Views :
      LET event == recoFile.events[fCurEvent + 1][v]
          c     == fSelCRM[v]
          mine(is) == Sift(is, {i \in Range(is) : c \in {event.hits[i], All(recoFile)}})
          trks  == IF 0 \in recoFile.tracks /\ v \in recoFile.tracks THEN event.trks ELSE <<>>
          adjacent(p, n) == \E k \in 0 .. Len(trks[n].hits) - Len(p) :
                               SubSeq(trks[n].hits, k + 1, k + Len(p)) = p
      IN  /\ Sift(canvas[v].hits, Range(canvas[v].hits) \ {Origin})
               = mine([i \in DOMAIN event.hits |-> i])
          /\ canvas[v].hits # <<>> =>
               /\ canvas[v].lines = Len(trks)
               /\ FlattenSeq(canvas[v].trkhits)
                    = FlattenSeq([n \in DOMAIN trks |-> mine(trks[n].hits)])
               /\ FlattenSeq(canvas[v].drays)
                    = FlattenSeq([n \in DOMAIN trks |-> mine(trks[n].drays)])
               /\ \A p \in Range(canvas[v].trkhits) : \E n \in DOMAIN trks : adjacent(p, n)

(* Browsing stays inside the file, and what is drawn is the event it has   *)
(* come to.                                                                *)
RecoViewFollows == ButtonsLead /\ CanvasShowsEvent
=============================================================================
