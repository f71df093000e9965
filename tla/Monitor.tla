------------------------------- MODULE Monitor -------------------------------
(***************************************************************************)
(* The online monitor: a task that polls for files and keeps the           *)
(* histograms it read last (montasks/src/MonTask.cc, MonBenchDist.cc), and *)
(* the window that shows one of its items (guiutils/src/DQMonViewer.cc).   *)
(* Both timers fire in the thread of the window, so that a poll is over    *)
(* before the window is refreshed.                                         *)
(***************************************************************************)
EXTENDS FileFetcher

CONSTANTS
  Items,       \* what can be shown: CRP_RecoHits and CRP_RecoTracks
  Holds        \* Holds[f]: items whose histograms file f has when it is whole

ASSUME MonitorAssumption ==
  /\ Holds \in [Files -> SUBSET Items]
  /\ "" \notin Items         \* which stands for no item

Nothing == [file |-> "", version |-> 0]     \* no histogram

VARIABLES
  hist,        \* per item: the file and its version the histograms are from
  fGotData,    \* histograms were read since the last drawing
  item,        \* fActiveViewItem, whose refresh timer runs, or ""
  canvas,      \* [title, shows]: the canvas drawn last and what is left on it
  reads,       \* history: per file, the times its present version was read whole
  hidden       \* history: fGotData was taken back before it was seen

taskVars == <<hist, fGotData, item, canvas, reads, hidden>>
monVars  == <<diskVars, fetchVars, taskVars>>

-----------------------------------------------------------------------------
WorldStep ==
  /\ World
  /\ reads' = [f \in Files |-> IF version'[f] # version[f] THEN 0 ELSE reads[f]]
  /\ UNCHANGED <<hist, fGotData, item, canvas, hidden>>

(* PollData, up to the list of files *)
Search ==
  /\ StartSearch \/ FindNext \/ CallTime \/ EndSearch
  /\ UNCHANGED taskVars

(* Copy deletes the histogram it replaces, also from the canvas.           *)
Blanked(new) ==
  IF canvas.title \in new THEN [canvas EXCEPT !.shows = Nothing] ELSE canvas

(* DoFileRead: a file whose writer has not closed it has no histograms.    *)
(* What was read of the files before it is forgotten, though not the       *)
(* histograms.                                                             *)
ReadFile ==
  LET f   == Head(files)
      new == IF whole[f] THEN Holds[f] ELSE {}
  IN  /\ phase = "reading" /\ files # <<>>
      /\ files' = Tail(files)
      /\ hist' = [i \in Items |-> IF i \in new THEN [file |-> f, version |-> version[f]]
                                  ELSE hist[i]]
      /\ fGotData' = (new # {})
      /\ hidden' = (hidden \/ (fGotData /\ new = {}))
      /\ canvas' = Blanked(new)
      /\ reads' = IF whole[f] THEN [reads EXCEPT ![f] = @ + 1] ELSE reads
      /\ UNCHANGED <<diskVars, lastaccess, phase, lastpoll, passed, timenow, late, slipped,
                     registered, item>>

(* ROOT cannot open a file that is not written yet.  The file it gives is  *)
(* not open, and DoFileRead returns, or there is none, and the test        *)
(* whether it is open ends the program.                                    *)
SkipFile ==
  /\ phase = "reading" /\ files # <<>> /\ ~whole[Head(files)]
  /\ files' = Tail(files)
  /\ UNCHANGED <<diskVars, lastaccess, phase, lastpoll, passed, timenow, late, slipped,
                 registered, taskVars>>

OpenNull ==
  /\ phase = "reading" /\ files # <<>> /\ ~whole[Head(files)]
  /\ phase' = "crashed"
  /\ UNCHANGED <<diskVars, lastaccess, lastpoll, passed, timenow, files, late, slipped,
                 registered, taskVars>>

EndPoll ==
  /\ phase = "reading" /\ files = <<>>
  /\ phase' = "idle"
  /\ UNCHANGED <<diskVars, lastaccess, lastpoll, passed, timenow, files, late, slipped,
                 registered, taskVars>>

(* Bug form of Drawn: a new title is not enough to draw again.             *)
DrawnOnData(i) ==
  IF fGotData THEN [title |-> i, shows |-> hist[i]] ELSE [canvas EXCEPT !.title = i]

(* DoDraw(i): all over if the canvas was another's, or if there are new    *)
(* data; a histogram that does not exist is not drawn.                     *)
Drawn(i) ==
  IF canvas.title # i \/ fGotData THEN [title |-> i, shows |-> hist[i]] ELSE canvas

(* Draw, for the item in view *)
Draw(i) ==
  /\ canvas' = Drawn(i)
  /\ fGotData' = FALSE
  /\ hidden' = (hidden /\ canvas.title = i /\ ~fGotData)
  /\ UNCHANGED <<diskVars, fetchVars, hist, reads>>

(* SelectedItem: an item is opened, and drawn at once *)
SelectedItem(i) ==
  /\ phase = "idle" /\ item # i
  /\ item' = i
  /\ Draw(i)

(* SelectedItem: the item in view is closed, which stops the refresh timer *)
Unselected ==
  /\ phase = "idle" /\ item # ""
  /\ item' = ""
  /\ UNCHANGED <<diskVars, fetchVars, hist, fGotData, canvas, reads, hidden>>

(* RefreshView on the timer *)
RefreshView ==
  /\ phase = "idle" /\ item # ""
  /\ UNCHANGED item
  /\ Draw(item)

(* The user opens another canvas, which becomes the last one; the next     *)
(* drawing goes there.                                                     *)
DoNewCanvas ==
  /\ phase = "idle"
  /\ canvas' = [title |-> "", shows |-> Nothing]
  /\ UNCHANGED <<diskVars, fetchVars, hist, fGotData, item, reads, hidden>>

MonInit ==
  /\ FetchInit
  /\ hist = [i \in Items |-> Nothing] /\ fGotData = FALSE
  /\ item = "" /\ canvas = [title |-> "", shows |-> Nothing]
  /\ reads = [f \in Files |-> 0] /\ hidden = FALSE

MonNext ==
  \/ WorldStep \/ Search \/ ReadFile \/ SkipFile \/ OpenNull \/ EndPoll
  \/ \E i \in Items : SelectedItem(i)
  \/ Unselected \/ RefreshView \/ DoNewCanvas

MonSpec == MonInit /\ [][MonNext]_monVars

-----------------------------------------------------------------------------
(* Between polls every file that was closed since the monitor runs was     *)
(* read as it is now, or will be found by the next search: the time stamp  *)
(* (FileFetcher.cc:242-265) never passes a file that was not read.  The    *)
(* exception is a file that was written behind find before time() was      *)
(* called in a later second.                                               *)
NothingMissed ==
  phase = "idle" =>
    \A f \in Files : whole[f] /\ mtime[f] > registered /\ registered # Never =>
       reads[f] > 0 \/ mtime[f] > lastaccess \/ f \in slipped

(* Cutting the stamp to a second makes a file of that second be found      *)
(* again, and so does a search that was under way for longer than a second *)
(* when the file was written; then the stamp is newer than the file, as    *)
(* long as polls are a second apart.                                       *)
ReadsBounded == \A f \in Files : reads[f] <= 3

(* "new canvas or new data" (MonBenchDist.cc:80) make the canvas be drawn  *)
(* anew: between polls it shows the histograms that were read last, or it  *)
(* will be drawn again.  The exception is a poll whose last files have no  *)
(* histograms, which takes fGotData back (:128) after Copy has deleted     *)
(* what is on the canvas.                                                  *)
ShowsTheLatest ==
  phase = "idle" /\ canvas.title \in Items =>
    canvas.shows = hist[canvas.title] \/ fGotData \/ hidden
=============================================================================
