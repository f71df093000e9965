----------------------------- MODULE RawViewer ------------------------------
(***************************************************************************)
(* The raw event display (guiutils/src/RawViewer.cc) looking at raw data   *)
(* files: its buttons, its playback timer and the decoder underneath,      *)
(* reached through EventDataManager::Open and EventDataManager::GetEvent.  *)
(*                                                                         *)
(* Everything runs in the thread of the graphical interface.  A handler    *)
(* that ends in FetchEvent() leaves `fetching' set and nothing else runs   *)
(* until FetchEvent is done.                                               *)
(***************************************************************************)
EXTENDS EventDecoderFile

CONSTANT MaxSkip      \* bound: the largest playback rate the user picks, the default

(* The bound on requests leaves out no event that a file offers.           *)
ASSUME ViewerAssumption ==
  /\ MaxSkip \in Nat \ {0}
  /\ \A n \in Chance : n <= MaxRequest
  /\ \A f \in Files : Disk[f].foot <= MaxRequest

VARIABLES fCurEvent,  \* the event the viewer is at
          fEntries,   \* GetEntries() of the open file
          fPlayOn,    \* playback is on, the timer runs
          fPlayEnd,   \* playback was clipped to the last event
          fRatePlayback, \* the rate in the entry box
          fSkipEvents,\* playback step
          buttons,    \* the enabled ones of "prev", "next", "play"
          fetching,   \* FetchEvent() is to run next
          shown,      \* [k, ev]: label and event on display
          jumped      \* an event was asked for that is beyond the farthest one
                      \* of this file, and not right after that one

playVars == <<fPlayOn, fPlayEnd, fRatePlayback, fSkipEvents>>
viewVars == <<fCurEvent, fEntries, playVars, buttons, fetching, shown, jumped>>
allVars  == <<vars, viewVars>>

Jumps(k) == k >= Len(m_events) /\ rval # Len(m_events) - 1

Nothing == [k |-> -1, ev |-> NoEvent]
Crashed == [k |-> -2, ev |-> NoEvent]     \* event->... through a null pointer

(* Bug form of ButtonState: off by one at the upper end. *)
ButtonStateOffByOne(cur, entries, play) ==
  {"play"} \cup {b \in {"prev"} : ~play /\ cur >= 1}
           \cup {b \in {"next"} : ~play /\ cur < entries}

(* UpdateEventButtonState(): the buttons at event cur of a file *)
ButtonState(cur, entries, play) ==
  {"play"} \cup {b \in {"prev"} : ~play /\ cur >= 1}
           \cup {b \in {"next"} : ~play /\ cur < entries - 1}

(* Bug form of AfterStep: clipped to the last event again and again. *)
AfterStepClips(cur) ==
  IF cur + fSkipEvents >= fEntries
    THEN [cur |-> fEntries - 1, end |-> TRUE]
    ELSE [cur |-> cur + fSkipEvents, end |-> FALSE]

(* Where playback goes after an event: past the end is first clipped to    *)
(* the last event, so that it is shown, and only then allowed.             *)
AfterStep(cur) ==
  IF cur + fSkipEvents >= fEntries /\ ~fPlayEnd
    THEN [cur |-> fEntries - 1, end |-> TRUE]
    ELSE [cur |-> cur + fSkipEvents, end |-> FALSE]

-----------------------------------------------------------------------------
ViewerInit ==
  /\ Init
  /\ fCurEvent = 0 /\ fEntries = 0
  /\ fPlayOn = FALSE /\ fPlayEnd = FALSE
  /\ fSkipEvents = 1 /\ fRatePlayback = MaxSkip
  /\ buttons = {}
  /\ fetching = FALSE
  /\ shown = Nothing /\ jumped = FALSE

Ready == ~fetching /\ shown # Crashed

(* BrowseFiles() or InputDirectory(): a file is chosen *)
OpenNewFile(f) ==
  /\ Ready
  /\ Open(f)
  /\ fEntries' = m_totev'
  /\ fCurEvent' = 0
  /\ fPlayEnd' = FALSE
  /\ fetching' = (m_totev' # 0)
  /\ fSkipEvents' = IF m_totev' = 0 THEN fSkipEvents ELSE fRatePlayback
  /\ jumped' = FALSE
  /\ UNCHANGED <<fPlayOn, fRatePlayback, buttons, shown>>

NextEvent ==
  /\ Ready
  /\ "next" \in buttons
  /\ fCurEvent' = fCurEvent + 1
  /\ fetching' = TRUE
  /\ UNCHANGED <<vars, fEntries, playVars, buttons, shown, jumped>>

PrevEvent ==
  /\ Ready
  /\ "prev" \in buttons
  /\ fCurEvent' = fCurEvent - 1
  /\ fetching' = TRUE
  /\ UNCHANGED <<vars, fEntries, playVars, buttons, shown, jumped>>

TimerTick ==
  /\ Ready
  /\ fPlayOn
  /\ fetching' = TRUE
  /\ UNCHANGED <<vars, fCurEvent, fEntries, playVars, buttons, shown, jumped>>

PlayEvents ==
  /\ Ready
  /\ "play" \in buttons
  /\ fPlayOn' = ~fPlayOn
  /\ fCurEvent' = CASE ~fPlayOn                         -> fCurEvent + 1
                    [] fPlayOn /\ fCurEvent >= fEntries -> fEntries - 1
                    [] OTHER                            -> fCurEvent
  /\ buttons' = ButtonState(fCurEvent', fEntries, fPlayOn')
  /\ UNCHANGED <<vars, fEntries, fPlayEnd, fRatePlayback, fSkipEvents, fetching,
                 shown, jumped>>

SetPlaybackRate(n) ==
  /\ Ready
  /\ fRatePlayback' = n /\ fSkipEvents' = n
  /\ UNCHANGED <<vars, fCurEvent, fEntries, fPlayOn, fPlayEnd, buttons,
                 fetching, shown, jumped>>

(* the new timer period apart, SetRefreshTime() recomputes the step *)
SetRefreshTime ==
  /\ Ready
  /\ fSkipEvents' = fRatePlayback
  /\ UNCHANGED <<vars, fCurEvent, fEntries, fPlayOn, fPlayEnd, fRatePlayback,
                 buttons, fetching, shown, jumped>>

(* FetchEvent() during playback, past the last event: wait for a new file *)
FetchWaits ==
  /\ fetching
  /\ fPlayOn /\ fCurEvent >= fEntries
  /\ fCurEvent' = fEntries
  /\ fetching' = FALSE
  /\ buttons' = ButtonState(fEntries, fEntries, TRUE)
  /\ UNCHANGED <<vars, fEntries, playVars, shown, jumped>>

(* EventDataManager::GetEvent answers NULL and FetchEvent goes through it *)
FetchNull ==
  /\ fetching
  /\ ~fPlayOn /\ fCurEvent >= fEntries
  /\ shown' = Crashed
  /\ fetching' = FALSE
  /\ UNCHANGED <<vars, fCurEvent, fEntries, playVars, buttons, jumped>>

FetchEvent ==
  /\ fetching
  /\ fCurEvent < fEntries
  /\ GetEvent(fCurEvent)
  /\ shown' = [k |-> fCurEvent, ev |-> IF rval' = -1 THEN NoEvent ELSE m_evh']
  /\ LET next == IF fPlayOn THEN AfterStep(fCurEvent)
                            ELSE [cur |-> fCurEvent, end |-> fPlayEnd]
     IN  /\ fCurEvent' = next.cur
         /\ fPlayEnd' = next.end
         /\ buttons' = ButtonState(next.cur, fEntries, fPlayOn)
  /\ fetching' = FALSE
  /\ jumped' = (jumped \/ Jumps(fCurEvent))
  /\ UNCHANGED <<fEntries, fPlayOn, fRatePlayback, fSkipEvents>>

ViewerNext ==
  \/ \E f \in Files : OpenNewFile(f)
  \/ NextEvent \/ PrevEvent \/ PlayEvents \/ TimerTick
  \/ \E n \in 1 .. MaxSkip : SetPlaybackRate(n)
  \/ SetRefreshTime
  \/ FetchWaits \/ FetchNull \/ FetchEvent

ViewerSpec == ViewerInit /\ [][ViewerNext]_allVars

(* The timer keeps firing while playback is on, and a fetch always ends. *)
ViewerFairness == /\ WF_allVars(TimerTick)
                  /\ WF_allVars(FetchWaits \/ FetchNull \/ FetchEvent)

FairViewerSpec == ViewerSpec /\ ViewerFairness

-----------------------------------------------------------------------------
(* The viewer goes through a null event only on a file without events: on  *)
(* any other one the enabled buttons and the clipping of the playback keep *)
(* fCurEvent inside the file.                                              *)
NullOnlyOnEmptyFile == shown = Crashed => fEntries = 0

(* Playback that is past the first event comes to the end of the file,     *)
(* unless the user stops it or goes to the start of a file.                *)
PlaybackEnds ==
  (fPlayOn /\ shown # Crashed) ~>
    (~fPlayOn \/ fCurEvent >= fEntries \/ fCurEvent = 0)

(* Of a file that its writer had closed, the event on display is the one   *)
(* its label names, as long as every event beyond the farthest one was     *)
(* asked for right after that one: playback that skips events, or that is  *)
(* stopped ahead of what is on display, ends the promise till a file is    *)
(* opened.                                                                 *)
(* (daq/inc/EventDecoder.h:41, "get a given event from file")              *)
ShownAsLabelled ==
  (shown.k >= 0 /\ own /\ ~fetching /\ ~jumped) =>
    shown.ev = EventAt(m_file, shown.k)
=============================================================================
