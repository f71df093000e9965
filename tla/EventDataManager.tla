-------------------------- MODULE EventDataManager --------------------------
(***************************************************************************)
(* The event loop of the offline programs (datautils/src/                  *)
(* EventDataManager.cc, driven as src/recotask.cc drives it): open an      *)
(* input and an output, maybe choose a range of events, then NextEvent()   *)
(* until it returns NULL, the tasks adding their products to every event,  *)
(* and Close().  An entry of the output tree is written when the NEXT      *)
(* event is asked for, so it is made of whatever the shared buffers hold   *)
(* at that time.                                                           *)
(*                                                                         *)
(* Decoder and ROOT trees are used by what they promise: entry k of the    *)
(* open input.  For a raw file that takes a caller that does not jump      *)
(* ahead (see FileReader), which NextEvent is.                             *)
(***************************************************************************)
EXTENDS Integers, Sequences, SequencesExt

CONSTANTS Inputs,      \* input files
          BinInputs,   \* those that are raw data files, the others are ROOT files
          Entries,     \* Entries[f]: events in input f
          Starts,      \* values of `start' the caller may choose
          MaxOpens     \* bound: inputs opened

ASSUME ManagerAssumption ==
  /\ BinInputs \subseteq Inputs
  /\ Entries \in [Inputs -> Nat]
  /\ Starts \subseteq Int /\ MaxOpens \in Nat

NoFile  == "kNOFILE"
BinFile == "kBINFILE"
RooFile == "kROOFILE"
None    == -1

VARIABLES
  fInFileStat, fOutFileStat, fNEvents, fCurEvent, fStartEvLoop, fEventToWrite,
  fEvtHead,    \* the event whose header and samples are in the buffers
  fRecoData,   \* the events whose products are in the output branches
  fAddedBranches,  \* the branches of the tasks' products are made
  fEventBranches,  \* fEvent->fAddedBranches, a copy: those the event takes
  fCut,        \* fEvent->fCut
  fEvTreeOut,  \* the output trees made so far, the current one last
  input,       \* the input opened last
  opens,       \* inputs opened so far
  \* the caller
  inHand,      \* an event was returned and its tasks are still to run
  chosen,      \* the events the caller asked for, [first, past], and whether
               \* it named a start that is inside the input, or none
  given,       \* per output: the events whose tasks ran, with the cut they decided
  atEnd,       \* NextEvent() returned NULL
  looked,      \* outputs that were open while GetEvent was used
  resumed      \* outputs of a raw file that was opened with the loop started

fileVars == <<fInFileStat, fOutFileStat, fEvTreeOut, input, opens>>
loopVars == <<fNEvents, fCurEvent, fStartEvLoop, fEventToWrite>>
dataVars == <<fEvtHead, fRecoData, fCut>>
branVars == <<fAddedBranches, fEventBranches>>
callVars == <<inHand, chosen, given, atEnd, looked, resumed>>
vars     == <<fileVars, loopVars, dataVars, branVars, callVars>>

-----------------------------------------------------------------------------
IsOpen == fInFileStat # NoFile \/ fOutFileStat # NoFile

(* The output trees after EndEvent(): the pending event is filled, or cut. *)
TreeAfterEnd ==
  IF fEventToWrite /\ fOutFileStat = RooFile /\ ~fCut
    THEN Front(fEvTreeOut)
           \o <<Append(Last(fEvTreeOut), [head |-> fEvtHead, reco |-> fRecoData])>>
    ELSE fEvTreeOut

(* Without an output EndEvent only complains, and the event stays pending. *)
PendingAfterEnd == fEventToWrite /\ fOutFileStat # RooFile

(* Bug form of RecoAfterEnd: Clear() is forgotten. *)
RecoAfterEndKept == fRecoData

RecoAfterEnd ==
  IF fEventToWrite /\ fOutFileStat = RooFile /\ fAddedBranches THEN <<>> ELSE fRecoData

(* EndEvent(), called by the program itself *)
EndEvent ==
  /\ ~inHand
  /\ fEvTreeOut' = TreeAfterEnd
  /\ fEventToWrite' = PendingAfterEnd
  /\ fRecoData' = RecoAfterEnd
  /\ UNCHANGED <<fInFileStat, fOutFileStat, input, opens, fNEvents, fCurEvent,
                 fStartEvLoop, fEvtHead, fCut, branVars, callVars>>

(* Whether an event is pending once Close() is done. *)
PendingAfterClose == IF fOutFileStat = NoFile THEN fEventToWrite ELSE PendingAfterEnd

(* The output trees after Close(), which ends the pending event first. *)
TreeAfterClose == IF fOutFileStat = NoFile THEN fEvTreeOut ELSE TreeAfterEnd

Close ==
  /\ ~inHand
  /\ IsOpen
  /\ fInFileStat' = NoFile /\ fOutFileStat' = NoFile
  /\ fEvTreeOut' = TreeAfterClose
  /\ fEventToWrite' = PendingAfterClose
  /\ fRecoData' = <<>> /\ fAddedBranches' = FALSE
  /\ UNCHANGED <<input, opens, fNEvents, fCurEvent, fStartEvLoop, fEvtHead, fCut,
                 fEventBranches, callVars>>

(* what a caller gets who does not choose *)
All(f) == [first |-> 0, past |-> Entries[f], inside |-> TRUE]

(* OpenRootInput resets the loop, OpenBinaryInput does not.  What was open *)
(* is closed first, and its branches are gone.                             *)
OpenInput(f) ==
  /\ ~inHand
  /\ opens < MaxOpens
  /\ opens' = opens + 1
  /\ input' = f
  /\ fNEvents' = Entries[f]
  /\ IF f \in BinInputs
       THEN fInFileStat' = BinFile /\ UNCHANGED <<fCurEvent, fStartEvLoop>>
       ELSE fInFileStat' = RooFile /\ fCurEvent' = 0 /\ fStartEvLoop' = FALSE
  /\ inHand' = FALSE /\ atEnd' = FALSE
  /\ chosen' = All(f)
  /\ fAddedBranches' = FALSE
  /\ UNCHANGED <<fEvtHead, fCut, fEventBranches, looked>>

(* Open(finput) *)
OpenRead(f) ==
  /\ OpenInput(f)
  /\ fOutFileStat' = NoFile
  /\ fEvTreeOut' = TreeAfterClose
  /\ fEventToWrite' = PendingAfterClose
  /\ fRecoData' = <<>>
  /\ UNCHANGED <<given, resumed>>

(* Open(finput, foutput): the output is created anew *)
OpenReadWrite(f) ==
  /\ OpenInput(f)
  /\ fOutFileStat' = RooFile
  /\ fEvTreeOut' = Append(TreeAfterClose, <<>>)
  /\ given' = Append(given, <<>>)
  /\ fEventToWrite' = FALSE
  /\ fRecoData' = <<>>
  /\ resumed' = IF f \in BinInputs /\ fStartEvLoop THEN resumed \cup {Len(given) + 1}
                                                    ELSE resumed

(* RegisterDataProduct(brnames), once per output, as the tasks do when     *)
(* they are made; a started loop only makes it complain.                   *)
RegisterDataProduct ==
  /\ fOutFileStat # NoFile /\ ~inHand
  /\ ~fAddedBranches
  /\ fAddedBranches' = TRUE
  /\ UNCHANGED <<fileVars, loopVars, dataVars, fEventBranches, callVars>>

(* What a caller who reads the comment on ProcessSubSample expects of it:  *)
(* n events from start, or from 0; all up to the end unless 0 < n is less. *)
Asked(start, n) ==
  LET inside == start \in 0 .. fNEvents - 1
      first  == IF inside THEN start ELSE 0
  IN  [first  |-> first,
       past   |-> IF n > 0 /\ first + n < fNEvents THEN first + n ELSE fNEvents,
       inside |-> inside]

(* Bug form of LastSelected: one event too few. *)
LastSelectedShort(cur, n) == IF n > 0 /\ cur + n < fNEvents THEN cur + n - 1 ELSE fNEvents

LastSelected(cur, n) == IF n > 0 /\ cur + n < fNEvents THEN cur + n ELSE fNEvents

(* ProcessSubSample(start, n), which recotask calls right after Open *)
ProcessSubSample(start, n) ==
  /\ IsOpen /\ ~inHand
  /\ ~fStartEvLoop                    \* otherwise it complains and returns
  /\ chosen = All(input)
  /\ LET cur == IF start \in 0 .. fNEvents - 1 THEN start ELSE fCurEvent
     IN  fCurEvent' = cur /\ fNEvents' = LastSelected(cur, n)
  /\ chosen' = Asked(start, n)
  /\ UNCHANGED <<fileVars, fStartEvLoop, fEventToWrite, dataVars, branVars, inHand, given, atEnd,
                 looked, resumed>>

NoMore(cur) == cur >= fNEvents

(* The event takes the branches there are when the loop starts.  Who       *)
(* writes has registered the products by then.                             *)
NextEvent ==
  /\ fInFileStat # NoFile /\ ~inHand /\ ~atEnd
  /\ fOutFileStat # NoFile => fAddedBranches
  /\ fStartEvLoop' = TRUE
  /\ fEventBranches' = IF fStartEvLoop THEN fEventBranches ELSE fAddedBranches
  /\ fEvTreeOut' = TreeAfterEnd
  /\ fRecoData' = RecoAfterEnd
  /\ LET cur == IF ~fStartEvLoop /\ fCurEvent < 0 THEN 0 ELSE fCurEvent
     IN  IF NoMore(cur)
           THEN /\ fCurEvent' = cur
                /\ fEventToWrite' = PendingAfterEnd
                /\ atEnd' = TRUE
                /\ UNCHANGED <<fEvtHead, inHand>>
           ELSE /\ fCurEvent' = cur + 1
                /\ fEventToWrite' = TRUE
                /\ fEvtHead' = cur
                /\ inHand' = TRUE
                /\ UNCHANGED atEnd
  /\ UNCHANGED <<fInFileStat, fOutFileStat, input, opens, fNEvents, fCut, fAddedBranches,
                 chosen, given, looked, resumed>>

(* The tasks: Event::Add for their products, which drops those whose       *)
(* branch the event does not know, Event::SetCut.  Who reads only looks at *)
(* the event.                                                              *)
RunTasks(cut) ==
  /\ inHand
  /\ inHand' = FALSE
  /\ IF fOutFileStat = NoFile
       THEN UNCHANGED <<fRecoData, fCut, given>>
       ELSE /\ fRecoData' = IF fEventBranches THEN Append(fRecoData, fEvtHead) ELSE fRecoData
            /\ fCut' = cut
            /\ given' = Front(given)
                          \o <<Append(Last(given), [ev |-> fEvtHead, cut |-> cut])>>
  /\ UNCHANGED <<fileVars, loopVars, fEvtHead, branVars, chosen, atEnd, looked, resumed>>

(* GetEvent(ev), a look at the next event or at one before it *)
GetEvent(ev) ==
  /\ fInFileStat # NoFile /\ ~inHand
  /\ fOutFileStat = NoFile \/ Len(given) \notin looked   \* bound: once per output
  /\ ev < fNEvents
  /\ fCurEvent' = ev
  /\ fEvtHead' = ev
  /\ looked' = IF fOutFileStat = NoFile THEN looked ELSE looked \cup {Len(given)}
  /\ UNCHANGED <<fileVars, fNEvents, fStartEvLoop, fEventToWrite, fRecoData, fCut, branVars,
                 inHand, chosen, given, atEnd, resumed>>

-----------------------------------------------------------------------------
Init ==
  /\ fInFileStat = NoFile /\ fOutFileStat = NoFile
  /\ fNEvents = 0 /\ fCurEvent = None
  /\ fStartEvLoop = FALSE /\ fEventToWrite = FALSE
  /\ fEvtHead = None /\ fRecoData = <<>> /\ fCut = FALSE
  /\ fAddedBranches = FALSE /\ fEventBranches = FALSE
  /\ fEvTreeOut = <<>> /\ input \in Inputs /\ opens = 0
  /\ inHand = FALSE /\ atEnd = FALSE
  /\ chosen = [first |-> 0, past |-> 0, inside |-> TRUE] /\ given = <<>>
  /\ looked = {} /\ resumed = {}

Next ==
  \/ \E f \in Inputs : OpenRead(f) \/ OpenReadWrite(f)
  \/ \E s \in Starts, n \in {None} \cup 1 .. Entries[input] : ProcessSubSample(s, n)
  \/ RegisterDataProduct
  \/ NextEvent
  \/ \E cut \in BOOLEAN : RunTasks(cut)
  \/ \E ev \in {0} \cup 0 .. fCurEvent : GetEvent(ev)
  \/ EndEvent
  \/ Close

Spec == Init /\ [][Next]_vars

-----------------------------------------------------------------------------
(* An output holds the events that were not cut, once, in order and each   *)
(* with its own products only, or with what is in `without' instead: entry *)
(* i is of event at[i] of those that were processed.                       *)
Kept(tree, processed, without) ==
  \E at \in [DOMAIN tree -> DOMAIN processed] :
    /\ \A i, j \in DOMAIN tree : i < j => at[i] < at[j]
    /\ {at[i] : i \in DOMAIN tree} = {k \in DOMAIN processed : ~processed[k].cut}
    /\ \A i \in DOMAIN tree :
         /\ tree[i].head = processed[at[i]].ev
         /\ tree[i].reco \in {<<processed[at[i]].ev>>} \cup without

(* An output of a raw file that found the loop started may have entries    *)
(* without products.                                                       *)
Without(i) == IF i \in resumed THEN {<<>>} ELSE {}

(* Every output keeps the events that were processed; the last event of    *)
(* the open output may still be pending, that of a closed one may not.     *)
(* Their products are never those of another event, and they are all there *)
(* unless the input was a raw file opened after the loop was started       *)
(* (ProductsKept).  An output that was open while GetEvent moved the       *)
(* shared buffers is promised nothing: the pending event is written with   *)
(* what was looked at.                                                     *)
(* (datautils/src/EventDataManager.cc, NextEvent, EndEvent and Close;      *)
(* datautils/inc/EventDataManager.h:183, "use this function to move        *)
(* through events in Read-only mode")                                      *)
OutputFollows ==
  \A i \in DOMAIN given \ looked :
    \/ Kept(fEvTreeOut[i], given[i], Without(i))
    \/ /\ i = Len(given) /\ fOutFileStat # NoFile /\ fEventToWrite /\ ~inHand
       /\ given[i] # <<>> /\ Kept(fEvTreeOut[i], Front(given[i]), Without(i))

(* What a task adds to an event is in the entry that is written.  The code *)
(* does not keep this: a raw file opened after the loop was started leaves *)
(* the event with the branches of the loop before, which are none when     *)
(* that only read, and Event::Add drops the products.                      *)
(* (datautils/src/EventDataManager.cc:704; datautils/inc/                  *)
(* EventDataManager.h:68, "add data to the branch arrays")                 *)
ProductsKept ==
  \A i \in DOMAIN fEvTreeOut \ looked :
    \A k \in DOMAIN fEvTreeOut[i] : fEvTreeOut[i][k].reco = <<fEvTreeOut[i][k].head>>

(* The tasks have seen exactly the events that were asked for. *)
SeenAsAsked ==
  LET seen == Last(given)
  IN  [i \in DOMAIN seen |-> seen[i].ev]
        = [i \in 1 .. chosen.past - chosen.first |-> chosen.first + i - 1]

(* When NextEvent returns NULL the tasks have seen exactly the events that *)
(* were asked for.  A raw file keeps this promise only as the first input, *)
(* because opening it does not reset the loop, and only for a start inside *)
(* the file, because any other one leaves fCurEvent at -1.                 *)
(* (datautils/src/EventDataManager.cc:346, "evstart = -1, nev = -1 will    *)
(* defaults to process all events", and :355, "default values are ...      *)
(* fCurEvent = 0")                                                         *)
AllSelected ==
  (/\ atEnd /\ fOutFileStat # NoFile /\ Len(given) \notin looked
   /\ input \in BinInputs => opens = 1 /\ chosen.inside) => SeenAsAsked
=============================================================================
