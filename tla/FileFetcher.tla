----------------------------- MODULE FileFetcher -----------------------------
(***************************************************************************)
(* How new files are noticed (utils/src/FileFetcher.cc): find lists the    *)
(* files of a directory that are newer than a time stamp file, and the     *)
(* stamp is then set to the time of the search, cut to a second.  The      *)
(* programs that write the files go on meanwhile.                          *)
(*                                                                         *)
(* Time is counted in ticks, Second of them in a second; a file that is    *)
(* written gets the tick it is written at, which is not the first of a     *)
(* second: that is the instant itself, and file times are finer.           *)
(***************************************************************************)
EXTENDS Integers, SequencesExt

CONSTANTS
  Files,       \* names of files, those that match the product's pattern
  Order,       \* the sequence of Files in which find meets them
  Second,      \* ticks in a second
  PollTime,    \* ticks from one search to the next: seconds (dqmon.cc sets five)
  MaxNow,      \* bound: ticks
  MaxVersions  \* bound, per file: times it is written anew

ASSUME FetcherAssumption ==
  /\ Order \in Seq(Files) /\ Files = Range(Order)
  /\ \A i, j \in DOMAIN Order : Order[i] = Order[j] => i = j
  /\ Second \in Nat \ {0} /\ PollTime \in Nat /\ PollTime >= Second /\ MaxNow \in Nat
  /\ MaxVersions \in [Files -> Nat]

Never == -1

VARIABLES
  now,
  mtime,       \* per file: when it was written last, or Never
  version,     \* per file: times it was written anew
  whole,       \* per file: its writer has closed it
  lastaccess,  \* the time stamp of the product, Never before AddProduct
  phase,       \* "idle", "searching", "reading" what was found, or "crashed"
  lastpoll,    \* when the search started last
  passed,      \* files find has looked at
  timenow,     \* what time() returned, Never before
  files,       \* the files found, in order, not read yet
  late,        \* history: files written after find had passed them and before
               \* time() was called
  slipped,     \* history: those of a second before that of time()
  registered   \* history: the first stamp

diskVars  == <<now, mtime, version, whole>>
fetchVars == <<lastaccess, phase, lastpoll, passed, timenow, files, late, slipped, registered>>

ToSecond(t) == t - (t % Second)
Passed      == {Order[k] : k \in 1 .. passed}

-----------------------------------------------------------------------------
(* The rest of the world *)

Tick == now < MaxNow /\ now' = now + 1 /\ UNCHANGED <<mtime, version, whole, fetchVars>>

Written(f) ==
  /\ now # ToSecond(now)
  /\ mtime' = [mtime EXCEPT ![f] = now]
  /\ late' = IF phase = "searching" /\ timenow = Never /\ f \in Passed
               THEN late \cup {f} ELSE late
  /\ slipped' = slipped \ {f}
  /\ UNCHANGED <<now, lastaccess, phase, lastpoll, passed, timenow, files, registered>>

(* A program opens a file for writing, maybe one that was there before, *)
OpenFile(f) ==
  /\ version[f] < MaxVersions[f]
  /\ version' = [version EXCEPT ![f] = @ + 1]
  /\ whole' = [whole EXCEPT ![f] = FALSE]
  /\ Written(f)

(* and closes it, after its histograms are written. *)
CloseFile(f) ==
  /\ mtime[f] # Never /\ ~whole[f]
  /\ whole' = [whole EXCEPT ![f] = TRUE]
  /\ UNCHANGED version
  /\ Written(f)

World == Tick \/ \E f \in Files : OpenFile(f) \/ CloseFile(f)

-----------------------------------------------------------------------------
(* GetFileList starts find.  The product is registered, with the present   *)
(* time, when it is asked for the first time (MonTask::FilePathFromEnv).   *)
StartSearch ==
  /\ phase = "idle"
  /\ lastpoll = Never \/ now >= lastpoll + PollTime
  /\ lastaccess' = IF lastaccess = Never THEN ToSecond(now) ELSE lastaccess
  /\ registered' = IF lastaccess = Never THEN ToSecond(now) ELSE registered
  /\ phase' = "searching"
  /\ lastpoll' = now /\ passed' = 0 /\ timenow' = Never /\ files' = <<>>
  /\ late' = {}
  /\ UNCHANGED <<diskVars, slipped>>

(* -newer is strict. *)
Newer(f) == mtime[f] > lastaccess

(* find looks at the next file. *)
FindNext ==
  /\ phase = "searching" /\ passed < Len(Order)
  /\ LET f == Order[passed + 1]
     IN  files' = IF Newer(f) THEN Append(files, f) ELSE files
  /\ passed' = passed + 1
  /\ UNCHANGED <<diskVars, lastaccess, phase, lastpoll, timenow, late, slipped, registered>>

(* timenow = time(NULL), while find is running or after it *)
CallTime ==
  /\ phase = "searching" /\ timenow = Never
  /\ timenow' = now
  /\ slipped' = slipped \cup {f \in late : mtime[f] <= ToSecond(now)}
  /\ UNCHANGED <<diskVars, lastaccess, phase, lastpoll, passed, files, late, registered>>

(* Bug form of StampAfter: with the time at which the search ended. *)
StampAfterEnd == IF files # <<>> THEN ToSecond(now) ELSE lastaccess

(* Bug form of StampAfter: the stamp file is not touched. *)
StampKept == lastaccess

(* The stamp is set if something was found. *)
StampAfter == IF files # <<>> THEN ToSecond(timenow) ELSE lastaccess

EndSearch ==
  /\ phase = "searching" /\ passed = Len(Order) /\ timenow # Never
  /\ lastaccess' = StampAfter
  /\ phase' = "reading"
  /\ UNCHANGED <<diskVars, lastpoll, passed, timenow, files, late, slipped, registered>>

FetchInit ==
  /\ now = 0
  /\ mtime = [f \in Files |-> Never] /\ version = [f \in Files |-> 0]
  /\ whole = [f \in Files |-> FALSE]
  /\ lastaccess = Never /\ phase = "idle" /\ lastpoll = Never
  /\ passed = 0 /\ timenow = Never /\ files = <<>> /\ late = {} /\ slipped = {}
  /\ registered = Never
=============================================================================
