---------------------------- MODULE EventClient -----------------------------
(***************************************************************************)
(* dlardaq::EventClient (daq/src/EventClient.cc): the thread of the        *)
(* display calls Connect, Stop and the destructor; the dispatch thread     *)
(* runs the callbacks of a periodic timer, of the bufferevents and of      *)
(* SIGINT.  The two share m_connected, m_running and bev without a lock.   *)
(*                                                                         *)
(* A bufferevent is connecting, up, lost (the server closed it: reading    *)
(* just ends, BEV_EVENT_EOF is in neither branch of buffer_eventcb),       *)
(* pinged (lost, and written to, so that an error will come), failed (its  *)
(* error has come but another one was freed in its place) or free.         *)
(***************************************************************************)
EXTENDS Integers, FiniteSets, FiniteSetsExt

CONSTANTS Ports,       \* servers, numbers above 0
          MaxBevs      \* bound: bufferevents that exist at a time

ASSUME ClientAssumption ==
  /\ Ports \subseteq Nat \ {0}
  /\ MaxBevs \in Nat \ {0}

(* What may disturb a behaviour: an attempt to connect may be slower than  *)
(* RCTIMEOUT_SEC, callbacks may run after Stop() has set the flags, SIGINT *)
(* may come.                                                               *)
Disturbances == {"slow", "late", "SIGINT"}

NULL    == 0
Destroy == -1         \* what the program's thread stops for: the destructor,
Nothing == 0          \* nothing more, or (a port) to connect

VARIABLES
  m_running, m_connected,
  m_sin,      \* the port Connect was given, 0 after Cleanup
  bev,        \* the current bufferevent, or NULL
  bevs,       \* the state of every bufferevent
  thread,     \* dispatch thread: none, running, exiting (loopexit), ended
  caller,     \* program's thread: idle, gone, or in Stop(): testing
              \* m_running, stopping the loop, joining the dispatch thread
  after,      \* what it called Stop() for
  serverUp,   \* does a server listen?
  may,        \* the disturbances that may happen in this behaviour
  crashed     \* NULL was used, or ev_base freed under the dispatch thread

envVars == <<serverUp, may>>
appVars == <<caller, after>>
clientVars == <<m_running, m_connected, m_sin, bev, bevs, thread, appVars, envVars, crashed>>

BevIds == 1 .. MaxBevs
In(st) == {b \in BevIds : bevs[b] = st}
Alive  == BevIds \ In("free")

(* event_base_loopexit lets the loop finish what it has found to do. *)
Dispatching == /\ thread = "running" \/ (thread = "exiting" /\ "late" \in may)
               /\ ~crashed

-----------------------------------------------------------------------------
(* the dispatch thread: bufferevents *)
ConnectedEvent(b) ==
  /\ bevs[b] = "connecting" /\ serverUp
  /\ bevs' = [bevs EXCEPT ![b] = "up"]
  /\ m_connected' = TRUE
  /\ UNCHANGED <<m_running, m_sin, bev, thread, appVars, envVars, crashed>>

(* Bug form of RemoveBufEvent: the bufferevent is forgotten, not freed. *)
RemoveBufEventKeeps(b) ==
  /\ bevs' = [bevs EXCEPT ![b] = "failed"]
  /\ crashed' = (bev = NULL)
  /\ bev' = NULL

(* Bug form of RemoveBufEvent: the pointer is not cleared. *)
RemoveBufEventDangles(b) ==
  /\ bevs' = [c \in BevIds |-> IF c = bev THEN "free" ELSE bevs[c]]
  /\ UNCHANGED <<bev, crashed>>

(* removeBufEvent() after an error of b: the current bufferevent is freed, *)
(* which need not be b.                                                    *)
RemoveBufEvent(b) ==
  /\ bevs' = [c \in BevIds |-> CASE c = bev            -> "free"
                                 [] c = b /\ c # bev   -> "failed"
                                 [] OTHER              -> bevs[c]]
  /\ crashed' = (bev = NULL)
  /\ bev' = NULL

ErrorEvent(b) ==
  /\ (bevs[b] = "connecting" /\ ~serverUp) \/ bevs[b] = "pinged"
  /\ RemoveBufEvent(b)
  /\ m_connected' = FALSE
  /\ UNCHANGED <<m_running, m_sin, thread, appVars, envVars>>

(* buffer_readcb of b: readEvent() drains the current bufferevent. *)
ReadEvent(b) ==
  /\ bevs[b] = "up" /\ serverUp
  /\ crashed' = (bev = NULL)
  /\ UNCHANGED <<m_running, m_connected, m_sin, bev, bevs, thread, appVars, envVars>>

(* the dispatch thread: the timer *)
Ping ==
  /\ m_connected
  /\ crashed' = (bev = NULL)
  /\ bevs' = [b \in BevIds |-> IF b = bev /\ bevs[b] = "lost" THEN "pinged" ELSE bevs[b]]
  /\ UNCHANGED <<m_running, m_connected, m_sin, bev, thread, appVars, envVars>>

AddBufEvent ==
  /\ ~m_connected
  /\ In("free") # {}
  /\ LET n == Min(In("free"))
     IN  bev' = n /\ bevs' = [bevs EXCEPT ![n] = "connecting"]
  /\ UNCHANGED <<m_running, m_connected, m_sin, thread, appVars, envVars, crashed>>

(* Bug form of ConnectCb: only pings. *)
ConnectCbPingsOnly ==
  /\ "slow" \in may \/ In("connecting") = {}
  /\ Ping

ConnectCb ==
  /\ "slow" \in may \/ In("connecting") = {}
  /\ Ping \/ AddBufEvent

(* the dispatch thread: SIGINT calls Stop(), also while the program's      *)
(* thread is in it; pthread_join of the calling thread itself returns with *)
(* an error                                                                *)
SignalEvent ==
  /\ "SIGINT" \in may /\ m_running
  /\ m_running' = FALSE /\ m_connected' = FALSE
  /\ thread' = "exiting"
  /\ UNCHANGED <<m_sin, bev, bevs, appVars, envVars, crashed>>

ThreadEnds ==
  /\ thread = "exiting" /\ ~crashed
  /\ thread' = "ended"
  /\ UNCHANGED <<m_running, m_connected, m_sin, bev, bevs, appVars, envVars, crashed>>

BevEvent(b) == Dispatching /\ (ConnectedEvent(b) \/ ErrorEvent(b))

Callbacks == \/ \E b \in BevIds : BevEvent(b) \/ (Dispatching /\ ReadEvent(b))
             \/ Dispatching /\ (ConnectCb \/ SignalEvent)
             \/ ThreadEnds

-----------------------------------------------------------------------------
(* Cleanup() with the thread in state th: what is left of the bufferevents *)
Cleaned == [b \in BevIds |-> CASE b = bev                          -> "free"
                               [] b # bev /\ bevs[b] = "free"      -> "free"
                               [] b # bev /\ bevs[b] # "free"      -> "failed"]

(* Connect() from its call of Cleanup on *)
MakeConnection(port, th) ==
  LET free == {b \in BevIds : Cleaned[b] = "free"}
  IN  /\ free # {}
      /\ crashed' = (th \in {"running", "exiting"})
      /\ m_sin' = port
      /\ m_connected' = TRUE
      /\ bev' = Min(free)
      /\ bevs' = [Cleaned EXCEPT ![Min(free)] = "connecting"]
      /\ thread' = "running"
      /\ m_running' = TRUE
      /\ caller' = "idle" /\ after' = Nothing

(* the destructor from its call of Cleanup on *)
CleanupForGood(th) ==
  /\ crashed' = (th \in {"running", "exiting"})
  /\ m_sin' = 0
  /\ bev' = NULL /\ bevs' = Cleaned
  /\ caller' = "gone" /\ after' = Nothing
  /\ thread' = th
  /\ UNCHANGED <<m_running, m_connected>>

(* Stop() is called, or Connect is about to call it: m_running is still to *)
(* be tested.                                                              *)
CallStop(what) ==
  /\ caller' = "testing" /\ after' = what
  /\ UNCHANGED <<m_running, m_connected, m_sin, bev, bevs, thread, crashed>>

(* Stop() has returned, with the dispatch thread in state th. *)
StopReturned(th) ==
  CASE after = Nothing -> /\ thread' = th /\ caller' = "idle"
                          /\ UNCHANGED <<m_running, m_connected, m_sin, bev, bevs, after,
                                         crashed>>
    [] after \in Ports -> MakeConnection(after, th)
    [] after = Destroy -> CleanupForGood(th)

(* Stop() tests m_running, ... *)
TestRunning ==
  /\ caller = "testing" /\ ~crashed
  /\ IF m_running
       THEN /\ caller' = "stopping"
            /\ UNCHANGED <<m_running, m_connected, m_sin, bev, bevs, thread, after, crashed>>
       ELSE StopReturned(thread)
  /\ UNCHANGED envVars

(* What event_base_loopexit makes of the dispatch thread, which SIGINT may *)
(* have stopped since m_running was tested                                 *)
Exiting == IF thread = "running" THEN "exiting" ELSE thread

(* Bug form of StopLoop: the loop is not told to exit. *)
StopLoopNoExit ==
  /\ caller = "stopping" /\ ~crashed
  /\ m_running' = FALSE /\ m_connected' = FALSE
  /\ caller' = "joining"
  /\ UNCHANGED <<thread, m_sin, bev, bevs, after, crashed, envVars>>

(* Bug form of StopLoop: m_connected stays set. *)
StopLoopKeepsConnected ==
  /\ caller = "stopping" /\ ~crashed
  /\ m_running' = FALSE
  /\ thread' = Exiting
  /\ caller' = "joining"
  /\ UNCHANGED <<m_connected, m_sin, bev, bevs, after, crashed, envVars>>

(* ... clears the flags and lets the loop exit, ... *)
StopLoop ==
  /\ caller = "stopping" /\ ~crashed
  /\ m_running' = FALSE /\ m_connected' = FALSE
  /\ thread' = Exiting
  /\ caller' = "joining"
  /\ UNCHANGED <<m_sin, bev, bevs, after, crashed, envVars>>

(* ... and waits for the dispatch thread. *)
Joined ==
  /\ caller = "joining" /\ thread = "ended" /\ ~crashed
  /\ StopReturned("none")
  /\ UNCHANGED envVars

Refused(port) == m_connected /\ m_sin = port

(* Bug form of Connect: a client that runs is not stopped first. *)
ConnectNoStop(port) ==
  /\ caller = "idle" /\ ~crashed
  /\ ~Refused(port)
  /\ MakeConnection(port, thread)
  /\ UNCHANGED envVars

Connect(port) ==
  /\ caller = "idle" /\ ~crashed
  /\ ~Refused(port)
  /\ IF m_running THEN CallStop(port) ELSE MakeConnection(port, thread)
  /\ UNCHANGED envVars

Stop ==
  /\ caller = "idle" /\ ~crashed
  /\ CallStop(Nothing)
  /\ UNCHANGED envVars

Destructor ==
  /\ caller = "idle" /\ ~crashed
  /\ CallStop(Destroy)
  /\ UNCHANGED envVars

-----------------------------------------------------------------------------
(* The server goes away, or comes (back). *)
ServerGoes ==
  /\ serverUp /\ ~crashed
  /\ serverUp' = FALSE
  /\ bevs' = [b \in BevIds |-> IF bevs[b] = "up" THEN "lost" ELSE bevs[b]]
  /\ UNCHANGED <<m_running, m_connected, m_sin, bev, thread, appVars, may, crashed>>

ServerComes ==
  /\ ~serverUp /\ ~crashed
  /\ serverUp' = TRUE
  /\ UNCHANGED <<m_running, m_connected, m_sin, bev, bevs, thread, appVars, may, crashed>>

-----------------------------------------------------------------------------
ClientInit ==
  /\ m_running = FALSE /\ m_connected = FALSE /\ m_sin = 0
  /\ bev = NULL /\ bevs = [b \in BevIds |-> "free"]
  /\ thread = "none" /\ caller = "idle" /\ after = Nothing
  /\ serverUp = FALSE /\ crashed = FALSE
  /\ may \in SUBSET Disturbances

ClientNext ==
  \/ Callbacks
  \/ \E port \in Ports : Connect(port)
  \/ Stop \/ Destructor
  \/ TestRunning \/ StopLoop \/ Joined
  \/ ServerGoes \/ ServerComes

ClientSpec == ClientInit /\ [][ClientNext]_clientVars

(* libevent reports what happens to a bufferevent and runs the timer; a    *)
(* loop that was told to exit does, and the program's thread goes on in    *)
(* Stop().                                                                 *)
ClientFairness ==
  /\ \A b \in BevIds : WF_clientVars(BevEvent(b))
  /\ WF_clientVars(Dispatching /\ ConnectCb)
  /\ WF_clientVars(ThreadEnds)
  /\ WF_clientVars(TestRunning \/ StopLoop \/ Joined)

FairSpec == ClientSpec /\ ClientFairness

-----------------------------------------------------------------------------
(* Types, and: bev is NULL or a bufferevent that was not freed. *)
ClientTypes ==
  /\ {m_running, m_connected, serverUp, crashed} \subseteq BOOLEAN
  /\ m_sin \in Ports \cup {0}
  /\ bevs \in [BevIds -> {"free", "connecting", "up", "lost", "pinged", "failed"}]
  /\ bev \in Alive \cup {NULL}
  /\ thread \in {"none", "running", "exiting", "ended"}
  /\ caller \in {"idle", "testing", "stopping", "joining", "gone"}
  /\ after \in Ports \cup {Destroy, Nothing}

(* There is one connection, or one attempt at it, at a time and none is    *)
(* left behind: unless an attempt outlasts the timer, which then makes     *)
(* another one and forgets the first, or a callback runs after Stop().     *)
(* (daq/src/EventClient.cc:208, "if it stopped we will get an exception /  *)
(* error which we should catch, close the socket, and try periodically to  *)
(* reconnect")                                                             *)
OneConnection == may \subseteq {"SIGINT"} => Cardinality(Alive) <= 1

(* No callback finds NULL, and the event base is not freed while callbacks *)
(* may still run: as long as nothing disturbs.  After SIGINT, Stop() was   *)
(* called by the dispatch thread, the next Connect or the destructor does  *)
(* not call it again and frees the event base under that thread.           *)
(* (daq/inc/EventClient.h:67, "DO NOT call this function in callbacks as   *)
(* it will delete event_base and cause segfault")                          *)
NoCrash == may = {} => ~crashed

(* A Connect that is refused because there is a connection is refused for  *)
(* one of a client that runs: unless a callback ran late and set           *)
(* m_connected again, then that port is refused for good.                  *)
(* (daq/src/EventClient.cc:70, "already connected on port")                *)
RefusedMeansConnected ==
  ("late" \notin may /\ caller = "idle" /\ \E port \in Ports : Refused(port)) => m_running

(* A client that runs gets to a server that stays up, whatever happened    *)
(* before, until it is stopped.                                            *)
(* (daq/src/EventClient.cc:208, as above)                                  *)
Reconnects ==
  (m_running /\ serverUp)
    ~> (~m_running \/ ~serverUp \/ crashed \/ (bev # NULL /\ bevs[bev] = "up" /\ m_connected))

(* A Stop, also within Connect or the destructor, returns, also when       *)
(* SIGINT stops the client after Stop has tested m_running and before it   *)
(* waits.  (At the bound of bufferevents nothing can be connected any      *)
(* more.)                                                                  *)
(* (daq/src/EventClient.cc, Stop and signal_cb)                            *)
InStop == caller \in {"testing", "stopping", "joining"}
StopReturns == InStop ~> (~InStop \/ crashed \/ In("free") = {})
=============================================================================
