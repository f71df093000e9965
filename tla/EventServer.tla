---------------------------- MODULE EventServer -----------------------------
(***************************************************************************)
(* dlardaq::EventServer (daq/src/EventServer.cc): one thread of the        *)
(* program calls Start, Send and Stop, the dispatch thread accepts clients *)
(* and removes broken ones.  m_clients is shared between the two without a *)
(* lock: Send walks through the map while the callbacks change it.         *)
(*                                                                         *)
(* A frame is what one call of Send hands over, numbered in that order; it *)
(* leaves a client's output buffer in two pieces, so that a client may be  *)
(* met with half a frame still to send.                                    *)
(***************************************************************************)
EXTENDS Integers, Sequences, FiniteSets, FiniteSetsExt

CONSTANTS Fds,         \* file descriptors, numbers
          MAXCLIENTS,  \* the server takes no more clients than that
          MaxConns,    \* bound: connections accepted or refused
          MaxFrames    \* bound: the frames from this one on are not told apart

ASSUME ServerAssumption ==
  /\ Fds \subseteq Nat
  /\ MAXCLIENTS \in Nat /\ MaxConns \in Nat /\ MaxFrames \in Nat \ {0}

Idle == -1

VARIABLES
  m_clients,   \* file descriptor -> the connection it belongs to
  m_running,
  output,      \* per connection: pieces in its output buffer
  wire,        \* per connection: pieces its peer was sent, those of the
               \* frames before MaxFrames
  gone,        \* connections whose peer is gone
  conns,       \* connections so far
  frame,       \* calls of Send so far, at most MaxFrames
  it, itConn,  \* Send: the map node it is at, Idle when it is not running
  raced,       \* a client was added while Send was walking through the map
  crashed      \* a map node or client was used after it was freed

dispatchVars == <<m_clients, gone, conns, raced>>
sendVars     == <<frame, it, itConn>>
serverVars   == <<dispatchVars, sendVars, m_running, output, wire, crashed>>

Conns     == 1 .. MaxConns
Clients   == {m_clients[fd] : fd \in DOMAIN m_clients}
Pieces(n) == <<[frame |-> n, part |-> 1], [frame |-> n, part |-> 2]>>

(* what the dispatch thread needs to run a callback *)
Dispatching == m_running /\ ~crashed

-----------------------------------------------------------------------------
(* the program's thread *)
Start == /\ ~m_running /\ it = Idle /\ ~crashed
         /\ m_running' = TRUE
         /\ UNCHANGED <<dispatchVars, sendVars, output, wire, crashed>>

(* Stop() joins the dispatch thread; the clients stay. *)
Stop == /\ m_running /\ it = Idle /\ ~crashed
        /\ m_running' = FALSE
        /\ UNCHANGED <<dispatchVars, sendVars, output, wire, crashed>>

(* The iterator is put on the first client after file descriptor fd.  When *)
(* the tree was rebalanced under it, it may miss clients.                  *)
MoveOn(fd, mayMiss) ==
  LET rest == {g \in DOMAIN m_clients : g > fd}
  IN  \/ \E g \in rest : /\ mayMiss \/ g = Min(rest)
                        /\ it' = g /\ itConn' = m_clients[g]
      \/ /\ rest = {} \/ mayMiss
         /\ it' = Idle /\ itConn' = 0

SendBegin ==
  /\ it = Idle /\ ~crashed
  /\ frame' = IF frame < MaxFrames THEN frame + 1 ELSE frame
  /\ MoveOn(Idle, FALSE)
  /\ raced' = FALSE
  /\ UNCHANGED <<m_clients, gone, conns, m_running, output, wire, crashed>>

(* Bug form of Queued: the frame is queued behind an unfinished one. *)
QueuedAlways(c) == output[c] \o Pieces(frame)

(* Bug form of Queued: what is left of the last frame is thrown away. *)
QueuedOver(c) == Pieces(frame)

(* A client that did not take the last frame yet does not get this one. *)
Queued(c) == IF output[c] = <<>> THEN Pieces(frame) ELSE output[c]

(* One turn of the loop of Send: the buffer is looked at and written under *)
(* its own lock, then the iterator moves on.                               *)
SendOne ==
  /\ it # Idle /\ ~crashed
  /\ IF it \in DOMAIN m_clients /\ m_clients[it] = itConn
       THEN /\ output' = [output EXCEPT ![itConn] = Queued(itConn)]
            /\ MoveOn(it, raced)
            /\ UNCHANGED crashed
       ELSE /\ crashed' = TRUE
            /\ UNCHANGED <<output, it, itConn>>
  /\ UNCHANGED <<dispatchVars, m_running, wire, frame>>

-----------------------------------------------------------------------------
(* Bug form of Full: one client too many. *)
FullLate == Cardinality(DOMAIN m_clients) > MAXCLIENTS

Full == Cardinality(DOMAIN m_clients) = MAXCLIENTS

(* accept_cb: the connection c + 1 on a descriptor that is free *)
Accept(fd) ==
  /\ Dispatching
  /\ conns < MaxConns
  /\ fd \notin DOMAIN m_clients
  /\ conns' = conns + 1
  /\ m_clients' = IF Full
                    THEN m_clients
                    ELSE [g \in DOMAIN m_clients \cup {fd} |->
                            IF g = fd THEN conns + 1 ELSE m_clients[g]]
  /\ raced' = (raced \/ (it # Idle /\ ~Full))
  /\ UNCHANGED <<sendVars, m_running, output, wire, gone, crashed>>

(* A piece is written to the socket. *)
Drain(fd) ==
  /\ Dispatching
  /\ LET c == m_clients[fd]
     IN  /\ output[c] # <<>> /\ c \notin gone
         /\ wire' = IF Head(output[c]).frame < MaxFrames
                      THEN [wire EXCEPT ![c] = Append(@, Head(output[c]))]
                      ELSE wire
         /\ output' = [output EXCEPT ![c] = Tail(@)]
  /\ UNCHANGED <<dispatchVars, sendVars, m_running, crashed>>

(* Bug form of RemoveClient: the client's buffer is not freed. *)
RemoveClientLeaks(fd) ==
  /\ m_clients' = [g \in DOMAIN m_clients \ {fd} |-> m_clients[g]]
  /\ UNCHANGED output

(* Bug form of RemoveClient: the client stays in the map. *)
RemoveClientStays(fd) ==
  /\ output' = [output EXCEPT ![m_clients[fd]] = <<>>]
  /\ UNCHANGED m_clients

RemoveClient(fd) ==
  /\ output' = [output EXCEPT ![m_clients[fd]] = <<>>]
  /\ m_clients' = [g \in DOMAIN m_clients \ {fd} |-> m_clients[g]]

(* buffer_eventcb: writing fails because the peer is gone, or takes longer *)
(* than RWTIMEOUT_SEC because it is slow.  Reading is not enabled, so      *)
(* nothing else tells.                                                     *)
ErrorEvent(fd) ==
  /\ Dispatching
  /\ output[m_clients[fd]] # <<>>
  /\ RemoveClient(fd)
  /\ UNCHANGED <<gone, conns, raced, sendVars, m_running, wire, crashed>>

(* the other side *)
PeerGoes(fd) ==
  /\ m_clients[fd] \notin gone
  /\ gone' = gone \cup {m_clients[fd]}
  /\ UNCHANGED <<m_clients, conns, raced, sendVars, m_running, output, wire, crashed>>

-----------------------------------------------------------------------------
ServerInit ==
  /\ m_clients = [g \in {} |-> 0] /\ m_running = FALSE
  /\ output = [c \in Conns |-> <<>>] /\ wire = [c \in Conns |-> <<>>]
  /\ gone = {} /\ conns = 0
  /\ frame = 0 /\ it = Idle /\ itConn = 0 /\ raced = FALSE
  /\ crashed = FALSE

ServerNext ==
  \/ Start \/ Stop \/ SendBegin \/ SendOne
  \/ \E fd \in Fds : Accept(fd)
  \/ \E fd \in DOMAIN m_clients : Drain(fd) \/ ErrorEvent(fd) \/ PeerGoes(fd)

ServerSpec == ServerInit /\ [][ServerNext]_serverVars

(* The program keeps sending; libevent reports a write to a peer that is   *)
(* gone, which fails or times out.  Nothing is assumed of peers, of        *)
(* accepting, or of Start and Stop.                                        *)
FairSpec ==
  /\ ServerSpec
  /\ WF_serverVars(SendBegin) /\ WF_serverVars(SendOne)
  /\ \A fd \in Fds :
       WF_serverVars(fd \in DOMAIN m_clients /\ m_clients[fd] \in gone /\ ErrorEvent(fd))

-----------------------------------------------------------------------------
(* Never more clients than MAXCLIENTS, each with a connection of its own,  *)
(* never more than one frame waiting for a client, however slow it is, and *)
(* no buffer for one that left: what the server keeps in memory is         *)
(* bounded.                                                                *)
(* (daq/src/EventServer.cc, accept_cb, RemoveClient and Send)              *)
MemoryBounded ==
  /\ Cardinality(DOMAIN m_clients) <= MAXCLIENTS
  /\ \A fd, g \in DOMAIN m_clients : m_clients[fd] = m_clients[g] => fd = g
  /\ \A c \in Conns : Len(output[c]) <= (IF c \in Clients THEN 2 ELSE 0)

(* What a client is sent is whole frames, each later than the one before;  *)
(* only the last may be incomplete.  This is what lets the decoder at the  *)
(* other end find its keys.                                                *)
(* (daq/src/EventServer.cc, Send)                                          *)
WholeFrames ==
  \A c \in Conns : \A i \in DOMAIN wire[c] :
    IF i % 2 = 1
      THEN wire[c][i].part = 1 /\ (i > 1 => wire[c][i].frame > wire[c][i - 1].frame)
      ELSE wire[c][i] = [frame |-> wire[c][i - 1].frame, part |-> 2]

(* A client that is gone gives up its place, as long as the program sends. *)
(* (daq/src/EventServer.cc:327, "ignore broken pipe and and let            *)
(* buffer_eventcb take care of closing disconnected clients")              *)
GoneClientsLeave ==
  \A c \in Conns :
    (c \in Clients /\ c \in gone)
      ~> (c \notin Clients \/ ~m_running \/ crashed)

(* Closing a disconnected client harms nobody.                             *)
(* (daq/src/EventServer.cc:327, the same sentence)                         *)
NoUseAfterFree == ~crashed
=============================================================================
