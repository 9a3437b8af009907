---------------------------- MODULE NodeThreads ----------------------------
(***************************************************************************)
(* The threads inside one node and what they share: the accept thread, a   *)
(* receive thread for each connection, the ping thread, and the thread     *)
(* that calls stop (Networking/P2PNode.cpp).                               *)
(*                                                                         *)
(*  - A step is what a thread does between two accesses to shared state.   *)
(*    A critical section of m_peerMutex in which the thread waits for      *)
(*    nothing else is one step, taken while nobody holds the mutex; only   *)
(*    stop keeps that mutex from one step to the next.                     *)
(*  - m_cvMutex is taken by the ping thread alone, so it is not a variable;*)
(*    what matters is that the other threads notify without it.            *)
(*  - What a handler does is left open: it may need m_peerMutex, may       *)
(*    throw, and may leave the mempool almost full.                        *)
(*  - send does not block: the receiver's buffers have room.               *)
(***************************************************************************)
EXTENDS Integers, FiniteSets

CONSTANTS
    Conns,      \* connections, each with its receive thread.  Example: {c1, c2}
    AtStart,    \* those that start() itself set up, before anybody can call stop
    acceptor, pinger, stopper,      \* the other threads
    nobody,     \* no thread
    MaxMsgs     \* bound: messages that arrive on a connection

ASSUME ThreadAssumption ==
    /\ IsFiniteSet(Conns) /\ AtStart \subseteq Conns
    /\ acceptor \notin {pinger, stopper, nobody} /\ pinger \notin {stopper, nobody}
    /\ stopper # nobody
    /\ Conns \cap {acceptor, pinger, stopper, nobody} = {}
    /\ MaxMsgs \in Nat

VARIABLES
    running,        \* m_isRunning
    listening,      \* m_listenSocket is open
    paused,         \* m_pausePing
    nearlyFull,     \* the mempool lacks at most one transaction for a block
    peers,          \* keys of m_peers; a peer is named by its connection
    open,           \* the connections whose socket is open
    peerLock,       \* the thread that keeps m_peerMutex
    handlerLock,    \* the thread that holds m_handlerMutex
    pc,             \* pc[t]: where thread t is
    caller,         \* the connection the accept thread is setting up
    left,           \* left[c]: messages still to arrive on c
    thrown          \* history: a handler has thrown and left the pause behind

vars == <<running, listening, paused, nearlyFull, peers, open, peerLock, handlerLock,
          pc, caller, left, thrown>>

Threads == Conns \cup {acceptor, pinger, stopper}
HandlerLabels == {"handle", "touch", "handling"}
ReceiverLabels == HandlerLabels \cup {"unborn", "loop", "recv", "lookup", "pause",
                                      "resume", "notify", "send", "cleanup", "gone"}
AcceptorLabels == HandlerLabels \cup {"loop", "accept", "add", "reply", "gone"}
PingerLabels == {"loop", "gate", "await", "dozing", "asleep", "awake", "collect", "ping", "gone"}
StopperLabels == {"idle", "quit", "joinAccept", "lock", "resume", "notify", "joinPing", "stopped"}
Labels == ReceiverLabels \cup AcceptorLabels \cup PingerLabels \cup StopperLabels

FlagsOK ==
    /\ running \in BOOLEAN /\ listening \in BOOLEAN /\ paused \in BOOLEAN
    /\ nearlyFull \in BOOLEAN /\ thrown \in BOOLEAN

TypeOK ==
    /\ FlagsOK
    /\ peers \subseteq Conns /\ open \subseteq Conns
    /\ peerLock \in Threads \cup {nobody} /\ handlerLock \in Threads \cup {nobody}
    /\ pc \in [Threads -> Labels]
    /\ \A c \in Conns : pc[c] \in ReceiverLabels
    /\ pc[acceptor] \in AcceptorLabels
    /\ pc[pinger] \in PingerLabels
    /\ pc[stopper] \in StopperLabels
    /\ caller \in Conns \cup {nobody}
    /\ left \in [Conns -> 0 .. MaxMsgs]

Go(t, label) == pc' = [pc EXCEPT ![t] = label]
At(t, label) == pc[t] = label

Init ==
    /\ running = TRUE /\ listening = TRUE
    /\ paused = FALSE /\ nearlyFull = FALSE /\ thrown = FALSE
    /\ peers = AtStart /\ open = AtStart
    /\ peerLock = nobody /\ handlerLock = nobody
    /\ pc = [t \in Threads |-> CASE t \in AtStart -> "loop"
                                 [] t \in Conns \ AtStart -> "unborn"
                                 [] t = stopper -> "idle"
                                 [] OTHER -> "loop"]
    /\ caller = nobody
    /\ left = [c \in Conns |-> MaxMsgs]

-----------------------------------------------------------------------------
(* What threads share *)

\* notify_all wakes the ping thread if it sleeps already.
NotifyAll(t, next) ==
    pc' = [pc EXCEPT ![t] = next,
                     ![pinger] = IF @ = "asleep" THEN "await" ELSE @]

\* Slip: the section that looks the sender up ends with the iteration.
LookupKept(c) ==
    /\ peerLock = nobody
    /\ peerLock' = c
    /\ peers' = peers \cup {c}

\* m_peers[author] under m_peerMutex: an unknown author gets an entry.
Lookup(c) ==
    /\ peerLock = nobody
    /\ peers' = peers \cup {c}
    /\ UNCHANGED peerLock

\* Slip: m_handlerMutex is unlocked by hand, and forgotten.
KeepsHandlerLock(t) == UNCHANGED handlerLock

\* lock_guard gives m_handlerMutex back, whether dispatch returns or throws.
FreeHandlerLock(t) == handlerLock' = nobody

\* Slip: the flag stays.
PauseKept == UNCHANGED paused

\* m_pausePing.store(false).
ClearPause == paused' = FALSE

\* dispatch under m_handlerMutex.  Some handlers take m_peerMutex, too.
EnterHandler(t) ==
    /\ At(t, "handle")
    /\ handlerLock = nobody
    /\ handlerLock' = t
    /\ Go(t, "handling") \/ Go(t, "touch")
    /\ UNCHANGED <<running, listening, paused, nearlyFull, peers, open, peerLock, caller,
                   left, thrown>>

\* addPeer, getPeerInfoByID, peersToJson, updatePeersLastContact, ... in a handler.
TouchPeers(t) ==
    /\ At(t, "touch")
    /\ peerLock = nobody
    /\ peers' = IF t = acceptor THEN peers \cup {caller} ELSE peers
    /\ Go(t, "handling")
    /\ UNCHANGED <<running, listening, paused, nearlyFull, open, peerLock, handlerLock,
                   caller, left, thrown>>

-----------------------------------------------------------------------------
(* A receive thread *)

LoopHead(c) ==
    /\ At(c, "loop")
    /\ Go(c, IF running THEN "recv" ELSE "cleanup")
    /\ UNCHANGED <<running, listening, paused, nearlyFull, peers, open, peerLock,
                   handlerLock, caller, left, thrown>>

\* recv returns a message, or nothing because the socket is closed.  What does not
\* parse, and ERROR messages, are dropped; no node sends a second HANDSHAKE.
Recv(c) ==
    /\ At(c, "recv")
    /\ \/ /\ c \in open /\ left[c] > 0
          /\ left' = [left EXCEPT ![c] = @ - 1]
          /\ Go(c, "lookup") \/ Go(c, "loop")
       \/ /\ c \notin open
          /\ Go(c, "cleanup")
          /\ UNCHANGED left
    /\ UNCHANGED <<running, listening, paused, nearlyFull, peers, open, peerLock,
                   handlerLock, caller, thrown>>

\* The sender is looked up and its signature verified; a wrong one drops the message.
Verify(c) ==
    /\ At(c, "lookup")
    /\ Lookup(c)
    /\ Go(c, "pause") \/ Go(c, "loop")
    /\ UNCHANGED <<running, listening, paused, nearlyFull, open, handlerLock, caller,
                   left, thrown>>

PausePinging(c) ==
    /\ At(c, "pause")
    /\ paused' = TRUE
    /\ Go(c, "handle")
    /\ UNCHANGED <<running, listening, nearlyFull, peers, open, peerLock, handlerLock,
                   caller, left, thrown>>

\* The handler returns; or it throws, and the catch block skips resumePinging.
LeaveHandler(c) ==
    /\ At(c, "handling")
    /\ FreeHandlerLock(c)
    /\ nearlyFull' \in BOOLEAN
    /\ \/ Go(c, "resume") /\ UNCHANGED thrown
       \/ Go(c, "loop") /\ thrown' = TRUE
    /\ UNCHANGED <<running, listening, paused, peers, open, peerLock, caller, left>>

ResumePinging(c) ==
    /\ At(c, "resume")
    /\ ClearPause
    /\ thrown' = FALSE
    /\ Go(c, "notify")
    /\ UNCHANGED <<running, listening, nearlyFull, peers, open, peerLock, handlerLock,
                   caller, left>>

NotifyPing(c) ==
    /\ At(c, "notify")
    /\ NotifyAll(c, "send") \/ NotifyAll(c, "loop")
    /\ UNCHANGED <<running, listening, paused, nearlyFull, peers, open, peerLock,
                   handlerLock, caller, left, thrown>>

\* sendMessageTo, for each answer.
SendAnswers(c) ==
    /\ At(c, "send")
    /\ peerLock = nobody
    /\ Go(c, "loop")
    /\ UNCHANGED <<running, listening, paused, nearlyFull, peers, open, peerLock,
                   handlerLock, caller, left, thrown>>

Cleanup(c) ==
    /\ At(c, "cleanup")
    /\ peerLock = nobody
    /\ open' = open \ {c}
    /\ peers' = peers \ {c}
    /\ Go(c, "gone")
    /\ UNCHANGED <<running, listening, paused, nearlyFull, peerLock, handlerLock, caller,
                   left, thrown>>

Receive(c) ==
    \/ LoopHead(c) \/ Recv(c) \/ Verify(c) \/ PausePinging(c)
    \/ EnterHandler(c) \/ TouchPeers(c) \/ LeaveHandler(c)
    \/ ResumePinging(c) \/ NotifyPing(c) \/ SendAnswers(c) \/ Cleanup(c)

-----------------------------------------------------------------------------
(* The accept thread *)

AcceptHead ==
    /\ At(acceptor, "loop")
    /\ Go(acceptor, IF running THEN "accept" ELSE "gone")
    /\ UNCHANGED <<running, listening, paused, nearlyFull, peers, open, peerLock,
                   handlerLock, caller, left, thrown>>

\* Slips: a closed socket is not told from one on which nobody calls; the new
\* connection is not remembered.
AcceptsForEver ==
    /\ At(acceptor, "accept")
    /\ \E c \in Conns :
          /\ At(c, "unborn") /\ c \notin open
          /\ caller' = c /\ open' = open \cup {c}
    /\ Go(acceptor, "handle") \/ Go(acceptor, "loop")
AcceptUnrecorded ==
    /\ At(acceptor, "accept")
    /\ \/ /\ listening
          /\ \E c \in Conns : At(c, "unborn") /\ c \notin open /\ open' = open \cup {c}
          /\ Go(acceptor, "handle") \/ Go(acceptor, "loop")
       \/ ~listening /\ Go(acceptor, "loop") /\ UNCHANGED open
    /\ UNCHANGED caller

\* accept fails because the socket is closed; or it returns a connection, whose first
\* message is a HANDSHAKE, or something else, which is dropped and the socket with it.
Accept ==
    /\ At(acceptor, "accept")
    /\ \/ /\ listening
          /\ \E c \in Conns :
                /\ At(c, "unborn") /\ c \notin open
                /\ caller' = c /\ open' = open \cup {c}
          /\ Go(acceptor, "handle") \/ Go(acceptor, "loop")
       \/ ~listening /\ Go(acceptor, "loop") /\ UNCHANGED <<caller, open>>

AcceptCall ==
    /\ Accept
    /\ UNCHANGED <<running, listening, paused, nearlyFull, peers, peerLock, handlerLock,
                   left, thrown>>

LeaveGreeting ==
    /\ At(acceptor, "handling")
    /\ FreeHandlerLock(acceptor)
    /\ Go(acceptor, "add") \/ Go(acceptor, "loop")
    /\ UNCHANGED <<running, listening, paused, nearlyFull, peers, open, peerLock, caller,
                   left, thrown>>

AddCaller ==
    /\ At(acceptor, "add")
    /\ peerLock = nobody
    /\ peers' = peers \cup {caller}
    /\ Go(acceptor, "reply")
    /\ UNCHANGED <<running, listening, paused, nearlyFull, open, peerLock, handlerLock,
                   caller, left, thrown>>

\* The peer list is sent and the receive thread is detached.
Reply ==
    /\ At(acceptor, "reply")
    /\ peerLock = nobody
    /\ pc' = [pc EXCEPT ![acceptor] = "loop", ![caller] = "loop"]
    /\ UNCHANGED <<running, listening, paused, nearlyFull, peers, open, peerLock,
                   handlerLock, caller, left, thrown>>

AcceptLoop ==
    \/ AcceptHead \/ AcceptCall \/ EnterHandler(acceptor) \/ TouchPeers(acceptor)
    \/ LeaveGreeting \/ AddCaller \/ Reply

-----------------------------------------------------------------------------
(* The ping thread *)

\* While a block is near, the thread spins here and pings nobody.
PingHead ==
    /\ At(pinger, "loop")
    /\ \/ ~running /\ Go(pinger, "gone")
       \/ running /\ ~nearlyFull /\ Go(pinger, "gate")
    /\ UNCHANGED <<running, listening, paused, nearlyFull, peers, open, peerLock,
                   handlerLock, caller, left, thrown>>

\* Paused: wait until resumed.  Otherwise wait_for, which ends after 20 seconds even
\* if the thread is never notified.
Gate ==
    /\ At(pinger, "gate")
    /\ Go(pinger, IF paused THEN "await" ELSE "awake")
    /\ UNCHANGED <<running, listening, paused, nearlyFull, peers, open, peerLock,
                   handlerLock, caller, left, thrown>>

\* wait: the condition is read, and only then does the thread fall asleep.
Await ==
    /\ \/ At(pinger, "await") /\ Go(pinger, IF paused /\ running THEN "dozing" ELSE "awake")
       \/ At(pinger, "dozing") /\ Go(pinger, "asleep")
    /\ UNCHANGED <<running, listening, paused, nearlyFull, peers, open, peerLock,
                   handlerLock, caller, left, thrown>>

Awake ==
    /\ At(pinger, "awake")
    /\ Go(pinger, IF running THEN "collect" ELSE "gone")
    /\ UNCHANGED <<running, listening, paused, nearlyFull, peers, open, peerLock,
                   handlerLock, caller, left, thrown>>

\* Any of the peers may have been silent for a minute.
Collect ==
    /\ At(pinger, "collect")
    /\ peerLock = nobody
    /\ Go(pinger, "loop") \/ (peers # {} /\ Go(pinger, "ping"))
    /\ UNCHANGED <<running, listening, paused, nearlyFull, peers, open, peerLock,
                   handlerLock, caller, left, thrown>>

\* sendMessageTo for the next of peersToPing, until it was the last.
PingPeer ==
    /\ At(pinger, "ping")
    /\ peerLock = nobody
    /\ Go(pinger, "loop")
    /\ UNCHANGED <<running, listening, paused, nearlyFull, peers, open, peerLock,
                   handlerLock, caller, left, thrown>>

PingLoop ==
    PingHead \/ Gate \/ Await \/ Awake \/ Collect \/ PingPeer

-----------------------------------------------------------------------------
(* stop *)

Quit ==
    /\ At(stopper, "idle")
    /\ running' = FALSE
    /\ Go(stopper, "quit")
    /\ UNCHANGED <<listening, paused, nearlyFull, peers, open, peerLock, handlerLock,
                   caller, left, thrown>>

CloseListener ==
    /\ At(stopper, "quit")
    /\ listening' = FALSE
    /\ Go(stopper, "joinAccept")
    /\ UNCHANGED <<running, paused, nearlyFull, peers, open, peerLock, handlerLock,
                   caller, left, thrown>>

JoinAccept ==
    /\ At(stopper, "joinAccept") /\ At(acceptor, "gone")
    /\ Go(stopper, "lock")
    /\ UNCHANGED <<running, listening, paused, nearlyFull, peers, open, peerLock,
                   handlerLock, caller, left, thrown>>

\* m_peerMutex is taken for the rest of the function.
CloseSockets ==
    /\ At(stopper, "lock")
    /\ peerLock = nobody
    /\ peerLock' = stopper
    /\ open' = open \ peers
    /\ peers' = {}
    /\ Go(stopper, "resume")
    /\ UNCHANGED <<running, listening, paused, nearlyFull, handlerLock, caller, left, thrown>>

ResumeToStop ==
    /\ \/ At(stopper, "resume") /\ ClearPause /\ thrown' = FALSE /\ Go(stopper, "notify")
       \/ At(stopper, "notify") /\ NotifyAll(stopper, "joinPing") /\ UNCHANGED <<paused, thrown>>
    /\ UNCHANGED <<running, listening, nearlyFull, peers, open, peerLock, handlerLock,
                   caller, left>>

JoinPing ==
    /\ At(stopper, "joinPing") /\ At(pinger, "gone")
    /\ peerLock' = nobody
    /\ Go(stopper, "stopped")
    /\ UNCHANGED <<running, listening, paused, nearlyFull, peers, open, handlerLock,
                   caller, left, thrown>>

Stop == CloseListener \/ JoinAccept \/ CloseSockets \/ ResumeToStop \/ JoinPing

-----------------------------------------------------------------------------
\* The other end closes a connection that is in use.
PeerCloses(c) ==
    /\ c \in open /\ ~At(c, "unborn")
    /\ open' = open \ {c}
    /\ UNCHANGED <<running, listening, paused, nearlyFull, peers, peerLock, handlerLock,
                   pc, caller, left, thrown>>

Next ==
    \/ \E c \in Conns : Receive(c) \/ PeerCloses(c)
    \/ AcceptLoop \/ PingLoop \/ Quit \/ Stop

Spec == Init /\ [][Next]_vars

\* Every thread that can move does; a caller of accept sends something or hangs up.
\* Nobody has to call stop, and no peer has to close anything.
Fairness ==
    /\ \A c \in Conns : WF_vars(Receive(c))
    /\ WF_vars(AcceptLoop) /\ WF_vars(PingLoop) /\ WF_vars(Stop)

FairSpec == Spec /\ Fairness

-----------------------------------------------------------------------------
(* What must hold *)

\* The thread t waits for: the holder of a mutex it wants, or a thread it joins.
WaitsFor(t) ==
    CASE t = nobody -> nobody
      [] t = stopper /\ At(t, "joinAccept") /\ ~At(acceptor, "gone") -> acceptor
      [] t = stopper /\ At(t, "joinPing") /\ ~At(pinger, "gone") -> pinger
      [] t \in Threads /\ pc[t] = "handle" -> handlerLock
      [] t \in Threads /\ pc[t] \in {"lookup", "touch", "send", "cleanup", "add", "reply",
                                      "collect", "ping", "lock"} -> peerLock
      [] OTHER -> nobody

\* How far a thread is along any chain of waits.
Rank(t) ==
    CASE At(t, "joinAccept") -> 0
      [] At(t, "handle") -> 1
      [] pc[t] \in {"lookup", "touch", "send", "cleanup", "add", "reply"} -> 2
      [] At(t, "joinPing") -> 3
      [] OTHER -> 4

\* No thread waits in a circle, stop and the ping thread apart (P2PNode.cpp:139):
\* handlers nest m_peerMutex inside m_handlerMutex, receive and accept threads take
\* both one after the other, stop joins two threads, and yet every wait is for a
\* thread further along, or for stop, or is that of stop for the ping thread.
WaitsOrdered ==
    \A t \in Threads :
        LET u == WaitsFor(t) IN
            \/ u = nobody
            \/ Rank(t) < Rank(u)
            \/ {t, u} = {stopper, pinger}

\* The threads that have paused pinging and not resumed it.
Pausing == {c \in Conns : pc[c] \in {"handle", "touch", "handling", "resume"}}

\* Pinging is paused because a message is being handled or because a handler threw:
\* of any number of receive threads that pause and resume over each other, the last
\* one to pause still has its resume to come (receiveLoop, pausePinging to
\* resumePinging).
PauseHasOwner == paused => Pausing # {} \/ thrown

\* A message that is accepted is handled to its end, whichever threads compete for
\* the two mutexes and whatever handlers throw, unless stop already waits for the
\* ping thread with m_peerMutex in its hands.
HandlingEnds ==
    \A c \in Conns :
        At(c, "handle") ~> (At(c, "loop") \/ At(stopper, "joinPing"))

\* stop gets past the accept thread, which may be blocked in accept, setting a caller
\* up, or waiting for a mutex when m_isRunning is cleared.
AcceptJoined == At(stopper, "quit") ~> (pc[stopper] \in {"joinPing", "stopped"})

\* A node that is told to stop does stop: pingInactivePeers ends "if shutting down".
StopReturns == At(stopper, "quit") ~> At(stopper, "stopped")
=============================================================================
