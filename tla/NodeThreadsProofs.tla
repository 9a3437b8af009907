------------------------- MODULE NodeThreadsProofs -------------------------
(***************************************************************************)
(* Theorems about the threads of a node, for any number of connections:    *)
(* the machine-checked counterpart of the run node_threads.                *)
(***************************************************************************)
EXTENDS NodeThreads, TLAPS

\* The connection the accept thread is setting up has no receive thread yet.
CallerUnborn ==
    pc[acceptor] \in HandlerLabels \cup {"add", "reply"} =>
        caller \in Conns /\ pc[caller] = "unborn"

\* Who holds m_handlerMutex is in a handler.
HandlerHeld ==
    handlerLock # nobody =>
        handlerLock \in Conns \cup {acceptor} /\ pc[handlerLock] \in {"touch", "handling"}

\* Only stop keeps m_peerMutex, from the closing of the sockets to its end.
PeerHeld ==
    /\ peerLock \in {nobody, stopper}
    /\ peerLock = stopper <=> pc[stopper] \in {"resume", "notify", "joinPing"}

\* TypeOK without its flags, which the SMT solver and Zenon are given separately.
Shape ==
    /\ peers \subseteq Conns /\ open \subseteq Conns
    /\ pc \in [Threads -> Labels]
    /\ \A c \in Conns : pc[c] \in ReceiverLabels
    /\ pc[acceptor] \in AcceptorLabels
    /\ pc[pinger] \in PingerLabels
    /\ pc[stopper] \in StopperLabels
    /\ caller \in Conns \cup {nobody}
    /\ left \in [Conns -> 0 .. MaxMsgs]

LockInv == Shape /\ CallerUnborn /\ HandlerHeld /\ PeerHeld

-----------------------------------------------------------------------------
(* The mutexes *)

\* A receive thread.
LEMMA ReceiveKeepsLocks ==
  ASSUME LockInv, NEW c \in Conns, Receive(c)
  PROVE  LockInv'
  <1> USE ThreadAssumption DEF LockInv, Shape, CallerUnborn, HandlerHeld, PeerHeld, Go, At,
        Threads, Labels, ReceiverLabels, AcceptorLabels, PingerLabels, StopperLabels,
        HandlerLabels
  <1>1. CASE LoopHead(c)
    BY <1>1 DEF LoopHead
  <1>2. CASE Recv(c)
    BY <1>2 DEF Recv
  <1>3. CASE Verify(c)
    BY <1>3 DEF Verify, Lookup
  <1>4. CASE PausePinging(c)
    BY <1>4 DEF PausePinging
  <1>5. CASE EnterHandler(c)
    BY <1>5 DEF EnterHandler
  <1>6. CASE TouchPeers(c)
    BY <1>6 DEF TouchPeers
  <1>7. CASE LeaveHandler(c)
    BY <1>7 DEF LeaveHandler, FreeHandlerLock
  <1>8. CASE ResumePinging(c)
    BY <1>8 DEF ResumePinging
  <1>9. CASE NotifyPing(c)
    BY <1>9 DEF NotifyPing, NotifyAll
  <1>10. CASE SendAnswers(c)
    BY <1>10 DEF SendAnswers
  <1>11. CASE Cleanup(c)
    BY <1>11 DEF Cleanup
  <1> QED
    BY <1>1, <1>2, <1>3, <1>4, <1>5, <1>6, <1>7, <1>8, <1>9, <1>10, <1>11 DEF Receive

\* The accept thread.
LEMMA AcceptKeepsLocks ==
  ASSUME LockInv, AcceptLoop
  PROVE  LockInv'
  <1> USE ThreadAssumption DEF LockInv, Shape, CallerUnborn, HandlerHeld, PeerHeld, Go, At,
        Threads, Labels, ReceiverLabels, AcceptorLabels, PingerLabels, StopperLabels,
        HandlerLabels
  <1>1. CASE AcceptHead
    BY <1>1 DEF AcceptHead
  <1>2. CASE AcceptCall
    BY <1>2 DEF AcceptCall, Accept
  <1>3. CASE EnterHandler(acceptor)
    BY <1>3 DEF EnterHandler
  <1>4. CASE TouchPeers(acceptor)
    BY <1>4 DEF TouchPeers
  <1>5. CASE LeaveGreeting
    BY <1>5 DEF LeaveGreeting, FreeHandlerLock
  <1>6. CASE AddCaller
    BY <1>6 DEF AddCaller
  <1>7. CASE Reply
    BY <1>7 DEF Reply
  <1> QED
    BY <1>1, <1>2, <1>3, <1>4, <1>5, <1>6, <1>7 DEF AcceptLoop

\* The ping thread.
LEMMA PingKeepsLocks ==
  ASSUME LockInv, PingLoop
  PROVE  LockInv'
  <1> USE ThreadAssumption DEF LockInv, Shape, CallerUnborn, HandlerHeld, PeerHeld, Go, At,
        Threads, Labels, ReceiverLabels, AcceptorLabels, PingerLabels, StopperLabels,
        HandlerLabels
  <1>1. CASE PingHead
    BY <1>1 DEF PingHead
  <1>2. CASE Gate
    BY <1>2 DEF Gate
  <1>3. CASE Await
    BY <1>3 DEF Await
  <1>4. CASE Awake
    BY <1>4 DEF Awake
  <1>5. CASE Collect
    BY <1>5 DEF Collect
  <1>6. CASE PingPeer
    BY <1>6 DEF PingPeer
  <1> QED
    BY <1>1, <1>2, <1>3, <1>4, <1>5, <1>6 DEF PingLoop

\* stop.
LEMMA StopKeepsLocks ==
  ASSUME LockInv, Stop
  PROVE  LockInv'
  <1> USE ThreadAssumption DEF LockInv, Shape, CallerUnborn, HandlerHeld, PeerHeld, Go, At,
        Threads, Labels, ReceiverLabels, AcceptorLabels, PingerLabels, StopperLabels,
        HandlerLabels
  <1>1. CASE CloseListener
    BY <1>1 DEF CloseListener
  <1>2. CASE JoinAccept
    BY <1>2 DEF JoinAccept
  <1>3. CASE CloseSockets
    BY <1>3 DEF CloseSockets
  <1>4. CASE ResumeToStop
    BY <1>4 DEF ResumeToStop, NotifyAll
  <1>5. CASE JoinPing
    BY <1>5 DEF JoinPing
  <1> QED
    BY <1>1, <1>2, <1>3, <1>4, <1>5 DEF Stop

\* The mutexes are held as HandlerHeld and PeerHeld say in every reachable state.
LEMMA LocksHeld == Spec => []LockInv
  <1>1. Init => LockInv
    BY ThreadAssumption
    DEF Init, LockInv, Shape, CallerUnborn, HandlerHeld, PeerHeld, Threads, Labels,
        ReceiverLabels, AcceptorLabels, PingerLabels, StopperLabels, HandlerLabels
  <1>2. LockInv /\ [Next]_vars => LockInv'
    <2> SUFFICES ASSUME LockInv, [Next]_vars PROVE LockInv'
      OBVIOUS
    <2>1. CASE \E c \in Conns : Receive(c)
      BY <2>1, ReceiveKeepsLocks
    <2>2. CASE \E c \in Conns : PeerCloses(c)
      BY <2>2 DEF PeerCloses, LockInv, Shape, CallerUnborn, HandlerHeld, PeerHeld
    <2>3. CASE AcceptLoop
      BY <2>3, AcceptKeepsLocks
    <2>4. CASE PingLoop
      BY <2>4, PingKeepsLocks
    <2>5. CASE Quit
      BY <2>5, ThreadAssumption
      DEF Quit, LockInv, Shape, CallerUnborn, HandlerHeld, PeerHeld, Go, At, Threads, Labels,
          StopperLabels
    <2>6. CASE Stop
      BY <2>6, StopKeepsLocks
    <2>7. CASE UNCHANGED vars
      BY <2>7 DEF vars, LockInv, Shape, CallerUnborn, HandlerHeld, PeerHeld
    <2> QED
      BY <2>1, <2>2, <2>3, <2>4, <2>5, <2>6, <2>7 DEF Next
  <1> QED
    BY <1>1, <1>2, PTL DEF Spec

\* No circle of waits but that of stop and the ping thread: along every other wait,
\* threads come ever closer to giving back what they hold.
THEOREM NoOtherCircle == Spec => []WaitsOrdered
  <1>1. LockInv => WaitsOrdered
    <2> SUFFICES ASSUME LockInv, NEW t \in Threads, WaitsFor(t) # nobody
                 PROVE  \/ Rank(t) < Rank(WaitsFor(t))
                        \/ {t, WaitsFor(t)} = {stopper, pinger}
      BY DEF WaitsOrdered
    <2> USE ThreadAssumption DEF LockInv, Shape, Threads, At, ReceiverLabels, AcceptorLabels,
            PingerLabels, StopperLabels, HandlerLabels
    <2>1. t # nobody
      OBVIOUS
    <2>2. CASE t = stopper /\ At(t, "joinAccept")
      BY <2>1, <2>2 DEF WaitsFor, Rank
    <2>3. CASE t = stopper /\ At(t, "joinPing")
      BY <2>1, <2>3 DEF WaitsFor
    <2>4. CASE t # stopper /\ pc[t] = "handle"
      BY <2>1, <2>4 DEF WaitsFor, Rank, HandlerHeld
    <2>5. CASE pc[t] \in {"lookup", "touch", "send", "cleanup", "add", "reply"}
      BY <2>1, <2>5 DEF WaitsFor, Rank, PeerHeld
    <2>6. CASE pc[t] \in {"collect", "ping"}
      <3>1. t = pinger
        BY <2>6
      <3> QED
        BY <3>1, <2>1, <2>6 DEF WaitsFor, PeerHeld
    <2>7. CASE pc[t] = "lock"
      <3>1. t = stopper
        BY <2>7
      <3> QED
        BY <3>1, <2>1, <2>7 DEF WaitsFor, PeerHeld
    <2> QED
      BY <2>1, <2>2, <2>3, <2>4, <2>5, <2>6, <2>7 DEF WaitsFor
  <1> QED
    BY <1>1, LocksHeld, PTL

-----------------------------------------------------------------------------
(* The pause *)

\* What PauseHasOwner needs of a step that neither pauses nor resumes: no thread
\* leaves the section between.
LEMMA PauseKeptOwner ==
  ASSUME PauseHasOwner, UNCHANGED <<paused, thrown>>, Pausing \subseteq Pausing'
  PROVE  PauseHasOwner'
  BY DEF PauseHasOwner

\* Only the thread that moves can leave the section, by its own pc.
LEMMA OwnMove ==
  ASSUME LockInv, NEW c \in Conns, NEW label \in {"touch", "handling", "resume"},
         pc' = [pc EXCEPT ![c] = label]
  PROVE  Pausing \subseteq Pausing'
  BY DEF Pausing, LockInv, Shape, Threads

\* The same for a thread outside the section.
LEMMA OutsideMove ==
  ASSUME LockInv, NEW t \in Threads, t \notin Pausing, NEW label,
         \/ pc' = [pc EXCEPT ![t] = label]
         \/ NotifyAll(t, label)
  PROVE  Pausing \subseteq Pausing'
  BY ThreadAssumption DEF Pausing, LockInv, Shape, Threads, NotifyAll

LEMMA ReceiveKeepsPause ==
  ASSUME LockInv, PauseHasOwner, NEW c \in Conns, Receive(c)
  PROVE  PauseHasOwner'
  <1>1. CASE PausePinging(c)
    <2>1. c \in Pausing'
      BY <1>1 DEF PausePinging, Go, At, Pausing, LockInv, Shape, Threads
    <2> QED
      BY <2>1 DEF PauseHasOwner
  <1>2. CASE LeaveHandler(c) /\ Go(c, "loop")
    <2>1. thrown'
      BY <1>2 DEF LeaveHandler, Go, LockInv, Shape, Threads
    <2> QED
      BY <2>1 DEF PauseHasOwner
  <1>3. CASE LeaveHandler(c) /\ Go(c, "resume")
    <2>1. UNCHANGED <<paused, thrown>>
      BY <1>3 DEF LeaveHandler, Go, LockInv, Shape, Threads
    <2> QED
      BY <1>3, <2>1, OwnMove, PauseKeptOwner DEF Go
  <1>4. CASE EnterHandler(c) \/ TouchPeers(c)
    <2>1. UNCHANGED <<paused, thrown>> /\ (Go(c, "touch") \/ Go(c, "handling"))
      BY <1>4 DEF EnterHandler, TouchPeers
    <2> QED
      BY <2>1, OwnMove, PauseKeptOwner DEF Go
  <1>5. CASE ResumePinging(c)
    BY <1>5 DEF ResumePinging, ClearPause, PauseHasOwner
  <1>6. CASE LoopHead(c) \/ Recv(c) \/ Verify(c) \/ NotifyPing(c) \/ SendAnswers(c) \/ Cleanup(c)
    <2>1. c \in Threads /\ c \notin Pausing
      BY <1>6, ThreadAssumption
      DEF LoopHead, Recv, Verify, NotifyPing, SendAnswers, Cleanup, At, Pausing, Threads
    <2>2. PICK label : Go(c, label) \/ NotifyAll(c, label)
      BY <1>6 DEF LoopHead, Recv, Verify, NotifyPing, SendAnswers, Cleanup
    <2>3. Pausing \subseteq Pausing'
      BY <2>1, <2>2, OutsideMove DEF Go
    <2>4. UNCHANGED <<paused, thrown>>
      BY <1>6 DEF LoopHead, Recv, Verify, NotifyPing, SendAnswers, Cleanup
    <2> QED
      BY <2>3, <2>4, PauseKeptOwner
  <1> QED
    BY <1>1, <1>2, <1>3, <1>4, <1>5, <1>6 DEF Receive, LeaveHandler

\* The accept, ping and stopping threads are never in the section.
LEMMA OthersKeepPause ==
  ASSUME LockInv, PauseHasOwner, AcceptLoop \/ PingLoop \/ Quit \/ Stop
  PROVE  PauseHasOwner'
  <1>1. CASE AcceptLoop /\ ~Reply
    <2>1. PICK label : Go(acceptor, label)
      BY <1>1 DEF AcceptLoop, AcceptHead, AcceptCall, Accept, EnterHandler, TouchPeers,
                  LeaveGreeting, AddCaller
    <2>2. UNCHANGED <<paused, thrown>>
      BY <1>1 DEF AcceptLoop, AcceptHead, AcceptCall, EnterHandler, TouchPeers,
                  LeaveGreeting, AddCaller
    <2>3. acceptor \in Threads /\ acceptor \notin Pausing
      BY ThreadAssumption DEF Threads, Pausing
    <2> QED
      BY <2>1, <2>2, <2>3, OutsideMove, PauseKeptOwner DEF Go
  <1>2. CASE Reply
    <2>1. Pausing \subseteq Pausing'
      BY <1>2, ThreadAssumption
      DEF Reply, Pausing, LockInv, Shape, CallerUnborn, Threads, At, HandlerLabels
    <2> QED
      BY <1>2, <2>1, PauseKeptOwner DEF Reply
  <1>3. CASE PingLoop
    <2>1. PICK label : Go(pinger, label)
      BY <1>3 DEF PingLoop, PingHead, Gate, Await, Awake, Collect, PingPeer
    <2>2. UNCHANGED <<paused, thrown>>
      BY <1>3 DEF PingLoop, PingHead, Gate, Await, Awake, Collect, PingPeer
    <2>3. pinger \in Threads /\ pinger \notin Pausing
      BY ThreadAssumption DEF Threads, Pausing
    <2> QED
      BY <2>1, <2>2, <2>3, OutsideMove, PauseKeptOwner DEF Go
  <1>4. CASE ResumeToStop /\ ClearPause
    BY <1>4 DEF ClearPause, PauseHasOwner
  <1>5. CASE (Quit \/ Stop) /\ ~(ResumeToStop /\ ClearPause)
    <2>1. PICK label : Go(stopper, label) \/ NotifyAll(stopper, label)
      BY <1>5 DEF Quit, Stop, CloseListener, JoinAccept, CloseSockets, ResumeToStop, JoinPing
    <2>2. UNCHANGED <<paused, thrown>>
      BY <1>5 DEF Quit, Stop, CloseListener, JoinAccept, CloseSockets, ResumeToStop, JoinPing
    <2>3. stopper \in Threads /\ stopper \notin Pausing
      BY ThreadAssumption DEF Threads, Pausing
    <2> QED
      BY <2>1, <2>2, <2>3, OutsideMove, PauseKeptOwner DEF Go
  <1> QED
    BY <1>1, <1>2, <1>3, <1>4, <1>5

\* Pinging is never left paused for nothing, whatever number of receive threads pause
\* and resume over each other.
THEOREM PauseOwned == Spec => []PauseHasOwner
  <1>1. Init => PauseHasOwner
    BY DEF Init, PauseHasOwner
  <1>2. LockInv /\ PauseHasOwner /\ [Next]_vars => PauseHasOwner'
    <2> SUFFICES ASSUME LockInv, PauseHasOwner, [Next]_vars PROVE PauseHasOwner'
      OBVIOUS
    <2>1. CASE \E c \in Conns : Receive(c)
      BY <2>1, ReceiveKeepsPause
    <2>2. CASE AcceptLoop \/ PingLoop \/ Quit \/ Stop
      BY <2>2, OthersKeepPause
    <2>3. CASE UNCHANGED vars \/ \E c \in Conns : PeerCloses(c)
      BY <2>3 DEF vars, PeerCloses, PauseHasOwner, Pausing
    <2> QED
      BY <2>1, <2>2, <2>3 DEF Next
  <1> QED
    BY <1>1, <1>2, LocksHeld, PTL DEF Spec

-----------------------------------------------------------------------------
(* Types *)

LEMMA ReceiveKeepsFlags ==
  ASSUME FlagsOK, NEW c \in Conns, Receive(c)
  PROVE  FlagsOK'
  <1>1. CASE PausePinging(c) \/ ResumePinging(c)
    BY <1>1 DEF PausePinging, ResumePinging, ClearPause, FlagsOK
  <1>2. CASE LeaveHandler(c)
    BY <1>2 DEF LeaveHandler, FlagsOK
  <1>3. CASE \/ LoopHead(c) \/ Recv(c) \/ Verify(c) \/ EnterHandler(c) \/ TouchPeers(c)
             \/ NotifyPing(c) \/ SendAnswers(c) \/ Cleanup(c)
    BY <1>3 DEF LoopHead, Recv, Verify, EnterHandler, TouchPeers, NotifyPing, SendAnswers,
                Cleanup, FlagsOK
  <1> QED
    BY <1>1, <1>2, <1>3 DEF Receive

LEMMA OthersKeepFlags ==
  ASSUME FlagsOK, AcceptLoop \/ PingLoop \/ Quit \/ Stop
  PROVE  FlagsOK'
  <1>1. CASE AcceptLoop
    BY <1>1 DEF AcceptLoop, AcceptHead, AcceptCall, EnterHandler, TouchPeers, LeaveGreeting,
                AddCaller, Reply, FlagsOK
  <1>2. CASE PingLoop
    BY <1>2 DEF PingLoop, PingHead, Gate, Await, Awake, Collect, PingPeer, FlagsOK
  <1>3. CASE Quit \/ CloseListener
    BY <1>3 DEF Quit, CloseListener, FlagsOK
  <1>4. CASE ResumeToStop
    BY <1>4 DEF ResumeToStop, ClearPause, FlagsOK
  <1>5. CASE JoinAccept \/ CloseSockets \/ JoinPing
    BY <1>5 DEF JoinAccept, CloseSockets, JoinPing, FlagsOK
  <1> QED
    BY <1>1, <1>2, <1>3, <1>4, <1>5 DEF Stop

\* The state of a node's threads stays well typed.
THEOREM TypeCorrect == Spec => []TypeOK
  <1>1. Init => FlagsOK
    BY DEF Init, FlagsOK
  <1>2. FlagsOK /\ [Next]_vars => FlagsOK'
    <2> SUFFICES ASSUME FlagsOK, [Next]_vars PROVE FlagsOK'
      OBVIOUS
    <2>1. CASE \E c \in Conns : Receive(c)
      BY <2>1, ReceiveKeepsFlags
    <2>2. CASE AcceptLoop \/ PingLoop \/ Quit \/ Stop
      BY <2>2, OthersKeepFlags
    <2>3. CASE UNCHANGED vars \/ \E c \in Conns : PeerCloses(c)
      BY <2>3 DEF vars, PeerCloses, FlagsOK
    <2> QED
      BY <2>1, <2>2, <2>3 DEF Next
  <1>3. FlagsOK /\ LockInv => TypeOK
    BY DEF TypeOK, LockInv, Shape, HandlerHeld, PeerHeld, Threads
  <1> QED
    BY <1>1, <1>2, <1>3, LocksHeld, PTL DEF Spec
=============================================================================
