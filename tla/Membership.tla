----------------------------- MODULE Membership -----------------------------
(***************************************************************************)
(* How nodes find each other: the discovery server that gives out ids and  *)
(* addresses, the calls a starting node makes to everybody on its list,    *)
(* the accept thread that answers them with a PEER_LIST, the table of      *)
(* peers that the start, accept and receive threads of a node share, and   *)
(* the choice of the leader with which a start ends.                       *)
(*                                                                         *)
(*  - An action is what a thread does from one look at shared state to the *)
(*    next (m_knownNodesMutex, m_peerMutex, m_handlerMutex).               *)
(*  - A node is its public key; its address does not change.  A node that  *)
(*    stops is a process that is gone: its sockets are closed.  NodeThreads*)
(*    has the steps of stop.                                               *)
(*  - A connection has two ends, each with a socket and a receive thread.  *)
(*    Of the messages, only a PEER_LIST changes the state modelled here: a *)
(*    message is the set of nodes it lists, {} for any other.              *)
(*  - GET_PEERS is never sent, and its handler changes nothing.            *)
(***************************************************************************)
EXTENDS Integers, Sequences, FiniteSets, Functions

CONSTANTS
    Nodes,      \* public keys.  Example: {a, b, c}
    InitViews,  \* what m_currentView, never initialised, may start with
    MaxListed,  \* how many entries of a node list fit into recv's 2048 bytes
    Slots,      \* bound: names for connections
    MaxStarts,  \* bound: how often nodes are started
    MaxStops,   \* bound: how often a node is stopped
    MaxEarly    \* bound: messages other than PEER_LISTs

ASSUME MembershipAssumption ==
    /\ IsFiniteSet(Nodes)
    /\ InitViews \subseteq Nat
    /\ 0 \notin Slots
    /\ MaxListed \in Nat /\ MaxStarts \in Nat /\ MaxStops \in Nat /\ MaxEarly \in Nat

VARIABLES
    \* the discovery server
    nextId,     \* m_nextNodeId
    known,      \* m_knownNodes
    \* each node
    pc,         \* pc[n]: where n's start has got to
    id,         \* id[n]: m_myNodeId
    todo,       \* todo[n]: the nodes of its list that n has still to call
    call,       \* call[n]: the connection on which n's start waits for an answer, or 0
    view,       \* view[n]: m_currentView
    peers,      \* peers[n]: m_peers
    \* between nodes
    conns,      \* the connections that have an open end
    early,      \* messages other than PEER_LISTs sent so far
    stops,      \* how often a node was stopped
    \* history
    starts,     \* starts[n]: how often n was started
    listed,     \* <<i, j>>: the list sent to the node with id i has the node with id j
    founders,   \* the nodes that created a genesis block
    astray      \* nodes whose start waits for an answer that was sent elsewhere

serverVars == <<nextId, known>>
history == <<starts, listed, founders, astray>>
vars == <<nextId, known, pc, id, todo, call, view, peers, conns, early, stops, history>>

-----------------------------------------------------------------------------
(* Connections and the peer table *)

Ends == {"caller", "callee"}
Other(e) == IF e = "caller" THEN "callee" ELSE "caller"

NoSocket == <<0, "caller">>
Sockets == (Slots \X Ends) \cup {NoSocket}

\* What the server knows of a node.
Addresses == [node : Nodes, id : Nat]

\* PeerInfo, as far as it is used.  An entry that operator[] made has neither key
\* nor id, and broadcasts and lists, which take the key from the entry, miss it.
PeerInfo == [id : Nat, named : BOOLEAN, socket : Sockets]
EmptyInfo(socket) == [id |-> 0, named |-> FALSE, socket |-> socket]

Put(t, k, info) == [x \in DOMAIN t \cup {k} |-> IF x = k THEN info ELSE t[x]]
Erase(t, k) == [x \in DOMAIN t \ {k} |-> t[x]]

\* peersToJson.
PeersToJson(n) == {k \in DOMAIN peers[n] : peers[n][k].named}

Conn == [caller : Nodes, callee : Nodes,
         id : Nat,                          \* the id in the caller's HANDSHAKE
         stage : {"called", "added", "accepted"},
         list : SUBSET Nodes,               \* the answer, until it is sent
         threads : SUBSET Ends,             \* ends with a receive thread
         gone : SUBSET Ends,                \* ends that are closed
         mail : [Ends -> Seq(SUBSET Nodes)]]   \* mail[e]: on the way to end e

NewConn(n, k, threads) ==
    [caller |-> n, callee |-> k, id |-> id[n], stage |-> "called", list |-> {},
     threads |-> threads, gone |-> {}, mail |-> [e \in Ends |-> <<>>]]

\* Connections cs after the ends X are closed; those with no open end are dropped.
Closed(cs, X) ==
    LET at(s) == {e \in Ends : <<s, e>> \in X}
        closed(s) == [cs[s] EXCEPT
            !.gone = @ \cup at(s), !.threads = @ \ at(s),
            !.mail = [e \in Ends |-> IF e \in at(s) THEN <<>> ELSE cs[s].mail[e]]]
    IN [s \in {r \in DOMAIN cs : closed(r).gone # Ends} |-> closed(s)]

EndsOf(n) == {x \in (DOMAIN conns) \X Ends : conns[x[1]][x[2]] = n}

\* The socket sendMessageTo uses: that in the table, whatever connection it is of.
SocketTo(n, k) == IF k \in DOMAIN peers[n] THEN peers[n][k].socket ELSE NoSocket

\* Slip: an empty list is not sent.
SendsContents(cs, n, k, m) ==
    LET s == SocketTo(n, k)[1]
        to == Other(SocketTo(n, k)[2])
    IN IF m # {} /\ s \in DOMAIN cs /\ to \notin cs[s].gone
       THEN [cs EXCEPT ![s].mail[to] = Append(@, m)] ELSE cs

\* sendMessageTo.
SendMessageTo(cs, n, k, m) ==
    LET s == SocketTo(n, k)[1]
        to == Other(SocketTo(n, k)[2])
    IN IF s \in DOMAIN cs /\ to \notin cs[s].gone
       THEN [cs EXCEPT ![s].mail[to] = Append(@, m)] ELSE cs

Listening(n) == pc[n] # "off"

\* Slip: a node that knows nobody leads.
LoneNodeLeads(n) ==
    IF peers[n] = <<>> THEN id[n] ELSE view[n] % (Cardinality(DOMAIN peers[n]) + 1)

\* getLeaderIndex.
GetLeaderIndex(n) ==
    IF peers[n] = <<>> THEN 0 ELSE view[n] % (Cardinality(DOMAIN peers[n]) + 1)

Init ==
    /\ nextId = 0 /\ known = <<>>
    /\ pc = [n \in Nodes |-> "off"]
    /\ id = [n \in Nodes |-> 0]
    /\ todo = [n \in Nodes |-> <<>>]
    /\ call = [n \in Nodes |-> 0]
    /\ view = [n \in Nodes |-> 0]
    /\ peers = [n \in Nodes |-> <<>>]
    /\ conns = <<>>
    /\ early = 0 /\ stops = 0
    /\ starts = [n \in Nodes |-> 0]
    /\ listed = {} /\ founders = {} /\ astray = {}

Goto(n, label) == pc' = [pc EXCEPT ![n] = label]

-----------------------------------------------------------------------------
(* Start: registration *)

Start(n) ==
    /\ pc[n] = "off"
    /\ nextId + Cardinality({k \in Nodes : pc[k] = "registering"}) < MaxStarts
    /\ Goto(n, "registering")
    /\ starts' = [starts EXCEPT ![n] = @ + 1]
    /\ \E v \in InitViews : view' = [view EXCEPT ![n] = v]
    /\ UNCHANGED <<serverVars, id, todo, call, peers, conns, early, stops, listed, founders, astray>>

\* Slip: the id is the number of nodes registered.
IdFromList(n) ==
    /\ pc[n] = "registering"
    /\ Goto(n, "assigned")
    /\ id' = [id EXCEPT ![n] = Len(known)]
    /\ nextId' = nextId + 1
    /\ UNCHANGED <<known, todo, call, view, peers, conns, early, stops, history>>

\* fetch_add on the counter.
AssignId(n) ==
    /\ pc[n] = "registering"
    /\ Goto(n, "assigned")
    /\ id' = [id EXCEPT ![n] = nextId]
    /\ nextId' = nextId + 1
    /\ UNCHANGED <<known, todo, call, view, peers, conns, early, stops, history>>

\* The list is copied under the lock.
CopyList(n) ==
    /\ pc[n] = "assigned"
    /\ Goto(n, "copied")
    /\ todo' = [todo EXCEPT ![n] = known]
    /\ listed' = listed \cup {<<id[n], known[i].id>> : i \in DOMAIN known}
    /\ UNCHANGED <<serverVars, id, call, view, peers, conns, early, stops, starts, founders, astray>>

\* The client is added under the lock, taken anew.  Nothing is ever removed.
Remember(n) ==
    /\ pc[n] = "copied"
    /\ Goto(n, "answered")
    /\ known' = Append(known, [node |-> n, id |-> id[n]])
    /\ UNCHANGED <<nextId, id, todo, call, view, peers, conns, early, stops, history>>

\* Slip: the table is not cleared.
LeavesTable(n) ==
    /\ Goto(n, "off")
    /\ todo' = [todo EXCEPT ![n] = <<>>]
    /\ call' = [call EXCEPT ![n] = 0]
    /\ id' = [id EXCEPT ![n] = 0]
    /\ view' = [view EXCEPT ![n] = 0]
    /\ conns' = Closed(conns, EndsOf(n))
    /\ astray' = astray \ {n}
    /\ UNCHANGED <<serverVars, peers, early, starts, listed, founders>>

\* The process of n ends.
Leave(n) ==
    /\ Goto(n, "off")
    /\ todo' = [todo EXCEPT ![n] = <<>>]
    /\ call' = [call EXCEPT ![n] = 0]
    /\ id' = [id EXCEPT ![n] = 0]
    /\ view' = [view EXCEPT ![n] = 0]
    /\ peers' = [peers EXCEPT ![n] = <<>>]
    /\ conns' = Closed(conns, EndsOf(n))
    /\ astray' = astray \ {n}
    /\ UNCHANGED <<serverVars, early, starts, listed, founders>>

\* The answer arrives.  recv returns the first 2048 bytes: of a longer list the
\* parser makes nothing, it throws, and nothing in start catches.
GetPeers(n) ==
    /\ pc[n] = "answered" /\ Len(todo[n]) <= MaxListed
    /\ Goto(n, "connecting")
    /\ UNCHANGED <<serverVars, id, todo, call, view, peers, conns, early, stops, history>>

GetPeersThrows(n) ==
    /\ pc[n] = "answered" /\ Len(todo[n]) > MaxListed
    /\ Leave(n) /\ UNCHANGED stops

-----------------------------------------------------------------------------
(* Start: connectToPeer, for each node of the list in turn *)

Called(n) == Head(todo[n]).node

\* connect and send.
Connect(n) ==
    /\ pc[n] = "connecting" /\ todo[n] # <<>> /\ Listening(Called(n))
    /\ \E s \in Slots \ DOMAIN conns :
        /\ s = CHOOSE r \in Slots \ DOMAIN conns : TRUE
        /\ conns' = Put(conns, s, NewConn(n, Called(n), {}))
        /\ call' = [call EXCEPT ![n] = s]
    /\ Goto(n, "greeting")
    /\ UNCHANGED <<serverVars, id, todo, view, peers, early, stops, history>>

\* Nobody listens there any more: the next one is called.
ConnectFails(n) ==
    /\ pc[n] = "connecting" /\ todo[n] # <<>> /\ ~Listening(Called(n))
    /\ todo' = [todo EXCEPT ![n] = Tail(@)]
    /\ UNCHANGED <<serverVars, pc, id, call, view, peers, conns, early, stops, history>>

\* The first message is taken for the answer, whatever it is: its author is looked
\* at, its type is not.  The id is the one in the list.
Greeted(n) ==
    LET s == call[n]
    IN  /\ pc[n] = "greeting" /\ conns[s].mail["caller"] # <<>>
        /\ peers' = [peers EXCEPT ![n] = Put(@, Called(n),
              [id |-> Head(todo[n]).id, named |-> TRUE, socket |-> <<s, "caller">>])]
        /\ conns' = [conns EXCEPT ![s].mail["caller"] = Tail(@),
                                  ![s].threads = @ \cup {"caller"}]
        /\ call' = [call EXCEPT ![n] = 0]
        /\ todo' = [todo EXCEPT ![n] = Tail(@)]
        /\ Goto(n, "connecting")
        /\ UNCHANGED <<serverVars, id, view, early, stops, history>>

\* recv fails because the other process is gone; the socket is not closed.
GreetingFails(n) ==
    /\ pc[n] = "greeting" /\ "callee" \in conns[call[n]].gone
    /\ call' = [call EXCEPT ![n] = 0]
    /\ todo' = [todo EXCEPT ![n] = Tail(@)]
    /\ astray' = astray \ {n}
    /\ Goto(n, "connecting")
    /\ UNCHANGED <<serverVars, id, view, peers, conns, early, stops, starts, listed, founders>>

-----------------------------------------------------------------------------
(* Start: recieveBlockchain *)

\* amILeader: the leader creates the genesis block, the others ask for it.
Lead(n) ==
    /\ pc[n] = "connecting" /\ todo[n] = <<>>
    /\ GetLeaderIndex(n) = id[n]
    /\ founders' = founders \cup {[node |-> n, id |-> id[n], view |-> view[n]]}
    /\ Goto(n, "running")
    /\ UNCHANGED <<serverVars, id, todo, call, view, peers, conns, early, stops, starts, listed, astray>>

Follow(n) ==
    /\ pc[n] = "connecting" /\ todo[n] = <<>>
    /\ GetLeaderIndex(n) # id[n]
    /\ Goto(n, "asking")
    /\ UNCHANGED <<serverVars, id, todo, call, view, peers, conns, early, stops, history>>

\* The index is computed anew, and getPeerInfoByID throws if nobody has it.
KnowsLeader(n) ==
    LET i == GetLeaderIndex(n)
    IN i = id[n] \/ \E k \in DOMAIN peers[n] : peers[n][k].id = i

AskLeader(n) ==
    /\ pc[n] = "asking" /\ KnowsLeader(n)
    /\ Goto(n, "running")
    /\ UNCHANGED <<serverVars, id, todo, call, view, peers, conns, early, stops, history>>

AskLeaderThrows(n) ==
    /\ pc[n] = "asking" /\ ~KnowsLeader(n)
    /\ Leave(n) /\ UNCHANGED stops

-----------------------------------------------------------------------------
(* The accept thread *)

Accepting(n) == \E s \in DOMAIN conns :
    conns[s].callee = n /\ conns[s].stage = "added" /\ "callee" \notin conns[s].gone

\* onHandshake serialises the table and adds the caller, and the accept thread adds
\* it again with its socket.  Nothing is sent in between.
AddCaller(s) ==
    LET c == conns[s]
    IN  /\ c.stage = "called" /\ "callee" \notin c.gone /\ ~Accepting(c.callee)
        /\ conns' = [conns EXCEPT ![s].stage = "added",
                                  ![s].list = PeersToJson(c.callee)]
        /\ peers' = [peers EXCEPT ![c.callee] = Put(@, c.caller,
              [id |-> c.id, named |-> TRUE, socket |-> <<s, "callee">>])]
        /\ UNCHANGED <<serverVars, pc, id, todo, call, view, early, stops, history>>

\* The answer goes to whatever socket the table now has for the caller.
Reply(s) ==
    LET c == conns[s]
        waits == call[c.caller] = s /\ "caller" \notin c.gone
    IN  /\ c.stage = "added" /\ "callee" \notin c.gone
        /\ conns' = [SendMessageTo(conns, c.callee, c.caller, c.list) EXCEPT
                        ![s].stage = "accepted", ![s].list = {},
                        ![s].threads = @ \cup {"callee"}]
        /\ astray' = IF waits /\ c.mail["caller"] = <<>>
                        /\ SocketTo(c.callee, c.caller) # <<s, "callee">>
                     THEN astray \cup {c.caller} ELSE astray
        /\ UNCHANGED <<serverVars, pc, id, todo, call, view, peers, early, stops, starts, listed, founders>>

-----------------------------------------------------------------------------
(* Receive threads *)

\* A PING or a broadcast that overtakes the answer to a HANDSHAKE.  Any other changes
\* no more than a PEER_LIST does.
SendOther(n, k) ==
    /\ early < MaxEarly
    /\ k \in PeersToJson(n)
    /\ peers[n][k].socket[2] = "callee" /\ conns[peers[n][k].socket[1]].stage = "added"
    /\ conns' = SendMessageTo(conns, n, k, {})
    /\ early' = early + 1
    /\ UNCHANGED <<serverVars, pc, id, todo, call, view, peers, stops, history>>

\* The author is looked up with operator[], which adds an empty entry if there is
\* none.  onPeerList calls, by connectToNode, the nodes that are not in the table.
Receive(s, e) ==
    LET n == conns[s][e]
        author == conns[s][Other(e)]
        m == Head(conns[s].mail[e])
        table == IF author \in DOMAIN peers[n] THEN peers[n]
                 ELSE Put(peers[n], author, EmptyInfo(NoSocket))
        new == {k \in m \ DOMAIN table : Listening(k)}
        read == [conns EXCEPT ![s].mail[e] = Tail(@)]
    IN  /\ e \in conns[s].threads /\ conns[s].mail[e] # <<>>
        /\ ExistsInjection(new, Slots \ DOMAIN conns)
        /\ LET slot == CHOOSE f \in Injection(new, Slots \ DOMAIN conns) : TRUE
               used == {slot[k] : k \in new}
           IN /\ peers' = [peers EXCEPT ![n] = [k \in DOMAIN table \cup new |->
                    IF k \in new THEN EmptyInfo(<<slot[k], "caller">>) ELSE table[k]]]
              /\ conns' = [r \in DOMAIN conns \cup used |->
                    IF r \in used
                    THEN NewConn(n, CHOOSE k \in new : slot[k] = r, {"caller"})
                    ELSE read[r]]
        /\ UNCHANGED <<serverVars, pc, id, todo, call, view, early, stops, history>>

\* Slip: the entry is kept.
ClosesOnly(s, e) ==
    /\ e \in conns[s].threads /\ Other(e) \in conns[s].gone
    /\ conns' = Closed(conns, {<<s, e>>})
    /\ UNCHANGED <<serverVars, pc, id, todo, call, view, peers, early, stops, history>>

\* The connection is closed: the thread erases the peer, even if the entry is of
\* another connection by now.
Cleanup(s, e) ==
    LET n == conns[s][e]
    IN  /\ e \in conns[s].threads /\ Other(e) \in conns[s].gone
        /\ peers' = [peers EXCEPT ![n] = Erase(@, conns[s][Other(e)])]
        /\ conns' = Closed(conns, {<<s, e>>})
        /\ UNCHANGED <<serverVars, pc, id, todo, call, view, early, stops, history>>

\* The destructor of FullNode, once its constructor is done: that calls start.
Stop(n) ==
    /\ pc[n] = "running"
    /\ stops < MaxStops /\ stops' = stops + 1
    /\ Leave(n)

-----------------------------------------------------------------------------

\* Slip: the client is added first, and the others are listed for it afterwards.
RegisterBeforeCopy(n) ==
    \/ AssignId(n)
    \/ /\ pc[n] = "assigned"
       /\ Goto(n, "copied")
       /\ known' = Append(known, [node |-> n, id |-> id[n]])
       /\ UNCHANGED <<nextId, id, todo, call, view, peers, conns, early, stops, history>>
    \/ /\ pc[n] = "copied"
       /\ Goto(n, "answered")
       /\ todo' = [todo EXCEPT ![n] = SelectSeq(known, LAMBDA k : k.id # id[n])]
       /\ listed' = listed \cup {<<id[n], k>> : k \in {known[i].id : i \in DOMAIN known} \ {id[n]}}
       /\ UNCHANGED <<serverVars, id, call, view, peers, conns, early, stops, starts, founders, astray>>

\* onDiscoveryMessage.
Register(n) == AssignId(n) \/ CopyList(n) \/ Remember(n)

StartUp(n) ==
    \/ GetPeers(n) \/ GetPeersThrows(n)
    \/ Connect(n) \/ ConnectFails(n) \/ Greeted(n) \/ GreetingFails(n)
    \/ Lead(n) \/ Follow(n) \/ AskLeader(n) \/ AskLeaderThrows(n)

Accept(s) == AddCaller(s) \/ Reply(s)

ReceiveLoop(s, e) == Receive(s, e) \/ Cleanup(s, e)

Next ==
    \/ \E n \in Nodes : Start(n) \/ Register(n) \/ StartUp(n) \/ Stop(n)
    \/ \E n, k \in Nodes : SendOther(n, k)
    \/ \E s \in DOMAIN conns : Accept(s) \/ \E e \in Ends : ReceiveLoop(s, e)

Spec == Init /\ [][Next]_vars

-----------------------------------------------------------------------------
(* Properties *)

Labels == {"off", "registering", "assigned", "copied", "answered", "connecting",
           "greeting", "asking", "running"}

\* Types: tables map keys to entries; a start that waits does so on a connection
\* of its own; only running processes have entries and open ends.
TypeOK ==
    /\ nextId \in Nat /\ known \in Seq(Addresses)
    /\ pc \in [Nodes -> Labels] /\ id \in [Nodes -> Nat]
    /\ todo \in [Nodes -> Seq(Addresses)]
    /\ call \in [Nodes -> Slots \cup {0}] /\ view \in [Nodes -> Nat]
    /\ \A n \in Nodes :
        /\ DOMAIN peers[n] \subseteq Nodes
        /\ \A k \in DOMAIN peers[n] : peers[n][k] \in PeerInfo
        /\ pc[n] = "greeting" <=> call[n] # 0
        /\ pc[n] = "greeting" => todo[n] # <<>> /\ call[n] \in DOMAIN conns
                                 /\ conns[call[n]].caller = n
        /\ pc[n] = "off" => peers[n] = <<>>
    /\ DOMAIN conns \subseteq Slots
    /\ \A s \in DOMAIN conns :
        /\ conns[s] \in Conn
        /\ \A e \in Ends \ conns[s].gone : pc[conns[s][e]] # "off"
    /\ early \in 0 .. MaxEarly /\ stops \in 0 .. MaxStops

\* No two registrations get the same id, although the server handles each client in
\* a thread of its own.
IdsUnique ==
    \A i, j \in DOMAIN known : known[i].id = known[j].id => i = j

\* Of two nodes at most one is told to call the other: the client is added to the list
\* only after the list was copied for it, so of two clients served at the same
\* time each may miss the other, but they never both call.
OneCalls ==
    \A p \in listed : <<p[2], p[1]>> \notin listed

\* With the view at its start, one node creates the chain: whoever follows has no
\* peers, or fewer than another, and still must not found a second.
OneFounder ==
    \A f, g \in founders : f.view = 0 /\ g.view = 0 => f = g

\* A socket in a node's table is open on its side and belongs to a connection with
\* that peer which a receive thread, or the accept thread, serves; although three
\* kinds of threads write the table and a thread that ends erases by key.
SocketsServed ==
    \A n \in Nodes : \A k \in DOMAIN peers[n] :
        LET s == peers[n][k].socket[1]
            e == peers[n][k].socket[2]
        IN s # 0 =>
            /\ s \in DOMAIN conns
            /\ conns[s][e] = n /\ conns[s][Other(e)] = k /\ e \notin conns[s].gone
            /\ e \in conns[s].threads \/ (e = "callee" /\ conns[s].stage = "added")

\* Until a node is started for the second time, the answer to a HANDSHAKE goes to the
\* node that waits for it, although the accept thread looks the socket up in
\* the table, where the node's other threads may have put another.
AnswersReachCallers ==
    (\A n \in Nodes : starts[n] <= 1) => astray = {}

\* A start that waits is answered, or learns that the other node is gone; only an
\* answer that was sent elsewhere leaves it waiting for ever.
AnswerDue ==
    \A n \in Nodes : pc[n] = "greeting" /\ n \notin astray =>
        LET c == conns[call[n]]
        IN c.mail["caller"] # <<>> \/ "callee" \in c.gone \/ c.stage \in {"called", "added"}
=============================================================================
