-------------------------- MODULE ConnectionProofs --------------------------
(***************************************************************************)
(* Theorems about Membership: connections, the peer table and the founder, *)
(* for any number of nodes, connections, starts and stops.                 *)
(*                                                                         *)
(*  - ConnInv: who waits does so on an open connection of its own, every   *)
(*    socket in a table is open and served, and open ends have processes.  *)
(*  - HistInv, with RegInv of MembershipProofs: whom a node has still to   *)
(*    call was listed for it, and a founder of view 0 has id 0.            *)
(*  - OnceInv, with both: as long as no node is started a second time, the *)
(*    table of a node that owes an answer leads to the connection on which *)
(*    it is awaited.                                                       *)
(***************************************************************************)
EXTENDS MembershipProofs, FiniteSetTheorems

\* A start of n waits for the answer to its HANDSHAKE.
Waiting(n) == pc[n] = "greeting"

Scalars ==
    /\ nextId \in Nat /\ known \in Seq(Addresses)
    /\ pc \in [Nodes -> Labels] /\ id \in [Nodes -> Nat]
    /\ todo \in [Nodes -> Seq(Addresses)]
    /\ call \in [Nodes -> Slots \cup {0}] /\ view \in [Nodes -> Nat]
    /\ starts \in [Nodes -> Nat] /\ DOMAIN peers = Nodes
    /\ early \in 0 .. MaxEarly /\ stops \in 0 .. MaxStops

Tables ==
    \A n \in Nodes :
        /\ DOMAIN peers[n] \subseteq Nodes
        /\ \A k \in DOMAIN peers[n] : peers[n][k] \in PeerInfo
        /\ pc[n] = "off" => peers[n] = <<>>

\* Who waits keeps its end open, and no thread reads there but its start.
Calls ==
    \A n \in Nodes :
        /\ Waiting(n) <=> call[n] # 0
        /\ Waiting(n) => /\ todo[n] # <<>> /\ call[n] \in DOMAIN conns
                         /\ conns[call[n]].caller = n
                         /\ conns[call[n]].callee = Called(n)
                         /\ "caller" \notin conns[call[n]].gone
                         /\ "caller" \notin conns[call[n]].threads

Links ==
    /\ DOMAIN conns \subseteq Slots
    /\ \A s \in DOMAIN conns :
        /\ conns[s] \in Conn
        /\ \A e \in Ends \ conns[s].gone : pc[conns[s][e]] # "off"
        /\ conns[s].threads \cap conns[s].gone = {}

ConnInv == Scalars /\ Tables /\ Calls /\ Links /\ SocketsServed /\ AnswerDue

LEMMA ConnInvTypes == ConnInv => TypeOK
  BY DEF ConnInv, Scalars, Tables, Calls, Links, Waiting, TypeOK

-----------------------------------------------------------------------------
(* What becomes of connections *)

LEMMA ClosedIs ==
  ASSUME NEW cs, NEW X, \A s \in DOMAIN cs : cs[s] \in Conn, NEW s
  PROVE  /\ s \in DOMAIN Closed(cs, X) =>
              /\ s \in DOMAIN cs
              /\ Closed(cs, X)[s] \in Conn
              /\ Closed(cs, X)[s].caller = cs[s].caller
              /\ Closed(cs, X)[s].callee = cs[s].callee
              /\ Closed(cs, X)[s].stage = cs[s].stage
              /\ Closed(cs, X)[s].gone = cs[s].gone \cup {e \in Ends : <<s, e>> \in X}
              /\ Closed(cs, X)[s].threads = cs[s].threads \ {e \in Ends : <<s, e>> \in X}
              /\ \A e \in Ends : <<s, e>> \notin X => Closed(cs, X)[s].mail[e] = cs[s].mail[e]
         /\ s \in DOMAIN cs /\ cs[s].gone \cup {e \in Ends : <<s, e>> \in X} # Ends =>
              s \in DOMAIN Closed(cs, X)
  <1> DEFINE at(t) == {e \in Ends : <<t, e>> \in X}
             closed(t) == [cs[t] EXCEPT
                 !.gone = @ \cup at(t), !.threads = @ \ at(t),
                 !.mail = [e \in Ends |-> IF e \in at(t) THEN <<>> ELSE cs[t].mail[e]]]
  <1>1. Closed(cs, X) = [t \in {r \in DOMAIN cs : closed(r).gone # Ends} |-> closed(t)]
    BY DEF Closed
  <1>2. ASSUME s \in DOMAIN cs
        PROVE  /\ closed(s) \in Conn
               /\ closed(s).caller = cs[s].caller /\ closed(s).callee = cs[s].callee
               /\ closed(s).stage = cs[s].stage
               /\ closed(s).gone = cs[s].gone \cup at(s)
               /\ closed(s).threads = cs[s].threads \ at(s)
               /\ \A e \in Ends : <<s, e>> \notin X => closed(s).mail[e] = cs[s].mail[e]
    <2>1. cs[s] \in Conn
      BY <1>2
    <2>2. [e \in Ends |-> IF e \in at(s) THEN <<>> ELSE cs[s].mail[e]] \in [Ends -> Seq(SUBSET Nodes)]
      BY <2>1 DEF Conn
    <2> QED
      BY <2>1, <2>2 DEF Conn
  <1> HIDE DEF closed
  <1> QED
    BY <1>1, <1>2

-----------------------------------------------------------------------------
(* Frames: what leaves a part of the invariant alone *)

\* The entry of n for k, and the answer n waits for.
Served(n, k) ==
    LET s == peers[n][k].socket[1]
        e == peers[n][k].socket[2]
    IN s # 0 =>
        /\ s \in DOMAIN conns
        /\ conns[s][e] = n /\ conns[s][Other(e)] = k /\ e \notin conns[s].gone
        /\ e \in conns[s].threads \/ (e = "callee" /\ conns[s].stage = "added")

Due(n) ==
    \/ conns[call[n]].mail["caller"] # <<>>
    \/ "callee" \in conns[call[n]].gone
    \/ conns[call[n]].stage \in {"called", "added"}

LEMMA Unfolded ==
  /\ SocketsServed <=> \A n \in Nodes : \A k \in DOMAIN peers[n] : Served(n, k)
  /\ AnswerDue <=> \A n \in Nodes : pc[n] = "greeting" /\ n \notin astray => Due(n)
  BY DEF SocketsServed, AnswerDue, Served, Due

\* Connections are opened and served, none is closed.
Grows ==
    /\ DOMAIN conns \subseteq DOMAIN conns'
    /\ \A r \in DOMAIN conns :
        /\ conns'[r].caller = conns[r].caller /\ conns'[r].callee = conns[r].callee
        /\ conns'[r].gone = conns[r].gone /\ conns[r].threads \subseteq conns'[r].threads
        /\ conns[r].stage = "added" => conns'[r].stage = "added" \/ "callee" \in conns'[r].threads

LEMMA EntriesTyped ==
  ASSUME ConnInv, NEW n \in Nodes, NEW k \in DOMAIN peers[n]
  PROVE  /\ peers[n][k].socket[2] \in Ends /\ Other(peers[n][k].socket[2]) \in Ends
         /\ k \in Nodes
  BY DEF ConnInv, Tables, PeerInfo, Sockets, NoSocket, Ends, Other

LEMMA SocketsKept ==
  ASSUME ConnInv, Grows, DOMAIN peers' = Nodes,
         \A n \in Nodes : \A k \in DOMAIN peers'[n] :
            \/ k \in DOMAIN peers[n] /\ peers'[n][k].socket = peers[n][k].socket
            \/ Served(n, k)'
  PROVE  SocketsServed'
  <1>1. ASSUME NEW n \in Nodes, NEW k \in DOMAIN peers'[n],
               k \in DOMAIN peers[n], peers'[n][k].socket = peers[n][k].socket
        PROVE  Served(n, k)'
    <2>1. Served(n, k)
      BY <1>1, Unfolded DEF ConnInv
    <2>2. peers[n][k].socket[2] \in {"caller", "callee"}
      BY <1>1, EntriesTyped DEF Ends
    <2>3. CASE peers[n][k].socket[1] # 0
      <3>1. PICK s, e : s = peers[n][k].socket[1] /\ e = peers[n][k].socket[2]
        OBVIOUS
      <3>2. /\ s \in DOMAIN conns /\ conns[s][e] = n /\ conns[s][Other(e)] = k
            /\ e \notin conns[s].gone
            /\ e \in conns[s].threads \/ (e = "callee" /\ conns[s].stage = "added")
        BY <2>1, <2>3, <3>1 DEF Served
      <3>3. conns'[s][e] = conns[s][e] /\ conns'[s][Other(e)] = conns[s][Other(e)]
        BY <2>2, <3>1, <3>2 DEF Grows, Other
      <3>4. /\ s \in DOMAIN conns' /\ e \notin conns'[s].gone
            /\ e \in conns'[s].threads \/ (e = "callee" /\ conns'[s].stage = "added")
        BY <3>2 DEF Grows
      <3> QED
        BY <1>1, <3>1, <3>2, <3>3, <3>4 DEF Served
    <2>4. CASE peers[n][k].socket[1] = 0
      BY <1>1, <2>4 DEF Served
    <2> QED
      BY <2>3, <2>4
  <1>2. \A n \in Nodes : \A k \in DOMAIN peers'[n] : Served(n, k)'
    BY <1>1
  <1> QED
    BY <1>2 DEF SocketsServed, Served

LEMMA CallsKept ==
  ASSUME ConnInv,
         \A n \in Nodes :
            /\ pc'[n] = "greeting" <=> call'[n] # 0
            /\ pc'[n] = "greeting" => pc[n] = "greeting" /\ call'[n] = call[n] /\ todo'[n] = todo[n],
         \A n \in Nodes : Waiting(n) /\ pc'[n] = "greeting" =>
            LET r == call[n]
            IN  /\ r \in DOMAIN conns'
                /\ conns'[r].caller = conns[r].caller /\ conns'[r].callee = conns[r].callee
                /\ "caller" \notin conns'[r].gone /\ "caller" \notin conns'[r].threads
  PROVE  Calls'
  BY DEF ConnInv, Calls, Waiting, Called

\* A step that leaves connections and tables alone.
Quiet ==
    /\ UNCHANGED <<peers, conns>> /\ Scalars'
    /\ \A n \in Nodes :
        /\ pc'[n] = "off" => pc[n] = "off"
        /\ pc'[n] = "greeting" <=> call'[n] # 0
        /\ pc'[n] = "greeting" =>
              /\ pc[n] = "greeting" /\ call'[n] = call[n] /\ todo'[n] = todo[n]
              /\ n \in astray => n \in astray'

LEMMA QuietKeeps ==
  ASSUME ConnInv, Quiet
  PROVE  ConnInv'
  <1>1. Tables'
    BY DEF Quiet, ConnInv, Tables
  <1>2. Calls'
    BY CallsKept DEF Quiet, ConnInv, Calls, Waiting
  <1>3. Links'
    <2>1. \A s \in DOMAIN conns : \A e \in Ends : conns[s][e] \in Nodes
      BY DEF ConnInv, Links, Conn, Ends
    <2> QED
      BY <2>1 DEF Quiet, ConnInv, Links
  <1>4. SocketsServed'
    BY DEF Quiet, ConnInv, SocketsServed
  <1>5. AnswerDue'
    BY DEF Quiet, ConnInv, AnswerDue
  <1> QED
    BY <1>1, <1>2, <1>3, <1>4, <1>5 DEF Quiet, ConnInv

LEMMA QuietSteps ==
  ASSUME ConnInv, NEW n \in Nodes,
         \/ Start(n) \/ Register(n) \/ GetPeers(n) \/ ConnectFails(n) \/ GreetingFails(n)
         \/ Lead(n) \/ Follow(n) \/ AskLeader(n)
  PROVE  Quiet
  <1> USE DEF ConnInv, Quiet, Scalars, Calls, Waiting, Goto, serverVars, history, Labels
  <1>1. CASE Start(n)
    BY <1>1, MembershipAssumption DEF Start
  <1>2. CASE AssignId(n)
    BY <1>2 DEF AssignId
  <1>3. CASE CopyList(n)
    BY <1>3 DEF CopyList
  <1>4. CASE Remember(n)
    <2>1. [node |-> n, id |-> id[n]] \in Addresses
      BY DEF Addresses
    <2> QED
      BY <1>4, <2>1 DEF Remember
  <1>5. CASE GetPeers(n)
    BY <1>5 DEF GetPeers
  <1>6. CASE ConnectFails(n)
    <2>1. Tail(todo[n]) \in Seq(Addresses)
      BY <1>6 DEF ConnectFails
    <2> QED
      BY <1>6, <2>1 DEF ConnectFails
  <1>7. CASE GreetingFails(n)
    <2>1. Tail(todo[n]) \in Seq(Addresses)
      BY <1>7 DEF GreetingFails
    <2> QED
      BY <1>7, <2>1 DEF GreetingFails
  <1>8. CASE Lead(n)
    BY <1>8 DEF Lead
  <1>9. CASE Follow(n)
    BY <1>9 DEF Follow
  <1>10. CASE AskLeader(n)
    BY <1>10 DEF AskLeader
  <1> QED
    BY <1>1, <1>2, <1>3, <1>4, <1>5, <1>6, <1>7, <1>8, <1>9, <1>10 DEF Register

-----------------------------------------------------------------------------
(* The steps that are not quiet *)

LEMMA EndsAre ==
  /\ Ends = {"caller", "callee"}
  /\ Other("caller") = "callee" /\ Other("callee") = "caller"
  BY DEF Ends, Other

\* Connections after the ends X are closed.
AfterClosing(X) ==
    \A r \in DOMAIN conns' :
        /\ r \in DOMAIN conns /\ conns'[r] \in Conn
        /\ conns'[r].caller = conns[r].caller /\ conns'[r].callee = conns[r].callee
        /\ conns'[r].stage = conns[r].stage
        /\ conns'[r].gone = conns[r].gone \cup {e \in Ends : <<r, e>> \in X}
        /\ conns'[r].threads = conns[r].threads \ {e \in Ends : <<r, e>> \in X}
        /\ \A e \in Ends : <<r, e>> \notin X => conns'[r].mail[e] = conns[r].mail[e]

StillOpen(X) ==
    \A r \in DOMAIN conns, e \in Ends :
        e \notin conns[r].gone /\ <<r, e>> \notin X => r \in DOMAIN conns'

LEMMA Closing ==
  ASSUME ConnInv, NEW X, conns' = Closed(conns, X)
  PROVE  AfterClosing(X) /\ StillOpen(X)
  <1>1. \A r \in DOMAIN conns : conns[r] \in Conn
    BY DEF ConnInv, Links
  <1>2. ASSUME NEW r \in DOMAIN conns, NEW e \in Ends, e \notin conns[r].gone, <<r, e>> \notin X
        PROVE  r \in DOMAIN conns'
    <2>1. conns[r].gone \cup {d \in Ends : <<r, d>> \in X} # Ends
      BY <1>2
    <2> QED
      BY <1>1, <2>1, ClosedIs
  <1>3. AfterClosing(X)
    BY <1>1, ClosedIs DEF AfterClosing
  <1> QED
    BY <1>2, <1>3 DEF StillOpen

\* Who waits, and whose end is not closed, waits on.
LEMMA CallsClosing ==
  ASSUME ConnInv, NEW X, conns' = Closed(conns, X),
         \A k \in Nodes :
            /\ pc'[k] = "greeting" <=> call'[k] # 0
            /\ pc'[k] = "greeting" =>
                 /\ pc[k] = "greeting" /\ call'[k] = call[k] /\ todo'[k] = todo[k]
                 /\ <<call[k], "caller">> \notin X
                 /\ k \in astray => k \in astray'
  PROVE  Calls' /\ AnswerDue'
  <1>0. AfterClosing(X) /\ StillOpen(X)
    BY Closing
  <1>1. ASSUME NEW k \in Nodes, pc'[k] = "greeting"
        PROVE  /\ call[k] \in DOMAIN conns'
               /\ conns'[call[k]].caller = conns[call[k]].caller
               /\ conns'[call[k]].callee = conns[call[k]].callee
               /\ "caller" \notin conns'[call[k]].gone /\ "caller" \notin conns'[call[k]].threads
               /\ k \notin astray' => Due(k)'
    <2>1. /\ call[k] \in DOMAIN conns /\ pc[k] = "greeting" /\ call'[k] = call[k]
          /\ "caller" \notin conns[call[k]].gone /\ "caller" \notin conns[call[k]].threads
          /\ <<call[k], "caller">> \notin X
      BY <1>1 DEF ConnInv, Calls, Waiting
    <2>2. call[k] \in DOMAIN conns'
      BY <1>0, <2>1, EndsAre DEF StillOpen
    <2>3. k \notin astray' => Due(k)
      BY <1>1, <2>1, Unfolded DEF ConnInv
    <2>4. PICK r : r = call[k]
      OBVIOUS
    <2>5. /\ r \in DOMAIN conns'
          /\ conns'[r].caller = conns[r].caller /\ conns'[r].callee = conns[r].callee
          /\ conns'[r].stage = conns[r].stage /\ conns[r].gone \subseteq conns'[r].gone
          /\ "caller" \notin conns'[r].gone /\ "caller" \notin conns'[r].threads
          /\ conns'[r].mail["caller"] = conns[r].mail["caller"]
      <3>1. /\ r \in DOMAIN conns' /\ "caller" \notin conns[r].gone
            /\ "caller" \notin conns[r].threads /\ <<r, "caller">> \notin X
        BY <2>1, <2>2, <2>4
      <3>2. /\ conns'[r].caller = conns[r].caller /\ conns'[r].callee = conns[r].callee
            /\ conns'[r].stage = conns[r].stage
            /\ conns'[r].gone = conns[r].gone \cup {e \in Ends : <<r, e>> \in X}
            /\ conns'[r].threads = conns[r].threads \ {e \in Ends : <<r, e>> \in X}
        BY <1>0, <3>1 DEF AfterClosing
      <3>3. conns'[r].mail["caller"] = conns[r].mail["caller"]
        BY <1>0, <3>1, EndsAre DEF AfterClosing
      <3> QED
        BY <3>1, <3>2, <3>3
    <2>6. k \notin astray' => Due(k)'
      BY <2>1, <2>3, <2>4, <2>5 DEF Due
    <2> QED
      BY <2>4, <2>5, <2>6
  <1>2. Calls'
    BY <1>1, CallsKept
  <1>3. AnswerDue'
    BY <1>1 DEF AnswerDue, Due
  <1> QED
    BY <1>2, <1>3

\* An entry whose end is not closed stays served.
LEMMA ServedClosing ==
  ASSUME ConnInv, NEW X, conns' = Closed(conns, X), NEW m \in Nodes, NEW k \in DOMAIN peers[m],
         peers'[m][k] = peers[m][k],
         \A r \in DOMAIN conns, e \in Ends :
            <<r, e>> \in X => ~(conns[r][e] = m /\ conns[r][Other(e)] = k /\ e \notin conns[r].gone)
  PROVE  Served(m, k)'
  <1>0. AfterClosing(X) /\ StillOpen(X)
    BY Closing
  <1>1. Served(m, k)
    BY Unfolded DEF ConnInv
  <1>2. CASE peers[m][k].socket[1] # 0
    <2>1. PICK r, e : r = peers[m][k].socket[1] /\ e = peers[m][k].socket[2]
      OBVIOUS
    <2>2. /\ r \in DOMAIN conns /\ e \in Ends /\ e \notin conns[r].gone /\ conns[r][e] = m
          /\ conns[r][Other(e)] = k
          /\ e \in conns[r].threads \/ (e = "callee" /\ conns[r].stage = "added")
      BY <1>1, <1>2, <2>1, EntriesTyped DEF Served
    <2>3. <<r, e>> \notin X
      BY <2>2
    <2>4. /\ r \in DOMAIN conns' /\ e \notin conns'[r].gone
          /\ e \in conns'[r].threads \/ (e = "callee" /\ conns'[r].stage = "added")
      BY <1>0, <2>2, <2>3 DEF AfterClosing, StillOpen
    <2>5. conns'[r][e] = m /\ conns'[r][Other(e)] = k
      <3>1. conns'[r]["caller"] = conns[r]["caller"] /\ conns'[r]["callee"] = conns[r]["callee"]
        BY <1>0, <2>4 DEF AfterClosing
      <3> QED
        BY <2>2, <3>1, EndsAre
    <2> QED
      BY <2>1, <2>4, <2>5 DEF Served
  <1>3. CASE peers[m][k].socket[1] = 0
    BY <1>3 DEF Served
  <1> QED
    BY <1>2, <1>3

\* The processes of open ends still run.
LEMMA LinksClosing ==
  ASSUME ConnInv, NEW X, conns' = Closed(conns, X),
         \A r \in DOMAIN conns, e \in Ends :
            <<r, e>> \notin X /\ pc[conns[r][e]] # "off" => pc'[conns[r][e]] # "off"
  PROVE  Links'
  <1>0. AfterClosing(X) /\ StillOpen(X)
    BY Closing
  <1>1. ASSUME NEW r \in DOMAIN conns', NEW e \in Ends \ conns'[r].gone
        PROVE  pc'[conns'[r][e]] # "off"
    <2>1. /\ r \in DOMAIN conns /\ e \in Ends \ conns[r].gone /\ <<r, e>> \notin X
          /\ conns'[r][e] = conns[r][e]
      <3>1. /\ r \in DOMAIN conns /\ conns'[r].gone = conns[r].gone \cup {d \in Ends : <<r, d>> \in X}
            /\ conns'[r]["caller"] = conns[r]["caller"] /\ conns'[r]["callee"] = conns[r]["callee"]
        BY <1>0, <1>1 DEF AfterClosing
      <3>2. e \in Ends \ conns[r].gone /\ <<r, e>> \notin X
        BY <1>1, <3>1
      <3>3. conns'[r][e] = conns[r][e]
        BY <3>1, <3>2, EndsAre
      <3> QED
        BY <3>1, <3>2, <3>3
    <2> QED
      BY <2>1 DEF ConnInv, Links
  <1>2. \A r \in DOMAIN conns' : /\ r \in DOMAIN conns /\ conns'[r] \in Conn
                                 /\ conns'[r].threads \cap conns'[r].gone = {}
    BY <1>0 DEF AfterClosing, ConnInv, Links
  <1> QED
    BY <1>1, <1>2 DEF ConnInv, Links

LEMMA LeaveKeeps ==
  ASSUME ConnInv, NEW n \in Nodes, Leave(n), stops' \in 0 .. MaxStops
  PROVE  ConnInv'
  <1>1. PICK X : X = EndsOf(n)
    OBVIOUS
  <1>2. /\ pc' = [pc EXCEPT ![n] = "off"] /\ call' = [call EXCEPT ![n] = 0]
        /\ todo' = [todo EXCEPT ![n] = <<>>] /\ peers' = [peers EXCEPT ![n] = <<>>]
        /\ conns' = Closed(conns, X) /\ astray' = astray \ {n}
    BY <1>1 DEF Leave, Goto
  <1>3. Scalars'
    BY <1>2 DEF Leave, ConnInv, Scalars, Labels, serverVars
  <1>4. \A r \in DOMAIN conns, e \in Ends : /\ <<r, e>> \in X <=> conns[r][e] = n
                                            /\ conns[r][e] \in Nodes
    BY <1>1, EndsAre DEF EndsOf, ConnInv, Links, Conn
  <1>5. Tables'
    BY <1>2 DEF ConnInv, Scalars, Tables
  <1>6. Calls' /\ AnswerDue'
    <2>1. ASSUME NEW k \in Nodes
          PROVE  /\ pc'[k] = "greeting" <=> call'[k] # 0
                 /\ pc'[k] = "greeting" =>
                      /\ pc[k] = "greeting" /\ call'[k] = call[k] /\ todo'[k] = todo[k]
                      /\ <<call[k], "caller">> \notin X
                      /\ k \in astray => k \in astray'
      <3>1. Waiting(k) => call[k] \in DOMAIN conns /\ conns[call[k]]["caller"] = k
        BY DEF ConnInv, Calls
      <3> QED
        BY <1>2, <1>4, <3>1, EndsAre DEF ConnInv, Scalars, Calls, Waiting
    <2> QED
      BY <1>2, <2>1, CallsClosing
  <1>7. Links'
    BY <1>2, <1>4, LinksClosing DEF ConnInv, Scalars
  <1>8. SocketsServed'
    <2>1. ASSUME NEW m \in Nodes, NEW k \in DOMAIN peers'[m]
          PROVE  Served(m, k)'
      <3>1. m # n /\ k \in DOMAIN peers[m] /\ peers'[m][k] = peers[m][k]
        BY <1>2, <2>1 DEF ConnInv, Scalars
      <3> QED
        BY <1>2, <1>4, <3>1, ServedClosing
    <2> QED
      BY <2>1 DEF SocketsServed, Served
  <1> QED
    BY <1>3, <1>5, <1>6, <1>7, <1>8 DEF ConnInv

LEMMA CleanupKeeps ==
  ASSUME ConnInv, NEW s \in DOMAIN conns, NEW e \in Ends, Cleanup(s, e)
  PROVE  ConnInv'
  <1>1. PICK X, n, p : X = {<<s, e>>} /\ n = conns[s][e] /\ p = conns[s][Other(e)]
    OBVIOUS
  <1>2. /\ e \in conns[s].threads /\ Other(e) \in conns[s].gone
        /\ peers' = [peers EXCEPT ![n] = Erase(@, p)] /\ conns' = Closed(conns, X)
        /\ UNCHANGED <<pc, id, todo, call, view, early, stops, starts, astray, nextId, known>>
    BY <1>1 DEF Cleanup, serverVars, history
  <1>3. n \in Nodes /\ p \in Nodes /\ pc[n] # "off" /\ e \notin conns[s].gone
    BY <1>1, <1>2, EndsAre DEF ConnInv, Links, Conn
  <1>4. /\ DOMAIN peers' = Nodes /\ \A m \in Nodes \ {n} : peers'[m] = peers[m]
        /\ DOMAIN peers'[n] = DOMAIN peers[n] \ {p}
        /\ \A k \in DOMAIN peers[n] \ {p} : peers'[n][k] = peers[n][k]
    BY <1>2, <1>3 DEF ConnInv, Scalars, Erase
  <1>5. Scalars'
    BY <1>2, <1>4 DEF ConnInv, Scalars
  <1>6. Tables'
    BY <1>2, <1>3, <1>4 DEF ConnInv, Tables
  <1>7. Calls' /\ AnswerDue'
    <2>1. ASSUME NEW k \in Nodes
          PROVE  /\ pc'[k] = "greeting" <=> call'[k] # 0
                 /\ pc'[k] = "greeting" =>
                      /\ pc[k] = "greeting" /\ call'[k] = call[k] /\ todo'[k] = todo[k]
                      /\ <<call[k], "caller">> \notin X
                      /\ k \in astray => k \in astray'
      <3>1. Waiting(k) => "caller" \notin conns[call[k]].threads
        BY DEF ConnInv, Calls
      <3> QED
        BY <1>1, <1>2, <3>1 DEF ConnInv, Calls, Waiting
    <2> QED
      BY <1>2, <2>1, CallsClosing
  <1>8. Links'
    BY <1>2, LinksClosing
  <1>9. SocketsServed'
    <2>1. ASSUME NEW m \in Nodes, NEW k \in DOMAIN peers'[m]
          PROVE  Served(m, k)'
      <3>1. ~(m = n /\ k = p) /\ k \in DOMAIN peers[m] /\ peers'[m][k] = peers[m][k]
        BY <1>4, <2>1
      <3>2. \A r \in DOMAIN conns, d \in Ends :
              <<r, d>> \in X => ~(conns[r][d] = m /\ conns[r][Other(d)] = k /\ d \notin conns[r].gone)
        BY <1>1, <3>1
      <3> QED
        BY <1>2, <3>1, <3>2, ServedClosing
    <2> QED
      BY <2>1 DEF SocketsServed, Served
  <1> QED
    BY <1>5, <1>6, <1>7, <1>8, <1>9 DEF ConnInv

LEMMA HeadTyped ==
  ASSUME NEW S, NEW q \in Seq(S), q # <<>>
  PROVE  Head(q) \in S /\ Tail(q) \in Seq(S)
  OBVIOUS

LEMMA Appended ==
  ASSUME NEW S, NEW q \in Seq(S), NEW m \in S
  PROVE  Append(q, m) \in Seq(S) /\ Append(q, m) # <<>>
  <1>1. Append(q, m) \in Seq(S) /\ Len(Append(q, m)) = Len(q) + 1 /\ Len(q) \in Nat
    OBVIOUS
  <1>2. Len(Append(q, m)) # 0
    BY <1>1
  <1> QED
    BY <1>1, <1>2

LEMMA NextCall ==
  ASSUME ConnInv, NEW n \in Nodes, todo[n] # <<>>
  PROVE  /\ Called(n) \in Nodes /\ Head(todo[n]).id \in Nat
         /\ Tail(todo[n]) \in Seq(Addresses)
  <1>1. Head(todo[n]) \in Addresses /\ Tail(todo[n]) \in Seq(Addresses)
    BY HeadTyped DEF ConnInv, Scalars
  <1> QED
    BY <1>1 DEF Called, Addresses

LEMMA ConnectKeeps ==
  ASSUME ConnInv, NEW n \in Nodes, Connect(n)
  PROVE  ConnInv'
  <1>1. PICK s \in Slots \ DOMAIN conns :
           /\ conns' = Put(conns, s, NewConn(n, Called(n), {}))
           /\ call' = [call EXCEPT ![n] = s]
    BY DEF Connect
  <1>2. /\ pc[n] = "connecting" /\ todo[n] # <<>> /\ pc[Called(n)] # "off"
        /\ pc' = [pc EXCEPT ![n] = "greeting"]
        /\ UNCHANGED <<serverVars, id, todo, view, peers, early, stops, history>>
    BY DEF Connect, Goto, Listening
  <1>3. s # 0
    BY MembershipAssumption
  <1>4. Called(n) \in Nodes /\ id[n] \in Nat
    BY <1>2, NextCall DEF ConnInv, Scalars
  <1>5. /\ DOMAIN conns' = DOMAIN conns \cup {s}
        /\ \A r \in DOMAIN conns : conns'[r] = conns[r]
        /\ conns'[s] = NewConn(n, Called(n), {})
    BY <1>1 DEF Put
  <1>6. /\ conns'[s] \in Conn
        /\ conns'[s]["caller"] = n /\ conns'[s]["callee"] = Called(n) /\ conns'[s].stage = "called"
        /\ conns'[s].gone = {} /\ conns'[s].threads = {}
    BY <1>4, <1>5 DEF NewConn, Conn
  <1>7. Scalars'
    BY <1>1, <1>2 DEF ConnInv, Scalars, Labels, serverVars, history
  <1>8. Tables'
    BY <1>2 DEF ConnInv, Scalars, Tables
  <1>9. Calls'
    <2>1. ASSUME NEW k \in Nodes, k # n
          PROVE  /\ pc'[k] = "greeting" <=> call'[k] # 0
                 /\ pc'[k] = "greeting" =>
                     /\ todo'[k] # <<>> /\ call'[k] \in DOMAIN conns'
                     /\ conns'[call'[k]].caller = k /\ conns'[call'[k]].callee = Called(k)'
                     /\ "caller" \notin conns'[call'[k]].gone
                     /\ "caller" \notin conns'[call'[k]].threads
      <3>1. pc'[k] = pc[k] /\ call'[k] = call[k] /\ todo'[k] = todo[k] /\ Called(k)' = Called(k)
        BY <1>1, <1>2, <2>1 DEF ConnInv, Scalars, Called
      <3> QED
        BY <1>5, <3>1 DEF ConnInv, Calls, Waiting
    <2>2. /\ pc'[n] = "greeting" /\ call'[n] = s /\ todo'[n] # <<>> /\ Called(n)' = Called(n)
      BY <1>1, <1>2 DEF ConnInv, Scalars, Called
    <2> QED
      BY <1>3, <1>5, <1>6, <2>1, <2>2 DEF Calls, Waiting
  <1>10. Links'
    <2>1. \A r \in DOMAIN conns' : conns'[r] \in Conn /\ conns'[r].threads \cap conns'[r].gone = {}
      BY <1>5, <1>6 DEF ConnInv, Links
    <2>2. \A k \in Nodes : pc[k] # "off" => pc'[k] # "off"
      BY <1>2 DEF ConnInv, Scalars
    <2>3. ASSUME NEW r \in DOMAIN conns', NEW e \in Ends \ conns'[r].gone
          PROVE  pc'[conns'[r][e]] # "off"
      <3>1. CASE r = s
        BY <1>2, <1>4, <1>6, <2>2, <3>1, EndsAre
      <3>2. CASE r # s
        BY <1>5, <2>2, <3>2, EndsAre DEF ConnInv, Links, Conn
      <3> QED
        BY <3>1, <3>2
    <2> QED
      BY <1>5, <2>1, <2>3 DEF ConnInv, Links
  <1>11. SocketsServed'
    <2>1. Grows
      BY <1>5 DEF Grows
    <2> QED
      BY <1>2, <2>1, SocketsKept DEF ConnInv, Scalars
  <1>12. AnswerDue'
    <2>1. ASSUME NEW k \in Nodes, pc'[k] = "greeting", k \notin astray'
          PROVE  Due(k)'
      <3>1. CASE k = n
        <4>1. call'[k] = s
          BY <1>1, <3>1 DEF ConnInv, Scalars
        <4> QED
          BY <1>6, <4>1 DEF Due
      <3>2. CASE k # n
        <4>1. pc[k] = "greeting" /\ call'[k] = call[k] /\ k \notin astray
          BY <1>1, <1>2, <2>1, <3>2 DEF ConnInv, Scalars, history
        <4>2. Due(k) /\ call[k] \in DOMAIN conns
          BY <4>1, Unfolded DEF ConnInv, Calls, Waiting
        <4> QED
          BY <1>5, <4>1, <4>2 DEF Due
      <3> QED
        BY <3>1, <3>2
    <2> QED
      BY <2>1 DEF AnswerDue, Due
  <1> QED
    BY <1>7, <1>8, <1>9, <1>10, <1>11, <1>12 DEF ConnInv

LEMMA GreetedKeeps ==
  ASSUME ConnInv, NEW n \in Nodes, Greeted(n)
  PROVE  ConnInv'
  <1>1. PICK s, k, info :
           /\ s = call[n] /\ k = Called(n)
           /\ info = [id |-> Head(todo[n]).id, named |-> TRUE, socket |-> <<s, "caller">>]
    OBVIOUS
  <1>2. /\ pc[n] = "greeting" /\ conns[s].mail["caller"] # <<>>
        /\ pc' = [pc EXCEPT ![n] = "connecting"] /\ call' = [call EXCEPT ![n] = 0]
        /\ todo' = [todo EXCEPT ![n] = Tail(@)]
        /\ peers' = [peers EXCEPT ![n] = Put(@, k, info)]
        /\ conns' = [conns EXCEPT ![s].mail["caller"] = Tail(@),
                                  ![s].threads = @ \cup {"caller"}]
        /\ UNCHANGED <<serverVars, id, view, early, stops, history>>
    BY <1>1 DEF Greeted, Goto
  <1>3. /\ s \in DOMAIN conns /\ s \in Slots /\ conns[s] \in Conn
        /\ conns[s]["caller"] = n /\ conns[s]["callee"] = k
        /\ "caller" \notin conns[s].gone /\ todo[n] # <<>>
    <2>1. s \in DOMAIN conns /\ conns[s]["caller"] = n /\ conns[s]["callee"] = k
          /\ "caller" \notin conns[s].gone /\ todo[n] # <<>>
      BY <1>1, <1>2 DEF ConnInv, Calls, Waiting
    <2> QED
      BY <2>1 DEF ConnInv, Links
  <1>4. /\ k \in Nodes /\ Head(todo[n]).id \in Nat /\ Tail(todo[n]) \in Seq(Addresses)
    BY <1>1, <1>3, NextCall
  <1>5. info \in PeerInfo /\ info.socket = <<s, "caller">>
    BY <1>1, <1>3, <1>4 DEF PeerInfo, Sockets, Ends
  <1>6. /\ DOMAIN conns' = DOMAIN conns
        /\ \A r \in DOMAIN conns \ {s} : conns'[r] = conns[r]
    BY <1>2, <1>3
  <1>7. /\ conns'[s] \in Conn
        /\ conns'[s]["caller"] = n /\ conns'[s]["callee"] = k
        /\ conns'[s].stage = conns[s].stage /\ conns'[s].gone = conns[s].gone
        /\ conns'[s].threads = conns[s].threads \cup {"caller"}
    <2>1. conns[s].mail \in [Ends -> Seq(SUBSET Nodes)] /\ conns[s].threads \subseteq Ends
      BY <1>3 DEF Conn
    <2>2. Tail(conns[s].mail["caller"]) \in Seq(SUBSET Nodes)
      BY <1>2, <2>1, HeadTyped, EndsAre
    <2>3. PICK c, m, T :
             c = conns[s] /\ m = [conns[s].mail EXCEPT !["caller"] = Tail(@)]
             /\ T = conns[s].threads \cup {"caller"}
      OBVIOUS
    <2>4. conns'[s] = [c EXCEPT !.mail = m, !.threads = T]
      BY <1>2, <1>3, <2>3
    <2>5. c \in Conn /\ m \in [Ends -> Seq(SUBSET Nodes)] /\ T \in SUBSET Ends
      BY <1>3, <2>1, <2>2, <2>3, EndsAre
    <2>6. conns'[s] \in Conn
      BY <2>4, <2>5 DEF Conn
    <2>7. /\ conns'[s].caller = c.caller /\ conns'[s].callee = c.callee
          /\ conns'[s].stage = c.stage /\ conns'[s].gone = c.gone /\ conns'[s].threads = T
      BY <2>4, <2>5 DEF Conn
    <2> QED
      BY <1>3, <2>3, <2>6, <2>7
  <1>8. /\ DOMAIN peers' = Nodes /\ \A m \in Nodes \ {n} : peers'[m] = peers[m]
        /\ DOMAIN peers'[n] = DOMAIN peers[n] \cup {k} /\ peers'[n][k] = info
        /\ \A j \in DOMAIN peers[n] \ {k} : peers'[n][j] = peers[n][j]
    BY <1>2 DEF ConnInv, Scalars, Put
  <1>9. Scalars'
    BY <1>2, <1>4, <1>8 DEF ConnInv, Scalars, Labels, serverVars, history
  <1>10. Tables'
    <2>1. pc'[n] # "off" /\ \A m \in Nodes \ {n} : pc'[m] = pc[m]
      BY <1>2 DEF ConnInv, Scalars
    <2> QED
      BY <1>4, <1>5, <1>8, <2>1 DEF ConnInv, Tables
  <1>11. \A m \in Nodes :
           /\ pc'[m] = "greeting" <=> call'[m] # 0
           /\ pc'[m] = "greeting" => /\ m # n /\ pc[m] = "greeting" /\ call'[m] = call[m]
                                     /\ todo'[m] = todo[m] /\ call[m] \in DOMAIN conns \ {s}
    BY <1>2, <1>3 DEF ConnInv, Scalars, Calls, Waiting
  <1>12. Calls'
    BY <1>6, <1>11, CallsKept DEF ConnInv, Calls
  <1>13. Links'
    <2>1. \A r \in DOMAIN conns' : conns'[r] \in Conn /\ conns'[r].threads \cap conns'[r].gone = {}
      BY <1>3, <1>6, <1>7 DEF ConnInv, Links
    <2>2. \A m \in Nodes : pc[m] # "off" => pc'[m] # "off"
      BY <1>2 DEF ConnInv, Scalars
    <2>3. ASSUME NEW r \in DOMAIN conns', NEW e \in Ends \ conns'[r].gone
          PROVE  pc'[conns'[r][e]] # "off"
      <3>1. r \in DOMAIN conns /\ e \in Ends \ conns[r].gone /\ conns'[r][e] = conns[r][e]
        BY <1>3, <1>6, <1>7, EndsAre
      <3> QED
        BY <2>2, <3>1, EndsAre DEF ConnInv, Links, Conn
    <2> QED
      BY <1>6, <2>1, <2>3 DEF ConnInv, Links
  <1>14. SocketsServed'
    <2>1. Grows
      BY <1>3, <1>6, <1>7 DEF Grows
    <2>2. Served(n, k)'
      BY <1>3, <1>5, <1>6, <1>7, <1>8, EndsAre DEF Served
    <2> QED
      BY <1>8, <2>1, <2>2, SocketsKept
  <1>15. AnswerDue'
    <2>1. ASSUME NEW m \in Nodes, pc'[m] = "greeting", m \notin astray'
          PROVE  Due(m)'
      <3>1. Due(m) /\ call'[m] = call[m] /\ call[m] \in DOMAIN conns \ {s}
        BY <1>2, <1>11, <2>1, Unfolded DEF ConnInv, history
      <3> QED
        BY <1>6, <3>1 DEF Due
    <2> QED
      BY <2>1 DEF AnswerDue, Due
  <1> QED
    BY <1>9, <1>10, <1>12, <1>13, <1>14, <1>15 DEF ConnInv

\* Steps that change connections and tables, and no start.
Serving ==
    UNCHANGED <<nextId, known, pc, id, todo, call, view, stops, starts>>

LEMMA ServingKeeps ==
  ASSUME ConnInv, Serving, Grows, early' \in 0 .. MaxEarly, DOMAIN conns' \subseteq Slots,
         DOMAIN peers' = Nodes, Tables', SocketsServed',
         \A r \in DOMAIN conns' : conns'[r] \in Conn,
         \A r \in DOMAIN conns' \ DOMAIN conns :
            /\ conns'[r].gone = {}
            /\ pc[conns'[r].caller] # "off" /\ pc[conns'[r].callee] # "off",
         \A r \in DOMAIN conns :
            /\ conns'[r].threads \cap conns[r].gone = {}
            /\ "caller" \in conns'[r].threads => "caller" \in conns[r].threads,
         \A n \in Nodes : Waiting(n) /\ n \notin astray' => n \notin astray /\ Due(n)'
  PROVE  ConnInv'
  <1>1. Scalars'
    BY DEF Serving, ConnInv, Scalars
  <1>2. Calls'
    BY DEF Serving, Grows, ConnInv, Calls, Waiting, Called
  <1>3. Links'
    <2>1. ASSUME NEW r \in DOMAIN conns', NEW e \in Ends \ conns'[r].gone
          PROVE  pc'[conns'[r][e]] # "off"
      <3>1. CASE r \in DOMAIN conns
        BY <3>1, EndsAre DEF Serving, Grows, ConnInv, Links
      <3>2. CASE r \notin DOMAIN conns
        BY <3>2, EndsAre DEF Serving
      <3> QED
        BY <3>1, <3>2
    <2>2. \A r \in DOMAIN conns' : conns'[r].threads \cap conns'[r].gone = {}
      BY DEF Grows
    <2> QED
      BY <2>1, <2>2 DEF Links
  <1>4. AnswerDue'
    BY DEF Serving, AnswerDue, Waiting, Due
  <1> QED
    BY <1>1, <1>2, <1>3, <1>4 DEF ConnInv

LEMMA AddCallerKeeps ==
  ASSUME ConnInv, NEW s \in DOMAIN conns, AddCaller(s)
  PROVE  ConnInv'
  <1>1. PICK c, k, n, list, info :
           /\ c = conns[s] /\ k = conns[s].callee /\ n = conns[s].caller /\ list = PeersToJson(k)
           /\ info = [id |-> conns[s].id, named |-> TRUE, socket |-> <<s, "callee">>]
    OBVIOUS
  <1>2. /\ c.stage = "called" /\ "callee" \notin c.gone
        /\ conns' = [conns EXCEPT ![s].stage = "added", ![s].list = list]
        /\ peers' = [peers EXCEPT ![k] = Put(@, n, info)]
        /\ Serving /\ UNCHANGED <<early, astray>>
    BY <1>1 DEF AddCaller, Serving, serverVars, history
  <1>3. /\ c \in Conn /\ k \in Nodes /\ n \in Nodes /\ s \in Slots /\ pc[k] # "off"
    BY <1>1, <1>2, EndsAre DEF ConnInv, Links, Conn
  <1>4. list \in SUBSET Nodes
    BY <1>1, <1>3 DEF PeersToJson, ConnInv, Tables
  <1>5. info \in PeerInfo /\ info.socket = <<s, "callee">>
    BY <1>1, <1>3, EndsAre DEF PeerInfo, Sockets, Conn
  <1>6. /\ DOMAIN conns' = DOMAIN conns
        /\ \A r \in DOMAIN conns \ {s} : conns'[r] = conns[r]
        /\ conns'[s] = [c EXCEPT !.stage = "added", !.list = list]
    BY <1>1, <1>2
  <1>7. /\ conns'[s] \in Conn /\ conns'[s]["caller"] = n /\ conns'[s]["callee"] = k
        /\ conns'[s].stage = "added" /\ conns'[s].gone = c.gone /\ conns'[s].threads = c.threads
    BY <1>1, <1>3, <1>4, <1>6 DEF Conn
  <1>8. /\ DOMAIN peers' = Nodes /\ \A m \in Nodes \ {k} : peers'[m] = peers[m]
        /\ DOMAIN peers'[k] = DOMAIN peers[k] \cup {n} /\ peers'[k][n] = info
        /\ \A j \in DOMAIN peers[k] \ {n} : peers'[k][j] = peers[k][j]
    BY <1>2, <1>3 DEF ConnInv, Scalars, Put
  <1>9. Tables'
    BY <1>2, <1>3, <1>5, <1>8 DEF Serving, ConnInv, Tables
  <1>10. Grows
    BY <1>1, <1>6, <1>7 DEF Grows
  <1>11. SocketsServed'
    <2>1. /\ s \in DOMAIN conns' /\ "callee" \notin conns'[s].gone
          /\ peers'[k][n].socket[1] = s /\ peers'[k][n].socket[2] = "callee"
      BY <1>2, <1>5, <1>6, <1>7, <1>8
    <2>2. Served(k, n)'
      BY <1>7, <2>1, EndsAre DEF Served
    <2> QED
      BY <1>8, <1>10, <2>2, SocketsKept
  <1>12. ASSUME NEW m \in Nodes, Waiting(m), m \notin astray'
         PROVE  m \notin astray /\ Due(m)'
    <2>1. m \notin astray /\ Due(m) /\ call'[m] = call[m] /\ call[m] \in DOMAIN conns
      BY <1>2, <1>12, Unfolded DEF Serving, ConnInv, Calls, Waiting
    <2>2. CASE call[m] = s
      BY <1>7, <2>1, <2>2 DEF Due
    <2>3. CASE call[m] # s
      BY <1>6, <2>1, <2>3 DEF Due
    <2> QED
      BY <2>1, <2>2, <2>3
  <1>13. /\ DOMAIN conns' \subseteq Slots /\ \A r \in DOMAIN conns' : conns'[r] \in Conn
         /\ \A r \in DOMAIN conns : conns'[r].threads = conns[r].threads
                                    /\ conns[r].threads \cap conns[r].gone = {}
    BY <1>1, <1>6, <1>7 DEF ConnInv, Links
  <1>14. early' \in 0 .. MaxEarly
    BY <1>2 DEF ConnInv, Scalars
  <1> QED
    BY <1>2, <1>6, <1>8, <1>9, <1>10, <1>11, <1>12, <1>13, <1>14, ServingKeeps

\* Connections after m was sent, or could not be.
Sent(cs) ==
    /\ DOMAIN cs = DOMAIN conns
    /\ \A r \in DOMAIN conns :
        /\ cs[r] \in Conn
        /\ cs[r].caller = conns[r].caller /\ cs[r].callee = conns[r].callee
        /\ cs[r].stage = conns[r].stage
        /\ cs[r].gone = conns[r].gone /\ cs[r].threads = conns[r].threads
        /\ \A e \in Ends : conns[r].mail[e] # <<>> => cs[r].mail[e] # <<>>

LEMMA SendIs ==
  ASSUME ConnInv, NEW n \in Nodes, NEW k \in DOMAIN peers[n], NEW m \in SUBSET Nodes
  PROVE  /\ Sent(SendMessageTo(conns, n, k, m))
         /\ \A r \in DOMAIN conns : SocketTo(n, k) = <<r, "callee">> /\ "caller" \notin conns[r].gone
              => SendMessageTo(conns, n, k, m)[r].mail["caller"] # <<>>
  <1>1. PICK s, e, to : s = SocketTo(n, k)[1] /\ e = SocketTo(n, k)[2] /\ to = Other(SocketTo(n, k)[2])
    OBVIOUS
  <1>2. to \in Ends
    BY <1>1, EntriesTyped DEF SocketTo
  <1>3. \A r \in DOMAIN conns : conns[r] \in Conn
    BY DEF ConnInv, Links
  <1>4. CASE s \in DOMAIN conns /\ to \notin conns[s].gone
    <2>1. PICK cs, c, box :
             /\ cs = SendMessageTo(conns, n, k, m) /\ c = conns[s]
             /\ box = [conns[s].mail EXCEPT ![to] = Append(@, m)]
      OBVIOUS
    <2>2. cs = [conns EXCEPT ![s].mail[to] = Append(@, m)]
      BY <1>1, <1>4, <2>1 DEF SendMessageTo
    <2>3. /\ DOMAIN cs = DOMAIN conns /\ \A r \in DOMAIN conns \ {s} : cs[r] = conns[r]
          /\ cs[s] = [c EXCEPT !.mail = box]
      BY <1>4, <2>1, <2>2
    <2>4. c \in Conn /\ c.mail \in [Ends -> Seq(SUBSET Nodes)]
      BY <1>3, <1>4, <2>1 DEF Conn
    <2>5. /\ box \in [Ends -> Seq(SUBSET Nodes)] /\ box[to] # <<>>
          /\ \A d \in Ends : c.mail[d] # <<>> => box[d] # <<>>
      <3>1. Append(c.mail[to], m) \in Seq(SUBSET Nodes) /\ Append(c.mail[to], m) # <<>>
        BY <1>2, <2>4, Appended
      <3>2. box = [c.mail EXCEPT ![to] = Append(@, m)]
        BY <2>1
      <3> QED
        BY <1>2, <2>4, <3>1, <3>2
    <2>6. /\ cs[s] \in Conn /\ cs[s].caller = c.caller /\ cs[s].callee = c.callee
          /\ cs[s].stage = c.stage /\ cs[s].gone = c.gone /\ cs[s].threads = c.threads
          /\ cs[s].mail = box
      BY <2>3, <2>4, <2>5 DEF Conn
    <2>7. Sent(cs)
      <3>1. /\ DOMAIN cs = DOMAIN conns /\ \A r \in DOMAIN conns \ {s} : cs[r] = conns[r]
        BY <2>3
      <3> QED
        BY <1>3, <2>1, <2>5, <2>6, <3>1, SMTT(30) DEF Sent
    <2>8. ASSUME NEW r \in DOMAIN conns, SocketTo(n, k) = <<r, "callee">>
          PROVE  cs[r].mail["caller"] # <<>>
      BY <1>1, <2>5, <2>6, <2>8, EndsAre
    <2> QED
      BY <2>1, <2>7, <2>8
  <1>5. CASE ~(s \in DOMAIN conns /\ to \notin conns[s].gone)
    <2>1. SendMessageTo(conns, n, k, m) = conns
      BY <1>1, <1>5 DEF SendMessageTo
    <2>2. ASSUME NEW r \in DOMAIN conns, SocketTo(n, k) = <<r, "callee">>
          PROVE  "caller" \in conns[r].gone
      BY <1>1, <1>5, <2>2, EndsAre
    <2> QED
      BY <1>3, <2>1, <2>2 DEF Sent
  <1> QED
    BY <1>4, <1>5

\* Whether or not the table has the other node.
LEMMA SendKeeps ==
  ASSUME ConnInv, NEW n \in Nodes, NEW k, NEW m \in SUBSET Nodes
  PROVE  Sent(SendMessageTo(conns, n, k, m))
  <1>1. CASE k \in DOMAIN peers[n]
    BY <1>1, SendIs
  <1>2. CASE k \notin DOMAIN peers[n]
    <2>1. SocketTo(n, k)[1] = 0
      BY <1>2 DEF SocketTo, NoSocket
    <2>2. 0 \notin DOMAIN conns
      BY MembershipAssumption DEF ConnInv, Links
    <2>3. SendMessageTo(conns, n, k, m) = conns
      BY <2>1, <2>2 DEF SendMessageTo
    <2> QED
      BY <2>3 DEF Sent, ConnInv, Links
  <1> QED
    BY <1>1, <1>2

LEMMA SendOtherKeeps ==
  ASSUME ConnInv, NEW n \in Nodes, NEW k \in Nodes, SendOther(n, k)
  PROVE  ConnInv'
  <1>1. /\ early < MaxEarly /\ k \in DOMAIN peers[n] /\ conns' = SendMessageTo(conns, n, k, {})
        /\ early' = early + 1 /\ UNCHANGED <<peers, astray>> /\ Serving
    BY DEF SendOther, PeersToJson, Serving, serverVars, history
  <1>2. Sent(conns')
    BY <1>1, SendIs
  <1>3. Grows
    BY <1>2 DEF Sent, Grows
  <1>4. SocketsServed'
    BY <1>1, <1>3, SocketsKept DEF ConnInv, Scalars
  <1>5. ASSUME NEW m \in Nodes, Waiting(m), m \notin astray'
        PROVE  m \notin astray /\ Due(m)'
    <2>1. m \notin astray /\ Due(m) /\ call'[m] = call[m] /\ call[m] \in DOMAIN conns
      BY <1>1, <1>5, Unfolded DEF Serving, ConnInv, Calls, Waiting
    <2> QED
      BY <1>2, <2>1, EndsAre DEF Sent, Due
  <1>6. /\ DOMAIN conns' = DOMAIN conns /\ DOMAIN conns' \subseteq Slots
        /\ \A r \in DOMAIN conns' : conns'[r] \in Conn
        /\ \A r \in DOMAIN conns : conns'[r].threads = conns[r].threads
                                    /\ conns[r].threads \cap conns[r].gone = {}
    BY <1>2 DEF Sent, ConnInv, Links
  <1>7. Tables' /\ DOMAIN peers' = Nodes /\ early' \in 0 .. MaxEarly
    BY <1>1, MembershipAssumption DEF Serving, ConnInv, Scalars, Tables
  <1> QED
    BY <1>1, <1>3, <1>4, <1>5, <1>6, <1>7, ServingKeeps

LEMMA ReplyKeeps ==
  ASSUME ConnInv, NEW s \in DOMAIN conns, Reply(s)
  PROVE  ConnInv'
  <1>1. PICK c, k, n, cs :
           /\ c = conns[s] /\ k = conns[s].callee /\ n = conns[s].caller
           /\ cs = SendMessageTo(conns, k, n, c.list)
    OBVIOUS
  <1>2. /\ c.stage = "added" /\ "callee" \notin c.gone
        /\ conns' = [cs EXCEPT ![s].stage = "accepted", ![s].list = {},
                               ![s].threads = @ \cup {"callee"}]
        /\ Serving /\ UNCHANGED <<early, peers>>
    BY <1>1 DEF Reply, Serving, serverVars
  <1>3. /\ astray \subseteq astray'
        /\ call[n] = s /\ "caller" \notin c.gone /\ c.mail["caller"] = <<>>
           /\ SocketTo(k, n) # <<s, "callee">> => n \in astray'
    BY <1>1 DEF Reply
  <1>4. /\ c \in Conn /\ k \in Nodes /\ n \in Nodes /\ c.list \in SUBSET Nodes
    BY <1>1 DEF ConnInv, Links, Conn
  <1>5. Sent(cs)
    BY <1>1, <1>4, SendKeeps
  <1>6. PICK d : d = cs[s]
    OBVIOUS
  <1>7. /\ d \in Conn /\ d.caller = n /\ d.callee = k /\ d.gone = c.gone /\ d.threads = c.threads
        /\ c.mail["caller"] # <<>> => d.mail["caller"] # <<>>
    BY <1>1, <1>5, <1>6, EndsAre DEF Sent
  <1>8. /\ DOMAIN conns' = DOMAIN conns
        /\ \A r \in DOMAIN conns \ {s} : conns'[r] = cs[r]
        /\ conns'[s] = [d EXCEPT !.stage = "accepted", !.list = {}, !.threads = @ \cup {"callee"}]
    BY <1>2, <1>5, <1>6 DEF Sent
  <1>9. /\ conns'[s] \in Conn /\ conns'[s].caller = n /\ conns'[s].callee = k
        /\ conns'[s].gone = c.gone /\ conns'[s].threads = c.threads \cup {"callee"}
        /\ conns'[s].mail = d.mail
    <2>1. d.threads \cup {"callee"} \in SUBSET Ends
      BY <1>7, EndsAre DEF Conn
    <2> QED
      BY <1>7, <1>8, <2>1 DEF Conn
  <1>10. DOMAIN conns' = DOMAIN conns /\ \A r \in DOMAIN conns \ {s} : conns'[r] = cs[r]
    BY <1>8
  <1>11. Grows
    BY <1>1, <1>5, <1>9, <1>10 DEF Sent, Grows
  <1>12. SocketsServed'
    BY <1>2, <1>11, SocketsKept DEF ConnInv, Scalars
  <1>13. ASSUME NEW m \in Nodes, Waiting(m), m \notin astray'
         PROVE  m \notin astray /\ Due(m)'
    <2>1. /\ m \notin astray /\ Due(m) /\ call'[m] = call[m] /\ call[m] \in DOMAIN conns
          /\ conns[call[m]].caller = m /\ "caller" \notin conns[call[m]].gone
      BY <1>2, <1>3, <1>13, Unfolded DEF Serving, ConnInv, Calls, Waiting
    <2>2. CASE call[m] = s
      <3>1. m = n
        BY <1>1, <2>1, <2>2
      <3>2. d.mail["caller"] # <<>>
        <4>1. CASE c.mail["caller"] # <<>>
          BY <1>7, <4>1
        <4>2. CASE c.mail["caller"] = <<>>
          <5>1. SocketTo(k, n) = <<s, "callee">>
            BY <1>1, <1>3, <1>13, <2>1, <2>2, <3>1, <4>2
          <5>2. n \in DOMAIN peers[k]
            <6>1. s # 0
              BY MembershipAssumption DEF ConnInv, Links
            <6> QED
              BY <5>1, <6>1 DEF SocketTo, NoSocket
          <5> QED
            BY <1>1, <1>4, <1>6, <2>1, <2>2, <5>1, <5>2, SendIs
        <4> QED
          BY <4>1, <4>2
      <3> QED
        BY <1>9, <2>1, <2>2, <3>2 DEF Due
    <2>3. CASE call[m] # s
      BY <1>5, <1>10, <2>1, <2>3, EndsAre DEF Sent, Due
    <2> QED
      BY <2>1, <2>2, <2>3
  <1>14. /\ DOMAIN conns' \subseteq Slots
         /\ \A r \in DOMAIN conns' : conns'[r] \in Conn
         /\ \A r \in DOMAIN conns :
              /\ conns'[r].threads \cap conns[r].gone = {}
              /\ "caller" \in conns'[r].threads => "caller" \in conns[r].threads
    <2>1. \A r \in DOMAIN conns : conns[r].threads \cap conns[r].gone = {}
      BY DEF ConnInv, Links
    <2>2. DOMAIN conns' \subseteq Slots
      BY <1>10 DEF ConnInv, Links
    <2>3. /\ \A r \in DOMAIN conns \ {s} : conns'[r] \in Conn /\ conns'[r].threads = conns[r].threads
      BY <1>5, <1>10 DEF Sent
    <2>4. /\ conns'[s] \in Conn /\ conns'[s].threads \cap conns[s].gone = {}
          /\ "caller" \in conns'[s].threads => "caller" \in conns[s].threads
      BY <1>1, <1>2, <1>9, <2>1
    <2> QED
      BY <1>10, <2>1, <2>2, <2>3, <2>4
  <1>15. Tables' /\ DOMAIN peers' = Nodes /\ early' \in 0 .. MaxEarly
    BY <1>2 DEF Serving, ConnInv, Scalars, Tables
  <1> QED
    BY <1>2, <1>10, <1>11, <1>12, <1>13, <1>14, <1>15, ServingKeeps

\* What the thread of n that reads end e of s does: a from whom it reads gets an entry, and
\* each node that is new to n a connection.
ReceiveDoes(s, e, n, a, new, slot) ==
    /\ n = conns[s][e] /\ n \in Nodes /\ a \in Nodes /\ pc[n] # "off" /\ e \in conns[s].threads
    /\ new \subseteq Nodes \ (DOMAIN peers[n] \cup {a}) /\ \A k \in new : pc[k] # "off"
    /\ slot \in [new -> Slots \ DOMAIN conns]
    /\ DOMAIN conns' = DOMAIN conns \cup {slot[k] : k \in new}
    /\ \A r \in DOMAIN conns \ {s} : conns'[r] = conns[r]
    /\ conns'[s] \in Conn /\ conns'[s].caller = conns[s].caller /\ conns'[s].callee = conns[s].callee
    /\ conns'[s].stage = conns[s].stage /\ conns'[s].gone = conns[s].gone
    /\ conns'[s].threads = conns[s].threads
    /\ \A d \in Ends \ {e} : conns'[s].mail[d] = conns[s].mail[d]
    /\ \A k \in new :
        /\ conns'[slot[k]] \in Conn
        /\ conns'[slot[k]].caller = n /\ conns'[slot[k]].callee = k
        /\ conns'[slot[k]].gone = {} /\ conns'[slot[k]].threads = {"caller"}
        /\ conns'[slot[k]].stage = "called"
    /\ DOMAIN peers' = Nodes /\ \A j \in Nodes \ {n} : peers'[j] = peers[j]
    /\ DOMAIN peers'[n] = DOMAIN peers[n] \cup {a} \cup new
    /\ \A k \in new : peers'[n][k] = EmptyInfo(<<slot[k], "caller">>)
    /\ \A k \in DOMAIN peers[n] : peers'[n][k] = peers[n][k]
    /\ a \notin DOMAIN peers[n] => peers'[n][a] = EmptyInfo(NoSocket)
    /\ Serving /\ UNCHANGED <<early, astray>>

LEMMA ReceiveIs ==
  ASSUME ConnInv, NEW s \in DOMAIN conns, NEW e \in Ends, Receive(s, e)
  PROVE  \E n, a, new, slot : ReceiveDoes(s, e, n, a, new, slot)
  <1> DEFINE c == conns[s]
             n == conns[s][e]
             author == conns[s][Other(e)]
             m == Head(conns[s].mail[e])
             table == IF author \in DOMAIN peers[n] THEN peers[n]
                      ELSE Put(peers[n], author, EmptyInfo(NoSocket))
             new == {k \in m \ DOMAIN table : Listening(k)}
             slot == CHOOSE f \in Injection(new, Slots \ DOMAIN conns) : TRUE
             used == {slot[k] : k \in new}
  <1>1. c = conns[s] /\ n = conns[s][e] /\ author = conns[s][Other(e)] /\ m = Head(c.mail[e])
    OBVIOUS
  <1>2. new = {k \in m \ DOMAIN table : Listening(k)} /\ used = {slot[k] : k \in new}
    OBVIOUS
  <1>3. /\ e \in c.threads /\ c.mail[e] # <<>>
        /\ ExistsInjection(new, Slots \ DOMAIN conns)
        /\ peers' = [peers EXCEPT ![n] = [k \in DOMAIN table \cup new |->
              IF k \in new THEN EmptyInfo(<<slot[k], "caller">>) ELSE table[k]]]
        /\ conns' = [r \in DOMAIN conns \cup used |->
              IF r \in used
              THEN NewConn(n, CHOOSE k \in new : slot[k] = r, {"caller"})
              ELSE [conns EXCEPT ![s].mail[e] = Tail(@)][r]]
        /\ Serving /\ UNCHANGED <<early, astray>>
    BY DEF Receive, Serving, serverVars, history
  <1>3a. slot \in Injection(new, Slots \ DOMAIN conns)
    BY <1>3 DEF ExistsInjection
  <1>3b. /\ DOMAIN table = DOMAIN peers[n] \cup {author}
         /\ \A k \in DOMAIN peers[n] : table[k] = peers[n][k]
         /\ author \notin DOMAIN peers[n] => table[author] = EmptyInfo(NoSocket)
    BY DEF Put
  <1> HIDE DEF c, n, author, m, table, new, slot, used
  <1>4. /\ c \in Conn /\ n \in Nodes /\ author \in Nodes /\ pc[n] # "off"
        /\ m \in SUBSET Nodes /\ Tail(c.mail[e]) \in Seq(SUBSET Nodes) /\ id[n] \in Nat
    <2>1. c \in Conn /\ e \notin c.gone /\ c.mail[e] \in Seq(SUBSET Nodes)
      BY <1>1, <1>3 DEF ConnInv, Links, Conn
    <2>2. n \in Nodes /\ author \in Nodes /\ pc[n] # "off"
      BY <1>1, <2>1, EndsAre DEF ConnInv, Links, Conn
    <2>3. m \in SUBSET Nodes /\ Tail(c.mail[e]) \in Seq(SUBSET Nodes)
      BY <1>1, <1>3, <2>1, HeadTyped
    <2> QED
      BY <2>1, <2>2, <2>3 DEF ConnInv, Scalars
  <1>5. /\ slot \in [new -> Slots \ DOMAIN conns]
        /\ \A j, k \in new : slot[j] = slot[k] => j = k
    BY <1>3a DEF Injection, IsInjective
  <1>6. /\ new \subseteq Nodes \ DOMAIN table /\ \A k \in new : pc[k] # "off"
        /\ used \subseteq Slots \ DOMAIN conns /\ 0 \notin used
    <2>1. new \subseteq Nodes \ DOMAIN table /\ \A k \in new : pc[k] # "off"
      BY <1>2, <1>4 DEF Listening
    <2>2. used \subseteq Slots \ DOMAIN conns
      BY <1>2, <1>5
    <2> QED
      BY <2>1, <2>2, MembershipAssumption
  <1>7. /\ DOMAIN conns' = DOMAIN conns \cup used
        /\ \A r \in DOMAIN conns \ {s} : conns'[r] = conns[r]
    BY <1>3, <1>6
  <1>8. /\ conns'[s] \in Conn /\ conns'[s].caller = c.caller /\ conns'[s].callee = c.callee
        /\ conns'[s].stage = c.stage /\ conns'[s].gone = c.gone /\ conns'[s].threads = c.threads
        /\ \A d \in Ends \ {e} : conns'[s].mail[d] = c.mail[d]
    <2>1. PICK box : box = [c.mail EXCEPT ![e] = Tail(@)]
      OBVIOUS
    <2>2. conns'[s] = [c EXCEPT !.mail = box]
      BY <1>1, <1>3, <1>6, <2>1
    <2>3. c.mail \in [Ends -> Seq(SUBSET Nodes)]
      BY <1>4 DEF Conn
    <2>4. box \in [Ends -> Seq(SUBSET Nodes)] /\ \A d \in Ends \ {e} : box[d] = c.mail[d]
      BY <1>4, <2>1, <2>3
    <2> QED
      BY <1>4, <2>2, <2>4 DEF Conn
  <1>9. ASSUME NEW k \in new
        PROVE  /\ slot[k] \in used
               /\ conns'[slot[k]] \in Conn
               /\ conns'[slot[k]].caller = n /\ conns'[slot[k]].callee = k
               /\ conns'[slot[k]].gone = {} /\ conns'[slot[k]].threads = {"caller"}
               /\ conns'[slot[k]].stage = "called"
    <2>1. slot[k] \in used /\ k \in Nodes
      BY <1>2, <1>6
    <2>2. (CHOOSE j \in new : slot[j] = slot[k]) = k
      BY <1>5
    <2>3. conns'[slot[k]] = NewConn(n, k, {"caller"})
      BY <1>3, <2>1, <2>2
    <2> QED
      BY <1>4, <2>1, <2>3, EndsAre DEF NewConn, Conn
  <1>10. \A r \in used : \E k \in new : r = slot[k]
    BY <1>2
  <1>11. /\ DOMAIN peers' = Nodes /\ \A j \in Nodes \ {n} : peers'[j] = peers[j]
         /\ DOMAIN peers'[n] = DOMAIN table \cup new
         /\ \A k \in new : peers'[n][k] = EmptyInfo(<<slot[k], "caller">>)
         /\ \A k \in DOMAIN table : peers'[n][k] = table[k]
    BY <1>3, <1>4, <1>6 DEF ConnInv, Scalars
  <1>12. ReceiveDoes(s, e, n, author, new, slot)
    <2>1. new \subseteq Nodes \ (DOMAIN peers[n] \cup {author})
      BY <1>6, <1>3b
    <2>2. /\ DOMAIN peers'[n] = DOMAIN peers[n] \cup {author} \cup new
          /\ \A k \in DOMAIN peers[n] : peers'[n][k] = peers[n][k]
          /\ author \notin DOMAIN peers[n] => peers'[n][author] = EmptyInfo(NoSocket)
      BY <1>11, <1>3b
    <2>3. DOMAIN conns' = DOMAIN conns \cup {slot[k] : k \in new}
      BY <1>2, <1>7
    <2>4. /\ n = conns[s][e] /\ n \in Nodes /\ author \in Nodes /\ pc[n] # "off"
          /\ e \in conns[s].threads /\ \A k \in new : pc[k] # "off"
          /\ slot \in [new -> Slots \ DOMAIN conns]
      BY <1>1, <1>3, <1>4, <1>5, <1>6
    <2>5. /\ conns'[s] \in Conn
          /\ conns'[s].caller = conns[s].caller /\ conns'[s].callee = conns[s].callee
          /\ conns'[s].stage = conns[s].stage /\ conns'[s].gone = conns[s].gone
          /\ conns'[s].threads = conns[s].threads
          /\ \A d \in Ends \ {e} : conns'[s].mail[d] = conns[s].mail[d]
      BY <1>1, <1>8
    <2>6. \A k \in new : /\ conns'[slot[k]] \in Conn
                         /\ conns'[slot[k]].caller = n /\ conns'[slot[k]].callee = k
                         /\ conns'[slot[k]].gone = {} /\ conns'[slot[k]].threads = {"caller"}
                         /\ conns'[slot[k]].stage = "called"
      BY <1>9
    <2>7. /\ DOMAIN peers' = Nodes /\ \A j \in Nodes \ {n} : peers'[j] = peers[j]
          /\ \A k \in new : peers'[n][k] = EmptyInfo(<<slot[k], "caller">>)
          /\ Serving /\ UNCHANGED <<early, astray>>
      BY <1>3, <1>11
    <2>8. \A r \in DOMAIN conns \ {s} : conns'[r] = conns[r]
      BY <1>7
    <2> QED
      BY <2>1, <2>2, <2>3, <2>4, <2>5, <2>6, <2>7, <2>8, Zenon DEF ReceiveDoes
  <1> QED
    BY <1>12

LEMMA ReceiveKeeps ==
  ASSUME ConnInv, NEW s \in DOMAIN conns, NEW e \in Ends, Receive(s, e)
  PROVE  ConnInv'
  <1>1. PICK n, a, new, slot : ReceiveDoes(s, e, n, a, new, slot)
    BY ReceiveIs
  <1>2. PICK used : used = {slot[k] : k \in new}
    OBVIOUS
  <1>3. /\ n = conns[s][e] /\ n \in Nodes /\ a \in Nodes /\ pc[n] # "off" /\ e \in conns[s].threads
        /\ new \subseteq Nodes \ (DOMAIN peers[n] \cup {a}) /\ \A k \in new : pc[k] # "off"
        /\ used \subseteq Slots \ DOMAIN conns /\ \A k \in new : slot[k] \in used
        /\ \A r \in used : \E k \in new : r = slot[k]
        /\ DOMAIN conns' = DOMAIN conns \cup used
    BY <1>1, <1>2 DEF ReceiveDoes
  <1>4. /\ \A r \in DOMAIN conns \ {s} : conns'[r] = conns[r]
        /\ conns'[s] \in Conn
        /\ conns'[s].caller = conns[s].caller /\ conns'[s].callee = conns[s].callee
        /\ conns'[s].stage = conns[s].stage /\ conns'[s].gone = conns[s].gone
        /\ conns'[s].threads = conns[s].threads
        /\ \A d \in Ends \ {e} : conns'[s].mail[d] = conns[s].mail[d]
    BY <1>1 DEF ReceiveDoes
  <1>5. ASSUME NEW k \in new
        PROVE  /\ conns'[slot[k]] \in Conn
               /\ conns'[slot[k]].caller = n /\ conns'[slot[k]].callee = k
               /\ conns'[slot[k]].gone = {} /\ conns'[slot[k]].threads = {"caller"}
    BY <1>1 DEF ReceiveDoes
  <1>6. /\ DOMAIN peers' = Nodes /\ \A j \in Nodes \ {n} : peers'[j] = peers[j]
        /\ DOMAIN peers'[n] = DOMAIN peers[n] \cup {a} \cup new
        /\ \A k \in new : peers'[n][k] = EmptyInfo(<<slot[k], "caller">>)
        /\ \A k \in DOMAIN peers[n] : peers'[n][k] = peers[n][k]
        /\ a \notin DOMAIN peers[n] => peers'[n][a] = EmptyInfo(NoSocket)
        /\ Serving /\ UNCHANGED <<early, astray>>
    BY <1>1 DEF ReceiveDoes
  <1>7. Tables'
    <2>1. EmptyInfo(NoSocket) \in PeerInfo
          /\ \A k \in new : EmptyInfo(<<slot[k], "caller">>) \in PeerInfo
      BY <1>3, EndsAre DEF EmptyInfo, PeerInfo, Sockets
    <2>2. DOMAIN peers'[n] \subseteq Nodes
      BY <1>3, <1>6 DEF ConnInv, Tables
    <2>3. \A k \in DOMAIN peers[n] : peers'[n][k] \in PeerInfo
      BY <1>3, <1>6 DEF ConnInv, Tables
    <2>4. \A k \in new : peers'[n][k] \in PeerInfo
      BY <1>6, <2>1
    <2>5. a \notin DOMAIN peers[n] => peers'[n][a] \in PeerInfo
      BY <1>6, <2>1
    <2>6. \A k \in DOMAIN peers'[n] : peers'[n][k] \in PeerInfo
      BY <1>6, <2>3, <2>4, <2>5
    <2> QED
      BY <1>3, <1>6, <2>2, <2>6 DEF Serving, ConnInv, Tables
  <1>8. Grows
    BY <1>3, <1>4 DEF Grows
  <1>9. SocketsServed'
    <2>1. ASSUME NEW k \in new PROVE Served(n, k)'
      <3>1. PICK r : r = slot[k]
        OBVIOUS
      <3>2. peers'[n][k].socket[1] = r /\ peers'[n][k].socket[2] = "caller"
        <4>1. peers'[n][k] = EmptyInfo(<<r, "caller">>)
          BY <1>6, <2>1, <3>1
        <4> QED
          BY <4>1 DEF EmptyInfo
      <3>3. /\ r \in DOMAIN conns' /\ conns'[r]["caller"] = n /\ conns'[r]["callee"] = k
            /\ "caller" \notin conns'[r].gone /\ "caller" \in conns'[r].threads
        BY <1>3, <1>5, <2>1, <3>1
      <3> QED
        BY <3>2, <3>3, EndsAre DEF Served
    <2>2. a \notin DOMAIN peers[n] => Served(n, a)'
      BY <1>6 DEF Served, EmptyInfo, NoSocket
    <2>3. \A j \in Nodes : \A k \in DOMAIN peers'[j] :
            \/ k \in DOMAIN peers[j] /\ peers'[j][k].socket = peers[j][k].socket
            \/ Served(j, k)'
      BY <1>6, <2>1, <2>2
    <2> QED
      BY <1>6, <1>8, <2>3, SocketsKept
  <1>10. ASSUME NEW k \in Nodes, Waiting(k), k \notin astray'
         PROVE  k \notin astray /\ Due(k)'
    <2>1. /\ k \notin astray /\ Due(k) /\ call'[k] = call[k] /\ call[k] \in DOMAIN conns
          /\ "caller" \notin conns[call[k]].threads
      BY <1>6, <1>10, Unfolded DEF Serving, ConnInv, Calls, Waiting
    <2>2. CASE call[k] = s
      <3>1. "caller" \in Ends \ {e}
        BY <1>3, <2>1, <2>2, EndsAre
      <3> QED
        BY <1>4, <2>1, <2>2, <3>1 DEF Due
    <2>3. CASE call[k] # s
      BY <1>4, <2>1, <2>3 DEF Due
    <2> QED
      BY <2>1, <2>2, <2>3
  <1>11. /\ DOMAIN conns' \subseteq Slots
         /\ \A r \in DOMAIN conns' : conns'[r] \in Conn
         /\ \A r \in DOMAIN conns' \ DOMAIN conns :
              /\ conns'[r].gone = {}
              /\ pc[conns'[r].caller] # "off" /\ pc[conns'[r].callee] # "off"
         /\ \A r \in DOMAIN conns : conns'[r].threads = conns[r].threads
                                    /\ conns[r].threads \cap conns[r].gone = {}
    <2>1. \A r \in used : /\ conns'[r] \in Conn /\ conns'[r].gone = {}
                          /\ pc[conns'[r].caller] # "off" /\ pc[conns'[r].callee] # "off"
      <3>1. ASSUME NEW k \in new
            PROVE  /\ conns'[slot[k]] \in Conn /\ conns'[slot[k]].gone = {}
                   /\ pc[conns'[slot[k]].caller] # "off" /\ pc[conns'[slot[k]].callee] # "off"
        BY <1>3, <1>5, <3>1
      <3> QED
        BY <1>3, <3>1
    <2>2. \A r \in DOMAIN conns : /\ conns'[r] \in Conn
                                  /\ conns'[r].threads = conns[r].threads
                                  /\ conns[r].threads \cap conns[r].gone = {}
      BY <1>4 DEF ConnInv, Links
    <2>3. DOMAIN conns \subseteq Slots
      BY DEF ConnInv, Links
    <2> QED
      BY <1>3, <2>1, <2>2, <2>3
  <1>12. early' \in 0 .. MaxEarly
    BY <1>6 DEF ConnInv, Scalars
  <1> QED
    BY <1>6, <1>7, <1>8, <1>9, <1>10, <1>11, <1>12, ServingKeeps

-----------------------------------------------------------------------------
(* What holds of connections and tables *)

LEMMA ConnInit == Init => ConnInv
  <1> SUFFICES ASSUME Init PROVE ConnInv
    OBVIOUS
  <1>1. DOMAIN conns = {} /\ \A n \in Nodes : peers[n] = <<>> /\ DOMAIN peers[n] = {}
    BY DEF Init
  <1>2. Scalars
    BY MembershipAssumption DEF Init, Scalars, Labels
  <1> QED
    BY <1>1, <1>2 DEF Init, ConnInv, Tables, Calls, Links, SocketsServed, AnswerDue, Waiting

LEMMA StutterIsQuiet ==
  ASSUME ConnInv, UNCHANGED vars
  PROVE  Quiet
  <1>1. /\ UNCHANGED <<nextId, known, pc, id, todo, call, view, peers, conns, early, stops>>
        /\ UNCHANGED <<starts, astray>>
    BY DEF vars, history
  <1>2. Scalars'
    BY <1>1 DEF ConnInv, Scalars
  <1> QED
    BY <1>1, <1>2 DEF ConnInv, Calls, Waiting, Quiet

LEMMA ConnStep ==
  ASSUME ConnInv, [Next]_vars
  PROVE  ConnInv'
  <1>1. ASSUME NEW n \in Nodes, StartUp(n) PROVE ConnInv'
    <2>1. CASE GetPeersThrows(n) \/ AskLeaderThrows(n)
      BY <2>1, LeaveKeeps DEF GetPeersThrows, AskLeaderThrows, ConnInv, Scalars
    <2>2. CASE Connect(n)
      BY <2>2, ConnectKeeps
    <2>3. CASE Greeted(n)
      BY <2>3, GreetedKeeps
    <2> QED
      BY <1>1, <2>1, <2>2, <2>3, QuietSteps, QuietKeeps DEF StartUp
  <1>2. ASSUME NEW n \in Nodes, Start(n) \/ Register(n) PROVE ConnInv'
    BY <1>2, QuietSteps, QuietKeeps
  <1>3. ASSUME NEW n \in Nodes, Stop(n) PROVE ConnInv'
    <2>1. stops \in 0 .. MaxStops /\ MaxStops \in Nat
      BY MembershipAssumption DEF ConnInv, Scalars
    <2>2. Leave(n) /\ stops < MaxStops /\ stops' = stops + 1
      BY <1>3 DEF Stop
    <2>3. stops' \in 0 .. MaxStops
      BY <2>1, <2>2
    <2> QED
      BY <2>2, <2>3, LeaveKeeps
  <1>4. ASSUME NEW s \in DOMAIN conns, Accept(s) \/ \E e \in Ends : ReceiveLoop(s, e)
        PROVE  ConnInv'
    BY <1>4, AddCallerKeeps, ReplyKeeps, ReceiveKeeps, CleanupKeeps DEF Accept, ReceiveLoop
  <1>5. CASE UNCHANGED vars
    BY <1>5, StutterIsQuiet, QuietKeeps
  <1> QED
    BY <1>1, <1>2, <1>3, <1>4, <1>5, SendOtherKeeps DEF Next

LEMMA ConnInvariant == Spec => []ConnInv
  BY ConnInit, ConnStep, PTL DEF Spec

\* Whatever the number of nodes, starts and connections: a start that waits does so on a
\* connection of its own, which nobody else reads or closes, and only running processes
\* have entries and open ends.
THEOREM TypeCorrect == Spec => []TypeOK
  BY ConnInvariant, ConnInvTypes, PTL

\* A socket in a node's table is open on its side and served by a thread, although the
\* start, accept and receive threads write the table, and cleanup erases by key.
THEOREM SocketsAreServed == Spec => []SocketsServed
  <1>1. ConnInv => SocketsServed
    BY DEF ConnInv
  <1> QED
    BY <1>1, ConnInvariant, PTL

\* A start that waits for the answer to its HANDSHAKE has one due, unless it was sent
\* elsewhere: nobody else takes it from the connection.
THEOREM AnswersAreDue == Spec => []AnswerDue
  <1>1. ConnInv => AnswerDue
    BY DEF ConnInv
  <1> QED
    BY <1>1, ConnInvariant, PTL

-----------------------------------------------------------------------------
(* Who is on the lists, and who founds *)

\* The server has added node n under id i.
Recorded(n, i) == \E j \in DOMAIN known : known[j].node = n /\ known[j].id = i

Added(n) == pc[n] \notin {"off", "registering", "assigned", "copied"}

\* Whom n has still to call was listed for it.
TodoListed(n) ==
    /\ \A i \in DOMAIN todo[n] :
        /\ <<id[n], todo[n][i].id>> \in listed
        /\ Recorded(todo[n][i].node, todo[n][i].id)
    /\ pc[n] \in {"off", "registering", "assigned"} => todo[n] = <<>>

\* Who creates a chain at view 0 has id 0.
Founded(f) ==
    /\ Recorded(f.node, f.id) /\ (f.view = 0 => f.id = 0)
    /\ f = [node |-> f.node, id |-> f.id, view |-> f.view]

HistInv ==
    /\ \A n \in Nodes : Added(n) => Recorded(n, id[n])
    /\ \A n \in Nodes : TodoListed(n)
    /\ \A f \in founders : Founded(f)

LEMMA HistFrame ==
  ASSUME ConnInv, HistInv, UNCHANGED <<known, listed>>,
         \A n \in Nodes : Added(n)' => Added(n) /\ id'[n] = id[n],
         \A n \in Nodes :
            \/ todo'[n] = todo[n] /\ id'[n] = id[n]
               /\ (pc'[n] \in {"off", "registering", "assigned"}
                     => pc[n] \in {"off", "registering", "assigned"})
            \/ todo'[n] = Tail(todo[n]) /\ todo[n] # <<>> /\ id'[n] = id[n] /\ Added(n)'
            \/ todo'[n] = <<>>,
         \A f \in founders' \ founders : Founded(f)
  PROVE  HistInv'
  <1>1. \A n, i : Recorded(n, i)' <=> Recorded(n, i)
    BY DEF Recorded
  <1>2. ASSUME NEW n \in Nodes
        PROVE  TodoListed(n)'
    <2>1. todo[n] \in Seq(Addresses) /\ TodoListed(n)
      BY DEF ConnInv, Scalars, HistInv
    <2>2. CASE todo'[n] = <<>>
      BY <2>2 DEF TodoListed
    <2>3. CASE /\ todo'[n] = todo[n] /\ id'[n] = id[n]
               /\ (pc'[n] \in {"off", "registering", "assigned"}
                     => pc[n] \in {"off", "registering", "assigned"})
      BY <1>1, <2>1, <2>3 DEF TodoListed
    <2>4. CASE todo'[n] = Tail(todo[n]) /\ todo[n] # <<>> /\ id'[n] = id[n] /\ Added(n)'
      <3>1. \A i \in DOMAIN todo'[n] : i + 1 \in DOMAIN todo[n] /\ todo'[n][i] = todo[n][i + 1]
        BY <2>1, <2>4
      <3> QED
        BY <1>1, <2>1, <2>4, <3>1 DEF TodoListed, Added
    <2> QED
      BY <2>2, <2>3, <2>4
  <1>3. \A f \in founders' : Founded(f)
    BY DEF HistInv
  <1>4. \A f \in founders' : Founded(f)'
    BY <1>1, <1>3 DEF Founded
  <1>5. \A n \in Nodes : Added(n)' => Recorded(n, id[n])'
    BY <1>1 DEF HistInv
  <1> QED
    BY <1>2, <1>4, <1>5 DEF HistInv

LEMMA LeadFounds ==
  ASSUME ConnInv, HistInv, NEW n \in Nodes, Lead(n)
  PROVE  HistInv'
  <1>1. /\ pc[n] = "connecting" /\ pc' = [pc EXCEPT ![n] = "running"] /\ GetLeaderIndex(n) = id[n]
        /\ founders' = founders \cup {[node |-> n, id |-> id[n], view |-> view[n]]}
        /\ UNCHANGED <<known, listed, id, todo>>
    BY DEF Lead, Goto, serverVars
  <1>2. Recorded(n, id[n])
    BY <1>1 DEF HistInv, Added
  <1>3. view[n] = 0 => id[n] = 0
    <2>1. Cardinality(DOMAIN peers[n]) \in Nat
      <3>1. IsFiniteSet(DOMAIN peers[n])
        BY FS_Subset, MembershipAssumption DEF ConnInv, Tables
      <3> QED
        BY <3>1, FS_CardinalityType
    <2>2. \A k \in Nat : 0 % (k + 1) = 0
      OBVIOUS
    <2> QED
      BY <1>1, <2>1, <2>2 DEF GetLeaderIndex
  <1>4. \A f \in founders' \ founders : Founded(f)
    BY <1>1, <1>2, <1>3 DEF Founded
  <1>5. \A k \in Nodes : /\ todo'[k] = todo[k] /\ id'[k] = id[k]
                         /\ Added(k)' => Added(k)
                         /\ pc'[k] \in {"off", "registering", "assigned"}
                              => pc[k] \in {"off", "registering", "assigned"}
    BY <1>1 DEF ConnInv, Scalars, Added
  <1> QED
    BY <1>1, <1>4, <1>5, HistFrame

LEMMA LeaveHist ==
  ASSUME ConnInv, HistInv, NEW n \in Nodes, Leave(n)
  PROVE  HistInv'
  <1>1. /\ pc' = [pc EXCEPT ![n] = "off"] /\ todo' = [todo EXCEPT ![n] = <<>>]
        /\ id' = [id EXCEPT ![n] = 0] /\ UNCHANGED <<known, listed, founders>>
    BY DEF Leave, Goto, serverVars
  <1>2. \A k \in Nodes : /\ Added(k)' => Added(k) /\ id'[k] = id[k]
                         /\ \/ todo'[k] = todo[k] /\ id'[k] = id[k] /\ pc'[k] = pc[k]
                            \/ todo'[k] = <<>>
    BY <1>1 DEF ConnInv, Scalars, Added
  <1> QED
    BY <1>1, <1>2, HistFrame

LEMMA TailHist ==
  ASSUME ConnInv, HistInv, NEW n \in Nodes, ConnectFails(n) \/ Greeted(n) \/ GreetingFails(n)
  PROVE  HistInv'
  <1>1. /\ pc[n] \in {"connecting", "greeting"} /\ todo[n] # <<>>
        /\ pc' = [pc EXCEPT ![n] = "connecting"]
        /\ todo' = [todo EXCEPT ![n] = Tail(@)] /\ UNCHANGED <<id, known, listed, founders>>
    BY SMTT(30) DEF ConnectFails, Greeted, GreetingFails, Goto, serverVars, history, ConnInv, Calls, Waiting,
           Scalars
  <1>2. \A k \in Nodes : /\ Added(k)' => Added(k) /\ id'[k] = id[k]
                         /\ \/ todo'[k] = todo[k] /\ id'[k] = id[k] /\ pc'[k] = pc[k]
                            \/ todo'[k] = Tail(todo[k]) /\ todo[k] # <<>> /\ id'[k] = id[k] /\ Added(k)'
    BY <1>1 DEF ConnInv, Scalars, Added
  <1> QED
    BY <1>1, <1>2, HistFrame

LEMMA RegisterHist ==
  ASSUME ConnInv, HistInv, NEW n \in Nodes, Register(n)
  PROVE  HistInv'
  <1>1. CASE AssignId(n)
    <2>1. /\ pc[n] = "registering" /\ pc' = [pc EXCEPT ![n] = "assigned"]
          /\ id' = [id EXCEPT ![n] = nextId] /\ UNCHANGED <<todo, known, listed, founders>>
      BY <1>1 DEF AssignId, Goto, history
    <2>2. todo[n] = <<>>
      BY <2>1 DEF HistInv, TodoListed
    <2>3. \A k \in Nodes : /\ Added(k)' => Added(k) /\ id'[k] = id[k]
                           /\ \/ todo'[k] = todo[k] /\ id'[k] = id[k] /\ pc'[k] = pc[k]
                              \/ todo'[k] = <<>>
      BY <2>1, <2>2 DEF ConnInv, Scalars, Added
    <2> QED
      BY <2>1, <2>3, HistFrame
  <1>2. CASE CopyList(n)
    <2>1. /\ pc[n] = "assigned" /\ pc' = [pc EXCEPT ![n] = "copied"]
          /\ todo' = [todo EXCEPT ![n] = known]
          /\ listed' = listed \cup {<<id[n], known[i].id>> : i \in DOMAIN known}
          /\ UNCHANGED <<id, known, founders>>
      BY <1>2 DEF CopyList, Goto, serverVars
    <2>2. \A k, i : Recorded(k, i)' <=> Recorded(k, i)
      BY <2>1 DEF Recorded
    <2>3. \A k \in Nodes \ {n} : todo'[k] = todo[k] /\ pc'[k] = pc[k]
      BY <2>1 DEF ConnInv, Scalars
    <2>4. todo'[n] = known /\ pc'[n] = "copied"
      BY <2>1 DEF ConnInv, Scalars
    <2>5. TodoListed(n)'
      BY <2>1, <2>2, <2>4 DEF TodoListed, Recorded
    <2>6. \A k \in Nodes \ {n} : TodoListed(k)'
      BY <2>1, <2>2, <2>3 DEF HistInv, TodoListed
    <2>7. \A k \in Nodes : Added(k)' => Recorded(k, id[k])'
      BY <2>1, <2>2, <2>3, <2>4 DEF HistInv, Added
    <2>8. \A f \in founders' : Founded(f)'
      BY <2>1, <2>2 DEF HistInv, Founded
    <2> QED
      BY <2>5, <2>6, <2>7, <2>8 DEF HistInv
  <1>3. CASE Remember(n)
    <2>1. PICK entry : entry = [node |-> n, id |-> id[n]]
      OBVIOUS
    <2>2. /\ pc[n] = "copied" /\ pc' = [pc EXCEPT ![n] = "answered"]
          /\ known' = Append(known, entry) /\ UNCHANGED <<id, todo, listed, founders>>
      BY <1>3, <2>1 DEF Remember, Goto, history
    <2>3. entry \in Addresses /\ entry.node = n /\ entry.id = id[n]
      BY <2>1 DEF Addresses, ConnInv, Scalars
    <2>4. /\ DOMAIN known \subseteq DOMAIN known' /\ \A j \in DOMAIN known : known'[j] = known[j]
          /\ Len(known) + 1 \in DOMAIN known' /\ known'[Len(known) + 1] = entry
      BY <2>2, <2>3 DEF ConnInv, Scalars
    <2>5. Recorded(n, id[n])' /\ \A k, i : Recorded(k, i) => Recorded(k, i)'
      <3>1. \A k, i : Recorded(k, i) => Recorded(k, i)'
        BY <2>4 DEF Recorded
      <3>2. id'[n] = id[n]
        BY <2>2
      <3>3. Recorded(n, id[n])'
        BY <2>3, <2>4, <3>2 DEF Recorded
      <3> QED
        BY <3>1, <3>3
    <2>6. \A k \in Nodes : TodoListed(k)'
      BY <2>2, <2>5 DEF HistInv, TodoListed, ConnInv, Scalars
    <2>7. \A k \in Nodes : Added(k)' => Recorded(k, id[k])'
      BY <2>2, <2>5 DEF HistInv, Added, ConnInv, Scalars
    <2>8. \A f \in founders' : Founded(f)'
      BY <2>2, <2>5 DEF HistInv, Founded
    <2> QED
      BY <2>6, <2>7, <2>8 DEF HistInv
  <1> QED
    BY <1>1, <1>2, <1>3 DEF Register

\* The steps that leave the lists, and who is on them, alone.
LEMMA OtherHist ==
  ASSUME ConnInv, HistInv,
         \/ \E n \in Nodes : Start(n) \/ GetPeers(n) \/ Connect(n) \/ Follow(n) \/ AskLeader(n)
         \/ \E n, k \in Nodes : SendOther(n, k)
         \/ \E s \in DOMAIN conns : Accept(s) \/ \E e \in Ends : ReceiveLoop(s, e)
         \/ UNCHANGED vars
  PROVE  HistInv'
  <1>1. UNCHANGED <<known, listed, id, todo, founders>>
        /\ (UNCHANGED pc
            \/ \E n \in Nodes :
                  \/ pc[n] = "off" /\ pc' = [pc EXCEPT ![n] = "registering"]
                  \/ Added(n) /\ \E l \in {"connecting", "greeting", "asking", "running"} :
                                    pc' = [pc EXCEPT ![n] = l])
    <2>1. ASSUME NEW n \in Nodes,
                 Start(n) \/ GetPeers(n) \/ Connect(n) \/ Follow(n) \/ AskLeader(n)
          PROVE  /\ UNCHANGED <<known, listed, id, todo, founders>>
                 /\ \/ pc[n] = "off" /\ pc' = [pc EXCEPT ![n] = "registering"]
                    \/ Added(n) /\ \E l \in {"connecting", "greeting", "asking", "running"} :
                                      pc' = [pc EXCEPT ![n] = l]
      BY <2>1 DEF Start, GetPeers, Connect, Follow, AskLeader, Added, Goto, serverVars, history
    <2>2. ASSUME NEW n, NEW k, SendOther(n, k)
          PROVE  UNCHANGED <<known, listed, id, todo, founders, pc>>
      BY <2>2 DEF SendOther, serverVars, history
    <2>3. ASSUME NEW s, Accept(s) PROVE UNCHANGED <<known, listed, id, todo, founders, pc>>
      BY <2>3 DEF Accept, AddCaller, Reply, serverVars, history
    <2>4. ASSUME NEW s, NEW e, ReceiveLoop(s, e)
          PROVE  UNCHANGED <<known, listed, id, todo, founders, pc>>
      BY <2>4 DEF ReceiveLoop, Receive, Cleanup, serverVars, history
    <2>5. CASE UNCHANGED vars
      BY <2>5 DEF vars, history
    <2> QED
      BY <2>1, <2>2, <2>3, <2>4, <2>5
  <1>2. \A k \in Nodes : /\ Added(k)' => Added(k)
                         /\ pc'[k] \in {"off", "registering", "assigned"}
                              => pc[k] \in {"off", "registering", "assigned"}
    BY <1>1 DEF ConnInv, Scalars, Added
  <1> QED
    BY <1>1, <1>2, HistFrame

LEMMA HistStep ==
  ASSUME ConnInv, HistInv, [Next]_vars
  PROVE  HistInv'
  <1>1. ASSUME NEW n \in Nodes, StartUp(n) PROVE HistInv'
    BY <1>1, LeaveHist, TailHist, LeadFounds, OtherHist
       DEF StartUp, GetPeersThrows, AskLeaderThrows
  <1>2. ASSUME NEW n \in Nodes, Stop(n) PROVE HistInv'
    BY <1>2, LeaveHist DEF Stop
  <1> QED
    BY <1>1, <1>2, RegisterHist, OtherHist DEF Next

LEMMA HistInvariant == Spec => []HistInv
  <1>1. Init => HistInv
    BY DEF Init, HistInv, Added, TodoListed
  <1>2. ConnInv /\ HistInv /\ [Next]_vars => HistInv'
    BY HistStep
  <1> QED
    BY <1>1, <1>2, ConnInvariant, PTL DEF Spec

\* For any number of nodes that start, stop and come back in any order: with the view at
\* its start at most one node ever creates a genesis block, because the only one that
\* leads then has id 0, and that id is given out once.
THEOREM FounderIsOne == Spec => []OneFounder
  <1>1. RegInv /\ HistInv => OneFounder
    <2> SUFFICES ASSUME RegInv, HistInv, NEW f \in founders, NEW g \in founders,
                        f.view = 0, g.view = 0
                 PROVE  f = g
      BY DEF OneFounder
    <2>1. Founded(f) /\ Founded(g) /\ f.id = 0 /\ g.id = 0
      BY DEF HistInv, Founded
    <2>2. f.node = g.node
      BY <2>1 DEF Founded, Recorded, RegInv, IdsInv, IdsUnique
    <2> QED
      BY <2>1, <2>2 DEF Founded
  <1> QED
    BY <1>1, Registrations, HistInvariant, PTL

-----------------------------------------------------------------------------
(* Until a node is started for the second time *)

FirstStarts == \A n \in Nodes : starts[n] <= 1

\* Who runs was started, and who is in the server's list has the id it has there.
Begun ==
    \A n \in Nodes :
        /\ pc[n] # "off" => starts[n] = 1
        /\ \A i : Recorded(n, i) =>
              /\ starts[n] = 1 /\ pc[n] \notin {"registering", "assigned", "copied"}
              /\ pc[n] # "off" => id[n] = i

\* A connection is closed only if a process at one end is gone, and stays gone.
Ended ==
    \A s \in DOMAIN conns :
        /\ starts[conns[s].caller] = 1 /\ starts[conns[s].callee] = 1
        /\ conns[s].gone # {} => pc[conns[s].caller] = "off" \/ pc[conns[s].callee] = "off"

\* The answer to the HANDSHAKE on s is still to be sent, and its caller waits for it.
Owed(s) ==
    /\ call[conns[s].caller] = s
    /\ conns[s].stage = "added" /\ "callee" \notin conns[s].gone

\* The table the answer is sent by leads to s.
Entered(s) ==
    LET n == conns[s].caller
        k == conns[s].callee
    IN n \in DOMAIN peers[k] /\ peers[k][n].socket = <<s, "callee">>

Directed == \A s \in DOMAIN conns : Owed(s) => Entered(s)

OnceInv == FirstStarts => Begun /\ Ended /\ Directed /\ astray = {}

\* Two nodes that wait have not called each other: only one of them was told to.
LEMMA NoneCallsBack ==
  ASSUME ConnInv, RegInv, HistInv, Begun, NEW n \in Nodes, NEW k \in Nodes,
         Waiting(n), Waiting(k), Called(n) = k, Called(k) = n
  PROVE  FALSE
  <1>1. ASSUME NEW a \in Nodes, NEW b \in Nodes, Waiting(a), Waiting(b), Called(a) = b
        PROVE  <<id[a], id[b]>> \in listed
    <2>1. todo[a] \in Seq(Addresses) /\ todo[a] # <<>>
      BY <1>1 DEF ConnInv, Scalars, Calls
    <2>2. 1 \in DOMAIN todo[a] /\ Head(todo[a]) = todo[a][1]
      BY <2>1
    <2>3. /\ <<id[a], todo[a][1].id>> \in listed
          /\ Recorded(b, todo[a][1].id)
      BY <1>1, <2>2 DEF HistInv, TodoListed, Called
    <2>4. id[b] = todo[a][1].id
      BY <1>1, <2>3 DEF Begun, Waiting
    <2> QED
      BY <2>3, <2>4
  <1>2. <<id[n], id[k]>> \in listed /\ <<id[k], id[n]>> \in listed
    BY <1>1
  <1> QED
    BY <1>2 DEF RegInv, ListsInv, OneCalls

\* Only Start counts one more start.
LEMMA StartsKept ==
  ASSUME [Next]_vars
  PROVE  (\E n \in Nodes : Start(n)) \/ UNCHANGED starts
  <1>1. ASSUME NEW n, Register(n) PROVE UNCHANGED starts
    BY <1>1 DEF Register, AssignId, CopyList, Remember, history
  <1>2. ASSUME NEW n, StartUp(n) \/ Stop(n) PROVE UNCHANGED starts
    BY <1>2 DEF StartUp, GetPeers, GetPeersThrows, Connect, ConnectFails, Greeted, GreetingFails,
                Lead, Follow, AskLeader, AskLeaderThrows, Stop, Leave, history
  <1>3. ASSUME NEW n, NEW k, SendOther(n, k) PROVE UNCHANGED starts
    BY <1>3 DEF SendOther, history
  <1>4. ASSUME NEW s, Accept(s) PROVE UNCHANGED starts
    BY <1>4 DEF Accept, AddCaller, Reply, history
  <1>5. ASSUME NEW s, NEW e, ReceiveLoop(s, e) PROVE UNCHANGED starts
    BY <1>5 DEF ReceiveLoop, Receive, Cleanup, history
  <1>6. CASE UNCHANGED vars
    BY <1>6 DEF vars, history
  <1> QED
    BY <1>1, <1>2, <1>3, <1>4, <1>5, <1>6 DEF Next

LEMMA FirstBefore ==
  ASSUME ConnInv, [Next]_vars, FirstStarts'
  PROVE  /\ FirstStarts
         /\ \A n \in Nodes : Start(n) => starts[n] = 0
  <1>1. starts \in [Nodes -> Nat]
    BY DEF ConnInv, Scalars
  <1>2. ASSUME NEW n \in Nodes, Start(n) PROVE FirstStarts /\ starts[n] = 0
    BY <1>1, <1>2 DEF Start, FirstStarts
  <1>3. UNCHANGED starts => FirstStarts
    BY DEF FirstStarts
  <1>4. FirstStarts
    BY <1>2, <1>3, StartsKept
  <1> QED
    BY <1>2, <1>4

LEMMA BegunStep ==
  ASSUME ConnInv, RegInv, HistInv, Begun, [Next]_vars, FirstStarts'
  PROVE  Begun'
  <1>1. /\ starts \in [Nodes -> Nat] /\ pc \in [Nodes -> Labels] /\ id \in [Nodes -> Nat]
        /\ known \in Seq(Addresses)
    BY DEF ConnInv, Scalars
  <1>2. known' = known => \A n, i : Recorded(n, i)' <=> Recorded(n, i)
    BY DEF Recorded
  <1>3. ASSUME NEW n \in Nodes, Start(n) PROVE Begun'
    <2>1. /\ starts[n] = 0 /\ starts' = [starts EXCEPT ![n] = @ + 1]
          /\ pc' = [pc EXCEPT ![n] = "registering"] /\ UNCHANGED <<known, id>>
      BY <1>3, FirstBefore DEF Start, Goto, serverVars
    <2>2. \A i : ~Recorded(n, i)
      BY <2>1 DEF Begun
    <2> QED
      BY <1>1, <1>2, <2>1, <2>2 DEF Begun
  <1>4. ASSUME NEW n \in Nodes, AssignId(n) PROVE Begun'
    <2>1. /\ pc[n] = "registering" /\ pc' = [pc EXCEPT ![n] = "assigned"]
          /\ id' = [id EXCEPT ![n] = nextId] /\ UNCHANGED <<known, starts>>
      BY <1>4 DEF AssignId, Goto, history
    <2> QED
      BY <1>1, <1>2, <2>1 DEF Begun
  <1>5. ASSUME NEW n \in Nodes, CopyList(n) PROVE Begun'
    <2>1. /\ pc[n] = "assigned" /\ pc' = [pc EXCEPT ![n] = "copied"]
          /\ UNCHANGED <<known, id, starts>>
      BY <1>5 DEF CopyList, Goto, serverVars
    <2> QED
      BY <1>1, <1>2, <2>1 DEF Begun
  <1>6. ASSUME NEW n \in Nodes, Remember(n) PROVE Begun'
    <2>1. /\ pc[n] = "copied" /\ pc' = [pc EXCEPT ![n] = "answered"]
          /\ known' = Append(known, [node |-> n, id |-> id[n]]) /\ UNCHANGED <<id, starts>>
      BY <1>6 DEF Remember, Goto, history
    <2>2. \A k, i : Recorded(k, i)' => Recorded(k, i) \/ (k = n /\ i = id[n])
      <3>1. [node |-> n, id |-> id[n]] \in Addresses
        BY <1>1 DEF Addresses
      <3>2. \A j \in DOMAIN known' : \/ j \in DOMAIN known /\ known'[j] = known[j]
                                     \/ known'[j] = [node |-> n, id |-> id[n]]
        BY <1>1, <2>1, <3>1
      <3> QED
        BY <3>2 DEF Recorded
    <2> QED
      BY <1>1, <2>1, <2>2 DEF Begun
  <1>7. ASSUME UNCHANGED starts, (\E n \in Nodes : PastServer(n)) \/ Elsewhere PROVE Begun'
    <2>1. ASSUME NEW n \in Nodes, PastServer(n) PROVE Begun'
      BY <1>1, <1>2, <1>7, <2>1 DEF PastServer, Begun, regVars
    <2>2. CASE Elsewhere
      BY <1>2, <1>7, <2>2 DEF Elsewhere, Begun, regVars
    <2> QED
      BY <1>7, <2>1, <2>2
  <1> QED
    BY <1>3, <1>4, <1>5, <1>6, <1>7, StepKinds, StartsKept

\* What a step makes of a connection that was open, and how one is opened.
Followed(r) ==
    /\ r \in DOMAIN conns
    /\ conns'[r].caller = conns[r].caller /\ conns'[r].callee = conns[r].callee
    /\ conns[r].gone \subseteq conns'[r].gone
    /\ conns'[r].gone # {} => \/ conns[r].gone # {}
                              \/ pc'[conns[r].caller] = "off" \/ pc'[conns[r].callee] = "off"
    /\ conns'[r].stage = "added" => conns[r].stage = "added" \/ AddCaller(r)

Opened(r) ==
    /\ conns'[r].caller \in Nodes /\ conns'[r].callee \in Nodes
    /\ pc[conns'[r].caller] # "off" /\ pc[conns'[r].callee] # "off"
    /\ conns'[r].gone = {} /\ conns'[r].stage = "called"

\* The steps that are not quiet, by what they do to connections.
LEMMA ConnKinds ==
  ASSUME ConnInv, [Next]_vars
  PROVE  \/ Quiet
         \/ \E n \in Nodes : Connect(n) \/ Greeted(n) \/ Leave(n)
         \/ \E n, k \in Nodes : SendOther(n, k)
         \/ \E s \in DOMAIN conns : \/ AddCaller(s) \/ Reply(s)
                                    \/ \E e \in Ends : Receive(s, e) \/ Cleanup(s, e)
  <1>1. ASSUME NEW n \in Nodes, Start(n) \/ Register(n) \/ StartUp(n) \/ Stop(n)
        PROVE  Quiet \/ Connect(n) \/ Greeted(n) \/ Leave(n)
    BY <1>1, QuietSteps DEF StartUp, GetPeersThrows, AskLeaderThrows, Stop
  <1>2. CASE UNCHANGED vars
    BY <1>2, StutterIsQuiet
  <1> QED
    BY <1>1, <1>2 DEF Next, Accept, ReceiveLoop

LEMMA LinksStep ==
  ASSUME ConnInv, [Next]_vars, NEW r \in DOMAIN conns'
  PROVE  Followed(r) \/ Opened(r)
  <1>1. CASE Quiet
    BY <1>1 DEF Quiet, Followed
  <1>2. ASSUME NEW n \in Nodes, Connect(n)
        PROVE  Followed(r) \/ Opened(r)
    <2>1. PICK s \in Slots \ DOMAIN conns : conns' = Put(conns, s, NewConn(n, Called(n), {}))
      BY <1>2 DEF Connect
    <2>2. /\ pc[n] # "off" /\ pc[Called(n)] # "off" /\ Called(n) \in Nodes
      BY <1>2, NextCall DEF Connect, Listening
    <2>3. CASE r = s
      <3>1. conns'[r] = NewConn(n, Called(n), {})
        BY <2>1, <2>3 DEF Put
      <3> QED
        BY <2>2, <3>1 DEF NewConn, Opened
    <2>4. CASE r # s
      <3>1. r \in DOMAIN conns /\ conns'[r] = conns[r]
        BY <2>1, <2>4 DEF Put
      <3> QED
        BY <3>1 DEF Followed
    <2> QED
      BY <2>3, <2>4
  <1>3. ASSUME NEW n \in Nodes, Greeted(n)
        PROVE  Followed(r)
    <2>1. /\ conns' = [conns EXCEPT ![call[n]].mail["caller"] = Tail(@),
                                    ![call[n]].threads = @ \cup {"caller"}]
          /\ call[n] \in DOMAIN conns /\ conns[call[n]] \in Conn
      BY <1>3 DEF Greeted, ConnInv, Calls, Waiting, Links
    <2>2. PICK box, T :
             /\ box = [conns[call[n]].mail EXCEPT !["caller"] = Tail(@)]
             /\ T = conns[call[n]].threads \cup {"caller"}
      OBVIOUS
    <2>3. /\ DOMAIN conns' = DOMAIN conns
          /\ \A q \in DOMAIN conns \ {call[n]} : conns'[q] = conns[q]
          /\ conns'[call[n]] = [conns[call[n]] EXCEPT !.mail = box, !.threads = T]
      BY <2>1, <2>2
    <2>4. /\ r \in DOMAIN conns
          /\ conns'[r].caller = conns[r].caller /\ conns'[r].callee = conns[r].callee
          /\ conns'[r].gone = conns[r].gone /\ conns'[r].stage = conns[r].stage
      BY <2>1, <2>3 DEF Conn
    <2> QED
      BY <2>4 DEF Followed
  <1>4. ASSUME NEW n \in Nodes, Leave(n)
        PROVE  Followed(r)
    <2>1. pc' = [pc EXCEPT ![n] = "off"] /\ conns' = Closed(conns, EndsOf(n))
      BY <1>4 DEF Leave, Goto
    <2>2. AfterClosing(EndsOf(n))
      BY <2>1, Closing
    <2>3. /\ r \in DOMAIN conns /\ conns'[r].stage = conns[r].stage
          /\ conns'[r].caller = conns[r].caller /\ conns'[r].callee = conns[r].callee
          /\ conns'[r].gone = conns[r].gone \cup {e \in Ends : <<r, e>> \in EndsOf(n)}
      BY <2>2 DEF AfterClosing
    <2>4. \A e \in Ends : <<r, e>> \in EndsOf(n) =>
             pc'[conns[r].caller] = "off" \/ pc'[conns[r].callee] = "off"
      <3>1. pc'[n] = "off"
        BY <2>1 DEF ConnInv, Scalars
      <3>2. \A e \in Ends : <<r, e>> \in EndsOf(n) => conns[r][e] = n
        BY DEF EndsOf
      <3> QED
        BY <3>1, <3>2, EndsAre
    <2> QED
      BY <2>3, <2>4 DEF Followed
  <1>5. ASSUME NEW n \in Nodes, NEW k \in Nodes, SendOther(n, k)
        PROVE  Followed(r)
    <2>1. Sent(conns')
      BY <1>5, SendKeeps DEF SendOther
    <2> QED
      BY <2>1 DEF Sent, Followed
  <1>6. ASSUME NEW s \in DOMAIN conns, AddCaller(s)
        PROVE  Followed(r)
    <2>1. PICK list : conns' = [conns EXCEPT ![s].stage = "added", ![s].list = list]
      BY <1>6 DEF AddCaller
    <2>2. /\ DOMAIN conns' = DOMAIN conns /\ \A q \in DOMAIN conns \ {s} : conns'[q] = conns[q]
          /\ conns'[s] = [conns[s] EXCEPT !.stage = "added", !.list = list]
          /\ conns[s] \in Conn
      BY <2>1 DEF ConnInv, Links
    <2>3. /\ conns'[s].caller = conns[s].caller /\ conns'[s].callee = conns[s].callee
          /\ conns'[s].gone = conns[s].gone
      BY <2>2 DEF Conn
    <2> QED
      BY <1>6, <2>2, <2>3 DEF Followed
  <1>7. ASSUME NEW s \in DOMAIN conns, Reply(s)
        PROVE  Followed(r)
    <2>1. PICK cs : /\ cs = SendMessageTo(conns, conns[s].callee, conns[s].caller, conns[s].list)
                    /\ conns' = [cs EXCEPT ![s].stage = "accepted", ![s].list = {},
                                           ![s].threads = @ \cup {"callee"}]
      BY <1>7 DEF Reply
    <2>2. conns[s].callee \in Nodes /\ conns[s].list \in SUBSET Nodes
      BY DEF ConnInv, Links, Conn
    <2>3. Sent(cs)
      BY <2>1, <2>2, SendKeeps
    <2>4. PICK d, T : d = cs[s] /\ T = cs[s].threads \cup {"callee"}
      OBVIOUS
    <2>5. /\ DOMAIN conns' = DOMAIN conns /\ \A q \in DOMAIN conns \ {s} : conns'[q] = cs[q]
          /\ conns'[s] = [d EXCEPT !.stage = "accepted", !.list = {}, !.threads = T]
      BY <2>1, <2>3, <2>4 DEF Sent
    <2>6. /\ d \in Conn /\ d.caller = conns[s].caller /\ d.callee = conns[s].callee
          /\ d.gone = conns[s].gone
      BY <2>3, <2>4 DEF Sent
    <2>7. /\ conns'[s].caller = conns[s].caller /\ conns'[s].callee = conns[s].callee
          /\ conns'[s].gone = conns[s].gone /\ conns'[s].stage = "accepted"
      BY <2>5, <2>6 DEF Conn
    <2>8. CASE r = s
      BY <2>7, <2>8 DEF Followed
    <2>9. CASE r # s
      BY <2>3, <2>5, <2>9 DEF Sent, Followed
    <2> QED
      BY <2>8, <2>9
  <1>8. ASSUME NEW s \in DOMAIN conns, NEW e \in Ends, Receive(s, e)
        PROVE  Followed(r) \/ Opened(r)
    <2>1. PICK n, a, new, slot : ReceiveDoes(s, e, n, a, new, slot)
      BY <1>8, ReceiveIs
    <2>2. CASE r \in DOMAIN conns
      BY <2>1, <2>2 DEF ReceiveDoes, Followed
    <2>3. CASE r \notin DOMAIN conns
      <3>1. PICK k \in new : r = slot[k]
        BY <2>1, <2>3 DEF ReceiveDoes
      <3>2. /\ n \in Nodes /\ k \in Nodes /\ pc[n] # "off" /\ pc[k] # "off"
            /\ conns'[r].caller = n /\ conns'[r].callee = k
            /\ conns'[r].gone = {} /\ conns'[r].stage = "called"
        BY <2>1, <3>1 DEF ReceiveDoes
      <3> QED
        BY <3>2 DEF Opened
    <2> QED
      BY <2>2, <2>3
  <1>9. ASSUME NEW s \in DOMAIN conns, NEW e \in Ends, Cleanup(s, e)
        PROVE  Followed(r)
    <2>1. /\ Other(e) \in conns[s].gone /\ conns' = Closed(conns, {<<s, e>>})
      BY <1>9 DEF Cleanup
    <2>2. AfterClosing({<<s, e>>})
      BY <2>1, Closing
    <2>3. /\ r \in DOMAIN conns /\ conns'[r].stage = conns[r].stage
          /\ conns'[r].caller = conns[r].caller /\ conns'[r].callee = conns[r].callee
          /\ conns'[r].gone = conns[r].gone \cup {d \in Ends : <<r, d>> \in {<<s, e>>}}
      BY <2>2 DEF AfterClosing
    <2>4. \A d \in Ends : <<r, d>> \in {<<s, e>>} => conns[r].gone # {}
      BY <2>1
    <2> QED
      BY <2>3, <2>4 DEF Followed
  <1> QED
    BY <1>1, <1>2, <1>3, <1>4, <1>5, <1>6, <1>7, <1>8, <1>9, ConnKinds

LEMMA EndedStep ==
  ASSUME ConnInv, RegInv, Begun, Ended, [Next]_vars, FirstStarts'
  PROVE  Ended'
  <1>1. \A r \in DOMAIN conns : conns[r].caller \in Nodes /\ conns[r].callee \in Nodes
    BY DEF ConnInv, Links, Conn
  <1>2. starts \in [Nodes -> Nat] /\ pc \in [Nodes -> Labels]
    BY DEF ConnInv, Scalars
  <1>3. ASSUME NEW n \in Nodes, starts[n] = 1
        PROVE  starts'[n] = 1 /\ (pc[n] = "off" => pc'[n] = "off")
    <2>1. ASSUME NEW m \in Nodes, Start(m)
          PROVE  starts'[n] = 1 /\ (pc[n] = "off" => pc'[n] = "off")
      <3>1. /\ starts[m] = 0 /\ starts' = [starts EXCEPT ![m] = @ + 1]
            /\ pc' = [pc EXCEPT ![m] = "registering"]
        BY <2>1, FirstBefore DEF Start, Goto
      <3> QED
        BY <1>2, <1>3, <3>1
    <2>2. CASE UNCHANGED starts
      <3>1. ASSUME NEW m \in Nodes, AssignId(m) \/ CopyList(m) \/ Remember(m)
            PROVE  pc[n] = "off" => pc'[n] = "off"
        BY <1>2, <3>1 DEF AssignId, CopyList, Remember, Goto
      <3>2. ASSUME NEW m \in Nodes, PastServer(m) PROVE pc[n] = "off" => pc'[n] = "off"
        BY <1>2, <3>2 DEF PastServer
      <3>3. ASSUME Elsewhere PROVE pc[n] = "off" => pc'[n] = "off"
        BY <3>3 DEF Elsewhere
      <3>4. ASSUME NEW m \in Nodes, Start(m) PROVE FALSE
        BY <1>2, <2>2, <3>4 DEF Start
      <3>5. pc[n] = "off" => pc'[n] = "off"
        BY <3>1, <3>2, <3>3, <3>4, StepKinds
      <3> QED
        BY <1>3, <2>2, <3>5
    <2> QED
      BY <2>1, <2>2, StartsKept
  <1>4. ASSUME NEW r \in DOMAIN conns', Followed(r)
        PROVE  /\ starts'[conns'[r].caller] = 1 /\ starts'[conns'[r].callee] = 1
               /\ conns'[r].gone # {} =>
                     pc'[conns'[r].caller] = "off" \/ pc'[conns'[r].callee] = "off"
    BY <1>1, <1>3, <1>4 DEF Followed, Ended
  <1>5. ASSUME NEW r \in DOMAIN conns', Opened(r)
        PROVE  /\ starts'[conns'[r].caller] = 1 /\ starts'[conns'[r].callee] = 1
               /\ conns'[r].gone = {}
    BY <1>3, <1>5 DEF Opened, Begun
  <1> QED
    BY <1>4, <1>5, LinksStep DEF Ended

\* An answer that is owed after a step was owed before it, or becomes owed by it.
LEMMA OwedBefore ==
  ASSUME ConnInv, [Next]_vars, NEW r \in DOMAIN conns', Owed(r)'
  PROVE  /\ r \in DOMAIN conns
         /\ conns'[r].caller = conns[r].caller /\ conns'[r].callee = conns[r].callee
         /\ call[conns[r].caller] = r /\ "callee" \notin conns[r].gone
         /\ Owed(r) \/ AddCaller(r)
  <1>1. Followed(r)
    BY LinksStep DEF Owed, Opened
  <1>2. /\ r \in DOMAIN conns /\ r # 0 /\ conns[r].caller \in Nodes
        /\ conns'[r].caller = conns[r].caller /\ conns'[r].callee = conns[r].callee
        /\ "callee" \notin conns[r].gone /\ call'[conns[r].caller] = r
        /\ conns[r].stage = "added" \/ AddCaller(r)
    BY <1>1, MembershipAssumption DEF Followed, Owed, ConnInv, Links, Conn
  <1>3. PICK n \in Nodes : n = conns[r].caller
    BY <1>2
  <1>4. call[n] = r
    <2>1. call \in [Nodes -> Slots \cup {0}]
      BY DEF ConnInv, Scalars
    <2>2. CASE Quiet
      BY <1>2, <1>3, <2>2 DEF Quiet
    <2>3. ASSUME NEW m \in Nodes, Connect(m) PROVE call[n] = r
      BY <1>2, <1>3, <2>1, <2>3 DEF Connect
    <2>4. ASSUME NEW m \in Nodes, Greeted(m) \/ Leave(m) PROVE call[n] = r
      <3>1. call' = [call EXCEPT ![m] = 0]
        BY <2>4 DEF Greeted, Leave
      <3> QED
        BY <1>2, <1>3, <2>1, <3>1
    <2>5. ASSUME NEW m, NEW k, SendOther(m, k) PROVE UNCHANGED call
      BY <2>5 DEF SendOther
    <2>6. ASSUME NEW s, NEW e, AddCaller(s) \/ Reply(s) \/ Receive(s, e) \/ Cleanup(s, e)
          PROVE  UNCHANGED call
      BY <2>6 DEF AddCaller, Reply, Receive, Cleanup
    <2> QED
      BY <1>2, <1>3, <2>2, <2>3, <2>4, <2>5, <2>6, ConnKinds
  <1> QED
    BY <1>2, <1>3, <1>4 DEF Owed

\* No other thread replaces or erases the entry by which an answer is to be sent.
LEMMA DirectedStep ==
  ASSUME ConnInv, RegInv, HistInv, Begun, Ended, Directed, [Next]_vars
  PROVE  Directed'
  <1> SUFFICES ASSUME NEW r \in DOMAIN conns', Owed(r)'
               PROVE  Entered(r)'
    BY DEF Directed
  <1>1. PICK n, k : n = conns[r].caller /\ k = conns[r].callee
    OBVIOUS
  <1>2. /\ r \in DOMAIN conns /\ conns'[r].caller = n /\ conns'[r].callee = k
        /\ call[n] = r /\ "callee" \notin conns[r].gone
        /\ Owed(r) \/ AddCaller(r)
    BY <1>1, OwedBefore
  <1>3. /\ n \in Nodes /\ k \in Nodes /\ pc[k] # "off"
        /\ Waiting(n) /\ Called(n) = k /\ DOMAIN peers = Nodes
    <2>1. conns[r] \in Conn /\ r # 0 /\ pc[conns[r]["callee"]] # "off"
      BY <1>2, MembershipAssumption, EndsAre DEF ConnInv, Links
    <2>2. n \in Nodes /\ k \in Nodes
      BY <1>1, <2>1 DEF Conn
    <2> QED
      BY <1>1, <1>2, <2>1, <2>2 DEF ConnInv, Calls, Scalars
  <1>4. ASSUME n \in DOMAIN peers'[k], peers'[k][n].socket = <<r, "callee">>
        PROVE  Entered(r)'
    BY <1>2, <1>4 DEF Entered
  <1>5. ASSUME AddCaller(r) PROVE Entered(r)'
    <2>1. peers' = [peers EXCEPT ![k] = Put(@, n,
              [id |-> conns[r].id, named |-> TRUE, socket |-> <<r, "callee">>])]
      BY <1>1, <1>5 DEF AddCaller
    <2> QED
      BY <1>3, <1>4, <2>1 DEF Put
  <1>6. ASSUME Owed(r) PROVE n \in DOMAIN peers[k] /\ peers[k][n].socket = <<r, "callee">>
    BY <1>1, <1>2, <1>6 DEF Directed, Entered
  <1>7. ASSUME Owed(r), n \in DOMAIN peers'[k], peers'[k][n] = peers[k][n]
        PROVE  Entered(r)'
    BY <1>4, <1>6, <1>7
  <1>8. ASSUME Owed(r), UNCHANGED peers PROVE Entered(r)'
    BY <1>6, <1>7, <1>8
  <1>9. ASSUME Owed(r), NEW m \in Nodes, Greeted(m) PROVE Entered(r)'
    <2>1. PICK info : peers' = [peers EXCEPT ![m] = Put(@, Called(m), info)]
      BY <1>9 DEF Greeted
    <2>2. Waiting(m)
      BY <1>9 DEF Greeted, Waiting
    <2>3. ~(m = k /\ Called(m) = n)
      BY <1>3, <2>2, NoneCallsBack
    <2> QED
      BY <1>3, <1>6, <1>7, <1>9, <2>1, <2>3 DEF Put
  <1>10. ASSUME Owed(r), NEW m \in Nodes, Leave(m) PROVE Entered(r)'
    <2>1. peers' = [peers EXCEPT ![m] = <<>>] /\ conns' = Closed(conns, EndsOf(m))
      BY <1>10 DEF Leave
    <2>2. AfterClosing(EndsOf(m))
      BY <2>1, Closing
    <2>3. m # k
      <3>1. "callee" \notin conns'[r].gone
        BY DEF Owed
      <3>2. <<r, "callee">> \notin EndsOf(m)
        BY <2>2, <3>1, EndsAre DEF AfterClosing
      <3> QED
        BY <1>1, <1>2, <3>2, EndsAre DEF EndsOf
    <2> QED
      BY <1>3, <1>6, <1>7, <1>10, <2>1, <2>3
  <1>11. ASSUME Owed(r), NEW s \in DOMAIN conns, AddCaller(s), s # r PROVE Entered(r)'
    <2>1. /\ peers' = [peers EXCEPT ![conns[s].callee] = Put(@, conns[s].caller,
                [id |-> conns[s].id, named |-> TRUE, socket |-> <<s, "callee">>])]
          /\ ~Accepting(conns[s].callee)
      BY <1>11 DEF AddCaller
    <2>2. conns[s].callee # k
      BY <1>1, <1>2, <1>11, <2>1 DEF Accepting, Owed
    <2> QED
      BY <1>3, <1>6, <1>7, <1>11, <2>1, <2>2
  <1>12. ASSUME Owed(r), NEW s \in DOMAIN conns, NEW e \in Ends, Receive(s, e) PROVE Entered(r)'
    <2>1. PICK m, a, new, slot : ReceiveDoes(s, e, m, a, new, slot)
      BY <1>12, ReceiveIs
    <2>2. /\ m \in Nodes /\ \A j \in Nodes \ {m} : peers'[j] = peers[j]
          /\ DOMAIN peers[m] \subseteq DOMAIN peers'[m]
          /\ \A j \in DOMAIN peers[m] : peers'[m][j] = peers[m][j]
      BY <2>1 DEF ReceiveDoes
    <2>3. n \in DOMAIN peers'[k] /\ peers'[k][n] = peers[k][n]
      BY <1>3, <1>6, <1>12, <2>2
    <2> QED
      BY <1>7, <1>12, <2>3
  <1>13. ASSUME Owed(r), NEW s \in DOMAIN conns, NEW e \in Ends, Cleanup(s, e) PROVE Entered(r)'
    <2>1. PICK m, p : m = conns[s][e] /\ p = conns[s][Other(e)]
      OBVIOUS
    <2>2. peers' = [peers EXCEPT ![m] = Erase(@, p)] /\ conns[s].gone # {}
      BY <1>13, <2>1 DEF Cleanup
    <2>3. ~(m = k /\ p = n)
      <3>1. pc[conns[s]["caller"]] = "off" \/ pc[conns[s]["callee"]] = "off"
        BY <2>2 DEF Ended
      <3>2. pc[n] # "off" /\ pc[k] # "off"
        BY <1>3 DEF Waiting
      <3> QED
        BY <2>1, <3>1, <3>2, EndsAre
    <2>4. n \in DOMAIN peers'[k] /\ peers'[k][n] = peers[k][n]
      BY <1>3, <1>6, <1>13, <2>2, <2>3 DEF Erase
    <2> QED
      BY <1>7, <1>13, <2>4
  <1>14. ASSUME Owed(r) PROVE Entered(r)'
    <2>1. Quiet => UNCHANGED peers
      BY DEF Quiet
    <2>2. ASSUME NEW m, NEW j, Connect(m) \/ SendOther(m, j) \/ Reply(m) PROVE UNCHANGED peers
      BY <2>2 DEF Connect, SendOther, Reply
    <2> QED
      BY <1>5, <1>8, <1>9, <1>10, <1>11, <1>12, <1>13, <1>14, <2>1, <2>2, ConnKinds
  <1> QED
    BY <1>2, <1>5, <1>14

LEMMA NoneAstray ==
  ASSUME ConnInv, Directed, astray = {}, [Next]_vars
  PROVE  astray' = {}
  <1>1. ASSUME NEW s \in DOMAIN conns, Reply(s) PROVE astray' = {}
    <2>1. Owed(s) => SocketTo(conns[s].callee, conns[s].caller) = <<s, "callee">>
      BY DEF Directed, Entered, SocketTo
    <2> QED
      BY <1>1, <2>1 DEF Reply, Owed
  <1>2. ASSUME NEW n, Register(n) \/ StartUp(n) \/ Start(n) \/ Stop(n) PROVE astray' \subseteq astray
    BY <1>2 DEF Register, AssignId, CopyList, Remember, StartUp, GetPeers, GetPeersThrows, Connect,
                ConnectFails, Greeted, GreetingFails, Lead, Follow, AskLeader, AskLeaderThrows,
                Start, Stop, Leave, history
  <1>3. ASSUME NEW n, NEW k, SendOther(n, k) PROVE UNCHANGED astray
    BY <1>3 DEF SendOther, history
  <1>4. ASSUME NEW s, AddCaller(s) PROVE UNCHANGED astray
    BY <1>4 DEF AddCaller, history
  <1>5. ASSUME NEW s, NEW e, ReceiveLoop(s, e) PROVE UNCHANGED astray
    BY <1>5 DEF ReceiveLoop, Receive, Cleanup, history
  <1>6. CASE UNCHANGED vars
    BY <1>6 DEF vars, history
  <1> QED
    BY <1>1, <1>2, <1>3, <1>4, <1>5, <1>6 DEF Next, Accept

LEMMA OnceInvariant == Spec => []OnceInv
  <1>1. Init => OnceInv
    BY DEF Init, OnceInv, Begun, Ended, Directed, Recorded
  <1>2. ConnInv /\ RegInv /\ HistInv /\ OnceInv /\ [Next]_vars => OnceInv'
    <2> SUFFICES ASSUME ConnInv, RegInv, HistInv, OnceInv, [Next]_vars, FirstStarts'
                 PROVE  Begun' /\ Ended' /\ Directed' /\ astray' = {}
      BY DEF OnceInv
    <2>1. Begun /\ Ended /\ Directed /\ astray = {}
      BY FirstBefore DEF OnceInv
    <2> QED
      BY <2>1, BegunStep, EndedStep, DirectedStep, NoneAstray
  <1> QED
    BY <1>1, <1>2, ConnInvariant, Registrations, HistInvariant, PTL DEF Spec

\* For any number of nodes, as long as none is started a second time: the answer to a
\* HANDSHAKE goes to the start that waits for it.  No thread puts another socket in the
\* table between, because of two nodes only one was told to call the other, nor erases
\* the entry, because a connection ends only with one of its processes.
THEOREM AnswersArrive == Spec => []AnswersReachCallers
  <1>1. OnceInv => AnswersReachCallers
    BY DEF OnceInv, FirstStarts, AnswersReachCallers
  <1> QED
    BY <1>1, OnceInvariant, PTL

=============================================================================
