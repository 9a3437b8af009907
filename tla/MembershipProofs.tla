-------------------------- MODULE MembershipProofs --------------------------
(***************************************************************************)
(* Theorems about Membership: ids and lists for any number of nodes,       *)
(* started any number of times and served by the discovery server at the   *)
(* same time.                                                              *)
(***************************************************************************)
EXTENDS Membership, TLAPS

KnownIds == {known[i].id : i \in DOMAIN known}

\* The start of n has an id.
Active(n) == pc[n] \notin {"off", "registering"}

\* What registration leaves untouched.
regVars == <<nextId, known, listed>>

Types ==
    /\ nextId \in Nat /\ known \in Seq(Addresses)
    /\ pc \in [Nodes -> Labels] /\ id \in [Nodes -> Nat]

\* Ids given out are below the counter, and not given to two running nodes; a node
\* is in the list only once it was added.
IdsInv ==
    /\ \A i \in DOMAIN known : known[i].id < nextId
    /\ \A n \in Nodes : Active(n) => id[n] < nextId
    /\ \A n \in Nodes : pc[n] \in {"assigned", "copied"} => id[n] \notin KnownIds
    /\ \A n, k \in Nodes : Active(n) /\ Active(k) /\ n # k => id[n] # id[k]
    /\ IdsUnique

\* Whom a list has is in the server's list.
ListsInv ==
    /\ \A p \in listed : p[2] \in KnownIds
    /\ OneCalls

RegInv == Types /\ IdsInv /\ ListsInv

\* The start of a node that is past the server: its label, and whether it ends.
PastServer(n) ==
    /\ pc[n] \notin {"off", "registering", "assigned", "copied"}
    /\ \/ \E l \in {"connecting", "greeting", "asking", "running"} :
            pc' = [pc EXCEPT ![n] = l] /\ id' = id
       \/ pc' = [pc EXCEPT ![n] = "off"] /\ id' = [id EXCEPT ![n] = 0]
    /\ UNCHANGED regVars

Elsewhere == UNCHANGED <<pc, id, regVars>>

\* Each action is one of the server's, or leaves what the server has alone.
LEMMA StepKinds ==
    ASSUME RegInv, [Next]_vars
    PROVE  \/ \E n \in Nodes : Start(n) \/ AssignId(n) \/ CopyList(n) \/ Remember(n)
           \/ \E n \in Nodes : PastServer(n)
           \/ Elsewhere
<1>1. ASSUME NEW n \in Nodes, StartUp(n) PROVE PastServer(n) \/ Elsewhere
  <2>1. CASE GetPeers(n)
    BY <2>1 DEF GetPeers, PastServer, Goto, serverVars, history, regVars
  <2>2. CASE GetPeersThrows(n)
    BY <2>2 DEF GetPeersThrows, PastServer, Leave, Goto, serverVars, regVars
  <2>3. CASE Connect(n)
    BY <2>3 DEF Connect, PastServer, Goto, serverVars, history, regVars
  <2>4. CASE ConnectFails(n)
    BY <2>4 DEF ConnectFails, Elsewhere, serverVars, history, regVars
  <2>5. CASE Greeted(n)
    BY <2>5 DEF Greeted, PastServer, Goto, serverVars, history, regVars
  <2>6. CASE GreetingFails(n)
    BY <2>6 DEF GreetingFails, PastServer, Goto, serverVars, regVars
  <2>7. CASE Lead(n)
    BY <2>7 DEF Lead, PastServer, Goto, serverVars, regVars
  <2>8. CASE Follow(n)
    BY <2>8 DEF Follow, PastServer, Goto, serverVars, history, regVars
  <2>9. CASE AskLeader(n)
    BY <2>9 DEF AskLeader, PastServer, Goto, serverVars, history, regVars
  <2>10. CASE AskLeaderThrows(n)
    BY <2>10 DEF AskLeaderThrows, PastServer, Leave, Goto, serverVars, regVars
  <2> QED
    BY <1>1, <2>1, <2>2, <2>3, <2>4, <2>5, <2>6, <2>7, <2>8, <2>9, <2>10 DEF StartUp
<1>2. ASSUME NEW n \in Nodes, Stop(n) PROVE PastServer(n)
  BY <1>2 DEF Stop, PastServer, Leave, Goto, serverVars, regVars
<1>3. ASSUME NEW n, NEW k, SendOther(n, k) PROVE Elsewhere
  BY <1>3 DEF SendOther, Elsewhere, serverVars, history, regVars
<1>4. ASSUME NEW s, Accept(s) PROVE Elsewhere
  BY <1>4 DEF Accept, AddCaller, Reply, Elsewhere, serverVars, history, regVars
<1>5. ASSUME NEW s, NEW e, ReceiveLoop(s, e) PROVE Elsewhere
  BY <1>5 DEF ReceiveLoop, Receive, Cleanup, Elsewhere, serverVars, history, regVars
<1>6. CASE UNCHANGED vars
  BY <1>6 DEF vars, history, Elsewhere, regVars
<1>7. CASE \E n \in Nodes : Start(n) \/ Register(n) \/ StartUp(n) \/ Stop(n)
  BY <1>1, <1>2, <1>7, Zenon DEF Register
<1>8. CASE \E n, k \in Nodes : SendOther(n, k)
  BY <1>3, <1>8, Zenon
<1>9. CASE \E s \in DOMAIN conns : Accept(s) \/ \E e \in Ends : ReceiveLoop(s, e)
  BY <1>4, <1>5, <1>9, Zenon
<1>10. CASE Next
  BY <1>7, <1>8, <1>9, <1>10, Zenon DEF Next
<1> QED
  BY <1>6, <1>10

LEMMA StartKeepsReg ==
    ASSUME RegInv, NEW n \in Nodes, Start(n) PROVE RegInv'
<1> USE DEF RegInv
<1>1. pc' = [pc EXCEPT ![n] = "registering"] /\ UNCHANGED <<id, regVars>>
  BY DEF Start, Goto, serverVars, regVars
<1>2. Types'
  BY <1>1 DEF Types, regVars, Labels
<1>3. KnownIds' = KnownIds
  BY <1>1 DEF KnownIds, regVars
<1>4. IdsInv'
  BY <1>1, <1>3 DEF Types, IdsInv, IdsUnique, Active, regVars
<1>5. ListsInv'
  BY <1>1, <1>3 DEF ListsInv, OneCalls, regVars
<1> QED BY <1>2, <1>4, <1>5

LEMMA AssignKeepsReg ==
    ASSUME RegInv, NEW n \in Nodes, AssignId(n) PROVE RegInv'
<1> USE DEF RegInv
<1>1. /\ pc[n] = "registering" /\ pc' = [pc EXCEPT ![n] = "assigned"]
      /\ id' = [id EXCEPT ![n] = nextId] /\ nextId' = nextId + 1
      /\ UNCHANGED <<known, listed>>
  BY DEF AssignId, Goto, history
<1>2. Types'
  BY <1>1 DEF Types, Labels
<1>3. KnownIds' = KnownIds
  BY <1>1 DEF KnownIds
<1>3a. \A i \in DOMAIN known : known[i] \in Addresses
  BY DEF Types
<1>4. nextId \notin KnownIds /\ \A i \in DOMAIN known : known[i].id \in Nat
  BY <1>3a DEF Types, IdsInv, KnownIds, Addresses
<1>5. IdsInv'
  <2>1. \A i \in DOMAIN known' : known'[i].id < nextId'
    BY <1>1, <1>4 DEF Types, IdsInv
  <2>2. \A k \in Nodes : Active(k)' => id'[k] < nextId'
    BY <1>1 DEF Types, IdsInv, Active
  <2>3. \A k \in Nodes : pc'[k] \in {"assigned", "copied"} => id'[k] \notin KnownIds'
    BY <1>1, <1>3, <1>4 DEF Types, IdsInv
  <2>4. \A j, k \in Nodes : Active(j)' /\ Active(k)' /\ j # k => id'[j] # id'[k]
    BY <1>1 DEF Types, IdsInv, Active
  <2>5. IdsUnique'
    BY <1>1 DEF IdsInv, IdsUnique
  <2> QED BY <2>1, <2>2, <2>3, <2>4, <2>5 DEF IdsInv
<1>6. ListsInv'
  BY <1>1, <1>3 DEF ListsInv, OneCalls
<1> QED BY <1>2, <1>5, <1>6

LEMMA CopyKeepsReg ==
    ASSUME RegInv, NEW n \in Nodes, CopyList(n) PROVE RegInv'
<1> USE DEF RegInv
<1>1. /\ pc[n] = "assigned" /\ pc' = [pc EXCEPT ![n] = "copied"]
      /\ listed' = listed \cup {<<id[n], known[i].id>> : i \in DOMAIN known}
      /\ UNCHANGED <<id, known, nextId>>
  BY DEF CopyList, Goto, serverVars
<1>2. Types'
  BY <1>1 DEF Types, Labels
<1>3. KnownIds' = KnownIds
  BY <1>1 DEF KnownIds
<1>4. IdsInv'
  BY <1>1, <1>3 DEF Types, IdsInv, IdsUnique, Active
<1>5. id[n] \notin KnownIds
  BY <1>1 DEF IdsInv
<1>6. ASSUME NEW p \in listed' PROVE p[2] \in KnownIds'
  BY <1>1, <1>3 DEF ListsInv, KnownIds
<1>7. ASSUME NEW p \in listed' PROVE <<p[2], p[1]>> \notin listed'
  <2> DEFINE new == {<<id[n], known[i].id>> : i \in DOMAIN known}
  <2>1. \A q \in new : q = <<id[n], q[2]>> /\ q[1] = id[n] /\ q[2] \in KnownIds
    BY DEF KnownIds
  <2>2. CASE p \in new
    <3>1. <<p[2], p[1]>> \notin new
      BY <2>1, <2>2, <1>5
    <3>2. <<p[2], p[1]>> \notin listed
      BY <2>1, <2>2, <1>5 DEF ListsInv
    <3> QED BY <3>1, <3>2, <1>1
  <2>3. CASE p \in listed
    <3>1. <<p[2], p[1]>> \notin listed
      BY <2>3 DEF ListsInv, OneCalls
    <3>2. <<p[2], p[1]>> \notin new
      BY <2>1, <2>3, <1>5 DEF ListsInv
    <3> QED BY <3>1, <3>2, <1>1
  <2> QED BY <2>2, <2>3, <1>1
<1>8. ListsInv'
  BY <1>6, <1>7 DEF ListsInv, OneCalls
<1> QED BY <1>2, <1>4, <1>8

LEMMA RememberKeepsReg ==
    ASSUME RegInv, NEW n \in Nodes, Remember(n) PROVE RegInv'
<1> USE DEF RegInv
<1> DEFINE entry == [node |-> n, id |-> id[n]]
<1>1. /\ pc[n] = "copied" /\ pc' = [pc EXCEPT ![n] = "answered"]
      /\ known' = Append(known, entry)
      /\ UNCHANGED <<id, nextId, listed>>
  BY DEF Remember, Goto, history
<1>2. entry \in Addresses /\ entry.id = id[n]
  BY DEF Types, Addresses
<1>3. Types'
  BY <1>1, <1>2 DEF Types, Labels
<1>4. /\ DOMAIN known' = 1 .. (Len(known) + 1) /\ DOMAIN known = 1 .. Len(known)
      /\ Len(known) \in Nat
      /\ \A i \in 1 .. Len(known) : known'[i] = known[i]
      /\ known'[Len(known) + 1] = entry
  BY <1>1, <1>2 DEF Types
<1> HIDE DEF entry
<1>5. KnownIds' = KnownIds \cup {id[n]}
  <2>1. \A i \in 1 .. (Len(known) + 1) : known'[i].id \in KnownIds \cup {id[n]}
    BY <1>2, <1>4 DEF KnownIds
  <2>2. \A x \in KnownIds \cup {id[n]} : \E i \in 1 .. (Len(known) + 1) : x = known'[i].id
    BY <1>2, <1>4 DEF KnownIds
  <2> QED BY <2>1, <2>2, <1>4, ZenonT(60) DEF KnownIds
<1>6. id[n] \notin KnownIds /\ Active(n) /\ id[n] < nextId
  BY <1>1 DEF IdsInv, Active
<1>7. IdsInv'
  <2>1. \A i \in DOMAIN known' : known'[i].id < nextId'
    BY <1>1, <1>2, <1>4, <1>6 DEF IdsInv
  <2>2. \A k \in Nodes : Active(k)' => id'[k] < nextId'
    BY <1>1, <1>6 DEF Types, IdsInv, Active
  <2>3. \A k \in Nodes : pc'[k] \in {"assigned", "copied"} => id'[k] \notin KnownIds'
    BY <1>1, <1>5, <1>6 DEF Types, IdsInv, Active
  <2>4. \A j, k \in Nodes : Active(j)' /\ Active(k)' /\ j # k => id'[j] # id'[k]
    BY <1>1, <1>6 DEF Types, IdsInv, Active
  <2>5. IdsUnique'
    <3>1. \A i \in 1 .. Len(known) : known[i].id # id[n]
      BY <1>4, <1>6 DEF KnownIds
    <3> QED BY <3>1, <1>2, <1>4 DEF IdsInv, IdsUnique
  <2> QED BY <2>1, <2>2, <2>3, <2>4, <2>5 DEF IdsInv
<1>8. ListsInv'
  BY <1>1, <1>5 DEF ListsInv, OneCalls
<1> QED BY <1>3, <1>7, <1>8

LEMMA PastServerKeepsReg ==
    ASSUME RegInv, NEW n \in Nodes, PastServer(n) PROVE RegInv'
<1> USE DEF RegInv
<1>1. UNCHANGED regVars /\ KnownIds' = KnownIds
  BY DEF PastServer, regVars, KnownIds
<1>2. Types'
  BY <1>1 DEF Types, PastServer, Labels, regVars
<1>3. \A k \in Nodes : /\ Active(k)' => Active(k) /\ id'[k] = id[k]
                       /\ pc'[k] \in {"assigned", "copied"} => pc'[k] = pc[k] /\ id'[k] = id[k]
  BY DEF Types, PastServer, Active
<1>4. IdsInv'
  BY <1>1, <1>3 DEF IdsInv, IdsUnique, regVars
<1>5. ListsInv'
  BY <1>1 DEF ListsInv, OneCalls, regVars
<1> QED BY <1>2, <1>4, <1>5

\* The ids the discovery server gives out are those of one node each, and its lists
\* name only nodes it has added: this holds at every step of every run.
THEOREM Registrations == Spec => []RegInv
<1>1. Init => RegInv
  BY DEF Init, RegInv, Types, IdsInv, IdsUnique, ListsInv, OneCalls, KnownIds, Active, Labels
<1>2. RegInv /\ [Next]_vars => RegInv'
  <2> SUFFICES ASSUME RegInv, [Next]_vars PROVE RegInv'
    OBVIOUS
  <2>1. CASE Elsewhere
    BY <2>1 DEF Elsewhere, regVars, RegInv, Types, IdsInv, IdsUnique, ListsInv, OneCalls,
                KnownIds, Active
  <2> QED
    BY <2>1, StepKinds, StartKeepsReg, AssignKeepsReg, CopyKeepsReg, RememberKeepsReg,
       PastServerKeepsReg
<1> QED BY <1>1, <1>2, PTL DEF Spec

\* No two nodes that the server has added have the same id, however the threads that
\* serve them interleave (DiscoveryServer::onDiscoveryMessage).
THEOREM UniqueIds == Spec => []IdsUnique
<1>1. RegInv => IdsUnique
  BY DEF RegInv, IdsInv
<1> QED BY <1>1, Registrations, PTL

\* Two nodes are never both told to call the other: copying the list before adding the
\* client is enough, without one lock around both.
THEOREM CallsOneWay == Spec => []OneCalls
<1>1. RegInv => OneCalls
  BY DEF RegInv, ListsInv
<1> QED BY <1>1, Registrations, PTL
=============================================================================
