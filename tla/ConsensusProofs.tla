-------------------------- MODULE ConsensusProofs --------------------------
(***************************************************************************)
(* What Consensus guarantees for every number of nodes, every set of       *)
(* transactions and every initial view, with machine-checked proofs.       *)
(***************************************************************************)
EXTENDS Consensus, TLAPS

-----------------------------------------------------------------------------
(* The operators the handlers are built from *)

\* The leader of a view is one of the nodes (getLeaderIndex).
LEMMA LeaderIsNode == \A v \in Nat : Leader(v) \in Nodes
  BY NAssumption DEF Leader, Nodes

\* A header hash is a sequence of timestamps.
LEMMA HeaderHashType == \A b \in Blocks : HeaderHash(b) \in Seq(Nat)
  BY DEF Blocks, HeaderHash

\* A chain that is not empty has a last block (getLatestBlock).
LEMMA LastBlock == \A s \in Seq(Blocks) \ {<<>>} : Last(s) \in Blocks
  BY DEF Last

\* A tracked proposal is a phase state (the constructor of PhaseState).
LEMMA NewPhaseStateType == \A b \in Blocks : NewPhaseState(b) \in PhaseStates
  BY DEF NewPhaseState, PhaseStates

\* createLeaderMessage.
LEMMA LeaderMessageType ==
  ASSUME NEW type \in {"PREPREPARE", "HASH_READY", "PREPARE", "COMMIT"},
         NEW n \in Nodes, NEW p \in Nodes, NEW v \in Nat, NEW b \in Blocks
  PROVE  LeaderMessage(type, n, p, v, b) \in BlockMessages
  BY DEF LeaderMessage, BlockMessages

\* broadcastMessage sends messages only.
LEMMA BroadcastType ==
  ASSUME NEW type \in {"PREPREPARE", "HASH_READY", "PREPARE", "COMMIT"},
         NEW n \in Nodes, NEW v \in Nat, NEW b \in Blocks
  PROVE  Broadcast(type, n, v, b) \subseteq Messages
  BY LeaderMessageType DEF Broadcast, Messages

\* A message other than NEW_TRANSACTION carries a sender, a view and a block.
LEMMA BlockMessageFields ==
  ASSUME NEW m \in Messages, m.type # "NEW_TRANSACTION"
  PROVE  m \in BlockMessages /\ m.from \in Nodes /\ m.to \in Nodes /\ m.view \in Nat
         /\ m.block \in Blocks /\ RoundOf(m) \in Rounds
  BY DEF Messages, BlockMessages, TxMessages, RoundOf, Rounds, Blocks

\* The mempool a NEW_TRANSACTION leads to holds transactions.
LEMMA PendingType ==
  ASSUME TypeOK, NEW n \in Nodes, NEW m \in net, m.type = "NEW_TRANSACTION"
  PROVE  m.tx \in Txs /\ (mempool[n] \cup {m.tx}) \in SUBSET Txs
  <1>1. m.tx \in Txs
    BY DEF TypeOK, Messages, BlockMessages, TxMessages
  <1> QED
    BY <1>1 DEF TypeOK

\* The block commitBlock makes is a block, on top of the chain.
LEMMA CommitBlockType ==
  ASSUME NEW n \in Nodes, NEW txs \in SUBSET Txs, chain[n] \in Seq(Blocks) \ {<<>>},
         NEW b \in CommitBlock(n, txs)
  PROVE  b \in Blocks /\ b.index = Len(chain[n]) /\ b.proposer = n /\ b.miner = NoNode
         /\ ~b.mined
  <1>1. Last(chain[n]) \in Blocks
    BY LastBlock
  <1>2. HeaderHash(Last(chain[n])) \in Seq(Nat)
    BY <1>1, HeaderHashType
  <1>3. Last(chain[n]).time \in Nat
    BY <1>1 DEF Blocks
  <1>4. Len(chain[n]) \in Nat
    OBVIOUS
  <1>5. PICK d \in Delays :
          b = [index |-> Len(chain[n]), prev |-> HeaderHash(Last(chain[n])),
               time |-> Last(chain[n]).time + d, txs |-> txs, proposer |-> n,
               miner |-> NoNode, mined |-> FALSE]
    BY DEF CommitBlock
  <1>6. Last(chain[n]).time + d \in Nat
    BY <1>3, BoundAssumption
  <1> QED
    BY <1>2, <1>4, <1>5, <1>6 DEF Blocks

-----------------------------------------------------------------------------
(* Types *)

PhaseTypeOK ==
    /\ DOMAIN phase = Nodes
    /\ \A n \in Nodes :
          /\ DOMAIN phase[n] \subseteq Rounds
          /\ phase[n] \in [DOMAIN phase[n] -> PhaseStates]

\* Changing the state of a tracked round keeps the phase map well formed.
LEMMA PhaseUpdateType ==
  ASSUME PhaseTypeOK, NEW n \in Nodes, NEW r \in DOMAIN phase[n], NEW s \in PhaseStates,
         phase' = [phase EXCEPT ![n][r] = s]
  PROVE  PhaseTypeOK'
  BY DEF PhaseTypeOK

\* So does tracking a round, new or not (addNewPhaseState).
LEMMA PhaseAddType ==
  ASSUME PhaseTypeOK, NEW n \in Nodes, NEW r \in Rounds, NEW b \in Blocks,
         phase' = AddNewPhaseState(n, r, b)
  PROVE  PhaseTypeOK'
  <1>1. NewPhaseState(b) \in PhaseStates
    BY NewPhaseStateType
  <1> QED
    BY <1>1 DEF PhaseTypeOK, AddNewPhaseState

\* The initial states are well typed.
LEMMA TypeInit == Init => TypeOK
  <1> SUFFICES ASSUME Init PROVE TypeOK
    OBVIOUS
  <1>1. GenesisBlock \in Blocks
    BY DEF GenesisBlock, Blocks
  <1>2. chain \in [Nodes -> Seq(Blocks) \ {<<>>}]
    BY <1>1 DEF Init
  <1>3. net \subseteq Messages
    <2> SUFFICES ASSUME NEW t \in Early PROVE NewTransaction(t, Owner[t]) \in Messages
      BY DEF Init
    <2> QED
      BY EarlyAssumption, TxAssumption DEF NewTransaction, Messages, TxMessages
  <1>4. PhaseTypeOK
    BY DEF Init, PhaseTypeOK
  <1>5. view \in [Nodes -> Nat] /\ utxo \in [Nodes -> SUBSET Outpoints]
        /\ mempool \in [Nodes -> SUBSET Txs] /\ created \subseteq Txs
    BY EarlyAssumption, BoundAssumption DEF Init, Outpoints
  <1> QED
    BY <1>2, <1>3, <1>4, <1>5 DEF Init, TypeOK, PhaseTypeOK

\* A step of a user's wallet keeps the types.
LEMMA TypeCreateTransaction ==
  ASSUME TypeOK, NEW t \in Txs, CreateTransaction(t)
  PROVE  TypeOK'
  <1>1. \A p \in Nodes : NewTransaction(t, p) \in Messages
    BY DEF NewTransaction, Messages, TxMessages
  <1> QED
    BY <1>1 DEF CreateTransaction, TypeOK

\* onNewTransaction keeps the types.
LEMMA TypeOnNewTransaction ==
  ASSUME TypeOK, NEW n \in Nodes, NEW m \in net, m.to = n, OnNewTransaction(n, m)
  PROVE  TypeOK'
  <1>1. m.tx \in Txs
    BY PendingType DEF OnNewTransaction
  <1>2. UNCHANGED <<view, chain, utxo, cancel, miners, created>>
    BY DEF OnNewTransaction
  <1> DEFINE pending == mempool[n] \cup {m.tx}
  <1>3. pending \in SUBSET Txs
    BY <1>1 DEF TypeOK
  <1> USE DEF PhaseTypeOK
  <1>4. CASE net' = net \ {m} /\ UNCHANGED <<mempool, phase, proposals>>
    BY <1>2, <1>4 DEF TypeOK
  <1>5. CASE /\ mempool' = [mempool EXCEPT ![n] = pending]
             /\ net' = net \ {m}
             /\ UNCHANGED <<phase, proposals>>
    BY <1>2, <1>3, <1>5 DEF TypeOK
  <1>6. ASSUME NEW b \in CommitBlock(n, pending),
               mempool' = [mempool EXCEPT ![n] = {}],
               phase' = AddNewPhaseState(n, <<view[n], b.index>>, b),
               net' = (net \ {m}) \cup Broadcast("PREPREPARE", n, view[n], b),
               proposals' = proposals \cup {<<view[n], b>>}
        PROVE  TypeOK'
    <2>1. b \in Blocks /\ view[n] \in Nat
      BY <1>3, CommitBlockType DEF TypeOK
    <2>2. <<view[n], b.index>> \in Rounds
      BY <2>1 DEF Blocks, Rounds
    <2>3. PhaseTypeOK'
      BY <1>6, <2>1, <2>2, PhaseAddType DEF TypeOK
    <2>4. net' \subseteq Messages
      BY <1>6, <2>1, BroadcastType DEF TypeOK
    <2>5. mempool' \in [Nodes -> SUBSET Txs] /\ proposals' \subseteq Nat \X Blocks
      BY <1>6, <2>1 DEF TypeOK
    <2> QED
      BY <1>2, <2>3, <2>4, <2>5 DEF TypeOK
  <1> QED
    BY <1>4, <1>5, <1>6 DEF OnNewTransaction

\* Moving a thread on, starting or ending one keeps the set of threads well typed.
LEMMA StepType ==
  ASSUME miners \in [Nodes -> SUBSET Threads], NEW n \in Nodes, NEW th, NEW new \in Threads,
         Step(n, th, new)
  PROVE  miners' \in [Nodes -> SUBSET Threads]
  BY DEF Step

LEMMA SpawnType ==
  ASSUME miners \in [Nodes -> SUBSET Threads], NEW n \in Nodes, NEW new \in Threads,
         miners' = [miners EXCEPT ![n] = @ \cup {new}]
  PROVE  miners' \in [Nodes -> SUBSET Threads]
  OBVIOUS

LEMMA ExitType ==
  ASSUME miners \in [Nodes -> SUBSET Threads], NEW n \in Nodes, NEW th, Exit(n, th)
  PROVE  miners' \in [Nodes -> SUBSET Threads]
  BY DEF Exit

\* onPreprepare keeps the types.
LEMMA TypeOnPreprepare ==
  ASSUME TypeOK, NEW n \in Nodes, NEW m \in net, m.to = n, OnPreprepare(n, m)
  PROVE  TypeOK'
  <1>1. m.view \in Nat /\ m.block \in Blocks /\ RoundOf(m) \in Rounds
    BY BlockMessageFields DEF OnPreprepare, TypeOK
  <1> DEFINE th == [view |-> m.view, block |-> m.block, to |-> NoNode, pc |-> "starting"]
  <1>2. th \in Threads
    BY <1>1 DEF Threads
  <1>3. PhaseTypeOK'
    BY <1>1, PhaseAddType DEF OnPreprepare, TypeOK, PhaseTypeOK
  <1>4. miners' = [miners EXCEPT ![n] = @ \cup {th}] \/ miners' = miners
    BY DEF OnPreprepare
  <1>5. miners' \in [Nodes -> SUBSET Threads]
    BY <1>2, <1>4, SpawnType DEF TypeOK
  <1>6. net' = net \ {m} /\ UNCHANGED <<view, chain, utxo, mempool, cancel, created, proposals>>
    BY DEF OnPreprepare
  <1> QED
    BY <1>3, <1>5, <1>6 DEF TypeOK, PhaseTypeOK

\* The mining thread keeps the types.
LEMMA TypeMine ==
  ASSUME TypeOK, NEW n \in Nodes, NEW th \in miners[n], Mine(n, th)
  PROVE  TypeOK'
  <1>1. th \in Threads
    BY DEF TypeOK
  <1>2. th.view \in Nat /\ th.block \in Blocks /\ th.to \in Nodes \cup {NoNode}
    BY <1>1 DEF Threads
  <1>3. CASE StartMining(n, th)
    <2>1. [th EXCEPT !.pc = "mining", !.block.miner = n] \in Threads
      BY <1>1 DEF Threads, Blocks
    <2>2. miners' \in [Nodes -> SUBSET Threads]
      BY <1>3, <2>1, StepType DEF StartMining, TypeOK
    <2> QED
      BY <1>3, <2>2 DEF StartMining, TypeOK
  <1>4. CASE LeaveMiningLoop(n, th)
    <2>1. [th EXCEPT !.pc = "exited", !.block.mined = TRUE] \in Threads
      BY <1>1 DEF Threads, Blocks
    <2>2. [th EXCEPT !.pc = "exited"] \in Threads
      BY <1>1 DEF Threads
    <2>3. miners' \in [Nodes -> SUBSET Threads]
      BY <1>4, <2>1, <2>2, StepType DEF LeaveMiningLoop, TypeOK
    <2> QED
      BY <1>4, <2>3 DEF LeaveMiningLoop, TypeOK
  <1>5. CASE AddressLeader(n, th)
    <2>1. Leader(view[n]) \in Nodes
      BY LeaderIsNode DEF TypeOK
    <2>2. [th EXCEPT !.pc = "sending", !.to = Leader(view[n])] \in Threads
      BY <1>1, <2>1 DEF Threads
    <2>3. miners' \in [Nodes -> SUBSET Threads]
      BY <1>5, <2>2, StepType, ExitType DEF AddressLeader, TypeOK
    <2> QED
      BY <1>5, <2>3 DEF AddressLeader, TypeOK
  <1>6. CASE SendHashReady(n, th)
    <2>1. th.to \in Nodes
      BY <1>1, <1>6 DEF SendHashReady, Threads
    <2>2. LeaderMessage("HASH_READY", n, th.to, th.view, th.block) \in Messages
      BY <1>2, <2>1, LeaderMessageType DEF Messages
    <2>3. miners' \in [Nodes -> SUBSET Threads]
      BY <1>6, ExitType DEF SendHashReady, TypeOK
    <2> QED
      BY <1>6, <2>2, <2>3 DEF SendHashReady, TypeOK
  <1> QED
    BY <1>3, <1>4, <1>5, <1>6 DEF Mine

\* onHashReady keeps the types.
LEMMA TypeOnHashReady ==
  ASSUME TypeOK, NEW n \in Nodes, NEW m \in net, m.to = n, OnHashReady(n, m)
  PROVE  TypeOK'
  <1> DEFINE r == RoundOf(m)
             p == phase[n][r]
             settled == CheckIfBlockMined(p.block, m.block)
             s == [p EXCEPT !.sentPrepare = TRUE, !.hashReady = settled,
                            !.block = IF settled THEN m.block ELSE @]
  <1>1. m.block \in Blocks /\ r \in Rounds
    BY BlockMessageFields DEF OnHashReady, TypeOK
  <1>2. UNCHANGED <<view, chain, utxo, mempool, cancel, miners, created, proposals>>
    BY DEF OnHashReady
  <1>3. CASE net' = net \ {m} /\ UNCHANGED phase
    BY <1>2, <1>3 DEF TypeOK
  <1>4. CASE /\ AcceptsHash(n, r, m.block)
             /\ phase' = [phase EXCEPT ![n][r] = s]
             /\ net' = (net \ {m}) \cup Broadcast("PREPARE", n, view[n], m.block)
    <2>1. r \in DOMAIN phase[n]
      BY <1>4 DEF AcceptsHash, IsTracking
    <2>2. p \in PhaseStates
      BY <2>1 DEF TypeOK
    <2>3. settled \in BOOLEAN
      BY DEF CheckIfBlockMined
    <2>4. s \in PhaseStates
      BY <1>1, <2>2, <2>3 DEF PhaseStates
    <2>5. PhaseTypeOK'
      BY <1>4, <2>1, <2>4, PhaseUpdateType DEF TypeOK, PhaseTypeOK
    <2>6. net' \subseteq Messages
      BY <1>1, <1>4, BroadcastType DEF TypeOK
    <2> QED
      BY <1>2, <2>5, <2>6 DEF TypeOK, PhaseTypeOK
  <1> QED
    BY <1>3, <1>4 DEF OnHashReady

\* onPrepare keeps the types.
LEMMA TypeOnPrepare ==
  ASSUME TypeOK, NEW n \in Nodes, NEW m \in net, m.to = n, OnPrepare(n, m)
  PROVE  TypeOK'
  <1> DEFINE r == RoundOf(m)
             p == phase[n][r]
             authors == p.prepares \cup {m.from}
             quorate == Cardinality(authors) >= Quorum
             echo == IF p.sentPrepare THEN {} ELSE Broadcast("PREPARE", n, m.view, m.block)
             commit == IF quorate THEN Broadcast("COMMIT", n, m.view, m.block) ELSE {}
             late == [p EXCEPT !.sentPrepare = TRUE]
             counted == [p EXCEPT !.sentPrepare = TRUE, !.prepares = authors,
                                  !.prepared = quorate, !.sentCommit = @ \/ quorate]
  <1>1. m.block \in Blocks /\ m.view \in Nat /\ m.from \in Nodes /\ r \in Rounds
    BY BlockMessageFields DEF OnPrepare, TypeOK
  <1>2. cancel' \in [Nodes -> BOOLEAN]
        /\ UNCHANGED <<view, chain, utxo, mempool, miners, created, proposals>>
    BY DEF OnPrepare, TypeOK
  <1>3. CASE net' = net \ {m} /\ UNCHANGED phase
    BY <1>2, <1>3 DEF TypeOK
  <1>4. ASSUME IsTracking(n, r) PROVE p \in PhaseStates /\ r \in DOMAIN phase[n]
    BY <1>4 DEF TypeOK, IsTracking
  <1>5. CASE IsTracking(n, r) /\ phase' = [phase EXCEPT ![n][r] = late] /\ net' = net \ {m}
    <2>1. late \in PhaseStates
      BY <1>4, <1>5 DEF PhaseStates
    <2>2. PhaseTypeOK'
      BY <1>4, <1>5, <2>1, PhaseUpdateType DEF TypeOK, PhaseTypeOK
    <2> QED
      BY <1>2, <1>5, <2>2 DEF TypeOK, PhaseTypeOK
  <1>6. CASE /\ IsTracking(n, r)
             /\ phase' = [phase EXCEPT ![n][r] = counted]
             /\ net' = (net \ {m}) \cup echo \cup commit
    <2>1. p \in PhaseStates
      BY <1>4, <1>6
    <2>2. authors \in SUBSET Nodes /\ quorate \in BOOLEAN /\ (p.sentCommit \/ quorate) \in BOOLEAN
      BY <1>1, <2>1 DEF PhaseStates
    <2> HIDE DEF quorate
    <2>3. counted \in PhaseStates
      BY <2>1, <2>2 DEF PhaseStates
    <2>4. PhaseTypeOK'
      BY <1>4, <1>6, <2>3, PhaseUpdateType DEF TypeOK, PhaseTypeOK
    <2>5. net' \subseteq Messages
      BY <1>1, <1>6, BroadcastType DEF TypeOK
    <2> QED
      BY <1>2, <2>4, <2>5 DEF TypeOK, PhaseTypeOK
  <1> QED
    BY <1>3, <1>5, <1>6 DEF OnPrepare

\* A chain that grows by a block is a chain.
LEMMA AppendBlock ==
  ASSUME NEW s \in Seq(Blocks) \ {<<>>}, NEW b \in Blocks
  PROVE  /\ Append(s, b) \in Seq(Blocks) \ {<<>>}
         /\ Len(Append(s, b)) = Len(s) + 1
         /\ \A i \in 1 .. Len(s) : Append(s, b)[i] = s[i]
         /\ Append(s, b)[Len(s) + 1] = b
  <1>1. Append(s, b) \in Seq(Blocks) /\ Len(s) \in Nat /\ Len(Append(s, b)) = Len(s) + 1
    OBVIOUS
  <1>2. Append(s, b) # <<>>
    BY <1>1
  <1> QED
    BY <1>1, <1>2

\* A transaction creates outpoints, and a block's effect on a UTXO set stays in them.
LEMMA AddBlockType ==
  ASSUME NEW U \in SUBSET Outpoints, NEW b \in Blocks
  PROVE  AddBlockToUtxo(U, b) \in SUBSET Outpoints
  <1>1. b.txs \subseteq Txs
    BY DEF Blocks
  <1> QED
    BY <1>1 DEF AddBlockToUtxo, CreatedBy, Outpoints

\* onCommit keeps the types.
LEMMA TypeOnCommit ==
  ASSUME TypeOK, NEW n \in Nodes, NEW m \in net, m.to = n, OnCommit(n, m)
  PROVE  TypeOK'
  <1> DEFINE r == RoundOf(m)
             p == phase[n][r]
             authors == p.commits \cup {m.from}
             heard == [p EXCEPT !.commits = authors]
             decided == [p EXCEPT !.commits = authors, !.committed = TRUE]
  <1>1. m.block \in Blocks /\ m.from \in Nodes /\ r \in Rounds
    BY BlockMessageFields DEF OnCommit, TypeOK
  <1>2. net' = net \ {m} /\ UNCHANGED <<cancel, miners, created, proposals>>
    BY DEF OnCommit
  <1>3. CASE UNCHANGED <<view, chain, utxo, mempool, phase>>
    BY <1>2, <1>3 DEF TypeOK
  <1>4. ASSUME IsTracking(n, r)
        PROVE  r \in DOMAIN phase[n] /\ heard \in PhaseStates /\ decided \in PhaseStates
    <2>1. r \in DOMAIN phase[n] /\ p \in PhaseStates
      BY <1>4 DEF IsTracking, TypeOK
    <2>2. authors \in SUBSET Nodes
      BY <1>1, <2>1 DEF PhaseStates
    <2> QED
      BY <2>1, <2>2 DEF PhaseStates
  <1>5. CASE /\ IsTracking(n, r)
             /\ phase' = [phase EXCEPT ![n][r] = heard]
             /\ UNCHANGED <<view, chain, utxo, mempool>>
    <2>1. PhaseTypeOK'
      BY <1>4, <1>5, PhaseUpdateType DEF TypeOK, PhaseTypeOK
    <2> QED
      BY <1>2, <1>5, <2>1 DEF TypeOK, PhaseTypeOK
  <1>6. CASE /\ IsTracking(n, r)
             /\ phase' = [phase EXCEPT ![n][r] = decided]
             /\ chain' = chain \/ chain' = [chain EXCEPT ![n] = Append(@, m.block)]
             /\ \/ mempool' = mempool
                \/ mempool' = [mempool EXCEPT ![n] = UpdateMempoolOnNewBlock(@, m.block)]
             /\ utxo' = [utxo EXCEPT ![n] = AddBlockToUtxo(@, m.block)]
             /\ IncrementView(n)
    <2>1. PhaseTypeOK'
      BY <1>4, <1>6, PhaseUpdateType DEF TypeOK, PhaseTypeOK
    <2>2. chain' \in [Nodes -> Seq(Blocks) \ {<<>>}]
      <3>1. chain[n] \in Seq(Blocks) \ {<<>>}
        BY DEF TypeOK
      <3>2. Append(chain[n], m.block) \in Seq(Blocks) \ {<<>>}
        BY <1>1, <3>1, AppendBlock
      <3>3. CASE chain' = chain
        BY <3>3 DEF TypeOK
      <3>4. CASE chain' = [chain EXCEPT ![n] = Append(@, m.block)]
        BY <3>2, <3>4 DEF TypeOK
      <3> QED
        BY <1>6, <3>3, <3>4
    <2>3. mempool' \in [Nodes -> SUBSET Txs]
      <3>1. UpdateMempoolOnNewBlock(mempool[n], m.block) \in SUBSET Txs
        BY DEF TypeOK, UpdateMempoolOnNewBlock
      <3>2. CASE mempool' = mempool
        BY <3>2 DEF TypeOK
      <3>3. CASE mempool' = [mempool EXCEPT ![n] = UpdateMempoolOnNewBlock(@, m.block)]
        BY <3>1, <3>3 DEF TypeOK
      <3> QED
        BY <1>6, <3>2, <3>3
    <2>4. utxo' \in [Nodes -> SUBSET Outpoints]
      BY <1>1, <1>6, AddBlockType DEF TypeOK
    <2>5. view' \in [Nodes -> Nat]
      BY <1>6 DEF TypeOK, IncrementView
    <2> QED
      BY <1>2, <2>1, <2>2, <2>3, <2>4, <2>5 DEF TypeOK, PhaseTypeOK
  <1> QED
    BY <1>3, <1>5, <1>6 DEF OnCommit

\* Every step keeps the types.
LEMMA TypeNext == TypeOK /\ [Next]_vars => TypeOK'
  <1> SUFFICES ASSUME TypeOK, [Next]_vars PROVE TypeOK'
    OBVIOUS
  <1>1. CASE UNCHANGED vars
    BY <1>1 DEF vars, TypeOK
  <1>2. ASSUME NEW t \in Txs, CreateTransaction(t) PROVE TypeOK'
    BY <1>2, TypeCreateTransaction
  <1>3. ASSUME NEW n \in Nodes, NEW m \in net, m.to = n, Handle(n, m) PROVE TypeOK'
    BY <1>3, TypeOnNewTransaction, TypeOnPreprepare, TypeOnHashReady, TypeOnPrepare,
       TypeOnCommit DEF Handle
  <1>4. ASSUME NEW n \in Nodes, NEW th \in miners[n], Mine(n, th) PROVE TypeOK'
    BY <1>4, TypeMine
  <1> QED
    BY <1>1, <1>2, <1>3, <1>4 DEF Next, System

\* Type correctness: whatever the nodes receive and in whatever order, the state stays
\* one the classes of the code can hold; the leader a thread reports to is a node.
THEOREM TypeCorrect == Spec => []TypeOK
  <1> QED
    BY TypeInit, TypeNext, PTL DEF Spec

-----------------------------------------------------------------------------
(* Rounds: OpenRoundIsCurrent is inductive once the indices on a chain are known. *)

\* Blocks are numbered by their height, the genesis block being 0.
Indexed ==
    \A n \in Nodes : \A i \in 1 .. Len(chain[n]) : chain[n][i].index = i - 1

RoundInv == TypeOK /\ Indexed /\ OpenRoundIsCurrent

\* A valid block has the index of the next height, so it belongs to the round
\* <<view, height>> when it comes with the node's view.
LEMMA ValidIndex ==
  ASSUME TypeOK, Indexed, NEW n \in Nodes, NEW b \in Blocks, IsBlockValid(n, b)
  PROVE  b.index = Len(chain[n])
  <1>1. chain[n] \in Seq(Blocks) \ {<<>>}
    BY DEF TypeOK
  <1>2. Len(chain[n]) \in 1 .. Len(chain[n])
    BY <1>1
  <1>3. Last(chain[n]).index = Len(chain[n]) - 1
    BY <1>2 DEF Indexed, Last
  <1> QED
    BY <1>1, <1>3 DEF IsBlockValid, Blocks

LEMMA RoundInit == Init => RoundInv
  <1> SUFFICES ASSUME Init PROVE Indexed /\ OpenRoundIsCurrent
    BY TypeInit DEF RoundInv
  <1>1. Indexed
    BY DEF Init, Indexed, GenesisBlock
  <1>2. \A n \in Nodes : DOMAIN phase[n] = {}
    BY DEF Init
  <1> QED
    BY <1>1, <1>2 DEF OpenRoundIsCurrent

\* A step that changes no phase state, view or chain disturbs nothing.
LEMMA RoundUnchanged ==
  ASSUME RoundInv, UNCHANGED <<view, chain, phase>>
  PROVE  Indexed' /\ OpenRoundIsCurrent' /\ KeepsCommitted
  BY DEF RoundInv, TypeOK, PhaseStates, Indexed, OpenRoundIsCurrent, KeepsCommitted, CommittedRounds

\* Tracking the node's current round: it cannot be one the node has committed.
LEMMA RoundAdd ==
  ASSUME RoundInv, NEW n \in Nodes, NEW r \in Rounds, NEW b \in Blocks,
         r = <<view[n], Len(chain[n])>>,
         phase' = AddNewPhaseState(n, r, b), UNCHANGED <<view, chain>>
  PROVE  Indexed' /\ OpenRoundIsCurrent' /\ KeepsCommitted
  <1>1. Indexed'
    BY DEF RoundInv, Indexed
  <1>2. view[n] \in Nat /\ DOMAIN phase = Nodes
    BY DEF RoundInv, TypeOK
  <1>3. r \notin CommittedRounds(n)
    BY <1>2 DEF RoundInv, OpenRoundIsCurrent, CommittedRounds
  <1>4. \A k \in Nodes \ {n} : phase'[k] = phase[k]
    BY <1>2 DEF AddNewPhaseState
  <1>5. /\ DOMAIN phase'[n] = DOMAIN phase[n] \cup {r}
        /\ \A k \in DOMAIN phase[n] \ {r} : phase'[n][k] = phase[n][k]
        /\ phase'[n][r].committed = FALSE
    BY <1>2 DEF AddNewPhaseState, NewPhaseState
  <1>6. OpenRoundIsCurrent'
    BY <1>2, <1>4, <1>5, SMTT(30) DEF RoundInv, OpenRoundIsCurrent
  <1>7. KeepsCommitted
    BY <1>3, <1>4, <1>5 DEF KeepsCommitted, CommittedRounds
  <1> QED
    BY <1>1, <1>6, <1>7

\* Counting votes leaves a round as open, or as committed, as it was.
LEMMA RoundUpdate ==
  ASSUME RoundInv, NEW n \in Nodes, NEW r \in DOMAIN phase[n], NEW s \in PhaseStates,
         s.committed = phase[n][r].committed,
         phase' = [phase EXCEPT ![n][r] = s], UNCHANGED <<view, chain>>
  PROVE  Indexed' /\ OpenRoundIsCurrent' /\ KeepsCommitted
  <1>1. Indexed'
    BY DEF RoundInv, Indexed
  <1>2. DOMAIN phase = Nodes /\ phase[n] \in [DOMAIN phase[n] -> PhaseStates]
    BY DEF RoundInv, TypeOK
  <1>3. \A k \in Nodes \ {n} : phase'[k] = phase[k]
    BY <1>2
  <1>4. /\ DOMAIN phase'[n] = DOMAIN phase[n]
        /\ \A k \in DOMAIN phase[n] : phase'[n][k].committed = phase[n][k].committed
    BY <1>2
  <1>5. OpenRoundIsCurrent'
    BY <1>2, <1>3, <1>4 DEF RoundInv, OpenRoundIsCurrent
  <1>6. KeepsCommitted
    BY <1>3, <1>4 DEF KeepsCommitted, CommittedRounds
  <1> QED
    BY <1>1, <1>5, <1>6

\* Committing the current round moves the view past it, whether or not addBlock takes
\* the block: no round is open afterwards.
LEMMA RoundCommit ==
  ASSUME RoundInv, NEW n \in Nodes, NEW r \in DOMAIN phase[n], NEW b \in Blocks,
         NEW s \in PhaseStates, s.committed, ~phase[n][r].committed,
         phase' = [phase EXCEPT ![n][r] = s],
         chain' = IF IsBlockValid(n, b) THEN [chain EXCEPT ![n] = Append(@, b)] ELSE chain,
         IncrementView(n)
  PROVE  Indexed' /\ OpenRoundIsCurrent' /\ KeepsCommitted
  <1>1. /\ DOMAIN phase = Nodes
        /\ DOMAIN phase[n] \subseteq Rounds
        /\ phase[n] \in [DOMAIN phase[n] -> PhaseStates]
        /\ view \in [Nodes -> Nat]
        /\ chain \in [Nodes -> Seq(Blocks) \ {<<>>}]
    BY DEF RoundInv, TypeOK
  <1>2. Indexed'
    <2>1. CASE chain' = chain
      BY <2>1 DEF RoundInv, Indexed
    <2>2. CASE IsBlockValid(n, b) /\ chain' = [chain EXCEPT ![n] = Append(@, b)]
      <3>1. b.index = Len(chain[n])
        BY <2>2, ValidIndex DEF RoundInv
      <3>2. chain'[n] = Append(chain[n], b) /\ \A k \in Nodes \ {n} : chain'[k] = chain[k]
        BY <1>1, <2>2
      <3>3. chain[n] \in Seq(Blocks) \ {<<>>} /\ Len(chain[n]) \in Nat
        BY <1>1
      <3>4. \A i \in 1 .. Len(chain'[n]) : chain'[n][i].index = i - 1
        <4>1. Len(chain'[n]) = Len(chain[n]) + 1
          BY <3>2, <3>3, AppendBlock
        <4>2. \A i \in 1 .. Len(chain[n]) : chain'[n][i].index = i - 1
          BY <3>2, <3>3, AppendBlock DEF RoundInv, Indexed
        <4>3. chain'[n][Len(chain[n]) + 1].index = Len(chain[n])
          BY <3>1, <3>2, <3>3, AppendBlock
        <4> QED
          BY <3>3, <4>1, <4>2, <4>3
      <3> QED
        BY <3>2, <3>4 DEF RoundInv, Indexed
    <2> QED
      BY <2>1, <2>2
  <1>3. \A k \in Nodes \ {n} : phase'[k] = phase[k] /\ view'[k] = view[k] /\ chain'[k] = chain[k]
    BY <1>1 DEF IncrementView
  <1>4. /\ DOMAIN phase'[n] = DOMAIN phase[n]
        /\ phase'[n][r] = s
        /\ \A k \in DOMAIN phase[n] \ {r} : phase'[n][k] = phase[n][k]
        /\ view'[n] = view[n] + 1
    BY <1>1 DEF IncrementView
  <1>5. r = <<view[n], Len(chain[n])>>
    BY <1>1 DEF RoundInv, OpenRoundIsCurrent, Rounds
  <1>6. \A k \in DOMAIN phase[n] \ {r} : phase[n][k].committed /\ k[1] < view[n]
    BY <1>1, <1>5 DEF RoundInv, OpenRoundIsCurrent, Rounds
  <1>7. \A k \in DOMAIN phase'[n] : phase'[n][k].committed /\ k[1] < view'[n]
    BY <1>1, <1>4, <1>5, <1>6 DEF Rounds
  <1>8. OpenRoundIsCurrent'
    BY <1>3, <1>7 DEF RoundInv, OpenRoundIsCurrent
  <1>9. KeepsCommitted
    BY <1>3, <1>4, <1>7 DEF KeepsCommitted, CommittedRounds
  <1> QED
    BY <1>2, <1>8, <1>9

LEMMA RoundOnNewTransaction ==
  ASSUME RoundInv, NEW n \in Nodes, NEW m \in net, m.to = n, OnNewTransaction(n, m)
  PROVE  Indexed' /\ OpenRoundIsCurrent' /\ KeepsCommitted
  <1> DEFINE pending == mempool[n] \cup {m.tx}
  <1>1. UNCHANGED <<view, chain>>
    BY DEF OnNewTransaction
  <1>2. CASE UNCHANGED phase
    BY <1>1, <1>2, RoundUnchanged
  <1>3. ASSUME NEW b \in CommitBlock(n, pending),
               phase' = AddNewPhaseState(n, <<view[n], b.index>>, b)
        PROVE  Indexed' /\ OpenRoundIsCurrent' /\ KeepsCommitted
    <2>1. pending \in SUBSET Txs
      BY PendingType DEF RoundInv, OnNewTransaction
    <2> HIDE DEF pending
    <2>2. chain[n] \in Seq(Blocks) \ {<<>>} /\ view[n] \in Nat
      BY DEF RoundInv, TypeOK
    <2>3. b \in Blocks /\ b.index = Len(chain[n])
      BY <2>1, <2>2, CommitBlockType
    <2>4. <<view[n], Len(chain[n])>> \in Rounds
      BY <2>2 DEF Rounds
    <2> QED
      BY <1>1, <1>3, <2>3, <2>4, RoundAdd
  <1> QED
    BY <1>2, <1>3 DEF OnNewTransaction

LEMMA RoundOnPreprepare ==
  ASSUME RoundInv, NEW n \in Nodes, NEW m \in net, m.to = n, OnPreprepare(n, m)
  PROVE  Indexed' /\ OpenRoundIsCurrent' /\ KeepsCommitted
  <1>1. m.block \in Blocks /\ RoundOf(m) \in Rounds
    BY BlockMessageFields DEF OnPreprepare, RoundInv, TypeOK
  <1>2. UNCHANGED <<view, chain>>
    BY DEF OnPreprepare
  <1>3. CASE UNCHANGED phase
    BY <1>2, <1>3, RoundUnchanged
  <1>4. CASE AcceptsProposal(n, m) /\ phase' = AddNewPhaseState(n, RoundOf(m), m.block)
    <2>1. m.view = view[n] /\ IsBlockValid(n, m.block)
      BY <1>4 DEF AcceptsProposal
    <2>2. RoundOf(m) = <<view[n], Len(chain[n])>>
      BY <1>1, <2>1, ValidIndex DEF RoundOf, RoundInv
    <2> QED
      BY <1>1, <1>2, <1>4, <2>2, RoundAdd
  <1> QED
    BY <1>3, <1>4 DEF OnPreprepare

LEMMA RoundOnHashReady ==
  ASSUME RoundInv, NEW n \in Nodes, NEW m \in net, m.to = n, OnHashReady(n, m)
  PROVE  Indexed' /\ OpenRoundIsCurrent' /\ KeepsCommitted
  <1> DEFINE r == RoundOf(m)
             p == phase[n][r]
             settled == CheckIfBlockMined(p.block, m.block)
             s == [p EXCEPT !.sentPrepare = TRUE, !.hashReady = settled,
                            !.block = IF settled THEN m.block ELSE @]
  <1>1. m.block \in Blocks
    BY BlockMessageFields DEF OnHashReady, RoundInv, TypeOK
  <1>2. UNCHANGED <<view, chain>>
    BY DEF OnHashReady
  <1>3. CASE UNCHANGED phase
    BY <1>2, <1>3, RoundUnchanged
  <1>4. CASE AcceptsHash(n, r, m.block) /\ phase' = [phase EXCEPT ![n][r] = s]
    <2>1. r \in DOMAIN phase[n] /\ p \in PhaseStates
      BY <1>4 DEF AcceptsHash, IsTracking, RoundInv, TypeOK
    <2>2. settled \in BOOLEAN
      BY DEF CheckIfBlockMined
    <2>3. s \in PhaseStates /\ s.committed = p.committed
      BY <1>1, <2>1, <2>2 DEF PhaseStates
    <2> QED
      BY <1>2, <1>4, <2>1, <2>3, RoundUpdate
  <1> QED
    BY <1>3, <1>4 DEF OnHashReady

LEMMA RoundOnPrepare ==
  ASSUME RoundInv, NEW n \in Nodes, NEW m \in net, m.to = n, OnPrepare(n, m)
  PROVE  Indexed' /\ OpenRoundIsCurrent' /\ KeepsCommitted
  <1> DEFINE r == RoundOf(m)
             p == phase[n][r]
             authors == p.prepares \cup {m.from}
             quorate == Cardinality(authors) >= Quorum
             late == [p EXCEPT !.sentPrepare = TRUE]
             counted == [p EXCEPT !.sentPrepare = TRUE, !.prepares = authors,
                                  !.prepared = quorate, !.sentCommit = @ \/ quorate]
  <1>1. m.from \in Nodes
    BY BlockMessageFields DEF OnPrepare, RoundInv, TypeOK
  <1>2. UNCHANGED <<view, chain>>
    BY DEF OnPrepare
  <1>3. CASE UNCHANGED phase
    BY <1>2, <1>3, RoundUnchanged
  <1>4. ASSUME IsTracking(n, r)
        PROVE  /\ r \in DOMAIN phase[n]
               /\ late \in PhaseStates /\ late.committed = p.committed
               /\ counted \in PhaseStates /\ counted.committed = p.committed
    <2>1. r \in DOMAIN phase[n] /\ p \in PhaseStates
      BY <1>4 DEF IsTracking, RoundInv, TypeOK
    <2>2. authors \in SUBSET Nodes /\ quorate \in BOOLEAN /\ (p.sentCommit \/ quorate) \in BOOLEAN
      BY <1>1, <2>1 DEF PhaseStates
    <2> HIDE DEF quorate
    <2> QED
      BY <2>1, <2>2 DEF PhaseStates
  <1>5. CASE IsTracking(n, r) /\ phase' = [phase EXCEPT ![n][r] = late]
    <2> HIDE DEF late, r
    <2> QED
      BY <1>2, <1>4, <1>5, RoundUpdate
  <1>6. CASE IsTracking(n, r) /\ phase' = [phase EXCEPT ![n][r] = counted]
    <2> HIDE DEF counted, r
    <2> QED
      BY <1>2, <1>4, <1>6, RoundUpdate
  <1> QED
    BY <1>3, <1>5, <1>6 DEF OnPrepare

LEMMA RoundOnCommit ==
  ASSUME RoundInv, NEW n \in Nodes, NEW m \in net, m.to = n, OnCommit(n, m)
  PROVE  Indexed' /\ OpenRoundIsCurrent' /\ KeepsCommitted
  <1> DEFINE r == RoundOf(m)
             p == phase[n][r]
             authors == p.commits \cup {m.from}
             heard == [p EXCEPT !.commits = authors]
             decided == [p EXCEPT !.commits = authors, !.committed = TRUE]
  <1>1. m.from \in Nodes /\ m.block \in Blocks
    BY BlockMessageFields DEF OnCommit, RoundInv, TypeOK
  <1>2. CASE UNCHANGED <<view, chain, phase>>
    BY <1>2, RoundUnchanged
  <1>3. ASSUME IsTracking(n, r)
        PROVE  /\ r \in DOMAIN phase[n]
               /\ heard \in PhaseStates /\ heard.committed = p.committed
               /\ decided \in PhaseStates /\ decided.committed
    <2>1. r \in DOMAIN phase[n] /\ p \in PhaseStates
      BY <1>3 DEF IsTracking, RoundInv, TypeOK
    <2>2. authors \in SUBSET Nodes
      BY <1>1, <2>1 DEF PhaseStates
    <2> QED
      BY <2>1, <2>2 DEF PhaseStates
  <1>4. CASE IsTracking(n, r) /\ phase' = [phase EXCEPT ![n][r] = heard] /\ UNCHANGED <<view, chain>>
    <2> HIDE DEF heard, r
    <2> QED
      BY <1>3, <1>4, RoundUpdate
  <1>5. CASE /\ IsTracking(n, r) /\ ~p.committed
             /\ phase' = [phase EXCEPT ![n][r] = decided]
             /\ chain' = IF IsBlockValid(n, m.block)
                         THEN [chain EXCEPT ![n] = Append(@, m.block)] ELSE chain
             /\ IncrementView(n)
    <2> HIDE DEF decided, r
    <2> QED
      BY <1>1, <1>3, <1>5, RoundCommit
  <1> QED
    BY <1>2, <1>4, <1>5 DEF OnCommit

LEMMA RoundNext ==
  RoundInv /\ [Next]_vars => Indexed' /\ OpenRoundIsCurrent' /\ KeepsCommitted
  <1> SUFFICES ASSUME RoundInv, [Next]_vars
               PROVE  Indexed' /\ OpenRoundIsCurrent' /\ KeepsCommitted
    OBVIOUS
  <1>1. CASE UNCHANGED vars
    BY <1>1, RoundUnchanged DEF vars
  <1>2. ASSUME NEW t \in Txs, CreateTransaction(t)
        PROVE  Indexed' /\ OpenRoundIsCurrent' /\ KeepsCommitted
    BY <1>2, RoundUnchanged DEF CreateTransaction
  <1>3. ASSUME NEW n \in Nodes, NEW m \in net, m.to = n, Handle(n, m)
        PROVE  Indexed' /\ OpenRoundIsCurrent' /\ KeepsCommitted
    BY <1>3, RoundOnNewTransaction, RoundOnPreprepare, RoundOnHashReady, RoundOnPrepare,
       RoundOnCommit DEF Handle
  <1>4. ASSUME NEW n \in Nodes, NEW th \in miners[n], Mine(n, th)
        PROVE  Indexed' /\ OpenRoundIsCurrent' /\ KeepsCommitted
    BY <1>4, RoundUnchanged
    DEF Mine, StartMining, LeaveMiningLoop, AddressLeader, SendHashReady
  <1> QED
    BY <1>1, <1>2, <1>3, <1>4 DEF Next, System

LEMMA RoundInvariant == Spec => []RoundInv
  <1>1. RoundInv /\ [Next]_vars => RoundInv'
    BY TypeNext, RoundNext DEF RoundInv
  <1> QED
    BY <1>1, RoundInit, PTL DEF Spec

\* For every network: the round a node works on is that of its view and of its next
\* block, and the rounds it has committed are of views it has left.
THEOREM OpenRounds == Spec => []OpenRoundIsCurrent
  <1>1. RoundInv => OpenRoundIsCurrent
    BY DEF RoundInv
  <1> QED
    BY <1>1, RoundInvariant, PTL

\* For every network: a round once committed stays committed, whatever arrives.
THEOREM DecisionsAreFinal == Spec => CommittedStays
  <1>1. RoundInv /\ [Next]_vars => KeepsCommitted
    BY RoundNext
  <1>2. RoundInv /\ [Next]_vars => [KeepsCommitted]_vars
    BY <1>1
  <1> QED
    BY <1>2, RoundInvariant, PTL DEF Spec, CommittedStays

-----------------------------------------------------------------------------
(* Proof of work: where a block with a nonce can come from. *)

Minted(b) == b.mined /\ b.miner \notin {NoNode, b.proposer}

\* A proposal is its leader's own and is not mined; a mined block that is reported, and
\* every block that is voted on, was mined by another node than its proposer.
MessageMinted(m) ==
    /\ m.type = "PREPREPARE" =>
          ~m.block.mined /\ m.block.proposer = m.from /\ m.to # m.from
    /\ m.type = "HASH_READY" /\ m.block.mined => Minted(m.block)
    /\ m.type \in {"PREPARE", "COMMIT"} => Minted(m.block)

\* A thread mines a block of another node, under its own node's name.
ThreadMinted(n, th) ==
    /\ th.block.proposer # n
    /\ th.pc = "starting" => ~th.block.mined
    /\ th.pc # "starting" => th.block.miner = n

MinedInv ==
    /\ TypeOK
    /\ \A m \in net : MessageMinted(m)
    /\ \A n \in Nodes : \A th \in miners[n] : ThreadMinted(n, th)
    /\ CommittedBlocksMined

LEMMA NoNodeIsNone == NoNode \notin Nodes
  BY DEF NoNode, Nodes

LEMMA MinedInit == Init => MinedInv
  <1> SUFFICES ASSUME Init PROVE MinedInv
    OBVIOUS
  <1>1. \A m \in net : MessageMinted(m)
    BY DEF Init, NewTransaction, MessageMinted
  <1>2. CommittedBlocksMined
    BY DEF Init, CommittedBlocksMined
  <1> QED
    BY <1>1, <1>2, TypeInit DEF Init, MinedInv

\* A vote for a minted block is a minted message; so is a leader's proposal.
LEMMA VoteMinted ==
  ASSUME NEW type \in {"PREPARE", "COMMIT"}, NEW n, NEW v, NEW b, Minted(b)
  PROVE  \A m \in Broadcast(type, n, v, b) : MessageMinted(m)
  BY DEF Broadcast, LeaderMessage, MessageMinted

LEMMA ProposalMinted ==
  ASSUME NEW n \in Nodes, NEW v, NEW b, ~b.mined, b.proposer = n
  PROVE  \A m \in Broadcast("PREPREPARE", n, v, b) : MessageMinted(m)
  BY DEF Broadcast, LeaderMessage, MessageMinted

\* A step that leaves threads and chains alone and sends only minted messages.
LEMMA MinedSend ==
  ASSUME MinedInv, TypeOK', UNCHANGED <<miners, chain>>,
         NEW S, net' \subseteq net \cup S, \A m \in S : MessageMinted(m)
  PROVE  MinedInv'
  <1>1. \A m \in net' : MessageMinted(m)
    BY DEF MinedInv
  <1>2. CommittedBlocksMined'
    BY DEF MinedInv, CommittedBlocksMined
  <1> QED
    BY <1>1, <1>2 DEF MinedInv

LEMMA MinedDrop ==
  ASSUME MinedInv, TypeOK', UNCHANGED <<miners, chain>>, net' \subseteq net
  PROVE  MinedInv'
  <1>1. \A m \in net' : MessageMinted(m)
    BY DEF MinedInv
  <1>2. CommittedBlocksMined'
    BY DEF MinedInv, CommittedBlocksMined
  <1> QED
    BY <1>1, <1>2 DEF MinedInv

LEMMA MinedOnNewTransaction ==
  ASSUME MinedInv, TypeOK', NEW n \in Nodes, NEW m \in net, m.to = n, OnNewTransaction(n, m)
  PROVE  MinedInv'
  <1> DEFINE pending == mempool[n] \cup {m.tx}
  <1>1. UNCHANGED <<miners, chain>>
    BY DEF OnNewTransaction
  <1>2. CASE net' = net \ {m}
    BY <1>1, <1>2, MinedDrop
  <1>3. ASSUME NEW b \in CommitBlock(n, pending),
               net' = (net \ {m}) \cup Broadcast("PREPREPARE", n, view[n], b)
        PROVE  MinedInv'
    <2>1. pending \in SUBSET Txs
      BY PendingType DEF MinedInv, OnNewTransaction
    <2> HIDE DEF pending
    <2>2. chain[n] \in Seq(Blocks) \ {<<>>}
      BY DEF MinedInv, TypeOK
    <2>3. ~b.mined /\ b.proposer = n
      BY <2>1, <2>2, CommitBlockType
    <2>4. \A k \in Broadcast("PREPREPARE", n, view[n], b) : MessageMinted(k)
      BY <2>3, ProposalMinted
    <2>5. net' \subseteq net \cup Broadcast("PREPREPARE", n, view[n], b)
      BY <1>3
    <2> QED
      BY <1>1, <2>4, <2>5, MinedSend
  <1> QED
    BY <1>2, <1>3 DEF OnNewTransaction

LEMMA MinedOnPreprepare ==
  ASSUME MinedInv, TypeOK', NEW n \in Nodes, NEW m \in net, m.to = n, OnPreprepare(n, m)
  PROVE  MinedInv'
  <1> DEFINE new == [view |-> m.view, block |-> m.block, to |-> NoNode, pc |-> "starting"]
  <1>1. ~m.block.mined /\ m.block.proposer # n
    BY DEF MinedInv, MessageMinted, OnPreprepare
  <1>2. ThreadMinted(n, new)
    BY <1>1 DEF ThreadMinted
  <1>3. net' = net \ {m} /\ UNCHANGED chain
    BY DEF OnPreprepare
  <1>4. miners' = miners \/ miners' = [miners EXCEPT ![n] = @ \cup {new}]
    BY DEF OnPreprepare
  <1> HIDE DEF new
  <1>5. \A k \in Nodes : miners'[k] \subseteq miners[k] \cup (IF k = n THEN {new} ELSE {})
    BY <1>4 DEF MinedInv, TypeOK
  <1>6. \A k \in Nodes : \A th \in miners'[k] : ThreadMinted(k, th)
    BY <1>2, <1>5 DEF MinedInv
  <1>7. (\A k \in net' : MessageMinted(k)) /\ CommittedBlocksMined'
    BY <1>3 DEF MinedInv, CommittedBlocksMined
  <1> QED
    BY <1>6, <1>7 DEF MinedInv

LEMMA MinedMine ==
  ASSUME MinedInv, TypeOK', NEW n \in Nodes, NEW th \in miners[n], Mine(n, th)
  PROVE  MinedInv'
  <1> TypeOK
    BY DEF MinedInv
  <1>1. ThreadMinted(n, th) /\ th \in Threads /\ th.block \in Blocks /\ miners \in [Nodes -> SUBSET Threads]
    BY DEF MinedInv, TypeOK, Threads
  <1>2. UNCHANGED chain /\ CommittedBlocksMined'
    BY DEF Mine, StartMining, LeaveMiningLoop, AddressLeader, SendHashReady, MinedInv,
       CommittedBlocksMined
  <1>3. ASSUME NEW new, Step(n, th, new), ThreadMinted(n, new)
        PROVE  \A k \in Nodes : \A t \in miners'[k] : ThreadMinted(k, t)
    <2>1. \A k \in Nodes : miners'[k] \subseteq miners[k] \cup (IF k = n THEN {new} ELSE {})
      BY <1>1, <1>3 DEF Step
    <2> QED
      BY <1>3, <2>1 DEF MinedInv
  <1>4. ASSUME Exit(n, th)
        PROVE  \A k \in Nodes : \A t \in miners'[k] : ThreadMinted(k, t)
    <2>1. \A k \in Nodes : miners'[k] \subseteq miners[k]
      BY <1>1, <1>4 DEF Exit
    <2> QED
      BY <2>1 DEF MinedInv
  <1>5. CASE StartMining(n, th)
    <2>1. ThreadMinted(n, [th EXCEPT !.pc = "mining", !.block.miner = n])
      BY <1>1 DEF ThreadMinted, Threads, Blocks
    <2> QED
      BY <1>2, <1>3, <1>5, <2>1 DEF StartMining, MinedInv
  <1>6. CASE LeaveMiningLoop(n, th)
    <2>1. th.pc = "mining"
      BY <1>6 DEF LeaveMiningLoop
    <2>2. ThreadMinted(n, [th EXCEPT !.pc = "exited", !.block.mined = TRUE])
      BY <1>1, <2>1 DEF ThreadMinted, Threads, Blocks
    <2>3. ThreadMinted(n, [th EXCEPT !.pc = "exited"])
      BY <1>1, <2>1 DEF ThreadMinted, Threads
    <2> QED
      BY <1>2, <1>3, <1>6, <2>2, <2>3 DEF LeaveMiningLoop, MinedInv
  <1>7. CASE AddressLeader(n, th)
    <2>1. th.pc = "exited"
      BY <1>7 DEF AddressLeader
    <2>2. ThreadMinted(n, [th EXCEPT !.pc = "sending", !.to = Leader(view[n])])
      BY <1>1, <2>1 DEF ThreadMinted, Threads
    <2> QED
      BY <1>2, <1>3, <1>4, <1>7, <2>2 DEF AddressLeader, MinedInv
  <1>8. CASE SendHashReady(n, th)
    <2>1. th.block.mined => Minted(th.block)
      BY <1>1, <1>8, NoNodeIsNone DEF SendHashReady, ThreadMinted, Minted
    <2>2. MessageMinted(LeaderMessage("HASH_READY", n, th.to, th.view, th.block))
      BY <2>1 DEF LeaderMessage, MessageMinted
    <2>3. \A m \in net' : MessageMinted(m)
      BY <1>8, <2>2 DEF SendHashReady, MinedInv
    <2> QED
      BY <1>2, <1>4, <1>8, <2>3 DEF SendHashReady, MinedInv
  <1> QED
    BY <1>5, <1>6, <1>7, <1>8 DEF Mine

LEMMA MinedOnHashReady ==
  ASSUME MinedInv, TypeOK', NEW n \in Nodes, NEW m \in net, m.to = n, OnHashReady(n, m)
  PROVE  MinedInv'
  <1>1. UNCHANGED <<miners, chain>>
    BY DEF OnHashReady
  <1>2. CASE net' = net \ {m}
    BY <1>1, <1>2, MinedDrop
  <1>3. CASE /\ AcceptsHash(n, RoundOf(m), m.block)
             /\ net' = (net \ {m}) \cup Broadcast("PREPARE", n, view[n], m.block)
    <2>1. Minted(m.block)
      BY <1>3 DEF AcceptsHash, OnHashReady, MinedInv, MessageMinted
    <2>2. \A k \in Broadcast("PREPARE", n, view[n], m.block) : MessageMinted(k)
      BY <2>1, VoteMinted
    <2>3. net' \subseteq net \cup Broadcast("PREPARE", n, view[n], m.block)
      BY <1>3
    <2> QED
      BY <1>1, <2>2, <2>3, MinedSend
  <1> QED
    BY <1>2, <1>3 DEF OnHashReady

LEMMA MinedOnPrepare ==
  ASSUME MinedInv, TypeOK', NEW n \in Nodes, NEW m \in net, m.to = n, OnPrepare(n, m)
  PROVE  MinedInv'
  <1> DEFINE votes == Broadcast("PREPARE", n, m.view, m.block)
                      \cup Broadcast("COMMIT", n, m.view, m.block)
  <1>1. UNCHANGED <<miners, chain>>
    BY DEF OnPrepare
  <1>2. Minted(m.block)
    BY DEF OnPrepare, MinedInv, MessageMinted
  <1>3. \A k \in votes : MessageMinted(k)
    BY <1>2, VoteMinted
  <1>4. net' \subseteq net \cup votes
    BY DEF OnPrepare
  <1> QED
    BY <1>1, <1>3, <1>4, MinedSend

LEMMA MinedOnCommit ==
  ASSUME MinedInv, TypeOK', NEW n \in Nodes, NEW m \in net, m.to = n, OnCommit(n, m)
  PROVE  MinedInv'
  <1>1. net' = net \ {m} /\ UNCHANGED miners
    BY DEF OnCommit
  <1>2. CASE UNCHANGED chain
    BY <1>1, <1>2, MinedDrop
  <1>3. CASE chain' = [chain EXCEPT ![n] = Append(@, m.block)]
    <2>1. Minted(m.block)
      BY DEF OnCommit, MinedInv, MessageMinted
    <2>2. chain \in [Nodes -> Seq(Blocks) \ {<<>>}] /\ m.block \in Blocks
      BY BlockMessageFields DEF OnCommit, MinedInv, TypeOK
    <2>3. \A k \in Nodes \ {n} : chain'[k] = chain[k]
      BY <1>3, <2>2
    <2>4. chain'[n] = Append(chain[n], m.block) /\ chain[n] \in Seq(Blocks) \ {<<>>}
      BY <1>3, <2>2
    <2>5. \A i \in 2 .. Len(chain'[n]) : Minted(chain'[n][i])
      <3>1. /\ Len(chain[n]) \in Nat
            /\ Len(chain'[n]) = Len(chain[n]) + 1
            /\ \A i \in 1 .. Len(chain[n]) : chain'[n][i] = chain[n][i]
            /\ chain'[n][Len(chain[n]) + 1] = m.block
        BY <2>2, <2>4, AppendBlock
      <3>2. \A i \in 2 .. Len(chain[n]) : Minted(chain[n][i])
        BY DEF MinedInv, CommittedBlocksMined, Minted
      <3> QED
        BY <2>1, <3>1, <3>2
    <2>6. CommittedBlocksMined'
      BY <2>3, <2>5 DEF MinedInv, CommittedBlocksMined, Minted
    <2> QED
      BY <1>1, <2>6 DEF MinedInv
  <1> QED
    BY <1>2, <1>3 DEF OnCommit

LEMMA MinedNext == MinedInv /\ [Next]_vars => MinedInv'
  <1> SUFFICES ASSUME MinedInv, [Next]_vars PROVE MinedInv'
    OBVIOUS
  <1>1. TypeOK'
    BY TypeNext DEF MinedInv
  <1>2. CASE UNCHANGED vars
    BY <1>1, <1>2, MinedDrop DEF vars
  <1>3. ASSUME NEW t \in Txs, CreateTransaction(t) PROVE MinedInv'
    <2> DEFINE S == {NewTransaction(t, p) : p \in Nodes}
    <2>1. \A m \in S : MessageMinted(m)
      BY DEF NewTransaction, MessageMinted
    <2>2. net' \subseteq net \cup S /\ UNCHANGED <<miners, chain>>
      BY <1>3 DEF CreateTransaction
    <2> QED
      BY <1>1, <2>1, <2>2, MinedSend
  <1>4. ASSUME NEW n \in Nodes, NEW m \in net, m.to = n, Handle(n, m) PROVE MinedInv'
    BY <1>1, <1>4, MinedOnNewTransaction, MinedOnPreprepare, MinedOnHashReady, MinedOnPrepare,
       MinedOnCommit DEF Handle
  <1>5. ASSUME NEW n \in Nodes, NEW th \in miners[n], Mine(n, th) PROVE MinedInv'
    BY <1>1, <1>5, MinedMine
  <1> QED
    BY <1>2, <1>3, <1>4, <1>5 DEF Next, System

\* For every network: whatever the mining threads do to the one cancel flag they share,
\* every block a node puts on its chain carries a nonce that another node than its
\* proposer found.
THEOREM OnlyMinedBlocks == Spec => []CommittedBlocksMined
  <1>1. MinedInv => CommittedBlocksMined
    BY DEF MinedInv
  <1> QED
    BY <1>1, MinedInit, MinedNext, PTL DEF Spec

=============================================================================
