----------------------------- MODULE UtxoProofs -----------------------------
(***************************************************************************)
(* A node's chain, mempool and UTXO set, in Consensus with any number of   *)
(* nodes and under any schedule: as long as addBlock has refused the node  *)
(* no block that its peers committed, the three agree, however often       *)
(* rounds are proposed again and whatever the other nodes hold.            *)
(***************************************************************************)
EXTENDS ConsensusProofs, FiniteSetTheorems

-----------------------------------------------------------------------------
(* What a block does to the outputs, as sets *)

\* U is what the transactions T leave unspent, replayed from the genesis block on, and
\* they spend only what is created there or by one of them.
Replays(T, U) ==
    /\ U = (Genesis \cup CreatedBy(T)) \ SpentBy(T)
    /\ SpentBy(T) \subseteq Genesis \cup CreatedBy(T)

\* No transaction of B spends what one of T spends.
Disjoint(T, B) == \A t \in T, u \in B : Spends[t] \cap Spends[u] = {}

\* A block whose inputs are unspent: none of its transactions is on the chain yet, none
\* spends what the chain spends, and updating the unspent outputs replays it.
LEMMA ReplayBlock ==
  ASSUME NEW T \in SUBSET Txs, NEW B \in SUBSET Txs, NEW U, Replays(T, U), SpentBy(B) \subseteq U
  PROVE  /\ T \cap B = {}
         /\ Disjoint(T, B)
         /\ Replays(T \cup B, (U \cup CreatedBy(B)) \ SpentBy(B))
  <1> USE DEF Replays
  <1>1. Disjoint(T, B)
    BY DEF Disjoint, SpentBy
  <1>2. T \cap B = {}
    BY <1>1, TxAssumption DEF Disjoint
  <1>3. CreatedBy(B) \cap SpentBy(T) = {}
    <2> SUFFICES ASSUME NEW u \in B, NEW o \in Creates[u], o \in SpentBy(T) PROVE FALSE
      BY DEF CreatedBy
    <2>1. o \notin Genesis
      BY OutpointAssumption
    <2>2. PICK t \in T : o \in Creates[t]
      BY <2>1 DEF CreatedBy
    <2>3. t # u
      BY <1>2
    <2> QED
      BY <2>2, <2>3, OutpointAssumption
  <1>4. CreatedBy(T \cup B) = CreatedBy(T) \cup CreatedBy(B)
        /\ SpentBy(T \cup B) = SpentBy(T) \cup SpentBy(B)
    BY DEF CreatedBy, SpentBy
  <1> QED
    BY <1>1, <1>2, <1>3, <1>4

\* The transactions of a chain are transactions.
LEMMA ChainTxsType ==
  ASSUME TypeOK, NEW n \in Nodes
  PROVE  ChainTxs(n) \in SUBSET Txs
  <1>1. chain[n] \in Seq(Blocks)
    BY DEF TypeOK
  <1>2. \A i \in 1 .. Len(chain[n]) : chain[n][i] \in Blocks
    BY <1>1
  <1>3. \A i \in 1 .. Len(chain[n]) : chain[n][i].txs \subseteq Txs
    BY <1>2 DEF Blocks
  <1> QED
    BY <1>3 DEF ChainTxs

\* Appending a block adds its transactions to those of the chain.
LEMMA ChainTxsAppend ==
  ASSUME TypeOK, NEW n \in Nodes, NEW b \in Blocks, chain'[n] = Append(chain[n], b)
  PROVE  ChainTxs(n)' = ChainTxs(n) \cup b.txs
  <1>1. chain[n] \in Seq(Blocks) \ {<<>>} /\ Len(chain[n]) \in Nat
    BY DEF TypeOK
  <1>2. /\ Len(chain'[n]) = Len(chain[n]) + 1
        /\ \A i \in 1 .. Len(chain[n]) : chain'[n][i] = chain[n][i]
        /\ chain'[n][Len(chain[n]) + 1] = b
    BY <1>1, AppendBlock
  <1>3. 1 .. Len(chain'[n]) = (1 .. Len(chain[n])) \cup {Len(chain[n]) + 1}
    BY <1>1, <1>2
  <1> QED
    BY <1>2, <1>3 DEF ChainTxs

-----------------------------------------------------------------------------
(* The transactions of a block do not conflict *)

Apart(txs) == \A t, u \in txs : t # u => Spends[t] \cap Spends[u] = {}
Orderly(b) == b.txs # {} /\ Apart(b.txs)

\* A mempool reserves each outpoint once, and so does a block made of it, wherever the
\* block gets to: isBlockValid would not notice two transactions with one input.
BlocksOrderly ==
    /\ \A n \in Nodes : Apart(mempool[n])
    /\ \A m \in net : m.type # "NEW_TRANSACTION" => Orderly(m.block)
    /\ \A n \in Nodes : \A th \in miners[n] : Orderly(th.block)
    /\ \A n \in Nodes : \A i \in 1 .. Len(chain[n]) : Apart(chain[n][i].txs)

LEMMA OrderlyInit == Init => BlocksOrderly
  <1> SUFFICES ASSUME Init PROVE BlocksOrderly
    OBVIOUS
  <1>1. \A n \in Nodes : Apart(mempool[n])
    BY EarlyAssumption DEF Init, Apart
  <1>2. \A n \in Nodes : \A i \in 1 .. Len(chain[n]) : Apart(chain[n][i].txs)
    BY DEF Init, GenesisBlock, Apart
  <1> QED
    BY <1>1, <1>2 DEF Init, BlocksOrderly, NewTransaction

\* An acceptable transaction conflicts with nothing in the mempool.
LEMMA PendingApart ==
  ASSUME NEW n \in Nodes, NEW t \in Txs, Acceptable(n, t), Apart(mempool[n])
  PROVE  Apart(mempool[n] \cup {t})
  BY DEF Acceptable, Reserved, Apart

\* A step that sends only orderly blocks and leaves the rest alone.
LEMMA OrderlySend ==
  ASSUME BlocksOrderly, UNCHANGED <<mempool, miners, chain>>,
         \A m \in net' \ net : m.type # "NEW_TRANSACTION" => Orderly(m.block)
  PROVE  BlocksOrderly'
  BY DEF BlocksOrderly, Apart, Orderly

LEMMA OrderlyOnNewTransaction ==
  ASSUME TypeOK, BlocksOrderly, NEW n \in Nodes, NEW m \in net, OnNewTransaction(n, m)
  PROVE  BlocksOrderly'
  <1> DEFINE pending == mempool[n] \cup {m.tx}
  <1>1. UNCHANGED <<miners, chain>> /\ mempool \in [Nodes -> SUBSET Txs]
    BY DEF OnNewTransaction, TypeOK
  <1>2. m.tx \in Txs
    BY PendingType DEF OnNewTransaction
  <1>3. Acceptable(n, m.tx) => Apart(pending)
    BY <1>2, PendingApart DEF BlocksOrderly
  <1>4. CASE net' = net \ {m} /\ UNCHANGED mempool
    BY <1>1, <1>4, OrderlySend
  <1>5. CASE Acceptable(n, m.tx) /\ mempool' = [mempool EXCEPT ![n] = pending] /\ net' = net \ {m}
    <2>1. \A k \in Nodes : Apart(mempool'[k])
      BY <1>1, <1>3, <1>5 DEF BlocksOrderly
    <2> QED
      BY <1>1, <1>5, <2>1 DEF BlocksOrderly, Apart, Orderly
  <1>6. ASSUME NEW b \in CommitBlock(n, pending), Acceptable(n, m.tx),
               mempool' = [mempool EXCEPT ![n] = {}],
               net' = (net \ {m}) \cup Broadcast("PREPREPARE", n, view[n], b)
        PROVE  BlocksOrderly'
    <2>1. b.txs = pending
      BY DEF CommitBlock
    <2>2. Orderly(b)
      BY <1>3, <1>6, <2>1 DEF Orderly
    <2>3. \A k \in Nodes : Apart(mempool'[k])
      BY <1>1, <1>6 DEF BlocksOrderly, Apart
    <2>4. \A k \in Broadcast("PREPREPARE", n, view[n], b) : Orderly(k.block)
      BY <2>2 DEF Broadcast, LeaderMessage
    <2>5. \A k \in net' : k.type # "NEW_TRANSACTION" => Orderly(k.block)
      BY <1>6, <2>4 DEF BlocksOrderly
    <2> QED
      BY <1>1, <2>3, <2>5 DEF BlocksOrderly, Apart, Orderly
  <1> QED
    BY <1>4, <1>5, <1>6 DEF OnNewTransaction

LEMMA OrderlyOnPreprepare ==
  ASSUME TypeOK, BlocksOrderly, NEW n \in Nodes, NEW m \in net, OnPreprepare(n, m)
  PROVE  BlocksOrderly'
  <1> DEFINE new == [view |-> m.view, block |-> m.block, to |-> NoNode, pc |-> "starting"]
  <1>1. Orderly(new.block)
    BY DEF OnPreprepare, BlocksOrderly
  <1>2. net' = net \ {m} /\ UNCHANGED <<mempool, chain>>
    BY DEF OnPreprepare
  <1>3. miners' = miners \/ miners' = [miners EXCEPT ![n] = @ \cup {new}]
    BY DEF OnPreprepare
  <1> HIDE DEF new
  <1>4. \A k \in Nodes : miners'[k] \subseteq miners[k] \cup {new}
    BY <1>3 DEF TypeOK
  <1>5. \A k \in Nodes : \A th \in miners'[k] : Orderly(th.block)
    BY <1>1, <1>4 DEF BlocksOrderly
  <1> QED
    BY <1>2, <1>5 DEF BlocksOrderly, Apart, Orderly

LEMMA OrderlyMine ==
  ASSUME TypeOK, BlocksOrderly, NEW n \in Nodes, NEW th \in miners[n], Mine(n, th)
  PROVE  BlocksOrderly'
  <1>1. /\ th \in Threads /\ th.block \in Blocks /\ Orderly(th.block)
        /\ miners \in [Nodes -> SUBSET Threads]
    BY DEF TypeOK, BlocksOrderly, Threads
  <1>2. UNCHANGED <<mempool, chain>>
    BY DEF Mine, StartMining, LeaveMiningLoop, AddressLeader, SendHashReady
  <1>3. \A k \in net' \ net : Orderly(k.block)
    BY <1>1 DEF Mine, StartMining, LeaveMiningLoop, AddressLeader, SendHashReady, LeaderMessage
  <1>4. \A k \in Nodes : \A t \in miners'[k] : t \in miners[k] \/ t.block.txs = th.block.txs
    <2>1. ASSUME NEW new, Step(n, th, new), new.block.txs = th.block.txs
          PROVE  \A k \in Nodes : \A t \in miners'[k] : t \in miners[k] \/ t.block.txs = th.block.txs
      BY <1>1, <2>1 DEF Step
    <2>2. ASSUME Exit(n, th)
          PROVE  \A k \in Nodes : \A t \in miners'[k] : t \in miners[k] \/ t.block.txs = th.block.txs
      BY <1>1, <2>2 DEF Exit
    <2>3. CASE StartMining(n, th)
      <3>1. [th EXCEPT !.pc = "mining", !.block.miner = n].block.txs = th.block.txs
        BY <1>1 DEF Threads, Blocks
      <3> QED
        BY <2>1, <2>3, <3>1 DEF StartMining
    <2>4. CASE LeaveMiningLoop(n, th)
      <3>1. /\ [th EXCEPT !.pc = "exited", !.block.mined = TRUE].block.txs = th.block.txs
            /\ [th EXCEPT !.pc = "exited"].block.txs = th.block.txs
        BY <1>1 DEF Threads, Blocks
      <3> QED
        BY <2>1, <2>4, <3>1 DEF LeaveMiningLoop
    <2>5. CASE AddressLeader(n, th)
      <3>1. [th EXCEPT !.pc = "sending", !.to = Leader(view[n])].block.txs = th.block.txs
        BY <1>1 DEF Threads, Blocks
      <3> QED
        BY <2>1, <2>2, <2>5, <3>1 DEF AddressLeader
    <2>6. CASE SendHashReady(n, th)
      BY <2>2, <2>6 DEF SendHashReady
    <2> QED
      BY <2>3, <2>4, <2>5, <2>6 DEF Mine
  <1>5. \A k \in Nodes : \A t \in miners'[k] : Orderly(t.block)
    BY <1>1, <1>4 DEF BlocksOrderly, Orderly
  <1>6. \A k \in net' : k.type # "NEW_TRANSACTION" => Orderly(k.block)
    BY <1>3 DEF BlocksOrderly
  <1> QED
    BY <1>2, <1>5, <1>6 DEF BlocksOrderly, Apart, Orderly

\* HASH_READY and PREPARE are answered with the block they carry.
LEMMA OrderlyVote ==
  ASSUME TypeOK, BlocksOrderly, NEW n \in Nodes, NEW m \in net,
         OnHashReady(n, m) \/ OnPrepare(n, m)
  PROVE  BlocksOrderly'
  <1>1. Orderly(m.block)
    BY DEF OnHashReady, OnPrepare, BlocksOrderly
  <1>2. \A k \in net' \ net : k.block = m.block
    BY DEF OnHashReady, OnPrepare, Broadcast, LeaderMessage
  <1>3. UNCHANGED <<mempool, miners, chain>>
    BY DEF OnHashReady, OnPrepare
  <1> QED
    BY <1>1, <1>2, <1>3, OrderlySend

LEMMA OrderlyOnCommit ==
  ASSUME TypeOK, BlocksOrderly, NEW n \in Nodes, NEW m \in net, OnCommit(n, m)
  PROVE  BlocksOrderly'
  <1>1. net' = net \ {m} /\ UNCHANGED miners
    BY DEF OnCommit
  <1>2. m.block \in Blocks /\ Apart(m.block.txs)
    BY BlockMessageFields DEF OnCommit, TypeOK, BlocksOrderly, Orderly
  <1>3. \A k \in Nodes : mempool'[k] \subseteq mempool[k]
    BY DEF OnCommit, UpdateMempoolOnNewBlock, TypeOK
  <1>4. \A k \in Nodes : Apart(mempool'[k])
    BY <1>3 DEF BlocksOrderly, Apart
  <1>5. \A k \in Nodes : \A i \in 1 .. Len(chain'[k]) : Apart(chain'[k][i].txs)
    <2>1. CASE UNCHANGED chain
      BY <2>1 DEF BlocksOrderly
    <2>2. CASE chain' = [chain EXCEPT ![n] = Append(@, m.block)]
      <3>1. chain \in [Nodes -> Seq(Blocks) \ {<<>>}]
        BY DEF TypeOK
      <3>2. chain'[n] = Append(chain[n], m.block) /\ \A k \in Nodes \ {n} : chain'[k] = chain[k]
        BY <2>2, <3>1
      <3>3. /\ Len(chain[n]) \in Nat
            /\ Len(chain'[n]) = Len(chain[n]) + 1
            /\ \A i \in 1 .. Len(chain[n]) : chain'[n][i] = chain[n][i]
            /\ chain'[n][Len(chain[n]) + 1] = m.block
        BY <1>2, <3>1, <3>2, AppendBlock
      <3>4. \A i \in 1 .. Len(chain'[n]) : Apart(chain'[n][i].txs)
        BY <1>2, <3>3, SMTT(30) DEF BlocksOrderly
      <3> QED
        BY <3>2, <3>4 DEF BlocksOrderly
    <2> QED
      BY <2>1, <2>2 DEF OnCommit
  <1> QED
    BY <1>1, <1>4, <1>5 DEF BlocksOrderly, Apart, Orderly

LEMMA OrderlyNext == TypeOK /\ BlocksOrderly /\ [Next]_vars => BlocksOrderly'
  <1> SUFFICES ASSUME TypeOK, BlocksOrderly, [Next]_vars PROVE BlocksOrderly'
    OBVIOUS
  <1>1. CASE UNCHANGED vars
    BY <1>1, OrderlySend DEF vars
  <1>2. ASSUME NEW t \in Txs, CreateTransaction(t) PROVE BlocksOrderly'
    <2>1. \A m \in net' \ net : m.type = "NEW_TRANSACTION"
      BY <1>2 DEF CreateTransaction, NewTransaction
    <2> QED
      BY <1>2, <2>1, OrderlySend DEF CreateTransaction
  <1>3. ASSUME NEW n \in Nodes, NEW m \in net, Handle(n, m) PROVE BlocksOrderly'
    BY <1>3, OrderlyOnNewTransaction, OrderlyOnPreprepare, OrderlyVote, OrderlyOnCommit
    DEF Handle
  <1>4. ASSUME NEW n \in Nodes, NEW th \in miners[n], Mine(n, th) PROVE BlocksOrderly'
    BY <1>4, OrderlyMine
  <1> QED
    BY <1>1, <1>2, <1>3, <1>4 DEF Next, System

-----------------------------------------------------------------------------
(* Committed rounds and refused blocks *)

\* addBlock has taken every block that onCommit has offered the chain of n so far.
NoneRefused(n) == Cardinality(CommittedRounds(n)) = Len(chain[n]) - 1

\* A round is committed at most once, and adds at most one block.
RoundsCounted ==
    \A n \in Nodes :
        /\ IsFiniteSet(CommittedRounds(n))
        /\ Cardinality(CommittedRounds(n)) >= Len(chain[n]) - 1

\* Only onCommit commits a round.
LEMMA CommittedKept ==
  ASSUME RoundInv, NEW n \in Nodes,
         \/ UNCHANGED phase
         \/ \E k \in Nodes : \E r \in DOMAIN phase[k] : \E s \in PhaseStates :
               s.committed = phase[k][r].committed /\ phase' = [phase EXCEPT ![k][r] = s]
         \/ \E k \in Nodes : \E r \in Rounds : \E b \in Blocks :
               r = <<view[k], Len(chain[k])>> /\ phase' = AddNewPhaseState(k, r, b)
  PROVE  CommittedRounds(n)' = CommittedRounds(n)
  <1>1. /\ DOMAIN phase = Nodes
        /\ view \in [Nodes -> Nat]
        /\ \A k \in Nodes : phase[k] \in [DOMAIN phase[k] -> PhaseStates]
    BY DEF RoundInv, TypeOK
  <1>2. CASE UNCHANGED phase
    BY <1>2 DEF CommittedRounds
  <1>3. ASSUME NEW k \in Nodes, NEW r \in DOMAIN phase[k], NEW s \in PhaseStates,
               s.committed = phase[k][r].committed, phase' = [phase EXCEPT ![k][r] = s]
        PROVE  CommittedRounds(n)' = CommittedRounds(n)
    <2>1. DOMAIN phase'[n] = DOMAIN phase[n]
      BY <1>1, <1>3
    <2>2. \A q \in DOMAIN phase[n] : phase'[n][q].committed = phase[n][q].committed
      BY <1>1, <1>3
    <2> QED
      BY <2>1, <2>2 DEF CommittedRounds
  <1>4. ASSUME NEW k \in Nodes, NEW r \in Rounds, NEW b \in Blocks,
               r = <<view[k], Len(chain[k])>>, phase' = AddNewPhaseState(k, r, b)
        PROVE  CommittedRounds(n)' = CommittedRounds(n)
    <2>1. CASE n # k
      <3>1. phase'[n] = phase[n]
        BY <1>1, <1>4, <2>1 DEF AddNewPhaseState
      <3> QED
        BY <3>1 DEF CommittedRounds
    <2>2. CASE n = k
      <3>1. r \notin CommittedRounds(n)
        BY <1>1, <1>4, <2>2 DEF RoundInv, OpenRoundIsCurrent, CommittedRounds
      <3>2. /\ DOMAIN phase'[n] = DOMAIN phase[n] \cup {r}
            /\ \A q \in DOMAIN phase[n] \ {r} : phase'[n][q] = phase[n][q]
            /\ phase'[n][r].committed = FALSE
        BY <1>1, <1>4, <2>2 DEF AddNewPhaseState, NewPhaseState
      <3> QED
        BY <3>1, <3>2 DEF CommittedRounds
    <2> QED
      BY <2>1, <2>2
  <1> QED
    BY <1>2, <1>3, <1>4

\* No handler but onCommit, and no mining thread, commits a round.
LEMMA OthersCommitNothing ==
  ASSUME RoundInv, NEW n \in Nodes, NEW k \in Nodes, NEW m \in net, m.to = k,
         OnNewTransaction(k, m) \/ OnPreprepare(k, m) \/ OnHashReady(k, m) \/ OnPrepare(k, m)
  PROVE  CommittedRounds(n)' = CommittedRounds(n)
  <1> DEFINE r == RoundOf(m)
             p == phase[k][r]
  <1>1. TypeOK /\ k \in Nodes
    BY DEF RoundInv
  <1>2. CASE UNCHANGED phase
    BY <1>2, CommittedKept
  <1>3. CASE OnNewTransaction(k, m)
    <2> DEFINE pending == mempool[k] \cup {m.tx}
    <2>1. ASSUME NEW b \in CommitBlock(k, pending),
                 phase' = AddNewPhaseState(k, <<view[k], b.index>>, b)
          PROVE  CommittedRounds(n)' = CommittedRounds(n)
      <3>1. pending \in SUBSET Txs
        BY <1>1, <1>3, PendingType DEF OnNewTransaction
      <3> HIDE DEF pending
      <3>2. chain[k] \in Seq(Blocks) \ {<<>>} /\ view[k] \in Nat
        BY <1>1 DEF TypeOK
      <3>3. b \in Blocks /\ b.index = Len(chain[k])
        BY <3>1, <3>2, CommitBlockType
      <3>4. <<view[k], Len(chain[k])>> \in Rounds
        BY <3>2 DEF Rounds
      <3> QED
        BY <2>1, <3>3, <3>4, CommittedKept
    <2> QED
      BY <1>2, <1>3, <2>1 DEF OnNewTransaction
  <1>4. CASE OnPreprepare(k, m)
    <2>1. m.block \in Blocks /\ r \in Rounds
      BY <1>1, <1>4, BlockMessageFields DEF OnPreprepare, TypeOK
    <2>2. CASE AcceptsProposal(k, m) /\ phase' = AddNewPhaseState(k, r, m.block)
      <3>1. r = <<view[k], Len(chain[k])>>
        BY <1>1, <2>1, <2>2, ValidIndex DEF AcceptsProposal, RoundOf, RoundInv
      <3> HIDE DEF r
      <3> QED
        BY <2>1, <2>2, <3>1, CommittedKept
    <2> QED
      BY <1>2, <1>4, <2>2 DEF OnPreprepare
  <1>5. CASE OnHashReady(k, m)
    <2> DEFINE settled == CheckIfBlockMined(p.block, m.block)
               s == [p EXCEPT !.sentPrepare = TRUE, !.hashReady = settled,
                              !.block = IF settled THEN m.block ELSE @]
    <2>1. CASE AcceptsHash(k, r, m.block) /\ phase' = [phase EXCEPT ![k][r] = s]
      <3>1. r \in DOMAIN phase[k] /\ p \in PhaseStates
        BY <1>1, <2>1 DEF AcceptsHash, IsTracking, TypeOK
      <3>2. m.block \in Blocks
        BY <1>1, <1>5, BlockMessageFields DEF OnHashReady, TypeOK
      <3>3. settled \in BOOLEAN
        BY DEF CheckIfBlockMined
      <3>4. s \in PhaseStates /\ s.committed = p.committed
        BY <3>1, <3>2, <3>3 DEF PhaseStates
      <3> HIDE DEF s, r
      <3> QED
        BY <2>1, <3>1, <3>4, CommittedKept
    <2> QED
      BY <1>2, <1>5, <2>1 DEF OnHashReady
  <1>6. CASE OnPrepare(k, m)
    <2> DEFINE authors == p.prepares \cup {m.from}
               quorate == Cardinality(authors) >= Quorum
               late == [p EXCEPT !.sentPrepare = TRUE]
               counted == [p EXCEPT !.sentPrepare = TRUE, !.prepares = authors,
                                    !.prepared = quorate, !.sentCommit = @ \/ quorate]
    <2>1. ASSUME IsTracking(k, r)
          PROVE  /\ r \in DOMAIN phase[k]
                 /\ late \in PhaseStates /\ late.committed = p.committed
                 /\ counted \in PhaseStates /\ counted.committed = p.committed
      <3>1. r \in DOMAIN phase[k] /\ p \in PhaseStates
        BY <1>1, <2>1 DEF IsTracking, TypeOK
      <3>2. m.from \in Nodes
        BY <1>1, <1>6, BlockMessageFields DEF OnPrepare, TypeOK
      <3>3. authors \in SUBSET Nodes /\ quorate \in BOOLEAN /\ (p.sentCommit \/ quorate) \in BOOLEAN
        BY <3>1, <3>2 DEF PhaseStates
      <3> HIDE DEF quorate
      <3> QED
        BY <3>1, <3>3 DEF PhaseStates
    <2>2. CASE IsTracking(k, r) /\ phase' = [phase EXCEPT ![k][r] = late]
      <3> HIDE DEF late, r
      <3> QED
        BY <2>1, <2>2, CommittedKept
    <2>3. CASE IsTracking(k, r) /\ phase' = [phase EXCEPT ![k][r] = counted]
      <3> HIDE DEF counted, r
      <3> QED
        BY <2>1, <2>3, CommittedKept
    <2> QED
      BY <1>2, <1>6, <2>2, <2>3 DEF OnPrepare
  <1> QED
    BY <1>3, <1>4, <1>5, <1>6

\* Committing a round counts once, at one node.
LEMMA CommitCounted ==
  ASSUME RoundInv, RoundsCounted, NEW n \in Nodes, NEW r \in DOMAIN phase[n],
         NEW s \in PhaseStates, ~phase[n][r].committed, s.committed,
         phase' = [phase EXCEPT ![n][r] = s]
  PROVE  /\ IsFiniteSet(CommittedRounds(n)')
         /\ Cardinality(CommittedRounds(n)') = Cardinality(CommittedRounds(n)) + 1
         /\ \A k \in Nodes \ {n} : CommittedRounds(k)' = CommittedRounds(k)
  <1>1. DOMAIN phase = Nodes /\ phase[n] \in [DOMAIN phase[n] -> PhaseStates]
    BY DEF RoundInv, TypeOK
  <1>2. /\ DOMAIN phase'[n] = DOMAIN phase[n] /\ phase'[n][r] = s
        /\ \A q \in DOMAIN phase[n] \ {r} : phase'[n][q] = phase[n][q]
        /\ \A k \in Nodes \ {n} : phase'[k] = phase[k]
    BY <1>1
  <1>3. CommittedRounds(n)' = CommittedRounds(n) \cup {r} /\ r \notin CommittedRounds(n)
    BY <1>2 DEF CommittedRounds
  <1>4. IsFiniteSet(CommittedRounds(n)) /\ Cardinality(CommittedRounds(n)) \in Nat
    BY FS_CardinalityType DEF RoundsCounted
  <1>5. \A k \in Nodes \ {n} : CommittedRounds(k)' = CommittedRounds(k)
    BY <1>2 DEF CommittedRounds
  <1> QED
    BY <1>3, <1>4, <1>5, FS_AddElement

-----------------------------------------------------------------------------
(* The ledger of one node *)

\* What a node may rely on as long as it has refused no block: its UTXO set is that of
\* its chain, which spends only what was there, each outpoint in one block, and nothing
\* that is still pending.
LedgerSound(n) ==
    /\ Replays(ChainTxs(n), utxo[n])
    /\ mempool[n] \cap ChainTxs(n) = {}
    /\ \A i, j \in 1 .. Len(chain[n]) : i # j => Disjoint(chain[n][i].txs, chain[n][j].txs)

LedgersSound == \A n \in Nodes : NoneRefused(n) => LedgerSound(n)

LedgerInv == RoundInv /\ BlocksOrderly /\ RoundsCounted /\ LedgersSound

LEMMA LedgerInit == Init => LedgerInv
  <1> SUFFICES ASSUME Init PROVE RoundsCounted /\ LedgersSound
    BY RoundInit, OrderlyInit DEF LedgerInv
  <1>1. \A n \in Nodes : CommittedRounds(n) = {} /\ Len(chain[n]) = 1
    BY DEF Init, CommittedRounds
  <1>2. RoundsCounted
    <2>1. IsFiniteSet({}) /\ Cardinality({}) = 0
      BY FS_EmptySet
    <2>2. \A n \in Nodes : IsFiniteSet(CommittedRounds(n)) /\ Cardinality(CommittedRounds(n)) = 0
      BY <1>1, <2>1, Zenon
    <2>3. ASSUME NEW n \in Nodes PROVE Cardinality(CommittedRounds(n)) >= Len(chain[n]) - 1
      <3>1. Cardinality(CommittedRounds(n)) = 0 /\ Len(chain[n]) = 1
        BY <1>1, <2>2
      <3> QED
        BY <3>1
    <2> QED
      BY <2>2, <2>3 DEF RoundsCounted
  <1>3. ASSUME NEW n \in Nodes PROVE LedgerSound(n)
    <2>1. chain[n] = <<GenesisBlock>>
      BY DEF Init
    <2>2. \A i \in 1 .. Len(chain[n]) : i = 1 /\ chain[n][i].txs = {}
      BY <2>1 DEF GenesisBlock
    <2>3. ChainTxs(n) = {}
      BY <2>2 DEF ChainTxs
    <2>4. SpentBy({}) = {} /\ CreatedBy({}) = {}
      BY DEF SpentBy, CreatedBy
    <2>5. utxo[n] = Genesis
      BY DEF Init
    <2> QED
      BY <2>2, <2>3, <2>4, <2>5 DEF LedgerSound, Replays, Disjoint
  <1> QED
    BY <1>2, <1>3 DEF LedgersSound

\* A step that commits nothing and adds nothing to a mempool that is on the chain.
LEMMA LedgerKept ==
  ASSUME LedgerInv, UNCHANGED <<utxo, chain>>,
         \A n \in Nodes : CommittedRounds(n)' = CommittedRounds(n),
         \A n \in Nodes : LedgerSound(n) => mempool'[n] \cap ChainTxs(n) = {}
  PROVE  RoundsCounted' /\ LedgersSound'
  <1>1. \A n \in Nodes : ChainTxs(n)' = ChainTxs(n) /\ NoneRefused(n)' = NoneRefused(n)
    BY DEF ChainTxs, NoneRefused
  <1>2. RoundsCounted'
    BY DEF LedgerInv, RoundsCounted
  <1>3. ASSUME NEW n \in Nodes, NoneRefused(n)' PROVE LedgerSound(n)'
    <2>1. LedgerSound(n)
      BY <1>1, <1>3 DEF LedgerInv, LedgersSound
    <2> QED
      BY <1>1, <2>1 DEF LedgerSound
  <1> QED
    BY <1>2, <1>3 DEF LedgersSound

LEMMA LedgerOnNewTransaction ==
  ASSUME LedgerInv, NEW n \in Nodes, NEW m \in net, m.to = n, OnNewTransaction(n, m)
  PROVE  RoundsCounted' /\ LedgersSound'
  <1>1. TypeOK /\ RoundInv /\ mempool \in [Nodes -> SUBSET Txs]
    BY DEF LedgerInv, RoundInv, TypeOK
  <1>2. UNCHANGED <<utxo, chain>> /\ \A k \in Nodes : CommittedRounds(k)' = CommittedRounds(k)
    BY <1>1, OthersCommitNothing DEF OnNewTransaction
  <1>3. m.tx \in Txs
    BY <1>1, PendingType DEF OnNewTransaction
  <1>4. ASSUME NEW k \in Nodes, LedgerSound(k) PROVE mempool'[k] \cap ChainTxs(k) = {}
    <2>1. CASE mempool'[k] \subseteq mempool[k]
      BY <1>4, <2>1 DEF LedgerSound
    <2>2. CASE Acceptable(k, m.tx) /\ mempool'[k] = mempool[k] \cup {m.tx}
      <3>1. Spends[m.tx] \subseteq utxo[k] /\ Spends[m.tx] # {}
        BY <1>3, <2>2, TxAssumption DEF Acceptable
      <3>2. m.tx \notin ChainTxs(k)
        BY <1>4, <3>1 DEF LedgerSound, Replays, SpentBy
      <3> QED
        BY <1>4, <2>2, <3>2 DEF LedgerSound
    <2>3. \/ mempool'[k] \subseteq mempool[k]
          \/ Acceptable(k, m.tx) /\ mempool'[k] = mempool[k] \cup {m.tx}
      <3>1. CASE k # n
        BY <1>1, <3>1 DEF OnNewTransaction
      <3>2. CASE k = n
        BY <1>1, <3>2 DEF OnNewTransaction
      <3> QED
        BY <3>1, <3>2
    <2> QED
      BY <2>1, <2>2, <2>3
  <1> QED
    BY <1>2, <1>4, LedgerKept

\* onCommit: the round is committed for the first time.  A block the chain takes has
\* its inputs in the UTXO set; one it refuses is remembered as refused.
LEMMA LedgerOnCommit ==
  ASSUME LedgerInv, NEW n \in Nodes, NEW m \in net, m.to = n, OnCommit(n, m)
  PROVE  RoundsCounted' /\ LedgersSound'
  <1> DEFINE r == RoundOf(m)
             p == phase[n][r]
             authors == p.commits \cup {m.from}
             b == m.block
             heard == [p EXCEPT !.commits = authors]
             decided == [p EXCEPT !.commits = authors, !.committed = TRUE]
  <1>1. TypeOK /\ RoundInv /\ mempool \in [Nodes -> SUBSET Txs] /\ utxo \in [Nodes -> SUBSET Outpoints]
        /\ chain \in [Nodes -> Seq(Blocks) \ {<<>>}]
        /\ DOMAIN phase = Nodes /\ \A k \in Nodes : phase[k] \in [DOMAIN phase[k] -> PhaseStates]
    BY DEF LedgerInv, RoundInv, TypeOK
  <1>2. b \in Blocks /\ m.from \in Nodes /\ b.txs \subseteq Txs
    BY <1>1, BlockMessageFields DEF OnCommit, TypeOK, Blocks
  <1>3. CASE UNCHANGED <<view, chain, utxo, mempool, phase>>
    BY <1>1, <1>3, CommittedKept, LedgerKept DEF LedgerSound
  <1>4. CASE /\ IsTracking(n, r) /\ phase' = [phase EXCEPT ![n][r] = heard]
             /\ UNCHANGED <<view, chain, utxo, mempool>>
    <2>1. r \in DOMAIN phase[n] /\ p \in PhaseStates
      BY <1>1, <1>4 DEF IsTracking
    <2>2. heard \in PhaseStates /\ heard.committed = p.committed
      BY <1>2, <2>1 DEF PhaseStates
    <2> HIDE DEF heard, r
    <2>3. \A k \in Nodes : CommittedRounds(k)' = CommittedRounds(k)
      BY <1>1, <1>4, <2>1, <2>2, CommittedKept
    <2> QED
      BY <1>4, <2>3, LedgerKept DEF LedgerSound
  <1>5. CASE /\ IsTracking(n, r) /\ ~p.committed
             /\ phase' = [phase EXCEPT ![n][r] = decided]
             /\ chain' = IF IsBlockValid(n, b) THEN [chain EXCEPT ![n] = Append(@, b)] ELSE chain
             /\ mempool' = IF IsBlockValid(n, b)
                           THEN [mempool EXCEPT ![n] = UpdateMempoolOnNewBlock(@, b)]
                           ELSE mempool
             /\ utxo' = [utxo EXCEPT ![n] = AddBlockToUtxo(@, b)]
    <2>1. r \in DOMAIN phase[n] /\ p \in PhaseStates
      BY <1>1, <1>5 DEF IsTracking
    <2>2. decided \in PhaseStates /\ decided.committed
      <3>1. authors \in SUBSET Nodes
        BY <1>2, <2>1 DEF PhaseStates
      <3> QED
        BY <2>1, <3>1 DEF PhaseStates
    <2> HIDE DEF decided, r
    <2>3. RoundsCounted
      BY DEF LedgerInv
    <2>4. \A k \in Nodes \ {n} :
             /\ ChainTxs(k)' = ChainTxs(k)
             /\ chain'[k] = chain[k] /\ utxo'[k] = utxo[k] /\ mempool'[k] = mempool[k]
      BY <1>1, <1>5 DEF ChainTxs
    <2>5. /\ Cardinality(CommittedRounds(n)) \in Nat
          /\ Cardinality(CommittedRounds(n)) >= Len(chain[n]) - 1
          /\ Len(chain[n]) \in Nat
      BY <1>1, <2>3, FS_CardinalityType DEF RoundsCounted
    <2>6. /\ IsFiniteSet(CommittedRounds(n)')
          /\ Cardinality(CommittedRounds(n)') = Cardinality(CommittedRounds(n)) + 1
          /\ \A k \in Nodes \ {n} : CommittedRounds(k)' = CommittedRounds(k)
      BY <1>1, <1>5, <2>1, <2>2, <2>3, CommitCounted
    <2>7. /\ IsBlockValid(n, b) => Len(chain'[n]) = Len(chain[n]) + 1
          /\ ~IsBlockValid(n, b) => Len(chain'[n]) = Len(chain[n])
      BY <1>1, <1>2, <1>5, AppendBlock
    <2>8. RoundsCounted'
      <3>1. Cardinality(CommittedRounds(n)') >= Len(chain'[n]) - 1
        BY <2>5, <2>6, <2>7
      <3>2. ASSUME NEW k \in Nodes \ {n}
            PROVE  /\ IsFiniteSet(CommittedRounds(k)')
                   /\ Cardinality(CommittedRounds(k)') >= Len(chain'[k]) - 1
        BY <2>3, <2>4, <2>6 DEF RoundsCounted
      <3> QED
        BY <2>6, <3>1, <3>2 DEF RoundsCounted
    <2>9. ASSUME NEW k \in Nodes \ {n}, NoneRefused(k)' PROVE LedgerSound(k)'
      <3>1. LedgerSound(k)
        BY <2>4, <2>6, <2>9 DEF LedgerInv, LedgersSound, NoneRefused
      <3> QED
        BY <2>4, <3>1 DEF LedgerSound
    <2>10. ASSUME NoneRefused(n)' PROVE LedgerSound(n)'
      <3>1. IsBlockValid(n, b) /\ NoneRefused(n)
        <4>1. Cardinality(CommittedRounds(n)') = Len(chain'[n]) - 1
          BY <2>10 DEF NoneRefused
        <4>2. CASE ~IsBlockValid(n, b)
          BY <2>5, <2>6, <2>7, <4>1, <4>2
        <4>3. CASE IsBlockValid(n, b)
          BY <2>5, <2>6, <2>7, <4>1, <4>3 DEF NoneRefused
        <4> QED
          BY <4>2, <4>3
      <3>2. LedgerSound(n)
        BY <3>1 DEF LedgerInv, LedgersSound
      <3>3. /\ chain'[n] = Append(chain[n], b)
            /\ mempool'[n] = mempool[n] \ b.txs
            /\ utxo'[n] = (utxo[n] \cup CreatedBy(b.txs)) \ SpentBy(b.txs)
        BY <1>1, <1>5, <3>1 DEF UpdateMempoolOnNewBlock, AddBlockToUtxo
      <3>4. ChainTxs(n)' = ChainTxs(n) \cup b.txs /\ ChainTxs(n) \in SUBSET Txs
        BY <1>1, <1>2, <3>3, ChainTxsAppend, ChainTxsType
      <3>5. SpentBy(b.txs) \subseteq utxo[n]
        BY <3>1 DEF IsBlockValid, VerifyBlockTransactions, SpentBy
      <3>6. /\ Disjoint(ChainTxs(n), b.txs)
            /\ Replays(ChainTxs(n)', utxo'[n])
        <4>1. Replays(ChainTxs(n), utxo[n]) /\ b.txs \in SUBSET Txs
          BY <1>2, <3>2 DEF LedgerSound
        <4>2. /\ Disjoint(ChainTxs(n), b.txs)
              /\ Replays(ChainTxs(n) \cup b.txs, (utxo[n] \cup CreatedBy(b.txs)) \ SpentBy(b.txs))
          BY <3>4, <3>5, <4>1, ReplayBlock
        <4> QED
          BY <3>3, <3>4, <4>2
      <3>7. mempool'[n] \cap ChainTxs(n)' = {}
        BY <3>2, <3>3, <3>4 DEF LedgerSound
      <3>8. ASSUME NEW i \in 1 .. Len(chain'[n]), NEW j \in 1 .. Len(chain'[n]), i # j
            PROVE  Disjoint(chain'[n][i].txs, chain'[n][j].txs)
        <4>1. /\ Len(chain'[n]) = Len(chain[n]) + 1
              /\ \A h \in 1 .. Len(chain[n]) : chain'[n][h] = chain[n][h]
              /\ chain'[n][Len(chain[n]) + 1] = b
          BY <1>1, <1>2, <3>3, AppendBlock
        <4>2. \A h \in 1 .. Len(chain[n]) : chain[n][h].txs \subseteq ChainTxs(n)
          BY DEF ChainTxs
        <4>3. CASE i \in 1 .. Len(chain[n]) /\ j \in 1 .. Len(chain[n])
          BY <3>2, <3>8, <4>1, <4>3 DEF LedgerSound
        <4>4. CASE i = Len(chain[n]) + 1
          <5>1. j \in 1 .. Len(chain[n])
            BY <2>5, <3>8, <4>1, <4>4
          <5> QED
            BY <3>6, <3>8, <4>1, <4>2, <4>4, <5>1 DEF Disjoint
        <4>5. CASE j = Len(chain[n]) + 1
          <5>1. i \in 1 .. Len(chain[n])
            BY <2>5, <3>8, <4>1, <4>5
          <5> QED
            BY <3>6, <3>8, <4>1, <4>2, <4>5, <5>1 DEF Disjoint
        <4> QED
          BY <2>5, <4>1, <4>3, <4>4, <4>5
      <3> QED
        BY <3>6, <3>7, <3>8 DEF LedgerSound
    <2> QED
      BY <2>8, <2>9, <2>10 DEF LedgersSound
  <1> QED
    BY <1>3, <1>4, <1>5 DEF OnCommit

LEMMA LedgerNext == LedgerInv /\ [Next]_vars => LedgerInv'
  <1> SUFFICES ASSUME LedgerInv, [Next]_vars PROVE RoundsCounted' /\ LedgersSound'
    BY TypeNext, RoundNext, OrderlyNext DEF LedgerInv, RoundInv
  <1>1. RoundInv
    BY DEF LedgerInv
  <1>2. ASSUME UNCHANGED <<utxo, chain, mempool, phase>> PROVE RoundsCounted' /\ LedgersSound'
    BY <1>1, <1>2, CommittedKept, LedgerKept DEF LedgerSound
  <1>3. ASSUME NEW t \in Txs, CreateTransaction(t) PROVE RoundsCounted' /\ LedgersSound'
    BY <1>2, <1>3 DEF CreateTransaction
  <1>4. ASSUME NEW n \in Nodes, NEW m \in net, m.to = n, Handle(n, m)
        PROVE  RoundsCounted' /\ LedgersSound'
    <2>1. CASE OnPreprepare(n, m) \/ OnHashReady(n, m) \/ OnPrepare(n, m)
      <3>1. \A k \in Nodes : CommittedRounds(k)' = CommittedRounds(k)
        BY <1>1, <1>4, <2>1, OthersCommitNothing
      <3>2. UNCHANGED <<utxo, chain, mempool>>
        BY <2>1 DEF OnPreprepare, OnHashReady, OnPrepare
      <3> QED
        BY <3>1, <3>2, LedgerKept DEF LedgerSound
    <2> QED
      BY <1>4, <2>1, LedgerOnNewTransaction, LedgerOnCommit DEF Handle
  <1>5. ASSUME NEW n \in Nodes, NEW th \in miners[n], Mine(n, th)
        PROVE  RoundsCounted' /\ LedgersSound'
    BY <1>2, <1>5 DEF Mine, StartMining, LeaveMiningLoop, AddressLeader, SendHashReady
  <1> QED
    BY <1>2, <1>3, <1>4, <1>5 DEF Next, System, vars

LEMMA LedgerInvariant == Spec => []LedgerInv
  <1> QED
    BY LedgerInit, LedgerNext, PTL DEF Spec

\* What LedgerInv says of the properties of Consensus.
LEMMA LedgerProperties ==
  LedgerInv /\ CommitsMatchChain => UtxoMatchesChain /\ NoDoubleSpend /\ PendingNotCommitted
  <1> SUFFICES ASSUME LedgerInv, CommitsMatchChain
               PROVE  UtxoMatchesChain /\ NoDoubleSpend /\ PendingNotCommitted
    OBVIOUS
  <1>1. \A n \in Nodes : LedgerSound(n)
    BY DEF LedgerInv, LedgersSound, NoneRefused, CommitsMatchChain
  <1>2. \A n \in Nodes : \A i \in 1 .. Len(chain[n]) : Apart(chain[n][i].txs)
    BY DEF LedgerInv, BlocksOrderly
  <1>3. NoDoubleSpend
    BY <1>1, <1>2 DEF NoDoubleSpend, LedgerSound, Apart, Disjoint
  <1> QED
    BY <1>1, <1>3 DEF UtxoMatchesChain, PendingNotCommitted, LedgerSound, Replays

\* For every network, however it forks: as long as no node has refused a block that its
\* peers committed, every UTXO set is the replay of its node's chain.
THEOREM UtxoIsReplay == Spec => [](CommitsMatchChain => UtxoMatchesChain)
  <1>1. LedgerInv => (CommitsMatchChain => UtxoMatchesChain)
    BY LedgerProperties
  <1> QED
    BY <1>1, LedgerInvariant, PTL

\* Likewise: no outpoint is spent twice on a chain, though a proposal frees what the
\* mempool reserved, so that conflicting transactions may be proposed.
THEOREM SpentOnce == Spec => [](CommitsMatchChain => NoDoubleSpend)
  <1>1. LedgerInv => (CommitsMatchChain => NoDoubleSpend)
    BY LedgerProperties
  <1> QED
    BY <1>1, LedgerInvariant, PTL

\* Likewise: nothing is both pending and committed, in whatever order the transaction
\* and the block that has it arrive.
THEOREM PendingIsNew == Spec => [](CommitsMatchChain => PendingNotCommitted)
  <1>1. LedgerInv => (CommitsMatchChain => PendingNotCommitted)
    BY LedgerProperties
  <1> QED
    BY <1>1, LedgerInvariant, PTL

=============================================================================
