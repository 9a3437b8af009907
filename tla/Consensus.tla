----------------------------- MODULE Consensus -----------------------------
(***************************************************************************)
(* The agreement protocol of an OnyxCoin network: transactions gathered in *)
(* mempools, the leader's proposal, the miners' race for a nonce, and the  *)
(* PREPARE / COMMIT rounds that append the mined block to every chain.     *)
(*                                                                         *)
(* Modelled from Networking/Messages/FullNodeMessageHandler.cpp (one       *)
(* action per handler), Networking/P2PNode.cpp (the phase map, the view,   *)
(* the leader), Networking/Messages/PhaseState.cpp, Structure/Blockchain   *)
(* .cpp and Structure/Wallets/{Mempool,UTXOSet}.cpp.                       *)
(*                                                                         *)
(* What is abstracted, and why nothing is lost by it:                      *)
(*  - A handler is one step: receiveLoop runs it under m_handlerMutex.     *)
(*    The mining thread, which is detached and takes no handler lock, is   *)
(*    cut at each of its accesses to m_cancelMining and to the view.       *)
(*  - net is a set of messages in flight, delivered in any order.  Every   *)
(*    receive thread sends its answers after releasing m_handlerMutex, so  *)
(*    two answers of one node may be reordered; messages of one thread on  *)
(*    one connection are not, and net allows that as well.  Lost messages  *)
(*    need no action of their own: a message may stay in net for ever.     *)
(*  - Membership is fixed: every node knows the N - 1 others.              *)
(*  - A signature is the "from" field.  Nobody forges or alters a message. *)
(*  - A block's hash is the sequence of the timestamps on its chain: the   *)
(*    constructor of Block hashes index, previous hash and timestamp       *)
(*    before any transaction is added and no later step refreshes it.      *)
(*  - Reward transactions are the block's proposer and miner fields.       *)
(***************************************************************************)
EXTENDS Integers, Sequences, FiniteSets

CONSTANTS
    N,          \* number of nodes; their ids are 0 .. N-1.  Example: 3
    Txs,        \* the transactions users may create.  Example: {t1, t2}
    Owner,      \* the node whose wallet creates each transaction
    Spends,     \* the outpoints each transaction has as inputs
    Creates,    \* the outpoints each transaction has as outputs
    Genesis,    \* the outpoints the genesis block creates
    MinTxs,     \* MIN_TRANSACTIONS_FOR_BLOCK (2 in the code)
    InitViews,  \* the values m_currentView, never initialised, may start with
    Early,      \* bound: transactions all but their owner have handled at the start
    MaxView,    \* bound: no block is proposed in a view from MaxView on
    Delays      \* bound: how many seconds a proposal may come after the last block

Nodes == 0 .. N-1
NoNode == -1
Outpoints == Genesis \cup UNION {Creates[t] : t \in Txs}

ASSUME NAssumption == N \in Nat \ {0}
ASSUME TxAssumption ==
    /\ Owner \in [Txs -> Nodes]
    /\ \A t \in Txs : Spends[t] \subseteq Outpoints /\ Spends[t] # {}
    /\ IsFiniteSet(Txs)
\* An outpoint names the transaction that creates it.
ASSUME OutpointAssumption ==
    \A t \in Txs :
        /\ Creates[t] \cap Genesis = {}
        /\ \A u \in Txs \ {t} : Creates[t] \cap Creates[u] = {}
ASSUME BoundAssumption ==
    /\ MinTxs \in Nat \ {0}
    /\ MaxView \in Nat
    /\ Delays \subseteq Nat
    /\ InitViews \subseteq Nat /\ InitViews # {}
ASSUME EarlyAssumption ==
    /\ Early \subseteq Txs
    /\ \A t \in Early : Spends[t] \subseteq Genesis /\ \A v \in InitViews : Owner[t] = v % N
    /\ \A t, u \in Early : t # u => Spends[t] \cap Spends[u] = {}

VARIABLES
    view,       \* view[n]: m_currentView of node n
    chain,      \* chain[n]: _chain of node n
    utxo,       \* utxo[n]: the keys of n's UTXOSet
    mempool,    \* mempool[n]: n's pending transactions, which reserve their inputs
    phase,      \* phase[n]: m_phaseStates of n, a map from <<view, sequence>>
    cancel,     \* cancel[n]: m_cancelMining of node n
    miners,     \* miners[n]: the detached mining threads of node n
    net,        \* the messages sent and not yet handled
    created,    \* the transactions users have created so far
    proposals   \* history: every <<view, block>> a leader has proposed

vars == <<view, chain, utxo, mempool, phase, cancel, miners, net, created, proposals>>

-----------------------------------------------------------------------------
(* Blocks and rounds *)

Blocks == [index : Nat, prev : Seq(Nat), time : Nat, txs : SUBSET Txs,
           proposer : Nodes \cup {NoNode}, miner : Nodes \cup {NoNode},
           mined : BOOLEAN]

GenesisBlock == [index |-> 0, prev |-> <<>>, time |-> 0, txs |-> {},
                 proposer |-> NoNode, miner |-> NoNode, mined |-> TRUE]

\* The hash field of a block's header.  It covers neither transactions nor nonce.
HeaderHash(b) == Append(b.prev, b.time)

Last(s) == s[Len(s)]

Rounds == Nat \X Nat
RoundOf(m) == <<m.view, m.block.index>>

PhaseStates == [block : Blocks, hashReady : BOOLEAN, prepared : BOOLEAN,
                committed : BOOLEAN, sentPrepare : BOOLEAN, sentCommit : BOOLEAN,
                prepares : SUBSET Nodes, commits : SUBSET Nodes]

\* A state that tracks a block which has only been proposed.
NewPhaseState(b) ==
    [block |-> b, hashReady |-> FALSE, prepared |-> FALSE, committed |-> FALSE,
     sentPrepare |-> FALSE, sentCommit |-> FALSE, prepares |-> {}, commits |-> {}]

\* m_phaseStates[r] = PhaseState(b): a state already tracked is overwritten.
AddNewPhaseState(n, r, b) ==
    [phase EXCEPT ![n] = [k \in DOMAIN phase[n] \cup {r} |->
                            IF k = r THEN NewPhaseState(b) ELSE phase[n][k]]]

IsTracking(n, r) == r \in DOMAIN phase[n]

\* Slip: the node counts itself twice.
LeaderOutOfRange(v) == v % (N + 1)

\* getLeaderIndex.
Leader(v) == v % N

\* Slip: the view stays.
ViewKept(n) == UNCHANGED view

\* incrementView, the last thing onCommit does.
IncrementView(n) == view' = [view EXCEPT ![n] = @ + 1]

\* Slip: every node must be heard, the node itself included.
QuorumOfAll == N

\* Agreement requirement of onPrepare and onCommit, with integer division.
Quorum == (2 * (N - 1)) \div 3

\* The mined block has the header of the proposal and, the miner's reward apart,
\* no transaction the proposal lacks.
CheckIfBlockMined(proposal, b) ==
    /\ b.index = proposal.index
    /\ b.prev = proposal.prev
    /\ b.txs \subseteq proposal.txs

\* Slip: a second block is prepared.
AcceptsEveryHash(n, r, b) == IsTracking(n, r) /\ b.mined

\* onHashReady goes on for the first block with a good nonce of a tracked round.
AcceptsHash(n, r, b) == IsTracking(n, r) /\ ~phase[n][r].hashReady /\ b.mined

-----------------------------------------------------------------------------
(* Messages and threads *)

BlockMessages == [type : {"PREPREPARE", "HASH_READY", "PREPARE", "COMMIT"},
                  from : Nodes, to : Nodes, view : Nat, block : Blocks]
TxMessages == [type : {"NEW_TRANSACTION"}, to : Nodes, tx : Txs]
Messages == BlockMessages \cup TxMessages

NewTransaction(t, p) == [type |-> "NEW_TRANSACTION", to |-> p, tx |-> t]
LeaderMessage(type, n, p, v, b) ==
    [type |-> type, from |-> n, to |-> p, view |-> v, block |-> b]
Broadcast(type, n, v, b) ==
    {LeaderMessage(type, n, p, v, b) : p \in Nodes \ {n}}

\* pc "starting": created, the cancel flag not yet reset; "mining": in the loop;
\* "exited": out of the loop; "sending": the leader to report to has been read.
Threads ==
    {th \in [view : Nat, block : Blocks, to : Nodes \cup {NoNode},
              pc : {"starting", "mining", "exited", "sending"}] :
        th.pc = "sending" => th.to \in Nodes}

Step(n, th, new) == miners' = [miners EXCEPT ![n] = (@ \ {th}) \cup {new}]
Exit(n, th) == miners' = [miners EXCEPT ![n] = @ \ {th}]

-----------------------------------------------------------------------------
(* The ledger *)

Reserved(n) == UNION {Spends[t] : t \in mempool[n]}

\* Slip: an input has to exist, spent or not.
InputsExist(n, b) ==
    \A t \in b.txs : Spends[t] \subseteq
        Genesis \cup UNION {Creates[u] : u \in UNION {chain[n][i].txs : i \in 1 .. Len(chain[n])}}

VerifyBlockTransactions(n, b) == \A t \in b.txs : Spends[t] \subseteq utxo[n]

IsBlockValid(n, b) ==
    LET last == Last(chain[n])
    IN  /\ b.index - 1 = last.index
        /\ b.time > last.time
        /\ b.prev = HeaderHash(last)
        /\ VerifyBlockTransactions(n, b)

SpentBy(txs) == UNION {Spends[t] : t \in txs}
CreatedBy(txs) == UNION {Creates[t] : t \in txs}
\* Slip: spent outputs stay.
AddOutputsToUtxo(U, b) == U \cup CreatedBy(b.txs)

AddBlockToUtxo(U, b) == (U \cup CreatedBy(b.txs)) \ SpentBy(b.txs)

\* Slip: the mempool is left as it is.
MempoolKept(P, b) == P

\* updateMempoolOnNewBlock, from the pending transactions P.
UpdateMempoolOnNewBlock(P, b) == P \ b.txs

\* Slip: a proposal of the leader is not validated.
AcceptsUnchecked(n, m) == m.from = Leader(view[n]) /\ m.view = view[n]

\* onPreprepare: the sender leads here, the view is ours, the block extends our chain.
AcceptsProposal(n, m) ==
    /\ m.from = Leader(view[n])
    /\ m.view = view[n]
    /\ IsBlockValid(n, m.block)

-----------------------------------------------------------------------------
TypeOK ==
    /\ view \in [Nodes -> Nat]
    /\ chain \in [Nodes -> Seq(Blocks) \ {<<>>}]
    /\ utxo \in [Nodes -> SUBSET Outpoints]
    /\ mempool \in [Nodes -> SUBSET Txs]
    /\ DOMAIN phase = Nodes
    /\ \A n \in Nodes :
          /\ DOMAIN phase[n] \subseteq Rounds
          /\ phase[n] \in [DOMAIN phase[n] -> PhaseStates]
    /\ cancel \in [Nodes -> BOOLEAN]
    /\ miners \in [Nodes -> SUBSET Threads]
    /\ net \subseteq Messages
    /\ created \subseteq Txs
    /\ proposals \subseteq Nat \X Blocks

\* Every node holds the genesis block.  An early transaction was broadcast by the
\* leader, whose own handler has not run yet (createTransaction calls it last).
Init ==
    /\ view \in [Nodes -> InitViews]
    /\ chain = [n \in Nodes |-> <<GenesisBlock>>]
    /\ utxo = [n \in Nodes |-> Genesis]
    /\ mempool = [n \in Nodes |-> {t \in Early : Owner[t] # n}]
    /\ phase = [n \in Nodes |-> <<>>]
    /\ cancel = [n \in Nodes |-> FALSE]
    /\ miners = [n \in Nodes |-> {}]
    /\ net = {NewTransaction(t, Owner[t]) : t \in Early}
    /\ created = Early
    /\ proposals = {}

-----------------------------------------------------------------------------
(* Transactions and proposals *)

\* P2PNode::createTransaction, FullNode::createAndBroadcastTransaction: the
\* wallet selects coins no pending transaction reserves, broadcasts the
\* transaction, and only then hands it to its own handler: the message to itself.
CreateTransaction(t) ==
    LET n == Owner[t]
    IN  /\ t \notin created
        /\ Spends[t] \subseteq utxo[n]
        /\ Spends[t] \cap Reserved(n) = {}
        /\ created' = created \cup {t}
        /\ net' = net \cup {NewTransaction(t, p) : p \in Nodes}
        /\ UNCHANGED <<view, chain, utxo, mempool, phase, cancel, miners, proposals>>

\* Blockchain::commitBlock: the whole mempool goes into a new block on top of the
\* chain and leaves the mempool, with its reservations.  The clock has a resolution of
\* one second and may still show the second of the last block.
CommitBlock(n, txs) ==
    LET last == Last(chain[n])
    IN  {[index |-> Len(chain[n]), prev |-> HeaderHash(last), time |-> s, txs |-> txs,
          proposer |-> n, miner |-> NoNode, mined |-> FALSE] :
             s \in {last.time + d : d \in Delays}}

\* What onNewTransaction asks of a transaction's inputs: unspent, and not reserved.
Acceptable(n, t) == Spends[t] \subseteq utxo[n] \ Reserved(n)

\* With transaction t pending a leader has enough of them for a block.
Proposing(n, t) == Leader(view[n]) = n /\ Cardinality(mempool[n] \cup {t}) >= MinTxs

\* onNewTransaction: an unspendable or already reserved input rejects the
\* transaction; otherwise it is pending, and a leader with enough of them proposes.
OnNewTransaction(n, m) ==
    LET acceptable == Acceptable(n, m.tx)
        pending == mempool[n] \cup {m.tx}
        proposing == Proposing(n, m.tx)
    IN  /\ m.type = "NEW_TRANSACTION"
        /\ \/ /\ ~acceptable
              /\ net' = net \ {m}
              /\ UNCHANGED <<mempool, phase, proposals>>
           \/ /\ acceptable /\ ~proposing
              /\ mempool' = [mempool EXCEPT ![n] = pending]
              /\ net' = net \ {m}
              /\ UNCHANGED <<phase, proposals>>
           \/ /\ acceptable /\ proposing
              /\ view[n] < MaxView
              /\ \E b \in CommitBlock(n, pending) :
                    /\ mempool' = [mempool EXCEPT ![n] = {}]
                    /\ phase' = AddNewPhaseState(n, <<view[n], b.index>>, b)
                    /\ net' = (net \ {m}) \cup Broadcast("PREPREPARE", n, view[n], b)
                    /\ proposals' = proposals \cup {<<view[n], b>>}
        /\ UNCHANGED <<view, chain, utxo, cancel, miners, created>>

\* onPreprepare: a valid block of the current leader for the current view is
\* tracked (over whatever was tracked there) and a mining thread is detached.
OnPreprepare(n, m) ==
    /\ m.type = "PREPREPARE"
    /\ net' = net \ {m}
    /\ \/ /\ AcceptsProposal(n, m)
          /\ phase' = AddNewPhaseState(n, RoundOf(m), m.block)
          /\ miners' = [miners EXCEPT ![n] = @ \cup
                {[view |-> m.view, block |-> m.block, to |-> NoNode, pc |-> "starting"]}]
       \/ ~AcceptsProposal(n, m) /\ UNCHANGED <<phase, miners>>
    /\ UNCHANGED <<view, chain, utxo, mempool, cancel, created, proposals>>

-----------------------------------------------------------------------------
(* The mining thread *)

\* Slip: the reward is left out.
StartWithoutReward(n, th) ==
    /\ th.pc = "starting"
    /\ cancel' = [cancel EXCEPT ![n] = FALSE]
    /\ Step(n, th, [th EXCEPT !.pc = "mining"])
    /\ UNCHANGED <<view, chain, utxo, mempool, phase, net, created, proposals>>

\* mineNewProposedBlock resets the flag and adds the miner's reward.
StartMining(n, th) ==
    /\ th.pc = "starting"
    /\ cancel' = [cancel EXCEPT ![n] = FALSE]
    /\ Step(n, th, [th EXCEPT !.pc = "mining", !.block.miner = n])
    /\ UNCHANGED <<view, chain, utxo, mempool, phase, net, created, proposals>>

\* The loop reads the flag before each nonce: it ends on a good nonce, or because it
\* sees the flag.
LeaveMiningLoop(n, th) ==
    /\ th.pc = "mining"
    /\ \/ ~cancel[n] /\ Step(n, th, [th EXCEPT !.pc = "exited", !.block.mined = TRUE])
       \/ cancel[n] /\ Step(n, th, [th EXCEPT !.pc = "exited"])
    /\ UNCHANGED <<view, chain, utxo, mempool, phase, cancel, net, created, proposals>>

\* wasMiningCanceled after the loop: the thread ends, or looks up the leader.
AddressLeader(n, th) ==
    /\ th.pc = "exited"
    /\ \/ cancel[n] /\ Exit(n, th)
       \/ ~cancel[n] /\ Step(n, th, [th EXCEPT !.pc = "sending", !.to = Leader(view[n])])
    /\ UNCHANGED <<view, chain, utxo, mempool, phase, cancel, net, created, proposals>>

\* The second look at the flag.  sendMessageTo knows no peer that is the node
\* itself, so a thread that would report to its own node sends nothing.
SendHashReady(n, th) ==
    /\ th.pc = "sending"
    /\ Exit(n, th)
    /\ \/ /\ ~cancel[n] /\ th.to # n
          /\ net' = net \cup {LeaderMessage("HASH_READY", n, th.to, th.view, th.block)}
       \/ (cancel[n] \/ th.to = n) /\ UNCHANGED net
    /\ UNCHANGED <<view, chain, utxo, mempool, phase, cancel, created, proposals>>

-----------------------------------------------------------------------------
(* The three phases *)

\* onHashReady: the first mined block for a tracked round is prepared.  setHashReady
\* refuses a block that is not the tracked proposal, but the PREPARE is sent anyway,
\* and with the current view, whatever view the message has.
OnHashReady(n, m) ==
    LET r == RoundOf(m)
        p == phase[n][r]
        settled == CheckIfBlockMined(p.block, m.block)
    IN  /\ m.type = "HASH_READY"
        /\ \/ /\ AcceptsHash(n, r, m.block)
              /\ phase' = [phase EXCEPT ![n][r] =
                    [p EXCEPT !.sentPrepare = TRUE,
                              !.hashReady = settled,
                              !.block = IF settled THEN m.block ELSE @]]
              /\ net' = (net \ {m}) \cup Broadcast("PREPARE", n, view[n], m.block)
           \/ /\ ~AcceptsHash(n, r, m.block)
              /\ net' = net \ {m}
              /\ UNCHANGED phase
        /\ UNCHANGED <<view, chain, utxo, mempool, cancel, miners, created, proposals>>

\* onPrepare: any PREPARE stops the mining.  For a tracked round the node echoes the
\* block once and counts the author; a quorum makes it prepared and sends COMMIT.
OnPrepare(n, m) ==
    LET r == RoundOf(m)
        p == phase[n][r]
        authors == p.prepares \cup {m.from}
        quorate == Cardinality(authors) >= Quorum
        echo == IF p.sentPrepare THEN {} ELSE Broadcast("PREPARE", n, m.view, m.block)
        commit == IF quorate THEN Broadcast("COMMIT", n, m.view, m.block) ELSE {}
    IN  /\ m.type = "PREPARE"
        /\ cancel' = [cancel EXCEPT ![n] = TRUE]
        /\ \/ /\ ~IsTracking(n, r)
              /\ net' = net \ {m}
              /\ UNCHANGED phase
           \/ /\ IsTracking(n, r) /\ p.prepared
              /\ phase' = [phase EXCEPT ![n][r] = [p EXCEPT !.sentPrepare = TRUE]]
              /\ net' = net \ {m}
           \/ /\ IsTracking(n, r) /\ ~p.prepared
              /\ phase' = [phase EXCEPT ![n][r] =
                    [p EXCEPT !.sentPrepare = TRUE,
                              !.prepares = authors,
                              !.prepared = quorate,
                              !.sentCommit = @ \/ quorate]]
              /\ net' = (net \ {m}) \cup echo \cup commit
        /\ UNCHANGED <<view, chain, utxo, mempool, miners, created, proposals>>

\* onCommit: dropped unless the round is prepared here.  The quorum's last block is
\* offered to the chain; the UTXO set and the view move on even if addBlock refuses it.
OnCommit(n, m) ==
    LET r == RoundOf(m)
        p == phase[n][r]
        authors == p.commits \cup {m.from}
        heard == IsTracking(n, r) /\ p.prepared
        deciding == ~p.committed /\ Cardinality(authors) >= Quorum
        valid == IsBlockValid(n, m.block)
    IN  /\ m.type = "COMMIT"
        /\ net' = net \ {m}
        /\ \/ /\ ~heard
              /\ UNCHANGED <<view, chain, utxo, mempool, phase>>
           \/ /\ heard /\ ~deciding
              /\ phase' = [phase EXCEPT ![n][r] = [p EXCEPT !.commits = authors]]
              /\ UNCHANGED <<view, chain, utxo, mempool>>
           \/ /\ heard /\ deciding
              /\ phase' = [phase EXCEPT ![n][r] = [p EXCEPT !.commits = authors, !.committed = TRUE]]
              /\ chain' = IF valid THEN [chain EXCEPT ![n] = Append(@, m.block)] ELSE chain
              /\ mempool' = IF valid
                          THEN [mempool EXCEPT ![n] = UpdateMempoolOnNewBlock(@, m.block)]
                          ELSE mempool
              /\ utxo' = [utxo EXCEPT ![n] = AddBlockToUtxo(@, m.block)]
              /\ IncrementView(n)
        /\ UNCHANGED <<cancel, miners, created, proposals>>

-----------------------------------------------------------------------------
Handle(n, m) ==
    \/ OnNewTransaction(n, m)
    \/ OnPreprepare(n, m)
    \/ OnHashReady(n, m)
    \/ OnPrepare(n, m)
    \/ OnCommit(n, m)

Mine(n, th) ==
    \/ StartMining(n, th)
    \/ LeaveMiningLoop(n, th)
    \/ AddressLeader(n, th)
    \/ SendHashReady(n, th)

\* What a node does by itself.
System(n) ==
    \/ \E m \in net : m.to = n /\ Handle(n, m)
    \/ \E th \in miners[n] : Mine(n, th)

Next ==
    \/ \E t \in Txs : CreateTransaction(t)
    \/ \E n \in Nodes : System(n)

Spec == Init /\ [][Next]_vars

\* The scheduling the code counts on: a mining thread has reset the flag before its
\* node handles a PREPARE.
Prompt ==
    \A m \in net \ net' : m.type = "PREPARE" =>
        \A th \in miners[m.to] : th.pc # "starting"

\* Restraint of the users: no leader is brought to propose for a round it already tracks.
\* Nothing in the code sees to it, see addNewPhaseState.
Once ==
    \A m \in net \ net' :
        m.type = "NEW_TRANSACTION" /\ Acceptable(m.to, m.tx) /\ Proposing(m.to, m.tx) =>
            ~IsTracking(m.to, <<view[m.to], Len(chain[m.to])>>)

\* The order of one connection: what a node sends another arrives view by view, and
\* phase by phase in a view.  The code guarantees it for the answers of one thread.
Rank(m) == CASE m.type = "PREPREPARE" -> 1 [] m.type = "HASH_READY" -> 2
             [] m.type = "PREPARE" -> 3     [] m.type = "COMMIT" -> 4
InOrder ==
    \A m \in net \ net' : m.type # "NEW_TRANSACTION" =>
        \A k \in net \cap net' :
            k.to = m.to /\ k.type # "NEW_TRANSACTION" /\ k.from = m.from =>
                \/ k.view > m.view
                \/ k.view = m.view /\ Rank(k) >= Rank(m)

\* What is received is handled, and a mining thread runs and finds a nonce in the end:
\* while any of this can be done, something of it is.  Users need not create anything.
Fairness == WF_vars(\E n \in Nodes : System(n))

FairSpec == Spec /\ Fairness
PromptSpec == Init /\ [][Next /\ Prompt]_vars
OneProposalSpec == Init /\ [][Next /\ Prompt /\ Once]_vars
InOrderSpec == Init /\ [][Next /\ InOrder]_vars
PromptInOrderSpec == Init /\ [][Next /\ Prompt /\ InOrder]_vars

-----------------------------------------------------------------------------
(* What the protocol promises *)

CommittedRounds(n) == {r \in DOMAIN phase[n] : phase[n][r].committed}
ChainTxs(n) == UNION {chain[n][i].txs : i \in 1 .. Len(chain[n])}

\* Nodes never disagree: at each height two chains hold the same block, down to the
\* miner it rewards.  What the PREPARE and COMMIT rounds of FullNodeMessageHandler
\* are for; neither the chain nor the header hash would show a difference later.
Agreement ==
    \A n, k \in Nodes : \A i \in 1 .. Len(chain[n]) :
        i <= Len(chain[k]) => chain[n][i] = chain[k][i]

\* A round a node still works on is the one of its view and of the height of its next
\* block; a committed round is of a view it has left.  So addNewPhaseState, which
\* overwrites, never wipes out a committed round, and no PREPARE or COMMIT that
\* arrives late can touch the chain twice for one height.
OpenRoundIsCurrent ==
    \A n \in Nodes : \A r \in DOMAIN phase[n] :
        IF phase[n][r].committed
        THEN r[1] < view[n]
        ELSE r[1] = view[n] /\ r[2] = Len(chain[n])

\* A decision is final: no proposal, vote or late message makes a node forget that it
\* has committed a round, although addNewPhaseState overwrites what is tracked.
KeepsCommitted ==
    \A n \in Nodes : \A r \in CommittedRounds(n) :
        r \in DOMAIN phase'[n] /\ phase'[n][r].committed
CommittedStays == [][KeepsCommitted]_vars

\* onCommit ignores what addBlock returns: it still marks the round committed and
\* updates the UTXO set and the view.  No block has been refused there so far: every
\* committed round put its block on the chain.
CommitsMatchChain ==
    \A n \in Nodes : Cardinality(CommittedRounds(n)) = Len(chain[n]) - 1

\* The UTXO set, which addBlockToUtxo maintains apart from the chain, is the one that
\* replaying the node's chain from the genesis block gives.
UtxoMatchesChain ==
    \A n \in Nodes :
        utxo[n] = (Genesis \cup CreatedBy(ChainTxs(n))) \ SpentBy(ChainTxs(n))

\* No outpoint is spent twice on a node's chain, though commitBlock gives up the
\* mempool's reservations when a block is proposed, long before it is committed, so
\* that conflicting transactions may be pending and proposed at the same time.
NoDoubleSpend ==
    \A n \in Nodes : \A i, j \in 1 .. Len(chain[n]) :
        \A t \in chain[n][i].txs, u \in chain[n][j].txs :
            (i # j \/ t # u) => Spends[t] \cap Spends[u] = {}

\* A transaction on the chain is not pending: the mempool holds nothing that the node
\* has committed, whether the block came before or after the transaction
\* (Mempool::updateMempoolOnNewBlock, and the UTXO test of onNewTransaction).
PendingNotCommitted == \A n \in Nodes : mempool[n] \cap ChainTxs(n) = {}

\* Every block on a chain after the genesis block was mined by a node other than its
\* proposer.  A thread cancelled in its loop may find the flag reset by the next
\* thread and report a nonce it never found; checkHash in onHashReady catches it.
CommittedBlocksMined ==
    \A n \in Nodes : \A i \in 2 .. Len(chain[n]) :
        LET b == chain[n][i] IN b.mined /\ b.miner \notin {NoNode, b.proposer}

\* A proposal is not lost: some node leaves the view it was made in.  With no view
\* change and no retry, a round in which every node waits would stop the network: a
\* PREPARE that overtakes its PREPREPARE, and a COMMIT that arrives before the node is
\* prepared, are dropped and never sent again.
ProposalDecided ==
    \A v \in 0 .. MaxView - 1 :
        (\E p \in proposals : p[1] = v) ~> (\E n \in Nodes : view[n] > v)
=============================================================================
