------------------------------- MODULE TxPool -------------------------------
(***************************************************************************)
(* The wallet, the mempool and the UTXO set of one node, at the grain of   *)
(* their locks: user threads that pay, beside the thread that handles what *)
(* peers send.                                                             *)
(*                                                                         *)
(* receiveLoop dispatches under m_handlerMutex, so at most one received    *)
(* message is being handled: all receive threads are one thread here, the  *)
(* Receiver.  createTransaction and createAndBroadcastTransaction dispatch *)
(* on the user's thread without that mutex (Consensus lets them take it).  *)
(* Each step below is one critical section of Blockchain, Mempool, UTXOSet *)
(* or the phase map, or one access to what no lock guards: the wallet's    *)
(* coins and the view.                                                     *)
(*                                                                         *)
(* What is abstracted:                                                     *)
(*  - The vote on a block, which Consensus models, is the set decisions:   *)
(*    blocks the followers accept for the view they are proposed in.       *)
(*  - A block's rewards are left out, they are no input of anybody.        *)
(*  - The loops over a transaction's inputs, and over a block's outputs    *)
(*    into the UTXO set, are one step each.                                *)
(*  - The wallet's map is read and written one transaction at a time; that *)
(*    two threads in it at once may crash the program is not modelled.     *)
(*  - Nobody else uses the wallet's key.                                   *)
(***************************************************************************)
EXTENDS Integers, FiniteSetsExt

CONSTANTS
    Callers,    \* threads that create transactions: the command line's, or web threads
    Receiver,   \* the receive thread that holds m_handlerMutex
    Genesis,    \* the outpoints of the genesis block
    Amounts,    \* what users pay; the command line refuses 0.  Example: {1, 2}
    Leads,      \* the views this node is the leader of.  Example: {0, 2}
    MinTxs,     \* MIN_TRANSACTIONS_FOR_BLOCK
    MaxTxs,     \* bound: how many transactions are created
    MaxView     \* bound: no block is proposed in a view from MaxView on

Threads == Callers \cup {Receiver}
Labels == {"idle", "verify", "check", "add", "lead", "build", "track", "announce",
           "addBlock", "wallet", "utxo", "leave"}

\* An outpoint with the UTXOData the set keeps for it; mine: its key hash is the wallet's.
OutPoints == [tx : Nat, index : Nat, value : Nat, mine : BOOLEAN]
Transactions == [id : Nat, inputs : SUBSET OutPoints, outputs : SUBSET OutPoints]
Blocks == [index : Nat, txs : SUBSET Transactions]

ASSUME ThreadAssumption == Receiver \notin Callers
\* Transactions are numbered from 1; an outpoint names the one that creates it, or 0 for
\* the genesis block.
ASSUME GenesisAssumption ==
    Genesis \subseteq OutPoints /\ IsFiniteSet(Genesis) /\ \A o \in Genesis : o.tx = 0
ASSUME BoundAssumption ==
    Amounts \subseteq Nat \ {0} /\ MinTxs \in Nat /\ MaxTxs \in Nat /\ MaxView \in Nat

NoTx == [id |-> 0, inputs |-> {}, outputs |-> {}]
NoBlock == [index |-> 0, txs |-> {}]

VARIABLES
    view,       \* m_currentView
    height,     \* _chain.size()
    coins,      \* the keys of the wallet's myUTXOs
    utxo,       \* the UTXOSet
    pending,    \* the mempool's _pendingTransactions
    reserved,   \* the keys of the mempool's _reservedUTXOs
    open,       \* the rounds <<view, index>> that are tracked and not committed
    pc, tx, block,  \* per thread: its next step, its transaction, its block
    todo,       \* the transactions the wallet's update has still to look at
    inbox,      \* NEW_TRANSACTION messages of peers, not yet handled
    sent,       \* every transaction that has been broadcast
    decisions,  \* proposals the followers agree on, with the view they were made in
    base,       \* the chain and the UTXO set as the view began, which followers share
    overlap     \* history: two threads have been inside handlers at the same time

shared == <<view, height, coins, utxo, pending, reserved, open>>
network == <<inbox, sent, decisions, base>>
vars == <<shared, pc, tx, block, todo, network, overlap>>

InputsOf(T) == UNION {t.inputs : t \in T}
OutputsOf(T) == UNION {t.outputs : t \in T}
Mine(S) == {o \in S : o.mine}
ValueOf(S) == MapThenSumSet(LAMBDA o : o.value, S)
Created == Cardinality(sent)

\* Threads inside a handler, were they at p.  At "verify" the first look is still to come.
Inside(p) == {t \in Threads : p[t] \notin {"idle", "verify"}}

Goto(t, label) ==
    /\ pc' = [pc EXCEPT ![t] = label]
    /\ overlap' = (overlap \/ \E a, b \in Inside(pc') : a # b)

TypeOK ==
    /\ view \in Nat /\ height \in Nat
    /\ coins \subseteq OutPoints /\ utxo \subseteq OutPoints /\ reserved \subseteq OutPoints
    /\ pending \subseteq Transactions /\ todo \subseteq Transactions
    /\ inbox \subseteq Transactions /\ sent \subseteq Transactions
    /\ open \subseteq Nat \X Nat
    /\ pc \in [Threads -> Labels]
    /\ tx \in [Threads -> Transactions]
    /\ block \in [Threads -> Blocks]
    /\ decisions \subseteq [view : Nat, block : Blocks]
    /\ base \in [height : Nat, utxo : SUBSET OutPoints]
    /\ overlap \in BOOLEAN

Init ==
    /\ view = 0 /\ height = 1
    /\ coins = Mine(Genesis) /\ utxo = Genesis
    /\ pending = {} /\ reserved = {} /\ open = {}
    /\ pc = [t \in Threads |-> "idle"]
    /\ tx = [t \in Threads |-> NoTx]
    /\ block = [t \in Threads |-> NoBlock]
    /\ todo = {} /\ inbox = {} /\ sent = {} /\ decisions = {}
    /\ base = [height |-> 1, utxo |-> Genesis]
    /\ overlap = FALSE

-----------------------------------------------------------------------------
(* Transactions come into being *)

\* selectUTXOs: the unreserved coins in ascending order, until they reach the amount.
SelectUTXOs(S, amount) ==
    {X \in SUBSET S : \E last \in X :
        /\ \A o \in X : o.value <= last.value
        /\ \A o \in S \ X : o.value >= last.value
        /\ ValueOf(X) >= amount
        /\ ValueOf(X \ {last}) < amount}

\* Wallet::createTransaction: the amount for the recipient, the change for ourselves.
Payment(id, inputs, amount) ==
    LET change == ValueOf(inputs) - amount
        out(i, v, m) == [tx |-> id, index |-> i, value |-> v, mine |-> m]
    IN  [id |-> id, inputs |-> inputs,
         outputs |-> {out(0, amount, FALSE)} \cup
                     (IF change > 0 THEN {out(1, change, TRUE)} ELSE {})]

\* createTransaction of a user thread: without enough coins nothing happens, else the
\* transaction is broadcast, and then dispatched on this thread.
CreateTransaction(t) ==
    /\ pc[t] = "idle" /\ t \in Callers
    /\ Created < MaxTxs
    /\ \E amount \in Amounts : \E inputs \in SelectUTXOs(coins \ reserved, amount) :
          LET new == Payment(Created + 1, inputs, amount)
          IN  /\ tx' = [tx EXCEPT ![t] = new]
              /\ sent' = sent \cup {new}
    /\ Goto(t, "verify")
    /\ UNCHANGED <<shared, block, todo, inbox, decisions, base>>

\* A peer pays a coin of its own to this wallet.
PeerPays(o) ==
    LET id == Created + 1
        new == [id |-> id, inputs |-> {o},
                outputs |-> {[tx |-> id, index |-> 0, value |-> o.value, mine |-> TRUE]}]
    IN  /\ o \notin Mine(utxo)
        /\ o \notin InputsOf(sent)
        /\ Created < MaxTxs
        /\ inbox' = inbox \cup {new}
        /\ sent' = sent \cup {new}
        /\ UNCHANGED <<shared, pc, tx, block, todo, decisions, base, overlap>>

\* The receive thread takes a NEW_TRANSACTION.
ReceiveTransaction(t) ==
    /\ pc[t] = "idle" /\ t = Receiver
    /\ \E m \in inbox :
          /\ tx' = [tx EXCEPT ![t] = m]
          /\ inbox' = inbox \ {m}
    /\ Goto(t, "verify")
    /\ UNCHANGED <<shared, block, todo, sent, decisions, base>>

-----------------------------------------------------------------------------
(* onNewTransaction, by the receive thread or by a user's thread *)

\* verifyTransactionSignature: every input is unspent, and they cover the outputs.
Verified(m) == m.inputs \subseteq utxo /\ ValueOf(m.inputs) >= ValueOf(m.outputs)

Verify(t) ==
    /\ pc[t] = "verify"
    /\ Goto(t, IF Verified(tx[t]) THEN "check" ELSE "idle")
    /\ UNCHANGED <<shared, tx, block, todo, network>>

\* isUTXOLocked, for each input.
CheckLocked(t) ==
    /\ pc[t] = "check"
    /\ Goto(t, IF tx[t].inputs \cap reserved = {} THEN "add" ELSE "idle")
    /\ UNCHANGED <<shared, tx, block, todo, network>>

\* Blockchain::addTransaction: pending, with its inputs reserved.
AddTransaction(t) ==
    /\ pc[t] = "add"
    /\ pending' = pending \cup {tx[t]}
    /\ reserved' = reserved \cup tx[t].inputs
    /\ Goto(t, "lead")
    /\ UNCHANGED <<view, height, coins, utxo, open, tx, block, todo, network>>

\* amILeader.
LookAtView(t) ==
    /\ pc[t] = "lead"
    /\ Goto(t, IF view \in Leads THEN "build" ELSE "idle")
    /\ UNCHANGED <<shared, tx, block, todo, network>>

\* Slip: the reservations outlive the pending transactions.
ReleaseNone(T) == reserved

\* removeTransaction of each of T: what it reserved is free again.
Release(T) == reserved \ InputsOf(T \cap pending)

\* isAvailableToCommitBlock and commitBlock: all that is pending goes into a block on top
\* of the chain, if it is enough.
BuildBlock(t) ==
    /\ pc[t] = "build"
    /\ \/ /\ Cardinality(pending) >= MinTxs
          /\ block' = [block EXCEPT ![t] = [index |-> height, txs |-> pending]]
          /\ pending' = {}
          /\ reserved' = Release(pending)
          /\ Goto(t, "track")
       \/ /\ Cardinality(pending) < MinTxs
          /\ Goto(t, "idle")
          /\ UNCHANGED <<block, pending, reserved>>
    /\ UNCHANGED <<view, height, coins, utxo, open, tx, todo, network>>

\* addNewPhaseState, under the view as it is now.
TrackProposal(t) ==
    /\ pc[t] = "track"
    /\ open' = open \cup {<<view, block[t].index>>}
    /\ Goto(t, "announce")
    /\ UNCHANGED <<view, height, coins, utxo, pending, reserved, tx, block, todo, network>>

\* createLeaderMessage reads the view once more.  Followers accept the proposal of their
\* leader on top of their chain with unspent inputs.
Announce(t) ==
    /\ pc[t] = "announce"
    /\ view < MaxView
    /\ decisions' = IF /\ view \in Leads
                       /\ block[t].index = base.height
                       /\ InputsOf(block[t].txs) \subseteq base.utxo
                    THEN decisions \cup {[view |-> view, block |-> block[t]]}
                    ELSE decisions
    /\ Goto(t, "idle")
    /\ UNCHANGED <<shared, tx, block, todo, inbox, sent, base>>

-----------------------------------------------------------------------------
(* Blocks, by the receive thread *)

\* onPreprepare: a peer that leads proposes transactions it knows, none of whose inputs
\* is spent or shared.
OnPreprepare(t) ==
    /\ pc[t] = "idle" /\ t = Receiver
    /\ view \notin Leads /\ view < MaxView
    /\ \A d \in decisions : d.view # view
    /\ \E T \in SUBSET sent :
          /\ Cardinality(T) >= MinTxs
          /\ InputsOf(T) \subseteq utxo
          /\ \A a, b \in T : a # b => a.inputs \cap b.inputs = {}
          /\ decisions' = decisions \cup {[view |-> view, block |-> [index |-> height, txs |-> T]]}
    /\ open' = open \cup {<<view, height>>}
    /\ overlap' = (overlap \/ Inside(pc) # {})
    /\ UNCHANGED <<view, height, coins, utxo, pending, reserved, pc, tx, block, todo,
                   inbox, sent, base>>

\* Slip: the round is not marked.
LeftOpen(r) == open

\* setCommitted.
SetCommitted(r) == open \ {r}

\* onCommit up to setCommitted: a tracked round is decided.
OnCommit(t) ==
    /\ pc[t] = "idle" /\ t = Receiver
    /\ \E d \in decisions :
          /\ <<d.view, d.block.index>> \in open
          /\ open' = SetCommitted(<<d.view, d.block.index>>)
          /\ block' = [block EXCEPT ![t] = d.block]
          /\ decisions' = decisions \ {d}
    /\ Goto(t, "addBlock")
    /\ UNCHANGED <<view, height, coins, utxo, pending, reserved, tx, todo, inbox, sent, base>>

\* addBlock, whose result nobody looks at: a valid block is appended, and its
\* transactions leave the mempool.
AddBlock(t) ==
    /\ pc[t] = "addBlock"
    /\ \/ /\ block[t].index = height /\ InputsOf(block[t].txs) \subseteq utxo
          /\ height' = height + 1
          /\ pending' = pending \ block[t].txs
          /\ reserved' = Release(block[t].txs)
       \/ /\ ~(block[t].index = height /\ InputsOf(block[t].txs) \subseteq utxo)
          /\ UNCHANGED <<height, pending, reserved>>
    /\ todo' = block[t].txs
    /\ Goto(t, "wallet")
    /\ UNCHANGED <<view, coins, utxo, open, tx, block, network>>

\* Slip: what the transaction spends stays in the wallet.
CoinsKept(m) == coins \cup Mine(m.outputs)

\* updateUTXOsWithTransaction.
CoinsAfter(m) == (coins \ m.inputs) \cup Mine(m.outputs)

\* updateUTXOsFromNewBlock, one transaction of the block after the other.
UpdateWallet(t) ==
    /\ pc[t] = "wallet"
    /\ \/ /\ todo = {}
          /\ Goto(t, "utxo")
          /\ UNCHANGED <<coins, todo>>
       \/ \E m \in todo :
          /\ coins' = CoinsAfter(m)
          /\ todo' = todo \ {m}
          /\ UNCHANGED <<pc, overlap>>
    /\ UNCHANGED <<view, height, utxo, pending, reserved, open, tx, block, network>>

\* addBlockToUtxo.
AddBlockToUtxo(t) ==
    /\ pc[t] = "utxo"
    /\ utxo' = (utxo \cup OutputsOf(block[t].txs)) \ InputsOf(block[t].txs)
    /\ Goto(t, "leave")
    /\ UNCHANGED <<view, height, coins, pending, reserved, open, tx, block, todo, network>>

\* incrementView.
IncrementView(t) ==
    /\ pc[t] = "leave"
    /\ view' = view + 1
    /\ base' = [height |-> height, utxo |-> utxo]
    /\ Goto(t, "idle")
    /\ UNCHANGED <<height, coins, utxo, pending, reserved, open, tx, block, todo,
                   inbox, sent, decisions>>

-----------------------------------------------------------------------------
HandleTransaction(t) ==
    \/ Verify(t) \/ CheckLocked(t) \/ AddTransaction(t)
    \/ LookAtView(t) \/ BuildBlock(t) \/ TrackProposal(t) \/ Announce(t)

HandleBlock(t) ==
    \/ OnPreprepare(t) \/ OnCommit(t) \/ AddBlock(t)
    \/ UpdateWallet(t) \/ AddBlockToUtxo(t) \/ IncrementView(t)

Next ==
    \/ \E o \in utxo : PeerPays(o)
    \/ \E t \in Threads :
          CreateTransaction(t) \/ ReceiveTransaction(t) \/ HandleTransaction(t) \/ HandleBlock(t)

Spec == Init /\ [][Next]_vars

-----------------------------------------------------------------------------
(* What the node's state promises *)

\* No block is on its way into the chain, the wallet and the UTXO set.
Settled == pc[Receiver] \notin {"addBlock", "wallet", "utxo", "leave"}

\* The reserved outpoints are the inputs of the pending transactions, and no two of
\* these share an input, although the look at the reservations and the entry of the
\* new one are two steps, and commitBlock and addBlock release at other times.  With two
\* user threads it fails: both may look before either enters.
ReservedOnce ==
    /\ reserved = InputsOf(pending)
    /\ \A a, b \in pending : a # b => a.inputs \cap b.inputs = {}

\* Why, with one user: the wallet's coins are its own, what peers spend is theirs, so the
\* two threads never want the same outpoint.
OwnCoins ==
    /\ \A o \in coins : o.mine
    /\ \A m \in inbox \cup {tx[Receiver]} : \A o \in m.inputs : ~o.mine
    /\ \A t \in Callers : \A o \in tx[t].inputs : o.mine
StillFree == \A t \in Threads : pc[t] = "add" => tx[t].inputs \cap reserved = {}

\* Between blocks the wallet's coins are its part of the UTXO set, as long as no user's
\* dispatch overlapped a handler: the two are kept by different code
\* (updateUTXOsWithTransaction removes before it inserts, addBlockToUtxo the other way
\* round), so a block must not spend what it creates.  After an overlap a block may be
\* applied twice and bring back what was spent, and a later block may spend its own
\* outputs.
WalletMatchesUtxoAlone == ~overlap /\ Settled => coins = Mine(utxo)

\* Without the rewards the coins in the UTXO set are worth what the genesis block
\* created, as long as no user's dispatch overlapped a handler: no block is applied
\* twice, and no coin is spent twice, although a leader may propose a second block for a
\* round, with transactions that spend what those of the first do.
SupplyKeptAlone == ~overlap /\ Settled => ValueOf(utxo) = ValueOf(Genesis)

\* onCommit acts if the round "hasn't already been committed" (FullNodeMessageHandler
\* .cpp:882): there is one view for each block of the chain.
ViewPerBlock == Settled => height = view + 1

\* The same as long as no user's dispatch overlapped a handler.
ViewPerBlockAlone == ~overlap => ViewPerBlock
=============================================================================
