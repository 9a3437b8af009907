---------------------------- MODULE TxPoolProofs ----------------------------
(***************************************************************************)
(* Whatever the genesis block, the amounts and the views the node leads:   *)
(*  - With one user thread no outpoint is ever reserved twice.             *)
(*  - With any number of them, as long as no two threads have been inside  *)
(*    handlers at once, the wallet follows the UTXO set, there is one view *)
(*    for each block, and what is unspent keeps its worth.                 *)
(***************************************************************************)
EXTENDS TxPool, FiniteSetTheorems, WellFoundedInduction, TLAPS

\* What the invariant needs of the types.
Shape ==
  /\ pc \in [Threads -> Labels]
  /\ tx = [t \in Threads |-> tx[t]]

ReservedInv == Shape /\ OwnCoins /\ StillFree /\ ReservedOnce

\* updateUTXOsWithTransaction and the constructor keep only the wallet's own outpoints.
LEMMA MineIsMine == \A S : \A o \in Mine(S) : o.mine
  BY DEF Mine

\* Removing transactions from a pool without shared inputs releases what they reserved
\* and nothing else (Mempool::removeTransaction).
LEMMA ReleaseExact ==
  ASSUME ReservedOnce, NEW T
  PROVE  Release(T) = InputsOf(pending \ T)
  <1>1. ASSUME NEW o \in Release(T)
        PROVE  o \in InputsOf(pending \ T)
    BY <1>1 DEF ReservedOnce, Release, InputsOf
  <1>2. ASSUME NEW o \in InputsOf(pending \ T)
        PROVE  o \in Release(T)
    <2>1. PICK a \in pending \ T : o \in a.inputs
      BY <1>2 DEF InputsOf
    <2>2. o \in reserved
      BY <2>1 DEF ReservedOnce, InputsOf
    <2>3. \A b \in T \cap pending : o \notin b.inputs
      BY <2>1 DEF ReservedOnce
    <2> QED
      BY <2>2, <2>3 DEF Release, InputsOf
  <1> QED
    BY <1>1, <1>2

-----------------------------------------------------------------------------
(* Kinds of steps *)

\* A thread moves on, to "add" only with inputs nobody has reserved.
LEMMA MovesOn ==
  ASSUME ReservedInv, NEW t \in Threads, NEW label \in Labels,
         pc' = [pc EXCEPT ![t] = label],
         UNCHANGED <<coins, pending, reserved, tx, inbox>>,
         label = "add" => tx[t].inputs \cap reserved = {}
  PROVE  ReservedInv'
  <1>1. Shape'
    BY DEF ReservedInv, Shape, Labels
  <1>2. OwnCoins'
    BY DEF ReservedInv, OwnCoins
  <1>3. StillFree'
    BY <1>1 DEF ReservedInv, StillFree, Shape
  <1>4. ReservedOnce'
    BY DEF ReservedInv, ReservedOnce, InputsOf
  <1> QED
    BY <1>1, <1>2, <1>3, <1>4 DEF ReservedInv

\* Transactions leave the mempool while a thread moves on.
LEMMA Releases ==
  ASSUME ReservedInv, NEW t \in Threads, NEW label \in Labels \ {"add"}, NEW T,
         pc' = [pc EXCEPT ![t] = label], pending' = pending \ T, reserved' = Release(T), UNCHANGED <<coins, tx, inbox>>
  PROVE  ReservedInv'
  <1>1. Shape'
    BY DEF ReservedInv, Shape, Labels
  <1>2. OwnCoins'
    BY DEF ReservedInv, OwnCoins
  <1>3. StillFree'
    BY <1>1 DEF ReservedInv, StillFree, Shape, Release
  <1>4. reserved' = InputsOf(pending')
    BY ReleaseExact DEF ReservedInv
  <1>5. ReservedOnce'
    BY <1>4 DEF ReservedInv, ReservedOnce, InputsOf
  <1> QED
    BY <1>1, <1>2, <1>3, <1>5 DEF ReservedInv

\* A thread takes up a transaction whose inputs are its own side's.
LEMMA TakesUp ==
  ASSUME ReservedInv, NEW t \in Threads, NEW m, pc' = [pc EXCEPT ![t] = "verify"],
         tx' = [tx EXCEPT ![t] = m], inbox' \subseteq inbox,
         UNCHANGED <<coins, pending, reserved>>,
         \/ t \in Callers /\ \A o \in m.inputs : o.mine
         \/ t = Receiver /\ \A o \in m.inputs : ~o.mine
  PROVE  ReservedInv'
  <1>1. Shape' /\ tx'[t] = m /\ \A u \in Threads \ {t} : tx'[u] = tx[u]
    BY DEF ReservedInv, Shape, Labels
  <1>2. OwnCoins'
    BY <1>1, ThreadAssumption DEF ReservedInv, OwnCoins, Threads
  <1>3. StillFree'
    BY <1>1 DEF ReservedInv, StillFree, Shape
  <1>4. ReservedOnce'
    BY DEF ReservedInv, ReservedOnce, InputsOf
  <1> QED
    BY <1>1, <1>2, <1>3, <1>4 DEF ReservedInv

-----------------------------------------------------------------------------
(* The steps that need more *)

LEMMA CreateKeeps ==
  ASSUME ReservedInv, NEW t \in Threads, CreateTransaction(t)
  PROVE  ReservedInv'
  <1>0. PICK amount \in Amounts : \E inputs \in SelectUTXOs(coins \ reserved, amount) :
           tx' = [tx EXCEPT ![t] = Payment(Created + 1, inputs, amount)]
    BY DEF CreateTransaction
  <1>1. PICK inputs \in SelectUTXOs(coins \ reserved, amount) :
           tx' = [tx EXCEPT ![t] = Payment(Created + 1, inputs, amount)]
    BY <1>0
  <1> DEFINE m == Payment(Created + 1, inputs, amount)
  <1>2. m.inputs = inputs
    BY DEF Payment
  <1>3. inputs \subseteq coins
    BY DEF SelectUTXOs
  <1>4. \A o \in m.inputs : o.mine
    BY <1>2, <1>3 DEF ReservedInv, OwnCoins
  <1>5. t \in Callers /\ pc' = [pc EXCEPT ![t] = "verify"] /\ UNCHANGED <<coins, pending, reserved, inbox>>
    BY DEF CreateTransaction, Goto, shared
  <1> HIDE DEF m
  <1> QED
    BY <1>1, <1>4, <1>5, TakesUp DEF m

LEMMA ReceiveKeeps ==
  ASSUME ReservedInv, NEW t \in Threads, ReceiveTransaction(t)
  PROVE  ReservedInv'
  <1>1. PICK m \in inbox : tx' = [tx EXCEPT ![t] = m] /\ inbox' = inbox \ {m}
    BY DEF ReceiveTransaction
  <1>2. t = Receiver /\ pc' = [pc EXCEPT ![t] = "verify"] /\ UNCHANGED <<coins, pending, reserved>>
    BY DEF ReceiveTransaction, Goto, shared
  <1>3. \A o \in m.inputs : ~o.mine
    BY DEF ReservedInv, OwnCoins
  <1> QED
    BY <1>1, <1>2, <1>3, TakesUp

LEMMA PeerPaysKeeps ==
  ASSUME ReservedInv, NEW o \in utxo, PeerPays(o)
  PROVE  ReservedInv'
  <1>1. UNCHANGED <<coins, pending, reserved, pc, tx>>
    BY DEF PeerPays, shared
  <1>2. ~o.mine
    BY DEF PeerPays, Mine
  <1>3. \A m \in inbox' \ inbox : m.inputs = {o}
    BY DEF PeerPays
  <1>4. OwnCoins'
    BY <1>1, <1>2, <1>3 DEF ReservedInv, OwnCoins
  <1>5. Shape' /\ StillFree' /\ ReservedOnce'
    BY <1>1 DEF ReservedInv, Shape, StillFree, ReservedOnce, InputsOf
  <1> QED
    BY <1>4, <1>5 DEF ReservedInv

\* The one step that needs the single user: what the other thread is about to enter is of
\* the other side, so it stays free.
LEMMA AddKeeps ==
  ASSUME ReservedInv, \A c, d \in Callers : c = d, NEW t \in Threads, AddTransaction(t)
  PROVE  ReservedInv'
  <1>1. /\ pc[t] = "add" /\ pc' = [pc EXCEPT ![t] = "lead"]
        /\ pending' = pending \cup {tx[t]} /\ reserved' = reserved \cup tx[t].inputs
        /\ UNCHANGED <<coins, tx, inbox>>
    BY DEF AddTransaction, Goto, network
  <1>2. tx[t].inputs \cap reserved = {}
    BY <1>1 DEF ReservedInv, StillFree
  <1>3. Shape' /\ OwnCoins'
    BY <1>1 DEF ReservedInv, Shape, OwnCoins, Labels
  <1>4. ASSUME NEW u \in Threads, pc'[u] = "add"
        PROVE  tx[u].inputs \cap reserved' = {}
    <2>1. u # t /\ pc[u] = "add"
      BY <1>1, <1>4 DEF ReservedInv, Shape
    <2>2. tx[u].inputs \cap tx[t].inputs = {}
      BY <2>1 DEF ReservedInv, OwnCoins, Threads
    <2>3. tx[u].inputs \cap reserved = {}
      BY <2>1 DEF ReservedInv, StillFree
    <2> QED
      BY <1>1, <2>2, <2>3
  <1>5. StillFree'
    BY <1>1, <1>4 DEF StillFree
  <1>6. reserved' = InputsOf(pending')
    BY <1>1 DEF ReservedInv, ReservedOnce, InputsOf
  <1>7. \A a \in pending : a.inputs \cap tx[t].inputs = {}
    BY <1>2 DEF ReservedInv, ReservedOnce, InputsOf
  <1>8. ReservedOnce'
    BY <1>1, <1>6, <1>7 DEF ReservedInv, ReservedOnce
  <1> QED
    BY <1>3, <1>5, <1>8 DEF ReservedInv

LEMMA BuildKeeps ==
  ASSUME ReservedInv, NEW t \in Threads, BuildBlock(t)
  PROVE  ReservedInv'
  <1>1. UNCHANGED <<coins, tx, inbox>>
    BY DEF BuildBlock, network
  <1>2. CASE pending' = {} /\ reserved' = Release(pending) /\ Goto(t, "track")
    <2>1. pending' = pending \ pending
      BY <1>2
    <2> QED
      BY <1>1, <1>2, <2>1, Releases DEF Goto, Labels
  <1>3. CASE UNCHANGED <<pending, reserved>> /\ Goto(t, "idle")
    BY <1>1, <1>3, MovesOn DEF Goto, Labels
  <1> QED
    BY <1>2, <1>3 DEF BuildBlock

LEMMA AddBlockKeeps ==
  ASSUME ReservedInv, NEW t \in Threads, AddBlock(t)
  PROVE  ReservedInv'
  <1>1. UNCHANGED <<coins, tx, inbox>> /\ Goto(t, "wallet")
    BY DEF AddBlock, network
  <1>2. CASE pending' = pending \ block[t].txs /\ reserved' = Release(block[t].txs)
    BY <1>1, <1>2, Releases DEF Goto, Labels
  <1>3. CASE UNCHANGED <<pending, reserved>>
    BY <1>1, <1>3, MovesOn DEF Goto, Labels
  <1> QED
    BY <1>2, <1>3 DEF AddBlock

LEMMA WalletKeeps ==
  ASSUME ReservedInv, NEW t \in Threads, UpdateWallet(t)
  PROVE  ReservedInv'
  <1>1. UNCHANGED <<tx, inbox, pending, reserved>>
    BY DEF UpdateWallet, network
  <1>2. CASE Goto(t, "utxo") /\ UNCHANGED coins
    BY <1>1, <1>2, MovesOn DEF Goto, Labels
  <1>3. CASE UNCHANGED pc /\ \E m \in todo : coins' = CoinsAfter(m)
    <2>1. OwnCoins'
      BY <1>1, <1>3, MineIsMine DEF ReservedInv, OwnCoins, CoinsAfter
    <2>2. Shape' /\ StillFree' /\ ReservedOnce'
      BY <1>1, <1>3 DEF ReservedInv, Shape, StillFree, ReservedOnce, InputsOf
    <2> QED
      BY <2>1, <2>2 DEF ReservedInv
  <1> QED
    BY <1>2, <1>3 DEF UpdateWallet

-----------------------------------------------------------------------------
LEMMA ReservedInit == Init => ReservedInv
  <1> SUFFICES ASSUME Init PROVE ReservedInv
    OBVIOUS
  <1>1. Shape
    BY DEF Init, Shape, Labels
  <1>2. OwnCoins
    BY MineIsMine DEF Init, OwnCoins, NoTx, Threads
  <1>3. StillFree /\ ReservedOnce
    BY DEF Init, StillFree, ReservedOnce, InputsOf
  <1> QED
    BY <1>1, <1>2, <1>3 DEF ReservedInv

LEMMA ReservedStep ==
  ASSUME ReservedInv, \A c, d \in Callers : c = d, [Next]_vars
  PROVE  ReservedInv'
  <1>1. CASE \E o \in utxo : PeerPays(o)
    BY <1>1, PeerPaysKeeps
  <1>2. ASSUME NEW t \in Threads, CreateTransaction(t) \/ ReceiveTransaction(t)
        PROVE  ReservedInv'
    BY <1>2, CreateKeeps, ReceiveKeeps
  <1>3. ASSUME NEW t \in Threads, HandleTransaction(t)
        PROVE  ReservedInv'
    <2>1. CASE Verify(t)
      BY <2>1, MovesOn DEF Goto, Labels, Verify, shared, network
    <2>2. CASE CheckLocked(t)
      BY <2>2, MovesOn DEF Goto, Labels, CheckLocked, shared, network
    <2>3. CASE AddTransaction(t)
      BY <2>3, AddKeeps
    <2>4. CASE LookAtView(t)
      BY <2>4, MovesOn DEF Goto, Labels, LookAtView, shared, network
    <2>5. CASE BuildBlock(t)
      BY <2>5, BuildKeeps
    <2>6. CASE TrackProposal(t)
      BY <2>6, MovesOn DEF Goto, Labels, TrackProposal, network
    <2>7. CASE Announce(t)
      BY <2>7, MovesOn DEF Goto, Labels, Announce, shared
    <2> QED
      BY <1>3, <2>1, <2>2, <2>3, <2>4, <2>5, <2>6, <2>7 DEF HandleTransaction
  <1>4. ASSUME NEW t \in Threads, HandleBlock(t)
        PROVE  ReservedInv'
    <2>1. CASE OnPreprepare(t)
      BY <2>1 DEF OnPreprepare, ReservedInv, Shape, OwnCoins, StillFree, ReservedOnce, InputsOf
    <2>2. CASE OnCommit(t)
      BY <2>2, MovesOn DEF Goto, Labels, OnCommit
    <2>3. CASE AddBlock(t)
      BY <2>3, AddBlockKeeps
    <2>4. CASE UpdateWallet(t)
      BY <2>4, WalletKeeps
    <2>5. CASE AddBlockToUtxo(t)
      BY <2>5, MovesOn DEF Goto, Labels, AddBlockToUtxo, network
    <2>6. CASE IncrementView(t)
      BY <2>6, MovesOn DEF Goto, Labels, IncrementView
    <2> QED
      BY <1>4, <2>1, <2>2, <2>3, <2>4, <2>5, <2>6 DEF HandleBlock
  <1>5. CASE UNCHANGED vars
    BY <1>5 DEF vars, shared, network, ReservedInv, Shape, OwnCoins, StillFree, ReservedOnce,
       InputsOf
  <1> QED
    BY <1>1, <1>2, <1>3, <1>4, <1>5 DEF Next

\* With one user thread, every reserved outpoint is reserved by exactly one pending
\* transaction, and nothing else is reserved, although the user's dispatch takes no
\* handler lock (FullNode::createAndBroadcastTransaction).
THEOREM ReservationsExact ==
  ASSUME \A c, d \in Callers : c = d
  PROVE  Spec => []ReservedOnce
  <1>1. Init => ReservedInv
    BY ReservedInit
  <1>2. ReservedInv /\ [Next]_vars => ReservedInv'
    BY ReservedStep
  <1>3. ReservedInv => ReservedOnce
    BY DEF ReservedInv
  <1> QED
    BY <1>1, <1>2, <1>3, PTL DEF Spec
-----------------------------------------------------------------------------
(* One thread at a time *)

\* Every transaction has a number of its own, which its outputs bear, and spends something.
SentSound ==
  /\ IsFiniteSet(sent)
  /\ \A a \in sent : a.id \in 1 .. Created /\ a.inputs # {} /\ \A o \in a.outputs : o.tx = a.id
  /\ \A a, b \in sent : a.id = b.id => a = b

\* The node works on transactions that have been sent.
KnownTransactions ==
  /\ inbox \subseteq sent /\ pending \subseteq sent
  /\ \A t \in Threads : pc[t] \in {"verify", "check", "add"} => tx[t] \in sent
  /\ \A t \in Threads : block[t].txs \subseteq sent
  /\ \A d \in decisions : d.block.txs \subseteq sent

\* Only the receive thread puts a block on the chain.
BlockSteps == {"addBlock", "wallet", "utxo", "leave"}
BlocksByReceiver == \A t \in Threads : pc[t] \in BlockSteps => t = Receiver

\* U is what the transactions A leave unspent, which spend only what was there.
Replays(A, U) ==
  /\ U = (Genesis \cup OutputsOf(A)) \ InputsOf(A)
  /\ InputsOf(A) \subseteq Genesis \cup OutputsOf(A)
UtxoReplays == \E A \in SUBSET sent : Replays(A, utxo)

OneInside == \A a, b \in Inside(pc) : a = b

\* The view and the chain move together, and only the round of the view is open.
RoundsAlone ==
  /\ view \in Nat
  /\ height = IF pc[Receiver] \in {"wallet", "utxo", "leave"} THEN view + 2 ELSE view + 1
  /\ open \subseteq IF Settled THEN {<<view, height>>} ELSE {}
  /\ \A t \in Threads : pc[t] \in {"track", "announce"} => block[t].index = height
  /\ base.height = view + 1
  /\ pc[Receiver] # "leave" => base.utxo = utxo

\* What the followers agree on in a view is valid as long as the view lasts.
DecisionsAlone ==
  /\ \A d \in decisions :
        /\ d.view \in Nat /\ d.view <= view
        /\ d.view = view => /\ d.block.index = base.height
                            /\ InputsOf(d.block.txs) \subseteq base.utxo
  /\ pc[Receiver] \in {"addBlock", "wallet", "utxo"} => InputsOf(block[Receiver].txs) \subseteq utxo
  /\ pc[Receiver] = "addBlock" => block[Receiver].index = height

\* The wallet has followed the transactions of the block that are not left to do.
WalletAlone ==
  IF pc[Receiver] \in {"wallet", "utxo"}
  THEN LET done == block[Receiver].txs \ todo
       IN  /\ todo \subseteq block[Receiver].txs
           /\ pc[Receiver] = "utxo" => todo = {}
           /\ coins = Mine((utxo \cup OutputsOf(done)) \ InputsOf(done))
  ELSE coins = Mine(utxo)

Alone == UtxoReplays /\ OneInside /\ RoundsAlone /\ DecisionsAlone /\ WalletAlone

Shapes ==
  /\ pc \in [Threads -> Labels]
  /\ tx = [t \in Threads |-> tx[t]]
  /\ block = [t \in Threads |-> block[t]]

General == Shapes /\ SentSound /\ KnownTransactions /\ BlocksByReceiver

AloneInv == General /\ (~overlap => Alone)

-----------------------------------------------------------------------------
(* Transactions and what is left unspent *)

\* A block whose inputs are unspent spends nothing of its own, and updating the unspent
\* outpoints replays it.
LEMMA ReplayBlock ==
  ASSUME SentSound, NEW A \in SUBSET sent, NEW B \in SUBSET sent, NEW U, Replays(A, U),
         InputsOf(B) \subseteq U
  PROVE  /\ InputsOf(B) \cap OutputsOf(B) = {} /\ U \cap OutputsOf(B) = {}
         /\ Replays(A \cup B, (U \cup OutputsOf(B)) \ InputsOf(B))
  <1>1. InputsOf(A) \cap InputsOf(B) = {}
    BY DEF Replays
  <1>2. A \cap B = {}
    BY <1>1 DEF SentSound, InputsOf
  <1>3. OutputsOf(B) \cap (Genesis \cup OutputsOf(A)) = {}
    <2> SUFFICES ASSUME NEW b \in B, NEW o \in b.outputs, o \in Genesis \cup OutputsOf(A)
                 PROVE  FALSE
      BY DEF OutputsOf
    <2>1. o.tx = b.id /\ b.id \in 1 .. Created
      BY DEF SentSound
    <2>2. o \notin Genesis
      BY <2>1, GenesisAssumption
    <2>3. PICK a \in A : o \in a.outputs
      BY <2>2 DEF OutputsOf
    <2>4. o.tx = a.id
      BY <2>3 DEF SentSound
    <2> QED
      BY <1>2, <2>1, <2>4 DEF SentSound
  <1>4. /\ InputsOf(B) \cap OutputsOf(B) = {} /\ InputsOf(A) \cap OutputsOf(B) = {}
        /\ U \cap OutputsOf(B) = {}
    BY <1>3 DEF Replays
  <1>5. InputsOf(A \cup B) = InputsOf(A) \cup InputsOf(B)
        /\ OutputsOf(A \cup B) = OutputsOf(A) \cup OutputsOf(B)
    BY DEF InputsOf, OutputsOf
  <1> QED
    BY <1>1, <1>4, <1>5 DEF Replays

LEMMA ReplaysKept ==
  ASSUME UtxoReplays, UNCHANGED utxo, sent \subseteq sent'
  PROVE  UtxoReplays'
  BY DEF UtxoReplays

\* A new transaction has the next number.
LEMMA SentGrows ==
  ASSUME SentSound, NEW new, new.id = Created + 1, new.inputs # {},
         \A o \in new.outputs : o.tx = new.id, sent' = sent \cup {new}
  PROVE  SentSound'
  <1>1. Created \in Nat
    BY FS_CardinalityType DEF SentSound, Created
  <1>2. new \notin sent
    BY <1>1 DEF SentSound
  <1>3. IsFiniteSet(sent') /\ Created' = Created + 1
    BY <1>2, FS_AddElement DEF SentSound, Created
  <1> QED
    BY <1>1, <1>2, <1>3 DEF SentSound

LEMMA SentKept ==
  ASSUME SentSound, UNCHANGED sent
  PROVE  SentSound'
  BY DEF SentSound, Created

-----------------------------------------------------------------------------
(* What holds of every step *)

LEMMA GeneralCreate ==
  ASSUME General, NEW t \in Threads, CreateTransaction(t)
  PROVE  General' /\ sent \subseteq sent'
  <1>0. PICK amount \in Amounts : \E inputs \in SelectUTXOs(coins \ reserved, amount) :
           /\ tx' = [tx EXCEPT ![t] = Payment(Created + 1, inputs, amount)]
           /\ sent' = sent \cup {Payment(Created + 1, inputs, amount)}
    BY DEF CreateTransaction
  <1>1. PICK inputs \in SelectUTXOs(coins \ reserved, amount) :
           /\ tx' = [tx EXCEPT ![t] = Payment(Created + 1, inputs, amount)]
           /\ sent' = sent \cup {Payment(Created + 1, inputs, amount)}
    BY <1>0
  <1>2. PICK new : new = Payment(Created + 1, inputs, amount)
    OBVIOUS
  <1>3. /\ new.id = Created + 1 /\ new.inputs = inputs /\ inputs # {}
        /\ \A o \in new.outputs : o.tx = new.id
    BY <1>2 DEF Payment, SelectUTXOs
  <1>4. sent' = sent \cup {new} /\ tx' = [tx EXCEPT ![t] = new]
    BY <1>1, <1>2
  <1>5. SentSound'
    BY <1>3, <1>4, SentGrows DEF General
  <1>6. pc' = [pc EXCEPT ![t] = "verify"] /\ UNCHANGED <<block, inbox, decisions, pending>>
    BY DEF CreateTransaction, Goto, shared
  <1>7. Shapes' /\ BlocksByReceiver'
    BY <1>4, <1>6 DEF General, Shapes, Labels, BlocksByReceiver, BlockSteps
  <1>8. KnownTransactions'
    BY <1>4, <1>6 DEF General, Shapes, KnownTransactions
  <1> QED
    BY <1>4, <1>5, <1>7, <1>8 DEF General

LEMMA GeneralPeerPays ==
  ASSUME General, NEW o \in utxo, PeerPays(o)
  PROVE  General' /\ sent \subseteq sent'
  <1> DEFINE new == [id |-> Created + 1, inputs |-> {o},
                     outputs |-> {[tx |-> Created + 1, index |-> 0, value |-> o.value, mine |-> TRUE]}]
  <1>1. sent' = sent \cup {new} /\ inbox' = inbox \cup {new}
        /\ UNCHANGED <<pc, tx, block, decisions, pending>>
    BY DEF PeerPays, shared
  <1>2. new.id = Created + 1 /\ new.inputs # {} /\ \A a \in new.outputs : a.tx = new.id
    OBVIOUS
  <1> HIDE DEF new
  <1>3. PICK n : n = new
    OBVIOUS
  <1>4. SentSound'
    BY <1>1, <1>2, <1>3, SentGrows DEF General
  <1>5. Shapes' /\ BlocksByReceiver' /\ KnownTransactions'
    BY <1>1 DEF General, Shapes, BlocksByReceiver, KnownTransactions
  <1> QED
    BY <1>1, <1>4, <1>5 DEF General

\* Steps that send nothing, put at most known transactions into the mempool and a block,
\* and start a block only on the receive thread.
LEMMA GeneralMoves ==
  ASSUME General, NEW t \in Threads, NEW label \in Labels, pc' = [pc EXCEPT ![t] = label],
         label \in BlockSteps => t = Receiver,
         label \in {"check", "add"} => pc[t] \in {"verify", "check", "add"},
         label # "verify", UNCHANGED <<tx, sent>>, inbox' \subseteq inbox,
         pending' \subseteq sent,
         block' = block \/ \E b : b.txs \subseteq sent /\ block' = [block EXCEPT ![t] = b],
         \A d \in decisions' \ decisions : d.block.txs \subseteq sent
  PROVE  General'
  <1>1. SentSound'
    BY SentKept DEF General
  <1>2. Shapes' /\ BlocksByReceiver'
    BY DEF General, Shapes, BlocksByReceiver, BlockSteps
  <1>3. KnownTransactions'
    BY DEF General, Shapes, KnownTransactions
  <1> QED
    BY <1>1, <1>2, <1>3 DEF General

\* Steps of a thread that stays where it is.
LEMMA GeneralStays ==
  ASSUME General, UNCHANGED <<pc, tx, block, sent, inbox, pending>>,
         \A d \in decisions' \ decisions : d.block.txs \subseteq sent
  PROVE  General'
  <1>1. SentSound'
    BY SentKept DEF General
  <1>2. Shapes' /\ BlocksByReceiver' /\ KnownTransactions'
    BY DEF General, Shapes, BlocksByReceiver, KnownTransactions
  <1> QED
    BY <1>1, <1>2 DEF General

LEMMA GeneralReceive ==
  ASSUME General, NEW t \in Threads, ReceiveTransaction(t)
  PROVE  General'
  <1>1. PICK m \in inbox : tx' = [tx EXCEPT ![t] = m] /\ inbox' = inbox \ {m}
    BY DEF ReceiveTransaction
  <1>2. pc' = [pc EXCEPT ![t] = "verify"] /\ UNCHANGED <<pending, block, sent, decisions>>
    BY DEF ReceiveTransaction, Goto, shared
  <1>3. SentSound'
    BY <1>2, SentKept DEF General
  <1>4. Shapes' /\ BlocksByReceiver'
    BY <1>1, <1>2 DEF General, Shapes, Labels, BlocksByReceiver, BlockSteps
  <1>5. KnownTransactions'
    BY <1>1, <1>2 DEF General, Shapes, KnownTransactions
  <1> QED
    BY <1>3, <1>4, <1>5 DEF General

LEMMA GeneralHandleTransaction ==
  ASSUME General, NEW t \in Threads, HandleTransaction(t)
  PROVE  General'
  <1> USE DEF Goto, Labels, BlockSteps
  <1>1. CASE Verify(t)
    BY <1>1, GeneralMoves DEF Verify, shared, network, General, KnownTransactions
  <1>2. CASE CheckLocked(t)
    BY <1>2, GeneralMoves DEF CheckLocked, shared, network, General, KnownTransactions
  <1>3. CASE AddTransaction(t)
    <2>1. pending' \subseteq sent
      BY <1>3 DEF AddTransaction, General, KnownTransactions
    <2> QED
      BY <1>3, <2>1, GeneralMoves DEF AddTransaction, network
  <1>4. CASE LookAtView(t)
    BY <1>4, GeneralMoves DEF LookAtView, shared, network, General, KnownTransactions
  <1>5. CASE BuildBlock(t)
    <2>1. pending \subseteq sent
      BY DEF General, KnownTransactions
    <2>2. CASE /\ block' = [block EXCEPT ![t] = [index |-> height, txs |-> pending]]
               /\ pending' = {} /\ Goto(t, "track")
      <3>1. PICK b : b = [index |-> height, txs |-> pending]
        OBVIOUS
      <3>2. b.txs \subseteq sent /\ block' = [block EXCEPT ![t] = b]
        BY <2>1, <2>2, <3>1
      <3> QED
        BY <1>5, <2>2, <3>2, GeneralMoves DEF BuildBlock, network
    <2>3. CASE Goto(t, "idle") /\ UNCHANGED <<block, pending>>
      BY <1>5, <2>1, <2>3, GeneralMoves DEF BuildBlock, network
    <2> QED
      BY <1>5, <2>2, <2>3 DEF BuildBlock
  <1>6. CASE TrackProposal(t)
    BY <1>6, GeneralMoves DEF TrackProposal, network, General, KnownTransactions
  <1>7. CASE Announce(t)
    <2>1. \A d \in decisions' \ decisions : d.block.txs \subseteq sent
      BY <1>7 DEF Announce, General, KnownTransactions
    <2> QED
      BY <1>7, <2>1, GeneralMoves DEF Announce, shared, General, KnownTransactions
  <1> QED
    BY <1>1, <1>2, <1>3, <1>4, <1>5, <1>6, <1>7 DEF HandleTransaction

LEMMA GeneralHandleBlock ==
  ASSUME General, NEW t \in Threads, HandleBlock(t)
  PROVE  General' /\ UNCHANGED sent
  <1> USE DEF Goto, Labels, BlockSteps
  <1>1. UNCHANGED sent
    BY DEF HandleBlock, OnPreprepare, OnCommit, AddBlock, UpdateWallet, AddBlockToUtxo,
           IncrementView, network
  <1>2. CASE OnPreprepare(t)
    <2>1. \A d \in decisions' \ decisions : d.block.txs \subseteq sent
      BY <1>2 DEF OnPreprepare
    <2> QED
      BY <1>2, <2>1, GeneralStays DEF OnPreprepare
  <1>3. CASE OnCommit(t)
    <2>1. PICK d \in decisions : block' = [block EXCEPT ![t] = d.block] /\ decisions' = decisions \ {d}
      BY <1>3 DEF OnCommit
    <2>2. d.block.txs \subseteq sent
      BY DEF General, KnownTransactions
    <2> QED
      BY <1>3, <2>1, <2>2, GeneralMoves DEF OnCommit, General, KnownTransactions
  <1>4. CASE AddBlock(t)
    <2>1. t = Receiver /\ pending' \subseteq sent
      BY <1>4 DEF AddBlock, General, KnownTransactions, BlocksByReceiver
    <2> QED
      BY <1>4, <2>1, GeneralMoves DEF AddBlock, network
  <1>5. CASE UpdateWallet(t)
    <2>1. t = Receiver /\ pending \subseteq sent
      BY <1>5 DEF UpdateWallet, General, KnownTransactions, BlocksByReceiver
    <2>2. CASE UNCHANGED pc
      BY <1>5, <2>2, GeneralStays DEF UpdateWallet, network
    <2>3. CASE Goto(t, "utxo")
      BY <1>5, <2>1, <2>3, GeneralMoves DEF UpdateWallet, network
    <2> QED
      BY <1>5, <2>2, <2>3 DEF UpdateWallet
  <1>6. CASE AddBlockToUtxo(t)
    <2>1. t = Receiver /\ pending \subseteq sent
      BY <1>6 DEF AddBlockToUtxo, General, KnownTransactions, BlocksByReceiver
    <2> QED
      BY <1>6, <2>1, GeneralMoves DEF AddBlockToUtxo, network
  <1>7. CASE IncrementView(t)
    BY <1>7, GeneralMoves DEF IncrementView, General, KnownTransactions
  <1> QED
    BY <1>1, <1>2, <1>3, <1>4, <1>5, <1>6, <1>7 DEF HandleBlock

-----------------------------------------------------------------------------
(* What holds as long as the threads do not overlap *)

LEMMA ReceiverIsThread == Receiver \in Threads
  BY DEF Threads

\* A thread inside onNewTransaction shuts the receive thread out of a block.
LEMMA InsideSettled ==
  ASSUME General, OneInside, NEW t \in Threads, t \in Inside(pc), pc[t] \notin BlockSteps
  PROVE  Settled
  <1> SUFFICES ASSUME pc[Receiver] \in BlockSteps PROVE FALSE
    BY DEF Settled, BlockSteps
  <1>1. Receiver \in Inside(pc)
    BY ReceiverIsThread DEF Inside, BlockSteps
  <1>2. t = Receiver
    BY <1>1 DEF OneInside
  <1> QED
    BY <1>2

\* A step of a thread outside the steps that put a block on the chain.
LEMMA AloneMoves ==
  ASSUME AloneInv, ~overlap', NEW t \in Threads, NEW label \in Labels \ BlockSteps,
         Goto(t, label), pc[t] \notin BlockSteps,
         UNCHANGED <<view, height, coins, utxo, todo, base>>, sent \subseteq sent',
         open' \subseteq (IF Settled THEN {<<view, height>>} ELSE {}),
         \A u \in Threads \ {t} : block'[u] = block[u],
         label \in {"track", "announce"} => block'[t].index = height,
         \A d \in decisions' \ decisions :
            d.view = view /\ d.block.index = base.height /\ InputsOf(d.block.txs) \subseteq base.utxo
  PROVE  Alone'
  <1>1. General /\ Alone /\ ~overlap
    BY DEF AloneInv, Goto
  <1>2. pc'[t] = label /\ \A u \in Threads \ {t} : pc'[u] = pc[u]
    BY <1>1 DEF Goto, General, Shapes
  <1>3. OneInside'
    BY DEF Goto, OneInside
  <1>4. \/ pc'[Receiver] = pc[Receiver] /\ block'[Receiver] = block[Receiver]
        \/ pc[Receiver] \notin BlockSteps /\ pc'[Receiver] \notin BlockSteps
    BY <1>2, ReceiverIsThread
  <1>5. Settled' = Settled
    BY <1>4 DEF Settled, BlockSteps
  <1>6. UtxoReplays'
    BY <1>1, ReplaysKept DEF Alone
  <1>7. RoundsAlone'
    <2>1. \A u \in Threads : pc'[u] \in {"track", "announce"} => block'[u].index = height'
      BY <1>1, <1>2 DEF Alone, RoundsAlone
    <2>2. height' = IF pc'[Receiver] \in {"wallet", "utxo", "leave"} THEN view' + 2 ELSE view' + 1
      BY <1>1, <1>4 DEF Alone, RoundsAlone, BlockSteps
    <2>3. pc'[Receiver] # "leave" => base'.utxo = utxo'
      BY <1>1, <1>4 DEF Alone, RoundsAlone, BlockSteps
    <2>4. open' \subseteq IF Settled' THEN {<<view', height'>>} ELSE {}
      BY <1>5
    <2> QED
      BY <1>1, <2>1, <2>2, <2>3, <2>4 DEF Alone, RoundsAlone
  <1>8. DecisionsAlone'
    <2>1. view \in Nat
      BY <1>1 DEF Alone, RoundsAlone
    <2> QED
      BY <1>1, <1>4, <2>1 DEF Alone, DecisionsAlone, BlockSteps
  <1>9. WalletAlone'
    BY <1>1, <1>4 DEF Alone, WalletAlone, BlockSteps
  <1> QED
    BY <1>3, <1>6, <1>7, <1>8, <1>9 DEF Alone

\* A step that moves no thread.
LEMMA AloneStays ==
  ASSUME AloneInv, ~overlap, UNCHANGED <<pc, block, view, height, coins, utxo, todo, base>>,
         sent \subseteq sent', open' \subseteq (IF Settled THEN {<<view, height>>} ELSE {}),
         \A d \in decisions' \ decisions :
            d.view = view /\ d.block.index = base.height /\ InputsOf(d.block.txs) \subseteq base.utxo
  PROVE  Alone'
  <1>1. Alone
    BY DEF AloneInv
  <1>2. UtxoReplays'
    BY <1>1, ReplaysKept DEF Alone
  <1>3. RoundsAlone' /\ OneInside'
    BY <1>1 DEF Alone, RoundsAlone, OneInside, Inside, Settled
  <1>4. DecisionsAlone' /\ WalletAlone'
    BY <1>1 DEF Alone, RoundsAlone, DecisionsAlone, WalletAlone
  <1> QED
    BY <1>2, <1>3, <1>4 DEF Alone

LEMMA AloneOpen ==
  ASSUME AloneInv, ~overlap
  PROVE  open \subseteq (IF Settled THEN {<<view, height>>} ELSE {})
  BY DEF AloneInv, Alone, RoundsAlone

LEMMA AloneHandleTransaction ==
  ASSUME AloneInv, ~overlap', NEW t \in Threads, HandleTransaction(t)
  PROVE  Alone'
  <1>1. ~overlap /\ General /\ Alone
    BY DEF HandleTransaction, Verify, CheckLocked, AddTransaction, LookAtView, BuildBlock,
           TrackProposal, Announce, Goto, AloneInv
  <1>2. open \subseteq (IF Settled THEN {<<view, height>>} ELSE {})
    BY <1>1, AloneOpen
  <1> USE DEF Labels, BlockSteps
  <1>3. CASE Verify(t)
    BY <1>2, <1>3, AloneMoves DEF Verify, shared, network
  <1>4. CASE CheckLocked(t)
    BY <1>2, <1>4, AloneMoves DEF CheckLocked, shared, network
  <1>5. CASE AddTransaction(t)
    BY <1>2, <1>5, AloneMoves DEF AddTransaction, network
  <1>6. CASE LookAtView(t)
    BY <1>2, <1>6, AloneMoves DEF LookAtView, shared, network
  <1>7. CASE BuildBlock(t)
    <2>1. CASE block' = [block EXCEPT ![t] = [index |-> height, txs |-> pending]] /\ Goto(t, "track")
      <3>1. block'[t].index = height /\ \A u \in Threads \ {t} : block'[u] = block[u]
        BY <1>1, <2>1 DEF General, Shapes
      <3> QED
        BY <1>2, <1>7, <2>1, <3>1, AloneMoves DEF BuildBlock, network
    <2>2. CASE UNCHANGED block /\ Goto(t, "idle")
      BY <1>2, <1>7, <2>2, AloneMoves DEF BuildBlock, network
    <2> QED
      BY <1>7, <2>1, <2>2 DEF BuildBlock
  <1>8. CASE TrackProposal(t)
    <2>1. pc[t] = "track" /\ t \in Inside(pc)
      BY <1>8 DEF TrackProposal, Inside
    <2>2. Settled /\ block[t].index = height
      BY <1>1, <2>1, InsideSettled DEF Alone, RoundsAlone
    <2>3. open' \subseteq (IF Settled THEN {<<view, height>>} ELSE {})
      BY <1>2, <1>8, <2>2 DEF TrackProposal
    <2> QED
      BY <1>8, <2>1, <2>2, <2>3, AloneMoves DEF TrackProposal, network
  <1>9. CASE Announce(t)
    <2>1. \A d \in decisions' \ decisions :
            d.view = view /\ d.block.index = base.height /\ InputsOf(d.block.txs) \subseteq base.utxo
      BY <1>9 DEF Announce
    <2> QED
      BY <1>2, <1>9, <2>1, AloneMoves DEF Announce, shared
  <1> QED
    BY <1>3, <1>4, <1>5, <1>6, <1>7, <1>8, <1>9 DEF HandleTransaction

LEMMA AloneOther ==
  ASSUME AloneInv, ~overlap',
         \/ \E t \in Threads : CreateTransaction(t) \/ ReceiveTransaction(t) \/ OnPreprepare(t)
         \/ \E o \in utxo : PeerPays(o)
         \/ UNCHANGED vars
  PROVE  Alone'
  <1>1. ~overlap /\ General /\ Alone
    <2>1. ASSUME NEW t \in Threads, CreateTransaction(t) PROVE ~overlap
      BY <2>1 DEF CreateTransaction, Goto
    <2>2. ASSUME NEW t \in Threads, ReceiveTransaction(t) \/ OnPreprepare(t) PROVE ~overlap
      BY <2>2 DEF ReceiveTransaction, OnPreprepare, Goto
    <2>3. ASSUME NEW o \in utxo, PeerPays(o) PROVE ~overlap
      BY <2>3 DEF PeerPays
    <2>4. CASE UNCHANGED vars
      BY <2>4 DEF vars, AloneInv
    <2> QED
      BY <2>1, <2>2, <2>3, <2>4 DEF AloneInv
  <1>2. open \subseteq (IF Settled THEN {<<view, height>>} ELSE {})
    BY <1>1, AloneOpen
  <1>3. ASSUME NEW t \in Threads, CreateTransaction(t) PROVE Alone'
    <2>1. pc[t] = "idle" /\ Goto(t, "verify") /\ sent \subseteq sent'
          /\ UNCHANGED <<shared, block, todo, decisions, base>>
      BY <1>3 DEF CreateTransaction
    <2> QED
      BY <1>2, <2>1, AloneMoves DEF shared, Labels, BlockSteps
  <1>4. ASSUME NEW t \in Threads, ReceiveTransaction(t) PROVE Alone'
    <2>1. pc[t] = "idle" /\ Goto(t, "verify") /\ UNCHANGED <<shared, block, todo, sent, decisions, base>>
      BY <1>4 DEF ReceiveTransaction
    <2> QED
      BY <1>2, <2>1, AloneMoves DEF shared, Labels, BlockSteps
  <1>5. ASSUME NEW t \in Threads, OnPreprepare(t) PROVE Alone'
    <2>1. pc[Receiver] = "idle"
      BY <1>5 DEF OnPreprepare
    <2>2. Settled /\ height = base.height /\ base.utxo = utxo
      BY <1>1, <2>1 DEF Settled, Alone, RoundsAlone
    <2>3. open' \subseteq (IF Settled THEN {<<view, height>>} ELSE {})
      BY <1>2, <1>5, <2>2 DEF OnPreprepare
    <2>4. \A d \in decisions' \ decisions :
            d.view = view /\ d.block.index = base.height /\ InputsOf(d.block.txs) \subseteq base.utxo
      BY <1>5, <2>2 DEF OnPreprepare
    <2> QED
      BY <1>1, <1>5, <2>3, <2>4, AloneStays DEF OnPreprepare
  <1>6. ASSUME NEW o \in utxo, PeerPays(o) PROVE Alone'
    BY <1>1, <1>2, <1>6, AloneStays DEF PeerPays, shared
  <1>7. CASE UNCHANGED vars
    BY <1>1, <1>2, <1>7, AloneStays DEF vars, shared, network
  <1> QED
    BY <1>3, <1>4, <1>5, <1>6, <1>7

-----------------------------------------------------------------------------
(* The steps that put a block on the chain *)

\* Only the receive thread is inside a handler then, before the step and after it.
LEMMA BlockStep ==
  ASSUME AloneInv, ~overlap', NEW t \in Threads, pc[t] \in BlockSteps,
         NEW label \in Labels, Goto(t, label)
  PROVE  /\ ~overlap /\ General /\ Alone /\ t = Receiver
         /\ pc'[Receiver] = label /\ \A u \in Threads \ {Receiver} : pc'[u] = pc[u]
         /\ \A u \in Threads \ {Receiver} : pc'[u] \in {"idle", "verify"}
         /\ OneInside'
  <1>1. ~overlap /\ General /\ Alone
    BY DEF AloneInv, Goto
  <1>2. t = Receiver
    BY <1>1 DEF General, BlocksByReceiver
  <1>3. pc'[Receiver] = label /\ \A u \in Threads \ {Receiver} : pc'[u] = pc[u]
    BY <1>1, <1>2 DEF General, Shapes, Goto
  <1>4. Receiver \in Inside(pc)
    BY <1>2 DEF Inside, BlockSteps
  <1>5. \A u \in Threads \ {Receiver} : u \notin Inside(pc)
    BY <1>1, <1>4 DEF Alone, OneInside
  <1>6. \A u \in Threads \ {Receiver} : pc'[u] \in {"idle", "verify"}
    BY <1>3, <1>5 DEF Inside
  <1>7. OneInside'
    BY DEF Goto, OneInside
  <1> QED
    BY <1>1, <1>2, <1>3, <1>6, <1>7

LEMMA AloneOnCommit ==
  ASSUME AloneInv, ~overlap', NEW t \in Threads, OnCommit(t)
  PROVE  Alone'
  <1>1. t = Receiver /\ pc[Receiver] = "idle" /\ Goto(Receiver, "addBlock")
        /\ UNCHANGED <<view, height, coins, utxo, todo, base, sent>>
    BY DEF OnCommit
  <1>2. ~overlap /\ General /\ Alone
    BY <1>1 DEF AloneInv, Goto
  <1>3. PICK d \in decisions :
           /\ <<d.view, d.block.index>> \in open
           /\ open' = SetCommitted(<<d.view, d.block.index>>)
           /\ block' = [block EXCEPT ![Receiver] = d.block]
           /\ decisions' = decisions \ {d}
    BY <1>1 DEF OnCommit
  <1>4. open \subseteq {<<view, height>>}
    BY <1>1, <1>2, AloneOpen DEF Settled
  <1>5. d.view = view /\ d.block.index = height /\ open' = {}
    BY <1>3, <1>4 DEF SetCommitted
  <1>6. pc'[Receiver] = "addBlock" /\ block'[Receiver] = d.block
    BY <1>1, <1>2, <1>3, ReceiverIsThread DEF General, Shapes, Goto
  <1>7. OneInside' /\ Receiver \in Inside(pc')
    BY <1>1, <1>6, ReceiverIsThread DEF Goto, OneInside, Inside
  <1>8. \A u \in Threads : pc'[u] \notin {"track", "announce"}
    BY <1>6, <1>7 DEF OneInside, Inside
  <1>9. base.utxo = utxo /\ height = view + 1
    BY <1>1, <1>2 DEF Alone, RoundsAlone
  <1>10. UtxoReplays'
    BY <1>1, <1>2, ReplaysKept DEF Alone
  <1>11. RoundsAlone'
    BY <1>1, <1>2, <1>5, <1>6, <1>8, <1>9 DEF Alone, RoundsAlone
  <1>12. DecisionsAlone'
    BY <1>1, <1>2, <1>3, <1>5, <1>6, <1>9 DEF Alone, DecisionsAlone
  <1>13. WalletAlone'
    BY <1>1, <1>2, <1>6 DEF Alone, WalletAlone
  <1> QED
    BY <1>7, <1>10, <1>11, <1>12, <1>13 DEF Alone

LEMMA AloneAddBlock ==
  ASSUME AloneInv, ~overlap', NEW t \in Threads, AddBlock(t)
  PROVE  Alone'
  <1>1. pc[t] = "addBlock" /\ Goto(t, "wallet") /\ UNCHANGED <<view, coins, utxo, open, block, base,
                                                            decisions, sent>>
        /\ todo' = block[t].txs
    BY DEF AddBlock, network
  <1>2. /\ ~overlap /\ General /\ Alone /\ t = Receiver /\ OneInside'
        /\ pc'[Receiver] = "wallet"
        /\ \A u \in Threads \ {Receiver} : pc'[u] \in {"idle", "verify"}
    BY <1>1, BlockStep DEF BlockSteps, Labels
  <1>3. /\ block[Receiver].index = height /\ InputsOf(block[Receiver].txs) \subseteq utxo
        /\ height = view + 1 /\ view \in Nat
    BY <1>1, <1>2 DEF Alone, DecisionsAlone, RoundsAlone
  <1>4. height' = view + 2
    BY <1>2, <1>3 DEF AddBlock
  <1>5. open = {}
    BY <1>1, <1>2, AloneOpen DEF Settled
  <1>6. UtxoReplays'
    BY <1>1, <1>2, ReplaysKept DEF Alone
  <1>7. RoundsAlone'
    BY <1>1, <1>2, <1>3, <1>4, <1>5 DEF Alone, RoundsAlone
  <1>8. DecisionsAlone'
    BY <1>1, <1>2, <1>3 DEF Alone, DecisionsAlone
  <1>9. WalletAlone'
    <2>1. coins = Mine(utxo)
      BY <1>1, <1>2 DEF Alone, WalletAlone
    <2>2. block[Receiver].txs \ block[Receiver].txs = {}
      OBVIOUS
    <2>3. Mine((utxo \cup OutputsOf({})) \ InputsOf({})) = Mine(utxo)
      BY DEF OutputsOf, InputsOf
    <2> QED
      BY <1>1, <1>2, <2>1, <2>2, <2>3 DEF WalletAlone
  <1> QED
    BY <1>2, <1>6, <1>7, <1>8, <1>9 DEF Alone

LEMMA AloneUpdateWallet ==
  ASSUME AloneInv, ~overlap', NEW t \in Threads, UpdateWallet(t)
  PROVE  Alone'
  <1>1. pc[t] = "wallet" /\ UNCHANGED <<view, height, utxo, open, block, base, decisions, sent>>
    BY DEF UpdateWallet, network
  <1>2. ~overlap /\ General /\ Alone
    <2>1. UNCHANGED overlap \/ Goto(t, "utxo")
      BY DEF UpdateWallet
    <2>2. ~overlap
      BY <2>1 DEF Goto
    <2> QED
      BY <2>2 DEF AloneInv
  <1>3. t = Receiver
    BY <1>1, <1>2 DEF General, BlocksByReceiver, BlockSteps
  <1>4. UtxoReplays'
    BY <1>1, <1>2, ReplaysKept DEF Alone
  <1>5. CASE todo = {} /\ Goto(t, "utxo") /\ UNCHANGED <<coins, todo>>
    <2>1. /\ OneInside' /\ pc'[Receiver] = "utxo"
          /\ \A u \in Threads \ {Receiver} : pc'[u] \in {"idle", "verify"}
      BY <1>1, <1>5, BlockStep DEF BlockSteps, Labels
    <2>2. RoundsAlone' /\ DecisionsAlone'
      BY <1>1, <1>2, <1>3, <2>1 DEF Alone, RoundsAlone, DecisionsAlone, Settled
    <2>3. WalletAlone'
      BY <1>1, <1>2, <1>3, <1>5, <2>1 DEF Alone, WalletAlone
    <2> QED
      BY <1>4, <2>1, <2>2, <2>3 DEF Alone
  <1>6. ASSUME NEW m \in todo, coins' = CoinsAfter(m), todo' = todo \ {m}, UNCHANGED pc
        PROVE  Alone'
    <2> DEFINE B == block[Receiver].txs
    <2>1. OneInside' /\ RoundsAlone' /\ DecisionsAlone'
      BY <1>1, <1>2, <1>6 DEF Alone, OneInside, Inside, RoundsAlone, DecisionsAlone, Settled
    <2>2. todo \subseteq B /\ coins = Mine((utxo \cup OutputsOf(B \ todo)) \ InputsOf(B \ todo))
      BY <1>1, <1>2, <1>3 DEF Alone, WalletAlone
    <2>3. InputsOf(B) \cap OutputsOf(B) = {}
      <3>1. PICK A \in SUBSET sent : Replays(A, utxo)
        BY <1>2 DEF Alone, UtxoReplays
      <3>2. B \in SUBSET sent /\ InputsOf(B) \subseteq utxo
        BY <1>1, <1>2, <1>3, ReceiverIsThread DEF General, KnownTransactions, Alone, DecisionsAlone
      <3> QED
        BY <1>2, <3>1, <3>2, ReplayBlock DEF General
    <2>4. B \ todo' = (B \ todo) \cup {m} /\ m \in B
      BY <1>6, <2>2
    <2> HIDE DEF B
    \* The order of the transactions does not matter: none of them spends what the block creates.
    <2>5. coins' = Mine((utxo \cup OutputsOf(B \ todo')) \ InputsOf(B \ todo'))
      <3>1. PICK U, C, D : U = utxo /\ C = B /\ D = B \ todo
        OBVIOUS
      <3>2. /\ m \in C /\ D \subseteq C /\ InputsOf(C) \cap OutputsOf(C) = {}
            /\ coins = Mine((U \cup OutputsOf(D)) \ InputsOf(D))
        BY <2>2, <2>3, <2>4, <3>1
      <3>3. InputsOf(D \cup {m}) = InputsOf(D) \cup m.inputs
            /\ OutputsOf(D \cup {m}) = OutputsOf(D) \cup m.outputs
        BY DEF InputsOf, OutputsOf
      <3>4. m.outputs \cap (InputsOf(D) \cup m.inputs) = {}
        BY <3>2 DEF InputsOf, OutputsOf
      <3>5. CoinsAfter(m) = Mine((U \cup OutputsOf(D \cup {m})) \ InputsOf(D \cup {m}))
        BY <3>2, <3>3, <3>4 DEF CoinsAfter, Mine
      <3> QED
        BY <1>6, <2>4, <3>1, <3>5
    <2>6. WalletAlone'
      BY <1>1, <1>3, <1>6, <2>2, <2>5 DEF WalletAlone, B
    <2> QED
      BY <1>4, <2>1, <2>6 DEF Alone
  <1> QED
    BY <1>5, <1>6 DEF UpdateWallet

LEMMA AloneAddBlockToUtxo ==
  ASSUME AloneInv, ~overlap', NEW t \in Threads, AddBlockToUtxo(t)
  PROVE  Alone'
  <1> DEFINE B == block[Receiver].txs
  <1>1. pc[t] = "utxo" /\ Goto(t, "leave")
        /\ UNCHANGED <<view, height, coins, open, block, todo, base, decisions, sent>>
    BY DEF AddBlockToUtxo, network
  <1>2. /\ ~overlap /\ General /\ Alone /\ t = Receiver /\ OneInside'
        /\ pc'[Receiver] = "leave"
        /\ \A u \in Threads \ {Receiver} : pc'[u] \in {"idle", "verify"}
    BY <1>1, BlockStep DEF BlockSteps, Labels
  <1>3. utxo' = (utxo \cup OutputsOf(B)) \ InputsOf(B)
    BY <1>2 DEF AddBlockToUtxo
  <1>4. UtxoReplays'
    <2>1. PICK A \in SUBSET sent : Replays(A, utxo)
      BY <1>2 DEF Alone, UtxoReplays
    <2>2. B \in SUBSET sent /\ InputsOf(B) \subseteq utxo
      BY <1>1, <1>2, ReceiverIsThread DEF General, KnownTransactions, Alone, DecisionsAlone
    <2>3. Replays(A \cup B, utxo')
      BY <1>2, <1>3, <2>1, <2>2, ReplayBlock DEF General
    <2>4. A \cup B \in SUBSET sent'
      BY <1>1, <2>2
    <2> QED
      BY <2>3, <2>4 DEF UtxoReplays
  <1>5. RoundsAlone' /\ DecisionsAlone'
    BY <1>1, <1>2 DEF Alone, RoundsAlone, DecisionsAlone, Settled
  <1>6. WalletAlone'
    <2>1. todo = {} /\ coins = Mine((utxo \cup OutputsOf(B \ todo)) \ InputsOf(B \ todo))
      BY <1>1, <1>2 DEF Alone, WalletAlone
    <2>2. B \ todo = B
      BY <2>1
    <2>3. coins = Mine(utxo')
      BY <1>3, <2>1, <2>2
    <2> QED
      BY <1>1, <1>2, <2>3 DEF WalletAlone
  <1> QED
    BY <1>2, <1>4, <1>5, <1>6 DEF Alone

LEMMA AloneIncrementView ==
  ASSUME AloneInv, ~overlap', NEW t \in Threads, IncrementView(t)
  PROVE  Alone'
  <1>1. pc[t] = "leave" /\ Goto(t, "idle") /\ view' = view + 1
        /\ base' = [height |-> height, utxo |-> utxo]
        /\ UNCHANGED <<height, coins, utxo, open, block, todo, decisions, sent>>
    BY DEF IncrementView
  <1>2. /\ ~overlap /\ General /\ Alone /\ t = Receiver /\ OneInside'
        /\ pc'[Receiver] = "idle"
        /\ \A u \in Threads \ {Receiver} : pc'[u] \in {"idle", "verify"}
    BY <1>1, BlockStep DEF BlockSteps, Labels
  <1>3. view \in Nat /\ height = view + 2 /\ open = {}
    BY <1>1, <1>2, AloneOpen DEF Alone, RoundsAlone, Settled
  <1>4. UtxoReplays'
    BY <1>1, <1>2, ReplaysKept DEF Alone
  <1>5. RoundsAlone'
    BY <1>1, <1>2, <1>3 DEF RoundsAlone
  <1>6. DecisionsAlone'
    BY <1>1, <1>2, <1>3 DEF Alone, DecisionsAlone
  <1>7. WalletAlone'
    BY <1>1, <1>2 DEF Alone, WalletAlone
  <1> QED
    BY <1>2, <1>4, <1>5, <1>6, <1>7 DEF Alone

-----------------------------------------------------------------------------
LEMMA AloneInit == Init => AloneInv
  <1> SUFFICES ASSUME Init PROVE AloneInv
    OBVIOUS
  <1>1. Shapes /\ KnownTransactions /\ BlocksByReceiver /\ OneInside
    BY DEF Init, Shapes, Labels, KnownTransactions, NoBlock, BlocksByReceiver, BlockSteps,
           OneInside, Inside
  <1>2. SentSound
    BY FS_EmptySet DEF Init, SentSound
  <1>3. pc[Receiver] = "idle"
    BY ReceiverIsThread DEF Init
  <1>4. RoundsAlone
    BY <1>3 DEF Init, RoundsAlone
  <1>5. DecisionsAlone /\ WalletAlone
    BY <1>3 DEF Init, DecisionsAlone, WalletAlone
  <1>6. UtxoReplays
    <2>1. Replays({}, utxo)
      BY DEF Init, Replays, InputsOf, OutputsOf
    <2> QED
      BY <2>1 DEF UtxoReplays
  <1> QED
    BY <1>1, <1>2, <1>4, <1>5, <1>6 DEF AloneInv, General, Alone

LEMMA AloneNext == AloneInv /\ [Next]_vars => AloneInv'
  <1> SUFFICES ASSUME AloneInv, [Next]_vars PROVE General' /\ (~overlap' => Alone')
    BY DEF AloneInv
  <1>1. General
    BY DEF AloneInv
  <1>2. General'
    <2>1. CASE UNCHANGED vars
      BY <1>1, <2>1, GeneralStays DEF vars, shared, network
    <2> QED
      BY <1>1, <2>1, GeneralCreate, GeneralPeerPays, GeneralReceive, GeneralHandleTransaction,
         GeneralHandleBlock DEF Next
  <1>3. ASSUME NEW t \in Threads, HandleBlock(t), ~overlap' PROVE Alone'
    BY <1>3, AloneOther, AloneOnCommit, AloneAddBlock, AloneUpdateWallet, AloneAddBlockToUtxo,
       AloneIncrementView DEF HandleBlock
  <1>4. ~overlap' => Alone'
    BY <1>3, AloneOther, AloneHandleTransaction DEF Next
  <1> QED
    BY <1>2, <1>4

LEMMA AloneInvariant == Spec => []AloneInv
  <1> QED
    BY AloneInit, AloneNext, PTL DEF Spec

\* Whatever the coins, amounts and views, with any number of user threads: as long as no
\* two threads have been inside handlers at once, the wallet's coins are its part of the
\* UTXO set between blocks.
THEOREM WalletFollows == Spec => []WalletMatchesUtxoAlone
  <1>1. AloneInv => WalletMatchesUtxoAlone
    BY DEF AloneInv, Alone, WalletAlone, WalletMatchesUtxoAlone, Settled
  <1> QED
    BY <1>1, AloneInvariant, PTL

\* Likewise: every block that onCommit decides is appended, once, and the view counts the
\* blocks of the chain.
THEOREM OneViewPerBlock == Spec => []ViewPerBlockAlone
  <1>1. AloneInv => ViewPerBlockAlone
    BY DEF AloneInv, Alone, RoundsAlone, ViewPerBlockAlone, ViewPerBlock, Settled
  <1> QED
    BY <1>1, AloneInvariant, PTL

-----------------------------------------------------------------------------
(* What a set of outpoints is worth *)

\* ValueOf adds up a set by a function on its subsets that takes one element away.
First(s) == CHOOSE x \in s : TRUE

IsSum(f, S) ==
  f = [s \in SUBSET S |-> IF s = {} THEN 0 ELSE First(s).value + f[s \ {First(s)}]]

SumOn(S) == CHOOSE f : IsSum(f, S)

\* ValueOf is that sum.
LEMMA ValueIs ==
  ASSUME NEW S
  PROVE  ValueOf(S) = SumOn(S)[S]
  BY DEF ValueOf, MapThenSumSet, MapThenFoldSet, IsSum, First, SumOn

\* Among the subsets of a finite set that have a property, one has no smaller one inside it:
\* what holds of all smaller subsets may be assumed of a counterexample.
LEMMA Smallest ==
  ASSUME NEW S, IsFiniteSet(S), NEW Q, Q \subseteq SUBSET S, Q # {}
  PROVE  \E T \in Q : \A U \in Q : U \subseteq T => U = T
  <1>0. Q \subseteq FiniteSubsetsOf(S)
    BY FS_FiniteSubsetsOfFinite
  <1>1. PICK T \in Q : \A U \in Q : ~(<<U, T>> \in StrictSubsetOrdering(S))
    BY <1>0, FS_StrictSubsetOrderingWellFounded, WFMin
  <1>2. ASSUME NEW U \in Q, U \subseteq T PROVE U = T
    <2>1. T \in SUBSET S /\ U \in SUBSET S
      BY DEF FiniteSubsetsOf
    <2> QED
      BY <1>1, <1>2, <2>1 DEF StrictSubsetOrdering
  <1> QED
    BY <1>2

\* What is left without the first is smaller.
LEMMA WithoutFirst ==
  ASSUME NEW S, NEW T \in SUBSET S, T # {}
  PROVE  /\ First(T) \in T
         /\ T \ {First(T)} \in SUBSET S /\ T \ {First(T)} \subseteq T /\ T \ {First(T)} # T
  BY DEF First

\* There is at most one sum, on all subsets.
LEMMA SumOnce ==
  ASSUME NEW S, IsFiniteSet(S), NEW f, NEW g, IsSum(f, S), IsSum(g, S)
  PROVE  f = g
  <1> DEFINE Q == {T \in SUBSET S : f[T] # g[T]}
  <1>1. Q \subseteq SUBSET S
    OBVIOUS
  <1>2. ASSUME Q # {} PROVE FALSE
    <2>1. PICK T \in Q : \A U \in Q : U \subseteq T => U = T
      <3> HIDE DEF Q
      <3> QED
        BY <1>1, <1>2, Smallest
    <2>2. T \in SUBSET S /\ f[T] # g[T]
      BY <2>1
    <2>3. T # {}
      BY <2>2 DEF IsSum
    <2>4. f[T \ {First(T)}] = g[T \ {First(T)}]
      BY <2>1, <2>2, <2>3, WithoutFirst
    <2> HIDE DEF Q
    <2> QED
      BY <2>2, <2>3, <2>4 DEF IsSum
  <1>3. \A T \in SUBSET S : f[T] = g[T]
    BY <1>2
  <1>4. /\ f = [T \in SUBSET S |-> f[T]]
        /\ g = [T \in SUBSET S |-> g[T]]
    BY DEF IsSum
  <1> QED
    BY <1>3, <1>4

\* A sum on all subsets is one on the subsets of a part.
LEMMA SumOnPart ==
  ASSUME NEW S, NEW f, IsSum(f, S), NEW T \in SUBSET S
  PROVE  IsSum([s \in SUBSET T |-> f[s]], T)
  <1> DEFINE g == [s \in SUBSET T |-> f[s]]
  <1>1. \A s \in SUBSET T : f[s] = IF s = {} THEN 0 ELSE First(s).value + f[s \ {First(s)}]
    BY DEF IsSum
  <1>2. \A s \in SUBSET T : s # {} => f[s \ {First(s)}] = g[s \ {First(s)}]
    BY WithoutFirst
  <1>3. g = [s \in SUBSET T |-> IF s = {} THEN 0 ELSE First(s).value + g[s \ {First(s)}]]
    BY <1>1, <1>2
  <1> QED
    BY <1>3 DEF IsSum

\* T has a sum.
Summed(T) == \E f : IsSum(f, T)

LEMMA SummedIs ==
  ASSUME NEW S, Summed(S)
  PROVE  IsSum(SumOn(S), S)
  BY DEF Summed, SumOn

\* A sum over sets that are both summed.
LEMMA SumStep ==
  ASSUME NEW S, IsFiniteSet(S), Summed(S), S = {} \/ Summed(S \ {First(S)})
  PROVE  ValueOf(S) = IF S = {} THEN 0 ELSE First(S).value + ValueOf(S \ {First(S)})
  <1>1. IsSum(SumOn(S), S)
    BY SummedIs
  <1>2. CASE S = {}
    BY <1>1, <1>2, ValueIs DEF IsSum
  <1>3. CASE S # {}
    <2> DEFINE T == S \ {First(S)}
               g == [s \in SUBSET T |-> SumOn(S)[s]]
    <2>1. IsFiniteSet(T) /\ T \in SUBSET S
      BY FS_Subset
    <2>2. IsSum(g, T) /\ IsSum(SumOn(T), T)
      BY <1>1, <1>3, <2>1, SumOnPart, SummedIs
    <2>3. g = SumOn(T)
      BY <2>1, <2>2, SumOnce
    <2>4. SumOn(S)[T] = ValueOf(T)
      <3>1. g[T] = SumOn(S)[T]
        OBVIOUS
      <3> QED
        BY <2>3, <3>1, ValueIs
    <2>5. ValueOf(S) = First(S).value + SumOn(S)[T]
      <3>1. SumOn(S)[S] = IF S = {} THEN 0 ELSE First(S).value + SumOn(S)[T]
        BY <1>1 DEF IsSum
      <3> QED
        BY <1>3, <3>1, ValueIs
    <2> QED
      BY <1>3, <2>4, <2>5
  <1> QED
    BY <1>2, <1>3

\* Every finite set has one.
LEMMA AllSummed ==
  ASSUME NEW S, IsFiniteSet(S)
  PROVE  Summed(S)
  <1> DEFINE Q == {T \in SUBSET S : ~Summed(T)}
  <1>1. SUFFICES ASSUME Q # {} PROVE FALSE
    OBVIOUS
  <1>2. PICK T \in Q : \A U \in Q : U \subseteq T => U = T
    <2>1. Q \subseteq SUBSET S
      OBVIOUS
    <2> HIDE DEF Q
    <2> QED
      BY <1>1, <2>1, Smallest
  <1>3. T \in SUBSET S /\ ~Summed(T) /\ \A U \in SUBSET T : U # T => Summed(U)
    BY <1>2
  <1>4. \A U \in SUBSET T : IsFiniteSet(U)
    BY <1>3, FS_Subset
  <1> DEFINE h == [s \in SUBSET T |-> IF s = {} THEN 0 ELSE First(s).value + ValueOf(s \ {First(s)})]
  <1>5. ASSUME NEW U \in SUBSET T, U # T
        PROVE  h[U] = ValueOf(U)
    <2>1. IsFiniteSet(U) /\ Summed(U)
      BY <1>3, <1>4, <1>5
    <2>2. U = {} \/ Summed(U \ {First(U)})
      BY <1>3, <1>5, WithoutFirst
    <2>3. ValueOf(U) = IF U = {} THEN 0 ELSE First(U).value + ValueOf(U \ {First(U)})
      BY <2>1, <2>2, SumStep
    <2> QED
      BY <2>3
  <1>6. ASSUME NEW s \in SUBSET T, s # {}
        PROVE  ValueOf(s \ {First(s)}) = h[s \ {First(s)}]
    BY <1>5, <1>6, WithoutFirst
  <1>7. h = [s \in SUBSET T |-> IF s = {} THEN 0 ELSE First(s).value + h[s \ {First(s)}]]
    <2>1. \A s \in SUBSET T : (IF s = {} THEN 0 ELSE First(s).value + ValueOf(s \ {First(s)}))
              = (IF s = {} THEN 0 ELSE First(s).value + h[s \ {First(s)}])
      BY <1>6
    <2> QED
      BY <2>1
  <1>8. Summed(T)
    BY <1>7 DEF Summed, IsSum
  <1> QED
    BY <1>3, <1>8

\* So ValueOf does what its definition reads like.
LEMMA ValueOfFirst ==
  ASSUME NEW S, IsFiniteSet(S)
  PROVE  ValueOf(S) = IF S = {} THEN 0 ELSE First(S).value + ValueOf(S \ {First(S)})
  <1>1. IsFiniteSet(S \ {First(S)})
    BY FS_Subset
  <1> QED
    BY <1>1, AllSummed, SumStep

\* The worth of a finite set of outpoints.
LEMMA ValueIsNat ==
  ASSUME NEW S \in SUBSET OutPoints, IsFiniteSet(S)
  PROVE  ValueOf(S) \in Nat
  <1> DEFINE Q == {T \in SUBSET S : ValueOf(T) \notin Nat}
  <1>1. SUFFICES ASSUME Q # {} PROVE FALSE
    OBVIOUS
  <1>2. PICK T \in Q : \A U \in Q : U \subseteq T => U = T
    <2>1. Q \subseteq SUBSET S
      OBVIOUS
    <2> HIDE DEF Q
    <2> QED
      BY <1>1, <2>1, Smallest
  <1>3. T \in SUBSET S /\ ValueOf(T) \notin Nat
    BY <1>2
  <1>4. ValueOf(T) = IF T = {} THEN 0 ELSE First(T).value + ValueOf(T \ {First(T)})
    BY <1>3, FS_Subset, ValueOfFirst
  <1>5. T # {}
    BY <1>3, <1>4
  <1>6. ValueOf(T \ {First(T)}) \in Nat
    BY <1>2, <1>3, <1>5, WithoutFirst
  <1>7. First(T).value \in Nat
    BY <1>3, <1>5, WithoutFirst DEF OutPoints
  <1> QED
    BY <1>3, <1>4, <1>5, <1>6, <1>7

\* It does not matter which outpoint is counted first.
LEMMA ValueOfEach ==
  ASSUME NEW S \in SUBSET OutPoints, IsFiniteSet(S), NEW x \in S
  PROVE  ValueOf(S) = x.value + ValueOf(S \ {x})
  <1> DEFINE Counts(T) == \A o \in T : ValueOf(T) = o.value + ValueOf(T \ {o})
             Q == {T \in SUBSET S : ~Counts(T)}
  <1>1. SUFFICES ASSUME Q # {} PROVE FALSE
    OBVIOUS
  <1>2. PICK T \in Q : \A U \in Q : U \subseteq T => U = T
    <2>1. Q \subseteq SUBSET S
      OBVIOUS
    <2> HIDE DEF Q
    <2> QED
      BY <1>1, <2>1, Smallest
  <1>3. T \in SUBSET S /\ \A U \in SUBSET T : U # T => Counts(U)
    BY <1>2
  <1>4. PICK o \in T : ValueOf(T) # o.value + ValueOf(T \ {o})
    BY <1>2
  <1>5. PICK p : p = First(T)
    OBVIOUS
  <1>6. p \in T /\ ValueOf(T) = p.value + ValueOf(T \ {p})
    BY <1>3, <1>4, <1>5, FS_Subset, ValueOfFirst, WithoutFirst
  <1>7. o # p
    BY <1>4, <1>6
  <1>8. ValueOf(T \ {p}) = o.value + ValueOf((T \ {p}) \ {o})
    <2>1. T \ {p} \in SUBSET T /\ T \ {p} # T /\ o \in T \ {p}
      BY <1>4, <1>6, <1>7
    <2> HIDE DEF Counts
    <2>2. Counts(T \ {p})
      BY <1>3, <2>1
    <2> QED
      BY <2>1, <2>2 DEF Counts
  <1>9. ValueOf(T \ {o}) = p.value + ValueOf((T \ {o}) \ {p})
    <2>1. T \ {o} \in SUBSET T /\ T \ {o} # T /\ p \in T \ {o}
      BY <1>4, <1>6, <1>7
    <2> HIDE DEF Counts
    <2>2. Counts(T \ {o})
      BY <1>3, <2>1
    <2> QED
      BY <2>1, <2>2 DEF Counts
  <1>10. (T \ {p}) \ {o} = (T \ {o}) \ {p}
    OBVIOUS
  <1>11. /\ o.value \in Nat /\ p.value \in Nat /\ ValueOf((T \ {o}) \ {p}) \in Nat
    <2>1. (T \ {o}) \ {p} \in SUBSET OutPoints /\ IsFiniteSet((T \ {o}) \ {p})
      BY <1>3, FS_Subset
    <2>2. o \in OutPoints /\ p \in OutPoints
      BY <1>3, <1>4, <1>6
    <2> QED
      BY <2>1, <2>2, ValueIsNat DEF OutPoints
  <1> HIDE DEF Counts, Q
  <1>12. PICK r : r = ValueOf((T \ {o}) \ {p})
    OBVIOUS
  <1>13. ValueOf(T) = p.value + (o.value + r)
    BY <1>6, <1>8, <1>10, <1>12
  <1>14. o.value + ValueOf(T \ {o}) = o.value + (p.value + r)
    BY <1>9, <1>12
  <1>15. p.value + (o.value + r) = o.value + (p.value + r)
    BY <1>11, <1>12
  <1> QED
    BY <1>4, <1>13, <1>14, <1>15

LEMMA ValueOfNone == ValueOf({}) = 0
  BY FS_EmptySet, ValueOfFirst

\* Two sets that share nothing are worth what each is.
LEMMA ValueOfUnion ==
  ASSUME NEW A \in SUBSET OutPoints, IsFiniteSet(A),
         NEW B \in SUBSET OutPoints, IsFiniteSet(B), A \cap B = {}
  PROVE  ValueOf(A \cup B) = ValueOf(A) + ValueOf(B)
  <1> DEFINE Q == {T \in SUBSET B : ValueOf(A \cup T) # ValueOf(A) + ValueOf(T)}
  <1>1. SUFFICES ASSUME Q # {} PROVE FALSE
    OBVIOUS
  <1>2. PICK T \in Q : \A U \in Q : U \subseteq T => U = T
    <2>1. Q \subseteq SUBSET B
      OBVIOUS
    <2> HIDE DEF Q
    <2> QED
      BY <1>1, <2>1, Smallest
  <1>3. /\ T \in SUBSET B /\ ValueOf(A \cup T) # ValueOf(A) + ValueOf(T)
        /\ \A U \in SUBSET T : U # T => ValueOf(A \cup U) = ValueOf(A) + ValueOf(U)
    BY <1>2
  <1>4. ValueOf(A) \in Nat
    BY ValueIsNat
  <1>5. T # {}
    <2>1. A \cup {} = A
      OBVIOUS
    <2>2. ValueOf(A) + ValueOf({}) = ValueOf(A)
      BY <1>4, ValueOfNone
    <2>3. T # {} \/ ValueOf(A \cup {}) # ValueOf(A) + ValueOf({})
      BY <1>3
    <2> QED
      BY <2>1, <2>2, <2>3
  <1>6. PICK x \in T : TRUE
    BY <1>5
  <1>7. IsFiniteSet(T) /\ IsFiniteSet(A \cup T) /\ IsFiniteSet(T \ {x})
    BY <1>3, FS_Subset, FS_Union
  <1>8. ValueOf(T) = x.value + ValueOf(T \ {x})
    BY <1>3, <1>6, <1>7, ValueOfEach
  <1>9. ValueOf(A \cup T) = x.value + ValueOf(A \cup (T \ {x}))
    <2>1. (A \cup T) \ {x} = A \cup (T \ {x}) /\ A \cup T \in SUBSET OutPoints /\ x \in A \cup T
      BY <1>3, <1>6
    <2> QED
      BY <1>7, <2>1, ValueOfEach
  <1>10. ValueOf(A \cup (T \ {x})) = ValueOf(A) + ValueOf(T \ {x})
    BY <1>3, <1>6
  <1>11. x.value \in Nat /\ ValueOf(T \ {x}) \in Nat
    <2>1. x \in OutPoints /\ T \ {x} \in SUBSET OutPoints
      BY <1>3, <1>6
    <2> QED
      BY <1>7, <2>1, ValueIsNat DEF OutPoints
  <1> QED
    BY <1>3, <1>4, <1>8, <1>9, <1>10, <1>11

\* A transaction that creates what it spends.
Balanced(m) ==
  /\ m.inputs \subseteq OutPoints /\ IsFiniteSet(m.inputs)
  /\ m.outputs \subseteq OutPoints /\ IsFiniteSet(m.outputs)
  /\ ValueOf(m.inputs) = ValueOf(m.outputs)

\* What finitely many of them spend and create.
LEMMA KnownOutpoints ==
  ASSUME NEW T, IsFiniteSet(T), \A m \in T : Balanced(m)
  PROVE  /\ InputsOf(T) \subseteq OutPoints /\ IsFiniteSet(InputsOf(T))
         /\ OutputsOf(T) \subseteq OutPoints /\ IsFiniteSet(OutputsOf(T))
  <1> DEFINE Q == {U \in SUBSET T : ~(IsFiniteSet(InputsOf(U)) /\ IsFiniteSet(OutputsOf(U)))}
  <1>1. InputsOf(T) \subseteq OutPoints /\ OutputsOf(T) \subseteq OutPoints
    BY DEF InputsOf, OutputsOf, Balanced
  <1>2. SUFFICES ASSUME Q # {} PROVE FALSE
    BY <1>1
  <1>3. PICK V \in Q : \A U \in Q : U \subseteq V => U = V
    <2>1. Q \subseteq SUBSET T
      OBVIOUS
    <2> HIDE DEF Q
    <2> QED
      BY <1>2, <2>1, Smallest
  <1>4. /\ V \in SUBSET T /\ ~(IsFiniteSet(InputsOf(V)) /\ IsFiniteSet(OutputsOf(V)))
        /\ \A U \in SUBSET V : U # V => IsFiniteSet(InputsOf(U)) /\ IsFiniteSet(OutputsOf(U))
    BY <1>3
  <1>5. V # {}
    <2>1. InputsOf({}) = {} /\ OutputsOf({}) = {}
      BY DEF InputsOf, OutputsOf
    <2> QED
      BY <1>4, <2>1, FS_EmptySet
  <1>6. PICK m \in V : TRUE
    BY <1>5
  <1>7. PICK U : U = V \ {m}
    OBVIOUS
  <1>8. /\ IsFiniteSet(InputsOf(U)) /\ IsFiniteSet(OutputsOf(U))
        /\ IsFiniteSet(m.inputs) /\ IsFiniteSet(m.outputs)
    BY <1>4, <1>6, <1>7 DEF Balanced
  <1>9. IsFiniteSet(InputsOf(U) \cup m.inputs) /\ IsFiniteSet(OutputsOf(U) \cup m.outputs)
    BY <1>8, FS_Union
  <1>10. InputsOf(V) = InputsOf(U) \cup m.inputs /\ OutputsOf(V) = OutputsOf(U) \cup m.outputs
    BY <1>6, <1>7 DEF InputsOf, OutputsOf
  <1> QED
    BY <1>4, <1>9, <1>10

\* Transactions that share nothing create together what they spend together.
LEMMA BalancedTogether ==
  ASSUME NEW T, IsFiniteSet(T), \A m \in T : Balanced(m),
         \A a, b \in T : a # b => a.inputs \cap b.inputs = {} /\ a.outputs \cap b.outputs = {}
  PROVE  ValueOf(InputsOf(T)) = ValueOf(OutputsOf(T))
  <1> DEFINE Q == {U \in SUBSET T : ValueOf(InputsOf(U)) # ValueOf(OutputsOf(U))}
  <1>1. SUFFICES ASSUME Q # {} PROVE FALSE
    OBVIOUS
  <1>2. PICK V \in Q : \A U \in Q : U \subseteq V => U = V
    <2>1. Q \subseteq SUBSET T
      OBVIOUS
    <2> HIDE DEF Q
    <2> QED
      BY <1>1, <2>1, Smallest
  <1>3. /\ V \in SUBSET T /\ ValueOf(InputsOf(V)) # ValueOf(OutputsOf(V))
        /\ \A U \in SUBSET V : U # V => ValueOf(InputsOf(U)) = ValueOf(OutputsOf(U))
    BY <1>2
  <1>4. V # {}
    <2>1. InputsOf({}) = {} /\ OutputsOf({}) = {}
      BY DEF InputsOf, OutputsOf
    <2> QED
      BY <1>3, <2>1
  <1>5. PICK m \in V : TRUE
    BY <1>4
  <1>6. PICK U : U = V \ {m}
    OBVIOUS
  <1>7. /\ U \in SUBSET T /\ IsFiniteSet(U) /\ \A a \in U : Balanced(a)
        /\ ValueOf(InputsOf(U)) = ValueOf(OutputsOf(U)) /\ Balanced(m)
    BY <1>3, <1>5, <1>6, FS_Subset
  <1>8. InputsOf(V) = InputsOf(U) \cup m.inputs /\ OutputsOf(V) = OutputsOf(U) \cup m.outputs
    BY <1>5, <1>6 DEF InputsOf, OutputsOf
  <1>9. InputsOf(U) \cap m.inputs = {} /\ OutputsOf(U) \cap m.outputs = {}
    BY <1>3, <1>5, <1>6 DEF InputsOf, OutputsOf
  <1>10. /\ InputsOf(U) \subseteq OutPoints /\ IsFiniteSet(InputsOf(U))
         /\ OutputsOf(U) \subseteq OutPoints /\ IsFiniteSet(OutputsOf(U))
    BY <1>7, KnownOutpoints
  <1>11. /\ ValueOf(InputsOf(V)) = ValueOf(InputsOf(U)) + ValueOf(m.inputs)
         /\ ValueOf(OutputsOf(V)) = ValueOf(OutputsOf(U)) + ValueOf(m.outputs)
    BY <1>7, <1>8, <1>9, <1>10, ValueOfUnion DEF Balanced
  <1> QED
    BY <1>3, <1>7, <1>11 DEF Balanced

-----------------------------------------------------------------------------
(* What is unspent keeps its worth *)

\* No two of the transactions spend the same outpoint.
Apart(T) == \A a, b \in T : a # b => a.inputs \cap b.inputs = {}

\* What is sent is paid for, no outpoint is spent twice in the mempool or in a block, and
\* what is unspent is worth what the genesis block created.
Supply ==
  /\ \A m \in sent : Balanced(m)
  /\ ReservedOnce /\ StillFree
  /\ \A t \in Threads : Apart(block[t].txs)
  /\ \A d \in decisions : Apart(d.block.txs)
  /\ ValueOf(utxo) = ValueOf(Genesis)

SupplyInv == AloneInv /\ (~overlap => Supply)

LEMMA ApartKept ==
  ASSUME NEW T, NEW R \in SUBSET T, Apart(T)
  PROVE  Apart(R)
  BY DEF Apart

\* An overlap is never forgotten.
LEMMA WasAlone ==
  ASSUME [Next]_vars, ~overlap'
  PROVE  ~overlap
  <1>1. ASSUME NEW o \in utxo, PeerPays(o) PROVE ~overlap
    BY <1>1 DEF PeerPays
  <1>2. ASSUME NEW t \in Threads, CreateTransaction(t) \/ ReceiveTransaction(t) PROVE ~overlap
    BY <1>2 DEF CreateTransaction, ReceiveTransaction, Goto
  <1>3. ASSUME NEW t \in Threads, HandleTransaction(t) PROVE ~overlap
    BY <1>3 DEF HandleTransaction, Verify, CheckLocked, AddTransaction, LookAtView, BuildBlock,
       TrackProposal, Announce, Goto
  <1>4. ASSUME NEW t \in Threads, HandleBlock(t) PROVE ~overlap
    BY <1>4 DEF HandleBlock, OnPreprepare, OnCommit, AddBlock, UpdateWallet, AddBlockToUtxo,
       IncrementView, Goto
  <1>5. CASE UNCHANGED vars
    BY <1>5 DEF vars
  <1> QED
    BY <1>1, <1>2, <1>3, <1>4, <1>5 DEF Next

\* What is unspent, and the wallet's coins, are outpoints of the genesis block or of
\* transactions that were sent.
LEMMA UnspentIsKnown ==
  ASSUME AloneInv, ~overlap, Supply
  PROVE  /\ utxo \subseteq OutPoints /\ IsFiniteSet(utxo)
         /\ coins \subseteq OutPoints /\ IsFiniteSet(coins)
  <1>1. General /\ Alone
    BY DEF AloneInv
  <1>2. PICK All : All = Genesis \cup OutputsOf(sent)
    OBVIOUS
  <1>3. All \subseteq OutPoints /\ IsFiniteSet(All)
    <2>1. OutputsOf(sent) \subseteq OutPoints /\ IsFiniteSet(OutputsOf(sent))
      BY <1>1, KnownOutpoints DEF General, SentSound, Supply
    <2>2. IsFiniteSet(Genesis \cup OutputsOf(sent))
      BY <2>1, FS_Union, GenesisAssumption
    <2> QED
      BY <1>2, <2>1, <2>2, GenesisAssumption
  <1>4. utxo \subseteq All
    BY <1>1, <1>2 DEF Alone, UtxoReplays, Replays, OutputsOf
  <1>5. coins \subseteq All
    <2>1. CASE pc[Receiver] \in {"wallet", "utxo"}
      <3>1. PICK done : /\ done = block[Receiver].txs \ todo
                        /\ coins = Mine((utxo \cup OutputsOf(done)) \ InputsOf(done))
        BY <1>1, <2>1 DEF Alone, WalletAlone
      <3>2. done \subseteq sent
        BY <1>1, <3>1, ReceiverIsThread DEF General, KnownTransactions
      <3>3. OutputsOf(done) \subseteq All
        BY <1>2, <3>2 DEF OutputsOf
      <3> QED
        BY <1>4, <3>1, <3>3 DEF Mine
    <2>2. CASE pc[Receiver] \notin {"wallet", "utxo"}
      BY <1>1, <1>4, <2>2 DEF Alone, WalletAlone, Mine
    <2> QED
      BY <2>1, <2>2
  <1> QED
    BY <1>3, <1>4, <1>5, FS_Subset

-----------------------------------------------------------------------------
(* Kinds of steps *)

\* A thread moves on, to "add" only with inputs nobody has reserved.
LEMMA SupplyMoves ==
  ASSUME General, Supply, NEW t \in Threads, NEW label \in Labels, Goto(t, label),
         UNCHANGED <<tx, utxo, sent>>,
         block' = block \/ \E b : Apart(b.txs) /\ block' = [block EXCEPT ![t] = b],
         \A d \in decisions' \ decisions : Apart(d.block.txs),
         \/ UNCHANGED <<pending, reserved>> /\ (label = "add" => tx[t].inputs \cap reserved = {})
         \/ label # "add" /\ \E T : pending' = pending \ T /\ reserved' = Release(T)
  PROVE  Supply'
  <1>1. pc' = [pc EXCEPT ![t] = label] /\ Shapes
    BY DEF Goto, General
  <1>2. reserved' \subseteq reserved
    BY DEF Release
  <1>3. StillFree'
    BY <1>1, <1>2 DEF Supply, StillFree, Shapes
  <1>4. ReservedOnce'
    <2>1. CASE UNCHANGED <<pending, reserved>>
      BY <2>1 DEF Supply, ReservedOnce, InputsOf
    <2>2. ASSUME NEW T, pending' = pending \ T, reserved' = Release(T) PROVE ReservedOnce'
      <3>1. reserved' = InputsOf(pending')
        BY <2>2, ReleaseExact DEF Supply
      <3> QED
        BY <2>2, <3>1 DEF Supply, ReservedOnce
    <2> QED
      BY <2>1, <2>2
  <1>5. \A u \in Threads : Apart(block'[u].txs)
    BY <1>1 DEF Supply, Shapes
  <1>6. \A d \in decisions' : Apart(d.block.txs)
    BY DEF Supply
  <1> QED
    BY <1>3, <1>4, <1>5, <1>6 DEF Supply

\* Nothing is moved but the wallet, the view, the chain and the messages.
LEMMA SupplyStays ==
  ASSUME Supply, UNCHANGED <<pc, tx, block, pending, reserved, utxo>>,
         \A m \in sent' \ sent : Balanced(m),
         \A d \in decisions' \ decisions : Apart(d.block.txs)
  PROVE  Supply'
  BY DEF Supply, ReservedOnce, StillFree, InputsOf

\* A thread takes up a transaction.
LEMMA SupplyTakesUp ==
  ASSUME General, Supply, NEW t \in Threads, NEW m, Goto(t, "verify"), tx' = [tx EXCEPT ![t] = m],
         UNCHANGED <<block, pending, reserved, utxo, decisions>>,
         \A n \in sent' \ sent : Balanced(n)
  PROVE  Supply'
  <1>1. pc' = [pc EXCEPT ![t] = "verify"] /\ Shapes
    BY DEF Goto, General
  <1>2. StillFree'
    BY <1>1 DEF Supply, StillFree, Shapes
  <1>3. ReservedOnce'
    BY DEF Supply, ReservedOnce, InputsOf
  <1> QED
    BY <1>2, <1>3 DEF Supply

-----------------------------------------------------------------------------
(* New transactions *)

LEMMA ValueOfOne ==
  ASSUME NEW o \in OutPoints
  PROVE  ValueOf({o}) = o.value /\ o.value \in Nat
  <1>1. IsFiniteSet({o}) /\ {o} \in SUBSET OutPoints /\ {o} \ {o} = {} /\ o \in {o}
    BY FS_Singleton
  <1>2. ValueOf({o}) = o.value + ValueOf({})
    BY <1>1, ValueOfEach
  <1>3. o.value \in Nat
    BY DEF OutPoints
  <1> QED
    BY <1>2, <1>3, ValueOfNone

\* Wallet::createTransaction pays the amount, and the change back: together what it spends.
LEMMA PaymentBalanced ==
  ASSUME NEW id \in Nat, NEW amount \in Nat \ {0}, NEW S \in SUBSET OutPoints, IsFiniteSet(S),
         NEW X \in SelectUTXOs(S, amount)
  PROVE  Balanced(Payment(id, X, amount))
  <1>1. X \in SUBSET OutPoints /\ IsFiniteSet(X) /\ ValueOf(X) >= amount
    BY FS_Subset DEF SelectUTXOs
  <1>2. PICK v \in Nat : v = ValueOf(X)
    BY <1>1, ValueIsNat
  <1>3. PICK paid, back :
           /\ paid = [tx |-> id, index |-> 0, value |-> amount, mine |-> FALSE]
           /\ back = [tx |-> id, index |-> 1, value |-> v - amount, mine |-> TRUE]
    OBVIOUS
  <1>4. v - amount \in Nat /\ paid \in OutPoints /\ back \in OutPoints /\ paid # back
        /\ paid.value = amount /\ back.value = v - amount
    BY <1>1, <1>2, <1>3 DEF OutPoints
  <1>5. PICK m : m = Payment(id, X, amount)
    OBVIOUS
  <1>6. /\ m.inputs = X
        /\ m.outputs = {paid} \cup (IF v - amount > 0 THEN {back} ELSE {})
    BY <1>2, <1>3, <1>5 DEF Payment
  <1>7. /\ IsFiniteSet({paid}) /\ IsFiniteSet({back}) /\ {paid} \in SUBSET OutPoints
        /\ {back} \in SUBSET OutPoints /\ {paid} \cap {back} = {}
    BY <1>4, FS_Singleton
  <1>8. ValueOf({paid}) = amount /\ ValueOf({back}) = v - amount
    BY <1>4, ValueOfOne
  <1>9. CASE v - amount > 0
    <2>1. m.outputs = {paid} \cup {back}
      BY <1>6, <1>9
    <2>2. ValueOf({paid} \cup {back}) = ValueOf({paid}) + ValueOf({back})
      BY <1>7, ValueOfUnion
    <2>3. ValueOf({paid}) + ValueOf({back}) = v
      BY <1>2, <1>8
    <2>4. IsFiniteSet({paid} \cup {back})
      BY <1>7, FS_Union
    <2> QED
      BY <1>1, <1>2, <1>4, <1>5, <1>6, <2>1, <2>2, <2>3, <2>4 DEF Balanced
  <1>10. CASE ~(v - amount > 0)
    <2>1. m.outputs = {paid} /\ v = amount
      BY <1>4, <1>6, <1>10
    <2> QED
      BY <1>1, <1>2, <1>4, <1>5, <1>6, <1>7, <1>8, <2>1 DEF Balanced
  <1> QED
    BY <1>9, <1>10

LEMMA CreatedIsNat ==
  ASSUME General
  PROVE  Created + 1 \in Nat
  BY FS_CardinalityType DEF General, SentSound, Created

LEMMA SupplyCreate ==
  ASSUME AloneInv, ~overlap, Supply, NEW t \in Threads, CreateTransaction(t)
  PROVE  Supply'
  <1>1. PICK amount \in Amounts : \E inputs \in SelectUTXOs(coins \ reserved, amount) :
           /\ tx' = [tx EXCEPT ![t] = Payment(Created + 1, inputs, amount)]
           /\ sent' = sent \cup {Payment(Created + 1, inputs, amount)}
    BY DEF CreateTransaction
  <1>2. PICK inputs \in SelectUTXOs(coins \ reserved, amount) :
           /\ tx' = [tx EXCEPT ![t] = Payment(Created + 1, inputs, amount)]
           /\ sent' = sent \cup {Payment(Created + 1, inputs, amount)}
    BY <1>1
  <1>3. PICK S : S = coins \ reserved
    OBVIOUS
  <1>4. S \in SUBSET OutPoints /\ IsFiniteSet(S)
    BY <1>3, UnspentIsKnown, FS_Subset
  <1>5. PICK new : new = Payment(Created + 1, inputs, amount)
    OBVIOUS
  <1>6. Balanced(new)
    BY <1>2, <1>3, <1>4, <1>5, PaymentBalanced, CreatedIsNat, BoundAssumption DEF AloneInv
  <1>7. Goto(t, "verify") /\ UNCHANGED <<block, pending, reserved, utxo, decisions>>
    BY DEF CreateTransaction, shared
  <1>8. tx' = [tx EXCEPT ![t] = new] /\ \A n \in sent' \ sent : Balanced(n)
    BY <1>2, <1>5, <1>6
  <1> QED
    BY <1>7, <1>8, SupplyTakesUp DEF AloneInv

LEMMA SupplyPeerPays ==
  ASSUME AloneInv, ~overlap, Supply, NEW o \in utxo, PeerPays(o)
  PROVE  Supply'
  <1>1. PICK p : p = [tx |-> Created + 1, index |-> 0, value |-> o.value, mine |-> TRUE]
    OBVIOUS
  <1>2. PICK new : new = [id |-> Created + 1, inputs |-> {o}, outputs |-> {p}]
    OBVIOUS
  <1>3. sent' = sent \cup {new} /\ UNCHANGED <<pc, tx, block, pending, reserved, utxo, decisions>>
    BY <1>1, <1>2 DEF PeerPays, shared
  <1>4. o \in OutPoints
    BY UnspentIsKnown
  <1>5. ValueOf({o}) = o.value /\ o.value \in Nat
    BY <1>4, ValueOfOne
  <1>6. p \in OutPoints /\ p.value = o.value
    BY <1>1, <1>5, CreatedIsNat DEF OutPoints, AloneInv
  <1>7. ValueOf({p}) = p.value
    BY <1>6, ValueOfOne
  <1>8. new.inputs = {o} /\ new.outputs = {p} /\ IsFiniteSet({o}) /\ IsFiniteSet({p})
    BY <1>2, FS_Singleton
  <1>9. Balanced(new)
    BY <1>4, <1>5, <1>6, <1>7, <1>8 DEF Balanced
  <1> QED
    BY <1>3, <1>9, SupplyStays

-----------------------------------------------------------------------------
(* The steps of onNewTransaction *)

\* Alone, the thread that enters its transaction is the only one that has looked at the
\* reservations and not entered yet.
LEMMA SupplyAdd ==
  ASSUME AloneInv, ~overlap, Supply, NEW t \in Threads, AddTransaction(t)
  PROVE  Supply'
  <1>1. /\ pc[t] = "add" /\ pc' = [pc EXCEPT ![t] = "lead"]
        /\ pending' = pending \cup {tx[t]} /\ reserved' = reserved \cup tx[t].inputs
        /\ UNCHANGED <<utxo, tx, block, sent, decisions>>
    BY DEF AddTransaction, Goto, network
  <1>2. General /\ OneInside
    BY DEF AloneInv, Alone
  <1>3. tx[t].inputs \cap reserved = {}
    BY <1>1 DEF Supply, StillFree
  <1>4. \A u \in Threads : pc'[u] # "add"
    BY <1>1, <1>2 DEF General, Shapes, OneInside, Inside
  <1>5. StillFree'
    BY <1>4 DEF StillFree
  <1>6. reserved' = InputsOf(pending')
    BY <1>1 DEF Supply, ReservedOnce, InputsOf
  <1>7. \A a \in pending : a.inputs \cap tx[t].inputs = {}
    BY <1>3 DEF Supply, ReservedOnce, InputsOf
  <1>8. ReservedOnce'
    BY <1>1, <1>6, <1>7 DEF Supply, ReservedOnce
  <1> QED
    BY <1>1, <1>5, <1>8 DEF Supply

LEMMA SupplyHandleTransaction ==
  ASSUME AloneInv, ~overlap, Supply, NEW t \in Threads, HandleTransaction(t)
  PROVE  Supply'
  <1>0. General
    BY DEF AloneInv
  <1> USE DEF Labels
  <1>1. CASE Verify(t)
    BY <1>0, <1>1, SupplyMoves DEF Verify, shared, network
  <1>2. CASE CheckLocked(t)
    <2>1. PICK label \in {"add", "idle"} : /\ Goto(t, label)
                                           /\ label = "add" => tx[t].inputs \cap reserved = {}
      BY <1>2 DEF CheckLocked
    <2> QED
      BY <1>0, <1>2, <2>1, SupplyMoves DEF CheckLocked, shared, network
  <1>3. CASE AddTransaction(t)
    BY <1>3, SupplyAdd
  <1>4. CASE LookAtView(t)
    BY <1>0, <1>4, SupplyMoves DEF LookAtView, shared, network
  <1>5. CASE BuildBlock(t)
    <2>1. CASE /\ block' = [block EXCEPT ![t] = [index |-> height, txs |-> pending]]
               /\ pending' = {} /\ reserved' = Release(pending) /\ Goto(t, "track")
      <3>1. PICK b : b = [index |-> height, txs |-> pending]
        OBVIOUS
      <3>2. Apart(b.txs) /\ block' = [block EXCEPT ![t] = b]
        BY <2>1, <3>1 DEF Supply, ReservedOnce, Apart
      <3>3. pending' = pending \ pending
        BY <2>1
      <3>4. UNCHANGED <<tx, utxo, sent, decisions>>
        BY <1>5 DEF BuildBlock, network
      <3> QED
        BY <1>0, <2>1, <3>2, <3>3, <3>4, SupplyMoves
    <2>2. CASE Goto(t, "idle") /\ UNCHANGED <<block, pending, reserved>>
      BY <1>0, <1>5, <2>2, SupplyMoves DEF BuildBlock, network
    <2> QED
      BY <1>5, <2>1, <2>2 DEF BuildBlock
  <1>6. CASE TrackProposal(t)
    BY <1>0, <1>6, SupplyMoves DEF TrackProposal, network
  <1>7. CASE Announce(t)
    <2>1. \A d \in decisions' \ decisions : Apart(d.block.txs)
      BY <1>7 DEF Announce, Supply
    <2> QED
      BY <1>0, <1>7, <2>1, SupplyMoves DEF Announce, shared
  <1> QED
    BY <1>1, <1>2, <1>3, <1>4, <1>5, <1>6, <1>7 DEF HandleTransaction

-----------------------------------------------------------------------------
(* The steps that put a block on the chain *)

\* A block that spends what is unspent, nothing of it twice, keeps its worth.
LEMMA BlockKeepsWorth ==
  ASSUME AloneInv, ~overlap, Supply, NEW B \in SUBSET sent, InputsOf(B) \subseteq utxo, Apart(B)
  PROVE  ValueOf((utxo \cup OutputsOf(B)) \ InputsOf(B)) = ValueOf(utxo)
  <1>1. General /\ Alone
    BY DEF AloneInv
  <1>2. IsFiniteSet(B) /\ \A m \in B : Balanced(m)
    BY <1>1, FS_Subset DEF General, SentSound, Supply
  <1>3. /\ InputsOf(B) \subseteq OutPoints /\ IsFiniteSet(InputsOf(B))
        /\ OutputsOf(B) \subseteq OutPoints /\ IsFiniteSet(OutputsOf(B))
    BY <1>2, KnownOutpoints
  <1>4. \A a, b \in B : a # b => a.inputs \cap b.inputs = {} /\ a.outputs \cap b.outputs = {}
    BY <1>1 DEF General, SentSound, Apart
  <1>5. ValueOf(InputsOf(B)) = ValueOf(OutputsOf(B))
    BY <1>2, <1>4, BalancedTogether
  <1>6. InputsOf(B) \cap OutputsOf(B) = {} /\ utxo \cap OutputsOf(B) = {}
    <2>1. PICK A \in SUBSET sent : Replays(A, utxo)
      BY <1>1 DEF Alone, UtxoReplays
    <2> QED
      BY <1>1, <2>1, ReplayBlock DEF General
  <1>7. PICK I, O, U, R : I = InputsOf(B) /\ O = OutputsOf(B) /\ U = utxo /\ R = utxo \ InputsOf(B)
    OBVIOUS
  <1>8. /\ U \in SUBSET OutPoints /\ R \in SUBSET OutPoints /\ I \in SUBSET OutPoints
        /\ O \in SUBSET OutPoints /\ IsFiniteSet(U) /\ IsFiniteSet(R) /\ IsFiniteSet(I) /\ IsFiniteSet(O)
    BY <1>3, <1>7, UnspentIsKnown, FS_Subset
  <1>9. R \cap I = {} /\ U = R \cup I /\ R \cap O = {} /\ (U \cup O) \ I = R \cup O
    BY <1>6, <1>7
  <1>10. ValueOf(R \cup I) = ValueOf(R) + ValueOf(I) /\ ValueOf(R \cup O) = ValueOf(R) + ValueOf(O)
    BY <1>8, <1>9, ValueOfUnion
  <1> QED
    BY <1>5, <1>7, <1>9, <1>10

LEMMA SupplyHandleBlock ==
  ASSUME AloneInv, ~overlap, Supply, NEW t \in Threads, HandleBlock(t)
  PROVE  Supply'
  <1>0. General /\ Alone
    BY DEF AloneInv
  <1> USE DEF Labels
  <1>1. CASE OnPreprepare(t)
    <2>1. \A d \in decisions' \ decisions : Apart(d.block.txs)
      BY <1>1 DEF OnPreprepare, Apart
    <2> QED
      BY <1>1, <2>1, SupplyStays DEF OnPreprepare
  <1>2. CASE OnCommit(t)
    <2>1. PICK d \in decisions : block' = [block EXCEPT ![t] = d.block] /\ decisions' = decisions \ {d}
      BY <1>2 DEF OnCommit
    <2>2. Apart(d.block.txs)
      BY DEF Supply
    <2>3. Goto(t, "addBlock") /\ UNCHANGED <<tx, utxo, sent, pending, reserved>>
      BY <1>2 DEF OnCommit
    <2> QED
      BY <1>0, <2>1, <2>2, <2>3, SupplyMoves
  <1>3. CASE AddBlock(t)
    <2>1. Goto(t, "wallet") /\ UNCHANGED <<tx, utxo, sent, block, decisions>>
      BY <1>3 DEF AddBlock, network
    <2>2. \/ UNCHANGED <<pending, reserved>>
          \/ pending' = pending \ block[t].txs /\ reserved' = Release(block[t].txs)
      BY <1>3 DEF AddBlock
    <2> QED
      BY <1>0, <2>1, <2>2, SupplyMoves
  <1>4. CASE UpdateWallet(t)
    <2>1. UNCHANGED <<tx, utxo, sent, block, decisions, pending, reserved>>
      BY <1>4 DEF UpdateWallet, network
    <2>2. CASE Goto(t, "utxo")
      BY <1>0, <2>1, <2>2, SupplyMoves
    <2>3. CASE UNCHANGED pc
      BY <2>1, <2>3, SupplyStays
    <2> QED
      BY <1>4, <2>2, <2>3 DEF UpdateWallet
  <1>5. CASE AddBlockToUtxo(t)
    <2>1. pc[t] = "utxo" /\ Goto(t, "leave") /\ UNCHANGED <<tx, sent, block, decisions, pending, reserved>>
          /\ utxo' = (utxo \cup OutputsOf(block[t].txs)) \ InputsOf(block[t].txs)
      BY <1>5 DEF AddBlockToUtxo, network
    <2>2. t = Receiver
      BY <1>0, <2>1 DEF General, BlocksByReceiver, BlockSteps
    <2>3. block[t].txs \in SUBSET sent /\ InputsOf(block[t].txs) \subseteq utxo /\ Apart(block[t].txs)
      BY <1>0, <2>1, <2>2 DEF General, KnownTransactions, Alone, DecisionsAlone, Supply
    <2>4. ValueOf(utxo') = ValueOf(utxo)
      BY <2>1, <2>3, BlockKeepsWorth
    <2>5. StillFree'
      BY <1>0, <2>1 DEF Goto, General, Shapes, StillFree, Supply
    <2>6. ReservedOnce'
      BY <2>1 DEF ReservedOnce, Supply, InputsOf
    <2> QED
      BY <2>1, <2>4, <2>5, <2>6 DEF Supply
  <1>6. CASE IncrementView(t)
    BY <1>0, <1>6, SupplyMoves DEF IncrementView
  <1> QED
    BY <1>1, <1>2, <1>3, <1>4, <1>5, <1>6 DEF HandleBlock

-----------------------------------------------------------------------------
LEMMA SupplyInit == Init => SupplyInv
  <1> SUFFICES ASSUME Init PROVE SupplyInv
    OBVIOUS
  <1>1. AloneInv
    BY AloneInit
  <1>2. ReservedOnce /\ StillFree
    BY DEF Init, ReservedOnce, StillFree, InputsOf
  <1>3. Supply
    BY <1>2 DEF Init, Supply, Apart, NoBlock
  <1> QED
    BY <1>1, <1>3 DEF SupplyInv

LEMMA SupplyNext == SupplyInv /\ [Next]_vars => SupplyInv'
  <1> SUFFICES ASSUME SupplyInv, [Next]_vars, ~overlap' PROVE Supply'
    BY AloneNext DEF SupplyInv
  <1>1. AloneInv /\ ~overlap /\ Supply
    BY WasAlone DEF SupplyInv
  <1>2. ASSUME NEW o \in utxo, PeerPays(o) PROVE Supply'
    BY <1>1, <1>2, SupplyPeerPays
  <1>3. ASSUME NEW t \in Threads, CreateTransaction(t) PROVE Supply'
    BY <1>1, <1>3, SupplyCreate
  <1>4. ASSUME NEW t \in Threads, ReceiveTransaction(t) PROVE Supply'
    <2>1. PICK m \in inbox : tx' = [tx EXCEPT ![t] = m]
      BY <1>4 DEF ReceiveTransaction
    <2>2. Goto(t, "verify") /\ UNCHANGED <<block, pending, reserved, utxo, decisions, sent>>
      BY <1>4 DEF ReceiveTransaction, shared
    <2> QED
      BY <1>1, <2>1, <2>2, SupplyTakesUp DEF AloneInv
  <1>5. ASSUME NEW t \in Threads, HandleTransaction(t) PROVE Supply'
    BY <1>1, <1>5, SupplyHandleTransaction
  <1>6. ASSUME NEW t \in Threads, HandleBlock(t) PROVE Supply'
    BY <1>1, <1>6, SupplyHandleBlock
  <1>7. CASE UNCHANGED vars
    BY <1>1, <1>7, SupplyStays DEF vars, shared, network
  <1> QED
    BY <1>2, <1>3, <1>4, <1>5, <1>6, <1>7 DEF Next

\* Likewise: what is unspent is worth what the genesis block created.  No block is applied
\* twice and no coin is spent twice.
THEOREM SupplyIsKept == Spec => []SupplyKeptAlone
  <1>1. SupplyInv => SupplyKeptAlone
    BY DEF SupplyInv, Supply, SupplyKeptAlone
  <1> QED
    BY <1>1, SupplyInit, SupplyNext, PTL DEF Spec

=============================================================================
