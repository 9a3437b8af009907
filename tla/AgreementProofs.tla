-------------------------- MODULE AgreementProofs --------------------------
(***************************************************************************)
(* Agreement and the refinement of Ledger, for any number of nodes and any *)
(* number of rounds, under OneProposalSpec: all nodes start in one view,   *)
(* no leader proposes twice for a round, and a mining thread has reset the *)
(* cancel flag before its node handles a PREPARE.                          *)
(*                                                                         *)
(* The argument.  In every view there is one proposal, and the block its   *)
(* leader takes from the first good HASH_READY is the only one that votes  *)
(* for that view and height are about.  So a node's chain is the sequence  *)
(* of the blocks chosen by the leaders of the views it has been through.   *)
(***************************************************************************)
EXTENDS ConsensusLedger, UtxoProofs, SequenceTheorems

\* The view all nodes start with, if they start with the same.
FirstView == CHOOSE v \in InitViews : TRUE

LEMMA FirstViewType == FirstView \in Nat /\ FirstView \in InitViews
  BY BoundAssumption DEF FirstView

\* Where the block decided in view v goes, and the round that is about it.
Height(v) == v - FirstView + 1
Round(v) == <<v, Height(v)>>

\* The round of the node's view and its next block.
Current(n) == <<view[n], Len(chain[n])>>

\* The leader of view v has taken a mined block; that block.
Settled(v) ==
    /\ IsTracking(Leader(v), Round(v))
    /\ phase[Leader(v)][Round(v)].hashReady
Chosen(v) == phase[Leader(v)][Round(v)].block

\* The proposal a block was mined from.
Stripped(b) == [b EXCEPT !.miner = NoNode, !.mined = FALSE]
Proposed(v, b) == <<v, Stripped(b)>> \in proposals

\* The first h blocks of a chain and what they leave unspent.
TxsUpTo(n, h) == UNION {chain[n][i].txs : i \in 1 .. h}
UnspentAt(n, h) == (Genesis \cup CreatedBy(TxsUpTo(n, h))) \ SpentBy(TxsUpTo(n, h))

\* Block b was made of the proposal of view v, which is valid where it belongs.
Endorsed(v, b) ==
    LET n == Leader(v)
    IN  /\ Proposed(v, b)
        /\ b.time > chain[n][Height(v)].time
        /\ SpentBy(b.txs) \subseteq UnspentAt(n, Height(v))

\* A message about view v that reaches node k finds its leader, or a node that has left v.
Reaches(k, v) == k = Leader(v) \/ view[k] > v

-----------------------------------------------------------------------------
(* The inductive invariant *)

\* A proposal is its leader's, on top of the leader's chain, and tracked there.
ProposalSound(p) ==
    LET v == p[1]
        n == Leader(v)
    IN  /\ FirstView <= v /\ v <= view[n]
        /\ IsTracking(n, Round(v))
        /\ p[2].index = Height(v)
        /\ p[2].prev = HeaderHash(chain[n][Height(v)])
        /\ p[2] = Stripped(p[2])

\* There is one proposal in a view.
OneProposal == \A p, q \in proposals : p[1] = q[1] => p = q

\* A vote for the round of its view is for the chosen block.  A vote for another round
\* is possible (onHashReady names its current view whatever round the block is of), but
\* nobody tracks that round.
MessageSound(m) ==
    /\ m.type = "PREPREPARE" => <<m.view, m.block>> \in proposals /\ m.to # Leader(m.view)
    /\ m.type = "HASH_READY" => Endorsed(m.view, m.block) /\ Reaches(m.to, m.view)
    /\ m.type \in {"PREPARE", "COMMIT"} /\ m.block.index = Height(m.view) =>
          Settled(m.view) /\ m.block = Chosen(m.view)

ThreadSound(n, th) ==
    /\ Endorsed(th.view, th.block)
    /\ th.view <= view[n]
    /\ th.pc = "sending" => Reaches(th.to, th.view)

\* A tracked round is that of a view the node has reached, and tracks its proposal.
RoundSound(n, r) ==
    /\ FirstView <= r[1] /\ r[1] <= view[n] /\ r[2] = Height(r[1])
    /\ Proposed(r[1], phase[n][r].block)

\* A chain is the sequence of the blocks chosen in the views the node has been through.
ChainSound(n) ==
    /\ view[n] = FirstView + Len(chain[n]) - 1
    /\ chain[n][1] = GenesisBlock
    /\ \A i \in 2 .. Len(chain[n]) :
          Settled(FirstView + i - 2) /\ chain[n][i] = Chosen(FirstView + i - 2)

\* The flag stays up from the moment the current round is prepared until the node mines
\* for its next one, so no thread of an earlier view reports to a leader that is not
\* there yet.
FlagSound(n) ==
    /\ IsTracking(n, Current(n)) /\ phase[n][Current(n)].prepared =>
          cancel[n] /\ \A th \in miners[n] : th.pc # "starting"
    /\ \A th \in miners[n] : ~cancel[n] \/ th.pc = "starting" => IsTracking(n, Current(n))

ChosenEndorsed == \A v \in Nat : FirstView <= v /\ Settled(v) => Endorsed(v, Chosen(v))

AgreeInv ==
    /\ LedgerInv
    /\ CommitsMatchChain
    /\ OneProposal
    /\ \A p \in proposals : ProposalSound(p)
    /\ \A m \in net : MessageSound(m)
    /\ \A n \in Nodes : \A th \in miners[n] : ThreadSound(n, th)
    /\ \A n \in Nodes : \A r \in DOMAIN phase[n] : RoundSound(n, r)
    /\ \A n \in Nodes : ChainSound(n)
    /\ \A n \in Nodes : FlagSound(n)
    /\ ChosenEndorsed

-----------------------------------------------------------------------------
(* Facts about one state *)

\* The parts of the types that the proofs use.
LEMMA Typed ==
  ASSUME AgreeInv
  PROVE  /\ TypeOK /\ RoundInv /\ LedgerInv
         /\ view \in [Nodes -> Nat]
         /\ chain \in [Nodes -> Seq(Blocks) \ {<<>>}]
         /\ \A n \in Nodes : Len(chain[n]) \in Nat \ {0}
         /\ \A n \in Nodes : \A i \in 1 .. Len(chain[n]) : chain[n][i] \in Blocks
         /\ DOMAIN phase = Nodes
         /\ \A n \in Nodes : \A r \in DOMAIN phase[n] : r \in Rounds /\ phase[n][r] \in PhaseStates
         /\ miners \in [Nodes -> SUBSET Threads]
         /\ net \subseteq Messages
         /\ proposals \subseteq Nat \X Blocks
  <1>1. TypeOK /\ RoundInv /\ LedgerInv
    BY DEF AgreeInv, LedgerInv, RoundInv
  <1>2. chain \in [Nodes -> Seq(Blocks) \ {<<>>}]
    BY <1>1 DEF TypeOK
  <1>3. \A n \in Nodes : Len(chain[n]) \in Nat \ {0}
    BY <1>2
  <1>4. \A n \in Nodes : \A i \in 1 .. Len(chain[n]) : chain[n][i] \in Blocks
    BY <1>2
  <1>5. \A n \in Nodes : \A r \in DOMAIN phase[n] : r \in Rounds /\ phase[n][r] \in PhaseStates
    BY <1>1 DEF TypeOK
  <1> QED
    BY <1>1, <1>2, <1>3, <1>4, <1>5 DEF TypeOK

\* What a miner does to a block leaves its proposal as it is.
LEMMA StrippedSame ==
  ASSUME NEW b \in Blocks
  PROVE  /\ Stripped(b) \in Blocks
         /\ Stripped(b).index = b.index /\ Stripped(b).prev = b.prev
         /\ Stripped(b).time = b.time /\ Stripped(b).txs = b.txs
         /\ Stripped(b).proposer = b.proposer
         /\ \A k \in Nodes : Stripped([b EXCEPT !.miner = k]) = Stripped(b)
         /\ Stripped([b EXCEPT !.mined = TRUE]) = Stripped(b)
         /\ (b.miner = NoNode /\ b.mined = FALSE => Stripped(b) = b)
  BY DEF Stripped, Blocks

\* A view that has a proposal is one its leader has reached, so the leader's chain is
\* long enough to say whether the proposal is valid.
LEMMA ProposedView ==
  ASSUME AgreeInv, NEW v, NEW b, Proposed(v, b)
  PROVE  /\ v \in Nat /\ Leader(v) \in Nodes
         /\ FirstView <= v /\ v <= view[Leader(v)]
         /\ Height(v) \in 1 .. Len(chain[Leader(v)])
         /\ IsTracking(Leader(v), Round(v))
  <1> DEFINE p == <<v, Stripped(b)>>
             n == Leader(v)
  <1>1. p \in proposals /\ ProposalSound(p)
    BY DEF Proposed, AgreeInv
  <1>2. v \in Nat
    BY <1>1, Typed
  <1>3. n \in Nodes
    BY <1>2, LeaderIsNode
  <1>4. FirstView <= v /\ v <= view[n] /\ IsTracking(n, Round(v))
    BY <1>1 DEF ProposalSound
  <1>5. view[n] = FirstView + Len(chain[n]) - 1 /\ view[n] \in Nat /\ Len(chain[n]) \in Nat
    BY <1>3, Typed DEF AgreeInv, ChainSound
  <1> QED
    BY <1>2, <1>3, <1>4, <1>5, FirstViewType DEF Height

\* Nodes that have a block at the same height have the same block there.
LEMMA ChainsAgree == AgreeInv => Agreement
  <1> SUFFICES ASSUME AgreeInv, NEW n \in Nodes, NEW k \in Nodes,
                      NEW i \in 1 .. Len(chain[n]), i <= Len(chain[k])
               PROVE  chain[n][i] = chain[k][i]
    BY DEF Agreement
  <1>1. ChainSound(n) /\ ChainSound(k)
    BY DEF AgreeInv
  <1>2. Len(chain[n]) \in Nat /\ Len(chain[k]) \in Nat
    BY Typed
  <1>3. CASE i = 1
    BY <1>1, <1>3 DEF ChainSound
  <1>4. CASE i # 1
    <2>1. i \in 2 .. Len(chain[n]) /\ i \in 2 .. Len(chain[k])
      BY <1>2, <1>4
    <2> QED
      BY <1>1, <2>1 DEF ChainSound
  <1> QED
    BY <1>3, <1>4

\* For a node in view v, the leader's chain below the proposal is the node's own.
LEMMA SameGround ==
  ASSUME AgreeInv, NEW n \in Nodes, NEW b, Proposed(view[n], b)
  PROVE  /\ Height(view[n]) = Len(chain[n])
         /\ chain[Leader(view[n])][Height(view[n])] = Last(chain[n])
         /\ UnspentAt(Leader(view[n]), Height(view[n])) = utxo[n]
  <1> DEFINE v == view[n]
             k == Leader(v)
             h == Height(v)
  <1>1. k \in Nodes /\ v \in Nat /\ h \in 1 .. Len(chain[k])
    BY ProposedView
  <1>2. Len(chain[n]) \in Nat \ {0} /\ Len(chain[k]) \in Nat
    BY <1>1, Typed
  <1>3. h = Len(chain[n])
    <2>1. v = FirstView + Len(chain[n]) - 1
      BY DEF AgreeInv, ChainSound
    <2> QED
      BY <1>1, <1>2, <2>1, FirstViewType DEF Height
  <1> HIDE DEF v, k, h
  <1>4. \A i \in 1 .. h : chain[k][i] = chain[n][i]
    BY <1>1, <1>2, <1>3, ChainsAgree DEF Agreement
  <1>5. chain[k][h] = Last(chain[n])
    BY <1>1, <1>3, <1>4 DEF Last
  <1>6. TxsUpTo(k, h) = ChainTxs(n)
    <2>1. TxsUpTo(k, h) = UNION {chain[n][i].txs : i \in 1 .. h}
      BY <1>4 DEF TxsUpTo
    <2> QED
      BY <1>3, <2>1 DEF ChainTxs
  <1>7. LedgerSound(n)
    BY DEF AgreeInv, LedgerInv, LedgersSound, NoneRefused, CommitsMatchChain
  <1>8. UnspentAt(k, h) = utxo[n]
    BY <1>6, <1>7 DEF UnspentAt, LedgerSound, Replays
  <1> QED
    BY <1>3, <1>5, <1>8 DEF v, k, h

\* So what one follower found valid is valid for every node in that view.
LEMMA EndorsedIsValid ==
  ASSUME AgreeInv, NEW n \in Nodes, NEW b \in Blocks, Endorsed(view[n], b)
  PROVE  IsBlockValid(n, b)
  <1> DEFINE p == <<view[n], Stripped(b)>>
  <1>1. Proposed(view[n], b)
    BY DEF Endorsed
  <1>2. ProposalSound(p)
    BY <1>1 DEF AgreeInv, Proposed
  <1>3. /\ Height(view[n]) = Len(chain[n])
        /\ chain[Leader(view[n])][Height(view[n])] = Last(chain[n])
        /\ UnspentAt(Leader(view[n]), Height(view[n])) = utxo[n]
    BY <1>1, SameGround
  <1>4. b.index = Len(chain[n]) /\ b.prev = HeaderHash(Last(chain[n]))
    BY <1>2, <1>3, StrippedSame DEF ProposalSound
  <1>5. Len(chain[n]) \in Nat \ {0}
    BY Typed
  <1>6. Last(chain[n]).index = Len(chain[n]) - 1
    <2>1. Indexed
      BY DEF AgreeInv, LedgerInv, RoundInv
    <2>2. Len(chain[n]) \in 1 .. Len(chain[n])
      BY <1>5
    <2> QED
      BY <2>1, <2>2 DEF Indexed, Last
  <1>7. b.time > Last(chain[n]).time /\ SpentBy(b.txs) \subseteq utxo[n]
    BY <1>3 DEF Endorsed
  <1>8. VerifyBlockTransactions(n, b)
    BY <1>7 DEF VerifyBlockTransactions, SpentBy
  <1> QED
    BY <1>4, <1>5, <1>6, <1>7, <1>8 DEF IsBlockValid

LEMMA ValidIsEndorsed ==
  ASSUME AgreeInv, NEW n \in Nodes, NEW b \in Blocks, Proposed(view[n], b), IsBlockValid(n, b)
  PROVE  Endorsed(view[n], b)
  <1>1. SpentBy(b.txs) \subseteq utxo[n] /\ b.time > Last(chain[n]).time
    BY DEF IsBlockValid, VerifyBlockTransactions, SpentBy
  <1> QED
    BY <1>1, SameGround DEF Endorsed

-----------------------------------------------------------------------------
(* What only grows *)

\* Whatever a step does to chosen blocks, it neither takes one back nor changes it.
ChosenStays == \A v \in Nat : Settled(v) => Settled(v)' /\ Chosen(v)' = Chosen(v)
NoneNewlySettled == \A v \in Nat : Settled(v)' => Settled(v)

TrackedStays == \A n \in Nodes : DOMAIN phase[n] \subseteq DOMAIN phase'[n]

ChainsGrow ==
    \A n \in Nodes :
        /\ view[n] <= view'[n]
        /\ view'[n] \in Nat
        /\ Len(chain[n]) <= Len(chain'[n])
        /\ \A i \in 1 .. Len(chain[n]) : chain'[n][i] = chain[n][i]

Grows == ChosenStays /\ TrackedStays /\ ChainsGrow /\ proposals \subseteq proposals'

LEMMA ChainsKept ==
  ASSUME AgreeInv, UNCHANGED <<view, chain>>
  PROVE  ChainsGrow
  BY Typed DEF ChainsGrow

LEMMA PhaseKept ==
  ASSUME UNCHANGED phase
  PROVE  ChosenStays /\ NoneNewlySettled /\ TrackedStays
  BY DEF ChosenStays, NoneNewlySettled, TrackedStays, Settled, Chosen, IsTracking

\* Tracking a round, unless a leader tracks its own once more.
LEMMA PhaseAdded ==
  ASSUME AgreeInv, NEW n \in Nodes, NEW r \in Rounds, NEW b \in Blocks,
         phase' = AddNewPhaseState(n, r, b),
         n = Leader(r[1]) => r \notin DOMAIN phase[n]
  PROVE  ChosenStays /\ NoneNewlySettled /\ TrackedStays
  <1>1. DOMAIN phase = Nodes /\ \A v \in Nat : Leader(v) \in Nodes
    BY Typed, LeaderIsNode
  <1>2. \A k \in Nodes \ {n} : phase'[k] = phase[k]
    BY <1>1 DEF AddNewPhaseState
  <1>3. /\ DOMAIN phase'[n] = DOMAIN phase[n] \cup {r}
        /\ \A q \in DOMAIN phase[n] \ {r} : phase'[n][q] = phase[n][q]
        /\ phase'[n][r].hashReady = FALSE
    BY <1>1 DEF AddNewPhaseState, NewPhaseState
  <1>4. TrackedStays
    BY <1>2, <1>3 DEF TrackedStays
  <1>5. ASSUME NEW v \in Nat, Settled(v) PROVE Settled(v)' /\ Chosen(v)' = Chosen(v)
    <2>1. ~(Leader(v) = n /\ Round(v) = r)
      BY <1>5 DEF Settled, IsTracking, Round
    <2> QED
      BY <1>1, <1>2, <1>3, <1>5, <2>1 DEF Settled, Chosen, IsTracking
  <1>6. ASSUME NEW v \in Nat, Settled(v)' PROVE Settled(v)
    <2>1. ~(Leader(v) = n /\ Round(v) = r)
      BY <1>3, <1>6 DEF Settled
    <2> QED
      BY <1>1, <1>2, <1>3, <1>6, <2>1 DEF Settled, IsTracking
  <1> QED
    BY <1>4, <1>5, <1>6 DEF ChosenStays, NoneNewlySettled

\* Changing a round, but not whether its block is chosen, nor a chosen block; or
\* changing it at a node that does not choose for this round.
LEMMA PhaseChanged ==
  ASSUME AgreeInv, NEW n \in Nodes, NEW r \in DOMAIN phase[n], NEW s,
         phase' = [phase EXCEPT ![n][r] = s],
         \/ n # Leader(r[1])
         \/ s.hashReady = phase[n][r].hashReady /\ s.block = phase[n][r].block
  PROVE  ChosenStays /\ NoneNewlySettled /\ TrackedStays
  <1>1. DOMAIN phase = Nodes /\ \A v \in Nat : Leader(v) \in Nodes
        /\ phase[n] = [q \in DOMAIN phase[n] |-> phase[n][q]]
    <2>1. phase[n] \in [DOMAIN phase[n] -> PhaseStates]
      BY Typed DEF TypeOK
    <2> QED
      BY <2>1, Typed, LeaderIsNode
  <1>2. \A k \in Nodes \ {n} : phase'[k] = phase[k]
    BY <1>1
  <1>3. /\ DOMAIN phase'[n] = DOMAIN phase[n] /\ phase'[n][r] = s
        /\ \A q \in DOMAIN phase[n] \ {r} : phase'[n][q] = phase[n][q]
    BY <1>1
  <1>4. TrackedStays
    BY <1>2, <1>3 DEF TrackedStays
  <1>5. ASSUME NEW v \in Nat
        PROVE  (Settled(v) <=> Settled(v)') /\ (Settled(v) => Chosen(v)' = Chosen(v))
    <2>1. CASE Leader(v) = n /\ Round(v) = r
      <3>1. n = Leader(r[1])
        BY <2>1 DEF Round
      <3> QED
        BY <1>3, <2>1, <3>1 DEF Settled, Chosen, IsTracking
    <2>2. CASE ~(Leader(v) = n /\ Round(v) = r)
      BY <1>1, <1>2, <1>3, <2>2 DEF Settled, Chosen, IsTracking
    <2> QED
      BY <2>1, <2>2
  <1> QED
    BY <1>4, <1>5 DEF ChosenStays, NoneNewlySettled

-----------------------------------------------------------------------------
(* What stays sound by itself *)

LEMMA EndorsedStays ==
  ASSUME AgreeInv, Grows, NEW v, NEW b, Endorsed(v, b)
  PROVE  Endorsed(v, b)'
  <1> DEFINE n == Leader(v)
             h == Height(v)
  <1>1. Proposed(v, b) /\ Proposed(v, b)'
    BY DEF Endorsed, Proposed, Grows
  <1>2. n \in Nodes /\ h \in 1 .. Len(chain[n])
    BY <1>1, ProposedView
  <1> HIDE DEF n, h
  <1>3. \A i \in 1 .. h : chain'[n][i] = chain[n][i]
    BY <1>2, Typed DEF Grows, ChainsGrow
  <1>4. TxsUpTo(n, h)' = TxsUpTo(n, h)
    BY <1>3 DEF TxsUpTo
  <1>5. UnspentAt(n, h)' = UnspentAt(n, h)
    BY <1>4 DEF UnspentAt
  <1>6. chain'[n][h] = chain[n][h]
    BY <1>2, <1>3
  <1> QED
    BY <1>1, <1>5, <1>6 DEF Endorsed, n, h

LEMMA ReachesStays ==
  ASSUME AgreeInv, Grows, NEW k \in Nodes, NEW v \in Nat, Reaches(k, v)
  PROVE  Reaches(k, v)'
  BY Typed DEF Reaches, Grows, ChainsGrow

LEMMA ProposalStays ==
  ASSUME AgreeInv, Grows, NEW p \in proposals
  PROVE  ProposalSound(p)'
  <1> DEFINE v == p[1]
             n == Leader(v)
             h == Height(v)
  <1>1. p \in Nat \X Blocks
    BY Typed
  <1>2. ProposalSound(p)
    BY DEF AgreeInv
  <1>3. p = <<v, Stripped(p[2])>>
    BY <1>1, <1>2 DEF ProposalSound
  <1>4. Proposed(v, p[2])
    BY <1>3 DEF Proposed
  <1>5. v \in Nat /\ n \in Nodes /\ h \in 1 .. Len(chain[n]) /\ FirstView <= v
        /\ v <= view[n] /\ IsTracking(n, Round(v))
    BY <1>4, ProposedView
  <1>6. chain'[n][h] = chain[n][h] /\ v <= view'[n]
    BY <1>5, Typed DEF Grows, ChainsGrow
  <1>7. IsTracking(n, Round(v))'
    BY <1>5 DEF IsTracking, Grows, TrackedStays
  <1> QED
    BY <1>2, <1>5, <1>6, <1>7 DEF ProposalSound

LEMMA MessageStays ==
  ASSUME AgreeInv, Grows, NEW m \in net
  PROVE  MessageSound(m)'
  <1>1. MessageSound(m)
    BY DEF AgreeInv
  <1>2. m.type # "NEW_TRANSACTION" => m.to \in Nodes /\ m.view \in Nat
    BY BlockMessageFields, Typed
  <1>3. m.type = "PREPREPARE" => <<m.view, m.block>> \in proposals'
    BY <1>1 DEF MessageSound, Grows
  <1>4. m.type = "HASH_READY" => Endorsed(m.view, m.block)' /\ Reaches(m.to, m.view)'
    BY <1>1, <1>2, EndorsedStays, ReachesStays DEF MessageSound
  <1>5. m.type \in {"PREPARE", "COMMIT"} /\ m.block.index = Height(m.view) =>
          Settled(m.view)' /\ m.block = Chosen(m.view)'
    BY <1>1, <1>2 DEF MessageSound, Grows, ChosenStays
  <1> QED
    BY <1>1, <1>3, <1>4, <1>5 DEF MessageSound

LEMMA ThreadStays ==
  ASSUME AgreeInv, Grows, NEW n \in Nodes, NEW th \in miners[n]
  PROVE  ThreadSound(n, th)'
  <1>1. ThreadSound(n, th) /\ th \in Threads
    BY Typed DEF AgreeInv
  <1>2. th.view \in Nat /\ (th.pc = "sending" => th.to \in Nodes)
    BY <1>1 DEF Threads
  <1>3. Endorsed(th.view, th.block)'
    BY <1>1, EndorsedStays DEF ThreadSound
  <1>4. th.pc = "sending" => Reaches(th.to, th.view)'
    BY <1>1, <1>2, ReachesStays DEF ThreadSound
  <1>5. th.view <= view'[n]
    BY <1>1, <1>2, Typed DEF ThreadSound, Grows, ChainsGrow
  <1> QED
    BY <1>3, <1>4, <1>5 DEF ThreadSound

\* A round that is changed, but tracks a block of the same proposal as before.
LEMMA RoundStays ==
  ASSUME AgreeInv, Grows, NEW n \in Nodes, NEW r \in DOMAIN phase[n],
         Stripped(phase'[n][r].block) = Stripped(phase[n][r].block)
  PROVE  RoundSound(n, r)'
  <1>1. RoundSound(n, r) /\ r \in Rounds
    BY Typed DEF AgreeInv
  <1>2. r[1] <= view'[n]
    BY <1>1, Typed DEF RoundSound, Rounds, Grows, ChainsGrow
  <1> QED
    BY <1>1, <1>2 DEF RoundSound, Proposed, Grows

LEMMA ChainStays ==
  ASSUME AgreeInv, Grows, NEW n \in Nodes, view'[n] = view[n], chain'[n] = chain[n]
  PROVE  ChainSound(n)'
  <1>1. ChainSound(n)
    BY DEF AgreeInv
  <1>2. ASSUME NEW i \in 2 .. Len(chain[n])
        PROVE  Settled(FirstView + i - 2)' /\ chain[n][i] = Chosen(FirstView + i - 2)'
    <2>1. FirstView + i - 2 \in Nat
      BY Typed, FirstViewType
    <2> QED
      BY <1>1, <2>1 DEF ChainSound, Grows, ChosenStays
  <1> QED
    BY <1>1, <1>2 DEF ChainSound

\* If no block is newly chosen, those that are stay endorsed.
LEMMA ChosenEndorsedStays ==
  ASSUME AgreeInv, Grows, NoneNewlySettled
  PROVE  ChosenEndorsed'
  <1> SUFFICES ASSUME NEW v \in Nat, FirstView <= v, Settled(v)' PROVE Endorsed(v, Chosen(v))'
    BY DEF ChosenEndorsed
  <1>1. Settled(v) /\ Chosen(v)' = Chosen(v)
    BY DEF NoneNewlySettled, Grows, ChosenStays
  <1>2. Endorsed(v, Chosen(v))
    BY <1>1 DEF AgreeInv, ChosenEndorsed
  <1>3. PICK b : b = Chosen(v)
    OBVIOUS
  <1>4. Endorsed(v, b)'
    BY <1>2, <1>3, EndorsedStays
  <1> QED
    BY <1>1, <1>3, <1>4

-----------------------------------------------------------------------------
(* Steps: what is new is sound as well *)

LEMMA Assemble ==
  ASSUME AgreeInv, LedgerInv', Grows, CommitsMatchChain', ChosenEndorsed', OneProposal',
         \A p \in proposals' \ proposals : ProposalSound(p)',
         \A m \in net' \ net : MessageSound(m)',
         \A n \in Nodes : \A th \in miners'[n] \ miners[n] : ThreadSound(n, th)',
         \A n \in Nodes : \A r \in DOMAIN phase'[n] : RoundSound(n, r)',
         \A n \in Nodes : ChainSound(n)',
         \A n \in Nodes : FlagSound(n)'
  PROVE  AgreeInv'
  <1>1. \A p \in proposals' : ProposalSound(p)'
    BY ProposalStays
  <1>2. \A m \in net' : MessageSound(m)'
    BY MessageStays
  <1>3. \A n \in Nodes : \A th \in miners'[n] : ThreadSound(n, th)'
    BY ThreadStays
  <1> QED
    BY <1>1, <1>2, <1>3 DEF AgreeInv

\* Most steps choose, propose and append nothing.
LEMMA AssembleQuiet ==
  ASSUME AgreeInv, LedgerInv', ChosenStays, NoneNewlySettled, TrackedStays,
         UNCHANGED <<view, chain, proposals>>,
         \A n \in Nodes : CommittedRounds(n)' = CommittedRounds(n),
         \A m \in net' \ net : Grows => MessageSound(m)',
         \A n \in Nodes : \A th \in miners'[n] \ miners[n] : Grows => ThreadSound(n, th)',
         \A n \in Nodes : \A r \in DOMAIN phase'[n] : Grows => RoundSound(n, r)',
         \A n \in Nodes : FlagSound(n)'
  PROVE  AgreeInv'
  <1>1. Grows
    BY ChainsKept DEF Grows
  <1>2. CommitsMatchChain'
    BY DEF AgreeInv, CommitsMatchChain
  <1>3. OneProposal'
    BY DEF AgreeInv, OneProposal
  <1>4. \A n \in Nodes : ChainSound(n)'
    BY <1>1, ChainStays
  <1> QED
    BY <1>1, <1>2, <1>3, <1>4, ChosenEndorsedStays, Assemble

\* Rounds nobody touched.
LEMMA RoundsKept ==
  ASSUME AgreeInv, UNCHANGED phase
  PROVE  /\ \A n \in Nodes : \A r \in DOMAIN phase'[n] : Grows => RoundSound(n, r)'
         /\ \A n \in Nodes : CommittedRounds(n)' = CommittedRounds(n)
  BY RoundStays DEF CommittedRounds

\* One round touched, without changing its proposal.
LEMMA RoundsChanged ==
  ASSUME AgreeInv, NEW n \in Nodes, NEW r \in DOMAIN phase[n], NEW s,
         phase' = [phase EXCEPT ![n][r] = s], Stripped(s.block) = Stripped(phase[n][r].block)
  PROVE  /\ \A k \in Nodes : \A q \in DOMAIN phase'[k] : Grows => RoundSound(k, q)'
         /\ \A k \in Nodes : DOMAIN phase'[k] = DOMAIN phase[k]
         /\ phase'[n][r] = s
         /\ \A k \in Nodes : \A q \in DOMAIN phase[k] :
               k # n \/ q # r => phase'[k][q] = phase[k][q]
  <1>1. DOMAIN phase = Nodes /\ phase[n] \in [DOMAIN phase[n] -> PhaseStates]
    BY Typed DEF TypeOK
  <1>2. \A k \in Nodes : DOMAIN phase'[k] = DOMAIN phase[k]
    BY <1>1
  <1>3. /\ phase'[n][r] = s
        /\ \A k \in Nodes : \A q \in DOMAIN phase[k] :
              k # n \/ q # r => phase'[k][q] = phase[k][q]
    BY <1>1
  <1>4. ASSUME NEW k \in Nodes, NEW q \in DOMAIN phase[k], Grows PROVE RoundSound(k, q)'
    <2>1. Stripped(phase'[k][q].block) = Stripped(phase[k][q].block)
      BY <1>3
    <2> QED
      BY <1>4, <2>1, RoundStays
  <1> QED
    BY <1>2, <1>3, <1>4

\* The current round tracked anew, for the proposal of the view.
LEMMA RoundsAdded ==
  ASSUME AgreeInv, NEW n \in Nodes, NEW b \in Blocks,
         phase' = AddNewPhaseState(n, Current(n), b), Proposed(view[n], b)',
         UNCHANGED <<view, chain>>
  PROVE  /\ \A k \in Nodes : \A q \in DOMAIN phase'[k] : Grows => RoundSound(k, q)'
         /\ Current(n) \in DOMAIN phase'[n] /\ ~phase'[n][Current(n)].prepared
         /\ \A k \in Nodes \ {n} : phase'[k] = phase[k]
  <1> DEFINE r == Current(n)
  <1>1. DOMAIN phase = Nodes /\ r \in Rounds /\ ChainSound(n) /\ Len(chain[n]) \in Nat \ {0}
        /\ view[n] \in Nat
    BY Typed DEF Current, Rounds, AgreeInv
  <1>2. \A k \in Nodes \ {n} : phase'[k] = phase[k]
    BY <1>1 DEF AddNewPhaseState
  <1>3. /\ DOMAIN phase'[n] = DOMAIN phase[n] \cup {r}
        /\ \A q \in DOMAIN phase[n] \ {r} : phase'[n][q] = phase[n][q]
        /\ phase'[n][r].block = b /\ phase'[n][r].prepared = FALSE
    BY <1>1 DEF AddNewPhaseState, NewPhaseState
  <1>4. ASSUME NEW k \in Nodes, NEW q \in DOMAIN phase'[k], Grows PROVE RoundSound(k, q)'
    <2>1. CASE k = n /\ q = r
      <3>1. FirstView <= view[n] /\ Len(chain[n]) = Height(view[n])
        BY <1>1, FirstViewType DEF ChainSound, Height
      <3>2. q[1] = view[n] /\ q[2] = Len(chain[n]) /\ k = n
        BY <2>1 DEF Current
      <3>3. phase'[k][q].block = b
        BY <1>3, <2>1
      <3> QED
        BY <1>1, <3>1, <3>2, <3>3 DEF RoundSound
    <2>2. CASE ~(k = n /\ q = r)
      <3>1. q \in DOMAIN phase[k] /\ phase'[k][q] = phase[k][q]
        BY <1>2, <1>3, <2>2
      <3> QED
        BY <1>4, <3>1, RoundStays
    <2> QED
      BY <2>1, <2>2
  <1> QED
    BY <1>2, <1>3, <1>4

\* A step that tracks nothing, prepares nothing and leaves the views alone disturbs no
\* flag, if it raises no thread to "starting" and does not lower the flag.
LEMMA FlagKept ==
  ASSUME AgreeInv, NEW n \in Nodes, view'[n] = view[n], chain'[n] = chain[n],
         DOMAIN phase'[n] = DOMAIN phase[n],
         \A r \in DOMAIN phase[n] : phase'[n][r].prepared = phase[n][r].prepared,
         cancel[n] => cancel'[n],
         \A th \in miners'[n] : th \in miners[n] \/ (th.pc # "starting" /\ miners[n] # {})
  PROVE  FlagSound(n)'
  <1>1. FlagSound(n) /\ Current(n)' = Current(n)
    BY DEF AgreeInv, Current
  <1>2. IsTracking(n, Current(n))' <=> IsTracking(n, Current(n))
    BY <1>1 DEF IsTracking
  <1> QED
    BY <1>1, <1>2 DEF FlagSound, IsTracking

LEMMA AgreeUnchanged ==
  ASSUME AgreeInv, LedgerInv', UNCHANGED vars
  PROVE  AgreeInv'
  <1>1. \A n \in Nodes : FlagSound(n)'
    BY FlagKept DEF vars
  <1> QED
    BY <1>1, PhaseKept, RoundsKept, AssembleQuiet DEF vars

LEMMA AgreeCreateTransaction ==
  ASSUME AgreeInv, LedgerInv', NEW t \in Txs, CreateTransaction(t)
  PROVE  AgreeInv'
  <1>1. UNCHANGED <<view, chain, phase, cancel, miners, proposals>>
    BY DEF CreateTransaction
  <1>2. \A n \in Nodes : FlagSound(n)'
    BY <1>1, FlagKept
  <1>3. \A m \in net' \ net : MessageSound(m)'
    BY DEF CreateTransaction, NewTransaction, MessageSound
  <1> QED
    BY <1>1, <1>2, <1>3, PhaseKept, RoundsKept, AssembleQuiet

\* A leader proposes for a round it does not track yet, so there is no proposal for its
\* view so far.
LEMMA AgreeOnNewTransaction ==
  ASSUME AgreeInv, LedgerInv', Once, NEW n \in Nodes, NEW m \in net, m.to = n,
         OnNewTransaction(n, m)
  PROVE  AgreeInv'
  <1> DEFINE pending == mempool[n] \cup {m.tx}
             v == view[n]
  <1>1. UNCHANGED <<view, chain, cancel, miners>> /\ m.type = "NEW_TRANSACTION"
    BY DEF OnNewTransaction
  <1>2. \A k \in Nodes : CommittedRounds(k)' = CommittedRounds(k)
    BY Typed, OthersCommitNothing
  <1>3. CASE net' = net \ {m} /\ UNCHANGED <<phase, proposals>>
    <2>1. \A k \in Nodes : FlagSound(k)'
      BY <1>1, <1>3, FlagKept
    <2> QED
      BY <1>1, <1>3, <2>1, PhaseKept, RoundsKept, AssembleQuiet
  <1>4. ASSUME NEW b \in CommitBlock(n, pending), Acceptable(n, m.tx), Proposing(n, m.tx),
               phase' = AddNewPhaseState(n, <<v, b.index>>, b),
               net' = (net \ {m}) \cup Broadcast("PREPREPARE", n, v, b),
               proposals' = proposals \cup {<<v, b>>}
        PROVE  AgreeInv'
    <2>1. pending \in SUBSET Txs
      BY Typed, PendingType DEF OnNewTransaction
    <2>2. v \in Nat /\ chain[n] \in Seq(Blocks) \ {<<>>} /\ Len(chain[n]) \in Nat \ {0}
      BY Typed
    <2>3. b.prev = HeaderHash(Last(chain[n])) /\ b.mined = FALSE
      BY DEF CommitBlock
    <2> HIDE DEF pending
    <2>4. b \in Blocks /\ b.index = Len(chain[n]) /\ b.miner = NoNode
      BY <2>1, <2>2, CommitBlockType
    <2>5. Stripped(b) = b
      BY <2>3, <2>4, StrippedSame
    <2>6. n = Leader(v) /\ ~IsTracking(n, Current(n))
      <3>1. m \notin net'
        BY <1>1, <1>4 DEF Broadcast, LeaderMessage
      <3> QED
        BY <1>1, <1>4, <3>1 DEF Once, Proposing, Current
    <2>7. Height(v) = Len(chain[n]) /\ FirstView <= v
      BY <2>2, FirstViewType DEF AgreeInv, ChainSound, Height
    <2>8. <<v, b.index>> = Current(n) /\ Current(n) = Round(v) /\ Current(n) \in Rounds
      BY <2>2, <2>4, <2>7 DEF Current, Round, Rounds
    <2>9. ChosenStays /\ NoneNewlySettled /\ TrackedStays
      BY <1>4, <2>4, <2>6, <2>8, PhaseAdded DEF IsTracking
    <2>10. Grows
      BY <1>1, <1>4, <2>9, ChainsKept DEF Grows
    <2>11. Proposed(v, b)'
      BY <1>1, <1>4, <2>5 DEF Proposed
    <2>12. /\ \A k \in Nodes : \A q \in DOMAIN phase'[k] : Grows => RoundSound(k, q)'
           /\ Current(n) \in DOMAIN phase'[n] /\ ~phase'[n][Current(n)].prepared
           /\ \A k \in Nodes \ {n} : phase'[k] = phase[k]
      BY <1>1, <1>4, <2>4, <2>8, <2>11, RoundsAdded
    <2>13. \A p \in proposals : p[1] # v
      <3> SUFFICES ASSUME NEW p \in proposals, p[1] = v PROVE FALSE
        OBVIOUS
      <3>1. IsTracking(Leader(v), Round(v))
        BY DEF AgreeInv, ProposalSound
      <3> QED
        BY <2>6, <2>8, <3>1
    <2>14. OneProposal'
      <3>1. \A p, q \in proposals : p[1] = q[1] => p = q
        BY DEF AgreeInv, OneProposal
      <3>2. <<v, b>>[1] = v
        OBVIOUS
      <3> HIDE DEF v
      <3> QED
        BY <1>4, <2>13, <3>1, <3>2 DEF OneProposal
    <2>15. ASSUME NEW p \in proposals' \ proposals PROVE ProposalSound(p)'
      <3>1. p[1] = v /\ p[2] = b
        BY <1>4, <2>15
      <3>2. IsTracking(n, Round(p[1]))'
        BY <2>8, <2>12, <3>1 DEF IsTracking, Round
      <3>3. chain[n][Height(v)] = Last(chain[n])
        BY <2>7 DEF Last
      <3>4. v <= view'[n] /\ chain'[n] = chain[n]
        BY <1>1, <2>2
      <3> HIDE DEF v
      <3> QED
        BY <2>3, <2>4, <2>5, <2>6, <2>7, <3>1, <3>2, <3>3, <3>4 DEF ProposalSound
    <2>16. ASSUME NEW k \in net' \ net PROVE MessageSound(k)'
      <3>1. k.type = "PREPREPARE" /\ k.view = v /\ k.block = b /\ k.to # n
        BY <1>4, <2>16 DEF Broadcast, LeaderMessage
      <3>2. <<k.view, k.block>> \in proposals' /\ k.to # Leader(k.view)
        BY <1>4, <2>6, <3>1
      <3> QED
        BY <3>1, <3>2 DEF MessageSound
    <2>17. ASSUME NEW k \in Nodes PROVE FlagSound(k)'
      <3>1. CASE k = n
        <4>1. Current(n)' = Current(n)
          BY <1>1 DEF Current
        <4> QED
          BY <2>12, <3>1, <4>1 DEF FlagSound, IsTracking
      <3>2. CASE k # n
        BY <1>1, <2>12, <3>2, FlagKept
      <3> QED
        BY <3>1, <3>2
    <2>18. CommitsMatchChain'
      BY <1>1, <1>2 DEF AgreeInv, CommitsMatchChain
    <2>19. \A k \in Nodes : ChainSound(k)'
      BY <1>1, <2>10, ChainStays
    <2>20. ChosenEndorsed'
      BY <2>9, <2>10, ChosenEndorsedStays
    <2>21. \A k \in Nodes : \A th \in miners'[k] \ miners[k] : ThreadSound(k, th)'
      BY <1>1
    <2> QED
      BY <2>10, <2>12, <2>14, <2>15, <2>16, <2>17, <2>18, <2>19, <2>20, <2>21, Assemble
  <1> QED
    BY <1>3, <1>4 DEF OnNewTransaction

\* A follower that accepts the proposal of its view endorses it.
LEMMA AgreeOnPreprepare ==
  ASSUME AgreeInv, LedgerInv', NEW n \in Nodes, NEW m \in net, m.to = n, OnPreprepare(n, m)
  PROVE  AgreeInv'
  <1> DEFINE new == [view |-> m.view, block |-> m.block, to |-> NoNode, pc |-> "starting"]
  <1>1. UNCHANGED <<view, chain, cancel, proposals>> /\ m.type = "PREPREPARE"
        /\ net' = net \ {m}
    BY DEF OnPreprepare
  <1>2. \A k \in Nodes : CommittedRounds(k)' = CommittedRounds(k)
    BY Typed, OthersCommitNothing
  <1>3. CASE UNCHANGED <<phase, miners>>
    <2>1. \A k \in Nodes : FlagSound(k)'
      BY <1>1, <1>3, FlagKept
    <2> QED
      BY <1>1, <1>3, <2>1, PhaseKept, RoundsKept, AssembleQuiet
  <1>4. CASE /\ AcceptsProposal(n, m)
             /\ phase' = AddNewPhaseState(n, RoundOf(m), m.block)
             /\ miners' = [miners EXCEPT ![n] = @ \cup {new}]
    <2>1. m.block \in Blocks /\ view[n] \in Nat /\ RoundOf(m) \in Rounds
      BY <1>1, Typed, BlockMessageFields
    <2>2. m.view = view[n] /\ IsBlockValid(n, m.block)
      BY <1>4 DEF AcceptsProposal
    <2>3. <<view[n], m.block>> \in proposals /\ n # Leader(view[n])
      BY <1>1, <2>2 DEF AgreeInv, MessageSound
    <2>4. Stripped(m.block) = m.block
      BY <2>3 DEF AgreeInv, ProposalSound
    <2>5. Proposed(view[n], m.block) /\ Proposed(view[n], m.block)'
      BY <1>1, <2>3, <2>4 DEF Proposed
    <2>6. RoundOf(m) = Current(n)
      BY <2>1, <2>2, Typed, ValidIndex DEF RoundOf, Current, RoundInv
    <2>7. Current(n)[1] = view[n]
      BY DEF Current
    <2>8. ChosenStays /\ NoneNewlySettled /\ TrackedStays
      BY <1>4, <2>1, <2>3, <2>6, <2>7, PhaseAdded
    <2>9. /\ \A k \in Nodes : \A q \in DOMAIN phase'[k] : Grows => RoundSound(k, q)'
          /\ Current(n) \in DOMAIN phase'[n] /\ ~phase'[n][Current(n)].prepared
          /\ \A k \in Nodes \ {n} : phase'[k] = phase[k]
      BY <1>1, <1>4, <2>1, <2>5, <2>6, RoundsAdded
    <2>10. \A k \in Nodes : miners'[k] = IF k = n THEN miners[n] \cup {new} ELSE miners[k]
      BY <1>4, Typed
    <2>11. ASSUME Grows PROVE ThreadSound(n, new)'
      <3>1. Endorsed(m.view, m.block)
        BY <2>1, <2>2, <2>5, ValidIsEndorsed
      <3>2. Endorsed(m.view, m.block)'
        BY <2>11, <3>1, EndorsedStays
      <3>3. m.view <= view'[n]
        BY <1>1, <2>1, <2>2
      <3> QED
        BY <3>2, <3>3 DEF ThreadSound
    <2>12. \A k \in Nodes : \A th \in miners'[k] \ miners[k] : Grows => ThreadSound(k, th)'
      <3> HIDE DEF new
      <3>1. \A k \in Nodes : \A th \in miners'[k] \ miners[k] : k = n /\ th = new
        BY <2>10
      <3>2. ASSUME NEW k \in Nodes, NEW th \in miners'[k] \ miners[k], Grows PROVE ThreadSound(k, th)'
        <4>1. /\ Endorsed(m.view, m.block)' /\ m.view <= view'[n] /\ th = new /\ k = n
          BY <2>11, <3>1, <3>2 DEF ThreadSound, new
        <4> QED
          BY <4>1 DEF ThreadSound, new
      <3> QED
        BY <3>2
    <2>13. ASSUME NEW k \in Nodes PROVE FlagSound(k)'
      <3>1. CASE k = n
        <4>1. Current(n)' = Current(n)
          BY <1>1 DEF Current
        <4> QED
          BY <2>9, <3>1, <4>1 DEF FlagSound, IsTracking
      <3>2. CASE k # n
        BY <1>1, <2>9, <2>10, <3>2, FlagKept
      <3> QED
        BY <3>1, <3>2
    <2>14. net' \ net = {}
      BY <1>1
    <2> QED
      BY <1>1, <1>2, <2>8, <2>9, <2>12, <2>13, <2>14, AssembleQuiet
  <1> QED
    BY <1>3, <1>4 DEF OnPreprepare

\* What the mining thread does to its block does not change the proposal it is made of.
LEMMA EndorsedMined ==
  ASSUME NEW v, NEW b \in Blocks, NEW c \in Blocks, Endorsed(v, b),
         Stripped(c) = Stripped(b), c.time = b.time, c.txs = b.txs
  PROVE  Endorsed(v, c)
  BY DEF Endorsed, Proposed

\* The mining thread.  A thread of an earlier view that sees the flag down is beside one
\* that has lowered it to mine for the current view, whose leader is therefore there.
LEMMA AgreeMine ==
  ASSUME AgreeInv, LedgerInv', NEW n \in Nodes, NEW th \in miners[n], Mine(n, th)
  PROVE  AgreeInv'
  <1>1. /\ UNCHANGED <<view, chain, phase, proposals>>
        /\ \A k \in Nodes \ {n} : cancel'[k] = cancel[k]
    <2>1. cancel \in [Nodes -> BOOLEAN]
      BY Typed DEF TypeOK
    <2> QED
      BY <2>1 DEF Mine, StartMining, LeaveMiningLoop, AddressLeader, SendHashReady
  <1>2. /\ th \in Threads /\ th.block \in Blocks /\ th.view \in Nat /\ ThreadSound(n, th)
        /\ miners \in [Nodes -> SUBSET Threads] /\ FlagSound(n) /\ view[n] \in Nat
    BY Typed DEF AgreeInv, Threads
  <1>3. Grows /\ NoneNewlySettled
    BY <1>1, PhaseKept, ChainsKept DEF Grows
  <1>4. ASSUME NEW new, Step(n, th, new), new.pc # "starting", ThreadSound(n, new)',
               net' \subseteq net, \A k \in Nodes : FlagSound(k)'
        PROVE  AgreeInv'
    <2>1. \A k \in Nodes : \A t \in miners'[k] \ miners[k] : k = n /\ t = new
      BY <1>2, <1>4 DEF Step
    <2>2. \A k \in Nodes : \A t \in miners'[k] \ miners[k] : ThreadSound(k, t)'
      BY <1>4, <2>1
    <2> QED
      BY <1>1, <1>4, <2>2, PhaseKept, RoundsKept, AssembleQuiet
  <1>5. ASSUME NEW new, Step(n, th, new), new.pc # "starting", UNCHANGED cancel, NEW k \in Nodes
        PROVE  FlagSound(k)'
    <2>1. \A t \in miners'[k] : t \in miners[k] \/ (t.pc # "starting" /\ miners[k] # {})
      BY <1>2, <1>5 DEF Step
    <2> QED
      BY <1>1, <1>5, <2>1, FlagKept
  <1>6. CASE StartMining(n, th)
    <2> DEFINE new == [th EXCEPT !.pc = "mining", !.block.miner = n]
    <2>1. /\ new.block = [th.block EXCEPT !.miner = n] /\ new.view = th.view
          /\ new.pc = "mining"
      BY <1>2 DEF Threads, Blocks
    <2>2. Endorsed(th.view, [th.block EXCEPT !.miner = n])
      <3>1. /\ [th.block EXCEPT !.miner = n] \in Blocks
            /\ [th.block EXCEPT !.miner = n].time = th.block.time
            /\ [th.block EXCEPT !.miner = n].txs = th.block.txs
        BY <1>2 DEF Blocks
      <3> QED
        BY <1>2, <3>1, StrippedSame, EndorsedMined DEF ThreadSound
    <2>3. Endorsed(new.view, new.block)'
      BY <1>3, <2>1, <2>2, EndorsedStays
    <2>4. Step(n, th, new) /\ th.pc = "starting" /\ net' = net
      BY <1>6 DEF StartMining
    <2> HIDE DEF new
    <2>5. ThreadSound(n, new)'
      BY <1>1, <1>2, <2>1, <2>3 DEF ThreadSound
    <2>6. \A k \in Nodes : \A t \in miners'[k] : t \in miners[k] \/ (k = n /\ t = new)
      BY <1>2, <2>4 DEF Step
    <2>7. ASSUME NEW k \in Nodes PROVE FlagSound(k)'
      <3>1. Current(k)' = Current(k) /\ IsTracking(k, Current(k))' = IsTracking(k, Current(k))
        BY <1>1 DEF Current, IsTracking
      <3>2. CASE k = n
        <4>1. IsTracking(n, Current(n)) /\ ~phase[n][Current(n)].prepared
          BY <1>2, <2>4 DEF FlagSound
        <4>2. ~phase'[n][Current(n)'].prepared
          BY <1>1, <3>1, <3>2, <4>1
        <4> QED
          BY <3>1, <3>2, <4>1, <4>2 DEF FlagSound
      <3>3. CASE k # n
        BY <1>1, <2>6, <3>3, FlagKept
      <3> QED
        BY <3>2, <3>3
    <2> QED
      BY <1>4, <2>1, <2>4, <2>5, <2>7
  <1>7. CASE LeaveMiningLoop(n, th)
    <2>1. PICK new \in {[th EXCEPT !.pc = "exited", !.block.mined = TRUE],
                        [th EXCEPT !.pc = "exited"]} : Step(n, th, new)
      BY <1>7 DEF LeaveMiningLoop
    <2>2. /\ new.block \in {th.block, [th.block EXCEPT !.mined = TRUE]}
          /\ new.view = th.view /\ new.pc = "exited"
      BY <1>2, <2>1 DEF Threads, Blocks
    <2>3. Endorsed(th.view, [th.block EXCEPT !.mined = TRUE])
      <3>1. /\ [th.block EXCEPT !.mined = TRUE] \in Blocks
            /\ [th.block EXCEPT !.mined = TRUE].time = th.block.time
            /\ [th.block EXCEPT !.mined = TRUE].txs = th.block.txs
        BY <1>2 DEF Blocks
      <3> QED
        BY <1>2, <3>1, StrippedSame, EndorsedMined DEF ThreadSound
    <2>4. Endorsed(th.view, new.block)
      BY <1>2, <2>2, <2>3 DEF ThreadSound
    <2>5. Endorsed(th.view, new.block)'
      BY <1>3, <2>4, EndorsedStays
    <2>6. ThreadSound(n, new)'
      BY <1>1, <1>2, <2>2, <2>5 DEF ThreadSound
    <2>7. UNCHANGED <<cancel, net>>
      BY <1>7 DEF LeaveMiningLoop
    <2> QED
      BY <1>4, <1>5, <2>1, <2>2, <2>6, <2>7
  <1>8. ASSUME Exit(n, th), UNCHANGED cancel, \A m \in net' \ net : MessageSound(m)'
        PROVE  AgreeInv'
    <2>1. \A k \in Nodes : miners'[k] \subseteq miners[k]
      BY <1>2, <1>8 DEF Exit
    <2>2. \A k \in Nodes : FlagSound(k)'
      BY <1>1, <1>8, <2>1, FlagKept
    <2> QED
      BY <1>1, <1>8, <2>1, <2>2, PhaseKept, RoundsKept, AssembleQuiet
  <1>9. CASE AddressLeader(n, th)
    <2>1. th.pc = "exited" /\ UNCHANGED <<cancel, net>>
      BY <1>9 DEF AddressLeader
    <2>2. CASE Exit(n, th)
      BY <1>8, <2>1, <2>2
    <2>3. CASE ~cancel[n] /\ Step(n, th, [th EXCEPT !.pc = "sending", !.to = Leader(view[n])])
      <3>0. PICK new : new = [th EXCEPT !.pc = "sending", !.to = Leader(view[n])]
        OBVIOUS
      <3>1. /\ new.block = th.block /\ new.view = th.view /\ new.pc = "sending"
            /\ new.to = Leader(view[n])
        BY <1>2, <3>0 DEF Threads
      <3>2. th.view <= view[n]
        BY <1>2 DEF ThreadSound
      <3>3. Reaches(Leader(view[n]), th.view)
        <4>1. CASE th.view = view[n]
          BY <4>1 DEF Reaches
        <4>2. CASE th.view < view[n]
          <5>1. Current(n) \in DOMAIN phase[n] /\ Current(n)[1] = view[n]
            BY <1>2, <2>3 DEF FlagSound, IsTracking, Current
          <5>2. RoundSound(n, Current(n))
            BY <5>1 DEF AgreeInv
          <5>3. PICK b : Proposed(view[n], b)
            BY <5>1, <5>2 DEF RoundSound
          <5>4. view[n] <= view[Leader(view[n])] /\ Leader(view[n]) \in Nodes
            BY <5>3, ProposedView
          <5>5. view[Leader(view[n])] \in Nat
            BY <5>4, Typed
          <5> QED
            BY <1>2, <4>2, <5>4, <5>5 DEF Reaches
        <4> QED
          BY <1>2, <3>2, <4>1, <4>2
      <3>4. Endorsed(th.view, th.block)'
        BY <1>2, <1>3, EndorsedStays DEF ThreadSound
      <3>5. Reaches(new.to, th.view)'
        <4>1. Reaches(new.to, th.view)
          BY <3>1, <3>3
        <4> QED
          BY <1>1, <4>1 DEF Reaches
      <3>6. ThreadSound(n, new)'
        BY <1>1, <3>1, <3>2, <3>4, <3>5 DEF ThreadSound
      <3>7. Step(n, th, new)
        BY <2>3, <3>0
      <3> QED
        BY <1>4, <1>5, <2>1, <3>1, <3>6, <3>7
    <2> QED
      BY <1>9, <2>2, <2>3 DEF AddressLeader
  <1>10. CASE SendHashReady(n, th)
    <2>1. Exit(n, th) /\ th.pc = "sending" /\ UNCHANGED cancel
      BY <1>10 DEF SendHashReady
    <2>2. Endorsed(th.view, th.block)' /\ Reaches(th.to, th.view)'
      BY <1>2, <1>3, <2>1, ThreadStays DEF ThreadSound
    <2>3. ASSUME NEW m \in net' \ net PROVE MessageSound(m)'
      <3>1. m = LeaderMessage("HASH_READY", n, th.to, th.view, th.block)
        BY <1>10, <2>3 DEF SendHashReady
      <3>2. m.type = "HASH_READY" /\ m.to = th.to /\ m.view = th.view /\ m.block = th.block
        BY <3>1 DEF LeaderMessage
      <3> QED
        BY <2>2, <3>2 DEF MessageSound
    <2> QED
      BY <1>8, <2>1, <2>3
  <1> QED
    BY <1>6, <1>7, <1>9, <1>10 DEF Mine

\* Two blocks of one proposal pass checkIfBlockMined.
LEMMA SameProposalSettles ==
  ASSUME NEW b \in Blocks, NEW a \in Blocks, Stripped(b) = Stripped(a)
  PROVE  CheckIfBlockMined(b, a)
  <1>1. /\ Stripped(b).index = b.index /\ Stripped(b).prev = b.prev /\ Stripped(b).txs = b.txs
        /\ Stripped(a).index = a.index /\ Stripped(a).prev = a.prev /\ Stripped(a).txs = a.txs
    BY StrippedSame
  <1>2. a.index = b.index /\ a.prev = b.prev /\ a.txs = b.txs
    BY <1>1
  <1> QED
    BY <1>2 DEF CheckIfBlockMined

\* The first good HASH_READY of a round chooses its block, if it is the round's leader
\* that handles it, and then that leader is still in the view.  Another node that gets
\* it has left the view, and its PREPARE names a round that nobody tracks.
LEMMA AgreeOnHashReady ==
  ASSUME AgreeInv, LedgerInv', NEW n \in Nodes, NEW m \in net, m.to = n, OnHashReady(n, m)
  PROVE  AgreeInv'
  <1>1. UNCHANGED <<view, chain, cancel, miners, proposals>> /\ m.type = "HASH_READY"
    BY DEF OnHashReady
  <1>2. \A k \in Nodes : CommittedRounds(k)' = CommittedRounds(k)
    BY Typed, OthersCommitNothing
  <1>3. CASE net' = net \ {m} /\ UNCHANGED phase
    <2>1. \A k \in Nodes : FlagSound(k)'
      BY <1>1, <1>3, FlagKept
    <2> QED
      BY <1>1, <1>3, <2>1, PhaseKept, RoundsKept, AssembleQuiet
  <1>4. ASSUME NEW r, r = RoundOf(m), NEW p, p = phase[n][r],
               NEW s, s.prepared = p.prepared,
               CheckIfBlockMined(p.block, m.block) => s.block = m.block /\ s.hashReady,
               AcceptsHash(n, r, m.block), phase' = [phase EXCEPT ![n][r] = s],
               net' = (net \ {m}) \cup Broadcast("PREPARE", n, view[n], m.block)
        PROVE  AgreeInv'
    <2>1. m.block \in Blocks /\ m.view \in Nat /\ view[n] \in Nat
      BY <1>1, Typed, BlockMessageFields
    <2>2. Endorsed(m.view, m.block) /\ Reaches(n, m.view)
      BY <1>1 DEF AgreeInv, MessageSound
    <2>3. r \in DOMAIN phase[n] /\ p \in PhaseStates /\ ~p.hashReady
      BY <1>4, Typed DEF AcceptsHash, IsTracking
    <2>4. r[1] = m.view /\ r[2] = m.block.index
      BY <1>4 DEF RoundOf
    <2>5. RoundSound(n, r)
      BY <2>3 DEF AgreeInv
    <2>6. r = Round(m.view) /\ m.block.index = Height(m.view) /\ FirstView <= m.view
          /\ m.view <= view[n] /\ Proposed(m.view, p.block)
      BY <1>4, <2>4, <2>5 DEF RoundSound, Round, RoundOf
    <2>7. Stripped(p.block) = Stripped(m.block)
      <3>1. Proposed(m.view, m.block)
        BY <2>2 DEF Endorsed
      <3> QED
        BY <2>6, <3>1 DEF Proposed, AgreeInv, OneProposal
    <2>8. CheckIfBlockMined(p.block, m.block)
      BY <1>4, <2>1, <2>3, <2>7, SameProposalSettles DEF PhaseStates
    <2>9. s.block = m.block /\ s.hashReady /\ s.prepared = p.prepared
      BY <1>4, <2>8
    <2>10. /\ \A k \in Nodes : \A q \in DOMAIN phase'[k] : Grows => RoundSound(k, q)'
           /\ \A k \in Nodes : DOMAIN phase'[k] = DOMAIN phase[k]
           /\ phase'[n][r] = s
           /\ \A k \in Nodes : \A q \in DOMAIN phase[k] :
                 k # n \/ q # r => phase'[k][q] = phase[k][q]
      <3>1. Stripped(s.block) = Stripped(phase[n][r].block)
        BY <1>4, <2>7, <2>9
      <3>2. r \in DOMAIN phase[n] /\ phase' = [phase EXCEPT ![n][r] = s]
        BY <1>4, <2>3
      <3>3. \A k \in Nodes : DOMAIN phase'[k] = DOMAIN phase[k]
        BY <3>1, <3>2, RoundsChanged
      <3>4. phase'[n][r] = s
        <4>1. DOMAIN phase = Nodes /\ phase[n] \in [DOMAIN phase[n] -> PhaseStates]
          BY Typed DEF TypeOK
        <4> QED
          BY <3>2, <4>1
      <3>5. \A k \in Nodes : \A q \in DOMAIN phase[k] :
               k # n \/ q # r => phase'[k][q] = phase[k][q]
        BY <3>1, <3>2, RoundsChanged
      <3>6. \A k \in Nodes : \A q \in DOMAIN phase'[k] : Grows => RoundSound(k, q)'
        BY <3>1, <3>2, RoundsChanged
      <3> QED
        BY <3>3, <3>4, <3>5, <3>6
    <2>11. ASSUME NEW k \in Nodes PROVE FlagSound(k)'
      <3>1. \A q \in DOMAIN phase[k] : phase'[k][q].prepared = phase[k][q].prepared
        BY <1>4, <2>9, <2>10
      <3> QED
        BY <1>1, <2>10, <3>1, FlagKept
    <2>12. CASE n # Leader(m.view)
      <3>1. ChosenStays /\ NoneNewlySettled /\ TrackedStays
        BY <1>4, <2>3, <2>4, <2>12, PhaseChanged
      <3>2. m.view < view[n]
        BY <2>2, <2>12 DEF Reaches
      <3>3. Height(m.view) # Height(view[n])
        BY <2>1, <3>2, FirstViewType DEF Height
      <3>4. ASSUME NEW k \in net' \ net PROVE MessageSound(k)'
        <4>1. k.type = "PREPARE" /\ k.view = view[n] /\ k.block = m.block
          BY <1>4, <3>4 DEF Broadcast, LeaderMessage
        <4>2. k.block.index # Height(k.view)
          BY <2>6, <3>3, <4>1
        <4> QED
          BY <4>1, <4>2 DEF MessageSound
      <3> QED
        BY <1>1, <1>2, <2>10, <2>11, <3>1, <3>4, AssembleQuiet
    <2>13. CASE n = Leader(m.view)
      <3>1. ~Settled(m.view)
        BY <1>4, <2>3, <2>6, <2>13 DEF Settled
      <3>2. view[n] = m.view
        <4> SUFFICES ASSUME m.view < view[n] PROVE FALSE
          BY <2>1, <2>6
        <4> DEFINE i == m.view - FirstView + 2
        <4>1. ChainSound(n) /\ Len(chain[n]) \in Nat
          BY Typed DEF AgreeInv
        <4>2. i \in 2 .. Len(chain[n]) /\ FirstView + i - 2 = m.view
          BY <2>1, <2>6, <4>1, FirstViewType DEF ChainSound
        <4> QED
          BY <3>1, <4>1, <4>2 DEF ChainSound
      <3>3. Settled(m.view)' /\ Chosen(m.view)' = m.block
        BY <2>3, <2>6, <2>9, <2>10, <2>13 DEF Settled, Chosen, IsTracking
      <3>4. ASSUME NEW v \in Nat, v # m.view
            PROVE  (Settled(v) <=> Settled(v)') /\ (Settled(v) => Chosen(v)' = Chosen(v))
        <4>1. Round(v) # r /\ Leader(v) \in Nodes
          BY <2>4, <3>4, LeaderIsNode DEF Round
        <4> QED
          BY <2>10, <4>1 DEF Settled, Chosen, IsTracking
      <3>5. Grows
        <4>1. ChosenStays
          BY <3>1, <3>4 DEF ChosenStays
        <4>2. TrackedStays
          BY <2>10 DEF TrackedStays
        <4> QED
          BY <1>1, <4>1, <4>2, ChainsKept DEF Grows
      <3>6. ChosenEndorsed'
        <4> SUFFICES ASSUME NEW v \in Nat, FirstView <= v, Settled(v)' PROVE Endorsed(v, Chosen(v))'
          BY DEF ChosenEndorsed
        <4>1. PICK b : b = Chosen(v)'
          OBVIOUS
        <4>2. Endorsed(v, b)
          <5>1. CASE v = m.view
            BY <2>2, <3>3, <4>1, <5>1
          <5>2. CASE v # m.view
            BY <3>4, <4>1, <5>2 DEF AgreeInv, ChosenEndorsed
          <5> QED
            BY <5>1, <5>2
        <4>3. Endorsed(v, b)'
          BY <3>5, <4>2, EndorsedStays
        <4> QED
          BY <4>1, <4>3
      <3>7. ASSUME NEW k \in net' \ net PROVE MessageSound(k)'
        <4>1. k.type = "PREPARE" /\ k.view = m.view /\ k.block = m.block
          BY <1>4, <3>2, <3>7 DEF Broadcast, LeaderMessage
        <4> QED
          BY <3>3, <4>1 DEF MessageSound
      <3>8. OneProposal'
        BY <1>1 DEF AgreeInv, OneProposal
      <3>9. CommitsMatchChain'
        BY <1>1, <1>2 DEF AgreeInv, CommitsMatchChain
      <3>10. \A k \in Nodes : ChainSound(k)'
        BY <1>1, <3>5, ChainStays
      <3>11. \A k \in Nodes : \A th \in miners'[k] \ miners[k] : ThreadSound(k, th)'
        BY <1>1
      <3>12. \A q \in proposals' \ proposals : ProposalSound(q)'
        BY <1>1
      <3> QED
        BY <2>10, <2>11, <3>5, <3>6, <3>7, <3>8, <3>9, <3>10, <3>11, <3>12, Assemble
    <2> QED
      BY <2>12, <2>13
  <1>5. ASSUME AcceptsHash(n, RoundOf(m), m.block) PROVE phase[n][RoundOf(m)] \in PhaseStates
    BY <1>5, Typed DEF AcceptsHash, IsTracking
  <1> QED
    <2> DEFINE q == RoundOf(m)
               p == phase[n][q]
               settled == CheckIfBlockMined(p.block, m.block)
               s == [p EXCEPT !.sentPrepare = TRUE, !.hashReady = settled,
                              !.block = IF settled THEN m.block ELSE @]
    <2>1. \/ net' = net \ {m} /\ UNCHANGED phase
          \/ /\ AcceptsHash(n, q, m.block) /\ phase' = [phase EXCEPT ![n][q] = s]
             /\ net' = (net \ {m}) \cup Broadcast("PREPARE", n, view[n], m.block)
      BY DEF OnHashReady
    <2>2. AcceptsHash(n, q, m.block) =>
             s.prepared = p.prepared /\ (settled => s.block = m.block /\ s.hashReady)
      BY <1>5 DEF PhaseStates
    <2>3. PICK s0 : s0 = s
      OBVIOUS
    <2> HIDE DEF s
    <2> QED
      BY <1>3, <1>4, <2>1, <2>2, <2>3

\* A PREPARE changes what is known about a vote, not what it is about, and it passes the
\* vote on.  No thread is about to lower the flag it raises.
LEMMA AgreeOnPrepare ==
  ASSUME AgreeInv, LedgerInv', Prompt, NEW n \in Nodes, NEW m \in net, m.to = n, OnPrepare(n, m)
  PROVE  AgreeInv'
  <1>1. /\ UNCHANGED <<view, chain, miners, proposals>> /\ m.type = "PREPARE"
        /\ cancel' = [cancel EXCEPT ![n] = TRUE]
    BY DEF OnPrepare
  <1>2. \A k \in Nodes : CommittedRounds(k)' = CommittedRounds(k)
    BY Typed, OthersCommitNothing
  <1>3. \A k \in net' \ net : k.type \in {"PREPARE", "COMMIT"} /\ k.view = m.view /\ k.block = m.block
    BY DEF OnPrepare, Broadcast, LeaderMessage
  <1>4. m \notin net'
    BY DEF OnPrepare, Broadcast, LeaderMessage
  <1>5. cancel' \in [Nodes -> BOOLEAN] /\ cancel'[n] /\ \A k \in Nodes \ {n} : cancel'[k] = cancel[k]
    <2>1. cancel \in [Nodes -> BOOLEAN]
      BY Typed DEF TypeOK
    <2> QED
      BY <1>1, <2>1
  <1>6. FlagSound(n)'
    <2>1. \A th \in miners[n] : th.pc # "starting"
      BY <1>1, <1>4 DEF Prompt
    <2> QED
      BY <1>1, <1>5, <2>1 DEF FlagSound
  <1>7. ASSUME NEW k \in net' \ net, Grows PROVE MessageSound(k)'
    <2>1. MessageSound(m) /\ m.view \in Nat
      BY <1>1, Typed, BlockMessageFields DEF AgreeInv
    <2>2. k.type \in {"PREPARE", "COMMIT"} /\ k.view = m.view /\ k.block = m.block
      BY <1>3
    <2>3. m.block.index = Height(m.view) => Settled(m.view)' /\ m.block = Chosen(m.view)'
      BY <1>1, <1>7, <2>1 DEF MessageSound, Grows, ChosenStays
    <2> QED
      BY <2>2, <2>3 DEF MessageSound
  <1>8. CASE UNCHANGED phase
    <2>1. \A k \in Nodes \ {n} : FlagSound(k)'
      BY <1>1, <1>5, <1>8, FlagKept
    <2> QED
      BY <1>1, <1>2, <1>6, <1>7, <1>8, <2>1, PhaseKept, RoundsKept, AssembleQuiet
  <1>9. ASSUME NEW r \in DOMAIN phase[n], NEW s, phase' = [phase EXCEPT ![n][r] = s],
               s.hashReady = phase[n][r].hashReady, s.block = phase[n][r].block
        PROVE  AgreeInv'
    <2>1. ChosenStays /\ NoneNewlySettled /\ TrackedStays
      BY <1>9, PhaseChanged
    <2>2. DOMAIN phase = Nodes
      BY Typed
    <2>3. Stripped(s.block) = Stripped(phase[n][r].block)
      BY <1>9
    <2>4. \A k \in Nodes : \A q \in DOMAIN phase'[k] : Grows => RoundSound(k, q)'
      BY <1>9, <2>3, RoundsChanged
    <2>5. \A k \in Nodes \ {n} : phase'[k] = phase[k]
      BY <1>9, <2>2
    <2>6. \A k \in Nodes \ {n} : FlagSound(k)'
      BY <1>1, <1>5, <2>5, FlagKept
    <2> QED
      BY <1>1, <1>2, <1>6, <1>7, <2>1, <2>4, <2>6, AssembleQuiet
  <1> QED
    <2> DEFINE r == RoundOf(m)
               p == phase[n][r]
               authors == p.prepares \cup {m.from}
               quorate == Cardinality(authors) >= Quorum
               late == [p EXCEPT !.sentPrepare = TRUE]
               counted == [p EXCEPT !.sentPrepare = TRUE, !.prepares = authors,
                                    !.prepared = quorate, !.sentCommit = @ \/ quorate]
    <2>1. r \in DOMAIN phase[n] => p \in PhaseStates
      BY Typed
    <2>2. \/ UNCHANGED phase
          \/ r \in DOMAIN phase[n] /\ phase' = [phase EXCEPT ![n][r] = late]
          \/ r \in DOMAIN phase[n] /\ phase' = [phase EXCEPT ![n][r] = counted]
      BY DEF OnPrepare, IsTracking
    <2>3. p \in PhaseStates =>
            /\ late.hashReady = p.hashReady /\ late.block = p.block
            /\ counted.hashReady = p.hashReady /\ counted.block = p.block
      BY DEF PhaseStates
    <2>4. PICK s0 : s0 = late
      OBVIOUS
    <2>5. PICK s1 : s1 = counted
      OBVIOUS
    <2> HIDE DEF late, counted
    <2> QED
      BY <1>8, <1>9, <2>1, <2>2, <2>3, <2>4, <2>5

\* The quorum of COMMITs that ends the current round is about the chosen block of the
\* view, which is valid here too: addBlock does not refuse it.
LEMMA AgreeDecide ==
  ASSUME AgreeInv, LedgerInv', NEW n \in Nodes, NEW m \in net, m.type = "COMMIT",
         NEW r \in DOMAIN phase[n], r = RoundOf(m),
         phase[n][r].prepared, ~phase[n][r].committed,
         NEW s \in PhaseStates, s.hashReady = phase[n][r].hashReady,
         s.block = phase[n][r].block, s.committed, phase' = [phase EXCEPT ![n][r] = s],
         chain' = IF IsBlockValid(n, m.block)
                  THEN [chain EXCEPT ![n] = Append(@, m.block)] ELSE chain,
         IncrementView(n), net' \subseteq net, UNCHANGED <<cancel, miners, proposals>>
  PROVE  /\ AgreeInv'
         /\ IsBlockValid(n, m.block)
         /\ chain' = [chain EXCEPT ![n] = Append(@, m.block)]
         /\ Endorsed(view[n], m.block) /\ m.block = Chosen(view[n])
  <1>1. PICK b : b = m.block
    OBVIOUS
  <1>2. PICK v : v = view[n]
    OBVIOUS
  <1>3. /\ view \in [Nodes -> Nat] /\ chain \in [Nodes -> Seq(Blocks) \ {<<>>}]
        /\ v \in Nat /\ chain[n] \in Seq(Blocks) \ {<<>>} /\ Len(chain[n]) \in Nat \ {0}
        /\ DOMAIN phase = Nodes /\ b \in Blocks /\ m.view \in Nat
    BY <1>1, <1>2, Typed, BlockMessageFields
  <1>4. ChainSound(n) /\ FlagSound(n) /\ MessageSound(m)
    BY DEF AgreeInv
  <1>5. m.view = v /\ b.index = Len(chain[n]) /\ r = Current(n)
    <2>1. r[1] = view[n] /\ r[2] = Len(chain[n])
      BY Typed DEF RoundInv, OpenRoundIsCurrent
    <2>2. r = <<m.view, b.index>>
      BY <1>1 DEF RoundOf
    <2> QED
      BY <1>2, <2>1, <2>2 DEF Current
  <1>6. Height(v) = Len(chain[n]) /\ FirstView <= v /\ v = FirstView + Len(chain[n]) - 1
    BY <1>2, <1>3, <1>4, FirstViewType DEF ChainSound, Height
  <1>7. Settled(v) /\ b = Chosen(v)
    BY <1>1, <1>4, <1>5, <1>6 DEF MessageSound
  <1>8. Endorsed(v, b)
    BY <1>3, <1>6, <1>7 DEF AgreeInv, ChosenEndorsed
  <1>9. IsBlockValid(n, b)
    BY <1>2, <1>3, <1>8, EndorsedIsValid
  <1>10. chain' = [chain EXCEPT ![n] = Append(@, b)]
    BY <1>1, <1>9
  <1>11. /\ Len(chain'[n]) = Len(chain[n]) + 1
         /\ \A i \in 1 .. Len(chain[n]) : chain'[n][i] = chain[n][i]
         /\ chain'[n][Len(chain[n]) + 1] = b
         /\ \A k \in Nodes \ {n} : chain'[k] = chain[k]
    BY <1>3, <1>10, AppendBlock
  <1>12. view'[n] = v + 1 /\ \A k \in Nodes \ {n} : view'[k] = view[k]
    BY <1>2, <1>3 DEF IncrementView
  <1>13. ChosenStays /\ NoneNewlySettled /\ TrackedStays
    BY PhaseChanged
  <1>14. ChainsGrow
    <2> SUFFICES ASSUME NEW k \in Nodes
                 PROVE  /\ view[k] <= view'[k] /\ view'[k] \in Nat
                        /\ Len(chain[k]) <= Len(chain'[k])
                        /\ \A i \in 1 .. Len(chain[k]) : chain'[k][i] = chain[k][i]
      BY DEF ChainsGrow
    <2>1. CASE k = n
      BY <1>2, <1>3, <1>11, <1>12, <2>1
    <2>2. CASE k # n
      BY <1>11, <1>12, <2>2, Typed
    <2> QED
      BY <2>1, <2>2
  <1>15. Grows
    BY <1>13, <1>14 DEF Grows
  <1>16. CommitsMatchChain'
    <2>1. RoundInv /\ RoundsCounted
      BY DEF AgreeInv, LedgerInv
    <2>2. /\ Cardinality(CommittedRounds(n)') = Cardinality(CommittedRounds(n)) + 1
          /\ \A k \in Nodes \ {n} : CommittedRounds(k)' = CommittedRounds(k)
      BY <2>1, CommitCounted
    <2>3. \A k \in Nodes : Cardinality(CommittedRounds(k)) = Len(chain[k]) - 1
      BY DEF AgreeInv, CommitsMatchChain
    <2>4. Cardinality(CommittedRounds(n)') = Len(chain'[n]) - 1
      BY <1>3, <1>11, <2>2, <2>3
    <2>5. \A k \in Nodes \ {n} : Cardinality(CommittedRounds(k)') = Len(chain'[k]) - 1
      BY <1>11, <2>2, <2>3
    <2> QED
      BY <2>4, <2>5 DEF CommitsMatchChain
  <1>17. ChosenEndorsed' /\ OneProposal'
    BY <1>13, <1>15, ChosenEndorsedStays DEF AgreeInv, OneProposal
  <1>18. \A k \in Nodes : \A q \in DOMAIN phase'[k] : RoundSound(k, q)'
    <2>1. Stripped(s.block) = Stripped(phase[n][r].block)
      OBVIOUS
    <2> QED
      BY <1>15, <2>1, RoundsChanged
  <1>19. ASSUME NEW k \in Nodes PROVE ChainSound(k)'
    <2>1. CASE k = n
      <3>1. chain'[n][1] = GenesisBlock
        BY <1>3, <1>4, <1>11 DEF ChainSound
      <3>2. view'[n] = FirstView + Len(chain'[n]) - 1
        BY <1>3, <1>6, <1>11, <1>12, FirstViewType
      <3>3. ASSUME NEW i \in 2 .. Len(chain'[n])
            PROVE  Settled(FirstView + i - 2)' /\ chain'[n][i] = Chosen(FirstView + i - 2)'
        <4>1. CASE i = Len(chain[n]) + 1
          <5>1. FirstView + i - 2 = v
            BY <1>3, <1>6, <4>1, FirstViewType
          <5> QED
            BY <1>3, <1>7, <1>11, <1>13, <4>1, <5>1 DEF ChosenStays
        <4>2. CASE i # Len(chain[n]) + 1
          <5>1. i \in 2 .. Len(chain[n]) /\ FirstView + i - 2 \in Nat
            BY <1>3, <1>11, <4>2, FirstViewType
          <5> QED
            BY <1>4, <1>11, <1>13, <5>1 DEF ChainSound, ChosenStays
        <4> QED
          BY <4>1, <4>2
      <3> QED
        BY <2>1, <3>1, <3>2, <3>3 DEF ChainSound
    <2>2. CASE k # n
      BY <1>11, <1>12, <1>15, <2>2, ChainStays
    <2> QED
      BY <2>1, <2>2
  <1>20. ASSUME NEW k \in Nodes PROVE FlagSound(k)'
    <2>1. CASE k = n
      <3>1. cancel'[n] /\ \A th \in miners'[n] : th.pc # "starting"
        BY <1>4, <1>5 DEF FlagSound, IsTracking
      <3>2. Current(n)' \notin DOMAIN phase'[n]
        <4>1. Current(n)'[1] = v + 1
          BY <1>12 DEF Current
        <4>2. \A q \in DOMAIN phase[n] : q[1] <= v
          BY <1>2 DEF AgreeInv, RoundSound
        <4>3. DOMAIN phase'[n] = DOMAIN phase[n]
          BY <1>3
        <4> QED
          BY <1>3, <4>1, <4>2, <4>3
      <3> QED
        BY <2>1, <3>1, <3>2 DEF FlagSound, IsTracking
    <2>2. CASE k # n
      <3>1. phase'[k] = phase[k]
        BY <1>3, <2>2
      <3> QED
        BY <1>11, <1>12, <2>2, <3>1, FlagKept
    <2> QED
      BY <2>1, <2>2
  <1>21. AgreeInv'
    BY <1>15, <1>16, <1>17, <1>18, <1>19, <1>20, Assemble
  <1> QED
    BY <1>1, <1>2, <1>7, <1>8, <1>9, <1>10, <1>21

LEMMA AgreeOnCommit ==
  ASSUME AgreeInv, LedgerInv', NEW n \in Nodes, NEW m \in net, m.to = n, OnCommit(n, m)
  PROVE  /\ AgreeInv'
         /\ \/ UNCHANGED chain
            \/ /\ IsBlockValid(n, m.block)
               /\ chain' = [chain EXCEPT ![n] = Append(@, m.block)]
               /\ Endorsed(view[n], m.block) /\ m.block = Chosen(view[n])
  <1> DEFINE r == RoundOf(m)
             p == phase[n][r]
             authors == p.commits \cup {m.from}
             counted == [p EXCEPT !.commits = authors]
             decided == [p EXCEPT !.commits = authors, !.committed = TRUE]
  <1>1. m.type = "COMMIT" /\ net' \subseteq net /\ UNCHANGED <<cancel, miners, proposals>>
    BY DEF OnCommit
  <1>2. r \in DOMAIN phase[n] => p \in PhaseStates /\ m.from \in Nodes
    BY <1>1, Typed, BlockMessageFields
  <1>3. r \in DOMAIN phase[n] =>
          /\ counted \in PhaseStates /\ decided \in PhaseStates
          /\ counted.hashReady = p.hashReady /\ counted.block = p.block
          /\ counted.committed = p.committed /\ counted.prepared = p.prepared
          /\ decided.hashReady = p.hashReady /\ decided.block = p.block /\ decided.committed
    BY <1>2 DEF PhaseStates
  <1>4. CASE UNCHANGED <<view, chain, phase>>
    <2>1. \A k \in Nodes : FlagSound(k)'
      BY <1>1, <1>4, FlagKept
    <2> QED
      BY <1>1, <1>4, <2>1, PhaseKept, RoundsKept, AssembleQuiet
  <1>5. ASSUME NEW q \in DOMAIN phase[n], NEW s \in PhaseStates,
               s.hashReady = phase[n][q].hashReady, s.block = phase[n][q].block,
               s.committed = phase[n][q].committed, s.prepared = phase[n][q].prepared,
               phase' = [phase EXCEPT ![n][q] = s], UNCHANGED <<view, chain>>
        PROVE  AgreeInv'
    <2>1. ChosenStays /\ NoneNewlySettled /\ TrackedStays
      BY <1>5, PhaseChanged
    <2>2. DOMAIN phase = Nodes
      BY Typed
    <2>3. \A k \in Nodes : CommittedRounds(k)' = CommittedRounds(k)
      BY <1>5, Typed, CommittedKept
    <2>4. Stripped(s.block) = Stripped(phase[n][q].block)
      BY <1>5
    <2>5. \A k \in Nodes : \A a \in DOMAIN phase'[k] : Grows => RoundSound(k, a)'
      BY <1>5, <2>4, RoundsChanged
    <2>6. ASSUME NEW k \in Nodes PROVE FlagSound(k)'
      <3>1. /\ DOMAIN phase'[k] = DOMAIN phase[k]
            /\ \A a \in DOMAIN phase[k] : phase'[k][a].prepared = phase[k][a].prepared
        BY <1>5, <2>2
      <3> QED
        BY <1>1, <1>5, <3>1, FlagKept
    <2> QED
      BY <1>1, <1>5, <2>1, <2>3, <2>5, <2>6, AssembleQuiet
  <1>6. \/ UNCHANGED <<view, chain, phase>>
        \/ /\ r \in DOMAIN phase[n] /\ phase' = [phase EXCEPT ![n][r] = counted]
           /\ UNCHANGED <<view, chain>>
        \/ /\ r \in DOMAIN phase[n] /\ p.prepared /\ ~p.committed
           /\ phase' = [phase EXCEPT ![n][r] = decided]
           /\ chain' = IF IsBlockValid(n, m.block)
                       THEN [chain EXCEPT ![n] = Append(@, m.block)] ELSE chain
           /\ IncrementView(n)
    BY DEF OnCommit, IsTracking
  <1>7. PICK s1 : s1 = counted
    OBVIOUS
  <1>8. PICK s2 : s2 = decided
    OBVIOUS
  <1> HIDE DEF counted, decided
  <1>9. CASE /\ r \in DOMAIN phase[n] /\ phase' = [phase EXCEPT ![n][r] = counted]
             /\ UNCHANGED <<view, chain>>
    BY <1>3, <1>5, <1>7, <1>9
  <1>10. CASE /\ r \in DOMAIN phase[n] /\ p.prepared /\ ~p.committed
              /\ phase' = [phase EXCEPT ![n][r] = decided]
              /\ chain' = IF IsBlockValid(n, m.block)
                       THEN [chain EXCEPT ![n] = Append(@, m.block)] ELSE chain
              /\ IncrementView(n)
    BY <1>1, <1>3, <1>8, <1>10, AgreeDecide
  <1> QED
    BY <1>4, <1>6, <1>9, <1>10

-----------------------------------------------------------------------------
(* The theorems.  m_currentView is never initialised; that all nodes start in one view *)
(* is their hypothesis.                                                                *)

SameStart == \A v, w \in InitViews : v = w

LEMMA AgreeInit ==
  ASSUME SameStart, Init
  PROVE  AgreeInv
  <1>1. /\ \A n \in Nodes : view[n] = FirstView /\ DOMAIN phase[n] = {} /\ miners[n] = {}
        /\ \A n \in Nodes : chain[n] = <<GenesisBlock>>
        /\ proposals = {} /\ \A m \in net : m.type = "NEW_TRANSACTION"
    <2>1. \A n \in Nodes : view[n] = FirstView
      BY FirstViewType DEF Init, SameStart
    <2>2. \A n \in Nodes : phase[n] = <<>> /\ miners[n] = {} /\ chain[n] = <<GenesisBlock>>
      BY DEF Init
    <2>3. \A n \in Nodes : DOMAIN phase[n] = {}
      BY <2>2
    <2>4. \A m \in net : m.type = "NEW_TRANSACTION"
      BY DEF Init, NewTransaction
    <2> QED
      BY <2>1, <2>2, <2>3, <2>4 DEF Init
  <1>2. CommitsMatchChain
    <2>1. \A n \in Nodes : CommittedRounds(n) = {}
      BY <1>1 DEF CommittedRounds
    <2>2. \A n \in Nodes : Cardinality(CommittedRounds(n)) = 0
      BY <2>1, FS_EmptySet, Zenon
    <2>3. \A n \in Nodes : Len(chain[n]) - 1 = 0
      BY <1>1, SMTT(30)
    <2> QED
      BY <2>2, <2>3 DEF CommitsMatchChain
  <1>3. \A m \in net : MessageSound(m)
    BY <1>1 DEF MessageSound
  <1>4. ASSUME NEW n \in Nodes PROVE ChainSound(n)
    <2>1. chain[n] = <<GenesisBlock>> /\ view[n] = FirstView
      BY <1>1
    <2>2. Len(chain[n]) = 1 /\ chain[n][1] = GenesisBlock
      BY <2>1
    <2> QED
      BY <2>1, <2>2, FirstViewType DEF ChainSound
  <1>5. \A n \in Nodes : FlagSound(n)
    BY <1>1 DEF FlagSound, IsTracking
  <1>6. ChosenEndorsed
    BY <1>1, LeaderIsNode DEF ChosenEndorsed, Settled, IsTracking
  <1> QED
    BY <1>1, <1>2, <1>3, <1>4, <1>5, <1>6, LedgerInit DEF AgreeInv, OneProposal

LEMMA AgreeNext == AgreeInv /\ [Next /\ Prompt /\ Once]_vars => AgreeInv'
  <1> SUFFICES ASSUME AgreeInv, [Next /\ Prompt /\ Once]_vars PROVE AgreeInv'
    OBVIOUS
  <1>1. LedgerInv'
    BY LedgerNext DEF AgreeInv
  <1>2. CASE UNCHANGED vars
    BY <1>1, <1>2, AgreeUnchanged
  <1>3. ASSUME NEW t \in Txs, CreateTransaction(t) PROVE AgreeInv'
    BY <1>1, <1>3, AgreeCreateTransaction
  <1>4. ASSUME NEW n \in Nodes, NEW m \in net, m.to = n, Handle(n, m), Prompt, Once PROVE AgreeInv'
    BY <1>1, <1>4, AgreeOnNewTransaction, AgreeOnPreprepare, AgreeOnHashReady, AgreeOnPrepare,
       AgreeOnCommit DEF Handle
  <1>5. ASSUME NEW n \in Nodes, NEW th \in miners[n], Mine(n, th) PROVE AgreeInv'
    BY <1>1, <1>5, AgreeMine
  <1> QED
    BY <1>2, <1>3, <1>4, <1>5 DEF Next, System

LEMMA AgreeInvariant == ASSUME SameStart PROVE OneProposalSpec => []AgreeInv
  <1>1. Init => AgreeInv
    BY AgreeInit
  <1> QED
    BY <1>1, AgreeNext, PTL DEF OneProposalSpec

\* For every network whose nodes start in one view and whose leaders propose once a
\* round: at each height all chains hold the same block, whoever mined it, in whatever
\* order the votes arrive.
THEOREM NodesAgree == ASSUME SameStart PROVE OneProposalSpec => []Agreement
  <1> QED
    BY AgreeInvariant, ChainsAgree, PTL

\* Likewise: onCommit, which ignores what addBlock says, has never had a block refused.
THEOREM NoBlockRefused == ASSUME SameStart PROVE OneProposalSpec => []CommitsMatchChain
  <1>1. AgreeInv => CommitsMatchChain
    BY DEF AgreeInv
  <1> QED
    BY <1>1, AgreeInvariant, PTL

\* So the UTXO set that every node keeps beside its chain is that of the chain, the
\* chain spends nothing twice, and nothing on it is pending.
THEOREM LedgerIsSound ==
  ASSUME SameStart
  PROVE  OneProposalSpec => [](UtxoMatchesChain /\ NoDoubleSpend /\ PendingNotCommitted)
  <1>1. AgreeInv => UtxoMatchesChain /\ NoDoubleSpend /\ PendingNotCommitted
    BY LedgerProperties DEF AgreeInv
  <1> QED
    BY <1>1, AgreeInvariant, PTL

-----------------------------------------------------------------------------
(* The refinement *)

\* The ledger of a node is its chain without the genesis block.
LEMMA LedgerOfType ==
  ASSUME TypeOK, NEW n \in Nodes
  PROVE  /\ LedgerOf(n) \in Seq(SUBSET Txs) /\ Len(LedgerOf(n)) = Len(chain[n]) - 1
         /\ \A i \in 1 .. Len(chain[n]) - 1 : LedgerOf(n)[i] = chain[n][i + 1].txs
  <1>1. chain[n] \in Seq(Blocks) \ {<<>>} /\ Len(chain[n]) \in Nat \ {0}
    BY DEF TypeOK
  <1>2. \A i \in 1 .. Len(chain[n]) - 1 : chain[n][i + 1] \in Blocks
    BY <1>1
  <1>3. \A i \in 1 .. Len(chain[n]) - 1 : chain[n][i + 1].txs \in SUBSET Txs
    BY <1>2 DEF Blocks
  <1>4. LedgerOf(n) \in [1 .. Len(chain[n]) - 1 -> SUBSET Txs]
    BY <1>3 DEF LedgerOf
  <1>5. Len(chain[n]) - 1 \in Nat
    BY <1>1
  <1>6. PICK h \in Nat : h = Len(chain[n]) - 1
    BY <1>5
  <1>7. LedgerOf(n) \in [1 .. h -> SUBSET Txs]
    BY <1>4, <1>6
  <1>8. LedgerOf(n) \in Seq(SUBSET Txs)
    BY <1>7, SeqDef
  <1>9. Len(LedgerOf(n)) = h
    BY <1>7, <1>8, LenProperties
  <1> QED
    BY <1>6, <1>8, <1>9 DEF LedgerOf

\* What the ledger leaves unspent is the node's UTXO set.
LEMMA LedgerUnspent ==
  ASSUME AgreeInv, NEW n \in Nodes
  PROVE  Promise!Unspent(LedgerOf(n)) = utxo[n]
  <1>1. /\ Len(LedgerOf(n)) = Len(chain[n]) - 1 /\ Len(chain[n]) \in Nat \ {0}
        /\ \A i \in 1 .. Len(chain[n]) - 1 : LedgerOf(n)[i] = chain[n][i + 1].txs
    BY Typed, LedgerOfType
  <1>2. chain[n][1].txs = {}
    BY DEF AgreeInv, ChainSound, GenesisBlock
  <1>3. Promise!TxsOf(LedgerOf(n)) = ChainTxs(n)
    <2>1. ASSUME NEW t \in ChainTxs(n) PROVE t \in Promise!TxsOf(LedgerOf(n))
      <3>1. PICK i \in 1 .. Len(chain[n]) : t \in chain[n][i].txs
        BY DEF ChainTxs
      <3>2. i # 1
        BY <1>2, <3>1
      <3>3. i - 1 \in 1 .. Len(LedgerOf(n)) /\ LedgerOf(n)[i - 1] = chain[n][i].txs
        BY <1>1, <3>2
      <3> QED
        BY <3>1, <3>3 DEF Promise!TxsOf
    <2>2. ASSUME NEW t \in Promise!TxsOf(LedgerOf(n)) PROVE t \in ChainTxs(n)
      <3>1. PICK i \in 1 .. Len(LedgerOf(n)) : t \in LedgerOf(n)[i]
        BY DEF Promise!TxsOf
      <3>2. i + 1 \in 1 .. Len(chain[n]) /\ t \in chain[n][i + 1].txs
        BY <1>1, <3>1
      <3> QED
        BY <3>2 DEF ChainTxs
    <2> QED
      BY <2>1, <2>2
  <1>4. utxo[n] = (Genesis \cup CreatedBy(ChainTxs(n))) \ SpentBy(ChainTxs(n))
    BY LedgerProperties DEF AgreeInv, UtxoMatchesChain
  <1> QED
    BY <1>3, <1>4 DEF Promise!Unspent, Promise!CreatedBy, Promise!SpentBy, CreatedBy, SpentBy

\* A block that reaches a chain extends the ledger, as Ledger allows it to.
LEMMA CommitExtends ==
  ASSUME AgreeInv, AgreeInv', NEW n \in Nodes, NEW b \in Blocks, Orderly(b),
         IsBlockValid(n, b), b = Chosen(view[n]), chain' = [chain EXCEPT ![n] = Append(@, b)]
  PROVE  Promise!Extend(n, b.txs)
  <1>1. /\ TypeOK /\ TypeOK' /\ chain[n] \in Seq(Blocks) \ {<<>>}
        /\ \A k \in Nodes : Len(chain[k]) \in Nat \ {0}
        /\ chain \in [Nodes -> Seq(Blocks) \ {<<>>}]
    BY Typed DEF AgreeInv, LedgerInv, RoundInv
  <1>2. /\ Len(chain'[n]) = Len(chain[n]) + 1
        /\ \A i \in 1 .. Len(chain[n]) : chain'[n][i] = chain[n][i]
        /\ chain'[n][Len(chain[n]) + 1] = b
        /\ \A k \in Nodes \ {n} : chain'[k] = chain[k]
    BY <1>1, AppendBlock
  <1>3. b.txs \in SUBSET Txs
    BY DEF Blocks
  <1>4. Promise!Spendable(b.txs, Promise!Unspent(LedgerOf(n)))
    <2>1. SpentBy(b.txs) \subseteq utxo[n]
      BY DEF IsBlockValid, VerifyBlockTransactions, SpentBy
    <2>2. Promise!SpentBy(b.txs) = SpentBy(b.txs)
      BY DEF Promise!SpentBy, SpentBy
    <2> QED
      BY <2>1, <2>2, LedgerUnspent DEF Promise!Spendable, Orderly, Apart
  <1>5. ASSUME NEW k \in Nodes, Len(LedgerOf(k)) > Len(LedgerOf(n))
        PROVE  LedgerOf(k)[Len(LedgerOf(n)) + 1] = b.txs
    <2> DEFINE h == Len(chain[n])
    <2>1. h \in 1 .. Len(chain[k]) - 1 /\ Len(LedgerOf(n)) + 1 = h
      BY <1>1, <1>5, LedgerOfType
    <2>2. LedgerOf(k)[h] = chain[k][h + 1].txs
      BY <1>1, <2>1, LedgerOfType
    <2>3. chain[k][h + 1] = Chosen(view[n])
      <3>1. ChainSound(k) /\ view[n] = FirstView + h - 1
        BY DEF AgreeInv, ChainSound
      <3>2. h + 1 \in 2 .. Len(chain[k]) /\ FirstView + (h + 1) - 2 = view[n]
        BY <1>1, <2>1, <3>1, FirstViewType
      <3> QED
        BY <3>1, <3>2 DEF ChainSound
    <2> QED
      BY <2>1, <2>2, <2>3
  <1>6. LedgerOf(n)' = Append(LedgerOf(n), b.txs)
    <2>1. /\ LedgerOf(n) \in Seq(SUBSET Txs) /\ Len(LedgerOf(n)) = Len(chain[n]) - 1
          /\ \A i \in 1 .. Len(chain[n]) - 1 : LedgerOf(n)[i] = chain[n][i + 1].txs
      BY <1>1, LedgerOfType
    <2>2. LedgerOf(n)' = [i \in 1 .. Len(chain'[n]) - 1 |-> chain'[n][i + 1].txs]
      BY DEF LedgerOf
    <2>3. Append(LedgerOf(n), b.txs) =
             [i \in 1 .. Len(chain[n]) |-> IF i = Len(chain[n]) THEN b.txs ELSE LedgerOf(n)[i]]
      BY <1>1, <1>3, <2>1
    <2>4. Len(chain'[n]) - 1 = Len(chain[n])
      BY <1>1, <1>2
    <2>5. \A i \in 1 .. Len(chain[n]) :
             chain'[n][i + 1].txs = IF i = Len(chain[n]) THEN b.txs ELSE LedgerOf(n)[i]
      <3> SUFFICES ASSUME NEW i \in 1 .. Len(chain[n])
                   PROVE  chain'[n][i + 1].txs
                             = IF i = Len(chain[n]) THEN b.txs ELSE LedgerOf(n)[i]
        OBVIOUS
      <3>1. CASE i = Len(chain[n])
        BY <1>2, <3>1
      <3>2. CASE i # Len(chain[n])
        <4>1. i \in 1 .. Len(chain[n]) - 1 /\ i + 1 \in 1 .. Len(chain[n])
          BY <1>1, <3>2
        <4>2. chain'[n][i + 1] = chain[n][i + 1]
          BY <1>2, <4>1
        <4> QED
          BY <2>1, <3>2, <4>1, <4>2
      <3> QED
        BY <3>1, <3>2
    <2> QED
      BY <2>2, <2>3, <2>4, <2>5
  <1>7. \A k \in Nodes \ {n} : LedgerOf(k)' = LedgerOf(k)
    BY <1>2 DEF LedgerOf
  <1>8. [k \in Nodes |-> LedgerOf(k)]' = [[k \in Nodes |-> LedgerOf(k)] EXCEPT ![n] = Append(@, b.txs)]
    BY <1>6, <1>7
  <1> QED
    BY <1>4, <1>5, <1>8 DEF Promise!Extend, Orderly

LEMMA StepImplements ==
  AgreeInv /\ AgreeInv' /\ [Next /\ Prompt /\ Once]_vars
    => [Promise!Next]_([n \in Nodes |-> LedgerOf(n)])
  <1> SUFFICES ASSUME AgreeInv, AgreeInv', [Next /\ Prompt /\ Once]_vars
               PROVE  [Promise!Next]_([n \in Nodes |-> LedgerOf(n)])
    OBVIOUS
  <1>1. CASE UNCHANGED chain
    BY <1>1 DEF LedgerOf
  <1>2. ASSUME NEW n \in Nodes, NEW m \in net, m.to = n, OnCommit(n, m)
        PROVE  UNCHANGED chain \/ Promise!Next
    <2>1. m.type = "COMMIT" /\ m.block \in Blocks /\ Orderly(m.block)
      <3>1. m.type = "COMMIT"
        BY <1>2 DEF OnCommit
      <3> QED
        BY <3>1, Typed, BlockMessageFields DEF AgreeInv, LedgerInv, BlocksOrderly
    <2>2. PICK b : b = m.block
      OBVIOUS
    <2>3. \/ UNCHANGED chain
          \/ /\ IsBlockValid(n, b) /\ b = Chosen(view[n])
             /\ chain' = [chain EXCEPT ![n] = Append(@, b)]
      BY <1>2, <2>2, AgreeOnCommit DEF AgreeInv
    <2>4. UNCHANGED chain \/ Promise!Extend(n, b.txs)
      BY <2>1, <2>2, <2>3, CommitExtends
    <2>5. b.txs \in SUBSET Txs
      BY <2>1, <2>2 DEF Blocks
    <2> QED
      BY <2>4, <2>5 DEF Promise!Next
  <1>3. ASSUME NEW n \in Nodes, NEW m \in net, m.to = n, Handle(n, m)
        PROVE  UNCHANGED chain \/ OnCommit(n, m)
    BY <1>3 DEF Handle, OnNewTransaction, OnPreprepare, OnHashReady, OnPrepare
  <1>4. ASSUME NEW n \in Nodes, NEW th \in miners[n], Mine(n, th) PROVE UNCHANGED chain
    BY <1>4 DEF Mine, StartMining, LeaveMiningLoop, AddressLeader, SendHashReady
  <1>5. ASSUME NEW t \in Txs, CreateTransaction(t) PROVE UNCHANGED chain
    BY <1>5 DEF CreateTransaction
  <1>6. UNCHANGED chain \/ Promise!Next
    BY <1>2, <1>3, <1>4, <1>5 DEF Next, System, vars
  <1> QED
    BY <1>1, <1>6

\* For every network whose nodes start in one view and whose leaders propose once a
\* round: the nodes' chains are prefixes of one ledger that only grows, by blocks that
\* are not empty and spend what the ledger left unspent.
THEOREM OneLedger == ASSUME SameStart PROVE OneProposalSpec => ImplementsLedger
  <1>1. Init => Promise!Init
    <2> SUFFICES ASSUME Init PROVE \A n \in Nodes : LedgerOf(n) = <<>>
      BY DEF Promise!Init
    <2>1. \A n \in Nodes : Len(chain[n]) = 1
      BY DEF Init
    <2> QED
      BY <2>1, TypeInit, LedgerOfType, EmptySeq
  <1> QED
    BY <1>1, StepImplements, AgreeInvariant, PTL DEF OneProposalSpec, ImplementsLedger, Promise!Spec

=============================================================================
