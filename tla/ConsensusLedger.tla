-------------------------- MODULE ConsensusLedger --------------------------
(***************************************************************************)
(* The protocol of Consensus implements Ledger: forget everything but the  *)
(* transactions of the blocks above the genesis block.                     *)
(***************************************************************************)
EXTENDS Consensus

LedgerOf(n) == [i \in 1 .. Len(chain[n]) - 1 |-> chain[n][i + 1].txs]

Promise == INSTANCE Ledger WITH ledger <- [n \in Nodes |-> LedgerOf(n)]

\* What onCommit appends is what a user of the network may rely on: the nodes' chains
\* are prefixes of one ledger of valid blocks, at every step.
ImplementsLedger == Promise!Spec
=============================================================================
