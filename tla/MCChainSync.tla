---------------------------- MODULE MCChainSync ----------------------------
(***************************************************************************)
(* Instances of ChainSync for TLC: who asks whom, and which outpoints each *)
(* block spends and creates.                                               *)
(***************************************************************************)
EXTENDS ChainSync, TLC

CONSTANTS j1, j2, g1, g2, a1, a2, a3

\* j1 asks the founder, j2 asks j1, which may know headers only.
AskEachOther == (j1 :> founder) @@ (j2 :> j1)
AskFounder == j1 :> founder

\* Blocks 1 and 2 each spend one outpoint of the genesis block, block 3 what block 2
\* creates.
ThreeSpends == (0 :> {}) @@ (1 :> {g1}) @@ (2 :> {g2}) @@ (3 :> {a2})
ThreeCreates == (0 :> {g1, g2}) @@ (1 :> {a1}) @@ (2 :> {a2}) @@ (3 :> {a3})
=============================================================================
