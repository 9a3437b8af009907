---------------------------- MODULE MCConsensus ----------------------------
(***************************************************************************)
(* Instances of Consensus for TLC: who may create which transaction, and   *)
(* what it spends and creates.                                             *)
(***************************************************************************)
EXTENDS ConsensusLedger, TLC

CONSTANTS t1, t2, t3, t4, g1, g2, o1, o2

\* One transaction: one round.
OneOwner == t1 :> 0
OneSpends == t1 :> {g1}
OneCreates == t1 :> {o1}

\* Two independent transactions of node 0: one block of two, or two proposals.
PairOwner == (t1 :> 0) @@ (t2 :> 0)
PairSpends == (t1 :> {g1}) @@ (t2 :> {g2})
PairCreates == (t1 :> {o1}) @@ (t2 :> {o2})

\* t2 spends what t1 creates, and t3 spends what t1 spends.
ConflictOwner == (t1 :> 0) @@ (t2 :> 1) @@ (t3 :> 0)
ConflictSpends == (t1 :> {g1}) @@ (t2 :> {o1}) @@ (t3 :> {g1})
ConflictCreates == (t1 :> {o1}) @@ (t2 :> {}) @@ (t3 :> {})

\* All of node 0, t3 spending what t1 spends: up to three proposals in one view.
ThreeOwner == (t1 :> 0) @@ (t2 :> 0) @@ (t3 :> 0)
ThreeSpends == (t1 :> {g1}) @@ (t2 :> {g2}) @@ (t3 :> {g1})
ThreeCreates == (t1 :> {o1}) @@ (t2 :> {o2}) @@ (t3 :> {})

\* t3 and t4 spend what t1 and t2 create: two blocks of two transactions.
FourOwner == (t1 :> 0) @@ (t2 :> 0) @@ (t3 :> 1) @@ (t4 :> 0)
FourSpends == (t1 :> {g1}) @@ (t2 :> {g2}) @@ (t3 :> {o1}) @@ (t4 :> {o2})
FourCreates == (t1 :> {o1}) @@ (t2 :> {o2}) @@ (t3 :> {}) @@ (t4 :> {})
=============================================================================
