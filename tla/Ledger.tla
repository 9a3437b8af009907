------------------------------- MODULE Ledger -------------------------------
(***************************************************************************)
(* What a network of nodes promises its users: one ledger.  Every node     *)
(* holds a prefix of the same sequence of blocks; a block is final once a  *)
(* node holds it; its transactions spend what the blocks before it left    *)
(* unspent, each output at most once.                                      *)
(***************************************************************************)
EXTENDS Naturals, Sequences

CONSTANTS Nodes, Txs, Spends, Creates, Genesis

VARIABLE ledger     \* ledger[n]: the sets of transactions of n's blocks, in order

SpentBy(txs) == UNION {Spends[t] : t \in txs}
CreatedBy(txs) == UNION {Creates[t] : t \in txs}
TxsOf(blocks) == UNION {blocks[i] : i \in 1 .. Len(blocks)}
Unspent(blocks) == (Genesis \cup CreatedBy(TxsOf(blocks))) \ SpentBy(TxsOf(blocks))

Spendable(txs, U) ==
    /\ SpentBy(txs) \subseteq U
    /\ \A t, u \in txs : t # u => Spends[t] \cap Spends[u] = {}

Init == ledger = [n \in Nodes |-> <<>>]

\* Node n learns its next block: the one another node already holds at that height,
\* or a new one.
Extend(n, txs) ==
    /\ txs # {}
    /\ Spendable(txs, Unspent(ledger[n]))
    /\ \A k \in Nodes :
          Len(ledger[k]) > Len(ledger[n]) => ledger[k][Len(ledger[n]) + 1] = txs
    /\ ledger' = [ledger EXCEPT ![n] = Append(@, txs)]

Next == \E n \in Nodes, txs \in SUBSET Txs : Extend(n, txs)

Spec == Init /\ [][Next]_ledger
=============================================================================
