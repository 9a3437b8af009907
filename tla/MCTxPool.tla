------------------------------ MODULE MCTxPool ------------------------------
EXTENDS TxPool
Coin(k, v, m) == [tx |-> 0, index |-> k, value |-> v, mine |-> m]
MCGenesis == {Coin(1, 1, TRUE), Coin(2, 2, TRUE), Coin(3, 1, FALSE)}
=============================================================================
