------------------------------ MODULE MCMempool ------------------------------
(* Small instances of Mempool for TLC. *)
EXTENDS Mempool

CONSTANTS o, a, reg, prf

\* The operator makes a proof of availability alone, or needs the vote of a.
OpAlone  == [n \in Nodes |-> IF n = o THEN 2 ELSE 1]
OpAndOne == [n \in Nodes |-> IF n = o THEN 1 ELSE 2]

MCSetups ==
    {[stake |-> OpAlone,  submits |-> 2, restarts |-> 0],
     [stake |-> OpAndOne, submits |-> 2, restarts |-> 0],
     [stake |-> OpAlone,  submits |-> 1, restarts |-> 1]}

MCKind == [t \in Txs |-> CASE t = reg -> "register" [] t = prf -> "proof"]
=============================================================================
