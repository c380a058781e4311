-------------------------------- MODULE MCAutoProver --------------------------------
(* Three transactions: tc succeeds only after ta, and tb is an error to execute or may be failed *)
(* by another contract.                                                                          *)
EXTENDS AutoProver

CONSTANTS ta, tb, tc

MCOrder == <<ta, tb, tc>>
MCNeeds == [t \in {ta, tb, tc} |-> IF t = tc THEN {ta} ELSE {}]
====
