--------------------------- MODULE MCConsensusFifo ---------------------------
(* Instances of ConsensusFifo for TLC; see MCConsensus.                     *)
EXTENDS ConsensusFifo

CONSTANTS va, vb, vh

MCBonded == <<vh, va, vb>>
MCStake  == [v \in {va, vb, vh} |-> IF v = vh THEN 2 ELSE 1]

=============================================================================
