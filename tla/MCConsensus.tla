---------------------------- MODULE MCConsensus ----------------------------
(* Instances of Consensus for TLC: three validators, the third with twice   *)
(* the stake of the others, so that f = 1 and it is part of every quorum.   *)
EXTENDS Consensus

CONSTANTS va, vb, vh

MCBonded == <<va, vb, vh>>
MCStake  == [v \in {va, vb, vh} |-> IF v = vh THEN 2 ELSE 1]

\* va never hears of timeouts: views change without it.
MCLostViews == {va} \X {"Timeout", "TimeoutCertificate"}

\* vb hears neither of commits nor of timeouts: it has to catch up with Prepares.
MCLostCommits == {vb} \X {"Commit", "Timeout", "TimeoutCertificate"}

\* va does not hear of Confirms: vb and vh alone are the quorum.
MCLostConfirms == {va} \X {"Confirm"}

\* vb misses the round of view 0, and nobody hears of a commit.
MCLostRound == ({vb} \X {"Prepare", "Confirm"}) \cup ({va, vb, vh} \X {"Commit"})

=============================================================================
