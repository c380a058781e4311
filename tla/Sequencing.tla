----------------------------- MODULE Sequencing ------------------------------
(***************************************************************************)
(* What the node state promises of settlement: transactions enter in the   *)
(* order of the blocks, and one that changes contracts does so after every *)
(* transaction that entered before it and has a blob on one of the same    *)
(* contracts has left.  Transactions may leave without an effect at any    *)
(* time.                                                                   *)
(***************************************************************************)
EXTENDS Naturals

VARIABLES
    pending,     \* the transactions that wait: number of arrival, hash, contracts
    successful   \* the hashes that settled in the current block

Init == pending = {} /\ successful = {}

Arrive(e) ==
    /\ \A d \in pending : d.nb < e.nb /\ d.tx # e.tx
    /\ pending' = pending \cup {e} /\ UNCHANGED successful

\* e takes effect; gone leave with it, without an effect.
Succeed(e, gone) ==
    /\ \A d \in pending : d.nb < e.nb => d.contracts \cap e.contracts = {}
    /\ pending' = pending \ ({e} \cup gone)
    /\ successful' = successful \cup {e.tx}

Leave == pending' \subseteq pending /\ UNCHANGED successful

NewBlock == successful' = {} /\ UNCHANGED pending

Next ==
    \/ \E e \in pending' \ pending : Arrive(e)
    \/ \E e \in pending : Succeed(e, pending \ pending')
    \/ Leave
    \/ NewBlock

Spec == Init /\ [][Next]_<<pending, successful>>

=============================================================================
