--------------------------- MODULE NodeStateProofs ---------------------------
(* Theorems about NodeState, for any contracts, transactions, proofs and     *)
(* bounds.                                                                   *)
EXTENDS NodeState, Inductions, TLAPS, FiniteSetTheorems, WellFoundedInduction

-----------------------------------------------------------------------------
(* The map and the queues.                                                 *)

\* The entries a map of transactions makes in the queue of c.
Entries(m, c) ==
    {[nb |-> m[t].nb, tx |-> t] :
       t \in {t \in DOMAIN m : c \in get_contracts_blocked_by_tx(t)}}

CoherentWith(m, q) == \A c \in Names : q[c] = Entries(m, c)

LEMMA DequeueOK ==
    ASSUME NEW m, NEW q, CoherentWith(m, q), NEW S
    PROVE  CoherentWith(Without(m, S), Dequeued(q, S))
<1> SUFFICES ASSUME NEW c \in Names
             PROVE  Dequeued(q, S)[c] = Entries(Without(m, S), c)
  BY DEF CoherentWith
<1>1. Dequeued(q, S)[c] =
        {e \in Entries(m, c) : ~(e.tx \in S /\ c \in get_contracts_blocked_by_tx(e.tx))}
  BY DEF Dequeued, CoherentWith
<1>2. /\ DOMAIN Without(m, S) = DOMAIN m \ S
      /\ \A t \in DOMAIN m \ S : Without(m, S)[t] = m[t]
  BY DEF Without
<1> QED
  BY <1>1, <1>2 DEF Entries

LEMMA PushedOK ==
    ASSUME NEW m, NEW ps
    PROVE  /\ DOMAIN Pushed(m, ps) = DOMAIN m
           /\ \A t \in DOMAIN m : Pushed(m, ps)[t].nb = m[t].nb
BY DEF Pushed

LEMMA PushedCoherent ==
    ASSUME NEW m, NEW q, CoherentWith(m, q), NEW ps
    PROVE  CoherentWith(Pushed(m, ps), q)
<1>1. \A c \in Names : Entries(Pushed(m, ps), c) = Entries(m, c)
  BY PushedOK DEF Entries
<1> QED
  BY <1>1 DEF CoherentWith

\* What a queue holds is in the map, with its number.
LEMMA EntryOK ==
    ASSUME NEW m, NEW q, CoherentWith(m, q), NEW c \in Names, NEW e \in q[c]
    PROVE  e.tx \in DOMAIN m /\ e.nb = m[e.tx].nb
BY DEF CoherentWith, Entries

LEMMA FrontOK ==
    ASSUME NEW m, NEW q, CoherentWith(m, q), NEW c \in Names
    PROVE  Front(q[c]) \subseteq DOMAIN m
BY EntryOK DEF Front

\* The contracts of the blobs of a transaction have a queue.
LEMMA BlobContractsOK ==
    ASSUME batch \in DOMAIN Batches, NEW t \in DOMAIN Sent.blobs
    PROVE  /\ BlobContracts(t) \subseteq Names
           /\ BlobContracts(t) \subseteq get_contracts_blocked_by_tx(t)
<1>1. \A i \in DOMAIN Sent.blobs[t] : Blob(t, i) \in BlobType
  BY BatchesAssumption DEF Sent, Blob
<1>2. \A i \in DOMAIN Sent.blobs[t] : Blob(t, i).contract \in Names
  BY <1>1 DEF BlobType
<1> QED
  BY <1>2 DEF BlobContracts, get_contracts_blocked_by_tx, Retained

LEMMA NextTxsOK ==
    ASSUME NEW m, NEW q, CoherentWith(m, q), batch \in DOMAIN Batches,
           NEW t \in DOMAIN Sent.blobs
    PROVE  NextTxs(q, t) \subseteq DOMAIN m
BY FrontOK, BlobContractsOK DEF NextTxs

\* The order of hashes picks one of a set.
LEMMA MinOK ==
    ASSUME NEW S \in SUBSET Nat, S # {}
    PROVE  Min(S) \in S
<1>1. \E x \in S : \A y \in S : x <= y
  BY LeastElement
<1> QED
  BY <1>1 DEF Min

\* What try_to_settle_blob_tx settles is in the map, and next if it succeeds.
LEMMA OutcomeOK ==
    ASSUME NEW t
    PROVE  /\ Outcome(t).outcome # "NotReady" => t \in DOMAIN unsettled
           /\ Outcome(t).outcome = "Success" => is_next_to_settle(unsettled, order, t)
BY DEF Outcome, Verdict, NotReady, Fails

-----------------------------------------------------------------------------
(* The inductive invariant.                                                *)

Typed ==
    /\ batch \in DOMAIN Batches /\ arrivals \in Nat /\ height \in Nat
    /\ DOMAIN unsettled \subseteq DOMAIN Sent.blobs
    /\ \A t \in DOMAIN unsettled : unsettled[t].nb \in Nat /\ unsettled[t].nb < arrivals
    /\ todo \subseteq Txs /\ unsettlable \subseteq Txs /\ expiring \in Seq(Txs)
    /\ DOMAIN timeouts = 1 .. MaxHeight + MaxWindow
    /\ \A h \in DOMAIN timeouts : timeouts[h] \in Seq(Txs)
    /\ "successful" \in DOMAIN block

IInv == Typed /\ Coherent

LEMMA CoherentDef == Coherent <=> CoherentWith(unsettled, order)
BY DEF Coherent, CoherentWith, Entries

\* The batch never changes, nor do the queues its transactions belong to.
LEMMA SameBatch ==
    ASSUME batch' = batch
    PROVE  /\ Sent' = Sent
           /\ \A t : get_contracts_blocked_by_tx(t)' = get_contracts_blocked_by_tx(t)
           /\ \A t : BlobContracts(t)' = BlobContracts(t)
BY DEF Sent, get_contracts_blocked_by_tx, BlobContracts, Retained, Blob

LEMMA CoherentNext ==
    ASSUME batch' = batch, CoherentWith(unsettled', order')
    PROVE  Coherent'
BY SameBatch DEF Coherent, CoherentWith, Entries

LEMMA SetOK ==
    ASSUME Typed, NEW t \in Txs, NEW w
    PROVE  /\ DOMAIN set(timeouts, t, w) = 1 .. MaxHeight + MaxWindow
           /\ \A h \in 1 .. MaxHeight + MaxWindow : set(timeouts, t, w)[h] \in Seq(Txs)
BY DEF Typed, set

LEMMA SentTxs ==
    ASSUME Typed
    PROVE  DOMAIN Sent.blobs \subseteq Txs /\ DOMAIN unsettled \subseteq Txs
BY BatchesAssumption DEF Typed, Sent

LEMMA InitOK == Init => IInv
<1> SUFFICES ASSUME Init PROVE IInv
  OBVIOUS
<1>1. DOMAIN unsettled = {}
  BY DEF Init
<1>2. Typed
  BY <1>1, ConstantsAssumption DEF Init, Typed, EmptyBlock
<1>3. CoherentWith(unsettled, order)
  BY <1>1 DEF Init, CoherentWith, Entries
<1> QED
  BY <1>2, <1>3, CoherentDef DEF IInv

LEMMA NewBlockOK == ASSUME IInv, NewBlock PROVE IInv'
<1> DEFINE due == timeouts[height + 1]
<1>1. due \in Seq(Txs)
  BY ConstantsAssumption DEF IInv, Typed, NewBlock
<1>2. /\ expiring' \in Seq(Txs)
      /\ DOMAIN timeouts' = 1 .. MaxHeight + MaxWindow
      /\ \A h \in DOMAIN timeouts' : timeouts'[h] \in Seq(Txs)
  BY <1>1 DEF IInv, Typed, NewBlock
<1>3. Typed'
  BY <1>2, SameBatch DEF IInv, Typed, NewBlock, EmptyBlock
<1> QED
  BY <1>3, CoherentDef, CoherentNext DEF IInv, NewBlock

\* A transaction leaves the map and the queues.
LEMMA LeaveOK ==
    ASSUME IInv, NEW t \in DOMAIN unsettled
    PROVE  /\ CoherentWith(Without(unsettled, {t}), Dequeued(order, {t}))
           /\ NextTxs(Dequeued(order, {t}), t) \subseteq DOMAIN unsettled \ {t}
<1>1. CoherentWith(Without(unsettled, {t}), Dequeued(order, {t}))
  BY DequeueOK, CoherentDef DEF IInv
<1>2. NextTxs(Dequeued(order, {t}), t) \subseteq DOMAIN Without(unsettled, {t})
  BY <1>1, NextTxsOK DEF IInv, Typed
<1> QED
  BY <1>1, <1>2 DEF Without

\* What is left of the map keeps its type.
LEMMA RestOK ==
    ASSUME Typed, batch' = batch, arrivals' = arrivals,
           DOMAIN unsettled' \subseteq DOMAIN unsettled,
           \A t \in DOMAIN unsettled' : unsettled'[t].nb = unsettled[t].nb
    PROVE  /\ DOMAIN unsettled' \subseteq DOMAIN Sent'.blobs
           /\ \A t \in DOMAIN unsettled' :
                unsettled'[t].nb \in Nat /\ unsettled'[t].nb < arrivals'
BY SameBatch DEF Typed

LEMMA ClearTimeoutOK == ASSUME IInv, ClearTimeout PROVE IInv'
<1> DEFINE t == Head(expiring)
<1>1. expiring' \in Seq(Txs)
  BY DEF IInv, Typed, ClearTimeout
<1>2. CASE t \in DOMAIN unsettled
  <2>1. /\ unsettled' = Without(unsettled, {t}) /\ order' = Dequeued(order, {t})
        /\ todo' = NextTxs(Dequeued(order, {t}), t)
        /\ block' = [block EXCEPT !.timed_out = @ \cup {t}]
        /\ UNCHANGED <<batch, height, contracts, timeouts, unsettlable, arrivals>>
    BY <1>2 DEF ClearTimeout
  <2>2. CoherentWith(unsettled', order') /\ todo' \subseteq DOMAIN unsettled
    BY <1>2, <2>1, LeaveOK
  <2>3. /\ DOMAIN unsettled' \subseteq DOMAIN unsettled
        /\ \A u \in DOMAIN unsettled' : unsettled'[u].nb = unsettled[u].nb
    BY <2>1 DEF Without
  <2>4. Typed'
    BY <1>1, <2>1, <2>2, <2>3, RestOK, SentTxs DEF IInv, Typed
  <2> QED
    BY <2>1, <2>2, <2>4, CoherentNext DEF IInv
<1>3. CASE t \notin DOMAIN unsettled
  <2>1. UNCHANGED <<batch, height, contracts, timeouts, unsettlable, arrivals,
                    unsettled, order, todo, block>>
    BY <1>3 DEF ClearTimeout
  <2>2. Typed'
    BY <1>1, <2>1, SameBatch DEF IInv, Typed
  <2> QED
    BY <2>1, <2>2, CoherentDef, CoherentNext DEF IInv
<1> QED
  BY <1>2, <1>3

\* An arrival: the number is higher than every other.
LEMMA ArrivalOK ==
    ASSUME IInv, NEW t \in DOMAIN Sent.blobs, t \notin DOMAIN unsettled,
           handle_blob_tx(t)
    PROVE  /\ DOMAIN unsettled' = DOMAIN unsettled \cup {t}
           /\ unsettled'[t].nb = arrivals /\ arrivals' = arrivals + 1
           /\ \A u \in DOMAIN unsettled : unsettled'[u] = unsettled[u]
           /\ CoherentWith(unsettled', order')
<1>1. /\ unsettled' = [u \in DOMAIN unsettled \cup {t} |->
                         IF u = t THEN UnsettledTx(t) ELSE unsettled[u]]
      /\ order' = [c \in Names |->
                     IF c \in get_contracts_blocked_by_tx(t)
                     THEN order[c] \cup {[nb |-> arrivals, tx |-> t]} ELSE order[c]]
      /\ arrivals' = arrivals + 1
  BY DEF handle_blob_tx, Enqueued
<1>2. UnsettledTx(t).nb = arrivals
  BY DEF UnsettledTx
<1>3. /\ DOMAIN unsettled' = DOMAIN unsettled \cup {t}
      /\ unsettled'[t].nb = arrivals
      /\ \A u \in DOMAIN unsettled : unsettled'[u] = unsettled[u]
  BY <1>1, <1>2
<1>4. ASSUME NEW c \in Names PROVE order'[c] = Entries(unsettled', c)
  <2>1. order[c] = Entries(unsettled, c)
    BY CoherentDef DEF IInv, CoherentWith
  <2>2. CASE c \in get_contracts_blocked_by_tx(t)
    <3>1. Entries(unsettled', c) = Entries(unsettled, c) \cup {[nb |-> arrivals, tx |-> t]}
      BY <1>3, <2>2 DEF Entries
    <3> QED
      BY <1>1, <2>1, <2>2, <3>1
  <2>3. CASE c \notin get_contracts_blocked_by_tx(t)
    <3>1. Entries(unsettled', c) = Entries(unsettled, c)
      BY <1>3, <2>3 DEF Entries
    <3> QED
      BY <1>1, <2>1, <2>3, <3>1
  <2> QED
    BY <2>2, <2>3
<1> QED
  BY <1>1, <1>3, <1>4 DEF CoherentWith

LEMMA BlobTxOK == ASSUME IInv, BlobTx PROVE IInv'
<1>1. PICK t \in DOMAIN Sent.blobs :
        IF Refused(t)
        THEN /\ block' = [block EXCEPT !.failed = @ \cup {t}]
             /\ UNCHANGED <<unsettled, order, arrivals, timeouts, todo>>
        ELSE t \notin DOMAIN unsettled /\ arrivals < MaxArrivals /\ handle_blob_tx(t)
  BY DEF BlobTx
<1>2. UNCHANGED <<batch, height, contracts, expiring, unsettlable>>
  BY DEF BlobTx
<1>3. CASE Refused(t)
  <2>1. Typed'
    BY <1>1, <1>2, <1>3, SameBatch DEF IInv, Typed
  <2> QED
    BY <1>1, <1>2, <1>3, <2>1, CoherentDef, CoherentNext DEF IInv
<1>4. CASE ~Refused(t)
  <2>1. /\ DOMAIN unsettled' = DOMAIN unsettled \cup {t}
        /\ unsettled'[t].nb = arrivals /\ arrivals' = arrivals + 1
        /\ \A u \in DOMAIN unsettled : unsettled'[u] = unsettled[u]
        /\ CoherentWith(unsettled', order')
    BY <1>1, <1>4, ArrivalOK
  <2>2. t \in Txs
    BY SentTxs DEF IInv
  <2>3. \E w : timeouts' = set(timeouts, t, w) \/ timeouts' = timeouts
    BY <1>1, <1>4 DEF handle_blob_tx
  <2>4. /\ DOMAIN timeouts' = 1 .. MaxHeight + MaxWindow
        /\ \A h \in DOMAIN timeouts' : timeouts'[h] \in Seq(Txs)
    BY <2>2, <2>3, SetOK DEF IInv, Typed
  <2>5. todo' \subseteq Txs /\ block' = block
    BY <1>1, <1>4, <2>2 DEF handle_blob_tx
  <2>6. /\ DOMAIN unsettled' \subseteq DOMAIN Sent'.blobs /\ arrivals' \in Nat
        /\ \A u \in DOMAIN unsettled' :
             unsettled'[u].nb \in Nat /\ unsettled'[u].nb < arrivals'
    BY <1>2, <2>1, SameBatch DEF IInv, Typed
  <2>7. Typed'
    BY <1>2, <2>4, <2>5, <2>6, SameBatch DEF IInv, Typed
  <2> QED
    BY <1>2, <2>1, <2>7, CoherentNext DEF IInv
<1> QED
  BY <1>3, <1>4

LEMMA ProofTxOK == ASSUME IInv, ProofTx PROVE IInv'
<1>1. \E ps : unsettled' = Pushed(unsettled, ps)
  BY DEF ProofTx
<1>2. /\ DOMAIN unsettled' = DOMAIN unsettled
      /\ \A u \in DOMAIN unsettled : unsettled'[u].nb = unsettled[u].nb
      /\ CoherentWith(unsettled', order)
  BY <1>1, PushedOK, PushedCoherent, CoherentDef DEF IInv
<1>3. UNCHANGED <<batch, height, contracts, order, timeouts, block, expiring,
                  unsettlable, arrivals>>
  BY DEF ProofTx
<1>4. todo' \subseteq DOMAIN unsettled
  BY DEF ProofTx, is_next_to_settle
<1>5. Typed'
  BY <1>2, <1>3, <1>4, RestOK, SentTxs DEF IInv, Typed
<1> QED
  BY <1>2, <1>3, <1>5, CoherentNext DEF IInv

LEMMA SettleFailedOK ==
    ASSUME IInv, NEW t \in DOMAIN unsettled, SettleFailed(t),
           UNCHANGED <<batch, height, timeouts, expiring, arrivals>>
    PROVE  IInv'
<1>1. /\ unsettled' = Without(unsettled, {t}) /\ order' = Dequeued(order, {t})
      /\ todo' = (todo \ {t}) \cup NextTxs(Dequeued(order, {t}), t)
      /\ block' = [block EXCEPT !.failed = @ \cup {t}]
      /\ unsettlable' = unsettlable
  BY DEF SettleFailed
<1>2. CoherentWith(unsettled', order') /\ todo' \subseteq todo \cup DOMAIN unsettled
  BY <1>1, LeaveOK
<1>3. /\ DOMAIN unsettled' \subseteq DOMAIN unsettled
      /\ \A u \in DOMAIN unsettled' : unsettled'[u].nb = unsettled[u].nb
  BY <1>1 DEF Without
<1>4. Typed'
  BY <1>1, <1>2, <1>3, RestOK, SentTxs DEF IInv, Typed
<1> QED
  BY <1>2, <1>4, CoherentNext DEF IInv

\* What a success leaves in the map, and in the queues.
LEMMA SuccessRest ==
    ASSUME IInv, NEW t \in DOMAIN unsettled, NEW ch, NEW used,
           SettleSuccess(t, ch, used)
    PROVE  /\ DOMAIN unsettled' \subseteq DOMAIN unsettled \ {t}
           /\ \A u \in DOMAIN unsettled' : unsettled'[u].nb = unsettled[u].nb
           /\ CoherentWith(unsettled', order')
           /\ todo' \subseteq todo \cup DOMAIN unsettled
<1> DEFINE q == Dequeued(order, {t})
           gone == TimedOutByDeletion(q, ch)
           one == Without(unsettled, {t})
           m == Without(unsettled, {t} \cup gone)
           C == ContractsAfter(ch)
           ps == Forged(m, C, t)
<1>1. /\ unsettled' = Pushed(m, ps)
      /\ order' = Dequeued(q, gone)
      /\ todo' = (todo \ {t}) \cup NextTxs(q, t) \cup ForcedTxs(m, C, t)
  BY DEF SettleSuccess
<1>2. CoherentWith(one, q) /\ NextTxs(q, t) \subseteq DOMAIN unsettled
  BY LeaveOK
<1>3. m = Without(one, gone)
  BY DEF Without
<1>4. ForcedTxs(m, C, t) \subseteq DOMAIN m
  BY DEF ForcedTxs, Hits
<1>5. DOMAIN m \subseteq DOMAIN unsettled \ {t} /\ \A u \in DOMAIN m : m[u] = unsettled[u]
  BY DEF Without
<1> HIDE DEF q, gone, one, m, C, ps
<1>6. CoherentWith(m, Dequeued(q, gone))
  BY <1>2, <1>3, DequeueOK
<1>7. CoherentWith(unsettled', order')
  BY <1>1, <1>6, PushedCoherent
<1>8. DOMAIN unsettled' = DOMAIN m /\ \A u \in DOMAIN m : unsettled'[u].nb = m[u].nb
  BY <1>1, PushedOK
<1> QED
  BY <1>1, <1>2, <1>4, <1>5, <1>7, <1>8

LEMMA SettleSuccessOK ==
    ASSUME IInv, NEW t \in DOMAIN unsettled, NEW ch, NEW used,
           SettleSuccess(t, ch, used),
           UNCHANGED <<batch, height, timeouts, expiring, arrivals>>
    PROVE  IInv'
<1>1. "successful" \in DOMAIN block' /\ unsettlable' = unsettlable
  BY DEF IInv, Typed, SettleSuccess, Reported
<1>2. Typed'
  BY <1>1, SuccessRest, RestOK, SentTxs DEF IInv, Typed
<1> QED
  BY <1>2, SuccessRest, CoherentNext DEF IInv

\* The transaction tried next is one of those to try.
LEMMA NextInTodo ==
    ASSUME Typed, todo # {}
    PROVE  Min(todo) \in todo /\ Min(todo) \in Txs
BY MinOK, ConstantsAssumption DEF Typed

\* The three ways to go on with a transaction that is tried.
LEMMA SettleNextCases ==
    ASSUME IInv, SettleNext, NEW t, t = Min(todo)
    PROVE  /\ t \in todo /\ UNCHANGED <<batch, height, timeouts, expiring, arrivals>>
           /\ \/ /\ todo' = todo \ {t} /\ unsettlable' = unsettlable \cup {t}
                 /\ UNCHANGED <<unsettled, order, contracts, block>>
              \/ t \in DOMAIN unsettled /\ SettleFailed(t)
              \/ /\ t \in DOMAIN unsettled /\ is_next_to_settle(unsettled, order, t)
                 /\ \E ch, used : SettleSuccess(t, ch, used)
<1> DEFINE r == Outcome(t)
<1>1. r.outcome # "NotReady" => t \in DOMAIN unsettled
  BY OutcomeOK
<1>2. r.outcome = "Success" => is_next_to_settle(unsettled, order, t)
  BY OutcomeOK
<1>3. /\ todo # {} /\ UNCHANGED <<batch, height, timeouts, expiring, arrivals>>
      /\ \/ /\ r.outcome = "NotReady"
            /\ todo' = todo \ {t} /\ unsettlable' = unsettlable \cup {t}
            /\ UNCHANGED <<unsettled, order, contracts, block>>
         \/ r.outcome = "Failed" /\ SettleFailed(t)
         \/ r.outcome = "Success" /\ SettleSuccess(t, r.changes, r.used)
  BY DEF SettleNext
<1> HIDE DEF r
<1> QED
  BY <1>1, <1>2, <1>3, NextInTodo DEF IInv

LEMMA SettleNextOK == ASSUME IInv, SettleNext PROVE IInv'
<1> DEFINE t == Min(todo)
<1> HIDE DEF t
<1>1. t \in todo /\ UNCHANGED <<batch, height, timeouts, expiring, arrivals>>
  BY SettleNextCases DEF t
<1>2. CASE /\ todo' = todo \ {t} /\ unsettlable' = unsettlable \cup {t}
           /\ UNCHANGED <<unsettled, order, contracts, block>>
  <2>1. Typed'
    BY <1>1, <1>2, SameBatch DEF IInv, Typed
  <2> QED
    BY <1>1, <1>2, <2>1, CoherentDef, CoherentNext DEF IInv
<1>3. CASE t \in DOMAIN unsettled /\ SettleFailed(t)
  BY <1>1, <1>3, SettleFailedOK
<1>4. CASE t \in DOMAIN unsettled /\ \E ch, used : SettleSuccess(t, ch, used)
  BY <1>1, <1>4, SettleSuccessOK
<1> QED
  BY <1>2, <1>3, <1>4, SettleNextCases DEF t

LEMMA ResetTimeoutOK == ASSUME IInv, ResetTimeout PROVE IInv'
<1> DEFINE t == Min(unsettlable)
<1>1. t \in Txs
  BY MinOK, ConstantsAssumption DEF IInv, Typed, ResetTimeout
<1>2. \E w : timeouts' = set(timeouts, t, w) \/ timeouts' = timeouts
  BY DEF ResetTimeout, TimeoutsAfter
<1>3. /\ DOMAIN timeouts' = 1 .. MaxHeight + MaxWindow
      /\ \A h \in DOMAIN timeouts' : timeouts'[h] \in Seq(Txs)
  BY <1>1, <1>2, SetOK DEF IInv, Typed
<1>4. Typed'
  BY <1>3, SameBatch DEF IInv, Typed, ResetTimeout
<1> QED
  BY <1>4, CoherentDef, CoherentNext DEF IInv, ResetTimeout

LEMMA StepOK == IInv /\ [Next]_vars => IInv'
<1> SUFFICES ASSUME IInv, [Next]_vars PROVE IInv'
  OBVIOUS
<1>1. CASE UNCHANGED vars
  <2>1. Typed'
    BY <1>1, SameBatch DEF IInv, Typed, vars
  <2> QED
    BY <1>1, <2>1, CoherentDef, CoherentNext DEF IInv, vars
<1> QED
  BY <1>1, NewBlockOK, BlobTxOK, ProofTxOK, ClearTimeoutOK, SettleNextOK, ResetTimeoutOK
  DEF Next, Loop

\* The invariant holds at every step of handle_signed_block.
THEOREM InvariantAlways == Spec => []IInv
BY InitOK, StepOK, PTL DEF Spec

\* The map and the queues of OrderedTxMap agree at every step, for any
\* transactions, proofs and bounds: insert, remove and the draining of a
\* deleted contract's queue keep them so.
THEOREM CoherentAlways == Spec => []Coherent
<1>1. IInv => Coherent
  BY DEF IInv
<1> QED
  BY <1>1, InvariantAlways, PTL

-----------------------------------------------------------------------------
(* The loops end.                                                          *)

\* The first component that differs decides.
LEMMA PrecedesOK ==
    ASSUME NEW a, NEW b, NEW c, NEW d, NEW w, NEW x, NEW y, NEW z,
           \/ w < a
           \/ w = a /\ x < b
           \/ w = a /\ x = b /\ y < c
           \/ w = a /\ x = b /\ y = c /\ z < d
    PROVE  Precedes(<<w, x, y, z>>, <<a, b, c, d>>)
<1> DEFINE p == <<w, x, y, z>>
           q == <<a, b, c, d>>
<1>1. /\ DOMAIN p = 1 .. 4 /\ DOMAIN q = 1 .. 4
      /\ p[1] = w /\ p[2] = x /\ p[3] = y /\ p[4] = z
      /\ q[1] = a /\ q[2] = b /\ q[3] = c /\ q[4] = d
  OBVIOUS
<1> HIDE DEF p, q
<1>2. CASE w < a
  <2>1. \A e \in 1 .. 1 - 1 : p[e] = q[e]
    OBVIOUS
  <2> QED
    BY <1>1, <1>2, <2>1 DEF Precedes, p, q
<1>3. CASE w = a /\ x < b
  <2>1. \A e \in 1 .. 2 - 1 : p[e] = q[e]
    BY <1>1, <1>3
  <2> QED
    BY <1>1, <1>3, <2>1 DEF Precedes, p, q
<1>4. CASE w = a /\ x = b /\ y < c
  <2>1. \A e \in 1 .. 3 - 1 : p[e] = q[e]
    BY <1>1, <1>4
  <2> QED
    BY <1>1, <1>4, <2>1 DEF Precedes, p, q
<1>5. CASE w = a /\ x = b /\ y = c /\ z < d
  <2>1. \A e \in 1 .. 4 - 1 : p[e] = q[e]
    BY <1>1, <1>5
  <2> QED
    BY <1>1, <1>5, <2>1 DEF Precedes, p, q
<1> QED
  BY <1>2, <1>3, <1>4, <1>5

\* A set of transactions that loses one has fewer.
LEMMA Fewer ==
    ASSUME NEW S, S \subseteq Txs, NEW T, T \subseteq S, NEW t \in S, t \notin T
    PROVE  Cardinality(T) < Cardinality(S)
<1>1. IsFiniteSet(S)
  BY ConstantsAssumption, FS_Subset
<1>2. /\ IsFiniteSet(S \ {t}) /\ Cardinality(S) \in Nat
      /\ Cardinality(S \ {t}) = Cardinality(S) - 1
  BY <1>1, FS_RemoveElement, FS_CardinalityType
<1>3. Cardinality(T) <= Cardinality(S \ {t}) /\ Cardinality(T) \in Nat
  BY <1>2, FS_Subset, FS_CardinalityType
<1> QED
  BY <1>2, <1>3, FS_CardinalityType

LEMMA RankDecreases ==
    ASSUME IInv, Next, ~Ready
    PROVE  Precedes(Rank', Rank)
<1> DEFINE less ==
      \/ Cardinality(DOMAIN unsettled') < Cardinality(DOMAIN unsettled)
      \/ unsettled' = unsettled /\ Len(expiring') < Len(expiring)
      \/ /\ unsettled' = unsettled /\ expiring' = expiring
         /\ Cardinality(todo') < Cardinality(todo)
      \/ /\ unsettled' = unsettled /\ expiring' = expiring /\ todo' = todo
         /\ Cardinality(unsettlable') < Cardinality(unsettlable)
<1>1. SUFFICES less
  BY PrecedesOK DEF Rank
<1>2. CASE ClearTimeout
  <2> DEFINE t == Head(expiring)
  <2>1. CASE t \in DOMAIN unsettled
    <3>1. DOMAIN unsettled' = DOMAIN unsettled \ {t}
      BY <1>2, <2>1 DEF ClearTimeout, Without
    <3> QED
      BY <2>1, <3>1, Fewer, SentTxs DEF IInv
  <2>2. CASE t \notin DOMAIN unsettled
    <3>1. unsettled' = unsettled /\ expiring' = Tail(expiring) /\ expiring # <<>>
      BY <1>2, <2>2 DEF ClearTimeout
    <3>2. Len(expiring') < Len(expiring)
      BY <3>1 DEF IInv, Typed
    <3> QED
      BY <3>1, <3>2
  <2> QED
    BY <2>1, <2>2
<1>3. CASE SettleNext
  <2> DEFINE t == Min(todo)
  <2> HIDE DEF t
  <2>1. t \in todo /\ expiring' = expiring
    BY <1>3, SettleNextCases DEF t
  <2>2. CASE todo' = todo \ {t} /\ unsettled' = unsettled
    BY <2>1, <2>2, Fewer DEF IInv, Typed
  <2>3. CASE t \in DOMAIN unsettled /\ SettleFailed(t)
    <3>1. DOMAIN unsettled' = DOMAIN unsettled \ {t}
      BY <2>3 DEF SettleFailed, Without
    <3> QED
      BY <2>3, <3>1, Fewer, SentTxs DEF IInv
  <2>4. CASE t \in DOMAIN unsettled /\ \E ch, used : SettleSuccess(t, ch, used)
    <3>1. DOMAIN unsettled' \subseteq DOMAIN unsettled \ {t}
      BY <2>4, SuccessRest
    <3> QED
      BY <2>4, <3>1, Fewer, SentTxs DEF IInv
  <2> QED
    BY <1>3, <2>2, <2>3, <2>4, SettleNextCases DEF t
<1>4. CASE ResetTimeout
  <2> DEFINE t == Min(unsettlable)
  <2>1. /\ unsettlable # {} /\ unsettlable' = unsettlable \ {t}
        /\ UNCHANGED <<unsettled, expiring, todo>>
    BY <1>4 DEF ResetTimeout
  <2>2. t \in unsettlable /\ unsettlable \subseteq Txs
    BY <2>1, MinOK, ConstantsAssumption DEF IInv, Typed
  <2> HIDE DEF t
  <2> QED
    BY <2>1, <2>2, Fewer
<1> QED
  BY <1>2, <1>3, <1>4 DEF Next, Loop, NewBlock, BlobTx, ProofTx

\* The loops of handle_signed_block end in every case: settling may free other
\* transactions and a nuke may force some, but every turn of a loop brings down
\* what is unsettled, or leaves it and brings down what is left to do.
THEOREM LoopsTerminate == Spec => LoopsEnd
<1>1. IInv /\ [Next]_vars => [~Ready => Precedes(Rank', Rank)]_vars
  BY RankDecreases
<1> QED
  BY <1>1, InvariantAlways, PTL DEF Spec, LoopsEnd

-----------------------------------------------------------------------------
(* Settlement respects the order of arrival.                               *)

PendingTx(m, t) == [nb |-> m[t].nb, tx |-> t, contracts |-> BlobContracts(t)]

LEMMA PendingOK ==
    ASSUME batch' = batch
    PROVE  /\ Pending  = {PendingTx(unsettled, t) : t \in DOMAIN unsettled}
           /\ Pending' = {PendingTx(unsettled', t) : t \in DOMAIN unsettled'}
BY DEF Pending, PendingTx, BlobContracts, Retained, Blob, Sent

LEMMA SubPending ==
    ASSUME batch' = batch, DOMAIN unsettled' \subseteq DOMAIN unsettled,
           \A t \in DOMAIN unsettled' : unsettled'[t].nb = unsettled[t].nb
    PROVE  Pending' \subseteq Pending
<1>1. \A t \in DOMAIN unsettled' : PendingTx(unsettled', t) = PendingTx(unsettled, t)
  BY DEF PendingTx
<1> QED
  BY <1>1, PendingOK

\* Nothing that arrived before the next to settle has a blob on its contracts.
LEMMA NextIsFirst ==
    ASSUME IInv, NEW t, is_next_to_settle(unsettled, order, t),
           NEW u \in DOMAIN unsettled, unsettled[u].nb < unsettled[t].nb
    PROVE  BlobContracts(u) \cap BlobContracts(t) = {}
<1> SUFFICES ASSUME NEW c \in BlobContracts(u), c \in BlobContracts(t)
             PROVE  FALSE
  OBVIOUS
<1>1. CoherentWith(unsettled, order) /\ t \in DOMAIN unsettled
  BY CoherentDef DEF IInv, is_next_to_settle
<1>2. c \in Names /\ c \in get_contracts_blocked_by_tx(u)
  BY BlobContractsOK DEF IInv, Typed
<1>3. [nb |-> unsettled[u].nb, tx |-> u] \in order[c]
  BY <1>1, <1>2 DEF CoherentWith, Entries
<1>4. t \in Front(order[c])
  BY DEF is_next_to_settle
<1>5. PICK e \in order[c] : e.tx = t /\ \A f \in order[c] : e.nb <= f.nb
  BY <1>4 DEF Front
<1>6. e.nb = unsettled[t].nb
  BY <1>1, <1>2, <1>5, EntryOK
<1>7. unsettled[t].nb <= unsettled[u].nb
  BY <1>3, <1>5, <1>6
<1> QED
  BY <1>1, <1>7 DEF IInv, Typed

LEMMA ArrivalArrives ==
    ASSUME IInv, batch' = batch, NEW t \in DOMAIN Sent.blobs, t \notin DOMAIN unsettled,
           handle_blob_tx(t)
    PROVE  Sequenced!Next
<1> DEFINE e == PendingTx(unsettled', t)
<1>1. /\ DOMAIN unsettled' = DOMAIN unsettled \cup {t}
      /\ unsettled'[t].nb = arrivals
      /\ \A u \in DOMAIN unsettled : unsettled'[u] = unsettled[u]
  BY ArrivalOK
<1>2. \A u \in DOMAIN unsettled : PendingTx(unsettled', u) = PendingTx(unsettled, u)
  BY <1>1 DEF PendingTx
<1>3. Pending' = Pending \cup {e}
  BY <1>1, <1>2, PendingOK
<1>4. e.nb = arrivals /\ e.tx = t
  BY <1>1 DEF PendingTx
<1>5. \A d \in Pending : d.nb < e.nb /\ d.tx # e.tx
  BY <1>4, PendingOK DEF PendingTx, IInv, Typed
<1>6. block' = block
  BY DEF handle_blob_tx
<1> HIDE DEF e
<1>7. e \notin Pending
  BY <1>5
<1> QED
  BY <1>3, <1>5, <1>6, <1>7 DEF Sequenced!Next, Sequenced!Arrive

LEMMA SuccessSucceeds ==
    ASSUME IInv, batch' = batch, NEW t, is_next_to_settle(unsettled, order, t),
           NEW ch, NEW used, SettleSuccess(t, ch, used)
    PROVE  Sequenced!Next
<1> DEFINE e == PendingTx(unsettled, t)
<1>1. t \in DOMAIN unsettled
  BY DEF is_next_to_settle
<1>2. /\ DOMAIN unsettled' \subseteq DOMAIN unsettled \ {t}
      /\ \A u \in DOMAIN unsettled' : unsettled'[u].nb = unsettled[u].nb
  BY <1>1, SuccessRest
<1>3. Pending' \subseteq Pending
  BY <1>2, SubPending
<1>4. e.nb = unsettled[t].nb /\ e.tx = t /\ e.contracts = BlobContracts(t)
  BY DEF PendingTx
<1>5. e \in Pending /\ e \notin Pending'
  BY <1>1, <1>2, PendingOK DEF PendingTx
<1>6. ASSUME NEW d \in Pending, d.nb < e.nb PROVE d.contracts \cap e.contracts = {}
  <2>1. PICK u \in DOMAIN unsettled : d = PendingTx(unsettled, u)
    BY PendingOK
  <2>2. d.nb = unsettled[u].nb /\ d.contracts = BlobContracts(u)
    BY <2>1 DEF PendingTx
  <2> QED
    BY <1>4, <1>6, <2>2, NextIsFirst
<1>7. block'.successful = block.successful \cup {t}
  BY DEF SettleSuccess, Reported, IInv, Typed
<1> HIDE DEF e
<1>8. Pending' = Pending \ ({e} \cup (Pending \ Pending'))
  BY <1>3, <1>5
<1> QED
  BY <1>4, <1>5, <1>6, <1>7, <1>8 DEF Sequenced!Next, Sequenced!Succeed

LEMMA StepSequenced ==
    ASSUME IInv, [Next]_vars
    PROVE  [Sequenced!Next]_<<Pending, block.successful>>
<1> DEFINE leaves == /\ batch' = batch /\ DOMAIN unsettled' \subseteq DOMAIN unsettled
                     /\ \A t \in DOMAIN unsettled' : unsettled'[t].nb = unsettled[t].nb
                     /\ block'.successful = block.successful
<1>1. CASE leaves
  BY <1>1, SubPending DEF Sequenced!Next, Sequenced!Leave
<1>2. CASE UNCHANGED vars
  BY <1>1, <1>2 DEF vars
<1>3. CASE NewBlock
  <2>1. Pending' = Pending /\ block'.successful = {}
    BY <1>3, PendingOK DEF NewBlock, EmptyBlock
  <2> QED
    BY <2>1 DEF Sequenced!Next, Sequenced!NewBlock
<1>4. CASE BlobTx
  <2>1. PICK t \in DOMAIN Sent.blobs :
          IF Refused(t)
          THEN /\ block' = [block EXCEPT !.failed = @ \cup {t}]
               /\ UNCHANGED <<unsettled, order, arrivals, timeouts, todo>>
          ELSE t \notin DOMAIN unsettled /\ arrivals < MaxArrivals /\ handle_blob_tx(t)
    BY <1>4 DEF BlobTx
  <2>2. batch' = batch
    BY <1>4 DEF BlobTx
  <2>3. CASE Refused(t)
    BY <1>1, <2>1, <2>2, <2>3 DEF IInv, Typed
  <2>4. CASE ~Refused(t)
    BY <2>1, <2>2, <2>4, ArrivalArrives
  <2> QED
    BY <2>3, <2>4
<1>5. CASE ProofTx
  <2>1. \E ps : unsettled' = Pushed(unsettled, ps)
    BY <1>5 DEF ProofTx
  <2>2. UNCHANGED <<batch, block>>
    BY <1>5 DEF ProofTx
  <2> QED
    BY <1>1, <2>1, <2>2, PushedOK
<1>6. CASE ClearTimeout
  <2>1. block'.successful = block.successful /\ batch' = batch
    BY <1>6 DEF ClearTimeout, IInv, Typed
  <2>2. \/ unsettled' = Without(unsettled, {Head(expiring)})
        \/ unsettled' = unsettled
    BY <1>6 DEF ClearTimeout
  <2> QED
    BY <1>1, <2>1, <2>2 DEF Without
<1>7. CASE SettleNext
  <2> DEFINE t == Min(todo)
  <2> HIDE DEF t
  <2>1. batch' = batch
    BY <1>7, SettleNextCases DEF t
  <2>2. CASE UNCHANGED <<unsettled, order, contracts, block>>
    BY <1>1, <2>1, <2>2
  <2>3. CASE SettleFailed(t)
    <3>1. block'.successful = block.successful
      BY <2>3 DEF SettleFailed, IInv, Typed
    <3>2. unsettled' = Without(unsettled, {t})
      BY <2>3 DEF SettleFailed
    <3> QED
      BY <1>1, <2>1, <3>1, <3>2 DEF Without
  <2>4. CASE is_next_to_settle(unsettled, order, t) /\ \E ch, used : SettleSuccess(t, ch, used)
    BY <2>1, <2>4, SuccessSucceeds
  <2> QED
    BY <1>7, <2>2, <2>3, <2>4, SettleNextCases DEF t
<1>8. CASE ResetTimeout
  BY <1>1, <1>8 DEF ResetTimeout
<1> QED
  BY <1>2, <1>3, <1>4, <1>5, <1>6, <1>7, <1>8 DEF Next, Loop

\* Settlement implements Sequencing: a transaction takes effect only when every
\* transaction that arrived before it on a contract of one of its blobs has
\* left, whatever timeouts, failures, deletions and nukes happen in between.
THEOREM Implements == Spec => ImplementsSequencing
<1>1. Init => Sequenced!Init
  <2> SUFFICES ASSUME Init PROVE Sequenced!Init
    OBVIOUS
  <2>1. DOMAIN unsettled = {}
    BY DEF Init
  <2> QED
    BY <2>1 DEF Init, Sequenced!Init, Pending, BlobContracts, Retained, Blob, Sent, EmptyBlock
<1>2. IInv /\ [Next]_vars => [Sequenced!Next]_<<Pending, block.successful>>
  BY StepSequenced
<1> QED
  BY <1>1, <1>2, InvariantAlways, PTL DEF Spec, ImplementsSequencing, Sequenced!Spec

-----------------------------------------------------------------------------
(* The changes of an attempt.                                              *)

Contract3 == [prog : Int, state : Int, window : Int]

\* A change of n leads to a contract; what it does not report is as it was.
SoundChange(x, n) ==
    /\ x.alive \in BOOLEAN
    /\ x.alive = TRUE =>
         /\ x.c \in Contract3
         /\ \A f \in Fields \ x.fields : n \in DOMAIN contracts /\ x.c[f] = contracts[n][f]

Sound(ch) == \A n \in DOMAIN ch : SoundChange(ch[n], n)

ContractsTyped == \A n \in DOMAIN contracts : contracts[n] \in Contract3

LEMMA WithSound ==
    ASSUME NEW ch, Sound(ch), NEW n, NEW x, SoundChange(x, n)
    PROVE  Sound(With(ch, n, x))
<1>1. PICK y : y = With(ch, n, x)
  OBVIOUS
<1>2. DOMAIN y = DOMAIN ch \cup {n} /\ y[n] = x /\ \A k \in DOMAIN ch : k # n => y[k] = ch[k]
  BY <1>1 DEF With
<1>3. Sound(y)
  BY <1>2 DEF Sound
<1> QED
  BY <1>1, <1>3

\* A change of all fields, or a deletion.
LEMMA ReplaceOK ==
    ASSUME NEW ch, Sound(ch), NEW n
    PROVE  /\ Sound(With(ch, n, Deletion))
           /\ \A c \in Contract3 : Sound(With(ch, n, Change(c, Fields)))
<1>1. SoundChange(Deletion, n)
  BY DEF Deletion, SoundChange
<1>2. \A c \in Contract3 : SoundChange(Change(c, Fields), n)
  BY DEF Change, SoundChange
<1> QED
  BY <1>1, <1>2, WithSound

\* The contract an attempt sees.
LEMMA GetOK ==
    ASSUME ContractsTyped, NEW ch, Sound(ch), NEW n, Exists(ch, n)
    PROVE  /\ get_contract(ch, n) \in Contract3
           /\ \A f \in Fields \ Modified(ch, n) :
                n \in DOMAIN contracts /\ get_contract(ch, n)[f] = contracts[n][f]
<1>1. CASE n \in DOMAIN ch
  <2>1. ch[n].alive /\ SoundChange(ch[n], n)
    BY <1>1 DEF Exists, Sound
  <2> QED
    BY <1>1, <2>1 DEF SoundChange, get_contract, Modified
<1>2. CASE n \notin DOMAIN ch
  BY <1>2 DEF ContractsTyped, Exists, get_contract, Modified
<1> QED
  BY <1>1, <1>2

\* One field of a contract is changed.
LEMMA FieldOK ==
    ASSUME ContractsTyped, NEW ch, Sound(ch), NEW n, Exists(ch, n), NEW f \in Fields, NEW v \in Int
    PROVE  Sound(With(ch, n, Change([get_contract(ch, n) EXCEPT ![f] = v],
                                    Modified(ch, n) \cup {f})))
<1> DEFINE c == get_contract(ch, n)
           d == [c EXCEPT ![f] = v]
           x == Change(d, Modified(ch, n) \cup {f})
<1>1. c \in Contract3 /\ \A g \in Fields \ Modified(ch, n) : n \in DOMAIN contracts /\ c[g] = contracts[n][g]
  BY GetOK
<1> HIDE DEF c
<1>2. d \in Contract3 /\ \A g \in Fields \ {f} : d[g] = c[g]
  BY <1>1 DEF Contract3, Fields
<1> HIDE DEF d
<1>3. x.alive = TRUE /\ x.c = d /\ x.fields = Modified(ch, n) \cup {f}
  BY DEF Change
<1> HIDE DEF x
<1>4. SoundChange(x, n)
  BY <1>1, <1>2, <1>3 DEF SoundChange
<1>5. Sound(With(ch, n, x))
  BY <1>4, WithSound
<1> QED
  BY <1>5 DEF x, d, c

LEMMA WindowInt == Window \subseteq Int /\ DefaultWindow \in Int /\ Unset \in Int
BY ConstantsAssumption DEF Window, NoTimeout, Unset

\* A contract as a user specifies it, its window filled in.
LEMMA SpecifiedOK ==
    ASSUME NEW c \in Specified, NEW w \in Int
    PROVE  /\ [c EXCEPT !.window = IF @ = Unset THEN w ELSE @] \in Contract3
           /\ c.prog \in Int /\ c.window \in Int
<1>1. c.window \in Int
  BY WindowInt DEF Specified
<1> QED
  BY <1>1 DEF Specified, Contract3

LEMMA EffectOK ==
    ASSUME NEW ch, Sound(ch), NEW c \in Contract3, NEW e \in EffectType
    PROVE  Sound(Effect(ch, c, e))
<1>1. CASE e.type = "Register"
  <2>1. e.c \in Specified /\ c.window \in Int
    BY <1>1 DEF EffectType, Contract3
  <2>2. [e.c EXCEPT !.window = IF @ = Unset THEN c.window ELSE @] \in Contract3
    BY <2>1, SpecifiedOK
  <2> QED
    BY <1>1, <2>2, ReplaceOK DEF Effect
<1>2. CASE e.type # "Register"
  BY <1>2, ReplaceOK DEF Effect
<1> QED
  BY <1>1, <1>2

\* The effects of a proof, in turn.
EffectsAre(ch, c, es, g, m) ==
    g = [k \in 0 .. m |-> IF k = 0 THEN ch ELSE Effect(g[k - 1], c, es[k])]

LEMMA EffectsExist ==
    ASSUME NEW n \in Nat, NEW ch, NEW c, NEW es
    PROVE  \E g : EffectsAre(ch, c, es, g, n)
<1> DEFINE P == {m \in 0 .. n : \E g : EffectsAre(ch, c, es, g, m)}
<1>1. 0 \in P
  <2>1. EffectsAre(ch, c, es, [k \in 0 .. 0 |-> ch], 0)
    BY DEF EffectsAre
  <2> QED
    BY <2>1
<1>2. ASSUME NEW m \in 0 .. (n - 1), m \in P PROVE m + 1 \in P
  <2>1. PICK g : EffectsAre(ch, c, es, g, m)
    BY <1>2
  <2> DEFINE x == Effect(g[m], c, es[m + 1])
             h == [k \in 0 .. m + 1 |-> IF k = m + 1 THEN x ELSE g[k]]
  <2>2. ASSUME NEW k \in 0 .. m + 1
        PROVE  h[k] = IF k = 0 THEN ch ELSE Effect(h[k - 1], c, es[k])
    <3>1. CASE k = m + 1
      BY <3>1
    <3>2. CASE k # m + 1
      <4>1. k \in 0 .. m /\ h[k] = g[k] /\ (k # 0 => h[k - 1] = g[k - 1])
        BY <3>2
      <4>2. g[k] = IF k = 0 THEN ch ELSE Effect(g[k - 1], c, es[k])
        BY <2>1, <4>1 DEF EffectsAre
      <4> QED
        BY <4>1, <4>2
    <3> QED
      BY <3>1, <3>2
  <2>3. h = [k \in 0 .. m + 1 |-> h[k]]
    OBVIOUS
  <2> HIDE DEF h
  <2>4. EffectsAre(ch, c, es, h, m + 1)
    BY <2>2, <2>3 DEF EffectsAre
  <2> QED
    BY <2>4
<1> HIDE DEF P
<1>3. 0 .. n \subseteq P
  BY <1>1, <1>2, InductionUpTo
<1> QED
  BY <1>3 DEF P

LEMMA ProcessProofOK ==
    ASSUME ContractsTyped, NEW ch, Sound(ch), NEW b, Exists(ch, b.contract), NEW p \in ProofType
    PROVE  Sound(process_proof(ch, b, p))
<1> DEFINE c == get_contract(ch, b.contract)
           n == Len(p.effects)
           eff == CHOOSE g : EffectsAre(ch, c, p.effects, g, n)
           after == eff[n]
           P == {k \in 0 .. n : Sound(eff[k])}
<1>0. c \in Contract3 /\ p.effects \in Seq(EffectType) /\ p.next \in Int
  BY GetOK DEF ProofType
<1>1. n \in Nat /\ \A k \in 1 .. n : p.effects[k] \in EffectType
  BY <1>0
<1>2. EffectsAre(ch, c, p.effects, eff, n)
  <2> HIDE DEF n
  <2> QED
    BY <1>1, EffectsExist
<1>3. process_proof(ch, b, p) =
        IF Exists(after, b.contract)
        THEN With(after, b.contract,
                  Change([get_contract(after, b.contract) EXCEPT !.state = p.next],
                         Modified(after, b.contract) \cup {"state"}))
        ELSE after
  BY DEF process_proof, EffectsAre
<1> HIDE DEF eff, n, c
<1>4. \A k \in 0 .. n : eff[k] = IF k = 0 THEN ch ELSE Effect(eff[k - 1], c, p.effects[k])
  BY <1>2 DEF EffectsAre
<1>5. 0 \in P
  <2>1. eff[0] = ch /\ 0 \in 0 .. n
    BY <1>1, <1>4
  <2> QED
    BY <2>1
<1>6. ASSUME NEW m \in 0 .. (n - 1), m \in P PROVE m + 1 \in P
  <2>1. m + 1 \in 0 .. n /\ m + 1 # 0 /\ (m + 1) - 1 = m /\ p.effects[m + 1] \in EffectType
    BY <1>1
  <2>2. eff[m + 1] = Effect(eff[m], c, p.effects[m + 1])
    BY <1>4, <2>1
  <2>3. Sound(eff[m + 1])
    BY <1>0, <1>6, <2>1, <2>2, EffectOK
  <2> QED
    BY <2>1, <2>3
<1> HIDE DEF P
<1>7. 0 .. n \subseteq P
  BY <1>1, <1>5, <1>6, InductionUpTo
<1>8. Sound(after)
  BY <1>1, <1>7 DEF P
<1> HIDE DEF after
<1>9. CASE Exists(after, b.contract)
  <2>1. "state" \in Fields
    BY DEF Fields
  <2>2. Sound(With(after, b.contract,
                   Change([get_contract(after, b.contract) EXCEPT !["state"] = p.next],
                          Modified(after, b.contract) \cup {"state"})))
    BY <1>0, <1>8, <1>9, <2>1, FieldOK, Zenon
  <2> QED
    BY <1>3, <1>9, <2>2
<1>10. CASE ~Exists(after, b.contract)
  BY <1>3, <1>8, <1>10
<1> QED
  BY <1>9, <1>10

LEMMA HyleOK ==
    ASSUME ContractsTyped, NEW ch, Sound(ch), NEW a \in ActionType, HyleAllows(ch, a)
    PROVE  Sound(handle_blob_for_hyle_tld(ch, a))
<1>0. a.c \in Specified /\ a.c.prog \in Int /\ a.c.window \in Int
  <2>1. a.c \in Specified
    BY DEF ActionType
  <2> QED
    BY <2>1, SpecifiedOK, WindowInt
<1>1. CASE a.type = "Register"
  <2>1. [a.c EXCEPT !.window = IF @ = Unset THEN DefaultWindow ELSE @] \in Contract3
    BY <1>0, WindowInt, SpecifiedOK
  <2> QED
    BY <1>1, <2>1, ReplaceOK DEF handle_blob_for_hyle_tld, handle_register_blob
<1>2. CASE a.type = "Delete"
  BY <1>2, ReplaceOK DEF handle_blob_for_hyle_tld, handle_delete_blob
<1>3. CASE a.type = "Nuke"
  BY <1>3 DEF handle_blob_for_hyle_tld
<1>4. CASE a.type \in {"UpdateProgramId", "UpdateTimeoutWindow"}
  <2>1. Exists(ch, a.name)
    BY <1>4 DEF HyleAllows
  <2> DEFINE f == IF a.type = "UpdateProgramId" THEN "prog" ELSE "window"
  <2>2. f \in Fields /\ a.c[f] \in Int
    BY <1>0 DEF Fields
  <2>3. handle_blob_for_hyle_tld(ch, a) =
          With(ch, a.name, Change([get_contract(ch, a.name) EXCEPT ![f] = a.c[f]],
                                  Modified(ch, a.name) \cup {f}))
    BY <1>4 DEF handle_blob_for_hyle_tld, handle_update_blob
  <2> HIDE DEF f
  <2> QED
    BY <2>1, <2>2, <2>3, FieldOK
<1>5. CASE a.type = "Call"
  BY <1>5 DEF HyleAllows
<1> QED
  BY <1>1, <1>2, <1>3, <1>4, <1>5 DEF ActionType

-----------------------------------------------------------------------------
(* The attempts to settle a transaction.                                   *)

\* The proofs kept for the blobs of the transactions in m.
ProofsTyped(m) == \A t \in DOMAIN m : m[t].proofs \in [Retained(t) -> Seq(ProofType)]

IsAttempt(a) ==
    a.failed \in BOOLEAN /\ a.used \in Seq(Nat) /\ Sound(a.changes)

LEMMA PassedOK ==
    ASSUME NEW a, IsAttempt(a), NEW k \in Nat, NEW ch, Sound(ch)
    PROVE  /\ IsAttempt(Passed(a, k, ch)) /\ Passed(a, k, ch).used = Append(a.used, k)
           /\ IsAttempt(Failed(a, k)) /\ Failed(a, k).used = Append(a.used, k)
<1>1. Append(a.used, k) \in Seq(Nat) /\ a.failed \in BOOLEAN /\ Sound(a.changes)
  BY DEF IsAttempt
<1>2. PICK x : x = Passed(a, k, ch)
  OBVIOUS
<1>3. x.changes = ch /\ x.failed = a.failed /\ x.used = Append(a.used, k)
  BY <1>2 DEF Passed
<1>4. PICK y : y = Failed(a, k)
  OBVIOUS
<1>5. y.changes = a.changes /\ y.failed = TRUE /\ y.used = Append(a.used, k)
  BY <1>4 DEF Failed
<1>6. IsAttempt(x) /\ IsAttempt(y)
  BY <1>1, <1>3, <1>5 DEF IsAttempt
<1> QED
  BY <1>2, <1>3, <1>4, <1>5, <1>6

\* The blobs of a transaction.
LEMMA BlobsOK ==
    ASSUME Typed, NEW t \in DOMAIN unsettled
    PROVE  /\ Sent.blobs[t] \in Seq(BlobType) /\ Retained(t) \subseteq DOMAIN Sent.blobs[t]
           /\ \A i \in Retained(t) : Blob(t, i) \in BlobType /\ i \in Nat
<1>1. Sent.blobs[t] \in Seq(BlobType)
  BY BatchesAssumption DEF Typed, Sent
<1> QED
  BY <1>1 DEF Retained, Blob

\* An attempt that failed goes no further; another goes on with one proof more.
LEMMA ExtensionsOK ==
    ASSUME Typed, ContractsTyped, ProofsTyped(unsettled), NEW t \in DOMAIN unsettled,
           NEW i \in Retained(t), NEW a, IsAttempt(a)
    PROVE  \/ Extensions(a, t, i) = {a}
           \/ /\ \A x \in Extensions(a, t, i) :
                   IsAttempt(x) /\ \E k \in Nat : x.used = Append(a.used, k)
              /\ \A x, y \in Extensions(a, t, i) : x.used = y.used => x = y
<1> DEFINE b == Blob(t, i)
           proofs == unsettled[t].proofs[i]
           fits == {k \in DOMAIN proofs : ProofFits(a.changes, b, proofs[k])}
           x(k) == IF proofs[k].success
                   THEN Passed(a, k, process_proof(a.changes, b, proofs[k])) ELSE Failed(a, k)
<1>0. Sound(a.changes) /\ a.used \in Seq(Nat)
  BY DEF IsAttempt
<1>1. b \in BlobType
  BY BlobsOK
<1>2. CASE a.failed
  BY <1>2 DEF Extensions
<1>3. CASE ~a.failed /\ b.contract = "hyle"
  <2>1. Extensions(a, t, i) = {IF HyleAllows(a.changes, b.action)
                               THEN Passed(a, 1, handle_blob_for_hyle_tld(a.changes, b.action))
                               ELSE Failed(a, 1)}
    BY <1>3 DEF Extensions
  <2>2. b.action \in ActionType
    BY <1>1 DEF BlobType
  <2>3. CASE HyleAllows(a.changes, b.action)
    <3>1. Sound(handle_blob_for_hyle_tld(a.changes, b.action))
      BY <1>0, <2>2, <2>3, HyleOK
    <3> HIDE DEF b
    <3> QED
      BY <2>1, <2>3, <3>1, PassedOK
  <2>4. CASE ~HyleAllows(a.changes, b.action)
    <3> HIDE DEF b
    <3> QED
      BY <1>0, <2>1, <2>4, PassedOK
  <2> QED
    BY <2>3, <2>4
<1>4. CASE ~a.failed /\ b.contract # "hyle"
  <2>1. Extensions(a, t, i) = {x(k) : k \in fits}
    BY <1>4 DEF Extensions
  <2>2. proofs \in Seq(ProofType)
    BY DEF ProofsTyped
  <2>3. ASSUME NEW k \in fits PROVE k \in Nat /\ IsAttempt(x(k)) /\ x(k).used = Append(a.used, k)
    <3>1. k \in Nat /\ proofs[k] \in ProofType /\ Exists(a.changes, b.contract)
      BY <2>2, <2>3 DEF ProofFits
    <3>2. Sound(process_proof(a.changes, b, proofs[k]))
      BY <1>0, <3>1, ProcessProofOK
    <3> HIDE DEF b, proofs
    <3>3. CASE proofs[k].success
      BY <3>1, <3>2, <3>3, PassedOK
    <3>4. CASE ~proofs[k].success
      BY <1>0, <3>1, <3>4, PassedOK
    <3> QED
      BY <3>1, <3>3, <3>4
  <2> HIDE DEF x, fits
  <2>4. \A k, l \in fits : x(k).used = x(l).used => k = l
    <3> SUFFICES ASSUME NEW k \in fits, NEW l \in fits, x(k).used = x(l).used PROVE k = l
      OBVIOUS
    <3>1. k \in Nat /\ l \in Nat /\ Append(a.used, k) = Append(a.used, l)
      BY <2>3
    <3>2. Append(a.used, k)[Len(a.used) + 1] = k /\ Append(a.used, l)[Len(a.used) + 1] = l
      BY <1>0, <3>1
    <3> QED
      BY <3>1, <3>2
  <2> QED
    BY <2>1, <2>3, <2>4
<1> QED
  BY <1>2, <1>3, <1>4

LEMMA PrefixPrecedes ==
    ASSUME NEW p \in Seq(Nat), NEW q \in Seq(Nat), Precedes(p, q), NEW v, NEW w,
           (v = p \/ \E k \in Nat : v = Append(p, k)),
           (w = q \/ \E k \in Nat : w = Append(q, k))
    PROVE  Precedes(v, w)
<1>0. \A s \in Seq(Nat), k \in Nat : \A e \in DOMAIN s :
        e \in DOMAIN Append(s, k) /\ Append(s, k)[e] = s[e]
  OBVIOUS
<1>1. \A e \in DOMAIN p : e \in DOMAIN v /\ v[e] = p[e]
  BY <1>0
<1>2. \A e \in DOMAIN q : e \in DOMAIN w /\ w[e] = q[e]
  BY <1>0
<1>3. PICK d \in DOMAIN p \cap DOMAIN q : p[d] < q[d] /\ \A e \in 1 .. d - 1 : p[e] = q[e]
  BY DEF Precedes
<1>4. d \in Nat /\ \A e \in 1 .. d - 1 : e \in DOMAIN p /\ e \in DOMAIN q
  BY <1>3
<1> QED
  BY <1>1, <1>2, <1>3, <1>4 DEF Precedes

LEMMA AppendPrecedes ==
    ASSUME NEW p \in Seq(Nat), NEW k \in Nat, NEW l \in Nat, k < l
    PROVE  Precedes(Append(p, k), Append(p, l))
<1> DEFINE d == Len(p) + 1
           v == Append(p, k)
           w == Append(p, l)
<1>1. d \in DOMAIN v \cap DOMAIN w /\ v[d] = k /\ w[d] = l
  OBVIOUS
<1>2. \A e \in 1 .. d - 1 : v[e] = w[e]
  OBVIOUS
<1> HIDE DEF d, v, w
<1> QED
  BY <1>1, <1>2 DEF Precedes, v, w

\* Of any of the attempts one comes before all the others.
Ordered(A) ==
    \A S \in SUBSET A : S # {} => \E a \in S : \A b \in S \ {a} : Precedes(a.used, b.used)

LEMMA OrderedStep ==
    ASSUME Typed, ContractsTyped, ProofsTyped(unsettled), NEW t \in DOMAIN unsettled,
           NEW i \in Retained(t), NEW A, \A a \in A : IsAttempt(a), Ordered(A)
    PROVE  LET B == UNION {Extensions(a, t, i) : a \in A}
           IN Ordered(B) /\ \A b \in B : IsAttempt(b)
<1> DEFINE E(a) == Extensions(a, t, i)
           B == UNION {E(a) : a \in A}
<1>1. \A a \in A : \/ E(a) = {a}
                   \/ /\ \A x \in E(a) : IsAttempt(x) /\ \E k \in Nat : x.used = Append(a.used, k)
                      /\ \A x, y \in E(a) : x.used = y.used => x = y
  BY ExtensionsOK
<1> HIDE DEF E
<1>2. \A b \in B : IsAttempt(b) /\ \E a \in A : b \in E(a)
  BY <1>1
<1>3. ASSUME NEW S \in SUBSET B, S # {}
      PROVE  \E x \in S : \A y \in S \ {x} : Precedes(x.used, y.used)
  <2> DEFINE P == {a \in A : E(a) \cap S # {}}
  <2>1. P \in SUBSET A /\ P # {}
    BY <1>2, <1>3
  <2>2. PICK p \in P : \A q \in P \ {p} : Precedes(p.used, q.used)
    BY <2>1 DEF Ordered
  <2>3. p \in A /\ p.used \in Seq(Nat) /\ \A q \in P : q.used \in Seq(Nat)
    BY DEF IsAttempt
  <2>4. \A q \in P : \A x \in E(q) : x.used = q.used \/ \E k \in Nat : x.used = Append(q.used, k)
    BY <1>1
  <2>5. \E x \in E(p) \cap S : \A y \in (E(p) \cap S) \ {x} : Precedes(x.used, y.used)
    <3>1. CASE E(p) = {p}
      BY <2>2, <3>1
    <3>2. CASE /\ \A x \in E(p) : \E k \in Nat : x.used = Append(p.used, k)
               /\ \A x, y \in E(p) : x.used = y.used => x = y
      <4> DEFINE K == {k \in Nat : \E x \in E(p) \cap S : x.used = Append(p.used, k)}
      <4>1. K \in SUBSET Nat /\ K # {}
        BY <2>2, <3>2
      <4>2. PICK k \in K : \A l \in K : k <= l
        <5> HIDE DEF K
        <5> QED
          BY <4>1, LeastElement
      <4>3. PICK x \in E(p) \cap S : x.used = Append(p.used, k)
        BY <4>2
      <4>4. ASSUME NEW y \in (E(p) \cap S) \ {x} PROVE Precedes(x.used, y.used)
        <5>1. PICK l \in Nat : y.used = Append(p.used, l)
          BY <3>2
        <5>2. l \in K /\ k \in Nat
          BY <4>2, <5>1
        <5>3. l # k
          BY <3>2, <4>3, <4>4, <5>1
        <5>4. k < l
          BY <4>2, <5>1, <5>2, <5>3
        <5> QED
          BY <2>3, <4>3, <5>1, <5>2, <5>4, AppendPrecedes
      <4> QED
        BY <4>4
    <3> QED
      BY <1>1, <2>3, <3>1, <3>2
  <2>6. PICK x \in E(p) \cap S : \A y \in (E(p) \cap S) \ {x} : Precedes(x.used, y.used)
    BY <2>5
  <2>7. ASSUME NEW y \in S \ {x} PROVE Precedes(x.used, y.used)
    <3>1. CASE y \in E(p)
      BY <2>6, <2>7, <3>1
    <3>2. CASE y \notin E(p)
      <4>1. PICK q \in A : y \in E(q)
        BY <1>2
      <4>2. q \in P \ {p}
        BY <3>2, <4>1
      <4>3. Precedes(p.used, q.used)
        BY <2>2, <4>2
      <4>4. /\ (x.used = p.used \/ \E k \in Nat : x.used = Append(p.used, k))
            /\ (y.used = q.used \/ \E k \in Nat : y.used = Append(q.used, k))
        BY <2>2, <2>4, <2>6, <4>1, <4>2
      <4> QED
        BY <2>3, <4>2, <4>3, <4>4, PrefixPrecedes
    <3> QED
      BY <3>1, <3>2
  <2> QED
    BY <2>7
<1> HIDE DEF B
<1>4. Ordered(B)
  BY <1>3 DEF Ordered
<1> QED
  BY <1>2, <1>4 DEF B, E

NoAttempt == [changes |-> <<>>, failed |-> FALSE, used |-> <<>>]

\* The attempts that blob i makes of the attempts A.
AttemptsNext(t, i, A) ==
    IF i \in Retained(t) THEN UNION {Extensions(a, t, i) : a \in A} ELSE A

\* The attempts, blob by blob.
AttemptsAre(t, g, m) ==
    g = [i \in 0 .. m |-> IF i = 0 THEN {NoAttempt} ELSE AttemptsNext(t, i, g[i - 1])]

LEMMA AttemptsExist ==
    ASSUME NEW n \in Nat, NEW t
    PROVE  \E g : AttemptsAre(t, g, n)
<1> DEFINE P == {m \in 0 .. n : \E g : AttemptsAre(t, g, m)}
<1>1. 0 \in P
  <2>1. AttemptsAre(t, [i \in 0 .. 0 |-> {NoAttempt}], 0)
    BY DEF AttemptsAre
  <2> QED
    BY <2>1
<1>2. ASSUME NEW m \in 0 .. (n - 1), m \in P PROVE m + 1 \in P
  <2>1. PICK g : AttemptsAre(t, g, m)
    BY <1>2
  <2> DEFINE x == AttemptsNext(t, m + 1, g[m])
             h == [i \in 0 .. m + 1 |-> IF i = m + 1 THEN x ELSE g[i]]
  <2>2. ASSUME NEW i \in 0 .. m + 1
        PROVE  h[i] = IF i = 0 THEN {NoAttempt} ELSE AttemptsNext(t, i, h[i - 1])
    <3>1. CASE i = m + 1
      BY <3>1
    <3>2. CASE i # m + 1
      <4>1. i \in 0 .. m /\ h[i] = g[i] /\ (i # 0 => h[i - 1] = g[i - 1])
        BY <3>2
      <4>2. g[i] = IF i = 0 THEN {NoAttempt} ELSE AttemptsNext(t, i, g[i - 1])
        BY <2>1, <4>1 DEF AttemptsAre
      <4> QED
        BY <4>1, <4>2
    <3> QED
      BY <3>1, <3>2
  <2>3. h = [i \in 0 .. m + 1 |-> h[i]]
    OBVIOUS
  <2> HIDE DEF h
  <2>4. AttemptsAre(t, h, m + 1)
    BY <2>2, <2>3 DEF AttemptsAre
  <2> QED
    BY <2>4
<1> HIDE DEF P
<1>3. 0 .. n \subseteq P
  BY <1>1, <1>2, InductionUpTo
<1> QED
  BY <1>3 DEF P

\* The recursion finds attempts, one of which comes before the others if there are any.
LEMMA AttemptsOK ==
    ASSUME Typed, ContractsTyped, ProofsTyped(unsettled), NEW t \in DOMAIN unsettled
    PROVE  /\ \A a \in settle_blobs_recursively(t) : IsAttempt(a)
           /\ Ordered(settle_blobs_recursively(t))
<1> DEFINE n == Len(Sent.blobs[t])
           att == CHOOSE g : AttemptsAre(t, g, n)
           P == {i \in 0 .. n : Ordered(att[i]) /\ \A a \in att[i] : IsAttempt(a)}
<1>0. n \in Nat
  BY BlobsOK
<1>1. AttemptsAre(t, att, n)
  <2> HIDE DEF n
  <2> QED
    BY <1>0, AttemptsExist
<1>2. settle_blobs_recursively(t) = att[n]
  BY DEF settle_blobs_recursively, AttemptsAre, AttemptsNext, NoAttempt
<1> HIDE DEF att, n
<1>3. \A i \in 0 .. n : att[i] = IF i = 0 THEN {NoAttempt} ELSE AttemptsNext(t, i, att[i - 1])
  BY <1>1 DEF AttemptsAre
<1>4. 0 \in P
  <2>1. att[0] = {NoAttempt} /\ 0 \in 0 .. n
    BY <1>0, <1>3
  <2>2. Sound(<<>>)
    <3>1. DOMAIN <<>> = {}
      OBVIOUS
    <3> QED
      BY <3>1 DEF Sound
  <2>3. <<>> \in Seq(Nat)
    OBVIOUS
  <2>4. IsAttempt(NoAttempt)
    <3>1. PICK x : x = NoAttempt
      OBVIOUS
    <3>2. x.changes = <<>> /\ x.failed = FALSE /\ x.used = <<>>
      BY <3>1 DEF NoAttempt
    <3>3. IsAttempt(x)
      BY <2>2, <2>3, <3>2 DEF IsAttempt
    <3> QED
      BY <3>1, <3>3
  <2>5. Ordered({NoAttempt})
    BY DEF Ordered
  <2> QED
    BY <2>1, <2>4, <2>5
<1>5. ASSUME NEW m \in 0 .. (n - 1), m \in P PROVE m + 1 \in P
  <2>1. m + 1 \in 0 .. n /\ m + 1 # 0 /\ (m + 1) - 1 = m
    BY <1>0
  <2>2. att[m + 1] = AttemptsNext(t, m + 1, att[m])
    BY <1>3, <2>1
  <2>3. Ordered(att[m]) /\ \A a \in att[m] : IsAttempt(a)
    BY <1>5
  <2>4. PICK i : i = m + 1
    OBVIOUS
  <2>5. PICK A : A = att[m]
    OBVIOUS
  <2>6. CASE i \in Retained(t)
    <3>1. att[i] = UNION {Extensions(a, t, i) : a \in A}
      BY <2>2, <2>4, <2>5, <2>6 DEF AttemptsNext
    <3>2. Ordered(att[i]) /\ \A b \in att[i] : IsAttempt(b)
      BY <2>3, <2>5, <2>6, <3>1, OrderedStep
    <3> QED
      BY <2>1, <2>4, <3>2
  <2>7. CASE i \notin Retained(t)
    <3>1. att[i] = A
      BY <2>2, <2>4, <2>5, <2>7 DEF AttemptsNext
    <3> QED
      BY <2>1, <2>3, <2>4, <2>5, <3>1
  <2> QED
    BY <2>6, <2>7
<1> HIDE DEF P
<1>6. 0 .. n \subseteq P
  BY <1>0, <1>4, <1>5, InductionUpTo
<1>7. n \in P
  BY <1>0, <1>6
<1> QED
  BY <1>2, <1>7 DEF P

\* A success makes changes whose report is complete.
LEMMA SuccessSound ==
    ASSUME Typed, ContractsTyped, ProofsTyped(unsettled), NEW t, Outcome(t).outcome = "Success"
    PROVE  Sound(Outcome(t).changes)
<1> DEFINE A == settle_blobs_recursively(t)
           first == CHOOSE a \in A : \A b \in A \ {a} : Precedes(a.used, b.used)
<1>1. t \in DOMAIN unsettled
  BY OutcomeOK
<1>2. (\A a \in A : IsAttempt(a)) /\ Ordered(A)
  BY <1>1, AttemptsOK
<1>3. Outcome(t).changes = first.changes /\ A # {}
  BY DEF Outcome, Verdict, NotReady, Fails
<1> HIDE DEF A
<1>4. \E a \in A : \A b \in A \ {a} : Precedes(a.used, b.used)
  BY <1>2, <1>3 DEF Ordered
<1>5. first \in A
  BY <1>4
<1> HIDE DEF first
<1>6. Sound(first.changes)
  BY <1>2, <1>5 DEF IsAttempt
<1> QED
  BY <1>3, <1>6

-----------------------------------------------------------------------------
(* The block tells the contracts.                                          *)

Told(C, b) ==
    /\ DOMAIN C = (DOMAIN b.before \cup b.registered) \ b.deleted
    /\ \A n \in DOMAIN C, f \in Fields :
         C[n][f] = IF n \in DOMAIN b.updated[f] THEN b.updated[f][n] ELSE b.before[n][f]

Shape(b) == {"before", "registered", "deleted", "updated"} \subseteq DOMAIN b

BInv == IInv /\ ProofsTyped(unsettled) /\ ContractsTyped /\ Shape(block) /\ BlockTellsContracts

LEMMA ToldDef == BlockTellsContracts <=> Told(contracts, block)
BY DEF BlockTellsContracts, Told

\* A step that adds to other parts of the block, or to none.
LEMMA SameTold ==
    ASSUME ContractsTyped, Shape(block), BlockTellsContracts, contracts' = contracts,
           \/ block' = block
           \/ \E x : block' = [block EXCEPT !.failed = x]
           \/ \E x : block' = [block EXCEPT !.timed_out = x]
    PROVE  ContractsTyped' /\ Shape(block)' /\ BlockTellsContracts'
<1>1. ContractsTyped'
  BY DEF ContractsTyped
<1>2. Shape(block') /\ block'.before = block.before /\ block'.registered = block.registered
      /\ block'.deleted = block.deleted /\ block'.updated = block.updated
  BY DEF Shape
<1> QED
  BY <1>1, <1>2 DEF BlockTellsContracts, Shape

\* Proofs are kept for the same blobs after a step.
LEMMA ProofsNext ==
    ASSUME batch' = batch, ProofsTyped(unsettled')
    PROVE  ProofsTyped(unsettled)'
<1>1. \A t : Retained(t)' = Retained(t)
  BY DEF Retained, Blob, Sent
<1> QED
  BY <1>1 DEF ProofsTyped

LEMMA FewerProofs ==
    ASSUME NEW m, ProofsTyped(m), NEW k, DOMAIN k \subseteq DOMAIN m,
           \A t \in DOMAIN k : k[t] = m[t]
    PROVE  ProofsTyped(k)
BY DEF ProofsTyped

LEMMA PushedProofs ==
    ASSUME NEW m, ProofsTyped(m), NEW ps \in Seq(ProofType)
    PROVE  ProofsTyped(Pushed(m, ps))
<1> SUFFICES ASSUME NEW t \in DOMAIN Pushed(m, ps)
             PROVE  Pushed(m, ps)[t].proofs \in [Retained(t) -> Seq(ProofType)]
  BY DEF ProofsTyped
<1>1. t \in DOMAIN m
  BY DEF Pushed
<1>2. m[t].proofs \in [Retained(t) -> Seq(ProofType)]
  BY <1>1 DEF ProofsTyped
<1> DEFINE I(i) == {k \in DOMAIN ps : ps[k].tx = t /\ ps[k].index = i}
<1>3. Pushed(m, ps)[t].proofs = [i \in DOMAIN m[t].proofs |-> m[t].proofs[i] \o Selected(ps, I(i))]
  BY <1>1 DEF Pushed
<1>5. \A i : I(i) \in SUBSET DOMAIN ps
  OBVIOUS
<1> HIDE DEF I
<1>4. ASSUME NEW i \in Retained(t) PROVE m[t].proofs[i] \o Selected(ps, I(i)) \in Seq(ProofType)
  <2>1. m[t].proofs[i] \in Seq(ProofType)
    BY <1>2
  <2>2. Selected(ps, I(i)) \in Seq(ProofType)
    BY <1>5, SelectedElements
  <2> QED
    BY <2>1, <2>2
<1> QED
  BY <1>2, <1>3, <1>4

LEMMA BInitOK == Init => BInv
<1> SUFFICES ASSUME Init PROVE BInv
  OBVIOUS
<1>1. IInv
  BY InitOK
<1>2. ProofsTyped(unsettled)
  <2>1. DOMAIN unsettled = {}
    BY DEF Init
  <2> QED
    BY <2>1 DEF ProofsTyped
<1>3. ContractsTyped
  BY BatchesAssumption, WindowInt DEF Init, ContractsTyped, ContractType, Contract3
<1>4. Told(Genesis, EmptyBlock(Genesis)) /\ Shape(EmptyBlock(Genesis))
  BY DEF Told, EmptyBlock, Shape
<1>5. Shape(block) /\ BlockTellsContracts
  BY <1>4, ToldDef DEF Init
<1> QED
  BY <1>1, <1>2, <1>3, <1>5 DEF BInv

LEMMA BNewBlockOK == ASSUME BInv, NewBlock PROVE BInv'
<1>1. IInv'
  BY NewBlockOK DEF BInv
<1>2. UNCHANGED <<batch, contracts, unsettled>> /\ block' = EmptyBlock(contracts)
  BY DEF NewBlock
<1>3. ProofsTyped(unsettled)' /\ ContractsTyped'
  BY <1>2, ProofsNext DEF BInv, ContractsTyped
<1>4. Told(contracts, EmptyBlock(contracts)) /\ Shape(EmptyBlock(contracts))
  BY DEF Told, EmptyBlock, Shape
<1>5. Shape(block)' /\ BlockTellsContracts'
  BY <1>2, <1>4 DEF BlockTellsContracts, Told, Shape
<1> QED
  BY <1>1, <1>3, <1>5 DEF BInv

LEMMA BClearTimeoutOK == ASSUME BInv, ClearTimeout PROVE BInv'
<1>1. IInv'
  BY ClearTimeoutOK DEF BInv
<1>2. /\ batch' = batch /\ contracts' = contracts
      /\ DOMAIN unsettled' \subseteq DOMAIN unsettled
      /\ \A t \in DOMAIN unsettled' : unsettled'[t] = unsettled[t]
      /\ block' = block \/ \E x : block' = [block EXCEPT !.timed_out = x]
  BY DEF ClearTimeout, Without
<1>3. ProofsTyped(unsettled)'
  BY <1>2, FewerProofs, ProofsNext DEF BInv
<1> QED
  BY <1>1, <1>2, <1>3, SameTold DEF BInv

\* A transaction arrives with the refusals of native verifiers.
LEMMA UnsettledTxOK ==
    ASSUME Typed, NEW t \in DOMAIN Sent.blobs
    PROVE  UnsettledTx(t).proofs \in [Retained(t) -> Seq(ProofType)]
<1>1. t \in Txs
  BY SentTxs
<1>2. \A i \in Retained(t) : i \in Nat
  <2>1. Sent.blobs[t] \in Seq(BlobType)
    BY BatchesAssumption DEF Typed, Sent
  <2> QED
    BY <2>1 DEF Retained
<1>3. ASSUME NEW i \in Retained(t) PROVE NativeProof(t, i) \in ProofType
  <2>1. <<>> \in Seq(EffectType)
    OBVIOUS
  <2> QED
    BY <1>1, <1>2, <2>1 DEF NativeProof, ProofType
<1>4. ASSUME NEW p \in ProofType PROVE <<p>> \in Seq(ProofType) /\ <<>> \in Seq(ProofType)
  OBVIOUS
<1>5. \A i \in Retained(t) : <<NativeProof(t, i)>> \in Seq(ProofType) /\ <<>> \in Seq(ProofType)
  BY <1>3, <1>4
<1> QED
  BY <1>5 DEF UnsettledTx

LEMMA BBlobTxOK == ASSUME BInv, BlobTx PROVE BInv'
<1>1. IInv'
  BY BlobTxOK DEF BInv
<1>2. batch' = batch /\ contracts' = contracts
  BY DEF BlobTx
<1>3. PICK t \in DOMAIN Sent.blobs :
        IF Refused(t)
        THEN /\ block' = [block EXCEPT !.failed = @ \cup {t}]
             /\ UNCHANGED <<unsettled, order, arrivals, timeouts, todo>>
        ELSE t \notin DOMAIN unsettled /\ arrivals < MaxArrivals /\ handle_blob_tx(t)
  BY DEF BlobTx
<1>4. block' = block \/ \E x : block' = [block EXCEPT !.failed = x]
  BY <1>3 DEF handle_blob_tx
<1>5. ProofsTyped(unsettled')
  <2>1. CASE Refused(t)
    BY <1>3, <2>1 DEF BInv
  <2>2. CASE ~Refused(t)
    <3>1. unsettled' = [u \in DOMAIN unsettled \cup {t} |->
                          IF u = t THEN UnsettledTx(t) ELSE unsettled[u]]
      BY <1>3, <2>2 DEF handle_blob_tx
    <3> QED
      BY <3>1, UnsettledTxOK DEF ProofsTyped, BInv, IInv
  <2> QED
    BY <2>1, <2>2
<1> QED
  BY <1>1, <1>2, <1>4, <1>5, SameTold, ProofsNext DEF BInv

LEMMA BProofTxOK == ASSUME BInv, ProofTx PROVE BInv'
<1>1. IInv'
  BY ProofTxOK DEF BInv
<1>2. batch' = batch /\ contracts' = contracts /\ block' = block
  BY DEF ProofTx
<1>3. PICK ps \in Sent.proofs :
        unsettled' = Pushed(unsettled, Selected(ps, {k \in DOMAIN ps : Accepted(ps[k])}))
  BY DEF ProofTx
<1>4. ps \in Seq(ProofType)
  BY BatchesAssumption DEF BInv, IInv, Typed, Sent
<1>5. Selected(ps, {k \in DOMAIN ps : Accepted(ps[k])}) \in Seq(ProofType)
  BY <1>4, SelectedElements
<1>6. ProofsTyped(unsettled')
  BY <1>3, <1>5, PushedProofs DEF BInv
<1> QED
  BY <1>1, <1>2, <1>6, SameTold, ProofsNext DEF BInv

\* What a nuke forges is proofs.
LEMMA NukeOutputsOK ==
    ASSUME Typed, NEW t \in DOMAIN unsettled
    PROVE  NukeOutputs(t) \in Seq(ProofType)
<1> DEFINE I == {i \in Retained(t) : Blob(t, i).action.type = "Nuke"}
<1>1. <<>> \in Seq(ProofType)
  OBVIOUS
<1>2. CASE I = {}
  BY <1>1, <1>2 DEF NukeOutputs
<1>3. CASE I # {}
  <2>1. I \subseteq 1 .. Len(Sent.blobs[t]) /\ Len(Sent.blobs[t]) \in Nat
    <3>1. Sent.blobs[t] \in Seq(BlobType) /\ Retained(t) \subseteq DOMAIN Sent.blobs[t]
      BY BlobsOK
    <3> QED
      BY <3>1
  <2>2. I \in SUBSET (0 .. Len(Sent.blobs[t]))
    BY <2>1
  <2>3. \E n \in I : \A m \in I : m <= n
    <3> HIDE DEF I
    <3> QED
      BY <1>3, <2>1, <2>2, GreatestElement
  <2>4. Max(I) \in I
    <3> HIDE DEF I
    <3> QED
      BY <2>1, <2>3 DEF Max
  <2>5. Blob(t, Max(I)) \in BlobType
    BY <2>4, BlobsOK
  <2>6. Blob(t, Max(I)).action.nukes \in Seq(ProofType)
    BY <2>5 DEF BlobType, ActionType
  <2> QED
    BY <1>3, <2>6 DEF NukeOutputs
<1> QED
  BY <1>2, <1>3

LEMMA ForgeOK ==
    ASSUME NEW p \in ProofType, NEW a \in Int, NEW b \in Int, NEW c \in Int
    PROVE  [p EXCEPT !.prog = a, !.init = b, !.next = c] \in ProofType
BY DEF ProofType

LEMMA ForgedOK ==
    ASSUME Typed, NEW t \in DOMAIN unsettled, NEW m, NEW C, \A n \in DOMAIN C : C[n] \in Contract3
    PROVE  Forged(m, C, t) \in Seq(ProofType)
<1> DEFINE outputs == NukeOutputs(t)
           I == {k \in DOMAIN outputs : Hits(m, C, outputs[k])}
           hit == Selected(outputs, I)
           contract(o) == C[Blob(o.tx, o.index).contract]
           fitted(o, x) == IF o.success THEN x ELSE contract(o).state
           forged(o) == [o EXCEPT !.prog = contract(o).prog,
                                  !.init = fitted(o, o.init), !.next = fitted(o, o.next)]
<1>1. outputs \in Seq(ProofType)
  BY NukeOutputsOK
<1>2. hit \in Seq(ProofType) /\ Elements(hit) = {outputs[k] : k \in I}
  <2>1. I \in SUBSET DOMAIN outputs
    OBVIOUS
  <2> HIDE DEF outputs, I
  <2> QED
    BY <1>1, <2>1, SelectedElements
<1>3. Forged(m, C, t) = [k \in DOMAIN hit |-> forged(hit[k])]
  BY DEF Forged
<1>4. ASSUME NEW o \in {outputs[k] : k \in I} PROVE forged(o) \in ProofType
  <2>1. o \in ProofType /\ contract(o) \in Contract3
    BY <1>1, <1>4 DEF Hits
  <2>2. contract(o).prog \in Int /\ contract(o).state \in Int /\ o.init \in Int /\ o.next \in Int
    BY <2>1 DEF Contract3, ProofType
  <2> HIDE DEF contract
  <2>3. fitted(o, o.init) \in Int /\ fitted(o, o.next) \in Int
    BY <2>2
  <2> HIDE DEF fitted
  <2> QED
    BY <2>1, <2>2, <2>3, ForgeOK
<1> HIDE DEF outputs, I, hit, forged
<1>5. DOMAIN hit = 1 .. Len(hit) /\ Len(hit) \in Nat
  BY <1>2
<1>6. \A k \in DOMAIN hit : hit[k] \in {outputs[j] : j \in I}
  BY <1>2 DEF Elements
<1>7. \A k \in DOMAIN hit : forged(hit[k]) \in ProofType
  BY <1>4, <1>6
<1> QED
  BY <1>3, <1>5, <1>7

\* The contracts after a success, as the block reports it.
LEMMA ReportedOK ==
    ASSUME BlockTellsContracts, Shape(block), ContractsTyped, NEW ch, Sound(ch), NEW t, NEW used
    PROVE  /\ Told(ContractsAfter(ch), Reported(t, ch, used)) /\ Shape(Reported(t, ch, used))
           /\ \A n \in DOMAIN ContractsAfter(ch) : ContractsAfter(ch)[n] \in Contract3
<1> DEFINE C == ContractsAfter(ch)
           b == Reported(t, ch, used)
           new == Alive(ch) \ DOMAIN contracts
<1>1. /\ b.before = block.before /\ b.registered = (block.registered \ Dead(ch)) \cup new
      /\ b.deleted = (block.deleted \ new) \cup Dead(ch) /\ b.updated = Updated(ch, block.updated)
      /\ Shape(b)
  BY DEF Reported, Shape
<1>2. /\ DOMAIN C = (DOMAIN contracts \cup Alive(ch)) \ Dead(ch)
      /\ \A n \in DOMAIN C : C[n] = IF n \in DOMAIN ch THEN ch[n].c ELSE contracts[n]
  BY DEF ContractsAfter
<1>3. \A n \in Alive(ch) : n \in DOMAIN ch /\ ch[n].alive = TRUE
  BY DEF Alive, Sound, SoundChange
<1>4. Alive(ch) \cap Dead(ch) = {} /\ DOMAIN ch = Alive(ch) \cup Dead(ch)
  BY DEF Alive, Dead
<1>5. DOMAIN contracts = (DOMAIN block.before \cup block.registered) \ block.deleted
  BY DEF BlockTellsContracts
<1> HIDE DEF C, b
<1>6. DOMAIN C = (DOMAIN b.before \cup b.registered) \ b.deleted
  BY <1>1, <1>2, <1>4, <1>5
<1>7. \A n \in DOMAIN C : C[n] \in Contract3
  <2> SUFFICES ASSUME NEW n \in DOMAIN C PROVE C[n] \in Contract3
    OBVIOUS
  <2>1. CASE n \in DOMAIN ch
    <3>1. n \in Alive(ch)
      BY <1>2, <1>4, <2>1
    <3> QED
      BY <1>2, <1>3, <2>1, <3>1 DEF Sound, SoundChange
  <2>2. CASE n \notin DOMAIN ch
    BY <1>2, <1>4, <2>2 DEF ContractsTyped
  <2> QED
    BY <2>1, <2>2
<1>8. ASSUME NEW n \in DOMAIN C, NEW f \in Fields
      PROVE  C[n][f] = IF n \in DOMAIN b.updated[f] THEN b.updated[f][n] ELSE b.before[n][f]
  <2> DEFINE rep == {k \in Alive(ch) : f \in ch[k].fields}
             old == block.updated[f]
  <2>1. /\ DOMAIN b.updated[f] = DOMAIN old \cup rep
        /\ \A k \in DOMAIN old \cup rep :
             b.updated[f][k] = IF k \in rep THEN ch[k].c[f] ELSE old[k]
    BY <1>1 DEF Updated
  <2>2. n \in DOMAIN contracts =>
          contracts[n][f] = IF n \in DOMAIN old THEN old[n] ELSE block.before[n][f]
    BY DEF BlockTellsContracts
  <2>3. CASE n \in rep
    BY <1>2, <1>3, <2>1, <2>3
  <2>4. CASE n \notin rep
    <3>1. n \in DOMAIN contracts /\ C[n][f] = contracts[n][f]
      <4>1. CASE n \in DOMAIN ch
        <5>1. n \in Alive(ch) /\ f \notin ch[n].fields
          BY <1>2, <1>4, <2>4, <4>1
        <5> QED
          BY <1>2, <1>3, <4>1, <5>1 DEF Sound, SoundChange
      <4>2. CASE n \notin DOMAIN ch
        BY <1>2, <1>4, <4>2
      <4> QED
        BY <4>1, <4>2
    <3> HIDE DEF rep, old
    <3> QED
      BY <1>1, <2>1, <2>2, <2>4, <3>1
  <2> QED
    BY <2>3, <2>4
<1> QED
  BY <1>1, <1>6, <1>7, <1>8 DEF Told, C, b

LEMMA BSettleNextOK == ASSUME BInv, SettleNext PROVE BInv'
<1> DEFINE t == Min(todo)
           r == Outcome(t)
<1>1. IInv'
  BY SettleNextOK DEF BInv
<1>2. /\ batch' = batch
      /\ \/ /\ r.outcome = "NotReady"
            /\ UNCHANGED <<unsettled, order, contracts, block>>
         \/ r.outcome = "Failed" /\ SettleFailed(t)
         \/ r.outcome = "Success" /\ SettleSuccess(t, r.changes, r.used)
  BY DEF SettleNext
<1>3. r.outcome = "Success" => t \in DOMAIN unsettled /\ Sound(r.changes)
  BY OutcomeOK, SuccessSound DEF BInv, IInv
<1> HIDE DEF r, t
<1>4. CASE UNCHANGED <<unsettled, contracts, block>>
  BY <1>1, <1>2, <1>4, SameTold, ProofsNext DEF BInv
<1>5. CASE SettleFailed(t)
  <2>1. /\ contracts' = contracts
        /\ DOMAIN unsettled' \subseteq DOMAIN unsettled
        /\ \A u \in DOMAIN unsettled' : unsettled'[u] = unsettled[u]
        /\ \E x : block' = [block EXCEPT !.failed = x]
    BY <1>5 DEF SettleFailed, Without
  <2>2. ProofsTyped(unsettled)'
    BY <1>2, <2>1, FewerProofs, ProofsNext DEF BInv
  <2> QED
    BY <1>1, <2>1, <2>2, SameTold DEF BInv
<1>6. CASE r.outcome = "Success" /\ SettleSuccess(t, r.changes, r.used)
  <2> DEFINE ch == r.changes
             m == Without(unsettled, {t} \cup TimedOutByDeletion(Dequeued(order, {t}), ch))
             C == ContractsAfter(ch)
             ps == Forged(m, C, t)
  <2>1. unsettled' = Pushed(m, ps) /\ contracts' = C /\ block' = Reported(t, ch, r.used)
    BY <1>6 DEF SettleSuccess
  <2>2. DOMAIN m \subseteq DOMAIN unsettled /\ \A u \in DOMAIN m : m[u] = unsettled[u]
    BY DEF Without
  <2>3. t \in DOMAIN unsettled /\ Sound(ch)
    BY <1>3, <1>6
  <2> HIDE DEF ch, m
  <2>4. /\ Told(C, Reported(t, ch, r.used)) /\ Shape(Reported(t, ch, r.used))
        /\ \A n \in DOMAIN C : C[n] \in Contract3
    BY <2>3, ReportedOK DEF BInv
  <2> HIDE DEF C
  <2>5. ps \in Seq(ProofType)
    BY <2>3, <2>4, ForgedOK DEF BInv, IInv
  <2>6. ProofsTyped(m)
    BY <2>2, FewerProofs DEF BInv
  <2> HIDE DEF ps
  <2>7. ProofsTyped(unsettled')
    BY <2>1, <2>5, <2>6, PushedProofs
  <2>8. ProofsTyped(unsettled)'
    BY <1>2, <2>7, ProofsNext
  <2>9. ContractsTyped'
    BY <2>1, <2>4 DEF ContractsTyped
  <2>10. Shape(block)' /\ BlockTellsContracts'
    <3>1. Told(contracts', block') /\ Shape(block')
      BY <2>1, <2>4
    <3> QED
      BY <3>1 DEF BlockTellsContracts, Told, Shape
  <2> QED
    BY <1>1, <2>8, <2>9, <2>10 DEF BInv
<1> QED
  BY <1>2, <1>4, <1>5, <1>6

LEMMA BStepOK == BInv /\ [Next]_vars => BInv'
<1> SUFFICES ASSUME BInv, [Next]_vars PROVE BInv'
  OBVIOUS
<1>1. IInv'
  BY StepOK DEF BInv
<1>2. CASE ResetTimeout \/ UNCHANGED vars
  <2>1. UNCHANGED <<batch, unsettled, contracts, block>>
    BY <1>2 DEF ResetTimeout, vars
  <2> QED
    BY <1>1, <2>1, SameTold, ProofsNext DEF BInv
<1> QED
  BY <1>2, BNewBlockOK, BBlobTxOK, BProofTxOK, BClearTimeoutOK, BSettleNextOK DEF Next, Loop

\* Whoever follows the blocks knows every contract, at every step of
\* handle_signed_block: whatever proofs, registrations, deletions, updates and
\* nukes a block's transactions hold, the lists that try_to_settle_blob_tx and
\* on_settled_blob_tx leave in the block tell the map of contracts, each with
\* its program, state and window.
THEOREM BlockAlwaysTells == Spec => []BlockTellsContracts
<1>1. BInv => BlockTellsContracts
  BY DEF BInv
<1> QED
  BY <1>1, BInitOK, BStepOK, PTL DEF Spec

-----------------------------------------------------------------------------
(* Batches that change contracts by transitions and registrations only.    *)

\* The contracts of all blobs of a transaction, of verified native ones too.
AllContracts(t) == {Blob(t, i).contract : i \in DOMAIN Sent.blobs[t]}

\* What a plain transaction blocks beyond the contracts of its blobs is a name that no
\* blob is for.
LEMMA BlockedOK ==
    ASSUME Plain, NEW t \in DOMAIN Sent.blobs, NEW c \in get_contracts_blocked_by_tx(t),
           c \notin BlobContracts(t)
    PROVE  /\ "hyle" \in BlobContracts(t)
           /\ \A u \in DOMAIN Sent.blobs : c \notin AllContracts(u)
<1>1. PICK i \in Retained(t) :
        Blob(t, i).action.type \in {"Register", "Delete"} /\ c = Blob(t, i).action.name
  BY DEF get_contracts_blocked_by_tx
<1>2. i \in DOMAIN Sent.blobs[t]
  BY DEF Retained
<1>3. Blob(t, i).action.type = "Register"
  BY <1>1, <1>2 DEF Plain
<1>4. /\ Blob(t, i).contract = "hyle"
      /\ \/ c = "hyle"
         \/ \A u \in DOMAIN Sent.blobs : \A j \in DOMAIN Sent.blobs[u] : Blob(u, j).contract # c
  BY <1>1, <1>2, <1>3 DEF Plain
<1>5. "hyle" \in BlobContracts(t)
  BY <1>1, <1>4 DEF BlobContracts
<1> QED
  BY <1>4, <1>5 DEF AllContracts

LEMMA BlobContractsAll ==
    ASSUME NEW t
    PROVE  BlobContracts(t) \subseteq AllContracts(t)
BY DEF BlobContracts, AllContracts, Retained

\* Transactions without a contract in common block none in common.
LEMMA ApartOK ==
    ASSUME Plain, NEW t \in DOMAIN Sent.blobs, NEW u \in DOMAIN Sent.blobs,
           BlobContracts(t) \cap BlobContracts(u) = {}
    PROVE  get_contracts_blocked_by_tx(t) \cap get_contracts_blocked_by_tx(u) = {}
<1> SUFFICES ASSUME NEW c \in get_contracts_blocked_by_tx(t), c \in get_contracts_blocked_by_tx(u)
             PROVE  FALSE
  OBVIOUS
<1>1. CASE c \in BlobContracts(t)
  <2>1. c \notin BlobContracts(u) /\ c \in AllContracts(t)
    BY <1>1, BlobContractsAll
  <2> QED
    BY <2>1, BlockedOK
<1>2. CASE c \in BlobContracts(u)
  <2>1. c \notin BlobContracts(t) /\ c \in AllContracts(u)
    BY <1>2, BlobContractsAll
  <2> QED
    BY <2>1, BlockedOK
<1>3. CASE c \notin BlobContracts(t) /\ c \notin BlobContracts(u)
  <2>1. "hyle" \in BlobContracts(t) /\ "hyle" \in BlobContracts(u)
    BY <1>3, BlockedOK
  <2> QED
    BY <2>1
<1> QED
  BY <1>1, <1>2, <1>3

\* Two transactions that are next have no contract in common.
LEMMA NextApart ==
    ASSUME NEW m, NEW q, NEW t, NEW u, t # u,
           is_next_to_settle(m, q, t), is_next_to_settle(m, q, u)
    PROVE  BlobContracts(t) \cap BlobContracts(u) = {}
BY DEF is_next_to_settle

\* Who becomes next when a transaction leaves is at the front of a queue it was in: of
\* one of the contracts of its blobs.
LEMMA NextFresh ==
    ASSUME Plain, Typed, NEW t \in DOMAIN unsettled, NEW u \in DOMAIN unsettled,
           NEW m, is_next_to_settle(m, Dequeued(order, {t}), u),
           ~is_next_to_settle(unsettled, order, u)
    PROVE  u \in NextTxs(Dequeued(order, {t}), t)
<1> DEFINE q == Dequeued(order, {t})
<1>1. t \in DOMAIN Sent.blobs /\ u \in DOMAIN Sent.blobs
  BY DEF Typed
<1>2. PICK c \in BlobContracts(u) : Front(order[c]) # {u}
  BY DEF is_next_to_settle
<1>3. Front(q[c]) = {u}
  BY <1>2 DEF is_next_to_settle
<1>4. c \in Names
  BY <1>1, <1>2, BlobContractsOK DEF Typed
<1>5. q[c] = {e \in order[c] : ~(e.tx \in {t} /\ c \in get_contracts_blocked_by_tx(e.tx))}
  BY <1>4 DEF Dequeued
<1>6. c \in get_contracts_blocked_by_tx(t)
  <2> SUFFICES ASSUME c \notin get_contracts_blocked_by_tx(t) PROVE FALSE
    OBVIOUS
  <2>1. q[c] = order[c]
    BY <1>5
  <2> QED
    BY <1>2, <1>3, <2>1
<1>7. c \in BlobContracts(t)
  <2>1. c \in AllContracts(u)
    BY <1>2, BlobContractsAll
  <2> QED
    BY <1>1, <1>6, <2>1, BlockedOK
<1> QED
  BY <1>3, <1>7 DEF NextTxs

\* A transaction at the back of the queues makes no other next.
LEMMA NextBefore ==
    ASSUME IInv, NEW t \in DOMAIN Sent.blobs, NEW u \in DOMAIN unsettled, t # u, NEW m,
           is_next_to_settle(m, Enqueued(order, t, arrivals), u)
    PROVE  is_next_to_settle(unsettled, order, u)
<1> DEFINE q == Enqueued(order, t, arrivals)
           new == [nb |-> arrivals, tx |-> t]
<1> SUFFICES ASSUME NEW c \in BlobContracts(u) PROVE Front(order[c]) = {u}
  BY DEF is_next_to_settle
<1>1. u \in DOMAIN Sent.blobs /\ arrivals \in Nat
  BY DEF IInv, Typed
<1>2. c \in Names
  BY <1>1, BlobContractsOK DEF IInv, Typed
<1>3. Front(q[c]) = {u}
  BY DEF is_next_to_settle
<1>4. q[c] = order[c] \/ q[c] = order[c] \cup {new}
  BY <1>2 DEF Enqueued
<1>5. \A e \in order[c] : e.nb \in Nat /\ e.nb < arrivals
  BY <1>2, CoherentDef, EntryOK DEF IInv, Typed
<1>6. CASE q[c] = order[c] \cup {new}
  <2>1. new.nb = arrivals /\ new.tx = t
    OBVIOUS
  <2> HIDE DEF new, q
  <2>2. PICK e \in q[c] : e.tx = u /\ \A f \in q[c] : e.nb <= f.nb
    BY <1>3 DEF Front
  <2>3. e \in order[c] /\ e.nb \in Nat /\ \A f \in order[c] : e.nb <= f.nb
    BY <1>5, <1>6, <2>1, <2>2
  <2>4. u \in Front(order[c])
    BY <2>2, <2>3 DEF Front
  <2>5. ASSUME NEW d \in order[c], \A f \in order[c] : d.nb <= f.nb PROVE d.tx = u
    <3>1. d \in q[c] /\ \A f \in q[c] : d.nb <= f.nb
      BY <1>1, <1>5, <1>6, <2>1, <2>5
    <3>2. d.tx \in Front(q[c])
      BY <3>1 DEF Front
    <3> QED
      BY <1>3, <3>2
  <2>6. Front(order[c]) \subseteq {u}
    BY <2>5 DEF Front
  <2> QED
    BY <2>4, <2>6
<1>7. CASE q[c] = order[c]
  BY <1>3, <1>7
<1> QED
  BY <1>4, <1>6, <1>7

-----------------------------------------------------------------------------
(* Windows and timeouts.                                                   *)

\* The contracts have the windows that users may give them.
Windows(C) == \A n \in DOMAIN C : C[n] \in ContractType

\* A transaction whose window is not "none" has the window of one of its contracts.
LEMMA WindowOK ==
    ASSUME NEW C, Windows(C), NEW t, NEW I, get_tx_timeout_window(C, t, I) > 0
    PROVE  get_tx_timeout_window(C, t, I) \in 1 .. MaxWindow
<1> DEFINE Known(J) == {i \in J : Blob(t, i).contract \in DOMAIN C}
           window(i) == C[Blob(t, i).contract].window
           timed == {i \in Known(I) : window(i) # NoTimeout}
           counted == IF height > ForkHeight THEN timed
                      ELSE {i \in timed : \A j \in Known(I) : j > i => j \in timed}
           S == {window(i) : i \in counted}
           w == get_tx_timeout_window(C, t, I)
<1>1. w = IF counted = {} THEN NoTimeout ELSE Min(S)
  BY DEF get_tx_timeout_window
<1>2. counted \subseteq timed
  OBVIOUS
<1>3. \A i \in timed : window(i) \in 0 .. MaxWindow
  BY DEF Windows, ContractType, Window, NoTimeout
<1>4. w > 0
  OBVIOUS
<1> HIDE DEF timed, window, counted, w
<1>5. counted # {}
  BY <1>1, <1>4 DEF NoTimeout
<1>6. S \in SUBSET Nat /\ S # {} /\ S \subseteq 0 .. MaxWindow
  BY <1>2, <1>3, <1>5, ConstantsAssumption
<1> HIDE DEF S
<1>7. w \in 0 .. MaxWindow
  BY <1>1, <1>5, <1>6, MinOK
<1> QED
  BY <1>4, <1>7, ConstantsAssumption DEF w

\* The window of a transaction after a step that keeps its contracts.
LEMMA WindowNext ==
    ASSUME batch' = batch, NEW t, NEW I, height' > ForkHeight <=> height > ForkHeight,
           \A i \in I : /\ Blob(t, i).contract \in DOMAIN contracts
                        /\ Blob(t, i).contract \in DOMAIN contracts'
                        /\ contracts'[Blob(t, i).contract] = contracts[Blob(t, i).contract]
    PROVE  get_tx_timeout_window(contracts, t, I)' = get_tx_timeout_window(contracts, t, I)
<1> DEFINE Known(J) == {i \in J : Blob(t, i).contract \in DOMAIN contracts}
           window(i) == contracts[Blob(t, i).contract].window
           timed == {i \in Known(I) : window(i) # NoTimeout}
           late == {i \in timed : \A j \in Known(I) : j > i => j \in timed}
           counted == IF height > ForkHeight THEN timed ELSE late
           S == {window(i) : i \in counted}
<1>1. \A i : Blob(t, i)' = Blob(t, i)
  BY DEF Blob, Sent
<1>2. get_tx_timeout_window(contracts, t, I) = IF counted = {} THEN NoTimeout ELSE Min(S)
  BY DEF get_tx_timeout_window
<1>3. get_tx_timeout_window(contracts, t, I)' = IF counted' = {} THEN NoTimeout ELSE Min(S')
  BY DEF get_tx_timeout_window
<1>4. Known(I)' = I /\ Known(I) = I
  BY <1>1
<1>5. \A i \in I : window(i)' = window(i)
  BY <1>1
<1>6. timed' = {i \in Known(I)' : window(i)' # NoTimeout} /\ timed \subseteq I
  BY <1>4
<1>7. late' = {i \in timed' : \A j \in Known(I)' : j > i => j \in timed'}
  OBVIOUS
<1>8. counted' = (IF height' > ForkHeight THEN timed' ELSE late') /\ S' = {window(i)' : i \in counted'}
  OBVIOUS
<1>9. late \subseteq timed
  OBVIOUS
<1> HIDE DEF window
<1>10. timed' = timed
  BY <1>4, <1>5, <1>6
<1> HIDE DEF Known
<1>11. late' = late
  BY <1>4, <1>7, <1>10
<1> HIDE DEF timed, late
<1>12. counted' = counted /\ counted \subseteq I
  BY <1>6, <1>8, <1>9, <1>10, <1>11
<1> HIDE DEF counted
<1>13. S' = S
  BY <1>5, <1>8, <1>12
<1> HIDE DEF S
<1> QED
  BY <1>2, <1>3, <1>12, <1>13

\* The contracts that a transaction's blobs are for stay as they are.
SameContracts(t) ==
    \A c \in AllContracts(t) : c \in DOMAIN contracts' /\ contracts'[c] = contracts[c]

Registered(t) == AllContracts(t) \subseteq DOMAIN contracts

\* A transaction with a window had it before.
LEMMA HasWindowBefore ==
    ASSUME batch' = batch, NEW t, height \in Nat, height' \in Nat, height <= height',
           unsettled[t].height \in Nat, unsettled[t].height <= height,
           unsettled'[t].height = unsettled[t].height,
           Registered(t), SameContracts(t), HasWindow(t)'
    PROVE  HasWindow(t)
<1>1. Sent' = Sent /\ Retained(t)' = Retained(t)
  BY DEF Retained, Blob, Sent
<1>2. \A I \in {Retained(t), DOMAIN Sent.blobs[t]} : get_tx_timeout_window(contracts, t, I)' > 0
  BY <1>1 DEF HasWindow
<1>3. unsettled[t].height > ForkHeight \/ height' <= ForkHeight
  BY DEF HasWindow
<1>4. height' > ForkHeight <=> height > ForkHeight
  BY <1>3, ConstantsAssumption
<1>5. ASSUME NEW I, I \subseteq DOMAIN Sent.blobs[t]
      PROVE  get_tx_timeout_window(contracts, t, I)' = get_tx_timeout_window(contracts, t, I)
  <2>1. \A i \in I : /\ Blob(t, i).contract \in DOMAIN contracts
                     /\ Blob(t, i).contract \in DOMAIN contracts'
                     /\ contracts'[Blob(t, i).contract] = contracts[Blob(t, i).contract]
    BY <1>5 DEF AllContracts, Registered, SameContracts
  <2> QED
    BY <1>4, <2>1, WindowNext
<1>6. Retained(t) \subseteq DOMAIN Sent.blobs[t]
  BY DEF Retained
<1>7. \A I \in {Retained(t), DOMAIN Sent.blobs[t]} : get_tx_timeout_window(contracts, t, I) > 0
  BY <1>2, <1>5, <1>6
<1>8. unsettled[t].height > ForkHeight \/ height <= ForkHeight
  BY <1>3, ConstantsAssumption
<1> QED
  BY <1>7, <1>8 DEF HasWindow

\* A timeout of a transaction is ahead.
TimedIn(tm, t) ==
    \E h \in height + 1 .. MaxHeight + MaxWindow : \E k \in DOMAIN tm[h] : tm[h][k] = t

LEMMA SetTimes ==
    ASSUME Typed, height <= MaxHeight, NEW t \in Txs, NEW w \in 1 .. MaxWindow
    PROVE  TimedIn(set(timeouts, t, w), t)
<1> DEFINE h == height + w
           s == timeouts[h]
<1>1. h \in height + 1 .. MaxHeight + MaxWindow /\ h \in DOMAIN timeouts /\ w # NoTimeout
  BY ConstantsAssumption DEF Typed, NoTimeout
<1>2. set(timeouts, t, w)[h] = Append(s, t)
  BY <1>1 DEF set
<1>3. s \in Seq(Txs)
  BY <1>1 DEF Typed
<1> HIDE DEF h, s
<1>4. Len(s) + 1 \in DOMAIN Append(s, t) /\ Append(s, t)[Len(s) + 1] = t
  BY <1>3
<1> QED
  BY <1>1, <1>2, <1>4 DEF TimedIn

LEMMA SetKeeps ==
    ASSUME Typed, NEW t \in Txs, NEW w, NEW u, TimedIn(timeouts, u)
    PROVE  TimedIn(set(timeouts, t, w), u)
<1>1. PICK h \in height + 1 .. MaxHeight + MaxWindow :
             \E k \in DOMAIN timeouts[h] : timeouts[h][k] = u
  BY DEF TimedIn
<1>2. PICK k \in DOMAIN timeouts[h] : timeouts[h][k] = u
  BY <1>1
<1>3. h \in DOMAIN timeouts
  BY ConstantsAssumption DEF Typed
<1>4. set(timeouts, t, w)[h] = timeouts[h] \/ set(timeouts, t, w)[h] = Append(timeouts[h], t)
  BY <1>3 DEF set
<1>5. PICK s : s = timeouts[h]
  OBVIOUS
<1>6. s \in Seq(Txs)
  BY <1>3, <1>5 DEF Typed
<1>7. k \in DOMAIN Append(s, t) /\ Append(s, t)[k] = s[k]
  BY <1>2, <1>5, <1>6
<1> QED
  BY <1>2, <1>4, <1>5, <1>7 DEF TimedIn

-----------------------------------------------------------------------------
(* The attempts of such a batch.                                           *)

\* The attempts, blob by blob.
AttemptsOf(t, att) ==
    /\ settle_blobs_recursively(t) = att[Len(Sent.blobs[t])]
    /\ att[0] = {NoAttempt}
    /\ \A i \in 0 .. Len(Sent.blobs[t]) - 1 : att[i + 1] = AttemptsNext(t, i + 1, att[i])

LEMMA AttemptsEquation ==
    ASSUME NEW t, Len(Sent.blobs[t]) \in Nat
    PROVE  \E att : AttemptsOf(t, att)
<1> DEFINE n == Len(Sent.blobs[t])
           att == CHOOSE g : AttemptsAre(t, g, n)
<1>1. AttemptsAre(t, att, n)
  <2>1. n \in Nat
    OBVIOUS
  <2> HIDE DEF n
  <2> QED
    BY <2>1, AttemptsExist
<1>2. settle_blobs_recursively(t) = att[n]
  BY DEF settle_blobs_recursively, AttemptsAre, AttemptsNext, NoAttempt
<1>3. n \in Nat /\ n = Len(Sent.blobs[t])
  OBVIOUS
<1> HIDE DEF att, n
<1>4. \A i \in 0 .. n : att[i] = IF i = 0 THEN {NoAttempt} ELSE AttemptsNext(t, i, att[i - 1])
  BY <1>1 DEF AttemptsAre
<1>5. att[0] = {NoAttempt}
  BY <1>3, <1>4
<1>6. ASSUME NEW i \in 0 .. n - 1 PROVE att[i + 1] = AttemptsNext(t, i + 1, att[i])
  <2>1. i + 1 \in 0 .. n /\ i + 1 # 0 /\ (i + 1) - 1 = i
    BY <1>3
  <2> QED
    BY <1>4, <2>1
<1>7. AttemptsOf(t, att)
  BY <1>2, <1>3, <1>5, <1>6 DEF AttemptsOf
<1> QED
  BY <1>7

\* An attempt that succeeds comes from all blobs.
LEMMA SuccessAttempt ==
    ASSUME Typed, ContractsTyped, ProofsTyped(unsettled), NEW t, Outcome(t).outcome = "Success"
    PROVE  /\ t \in DOMAIN unsettled /\ ~NativeFailure(t)
           /\ \E a \in settle_blobs_recursively(t) :
                ~a.failed /\ Outcome(t).changes = a.changes
<1> DEFINE A == settle_blobs_recursively(t)
           first == CHOOSE a \in A : \A b \in A \ {a} : Precedes(a.used, b.used)
<1>1. t \in DOMAIN unsettled
  BY OutcomeOK
<1>2. Ordered(A)
  BY <1>1, AttemptsOK
<1>3. Outcome(t).changes = first.changes /\ A # {} /\ ~first.failed /\ ~NativeFailure(t)
  BY DEF Outcome, Verdict, NotReady, Fails
<1> HIDE DEF A
<1>4. \E a \in A : \A b \in A \ {a} : Precedes(a.used, b.used)
  BY <1>2, <1>3 DEF Ordered
<1>5. first \in A
  BY <1>4
<1> HIDE DEF first
<1> QED
  BY <1>1, <1>3, <1>5 DEF A

\* A proof without effects is a transition of the contract's state.
LEMMA TransitionOK ==
    ASSUME NEW ch, NEW b, NEW p, p.effects = <<>>
    PROVE  process_proof(ch, b, p) =
             IF Exists(ch, b.contract)
             THEN With(ch, b.contract,
                       Change([get_contract(ch, b.contract) EXCEPT !.state = p.next],
                              Modified(ch, b.contract) \cup {"state"}))
             ELSE ch
<1> DEFINE c == get_contract(ch, b.contract)
           n == Len(p.effects)
           eff == CHOOSE g : EffectsAre(ch, c, p.effects, g, n)
           after == eff[n]
<1>1. n = 0
  OBVIOUS
<1>2. EffectsAre(ch, c, p.effects, eff, n)
  <2> HIDE DEF n, c
  <2>1. n \in Nat
    BY <1>1
  <2> QED
    BY <2>1, EffectsExist
<1>3. process_proof(ch, b, p) =
        IF Exists(after, b.contract)
        THEN With(after, b.contract,
                  Change([get_contract(after, b.contract) EXCEPT !.state = p.next],
                         Modified(after, b.contract) \cup {"state"}))
        ELSE after
  BY DEF process_proof, EffectsAre
<1> HIDE DEF eff, n, c
<1>4. eff = [k \in 0 .. 0 |-> IF k = 0 THEN ch ELSE Effect(eff[k - 1], c, p.effects[k])]
  BY <1>1, <1>2 DEF EffectsAre
<1>5. eff[0] = ch
  BY <1>4
<1>6. after = ch
  BY <1>1, <1>5
<1> HIDE DEF after
<1> QED
  BY <1>3, <1>6

\* The changes a plain transaction makes: to names it blocks, which stay alive.
PlainChanges(t, ch) ==
    \A n \in DOMAIN ch : /\ ch[n].alive = TRUE /\ ch[n].c \in ContractType
                         /\ n \in get_contracts_blocked_by_tx(t)

LEMMA WithPlain ==
    ASSUME NEW t, NEW ch, PlainChanges(t, ch), NEW n \in get_contracts_blocked_by_tx(t),
           NEW c \in ContractType, NEW fields
    PROVE  PlainChanges(t, With(ch, n, Change(c, fields)))
<1>1. PICK x : x = Change(c, fields)
  OBVIOUS
<1>2. x.alive = TRUE /\ x.c = c
  BY <1>1 DEF Change
<1>3. PICK y : y = With(ch, n, x)
  OBVIOUS
<1>4. DOMAIN y = DOMAIN ch \cup {n} /\ y[n] = x /\ \A k \in DOMAIN ch : k # n => y[k] = ch[k]
  BY <1>3 DEF With
<1>5. PlainChanges(t, y)
  BY <1>2, <1>4 DEF PlainChanges
<1> QED
  BY <1>1, <1>3, <1>5

PlainlyProved(m) == \A t \in DOMAIN m : \A i \in Retained(t) : PlainProofs(m[t].proofs[i])

\* The action of a plain blob.
LEMMA PlainAction ==
    ASSUME Plain, NEW t \in DOMAIN Sent.blobs, NEW i \in Retained(t)
    PROVE  LET b == Blob(t, i)
           IN  /\ b.action.type \in {"Call", "Register", "Nuke"}
               /\ b.contract \in get_contracts_blocked_by_tx(t)
               /\ b.action.type = "Register" => b.action.name \in get_contracts_blocked_by_tx(t)
<1>1. i \in DOMAIN Sent.blobs[t]
  BY DEF Retained
<1> QED
  BY <1>1 DEF Plain, get_contracts_blocked_by_tx, BlobContracts

LEMMA ExtensionsPlain ==
    ASSUME Plain, Typed, ContractsTyped, ProofsTyped(unsettled), PlainlyProved(unsettled),
           Windows(contracts), NEW t \in DOMAIN unsettled, NEW i \in Retained(t),
           NEW a, PlainChanges(t, a.changes), NEW x \in Extensions(a, t, i)
    PROVE  PlainChanges(t, x.changes)
<1> DEFINE b == Blob(t, i)
           proofs == unsettled[t].proofs[i]
           ch == a.changes
<1>0. t \in DOMAIN Sent.blobs
  BY DEF Typed
<1>1. /\ b.action.type \in {"Call", "Register", "Nuke"}
      /\ b.contract \in get_contracts_blocked_by_tx(t)
      /\ b.action.type = "Register" => b.action.name \in get_contracts_blocked_by_tx(t)
  BY <1>0, PlainAction
<1>2. b \in BlobType
  BY BlobsOK
<1>3. CASE x = a
  BY <1>3
<1>4. CASE \E k : x = Failed(a, k)
  <2>1. x.changes = a.changes
    BY <1>4 DEF Failed
  <2> QED
    BY <2>1
<1>5. ASSUME HyleAllows(ch, b.action), x = Passed(a, 1, handle_blob_for_hyle_tld(ch, b.action))
      PROVE  PlainChanges(t, x.changes)
  <2>1. x.changes = handle_blob_for_hyle_tld(ch, b.action)
    BY <1>5 DEF Passed
  <2>2. b.action.type # "Call"
    BY <1>5 DEF HyleAllows
  <2>3. CASE b.action.type = "Nuke"
    BY <2>1, <2>3 DEF handle_blob_for_hyle_tld
  <2>4. CASE b.action.type = "Register"
    <3> DEFINE w == IF b.action.c.window = Unset THEN DefaultWindow ELSE b.action.c.window
               c == [b.action.c EXCEPT !.window = w]
    <3>1. b.action.c \in Specified
      BY <1>2 DEF BlobType, ActionType
    <3>2. w \in Window
      BY <3>1, ConstantsAssumption DEF Specified
    <3>3. c \in ContractType
      BY <3>1, <3>2 DEF Specified, ContractType
    <3>4. x.changes = With(ch, b.action.name, Change(c, Fields))
      BY <2>1, <2>4 DEF handle_blob_for_hyle_tld, handle_register_blob
    <3> HIDE DEF c, w, b
    <3> QED
      BY <1>1, <2>4, <3>3, <3>4, WithPlain
  <2> QED
    BY <1>1, <2>2, <2>3, <2>4
<1>6. ASSUME NEW k \in DOMAIN proofs, ProofFits(ch, b, proofs[k]),
             x = Passed(a, k, process_proof(ch, b, proofs[k]))
      PROVE  PlainChanges(t, x.changes)
  <2> DEFINE p == proofs[k]
             c == get_contract(ch, b.contract)
             d == [c EXCEPT !.state = p.next]
  <2>1. x.changes = process_proof(ch, b, p)
    BY <1>6 DEF Passed
  <2>2. p.effects = <<>>
    BY <1>6 DEF PlainlyProved, PlainProofs
  <2>3. Exists(ch, b.contract)
    BY <1>6 DEF ProofFits
  <2>4. c \in ContractType
    BY <2>3 DEF Exists, get_contract, PlainChanges, Windows
  <2>5. p.next \in Int
    <3>1. unsettled[t].proofs \in [Retained(t) -> Seq(ProofType)]
      BY DEF ProofsTyped
    <3>2. proofs \in Seq(ProofType)
      BY <3>1
    <3>3. p \in ProofType
      BY <1>6, <3>2
    <3> QED
      BY <3>3 DEF ProofType
  <2> HIDE DEF c
  <2>6. x.changes = With(ch, b.contract, Change(d, Modified(ch, b.contract) \cup {"state"}))
    BY <2>1, <2>2, <2>3, TransitionOK DEF c
  <2>7. d \in ContractType
    BY <2>4, <2>5 DEF ContractType
  <2> HIDE DEF d, b, p
  <2> QED
    BY <1>1, <2>6, <2>7, WithPlain
<1> QED
  BY <1>3, <1>4, <1>5, <1>6 DEF Extensions

LEMMA AttemptsPlain ==
    ASSUME Plain, Typed, ContractsTyped, ProofsTyped(unsettled), PlainlyProved(unsettled),
           Windows(contracts), NEW t \in DOMAIN unsettled, NEW a \in settle_blobs_recursively(t)
    PROVE  PlainChanges(t, a.changes)
<1> DEFINE n == Len(Sent.blobs[t])
<1>0. n \in Nat
  BY BlobsOK
<1>1. PICK att : AttemptsOf(t, att)
  BY <1>0, AttemptsEquation
<1>2. /\ settle_blobs_recursively(t) = att[n] /\ att[0] = {NoAttempt}
      /\ \A i \in 0 .. n - 1 : att[i + 1] = AttemptsNext(t, i + 1, att[i])
  BY <1>1 DEF AttemptsOf
<1> HIDE DEF n
<1> DEFINE P == {i \in 0 .. n : \A x \in att[i] : PlainChanges(t, x.changes)}
<1>3. 0 \in P
  <2>1. \A x \in att[0] : x.changes = <<>>
    BY <1>2 DEF NoAttempt
  <2>2. PlainChanges(t, <<>>)
    BY DEF PlainChanges
  <2> QED
    BY <1>0, <2>1, <2>2
<1>4. ASSUME NEW m \in 0 .. (n - 1), m \in P PROVE m + 1 \in P
  <2>1. m + 1 \in 0 .. n
    BY <1>0
  <2>2. PICK i : i = m + 1
    OBVIOUS
  <2>3. PICK A : A = att[m]
    OBVIOUS
  <2>4. att[i] = AttemptsNext(t, i, A) /\ \A x \in A : PlainChanges(t, x.changes)
    BY <1>2, <1>4, <2>2, <2>3
  <2>5. ASSUME NEW x \in att[i] PROVE PlainChanges(t, x.changes)
    <3>1. CASE i \in Retained(t)
      <4>1. PICK y \in A : x \in Extensions(y, t, i)
        BY <2>4, <2>5, <3>1 DEF AttemptsNext
      <4> QED
        BY <2>4, <3>1, <4>1, ExtensionsPlain
    <3>2. CASE i \notin Retained(t)
      BY <2>4, <2>5, <3>2 DEF AttemptsNext
    <3> QED
      BY <3>1, <3>2
  <2> QED
    BY <2>1, <2>2, <2>5
<1> HIDE DEF P
<1>5. 0 .. n \subseteq P
  BY <1>0, <1>3, <1>4, InductionUpTo
<1>6. n \in P
  BY <1>0, <1>5
<1> QED
  BY <1>2, <1>6 DEF P

\* A success changes names that the transaction blocks and keeps them alive.
LEMMA SuccessPlain ==
    ASSUME Plain, Typed, ContractsTyped, ProofsTyped(unsettled), PlainlyProved(unsettled),
           Windows(contracts), NEW t, Outcome(t).outcome = "Success"
    PROVE  PlainChanges(t, Outcome(t).changes)
BY SuccessAttempt, AttemptsPlain

-----------------------------------------------------------------------------
(* What another transaction's leaving means to a plain one.                *)

\* The contracts under the names that a transaction blocks stay as they are.
SameNames(t) ==
    \A n \in get_contracts_blocked_by_tx(t) :
      /\ n \in DOMAIN contracts' <=> n \in DOMAIN contracts
      /\ n \in DOMAIN contracts => contracts'[n] = contracts[n]

LEMMA SeenNext ==
    ASSUME NEW t, SameNames(t), NEW n \in get_contracts_blocked_by_tx(t), NEW ch
    PROVE  /\ Exists(ch, n)' <=> Exists(ch, n)
           /\ Exists(ch, n) => get_contract(ch, n)' = get_contract(ch, n)
<1>1. CASE n \in DOMAIN ch
  BY <1>1 DEF Exists, get_contract
<1>2. CASE n \notin DOMAIN ch
  BY <1>2 DEF Exists, get_contract, SameNames
<1> QED
  BY <1>1, <1>2

LEMMA FitsNext ==
    ASSUME NEW t, SameNames(t), NEW ch, NEW b, b.contract \in get_contracts_blocked_by_tx(t),
           NEW p, p.reads = {}
    PROVE  ProofFits(ch, b, p)' <=> ProofFits(ch, b, p)
<1>1. Exists(ch, b.contract)' <=> Exists(ch, b.contract)
  BY SeenNext
<1>2. Exists(ch, b.contract) =>
        get_contract(ch, b.contract)' = get_contract(ch, b.contract)
  BY SeenNext
<1>3. EffectsAllowed(b, p)' <=> EffectsAllowed(b, p)
  BY DEF EffectsAllowed, validate_contract_name_registration
<1>4. ProofFits(ch, b, p) <=>
        /\ Exists(ch, b.contract) /\ p.init = get_contract(ch, b.contract).state
        /\ p.prog = get_contract(ch, b.contract).prog /\ EffectsAllowed(b, p)
  BY DEF ProofFits
<1>5. ProofFits(ch, b, p)' <=>
        /\ Exists(ch, b.contract)' /\ p.init = get_contract(ch, b.contract)'.state
        /\ p.prog = get_contract(ch, b.contract)'.prog /\ EffectsAllowed(b, p)'
  BY DEF ProofFits
<1> QED
  BY <1>1, <1>2, <1>3, <1>4, <1>5, Zenon

LEMMA Transitions ==
    \A ch, b, p : p.effects = <<>> =>
      process_proof(ch, b, p) =
        IF Exists(ch, b.contract)
        THEN With(ch, b.contract,
                  Change([get_contract(ch, b.contract) EXCEPT !.state = p.next],
                         Modified(ch, b.contract) \cup {"state"}))
        ELSE ch
BY TransitionOK

LEMMA TransitionsNext ==
    (\A ch, b, p : p.effects = <<>> =>
       process_proof(ch, b, p) =
         IF Exists(ch, b.contract)
         THEN With(ch, b.contract,
                   Change([get_contract(ch, b.contract) EXCEPT !.state = p.next],
                          Modified(ch, b.contract) \cup {"state"}))
         ELSE ch)'
BY Transitions, PTL

LEMMA ProcessNext ==
    ASSUME NEW t, SameNames(t), NEW ch, NEW b, b.contract \in get_contracts_blocked_by_tx(t),
           Exists(ch, b.contract), NEW p, p.effects = <<>>
    PROVE  process_proof(ch, b, p)' = process_proof(ch, b, p)
<1>1. /\ Exists(ch, b.contract)' <=> Exists(ch, b.contract)
      /\ get_contract(ch, b.contract)' = get_contract(ch, b.contract)
  BY SeenNext
<1>2. process_proof(ch, b, p) =
        With(ch, b.contract,
             Change([get_contract(ch, b.contract) EXCEPT !.state = p.next],
                    Modified(ch, b.contract) \cup {"state"}))
  BY TransitionOK
<1>3. process_proof(ch, b, p)' =
        With(ch, b.contract,
             Change([get_contract(ch, b.contract)' EXCEPT !.state = p.next],
                    Modified(ch, b.contract) \cup {"state"}))
  BY <1>1, TransitionsNext
<1> QED
  BY <1>1, <1>2, <1>3

LEMMA HyleNext ==
    ASSUME NEW t, SameNames(t), NEW ch, NEW a, a.type \in {"Call", "Register", "Nuke"},
           a.type = "Register" => a.name \in get_contracts_blocked_by_tx(t)
    PROVE  /\ HyleAllows(ch, a)' <=> HyleAllows(ch, a)
           /\ HyleAllows(ch, a) =>
                handle_blob_for_hyle_tld(ch, a)' = handle_blob_for_hyle_tld(ch, a)
<1>1. CASE a.type = "Register"
  <2>1. a.name \in DOMAIN contracts' <=> a.name \in DOMAIN contracts
    BY <1>1 DEF SameNames
  <2>2. HyleAllows(ch, a)' <=> HyleAllows(ch, a)
    BY <1>1, <2>1 DEF HyleAllows, validate_contract_name_registration
  <2>3. handle_blob_for_hyle_tld(ch, a)' = handle_blob_for_hyle_tld(ch, a)
    BY <1>1 DEF handle_blob_for_hyle_tld, handle_register_blob
  <2> QED
    BY <2>2, <2>3
<1>2. CASE a.type = "Nuke"
  BY <1>2 DEF HyleAllows, handle_blob_for_hyle_tld
<1>3. CASE a.type = "Call"
  BY <1>3 DEF HyleAllows
<1> QED
  BY <1>1, <1>2, <1>3

HyleExtension(a, e) ==
    IF HyleAllows(a.changes, e) THEN Passed(a, 1, handle_blob_for_hyle_tld(a.changes, e))
    ELSE Failed(a, 1)

ProofExtension(a, c, p, k) ==
    IF p.success THEN Passed(a, k, process_proof(a.changes, c, p)) ELSE Failed(a, k)

AllExtensions(a, c, ps) ==
    IF a.failed THEN {a}
    ELSE IF c.contract = "hyle" THEN {HyleExtension(a, c.action)}
    ELSE {ProofExtension(a, c, ps[k], k) : k \in {k \in DOMAIN ps : ProofFits(a.changes, c, ps[k])}}

LEMMA Extending ==
    \A a, t, i, c, ps : c = Blob(t, i) /\ ps = unsettled[t].proofs[i] =>
      Extensions(a, t, i) = AllExtensions(a, c, ps)
BY DEF Extensions, AllExtensions, HyleExtension, ProofExtension

LEMMA ExtendingNext ==
    (\A a, t, i, c, ps : c = Blob(t, i) /\ ps = unsettled[t].proofs[i] =>
       Extensions(a, t, i) = AllExtensions(a, c, ps))'
BY Extending, PTL

LEMMA ExtensionsNext ==
    ASSUME Plain, batch' = batch, NEW t \in DOMAIN Sent.blobs, SameNames(t),
           unsettled'[t].proofs = unsettled[t].proofs,
           NEW i \in Retained(t), PlainProofs(unsettled[t].proofs[i]), NEW a
    PROVE  Extensions(a, t, i)' = Extensions(a, t, i)
<1>1. PICK c : c = Blob(t, i)
  OBVIOUS
<1>2. PICK ps : ps = unsettled[t].proofs[i]
  OBVIOUS
<1>3. /\ c.action.type \in {"Call", "Register", "Nuke"}
      /\ c.contract \in get_contracts_blocked_by_tx(t)
      /\ c.action.type = "Register" => c.action.name \in get_contracts_blocked_by_tx(t)
  BY <1>1, PlainAction
<1>4. c = Blob(t, i)' /\ ps = (unsettled[t].proofs[i])'
  BY <1>1, <1>2 DEF Blob, Sent
<1> DEFINE fits == {k \in DOMAIN ps : ProofFits(a.changes, c, ps[k])}
           fits1 == {k \in DOMAIN ps : ProofFits(a.changes, c, ps[k])'}
<1>5. Extensions(a, t, i) =
        IF a.failed THEN {a}
        ELSE IF c.contract = "hyle" THEN {HyleExtension(a, c.action)}
        ELSE {ProofExtension(a, c, ps[k], k) : k \in fits}
  <2>1. Extensions(a, t, i) = AllExtensions(a, c, ps)
    BY <1>1, <1>2, Extending
  <2> QED
    BY <2>1 DEF AllExtensions
<1>6. Extensions(a, t, i)' =
        IF a.failed THEN {a}
        ELSE IF c.contract = "hyle" THEN {HyleExtension(a, c.action)'}
        ELSE {ProofExtension(a, c, ps[k], k)' : k \in fits1}
  <2>1. Extensions(a, t, i)' = AllExtensions(a, c, ps)'
    BY <1>4, ExtendingNext
  <2> QED
    BY <2>1 DEF AllExtensions
<1>7. HyleExtension(a, c.action)' = HyleExtension(a, c.action)
  <2>1. /\ HyleAllows(a.changes, c.action)' <=> HyleAllows(a.changes, c.action)
        /\ HyleAllows(a.changes, c.action) =>
             handle_blob_for_hyle_tld(a.changes, c.action)' =
               handle_blob_for_hyle_tld(a.changes, c.action)
    BY <1>3, HyleNext
  <2> QED
    BY <2>1 DEF HyleExtension, Passed, Failed
<1>8. ASSUME NEW k \in DOMAIN ps
      PROVE  /\ ProofFits(a.changes, c, ps[k])' <=> ProofFits(a.changes, c, ps[k])
             /\ ProofFits(a.changes, c, ps[k]) =>
                  ProofExtension(a, c, ps[k], k)' = ProofExtension(a, c, ps[k], k)
  <2>1. PICK p : p = ps[k]
    OBVIOUS
  <2>2. p.reads = {} /\ p.effects = <<>>
    BY <1>2, <2>1 DEF PlainProofs
  <2>3. ProofFits(a.changes, c, p)' <=> ProofFits(a.changes, c, p)
    BY <1>3, <2>2, FitsNext
  <2>4. ASSUME ProofFits(a.changes, c, p)
        PROVE  ProofExtension(a, c, p, k)' = ProofExtension(a, c, p, k)
    <3>1. Exists(a.changes, c.contract)
      BY <2>4 DEF ProofFits
    <3>2. process_proof(a.changes, c, p)' = process_proof(a.changes, c, p)
      BY <1>3, <2>2, <3>1, ProcessNext
    <3> QED
      BY <3>2 DEF ProofExtension, Passed, Failed
  <2> QED
    BY <2>1, <2>3, <2>4
<1>9. fits1 = fits
  BY <1>8
<1>10. \A k \in fits : ProofExtension(a, c, ps[k], k)' = ProofExtension(a, c, ps[k], k)
  BY <1>8
<1> HIDE DEF fits, fits1
<1>11. {ProofExtension(a, c, ps[k], k)' : k \in fits1} = {ProofExtension(a, c, ps[k], k) : k \in fits}
  BY <1>9, <1>10
<1> QED
  BY <1>5, <1>6, <1>7, <1>11

LEMMA AttemptsEquations ==
    \A t : Len(Sent.blobs[t]) \in Nat => \E att : AttemptsOf(t, att)
BY AttemptsEquation

LEMMA AttemptsEquationsNext ==
    (\A t : Len(Sent.blobs[t]) \in Nat => \E att : AttemptsOf(t, att))'
BY AttemptsEquations, PTL

\* With the same proofs and the same contracts a transaction has the same attempts.
LEMMA AttemptsSame ==
    ASSUME Plain, Typed, batch' = batch, NEW t \in DOMAIN unsettled, SameNames(t),
           unsettled'[t].proofs = unsettled[t].proofs,
           \A i \in Retained(t) : PlainProofs(unsettled[t].proofs[i])
    PROVE  settle_blobs_recursively(t)' = settle_blobs_recursively(t)
<1>0. t \in DOMAIN Sent.blobs /\ Sent' = Sent /\ Retained(t)' = Retained(t)
  BY DEF Typed, Sent, Retained, Blob
<1>1. Len(Sent.blobs[t]) \in Nat
  BY BlobsOK
<1>2. PICK n \in Nat : n = Len(Sent.blobs[t])
  BY <1>1
<1>3. PICK att : AttemptsOf(t, att)
  BY <1>1, AttemptsEquation
<1>4. PICK att1 : AttemptsOf(t, att1)'
  BY <1>0, <1>1, AttemptsEquationsNext
<1>5. /\ settle_blobs_recursively(t) = att[n] /\ att[0] = {NoAttempt}
      /\ \A i \in 0 .. n - 1 : att[i + 1] = AttemptsNext(t, i + 1, att[i])
  BY <1>2, <1>3 DEF AttemptsOf
<1>6. /\ settle_blobs_recursively(t)' = att1[n] /\ att1[0] = {NoAttempt}
      /\ \A i \in 0 .. n - 1 : att1[i + 1] = AttemptsNext(t, i + 1, att1[i])'
  BY <1>0, <1>2, <1>4 DEF AttemptsOf, NoAttempt
<1>7. ASSUME NEW i, NEW A PROVE AttemptsNext(t, i, A)' = AttemptsNext(t, i, A)
  <2>1. CASE i \in Retained(t)
    <3>1. \A a : Extensions(a, t, i)' = Extensions(a, t, i)
      BY <1>0, <2>1, ExtensionsNext
    <3>2. AttemptsNext(t, i, A) = UNION {Extensions(a, t, i) : a \in A}
      BY <2>1 DEF AttemptsNext
    <3>3. AttemptsNext(t, i, A)' = UNION {Extensions(a, t, i)' : a \in A}
      BY <1>0, <2>1 DEF AttemptsNext
    <3> QED
      BY <3>1, <3>2, <3>3
  <2>2. CASE i \notin Retained(t)
    BY <1>0, <2>2 DEF AttemptsNext
  <2> QED
    BY <2>1, <2>2
<1> DEFINE P == {i \in 0 .. n : att1[i] = att[i]}
<1>8. 0 \in P
  BY <1>5, <1>6
<1>9. ASSUME NEW m \in 0 .. (n - 1), m \in P PROVE m + 1 \in P
  <2>1. m + 1 \in 0 .. n /\ att1[m] = att[m]
    BY <1>9
  <2>2. PICK A : A = att[m]
    OBVIOUS
  <2>3. PICK i : i = m + 1
    OBVIOUS
  <2>4. att[i] = AttemptsNext(t, i, A)
    BY <1>5, <2>2, <2>3
  <2>5. att1[i] = AttemptsNext(t, i, A)'
    BY <1>6, <2>1, <2>2, <2>3
  <2>6. att1[i] = att[i]
    BY <1>7, <2>4, <2>5
  <2> QED
    BY <2>1, <2>3, <2>6
<1> HIDE DEF P
<1>10. 0 .. n \subseteq P
  BY <1>8, <1>9, InductionUpTo
<1>11. n \in P
  BY <1>10
<1> QED
  BY <1>5, <1>6, <1>11 DEF P

LEMMA PlainNext == batch' = batch => (Plain' <=> Plain)
BY DEF Plain, Sent, Blob

LEMMA NextDef ==
    ASSUME batch' = batch, NEW t
    PROVE  is_next_to_settle(unsettled, order, t)' <=> is_next_to_settle(unsettled', order', t)
BY SameBatch DEF is_next_to_settle

\* A transaction that would succeed would have before, if its turn had come.
LEMMA OutcomeBefore ==
    ASSUME Plain, Typed, batch' = batch, NEW t \in DOMAIN unsettled, SameNames(t),
           unsettled'[t].proofs = unsettled[t].proofs,
           \A i \in Retained(t) : PlainProofs(unsettled[t].proofs[i]),
           is_next_to_settle(unsettled, order, t), (Outcome(t).outcome = "Success")'
    PROVE  Outcome(t).outcome = "Success"
<1>0. t \in DOMAIN Sent.blobs
  BY DEF Typed
<1>1. settle_blobs_recursively(t)' = settle_blobs_recursively(t)
  BY AttemptsSame
<1>2. PICK A : A = settle_blobs_recursively(t)
  OBVIOUS
<1>3. A = settle_blobs_recursively(t)'
  BY <1>1, <1>2
<1>4. NativeFailure(t)' <=> NativeFailure(t)
  BY DEF NativeFailure, Retained, Blob, Sent
<1>5. BlobContracts(t)' = BlobContracts(t)
  BY SameBatch
<1>6. BlobContracts(t) \subseteq get_contracts_blocked_by_tx(t)
  BY DEF get_contracts_blocked_by_tx
<1> DEFINE first == CHOOSE a \in A : \A b \in A \ {a} : Precedes(a.used, b.used)
<1>7. /\ BlobContracts(t)' \subseteq DOMAIN contracts' /\ ~NativeFailure(t)'
      /\ A # {} /\ ~first.failed
  <2>1. /\ BlobContracts(t)' \subseteq DOMAIN contracts' /\ ~NativeFailure(t)'
        /\ (Verdict(t, settle_blobs_recursively(t)).outcome = "Success")'
    BY DEF Outcome, NotReady, Fails
  <2>2. A # {} /\ ~first.failed
    BY <1>3, <2>1 DEF Verdict, NotReady, Fails, Precedes
  <2> QED
    BY <2>1, <2>2
<1>8. BlobContracts(t) \subseteq DOMAIN contracts
  BY <1>5, <1>6, <1>7 DEF SameNames
<1>9. Verdict(t, A).outcome = "Success"
  BY <1>7 DEF Verdict
<1> HIDE DEF first
<1> QED
  BY <1>2, <1>4, <1>7, <1>8, <1>9 DEF Outcome

\* The proof that a native verifier gives for a blob it refuses comes first.
NativesFail(m) ==
    \A t \in DOMAIN m : \A i \in Retained(t) : Blob(t, i).contract \in Native =>
      1 \in DOMAIN m[t].proofs[i] /\ ~m[t].proofs[i][1].success

\* Without a proof of a contract's blob, only blobs of "hyle" can succeed.
LEMMA HyleOnly ==
    ASSUME Typed, ContractsTyped, ProofsTyped(unsettled), NativesFail(unsettled),
           NEW t, Outcome(t).outcome = "Success",
           \A i \in Retained(t) : Blob(t, i).contract \notin Native => unsettled[t].proofs[i] = <<>>
    PROVE  \A i \in Retained(t) : Blob(t, i).contract = "hyle"
<1>1. /\ t \in DOMAIN unsettled /\ ~NativeFailure(t)
      /\ \E a \in settle_blobs_recursively(t) : ~a.failed
  BY SuccessAttempt
<1>2. \A i \in Retained(t) : Blob(t, i).contract \notin Native
  BY <1>1 DEF NativeFailure, NativesFail
<1> DEFINE n == Len(Sent.blobs[t])
<1>3. n \in Nat
  BY <1>1, BlobsOK
<1>4. PICK att : AttemptsOf(t, att)
  BY <1>3, AttemptsEquation
<1>5. /\ settle_blobs_recursively(t) = att[n] /\ att[0] = {NoAttempt}
      /\ \A i \in 0 .. n - 1 : att[i + 1] = AttemptsNext(t, i + 1, att[i])
  BY <1>4 DEF AttemptsOf
<1>6. \A i \in Retained(t) : i \in 1 .. n
  <2>1. Sent.blobs[t] \in Seq(BlobType) /\ Retained(t) \subseteq DOMAIN Sent.blobs[t]
    BY <1>1, BlobsOK
  <2> QED
    BY <2>1
<1> HIDE DEF n
<1> DEFINE P == {i \in 0 .. n : \A a \in att[i] : a.failed \/
                                  \A j \in Retained(t) : j <= i => Blob(t, j).contract = "hyle"}
<1>7. 0 \in P
  <2>1. \A j \in Retained(t) : ~(j <= 0)
    BY <1>3, <1>6
  <2> QED
    BY <1>3, <2>1
<1>8. ASSUME NEW m \in 0 .. (n - 1), m \in P PROVE m + 1 \in P
  <2>1. m + 1 \in 0 .. n
    BY <1>3
  <2>2. PICK i : i = m + 1
    OBVIOUS
  <2>3. PICK A : A = att[m]
    OBVIOUS
  <2>4. /\ att[i] = AttemptsNext(t, i, A)
        /\ \A a \in A : a.failed \/ \A j \in Retained(t) : j <= m => Blob(t, j).contract = "hyle"
    BY <1>5, <1>8, <2>2, <2>3
  <2>5. ASSUME NEW a \in att[i], ~a.failed, NEW j \in Retained(t), j <= i
        PROVE  Blob(t, j).contract = "hyle"
    <3>1. CASE i \in Retained(t)
      <4>1. PICK b \in A : a \in Extensions(b, t, i)
        BY <2>4, <2>5, <3>1 DEF AttemptsNext
      <4>2. ~b.failed
        BY <2>5, <4>1 DEF Extensions
      <4>3. Blob(t, i).contract = "hyle"
        <5> SUFFICES ASSUME Blob(t, i).contract # "hyle" PROVE FALSE
          OBVIOUS
        <5>1. DOMAIN unsettled[t].proofs[i] = {}
          BY <1>2, <3>1
        <5>2. Extensions(b, t, i) = {}
          BY <4>2, <5>1 DEF Extensions
        <5> QED
          BY <4>1, <5>2
      <4>4. j = i \/ j <= m
        BY <1>6, <2>2, <2>5
      <4> QED
        BY <2>4, <2>5, <4>1, <4>2, <4>3, <4>4
    <3>2. CASE i \notin Retained(t)
      <4>1. a \in A /\ j # i
        BY <2>4, <2>5, <3>2 DEF AttemptsNext
      <4>2. j <= m
        BY <1>6, <2>2, <2>5, <4>1
      <4> QED
        BY <2>4, <2>5, <4>1, <4>2
    <3> QED
      BY <3>1, <3>2
  <2> QED
    BY <2>1, <2>2, <2>5
<1> HIDE DEF P
<1>9. 0 .. n \subseteq P
  BY <1>3, <1>7, <1>8, InductionUpTo
<1>10. n \in P
  BY <1>3, <1>9
<1>11. \A j \in Retained(t) : j <= n
  BY <1>3, <1>6
<1> QED
  BY <1>1, <1>5, <1>10, <1>11 DEF P

LEMMA HyleOnlyAlways ==
    Typed /\ ContractsTyped /\ ProofsTyped(unsettled) /\ NativesFail(unsettled) =>
      \A t : /\ Outcome(t).outcome = "Success"
             /\ \A i \in Retained(t) :
                  Blob(t, i).contract \notin Native => unsettled[t].proofs[i] = <<>>
             => \A i \in Retained(t) : Blob(t, i).contract = "hyle"
BY HyleOnly

LEMMA HyleOnlyNext ==
    (Typed /\ ContractsTyped /\ ProofsTyped(unsettled) /\ NativesFail(unsettled) =>
       \A t : /\ Outcome(t).outcome = "Success"
              /\ \A i \in Retained(t) :
                   Blob(t, i).contract \notin Native => unsettled[t].proofs[i] = <<>>
              => \A i \in Retained(t) : Blob(t, i).contract = "hyle")'
BY HyleOnlyAlways, PTL

-----------------------------------------------------------------------------
(* The inductive invariant of plain batches.                               *)

\* What is kept of the transactions, and the contracts of their blobs.
PlainState ==
    /\ Windows(contracts)
    /\ \A t \in DOMAIN unsettled :
         unsettled[t].height \in Nat /\ unsettled[t].height <= height /\ Registered(t)
    /\ PlainlyProved(unsettled) /\ NativesFail(unsettled)

\* The transactions that a loop of handle_signed_block has still to look at.
Waiting == todo \cup unsettlable \cup Elements(expiring)

\* A transaction that is next has a timeout ahead, or will be looked at.
NextWait ==
    \A t \in DOMAIN unsettled :
      is_next_to_settle(unsettled, order, t) /\ HasWindow(t) =>
        TimedIn(timeouts, t) \/ t \in Waiting

\* A transaction that would succeed will be tried.
SuccessesTried ==
    \A t \in DOMAIN unsettled : Outcome(t).outcome = "Success" => t \in todo

PInv ==
    /\ BInv /\ height <= MaxHeight
    /\ Plain => PlainState /\ NextWait /\ SuccessesTried

\* Nothing about a transaction's contracts changes when none does.
LEMMA SameAll ==
    ASSUME contracts' = contracts, NEW t, Registered(t)
    PROVE  SameContracts(t) /\ SameNames(t)
BY DEF SameContracts, SameNames, Registered

LEMMA TimedDef ==
    ASSUME height' = height, NEW t
    PROVE  TimedIn(timeouts, t)' <=> TimedIn(timeouts', t)
BY DEF TimedIn

\* A step that leaves a transaction and its contracts alone and makes it not next finds
\* it with a timeout, or among those to look at.
LEMMA WaitBefore ==
    ASSUME PlainState, NextWait, batch' = batch, height \in Nat, height' \in Nat,
           height <= height', NEW t \in DOMAIN unsettled,
           unsettled'[t].height = unsettled[t].height, SameContracts(t),
           is_next_to_settle(unsettled, order, t), HasWindow(t)'
    PROVE  TimedIn(timeouts, t) \/ t \in Waiting
<1>1. HasWindow(t)
  BY HasWindowBefore DEF PlainState
<1> QED
  BY <1>1 DEF NextWait

LEMMA TriedBefore ==
    ASSUME Plain, Typed, PlainState, SuccessesTried, batch' = batch,
           NEW t \in DOMAIN unsettled, SameNames(t),
           unsettled'[t].proofs = unsettled[t].proofs,
           is_next_to_settle(unsettled, order, t), (Outcome(t).outcome = "Success")'
    PROVE  Outcome(t).outcome = "Success" /\ t \in todo
<1>1. \A i \in Retained(t) : PlainProofs(unsettled[t].proofs[i])
  BY DEF PlainState, PlainlyProved
<1>2. Outcome(t).outcome = "Success"
  BY <1>1, OutcomeBefore
<1> QED
  BY <1>2 DEF SuccessesTried

\* What would succeed is next.
LEMMA Successes ==
    \A t : Outcome(t).outcome = "Success" =>
             t \in DOMAIN unsettled /\ is_next_to_settle(unsettled, order, t)
BY OutcomeOK

LEMMA SuccessesNext ==
    (\A t : Outcome(t).outcome = "Success" =>
              t \in DOMAIN unsettled /\ is_next_to_settle(unsettled, order, t))'
BY Successes, PTL

LEMMA SuccessNext ==
    ASSUME batch' = batch, NEW t, (Outcome(t).outcome = "Success")'
    PROVE  t \in DOMAIN unsettled' /\ is_next_to_settle(unsettled', order', t)
<1>1. t \in DOMAIN unsettled' /\ is_next_to_settle(unsettled, order, t)'
  BY SuccessesNext
<1> QED
  BY <1>1, NextDef

\* It is enough to look at each transaction after a step.
LEMMA NextWaitNext ==
    ASSUME batch' = batch,
           \A t \in DOMAIN unsettled' :
             is_next_to_settle(unsettled', order', t) /\ HasWindow(t)' =>
               TimedIn(timeouts, t)' \/ t \in Waiting'
    PROVE  NextWait'
<1>1. \A t : is_next_to_settle(unsettled, order, t)' <=> is_next_to_settle(unsettled', order', t)
  BY NextDef
<1> QED
  BY <1>1 DEF NextWait

LEMMA TriedNext ==
    ASSUME \A t \in DOMAIN unsettled' : (Outcome(t).outcome = "Success")' => t \in todo'
    PROVE  SuccessesTried'
BY DEF SuccessesTried

\* The map after a step that keeps the contracts of the transactions it leaves in it.
LEMMA KeptState ==
    ASSUME PlainState, Typed, batch' = batch, height' \in Nat, height <= height',
           Windows(contracts'), DOMAIN contracts \subseteq DOMAIN contracts',
           \A t \in DOMAIN unsettled' :
             \/ t \in DOMAIN unsettled /\ unsettled'[t].height = unsettled[t].height
             \/ unsettled'[t].height = height' /\ AllContracts(t) \subseteq DOMAIN contracts,
           PlainlyProved(unsettled'), NativesFail(unsettled')
    PROVE  PlainState'
<1>1. \A t, i : Blob(t, i)' = Blob(t, i) /\ Retained(t)' = Retained(t)
  BY DEF Retained, Blob, Sent
<1>2. \A t : AllContracts(t)' = AllContracts(t)
  BY DEF AllContracts, Blob, Sent
<1>3. PlainlyProved(unsettled)' /\ NativesFail(unsettled)' /\ Windows(contracts)'
  BY <1>1 DEF PlainlyProved, NativesFail, Windows
<1>4. ASSUME NEW t \in DOMAIN unsettled'
      PROVE  unsettled'[t].height \in Nat /\ unsettled'[t].height <= height' /\ Registered(t)'
  <2>1. CASE t \in DOMAIN unsettled /\ unsettled'[t].height = unsettled[t].height
    <3>1. unsettled[t].height \in Nat /\ unsettled[t].height <= height /\ Registered(t)
      BY <2>1 DEF PlainState
    <3>2. Registered(t)'
      BY <1>2, <3>1 DEF Registered
    <3> QED
      BY <2>1, <3>1, <3>2 DEF Typed
  <2>2. CASE unsettled'[t].height = height' /\ AllContracts(t) \subseteq DOMAIN contracts
    BY <1>2, <2>2 DEF Registered
  <2> QED
    BY <2>1, <2>2
<1> QED
  BY <1>3, <1>4 DEF PlainState

LEMMA FewerPlain ==
    ASSUME NEW m, PlainlyProved(m), NativesFail(m), NEW k, DOMAIN k \subseteq DOMAIN m,
           \A t \in DOMAIN k : k[t].proofs = m[t].proofs
    PROVE  PlainlyProved(k) /\ NativesFail(k)
BY DEF PlainlyProved, NativesFail

LEMMA PInitOK == Init => PInv
<1> SUFFICES ASSUME Init PROVE PInv
  OBVIOUS
<1>1. BInv /\ height <= MaxHeight
  BY BInitOK, ConstantsAssumption DEF Init
<1>2. DOMAIN unsettled = {}
  BY DEF Init
<1>3. Windows(contracts)
  BY BatchesAssumption DEF Init, Windows
<1>4. PlainState /\ NextWait /\ SuccessesTried
  BY <1>2, <1>3 DEF PlainState, NextWait, SuccessesTried, PlainlyProved, NativesFail
<1> QED
  BY <1>1, <1>4 DEF PInv

LEMMA PNewBlockOK == ASSUME PInv, NewBlock PROVE PInv'
<1>0. /\ UNCHANGED <<batch, contracts, unsettled, order, todo, unsettlable>>
      /\ height' = height + 1 /\ height < MaxHeight /\ Ready
      /\ expiring' = timeouts[height + 1]
      /\ timeouts' = [timeouts EXCEPT ![height + 1] = <<>>]
  BY DEF NewBlock
<1>1. BInv' /\ Typed /\ height \in Nat
  BY BNewBlockOK DEF PInv, BInv, IInv, Typed
<1>2. height' \in Nat /\ height' <= MaxHeight /\ height <= height'
  BY <1>0, <1>1, ConstantsAssumption
<1>3. SUFFICES ASSUME Plain' PROVE PlainState' /\ NextWait' /\ SuccessesTried'
  BY <1>1, <1>2 DEF PInv
<1>4. Plain /\ PlainState /\ NextWait /\ SuccessesTried
  BY <1>0, <1>3, PlainNext DEF PInv
<1>5. PlainState'
  BY <1>0, <1>1, <1>2, <1>4, KeptState DEF PlainState
<1>6. Waiting = {}
  BY <1>0 DEF Ready, Waiting, Elements
<1>7. ASSUME NEW t \in DOMAIN unsettled', is_next_to_settle(unsettled', order', t), HasWindow(t)'
      PROVE  TimedIn(timeouts, t)' \/ t \in Waiting'
  <2>1. t \in DOMAIN unsettled /\ Registered(t) /\ is_next_to_settle(unsettled, order, t)
    BY <1>0, <1>4, <1>7 DEF PlainState
  <2>2. SameContracts(t)
    BY <1>0, <2>1, SameAll
  <2>3. TimedIn(timeouts, t)
    BY <1>0, <1>1, <1>2, <1>4, <1>6, <1>7, <2>1, <2>2, WaitBefore
  <2>4. PICK h \in height + 1 .. MaxHeight + MaxWindow :
               \E k \in DOMAIN timeouts[h] : timeouts[h][k] = t
    BY <2>3 DEF TimedIn
  <2>5. CASE h = height + 1
    BY <1>0, <2>4, <2>5 DEF Waiting, Elements
  <2>6. CASE h # height + 1
    <3>1. h \in height' + 1 .. MaxHeight + MaxWindow /\ h \in DOMAIN timeouts
      BY <1>0, <1>1, <2>6, ConstantsAssumption DEF Typed
    <3>2. timeouts'[h] = timeouts[h]
      BY <1>0, <2>6, <3>1
    <3> QED
      BY <2>4, <3>1, <3>2 DEF TimedIn
  <2> QED
    BY <2>5, <2>6
<1>8. ASSUME NEW t \in DOMAIN unsettled', (Outcome(t).outcome = "Success")' PROVE t \in todo'
  <2>1. is_next_to_settle(unsettled, order, t) /\ t \in DOMAIN unsettled
    BY <1>0, <1>8, SuccessNext
  <2>2. SameNames(t)
    BY <1>0, <1>4, <2>1, SameAll DEF PlainState
  <2> QED
    BY <1>0, <1>1, <1>4, <1>8, <2>1, <2>2, TriedBefore
<1> QED
  BY <1>0, <1>5, <1>7, <1>8, NextWaitNext, TriedNext

\* A step of a loop that only moves transactions to look at.
LEMMA PQuiet ==
    ASSUME Plain, Typed, PlainState, NextWait, SuccessesTried,
           UNCHANGED <<batch, height, contracts, unsettled, order>>,
           \A t : TimedIn(timeouts, t) => TimedIn(timeouts', t),
           \A t \in DOMAIN unsettled :
             is_next_to_settle(unsettled, order, t) /\ HasWindow(t) /\ t \in Waiting =>
               TimedIn(timeouts', t) \/ t \in Waiting',
           \A t : t \in todo /\ Outcome(t).outcome = "Success" => t \in todo'
    PROVE  PlainState' /\ NextWait' /\ SuccessesTried'
<1>1. height \in Nat /\ height' = height
  BY DEF Typed
<1>2. PlainState'
  BY <1>1, KeptState DEF PlainState
<1>3. ASSUME NEW t \in DOMAIN unsettled', is_next_to_settle(unsettled', order', t), HasWindow(t)'
      PROVE  TimedIn(timeouts, t)' \/ t \in Waiting'
  <2>1. t \in DOMAIN unsettled /\ Registered(t) /\ is_next_to_settle(unsettled, order, t)
    BY <1>3 DEF PlainState
  <2>2. SameContracts(t) /\ unsettled'[t].height = unsettled[t].height
    BY <2>1, SameAll
  <2>3. TimedIn(timeouts, t) \/ t \in Waiting
    BY <1>1, <1>3, <2>1, <2>2, WaitBefore
  <2>4. HasWindow(t)
    BY <1>1, <1>3, <2>1, <2>2, HasWindowBefore DEF PlainState
  <2>5. TimedIn(timeouts', t) \/ t \in Waiting'
    BY <2>1, <2>3, <2>4
  <2> QED
    BY <2>5, TimedDef
<1>4. ASSUME NEW t \in DOMAIN unsettled', (Outcome(t).outcome = "Success")' PROVE t \in todo'
  <2>1. is_next_to_settle(unsettled, order, t) /\ t \in DOMAIN unsettled
    BY <1>4, SuccessNext
  <2>2. SameNames(t)
    BY <2>1, SameAll DEF PlainState
  <2>3. Outcome(t).outcome = "Success" /\ t \in todo
    BY <1>4, <2>1, <2>2, TriedBefore
  <2> QED
    BY <2>3
<1> QED
  BY <1>2, <1>3, <1>4, NextWaitNext, TriedNext

LEMMA PStutterOK == ASSUME PInv, UNCHANGED vars PROVE PInv'
<1>0. UNCHANGED <<batch, height, contracts, unsettled, order, timeouts, todo, unsettlable, expiring>>
  BY DEF vars
<1>1. BInv' /\ Typed
  BY BStepOK DEF PInv, BInv, IInv
<1>2. SUFFICES ASSUME Plain' PROVE PlainState' /\ NextWait' /\ SuccessesTried'
  BY <1>0, <1>1 DEF PInv
<1>3. Plain /\ PlainState /\ NextWait /\ SuccessesTried
  BY <1>0, <1>2, PlainNext DEF PInv
<1>4. Waiting' = Waiting
  BY <1>0 DEF Waiting, Elements
<1> QED
  BY <1>0, <1>1, <1>3, <1>4, PQuiet

LEMMA PResetTimeoutOK == ASSUME PInv, ResetTimeout PROVE PInv'
<1> DEFINE t == Min(unsettlable)
<1>0. /\ UNCHANGED <<batch, height, contracts, unsettled, order, todo, expiring>>
      /\ unsettlable # {} /\ unsettlable' = unsettlable \ {t}
      /\ timeouts' = IF is_next_to_settle(unsettled, order, t)
                     THEN set(timeouts, t, get_tx_timeout_window(contracts, t, Retained(t)))
                     ELSE timeouts
  BY DEF ResetTimeout, TimeoutsAfter
<1>1. BInv' /\ Typed
  BY BStepOK DEF PInv, BInv, IInv, Next, Loop
<1>2. SUFFICES ASSUME Plain' PROVE PlainState' /\ NextWait' /\ SuccessesTried'
  BY <1>0, <1>1 DEF PInv
<1>3. Plain /\ PlainState /\ NextWait /\ SuccessesTried /\ height <= MaxHeight
  BY <1>0, <1>2, PlainNext DEF PInv
<1>4. t \in Txs
  BY <1>0, <1>1, MinOK, ConstantsAssumption DEF Typed
<1> HIDE DEF t
<1>5. \A u : TimedIn(timeouts, u) => TimedIn(timeouts', u)
  BY <1>0, <1>1, <1>4, SetKeeps
<1>6. ASSUME NEW u \in DOMAIN unsettled, is_next_to_settle(unsettled, order, u), HasWindow(u),
             u \in Waiting
      PROVE  TimedIn(timeouts', u) \/ u \in Waiting'
  <2>1. CASE u = t
    <3> DEFINE w == get_tx_timeout_window(contracts, t, Retained(t))
    <3>1. w > 0
      BY <1>6, <2>1 DEF HasWindow
    <3>2. w \in 1 .. MaxWindow
      BY <1>3, <3>1, WindowOK DEF PlainState
    <3>3. timeouts' = set(timeouts, t, w)
      BY <1>0, <1>6, <2>1
    <3> HIDE DEF w
    <3>4. TimedIn(timeouts', t)
      BY <1>1, <1>3, <1>4, <3>2, <3>3, SetTimes
    <3> QED
      BY <2>1, <3>4
  <2>2. CASE u # t
    BY <1>0, <1>6, <2>2 DEF Waiting, Elements
  <2> QED
    BY <2>1, <2>2
<1> QED
  BY <1>0, <1>1, <1>3, <1>5, <1>6, PQuiet

\* The timeout set at arrival.
LEMMA ArrivalTimed ==
    ASSUME Typed, batch' = batch, height' = height, contracts' = contracts,
           height <= MaxHeight, Windows(contracts), NEW t \in DOMAIN Sent.blobs,
           Registered(t), handle_blob_tx(t), is_next_to_settle(unsettled', order', t), HasWindow(t)'
    PROVE  TimedIn(timeouts', t)
<1> DEFINE w == get_tx_timeout_window(contracts, t, DOMAIN Sent.blobs[t])
<1>1. Sent' = Sent
  BY DEF Sent
<1>2. get_tx_timeout_window(contracts, t, DOMAIN Sent.blobs[t])' > 0
  BY DEF HasWindow
<1>3. get_tx_timeout_window(contracts, t, DOMAIN Sent.blobs[t])' = w
  <2>1. PICK I : I = DOMAIN Sent.blobs[t]
    OBVIOUS
  <2>2. I = (DOMAIN Sent.blobs[t])'
    BY <1>1, <2>1
  <2>3. get_tx_timeout_window(contracts, t, I)' = get_tx_timeout_window(contracts, t, I)
    <3>1. \A i \in I : Blob(t, i).contract \in DOMAIN contracts
      BY <2>1 DEF Registered, AllContracts
    <3> QED
      BY <3>1, WindowNext
  <2>4. get_tx_timeout_window(contracts, t, DOMAIN Sent.blobs[t])' =
          get_tx_timeout_window(contracts, t, I)'
    BY <2>2 DEF get_tx_timeout_window
  <2> QED
    BY <2>1, <2>3, <2>4
<1>4. w \in 1 .. MaxWindow
  BY <1>2, <1>3, WindowOK
<1>5. timeouts' = IF is_next_to_settle(unsettled', order', t) THEN set(timeouts, t, w) ELSE timeouts
  BY DEF handle_blob_tx
<1>6. t \in Txs
  BY SentTxs
<1> HIDE DEF w
<1>7. TimedIn(set(timeouts, t, w), t)
  BY <1>4, <1>6, SetTimes
<1> QED
  BY <1>5, <1>7

\* A plain transaction that is next when it arrives meets empty queues.
LEMMA ArrivalFirst ==
    ASSUME Plain, IInv, NEW t \in DOMAIN Sent.blobs, t \notin DOMAIN unsettled, NEW m,
           is_next_to_settle(m, Enqueued(order, t, arrivals), t)
    PROVE  \A c \in get_contracts_blocked_by_tx(t) : order[c] = {}
<1> DEFINE q == Enqueued(order, t, arrivals)
           new == [nb |-> arrivals, tx |-> t]
<1>0. CoherentWith(unsettled, order) /\ batch \in DOMAIN Batches /\ arrivals \in Nat
  BY CoherentDef DEF IInv, Typed
<1>1. ASSUME NEW c \in BlobContracts(t) PROVE order[c] = {}
  <2>1. c \in Names /\ c \in get_contracts_blocked_by_tx(t)
    BY <1>0, BlobContractsOK
  <2>2. q[c] = order[c] \cup {new} /\ Front(q[c]) = {t}
    BY <2>1 DEF Enqueued, is_next_to_settle
  <2>3. \A e \in order[c] : e.nb \in Nat /\ e.nb < arrivals /\ e.tx # t
    BY <1>0, <2>1, EntryOK DEF IInv, Typed
  <2>4. new.nb = arrivals
    OBVIOUS
  <2> HIDE DEF q, new
  <2>5. SUFFICES ASSUME order[c] # {} PROVE FALSE
    OBVIOUS
  <2> DEFINE S == {e.nb : e \in order[c]}
  <2>6. S \in SUBSET Nat /\ S # {}
    BY <2>3, <2>5
  <2>7. PICK x \in S : \A y \in S : x <= y
    <3> HIDE DEF S
    <3> QED
      BY <2>6, LeastElement
  <2>8. PICK e \in order[c] : e.nb = x
    OBVIOUS
  <2>9. \A f \in q[c] : e.nb <= f.nb
    BY <1>0, <2>2, <2>3, <2>4, <2>7, <2>8
  <2>10. e.tx \in Front(q[c])
    BY <2>2, <2>8, <2>9 DEF Front
  <2> QED
    BY <2>2, <2>3, <2>8, <2>10
<1>2. ASSUME NEW c \in get_contracts_blocked_by_tx(t), c \notin BlobContracts(t)
      PROVE  order[c] = {}
  <2>1. "hyle" \in BlobContracts(t) /\ \A u \in DOMAIN Sent.blobs : c \notin AllContracts(u)
    BY <1>2, BlockedOK
  <2>2. order["hyle"] = {}
    BY <1>1, <2>1
  <2>3. c \in Names /\ "hyle" \in Names
    <3>1. Sent.blobs[t] \in Seq(BlobType)
      BY <1>0, BatchesAssumption DEF Sent
    <3>2. \A i \in Retained(t) : Blob(t, i) \in BlobType
      BY <3>1 DEF Retained, Blob
    <3>3. \A i \in Retained(t) : Blob(t, i).action.name \in Names
      BY <3>2 DEF BlobType, ActionType
    <3> QED
      BY <1>2, <3>3, ConstantsAssumption DEF get_contracts_blocked_by_tx
  <2>4. ASSUME NEW e \in order[c] PROVE FALSE
    <3>1. PICK v \in DOMAIN unsettled : c \in get_contracts_blocked_by_tx(v)
      BY <1>0, <2>3, <2>4 DEF CoherentWith, Entries
    <3>2. v \in DOMAIN Sent.blobs
      BY DEF IInv, Typed
    <3>3. c \notin BlobContracts(v)
      BY <2>1, <3>2, BlobContractsAll
    <3>4. "hyle" \in BlobContracts(v)
      BY <3>1, <3>2, <3>3, BlockedOK
    <3>5. "hyle" \in get_contracts_blocked_by_tx(v)
      BY <3>4 DEF get_contracts_blocked_by_tx
    <3>6. [nb |-> unsettled[v].nb, tx |-> v] \in order["hyle"]
      BY <1>0, <2>3, <3>5 DEF CoherentWith, Entries
    <3> QED
      BY <2>2, <3>6
  <2> QED
    BY <2>4
<1> QED
  BY <1>1, <1>2

\* What is kept of an arrival.
LEMMA ArrivalPlain ==
    ASSUME Typed, NEW t \in DOMAIN Sent.blobs,
           unsettled' = [u \in DOMAIN unsettled \cup {t} |->
                           IF u = t THEN UnsettledTx(t) ELSE unsettled[u]],
           PlainlyProved(unsettled), NativesFail(unsettled)
    PROVE  /\ unsettled'[t].height = height /\ t \in DOMAIN unsettled'
           /\ \A u \in DOMAIN unsettled' \ {t} : u \in DOMAIN unsettled /\ unsettled'[u] = unsettled[u]
           /\ \A i \in Retained(t) : Blob(t, i).contract \notin Native => unsettled'[t].proofs[i] = <<>>
           /\ PlainlyProved(unsettled') /\ NativesFail(unsettled')
<1>1. /\ UnsettledTx(t).height = height
      /\ UnsettledTx(t).proofs = [i \in Retained(t) |->
                                    IF Blob(t, i).contract \in Native THEN <<NativeProof(t, i)>>
                                    ELSE <<>>]
  BY DEF UnsettledTx
<1>2. PICK p : p = UnsettledTx(t).proofs
  OBVIOUS
<1>3. \A i \in Retained(t) :
        p[i] = IF Blob(t, i).contract \in Native THEN <<NativeProof(t, i)>> ELSE <<>>
  BY <1>1, <1>2
<1>4. /\ t \in DOMAIN unsettled' /\ unsettled'[t].height = height /\ unsettled'[t].proofs = p
      /\ \A u \in DOMAIN unsettled' \ {t} : u \in DOMAIN unsettled /\ unsettled'[u] = unsettled[u]
  BY <1>1, <1>2
<1>5. ASSUME NEW i \in Retained(t)
      PROVE  PlainProofs(p[i]) /\ (Blob(t, i).contract \in Native => 1 \in DOMAIN p[i] /\ ~p[i][1].success)
  <2>1. PICK o : o = NativeProof(t, i)
    OBVIOUS
  <2>2. o.reads = {} /\ o.effects = <<>> /\ o.success = FALSE
    BY <2>1 DEF NativeProof
  <2>3. PlainProofs(<<o>>) /\ PlainProofs(<<>>) /\ 1 \in DOMAIN <<o>> /\ <<o>>[1] = o
    BY <2>2 DEF PlainProofs
  <2> QED
    BY <1>3, <2>1, <2>2, <2>3
<1>6. PlainlyProved(unsettled') /\ NativesFail(unsettled')
  <2>1. ASSUME NEW u \in DOMAIN unsettled', NEW i \in Retained(u)
        PROVE  /\ PlainProofs(unsettled'[u].proofs[i])
               /\ Blob(u, i).contract \in Native =>
                    1 \in DOMAIN unsettled'[u].proofs[i] /\ ~unsettled'[u].proofs[i][1].success
    <3>1. CASE u = t
      BY <1>4, <1>5, <2>1, <3>1
    <3>2. CASE u # t
      BY <1>4, <3>2 DEF PlainlyProved, NativesFail
    <3> QED
      BY <3>1, <3>2
  <2> QED
    BY <2>1 DEF PlainlyProved, NativesFail
<1> QED
  BY <1>3, <1>4, <1>6

LEMMA PArrivalOK ==
    ASSUME BInv, BInv', height <= MaxHeight, Plain, PlainState, NextWait, SuccessesTried, Ready,
           NEW t \in DOMAIN Sent.blobs, t \notin DOMAIN unsettled, ~Refused(t), handle_blob_tx(t),
           UNCHANGED <<batch, height, contracts, expiring, unsettlable>>
    PROVE  PlainState' /\ NextWait' /\ SuccessesTried'
<1>0. /\ unsettled' = [u \in DOMAIN unsettled \cup {t} |->
                         IF u = t THEN UnsettledTx(t) ELSE unsettled[u]]
      /\ order' = Enqueued(order, t, arrivals)
      /\ todo' = IF /\ \A c \in get_contracts_blocked_by_tx(t) : order[c] = {}
                    /\ \A i \in DOMAIN Sent.blobs[t] : Blob(t, i).contract \in Native \cup {"hyle"}
                 THEN {t} ELSE {}
      /\ \E w : timeouts' = set(timeouts, t, w) \/ timeouts' = timeouts
  BY DEF handle_blob_tx
<1>1. IInv /\ Typed /\ height \in Nat /\ height' \in Nat /\ height <= height'
  BY DEF BInv, IInv, Typed
<1>2. PlainlyProved(unsettled) /\ NativesFail(unsettled) /\ Windows(contracts)
  BY DEF PlainState
<1>3. /\ unsettled'[t].height = height /\ t \in DOMAIN unsettled'
      /\ \A u \in DOMAIN unsettled' \ {t} : u \in DOMAIN unsettled /\ unsettled'[u] = unsettled[u]
      /\ \A i \in Retained(t) : Blob(t, i).contract \notin Native => unsettled'[t].proofs[i] = <<>>
      /\ PlainlyProved(unsettled') /\ NativesFail(unsettled')
  BY <1>0, <1>1, <1>2, ArrivalPlain
<1>4. Registered(t)
  BY DEF Refused, Registered, AllContracts
<1>5. PlainState'
  <2>1. \A u \in DOMAIN unsettled' :
          \/ u \in DOMAIN unsettled /\ unsettled'[u].height = unsettled[u].height
          \/ unsettled'[u].height = height' /\ AllContracts(u) \subseteq DOMAIN contracts
    BY <1>3, <1>4 DEF Registered
  <2> QED
    BY <1>1, <1>2, <1>3, <2>1, KeptState
<1>6. Waiting = {}
  BY DEF Ready, Waiting, Elements
<1>7. \A u \in DOMAIN unsettled' \ {t} :
        is_next_to_settle(unsettled', order', u) => is_next_to_settle(unsettled, order, u)
  BY <1>0, <1>1, <1>3, NextBefore
<1>8. ASSUME NEW u \in DOMAIN unsettled', is_next_to_settle(unsettled', order', u), HasWindow(u)'
      PROVE  TimedIn(timeouts, u)' \/ u \in Waiting'
  <2>1. CASE u = t
    <3>1. TimedIn(timeouts', t)
      BY <1>1, <1>2, <1>4, <1>8, <2>1, ArrivalTimed
    <3> QED
      BY <2>1, <3>1, TimedDef
  <2>2. CASE u # t
    <3>1. u \in DOMAIN unsettled /\ unsettled'[u] = unsettled[u] /\ is_next_to_settle(unsettled, order, u)
      BY <1>3, <1>7, <1>8, <2>2
    <3>2. SameContracts(u)
      BY <3>1, SameAll DEF PlainState
    <3>3. TimedIn(timeouts, u)
      BY <1>1, <1>6, <1>8, <3>1, <3>2, WaitBefore
    <3>4. t \in Txs
      BY <1>1, SentTxs
    <3>5. TimedIn(timeouts', u)
      BY <1>0, <1>1, <3>3, <3>4, SetKeeps
    <3> QED
      BY <3>5, TimedDef
  <2> QED
    BY <2>1, <2>2
<1>9. ASSUME NEW u \in DOMAIN unsettled', (Outcome(u).outcome = "Success")' PROVE u \in todo'
  <2>1. is_next_to_settle(unsettled', order', u)
    BY <1>9, SuccessNext
  <2>2. CASE u # t
    <3>1. u \in DOMAIN unsettled /\ unsettled'[u] = unsettled[u] /\ is_next_to_settle(unsettled, order, u)
      BY <1>3, <1>7, <1>9, <2>1, <2>2
    <3>2. SameNames(u)
      BY <3>1, SameAll DEF PlainState
    <3>3. u \in todo
      BY <1>1, <1>9, <3>1, <3>2, TriedBefore
    <3> QED
      BY <3>3 DEF Ready
  <2>3. CASE u = t
    <3>1. \A i : Retained(t)' = Retained(t) /\ Blob(t, i)' = Blob(t, i)
      BY DEF Retained, Blob, Sent
    <3>2. \A i \in Retained(t)' :
            Blob(t, i)'.contract \notin Native => unsettled'[t].proofs[i] = <<>>
      BY <1>3, <3>1
    <3>3. /\ Typed' /\ ContractsTyped' /\ ProofsTyped(unsettled)' /\ NativesFail(unsettled)'
      BY <1>5 DEF BInv, IInv, PlainState
    <3>4. \A i \in Retained(t)' : Blob(t, i)'.contract = "hyle"
      BY <1>9, <2>3, <3>2, <3>3, HyleOnlyNext
    <3>5. \A i \in DOMAIN Sent.blobs[t] : Blob(t, i).contract \in Native \cup {"hyle"}
      BY <3>1, <3>4 DEF Retained
    <3>6. \A c \in get_contracts_blocked_by_tx(t) : order[c] = {}
      BY <1>0, <1>1, <2>1, <2>3, ArrivalFirst
    <3> QED
      BY <1>0, <2>3, <3>5, <3>6
  <2> QED
    BY <2>2, <2>3
<1> QED
  BY <1>5, <1>8, <1>9, NextWaitNext, TriedNext

LEMMA PBlobTxOK == ASSUME PInv, BlobTx PROVE PInv'
<1>0. Ready /\ UNCHANGED <<batch, height, contracts, expiring, unsettlable>>
  BY DEF BlobTx
<1>1. BInv' /\ Typed
  BY BBlobTxOK DEF PInv, BInv, IInv
<1>2. SUFFICES ASSUME Plain' PROVE PlainState' /\ NextWait' /\ SuccessesTried'
  BY <1>0, <1>1 DEF PInv
<1>3. Plain /\ PlainState /\ NextWait /\ SuccessesTried /\ BInv /\ height <= MaxHeight
  BY <1>0, <1>2, PlainNext DEF PInv
<1>4. PICK t \in DOMAIN Sent.blobs :
        IF Refused(t)
        THEN /\ block' = [block EXCEPT !.failed = @ \cup {t}]
             /\ UNCHANGED <<unsettled, order, arrivals, timeouts, todo>>
        ELSE t \notin DOMAIN unsettled /\ arrivals < MaxArrivals /\ handle_blob_tx(t)
  BY DEF BlobTx
<1>5. CASE Refused(t)
  <2>1. UNCHANGED <<unsettled, order, timeouts, todo>>
    BY <1>4, <1>5
  <2>2. Waiting' = Waiting
    BY <1>0, <2>1 DEF Waiting, Elements
  <2> QED
    BY <1>0, <1>1, <1>3, <2>1, <2>2, PQuiet
<1>6. CASE ~Refused(t)
  BY <1>0, <1>1, <1>3, <1>4, <1>6, PArrivalOK
<1> QED
  BY <1>5, <1>6

\* Pushing proofs keeps the others, and changes those of the transactions they are of.
LEMMA PushedPlain ==
    ASSUME NEW m, ProofsTyped(m), PlainlyProved(m), NativesFail(m),
           NEW ps \in Seq(ProofType), PlainProofs(ps)
    PROVE  /\ \A t \in DOMAIN m : Pushed(m, ps)[t].height = m[t].height
           /\ PlainlyProved(Pushed(m, ps)) /\ NativesFail(Pushed(m, ps))
           /\ \A t \in DOMAIN m : (\A k \in DOMAIN ps : ps[k].tx # t) =>
                Pushed(m, ps)[t].proofs = m[t].proofs
<1> DEFINE I(t, i) == {k \in DOMAIN ps : ps[k].tx = t /\ ps[k].index = i}
           S(t, i) == Selected(ps, I(t, i))
           n == Pushed(m, ps)
<1>1. /\ DOMAIN n = DOMAIN m
      /\ \A t \in DOMAIN m : n[t].height = m[t].height
      /\ \A t \in DOMAIN m : n[t].proofs = [i \in DOMAIN m[t].proofs |-> m[t].proofs[i] \o S(t, i)]
  BY DEF Pushed
<1>2. \A t, i : I(t, i) \in SUBSET DOMAIN ps
  OBVIOUS
<1> HIDE DEF n
<1>3. ASSUME NEW t \in DOMAIN m, NEW i \in Retained(t)
      PROVE  /\ n[t].proofs[i] = m[t].proofs[i] \o S(t, i)
             /\ m[t].proofs[i] \in Seq(ProofType) /\ S(t, i) \in Seq(ProofType)
             /\ Elements(S(t, i)) = {ps[k] : k \in I(t, i)}
  <2>1. m[t].proofs \in [Retained(t) -> Seq(ProofType)]
    BY DEF ProofsTyped
  <2>2. S(t, i) \in Seq(ProofType) /\ Elements(S(t, i)) = {ps[k] : k \in I(t, i)}
    <3> HIDE DEF I
    <3> QED
      BY <1>2, SelectedElements
  <2> HIDE DEF S
  <2> QED
    BY <1>1, <2>1, <2>2
<1>4. ASSUME NEW t \in DOMAIN m, NEW i \in Retained(t)
      PROVE  /\ PlainProofs(n[t].proofs[i])
             /\ Blob(t, i).contract \in Native => 1 \in DOMAIN n[t].proofs[i] /\ ~n[t].proofs[i][1].success
  <2>1. PICK a : a = m[t].proofs[i]
    OBVIOUS
  <2>2. PICK b : b = S(t, i)
    OBVIOUS
  <2>3. /\ n[t].proofs[i] = a \o b /\ a \in Seq(ProofType) /\ b \in Seq(ProofType)
        /\ Elements(b) = {ps[k] : k \in I(t, i)}
    BY <1>3, <2>1, <2>2
  <2>4. PlainProofs(a) /\ (Blob(t, i).contract \in Native => 1 \in DOMAIN a /\ ~a[1].success)
    BY <2>1 DEF PlainlyProved, NativesFail
  <2>5. \A k \in DOMAIN b : b[k].reads = {} /\ b[k].effects = <<>>
    <3> SUFFICES ASSUME NEW k \in DOMAIN b PROVE b[k].reads = {} /\ b[k].effects = <<>>
      OBVIOUS
    <3>1. b[k] \in Elements(b)
      BY DEF Elements
    <3>2. PICK j \in I(t, i) : b[k] = ps[j]
      BY <2>3, <3>1
    <3> QED
      BY <1>2, <3>2 DEF PlainProofs
  <2>6. PlainProofs(a \o b)
    <3>1. ASSUME NEW k \in DOMAIN (a \o b)
          PROVE  (\E j \in DOMAIN a : (a \o b)[k] = a[j]) \/ (\E j \in DOMAIN b : (a \o b)[k] = b[j])
      <4>1. CASE k \in DOMAIN a
        BY <2>3, <4>1
      <4>2. CASE k \notin DOMAIN a
        <5>1. k - Len(a) \in DOMAIN b /\ (a \o b)[k] = b[k - Len(a)]
          BY <2>3, <4>2
        <5> QED
          BY <5>1
      <4> QED
        BY <4>1, <4>2
    <3> QED
      BY <2>4, <2>5, <3>1 DEF PlainProofs
  <2>7. 1 \in DOMAIN a => 1 \in DOMAIN (a \o b) /\ (a \o b)[1] = a[1]
    BY <2>3
  <2> QED
    BY <2>3, <2>4, <2>6, <2>7
<1>5. PlainlyProved(n) /\ NativesFail(n)
  BY <1>1, <1>4 DEF PlainlyProved, NativesFail
<1>6. ASSUME NEW t \in DOMAIN m, \A k \in DOMAIN ps : ps[k].tx # t
      PROVE  n[t].proofs = m[t].proofs
  <2>1. m[t].proofs \in [Retained(t) -> Seq(ProofType)]
    BY DEF ProofsTyped
  <2>2. PICK f \in [Retained(t) -> Seq(ProofType)] : f = m[t].proofs
    BY <2>1
  <2>3. ASSUME NEW i \in Retained(t) PROVE f[i] \o S(t, i) = f[i]
    <3>1. I(t, i) = {}
      BY <1>6
    <3>2. S(t, i) \in Seq(ProofType) /\ Elements(S(t, i)) = {}
      <4>1. {ps[k] : k \in I(t, i)} = {}
        BY <3>1
      <4> HIDE DEF I, S
      <4> QED
        BY <1>3, <4>1
    <3> HIDE DEF S, I
    <3>3. S(t, i) = <<>>
      <4>1. PICK s \in Seq(ProofType) : s = S(t, i)
        BY <3>2
      <4>2. \A k \in DOMAIN s : s[k] \in Elements(s)
        BY DEF Elements
      <4>3. DOMAIN s = {}
        BY <3>2, <4>1, <4>2
      <4>4. s = <<>>
        BY <4>3
      <4> QED
        BY <4>1, <4>4
    <3>4. \A s \in Seq(ProofType) : s \o <<>> = s
      OBVIOUS
    <3>5. f[i] \in Seq(ProofType)
      BY <2>2
    <3> QED
      BY <3>3, <3>4, <3>5
  <2>4. n[t].proofs = [i \in Retained(t) |-> f[i] \o S(t, i)]
    BY <1>1, <2>2
  <2> HIDE DEF S
  <2> QED
    BY <2>2, <2>3, <2>4
<1> QED
  BY <1>1, <1>5, <1>6 DEF n

\* What is selected of plain proofs is plain.
LEMMA SelectedPlain ==
    ASSUME NEW ps \in Seq(ProofType), PlainProofs(ps), NEW I \in SUBSET DOMAIN ps
    PROVE  Selected(ps, I) \in Seq(ProofType) /\ PlainProofs(Selected(ps, I))
<1>1. PICK s : s = Selected(ps, I)
  OBVIOUS
<1>2. s \in Seq(ProofType) /\ Elements(s) = {ps[k] : k \in I}
  BY <1>1, SelectedElements
<1>3. ASSUME NEW k \in DOMAIN s PROVE s[k].reads = {} /\ s[k].effects = <<>>
  <2>1. s[k] \in Elements(s)
    BY DEF Elements
  <2>2. PICK j \in I : s[k] = ps[j]
    BY <1>2, <2>1
  <2> QED
    BY <2>2 DEF PlainProofs
<1> QED
  BY <1>1, <1>2, <1>3 DEF PlainProofs

LEMMA PProofTxOK == ASSUME PInv, ProofTx PROVE PInv'
<1>0. /\ Ready
      /\ UNCHANGED <<batch, height, contracts, order, timeouts, expiring, unsettlable>>
  BY DEF ProofTx
<1>1. BInv' /\ Typed /\ height \in Nat /\ ProofsTyped(unsettled)
  BY BProofTxOK DEF PInv, BInv, IInv, Typed
<1>2. SUFFICES ASSUME Plain' PROVE PlainState' /\ NextWait' /\ SuccessesTried'
  BY <1>0, <1>1 DEF PInv
<1>3. Plain /\ PlainState /\ NextWait /\ SuccessesTried
  BY <1>0, <1>2, PlainNext DEF PInv
<1>4. PICK ps \in Sent.proofs :
        LET accepted == Selected(ps, {k \in DOMAIN ps : Accepted(ps[k])})
        IN  /\ unsettled' = Pushed(unsettled, accepted)
            /\ todo' = {t \in {accepted[k].tx : k \in DOMAIN accepted} :
                          is_next_to_settle(unsettled, order, t)}
  BY DEF ProofTx
<1>5. ps \in Seq(ProofType) /\ PlainProofs(ps)
  BY <1>1, <1>3, BatchesAssumption DEF Typed, Sent, Plain
<1>6. PICK acc : acc = Selected(ps, {k \in DOMAIN ps : Accepted(ps[k])})
  OBVIOUS
<1>7. acc \in Seq(ProofType) /\ PlainProofs(acc)
  BY <1>5, <1>6, SelectedPlain
<1>8. /\ unsettled' = Pushed(unsettled, acc)
      /\ todo' = {t \in {acc[k].tx : k \in DOMAIN acc} : is_next_to_settle(unsettled, order, t)}
  BY <1>4, <1>6
<1>9. /\ DOMAIN unsettled' = DOMAIN unsettled
      /\ \A t \in DOMAIN unsettled : unsettled'[t].height = unsettled[t].height
      /\ PlainlyProved(unsettled') /\ NativesFail(unsettled')
      /\ \A t \in DOMAIN unsettled : (\A k \in DOMAIN acc : acc[k].tx # t) =>
           unsettled'[t].proofs = unsettled[t].proofs
  BY <1>1, <1>3, <1>7, <1>8, PushedOK, PushedPlain DEF PlainState
<1>10. PlainState'
  BY <1>0, <1>1, <1>3, <1>9, KeptState DEF PlainState
<1>11. Waiting = {} /\ todo = {}
  BY <1>0 DEF Ready, Waiting, Elements
<1>12. ASSUME NEW t \in DOMAIN unsettled', is_next_to_settle(unsettled', order', t)
       PROVE  /\ t \in DOMAIN unsettled /\ is_next_to_settle(unsettled, order, t)
              /\ SameContracts(t) /\ SameNames(t)
  <2>1. t \in DOMAIN unsettled /\ is_next_to_settle(unsettled, order, t)
    BY <1>0, <1>9, <1>12 DEF is_next_to_settle
  <2> QED
    BY <1>0, <1>3, <2>1, SameAll DEF PlainState
<1>13. ASSUME NEW t \in DOMAIN unsettled', is_next_to_settle(unsettled', order', t), HasWindow(t)'
       PROVE  TimedIn(timeouts, t)' \/ t \in Waiting'
  <2>1. TimedIn(timeouts, t)
    BY <1>0, <1>1, <1>3, <1>9, <1>11, <1>12, <1>13, WaitBefore
  <2> QED
    BY <1>0, <2>1, TimedDef
<1>14. ASSUME NEW t \in DOMAIN unsettled', (Outcome(t).outcome = "Success")' PROVE t \in todo'
  <2>1. is_next_to_settle(unsettled', order', t)
    BY <1>0, <1>14, SuccessNext
  <2>2. /\ t \in DOMAIN unsettled /\ is_next_to_settle(unsettled, order, t) /\ SameNames(t)
    BY <1>12, <2>1
  <2>3. CASE \E k \in DOMAIN acc : acc[k].tx = t
    BY <1>8, <2>2, <2>3
  <2>4. CASE \A k \in DOMAIN acc : acc[k].tx # t
    <3>1. t \in todo
      BY <1>0, <1>1, <1>3, <1>9, <1>14, <2>2, <2>4, TriedBefore
    <3> QED
      BY <1>11, <3>1
  <2> QED
    BY <2>3, <2>4
<1> QED
  BY <1>0, <1>10, <1>13, <1>14, NextWaitNext, TriedNext

\* A transaction leaves, without an effect on contracts; those behind it are tried.
LEMMA PLeaves ==
    ASSUME Plain, Typed, PlainState, NextWait, SuccessesTried,
           UNCHANGED <<batch, height, contracts, timeouts>>, NEW t \in DOMAIN unsettled,
           unsettled' = Without(unsettled, {t}), order' = Dequeued(order, {t}),
           NextTxs(Dequeued(order, {t}), t) \subseteq todo',
           todo \ {t} \subseteq todo', Waiting \ {t} \subseteq Waiting'
    PROVE  PlainState' /\ NextWait' /\ SuccessesTried'
<1>0. height \in Nat /\ height' \in Nat /\ height <= height'
  BY DEF Typed
<1>1. /\ DOMAIN unsettled' = DOMAIN unsettled \ {t}
      /\ \A u \in DOMAIN unsettled' : unsettled'[u] = unsettled[u]
  BY DEF Without
<1>2. PlainlyProved(unsettled') /\ NativesFail(unsettled')
  BY <1>1, FewerPlain DEF PlainState
<1>3. PlainState'
  BY <1>0, <1>1, <1>2, KeptState DEF PlainState
<1>4. ASSUME NEW u \in DOMAIN unsettled', is_next_to_settle(unsettled', order', u), u \notin todo'
      PROVE  /\ is_next_to_settle(unsettled, order, u) /\ SameContracts(u) /\ SameNames(u)
             /\ u \in DOMAIN unsettled /\ u # t
  <2>1. u \in DOMAIN unsettled /\ u # t
    BY <1>1
  <2>2. u \notin NextTxs(Dequeued(order, {t}), t)
    BY <1>4
  <2>3. is_next_to_settle(unsettled, order, u)
    BY <1>4, <2>1, <2>2, NextFresh
  <2> QED
    BY <2>1, <2>3, SameAll DEF PlainState
<1>5. ASSUME NEW u \in DOMAIN unsettled', is_next_to_settle(unsettled', order', u), HasWindow(u)'
      PROVE  TimedIn(timeouts, u)' \/ u \in Waiting'
  <2>1. CASE u \in todo'
    BY <2>1 DEF Waiting
  <2>2. CASE u \notin todo'
    <3>1. TimedIn(timeouts, u) \/ u \in Waiting
      BY <1>0, <1>1, <1>4, <1>5, <2>2, WaitBefore
    <3>2. u # t
      BY <1>4, <1>5, <2>2
    <3> QED
      BY <3>1, <3>2, TimedDef
  <2> QED
    BY <2>1, <2>2
<1>6. ASSUME NEW u \in DOMAIN unsettled', (Outcome(u).outcome = "Success")' PROVE u \in todo'
  <2>1. SUFFICES ASSUME u \notin todo' PROVE FALSE
    OBVIOUS
  <2>2. is_next_to_settle(unsettled', order', u)
    BY <1>6, SuccessNext
  <2>3. u \in todo /\ u # t
    BY <1>1, <1>4, <1>6, <2>1, <2>2, TriedBefore
  <2> QED
    BY <2>1, <2>3
<1> QED
  BY <1>3, <1>5, <1>6, NextWaitNext, TriedNext

LEMMA PClearTimeoutOK == ASSUME PInv, ClearTimeout PROVE PInv'
<1> DEFINE t == Head(expiring)
<1>0. /\ UNCHANGED <<batch, height, contracts, timeouts, unsettlable>>
      /\ todo = {} /\ expiring # <<>> /\ expiring' = Tail(expiring)
  BY DEF ClearTimeout
<1>1. BInv' /\ Typed /\ height \in Nat
  BY BClearTimeoutOK DEF PInv, BInv, IInv, Typed
<1>2. SUFFICES ASSUME Plain' PROVE PlainState' /\ NextWait' /\ SuccessesTried'
  BY <1>0, <1>1 DEF PInv
<1>3. Plain /\ PlainState /\ NextWait /\ SuccessesTried
  BY <1>0, <1>2, PlainNext DEF PInv
<1>4. Elements(expiring) \ {t} \subseteq Elements(expiring')
  <2> SUFFICES ASSUME NEW k \in DOMAIN expiring, expiring[k] # t
               PROVE  expiring[k] \in Elements(expiring')
    BY DEF Elements
  <2>1. expiring \in Seq(Txs)
    BY <1>1 DEF Typed
  <2>2. k # 1
    BY <1>0, <2>1
  <2>3. k - 1 \in DOMAIN expiring' /\ expiring'[k - 1] = expiring[k]
    BY <1>0, <2>1, <2>2
  <2> QED
    BY <2>3 DEF Elements
<1>5. Waiting \ {t} \subseteq Waiting'
  BY <1>0, <1>4 DEF Waiting
<1>6. CASE t \in DOMAIN unsettled
  <2>1. /\ unsettled' = Without(unsettled, {t}) /\ order' = Dequeued(order, {t})
        /\ todo' = NextTxs(Dequeued(order, {t}), t)
    BY <1>6 DEF ClearTimeout
  <2> HIDE DEF t
  <2> QED
    BY <1>0, <1>1, <1>3, <1>5, <1>6, <2>1, PLeaves
<1>7. CASE t \notin DOMAIN unsettled
  <2>1. UNCHANGED <<unsettled, order, todo>>
    BY <1>7 DEF ClearTimeout
  <2> HIDE DEF t
  <2>2. \A u \in DOMAIN unsettled : u \in Waiting => u \in Waiting'
    BY <1>5, <1>7
  <2> QED
    BY <1>0, <1>1, <1>3, <2>1, <2>2, PQuiet
<1> QED
  BY <1>6, <1>7

LEMMA MaxOK ==
    ASSUME NEW N \in Nat, NEW S \in SUBSET (0 .. N), S # {}
    PROVE  Max(S) \in S
<1>1. \E n \in S : \A m \in S : m <= n
  BY GreatestElement
<1> QED
  BY <1>1 DEF Max

\* What a plain transaction forces is plain, and of transactions that are then tried.
LEMMA ForgedPlain ==
    ASSUME Plain, Typed, NEW t \in DOMAIN unsettled, NEW m, NEW C
    PROVE  /\ PlainProofs(Forged(m, C, t))
           /\ \A k \in DOMAIN Forged(m, C, t) : Forged(m, C, t)[k].tx \in ForcedTxs(m, C, t)
<1> DEFINE outputs == NukeOutputs(t)
           I == {k \in DOMAIN outputs : Hits(m, C, outputs[k])}
           hit == Selected(outputs, I)
           contract(o) == C[Blob(o.tx, o.index).contract]
           fitted(o, x) == IF o.success THEN x ELSE contract(o).state
           forged(o) == [o EXCEPT !.prog = contract(o).prog,
                                  !.init = fitted(o, o.init), !.next = fitted(o, o.next)]
<1>1. outputs \in Seq(ProofType)
  BY NukeOutputsOK
<1>2. PlainProofs(outputs)
  <2> DEFINE J == {i \in Retained(t) : Blob(t, i).action.type = "Nuke"}
  <2>1. CASE J = {}
    BY <2>1 DEF NukeOutputs, PlainProofs
  <2>2. CASE J # {}
    <3>1. Len(Sent.blobs[t]) \in Nat /\ J \subseteq 0 .. Len(Sent.blobs[t])
      <4>1. Sent.blobs[t] \in Seq(BlobType) /\ Retained(t) \subseteq DOMAIN Sent.blobs[t]
        BY BlobsOK
      <4> QED
        BY <4>1
    <3>2. Max(J) \in J
      <4> HIDE DEF J
      <4> QED
        BY <2>2, <3>1, MaxOK
    <3>3. Max(J) \in DOMAIN Sent.blobs[t] /\ t \in DOMAIN Sent.blobs
      BY <3>2 DEF Retained, Typed
    <3>4. outputs = Blob(t, Max(J)).action.nukes
      BY <2>2 DEF NukeOutputs
    <3> QED
      BY <3>3, <3>4 DEF Plain
  <2> QED
    BY <2>1, <2>2
<1>3. ForcedTxs(m, C, t) = {outputs[k].tx : k \in I}
  BY DEF ForcedTxs
<1>4. hit \in Seq(ProofType) /\ Elements(hit) = {outputs[k] : k \in I}
  <2>1. I \in SUBSET DOMAIN outputs
    OBVIOUS
  <2> HIDE DEF outputs, I
  <2> QED
    BY <1>1, <2>1, SelectedElements
<1>5. Forged(m, C, t) = [k \in DOMAIN hit |-> forged(hit[k])]
  BY DEF Forged
<1>6. ASSUME NEW o \in ProofType
      PROVE  forged(o).reads = o.reads /\ forged(o).effects = o.effects /\ forged(o).tx = o.tx
  BY DEF ProofType
<1>7. \A k \in I : k \in DOMAIN outputs
  OBVIOUS
<1> HIDE DEF outputs, I, hit, forged
<1>8. ASSUME NEW k \in DOMAIN hit
      PROVE  /\ forged(hit[k]).reads = {} /\ forged(hit[k]).effects = <<>>
             /\ forged(hit[k]).tx \in ForcedTxs(m, C, t)
  <2>1. hit[k] \in Elements(hit) /\ hit[k] \in ProofType
    BY <1>4 DEF Elements
  <2>2. PICK j \in I : hit[k] = outputs[j]
    BY <1>4, <2>1
  <2>3. hit[k].reads = {} /\ hit[k].effects = <<>>
    BY <1>2, <1>7, <2>2 DEF PlainProofs
  <2>4. hit[k].tx \in ForcedTxs(m, C, t)
    BY <1>3, <2>2
  <2> QED
    BY <1>6, <2>1, <2>3, <2>4
<1> QED
  BY <1>5, <1>8 DEF PlainProofs

\* The contracts after a plain success.
LEMMA AfterPlain ==
    ASSUME NEW t, NEW ch, PlainChanges(t, ch), Windows(contracts)
    PROVE  /\ Dead(ch) = {} /\ Windows(ContractsAfter(ch))
           /\ DOMAIN contracts \subseteq DOMAIN ContractsAfter(ch)
           /\ \A n : n \notin get_contracts_blocked_by_tx(t) =>
                /\ n \in DOMAIN ContractsAfter(ch) <=> n \in DOMAIN contracts
                /\ n \in DOMAIN contracts => ContractsAfter(ch)[n] = contracts[n]
<1>1. Alive(ch) = DOMAIN ch /\ Dead(ch) = {}
  BY DEF PlainChanges, Alive, Dead
<1>2. PICK C : C = ContractsAfter(ch)
  OBVIOUS
<1>3. C = [n \in (DOMAIN contracts \cup Alive(ch)) \ Dead(ch) |->
             IF n \in DOMAIN ch THEN ch[n].c ELSE contracts[n]]
  BY <1>2 DEF ContractsAfter
<1>4. /\ DOMAIN C = DOMAIN contracts \cup DOMAIN ch
      /\ \A n \in DOMAIN C : C[n] = IF n \in DOMAIN ch THEN ch[n].c ELSE contracts[n]
  BY <1>1, <1>3
<1>5. Windows(C)
  BY <1>4 DEF Windows, PlainChanges
<1>6. \A n : n \notin get_contracts_blocked_by_tx(t) => n \notin DOMAIN ch
  BY DEF PlainChanges
<1> QED
  BY <1>1, <1>2, <1>4, <1>5, <1>6

\* What a success changes is nothing to another transaction that is next.
LEMMA SuccessApart ==
    ASSUME Plain, Typed, PlainState, NEW t \in DOMAIN unsettled, NEW u \in DOMAIN unsettled,
           t # u, ~NativeFailure(t),
           is_next_to_settle(unsettled, order, t), is_next_to_settle(unsettled, order, u),
           NEW ch, PlainChanges(t, ch), contracts' = ContractsAfter(ch)
    PROVE  SameNames(u) /\ SameContracts(u)
<1>0. t \in DOMAIN Sent.blobs /\ u \in DOMAIN Sent.blobs
  BY DEF Typed
<1>1. BlobContracts(t) \cap BlobContracts(u) = {}
  BY NextApart
<1>2. get_contracts_blocked_by_tx(t) \cap get_contracts_blocked_by_tx(u) = {}
  BY <1>0, <1>1, ApartOK
<1>3. /\ DOMAIN contracts \subseteq DOMAIN contracts'
      /\ \A n : n \notin get_contracts_blocked_by_tx(t) =>
           /\ n \in DOMAIN contracts' <=> n \in DOMAIN contracts
           /\ n \in DOMAIN contracts => contracts'[n] = contracts[n]
  BY AfterPlain DEF PlainState
<1>4. SameNames(u)
  BY <1>2, <1>3 DEF SameNames
<1>5. ASSUME NEW c \in AllContracts(u) PROVE c \notin get_contracts_blocked_by_tx(t)
  <2> SUFFICES ASSUME c \in get_contracts_blocked_by_tx(t) PROVE FALSE
    OBVIOUS
  <2>1. c \in BlobContracts(t)
    BY <1>0, <1>5, BlockedOK
  <2>2. PICK i \in Retained(t) : c = Blob(t, i).contract
    BY <2>1 DEF BlobContracts
  <2>3. c \notin Native
    BY <2>2 DEF NativeFailure, PlainState, NativesFail
  <2>4. PICK j \in DOMAIN Sent.blobs[u] : c = Blob(u, j).contract
    BY <1>5 DEF AllContracts
  <2>5. j \in Retained(u)
    BY <2>3, <2>4 DEF Retained
  <2>6. c \in BlobContracts(u)
    BY <2>4, <2>5 DEF BlobContracts
  <2> QED
    BY <1>1, <2>1, <2>6
<1>6. Registered(u)
  BY DEF PlainState
<1>7. SameContracts(u)
  BY <1>3, <1>5, <1>6 DEF SameContracts, Registered
<1> QED
  BY <1>4, <1>7

LEMMA PSuccess ==
    ASSUME BInv, Plain, PlainState, NextWait, SuccessesTried,
           UNCHANGED <<batch, height, timeouts, expiring>>,
           NEW t, Outcome(t).outcome = "Success", NEW ch, ch = Outcome(t).changes, NEW used,
           SettleSuccess(t, ch, used)
    PROVE  PlainState' /\ NextWait' /\ SuccessesTried'
<1> DEFINE q == Dequeued(order, {t})
           gone == TimedOutByDeletion(q, ch)
           m == Without(unsettled, {t} \cup gone)
           C == ContractsAfter(ch)
           ps == Forged(m, C, t)
<1>0. /\ Typed /\ ContractsTyped /\ ProofsTyped(unsettled) /\ PlainlyProved(unsettled)
      /\ Windows(contracts) /\ height \in Nat /\ height' \in Nat /\ height <= height'
  BY DEF BInv, IInv, Typed, PlainState
<1>1. /\ t \in DOMAIN unsettled /\ ~NativeFailure(t) /\ is_next_to_settle(unsettled, order, t)
      /\ PlainChanges(t, ch)
  BY <1>0, SuccessAttempt, SuccessPlain, OutcomeOK
<1>2. /\ unsettled' = Pushed(m, ps) /\ order' = Dequeued(q, gone) /\ contracts' = C
      /\ todo' = (todo \ {t}) \cup NextTxs(q, t) \cup ForcedTxs(m, C, t)
      /\ unsettlable' = unsettlable
  BY DEF SettleSuccess
<1>3. Dead(ch) = {} /\ Windows(C) /\ DOMAIN contracts \subseteq DOMAIN C
  BY <1>0, <1>1, AfterPlain
<1>4. gone = {}
  BY <1>3 DEF TimedOutByDeletion
<1>5. /\ DOMAIN m = DOMAIN unsettled \ {t}
      /\ \A u \in DOMAIN m : m[u] = unsettled[u]
  BY <1>4 DEF Without
<1>6. \A c \in Names : order'[c] = q[c]
  <2> HIDE DEF q, gone
  <2>1. order' = [c \in Names |-> {e \in q[c] : ~(e.tx \in {} /\ c \in get_contracts_blocked_by_tx(e.tx))}]
    BY <1>2, <1>4 DEF Dequeued
  <2> QED
    BY <2>1
<1> HIDE DEF m, gone
<1>7. ProofsTyped(m) /\ PlainlyProved(m) /\ NativesFail(m)
  BY <1>0, <1>5, FewerProofs, FewerPlain DEF PlainState
<1>8. ps \in Seq(ProofType)
  <2>1. Sound(ch)
    BY <1>0, SuccessSound
  <2>2. \A n \in DOMAIN C : C[n] \in Contract3
    BY <1>0, <2>1, ReportedOK DEF BInv
  <2> HIDE DEF C
  <2> QED
    BY <1>0, <1>1, <2>2, ForgedOK
<1>9. PlainProofs(ps) /\ \A k \in DOMAIN ps : ps[k].tx \in ForcedTxs(m, C, t)
  BY <1>0, <1>1, ForgedPlain
<1> HIDE DEF C, ps
<1>10. /\ DOMAIN unsettled' = DOMAIN unsettled \ {t}
       /\ \A u \in DOMAIN unsettled' : u # t /\ unsettled'[u].height = unsettled[u].height
       /\ PlainlyProved(unsettled') /\ NativesFail(unsettled')
       /\ \A u \in DOMAIN unsettled' : (\A k \in DOMAIN ps : ps[k].tx # u) =>
            unsettled'[u].proofs = unsettled[u].proofs
  <2>1. /\ DOMAIN Pushed(m, ps) = DOMAIN m
        /\ \A u \in DOMAIN m : Pushed(m, ps)[u].height = m[u].height
        /\ PlainlyProved(Pushed(m, ps)) /\ NativesFail(Pushed(m, ps))
        /\ \A u \in DOMAIN m : (\A k \in DOMAIN ps : ps[k].tx # u) =>
             Pushed(m, ps)[u].proofs = m[u].proofs
    BY <1>7, <1>8, <1>9, PushedOK, PushedPlain
  <2> QED
    BY <1>2, <1>5, <2>1
<1>11. PlainState'
  BY <1>0, <1>2, <1>3, <1>10, KeptState
<1>12. ASSUME NEW u \in DOMAIN unsettled', is_next_to_settle(unsettled', order', u), u \notin todo'
       PROVE  /\ is_next_to_settle(unsettled, order, u) /\ SameContracts(u) /\ SameNames(u)
              /\ u \in DOMAIN unsettled /\ u # t
  <2>1. u \in DOMAIN unsettled /\ u # t /\ u \in DOMAIN Sent.blobs
    BY <1>0, <1>10 DEF Typed
  <2>2. BlobContracts(u) \subseteq Names
    BY <1>0, <2>1, BlobContractsOK DEF Typed
  <2>3. is_next_to_settle(unsettled', q, u)
    BY <1>6, <1>12, <2>2 DEF is_next_to_settle
  <2>4. u \notin NextTxs(q, t)
    BY <1>2, <1>12
  <2>5. is_next_to_settle(unsettled, order, u)
    BY <1>0, <1>1, <2>1, <2>3, <2>4, NextFresh
  <2>6. contracts' = ContractsAfter(ch)
    BY <1>2 DEF C
  <2>7. SameNames(u) /\ SameContracts(u)
    BY <1>0, <1>1, <2>1, <2>5, <2>6, SuccessApart
  <2> QED
    BY <2>1, <2>5, <2>7
<1>13. Waiting \ {t} \subseteq Waiting'
  BY <1>2 DEF Waiting, Elements
<1>14. ASSUME NEW u \in DOMAIN unsettled', is_next_to_settle(unsettled', order', u), HasWindow(u)'
       PROVE  TimedIn(timeouts, u)' \/ u \in Waiting'
  <2>1. CASE u \in todo'
    BY <2>1 DEF Waiting
  <2>2. CASE u \notin todo'
    <3>1. TimedIn(timeouts, u) \/ u \in Waiting
      BY <1>0, <1>10, <1>12, <1>14, <2>2, WaitBefore
    <3>2. u # t
      BY <1>12, <1>14, <2>2
    <3> QED
      BY <1>13, <3>1, <3>2, TimedDef
  <2> QED
    BY <2>1, <2>2
<1>15. ASSUME NEW u \in DOMAIN unsettled', (Outcome(u).outcome = "Success")' PROVE u \in todo'
  <2>1. SUFFICES ASSUME u \notin todo' PROVE FALSE
    OBVIOUS
  <2>2. is_next_to_settle(unsettled', order', u)
    BY <1>15, SuccessNext
  <2>3. \A k \in DOMAIN ps : ps[k].tx # u
    BY <1>2, <1>9, <2>1
  <2>4. unsettled'[u].proofs = unsettled[u].proofs
    BY <1>10, <2>3
  <2>5. u \in todo /\ u # t
    BY <1>0, <1>12, <1>15, <2>1, <2>2, <2>4, TriedBefore
  <2> QED
    BY <1>2, <2>1, <2>5
<1> QED
  BY <1>11, <1>14, <1>15, NextWaitNext, TriedNext

LEMMA PSettleNextOK == ASSUME PInv, SettleNext PROVE PInv'
<1> DEFINE t == Min(todo)
           r == Outcome(t)
<1>0. /\ UNCHANGED <<batch, height, timeouts, expiring>>
      /\ todo # {}
      /\ \/ /\ r.outcome = "NotReady"
            /\ todo' = todo \ {t} /\ unsettlable' = unsettlable \cup {t}
            /\ UNCHANGED <<unsettled, order, contracts>>
         \/ r.outcome = "Failed" /\ SettleFailed(t)
         \/ r.outcome = "Success" /\ SettleSuccess(t, r.changes, r.used)
  BY DEF SettleNext
<1>1. BInv' /\ BInv /\ Typed /\ height \in Nat /\ t \in todo
  BY BSettleNextOK, NextInTodo, <1>0 DEF PInv, BInv, IInv, Typed
<1>2. SUFFICES ASSUME Plain' PROVE PlainState' /\ NextWait' /\ SuccessesTried'
  BY <1>0, <1>1 DEF PInv
<1>3. Plain /\ PlainState /\ NextWait /\ SuccessesTried
  BY <1>0, <1>2, PlainNext DEF PInv
<1>4. r.outcome # "NotReady" => t \in DOMAIN unsettled
  BY OutcomeOK
<1>5. ASSUME r.outcome = "NotReady", todo' = todo \ {t}, unsettlable' = unsettlable \cup {t},
             UNCHANGED <<unsettled, order, contracts>>
      PROVE  PlainState' /\ NextWait' /\ SuccessesTried'
  <2>1. Waiting' = Waiting
    BY <1>0, <1>1, <1>5 DEF Waiting, Elements
  <2>2. \A u : u \in todo /\ Outcome(u).outcome = "Success" => u \in todo'
    BY <1>5
  <2> HIDE DEF t, r
  <2> QED
    BY <1>0, <1>1, <1>3, <1>5, <2>1, <2>2, PQuiet
<1>6. ASSUME r.outcome = "Failed", SettleFailed(t)
      PROVE  PlainState' /\ NextWait' /\ SuccessesTried'
  <2>1. /\ unsettled' = Without(unsettled, {t}) /\ order' = Dequeued(order, {t})
        /\ todo' = (todo \ {t}) \cup NextTxs(Dequeued(order, {t}), t)
        /\ UNCHANGED <<contracts, unsettlable>>
    BY <1>6 DEF SettleFailed
  <2>2. Waiting \ {t} \subseteq Waiting'
    BY <1>0, <2>1 DEF Waiting, Elements
  <2>3. t \in DOMAIN unsettled
    BY <1>4, <1>6
  <2> HIDE DEF t, r
  <2> QED
    BY <1>0, <1>1, <1>3, <2>1, <2>2, <2>3, PLeaves
<1>7. ASSUME r.outcome = "Success", SettleSuccess(t, r.changes, r.used)
      PROVE  PlainState' /\ NextWait' /\ SuccessesTried'
  <2> HIDE DEF t
  <2> QED
    BY <1>0, <1>1, <1>3, <1>7, PSuccess
<1> QED
  BY <1>0, <1>5, <1>6, <1>7

LEMMA PStepOK == PInv /\ [Next]_vars => PInv'
<1> SUFFICES ASSUME PInv, [Next]_vars PROVE PInv'
  OBVIOUS
<1> QED
  BY PNewBlockOK, PBlobTxOK, PProofTxOK, PClearTimeoutOK, PSettleNextOK, PResetTimeoutOK,
     PStutterOK DEF Next, Loop

\* Between two transactions of a block, no loop has anything left to look at.
LEMMA ReadyTimed ==
    ASSUME PInv, Ready, Plain, NEW t \in DOMAIN unsettled
    PROVE  /\ is_next_to_settle(unsettled, order, t) /\ HasWindow(t) => TimedIn(timeouts, t)
           /\ Outcome(t).outcome # "Success"
<1>1. Waiting = {} /\ todo = {}
  BY DEF Ready, Waiting, Elements
<1> QED
  BY <1>1 DEF PInv, NextWait, SuccessesTried

\* The invariant the next two theorems rest on: as long as a batch is plain, what is kept
\* of its transactions stays plain, a transaction that is next has a timeout or is in one
\* of the lists that handle_signed_block still works off, and one that would succeed is
\* in the list of settle_txs_until_done.
THEOREM PlainInvariant == Spec => []PInv
<1> QED
  BY PInitOK, PStepOK, PTL DEF Spec

\* For every plain batch of transactions of any size, in every execution: whenever
\* handle_signed_block is done with a transaction, every transaction that is next to
\* settle for all its contracts, and whose contracts have a timeout window, is in the
\* timeouts of a later block.  No order in which transactions arrive, settle, fail, time
\* out, are nuked, register contracts or change windows leaves one behind for ever.
THEOREM NextAlwaysTimed == Spec => []NextAreTimed
<1>1. PInv => NextAreTimed
  BY ReadyTimed DEF NextAreTimed, TimedIn
<1> QED
  BY <1>1, PlainInvariant, PTL

\* For every plain batch of transactions of any size, in every execution: when the loop of
\* settle_txs_until_done ends, no transaction is left whose proofs would let it settle
\* with success; the lists of transactions to try, made from the queues behind what left
\* and from the proofs that came, miss none.
THEOREM AlwaysSettledUntilDone == Spec => []SettledUntilDone
<1>1. PInv => SettledUntilDone
  BY ReadyTimed DEF SettledUntilDone
<1> QED
  BY <1>1, PlainInvariant, PTL

=============================================================================
