------------------------------ MODULE NodeState ------------------------------
(***************************************************************************)
(* Settlement in the node state (hyle-modules/src/node_state.rs and its    *)
(* OrderedTxMap, Timeouts and hyle TLD).  Signed blocks arrive in order of *)
(* height; their blob transactions wait, in one queue per contract, for    *)
(* the proofs of their blobs; a transaction settles, fails or times out,   *)
(* and its leaving may let others settle.                                  *)
(*                                                                         *)
(* handle_signed_block is sequential.  It is cut into steps at its loops:  *)
(* over the transactions of a block, over the transactions at timeout,     *)
(* over the transactions to try and settle, and over those that could not  *)
(* be settled.  The sets and the sequence that these loops run over say    *)
(* which loop the code is in; a block's next transaction is only taken     *)
(* once all are empty (Ready).                                             *)
(***************************************************************************)
EXTENDS Integers, Sequences, FiniteSets, FiniteSetsExt, Selection

CONSTANTS
    Names,          \* contract names, "hyle" among them
    Parent,         \* the name a contract name is a direct subdomain of
    Native,         \* the contracts with a native verifier
    Genesis,        \* the contracts registered at height 0
    Txs,            \* hashes of blob transactions; their order is that of <
    Batches,        \* what users may send, by name of the batch:
                    \*   blobs[t]: the blobs of transaction t;  valid: the
                    \*   transactions that pass the static checks;  proofs: the
                    \*   verified proof transactions, as sequences of proven blobs
    DefaultWindow,  \* TimeoutWindow::default()
    ForkHeight,     \* the height (445_000) after which get_tx_timeout_window changes
    MaxHeight,      \* bound: the last block
    MaxWindow,      \* bound: the longest timeout window of a contract
    MaxArrivals,    \* bound: blob transactions that enter the queues
    MaxProofs       \* bound: proofs kept for a blob

NoTimeout == -1     \* TimeoutWindow::NoTimeout
Unset     == -2     \* a registration that names no window

Window == {NoTimeout} \cup 0 .. MaxWindow

ASSUME ConstantsAssumption ==
    /\ "hyle" \in Names /\ Native \subseteq Names \ {"hyle"}
    /\ Parent \in [Names -> Names]
    /\ DOMAIN Genesis \subseteq Names /\ "hyle" \in DOMAIN Genesis
    /\ Txs \subseteq Nat /\ IsFiniteSet(Txs) /\ DefaultWindow \in Window
    /\ ForkHeight \in Nat /\ MaxHeight \in Nat /\ MaxWindow \in Nat
    /\ MaxArrivals \in Nat /\ MaxProofs \in Nat

\* What users may send: a contract with its window or none, the onchain effects of a proof, a
\* proof of a blob, an action and a blob.
Specified  == [prog : Int, state : Int, window : Window \cup {Unset}]
EffectType == [type : {"Register"}, name : Names, c : Specified] \cup
              [type : {"Delete"}, name : Names]
ProofType  == [tx : Txs, index : Nat, prog : Int, ctx : Nat, init : Int, next : Int,
               success : BOOLEAN, reads : SUBSET (Names \X Int), effects : Seq(EffectType),
               coherent : BOOLEAN]
ActionType == [type : {"Call", "Register", "Delete", "UpdateProgramId", "UpdateTimeoutWindow", "Nuke"},
               name : Names, c : Specified, nukes : Seq(ProofType)]
BlobType   == [contract : Names, action : ActionType, verifies : BOOLEAN]

ContractType == [prog : Int, state : Int, window : Window]

ASSUME BatchesAssumption ==
    /\ \A n \in DOMAIN Genesis : Genesis[n] \in ContractType
    /\ \A b \in DOMAIN Batches :
         /\ DOMAIN Batches[b].blobs \subseteq Txs
         /\ \A t \in DOMAIN Batches[b].blobs : Batches[b].blobs[t] \in Seq(BlobType)
         /\ Batches[b].proofs \subseteq Seq(ProofType)

VARIABLES
    batch,        \* the name of the batch in use, chosen once
    height,       \* current_height
    contracts,    \* the registered contracts: program, state and window by name
    unsettled,    \* OrderedTxMap.map
    order,        \* OrderedTxMap.tx_order
    timeouts,     \* Timeouts.by_block
    block,        \* the block under construction, as reported to other modules
    expiring,     \* transactions at timeout, still to be removed
    todo,         \* blob_tx_to_try_and_settle
    unsettlable,  \* what settle_txs_until_done returns
    arrivals      \* how many transactions entered the queues so far

vars == <<batch, height, contracts, unsettled, order, timeouts, block, expiring,
          todo, unsettlable, arrivals>>

Sent == Batches[batch]
Blob(t, i) == Sent.blobs[t][i]

-----------------------------------------------------------------------------
(* OrderedTxMap.  A queue is the set of its entries: a hash with the number *)
(* of its arrival.  push_back gives the highest number, retain keeps the    *)
(* order, so the front is the entry with the lowest.  An absent queue is an *)
(* empty one.  unsettled[t].proofs holds the possible_proofs of each blob;  *)
(* a native blob that verified is dropped.                                  *)

Retained(t) ==
    {i \in DOMAIN Sent.blobs[t] :
       ~(Blob(t, i).contract \in Native /\ Blob(t, i).verifies)}

BlobContracts(t) == {Blob(t, i).contract : i \in Retained(t)}

get_contracts_blocked_by_tx(t) ==
    BlobContracts(t) \cup
    {Blob(t, i).action.name :
       i \in {i \in Retained(t) : Blob(t, i).action.type \in {"Register", "Delete"}}}

\* get_next_unsettled_tx as a set: the front of the queue, or nothing.
Front(q) == {e.tx : e \in {e \in q : \A f \in q : e.nb <= f.nb}}

\* Mutant of is_next_to_settle: the queues are not asked.
is_next_to_settle_InMap(m, q, t) == t \in DOMAIN m

\* Only the contracts of its blobs count, not the names it registers or deletes.
is_next_to_settle(m, q, t) ==
    t \in DOMAIN m /\ \A c \in BlobContracts(t) : Front(q[c]) = {t}

\* The queues after a transaction, the nb-th to arrive, is added.
Enqueued(q, t, nb) ==
    [c \in Names |-> IF c \in get_contracts_blocked_by_tx(t)
                     THEN q[c] \cup {[nb |-> nb, tx |-> t]} ELSE q[c]]

\* The map and the queues after the transactions S are removed.
Without(m, S) == [t \in DOMAIN m \ S |-> m[t]]

\* Mutant of Dequeued: the names a transaction registers are forgotten.
Dequeued_BlobsOnly(q, S) ==
    [c \in Names |-> {e \in q[c] : ~(e.tx \in S /\ c \in BlobContracts(e.tx))}]

Dequeued(q, S) ==
    [c \in Names |->
       {e \in q[c] : ~(e.tx \in S /\ c \in get_contracts_blocked_by_tx(e.tx))}]

\* The fronts of the queues of the contracts of t's blobs.
NextTxs(q, t) == UNION {Front(q[c]) : c \in BlobContracts(t)}

-----------------------------------------------------------------------------
(* Timeouts.                                                               *)

\* The window of a transaction with these blobs.  After the fork NoTimeout is
\* the greatest window.  Before, a NoTimeout makes the fold start afresh.
get_tx_timeout_window(C, t, I) ==
    LET Known(J) == {i \in J : Blob(t, i).contract \in DOMAIN C}
        window(i) == C[Blob(t, i).contract].window
        timed == {i \in Known(I) : window(i) # NoTimeout}
        counted == IF height > ForkHeight THEN timed
                   ELSE {i \in timed : \A j \in Known(I) : j > i => j \in timed}
    IN  IF counted = {} THEN NoTimeout ELSE Min({window(i) : i \in counted})

\* Timeouts::set, which does not look whether the transaction is set already.
set(tm, t, window) ==
    IF window = NoTimeout THEN tm
    ELSE [tm EXCEPT ![height + window] = Append(@, t)]

-----------------------------------------------------------------------------
(* Settling one transaction.  An attempt is a choice of one proof per blob, *)
(* so far: the changes it makes to contracts, whether it has met a proof of *)
(* failure, and which proofs it uses.                                      *)

\* The contract a change leads to, and which of its fields are reported.
Fields == {"prog", "state", "window"}
Change(c, fields) == [alive |-> TRUE, c |-> c, fields |-> fields]
Deletion == [alive |-> FALSE]

Modified(ch, n) == IF n \in DOMAIN ch THEN ch[n].fields ELSE {}

Exists(ch, n) == IF n \in DOMAIN ch THEN ch[n].alive ELSE n \in DOMAIN contracts
get_contract(ch, n) == IF n \in DOMAIN ch THEN ch[n].c ELSE contracts[n]

With(ch, n, change) ==
    [k \in DOMAIN ch \cup {n} |-> IF k = n THEN change ELSE ch[k]]

validate_contract_name_registration(owner, name) ==
    name = owner \/ Parent[name] = owner

\* An onchain effect of a proof on contract c; the window defaults to c's.
Effect(ch, c, eff) ==
    IF eff.type = "Register"
    THEN With(ch, eff.name,
              Change([eff.c EXCEPT !.window = IF @ = Unset THEN c.window ELSE @],
                     Fields))
    ELSE With(ch, eff.name, Deletion)

EffectsAllowed(b, p) ==
    \A k \in DOMAIN p.effects :
      /\ validate_contract_name_registration(b.contract, p.effects[k].name)
      /\ p.effects[k].type = "Register" => b.action.type = "Register"

\* The proof p fits the contracts as the attempt has left them.
ProofFits(ch, b, p) ==
    /\ Exists(ch, b.contract)
    /\ p.init = get_contract(ch, b.contract).state
    /\ p.prog = get_contract(ch, b.contract).prog
    /\ \A r \in p.reads : Exists(ch, r[1]) /\ get_contract(ch, r[1]).state = r[2]
    /\ EffectsAllowed(b, p)

\* The changes of process_proof: the effects in turn, then the new state.
process_proof(ch, b, p) ==
    LET c == get_contract(ch, b.contract)
        eff[k \in 0 .. Len(p.effects)] ==
          IF k = 0 THEN ch ELSE Effect(eff[k - 1], c, p.effects[k])
        after == eff[Len(p.effects)]
    IN  IF Exists(after, b.contract)
        THEN With(after, b.contract,
                  Change([get_contract(after, b.contract) EXCEPT !.state = p.next],
                         Modified(after, b.contract) \cup {"state"}))
        ELSE after

handle_register_blob(ch, a) ==
    With(ch, a.name,
         Change([a.c EXCEPT !.window = IF @ = Unset THEN DefaultWindow ELSE @], Fields))

handle_delete_blob(ch, a) == With(ch, a.name, Deletion)

\* Of an update only the named field counts.
handle_update_blob(ch, a) ==
    LET f == IF a.type = "UpdateProgramId" THEN "prog" ELSE "window"
    IN  With(ch, a.name,
             Change([get_contract(ch, a.name) EXCEPT ![f] = a.c[f]],
                    Modified(ch, a.name) \cup {f}))

HyleAllows(ch, a) ==
    CASE a.type = "Register" ->
           /\ validate_contract_name_registration("hyle", a.name)
           /\ a.name = "hyle" \/ a.name \notin DOMAIN contracts
           /\ a.name \notin DOMAIN ch
      [] a.type = "Delete" ->
           a.name # "hyle" /\ a.name \in DOMAIN contracts \cup DOMAIN ch
      [] a.type \in {"UpdateProgramId", "UpdateTimeoutWindow"} ->
           a.name # "hyle" /\ Exists(ch, a.name)
      [] OTHER -> a.type = "Nuke"

handle_blob_for_hyle_tld(ch, a) ==
    CASE a.type = "Register" -> handle_register_blob(ch, a)
      [] a.type = "Delete"   -> handle_delete_blob(ch, a)
      [] a.type = "Nuke"     -> ch
      [] OTHER               -> handle_update_blob(ch, a)

Failed(att, k) ==
    [changes |-> att.changes, failed |-> TRUE, used |-> Append(att.used, k)]
Passed(att, k, ch) ==
    [changes |-> ch, failed |-> att.failed, used |-> Append(att.used, k)]

\* The ways to go on with blob i of t.
Extensions(att, t, i) ==
    LET b == Blob(t, i)
        proofs == unsettled[t].proofs[i]
        fits == {k \in DOMAIN proofs : ProofFits(att.changes, b, proofs[k])}
    IN  IF att.failed THEN {att}
        ELSE IF b.contract = "hyle"
        THEN {IF HyleAllows(att.changes, b.action)
              THEN Passed(att, 1, handle_blob_for_hyle_tld(att.changes, b.action))
              ELSE Failed(att, 1)}
        ELSE {IF proofs[k].success
              THEN Passed(att, k, process_proof(att.changes, b, proofs[k]))
              ELSE Failed(att, k) : k \in fits}

\* Depth-first order of the recursion, first proofs first.
Precedes(p, q) ==
    \E d \in DOMAIN p \cap DOMAIN q :
      p[d] < q[d] /\ \A e \in 1 .. d - 1 : p[e] = q[e]

\* All complete or failed attempts, blob by blob.
settle_blobs_recursively(t) ==
    LET last == Len(Sent.blobs[t])
        attempts[i \in 0 .. last] ==
          IF i = 0
          THEN {[changes |-> <<>>, failed |-> FALSE,
                 used |-> <<>>]}
          ELSE IF i \in Retained(t)
          THEN UNION {Extensions(att, t, i) : att \in attempts[i - 1]}
          ELSE attempts[i - 1]
    IN  attempts[last]

\* A native blob that did not verify: fail fast.
NativeFailure(t) ==
    \E i \in Retained(t) : /\ Blob(t, i).contract \in Native
                           /\ \E k \in DOMAIN unsettled[t].proofs[i] :
                                ~unsettled[t].proofs[i][k].success

NotReady == [outcome |-> "NotReady"]
Fails    == [outcome |-> "Failed"]

\* What the attempts A say of t: the first in depth-first order is the one the
\* recursion returns.  A failure needs not be next to settle.
Verdict(t, A) ==
    LET first == CHOOSE a \in A : \A b \in A \ {a} : Precedes(a.used, b.used)
    IN  IF A = {} THEN NotReady
        ELSE IF first.failed THEN Fails
        ELSE IF ~is_next_to_settle(unsettled, order, t) THEN NotReady
        ELSE [outcome |-> "Success", changes |-> first.changes, used |-> first.used]

\* What try_to_settle_blob_tx finds.
Outcome(t) ==
    IF t \notin DOMAIN unsettled \/ ~(BlobContracts(t) \subseteq DOMAIN contracts)
    THEN NotReady
    ELSE IF NativeFailure(t) THEN Fails
    ELSE Verdict(t, settle_blobs_recursively(t))

-----------------------------------------------------------------------------
(* The steps.                                                              *)

Ready == todo = {} /\ unsettlable = {} /\ expiring = <<>>

\* before: not in the code's Block; the contracts when it began.
EmptyBlock(before) ==
    [successful |-> {}, failed |-> {}, timed_out |-> {},
     registered |-> {}, deleted |-> {}, updated |-> [f \in Fields |-> <<>>],
     verified |-> {}, before |-> before]

\* The next signed block; the transactions at timeout are taken out first.
NewBlock ==
    /\ Ready /\ height < MaxHeight
    /\ height' = height + 1
    /\ expiring' = timeouts[height + 1]
    /\ timeouts' = [timeouts EXCEPT ![height + 1] = <<>>]
    /\ block' = EmptyBlock(contracts)
    /\ UNCHANGED <<batch, contracts, unsettled, order, todo, unsettlable, arrivals>>

\* clear_timeouts, one transaction: if it is still there, it leaves and those
\* behind it are tried.
ClearTimeout ==
    LET t == Head(expiring)
        q == Dequeued(order, {t})
    IN  /\ todo = {} /\ unsettlable = {} /\ expiring # <<>>
        /\ expiring' = Tail(expiring)
        /\ IF t \in DOMAIN unsettled
           THEN /\ unsettled' = Without(unsettled, {t})
                /\ order' = q
                /\ todo' = NextTxs(q, t)
                /\ block' = [block EXCEPT !.timed_out = @ \cup {t}]
           ELSE UNCHANGED <<unsettled, order, todo, block>>
        /\ UNCHANGED <<batch, height, contracts, timeouts, unsettlable, arrivals>>

\* The proof a native verifier gives for a blob it refuses.
NativeProof(t, i) ==
    [tx |-> t, index |-> i, prog |-> 0, ctx |-> 0, init |-> 0, next |-> 0,
     success |-> FALSE, reads |-> {}, effects |-> <<>>, coherent |-> TRUE]

UnsettledTx(t) ==
    [nb |-> arrivals, height |-> height,
     proofs |-> [i \in Retained(t) |->
                   IF Blob(t, i).contract \in Native THEN <<NativeProof(t, i)>>
                   ELSE <<>>]]

Refused(t) ==
    \/ t \notin Sent.valid
    \/ \E i \in DOMAIN Sent.blobs[t] : Blob(t, i).contract \notin DOMAIN contracts

\* A blob transaction of the block.
handle_blob_tx(t) ==
    LET m == [u \in DOMAIN unsettled \cup {t} |->
                IF u = t THEN UnsettledTx(t) ELSE unsettled[u]]
        blocked == get_contracts_blocked_by_tx(t)
        q == Enqueued(order, t, arrivals)
        is_next == \A c \in blocked : order[c] = {}
        all_known == \A i \in DOMAIN Sent.blobs[t] :
                       Blob(t, i).contract \in Native \cup {"hyle"}
    IN  /\ unsettled' = m /\ order' = q
        /\ arrivals' = arrivals + 1
        /\ timeouts' = IF is_next_to_settle(m, q, t)
                       THEN set(timeouts, t, get_tx_timeout_window(
                                  contracts, t, DOMAIN Sent.blobs[t]))
                       ELSE timeouts
        /\ todo' = IF is_next /\ all_known THEN {t} ELSE {}
        /\ UNCHANGED block

BlobTx ==
    /\ Ready /\ height > 0
    /\ \E t \in DOMAIN Sent.blobs :
         IF Refused(t)
         THEN /\ block' = [block EXCEPT !.failed = @ \cup {t}]
              /\ UNCHANGED <<unsettled, order, arrivals, timeouts, todo>>
         ELSE \* a duplicate of an unsettled transaction is only reported
              t \notin DOMAIN unsettled /\ arrivals < MaxArrivals /\ handle_blob_tx(t)
    /\ UNCHANGED <<batch, height, contracts, expiring, unsettlable>>

\* The proof is for this transaction and, if it names a context, for this
\* arrival of it; a blob that registers or deletes a contract needs the effect.
verify_hyle_output(p) ==
    /\ p.coherent
    /\ p.ctx # 0 => p.ctx = unsettled[p.tx].height
    /\ p.index \in DOMAIN unsettled[p.tx].proofs
    /\ LET a == Blob(p.tx, p.index).action
       IN  a.type \in {"Register", "Delete"} =>
             /\ p.effects # <<>>
             /\ Head(p.effects).type = a.type /\ Head(p.effects).name = a.name
             /\ a.type = "Register" => Head(p.effects).c = a.c

Accepted(p) == p.tx \in DOMAIN unsettled /\ verify_hyle_output(p)

\* possible_proofs with the proofs ps pushed.
Pushed(m, ps) ==
    [t \in DOMAIN m |->
       [nb |-> m[t].nb, height |-> m[t].height,
        proofs |-> [i \in DOMAIN m[t].proofs |->
          m[t].proofs[i] \o Selected(ps, {k \in DOMAIN ps : ps[k].tx = t /\ ps[k].index = i})]]]

WithinProofs(m) == \A t \in DOMAIN m : \A i \in DOMAIN m[t].proofs :
                     Len(m[t].proofs[i]) <= MaxProofs

\* A verified proof transaction: its proofs are stored, and what they prove is
\* tried if it is next to settle.
ProofTx ==
    /\ Ready /\ height > 0
    /\ \E ps \in Sent.proofs :
         LET accepted == Selected(ps, {k \in DOMAIN ps : Accepted(ps[k])})
             m == Pushed(unsettled, accepted)
         IN  /\ WithinProofs(m) /\ unsettled' = m
             /\ todo' = {t \in {accepted[k].tx : k \in DOMAIN accepted} :
                          is_next_to_settle(unsettled, order, t)}
    /\ UNCHANGED <<batch, height, contracts, order, timeouts, block, expiring,
                   unsettlable, arrivals>>

Alive(ch)   == {n \in DOMAIN ch : ch[n].alive}
Dead(ch)    == DOMAIN ch \ Alive(ch)

\* updated_states, updated_program_ids and updated_timeout_windows.
Updated(ch, old) ==
    [f \in Fields |->
       LET new == {n \in Alive(ch) : f \in ch[n].fields}
       IN  [n \in DOMAIN old[f] \cup new |->
              IF n \in new THEN ch[n].c[f] ELSE old[f][n]]]

ContractsAfter(ch) ==
    [n \in (DOMAIN contracts \cup Alive(ch)) \ Dead(ch) |->
       IF n \in DOMAIN ch THEN ch[n].c ELSE contracts[n]]

\* The deletion of a contract removes every transaction in its queue.
TimedOutByDeletion(q, ch) == {e.tx : e \in UNION {q[c] : c \in Dead(ch)}}

\* The blob outputs a NukeTxAction forces on other transactions; one such blob
\* to a transaction.
NukeOutputs(t) ==
    LET I == {i \in Retained(t) : Blob(t, i).action.type = "Nuke"}
    IN  IF I = {} THEN <<>> ELSE Blob(t, Max(I)).action.nukes

Hits(m, C, o) ==
    /\ o.tx \in DOMAIN m /\ o.index \in DOMAIN m[o.tx].proofs
    /\ Blob(o.tx, o.index).contract \in DOMAIN C

\* A forced failure is made to fit the contract as it is now.
Forged(m, C, t) ==
    LET outputs == NukeOutputs(t)
        hit == Selected(outputs, {k \in DOMAIN outputs : Hits(m, C, outputs[k])})
        contract(o) == C[Blob(o.tx, o.index).contract]
    IN  [k \in DOMAIN hit |->
           [hit[k] EXCEPT !.prog = contract(hit[k]).prog,
                          !.init = IF hit[k].success THEN @ ELSE contract(hit[k]).state,
                          !.next = IF hit[k].success THEN @ ELSE contract(hit[k]).state]]

ForcedTxs(m, C, t) ==
    LET outputs == NukeOutputs(t)
    IN  {outputs[k].tx : k \in {k \in DOMAIN outputs : Hits(m, C, outputs[k])}}

\* Mutant of Reported: a contract registered again stays among the deleted.
Reported_StillDeleted(t, ch, used) ==
    LET new == Alive(ch) \ DOMAIN contracts
    IN  [block EXCEPT
           !.successful = @ \cup {t},
           !.registered = (@ \ Dead(ch)) \cup new,
           !.deleted = @ \cup Dead(ch),
           !.updated = Updated(ch, @),
           !.verified = @ \cup {[tx |-> t, index |-> i,
                                 proof |-> IF i \in DOMAIN used THEN used[i] ELSE 0] :
                                  i \in Retained(t)}]

\* What the block says of a success.  The proof of a blob is looked up by the
\* blob's index (0: none) among the proofs used for the retained blobs.
Reported(t, ch, used) ==
    LET new == Alive(ch) \ DOMAIN contracts
    IN  [block EXCEPT
           !.successful = @ \cup {t},
           !.registered = (@ \ Dead(ch)) \cup new,
           !.deleted = (@ \ new) \cup Dead(ch),
           !.updated = Updated(ch, @),
           !.verified = @ \cup {[tx |-> t, index |-> i,
                                 proof |-> IF i \in DOMAIN used THEN used[i] ELSE 0] :
                                  i \in Retained(t)}]

\* Mutants of SettleFailed: the transaction stays; those behind it are not tried.
SettleFailed_Kept(t) ==
    /\ todo' = (todo \ {t}) \cup NextTxs(order, t)
    /\ block' = [block EXCEPT !.failed = @ \cup {t}]
    /\ UNCHANGED <<contracts, unsettlable, unsettled, order>>

SettleFailed_NoNext(t) ==
    /\ unsettled' = Without(unsettled, {t})
    /\ order' = Dequeued(order, {t})
    /\ todo' = todo \ {t}
    /\ block' = [block EXCEPT !.failed = @ \cup {t}]
    /\ UNCHANGED <<contracts, unsettlable>>

SettleFailed(t) ==
    LET q == Dequeued(order, {t})
    IN  /\ unsettled' = Without(unsettled, {t})
        /\ order' = q
        /\ todo' = (todo \ {t}) \cup NextTxs(q, t)
        /\ block' = [block EXCEPT !.failed = @ \cup {t}]
        /\ UNCHANGED <<contracts, unsettlable>>

\* The queues behind the transaction are looked at before a deletion empties any.
SettleSuccess(t, ch, used) ==
    LET q == Dequeued(order, {t})
        gone == TimedOutByDeletion(q, ch)
        m == Without(unsettled, {t} \cup gone)
        C == ContractsAfter(ch)
    IN  /\ unsettled' = Pushed(m, Forged(m, C, t))
        /\ order' = Dequeued(q, gone)
        /\ contracts' = C
        /\ todo' = (todo \ {t}) \cup NextTxs(q, t)
                     \cup ForcedTxs(m, C, t)
        /\ block' = Reported(t, ch, used)
        /\ UNCHANGED unsettlable

\* settle_txs_until_done, one transaction: the one with the lowest hash.
SettleNext ==
    /\ todo # {}
    /\ LET t == Min(todo)
           r == Outcome(t)
       IN  \/ /\ r.outcome = "NotReady"
              /\ todo' = todo \ {t} /\ unsettlable' = unsettlable \cup {t}
              /\ UNCHANGED <<unsettled, order, contracts, block>>
           \/ r.outcome = "Failed" /\ SettleFailed(t)
           \/ r.outcome = "Success" /\ SettleSuccess(t, r.changes, r.used)
    /\ UNCHANGED <<batch, height, timeouts, expiring, arrivals>>

\* Mutant of TimeoutsAfter: only a transaction's arrival sets its timeout.
TimeoutsAfter_NotReset(t) == timeouts

\* A transaction that could not be settled and is next gets a new timeout.
TimeoutsAfter(t) ==
    IF is_next_to_settle(unsettled, order, t)
    THEN set(timeouts, t, get_tx_timeout_window(contracts, t, Retained(t)))
    ELSE timeouts

ResetTimeout ==
    /\ todo = {} /\ unsettlable # {}
    /\ timeouts' = TimeoutsAfter(Min(unsettlable))
    /\ unsettlable' = unsettlable \ {Min(unsettlable)}
    /\ UNCHANGED <<batch, height, contracts, unsettled, order, block, expiring,
                   todo, arrivals>>

-----------------------------------------------------------------------------
Init ==
    /\ batch \in DOMAIN Batches
    /\ height = 0 /\ contracts = Genesis
    /\ unsettled = <<>> /\ order = [c \in Names |-> {}]
    /\ timeouts = [h \in 1 .. MaxHeight + MaxWindow |-> <<>>]
    /\ block = EmptyBlock(Genesis)
    /\ expiring = <<>> /\ todo = {} /\ unsettlable = {} /\ arrivals = 0

Loop == ClearTimeout \/ SettleNext \/ ResetTimeout
Next == NewBlock \/ BlobTx \/ ProofTx \/ Loop

Spec == Init /\ [][Next]_vars

-----------------------------------------------------------------------------
(* Properties.                                                             *)

\* The shape of the state.
TypeOK ==
    /\ height \in 0 .. MaxHeight /\ arrivals \in 0 .. MaxArrivals
    /\ DOMAIN contracts \subseteq Names
    /\ \A n \in DOMAIN contracts : contracts[n] \in ContractType
    /\ DOMAIN unsettled \subseteq Txs
    /\ \A t \in DOMAIN unsettled :
         unsettled[t].nb \in 0 .. MaxArrivals /\ unsettled[t].height \in 1 .. MaxHeight
    /\ order \in [Names -> SUBSET [nb : 0 .. MaxArrivals, tx : Txs]]
    /\ DOMAIN timeouts = 1 .. MaxHeight + MaxWindow
    /\ \A h \in DOMAIN timeouts : timeouts[h] \in Seq(Txs)
    /\ expiring \in Seq(Txs) /\ todo \subseteq Txs /\ unsettlable \subseteq Txs

\* "struct used to guarantee coherence between the 2 fields": a transaction is
\* in the map exactly if it is, with the number of its arrival, in the queue of
\* every contract it blocks, and no queue holds anything else.
Coherent ==
    \A c \in Names :
      order[c] = {[nb |-> unsettled[t].nb, tx |-> t] :
                    t \in {t \in DOMAIN unsettled : c \in get_contracts_blocked_by_tx(t)}}

\* Whoever follows the blocks knows the contracts: those there were when the
\* block began, with the registered and without the deleted ones, and each with
\* the program, state and window that the block reports, or else as before.
BlockTellsContracts ==
    /\ DOMAIN contracts = (DOMAIN block.before \cup block.registered) \ block.deleted
    /\ \A n \in DOMAIN contracts, f \in Fields :
         contracts[n][f] = IF n \in DOMAIN block.updated[f] THEN block.updated[f][n]
                           ELSE block.before[n][f]

\* The batch changes no contract other than by state transitions, new contracts
\* come from "hyle" under names that no blob is for, and no proof reads another
\* contract or has effects.  (A transaction that leaves has only those behind it on
\* the contracts of its blobs tried: on a name that it registers nobody is.)
PlainProofs(ps) == \A k \in DOMAIN ps : ps[k].reads = {} /\ ps[k].effects = <<>>

Plain ==
    /\ \A t \in DOMAIN Sent.blobs : \A i \in DOMAIN Sent.blobs[t] :
         /\ Blob(t, i).action.type \in {"Call", "Register", "Nuke"}
         /\ PlainProofs(Blob(t, i).action.nukes)
         /\ Blob(t, i).action.type = "Register" =>
              /\ Blob(t, i).contract = "hyle"
              /\ \/ Blob(t, i).action.name = "hyle"
                 \/ \A u \in DOMAIN Sent.blobs : \A j \in DOMAIN Sent.blobs[u] :
                      Blob(u, j).contract # Blob(t, i).action.name
    /\ \A ps \in Sent.proofs : PlainProofs(ps)

\* The windows of a transaction on its arrival and later are both finite.
HasWindow(t) ==
    /\ unsettled[t].height > ForkHeight \/ height <= ForkHeight
    /\ \A I \in {Retained(t), DOMAIN Sent.blobs[t]} :
         get_tx_timeout_window(contracts, t, I) > 0

\* A transaction at the front of all its queues has a timeout ahead, however
\* it got there, if its contracts have one.
NextAreTimed ==
    Ready /\ Plain =>
      \A t \in DOMAIN unsettled :
        is_next_to_settle(unsettled, order, t) /\ HasWindow(t) =>
          \E h \in height + 1 .. MaxHeight + MaxWindow :
            \E k \in DOMAIN timeouts[h] : timeouts[h][k] = t

\* "Settle all transactions that are ready to settle": between two transactions
\* of a block no transaction waits that could take effect.  (One that is bound
\* to fail may wait: it is not tried on its arrival.)
SettledUntilDone ==
    Ready /\ Plain =>
      \A t \in DOMAIN unsettled :
        Outcome(t).outcome # "Success"

\* The loops end, although settling a transaction adds others to try: each of
\* their steps makes this rank smaller, in lexicographic order.
Rank == <<Cardinality(DOMAIN unsettled), Len(expiring), Cardinality(todo),
          Cardinality(unsettlable)>>

LoopsEnd == [][~Ready => Precedes(Rank', Rank)]_vars

\* "we are supposed to settle as failed only transaction that are next to
\* settle": the code does NOT have this property, even where nothing is nuked.
FailedAreNext ==
    [][\A t \in DOMAIN unsettled :
         t \in block'.failed \ block.failed => is_next_to_settle(unsettled, order, t)]_vars

\* "keep track of which blob proof output we used to settle the TX for each
\* blob": the code does NOT have this property after a dropped native blob.
VerifiedBlobsNameTheProof ==
    \A v \in block.verified :
      Blob(v.tx, v.index).contract # "hyle" => v.proof # 0

-----------------------------------------------------------------------------
(* What settlement promises: see Sequencing.                               *)

Pending ==
    {[nb |-> unsettled[t].nb, tx |-> t, contracts |-> BlobContracts(t)] :
       t \in DOMAIN unsettled}

Sequenced == INSTANCE Sequencing WITH
                 pending <- Pending, successful <- block.successful

ImplementsSequencing == Sequenced!Spec

=============================================================================
