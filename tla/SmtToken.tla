------------------------------ MODULE SmtToken ------------------------------
(***************************************************************************)
(* The SMT token, twice.  The prover runs the contract on the whole tree   *)
(* of accounts (the executor) and prepares, per blob, a step: the accounts *)
(* the blob touches and a Merkle proof for them.  The circuit runs the     *)
(* same blobs on the root and the steps alone.  A batch is proved at once, *)
(* so that the circuit must pop the steps in the order the blobs were      *)
(* handled and find every account as its own root says it is.              *)
(***************************************************************************)
EXTENDS Integers, Sequences, Functions

CONSTANTS
    Accounts,      \* identities
    FaucetId,      \* FAUCET_ID
    Supply,        \* TOTAL_SUPPLY
    SmtAmounts,    \* amounts in blobs
    MaxBlobs,      \* bound on the blobs handled
    NoMeta

ASSUME SmtAssumption == FaucetId \in Accounts /\ Supply \in Nat \ {0}

VARIABLES
    tree,          \* AccountSMT: the accounts with a balance
    txTree,        \* initial_contract: the tree before the current transaction
    txBlobs,       \* how many blobs of the current transaction succeeded
    meta,          \* initial_commitment_metadata: commitment and steps
    calls,         \* calldatas, each with the output the executor announced
    panicked,      \* merge_commitment_metadata found no step to merge
    blobs,         \* how many blobs were handled
    odd            \* a blob was handled that executor and circuit treat differently:
                   \* the behaviour is followed no further (history)

smtVars == <<tree, txTree, txBlobs, meta, calls, panicked, blobs, odd>>

----------------------------------------------------------------------------
(* Accounts and the tree.  A leaf with balance 0 hashes to zero: to the     *)
(* tree it is not there, and its allowances are gone.                       *)

NewAccount(n) == [balance |-> n, allowances |-> [x \in {} |-> 0]]
get_account(t, a) == IF a \in DOMAIN t THEN t[a] ELSE NewAccount(0)
Allowance(acc, s) == IF s \in DOMAIN acc.allowances THEN acc.allowances[s] ELSE 0
update_allowances(acc, s, n) ==
    [acc EXCEPT !.allowances = [x \in DOMAIN @ \cup {s} |-> IF x = s THEN n ELSE @[x]]]

\* The tree with the given leaves, which stand for the ones it had.
update_all(t, leaves) ==
    LET all == [a \in DOMAIN t \cup DOMAIN leaves |->
                   IF a \in DOMAIN leaves THEN leaves[a] ELSE t[a]]
    IN  Restrict(all, {a \in DOMAIN all : all[a].balance # 0})

\* A Merkle proof for some keys knows the rest of the tree; the root, which is
\* injective in the leaves, is the tree itself.
merkle_proof(t, keys) == Restrict(t, DOMAIN t \ keys)
compute_root(proof, leaves) == update_all(proof, leaves)
verify_proof(proof, root, leaves) == compute_root(proof, leaves) = root

\* An action, and whether its blob names callees.
SmtAction(op, from, to, by, n) ==
    [op |-> op, from |-> from, to |-> to, by |-> by, amount |-> n, callees |-> FALSE]
SmtTransfer(s, r, n)        == SmtAction("Transfer", s, r, s, n)
SmtTransferFrom(o, s, r, n) == SmtAction("TransferFrom", o, r, s, n)
SmtApprove(o, s, n)         == SmtAction("Approve", o, o, s, n)

Ran(s)     == [ok |-> TRUE, root |-> s]
NotRun(s)  == [ok |-> FALSE, root |-> s]

\* Both accounts after the transfer, with from's account as given.
Moved(from, acc, to, toAcc, n) ==
    [x \in {from, to} |->
        IF from = to THEN acc
        ELSE IF x = from THEN [acc EXCEPT !.balance = @ - n]
        ELSE [toAcc EXCEPT !.balance = @ + n]]

----------------------------------------------------------------------------
(* The executor (client/tx_executor_handler.rs).                            *)

inner_handle(t, a) ==
    LET from == get_account(t, a.from)
        left == update_allowances(from, a.by, Allowance(from, a.by) - a.amount)
        pays(acc) == Ran(update_all(t, Moved(a.from, acc, a.to, get_account(t, a.to), a.amount)))
    IN  CASE a.from \notin DOMAIN t -> NotRun(t)
          [] a.from \in DOMAIN t /\ a.op = "Approve" ->
                 Ran(update_all(t, [x \in {a.from} |-> update_allowances(from, a.by, a.amount)]))
          [] a.from \in DOMAIN t /\ a.op # "Approve" /\ a.from = a.to -> Ran(t)
          [] a.from \in DOMAIN t /\ a.op = "Transfer" /\ a.from # a.to ->
                 IF from.balance < a.amount THEN NotRun(t) ELSE pays(from)
          [] a.from \in DOMAIN t /\ a.op = "TransferFrom" /\ a.from # a.to ->
                 IF Allowance(from, a.by) < a.amount \/ from.balance < a.amount
                 THEN NotRun(t) ELSE pays(left)

\* build_commitment_metadata, for a blob that parses.
build_commitment_metadata(t, a) ==
    [commitment |-> t,
     steps |-> <<[proof |-> merkle_proof(t, {a.from, a.to}),
                  accounts |-> [x \in {a.from, a.to} |-> get_account(t, x)]]>>]

\* Mutant of merge_commitment_metadata: the next step is put at the end.
merge_commitment_metadata_Append(initial, next) ==
    [initial EXCEPT !.steps = Append(@, next.steps[1])]

\* merge_commitment_metadata: "in reverse order (last step is 1st calldata)".
merge_commitment_metadata(initial, next) ==
    [initial EXCEPT !.steps = <<next.steps[1]>> \o @]

----------------------------------------------------------------------------
(* The circuit (lib.rs), on a contract [commitment, steps].                 *)

\* transfer_noverif
PayOnRoot(c, step, accs, a) ==
    LET from == accs[a.from] IN
    IF from.balance < a.amount THEN NotRun(c.commitment)
    ELSE Ran(compute_root(step.proof, Moved(a.from, from, a.to, accs[a.to], a.amount)))

CircuitTransfer(c, step, a) ==
    IF ~({a.from, a.to} \subseteq DOMAIN step.accounts) THEN NotRun(c.commitment)
    ELSE IF ~verify_proof(step.proof, c.commitment, Restrict(step.accounts, {a.from, a.to}))
    THEN NotRun(c.commitment)
    ELSE PayOnRoot(c, step, step.accounts, a)

\* transfer_from trusts the accounts it is given: no proof is verified.
CircuitTransferFrom(c, step, a) ==
    IF ~({a.from, a.to} \subseteq DOMAIN step.accounts) THEN NotRun(c.commitment)
    ELSE LET from == step.accounts[a.from]
             left == update_allowances(from, a.by, Allowance(from, a.by) - a.amount)
         IN  IF Allowance(from, a.by) < a.amount THEN NotRun(c.commitment)
             ELSE PayOnRoot(c, step, [step.accounts EXCEPT ![a.from] = left], a)

CircuitApprove(c, step, a) ==
    IF a.from \notin DOMAIN step.accounts THEN NotRun(c.commitment)
    ELSE LET owner == step.accounts[a.from]
             leaf(acc) == [x \in {a.from} |-> acc]
         IN  IF ~verify_proof(step.proof, c.commitment, leaf(owner)) \/ owner.balance = 0
             THEN NotRun(c.commitment)
             ELSE Ran(compute_root(step.proof, leaf(update_allowances(owner, a.by, a.amount))))

\* ZkContract::execute pops the last step, whatever becomes of the action.
CircuitExecute(c, a) ==
    LET step == c.steps[Len(c.steps)]
        r == CASE a.op = "Transfer"     -> CircuitTransfer(c, step, a)
               [] a.op = "TransferFrom" -> CircuitTransferFrom(c, step, a)
               [] a.op = "Approve"      -> CircuitApprove(c, step, a)
    IN  [ok |-> r.ok, commitment |-> r.root, steps |-> SubSeq(c.steps, 1, Len(c.steps) - 1)]

\* guest::execute, over the calldata of a batch: the outputs.  An output with callees
\* nobody consumed says failure, but the contract is not reverted.
Output(ok, callees, before, after) ==
    [success |-> ok /\ ~callees, initial |-> before, next |-> after]
guest_execute(metadata, cs) ==
    LET run[k \in 0..Len(cs)] ==
            IF k = 0 THEN [c |-> metadata, outs |-> <<>>]
            ELSE LET prev == run[k - 1]
                     c == CircuitExecute(prev.c, cs[k].act)
                 IN  [c |-> [commitment |-> c.commitment, steps |-> c.steps],
                      outs |-> Append(prev.outs, Output(c.ok, cs[k].act.callees,
                                                        prev.c.commitment, c.commitment))]
    IN  run[Len(cs)].outs

----------------------------------------------------------------------------
(* The prover's loop over the blobs of a batch (modules/prover.rs).         *)

SmtInit ==
    /\ tree = [a \in {FaucetId} |-> NewAccount(Supply)]
    /\ txTree = tree
    /\ txBlobs = 0
    /\ meta = NoMeta
    /\ calls = <<>>
    /\ panicked = FALSE
    /\ blobs = 0
    /\ odd = FALSE

Proving == ~panicked /\ ~odd

\* The metadata with the step of one more blob.
Merged(a) ==
    LET next == build_commitment_metadata(tree, a) IN
    IF meta = NoMeta THEN next ELSE merge_commitment_metadata(meta, next)

\* What executor and circuit do not agree about: a transfer to oneself (the executor
\* changes nothing and checks only that the account exists, the circuit checks the
\* balance and lowers the allowance), and one of nothing by an unknown account.
Differs(a) ==
    \/ a.op # "Approve" /\ a.from = a.to
    \/ a.op # "Approve" /\ a.from \notin DOMAIN tree /\ a.amount = 0

\* The transaction failed: the state before it stands, although the circuit keeps what
\* its earlier blobs did.
FailTx == tree' = txTree /\ txTree' = txTree /\ txBlobs' = 0

\* A blob that parses and whose links agree.
HandleBlob(a) ==
    LET r == inner_handle(tree, a)
        out == Output(r.ok, a.callees, tree, r.root)
    IN  /\ Proving /\ blobs < MaxBlobs
        /\ blobs' = blobs + 1
        /\ meta' = Merged(a)
        /\ calls' = Append(calls, [act |-> a, out |-> out])
        /\ IF out.success
           THEN tree' = r.root /\ txBlobs' = txBlobs + 1 /\ UNCHANGED txTree
           ELSE FailTx
        /\ odd' = (odd \/ Differs(a) \/ (~out.success /\ txBlobs > 0) \/ (r.ok /\ a.callees))
        /\ UNCHANGED panicked

\* A blob whose links disagree: its step is merged, handle fails, no calldata is pushed.
HandleMislinked(a) ==
    /\ Proving /\ blobs < MaxBlobs
    /\ blobs' = blobs + 1
    /\ meta' = Merged(a)
    /\ FailTx
    /\ odd' = TRUE
    /\ UNCHANGED <<calls, panicked>>

\* A blob that does not parse has no step: alone it is skipped, merged it is a panic.
HandleUnparsed ==
    /\ Proving /\ blobs < MaxBlobs
    /\ blobs' = blobs + 1
    /\ IF meta = NoMeta
       THEN /\ meta' = [commitment |-> tree, steps |-> <<>>]
            /\ FailTx
            /\ UNCHANGED panicked
       ELSE /\ panicked' = TRUE
            /\ UNCHANGED <<meta, tree, txTree, txBlobs>>
    /\ odd' = (odd \/ txBlobs > 0)
    /\ UNCHANGED calls

\* The next blob is of another transaction.
NextTx ==
    /\ Proving /\ txBlobs > 0
    /\ txTree' = tree
    /\ txBlobs' = 0
    /\ UNCHANGED <<tree, meta, calls, panicked, blobs, odd>>

\* The batch is handed to the prover; the next one starts from the executor's state.
NextBatch ==
    /\ Proving /\ txBlobs = 0 /\ meta # NoMeta
    /\ meta' = NoMeta
    /\ calls' = <<>>
    /\ UNCHANGED <<tree, txTree, txBlobs, panicked, blobs, odd>>

SmtActions ==
    {SmtTransfer(s, r, n) : s, r \in Accounts, n \in SmtAmounts}
    \cup {SmtTransferFrom(o, s, r, n) : o, s, r \in Accounts, n \in SmtAmounts}
    \cup {SmtApprove(o, s, n) : o, s \in Accounts, n \in SmtAmounts}

\* Blobs that name callees, or whose links are wrong: the action does not matter.
Linked == {SmtTransfer(FaucetId, r, 1) : r \in Accounts}

SmtNext ==
    \/ \E a \in SmtActions \cup {[l EXCEPT !.callees = TRUE] : l \in Linked} : HandleBlob(a)
    \/ \E a \in Linked : HandleMislinked(a)
    \/ HandleUnparsed
    \/ NextTx
    \/ NextBatch

----------------------------------------------------------------------------

\* The proof of a batch says what the executor announced: run on the root and the
\* steps alone, the circuit gives for every blob of the batch the same verdict, from
\* the same state to the same state.  Without it the outputs do not chain and the
\* transactions never settle.  Batches with a blob of the kinds the two treat
\* differently are left out.
CircuitAgrees ==
    ~odd /\ meta # NoMeta =>
        guest_execute(meta, calls) = [k \in DOMAIN calls |-> calls[k].out]
=============================================================================
