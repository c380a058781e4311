----------------------------- MODULE Contracts -----------------------------
(***************************************************************************)
(* The contracts every Hyli network starts with, run by the client SDK's   *)
(* TxExecutor: the Hyllar token, the staking contract, the AMM and the     *)
(* hydentity passwords.  A transaction is an identity and a sequence of    *)
(* blobs, each for one contract; blobs may name a caller and callees among *)
(* the others.  Every contract sees the whole transaction but only its own *)
(* state, so that what ties their states together (a stake is paid for by  *)
(* the transfer in the next blob, a swap by two callees) rests on those    *)
(* checks alone.  The consensus keeps a second copy of the staking state,  *)
(* fed with the staking blobs of settled transactions, where it also       *)
(* charges data dissemination.                                             *)
(***************************************************************************)
EXTENDS Integers, Sequences, FiniteSets, Functions

CONSTANTS
    Tokens,        \* names of the contracts that run Hyllar, "hyllar" among them, in string order
    Users,         \* identities that send transactions
    Validators,    \* public keys of validators, also naming their identities
    Lanes,         \* the validators whose lanes grow
    TotalSupply,   \* TOTAL_SUPPLY of each token
    MinStake,      \* MIN_STAKE
    Amounts,       \* amounts that appear in blobs
    MaxSteps,      \* bound on transactions settled and slots committed
    MaxSize        \* bound on the cumulated size of a lane

ASSUME TokensAssumption == Tokens # <<>> /\ Tokens[1] = "hyllar"

VARIABLES
    world,         \* States of the executor: token, pairs, staking, ids
    staking,       \* the consensus' own Staking
    steps,         \* how many transactions were settled and slots committed
    reversed       \* whether a pair was created with its tokens out of order (history)

contractVars == <<world, staking, steps, reversed>>

TokenSet == Range(Tokens)
Faucet == "faucet@hydentity"

Put(f, k, v) == [x \in DOMAIN f \cup {k} |-> IF x = k THEN v ELSE f[x]]
Get(f, k) == IF k \in DOMAIN f THEN f[k] ELSE 0
Empty == [x \in {} |-> 0]
SumOf(f) == FoldFunction(LAMBDA a, b : a + b, 0, f)

\* op(... op(op(base, s[1]), s[2]) ..., s[n])
InTurn(op(_, _), base, s) ==
    LET acc[k \in 0..Len(s)] == IF k = 0 THEN base ELSE op(acc[k - 1], s[k])
    IN  acc[Len(s)]

\* What a contract returns: its verdict and its state, which an execution that
\* failed may leave changed.
Done(s)   == [ok |-> TRUE, st |-> s]
Failed(s) == [ok |-> FALSE, st |-> s]

----------------------------------------------------------------------------
(* Blobs, their callers and their callees (contract-sdk/utils.rs).          *)

NoCallees == <<0>>
Blob(c, a)            == [contract |-> c, act |-> a, caller |-> 0, callees |-> NoCallees]
Calling(b, is)        == [b EXCEPT !.callees = is]
CalledBy(b, i)        == [b EXCEPT !.caller = i]

\* Hydentity's blobs are the only ones that are not StructuredBlobs.
Structured(b) == b.contract # "hydentity"

CalleesOf(blobs, i) ==
    SelectSeq([j \in DOMAIN blobs |-> j],
              LAMBDA j : Structured(blobs[j]) /\ blobs[j].caller = i)

\* check_caller_callees: the links of blob i agree with those of the others.
LinksAgree(blobs, i) ==
    LET b == blobs[i] IN
    /\ b.callees # NoCallees => b.callees = CalleesOf(blobs, i)
    /\ IF b.caller # 0
       THEN /\ b.caller # i
            /\ b.caller \in DOMAIN blobs
            /\ Structured(blobs[b.caller])
            /\ blobs[b.caller].callees # NoCallees
            /\ i \in Range(blobs[b.caller].callees)
       ELSE \A j \in DOMAIN blobs :
                Structured(blobs[j]) /\ blobs[j].callees # NoCallees
                    => i \notin Range(blobs[j].callees)

\* The caller a blob acts for: a contract, or the identity that sent the transaction.
CallerOf(tx, i) ==
    IF tx.blobs[i].caller # 0 THEN tx.blobs[tx.blobs[i].caller].contract ELSE tx.identity

\* is_in_callee_blobs: the first of the callees left that is this action for this contract.
Matching(blobs, left, contract, act) ==
    {k \in DOMAIN left : blobs[left[k]].contract = contract /\ blobs[left[k]].act = act}
Without(left, k) == SubSeq(left, 1, k - 1) \o SubSeq(left, k + 1, Len(left))
Consume(blobs, left, contract, act) ==
    LET m == Matching(blobs, left, contract, act)
        k == CHOOSE k \in m : \A l \in m : k <= l
    IN  IF m = {} THEN [found |-> FALSE, left |-> left]
        ELSE [found |-> TRUE, left |-> Without(left, k)]

----------------------------------------------------------------------------
(* Hyllar.                                                                  *)

Hyllar(holder) == [balances |-> [a \in {holder} |-> TotalSupply], allowances |-> Empty]

Credited(balances, to, n) == Put(balances, to, Get(balances, to) + n)
hyllar_transfer(t, sender, recipient, amount) ==
    IF sender \notin DOMAIN t.balances \/ Get(t.balances, sender) < amount THEN Failed(t)
    ELSE Done([t EXCEPT !.balances = Credited([@ EXCEPT ![sender] = @ - amount], recipient, amount)])

hyllar_transfer_from(t, owner, spender, recipient, amount) ==
    IF \/ Get(t.allowances, <<owner, spender>>) < amount
       \/ owner \notin DOMAIN t.balances \/ Get(t.balances, owner) < amount
    THEN Failed(t)
    ELSE hyllar_transfer([t EXCEPT !.allowances =
                             Put(@, <<owner, spender>>, Get(@, <<owner, spender>>) - amount)],
                         owner, recipient, amount)

hyllar_approve(t, owner, spender, amount) ==
    Done([t EXCEPT !.allowances = Put(@, <<owner, spender>>, amount)])

execute_token_action(t, caller, a) ==
    CASE a.op = "Transfer"     -> hyllar_transfer(t, caller, a.recipient, a.amount)
      [] a.op = "TransferFrom" -> hyllar_transfer_from(t, a.owner, caller, a.recipient, a.amount)
      [] a.op = "Approve"      -> hyllar_approve(t, caller, a.spender, a.amount)
      [] a.op = "BalanceOf"    -> IF a.account \in DOMAIN t.balances THEN Done(t) ELSE Failed(t)

Transfer(to, n)            == [op |-> "Transfer", recipient |-> to, amount |-> n]
TransferFrom(owner, to, n) == [op |-> "TransferFrom", owner |-> owner, recipient |-> to, amount |-> n]
Approve(spender, n)        == [op |-> "Approve", spender |-> spender, amount |-> n]

----------------------------------------------------------------------------
(* Staking, as the contract and as the consensus run it.                    *)

NewStaking ==
    [stakes |-> Empty, delegations |-> Empty, deposits |-> Empty,
     bonded |-> {}, total_bond |-> 0, paid |-> Empty]

stake(s, staker, amount) ==
    IF staker \in DOMAIN s.stakes THEN Failed(s)
    ELSE Done([s EXCEPT !.stakes = Put(@, staker, amount)])

\* delegations: the validator each staker delegated to.
delegate_to(s, staker, validator) ==
    IF staker \in DOMAIN s.delegations THEN Failed(s)
    ELSE Done([s EXCEPT !.delegations = Put(@, staker, validator)])

\* deposits: the fee balance of each validator, which charges may make negative.
deposit_for_fees(s, holder, amount) ==
    Done([s EXCEPT !.deposits = Put(@, holder, Get(@, holder) + amount)])

staking_action(s, staker, a) ==
    CASE a.op = "Stake"    -> stake(s, staker, a.amount)
      [] a.op = "Delegate" -> delegate_to(s, staker, a.validator)
      [] a.op = "Deposit"  -> deposit_for_fees(s, a.holder, a.amount)

\* The blob after a stake or a deposit pays for it.
check_transfer_blob(blobs, i, amount) ==
    /\ i \in DOMAIN blobs
    /\ blobs[i].contract = "hyllar"
    /\ blobs[i].act = Transfer("staking", amount)

execute_staking(s, tx, i) ==
    LET a == tx.blobs[i].act IN
    IF a.op \in {"Stake", "Deposit"} /\ ~check_transfer_blob(tx.blobs, i + 1, a.amount)
    THEN Failed(s)
    ELSE staking_action(s, CallerOf(tx, i), a)

delegators(s, v) == {d \in DOMAIN s.delegations : s.delegations[d] = v}
get_stake(s, v) == SumOf([d \in delegators(s, v) |-> Get(s.stakes, d)])

bond(s, v) ==
    IF v \in s.bonded \/ delegators(s, v) = {} \/ get_stake(s, v) < MinStake THEN Failed(s)
    ELSE Done([s EXCEPT !.bonded = @ \cup {v}, !.total_bond = @ + get_stake(s, v)])

\* distribute, for the charge of one lane: its fees are shared among the bonded.
Taken(s, lane, size) ==
    [s EXCEPT !.deposits = Put(@, lane, Get(@, lane) - (size - Get(s.paid, lane))),
              !.paid = Put(@, lane, size)]
Shared(s, each) ==
    [s EXCEPT !.deposits = [v \in DOMAIN @ \cup s.bonded |->
                               IF v \in s.bonded THEN Get(@, v) + each ELSE @[v]]]
distribute_one(s, lane, size) ==
    IF lane \notin DOMAIN s.deposits \/ size < Get(s.paid, lane) THEN Failed(s)
    ELSE Done(Shared(Taken(s, lane, size), (size - Get(s.paid, lane)) \div Cardinality(s.bonded)))

\* The charges of a slot, in order; an error leaves the earlier ones applied and drops the rest.
distribute(s, charges) ==
    InTurn(LAMBDA r, c : IF r.ok THEN distribute_one(r.st, c[1], c[2]) ELSE r, Done(s), charges)

----------------------------------------------------------------------------
(* The AMM.  A pair is kept under its tokens in string order, with the      *)
(* amounts in the order the creator gave them.                              *)

IndexOf(t) == CHOOSE k \in DOMAIN Tokens : Tokens[k] = t
InOrder(a, b) == IndexOf(a) <= IndexOf(b)

create_new_pair(pairs, pair, amounts) ==
    IF pair[1] = pair[2] \/ Range(pair) \in DOMAIN pairs THEN Failed(pairs)
    ELSE Done(Put(pairs, Range(pair), amounts))

\* verify_swap changes the reserves before it checks the amount asked for.
Checked(pairs, to, expected) ==
    IF to > expected \/ to < (expected * 98) \div 100 THEN Failed(pairs) ELSE Done(pairs)
Swapped(pairs, key, i, from, to, expected) ==
    Checked([pairs EXCEPT ![key] = [@ EXCEPT ![i] = @ + from, ![3 - i] = @ - expected]],
            to, expected)
SwapOn(pairs, key, i, from, to) ==
    LET reserves == pairs[key] IN
    IF reserves[i] + from = 0 THEN Failed(pairs)
    ELSE Swapped(pairs, key, i, from, to,
                 reserves[3 - i] - ((reserves[1] * reserves[2]) \div (reserves[i] + from)))
verify_swap(pairs, pair, from, to) ==
    IF pair[1] = pair[2] \/ Range(pair) \notin DOMAIN pairs THEN Failed(pairs)
    ELSE SwapOn(pairs, Range(pair), IF InOrder(pair[1], pair[2]) THEN 1 ELSE 2, from, to)

\* The two blobs an AMM action must have among its callees.
Expects(caller, a) ==
    << <<a.pair[1], TransferFrom(caller, "amm", a.amounts[1])>>,
       <<a.pair[2], IF a.op = "Swap" THEN Transfer(caller, a.amounts[2])
                    ELSE TransferFrom(caller, "amm", a.amounts[2])>> >>

AmmAction(pairs, a) ==
    IF a.op = "Swap" THEN verify_swap(pairs, a.pair, a.amounts[1], a.amounts[2])
    ELSE create_new_pair(pairs, a.pair, a.amounts)
WithLeft(r, left) == [ok |-> r.ok, st |-> r.st, left |-> left]
AmmAfter(pairs, a, first, second) ==
    WithLeft(IF first.found /\ second.found THEN AmmAction(pairs, a) ELSE Failed(pairs), second.left)
AmmOn(pairs, tx, a, e, first) ==
    AmmAfter(pairs, a, first, Consume(tx.blobs, first.left, e[2][1], e[2][2]))
AmmExpecting(pairs, tx, i, e) ==
    AmmOn(pairs, tx, tx.blobs[i].act, e,
          Consume(tx.blobs, CalleesOf(tx.blobs, i), e[1][1], e[1][2]))
execute_amm(pairs, tx, i) == AmmExpecting(pairs, tx, i, Expects(CallerOf(tx, i), tx.blobs[i].act))

----------------------------------------------------------------------------
(* Hydentity: a name, the hash of a name and a password, a nonce.           *)

\* The identity is inserted before the check that it is new.
register_identity(ids, account, hash, password) ==
    LET added == Put(ids, account, [hash |-> <<account, password>>, nonce |-> 0]) IN
    IF hash # <<account, password>> THEN Failed(ids)
    ELSE IF account \in DOMAIN ids THEN Failed(added)
    ELSE Done(added)

verify_identity(ids, account, nonce, password) ==
    IF account \notin DOMAIN ids THEN Failed(ids)
    ELSE IF nonce # ids[account].nonce \/ ids[account].hash # <<account, password>> THEN Failed(ids)
    ELSE Done([ids EXCEPT ![account].nonce = @ + 1])

execute_hydentity(ids, a) ==
    IF a.op = "Register" THEN register_identity(ids, a.account, a.hash, a.password)
    ELSE verify_identity(ids, a.account, a.nonce, a.password)

----------------------------------------------------------------------------
(* TxExecutor.                                                              *)

\* StateUpdater::execute: the contract of blob i runs on its own state.
RunHydentity(w, r) == [ok |-> r.ok, left |-> <<>>, w |-> [w EXCEPT !.ids = r.st]]
RunAmm(w, r)       == [ok |-> r.ok, left |-> r.left, w |-> [w EXCEPT !.pairs = r.st]]
RunStaking(w, r)   == [ok |-> r.ok, left |-> r.left, w |-> [w EXCEPT !.staking = r.st]]
RunToken(w, c, r)  == [ok |-> r.ok, left |-> r.left, w |-> [w EXCEPT !.token[c] = r.st]]
RunStructured(w, tx, i, c, left) ==
    CASE c = "amm"     -> RunAmm(w, execute_amm(w.pairs, tx, i))
      [] c = "staking" -> RunStaking(w, WithLeft(execute_staking(w.staking, tx, i), left))
      [] c \in TokenSet ->
             RunToken(w, c, WithLeft(execute_token_action(w.token[c], CallerOf(tx, i),
                                                          tx.blobs[i].act), left))
Run(w, tx, i) ==
    IF ~Structured(tx.blobs[i]) THEN RunHydentity(w, execute_hydentity(w.ids, tx.blobs[i].act))
    ELSE IF ~LinksAgree(tx.blobs, i) THEN [ok |-> FALSE, left |-> <<>>, w |-> w]
    ELSE RunStructured(w, tx, i, tx.blobs[i].contract, CalleesOf(tx.blobs, i))

\* Mutant of HyleOutput: callees left over do not matter.
HyleOutput_AnyCallees(r) == [success |-> r.ok, w |-> r.w]

\* as_hyle_output: a callee nobody consumed is a failure.
HyleOutput(r) == [success |-> r.ok /\ r.left = <<>>, w |-> r.w]

\* process: the blobs in order; one that fails puts every state back.
AllOrNothing(w, r) == IF r.success THEN r ELSE [success |-> FALSE, w |-> w]
process(w, tx) ==
    AllOrNothing(w, InTurn(LAMBDA r, i : IF r.success THEN HyleOutput(Run(r.w, tx, i)) ELSE r,
                           [success |-> TRUE, w |-> w], [i \in DOMAIN tx.blobs |-> i]))

\* process_block: the staking blobs of a settled transaction, for the identity that sent it.
\* An action that fails ends the block's.
process_actions(r, tx) ==
    InTurn(LAMBDA q, b : IF q.ok /\ b.contract = "staking"
                         THEN staking_action(q.st, tx.identity, b.act) ELSE q,
           r, tx.blobs)
process_block(s, tx) == process_actions(Done(s), tx).st

----------------------------------------------------------------------------
(* Transactions.  The client helpers build well-formed ones; a client may   *)
(* also get an amount, a link or a blob wrong.                              *)

Tx(identity, blobs) == [identity |-> identity, blobs |-> blobs]

Stake(n)      == [op |-> "Stake", amount |-> n]
Deposit(v, n) == [op |-> "Deposit", holder |-> v, amount |-> n]
Delegate(v)   == [op |-> "Delegate", validator |-> v]
Amm(op, pair, amounts) == [op |-> op, pair |-> pair, amounts |-> amounts]

TokenTxs(u) ==
    LET acts == {Transfer(to, n) : to \in Users, n \in Amounts}
                \cup {Approve(s, n) : s \in (Users \ {u}) \cup {"amm"}, n \in Amounts}
                \cup {TransferFrom(o, u, n) : o \in Users \ {u}, n \in Amounts}
    IN  {Tx(u, <<Blob(t, a)>>) : t \in TokenSet, a \in acts}

\* A stake or a deposit and the transfer after it: not linked, as the helpers build
\* them, linked as caller and callee, or with one transfer for two claims.
StakingTxs(u) ==
    LET claims == {Stake(n) : n \in Amounts} \cup {Deposit(v, n) : v \in Validators, n \in Amounts}
        pays == {Blob(t, Transfer("staking", n)) : t \in TokenSet, n \in Amounts}
    IN  {Tx(u, <<Blob("staking", c), p>>) : c \in claims, p \in pays}
        \cup {Tx(u, <<Calling(Blob("staking", c), <<2>>), CalledBy(p, 1)>>) : c \in claims, p \in pays}
        \cup {Tx(u, <<Blob("staking", Stake(n)), Blob("staking", Deposit(v, n)),
                       Blob("hyllar", Transfer("staking", n))>>) : v \in Validators, n \in Amounts}
        \cup {Tx(u, <<Blob("staking", Delegate(v))>>) : v \in Validators}

\* An AMM action and its callees, the transfers of possibly other amounts than it
\* claims, and possibly one callee more than it asked for.
AmmTxs(u) ==
    LET pairs == {<<a, b>> : a \in TokenSet, b \in TokenSet}
        amounts == Amounts \X Amounts
        callees(op, pair, x, y) ==
            <<CalledBy(Blob(pair[1], TransferFrom(u, "amm", x)), 1),
              CalledBy(Blob(pair[2], IF op = "Swap" THEN Transfer(u, y)
                                     ELSE TransferFrom(u, "amm", y)), 1)>>
        more(pair, y) == CalledBy(Blob(pair[2], Transfer(u, y)), 1)
    IN  {Tx(u, <<Calling(Blob("amm", Amm(op, pair, n)), <<2, 3>>)>> \o callees(op, pair, n[1], y)) :
            op \in {"Swap", "NewPair"}, pair \in pairs, n \in amounts, y \in Amounts}
        \cup {Tx(u, <<Calling(Blob("amm", Amm("Swap", pair, n)), <<2, 3, 4>>)>>
                       \o callees("Swap", pair, n[1], n[2]) \o <<more(pair, n[2])>>) :
                  pair \in pairs, n \in amounts}

CreatesReversed(tx) ==
    LET a == tx.blobs[1].act IN a.op = "NewPair" /\ ~InOrder(a.pair[1], a.pair[2])

\* A transaction is executed, and settled when every blob of it succeeds.
Settle(tx, r) ==
    /\ r.success
    /\ world' = r.w
    /\ staking' = process_block(staking, tx)
    /\ steps' = steps + 1
    /\ reversed' = (reversed \/ CreatesReversed(tx))
Execute(tx) == steps < MaxSteps /\ Settle(tx, process(world, tx))

\* A slot is committed: the consensus charges the lanes of its cut.
Charge(charges) ==
    /\ steps < MaxSteps
    /\ staking.bonded # {}
    /\ staking' = distribute(staking, charges).st
    /\ steps' = steps + 1
    /\ UNCHANGED <<world, reversed>>

\* A slot is committed that bonds a candidate.
Bond(v) ==
    /\ steps < MaxSteps
    /\ staking' = bond(staking, v).st
    /\ steps' = steps + 1
    /\ UNCHANGED <<world, reversed>>

Charges == LET one == Lanes \X (0..MaxSize) IN {<<c>> : c \in one} \cup {<<c, d>> : c, d \in one}

ContractsNext ==
    \/ \E u \in Users : \E tx \in TokenTxs(u) \cup StakingTxs(u) \cup AmmTxs(u) : Execute(tx)
    \/ \E charges \in Charges : Charge(charges)
    \/ \E v \in Validators : Bond(v)

----------------------------------------------------------------------------
(* Properties.                                                              *)

\* The reserve of a token over the pairs, kept with their tokens in string order.
Reserve(t) ==
    SumOf([key \in {k \in DOMAIN world.pairs : t \in k} |->
              world.pairs[key][IF \E u \in key : IndexOf(u) < IndexOf(t) THEN 2 ELSE 1]])

\* What is owed is there.  Whatever transactions are sent, well formed or not, no
\* token is made or lost; the hyllar account "staking" holds at least what the
\* contract and the consensus hold as stakes and fee balances; and the account
\* "amm" holds at least the reserves the AMM computes with (unless a pair was
\* created with its tokens out of order: create_new_pair then records each amount
\* against the other token).  Each contract sees
\* only its own state: this rests on check_transfer_blob, is_in_callee_blobs,
\* check_caller_callees and the leftover check of as_hyle_output together.
Backed ==
    LET owed(s) == SumOf(s.stakes) + SumOf(s.deposits) IN
    /\ \A t \in TokenSet : SumOf(world.token[t].balances) = TotalSupply
    /\ owed(world.staking) <= Get(world.token["hyllar"].balances, "staking")
    /\ owed(staking) <= Get(world.token["hyllar"].balances, "staking")
    /\ ~reversed => \A t \in TokenSet : Reserve(t) <= Get(world.token[t].balances, "amm")

============================================================================
