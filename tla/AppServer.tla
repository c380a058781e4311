----------------------------- MODULE AppServer -----------------------------
(***************************************************************************)
(* The server of TruthSeeker's app (app_scaffold/server) with its three    *)
(* contracts.  At its start it registers the contracts the indexer does    *)
(* not know; then it turns requests into transactions: an increment has a  *)
(* blob for contract1 and one for contract2 beside the wallet's blobs, a   *)
(* verification one for zkpassport.  It runs provers of the two counters,  *)
(* none of zkpassport: whoever has the guest program may prove that one.   *)
(* A transaction settles when all its blobs are proved for the states the  *)
(* contracts are in (see NodeState), or fails as a whole.                  *)
(***************************************************************************)
EXTENDS Integers, Sequences

LOCAL INSTANCE SequencesExt

CONSTANTS
    Passports,     \* the proofs users send: [named, age, hex, addr, date]
    MaxAppTxs,     \* bound on the transactions sent
    MaxIntruders   \* bound on contracts somebody else registers under one of the names

AppContracts == <<"contract1", "contract2", "zkpassport">>
AppNames == ToSet(AppContracts)
Proven == {"contract1", "contract2"}

VARIABLES
    boot,          \* the server: the contract it initialises, and the stage: "check", "wait",
                   \* "up" or "off"
    programs,      \* the program each name has on chain: "none", "own" or "other"
    registering,   \* names whose registration the server has sent
    sent,          \* how many transactions were sent
    asks,          \* increments to be answered: [tx, stage], with stage "sent" or "listening"
    unsettled,     \* the transactions that wait, in the order they were sequenced
    proofs,        \* outputs that were proved: [c, tx, init, ok, next]
    states,        \* what each contract's commitment on chain stands for
    settled,       \* the transactions that succeeded (history)
    intruders

appVars == <<boot, programs, registering, sent, asks, unsettled, proofs, states, settled, intruders>>

----------------------------------------------------------------------------
(* The contracts.                                                           *)

AppRan(ok, s) == [ok |-> ok, state |-> s]

\* Contract1::execute and Contract2::execute: Increment is all they know.
Contract1Execute(n) == AppRan(TRUE, n + 1)
Contract2Execute(n) == AppRan(TRUE, n + 1)

\* Mutant of zk_verify_identity: a user is added as often as verified.
zk_verify_identity_again(users, p) ==
    IF ~p.named \/ p.age < 18 \/ ~p.hex THEN AppRan(FALSE, users)
    ELSE AppRan(TRUE, Append(users, [addr |-> p.addr, date |-> p.date]))

get_verified_user(users, addr) == SelectSeq(users, LAMBDA u : u.addr = addr)

\* A user who is known already is left as first verified.
zk_verify_identity(users, p) ==
    IF ~p.named \/ p.age < 18 \/ ~p.hex THEN AppRan(FALSE, users)
    ELSE IF get_verified_user(users, p.addr) # <<>> THEN AppRan(TRUE, users)
    ELSE AppRan(TRUE, Append(users, [addr |-> p.addr, date |-> p.date]))

\* Its answer is in the program's output only.
check_verification(users, addr) == AppRan(TRUE, users)

ZKPassportExecute(users, a) ==
    IF a.op = "VerifyIdentity" THEN zk_verify_identity(users, a.proof)
    ELSE check_verification(users, a.addr)

\* The handle of each contract's executor: the states before and after are kept whole in
\* the commitments.
AppOutput(c, tx, s, r) == [c |-> c, tx |-> tx.id, init |-> s, ok |-> r.ok, next |-> r.state]
Handle1(tx, n)       == AppOutput("contract1", tx, n, Contract1Execute(n))
Handle2(tx, n)       == AppOutput("contract2", tx, n, Contract2Execute(n))
HandleZK(tx, users)  == AppOutput("zkpassport", tx, users, ZKPassportExecute(users, tx.act))
AppHandle(c, tx, s) ==
    CASE c = "contract1" -> Handle1(tx, s)
      [] c = "contract2" -> Handle2(tx, s)
      [] c = "zkpassport" -> HandleZK(tx, s)

\* Default states.
AppDefault == [c \in AppNames |-> IF c = "zkpassport" THEN <<>> ELSE 0]

Touches(tx, c) == c \in tx.contracts
QueueOf(c) == SelectSeq(unsettled, LAMBDA tx : Touches(tx, c))

----------------------------------------------------------------------------
(* The start.                                                               *)

AppInit ==
    /\ boot = [at |-> 1, stage |-> "check"]
    /\ programs = [c \in AppNames |-> "none"]
    /\ registering = {} /\ sent = 0 /\ asks = {} /\ unsettled = <<>> /\ proofs = {}
    /\ states = AppDefault
    /\ settled = <<>> /\ intruders = 0

\* init_node goes on to the next contract; main builds the modules after the last.
Initialised ==
    boot' = IF boot.at = Len(AppContracts) THEN [boot EXCEPT !.stage = "up"]
            ELSE [at |-> boot.at + 1, stage |-> "check"]

init_contract ==
    LET c == AppContracts[boot.at] IN
    /\ boot.stage = "check"
    /\ \/ programs[c] = "own" /\ Initialised /\ UNCHANGED registering
       \/ programs[c] = "other" /\ boot' = [boot EXCEPT !.stage = "off"] /\ UNCHANGED registering
       \/ /\ programs[c] = "none"
          /\ boot' = [boot EXCEPT !.stage = "wait"]
          /\ registering' = registering \cup {c}
    /\ UNCHANGED <<programs, sent, asks, unsettled, proofs, states, settled, intruders>>

\* Any contract of the name ends the waiting; after 30 seconds without one main returns.
wait_contract_state ==
    /\ boot.stage = "wait"
    /\ \/ programs[AppContracts[boot.at]] # "none" /\ Initialised
       \/ boot' = [boot EXCEPT !.stage = "off"]
    /\ UNCHANGED <<programs, registering, sent, asks, unsettled, proofs, states, settled, intruders>>

\* A registration is sequenced; it fails when the name is taken.
Registered(c) ==
    /\ c \in registering
    /\ registering' = registering \ {c}
    /\ programs' = IF programs[c] = "none" THEN [programs EXCEPT ![c] = "own"] ELSE programs
    /\ UNCHANGED <<boot, sent, asks, unsettled, proofs, states, settled, intruders>>

\* Somebody else takes the name.
Intrude(c) ==
    /\ programs[c] = "none" /\ intruders < MaxIntruders
    /\ programs' = [programs EXCEPT ![c] = "other"]
    /\ intruders' = intruders + 1
    /\ UNCHANGED <<boot, registering, sent, asks, unsettled, proofs, states, settled>>

----------------------------------------------------------------------------
(* Requests.  One without the user's header or that the node refuses leaves *)
(* nothing behind.                                                          *)

SendAppTx(contracts, act) ==
    /\ boot.stage = "up" /\ sent < MaxAppTxs
    /\ sent' = sent + 1
    /\ unsettled' = Append(unsettled, [id |-> sent + 1, contracts |-> contracts, act |-> act])

\* increment and send, up to the answer of the node.
increment ==
    /\ SendAppTx(Proven, [op |-> "Increment"])
    /\ asks' = asks \cup {[tx |-> sent + 1, stage |-> "sent"]}
    /\ UNCHANGED <<boot, programs, registering, proofs, states, settled, intruders>>

\* send subscribes to the prover's events when the transaction is already on its way.
Subscribe(r) ==
    /\ r.stage = "sent"
    /\ asks' = (asks \ {r}) \cup {[r EXCEPT !.stage = "listening"]}
    /\ UNCHANGED <<boot, programs, registering, sent, unsettled, proofs, states, settled, intruders>>

\* Five seconds pass.
GiveUp(r) ==
    /\ r.stage = "listening"
    /\ asks' = asks \ {r}
    /\ UNCHANGED <<boot, programs, registering, sent, unsettled, proofs, states, settled, intruders>>

\* zkpassport_verify answers with the hash at once.  The route takes both actions.
VerifyRequest(act) ==
    /\ SendAppTx({"zkpassport"}, act)
    /\ UNCHANGED <<boot, programs, registering, asks, proofs, states, settled, intruders>>

----------------------------------------------------------------------------
(* Proving and settling.                                                    *)

\* The state c will have when all that wait before tx have been executed.
Speculated(c, tx) ==
    FoldLeft(LAMBDA s, u : IF u.id < tx.id THEN AppHandle(c, u, s).next ELSE s, states[c], QueueOf(c))

\* AutoProverEvent: whoever listens for the transaction is answered.
Announced(c, tx) ==
    IF c = "contract1" THEN asks \ {[tx |-> tx.id, stage |-> "listening"]} ELSE asks

\* A transaction is executed ahead of its settlement, again after an earlier one failed.
ProveApp(c, tx) ==
    LET out == AppHandle(c, tx, Speculated(c, tx)) IN
    /\ Touches(tx, c)
    /\ proofs' = proofs \cup {out}
    /\ asks' = Announced(c, tx)
    /\ UNCHANGED <<boot, programs, registering, sent, unsettled, states, settled, intruders>>

OutputsFor(c, tx) == {p \in proofs : p.c = c /\ p.tx = tx.id /\ p.init = states[c]}

IsFirst(tx) == \A c \in tx.contracts : Head(QueueOf(c)) = tx
\* A transaction leaves; its proofs are of no more use.
Leaves(tx) ==
    /\ unsettled' = SelectSeq(unsettled, LAMBDA u : u # tx)
    /\ proofs' = {p \in proofs : p.tx # tx.id}

\* All its contracts have a proof for their present state: all change, or none.
SettleApp(tx) ==
    /\ IsFirst(tx)
    /\ \A c \in tx.contracts : programs[c] = "own" /\ OutputsFor(c, tx) # {}
    /\ LET out == [c \in tx.contracts |-> CHOOSE p \in OutputsFor(c, tx) : TRUE]
           ok == \A c \in tx.contracts : out[c].ok
       IN  /\ states' = [c \in AppNames |->
                            IF ok /\ c \in tx.contracts THEN out[c].next ELSE states[c]]
           /\ settled' = IF ok THEN Append(settled, tx) ELSE settled
    /\ Leaves(tx)
    /\ UNCHANGED <<boot, programs, registering, sent, asks, intruders>>

\* It times out, or one of the wallet's blobs fails it.
FailApp(tx) ==
    /\ Leaves(tx)
    /\ UNCHANGED <<boot, programs, registering, sent, asks, states, settled, intruders>>

AppActions ==
    [op : {"VerifyIdentity"}, proof : Passports]
    \cup [op : {"CheckVerification"}, addr : {p.addr : p \in Passports}]

AppNext ==
    \/ init_contract \/ wait_contract_state
    \/ \E c \in AppNames : Registered(c) \/ Intrude(c)
    \/ increment
    \/ \E r \in asks : Subscribe(r) \/ GiveUp(r)
    \/ \E act \in AppActions : VerifyRequest(act)
    \/ \E tx \in ToSet(unsettled), c \in AppNames : ProveApp(c, tx)
    \/ \E tx \in ToSet(unsettled) : SettleApp(tx) \/ FailApp(tx)

----------------------------------------------------------------------------

Increments == Len(SelectSeq(settled, LAMBDA tx : tx.act.op = "Increment"))
VerifiedUsers == {tx.act.proof.addr : tx \in {t \in ToSet(settled) : t.act.op = "VerifyIdentity"}}

\* What the app's contracts hold is what has settled, whatever was proved ahead, failed,
\* timed out or was proved again, and in whatever order: every increment counts in both
\* contracts, and a user who was verified, however often and by however many transactions
\* at once, is one user, with the date of the first.
AppStatesTell ==
    /\ states["contract1"] = Increments /\ states["contract2"] = Increments
    /\ Len(states["zkpassport"]) = Cardinality(VerifiedUsers)
    /\ \A addr \in VerifiedUsers :
          LET first == SelectSeq(settled, LAMBDA tx : tx.act.op = "VerifyIdentity"
                                                      /\ tx.act.proof.addr = addr)[1]
          IN  get_verified_user(states["zkpassport"], addr)
                  = <<[addr |-> addr, date |-> first.act.proof.date]>>
=============================================================================
