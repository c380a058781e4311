------------------------------- MODULE Wallet -------------------------------
(***************************************************************************)
(* The wallet contract: accounts with a password and session keys, in a    *)
(* sparse Merkle tree.  As for the SMT token the prover runs the contract  *)
(* on the whole tree (client/tx_executor_handler.rs), and the circuit runs *)
(* a batch of blobs on the commitment and one account per blob (lib.rs);   *)
(* the methods of AccountInfo are shared by both.  A transaction has one   *)
(* blob for the wallet.                                                    *)
(***************************************************************************)
EXTENDS Integers, Sequences, Functions

CONSTANTS
    Names,           \* accounts, "hyli" among them
    Hashes,          \* hashes of passwords, as check_secret blobs carry them
    SessionKeys,     \* public keys of session keys
    InviteKeys,      \* public keys that sign invitations
    DefaultKey,      \* DEFAULT_INVITE_CODE_PUBLIC_KEY
    LaneIds,
    Times,           \* timestamps of blocks
    KeyTerms,        \* session keys as they are added: expires, nonce, whitelist, lane
    Nonces,
    MaxWalletBlobs,  \* bound on the blobs handled
    Absent           \* Option::None, AuthMethod::Uninitialized

ASSUME WalletAssumption ==
    /\ "hyli" \in Names /\ DefaultKey \notin InviteKeys
    /\ Absent \notin Hashes \cup SessionKeys \cup InviteKeys \cup LaneIds

VARIABLES
    wallet,          \* Wallet: smt (the registered accounts), invite, salts
    view,            \* initial_commitment_metadata, Absent before the first blob of a batch
    handled,         \* calldatas of the batch, each with the output announced
    now,             \* the timestamp of the block
    blobCount,       \* how many blobs were handled
    apart            \* a blob was handled that executor and circuit treat differently:
                     \* the behaviour is followed no further (history)

walletVars == <<wallet, view, handled, now, blobCount, apart>>

\* AccountInfo::default, whose leaf hashes to zero: to the tree it is not there.
NewInfo == [auth |-> Absent, nonce |-> 0, keys |-> [k \in {} |-> 0]]
InfoOf(smt, acc) == IF acc \in DOMAIN smt THEN smt[acc] ELSE NewInfo
WithInfo(smt, acc, info) ==
    IF info.auth = Absent THEN Restrict(smt, DOMAIN smt \ {acc})
    ELSE [a \in DOMAIN smt \cup {acc} |-> IF a = acc THEN info ELSE smt[a]]

\* get_state_commitment: a hash of the tree's root and of the invite key.
get_state_commitment(smt, invite) == <<smt, invite>>

Accepts(i) == [ok |-> TRUE, info |-> i]
Refuses(i) == [ok |-> FALSE, info |-> i]

----------------------------------------------------------------------------
(* AccountInfo.                                                             *)

\* AuthMethod::verify: the check_secret blob of the transaction has the hash.
AuthVerify(auth, a) == auth # Absent /\ a.secret = auth

\* The blob of the secp256k1 contract is there, and signs for the invite key.
check_for_invite_code(a, invite) == a.signer = invite

handle_registration(i, a) ==
    IF ~AuthVerify(a.auth, a) \/ i.auth # Absent THEN Refuses(i)
    ELSE Accepts([i EXCEPT !.auth = a.auth, !.nonce = a.nonce])

\* use_session_key; the nonce is kept, not checked.
KeyFits(k, a, ts) ==
    /\ k.whitelist # Absent => a.others \subseteq k.whitelist
    /\ k.lane # Absent => k.lane = a.lane
    /\ k.expires > ts
handle_session_key_usage(i, a, ts) ==
    IF a.signer \notin DOMAIN i.keys THEN Refuses(i)
    ELSE IF ~KeyFits(i.keys[a.signer], a, ts) THEN Refuses(i)
    ELSE Accepts([i EXCEPT !.keys[a.signer].nonce = a.nonce])

WalletVerify(i, a) ==
    IF a.nonce <= i.nonce THEN Refuses(i) ELSE Accepts([i EXCEPT !.nonce = a.nonce])
add_session_key(i, a) ==
    IF a.key \in DOMAIN i.keys THEN Refuses(i)
    ELSE Accepts([i EXCEPT !.nonce = @ + 1,
                           !.keys = [k \in DOMAIN @ \cup {a.key} |->
                                        IF k = a.key THEN a.terms ELSE @[k]]])
remove_session_key(i, a) ==
    IF a.key \notin DOMAIN i.keys THEN Refuses(i)
    ELSE Accepts([i EXCEPT !.nonce = @ + 1, !.keys = Restrict(@, DOMAIN @ \ {a.key})])

handle_authenticated_action(i, a) ==
    CASE ~AuthVerify(i.auth, a) -> Refuses(i)
      [] AuthVerify(i.auth, a) /\ a.op = "Verify"    -> WalletVerify(i, a)
      [] AuthVerify(i.auth, a) /\ a.op = "AddKey"    -> add_session_key(i, a)
      [] AuthVerify(i.auth, a) /\ a.op = "RemoveKey" -> remove_session_key(i, a)

AccountAction(i, a, ts) ==
    CASE a.op = "Register" -> handle_registration(i, a)
      [] a.op = "UseKey"   -> handle_session_key_usage(i, a, ts)
      [] a.op \in {"Verify", "AddKey", "RemoveKey"} -> handle_authenticated_action(i, a)

----------------------------------------------------------------------------
(* The executor.                                                            *)

WalletOutput(ok, before, after) == [success |-> ok, initial |-> before, next |-> after]
CommitmentOf(w) == get_state_commitment(w.smt, w.invite)

\* An error of handle itself: no output, no calldata.
Unhandled(w)    == [err |-> TRUE, ok |-> FALSE, w |-> w]
HandledAs(ok, w) == [err |-> FALSE, ok |-> ok, w |-> w]

\* The salt is kept whether or not the registration succeeds.
WithSalt(w, a) ==
    IF a.op # "Register" THEN w
    ELSE [w EXCEPT !.salts = [n \in DOMAIN @ \cup {a.account} |->
                                 IF n = a.account THEN a.salt ELSE @[n]]]
HandledAccount(w, a, r) ==
    HandledAs(r.ok, [WithSalt(w, a) EXCEPT !.smt = WithInfo(@, a.account, r.info)])
actual_handle(w, a, ts) ==
    CASE a.op = "Unparsed" -> Unhandled(w)
      [] a.op = "Update" ->
             IF w.invite # DefaultKey THEN Unhandled(w)
             ELSE HandledAs(TRUE, [w EXCEPT !.invite = a.key])
      [] a.op = "Register" /\ ~check_for_invite_code(a, w.invite) -> Unhandled(w)
      [] a.op \notin {"Unparsed", "Update"}
         /\ (a.op = "Register" => check_for_invite_code(a, w.invite)) ->
             HandledAccount(w, a, AccountAction(InfoOf(w.smt, a.account), a, ts))

\* The account of the blob, and a proof that knows the rest of the tree.
PartialData(w, a) ==
    IF a.op \in {"Unparsed", "Update"} THEN <<>>
    ELSE <<[account |-> a.account, info |-> InfoOf(w.smt, a.account),
            proof |-> Restrict(w.smt, DOMAIN w.smt \ {a.account})]>>
build_wallet_view(w, a) ==
    [commitment |-> CommitmentOf(w), invite |-> w.invite, partial |-> PartialData(w, a)]

\* merge_commitment_metadata: the last account is the first blob's; the invite key is
\* the one of the blob merged last.
merge_wallet_views(initial, next) ==
    [next EXCEPT !.partial = @ \o initial.partial, !.commitment = initial.commitment]

----------------------------------------------------------------------------
(* The circuit, on a view.  It panics when it has no account for a blob, or *)
(* not one of the tree it stands for; no proof is made of the batch then.   *)

After(v, ok) == [panic |-> FALSE, ok |-> ok, v |-> v]
Panicked(v)  == [panic |-> TRUE, ok |-> FALSE, v |-> v]

ZkUpdate(v, a) ==
    IF v.invite # DefaultKey THEN After(v, FALSE)
    ELSE After([v EXCEPT !.invite = a.key, !.commitment = get_state_commitment(a.root, a.key)], TRUE)

ZkCommitted(v, d, r) ==
    IF ~r.ok THEN After(v, FALSE)
    ELSE After([v EXCEPT !.commitment =
                   get_state_commitment(WithInfo(d.proof, d.account, r.info), v.invite)], TRUE)
ZkAccount(v, d, a, ts) ==
    IF v.commitment # get_state_commitment(WithInfo(d.proof, d.account, d.info), v.invite)
    THEN Panicked(v)
    ELSE IF a.op = "Register" /\ ~check_for_invite_code(a, v.invite) THEN After(v, FALSE)
    ELSE ZkCommitted(v, d, IF a.account # d.account /\ a.op # "RemoveKey" THEN Refuses(d.info)
                           ELSE AccountAction(d.info, a, ts))
Popped(v) == [v EXCEPT !.partial = SubSeq(@, 1, Len(@) - 1)]
ZkExecute(v, a, ts) ==
    IF a.op = "Update" THEN ZkUpdate(v, a)
    ELSE IF v.partial = <<>> THEN Panicked(v)
    ELSE ZkAccount(Popped(v), v.partial[Len(v.partial)], a, ts)

\* guest::execute on the calldata of the batch; a panic leaves no outputs.
ZkNext(g, r) ==
    [panic |-> r.panic, v |-> r.v,
     outs |-> IF r.panic THEN <<>>
              ELSE Append(g.outs, WalletOutput(r.ok, g.v.commitment, r.v.commitment))]
ZkOutputs(v, calls) ==
    LET run[k \in 0..Len(calls)] ==
            IF k = 0 THEN [panic |-> FALSE, v |-> v, outs |-> <<>>]
            ELSE IF run[k - 1].panic THEN run[k - 1]
            ELSE ZkNext(run[k - 1], ZkExecute(run[k - 1].v, calls[k].act, calls[k].ts))
    IN  run[Len(calls)].outs

----------------------------------------------------------------------------
(* The prover's loop, a blob at a time (modules/prover.rs).                 *)

Hyli(h) == [NewInfo EXCEPT !.auth = h]

\* construct_state, with and without constructor data.
WalletInit ==
    /\ \/ \E h \in Hashes, k \in InviteKeys :
              wallet = [smt |-> [n \in {"hyli"} |-> Hyli(h)], invite |-> k,
                        salts |-> [n \in {"hyli"} |-> "hyli-random-salt"]]
       \/ wallet = [smt |-> [n \in {} |-> NewInfo], invite |-> DefaultKey,
                    salts |-> [n \in {} |-> ""]]
    /\ view = Absent
    /\ handled = <<>>
    /\ now = CHOOSE t \in Times : \A u \in Times : t <= u
    /\ blobCount = 0
    /\ apart = FALSE

\* Where circuit and executor part: an account's datum without calldata (a registration
\* whose invitation does not hold), a blob merged after the invite key changed, and a new
\* invite key sent with another root than the tree's.
TreatedApart(a, r) ==
    \/ a.op = "Register" /\ r.err
    \/ view # Absent /\ view.invite # wallet.invite
    \/ a.op = "Update" /\ ~r.err /\ a.root # wallet.smt

\* A transaction that failed leaves the state before it.
HandleWith(a, r, next) ==
    /\ blobCount' = blobCount + 1
    /\ view' = IF view = Absent THEN next ELSE merge_wallet_views(view, next)
    /\ handled' = IF r.err THEN handled
                  ELSE Append(handled, [act |-> a, ts |-> now,
                                        out |-> WalletOutput(r.ok, CommitmentOf(wallet), CommitmentOf(r.w))])
    /\ wallet' = IF r.ok THEN r.w ELSE wallet
    /\ apart' = TreatedApart(a, r)
    /\ UNCHANGED now
HandleWallet(a) ==
    /\ ~apart /\ blobCount < MaxWalletBlobs
    /\ HandleWith(a, actual_handle(wallet, a, now), build_wallet_view(wallet, a))

\* The batch is handed to the prover; the next one is of a later block.
NextWalletBatch ==
    /\ ~apart /\ view # Absent
    /\ view' = Absent
    /\ handled' = <<>>
    /\ \E t \in Times : t >= now /\ now' = t
    /\ UNCHANGED <<wallet, blobCount, apart>>

----------------------------------------------------------------------------
(* Blobs, with what the other blobs of the transaction say: the hash of the *)
(* check_secret blob, the signer of the secp256k1 blob, the other contracts.*)

Actions(w) ==
    [op : {"Register"}, account : Names, nonce : Nonces, auth : Hashes \cup {Absent}, salt : {"salt"},
     secret : Hashes \cup {Absent}, signer : InviteKeys \cup {DefaultKey, Absent}]
    \cup [op : {"Verify"}, account : Names, nonce : Nonces, secret : Hashes \cup {Absent}]
    \cup [op : {"AddKey"}, account : Names, key : SessionKeys, terms : KeyTerms, secret : Hashes]
    \cup [op : {"RemoveKey"}, account : Names, key : SessionKeys, secret : Hashes]
    \cup [op : {"UseKey"}, account : Names, nonce : Nonces, signer : SessionKeys \cup {Absent},
          others : {{"hyllar"}, {"hyllar", "amm"}}, lane : LaneIds]
    \cup [op : {"Update"}, key : InviteKeys, root : {w.smt, [n \in {} |-> NewInfo]}]
    \cup [op : {"Unparsed"}]

WalletNext ==
    \/ \E a \in Actions(wallet) : HandleWallet(a)
    \/ NextWalletBatch

----------------------------------------------------------------------------

\* The proof of a batch of wallet blobs says what the executor announced: run on the
\* commitment and one account per blob, the circuit finds every account as its own root
\* says it is, and gives for each blob the same verdict, from the same commitment to the
\* same commitment.  Batches with one of the blobs the two treat differently are left out.
WalletAgrees ==
    ~apart /\ view # Absent =>
        ZkOutputs(view, handled) = [k \in DOMAIN handled |-> handled[k].out]
=============================================================================
