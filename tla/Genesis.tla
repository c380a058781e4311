------------------------------ MODULE Genesis ------------------------------
(***************************************************************************)
(* How the first block comes to be.  Nobody signs it: every genesis staker *)
(* waits until it has met all the others, executes the same transactions   *)
(* on the contracts' initial states and takes the outcome for the block    *)
(* everybody has.  Peers are met in any order, nodes crash and restart,    *)
(* and a node that starts late meets peers that have blocks already.       *)
(***************************************************************************)
EXTENDS Contracts

CONSTANTS
    Stakers,       \* config.genesis.stakers: the names, in string order
    Others,        \* nodes that are no genesis stakers
    Key,           \* the public key of each node
    KeyOrder,      \* public keys of the stakers, sorted
    StakeOf,       \* config.genesis.stakers: the stake of each name
    FeeDeposit,    \* what each staker deposits for fees
    MaxCrashes,    \* bound on crashes
    None

StakerSet == Range(Stakers)
Nodes == StakerSet \cup Others

ASSUME GenesisAssumption == Stakers # <<>> /\ None \notin Nodes

VARIABLES
    phase,         \* "down", "waiting", "genesis" (block sent) or "joining" (NoGenesis sent)
    met,           \* peer_pubkey: the names inserted, in the order they were
    saved,         \* the flag in genesis.bin
    block,         \* the genesis block the node sent on its bus, None before
    height,        \* the height the node tells its peers
    crashes

genesisVars == <<phase, met, saved, block, height, crashes>>

----------------------------------------------------------------------------
(* The transactions of the block.  Each is built on the states the earlier  *)
(* ones left (verify_identity reads the nonce) and executed at once.        *)

RegisterBlob(id) ==
    Blob("hydentity", [op |-> "Register", account |-> id, hash |-> <<id, "password">>,
                       password |-> "password"])
VerifyBlob(w, id) ==
    Blob("hydentity", [op |-> "Verify", account |-> id, nonce |-> w.ids[id].nonce,
                       password |-> "password"])

generate_register_tx(w, id) == Tx(id, <<RegisterBlob(id)>>)

generate_faucet_tx(w, name) ==
    Tx(Faucet, <<VerifyBlob(w, Faucet),
                 Blob("hyllar", Transfer(Key[name], StakeOf[name] + FeeDeposit))>>)

generate_stake_tx(w, name) ==
    LET v == Key[name] IN
    Tx(v, <<VerifyBlob(w, v),
            Blob("staking", Stake(StakeOf[name])),
            Blob("hyllar", Transfer("staking", StakeOf[name])),
            Blob("staking", Deposit(v, FeeDeposit)),
            Blob("hyllar", Transfer("staking", FeeDeposit)),
            Blob("staking", Delegate(v))>>)

\* What the faucet has left goes to the wallet.
generate_token_tx(w) ==
    Tx(Faucet, <<VerifyBlob(w, Faucet),
                 Blob("hyllar", Transfer("hyli@wallet", w.token["hyllar"].balances[Faucet]))>>)

\* The supply of an SMT token goes there too; the executor has no state for it and
\* runs only the identity's blob, the transfer's output is written by hand.
generate_smt_tx(w) == Tx(Faucet, <<VerifyBlob(w, Faucet)>>)

GenesisTx(w, step) ==
    CASE step[1] = "register" -> generate_register_tx(w, step[2])
      [] step[1] = "faucet"   -> generate_faucet_tx(w, step[2])
      [] step[1] = "stake"    -> generate_stake_tx(w, step[2])
      [] step[1] = "token"    -> generate_token_tx(w)
      [] step[1] = "smt"      -> generate_smt_tx(w)

\* generate_genesis_txs, for the peers in the order of the map.
GenesisSteps(peers) ==
    <<<<"register", Faucet>>>>
    \o [k \in DOMAIN peers |-> <<"register", Key[peers[k]]>>]
    \o [k \in DOMAIN peers |-> <<"faucet", peers[k]>>]
    \o [k \in DOMAIN peers |-> <<"stake", peers[k]>>]
    \o <<<<"token", None>>, <<"smt", "oranj">>, <<"smt", "oxygen">>, <<"smt", "vitamin">>>>

\* genesis_contracts_txs: the states the contracts are registered with.
InitialWorld ==
    [token   |-> [t \in TokenSet |-> Hyllar(Faucet)],
     pairs   |-> Empty,
     staking |-> NewStaking,
     ids     |-> Empty]

\* Any transaction that fails fails the block.
Added(g, tx, r) == [ok |-> r.success, w |-> r.w, txs |-> Append(g.txs, tx)]
Executed(g, tx) == Added(g, tx, process(g.w, tx))
GenesisRun(peers) ==
    InTurn(LAMBDA g, step : IF g.ok THEN Executed(g, GenesisTx(g.w, step)) ELSE g,
           [ok |-> TRUE, w |-> InitialWorld, txs |-> <<>>], GenesisSteps(peers))

\* Mutant of ByName: the order the peers were met in.
ByName_AsMet(names) == names

\* The order a map keyed by names is read in, and the keys of its names, sorted.
Sorted(S)     == SelectSeq(Stakers, LAMBDA n : n \in S)
SortedKeys(S) == SelectSeq(KeyOrder, LAMBDA v : \E n \in S : Key[n] = v)
ByName(names) == Sorted(Range(names))

\* make_genesis_block: the transactions, and the validators the block bonds.
make_genesis_block(names) ==
    [txs   |-> GenesisRun(ByName(names)).txs,
     bonds |-> SortedKeys(Range(names))]

\* The consensus' staking after it processed the block: the actions, then the bonds.
GenesisStaking(b) ==
    InTurn(LAMBDA r, v : IF r.ok THEN bond(r.st, v) ELSE r,
           InTurn(process_actions, Done(NewStaking), b.txs), b.bonds).st

----------------------------------------------------------------------------

GenesisInit ==
    /\ phase = [n \in Nodes |-> "down"]
    /\ met = [n \in Nodes |-> <<>>]
    /\ saved = [n \in Nodes |-> FALSE]
    /\ block = [n \in Nodes |-> None]
    /\ height = [n \in Nodes |-> 0]
    /\ crashes = 0

\* The block is sent once everybody is known; a transaction that fails ends the node.
Inserted(n, names) ==
    LET all == Range(names) = StakerSet
        made == all /\ GenesisRun(ByName(names)).ok
    IN /\ met' = [met EXCEPT ![n] = names]
       /\ phase' = [phase EXCEPT ![n] = IF made THEN "genesis" ELSE IF all THEN "down" ELSE "waiting"]
       /\ block' = IF made THEN [block EXCEPT ![n] = make_genesis_block(names)] ELSE block

NoGenesis(n) ==
    /\ phase' = [phase EXCEPT ![n] = "joining"]
    /\ UNCHANGED <<met, block>>

\* start and do_genesis, up to where it waits for peers.
StartGenesis(n) ==
    /\ phase[n] = "down"
    /\ IF saved[n] \/ n \notin StakerSet THEN NoGenesis(n) ELSE Inserted(n, <<n>>)
    /\ UNCHANGED <<saved, height, crashes>>

\* do_genesis on PeerEvent::NewPeer, with the height m had when it said hello.
NewPeer(n, m, h) ==
    /\ phase[n] = "waiting"
    /\ m # n /\ phase[m] # "down"
    /\ h \in 0..height[m]
    /\ m \in StakerSet
    /\ IF h > 0 THEN NoGenesis(n)
       ELSE /\ m \notin Range(met[n])
            /\ Inserted(n, Append(met[n], m))
    /\ UNCHANGED <<saved, height, crashes>>

\* start writes genesis.bin after do_genesis returned.
SaveGenesis(n) ==
    /\ phase[n] \in {"genesis", "joining"} /\ ~saved[n]
    /\ saved' = [saved EXCEPT ![n] = TRUE]
    /\ UNCHANGED <<phase, met, block, height, crashes>>

\* The chain starts with the block of a quorum; who joins catches up with it.
HasStarted ==
    3 * SumOf([n \in {m \in StakerSet : phase[m] = "genesis"} |-> StakeOf[n]])
        > 2 * SumOf([n \in StakerSet |-> StakeOf[n]])
Advance(n) ==
    /\ height[n] = 0
    /\ \/ phase[n] = "genesis" /\ HasStarted
       \/ phase[n] = "joining" /\ \E m \in Nodes : height[m] > 0
    /\ height' = [height EXCEPT ![n] = 1]
    /\ UNCHANGED <<phase, met, saved, block, crashes>>

\* A node dies, and finds the height it had on disk again, or not.
Crash(n) ==
    /\ phase[n] # "down"
    /\ crashes < MaxCrashes
    /\ crashes' = crashes + 1
    /\ phase' = [phase EXCEPT ![n] = "down"]
    /\ met' = [met EXCEPT ![n] = <<>>]
    /\ \E h \in {0, height[n]} : height' = [height EXCEPT ![n] = h]
    /\ UNCHANGED <<saved, block>>

GenesisNext ==
    \E n \in Nodes :
        \/ StartGenesis(n)
        \/ \E m \in Nodes, h \in 0..1 : NewPeer(n, m, h)
        \/ SaveGenesis(n)
        \/ Advance(n)
        \/ Crash(n)

GenesisSpec == GenesisInit /\ [][GenesisNext]_genesisVars

----------------------------------------------------------------------------

\* Nobody signs the genesis block, so all must build the same one: whoever builds
\* one, in whatever order it met its peers and however often it crashed before it
\* wrote genesis.bin, builds the block of all configured stakers in the order of
\* their names.
GenesisBlock == make_genesis_block(Stakers)
OneGenesis == \A n \in Nodes : block[n] # None => block[n] = GenesisBlock

============================================================================
