# A TLA+ model of TruthSeeker and the Hyli node it runs on

The repository holds one application and the chain it is deployed to:

* `src/frontend`, `src/Steganography`, `src/app_scaffold`: TruthSeeker itself. A
  Next.js front end that walks a user through a passport proof, a Python image
  steganography server, a passport-proof contract with its server.
* `src/manual_Scaffold/hyli`: the Hyli node (Rust). Consensus, mempool, data
  availability, node state with settlement, prover module, p2p, indexer,
  contracts.
* `src/manual_Scaffold/wallet`: the wallet contract and its server.

Most of the logic that is hard to get right is in the Hyli node, and that is
where the modules here start; TruthSeeker's own path, from the passport proof to the
video that carries its CID, is modelled too. Paths below are relative to
`src/manual_Scaffold/hyli` (`HM` = `crates/hyle-modules/src`) unless they say
otherwise.

## 1. Inventory

| Component | State | Operations | Talks to | Hard part | What makes it correct |
|---|---|---|---|---|---|
| consensus (`src/consensus*`) | `BFTRoundState`: slot, view, parent hash, current proposal, role, votes, acks, tickets, buffered prepares, timeout requests, highest prepare certificate | nine message handlers, `StartNewSlot`, timeout tick, node-state events, restart | other validators over p2p; mempool (cut); data availability (commits); node state (blocks, staking) | messages lost, late, repeated and reordered; view changes; catching up; restarts | one commit stream per validator without gaps, certificates behind every commit, certified view changes, progress with a dead leader |
| node state (`HM/node_state.rs`, `ordered_tx_map.rs`, `timeouts.rs`, `hyle_tld.rs`) | contracts, unsettled transactions with a queue per contract, timeouts by height | one signed block at a time: blob and proof transactions, settlement, timeouts, registration and deletion of contracts | fed by data availability; its events go to the indexer, the consensus, the prover | one settlement triggers others; a transaction in several queues; timeouts of transactions that move up | per-contract order of settlement, state continuity of contracts, no transaction stuck at the head of a queue without a timeout |
| mempool (`src/mempool*`) | a lane per validator (DAG of data proposals), buffered votes and proofs, last cut, pending blocks | transactions received, data proposals made, votes, PoDA, cut queries, sync requests | consensus (cuts), p2p, data availability (blocks built from cuts) | forks of a lane, missing parents, commits arriving before the data | lanes are chains; a cut only points at proposals with f+1 votes; blocks follow the commit order |
| data availability (`src/data_availability*`) | stored blocks, buffered blocks, stream peers, catch-up tasks | block from mempool, block from a peer, client stream | mempool, node state, remote DA clients | blocks out of order, catch-up racing live blocks | blocks are delivered in order of height and exactly once |
| prover module (`HM/modules/prover.rs`) | pending transactions, contract states by transaction, proving buffer | block events, proof production, history | node state events, client | optimistic proofs on states that fail later | proofs are sent for the state the chain will settle on |
| p2p (`crates/hyle-net`, `src/p2p.rs`) | peers, handshakes, sockets, canals | handshake, broadcast, reconnect | every module that sends messages | both ends dial at once, a socket dies while in use | two nodes that know each other reach each other, FIFO per connection |
| indexer, contract state indexer, DA listener | tables, handler states | block events | node state | partial failure in a block | state follows the blocks |
| genesis, single-node consensus | genesis block, height | start-up | consensus, data availability | who creates the block and when peers are known | one genesis block |
| module bus and handler (`HM/modules`, `HM/bus`) | running modules, shutdown order | start, stop, persist | all | shutdown order, lagging receivers | a module's store is saved after its last event |
| contracts (`crates/contracts`, `wallet`, `app_scaffold/contracts`) | balances, allowances, identities, nonces, stakes, session keys | one action per blob | node state, each other through callees | several blobs of one transaction | conservation of tokens, no replay of an identity |
| fees and staking (`crates/contracts/staking`) | stakes, delegations, bonded set, fee balances | staking actions in a committed proposal | consensus | an error in the middle of applying actions | total stake is the sum of delegations |
| TruthSeeker server, front end, steganography | request state | HTTP requests, pages, image codec | node, browser | order of asynchronous calls, reloads, failed calls | a finished video tells the proof that is on chain |

`PROJECT.json` lists the same parts under `components`, and under `hazards` what
is hard to test in them, at the line where it bites.

## 2. What is modelled

### Consensus: `Consensus.tla`

For a fixed sequence `Bonded` of validators with stakes `Stake`.

* `st[n]` is validator *n*'s `BFTRoundState` as one record. `slot`, `view`,
  `parent`, `cp` (`current_proposal`), `tag` (`StateTag`) and `bqc`
  (`buffered_quorum_certificate`) are the shared part; `step`, `votes`, `acks`,
  `ticket` the leader's; `prepares`, `children` are `BufferedPrepares`; `reqs`,
  `tstate`, `hqc` the timeout role's; `synced` is the Joining state; `cmds` holds the
  `StartNewSlot` commands still on the bus, `next` the argument of the tail call
  `on_prepare(child)`, and `commits` the `CommitConsensusProposal` events emitted.
  `applied` is how far the node state has come. `life` counts restarts of *n*: the content a
  leader proposes (timestamp, cut) differs from one life to the next.
* Each handler is an operator from such a record to the record it leaves, with
  the handler's early returns. What the code assigned before a `bail!` stays assigned:
  `on_timeout` adopts a prepare certificate and then fails, `apply_ticket` moves
  the slot before a child is fetched. `Send` and `Broadcast` collect messages, never to the sender,
  which the p2p layer does not serve.
* A proposal is `[slot, born, fees, parent]`: its cut and timestamp are
  abstracted to the view and life in which it was first made, `fees` says whether it
  carries staking actions. `hashed` leaves out what the code's hash leaves out:
  the view. `apply_ticket` takes the staking actions out of the current
  proposal *after* its hash became the parent hash, so afterwards
  `hashed(cp)` is another hash. The model keeps this.
* Certificates are sets of signers over one marker and hash.
* `msgs` only grows. Any message may be delivered late, repeatedly, in any order
  or never. Byzantine validators are not modelled: nobody lies.
* The checks of a proposal's content (`verify_poda`, `verify_timestamp`,
  `verify_staking_actions`) have a free outcome in the slots `RejectSlots`.

| Actions | Code |
|---|---|
| `StartNewSlot` | `ConsensusCommand::StartNewSlot`, `start_round` with its delayed retry |
| `OnPrepare`, `OnSyncReply`, `FastForward` | `on_prepare` with `process_ticket`, buffering and parent fetching |
| `OnPrepareVote`, `OnConfirm`, `OnConfirmAck`, `OnCommit` | the handlers of those names |
| `OnTimeout`, `OnTimeoutCertificate`, `TimeoutTick` | `role_timeout.rs` |
| `OnSyncRequest` | `role_sync.rs` |
| `NewBlock` | `handle_node_state_event` in Joining mode |
| `Restart` | save on shutdown and `wait_genesis` with no genesis |

### Ordered links: `ConsensusFifo.tla`

The same handlers over the network the code really has between two connected
validators: a FIFO queue per pair, nothing lost while both run, and
validators in `Dead` that take no step. It has fairness, so progress can be
stated. It calls the very handlers of `Consensus`: that its steps are steps of `Consensus` holds by construction.

### Node state: `NodeState.tla`

`handle_signed_block` is sequential; what is hard is the order in which users
send, and the loops that one transaction sets off. The block's transactions are
therefore chosen freely from a *batch* (a small set of blob transactions and
verified proof transactions, `Batches`), and the code is cut at its loops:

| Variable | Code |
|---|---|
| `height`, `contracts` | `current_height`, `contracts` (program, state, window) |
| `unsettled` | `OrderedTxMap.map`: per transaction its arrival number, its height (`tx_context`) and the `possible_proofs` of each retained blob |
| `order` | `OrderedTxMap.tx_order`: a queue is the set of its entries, each numbered by its arrival; `push_back` gives the highest number, `retain` keeps the order, the front is the lowest |
| `timeouts` | `Timeouts.by_block` |
| `expiring`, `todo`, `unsettlable` | what the three loops still have to go through: `txs_at_timeout`, `blob_tx_to_try_and_settle`, the result of `settle_txs_until_done` |
| `block` | the parts of `Block` that tell of settlement and of contracts |
| `batch`, `arrivals` | the inputs in use, and the counter behind the numbers |

| Action | Code |
|---|---|
| `NewBlock` | the start of `handle_signed_block`, with `Timeouts::drop` |
| `ClearTimeout` | one turn of `clear_timeouts` |
| `BlobTx` | `handle_blob_tx`, refused or entered (`OrderedTxMap::add`), with its first timeout |
| `ProofTx` | `handle_blob_proof` of each proven blob, with `verify_hyle_output` |
| `SettleNext` | one turn of `settle_txs_until_done`: `try_to_settle_blob_tx` and the whole of `on_settled_blob_tx` |
| `ResetTimeout` | one turn of the loops that set timeouts again |

A transaction of the block is only taken when no loop has anything left
(`Ready`), as in the code. `Outcome(t)` is `try_to_settle_blob_tx`:
`settle_blobs_recursively` builds, blob by blob, all choices of one fitting proof per blob, and the
first in depth-first order (`Precedes`) is the one the recursion returns. `ProofFits`
and `process_proof` keep the checks and the changes of a proof, `handle_blob_for_hyle_tld` those of the
TLD. State commitments and program ids are small integers, hashes of transactions are numbers
because `BTreeSet` orders them, a native verifier's answer is a field of the blob, and the checks of
identities, sizes and signatures that depend only on the transaction are the set `valid` of the
batch. Staking actions, events, metrics and duplicates' reports are left out.

`Sequencing.tla` is the abstract specification: transactions with a set of contracts
arrive in order, and one that takes effect does so after every earlier one with a common
contract has left; anything may leave without an effect. `ImplementsSequencing` maps the
unsettled transactions to its `pending`.

### Mempool: `Mempool.tla`

One lane with its operator `Op` and the validators that store it. Lanes do not
interact: a cut has one entry per lane, and every operation works on one of them.
A data proposal is the sequence of the transaction batches from the start of the lane up to its
own, so its value is its hash and the prefix without the last batch is its parent. `buffered_proposals` is an
`IndexSet`: `props` is a sequence, with the set's insertion and `swap_remove` (`Inserted`, `SwapRemoved`); which
elements of a sequence stay is `Selected`, of `Selection.tla`.

| Variable | Code |
|---|---|
| `node[n]` | `MempoolStore`: `waiting` (`waiting_dissemination_txs`), `props` and `podas` (`buffered_proposals`, `buffered_podas`), `procs` (`processing_dps`), `cached` (`cached_dp_votes`), `bucs` (`blocks_under_contruction`), `start` (`buc_build_start_height`), `last` (`last_ccp`), `known` (`known_contracts`); `LanesStorage`: `lane`, `tip` |
| `disk[n]` | `mempool.bin` and `mempool_lanes_tip.bin`, written at a clean stop |
| `net` | messages sent: any of them may arrive at any time, again, or never |
| `cuts`, `joined` | external: the cuts the consensus committed, and whether a validator's consensus follows them one by one |
| `built` | the `BuiltSignedBlock` events of this life |

| Action | Code |
|---|---|
| `on_new_tx`, `new_data_proposal`, `redisseminate` | `own_lane.rs`: a transaction arrives, the timer makes a proposal, the timer sends again what has too few votes |
| `handle_net_message` | data proposals with the four verdicts of `verify_tx.rs`, votes, PoDA updates, sync requests and replies, each with what follows it (PoDA broadcast, buffered children, blocks completed) |
| `handle_internal_event` | the answer of the processing task |
| `handle_contract_registration` | `mempool.rs`, on the node state's events |
| `Decide`, `Commit` | `handle_querynewcut` and the consensus' decision with `verify_poda`; `handle_consensus_event` with `block_construction.rs` and the lanes' clean-up |
| `Restart`, `Crash` | with and without the files |

### Data availability: `DataAvailability.tla`

Four parties: the joining node's `DataAvailability` with its `NodeState`, the peer it
catches up from, its own mempool, and a `DAListener` that streams from the joiner.
A block is its height; there is one chain.

| Action | Code |
|---|---|
| `BuiltSignedBlock`, `StartedBuildingBlocks` | `handle_mempool_event` |
| `GenesisEvent`, `ask_for_catchup_blocks`, `CatchupBlock` | `start`, `ask_for_catchup_blocks`, the catch-up task and its channel |
| `start_streaming_to_peer`, `StreamBlock`, `PeerBlock` | the server's side: past blocks from the index, new ones by broadcast |
| `start_client`, `processing_next_frame` | `DAListener::start`, with its buffer and reconnection |
| `Disconnect`, `RestartListener`, `Restart` | a broken connection; restarts, clean or not, with a `Blocks::put` torn between its two writes |

`send_ordered` is the last line of `add_processed_block`, once for each block stored: the bus takes the block, or its channel is full, the error
is logged and the block stays stored and broadcast (`unsent`). `ns` and `listener` hold the sets of blocks their node states are made of, so that height 0 before
and after the genesis block are told apart; `taken` and `Handled` are `NodeState::handle_signed_block` with its check of the height.
`handle_signed_block`, `pop_buffer` and `add_processed_block` are operators used by every
action that brings a block; `put` is `Blocks::put` with its two writes.

### Prover module: `AutoProver.tla`

The chain (`log`, `queue`, `state`: blocks that carry new, repeated, failing, timed-out and settled
transactions of one contract, settled by proofs that have been made) and the prover that reads it
block by block: `store` is `AutoProverStore` (`waiting` is `unsettled_txs`, `proving` `proving_txs`, `history` `state_history`, `chain` `tx_chain`), `catch` the
catch-up fields. `handle_node_state_event` is the whole handler of one block
(arrivals, failures, timeouts, successes, replays, the window of transactions proved at once). `prove_supported_blob` splits what is to be proved
into batches (`max_txs_per_proof`), each proved by a task of its own (`tasks`), which ends at any later moment in any order (`send_tx_proof`, into `made`) or gives up
(`ProvingFails`). The handler's wait for its tasks ends after 30 seconds, so the model does not wait. A stop, clean or after an error, saves the store
(`disk`) and kills the tasks in flight, whose outputs go to `lost`; a crash goes back to what was saved last. `Outputs` is what executing one transaction proves; a
contract's state is the set of transactions that changed it.

### P2P: `P2P.tla`

Two nodes that have each other in their configuration. `conns` are the TCP connections ever made with both ends, the
Hello's timestamp and what flows on them; `pool[n]` the socket events waiting for `n`'s server;
`peer[n]`, `connecting[n]`, `tasks[n]`, `jobs[n]` its `peers`, `connecting`, `handshake_clients_tasks` and
`canal_jobs`. Actions: `do_handshake`, `ConnectTo`, `DialFails` (dialling), `Receive` (a socket's reading task),
`handle_p2p_tcp_event` (Hello, Verack, data, Closed, Error, with `handle_peer_update`), `PingPeers`, `send`, `broadcast`,
`actually_send_to`, and the faults `Stall`, `Cut`, `Restart`. What `ConsensusFifo` assumes of a link is
`PeersAgree` and `InOrder` here.

### Indexer node: `Modules.tla`, `Indexer.tla`, `IndexerNode.tla`

* `Modules` is `ModulesHandler`: modules in the order they are built, each told to stop in reverse order when the one after
  it has completed, supervisors with their timeout, the loop's own bus client and what it may miss.
* `Indexer` holds the data: what `handle_processed_block` adds to the buffer, `dump_store_to_db` table by
  table with the keys and references of `src/indexer/migrations` (a statement that violates one aborts the
  SQL transaction, but the rows have left the buffer), and the contract state indexer's handling of a block.
* `IndexerNode` composes them: a chain of blocks (each with one registration, update, deletion, transaction, proof, failure or
  timeout), the listener that feeds both readers over the bus (`queue`, bounded, a send to a module that is gone fails
  it), the two modules, their files and the database, stops, kills and starts.

### Contracts: `Contracts.tla`, `Genesis.tla`, `SmtToken.tla`, `Wallet.tla`, `TokenHistory.tla`

* `Contracts`: Hyllar, staking, AMM and hydentity as pure operators on their states; `HyleOutput` is the guest's
  `as_hyle_output` with its caller and callee checks, `process` the client SDK's `TxExecutor` over all blobs of a
  transaction. `world` is what has settled; `staking` the consensus' own copy of the staking
  state, with `process_block`, `bond` and `distribute`. Transactions are sent well formed and not: payments that are
  missing, of another amount, to another account, of another token, or shared by two claims.
* `Genesis`: stakers meet in any order (`NewPeer`), build the block (`make_genesis_block` runs the genesis
  transactions through `Contracts`), write `genesis.bin`, crash, or find a peer that has blocks already.
* `SmtToken`, `Wallet`: both contracts exist twice, as an executor on the whole tree and as a circuit on a root
  and a few accounts. The state is the executor's tree, the metadata merged over a batch
  and the calldatas with the outputs announced. A Merkle root is the tree it is the root of.

* `TokenHistory` is the wallet server's `history.rs`: the entries each account is shown, made from the callbacks of the
  contract state indexer block by block (sequenced, timed out, failed, successful, in this order), with a blob that does not
  parse, which ends the handling of its block, and transactions sent again. `get_history` is what the server answers.

### TruthSeeker: `AppServer.tla`, `Steganography.tla`, `TruthSeeker.tla`

`AppServer` is `app_scaffold/server` with its contracts: registration of `contract1`, `contract2` and `zkpassport` at the
start, unless the indexer knows the name already (also when somebody else registered it), the requests that become transactions, the
provers of the two counters, and settlement of a transaction over several contracts as `NodeState` does it.
`TruthSeeker` is the page `proof-process/page.tsx`: each variable is one of its states or refs,
each action a handler up to its next `await` or the continuation after it: login, the ZKPassport request with its callbacks, the upload to
IPFS, the Ethereum and Hyli verifications, the camera page, the encryption, and reloads at any moment, which
keep what the session storage holds. `Steganography` is the server: `create_data_border` writes the text's bits around a frame, each
frame from another third on; `encrypt_endpoint` and `decrypt_endpoint` are the whole requests, with the frames
that the compression damages as a free choice. `Applications.tla` puts genesis, contracts, token, wallet, token history, app server and session under
one next-state relation; a behaviour follows one of them (`focus`), and contracts start from the outcome of
genesis.

## 3. Runs

All bounds are constants of the modules and named there.

| Run | Configuration | Shows |
|---|---|---|
| `consensus_views` | three validators, one of stake 2 (f = 1, quorum 3), one slot, two views, proposals with fees, one impatient validator | at the first view change a leader with a prepare certificate reproposes it; two quorums behind every certified commit; certified view changes; the commit stream |
| `consensus_catch_up` | two slots; one validator misses the Commits and must use commit tickets, forced commits or parent fetching | one proposal per view; forced commits stand on a real one |
| `consensus_restart` | three slots from genesis, one restart of any validator, some Confirms lost | no slot is skipped by a validator that rejoins |
| `consensus_fifo` | FIFO links, a dead validator | every slot is committed by every live validator (liveness) |
| `consensus_agreement` (violation) | two views | two proposals of one slot are committed |
| `node_state` | six batches of three or four transactions over up to six contracts, four blocks, windows of one and two blocks, the change of rule after block 2 | map and queues agree; settlement in the order of arrival; nothing that could settle waits; what is next has a timeout; the loops end; followers of the blocks know the contracts |
| `mempool` | an operator and a validator, a registration and a proof for it, two cuts, one restart or crash; the operator alone makes a PoDA, or needs the other | committed cuts follow one chain; signatures stand for stored data; a block holds exactly what its cut adds, once; no slot is forgotten after the announced start; the operator still stores what it is asked for |
| `data_availability` | two blocks after genesis, at most one in the past, one fault | the store is a chain and the buffer holds only what waits; `NodeState` is made of the stored blocks that the bus took and refuses one exactly when an earlier one was kept from it; catching up ends no sooner than it may; the listener comes to every stored block (liveness) |
| `prover` | three transactions, five blocks, a window of two proved in two batches, one restart or crash, two outputs lost | the prover never stops with a state mismatch; its history is the speculation it should be; a proof of the first transaction for the state on chain is sent or under way unless that very one was lost |
| `p2p` | three connections, two messages, one fault | once everything has settled each node reaches the other, on one connection that both keep unless the reader of an earlier one was left on; a connection delivers in order |
| `indexer_node` | four blocks without a fault, three with one, two with two; a buffer of three queries, a bus of one event | tables tell the chain; blocks are whole; the replica follows; nobody is cut off; a process told to stop ends (liveness) |
| `applications` | three stakers and one crash; three transactions or slots after genesis; three token blobs; three wallet blobs; four blocks with three token transactions; two transactions of the app; three proofs, videos of up to two frames | tokens are conserved and what is owed is there; one genesis block; executor and circuit agree (token and wallet, `CircuitsAgree`); the history shown is what the chain made of a transaction; the app's contracts hold what has settled; the video tells the proof on chain |

**Why these bounds.** Three validators with stakes 1, 1, 2 are the smallest
instance where f is 1 and where neither one nor two of them are always a
quorum: {2, 1} is one, {1, 1} is not. Two views allow one view change with a leader of
each side; two slots allow every path from a slot to the next, `ForceCommit` needs exactly
two; three slots let a restarted validator be two behind. The sets `Impatient`
and `Lost` limit who times out first and what goes missing, so that the state
space of the remaining interleavings is exhausted. `MaxSlot` and `MaxView` only bound
the commands that open new rounds. Deadlock checking is off where the bound
makes the protocol stop.

For the node state, each batch is built around one way in which transactions get in each other's
way (`MCNodeState`): crossing queues, a proof before its turn, registration and a nuke, deletion
and registration of a contract in use, native blobs with alternative proofs and
a proof that reads another contract, subdomains and updates. The batches can be sent in any order, again
after they left, and spread over blocks in any way. Three arrivals put three transactions in one queue, or send one again behind another;
windows of one and two blocks within four blocks let a timeout be set, moved and met on either side of
`ForkHeight`, which stands for height 445 000; one proof per blob on top of native and forced
ones (`MaxProofs`) still gives several proof choices, because a nuke adds a second. The
run stops at `MaxHeight`, so deadlock is not checked.

For the other runs:

* **mempool.** Two proposals are the fewest with a parent to miss, two cuts the fewest with a block between two of them; votes,
  verdicts and cuts are then exhausted for a stake with which the operator decides alone and one with which it does not.
* **data_availability.** Height 0 is the genesis, 1 the first block that has a parent, 2 the first that can overtake. `MaxFaults` 1,
  a broken connection, a restart, a crash or a send to a full bus at every point, finds each of the exceptions below when its guard is taken out.
* **prover.** Three transactions put one before and one behind a failing one; one of them depends on another's success, one
  is an error to execute, one may be sent again. Five blocks let a block settle, fail and time out at once after the others have
  arrived, and a prover lag behind by `MaxLag`. `MaxPerProof` 1 splits a window into two tasks, `MaxLost` 2 lets both fail.
* **p2p.** Both nodes dial, a third connection is a redial; with messages there are two connections. One fault
  is any of a failed dial, a stalled writer, a cut or a restart.
* **indexer_node.** Four blocks register, use, delete and register a contract again; the buffer of three queries cuts them into dumps
  everywhere. A second fault lets a crash follow a database error.
* **applications.** Three stakers meet in two orders at each; `Others` is empty because a node that is not a staker leaves
  `do_genesis` at once and is never counted. Amounts 1 and 2 tell too little from enough; a supply of 20 covers what genesis hands
  out. Three blobs put one before and one after a failing one in a batch. Three proofs allow a refused one, one uploaded, one submitted. Characters of 2 bits, a
  border of 7 and a corner of 8 keep the data longer than a third and shorter than the corner.

These runs stop at their bounds, so deadlock is not checked. `Consensus.TypeOK` is a theorem; `DataAvailability.TypeOK` is
part of an inductive invariant that is proved; `NodeState.TypeOK` gives the shape of its state. They are in no run.

**Fairness** (`ConsensusFifo`). Weak fairness of delivery on each link (TCP
streams read by a task that never stops), of the handling of a `StartNewSlot`
command (the module's bus), and of the timeout ticker, which `tokio::select!` polls
for ever. A timeout is only taken once the leader is dead, which stands for a timeout longer than
a round. A `SyncRequest` reaches everyone in the model where the code
asks one random validator; the property was also checked with no such request ever
answered, so it does not rest on that choice.

**Fairness** (`DataAvailability`, for `ListenerCatchesUp`). The server's streaming to the listener, the listener's
connection loop (it reconnects whenever the stream ends) and its reading of frames: three tasks that
never stop by themselves. Nothing is fair on the joiner's side: whether it catches up depends on peers.

**Fairness** (`IndexerNode`, for `Ends`). A module told to stop leaves its loop (`module_handle_messages!` polls the shutdown
first), and the handler's loop runs. No fairness of the chain, the database or the signals.

## 4. Proofs

Eight modules hold theorems. Each theorem holds for every value of the constants that the `ASSUME`s of the component's module
allow: any number of validators, contracts, blocks, messages, faults. The bounds (`MaxSlot`, `MaxHeight` and so on)
are constants like the others, so a result holds for every bound. TLC evaluates the assumptions in the runs, and
checked the inductive invariants on small instances before they were proved.

| Theorem | Module | States |
|---|---|---|
| `CommitStreamCorrect`, `NeverAGap`, `TypeCorrect` | `ConsensusProofs` | `CommitStream`, `NoGap`, `TypeOK` |
| `OneProposalAlways`, `ViewChangesAlwaysCertified`, `ForcedAlwaysCertified` | `ConsensusEvidenceProofs` | `OneProposalPerView`, `ViewChangesAreCertified`, `ForcedCommitsAreCertified`, until a validator restarts |
| `CertificatesHold`, `CommitsAlwaysCertified` | `ConsensusEvidenceProofs` | an inductive invariant; `CertifiedCommits`, restarts included |
| `ReproposesAlwaysCertified` | `ConsensusEvidenceProofs` | `ReproposesCertified`, until a validator restarts |
| `CoherentAlways`, `Implements`, `LoopsTerminate`, `BlockAlwaysTells` | `NodeStateProofs` | `Coherent`, `ImplementsSequencing`, `LoopsEnd`, `BlockTellsContracts` |
| `NextAlwaysTimed`, `AlwaysSettledUntilDone` | `NodeStateProofs` | `NextAreTimed`, `SettledUntilDone` |
| `CutsAlwaysGrow`, `SignersAlwaysHeld`, `BlocksAlwaysSegments`, `NoSlotEverForgotten`, `OperatorCanAlwaysServe` | `MempoolProofs` | the five properties of the run `mempool` |
| `StoreIsAlwaysAChain`, `NodeStateAlwaysFollows`, `CatchupAlwaysReachesMempool` | `DataAvailabilityProofs` | `StoreIsAChain`, `NodeStateFollows`, `CatchupReachesMempool` |
| `InOrderAlways` | `P2PProofs` | `InOrder` |
| `HandshakesHold`, `PeersAlwaysAgree` | `P2PProofs` | an inductive invariant; `PeersAgree` |
| `OneGenesisAlways` | `GenesisProofs` | `OneGenesis` |

### `ConsensusProofs.tla`

From `BondedAssumption`, `BoundsAssumption` and `NoneAssumption` (the value of an absent option is none of the values):

* `Inductive`: `Spec => []IInv`.
* `TypeCorrect`: `Spec => []TypeOK`. The handlers build certificates, tickets and messages out of optional fields;
  typed means that no handler ever sends a `None` (a Prepare without a
  ticket, a Commit without a certificate).
* `CommitStreamCorrect`: `Spec => CommitStream`. On each of the five paths out of a
  slot (own quorum, Commit, commit ticket, forced commit, Commit while
  joining) a validator emits exactly one commit, of the slot it leaves, and the next
  slot's parent is that proposal.
* `NeverAGap`: `Spec => []NoGap`, restarts included. Every slot below a validator's own was committed by it or came as a block.

`CommitStream` is not inductive by itself, nor is the type invariant enough: `on_confirm_ack`
commits the current proposal without looking at its slot. `IInv` adds `Good`: a leader in the step
`PrepareVote` or `ConfirmAck` holds a proposal of its own slot. This is preserved because
every handler that replaces the proposal (`AcceptProposal`, `AdoptPrepareQC`) takes one of the
current slot, and every handler that moves the slot resets the step. It also adds `GapFree`: `NoGap`, and that a Joining validator has
the blocks it believes it is synced to. The proof has one
lemma for each operator (what it preserves of a typed record, and that it makes a `CommitStep`), and then one
step per action.

### `ConsensusEvidenceProofs.tla`

What the three properties have in common is that they look from what one validator holds back to what others did. The invariant
`EInv` says it of everything held, on two bodies of evidence: `M`, the messages sent, and `C`, the proposals that somebody committed with a
certificate. While no validator has restarted:

* every timeout certificate in a ticket, a buffered Prepare, the tail-call argument or a message has only signers that asked to leave its
  view, and a proposal of its slot that comes with it was proposed (`TimeoutOK`, `KindOK`);
* every request counted was sent, and a request with a certificate means that the counter holds one too (`RequestsOK`); hence a quorum of requests always makes a certificate;
* a validator in view *v* + 1 has a quorum of requests for *v* behind it (`ViewOK`);
* the current proposal of a slot was proposed, every proposal was first made in the view it is born in, by that view's leader, which is past that view or past its proposing step (`LeadersOK`);
* what a validator committed, and the parent of its slot and of every proposal, is certified (`ChainOK`, `ProposalOK`).

Evidence only grows, so what was true of a state stays true when others act. A handler may use what it has just sent itself (the
quorum of a timeout often includes a request sent in the same handler), so during a handler the evidence is `M` and its outbox (`Midway`).
There is a lemma for each operator that says it keeps `Midway` and moves forward (`Fine`), one for each handler that a step of it is
good (`StepFine`), and one theorem that puts steps together. `ViewChangesAreCertified` compares sums of voting power, defined by the community module's fold: `PowerSumsUp`,
`SumsAgree` and what follows show, by induction on the size of a set, that such a sum does not depend on the order of its elements and that a larger set has no less.

The restriction of `EInv` is real. A restarted validator joins and `handle_node_state_event` puts it back into view 0 of a slot,
with its steps reset; it may propose again where it already has, with another content. `restarts = 0` is the state predicate that
tells when this has not happened yet.

`CommitsAlwaysCertified` is `Spec => []CertifiedCommits` without that restriction, from a second invariant, `CInv`, over the messages alone:

* behind a prepare certificate, wherever it is held or sent (highest certificate, Confirm, ConfirmAck, timeout), is a Prepare with that hash and a quorum of
  PrepareVotes for it, its leader's power included (`Voted`); behind a commit certificate are also the ConfirmAcks of its signers, each but
  its collector (`Acked`), and this holds in tickets, buffered Prepares and SyncReplies;
* a leader counts the votes and acks of others only, that they sent, and in the step `PrepareVote` those for what it proposed or has seen a certificate of;
* every proposal was first made (`Made`) by the leader of its slot and view in a life of that leader that is over, or in its present life with that
  step behind it. Its moment of creation tells the view and the life (`MomentTells`), so no two proposals have the same hash (`HashesTell`).

The last part replaces what restarts take away: a leader that comes back may propose its slot again, and then the votes it counts must not be
those for the proposal of its earlier life. They are told apart by the hash, and the hash tells the proposals apart because their content does.
Handlers that make no proposal keep `CInv` by `Kept`, those that make one by `Upholds`, which says of the one new proposal that it is fresh.

`ReproposesAlwaysCertified` is `Spec => [](restarts = 0 => ReproposesCertified)`, from `RInv`, which adds `Reproposals` to the two invariants above.
The property relates the ticket and the proposal of a message; what makes it true is spread over the states before it was sent:

* the highest prepare certificate is never of a later slot, and one that certifies a proposal of the slot comes with a proposal of the slot (`HighestOK`):
  `on_confirm` stores a certificate without its proposal, but only one whose hash is that of the current proposal;
* a ticket is held by a leader that has not proposed yet, and by nobody else (`WaitsOK`). A validator that accepts a Prepare overwrites its current proposal; that
  it cannot do so with a ticket in hand follows from `Done` and `Genuine`: a Prepare of its own view would have to be its own, and it has sent none there;
* if the ticket certifies a proposal of the slot, and no view but the first was left, the current proposal is the certified one and the view is not
  the first (`MatchesOK`). The timeouts of the first view that arrive late no longer concern a leader in the second.

No timeout of a view other than the first is only ever a stronger hypothesis as messages are added (`MoreRepeats`), so what was true when a Prepare was sent stays true.

### `NodeStateProofs.tla`

From `ConstantsAssumption` and `BatchesAssumption` (types of the inputs):

* `CoherentAlways`: `Spec => []Coherent`. Map and queues of `OrderedTxMap` agree.
* `Implements`: `Spec => ImplementsSequencing`.
* `LoopsTerminate`: `Spec => LoopsEnd`. Each turn of a loop makes
  ⟨unsettled, expiring, to try, to reset⟩ smaller in lexicographic order: settling adds
  transactions to try, but takes one out of the map; a nuke forces only transactions that are in the map.
* `BlockAlwaysTells`: `Spec => []BlockTellsContracts`.

* `NextAlwaysTimed`: `Spec => []NextAreTimed`, and `AlwaysSettledUntilDone`: `Spec => []SettledUntilDone`, for plain batches (section 5).

The invariant of the first three is `IInv`: `Coherent` and `Typed`, of which the part that matters is that every
number in use is below `arrivals`. `Implements` needs both: the new entry is behind all others,
and a transaction at the front of the queues of its blobs' contracts has the lowest number there
because nothing is in the map without being in its queues. `Outcome` stays closed in these proofs
except for two facts (what settles is in the map, what succeeds is next), so they hold whatever the search
over proofs returns. `BlockAlwaysTells` opens one thing more: what `on_settled_blob_tx` writes to `contracts` it writes to the
block as well, for each kind of change.

The last two speak of the moments at which no loop of `handle_signed_block` runs, and are not inductive: in the middle of a loop they are false. `PInv`
says of every moment what the loops still owe (`Waiting`: to try, to reset, to time out): a transaction that is next has a timeout ahead or is
`Waiting` (`NextWait`), and one that would succeed is to be tried (`SuccessesTried`). Its other part, `PlainState`, is what makes a transaction's
outcome its own business: every kept proof is plain, every contract of a blob exists and stays, windows are typed. The argument for a transaction
that leaves or settles goes in three steps.

* `NextFresh`: a transaction that is next after one leaves, and was not before, stood behind it in the queue of a contract of its blobs, so the code tries it.
* `SuccessApart`: one that was next before has no contract in common with the one that settles, so what that one changes is nothing to it.
* `AttemptsSame`: then `settle_blobs_recursively` finds for it what it found before. The recursion over blobs is followed by a set of pairs of runs on
  both states (`AttemptsEquation`, by induction on the blobs left), for every choice of proofs.

### `MempoolProofs.tla`

The invariant is about one object that no line of the code holds: the operator's lane as one chain, `Lane`. Every proposal that anyone stored, voted for, was
sent, put into a cut or buffered is a prefix of it, and the lane size that travels with it is the size of that prefix. From that, a signature
for a proposal and a size is one of a validator that stored it (`held`), the proposals of a cut extend those of the one before whatever lane the leader had, and
the operator, which stores every prefix, can serve any request. `BlocksAreSegments` and `NoSlotForgotten` need a second invariant, `BInv`, on the blocks under
construction: no slot is in the queue or among the blocks twice or in both, and from `buc_build_start_height` on every slot is in one of them. The
only restriction is the one of the model, that the operator does not lose its own lane.

### `DataAvailabilityProofs.tla`

`IInv` is `TypeOK` with: the stores are intervals from 0 and what is indexed is stored; a buffered block is not stored and does not follow the
store; a `NodeState` that was loaded with all stored blocks (not `lagged`) is made of what the bus took of them, up to the first it refused (`NodeStateFollows`
is inductive with these); and what is known of the mempool's first block in each phase
of catching up. The middle two are what make `StoreIsAChain` inductive: `pop_buffer` goes on from the block just stored, and stops
where it must only because nothing else in the buffer could follow. How many blocks it takes is shown to exist by `LeastElement`.

### `P2PProofs.tla`

`InOrder` is an action property: the last number a connection delivered does not go down. The invariant lines up, for each node and connection, the number last
delivered, the events in the receiver's pool, what flows in the connection, the canal's jobs of the sender and its last call: none is above one that comes
after it. It needs that a node has at most one stream registered under the name of its dials (`OneDial`), or a job could be sent on two.

`PeersAgree` speaks of the states in which nothing is under way, so its invariant `AInv` says of every connection what is under way, or what became of it:

* `EndOK`. A stream that is written is in `sockets`; one that is in `sockets` is read, or a Closed event waits in the pool; an accepted stream
  that is read is in `sockets` (a dialled one need not be, see section 5).
* `AnswerOK`, at the end that was dialled. Until the node keeps the peer there it writes and has written nothing, and while the stream works the Hello is in it
  or in the pool. So a Hello that arrives can be answered if the end is in the list, and a stall before the answer is impossible.
* `DialOK`, at the end that dialled. Once the other node keeps it on this connection and the stream works, the Verack is in it or in the pool, or the node knows
  the other, on its latest dial if this is still the stream of that name.

A Verack is written before the peer is updated, and the update may drop the stream just answered: between the two `AnswerOK` does not
hold, so the step of `handle_handshake` is proved as a whole (`Took`, `NewPeer`, `Refused`), and an event leaves the pool when what it was due for is done (`Done`,
`HeldPop`). In a settled state nothing is due, and what is left of the three parts is `WrittenIsRead`: what a node writes is read, and the
other node knows it. That the connection is the same one follows from `OneDial` and from which of the two dialled it, when no reader was left on.

### `GenesisProofs.tla`

`OneGenesisAlways`: `GenesisSpec => []OneGenesis` for every list of stakers, every stake and every number of
crashes (`GenesisAssumption`, `TokensAssumption`). The invariant is that `block` is a function on the nodes with at most one
value besides `None`; the argument is that a block is made only when the set of names met is the set of
stakers (`Inserted`), and depends on that set alone (`BlockOfSet`), since the map is read in the order of names and the
validators are sorted. What the transactions do is not needed and stays closed.

### `Inductions.tla`

The library's induction theorems have an operator as a parameter, which the provers cannot instantiate. For sets they are not
needed: from the well-foundedness of finite subsets under inclusion, `LeastElement` says that a non-empty set of naturals has a
least element, and `InductionUpTo` that a set which contains 0 and is closed under successors contains an interval. A property is then proved by
induction as a set of numbers, `{k \in 0 .. N : ...}`. The lemmas on `Selected` and on sums of voting power are proved in this way; recursive definitions are functions on finite domains, whose existence is part of the proof.

### Only model-checked

* Liveness: `EverySlotCommitted`, `ListenerCatchesUp`, `Ends`. Fairness and `ENABLED` are out of the prover's reach.
* `Contracts.Backed` (sums over functions that change in two places), `CircuitsAgree`, `HistoryTellsChain`, `AppStatesTell`, `VideoTellsProof`, the properties of `AutoProver` and of
  `IndexerNode`. Their modules fold over blobs with the community modules' sequence operators; `SequencesExt` extends `TLC`,
  which the proof system does not have, so a module with theorems cannot extend them as they are.

## 5. Where the code disagrees with what it says

The run `consensus_agreement`:

* **Agreement across views.** `on_confirm` acks a Confirm even after the
  validator sent a nil timeout request for the view. The leader may then commit with this ack while the nil
  requests certify a view change after which the next leader proposes something else.
  `network.rs` says of timeouts that either there is no proposal, or "there is a chance one had
  committed on some validator and we must propose the same". The run shows two honest validators
  committing different proposals of a slot.

Four more that TLC finds when the definition named is checked, for which no run is kept:

* **Matching proposals in timeouts** (`TimeoutsCarryMatchingProposal`). `get_timeout_message` sends the highest
  prepare certificate of the slot with the current proposal, and these are
  updated on different paths. `network.rs` says "matching proposal". Receivers, and the sender's own
  `on_timeout`, reject such a request.
* **Reproposal after the first view change** (`ReproposesCertified` without `FirstChange`, four views). For the same reason a leader's own
  timeout certificate may carry the certificate of one proposal with another proposal, and the leader proposes whichever its
  `current_proposal` is when `StartNewSlot` is handled; a timeout of another proposal that arrives in between replaces it. A Confirm
  that arrives again after its slot was committed is stored as the highest certificate of the *next* slot (`on_confirm` looks only at the hash of the
  current proposal); the certificate made of it there is refused by everyone but its maker. After a restart the property fails at the first view
  change too (two slots, two views, one restart, no run kept): the validator keeps `highest_seen_prepare_qc`, while `handle_node_state_event` replaces its
  current proposal by the default one of the block. The timeout certificate that it makes as the next leader carries the certificate with that
  default proposal, and it proposes afresh. Followers refuse the Prepare, whose ticket names another proposal, so a view is lost and nothing else.
* **Failures out of turn** (`FailedAreNext`). `try_to_settle_blob_tx` refuses a transaction that is not next only if it
  would succeed. A comment in `on_settled_blob_tx` says that, nukes apart, only transactions that are next are to settle as
  failed. TLC shows one that is first on one contract, is tried because the
  transaction before it there left, and fails while an earlier one waits on its other contract.
* **Proofs of verified blobs** (`VerifiedBlobsNameTheProof`). `blob_proof_output_indices` has one element for each retained
  blob and is read at the index of the blob in the transaction. After a natively verified blob,
  which is not retained, the block names the wrong proof for each later blob, and none for the last.

`SettledUntilDone` and `NextAreTimed` are stated, and proved, for batches in which contracts change by state
transitions and by registrations through the TLD, under names that are the contract of no blob of the batch (`Plain`). Outside of them the code
keeps transactions waiting:

* **Behind a registration.** `OrderedTxMap` puts a transaction into the queues of its blobs' contracts *and* of the names it registers or deletes.
  When it leaves, `on_settled_blob_tx` (node_state.rs:879) and `clear_timeouts` (node_state.rs:1425) look only behind it on the contracts
  of its blobs. Let two transactions register D, one beside a call of A and one beside a call of B, and a third call D. When
  the first settles, the second times out and the third is next for all its contracts, but nobody tries it or sets its timeout: it waits until
  a proof of it arrives, and blocks D for ever if none does. A comment of `clear_timeouts` says that "for each contract involved in these
  transactions" the next one is retrieved. An earlier `Plain` allowed such batches; the attempt to prove `NextAreTimed` failed
  at `NextFresh`, and TLC confirmed the counterexample on the batch above.
* Nobody is tried again after an update of a program or window, after a deletion emptied other queues,
  or when a contract that a proof reads reaches the state it reads.
* A window of 0 sets a timeout in a block that is already past.

Noted while modelling, without a run of their own: comments in `role_follower.rs`,
`role_leader.rs` and `consensus.rs` say that the view is part of the hash (it is not); `NilProposal` in
`network.rs` is said to be a different signed message (it is the same one); the validator
asked for a missing parent may be the asking one; nobody schedules a timeout in
slot 1 after genesis, so a dead first leader is never left; a restarted leader may propose a
slot again with another content; `compute_f` rounds down, which the quorum test
`> 2f` allows for only while nobody is Byzantine.

### What the properties except

A property that the code has only under a condition names the condition, and a history variable of the model tells when it is
left. What happens then:

* **Mempool.** Re-dissemination sends the newest proposal a validator has not signed; when an older one was lost, that validator keeps the
  newer one waiting and is never sent the older. A `Refuse` verdict is cached for ever, so a proof checked before its
  contract's registration settled is never voted for by that validator. The operator's own crash (not modelled) forks its lane.
* **Data availability.** A `NodeState` loaded behind the store refuses the next block and stops the node at every start (`lagged`). The send of
  `OrderedSignedBlock` on a full bus fails and is only logged (data_availability.rs:375): the block is stored and broadcast, `NodeState` never gets it, refuses the next one and
  ends the node (`Gap`); a genesis block lost in this way leaves a node state without it and no refusal. A crash
  between the two writes of `Blocks::put` leaves a height out of the index for ever. `catchup_task` stays `Some` when the stream
  breaks, and a peer event seen before `NoGenesis` is dropped. The listener's height is 0 before and after the genesis block, which may be
  handled twice. A comment of `da_listener.rs` says "we do want to process block 0", and so the first request asks for it; yet a broadcast block 1 that comes first, or a
  connection that breaks at height 0, after which the request is for block 1 (da_listener.rs:242), passes it over (`skipped`).
* **Prover** (`behind`, `lost`). A proof whose task fails, or is in flight at a stop, is not made again: after the reload `proving_txs` is not empty, and
  what is in it is proved anew only behind a failure. The transaction waits for its timeout or for another prover. After a crash a proof of the earlier life may settle a transaction that still waits here; the next one taken
  up stops the module. A prover restarted behind the chain stops with a state that does not match.
* **P2P.** A node that redials a peer uses the same socket name and drops its own new connection at the Verack; the pair recovers since the other
  node dials then. `setup_stream` (tcp_server.rs:367) overwrites the entry of that name without aborting the tasks of the stream that had it: its writer ends, its reader
  goes on until the other node closes (`Orphans`). Then each node may go on writing on a connection of its own, which the other reads, and agree on none.
  An earlier `PeersAgree` said that both keep one connection; it held in the run, with three connections, and the attempt to prove it
  failed on this case, which takes four (TLC finds it by simulation). A connection that breaks in the first handshake is never retried. Clock skew is not modelled.
* **Indexer** (`overtaken`, `holed`, `disturbed`, `unheard`). Updates run last in a dump: an update, a deletion and a new registration of a contract in one
  batch leave the old update on the new row. A dump that fails has emptied the buffer: its blocks are lost, and later rows that refer to them fail too. A module
  told to stop does not read the events that wait for it. A `ShutdownCompleted` sent before the loop subscribes is not heard, and the process
  waits for ever.
* **Contracts** (`reversed`). `create_new_pair` orders the tokens and not the amounts. `distribute` fails at a disseminator without balance, after the
  charges before it. `total_bond` changes only in `bond`: a stake delegated later counts in a vote and not in f.
* **SMT token** (`odd`). Executor and circuit differ for a transfer or `transfer_from` to oneself, a zero transfer by an unknown account, a transaction that
  fails after one of its blobs succeeded, a blob with wrong links (its step stays without calldata) and leftover callees (the guest does not
  revert). A blob that does not parse, merged into a batch, panics at `steps[0]`.
* **Wallet** (`apart`). The same for a registration whose invitation does not hold, a blob merged after the invite key changed, and an `Update`
  that names another root than the tree's.
* **TruthSeeker** (`strayed`). The video may carry the CID of another proof when the upload of the verified one failed, when a second request is made while
  Ethereum looks at the first, or when the camera page is opened by its address. Only the border's text survives the conversion to mp4, and only the first
  frame holds it from the start.

## 6. Not modelled

* `single_node_consensus.rs`: a timer that commits cuts; with one node `Mempool` shows what becomes of them.
* Candidacies and the bonding of new validators in the consensus; Byzantine validators; clock skew.
* The LaneManager mode of the mempool, the node state's REST queries, mempool status events in the indexer (the call is commented
  out), the indexer's read API and websockets, the query and answer channel of the bus.
* Where a model is coarser than its lines: the errors of `bond`, `pay_for_dadi` and `distribute` inside `apply_ticket` (out of reach for the fixed bonded set and
  genesis deposits of `Consensus`; `Contracts` has them); the prover's own events and a bus too full for them; the callbacks of a page that the user has left by
  navigation within the site (`TruthSeeker.Mount` ends them); the hue shift of later frames, whose inverted bits the reader does not undo (`Steganography`; the
  property rests on the first frame).
* `uuid-tld`; the wallet's front end and the rest of its server; the other pages of TruthSeeker.
* Proof systems, hashing, BLS and image arithmetic, which appear as symbols; verifiers, runners and command lines, which wrap them.

## 7. Plan

The modules planned are written. What is left is to prove more, first `AutoProver.HistoryIsSpeculation`, with its folds as functions on finite
domains, like `Selected`.
