----------------------------- MODULE IndexerNode -----------------------------
(***************************************************************************)
(* An indexer process (src/entrypoint.rs without p2p): a DA listener that  *)
(* follows the chain with a node state of its own, the indexer and a       *)
(* contract state indexer that read the listener's blocks from the bus,    *)
(* under the ModulesHandler. The listener and the contract state indexer   *)
(* write their state to disk when they are stopped; the indexer writes the *)
(* database as it goes and forgets its buffer.                             *)
(***************************************************************************)
EXTENDS Indexer, Modules

CONSTANTS
    Capacity,     \* CHANNEL_CAP_IF_WAITING: the unread events a sender puts up with
    Bounds        \* bounds on the blocks of the chain, and on crashes, database errors,
                  \*   failures, timeouts and signals together: a set of [blocks, faults]

ASSUME IndexerNodeAssumption ==
    /\ {"Indexer", "CSI", "DAListener"} = ModuleNames
    /\ QueryBuffer \in Nat \ {0} /\ Capacity \in Nat \ {0}
    /\ Bounds \subseteq [blocks : Nat, faults : Nat]

VARIABLES
    chain,       \* the blocks, each with what the node state knows after it: [b, ns]
    height,      \* the height of the listener's node state
    queue,       \* per reader: the NodeStateEvents it has not read
    store, db,   \* the indexer's buffer and its database
    csi,         \* the contract state indexer
    disk,        \* da_listener_node_state.bin and state_indexer_c.bin
    bound,       \* the bounds in use, chosen once
    faults,
    disturbed,   \* events were left unread or a module did not end well
    overtaken,   \* a registration was dumped together with an older update
    holed        \* a block has been missing from the database, below one that is there

nvars == <<chain, height, queue, store, db, csi, disk, disturbed, overtaken, holed>>
vars == <<hvars, nvars, bound, faults>>

Readers == {"Indexer", "CSI"}
Quiet == [r \in Readers |-> <<>>]

(***************************************************************************)
(* The chain: the node state's account of a block with one event. status   *)
(* is the outcome of each transaction, contract the one registered, and    *)
(* applied the transactions that have changed its state.                   *)
(***************************************************************************)
NoNode == [status |-> EmptyMap, contract |-> {}, applied |-> NoState]
Tip == IF chain = <<>> THEN NoNode ELSE chain[Len(chain)].ns

Sequence(b, ns, t, status) ==
    [b |-> [b EXCEPT !.txs = <<t>>, !.events = @ \cup {t}],
     ns |-> [ns EXCEPT !.status = (t :> status) @@ @]]

\* The blob transactions on the contract that wait for a proof.
Pending(ns) == {t \in DOMAIN ns.status : t.kind = "blob" /\ ns.status[t] = "sequenced"}

\* A transaction of the root contract succeeds in the block that sequences it.
AtOnce(b, ns, t) ==
    LET x == Sequence(b, ns, t, "success") IN [x EXCEPT !.b.successful = <<t>>]

SendBlob(b, ns, t) ==
    IF ns.contract # {} THEN {Sequence(b, ns, t, "sequenced")}
    ELSE {[Sequence(b, ns, t, "failure") EXCEPT !.b.failed = {t}]}

Register(b, ns, t) ==
    LET c == [tx |-> t, program |-> "p", state |-> "s"]
        x == AtOnce(b, ns, t)
    IN  IF ns.contract # {} THEN {}
        ELSE {[x EXCEPT !.b.registered = {c}, !.ns.contract = {c}, !.ns.applied = <<>>]}

Delete(b, ns, t) ==
    LET x == AtOnce(b, ns, t) IN
    IF ns.contract = {} THEN {}
    ELSE {[x EXCEPT !.b.deleted = TRUE, !.b.events = @ \cup Pending(ns), !.ns.contract = {},
                    !.ns.applied = NoState]}

Upgrade(b, ns, t) ==
    LET x == AtOnce(b, ns, t) IN
    IF ns.contract = {} THEN {}
    ELSE {[x EXCEPT !.b.program = {t}, !.ns.contract = {[c EXCEPT !.program = t] : c \in @}]}

\* A proof of a pending transaction: alone, or settling it.
Prove(b, ns, p) ==
    LET proven(t) == LET x == Sequence(b, ns, p, "success") IN [x EXCEPT !.b.outputs = {<<p, t>>}]
        settled(t) == LET x == proven(t) IN
                      [x EXCEPT !.b.successful = <<t>>, !.b.events = @ \cup {t},
                                !.b.verified = {[tx |-> t, proof |-> p]}, !.b.state = {t},
                                !.ns.status = (t :> "success") @@ @,
                                !.ns.contract = {[c EXCEPT !.state = t] : c \in @},
                                !.ns.applied = Append(@, t)]
    IN  IF ns.contract = {} THEN {} ELSE UNION {{proven(t), settled(t)} : t \in Pending(ns)}

End(b, ns) ==
    IF ns.contract = {} THEN {}
    ELSE {[b |-> [b EXCEPT !.timed_out = {t}, !.events = {t}],
           ns |-> [ns EXCEPT !.status = (t :> "timed_out") @@ @]] : t \in Pending(ns)}

Blocks(h, ns) ==
    LET b == EmptyBlock(h)
        tx(kind) == [kind |-> kind, at |-> h]
    IN  {[b |-> b, ns |-> ns]} \cup SendBlob(b, ns, tx("blob")) \cup Register(b, ns, tx("register"))
        \cup Delete(b, ns, tx("delete")) \cup Upgrade(b, ns, tx("upgrade"))
        \cup Prove(b, ns, tx("proof")) \cup End(b, ns)

\* The chain grows when the listener has reached its end. The first block registers the
\* contract and holds a transaction for it.
Genesis ==
    LET r == CHOOSE x \in Register(EmptyBlock(1), NoNode, [kind |-> "register", at |-> 1]) : TRUE
        t == [kind |-> "blob", at |-> 1]
    IN  [r EXCEPT !.b.txs = Append(@, t), !.b.events = @ \cup {t},
                  !.ns.status = (t :> "sequenced") @@ @]

Grow ==
    /\ phase # "gone" /\ height = Len(chain) /\ Len(chain) < bound.blocks
    /\ \E x \in IF chain = <<>> THEN {Genesis} ELSE Blocks(Len(chain) + 1, Tip) :
          chain' = Append(chain, x)
    /\ UNCHANGED <<hvars, bound, height, queue, store, db, csi, disk, faults, disturbed, overtaken, holed>>

(***************************************************************************)
(* The modules at work.                                                    *)
(***************************************************************************)
\* DAListener::process_block, of the next block: the readers that are alive get it.
process_block ==
    /\ Alive("DAListener") /\ height < Len(chain)
    /\ \A r \in Readers : Len(queue[r]) < Capacity
    /\ height' = height + 1
    /\ queue' = [r \in Readers |-> IF Alive(r) THEN Append(queue[r], height + 1) ELSE queue[r]]
    /\ UNCHANGED <<hvars, bound, chain, store, db, csi, disk, faults, disturbed, overtaken, holed>>

\* A reader stays behind for ten seconds: the block is handled and its event not sent.
SendFails ==
    /\ Alive("DAListener") /\ height < Len(chain) /\ faults < bound.faults
    /\ \E r \in Readers : Alive(r) /\ Len(queue[r]) >= Capacity
    /\ height' = height + 1
    /\ disturbed' = TRUE /\ faults' = faults + 1
    /\ UNCHANGED <<hvars, bound, chain, queue, store, db, csi, disk, overtaken, holed>>

NoHole(heights) == heights = 1..Cardinality(heights)

\* Blocks a and b of one dump, an update of the contract and a later registration.
Overtakes(heights) ==
    \E a, b \in ToSet(heights) :
        a < b /\ chain[b].b.registered # {} /\ (chain[a].b.state # {} \/ chain[a].b.program # {})

IndexerHandles ==
    /\ Alive("Indexer") /\ queue["Indexer"] # <<>>
    /\ \E recent \in BOOLEAN, broken \in {"none"} \cup ToSet(Stages) :
          LET h == Head(queue["Indexer"])
              x == handle_node_state_event(store, db, chain[h].b, recent, broken)
          IN  /\ broken # "none" => (recent /\ faults < bound.faults)
              /\ faults' = IF broken = "none" THEN faults ELSE faults + 1
              /\ store' = x.store /\ db' = x.db
              /\ overtaken' = (overtaken \/ Overtakes(Append(store.blocks, h)))
              /\ holed' = (holed \/ ~NoHole(db'.blocks))
    /\ queue' = [queue EXCEPT !["Indexer"] = Tail(@)]
    /\ UNCHANGED <<hvars, bound, chain, height, csi, disk, disturbed>>

CsiHandles ==
    /\ Alive("CSI") /\ queue["CSI"] # <<>>
    /\ csi' = csi_handle_processed_block(csi, chain[Head(queue["CSI"])].b)
    /\ queue' = [queue EXCEPT !["CSI"] = Tail(@)]
    /\ UNCHANGED <<hvars, bound, chain, height, store, db, disk, faults, disturbed, overtaken, holed>>

(***************************************************************************)
(* The modules' ends. start saves when its loop has been told to stop.     *)
(***************************************************************************)
StopModule ==
    /\ \E m \in ModuleNames :
          /\ Stop(m)
          /\ disk' = CASE m = "DAListener" -> [disk EXCEPT !.height = height]
                       [] m = "CSI" -> [disk EXCEPT !.csi = csi]
                       [] OTHER -> disk
          /\ disturbed' = (disturbed \/ (m \in Readers /\ queue[m] # <<>>) \/ mod[m] = "late")
          /\ queue' = IF m \in Readers THEN [queue EXCEPT ![m] = <<>>] ELSE queue
    /\ UNCHANGED <<bound, chain, height, store, db, csi, faults, overtaken, holed>>

FailModule ==
    /\ faults < bound.faults /\ faults' = faults + 1
    /\ \E m \in ModuleNames : Fail(m) \/ ShutdownTimeout(m)
    /\ disturbed' = TRUE
    /\ UNCHANGED <<bound, chain, height, queue, store, db, csi, disk, overtaken, holed>>

Signalled == Signal /\ faults < bound.faults /\ faults' = faults + 1 /\ UNCHANGED <<nvars, bound>>

Loop == (shutdown_loop \/ LoopTick \/ Listen) /\ UNCHANGED <<nvars, bound, faults>>

\* The process is killed: no module writes. The two files are not written together, so a
\* kill while the modules stop may leave one without the other.
Crash ==
    /\ phase # "gone" /\ faults < bound.faults /\ faults' = faults + 1
    /\ phase' = "gone"
    /\ disturbed' = (disturbed \/ \E m \in ModuleNames : mod[m] # "running")
    /\ UNCHANGED <<started, shut, inbox, mod, unheard>>
    /\ UNCHANGED <<bound, chain, height, queue, store, db, csi, disk, overtaken, holed>>

Start ==
    /\ phase = "gone" /\ faults <= bound.faults
    /\ start_modules
    /\ height' = disk.height /\ csi' = disk.csi /\ store' = EmptyStore /\ queue' = Quiet
    /\ UNCHANGED <<bound, chain, db, disk, faults, disturbed, overtaken, holed>>

Init ==
    /\ phase = "watch" /\ started = ModuleOrder /\ shut = {} /\ inbox = <<>> /\ unheard = FALSE
    /\ mod = [m \in ModuleNames |-> "running"]
    /\ chain = <<>> /\ height = 0 /\ queue = Quiet
    /\ store = EmptyStore /\ db = EmptyDb /\ csi = EmptyCsi
    /\ disk = [height |-> 0, csi |-> EmptyCsi]
    /\ bound \in Bounds /\ faults = 0 /\ disturbed = FALSE /\ overtaken = FALSE /\ holed = FALSE

Next ==
    \/ Grow \/ process_block \/ SendFails \/ IndexerHandles \/ CsiHandles
    \/ StopModule \/ FailModule \/ Signalled \/ Loop \/ Crash \/ Start

\* The modules' tasks and the handler run; a module told to stop leaves its loop.
Fairness == WF_vars(StopModule) /\ WF_vars(Loop)

Spec == Init /\ [][Next]_vars /\ Fairness

(***************************************************************************)
(* Properties.                                                             *)
(***************************************************************************)
Block(h) == chain[h].b

\* However the blocks were cut into dumps, and through crashes, database errors and
\* blocks handled twice: as long as no block has been skipped in the database, the tables say
\* what the node state knew after the last of them. The contracts table is excepted
\* once a dump has put a registration before an older update of the same contract.
TablesTellChain ==
    LET n == Cardinality(db.blocks) IN
    (n > 0 /\ ~holed) =>
        LET ns == chain[n].ns IN
        /\ DOMAIN db.transactions = DOMAIN ns.status
        /\ \A t \in DOMAIN ns.status : db.transactions[t].status = ns.status[t]
        /\ db.blob_proof_outputs =
             [o \in UNION {Block(h).outputs : h \in 1..n} |->
                 \E h \in 1..n : [tx |-> o[2], proof |-> o[1]] \in Block(h).verified]
        /\ overtaken \/ db.contracts = ns.contract

\* Whatever is lost, a block in the blocks table came with all its rows and updates:
\* a dump that fails leaves nothing of its blocks behind.
BlocksAreWhole ==
    \A h \in db.blocks :
        /\ ToSet(Block(h).txs) \subseteq DOMAIN db.transactions
        /\ {t \in ToSet(Block(h).txs) : IsBlob(t)} \subseteq DOMAIN db.blobs
        /\ \A t \in Block(h).events : <<h, t>> \in db.transaction_state_events
        /\ Block(h).outputs \subseteq DOMAIN db.blob_proof_outputs
        /\ \A v \in Block(h).verified : db.blobs[v.tx] /\ db.blob_proof_outputs[<<v.proof, v.tx>>]
        /\ \A t \in ToSet(Block(h).successful) : db.transactions[t].status = "success"

\* The replica has handled exactly the blocks the listener has sent it, in this life and
\* in earlier ones, whether the process was stopped or killed, and is the state those
\* blocks give the contract; events left unread, modules that failed and a kill while
\* stopping excepted.
ReplicaFollows ==
    (phase # "gone" /\ ~disturbed /\ Alive("CSI")) =>
        /\ csi.seen \o queue["CSI"] = [h \in 1..height |-> h]
        /\ LET n == Len(csi.seen) IN
           (n > 0 /\ chain[n].ns.contract # {}) =>
               csi.state = chain[n].ns.applied /\ Pending(chain[n].ns) \subseteq csi.unsettled

\* No module is cut off by the end of the process while it is still stopping, when no
\* module has failed or been given up.
NoOneCutOff ==
    (phase = "gone" /\ ~disturbed /\ started = <<>>) => \A m \in ModuleNames : mod[m] = "done"

\* A process that has got a signal ends, unless a module's ShutdownCompleted came before
\* the loop that waits for it.
Ends == (phase = "between") ~> (phase = "gone" \/ unheard)
=============================================================================
