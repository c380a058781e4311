------------------------------- MODULE Indexer -------------------------------
(***************************************************************************)
(* The indexer (hyli/src/indexer.rs, src/indexer/handler.rs) and a         *)
(* contract state indexer (hyle-modules/.../contract_state_indexer.rs), as *)
(* operators on their states: what a block of the node state adds to the   *)
(* indexer's buffer, what dumping the buffer does to the database, with    *)
(* its keys and references, and how the replica of a contract follows.     *)
(*                                                                         *)
(* One contract lives on the chain besides the root. A transaction is      *)
(* named by its kind and the block it is sequenced in; all but "proof" are *)
(* blob transactions, those of kind "blob" for the contract.               *)
(***************************************************************************)
EXTENDS Integers, Sequences, FiniteSets, SequencesExt

CONSTANT QueryBuffer     \* query_buffer_size

EmptyMap == [x \in {} |-> 0]

(***************************************************************************)
(* What the node state says of a block (hyle-model/src/block.rs). An       *)
(* option is a set of at most one element.                                 *)
(***************************************************************************)
EmptyBlock(h) ==
    [height |-> h, txs |-> <<>>, successful |-> <<>>, failed |-> {}, timed_out |-> {},
     events |-> {}, outputs |-> {}, verified |-> {},
     registered |-> {}, deleted |-> FALSE, state |-> {}, program |-> {}]

IsBlob(t) == t.kind # "proof"

(***************************************************************************)
(* The indexer's buffer, IndexerHandlerStore.                              *)
(***************************************************************************)
EmptyStore ==
    [blocks |-> <<>>, block_txs |-> EmptyMap, tx_data |-> {}, tx_data_proofs |-> {},
     transactions_events |-> {}, contracts |-> {}, contract_states |-> <<>>,
     deleted_contracts |-> FALSE, blob_proof_outputs |-> <<>>, sql_updates |-> <<>>]

\* The updates a block asks for, run after everything is inserted: outcomes, blobs
\* verified with the proof output that settled them, and the contract.
StatusUpdates(b) ==
    [i \in DOMAIN b.successful |-> [set |-> "success", tx |-> b.successful[i]]]
    \o SetToSeq({[set |-> "failure", tx |-> t] : t \in b.failed})
    \o SetToSeq({[set |-> "timed_out", tx |-> t] : t \in b.timed_out})

VerifiedUpdates(b) ==
    SetToSeq({[set |-> "verified", tx |-> v.tx] : v \in b.verified}
             \cup {[set |-> "settled", row |-> <<v.proof, v.tx>>] : v \in b.verified})

ContractUpdates(b) ==
    SetToSeq({[set |-> "state", at |-> b.height, to |-> x] : x \in b.state})
    \o SetToSeq({[set |-> "program", to |-> p] : p \in b.program})

insert_tx_data(s, txs) ==
    [s EXCEPT !.tx_data = @ \cup {t \in txs : IsBlob(t)},
              !.tx_data_proofs = @ \cup {t \in txs : ~IsBlob(t)}]

AddOutputs(s, b) == [s EXCEPT !.blob_proof_outputs = @ \o SetToSeq(b.outputs)]

\* Mutant of AddContracts: a registration does not clear an earlier deletion.
AddContracts_keeps(s, b) ==
    [s EXCEPT !.contracts = IF b.registered # {} THEN b.registered ELSE @,
              !.contract_states = @ \o SetToSeq({[at |-> b.height, state |-> r.state] : r \in b.registered}),
              !.deleted_contracts = @ \/ b.deleted]

AddContracts(s, b) ==
    [s EXCEPT !.contracts = IF b.registered # {} THEN b.registered ELSE @,
              !.contract_states = @ \o SetToSeq({[at |-> b.height, state |-> r.state] : r \in b.registered}),
              !.deleted_contracts = (@ /\ b.registered = {}) \/ b.deleted]

handle_processed_block(s, b) ==
    LET txs == ToSet(b.txs)
        seen == [insert_tx_data(s, txs) EXCEPT
                    !.blocks = Append(@, b.height),
                    !.block_txs = [t \in txs |-> b.height] @@ @,
                    !.transactions_events = @ \cup {<<b.height, t>> : t \in b.events},
                    !.sql_updates = @ \o StatusUpdates(b) \o VerifiedUpdates(b) \o ContractUpdates(b)]
    IN  AddContracts(AddOutputs(seen, b), b)

(***************************************************************************)
(* The database.                                                           *)
(***************************************************************************)
EmptyDb ==
    [blocks |-> {}, transactions |-> EmptyMap, blobs |-> EmptyMap, proofs |-> {},
     transaction_state_events |-> {}, contracts |-> {}, contract_state |-> EmptyMap,
     blob_proof_outputs |-> EmptyMap]

\* dump_store_to_db works through these in one database transaction.
Stages == <<"begin", "blocks", "transactions", "blobs", "proofs", "events", "contracts",
            "contract_states", "deleted", "outputs", "updates", "commit">>

InsertBlocks(s, d) == [d EXCEPT !.blocks = @ \cup ToSet(s.blocks)]

\* A row that is there keeps its status.
InsertTransactions(s, d) ==
    LET row(t) == [block |-> s.block_txs[t],
                   status |-> IF t \in DOMAIN d.transactions THEN d.transactions[t].status
                              ELSE IF IsBlob(t) THEN "sequenced" ELSE "success"]
    IN  [d EXCEPT !.transactions = [t \in DOMAIN s.block_txs |-> row(t)] @@ @]

InsertBlobs(s, d) == [d EXCEPT !.blobs = @ @@ [t \in s.tx_data |-> FALSE]]

InsertProofs(s, d) == [d EXCEPT !.proofs = @ \cup s.tx_data_proofs]

InsertEvents(s, d) == [d EXCEPT !.transaction_state_events = @ \cup s.transactions_events]

InsertContracts(s, d) == IF s.contracts = {} THEN d ELSE [d EXCEPT !.contracts = s.contracts]

InsertContractStates(s, d) ==
    LET rows == ToSet(s.contract_states)
        state(h) == (CHOOSE c \in rows : c.at = h).state
    IN  [d EXCEPT !.contract_state = @ @@ [h \in {c.at : c \in rows} |-> state(h)]]

DeleteContracts(s, d) == IF s.deleted_contracts THEN [d EXCEPT !.contracts = {}] ELSE d

InsertOutputs(s, d) ==
    [d EXCEPT !.blob_proof_outputs = @ @@ [o \in ToSet(s.blob_proof_outputs) |-> FALSE]]

SqlUpdate(d, u) ==
    CASE u.set \in {"success", "failure", "timed_out"} ->
           IF u.tx \in DOMAIN d.transactions
           THEN [d EXCEPT !.transactions[u.tx].status = u.set] ELSE d
      [] u.set = "verified" ->
           IF u.tx \in DOMAIN d.blobs THEN [d EXCEPT !.blobs[u.tx] = TRUE] ELSE d
      [] u.set = "settled" ->
           IF u.row \in DOMAIN d.blob_proof_outputs
           THEN [d EXCEPT !.blob_proof_outputs[u.row] = TRUE] ELSE d
      [] u.set = "state" ->
           [d EXCEPT !.contract_state = [h \in DOMAIN @ |-> IF h = u.at THEN u.to ELSE @[h]],
                     !.contracts = {[c EXCEPT !.state = u.to] : c \in @}]
      [] u.set = "program" ->
           [d EXCEPT !.contracts = {[c EXCEPT !.program = u.to] : c \in @}]

RunUpdates(s, d) == FoldLeft(SqlUpdate, d, s.sql_updates)

\* What a stage writes.
Written(stage, s, d) ==
    CASE stage = "blocks" -> InsertBlocks(s, d)
      [] stage = "transactions" -> InsertTransactions(s, d)
      [] stage = "blobs" -> InsertBlobs(s, d)
      [] stage = "proofs" -> InsertProofs(s, d)
      [] stage = "events" -> InsertEvents(s, d)
      [] stage = "contracts" -> InsertContracts(s, d)
      [] stage = "contract_states" -> InsertContractStates(s, d)
      [] stage = "deleted" -> DeleteContracts(s, d)
      [] stage = "outputs" -> InsertOutputs(s, d)
      [] stage = "updates" -> RunUpdates(s, d)
      [] OTHER -> d

\* What the keys and references of a table refuse.
Refused(stage, s, d) ==
    CASE stage = "blocks" -> ToSet(s.blocks) \cap d.blocks # {} \/ ~IsInjective(s.blocks)
      [] stage = "transactions" -> \E t \in DOMAIN s.block_txs : s.block_txs[t] \notin d.blocks
      [] stage = "blobs" -> ~(s.tx_data \subseteq DOMAIN d.transactions)
      [] stage = "proofs" -> ~(s.tx_data_proofs \subseteq DOMAIN d.transactions)
      [] stage = "events" ->
           \E e \in s.transactions_events : e[1] \notin d.blocks \/ e[2] \notin DOMAIN d.transactions
      [] stage = "contracts" -> \E c \in s.contracts : c.tx \notin DOMAIN d.transactions
      [] stage = "contract_states" ->
           \/ \E c \in ToSet(s.contract_states) : c.at \notin d.blocks \/ c.at \in DOMAIN d.contract_state
           \/ ~IsInjective(s.contract_states)
      [] stage = "outputs" ->
           \/ \E o \in ToSet(s.blob_proof_outputs) :
                 \/ o[1] \notin DOMAIN d.transactions \/ o[2] \notin DOMAIN d.blobs
                 \/ o \in DOMAIN d.blob_proof_outputs
           \/ ~IsInjective(s.blob_proof_outputs)
      [] OTHER -> FALSE

\* A stage takes its rows out of the buffer before it writes them.
Rows == [blocks |-> "blocks", transactions |-> "block_txs", blobs |-> "tx_data",
         proofs |-> "tx_data_proofs", events |-> "transactions_events", contracts |-> "contracts",
         contract_states |-> "contract_states", deleted |-> "deleted_contracts",
         outputs |-> "blob_proof_outputs", updates |-> "sql_updates"]

Drained(stage, s) ==
    IF stage \in DOMAIN Rows THEN [s EXCEPT ![Rows[stage]] = EmptyStore[Rows[stage]]] ELSE s

\* The stages with something to write; the others run no query.
Queries(stage, s) == stage \in {"begin", "commit"} \/ Drained(stage, s) # s

\* Mutant of dump_store_to_db: each stage commits by itself.
dump_store_to_db_unwrapped(store, db, broken) ==
    LET Stage(acc, stage) ==
            LET ok == acc.ok /\ stage # broken /\ ~Refused(stage, acc.s, acc.d) IN
            [s |-> IF acc.ok THEN Drained(stage, acc.s) ELSE acc.s,
             d |-> IF ok THEN Written(stage, acc.s, acc.d) ELSE acc.d, ok |-> ok]
        end == FoldLeft(Stage, [s |-> store, d |-> db, ok |-> TRUE], Stages)
    IN  [store |-> end.s, db |-> end.d]

\* The connection fails at stage broken, or at none. The first stage that fails
\* rolls the transaction back and leaves the later stages' rows in the buffer.
dump_store_to_db(store, db, broken) ==
    LET Stage(acc, stage) ==
            IF ~acc.ok THEN acc
            ELSE [s |-> Drained(stage, acc.s), d |-> Written(stage, acc.s, acc.d),
                  ok |-> stage # broken /\ ~Refused(stage, acc.s, acc.d)]
        end == FoldLeft(Stage, [s |-> store, d |-> db, ok |-> TRUE], Stages)
    IN  [store |-> end.s, db |-> IF end.ok THEN end.d ELSE db]

\* A block of the node state: dumped with the buffer when that is full or the
\* block is recent.
handle_node_state_event(store, db, b, recent, broken) ==
    LET s == handle_processed_block(store, b) IN
    IF recent \/ Len(s.blocks) >= QueryBuffer THEN dump_store_to_db(s, db, broken)
    ELSE [store |-> s, db |-> db]

(***************************************************************************)
(* The contract state indexer: the replica of the contract, here the list  *)
(* of the transactions applied to it, and the transactions not settled.    *)
(* seen is history: the blocks handled.                                    *)
(***************************************************************************)
NoState == "none"
EmptyCsi == [state |-> NoState, unsettled |-> {}, seen |-> <<>>]

\* A block that concerns a replica with no state is given up midway.
csi_handle_processed_block(c, b) ==
    LET state == IF b.registered # {} THEN <<>> ELSE c.state
        sequenced == {t \in ToSet(b.txs) : t.kind = "blob"}
        unsettled == c.unsettled \cup sequenced
        ended == (b.timed_out \cup b.failed \cup ToSet(b.successful)) \cap unsettled
        applied == SelectSeq(b.successful, LAMBDA t : t \in unsettled)
        seen == Append(c.seen, b.height)
    IN  IF state = NoState
        THEN [state |-> state, seen |-> seen,
              unsettled |-> IF sequenced # {} THEN unsettled ELSE unsettled \ ended]
        ELSE [state |-> state \o applied, seen |-> seen, unsettled |-> unsettled \ ended]
=============================================================================
