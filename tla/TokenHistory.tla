---------------------------- MODULE TokenHistory ----------------------------
(***************************************************************************)
(* The history the wallet's server keeps of a token                        *)
(* (wallet/server/src/history.rs): for each account what was sent,         *)
(* received and approved, and what became of it.  It is the state of a     *)
(* ContractStateIndexer, which hands it, block by block, the transactions  *)
(* sequenced, timed out, failed and successful, in this order.             *)
(*                                                                         *)
(* A transaction's id is the hash of its content: it may be sent again,    *)
(* which is a duplicate while the first is unsettled, and a transaction of *)
(* its own afterwards.                                                     *)
(***************************************************************************)
EXTENDS Integers, Sequences

LOCAL INSTANCE SequencesExt

CONSTANTS
    Holders,           \* accounts
    HistoryTxs,          \* the transactions, by id: [identity, blobs]
    MaxTokenBlocks,    \* bound on the blocks
    MaxTokenSends      \* bound on the transactions sequenced in all blocks

TokenIds == DOMAIN HistoryTxs
Outcomes == {"Success", "Failed", "Timed Out"}

VARIABLES
    outcome,       \* per id: "Unknown", "Sequenced" or one of Outcomes, on chain
    history,       \* per account: the entries, newest first
    told,          \* HistoryEvents sent to the clients: [account, tx]
    tokenBlocks, tokenSends,
    garbled        \* a block could not be followed (history): a blob of it was none of the
                   \* token's actions, or a transaction was sent again in the block that ended
                   \* it; the behaviour is followed no further

historyVars == <<outcome, history, told, tokenBlocks, tokenSends, garbled>>

\* TransactionDetails, without amount and timestamp.
Details(id, type, address) == [id |-> id, type |-> type, address |-> address, status |-> "Sequenced"]
Event(account, t) == [account |-> account, tx |-> t]

\* A history that is being changed, the events so far, and whether a handler failed.
Working(h) == [history |-> h, events |-> {}, err |-> FALSE]

add_to_history(w, account, t) ==
    [w EXCEPT !.history[account] = <<t>> \o @, !.events = @ \cup {Event(account, t)}]

\* What the blob does, as entries of accounts; nothing when it does not parse.
get_action(id, b) ==
    CASE b.op = "Transfer" ->
             <<Event(b.sender, Details(id, "Send", b.recipient)),
               Event(b.recipient, Details(id, "Receive", b.sender))>>
      [] b.op = "Approve" -> <<Event(b.owner, Details(id, "Approve", b.spender))>>
      [] b.op = "TransferFrom" ->
             <<Event(b.recipient, Details(id, "Receive TransferFrom", b.owner)),
               Event(b.owner, Details(id, "Send TransferFrom", b.recipient))>>
      [] b.op = "Unparsed" -> <<>>

handle_transaction_sequenced(w, id, b) ==
    IF b.op = "Unparsed" THEN [w EXCEPT !.err = TRUE]
    ELSE FoldLeft(LAMBDA x, e : add_to_history(x, e.account, e.tx), w, get_action(id, b))

\* All entries of the transaction, of whatever account, get the status.
Marked(h, id, status) ==
    [a \in Holders |-> [k \in DOMAIN h[a] |->
        IF h[a][k].id = id THEN [h[a][k] EXCEPT !.status = status] ELSE h[a][k]]]
EntriesOf(h, id) == {e \in [account : Holders, k : 1..(4 * MaxTokenSends)] :
                        e.k \in DOMAIN h[e.account] /\ h[e.account][e.k].id = id}

handle_transaction_success(w, id) ==
    LET h == Marked(w.history, id, "Success") IN
    [w EXCEPT !.history = h,
              !.events = @ \cup {Event(e.account, h[e.account][e.k]) : e \in EntriesOf(h, id)}]

\* Mutant of Ended: only the sender's entries.
Ended_own(w, id, status) ==
    LET me == HistoryTxs[id].identity IN
    [w EXCEPT !.history[me] = Marked(w.history, id, status)[me]]

\* A transaction that ended without success: the events all name its sender.
Ended(w, id, status) ==
    LET h == Marked(w.history, id, status) IN
    [w EXCEPT !.history = h,
              !.events = @ \cup {Event(HistoryTxs[id].identity, h[e.account][e.k]) : e \in EntriesOf(h, id)}]

handle_transaction_failed(w, id)  == Ended(w, id, "Failed")
handle_transaction_timeout(w, id) == Ended(w, id, "Timed Out")

\* handle_txs: an error of the handler ends the handling of the whole block.  The handler is
\* called once per blob; but for the first kind once is as good.
PerBlob(w, id) ==
    FoldLeft(LAMBDA x, b : IF x.err THEN x ELSE handle_transaction_sequenced(x, id, b),
             w, HistoryTxs[id].blobs)
EachTx(w, ids, kind) ==
    FoldLeft(LAMBDA x, id :
               CASE x.err -> x
                 [] ~x.err /\ kind = "Sequenced" -> PerBlob(x, id)
                 [] ~x.err /\ kind = "Timed Out" -> handle_transaction_timeout(x, id)
                 [] ~x.err /\ kind = "Failed"    -> handle_transaction_failed(x, id)
                 [] ~x.err /\ kind = "Success"   -> handle_transaction_success(x, id),
             w, ids)

\* ContractStateIndexer::handle_processed_block.
HistoryAfter(b) ==
    EachTx(EachTx(EachTx(EachTx(Working(history), b.txs, "Sequenced"),
                         b.late, "Timed Out"),
                  b.bad, "Failed"),
           b.good, "Success")

----------------------------------------------------------------------------

HistoryInit ==
    /\ outcome = [id \in TokenIds |-> "Unknown"]
    /\ history = [a \in Holders |-> <<>>]
    /\ told = {} /\ tokenBlocks = 0 /\ tokenSends = 0 /\ garbled = FALSE

\* What the REST endpoint answers for an account.
get_history(account) == history[account]

Pending == {id \in TokenIds : outcome[id] = "Sequenced"}

\* A block sequences txs and ends some that were unsettled before it or that it has just
\* sequenced, or sequences some again after it ended them.  Time is up before anything is
\* sequenced.
NewTokenBlock(txs, ends) ==
    LET b == [txs  |-> txs,
              late |-> SetToSeq({id \in DOMAIN ends : ends[id] = "Timed Out"}),
              bad  |-> SetToSeq({id \in DOMAIN ends : ends[id] = "Failed"}),
              good |-> SetToSeq({id \in DOMAIN ends : ends[id] = "Success"})]
        w == HistoryAfter(b)
    IN
    /\ ~garbled
    /\ tokenBlocks < MaxTokenBlocks /\ tokenSends + Len(txs) <= MaxTokenSends
    /\ tokenBlocks' = tokenBlocks + 1 /\ tokenSends' = tokenSends + Len(txs)
    /\ history' = w.history
    /\ told' = told \cup w.events
    /\ \E again \in SUBSET (DOMAIN ends \cap Pending \cap ToSet(txs)) :
          /\ \A id \in DOMAIN ends \cap ToSet(txs) : ends[id] = "Timed Out" => id \in again
          /\ outcome' = [id \in TokenIds |->
                            IF id \in DOMAIN ends /\ id \notin again THEN ends[id]
                            ELSE IF id \in ToSet(txs) THEN "Sequenced" ELSE outcome[id]]
          /\ garbled' = (w.err \/ again # {})

HistoryNext ==
    \E txs \in SeqOf(TokenIds, 2), S \in SUBSET TokenIds :
        /\ S \subseteq Pending \cup ToSet(txs)
        /\ \E ends \in [S -> Outcomes] :
              /\ \A id \in S : ends[id] = "Timed Out" => id \in Pending
              /\ NewTokenBlock(txs, ends)

----------------------------------------------------------------------------

\* The accounts a transaction concerns, as its blobs say.
Concerned(id) ==
    {e.account : e \in UNION {ToSet(get_action(id, b)) : b \in ToSet(HistoryTxs[id].blobs)}}
Newest(a, id) == SelectSeq(get_history(a), LAMBDA t : t.id = id)[1]

\* The wallet shows everyone concerned, the sender and the others, what the chain has made of
\* a transaction: its newest entry, whether it was sequenced, sent a second time while it was
\* pending or again after it had ended, has the transaction's present outcome.  A block the
\* indexer gave up on (a blob that does not parse ends the handling of all its transactions)
\* and a transaction sent again in the very block that ended it are left out.
HistoryTellsChain ==
    ~garbled =>
        \A id \in TokenIds : outcome[id] # "Unknown" =>
            \A a \in Concerned(id) : Newest(a, id).status = outcome[id]
=============================================================================
