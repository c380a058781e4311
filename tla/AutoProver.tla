--------------------------------- MODULE AutoProver ---------------------------------
(***************************************************************************)
(* The AutoProver of one contract (hyle-modules/src/modules/prover.rs): it *)
(* follows the blocks, executes the contract's transactions ahead of their *)
(* settlement and sends the proofs that settle them.                       *)
(*                                                                         *)
(* The chain is an environment: blocks bring transactions of the contract, *)
(* settle them in their order with proofs made for the state the contract  *)
(* is in, fail them or time them out.  The contract's state is the set of  *)
(* transactions that changed it; transaction t succeeds where the ones it  *)
(* Needs have.  Proofs are made by tasks that run beside the module and may *)
(* fail.  The prover may lag behind, catch up from the first block, stop,  *)
(* crash and start again, and the tasks in flight die with it.             *)
(***************************************************************************)
EXTENDS Naturals, Sequences, FiniteSets, SequencesExt

CONSTANTS Order,         \* transactions with a blob for the contract, as they are sequenced
          Resent,        \* transactions that may be sent once more while unsettled
          Needs,         \* Needs[t]: transactions t succeeds only after
          Rejects,       \* executing them is an error: no proof is made
          Spoiled,       \* their other blobs may fail them
          Impatient,     \* they may time out
          Buffer,        \* buffer_blocks
          Window,        \* tx_working_window_size
          MaxPerProof,   \* max_txs_per_proof
          Slack,         \* blocks the chain may gain while the prover catches up
          MaxLag,        \* bound: blocks on the prover's bus
          MaxBlocks,     \* bound: blocks of the chain
          MaxRestarts,   \* bound: stops and crashes of the prover
          MaxLost        \* bound: outputs of proving tasks that fail

VARIABLES
    log,         \* the blocks, from height 1 on
    queue,       \* the contract's unsettled transactions on chain
    state,       \* the contract's state on chain
    made,        \* outputs of the proofs the node was sent
    tasks,       \* the proving tasks in flight, each with the outputs of its batch
    lost,        \* outputs whose task failed or was killed, while the store counts on them
    next,        \* height of the next block the prover is sent
    store,       \* AutoProverStore
    catch,       \* catching_up (0 for None), catching_up_state, catching_txs and _success_txs
    failed,      \* the module has ended with an error
    behind,      \* it was restarted while blocks were missing, or a proof of an earlier life has
                 \* settled a transaction it has not executed in this one
    disk,        \* what a crash goes back to: the store on disk, the next block, lost, behind
    restarts

chainVars == <<log, queue, state>>
proofVars == <<made, tasks, lost>>
vars == <<chainVars, proofVars, next, store, catch, failed, behind, disk, restarts>>

Position(s, t) == CHOOSE i \in DOMAIN s : s[i] = t /\ \A j \in 1..(i - 1) : s[j] # t
Empty == [t \in {} |-> {}]
Insert(h, t, s) == [u \in DOMAIN h \cup {t} |-> IF u = t THEN s ELSE h[u]]
Forget(h, S) == [u \in DOMAIN h \ S |-> h[u]]

FreshStore == [waiting |-> <<>>, proving |-> <<>>, history |-> Empty, chain |-> <<>>, count |-> 0]
NoCatch == [target |-> 0, state |-> {}, txs |-> <<>>, success |-> <<>>]

Init ==
    /\ log = <<>> /\ queue = <<>> /\ state = {}
    /\ made = {} /\ tasks = {} /\ lost = {} /\ next = 1
    /\ store = FreshStore /\ catch = NoCatch
    /\ failed = FALSE /\ behind = FALSE /\ restarts = 0
    /\ disk = [store |-> FreshStore, next |-> 1, lost |-> {}, behind |-> FALSE]

-----------------------------------------------------------------------------
(* The chain.                                                                 *)

Executes(t, s) == t \notin Rejects /\ Needs[t] \subseteq s
After(t, s) == IF Executes(t, s) THEN s \cup {t} ELSE s

\* How the first transaction of a queue may settle in state s.
Settles(t, s) ==
    {ok \in BOOLEAN :
        IF ok THEN \E p \in made : p.tx = t /\ p.init = s /\ p.ok
        ELSE t \in Spoiled \/ \E p \in made : p.tx = t /\ p.init = s /\ ~p.ok}

\* The states a block can lead to after n settlements: what is left, the state, who failed
\* and who succeeded.
Settled(q, s) ==
    LET One(r) == {[q |-> Tail(r.q), s |-> IF ok THEN r.s \cup {Head(r.q)} ELSE r.s,
                    bad |-> IF ok THEN r.bad ELSE Append(r.bad, Head(r.q)),
                    good |-> IF ok THEN Append(r.good, Head(r.q)) ELSE r.good]
                      : ok \in IF r.q = <<>> THEN {} ELSE Settles(Head(r.q), r.s)}
        reach[n \in 0..Len(q)] ==
            IF n = 0 THEN {[q |-> q, s |-> s, bad |-> <<>>, good |-> <<>>]}
            ELSE UNION {One(r) : r \in reach[n - 1]}
    IN UNION {reach[n] : n \in 0..Len(q)}

Seen == UNION {ToSet(log[i].txs) : i \in DOMAIN log}
Twice == UNION {log[i].dups : i \in DOMAIN log}

\* A block brings the next n transactions, of which some may fail at once, or sends an unsettled
\* one again, which is dropped.  It times some out and settles some.
NewBlock(n, dup, insta, late) ==
    /\ Len(log) < MaxBlocks /\ Len(log) + 1 < next + MaxLag
    /\ LET old == Cardinality(Seen)
           new == SubSeq(Order, old + 1, old + n)
           kept == SelectSeq(queue, LAMBDA t : t \notin late)
       IN /\ old + n <= Len(Order)
          /\ dup \subseteq (ToSet(queue) \cap Resent) \ Twice
          /\ insta \subseteq ToSet(new) \cap Spoiled
          /\ late \subseteq ToSet(queue) \cap Impatient
          /\ \E r \in Settled(kept \o SelectSeq(new, LAMBDA t : t \notin insta), state) :
                /\ queue' = r.q /\ state' = r.s
                /\ log' = Append(log,
                      [txs |-> new \o SetToSeq(dup), dups |-> dup, insta |-> insta,
                       late |-> SetToSeq(late), bad |-> SetToSeq(insta) \o r.bad,
                       good |-> r.good, state |-> r.s, updated |-> r.s # state])
    /\ UNCHANGED <<proofVars, next, store, catch, failed, behind, disk, restarts>>

-----------------------------------------------------------------------------
(* Executing ahead.                                                           *)

\* get_state_of_prev_tx: the default state for the first of the chain, nothing when the state
\* of the one before is not known.
get_state_of_prev_tx(st, t) ==
    LET i == Position(st.chain, t)
    IN IF i = 1 THEN {{}}
       ELSE IF st.chain[i - 1] \in DOMAIN st.history THEN {st.history[st.chain[i - 1]]} ELSE {}

\* What executing t on state s has proved: an error has nothing, a failure is proved too.
Outputs(t, s) == IF t \in Rejects THEN {} ELSE {[tx |-> t, init |-> s, ok |-> Executes(t, s)]}

\* The transactions that go into one proof: each is executed on the state after the one before
\* it, and a failed one keeps that state.  A task is started if there is something to prove.
prove_batch(w, blobs) ==
    LET One(a, t) ==
            LET prev == get_state_of_prev_tx(a.st, t)
            IN IF a.bail \/ prev = {} THEN [a EXCEPT !.bail = TRUE]
               ELSE LET s == CHOOSE x \in prev : TRUE
                    IN [a EXCEPT !.st.history = Insert(@, t, After(t, s)),
                                 !.batch = @ \cup Outputs(t, s)]
        done == FoldLeft(One, [w EXCEPT !.batch = {}], blobs)
    IN IF done.bail \/ done.batch = {} THEN done ELSE [done EXCEPT !.tasks = @ \cup {done.batch}]

\* prove_supported_blob: batches of at most MaxPerProof transactions, one after the other.
prove_supported_blob(w, blobs) ==
    LET n == (Len(blobs) + MaxPerProof - 1) \div MaxPerProof
        End(i) == IF i * MaxPerProof > Len(blobs) THEN Len(blobs) ELSE i * MaxPerProof
    IN FoldLeft(prove_batch, w, [i \in 1..n |-> SubSeq(blobs, (i - 1) * MaxPerProof + 1, End(i))])

\* A task ends: its proof is sent to the node.
send_tx_proof(t) ==
    /\ t \in tasks
    /\ tasks' = tasks \ {t} /\ made' = made \cup t
    /\ UNCHANGED <<chainVars, lost, next, store, catch, failed, behind, disk, restarts>>

\* A task gives up: the prover's error, its thirtieth retry or the sending that fails is logged
\* and nothing else.
ProvingFails(t) ==
    /\ t \in tasks /\ Cardinality(lost \cup t) <= MaxLost
    /\ tasks' = tasks \ {t} /\ lost' = lost \cup t
    /\ UNCHANGED <<chainVars, made, next, store, catch, failed, behind, disk, restarts>>

\* remove_from_unsettled_txs.
remove_from_unsettled_txs(st, t) ==
    IF t \in ToSet(st.proving) THEN [st EXCEPT !.proving = Remove(@, t)]
    ELSE [st EXCEPT !.waiting = Remove(@, t)]

\* Mutant of settle_tx_failed: what was executed after it is not executed again.
settle_tx_failed_alone(a, t) ==
    [a EXCEPT !.st = [remove_from_unsettled_txs(a.st, t) EXCEPT
                         !.chain = Remove(@, t), !.history = Forget(@, {t})]]

\* settle_tx_failed: the transactions executed after it are to be executed again
\* (clear_state_history_after_failed), from the smallest position seen.
settle_tx_failed(a, t) ==
    IF t \notin ToSet(a.st.proving) \cup ToSet(a.st.waiting) THEN a
    ELSE LET known == t \in DOMAIN a.st.history
             pos == IF t \in ToSet(a.st.proving) THEN Position(a.st.proving, t)
                    ELSE Position(a.st.waiting, t)
             st == [remove_from_unsettled_txs(a.st, t) EXCEPT !.chain = Remove(@, t)]
             later == {st.proving[i] : i \in {j \in DOMAIN st.proving : j >= pos}}
         IN [st |-> [st EXCEPT !.history = Forget(@, IF known THEN later \cup {t} ELSE {t})],
             replay |-> IF known THEN a.replay \cup {pos} ELSE a.replay]

\* Mutant of settle_tx_success: the state of the settled transaction goes, not the one before.
settle_tx_success_own(st, t) ==
    LET cut == IF t \in ToSet(st.chain)
               THEN [st EXCEPT !.chain = SubSeq(@, Position(@, t), Len(@)),
                               !.history = Forget(@, {t})]
               ELSE st
    IN remove_from_unsettled_txs(cut, t)

\* settle_tx_success: the chain starts at the settled transaction, the state before it goes.
settle_tx_success(st, t) ==
    LET found == t \in ToSet(st.chain)
        i == Position(st.chain, t)
        cut == IF found
               THEN [st EXCEPT !.chain = SubSeq(@, i, Len(@)),
                               !.history = IF i > 1 THEN Forget(@, {st.chain[i - 1]}) ELSE @]
               ELSE st
    IN remove_from_unsettled_txs(cut, t)

\* populate_unsettled_if_empty: a window of waiting transactions is taken up.
populate_unsettled_if_empty(st) ==
    LET n == IF Len(st.waiting) < Window THEN Len(st.waiting) ELSE Window
    IN IF st.proving # <<>> THEN st
       ELSE [st EXCEPT !.proving = SubSeq(st.waiting, 1, n),
                       !.waiting = SubSeq(@, n + 1, Len(@))]

-----------------------------------------------------------------------------
(* Handling a block.                                                          *)

\* The transactions a block brings: not the duplicates, nor the ones that failed in it.
Arrivals(b) == SelectSeq(b.txs, LAMBDA t : t \notin b.dups \cup b.insta)
Failures(b) == b.late \o SelectSeq(b.bad, LAMBDA t : t \notin b.insta)

\* The failed and timed out transactions go, and what was executed after them is executed
\* again at once.
Replay(w, b) ==
    LET a == FoldLeft(settle_tx_failed, [st |-> w.st, replay |-> {}], Failures(b))
        from == CHOOSE i \in a.replay : \A j \in a.replay : i <= j
        again == SubSeq(a.st.proving, from, Len(a.st.proving))
    IN IF a.replay = {} THEN [w EXCEPT !.st = a.st]
       ELSE prove_supported_blob([w EXCEPT !.st = a.st], again)

\* Successes are handled after the failures: they drop the state before them.
SettleAll(w, b) ==
    LET a == Replay(w, b)
    IN [a EXCEPT !.st = FoldLeft(settle_tx_success, @, b.good)]

\* The state kept for the settled end of the chain is compared with the one on chain.
Mismatch(st, b) ==
    /\ b.updated /\ st.chain # <<>> /\ Head(st.chain) \in DOMAIN st.history
    /\ st.history[Head(st.chain)] # b.state

\* Proving starts when a window is full, or after Buffer blocks.
ProveBuffered(w) ==
    LET full == w.st.proving = <<>> /\ Len(w.st.waiting) >= Window
        due == w.st.count >= Buffer
        st == populate_unsettled_if_empty(w.st)
    IN IF full \/ (due /\ w.st.proving = <<>> /\ w.st.waiting # <<>>)
       THEN prove_supported_blob([w EXCEPT !.st = [st EXCEPT !.count = 0]], st.proving)
       ELSE IF due THEN w ELSE [w EXCEPT !.st.count = @ + 1]

handle_processed_block(w, b) ==
    LET arrived == [w EXCEPT !.st.chain = @ \o Arrivals(b), !.st.waiting = @ \o Arrivals(b)]
        settled == SettleAll(arrived, b)
    IN IF settled.bail \/ Mismatch(settled.st, b) THEN [settled EXCEPT !.bail = TRUE]
       ELSE ProveBuffered(settled)

\* handle_catchup_block: the past is only sorted into what settled, in that order, and what is
\* left.
handle_catchup_block(c, b) ==
    LET gone == ToSet(b.late) \cup ToSet(b.bad) \cup ToSet(b.good)
        all == c.txs \o SelectSeq(b.txs, LAMBDA t : t \notin b.dups)
    IN [c EXCEPT !.txs = SelectSeq(all, LAMBDA t : t \notin gone),
                 !.success = @ \o SelectSeq(b.good, LAMBDA t : t \in ToSet(all))]

\* The last block of the catch up: the settled transactions are executed from the default
\* state, which must give the state on chain; the rest waits.
CaughtUp(w, c) ==
    LET final == FoldLeft(LAMBDA s, t : After(t, s), {}, c.success)
        tip == c.success[Len(c.success)]
        base == IF c.success = <<>> THEN w.st
                ELSE [w.st EXCEPT !.chain = <<tip>>, !.history = Insert(@, tip, final)]
    IN IF final # c.state THEN [w EXCEPT !.bail = TRUE]
       ELSE [w EXCEPT !.st = [base EXCEPT !.chain = @ \o c.txs, !.waiting = @ \o c.txs]]

Working == [st |-> store, tasks |-> tasks, batch |-> {}, bail |-> FALSE]

Becomes(w) == store' = w.st /\ tasks' = w.tasks /\ failed' = w.bail

\* handle_node_state_event.
handle_node_state_event ==
    /\ ~failed /\ next <= Len(log)
    /\ next' = next + 1
    /\ LET b == log[next]
           c == handle_catchup_block(catch, b)
       IN \/ /\ next > catch.target
             /\ Becomes(handle_processed_block(Working, b))
             /\ behind' = (behind \/ ToSet(b.good) \cap ToSet(store.waiting) # {})
             /\ UNCHANGED catch
          \/ /\ next < catch.target
             /\ catch' = c
             /\ UNCHANGED <<store, tasks, failed, behind>>
          \/ /\ next = catch.target /\ Len(log) > catch.target + Slack
             /\ catch' = [c EXCEPT !.target = Len(log), !.state = state]
             /\ UNCHANGED <<store, tasks, failed, behind>>
          \/ /\ next = catch.target /\ Len(log) <= catch.target + Slack
             /\ catch' = NoCatch
             /\ Becomes(CaughtUp(Working, c))
             /\ UNCHANGED behind
    /\ UNCHANGED <<chainVars, made, lost, disk, restarts>>

\* build: the prover learns the height and the state to catch up to.  What was in flight is gone.
Rebuilt ==
    /\ restarts < MaxRestarts
    /\ restarts' = restarts + 1
    /\ catch' = [NoCatch EXCEPT !.target = Len(log), !.state = state]
    /\ tasks' = {} /\ failed' = FALSE
    /\ UNCHANGED <<chainVars, made>>

\* A crash: prover and node go back to what is on disk, a fresh store and the first block if they
\* never stopped cleanly.
Crash ==
    /\ Rebuilt
    /\ store' = disk.store /\ next' = disk.next /\ lost' = disk.lost
    /\ behind' = (disk.next > 1 /\ (disk.behind \/ disk.next <= Len(log)))
    /\ UNCHANGED disk

\* A stop, clean or after an error of the prover: the store is saved, what was gathered while
\* catching up is not, and blocks the listener had published but the prover had not handled are
\* not sent again.
Restart(h) ==
    /\ Rebuilt
    /\ h \in next..(Len(log) + 1)
    /\ next' = h
    /\ behind' = (behind \/ failed \/ next <= Len(log) \/ catch.target >= next)
    /\ lost' = lost \cup UNION tasks
    /\ disk' = [store |-> store, next |-> h, lost |-> lost', behind |-> behind']
    /\ UNCHANGED store

Next ==
    \/ \E n \in 0..2, dup \in SUBSET Resent, insta \in SUBSET Spoiled, late \in SUBSET Impatient :
          NewBlock(n, dup, insta, late)
    \/ handle_node_state_event
    \/ \E t \in tasks : send_tx_proof(t) \/ ProvingFails(t)
    \/ Crash
    \/ \E h \in 1..(MaxBlocks + 1) : Restart(h)

Spec == Init /\ [][Next]_vars

-----------------------------------------------------------------------------

\* The prover is where the node sees it work: on, not catching up, not restarted with a gap.
Following == ~failed /\ ~behind /\ next > catch.target

\* The unsettled transactions and the state after the blocks before height h.
QueueAt(h) ==
    FoldLeft(LAMBDA q, b : SelectSeq(q \o Arrivals(b), LAMBDA t :
                              t \notin ToSet(b.late) \cup ToSet(b.bad) \cup ToSet(b.good)),
             <<>>, SubSeq(log, 1, h - 1))
StateAt(h) == IF h = 1 THEN {} ELSE log[h - 1].state

\* The errors the code calls "likely a bug in the prover" (a state that does not match the one
\* on chain, a previous state that is not known) never stop a prover that has seen all blocks
\* and made the proofs that settle its transactions, whatever fails, times out or settles in one block.
NeverBails == failed => behind

\* What the prover holds, proving before waiting, is exactly the contract's unsettled
\* transactions in their order, and each state it keeps for one being proved is the state it
\* would have if all before it settled as executed: proofs build on one another.
HistoryIsSpeculation ==
    Following =>
        /\ store.proving \o store.waiting = QueueAt(next)
        /\ \A i \in DOMAIN store.proving :
              /\ store.proving[i] \in DOMAIN store.history
              /\ store.history[store.proving[i]] =
                    FoldLeft(LAMBDA s, t : After(t, s), StateAt(next), SubSeq(store.proving, 1, i))

\* The chain never waits for a proof that nobody was to make: when the prover has handled all
\* blocks, a proof of the first transaction being proved for the state on chain was sent or is
\* in flight, even if proofs made earlier were for states that never came about, unless exactly
\* that proof was lost with its task, for a transaction being proved is not proved again.
FirstIsProved ==
    Following /\ next = Len(log) + 1 /\ store.proving # <<>> /\ Head(store.proving) \notin Rejects
        => \E p \in made \cup UNION tasks \cup lost : p.tx = Head(queue) /\ p.init = state
====
