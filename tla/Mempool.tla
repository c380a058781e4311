------------------------------- MODULE Mempool -------------------------------
(***************************************************************************)
(* The mempool (hyli/src/mempool.rs and src/mempool/): a validator orders  *)
(* the transactions it receives into data proposals, chained in its lane;  *)
(* the other validators store and vote for them; votes make a proof of     *)
(* data availability (PoDA); the consensus commits cuts, one certified     *)
(* proposal per lane; every validator builds the block of a slot from the  *)
(* proposals between two cuts, and asks the lane's operator for those it   *)
(* misses.                                                                 *)
(*                                                                         *)
(* One lane carries transactions, that of Op; the lanes do not interact.   *)
(* A proposal is named by its chain, the sequence of the batches from the  *)
(* start of the lane: the hash covers the parent's hash and the batch.     *)
(* The empty sequence stands for no proposal.                              *)
(***************************************************************************)
EXTENDS Integers, Sequences, FiniteSets, FiniteSetsExt, Selection

CONSTANTS
    Nodes,        \* the bonded validators
    Op,           \* the operator of the lane
    Setups,       \* the stakes of the validators, with bounds on the transactions sent
                  \*   and the restarts: [stake, submits, restarts]
    Txs,          \* the transactions users send to Op
    Kind,         \* "blob", "register" (of the contract) or "proof" (for it)
    BatchSize,    \* the transactions a proposal may take (40 MB in the code)
    MaxQueue,     \* bound: proposals in the processing queue of a validator
    MaxSlot,      \* bound: cuts committed
    MaxLane       \* bound: proposals in the lane

ASSUME MempoolAssumption ==
    /\ Op \in Nodes /\ IsFiniteSet(Nodes)
    /\ Setups \subseteq [stake : [Nodes -> Nat], submits : Nat, restarts : Nat]
    /\ Kind \in [Txs -> {"blob", "register", "proof"}]
    /\ BatchSize \in Nat \ {0} /\ MaxQueue \in Nat /\ MaxSlot \in Nat /\ MaxLane \in Nat
    /\ \A s \in Setups : s.submits <= MaxLane

VARIABLES
    setup,     \* the setup in use, chosen once
    node,      \* per validator: MempoolStore, LanesStorage and MempoolSync
    disk,      \* per validator: mempool.bin and mempool_lanes_tip.bin
    joined,    \* per validator: its consensus emits the commits one by one
    net,       \* the messages sent; each may arrive at any time, again, or never
    cuts,      \* the cuts committed, by slot
    built,     \* per validator: the signed blocks emitted in this life
    held,      \* history: who stored which proposal at which lane size
    submits, restarts

vars == <<setup, node, disk, joined, net, cuts, built, held, submits, restarts>>

NoProposal == <<>>
NoCut == [dp |-> NoProposal, size |-> 0, sigs |-> {}]

Parent(dp) == SubSeq(dp, 1, Len(dp) - 1)
Upto(dp, i) == SubSeq(dp, 1, i)
EstimateSize(dp) == Len(dp[Len(dp)])

Power(vs) == MapThenSumSet(LAMBDA v : setup.stake[v], vs)
f == Power(Nodes) \div 3

Put(fn, k, v) == [x \in DOMAIN fn \cup {k} |-> IF x = k THEN v ELSE fn[x]]
Drop(fn, k)   == [x \in DOMAIN fn \ {k} |-> fn[x]]
NoMap == [x \in {} |-> {}]

CutAt(s) == IF s = 0 THEN NoCut ELSE cuts[s]
LastCut == CutAt(Len(cuts))

\* What mempool.bin and mempool_lanes_tip.bin hold; the default when they are missing.
DefaultStore == [waiting |-> <<>>, bucs |-> <<>>, last |-> 0, known |-> FALSE, tip |-> NoCut]

Booted(store, lane) ==
    [waiting |-> store.waiting, bucs |-> store.bucs, last |-> store.last,
     known |-> store.known, tip |-> store.tip, lane |-> lane,
     start |-> 0, cached |-> NoMap, procs |-> <<>>, props |-> <<>>, podas |-> NoMap,
     out |-> {}, emits |-> <<>>]

Init ==
    /\ setup \in Setups
    /\ node = [n \in Nodes |-> Booted(DefaultStore, NoMap)]
    /\ disk = [n \in Nodes |-> DefaultStore]
    /\ joined = [n \in Nodes |-> TRUE]
    /\ net = {} /\ cuts = <<>> /\ built = [n \in Nodes |-> <<>>] /\ held = {}
    /\ submits = 0 /\ restarts = 0

(***************************************************************************)
(* The storage of a lane (storage.rs, storage_fjall.rs): the proposals by  *)
(* hash, with the size of the lane up to each and the votes for it, and    *)
(* the tip.                                                                *)
(***************************************************************************)
\* get_entries_metadata_between_hashes walks from `to` up to `from` or to a hole.
Reached(lane, from, to) ==
    Min({i \in 0 .. Len(to) :
           \A j \in i + 1 .. Len(to) : Upto(to, j) \in DOMAIN lane /\ Upto(to, j) # from})

Between(lane, from, to) ==
    {Upto(to, i) : i \in Reached(lane, from, to) + 1 .. Len(to)}

MissingHash(lane, from, to) ==
    LET stop == Upto(to, Reached(lane, from, to))
    IN  IF stop = from THEN NoProposal ELSE stop

can_be_put_on_top(w, dp) ==
    CASE Parent(dp) = w.tip.dp -> "Yes"
      [] Parent(dp) # w.tip.dp /\ Parent(dp) # NoProposal
           /\ Parent(dp) \notin DOMAIN w.lane -> "No"
      [] OTHER -> "Fork"

\* put refuses a proposal that is already there or does not extend the tip.
CanStore(w, dp) == dp \notin DOMAIN w.lane /\ can_be_put_on_top(w, dp) = "Yes"

store_data_proposal(w, n, dp) ==
    LET size == w.tip.size + EstimateSize(dp)
    IN  [w EXCEPT !.lane = Put(@, dp, [size |-> size, sigs |-> {n}]),
                  !.tip = [dp |-> dp, size |-> size, sigs |-> {}]]

\* Mutant of add_signatures: votes for any size count.
add_signatures_AnySize(w, dp, size, sigs) ==
    [w EXCEPT !.lane = Put(@, dp, [size |-> w.lane[dp].size, sigs |-> w.lane[dp].sigs \cup sigs])]

\* Votes for another size are skipped.
add_signatures(w, dp, size, sigs) ==
    IF w.lane[dp].size # size THEN w
    ELSE [w EXCEPT !.lane = Put(@, dp, [size |-> size, sigs |-> w.lane[dp].sigs \cup sigs])]

\* From the tip downwards, the first proposal that is the committed one or has a PoDA.
get_latest_car(w, prev) ==
    LET cars == {i \in 1 .. Len(w.tip.dp) :
                   /\ \A j \in i .. Len(w.tip.dp) : Upto(w.tip.dp, j) \in DOMAIN w.lane
                   /\ \/ Upto(w.tip.dp, i) = prev.dp
                      \/ Power(w.lane[Upto(w.tip.dp, i)].sigs) >= f + 1}
        dp == Upto(w.tip.dp, Max(cars))
    IN  CASE cars = {} -> NoCut
          [] cars # {} /\ dp = prev.dp -> [dp |-> dp, size |-> w.lane[dp].size, sigs |-> prev.sigs]
          [] OTHER -> [dp |-> dp, size |-> w.lane[dp].size, sigs |-> w.lane[dp].sigs]

\* Cuts range over the lanes that have a tip, and keep a lane they find no proof for.
handle_querynewcut(w) ==
    LET prev == CutAt(w.last)
        car  == get_latest_car(w, prev)
    IN  CASE w.tip.dp = NoProposal -> NoCut
          [] w.tip.dp # NoProposal /\ car = NoCut -> prev
          [] OTHER -> car

\* Mutant of verify_poda: the size of the lane is not compared.
verify_poda_AnySize(cut, parent) ==
    /\ parent.dp # NoProposal => cut.dp # NoProposal
    /\ cut.dp = parent.dp \/ Power(cut.sigs) >= f + 1

\* What the other validators check of a cut before they vote (consensus, verify_poda).
verify_poda(cut, parent) ==
    /\ parent.dp # NoProposal => cut.dp # NoProposal
    /\ \/ cut.dp = parent.dp
       \/ cut.size > parent.size /\ Power(cut.sigs) >= f + 1

(***************************************************************************)
(* Messages.  A validator does not send to itself.                         *)
(***************************************************************************)
Send(w, n, dsts, m) ==
    [w EXCEPT !.out = @ \cup {[m EXCEPT !.src = n, !.dst = d] : d \in dsts \ {n}}]

Msg(type, dp, size, sigs, from) ==
    [type |-> type, src |-> Op, dst |-> Op, dp |-> dp, size |-> size, sigs |-> sigs,
     from |-> from]

DataProposal(dp)           == Msg("DataProposal", dp, 0, {}, NoProposal)
DataVote(n, dp, size)      == Msg("DataVote", dp, size, {n}, NoProposal)
PoDAUpdate(dp, size, sigs) == Msg("PoDAUpdate", dp, size, sigs, NoProposal)
SyncRequest(from, to)      == Msg("SyncRequest", to, 0, {}, from)
SyncReply(dp, entry)       == Msg("SyncReply", dp, entry.size, entry.sigs, NoProposal)

\* A step of validator n that leaves it in state w.
Becomes(n, w) ==
    /\ node' = [node EXCEPT ![n] = [w EXCEPT !.out = {}, !.emits = <<>>]]
    /\ net' = net \cup w.out
    /\ built' = [built EXCEPT ![n] = @ \o w.emits]
    /\ held' = held \cup {<<n, dp, w.lane[dp].size>> : dp \in DOMAIN w.lane}

(***************************************************************************)
(* The operator's lane (own_lane.rs).                                      *)
(***************************************************************************)
Enqueued(w, t) ==
    IF t \in {w.waiting[i] : i \in DOMAIN w.waiting} THEN w
    ELSE [w EXCEPT !.waiting = Append(@, t)]

\* A proof is verified against the program of its contract, and dropped without one.
process_proof_tx(w, t) == Kind[t] = "proof" => w.known

\* A transaction was hashed and processed; a registration makes its contract known at once.
on_new_tx(t) ==
    /\ submits < setup.submits /\ submits' = submits + 1
    /\ process_proof_tx(node[Op], t)
    /\ Becomes(Op, Enqueued([node[Op] EXCEPT !.known = @ \/ Kind[t] = "register"], t))
    /\ UNCHANGED <<setup, disk, joined, cuts, restarts>>

\* The first pending entry, from the tip down, that a validator has not signed; only the
\* one named, when one is.
disseminate_data_proposals(w, only) ==
    LET dps == {dp \in Between(w.lane, CutAt(w.last).dp, w.tip.dp) :
                  /\ only = NoProposal \/ dp = only
                  /\ w.lane[dp].sigs # Nodes}
        dp == CHOOSE d \in dps : \A e \in dps : Len(e) <= Len(d)
    IN  IF dps = {} THEN w ELSE Send(w, Op, Nodes \ w.lane[dp].sigs, DataProposal(dp))

\* The transactions that fit in a proposal leave the queue.
init_dp_preparation_if_pending(w) ==
    LET k == Min({BatchSize, Len(w.waiting)})
    IN  [dp |-> Append(w.tip.dp, SubSeq(w.waiting, 1, k)),
         left |-> [w EXCEPT !.waiting = SubSeq(@, k + 1, Len(@))]]

register_new_data_proposal(w, dp) ==
    IF CanStore(w, dp) THEN disseminate_data_proposals(store_data_proposal(w, Op, dp), dp)
    ELSE w

\* On the tick of new_dp_timer, prepare_new_data_proposal, the hashing and
\* resume_new_data_proposal: only these move the tip of the own lane.
new_data_proposal ==
    LET prep == init_dp_preparation_if_pending(node[Op])
    IN  /\ node[Op].waiting # <<>>
        /\ Becomes(Op, register_new_data_proposal(prep.left, prep.dp))
        /\ UNCHANGED <<setup, disk, joined, cuts, submits, restarts>>

\* On the tick of disseminate_timer.
redisseminate ==
    /\ disseminate_data_proposals(node[Op], NoProposal).out # {}
    /\ Becomes(Op, disseminate_data_proposals(node[Op], NoProposal))
    /\ UNCHANGED <<setup, disk, joined, cuts, submits, restarts>>

\* A vote is added, and the votes are sent to all when they pass a threshold.
on_data_vote(w, v, dp, size) ==
    LET u     == add_signatures(w, dp, size, {v})
        sigs  == u.lane[dp].sigs
        old   == Power(sigs \ {v})
        passed == \/ old < f /\ Power(sigs) >= f
                  \/ old < 2 * f /\ Power(sigs) >= 2 * f
                  \/ Power(sigs) > 3 * f
    IN  IF dp \notin DOMAIN w.lane THEN w
        ELSE IF passed THEN Send(u, Op, Nodes, PoDAUpdate(dp, u.lane[dp].size, sigs))
        ELSE u

(***************************************************************************)
(* The proposals of others (verify_tx.rs).  A proposal is hashed, judged,  *)
(* verified and judged again, in tasks that are joined in the order in     *)
(* which they were spawned.                                                *)
(***************************************************************************)
\* A proof needs its contract to be known, or registered earlier in the same proposal.
process_data_proposal(w, dp) ==
    LET txs == dp[Len(dp)]
    IN  IF \A i \in DOMAIN txs : Kind[txs[i]] = "proof" =>
             w.known \/ \E j \in 1 .. i - 1 : Kind[txs[j]] = "register"
        THEN "Vote" ELSE "Refuse"

get_verdict(w, dp) ==
    IF dp \in DOMAIN w.lane THEN "Vote"
    ELSE CASE can_be_put_on_top(w, dp) = "No"   -> "Wait"
           [] can_be_put_on_top(w, dp) = "Yes"  -> "Process"
           [] can_be_put_on_top(w, dp) = "Fork" -> "Refuse"

get_lane_size_at(w, dp) == IF dp \in DOMAIN w.lane THEN w.lane[dp].size ELSE 0

send_vote(w, n, dp) == Send(w, n, {Op}, DataVote(n, dp, get_lane_size_at(w, dp)))

Spawned(w, what, dp, early) ==
    [w EXCEPT !.procs = Append(@, [what |-> what, dp |-> dp, early |-> early])]

\* A verdict in the cache answers at once; a vote is sent again.
on_data_proposal(w, n, dp) ==
    LET cached == IF dp \in DOMAIN w.cached THEN w.cached[dp] ELSE "None"
    IN  CASE cached \in {"Refuse", "Process"} -> w
          [] cached = "Vote" -> send_vote(w, n, dp)
          [] OTHER -> Spawned(w, "hash", dp, "None")

\* buffered_proposals, an IndexSet: a new one goes to the end, and when one is taken out
\* the last takes its place.
Inserted(props, dp) ==
    IF \E k \in DOMAIN props : props[k] = dp THEN props ELSE Append(props, dp)

SwapRemoved(props, i) ==
    [k \in 1 .. Len(props) - 1 |-> IF k = i THEN props[Len(props)] ELSE props[k]]

on_hashed_data_proposal(w, n, dp) ==
    LET verdict == get_verdict(w, dp)
        u == [w EXCEPT !.cached = Put(@, dp, verdict)]
    IN  CASE verdict = "Vote"    -> send_vote(u, n, dp)
          [] verdict = "Process" -> Spawned(u, "verify", dp, process_data_proposal(u, dp))
          [] verdict = "Wait"    -> [u EXCEPT !.props = Inserted(@, dp)]
          [] verdict = "Refuse"  -> u

on_poda_update(w, dp, size, sigs) ==
    IF dp \in DOMAIN w.lane THEN add_signatures(w, dp, size, sigs)
    ELSE LET before == IF dp \in DOMAIN w.podas THEN w.podas[dp] ELSE {}
         IN  [w EXCEPT !.podas = Put(@, dp, before \cup {[size |-> size, sigs |-> sigs]})]

\* The signatures that arrived before the proposal, and the proposal that waited for it.
TakeBuffered(w, n, dp) ==
    LET podas == IF dp \in DOMAIN w.podas
                 THEN {q \in w.podas[dp] : q.size = w.lane[dp].size} ELSE {}
        sigs == w.lane[dp].sigs \cup UNION {q.sigs : q \in podas}
        u == [w EXCEPT !.lane = Put(@, dp, [size |-> w.lane[dp].size, sigs |-> sigs]),
                       !.podas = Drop(@, dp)]
        children == {k \in DOMAIN w.props : Parent(w.props[k]) = dp}
        k == Min(children)
    IN  IF children = {} THEN u
        ELSE on_hashed_data_proposal([u EXCEPT !.props = SwapRemoved(@, k)], n, w.props[k])

\* store_data_proposal fails when the tip moved while the proposal was verified.
on_processed_data_proposal(w, n, dp, verdict) ==
    LET u == [w EXCEPT !.cached = Put(@, dp, verdict)]
    IN  IF verdict = "Vote" /\ CanStore(u, dp)
        THEN TakeBuffered(send_vote(store_data_proposal(u, n, dp), n, dp), n, dp)
        ELSE u

\* The next task of the queue ends.  The contracts a verification knows are those of
\* some moment between its start and its end.
handle_internal_event(n) ==
    /\ node[n].procs # <<>>
    /\ LET e == Head(node[n].procs)
           w == [node[n] EXCEPT !.procs = Tail(@)]
       IN  \/ /\ e.what = "hash"
              /\ Becomes(n, on_hashed_data_proposal(w, n, e.dp))
           \/ /\ e.what = "verify"
              /\ \E verdict \in {e.early, process_data_proposal(w, e.dp)} :
                   Becomes(n, on_processed_data_proposal(w, n, e.dp, verdict))
    /\ UNCHANGED <<setup, disk, joined, cuts, submits, restarts>>

\* NodeStateEvent::NewBlock tells the contract a committed proposal registered.
handle_contract_registration(n) ==
    /\ ~node[n].known
    /\ \E i \in DOMAIN LastCut.dp : \E j \in DOMAIN LastCut.dp[i] :
         Kind[LastCut.dp[i][j]] = "register"
    /\ Becomes(n, [node[n] EXCEPT !.known = TRUE])
    /\ UNCHANGED <<setup, disk, joined, cuts, submits, restarts>>

(***************************************************************************)
(* Blocks (block_construction.rs).                                         *)
(***************************************************************************)
Content(lane, b) ==
    [i \in 1 .. Len(CutAt(b.slot).dp) - Reached(lane, CutAt(b.from).dp, CutAt(b.slot).dp) |->
       Upto(CutAt(b.slot).dp, i + Reached(lane, CutAt(b.from).dp, CutAt(b.slot).dp))]

Missing(lane, b) == MissingHash(lane, CutAt(b.from).dp, CutAt(b.slot).dp)

\* Mutant of try_to_send_full_signed_blocks: a block that misses a proposal is not kept.
try_to_send_full_signed_blocks_Dropped(w, n) ==
    LET whole == {i \in DOMAIN w.bucs : Missing(w.lane, w.bucs[i]) = NoProposal}
        ready == Selected(w.bucs, whole)
    IN  [w EXCEPT
           !.bucs = <<>>,
           !.emits = @ \o [i \in DOMAIN ready |->
                             [slot |-> ready[i].slot, dps |-> Content(w.lane, ready[i])]]]

\* Every queued block is tried once; those that miss a proposal ask for it and stay.
try_to_send_full_signed_blocks(w, n) ==
    LET whole == {i \in DOMAIN w.bucs : Missing(w.lane, w.bucs[i]) = NoProposal}
        ready == Selected(w.bucs, whole)
        rest  == Selected(w.bucs, DOMAIN w.bucs \ whole)
    IN  [w EXCEPT
           !.bucs = rest,
           !.emits = @ \o [i \in DOMAIN ready |->
                             [slot |-> ready[i].slot, dps |-> Content(w.lane, ready[i])]],
           !.out = @ \cup {[SyncRequest(CutAt(rest[i].from).dp, Missing(w.lane, rest[i]))
                              EXCEPT !.src = n] : i \in {j \in DOMAIN rest : n # Op}}]

\* Mutant of try_create_block_under_construction: a block spans the slots that were missed.
try_create_block_under_construction_Spans(w, s) ==
    IF w.last >= s THEN w
    ELSE [w EXCEPT !.last = s, !.bucs = Append(@, [from |-> w.last, slot |-> s]),
                   !.start = IF @ = 0 THEN s ELSE @]

try_create_block_under_construction(w, s) ==
    LET queued == [w EXCEPT !.last = s, !.bucs = Append(@, [from |-> w.last, slot |-> s]),
                            !.start = IF @ = 0 THEN s ELSE @]
    IN  CASE w.last >= s -> w
          [] w.last < s /\ w.last = s - 1 -> queued
          [] OTHER -> [w EXCEPT !.last = s]

\* A proposal of the cut that is not there becomes the tip, over a hole; the old tip is
\* popped, alone: pop sets the tip to the entry it removed.
clean_and_update_lane(w, cut, prev) ==
    [w EXCEPT !.lane = IF w.tip.dp \in {prev.dp, cut.dp} THEN @ ELSE Drop(@, w.tip.dp),
              !.tip = [dp |-> cut.dp, size |-> cut.size, sigs |-> {}]]

\* Mutant of clean_and_update_lanes: the lane is cleaned although it holds the cut's proposal.
clean_and_update_lanes_Always(w, n, cut, prev) ==
    IF cut.dp = NoProposal \/ cut.dp = prev.dp THEN w
    ELSE Send(clean_and_update_lane(w, cut, prev), n, {Op}, SyncRequest(prev.dp, cut.dp))

clean_and_update_lanes(w, n, cut, prev) ==
    IF cut.dp = NoProposal \/ cut.dp \in DOMAIN w.lane \/ cut.dp = prev.dp THEN w
    ELSE Send(clean_and_update_lane(w, cut, prev), n, {Op}, SyncRequest(prev.dp, cut.dp))

handle_consensus_event(n, s) ==
    LET u == try_create_block_under_construction(node[n], s)
    IN  /\ Becomes(n, clean_and_update_lanes(try_to_send_full_signed_blocks(u, n), n,
                                             CutAt(s), CutAt(node[n].last)))
        /\ UNCHANGED <<setup, disk, cuts, submits, restarts>>

\* The consensus commits the cut a leader got from its mempool, or the last cut again.
Decide(n) ==
    /\ Len(cuts) < MaxSlot
    /\ \E cut \in {handle_querynewcut(node[n]), LastCut} :
         verify_poda(cut, LastCut) /\ cuts' = Append(cuts, cut)
    /\ UNCHANGED <<setup, node, disk, joined, net, built, held, submits, restarts>>

\* A running consensus tells its mempool of every commit, in order; after a restart the
\* first commit may be any.
Commit(n) ==
    /\ \E s \in 1 .. Len(cuts) :
         /\ joined[n] => s = node[n].last + 1
         /\ handle_consensus_event(n, s)
    /\ joined' = [joined EXCEPT ![n] = TRUE]

(***************************************************************************)
(* Synchronisation (sync_request_reply.rs).                                *)
(***************************************************************************)
\* on_sync_request, unfold_sync_request_interval and send_replies: one reply per entry of
\* the interval, one in all when it has no lower end.  The replies leave in batches, with
\* the entry as it is now; one that was sent to the same validator less than 10 s ago is
\* not sent again, and how long ago is left open.
Wanted(lane, from, to) ==
    IF from = to THEN {}
    ELSE {dp \in Between(lane, from, to) : from = NoProposal => dp = to}

Replied(v, dp) == \E m \in net : m.type = "SyncReply" /\ m.dst = v /\ m.dp = dp

send_replies(w, v, dps) ==
    [w EXCEPT !.out = {[SyncReply(dp, w.lane[dp]) EXCEPT !.dst = v] : dp \in dps}]

on_sync_request(n, v, from, to) ==
    LET wanted == Wanted(node[n].lane, from, to)
    IN  \E throttled \in SUBSET {dp \in wanted : Replied(v, dp)} :
          Becomes(n, send_replies(node[n], v, wanted \ throttled))

\* The entry is stored whatever is there; the buffered proposals and blocks are retried.
on_sync_reply(w, n, m) ==
    LET u == [w EXCEPT !.lane = Put(@, m.dp, [size |-> m.size, sigs |-> m.sigs]),
                       !.props = <<>>]
        retried[k \in 0 .. Len(w.props)] ==
          IF k = 0 THEN u
          ELSE IF w.props[k] \in DOMAIN u.lane THEN retried[k - 1]
          ELSE on_data_proposal(retried[k - 1], n, w.props[k])
    IN  IF Op \notin m.sigs THEN w
        ELSE try_to_send_full_signed_blocks(retried[Len(w.props)], n)

handle_net_message(m) ==
    LET n == m.dst
        w == node[n]
    IN  /\ \/ /\ m.type = "DataProposal" /\ Len(w.procs) < MaxQueue
              /\ Becomes(n, on_data_proposal(w, n, m.dp))
           \/ /\ m.type = "DataVote"
              /\ \E v \in m.sigs : Becomes(n, on_data_vote(w, v, m.dp, m.size))
           \/ /\ m.type = "PoDAUpdate"
              /\ Becomes(n, on_poda_update(w, m.dp, m.size, m.sigs))
           \/ /\ m.type = "SyncRequest"
              /\ on_sync_request(n, m.src, m.from, m.dp)
           \/ /\ m.type = "SyncReply"
              /\ Becomes(n, on_sync_reply(w, n, m))
        /\ UNCHANGED <<setup, disk, joined, cuts, submits, restarts>>

(***************************************************************************)
(* Faults.                                                                 *)
(***************************************************************************)
Saved(w) == [waiting |-> w.waiting, bucs |-> w.bucs, last |-> w.last, known |-> w.known,
             tip |-> w.tip]

Reboot(n, store, lane) ==
    /\ restarts < setup.restarts /\ restarts' = restarts + 1
    /\ node' = [node EXCEPT ![n] = Booted(store, lane)]
    /\ joined' = [joined EXCEPT ![n] = FALSE]
    /\ built' = [built EXCEPT ![n] = <<>>]
    /\ UNCHANGED <<setup, net, cuts, held, submits>>

\* A shutdown waits for the tasks in flight, then saves the store and the tips.
Restart(n) ==
    LET w == node[n]
    IN  /\ w.procs = <<>>
        /\ disk' = [disk EXCEPT ![n] = Saved(w)]
        /\ Reboot(n, Saved(w), w.lane)

\* A crash saves nothing, and the journal of the lanes is not flushed: any entries may be
\* lost.  The operator's crash is left out: it would chain proposals anew.
Crash(n) ==
    /\ n # Op
    /\ \E kept \in SUBSET DOMAIN node[n].lane :
         Reboot(n, disk[n], [dp \in kept |-> node[n].lane[dp]])
    /\ UNCHANGED disk

Next ==
    \/ \E t \in Txs : on_new_tx(t)
    \/ new_data_proposal \/ redisseminate
    \/ \E m \in net : handle_net_message(m)
    \/ \E n \in Nodes :
         \/ handle_internal_event(n) \/ handle_contract_registration(n)
         \/ Decide(n) \/ Commit(n) \/ Restart(n) \/ Crash(n)

Spec == Init /\ [][Next]_vars

-----------------------------------------------------------------------------
(***************************************************************************)
(* Properties.                                                             *)
(***************************************************************************)
TotalSize(dp) ==
    LET total[i \in 0 .. Len(dp)] == IF i = 0 THEN 0 ELSE total[i - 1] + Len(dp[i])
    IN  total[Len(dp)]

\* Whoever leads, from a lane with holes, with votes missing or with a last cut that is
\* out of date, the cuts committed follow one chain and tell its true size: the size
\* check of verify_poda must be enough to keep a lane from going back.
CutsGrow ==
    \A s \in 1 .. Len(cuts) :
      /\ \E i \in 0 .. Len(cuts[s].dp) : Upto(cuts[s].dp, i) = CutAt(s - 1).dp
      /\ cuts[s].size = TotalSize(cuts[s].dp)

\* A signature in a lane entry or a cut is of a validator that stored the proposal at that
\* lane size: a vote sent again from the cache for a proposal that is no longer, or was
\* never, stored must not count.
SignersHeld ==
    /\ \A n \in Nodes : \A dp \in DOMAIN node[n].lane : \A v \in node[n].lane[dp].sigs :
         <<v, dp, node[n].lane[dp].size>> \in held
    /\ \A s \in 1 .. Len(cuts) : \A v \in cuts[s].sigs : <<v, cuts[s].dp, cuts[s].size>> \in held

Segment(s) ==
    [i \in 1 .. Len(cuts[s].dp) - Len(CutAt(s - 1).dp) |->
       Upto(cuts[s].dp, Len(CutAt(s - 1).dp) + i)]

\* A block holds exactly the proposals that its cut adds to the one before, in order, and
\* a validator emits it once, whatever was missing, fetched or retried in between.
BlocksAreSegments ==
    \A n \in Nodes : \A i \in DOMAIN built[n] :
      /\ built[n][i].dps = Segment(built[n][i].slot)
      /\ \A j \in DOMAIN built[n] : built[n][i].slot = built[n][j].slot => i = j

\* From the height announced by StartedBuildingBlocks on, every committed slot the mempool
\* was told of is built or still in the queue: data availability does not ask others for it.
NoSlotForgotten ==
    \A n \in Nodes : node[n].start # 0 =>
      \A s \in node[n].start .. node[n].last :
        \/ \E i \in DOMAIN built[n] : built[n][i].slot = s
        \/ \E i \in DOMAIN node[n].bucs : node[n].bucs[i].slot = s

\* Requests for missing proposals go to the operator of the lane alone: it still stores
\* every proposal that it may be asked for.
OperatorCanServe ==
    \A m \in net : m.type = "SyncRequest" => m.dp \in DOMAIN node[Op].lane
=============================================================================
