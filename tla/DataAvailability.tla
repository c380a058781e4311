------------------------------ MODULE DataAvailability ------------------------------
(***************************************************************************)
(* The data availability module of a node that joins (src/data_availability.rs), *)
(* its block store (data_availability/blocks_fjall.rs), the peer it streams *)
(* the past from, the NodeStateModule it feeds (node_state/module.rs) and a *)
(* DAListener that reads from it (modules/da_listener.rs).                  *)
(*                                                                         *)
(* There is one chain, so a block is its height and its parent is the      *)
(* height before.  "peer" is a node whose mempool builds every block in    *)
(* order; "joiner" gets them from the peer's stream and from its own       *)
(* mempool, which builds from some height on, in any order.  A connection  *)
(* carries the blocks its server has sent, first in first out.             *)
(***************************************************************************)
EXTENDS Naturals, Sequences, FiniteSets

CONSTANTS MaxHeight,     \* bound: the chain grows up to this height
          MaxPast,       \* bound: the blocks the peer may hold at the start
          MaxFaults      \* bound: connections that break, processes that stop or crash, sends
                         \* that find the bus full

ASSUME BoundsAssumption ==
    MaxHeight \in Nat /\ MaxPast \in 0..MaxHeight /\ MaxFaults \in Nat

Heights == 0..MaxHeight
Nodes == {"peer", "joiner"}
Clients == {"joiner", "listener"}      \* the block_catcher and the DAListener
None == MaxHeight + 1                  \* Option::None, for a height
Server(c) == IF c = "joiner" THEN "peer" ELSE "joiner"

VARIABLES
    stored,      \* blocks_by_hash, per node
    indexed,     \* block_hashes_by_height, per node
    buffered,    \* buffered_signed_blocks
    need,        \* need_catchup
    task,        \* catchup_task: "none", "running", "ended" (stream over) or "aborted"
    until,       \* catchup_height
    chan,        \* catchup_block_receiver: what is left of a stream that is over
    genesis,     \* what GenesisEvent will say: "block", "no", or "done" once handled
    mempool,     \* joiner's mempool: first height it builds, whether it told, what it built,
                 \* whether it has been there since the genesis
    ns,          \* NodeState: the blocks it is made of once it has handled its events, the ones
                 \* on disk, failed
    lagged,      \* NodeState was loaded without having handled all stored blocks
    unsent,      \* blocks stored since then whose OrderedSignedBlock the full bus refused
    conn,        \* per client: connected, request to serve, blocks to stream, blocks sent
    listener,    \* the DAListener: the blocks its node state is made of, the ones on disk,
                 \* block_buffer, whether its first request is made, whether it has passed
                 \* over the genesis block
    faults

daVars == <<stored, indexed, buffered>>
catchVars == <<need, task, until, chan, genesis>>
nsVars == <<ns, lagged, unsent>>
vars == <<daVars, catchVars, mempool, nsVars, conn, listener, faults>>

Highest(S) == CHOOSE h \in S : \A g \in S : g <= h

\* Blocks::last reads the index, not the blocks.
last(n) == IF indexed[n] = {} THEN None ELSE Highest(indexed[n])
Top == Highest(stored["peer"] \cup {0})

\* current_height of a NodeState made of the blocks of S: 0 before and after the genesis block.
current_height(S) == Highest(S \cup {0})

Closed == [up |-> FALSE, ask |-> None, todo |-> <<>>, wire |-> <<>>]
Asked(h) == [Closed EXCEPT !.up = TRUE, !.ask = h]
Fresh == [from |-> None, told |-> FALSE, built |-> {}, early |-> FALSE]

-----------------------------------------------------------------------------
(* The initial states: the peer holds 0..past, or nothing before its own      *)
(* genesis block; the joiner is empty and either takes part in the genesis    *)
(* or learns that it has none to wait for.                                    *)

Init ==
    /\ \E past \in 0..MaxPast :
          /\ stored = [n \in Nodes |-> IF n = "peer" THEN 0..past ELSE {}]
          /\ genesis \in IF past = 0 THEN {"block", "no"} ELSE {"no"}
          /\ mempool = [Fresh EXCEPT !.early = (genesis = "block")]
    /\ indexed = stored
    /\ buffered = {}
    /\ need = FALSE /\ task = "none" /\ until = None /\ chan = <<>>
    /\ ns = [seen |-> {}, saved |-> {}, failed |-> FALSE]
    /\ lagged = FALSE /\ unsent = {}
    /\ conn = [c \in Clients |-> Closed]
    /\ listener = [seen |-> {}, saved |-> {}, buffer |-> {}, started |-> FALSE, skipped |-> FALSE]
    /\ faults = 0

-----------------------------------------------------------------------------
(* Blocks entering a store.                                                   *)

Seq1(h, k) == [i \in 1..k |-> h + i - 1]

\* Mutant of popped: one buffered block is taken, not all that follow.
popped_once(h, buf) == IF h + 1 \in buf THEN 1 ELSE 0

\* pop_buffer: how many buffered blocks follow h without a gap.
popped(h, buf) ==
    CHOOSE k \in 0..MaxHeight :
        /\ \A i \in 1..k : h + i \in buf
        /\ h + k + 1 \notin buf

\* Mutant of already: a block that is stored is handled again.
already_never(S, h) == FALSE

\* Blocks::put for the blocks of set, on one of its two partitions.
put(partition, n, set) == [partition EXCEPT ![n] = @ \cup set]

\* The two tests of handle_signed_block that let a block in.
already(S, h) == h \in S

follows(S, h) == IF S = {} THEN h = 0 ELSE h > 0 /\ h - 1 \in S

\* TcpServer::broadcast: every connected client of node n is sent the blocks.
broadcast(n, new, cs) ==
    [c \in Clients |-> IF Server(c) = n /\ cs[c].up
                       THEN [cs[c] EXCEPT !.wire = @ \o new] ELSE cs[c]]

\* NodeState::handle_signed_block: the next height, or the genesis block at height 0.  Any other
\* block ends the NodeStateModule.
accepts(S, h) == h = current_height(S) + 1 \/ (current_height(S) = 0 /\ h = 0)

\* OrderedSignedBlock: NodeState is sent the blocks of set, in order, and takes them up to the
\* first that it refuses.  It handles them later, but nothing reads its height before the node
\* stops: Restart chooses how far it has come.
taken(n, set) ==
    {h \in set : ~n.failed /\ \A g \in set : g <= h => accepts(n.seen \cup {x \in set : x < g}, g)}

Handled(n, set) ==
    [n EXCEPT !.seen = @ \cup taken(n, set), !.failed = @ \/ taken(n, set) # set]

\* handle_signed_block at the joiner lets block h in.
Admits(h) == ~already(stored["joiner"], h) /\ follows(stored["joiner"], h)

\* add_processed_block for h and for every buffered block that pop_buffer takes.
Processed(h) == Seq1(h, 1 + popped(h, buffered))

\* The bus takes each OrderedSignedBlock unless its channel is full: then the error is logged,
\* and the block, which is stored and broadcast, is never sent again.
send_ordered(set) ==
    \E lost \in SUBSET set :
        /\ lost # {} => faults < MaxFaults
        /\ faults' = IF lost = {} THEN faults ELSE faults + 1
        /\ unsent' = unsent \cup lost
        /\ ns' = Handled(ns, set \ lost)

handle_signed_block(h, cs) ==
    \/ /\ already(stored["joiner"], h)
       /\ conn' = cs
       /\ UNCHANGED <<stored, indexed, buffered, ns, unsent, faults>>
    \/ /\ ~already(stored["joiner"], h)
       /\ ~follows(stored["joiner"], h)
       /\ buffered' = buffered \cup {h}
       /\ conn' = cs
       /\ UNCHANGED <<stored, indexed, ns, unsent, faults>>
    \/ /\ Admits(h)
       /\ LET new == Processed(h)
              set == {new[i] : i \in DOMAIN new}
          IN /\ stored' = put(stored, "joiner", set)
             /\ indexed' = put(indexed, "joiner", set)
             /\ buffered' = buffered \ set
             /\ send_ordered(set)
             /\ conn' = broadcast("joiner", new, cs)

\* The peer commits and stores the next block; its clients are sent it.
PeerBlock ==
    /\ Top < MaxHeight
    /\ stored' = put(stored, "peer", {Top + 1})
    /\ indexed' = put(indexed, "peer", {Top + 1})
    /\ conn' = broadcast("peer", <<Top + 1>>, conn)
    /\ UNCHANGED <<buffered, catchVars, mempool, nsVars, listener, faults>>

\* BuiltSignedBlock: the joiner's mempool has the data of a committed slot.  Blocks that lack
\* data are put at the end of its queue, so they come in any order.
BuiltSignedBlock(h) ==
    /\ h \in mempool.from..Top /\ h \notin mempool.built
    /\ mempool' = [mempool EXCEPT !.built = @ \cup {h}]
    /\ handle_signed_block(h, conn)
    /\ UNCHANGED <<catchVars, lagged, listener>>

\* The block_catcher's stream is closed: the blocks it had moved to the channel stay there.
Keeps(wire) == \E k \in 0..Len(wire) : chan' = SubSeq(wire, 1, k)

\* The mempool takes up building at slot s.  It announces that once in its life, and the
\* announcement is remembered over a clean restart.
StopsAt(s) == task # "none" /\ last("joiner") # None /\ last("joiner") >= s

StartedBuildingBlocks(s) ==
    /\ mempool.from = None
    /\ s \in IF mempool.early THEN {1} ELSE 1..(Top + 1)
    /\ \A h \in mempool.built : h < s
    /\ mempool' = [mempool EXCEPT !.from = s, !.told = TRUE]
    /\ IF mempool.told THEN UNCHANGED <<until, task, need, chan, conn>>
       ELSE /\ until' = s - 1
            /\ task' = IF StopsAt(s) THEN "aborted" ELSE task
            /\ need' = (need /\ ~StopsAt(s))
            /\ IF StopsAt(s) /\ task = "running"
               THEN Keeps(conn["joiner"].wire) /\ conn' = [conn EXCEPT !["joiner"] = Closed]
               ELSE UNCHANGED <<chan, conn>>
    /\ UNCHANGED <<daVars, genesis, nsVars, listener, faults>>

-----------------------------------------------------------------------------
(* Catching up.                                                               *)

\* GenesisEvent: the genesis block, or the news that there is none to wait for.
GenesisEvent ==
    /\ genesis # "done"
    /\ genesis' = "done"
    /\ IF genesis = "block" THEN handle_signed_block(0, conn) /\ need' = need
       ELSE need' = TRUE /\ UNCHANGED <<daVars, ns, unsent, conn, faults>>
    /\ UNCHANGED <<task, until, chan, mempool, lagged, listener>>

\* PeerEvent::NewPeer and ask_for_catchup_blocks.  An event that comes while nothing is needed,
\* or while a task was ever started, is dropped.
ask_for_catchup_blocks ==
    /\ need /\ task = "none"
    /\ task' = "running"
    /\ conn' = [conn EXCEPT !["joiner"] =
                   Asked(IF last("joiner") = None THEN 0 ELSE last("joiner") + 1)]
    /\ UNCHANGED <<daVars, need, until, chan, genesis, mempool, nsVars, listener, faults>>

\* start_streaming_to_peer: a copy of the range is taken; what is stored later is broadcast.
range(n, from) ==
    LET S == {h \in indexed[n] : h >= from}
    IN [i \in 1..Cardinality(S) |-> CHOOSE h \in S : Cardinality({g \in S : g < h}) = i - 1]

start_streaming_to_peer(c) ==
    /\ conn[c].up /\ conn[c].ask # None
    /\ conn' = [conn EXCEPT ![c].ask = None, ![c].todo = range(Server(c), conn[c].ask)]
    /\ UNCHANGED <<daVars, catchVars, mempool, nsVars, listener, faults>>

\* catchup_receiver: one block of the copied range is sent at a time.
StreamBlock(c) ==
    /\ conn[c].up /\ conn[c].todo # <<>>
    /\ conn' = [conn EXCEPT ![c].wire = Append(@, Head(conn[c].todo)), ![c].todo = Tail(@)]
    /\ UNCHANGED <<daVars, catchVars, mempool, nsVars, listener, faults>>

\* Mutant of Reaches: one block too early.
Reaches_early(h) ==
    /\ Admits(h) /\ until # None /\ task # "none"
    /\ LET new == Processed(h) IN until <= new[Len(new)] + 1

\* Catching up stops once a streamed block brings the store to the mempool's first block.
Reaches(h) ==
    /\ Admits(h) /\ until # None /\ task # "none"
    /\ LET new == Processed(h) IN until <= new[Len(new)]

\* The block_catcher moves a block from its socket to the channel and the loop takes it.
Stream == chan \o conn["joiner"].wire

CatchupBlock ==
    /\ Stream # <<>>
    /\ LET h == Head(Stream)
           rest == Tail(Stream)
       IN /\ task' = IF Reaches(h) THEN "none" ELSE task
          /\ need' = (need /\ ~Reaches(h))
          /\ \/ /\ task # "running"
                /\ chan' = rest
                /\ handle_signed_block(h, conn)
             \/ /\ task = "running" /\ ~Reaches(h)
                /\ chan' = <<>>
                /\ handle_signed_block(h, [conn EXCEPT !["joiner"].wire = rest])
             \/ /\ task = "running" /\ Reaches(h)
                /\ Keeps(rest)
                /\ handle_signed_block(h, [conn EXCEPT !["joiner"] = Closed])
    /\ UNCHANGED <<until, genesis, mempool, lagged, listener>>

-----------------------------------------------------------------------------
(* The DAListener.                                                            *)

\* Mutant of process_block: a block from the future is dropped.
process_block_dropping(l, h) ==
    IF accepts(l.seen, h) THEN [l EXCEPT !.seen = @ \cup {h}] ELSE l

\* process_block with process_buffered_blocks.  Block 1 is the next one at height 0 whether or
\* not the genesis block was handled, which at height 0 is handled each time it comes.
process_block(l, h) ==
    LET cur == current_height(l.seen)
        top == h + popped(h, l.buffer)
    IN CASE h = 0 /\ cur = 0 -> [l EXCEPT !.seen = @ \cup {0}]
         [] h <= cur /\ cur > 0 -> l
         [] h = cur + 1 ->
               [l EXCEPT !.seen = @ \cup (h..top), !.buffer = @ \ (h..top),
                         !.skipped = @ \/ (h = 1 /\ 0 \notin l.seen)]
         [] h > cur + 1 -> [l EXCEPT !.buffer = @ \cup {h}]

\* start_client: at the start the listener asks for the block after the height on disk (for
\* block 0 at height 0), after a break for the one after its height.
asks == IF ~listener.started /\ current_height(listener.seen) = 0 THEN 0
        ELSE current_height(listener.seen) + 1

start_client ==
    /\ ~conn["listener"].up
    /\ conn' = [conn EXCEPT !["listener"] = Asked(asks)]
    /\ listener' = [listener EXCEPT !.started = TRUE,
                                   !.skipped = @ \/ (asks > 0 /\ 0 \notin listener.seen)]
    /\ UNCHANGED <<daVars, catchVars, mempool, nsVars, faults>>

processing_next_frame ==
    /\ conn["listener"].wire # <<>>
    /\ listener' = process_block(listener, Head(conn["listener"].wire))
    /\ conn' = [conn EXCEPT !["listener"].wire = Tail(@)]
    /\ UNCHANGED <<daVars, catchVars, mempool, nsVars, faults>>

-----------------------------------------------------------------------------
(* Faults.                                                                    *)

\* A connection breaks; what was on it is lost.  The block_catcher ends without a word.
Disconnect(c) ==
    /\ faults < MaxFaults /\ conn[c].up
    /\ faults' = faults + 1
    /\ conn' = [conn EXCEPT ![c] = Closed]
    /\ IF c = "joiner" THEN task' = "ended" /\ Keeps(conn[c].wire) ELSE UNCHANGED <<task, chan>>
    /\ UNCHANGED <<daVars, need, until, genesis, mempool, nsVars, listener>>

\* The listener's process stops and starts again: cleanly, with its node state saved, or
\* because a ping on a broken connection failed, which skips the saving.
RestartListener(clean) ==
    /\ faults < MaxFaults /\ conn["listener"].up
    /\ faults' = faults + 1
    /\ conn' = [conn EXCEPT !["listener"] = Closed]
    /\ LET saved == IF clean THEN listener.seen ELSE listener.saved
       IN listener' = [seen |-> saved, saved |-> saved, buffer |-> {}, started |-> FALSE,
                       skipped |-> FALSE]
    /\ UNCHANGED <<daVars, catchVars, mempool, nsVars>>

\* The joiner stops and starts again.  Blocks are on disk; the NodeState only if the stop was
\* clean, as far as it had come: events still queued, from height h on, are lost.  A crash
\* between the two inserts of Blocks::put leaves the last block out of the index.
came(clean, h) == ns.saved \cup {g \in ns.seen : clean /\ g < h}

Restart(clean, torn, h) ==
    /\ faults < MaxFaults /\ genesis = "done"
    /\ torn => ~clean /\ Cardinality(stored["joiner"]) > 1
    /\ faults' = faults + 1
    /\ indexed' = IF torn THEN [indexed EXCEPT !["joiner"] = @ \ {last("joiner")}] ELSE indexed
    /\ buffered' = {} /\ need' = FALSE /\ task' = "none" /\ until' = None /\ chan' = <<>>
    /\ genesis' = "no"
    /\ mempool' = IF clean THEN [mempool EXCEPT !.from = None, !.early = FALSE] ELSE Fresh
    /\ ns' = [seen |-> came(clean, h), saved |-> came(clean, h), failed |-> FALSE]
    /\ lagged' = (came(clean, h) # stored["joiner"])
    /\ unsent' = {}
    /\ conn' = [c \in Clients |-> Closed]
    /\ UNCHANGED <<stored, listener>>

-----------------------------------------------------------------------------

ServeListener == start_streaming_to_peer("listener") \/ StreamBlock("listener")

Next ==
    \/ PeerBlock
    \/ \E h \in Heights : BuiltSignedBlock(h) \/ StartedBuildingBlocks(h)
    \/ GenesisEvent
    \/ ask_for_catchup_blocks
    \/ \E c \in Clients : start_streaming_to_peer(c) \/ StreamBlock(c)
    \/ CatchupBlock
    \/ start_client
    \/ processing_next_frame
    \/ \E c \in Clients : Disconnect(c)
    \/ \E clean \in BOOLEAN : RestartListener(clean)
    \/ \E clean, torn \in BOOLEAN, h \in 0..None : Restart(clean, torn, h)

\* The select! loops of the server and of the listener go on while they have something to do.
\* Nothing makes a peer appear, so catching up is not fair.
Fairness ==
    /\ WF_vars(ServeListener)
    /\ WF_vars(start_client)
    /\ WF_vars(processing_next_frame)

Spec == Init /\ [][Next]_vars /\ Fairness

-----------------------------------------------------------------------------

Connection == [up : BOOLEAN, ask : Heights \cup {None}, todo : Seq(Heights), wire : Seq(Heights)]
NodeStates == [seen : SUBSET Heights, saved : SUBSET Heights, failed : BOOLEAN]
Listeners == [seen : SUBSET Heights, saved : SUBSET Heights, buffer : SUBSET Heights,
              started : BOOLEAN, skipped : BOOLEAN]

\* The shape of the state.
TypeOK ==
    /\ stored \in [Nodes -> SUBSET Heights] /\ indexed \in [Nodes -> SUBSET Heights]
    /\ buffered \subseteq Heights
    /\ need \in BOOLEAN /\ task \in {"none", "running", "ended", "aborted"}
    /\ until \in Heights \cup {None} /\ chan \in Seq(Heights)
    /\ genesis \in {"block", "no", "done"}
    /\ mempool \in [from : Heights \cup {None}, told : BOOLEAN, built : SUBSET Heights,
                     early : BOOLEAN]
    /\ ns \in NodeStates /\ lagged \in BOOLEAN /\ unsent \subseteq Heights
    /\ conn \in [Clients -> Connection]
    /\ listener \in Listeners
    /\ faults \in 0..MaxFaults

\* Whatever the order in which the stream, the mempool and the genesis event bring blocks, the
\* store has no hole and the buffer holds only blocks that really wait for their parent
\* (handle_signed_block, pop_buffer): a block is never left behind once its parent is in.
StoreIsAChain ==
    /\ stored["joiner"] = {} \/ stored["joiner"] = 0..Highest(stored["joiner"])
    /\ \A h \in buffered : h \notin stored["joiner"] /\ ~follows(stored["joiner"], h)

\* A block other than the genesis block was kept from NodeState and a later one was not.
Gap == \E h \in unsent, g \in stored["joiner"] \ unsent : 0 < h /\ h < g

\* Unless it was loaded without some of the stored blocks, NodeState refuses a block and stops
\* the node ("this will likely kill the node every time", node_state/module.rs) exactly when a
\* full bus has kept an earlier one from it, and until then it is made of exactly the stored
\* blocks that the bus took: no order of arrival has it miss one, get one twice or too early
\* (add_processed_block, pop_buffer).
NodeStateFollows ==
    ~lagged =>
        /\ ns.failed <=> Gap
        /\ ~ns.failed => ns.seen = stored["joiner"] \ unsent

\* Once catching up is over, every block below the first one the mempool builds is stored: the
\* blocks the mempool builds from then on can all be processed (start, handle_mempool_event).
CatchupReachesMempool ==
    genesis = "done" /\ ~need /\ mempool.from # None => 0..(mempool.from - 1) \subseteq stored["joiner"]

\* A listener comes to handle every block of the node it reads from, whatever breaks and
\* restarts on the way and in whatever order broadcast and streamed blocks reach it, unless the
\* node is stopping or its index has lost a height.  Block 0, which the listener means to
\* process too ("we do want to process block 0", da_listener.rs), is excepted where it is passed
\* over: a broadcast block 1 came first, or the connection broke at height 0, after which the
\* listener asks from block 1 on.
ListenerCatchesUp ==
    \A h \in Heights :
        (h \in stored["joiner"] /\ indexed["joiner"] = stored["joiner"])
            ~> \/ h \in listener.seen
               \/ h = 0 /\ listener.skipped
               \/ ns.failed \/ indexed["joiner"] # stored["joiner"]
====
