------------------------------------ MODULE P2P ------------------------------------
(***************************************************************************)
(* The p2p servers of two nodes on one canal (hyle-net/src/tcp and         *)
(* src/p2p.rs): they dial each other, shake hands, keep one connection of  *)
(* the ones they made, dial again when it breaks, and send over it what    *)
(* the node's modules hand over.                                           *)
(*                                                                         *)
(* Canals share nothing: each has its own sockets, dials and jobs.  The    *)
(* end a node dialled is registered under the peer's address and the canal *)
(* (Dial), so the next dial takes the same name; the end it accepted is    *)
(* registered under an address of its own (the connection).  Each end has  *)
(* a task that reads, a task that writes and its entry in `sockets`.       *)
(***************************************************************************)
EXTENDS Naturals, Sequences, FiniteSets

CONSTANTS Nodes,         \* two nodes: their public keys, which are ordered
          Configured,    \* nodes that have the other in their configuration
          Senders,       \* nodes whose modules send messages
          MaxConns,      \* bound: connections ever made
          MaxTasks,      \* bound: dials of a node at work
          MaxSends,      \* bound: messages handed over by a node
          MaxFaults      \* bound: cuts, stalls, failed dials, restarts, commands

ASSUME TwoNodes == Nodes \subseteq Nat /\ IsFiniteSet(Nodes) /\ Cardinality(Nodes) = 2

VARIABLES
    conns,       \* the connections: who dialled, the Hello's timestamp, both ends, what flows,
                 \* and the last message each node was given from it
    pool,        \* pool[n]: the events of n's sockets (pool_receiver)
    peer,        \* peer[n]: the PeerSocket n keeps for the other node
    connecting,  \* connecting[n]: HandshakeOngoing
    tasks,       \* tasks[n]: number of handshake_clients_tasks
    jobs,        \* jobs[n]: canal_jobs
    calls,       \* calls[n]: messages handed over so far
    clock,       \* milliseconds
    faults

vars == <<conns, pool, peer, connecting, tasks, jobs, calls, clock, faults>>

Other(n) == CHOOSE m \in Nodes : m # n
Dial == 0                             \* the name of the end a node has dialled
Unknown == [ts |-> 0, name |-> Dial]  \* no entry for the peer
Known(n) == peer[n] # Unknown

Name(c, n) == IF conns[c].from = n THEN Dial ELSE c
\* The bound: a behaviour has MaxConns connections, or one less and messages.
Quiet == \A n \in Nodes : calls[n] = 0
Room == Len(conns) < IF Quiet THEN MaxConns ELSE MaxConns - 1

Closed(e) == ~e.rcv /\ ~e.snd

\* The connections registered under a name: at most one.
Registered(cs, n, name) ==
    {c \in DOMAIN cs : cs[c].end[n].reg /\ (IF cs[c].from = n THEN Dial ELSE c) = name}
Writable(cs, n, name) == {c \in Registered(cs, n, name) : cs[c].end[n].snd}

\* A message written by n reaches the other end while that one reads.
Put(cs, n, S, m) ==
    [c \in DOMAIN cs |->
        IF c \in S /\ cs[c].end[Other(n)].rcv /\ ~cs[c].cut
        THEN [cs[c] EXCEPT !.q[Other(n)] = Append(@, m)] ELSE cs[c]]

\* drop_peer_stream: both tasks are aborted; of what was not written only the first k are sent.
DropWith(cs, n, name, k) ==
    [c \in DOMAIN cs |->
        IF c \notin Registered(cs, n, name) THEN cs[c]
        ELSE [cs[c] EXCEPT !.end[n] = [reg |-> FALSE, rcv |-> FALSE, snd |-> FALSE],
                           !.q[n] = <<>>,
                           !.q[Other(n)] = SubSeq(@, 1, k)]]

Unsent(cs, n, name) ==
    LET S == Registered(cs, n, name)
    IN IF S = {} THEN {0} ELSE 0..Len(cs[CHOOSE c \in S : TRUE].q[Other(n)])

drop_peer_stream(cs, n, name) == {DropWith(cs, n, name, k) : k \in Unsent(cs, n, name)}

Init ==
    /\ conns = <<>>
    /\ pool = [n \in Nodes |-> <<>>]
    /\ peer = [n \in Nodes |-> Unknown]
    /\ connecting = [n \in Nodes |-> IF n \in Configured THEN "tcp" ELSE "no"]
    /\ tasks = [n \in Nodes |-> IF n \in Configured THEN 1 ELSE 0]
    /\ jobs = [n \in Nodes |-> <<>>]
    /\ calls = [n \in Nodes |-> 0]
    /\ clock = 1 /\ faults = 0

-----------------------------------------------------------------------------
(* Dialling.                                                                  *)

\* start_connection_task: one more task; the one noted in connecting is forgotten, not stopped.
start_connection_task(n, t) ==
    /\ t < MaxTasks
    /\ tasks' = [tasks EXCEPT ![n] = t + 1]
    /\ connecting' = [connecting EXCEPT ![n] = "tcp"]

\* try_start_connection, on the connections cs and t tasks: nothing when an attempt is younger
\* than three seconds; an older one is aborted (its task may have ended) or its stream dropped.
try_start_connection(n, cs, t) ==
    \/ /\ connecting[n] = "no"
       /\ start_connection_task(n, t) /\ conns' = cs
    \/ /\ connecting[n] = "tcp" /\ t > 0
       /\ \/ tasks' = [tasks EXCEPT ![n] = t] /\ UNCHANGED connecting
          \/ start_connection_task(n, t - 1)
          \/ start_connection_task(n, t)
       /\ conns' = cs
    \/ /\ connecting[n] = "tcp" /\ t = 0
       /\ start_connection_task(n, t) /\ conns' = cs
    \/ /\ connecting[n] = "hs"
       /\ \/ tasks' = [tasks EXCEPT ![n] = t] /\ UNCHANGED connecting /\ conns' = cs
          \/ start_connection_task(n, t) /\ conns' \in drop_peer_stream(cs, n, Dial)

\* A dial succeeds and do_handshake runs: the new stream takes the name Dial, and if a stream
\* still had it its writer ends but its reader goes on.
do_handshake(n, ts) ==
    LET old == Registered(conns, n, Dial)
        open == [reg |-> TRUE, rcv |-> TRUE, snd |-> TRUE]
        kept == [c \in DOMAIN conns |->
                   IF c \in old THEN [conns[c] EXCEPT !.end[n].reg = FALSE, !.end[n].snd = FALSE]
                   ELSE conns[c]]
        new == [from |-> n, ts |-> ts, cut |-> FALSE, last |-> [m \in Nodes |-> 0],
                end |-> [m \in Nodes |-> open], q |-> [m \in Nodes |-> <<>>]]
    IN /\ tasks[n] > 0 /\ Room
       /\ ts \in {clock, clock + 1}
       /\ clock' = ts
       /\ conns' = Put(Append(kept, new), n, {Len(conns) + 1}, [kind |-> "hello"])
       /\ tasks' = [tasks EXCEPT ![n] = @ - 1]
       /\ connecting' = [connecting EXCEPT ![n] = "hs"]
       /\ UNCHANGED <<pool, peer, jobs, calls, faults>>

\* A dial gives up after ten seconds and is tried again.
DialFails(n) ==
    /\ tasks[n] > 0 /\ faults < MaxFaults
    /\ faults' = faults + 1
    /\ try_start_connection(n, conns, tasks[n] - 1)
    /\ UNCHANGED <<pool, peer, jobs, calls, clock>>

\* P2PCommand::ConnectTo, which the consensus sends at any time.
ConnectTo(n) ==
    /\ faults < MaxFaults /\ faults' = faults + 1
    /\ try_start_connection(n, conns, tasks[n])
    /\ UNCHANGED <<pool, peer, jobs, calls, clock>>

-----------------------------------------------------------------------------
(* The sockets' events.                                                       *)

\* The reader of n's end of c: a message or, at the end of the stream, Closed.
Receive(n, c) ==
    LET e == conns[c]
    IN /\ e.end[n].rcv
       /\ \/ /\ e.q[n] # <<>>
             /\ pool' = [pool EXCEPT ![n] = Append(@, [c |-> c, m |-> Head(e.q[n])])]
             /\ conns' = [conns EXCEPT ![c].q[n] = Tail(@)]
          \/ /\ e.q[n] = <<>>
             /\ e.cut \/ Closed(e.end[Other(n)])
             /\ pool' = [pool EXCEPT ![n] = Append(@, [c |-> c, m |-> [kind |-> "closed"]])]
             /\ conns' = [conns EXCEPT ![c].end[n].rcv = FALSE]
    /\ UNCHANGED <<peer, connecting, tasks, jobs, calls, clock, faults>>

\* Mutant of handle_peer_update: the connection that loses is left open.
handle_peer_update_lenient(n, cs, ts, name) ==
    LET switch == \/ peer[n].ts < ts
                  \/ peer[n].ts = ts /\ n < Other(n)
    IN /\ connecting' = [connecting EXCEPT ![n] = "no"]
       /\ peer' = IF Known(n) /\ ~switch THEN peer
                  ELSE [peer EXCEPT ![n] = [ts |-> ts, name |-> name]]
       /\ conns' = cs
       /\ UNCHANGED tasks

\* handle_peer_update for a handshake on the end called name: the younger of two connections is
\* kept, of two of one age the node with the smaller key takes the new one and the other the
\* old one; the loser is dropped, by its name.
handle_peer_update(n, cs, ts, name) ==
    LET switch == \/ peer[n].ts < ts
                  \/ peer[n].ts = ts /\ n < Other(n)
        loser == IF switch THEN peer[n].name ELSE name
    IN /\ connecting' = [connecting EXCEPT ![n] = "no"]
       /\ peer' = IF Known(n) /\ ~switch THEN peer
                  ELSE [peer EXCEPT ![n] = [ts |-> ts, name |-> name]]
       /\ IF Known(n) THEN conns' \in drop_peer_stream(cs, n, loser) ELSE conns' = cs
       /\ UNCHANGED tasks

\* handle_handshake: a Hello is answered, and forgotten when it cannot be.
handle_handshake(n, c, m) ==
    LET name == Name(c, n)
        line == Writable(conns, n, name)
    IN IF m.kind = "hello" /\ line = {}
       THEN UNCHANGED <<conns, peer, connecting, tasks>>
       ELSE handle_peer_update(n, IF m.kind = "hello"
                                  THEN Put(conns, n, line, [kind |-> "verack"]) ELSE conns,
                               conns[c].ts, name)

\* handle_closed_event (and handle_error_event): the stream of that name is dropped; a peer's is
\* dialled again.
handle_closed_event(n, name) ==
    /\ conns' \in drop_peer_stream(conns, n, name)
    /\ IF Known(n) /\ peer[n].name = name
       THEN start_connection_task(n, tasks[n]) ELSE UNCHANGED <<tasks, connecting>>
    /\ UNCHANGED peer

\* handle_p2p_tcp_event: a message of any socket is passed on.
handle_p2p_tcp_event(n) ==
    LET c == Head(pool[n]).c
        m == Head(pool[n]).m
    IN /\ pool[n] # <<>>
       /\ pool' = [pool EXCEPT ![n] = Tail(@)]
       /\ \/ m.kind \in {"hello", "verack"} /\ handle_handshake(n, c, m)
          \/ m.kind = "closed" /\ handle_closed_event(n, Name(c, n))
          \/ /\ m.kind = "data"
             /\ conns' = [conns EXCEPT ![c].last[n] = m.k]
             /\ UNCHANGED <<peer, connecting, tasks>>
       /\ UNCHANGED <<jobs, calls, clock, faults>>

\* PingPeers: a peer whose stream is gone or no longer written is dialled again.
PingPeers(n) ==
    /\ Known(n) /\ Writable(conns, n, peer[n].name) = {}
    /\ try_start_connection(n, conns, tasks[n])
    /\ UNCHANGED <<pool, peer, jobs, calls, clock, faults>>

-----------------------------------------------------------------------------
(* Sending.                                                                   *)

Data(k) == [kind |-> "data", k |-> k]

\* send to the peer, and handle_failed_send, which dials again whatever is going on.  The attempt
\* that send makes itself before it reports the failure is what PingPeers does at any moment.
send_now(n, k) ==
    LET line == Writable(conns, n, peer[n].name)
    IN IF ~Known(n) THEN UNCHANGED <<conns, connecting, tasks>>
       ELSE IF line # {}
       THEN conns' = Put(conns, n, line, Data(k)) /\ UNCHANGED <<connecting, tasks>>
       ELSE UNCHANGED conns /\ start_connection_task(n, tasks[n])

\* Mutant of send: it overtakes the messages that are still being encoded.
send_overtaking(n) ==
    /\ calls[n] < MaxSends /\ n \in Senders /\ Len(conns) < MaxConns
    /\ calls' = [calls EXCEPT ![n] = @ + 1]
    /\ send_now(n, calls[n] + 1) /\ UNCHANGED jobs
    /\ UNCHANGED <<pool, peer, clock, faults>>

\* SendMessage: behind the canal's jobs if there are any.
send(n) ==
    /\ calls[n] < MaxSends /\ n \in Senders /\ Len(conns) < MaxConns
    /\ calls' = [calls EXCEPT ![n] = @ + 1]
    /\ IF jobs[n] # <<>>
       THEN /\ jobs' = [jobs EXCEPT ![n] = Append(@, [k |-> calls[n] + 1, to |-> TRUE])]
            /\ UNCHANGED <<conns, connecting, tasks>>
       ELSE send_now(n, calls[n] + 1) /\ UNCHANGED jobs
    /\ UNCHANGED <<pool, peer, clock, faults>>

\* BroadcastMessage goes to the peers known now, BroadcastMessageOnlyFor to the ones named.
broadcast(n, to) ==
    /\ calls[n] < MaxSends /\ n \in Senders /\ Len(conns) < MaxConns
    /\ to \/ ~Known(n)
    /\ calls' = [calls EXCEPT ![n] = @ + 1]
    /\ jobs' = [jobs EXCEPT ![n] = Append(@, [k |-> calls[n] + 1, to |-> to])]
    /\ UNCHANGED <<conns, pool, peer, connecting, tasks, clock, faults>>

\* The oldest job is ready: actually_send_to the socket the peer has now.
actually_send_to(n) ==
    LET job == Head(jobs[n])
        line == Writable(conns, n, peer[n].name)
    IN /\ jobs[n] # <<>>
       /\ jobs' = [jobs EXCEPT ![n] = Tail(@)]
       /\ IF ~job.to \/ ~Known(n) THEN UNCHANGED <<conns, connecting, tasks>>
          ELSE IF line # {}
          THEN conns' = Put(conns, n, line, Data(job.k)) /\ UNCHANGED <<connecting, tasks>>
          ELSE try_start_connection(n, conns, tasks[n])
       /\ UNCHANGED <<pool, peer, calls, clock, faults>>

-----------------------------------------------------------------------------
(* Faults.                                                                    *)

Fault == faults < MaxFaults /\ faults' = faults + 1

\* The network breaks a connection; messages on their way may be lost.
Cut(c) ==
    /\ Fault /\ ~conns[c].cut /\ \E n \in Nodes : conns[c].end[n].rcv
    /\ \E q \in {conns[c].q, [n \in Nodes |-> <<>>]} :
         conns' = [conns EXCEPT ![c].cut = TRUE, ![c].q = q]
    /\ UNCHANGED <<pool, peer, connecting, tasks, jobs, calls, clock>>

\* Writing a message or a ping takes more than ten seconds: the writer ends, nothing else notices.
Stall(n, c) ==
    /\ Fault /\ conns[c].end[n].snd
    /\ conns[c].q[Other(n)] # <<>> \/ (Known(n) /\ peer[n].name = Name(c, n))
    /\ conns' = [conns EXCEPT ![c].end[n].snd = FALSE, ![c].q[Other(n)] = <<>>]
    /\ UNCHANGED <<pool, peer, connecting, tasks, jobs, calls, clock>>

\* The node stops and starts again: P2PServer::new and the dials of the configuration.
Restart(n) ==
    /\ Fault
    /\ conns' = [c \in DOMAIN conns |->
                   [conns[c] EXCEPT !.end[n] = [reg |-> FALSE, rcv |-> FALSE, snd |-> FALSE],
                                    !.q = [m \in Nodes |-> <<>>]]]
    /\ pool' = [pool EXCEPT ![n] = <<>>]
    /\ peer' = [peer EXCEPT ![n] = Unknown]
    /\ connecting' = [connecting EXCEPT ![n] = IF n \in Configured THEN "tcp" ELSE "no"]
    /\ tasks' = [tasks EXCEPT ![n] = IF n \in Configured THEN 1 ELSE 0]
    /\ jobs' = [jobs EXCEPT ![n] = <<>>]
    /\ UNCHANGED <<calls, clock>>

Next ==
    \/ \E n \in Nodes :
         \/ \E ts \in {clock, clock + 1} : do_handshake(n, ts)
         \/ DialFails(n)
         \/ ConnectTo(n)
         \/ \E c \in DOMAIN conns : Receive(n, c)
         \/ handle_p2p_tcp_event(n)
         \/ PingPeers(n)
         \/ send(n)
         \/ \E to \in BOOLEAN : broadcast(n, to)
         \/ actually_send_to(n)
         \/ \E c \in DOMAIN conns : Stall(n, c)
         \/ Restart(n)
    \/ \E c \in DOMAIN conns : Cut(c)

Spec == Init /\ [][Next]_vars

-----------------------------------------------------------------------------
(* Properties.                                                                *)

\* Nothing is left to do: no dial, no event, no message on its way, no stream to find closed, no
\* peer the next ping would dial.
Settled ==
    /\ \A n \in Nodes : /\ tasks[n] = 0 /\ pool[n] = <<>> /\ jobs[n] = <<>>
                        /\ Known(n) => Writable(conns, n, peer[n].name) # {}
    /\ \A c \in DOMAIN conns, n \in Nodes :
         conns[c].end[n].rcv =>
            conns[c].q[n] = <<>> /\ ~conns[c].cut /\ ~Closed(conns[c].end[Other(n)])

\* The reader of a stream that lost its name to a later dial: nothing drops it any more.
Orphans == \E c \in DOMAIN conns, n \in Nodes : conns[c].end[n].rcv /\ ~conns[c].end[n].reg

\* n knows the other node, and what it writes is read there.
Reaches(n) ==
    /\ Known(n)
    /\ \E c \in Writable(conns, n, peer[n].name) :
         conns[c].end[Other(n)].rcv /\ ~conns[c].cut

\* However the two nodes dialled each other, at once or again and again, when everything has
\* settled and one of them knows the other, each reaches the other.  Both keep the two ends of
\* the same connection, unless the reader of an earlier one was left on: then each may write on a
\* connection of its own.
PeersAgree ==
    Settled /\ (\E n \in Nodes : Known(n)) =>
        /\ \A n \in Nodes : Reaches(n)
        /\ \/ Orphans
           \/ \E c \in DOMAIN conns :
                \A n \in Nodes : /\ peer[n].name = Name(c, n)
                                 /\ conns[c].end[n] = [reg |-> TRUE, rcv |-> TRUE, snd |-> TRUE]

\* What one connection delivers to a node, it delivers in the order the other node's modules handed
\* it over, whether it was sent to the peer or broadcast through the encoding jobs.
InOrder ==
    [][\A c \in DOMAIN conns, n \in Nodes : conns'[c].last[n] >= conns[c].last[n]]_vars
=============================================================================
