------------------------------ MODULE P2PProofs ------------------------------
(***************************************************************************)
(* Proofs about the connections of two nodes, for any number of dials,     *)
(* connections, messages and faults: what a connection delivers comes in   *)
(* the order in which the modules handed it over, and when everything has  *)
(* settled the two nodes reach each other.                                 *)
(***************************************************************************)
EXTENDS P2P, TLAPS, FiniteSetTheorems, SequenceTheorems

-----------------------------------------------------------------------------
(* The state, and what is in order about it.                               *)

Msg == [kind : {"hello", "verack", "closed"}] \cup [kind : {"data"}, k : Nat]
End == [reg : BOOLEAN, rcv : BOOLEAN, snd : BOOLEAN]
Conn == [from : Nodes, ts : Nat, cut : BOOLEAN, last : [Nodes -> Nat],
         end : [Nodes -> End], q : [Nodes -> Seq(Msg)]]
Event == [c : Nat, m : Msg]
Job == [k : Nat, to : BOOLEAN]

\* A node has one stream registered under the name of its dials.
OneDial(cs) ==
    \A c, d \in DOMAIN cs, n \in Nodes :
      cs[c].from = n /\ cs[d].from = n /\ cs[c].end[n].reg /\ cs[d].end[n].reg => c = d

Sound(cs) == cs \in Seq(Conn) /\ OneDial(cs)

Typed ==
    /\ Sound(conns)
    /\ pool \in [Nodes -> Seq(Event)]
    /\ \A n \in Nodes : \A i \in DOMAIN pool[n] : pool[n][i].c \in DOMAIN conns
    /\ jobs \in [Nodes -> Seq(Job)] /\ calls \in [Nodes -> Nat] /\ clock \in Nat

IsData(m) == m.kind = "data"

\* The number k is not above any that is still to be sent, nor above the last call.
Below(k, js, cl) == k <= cl /\ \A i \in DOMAIN js : k <= js[i].k

\* The numbers in the canal's jobs do not go down.
JobsInLine(js, cl) ==
    /\ \A i \in DOMAIN js : js[i].k <= cl
    /\ \A i, j \in DOMAIN js : i < j => js[i].k <= js[j].k

PoolInLine(pl) ==
    \A i, j \in DOMAIN pl :
      i < j /\ pl[i].c = pl[j].c /\ IsData(pl[i].m) /\ IsData(pl[j].m) => pl[i].m.k <= pl[j].m.k

\* On its way to a node on connection c, with l the number delivered last, q the messages in
\* the connection and pl the events of the node's sockets.
InLine(c, l, q, pl, js, cl) ==
    /\ Below(l, js, cl)
    /\ \A j \in DOMAIN q : IsData(q[j]) =>
         /\ l <= q[j].k /\ Below(q[j].k, js, cl)
         /\ \A i \in DOMAIN q : i < j /\ IsData(q[i]) => q[i].k <= q[j].k
         /\ \A i \in DOMAIN pl : pl[i].c = c /\ IsData(pl[i].m) => pl[i].m.k <= q[j].k
    /\ \A i \in DOMAIN pl : pl[i].c = c /\ IsData(pl[i].m) =>
         l <= pl[i].m.k /\ Below(pl[i].m.k, js, cl)

Lined(n) ==
    /\ JobsInLine(jobs[Other(n)], calls[Other(n)])
    /\ PoolInLine(pool[n])
    /\ \A c \in DOMAIN conns :
         InLine(c, conns[c].last[n], conns[c].q[n], pool[n], jobs[Other(n)], calls[Other(n)])

IInv == Typed /\ \A n \in Nodes : Lined(n)

-----------------------------------------------------------------------------
(* Two nodes.                                                              *)

LEMMA OtherOK ==
    ASSUME NEW n \in Nodes
    PROVE  /\ Other(n) \in Nodes /\ Other(n) # n
           /\ Other(Other(n)) = n
           /\ \A m \in Nodes : m # n => m = Other(n)
<1>1. Cardinality(Nodes \ {n}) = 1 /\ IsFiniteSet(Nodes \ {n})
  BY TwoNodes, FS_RemoveElement
<1>2. PICK m : Nodes \ {n} = {m}
  BY <1>1, FS_Singleton
<1>3. m \in Nodes /\ m # n /\ Nodes = {n, m}
  BY <1>2
<1>4. Other(n) = m /\ Other(m) = n
  BY <1>3 DEF Other
<1> QED
  BY <1>3, <1>4

-----------------------------------------------------------------------------
(* The sequences: what may happen to them without disturbing the order.     *)

\* Every data message of r stands where it stood in q.
Same(r, q) == \A i \in DOMAIN r : IsData(r[i]) => i \in DOMAIN q /\ r[i] = q[i]

\* The data in r are in q, d places further on.
PartOf(r, q, d) == \A i \in DOMAIN r : IsData(r[i].m) => i + d \in DOMAIN q /\ r[i] = q[i + d]
PartOfJobs(r, q, d) == \A i \in DOMAIN r : i + d \in DOMAIN q /\ r[i] = q[i + d]

LEMMA TailPart ==
    ASSUME NEW S, NEW q \in Seq(S), q # <<>>
    PROVE  /\ Tail(q) \in Seq(S) /\ Head(q) \in S /\ Head(q) = q[1] /\ 1 \in DOMAIN q
           /\ \A i \in DOMAIN Tail(q) : i \in Nat /\ i + 1 \in DOMAIN q /\ Tail(q)[i] = q[i + 1]
<1>1. Tail(q) \in Seq(S) /\ Head(q) \in S /\ Head(q) = q[1] /\ Len(q) \in Nat /\ Len(q) # 0
  OBVIOUS
<1>2. Len(Tail(q)) = Len(q) - 1 /\ \A i \in 1..Len(Tail(q)) : Tail(q)[i] = q[i + 1]
  OBVIOUS
<1>3. DOMAIN q = 1..Len(q) /\ DOMAIN Tail(q) = 1..Len(Tail(q))
  BY <1>1
<1> QED
  BY <1>1, <1>2, <1>3

LEMMA AppendPart ==
    ASSUME NEW S, NEW q \in Seq(S), NEW x \in S
    PROVE  /\ Append(q, x) \in Seq(S) /\ Len(q) \in Nat /\ DOMAIN q = 1..Len(q)
           /\ DOMAIN Append(q, x) = 1..(Len(q) + 1)
           /\ \A i \in DOMAIN q : Append(q, x)[i] = q[i]
           /\ Append(q, x)[Len(q) + 1] = x
OBVIOUS

LEMMA EmptyPart ==
    ASSUME NEW S
    PROVE  <<>> \in Seq(S) /\ DOMAIN <<>> = {}
OBVIOUS

LEMMA PrefixPart ==
    ASSUME NEW S, NEW q \in Seq(S), NEW k \in 0..Len(q)
    PROVE  SubSeq(q, 1, k) \in Seq(S)
           /\ \A i \in DOMAIN SubSeq(q, 1, k) : i \in DOMAIN q /\ SubSeq(q, 1, k)[i] = q[i]
<1>1. \A i \in 1..k : i \in 1..Len(q) /\ q[i] \in S
  OBVIOUS
<1>2. SubSeq(q, 1, k) = [i \in 1..k |-> q[i]]
  OBVIOUS
<1>3. k \in Nat
  OBVIOUS
<1>4. [i \in 1..k |-> q[i]] \in Seq(S)
  BY <1>1, <1>3
<1> QED
  BY <1>1, <1>2, <1>4

-----------------------------------------------------------------------------
(* What keeps a line in order.                                             *)

\* Nothing is added but messages that are not data; from every sequence some may go.
LEMMA QuietLine ==
    ASSUME NEW c, NEW l \in Nat, NEW q \in Seq(Msg), NEW pl \in Seq(Event), NEW js \in Seq(Job),
           NEW cl \in Nat, InLine(c, l, q, pl, js, cl),
           NEW r \in Seq(Msg), Same(r, q),
           NEW pm \in Seq(Event), NEW d \in {0, 1}, PartOf(pm, pl, d),
           NEW jt \in Seq(Job), NEW e \in {0, 1}, PartOfJobs(jt, js, e)
    PROVE  InLine(c, l, r, pm, jt, cl)
<1>1. \A x : Below(x, js, cl) => Below(x, jt, cl)
  BY DEF Below, PartOfJobs
<1>2. Below(l, jt, cl)
  BY <1>1 DEF InLine
<1>3. ASSUME NEW j \in DOMAIN r, IsData(r[j])
      PROVE  /\ l <= r[j].k /\ Below(r[j].k, jt, cl)
             /\ \A i \in DOMAIN r : i < j /\ IsData(r[i]) => r[i].k <= r[j].k
             /\ \A i \in DOMAIN pm : pm[i].c = c /\ IsData(pm[i].m) => pm[i].m.k <= r[j].k
  BY <1>1, <1>3 DEF InLine, Same, PartOf
<1>4. ASSUME NEW i \in DOMAIN pm, pm[i].c = c, IsData(pm[i].m)
      PROVE  l <= pm[i].m.k /\ Below(pm[i].m.k, jt, cl)
  BY <1>1, <1>4 DEF InLine, PartOf
<1> QED
  BY <1>2, <1>3, <1>4 DEF InLine

LEMMA QuietPool ==
    ASSUME NEW pl \in Seq(Event), PoolInLine(pl), NEW pm \in Seq(Event), NEW d \in {0, 1}, PartOf(pm, pl, d)
    PROVE  PoolInLine(pm)
<1>1. ASSUME NEW i \in DOMAIN pm, NEW j \in DOMAIN pm, i < j, pm[i].c = pm[j].c,
             IsData(pm[i].m), IsData(pm[j].m)
      PROVE  pm[i].m.k <= pm[j].m.k
  <2>1. i \in Nat /\ j \in Nat /\ i + d < j + d
    BY <1>1
  <2>2. /\ i + d \in DOMAIN pl /\ j + d \in DOMAIN pl /\ pm[i] = pl[i + d] /\ pm[j] = pl[j + d]
    BY <1>1 DEF PartOf
  <2> QED
    BY <1>1, <2>1, <2>2 DEF PoolInLine
<1> QED
  BY <1>1 DEF PoolInLine

LEMMA QuietJobs ==
    ASSUME NEW js \in Seq(Job), NEW cl \in Nat, JobsInLine(js, cl),
           NEW jt \in Seq(Job), NEW e \in {0, 1}, PartOfJobs(jt, js, e)
    PROVE  JobsInLine(jt, cl)
<1>1. \A i \in DOMAIN jt : jt[i].k <= cl
  BY DEF JobsInLine, PartOfJobs
<1>2. ASSUME NEW i \in DOMAIN jt, NEW j \in DOMAIN jt, i < j PROVE jt[i].k <= jt[j].k
  <2>1. i \in Nat /\ j \in Nat /\ i + e < j + e
    BY <1>2
  <2>2. /\ i + e \in DOMAIN js /\ j + e \in DOMAIN js /\ jt[i] = js[i + e] /\ jt[j] = js[j + e]
    BY DEF PartOfJobs
  <2> QED
    BY <2>1, <2>2 DEF JobsInLine
<1> QED
  BY <1>1, <1>2 DEF JobsInLine

LEMMA EventData ==
    ASSUME NEW pl \in Seq(Event)
    PROVE  \A i \in DOMAIN pl : IsData(pl[i].m) => pl[i].m.k \in Nat
<1> SUFFICES ASSUME NEW i \in DOMAIN pl, IsData(pl[i].m) PROVE pl[i].m.k \in Nat
  OBVIOUS
<1>1. pl[i] \in Event
  OBVIOUS
<1>2. pl[i].m \in Msg
  BY <1>1 DEF Event
<1> QED
  BY <1>2 DEF Msg, IsData

\* A message handed over now, or the oldest job, goes behind all that is on its way.
LEMMA SentLine ==
    ASSUME NEW c, NEW l \in Nat, NEW q \in Seq(Msg), NEW pl \in Seq(Event), NEW js \in Seq(Job),
           NEW cl \in Nat, InLine(c, l, q, pl, js, cl),
           NEW jt \in Seq(Job), NEW cm \in Nat, NEW k \in Nat,
           \A x \in Nat : Below(x, js, cl) => x <= k,
           Below(k, jt, cm), \A x \in Nat : Below(x, js, cl) => Below(x, jt, cm)
    PROVE  InLine(c, l, Append(q, Data(k)), pl, jt, cm)
<1> DEFINE r == Append(q, Data(k))
<1>0. Data(k) \in Msg /\ Data(k).k = k /\ IsData(Data(k))
  BY DEF Data, Msg, IsData
<1>1. /\ r \in Seq(Msg) /\ Len(q) \in Nat /\ DOMAIN q = 1..Len(q) /\ DOMAIN r = 1..(Len(q) + 1)
      /\ \A i \in DOMAIN q : r[i] = q[i]
      /\ r[Len(q) + 1] = Data(k)
  BY <1>0, AppendPart
<1>2. \A i \in DOMAIN q : IsData(q[i]) => q[i].k \in Nat
  BY DEF IsData, Msg
<1>3. \A i \in DOMAIN pl : IsData(pl[i].m) => pl[i].m.k \in Nat
  BY EventData
<1> HIDE DEF r
<1>4. Below(l, jt, cm) /\ l <= k
  BY DEF InLine
<1>5. ASSUME NEW j \in DOMAIN r, IsData(r[j])
      PROVE  /\ l <= r[j].k /\ Below(r[j].k, jt, cm)
             /\ \A i \in DOMAIN r : i < j /\ IsData(r[i]) => r[i].k <= r[j].k
             /\ \A i \in DOMAIN pl : pl[i].c = c /\ IsData(pl[i].m) => pl[i].m.k <= r[j].k
  <2>1. CASE j \in DOMAIN q
    <3>1. \A i \in DOMAIN r : i < j => i \in DOMAIN q
      BY <1>1, <2>1
    <3> QED
      BY <1>1, <1>2, <1>5, <2>1, <3>1 DEF InLine
  <2>2. CASE j = Len(q) + 1
    <3>1. r[j].k = k
      BY <1>0, <1>1, <2>2
    <3>2. \A i \in DOMAIN r : i < j => i \in DOMAIN q
      BY <1>1, <2>2
    <3>3. \A i \in DOMAIN q : IsData(q[i]) => q[i].k <= k
      BY <1>2 DEF InLine
    <3>4. \A i \in DOMAIN pl : pl[i].c = c /\ IsData(pl[i].m) => pl[i].m.k <= k
      BY <1>3 DEF InLine
    <3> QED
      BY <1>1, <1>4, <3>1, <3>2, <3>3, <3>4
  <2> QED
    BY <1>1, <2>1, <2>2
<1>6. ASSUME NEW i \in DOMAIN pl, pl[i].c = c, IsData(pl[i].m)
      PROVE  l <= pl[i].m.k /\ Below(pl[i].m.k, jt, cm)
  BY <1>3, <1>6 DEF InLine
<1> QED
  BY <1>4, <1>5, <1>6 DEF InLine, r

\* Nothing is sent; the jobs and the number of calls change.
LEMMA CalledLine ==
    ASSUME NEW c, NEW l \in Nat, NEW q \in Seq(Msg), NEW pl \in Seq(Event), NEW js,
           NEW cl, InLine(c, l, q, pl, js, cl), NEW jt, NEW cm,
           \A x \in Nat : Below(x, js, cl) => Below(x, jt, cm)
    PROVE  InLine(c, l, q, pl, jt, cm)
<1>2. \A i \in DOMAIN q : IsData(q[i]) => q[i].k \in Nat
  BY DEF IsData, Msg
<1>3. \A i \in DOMAIN pl : IsData(pl[i].m) => pl[i].m.k \in Nat
  BY EventData
<1> QED
  BY <1>2, <1>3 DEF InLine

-----------------------------------------------------------------------------
(* What the code does to the connections.                                  *)

\* The connections ds follow from cs without any data being written.
Follows(cs, ds) ==
    /\ Len(ds) = Len(cs)
    /\ \A c \in DOMAIN cs, n \in Nodes :
         /\ ds[c].last[n] = cs[c].last[n]
         /\ Same(ds[c].q[n], cs[c].q[n])

LEMMA SameFacts ==
    /\ \A q : Same(q, q) /\ Same(<<>>, q)
    /\ \A p, q, r : Same(p, q) /\ Same(q, r) => Same(p, r)
BY DEF Same

LEMMA FollowsFacts ==
    ASSUME NEW a \in Seq(Conn), NEW b \in Seq(Conn), NEW d \in Seq(Conn)
    PROVE  Follows(a, a) /\ (Follows(a, b) /\ Follows(b, d) => Follows(a, d))
<1>1. Follows(a, a)
  BY SameFacts DEF Follows
<1>2. ASSUME Follows(a, b), Follows(b, d) PROVE Follows(a, d)
  <2>1. DOMAIN a = DOMAIN b
    BY <1>2 DEF Follows
  <2> QED
    BY <1>2, <2>1, SameFacts DEF Follows
<1> QED
  BY <1>1, <1>2

\* A function on the connections of cs is a sequence of connections.
LEMMA ConnsSeq ==
    ASSUME NEW cs \in Seq(Conn), NEW f, f \in [DOMAIN cs -> Conn]
    PROVE  f \in Seq(Conn) /\ Len(f) = Len(cs) /\ DOMAIN f = DOMAIN cs
<1>1. DOMAIN cs = 1..Len(cs) /\ Len(cs) \in Nat
  OBVIOUS
<1> QED
  BY <1>1

\* Changes of one connection that leave its names alone keep the dials apart.
LEMMA DialsApart ==
    ASSUME NEW cs \in Seq(Conn), OneDial(cs), NEW ds \in Seq(Conn), Len(ds) = Len(cs),
           \A c \in DOMAIN cs, n \in Nodes :
             ds[c].from = cs[c].from /\ (ds[c].end[n].reg => cs[c].end[n].reg)
    PROVE  OneDial(ds)
<1>1. DOMAIN cs = DOMAIN ds
  OBVIOUS
<1> QED
  BY <1>1 DEF OneDial

LEMMA ConnType ==
    ASSUME NEW e \in Conn
    PROVE  /\ e.from \in Nodes /\ e.last \in [Nodes -> Nat] /\ e.end \in [Nodes -> End]
           /\ e.q \in [Nodes -> Seq(Msg)]
           /\ \A q \in [Nodes -> Seq(Msg)] : [e EXCEPT !.q = q] \in Conn
           /\ \A q \in [Nodes -> Seq(Msg)], f \in [Nodes -> End] : [e EXCEPT !.q = q, !.end = f] \in Conn
           /\ \A f \in [Nodes -> End] : [e EXCEPT !.end = f] \in Conn
           /\ \A l \in [Nodes -> Nat] : [e EXCEPT !.last = l] \in Conn
BY DEF Conn

\* The connections ds follow from cs with m written to the other node.
Wrote(cs, ds, n, m) ==
    /\ Sound(ds) /\ Len(ds) = Len(cs)
    /\ \A c \in DOMAIN cs, v \in Nodes :
         /\ ds[c].last[v] = cs[c].last[v]
         /\ ds[c].q[v] = cs[c].q[v] \/ (v = Other(n) /\ ds[c].q[v] = Append(cs[c].q[v], m))

LEMMA PutType ==
    ASSUME NEW cs, Sound(cs), NEW n \in Nodes, NEW S, NEW m \in Msg
    PROVE  Wrote(cs, Put(cs, n, S, m), n, m)
<1> DEFINE ds == Put(cs, n, S, m)
           o == Other(n)
<1>0. cs \in Seq(Conn) /\ OneDial(cs) /\ o \in Nodes
  BY OtherOK DEF Sound
<1>1. ASSUME NEW c \in DOMAIN cs
      PROVE  /\ ds[c] \in Conn /\ ds[c].from = cs[c].from /\ ds[c].end = cs[c].end
             /\ ds[c].last = cs[c].last
             /\ ds[c].q = cs[c].q \/ ds[c].q = [cs[c].q EXCEPT ![o] = Append(@, m)]
  <2>1. cs[c] \in Conn
    BY <1>0
  <2>2. cs[c].q \in [Nodes -> Seq(Msg)]
    BY <2>1 DEF Conn
  <2>3. Append(cs[c].q[o], m) \in Seq(Msg)
    BY <1>0, <2>2
  <2>4. [cs[c].q EXCEPT ![o] = Append(@, m)] \in [Nodes -> Seq(Msg)]
    BY <1>0, <2>2, <2>3
  <2>5. ds[c] = cs[c] \/ ds[c] = [cs[c] EXCEPT !.q = [cs[c].q EXCEPT ![o] = Append(@, m)]]
    BY <2>1 DEF Put, Conn
  <2> HIDE DEF ds
  <2> QED
    BY <2>1, <2>4, <2>5 DEF Conn
<1>2. ds \in [DOMAIN cs -> Conn]
  BY <1>1 DEF Put
<1> HIDE DEF ds
<1>3. ds \in Seq(Conn) /\ Len(ds) = Len(cs)
  BY <1>0, <1>2, ConnsSeq
<1>4. OneDial(ds)
  BY <1>0, <1>1, <1>3, DialsApart
<1>5. ASSUME NEW c \in DOMAIN cs, NEW v \in Nodes
      PROVE  /\ ds[c].last[v] = cs[c].last[v]
             /\ \/ ds[c].q[v] = cs[c].q[v]
                \/ v = o /\ ds[c].q[v] = Append(cs[c].q[v], m)
  <2>1. cs[c] \in Conn
    BY <1>0
  <2>2. cs[c].q \in [Nodes -> Seq(Msg)]
    BY <2>1 DEF Conn
  <2>3. ds[c].last = cs[c].last
        /\ (ds[c].q = cs[c].q \/ ds[c].q = [cs[c].q EXCEPT ![o] = Append(@, m)])
    BY <1>1
  <2> HIDE DEF o
  <2>4. v = o => [cs[c].q EXCEPT ![o] = Append(@, m)][v] = Append(cs[c].q[v], m)
    BY <2>2
  <2>5. v # o => [cs[c].q EXCEPT ![o] = Append(@, m)][v] = cs[c].q[v]
    BY <2>2
  <2> QED
    BY <2>3, <2>4, <2>5
<1> QED
  BY <1>3, <1>4, <1>5 DEF Sound, Wrote, ds

LEMMA PutFollows ==
    ASSUME NEW cs, Sound(cs), NEW n \in Nodes, NEW S, NEW m \in Msg, ~IsData(m)
    PROVE  Follows(cs, Put(cs, n, S, m))
<1>1. PICK ds : ds = Put(cs, n, S, m)
  OBVIOUS
<1>4. /\ Len(ds) = Len(cs)
      /\ \A c \in DOMAIN cs, v \in Nodes :
                /\ ds[c].last[v] = cs[c].last[v]
                /\ \/ ds[c].q[v] = cs[c].q[v]
                   \/ v = Other(n) /\ ds[c].q[v] = Append(cs[c].q[v], m)
  BY <1>1, PutType DEF Wrote
<1>2. ASSUME NEW q \in Seq(Msg) PROVE Same(Append(q, m), q)
  BY <1>2, AppendPart DEF Same
<1>3. ASSUME NEW c \in DOMAIN cs, NEW v \in Nodes PROVE cs[c].q[v] \in Seq(Msg)
  <2>1. cs[c] \in Conn
    BY DEF Sound
  <2> QED
    BY <2>1 DEF Conn
<1> QED
  <2>1. ASSUME NEW c \in DOMAIN cs, NEW v \in Nodes PROVE Same(ds[c].q[v], cs[c].q[v])
    <3>1. Same(Append(cs[c].q[v], m), cs[c].q[v])
      BY <1>2, <1>3
    <3>2. ds[c].q[v] = cs[c].q[v] \/ ds[c].q[v] = Append(cs[c].q[v], m)
      BY <1>4
    <3> QED
      BY <3>1, <3>2, SameFacts, Zenon
  <2> QED
    BY <1>1, <1>4, <2>1, Zenon DEF Follows

\* A registered end has a name of its own, so a drop cuts what one connection still holds.
LEMMA OneRegistered ==
    ASSUME NEW cs, Sound(cs), NEW n \in Nodes, NEW name,
           NEW c \in Registered(cs, n, name), NEW d \in Registered(cs, n, name)
    PROVE  c = d
<1>1. c \in DOMAIN cs /\ d \in DOMAIN cs /\ c \in Nat \ {0} /\ d \in Nat \ {0}
  BY DEF Registered, Sound
<1>2. CASE cs[c].from = n /\ cs[d].from = n
  BY <1>1, <1>2 DEF Sound, OneDial, Registered
<1>3. CASE ~(cs[c].from = n /\ cs[d].from = n)
  BY <1>1, <1>3 DEF Registered, Dial
<1> QED
  BY <1>2, <1>3

LEMMA DropOK ==
    ASSUME NEW cs, Sound(cs), NEW n \in Nodes, NEW name, NEW ds \in drop_peer_stream(cs, n, name)
    PROVE  Sound(ds) /\ Follows(cs, ds)
<1> DEFINE o == Other(n)
           gone == [reg |-> FALSE, rcv |-> FALSE, snd |-> FALSE]
<1>0. cs \in Seq(Conn) /\ OneDial(cs) /\ o \in Nodes /\ o # n /\ gone \in End
  BY OtherOK DEF Sound, End
<1>1. PICK k \in Unsent(cs, n, name) : ds = DropWith(cs, n, name, k)
  BY DEF drop_peer_stream
<1>2. ASSUME NEW c \in DOMAIN cs
      PROVE  /\ ds[c] \in Conn /\ ds[c].from = cs[c].from /\ ds[c].last = cs[c].last
             /\ \A v \in Nodes : /\ ds[c].end[v].reg => cs[c].end[v].reg
                                 /\ Same(ds[c].q[v], cs[c].q[v])
  <2>0. cs[c] \in Conn
    BY <1>0
  <2>1. /\ cs[c].q \in [Nodes -> Seq(Msg)] /\ cs[c].end \in [Nodes -> End]
    BY <2>0 DEF Conn
  <2>2. CASE c \notin Registered(cs, n, name)
    <3>1. ds[c] = cs[c]
      BY <1>1, <2>2 DEF DropWith
    <3> QED
      BY <2>0, <3>1, SameFacts
  <2>3. CASE c \in Registered(cs, n, name)
    <3>1. (CHOOSE x \in Registered(cs, n, name) : TRUE) = c
      BY <2>3, OneRegistered
    <3>2. k \in 0..Len(cs[c].q[o])
      BY <2>3, <3>1 DEF Unsent
    <3> DEFINE r == SubSeq(cs[c].q[o], 1, k)
               q == [[cs[c].q EXCEPT ![n] = <<>>] EXCEPT ![o] = r]
               e == [cs[c].end EXCEPT ![n] = gone]
    <3>3. r \in Seq(Msg) /\ Same(r, cs[c].q[o])
      BY <1>0, <2>1, <3>2, PrefixPart DEF Same
    <3>4. ds[c] = [cs[c] EXCEPT !.end[n] = gone, !.q[n] = <<>>, !.q[o] = SubSeq(@, 1, k)]
      BY <1>1, <2>3 DEF DropWith
    <3>5. ds[c] = [cs[c] EXCEPT !.end = e, !.q = q]
      BY <1>0, <2>0, <2>1, <3>4 DEF Conn
    <3> HIDE DEF r
    <3>6. q \in [Nodes -> Seq(Msg)] /\ e \in [Nodes -> End]
      BY <1>0, <2>1, <3>3, EmptyPart
    <3>7. /\ q[n] = <<>> /\ q[o] = r /\ \A v \in Nodes : v = n \/ v = o
          /\ ~e[n].reg /\ e[o] = cs[c].end[o]
      BY <1>0, <2>1, OtherOK
    <3> HIDE DEF q, e
    <3>8. /\ ds[c] \in Conn /\ ds[c].from = cs[c].from /\ ds[c].last = cs[c].last
          /\ ds[c].q = q /\ ds[c].end = e
      BY <2>0, <3>5, <3>6 DEF Conn
    <3> QED
      BY <3>3, <3>7, <3>8, SameFacts
  <2> QED
    BY <2>2, <2>3
<1>3. ds \in [DOMAIN cs -> Conn]
  BY <1>1, <1>2 DEF DropWith
<1>4. ds \in Seq(Conn) /\ Len(ds) = Len(cs)
  BY <1>0, <1>3, ConnsSeq
<1>5. OneDial(ds)
  BY <1>0, <1>2, <1>4, DialsApart
<1> QED
  BY <1>2, <1>4, <1>5 DEF Sound, Follows

-----------------------------------------------------------------------------
(* Steps that write no data.                                               *)

\* The types of what one node's line is made of.
LEMMA LineTypes ==
    ASSUME Typed, NEW n \in Nodes, NEW c \in DOMAIN conns
    PROVE  /\ conns[c] \in Conn /\ conns[c].last[n] \in Nat /\ conns[c].q[n] \in Seq(Msg)
           /\ pool[n] \in Seq(Event) /\ jobs[n] \in Seq(Job) /\ calls[n] \in Nat
<1>1. conns[c] \in Conn
  BY DEF Typed, Sound
<1>2. conns[c].last \in [Nodes -> Nat] /\ conns[c].q \in [Nodes -> Seq(Msg)]
  BY <1>1 DEF Conn
<1> QED
  BY <1>1, <1>2 DEF Typed

\* The pool of every node loses its first event, or all, or gains one that is not data.
PoolQuiet ==
    \A n \in Nodes : \E d \in {0, 1} : PartOf(pool'[n], pool[n], d)

JobsQuiet ==
    \A n \in Nodes : \E e \in {0, 1} : PartOfJobs(jobs'[n], jobs[n], e)

LEMMA SamePart ==
    /\ \A q : (\A i \in DOMAIN q : i \in Nat) => PartOf(q, q, 0) /\ PartOfJobs(q, q, 0)
    /\ \A q : PartOf(<<>>, q, 0) /\ PartOfJobs(<<>>, q, 0)
BY DEF PartOf, PartOfJobs

LEMMA SamePool ==
    ASSUME pool \in [Nodes -> Seq(Event)], NEW v \in Nodes, pool'[v] = pool[v]
    PROVE  PartOf(pool'[v], pool[v], 0)
<1>1. \A i \in DOMAIN pool[v] : i \in Nat
  OBVIOUS
<1>2. PartOf(pool[v], pool[v], 0)
  BY <1>1, SamePart
<1> QED
  BY <1>2

LEMMA SameJobs ==
    ASSUME jobs \in [Nodes -> Seq(Job)], NEW v \in Nodes, jobs'[v] = jobs[v]
    PROVE  PartOfJobs(jobs'[v], jobs[v], 0)
<1>1. \A i \in DOMAIN jobs[v] : i \in Nat
  OBVIOUS
<1>2. PartOfJobs(jobs[v], jobs[v], 0)
  BY <1>1, SamePart
<1> QED
  BY <1>2

LEMMA UnchangedQuiet ==
    ASSUME Typed
    PROVE  (pool' = pool => PoolQuiet) /\ (jobs' = jobs => JobsQuiet)
<1>1. \A n \in Nodes : (\A i \in DOMAIN pool[n] : i \in Nat) /\ (\A i \in DOMAIN jobs[n] : i \in Nat)
  BY DEF Typed
<1> QED
  BY <1>1, SamePart DEF PoolQuiet, JobsQuiet

\* No node is given a message older than the last one it was given from the connection.
Advances == \A c \in DOMAIN conns, n \in Nodes : conns'[c].last[n] >= conns[c].last[n]

LEMMA QuietStep ==
    ASSUME IInv, Sound(conns'), Follows(conns, conns'),
           pool' \in [Nodes -> Seq(Event)], PoolQuiet,
           \A n \in Nodes : \A i \in DOMAIN pool'[n] : pool'[n][i].c \in DOMAIN conns,
           jobs' \in [Nodes -> Seq(Job)], JobsQuiet, calls' = calls, clock' \in Nat
    PROVE  IInv' /\ Advances
<1>1. conns \in Seq(Conn) /\ conns' \in Seq(Conn) /\ DOMAIN conns' = DOMAIN conns
  BY DEF IInv, Typed, Sound, Follows
<1>2. Typed'
  BY <1>1 DEF IInv, Typed
<1>3. ASSUME NEW n \in Nodes PROVE Lined(n)'
  <2> DEFINE o == Other(n)
  <2>1. o \in Nodes /\ Lined(n) /\ Typed
    BY OtherOK DEF IInv
  <2>2. PICK d \in {0, 1} : PartOf(pool'[n], pool[n], d)
    BY DEF PoolQuiet
  <2>3. PICK e \in {0, 1} : PartOfJobs(jobs'[o], jobs[o], e)
    BY <2>1 DEF JobsQuiet
  <2>4. /\ pool[n] \in Seq(Event) /\ jobs[o] \in Seq(Job) /\ calls[o] \in Nat
        /\ pool'[n] \in Seq(Event) /\ jobs'[o] \in Seq(Job)
    BY <2>1 DEF Typed
  <2>5. JobsInLine(jobs'[o], calls[o])
    BY <2>1, <2>3, <2>4, QuietJobs DEF Lined
  <2>6. PoolInLine(pool'[n])
    BY <2>1, <2>2, <2>4, QuietPool DEF Lined
  <2>7. ASSUME NEW c \in DOMAIN conns'
        PROVE  InLine(c, conns'[c].last[n], conns'[c].q[n], pool'[n], jobs'[o], calls[o])
    <3>1. c \in DOMAIN conns
      BY <1>1
    <3>2. conns[c].last[n] \in Nat /\ conns[c].q[n] \in Seq(Msg)
      BY <2>1, <3>1, LineTypes
    <3>3. conns'[c].q[n] \in Seq(Msg)
      <4>1. conns'[c] \in Conn
        BY <1>1
      <4> QED
        BY <4>1 DEF Conn
    <3>4. conns'[c].last[n] = conns[c].last[n] /\ Same(conns'[c].q[n], conns[c].q[n])
      BY <3>1 DEF Follows
    <3>5. InLine(c, conns[c].last[n], conns[c].q[n], pool[n], jobs[o], calls[o])
      BY <2>1, <3>1 DEF Lined
    <3> HIDE DEF o
    <3> QED
      BY <2>2, <2>3, <2>4, <3>2, <3>3, <3>4, <3>5, QuietLine
  <2> QED
    BY <2>5, <2>6, <2>7 DEF Lined
<1>4. Advances
  <2>1. \A c \in DOMAIN conns, n \in Nodes : conns[c].last[n] \in Nat
    BY LineTypes DEF IInv
  <2> QED
    BY <2>1 DEF Follows, Advances
<1> QED
  BY <1>2, <1>3, <1>4 DEF IInv

\* ... in particular one that only changes the connections.
LEMMA ConnsStep ==
    ASSUME IInv, Sound(conns'), Follows(conns, conns'), UNCHANGED <<pool, jobs, calls, clock>>
    PROVE  IInv' /\ Advances
<1>1. PoolQuiet /\ JobsQuiet
  BY UnchangedQuiet DEF IInv
<1> QED
  BY <1>1, QuietStep DEF IInv, Typed

LEMMA Unmoved ==
    ASSUME IInv
    PROVE  Sound(conns) /\ Follows(conns, conns) /\ conns \in Seq(Conn)
BY FollowsFacts DEF IInv, Typed, Sound

LEMMA TryOK ==
    ASSUME NEW cs, Sound(cs), NEW n \in Nodes, NEW t, try_start_connection(n, cs, t)
    PROVE  Sound(conns') /\ Follows(cs, conns')
<1>1. conns' = cs \/ conns' \in drop_peer_stream(cs, n, Dial)
  BY DEF try_start_connection
<1> QED
  BY <1>1, DropOK, FollowsFacts DEF Sound

LEMMA DialsOK ==
    ASSUME IInv, NEW n \in Nodes, DialFails(n) \/ ConnectTo(n) \/ PingPeers(n)
    PROVE  IInv' /\ Advances
<1>1. UNCHANGED <<pool, jobs, calls, clock>> /\ \E t : try_start_connection(n, conns, t)
  BY DEF DialFails, ConnectTo, PingPeers
<1> QED
  BY <1>1, Unmoved, TryOK, ConnsStep

LEMMA CutOK == ASSUME IInv, NEW c \in DOMAIN conns, Cut(c) PROVE IInv' /\ Advances
<1>1. PICK q \in {conns[c].q, [n \in Nodes |-> <<>>]} :
         conns' = [conns EXCEPT ![c].cut = TRUE, ![c].q = q]
  BY DEF Cut
<1>2. conns \in Seq(Conn) /\ OneDial(conns) /\ conns[c] \in Conn
  BY DEF IInv, Typed, Sound
<1>3. conns[c].q \in [Nodes -> Seq(Msg)]
  BY <1>2 DEF Conn
<1>4. q \in [Nodes -> Seq(Msg)] /\ \A n \in Nodes : Same(q[n], conns[c].q[n])
  <2>1. CASE q = conns[c].q
    BY <1>3, <2>1, SameFacts
  <2>2. CASE q = [n \in Nodes |-> <<>>]
    BY <2>2, EmptyPart, SameFacts
  <2> QED
    BY <2>1, <2>2
<1>5. conns' = [conns EXCEPT ![c] = [conns[c] EXCEPT !.cut = TRUE, !.q = q]]
  BY <1>1, <1>2
<1>6. ASSUME NEW d \in DOMAIN conns
      PROVE  /\ conns'[d] \in Conn /\ conns'[d].from = conns[d].from /\ conns'[d].end = conns[d].end
             /\ conns'[d].last = conns[d].last
             /\ \A n \in Nodes : Same(conns'[d].q[n], conns[d].q[n])
  <2>1. CASE d = c
    <3>1. conns'[d] = [conns[c] EXCEPT !.cut = TRUE, !.q = q]
      BY <1>5, <2>1
    <3> QED
      BY <1>2, <1>4, <2>1, <3>1 DEF Conn
  <2>2. CASE d # c
    BY <1>2, <1>5, <2>2, SameFacts
  <2> QED
    BY <2>1, <2>2
<1>7. conns' \in [DOMAIN conns -> Conn]
  BY <1>5, <1>6
<1>8. conns' \in Seq(Conn) /\ Len(conns') = Len(conns)
  BY <1>2, <1>7, ConnsSeq
<1>9. OneDial(conns')
  BY <1>2, <1>6, <1>8, DialsApart
<1> QED
  BY <1>6, <1>8, <1>9, ConnsStep DEF Sound, Follows, Cut

LEMMA StallOK == ASSUME IInv, NEW n \in Nodes, NEW c \in DOMAIN conns, Stall(n, c) PROVE IInv' /\ Advances
<1> DEFINE o == Other(n)
           q == [conns[c].q EXCEPT ![o] = <<>>]
           f == [conns[c].end[n] EXCEPT !.snd = FALSE]
           e == [conns[c].end EXCEPT ![n] = f]
<1>0. o \in Nodes
  BY OtherOK
<1>1. conns \in Seq(Conn) /\ OneDial(conns) /\ conns[c] \in Conn
  BY DEF IInv, Typed, Sound
<1>2. conns[c].q \in [Nodes -> Seq(Msg)] /\ conns[c].end \in [Nodes -> End]
  BY <1>1 DEF Conn
<1>3. q \in [Nodes -> Seq(Msg)] /\ \A v \in Nodes : Same(q[v], conns[c].q[v])
  BY <1>0, <1>2, EmptyPart, SameFacts
<1>4. f \in End /\ f.reg = conns[c].end[n].reg
  BY <1>2 DEF End
<1>5. conns' = [conns EXCEPT ![c] = [conns[c] EXCEPT !.end = e, !.q = q]]
  <2>1. conns' = [conns EXCEPT ![c].end[n].snd = FALSE, ![c].q[o] = <<>>]
    BY DEF Stall
  <2>2. [conns EXCEPT ![c].end[n].snd = FALSE, ![c].q[o] = <<>>]
          = [conns EXCEPT ![c] = [conns[c] EXCEPT !.end[n].snd = FALSE, !.q[o] = <<>>]]
    BY <1>1
  <2>3. [conns[c] EXCEPT !.end[n].snd = FALSE, !.q[o] = <<>>]
          = [conns[c] EXCEPT !.end = [conns[c].end EXCEPT ![n].snd = FALSE], !.q = q]
    BY <1>1 DEF Conn
  <2>4. [conns[c].end EXCEPT ![n].snd = FALSE] = e
    BY <1>2
  <2> QED
    BY <2>1, <2>2, <2>3, <2>4
<1> HIDE DEF f
<1>6. e \in [Nodes -> End] /\ \A v \in Nodes : e[v].reg = conns[c].end[v].reg
  BY <1>2, <1>4
<1> HIDE DEF e, q
<1>7. ASSUME NEW d \in DOMAIN conns
      PROVE  /\ conns'[d] \in Conn /\ conns'[d].from = conns[d].from
             /\ \A v \in Nodes : conns'[d].end[v].reg = conns[d].end[v].reg
             /\ conns'[d].last = conns[d].last
             /\ \A v \in Nodes : Same(conns'[d].q[v], conns[d].q[v])
  <2>1. CASE d = c
    <3>1. conns'[d] = [conns[c] EXCEPT !.end = e, !.q = q]
      BY <1>5, <2>1
    <3> QED
      BY <1>1, <1>3, <1>6, <2>1, <3>1 DEF Conn
  <2>2. CASE d # c
    BY <1>1, <1>5, <2>2, SameFacts
  <2> QED
    BY <2>1, <2>2
<1>8. conns' \in [DOMAIN conns -> Conn]
  BY <1>5, <1>7
<1>9. conns' \in Seq(Conn) /\ Len(conns') = Len(conns)
  BY <1>1, <1>8, ConnsSeq
<1>10. OneDial(conns')
  BY <1>1, <1>7, <1>9, DialsApart
<1> QED
  BY <1>7, <1>9, <1>10, ConnsStep DEF Sound, Follows, Stall

-----------------------------------------------------------------------------
(* The sockets' events.                                                    *)

\* The connections ds have the names the connections cs have, or fewer.
LEMMA ChangeOK ==
    ASSUME NEW cs, Sound(cs), NEW ds, ds \in [DOMAIN cs -> Conn],
           \A c \in DOMAIN cs, n \in Nodes :
             ds[c].from = cs[c].from /\ (ds[c].end[n].reg => cs[c].end[n].reg)
    PROVE  Sound(ds) /\ Len(ds) = Len(cs) /\ DOMAIN ds = DOMAIN cs
<1>0. cs \in Seq(Conn) /\ OneDial(cs)
  BY DEF Sound
<1>1. ds \in Seq(Conn) /\ Len(ds) = Len(cs) /\ DOMAIN ds = DOMAIN cs
  BY <1>0, ConnsSeq
<1>2. OneDial(ds)
  BY <1>0, <1>1, DialsApart
<1> QED
  BY <1>1, <1>2 DEF Sound

\* A step that moves one node's line only.
LEMMA OneLine ==
    ASSUME IInv, Typed', NEW n \in Nodes, Lined(n)', NEW v \in Nodes, v = Other(n),
           pool'[v] = pool[v], jobs'[n] = jobs[n], calls'[n] = calls[n],
           DOMAIN conns' = DOMAIN conns,
           \A c \in DOMAIN conns : conns'[c].last[v] = conns[c].last[v] /\ conns'[c].q[v] = conns[c].q[v]
    PROVE  IInv'
<1>1. Other(v) = n /\ \A m \in Nodes : m = n \/ m = v
  BY OtherOK
<1>2. Lined(v)
  BY DEF IInv
<1>3. Lined(v)'
  BY <1>1, <1>2 DEF Lined
<1> QED
  BY <1>1, <1>3 DEF IInv

\* The first event leaves a node's pool.
LEMMA TailQuiet ==
    ASSUME IInv, NEW n \in Nodes, pool[n] # <<>>, pool' = [pool EXCEPT ![n] = Tail(@)]
    PROVE  /\ pool' \in [Nodes -> Seq(Event)] /\ PoolQuiet
           /\ \A v \in Nodes : \A i \in DOMAIN pool'[v] : pool'[v][i].c \in DOMAIN conns
           /\ PartOf(pool'[n], pool[n], 1)
<1>1. pool \in [Nodes -> Seq(Event)]
      /\ \A v \in Nodes : \A i \in DOMAIN pool[v] : pool[v][i].c \in DOMAIN conns
  BY DEF IInv, Typed
<1>2. /\ Tail(pool[n]) \in Seq(Event)
      /\ \A i \in DOMAIN Tail(pool[n]) :
           i \in Nat /\ i + 1 \in DOMAIN pool[n] /\ Tail(pool[n])[i] = pool[n][i + 1]
  BY <1>1, TailPart
<1>3. pool'[n] = Tail(pool[n]) /\ \A v \in Nodes : v # n => pool'[v] = pool[v]
  BY <1>1
<1>4. pool' \in [Nodes -> Seq(Event)]
  BY <1>1, <1>2
<1>5. PartOf(pool'[n], pool[n], 1)
  BY <1>2, <1>3 DEF PartOf
<1>6. \A v \in Nodes : v # n => PartOf(pool'[v], pool[v], 0)
  BY <1>1, <1>3, SamePool
<1> QED
  BY <1>1, <1>2, <1>3, <1>4, <1>5, <1>6 DEF PoolQuiet

\* An event that is not data.
LEMMA EventOK ==
    ASSUME IInv, NEW n \in Nodes, pool[n] # <<>>, pool' = [pool EXCEPT ![n] = Tail(@)],
           Sound(conns'), Follows(conns, conns'), UNCHANGED <<jobs, calls, clock>>
    PROVE  IInv' /\ Advances
<1>1. JobsQuiet /\ jobs' \in [Nodes -> Seq(Job)] /\ clock' \in Nat
  BY UnchangedQuiet DEF IInv, Typed
<1> QED
  BY <1>1, TailQuiet, QuietStep

LEMMA HandshakeOK ==
    ASSUME IInv, NEW n \in Nodes, NEW c, NEW m, handle_handshake(n, c, m)
    PROVE  Sound(conns') /\ Follows(conns, conns')
<1> DEFINE line == Writable(conns, n, Name(c, n))
           ds == Put(conns, n, line, [kind |-> "verack"])
<1>0. Sound(conns) /\ Follows(conns, conns) /\ conns \in Seq(Conn)
  BY Unmoved
<1>1. [kind |-> "verack"] \in Msg /\ ~IsData([kind |-> "verack"])
  BY DEF Msg, IsData
<1>2. Sound(ds) /\ Follows(conns, ds)
  BY <1>0, <1>1, PutType, PutFollows DEF Wrote
<1> HIDE DEF ds
<1>3. ASSUME NEW cs, Sound(cs), Follows(conns, cs), NEW ts, NEW name, handle_peer_update(n, cs, ts, name)
      PROVE  Sound(conns') /\ Follows(conns, conns')
  <2>1. conns' = cs \/ \E l : conns' \in drop_peer_stream(cs, n, l)
    BY <1>3 DEF handle_peer_update
  <2>2. ASSUME NEW l, conns' \in drop_peer_stream(cs, n, l) PROVE Sound(conns') /\ Follows(conns, conns')
    <3>1. Sound(conns') /\ Follows(cs, conns')
      BY <1>3, <2>2, DropOK
    <3>2. cs \in Seq(Conn) /\ conns' \in Seq(Conn)
      BY <1>3, <3>1 DEF Sound
    <3> QED
      BY <1>0, <1>3, <3>1, <3>2, FollowsFacts
  <2> QED
    BY <1>3, <2>1, <2>2
<1>4. \/ conns' = conns
      \/ handle_peer_update(n, ds, conns[c].ts, Name(c, n))
      \/ handle_peer_update(n, conns, conns[c].ts, Name(c, n))
  BY DEF handle_handshake, ds
<1> QED
  BY <1>0, <1>2, <1>3, <1>4

\* The message that was received first is handed over.
LEMMA HandedLine ==
    ASSUME NEW c, NEW l \in Nat, NEW q \in Seq(Msg), NEW pl \in Seq(Event), NEW js, NEW cl,
           InLine(c, l, q, pl, js, cl), PoolInLine(pl),
           pl # <<>>, Head(pl).c = c, IsData(Head(pl).m)
    PROVE  InLine(c, Head(pl).m.k, q, Tail(pl), js, cl) /\ l <= Head(pl).m.k /\ Head(pl).m.k \in Nat
<1> DEFINE k == Head(pl).m.k
           pm == Tail(pl)
<1>1. /\ Head(pl) = pl[1] /\ 1 \in DOMAIN pl
      /\ \A i \in DOMAIN pm : i \in Nat /\ i + 1 \in DOMAIN pl /\ pm[i] = pl[i + 1]
  BY TailPart
<1>2. k \in Nat /\ l <= k /\ Below(k, js, cl)
  BY <1>1, EventData DEF InLine
<1>3. \A i \in DOMAIN pm : i \in Nat \ {0} /\ 1 < i + 1
  BY TailPart
<1> HIDE DEF pm
<1>4. ASSUME NEW j \in DOMAIN q, IsData(q[j])
      PROVE  /\ k <= q[j].k /\ Below(q[j].k, js, cl)
             /\ \A i \in DOMAIN q : i < j /\ IsData(q[i]) => q[i].k <= q[j].k
             /\ \A i \in DOMAIN pm : pm[i].c = c /\ IsData(pm[i].m) => pm[i].m.k <= q[j].k
  BY <1>1, <1>4 DEF InLine
<1>5. ASSUME NEW i \in DOMAIN pm, pm[i].c = c, IsData(pm[i].m)
      PROVE  k <= pm[i].m.k /\ Below(pm[i].m.k, js, cl)
  <2>1. pm[i] = pl[i + 1] /\ i + 1 \in DOMAIN pl /\ 1 < i + 1
    BY <1>1, <1>3
  <2>2. k <= pl[i + 1].m.k
    BY <1>1, <1>5, <2>1 DEF PoolInLine
  <2> QED
    BY <1>5, <2>1, <2>2 DEF InLine
<1> QED
  BY <1>2, <1>4, <1>5 DEF InLine, pm

\* The first event of a node's pool is a message, and it is passed on.
Handed(n) ==
    /\ IsData(Head(pool[n]).m)
    /\ conns' = [conns EXCEPT ![Head(pool[n]).c].last[n] = Head(pool[n]).m.k]

LEMMA HandedOK ==
    ASSUME IInv, NEW n \in Nodes, pool[n] # <<>>, pool' = [pool EXCEPT ![n] = Tail(@)], Handed(n),
           UNCHANGED <<jobs, calls, clock>>
    PROVE  IInv' /\ Advances
<1> DEFINE c == Head(pool[n]).c
           k == Head(pool[n]).m.k
           v == Other(n)
           l == [conns[c].last EXCEPT ![n] = k]
           x == [conns[c] EXCEPT !.last = l]
<1>0. /\ v \in Nodes /\ v # n /\ \A m \in Nodes : m = n \/ m = v
  BY OtherOK
<1>1. /\ Typed /\ Sound(conns) /\ conns \in Seq(Conn) /\ pool \in [Nodes -> Seq(Event)] /\ Lined(n)
      /\ pool[n] \in Seq(Event) /\ jobs[v] \in Seq(Job) /\ calls[v] \in Nat
  BY <1>0 DEF IInv, Typed, Sound
<1>2. c \in DOMAIN conns
  <2>1. Head(pool[n]) = pool[n][1] /\ 1 \in DOMAIN pool[n]
    BY <1>1, TailPart
  <2> QED
    BY <1>1, <2>1 DEF Typed
<1>3. /\ \A d \in DOMAIN conns, m \in Nodes : conns[d] \in Conn /\ conns[d].last[m] \in Nat /\ conns[d].q[m] \in Seq(Msg)
  BY <1>1, LineTypes
<1>4. /\ conns[c] \in Conn /\ conns[c].last \in [Nodes -> Nat]
  <2>1. conns[c] \in Conn
    BY <1>2, <1>3
  <2> QED
    BY <2>1, ConnType
<1> HIDE DEF c
<1>5. /\ InLine(c, k, conns[c].q[n], Tail(pool[n]), jobs[v], calls[v])
      /\ conns[c].last[n] <= k /\ k \in Nat
  <2>1. InLine(c, conns[c].last[n], conns[c].q[n], pool[n], jobs[v], calls[v]) /\ PoolInLine(pool[n])
    BY <1>1, <1>2 DEF Lined
  <2>2. c = Head(pool[n]).c
    BY DEF c
  <2> QED
    BY <1>1, <1>2, <1>3, <2>1, <2>2, HandedLine DEF Handed
<1> HIDE DEF k
<1>6. conns' = [conns EXCEPT ![c] = x]
  <2>1. conns' = [conns EXCEPT ![c].last[n] = k]
    BY DEF Handed, c, k
  <2>2. [conns EXCEPT ![c].last[n] = k] = [conns EXCEPT ![c] = [conns[c] EXCEPT !.last[n] = k]]
    BY <1>1
  <2>3. [conns[c] EXCEPT !.last[n] = k] = x
    BY <1>4
  <2> QED
    BY <2>1, <2>2, <2>3
<1>7. l \in [Nodes -> Nat] /\ l[n] = k /\ l[v] = conns[c].last[v]
  BY <1>0, <1>4, <1>5
<1> HIDE DEF l
<1>8. /\ x \in Conn /\ x.from = conns[c].from /\ x.end = conns[c].end /\ x.q = conns[c].q /\ x.last = l
  BY <1>4, <1>7 DEF Conn
<1> HIDE DEF x
<1>9. /\ Sound(conns') /\ Len(conns') = Len(conns) /\ DOMAIN conns' = DOMAIN conns
      /\ conns'[c] = x /\ \A d \in DOMAIN conns : d # c => conns'[d] = conns[d]
  <2>1. /\ conns' \in [DOMAIN conns -> Conn]
        /\ conns'[c] = x /\ \A d \in DOMAIN conns : d # c => conns'[d] = conns[d]
    BY <1>2, <1>3, <1>6, <1>8
  <2>2. \A d \in DOMAIN conns, m \in Nodes :
          conns'[d].from = conns[d].from /\ (conns'[d].end[m].reg => conns[d].end[m].reg)
    BY <1>8, <2>1
  <2> QED
    BY <1>1, <2>1, <2>2, ChangeOK
<1>10. /\ pool' \in [Nodes -> Seq(Event)] /\ PartOf(pool'[n], pool[n], 1)
       /\ \A m \in Nodes : \A i \in DOMAIN pool'[m] : pool'[m][i].c \in DOMAIN conns
       /\ pool'[n] = Tail(pool[n]) /\ pool'[v] = pool[v]
  BY <1>0, <1>1, TailQuiet
<1>11. Typed'
  BY <1>1, <1>9, <1>10 DEF Typed
<1>12. PoolInLine(pool'[n])
  BY <1>1, <1>10, QuietPool DEF Lined
<1>13. ASSUME NEW d \in DOMAIN conns, d # c
       PROVE  InLine(d, conns[d].last[n], conns[d].q[n], pool'[n], jobs[v], calls[v])
  <2>1. InLine(d, conns[d].last[n], conns[d].q[n], pool[n], jobs[v], calls[v])
    BY <1>1 DEF Lined
  <2>2. Same(conns[d].q[n], conns[d].q[n]) /\ PartOfJobs(jobs[v], jobs[v], 0)
    <3>1. \A i \in DOMAIN jobs[v] : i \in Nat
      BY <1>1
    <3> QED
      BY <3>1, SameFacts, SamePart, Zenon
  <2>3. pool'[n] \in Seq(Event)
    BY <1>10
  <2> HIDE DEF v
  <2> QED
    BY <1>1, <1>3, <1>10, <2>1, <2>2, <2>3, QuietLine
<1>14. Lined(n)'
  <2>1. ASSUME NEW d \in DOMAIN conns
        PROVE  InLine(d, conns'[d].last[n], conns'[d].q[n], pool'[n], jobs[v], calls[v])
    <3>1. CASE d = c
      <4>1. conns'[d].last[n] = k /\ conns'[d].q[n] = conns[c].q[n]
        BY <1>7, <1>8, <1>9, <3>1
      <4> QED
        BY <1>5, <1>10, <3>1, <4>1
    <3>2. CASE d # c
      <4>1. conns'[d] = conns[d]
        BY <1>9, <3>2
      <4> QED
        BY <1>13, <3>2, <4>1
    <3> QED
      BY <3>1, <3>2
  <2> QED
    BY <1>1, <1>9, <1>12, <2>1 DEF Lined
<1>15. IInv'
  <2>1. \A d \in DOMAIN conns : conns'[d].last[v] = conns[d].last[v] /\ conns'[d].q[v] = conns[d].q[v]
    BY <1>7, <1>8, <1>9
  <2> QED
    BY <1>0, <1>9, <1>10, <1>11, <1>14, <2>1, OneLine
<1>16. Advances
  <2>1. ASSUME NEW d \in DOMAIN conns, NEW m \in Nodes PROVE conns'[d].last[m] >= conns[d].last[m]
    <3>1. conns[d].last[m] \in Nat
      BY <1>3
    <3>2. CASE d = c /\ m = n
      BY <1>5, <1>7, <1>8, <1>9, <3>1, <3>2
    <3>3. CASE ~(d = c /\ m = n)
      <4>1. conns'[d].last[m] = conns[d].last[m]
        BY <1>0, <1>7, <1>8, <1>9, <3>3
      <4> QED
        BY <3>1, <4>1
    <3> QED
      BY <3>2, <3>3
  <2> QED
    BY <2>1 DEF Advances
<1> QED
  BY <1>15, <1>16

LEMMA TcpEventOK == ASSUME IInv, NEW n \in Nodes, handle_p2p_tcp_event(n) PROVE IInv' /\ Advances
<1> DEFINE c == Head(pool[n]).c
           m == Head(pool[n]).m
<1>0. pool[n] # <<>> /\ pool' = [pool EXCEPT ![n] = Tail(@)] /\ UNCHANGED <<jobs, calls, clock>>
  BY DEF handle_p2p_tcp_event
<1>1. \/ handle_handshake(n, c, m)
      \/ handle_closed_event(n, Name(c, n))
      \/ Handed(n)
  BY DEF handle_p2p_tcp_event, IsData, Handed
<1>2. CASE handle_handshake(n, c, m)
  <2>1. Sound(conns') /\ Follows(conns, conns')
    BY <1>2, HandshakeOK
  <2> QED
    BY <1>0, <2>1, EventOK
<1>3. CASE handle_closed_event(n, Name(c, n))
  <2>1. conns' \in drop_peer_stream(conns, n, Name(c, n))
    BY <1>3 DEF handle_closed_event
  <2>2. Sound(conns') /\ Follows(conns, conns')
    BY <2>1, Unmoved, DropOK
  <2> QED
    BY <1>0, <2>2, EventOK
<1>4. CASE Handed(n)
  BY <1>0, <1>4, HandedOK
<1> QED
  BY <1>1, <1>2, <1>3, <1>4

\* The message at the head of a connection is received.
LEMMA ReceivedLine ==
    ASSUME NEW c, NEW l \in Nat, NEW q \in Seq(Msg), NEW pl \in Seq(Event), NEW js, NEW cl,
           InLine(c, l, q, pl, js, cl), PoolInLine(pl), q # <<>>, NEW ev \in Event,
           ev.c = c, ev.m = Head(q)
    PROVE  InLine(c, l, Tail(q), Append(pl, ev), js, cl) /\ PoolInLine(Append(pl, ev))
<1> DEFINE r == Tail(q)
           pm == Append(pl, ev)
<1>1. /\ Head(q) = q[1] /\ 1 \in DOMAIN q /\ r \in Seq(Msg)
      /\ \A i \in DOMAIN r : i \in Nat \ {0} /\ i + 1 \in DOMAIN q /\ r[i] = q[i + 1]
  BY TailPart
<1>2. /\ Len(pl) \in Nat /\ DOMAIN pl = 1..Len(pl) /\ DOMAIN pm = 1..(Len(pl) + 1)
      /\ \A i \in DOMAIN pl : pm[i] = pl[i]
      /\ pm[Len(pl) + 1] = ev
  BY AppendPart
<1> HIDE DEF r, pm
<1>3. ASSUME NEW j \in DOMAIN r, IsData(r[j])
      PROVE  /\ l <= r[j].k /\ Below(r[j].k, js, cl)
             /\ \A i \in DOMAIN r : i < j /\ IsData(r[i]) => r[i].k <= r[j].k
             /\ \A i \in DOMAIN pm : pm[i].c = c /\ IsData(pm[i].m) => pm[i].m.k <= r[j].k
  <2>1. r[j] = q[j + 1] /\ j + 1 \in DOMAIN q /\ 1 < j + 1 /\ IsData(q[j + 1])
    BY <1>1, <1>3
  <2>2. l <= r[j].k /\ Below(r[j].k, js, cl)
    BY <2>1 DEF InLine
  <2>3. \A i \in DOMAIN q : i < j + 1 /\ IsData(q[i]) => q[i].k <= r[j].k
    BY <2>1 DEF InLine
  <2>4. \A i \in DOMAIN pl : pl[i].c = c /\ IsData(pl[i].m) => pl[i].m.k <= r[j].k
    BY <2>1 DEF InLine
  <2>5. \A i \in DOMAIN r : i < j => i + 1 < j + 1
    BY <1>1
  <2>6. \A i \in DOMAIN r : i < j /\ IsData(r[i]) => r[i].k <= r[j].k
    BY <1>1, <2>3, <2>5
  <2>7. IsData(ev.m) => ev.m.k <= r[j].k
    BY <1>1, <2>1, <2>3
  <2> QED
    BY <1>2, <2>2, <2>4, <2>6, <2>7
<1>4. ASSUME NEW i \in DOMAIN pm, pm[i].c = c, IsData(pm[i].m)
      PROVE  l <= pm[i].m.k /\ Below(pm[i].m.k, js, cl)
  <2>1. IsData(q[1]) => l <= q[1].k /\ Below(q[1].k, js, cl)
    BY <1>1 DEF InLine
  <2>2. \A j \in DOMAIN pl : pl[j].c = c /\ IsData(pl[j].m) => l <= pl[j].m.k /\ Below(pl[j].m.k, js, cl)
    BY DEF InLine
  <2> QED
    BY <1>1, <1>2, <1>4, <2>1, <2>2
<1>5. InLine(c, l, r, pm, js, cl)
  BY <1>3, <1>4 DEF InLine
<1>6. ASSUME NEW i \in DOMAIN pm, NEW j \in DOMAIN pm, i < j, pm[i].c = pm[j].c,
             IsData(pm[i].m), IsData(pm[j].m)
      PROVE  pm[i].m.k <= pm[j].m.k
  <2>1. i \in DOMAIN pl
    BY <1>2, <1>6
  <2>2. CASE j \in DOMAIN pl
    BY <1>2, <1>6, <2>1, <2>2 DEF PoolInLine
  <2>3. CASE j = Len(pl) + 1
    <3>1. pm[i] = pl[i] /\ pm[j] = ev /\ pl[i].c = c /\ IsData(q[1]) /\ IsData(pl[i].m)
      BY <1>1, <1>2, <1>6, <2>1, <2>3
    <3>2. pl[i].m.k <= q[1].k
      BY <1>1, <2>1, <3>1 DEF InLine
    <3> QED
      BY <1>1, <3>1, <3>2
  <2> QED
    BY <1>2, <2>2, <2>3
<1> QED
  BY <1>5, <1>6 DEF PoolInLine, r, pm

\* An event of another connection, or one that is not data, makes no difference.
LEMMA OtherEventLine ==
    ASSUME NEW c, NEW l \in Nat, NEW q \in Seq(Msg), NEW pl \in Seq(Event), NEW js, NEW cl,
           InLine(c, l, q, pl, js, cl), NEW ev \in Event, ev.c # c
    PROVE  InLine(c, l, q, Append(pl, ev), js, cl)
<1> DEFINE pm == Append(pl, ev)
<1>1. /\ Len(pl) \in Nat /\ DOMAIN pl = 1..Len(pl) /\ DOMAIN pm = 1..(Len(pl) + 1)
      /\ \A i \in DOMAIN pl : pm[i] = pl[i]
      /\ pm[Len(pl) + 1] = ev
  BY AppendPart
<1> HIDE DEF pm
<1>2. \A i \in DOMAIN pm : pm[i].c = c => i \in DOMAIN pl /\ pm[i] = pl[i]
  BY <1>1
<1> QED
  BY <1>2 DEF InLine, pm

\* An event is added to a node's pool.
LEMMA AppendQuiet ==
    ASSUME IInv, NEW n \in Nodes, NEW ev \in Event, ev.c \in DOMAIN conns,
           pool' = [pool EXCEPT ![n] = Append(@, ev)]
    PROVE  /\ pool' \in [Nodes -> Seq(Event)]
           /\ \A v \in Nodes : \A i \in DOMAIN pool'[v] : pool'[v][i].c \in DOMAIN conns
           /\ pool'[n] = Append(pool[n], ev) /\ pool'[Other(n)] = pool[Other(n)]
           /\ ~IsData(ev.m) => PoolQuiet
<1>0. Other(n) \in Nodes /\ Other(n) # n
  BY OtherOK
<1>1. pool \in [Nodes -> Seq(Event)]
      /\ \A v \in Nodes : \A i \in DOMAIN pool[v] : pool[v][i].c \in DOMAIN conns
  BY DEF IInv, Typed
<1>2. /\ Append(pool[n], ev) \in Seq(Event) /\ Len(pool[n]) \in Nat /\ DOMAIN pool[n] = 1..Len(pool[n])
      /\ DOMAIN Append(pool[n], ev) = 1..(Len(pool[n]) + 1)
      /\ \A i \in DOMAIN pool[n] : Append(pool[n], ev)[i] = pool[n][i]
      /\ Append(pool[n], ev)[Len(pool[n]) + 1] = ev
  BY <1>1, AppendPart
<1>3. pool'[n] = Append(pool[n], ev) /\ \A v \in Nodes : v # n => pool'[v] = pool[v]
  BY <1>1
<1>4. pool' \in [Nodes -> Seq(Event)]
  BY <1>1, <1>2
<1>5. \A v \in Nodes : \A i \in DOMAIN pool'[v] : pool'[v][i].c \in DOMAIN conns
  BY <1>1, <1>2, <1>3
<1>6. ASSUME ~IsData(ev.m) PROVE PoolQuiet
  <2>1. PartOf(pool'[n], pool[n], 0)
    BY <1>2, <1>3, <1>6 DEF PartOf
  <2>2. \A v \in Nodes : v # n => PartOf(pool'[v], pool[v], 0)
    BY <1>1, <1>3, SamePool
  <2> QED
    BY <2>1, <2>2 DEF PoolQuiet
<1> QED
  BY <1>0, <1>3, <1>4, <1>5, <1>6

\* The reader takes a message from connection c.
Taken(n, c) == conns' = [conns EXCEPT ![c].q[n] = Tail(@)]

LEMMA TakenOK ==
    ASSUME IInv, NEW n \in Nodes, NEW c \in DOMAIN conns, conns[c].q[n] # <<>>, Taken(n, c),
           pool' = [pool EXCEPT ![n] = Append(@, [c |-> c, m |-> Head(conns[c].q[n])])],
           UNCHANGED <<jobs, calls, clock>>
    PROVE  IInv' /\ Advances
<1> DEFINE v == Other(n)
           ev == [c |-> c, m |-> Head(conns[c].q[n])]
           q == [conns[c].q EXCEPT ![n] = Tail(@)]
           x == [conns[c] EXCEPT !.q = q]
<1>0. /\ v \in Nodes /\ v # n /\ \A m \in Nodes : m = n \/ m = v
  BY OtherOK
<1>1. /\ Typed /\ Sound(conns) /\ conns \in Seq(Conn) /\ Lined(n)
      /\ pool[n] \in Seq(Event) /\ jobs[v] \in Seq(Job) /\ calls[v] \in Nat
  BY <1>0 DEF IInv, Typed, Sound
<1>2. \A d \in DOMAIN conns, m \in Nodes :
         conns[d] \in Conn /\ conns[d].last[m] \in Nat /\ conns[d].q[m] \in Seq(Msg)
  BY <1>1, LineTypes
<1>3. conns[c].q \in [Nodes -> Seq(Msg)]
  BY <1>2, ConnType
<1>4. ev \in Event /\ ev.c = c /\ ev.m = Head(conns[c].q[n]) /\ Tail(conns[c].q[n]) \in Seq(Msg)
  <2>1. Head(conns[c].q[n]) \in Msg /\ Tail(conns[c].q[n]) \in Seq(Msg)
    BY <1>2, TailPart
  <2>2. c \in Nat
    BY <1>1
  <2> QED
    BY <2>1, <2>2 DEF Event
<1>5. q \in [Nodes -> Seq(Msg)] /\ q[n] = Tail(conns[c].q[n]) /\ q[v] = conns[c].q[v]
  BY <1>0, <1>3, <1>4
<1>6. conns' = [conns EXCEPT ![c] = x]
  <2>1. conns' = [conns EXCEPT ![c].q[n] = Tail(@)]
    BY DEF Taken
  <2>2. [conns EXCEPT ![c].q[n] = Tail(@)] = [conns EXCEPT ![c] = [conns[c] EXCEPT !.q[n] = Tail(@)]]
    BY <1>1
  <2>3. [conns[c] EXCEPT !.q[n] = Tail(@)] = x
    BY <1>2, <1>3 DEF Conn
  <2> QED
    BY <2>1, <2>2, <2>3
<1> HIDE DEF q
<1>7. /\ x \in Conn /\ x.from = conns[c].from /\ x.end = conns[c].end /\ x.q = q /\ x.last = conns[c].last
  BY <1>2, <1>5 DEF Conn
<1> HIDE DEF x
<1>8. /\ conns' \in [DOMAIN conns -> Conn] /\ conns'[c] = x
      /\ \A d \in DOMAIN conns : d # c => conns'[d] = conns[d]
  BY <1>2, <1>6, <1>7
<1>9. Sound(conns') /\ DOMAIN conns' = DOMAIN conns
  <2>1. \A d \in DOMAIN conns, m \in Nodes :
          conns'[d].from = conns[d].from /\ (conns'[d].end[m].reg => conns[d].end[m].reg)
    BY <1>7, <1>8
  <2> QED
    BY <1>1, <1>8, <2>1, ChangeOK
<1>10. \A d \in DOMAIN conns, m \in Nodes : conns'[d].last[m] = conns[d].last[m]
  BY <1>7, <1>8
<1>11. /\ pool' \in [Nodes -> Seq(Event)]
       /\ \A m \in Nodes : \A i \in DOMAIN pool'[m] : pool'[m][i].c \in DOMAIN conns
       /\ pool'[n] = Append(pool[n], ev) /\ pool'[v] = pool[v]
  <2>1. pool' = [pool EXCEPT ![n] = Append(@, ev)]
    OBVIOUS
  <2> HIDE DEF ev
  <2> QED
    BY <1>4, <2>1, AppendQuiet
<1> HIDE DEF ev
<1>12. Typed'
  BY <1>1, <1>9, <1>11 DEF Typed
<1>13. /\ InLine(c, conns[c].last[n], Tail(conns[c].q[n]), Append(pool[n], ev), jobs[v], calls[v])
       /\ PoolInLine(Append(pool[n], ev))
  <2>1. InLine(c, conns[c].last[n], conns[c].q[n], pool[n], jobs[v], calls[v]) /\ PoolInLine(pool[n])
    BY <1>1 DEF Lined
  <2> QED
    BY <1>1, <1>2, <1>4, <2>1, ReceivedLine
<1>14. ASSUME NEW d \in DOMAIN conns
       PROVE  InLine(d, conns'[d].last[n], conns'[d].q[n], pool'[n], jobs[v], calls[v])
  <2>1. CASE d = c
    <3>1. conns'[d].q[n] = Tail(conns[c].q[n]) /\ conns'[d].last[n] = conns[c].last[n]
      BY <1>5, <1>7, <1>8, <2>1
    <3> QED
      BY <1>11, <1>13, <2>1, <3>1
  <2>2. CASE d # c
    <3>1. conns'[d] = conns[d]
      BY <1>8, <2>2
    <3>2. InLine(d, conns[d].last[n], conns[d].q[n], pool[n], jobs[v], calls[v])
      BY <1>1 DEF Lined
    <3>3. InLine(d, conns[d].last[n], conns[d].q[n], Append(pool[n], ev), jobs[v], calls[v])
      BY <1>1, <1>2, <1>4, <2>2, <3>2, OtherEventLine
    <3> QED
      BY <1>11, <3>1, <3>3
  <2> QED
    BY <2>1, <2>2
<1>15. Lined(n)'
  BY <1>1, <1>9, <1>11, <1>13, <1>14 DEF Lined
<1>16. \A d \in DOMAIN conns : conns'[d].last[v] = conns[d].last[v] /\ conns'[d].q[v] = conns[d].q[v]
  BY <1>0, <1>5, <1>7, <1>8
<1>17. IInv'
  BY <1>0, <1>9, <1>11, <1>12, <1>15, <1>16, OneLine
<1>18. Advances
  BY <1>2, <1>10 DEF Advances
<1> QED
  BY <1>17, <1>18

\* The reader of connection c comes to its end.
Ended(n, c) == conns' = [conns EXCEPT ![c].end[n].rcv = FALSE]

LEMMA EndedOK ==
    ASSUME IInv, NEW n \in Nodes, NEW c \in DOMAIN conns, Ended(n, c),
           pool' = [pool EXCEPT ![n] = Append(@, [c |-> c, m |-> [kind |-> "closed"]])],
           UNCHANGED <<jobs, calls, clock>>
    PROVE  IInv' /\ Advances
<1> DEFINE ev == [c |-> c, m |-> [kind |-> "closed"]]
           f == [conns[c].end[n] EXCEPT !.rcv = FALSE]
           e == [conns[c].end EXCEPT ![n] = f]
           x == [conns[c] EXCEPT !.end = e]
<1>1. Sound(conns) /\ conns \in Seq(Conn) /\ conns[c] \in Conn /\ \A d \in DOMAIN conns : conns[d] \in Conn
  BY DEF IInv, Typed, Sound
<1>2. conns[c].end \in [Nodes -> End]
  BY <1>1, ConnType
<1>3. f \in End /\ f.reg = conns[c].end[n].reg
  BY <1>2 DEF End
<1>4. conns' = [conns EXCEPT ![c] = x]
  <2>1. conns' = [conns EXCEPT ![c].end[n].rcv = FALSE]
    BY DEF Ended
  <2>2. [conns EXCEPT ![c].end[n].rcv = FALSE]
          = [conns EXCEPT ![c] = [conns[c] EXCEPT !.end[n].rcv = FALSE]]
    BY <1>1
  <2>3. [conns[c] EXCEPT !.end[n].rcv = FALSE]
          = [conns[c] EXCEPT !.end = [conns[c].end EXCEPT ![n].rcv = FALSE]]
    BY <1>1 DEF Conn
  <2>4. [conns[c].end EXCEPT ![n].rcv = FALSE] = e
    BY <1>2
  <2> QED
    BY <2>1, <2>2, <2>3, <2>4
<1> HIDE DEF f
<1>5. e \in [Nodes -> End] /\ \A v \in Nodes : e[v].reg = conns[c].end[v].reg
  BY <1>2, <1>3
<1> HIDE DEF e
<1>6. x \in Conn /\ x.from = conns[c].from /\ x.end = e /\ x.q = conns[c].q /\ x.last = conns[c].last
  BY <1>1, <1>5 DEF Conn
<1> HIDE DEF x
<1>7. /\ conns' \in [DOMAIN conns -> Conn] /\ conns'[c] = x
      /\ \A d \in DOMAIN conns : d # c => conns'[d] = conns[d]
  BY <1>1, <1>4, <1>6
<1>8. \A d \in DOMAIN conns, m \in Nodes :
        conns'[d].from = conns[d].from /\ (conns'[d].end[m].reg => conns[d].end[m].reg)
  BY <1>5, <1>6, <1>7
<1>9. Sound(conns') /\ Len(conns') = Len(conns)
  BY <1>1, <1>7, <1>8, ChangeOK
<1>10. \A d \in DOMAIN conns : conns'[d].last = conns[d].last /\ conns'[d].q = conns[d].q
  BY <1>6, <1>7
<1>11. Follows(conns, conns')
  BY <1>9, <1>10, SameFacts, Zenon DEF Follows
<1>12. ev \in Event /\ ev.c = c /\ ~IsData(ev.m)
  BY <1>1 DEF Event, Msg, IsData
<1>13. pool' = [pool EXCEPT ![n] = Append(@, ev)]
  OBVIOUS
<1> HIDE DEF ev
<1>14. /\ pool' \in [Nodes -> Seq(Event)] /\ PoolQuiet
       /\ \A m \in Nodes : \A i \in DOMAIN pool'[m] : pool'[m][i].c \in DOMAIN conns
  BY <1>12, <1>13, AppendQuiet
<1>15. JobsQuiet /\ jobs' \in [Nodes -> Seq(Job)] /\ clock' \in Nat
  BY UnchangedQuiet DEF IInv, Typed
<1> QED
  BY <1>9, <1>11, <1>14, <1>15, QuietStep

LEMMA ReceiveOK ==
    ASSUME IInv, NEW n \in Nodes, NEW c \in DOMAIN conns, Receive(n, c)
    PROVE  IInv' /\ Advances
<1>1. UNCHANGED <<jobs, calls, clock>>
  BY DEF Receive
<1>2. \/ /\ conns[c].q[n] # <<>> /\ Taken(n, c)
         /\ pool' = [pool EXCEPT ![n] = Append(@, [c |-> c, m |-> Head(conns[c].q[n])])]
      \/ /\ Ended(n, c)
         /\ pool' = [pool EXCEPT ![n] = Append(@, [c |-> c, m |-> [kind |-> "closed"]])]
  BY DEF Receive, Taken, Ended
<1> QED
  BY <1>1, <1>2, TakenOK, EndedOK

-----------------------------------------------------------------------------
(* Sending.                                                                *)

\* The jobs and the calls of node n become jt and cm.
Handover(n, jt, cm) ==
    /\ jobs' = [jobs EXCEPT ![n] = jt] /\ calls' = [calls EXCEPT ![n] = cm]
    /\ UNCHANGED <<pool, clock>>

\* Whatever is not after the jobs js and the call cl, is not after the jobs jt and the call cm.
Later(js, cl, jt, cm) == \A x \in Nat : Below(x, js, cl) => Below(x, jt, cm)

LEMMA SendOK ==
    ASSUME IInv, NEW n \in Nodes, NEW jt \in Seq(Job), NEW cm \in Nat, Handover(n, jt, cm),
           JobsInLine(jt, cm), Later(jobs[n], calls[n], jt, cm),
           \/ conns' = conns
           \/ \E S : \E k \in Nat :
                /\ conns' = Put(conns, n, S, Data(k)) /\ Below(k, jt, cm)
                /\ \A x \in Nat : Below(x, jobs[n], calls[n]) => x <= k
    PROVE  IInv' /\ Advances
<1> DEFINE v == Other(n)
           Grown ==
             /\ Sound(conns') /\ Len(conns') = Len(conns)
             /\ \A c \in DOMAIN conns :
                  /\ \A m \in Nodes : conns'[c].last[m] = conns[c].last[m]
                  /\ conns'[c].q[n] = conns[c].q[n]
                  /\ \/ conns'[c].q[v] = conns[c].q[v]
                     \/ \E k \in Nat : /\ conns'[c].q[v] = Append(conns[c].q[v], Data(k))
                                       /\ Below(k, jt, cm)
                                       /\ \A x \in Nat : Below(x, jobs[n], calls[n]) => x <= k
<1>0. /\ v \in Nodes /\ v # n /\ Other(v) = n
  BY OtherOK
<1>1. /\ Typed /\ Sound(conns) /\ conns \in Seq(Conn) /\ Lined(v)
      /\ pool \in [Nodes -> Seq(Event)] /\ pool[v] \in Seq(Event)
      /\ jobs \in [Nodes -> Seq(Job)] /\ calls \in [Nodes -> Nat]
      /\ jobs[n] \in Seq(Job) /\ calls[n] \in Nat
  BY <1>0 DEF IInv, Typed, Sound
<1>2. \A c \in DOMAIN conns, m \in Nodes :
         conns[c].last[m] \in Nat /\ conns[c].q[m] \in Seq(Msg)
  BY <1>1, LineTypes
<1>3. /\ jobs' \in [Nodes -> Seq(Job)] /\ calls' \in [Nodes -> Nat] /\ pool' = pool /\ clock' = clock
      /\ jobs'[n] = jt /\ calls'[n] = cm /\ jobs'[v] = jobs[v] /\ calls'[v] = calls[v]
  BY <1>0, <1>1 DEF Handover
<1>4. Grown
  <2>1. CASE conns' = conns
    BY <1>1, <2>1
  <2>2. ASSUME NEW S, NEW k \in Nat, conns' = Put(conns, n, S, Data(k)), Below(k, jt, cm),
               \A x \in Nat : Below(x, jobs[n], calls[n]) => x <= k
        PROVE  Grown
    <3>1. Data(k) \in Msg
      BY DEF Data, Msg
    <3>2. /\ Sound(conns') /\ Len(conns') = Len(conns)
          /\ \A c \in DOMAIN conns, m \in Nodes :
               /\ conns'[c].last[m] = conns[c].last[m]
               /\ \/ conns'[c].q[m] = conns[c].q[m]
                  \/ m = v /\ conns'[c].q[m] = Append(conns[c].q[m], Data(k))
      <4>1. Wrote(conns, conns', n, Data(k))
        BY <1>1, <2>2, <3>1, PutType
      <4> QED
        BY <4>1 DEF Wrote
    <3> HIDE DEF v
    <3> QED
      BY <1>0, <2>2, <3>2
  <2> QED
    BY <2>1, <2>2
<1>5. DOMAIN conns' = DOMAIN conns
  BY <1>1, <1>4 DEF Sound
<1>6. Typed'
  BY <1>1, <1>3, <1>4, <1>5 DEF Typed
<1>7. ASSUME NEW c \in DOMAIN conns
      PROVE  InLine(c, conns[c].last[v], conns'[c].q[v], pool[v], jt, cm)
  <2>1. InLine(c, conns[c].last[v], conns[c].q[v], pool[v], jobs[n], calls[n])
    BY <1>0, <1>1 DEF Lined
  <2>2. conns[c].last[v] \in Nat /\ conns[c].q[v] \in Seq(Msg)
    BY <1>0, <1>2
  <2>3. CASE conns'[c].q[v] = conns[c].q[v]
    <3>1. InLine(c, conns[c].last[v], conns[c].q[v], pool[v], jt, cm)
      BY <1>1, <2>1, <2>2, CalledLine DEF Later
    <3> QED
      BY <2>3, <3>1
  <2>4. ASSUME NEW k \in Nat, conns'[c].q[v] = Append(conns[c].q[v], Data(k)), Below(k, jt, cm),
               \A x \in Nat : Below(x, jobs[n], calls[n]) => x <= k
        PROVE  InLine(c, conns[c].last[v], conns'[c].q[v], pool[v], jt, cm)
    <3>1. InLine(c, conns[c].last[v], Append(conns[c].q[v], Data(k)), pool[v], jt, cm)
      BY <1>1, <2>1, <2>2, <2>4, SentLine DEF Later
    <3> QED
      BY <2>4, <3>1
  <2> QED
    BY <1>4, <2>3, <2>4
<1>8. Lined(v)'
  BY <1>0, <1>1, <1>3, <1>4, <1>5, <1>7 DEF Lined
<1>9. IInv'
  <2>1. pool'[n] = pool[n] /\ \A c \in DOMAIN conns : conns'[c].last[n] = conns[c].last[n] /\ conns'[c].q[n] = conns[c].q[n]
    BY <1>3, <1>4
  <2> HIDE DEF v
  <2> QED
    BY <1>0, <1>3, <1>5, <1>6, <1>8, <2>1, OneLine
<1>10. Advances
  BY <1>2, <1>4 DEF Advances
<1> QED
  BY <1>9, <1>10

\* A message is handed over: it goes behind the jobs.
LEMMA NewJob ==
    ASSUME NEW js \in Seq(Job), NEW cl \in Nat, JobsInLine(js, cl), NEW to \in BOOLEAN
    PROVE  LET jt == Append(js, [k |-> cl + 1, to |-> to])
           IN jt \in Seq(Job) /\ JobsInLine(jt, cl + 1) /\ Later(js, cl, jt, cl + 1)
<1> DEFINE job == [k |-> cl + 1, to |-> to]
           jt == Append(js, job)
<1>0. job \in Job /\ job.k = cl + 1
  BY DEF Job
<1> HIDE DEF job
<1>1. /\ jt \in Seq(Job) /\ Len(js) \in Nat /\ DOMAIN js = 1..Len(js) /\ DOMAIN jt = 1..(Len(js) + 1)
      /\ \A i \in DOMAIN js : jt[i] = js[i]
      /\ jt[Len(js) + 1] = job
  BY <1>0, AppendPart
<1>2. \A i \in DOMAIN js : js[i].k \in Nat
  <2>1. \A i \in DOMAIN js : js[i] \in Job
    OBVIOUS
  <2> QED
    BY <2>1 DEF Job
<1> HIDE DEF jt
<1>3. JobsInLine(jt, cl + 1)
  <2>1. \A i \in DOMAIN jt : jt[i].k <= cl + 1
    BY <1>0, <1>1, <1>2 DEF JobsInLine
  <2>2. ASSUME NEW i \in DOMAIN jt, NEW j \in DOMAIN jt, i < j PROVE jt[i].k <= jt[j].k
    <3>1. i \in DOMAIN js /\ jt[i] = js[i]
      BY <1>1, <2>2
    <3>2. CASE j \in DOMAIN js
      BY <1>1, <2>2, <3>1, <3>2 DEF JobsInLine
    <3>3. CASE j = Len(js) + 1
      BY <1>0, <1>1, <1>2, <3>1, <3>3 DEF JobsInLine
    <3> QED
      BY <1>1, <3>2, <3>3
  <2> QED
    BY <2>1, <2>2 DEF JobsInLine
<1>4. Later(js, cl, jt, cl + 1)
  <2>1. ASSUME NEW x \in Nat, Below(x, js, cl) PROVE Below(x, jt, cl + 1)
    BY <1>0, <1>1, <2>1 DEF Below
  <2> QED
    BY <2>1 DEF Later
<1> QED
  BY <1>1, <1>3, <1>4 DEF jt, job

\* What is known of the jobs and the calls of a sender.
LEMMA SenderLine ==
    ASSUME IInv, NEW n \in Nodes
    PROVE  /\ JobsInLine(jobs[n], calls[n]) /\ jobs[n] \in Seq(Job) /\ calls[n] \in Nat
           /\ jobs \in [Nodes -> Seq(Job)] /\ calls \in [Nodes -> Nat] /\ Sound(conns)
<1>1. Other(n) \in Nodes /\ Other(Other(n)) = n
  BY OtherOK
<1>2. Lined(Other(n))
  BY <1>1 DEF IInv
<1> QED
  BY <1>1, <1>2 DEF Lined, IInv, Typed

LEMMA QueueOK ==
    ASSUME IInv, NEW n \in Nodes, NEW to \in BOOLEAN, calls' = [calls EXCEPT ![n] = @ + 1],
           jobs' = [jobs EXCEPT ![n] = Append(@, [k |-> calls[n] + 1, to |-> to])],
           UNCHANGED <<conns, pool, clock>>
    PROVE  IInv' /\ Advances
<1> DEFINE jt == Append(jobs[n], [k |-> calls[n] + 1, to |-> to])
<1>1. JobsInLine(jobs[n], calls[n]) /\ jobs[n] \in Seq(Job) /\ calls[n] \in Nat
  BY SenderLine
<1>2. jt \in Seq(Job) /\ JobsInLine(jt, calls[n] + 1) /\ Later(jobs[n], calls[n], jt, calls[n] + 1)
  BY <1>1, NewJob
<1>3. Handover(n, jt, calls[n] + 1) /\ calls[n] + 1 \in Nat
  BY <1>1 DEF Handover
<1> HIDE DEF jt
<1> QED
  BY <1>2, <1>3, SendOK

LEMMA SendNowOK ==
    ASSUME IInv, NEW n \in Nodes, calls' = [calls EXCEPT ![n] = @ + 1], jobs[n] = <<>>,
           send_now(n, calls[n] + 1), UNCHANGED <<jobs, pool, clock>>
    PROVE  IInv' /\ Advances
<1> DEFINE cl == calls[n]
<1>1. JobsInLine(jobs[n], cl) /\ jobs[n] \in Seq(Job) /\ cl \in Nat /\ jobs \in [Nodes -> Seq(Job)]
  BY SenderLine
<1>2. \A x : Below(x, jobs[n], cl) <=> x <= cl
  BY EmptyPart DEF Below
<1>3. \A x : Below(x, jobs[n], cl + 1) <=> x <= cl + 1
  BY EmptyPart DEF Below
<1>4. JobsInLine(jobs[n], cl + 1) /\ Later(jobs[n], cl, jobs[n], cl + 1)
  <2>1. Later(jobs[n], cl, jobs[n], cl + 1)
    BY <1>1, <1>2, <1>3 DEF Later
  <2> QED
    BY <2>1, EmptyPart DEF JobsInLine
<1>5. Handover(n, jobs[n], cl + 1) /\ cl + 1 \in Nat
  BY <1>1 DEF Handover
<1>6. /\ Below(cl + 1, jobs[n], cl + 1)
      /\ \A x \in Nat : Below(x, jobs[n], cl) => x <= cl + 1
  BY <1>1, <1>2, <1>3
<1>7. conns' = conns \/ \E S : conns' = Put(conns, n, S, Data(cl + 1))
  BY DEF send_now
<1> QED
  BY <1>1, <1>4, <1>5, <1>6, <1>7, SendOK

LEMMA send_OK == ASSUME IInv, NEW n \in Nodes, send(n) PROVE IInv' /\ Advances
<1>1. CASE jobs[n] # <<>>
  BY <1>1, QueueOK DEF send
<1>2. CASE jobs[n] = <<>>
  BY <1>2, SendNowOK DEF send
<1> QED
  BY <1>1, <1>2

LEMMA broadcast_OK ==
    ASSUME IInv, NEW n \in Nodes, NEW to \in BOOLEAN, broadcast(n, to)
    PROVE  IInv' /\ Advances
BY QueueOK DEF broadcast

\* The oldest job's message is not before anything sent so far, nor after what the others hold.
LEMMA FirstJob ==
    ASSUME NEW js \in Seq(Job), NEW cl \in Nat, JobsInLine(js, cl), js # <<>>
    PROVE  /\ Tail(js) \in Seq(Job) /\ JobsInLine(Tail(js), cl) /\ PartOfJobs(Tail(js), js, 1)
           /\ Later(js, cl, Tail(js), cl)
           /\ Head(js).k \in Nat /\ Below(Head(js).k, Tail(js), cl)
           /\ \A x \in Nat : Below(x, js, cl) => x <= Head(js).k
<1> DEFINE jt == Tail(js)
<1>1. /\ jt \in Seq(Job) /\ Head(js) \in Job /\ Head(js) = js[1] /\ 1 \in DOMAIN js
      /\ \A i \in DOMAIN jt : i \in Nat \ {0} /\ i + 1 \in DOMAIN js /\ jt[i] = js[i + 1]
  BY TailPart
<1> HIDE DEF jt
<1>2. PartOfJobs(jt, js, 1)
  BY <1>1 DEF PartOfJobs
<1>3. JobsInLine(jt, cl)
  BY <1>1, <1>2, QuietJobs
<1>4. Later(js, cl, jt, cl)
  BY <1>1 DEF Later, Below
<1>5. Head(js).k \in Nat
  BY <1>1 DEF Job
<1>6. Below(Head(js).k, jt, cl)
  <2>1. js[1].k <= cl
    BY <1>1 DEF JobsInLine
  <2>2. ASSUME NEW i \in DOMAIN jt PROVE js[1].k <= jt[i].k
    <3>1. i + 1 \in DOMAIN js /\ 1 < i + 1 /\ jt[i] = js[i + 1]
      BY <1>1
    <3> QED
      BY <1>1, <3>1 DEF JobsInLine
  <2> QED
    BY <1>1, <2>1, <2>2 DEF Below
<1>7. \A x \in Nat : Below(x, js, cl) => x <= Head(js).k
  BY <1>1 DEF Below
<1> QED
  BY <1>1, <1>2, <1>3, <1>4, <1>5, <1>6, <1>7 DEF jt

LEMMA ActuallySendOK == ASSUME IInv, NEW n \in Nodes, actually_send_to(n) PROVE IInv' /\ Advances
<1> DEFINE js == jobs[n]
           jt == Tail(jobs[n])
           cl == calls[n]
           k == Head(jobs[n]).k
<1>1. /\ JobsInLine(js, cl) /\ js \in Seq(Job) /\ cl \in Nat /\ js # <<>>
      /\ jobs \in [Nodes -> Seq(Job)] /\ calls \in [Nodes -> Nat] /\ Sound(conns)
  BY SenderLine DEF actually_send_to
<1>2. /\ jt \in Seq(Job) /\ JobsInLine(jt, cl) /\ PartOfJobs(jt, js, 1) /\ Later(js, cl, jt, cl)
      /\ k \in Nat /\ Below(k, jt, cl) /\ \A x \in Nat : Below(x, js, cl) => x <= k
  BY <1>1, FirstJob
<1>3. /\ jobs' = [jobs EXCEPT ![n] = jt] /\ UNCHANGED <<pool, calls, clock>>
  BY DEF actually_send_to
<1>4. Handover(n, jt, cl)
  BY <1>1, <1>3 DEF Handover
<1>5. \/ conns' = conns
      \/ \E S : conns' = Put(conns, n, S, Data(k))
      \/ \E t : try_start_connection(n, conns, t)
  BY DEF actually_send_to
<1> HIDE DEF k, jt
<1>6. CASE conns' = conns \/ \E S : conns' = Put(conns, n, S, Data(k))
  BY <1>1, <1>2, <1>4, <1>6, SendOK
<1>7. ASSUME NEW t, try_start_connection(n, conns, t) PROVE IInv' /\ Advances
  <2>1. Sound(conns') /\ Follows(conns, conns')
    BY <1>1, <1>7, TryOK
  <2>2. /\ jobs'[n] = jt /\ \A v \in Nodes : v # n => jobs'[v] = jobs[v]
    BY <1>1, <1>3
  <2>3. jobs' \in [Nodes -> Seq(Job)]
    BY <1>1, <1>2, <1>3
  <2>4. \A v \in Nodes : v # n => PartOfJobs(jobs'[v], jobs[v], 0)
    BY <1>1, <2>2, SameJobs
  <2>5. JobsQuiet
    BY <1>2, <2>2, <2>4 DEF JobsQuiet
  <2>6. PoolQuiet
    BY <1>3, UnchangedQuiet DEF IInv
  <2> QED
    BY <1>3, <2>1, <2>3, <2>5, <2>6, QuietStep DEF IInv, Typed
<1> QED
  BY <1>5, <1>6, <1>7

-----------------------------------------------------------------------------
(* A new connection, and a restart.                                        *)

\* The end of node n in the connections cs is closed to new messages and loses its name.
Retired(cs, n, S) ==
    [c \in DOMAIN cs |->
       IF c \in S THEN [cs[c] EXCEPT !.end[n].reg = FALSE, !.end[n].snd = FALSE] ELSE cs[c]]

LEMMA RetiredOK ==
    ASSUME NEW cs, Sound(cs), NEW n \in Nodes, NEW S
    PROVE  /\ Sound(Retired(cs, n, S)) /\ Len(Retired(cs, n, S)) = Len(cs)
           /\ DOMAIN Retired(cs, n, S) = DOMAIN cs
           /\ \A c \in DOMAIN cs :
                /\ Retired(cs, n, S)[c].last = cs[c].last /\ Retired(cs, n, S)[c].q = cs[c].q
                /\ Retired(cs, n, S)[c].from = cs[c].from
                /\ IF c \in S THEN ~Retired(cs, n, S)[c].end[n].reg
                   ELSE Retired(cs, n, S)[c].end[n].reg = cs[c].end[n].reg
<1> DEFINE ds == Retired(cs, n, S)
<1>0. cs \in Seq(Conn) /\ OneDial(cs)
  BY DEF Sound
<1>1. ASSUME NEW c \in DOMAIN cs
      PROVE  /\ ds[c] \in Conn /\ ds[c].last = cs[c].last /\ ds[c].q = cs[c].q
             /\ ds[c].from = cs[c].from
             /\ IF c \in S THEN ~ds[c].end[n].reg ELSE ds[c].end[n].reg = cs[c].end[n].reg
             /\ \A v \in Nodes : ds[c].end[v].reg => cs[c].end[v].reg
  <2>0. cs[c] \in Conn
    BY <1>0
  <2>1. cs[c].end \in [Nodes -> End]
    BY <2>0, ConnType
  <2>2. CASE c \in S
    <3> DEFINE f == [cs[c].end[n] EXCEPT !.reg = FALSE, !.snd = FALSE]
               e == [cs[c].end EXCEPT ![n] = f]
    <3>1. f \in End /\ ~f.reg
      BY <2>1 DEF End
    <3>2. ds[c] = [cs[c] EXCEPT !.end[n].reg = FALSE, !.end[n].snd = FALSE]
      BY <2>2 DEF Retired
    <3>3. [cs[c] EXCEPT !.end[n].reg = FALSE, !.end[n].snd = FALSE]
            = [cs[c] EXCEPT !.end = [cs[c].end EXCEPT ![n].reg = FALSE, ![n].snd = FALSE]]
      BY <2>0 DEF Conn
    <3>4. [cs[c].end EXCEPT ![n].reg = FALSE, ![n].snd = FALSE] = e
      BY <2>1
    <3>5. ds[c] = [cs[c] EXCEPT !.end = e]
      BY <3>2, <3>3, <3>4
    <3> HIDE DEF f
    <3>6. e \in [Nodes -> End] /\ e[n] = f /\ \A v \in Nodes : v # n => e[v] = cs[c].end[v]
      BY <2>1, <3>1
    <3> HIDE DEF e, ds
    <3>7. ds[c] \in Conn /\ ds[c].last = cs[c].last /\ ds[c].q = cs[c].q /\ ds[c].from = cs[c].from /\ ds[c].end = e
      BY <2>0, <3>5, <3>6 DEF Conn
    <3> QED
      BY <2>2, <3>1, <3>6, <3>7
  <2>3. CASE c \notin S
    <3>1. ds[c] = cs[c]
      BY <2>3 DEF Retired
    <3> QED
      BY <2>0, <2>3, <3>1
  <2> QED
    BY <2>2, <2>3
<1>2. ds \in [DOMAIN cs -> Conn]
  BY <1>1 DEF Retired
<1> HIDE DEF ds
<1>3. Sound(ds) /\ Len(ds) = Len(cs) /\ DOMAIN ds = DOMAIN cs
  BY <1>1, <1>2, ChangeOK
<1> QED
  BY <1>1, <1>3 DEF ds

\* A connection of node n is added to ones where n has no dialled end.
LEMMA AddedOK ==
    ASSUME NEW cs, Sound(cs), NEW n \in Nodes, NEW x \in Conn, x.from = n,
           \A c \in DOMAIN cs : cs[c].from = n => ~cs[c].end[n].reg
    PROVE  /\ Sound(Append(cs, x)) /\ Len(Append(cs, x)) = Len(cs) + 1
           /\ Append(cs, x)[Len(cs) + 1] = x
           /\ \A c \in DOMAIN cs : Append(cs, x)[c] = cs[c]
<1> DEFINE ds == Append(cs, x)
<1>1. /\ ds \in Seq(Conn) /\ Len(cs) \in Nat /\ DOMAIN cs = 1..Len(cs)
      /\ DOMAIN ds = 1..(Len(cs) + 1) /\ \A i \in DOMAIN cs : ds[i] = cs[i]
      /\ ds[Len(cs) + 1] = x /\ OneDial(cs)
  BY AppendPart DEF Sound
<1>2. Len(ds) = Len(cs) + 1
  BY DEF Sound
<1> HIDE DEF ds
<1>3. OneDial(ds)
  <2> SUFFICES ASSUME NEW c \in DOMAIN ds, NEW d \in DOMAIN ds, NEW v \in Nodes,
                      ds[c].from = v, ds[d].from = v, ds[c].end[v].reg, ds[d].end[v].reg
               PROVE  c = d
    BY DEF OneDial
  <2>1. CASE c \in DOMAIN cs /\ d \in DOMAIN cs
    BY <1>1, <2>1 DEF OneDial
  <2>2. CASE c = Len(cs) + 1 \/ d = Len(cs) + 1
    BY <1>1, <2>2
  <2> QED
    BY <1>1, <2>1, <2>2
<1> QED
  BY <1>1, <1>2, <1>3 DEF Sound, ds

\* Nothing has been sent on a new connection.
LEMMA NewLine ==
    ASSUME NEW c, NEW q \in Seq(Msg), \A i \in DOMAIN q : ~IsData(q[i]), NEW pl \in Seq(Event),
           \A i \in DOMAIN pl : pl[i].c # c, NEW js \in Seq(Job), NEW cl \in Nat
    PROVE  InLine(c, 0, q, pl, js, cl)
<1>1. \A i \in DOMAIN js : js[i].k \in Nat
  <2>1. \A i \in DOMAIN js : js[i] \in Job
    OBVIOUS
  <2> QED
    BY <2>1 DEF Job
<1>2. Below(0, js, cl)
  BY <1>1 DEF Below
<1> QED
  BY <1>2 DEF InLine

LEMMA do_handshakeOK ==
    ASSUME IInv, NEW n \in Nodes, NEW ts, do_handshake(n, ts)
    PROVE  IInv' /\ Advances
<1> DEFINE old == Registered(conns, n, Dial)
           open == [reg |-> TRUE, rcv |-> TRUE, snd |-> TRUE]
           kept == Retired(conns, n, old)
           new == [from |-> n, ts |-> ts, cut |-> FALSE, last |-> [m \in Nodes |-> 0],
                   end |-> [m \in Nodes |-> open], q |-> [m \in Nodes |-> <<>>]]
           more == Append(kept, new)
           hello == [kind |-> "hello"]
           l == Len(conns) + 1
<1>0. /\ Typed /\ Sound(conns) /\ conns \in Seq(Conn) /\ Len(conns) \in Nat /\ DOMAIN conns = 1..Len(conns)
  BY DEF IInv, Typed, Sound
<1>1. /\ conns' = Put(more, n, {l}, hello) /\ ts \in Nat /\ clock' \in Nat
      /\ UNCHANGED <<pool, jobs, calls>>
  <2>1. conns' = Put(more, n, {l}, hello)
    BY Zenon DEF do_handshake, Retired
  <2>2. clock \in Nat /\ ts \in {clock, clock + 1} /\ clock' = ts /\ UNCHANGED <<pool, jobs, calls>>
    BY <1>0, Zenon DEF do_handshake, Typed
  <2> QED
    BY <2>1, <2>2
<1>2. /\ new \in Conn /\ new.from = n /\ \A m \in Nodes : new.last[m] = 0 /\ new.q[m] = <<>>
  <2>1. [m \in Nodes |-> 0] \in [Nodes -> Nat] /\ [m \in Nodes |-> open] \in [Nodes -> End]
        /\ [m \in Nodes |-> <<>>] \in [Nodes -> Seq(Msg)]
    BY EmptyPart DEF End
  <2> QED
    BY <1>1, <2>1 DEF Conn
<1> HIDE DEF new
<1>3. /\ Sound(kept) /\ Len(kept) = Len(conns) /\ DOMAIN kept = DOMAIN conns
      /\ \A c \in DOMAIN conns :
           /\ kept[c].last = conns[c].last /\ kept[c].q = conns[c].q /\ kept[c].from = conns[c].from
           /\ IF c \in old THEN ~kept[c].end[n].reg ELSE kept[c].end[n].reg = conns[c].end[n].reg
  BY <1>0, RetiredOK
<1> HIDE DEF kept
<1>4. \A c \in DOMAIN kept : kept[c].from = n => ~kept[c].end[n].reg
  BY <1>3 DEF Registered
<1>5. /\ Sound(more) /\ Len(more) = l /\ more[l] = new /\ \A c \in DOMAIN conns : more[c] = kept[c]
  BY <1>2, <1>3, <1>4, AddedOK
<1> HIDE DEF more
<1>6. hello \in Msg /\ ~IsData(hello)
  BY DEF Msg, IsData
<1> HIDE DEF hello
<1>7. Wrote(more, conns', n, hello)
  BY <1>1, <1>5, <1>6, PutType
<1>8. /\ DOMAIN more = 1..l /\ DOMAIN conns' = 1..l /\ l \in Nat
      /\ DOMAIN conns \subseteq DOMAIN conns' /\ Sound(conns') /\ conns' \in Seq(Conn)
  BY <1>0, <1>5, <1>7 DEF Wrote, Sound
<1>9. Typed'
  BY <1>0, <1>1, <1>8 DEF Typed
<1>10. \A c \in DOMAIN conns, v \in Nodes :
         /\ conns'[c].last[v] = conns[c].last[v]
         /\ conns'[c].q[v] = conns[c].q[v] \/ conns'[c].q[v] = Append(conns[c].q[v], hello)
  <2>1. \A c \in DOMAIN conns : c \in DOMAIN more /\ more[c].last = conns[c].last /\ more[c].q = conns[c].q
    BY <1>0, <1>3, <1>5, <1>8
  <2> QED
    BY <1>7, <2>1 DEF Wrote
<1>11. \A v \in Nodes :
         conns'[l].last[v] = 0 /\ (conns'[l].q[v] = <<>> \/ conns'[l].q[v] = Append(<<>>, hello))
  <2>1. l \in DOMAIN more
    BY <1>8
  <2> QED
    BY <1>2, <1>5, <1>7, <2>1 DEF Wrote
<1>12. ASSUME NEW v \in Nodes PROVE Lined(v)'
  <2> DEFINE o == Other(v)
  <2>1. /\ o \in Nodes /\ Lined(v) /\ pool[v] \in Seq(Event) /\ jobs[o] \in Seq(Job) /\ calls[o] \in Nat
        /\ \A i \in DOMAIN pool[v] : i \in Nat /\ pool[v][i].c \in DOMAIN conns
        /\ \A i \in DOMAIN jobs[o] : i \in Nat
    BY <1>0, OtherOK DEF IInv, Typed
  <2> HIDE DEF o
  <2>2. ASSUME NEW c \in DOMAIN conns'
        PROVE  InLine(c, conns'[c].last[v], conns'[c].q[v], pool[v], jobs[o], calls[o])
    <3>1. conns'[c].q[v] \in Seq(Msg)
      <4>1. conns'[c] \in Conn
        BY <1>8
      <4> QED
        BY <4>1 DEF Conn
    <3>2. CASE c \in DOMAIN conns
      <4>1. conns[c].last[v] \in Nat /\ conns[c].q[v] \in Seq(Msg)
        BY <1>0, <3>2, LineTypes
      <4>2. Same(Append(conns[c].q[v], hello), conns[c].q[v])
        BY <1>6, <4>1, AppendPart DEF Same
      <4>3. Same(conns'[c].q[v], conns[c].q[v]) /\ conns'[c].last[v] = conns[c].last[v]
        BY <1>10, <3>2, <4>2, SameFacts
      <4>4. PartOf(pool[v], pool[v], 0) /\ PartOfJobs(jobs[o], jobs[o], 0)
        BY <2>1, SamePart, Zenon
      <4>5. InLine(c, conns[c].last[v], conns[c].q[v], pool[v], jobs[o], calls[o])
        BY <2>1, <3>2 DEF Lined, o
      <4> QED
        BY <2>1, <3>1, <4>1, <4>3, <4>4, <4>5, QuietLine
    <3>3. CASE c = l
      <4>1. \A i \in DOMAIN conns'[c].q[v] : ~IsData(conns'[c].q[v][i])
        <5>1. \A i \in DOMAIN Append(<<>>, hello) : Append(<<>>, hello)[i] = hello
          BY <1>6, EmptyPart, AppendPart
        <5>2. CASE conns'[c].q[v] = <<>>
          BY <5>2, EmptyPart
        <5>3. CASE conns'[c].q[v] = Append(<<>>, hello)
          BY <1>6, <5>1, <5>3
        <5> QED
          BY <1>11, <3>3, <5>2, <5>3
      <4>2. \A i \in DOMAIN pool[v] : pool[v][i].c # c
        BY <1>0, <2>1, <3>3
      <4>3. InLine(c, 0, conns'[c].q[v], pool[v], jobs[o], calls[o])
        BY <2>1, <3>1, <4>1, <4>2, NewLine
      <4> QED
        BY <1>11, <3>3, <4>3
    <3> QED
      BY <1>0, <1>8, <3>2, <3>3
  <2> QED
    BY <1>1, <2>1, <2>2 DEF Lined, o
<1>13. IInv'
  BY <1>9, <1>12 DEF IInv
<1>14. Advances
  <2>1. \A c \in DOMAIN conns, v \in Nodes : conns[c].last[v] \in Nat
    BY <1>0, LineTypes
  <2> QED
    BY <1>10, <2>1 DEF Advances
<1> QED
  BY <1>13, <1>14

LEMMA RestartOK == ASSUME IInv, NEW n \in Nodes, Restart(n) PROVE IInv' /\ Advances
<1> DEFINE gone == [reg |-> FALSE, rcv |-> FALSE, snd |-> FALSE]
           none == [m \in Nodes |-> <<>>]
<1>0. Sound(conns) /\ conns \in Seq(Conn) /\ pool \in [Nodes -> Seq(Event)] /\ jobs \in [Nodes -> Seq(Job)]
      /\ \A v \in Nodes : \A i \in DOMAIN pool[v] : pool[v][i].c \in DOMAIN conns
  BY DEF IInv, Typed, Sound
<1>1. gone \in End /\ none \in [Nodes -> Seq(Msg)] /\ \A m \in Nodes : none[m] = <<>>
  BY EmptyPart DEF End
<1>2. ASSUME NEW c \in DOMAIN conns
      PROVE  /\ conns'[c] \in Conn /\ conns'[c].from = conns[c].from /\ conns'[c].last = conns[c].last
             /\ \A v \in Nodes : conns'[c].end[v].reg => conns[c].end[v].reg
             /\ \A v \in Nodes : conns'[c].q[v] = <<>>
  <2>0. conns[c] \in Conn
    BY <1>0
  <2>1. conns[c].end \in [Nodes -> End]
    BY <2>0, ConnType
  <2> DEFINE e == [conns[c].end EXCEPT ![n] = gone]
  <2>2. conns'[c] = [conns[c] EXCEPT !.end[n] = gone, !.q = none]
    BY DEF Restart
  <2>3. conns'[c] = [conns[c] EXCEPT !.end = e, !.q = none]
    BY <2>0, <2>2
  <2>4. e \in [Nodes -> End] /\ \A v \in Nodes : e[v].reg => conns[c].end[v].reg
    BY <1>1, <2>1
  <2> HIDE DEF e, none
  <2> QED
    BY <1>1, <2>0, <2>3, <2>4 DEF Conn
<1>3. conns' \in [DOMAIN conns -> Conn]
  BY <1>2 DEF Restart
<1>4. Sound(conns') /\ Len(conns') = Len(conns)
  BY <1>0, <1>2, <1>3, ChangeOK
<1>5. Follows(conns, conns')
  BY <1>2, <1>4, SameFacts DEF Follows
<1>6. /\ pool'[n] = <<>> /\ jobs'[n] = <<>>
      /\ \A v \in Nodes : v # n => pool'[v] = pool[v] /\ jobs'[v] = jobs[v]
  BY <1>0 DEF Restart
<1>7. pool' \in [Nodes -> Seq(Event)] /\ jobs' \in [Nodes -> Seq(Job)]
  BY <1>0, EmptyPart DEF Restart
<1>8. \A v \in Nodes : PartOf(pool'[v], pool[v], 0) /\ PartOfJobs(jobs'[v], jobs[v], 0)
  <2>1. \A v \in Nodes : v # n => PartOf(pool'[v], pool[v], 0) /\ PartOfJobs(jobs'[v], jobs[v], 0)
    BY <1>0, <1>6, SamePool, SameJobs
  <2>2. PartOf(pool'[n], pool[n], 0) /\ PartOfJobs(jobs'[n], jobs[n], 0)
    BY <1>6, SamePart
  <2> QED
    BY <2>1, <2>2
<1>9. PoolQuiet /\ JobsQuiet
  BY <1>8 DEF PoolQuiet, JobsQuiet
<1>10. \A v \in Nodes : \A i \in DOMAIN pool'[v] : pool'[v][i].c \in DOMAIN conns
  BY <1>0, <1>6, EmptyPart
<1>11. calls' = calls /\ clock' \in Nat
  BY DEF Restart, IInv, Typed
<1> QED
  BY <1>4, <1>5, <1>7, <1>9, <1>10, <1>11, QuietStep

-----------------------------------------------------------------------------
(* The theorem.                                                            *)

LEMMA InitOK == Init => IInv
<1> SUFFICES ASSUME Init PROVE IInv
  OBVIOUS
<1>1. conns = <<>> /\ \A n \in Nodes : pool[n] = <<>> /\ jobs[n] = <<>>
  BY DEF Init
<1>2. Typed
  <2>1. Sound(conns)
    BY <1>1, EmptyPart DEF Sound, OneDial
  <2>2. pool \in [Nodes -> Seq(Event)] /\ jobs \in [Nodes -> Seq(Job)]
    BY EmptyPart DEF Init
  <2>3. calls \in [Nodes -> Nat] /\ clock \in Nat
    BY DEF Init
  <2> QED
    BY <1>1, <2>1, <2>2, <2>3, EmptyPart DEF Typed
<1>3. ASSUME NEW n \in Nodes PROVE Lined(n)
  <2>1. Other(n) \in Nodes
    BY OtherOK
  <2> QED
    BY <1>1, <2>1, EmptyPart DEF Lined, JobsInLine, PoolInLine
<1> QED
  BY <1>2, <1>3 DEF IInv

LEMMA NextOK == ASSUME IInv, Next PROVE IInv' /\ Advances
<1>1. ASSUME NEW n \in Nodes, NEW ts, do_handshake(n, ts) PROVE IInv' /\ Advances
  BY <1>1, do_handshakeOK
<1>2. ASSUME NEW n \in Nodes, DialFails(n) \/ ConnectTo(n) \/ PingPeers(n) PROVE IInv' /\ Advances
  BY <1>2, DialsOK
<1>3. ASSUME NEW n \in Nodes, NEW c \in DOMAIN conns, Receive(n, c) PROVE IInv' /\ Advances
  BY <1>3, ReceiveOK
<1>4. ASSUME NEW n \in Nodes, handle_p2p_tcp_event(n) PROVE IInv' /\ Advances
  BY <1>4, TcpEventOK
<1>5. ASSUME NEW n \in Nodes, send(n) PROVE IInv' /\ Advances
  BY <1>5, send_OK
<1>6. ASSUME NEW n \in Nodes, NEW to \in BOOLEAN, broadcast(n, to) PROVE IInv' /\ Advances
  BY <1>6, broadcast_OK
<1>7. ASSUME NEW n \in Nodes, actually_send_to(n) PROVE IInv' /\ Advances
  BY <1>7, ActuallySendOK
<1>8. ASSUME NEW n \in Nodes, NEW c \in DOMAIN conns, Stall(n, c) PROVE IInv' /\ Advances
  BY <1>8, StallOK
<1>9. ASSUME NEW n \in Nodes, Restart(n) PROVE IInv' /\ Advances
  BY <1>9, RestartOK
<1>10. ASSUME NEW c \in DOMAIN conns, Cut(c) PROVE IInv' /\ Advances
  BY <1>10, CutOK
<1> QED
  BY <1>1, <1>2, <1>3, <1>4, <1>5, <1>6, <1>7, <1>8, <1>9, <1>10 DEF Next

\* What one connection delivers to a node it delivers in the order in which the other node's
\* modules handed it over: the jobs of the canal, what is written on the connection, what its
\* reader has put in the pool and the last message passed on are in line after every step, be it
\* a new dial, a dropped stream, a cut, a stall or a restart.
THEOREM InOrderAlways == Spec => InOrder
<1>1. IInv /\ [Next]_vars => IInv' /\ [\A c \in DOMAIN conns, n \in Nodes : conns'[c].last[n] >= conns[c].last[n]]_vars
  <2>1. ASSUME IInv, Next PROVE IInv' /\ \A c \in DOMAIN conns, n \in Nodes : conns'[c].last[n] >= conns[c].last[n]
    BY <2>1, NextOK DEF Advances
  <2>2. ASSUME IInv, UNCHANGED vars PROVE IInv'
    <3>1. UNCHANGED <<conns, pool, jobs, calls, clock>>
      BY <2>2 DEF vars
    <3> QED
      BY <2>2, <3>1, Unmoved, ConnsStep
  <2> QED
    BY <2>1, <2>2
<1> QED
  BY <1>1, InitOK, PTL DEF Spec, InOrder

-----------------------------------------------------------------------------
(* Agreement on the connection: what is under way between the two nodes.    *)
(* Written for the connections cs, the pools pl and the peers pr, so that   *)
(* it can be said in the middle of a handler as well.                       *)

\* n keeps the peer, on the end called name.
KeptAs(pr, n, name) == pr[n] # Unknown /\ pr[n].name = name

\* The kinds of message from connection c that n has in its pool, and that flow to it.
InPool(pl, n, c) == {pl[n][i].m.kind : i \in {j \in DOMAIN pl[n] : pl[n][j].c = c}}
InFlow(cs, n, c) == {cs[c].q[n][i].kind : i \in DOMAIN cs[c].q[n]}
Due(cs, pl, kind, n, c) == kind \in InPool(pl, n, c) \/ kind \in InFlow(cs, n, c)

\* What flows on c still comes from the other node to the end of n.
Carries(cs, n, c) ==
    cs[c].end[Other(n)].snd /\ cs[c].end[n].rcv /\ ~cs[c].cut

\* A stream that is written is in the list; one in the list is read, or its end was noticed.
\* Only a stream that was dialled can be read without being in the list.
EndOK(cs, pl, n, c) ==
    LET e == cs[c].end[n]
    IN  /\ e.snd => e.reg
        /\ e.reg /\ ~e.rcv => "closed" \in InPool(pl, n, c)
        /\ cs[c].from # n /\ e.rcv => e.reg

\* n was dialled on c.  Until it keeps the peer there it has written nothing, and the Hello is
\* on its way unless it was lost.
AnswerOK(cs, pl, pr, n, c) ==
    cs[c].from # n =>
      /\ cs[c].end[n].reg /\ ~KeptAs(pr, n, c) => cs[c].end[n].snd /\ cs[c].q[Other(n)] = <<>>
      /\ cs[c].end[n].reg /\ Carries(cs, n, c) => Due(cs, pl, "hello", n, c) \/ KeptAs(pr, n, c)
      /\ ~Due(cs, pl, "verack", n, c)

\* n has dialled c.  Once the other node keeps n there, the Verack is on its way unless it was
\* lost, or n knows that node, and on the stream it dialled last if c is still in the list.
DialOK(cs, pl, pr, n, c) ==
    cs[c].from = n =>
      /\ KeptAs(pr, Other(n), c) /\ Carries(cs, n, c) =>
           \/ Due(cs, pl, "verack", n, c)
           \/ pr[n] # Unknown /\ (cs[c].end[n].reg => pr[n].name = Dial)
      /\ ~Due(cs, pl, "hello", n, c)

PairOK(cs, pl, pr, n, c) ==
    EndOK(cs, pl, n, c) /\ AnswerOK(cs, pl, pr, n, c) /\ DialOK(cs, pl, pr, n, c)

\* A peer is kept on a dial or on a stream that the other node dialled.
PeersOK(cs, pr) ==
    /\ pr \in [Nodes -> [ts : Nat, name : Nat]]
    /\ \A n \in Nodes : pr[n].name # Dial =>
         pr[n].name \in DOMAIN cs /\ cs[pr[n].name].from # n

\* The time of a Hello is not the one that stands for no peer.
TimesOK(cs) == \A c \in DOMAIN cs : cs[c].ts # 0

Held(cs, pl, pr) ==
    /\ PeersOK(cs, pr) /\ TimesOK(cs)
    /\ \A n \in Nodes : \A c \in DOMAIN cs : PairOK(cs, pl, pr, n, c)

AInv == IInv /\ clock # 0 /\ Held(conns, pool, peer)

-----------------------------------------------------------------------------
(* What the operations do to a connection.                                 *)

Gone == [reg |-> FALSE, rcv |-> FALSE, snd |-> FALSE]

\* The fields that only a fault changes.
Alike(x, y) == y.from = x.from /\ y.ts = x.ts /\ y.cut = x.cut

LEMMA ConnFields ==
    ASSUME NEW cs, Sound(cs), NEW c \in DOMAIN cs, NEW n \in Nodes
    PROVE  /\ cs[c] \in Conn /\ cs[c].end \in [Nodes -> End] /\ cs[c].q \in [Nodes -> Seq(Msg)]
           /\ cs[c].end[n] \in End /\ cs[c].q[n] \in Seq(Msg) /\ cs[c].from \in Nodes
           /\ c \in Nat /\ c # 0 /\ c # Dial
<1>1. cs \in Seq(Conn)
  BY DEF Sound
<1>2. cs[c] \in Conn /\ c \in Nat /\ c # 0
  BY <1>1
<1>3. cs[c].end \in [Nodes -> End] /\ cs[c].q \in [Nodes -> Seq(Msg)] /\ cs[c].from \in Nodes
  BY <1>2 DEF Conn
<1> QED
  BY <1>2, <1>3 DEF Dial

\* The kinds in a sequence of messages.
KindsIn(q) == {q[i].kind : i \in DOMAIN q}

LEMMA KindsOK ==
    ASSUME NEW q \in Seq(Msg)
    PROVE  /\ KindsIn(<<>>) = {}
           /\ \A m \in Msg : KindsIn(Append(q, m)) = KindsIn(q) \cup {m.kind}
           /\ q # <<>> => KindsIn(q) = {Head(q).kind} \cup KindsIn(Tail(q))
           /\ \A k \in 0..Len(q) : KindsIn(SubSeq(q, 1, k)) \subseteq KindsIn(q)
<1>1. KindsIn(<<>>) = {}
  BY EmptyPart DEF KindsIn
<1>2. ASSUME NEW m \in Msg PROVE KindsIn(Append(q, m)) = KindsIn(q) \cup {m.kind}
  <2>1. PICK r : r = Append(q, m)
    OBVIOUS
  <2>2. /\ Len(q) \in Nat /\ DOMAIN q = 1..Len(q) /\ DOMAIN r = 1..(Len(q) + 1)
        /\ \A i \in DOMAIN q : r[i] = q[i]
        /\ r[Len(q) + 1] = m
    BY <2>1, AppendPart
  <2>3. \A i : i \in DOMAIN r <=> i \in DOMAIN q \/ i = Len(q) + 1
    BY <2>2
  <2>4. KindsIn(r) = KindsIn(q) \cup {m.kind}
    BY <2>2, <2>3 DEF KindsIn
  <2> QED
    BY <2>1, <2>4
<1>3. ASSUME q # <<>> PROVE KindsIn(q) = {Head(q).kind} \cup KindsIn(Tail(q))
  <2>1. PICK r : r = Tail(q)
    OBVIOUS
  <2>2. /\ r \in Seq(Msg) /\ Head(q) = q[1] /\ 1 \in DOMAIN q
        /\ \A i \in DOMAIN r : i \in Nat /\ i + 1 \in DOMAIN q /\ r[i] = q[i + 1]
    BY <1>3, <2>1, TailPart
  <2>3. \A i \in DOMAIN q : i = 1 \/ (i - 1 \in DOMAIN r /\ r[i - 1] = q[i])
    <3>1. Len(q) \in Nat /\ DOMAIN q = 1..Len(q) /\ DOMAIN r = 1..(Len(q) - 1)
      BY <1>3, <2>1
    <3>2. ASSUME NEW i \in DOMAIN q, i # 1 PROVE i - 1 \in DOMAIN r /\ r[i - 1] = q[i]
      <4>1. i \in Nat /\ i - 1 \in DOMAIN r
        BY <3>1, <3>2
      <4>2. r[i - 1] = q[(i - 1) + 1]
        BY <2>2, <4>1
      <4> QED
        BY <4>1, <4>2
    <3> QED
      BY <3>2
  <2>4. KindsIn(q) \subseteq {Head(q).kind} \cup KindsIn(r)
    <3>1. ASSUME NEW i \in DOMAIN q PROVE q[i].kind \in {Head(q).kind} \cup KindsIn(r)
      BY <2>2, <2>3 DEF KindsIn
    <3> QED
      BY <3>1 DEF KindsIn
  <2>5. {Head(q).kind} \cup KindsIn(r) \subseteq KindsIn(q)
    <3>1. \A i \in DOMAIN r : r[i].kind \in KindsIn(q)
      BY <2>2 DEF KindsIn
    <3>2. Head(q).kind \in KindsIn(q)
      BY <2>2 DEF KindsIn
    <3> QED
      BY <3>1, <3>2 DEF KindsIn
  <2> QED
    BY <2>1, <2>4, <2>5
<1>4. ASSUME NEW k \in 0..Len(q) PROVE KindsIn(SubSeq(q, 1, k)) \subseteq KindsIn(q)
  BY PrefixPart DEF KindsIn
<1> QED
  BY <1>1, <1>2, <1>3, <1>4

LEMMA FlowDef == \A cs, n, c : InFlow(cs, n, c) = KindsIn(cs[c].q[n])
BY DEF InFlow, KindsIn

LEMMA PutFields ==
    ASSUME NEW cs, Sound(cs), NEW n \in Nodes, NEW o, o = Other(n), NEW S, NEW m \in Msg,
           NEW ds, ds = Put(cs, n, S, m)
    PROVE  /\ DOMAIN ds = DOMAIN cs
           /\ \A c \in DOMAIN cs :
                /\ Alike(cs[c], ds[c]) /\ ds[c].end = cs[c].end /\ ds[c].q[n] = cs[c].q[n]
                /\ ds[c].q[o] = IF c \in S /\ cs[c].end[o].rcv /\ ~cs[c].cut
                                THEN Append(cs[c].q[o], m) ELSE cs[c].q[o]
<1>1. o \in Nodes /\ o # n
  BY OtherOK
<1>2. ASSUME NEW c \in DOMAIN cs
      PROVE  /\ Alike(cs[c], ds[c]) /\ ds[c].end = cs[c].end /\ ds[c].q[n] = cs[c].q[n]
             /\ ds[c].q[o] = IF c \in S /\ cs[c].end[o].rcv /\ ~cs[c].cut
                             THEN Append(cs[c].q[o], m) ELSE cs[c].q[o]
  <2>1. cs[c] \in Conn /\ cs[c].q \in [Nodes -> Seq(Msg)]
    BY ConnFields
  <2>2. CASE c \in S /\ cs[c].end[o].rcv /\ ~cs[c].cut
    <3>1. ds[c] = [cs[c] EXCEPT !.q[o] = Append(@, m)]
      BY <2>2 DEF Put
    <3>2. ds[c] = [cs[c] EXCEPT !.q = [cs[c].q EXCEPT ![o] = Append(cs[c].q[o], m)]]
      BY <2>1, <3>1
    <3>3. ds[c].q = [cs[c].q EXCEPT ![o] = Append(cs[c].q[o], m)] /\ Alike(cs[c], ds[c])
          /\ ds[c].end = cs[c].end
      BY <2>1, <3>2 DEF Conn, Alike
    <3> QED
      BY <1>1, <2>1, <2>2, <3>3
  <2>3. CASE ~(c \in S /\ cs[c].end[o].rcv /\ ~cs[c].cut)
    <3>1. ds[c] = cs[c]
      BY <2>3 DEF Put
    <3> QED
      BY <2>3, <3>1 DEF Alike
  <2> QED
    BY <2>2, <2>3
<1> QED
  BY <1>2 DEF Put

LEMMA DropFields ==
    ASSUME NEW cs, Sound(cs), NEW n \in Nodes, NEW o, o = Other(n), NEW name,
           NEW ds \in drop_peer_stream(cs, n, name)
    PROVE  /\ DOMAIN ds = DOMAIN cs
           /\ \A c \in DOMAIN cs :
                /\ Alike(cs[c], ds[c]) /\ ds[c].end[o] = cs[c].end[o]
                /\ c \notin Registered(cs, n, name) => ds[c] = cs[c]
                /\ c \in Registered(cs, n, name) =>
                     ds[c].end[n] = Gone /\ ds[c].q[n] = <<>>
                /\ InFlow(ds, o, c) \subseteq InFlow(cs, o, c)
<1>0. o \in Nodes /\ o # n
  BY OtherOK
<1>1. PICK k \in Unsent(cs, n, name) : ds = DropWith(cs, n, name, k)
  BY DEF drop_peer_stream
<1>2. ASSUME NEW c \in DOMAIN cs
      PROVE  /\ Alike(cs[c], ds[c]) /\ ds[c].end[o] = cs[c].end[o]
             /\ c \notin Registered(cs, n, name) => ds[c] = cs[c]
             /\ c \in Registered(cs, n, name) => ds[c].end[n] = Gone /\ ds[c].q[n] = <<>>
             /\ InFlow(ds, o, c) \subseteq InFlow(cs, o, c)
  <2>0. cs[c] \in Conn /\ cs[c].q \in [Nodes -> Seq(Msg)] /\ cs[c].end \in [Nodes -> End]
    BY ConnFields
  <2>1. CASE c \notin Registered(cs, n, name)
    <3>1. ds[c] = cs[c]
      BY <1>1, <2>1 DEF DropWith
    <3> QED
      BY <2>1, <3>1 DEF InFlow, Alike
  <2>2. CASE c \in Registered(cs, n, name)
    <3>1. (CHOOSE x \in Registered(cs, n, name) : TRUE) = c
      BY <2>2, OneRegistered
    <3>2. k \in 0..Len(cs[c].q[o])
      BY <2>2, <3>1 DEF Unsent
    <3> DEFINE r == SubSeq(cs[c].q[o], 1, k)
               q == [[cs[c].q EXCEPT ![n] = <<>>] EXCEPT ![o] = r]
               e == [cs[c].end EXCEPT ![n] = Gone]
    <3>3. KindsIn(r) \subseteq KindsIn(cs[c].q[o])
      BY <1>0, <2>0, <3>2, KindsOK
    <3>4. ds[c] = [cs[c] EXCEPT !.end[n] = Gone, !.q[n] = <<>>, !.q[o] = SubSeq(@, 1, k)]
      BY <1>1, <2>2 DEF DropWith, Gone
    <3>5. ds[c] = [cs[c] EXCEPT !.end = e, !.q = q]
      BY <1>0, <2>0, <3>4 DEF Conn
    <3> HIDE DEF r
    <3>6. q[n] = <<>> /\ q[o] = r /\ e[n] = Gone /\ e[o] = cs[c].end[o]
      BY <1>0, <2>0
    <3> HIDE DEF q, e
    <3>7. Alike(cs[c], ds[c]) /\ ds[c].q = q /\ ds[c].end = e
      BY <2>0, <3>5 DEF Conn, Alike
    <3> QED
      BY <2>2, <3>3, <3>6, <3>7, FlowDef
  <2> QED
    BY <2>1, <2>2
<1> QED
  BY <1>1, <1>2 DEF DropWith

-----------------------------------------------------------------------------
(* What keeps the agreement.                                               *)

LEMMA FlowsOK ==
    ASSUME NEW cs, NEW ds, NEW n, NEW c
    PROVE  /\ ds[c].q[n] = cs[c].q[n] => InFlow(ds, n, c) = InFlow(cs, n, c)
           /\ ds[c].q[n] = <<>> => InFlow(ds, n, c) = {}
BY EmptyPart DEF InFlow

\* The same connection under the same pools and peers.
LEMMA SamePair ==
    ASSUME NEW cs, NEW pl, NEW pr, NEW n, NEW c, PairOK(cs, pl, pr, n, c), NEW ds, ds[c] = cs[c]
    PROVE  PairOK(ds, pl, pr, n, c)
BY DEF PairOK, EndOK, AnswerOK, DialOK, Carries, Due, InFlow

LEMMA HeldDrop ==
    ASSUME NEW cs, Sound(cs), NEW pl, NEW pr, Held(cs, pl, pr), NEW n \in Nodes, NEW name,
           NEW ds \in drop_peer_stream(cs, n, name)
    PROVE  Held(ds, pl, pr)
<1> DEFINE o == Other(n)
<1>1. o \in Nodes /\ o # n /\ Other(o) = n /\ \A v \in Nodes : v = n \/ v = o
  BY OtherOK
<1> HIDE DEF o
<1>2. /\ DOMAIN ds = DOMAIN cs
      /\ \A c \in DOMAIN cs :
           /\ Alike(cs[c], ds[c]) /\ ds[c].end[o] = cs[c].end[o]
           /\ c \notin Registered(cs, n, name) => ds[c] = cs[c]
           /\ c \in Registered(cs, n, name) => ds[c].end[n] = Gone /\ ds[c].q[n] = <<>>
           /\ InFlow(ds, o, c) \subseteq InFlow(cs, o, c)
  BY DropFields DEF o
<1>3. PeersOK(ds, pr) /\ TimesOK(ds)
  BY <1>2 DEF Held, PeersOK, TimesOK, Alike
<1>4. ASSUME NEW v \in Nodes, NEW c \in DOMAIN cs PROVE PairOK(ds, pl, pr, v, c)
  <2>0. PairOK(cs, pl, pr, v, c)
    BY DEF Held
  <2>1. CASE c \notin Registered(cs, n, name)
    BY <1>2, <2>0, <2>1, SamePair
  <2>2. CASE c \in Registered(cs, n, name) /\ v = n
    <3>1. /\ ds[c].from = cs[c].from /\ ~ds[c].end[n].reg /\ ~ds[c].end[n].rcv /\ ~ds[c].end[n].snd
          /\ InFlow(ds, n, c) = {}
      BY <1>2, <2>2, FlowsOK DEF Alike, Gone
    <3> QED
      BY <2>0, <2>2, <3>1 DEF PairOK, EndOK, AnswerOK, DialOK, Carries, Due
  <2>3. CASE c \in Registered(cs, n, name) /\ v = o
    <3>1. /\ ds[c].from = cs[c].from /\ ds[c].end[o] = cs[c].end[o] /\ ds[c].q[n] = <<>>
          /\ ~ds[c].end[n].snd /\ InFlow(ds, o, c) \subseteq InFlow(cs, o, c)
      BY <1>2, <2>3 DEF Alike, Gone
    <3> QED
      BY <1>1, <2>0, <2>3, <3>1 DEF PairOK, EndOK, AnswerOK, DialOK, Carries, Due
  <2> QED
    BY <1>1, <2>1, <2>2, <2>3
<1> QED
  BY <1>2, <1>3, <1>4 DEF Held

\* The first event of a node's pool is gone: what that changes about its connection.
Popped(pl, n, e) ==
    pool[n] # <<>> /\ pl = [pool EXCEPT ![n] = Tail(@)] /\ e = Head(pool[n])

\* pl lacks at most the kind k from connection d of node n.
Loses(pl, n, d, k) ==
    /\ \A v \in Nodes : \A c : InPool(pl, v, c) \subseteq InPool(pool, v, c)
    /\ \A v \in Nodes : \A c : v # n \/ c # d => InPool(pool, v, c) \subseteq InPool(pl, v, c)
    /\ \A j \in InPool(pool, n, d) : j \in InPool(pl, n, d) \/ j = k

LEMMA PoolKinds ==
    ASSUME Typed, NEW n \in Nodes, NEW pl, NEW e, Popped(pl, n, e)
    PROVE  /\ e \in Event /\ e.c \in DOMAIN conns
           /\ Loses(pl, n, e.c, e.m.kind)
           /\ e.m.kind \in InPool(pool, n, e.c)
<1>0. pool[n] # <<>> /\ pl = [pool EXCEPT ![n] = Tail(@)] /\ e = Head(pool[n])
  BY DEF Popped
<1>1. pool \in [Nodes -> Seq(Event)] /\ pool[n] \in Seq(Event)
  BY DEF Typed
<1>2. PICK t : t = Tail(pool[n])
  OBVIOUS
<1>3. /\ pl[n] = t /\ \A v \in Nodes : v # n => pl[v] = pool[v]
  BY <1>0, <1>1, <1>2
<1>4. /\ e \in Event /\ e = pool[n][1] /\ 1 \in DOMAIN pool[n]
      /\ \A i \in DOMAIN t : i \in Nat /\ i + 1 \in DOMAIN pool[n] /\ t[i] = pool[n][i + 1]
  BY <1>0, <1>1, <1>2, TailPart
<1>5. \A i \in DOMAIN pool[n] : i = 1 \/ (i - 1 \in DOMAIN t /\ t[i - 1] = pool[n][i])
  <2>1. Len(pool[n]) \in Nat /\ DOMAIN pool[n] = 1..Len(pool[n]) /\ DOMAIN t = 1..(Len(pool[n]) - 1)
    BY <1>0, <1>1, <1>2
  <2>2. ASSUME NEW i \in DOMAIN pool[n], i # 1 PROVE i - 1 \in DOMAIN t /\ t[i - 1] = pool[n][i]
    <3>1. i \in Nat /\ i - 1 \in DOMAIN t
      BY <2>1, <2>2
    <3>2. t[i - 1] = pool[n][(i - 1) + 1]
      BY <1>4, <3>1
    <3> QED
      BY <3>1, <3>2
  <2> QED
    BY <2>2
<1>6. ASSUME NEW c PROVE InPool(pl, n, c) \subseteq InPool(pool, n, c)
  <2>1. ASSUME NEW i \in DOMAIN t, t[i].c = c PROVE t[i].m.kind \in InPool(pool, n, c)
    BY <1>4, <2>1 DEF InPool
  <2> QED
    BY <1>3, <2>1 DEF InPool
<1>7. ASSUME NEW c
      PROVE  InPool(pool, n, c) \subseteq InPool(pl, n, c) \cup (IF c = e.c THEN {e.m.kind} ELSE {})
  <2>1. ASSUME NEW i \in DOMAIN pool[n], pool[n][i].c = c
        PROVE  pool[n][i].m.kind \in InPool(pl, n, c) \/ (c = e.c /\ pool[n][i].m.kind = e.m.kind)
    BY <1>3, <1>4, <1>5, <2>1 DEF InPool
  <2> QED
    BY <2>1 DEF InPool
<1>8. \A v \in Nodes : \A c : v # n => InPool(pl, v, c) = InPool(pool, v, c)
  BY <1>3 DEF InPool
<1>9. Loses(pl, n, e.c, e.m.kind)
  <2>1. \A v \in Nodes : \A c : InPool(pl, v, c) \subseteq InPool(pool, v, c)
    BY <1>6, <1>8
  <2>2. \A v \in Nodes : \A c : v # n \/ c # e.c => InPool(pool, v, c) \subseteq InPool(pl, v, c)
    BY <1>7, <1>8
  <2>3. \A j \in InPool(pool, n, e.c) : j \in InPool(pl, n, e.c) \/ j = e.m.kind
    BY <1>7
  <2> QED
    BY <2>1, <2>2, <2>3, Zenon DEF Loses
<1>10. e.m.kind \in InPool(pool, n, e.c)
  BY <1>4 DEF InPool
<1>11. e.c \in DOMAIN conns
  BY <1>4 DEF Typed
<1> QED
  BY <1>4, <1>9, <1>10, <1>11, Zenon

\* An event may go when what it was due for has been done.
Done(cs, pr, n, c, kind) ==
    /\ kind = "closed" => ~cs[c].end[n].reg
    /\ kind = "hello" /\ cs[c].from # n /\ cs[c].end[n].reg /\ Carries(cs, n, c) =>
         KeptAs(pr, n, c)
    /\ kind = "verack" /\ cs[c].from = n /\ KeptAs(pr, Other(n), c) /\ Carries(cs, n, c) =>
         pr[n] # Unknown /\ (cs[c].end[n].reg => pr[n].name = Dial)

LEMMA HeldPop ==
    ASSUME NEW n \in Nodes, NEW pl, NEW d, NEW k, Loses(pl, n, d, k),
           NEW cs, NEW pr, Held(cs, pool, pr), Done(cs, pr, n, d, k)
    PROVE  Held(cs, pl, pr)
<1>1. ASSUME NEW v \in Nodes, NEW c \in DOMAIN cs PROVE PairOK(cs, pl, pr, v, c)
  <2>0. PairOK(cs, pool, pr, v, c) /\ InPool(pl, v, c) \subseteq InPool(pool, v, c)
    BY DEF Held, Loses
  <2>1. CASE v # n \/ c # d
    <3>1. InPool(pl, v, c) = InPool(pool, v, c)
      BY <2>0, <2>1 DEF Loses
    <3> QED
      BY <2>0, <3>1 DEF PairOK, EndOK, AnswerOK, DialOK, Due
  <2>2. CASE v = n /\ c = d
    <3>1. \A j \in InPool(pool, n, c) : j \in InPool(pl, n, c) \/ j = k
      BY <2>2 DEF Loses
    <3>2. EndOK(cs, pl, n, c)
      BY <2>0, <2>2, <3>1 DEF PairOK, EndOK, Done
    <3>3. AnswerOK(cs, pl, pr, n, c)
      BY <2>0, <2>2, <3>1 DEF PairOK, AnswerOK, Due, Done
    <3>4. DialOK(cs, pl, pr, n, c)
      BY <2>0, <2>2, <3>1 DEF PairOK, DialOK, Due, Done
    <3> QED
      BY <2>2, <3>2, <3>3, <3>4 DEF PairOK
  <2> QED
    BY <2>1, <2>2
<1> QED
  BY <1>1 DEF Held

-----------------------------------------------------------------------------
(* A handshake.                                                            *)

\* The connections ds after n answered on c and dropped the ones in G.
Took(ds, n, c, G) ==
    /\ DOMAIN ds = DOMAIN conns
    /\ \A d \in DOMAIN conns :
         /\ Alike(conns[d], ds[d]) /\ ds[d].end[Other(n)] = conns[d].end[Other(n)]
         /\ d \notin G /\ d # c => ds[d] = conns[d]
         /\ d \notin G => /\ ds[d].end[n] = conns[d].end[n] /\ ds[d].q[n] = conns[d].q[n]
                          /\ InFlow(conns, Other(n), d) \subseteq InFlow(ds, Other(n), d)
         /\ d \in G => ds[d].end[n] = Gone /\ ds[d].q[n] = <<>>
         /\ \A k \in InFlow(ds, Other(n), d) :
              k \in InFlow(conns, Other(n), d) \/ (k = "verack" /\ d = c /\ conns[c].from # n)

\* The end that n keeps for its peer.
KeptEnd(d, n) == peer[n] # Unknown /\ Name(d, n) = peer[n].name

KeptGoes(n, G) == \A d \in DOMAIN conns : KeptEnd(d, n) /\ conns[d].end[n].reg => d \in G

\* The end that accepted c has written the Verack if it is not dropped.
VerackSent(ds, n, c, G) ==
    conns[c].from # n /\ c \notin G /\ conns[c].end[Other(n)].rcv /\ ~conns[c].cut =>
      "verack" \in InFlow(ds, Other(n), c)

TakenOn(pr, n, c) == pr = [peer EXCEPT ![n] = [ts |-> conns[c].ts, name |-> Name(c, n)]]

\* The peer is taken on the end of n of connection c, and the end it was kept on is dropped.
LEMMA NewPeer ==
    ASSUME Sound(conns), Held(conns, pool, peer), NEW n \in Nodes, NEW c \in DOMAIN conns,
           NEW ds, NEW G, Took(ds, n, c, G), KeptGoes(n, G), VerackSent(ds, n, c, G),
           NEW pr, TakenOn(pr, n, c)
    PROVE  Held(ds, pool, pr) /\ pr[n] # Unknown /\ pr[n].name = Name(c, n)
<1> DEFINE o == Other(n)
<1>1. o \in Nodes /\ o # n /\ Other(o) = n /\ \A v \in Nodes : v = n \/ v = o
  BY OtherOK
<1> HIDE DEF o
<1> DEFINE name == Name(c, n)
<1>2. peer \in [Nodes -> [ts : Nat, name : Nat]] /\ c \in Nat /\ c # Dial /\ Dial \in Nat
      /\ conns[c].ts \in Nat /\ conns[c].ts # 0 /\ conns[c].from \in Nodes
  <2>1. conns[c] \in Conn /\ c \in Nat /\ c # Dial
    BY ConnFields
  <2> QED
    BY <2>1 DEF Held, PeersOK, TimesOK, Conn, Dial
<1>3. name \in Nat /\ (conns[c].from = n => name = Dial) /\ (conns[c].from # n => name = c)
  BY <1>2 DEF Name
<1> HIDE DEF name
<1>4. /\ pr \in [Nodes -> [ts : Nat, name : Nat]] /\ pr[o] = peer[o]
      /\ pr[n].name = name /\ pr[n] # Unknown
  BY <1>1, <1>2, <1>3 DEF Unknown, TakenOn, name
<1>5. /\ DOMAIN ds = DOMAIN conns
      /\ \A d \in DOMAIN conns :
           /\ ds[d].from = conns[d].from /\ ds[d].ts = conns[d].ts /\ ds[d].cut = conns[d].cut
           /\ ds[d].end[o] = conns[d].end[o]
           /\ d \notin G /\ d # c => ds[d] = conns[d]
           /\ d \notin G => /\ ds[d].end[n] = conns[d].end[n] /\ ds[d].q[n] = conns[d].q[n]
                            /\ InFlow(conns, o, d) \subseteq InFlow(ds, o, d)
           /\ d \in G => ds[d].end[n] = Gone /\ ds[d].q[n] = <<>>
           /\ \A k \in InFlow(ds, o, d) :
                k \in InFlow(conns, o, d) \/ (k = "verack" /\ d = c /\ conns[c].from # n)
  BY DEF Took, Alike, o
<1>6. PeersOK(ds, pr) /\ TimesOK(ds)
  <2>1. \A v \in Nodes : pr[v].name # Dial => pr[v].name \in DOMAIN conns /\ conns[pr[v].name].from # v
    BY <1>1, <1>2, <1>3, <1>4 DEF Held, PeersOK
  <2>2. \A v \in Nodes : pr[v].name # Dial => pr[v].name \in DOMAIN ds /\ ds[pr[v].name].from # v
    BY <1>5, <2>1
  <2>3. TimesOK(ds)
    BY <1>5 DEF Held, TimesOK
  <2> QED
    BY <1>4, <2>2, <2>3 DEF PeersOK
<1>7. ASSUME NEW d \in DOMAIN conns PROVE PairOK(ds, pool, pr, n, d)
  <2>0. PairOK(conns, pool, peer, n, d) /\ d # Dial /\ d \in Nat
    BY ConnFields DEF Held
  <2>1. InFlow(ds, n, d) \subseteq InFlow(conns, n, d)
    BY <1>5, FlowsOK
  <2>2. EndOK(ds, pool, n, d)
    BY <1>5, <2>0 DEF PairOK, EndOK, Gone
  <2>3. AnswerOK(ds, pool, pr, n, d)
    <3>1. ~Due(conns, pool, "verack", n, d) => ~Due(ds, pool, "verack", n, d)
      BY <2>1 DEF Due
    <3>2. CASE d \in G
      <4>1. ~ds[d].end[n].reg
        BY <1>5, <3>2 DEF Gone
      <4> QED
        BY <1>5, <2>0, <3>1, <4>1 DEF PairOK, AnswerOK
    <3>3. CASE d = c /\ d \notin G
      BY <1>3, <1>4, <1>5, <2>0, <3>1, <3>3 DEF PairOK, AnswerOK, KeptAs
    <3>4. CASE d # c /\ d \notin G
      <4>1. SUFFICES ASSUME conns[d].from # n PROVE AnswerOK(ds, pool, pr, n, d)
        BY <1>5 DEF AnswerOK
      <4>2. ds[d] = conns[d] /\ ~KeptAs(pr, n, d)
        BY <1>3, <1>4, <1>5, <2>0, <3>4 DEF KeptAs
      <4>3. KeptAs(peer, n, d) => ~conns[d].end[n].reg
        BY <3>4, <4>1 DEF KeptAs, KeptEnd, KeptGoes, Name
      <4>4. Due(ds, pool, "hello", n, d) = Due(conns, pool, "hello", n, d)
            /\ Carries(ds, n, d) = Carries(conns, n, d)
        BY <4>2 DEF Due, InFlow, Carries
      <4> QED
        BY <2>0, <3>1, <4>1, <4>2, <4>3, <4>4 DEF PairOK, AnswerOK
    <3> QED
      BY <3>2, <3>3, <3>4
  <2>4. DialOK(ds, pool, pr, n, d)
    <3>0. SUFFICES ASSUME conns[d].from = n PROVE DialOK(ds, pool, pr, n, d)
      BY <1>5 DEF DialOK
    <3>1. ~Due(ds, pool, "hello", n, d)
      BY <2>0, <2>1, <3>0 DEF PairOK, DialOK, Due
    <3>2. CASE d \in G
      <4>1. ~Carries(ds, n, d)
        BY <1>5, <3>2 DEF Carries, Gone
      <4> QED
        BY <3>1, <4>1 DEF DialOK
    <3>3. CASE d \notin G
      <4>1. /\ ds[d].end[n] = conns[d].end[n] /\ InFlow(ds, n, d) = InFlow(conns, n, d)
            /\ Carries(ds, n, d) = Carries(conns, n, d)
            /\ KeptAs(pr, o, d) = KeptAs(peer, o, d)
        BY <1>4, <1>5, <3>3, FlowsOK DEF Carries, KeptAs, o
      <4>2. conns[d].end[n].reg /\ peer[n] # Unknown => peer[n].name # Dial
        BY <3>0, <3>3 DEF KeptEnd, KeptGoes, Name
      <4>3. KeptAs(pr, o, d) /\ Carries(ds, n, d) =>
              Due(ds, pool, "verack", n, d) \/ (peer[n] # Unknown /\ ~conns[d].end[n].reg)
        BY <2>0, <3>0, <4>1, <4>2 DEF PairOK, DialOK, Due, o
      <4> QED
        BY <1>4, <3>1, <4>1, <4>3 DEF DialOK, o
    <3> QED
      BY <3>2, <3>3
  <2> QED
    BY <2>2, <2>3, <2>4 DEF PairOK
<1>8. ASSUME NEW d \in DOMAIN conns PROVE PairOK(ds, pool, pr, o, d)
  <2>0. PairOK(conns, pool, peer, o, d) /\ conns[d].from \in Nodes /\ d # Dial
    BY <1>1, ConnFields DEF Held
  <2>1. EndOK(ds, pool, o, d)
    BY <1>5, <2>0 DEF PairOK, EndOK
  <2>2. AnswerOK(ds, pool, pr, o, d)
    <3>0. SUFFICES ASSUME conns[d].from = n PROVE AnswerOK(ds, pool, pr, o, d)
      BY <1>1, <1>5, <2>0 DEF AnswerOK
    <3>1. InFlow(ds, o, d) \subseteq InFlow(conns, o, d)
      BY <1>5, <3>0
    <3>2. /\ KeptAs(pr, o, d) = KeptAs(peer, o, d)
          /\ ds[d].q[n] = conns[d].q[n] \/ ds[d].q[n] = <<>>
          /\ Carries(ds, o, d) => /\ Carries(conns, o, d)
                                  /\ InFlow(ds, o, d) = InFlow(conns, o, d)
      <4>1. KeptAs(pr, o, d) = KeptAs(peer, o, d)
        BY <1>4 DEF KeptAs
      <4>2. ds[d].q[n] = conns[d].q[n] \/ ds[d].q[n] = <<>>
        BY <1>5
      <4>3. ASSUME Carries(ds, o, d)
            PROVE  Carries(conns, o, d) /\ InFlow(ds, o, d) = InFlow(conns, o, d)
        <5>1. ds[d].end[n].snd /\ ds[d].end[o].rcv /\ ~ds[d].cut
          BY <1>1, <4>3 DEF Carries
        <5>2. d \notin G
          BY <1>5, <5>1 DEF Gone
        <5>3. conns[d].end[n].snd /\ conns[d].end[o].rcv /\ ~conns[d].cut
              /\ InFlow(conns, o, d) \subseteq InFlow(ds, o, d)
          BY <1>5, <5>1, <5>2
        <5> QED
          BY <1>1, <3>1, <5>3 DEF Carries
      <4> QED
        BY <4>1, <4>2, <4>3
    <3> QED
      BY <1>1, <1>5, <2>0, <3>0, <3>1, <3>2 DEF PairOK, AnswerOK, Due
  <2>3. DialOK(ds, pool, pr, o, d)
    <3>0. SUFFICES ASSUME conns[d].from = o PROVE DialOK(ds, pool, pr, o, d)
      BY <1>5 DEF DialOK
    <3>1. ~Due(ds, pool, "hello", o, d)
      BY <1>5, <2>0, <3>0 DEF PairOK, DialOK, Due
    <3>2. KeptAs(pr, n, d) /\ Carries(ds, o, d) => Due(ds, pool, "verack", o, d)
      <4>1. ASSUME KeptAs(pr, n, d), Carries(ds, o, d) PROVE Due(ds, pool, "verack", o, d)
        <5>1. d = c /\ conns[c].from # n
          BY <1>1, <1>3, <1>4, <2>0, <3>0, <4>1 DEF KeptAs
        <5>2. ds[c].end[n].snd /\ ds[c].end[o].rcv /\ ~ds[c].cut
          BY <1>1, <4>1, <5>1 DEF Carries
        <5>3. c \notin G /\ conns[c].end[o].rcv /\ ~conns[c].cut
          BY <1>5, <5>2 DEF Gone
        <5> QED
          BY <5>1, <5>3 DEF Due, VerackSent, o
      <4> QED
        BY <4>1
    <3> QED
      BY <1>1, <3>1, <3>2 DEF DialOK
  <2> QED
    BY <2>1, <2>2, <2>3 DEF PairOK
<1>9. \A v \in Nodes : \A d \in DOMAIN ds : PairOK(ds, pool, pr, v, d)
  BY <1>1, <1>5, <1>7, <1>8
<1> QED
  BY <1>4, <1>6, <1>9 DEF Held, name

\* n has written a Verack on the stream c, if it was dialled there.
Answered(ps, n, c) ==
    /\ Sound(ps) /\ DOMAIN ps = DOMAIN conns
    /\ \A d \in DOMAIN conns :
         /\ Alike(conns[d], ps[d]) /\ ps[d].end = conns[d].end /\ ps[d].q[n] = conns[d].q[n]
         /\ d # c => ps[d] = conns[d]
         /\ InFlow(conns, Other(n), d) \subseteq InFlow(ps, Other(n), d)
         /\ \A k \in InFlow(ps, Other(n), d) :
              k \in InFlow(conns, Other(n), d) \/ (k = "verack" /\ d = c /\ conns[c].from # n)

LEMMA NotAnswered ==
    ASSUME Sound(conns), NEW n \in Nodes, NEW c
    PROVE  Answered(conns, n, c)
BY DEF Answered, Alike

LEMMA VerackPut ==
    ASSUME Sound(conns), NEW n \in Nodes, NEW c \in DOMAIN conns, conns[c].from # n,
           NEW line, line = Writable(conns, n, c), line # {},
           NEW ps, ps = Put(conns, n, line, [kind |-> "verack"])
    PROVE  /\ Answered(ps, n, c) /\ conns[c].end[n].reg
           /\ conns[c].end[Other(n)].rcv /\ ~conns[c].cut => "verack" \in InFlow(ps, Other(n), c)
<1> DEFINE o == Other(n)
           m == [kind |-> "verack"]
<1>0. o \in Nodes /\ o # n /\ m \in Msg /\ m.kind = "verack"
  BY OtherOK DEF Msg
<1>1. \A d \in line : d = c /\ conns[c].end[n].reg
  <2>1. ASSUME NEW d \in line PROVE d = c /\ conns[d].end[n].reg
    <3>1. d \in Registered(conns, n, c)
      BY <2>1 DEF Writable
    <3>2. d \in DOMAIN conns /\ conns[d].end[n].reg /\ (d = c \/ c = Dial)
      BY <3>1 DEF Registered
    <3> QED
      BY <3>2, ConnFields
  <2> QED
    BY <2>1
<1>2. c \in line /\ conns[c].end[n].reg
  BY <1>1
<1> HIDE DEF m, o
<1>3. /\ DOMAIN ps = DOMAIN conns
      /\ \A d \in DOMAIN conns :
           /\ Alike(conns[d], ps[d]) /\ ps[d].end = conns[d].end /\ ps[d].q[n] = conns[d].q[n]
           /\ ps[d].q[o] = IF d \in line /\ conns[d].end[o].rcv /\ ~conns[d].cut
                           THEN Append(conns[d].q[o], m) ELSE conns[d].q[o]
  BY <1>0, PutFields DEF o, m
<1>4. Sound(ps)
  BY <1>0, PutType DEF Wrote, m
<1>5. \A d \in DOMAIN conns : d # c => ps[d] = conns[d]
  BY <1>1 DEF Put
<1>6. \A d \in DOMAIN conns : conns[d].q[o] \in Seq(Msg)
  BY <1>0, ConnFields
<1>7. KindsIn(Append(conns[c].q[o], m)) = KindsIn(conns[c].q[o]) \cup {"verack"}
  BY <1>0, <1>6, KindsOK
<1>8. IF conns[c].end[o].rcv /\ ~conns[c].cut
      THEN KindsIn(ps[c].q[o]) = KindsIn(conns[c].q[o]) \cup {"verack"}
      ELSE KindsIn(ps[c].q[o]) = KindsIn(conns[c].q[o])
  BY <1>2, <1>3, <1>7
<1>9. \A d \in DOMAIN conns : d # c => KindsIn(ps[d].q[o]) = KindsIn(conns[d].q[o])
  BY <1>5
<1>10. ASSUME NEW d \in DOMAIN conns
       PROVE  /\ InFlow(conns, o, d) \subseteq InFlow(ps, o, d)
              /\ \A k \in InFlow(ps, o, d) :
                   k \in InFlow(conns, o, d) \/ (k = "verack" /\ d = c /\ conns[c].from # n)
  <2>1. InFlow(ps, o, d) = KindsIn(ps[d].q[o]) /\ InFlow(conns, o, d) = KindsIn(conns[d].q[o])
    BY FlowDef
  <2>2. CASE d = c
    BY <1>8, <2>1, <2>2
  <2>3. CASE d # c
    BY <1>9, <2>1, <2>3
  <2> QED
    BY <2>2, <2>3
<1>11. Answered(ps, n, c)
  BY <1>3, <1>4, <1>5, <1>10 DEF Answered, o
<1>12. conns[c].end[o].rcv /\ ~conns[c].cut => "verack" \in InFlow(ps, o, c)
  BY <1>8, FlowDef
<1> QED
  BY <1>2, <1>11, <1>12 DEF o

LEMMA RegisteredAs ==
    ASSUME NEW n, NEW name, NEW ps, DOMAIN ps = DOMAIN conns,
           \A d \in DOMAIN conns : ps[d].from = conns[d].from /\ ps[d].end = conns[d].end
    PROVE  /\ Registered(ps, n, name) = Registered(conns, n, name)
           /\ \A d \in DOMAIN conns :
                d \in Registered(conns, n, name) <=> conns[d].end[n].reg /\ Name(d, n) = name
BY DEF Registered, Name

LEMMA TookDrop ==
    ASSUME Sound(conns), NEW n \in Nodes, NEW c, NEW ps, Answered(ps, n, c), NEW name,
           NEW ds \in drop_peer_stream(ps, n, name)
    PROVE  Took(ds, n, c, Registered(conns, n, name))
<1> DEFINE o == Other(n)
           G == Registered(conns, n, name)
<1>1. Registered(ps, n, name) = G
  BY RegisteredAs DEF Answered, Alike
<1> HIDE DEF o, G
<1>2. /\ DOMAIN ds = DOMAIN ps
      /\ \A d \in DOMAIN ps :
           /\ Alike(ps[d], ds[d]) /\ ds[d].end[o] = ps[d].end[o]
           /\ d \notin G => ds[d] = ps[d]
           /\ d \in G => ds[d].end[n] = Gone /\ ds[d].q[n] = <<>>
           /\ InFlow(ds, o, d) \subseteq InFlow(ps, o, d)
  BY <1>1, DropFields DEF o, Answered
<1>3. ASSUME NEW d \in DOMAIN conns
      PROVE  /\ Alike(conns[d], ds[d]) /\ ds[d].end[o] = conns[d].end[o]
             /\ d \notin G /\ d # c => ds[d] = conns[d]
             /\ d \notin G => /\ ds[d].end[n] = conns[d].end[n] /\ ds[d].q[n] = conns[d].q[n]
                              /\ InFlow(conns, o, d) \subseteq InFlow(ds, o, d)
             /\ d \in G => ds[d].end[n] = Gone /\ ds[d].q[n] = <<>>
             /\ \A k \in InFlow(ds, o, d) :
                  k \in InFlow(conns, o, d) \/ (k = "verack" /\ d = c /\ conns[c].from # n)
  <2>1. /\ Alike(conns[d], ps[d]) /\ ps[d].end = conns[d].end /\ ps[d].q[n] = conns[d].q[n]
        /\ d # c => ps[d] = conns[d]
        /\ InFlow(conns, o, d) \subseteq InFlow(ps, o, d)
        /\ \A k \in InFlow(ps, o, d) :
             k \in InFlow(conns, o, d) \/ (k = "verack" /\ d = c /\ conns[c].from # n)
        /\ d \in DOMAIN ps
    BY DEF Answered, o
  <2>2. Alike(conns[d], ds[d]) /\ ds[d].end[o] = conns[d].end[o]
    BY <1>2, <2>1 DEF Alike
  <2>3. d \notin G => InFlow(ds, o, d) = InFlow(ps, o, d)
    BY <1>2, <2>1 DEF InFlow
  <2> QED
    BY <1>2, <2>1, <2>2, <2>3
<1> QED
  <2>1. DOMAIN ds = DOMAIN conns
    BY <1>2 DEF Answered
  <2> QED
    BY <1>3, <2>1 DEF Took, o, G

LEMMA TookNone ==
    ASSUME NEW n \in Nodes, NEW c, NEW ps, Answered(ps, n, c)
    PROVE  Took(ps, n, c, {})
BY DEF Answered, Took

\* The stream on which the Hello came is not kept: it is dropped, the Verack perhaps sent.
LEMMA Refused ==
    ASSUME Sound(conns), Held(conns, pool, peer), NEW n \in Nodes, NEW c \in DOMAIN conns,
           conns[c].from # n, NEW ds, Took(ds, n, c, {c})
    PROVE  Held(ds, pool, peer)
<1> DEFINE o == Other(n)
<1>1. o \in Nodes /\ o # n /\ Other(o) = n /\ conns[c].from = o /\ \A v \in Nodes : v = n \/ v = o
  <2>1. conns[c].from \in Nodes
    BY ConnFields
  <2> QED
    BY <2>1, OtherOK
<1> HIDE DEF o
<1>2. /\ DOMAIN ds = DOMAIN conns
      /\ \A d \in DOMAIN conns : Alike(conns[d], ds[d]) /\ (d # c => ds[d] = conns[d])
      /\ ds[c].end[o] = conns[c].end[o] /\ ds[c].end[n] = Gone /\ ds[c].q[n] = <<>>
      /\ \A k \in InFlow(ds, o, c) : k \in InFlow(conns, o, c) \/ k = "verack"
  BY DEF Took, o
<1>3. PeersOK(ds, peer) /\ TimesOK(ds)
  BY <1>2 DEF Held, PeersOK, TimesOK, Alike
<1>4. ASSUME NEW v \in Nodes, NEW d \in DOMAIN conns PROVE PairOK(ds, pool, peer, v, d)
  <2>0. PairOK(conns, pool, peer, v, d)
    BY DEF Held
  <2>1. CASE d # c
    BY <1>2, <2>0, <2>1, SamePair
  <2>2. CASE d = c /\ v = n
    <3>1. /\ ds[c].from = conns[c].from /\ ~ds[c].end[n].reg /\ ~ds[c].end[n].rcv
          /\ ~ds[c].end[n].snd /\ InFlow(ds, n, c) = {}
      BY <1>2, FlowsOK DEF Alike, Gone
    <3> QED
      BY <2>0, <2>2, <3>1 DEF PairOK, EndOK, AnswerOK, DialOK, Carries, Due
  <2>3. CASE d = c /\ v = o
    <3>1. ds[c].from = conns[c].from /\ ~Carries(ds, o, c)
      BY <1>1, <1>2 DEF Alike, Gone, Carries
    <3>2. EndOK(ds, pool, o, c)
      BY <1>2, <2>0, <2>3, <3>1 DEF PairOK, EndOK
    <3>3. ~Due(ds, pool, "hello", o, c)
      BY <1>1, <1>2, <2>0, <2>3 DEF PairOK, DialOK, Due
    <3> QED
      BY <1>1, <2>3, <3>1, <3>2, <3>3 DEF PairOK, AnswerOK, DialOK
  <2> QED
    BY <1>1, <2>1, <2>2, <2>3
<1> QED
  BY <1>2, <1>3, <1>4 DEF Held

\* handle_peer_update after the answer.
LEMMA UpdateHeld ==
    ASSUME Sound(conns), Held(conns, pool, peer), NEW n \in Nodes, NEW c \in DOMAIN conns,
           NEW ps, Answered(ps, n, c),
           conns[c].from # n => conns[c].end[n].reg,
           conns[c].from # n /\ conns[c].end[Other(n)].rcv /\ ~conns[c].cut =>
             "verack" \in InFlow(ps, Other(n), c),
           conns[c].from = n => ps = conns,
           handle_peer_update(n, ps, conns[c].ts, Name(c, n))
    PROVE  /\ Held(conns', pool, peer')
           /\ peer'[n] # Unknown
           /\ peer'[n].name = Name(c, n) \/ (c \in DOMAIN conns' /\ ~conns'[c].end[n].reg)
           /\ DOMAIN conns' = DOMAIN conns /\ conns'[c].from = conns[c].from
<1> DEFINE o == Other(n)
           name == Name(c, n)
           pr == [peer EXCEPT ![n] = [ts |-> conns[c].ts, name |-> name]]
<1>1. PICK switch \in BOOLEAN :
        /\ peer' = IF Known(n) /\ ~switch THEN peer ELSE pr
        /\ IF Known(n) THEN conns' \in drop_peer_stream(ps, n, IF switch THEN peer[n].name ELSE name)
                       ELSE conns' = ps
  BY DEF handle_peer_update
<1>2. /\ conns[c].from \in Nodes /\ c # Dial
      /\ (conns[c].from = n => name = Dial) /\ (conns[c].from # n => name = c)
  BY ConnFields DEF Name
<1>3. CASE ~Known(n)
  <2>1. Took(conns', n, c, {}) /\ peer' = pr
    BY <1>1, <1>3, TookNone
  <2>2. KeptGoes(n, {}) /\ TakenOn(pr, n, c)
    BY <1>3 DEF Known, KeptEnd, KeptGoes, TakenOn
  <2>3. VerackSent(conns', n, c, {})
    BY <1>1, <1>3 DEF VerackSent
  <2> HIDE DEF pr
  <2>4. Held(conns', pool, pr) /\ pr[n] # Unknown /\ pr[n].name = name
    BY <2>1, <2>2, <2>3, NewPeer
  <2> QED
    BY <2>1, <2>4 DEF Took, Alike
<1>4. CASE Known(n) /\ switch
  <2> DEFINE G == Registered(conns, n, peer[n].name)
  <2>1. Took(conns', n, c, G) /\ peer' = pr /\ conns' \in drop_peer_stream(ps, n, peer[n].name)
    BY <1>1, <1>4, TookDrop
  <2>2. KeptGoes(n, G) /\ TakenOn(pr, n, c)
    BY DEF KeptGoes, KeptEnd, Registered, Name, TakenOn
  <2>3. ASSUME conns[c].from # n, c \notin G, conns[c].end[o].rcv, ~conns[c].cut
        PROVE  "verack" \in InFlow(conns', o, c)
    <3>1. Registered(ps, n, peer[n].name) = G /\ DOMAIN ps = DOMAIN conns /\ Sound(ps)
      BY RegisteredAs DEF Answered, Alike
    <3>2. conns'[c] = ps[c]
      BY <2>1, <2>3, <3>1, DropFields
    <3>3. InFlow(conns', o, c) = InFlow(ps, o, c)
      BY <3>2 DEF InFlow
    <3> QED
      BY <2>3, <3>3
  <2> HIDE DEF G, pr
  <2>4. VerackSent(conns', n, c, G)
    BY <2>3 DEF VerackSent
  <2>5. Held(conns', pool, pr) /\ pr[n] # Unknown /\ pr[n].name = name
    BY <2>1, <2>2, <2>4, NewPeer
  <2> QED
    BY <2>1, <2>5 DEF Took, Alike
<1>5. CASE Known(n) /\ ~switch
  <2> DEFINE G == Registered(conns, n, name)
  <2>1. Took(conns', n, c, G) /\ peer' = peer /\ conns' \in drop_peer_stream(ps, n, name)
    BY <1>1, <1>5, TookDrop
  <2>2. Held(conns', pool, peer)
    <3>1. CASE conns[c].from = n
      BY <2>1, <3>1, HeldDrop
    <3>2. CASE conns[c].from # n
      <4>1. G \subseteq {c} /\ c \in G
        <5>1. \A d \in G : d \in DOMAIN conns /\ (d = c \/ c = Dial)
          BY <1>2, <3>2 DEF Registered
        <5>2. c \in G
          BY <1>2, <3>2 DEF Registered
        <5> QED
          BY <1>2, <5>1, <5>2
      <4>2. G = {c}
        BY <4>1
      <4> QED
        BY <2>1, <3>2, <4>2, Refused
    <3> QED
      BY <3>1, <3>2
  <2>3. ~conns'[c].end[n].reg
    <3>1. CASE c \in G
      BY <2>1, <3>1 DEF Took, Gone
    <3>2. CASE c \notin G
      <4>1. ~conns[c].end[n].reg
        BY <3>2 DEF Registered, Name
      <4> QED
        BY <2>1, <3>2, <4>1 DEF Took
    <3> QED
      BY <3>1, <3>2
  <2> QED
    BY <1>5, <2>1, <2>2, <2>3 DEF Took, Alike, Known
<1> QED
  BY <1>1, <1>3, <1>4, <1>5

LEMMA HandshakeHeld ==
    ASSUME Sound(conns), Held(conns, pool, peer), NEW n \in Nodes, NEW c \in DOMAIN conns, NEW m,
           m.kind \in {"hello", "verack"}, m.kind \in InPool(pool, n, c), handle_handshake(n, c, m)
    PROVE  Held(conns', pool, peer') /\ Done(conns', peer', n, c, m.kind)
<1>0. PairOK(conns, pool, peer, n, c) /\ conns[c].from \in Nodes /\ c # Dial
  BY ConnFields DEF Held
<1>1. IF m.kind = "hello" THEN conns[c].from # n ELSE conns[c].from = n
  BY <1>0 DEF PairOK, AnswerOK, DialOK, Due
<1>2. PICK line : line = Writable(conns, n, Name(c, n))
  OBVIOUS
<1>3. CASE m.kind = "hello" /\ line = {}
  <2>1. conns' = conns /\ peer' = peer
    BY <1>2, <1>3 DEF handle_handshake
  <2>2. Name(c, n) = c /\ c \notin line
    BY <1>1, <1>3 DEF Name
  <2>3. ~(conns[c].end[n].reg /\ conns[c].end[n].snd)
    BY <1>2, <2>2 DEF Writable, Registered, Name
  <2>4. conns[c].end[n].reg => KeptAs(peer, n, c)
    BY <1>0, <1>1, <1>3, <2>3 DEF PairOK, AnswerOK
  <2> QED
    BY <1>3, <2>1, <2>4 DEF Done
<1>4. CASE ~(m.kind = "hello" /\ line = {})
  <2> DEFINE ps == IF m.kind = "hello" THEN Put(conns, n, line, [kind |-> "verack"]) ELSE conns
  <2>1. handle_peer_update(n, ps, conns[c].ts, Name(c, n))
    BY <1>2, <1>4 DEF handle_handshake
  <2>2. Name(c, n) = IF conns[c].from = n THEN Dial ELSE c
    BY DEF Name
  <2>3. /\ Answered(ps, n, c)
        /\ conns[c].from # n => conns[c].end[n].reg
        /\ conns[c].from # n /\ conns[c].end[Other(n)].rcv /\ ~conns[c].cut =>
             "verack" \in InFlow(ps, Other(n), c)
        /\ conns[c].from = n => ps = conns
    <3>1. CASE m.kind = "hello"
      <4>1. line = Writable(conns, n, c) /\ conns[c].from # n
        BY <1>1, <1>2, <2>2, <3>1
      <4>2. ps = Put(conns, n, line, [kind |-> "verack"])
        BY <3>1
      <4> HIDE DEF ps
      <4> QED
        BY <1>4, <3>1, <4>1, <4>2, VerackPut
    <3>2. CASE m.kind = "verack"
      <4>1. ps = conns /\ conns[c].from = n
        BY <1>1, <3>2
      <4> HIDE DEF ps
      <4> QED
        BY <4>1, NotAnswered
    <3> QED
      BY <3>1, <3>2
  <2> HIDE DEF ps
  <2>4. /\ Held(conns', pool, peer')
        /\ peer'[n] # Unknown
        /\ peer'[n].name = Name(c, n) \/ (c \in DOMAIN conns' /\ ~conns'[c].end[n].reg)
        /\ DOMAIN conns' = DOMAIN conns /\ conns'[c].from = conns[c].from
    BY <2>1, <2>3, UpdateHeld
  <2>5. Done(conns', peer', n, c, m.kind)
    BY <1>1, <2>2, <2>4 DEF Done, KeptAs
  <2> QED
    BY <2>4, <2>5
<1> QED
  BY <1>3, <1>4

\* A message that is passed on.
LEMMA PassedHeld ==
    ASSUME Sound(conns), NEW pl, NEW pr, Held(conns, pl, pr), NEW d \in DOMAIN conns, NEW l,
           NEW ds, ds = [conns EXCEPT ![d].last = l]
    PROVE  Held(ds, pl, pr)
<1>1. DOMAIN ds = DOMAIN conns
  OBVIOUS
<1>2. ASSUME NEW c \in DOMAIN conns
      PROVE  Alike(conns[c], ds[c]) /\ ds[c].end = conns[c].end /\ ds[c].q = conns[c].q
  <2>1. conns[c] \in Conn
    BY DEF Sound
  <2>2. ds[c] = IF c = d THEN [conns[c] EXCEPT !.last = l] ELSE conns[c]
    OBVIOUS
  <2> QED
    BY <2>1, <2>2 DEF Conn, Alike
<1>3. PeersOK(ds, pr) /\ TimesOK(ds)
  BY <1>1, <1>2 DEF Held, PeersOK, TimesOK, Alike
<1>4. ASSUME NEW v \in Nodes, NEW c \in DOMAIN conns PROVE PairOK(ds, pl, pr, v, c)
  BY <1>2 DEF Held, PairOK, EndOK, AnswerOK, DialOK, Carries, Due, InFlow, Alike
<1> QED
  BY <1>1, <1>3, <1>4 DEF Held

LEMMA TcpEventHeld ==
    ASSUME Typed, Held(conns, pool, peer), NEW n \in Nodes, handle_p2p_tcp_event(n)
    PROVE  Held(conns', pool', peer')
<1> DEFINE e == Head(pool[n])
           c == e.c
           m == e.m
<1>0. Sound(conns)
  BY DEF Typed
<1>1. Popped(pool', n, e)
  BY DEF handle_p2p_tcp_event, Popped
<1>2. e \in Event /\ c \in DOMAIN conns /\ Loses(pool', n, c, m.kind) /\ m.kind \in InPool(pool, n, c)
  BY <1>1, PoolKinds
<1>3. \/ m.kind \in {"hello", "verack"} /\ handle_handshake(n, c, m)
      \/ m.kind = "closed" /\ handle_closed_event(n, Name(c, n))
      \/ /\ m.kind = "data"
         /\ conns' = [conns EXCEPT ![c].last[n] = m.k]
         /\ UNCHANGED <<peer, connecting, tasks>>
  BY DEF handle_p2p_tcp_event
<1> HIDE DEF e
<1>4. Held(conns', pool, peer') /\ Done(conns', peer', n, c, m.kind)
  <2>1. CASE m.kind \in {"hello", "verack"} /\ handle_handshake(n, c, m)
    BY <1>0, <1>2, <2>1, HandshakeHeld
  <2>2. CASE m.kind = "closed" /\ handle_closed_event(n, Name(c, n))
    <3>1. conns' \in drop_peer_stream(conns, n, Name(c, n)) /\ peer' = peer
      BY <2>2 DEF handle_closed_event
    <3>2. Held(conns', pool, peer')
      BY <1>0, <3>1, HeldDrop
    <3>3. ~conns'[c].end[n].reg
      <4>1. c \in Registered(conns, n, Name(c, n)) <=> conns[c].end[n].reg
        BY <1>2 DEF Registered, Name
      <4>2. /\ c \notin Registered(conns, n, Name(c, n)) => conns'[c] = conns[c]
            /\ c \in Registered(conns, n, Name(c, n)) => conns'[c].end[n] = Gone
        BY <1>0, <1>2, <3>1, DropFields
      <4> QED
        BY <4>1, <4>2 DEF Gone
    <3> QED
      BY <2>2, <3>2, <3>3 DEF Done
  <2>3. CASE /\ m.kind = "data"
             /\ conns' = [conns EXCEPT ![c].last[n] = m.k]
             /\ UNCHANGED <<peer, connecting, tasks>>
    <3>1. PICK l : conns' = [conns EXCEPT ![c].last = l]
      BY <2>3
    <3>2. Held(conns', pool, peer')
      BY <1>0, <1>2, <2>3, <3>1, PassedHeld
    <3> QED
      BY <2>3, <3>2 DEF Done
  <2> QED
    BY <1>3, <2>1, <2>2, <2>3
<1> QED
  BY <1>2, <1>4, HeldPop

-----------------------------------------------------------------------------
(* The other operations.                                                   *)

LEMMA TryHeld ==
    ASSUME Sound(conns), Held(conns, pool, peer), NEW n \in Nodes, NEW t,
           try_start_connection(n, conns, t)
    PROVE  Held(conns', pool, peer)
<1>1. conns' = conns \/ conns' \in drop_peer_stream(conns, n, Dial)
  BY DEF try_start_connection
<1> QED
  BY <1>1, HeldDrop

\* Data is written only on the stream of a peer that is kept.
LEMMA DataHeld ==
    ASSUME Sound(conns), Held(conns, pool, peer), NEW n \in Nodes, Known(n), NEW k \in Nat,
           NEW ds, ds = Put(conns, n, Writable(conns, n, peer[n].name), Data(k))
    PROVE  Held(ds, pool, peer)
<1> DEFINE o == Other(n)
           line == Writable(conns, n, peer[n].name)
           m == Data(k)
<1>0. o \in Nodes /\ o # n /\ Other(o) = n /\ (\A v \in Nodes : v = n \/ v = o)
      /\ m \in Msg /\ m.kind = "data"
  BY OtherOK DEF Data, Msg
<1>1. \A d \in line : d \in DOMAIN conns /\ conns[d].from # n => KeptAs(peer, n, d)
  BY DEF Writable, Registered, KeptAs, Known
<1> HIDE DEF m, o, line
<1>2. /\ DOMAIN ds = DOMAIN conns
      /\ \A d \in DOMAIN conns :
           /\ Alike(conns[d], ds[d]) /\ ds[d].end = conns[d].end /\ ds[d].q[n] = conns[d].q[n]
           /\ ds[d].q[o] = IF d \in line /\ conns[d].end[o].rcv /\ ~conns[d].cut
                           THEN Append(conns[d].q[o], m) ELSE conns[d].q[o]
  BY <1>0, PutFields DEF o, m, line
<1>3. \A d \in DOMAIN conns : d \notin line => ds[d] = conns[d]
  BY DEF Put, line
<1>4. \A d \in DOMAIN conns : conns[d].q[o] \in Seq(Msg)
  BY <1>0, ConnFields
<1>5. \A d \in DOMAIN conns : /\ KindsIn(conns[d].q[o]) \subseteq KindsIn(ds[d].q[o])
                              /\ KindsIn(ds[d].q[o]) \subseteq KindsIn(conns[d].q[o]) \cup {"data"}
  <2>1. \A d \in DOMAIN conns : KindsIn(Append(conns[d].q[o], m)) = KindsIn(conns[d].q[o]) \cup {"data"}
    BY <1>0, <1>4, KindsOK
  <2> QED
    BY <1>2, <2>1
<1>6. PeersOK(ds, peer) /\ TimesOK(ds)
  BY <1>2 DEF Held, PeersOK, TimesOK, Alike
<1>7. ASSUME NEW v \in Nodes, NEW d \in DOMAIN conns PROVE PairOK(ds, pool, peer, v, d)
  <2>0. PairOK(conns, pool, peer, v, d)
    BY DEF Held
  <2>1. CASE d \notin line
    BY <1>3, <2>0, <2>1, SamePair
  <2>2. CASE d \in line
    <3>1. /\ ds[d].from = conns[d].from /\ ds[d].end = conns[d].end /\ ds[d].cut = conns[d].cut
          /\ Carries(ds, v, d) = Carries(conns, v, d)
      BY <1>2 DEF Alike, Carries
    <3>2. EndOK(ds, pool, v, d)
      BY <2>0, <3>1 DEF PairOK, EndOK
    <3>3. CASE v = n
      <4>1. InFlow(ds, n, d) = InFlow(conns, n, d)
        BY <1>2, FlowsOK
      <4>2. AnswerOK(ds, pool, peer, n, d)
        BY <1>1, <2>0, <2>2, <3>1, <3>3, <4>1 DEF PairOK, AnswerOK, Due
      <4>3. DialOK(ds, pool, peer, n, d)
        BY <2>0, <3>1, <3>3, <4>1 DEF PairOK, DialOK, Due
      <4> QED
        BY <3>2, <3>3, <4>2, <4>3 DEF PairOK
    <3>4. CASE v = o
      <4>1. /\ InFlow(conns, o, d) \subseteq InFlow(ds, o, d)
            /\ InFlow(ds, o, d) \subseteq InFlow(conns, o, d) \cup {"data"}
            /\ ds[d].q[Other(o)] = conns[d].q[Other(o)]
        BY <1>0, <1>2, <1>5, FlowDef
      <4>2. AnswerOK(ds, pool, peer, o, d)
        BY <2>0, <3>1, <3>4, <4>1 DEF PairOK, AnswerOK, Due
      <4>3. DialOK(ds, pool, peer, o, d)
        BY <2>0, <3>1, <3>4, <4>1 DEF PairOK, DialOK, Due
      <4> QED
        BY <3>2, <3>4, <4>2, <4>3 DEF PairOK
    <3> QED
      BY <1>0, <3>3, <3>4
  <2> QED
    BY <2>1, <2>2
<1> QED
  BY <1>2, <1>6, <1>7 DEF Held

LEMMA SendNowHeld ==
    ASSUME Sound(conns), Held(conns, pool, peer), NEW n \in Nodes, NEW k \in Nat, send_now(n, k)
    PROVE  Held(conns', pool, peer)
<1>1. conns' = conns \/ (Known(n) /\ conns' = Put(conns, n, Writable(conns, n, peer[n].name), Data(k)))
  BY DEF send_now
<1> QED
  BY <1>1, DataHeld

LEMMA ActuallySendHeld ==
    ASSUME Typed, Held(conns, pool, peer), NEW n \in Nodes, actually_send_to(n)
    PROVE  Held(conns', pool, peer)
<1> DEFINE job == Head(jobs[n])
<1>0. Sound(conns) /\ job.k \in Nat
  <2>1. jobs[n] \in Seq(Job) /\ jobs[n] # <<>>
    BY DEF Typed, actually_send_to
  <2>2. job \in Job
    BY <2>1, TailPart
  <2> QED
    BY <2>2 DEF Job, Typed
<1>1. \/ conns' = conns
      \/ Known(n) /\ conns' = Put(conns, n, Writable(conns, n, peer[n].name), Data(job.k))
      \/ try_start_connection(n, conns, tasks[n])
  BY DEF actually_send_to
<1> HIDE DEF job
<1> QED
  BY <1>0, <1>1, DataHeld, TryHeld

\* An event is added to a node's pool.
Gains(pl, n, d, k) ==
    /\ \A v \in Nodes : \A c : v # n \/ c # d => InPool(pl, v, c) = InPool(pool, v, c)
    /\ InPool(pl, n, d) = InPool(pool, n, d) \cup {k}

LEMMA PoolGains ==
    ASSUME Typed, NEW n \in Nodes, NEW e \in Event, NEW pl, pl = [pool EXCEPT ![n] = Append(@, e)]
    PROVE  Gains(pl, n, e.c, e.m.kind)
<1>1. pool \in [Nodes -> Seq(Event)] /\ pool[n] \in Seq(Event)
  BY DEF Typed
<1>2. PICK t : t = Append(pool[n], e)
  OBVIOUS
<1>3. pl[n] = t /\ \A v \in Nodes : v # n => pl[v] = pool[v]
  BY <1>1, <1>2
<1>4. /\ Len(pool[n]) \in Nat /\ DOMAIN pool[n] = 1..Len(pool[n])
      /\ DOMAIN t = 1..(Len(pool[n]) + 1)
      /\ \A i \in DOMAIN pool[n] : t[i] = pool[n][i]
      /\ t[Len(pool[n]) + 1] = e
  BY <1>1, <1>2, AppendPart
<1>5. \A i : i \in DOMAIN t <=> i \in DOMAIN pool[n] \/ i = Len(pool[n]) + 1
  BY <1>4
<1>6. ASSUME NEW c PROVE InPool(pl, n, c) = InPool(pool, n, c) \cup (IF c = e.c THEN {e.m.kind} ELSE {})
  <2>1. ASSUME NEW i \in DOMAIN t, t[i].c = c
        PROVE  t[i].m.kind \in InPool(pool, n, c) \/ (c = e.c /\ t[i].m.kind = e.m.kind)
    BY <1>4, <1>5, <2>1 DEF InPool
  <2>2. ASSUME NEW i \in DOMAIN pool[n], pool[n][i].c = c PROVE pool[n][i].m.kind \in InPool(pl, n, c)
    BY <1>3, <1>4, <1>5, <2>2 DEF InPool
  <2>3. c = e.c => e.m.kind \in InPool(pl, n, c)
    BY <1>3, <1>4, <1>5 DEF InPool
  <2>4. InPool(pl, n, c) \subseteq InPool(pool, n, c) \cup (IF c = e.c THEN {e.m.kind} ELSE {})
    BY <1>3, <2>1 DEF InPool
  <2>5. InPool(pool, n, c) \subseteq InPool(pl, n, c)
    BY <2>2 DEF InPool
  <2> QED
    BY <2>3, <2>4, <2>5
<1>7. \A v \in Nodes : \A c : v # n => InPool(pl, v, c) = InPool(pool, v, c)
  BY <1>3 DEF InPool
<1>8. \A c : c # e.c => InPool(pl, n, c) = InPool(pool, n, c)
  BY <1>6
<1>9. InPool(pl, n, e.c) = InPool(pool, n, e.c) \cup {e.m.kind}
  BY <1>6
<1> QED
  BY <1>7, <1>8, <1>9 DEF Gains

\* One field of connection d is another: the rest stays.
QueueSet(ds, n, d, q) == ds = [conns EXCEPT ![d].q[n] = q]
ReaderEnded(ds, n, d) == ds = [conns EXCEPT ![d].end[n].rcv = FALSE]

LEMMA QueueIs ==
    ASSUME Sound(conns), NEW n \in Nodes, NEW d \in DOMAIN conns, NEW q,
           NEW ds, QueueSet(ds, n, d, q)
    PROVE  /\ DOMAIN ds = DOMAIN conns /\ ds[d].q[n] = q
           /\ \A v \in Nodes : v # n => ds[d].q[v] = conns[d].q[v]
           /\ \A c \in DOMAIN conns :
                Alike(conns[c], ds[c]) /\ ds[c].end = conns[c].end
<1>0. ds = [conns EXCEPT ![d].q[n] = q]
  BY DEF QueueSet
<1>1. conns[d] \in Conn /\ conns[d].q \in [Nodes -> Seq(Msg)]
  BY ConnFields
<1> DEFINE p == [conns[d].q EXCEPT ![n] = q]
<1>2. p[n] = q /\ \A v \in Nodes : v # n => p[v] = conns[d].q[v]
  BY <1>1
<1>3. \A c \in DOMAIN conns : ds[c] = IF c = d THEN [conns[d] EXCEPT !.q = p] ELSE conns[c]
  BY <1>0, <1>1 DEF Conn
<1> HIDE DEF p
<1>4. Alike(conns[d], ds[d]) /\ ds[d].end = conns[d].end /\ ds[d].q = p
  BY <1>1, <1>3 DEF Conn, Alike
<1> QED
  BY <1>0, <1>2, <1>3, <1>4 DEF Alike

LEMMA ReaderEnds ==
    ASSUME Sound(conns), NEW n \in Nodes, NEW d \in DOMAIN conns,
           NEW ds, ReaderEnded(ds, n, d)
    PROVE  /\ DOMAIN ds = DOMAIN conns
           /\ ds[d].end[n].reg = conns[d].end[n].reg /\ ds[d].end[n].snd = conns[d].end[n].snd
           /\ ~ds[d].end[n].rcv
           /\ \A v \in Nodes : v # n => ds[d].end[v] = conns[d].end[v]
           /\ \A c \in DOMAIN conns :
                /\ Alike(conns[c], ds[c]) /\ ds[c].q = conns[c].q
                /\ c # d => ds[c] = conns[c]
<1>1. conns[d] \in Conn /\ conns[d].end \in [Nodes -> End] /\ conns[d].end[n] \in End
  BY ConnFields
<1>0. ds = [conns EXCEPT ![d].end[n].rcv = FALSE]
  BY DEF ReaderEnded
<1> DEFINE f == [conns[d].end[n] EXCEPT !.rcv = FALSE]
           p == [conns[d].end EXCEPT ![n] = f]
<1>2. f.reg = conns[d].end[n].reg /\ f.snd = conns[d].end[n].snd /\ ~f.rcv
  BY <1>1 DEF End
<1> HIDE DEF f
<1>3. p[n] = f /\ \A v \in Nodes : v # n => p[v] = conns[d].end[v]
  BY <1>1
<1>4. \A c \in DOMAIN conns : ds[c] = IF c = d THEN [conns[d] EXCEPT !.end = p] ELSE conns[c]
  BY <1>0, <1>1 DEF Conn, f
<1> HIDE DEF p
<1>5. Alike(conns[d], ds[d]) /\ ds[d].q = conns[d].q /\ ds[d].end = p
  BY <1>1, <1>4 DEF Conn, Alike
<1> QED
  BY <1>0, <1>2, <1>3, <1>4, <1>5 DEF Alike

LEMMA ReceiveHeld ==
    ASSUME Typed, Held(conns, pool, peer), NEW n \in Nodes, NEW d \in DOMAIN conns, Receive(n, d)
    PROVE  Held(conns', pool', peer)
<1> DEFINE o == Other(n)
           flow == conns[d].q[n]
<1>0. /\ Sound(conns) /\ flow \in Seq(Msg) /\ d \in Nat
      /\ o \in Nodes /\ o # n /\ Other(o) = n /\ (\A v \in Nodes : v = n \/ v = o)
  BY OtherOK, ConnFields DEF Typed
<1>1. \/ /\ flow # <<>>
         /\ pool' = [pool EXCEPT ![n] = Append(@, [c |-> d, m |-> Head(flow)])]
         /\ conns' = [conns EXCEPT ![d].q[n] = Tail(flow)]
      \/ /\ flow = <<>>
         /\ pool' = [pool EXCEPT ![n] = Append(@, [c |-> d, m |-> [kind |-> "closed"]])]
         /\ conns' = [conns EXCEPT ![d].end[n].rcv = FALSE]
  BY DEF Receive
<1> HIDE DEF o, flow
<1>2. CASE /\ flow # <<>>
           /\ pool' = [pool EXCEPT ![n] = Append(@, [c |-> d, m |-> Head(flow)])]
           /\ conns' = [conns EXCEPT ![d].q[n] = Tail(flow)]
  <2> DEFINE k == Head(flow).kind
             e == [c |-> d, m |-> Head(flow)]
  <2>1. Head(flow) \in Msg /\ KindsIn(flow) = {k} \cup KindsIn(Tail(flow))
    BY <1>0, <1>2, TailPart, KindsOK
  <2>2. e \in Event /\ e.c = d /\ e.m.kind = k
    BY <1>0, <2>1 DEF Event
  <2>3. pool' = [pool EXCEPT ![n] = Append(@, e)]
    BY <1>2
  <2> HIDE DEF e
  <2>4. Gains(pool', n, d, k)
    BY <2>2, <2>3, PoolGains
  <2>8. PICK r : r = Tail(flow)
    OBVIOUS
  <2>0. QueueSet(conns', n, d, r)
    BY <1>2, <2>8 DEF QueueSet
  <2>5. /\ DOMAIN conns' = DOMAIN conns /\ conns'[d].q[n] = r
        /\ \A v \in Nodes : v # n => conns'[d].q[v] = conns[d].q[v]
        /\ \A c \in DOMAIN conns :
             Alike(conns[c], conns'[c]) /\ conns'[c].end = conns[c].end
        /\ \A c \in DOMAIN conns : c # d => conns'[c] = conns[c]
    <3>1. \A c \in DOMAIN conns : c # d => conns'[c] = conns[c]
      BY <2>0 DEF QueueSet
    <3>2. conns'[d].q[n] = r
      <4>1. Sound(conns)
        BY <1>0
      <4> QED
        BY <2>0, <4>1, QueueIs
    <3>5. DOMAIN conns' = DOMAIN conns
      BY <2>0 DEF QueueSet
    <3>3. \A v \in Nodes : v # n => conns'[d].q[v] = conns[d].q[v]
      BY <1>0, <2>0, QueueIs
    <3>4. \A c \in DOMAIN conns : Alike(conns[c], conns'[c]) /\ conns'[c].end = conns[c].end
      BY <1>0, <2>0, QueueIs
    <3> QED
      BY <3>1, <3>2, <3>3, <3>4, <3>5
  <2> HIDE DEF k
  <2>6. PeersOK(conns', peer) /\ TimesOK(conns')
    BY <2>5 DEF Held, PeersOK, TimesOK, Alike
  <2>7. ASSUME NEW v \in Nodes, NEW c \in DOMAIN conns PROVE PairOK(conns', pool', peer, v, c)
    <3>0. PairOK(conns, pool, peer, v, c)
      BY DEF Held
    <3>1. \A j : Due(conns', pool', j, v, c) <=> Due(conns, pool, j, v, c)
      <4>1. CASE v = n /\ c = d
        <5>1. InFlow(conns, n, d) = {k} \cup InFlow(conns', n, d)
          BY <2>1, <2>5, <2>8, FlowDef DEF flow
        <5>2. InPool(pool', n, d) = InPool(pool, n, d) \cup {k}
          BY <2>4 DEF Gains
        <5> QED
          BY <4>1, <5>1, <5>2 DEF Due
      <4>2. CASE v # n \/ c # d
        <5>1. InPool(pool', v, c) = InPool(pool, v, c)
          BY <2>4, <4>2 DEF Gains
        <5>2. conns'[c].q[v] = conns[c].q[v]
          BY <2>5, <4>2
        <5>3. InFlow(conns', v, c) = InFlow(conns, v, c)
          BY <5>2, FlowsOK
        <5> QED
          BY <5>1, <5>3 DEF Due
      <4> QED
        BY <4>1, <4>2
    <3>2. InPool(pool, v, c) \subseteq InPool(pool', v, c)
      BY <2>4 DEF Gains
    <3>3. /\ conns'[c].from = conns[c].from /\ conns'[c].end = conns[c].end
          /\ conns'[c].cut = conns[c].cut /\ Carries(conns', v, c) = Carries(conns, v, c)
      BY <2>5 DEF Alike, Carries
    <3>4. conns[c].q[Other(v)] = <<>> => conns'[c].q[Other(v)] = <<>>
      <4>1. CASE c # d
        BY <2>5, <4>1
      <4>2. CASE c = d /\ Other(v) # n
        BY <2>5, <4>2, OtherOK
      <4>3. CASE c = d /\ Other(v) = n
        BY <1>2, <4>3 DEF flow
      <4> QED
        BY <4>1, <4>2, <4>3
    <3>5. EndOK(conns', pool', v, c)
      BY <3>0, <3>2, <3>3 DEF PairOK, EndOK
    <3>6. AnswerOK(conns', pool', peer, v, c)
      BY <3>0, <3>1, <3>3, <3>4 DEF PairOK, AnswerOK
    <3>7. DialOK(conns', pool', peer, v, c)
      BY <3>0, <3>1, <3>3 DEF PairOK, DialOK
    <3> QED
      BY <3>5, <3>6, <3>7 DEF PairOK
  <2> QED
    BY <2>5, <2>6, <2>7 DEF Held
<1>3. CASE /\ flow = <<>>
           /\ pool' = [pool EXCEPT ![n] = Append(@, [c |-> d, m |-> [kind |-> "closed"]])]
           /\ conns' = [conns EXCEPT ![d].end[n].rcv = FALSE]
  <2> DEFINE e == [c |-> d, m |-> [kind |-> "closed"]]
  <2>1. e \in Event /\ e.c = d /\ e.m.kind = "closed"
    BY <1>0 DEF Event, Msg
  <2>2. pool' = [pool EXCEPT ![n] = Append(@, e)]
    BY <1>3
  <2> HIDE DEF e
  <2>3. Gains(pool', n, d, "closed")
    BY <2>1, <2>2, PoolGains
  <2>0. ReaderEnded(conns', n, d)
    BY <1>3 DEF ReaderEnded
  <2>4. /\ DOMAIN conns' = DOMAIN conns
        /\ conns'[d].end[n].reg = conns[d].end[n].reg /\ conns'[d].end[n].snd = conns[d].end[n].snd
        /\ ~conns'[d].end[n].rcv
        /\ \A v \in Nodes : v # n => conns'[d].end[v] = conns[d].end[v]
        /\ \A c \in DOMAIN conns :
             /\ Alike(conns[c], conns'[c]) /\ conns'[c].q = conns[c].q
             /\ c # d => conns'[c] = conns[c]
    BY <1>0, <2>0, ReaderEnds
  <2>5. PeersOK(conns', peer) /\ TimesOK(conns')
    BY <2>4 DEF Held, PeersOK, TimesOK, Alike
  <2>6. ASSUME NEW v \in Nodes, NEW c \in DOMAIN conns PROVE PairOK(conns', pool', peer, v, c)
    <3>0. PairOK(conns, pool, peer, v, c)
      BY DEF Held
    <3>1. /\ conns'[c].from = conns[c].from /\ InFlow(conns', v, c) = InFlow(conns, v, c)
          /\ conns'[c].q = conns[c].q
      BY <2>4, FlowsOK DEF Alike
    <3>2. CASE c # d
      <4>1. InPool(pool', v, c) = InPool(pool, v, c) /\ conns'[c] = conns[c]
        BY <2>3, <2>4, <3>2 DEF Gains
      <4> QED
        BY <3>0, <3>1, <4>1 DEF PairOK, EndOK, AnswerOK, DialOK, Due, Carries
    <3>3. CASE c = d /\ v = n
      <4>1. /\ InPool(pool', n, c) = InPool(pool, n, c) \cup {"closed"} /\ ~Carries(conns', n, c)
            /\ conns'[c].end[n].reg = conns[c].end[n].reg
            /\ conns'[c].end[n].snd = conns[c].end[n].snd
            /\ ~conns'[c].end[n].rcv
        BY <2>3, <2>4, <3>3 DEF Gains, Carries
      <4> QED
        BY <3>0, <3>1, <3>3, <4>1 DEF PairOK, EndOK, AnswerOK, DialOK, Due
    <3>4. CASE c = d /\ v = o
      <4>1. /\ InPool(pool', o, c) = InPool(pool, o, c)
            /\ conns'[c].end[o] = conns[c].end[o]
            /\ conns'[c].end[n].snd = conns[c].end[n].snd /\ conns'[c].cut = conns[c].cut
        BY <1>0, <2>3, <2>4, <3>4 DEF Gains, Alike
      <4>2. Carries(conns', o, c) = Carries(conns, o, c)
        BY <1>0, <4>1 DEF Carries
      <4> QED
        BY <3>0, <3>1, <3>4, <4>1, <4>2 DEF PairOK, EndOK, AnswerOK, DialOK, Due
    <3> QED
      BY <1>0, <3>2, <3>3, <3>4
  <2> QED
    BY <2>4, <2>5, <2>6 DEF Held
<1> QED
  BY <1>1, <1>2, <1>3

\* What a fault may do: nothing is written or read that was not, and what flows may be lost.
Weaker(ds) ==
    /\ DOMAIN ds = DOMAIN conns
    /\ \A c \in DOMAIN conns, v \in Nodes :
         /\ ds[c].from = conns[c].from /\ ds[c].ts = conns[c].ts
         /\ ds[c].end[v].reg = conns[c].end[v].reg /\ ds[c].end[v].rcv = conns[c].end[v].rcv
         /\ ds[c].end[v].snd => conns[c].end[v].snd
         /\ Carries(ds, v, c) =>
              Carries(conns, v, c) /\ InFlow(ds, v, c) = InFlow(conns, v, c)
         /\ ds[c].q[v] = conns[c].q[v] \/ ds[c].q[v] = <<>>
         /\ conns[c].end[v].snd /\ ~ds[c].end[v].snd /\ conns[c].from # v => KeptAs(peer, v, c)

LEMMA WeakerHeld ==
    ASSUME Sound(conns), Held(conns, pool, peer), NEW ds, Weaker(ds)
    PROVE  Held(ds, pool, peer)
<1>1. PeersOK(ds, peer) /\ TimesOK(ds)
  <2>1. \A n \in Nodes : n \in Nodes /\ \A c \in DOMAIN conns : ds[c].from = conns[c].from
    BY DEF Weaker
  <2>2. \A c \in DOMAIN conns : ds[c].ts = conns[c].ts
    <3>1. \E n : n \in Nodes
      BY TwoNodes, FS_EmptySet
    <3> QED
      BY <3>1 DEF Weaker
  <2> QED
    BY <2>1, <2>2 DEF Held, PeersOK, TimesOK, Weaker
<1>2. ASSUME NEW v \in Nodes, NEW c \in DOMAIN conns PROVE PairOK(ds, pool, peer, v, c)
  <2>0. PairOK(conns, pool, peer, v, c) /\ Other(v) \in Nodes
    BY OtherOK DEF Held
  <2>1. /\ ds[c].from = conns[c].from
        /\ ds[c].end[v].reg = conns[c].end[v].reg /\ ds[c].end[v].rcv = conns[c].end[v].rcv
        /\ ds[c].end[v].snd => conns[c].end[v].snd
        /\ Carries(ds, v, c) => Carries(conns, v, c) /\ InFlow(ds, v, c) = InFlow(conns, v, c)
        /\ ds[c].q[v] = conns[c].q[v] \/ ds[c].q[v] = <<>>
        /\ ds[c].q[Other(v)] = conns[c].q[Other(v)] \/ ds[c].q[Other(v)] = <<>>
        /\ conns[c].end[v].snd /\ ~ds[c].end[v].snd /\ conns[c].from # v => KeptAs(peer, v, c)
    BY <2>0 DEF Weaker
  <2>2. InFlow(ds, v, c) \subseteq InFlow(conns, v, c)
    BY <2>1, FlowsOK
  <2>3. Carries(ds, v, c) => InFlow(ds, v, c) = InFlow(conns, v, c)
    BY <2>1, FlowsOK
  <2>4. EndOK(ds, pool, v, c)
    BY <2>0, <2>1 DEF PairOK, EndOK
  <2>5. AnswerOK(ds, pool, peer, v, c)
    BY <2>0, <2>1, <2>2, <2>3 DEF PairOK, AnswerOK, Due
  <2>6. DialOK(ds, pool, peer, v, c)
    BY <2>0, <2>1, <2>2, <2>3 DEF PairOK, DialOK, Due
  <2> QED
    BY <2>4, <2>5, <2>6 DEF PairOK
<1> QED
  BY <1>1, <1>2 DEF Held, Weaker

LEMMA CutHeld ==
    ASSUME Sound(conns), Held(conns, pool, peer), NEW d \in DOMAIN conns, Cut(d)
    PROVE  Held(conns', pool, peer)
<1>0. conns[d] \in Conn
  BY DEF Sound
<1>1. PICK q : (q = conns[d].q \/ q = [n \in Nodes |-> <<>>])
               /\ conns' = [conns EXCEPT ![d].cut = TRUE, ![d].q = q]
  BY DEF Cut
<1>2. \A v \in Nodes : q[v] = conns[d].q[v] \/ q[v] = <<>>
  BY <1>1
<1>3. \A c \in DOMAIN conns : conns'[c] = IF c = d THEN [conns[d] EXCEPT !.cut = TRUE, !.q = q] ELSE conns[c]
  BY <1>1
<1>4. /\ conns'[d].from = conns[d].from /\ conns'[d].ts = conns[d].ts /\ conns'[d].cut = TRUE
      /\ conns'[d].end = conns[d].end /\ conns'[d].q = q
  BY <1>0, <1>3 DEF Conn
<1>5. ASSUME NEW c \in DOMAIN conns, NEW v \in Nodes
      PROVE  /\ conns'[c].from = conns[c].from /\ conns'[c].ts = conns[c].ts
             /\ conns'[c].end = conns[c].end
             /\ Carries(conns', v, c) =>
                  Carries(conns, v, c) /\ InFlow(conns', v, c) = InFlow(conns, v, c)
             /\ conns'[c].q[v] = conns[c].q[v] \/ conns'[c].q[v] = <<>>
  <2>1. CASE c = d
    BY <1>2, <1>4, <2>1 DEF Carries
  <2>2. CASE c # d
    BY <1>3, <2>2 DEF Carries, InFlow
  <2> QED
    BY <2>1, <2>2
<1>6. DOMAIN conns' = DOMAIN conns
  BY <1>1
<1>7. Weaker(conns')
  BY <1>5, <1>6 DEF Weaker
<1> QED
  BY <1>7, WeakerHeld

LEMMA StallHeld ==
    ASSUME Sound(conns), Held(conns, pool, peer), NEW n \in Nodes, NEW d \in DOMAIN conns, Stall(n, d)
    PROVE  Held(conns', pool, peer)
<1> DEFINE o == Other(n)
<1>0. /\ o \in Nodes /\ o # n /\ Other(o) = n /\ (\A v \in Nodes : v = n \/ v = o)
  BY OtherOK
<1>1. /\ conns[d].end[n].snd
      /\ conns[d].q[o] # <<>> \/ (Known(n) /\ peer[n].name = Name(d, n))
      /\ conns' = [conns EXCEPT ![d].end[n].snd = FALSE, ![d].q[o] = <<>>]
  BY DEF Stall
<1> HIDE DEF o
<1>2. conns[d] \in Conn /\ conns[d].end \in [Nodes -> End] /\ conns[d].end[n] \in End
      /\ conns[d].q \in [Nodes -> Seq(Msg)]
  BY ConnFields
<1> DEFINE f == [conns[d].end[n] EXCEPT !.snd = FALSE]
           e == [conns[d].end EXCEPT ![n] = f]
           q == [conns[d].q EXCEPT ![o] = <<>>]
<1>3. f.reg = conns[d].end[n].reg /\ f.rcv = conns[d].end[n].rcv /\ ~f.snd
  BY <1>2 DEF End
<1> HIDE DEF f
<1>4. e[n] = f /\ e[o] = conns[d].end[o] /\ q[o] = <<>> /\ q[n] = conns[d].q[n]
  BY <1>0, <1>2
<1>5. \A c \in DOMAIN conns : conns'[c] = IF c = d THEN [conns[d] EXCEPT !.end = e, !.q = q] ELSE conns[c]
  <2>1. conns'[d] = [conns[d] EXCEPT !.end[n].snd = FALSE, !.q[o] = <<>>]
    BY <1>1
  <2>2. [conns[d] EXCEPT !.end[n].snd = FALSE, !.q[o] = <<>>] = [conns[d] EXCEPT !.end = e, !.q = q]
    BY <1>2 DEF Conn, f
  <2>3. \A c \in DOMAIN conns : c # d => conns'[c] = conns[c]
    BY <1>1
  <2> QED
    BY <2>1, <2>2, <2>3
<1> HIDE DEF e, q
<1>6. /\ conns'[d].from = conns[d].from /\ conns'[d].ts = conns[d].ts /\ conns'[d].cut = conns[d].cut
      /\ conns'[d].end = e /\ conns'[d].q = q
  BY <1>2, <1>5 DEF Conn
<1>7. conns[d].from # n => KeptAs(peer, n, d)
  <2>1. ASSUME conns[d].from # n, ~KeptAs(peer, n, d) PROVE FALSE
    <3>1. conns[d].end[n].reg /\ conns[d].q[o] = <<>>
      BY <1>1, <2>1 DEF Held, PairOK, EndOK, AnswerOK, o
    <3>2. Known(n) /\ peer[n].name = d
      BY <1>1, <2>1, <3>1 DEF Name
    <3> QED
      BY <2>1, <3>2 DEF Known, KeptAs
  <2> QED
    BY <2>1
<1>8. ASSUME NEW c \in DOMAIN conns, NEW v \in Nodes
      PROVE  /\ conns'[c].from = conns[c].from /\ conns'[c].ts = conns[c].ts
             /\ conns'[c].end[v].reg = conns[c].end[v].reg
             /\ conns'[c].end[v].rcv = conns[c].end[v].rcv
             /\ conns'[c].end[v].snd => conns[c].end[v].snd
             /\ conns'[c].q[v] = conns[c].q[v] \/ conns'[c].q[v] = <<>>
             /\ conns[c].end[v].snd /\ ~conns'[c].end[v].snd /\ conns[c].from # v => KeptAs(peer, v, c)
  <2>1. CASE c # d
    BY <1>5, <2>1
  <2>2. CASE c = d /\ v = n
    BY <1>3, <1>4, <1>6, <1>7, <2>2
  <2>3. CASE c = d /\ v = o
    BY <1>4, <1>6, <2>3
  <2> QED
    BY <1>0, <2>1, <2>2, <2>3
<1>9. ASSUME NEW c \in DOMAIN conns, NEW v \in Nodes, Carries(conns', v, c)
      PROVE  Carries(conns, v, c) /\ InFlow(conns', v, c) = InFlow(conns, v, c)
  <2>1. CASE c # d
    BY <1>5, <1>9, <2>1 DEF Carries, InFlow
  <2>2. CASE c = d /\ v = n
    <3>1. conns'[d].q[n] = conns[d].q[n]
      BY <1>4, <1>6
    <3>2. conns'[d].end[o] = conns[d].end[o] /\ conns'[d].end[n].rcv = conns[d].end[n].rcv
          /\ conns'[d].cut = conns[d].cut
      BY <1>3, <1>4, <1>6
    <3> QED
      BY <1>9, <2>2, <3>1, <3>2, FlowsOK DEF Carries, o
  <2>3. CASE c = d /\ v = o
    <3>1. ~conns'[d].end[n].snd
      BY <1>3, <1>4, <1>6
    <3> QED
      BY <1>0, <1>9, <2>3, <3>1 DEF Carries
  <2> QED
    BY <1>0, <2>1, <2>2, <2>3
<1>10. DOMAIN conns' = DOMAIN conns
  BY <1>1
<1>11. Weaker(conns')
  BY <1>8, <1>9, <1>10 DEF Weaker
<1> QED
  BY <1>11, WeakerHeld

LEMMA RestartHeld ==
    ASSUME Typed, Held(conns, pool, peer), NEW n \in Nodes, Restart(n)
    PROVE  Held(conns', pool', peer')
<1> DEFINE o == Other(n)
           none == [m \in Nodes |-> <<>>]
<1>0. /\ Sound(conns) /\ pool \in [Nodes -> Seq(Event)]
      /\ o \in Nodes /\ o # n /\ Other(o) = n /\ (\A v \in Nodes : v = n \/ v = o)
      /\ peer \in [Nodes -> [ts : Nat, name : Nat]]
  BY OtherOK DEF Typed, Held, PeersOK
<1>1. /\ DOMAIN conns' = DOMAIN conns
      /\ \A c \in DOMAIN conns : conns'[c] = [conns[c] EXCEPT !.end[n] = Gone, !.q = none]
      /\ pool' = [pool EXCEPT ![n] = <<>>] /\ peer' = [peer EXCEPT ![n] = Unknown]
  BY DEF Restart, Gone
<1>2. /\ pool'[n] = <<>> /\ pool'[o] = pool[o] /\ peer'[n] = Unknown /\ peer'[o] = peer[o]
      /\ peer' \in [Nodes -> [ts : Nat, name : Nat]]
  BY <1>0, <1>1 DEF Unknown, Dial
<1> HIDE DEF o
<1>3. ASSUME NEW c \in DOMAIN conns
      PROVE  /\ conns'[c].from = conns[c].from /\ conns'[c].ts = conns[c].ts
             /\ conns'[c].end[n] = Gone /\ conns'[c].end[o] = conns[c].end[o]
             /\ conns'[c].q[n] = <<>> /\ conns'[c].q[o] = <<>>
             /\ InFlow(conns', n, c) = {} /\ InFlow(conns', o, c) = {}
  <2>1. conns[c] \in Conn /\ conns[c].end \in [Nodes -> End]
    BY <1>0, ConnFields
  <2> DEFINE e == [conns[c].end EXCEPT ![n] = Gone]
  <2>2. conns'[c] = [conns[c] EXCEPT !.end = e, !.q = none]
    BY <1>1, <2>1 DEF Conn
  <2>3. e[n] = Gone /\ e[o] = conns[c].end[o] /\ none[n] = <<>> /\ none[o] = <<>>
    BY <1>0, <2>1
  <2> HIDE DEF e, none
  <2>4. conns'[c].from = conns[c].from /\ conns'[c].ts = conns[c].ts /\ conns'[c].end = e
        /\ conns'[c].q = none
    BY <2>1, <2>2 DEF Conn
  <2> QED
    BY <2>3, <2>4, FlowsOK
<1>4. \A c : InPool(pool', n, c) = {} /\ InPool(pool', o, c) = InPool(pool, o, c)
  BY <1>2, EmptyPart DEF InPool
<1>5. PeersOK(conns', peer') /\ TimesOK(conns')
  <2>1. \A v \in Nodes : peer'[v].name # Dial =>
          peer'[v].name \in DOMAIN conns' /\ conns'[peer'[v].name].from # v
    BY <1>0, <1>1, <1>2, <1>3 DEF Held, PeersOK, Unknown
  <2> QED
    BY <1>1, <1>2, <1>3, <2>1 DEF Held, PeersOK, TimesOK
<1>6. ASSUME NEW c \in DOMAIN conns PROVE PairOK(conns', pool', peer', n, c)
  <2>1. /\ ~conns'[c].end[n].reg /\ ~conns'[c].end[n].rcv /\ ~conns'[c].end[n].snd
        /\ InFlow(conns', n, c) = {} /\ InPool(pool', n, c) = {}
    BY <1>3, <1>4 DEF Gone
  <2> QED
    BY <2>1 DEF PairOK, EndOK, AnswerOK, DialOK, Carries, Due
<1>7. ASSUME NEW c \in DOMAIN conns PROVE PairOK(conns', pool', peer', o, c)
  <2>0. PairOK(conns, pool, peer, o, c)
    BY <1>0 DEF Held
  <2>1. /\ conns'[c].from = conns[c].from /\ conns'[c].end[o] = conns[c].end[o]
        /\ InFlow(conns', o, c) = {} /\ InPool(pool', o, c) = InPool(pool, o, c)
        /\ conns'[c].q[n] = <<>> /\ ~Carries(conns', o, c)
    BY <1>0, <1>3, <1>4 DEF Carries, Gone
  <2>2. EndOK(conns', pool', o, c)
    BY <2>0, <2>1 DEF PairOK, EndOK
  <2>3. KeptAs(peer', o, c) = KeptAs(peer, o, c)
    BY <1>2 DEF KeptAs
  <2>4. AnswerOK(conns', pool', peer', o, c)
    BY <1>0, <2>0, <2>1, <2>3 DEF PairOK, AnswerOK, Due
  <2>5. DialOK(conns', pool', peer', o, c)
    BY <2>0, <2>1 DEF PairOK, DialOK, Due
  <2> QED
    BY <2>2, <2>4, <2>5 DEF PairOK
<1>8. \A v \in Nodes : \A c \in DOMAIN conns' : PairOK(conns', pool', peer', v, c)
  BY <1>0, <1>1, <1>6, <1>7
<1> QED
  BY <1>5, <1>8 DEF Held

\* The fields that do_handshake changes of the stream that had the name.
LEMMA RetiredFields ==
    ASSUME Sound(conns), NEW n \in Nodes, NEW S, NEW c \in S, c \in DOMAIN conns
    PROVE  LET x == Retired(conns, n, S)[c]
           IN /\ Alike(conns[c], x) /\ x.q = conns[c].q
              /\ ~x.end[n].reg /\ ~x.end[n].snd /\ x.end[n].rcv = conns[c].end[n].rcv
              /\ \A v \in Nodes : v # n => x.end[v] = conns[c].end[v]
<1> DEFINE x == Retired(conns, n, S)[c]
           f == [conns[c].end[n] EXCEPT !.reg = FALSE, !.snd = FALSE]
           e == [conns[c].end EXCEPT ![n] = f]
<1>1. conns[c] \in Conn /\ conns[c].end \in [Nodes -> End] /\ conns[c].end[n] \in End
  BY ConnFields
<1>2. x = [conns[c] EXCEPT !.end[n].reg = FALSE, !.end[n].snd = FALSE]
  BY DEF Retired
<1>3. [conns[c] EXCEPT !.end[n].reg = FALSE, !.end[n].snd = FALSE]
        = [conns[c] EXCEPT !.end = [conns[c].end EXCEPT ![n].reg = FALSE, ![n].snd = FALSE]]
  BY <1>1 DEF Conn
<1>4. [conns[c].end EXCEPT ![n].reg = FALSE, ![n].snd = FALSE] = e
  BY <1>1
<1>5. x = [conns[c] EXCEPT !.end = e]
  BY <1>2, <1>3, <1>4
<1>6. ~f.reg /\ ~f.snd /\ f.rcv = conns[c].end[n].rcv
  BY <1>1 DEF End
<1> HIDE DEF f
<1>7. e[n] = f /\ \A v \in Nodes : v # n => e[v] = conns[c].end[v]
  BY <1>1
<1> HIDE DEF e, x
<1>8. Alike(conns[c], x) /\ x.q = conns[c].q /\ x.end = e
  BY <1>1, <1>5 DEF Conn, Alike
<1>9. /\ Alike(conns[c], x) /\ x.q = conns[c].q
      /\ ~x.end[n].reg /\ ~x.end[n].snd /\ x.end[n].rcv = conns[c].end[n].rcv
      /\ \A v \in Nodes : v # n => x.end[v] = conns[c].end[v]
  BY <1>6, <1>7, <1>8
<1> QED
  BY <1>9 DEF x

LEMMA HandshakeStarts ==
    ASSUME Typed, clock # 0, Held(conns, pool, peer), NEW n \in Nodes, NEW ts, do_handshake(n, ts)
    PROVE  Held(conns', pool, peer) /\ clock' # 0
<1> DEFINE o == Other(n)
           old == Registered(conns, n, Dial)
           open == [reg |-> TRUE, rcv |-> TRUE, snd |-> TRUE]
           kept == Retired(conns, n, old)
           new == [from |-> n, ts |-> ts, cut |-> FALSE, last |-> [m \in Nodes |-> 0],
                   end |-> [m \in Nodes |-> open], q |-> [m \in Nodes |-> <<>>]]
           more == Append(kept, new)
           hello == [kind |-> "hello"]
           l == Len(conns) + 1
<1>0. /\ Sound(conns) /\ conns \in Seq(Conn) /\ Len(conns) \in Nat /\ DOMAIN conns = 1..Len(conns)
      /\ l \in Nat /\ l # Dial /\ l \notin DOMAIN conns
      /\ o \in Nodes /\ o # n /\ Other(o) = n /\ (\A v \in Nodes : v = n \/ v = o)
  BY OtherOK DEF Typed, Sound, Dial
<1>1. /\ conns' = Put(more, n, {l}, hello) /\ ts \in Nat /\ ts # 0 /\ clock' # 0
  <2>1. conns' = Put(more, n, {l}, hello)
    BY Zenon DEF do_handshake, Retired
  <2>2. clock \in Nat /\ ts \in {clock, clock + 1} /\ clock' = ts
    BY Zenon DEF do_handshake, Typed
  <2> QED
    BY <2>1, <2>2
<1> HIDE DEF o
<1>2. /\ new \in Conn /\ new.from = n /\ new.ts = ts /\ ~new.cut
      /\ \A m \in Nodes : new.q[m] = <<>> /\ new.end[m].reg /\ new.end[m].rcv /\ new.end[m].snd
  <2>1. [m \in Nodes |-> 0] \in [Nodes -> Nat] /\ [m \in Nodes |-> open] \in [Nodes -> End]
        /\ [m \in Nodes |-> <<>>] \in [Nodes -> Seq(Msg)]
    BY EmptyPart DEF End
  <2> QED
    BY <1>1, <2>1 DEF Conn
<1> HIDE DEF new
<1>3. /\ Sound(kept) /\ Len(kept) = Len(conns) /\ DOMAIN kept = DOMAIN conns
      /\ \A c \in DOMAIN conns :
           /\ kept[c].from = conns[c].from
           /\ IF c \in old THEN ~kept[c].end[n].reg ELSE kept[c].end[n].reg = conns[c].end[n].reg
  BY <1>0, RetiredOK
<1>4. \A c \in DOMAIN kept : kept[c].from = n => ~kept[c].end[n].reg
  BY <1>3 DEF Registered
<1>5. ASSUME NEW c \in DOMAIN conns
      PROVE  /\ c \notin old => kept[c] = conns[c]
             /\ c \in old => /\ Alike(conns[c], kept[c]) /\ kept[c].q = conns[c].q
                             /\ ~kept[c].end[n].reg /\ ~kept[c].end[n].snd
                             /\ kept[c].end[n].rcv = conns[c].end[n].rcv
                             /\ kept[c].end[o] = conns[c].end[o]
                             /\ conns[c].from = n
  <2>1. CASE c \notin old
    BY <2>1 DEF Retired
  <2>2. CASE c \in old
    <3>1. /\ Alike(conns[c], kept[c]) /\ kept[c].q = conns[c].q
          /\ ~kept[c].end[n].reg /\ ~kept[c].end[n].snd /\ kept[c].end[n].rcv = conns[c].end[n].rcv
          /\ \A v \in Nodes : v # n => kept[c].end[v] = conns[c].end[v]
      BY <1>0, <2>2, RetiredFields
    <3>2. conns[c].from = n
      <4>1. c # Dial
        BY <1>0, ConnFields
      <4> QED
        BY <2>2, <4>1 DEF Registered
    <3> QED
      BY <1>0, <2>2, <3>1, <3>2
  <2> QED
    BY <2>1, <2>2
<1> HIDE DEF kept
<1>6. /\ Sound(more) /\ Len(more) = l /\ more[l] = new /\ \A c \in DOMAIN conns : more[c] = kept[c]
  BY <1>2, <1>3, <1>4, AddedOK
<1>7. DOMAIN more = 1..l /\ l \in DOMAIN more
  BY <1>0, <1>6 DEF Sound
<1> HIDE DEF more
<1>8. hello \in Msg /\ hello.kind = "hello"
  BY DEF Msg
<1> HIDE DEF hello
<1>9. /\ DOMAIN conns' = DOMAIN more
      /\ \A c \in DOMAIN more :
           /\ Alike(more[c], conns'[c]) /\ conns'[c].end = more[c].end
           /\ conns'[c].q[n] = more[c].q[n]
           /\ conns'[c].q[o] = IF c \in {l} /\ more[c].end[o].rcv /\ ~more[c].cut
                               THEN Append(more[c].q[o], hello) ELSE more[c].q[o]
  BY <1>1, <1>6, <1>8, PutFields DEF o
<1>10. \A c \in DOMAIN conns : conns'[c] = kept[c]
  <2>1. \A c \in DOMAIN conns : c \in DOMAIN more /\ c \notin {l}
    BY <1>0, <1>7
  <2> QED
    BY <1>1, <1>6, <2>1 DEF Put
<1>11. /\ conns'[l].from = n /\ conns'[l].ts = ts /\ ~conns'[l].cut
       /\ \A m \in Nodes : conns'[l].end[m].reg /\ conns'[l].end[m].rcv /\ conns'[l].end[m].snd
       /\ conns'[l].q[n] = <<>> /\ conns'[l].q[o] = Append(<<>>, hello)
  BY <1>0, <1>2, <1>6, <1>7, <1>9 DEF Alike
<1>12. /\ InFlow(conns', n, l) = {} /\ InFlow(conns', o, l) = {"hello"}
       /\ \A v \in Nodes : InPool(pool, v, l) = {}
  <2>1. KindsIn(Append(<<>>, hello)) = {"hello"} /\ KindsIn(<<>>) = {}
    <3>1. PICK z : z = <<>>
      OBVIOUS
    <3>2. z \in Seq(Msg) /\ KindsIn(z) = {}
      BY <3>1, EmptyPart DEF KindsIn
    <3>3. KindsIn(Append(z, hello)) = KindsIn(z) \cup {hello.kind}
      BY <1>8, <3>2, KindsOK
    <3> QED
      BY <1>8, <3>1, <3>2, <3>3
  <2>2. \A v \in Nodes : \A i \in DOMAIN pool[v] : pool[v][i].c # l
    BY <1>0 DEF Typed
  <2>3. \A v \in Nodes : InPool(pool, v, l) = {}
    BY <2>2 DEF InPool
  <2> QED
    BY <1>11, <2>1, <2>3, FlowDef
<1>13. \A c : c \in DOMAIN conns' <=> c \in DOMAIN conns \/ c = l
  BY <1>0, <1>7, <1>9
<1>14. PeersOK(conns', peer) /\ TimesOK(conns')
  <2>1. \A c \in DOMAIN conns : conns'[c].from = conns[c].from /\ conns'[c].ts = conns[c].ts
    BY <1>5, <1>10 DEF Alike
  <2> QED
    BY <1>1, <1>11, <1>13, <2>1 DEF Held, PeersOK, TimesOK
<1>15. \A v \in Nodes : ~KeptAs(peer, v, l)
  BY <1>0 DEF KeptAs, Held, PeersOK
<1>16. ASSUME NEW v \in Nodes, NEW c \in DOMAIN conns PROVE PairOK(conns', pool, peer, v, c)
  <2>0. PairOK(conns, pool, peer, v, c)
    BY DEF Held
  <2>1. CASE c \notin old
    BY <1>5, <1>10, <2>0, <2>1, SamePair
  <2>2. CASE c \in old
    <3>1. /\ conns'[c].from = n /\ conns[c].from = n /\ conns'[c].cut = conns[c].cut
          /\ conns'[c].q = conns[c].q /\ ~conns'[c].end[n].reg /\ ~conns'[c].end[n].snd
          /\ conns'[c].end[n].rcv = conns[c].end[n].rcv /\ conns'[c].end[o] = conns[c].end[o]
      BY <1>5, <1>10, <2>2 DEF Alike
    <3>2. \A k : Due(conns', pool, k, v, c) <=> Due(conns, pool, k, v, c)
      BY <3>1, FlowsOK DEF Due
    <3>3. CASE v = n
      <4>1. Carries(conns', n, c) => Carries(conns, n, c)
        BY <3>1 DEF Carries, o
      <4>2. EndOK(conns', pool, n, c)
        BY <3>1 DEF EndOK
      <4>3. AnswerOK(conns', pool, peer, n, c)
        BY <3>1 DEF AnswerOK
      <4>4. DialOK(conns', pool, peer, n, c)
        BY <2>0, <3>1, <3>2, <3>3, <4>1 DEF PairOK, DialOK
      <4> QED
        BY <3>3, <4>2, <4>3, <4>4 DEF PairOK
    <3>4. CASE v = o
      <4>1. ~Carries(conns', o, c)
        BY <1>0, <3>1 DEF Carries
      <4>2. EndOK(conns', pool, o, c)
        BY <2>0, <3>1, <3>4 DEF PairOK, EndOK
      <4>3. AnswerOK(conns', pool, peer, o, c)
        BY <1>0, <2>0, <3>1, <3>2, <3>4, <4>1 DEF PairOK, AnswerOK
      <4>4. DialOK(conns', pool, peer, o, c)
        BY <1>0, <3>1 DEF DialOK
      <4> QED
        BY <3>4, <4>2, <4>3, <4>4 DEF PairOK
    <3> QED
      BY <1>0, <3>3, <3>4
  <2> QED
    BY <2>1, <2>2
<1>17. PairOK(conns', pool, peer, n, l)
  <2>1. EndOK(conns', pool, n, l)
    BY <1>11 DEF EndOK
  <2>2. AnswerOK(conns', pool, peer, n, l)
    BY <1>11 DEF AnswerOK
  <2>3. DialOK(conns', pool, peer, n, l)
    BY <1>0, <1>12, <1>15 DEF DialOK, Due, o
  <2> QED
    BY <2>1, <2>2, <2>3 DEF PairOK
<1>18. PairOK(conns', pool, peer, o, l)
  <2>1. EndOK(conns', pool, o, l)
    BY <1>0, <1>11 DEF EndOK
  <2>2. AnswerOK(conns', pool, peer, o, l)
    BY <1>0, <1>11, <1>12, <1>15 DEF AnswerOK, Due
  <2>3. DialOK(conns', pool, peer, o, l)
    BY <1>0, <1>11 DEF DialOK
  <2> QED
    BY <2>1, <2>2, <2>3 DEF PairOK
<1>19. \A v \in Nodes : \A c \in DOMAIN conns' : PairOK(conns', pool, peer, v, c)
  BY <1>0, <1>13, <1>16, <1>17, <1>18
<1> QED
  BY <1>1, <1>14, <1>19 DEF Held

LEMMA HeldNext ==
    ASSUME Typed, clock # 0, Held(conns, pool, peer), Next
    PROVE  Held(conns', pool', peer') /\ clock' # 0
<1>0. Sound(conns) /\ calls \in [Nodes -> Nat]
  BY DEF Typed
<1>1. ASSUME NEW n \in Nodes, NEW ts, do_handshake(n, ts)
      PROVE  Held(conns', pool', peer') /\ clock' # 0
  <2>1. pool' = pool /\ peer' = peer
    BY <1>1 DEF do_handshake
  <2> QED
    BY <1>1, <2>1, HandshakeStarts
<1>2. ASSUME NEW n \in Nodes, DialFails(n) \/ ConnectTo(n) \/ PingPeers(n)
      PROVE  Held(conns', pool', peer') /\ clock' # 0
  <2>1. \E t : try_start_connection(n, conns, t)
    BY <1>2 DEF DialFails, ConnectTo, PingPeers
  <2>2. UNCHANGED <<pool, peer, clock>>
    BY <1>2 DEF DialFails, ConnectTo, PingPeers
  <2> QED
    BY <1>0, <2>1, <2>2, TryHeld
<1>3. ASSUME NEW n \in Nodes, NEW c \in DOMAIN conns, Receive(n, c)
      PROVE  Held(conns', pool', peer') /\ clock' # 0
  <2>1. peer' = peer /\ clock' = clock
    BY <1>3 DEF Receive
  <2> QED
    BY <1>3, <2>1, ReceiveHeld
<1>4. ASSUME NEW n \in Nodes, handle_p2p_tcp_event(n)
      PROVE  Held(conns', pool', peer') /\ clock' # 0
  <2>1. clock' = clock
    BY <1>4 DEF handle_p2p_tcp_event
  <2> QED
    BY <1>4, <2>1, TcpEventHeld
<1>5. ASSUME NEW n \in Nodes, send(n)
      PROVE  Held(conns', pool', peer') /\ clock' # 0
  <2>1. UNCHANGED <<pool, peer, clock>> /\ (conns' = conns \/ send_now(n, calls[n] + 1))
    BY <1>5 DEF send
  <2>2. calls[n] + 1 \in Nat
    BY <1>0
  <2> QED
    BY <1>0, <2>1, <2>2, SendNowHeld
<1>6. ASSUME NEW n \in Nodes, NEW to, broadcast(n, to)
      PROVE  Held(conns', pool', peer') /\ clock' # 0
  BY <1>6 DEF broadcast
<1>7. ASSUME NEW n \in Nodes, actually_send_to(n)
      PROVE  Held(conns', pool', peer') /\ clock' # 0
  <2>1. UNCHANGED <<pool, peer, clock>>
    BY <1>7 DEF actually_send_to
  <2> QED
    BY <1>7, <2>1, ActuallySendHeld
<1>8. ASSUME NEW n \in Nodes, NEW c \in DOMAIN conns, Stall(n, c)
      PROVE  Held(conns', pool', peer') /\ clock' # 0
  <2>1. UNCHANGED <<pool, peer, clock>>
    BY <1>8 DEF Stall
  <2> QED
    BY <1>0, <1>8, <2>1, StallHeld
<1>9. ASSUME NEW n \in Nodes, Restart(n)
      PROVE  Held(conns', pool', peer') /\ clock' # 0
  <2>1. clock' = clock
    BY <1>9 DEF Restart
  <2> QED
    BY <1>9, <2>1, RestartHeld
<1>10. ASSUME NEW c \in DOMAIN conns, Cut(c)
       PROVE  Held(conns', pool', peer') /\ clock' # 0
  <2>1. UNCHANGED <<pool, peer, clock>>
    BY <1>10 DEF Cut
  <2> QED
    BY <1>0, <1>10, <2>1, CutHeld
<1> QED
  BY <1>1, <1>2, <1>3, <1>4, <1>5, <1>6, <1>7, <1>8, <1>9, <1>10 DEF Next

-----------------------------------------------------------------------------
(* Agreement.                                                              *)

\* What n writes on is read at both ends, and the other node knows n: on that stream if n has
\* dialled it, else on the one it dialled last, when that stream still has its name there.
LEMMA WrittenIsRead ==
    ASSUME Typed, Held(conns, pool, peer), Settled, NEW n \in Nodes, Known(n),
           NEW c \in Writable(conns, n, peer[n].name)
    PROVE  /\ c \in DOMAIN conns /\ Name(c, n) = peer[n].name
           /\ conns[c].end[n].reg /\ conns[c].end[n].rcv /\ conns[c].end[n].snd
           /\ conns[c].end[Other(n)].rcv /\ ~conns[c].cut
           /\ Known(Other(n))
           /\ conns[c].from = n => peer[Other(n)].name = c
           /\ conns[c].from # n /\ conns[c].end[Other(n)].reg => peer[Other(n)].name = Dial
<1> DEFINE o == Other(n)
<1>0. /\ Sound(conns) /\ o \in Nodes /\ o # n /\ Other(o) = n /\ (\A v \in Nodes : v = n \/ v = o)
  BY OtherOK DEF Typed
<1>1. /\ c \in DOMAIN conns /\ conns[c].end[n].reg /\ conns[c].end[n].snd
      /\ Name(c, n) = peer[n].name
  BY DEF Writable, Registered, Name
<1>2. conns[c].from \in Nodes
  BY <1>0, <1>1, ConnFields
<1> HIDE DEF o
<1>3. PairOK(conns, pool, peer, n, c) /\ PairOK(conns, pool, peer, o, c)
  BY <1>0, <1>1 DEF Held
<1>4. \A v \in Nodes : InPool(pool, v, c) = {}
  BY EmptyPart DEF Settled, InPool
<1>5. conns[c].end[n].rcv
  BY <1>1, <1>3, <1>4 DEF PairOK, EndOK
<1>6. ~conns[c].cut /\ conns[c].q[n] = <<>> /\ (conns[c].end[o].rcv \/ conns[c].end[o].snd)
  BY <1>1, <1>5 DEF Settled, Closed, o
<1>7. conns[c].end[o].rcv
  BY <1>0, <1>3, <1>4, <1>6 DEF PairOK, EndOK
<1>8. conns[c].q[o] = <<>>
  BY <1>0, <1>1, <1>7 DEF Settled
<1>9. \A k : ~Due(conns, pool, k, n, c) /\ ~Due(conns, pool, k, o, c)
  BY <1>0, <1>4, <1>6, <1>8, FlowsOK DEF Due
<1>10. Carries(conns, o, c)
  BY <1>0, <1>1, <1>6, <1>7 DEF Carries
<1>11. CASE conns[c].from = n
  <2>1. conns[c].end[o].reg
    BY <1>0, <1>3, <1>7, <1>11 DEF PairOK, EndOK
  <2>2. KeptAs(peer, o, c)
    BY <1>0, <1>3, <1>9, <1>10, <1>11, <2>1 DEF PairOK, AnswerOK
  <2> QED
    BY <1>1, <1>5, <1>6, <1>7, <1>11, <2>2 DEF KeptAs, Known, o
<1>12. CASE conns[c].from = o
  <2>1. KeptAs(peer, n, c)
    BY <1>0, <1>1, <1>12 DEF Name, KeptAs, Known
  <2>2. peer[o] # Unknown /\ (conns[c].end[o].reg => peer[o].name = Dial)
    BY <1>0, <1>3, <1>9, <1>10, <1>12, <2>1 DEF PairOK, DialOK
  <2> QED
    BY <1>0, <1>1, <1>5, <1>6, <1>7, <1>12, <2>2 DEF Known, o
<1> QED
  BY <1>0, <1>2, <1>11, <1>12

LEMMA AgreeOK ==
    ASSUME Typed, Held(conns, pool, peer)
    PROVE  PeersAgree
<1> SUFFICES ASSUME Settled, NEW n \in Nodes, Known(n)
             PROVE  /\ \A v \in Nodes : Reaches(v)
                    /\ \/ Orphans
                       \/ \E c \in DOMAIN conns :
                            \A v \in Nodes : /\ peer[v].name = Name(c, v)
                                             /\ conns[c].end[v] = [reg |-> TRUE, rcv |-> TRUE, snd |-> TRUE]
  BY DEF PeersAgree
<1> DEFINE o == Other(n)
<1>0. /\ Sound(conns) /\ o \in Nodes /\ o # n /\ Other(o) = n /\ (\A v \in Nodes : v = n \/ v = o)
  BY OtherOK DEF Typed
<1>1. PICK c : c \in Writable(conns, n, peer[n].name)
  BY DEF Settled
<1>2. /\ c \in DOMAIN conns /\ Name(c, n) = peer[n].name
      /\ conns[c].end[n].reg /\ conns[c].end[n].rcv /\ conns[c].end[n].snd
      /\ conns[c].end[o].rcv /\ ~conns[c].cut
      /\ Known(o)
      /\ conns[c].from = n => peer[o].name = c
      /\ conns[c].from # n /\ conns[c].end[o].reg => peer[o].name = Dial
  BY <1>1, WrittenIsRead
<1> HIDE DEF o
<1>3. PICK d : d \in Writable(conns, o, peer[o].name)
  BY <1>0, <1>2 DEF Settled
<1>4. /\ d \in DOMAIN conns /\ Name(d, o) = peer[o].name
      /\ conns[d].end[o].reg /\ conns[d].end[o].rcv /\ conns[d].end[o].snd
      /\ conns[d].end[Other(o)].rcv /\ ~conns[d].cut
  BY <1>0, <1>2, <1>3, WrittenIsRead
<1>5. Reaches(n) /\ Reaches(o)
  BY <1>1, <1>2, <1>3, <1>4 DEF Reaches, o
<1>6. conns[c].from \in Nodes /\ c # Dial
  BY <1>0, <1>2, ConnFields
<1>7. ASSUME ~Orphans PROVE c = d
  <2>1. CASE conns[c].from = n
    BY <1>2, <1>4, <1>6, <2>1 DEF Name
  <2>2. CASE conns[c].from = o
    <3>1. conns[c].end[o].reg
      BY <1>0, <1>2, <1>7 DEF Orphans
    <3>2. peer[o].name = Dial
      BY <1>0, <1>2, <2>2, <3>1
    <3>3. conns[d].from = o
      <4>1. d # Dial
        BY <1>0, <1>4, ConnFields
      <4> QED
        BY <1>4, <3>2, <4>1 DEF Name
    <3> QED
      BY <1>0, <1>2, <1>4, <2>2, <3>1, <3>3 DEF Sound, OneDial
  <2> QED
    BY <1>0, <1>6, <2>1, <2>2
<1>8. ASSUME ~Orphans, NEW v \in Nodes
      PROVE  /\ peer[v].name = Name(c, v)
             /\ conns[c].end[v] = [reg |-> TRUE, rcv |-> TRUE, snd |-> TRUE]
  <2>1. c = d
    BY <1>7, <1>8
  <2>2. conns[c].end[v] \in End
    BY <1>0, <1>2, ConnFields
  <2>3. conns[c].end[v].reg = TRUE /\ conns[c].end[v].rcv = TRUE /\ conns[c].end[v].snd = TRUE
    BY <1>0, <1>2, <1>4, <2>1, <2>2 DEF End
  <2>4. peer[v].name = Name(c, v)
    BY <1>0, <1>2, <1>4, <2>1
  <2> QED
    BY <2>2, <2>3, <2>4 DEF End
<1> QED
  BY <1>0, <1>2, <1>5, <1>8

LEMMA HeldFirst == Init => clock # 0 /\ Held(conns, pool, peer)
<1> SUFFICES ASSUME Init PROVE clock # 0 /\ Held(conns, pool, peer)
  OBVIOUS
<1>1. DOMAIN conns = {} /\ clock = 1
  BY EmptyPart DEF Init
<1>2. peer \in [Nodes -> [ts : Nat, name : Nat]] /\ \A n \in Nodes : peer[n].name = Dial
  BY DEF Init, Unknown, Dial
<1> QED
  BY <1>1, <1>2 DEF Held, PeersOK, TimesOK

\* What holds of every connection whatever the two nodes do: a stream in the list of sockets is
\* read or its end is noted, the Hello and the Verack are on their way until they are answered, and
\* a peer is kept on a stream that exists.
THEOREM HandshakesHold == Spec => []AInv
<1>1. Init => AInv
  BY InitOK, HeldFirst DEF AInv
<1>2. AInv /\ [Next]_vars => AInv'
  <2>1. ASSUME AInv, Next PROVE AInv'
    <3>1. IInv /\ Typed /\ clock # 0 /\ Held(conns, pool, peer)
      BY <2>1 DEF AInv, IInv
    <3>2. IInv'
      BY <2>1, <3>1, NextOK
    <3>3. Held(conns', pool', peer') /\ clock' # 0
      BY <2>1, <3>1, HeldNext
    <3>4. (Held(conns, pool, peer))'
      BY <3>3
    <3> QED
      BY <3>2, <3>3, <3>4 DEF AInv
  <2>2. ASSUME AInv, UNCHANGED vars PROVE AInv'
    <3>1. UNCHANGED <<conns, pool, jobs, calls, clock>> /\ peer' = peer
      BY <2>2 DEF vars
    <3>2. IInv'
      BY <2>2, <3>1, Unmoved, ConnsStep DEF AInv
    <3> QED
      BY <2>2, <3>1, <3>2 DEF AInv
  <2> QED
    BY <2>1, <2>2
<1> QED
  BY <1>1, <1>2, PTL DEF Spec

\* However the two nodes dialled each other and whatever broke in between, once nothing is left to
\* do and one of them knows the other, each writes on a stream that the other reads; and it is one
\* connection that both keep, unless a reader of an earlier stream was left on.
THEOREM PeersAlwaysAgree == Spec => []PeersAgree
<1>1. AInv => PeersAgree
  BY AgreeOK DEF AInv, IInv
<1> QED
  BY <1>1, HandshakesHold, PTL
=============================================================================
