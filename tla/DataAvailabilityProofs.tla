----------------------- MODULE DataAvailabilityProofs -----------------------
(***************************************************************************)
(* Proofs about the data availability of a joining node: its store has no  *)
(* hole, the NodeState it feeds holds the stored blocks that the bus took, *)
(* and catching up is not over before the blocks below the mempool's first *)
(* are stored, for any height of the chain, any past of the peer and any   *)
(* number of faults.                                                       *)
(***************************************************************************)
EXTENDS DataAvailability, Inductions, SequenceTheorems

\* The peer's mempool builds in order, and the joiner lets a block in only after its parent.
IsChain(S) == S = {} \/ \E k \in Heights : S = 0..k

Chains ==
    /\ IsChain(stored["joiner"]) /\ IsChain(stored["peer"]) /\ stored["peer"] # {}
    /\ indexed["joiner"] \subseteq stored["joiner"]

\* A buffered block waits for its parent.
Waiting == \A h \in buffered : h \notin stored["joiner"] /\ ~follows(stored["joiner"], h)

\* NodeState is made of stored blocks, all that were sent to it if it was not loaded behind.
NodeStateAt ==
    /\ unsent \subseteq stored["joiner"]
    /\ ns.seen \subseteq stored["joiner"] /\ ns.saved \subseteq stored["joiner"]
    /\ NodeStateFollows

\* What is known of the mempool's first block when catching up is over: it is the one after
\* the genesis block that the node built itself, or the one after catchup_height.
CatchingUp ==
    /\ genesis = "block" => mempool.early
    /\ mempool.early => mempool.from \in {1, None} /\ genesis # "no"
    /\ mempool.early /\ genesis = "done" => 0 \in stored["joiner"]
    /\ until # None => until + 1 \in Heights /\ mempool.from = until + 1
    /\ genesis = "done" /\ ~need /\ ~mempool.early =>
          until # None /\ 0..until \subseteq stored["joiner"]

IInv == TypeOK /\ Chains /\ Waiting /\ NodeStateAt /\ CatchingUp

-----------------------------------------------------------------------------
(* The operators. *)

LEMMA HeightFacts ==
    /\ MaxHeight \in Nat /\ MaxPast \in 0..MaxHeight /\ MaxFaults \in Nat
    /\ 0 \in Heights /\ None \notin Heights /\ None \in Nat
    /\ \A h \in Heights : h \in Nat /\ h <= MaxHeight
BY BoundsAssumption DEF Heights, None

LEMMA HighestOK ==
    ASSUME NEW S, S \in SUBSET Heights, S # {}
    PROVE  Highest(S) \in S /\ \A g \in S : g <= Highest(S)
<1>1. \E h \in S : \A g \in S : g <= h
  BY GreatestElement, HeightFacts DEF Heights
<1> QED
  BY <1>1 DEF Highest

LEMMA HighestOfChain ==
    ASSUME NEW k \in Heights
    PROVE  Highest(0..k) = k
<1>1. 0..k \in SUBSET Heights /\ k \in 0..k
  BY HeightFacts DEF Heights
<1>2. Highest(0..k) \in 0..k /\ k <= Highest(0..k)
  BY <1>1, HighestOK
<1> QED
  BY <1>2, HeightFacts

\* pop_buffer takes the buffered blocks up to the first that is missing.
LEMMA PoppedOK ==
    ASSUME NEW h \in Heights, NEW buf, buf \in SUBSET Heights
    PROVE  /\ popped(h, buf) \in 0..MaxHeight
           /\ \A i \in 1..popped(h, buf) : h + i \in buf
           /\ h + popped(h, buf) + 1 \notin buf
<1> DEFINE T == {k \in 0..MaxHeight : h + k + 1 \notin buf}
<1>1. T \in SUBSET Nat
  OBVIOUS
<1>2. MaxHeight \in T
  <2>1. h + MaxHeight + 1 \notin Heights
    BY HeightFacts
  <2> QED
    BY <2>1, HeightFacts
<1>3. PICK k \in T : \A m \in T : k <= m
  <2> HIDE DEF T
  <2> QED
    BY <1>1, <1>2, LeastElement
<1>4. ASSUME NEW i \in 1..k PROVE h + i \in buf
  <2>1. i - 1 \in 0..MaxHeight /\ i - 1 \notin T /\ h + (i - 1) + 1 = h + i
    BY <1>3, HeightFacts
  <2> QED
    BY <2>1
<1>5. \E j \in 0..MaxHeight : (\A i \in 1..j : h + i \in buf) /\ h + j + 1 \notin buf
  BY <1>4
<1> QED
  BY <1>5 DEF popped

\* What pop_buffer takes ends within the chain.
LEMMA PoppedBound ==
    ASSUME NEW h \in Heights, NEW buf, buf \in SUBSET Heights
    PROVE  h + popped(h, buf) \in Heights
<1>1. CASE popped(h, buf) = 0
  BY <1>1, HeightFacts
<1>2. CASE popped(h, buf) # 0
  <2>1. popped(h, buf) \in 1..popped(h, buf)
    BY <1>2, PoppedOK, HeightFacts
  <2> QED
    BY <2>1, PoppedOK
<1> QED
  BY <1>1, <1>2

\* The blocks that are processed together.
LEMMA ProcessedOK ==
    ASSUME NEW h \in Heights, buffered \in SUBSET Heights
    PROVE  /\ Processed(h) \in Seq(Heights)
           /\ Len(Processed(h)) = 1 + popped(h, buffered)
           /\ \A i \in 1..(1 + popped(h, buffered)) : Processed(h)[i] = h + i - 1
           /\ {Processed(h)[i] : i \in DOMAIN Processed(h)} = h..(h + popped(h, buffered))
<1> DEFINE k == popped(h, buffered)
           new == Processed(h)
<1>1. k \in Nat /\ h \in Nat /\ h + k \in Heights
  BY PoppedOK, PoppedBound, HeightFacts
<1>2. new = [i \in 1..(1 + k) |-> h + i - 1]
  BY DEF Processed, Seq1
<1> HIDE DEF k, new
<1>3. \A i \in 1..(1 + k) : h + i - 1 \in Heights
  BY <1>1, HeightFacts DEF Heights
<1>4. new \in Seq(Heights) /\ Len(new) = 1 + k /\ DOMAIN new = 1..(1 + k)
  BY <1>1, <1>2, <1>3
<1>5. \A i \in 1..(1 + k) : new[i] = h + i - 1
  BY <1>2
<1>6. ASSUME NEW g \in h..(h + k) PROVE g \in {new[i] : i \in DOMAIN new}
  <2>1. g - h + 1 \in 1..(1 + k) /\ h + (g - h + 1) - 1 = g
    BY <1>1
  <2> QED
    BY <1>4, <1>5, <2>1
<1>7. ASSUME NEW i \in DOMAIN new PROVE new[i] \in h..(h + k)
  BY <1>1, <1>4, <1>5
<1> QED
  BY <1>4, <1>5, <1>6, <1>7 DEF k, new

\* start_streaming_to_peer sends heights: the i-th block of the range is one with i - 1 below it.
LEMMA RankOK ==
    ASSUME NEW S, S \in SUBSET Heights, NEW i \in 1..Cardinality(S)
    PROVE  \E h \in S : Cardinality({g \in S : g < h}) = i - 1
<1> DEFINE Below(n) == {g \in S : g < n}
           T == {n \in Nat : Cardinality(Below(n)) >= i}
<1>1. IsFiniteSet(S) /\ Cardinality(S) \in Nat
  BY HeightFacts, FS_BoundedSetOfNaturals, FS_CardinalityType
<1>2. \A n \in Nat : IsFiniteSet(Below(n)) /\ Cardinality(Below(n)) \in Nat
  BY <1>1, FS_Subset, FS_CardinalityType
<1>3. MaxHeight + 1 \in T
  <2>1. Below(MaxHeight + 1) = S
    BY HeightFacts
  <2> QED
    BY <1>1, <2>1, HeightFacts
<1>4. PICK n \in T : \A m \in T : n <= m
  <2>1. T \in SUBSET Nat
    OBVIOUS
  <2> HIDE DEF T
  <2> QED
    BY <1>3, <2>1, LeastElement
<1>5. n # 0
  <2>1. Below(0) = {}
    BY HeightFacts
  <2> QED
    BY <1>1, <2>1, <1>4, FS_EmptySet
<1>6. n - 1 \in Nat /\ n - 1 \notin T
  BY <1>4, <1>5
<1> DEFINE A == Below(n - 1)
           B == Below(n)
<1>7. Cardinality(A) <= i - 1 /\ Cardinality(A) \in Nat /\ IsFiniteSet(A)
      /\ Cardinality(B) >= i /\ Cardinality(B) \in Nat
  BY <1>1, <1>2, <1>4, <1>6
<1>8. B \subseteq A \cup {n - 1}
  BY <1>4, HeightFacts
<1>9. n - 1 \in S
  <2>1. SUFFICES ASSUME n - 1 \notin S PROVE FALSE
    OBVIOUS
  <2>2. B \subseteq A
    BY <1>8, <2>1
  <2>3. Cardinality(B) <= Cardinality(A)
    BY <1>7, <2>2, FS_Subset
  <2> HIDE DEF A, B
  <2> QED
    BY <1>1, <1>7, <2>3
<1>10. Cardinality(A) = i - 1
  <2> HIDE DEF A, B
  <2>1. IsFiniteSet(A \cup {n - 1}) /\ Cardinality(A \cup {n - 1}) <= Cardinality(A) + 1
    <3>1. IsFiniteSet(A)
      BY <1>7
    <3>2. /\ IsFiniteSet(A \cup {n - 1})
          /\ Cardinality(A \cup {n - 1}) = IF n - 1 \in A THEN Cardinality(A) ELSE Cardinality(A) + 1
      BY <3>1, FS_AddElement, Zenon
    <3> QED
      BY <1>7, <3>2
  <2>2. Cardinality(B) <= Cardinality(A \cup {n - 1})
    BY <1>8, <2>1, FS_Subset
  <2>3. Cardinality(A \cup {n - 1}) \in Nat
    BY <2>1, FS_CardinalityType
  <2> QED
    BY <1>1, <1>7, <2>1, <2>2, <2>3
<1> QED
  BY <1>9, <1>10

LEMMA RangeOK ==
    ASSUME indexed \in [Nodes -> SUBSET Heights], NEW n \in Nodes, NEW from
    PROVE  range(n, from) \in Seq(Heights)
<1> DEFINE S == {h \in indexed[n] : h >= from}
           f(i) == CHOOSE h \in S : Cardinality({g \in S : g < h}) = i - 1
<1>1. S \in SUBSET Heights
  OBVIOUS
<1>2. Cardinality(S) \in Nat
  BY <1>1, HeightFacts, FS_BoundedSetOfNaturals, FS_CardinalityType
<1>3. ASSUME NEW i \in 1..Cardinality(S) PROVE f(i) \in Heights
  <2>1. \E h \in S : Cardinality({g \in S : g < h}) = i - 1
    <3> HIDE DEF S
    <3> QED
      BY <1>1, RankOK
  <2> HIDE DEF S
  <2>2. f(i) \in S
    BY <2>1
  <2> QED
    BY <1>1, <2>2
<1>4. range(n, from) = [i \in 1..Cardinality(S) |-> f(i)]
  BY DEF range
<1> HIDE DEF S, f
<1> QED
  BY <1>2, <1>3, <1>4, SeqDef

-----------------------------------------------------------------------------
(* Blocks entering the joiner's store. *)

\* A block that is let in is the next one.
LEMMA AdmitsNext ==
    ASSUME IInv, NEW h \in Heights, Admits(h)
    PROVE  \/ stored["joiner"] = {} /\ h = 0
           \/ h > 0 /\ stored["joiner"] = 0..(h - 1)
<1>1. CASE stored["joiner"] = {}
  BY <1>1 DEF Admits, follows
<1>2. CASE stored["joiner"] # {}
  <2>1. PICK k \in Heights : stored["joiner"] = 0..k
    BY <1>2 DEF IInv, Chains, IsChain
  <2>2. h > 0 /\ h - 1 \in 0..k /\ h \notin 0..k
    BY <1>2, <2>1 DEF Admits, follows, already
  <2>3. h - 1 = k
    BY <2>2, HeightFacts
  <2> QED
    BY <2>1, <2>2, <2>3
<1> QED
  BY <1>1, <1>2

LEMMA GrowsTo ==
    ASSUME IInv, NEW h \in Heights, Admits(h)
    PROVE  stored["joiner"] \cup (h..(h + popped(h, buffered))) = 0..(h + popped(h, buffered))
<1>1. popped(h, buffered) \in Nat /\ h \in Nat
  BY PoppedOK, HeightFacts DEF IInv, TypeOK
<1> QED
  BY <1>1, AdmitsNext

\* broadcast keeps the shape of the connections.
LEMMA BroadcastOK ==
    ASSUME NEW n, NEW new \in Seq(Heights), NEW cs \in [Clients -> Connection]
    PROVE  broadcast(n, new, cs) \in [Clients -> Connection]
<1>1. ASSUME NEW c \in Clients PROVE [cs[c] EXCEPT !.wire = @ \o new] \in Connection
  <2>1. cs[c] \in Connection /\ cs[c].wire \in Seq(Heights)
    BY DEF Connection
  <2>2. cs[c].wire \o new \in Seq(Heights)
    BY <2>1
  <2> QED
    BY <2>1, <2>2 DEF Connection
<1> QED
  BY <1>1 DEF broadcast

\* The height of a NodeState made of the blocks of S.
LEMMA HeightOK ==
    ASSUME NEW S, S \in SUBSET Heights
    PROVE  /\ current_height(S) \in S \cup {0} /\ current_height(S) \in Heights
           /\ \A g \in S : g <= current_height(S)
<1>1. S \cup {0} \in SUBSET Heights /\ S \cup {0} # {}
  BY HeightFacts
<1> QED
  BY <1>1, HighestOK DEF current_height

\* Gap, for a store A of which the blocks of U were not sent.
GapIn(A, U) == \E x \in U, g \in A \ U : 0 < x /\ x < g

\* NodeState takes every block of S.
TakesAll(n, S) == taken(n, S) = S

\* A sent block behind one that was not is refused: the first such block is not the next one.
LEMMA RefusedBehind ==
    ASSUME NEW h \in Heights, NEW t \in Heights, NEW U, U \in SUBSET (0..(h - 1)),
           NEW lost, lost \in SUBSET (h..t), NEW n \in NodeStates, ~n.failed,
           ~GapIn(0..(h - 1), U), n.seen = (0..(h - 1)) \ U, GapIn(0..t, U \cup lost)
    PROVE  ~TakesAll(n, (h..t) \ lost)
<1> DEFINE S == (h..t) \ lost
<1>1. h \in Nat /\ t \in Nat /\ S \in SUBSET Heights /\ 0..t \in SUBSET Heights
  BY HeightFacts DEF Heights
<1>2. PICK x \in U \cup lost, y \in (0..t) \ (U \cup lost) : 0 < x /\ x < y
  BY DEF GapIn
<1>3. x \in Nat /\ y \in Nat
  BY <1>1, <1>2
<1>4. y \in S
  <2>1. SUFFICES ASSUME y \notin S PROVE FALSE
    OBVIOUS
  <2>2. y < h /\ x < h /\ y \in (0..(h - 1)) \ U
    BY <1>1, <1>2, <1>3, <2>1
  <2>3. x \in U
    BY <1>1, <1>3, <2>2
  <2> QED
    BY <1>2, <2>2, <2>3 DEF GapIn
<1> DEFINE M == {z \in S : x < z}
<1>5. PICK g \in M : \A z \in M : g <= z
  <2>1. M \in SUBSET Nat /\ M # {}
    BY <1>1, <1>2, <1>4, HeightFacts
  <2> HIDE DEF M
  <2> QED
    BY <2>1, LeastElement
<1> DEFINE B == n.seen \cup {z \in S : z < g}
<1>6. g \in S /\ x < g /\ g \in Nat
  BY <1>1, <1>5, HeightFacts
<1>7. ASSUME NEW b \in B PROVE b < x
  <2>1. CASE b \in (0..(h - 1)) \ U
    <3>1. b \in Nat /\ b < h
      BY <1>1, <2>1
    <3>2. CASE x \in U
      <4>1. ~(x < b)
        BY <1>2, <2>1, <3>2 DEF GapIn
      <4>2. b # x
        BY <2>1, <3>2
      <4> QED
        BY <1>3, <3>1, <4>1, <4>2
    <3>3. CASE x \in lost
      BY <1>1, <1>3, <3>1, <3>3
    <3> QED
      BY <1>2, <3>2, <3>3
  <2>2. CASE b \in S /\ b < g
    <3>1. b \in Nat /\ b >= h /\ b \notin lost
      BY <1>1, <2>2
    <3>2. b # x
      BY <1>1, <1>2, <3>1
    <3>3. ~(x < b)
      BY <1>5, <1>6, <2>2, <3>1
    <3> QED
      BY <1>3, <3>1, <3>2, <3>3
  <2> QED
    BY <1>7, <2>1, <2>2
<1>8. B \in SUBSET Heights
  BY <1>1 DEF NodeStates
<1> HIDE DEF B, M
<1>9. current_height(B) \in Nat /\ current_height(B) < x
  BY <1>2, <1>3, <1>7, <1>8, HeightOK, HeightFacts
<1>10. ~accepts(B, g)
  BY <1>3, <1>6, <1>9 DEF accepts
<1>11. g \notin taken(n, S)
  BY <1>6, <1>10 DEF taken, B
<1> QED
  BY <1>6, <1>11 DEF TakesAll

\* Without such a block, each block that is sent is the next one.
LEMMA TakenAll ==
    ASSUME NEW h \in Heights, NEW t \in Heights, NEW U, U \in SUBSET (0..(h - 1)),
           NEW lost, lost \in SUBSET (h..t), NEW n \in NodeStates, ~n.failed,
           n.seen = (0..(h - 1)) \ U, ~GapIn(0..t, U \cup lost)
    PROVE  TakesAll(n, (h..t) \ lost)
<1> DEFINE S == (h..t) \ lost
<1>1. h \in Nat /\ t \in Nat /\ S \in SUBSET Heights
  BY HeightFacts DEF Heights
<1>2. SUFFICES ASSUME NEW g \in S PROVE accepts(n.seen \cup {z \in S : z < g}, g)
  BY DEF taken, TakesAll
<1> DEFINE B == n.seen \cup {z \in S : z < g}
<1>3. g \in Nat /\ h <= g /\ g <= t /\ g \notin U \cup lost
  BY <1>1
<1>4. B \in SUBSET Heights
  BY <1>1 DEF NodeStates
<1>5. \A b \in B : b \in Nat /\ b < g
  BY <1>1, <1>3
<1>6. ASSUME g - 1 > 0 PROVE g - 1 \in B
  <2>1. g - 1 \notin U \cup lost
    <3>1. g \in (0..t) \ (U \cup lost)
      BY <1>1, <1>3
    <3> QED
      BY <1>3, <1>6, <3>1 DEF GapIn
  <2>2. g - 1 \in 0..(h - 1) \/ g - 1 \in h..t
    BY <1>1, <1>3, <1>6
  <2> QED
    BY <1>3, <2>1, <2>2
<1> HIDE DEF B
<1>7. current_height(B) \in B \cup {0} /\ \A b \in B : b <= current_height(B)
  BY <1>4, HeightOK
<1>8. CASE g = 0
  <2>1. current_height(B) = 0
    BY <1>5, <1>7, <1>8
  <2> QED
    BY <1>8, <2>1 DEF accepts, B
<1>9. CASE g > 0
  <2>1. current_height(B) = g - 1
    BY <1>3, <1>5, <1>6, <1>7, <1>9
  <2> QED
    BY <1>3, <2>1 DEF accepts, B
<1> QED
  BY <1>3, <1>8, <1>9

\* What NodeState is after the blocks h..t were stored and all but those of lost were sent.
LEMMA HandledOK ==
    ASSUME NEW h \in Heights, NEW t \in Heights, h <= t, NEW U, U \in SUBSET (0..(h - 1)),
           NEW lost, lost \in SUBSET (h..t), NEW n \in NodeStates,
           n.failed <=> GapIn(0..(h - 1), U), ~n.failed => n.seen = (0..(h - 1)) \ U
    PROVE  LET m == Handled(n, (h..t) \ lost)
           IN  /\ m.failed <=> GapIn(0..t, U \cup lost)
               /\ ~m.failed => m.seen = (0..t) \ (U \cup lost)
<1> DEFINE S == (h..t) \ lost
           m == Handled(n, S)
<1>1. h \in Nat /\ t \in Nat
  BY HeightFacts
<1>2. m.failed = (n.failed \/ taken(n, S) # S) /\ m.seen = n.seen \cup taken(n, S)
  BY DEF Handled, NodeStates
<1>3. CASE n.failed
  <2>1. PICK x \in U, g \in (0..(h - 1)) \ U : 0 < x /\ x < g
    BY <1>3 DEF GapIn
  <2>2. g \in (0..t) \ (U \cup lost)
    BY <1>1, <2>1
  <2>3. GapIn(0..t, U \cup lost)
    BY <2>1, <2>2 DEF GapIn
  <2> QED
    BY <1>2, <1>3, <2>3
<1>4. CASE ~n.failed /\ GapIn(0..t, U \cup lost)
  <2>1. ~TakesAll(n, (h..t) \ lost)
    <3>1. ~n.failed /\ ~GapIn(0..(h - 1), U) /\ n.seen = (0..(h - 1)) \ U /\ GapIn(0..t, U \cup lost)
      BY <1>4
    <3> HIDE DEF m
    <3> QED
      BY <3>1, RefusedBehind
  <2> QED
    BY <1>2, <1>4, <2>1 DEF TakesAll
<1>5. CASE ~n.failed /\ ~GapIn(0..t, U \cup lost)
  <2>1. TakesAll(n, (h..t) \ lost)
    <3>1. n.seen = (0..(h - 1)) \ U
      BY <1>5
    <3> HIDE DEF S, m
    <3> QED
      BY <1>5, <3>1, TakenAll
  <2>2. ((0..(h - 1)) \ U) \cup S = (0..t) \ (U \cup lost)
    BY <1>1
  <2> QED
    BY <1>2, <1>5, <2>1, <2>2 DEF TakesAll
<1> QED
  BY <1>3, <1>4, <1>5

LEMMA HandledType ==
    ASSUME NEW n \in NodeStates, NEW S, S \in SUBSET Heights
    PROVE  /\ Handled(n, S) \in NodeStates /\ Handled(n, S).saved = n.saved
           /\ Handled(n, S).seen \subseteq n.seen \cup S
<1>1. taken(n, S) \subseteq S
  BY DEF taken
<1> QED
  BY <1>1 DEF Handled, NodeStates

\* What every caller of handle_signed_block relies on.
HandledState ==
    /\ stored' \in [Nodes -> SUBSET Heights] /\ indexed' \in [Nodes -> SUBSET Heights]
    /\ buffered' \subseteq Heights
    /\ ns' \in NodeStates /\ unsent' \subseteq Heights /\ faults' \in 0..MaxFaults
    /\ conn' \in [Clients -> Connection]
    /\ stored'["peer"] = stored["peer"] /\ stored["joiner"] \subseteq stored'["joiner"]

LEMMA NotAdmitted ==
    ASSUME IInv, NEW h \in Heights, NEW cs \in [Clients -> Connection], lagged' = lagged,
           UNCHANGED <<stored, indexed, ns, unsent, faults>>, conn' = cs,
           \/ buffered' = buffered
           \/ /\ ~already(stored["joiner"], h) /\ ~follows(stored["joiner"], h)
              /\ buffered' = buffered \cup {h}
    PROVE  HandledState /\ Chains' /\ Waiting' /\ NodeStateAt'
<1>1. HandledState
  BY DEF HandledState, IInv, TypeOK
<1>2. Chains'
  BY DEF IInv, Chains
<1>3. Waiting'
  BY DEF IInv, Waiting, already
<1>4. NodeStateAt'
  BY DEF IInv, NodeStateAt, NodeStateFollows, Gap
<1> QED
  BY <1>1, <1>2, <1>3, <1>4

LEMMA Admitted ==
    ASSUME IInv, NEW h \in Heights, NEW cs \in [Clients -> Connection], lagged' = lagged,
           Admits(h), handle_signed_block(h, cs)
    PROVE  /\ HandledState /\ Chains' /\ Waiting' /\ NodeStateAt'
           /\ stored'["joiner"] = 0..(h + popped(h, buffered))
<1> DEFINE k == popped(h, buffered)
<1>1. /\ stored \in [Nodes -> SUBSET Heights] /\ indexed \in [Nodes -> SUBSET Heights]
      /\ buffered \in SUBSET Heights
  BY DEF IInv, TypeOK
<1>2. k \in Nat /\ h \in Nat /\ h + k \in Heights /\ h + k + 1 \notin buffered
  BY <1>1, PoppedOK, PoppedBound, HeightFacts
<1>3. /\ stored' = [stored EXCEPT !["joiner"] = @ \cup (h..(h + k))]
      /\ indexed' = [indexed EXCEPT !["joiner"] = @ \cup (h..(h + k))]
      /\ buffered' = buffered \ (h..(h + k))
      /\ send_ordered(h..(h + k))
      /\ conn' = broadcast("joiner", Processed(h), cs)
  BY <1>1, ProcessedOK DEF handle_signed_block, put, Admits
<1>4. "joiner" \in Nodes /\ "peer" \in Nodes /\ h..(h + k) \subseteq Heights
  BY <1>2, HeightFacts DEF Nodes, Heights
<1>5. stored'["joiner"] = 0..(h + k) /\ stored'["peer"] = stored["peer"]
      /\ indexed'["joiner"] = indexed["joiner"] \cup (h..(h + k))
  BY <1>1, <1>3, <1>4, GrowsTo
<1>6. conn' \in [Clients -> Connection]
  BY <1>1, <1>3, BroadcastOK, ProcessedOK
<1>7. PICK lost \in SUBSET (h..(h + k)) :
         /\ lost # {} => faults < MaxFaults
         /\ faults' = IF lost = {} THEN faults ELSE faults + 1
         /\ unsent' = unsent \cup lost
         /\ ns' = Handled(ns, (h..(h + k)) \ lost)
  BY <1>3 DEF send_ordered
<1>12. ns \in NodeStates /\ unsent \subseteq stored["joiner"] /\ faults \in 0..MaxFaults
  BY DEF IInv, TypeOK, NodeStateAt
<1>13. ns' \in NodeStates /\ faults' \in 0..MaxFaults /\ unsent' \subseteq stored'["joiner"]
       /\ ns'.seen \subseteq stored'["joiner"] /\ ns'.saved \subseteq stored'["joiner"]
  <2>1. (h..(h + k)) \ lost \in SUBSET Heights
    BY <1>4
  <2>2. /\ ns' \in NodeStates /\ ns'.saved = ns.saved
        /\ ns'.seen \subseteq ns.seen \cup ((h..(h + k)) \ lost)
    <3> HIDE DEF k
    <3> QED
      BY <1>7, <1>12, <2>1, HandledType
  <2>3. faults' \in 0..MaxFaults
    BY <1>7, <1>12, HeightFacts
  <2>4. stored["joiner"] \subseteq stored'["joiner"] /\ h..(h + k) \subseteq stored'["joiner"]
    BY <1>1, <1>3, <1>4
  <2>5. ns.seen \subseteq stored["joiner"] /\ ns.saved \subseteq stored["joiner"]
    BY DEF IInv, NodeStateAt
  <2> HIDE DEF k
  <2> QED
    BY <1>7, <1>12, <2>2, <2>3, <2>4, <2>5
<1> HIDE DEF k
<1>8. HandledState
  <2>1. stored' \in [Nodes -> SUBSET Heights] /\ indexed' \in [Nodes -> SUBSET Heights]
    BY <1>1, <1>3, <1>4
  <2>2. stored["joiner"] \subseteq stored'["joiner"]
    BY <1>1, <1>3, <1>4
  <2> QED
    BY <1>1, <1>3, <1>5, <1>6, <1>13, <2>1, <2>2 DEF HandledState
<1>9. Chains'
  <2>1. IsChain(stored'["joiner"]) /\ IsChain(stored'["peer"]) /\ stored'["peer"] # {}
    BY <1>2, <1>5 DEF IInv, Chains, IsChain
  <2>2. indexed'["joiner"] \subseteq stored'["joiner"]
    BY <1>1, <1>3, <1>4 DEF IInv, Chains
  <2> QED
    BY <2>1, <2>2 DEF Chains
<1>10. Waiting'
  <2>1. SUFFICES ASSUME NEW g \in buffered' PROVE g \notin 0..(h + k) /\ ~follows(0..(h + k), g)
    BY <1>5 DEF Waiting
  <2>2. g \in buffered /\ g \in Nat /\ g \notin stored["joiner"] /\ g \notin h..(h + k)
    BY <1>1, <1>3, HeightFacts DEF IInv, Waiting
  <2>3. g \notin 0..(h + k)
    BY <1>1, <1>3, <1>4, <1>5, <2>2
  <2>4. g # h + k + 1
    BY <1>2, <2>2
  <2> QED
    BY <1>2, <2>2, <2>3, <2>4 DEF follows
<1>11. NodeStateAt'
  <2>1. SUFFICES ASSUME ~lagged
                 PROVE  /\ ns'.failed <=> GapIn(0..(h + k), unsent \cup lost)
                        /\ ~ns'.failed => ns'.seen = (0..(h + k)) \ (unsent \cup lost)
    BY <1>5, <1>7, <1>13 DEF NodeStateAt, NodeStateFollows, Gap, GapIn
  <2>2. stored["joiner"] = 0..(h - 1)
    <3>1. \/ stored["joiner"] = {} /\ h = 0
          \/ h > 0 /\ stored["joiner"] = 0..(h - 1)
      BY AdmitsNext
    <3>2. h = 0 => 0..(h - 1) = {}
      OBVIOUS
    <3> QED
      BY <3>1, <3>2
  <2>3. /\ ns.failed <=> GapIn(0..(h - 1), unsent)
        /\ ~ns.failed => ns.seen = (0..(h - 1)) \ unsent
    BY <2>1, <2>2 DEF IInv, NodeStateAt, NodeStateFollows, Gap, GapIn
  <2>4. h <= h + k /\ unsent \in SUBSET (0..(h - 1))
    BY <1>2, <1>12, <2>2
  <2> QED
    BY <1>2, <1>7, <1>12, <2>3, <2>4, HandledOK
<1> QED
  BY <1>5, <1>8, <1>9, <1>10, <1>11 DEF k

\* Wherever a block comes from, the store stays a chain and the buffer and NodeState fit it.
LEMMA HandleOK ==
    ASSUME IInv, NEW h \in Heights, NEW cs \in [Clients -> Connection], lagged' = lagged,
           handle_signed_block(h, cs)
    PROVE  /\ HandledState /\ Chains' /\ Waiting' /\ NodeStateAt'
           /\ Admits(h) => stored'["joiner"] = 0..(h + popped(h, buffered))
           /\ h = 0 => 0 \in stored'["joiner"]
<1>1. CASE Admits(h)
  <2>1. buffered \in SUBSET Heights
    BY DEF IInv, TypeOK
  <2>2. popped(h, buffered) \in Nat /\ h \in Nat
    BY <2>1, PoppedOK, HeightFacts
  <2>3. 0 \in 0..(h + popped(h, buffered))
    BY <2>2
  <2> QED
    BY <1>1, <2>3, Admitted
<1>2. CASE ~Admits(h)
  <2>1. HandledState /\ Chains' /\ Waiting' /\ NodeStateAt'
    BY <1>2, NotAdmitted DEF handle_signed_block, Admits
  <2>2. ASSUME h = 0 PROVE 0 \in stored["joiner"]
    <3>1. 0 \in stored["joiner"] \/ stored["joiner"] # {}
      BY <1>2, <2>2 DEF Admits, already, follows
    <3> QED
      BY <3>1, HeightFacts DEF IInv, Chains, IsChain
  <2> QED
    BY <1>2, <2>1, <2>2 DEF HandledState
<1> QED
  BY <1>1, <1>2

\* Whatever it does with a block, handle_signed_block never removes one.
LEMMA StoreGrows ==
    ASSUME IInv, NEW h \in Heights, NEW cs, handle_signed_block(h, cs)
    PROVE  stored["joiner"] \subseteq stored'["joiner"]
<1>1. stored \in [Nodes -> SUBSET Heights] /\ "joiner" \in Nodes
  BY DEF IInv, TypeOK, Nodes
<1>2. stored' = stored \/ \E set : stored' = put(stored, "joiner", set)
  BY DEF handle_signed_block
<1> QED
  BY <1>1, <1>2 DEF put

-----------------------------------------------------------------------------
(* The steps. *)

LEMMA ConnectionFacts ==
    /\ Closed \in Connection
    /\ \A h \in Heights \cup {None} : Asked(h) \in Connection
<1>1. <<>> \in Seq(Heights)
  OBVIOUS
<1> QED
  BY <1>1 DEF Closed, Asked, Connection

\* What Keeps leaves in the channel.
LEMMA KeepsOK ==
    ASSUME NEW wire \in Seq(Heights), Keeps(wire)
    PROVE  chan' \in Seq(Heights)
<1>1. PICK k \in 0..Len(wire) : chan' = SubSeq(wire, 1, k)
  BY DEF Keeps
<1>2. \A i \in 1..k : i \in 1..Len(wire) /\ wire[i] \in Heights
  BY <1>1
<1>3. SubSeq(wire, 1, k) \in Seq(Heights)
  BY <1>1, <1>2, SubSeqProperties
<1> QED
  BY <1>1, <1>3

LEMMA LastOK ==
    ASSUME IInv
    PROVE  /\ last("joiner") \in Heights \cup {None}
           /\ last("joiner") # None => 0..last("joiner") \subseteq stored["joiner"]
<1>1. CASE indexed["joiner"] = {}
  BY <1>1 DEF last
<1>2. CASE indexed["joiner"] # {}
  <2> DEFINE t == Highest(indexed["joiner"])
  <2>1. indexed["joiner"] \in SUBSET Heights
    BY DEF IInv, TypeOK, Nodes
  <2>2. t \in indexed["joiner"] /\ last("joiner") = t
    BY <1>2, <2>1, HighestOK DEF last
  <2>3. t \in stored["joiner"] /\ t \in Heights
    BY <2>1, <2>2 DEF IInv, Chains
  <2>4. PICK k \in Heights : stored["joiner"] = 0..k
    BY <2>3 DEF IInv, Chains, IsChain
  <2> HIDE DEF t
  <2>5. 0..t \subseteq 0..k
    BY <2>3, <2>4, HeightFacts
  <2> QED
    BY <2>2, <2>3, <2>4, <2>5
<1> QED
  BY <1>1, <1>2

LEMMA TopOK ==
    ASSUME IInv
    PROVE  Top \in Heights /\ stored["peer"] = 0..Top
<1>1. PICK k \in Heights : stored["peer"] = 0..k
  BY DEF IInv, Chains, IsChain
<1>2. stored["peer"] \cup {0} = 0..k
  BY <1>1, HeightFacts
<1>3. Top = k
  BY <1>2, HighestOfChain DEF Top
<1> QED
  BY <1>1, <1>3

LEMMA PeerBlockOK == ASSUME IInv, PeerBlock PROVE IInv'
<1>1. Top + 1 \in Heights /\ <<Top + 1>> \in Seq(Heights)
  BY TopOK, HeightFacts DEF PeerBlock, Heights
<1>2. /\ stored' = [stored EXCEPT !["peer"] = @ \cup {Top + 1}]
      /\ indexed' = [indexed EXCEPT !["peer"] = @ \cup {Top + 1}]
      /\ conn' = broadcast("peer", <<Top + 1>>, conn)
      /\ UNCHANGED <<buffered, need, task, until, chan, genesis, mempool, ns, lagged, unsent, listener, faults>>
  BY DEF PeerBlock, put, catchVars, nsVars
<1>3. stored \in [Nodes -> SUBSET Heights] /\ indexed \in [Nodes -> SUBSET Heights]
  BY DEF IInv, TypeOK
<1>4. /\ stored' \in [Nodes -> SUBSET Heights] /\ indexed' \in [Nodes -> SUBSET Heights]
      /\ stored'["joiner"] = stored["joiner"] /\ indexed'["joiner"] = indexed["joiner"]
      /\ stored'["peer"] = stored["peer"] \cup {Top + 1}
  BY <1>1, <1>2, <1>3 DEF Nodes
<1>5. conn' \in [Clients -> Connection]
  BY <1>1, <1>2, BroadcastOK DEF IInv, TypeOK
<1>6. TypeOK'
  BY <1>2, <1>4, <1>5 DEF IInv, TypeOK
<1>7. IsChain(stored'["peer"]) /\ stored'["peer"] # {}
  <2>1. stored'["peer"] = 0..(Top + 1)
    BY <1>1, <1>4, TopOK, HeightFacts
  <2> QED
    BY <1>1, <1>4, <2>1 DEF IsChain
<1>8. Chains' /\ Waiting' /\ NodeStateAt' /\ CatchingUp'
  BY <1>2, <1>4, <1>7 DEF IInv, Chains, Waiting, NodeStateAt, NodeStateFollows, Gap, CatchingUp
<1> QED
  BY <1>6, <1>8 DEF IInv

LEMMA BuiltSignedBlockOK == ASSUME IInv, NEW h \in Heights, BuiltSignedBlock(h) PROVE IInv'
<1>1. conn \in [Clients -> Connection] /\ lagged' = lagged
  BY DEF IInv, TypeOK, BuiltSignedBlock
<1>2. HandledState /\ Chains' /\ Waiting' /\ NodeStateAt'
  BY <1>1, HandleOK DEF BuiltSignedBlock
<1>3. mempool' = [mempool EXCEPT !.built = @ \cup {h}]
      /\ UNCHANGED <<need, task, until, chan, genesis, lagged, listener>>
  BY DEF BuiltSignedBlock, catchVars
<1>4. mempool' \in [from : Heights \cup {None}, told : BOOLEAN, built : SUBSET Heights, early : BOOLEAN]
      /\ mempool'.from = mempool.from /\ mempool'.early = mempool.early
  BY <1>3 DEF IInv, TypeOK
<1>5. TypeOK'
  BY <1>2, <1>3, <1>4 DEF IInv, TypeOK, HandledState
<1>6. CatchingUp'
  BY <1>2, <1>3, <1>4 DEF IInv, CatchingUp, HandledState
<1> QED
  BY <1>2, <1>5, <1>6 DEF IInv

LEMMA StartedBuildingBlocksOK ==
    ASSUME IInv, NEW s \in Heights, StartedBuildingBlocks(s) PROVE IInv'
<1>1. UNCHANGED <<stored, indexed, buffered, genesis, ns, lagged, unsent, listener, faults>>
  BY DEF StartedBuildingBlocks, daVars, nsVars
<1>2. /\ mempool.from = None /\ (mempool.early => s = 1) /\ s \in 1..(Top + 1)
      /\ mempool' = [mempool EXCEPT !.from = s, !.told = TRUE]
  <2>1. 1 \in 1..(Top + 1)
    BY TopOK, HeightFacts
  <2> QED
    BY <2>1 DEF StartedBuildingBlocks
<1>3. mempool' \in [from : Heights \cup {None}, told : BOOLEAN, built : SUBSET Heights, early : BOOLEAN]
      /\ mempool'.from = s /\ mempool'.early = mempool.early
  BY <1>2 DEF IInv, TypeOK
<1>4. until = None /\ s > 0 /\ s - 1 \in Heights /\ s - 1 # None /\ s \in Nat
  BY <1>2, TopOK, HeightFacts DEF IInv, CatchingUp, Heights
<1>5. Chains' /\ Waiting' /\ NodeStateAt'
  BY <1>1 DEF IInv, Chains, Waiting, NodeStateAt, NodeStateFollows, Gap
<1>6. CASE mempool.told
  <2>1. UNCHANGED <<until, task, need, chan, conn>>
    BY <1>6 DEF StartedBuildingBlocks
  <2>2. TypeOK'
    BY <1>1, <1>3, <2>1 DEF IInv, TypeOK
  <2>3. CatchingUp'
    BY <1>1, <1>2, <1>3, <1>4, <2>1 DEF IInv, CatchingUp
  <2> QED
    BY <1>5, <2>2, <2>3 DEF IInv
<1>7. CASE ~mempool.told
  <2>1. /\ until' = s - 1 /\ task' = IF StopsAt(s) THEN "aborted" ELSE task
        /\ need' = (need /\ ~StopsAt(s))
        /\ IF StopsAt(s) /\ task = "running"
           THEN Keeps(conn["joiner"].wire) /\ conn' = [conn EXCEPT !["joiner"] = Closed]
           ELSE UNCHANGED <<chan, conn>>
    BY <1>7 DEF StartedBuildingBlocks
  <2>2. conn["joiner"].wire \in Seq(Heights)
    BY DEF IInv, TypeOK, Connection, Clients
  <2>3. chan' \in Seq(Heights) /\ conn' \in [Clients -> Connection]
    <3>1. CASE StopsAt(s) /\ task = "running"
      <4>1. chan' \in Seq(Heights)
        BY <2>1, <2>2, <3>1, KeepsOK
      <4> QED
        BY <2>1, <3>1, <4>1, ConnectionFacts DEF IInv, TypeOK, Clients
    <3>2. CASE ~(StopsAt(s) /\ task = "running")
      BY <2>1, <3>2 DEF IInv, TypeOK
    <3> QED
      BY <3>1, <3>2
  <2>4. TypeOK'
    <3>1. until' \in Heights /\ need' \in BOOLEAN /\ task' \in {"none", "running", "ended", "aborted"}
      BY <1>4, <2>1 DEF IInv, TypeOK
    <3> QED
      BY <1>1, <1>3, <2>3, <3>1 DEF IInv, TypeOK
  <2>5. ASSUME StopsAt(s) PROVE 0..(s - 1) \subseteq stored["joiner"]
    <3>1. last("joiner") \in Nat /\ last("joiner") >= s /\ 0..last("joiner") \subseteq stored["joiner"]
      BY <2>5, LastOK, HeightFacts DEF StopsAt
    <3> QED
      BY <1>4, <3>1
  <2>6. CatchingUp'
    <3>1. /\ genesis' = "block" => mempool'.early
          /\ mempool'.early => mempool'.from \in {1, None} /\ genesis' # "no"
          /\ mempool'.early /\ genesis' = "done" => 0 \in stored'["joiner"]
      BY <1>1, <1>2, <1>3 DEF IInv, CatchingUp
    <3>2. until' + 1 \in Heights /\ mempool'.from = until' + 1 /\ until' # None
      BY <1>3, <1>4, <2>1
    <3>3. genesis' = "done" /\ ~need' /\ ~mempool'.early => 0..until' \subseteq stored'["joiner"]
      BY <1>1, <1>3, <1>4, <2>1, <2>5 DEF IInv, CatchingUp
    <3> QED
      BY <3>1, <3>2, <3>3 DEF CatchingUp
  <2> QED
    BY <1>5, <2>4, <2>6 DEF IInv
<1> QED
  BY <1>6, <1>7 DEF IInv, TypeOK

LEMMA GenesisEventOK == ASSUME IInv, GenesisEvent PROVE IInv'
<1>1. /\ genesis # "done" /\ genesis' = "done"
      /\ UNCHANGED <<task, until, chan, mempool, lagged, listener>>
  BY DEF GenesisEvent
<1>2. CASE genesis = "block"
  <2>1. handle_signed_block(0, conn) /\ need' = need
    BY <1>2 DEF GenesisEvent
  <2>2. 0 \in Heights /\ conn \in [Clients -> Connection] /\ lagged' = lagged
    BY <1>1, HeightFacts DEF IInv, TypeOK
  <2>3. HandledState /\ Chains' /\ Waiting' /\ NodeStateAt' /\ 0 \in stored'["joiner"]
    BY <2>1, <2>2, HandleOK
  <2>4. TypeOK'
    BY <1>1, <2>1, <2>3 DEF IInv, TypeOK, HandledState
  <2>5. CatchingUp'
    BY <1>1, <1>2, <2>1, <2>3 DEF IInv, CatchingUp
  <2> QED
    BY <2>3, <2>4, <2>5 DEF IInv
<1>3. CASE genesis # "block"
  <2>1. need' = TRUE /\ UNCHANGED <<stored, indexed, buffered, ns, unsent, conn, faults>>
    BY <1>3 DEF GenesisEvent, daVars
  <2>2. TypeOK' /\ Chains' /\ Waiting' /\ NodeStateAt'
    BY <1>1, <2>1 DEF IInv, TypeOK, Chains, Waiting, NodeStateAt, NodeStateFollows, Gap
  <2>3. ~mempool.early
    BY <1>1, <1>3 DEF IInv, TypeOK, CatchingUp
  <2>4. CatchingUp'
    BY <1>1, <2>1, <2>3 DEF IInv, CatchingUp
  <2> QED
    BY <2>2, <2>4 DEF IInv
<1> QED
  BY <1>2, <1>3

\* A step that touches only the connections keeps the invariant if it keeps their type.
LEMMA OnlyConnections ==
    ASSUME IInv, conn' \in [Clients -> Connection], task' \in {"none", "running", "ended", "aborted"},
           chan' \in Seq(Heights), faults' \in 0..MaxFaults,
           listener' \in Listeners,
           UNCHANGED <<stored, indexed, buffered, need, until, genesis, mempool, ns, lagged, unsent>>
    PROVE  IInv'
<1>1. TypeOK'
  BY DEF IInv, TypeOK
<1> QED
  BY <1>1 DEF IInv, Chains, Waiting, NodeStateAt, NodeStateFollows, Gap, CatchingUp

LEMMA AskOK == ASSUME IInv, ask_for_catchup_blocks PROVE IInv'
<1>1. (IF last("joiner") = None THEN 0 ELSE last("joiner") + 1) \in Heights \cup {None}
  <2>1. last("joiner") \in Heights => last("joiner") + 1 \in Heights \cup {None}
    BY HeightFacts DEF Heights, None
  <2> QED
    BY <2>1, LastOK, HeightFacts
<1>2. Asked(IF last("joiner") = None THEN 0 ELSE last("joiner") + 1) \in Connection
  BY <1>1, ConnectionFacts
<1>3. conn' \in [Clients -> Connection]
  BY <1>2 DEF ask_for_catchup_blocks, IInv, TypeOK
<1> QED
  BY <1>3, OnlyConnections DEF ask_for_catchup_blocks, IInv, TypeOK, daVars, nsVars

LEMMA StreamingOK ==
    ASSUME IInv, NEW c \in Clients, start_streaming_to_peer(c) \/ StreamBlock(c) PROVE IInv'
<1>1. conn \in [Clients -> Connection] /\ conn[c] \in Connection
      /\ conn[c].todo \in Seq(Heights) /\ conn[c].wire \in Seq(Heights)
  BY DEF IInv, TypeOK, Connection
<1>2. UNCHANGED <<stored, indexed, buffered, need, task, until, chan, genesis, mempool, ns, lagged, unsent, listener, faults>>
  BY DEF start_streaming_to_peer, StreamBlock, daVars, catchVars, nsVars
<1>3. ASSUME start_streaming_to_peer(c) PROVE conn' \in [Clients -> Connection]
  <2>1. Server(c) \in Nodes /\ indexed \in [Nodes -> SUBSET Heights]
    BY DEF Server, Nodes, Clients, IInv, TypeOK
  <2>2. range(Server(c), conn[c].ask) \in Seq(Heights)
    BY <2>1, RangeOK
  <2>3. conn' = [conn EXCEPT ![c] = [conn[c] EXCEPT !.ask = None, !.todo = range(Server(c), conn[c].ask)]]
    BY <1>1, <1>3 DEF start_streaming_to_peer
  <2>4. [conn[c] EXCEPT !.ask = None, !.todo = range(Server(c), conn[c].ask)] \in Connection
    BY <1>1, <2>2 DEF Connection
  <2> QED
    BY <1>1, <2>3, <2>4
<1>4. ASSUME StreamBlock(c) PROVE conn' \in [Clients -> Connection]
  <2>1. Head(conn[c].todo) \in Heights /\ Tail(conn[c].todo) \in Seq(Heights)
    BY <1>1, <1>4 DEF StreamBlock
  <2>2. conn' = [conn EXCEPT ![c] = [conn[c] EXCEPT !.wire = Append(conn[c].wire, Head(conn[c].todo)),
                                                    !.todo = Tail(conn[c].todo)]]
    BY <1>1, <1>4 DEF StreamBlock
  <2>3. Append(conn[c].wire, Head(conn[c].todo)) \in Seq(Heights)
    BY <1>1, <2>1
  <2>4. [conn[c] EXCEPT !.wire = Append(conn[c].wire, Head(conn[c].todo)),
                        !.todo = Tail(conn[c].todo)] \in Connection
    BY <1>1, <2>1, <2>3 DEF Connection
  <2> QED
    BY <1>1, <2>2, <2>4
<1>5. conn' \in [Clients -> Connection]
  BY <1>3, <1>4
<1> QED
  BY <1>2, <1>5, OnlyConnections DEF IInv, TypeOK

LEMMA CatchupBlockOK == ASSUME IInv, CatchupBlock PROVE IInv'
<1> DEFINE w == conn["joiner"].wire
           h == Head(Stream)
           rest == Tail(Stream)
<1>1. /\ conn \in [Clients -> Connection] /\ conn["joiner"] \in Connection /\ "joiner" \in Clients
      /\ w \in Seq(Heights) /\ chan \in Seq(Heights)
  BY DEF IInv, TypeOK, Connection, Clients
<1>2. Stream \in Seq(Heights) /\ Stream # <<>>
  BY <1>1 DEF Stream, CatchupBlock
<1>3. h \in Heights /\ rest \in Seq(Heights)
  BY <1>2
<1>4. /\ task' = IF Reaches(h) THEN "none" ELSE task
      /\ need' = (need /\ ~Reaches(h))
      /\ UNCHANGED <<until, genesis, mempool, lagged, listener>>
  BY DEF CatchupBlock
<1>5. PICK cs \in [Clients -> Connection] : handle_signed_block(h, cs) /\ chan' \in Seq(Heights)
  <2>1. [conn["joiner"] EXCEPT !.wire = rest] \in Connection
    BY <1>1, <1>3 DEF Connection
  <2>2. [conn EXCEPT !["joiner"].wire = rest] = [conn EXCEPT !["joiner"] = [conn["joiner"] EXCEPT !.wire = rest]]
    BY <1>1
  <2>3. [conn EXCEPT !["joiner"].wire = rest] \in [Clients -> Connection]
    BY <1>1, <2>1, <2>2
  <2>4. [conn EXCEPT !["joiner"] = Closed] \in [Clients -> Connection]
    BY <1>1, ConnectionFacts
  <2>5. Keeps(rest) => chan' \in Seq(Heights)
    BY <1>3, KeepsOK
  <2>6. <<>> \in Seq(Heights)
    OBVIOUS
  <2>7. \/ chan' = rest /\ handle_signed_block(h, conn)
        \/ chan' = <<>> /\ handle_signed_block(h, [conn EXCEPT !["joiner"].wire = rest])
        \/ Keeps(rest) /\ handle_signed_block(h, [conn EXCEPT !["joiner"] = Closed])
    BY DEF CatchupBlock
  <2> HIDE DEF h, rest, w
  <2> QED
    BY <1>1, <1>3, <2>3, <2>4, <2>5, <2>6, <2>7
<1> HIDE DEF h, rest, w
<1>6. /\ HandledState /\ Chains' /\ Waiting' /\ NodeStateAt'
      /\ Admits(h) => stored'["joiner"] = 0..(h + popped(h, buffered))
  BY <1>3, <1>4, <1>5, HandleOK
<1>7. TypeOK'
  <2>1. task' \in {"none", "running", "ended", "aborted"} /\ need' \in BOOLEAN
    BY <1>4 DEF IInv, TypeOK
  <2> QED
    BY <1>4, <1>5, <1>6, <2>1 DEF IInv, TypeOK, HandledState
<1>8. ASSUME Reaches(h) PROVE until # None /\ 0..until \subseteq stored'["joiner"]
  <2>1. buffered \in SUBSET Heights
    BY DEF IInv, TypeOK
  <2>2. popped(h, buffered) \in 0..MaxHeight /\ h \in Nat /\ popped(h, buffered) \in Nat
    BY <1>3, <2>1, PoppedOK, HeightFacts
  <2>3. Processed(h)[Len(Processed(h))] = h + popped(h, buffered)
    BY <1>3, <2>1, <2>2, ProcessedOK
  <2>4. Admits(h) /\ until # None /\ until <= h + popped(h, buffered)
    BY <1>8, <2>3 DEF Reaches
  <2>5. until \in Nat
    BY <2>4, HeightFacts DEF IInv, TypeOK
  <2>6. stored'["joiner"] = 0..(h + popped(h, buffered))
    BY <1>6, <2>4
  <2> QED
    BY <2>2, <2>4, <2>5, <2>6
<1>9. stored["joiner"] \subseteq stored'["joiner"]
  BY <1>3, <1>5, <1>6, StoreGrows
<1>10. CatchingUp'
  <2>1. /\ genesis' = "block" => mempool'.early
        /\ mempool'.early => mempool'.from \in {1, None} /\ genesis' # "no"
        /\ mempool'.early /\ genesis' = "done" => 0 \in stored'["joiner"]
        /\ until' # None => until' + 1 \in Heights /\ mempool'.from = until' + 1
    BY <1>4, <1>9 DEF IInv, CatchingUp
  <2>2. ASSUME genesis' = "done", ~need', ~mempool'.early
        PROVE  until' # None /\ 0..until' \subseteq stored'["joiner"]
    <3>1. CASE Reaches(h)
      BY <1>4, <1>8, <3>1
    <3>2. CASE ~Reaches(h)
      <4>1. ~need
        BY <1>4, <2>2, <3>2
      <4>2. until # None /\ 0..until \subseteq stored["joiner"]
        BY <1>4, <2>2, <4>1 DEF IInv, CatchingUp
      <4> QED
        BY <1>4, <1>9, <4>2
    <3> QED
      BY <3>1, <3>2
  <2> QED
    BY <2>1, <2>2 DEF CatchingUp
<1> QED
  BY <1>6, <1>7, <1>10 DEF IInv

LEMMA StartClientOK == ASSUME IInv, start_client PROVE IInv'
<1>1. listener \in Listeners /\ conn \in [Clients -> Connection]
  BY DEF IInv, TypeOK
<1>2. asks \in Heights \cup {None}
  <2>1. current_height(listener.seen) \in Heights
    BY <1>1, HeightOK DEF Listeners
  <2> QED
    BY <2>1, HeightFacts DEF asks, Heights, None
<1>3. conn' \in [Clients -> Connection]
  BY <1>1, <1>2, ConnectionFacts DEF start_client
<1>4. listener' \in Listeners
  <2>1. listener' = [listener EXCEPT !.started = TRUE,
                                    !.skipped = listener.skipped \/ (asks > 0 /\ 0 \notin listener.seen)]
    BY DEF start_client
  <2> QED
    BY <1>1, <2>1 DEF Listeners
<1> QED
  BY <1>3, <1>4, OnlyConnections DEF start_client, IInv, TypeOK, daVars, catchVars, nsVars

LEMMA ProcessBlockOK ==
    ASSUME NEW h \in Heights, NEW l \in Listeners
    PROVE  process_block(l, h) \in Listeners
<1> DEFINE cur == current_height(l.seen)
           top == h + popped(h, l.buffer)
<1>1. h \in Nat /\ l.buffer \in SUBSET Heights /\ l.seen \in SUBSET Heights
  BY HeightFacts DEF Listeners
<1>2. cur \in Nat
  BY <1>1, HeightOK, HeightFacts
<1>3. top \in Heights
  BY <1>1, PoppedBound
<1>4. h..top \in SUBSET Heights
  BY <1>1, <1>3, HeightFacts DEF Heights
<1>5. process_block(l, h) =
        CASE h = 0 /\ cur = 0 -> [l EXCEPT !.seen = @ \cup {0}]
          [] h <= cur /\ cur > 0 -> l
          [] h = cur + 1 ->
                [l EXCEPT !.seen = @ \cup (h..top), !.buffer = @ \ (h..top),
                          !.skipped = @ \/ (h = 1 /\ 0 \notin l.seen)]
          [] h > cur + 1 -> [l EXCEPT !.buffer = @ \cup {h}]
  BY DEF process_block
<1> HIDE DEF cur, top
<1>6. CASE h = 0 /\ cur = 0
  BY <1>1, <1>2, <1>5, <1>6 DEF Listeners
<1>7. CASE h <= cur /\ cur > 0
  BY <1>1, <1>2, <1>5, <1>7 DEF Listeners
<1>8. CASE h = cur + 1
  <2>1. process_block(l, h) =
          [l EXCEPT !.seen = l.seen \cup (h..top), !.buffer = l.buffer \ (h..top),
                    !.skipped = l.skipped \/ (h = 1 /\ 0 \notin l.seen)]
    BY <1>1, <1>2, <1>5, <1>8
  <2>2. l.seen \cup (h..top) \in SUBSET Heights /\ l.buffer \ (h..top) \in SUBSET Heights
    BY <1>1, <1>4
  <2> QED
    BY <2>1, <2>2 DEF Listeners
<1>9. CASE h > cur + 1
  <2>1. process_block(l, h) = [l EXCEPT !.buffer = l.buffer \cup {h}]
    BY <1>1, <1>2, <1>5, <1>9
  <2>2. l.buffer \cup {h} \in SUBSET Heights
    BY <1>1
  <2> QED
    BY <2>1, <2>2 DEF Listeners
<1> QED
  BY <1>1, <1>2, <1>6, <1>7, <1>8, <1>9

LEMMA NextFrameOK == ASSUME IInv, processing_next_frame PROVE IInv'
<1>1. /\ conn \in [Clients -> Connection] /\ "listener" \in Clients /\ conn["listener"] \in Connection
      /\ conn["listener"].wire \in Seq(Heights) /\ conn["listener"].wire # <<>>
      /\ listener \in Listeners
  BY DEF IInv, TypeOK, Connection, Clients, processing_next_frame
<1>2. Head(conn["listener"].wire) \in Heights /\ Tail(conn["listener"].wire) \in Seq(Heights)
  BY <1>1
<1>3. listener' \in Listeners
  BY <1>1, <1>2, ProcessBlockOK DEF processing_next_frame
<1>4. conn' \in [Clients -> Connection]
  <2>1. conn' = [conn EXCEPT !["listener"] = [conn["listener"] EXCEPT !.wire = Tail(conn["listener"].wire)]]
    BY <1>1 DEF processing_next_frame
  <2>2. [conn["listener"] EXCEPT !.wire = Tail(conn["listener"].wire)] \in Connection
    BY <1>1, <1>2 DEF Connection
  <2> QED
    BY <1>1, <2>1, <2>2
<1> QED
  BY <1>3, <1>4, OnlyConnections DEF processing_next_frame, IInv, TypeOK, daVars, catchVars, nsVars

LEMMA DisconnectOK == ASSUME IInv, NEW c \in Clients, Disconnect(c) PROVE IInv'
<1>1. faults' \in 0..MaxFaults
  BY HeightFacts DEF Disconnect, IInv, TypeOK
<1>2. conn' \in [Clients -> Connection]
  BY ConnectionFacts DEF Disconnect, IInv, TypeOK
<1>3. conn[c].wire \in Seq(Heights)
  BY DEF IInv, TypeOK, Connection
<1>4. Keeps(conn[c].wire) => chan' \in Seq(Heights)
  BY <1>3, KeepsOK
<1>5. chan' \in Seq(Heights) /\ task' \in {"none", "running", "ended", "aborted"}
  BY <1>4 DEF Disconnect, IInv, TypeOK
<1> QED
  BY <1>1, <1>2, <1>5, OnlyConnections DEF Disconnect, IInv, TypeOK, daVars, nsVars

LEMMA RestartListenerOK == ASSUME IInv, NEW clean \in BOOLEAN, RestartListener(clean) PROVE IInv'
<1>1. faults' \in 0..MaxFaults
  BY HeightFacts DEF RestartListener, IInv, TypeOK
<1>2. conn' \in [Clients -> Connection]
  BY ConnectionFacts DEF RestartListener, IInv, TypeOK
<1>3. listener' \in Listeners
  BY DEF RestartListener, IInv, TypeOK, Listeners
<1> QED
  BY <1>1, <1>2, <1>3, OnlyConnections DEF RestartListener, IInv, TypeOK, daVars, catchVars, nsVars

LEMMA RestartOK ==
    ASSUME IInv, NEW clean \in BOOLEAN, NEW torn \in BOOLEAN, NEW h \in 0..None,
           Restart(clean, torn, h)
    PROVE  IInv'
<1> DEFINE c == came(clean, h)
<1>0. c \in SUBSET Heights /\ c \subseteq stored["joiner"]
  BY DEF came, IInv, TypeOK, NodeStates, NodeStateAt
<1>1. /\ stored' = stored /\ listener' = listener /\ buffered' = {} /\ need' = FALSE
      /\ task' = "none" /\ until' = None /\ chan' = <<>> /\ genesis' = "no"
      /\ mempool' = IF clean THEN [mempool EXCEPT !.from = None, !.early = FALSE] ELSE Fresh
      /\ ns' = [seen |-> c, saved |-> c, failed |-> FALSE]
      /\ lagged' = (c # stored["joiner"]) /\ unsent' = {}
      /\ conn' = [d \in Clients |-> Closed]
      /\ indexed' = IF torn THEN [indexed EXCEPT !["joiner"] = @ \ {last("joiner")}] ELSE indexed
      /\ faults' = faults + 1 /\ faults < MaxFaults
  BY DEF Restart
<1> HIDE DEF c
<1>2. /\ indexed' \in [Nodes -> SUBSET Heights] /\ indexed'["joiner"] \subseteq indexed["joiner"]
  BY <1>1 DEF IInv, TypeOK, Nodes
<1>3. /\ mempool' \in [from : Heights \cup {None}, told : BOOLEAN, built : SUBSET Heights, early : BOOLEAN]
      /\ ~mempool'.early
  <2>1. Fresh \in [from : Heights \cup {None}, told : BOOLEAN, built : SUBSET Heights, early : BOOLEAN]
        /\ ~Fresh.early
    BY DEF Fresh
  <2> QED
    BY <1>1, <2>1 DEF IInv, TypeOK
<1>4. TypeOK'
  <2>1. faults' \in 0..MaxFaults
    BY <1>1, HeightFacts DEF IInv, TypeOK
  <2>2. conn' \in [Clients -> Connection] /\ <<>> \in Seq(Heights)
    BY <1>1, ConnectionFacts
  <2>3. lagged' \in BOOLEAN /\ unsent' \subseteq Heights /\ ns' \in NodeStates
    BY <1>0, <1>1 DEF NodeStates
  <2> QED
    BY <1>1, <1>2, <1>3, <2>1, <2>2, <2>3 DEF IInv, TypeOK
<1>5. Chains' /\ Waiting'
  BY <1>1, <1>2 DEF IInv, Chains, Waiting
<1>6. NodeStateAt'
  BY <1>0, <1>1 DEF NodeStateAt, NodeStateFollows, Gap
<1>7. CatchingUp'
  BY <1>1, <1>3 DEF CatchingUp
<1> QED
  BY <1>4, <1>5, <1>6, <1>7 DEF IInv

LEMMA InitOK == ASSUME Init PROVE IInv
<1>1. PICK past \in 0..MaxPast :
         /\ stored = [n \in Nodes |-> IF n = "peer" THEN 0..past ELSE {}]
         /\ genesis \in IF past = 0 THEN {"block", "no"} ELSE {"no"}
         /\ mempool = [Fresh EXCEPT !.early = (genesis = "block")]
  BY DEF Init
<1>2. past \in Heights /\ 0..past \in SUBSET Heights /\ 0 \in 0..past
  BY HeightFacts DEF Heights
<1>3. /\ stored \in [Nodes -> SUBSET Heights] /\ stored["joiner"] = {} /\ stored["peer"] = 0..past
      /\ genesis \in {"block", "no"}
  BY <1>1, <1>2 DEF Nodes
<1>4. /\ mempool \in [from : Heights \cup {None}, told : BOOLEAN, built : SUBSET Heights, early : BOOLEAN]
      /\ mempool.from = None /\ mempool.early = (genesis = "block")
  BY <1>1 DEF Fresh
<1>5. /\ indexed = stored /\ buffered = {} /\ need = FALSE /\ task = "none" /\ until = None
      /\ chan = <<>> /\ ns = [seen |-> {}, saved |-> {}, failed |-> FALSE]
      /\ lagged = FALSE /\ unsent = {}
      /\ conn = [c \in Clients |-> Closed] /\ faults = 0
      /\ listener = [seen |-> {}, saved |-> {}, buffer |-> {}, started |-> FALSE, skipped |-> FALSE]
  BY DEF Init
<1>6. TypeOK
  <2>1. conn \in [Clients -> Connection] /\ <<>> \in Seq(Heights)
    BY <1>5, ConnectionFacts
  <2>2. /\ ns \in NodeStates /\ faults \in 0..MaxFaults
        /\ listener \in Listeners
    BY <1>5, HeightFacts DEF NodeStates, Listeners
  <2> QED
    BY <1>3, <1>4, <1>5, <2>1, <2>2 DEF TypeOK
<1>7. Chains /\ Waiting
  BY <1>2, <1>3, <1>5 DEF Chains, Waiting, IsChain
<1>8. NodeStateAt /\ CatchingUp
  BY <1>3, <1>4, <1>5 DEF NodeStateAt, NodeStateFollows, Gap, CatchingUp
<1> QED
  BY <1>6, <1>7, <1>8 DEF IInv

LEMMA NextOK == ASSUME IInv, [Next]_vars PROVE IInv'
<1>1. CASE UNCHANGED vars
  BY <1>1 DEF vars, daVars, catchVars, nsVars, IInv, TypeOK, Chains, Waiting, NodeStateAt, NodeStateFollows, Gap, CatchingUp
<1>2. CASE PeerBlock
  BY <1>2, PeerBlockOK
<1>3. CASE \E h \in Heights : BuiltSignedBlock(h) \/ StartedBuildingBlocks(h)
  BY <1>3, BuiltSignedBlockOK, StartedBuildingBlocksOK
<1>4. CASE GenesisEvent \/ ask_for_catchup_blocks \/ CatchupBlock
  BY <1>4, GenesisEventOK, AskOK, CatchupBlockOK
<1>5. CASE \E c \in Clients : start_streaming_to_peer(c) \/ StreamBlock(c) \/ Disconnect(c)
  BY <1>5, StreamingOK, DisconnectOK
<1>6. CASE start_client \/ processing_next_frame
  BY <1>6, StartClientOK, NextFrameOK
<1>7. CASE \E clean \in BOOLEAN : RestartListener(clean)
  BY <1>7, RestartListenerOK
<1>8. CASE \E clean, torn \in BOOLEAN, h \in 0..None : Restart(clean, torn, h)
  BY <1>8, RestartOK
<1> QED
  BY <1>1, <1>2, <1>3, <1>4, <1>5, <1>6, <1>7, <1>8 DEF Next

\* What the invariant says of the store, in the words of the property.
LEMMA StoreFacts == ASSUME IInv PROVE StoreIsAChain /\ NodeStateFollows
<1>1. stored["joiner"] # {} => stored["joiner"] = 0..Highest(stored["joiner"])
  BY HighestOfChain DEF IInv, Chains, IsChain
<1> QED
  BY <1>1 DEF IInv, TypeOK, Waiting, NodeStateAt, StoreIsAChain, NodeStateFollows

LEMMA CatchupFacts == ASSUME IInv PROVE CatchupReachesMempool
<1> SUFFICES ASSUME genesis = "done", ~need, mempool.from # None
             PROVE  0..(mempool.from - 1) \subseteq stored["joiner"]
  BY DEF CatchupReachesMempool
<1>1. CASE mempool.early
  BY <1>1 DEF IInv, CatchingUp
<1>2. CASE ~mempool.early
  <2>1. until # None /\ 0..until \subseteq stored["joiner"] /\ mempool.from = until + 1
    BY <1>2 DEF IInv, CatchingUp
  <2>2. until \in Nat
    BY <2>1, HeightFacts DEF IInv, TypeOK
  <2> QED
    BY <2>1, <2>2
<1> QED
  BY <1>1, <1>2

LEMMA InvariantAlways == Spec => []IInv
<1> QED
  BY InitOK, NextOK, PTL DEF Spec

-----------------------------------------------------------------------------

\* In every reachable state of a joining node the store is a chain from the genesis block on
\* and every buffered block still lacks its parent, whatever the stream, the mempool, broken
\* connections, crashes and restarts do (handle_signed_block, pop_buffer, Blocks::put).
THEOREM StoreIsAlwaysAChain == Spec => []StoreIsAChain
BY InvariantAlways, StoreFacts, PTL

\* A NodeState that was loaded with all stored blocks is made of exactly the stored blocks that
\* the bus took, and refuses a block exactly when the full bus kept an earlier one, other than
\* the genesis block, from it (add_processed_block, NodeState::handle_signed_block).
THEOREM NodeStateAlwaysFollows == Spec => []NodeStateFollows
BY InvariantAlways, StoreFacts, PTL

\* Catching up never ends before every block below the mempool's first one is stored
\* (StartedBuildingBlocks and the catch-up arm of DataAvailability::start).
THEOREM CatchupAlwaysReachesMempool == Spec => []CatchupReachesMempool
BY InvariantAlways, CatchupFacts, PTL
=============================================================================
