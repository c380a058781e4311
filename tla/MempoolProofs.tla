---------------------------- MODULE MempoolProofs ----------------------------
(***************************************************************************)
(* Theorems about Mempool, for any validators, stakes, transactions and    *)
(* bounds.                                                                 *)
(*                                                                         *)
(* The operator's lane is one chain, its tip: every proposal that anyone   *)
(* has stored, voted for, been sent or committed is a prefix of it, with   *)
(* the size of the lane up to it.                                          *)
(***************************************************************************)
EXTENDS Mempool, Inductions, SequenceTheorems

-----------------------------------------------------------------------------
(* The inductive invariant.                                                *)

Batch == Seq(Txs) \ {<<>>}

\* The proposals of the lane, and none.
Known(L) == {Upto(L, i) : i \in 1 .. Len(L)}
Known0(L) == Known(L) \cup {NoProposal}

\* Who signed stored it, at that size; a vote for size 0 never counts.
SigsOK(dp, size, sigs, H) == size = 0 \/ \A v \in sigs : <<v, dp, size>> \in H

EntryOK(n, dp, e, H) ==
    /\ e.size = TotalSize(dp) /\ <<n, dp, e.size>> \in H
    /\ \A v \in e.sigs : <<v, dp, e.size>> \in H

MsgOK(m, L, H) ==
    /\ m.src \in Nodes /\ m.dst \in Nodes /\ m.dp \in Known(L) /\ m.from \in Known0(L)
    /\ SigsOK(m.dp, m.size, m.sigs, H)
    /\ m.type = "SyncReply" => m.size = TotalSize(m.dp)

TipOK(t, L) == t.dp \in Known0(L) /\ t.size = TotalSize(t.dp)

CutOK(c, L, H) == TipOK(c, L) /\ \A v \in c.sigs : <<v, c.dp, c.size>> \in H

NodeFields == {"waiting", "bucs", "last", "known", "tip", "lane", "start", "cached", "procs",
               "props", "podas", "out", "emits"}

Task(L) == [what : {"hash", "verify"}, dp : Known(L), early : {"None", "Vote", "Refuse"}]

LaneOK(n, lane, L, H) ==
    \A dp \in DOMAIN lane : dp \in Known(L) /\ EntryOK(n, dp, lane[dp], H)

PodasOK(podas, H) ==
    \A dp \in DOMAIN podas : \A q \in podas[dp] : SigsOK(dp, q.size, q.sigs, H)

\* A validator in state w, when the lane is L and H was stored.
NodeOK(n, w, L, H) ==
    /\ DOMAIN w = NodeFields /\ w.waiting \in Seq(Txs)
    /\ LaneOK(n, w.lane, L, H) /\ TipOK(w.tip, L) /\ PodasOK(w.podas, H)
    /\ w.props \in Seq(Known(L)) /\ w.procs \in Seq(Task(L))
    /\ \A m \in w.out : MsgOK(m, L, H)

\* A block under construction, of a slot up to k, starts at the slot before.
Slots(k) == {b \in [from : Nat, slot : Nat] : b.slot \in 1 .. k /\ b.from = b.slot - 1}

SlotsOK(w) == w.last \in 0 .. Len(cuts) /\ w.bucs \in Seq(Slots(w.last))

DiskOK(d, L) == d.waiting \in Seq(Txs) /\ TipOK(d.tip, L) /\ SlotsOK(d)

Extends(c, d) == \E i \in 0 .. Len(d) : Upto(d, i) = c

Lane == node[Op].tip.dp

NodesOK(L, H) ==
    /\ DOMAIN node = Nodes /\ DOMAIN disk = Nodes
    /\ \A n \in Nodes : /\ NodeOK(n, node[n], L, H) /\ DiskOK(disk[n], L)
                        /\ SlotsOK(node[n])
                        /\ node[n].out = {} /\ node[n].emits = <<>>

CutsOK(L, H) ==
    /\ \E S : cuts \in Seq(S)
    /\ \A s \in 1 .. Len(cuts) : CutOK(cuts[s], L, H) /\ Extends(CutAt(s - 1).dp, cuts[s].dp)

IInv ==
    /\ Lane \in Seq(Batch)
    /\ DOMAIN node[Op].lane = Known(Lane)
    /\ NodesOK(Lane, held) /\ CutsOK(Lane, held)
    /\ \A m \in net : MsgOK(m, Lane, held)

-----------------------------------------------------------------------------
(* The lane and its prefixes.                                              *)

LEMMA UptoOK ==
    ASSUME NEW S, NEW L \in Seq(S), NEW i \in 0 .. Len(L)
    PROVE  /\ Upto(L, i) \in Seq(S) /\ Len(Upto(L, i)) = i
           /\ \A k \in 1 .. i : Upto(L, i)[k] = L[k]
<1>1. \A k \in 1 .. i : L[k] \in S
  OBVIOUS
<1>2. i - 1 + 1 = i /\ i \in Int /\ \A k \in 1 .. i : 1 + k - 1 = k
  OBVIOUS
<1>3. /\ SubSeq(L, 1, i) \in Seq(S)
      /\ Len(SubSeq(L, 1, i)) = IF 1 <= i THEN i - 1 + 1 ELSE 0
      /\ \A k \in 1 .. i - 1 + 1 : SubSeq(L, 1, i)[k] = L[1 + k - 1]
  BY <1>1, <1>2, SubSeqProperties
<1> HIDE DEF Upto
<1> QED
  BY <1>2, <1>3 DEF Upto

LEMMA UptoNone == ASSUME NEW L PROVE Upto(L, 0) = NoProposal
BY SubSeqEmpty DEF Upto, NoProposal

LEMMA UptoAll == ASSUME NEW S, NEW L \in Seq(S) PROVE Upto(L, Len(L)) = L
BY SubSeqFull DEF Upto

LEMMA UptoUpto ==
    ASSUME NEW S, NEW L \in Seq(S), NEW i \in 0 .. Len(L), NEW j \in 0 .. i
    PROVE  Upto(Upto(L, i), j) = Upto(L, j)
<1> DEFINE P == Upto(L, i)
           Q == Upto(L, j)
           R == Upto(P, j)
<1>1. P \in Seq(S) /\ Len(P) = i /\ \A k \in 1 .. i : P[k] = L[k]
  BY UptoOK
<1>2. Q \in Seq(S) /\ Len(Q) = j /\ \A k \in 1 .. j : Q[k] = L[k]
  <2>1. j \in 0 .. Len(L)
    OBVIOUS
  <2> QED
    BY <2>1, UptoOK
<1> HIDE DEF P, Q
<1>3. R \in Seq(S) /\ Len(R) = j /\ \A k \in 1 .. j : R[k] = P[k]
  BY <1>1, UptoOK
<1> HIDE DEF R
<1>4. Len(R) = Len(Q) /\ \A k \in 1 .. Len(R) : R[k] = Q[k]
  BY <1>1, <1>2, <1>3
<1>5. R = Q
  BY <1>2, <1>3, <1>4, SeqEqual
<1> QED
  BY <1>5 DEF P, Q, R

\* One proposal more.
LEMMA UptoNext ==
    ASSUME NEW S, NEW L \in Seq(S), NEW i \in 0 .. Len(L) - 1
    PROVE  Upto(L, i + 1) = Append(Upto(L, i), L[i + 1]) /\ L[i + 1] \in S
<1> DEFINE P == Upto(L, i)
           Q == Upto(L, i + 1)
<1>1. i \in 0 .. Len(L) /\ i + 1 \in 0 .. Len(L) /\ L[i + 1] \in S
  OBVIOUS
<1>2. P \in Seq(S) /\ Len(P) = i /\ \A k \in 1 .. i : P[k] = L[k]
  BY <1>1, UptoOK
<1>3. Q \in Seq(S) /\ Len(Q) = i + 1 /\ \A k \in 1 .. i + 1 : Q[k] = L[k]
  BY <1>1, UptoOK
<1> HIDE DEF P, Q
<1>4. PICK R : R = Append(P, L[i + 1])
  OBVIOUS
<1>5. R \in Seq(S) /\ Len(R) = i + 1 /\ R[i + 1] = L[i + 1] /\ \A k \in 1 .. i : R[k] = P[k]
  BY <1>1, <1>2, <1>4
<1>6. Len(R) = Len(Q) /\ \A k \in 1 .. Len(R) : R[k] = Q[k]
  BY <1>1, <1>2, <1>3, <1>5
<1>7. R = Q
  BY <1>3, <1>5, <1>6, SeqEqual
<1> QED
  BY <1>1, <1>4, <1>7 DEF P, Q

\* The lane grows by a proposal.
LEMMA UptoAppend ==
    ASSUME NEW S, NEW L \in Seq(S), NEW b \in S
    PROVE  /\ Append(L, b) \in Seq(S) /\ Len(Append(L, b)) = Len(L) + 1
           /\ \A i \in 0 .. Len(L) : Upto(Append(L, b), i) = Upto(L, i)
           /\ Upto(Append(L, b), Len(L) + 1) = Append(L, b)
<1> DEFINE M == Append(L, b)
<1>1. M \in Seq(S) /\ Len(M) = Len(L) + 1 /\ \A k \in 1 .. Len(L) : M[k] = L[k]
  OBVIOUS
<1> HIDE DEF M
<1>2. ASSUME NEW i \in 0 .. Len(L) PROVE Upto(M, i) = Upto(L, i)
  <2> DEFINE P == Upto(L, i)
             Q == Upto(M, i)
  <2>1. P \in Seq(S) /\ Len(P) = i /\ \A k \in 1 .. i : P[k] = L[k]
    BY UptoOK
  <2>2. i \in 0 .. Len(M)
    BY <1>1
  <2>3. Q \in Seq(S) /\ Len(Q) = i /\ \A k \in 1 .. i : Q[k] = M[k]
    BY <1>1, <2>2, UptoOK
  <2> HIDE DEF P, Q
  <2>4. Len(P) = Len(Q) /\ \A k \in 1 .. Len(P) : P[k] = Q[k]
    BY <1>1, <2>1, <2>3
  <2>5. P = Q
    BY <2>1, <2>3, <2>4, SeqEqual
  <2> QED
    BY <2>5 DEF P, Q
<1>3. Upto(M, Len(L) + 1) = M
  BY <1>1, UptoAll
<1> QED
  BY <1>1, <1>2, <1>3 DEF M

LEMMA KnownAppend ==
    ASSUME NEW S, NEW L \in Seq(S), NEW b \in S
    PROVE  Known(Append(L, b)) = Known(L) \cup {Append(L, b)}
<1> DEFINE M == Append(L, b)
<1>1. /\ Len(L) \in Nat /\ Len(M) = Len(L) + 1 /\ Upto(M, Len(L) + 1) = M
      /\ \A i \in 0 .. Len(L) : Upto(M, i) = Upto(L, i)
  BY UptoAppend
<1> HIDE DEF M
<1>2. 1 .. Len(M) = (1 .. Len(L)) \cup {Len(L) + 1}
  BY <1>1
<1>3. Known(M) = {Upto(M, i) : i \in 1 .. Len(L)} \cup {Upto(M, Len(L) + 1)}
  BY <1>2 DEF Known
<1>4. {Upto(M, i) : i \in 1 .. Len(L)} = Known(L)
  <2>1. \A i \in 1 .. Len(L) : Upto(M, i) = Upto(L, i)
    BY <1>1
  <2> QED
    BY <2>1 DEF Known
<1> QED
  BY <1>1, <1>3, <1>4 DEF M

\* A proposal of the lane is its prefix of some length.
LEMMA KnownIs ==
    ASSUME NEW S, NEW L \in Seq(S), NEW dp \in Known0(L)
    PROVE  /\ dp \in Seq(S) /\ Len(dp) \in 0 .. Len(L) /\ dp = Upto(L, Len(dp))
           /\ dp \in Known(L) <=> Len(dp) # 0
           /\ dp = NoProposal <=> Len(dp) = 0
<1>1. Len(L) \in Nat
  OBVIOUS
<1>2. PICK i \in 0 .. Len(L) : dp = Upto(L, i) /\ (dp \in Known(L) => i # 0)
  <2>1. CASE dp \in Known(L)
    <3>1. PICK i \in 1 .. Len(L) : dp = Upto(L, i)
      BY <2>1 DEF Known
    <3> QED
      BY <3>1
  <2>2. CASE dp \notin Known(L)
    <3>1. dp = Upto(L, 0)
      BY <2>2, UptoNone DEF Known0
    <3> QED
      BY <1>1, <2>2, <3>1
  <2> QED
    BY <2>1, <2>2
<1>3. dp \in Seq(S) /\ Len(dp) = i
  BY <1>2, UptoOK
<1>4. i # 0 => dp \in Known(L)
  BY <1>2 DEF Known
<1>5. dp = NoProposal => Len(dp) = 0
  BY DEF NoProposal
<1>6. Len(dp) = 0 => dp = NoProposal
  BY <1>2, <1>3, UptoNone
<1> QED
  BY <1>2, <1>3, <1>4, <1>5, <1>6

\* The prefixes of a proposal of the lane are too.
LEMMA KnownUpto ==
    ASSUME NEW S, NEW L \in Seq(S), NEW dp \in Known0(L), NEW i \in 0 .. Len(dp)
    PROVE  /\ Upto(dp, i) = Upto(L, i) /\ Upto(dp, i) \in Known0(L) /\ Len(Upto(dp, i)) = i
           /\ i # 0 => Upto(dp, i) \in Known(L)
<1>1. dp \in Seq(S) /\ Len(dp) \in 0 .. Len(L) /\ dp = Upto(L, Len(dp))
  BY KnownIs
<1>2. PICK l \in 0 .. Len(L) : l = Len(dp)
  BY <1>1
<1>3. Upto(dp, i) = Upto(L, i)
  BY <1>1, <1>2, UptoUpto
<1>4. i # 0 => Upto(L, i) \in Known(L)
  BY <1>1 DEF Known
<1>5. i = 0 => Upto(L, i) = NoProposal
  BY UptoNone
<1>6. Len(Upto(dp, i)) = i
  BY <1>1, UptoOK
<1> QED
  BY <1>3, <1>4, <1>5, <1>6 DEF Known0

\* Longer proposals of the lane extend shorter ones.
LEMMA KnownExtends ==
    ASSUME NEW S, NEW L \in Seq(S), NEW c \in Known0(L), NEW d \in Known0(L)
    PROVE  /\ Len(c) <= Len(d) => Extends(c, d) /\ Upto(d, Len(c)) = c
           /\ Len(c) = Len(d) => c = d
           /\ Extends(c, d) => Len(c) <= Len(d)
<1>1. Len(c) \in Nat /\ Len(d) \in Nat /\ c = Upto(L, Len(c)) /\ d = Upto(L, Len(d))
  BY KnownIs
<1>2. ASSUME Len(c) <= Len(d) PROVE Upto(d, Len(c)) = c /\ Len(c) \in 0 .. Len(d)
  <2>1. Len(c) \in 0 .. Len(d)
    BY <1>1, <1>2
  <2>2. Upto(d, Len(c)) = Upto(L, Len(c))
    BY <2>1, KnownUpto
  <2> QED
    BY <1>1, <2>1, <2>2
<1>3. ASSUME Extends(c, d) PROVE Len(c) <= Len(d)
  <2>1. PICK i \in 0 .. Len(d) : Upto(d, i) = c
    BY <1>3 DEF Extends
  <2>2. Len(Upto(d, i)) = i
    BY KnownUpto
  <2> QED
    BY <1>1, <2>1, <2>2
<1> QED
  BY <1>1, <1>2, <1>3 DEF Extends

LEMMA KnownParent ==
    ASSUME NEW S, NEW L \in Seq(S), NEW dp \in Known(L)
    PROVE  /\ Parent(dp) \in Known0(L) /\ Len(Parent(dp)) = Len(dp) - 1
           /\ dp[Len(dp)] \in S /\ dp = Append(Parent(dp), dp[Len(dp)])
<1>1. dp \in Known0(L)
  BY DEF Known0
<1>2. dp \in Seq(S) /\ Len(dp) \in Nat /\ Len(dp) # 0
  BY <1>1, KnownIs
<1>3. Parent(dp) = Upto(dp, Len(dp) - 1)
  BY DEF Parent, Upto
<1>4. PICK i : i = Len(dp) - 1
  OBVIOUS
<1>5. i \in 0 .. Len(dp) /\ i \in 0 .. Len(dp) - 1 /\ i + 1 = Len(dp)
  BY <1>2, <1>4
<1>6. Upto(dp, i) \in Known0(L) /\ Len(Upto(dp, i)) = i
  BY <1>1, <1>5, KnownUpto
<1>7. Upto(dp, i + 1) = Append(Upto(dp, i), dp[i + 1]) /\ dp[i + 1] \in S
  BY <1>2, <1>5, UptoNext
<1>8. Upto(dp, Len(dp)) = dp
  BY <1>2, UptoAll
<1> QED
  BY <1>3, <1>4, <1>5, <1>6, <1>7, <1>8

-----------------------------------------------------------------------------
(* The size of a lane.                                                     *)

TotalIs(dp, g, m) == g = [i \in 0 .. m |-> IF i = 0 THEN 0 ELSE g[i - 1] + Len(dp[i])]

LEMMA TotalExists ==
    ASSUME NEW n \in Nat, NEW dp
    PROVE  \E g : TotalIs(dp, g, n)
<1> DEFINE P == {m \in 0 .. n : \E g : TotalIs(dp, g, m)}
<1>1. 0 \in P
  <2>1. TotalIs(dp, [i \in 0 .. 0 |-> 0], 0)
    BY DEF TotalIs
  <2> QED
    BY <2>1
<1>2. ASSUME NEW m \in 0 .. (n - 1), m \in P PROVE m + 1 \in P
  <2>1. PICK g : TotalIs(dp, g, m)
    BY <1>2
  <2> DEFINE x == g[m] + Len(dp[m + 1])
             h == [i \in 0 .. m + 1 |-> IF i = m + 1 THEN x ELSE g[i]]
  <2>2. ASSUME NEW i \in 0 .. m + 1
        PROVE  h[i] = IF i = 0 THEN 0 ELSE h[i - 1] + Len(dp[i])
    <3>1. CASE i = m + 1
      BY <3>1
    <3>2. CASE i # m + 1
      <4>1. i \in 0 .. m /\ h[i] = g[i] /\ (i # 0 => h[i - 1] = g[i - 1])
        BY <3>2
      <4>2. g[i] = IF i = 0 THEN 0 ELSE g[i - 1] + Len(dp[i])
        BY <2>1, <4>1 DEF TotalIs
      <4> QED
        BY <4>1, <4>2
    <3> QED
      BY <3>1, <3>2
  <2>3. h = [i \in 0 .. m + 1 |-> h[i]]
    OBVIOUS
  <2> HIDE DEF h
  <2>4. TotalIs(dp, h, m + 1)
    BY <2>2, <2>3 DEF TotalIs
  <2> QED
    BY <2>4
<1> HIDE DEF P
<1>3. 0 .. n \subseteq P
  BY <1>1, <1>2, InductionUpTo
<1> QED
  BY <1>3 DEF P

LEMMA TotalEquation ==
    ASSUME NEW S, NEW dp \in Seq(S)
    PROVE  \E g : /\ TotalSize(dp) = g[Len(dp)] /\ g[0] = 0
                  /\ \A i \in 0 .. Len(dp) - 1 : g[i + 1] = g[i] + Len(dp[i + 1])
<1> DEFINE n == Len(dp)
           g == CHOOSE h : TotalIs(dp, h, n)
<1>0. n \in Nat
  OBVIOUS
<1>1. TotalIs(dp, g, n)
  <2> HIDE DEF n
  <2> QED
    BY <1>0, TotalExists
<1>2. TotalSize(dp) = g[n]
  BY DEF TotalSize, TotalIs
<1> HIDE DEF g, n
<1>3. \A i \in 0 .. n : g[i] = IF i = 0 THEN 0 ELSE g[i - 1] + Len(dp[i])
  BY <1>1 DEF TotalIs
<1>4. g[0] = 0
  BY <1>0, <1>3
<1>5. ASSUME NEW i \in 0 .. n - 1 PROVE g[i + 1] = g[i] + Len(dp[i + 1])
  <2>1. i + 1 \in 0 .. n /\ i + 1 # 0 /\ (i + 1) - 1 = i
    BY <1>0
  <2> QED
    BY <1>3, <2>1
<1> QED
  BY <1>2, <1>4, <1>5 DEF n

\* The size of the lane before any proposal, and with one more.
LEMMA TotalNone == TotalSize(NoProposal) = 0
<1>1. NoProposal \in Seq({}) /\ Len(NoProposal) = 0
  BY DEF NoProposal
<1> QED
  BY <1>1, TotalEquation

LEMMA TotalAppend ==
    ASSUME NEW S, NEW dp \in Seq(Batch), NEW b \in Batch
    PROVE  TotalSize(Append(dp, b)) = TotalSize(dp) + Len(b)
<1> DEFINE a == Append(dp, b)
           n == Len(dp)
<1>1. n \in Nat /\ a \in Seq(Batch) /\ Len(a) = n + 1 /\ a[n + 1] = b
      /\ \A i \in 1 .. n : a[i] = dp[i]
  OBVIOUS
<1>2. PICK g : /\ TotalSize(dp) = g[n] /\ g[0] = 0
               /\ \A i \in 0 .. n - 1 : g[i + 1] = g[i] + Len(dp[i + 1])
  BY TotalEquation
<1> HIDE DEF a, n
<1>3. PICK h : /\ TotalSize(a) = h[Len(a)] /\ h[0] = 0
               /\ \A i \in 0 .. Len(a) - 1 : h[i + 1] = h[i] + Len(a[i + 1])
  BY <1>1, TotalEquation
<1> DEFINE P == {i \in 0 .. n : g[i] = h[i]}
<1>4. 0 \in P
  BY <1>1, <1>2, <1>3
<1>5. ASSUME NEW m \in 0 .. (n - 1), m \in P PROVE m + 1 \in P
  <2>1. m + 1 \in 1 .. n /\ m \in 0 .. Len(a) - 1 /\ m + 1 \in 0 .. n /\ g[m] = h[m]
    BY <1>1, <1>5
  <2>2. a[m + 1] = dp[m + 1]
    BY <1>1, <2>1
  <2>3. g[m + 1] = h[m + 1]
    BY <1>2, <1>3, <2>1, <2>2
  <2> QED
    BY <2>1, <2>3
<1> HIDE DEF P
<1>6. 0 .. n \subseteq P
  BY <1>1, <1>4, <1>5, InductionUpTo
<1>7. g[n] = h[n]
  BY <1>1, <1>6 DEF P
<1>8. n \in 0 .. Len(a) - 1
  BY <1>1
<1>9. h[n + 1] = h[n] + Len(b)
  BY <1>1, <1>3, <1>8
<1> QED
  BY <1>1, <1>2, <1>3, <1>7, <1>9 DEF a

\* Every proposal adds to the lane.
LEMMA SizesGrow ==
    ASSUME NEW L \in Seq(Batch), NEW i \in 0 .. Len(L)
    PROVE  /\ TotalSize(Upto(L, i)) \in Nat
           /\ \A j \in 0 .. i : j < i => TotalSize(Upto(L, j)) < TotalSize(Upto(L, i))
<1> DEFINE T(k) == TotalSize(Upto(L, k))
           P == {k \in 0 .. Len(L) :
                   T(k) \in Nat /\ \A j \in 0 .. k : j < k => T(j) \in Nat /\ T(j) < T(k)}
<1>0. Len(L) \in Nat
  OBVIOUS
<1>1. T(0) = 0
  BY UptoNone, TotalNone
<1>2. ASSUME NEW k \in 0 .. Len(L) - 1 PROVE \E l \in Nat \ {0} : T(k + 1) = T(k) + l
  <2>1. Upto(L, k + 1) = Append(Upto(L, k), L[k + 1]) /\ L[k + 1] \in Batch
    BY UptoNext
  <2>2. Upto(L, k) \in Seq(Batch)
    <3>1. k \in 0 .. Len(L)
      BY <1>0
    <3> QED
      BY <3>1, UptoOK
  <2>3. T(k + 1) = T(k) + Len(L[k + 1])
    BY <2>1, <2>2, TotalAppend
  <2>4. Len(L[k + 1]) \in Nat \ {0}
    BY <2>1 DEF Batch
  <2> QED
    BY <2>3, <2>4
<1> HIDE DEF T
<1>3. 0 \in P
  BY <1>0, <1>1
<1>4. ASSUME NEW m \in 0 .. (Len(L) - 1), m \in P PROVE m + 1 \in P
  <2>1. PICK l \in Nat \ {0} : T(m + 1) = T(m) + l
    BY <1>2
  <2>2. T(m) \in Nat /\ \A j \in 0 .. m : j < m => T(j) \in Nat /\ T(j) < T(m)
    BY <1>4
  <2>3. T(m + 1) \in Nat /\ T(m) < T(m + 1) /\ m + 1 \in 0 .. Len(L)
    BY <1>0, <2>1, <2>2
  <2>4. ASSUME NEW j \in 0 .. m + 1, j < m + 1 PROVE T(j) \in Nat /\ T(j) < T(m + 1)
    <3>1. CASE j = m
      BY <2>2, <2>3, <3>1
    <3>2. CASE j # m
      <4>1. j \in 0 .. m /\ j < m
        BY <2>4, <3>2
      <4>2. T(j) \in Nat /\ T(j) < T(m)
        BY <2>2, <4>1
      <4> QED
        BY <2>1, <2>2, <4>2
    <3> QED
      BY <3>1, <3>2
  <2> QED
    BY <2>3, <2>4
<1> HIDE DEF P
<1>5. 0 .. Len(L) \subseteq P
  BY <1>0, <1>3, <1>4, InductionUpTo
<1> QED
  BY <1>5 DEF P, T

LEMMA KnownSizes ==
    ASSUME NEW L \in Seq(Batch), NEW c \in Known0(L), NEW d \in Known0(L)
    PROVE  /\ TotalSize(c) \in Nat
           /\ TotalSize(c) < TotalSize(d) => Len(c) < Len(d)
           /\ c \in Known(L) => TotalSize(c) # 0
<1>1. /\ Len(c) \in 0 .. Len(L) /\ c = Upto(L, Len(c)) /\ (c \in Known(L) <=> Len(c) # 0)
      /\ Len(d) \in 0 .. Len(L) /\ d = Upto(L, Len(d)) /\ Len(L) \in Nat
  BY KnownIs
<1>2. PICK i \in 0 .. Len(L), j \in 0 .. Len(L) : i = Len(c) /\ j = Len(d)
  BY <1>1
<1>3. TotalSize(Upto(L, i)) \in Nat /\ TotalSize(Upto(L, j)) \in Nat
  BY SizesGrow
<1>4. j < i => TotalSize(Upto(L, j)) < TotalSize(Upto(L, i))
  BY <1>1, SizesGrow
<1>5. 0 < i => TotalSize(Upto(L, 0)) < TotalSize(Upto(L, i))
  BY <1>1, SizesGrow
<1>6. TotalSize(Upto(L, 0)) = 0
  BY UptoNone, TotalNone
<1>7. TotalSize(c) \in Nat /\ TotalSize(d) \in Nat
  BY <1>1, <1>2, <1>3
<1>8. TotalSize(c) < TotalSize(d) => i < j
  <2>1. i = j \/ j < i \/ i < j
    BY <1>1
  <2>2. i = j => TotalSize(c) = TotalSize(d)
    BY <1>1, <1>2
  <2>3. j < i => TotalSize(d) < TotalSize(c)
    BY <1>1, <1>2, <1>4
  <2> QED
    BY <1>7, <2>1, <2>2, <2>3
<1>9. i # 0 => TotalSize(c) # 0
  BY <1>1, <1>2, <1>3, <1>5, <1>6
<1> QED
  BY <1>1, <1>2, <1>7, <1>8, <1>9

-----------------------------------------------------------------------------
(* What the handlers are made of.                                          *)

\* The lane and what was stored only grow.
Grows(L, M, H, J) == Known(L) \subseteq Known(M) /\ H \subseteq J

LEMMA MsgGrows ==
    ASSUME NEW L, NEW M, NEW H, NEW J, Grows(L, M, H, J), NEW m, MsgOK(m, L, H)
    PROVE  MsgOK(m, M, J)
BY DEF Grows, MsgOK, SigsOK, Known0

LEMMA TipGrows ==
    ASSUME NEW L, NEW M, NEW H, NEW J, Grows(L, M, H, J), NEW t, TipOK(t, L)
    PROVE  TipOK(t, M)
BY DEF Grows, TipOK, Known0

LEMMA NodeGrows ==
    ASSUME NEW L, NEW M, NEW H, NEW J, Grows(L, M, H, J), NEW n, NEW w, NodeOK(n, w, L, H)
    PROVE  NodeOK(n, w, M, J)
<1>1. LaneOK(n, w.lane, M, J)
  BY DEF Grows, NodeOK, LaneOK, EntryOK
<1>2. TipOK(w.tip, M)
  BY TipGrows DEF NodeOK
<1>3. PodasOK(w.podas, J)
  BY DEF Grows, NodeOK, PodasOK, SigsOK
<1>4. \A m \in w.out : MsgOK(m, M, J)
  BY MsgGrows DEF NodeOK
<1>5. w.props \in Seq(Known(M)) /\ w.procs \in Seq(Task(M))
  <2>1. Known(L) \subseteq Known(M) /\ Task(L) \subseteq Task(M)
    BY DEF Grows, Task
  <2>2. w.props \in Seq(Known(L)) /\ w.procs \in Seq(Task(L))
    BY DEF NodeOK
  <2> QED
    BY <2>1, <2>2
<1> QED
  BY <1>1, <1>2, <1>3, <1>4, <1>5 DEF NodeOK

\* A validator's lane keeps its proposals and its tip, and no block is touched.
Quiet(w, u) ==
    /\ u.tip = w.tip /\ DOMAIN u.lane = DOMAIN w.lane
    /\ u.bucs = w.bucs /\ u.last = w.last /\ u.start = w.start /\ u.emits = w.emits

LEMMA QuietTwice ==
    ASSUME NEW w, NEW u, NEW x, Quiet(w, u), Quiet(u, x)
    PROVE  Quiet(w, x)
BY DEF Quiet

LEMMA StoreOK ==
    ASSUME NEW L \in Seq(Batch), NEW n, NEW w, NEW H, NodeOK(n, w, L, H), NEW dp \in Known(L),
           CanStore(w, dp), <<n, dp, TotalSize(dp)>> \in H
    PROVE  LET u == store_data_proposal(w, n, dp)
           IN  /\ NodeOK(n, u, L, H) /\ u.tip.dp = dp /\ DOMAIN u.lane = DOMAIN w.lane \cup {dp}
               /\ u.bucs = w.bucs /\ u.last = w.last /\ u.start = w.start /\ u.emits = w.emits
<1> DEFINE size == w.tip.size + EstimateSize(dp)
           e == [size |-> size, sigs |-> {n}]
           t == [dp |-> dp, size |-> size, sigs |-> {}]
           lane == Put(w.lane, dp, e)
<1>1. PICK u : u = store_data_proposal(w, n, dp)
  OBVIOUS
<1>2. Parent(dp) = w.tip.dp
  BY DEF CanStore, can_be_put_on_top
<1>3. /\ Parent(dp) \in Known0(L) /\ dp = Append(Parent(dp), dp[Len(dp)]) /\ dp[Len(dp)] \in Batch
  BY KnownParent
<1>4. Parent(dp) \in Seq(Batch)
  BY <1>3, KnownIs
<1>5. TotalSize(dp) = TotalSize(Parent(dp)) + Len(dp[Len(dp)])
  BY <1>3, <1>4, TotalAppend
<1>6. size = TotalSize(dp)
  BY <1>2, <1>5 DEF EstimateSize, NodeOK, TipOK
<1>7. EntryOK(n, dp, e, H) /\ TipOK(t, L)
  BY <1>6 DEF EntryOK, TipOK, Known0
<1>8. DOMAIN w = NodeFields
  BY DEF NodeOK
<1>9. /\ DOMAIN u = NodeFields /\ u.lane = lane /\ u.tip = t
      /\ \A x \in NodeFields \ {"lane", "tip"} : u[x] = w[x]
  BY <1>1, <1>8 DEF store_data_proposal, NodeFields
<1> HIDE DEF e, t, size
<1>10. LaneOK(n, lane, L, H) /\ DOMAIN lane = DOMAIN w.lane \cup {dp}
  <2>1. LaneOK(n, w.lane, L, H)
    BY DEF NodeOK
  <2> QED
    BY <1>7, <2>1 DEF LaneOK, Put
<1> HIDE DEF lane
<1>11. /\ u.waiting = w.waiting /\ u.podas = w.podas /\ u.props = w.props /\ u.procs = w.procs
       /\ u.out = w.out /\ u.bucs = w.bucs /\ u.last = w.last /\ u.start = w.start
       /\ u.emits = w.emits
  BY <1>9 DEF NodeFields
<1>12. NodeOK(n, u, L, H)
  BY <1>7, <1>9, <1>10, <1>11 DEF NodeOK
<1>13. u.tip.dp = dp
  BY <1>9 DEF t
<1> QED
  BY <1>1, <1>9, <1>10, <1>11, <1>12, <1>13

\* Signatures for the size of the lane are added, others not.
LEMMA AddSignaturesOK ==
    ASSUME NEW L \in Seq(Batch), NEW n, NEW w, NEW H, NodeOK(n, w, L, H), NEW dp \in DOMAIN w.lane,
           NEW size, NEW sigs, SigsOK(dp, size, sigs, H)
    PROVE  LET u == add_signatures(w, dp, size, sigs)
           IN  NodeOK(n, u, L, H) /\ Quiet(w, u)
<1>1. PICK u : u = add_signatures(w, dp, size, sigs)
  OBVIOUS
<1>2. CASE w.lane[dp].size # size
  BY <1>1, <1>2 DEF add_signatures, Quiet
<1>3. CASE w.lane[dp].size = size
  <2> DEFINE e == [size |-> size, sigs |-> w.lane[dp].sigs \cup sigs]
             lane == Put(w.lane, dp, e)
  <2>1. DOMAIN w = NodeFields /\ LaneOK(n, w.lane, L, H)
    BY DEF NodeOK
  <2>2. dp \in Known(L) /\ EntryOK(n, dp, w.lane[dp], H)
    BY <2>1 DEF LaneOK
  <2>3. size = TotalSize(dp) /\ size # 0
    <3>1. size = TotalSize(dp)
      BY <1>3, <2>2 DEF EntryOK
    <3>2. dp \in Known0(L)
      BY <2>2 DEF Known0
    <3> QED
      BY <2>2, <3>1, <3>2, KnownSizes
  <2>4. EntryOK(n, dp, e, H)
    BY <1>3, <2>2, <2>3 DEF EntryOK, SigsOK
  <2>5. /\ DOMAIN u = NodeFields /\ u.lane = lane
        /\ \A x \in NodeFields \ {"lane"} : u[x] = w[x]
    BY <1>1, <1>3, <2>1 DEF add_signatures, NodeFields
  <2> HIDE DEF e
  <2>6. LaneOK(n, lane, L, H) /\ DOMAIN lane = DOMAIN w.lane
    <3>1. DOMAIN w.lane \cup {dp} = DOMAIN w.lane
      OBVIOUS
    <3> QED
      BY <2>1, <2>2, <2>4, <3>1 DEF LaneOK, Put
  <2> HIDE DEF lane
  <2>7. /\ u.waiting = w.waiting /\ u.podas = w.podas /\ u.props = w.props /\ u.procs = w.procs
        /\ u.out = w.out /\ u.bucs = w.bucs /\ u.last = w.last /\ u.start = w.start
        /\ u.emits = w.emits /\ u.tip = w.tip
    BY <2>5 DEF NodeFields
  <2>8. NodeOK(n, u, L, H) /\ Quiet(w, u)
    BY <2>5, <2>6, <2>7 DEF NodeOK, Quiet
  <2> QED
    BY <1>1, <2>8
<1> QED
  BY <1>2, <1>3

\* Messages are sent.
LEMMA SendOK ==
    ASSUME NEW L, NEW n, NEW p \in Nodes, NEW w, NEW H, NodeOK(n, w, L, H),
           NEW dsts \in SUBSET Nodes,
           NEW type, NEW dp \in Known(L), NEW size, NEW sigs, NEW from \in Known0(L),
           SigsOK(dp, size, sigs, H), type # "SyncReply"
    PROVE  LET u == Send(w, p, dsts, Msg(type, dp, size, sigs, from))
           IN  /\ NodeOK(n, u, L, H) /\ Quiet(w, u) /\ u.lane = w.lane
               /\ u = [w EXCEPT !.out = u.out]
<1> DEFINE m == Msg(type, dp, size, sigs, from)
           sent == {[m EXCEPT !.src = p, !.dst = d] : d \in dsts \ {p}}
<1>1. PICK u : u = Send(w, p, dsts, m)
  OBVIOUS
<1>2. DOMAIN w = NodeFields /\ \A x \in w.out : MsgOK(x, L, H)
  BY DEF NodeOK
<1>3. /\ DOMAIN u = NodeFields /\ u.out = w.out \cup sent
      /\ \A x \in NodeFields \ {"out"} : u[x] = w[x]
  BY <1>1, <1>2 DEF Send, NodeFields
<1>4. ASSUME NEW d \in dsts PROVE MsgOK([m EXCEPT !.src = p, !.dst = d], L, H)
  <2>1. PICK x : x = [m EXCEPT !.src = p, !.dst = d]
    OBVIOUS
  <2>2. /\ x.src = p /\ x.dst = d /\ x.dp = dp /\ x.from = from /\ x.size = size
        /\ x.sigs = sigs /\ x.type = type
    BY <2>1 DEF Msg
  <2>3. MsgOK(x, L, H)
    BY <2>2 DEF MsgOK
  <2> QED
    BY <2>1, <2>3
<1>5. \A x \in u.out : MsgOK(x, L, H)
  <2>1. \A x \in sent : MsgOK(x, L, H)
    BY <1>4
  <2> HIDE DEF sent
  <2> QED
    BY <1>2, <1>3, <2>1
<1>6. u = [w EXCEPT !.out = u.out]
  BY <1>1, <1>2 DEF Send, NodeFields
<1> HIDE DEF sent, m
<1>7. /\ u.waiting = w.waiting /\ u.podas = w.podas /\ u.props = w.props /\ u.procs = w.procs
      /\ u.lane = w.lane /\ u.bucs = w.bucs /\ u.last = w.last /\ u.start = w.start
      /\ u.emits = w.emits /\ u.tip = w.tip
  BY <1>3 DEF NodeFields
<1>8. NodeOK(n, u, L, H) /\ Quiet(w, u)
  BY <1>3, <1>5, <1>7 DEF NodeOK, Quiet
<1> QED
  BY <1>1, <1>6, <1>7, <1>8 DEF m

LEMMA NoneKnown == \A L : NoProposal \in Known0(L)
BY DEF Known0

LEMMA SendVoteOK ==
    ASSUME NEW L, NEW n \in Nodes, NEW w, NEW H, NodeOK(n, w, L, H), NEW dp \in Known(L)
    PROVE  NodeOK(n, send_vote(w, n, dp), L, H) /\ Quiet(w, send_vote(w, n, dp))
<1> DEFINE size == get_lane_size_at(w, dp)
<1>1. SigsOK(dp, size, {n}, H)
  BY DEF get_lane_size_at, NodeOK, LaneOK, EntryOK, SigsOK
<1>2. {Op} \in SUBSET Nodes
  BY MempoolAssumption
<1> HIDE DEF size
<1>3. PICK u : u = Send(w, n, {Op}, Msg("DataVote", dp, size, {n}, NoProposal))
  OBVIOUS
<1>4. NodeOK(n, u, L, H) /\ Quiet(w, u)
  BY <1>1, <1>2, <1>3, SendOK, NoneKnown
<1>5. u = send_vote(w, n, dp)
  BY <1>3 DEF send_vote, DataVote, size
<1> QED
  BY <1>4, <1>5

LEMMA SpawnedOK ==
    ASSUME NEW L, NEW n, NEW w, NEW H, NodeOK(n, w, L, H), NEW dp \in Known(L),
           NEW what \in {"hash", "verify"}, NEW early \in {"None", "Vote", "Refuse"}
    PROVE  NodeOK(n, Spawned(w, what, dp, early), L, H) /\ Quiet(w, Spawned(w, what, dp, early))
<1> DEFINE e == [what |-> what, dp |-> dp, early |-> early]
<1>1. PICK u : u = Spawned(w, what, dp, early)
  OBVIOUS
<1>2. DOMAIN w = NodeFields /\ w.procs \in Seq(Task(L)) /\ e \in Task(L)
  BY DEF NodeOK, Task
<1>3. /\ DOMAIN u = NodeFields /\ u.procs = Append(w.procs, e)
      /\ \A x \in NodeFields \ {"procs"} : u[x] = w[x]
  BY <1>1, <1>2 DEF Spawned, NodeFields
<1> HIDE DEF e
<1>4. u.procs \in Seq(Task(L))
  BY <1>2, <1>3
<1>5. /\ u.waiting = w.waiting /\ u.podas = w.podas /\ u.props = w.props
      /\ u.lane = w.lane /\ u.bucs = w.bucs /\ u.last = w.last /\ u.start = w.start
      /\ u.emits = w.emits /\ u.tip = w.tip /\ u.out = w.out
  BY <1>3 DEF NodeFields
<1>6. NodeOK(n, u, L, H) /\ Quiet(w, u)
  BY <1>3, <1>4, <1>5 DEF NodeOK, Quiet
<1> QED
  BY <1>1, <1>6

LEMMA QuietSame == \A w : Quiet(w, w)
BY DEF Quiet

LEMMA DataProposalOK ==
    ASSUME NEW L, NEW n \in Nodes, NEW w, NEW H, NodeOK(n, w, L, H), NEW dp \in Known(L)
    PROVE  NodeOK(n, on_data_proposal(w, n, dp), L, H) /\ Quiet(w, on_data_proposal(w, n, dp))
<1>1. \/ on_data_proposal(w, n, dp) = w
      \/ on_data_proposal(w, n, dp) = send_vote(w, n, dp)
      \/ on_data_proposal(w, n, dp) = Spawned(w, "hash", dp, "None")
  BY DEF on_data_proposal
<1> QED
  BY <1>1, SendVoteOK, SpawnedOK, QuietSame

LEMMA InsertedOK ==
    ASSUME NEW S, NEW props \in Seq(S), NEW dp \in S
    PROVE  Inserted(props, dp) \in Seq(S)
BY DEF Inserted

LEMMA SwapRemovedOK ==
    ASSUME NEW S, NEW props \in Seq(S), NEW i \in DOMAIN props
    PROVE  SwapRemoved(props, i) \in Seq(S)
<1>1. Len(props) \in Nat /\ DOMAIN props = 1 .. Len(props)
  OBVIOUS
<1>2. Len(props) - 1 \in Nat /\ Len(props) \in 1 .. Len(props)
  BY <1>1
<1>3. \A k \in 1 .. Len(props) - 1 : (IF k = i THEN props[Len(props)] ELSE props[k]) \in S
  BY <1>1, <1>2
<1> QED
  BY <1>2, <1>3 DEF SwapRemoved

\* A field that says nothing of the lane, of messages or of blocks.
LEMMA CachedOK ==
    ASSUME NEW L, NEW n, NEW w, NEW H, NodeOK(n, w, L, H), NEW x
    PROVE  LET u == [w EXCEPT !.cached = x]
           IN  NodeOK(n, u, L, H) /\ Quiet(w, u) /\ u.lane = w.lane
<1>1. PICK u : u = [w EXCEPT !.cached = x]
  OBVIOUS
<1>2. DOMAIN w = NodeFields
  BY DEF NodeOK
<1>3. DOMAIN u = NodeFields /\ \A y \in NodeFields \ {"cached"} : u[y] = w[y]
  BY <1>1, <1>2 DEF NodeFields
<1>4. /\ u.waiting = w.waiting /\ u.podas = w.podas /\ u.props = w.props /\ u.procs = w.procs
      /\ u.lane = w.lane /\ u.bucs = w.bucs /\ u.last = w.last /\ u.start = w.start
      /\ u.emits = w.emits /\ u.tip = w.tip /\ u.out = w.out
  BY <1>3 DEF NodeFields
<1>5. NodeOK(n, u, L, H) /\ Quiet(w, u)
  BY <1>3, <1>4 DEF NodeOK, Quiet
<1> QED
  BY <1>1, <1>4, <1>5

LEMMA PropsOK ==
    ASSUME NEW L, NEW n, NEW w, NEW H, NodeOK(n, w, L, H), NEW x \in Seq(Known(L))
    PROVE  LET u == [w EXCEPT !.props = x]
           IN  NodeOK(n, u, L, H) /\ Quiet(w, u) /\ u.lane = w.lane
<1>1. PICK u : u = [w EXCEPT !.props = x]
  OBVIOUS
<1>2. DOMAIN w = NodeFields
  BY DEF NodeOK
<1>3. DOMAIN u = NodeFields /\ u.props = x /\ \A y \in NodeFields \ {"props"} : u[y] = w[y]
  BY <1>1, <1>2 DEF NodeFields
<1>4. /\ u.waiting = w.waiting /\ u.podas = w.podas /\ u.procs = w.procs
      /\ u.lane = w.lane /\ u.bucs = w.bucs /\ u.last = w.last /\ u.start = w.start
      /\ u.emits = w.emits /\ u.tip = w.tip /\ u.out = w.out
  BY <1>3 DEF NodeFields
<1>5. NodeOK(n, u, L, H) /\ Quiet(w, u)
  BY <1>3, <1>4 DEF NodeOK, Quiet
<1> QED
  BY <1>1, <1>4, <1>5

LEMMA HashedOK ==
    ASSUME NEW L, NEW n \in Nodes, NEW w, NEW H, NodeOK(n, w, L, H), NEW dp \in Known(L)
    PROVE  /\ NodeOK(n, on_hashed_data_proposal(w, n, dp), L, H)
           /\ Quiet(w, on_hashed_data_proposal(w, n, dp))
<1> DEFINE verdict == get_verdict(w, dp)
           u == [w EXCEPT !.cached = Put(@, dp, verdict)]
           early == process_data_proposal(u, dp)
           x == on_hashed_data_proposal(w, n, dp)
<1>1. verdict \in {"Vote", "Process", "Wait", "Refuse"}
  BY DEF get_verdict, can_be_put_on_top
<1>2. \/ x = send_vote(u, n, dp) \/ x = Spawned(u, "verify", dp, early) \/ x = u
      \/ x = [u EXCEPT !.props = Inserted(@, dp)]
  BY <1>1 DEF on_hashed_data_proposal
<1>3. early \in {"None", "Vote", "Refuse"}
  BY DEF process_data_proposal
<1>4. u = [w EXCEPT !.cached = Put(w.cached, dp, verdict)]
  OBVIOUS
<1>5. NodeOK(n, u, L, H) /\ Quiet(w, u)
  BY <1>4, CachedOK
<1> HIDE DEF u, early, x, verdict
<1>6. CASE x = send_vote(u, n, dp)
  BY <1>5, <1>6, SendVoteOK, QuietTwice DEF x
<1>7. CASE x = Spawned(u, "verify", dp, early)
  <2>1. NodeOK(n, x, L, H) /\ Quiet(u, x)
    BY <1>3, <1>5, <1>7, SpawnedOK
  <2> QED
    BY <1>5, <2>1, QuietTwice DEF x
<1>8. CASE x = u
  BY <1>5, <1>8 DEF x
<1>9. CASE x = [u EXCEPT !.props = Inserted(@, dp)]
  <2>1. u.props \in Seq(Known(L))
    BY <1>5 DEF NodeOK
  <2>2. Inserted(u.props, dp) \in Seq(Known(L))
    BY <2>1, InsertedOK
  <2>3. PICK p : p = Inserted(u.props, dp)
    OBVIOUS
  <2>4. x = [u EXCEPT !.props = p] /\ p \in Seq(Known(L))
    BY <1>9, <2>2, <2>3
  <2>5. NodeOK(n, x, L, H) /\ Quiet(u, x)
    BY <1>5, <2>4, PropsOK
  <2> QED
    BY <1>5, <2>5, QuietTwice DEF x
<1> QED
  BY <1>2, <1>6, <1>7, <1>8, <1>9

LEMMA TakeBufferedOK ==
    ASSUME NEW L \in Seq(Batch), NEW n \in Nodes, NEW w, NEW H, NodeOK(n, w, L, H),
           NEW dp \in DOMAIN w.lane
    PROVE  NodeOK(n, TakeBuffered(w, n, dp), L, H) /\ Quiet(w, TakeBuffered(w, n, dp))
<1> DEFINE podas == IF dp \in DOMAIN w.podas
                    THEN {q \in w.podas[dp] : q.size = w.lane[dp].size} ELSE {}
           sigs == w.lane[dp].sigs \cup UNION {q.sigs : q \in podas}
           e == [size |-> w.lane[dp].size, sigs |-> sigs]
           u == [w EXCEPT !.lane = Put(@, dp, e), !.podas = Drop(@, dp)]
           children == {k \in DOMAIN w.props : Parent(w.props[k]) = dp}
           k == Min(children)
           x == TakeBuffered(w, n, dp)
<1>1. /\ DOMAIN w = NodeFields /\ LaneOK(n, w.lane, L, H) /\ PodasOK(w.podas, H)
      /\ w.props \in Seq(Known(L))
  BY DEF NodeOK
<1>2. dp \in Known(L) /\ EntryOK(n, dp, w.lane[dp], H)
  BY <1>1 DEF LaneOK
<1>3. w.lane[dp].size # 0
  <2>1. w.lane[dp].size = TotalSize(dp) /\ dp \in Known0(L)
    BY <1>2 DEF EntryOK, Known0
  <2> QED
    BY <1>2, <2>1, KnownSizes
<1>4. EntryOK(n, dp, e, H)
  <2>1. \A q \in podas : \A v \in q.sigs : <<v, dp, w.lane[dp].size>> \in H
    BY <1>1, <1>3 DEF PodasOK, SigsOK
  <2> HIDE DEF podas
  <2> QED
    BY <1>2, <2>1 DEF EntryOK
<1>5. x = IF children = {} THEN u
          ELSE on_hashed_data_proposal([u EXCEPT !.props = SwapRemoved(@, k)], n, w.props[k])
  BY DEF TakeBuffered
<1>6. /\ DOMAIN u = NodeFields /\ u.lane = Put(w.lane, dp, e) /\ u.podas = Drop(w.podas, dp)
      /\ \A y \in NodeFields \ {"lane", "podas"} : u[y] = w[y]
  BY <1>1 DEF NodeFields
<1>7. NodeOK(n, u, L, H) /\ Quiet(w, u) /\ u.props = w.props
  <2> HIDE DEF e, u
  <2>1. LaneOK(n, u.lane, L, H) /\ DOMAIN u.lane = DOMAIN w.lane
    <3>1. DOMAIN w.lane \cup {dp} = DOMAIN w.lane
      OBVIOUS
    <3> QED
      BY <1>1, <1>2, <1>4, <1>6, <3>1 DEF LaneOK, Put
  <2>2. PodasOK(u.podas, H)
    BY <1>1, <1>6 DEF PodasOK, Drop
  <2>3. /\ u.waiting = w.waiting /\ u.props = w.props /\ u.procs = w.procs
        /\ u.bucs = w.bucs /\ u.last = w.last /\ u.start = w.start
        /\ u.emits = w.emits /\ u.tip = w.tip /\ u.out = w.out
    BY <1>6 DEF NodeFields
  <2> QED
    BY <1>6, <2>1, <2>2, <2>3 DEF NodeOK, Quiet
<1> HIDE DEF u
<1>8. CASE children = {}
  BY <1>5, <1>7, <1>8
<1>9. CASE children # {}
  <2>1. k \in DOMAIN w.props
    <3>1. children \in SUBSET Nat
      BY <1>1
    <3>2. \E i \in children : \A j \in children : i <= j
      <4> HIDE DEF children
      <4> QED
        BY <1>9, <3>1, LeastElement
    <3>3. k \in children
      <4> HIDE DEF children
      <4> QED
        BY <3>2 DEF Min
    <3> QED
      BY <3>3
  <2> HIDE DEF k, children
  <2>2. PICK p, c : p = SwapRemoved(u.props, k) /\ c = w.props[k]
    OBVIOUS
  <2>3. p \in Seq(Known(L)) /\ c \in Known(L)
    BY <1>1, <1>7, <2>1, <2>2, SwapRemovedOK
  <2>4. PICK y : y = [u EXCEPT !.props = p]
    OBVIOUS
  <2>5. NodeOK(n, y, L, H) /\ Quiet(u, y)
    BY <1>7, <2>3, <2>4, PropsOK
  <2>6. x = on_hashed_data_proposal(y, n, c)
    BY <1>5, <1>9, <2>2, <2>4
  <2> HIDE DEF x
  <2>7. NodeOK(n, x, L, H) /\ Quiet(y, x)
    BY <2>3, <2>5, <2>6, HashedOK
  <2>8. Quiet(w, y)
    BY <1>7, <2>5, QuietTwice
  <2> QED
    BY <2>7, <2>8, QuietTwice DEF x
<1> QED
  BY <1>8, <1>9

\* A validator's lane gained dp, and its tip is dp or as it was; no block is touched.
Gained(w, u, dp) ==
    /\ DOMAIN u.lane = DOMAIN w.lane \cup {dp} /\ (u.tip.dp = dp \/ u.tip = w.tip)
    /\ u.bucs = w.bucs /\ u.last = w.last /\ u.start = w.start /\ u.emits = w.emits

LEMMA ProcessedOK ==
    ASSUME NEW L \in Seq(Batch), NEW n \in Nodes, NEW w, NEW H, NodeOK(n, w, L, H),
           NEW dp \in Known(L), NEW verdict
    PROVE  LET u == on_processed_data_proposal(w, n, dp, verdict)
           IN  \/ NodeOK(n, u, L, H) /\ Quiet(w, u)
               \/ /\ NodeOK(n, u, L, H \cup {<<n, dp, TotalSize(dp)>>}) /\ Gained(w, u, dp)
                  /\ dp \notin DOMAIN w.lane
<1> DEFINE J == H \cup {<<n, dp, TotalSize(dp)>>}
           u == [w EXCEPT !.cached = Put(w.cached, dp, verdict)]
           x == on_processed_data_proposal(w, n, dp, verdict)
<1>1. NodeOK(n, u, L, H) /\ Quiet(w, u)
  BY CachedOK
<1>2. x = IF verdict = "Vote" /\ CanStore(u, dp)
          THEN TakeBuffered(send_vote(store_data_proposal(u, n, dp), n, dp), n, dp)
          ELSE u
  BY DEF on_processed_data_proposal
<1> HIDE DEF u, x
<1>3. CASE ~(verdict = "Vote" /\ CanStore(u, dp))
  BY <1>1, <1>2, <1>3 DEF x
<1>4. CASE verdict = "Vote" /\ CanStore(u, dp)
  <2>1. PICK y : y = store_data_proposal(u, n, dp)
    OBVIOUS
  <2>2. NodeOK(n, u, L, J)
    <3>1. Grows(L, L, H, J)
      BY DEF Grows
    <3> QED
      BY <1>1, <3>1, NodeGrows
  <2>3. <<n, dp, TotalSize(dp)>> \in J
    OBVIOUS
  <2> HIDE DEF J
  <2>4. /\ NodeOK(n, y, L, J) /\ y.tip.dp = dp /\ DOMAIN y.lane = DOMAIN u.lane \cup {dp}
        /\ y.bucs = u.bucs /\ y.last = u.last /\ y.start = u.start /\ y.emits = u.emits
    BY <1>4, <2>1, <2>2, <2>3, StoreOK
  <2>5. PICK z : z = send_vote(y, n, dp)
    OBVIOUS
  <2>6. NodeOK(n, z, L, J) /\ Quiet(y, z)
    BY <2>4, <2>5, SendVoteOK
  <2>7. dp \in DOMAIN z.lane
    BY <2>4, <2>6 DEF Quiet
  <2>8. x = TakeBuffered(z, n, dp)
    BY <1>2, <1>4, <2>1, <2>5
  <2>9. NodeOK(n, x, L, J) /\ Quiet(z, x)
    BY <2>6, <2>7, <2>8, TakeBufferedOK
  <2>10. Gained(w, x, dp)
    BY <1>1, <2>4, <2>6, <2>9 DEF Gained, Quiet
  <2>11. dp \notin DOMAIN w.lane
    BY <1>1, <1>4 DEF CanStore, Quiet
  <2> QED
    BY <2>9, <2>10, <2>11 DEF x, J
<1> QED
  BY <1>3, <1>4

LEMMA PodaUpdateOK ==
    ASSUME NEW L \in Seq(Batch), NEW n \in Nodes, NEW w, NEW H, NodeOK(n, w, L, H),
           NEW dp \in Known(L), NEW size, NEW sigs, SigsOK(dp, size, sigs, H)
    PROVE  LET u == on_poda_update(w, dp, size, sigs)
           IN  NodeOK(n, u, L, H) /\ Quiet(w, u)
<1>1. CASE dp \in DOMAIN w.lane
  <2>1. on_poda_update(w, dp, size, sigs) = add_signatures(w, dp, size, sigs)
    BY <1>1 DEF on_poda_update
  <2> QED
    BY <1>1, <2>1, AddSignaturesOK
<1>2. CASE dp \notin DOMAIN w.lane
  <2> DEFINE before == IF dp \in DOMAIN w.podas THEN w.podas[dp] ELSE {}
             q == [size |-> size, sigs |-> sigs]
             podas == Put(w.podas, dp, before \cup {q})
  <2>1. PICK u : u = on_poda_update(w, dp, size, sigs)
    OBVIOUS
  <2>2. DOMAIN w = NodeFields /\ PodasOK(w.podas, H)
    BY DEF NodeOK
  <2>3. u = [w EXCEPT !.podas = podas]
    BY <1>2, <2>1 DEF on_poda_update
  <2>4. PodasOK(podas, H)
    <3>1. \A p \in before \cup {q} : SigsOK(dp, p.size, p.sigs, H)
      BY <2>2 DEF PodasOK
    <3> HIDE DEF before, q
    <3> QED
      BY <2>2, <3>1 DEF PodasOK, Put
  <2> HIDE DEF podas
  <2>5. DOMAIN u = NodeFields /\ u.podas = podas /\ \A y \in NodeFields \ {"podas"} : u[y] = w[y]
    BY <2>2, <2>3 DEF NodeFields
  <2>6. /\ u.waiting = w.waiting /\ u.props = w.props /\ u.procs = w.procs
        /\ u.lane = w.lane /\ u.bucs = w.bucs /\ u.last = w.last /\ u.start = w.start
        /\ u.emits = w.emits /\ u.tip = w.tip /\ u.out = w.out
    BY <2>5 DEF NodeFields
  <2>7. NodeOK(n, u, L, H) /\ Quiet(w, u)
    BY <2>4, <2>5, <2>6 DEF NodeOK, Quiet
  <2> QED
    BY <2>1, <2>7
<1> QED
  BY <1>1, <1>2

LEMMA DataVoteOK ==
    ASSUME NEW L \in Seq(Batch), NEW n \in Nodes, NEW w, NEW H, NodeOK(n, w, L, H),
           NEW dp \in Known(L), NEW size, NEW v, SigsOK(dp, size, {v}, H)
    PROVE  LET u == on_data_vote(w, v, dp, size)
           IN  NodeOK(n, u, L, H) /\ Quiet(w, u)
<1> DEFINE u == add_signatures(w, dp, size, {v})
           sigs == u.lane[dp].sigs
           x == on_data_vote(w, v, dp, size)
           y == Send(u, Op, Nodes, Msg("PoDAUpdate", dp, u.lane[dp].size, sigs, NoProposal))
<1>1. x = w \/ (dp \in DOMAIN w.lane /\ (x = u \/ x = y))
  BY DEF on_data_vote, PoDAUpdate
<1>2. CASE dp \in DOMAIN w.lane
  <2>1. NodeOK(n, u, L, H) /\ Quiet(w, u)
    BY <1>2, AddSignaturesOK
  <2>2. EntryOK(n, dp, u.lane[dp], H)
    BY <1>2, <2>1 DEF Quiet, NodeOK, LaneOK
  <2>3. SigsOK(dp, u.lane[dp].size, sigs, H)
    BY <2>2 DEF EntryOK, SigsOK
  <2>4. Op \in Nodes /\ Nodes \in SUBSET Nodes
    BY MempoolAssumption
  <2> HIDE DEF u
  <2>5. PICK a, b : a = u.lane[dp].size /\ b = sigs
    OBVIOUS
  <2>6. PICK p, ns, type, none : p = Op /\ ns = Nodes /\ type = "PoDAUpdate" /\ none = NoProposal
    OBVIOUS
  <2>61. /\ p \in Nodes /\ ns \in SUBSET Nodes /\ type # "SyncReply" /\ none \in Known0(L)
         /\ SigsOK(dp, a, b, H)
    BY <2>3, <2>4, <2>5, <2>6, NoneKnown
  <2>62. PICK z : z = Send(u, p, ns, Msg(type, dp, a, b, none))
    OBVIOUS
  <2>7. NodeOK(n, z, L, H) /\ Quiet(u, z)
    BY <2>1, <2>61, <2>62, SendOK
  <2>8. z = y
    BY <2>5, <2>6, <2>62
  <2> HIDE DEF x, y
  <2> QED
    BY <1>1, <2>1, <2>7, <2>8, QuietTwice, QuietSame DEF x
<1>3. CASE dp \notin DOMAIN w.lane
  BY <1>1, <1>3, QuietSame
<1> QED
  BY <1>2, <1>3

-----------------------------------------------------------------------------
(* The walk down a lane.                                                   *)

LEMMA ReachedOK ==
    ASSUME NEW L \in Seq(Batch), NEW to \in Known0(L), NEW lane, NEW from
    PROVE  /\ Reached(lane, from, to) \in 0 .. Len(to)
           /\ \A j \in Reached(lane, from, to) + 1 .. Len(to) :
                Upto(to, j) \in DOMAIN lane /\ Upto(to, j) # from
<1> DEFINE I == {i \in 0 .. Len(to) :
                   \A j \in i + 1 .. Len(to) : Upto(to, j) \in DOMAIN lane /\ Upto(to, j) # from}
           r == Reached(lane, from, to)
<1>1. Len(to) \in Nat
  BY KnownIs
<1>2. Len(to) \in I /\ I \in SUBSET Nat
  BY <1>1
<1>3. r = Min(I)
  BY DEF Reached
<1>4. r \in I
  <2> HIDE DEF I, r
  <2>1. \E i \in I : \A j \in I : i <= j
    BY <1>2, LeastElement
  <2> QED
    BY <1>3, <2>1 DEF Min
<1> QED
  BY <1>4

LEMMA BetweenOK ==
    ASSUME NEW L \in Seq(Batch), NEW to \in Known0(L), NEW lane, NEW from,
           NEW dp \in Between(lane, from, to)
    PROVE  dp \in DOMAIN lane /\ dp \in Known(L)
<1> DEFINE r == Reached(lane, from, to)
<1>1. PICK i \in r + 1 .. Len(to) : dp = Upto(to, i)
  BY DEF Between
<1>2. r \in 0 .. Len(to) /\ Upto(to, i) \in DOMAIN lane /\ Len(to) \in Nat
  BY ReachedOK, KnownIs
<1> HIDE DEF r
<1>3. i \in 0 .. Len(to) /\ i # 0
  BY <1>2
<1> QED
  BY <1>1, <1>2, <1>3, KnownUpto

LEMMA MissingOK ==
    ASSUME NEW L \in Seq(Batch), NEW to \in Known0(L), NEW lane, NEW from
    PROVE  MissingHash(lane, from, to) \in Known0(L)
<1> DEFINE r == Reached(lane, from, to)
<1>1. r \in 0 .. Len(to)
  BY ReachedOK
<1> HIDE DEF r
<1>2. Upto(to, r) \in Known0(L)
  BY <1>1, KnownUpto
<1> QED
  BY <1>2, NoneKnown DEF MissingHash, r

-----------------------------------------------------------------------------
(* The operator's lane.                                                    *)

LEMMA DisseminateOK ==
    ASSUME NEW L \in Seq(Batch), NEW w, NEW H, NodeOK(Op, w, L, H), NEW only
    PROVE  LET u == disseminate_data_proposals(w, only)
           IN  NodeOK(Op, u, L, H) /\ Quiet(w, u)
<1> DEFINE dps == {dp \in Between(w.lane, CutAt(w.last).dp, w.tip.dp) :
                     /\ only = NoProposal \/ dp = only
                     /\ w.lane[dp].sigs # Nodes}
           dp == CHOOSE d \in dps : \A e \in dps : Len(e) <= Len(d)
           u == disseminate_data_proposals(w, only)
<1>1. u = IF dps = {} THEN w
          ELSE Send(w, Op, Nodes \ w.lane[dp].sigs, Msg("DataProposal", dp, 0, {}, NoProposal))
  BY DEF disseminate_data_proposals, DataProposal
<1>2. w.tip.dp \in Known0(L)
  BY DEF NodeOK, TipOK
<1>3. \A d \in dps : d \in Known(L)
  <2>1. PICK c, t : c = CutAt(w.last).dp /\ t = w.tip.dp
    OBVIOUS
  <2>2. \A d \in Between(w.lane, c, t) : d \in Known(L)
    BY <1>2, <2>1, BetweenOK
  <2> QED
    BY <2>1, <2>2
<1> HIDE DEF dps, u
<1>4. CASE dps = {}
  BY <1>1, <1>4, QuietSame DEF u
<1>5. CASE dps # {}
  <2>1. dp \in dps
    <3> DEFINE I == {Len(d) : d \in dps}
    <3>1. \A d \in dps : Len(d) \in 0 .. Len(L)
      BY <1>3, KnownIs DEF Known0
    <3>2. I \in SUBSET (0 .. Len(L)) /\ I # {} /\ Len(L) \in Nat
      BY <1>5, <3>1
    <3>3. \E i \in I : \A j \in I : j <= i
      <4> HIDE DEF I
      <4> QED
        BY <3>2, GreatestElement
    <3>4. \E d \in dps : \A e \in dps : Len(e) <= Len(d)
      BY <3>3
    <3> QED
      BY <3>4
  <2>2. PICK d : d = dp
    OBVIOUS
  <2>3. d \in Known(L)
    BY <1>3, <2>1, <2>2
  <2> HIDE DEF dp
  <2>4. PICK dsts : dsts = Nodes \ w.lane[d].sigs
    OBVIOUS
  <2>5. Op \in Nodes /\ dsts \in SUBSET Nodes /\ SigsOK(d, 0, {}, H)
    BY <2>4, MempoolAssumption DEF SigsOK
  <2>6. u = Send(w, Op, dsts, Msg("DataProposal", d, 0, {}, NoProposal))
    BY <1>1, <1>5, <2>2, <2>4
  <2>7. NodeOK(Op, u, L, H) /\ Quiet(w, u)
    BY <2>3, <2>5, <2>6, SendOK, NoneKnown
  <2> QED
    BY <2>7 DEF u
<1> QED
  BY <1>4, <1>5

LEMMA EnqueuedOK ==
    ASSUME NEW L, NEW n, NEW w, NEW H, NodeOK(n, w, L, H), NEW t \in Txs, NEW k
    PROVE  LET u == Enqueued([w EXCEPT !.known = k], t)
           IN  NodeOK(n, u, L, H) /\ Quiet(w, u)
<1>1. PICK u : u = Enqueued([w EXCEPT !.known = k], t)
  OBVIOUS
<1>2. DOMAIN w = NodeFields /\ w.waiting \in Seq(Txs)
  BY DEF NodeOK
<1>3. /\ DOMAIN u = NodeFields /\ u.waiting \in {w.waiting, Append(w.waiting, t)}
      /\ \A y \in NodeFields \ {"known", "waiting"} : u[y] = w[y]
  <2>1. PICK v : v = [w EXCEPT !.known = k]
    OBVIOUS
  <2>2. /\ DOMAIN v = NodeFields /\ v.waiting = w.waiting
        /\ \A y \in NodeFields \ {"known", "waiting"} : v[y] = w[y]
    BY <1>2, <2>1 DEF NodeFields
  <2>3. u = v \/ u = [v EXCEPT !.waiting = Append(v.waiting, t)]
    BY <1>1, <2>1 DEF Enqueued
  <2> QED
    BY <2>2, <2>3 DEF NodeFields
<1>4. u.waiting \in Seq(Txs)
  BY <1>2, <1>3
<1>5. /\ u.podas = w.podas /\ u.props = w.props /\ u.procs = w.procs
      /\ u.lane = w.lane /\ u.bucs = w.bucs /\ u.last = w.last /\ u.start = w.start
      /\ u.emits = w.emits /\ u.tip = w.tip /\ u.out = w.out
  BY <1>3 DEF NodeFields
<1>6. NodeOK(n, u, L, H) /\ Quiet(w, u)
  BY <1>3, <1>4, <1>5 DEF NodeOK, Quiet
<1> QED
  BY <1>1, <1>6

\* A proposal is prepared from the queue and chained to the tip; the lane grows by it.
LEMMA PreparedOK ==
    ASSUME NEW L \in Seq(Batch), NEW w, NEW H, NodeOK(Op, w, L, H), w.tip.dp = L, w.waiting # <<>>
    PROVE  LET prep == init_dp_preparation_if_pending(w)
           IN  \E b \in Batch : /\ prep.dp = Append(L, b)
                                /\ NodeOK(Op, prep.left, L, H) /\ Quiet(w, prep.left)
<1> DEFINE k == Min({BatchSize, Len(w.waiting)})
           b == SubSeq(w.waiting, 1, k)
           q == SubSeq(w.waiting, k + 1, Len(w.waiting))
           prep == init_dp_preparation_if_pending(w)
<1>1. DOMAIN w = NodeFields /\ w.waiting \in Seq(Txs)
  BY DEF NodeOK
<1>2. Len(w.waiting) \in Nat \ {0} /\ BatchSize \in Nat \ {0}
  BY <1>1, MempoolAssumption
<1>3. k \in {BatchSize, Len(w.waiting)} /\ k <= Len(w.waiting)
  <2> DEFINE I == {BatchSize, Len(w.waiting)}
  <2>1. I \in SUBSET Nat /\ I # {}
    BY <1>2
  <2>2. \E i \in I : \A j \in I : i <= j
    <3> HIDE DEF I
    <3> QED
      BY <2>1, LeastElement
  <2>3. k \in I /\ \A j \in I : k <= j
    <3> HIDE DEF I
    <3>1. k = Min(I)
      BY DEF I
    <3> QED
      BY <2>2, <3>1 DEF Min
  <2> QED
    BY <2>3
<1> HIDE DEF k
<1>4. b \in Seq(Txs) /\ Len(b) = k /\ q \in Seq(Txs)
  BY <1>1, <1>2, <1>3, SubSeqProperties
<1>5. b \in Batch
  <2>1. b # <<>>
    BY <1>2, <1>3, <1>4
  <2> QED
    BY <1>4, <2>1 DEF Batch
<1>6. prep.dp = Append(L, b) /\ prep.left = [w EXCEPT !.waiting = q]
  BY DEF init_dp_preparation_if_pending, k
<1> HIDE DEF b, q, prep
<1>7. PICK u : u = prep.left
  OBVIOUS
<1>8. DOMAIN u = NodeFields /\ u.waiting = q /\ \A y \in NodeFields \ {"waiting"} : u[y] = w[y]
  BY <1>1, <1>6, <1>7 DEF NodeFields
<1>9. /\ u.podas = w.podas /\ u.props = w.props /\ u.procs = w.procs
      /\ u.lane = w.lane /\ u.bucs = w.bucs /\ u.last = w.last /\ u.start = w.start
      /\ u.emits = w.emits /\ u.tip = w.tip /\ u.out = w.out
  BY <1>8 DEF NodeFields
<1>10. NodeOK(Op, u, L, H) /\ Quiet(w, u)
  BY <1>4, <1>8, <1>9 DEF NodeOK, Quiet
<1> QED
  BY <1>5, <1>6, <1>7, <1>10 DEF prep

\* A new proposal enters the lane, or (when it is there already, which the invariant rules
\* out) nothing changes.
LEMMA RegisterOK ==
    ASSUME NEW L \in Seq(Batch), NEW w, NEW H, NodeOK(Op, w, L, H), w.tip.dp = L,
           DOMAIN w.lane = Known(L), NEW b \in Batch
    PROVE  LET M == Append(L, b)
               u == register_new_data_proposal(w, M)
           IN  /\ NodeOK(Op, u, M, H \cup {<<Op, M, TotalSize(M)>>})
               /\ Gained(w, u, M) /\ u.tip.dp = M /\ DOMAIN u.lane = Known(M)
<1> DEFINE M == Append(L, b)
           J == H \cup {<<Op, M, TotalSize(M)>>}
           u == register_new_data_proposal(w, M)
<1>1. M \in Seq(Batch) /\ Len(M) = Len(L) + 1 /\ Upto(M, Len(L)) = L /\ Len(L) \in Nat
  <2>1. Len(L) \in Nat /\ Len(L) \in 0 .. Len(L) /\ Upto(L, Len(L)) = L
    BY UptoAll
  <2> QED
    BY <2>1, UptoAppend
<1>2. Known(M) = Known(L) \cup {M}
  BY KnownAppend
<1>3. M \notin Known(L)
  <2>1. \A dp \in Known(L) : Len(dp) \in 0 .. Len(L)
    BY KnownIs DEF Known0
  <2>2. Len(M) \notin 0 .. Len(L)
    BY <1>1
  <2> QED
    BY <2>1, <2>2
<1>4. CanStore(w, M)
  <2>1. Parent(M) = L
    BY <1>1 DEF Parent, Upto
  <2> QED
    BY <1>3, <2>1 DEF CanStore, can_be_put_on_top
<1>5. NodeOK(Op, w, M, J)
  <2>1. Grows(L, M, H, J)
    BY <1>2 DEF Grows
  <2> QED
    BY <2>1, NodeGrows
<1>6. <<Op, M, TotalSize(M)>> \in J
  OBVIOUS
<1>7. PICK v : v = store_data_proposal(w, Op, M)
  OBVIOUS
<1>8. u = disseminate_data_proposals(v, M)
  BY <1>4, <1>7 DEF register_new_data_proposal
<1>9. M \in Known(M)
  BY <1>2
<1> HIDE DEF J, u, M
<1>10. /\ NodeOK(Op, v, M, J) /\ v.tip.dp = M /\ DOMAIN v.lane = DOMAIN w.lane \cup {M}
       /\ v.bucs = w.bucs /\ v.last = w.last /\ v.start = w.start /\ v.emits = w.emits
  BY <1>1, <1>4, <1>5, <1>6, <1>7, <1>9, StoreOK
<1>11. NodeOK(Op, u, M, J) /\ Quiet(v, u)
  BY <1>1, <1>8, <1>10, DisseminateOK
<1>12. Gained(w, u, M) /\ u.tip.dp = M /\ DOMAIN u.lane = Known(M)
  BY <1>2, <1>10, <1>11 DEF Gained, Quiet
<1> QED
  BY <1>11, <1>12 DEF u, J, M

-----------------------------------------------------------------------------
(* Blocks.                                                                 *)

LEMMA SlotsGrow == \A k, l \in Nat : k <= l => Slots(k) \subseteq Slots(l)
BY DEF Slots

\* The cuts are proposals of the lane.
CutsKnown(L) == \A s \in 0 .. Len(cuts) : CutAt(s).dp \in Known0(L)

\* Of the blocks in the queue, those that miss nothing were emitted.
Flushed(lane, k, q, emits, left, emitted) ==
    \E ready \in Seq(Slots(k)) :
      /\ emitted = emits \o [i \in DOMAIN ready |->
                               [slot |-> ready[i].slot, dps |-> Content(lane, ready[i])]]
      /\ Elements(ready) = {b \in Elements(q) : Missing(lane, b) = NoProposal}
      /\ left \in Seq(Slots(k))
      /\ Elements(left) = {b \in Elements(q) : Missing(lane, b) # NoProposal}
      /\ Distinct(q) => Distinct(ready) /\ Distinct(left)

LEMMA SendBlocksOK ==
    ASSUME NEW L \in Seq(Batch), CutsKnown(L), NEW n \in Nodes, NEW w, NEW H, NodeOK(n, w, L, H),
           NEW k \in 0 .. Len(cuts), w.bucs \in Seq(Slots(k)), Len(cuts) \in Nat
    PROVE  LET u == try_to_send_full_signed_blocks(w, n)
           IN  /\ NodeOK(n, u, L, H) /\ Flushed(w.lane, k, w.bucs, w.emits, u.bucs, u.emits)
               /\ u.lane = w.lane /\ u.tip = w.tip /\ u.last = w.last /\ u.start = w.start
<1> DEFINE whole == {i \in DOMAIN w.bucs : Missing(w.lane, w.bucs[i]) = NoProposal}
           ready == Selected(w.bucs, whole)
           rest  == Selected(w.bucs, DOMAIN w.bucs \ whole)
           emitted == w.emits \o [i \in DOMAIN ready |->
                        [slot |-> ready[i].slot, dps |-> Content(w.lane, ready[i])]]
           asked == {[SyncRequest(CutAt(rest[i].from).dp, Missing(w.lane, rest[i]))
                              EXCEPT !.src = n] : i \in {j \in DOMAIN rest : n # Op}}
<1>1. PICK u : u = try_to_send_full_signed_blocks(w, n)
  OBVIOUS
<1>2. DOMAIN w = NodeFields /\ \A m \in w.out : MsgOK(m, L, H)
  BY DEF NodeOK
<1>3. /\ DOMAIN u = NodeFields /\ u.bucs = rest /\ u.emits = emitted /\ u.out = w.out \cup asked
      /\ \A y \in NodeFields \ {"bucs", "emits", "out"} : u[y] = w[y]
  <2>1. u = [w EXCEPT !.bucs = rest, !.emits = w.emits \o [i \in DOMAIN ready |->
                        [slot |-> ready[i].slot, dps |-> Content(w.lane, ready[i])]],
                      !.out = w.out \cup asked]
    BY <1>1 DEF try_to_send_full_signed_blocks
  <2> HIDE DEF rest, ready, asked
  <2> QED
    BY <1>2, <2>1 DEF NodeFields
<1>4. whole \in SUBSET DOMAIN w.bucs /\ DOMAIN w.bucs \ whole \in SUBSET DOMAIN w.bucs
  OBVIOUS
<1>5. /\ ready \in Seq(Slots(k)) /\ Elements(ready) = {w.bucs[i] : i \in whole}
      /\ Distinct(w.bucs) => Distinct(ready)
  <2> HIDE DEF whole
  <2> QED
    BY <1>4, SelectedElements
<1>6. /\ rest \in Seq(Slots(k)) /\ Elements(rest) = {w.bucs[i] : i \in DOMAIN w.bucs \ whole}
      /\ Distinct(w.bucs) => Distinct(rest)
  <2>1. PICK I : I = DOMAIN w.bucs \ whole
    OBVIOUS
  <2>2. I \in SUBSET DOMAIN w.bucs
    BY <2>1
  <2>3. /\ Selected(w.bucs, I) \in Seq(Slots(k))
        /\ Elements(Selected(w.bucs, I)) = {w.bucs[i] : i \in I}
        /\ Distinct(w.bucs) => Distinct(Selected(w.bucs, I))
    BY <2>2, SelectedElements
  <2> QED
    BY <2>1, <2>3
<1> HIDE DEF ready, rest
<1>7. /\ Elements(ready) = {b \in Elements(w.bucs) : Missing(w.lane, b) = NoProposal}
      /\ Elements(rest) = {b \in Elements(w.bucs) : Missing(w.lane, b) # NoProposal}
  BY <1>5, <1>6 DEF Elements
<1>8. Flushed(w.lane, k, w.bucs, w.emits, u.bucs, u.emits)
  BY <1>3, <1>5, <1>6, <1>7 DEF Flushed
<1>9. ASSUME NEW i \in DOMAIN rest
      PROVE  MsgOK([SyncRequest(CutAt(rest[i].from).dp, Missing(w.lane, rest[i]))
                      EXCEPT !.src = n], L, H)
  <2>1. PICK c, d : c = CutAt(rest[i].from).dp /\ d = Missing(w.lane, rest[i])
    OBVIOUS
  <2>2. rest[i] \in Slots(k) /\ rest[i] \in Elements(rest)
    BY <1>6 DEF Elements
  <2>3. rest[i].from \in 0 .. Len(cuts) /\ rest[i].slot \in 0 .. Len(cuts)
    BY <2>2 DEF Slots
  <2>4. c \in Known0(L) /\ CutAt(rest[i].slot).dp \in Known0(L)
    BY <2>1, <2>3 DEF CutsKnown
  <2>5. d # NoProposal
    BY <1>7, <2>1, <2>2
  <2>6. d \in Known0(L)
    <3>1. PICK t : t = CutAt(rest[i].slot).dp
      OBVIOUS
    <3>2. MissingHash(w.lane, c, t) \in Known0(L)
      BY <2>4, <3>1, MissingOK
    <3> QED
      BY <2>1, <3>1, <3>2 DEF Missing
  <2>7. d \in Known(L)
    BY <2>5, <2>6 DEF Known0
  <2>8. PICK x : x = [SyncRequest(c, d) EXCEPT !.src = n]
    OBVIOUS
  <2>9. /\ x.src = n /\ x.dst = Op /\ x.dp = d /\ x.from = c /\ x.size = 0
        /\ x.sigs = {} /\ x.type = "SyncRequest"
    BY <2>8 DEF SyncRequest, Msg
  <2>10. MsgOK(x, L, H)
    BY <2>4, <2>7, <2>9, MempoolAssumption DEF MsgOK, SigsOK
  <2> QED
    BY <2>1, <2>8, <2>10
<1>10. \A m \in u.out : MsgOK(m, L, H)
  <2>1. \A m \in asked : MsgOK(m, L, H)
    BY <1>9
  <2> HIDE DEF asked
  <2> QED
    BY <1>2, <1>3, <2>1
<1>11. /\ u.waiting = w.waiting /\ u.podas = w.podas /\ u.props = w.props /\ u.procs = w.procs
       /\ u.lane = w.lane /\ u.last = w.last /\ u.start = w.start /\ u.tip = w.tip
  BY <1>3 DEF NodeFields
<1>12. NodeOK(n, u, L, H)
  BY <1>3, <1>10, <1>11 DEF NodeOK
<1> QED
  BY <1>1, <1>8, <1>11, <1>12

-----------------------------------------------------------------------------
(* A reply to a request for a proposal.                                    *)

RetriedIs(g, u, n, props, l) ==
    g = [k \in 0 .. l |-> IF k = 0 THEN u
                          ELSE IF props[k] \in DOMAIN u.lane THEN g[k - 1]
                          ELSE on_data_proposal(g[k - 1], n, props[k])]

LEMMA RetriedExists ==
    ASSUME NEW l \in Nat, NEW u, NEW n, NEW props
    PROVE  \E g : RetriedIs(g, u, n, props, l)
<1> DEFINE P == {m \in 0 .. l : \E g : RetriedIs(g, u, n, props, m)}
<1>1. 0 \in P
  <2>1. RetriedIs([k \in 0 .. 0 |-> u], u, n, props, 0)
    BY DEF RetriedIs
  <2> QED
    BY <2>1
<1>2. ASSUME NEW m \in 0 .. (l - 1), m \in P PROVE m + 1 \in P
  <2>1. PICK g : RetriedIs(g, u, n, props, m)
    BY <1>2
  <2> DEFINE y == IF props[m + 1] \in DOMAIN u.lane THEN g[m]
                  ELSE on_data_proposal(g[m], n, props[m + 1])
             h == [k \in 0 .. m + 1 |-> IF k = m + 1 THEN y ELSE g[k]]
  <2>2. ASSUME NEW k \in 0 .. m + 1
        PROVE  h[k] = IF k = 0 THEN u
                      ELSE IF props[k] \in DOMAIN u.lane THEN h[k - 1]
                      ELSE on_data_proposal(h[k - 1], n, props[k])
    <3>1. CASE k = m + 1
      <4>1. h[k] = y /\ h[k - 1] = g[m] /\ k # 0
        BY <3>1
      <4> HIDE DEF h
      <4> QED
        BY <3>1, <4>1
    <3>2. CASE k # m + 1
      <4>1. k \in 0 .. m /\ h[k] = g[k] /\ (k # 0 => h[k - 1] = g[k - 1])
        BY <3>2
      <4>2. g[k] = IF k = 0 THEN u
                   ELSE IF props[k] \in DOMAIN u.lane THEN g[k - 1]
                   ELSE on_data_proposal(g[k - 1], n, props[k])
        BY <2>1, <4>1 DEF RetriedIs
      <4> HIDE DEF h
      <4> QED
        BY <4>1, <4>2
    <3> QED
      BY <3>1, <3>2
  <2>3. RetriedIs(h, u, n, props, m + 1)
    <3>1. h = [k \in 0 .. m + 1 |-> h[k]]
      OBVIOUS
    <3> HIDE DEF h
    <3> QED
      BY <2>2, <3>1 DEF RetriedIs
  <2> QED
    BY <2>3
<1> HIDE DEF P
<1>3. 0 .. l \subseteq P
  BY <1>1, <1>2, InductionUpTo
<1> QED
  BY <1>3 DEF P

LEMMA RetriedOK ==
    ASSUME NEW L \in Seq(Batch), NEW n \in Nodes, NEW u, NEW H, NodeOK(n, u, L, H),
           NEW props \in Seq(Known(L)), NEW g, RetriedIs(g, u, n, props, Len(props))
    PROVE  NodeOK(n, g[Len(props)], L, H) /\ Quiet(u, g[Len(props)])
<1> DEFINE l == Len(props)
           P == {k \in 0 .. l : NodeOK(n, g[k], L, H) /\ Quiet(u, g[k])}
<1>1. l \in Nat
  OBVIOUS
<1>2. 0 \in P
  BY <1>1, QuietSame DEF RetriedIs
<1>3. ASSUME NEW k \in 0 .. (l - 1), k \in P PROVE k + 1 \in P
  <2>1. k + 1 \in 0 .. l /\ k + 1 # 0 /\ k + 1 - 1 = k /\ k + 1 \in 1 .. l
    BY <1>1
  <2>2. g[k + 1] = IF props[k + 1] \in DOMAIN u.lane THEN g[k]
                   ELSE on_data_proposal(g[k], n, props[k + 1])
    BY <2>1 DEF RetriedIs
  <2>3. PICK x, p : x = g[k] /\ p = props[k + 1]
    OBVIOUS
  <2>4. p \in Known(L) /\ NodeOK(n, x, L, H) /\ Quiet(u, x)
    BY <1>3, <2>1, <2>3
  <2>5. NodeOK(n, on_data_proposal(x, n, p), L, H) /\ Quiet(x, on_data_proposal(x, n, p))
    BY <2>4, DataProposalOK
  <2>6. NodeOK(n, g[k + 1], L, H) /\ Quiet(u, g[k + 1])
    BY <2>2, <2>3, <2>4, <2>5, QuietTwice
  <2> QED
    BY <2>1, <2>6
<1> HIDE DEF P
<1>4. 0 .. l \subseteq P
  BY <1>1, <1>2, <1>3, InductionUpTo
<1> QED
  BY <1>1, <1>4 DEF P

\* The validator stored dp, and emitted the blocks that miss nothing any more.
Answered(n, w, u, dp, k, L, H) ==
    /\ NodeOK(n, u, L, H \cup {<<n, dp, TotalSize(dp)>>})
    /\ DOMAIN u.lane = DOMAIN w.lane \cup {dp}
    /\ Flushed(u.lane, k, w.bucs, w.emits, u.bucs, u.emits)
    /\ u.tip = w.tip /\ u.last = w.last /\ u.start = w.start

LEMMA SyncReplyOK ==
    ASSUME NEW L \in Seq(Batch), CutsKnown(L), Len(cuts) \in Nat, NEW n \in Nodes, NEW w, NEW H,
           NodeOK(n, w, L, H), NEW k \in 0 .. Len(cuts), w.bucs \in Seq(Slots(k)),
           NEW m, MsgOK(m, L, H), m.type = "SyncReply"
    PROVE  \/ on_sync_reply(w, n, m) = w
           \/ Answered(n, w, on_sync_reply(w, n, m), m.dp, k, L, H)
<1> DEFINE dp == m.dp
           J == H \cup {<<n, dp, TotalSize(dp)>>}
           e == [size |-> m.size, sigs |-> m.sigs]
           u == [w EXCEPT !.lane = Put(w.lane, dp, e), !.props = <<>>]
           l == Len(w.props)
           g == CHOOSE h : RetriedIs(h, u, n, w.props, l)
           x == on_sync_reply(w, n, m)
<1>1. /\ DOMAIN w = NodeFields /\ w.props \in Seq(Known(L)) /\ l \in Nat
      /\ LaneOK(n, w.lane, L, H)
  BY DEF NodeOK
<1>2. RetriedIs(g, u, n, w.props, l)
  <2> HIDE DEF u, l
  <2> QED
    BY <1>1, RetriedExists
<1>3. x = IF Op \notin m.sigs THEN w ELSE try_to_send_full_signed_blocks(g[l], n)
  BY DEF on_sync_reply, RetriedIs
<1> HIDE DEF g, x
<1>4. CASE Op \notin m.sigs
  BY <1>3, <1>4 DEF x
<1>5. CASE Op \in m.sigs
  <2>1. dp \in Known(L) /\ m.size = TotalSize(dp) /\ m.size # 0
    <3>1. dp \in Known(L) /\ dp \in Known0(L) /\ m.size = TotalSize(dp)
      BY DEF MsgOK, Known0
    <3> QED
      BY <3>1, KnownSizes
  <2>2. EntryOK(n, dp, e, J)
    BY <2>1 DEF MsgOK, SigsOK, EntryOK
  <2>3. /\ DOMAIN u = NodeFields /\ u.lane = Put(w.lane, dp, e) /\ u.props = <<>>
        /\ \A y \in NodeFields \ {"lane", "props"} : u[y] = w[y]
    BY <1>1 DEF NodeFields
  <2>4. NodeOK(n, w, L, J)
    <3>1. Grows(L, L, H, J)
      BY DEF Grows
    <3> QED
      BY <3>1, NodeGrows
  <2> HIDE DEF e, J, u
  <2>5. LaneOK(n, u.lane, L, J) /\ DOMAIN u.lane = DOMAIN w.lane \cup {dp}
    <3>1. LaneOK(n, w.lane, L, J)
      BY <2>4 DEF NodeOK
    <3> QED
      BY <2>1, <2>2, <2>3, <3>1 DEF LaneOK, Put
  <2>6. /\ u.waiting = w.waiting /\ u.podas = w.podas /\ u.procs = w.procs
        /\ u.bucs = w.bucs /\ u.last = w.last /\ u.start = w.start
        /\ u.emits = w.emits /\ u.tip = w.tip /\ u.out = w.out
    BY <2>3 DEF NodeFields
  <2>7. <<>> \in Seq(Known(L))
    OBVIOUS
  <2>8. NodeOK(n, u, L, J)
    BY <2>3, <2>4, <2>5, <2>6, <2>7 DEF NodeOK
  <2>9. PICK v : v = g[l]
    OBVIOUS
  <2>10. NodeOK(n, v, L, J) /\ Quiet(u, v)
    BY <1>1, <1>2, <2>8, <2>9, RetriedOK
  <2>11. v.bucs \in Seq(Slots(k))
    BY <2>6, <2>10 DEF Quiet
  <2>12. x = try_to_send_full_signed_blocks(v, n)
    BY <1>3, <1>5, <2>9
  <2>13. /\ NodeOK(n, x, L, J) /\ Flushed(v.lane, k, v.bucs, v.emits, x.bucs, x.emits)
         /\ x.lane = v.lane /\ x.tip = v.tip /\ x.last = v.last /\ x.start = v.start
    BY <2>10, <2>11, <2>12, SendBlocksOK
  <2>14. /\ v.bucs = w.bucs /\ v.emits = w.emits /\ v.tip = w.tip /\ v.last = w.last
         /\ v.start = w.start /\ DOMAIN v.lane = DOMAIN w.lane \cup {dp}
    BY <2>5, <2>6, <2>10 DEF Quiet
  <2> QED
    BY <2>13, <2>14 DEF x, J, Answered
<1> QED
  BY <1>4, <1>5

-----------------------------------------------------------------------------
(* A commit.                                                               *)

\* A block is queued for the next slot; a gap leaves its slots without one.
Created(w, u, s) ==
    \/ u = w
    \/ /\ s = w.last + 1 /\ u.last = s /\ u.start = IF w.start = 0 THEN s ELSE w.start
       /\ u.bucs = Append(w.bucs, [from |-> w.last, slot |-> s])
    \/ s > w.last + 1 /\ u.last = s /\ u.start = w.start /\ u.bucs = w.bucs

LEMMA CreateOK ==
    ASSUME NEW L, NEW n, NEW w, NEW H, NodeOK(n, w, L, H), SlotsOK(w), Len(cuts) \in Nat,
           NEW s \in 1 .. Len(cuts)
    PROVE  LET u == try_create_block_under_construction(w, s)
           IN  /\ NodeOK(n, u, L, H) /\ SlotsOK(u) /\ Created(w, u, s)
               /\ u.lane = w.lane /\ u.tip = w.tip /\ u.emits = w.emits
<1> DEFINE b == [from |-> w.last, slot |-> s]
           st == IF w.start = 0 THEN s ELSE w.start
<1>1. PICK u : u = try_create_block_under_construction(w, s)
  OBVIOUS
<1>2. DOMAIN w = NodeFields /\ w.last \in 0 .. Len(cuts) /\ w.bucs \in Seq(Slots(w.last))
  BY DEF NodeOK, SlotsOK
<1>3. \/ u = w
      \/ s = w.last + 1 /\ u = [w EXCEPT !.last = s, !.bucs = Append(w.bucs, b), !.start = st]
      \/ s > w.last + 1 /\ u = [w EXCEPT !.last = s]
  BY <1>1, <1>2 DEF try_create_block_under_construction
<1>4. CASE u = w
  BY <1>1, <1>4 DEF Created
<1>5. CASE s = w.last + 1 /\ u = [w EXCEPT !.last = s, !.bucs = Append(w.bucs, b), !.start = st]
  <2>1. b \in Slots(s) /\ w.bucs \in Seq(Slots(s))
    <3>1. b \in Slots(s)
      BY <1>2, <1>5 DEF Slots
    <3>2. Slots(w.last) \subseteq Slots(s)
      BY <1>2, <1>5, SlotsGrow
    <3> QED
      BY <1>2, <3>1, <3>2
  <2>2. Append(w.bucs, b) \in Seq(Slots(s))
    <3> HIDE DEF b
    <3> QED
      BY <2>1
  <2> HIDE DEF b, st
  <2>3. /\ DOMAIN u = NodeFields /\ u.last = s /\ u.bucs = Append(w.bucs, b) /\ u.start = st
        /\ \A y \in NodeFields \ {"last", "bucs", "start"} : u[y] = w[y]
    BY <1>2, <1>5 DEF NodeFields
  <2>4. /\ u.waiting = w.waiting /\ u.podas = w.podas /\ u.props = w.props /\ u.procs = w.procs
        /\ u.lane = w.lane /\ u.emits = w.emits /\ u.tip = w.tip /\ u.out = w.out
    BY <2>3 DEF NodeFields
  <2>5. NodeOK(n, u, L, H) /\ SlotsOK(u)
    BY <2>2, <2>3, <2>4 DEF NodeOK, SlotsOK
  <2> QED
    BY <1>1, <1>5, <2>3, <2>4, <2>5 DEF b, st, Created
<1>6. CASE s > w.last + 1 /\ u = [w EXCEPT !.last = s]
  <2>1. w.bucs \in Seq(Slots(s))
    <3>1. Slots(w.last) \subseteq Slots(s)
      BY <1>2, <1>6, SlotsGrow
    <3> QED
      BY <1>2, <3>1
  <2>2. /\ DOMAIN u = NodeFields /\ u.last = s
        /\ \A y \in NodeFields \ {"last"} : u[y] = w[y]
    BY <1>2, <1>6 DEF NodeFields
  <2>3. /\ u.waiting = w.waiting /\ u.podas = w.podas /\ u.props = w.props /\ u.procs = w.procs
        /\ u.lane = w.lane /\ u.emits = w.emits /\ u.tip = w.tip /\ u.out = w.out
        /\ u.bucs = w.bucs /\ u.start = w.start
    BY <2>2 DEF NodeFields
  <2>4. NodeOK(n, u, L, H) /\ SlotsOK(u)
    BY <2>1, <2>2, <2>3 DEF NodeOK, SlotsOK
  <2> QED
    BY <1>1, <1>6, <2>2, <2>3, <2>4 DEF Created
<1> QED
  BY <1>3, <1>4, <1>5, <1>6

LEMMA CleanOK ==
    ASSUME NEW L \in Seq(Batch), NEW n \in Nodes, NEW w, NEW H, NodeOK(n, w, L, H),
           NEW cut, TipOK(cut, L), NEW prev, TipOK(prev, L)
    PROVE  LET u == clean_and_update_lanes(w, n, cut, prev)
           IN  /\ NodeOK(n, u, L, H)
               /\ u.bucs = w.bucs /\ u.last = w.last /\ u.start = w.start /\ u.emits = w.emits
               /\ cut.dp \in DOMAIN w.lane \cup {NoProposal} => u = w
<1> DEFINE lane == IF w.tip.dp \in {prev.dp, cut.dp} THEN w.lane ELSE Drop(w.lane, w.tip.dp)
           t == [dp |-> cut.dp, size |-> cut.size, sigs |-> {}]
           v == [w EXCEPT !.lane = lane, !.tip = t]
           x == clean_and_update_lanes(w, n, cut, prev)
<1>1. CASE cut.dp = NoProposal \/ cut.dp \in DOMAIN w.lane \/ cut.dp = prev.dp
  BY <1>1 DEF clean_and_update_lanes
<1>2. CASE ~(cut.dp = NoProposal \/ cut.dp \in DOMAIN w.lane \/ cut.dp = prev.dp)
  <2>1. x = Send(v, n, {Op}, Msg("SyncRequest", cut.dp, 0, {}, prev.dp))
    BY <1>2 DEF clean_and_update_lanes, clean_and_update_lane, SyncRequest
  <2>2. DOMAIN w = NodeFields /\ LaneOK(n, w.lane, L, H)
    BY DEF NodeOK
  <2>3. LaneOK(n, lane, L, H) /\ TipOK(t, L)
    BY <2>2 DEF LaneOK, Drop, TipOK
  <2> HIDE DEF lane, t
  <2>4. /\ DOMAIN v = NodeFields /\ v.lane = lane /\ v.tip = t
        /\ \A y \in NodeFields \ {"lane", "tip"} : v[y] = w[y]
    BY <2>2 DEF NodeFields
  <2> HIDE DEF v, x
  <2>5. /\ v.waiting = w.waiting /\ v.podas = w.podas /\ v.props = w.props /\ v.procs = w.procs
        /\ v.out = w.out /\ v.bucs = w.bucs /\ v.last = w.last /\ v.start = w.start
        /\ v.emits = w.emits
    BY <2>4 DEF NodeFields
  <2>6. NodeOK(n, v, L, H)
    BY <2>3, <2>4, <2>5 DEF NodeOK
  <2>7. PICK c, p : c = cut.dp /\ p = prev.dp
    OBVIOUS
  <2>8. c \in Known(L) /\ p \in Known0(L) /\ SigsOK(c, 0, {}, H) /\ {Op} \in SUBSET Nodes
    BY <1>2, <2>7, MempoolAssumption DEF TipOK, Known0, SigsOK
  <2>9. x = Send(v, n, {Op}, Msg("SyncRequest", c, 0, {}, p))
    BY <2>1, <2>7
  <2>10. NodeOK(n, x, L, H) /\ Quiet(v, x)
    BY <2>6, <2>8, <2>9, SendOK
  <2> QED
    BY <1>2, <2>5, <2>10 DEF x, Quiet
<1> QED
  BY <1>1, <1>2

LEMMA RepliesOK ==
    ASSUME NEW L \in Seq(Batch), NEW n \in Nodes, NEW w, NEW H, NodeOK(n, w, L, H),
           NEW v \in Nodes, NEW dps \in SUBSET DOMAIN w.lane
    PROVE  NodeOK(n, send_replies(w, v, dps), L, H) /\ Quiet(w, send_replies(w, v, dps))
<1> DEFINE out == {[SyncReply(dp, w.lane[dp]) EXCEPT !.dst = v] : dp \in dps}
<1>1. PICK u : u = send_replies(w, v, dps)
  OBVIOUS
<1>2. DOMAIN w = NodeFields /\ LaneOK(n, w.lane, L, H)
  BY DEF NodeOK
<1>3. \A m \in out : MsgOK(m, L, H)
  <2>1. SUFFICES ASSUME NEW dp \in dps
                 PROVE  MsgOK([SyncReply(dp, w.lane[dp]) EXCEPT !.dst = v], L, H)
    OBVIOUS
  <2>2. dp \in Known(L) /\ EntryOK(n, dp, w.lane[dp], H)
    BY <1>2 DEF LaneOK
  <2>3. PICK e : e = w.lane[dp]
    OBVIOUS
  <2>4. PICK m : m = [SyncReply(dp, e) EXCEPT !.dst = v]
    OBVIOUS
  <2>5. /\ m.type = "SyncReply" /\ m.src = Op /\ m.dst = v /\ m.dp = dp /\ m.size = e.size
        /\ m.sigs = e.sigs /\ m.from = NoProposal
    BY <2>4 DEF SyncReply, Msg
  <2>6. MsgOK(m, L, H)
    BY <2>2, <2>3, <2>5, MempoolAssumption, NoneKnown DEF MsgOK, EntryOK, SigsOK
  <2> QED
    BY <2>3, <2>4, <2>6
<1>4. DOMAIN u = NodeFields /\ u.out = out /\ \A y \in NodeFields \ {"out"} : u[y] = w[y]
  BY <1>1, <1>2 DEF send_replies, NodeFields
<1> HIDE DEF out
<1>5. /\ u.waiting = w.waiting /\ u.podas = w.podas /\ u.props = w.props /\ u.procs = w.procs
      /\ u.lane = w.lane /\ u.bucs = w.bucs /\ u.last = w.last /\ u.start = w.start
      /\ u.emits = w.emits /\ u.tip = w.tip
  BY <1>4 DEF NodeFields
<1>6. NodeOK(n, u, L, H) /\ Quiet(w, u)
  BY <1>3, <1>4, <1>5 DEF NodeOK, Quiet
<1> QED
  BY <1>1, <1>6

-----------------------------------------------------------------------------
(* A step of one validator.                                                *)

LEMMA BecomesOK ==
    ASSUME IInv, NEW n \in Nodes, NEW u, Becomes(n, u), cuts' = cuts, disk' = disk,
           NEW M \in Seq(Batch), Known(Lane) \subseteq Known(M),
           n = Op => u.tip.dp = M /\ DOMAIN u.lane = Known(M), n # Op => M = Lane,
           NEW H, H \subseteq held \cup {<<n, dp, TotalSize(dp)>> : dp \in DOMAIN u.lane},
           NodeOK(n, u, M, H), SlotsOK(u)
    PROVE  IInv'
<1> DEFINE v == [u EXCEPT !.out = {}, !.emits = <<>>]
<1>0. PICK J : J = held'
  OBVIOUS
<1>1. J = held \cup {<<n, dp, TotalSize(dp)>> : dp \in DOMAIN u.lane}
  <2>1. \A dp \in DOMAIN u.lane : u.lane[dp].size = TotalSize(dp)
    BY DEF NodeOK, LaneOK, EntryOK
  <2> QED
    BY <1>0, <2>1 DEF Becomes
<1>2. DOMAIN node = Nodes /\ node' = [node EXCEPT ![n] = v] /\ DOMAIN u = NodeFields
  BY DEF IInv, NodesOK, Becomes, NodeOK
<1>3. /\ DOMAIN v = NodeFields /\ v.out = {} /\ v.emits = <<>>
      /\ \A y \in NodeFields \ {"out", "emits"} : v[y] = u[y]
  BY <1>2 DEF NodeFields
<1> HIDE DEF v
<1>4. /\ DOMAIN node' = Nodes /\ node'[n] = v /\ \A x \in Nodes \ {n} : node'[x] = node[x]
  BY <1>2
<1>5. /\ v.waiting = u.waiting /\ v.podas = u.podas /\ v.props = u.props /\ v.procs = u.procs
      /\ v.lane = u.lane /\ v.tip = u.tip /\ v.last = u.last /\ v.bucs = u.bucs
  BY <1>3 DEF NodeFields
<1>6. Lane' = M /\ DOMAIN node'[Op].lane = Known(M)
  <2>1. CASE n = Op
    BY <1>4, <1>5, <2>1 DEF Lane
  <2>2. CASE n # Op
    BY <1>4, <2>2, MempoolAssumption DEF Lane, IInv
  <2> QED
    BY <2>1, <2>2
<1>7. Grows(Lane, M, held, J) /\ Grows(M, M, H, J)
  BY <1>1 DEF Grows
<1>8. NodeOK(n, v, M, J) /\ SlotsOK(v)
  <2>1. NodeOK(n, u, M, J)
    BY <1>7, NodeGrows
  <2> QED
    BY <1>3, <1>5, <2>1 DEF NodeOK, SlotsOK
<1>9. ASSUME NEW x \in Nodes
      PROVE  /\ NodeOK(x, node'[x], M, J) /\ DiskOK(disk[x], M) /\ SlotsOK(node'[x])
             /\ node'[x].out = {} /\ node'[x].emits = <<>>
  <2>1. /\ NodeOK(x, node[x], Lane, held) /\ DiskOK(disk[x], Lane) /\ SlotsOK(node[x])
        /\ node[x].out = {} /\ node[x].emits = <<>>
    BY DEF IInv, NodesOK
  <2>2. DiskOK(disk[x], M)
    BY <1>7, <2>1, TipGrows DEF DiskOK
  <2>3. CASE x = n
    BY <1>3, <1>4, <1>8, <2>2, <2>3
  <2>4. CASE x # n
    BY <1>4, <1>7, <2>1, <2>2, <2>4, NodeGrows
  <2> QED
    BY <2>3, <2>4
<1>10. NodesOK(M, J)'
  <2>1. /\ DOMAIN node' = Nodes /\ DOMAIN disk' = Nodes
    BY <1>4 DEF IInv, NodesOK
  <2>2. \A x \in Nodes : DiskOK(disk[x], M)' /\ SlotsOK(node[x])'
    BY <1>9 DEF DiskOK, SlotsOK
  <2> QED
    BY <1>9, <2>1, <2>2 DEF NodesOK
<1>11. CutsOK(M, J)'
  <2>1. \A s \in 1 .. Len(cuts) : CutOK(cuts[s], M, J)
    <3>1. \A s \in 1 .. Len(cuts) : CutOK(cuts[s], Lane, held)
      BY DEF IInv, CutsOK
    <3> QED
      BY <1>7, <3>1, TipGrows DEF CutOK, Grows
  <2> QED
    BY <2>1 DEF IInv, CutsOK, CutAt
<1>12. \A m \in net' : MsgOK(m, M, J)
  <2>1. net' = net \cup u.out
    BY DEF Becomes
  <2>2. \A m \in net : MsgOK(m, M, J)
    BY <1>7, MsgGrows DEF IInv
  <2>3. \A m \in u.out : MsgOK(m, M, J)
    BY <1>7, MsgGrows DEF NodeOK
  <2> QED
    BY <2>1, <2>2, <2>3
<1> QED
  BY <1>0, <1>6, <1>10, <1>11, <1>12 DEF IInv

LEMMA Facts ==
    ASSUME IInv
    PROVE  /\ Lane \in Seq(Batch) /\ Op \in Nodes /\ Len(cuts) \in Nat
           /\ \A n \in Nodes : NodeOK(n, node[n], Lane, held) /\ SlotsOK(node[n])
           /\ \A s \in 0 .. Len(cuts) : CutOK(CutAt(s), Lane, held)
           /\ CutsKnown(Lane)
<1>1. Len(cuts) \in Nat
  BY DEF IInv, CutsOK
<1>2. CutOK(NoCut, Lane, held)
  BY TotalNone, NoneKnown DEF CutOK, TipOK, NoCut
<1>3. \A s \in 0 .. Len(cuts) : CutOK(CutAt(s), Lane, held)
  BY <1>1, <1>2 DEF IInv, CutsOK, CutAt
<1>4. CutsKnown(Lane)
  BY <1>3 DEF CutsKnown, CutOK, TipOK
<1> QED
  BY <1>1, <1>3, <1>4, MempoolAssumption DEF IInv, NodesOK

-----------------------------------------------------------------------------
(***************************************************************************)
(* The blocks.  The slots of the queue and of the blocks emitted are       *)
(* distinct, none is beyond the last, and from the first that was          *)
(* announced on none is missing; a block is the segment of its slot.       *)
(***************************************************************************)
Blocks(k) == {[slot |-> s, dps |-> Segment(s)] : s \in 1 .. k}

SlotIn(s, q) == \E b \in Elements(q) : b.slot = s

BlocksAre(w, bs) ==
    /\ bs \in Seq(Blocks(w.last)) /\ Distinct(bs) /\ Distinct(w.bucs)
    /\ w.start \in 0 .. w.last
    /\ \A b \in Elements(bs) : ~SlotIn(b.slot, w.bucs)
    /\ w.start # 0 => \A s \in w.start .. w.last : SlotIn(s, bs) \/ SlotIn(s, w.bucs)

BInv ==
    /\ DOMAIN built = Nodes /\ DOMAIN joined = Nodes
    /\ \A n \in Nodes : /\ BlocksAre(node[n], built[n]) /\ Distinct(disk[n].bucs)
                        /\ joined[n] \/ node[n].start = 0

LEMMA ConcatOK ==
    ASSUME NEW S, NEW p \in Seq(S), NEW q \in Seq(S)
    PROVE  /\ p \o q \in Seq(S) /\ Elements(p \o q) = Elements(p) \cup Elements(q)
           /\ Distinct(p) /\ Distinct(q) /\ Elements(p) \cap Elements(q) = {} => Distinct(p \o q)
<1> DEFINE r == p \o q
           l == Len(p)
           k == Len(q)
<1>1. /\ r \in Seq(S) /\ Len(r) = l + k /\ l \in Nat /\ k \in Nat
      /\ \A i \in 1 .. l + k : r[i] = IF i <= l THEN p[i] ELSE q[i - l]
  OBVIOUS
<1>2. DOMAIN p = 1 .. l /\ DOMAIN q = 1 .. k /\ DOMAIN r = 1 .. l + k
  BY <1>1
<1> HIDE DEF r, l, k
<1>3. \A i \in 1 .. l : i \in DOMAIN r /\ r[i] = p[i]
  BY <1>1, <1>2
<1>4. \A i \in 1 .. k : i + l \in DOMAIN r /\ r[i + l] = q[i]
  BY <1>1, <1>2
<1>5. \A i \in DOMAIN r : \/ i \in 1 .. l /\ r[i] = p[i]
                          \/ i > l /\ i - l \in 1 .. k /\ r[i] = q[i - l]
  BY <1>1, <1>2
<1>6. Elements(r) = Elements(p) \cup Elements(q)
  BY <1>2, <1>3, <1>4, <1>5 DEF Elements
<1>7. ASSUME Distinct(p), Distinct(q), Elements(p) \cap Elements(q) = {} PROVE Distinct(r)
  <2> SUFFICES ASSUME NEW i \in DOMAIN r, NEW j \in DOMAIN r, r[i] = r[j] PROVE i = j
    BY DEF Distinct
  <2>1. CASE i \in 1 .. l /\ j \in 1 .. l
    BY <1>2, <1>3, <1>7, <2>1 DEF Distinct
  <2>2. CASE i > l /\ j > l
    <3>1. /\ i - l \in 1 .. k /\ j - l \in 1 .. k /\ r[i] = q[i - l] /\ r[j] = q[j - l]
      BY <1>1, <1>2, <1>5, <2>2
    <3>2. i - l = j - l
      BY <1>2, <1>7, <3>1 DEF Distinct
    <3> QED
      BY <1>1, <1>2, <3>2
  <2>3. CASE i \in 1 .. l /\ j > l
    <3>1. j - l \in 1 .. k /\ r[j] = q[j - l] /\ r[i] = p[i]
      BY <1>1, <1>2, <1>3, <1>5, <2>3
    <3> QED
      BY <1>2, <1>7, <2>3, <3>1 DEF Elements
  <2>4. CASE i > l /\ j \in 1 .. l
    <3>1. i - l \in 1 .. k /\ r[i] = q[i - l] /\ r[j] = p[j]
      BY <1>1, <1>2, <1>3, <1>5, <2>4
    <3> QED
      BY <1>2, <1>7, <2>4, <3>1 DEF Elements
  <2> QED
    BY <1>5, <2>1, <2>2, <2>3, <2>4
<1> QED
  BY <1>1, <1>6, <1>7 DEF r

\* A block that misses nothing is the segment between its two cuts.
LEMMA SegmentOK ==
    ASSUME IInv, NEW lane, NEW b \in Slots(Len(cuts)), Missing(lane, b) = NoProposal
    PROVE  Content(lane, b) = Segment(b.slot)
<1>1. PICK L, s, from, to : /\ L = Lane /\ s = b.slot /\ from = CutAt(s - 1).dp
                            /\ to = cuts[s].dp
  OBVIOUS
<1>2. /\ L \in Seq(Batch) /\ Len(cuts) \in Nat /\ CutsKnown(L)
  BY <1>1, Facts
<1>3. s \in 1 .. Len(cuts) /\ b.from = s - 1 /\ s - 1 \in 0 .. Len(cuts)
  BY <1>1, <1>2 DEF Slots
<1>4. CutAt(b.slot) = cuts[s] /\ CutAt(b.from).dp = from /\ CutAt(b.slot).dp = to
  BY <1>1, <1>3 DEF CutAt
<1>5. from \in Known0(L) /\ to \in Known0(L)
  BY <1>2, <1>3, <1>4, <1>1 DEF CutsKnown
<1>6. Extends(from, to)
  BY <1>1, <1>3 DEF IInv, CutsOK
<1>7. Len(from) <= Len(to) /\ Upto(to, Len(from)) = from /\ Len(from) \in Nat /\ Len(to) \in Nat
  BY <1>2, <1>5, <1>6, KnownExtends, KnownIs
<1>8. PICK r : r = Reached(lane, from, to)
  OBVIOUS
<1>9. r \in 0 .. Len(to) /\ \A j \in r + 1 .. Len(to) : Upto(to, j) # from
  BY <1>2, <1>5, <1>8, ReachedOK
<1>10. Upto(to, r) = from \/ Upto(to, r) = NoProposal
  BY <1>4, <1>8 DEF Missing, MissingHash
<1>11. Upto(to, r) \in Known0(L) /\ Len(Upto(to, r)) = r
  BY <1>2, <1>5, <1>9, KnownUpto
<1>12. r = Len(from)
  <2>1. CASE Upto(to, r) = from
    BY <1>11, <2>1
  <2>2. CASE Upto(to, r) = NoProposal
    <3>1. r = 0
      BY <1>2, <1>11, <2>2, KnownIs
    <3>2. Len(from) \notin 1 .. Len(to)
      BY <1>7, <1>9, <3>1
    <3> QED
      BY <1>7, <3>1, <3>2
  <2> QED
    BY <1>10, <2>1, <2>2
<1>13. Content(lane, b) = [i \in 1 .. Len(to) - r |-> Upto(to, i + r)]
  BY <1>4, <1>8 DEF Content
<1>14. Segment(s) = [i \in 1 .. Len(to) - r |-> Upto(to, r + i)]
  BY <1>1, <1>12 DEF Segment
<1>15. \A i \in 1 .. Len(to) - r : i + r = r + i
  BY <1>7, <1>12
<1> QED
  BY <1>1, <1>13, <1>14, <1>15

LEMMA FlushOK ==
    ASSUME IInv, NEW w, NEW x, NEW bs, BlocksAre(w, bs), SlotsOK(w), NEW lane,
           Flushed(lane, w.last, w.bucs, <<>>, x.bucs, x.emits), x.last = w.last,
           x.start = w.start
    PROVE  BlocksAre(x, bs \o x.emits)
<1>1. PICK k : k = w.last
  OBVIOUS
<1>2. k \in 0 .. Len(cuts) /\ w.bucs \in Seq(Slots(k)) /\ Len(cuts) \in Nat
  BY <1>1, Facts DEF SlotsOK
<1>3. PICK ready \in Seq(Slots(k)) :
        /\ x.emits = <<>> \o [i \in DOMAIN ready |->
                               [slot |-> ready[i].slot, dps |-> Content(lane, ready[i])]]
        /\ Elements(ready) = {b \in Elements(w.bucs) : Missing(lane, b) = NoProposal}
        /\ x.bucs \in Seq(Slots(k))
        /\ Elements(x.bucs) = {b \in Elements(w.bucs) : Missing(lane, b) # NoProposal}
        /\ Distinct(w.bucs) => Distinct(ready) /\ Distinct(x.bucs)
  BY <1>1 DEF Flushed
<1>4. Distinct(ready) /\ Distinct(x.bucs)
  BY <1>3 DEF BlocksAre
<1> DEFINE e == [i \in DOMAIN ready |-> [slot |-> ready[i].slot, dps |-> Segment(ready[i].slot)]]
<1>5. \A i \in DOMAIN ready : ready[i] \in Slots(k) /\ ready[i] \in Elements(ready)
  BY DEF Elements
<1>6. \A i \in DOMAIN ready : Content(lane, ready[i]) = Segment(ready[i].slot)
  <2>1. Slots(k) \subseteq Slots(Len(cuts))
    BY <1>2, SlotsGrow
  <2>2. \A i \in DOMAIN ready : /\ ready[i] \in Slots(Len(cuts))
                               /\ Missing(lane, ready[i]) = NoProposal
    BY <1>3, <1>5, <2>1
  <2> QED
    BY <2>2, SegmentOK
<1>7. \A i \in DOMAIN ready : /\ ready[i].slot \in 1 .. k /\ e[i] \in Blocks(k)
                             /\ e[i].slot = ready[i].slot
  <2>1. \A i \in DOMAIN ready : ready[i].slot \in 1 .. k
    BY <1>5 DEF Slots
  <2> QED
    BY <2>1 DEF Blocks
<1>8. e \in Seq(Blocks(k)) /\ DOMAIN e = DOMAIN ready
  <2>1. DOMAIN ready = 1 .. Len(ready) /\ Len(ready) \in Nat /\ DOMAIN e = DOMAIN ready
    OBVIOUS
  <2>2. e = [i \in 1 .. Len(ready) |-> e[i]]
    BY <2>1
  <2>3. \A i \in 1 .. Len(ready) : e[i] \in Blocks(k)
    BY <1>7, <2>1
  <2> HIDE DEF e
  <2>4. e \in [1 .. Len(ready) -> Blocks(k)]
    BY <2>2, <2>3
  <2> QED
    BY <2>1, <2>4
<1>9. x.emits = e
  <2>1. [i \in DOMAIN ready |-> [slot |-> ready[i].slot, dps |-> Content(lane, ready[i])]] = e
    BY <1>6
  <2> HIDE DEF e
  <2>2. <<>> \o e = e
    BY <1>8
  <2> QED
    BY <1>3, <2>1, <2>2
<1> HIDE DEF e
<1>10. \A p \in Slots(k) : \A q \in Slots(k) : p.slot = q.slot => p = q
  BY DEF Slots
<1>11. Distinct(e)
  <2> SUFFICES ASSUME NEW i \in DOMAIN e, NEW j \in DOMAIN e, e[i] = e[j] PROVE i = j
    BY DEF Distinct
  <2>1. ready[i] = ready[j]
    BY <1>5, <1>7, <1>8, <1>10
  <2> QED
    BY <1>4, <1>8, <2>1 DEF Distinct
<1>12. \A s : SlotIn(s, e) <=> SlotIn(s, ready)
  BY <1>7, <1>8 DEF SlotIn, Elements
<1>13. bs \in Seq(Blocks(k)) /\ Distinct(bs)
  BY <1>1 DEF BlocksAre
<1>14. Elements(bs) \cap Elements(e) = {}
  <2>1. \A b \in Elements(e) : SlotIn(b.slot, w.bucs)
    BY <1>3, <1>12 DEF SlotIn
  <2> QED
    BY <2>1 DEF BlocksAre
<1>15. /\ bs \o e \in Seq(Blocks(k)) /\ Elements(bs \o e) = Elements(bs) \cup Elements(e)
       /\ Distinct(bs \o e)
  BY <1>8, <1>11, <1>13, <1>14, ConcatOK
<1>16. \A s : SlotIn(s, w.bucs) <=> SlotIn(s, e) \/ SlotIn(s, x.bucs)
  BY <1>3, <1>12 DEF SlotIn
<1>17. \A s : ~(SlotIn(s, e) /\ SlotIn(s, x.bucs))
  <2> SUFFICES ASSUME NEW s, SlotIn(s, ready), SlotIn(s, x.bucs) PROVE FALSE
    BY <1>12
  <2>1. PICK p \in Elements(ready), q \in Elements(x.bucs) : p.slot = q.slot
    BY DEF SlotIn
  <2>2. p \in Slots(k) /\ q \in Slots(k)
    BY <1>3 DEF Elements
  <2> QED
    BY <1>3, <1>10, <2>1, <2>2
<1>18. \A b \in Elements(bs \o e) : ~SlotIn(b.slot, x.bucs)
  <2>1. \A b \in Elements(bs) : ~SlotIn(b.slot, x.bucs)
    BY <1>16 DEF BlocksAre
  <2>2. \A b \in Elements(e) : ~SlotIn(b.slot, x.bucs)
    BY <1>17 DEF SlotIn
  <2> QED
    BY <1>15, <2>1, <2>2
<1>19. \A s : SlotIn(s, bs \o e) <=> SlotIn(s, bs) \/ SlotIn(s, e)
  BY <1>15 DEF SlotIn
<1>20. x.start # 0 => \A s \in x.start .. x.last : SlotIn(s, bs \o e) \/ SlotIn(s, x.bucs)
  BY <1>16, <1>19 DEF BlocksAre
<1>21. x.start \in 0 .. x.last
  BY DEF BlocksAre
<1> QED
  BY <1>1, <1>4, <1>9, <1>15, <1>18, <1>20, <1>21 DEF BlocksAre

\* A step of a validator, given what it makes of its blocks.
LEMMA BecomesBlocks ==
    ASSUME IInv, BInv, NEW n \in Nodes, NEW u, Becomes(n, u), DOMAIN u = NodeFields,
           cuts' = cuts, disk' = disk, DOMAIN joined' = Nodes,
           \A x \in Nodes \ {n} : joined'[x] = joined[x], joined'[n] \/ u.start = 0,
           BlocksAre(u, built[n] \o u.emits)
    PROVE  BInv'
<1> DEFINE v == [u EXCEPT !.out = {}, !.emits = <<>>]
           bs == built[n] \o u.emits
<1>1. /\ node' = [node EXCEPT ![n] = v] /\ built' = [built EXCEPT ![n] = bs]
      /\ DOMAIN node = Nodes /\ DOMAIN built = Nodes
  BY DEF Becomes, BInv, IInv, NodesOK
<1>2. v.bucs = u.bucs /\ v.last = u.last /\ v.start = u.start
  BY DEF NodeFields
<1>3. BlocksAre(v, bs)
  <2> HIDE DEF v, bs
  <2> QED
    BY <1>2 DEF BlocksAre, bs
<1> HIDE DEF v, bs
<1>4. /\ node'[n] = v /\ built'[n] = bs /\ DOMAIN built' = Nodes
      /\ \A x \in Nodes \ {n} : node'[x] = node[x] /\ built'[x] = built[x]
  BY <1>1
<1>5. \A x \in Nodes : BlocksAre(node'[x], built'[x]) /\ (joined'[x] \/ node'[x].start = 0)
  BY <1>2, <1>3, <1>4 DEF BInv
<1>6. \A w, q : BlocksAre(w, q) => BlocksAre(w, q)'
  BY DEF BlocksAre, Blocks, Segment, CutAt
<1>7. \A x \in Nodes : BlocksAre(node[x], built[x])'
  BY <1>5, <1>6 DEF BlocksAre, Blocks, Segment, CutAt
<1> QED
  BY <1>4, <1>5, <1>7 DEF BInv

\* Nothing happens to the blocks.
LEMMA SameBlocks ==
    ASSUME IInv, BInv, NEW n \in Nodes, NEW u, u.bucs = node[n].bucs, u.last = node[n].last,
           u.start = node[n].start, u.emits = node[n].emits
    PROVE  BlocksAre(u, built[n] \o u.emits)
<1>1. BlocksAre(node[n], built[n]) /\ node[n].emits = <<>>
  BY DEF BInv, IInv, NodesOK
<1>2. built[n] \o u.emits = built[n]
  <2>1. PICK q, S : q = built[n] /\ S = Blocks(node[n].last)
    OBVIOUS
  <2>2. q \in Seq(S)
    BY <1>1, <2>1 DEF BlocksAre
  <2>3. q \o <<>> = q
    BY <2>2
  <2> QED
    BY <1>1, <2>1, <2>3
<1>3. BlocksAre(u, built[n])
  BY <1>1 DEF BlocksAre
<1> QED
  BY <1>2, <1>3

\* What a step keeps.
Keeps == IInv' /\ (BInv => BInv')

\* A step that moves no tip and stores nothing.
LEMMA QuietStepOK ==
    ASSUME IInv, NEW n \in Nodes, NEW u, Becomes(n, u), cuts' = cuts, disk' = disk,
           joined' = joined, NodeOK(n, u, Lane, held), Quiet(node[n], u)
    PROVE  Keeps
<1>1. Lane \in Seq(Batch) /\ DOMAIN node[Op].lane = Known(Lane) /\ SlotsOK(node[n])
  BY DEF IInv, NodesOK
<1>2. n = Op => u.tip.dp = Lane /\ DOMAIN u.lane = Known(Lane)
  BY <1>1 DEF Quiet, Lane
<1>3. SlotsOK(u)
  BY <1>1 DEF Quiet, SlotsOK
<1>4. PICK M : M = Lane
  OBVIOUS
<1>5. IInv'
  BY <1>1, <1>2, <1>3, <1>4, BecomesOK
<1>6. ASSUME BInv PROVE BInv'
  <2>1. BlocksAre(u, built[n] \o u.emits) /\ DOMAIN u = NodeFields
    BY <1>6, SameBlocks DEF Quiet, NodeOK
  <2>2. DOMAIN joined' = Nodes /\ (joined'[n] \/ u.start = 0)
    BY <1>6 DEF BInv, Quiet
  <2> QED
    BY <1>6, <2>1, <2>2, BecomesBlocks
<1> QED
  BY <1>5, <1>6 DEF Keeps

\* A validator stores a proposal of the lane; the operator has it already.
LEMMA GainedStepOK ==
    ASSUME IInv, NEW n \in Nodes, NEW u, Becomes(n, u), cuts' = cuts, disk' = disk,
           joined' = joined,
           NEW dp \in Known(Lane), NodeOK(n, u, Lane, held \cup {<<n, dp, TotalSize(dp)>>}),
           DOMAIN u.lane = DOMAIN node[n].lane \cup {dp}, n = Op => u.tip = node[Op].tip,
           SlotsOK(u), u.start = node[n].start, BInv => BlocksAre(u, built[n] \o u.emits)
    PROVE  Keeps
<1>1. Lane \in Seq(Batch) /\ DOMAIN node[Op].lane = Known(Lane)
  BY DEF IInv
<1>2. PICK M, H : M = Lane /\ H = held \cup {<<n, dp, TotalSize(dp)>>}
  OBVIOUS
<1>3. n = Op => u.tip.dp = M /\ DOMAIN u.lane = Known(M)
  BY <1>1, <1>2 DEF Lane
<1>4. H \subseteq held \cup {<<n, d, TotalSize(d)>> : d \in DOMAIN u.lane}
  BY <1>2
<1>5. IInv'
  BY <1>1, <1>2, <1>3, <1>4, BecomesOK
<1>6. ASSUME BInv PROVE BInv'
  <2>1. DOMAIN u = NodeFields
    BY DEF NodeOK
  <2>2. DOMAIN joined' = Nodes /\ (joined'[n] \/ u.start = 0)
    BY <1>6 DEF BInv
  <2> QED
    BY <1>6, <2>1, <2>2, BecomesBlocks
<1> QED
  BY <1>5, <1>6 DEF Keeps

-----------------------------------------------------------------------------
(* Each action keeps the invariant.                                        *)

LEMMA InitOK == Init => IInv
<1> SUFFICES ASSUME Init PROVE IInv
  OBVIOUS
<1>1. PICK b : b = Booted(DefaultStore, NoMap)
  OBVIOUS
<1>2. /\ DOMAIN b = NodeFields /\ b.waiting = <<>> /\ b.lane = NoMap /\ b.tip = NoCut
      /\ b.podas = NoMap /\ b.props = <<>> /\ b.procs = <<>> /\ b.out = {} /\ b.bucs = <<>>
      /\ b.last = 0 /\ b.emits = <<>>
  BY <1>1 DEF Booted, DefaultStore, NodeFields
<1>3. DOMAIN NoMap = {}
  BY DEF NoMap
<1>4. cuts = <<>> /\ Len(cuts) = 0
  BY DEF Init
<1>5. /\ \A S : <<>> \in Seq(S)
  OBVIOUS
<1>6. \A L : TipOK(NoCut, L)
  BY TotalNone, NoneKnown DEF TipOK, NoCut
<1>7. \A n, L : NodeOK(n, b, L, held) /\ SlotsOK(b)
  <2>1. \A n, L : LaneOK(n, b.lane, L, held) /\ PodasOK(b.podas, held)
    BY <1>2, <1>3 DEF LaneOK, PodasOK
  <2>2. SlotsOK(b)
    BY <1>2, <1>4, <1>5 DEF SlotsOK
  <2> QED
    BY <1>2, <1>5, <1>6, <2>1, <2>2 DEF NodeOK
<1>8. \A L : DiskOK(DefaultStore, L)
  <2>1. /\ DefaultStore.waiting = <<>> /\ DefaultStore.tip = NoCut /\ DefaultStore.last = 0
        /\ DefaultStore.bucs = <<>>
    BY DEF DefaultStore
  <2> QED
    BY <1>4, <1>5, <1>6, <2>1 DEF DiskOK, SlotsOK
<1>9. node = [n \in Nodes |-> b] /\ disk = [n \in Nodes |-> DefaultStore] /\ Op \in Nodes
  BY <1>1, MempoolAssumption DEF Init
<1>10. Lane = <<>> /\ Known(Lane) = {} /\ DOMAIN node[Op].lane = {}
  <2>1. Lane = <<>> /\ DOMAIN node[Op].lane = {}
    BY <1>2, <1>3, <1>9 DEF Lane, NoCut, NoProposal
  <2> QED
    BY <2>1 DEF Known
<1>11. NodesOK(Lane, held)
  BY <1>2, <1>7, <1>8, <1>9 DEF NodesOK
<1>12. CutsOK(Lane, held)
  BY <1>4, <1>5 DEF CutsOK
<1>13. \A m \in net : MsgOK(m, Lane, held)
  BY DEF Init
<1> QED
  BY <1>5, <1>10, <1>11, <1>12, <1>13 DEF IInv

LEMMA NewTxOK == ASSUME IInv, NEW t \in Txs, on_new_tx(t) PROVE Keeps
<1>1. PICK k : k = (node[Op].known \/ Kind[t] = "register")
  OBVIOUS
<1>2. PICK u : u = Enqueued([node[Op] EXCEPT !.known = k], t)
  OBVIOUS
<1>3. Becomes(Op, u) /\ cuts' = cuts /\ disk' = disk /\ joined' = joined
  BY <1>1, <1>2 DEF on_new_tx
<1>4. Op \in Nodes /\ NodeOK(Op, node[Op], Lane, held)
  BY Facts
<1>5. NodeOK(Op, u, Lane, held) /\ Quiet(node[Op], u)
  BY <1>2, <1>4, EnqueuedOK
<1> QED
  BY <1>3, <1>4, <1>5, QuietStepOK

LEMMA NewDataProposalOK == ASSUME IInv, new_data_proposal PROVE Keeps
<1>1. PICK w : w = node[Op]
  OBVIOUS
<1>2. PICK L : L = Lane
  OBVIOUS
<1>3. /\ L \in Seq(Batch) /\ Op \in Nodes /\ NodeOK(Op, w, L, held) /\ w.tip.dp = L
      /\ DOMAIN w.lane = Known(L) /\ SlotsOK(w)
  BY <1>1, <1>2, Facts DEF IInv, Lane
<1>4. PICK prep : prep = init_dp_preparation_if_pending(w)
  OBVIOUS
<1>5. w.waiting # <<>> /\ cuts' = cuts /\ disk' = disk /\ joined' = joined
  BY <1>1 DEF new_data_proposal
<1>6. PICK b \in Batch : /\ prep.dp = Append(L, b)
                         /\ NodeOK(Op, prep.left, L, held) /\ Quiet(w, prep.left)
  BY <1>3, <1>4, <1>5, PreparedOK
<1>7. PICK v, M : v = prep.left /\ M = Append(L, b)
  OBVIOUS
<1>8. NodeOK(Op, v, L, held) /\ v.tip.dp = L /\ DOMAIN v.lane = Known(L)
  BY <1>3, <1>6, <1>7 DEF Quiet
<1>9. PICK u : u = register_new_data_proposal(v, M)
  OBVIOUS
<1>10. PICK H : H = held \cup {<<Op, M, TotalSize(M)>>}
  OBVIOUS
<1>11. /\ NodeOK(Op, u, M, H) /\ Gained(v, u, M) /\ u.tip.dp = M /\ DOMAIN u.lane = Known(M)
  BY <1>3, <1>7, <1>8, <1>9, <1>10, RegisterOK
<1>12. Becomes(Op, u)
  BY <1>1, <1>4, <1>6, <1>7, <1>9 DEF new_data_proposal
<1>13. M \in Seq(Batch) /\ Known(M) = Known(L) \cup {M}
  BY <1>3, <1>7, UptoAppend, KnownAppend
<1>14. H \subseteq held \cup {<<Op, dp, TotalSize(dp)>> : dp \in DOMAIN u.lane}
  BY <1>10, <1>11, <1>13
<1>15. SlotsOK(u)
  BY <1>3, <1>6, <1>7, <1>11 DEF Quiet, Gained, SlotsOK
<1>16. Known(Lane) \subseteq Known(M)
  BY <1>2, <1>13
<1>17. IInv'
  BY <1>3, <1>5, <1>11, <1>12, <1>13, <1>14, <1>15, <1>16, BecomesOK
<1>18. ASSUME BInv PROVE BInv'
  <2>1. /\ u.bucs = node[Op].bucs /\ u.last = node[Op].last /\ u.start = node[Op].start
        /\ u.emits = node[Op].emits
    BY <1>1, <1>6, <1>7, <1>11 DEF Quiet, Gained
  <2>2. BlocksAre(u, built[Op] \o u.emits) /\ DOMAIN u = NodeFields
    BY <1>3, <1>11, <1>18, <2>1, SameBlocks DEF NodeOK
  <2>3. DOMAIN joined' = Nodes /\ (joined'[Op] \/ u.start = 0)
    BY <1>3, <1>5, <1>18, <2>1 DEF BInv
  <2> QED
    BY <1>3, <1>5, <1>12, <1>18, <2>2, <2>3, BecomesBlocks
<1> QED
  BY <1>17, <1>18 DEF Keeps

LEMMA RedisseminateOK == ASSUME IInv, redisseminate PROVE Keeps
<1>1. PICK u : u = disseminate_data_proposals(node[Op], NoProposal)
  OBVIOUS
<1>2. Becomes(Op, u) /\ cuts' = cuts /\ disk' = disk /\ joined' = joined
  BY <1>1 DEF redisseminate
<1>3. Op \in Nodes /\ NodeOK(Op, node[Op], Lane, held) /\ Lane \in Seq(Batch)
  BY Facts
<1>4. NodeOK(Op, u, Lane, held) /\ Quiet(node[Op], u)
  BY <1>1, <1>3, DisseminateOK
<1> QED
  BY <1>2, <1>3, <1>4, QuietStepOK

LEMMA InternalEventOK == ASSUME IInv, NEW n \in Nodes, handle_internal_event(n) PROVE Keeps
<1>1. PICK v : v = node[n]
  OBVIOUS
<1>2. Lane \in Seq(Batch) /\ NodeOK(n, v, Lane, held) /\ SlotsOK(v)
  BY <1>1, Facts
<1>3. v.procs \in Seq(Task(Lane)) /\ v.procs # <<>> /\ DOMAIN v = NodeFields
  BY <1>1, <1>2 DEF NodeOK, handle_internal_event
<1>4. PICK e : e = Head(v.procs)
  OBVIOUS
<1>5. e \in Task(Lane) /\ Tail(v.procs) \in Seq(Task(Lane))
  BY <1>3, <1>4
<1>6. e.dp \in Known(Lane)
  BY <1>5 DEF Task
<1>7. PICK w : w = [v EXCEPT !.procs = Tail(v.procs)]
  OBVIOUS
<1>8. NodeOK(n, w, Lane, held) /\ Quiet(v, w)
  <2>1. /\ DOMAIN w = NodeFields /\ w.procs = Tail(v.procs)
        /\ \A y \in NodeFields \ {"procs"} : w[y] = v[y]
    BY <1>3, <1>7 DEF NodeFields
  <2>2. /\ w.waiting = v.waiting /\ w.podas = v.podas /\ w.props = v.props
        /\ w.lane = v.lane /\ w.bucs = v.bucs /\ w.last = v.last /\ w.start = v.start
        /\ w.emits = v.emits /\ w.tip = v.tip /\ w.out = v.out
    BY <2>1 DEF NodeFields
  <2> QED
    BY <1>2, <1>5, <2>1, <2>2 DEF NodeOK, Quiet
<1>9. cuts' = cuts /\ disk' = disk /\ joined' = joined
  BY DEF handle_internal_event
<1>10. PICK dp : dp = e.dp
  OBVIOUS
<1>11. \/ Becomes(n, on_hashed_data_proposal(w, n, dp))
       \/ \E verdict : Becomes(n, on_processed_data_proposal(w, n, dp, verdict))
  BY <1>1, <1>4, <1>7, <1>10 DEF handle_internal_event
<1>12. CASE Becomes(n, on_hashed_data_proposal(w, n, dp))
  <2>1. PICK u : u = on_hashed_data_proposal(w, n, dp)
    OBVIOUS
  <2>2. NodeOK(n, u, Lane, held) /\ Quiet(w, u)
    BY <1>6, <1>8, <1>10, <2>1, HashedOK
  <2>3. Quiet(node[n], u) /\ Becomes(n, u)
    BY <1>1, <1>8, <1>12, <2>1, <2>2, QuietTwice
  <2> QED
    BY <1>9, <2>2, <2>3, QuietStepOK
<1>13. ASSUME NEW verdict, Becomes(n, on_processed_data_proposal(w, n, dp, verdict))
       PROVE  Keeps
  <2>1. PICK u : u = on_processed_data_proposal(w, n, dp, verdict)
    OBVIOUS
  <2>2. \/ NodeOK(n, u, Lane, held) /\ Quiet(w, u)
        \/ /\ NodeOK(n, u, Lane, held \cup {<<n, dp, TotalSize(dp)>>}) /\ Gained(w, u, dp)
           /\ dp \notin DOMAIN w.lane
    BY <1>2, <1>6, <1>8, <1>10, <2>1, ProcessedOK
  <2>3. CASE NodeOK(n, u, Lane, held) /\ Quiet(w, u)
    <3>1. Quiet(node[n], u) /\ Becomes(n, u)
      BY <1>1, <1>8, <1>13, <2>1, <2>3, QuietTwice
    <3> QED
      BY <1>9, <2>3, <3>1, QuietStepOK
  <2>4. CASE /\ NodeOK(n, u, Lane, held \cup {<<n, dp, TotalSize(dp)>>}) /\ Gained(w, u, dp)
             /\ dp \notin DOMAIN w.lane
    <3>1. DOMAIN w.lane = DOMAIN node[n].lane
      BY <1>1, <1>8 DEF Quiet
    <3>2. n # Op
      BY <1>6, <1>10, <2>4, <3>1 DEF IInv
    <3>3. DOMAIN u.lane = DOMAIN node[n].lane \cup {dp} /\ SlotsOK(u) /\ Becomes(n, u)
      BY <1>2, <1>8, <1>13, <2>1, <2>4, <3>1 DEF Gained, Quiet, SlotsOK
    <3>4. /\ u.bucs = node[n].bucs /\ u.last = node[n].last /\ u.start = node[n].start
          /\ u.emits = node[n].emits
      BY <1>1, <1>8, <2>4 DEF Quiet, Gained
    <3>5. BInv => BlocksAre(u, built[n] \o u.emits)
      BY <3>4, SameBlocks
    <3> QED
      BY <1>6, <1>9, <1>10, <2>4, <3>2, <3>3, <3>4, <3>5, GainedStepOK
  <2> QED
    BY <2>2, <2>3, <2>4
<1> QED
  BY <1>11, <1>12, <1>13

LEMMA RegistrationOK ==
    ASSUME IInv, NEW n \in Nodes, handle_contract_registration(n) PROVE Keeps
<1>1. PICK w, u : w = node[n] /\ u = [w EXCEPT !.known = TRUE]
  OBVIOUS
<1>2. Becomes(n, u) /\ cuts' = cuts /\ disk' = disk /\ joined' = joined
  BY <1>1 DEF handle_contract_registration
<1>3. NodeOK(n, w, Lane, held)
  BY <1>1, Facts
<1>4. DOMAIN w = NodeFields
  BY <1>3 DEF NodeOK
<1>5. DOMAIN u = NodeFields /\ \A y \in NodeFields \ {"known"} : u[y] = w[y]
  BY <1>1, <1>4 DEF NodeFields
<1>6. /\ u.waiting = w.waiting /\ u.podas = w.podas /\ u.props = w.props /\ u.procs = w.procs
      /\ u.lane = w.lane /\ u.bucs = w.bucs /\ u.last = w.last /\ u.start = w.start
      /\ u.emits = w.emits /\ u.tip = w.tip /\ u.out = w.out
  BY <1>5 DEF NodeFields
<1>7. NodeOK(n, u, Lane, held) /\ Quiet(w, u)
  BY <1>3, <1>5, <1>6 DEF NodeOK, Quiet
<1> QED
  BY <1>1, <1>2, <1>7, QuietStepOK

LEMMA NetMessageOK == ASSUME IInv, NEW m \in net, handle_net_message(m) PROVE Keeps
<1>1. PICK n, w, dp : n = m.dst /\ w = node[n] /\ dp = m.dp
  OBVIOUS
<1>2. PICK L, H : L = Lane /\ H = held
  OBVIOUS
<1>3. MsgOK(m, L, H)
  BY <1>2 DEF IInv
<1>4. n \in Nodes /\ dp \in Known(L) /\ m.src \in Nodes /\ SigsOK(dp, m.size, m.sigs, H)
  BY <1>1, <1>3 DEF MsgOK
<1>5. /\ L \in Seq(Batch) /\ Len(cuts) \in Nat /\ NodeOK(n, w, L, H) /\ SlotsOK(w)
      /\ CutsKnown(L)
  BY <1>1, <1>2, <1>4, Facts
<1>6. cuts' = cuts /\ disk' = disk /\ joined' = joined
  BY DEF handle_net_message
<1>7. ASSUME NEW u, Becomes(n, u), NodeOK(n, u, L, H), Quiet(w, u) PROVE Keeps
  BY <1>1, <1>2, <1>4, <1>6, <1>7, QuietStepOK
<1>8. \/ Becomes(n, on_data_proposal(w, n, dp))
      \/ \E v \in m.sigs : Becomes(n, on_data_vote(w, v, dp, m.size))
      \/ Becomes(n, on_poda_update(w, dp, m.size, m.sigs))
      \/ on_sync_request(n, m.src, m.from, dp)
      \/ m.type = "SyncReply" /\ Becomes(n, on_sync_reply(w, n, m))
  BY <1>1 DEF handle_net_message
<1>9. CASE Becomes(n, on_data_proposal(w, n, dp))
  <2>1. PICK u : u = on_data_proposal(w, n, dp)
    OBVIOUS
  <2>2. NodeOK(n, u, L, H) /\ Quiet(w, u)
    BY <1>4, <1>5, <2>1, DataProposalOK
  <2> QED
    BY <1>7, <1>9, <2>1, <2>2
<1>10. ASSUME NEW v \in m.sigs, Becomes(n, on_data_vote(w, v, dp, m.size)) PROVE Keeps
  <2>1. PICK size : size = m.size
    OBVIOUS
  <2>2. SigsOK(dp, size, {v}, H)
    BY <1>4, <2>1 DEF SigsOK
  <2>3. PICK u : u = on_data_vote(w, v, dp, size)
    OBVIOUS
  <2>4. NodeOK(n, u, L, H) /\ Quiet(w, u)
    BY <1>4, <1>5, <2>2, <2>3, DataVoteOK
  <2> QED
    BY <1>7, <1>10, <2>1, <2>3, <2>4
<1>11. CASE Becomes(n, on_poda_update(w, dp, m.size, m.sigs))
  <2>1. PICK size, sigs : size = m.size /\ sigs = m.sigs
    OBVIOUS
  <2>2. PICK u : u = on_poda_update(w, dp, size, sigs)
    OBVIOUS
  <2>3. NodeOK(n, u, L, H) /\ Quiet(w, u)
    BY <1>4, <1>5, <2>1, <2>2, PodaUpdateOK
  <2> QED
    BY <1>7, <1>11, <2>1, <2>2, <2>3
<1>12. CASE on_sync_request(n, m.src, m.from, dp)
  <2>1. PICK throttled : Becomes(n, send_replies(w, m.src, Wanted(w.lane, m.from, dp) \ throttled))
    BY <1>1, <1>12 DEF on_sync_request
  <2>2. PICK v, dps : v = m.src /\ dps = Wanted(w.lane, m.from, dp) \ throttled
    OBVIOUS
  <2>3. dps \in SUBSET DOMAIN w.lane
    <3>1. PICK lane, from : lane = w.lane /\ from = m.from
      OBVIOUS
    <3>2. dp \in Known0(L)
      BY <1>4 DEF Known0
    <3>3. \A d \in Between(lane, from, dp) : d \in DOMAIN lane
      BY <1>5, <3>2, BetweenOK
    <3> QED
      BY <2>2, <3>1, <3>3 DEF Wanted
  <2>4. PICK u : u = send_replies(w, v, dps)
    OBVIOUS
  <2>5. NodeOK(n, u, L, H) /\ Quiet(w, u)
    BY <1>4, <1>5, <2>2, <2>3, <2>4, RepliesOK
  <2> QED
    BY <1>7, <2>1, <2>2, <2>4, <2>5
<1>13. CASE m.type = "SyncReply" /\ Becomes(n, on_sync_reply(w, n, m))
  <2>1. PICK u, k : u = on_sync_reply(w, n, m) /\ k = w.last
    OBVIOUS
  <2>2. k \in 0 .. Len(cuts) /\ w.bucs \in Seq(Slots(k))
    BY <1>5, <2>1 DEF SlotsOK
  <2>3. u = w \/ Answered(n, w, u, m.dp, k, L, H)
    <3>1. /\ L \in Seq(Batch) /\ CutsKnown(L) /\ Len(cuts) \in Nat /\ n \in Nodes
          /\ NodeOK(n, w, L, H) /\ MsgOK(m, L, H) /\ m.type = "SyncReply"
          /\ k \in 0 .. Len(cuts) /\ w.bucs \in Seq(Slots(k))
      BY <1>3, <1>4, <1>5, <1>13, <2>2
    <3> QED
      BY <2>1, <3>1, SyncReplyOK
  <2>4. CASE u = w
    BY <1>5, <1>7, <1>13, <2>1, <2>4, QuietSame
  <2>5. CASE Answered(n, w, u, m.dp, k, L, H)
    <3>1. SlotsOK(u)
      BY <1>5, <2>1, <2>5 DEF Answered, Flushed, SlotsOK
    <3>2. dp \in Known(Lane) /\ NodeOK(n, u, Lane, held \cup {<<n, dp, TotalSize(dp)>>})
      BY <1>1, <1>2, <1>4, <2>5 DEF Answered
    <3>3. DOMAIN u.lane = DOMAIN node[n].lane \cup {dp} /\ (n = Op => u.tip = node[Op].tip)
      BY <1>1, <2>5 DEF Answered
    <3>4. Becomes(n, u)
      BY <1>13, <2>1
    <3>5. ASSUME BInv PROVE BlocksAre(u, built[n] \o u.emits)
      <4>1. PICK bs, lane : bs = built[n] /\ lane = u.lane
        OBVIOUS
      <4>2. BlocksAre(w, bs) /\ w.emits = <<>>
        BY <1>1, <1>4, <3>5, <4>1 DEF BInv, IInv, NodesOK
      <4>3. /\ Flushed(lane, w.last, w.bucs, <<>>, u.bucs, u.emits)
            /\ u.last = w.last /\ u.start = w.start
        BY <2>1, <2>5, <4>1, <4>2 DEF Answered
      <4>4. BlocksAre(u, bs \o u.emits)
        BY <1>5, <4>2, <4>3, FlushOK
      <4> QED
        BY <4>1, <4>4
    <3>6. u.start = node[n].start
      BY <1>1, <2>5 DEF Answered
    <3> QED
      BY <1>4, <1>6, <3>1, <3>2, <3>3, <3>4, <3>5, <3>6, GainedStepOK
  <2> QED
    BY <2>3, <2>4, <2>5
<1> QED
  BY <1>8, <1>9, <1>10, <1>11, <1>12, <1>13

LEMMA LatestCarOK ==
    ASSUME NEW L \in Seq(Batch), NEW n, NEW w, NEW H, NodeOK(n, w, L, H),
           NEW prev, CutOK(prev, L, H), CutOK(NoCut, L, H)
    PROVE  CutOK(get_latest_car(w, prev), L, H)
<1> DEFINE t == w.tip.dp
           cars == {i \in 1 .. Len(t) :
                   /\ \A j \in i .. Len(t) : Upto(t, j) \in DOMAIN w.lane
                   /\ \/ Upto(t, i) = prev.dp
                      \/ Power(w.lane[Upto(t, i)].sigs) >= f + 1}
           dp == Upto(t, Max(cars))
           car == get_latest_car(w, prev)
<1>1. \/ car = NoCut
      \/ /\ cars # {}
         /\ \/ dp = prev.dp /\ car = [dp |-> dp, size |-> w.lane[dp].size, sigs |-> prev.sigs]
            \/ car = [dp |-> dp, size |-> w.lane[dp].size, sigs |-> w.lane[dp].sigs]
  BY DEF get_latest_car
<1>2. t \in Known0(L)
  BY DEF NodeOK, TipOK
<1>3. Len(t) \in Nat
  BY <1>2, KnownIs
<1>4. CASE cars # {}
  <2>1. Max(cars) \in cars
    <3>1. cars \in SUBSET (0 .. Len(t))
      BY <1>3
    <3> HIDE DEF cars
    <3>2. \E i \in cars : \A j \in cars : j <= i
      BY <1>3, <1>4, <3>1, GreatestElement
    <3> QED
      BY <3>2 DEF Max
  <2>2. dp \in DOMAIN w.lane
    <3>1. PICK k : k = Max(cars)
      OBVIOUS
    <3>2. k \in 1 .. Len(t) /\ \A j \in k .. Len(t) : Upto(t, j) \in DOMAIN w.lane
      BY <2>1, <3>1
    <3>3. k \in k .. Len(t)
      BY <1>3, <3>2
    <3>4. dp = Upto(t, k)
      BY <3>1
    <3> HIDE DEF dp, cars, car
    <3> QED
      BY <3>2, <3>3, <3>4
  <2> HIDE DEF dp, cars, car
  <2>3. dp \in Known(L) /\ EntryOK(n, dp, w.lane[dp], H)
    BY <2>2 DEF NodeOK, LaneOK
  <2>4. CASE dp = prev.dp /\ car = [dp |-> dp, size |-> w.lane[dp].size, sigs |-> prev.sigs]
    <3>1. /\ car.dp = dp /\ car.size = TotalSize(dp) /\ car.sigs = prev.sigs
          /\ prev.size = TotalSize(dp)
      BY <2>3, <2>4 DEF EntryOK, CutOK, TipOK
    <3>2. dp \in Known0(L)
      BY <2>3 DEF Known0
    <3> QED
      BY <2>4, <3>1, <3>2 DEF CutOK, TipOK, car
  <2>5. CASE car = [dp |-> dp, size |-> w.lane[dp].size, sigs |-> w.lane[dp].sigs]
    <3>1. car.dp = dp /\ car.size = w.lane[dp].size /\ car.sigs = w.lane[dp].sigs
      BY <2>5
    <3>2. dp \in Known0(L)
      BY <2>3 DEF Known0
    <3> QED
      BY <2>3, <3>1, <3>2 DEF CutOK, TipOK, EntryOK, car
  <2>6. CASE car = NoCut
    BY <2>6 DEF car
  <2> QED
    BY <1>1, <2>4, <2>5, <2>6
<1>5. CASE cars = {}
  BY <1>1, <1>5
<1> QED
  BY <1>4, <1>5

LEMMA DecideOK == ASSUME IInv, NEW n \in Nodes, Decide(n) PROVE Keeps
<1>1. PICK L, H : L = Lane /\ H = held
  OBVIOUS
<1>2. PICK cut \in {handle_querynewcut(node[n]), LastCut} :
        verify_poda(cut, LastCut) /\ cuts' = Append(cuts, cut)
  BY DEF Decide
<1>3. /\ L \in Seq(Batch) /\ Len(cuts) \in Nat /\ NodeOK(n, node[n], L, H) /\ SlotsOK(node[n])
      /\ \A s \in 0 .. Len(cuts) : CutOK(CutAt(s), L, H)
  BY <1>1, Facts
<1>4. CutOK(NoCut, L, H)
  BY <1>3 DEF CutAt
<1>5. CutOK(LastCut, L, H)
  BY <1>3 DEF LastCut
<1>6. CutOK(cut, L, H)
  <2>1. PICK w, prev : w = node[n] /\ prev = CutAt(node[n].last)
    OBVIOUS
  <2>2. NodeOK(n, w, L, H) /\ CutOK(prev, L, H)
    BY <1>3, <2>1 DEF SlotsOK
  <2>3. CutOK(get_latest_car(w, prev), L, H)
    BY <1>3, <1>4, <2>2, LatestCarOK
  <2>4. handle_querynewcut(node[n]) \in {NoCut, prev, get_latest_car(w, prev)}
    BY <2>1 DEF handle_querynewcut
  <2> QED
    BY <1>2, <1>4, <1>5, <2>2, <2>3, <2>4
<1>7. Extends(LastCut.dp, cut.dp)
  <2>1. PICK c, d : c = LastCut.dp /\ d = cut.dp
    OBVIOUS
  <2>2. /\ c \in Known0(L) /\ d \in Known0(L)
        /\ cut.size = TotalSize(d) /\ LastCut.size = TotalSize(c)
    BY <1>5, <1>6, <2>1 DEF CutOK, TipOK
  <2>3. Len(c) \in Nat /\ Len(d) \in Nat /\ TotalSize(c) \in Nat /\ TotalSize(d) \in Nat
    BY <1>3, <2>2, KnownIs, KnownSizes
  <2>4. Len(c) <= Len(d)
    <3>1. CASE c = d
      BY <2>3, <3>1
    <3>2. CASE cut.size > LastCut.size
      <4>1. TotalSize(c) < TotalSize(d)
        BY <2>2, <2>3, <3>2
      <4>2. Len(c) < Len(d)
        BY <1>3, <2>2, <4>1, KnownSizes
      <4> QED
        BY <2>3, <4>2
    <3> QED
      BY <1>2, <2>1, <3>1, <3>2 DEF verify_poda
  <2> QED
    BY <1>3, <2>1, <2>2, <2>4, KnownExtends
<1>8. UNCHANGED <<node, disk, joined, net, built, held>>
  BY DEF Decide
<1>9. PICK S : cuts \in Seq(S)
  BY DEF IInv, CutsOK
<1>10. /\ cuts' \in Seq(S \cup {cut}) /\ Len(cuts') = Len(cuts) + 1 /\ cuts'[Len(cuts) + 1] = cut
       /\ \A s \in 1 .. Len(cuts) : cuts'[s] = cuts[s]
  BY <1>2, <1>9
<1>11. \A s \in 0 .. Len(cuts) : CutAt(s)' = CutAt(s)
  BY <1>10 DEF CutAt
<1>12. CutsOK(L, H)'
  <2>1. SUFFICES ASSUME NEW s \in 1 .. Len(cuts')
                 PROVE  CutOK(cuts'[s], L, H) /\ Extends(CutAt(s - 1)'.dp, cuts'[s].dp)
    BY <1>10 DEF CutsOK
  <2>2. CASE s = Len(cuts) + 1
    <3>1. s - 1 = Len(cuts) /\ s - 1 \in 0 .. Len(cuts)
      BY <1>3, <2>2
    <3>2. CutAt(s - 1)' = LastCut
      BY <1>11, <3>1 DEF LastCut
    <3> QED
      BY <1>6, <1>7, <1>10, <2>2, <3>2
  <2>3. CASE s # Len(cuts) + 1
    <3>1. s \in 1 .. Len(cuts) /\ s - 1 \in 0 .. Len(cuts)
      BY <1>3, <1>10, <2>3
    <3>2. CutOK(cuts[s], L, H) /\ Extends(CutAt(s - 1).dp, cuts[s].dp)
      BY <1>1, <3>1 DEF IInv, CutsOK
    <3> QED
      BY <1>10, <1>11, <3>1, <3>2
  <2> QED
    BY <2>2, <2>3
<1>13. NodesOK(L, H)'
  <2>1. \A w : SlotsOK(w) => SlotsOK(w)'
    BY <1>3, <1>10 DEF SlotsOK
  <2>2. \A d : DiskOK(d, L) => DiskOK(d, L)'
    BY <1>3, <1>10 DEF SlotsOK, DiskOK
  <2>3. NodesOK(L, H)
    BY <1>1 DEF IInv
  <2> QED
    BY <1>8, <2>1, <2>2, <2>3 DEF NodesOK
<1>14. Lane' = L /\ held' = H
  BY <1>1, <1>8 DEF Lane
<1>15. IInv'
  BY <1>1, <1>8, <1>12, <1>13, <1>14 DEF IInv
<1>16. ASSUME BInv PROVE BInv'
  <2>1. \A s \in 1 .. Len(cuts) : Segment(s)' = Segment(s)
    <3>1. \A s \in 1 .. Len(cuts) : s - 1 \in 0 .. Len(cuts)
      BY <1>3
    <3> QED
      BY <1>10, <1>11, <3>1 DEF Segment
  <2>2. ASSUME NEW x \in Nodes PROVE BlocksAre(node[x], built[x])'
    <3>1. PICK w, bs : w = node[x] /\ bs = built[x]
      OBVIOUS
    <3>2. BlocksAre(w, bs) /\ w.last \in 0 .. Len(cuts)
      BY <1>16, <3>1, Facts DEF BInv, SlotsOK
    <3>3. \A s \in 1 .. w.last : Segment(s)' = Segment(s)
      BY <1>3, <2>1, <3>2
    <3>4. Blocks(w.last)' = Blocks(w.last)
      BY <3>3 DEF Blocks
    <3>5. BlocksAre(w, bs)'
      BY <3>2, <3>4 DEF BlocksAre
    <3>6. node'[x] = w /\ built'[x] = bs
      BY <1>8, <3>1
    <3> QED
      BY <3>5, <3>6 DEF BlocksAre, Blocks
  <2> QED
    BY <1>8, <1>16, <2>2 DEF BInv
<1> QED
  BY <1>15, <1>16 DEF Keeps

\* The state of a validator after a commit.
Committed(w, n, s) ==
    LET c == try_create_block_under_construction(w, s)
    IN  clean_and_update_lanes(try_to_send_full_signed_blocks(c, n), n, CutAt(s), CutAt(w.last))

LEMMA CommittedOK ==
    ASSUME IInv, NEW n \in Nodes, NEW s \in 1 .. Len(cuts)
    PROVE  LET w == node[n]
               c == try_create_block_under_construction(w, s)
               x == Committed(w, n, s)
           IN  /\ NodeOK(n, x, Lane, held) /\ SlotsOK(c) /\ SlotsOK(x) /\ Created(w, c, s)
               /\ x.last = c.last /\ x.start = c.start
               /\ Flushed(w.lane, c.last, c.bucs, <<>>, x.bucs, x.emits)
               /\ n = Op => x.tip = w.tip /\ x.lane = w.lane
<1>1. PICK w, L, H : w = node[n] /\ L = Lane /\ H = held
  OBVIOUS
<1>2. /\ L \in Seq(Batch) /\ CutsKnown(L) /\ Len(cuts) \in Nat /\ NodeOK(n, w, L, H)
      /\ SlotsOK(w) /\ \A k \in 0 .. Len(cuts) : CutOK(CutAt(k), L, H)
  BY <1>1, Facts
<1>3. w.emits = <<>> /\ (n = Op => DOMAIN w.lane = Known(L))
  BY <1>1 DEF IInv, NodesOK
<1>4. PICK c : c = try_create_block_under_construction(w, s)
  OBVIOUS
<1>5. /\ NodeOK(n, c, L, H) /\ SlotsOK(c) /\ Created(w, c, s)
      /\ c.lane = w.lane /\ c.tip = w.tip /\ c.emits = w.emits
  BY <1>2, <1>4, CreateOK
<1>6. PICK y, k : y = try_to_send_full_signed_blocks(c, n) /\ k = c.last
  OBVIOUS
<1>7. k \in 0 .. Len(cuts) /\ c.bucs \in Seq(Slots(k))
  BY <1>5, <1>6 DEF SlotsOK
<1>8. /\ NodeOK(n, y, L, H) /\ Flushed(c.lane, k, c.bucs, c.emits, y.bucs, y.emits)
      /\ y.lane = c.lane /\ y.tip = c.tip /\ y.last = c.last /\ y.start = c.start
  BY <1>2, <1>5, <1>6, <1>7, SendBlocksOK
<1>9. PICK cut, prev : cut = CutAt(s) /\ prev = CutAt(w.last)
  OBVIOUS
<1>10. TipOK(cut, L) /\ TipOK(prev, L)
  <2>1. s \in 0 .. Len(cuts) /\ w.last \in 0 .. Len(cuts)
    BY <1>2 DEF SlotsOK
  <2> QED
    BY <1>2, <1>9, <2>1 DEF CutOK
<1>11. PICK x : x = clean_and_update_lanes(y, n, cut, prev)
  OBVIOUS
<1>12. /\ NodeOK(n, x, L, H)
       /\ x.bucs = y.bucs /\ x.last = y.last /\ x.start = y.start /\ x.emits = y.emits
       /\ cut.dp \in DOMAIN y.lane \cup {NoProposal} => x = y
  BY <1>2, <1>8, <1>10, <1>11, CleanOK
<1>13. n = Op => x = y
  BY <1>3, <1>5, <1>8, <1>10, <1>12 DEF TipOK, Known0
<1>14. SlotsOK(x) /\ Flushed(w.lane, c.last, c.bucs, <<>>, x.bucs, x.emits)
  BY <1>3, <1>5, <1>6, <1>7, <1>8, <1>12 DEF SlotsOK, Flushed
<1>15. x = Committed(w, n, s)
  BY <1>4, <1>6, <1>9, <1>11 DEF Committed
<1> QED
  BY <1>1, <1>4, <1>5, <1>8, <1>12, <1>13, <1>14, <1>15

\* A block is queued for a slot that has none, and a gap only before the first.
LEMMA CreatedBlocks ==
    ASSUME NEW w, NEW c, NEW bs, NEW s \in 1 .. Len(cuts), NEW j, Len(cuts) \in Nat, SlotsOK(w),
           SlotsOK(c), Created(w, c, s), BlocksAre(w, bs), j \/ w.start = 0, j => s = w.last + 1
    PROVE  BlocksAre(c, bs)
<1>1. /\ w.last \in 0 .. Len(cuts) /\ w.bucs \in Seq(Slots(w.last)) /\ w.start \in 0 .. w.last
      /\ bs \in Seq(Blocks(w.last))
  BY DEF SlotsOK, BlocksAre
<1>2. ASSUME NEW k \in Nat, w.last <= k PROVE bs \in Seq(Blocks(k))
  <2>1. Blocks(w.last) \subseteq Blocks(k)
    BY <1>1, <1>2 DEF Blocks
  <2> QED
    BY <1>1, <2>1
<1>3. \A b \in Elements(bs) : b.slot \in 1 .. w.last
  BY <1>1 DEF Elements, Blocks
<1>4. \A b \in Elements(w.bucs) : b.slot \in 1 .. w.last
  BY <1>1 DEF Elements, Slots
<1>5. CASE c = w
  BY <1>5
<1>6. CASE /\ s = w.last + 1 /\ c.last = s /\ c.start = IF w.start = 0 THEN s ELSE w.start
           /\ c.bucs = Append(w.bucs, [from |-> w.last, slot |-> s])
  <2>1. PICK q : q = [from |-> w.last, slot |-> s]
    OBVIOUS
  <2>2. q.slot = s /\ q \in Slots(s) /\ w.bucs \in Seq(Slots(s))
    <3>1. q \in Slots(s)
      BY <1>1, <1>6, <2>1 DEF Slots
    <3>2. Slots(w.last) \subseteq Slots(s)
      BY <1>1, <1>6, SlotsGrow
    <3> QED
      BY <1>1, <2>1, <3>1, <3>2
  <2>3. q \notin Elements(w.bucs)
    BY <1>1, <1>4, <1>6, <2>2
  <2>4. Elements(c.bucs) = Elements(w.bucs) \cup {q} /\ Distinct(c.bucs)
    BY <1>6, <2>1, <2>2, <2>3, ElementsAppend DEF BlocksAre
  <2>5. \A b \in Elements(bs) : ~SlotIn(b.slot, c.bucs)
    <3>1. \A b \in Elements(bs) : b.slot # s /\ ~SlotIn(b.slot, w.bucs)
      BY <1>1, <1>3, <1>6 DEF BlocksAre
    <3> QED
      BY <2>2, <2>4, <3>1 DEF SlotIn
  <2>6. ASSUME NEW t \in c.start .. c.last PROVE SlotIn(t, bs) \/ SlotIn(t, c.bucs)
    <3>1. CASE t = s
      BY <2>2, <2>4, <3>1 DEF SlotIn
    <3>2. CASE t # s
      <4>1. w.start # 0 /\ t \in w.start .. w.last
        BY <1>1, <1>6, <2>6, <3>2
      <4>2. SlotIn(t, bs) \/ SlotIn(t, w.bucs)
        BY <4>1 DEF BlocksAre
      <4> QED
        BY <2>4, <4>2 DEF SlotIn
    <3> QED
      BY <3>1, <3>2
  <2>7. bs \in Seq(Blocks(c.last)) /\ c.start \in 0 .. c.last
    BY <1>1, <1>2, <1>6
  <2> QED
    BY <2>4, <2>5, <2>6, <2>7 DEF BlocksAre
<1>7. CASE s > w.last + 1 /\ c.last = s /\ c.start = w.start /\ c.bucs = w.bucs
  <2>1. w.start = 0
    BY <1>1, <1>7
  <2>2. bs \in Seq(Blocks(c.last)) /\ c.start \in 0 .. c.last
    BY <1>1, <1>2, <1>7
  <2> QED
    BY <1>7, <2>1, <2>2 DEF BlocksAre
<1> QED
  BY <1>5, <1>6, <1>7 DEF Created

LEMMA CommitOK == ASSUME IInv, NEW n \in Nodes, Commit(n) PROVE Keeps
<1>1. PICK s \in 1 .. Len(cuts) :
        (joined[n] => s = node[n].last + 1) /\ handle_consensus_event(n, s)
  BY DEF Commit
<1>2. PICK x : x = Committed(node[n], n, s)
  OBVIOUS
<1>3. Becomes(n, x) /\ cuts' = cuts /\ disk' = disk
  BY <1>1, <1>2 DEF handle_consensus_event, Committed
<1>4. /\ NodeOK(n, x, Lane, held) /\ SlotsOK(x)
      /\ n = Op => x.tip = node[n].tip /\ x.lane = node[n].lane
  BY <1>2, CommittedOK
<1>5. PICK M, H : M = Lane /\ H = held
  OBVIOUS
<1>6. M \in Seq(Batch) /\ (n = Op => x.tip.dp = M /\ DOMAIN x.lane = Known(M))
  BY <1>4, <1>5 DEF IInv, Lane
<1>7. IInv'
  BY <1>3, <1>4, <1>5, <1>6, BecomesOK
<1>8. ASSUME BInv PROVE BInv'
  <2>1. PICK w, bs, lane : w = node[n] /\ bs = built[n] /\ lane = w.lane
    OBVIOUS
  <2>2. PICK c : c = try_create_block_under_construction(w, s)
    OBVIOUS
  <2>3. /\ SlotsOK(c) /\ Created(w, c, s) /\ x.last = c.last /\ x.start = c.start
        /\ Flushed(lane, c.last, c.bucs, <<>>, x.bucs, x.emits)
    BY <1>2, <2>1, <2>2, CommittedOK
  <2>4. /\ BlocksAre(w, bs) /\ (joined[n] \/ w.start = 0) /\ SlotsOK(w)
        /\ (joined[n] => s = w.last + 1) /\ Len(cuts) \in Nat
    BY <1>1, <1>8, <2>1, Facts DEF BInv
  <2>5. BlocksAre(c, bs)
    BY <2>3, <2>4, CreatedBlocks
  <2>6. BlocksAre(x, bs \o x.emits)
    BY <2>3, <2>5, FlushOK
  <2>7. DOMAIN x = NodeFields
    BY <1>4 DEF NodeOK
  <2>8. /\ DOMAIN joined' = Nodes /\ joined'[n] /\ \A y \in Nodes \ {n} : joined'[y] = joined[y]
    BY <1>8 DEF BInv, Commit
  <2> QED
    BY <1>3, <1>8, <2>1, <2>6, <2>7, <2>8, BecomesBlocks
<1> QED
  BY <1>7, <1>8 DEF Keeps

\* A new life starts from a store that follows the lane and from stored entries.
LEMMA RebootOK ==
    ASSUME IInv, NEW n \in Nodes, NEW store, NEW lane, Reboot(n, store, lane),
           DiskOK(store, Lane), LaneOK(n, lane, Lane, held),
           n = Op => store.tip = node[Op].tip /\ lane = node[Op].lane,
           DOMAIN disk' = Nodes, \A x \in Nodes : DiskOK(disk'[x], Lane),
           BInv => Distinct(store.bucs) /\ \A x \in Nodes : Distinct(disk'[x].bucs)
    PROVE  Keeps
<1>1. PICK b, L, H : b = Booted(store, lane) /\ L = Lane /\ H = held
  OBVIOUS
<1>2. /\ DOMAIN b = NodeFields /\ b.waiting = store.waiting /\ b.lane = lane /\ b.tip = store.tip
      /\ b.podas = NoMap /\ b.props = <<>> /\ b.procs = <<>> /\ b.out = {} /\ b.bucs = store.bucs
      /\ b.last = store.last /\ b.emits = <<>>
  BY <1>1 DEF Booted, NodeFields
<1>3. NodeOK(n, b, L, H) /\ SlotsOK(b)
  <2>1. \A S : <<>> \in Seq(S)
    OBVIOUS
  <2>2. PodasOK(NoMap, H)
    BY DEF PodasOK, NoMap
  <2> QED
    BY <1>1, <1>2, <2>1, <2>2 DEF NodeOK, SlotsOK, DiskOK
<1>4. /\ node' = [node EXCEPT ![n] = b] /\ DOMAIN node = Nodes /\ net' = net /\ cuts' = cuts
      /\ held' = H
  BY <1>1 DEF Reboot, IInv, NodesOK
<1>5. /\ DOMAIN node' = Nodes /\ node'[n] = b /\ \A x \in Nodes \ {n} : node'[x] = node[x]
  BY <1>4
<1>6. Lane' = L /\ DOMAIN node'[Op].lane = Known(L)
  <2>1. CASE n = Op
    BY <1>1, <1>2, <1>5, <2>1 DEF Lane, IInv
  <2>2. CASE n # Op
    BY <1>1, <1>5, <2>2, MempoolAssumption DEF Lane, IInv
  <2> QED
    BY <2>1, <2>2
<1>7. NodesOK(L, H)'
  <2>1. \A x \in Nodes : DiskOK(disk[x], L)'
    BY <1>1, <1>4 DEF DiskOK, SlotsOK
  <2>2. \A x \in Nodes : /\ NodeOK(x, node'[x], L, H) /\ SlotsOK(node'[x])
                         /\ node'[x].out = {} /\ node'[x].emits = <<>>
    BY <1>1, <1>2, <1>3, <1>5 DEF IInv, NodesOK
  <2>3. \A x \in Nodes : SlotsOK(node[x])'
    BY <1>4, <2>2 DEF SlotsOK
  <2> QED
    BY <1>5, <2>1, <2>2, <2>3 DEF NodesOK
<1>8. CutsOK(L, H)'
  <2>1. CutsOK(L, H)
    BY <1>1 DEF IInv
  <2>2. \A s : CutAt(s)' = CutAt(s)
    BY <1>4 DEF CutAt
  <2> QED
    BY <1>4, <2>1, <2>2 DEF CutsOK
<1>9. IInv'
  BY <1>1, <1>4, <1>6, <1>7, <1>8 DEF IInv
<1>10. ASSUME BInv PROVE BInv'
  <2>1. b.start = 0
    BY <1>1 DEF Booted
  <2>2. BlocksAre(b, <<>>)
    <3>1. /\ \A S : <<>> \in Seq(S)
          /\ Elements(<<>>) = {} /\ Distinct(<<>>)
      BY DEF Elements, Distinct
    <3>2. b.last \in Nat
      BY <1>3, Facts DEF SlotsOK
    <3> QED
      BY <1>2, <1>10, <2>1, <3>1, <3>2 DEF BlocksAre
  <2>3. /\ joined' = [joined EXCEPT ![n] = FALSE] /\ built' = [built EXCEPT ![n] = <<>>]
        /\ DOMAIN joined = Nodes /\ DOMAIN built = Nodes
    BY <1>10 DEF Reboot, BInv
  <2>4. \A x \in Nodes : BlocksAre(node'[x], built'[x]) /\ (joined'[x] \/ node'[x].start = 0)
    BY <1>5, <1>10, <2>1, <2>2, <2>3 DEF BInv
  <2>5. \A x \in Nodes : BlocksAre(node[x], built[x])'
    <3>1. \A w, q : BlocksAre(w, q) => BlocksAre(w, q)'
      BY <1>4 DEF BlocksAre, Blocks, Segment, CutAt
    <3> QED
      BY <2>4, <3>1 DEF BlocksAre, Blocks, Segment, CutAt
  <2> QED
    BY <1>10, <2>3, <2>4, <2>5 DEF BInv
<1> QED
  BY <1>9, <1>10 DEF Keeps

LEMMA SavedOK == ASSUME IInv, NEW n \in Nodes PROVE DiskOK(Saved(node[n]), Lane)
<1>1. PICK d, w : d = Saved(node[n]) /\ w = node[n]
  OBVIOUS
<1>2. d.waiting = w.waiting /\ d.tip = w.tip /\ d.last = w.last /\ d.bucs = w.bucs
  BY <1>1 DEF Saved
<1>3. NodeOK(n, w, Lane, held) /\ SlotsOK(w)
  BY <1>1, Facts
<1>4. DiskOK(d, Lane)
  BY <1>2, <1>3 DEF DiskOK, NodeOK, SlotsOK
<1> QED
  BY <1>1, <1>4

LEMMA RestartOK == ASSUME IInv, NEW n \in Nodes, Restart(n) PROVE Keeps
<1>1. PICK store, lane : store = Saved(node[n]) /\ lane = node[n].lane
  OBVIOUS
<1>2. Reboot(n, store, lane) /\ disk' = [disk EXCEPT ![n] = store]
  BY <1>1 DEF Restart
<1>3. DiskOK(store, Lane) /\ LaneOK(n, lane, Lane, held) /\ store.tip = node[n].tip
  BY <1>1, SavedOK, Facts DEF NodeOK, Saved
<1>4. DOMAIN disk = Nodes /\ \A x \in Nodes : DiskOK(disk[x], Lane)
  BY DEF IInv, NodesOK
<1>5. DOMAIN disk' = Nodes /\ \A x \in Nodes : DiskOK(disk'[x], Lane)
  BY <1>2, <1>3, <1>4
<1>6. BInv => Distinct(store.bucs) /\ \A x \in Nodes : Distinct(disk'[x].bucs)
  <2>1. store.bucs = node[n].bucs
    BY <1>1 DEF Saved
  <2> QED
    BY <1>2, <1>4, <2>1 DEF BInv, BlocksAre
<1> QED
  BY <1>1, <1>2, <1>3, <1>5, <1>6, RebootOK

LEMMA CrashOK == ASSUME IInv, NEW n \in Nodes, Crash(n) PROVE Keeps
<1>1. PICK kept \in SUBSET DOMAIN node[n].lane :
        Reboot(n, disk[n], [dp \in kept |-> node[n].lane[dp]])
  BY DEF Crash
<1>2. PICK store, lane : store = disk[n] /\ lane = [dp \in kept |-> node[n].lane[dp]]
  OBVIOUS
<1>3. LaneOK(n, lane, Lane, held)
  BY <1>2, Facts DEF NodeOK, LaneOK
<1>4. DOMAIN disk = Nodes /\ \A x \in Nodes : DiskOK(disk[x], Lane)
  BY DEF IInv, NodesOK
<1>5. Reboot(n, store, lane) /\ disk' = disk /\ n # Op
  BY <1>1, <1>2 DEF Crash
<1>6. BInv => Distinct(store.bucs) /\ \A x \in Nodes : Distinct(disk'[x].bucs)
  BY <1>2, <1>5 DEF BInv
<1> QED
  BY <1>2, <1>3, <1>4, <1>5, <1>6, RebootOK

LEMMA InitBlocks == Init => BInv
<1> SUFFICES ASSUME Init PROVE BInv
  OBVIOUS
<1>1. PICK b : b = Booted(DefaultStore, NoMap)
  OBVIOUS
<1>2. b.bucs = <<>> /\ b.last = 0 /\ b.start = 0 /\ DefaultStore.bucs = <<>>
  BY <1>1 DEF Booted, DefaultStore
<1>3. /\ \A S : <<>> \in Seq(S)
      /\ Elements(<<>>) = {} /\ Distinct(<<>>)
  BY DEF Elements, Distinct
<1>4. BlocksAre(b, <<>>)
  BY <1>2, <1>3 DEF BlocksAre
<1>5. /\ node = [n \in Nodes |-> b] /\ disk = [n \in Nodes |-> DefaultStore]
      /\ built = [n \in Nodes |-> <<>>] /\ joined = [n \in Nodes |-> TRUE]
  BY <1>1 DEF Init
<1> QED
  BY <1>2, <1>3, <1>4, <1>5 DEF BInv

LEMMA Step == IInv /\ [Next]_vars => Keeps
<1> SUFFICES ASSUME IInv, [Next]_vars PROVE Keeps
  OBVIOUS
<1>1. ASSUME UNCHANGED vars PROVE Keeps
  <2>1. IInv'
    BY <1>1 DEF vars, IInv, Lane, NodesOK, CutsOK, CutAt, DiskOK, SlotsOK
  <2>2. BInv => BInv'
    <3>1. \A w, q : BlocksAre(w, q) => BlocksAre(w, q)'
      BY <1>1 DEF vars, BlocksAre, Blocks, Segment, CutAt
    <3>2. ASSUME BInv, NEW n \in Nodes PROVE BlocksAre(node[n], built[n])'
      <4>1. BlocksAre(node'[n], built'[n])
        BY <1>1, <3>2 DEF vars, BInv
      <4> QED
        BY <3>1, <4>1 DEF BlocksAre, Blocks, Segment, CutAt
    <3> QED
      BY <1>1, <3>2 DEF vars, BInv
  <2> QED
    BY <2>1, <2>2 DEF Keeps
<1>2. ASSUME NEW t \in Txs, on_new_tx(t) PROVE Keeps
  BY <1>2, NewTxOK
<1>3. ASSUME NEW m \in net, handle_net_message(m) PROVE Keeps
  BY <1>3, NetMessageOK
<1>4. ASSUME NEW n \in Nodes,
             \/ handle_internal_event(n) \/ handle_contract_registration(n)
             \/ Decide(n) \/ Commit(n) \/ Restart(n) \/ Crash(n)
      PROVE  Keeps
  BY <1>4, InternalEventOK, RegistrationOK, DecideOK, CommitOK, RestartOK, CrashOK
<1> QED
  BY <1>1, <1>2, <1>3, <1>4, NewDataProposalOK, RedisseminateOK DEF Next

LEMMA Inductive == Spec => [](IInv /\ BInv)
<1>1. IInv /\ BInv /\ [Next]_vars => (IInv /\ BInv)'
  BY Step DEF Keeps
<1> QED
  BY <1>1, InitOK, InitBlocks, PTL DEF Spec

-----------------------------------------------------------------------------
\* The cuts that are committed follow one chain and tell its true size, whoever leads and
\* however out of date its lane is: the size check of verify_poda keeps a lane from going
\* back.
THEOREM CutsAlwaysGrow == Spec => []CutsGrow
<1>1. IInv => CutsGrow
  <2> SUFFICES ASSUME IInv PROVE CutsGrow
    OBVIOUS
  <2>1. \A s \in 1 .. Len(cuts) : /\ TipOK(cuts[s], Lane)
                                  /\ Extends(CutAt(s - 1).dp, cuts[s].dp)
    BY DEF IInv, CutsOK, CutOK
  <2> QED
    BY <2>1 DEF CutsGrow, TipOK, Extends
<1> QED
  BY <1>1, Inductive, PTL

\* A signature in a lane entry or a cut is of a validator that stored the proposal at that
\* lane size: add_signatures, on_poda_update and on_sync_reply let no other in.
THEOREM SignersAlwaysHeld == Spec => []SignersHeld
<1>1. IInv => SignersHeld
  <2> SUFFICES ASSUME IInv PROVE SignersHeld
    OBVIOUS
  <2>1. \A n \in Nodes : LaneOK(n, node[n].lane, Lane, held)
    BY Facts DEF NodeOK
  <2>2. \A s \in 1 .. Len(cuts) : CutOK(cuts[s], Lane, held)
    BY DEF IInv, CutsOK
  <2> QED
    BY <2>1, <2>2 DEF SignersHeld, LaneOK, EntryOK, CutOK
<1> QED
  BY <1>1, Inductive, PTL

\* The operator stores every proposal that clean_and_update_lanes or
\* try_to_send_full_signed_blocks may ask it for.
THEOREM OperatorCanAlwaysServe == Spec => []OperatorCanServe
<1>1. IInv => OperatorCanServe
  BY DEF IInv, OperatorCanServe, MsgOK
<1> QED
  BY <1>1, Inductive, PTL

\* A block holds exactly the proposals that its cut adds to the one before, in order, and
\* try_to_send_full_signed_blocks emits it once, whatever was missing or retried.
THEOREM BlocksAlwaysSegments == Spec => []BlocksAreSegments
<1>1. IInv /\ BInv => BlocksAreSegments
  <2> SUFFICES ASSUME BInv, IInv, NEW n \in Nodes, NEW i \in DOMAIN built[n]
               PROVE  /\ built[n][i].dps = Segment(built[n][i].slot)
                      /\ \A j \in DOMAIN built[n] : built[n][i].slot = built[n][j].slot => i = j
    BY DEF BlocksAreSegments
  <2>1. PICK bs, k : bs = built[n] /\ k = node[n].last
    OBVIOUS
  <2>2. bs \in Seq(Blocks(k)) /\ Distinct(bs)
    BY <2>1 DEF BInv, BlocksAre
  <2>3. \A j \in DOMAIN bs : bs[j] = [slot |-> bs[j].slot, dps |-> Segment(bs[j].slot)]
    <3>1. \A j \in DOMAIN bs : bs[j] \in Blocks(k)
      BY <2>2
    <3> QED
      BY <3>1 DEF Blocks
  <2>4. \A j \in DOMAIN bs : bs[j].dps = Segment(bs[j].slot)
    BY <2>3
  <2>5. \A j \in DOMAIN bs : bs[i].slot = bs[j].slot => i = j
    <3> SUFFICES ASSUME NEW j \in DOMAIN bs, bs[i].slot = bs[j].slot PROVE i = j
      OBVIOUS
    <3>1. i \in DOMAIN bs /\ bs[i] = bs[j]
      BY <2>1, <2>3
    <3> QED
      BY <2>2, <3>1 DEF Distinct
  <2> QED
    BY <2>1, <2>4, <2>5
<1> QED
  BY <1>1, Inductive, PTL

\* From the first slot announced on, every committed slot that the mempool was told of is
\* built or in the queue, across gaps and restarts: try_create_block_under_construction
\* skips slots only before it has announced one.
THEOREM NoSlotEverForgotten == Spec => []NoSlotForgotten
<1>1. BInv => NoSlotForgotten
  <2> SUFFICES ASSUME BInv, NEW n \in Nodes, node[n].start # 0,
                      NEW s \in node[n].start .. node[n].last
               PROVE  \/ \E i \in DOMAIN built[n] : built[n][i].slot = s
                      \/ \E i \in DOMAIN node[n].bucs : node[n].bucs[i].slot = s
    BY DEF NoSlotForgotten
  <2>1. SlotIn(s, built[n]) \/ SlotIn(s, node[n].bucs)
    BY DEF BInv, BlocksAre
  <2> QED
    BY <2>1 DEF SlotIn, Elements
<1> QED
  BY <1>1, Inductive, PTL
=============================================================================
