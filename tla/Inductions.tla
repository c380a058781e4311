----------------------------- MODULE Inductions -----------------------------
(***************************************************************************)
(* The least number principle in terms of sets, so that the provers can    *)
(* use it: induction without an operator parameter.  From it, what         *)
(* Selected computes.                                                      *)
(***************************************************************************)
EXTENDS Selection, FiniteSets, WellFoundedInduction, FiniteSetTheorems, TLAPS

\* A set of naturals that is not empty has a least element: the intervals from 0 to its
\* elements are finite sets, well founded under inclusion.
LEMMA LeastElement ==
    ASSUME NEW S, S \in SUBSET Nat, S # {}
    PROVE  \E n \in S : \A m \in S : n <= m
<1> DEFINE R == StrictSubsetOrdering(Nat)
           T == {0..m : m \in S}
<1>1. T # {}
  OBVIOUS
<1>2. T \subseteq FiniteSubsetsOf(Nat)
  <2>1. \A m \in S : 0..m \in SUBSET Nat /\ IsFiniteSet(0..m)
    BY FS_Interval
  <2> QED
    BY <2>1 DEF FiniteSubsetsOf
<1>3. PICK x \in T : \A y \in T : ~ (<<y, x>> \in R)
  <2> HIDE DEF T, R
  <2>1. IsWellFoundedOn(R, FiniteSubsetsOf(Nat))
    BY FS_StrictSubsetOrderingWellFounded DEF R
  <2> QED
    BY <1>1, <1>2, <2>1, WFMin
<1>4. PICK n \in S : x = 0..n
  OBVIOUS
<1>5. ASSUME NEW m \in S, m < n PROVE FALSE
  <2>1. 0..m \in SUBSET Nat /\ 0..n \in SUBSET Nat /\ 0..m \subseteq 0..n
    BY <1>5
  <2>2. n \in 0..n /\ n \notin 0..m
    BY <1>5
  <2>3. <<0..m, 0..n>> \in R
    BY <2>1, <2>2 DEF StrictSubsetOrdering
  <2> QED
    BY <1>3, <1>4, <2>3
<1> QED
  BY <1>5

\* A bounded set of naturals that is not empty has a greatest element.
LEMMA GreatestElement ==
    ASSUME NEW N \in Nat, NEW S, S \in SUBSET (0..N), S # {}
    PROVE  \E n \in S : \A m \in S : m <= n
<1> DEFINE T == {N - m : m \in S}
<1>1. T \in SUBSET Nat /\ T # {}
  <2>1. \A m \in S : N - m \in Nat
    OBVIOUS
  <2> QED
    BY <2>1
<1>2. PICK x \in T : \A y \in T : x <= y
  <2> HIDE DEF T
  <2> QED
    BY <1>1, LeastElement
<1>3. PICK n \in S : x = N - n
  OBVIOUS
<1>4. \A m \in S : N - m \in T
  OBVIOUS
<1>5. \A m \in S : N - n <= N - m
  BY <1>2, <1>3, <1>4
<1> QED
  BY <1>5

\* What is true of 0, and of n + 1 when it is true of n, is true of every n up to N.
LEMMA InductionUpTo ==
    ASSUME NEW N \in Nat, NEW P, 0 \in P, \A n \in 0..(N - 1) : n \in P => n + 1 \in P
    PROVE  0..N \subseteq P
<1> DEFINE T == {n \in 0..N : n \notin P}
<1>1. SUFFICES ASSUME T # {} PROVE FALSE
  OBVIOUS
<1>2. PICK n \in T : \A m \in T : n <= m
  <2>1. T \in SUBSET Nat
    OBVIOUS
  <2> HIDE DEF T
  <2> QED
    BY <1>1, <2>1, LeastElement
<1>3. n # 0 /\ n - 1 \in 0..(N - 1) /\ n - 1 \notin T
  BY <1>2
<1> QED
  BY <1>2, <1>3

-----------------------------------------------------------------------------
(* Recursive functions.  The provers know one by its equation once some     *)
(* function satisfies it: that is shown by induction on the domain.         *)

SelectedIs(s, I, g, m) ==
    g = [k \in 0 .. m |-> IF k = 0 THEN <<>>
                          ELSE IF k \in I THEN Append(g[k - 1], s[k]) ELSE g[k - 1]]

LEMMA SelectedExists ==
    ASSUME NEW n \in Nat, NEW s, NEW I
    PROVE  \E g : SelectedIs(s, I, g, n)
<1> DEFINE P == {m \in 0 .. n : \E g : SelectedIs(s, I, g, m)}
<1>1. 0 \in P
  <2>1. SelectedIs(s, I, [k \in 0 .. 0 |-> <<>>], 0)
    BY DEF SelectedIs
  <2> QED
    BY <2>1
<1>2. ASSUME NEW m \in 0 .. (n - 1), m \in P PROVE m + 1 \in P
  <2>1. PICK g : SelectedIs(s, I, g, m)
    BY <1>2
  <2> DEFINE x == IF m + 1 \in I THEN Append(g[m], s[m + 1]) ELSE g[m]
             h == [k \in 0 .. m + 1 |-> IF k = m + 1 THEN x ELSE g[k]]
  <2>2. ASSUME NEW k \in 0 .. m + 1
        PROVE  h[k] = IF k = 0 THEN <<>>
                      ELSE IF k \in I THEN Append(h[k - 1], s[k]) ELSE h[k - 1]
    <3>1. CASE k = m + 1
      BY <3>1
    <3>2. CASE k # m + 1
      <4>1. k \in 0 .. m /\ h[k] = g[k] /\ (k # 0 => h[k - 1] = g[k - 1])
        BY <3>2
      <4>2. g[k] = IF k = 0 THEN <<>>
                   ELSE IF k \in I THEN Append(g[k - 1], s[k]) ELSE g[k - 1]
        BY <2>1, <4>1 DEF SelectedIs
      <4> QED
        BY <4>1, <4>2
    <3> QED
      BY <3>1, <3>2
  <2>3. h = [k \in 0 .. m + 1 |-> h[k]]
    OBVIOUS
  <2> HIDE DEF h
  <2>4. SelectedIs(s, I, h, m + 1)
    BY <2>2, <2>3 DEF SelectedIs
  <2> QED
    BY <2>4
<1> HIDE DEF P
<1>3. 0 .. n \subseteq P
  BY <1>1, <1>2, InductionUpTo
<1> QED
  BY <1>3 DEF P

\* The equation of Selected.
LEMMA SelectedEquation ==
    ASSUME NEW T, NEW s \in Seq(T), NEW I
    PROVE  \E sel : /\ Selected(s, I) = sel[Len(s)] /\ sel[0] = <<>>
                    /\ \A k \in 0 .. Len(s) - 1 :
                         sel[k + 1] = IF k + 1 \in I THEN Append(sel[k], s[k + 1]) ELSE sel[k]
<1> DEFINE n == Len(s)
           sel == CHOOSE g : SelectedIs(s, I, g, n)
<1>0. n \in Nat
  OBVIOUS
<1>1. SelectedIs(s, I, sel, n)
  <2> HIDE DEF n
  <2> QED
    BY <1>0, SelectedExists
<1>2. Selected(s, I) = sel[n]
  BY DEF Selected, SelectedIs
<1> HIDE DEF sel, n
<1>3. \A k \in 0 .. n : sel[k] = IF k = 0 THEN <<>>
                                 ELSE IF k \in I THEN Append(sel[k - 1], s[k]) ELSE sel[k - 1]
  BY <1>1 DEF SelectedIs
<1>4. sel[0] = <<>>
  BY <1>0, <1>3
<1>5. ASSUME NEW k \in 0 .. n - 1
      PROVE  sel[k + 1] = IF k + 1 \in I THEN Append(sel[k], s[k + 1]) ELSE sel[k]
  <2>1. k + 1 \in 0 .. n /\ k + 1 # 0 /\ (k + 1) - 1 = k
    BY <1>0
  <2> QED
    BY <1>3, <2>1
<1> QED
  BY <1>2, <1>4, <1>5 DEF n

\* The elements of a sequence.
Elements(s) == {s[k] : k \in DOMAIN s}

Distinct(s) == \A j, k \in DOMAIN s : s[j] = s[k] => j = k

LEMMA ElementsAppend ==
    ASSUME NEW T, NEW s \in Seq(T), NEW e \in T
    PROVE  /\ Elements(Append(s, e)) = Elements(s) \cup {e}
           /\ Distinct(s) /\ e \notin Elements(s) => Distinct(Append(s, e))
<1> DEFINE a == Append(s, e)
           n == Len(s)
<1>1. n \in Nat /\ DOMAIN s = 1 .. n /\ DOMAIN a = 1 .. n + 1
  OBVIOUS
<1>2. a[n + 1] = e /\ \A k \in 1 .. n : a[k] = s[k]
  OBVIOUS
<1> HIDE DEF a, n
<1>3. Elements(a) = Elements(s) \cup {e}
  <2>1. n + 1 \in DOMAIN a /\ DOMAIN a = DOMAIN s \cup {n + 1}
    BY <1>1
  <2> QED
    BY <1>1, <1>2, <2>1 DEF Elements
<1>4. ASSUME Distinct(s), e \notin Elements(s) PROVE Distinct(a)
  <2> SUFFICES ASSUME NEW j \in DOMAIN a, NEW k \in DOMAIN a, a[j] = a[k] PROVE j = k
    BY DEF Distinct
  <2>1. (j \in DOMAIN s \/ j = n + 1) /\ (k \in DOMAIN s \/ k = n + 1)
    BY <1>1
  <2>2. CASE j \in DOMAIN s /\ k \in DOMAIN s
    BY <1>1, <1>2, <1>4, <2>2 DEF Distinct
  <2>3. CASE j = n + 1 /\ k \in DOMAIN s
    BY <1>1, <1>2, <1>4, <2>3 DEF Elements
  <2>4. CASE j \in DOMAIN s /\ k = n + 1
    BY <1>1, <1>2, <1>4, <2>4 DEF Elements
  <2> QED
    BY <2>1, <2>2, <2>3, <2>4
<1> QED
  BY <1>3, <1>4 DEF a

\* What is selected is what is at the places selected; no element more than once, if s
\* has none more than once.
LEMMA SelectedElements ==
    ASSUME NEW T, NEW s \in Seq(T), NEW I \in SUBSET DOMAIN s
    PROVE  /\ Selected(s, I) \in Seq(T)
           /\ Elements(Selected(s, I)) = {s[k] : k \in I}
           /\ Distinct(s) => Distinct(Selected(s, I))
<1> DEFINE n == Len(s)
<1>0. n \in Nat /\ DOMAIN s = 1 .. n /\ \A k \in 1 .. n : s[k] \in T
  OBVIOUS
<1>1. PICK sel : /\ Selected(s, I) = sel[n] /\ sel[0] = <<>>
                 /\ \A k \in 0 .. n - 1 :
                      sel[k + 1] = IF k + 1 \in I THEN Append(sel[k], s[k + 1]) ELSE sel[k]
  BY SelectedEquation
<1> HIDE DEF n
<1> DEFINE Upto(m) == {s[k] : k \in I \cap (1 .. m)}
           P == {m \in 0 .. n : /\ sel[m] \in Seq(T) /\ Elements(sel[m]) = Upto(m)
                                /\ Distinct(s) => Distinct(sel[m])}
<1>2. 0 \in P
  <2>1. <<>> \in Seq(T) /\ DOMAIN <<>> = {} /\ I \cap (1 .. 0) = {}
    OBVIOUS
  <2>2. Elements(<<>>) = {} /\ Distinct(<<>>) /\ Upto(0) = {}
    BY <2>1 DEF Elements, Distinct
  <2>3. 0 \in 0 .. n /\ sel[0] \in Seq(T) /\ Elements(sel[0]) = Upto(0) /\ Distinct(sel[0])
    <3>1. sel[0] = <<>> /\ 0 \in 0 .. n
      BY <1>0, <1>1
    <3> HIDE DEF Upto
    <3> QED
      BY <2>1, <2>2, <3>1, Zenon
  <2> QED
    BY <2>3
<1>3. ASSUME NEW m \in 0 .. (n - 1), m \in P PROVE m + 1 \in P
  <2>1. m + 1 \in 1 .. n /\ m + 1 \in 0 .. n /\ s[m + 1] \in T
    BY <1>0
  <2>2. sel[m] \in Seq(T) /\ Elements(sel[m]) = Upto(m) /\ (Distinct(s) => Distinct(sel[m]))
    BY <1>3
  <2>3. CASE m + 1 \in I
    <3>1. sel[m + 1] = Append(sel[m], s[m + 1])
      BY <1>1, <2>3
    <3>2. I \cap (1 .. m + 1) = (I \cap (1 .. m)) \cup {m + 1}
      BY <1>0, <2>1, <2>3
    <3>3. Upto(m + 1) = Upto(m) \cup {s[m + 1]}
      BY <3>2
    <3>4. Distinct(s) => s[m + 1] \notin Upto(m)
      BY <1>0, <2>1 DEF Distinct
    <3> HIDE DEF Upto
    <3>5. /\ Elements(sel[m + 1]) = Upto(m) \cup {s[m + 1]}
          /\ Distinct(s) => Distinct(sel[m + 1])
      BY <2>1, <2>2, <3>1, <3>4, ElementsAppend
    <3>6. sel[m + 1] \in Seq(T)
      BY <2>1, <2>2, <3>1
    <3> QED
      BY <2>1, <3>3, <3>5, <3>6
  <2>4. CASE m + 1 \notin I
    <3>1. sel[m + 1] = sel[m]
      BY <1>1, <2>4
    <3>2. I \cap (1 .. m + 1) = I \cap (1 .. m)
      BY <1>0, <2>1, <2>4
    <3>3. Upto(m + 1) = Upto(m)
      BY <3>2
    <3> HIDE DEF Upto
    <3> QED
      BY <2>1, <2>2, <3>1, <3>3
  <2> QED
    BY <2>3, <2>4
<1>4. Upto(n) = {s[k] : k \in I}
  BY <1>0
<1> HIDE DEF P, Upto
<1>5. 0 .. n \subseteq P
  BY <1>0, <1>2, <1>3, InductionUpTo
<1>6. n \in P
  BY <1>0, <1>5
<1> QED
  BY <1>1, <1>4, <1>6 DEF P


=============================================================================
