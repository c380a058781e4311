---------------------- MODULE ConsensusEvidenceProofs ----------------------
(* What stands behind a proposal, a view change and a commit, for as long   *)
(* as no validator has restarted: a leader proposes once per view, a view   *)
(* is left on the word of a quorum, and what is committed without a         *)
(* certificate was committed with one elsewhere.                            *)
(* The second part is about every execution, restarts included: the votes   *)
(* that stand behind a certificate, and behind what was committed with it.  *)
(* The third puts both to use: after the first view change of a slot, what  *)
(* was certified is proposed again, until a validator restarts.             *)
EXTENDS ConsensusProofs, Inductions

-----------------------------------------------------------------------------
(* The evidence: the contents of messages, and certified commits.           *)

Heard == {e.msg : e \in msgs}

\* What a handler has sent so far.
Outs(s) == {s.out[i].msg : i \in DOMAIN s.out}

Prepares(M) == {m \in M : m.type = "Prepare"}
Proposals(M) == {m.prop : m \in Prepares(M)}

\* The validators that asked to leave a view.
Asks(M, slot, view) ==
    {m \in M : m.type = "Timeout" /\ m.slot = slot /\ m.view = view}
Askers(M, slot, view) == {m.src : m \in Asks(M, slot, view)}

\* The proposals that s committed with a certificate.
CertifiedBy(s) ==
    {s.commits[i].prop : i \in {i \in DOMAIN s.commits : s.commits[i].qc # EmptyQC}}

Certified == UNION {CertifiedBy(st[n]) : n \in Validators}

-----------------------------------------------------------------------------
(* What is true of tickets and messages, on the evidence M and C.           *)

\* A proposal that comes with a prepare certificate of this slot was proposed.
KindOK(kind, slot, M) ==
    kind # NilProposal /\ kind.prop.slot = slot => kind.prop \in Proposals(M)

\* Every signer of a timeout certificate asked to leave its view.
TimeoutOK(qc, kind, M) ==
    /\ qc.signers \subseteq Askers(M, qc.hash.slot, qc.hash.view)
    /\ KindOK(kind, qc.hash.slot, M)

TicketOK(ticket, M) ==
    ticket.type = "TimeoutQC" => TimeoutOK(ticket.qc, ticket.kind, M)

PrepareOK(p, M) == p.prop \in Proposals(M) /\ TicketOK(p.ticket, M)

MessageOK(m, M) ==
    /\ m.type = "Prepare" => TicketOK(m.ticket, M)
    /\ m.type = "SyncReply" => PrepareOK(m.prepare, M)
    /\ m.type = "Timeout" => KindOK(m.kind, m.slot, M)
    /\ m.type = "TimeoutCertificate" => TimeoutOK(m.qc, m.kind, M)

\* A proposal was first made in the view it is born in, and builds on a
\* certified one.
ProposalOK(p, M, C) ==
    /\ \E q \in Prepares(M) : q.prop = p /\ q.view = p.born
    /\ p.slot > 1 => \E d \in C : hashed(d) = p.parent

OneProposal(M) ==
    \A p, q \in Prepares(M) :
      p.prop.slot = q.prop.slot /\ p.view = q.view => p.prop = q.prop

-----------------------------------------------------------------------------
(* What is true of the state s of validator n.                              *)

\* Nobody joins; only the leader of the view has the leader's role.
RoleOK(n, s) ==
    /\ s.tag # "Joining" /\ s.life = 0 /\ s.slot > 0
    /\ s.tag = "Leader" => round_leader(s.slot, s.view) = n

\* The proposal of the current slot was proposed.
CurrentOK(s, M) == s.cp.slot = s.slot => s.cp \in Proposals(M)

\* The requests counted were made, and they always make a certificate.
RequestsOK(s, M) ==
    /\ s.hqc # None => s.hqc.slot <= s.slot
    /\ \A r \in s.reqs :
         /\ r.src \in Askers(M, s.slot, s.view)
         /\ r.kind # NilProposal => HasPrepareQCForSlot(s)

\* A quorum asked to leave the view before this one.
ViewOK(s, M) ==
    s.view > 0 => IsQuorum(compute_voting_power(Askers(M, s.slot, s.view - 1)))

HoldsOK(s, M) ==
    /\ s.ticket # None => TicketOK(s.ticket, M)
    /\ \A p \in s.prepares : PrepareOK(p, M)
    /\ s.next # None => PrepareOK(s.next, M)

\* What was committed, and what the slot builds on, is certified.
ChainOK(s, C) ==
    /\ s.slot > 1 => \E d \in C : hashed(d) = s.parent
    /\ \A i \in DOMAIN s.commits : s.commits[i].prop \in C

\* Only start_round sends a Prepare.
SentOK(s, M) ==
    \A m \in Outs(s) : m.type # "Prepare" /\ MessageOK(m, M)

Sound(n, s, M, C) ==
    /\ RoleOK(n, s) /\ CurrentOK(s, M)
    /\ RequestsOK(s, M) /\ ViewOK(s, M)
    /\ HoldsOK(s, M) /\ ChainOK(s, C)

\* The same while a handler of n runs: what it has sent and committed itself
\* counts as evidence.
Midway(n, s, M, C) ==
    /\ Sound(n, s, M \cup Outs(s), C \cup CertifiedBy(s))
    /\ SentOK(s, M \cup Outs(s))
    /\ CertifiedBy(s) \subseteq Proposals(M)

\* A leader that proposed in a slot and view has left it, or is done proposing.
Behind(p, s) ==
    \/ p.prop.slot < s.slot
    \/ p.prop.slot = s.slot /\ p.view < s.view
    \/ p.prop.slot = s.slot /\ p.view = s.view /\ s.step # "StartNewSlot"

LeadersOK ==
    \A p \in Prepares(Heard) :
      p.src = round_leader(p.prop.slot, p.view) /\ Behind(p, st[p.src])

\* The evidence is consistent.
Consistent(M, C) ==
    /\ OneProposal(M) /\ C \subseteq Proposals(M)
    /\ \A p \in Proposals(M) : ProposalOK(p, M, C)
    /\ \A m \in M : MessageOK(m, M)

Evidence ==
    /\ \A n \in Validators : Sound(n, st[n], Heard, Certified)
    /\ Consistent(Heard, Certified) /\ LeadersOK

\* The outbox is empty between two steps.
EInv ==
    /\ IInv
    /\ \A n \in Validators : st[n].out = <<>>
    /\ restarts = 0 => Evidence

-----------------------------------------------------------------------------
(* Voting power: a sum over a set does not depend on the order of its       *)
(* elements, and a larger set has no less.                                  *)

First(V) == CHOOSE v \in V : TRUE

\* g sums up every subset of V.
SumsUp(g, V) ==
    g = [S \in SUBSET V |-> IF S = {} THEN 0 ELSE Stake[First(S)] + g[S \ {First(S)}]]

LEMMA ValidatorsFinite ==
    /\ IsFiniteSet(Validators)
    /\ \A V \in SUBSET Validators :
         /\ IsFiniteSet(V) /\ Cardinality(V) \in 0 .. Cardinality(Validators)
         /\ Cardinality(V) = 0 <=> V = {}
         /\ V # {} => First(V) \in V
         /\ \A v \in V : Cardinality(V \ {v}) = Cardinality(V) - 1
<1>1. IsFiniteSet(1 .. Len(Bonded))
  BY BondedAssumption, FS_Interval
<1>2. Bonded \in Surjection(1 .. Len(Bonded), Validators)
  BY BondedAssumption DEF Validators, Surjection
<1>4. IsFiniteSet(Validators)
  BY <1>1, <1>2, FS_Surjection
<1>5. ASSUME NEW V \in SUBSET Validators
      PROVE  /\ IsFiniteSet(V) /\ Cardinality(V) \in 0 .. Cardinality(Validators)
             /\ Cardinality(V) = 0 <=> V = {}
             /\ V # {} => First(V) \in V
             /\ \A v \in V : Cardinality(V \ {v}) = Cardinality(V) - 1
  <2>1. IsFiniteSet(V) /\ Cardinality(V) <= Cardinality(Validators)
    BY <1>4, FS_Subset
  <2>2. Cardinality(V) \in Nat /\ Cardinality(Validators) \in Nat
    BY <1>4, <2>1, FS_CardinalityType
  <2>3. Cardinality(V) = 0 <=> V = {}
    BY <2>1, FS_EmptySet
  <2>4. \A v \in V : Cardinality(V \ {v}) = Cardinality(V) - 1
    BY <2>1, FS_RemoveElement
  <2>5. V # {} => First(V) \in V
    BY DEF First
  <2> QED  BY <2>1, <2>2, <2>3, <2>4, <2>5
<1> QED
  BY <1>4, <1>5

\* The subsets of V with at most k elements.
UpTo(V, k) == {S \in SUBSET V : Cardinality(S) <= k}

\* g sums up the subsets with at most k elements.
SumsUpTo(g, V, k) ==
    \A S \in UpTo(V, k) :
      g[S] = IF S = {} THEN 0 ELSE Stake[First(S)] + g[S \ {First(S)}]

LEMMA SumUpToExists ==
    ASSUME NEW V \in SUBSET Validators
    PROVE  \E g : SumsUpTo(g, V, Cardinality(V))
<1> DEFINE N == Cardinality(V)
           P == {k \in 0 .. N : \E g : SumsUpTo(g, V, k)}
<1>0. N \in Nat
  BY ValidatorsFinite
<1>1. 0 \in P
  <2> DEFINE g == [S \in SUBSET V |-> 0]
  <2>1. \A S \in UpTo(V, 0) : S = {}
    <3> TAKE S \in UpTo(V, 0)
    <3>1. S \in SUBSET Validators /\ Cardinality(S) <= 0
      BY DEF UpTo
    <3>2. Cardinality(S) \in Nat
      BY <3>1, ValidatorsFinite
    <3>3. Cardinality(S) = 0
      BY <3>1, <3>2
    <3> QED  BY <3>1, <3>3, ValidatorsFinite
  <2>2. SumsUpTo(g, V, 0)
    BY <2>1 DEF SumsUpTo, UpTo
  <2> HIDE DEF g
  <2> QED  BY <1>0, <2>2
<1>2. ASSUME NEW k \in 0 .. (N - 1), k \in P PROVE k + 1 \in P
  <2>1. PICK g : SumsUpTo(g, V, k)
    BY <1>2
  <2> DEFINE h == [S \in SUBSET V |-> IF Cardinality(S) <= k THEN g[S]
                                      ELSE Stake[First(S)] + g[S \ {First(S)}]]
  <2>2. SumsUpTo(h, V, k + 1)
    <3> SUFFICES ASSUME NEW S \in UpTo(V, k + 1)
                 PROVE  h[S] = IF S = {} THEN 0
                               ELSE Stake[First(S)] + h[S \ {First(S)}]
      BY DEF SumsUpTo
    <3>1. S \in SUBSET V /\ S \in SUBSET Validators /\ Cardinality(S) <= k + 1
      BY DEF UpTo
    <3>2. Cardinality(S) \in Nat /\ (Cardinality(S) = 0 <=> S = {}) /\ k \in Nat
      BY <3>1, ValidatorsFinite
    <3>3. CASE S = {}
      <4>1. Cardinality(S) <= k /\ S \in UpTo(V, k)
        BY <3>1, <3>2, <3>3 DEF UpTo
      <4> QED  BY <2>1, <3>1, <3>3, <4>1 DEF SumsUpTo
    <3>4. CASE S # {}
      <4> DEFINE R == S \ {First(S)}
      <4>1. First(S) \in S /\ Cardinality(R) = Cardinality(S) - 1
        BY <3>1, <3>4, ValidatorsFinite
      <4>2. R \in SUBSET V /\ Cardinality(R) <= k
        BY <3>1, <3>2, <4>1
      <4> HIDE DEF R
      <4>3. h[R] = g[R]
        BY <4>2
      <4>4. h[S] = Stake[First(S)] + g[R]
        <5>1. CASE Cardinality(S) <= k
          <6>1. S \in UpTo(V, k)
            BY <3>1, <5>1 DEF UpTo
          <6> QED  BY <2>1, <3>1, <3>4, <5>1, <6>1 DEF SumsUpTo, R
        <5>2. CASE ~(Cardinality(S) <= k)
          BY <3>1, <5>2 DEF R
        <5> QED  BY <5>1, <5>2
      <4> QED  BY <3>4, <4>3, <4>4 DEF R
    <3> QED  BY <3>3, <3>4
  <2> HIDE DEF h
  <2> QED  BY <1>0, <2>2
<1> HIDE DEF P
<1>3. 0 .. N \subseteq P
  BY <1>0, <1>1, <1>2, InductionUpTo
<1> QED
  BY <1>0, <1>3 DEF P

LEMMA PowerSumsUp ==
    ASSUME NEW V \in SUBSET Validators
    PROVE  \E g : SumsUp(g, V) /\ compute_voting_power(V) = g[V]
<1> DEFINE f == CHOOSE g : SumsUp(g, V)
<1>1. PICK g : SumsUpTo(g, V, Cardinality(V))
  BY SumUpToExists
<1> DEFINE h == [S \in SUBSET V |-> g[S]]
<1>2. SumsUp(h, V)
  <2>1. ASSUME NEW S \in SUBSET V
        PROVE  h[S] = IF S = {} THEN 0 ELSE Stake[First(S)] + h[S \ {First(S)}]
    <3>1. IsFiniteSet(V)
      BY ValidatorsFinite
    <3>2. S \in UpTo(V, Cardinality(V))
      BY <3>1, FS_Subset DEF UpTo
    <3>3. S \ {First(S)} \in SUBSET V
      OBVIOUS
    <3> QED  BY <1>1, <3>2, <3>3 DEF SumsUpTo
  <2>2. h = [S \in SUBSET V |-> h[S]]
    OBVIOUS
  <2> HIDE DEF h
  <2> QED  BY <2>1, <2>2, Zenon DEF SumsUp
<1>3. SumsUp(f, V)
  BY <1>2, Zenon
<1>4. compute_voting_power(V) = f[V]
  BY DEF compute_voting_power, MapThenSumSet, MapThenFoldSet, SumsUp, First
<1> QED
  BY <1>3, <1>4

\* Any two sums over the subsets agree, on every subset they both cover.
LEMMA SumsAgree ==
    ASSUME NEW V \in SUBSET Validators, NEW U \in SUBSET V,
           NEW f, NEW g, SumsUp(f, U), SumsUp(g, V)
    PROVE  f[U] = g[U]
<1> DEFINE N == Cardinality(U)
           P == {k \in 0 .. N : \A S \in UpTo(U, k) : f[S] = g[S]}
<1>0. N \in Nat /\ \A S \in SUBSET U : S \in SUBSET Validators /\ S \in SUBSET V
  BY ValidatorsFinite
<1>1. \A S \in SUBSET U :
        /\ f[S] = IF S = {} THEN 0 ELSE Stake[First(S)] + f[S \ {First(S)}]
        /\ g[S] = IF S = {} THEN 0 ELSE Stake[First(S)] + g[S \ {First(S)}]
  BY <1>0 DEF SumsUp
<1>2. \A S \in SUBSET U : Cardinality(S) \in Nat /\ (Cardinality(S) = 0 <=> S = {})
  BY <1>0, ValidatorsFinite
<1>3. 0 \in P
  <2>1. ASSUME NEW S \in UpTo(U, 0) PROVE f[S] = g[S]
    <3>1. S \in SUBSET U /\ Cardinality(S) <= 0
      BY <2>1 DEF UpTo
    <3>2. S = {}
      BY <1>2, <3>1
    <3>3. f[S] = 0 /\ g[S] = 0
      BY <1>1, <3>1, <3>2
    <3> QED  BY <3>3
  <2> QED  BY <1>0, <2>1
<1>4. ASSUME NEW k \in 0 .. (N - 1), k \in P PROVE k + 1 \in P
  <2>1. ASSUME NEW S \in UpTo(U, k + 1)
        PROVE  f[S] = g[S]
    <3>1. S \in SUBSET U /\ Cardinality(S) <= k + 1
      BY <2>1 DEF UpTo
    <3>2. CASE S = {}
      BY <1>1, <3>1, <3>2
    <3>3. CASE S # {}
      <4> DEFINE R == S \ {First(S)}
      <4>1. First(S) \in S /\ Cardinality(R) = Cardinality(S) - 1
        BY <1>0, <3>1, <3>3, ValidatorsFinite
      <4>2. R \in UpTo(U, k)
        BY <1>2, <3>1, <4>1 DEF UpTo
      <4>3. f[R] = g[R]
        BY <1>4, <4>2
      <4> QED  BY <1>1, <3>1, <3>3, <4>3
    <3> QED  BY <3>2, <3>3
  <2> QED  BY <1>0, <2>1
<1> HIDE DEF P
<1>5. 0 .. N \subseteq P
  BY <1>0, <1>3, <1>4, InductionUpTo
<1> QED
  BY <1>0, <1>2, <1>5 DEF P, UpTo

LEMMA PowerRecurrence ==
    /\ compute_voting_power({}) = 0
    /\ \A V \in SUBSET Validators :
         V # {} => compute_voting_power(V) =
                     Stake[First(V)] + compute_voting_power(V \ {First(V)})
<1>1. compute_voting_power({}) = 0
  <2>1. {} \in SUBSET Validators
    OBVIOUS
  <2>2. PICK g : SumsUp(g, {}) /\ compute_voting_power({}) = g[{}]
    BY <2>1, PowerSumsUp
  <2> QED  BY <2>2 DEF SumsUp
<1>2. ASSUME NEW V \in SUBSET Validators, V # {}
      PROVE  compute_voting_power(V) =
               Stake[First(V)] + compute_voting_power(V \ {First(V)})
  <2>0. PICK U : U = V \ {First(V)}
    OBVIOUS
  <2>1. U \in SUBSET V /\ U \in SUBSET Validators
    BY <2>0
  <2>2. PICK g : SumsUp(g, V) /\ compute_voting_power(V) = g[V]
    BY PowerSumsUp
  <2>3. PICK f : SumsUp(f, U) /\ compute_voting_power(U) = f[U]
    BY <2>1, PowerSumsUp
  <2>4. f[U] = g[U]
    BY <2>1, <2>2, <2>3, SumsAgree
  <2>5. g[V] = Stake[First(V)] + g[V \ {First(V)}]
    BY <1>2, <2>2 DEF SumsUp
  <2> QED  BY <2>0, <2>2, <2>3, <2>4, <2>5
<1> QED
  BY <1>1, <1>2

\* The order of summation does not matter.
LEMMA PowerOfOne ==
    \A V \in SUBSET Validators :
      /\ compute_voting_power(V) \in Nat
      /\ \A v \in V : compute_voting_power(V) = Stake[v] + compute_voting_power(V \ {v})
<1> DEFINE N == Cardinality(Validators)
           PowerOK(V) ==
             /\ compute_voting_power(V) \in Nat
             /\ \A v \in V : compute_voting_power(V) =
                               Stake[v] + compute_voting_power(V \ {v})
           P == {k \in 0 .. N : \A V \in UpTo(Validators, k) : PowerOK(V)}
<1>0. N \in Nat /\ \A v \in Validators : Stake[v] \in Nat
  BY ValidatorsFinite, BondedAssumption
<1>1. 0 \in P
  <2>1. \A V \in UpTo(Validators, 0) : V = {}
    <3> TAKE V \in UpTo(Validators, 0)
    <3>1. V \in SUBSET Validators /\ Cardinality(V) <= 0
      BY DEF UpTo
    <3>2. Cardinality(V) \in Nat /\ (Cardinality(V) = 0 <=> V = {})
      BY <3>1, ValidatorsFinite
    <3> QED  BY <3>1, <3>2
  <2>2. PowerOK({})
    BY PowerRecurrence
  <2>3. ASSUME NEW V \in UpTo(Validators, 0) PROVE PowerOK(V)
    <3>1. V = {}
      BY <2>1
    <3> QED  BY <2>2, <3>1
  <2> HIDE DEF PowerOK
  <2>4. 0 \in 0 .. N
    BY <1>0
  <2> QED  BY <2>3, <2>4
<1>2. ASSUME NEW k \in 0 .. (N - 1), k \in P PROVE k + 1 \in P
  <2>1. ASSUME NEW V \in UpTo(Validators, k + 1)
        PROVE  PowerOK(V)
    <3>1. V \in SUBSET Validators /\ Cardinality(V) <= k + 1 /\ k \in Nat
      BY <2>1 DEF UpTo
    <3>2. CASE V = {}
      BY <3>2, PowerRecurrence
    <3>3. CASE V # {}
      <4>0. PICK c : c = First(V)
        OBVIOUS
      <4>1. c \in V /\ Cardinality(V) \in Nat
            /\ \A v \in V : Cardinality(V \ {v}) = Cardinality(V) - 1
        BY <3>1, <3>3, <4>0, ValidatorsFinite
      <4>2. \A v \in V : V \ {v} \in UpTo(Validators, k)
        BY <3>1, <4>1 DEF UpTo
      <4>3. \A v \in V : PowerOK(V \ {v})
        BY <1>2, <4>2
      <4>4. compute_voting_power(V) = Stake[c] + compute_voting_power(V \ {c})
        BY <3>1, <3>3, <4>0, PowerRecurrence
      <4>5. compute_voting_power(V) \in Nat
        <5>1. Stake[c] \in Nat /\ compute_voting_power(V \ {c}) \in Nat
          BY <1>0, <3>1, <4>1, <4>3
        <5> QED  BY <4>4, <5>1
      <4>6. ASSUME NEW v \in V, v # c
            PROVE  compute_voting_power(V) = Stake[v] + compute_voting_power(V \ {v})
        <5>0. PICK R : R = (V \ {c}) \ {v}
          OBVIOUS
        <5>1. v \in V \ {c} /\ c \in V \ {v} /\ (V \ {v}) \ {c} = R
          BY <4>1, <4>6, <5>0
        <5>2. compute_voting_power(V \ {c}) = Stake[v] + compute_voting_power(R)
          BY <4>1, <4>3, <5>0, <5>1
        <5>3. compute_voting_power(V \ {v}) = Stake[c] + compute_voting_power(R)
          BY <4>3, <4>6, <5>1
        <5>4. compute_voting_power(R) \in Nat
          <6>1. (V \ {c}) \in UpTo(Validators, k) /\ R \in SUBSET Validators
            BY <3>1, <4>1, <4>2, <5>0
          <6>2. Cardinality(R) <= k
            <7>0. PICK S : S = V \ {c}
              OBVIOUS
            <7>1. S \in SUBSET Validators /\ v \in S /\ R = S \ {v}
                  /\ Cardinality(S) = Cardinality(V) - 1
              BY <3>1, <4>1, <5>0, <5>1, <7>0
            <7>2. Cardinality(R) = Cardinality(S) - 1
              BY <7>1, ValidatorsFinite
            <7> QED  BY <3>1, <4>1, <7>1, <7>2
          <6>3. R \in UpTo(Validators, k)
            BY <6>1, <6>2 DEF UpTo
          <6> QED  BY <1>2, <6>3
        <5>5. Stake[v] \in Nat /\ Stake[c] \in Nat
          BY <1>0, <3>1, <4>1
        <5> QED  BY <4>4, <5>2, <5>3, <5>4, <5>5
      <4> QED  BY <4>4, <4>5, <4>6
    <3> QED  BY <3>2, <3>3
  <2> HIDE DEF PowerOK
  <2> QED  BY <1>0, <2>1
<1> HIDE DEF P
<1>3. 0 .. N \subseteq P
  BY <1>0, <1>1, <1>2, InductionUpTo
<1> QED
  BY <1>0, <1>3, ValidatorsFinite DEF P, UpTo

LEMMA PowerMonotone ==
    ASSUME NEW U, NEW V, U \subseteq V, V \subseteq Validators
    PROVE  compute_voting_power(U) <= compute_voting_power(V)
<1> DEFINE N == Cardinality(Validators)
           P == {k \in 0 .. N : \A W \in UpTo(Validators, k) :
                   U \subseteq W => compute_voting_power(U) <= compute_voting_power(W)}
<1>0. N \in Nat /\ compute_voting_power(U) \in Nat
      /\ \A v \in Validators : Stake[v] \in Nat
  BY ValidatorsFinite, BondedAssumption, PowerOfOne
<1>1. 0 \in P
  <2>1. \A W \in UpTo(Validators, 0) : W = {}
    <3> TAKE W \in UpTo(Validators, 0)
    <3>1. W \in SUBSET Validators /\ Cardinality(W) <= 0
      BY DEF UpTo
    <3>2. Cardinality(W) \in Nat /\ (Cardinality(W) = 0 <=> W = {})
      BY <3>1, ValidatorsFinite
    <3> QED  BY <3>1, <3>2
  <2>2. \A W \in UpTo(Validators, 0) : U \subseteq W => U = W
    BY <2>1
  <2> QED  BY <1>0, <2>2
<1>2. ASSUME NEW k \in 0 .. (N - 1), k \in P PROVE k + 1 \in P
  <2>1. ASSUME NEW W \in UpTo(Validators, k + 1), U \subseteq W
        PROVE  compute_voting_power(U) <= compute_voting_power(W)
    <3>1. W \in SUBSET Validators /\ Cardinality(W) <= k + 1 /\ k \in Nat
      BY <2>1 DEF UpTo
    <3>2. CASE U = W
      BY <1>0, <3>2
    <3>3. CASE U # W
      <4>1. PICK v \in W : v \notin U
        BY <2>1, <3>3
      <4>0. PICK R : R = W \ {v}
        OBVIOUS
      <4>2. Cardinality(R) = Cardinality(W) - 1 /\ Cardinality(W) \in Nat
        BY <3>1, <4>0, <4>1, ValidatorsFinite
      <4>3. R \in UpTo(Validators, k) /\ U \subseteq R
        BY <2>1, <3>1, <4>0, <4>1, <4>2 DEF UpTo
      <4>4. compute_voting_power(U) <= compute_voting_power(R)
        BY <1>2, <4>3
      <4>5. compute_voting_power(W) = Stake[v] + compute_voting_power(R)
        BY <3>1, <4>0, <4>1, PowerOfOne
      <4>6. Stake[v] \in Nat /\ compute_voting_power(R) \in Nat
        BY <1>0, <3>1, <4>0, <4>1, PowerOfOne
      <4> QED  BY <1>0, <4>4, <4>5, <4>6
    <3> QED  BY <3>2, <3>3
  <2> QED  BY <1>0, <2>1
<1> HIDE DEF P
<1>3. 0 .. N \subseteq P
  BY <1>0, <1>1, <1>2, InductionUpTo
<1>4. V \in UpTo(Validators, N)
  BY ValidatorsFinite DEF UpTo
<1> QED
  BY <1>0, <1>3, <1>4 DEF P

\* A quorum with more votes is a quorum, and nobody alone with nothing is one.
LEMMA QuorumOK ==
    /\ compute_f \in Nat
    /\ \A U \in SUBSET Validators, V \in SUBSET Validators :
         U \subseteq V /\ IsQuorum(compute_voting_power(U))
           => IsQuorum(compute_voting_power(V))
    /\ ~IsQuorum(compute_voting_power({}))
    /\ \A U \in SUBSET Validators :
         IsQuorum(compute_voting_power(U)) => compute_voting_power(U) > compute_f
<1>1. compute_voting_power(Validators) \in Nat
  BY PowerOfOne
<1>2. compute_f \in Nat
  BY <1>1 DEF compute_f
<1>3. ASSUME NEW U \in SUBSET Validators, NEW V \in SUBSET Validators,
             U \subseteq V, IsQuorum(compute_voting_power(U))
      PROVE  IsQuorum(compute_voting_power(V))
  <2>1. compute_voting_power(U) <= compute_voting_power(V)
    BY <1>3, PowerMonotone
  <2>2. compute_voting_power(U) \in Nat /\ compute_voting_power(V) \in Nat
    BY PowerOfOne
  <2> QED  BY <1>2, <1>3, <2>1, <2>2 DEF IsQuorum
<1>4. ~IsQuorum(compute_voting_power({}))
  BY <1>2, PowerRecurrence DEF IsQuorum
<1>5. ASSUME NEW U \in SUBSET Validators, IsQuorum(compute_voting_power(U))
      PROVE  compute_voting_power(U) > compute_f
  <2>1. compute_voting_power(U) \in Nat
    BY PowerOfOne
  <2> QED  BY <1>2, <1>5, <2>1 DEF IsQuorum
<1> QED
  BY <1>2, <1>3, <1>4, <1>5

-----------------------------------------------------------------------------
(* Evidence only grows.                                                     *)

LEMMA MoreEvidence ==
    ASSUME NEW M, NEW N, M \subseteq N
    PROVE  /\ Proposals(M) \subseteq Proposals(N)
           /\ \A l, v : Askers(M, l, v) \subseteq Askers(N, l, v)
           /\ \A k, l : KindOK(k, l, M) => KindOK(k, l, N)
           /\ \A q, k : TimeoutOK(q, k, M) => TimeoutOK(q, k, N)
           /\ \A k : TicketOK(k, M) => TicketOK(k, N)
           /\ \A p : PrepareOK(p, M) => PrepareOK(p, N)
           /\ \A m : MessageOK(m, M) => MessageOK(m, N)
<1>1. Proposals(M) \subseteq Proposals(N)
  BY DEF Proposals, Prepares
<1>2. \A l, v : Askers(M, l, v) \subseteq Askers(N, l, v)
  BY DEF Askers, Asks
<1>3. \A k, l : KindOK(k, l, M) => KindOK(k, l, N)
  BY <1>1 DEF KindOK
<1>4. \A q, k : TimeoutOK(q, k, M) => TimeoutOK(q, k, N)
  BY <1>2, <1>3 DEF TimeoutOK
<1>5. \A k : TicketOK(k, M) => TicketOK(k, N)
  BY <1>4 DEF TicketOK
<1>6. \A p : PrepareOK(p, M) => PrepareOK(p, N)
  BY <1>1, <1>5 DEF PrepareOK
<1>7. \A m : MessageOK(m, M) => MessageOK(m, N)
  BY <1>3, <1>4, <1>5, <1>6 DEF MessageOK
<1> QED
  BY <1>1, <1>2, <1>3, <1>4, <1>5, <1>6, <1>7

LEMMA AskersType ==
    ASSUME NEW M \in SUBSET Message, NEW l, NEW v
    PROVE  Askers(M, l, v) \in SUBSET Validators
<1>1. \A m \in Message : m.type = "Timeout" => m.src \in Validators
  BY DEF Message
<1> QED
  BY <1>1 DEF Askers, Asks

LEMMA OutsType ==
    ASSUME NEW s \in State
    PROVE  Outs(s) \in SUBSET Message
<1>1. s.out \in Seq(Envelope)
  BY DEF State
<1>2. \A i \in DOMAIN s.out : s.out[i] \in Envelope
  BY <1>1
<1> QED
  BY <1>2 DEF Outs, Envelope

LEMMA MoreSound ==
    ASSUME NEW n, NEW s \in State, NEW M \in SUBSET Message, NEW N \in SUBSET Message,
           NEW C, NEW D, M \subseteq N, C \subseteq D, Sound(n, s, M, C)
    PROVE  Sound(n, s, N, D)
<1>1. RoleOK(n, s) /\ CurrentOK(s, N)
  BY MoreEvidence DEF Sound, CurrentOK
<1>2. RequestsOK(s, N)
  <2>1. RequestsOK(s, M)
    BY DEF Sound
  <2> QED  BY <2>1, MoreEvidence DEF RequestsOK
<1>3. ViewOK(s, N)
  <2>1. ViewOK(s, M)
    BY DEF Sound
  <2>2. /\ Askers(M, s.slot, s.view - 1) \subseteq Askers(N, s.slot, s.view - 1)
        /\ Askers(M, s.slot, s.view - 1) \in SUBSET Validators
        /\ Askers(N, s.slot, s.view - 1) \in SUBSET Validators
    BY MoreEvidence, AskersType
  <2> QED  BY <2>1, <2>2, QuorumOK DEF ViewOK
<1>4. HoldsOK(s, N)
  <2>1. HoldsOK(s, M)
    BY DEF Sound
  <2> QED  BY <2>1, MoreEvidence DEF HoldsOK
<1>5. ChainOK(s, D)
  BY DEF Sound, ChainOK
<1> QED
  BY <1>1, <1>2, <1>3, <1>4, <1>5 DEF Sound

-----------------------------------------------------------------------------
(* Which fields an operation changes.                                       *)

Fields == {"slot", "view", "parent", "cp", "tag", "step", "votes", "acks", "ticket",
           "bqc", "prepares", "children", "next", "reqs", "tstate", "hqc", "synced",
           "applied", "cmds", "life", "commits", "out"}

\* t differs from s in the fields F only.
Differs(s, t, F) == DOMAIN t = Fields /\ \A f \in Fields \ F : t[f] = s[f]

LEMMA StateFields ==
    ASSUME NEW s \in State
    PROVE  DOMAIN s = Fields
BY DEF State, Fields

\* What the evidence is not about.
Bookkeeping == {"step", "votes", "acks", "bqc", "children", "tstate", "synced",
                "applied", "cmds"}

\* Two states that the evidence does not tell apart.
Alike(s, t, F) == Differs(s, t, F \cup Bookkeeping)

LEMMA AlikeFields ==
    ASSUME NEW s, NEW t, NEW F, Alike(s, t, F)
    PROVE  \A f \in Fields \ (F \cup Bookkeeping) : t[f] = s[f]
BY DEF Alike, Differs

LEMMA AlikeTransitive ==
    ASSUME NEW s, NEW t, NEW u, NEW F, Alike(s, t, F), Alike(t, u, F)
    PROVE  Alike(s, u, F)
BY DEF Alike, Differs

\* Later in the life of a validator.
Progress(s, t) ==
    \/ s.slot < t.slot
    \/ s.slot = t.slot /\ s.view < t.view
    \/ /\ s.slot = t.slot /\ s.view = t.view
       /\ s.step # "StartNewSlot" => t.step # "StartNewSlot"

LEMMA ProgressTransitive ==
    ASSUME NEW s \in State, NEW t \in State, NEW u \in State,
           Progress(s, t), Progress(t, u)
    PROVE  Progress(s, u)
<1>1. /\ s.slot \in Nat /\ t.slot \in Nat /\ u.slot \in Nat
      /\ s.view \in Nat /\ t.view \in Nat /\ u.view \in Nat
  BY DEF State
<1> QED
  BY <1>1 DEF Progress

LEMMA BehindProgress ==
    ASSUME NEW s \in State, NEW t \in State, Progress(s, t),
           NEW p, p.prop.slot \in Nat, p.view \in Nat, Behind(p, s)
    PROVE  Behind(p, t)
<1>1. s.slot \in Nat /\ t.slot \in Nat /\ s.view \in Nat /\ t.view \in Nat
  BY DEF State
<1> QED
  BY <1>1 DEF Progress, Behind

\* What a handler must do: s is its validator's state, t the state it leaves.
Fine(n, s, t, M, C) == Midway(n, t, M, C) /\ Progress(s, t)

LEMMA FineTransitive ==
    ASSUME NEW s \in State, NEW t \in State, NEW u \in State, NEW n, NEW M, NEW C,
           Fine(n, s, t, M, C), Fine(n, t, u, M, C)
    PROVE  Fine(n, s, u, M, C)
BY ProgressTransitive DEF Fine

-----------------------------------------------------------------------------
(* The operations that handlers are made of.                                *)

\* Nothing was sent or committed: the evidence is the same.
LEMMA LocalFine ==
    ASSUME NEW s, NEW t, NEW n, NEW M, NEW C, Midway(n, s, M, C),
           t.out = s.out, t.commits = s.commits,
           Sound(n, t, M \cup Outs(s), C \cup CertifiedBy(s))
    PROVE  Midway(n, t, M, C)
<1>1. Outs(t) = Outs(s) /\ CertifiedBy(t) = CertifiedBy(s)
  BY DEF Outs, CertifiedBy
<1> QED
  BY <1>1 DEF Midway, SentOK

LEMMA AlikeSound ==
    ASSUME NEW s, NEW t, Alike(s, t, {}), NEW n, NEW M, NEW C, Sound(n, s, M, C)
    PROVE  Sound(n, t, M, C)
<1>1. /\ t.slot = s.slot /\ t.view = s.view /\ t.parent = s.parent /\ t.cp = s.cp
      /\ t.tag = s.tag /\ t.ticket = s.ticket /\ t.prepares = s.prepares
      /\ t.next = s.next /\ t.reqs = s.reqs /\ t.hqc = s.hqc /\ t.life = s.life
      /\ t.commits = s.commits /\ t.out = s.out
  BY AlikeFields DEF Fields, Bookkeeping
<1> QED
  BY <1>1 DEF Sound, RoleOK, CurrentOK, RequestsOK, HasPrepareQCForSlot, ViewOK,
              HoldsOK, ChainOK

LEMMA AlikeFine ==
    ASSUME NEW s, NEW t, Alike(s, t, {}), NEW n, NEW M, NEW C, Midway(n, s, M, C),
           s.step # "StartNewSlot" => t.step # "StartNewSlot"
    PROVE  Fine(n, s, t, M, C)
<1>1. t.slot = s.slot /\ t.view = s.view /\ t.out = s.out /\ t.commits = s.commits
  BY AlikeFields DEF Fields, Bookkeeping
<1>2. Midway(n, t, M, C)
  <2>1. PICK N : N = M \cup Outs(s)
    OBVIOUS
  <2>2. PICK D : D = C \cup CertifiedBy(s)
    OBVIOUS
  <2>3. Sound(n, s, N, D)
    BY <2>1, <2>2 DEF Midway
  <2>4. Sound(n, t, N, D)
    BY <2>3, AlikeSound
  <2> QED  BY <1>1, <2>1, <2>2, <2>4, LocalFine
<1> QED
  BY <1>1, <1>2 DEF Fine, Progress

\* A message that is true by what was sent before it, or by itself.
LEMMA SendFine ==
    ASSUME NEW s \in State, NEW n \in Validators, NEW M \in SUBSET Message, NEW C,
           Midway(n, s, M, C), NEW to \in SUBSET Validators, NEW m \in Message,
           m.type # "Prepare", MessageOK(m, (M \cup Outs(s)) \cup {m})
    PROVE  LET t == Send(n, s, to, m)
           IN  /\ Fine(n, s, t, M, C) /\ Outs(t) = Outs(s) \cup {m}
               /\ Alike(s, t, {"out"})
<1> DEFINE e == [to |-> to \ {n}, msg |-> m]
           o == Append(s.out, e)
           t == Send(n, s, to, m)
<1>1. s.out \in Seq(Envelope) /\ e \in Envelope
  BY DEF State, Envelope
<1>2. DOMAIN s = Fields
  BY StateFields
<1>3. /\ DOMAIN t = Fields /\ t.out = o
      /\ \A f \in Fields \ {"out"} : t[f] = s[f]
  BY <1>2 DEF Send, Fields
<1>4. t \in State
  BY SendType
<1>5. Outs(t) = Outs(s) \cup {m}
  <2>1. e.msg = m
    OBVIOUS
  <2> HIDE DEF e, t
  <2>2. /\ DOMAIN o = DOMAIN s.out \cup {Len(s.out) + 1}
        /\ o[Len(s.out) + 1] = e /\ \A i \in DOMAIN s.out : o[i] = s.out[i]
    BY <1>1
  <2> HIDE DEF o
  <2> QED  BY <1>3, <2>1, <2>2 DEF Outs
<1> HIDE DEF t
<1>6. Alike(s, t, {"out"}) /\ t.commits = s.commits /\ t.step = s.step
      /\ t.slot = s.slot /\ t.view = s.view
  BY <1>3 DEF Alike, Differs, Fields
<1>7. PICK N : N = M \cup Outs(s)
  OBVIOUS
<1>8. PICK K : K = N \cup {m}
  OBVIOUS
<1>9. /\ N \in SUBSET Message /\ K \in SUBSET Message /\ N \subseteq K
      /\ K = M \cup Outs(t)
  BY <1>5, <1>7, <1>8, OutsType
<1>10. PICK D : D = C \cup CertifiedBy(s)
  OBVIOUS
<1>11. CertifiedBy(t) = CertifiedBy(s)
  BY <1>6 DEF CertifiedBy
<1>12. Sound(n, t, K, D)
  <2>1. Sound(n, s, N, D)
    BY <1>7, <1>10 DEF Midway
  <2>2. Sound(n, s, K, D)
    BY <1>9, <2>1, MoreSound
  <2>3. /\ t.slot = s.slot /\ t.view = s.view /\ t.parent = s.parent /\ t.cp = s.cp
        /\ t.tag = s.tag /\ t.ticket = s.ticket /\ t.prepares = s.prepares
        /\ t.next = s.next /\ t.reqs = s.reqs /\ t.hqc = s.hqc /\ t.life = s.life
        /\ t.commits = s.commits
    BY <1>3 DEF Fields
  <2> QED
    BY <2>2, <2>3 DEF Sound, RoleOK, CurrentOK, RequestsOK, HasPrepareQCForSlot,
                      ViewOK, HoldsOK, ChainOK
<1>13. SentOK(t, K)
  <2>1. \A x \in Outs(s) : x.type # "Prepare" /\ MessageOK(x, N)
    BY <1>7 DEF Midway, SentOK
  <2>2. \A x \in Outs(s) : MessageOK(x, K)
    BY <1>9, <2>1, MoreEvidence
  <2> QED  BY <1>5, <1>7, <1>8, <2>1, <2>2 DEF SentOK
<1>14. Midway(n, t, M, C)
  BY <1>9, <1>10, <1>11, <1>12, <1>13 DEF Midway
<1> QED
  BY <1>5, <1>6, <1>14 DEF Fine, Progress, t

LEMMA BroadcastFine ==
    ASSUME NEW s \in State, NEW n \in Validators, NEW M \in SUBSET Message, NEW C,
           Midway(n, s, M, C), NEW m \in Message,
           m.type # "Prepare", MessageOK(m, (M \cup Outs(s)) \cup {m})
    PROVE  LET t == Broadcast(n, s, m)
           IN  /\ Fine(n, s, t, M, C) /\ Outs(t) = Outs(s) \cup {m}
               /\ Alike(s, t, {"out"})
<1>1. Validators \in SUBSET Validators
  OBVIOUS
<1> QED
  BY <1>1, SendFine DEF Broadcast

\* No handler but start_round adds a proposal.
LEMMA SameProposals ==
    ASSUME NEW n, NEW s, NEW M, NEW C, Midway(n, s, M, C)
    PROVE  Proposals(M \cup Outs(s)) = Proposals(M)
BY DEF Midway, SentOK, Proposals, Prepares

LEMMA PushFine ==
    ASSUME NEW s \in State, NEW n \in Validators, NEW M \in SUBSET Message, NEW C,
           Midway(n, s, M, C), NEW p \in Prepare, PrepareOK(p, M \cup Outs(s))
    PROVE  LET t == push(s, p)
           IN  Fine(n, s, t, M, C) /\ Alike(s, t, {"prepares"}) /\ t.step = s.step
<1> DEFINE t == push(s, p)
<1>2. DOMAIN s = Fields
  BY StateFields
<1>3. /\ DOMAIN t = Fields
      /\ t.prepares = {q \in s.prepares : hashed(q.prop) # hashed(p.prop)} \cup {p}
      /\ \A f \in Fields \ {"prepares", "children"} : t[f] = s[f]
  BY <1>2 DEF push, Fields
<1> HIDE DEF t
<1>4. /\ t.slot = s.slot /\ t.view = s.view /\ t.parent = s.parent /\ t.cp = s.cp
      /\ t.tag = s.tag /\ t.ticket = s.ticket /\ t.next = s.next /\ t.reqs = s.reqs
      /\ t.hqc = s.hqc /\ t.life = s.life /\ t.commits = s.commits /\ t.out = s.out
      /\ t.step = s.step
  BY <1>3 DEF Fields
<1>5. Alike(s, t, {"prepares"})
  BY <1>3 DEF Alike, Differs, Bookkeeping
<1>6. PICK N : N = M \cup Outs(s)
  OBVIOUS
<1>7. PICK D : D = C \cup CertifiedBy(s)
  OBVIOUS
<1>8. Sound(n, s, N, D)
  BY <1>6, <1>7 DEF Midway
<1>9. HoldsOK(t, N)
  BY <1>3, <1>4, <1>6, <1>8 DEF Sound, HoldsOK
<1>10. Sound(n, t, N, D)
  BY <1>4, <1>8, <1>9 DEF Sound, RoleOK, CurrentOK, RequestsOK, HasPrepareQCForSlot,
                         ViewOK, ChainOK
<1>11. Midway(n, t, M, C)
  BY <1>4, <1>6, <1>7, <1>10, LocalFine
<1> QED
  BY <1>4, <1>5, <1>11 DEF Fine, Progress, t

\* Which round a ticket leads to, and who leads it.
LEMMA AdvanceFields ==
    ASSUME NEW s \in State, NEW n \in Validators, NEW ticket \in AnyTicket,
           s.tag # "Joining"
    PROVE  LET t == advance_round(n, s, ticket)
           IN  /\ t \in State /\ t.step = "StartNewSlot" /\ t.reqs = {}
               /\ t.tag # "Joining" /\ t.votes = {} /\ t.acks = {}
               /\ t.tag = "Leader" <=> round_leader(t.slot, t.view) = n
               /\ t.ticket \in {None, ticket}
               /\ t.ticket # None => t.tag = "Leader"
               /\ t.hqc = s.hqc /\ t.prepares = s.prepares /\ t.next = s.next
               /\ t.life = s.life /\ t.commits = s.commits /\ t.out = s.out
               /\ ticket.type = "TimeoutQC" =>
                    /\ t.slot = s.slot /\ t.view = s.view + 1
                    /\ t.parent = s.parent /\ t.cp = s.cp
               /\ ticket.type # "TimeoutQC" =>
                    /\ t.slot = s.slot + 1 /\ t.view = 0
                    /\ t.parent = hashed(s.cp) /\ t.cp.slot = s.cp.slot
<1> DEFINE reset == [s EXCEPT !.step = "StartNewSlot", !.votes = {}, !.acks = {},
                              !.ticket = None, !.reqs = {}]
           viewed == [reset EXCEPT !.view = @ + 1, !.bqc = None]
           slotted == [reset EXCEPT !.slot = @ + 1, !.view = 0,
                                    !.parent = hashed(s.cp),
                                    !.bqc = IF ticket.type = "CommitQC"
                                            THEN ticket.qc ELSE None,
                                    !.cp.fees = FALSE]
           r == IF ticket.type = "TimeoutQC" THEN viewed ELSE slotted
           a == apply_ticket(n, s, ticket)
           t == advance_round(n, s, ticket)
           kept == {"hqc", "prepares", "next", "life", "commits", "out"}
<1>1. DOMAIN s = Fields
  BY StateFields
<1>2. /\ DOMAIN reset = Fields /\ reset.step = "StartNewSlot" /\ reset.ticket = None
      /\ reset.reqs = {} /\ reset.votes = {} /\ reset.acks = {}
      /\ \A f \in Fields \ {"step", "votes", "acks", "ticket", "reqs"} : reset[f] = s[f]
  BY <1>1 DEF Fields
<1>3. a = EnterRound(n, r)
  BY DEF apply_ticket
<1> HIDE DEF reset
<1>4. /\ DOMAIN viewed = Fields /\ viewed.view = reset.view + 1
      /\ \A f \in Fields \ {"view", "bqc"} : viewed[f] = reset[f]
  BY <1>2 DEF Fields
<1>5. /\ DOMAIN slotted = Fields /\ slotted.slot = reset.slot + 1 /\ slotted.view = 0
      /\ slotted.parent = hashed(s.cp)
      /\ slotted.cp = [reset.cp EXCEPT !.fees = FALSE]
      /\ \A f \in Fields \ {"slot", "view", "parent", "bqc", "cp"} : slotted[f] = reset[f]
  BY <1>2 DEF Fields
<1> HIDE DEF viewed, slotted
<1>6. /\ DOMAIN r = Fields /\ r.step = "StartNewSlot" /\ r.ticket = None /\ r.reqs = {}
      /\ r.votes = {} /\ r.acks = {}
      /\ \A f \in kept : r[f] = s[f]
  BY <1>2, <1>4, <1>5 DEF Fields
<1>7. ticket.type = "TimeoutQC" =>
        /\ r.slot = s.slot /\ r.view = s.view + 1 /\ r.parent = s.parent /\ r.cp = s.cp
  BY <1>2, <1>4 DEF Fields
<1>8. ticket.type # "TimeoutQC" =>
        /\ r.slot = s.slot + 1 /\ r.view = 0 /\ r.parent = hashed(s.cp)
        /\ r.cp.slot = s.cp.slot
  <2>1. s.cp \in Prop /\ reset.cp = s.cp /\ reset.slot = s.slot
    BY <1>2 DEF State, Fields
  <2>2. [reset.cp EXCEPT !.fees = FALSE].slot = s.cp.slot
    BY <2>1 DEF Prop
  <2> QED  BY <1>5, <2>1, <2>2
<1> HIDE DEF r
<1>9. /\ DOMAIN a = Fields /\ \A f \in Fields \ {"tag", "tstate"} : a[f] = r[f]
      /\ a.tag = IF round_leader(r.slot, r.view) = n THEN "Leader" ELSE "Follower"
  BY <1>3, <1>6 DEF EnterRound, Fields
<1> HIDE DEF a
<1>10. /\ DOMAIN t = Fields /\ t.ticket \in {None, ticket}
       /\ t.ticket # None => a.tag = "Leader"
       /\ \A f \in Fields \ {"ticket", "cmds"} : t[f] = a[f]
  <2>1. a.ticket = None
    BY <1>6, <1>9 DEF Fields
  <2> QED  BY <1>9, <2>1 DEF advance_round, Fields, a
<1>11. t \in State
  BY AdvanceRound
<1> HIDE DEF t
<1>12. /\ t.step = r.step /\ t.reqs = r.reqs /\ t.votes = r.votes /\ t.acks = r.acks
       /\ t.slot = r.slot /\ t.view = r.view
       /\ t.parent = r.parent /\ t.cp = r.cp /\ t.hqc = r.hqc /\ t.prepares = r.prepares
       /\ t.next = r.next /\ t.life = r.life /\ t.commits = r.commits /\ t.out = r.out
       /\ t.tag = IF round_leader(r.slot, r.view) = n THEN "Leader" ELSE "Follower"
       /\ t.ticket # None => t.tag = "Leader"
  BY <1>9, <1>10 DEF Fields
<1>13. /\ t.step = "StartNewSlot" /\ t.reqs = {} /\ t.tag # "Joining"
       /\ t.votes = {} /\ t.acks = {}
       /\ t.tag = "Leader" <=> round_leader(t.slot, t.view) = n
       /\ t.hqc = s.hqc /\ t.prepares = s.prepares /\ t.next = s.next
       /\ t.life = s.life /\ t.commits = s.commits /\ t.out = s.out
  BY <1>6, <1>12
<1> QED
  BY <1>7, <1>8, <1>10, <1>11, <1>12, <1>13 DEF t

\* A view change on the word of a quorum.
LEMMA ViewFine ==
    ASSUME NEW s \in State, NEW n \in Validators, NEW M \in SUBSET Message, NEW C,
           Midway(n, s, M, C), NEW ticket \in Ticket, ticket.type = "TimeoutQC",
           TicketOK(ticket, M \cup Outs(s)),
           IsQuorum(compute_voting_power(Askers(M \cup Outs(s), s.slot, s.view)))
    PROVE  LET t == advance_round(n, s, ticket)
           IN  t \in State /\ Fine(n, s, t, M, C) /\ Outs(t) = Outs(s)
<1>0. PICK t : t = advance_round(n, s, ticket)
  OBVIOUS
<1>1. PICK N : N = M \cup Outs(s)
  OBVIOUS
<1>2. PICK D : D = C \cup CertifiedBy(s)
  OBVIOUS
<1>3. Sound(n, s, N, D)
  BY <1>1, <1>2 DEF Midway
<1>4. s.tag # "Joining" /\ s.view \in Nat /\ s.slot \in Nat
  BY <1>3 DEF Sound, RoleOK, State
<1>5. /\ t \in State /\ t.step = "StartNewSlot" /\ t.reqs = {} /\ t.tag # "Joining"
      /\ t.tag = "Leader" <=> round_leader(t.slot, t.view) = n
      /\ t.ticket \in {None, ticket}
      /\ t.hqc = s.hqc /\ t.prepares = s.prepares /\ t.next = s.next
      /\ t.life = s.life /\ t.commits = s.commits /\ t.out = s.out
      /\ t.slot = s.slot /\ t.view = s.view + 1
      /\ t.parent = s.parent /\ t.cp = s.cp
  <2>1. ticket \in AnyTicket
    BY DEF AnyTicket
  <2> QED  BY <1>0, <1>4, <2>1, AdvanceFields
<1>6. RoleOK(n, t) /\ CurrentOK(t, N) /\ RequestsOK(t, N) /\ ChainOK(t, D)
  BY <1>3, <1>5 DEF Sound, RoleOK, CurrentOK, RequestsOK, ChainOK
<1>7. ViewOK(t, N)
  <2>1. t.view - 1 = s.view
    BY <1>4, <1>5
  <2> QED  BY <1>1, <1>5, <2>1 DEF ViewOK
<1>8. HoldsOK(t, N)
  BY <1>1, <1>3, <1>5 DEF Sound, HoldsOK
<1>9. Sound(n, t, N, D)
  BY <1>6, <1>7, <1>8 DEF Sound
<1>10. Midway(n, t, M, C)
  BY <1>1, <1>2, <1>5, <1>9, LocalFine
<1>11. Outs(t) = Outs(s) /\ Progress(s, t)
  BY <1>4, <1>5 DEF Outs, Progress
<1> QED
  BY <1>0, <1>5, <1>10, <1>11 DEF Fine

\* A commit, with a certificate or of a proposal that has one elsewhere.
LEMMA CommitFine ==
    ASSUME NEW s \in State, NEW n \in Validators, NEW M \in SUBSET Message, NEW C,
           Midway(n, s, M, C), NEW qc \in QC, NEW ticket \in AnyTicket,
           ticket.type # "TimeoutQC", current_slot_prepare_is_present(s),
           qc # EmptyQC \/ s.cp \in C
    PROVE  Fine(n, s, advance_round(n, emit_commit_event(s, qc), ticket), M, C)
<1> DEFINE c == [prop |-> s.cp, qc |-> qc]
           cs == Append(s.commits, c)
           e == emit_commit_event(s, qc)
<1>0. PICK t : t = advance_round(n, e, ticket)
  OBVIOUS
<1>1. PICK N : N = M \cup Outs(s)
  OBVIOUS
<1>2. PICK D : D = C \cup CertifiedBy(s)
  OBVIOUS
<1>3. Sound(n, s, N, D)
  BY <1>1, <1>2 DEF Midway
<1>4. s.tag # "Joining" /\ s.view \in Nat /\ s.slot \in Nat /\ s.cp.slot = s.slot
      /\ s.commits \in Seq(Committed) /\ s.cp \in Prop
  BY <1>3 DEF Sound, RoleOK, State, current_slot_prepare_is_present
<1>5. c \in Committed /\ c.prop = s.cp /\ c.qc = qc
  BY <1>4 DEF Committed
<1> HIDE DEF c
<1>6. /\ cs \in Seq(Committed) /\ DOMAIN cs = DOMAIN s.commits \cup {Len(s.commits) + 1}
      /\ cs[Len(s.commits) + 1] = c /\ \A i \in DOMAIN s.commits : cs[i] = s.commits[i]
  BY <1>4, <1>5
<1>7. DOMAIN s = Fields
  BY StateFields
<1>8. e = [s EXCEPT !.commits = cs]
  BY DEF emit_commit_event, c
<1> HIDE DEF cs, e
<1>9. e \in State /\ DOMAIN e = Fields /\ e.commits = cs
      /\ \A f \in Fields \ {"commits"} : e[f] = s[f]
  <2>1. e \in State
    BY <1>6, <1>8 DEF State
  <2> QED  BY <1>7, <1>8, <2>1 DEF Fields
<1>10. /\ e.tag # "Joining" /\ e.slot = s.slot /\ e.view = s.view /\ e.cp = s.cp
       /\ e.hqc = s.hqc /\ e.prepares = s.prepares /\ e.next = s.next
       /\ e.life = s.life /\ e.out = s.out
  BY <1>4, <1>9 DEF Fields
<1>11. /\ t \in State /\ t.step = "StartNewSlot" /\ t.reqs = {} /\ t.tag # "Joining"
       /\ t.tag = "Leader" <=> round_leader(t.slot, t.view) = n
       /\ t.ticket \in {None, ticket}
       /\ t.hqc = e.hqc /\ t.prepares = e.prepares /\ t.next = e.next
       /\ t.life = e.life /\ t.commits = e.commits /\ t.out = e.out
       /\ t.slot = e.slot + 1 /\ t.view = 0
       /\ t.parent = hashed(e.cp) /\ t.cp.slot = e.cp.slot
  BY <1>0, <1>9, <1>10, AdvanceFields
<1>12. CertifiedBy(s) \subseteq CertifiedBy(t) /\ CertifiedBy(t) \subseteq CertifiedBy(s) \cup {s.cp}
       /\ (qc # EmptyQC => s.cp \in CertifiedBy(t))
  BY <1>5, <1>6, <1>9, <1>11 DEF CertifiedBy
<1>13. PICK E : E = C \cup CertifiedBy(t)
  OBVIOUS
<1>14. s.cp \in E /\ D \subseteq E
  BY <1>2, <1>12, <1>13
<1>15. RoleOK(n, t)
  BY <1>3, <1>4, <1>10, <1>11 DEF Sound, RoleOK
<1>16. CurrentOK(t, N)
  BY <1>4, <1>10, <1>11 DEF CurrentOK
<1>17. RequestsOK(t, N) /\ ViewOK(t, N)
  <2>1. s.hqc # None => s.hqc.slot <= s.slot /\ s.hqc.slot \in Nat
    BY <1>3 DEF Sound, RequestsOK, State, HighestQC
  <2> QED  BY <1>4, <1>10, <1>11, <2>1 DEF RequestsOK, ViewOK
<1>18. HoldsOK(t, N)
  <2>1. TicketOK(ticket, N)
    BY DEF TicketOK
  <2> QED  BY <1>3, <1>10, <1>11, <2>1 DEF Sound, HoldsOK
<1>19. ChainOK(t, E)
  <2>1. \A i \in DOMAIN s.commits : s.commits[i].prop \in D
    BY <1>3 DEF Sound, ChainOK
  <2>2. \A i \in DOMAIN t.commits : t.commits[i].prop \in E
    BY <1>5, <1>6, <1>9, <1>11, <1>14, <2>1
  <2> QED  BY <1>10, <1>11, <1>14, <2>2 DEF ChainOK
<1>20. Sound(n, t, N, E)
  BY <1>15, <1>16, <1>17, <1>18, <1>19 DEF Sound
<1>21. Outs(t) = Outs(s)
  BY <1>10, <1>11 DEF Outs
<1>22. SentOK(t, N)
  BY <1>1, <1>21 DEF Midway, SentOK
<1>23. CertifiedBy(t) \subseteq Proposals(M)
  <2>1. s.cp \in Proposals(N)
    BY <1>3, <1>4 DEF Sound, CurrentOK
  <2>2. Proposals(N) = Proposals(M)
    BY <1>1, SameProposals
  <2> QED  BY <1>12, <2>1, <2>2 DEF Midway
<1>24. Midway(n, t, M, C)
  BY <1>1, <1>13, <1>20, <1>21, <1>22, <1>23 DEF Midway
<1>25. Progress(s, t)
  BY <1>4, <1>10, <1>11 DEF Progress
<1> QED
  BY <1>0, <1>24, <1>25 DEF Fine, e

\* A certificate of a quorum is not the empty one.
LEMMA CommitQCFine ==
    ASSUME NEW s \in State, NEW n \in Validators, NEW M \in SUBSET Message, NEW C,
           Midway(n, s, M, C), NEW qc \in QC, current_slot_prepare_is_present(s),
           qc # EmptyQC
    PROVE  Fine(n, s, CommitAndAdvance(n, s, qc), M, C)
<1>1. CommitTicket(qc) \in AnyTicket /\ CommitTicket(qc).type # "TimeoutQC"
  BY DEF CommitTicket, AnyTicket, Ticket
<1> QED
  BY <1>1, CommitFine DEF CommitAndAdvance

LEMMA NotEmpty ==
    ASSUME NEW marker, NEW hash, NEW qc, verify_quorum_certificate(marker, hash, qc)
    PROVE  qc # EmptyQC
<1>1. EmptyQC.signers = {}
  BY DEF EmptyQC, QuorumCertificate
<1> QED
  BY <1>1, QuorumOK DEF verify_quorum_certificate

-----------------------------------------------------------------------------
(* Timeouts.                                                                *)

\* A proposal that comes with a prepare certificate of the slot is adopted.
LEMMA AdoptFine ==
    ASSUME NEW s \in State, NEW n \in Validators, NEW M \in SUBSET Message, NEW C,
           Midway(n, s, M, C), NEW kind \in Kind, kind # NilProposal,
           kind.prop.slot = s.slot, kind.prop \in Proposals(M \cup Outs(s))
    PROVE  LET t == AdoptPrepareQC(s, s.slot, kind)
           IN  /\ Fine(n, s, t, M, C) /\ Outs(t) = Outs(s)
               /\ HasPrepareQCForSlot(t) /\ t.reqs = s.reqs /\ t.tstate = s.tstate
               /\ t.slot = s.slot /\ t.view = s.view /\ t.parent = s.parent
               /\ t.tag = s.tag
<1> DEFINE h == [slot |-> s.slot, qc |-> kind.qc]
           t == [s EXCEPT !.hqc = h, !.cp = kind.prop]
<1>1. PICK N : N = M \cup Outs(s)
  OBVIOUS
<1>2. PICK D : D = C \cup CertifiedBy(s)
  OBVIOUS
<1>3. Sound(n, s, N, D)
  BY <1>1, <1>2 DEF Midway
<1>4. s.slot \in Nat /\ kind.qc \in QC /\ kind.prop \in Prop
  BY DEF State, Kind
<1>5. AdoptPrepareQC(s, s.slot, kind) = t
  <2>1. IsHighest(s, s.slot)
    BY <1>3 DEF Sound, RequestsOK, IsHighest
  <2> QED  BY <2>1 DEF AdoptPrepareQC, update_highest_seen_prepare_qc
<1>6. h \in HighestQC /\ h # None /\ h.slot = s.slot
  BY <1>4, NoneAssumption DEF HighestQC
<1>7. DOMAIN s = Fields
  BY StateFields
<1> HIDE DEF h
<1>8. /\ DOMAIN t = Fields /\ t.hqc = h /\ t.cp = kind.prop
      /\ \A f \in Fields \ {"hqc", "cp"} : t[f] = s[f]
  BY <1>7 DEF Fields
<1> HIDE DEF t
<1>9. /\ t.slot = s.slot /\ t.view = s.view /\ t.parent = s.parent /\ t.step = s.step
      /\ t.tag = s.tag /\ t.ticket = s.ticket /\ t.prepares = s.prepares
      /\ t.next = s.next /\ t.reqs = s.reqs /\ t.life = s.life
      /\ t.commits = s.commits /\ t.out = s.out /\ t.tstate = s.tstate
  BY <1>8 DEF Fields
<1>10. HasPrepareQCForSlot(t)
  BY <1>6, <1>8, <1>9 DEF HasPrepareQCForSlot
<1>11. RequestsOK(t, N)
  BY <1>3, <1>4, <1>6, <1>8, <1>9, <1>10 DEF Sound, RequestsOK
<1>12. CurrentOK(t, N)
  BY <1>1, <1>8 DEF CurrentOK
<1>13. RoleOK(n, t) /\ ViewOK(t, N) /\ HoldsOK(t, N) /\ ChainOK(t, D)
  BY <1>3, <1>9 DEF Sound, RoleOK, ViewOK, HoldsOK, ChainOK
<1>14. Sound(n, t, N, D)
  BY <1>11, <1>12, <1>13 DEF Sound
<1>15. Midway(n, t, M, C)
  BY <1>1, <1>2, <1>9, <1>14, LocalFine
<1>16. Outs(t) = Outs(s) /\ Progress(s, t)
  BY <1>9 DEF Outs, Progress
<1> QED
  BY <1>5, <1>9, <1>10, <1>15, <1>16 DEF Fine

\* The proposal of a timeout request that is not nil was proposed.
LEMMA KindFine ==
    ASSUME NEW n, NEW s, NEW M, CurrentOK(s, M)
    PROVE  /\ KindOK(TimeoutKind(s), s.slot, M)
           /\ MessageOK(get_timeout_message(n, s), M)
           /\ get_timeout_message(n, s).type = "Timeout"
           /\ get_timeout_message(n, s).view = s.view
<1>1. KindOK(TimeoutKind(s), s.slot, M)
  BY DEF CurrentOK, KindOK, TimeoutKind, NilProposal
<1>2. LET m == get_timeout_message(n, s)
      IN  /\ m.type = "Timeout" /\ m.slot = s.slot /\ m.kind = TimeoutKind(s)
          /\ m.view = s.view
  BY DEF get_timeout_message
<1> QED
  BY <1>1, <1>2 DEF MessageOK

\* The requests registered so far.
Requesters(s) == {r.src : r \in s.reqs}

\* The request r of the current view of s was made.
Asked(r, s, M) ==
    /\ r.src \in Askers(M, s.slot, s.view)
    /\ r.kind # NilProposal => HasPrepareQCForSlot(s)

\* t is s with the request r registered.
Gains(s, t, r) ==
    Differs(s, t, {"reqs", "tstate"}) /\ t.reqs = s.reqs \cup {r}

\* Registering requests that were made.
LEMMA RequestFine ==
    ASSUME NEW s \in State, NEW n \in Validators, NEW M \in SUBSET Message, NEW C,
           Midway(n, s, M, C), NEW r, NEW t,
           Asked(r, s, M \cup Outs(s)), Gains(s, t, r)
    PROVE  /\ Fine(n, s, t, M, C)
           /\ t.slot = s.slot /\ t.view = s.view /\ t.parent = s.parent
           /\ t.tag = s.tag
<1>1. PICK N : N = M \cup Outs(s)
  OBVIOUS
<1>2. PICK D : D = C \cup CertifiedBy(s)
  OBVIOUS
<1>3. Sound(n, s, N, D)
  BY <1>1, <1>2 DEF Midway
<1>5. t.reqs = s.reqs \cup {r} /\ \A f \in Fields \ {"reqs", "tstate"} : t[f] = s[f]
  BY DEF Gains, Differs
<1>6. /\ t.slot = s.slot /\ t.view = s.view /\ t.parent = s.parent /\ t.step = s.step
      /\ t.tag = s.tag /\ t.ticket = s.ticket /\ t.prepares = s.prepares
      /\ t.next = s.next /\ t.hqc = s.hqc /\ t.life = s.life /\ t.cp = s.cp
      /\ t.commits = s.commits /\ t.out = s.out
  BY <1>5 DEF Fields
<1>7. RequestsOK(t, N)
  BY <1>1, <1>3, <1>5, <1>6 DEF Sound, RequestsOK, HasPrepareQCForSlot, Asked
<1>8. Sound(n, t, N, D)
  BY <1>3, <1>6, <1>7 DEF Sound, RoleOK, CurrentOK, ViewOK, HoldsOK, ChainOK
<1>9. Midway(n, t, M, C)
  BY <1>1, <1>2, <1>6, <1>8, LocalFine
<1> QED
  BY <1>5, <1>6, <1>9 DEF Fine, Progress, Outs

\* Joining a mutiny; a quorum of requests has ours among them.
LEMMA MutinyFine ==
    ASSUME NEW s \in State, NEW n \in Validators, NEW M \in SUBSET Message, NEW C,
           Midway(n, s, M, C)
    PROVE  LET t == JoinMutiny(n, s)
           IN  /\ t \in State /\ Fine(n, s, t, M, C)
               /\ t.slot = s.slot /\ t.view = s.view /\ t.parent = s.parent
               /\ t.tag = s.tag
               /\ IsQuorum(compute_voting_power(Requesters(t))) => n \in Requesters(t)
<1> DEFINE own == get_timeout_message(n, s)
           b == Broadcast(n, s, own)
           r == [src |-> n, kind |-> own.kind]
           j == [b EXCEPT !.reqs = @ \cup {r}, !.tstate = "Scheduled"]
<1>0. PICK t : t = JoinMutiny(n, s)
  OBVIOUS
<1>1. Sound(n, s, M \cup Outs(s), C \cup CertifiedBy(s))
  BY DEF Midway
<1>2. /\ own \in Message /\ own.type = "Timeout" /\ own.src = n /\ own.slot = s.slot
      /\ own.view = s.view /\ own.kind = TimeoutKind(s)
      /\ MessageOK(own, M \cup Outs(s))
  BY <1>1, TimeoutMessage, KindFine DEF Sound
<1>3. t \in State
  BY <1>0, JoinMutinyOK
<1>4. Requesters(s) \in SUBSET Validators
  BY DEF Requesters, State, Requests
<1>5. CASE compute_voting_power(Requesters(s)) > compute_f /\ n \notin Requesters(s)
  <2>1. t = j
    BY <1>0, <1>5 DEF JoinMutiny, Requesters
  <2> HIDE DEF own
  <2>2. MessageOK(own, (M \cup Outs(s)) \cup {own})
    BY <1>2, MoreEvidence
  <2>3. /\ Fine(n, s, b, M, C) /\ Outs(b) = Outs(s) \cup {own} /\ Alike(s, b, {"out"})
    <3>1. PICK y : y = Broadcast(n, s, own)
      OBVIOUS
    <3>2. own \in Message /\ own.type # "Prepare"
      BY <1>2
    <3>3. /\ Fine(n, s, y, M, C) /\ Outs(y) = Outs(s) \cup {own}
          /\ Alike(s, y, {"out"})
      BY <2>2, <3>1, <3>2, BroadcastFine
    <3> QED  BY <3>1, <3>3
  <2>4. b \in State
    BY <1>2, SendType
  <2>5. /\ b.slot = s.slot /\ b.view = s.view /\ b.hqc = s.hqc /\ b.tag = s.tag
        /\ b.parent = s.parent
    BY <2>3, AlikeFields DEF Fields, Bookkeeping
  <2> HIDE DEF b
  <2>6. r.src \in Askers(M \cup Outs(b), b.slot, b.view)
    BY <1>2, <2>3, <2>5 DEF Askers, Asks
  <2>7. r.kind # NilProposal => HasPrepareQCForSlot(b)
    BY <1>2, <2>5 DEF TimeoutKind, HasPrepareQCForSlot
  <2>8. Midway(n, b, M, C)
    BY <2>3 DEF Fine
  <2>9. r.src = n
    OBVIOUS
  <2>14. Asked(r, b, M \cup Outs(b))
    BY <2>6, <2>7 DEF Asked
  <2>13. Gains(b, t, r)
    <3>1. DOMAIN b = Fields
      BY <2>4, StateFields
    <3> QED  BY <2>1, <3>1 DEF Gains, Differs, Fields
  <2> HIDE DEF r, j
  <2>10. /\ Fine(n, b, t, M, C) /\ t.reqs = b.reqs \cup {r} /\ t.tag = b.tag
         /\ t.slot = b.slot /\ t.view = b.view /\ t.parent = b.parent
    <3>1. t.reqs = b.reqs \cup {r}
      BY <2>13 DEF Gains
    <3> QED  BY <2>4, <2>8, <2>13, <2>14, <3>1, RequestFine
  <2>11. Fine(n, s, t, M, C)
    BY <1>3, <2>3, <2>4, <2>10, FineTransitive
  <2>12. n \in Requesters(t)
    BY <2>9, <2>10 DEF Requesters
  <2> QED  BY <1>0, <1>3, <2>5, <2>10, <2>11, <2>12
<1>6. CASE ~(compute_voting_power(Requesters(s)) > compute_f /\ n \notin Requesters(s))
  <2>1. t = s
    BY <1>0, <1>6 DEF JoinMutiny, Requesters
  <2>2. Fine(n, s, s, M, C)
    BY DEF Fine, Progress
  <2>3. IsQuorum(compute_voting_power(Requesters(s))) => n \in Requesters(s)
    BY <1>4, <1>6, QuorumOK
  <2> QED  BY <1>0, <1>3, <2>1, <2>2, <2>3
<1> QED
  BY <1>5, <1>6

\* Registering a request of the current view that was made.
LEMMA RegisteredFine ==
    ASSUME NEW s \in State, Good(s), NEW n \in Validators,
           NEW M \in SUBSET Message, NEW C,
           Midway(n, s, M, C), NEW m \in M, m.type = "Timeout", MessageOK(m, M),
           m.slot = s.slot, m.view = s.view, ~MalformedTimeout(m)
    PROVE  LET t == Registered(n, s, m)
           IN  /\ t \in State /\ Fine(n, s, t, M, C)
               /\ t.slot = s.slot /\ t.view = s.view /\ t.parent = s.parent
               /\ t.tag = s.tag
               /\ Request(m) \notin s.reqs =>
                    (IsQuorum(compute_voting_power(Requesters(t)))
                       => n \in Requesters(t))
<1> DEFINE adopted == IF m.kind = NilProposal THEN s
                      ELSE AdoptPrepareQC(s, m.slot, m.kind)
           r == Request(m)
           u == [adopted EXCEPT !.reqs = @ \cup {r}]
<1>0. m.src \in Validators /\ m.kind \in Kind
  BY DEF Message
<1>1. /\ adopted \in State /\ Fine(n, s, adopted, M, C) /\ Outs(adopted) = Outs(s)
      /\ (m.kind # NilProposal => HasPrepareQCForSlot(adopted))
      /\ adopted.slot = s.slot /\ adopted.view = s.view
      /\ adopted.parent = s.parent /\ adopted.tag = s.tag
  <2>1. CASE m.kind = NilProposal
    BY <2>1 DEF Fine, Progress
  <2>2. CASE m.kind # NilProposal
    <3>1. m.kind.prop.slot = s.slot
      BY <2>2 DEF MalformedTimeout, PrepareQCValid
    <3>2. m.kind.prop \in Proposals(M \cup Outs(s))
      BY <2>2, <3>1, SameProposals DEF MessageOK, KindOK
    <3>3. adopted = AdoptPrepareQC(s, s.slot, m.kind)
      BY <2>2
    <3>4. adopted \in State
      BY <1>0, <2>2, <3>1, <3>3, AdoptOK
    <3>5. PICK k : k = m.kind
      OBVIOUS
    <3>6. /\ k \in Kind /\ k # NilProposal /\ k.prop.slot = s.slot
          /\ k.prop \in Proposals(M \cup Outs(s)) /\ adopted = AdoptPrepareQC(s, s.slot, k)
      BY <1>0, <2>2, <3>1, <3>2, <3>3, <3>5
    <3>7. PICK a : a = AdoptPrepareQC(s, s.slot, k)
      OBVIOUS
    <3>8. /\ Fine(n, s, a, M, C) /\ Outs(a) = Outs(s) /\ HasPrepareQCForSlot(a)
          /\ a.slot = s.slot /\ a.view = s.view /\ a.parent = s.parent /\ a.tag = s.tag
      BY <3>6, <3>7, AdoptFine
    <3> HIDE DEF adopted
    <3> QED  BY <3>4, <3>6, <3>7, <3>8
  <2> QED  BY <2>1, <2>2
<1>2. Registered(n, s, m) =
        IF Request(m) \in s.reqs THEN adopted ELSE JoinMutiny(n, u)
  BY DEF Registered
<1> HIDE DEF adopted
<1>3. DOMAIN adopted = Fields
  BY <1>1, StateFields
<1>4. Gains(adopted, u, r)
  BY <1>3 DEF Gains, Differs, Fields
<1>5. r.src \in Askers(M \cup Outs(adopted), adopted.slot, adopted.view)
  BY <1>1 DEF Askers, Asks, Request
<1>6. r.kind # NilProposal => HasPrepareQCForSlot(adopted)
  BY <1>1 DEF Request
<1>14. Asked(r, adopted, M \cup Outs(adopted))
  BY <1>5, <1>6 DEF Asked
<1>7. Midway(n, adopted, M, C)
  BY <1>1 DEF Fine
<1>8. u \in State
  <2>1. r \in Requests
    BY <1>0 DEF Request, Requests
  <2>2. PICK R : R = adopted.reqs \cup {r}
    OBVIOUS
  <2>3. R \in SUBSET Requests
    BY <1>1, <2>1, <2>2 DEF State
  <2>4. u = [adopted EXCEPT !.reqs = R]
    BY <2>2
  <2> QED  BY <1>1, <2>3, <2>4 DEF State
<1> HIDE DEF r, u
<1>9. /\ Fine(n, adopted, u, M, C) /\ u.slot = s.slot /\ u.view = s.view
      /\ u.parent = s.parent /\ u.tag = s.tag
  <2>1. adopted \in State
    BY <1>1
  <2> QED  BY <1>1, <1>4, <1>7, <1>14, <2>1, RequestFine
<1>10. Midway(n, u, M, C) /\ Fine(n, s, u, M, C)
  BY <1>1, <1>8, <1>9, FineTransitive DEF Fine
<1>11. PICK t : t = JoinMutiny(n, u)
  OBVIOUS
<1>12. /\ t \in State /\ Fine(n, u, t, M, C)
       /\ t.slot = u.slot /\ t.view = u.view /\ t.parent = u.parent /\ t.tag = u.tag
       /\ IsQuorum(compute_voting_power(Requesters(t))) => n \in Requesters(t)
  BY <1>8, <1>10, <1>11, MutinyFine
<1>13. Fine(n, s, t, M, C)
  BY <1>8, <1>10, <1>12, FineTransitive
<1> QED
  BY <1>1, <1>2, <1>9, <1>11, <1>12, <1>13

\* A certificate of requests that were made.
LEMMA CreateTCFine ==
    ASSUME NEW s \in State, NEW n \in Validators, NEW M \in SUBSET Message, NEW C,
           Midway(n, s, M, C), IsQuorum(compute_voting_power(Requesters(s))),
           n \in Requesters(s)
    PROVE  LET t == CreateTC(n, s) IN t \in State /\ Fine(n, s, t, M, C)
<1> DEFINE qc == QuorumCertificate("ConsensusTimeout",
                   TimeoutPayload(s.slot, s.view, s.parent),
                   {r.src : r \in s.reqs} \cup {n})
           kind == TimeoutKind(s)
           m == [type |-> "TimeoutCertificate", qc |-> qc, kind |-> kind,
                 slot |-> s.slot, view |-> s.view]
           told1 == [s EXCEPT !.tstate = "Scheduled",
                              !.tag = IF @ = "Joining" THEN "Leader" ELSE @]
           e == [s EXCEPT !.tstate = "CertificateEmitted"]
           told2 == Broadcast(n, e, m)
           ticket == TimeoutTicket(qc, kind)
<1>1. PICK N : N = M \cup Outs(s)
  OBVIOUS
<1>2. PICK D : D = C \cup CertifiedBy(s)
  OBVIOUS
<1>3. Sound(n, s, N, D)
  BY <1>1, <1>2 DEF Midway
<1>4. N \in SUBSET Message
  BY <1>1, OutsType
<1>5. s.slot \in Nat /\ s.view \in Nat /\ s.parent \in Hash
      /\ s.reqs \in SUBSET Requests /\ s.tag # "Joining"
  BY <1>3 DEF State, Sound, RoleOK
<1>6. qc \in QC
  BY <1>5 DEF QC, QuorumCertificate, TimeoutPayload, Payload, Requests
<1>7. qc.hash.slot = s.slot /\ qc.hash.view = s.view /\ qc.signers = Requesters(s)
  BY DEF QuorumCertificate, TimeoutPayload, Requesters
<1>8. kind \in Kind /\ KindOK(kind, s.slot, N)
  BY <1>3, TimeoutMessage, KindFine DEF Sound
<1>9. Requesters(s) \subseteq Askers(N, s.slot, s.view)
  BY <1>3 DEF Sound, RequestsOK, Requesters
<1> HIDE DEF qc, kind
<1>10. TimeoutOK(qc, kind, N)
  BY <1>7, <1>8, <1>9 DEF TimeoutOK
<1>11. m \in Message /\ ticket \in Ticket /\ ticket.type = "TimeoutQC"
       /\ m.type = "TimeoutCertificate" /\ m.qc = qc /\ m.kind = kind
       /\ ticket.qc = qc /\ ticket.kind = kind
  BY <1>5, <1>6, <1>8 DEF Message, Ticket, TimeoutTicket
<1> HIDE DEF m, ticket
<1>12. TicketOK(ticket, N) /\ MessageOK(m, N)
  BY <1>10, <1>11 DEF TicketOK, MessageOK
<1>13. IsQuorum(compute_voting_power(Askers(N, s.slot, s.view)))
  <2>1. Requesters(s) \in SUBSET Validators
    BY <1>5 DEF Requesters, Requests
  <2> QED  BY <1>4, <1>9, <2>1, AskersType, QuorumOK
<1>14. DOMAIN s = Fields
  BY StateFields
<1>15. /\ told1 \in State /\ Alike(s, told1, {}) /\ told1.step = s.step
  <2>1. told1 \in State
    BY DEF State
  <2> QED  BY <1>5, <1>14, <2>1 DEF Alike, Differs, Fields, Bookkeeping
<1>16. /\ e \in State /\ Alike(s, e, {}) /\ e.step = s.step
  <2>1. e \in State
    BY DEF State
  <2> QED  BY <1>14, <2>1 DEF Alike, Differs, Fields, Bookkeeping
<1>17. CreateTC(n, s) =
        advance_round(n, IF next_view_leader(s) = n THEN told1 ELSE told2, ticket)
  BY DEF CreateTC, m, ticket, qc, kind
<1> HIDE DEF told1, e
<1>18. Fine(n, s, told1, M, C) /\ Fine(n, s, e, M, C)
  BY <1>15, <1>16, AlikeFine
<1>19. /\ told1.slot = s.slot /\ told1.view = s.view /\ told1.out = s.out
       /\ e.slot = s.slot /\ e.view = s.view /\ e.out = s.out
  BY <1>15, <1>16, AlikeFields DEF Fields, Bookkeeping
<1>20. Outs(told1) = Outs(s) /\ Outs(e) = Outs(s)
  BY <1>19 DEF Outs
<1>21. /\ told2 \in State /\ Fine(n, e, told2, M, C) /\ Outs(told2) = Outs(s) \cup {m}
       /\ told2.slot = s.slot /\ told2.view = s.view
  <2>1. MessageOK(m, (M \cup Outs(e)) \cup {m})
    BY <1>1, <1>12, <1>20, MoreEvidence
  <2>2. m.type # "Prepare"
    BY <1>11
  <2>3. /\ Fine(n, e, told2, M, C) /\ Outs(told2) = Outs(e) \cup {m}
        /\ Alike(e, told2, {"out"})
    BY <1>11, <1>16, <1>18, <2>1, <2>2, BroadcastFine DEF Fine
  <2>4. told2 \in State
    BY <1>11, <1>16, SendType
  <2> HIDE DEF told2
  <2>5. told2.slot = e.slot /\ told2.view = e.view
    BY <2>3, AlikeFields DEF Fields, Bookkeeping
  <2> QED  BY <1>19, <1>20, <2>3, <2>4, <2>5
<1> HIDE DEF told2
<1>22. PICK told : told = IF next_view_leader(s) = n THEN told1 ELSE told2
  OBVIOUS
<1>23. /\ told \in State /\ Fine(n, s, told, M, C) /\ told.slot = s.slot
       /\ told.view = s.view /\ Outs(s) \subseteq Outs(told)
  <2>1. Fine(n, s, told2, M, C)
    BY <1>16, <1>18, <1>21, FineTransitive
  <2> QED  BY <1>15, <1>18, <1>19, <1>20, <1>21, <1>22, <2>1
<1>24. PICK K : K = M \cup Outs(told)
  OBVIOUS
<1>25. N \subseteq K /\ K \in SUBSET Message
  BY <1>1, <1>23, <1>24, OutsType
<1>26. TicketOK(ticket, K)
  BY <1>12, <1>25, MoreEvidence
<1>27. IsQuorum(compute_voting_power(Askers(K, s.slot, s.view)))
  <2>1. /\ Askers(N, s.slot, s.view) \in SUBSET Validators
        /\ Askers(K, s.slot, s.view) \in SUBSET Validators
        /\ Askers(N, s.slot, s.view) \subseteq Askers(K, s.slot, s.view)
    BY <1>4, <1>25, AskersType, MoreEvidence
  <2> QED  BY <1>13, <2>1, QuorumOK
<1>28. PICK t : t = advance_round(n, told, ticket)
  OBVIOUS
<1>29. t \in State /\ Fine(n, told, t, M, C)
  <2>1. Midway(n, told, M, C)
    BY <1>23 DEF Fine
  <2> QED  BY <1>11, <1>23, <1>24, <1>26, <1>27, <1>28, <2>1, ViewFine
<1>30. Fine(n, s, t, M, C)
  BY <1>23, <1>29, FineTransitive
<1> QED
  BY <1>17, <1>22, <1>28, <1>29, <1>30

\* A timeout request m that was made, or is about to be.
LEMMA OnTimeoutFine ==
    ASSUME NEW s \in State, Good(s), NEW n \in Validators,
           NEW M \in SUBSET Message, NEW C,
           Midway(n, s, M, C), NEW m \in M, m.type = "Timeout", MessageOK(m, M)
    PROVE  LET t == on_timeout(n, s, m) IN t \in State /\ Fine(n, s, t, M, C)
<1>0. PICK r : r = Registered(n, s, m)
  OBVIOUS
<1>1. Fine(n, s, s, M, C)
  BY DEF Fine, Progress
<1>2. CASE \/ m.parent # s.parent \/ m.slot # s.slot \/ m.view # s.view
           \/ MalformedTimeout(m)
  BY <1>1, <1>2 DEF on_timeout
<1>3. CASE ~(\/ m.parent # s.parent \/ m.slot # s.slot \/ m.view # s.view
             \/ MalformedTimeout(m))
  <2>1. /\ r \in State /\ Fine(n, s, r, M, C)
        /\ Request(m) \notin s.reqs =>
             (IsQuorum(compute_voting_power(Requesters(r))) => n \in Requesters(r))
    BY <1>0, <1>3, RegisteredFine
  <2>2. CASE Request(m) \notin s.reqs /\ EnoughRequests(r) /\ CanCertify(r)
    <3>1. IsQuorum(compute_voting_power(Requesters(r))) /\ n \in Requesters(r)
      BY <2>1, <2>2 DEF EnoughRequests, Requesters
    <3>2. PICK t : t = CreateTC(n, r)
      OBVIOUS
    <3>3. Midway(n, r, M, C)
      BY <2>1 DEF Fine
    <3>4. t \in State /\ Fine(n, r, t, M, C)
      BY <2>1, <3>1, <3>2, <3>3, CreateTCFine
    <3>5. Fine(n, s, t, M, C)
      BY <2>1, <3>4, FineTransitive
    <3>6. on_timeout(n, s, m) = t
      BY <1>0, <1>3, <2>2, <3>2 DEF on_timeout
    <3> QED  BY <3>4, <3>5, <3>6
  <2>3. CASE ~(Request(m) \notin s.reqs /\ EnoughRequests(r) /\ CanCertify(r))
    <3>1. on_timeout(n, s, m) = r
      BY <1>0, <1>3, <2>3 DEF on_timeout
    <3> QED  BY <2>1, <3>1
  <2> QED  BY <2>2, <2>3
<1> QED
  BY <1>2, <1>3

\* Requests always make a certificate, so the validator's own request is
\* broadcast whenever it is registered.
LEMMA TickFine ==
    ASSUME NEW s \in State, Good(s), NEW n \in Validators,
           NEW M \in SUBSET Message, NEW C, Midway(n, s, M, C), Outs(s) = {}
    PROVE  Fine(n, s, on_timeout_tick(n, s), M, C)
<1> DEFINE own == get_timeout_message(n, s)
           r == on_timeout(n, s, own)
           q == [r EXCEPT !.tstate = "Scheduled"]
           t == Broadcast(n, q, own)
<1>1. Sound(n, s, M, C \cup CertifiedBy(s))
  BY DEF Midway
<1>2. /\ own \in Message /\ own.type = "Timeout" /\ own.src = n /\ own.slot = s.slot
      /\ own.view = s.view /\ own.parent = s.parent /\ MessageOK(own, M)
  BY <1>1, TimeoutMessage, KindFine DEF Sound, get_timeout_message
<1>3. CASE MalformedTimeout(own)
  <2>1. on_timeout_tick(n, s) = s
    BY <1>3 DEF on_timeout_tick, on_timeout, on_timeout_errs
  <2> QED  BY <2>1 DEF Fine, Progress
<1>4. CASE ~MalformedTimeout(own)
  <2>1. PICK N : N = M \cup {own}
    OBVIOUS
  <2>2. N \in SUBSET Message /\ own \in N /\ MessageOK(own, N)
    BY <1>2, <2>1, MoreEvidence
  <2>3. Proposals(N) = Proposals(M)
    BY <1>2, <2>1 DEF Proposals, Prepares
  <2>4. Midway(n, s, N, C)
    <3>1. PICK D : D = C \cup CertifiedBy(s)
      OBVIOUS
    <3>2. Sound(n, s, N, D)
      BY <1>1, <2>1, <2>2, <3>1, MoreSound
    <3>3. N \cup Outs(s) = N
      OBVIOUS
    <3>4. SentOK(s, N)
      BY DEF SentOK
    <3> QED  BY <2>3, <3>1, <3>2, <3>3, <3>4 DEF Midway
  <2>5. ~on_timeout_errs(n, s, own)
    <3>0. PICK x : x = Registered(n, s, own)
      OBVIOUS
    <3>1. x \in State /\ Fine(n, s, x, N, C) /\ x.slot = s.slot
      BY <1>2, <1>4, <2>2, <2>4, <3>0, RegisteredFine
    <3>2. RequestsOK(x, N \cup Outs(x)) /\ s.tag # "Joining"
      BY <1>1, <3>1 DEF Fine, Midway, Sound, RoleOK
    <3>3. CanCertify(x)
      BY <3>2 DEF CanCertify, RequestsOK
    <3> QED  BY <1>4, <3>0, <3>2, <3>3 DEF on_timeout_errs
  <2>6. on_timeout_tick(n, s) = t
    BY <2>5 DEF on_timeout_tick
  <2> HIDE DEF own
  <2>7. r \in State /\ Fine(n, s, r, N, C)
    BY <1>2, <2>2, <2>4, OnTimeoutFine
  <2> HIDE DEF r
  <2>8. q \in State /\ Alike(r, q, {}) /\ q.step = r.step
    <3>1. DOMAIN r = Fields
      BY <2>7, StateFields
    <3>2. q \in State
      BY <2>7, UpdateType
    <3> QED  BY <3>1, <3>2 DEF Alike, Differs, Fields, Bookkeeping
  <2>9. Fine(n, r, q, N, C)
    BY <2>7, <2>8, AlikeFine DEF Fine
  <2> HIDE DEF q
  <2>10. MessageOK(own, (N \cup Outs(q)) \cup {own})
    <3>1. N \subseteq (N \cup Outs(q)) \cup {own}
      OBVIOUS
    <3> QED  BY <2>2, <3>1, MoreEvidence
  <2>11. own.type # "Prepare"
    BY <1>2
  <2>12. t \in State /\ Fine(n, q, t, N, C) /\ Outs(t) = Outs(q) \cup {own}
    <3>1. t \in State
      BY <1>2, <2>8, SendType
    <3> QED  BY <1>2, <2>2, <2>8, <2>9, <2>10, <2>11, <3>1, BroadcastFine DEF Fine
  <2> HIDE DEF t
  <2>13. Fine(n, s, t, N, C)
    BY <2>7, <2>8, <2>9, <2>12, FineTransitive
  <2>14. N \cup Outs(t) = M \cup Outs(t)
    BY <2>1, <2>12
  <2>15. Midway(n, t, M, C)
    BY <2>3, <2>13, <2>14 DEF Fine, Midway
  <2> QED  BY <2>6, <2>13, <2>15 DEF Fine
<1> QED
  BY <1>3, <1>4

\* The proposal of a valid timeout certificate is adopted ...
LEMMA VerifyTCFine ==
    ASSUME NEW s \in State, Good(s), NEW n \in Validators,
           NEW M \in SUBSET Message, NEW C, Midway(n, s, M, C),
           NEW qc, NEW kind \in Kind, NEW view,
           TCValid(s, qc, kind, s.slot, view), KindOK(kind, s.slot, M \cup Outs(s))
    PROVE  LET t == verify_tc(s, kind, s.slot)
           IN  /\ t \in State /\ Fine(n, s, t, M, C) /\ Outs(t) = Outs(s)
               /\ t.slot = s.slot /\ t.view = s.view /\ t.parent = s.parent
               /\ t.tag = s.tag
<1>1. CASE kind = NilProposal
  BY <1>1 DEF verify_tc, Fine, Progress
<1>2. CASE kind # NilProposal
  <2>1. kind.prop.slot = s.slot
    BY <1>2 DEF TCValid, PrepareQCValid
  <2>2. kind.prop \in Proposals(M \cup Outs(s))
    BY <1>2, <2>1 DEF KindOK
  <2>3. PICK t : t = AdoptPrepareQC(s, s.slot, kind)
    OBVIOUS
  <2>4. /\ Fine(n, s, t, M, C) /\ Outs(t) = Outs(s)
        /\ t.slot = s.slot /\ t.view = s.view /\ t.parent = s.parent /\ t.tag = s.tag
    BY <1>2, <2>1, <2>2, <2>3, AdoptFine
  <2>5. t \in State
    BY <1>2, <2>1, <2>3, AdoptOK
  <2> QED  BY <1>2, <2>3, <2>4, <2>5 DEF verify_tc
<1> QED
  BY <1>1, <1>2

\* ... and the view it ends is left.
LEMMA CertifiedViewFine ==
    ASSUME NEW s \in State, Good(s), NEW n \in Validators,
           NEW M \in SUBSET Message, NEW C, Midway(n, s, M, C),
           NEW ticket \in Ticket, ticket.type = "TimeoutQC",
           TicketOK(ticket, M \cup Outs(s)),
           TCValid(s, ticket.qc, ticket.kind, s.slot, s.view)
    PROVE  LET t == advance_round(n, verify_tc(s, ticket.kind, s.slot), ticket)
           IN  t \in State /\ Fine(n, s, t, M, C)
<1>0. PICK u : u = verify_tc(s, ticket.kind, s.slot)
  OBVIOUS
<1>1. PICK qc : qc = ticket.qc
  OBVIOUS
<1>2. PICK kind : kind = ticket.kind
  OBVIOUS
<1>3. qc \in QC /\ kind \in Kind
  BY <1>1, <1>2 DEF Ticket, GenesisTicket
<1>4. PICK N : N = M \cup Outs(s)
  OBVIOUS
<1>5. /\ qc.signers \subseteq Askers(N, qc.hash.slot, qc.hash.view)
      /\ KindOK(kind, qc.hash.slot, N)
  BY <1>1, <1>2, <1>4 DEF TicketOK, TimeoutOK
<1>6. /\ qc.hash.slot = s.slot /\ qc.hash.view = s.view
      /\ IsQuorum(compute_voting_power(qc.signers))
  BY <1>1 DEF TCValid, verify_quorum_certificate, TimeoutPayload
<1>7. TCValid(s, qc, kind, s.slot, s.view)
  BY <1>1, <1>2
<1>8. KindOK(kind, s.slot, M \cup Outs(s))
  BY <1>4, <1>5, <1>6
<1>9. /\ u \in State /\ Fine(n, s, u, M, C) /\ Outs(u) = Outs(s)
      /\ u.slot = s.slot /\ u.view = s.view
  <2>1. PICK y : y = verify_tc(s, kind, s.slot)
    OBVIOUS
  <2>2. PICK q : q = qc
    OBVIOUS
  <2>3. TCValid(s, q, kind, s.slot, s.view) /\ kind \in Kind
    BY <1>2, <1>3, <1>7, <2>2
  <2>4. /\ y \in State /\ Fine(n, s, y, M, C) /\ Outs(y) = Outs(s)
        /\ y.slot = s.slot /\ y.view = s.view
    BY <1>8, <2>1, <2>3, VerifyTCFine
  <2> QED  BY <1>0, <1>2, <2>1, <2>4
<1>10. IsQuorum(compute_voting_power(Askers(N, s.slot, s.view)))
  <2>1. N \in SUBSET Message
    BY <1>4, OutsType
  <2>2. Askers(N, s.slot, s.view) \in SUBSET Validators
    BY <2>1, AskersType
  <2>3. qc.signers \in SUBSET Validators /\ qc.signers \subseteq Askers(N, s.slot, s.view)
    BY <1>5, <1>6, <2>2
  <2> QED  BY <1>6, <2>2, <2>3, QuorumOK
<1>11. PICK t : t = advance_round(n, u, ticket)
  OBVIOUS
<1>12. t \in State /\ Fine(n, u, t, M, C)
  <2>1. Midway(n, u, M, C)
    BY <1>9 DEF Fine
  <2> QED  BY <1>4, <1>9, <1>10, <1>11, <2>1, ViewFine
<1>13. Fine(n, s, t, M, C)
  BY <1>9, <1>12, FineTransitive
<1> QED
  BY <1>0, <1>11, <1>12, <1>13

LEMMA OnTimeoutCertificateFine ==
    ASSUME NEW s \in State, Good(s), NEW n \in Validators,
           NEW M \in SUBSET Message, NEW C, Midway(n, s, M, C),
           NEW m \in M, m.type = "TimeoutCertificate", MessageOK(m, M)
    PROVE  Fine(n, s, on_timeout_certificate(n, s, m), M, C)
<1> DEFINE t == verify_tc(s, m.kind, m.slot)
           u == [t EXCEPT !.tag = IF next_view_leader(s) # n /\ @ = "Joining"
                                  THEN "Leader" ELSE @]
           ticket == TimeoutTicket(m.qc, m.kind)
<1>0. m.qc \in QC /\ m.kind \in Kind
  BY DEF Message
<1>1. CASE /\ m.slot = s.slot /\ m.view = s.view
           /\ TCValid(s, m.qc, m.kind, m.slot, m.view)
  <2>1. /\ ticket \in Ticket /\ ticket.type = "TimeoutQC" /\ ticket.qc = m.qc
        /\ ticket.kind = m.kind
    BY <1>0 DEF Ticket, TimeoutTicket
  <2>2. on_timeout_certificate(n, s, m) = advance_round(n, u, ticket)
    BY <1>1 DEF on_timeout_certificate
  <2> HIDE DEF ticket
  <2>3. TicketOK(ticket, M \cup Outs(s))
    <3>1. TicketOK(ticket, M)
      BY <2>1 DEF MessageOK, TicketOK
    <3>2. M \subseteq M \cup Outs(s)
      OBVIOUS
    <3> QED  BY <3>1, <3>2, MoreEvidence
  <2>4. KindOK(m.kind, s.slot, M \cup Outs(s))
    <3>1. m.qc.hash.slot = s.slot
      BY <1>1 DEF TCValid, verify_quorum_certificate, TimeoutPayload
    <3> QED  BY <2>1, <2>3, <3>1 DEF TicketOK, TimeoutOK
  <2>5. u = t
    <3>1. PICK kind : kind = m.kind
      OBVIOUS
    <3>2. /\ kind \in Kind /\ TCValid(s, m.qc, kind, s.slot, s.view)
          /\ KindOK(kind, s.slot, M \cup Outs(s)) /\ t = verify_tc(s, kind, s.slot)
      BY <1>0, <1>1, <2>4, <3>1
    <3>3. t \in State /\ t.tag = s.tag
      <4>1. PICK y : y = verify_tc(s, kind, s.slot)
        OBVIOUS
      <4>2. PICK qc : TCValid(s, qc, kind, s.slot, s.view)
        BY <3>2
      <4>3. y \in State /\ y.tag = s.tag
        BY <3>2, <4>1, <4>2, VerifyTCFine
      <4> QED  BY <3>2, <4>1, <4>3
    <3> HIDE DEF t
    <3>4. DOMAIN t = Fields
      BY <3>3, StateFields
    <3>5. s.tag # "Joining"
      BY DEF Midway, Sound, RoleOK
    <3>6. u = [t EXCEPT !.tag = t.tag]
      BY <3>3, <3>5
    <3>7. t \in State
      BY <3>3
    <3> HIDE DEF u
    <3> QED  BY <3>6, <3>7 DEF State
  <2>6. t = verify_tc(s, ticket.kind, s.slot)
        /\ TCValid(s, ticket.qc, ticket.kind, s.slot, s.view)
    BY <1>1, <2>1
  <2> HIDE DEF t, u
  <2>7. Fine(n, s, advance_round(n, t, ticket), M, C)
    BY <2>1, <2>3, <2>6, CertifiedViewFine
  <2> QED  BY <2>2, <2>5, <2>7
<1>2. CASE ~(/\ m.slot = s.slot /\ m.view = s.view
             /\ TCValid(s, m.qc, m.kind, m.slot, m.view))
  <2>1. on_timeout_certificate(n, s, m) = s
    BY <1>2 DEF on_timeout_certificate
  <2> QED  BY <2>1 DEF Fine, Progress
<1> QED
  BY <1>1, <1>2

-----------------------------------------------------------------------------
(* Tickets and Prepares.                                                    *)

\* The hash of a proposal tells it from the others.
LEMMA HashTells ==
    ASSUME NEW M, NEW C, Consistent(M, C),
           NEW a \in Proposals(M), NEW b \in Proposals(M), hashed(a) = hashed(b)
    PROVE  a = b
<1>1. a.slot = b.slot /\ a.born = b.born
  BY DEF hashed
<1>2. PICK p \in Prepares(M) : p.prop = a /\ p.view = a.born
  BY DEF Consistent, ProposalOK
<1>3. PICK q \in Prepares(M) : q.prop = b /\ q.view = b.born
  BY DEF Consistent, ProposalOK
<1> QED
  BY <1>1, <1>2, <1>3 DEF Consistent, OneProposal

\* The leader of the next slot committed what our proposal is forced by.
LEMMA ForceCommitFine ==
    ASSUME NEW s \in State, NEW n \in Validators,
           NEW M \in SUBSET Message, NEW C, Consistent(M, C), Midway(n, s, M, C),
           NEW p \in Prepare, PrepareOK(p, M)
    PROVE  Fine(n, s, ForceCommit(n, s, p), M, C)
<1>1. CASE IsNextSlotAndPresent(s, p) /\ p.prop.parent = hashed(s.cp)
  <2>1. s.cp.slot = s.slot /\ p.prop.slot = s.slot + 1
    BY <1>1 DEF IsNextSlotAndPresent, current_slot_prepare_is_present
  <2>2. s.slot > 0 /\ s.slot \in Nat /\ s.cp \in Proposals(M \cup Outs(s))
    BY <2>1 DEF Midway, Sound, RoleOK, CurrentOK, State
  <2>3. s.cp \in Proposals(M)
    BY <2>2, SameProposals
  <2>4. p.prop \in Proposals(M) /\ p.prop.slot > 1
    BY <2>1, <2>2 DEF PrepareOK
  <2>5. PICK d \in C : hashed(d) = p.prop.parent
    BY <2>4 DEF Consistent, ProposalOK
  <2>6. d \in Proposals(M)
    BY DEF Consistent
  <2>7. s.cp \in C
    BY <1>1, <2>3, <2>5, <2>6, HashTells
  <2>8. EmptyQC \in QC
    BY DEF EmptyQC, QuorumCertificate, QC, NoHash, Hash
  <2>9. ForcedTicket \in AnyTicket /\ ForcedTicket.type # "TimeoutQC"
    BY DEF ForcedTicket, AnyTicket
  <2>10. current_slot_prepare_is_present(s)
    BY <2>1 DEF current_slot_prepare_is_present
  <2>11. ForceCommit(n, s, p) =
           advance_round(n, emit_commit_event(s, EmptyQC), ForcedTicket)
    BY <1>1 DEF ForceCommit
  <2> QED  BY <2>7, <2>8, <2>9, <2>10, <2>11, CommitFine
<1>2. CASE ~(IsNextSlotAndPresent(s, p) /\ p.prop.parent = hashed(s.cp))
  <2>1. ForceCommit(n, s, p) = s
    BY <1>2 DEF ForceCommit
  <2> QED  BY <2>1 DEF Fine, Progress
<1> QED
  BY <1>1, <1>2


LEMMA CommitTicketFine ==
    ASSUME NEW s \in State, NEW n \in Validators, NEW M \in SUBSET Message, NEW C,
           Midway(n, s, M, C), NEW p \in Prepare, p.ticket.type = "CommitQC"
    PROVE  Fine(n, s, verify_and_process_commit_ticket(n, s, p).state, M, C)
<1> DEFINE r == verify_and_process_commit_ticket(n, s, p)
           c == CommitAndAdvance(n, s, p.ticket.qc)
           Commit == /\ current_slot_prepare_is_present(s)
                      /\ verify_quorum_certificate("ConfirmAck", hashed(s.cp), p.ticket.qc)
<1>1. r.state = s \/ (r.state = c /\ Commit)
  <2>1. \/ r = NotProcessed(s) \/ r = Processed(s) \/ r = Failed(s)
        \/ r = Processed(c) /\ Commit
    <3> HIDE DEF c
    <3>1. CASE ~TicketApplies(s, p) \/ p.ticket.qc = s.bqc
      BY <3>1, Zenon DEF verify_and_process_commit_ticket
    <3>2. CASE ~(~TicketApplies(s, p) \/ p.ticket.qc = s.bqc)
      BY <3>2, Zenon DEF verify_and_process_commit_ticket, c
    <3> QED  BY <3>1, <3>2
  <2> HIDE DEF r, c
  <2> QED  BY <2>1 DEF NotProcessed, Processed, Failed
<1>2. PICK qc : qc = p.ticket.qc
  OBVIOUS
<1>3. qc \in QC
  BY <1>2 DEF Prepare, Ticket, GenesisTicket
<1>4. Commit => Fine(n, s, c, M, C)
  <2>1. Commit => qc # EmptyQC
    BY <1>2, NotEmpty
  <2> QED  BY <1>2, <1>3, <2>1, CommitQCFine
<1>5. Fine(n, s, s, M, C)
  BY DEF Fine, Progress
<1> HIDE DEF r, c, Commit
<1>6. Fine(n, s, r.state, M, C)
  BY <1>1, <1>4, <1>5
<1> QED
  BY <1>6 DEF r

LEMMA TimeoutTicketFine ==
    ASSUME NEW s \in State, Good(s), NEW n \in Validators,
           NEW M \in SUBSET Message, NEW C, Consistent(M, C), Midway(n, s, M, C),
           NEW p \in Prepare, PrepareOK(p, M), p.ticket.type = "TimeoutQC"
    PROVE  Fine(n, s, verify_and_process_tc_ticket(n, s, p).state, M, C)
<1> DEFINE r == verify_and_process_tc_ticket(n, s, p)
           kind == p.ticket.kind
           qc == p.ticket.qc
           t == ForceCommit(n, s, p)
           u == verify_tc(t, kind, t.slot)
           w == advance_round(n, u, p.ticket)
<1>0. s.tag # "Joining"
  BY DEF Midway, Sound, RoleOK
<1>1. p.ticket \in Ticket /\ kind \in Kind /\ qc \in QC /\ p.view \in Nat
  BY DEF Prepare, Ticket, GenesisTicket
<1>2. t \in State /\ Good(t)
  BY <1>0, ForceCommitOK DEF HandlerOK
<1>3. Fine(n, s, t, M, C)
  BY ForceCommitFine
<1>4. \/ r.state = s \/ r.state = t
      \/ /\ r.state = u \/ (r.state = w /\ p.view = t.view + 1)
         /\ TCValid(t, qc, kind, t.slot, p.view - 1)
  BY DEF verify_and_process_tc_ticket, Processed, NotProcessed, Failed
<1> HIDE DEF t
<1>5. Midway(n, t, M, C)
  BY <1>3 DEF Fine
<1>6. TicketOK(p.ticket, M \cup Outs(t))
  <2>1. TicketOK(p.ticket, M)
    BY DEF PrepareOK
  <2>2. M \subseteq M \cup Outs(t)
    OBVIOUS
  <2> QED  BY <2>1, <2>2, MoreEvidence
<1>7. ASSUME TCValid(t, qc, kind, t.slot, p.view - 1)
      PROVE  Fine(n, s, u, M, C)
  <2>1. qc.hash.slot = t.slot
    BY <1>7 DEF TCValid, verify_quorum_certificate, TimeoutPayload
  <2>2. KindOK(kind, t.slot, M \cup Outs(t))
    BY <1>6, <2>1 DEF TicketOK, TimeoutOK
  <2>3. PICK k : k = kind
    OBVIOUS
  <2>4. PICK q : q = qc
    OBVIOUS
  <2>5. PICK v : v = p.view - 1
    OBVIOUS
  <2>6. /\ k \in Kind /\ TCValid(t, q, k, t.slot, v)
        /\ KindOK(k, t.slot, M \cup Outs(t))
    BY <1>1, <1>7, <2>2, <2>3, <2>4, <2>5
  <2>7. PICK y : y = verify_tc(t, k, t.slot)
    OBVIOUS
  <2>8. y \in State /\ Fine(n, t, y, M, C)
    BY <1>2, <1>5, <2>6, <2>7, VerifyTCFine
  <2>9. y = u
    BY <2>3, <2>7
  <2> HIDE DEF u
  <2> QED  BY <1>2, <1>3, <2>8, <2>9, FineTransitive
<1>8. ASSUME TCValid(t, qc, kind, t.slot, p.view - 1), p.view = t.view + 1
      PROVE  Fine(n, s, w, M, C)
  <2>0. t.view \in Nat
    BY <1>2 DEF State
  <2>1. p.view - 1 = t.view
    BY <1>1, <1>8, <2>0
  <2>2. PICK k : k = p.ticket
    OBVIOUS
  <2>3. /\ k \in Ticket /\ k.type = "TimeoutQC" /\ TicketOK(k, M \cup Outs(t))
        /\ TCValid(t, k.qc, k.kind, t.slot, t.view)
    BY <1>1, <1>6, <1>8, <2>1, <2>2
  <2>4. PICK y : y = advance_round(n, verify_tc(t, k.kind, t.slot), k)
    OBVIOUS
  <2>5. y \in State /\ Fine(n, t, y, M, C)
    BY <1>2, <1>5, <2>3, <2>4, CertifiedViewFine
  <2>6. y = w
    BY <2>2, <2>4
  <2> HIDE DEF w
  <2> QED  BY <1>2, <1>3, <2>5, <2>6, FineTransitive
<1>9. Fine(n, s, s, M, C)
  BY DEF Fine, Progress
<1> HIDE DEF r, u, w, kind, qc
<1>10. Fine(n, s, r.state, M, C)
  BY <1>3, <1>4, <1>7, <1>8, <1>9
<1> QED
  BY <1>10 DEF r

LEMMA ProcessTicketFine ==
    ASSUME NEW s \in State, Good(s), NEW n \in Validators,
           NEW M \in SUBSET Message, NEW C, Consistent(M, C), Midway(n, s, M, C),
           NEW p \in Prepare, PrepareOK(p, M)
    PROVE  Fine(n, s, process_ticket(n, s, p).state, M, C)
<1>1. p.ticket.type \in {"Genesis", "CommitQC", "TimeoutQC"}
  BY DEF Prepare, Ticket, GenesisTicket
<1>2. CASE p.ticket.type = "Genesis"
  <2>1. process_ticket(n, s, p).state = s
    BY <1>2 DEF process_ticket, Processed, Failed
  <2>2. Fine(n, s, s, M, C)
    BY DEF Fine, Progress
  <2> QED  BY <2>1, <2>2
<1>3. CASE p.ticket.type = "CommitQC"
  BY <1>3, CommitTicketFine DEF process_ticket
<1>4. CASE p.ticket.type = "TimeoutQC"
  BY <1>4, TimeoutTicketFine DEF process_ticket
<1> QED
  BY <1>1, <1>2, <1>3, <1>4

-----------------------------------------------------------------------------
(* A follower's handlers.                                                   *)

\* The proposal of the slot, or the Prepare to handle next, is replaced.
LEMMA ReplaceFine ==
    ASSUME NEW s \in State, NEW n, NEW M, NEW C, Midway(n, s, M, C),
           NEW t, Differs(s, t, {"cp", "next"}),
           t.cp = s.cp \/ t.cp \in Proposals(M \cup Outs(s)),
           t.next = s.next \/ t.next = None \/ PrepareOK(t.next, M \cup Outs(s))
    PROVE  Fine(n, s, t, M, C)
<1>1. /\ t.slot = s.slot /\ t.view = s.view /\ t.parent = s.parent /\ t.step = s.step
      /\ t.tag = s.tag /\ t.ticket = s.ticket /\ t.prepares = s.prepares
      /\ t.reqs = s.reqs /\ t.hqc = s.hqc /\ t.life = s.life
      /\ t.commits = s.commits /\ t.out = s.out
  BY DEF Differs, Fields
<1>2. PICK N : N = M \cup Outs(s)
  OBVIOUS
<1>3. PICK D : D = C \cup CertifiedBy(s)
  OBVIOUS
<1>4. Sound(n, s, N, D)
  BY <1>2, <1>3 DEF Midway
<1>5. CurrentOK(t, N)
  BY <1>1, <1>2, <1>4 DEF Sound, CurrentOK
<1>6. HoldsOK(t, N)
  BY <1>1, <1>2, <1>4 DEF Sound, HoldsOK
<1>7. Sound(n, t, N, D)
  BY <1>1, <1>4, <1>5, <1>6 DEF Sound, RoleOK, RequestsOK, HasPrepareQCForSlot,
                                ViewOK, ChainOK
<1>8. Midway(n, t, M, C)
  BY <1>1, <1>2, <1>3, <1>7, LocalFine
<1> QED
  BY <1>1, <1>8 DEF Fine, Progress

LEMMA HighestFine ==
    ASSUME NEW s \in State, NEW n \in Validators, NEW M \in SUBSET Message, NEW C,
           Midway(n, s, M, C), NEW qc \in QC
    PROVE  LET t == update_highest_seen_prepare_qc(s, s.slot, qc)
           IN  Fine(n, s, t, M, C)
<1>0. PICK t : t = update_highest_seen_prepare_qc(s, s.slot, qc)
  OBVIOUS
<1>1. CASE ~IsHighest(s, s.slot)
  BY <1>0, <1>1 DEF update_highest_seen_prepare_qc, Fine, Progress
<1>2. CASE IsHighest(s, s.slot)
  <2> DEFINE q == [slot |-> s.slot, qc |-> qc]
  <2>1. s.slot \in Nat /\ q \in HighestQC /\ q # None /\ q.slot = s.slot
    BY NoneAssumption DEF State, HighestQC
  <2>2. DOMAIN s = Fields /\ t = [s EXCEPT !.hqc = q]
    BY <1>0, <1>2, StateFields DEF update_highest_seen_prepare_qc
  <2> HIDE DEF q
  <2>3. t.hqc = q /\ \A f \in Fields \ {"hqc"} : t[f] = s[f]
    BY <2>2 DEF Fields
  <2>4. /\ t.slot = s.slot /\ t.view = s.view /\ t.parent = s.parent /\ t.cp = s.cp
        /\ t.tag = s.tag /\ t.ticket = s.ticket /\ t.prepares = s.prepares
        /\ t.next = s.next /\ t.reqs = s.reqs /\ t.life = s.life
        /\ t.commits = s.commits /\ t.out = s.out /\ t.step = s.step
    BY <2>3 DEF Fields
  <2>5. PICK N : N = M \cup Outs(s)
    OBVIOUS
  <2>6. PICK D : D = C \cup CertifiedBy(s)
    OBVIOUS
  <2>7. Sound(n, s, N, D)
    BY <2>5, <2>6 DEF Midway
  <2>8. RequestsOK(t, N)
    BY <2>1, <2>3, <2>4, <2>7 DEF Sound, RequestsOK, HasPrepareQCForSlot
  <2>9. Sound(n, t, N, D)
    BY <2>4, <2>7, <2>8 DEF Sound, RoleOK, CurrentOK, ViewOK, HoldsOK, ChainOK
  <2>10. Midway(n, t, M, C)
    BY <2>4, <2>5, <2>6, <2>9, LocalFine
  <2>11. Fine(n, s, t, M, C)
    BY <2>4, <2>10 DEF Fine, Progress
  <2> QED  BY <1>0, <2>11
<1> QED
  BY <1>1, <1>2

LEMMA BufferFine ==
    ASSUME NEW s \in State, NEW n \in Validators, NEW M \in SUBSET Message, NEW C,
           Midway(n, s, M, C), NEW p \in Prepare, PrepareOK(p, M \cup Outs(s))
    PROVE  Fine(n, s, buffer_prepare_message_and_fetch_missing_parent(n, s, p), M, C)
<1> DEFINE t == IF contains(s, hashed(p.prop)) THEN s ELSE push(s, p)
           missing == {h \in Ancestors(t, p.prop) : ~contains(t, h)}
           x == CHOOSE h \in missing : TRUE
           m == [type |-> "SyncRequest", src |-> n, hash |-> x]
<1>1. buffer_prepare_message_and_fetch_missing_parent(n, s, p) =
        IF missing = {} THEN t ELSE Broadcast(n, t, m)
  BY DEF buffer_prepare_message_and_fetch_missing_parent
<1>2. t \in State
  BY PushType
<1>3. Fine(n, s, t, M, C)
  <2>1. Fine(n, s, s, M, C)
    BY DEF Fine, Progress
  <2>2. Fine(n, s, push(s, p), M, C)
    BY PushFine
  <2> QED  BY <2>1, <2>2
<1> HIDE DEF t
<1>4. Ancestors(t, p.prop) \subseteq Hash
  <2>1. t.prepares \in SUBSET Prepare
    BY <1>2 DEF State
  <2> QED  BY <2>1 DEF Ancestors, Prepare, Prop
<1>5. ASSUME missing # {}
      PROVE  Fine(n, s, Broadcast(n, t, m), M, C)
  <2>1. missing \subseteq Hash
    BY <1>4
  <2> HIDE DEF missing
  <2>2. x \in Hash
    BY <1>5, <2>1
  <2> HIDE DEF x
  <2>3. m \in Message /\ m.type = "SyncRequest"
    BY <2>2 DEF Message
  <2> HIDE DEF m
  <2>4. MessageOK(m, (M \cup Outs(t)) \cup {m})
    BY <2>3 DEF MessageOK
  <2>5. PICK y : y = Broadcast(n, t, m)
    OBVIOUS
  <2>6. Midway(n, t, M, C) /\ y \in State
    BY <1>2, <1>3, <2>3, <2>5, SendType DEF Fine
  <2>7. Fine(n, t, y, M, C)
    BY <1>2, <2>3, <2>4, <2>5, <2>6, BroadcastFine
  <2> QED  BY <1>2, <1>3, <2>5, <2>6, <2>7, FineTransitive
<1> HIDE DEF m, missing
<1> QED
  BY <1>1, <1>3, <1>5

LEMMA AcceptProposalFine ==
    ASSUME NEW s \in State, NEW n \in Validators, NEW M \in SUBSET Message, NEW C,
           Midway(n, s, M, C), NEW p \in Prepare, PrepareOK(p, M \cup Outs(s))
    PROVE  Fine(n, s, AcceptProposal(n, s, p), M, C)
<1> DEFINE q == [s EXCEPT !.cp = p.prop]
           t == push(q, p)
           next == Children(t, hashed(p.prop))
           x == CHOOSE child \in next : TRUE
           u == [t EXCEPT !.next = x]
           m == [type |-> "PrepareVote", src |-> n, hash |-> hashed(p.prop)]
           to == {round_leader(s.slot, s.view)}
           v == Send(n, t, to, m)
<1>1. AcceptProposal(n, s, p) = IF next # {} THEN u ELSE v
  BY DEF AcceptProposal
<1>2. p.prop \in Prop
  BY DEF Prepare
<1>3. q \in State /\ Differs(s, q, {"cp", "next"}) /\ q.cp = p.prop /\ q.next = s.next
  BY <1>2 DEF State, Differs, Fields
<1>4. m \in Message /\ m.type = "PrepareVote" /\ to \in SUBSET Validators
  BY <1>2, HashType, LeaderType DEF Message, State
<1> HIDE DEF q, m, to
<1>5. Fine(n, s, q, M, C) /\ Outs(q) = Outs(s)
  <2>1. q.out = s.out
    BY <1>3 DEF Differs, Fields
  <2>2. q.cp \in Proposals(M \cup Outs(s))
    BY <1>3 DEF PrepareOK
  <2> QED  BY <1>3, <2>1, <2>2, ReplaceFine DEF Outs
<1>6. t \in State /\ Fine(n, q, t, M, C)
  <2>1. Midway(n, q, M, C) /\ PrepareOK(p, M \cup Outs(q))
    BY <1>5 DEF Fine
  <2> QED  BY <1>3, <2>1, PushType, PushFine
<1> HIDE DEF t
<1>7. Fine(n, s, t, M, C) /\ Midway(n, t, M, C)
  BY <1>3, <1>5, <1>6, FineTransitive DEF Fine
<1>8. ASSUME next # {}
      PROVE  Fine(n, s, u, M, C)
  <2>1. next \subseteq t.prepares
    BY DEF Children
  <2> HIDE DEF next
  <2>2. x \in t.prepares
    BY <1>8, <2>1
  <2> HIDE DEF x
  <2>3. x \in Prepare /\ PrepareOK(x, M \cup Outs(t))
    BY <1>6, <1>7, <2>2 DEF State, Midway, Sound, HoldsOK
  <2>4. DOMAIN t = Fields
    BY <1>6, StateFields
  <2>5. u \in State /\ Differs(t, u, {"cp", "next"}) /\ u.next = x /\ u.cp = t.cp
    <3>1. u \in State
      BY <1>6, <2>3 DEF State
    <3> QED  BY <2>4, <3>1 DEF Differs, Fields
  <2> HIDE DEF u
  <2>6. Fine(n, t, u, M, C)
    BY <1>6, <1>7, <2>3, <2>5, ReplaceFine
  <2> QED  BY <1>6, <1>7, <2>5, <2>6, FineTransitive
<1>9. Fine(n, s, v, M, C)
  <2>1. MessageOK(m, (M \cup Outs(t)) \cup {m})
    BY <1>4 DEF MessageOK
  <2>2. PICK y : y = Send(n, t, to, m)
    OBVIOUS
  <2>3. y \in State
    BY <1>4, <1>6, <2>2, SendType
  <2>4. Fine(n, t, y, M, C)
    BY <1>4, <1>6, <1>7, <2>1, <2>2, SendFine
  <2> QED  BY <1>6, <1>7, <2>2, <2>3, <2>4, FineTransitive
<1> HIDE DEF u, v, next
<1> QED
  BY <1>1, <1>8, <1>9

LEMMA OnPrepareFine ==
    ASSUME NEW s0 \in State, Good(s0), NEW n \in Validators,
           NEW M \in SUBSET Message, NEW C, Consistent(M, C), Midway(n, s0, M, C),
           NEW p \in Prepare, PrepareOK(p, M), NEW valid
    PROVE  Fine(n, s0, on_prepare(n, s0, p, valid), M, C)
<1> DEFINE s == [s0 EXCEPT !.next = None,
                           !.tag = IF @ = "Joining" /\ ExpectedWhileJoining(s0, p)
                                   THEN "Follower" ELSE @]
           r == process_ticket(n, s, p)
           t == r.state
           b == buffer_prepare_message_and_fetch_missing_parent(n, t, p)
           a == AcceptProposal(n, t, p)
<1>1. on_prepare(n, s0, p, valid) =
        IF s.tag = "Joining" THEN push(s, p)
        ELSE IF p.prop.slot < s.slot THEN s
        ELSE IF r.result = "Err" THEN t
        ELSE IF r.result = "NotProcessed" THEN b
        ELSE IF /\ p.prop.slot = t.slot /\ p.view = t.view
                /\ p.src = round_leader(t.slot, t.view) /\ valid
        THEN a ELSE t
  BY DEF on_prepare
<1>2. s0.tag # "Joining"
  BY DEF Midway, Sound, RoleOK
<1>3. DOMAIN s0 = Fields
  BY StateFields
<1>4. /\ s \in State /\ Differs(s0, s, {"cp", "next"}) /\ s.tag = s0.tag
      /\ s.cp = s0.cp /\ s.next = None
  <2>1. s.tag = s0.tag /\ s.cp = s0.cp /\ s.next = None
    BY <1>2, <1>3 DEF Fields
  <2>2. Differs(s0, s, {"cp", "next"})
    BY <1>2, <1>3 DEF Differs, Fields
  <2>3. s \in State
    BY <1>2 DEF State
  <2> QED  BY <2>1, <2>2, <2>3
<1> HIDE DEF s
<1>5. Fine(n, s0, s, M, C) /\ Midway(n, s, M, C)
  BY <1>4, ReplaceFine DEF Fine
<1>6. Good(s)
  <2>1. s.step = s0.step /\ s.slot = s0.slot
    BY <1>4 DEF Differs, Fields
  <2> QED  BY <1>4, <2>1 DEF Good, current_slot_prepare_is_present
<1>7. t \in State
  BY <1>2, <1>4, <1>6, ProcessTicketOK DEF HandlerOK
<1>8. Fine(n, s, t, M, C)
  BY <1>4, <1>5, <1>6, ProcessTicketFine
<1> HIDE DEF r, t
<1>9. Fine(n, s0, t, M, C) /\ Midway(n, t, M, C)
  BY <1>4, <1>5, <1>7, <1>8, FineTransitive DEF Fine
<1>10. PrepareOK(p, M \cup Outs(t))
  <2>1. M \subseteq M \cup Outs(t)
    OBVIOUS
  <2> QED  BY <2>1, MoreEvidence
<1>11. Fine(n, s0, b, M, C)
  <2>1. b \in State /\ Fine(n, t, b, M, C)
    BY <1>7, <1>9, <1>10, BufferType, BufferFine
  <2> HIDE DEF b
  <2> QED  BY <1>7, <1>9, <2>1, FineTransitive
<1>12. ASSUME p.prop.slot = t.slot
       PROVE  Fine(n, s0, a, M, C)
  <2>1. a \in State /\ Fine(n, t, a, M, C)
    BY <1>7, <1>9, <1>10, <1>12, AcceptProposalOK, AcceptProposalFine
  <2> HIDE DEF a
  <2> QED  BY <1>7, <1>9, <2>1, FineTransitive
<1> HIDE DEF a, b
<1> QED
  BY <1>1, <1>2, <1>4, <1>5, <1>9, <1>11, <1>12

LEMMA OnConfirmFine ==
    ASSUME NEW s \in State, NEW n \in Validators, NEW M \in SUBSET Message, NEW C,
           Midway(n, s, M, C), NEW m, m.hash \in Hash, m.qc \in QC
    PROVE  Fine(n, s, on_confirm(n, s, m), M, C)
<1> DEFINE qc == m.qc
           u == update_highest_seen_prepare_qc(s, s.slot, qc)
           a == [type |-> "ConfirmAck", src |-> n, hash |-> m.hash]
           to == {round_leader(s.slot, s.view)}
           t == Send(n, u, to, a)
<1>1. on_confirm(n, s, m) = t \/ on_confirm(n, s, m) = s
  BY DEF on_confirm
<1>2. a \in Message /\ a.type = "ConfirmAck" /\ to \in SUBSET Validators
  BY LeaderType DEF Message, State
<1>3. qc \in QC /\ s.slot \in Nat
  BY DEF State
<1> HIDE DEF a, to, qc
<1>4. u \in State /\ Fine(n, s, u, M, C)
  <2>1. u \in State
    BY <1>3, HighestType
  <2> QED  BY <1>3, <2>1, HighestFine
<1> HIDE DEF u
<1>5. PICK y : y = Send(n, u, to, a)
  OBVIOUS
<1>6. y \in State
  BY <1>2, <1>4, <1>5, SendType
<1>7. Midway(n, u, M, C) /\ MessageOK(a, (M \cup Outs(u)) \cup {a})
  BY <1>2, <1>4 DEF Fine, MessageOK
<1>8. Fine(n, u, y, M, C)
  BY <1>2, <1>4, <1>5, <1>7, SendFine
<1>9. Fine(n, s, y, M, C)
  BY <1>4, <1>6, <1>8, FineTransitive
<1>10. Fine(n, s, s, M, C)
  BY DEF Fine, Progress
<1> HIDE DEF t
<1> QED
  BY <1>1, <1>5, <1>9, <1>10 DEF t

-----------------------------------------------------------------------------
(* A leader's handlers, commits and synchronisation.                        *)

LEMMA OnPrepareVoteFine ==
    ASSUME NEW s \in State, NEW n \in Validators, NEW M \in SUBSET Message, NEW C,
           Midway(n, s, M, C), NEW m, m.src \in Validators, m.hash \in Hash
    PROVE  Fine(n, s, on_prepare_vote(n, s, m), M, C)
<1> DEFINE V == s.votes \cup {[src |-> m.src, hash |-> m.hash]}
           t == [s EXCEPT !.votes = V]
           u == [t EXCEPT !.step = "ConfirmAck"]
           c == [type |-> "Confirm", hash |-> m.hash,
                 qc |-> QuorumCertificate("PrepareVote", m.hash,
                          {v.src : v \in V} \cup {n})]
           y == Broadcast(n, u, c)
<1>1. /\ on_prepare_vote(n, s, m) \in {s, t, y}
      /\ on_prepare_vote(n, s, m) = s \/ s.step = "PrepareVote"
  BY DEF on_prepare_vote
<1>2. V \in SUBSET Vote
  BY DEF State, Vote
<1>3. c \in Message /\ c.type = "Confirm"
  <2>1. {v.src : v \in V} \cup {n} \in SUBSET Validators
    BY <1>2 DEF Vote
  <2>2. c.qc \in QC
    BY <2>1 DEF QuorumCertificate, QC
  <2> QED  BY <2>2 DEF Message
<1> HIDE DEF V, c
<1>4. DOMAIN s = Fields
  BY StateFields
<1>5. t \in State /\ Alike(s, t, {}) /\ t.step = s.step
  <2>1. t \in State
    BY <1>2 DEF State
  <2> QED  BY <1>4, <2>1 DEF Alike, Differs, Fields, Bookkeeping
<1>6. u \in State /\ Alike(s, u, {}) /\ u.step = "ConfirmAck"
  <2>1. u \in State
    BY <1>2 DEF State
  <2> QED  BY <1>4, <2>1 DEF Alike, Differs, Fields, Bookkeeping
<1> HIDE DEF t, u
<1>7. Fine(n, s, t, M, C) /\ Fine(n, s, u, M, C)
  BY <1>5, <1>6, AlikeFine
<1>8. y \in State
  BY <1>3, <1>6, SendType
<1>9. Fine(n, u, y, M, C)
  <2>1. Midway(n, u, M, C) /\ MessageOK(c, (M \cup Outs(u)) \cup {c})
    BY <1>3, <1>7 DEF Fine, MessageOK
  <2>2. PICK z : z = Broadcast(n, u, c)
    OBVIOUS
  <2>3. Fine(n, u, z, M, C)
    BY <1>3, <1>6, <2>1, <2>2, BroadcastFine
  <2> QED  BY <2>2, <2>3
<1> HIDE DEF y
<1>10. Fine(n, s, y, M, C)
  BY <1>6, <1>7, <1>8, <1>9, FineTransitive
<1>11. Fine(n, s, s, M, C)
  BY DEF Fine, Progress
<1> QED
  BY <1>1, <1>7, <1>10, <1>11

LEMMA OnConfirmAckFine ==
    ASSUME NEW s \in State, Good(s), NEW n \in Validators,
           NEW M \in SUBSET Message, NEW C, Midway(n, s, M, C),
           NEW m, m.src \in Validators, m.hash \in Hash
    PROVE  Fine(n, s, on_confirm_ack(n, s, m), M, C)
<1> DEFINE V == s.acks \cup {[src |-> m.src, hash |-> m.hash]}
           t == [s EXCEPT !.acks = V]
           qc == QuorumCertificate("ConfirmAck", m.hash, {v.src : v \in V} \cup {n})
           c == [type |-> "Commit", hash |-> m.hash, qc |-> qc]
           y == Broadcast(n, t, c)
           w == CommitAndAdvance(n, y, qc)
<1>1. /\ on_confirm_ack(n, s, m) \in {s, t, w}
      /\ on_confirm_ack(n, s, m) = s \/ (s.tag = "Leader" /\ s.step = "ConfirmAck")
  BY DEF on_confirm_ack
<1>2. V \in SUBSET Vote
  BY DEF State, Vote
<1>3. qc \in QC /\ qc # EmptyQC
  <2>1. {v.src : v \in V} \cup {n} \in SUBSET Validators
    BY <1>2 DEF Vote
  <2>2. n \in qc.signers /\ EmptyQC.signers = {}
    BY DEF QuorumCertificate, EmptyQC
  <2> QED  BY <2>1, <2>2 DEF QuorumCertificate, QC
<1> HIDE DEF qc
<1>4. c \in Message /\ c.type = "Commit"
  BY <1>3 DEF Message
<1> HIDE DEF V, c
<1>5. t \in State /\ Alike(s, t, {}) /\ t.step = s.step /\ t.cp = s.cp /\ t.slot = s.slot
  <2>1. DOMAIN s = Fields
    BY StateFields
  <2>2. t \in State
    BY <1>2 DEF State
  <2> QED  BY <2>1, <2>2 DEF Alike, Differs, Fields, Bookkeeping
<1> HIDE DEF t
<1>6. Fine(n, s, t, M, C)
  BY <1>5, AlikeFine
<1>7. y \in State /\ y.cp = t.cp /\ y.slot = t.slot /\ y.tag = t.tag
  BY <1>4, <1>5, SendType DEF Quiet, Frame
<1>8. Fine(n, t, y, M, C)
  <2>1. Midway(n, t, M, C) /\ MessageOK(c, (M \cup Outs(t)) \cup {c})
    BY <1>4, <1>6 DEF Fine, MessageOK
  <2>2. PICK z : z = Broadcast(n, t, c)
    OBVIOUS
  <2>3. Fine(n, t, z, M, C)
    BY <1>4, <1>5, <2>1, <2>2, BroadcastFine
  <2> QED  BY <2>2, <2>3
<1> HIDE DEF y
<1>9. Fine(n, s, y, M, C) /\ Midway(n, y, M, C)
  BY <1>5, <1>6, <1>7, <1>8, FineTransitive DEF Fine
<1>10. ASSUME s.tag = "Leader", s.step = "ConfirmAck"
       PROVE  Fine(n, s, w, M, C)
  <2>1. current_slot_prepare_is_present(y)
    BY <1>5, <1>7, <1>10 DEF Good, current_slot_prepare_is_present
  <2>2. y.tag # "Joining"
    BY <1>9 DEF Midway, Sound, RoleOK
  <2>3. w \in State /\ Fine(n, y, w, M, C)
    BY <1>3, <1>7, <1>9, <2>1, <2>2, CommitQCFine, CommitAndAdvanceOK DEF HandlerOK
  <2> HIDE DEF w
  <2> QED  BY <1>7, <1>9, <2>3, FineTransitive
<1>11. Fine(n, s, s, M, C)
  BY DEF Fine, Progress
<1> HIDE DEF w
<1> QED
  BY <1>1, <1>6, <1>10, <1>11

LEMMA OnCommitFine ==
    ASSUME NEW s \in State, NEW n \in Validators, NEW M \in SUBSET Message, NEW C,
           Midway(n, s, M, C), NEW m, m.qc \in QC
    PROVE  Fine(n, s, on_commit(n, s, m), M, C)
<1>1. s.tag # "Joining"
  BY DEF Midway, Sound, RoleOK
<1>2. \/ on_commit(n, s, m) = s
      \/ /\ on_commit(n, s, m) = CommitAndAdvance(n, s, m.qc)
         /\ current_slot_prepare_is_present(s)
         /\ verify_quorum_certificate("ConfirmAck", m.hash, m.qc)
  BY <1>1 DEF on_commit
<1>3. PICK qc : qc = m.qc
  OBVIOUS
<1>4. verify_quorum_certificate("ConfirmAck", m.hash, m.qc) => qc # EmptyQC
  BY <1>3, NotEmpty
<1>5. Fine(n, s, s, M, C)
  BY DEF Fine, Progress
<1> QED
  BY <1>2, <1>3, <1>4, <1>5, CommitQCFine

LEMMA OnSyncRequestFine ==
    ASSUME NEW s \in State, NEW n \in Validators, NEW M \in SUBSET Message, NEW C,
           Midway(n, s, M, C), NEW m, m.src \in Validators
    PROVE  Fine(n, s, on_sync_request(n, s, m), M, C)
<1>1. CASE contains(s, m.hash)
  <2>1. PICK p : p = get(s, m.hash)
    OBVIOUS
  <2>2. p \in s.prepares /\ p \in Prepare
    <3>1. Buffered(s, m.hash) # {} /\ Buffered(s, m.hash) \subseteq s.prepares
      BY <1>1 DEF contains, Buffered
    <3>2. p \in s.prepares
      BY <2>1, <3>1 DEF get
    <3> QED  BY <3>2 DEF State
  <2>3. PICK a : a = [type |-> "SyncReply", prepare |-> p]
    OBVIOUS
  <2>4. a \in Message /\ a.type = "SyncReply" /\ a.prepare = p
    BY <2>2, <2>3 DEF Message
  <2>5. PICK N : N = M \cup Outs(s)
    OBVIOUS
  <2>6. PrepareOK(p, N)
    BY <2>2, <2>5 DEF Midway, Sound, HoldsOK
  <2>7. MessageOK(a, N \cup {a})
    <3>1. PrepareOK(p, N \cup {a})
      BY <2>6, MoreEvidence
    <3> QED  BY <2>4, <3>1 DEF MessageOK
  <2>8. PICK to : to = {m.src}
    OBVIOUS
  <2>9. to \in SUBSET Validators
    BY <2>8
  <2>10. PICK z : z = Send(n, s, to, a)
    OBVIOUS
  <2>11. Fine(n, s, z, M, C)
    BY <2>4, <2>5, <2>7, <2>9, <2>10, SendFine
  <2> QED  BY <1>1, <2>1, <2>3, <2>8, <2>10, <2>11 DEF on_sync_request
<1>2. CASE ~contains(s, m.hash)
  BY <1>2 DEF on_sync_request, Fine, Progress
<1> QED
  BY <1>1, <1>2

\* Every message handler, on the evidence that was heard.
LEMMA HandleNetMessageFine ==
    ASSUME NEW s \in State, Good(s), NEW n \in Validators,
           NEW M \in SUBSET Message, NEW C, Consistent(M, C), Midway(n, s, M, C),
           NEW m \in M, NEW valid
    PROVE  Fine(n, s, handle_net_message(n, s, m, valid), M, C)
<1> DEFINE h == handle_net_message(n, s, m, valid)
<1>0. m \in Message /\ MessageOK(m, M)
  BY DEF Consistent
<1>1. CASE m.type = "Prepare"
  <2> DEFINE p == [src |-> m.src, prop |-> m.prop, ticket |-> m.ticket,
                   view |-> m.view]
  <2>1. p \in Prepare /\ p.prop = m.prop /\ p.ticket = m.ticket
    BY <1>0, <1>1 DEF Message, Prepare
  <2>2. h = on_prepare(n, s, p, valid)
    BY <1>1, Zenon DEF handle_net_message
  <2> HIDE DEF p, h
  <2>3. PrepareOK(p, M)
    BY <1>0, <1>1, <2>1 DEF MessageOK, PrepareOK, Proposals, Prepares
  <2>4. Fine(n, s, h, M, C)
    BY <2>1, <2>2, <2>3, OnPrepareFine
  <2> QED  BY <2>4 DEF h
<1>2. CASE m.type = "SyncReply"
  <2>1. PICK p : p = m.prepare
    OBVIOUS
  <2>2. p \in Prepare /\ PrepareOK(p, M)
    BY <1>0, <1>2, <2>1 DEF Message, MessageOK
  <2>3. h = on_prepare(n, s, p, valid)
    BY <1>2, <2>1 DEF handle_net_message
  <2> HIDE DEF h
  <2>4. Fine(n, s, h, M, C)
    BY <2>2, <2>3, OnPrepareFine
  <2> QED  BY <2>4 DEF h
<1>3. CASE m.type = "PrepareVote"
  <2>1. m.src \in Validators /\ m.hash \in Hash
    BY <1>0, <1>3 DEF Message
  <2>2. h = on_prepare_vote(n, s, m)
    BY <1>3 DEF handle_net_message
  <2> QED  BY <2>1, <2>2, OnPrepareVoteFine
<1>4. CASE m.type = "Confirm"
  <2>1. m.hash \in Hash /\ m.qc \in QC
    BY <1>0, <1>4 DEF Message
  <2>2. h = on_confirm(n, s, m)
    BY <1>4 DEF handle_net_message
  <2> QED  BY <2>1, <2>2, OnConfirmFine
<1>5. CASE m.type = "ConfirmAck"
  <2>1. m.src \in Validators /\ m.hash \in Hash
    BY <1>0, <1>5 DEF Message
  <2>2. h = on_confirm_ack(n, s, m)
    BY <1>5 DEF handle_net_message
  <2> QED  BY <2>1, <2>2, OnConfirmAckFine
<1>6. CASE m.type = "Commit"
  <2>1. m.qc \in QC
    BY <1>0, <1>6 DEF Message
  <2>2. h = on_commit(n, s, m)
    BY <1>6 DEF handle_net_message
  <2> QED  BY <2>1, <2>2, OnCommitFine
<1>7. CASE m.type = "Timeout"
  <2>1. h = on_timeout(n, s, m)
    BY <1>7 DEF handle_net_message
  <2> QED  BY <1>0, <1>7, <2>1, OnTimeoutFine
<1>8. CASE m.type = "TimeoutCertificate"
  <2>1. h = on_timeout_certificate(n, s, m)
    BY <1>8 DEF handle_net_message
  <2> QED  BY <1>0, <1>8, <2>1, OnTimeoutCertificateFine
<1>9. CASE m.type = "SyncRequest"
  <2>1. m.src \in Validators
    BY <1>0, <1>9 DEF Message
  <2>2. h = on_sync_request(n, s, m)
    BY <1>9 DEF handle_net_message
  <2> QED  BY <2>1, <2>2, OnSyncRequestFine
<1>10. m.type \in {"Prepare", "SyncReply", "PrepareVote", "Confirm", "ConfirmAck",
                   "Commit", "Timeout", "TimeoutCertificate", "SyncRequest"}
  BY <1>0 DEF Message
<1> HIDE DEF h
<1> QED
  BY <1>1, <1>2, <1>3, <1>4, <1>5, <1>6, <1>7, <1>8, <1>9, <1>10 DEF h

-----------------------------------------------------------------------------
(* A step of a validator keeps the evidence together.                       *)

\* What the step that leaves the state w must have done: N and D are the
\* messages and the certified proposals after it.
StepFine(n, s, w, M, C) ==
    LET N == M \cup Outs(w)
        D == C \cup CertifiedBy(w)
    IN  /\ Sound(n, w, N, D) /\ Consistent(N, D) /\ Progress(s, w)
        /\ \A p \in Prepares(Outs(w)) :
             p.src = n /\ n = round_leader(p.prop.slot, p.view) /\ Behind(p, w)

LEMMA MoreProposals ==
    ASSUME NEW M, NEW N, M \subseteq N, NEW C, NEW D, C \subseteq D, NEW p,
           ProposalOK(p, M, C)
    PROVE  ProposalOK(p, N, D)
BY DEF ProposalOK, Prepares

\* A handler that makes no proposal.
LEMMA HandlerFine ==
    ASSUME NEW s, NEW w, NEW n, NEW M, NEW C, Consistent(M, C), Fine(n, s, w, M, C)
    PROVE  StepFine(n, s, w, M, C)
<1>1. PICK N : N = M \cup Outs(w)
  OBVIOUS
<1>2. PICK D : D = C \cup CertifiedBy(w)
  OBVIOUS
<1>3. /\ Sound(n, w, N, D) /\ Progress(s, w) /\ CertifiedBy(w) \subseteq Proposals(M)
      /\ \A m \in Outs(w) : m.type # "Prepare" /\ MessageOK(m, N)
  BY <1>1, <1>2 DEF Fine, Midway, SentOK
<1>4. Prepares(N) = Prepares(M) /\ Prepares(Outs(w)) = {}
  BY <1>1, <1>3 DEF Prepares
<1>5. Proposals(N) = Proposals(M)
  BY <1>4 DEF Proposals
<1>6. OneProposal(N) /\ D \subseteq Proposals(N)
  BY <1>2, <1>3, <1>4, <1>5 DEF Consistent, OneProposal
<1>7. M \subseteq N /\ C \subseteq D
  BY <1>1, <1>2
<1>8. \A p \in Proposals(N) : ProposalOK(p, N, D)
  BY <1>5, <1>7, MoreProposals DEF Consistent
<1>9. \A m \in N : MessageOK(m, N)
  BY <1>1, <1>3, <1>7, MoreEvidence DEF Consistent
<1>10. Consistent(N, D)
  BY <1>6, <1>8, <1>9 DEF Consistent
<1> QED
  BY <1>1, <1>2, <1>3, <1>4, <1>10 DEF StepFine

\* A leader that has not proposed in its slot and view yet proposes prop: a
\* proposal at hand, or a new one on top of what the slot builds on.
LEMMA ProposeFine ==
    ASSUME NEW s \in State, NEW n \in Validators, NEW M \in SUBSET Message, NEW C,
           Consistent(M, C), Midway(n, s, M, C), s.out = <<>>, CertifiedBy(s) \subseteq C,
           NEW ticket \in Ticket, TicketOK(ticket, M),
           NEW prop \in Prop, prop.slot = s.slot,
           \/ prop \in Proposals(M)
           \/ prop.born = s.view /\ prop.parent = s.parent,
           s.tag = "Leader", s.step = "StartNewSlot",
           \A q \in Prepares(M) : ~(q.prop.slot = s.slot /\ q.view = s.view)
    PROVE  StepFine(n, s, Propose(n, s, prop, ticket), M, C)
<1> DEFINE a == [s EXCEPT !.cp = prop, !.step = "PrepareVote", !.ticket = None]
           p == [src |-> n, prop |-> prop, ticket |-> ticket, view |-> s.view]
           m == [type |-> "Prepare", src |-> n, prop |-> prop, ticket |-> ticket,
                 view |-> s.view]
           b == push(a, p)
           w == Broadcast(n, b, m)
           N == M \cup {m}
<1>1. Propose(n, s, prop, ticket) = w
  BY DEF Propose
<1>2. s.view \in Nat /\ s.slot \in Nat /\ DOMAIN s = Fields
  BY StateFields DEF State
<1>3. /\ DOMAIN a = Fields /\ a.cp = prop /\ a.step = "PrepareVote" /\ a.ticket = None
      /\ \A f \in Fields \ {"cp", "step", "ticket"} : a[f] = s[f]
  BY <1>2 DEF Fields
<1>4. /\ DOMAIN b = Fields
      /\ b.prepares = {q \in a.prepares : hashed(q.prop) # hashed(p.prop)} \cup {p}
      /\ \A f \in Fields \ {"prepares", "children"} : b[f] = a[f]
  <2> HIDE DEF a, p
  <2> QED  BY <1>3 DEF push, Fields
<1> HIDE DEF b
<1>5. /\ DOMAIN w = Fields /\ w.out = Append(b.out, [to |-> Validators \ {n}, msg |-> m])
      /\ \A f \in Fields \ {"out"} : w[f] = b[f]
  <2> HIDE DEF m
  <2> QED  BY <1>4 DEF Broadcast, Send, Fields
<1> HIDE DEF a, w
<1>6. /\ m \in Message /\ m.type = "Prepare" /\ m.src = n /\ m.prop = prop
      /\ m.ticket = ticket /\ m.view = s.view /\ p.prop = prop /\ p.ticket = ticket
  BY <1>2 DEF Message
<1> HIDE DEF m, p
<1>7. /\ w.slot = s.slot /\ w.view = s.view /\ w.parent = s.parent /\ w.tag = s.tag
      /\ w.next = s.next /\ w.reqs = s.reqs /\ w.hqc = s.hqc /\ w.life = s.life
      /\ w.commits = s.commits /\ w.cp = prop /\ w.step = "PrepareVote"
      /\ w.ticket = None
  BY <1>3, <1>4, <1>5 DEF Fields
<1>8. w.prepares \subseteq s.prepares \cup {p}
  BY <1>3, <1>4, <1>5 DEF Fields
<1>9. Outs(w) = {m} /\ Outs(s) = {}
  <2>1. b.out = <<>>
    BY <1>3, <1>4 DEF Fields
  <2>2. PICK e : e = [to |-> Validators \ {n}, msg |-> m]
    OBVIOUS
  <2>3. w.out = <<e>> /\ e.msg = m
    BY <1>5, <2>1, <2>2
  <2>4. DOMAIN w.out = {1} /\ w.out[1] = e
    BY <2>3
  <2> QED  BY <2>3, <2>4 DEF Outs
<1>10. CertifiedBy(w) = CertifiedBy(s) /\ C \cup CertifiedBy(w) = C
  BY <1>7 DEF CertifiedBy
<1>11. N \in SUBSET Message /\ M \subseteq N
  BY <1>6
<1>12. Sound(n, s, N, C)
  <2>1. M \cup Outs(s) = M /\ C \cup CertifiedBy(s) = C
    BY <1>9
  <2>2. Sound(n, s, M, C)
    BY <2>1 DEF Midway
  <2>3. PICK K : K = N
    OBVIOUS
  <2>4. Sound(n, s, K, C)
    BY <1>11, <2>2, <2>3, MoreSound
  <2> QED  BY <2>3, <2>4
<1>13. Prepares(N) = Prepares(M) \cup {m} /\ Proposals(N) = Proposals(M) \cup {prop}
  BY <1>6 DEF Prepares, Proposals
<1>14. TicketOK(ticket, N)
  BY <1>11, MoreEvidence
<1>15. Sound(n, w, N, C)
  <2>1. RoleOK(n, w) /\ CurrentOK(w, N)
    BY <1>7, <1>12, <1>13 DEF Sound, RoleOK, CurrentOK
  <2>2. RequestsOK(w, N) /\ ViewOK(w, N) /\ ChainOK(w, C)
    <3> HIDE DEF N
    <3> QED  BY <1>7, <1>12 DEF Sound, RequestsOK, HasPrepareQCForSlot, ViewOK, ChainOK
  <2>3. HoldsOK(w, N)
    <3>1. PrepareOK(p, N)
      BY <1>6, <1>13, <1>14 DEF PrepareOK
    <3> HIDE DEF N
    <3> QED  BY <1>7, <1>8, <1>12, <3>1 DEF Sound, HoldsOK
  <2> QED  BY <2>1, <2>2, <2>3 DEF Sound
<1>16. OneProposal(N)
  BY <1>6, <1>13 DEF Consistent, OneProposal
<1>17. C \subseteq Proposals(N)
  BY <1>13 DEF Consistent
<1>18. \A q \in Proposals(N) : ProposalOK(q, N, C)
  <2>1. ASSUME NEW q \in Proposals(M)
        PROVE  ProposalOK(q, N, C)
    <3>1. ProposalOK(q, M, C)
      BY DEF Consistent
    <3>2. PICK K : K = N
      OBVIOUS
    <3>3. ProposalOK(q, K, C)
      BY <1>11, <3>1, <3>2, MoreProposals
    <3> QED  BY <3>2, <3>3
  <2>2. ASSUME prop.born = s.view, prop.parent = s.parent
        PROVE  ProposalOK(prop, N, C)
    <3>1. m \in Prepares(N) /\ m.prop = prop /\ m.view = prop.born
      BY <1>6, <1>13, <2>2
    <3>2. prop.slot > 1 => \E d \in C : hashed(d) = prop.parent
      BY <1>12, <2>2 DEF Sound, ChainOK
    <3> QED  BY <3>1, <3>2 DEF ProposalOK
  <2> QED  BY <1>13, <2>1, <2>2
<1>19. \A x \in N : MessageOK(x, N)
  <2>1. MessageOK(m, N)
    BY <1>6, <1>14 DEF MessageOK
  <2>2. \A x \in M : MessageOK(x, N)
    <3>1. PICK K : K = N
      OBVIOUS
    <3>2. \A x \in M : MessageOK(x, K)
      BY <1>11, <3>1, MoreEvidence DEF Consistent
    <3> QED  BY <3>1, <3>2
  <2> QED  BY <2>1, <2>2
<1>20. Consistent(N, C)
  BY <1>16, <1>17, <1>18, <1>19 DEF Consistent
<1>21. Progress(s, w)
  BY <1>7 DEF Progress
<1>22. /\ m.src = n /\ n = round_leader(m.prop.slot, m.view) /\ Behind(m, w)
  BY <1>6, <1>7, <1>12 DEF Sound, RoleOK, Behind
<1>23. M \cup Outs(w) = N /\ \A x \in Prepares(Outs(w)) : x = m
  BY <1>9 DEF Prepares
<1> HIDE DEF N
<1>24. StepFine(n, s, w, M, C)
  BY <1>10, <1>15, <1>20, <1>21, <1>22, <1>23 DEF StepFine
<1> QED
  BY <1>1, <1>24

LEMMA StartRoundFine ==
    ASSUME NEW s \in State, NEW n \in Validators, NEW M \in SUBSET Message, NEW C,
           Consistent(M, C), Midway(n, s, M, C), s.out = <<>>, CertifiedBy(s) \subseteq C,
           \A q \in Prepares(M) :
             q.src = round_leader(q.prop.slot, q.view) /\ (q.src = n => Behind(q, s)),
           NEW may_delay, NEW delay, NEW fees \in BOOLEAN
    PROVE  StepFine(n, s, start_round(n, s, may_delay, delay, fees), M, C)
<1> DEFINE new == [slot |-> s.slot, born |-> Moment(s), fees |-> fees,
                   parent |-> s.parent]
           c == s.cmds \cup {FALSE}
           d == [s EXCEPT !.cmds = c]
           w == start_round(n, s, may_delay, delay, fees)
           Starts == s.tag = "Leader" /\ s.step = "StartNewSlot" /\ s.ticket # None
<1>1. \/ w = s \/ w = d
      \/ w = Propose(n, s, new, s.ticket) /\ Starts
      \/ /\ w = Propose(n, s, s.cp, s.ticket) /\ Starts
         /\ current_slot_prepare_is_present(s)
  BY DEF start_round
<1>2. /\ s.view \in Nat /\ s.slot \in Nat /\ s.cp \in Prop /\ s.parent \in Hash
      /\ s.ticket # None => s.ticket \in Ticket
  BY DEF State
<1>3. Moment(s) = s.view
  <2>1. s.life = 0
    BY DEF Midway, Sound, RoleOK
  <2>2. MaxView + 1 \in Int
    BY BoundsAssumption
  <2> QED  BY <1>2, <2>1, <2>2 DEF Moment
<1>4. /\ new \in Prop /\ new.slot = s.slot /\ new.born = s.view
      /\ new.parent = s.parent
  BY <1>2, <1>3 DEF Prop
<1> HIDE DEF new
<1>5. StepFine(n, s, s, M, C)
  <2>1. Fine(n, s, s, M, C)
    BY DEF Fine, Progress
  <2> QED  BY <2>1, HandlerFine
<1>6. StepFine(n, s, d, M, C)
  <2>1. DOMAIN s = Fields
    BY StateFields
  <2>2. Alike(s, d, {}) /\ d.step = s.step
    BY <2>1 DEF Alike, Differs, Fields, Bookkeeping
  <2> HIDE DEF d
  <2>3. Fine(n, s, d, M, C)
    BY <2>2, AlikeFine
  <2> QED  BY <2>3, HandlerFine
<1>7. ASSUME Starts, NEW prop \in Prop, prop.slot = s.slot,
             \/ prop \in Proposals(M)
             \/ prop.born = s.view /\ prop.parent = s.parent
      PROVE  StepFine(n, s, Propose(n, s, prop, s.ticket), M, C)
  <2>1. \A q \in Prepares(M) : ~(q.prop.slot = s.slot /\ q.view = s.view)
    <3>1. round_leader(s.slot, s.view) = n
      BY <1>7 DEF Midway, Sound, RoleOK
    <3> QED  BY <1>2, <1>7, <3>1 DEF Behind
  <2>2. M \cup Outs(s) = M
    BY DEF Outs
  <2>3. TicketOK(s.ticket, M)
    BY <1>7, <2>2 DEF Midway, Sound, HoldsOK
  <2>4. PICK k : k = s.ticket
    OBVIOUS
  <2>5. k \in Ticket /\ TicketOK(k, M)
    BY <1>2, <1>7, <2>3, <2>4
  <2>6. StepFine(n, s, Propose(n, s, prop, k), M, C)
    BY <1>7, <2>1, <2>5, ProposeFine
  <2> QED  BY <2>4, <2>6
<1>8. current_slot_prepare_is_present(s) => s.cp.slot = s.slot /\ s.cp \in Proposals(M)
  <2>1. M \cup Outs(s) = M
    BY DEF Outs
  <2> QED  BY <2>1 DEF current_slot_prepare_is_present, Midway, Sound, CurrentOK
<1> HIDE DEF w, d, Starts
<1>9. StepFine(n, s, w, M, C)
  BY <1>1, <1>2, <1>4, <1>5, <1>6, <1>7, <1>8
<1> QED
  BY <1>9 DEF w

\* Between two steps, a validator's state is as a handler may find it.
LEMMA Ready ==
    ASSUME IInv, Evidence, NEW n \in Validators, st[n].out = <<>>
    PROVE  /\ st[n] \in State /\ Good(st[n]) /\ Heard \in SUBSET Message
           /\ Midway(n, st[n], Heard, Certified)
           /\ CertifiedBy(st[n]) \subseteq Certified
           /\ Outs(st[n]) = {}
<1>1. st[n] \in State /\ Good(st[n]) /\ Heard \in SUBSET Message
  BY DEF IInv, TypeOK, Heard, Envelope
<1>2. Outs(st[n]) = {}
  BY DEF Outs
<1>3. CertifiedBy(st[n]) \subseteq Certified
  BY DEF Certified
<1>4. Heard \cup Outs(st[n]) = Heard /\ Certified \cup CertifiedBy(st[n]) = Certified
  BY <1>2, <1>3
<1>5. Sound(n, st[n], Heard, Certified) /\ Certified \subseteq Proposals(Heard)
  BY DEF Evidence, Consistent
<1>6. Midway(n, st[n], Heard, Certified)
  BY <1>2, <1>3, <1>4, <1>5 DEF Midway, SentOK
<1> QED
  BY <1>1, <1>2, <1>3, <1>6

\* The evidence as a fact about a function and two sets.
EvidenceOf(f, M, C) ==
    /\ \A n \in Validators : Sound(n, f[n], M, C)
    /\ Consistent(M, C)
    /\ \A p \in Prepares(M) :
         p.src = round_leader(p.prop.slot, p.view) /\ Behind(p, f[p.src])

LEMMA BecomesFine ==
    ASSUME IInv, Evidence, NEW n \in Validators, NEW w, HandlerOK(st[n], w),
           StepFine(n, st[n], w, Heard, Certified), Becomes(n, w)
    PROVE  Evidence' /\ st'[n].out = <<>>
<1> DEFINE t == [w EXCEPT !.out = <<>>]
<1>1. w \in State /\ CommitStep(st[n], w) /\ st \in [Validators -> State]
      /\ Heard \in SUBSET Message
  BY DEF HandlerOK, Moves, IInv, TypeOK, Heard, Envelope
<1>2. DOMAIN w = Fields
  BY <1>1, StateFields
<1>3. t.out = <<>> /\ \A f \in Fields \ {"out"} : t[f] = w[f]
  BY <1>2 DEF Fields
<1>4. /\ t.slot = w.slot /\ t.view = w.view /\ t.parent = w.parent /\ t.cp = w.cp
      /\ t.tag = w.tag /\ t.ticket = w.ticket /\ t.prepares = w.prepares
      /\ t.next = w.next /\ t.reqs = w.reqs /\ t.hqc = w.hqc /\ t.life = w.life
      /\ t.commits = w.commits /\ t.step = w.step
  BY <1>3 DEF Fields
<1>5. st' = [st EXCEPT ![n] = t]
  BY DEF Becomes
<1> HIDE DEF t
<1>6. \A v \in Validators : st'[v] = IF v = n THEN t ELSE st[v]
  BY <1>1, <1>5
<1>7. PICK N : N = Heard \cup Outs(w)
  OBVIOUS
<1>8. PICK D : D = Certified \cup CertifiedBy(w)
  OBVIOUS
<1>9. Heard' = N
  BY <1>7 DEF Becomes, Heard, Outs
<1>10. Certified' = D
  <2>1. CertifiedBy(st[n]) \subseteq CertifiedBy(w)
    <3>1. CASE w.commits = st[n].commits
      BY <3>1 DEF CertifiedBy
    <3>2. CASE w.commits # st[n].commits
      <4>1. PICK c : w.commits = Append(st[n].commits, c)
        BY <1>1, <3>2 DEF CommitStep
      <4>2. st[n].commits \in Seq(Committed) /\ w.commits \in Seq(Committed)
        BY <1>1 DEF State
      <4>3. \A i \in DOMAIN st[n].commits :
              i \in DOMAIN w.commits /\ w.commits[i] = st[n].commits[i]
        BY <4>1, <4>2
      <4> QED  BY <4>3 DEF CertifiedBy
    <3> QED  BY <3>1, <3>2
  <2>2. CertifiedBy(t) = CertifiedBy(w)
    BY <1>4 DEF CertifiedBy
  <2>3. Certified' = UNION {CertifiedBy(st'[v]) : v \in Validators}
    BY DEF Certified
  <2>4. \A v \in Validators :
          CertifiedBy(st'[v]) = IF v = n THEN CertifiedBy(w) ELSE CertifiedBy(st[v])
    BY <1>6, <2>2
  <2>5. Certified' = UNION {IF v = n THEN CertifiedBy(w) ELSE CertifiedBy(st[v]) :
                              v \in Validators}
    BY <2>3, <2>4
  <2> QED  BY <1>8, <2>1, <2>5 DEF Certified
<1>11. /\ Sound(n, w, N, D) /\ Consistent(N, D) /\ Progress(st[n], w)
       /\ \A p \in Prepares(Outs(w)) :
            p.src = n /\ n = round_leader(p.prop.slot, p.view) /\ Behind(p, w)
  BY <1>7, <1>8 DEF StepFine
<1>12. \A v \in Validators : Sound(v, st'[v], N, D)
  <2>1. Sound(n, t, N, D)
    BY <1>4, <1>11 DEF Sound, RoleOK, CurrentOK, RequestsOK, HasPrepareQCForSlot,
                       ViewOK, HoldsOK, ChainOK
  <2>2. N \in SUBSET Message /\ Heard \subseteq N /\ Certified \subseteq D
    BY <1>1, <1>7, <1>8, OutsType
  <2>3. ASSUME NEW v \in Validators
        PROVE  Sound(v, st[v], N, D)
    <3>1. st[v] \in State /\ Sound(v, st[v], Heard, Certified)
      BY <1>1 DEF Evidence
    <3> QED  BY <1>1, <2>2, <3>1, MoreSound
  <2> QED  BY <1>6, <2>1, <2>3
<1>13. ASSUME NEW p \in Prepares(N)
       PROVE  p.src = round_leader(p.prop.slot, p.view) /\ Behind(p, st'[p.src])
  <2>1. CASE p \in Prepares(Outs(w))
    BY <1>4, <1>6, <1>11, <2>1 DEF Behind
  <2>2. CASE p \in Prepares(Heard)
    <3>1. p.src = round_leader(p.prop.slot, p.view) /\ Behind(p, st[p.src])
      BY <2>2 DEF Evidence, LeadersOK
    <3>2. p \in Message /\ p.type = "Prepare"
      BY <1>1, <2>2 DEF Prepares
    <3>3. p.src \in Validators /\ p.prop.slot \in Nat /\ p.view \in Nat
      BY <3>2 DEF Message, Prop
    <3>4. CASE p.src = n
      <4>1. Behind(p, w)
        BY <1>1, <1>11, <3>1, <3>3, <3>4, BehindProgress
      <4> QED  BY <1>4, <1>6, <3>1, <3>4, <4>1 DEF Behind
    <3>5. CASE p.src # n
      BY <1>6, <3>1, <3>3, <3>5
    <3> QED  BY <3>4, <3>5
  <2> QED  BY <1>7, <2>1, <2>2 DEF Prepares
<1>14. EvidenceOf(st', Heard', Certified')
  BY <1>9, <1>10, <1>11, <1>12, <1>13 DEF EvidenceOf
<1>15. Evidence'
  BY <1>14 DEF Evidence, EvidenceOf, LeadersOK
<1> QED
  BY <1>3, <1>6, <1>15

-----------------------------------------------------------------------------
(* The inductive invariant, and the theorems.                               *)

LEMMA ReceivesFine ==
    ASSUME IInv, Evidence, \A v \in Validators : st[v].out = <<>>,
           NEW n \in Validators, NEW type, Receives(n, type)
    PROVE  Evidence'
<1>1. /\ st[n] \in State /\ Good(st[n]) /\ Heard \in SUBSET Message
      /\ Midway(n, st[n], Heard, Certified) /\ Consistent(Heard, Certified)
  BY Ready DEF Evidence
<1>2. PICK m \in Inbox(n, type) : \E valid \in OutcomesOf(m) :
        Becomes(n, handle_net_message(n, st[n], m, valid))
  BY DEF Receives
<1>3. PICK valid \in OutcomesOf(m) :
        Becomes(n, handle_net_message(n, st[n], m, valid))
  BY <1>2
<1>4. m \in Heard /\ m \in Message
  BY <1>1, <1>2 DEF Inbox, Heard
<1>5. PICK w : w = handle_net_message(n, st[n], m, valid)
  OBVIOUS
<1>6. HandlerOK(st[n], w)
  BY <1>1, <1>4, <1>5, HandleNetMessageOK
<1>7. Fine(n, st[n], w, Heard, Certified)
  BY <1>1, <1>4, <1>5, HandleNetMessageFine
<1>8. StepFine(n, st[n], w, Heard, Certified)
  BY <1>1, <1>7, HandlerFine
<1> QED
  BY <1>3, <1>5, <1>6, <1>8, BecomesFine

LEMMA StartNewSlotFine ==
    ASSUME IInv, Evidence, \A v \in Validators : st[v].out = <<>>,
           NEW n \in Validators, StartNewSlot(n)
    PROVE  Evidence'
<1>1. /\ st[n] \in State /\ Good(st[n]) /\ Heard \in SUBSET Message
      /\ Midway(n, st[n], Heard, Certified) /\ Consistent(Heard, Certified)
      /\ CertifiedBy(st[n]) \subseteq Certified
  BY Ready DEF Evidence
<1>2. PICK may_delay \in st[n].cmds, delay \in BOOLEAN, fees \in Fees :
        Becomes(n, start_round(n, [st[n] EXCEPT !.cmds = @ \ {may_delay}],
                               may_delay, delay, fees))
  BY DEF StartNewSlot
<1> DEFINE c == st[n].cmds \ {may_delay}
           s == [st[n] EXCEPT !.cmds = c]
           w == start_round(n, s, may_delay, delay, fees)
<1>3. c \in SUBSET BOOLEAN /\ fees \in BOOLEAN /\ DOMAIN st[n] = Fields
  BY <1>1, BoundsAssumption, StateFields DEF State
<1>4. Becomes(n, w)
  BY <1>2
<1> HIDE DEF c
<1>5. s \in State /\ Quiet(st[n], s)
  BY <1>1, <1>3 DEF State, Quiet, Frame
<1>6. Alike(st[n], s, {}) /\ s.step = st[n].step /\ s.out = <<>>
      /\ s.commits = st[n].commits /\ s.slot = st[n].slot /\ s.view = st[n].view
  BY <1>3 DEF Alike, Differs, Fields, Bookkeeping
<1> HIDE DEF s
<1>7. Good(s)
  BY <1>1, <1>5, QuietOK DEF HandlerOK
<1>8. HandlerOK(s, w)
  BY <1>3, <1>5, <1>7, StartRoundOK
<1>9. Midway(n, s, Heard, Certified)
  BY <1>1, <1>6, AlikeFine DEF Fine
<1>10. CertifiedBy(s) \subseteq Certified
  BY <1>1, <1>6 DEF CertifiedBy
<1>11. \A q \in Prepares(Heard) :
         q.src = round_leader(q.prop.slot, q.view) /\ (q.src = n => Behind(q, s))
  BY <1>6 DEF Evidence, LeadersOK, Behind
<1>12. StepFine(n, s, w, Heard, Certified)
  BY <1>1, <1>3, <1>5, <1>6, <1>9, <1>10, <1>11, StartRoundFine
<1> HIDE DEF w
<1>13. HandlerOK(st[n], w)
  BY <1>5, <1>8, FrameLeft DEF HandlerOK, Quiet
<1>14. Progress(s, w) => Progress(st[n], w)
  BY <1>6 DEF Progress
<1>15. StepFine(n, st[n], w, Heard, Certified)
  BY <1>12, <1>14 DEF StepFine
<1> QED
  BY <1>4, <1>13, <1>15, BecomesFine

\* No validator joins before the first restart, so no block is followed.
LEMMA StepFineOK ==
    ASSUME IInv, Evidence, \A v \in Validators : st[v].out = <<>>,
           NEW n \in Validators, ValidatorStep(n), ~Restart(n)
    PROVE  Evidence'
<1>1. /\ st[n] \in State /\ Good(st[n]) /\ Heard \in SUBSET Message
      /\ Midway(n, st[n], Heard, Certified) /\ Consistent(Heard, Certified)
      /\ Outs(st[n]) = {}
  BY Ready DEF Evidence
<1>2. Sound(n, st[n], Heard, Certified)
  BY DEF Evidence
<1>3. CASE FastForward(n)
  <2>1. PICK p : p = st[n].next
    OBVIOUS
  <2>2. PICK valid : Becomes(n, on_prepare(n, st[n], p, valid))
    BY <1>3, <2>1 DEF FastForward
  <2>3. p \in Prepare /\ PrepareOK(p, Heard)
    BY <1>1, <1>2, <1>3, <2>1 DEF FastForward, Idle, State, Sound, HoldsOK
  <2>4. PICK w : w = on_prepare(n, st[n], p, valid)
    OBVIOUS
  <2>5. HandlerOK(st[n], w)
    BY <1>1, <2>3, <2>4, OnPrepareOK
  <2>6. Fine(n, st[n], w, Heard, Certified)
    BY <1>1, <2>3, <2>4, OnPrepareFine
  <2>7. StepFine(n, st[n], w, Heard, Certified)
    BY <1>1, <2>6, HandlerFine
  <2> QED  BY <2>2, <2>4, <2>5, <2>7, BecomesFine
<1>4. CASE TimeoutTick(n)
  <2>1. PICK w : w = on_timeout_tick(n, st[n])
    OBVIOUS
  <2>2. Becomes(n, w)
    BY <1>4, <2>1 DEF TimeoutTick
  <2>3. HandlerOK(st[n], w)
    BY <1>1, <2>1, OnTimeoutTickOK
  <2>4. Fine(n, st[n], w, Heard, Certified)
    BY <1>1, <2>1, TickFine
  <2>5. StepFine(n, st[n], w, Heard, Certified)
    BY <1>1, <2>4, HandlerFine
  <2> QED  BY <2>2, <2>3, <2>5, BecomesFine
<1>5. ~NewBlock(n)
  BY <1>2 DEF NewBlock, Sound, RoleOK
<1>6. CASE StartNewSlot(n)
  BY <1>6, StartNewSlotFine
<1>7. CASE \E type : Receives(n, type)
  BY <1>7, ReceivesFine
<1> QED
  BY <1>3, <1>4, <1>5, <1>6, <1>7
     DEF ValidatorStep, OnPrepare, OnSyncReply, OnPrepareVote, OnConfirm,
         OnConfirmAck, OnCommit, OnTimeout, OnTimeoutCertificate, OnSyncRequest

LEMMA OutboxEmpty ==
    ASSUME IInv, \A v \in Validators : st[v].out = <<>>,
           NEW n \in Validators, ValidatorStep(n)
    PROVE  \A v \in Validators : st'[v].out = <<>>
<1>1. st \in [Validators -> State] /\ IInv'
  BY StepOK DEF IInv, TypeOK
<1>2. ASSUME NEW w, Becomes(n, w)
      PROVE  \A v \in Validators : st'[v].out = <<>>
  <2> DEFINE e == <<>>
             t == [w EXCEPT !.out = e]
  <2>1. st' = [st EXCEPT ![n] = t]
    BY <1>2 DEF Becomes
  <2> HIDE DEF t
  <2>2. \A v \in Validators : st'[v] = IF v = n THEN t ELSE st[v]
    BY <1>1, <2>1
  <2>3. t \in State
    BY <1>1, <2>2 DEF IInv, TypeOK
  <2>4. "out" \in DOMAIN t
    BY <2>3 DEF State
  <2>5. DOMAIN t = DOMAIN w
    BY DEF t
  <2>6. t.out = e
    BY <2>4, <2>5 DEF t
  <2> QED  BY <2>2, <2>6
<1>3. ASSUME NEW height, st' = [st EXCEPT ![n] = wait_genesis(st[n], height)]
      PROVE  \A v \in Validators : st'[v].out = <<>>
  <2>1. DOMAIN st[n] = Fields
    BY <1>1, StateFields
  <2>2. wait_genesis(st[n], height).out = st[n].out
    BY <2>1 DEF wait_genesis, Fields
  <2> QED  BY <1>1, <1>3, <2>2
<1>4. (\E w : Becomes(n, w)) \/
      (\E height : st' = [st EXCEPT ![n] = wait_genesis(st[n], height)])
  BY DEF ValidatorStep, StartNewSlot, FastForward, Receives, TimeoutTick, NewBlock,
         Restart, OnPrepare, OnSyncReply, OnPrepareVote, OnConfirm,
         OnConfirmAck, OnCommit, OnTimeout, OnTimeoutCertificate, OnSyncRequest
<1> QED
  BY <1>2, <1>3, <1>4

LEMMA EvidenceInit == Init => EInv
<1> SUFFICES ASSUME Init PROVE EInv
  OBVIOUS
<1>1. PICK boot \in Boots : st = [n \in Validators |-> InitialState(n, boot)]
  BY DEF Init
<1>2. IInv /\ Heard = {}
  BY InitOK DEF Init, Heard
<1>3. ASSUME NEW n \in Validators
      PROVE  st[n].out = <<>> /\ st[n].commits = <<>> /\ Sound(n, st[n], {}, {})
  <2>1. st[n] = InitialState(n, boot)
    BY <1>1
  <2>2. /\ st[n].slot = 1 /\ st[n].view = 0 /\ st[n].cp = DefaultProposal(0)
        /\ st[n].tag = IF round_leader(1, 0) = n THEN "Leader" ELSE "Follower"
        /\ st[n].prepares = {} /\ st[n].next = None /\ st[n].reqs = {}
        /\ st[n].hqc = None /\ st[n].life = 0 /\ st[n].commits = <<>>
        /\ st[n].out = <<>>
    BY <2>1 DEF InitialState
  <2>3. st[n].ticket \in {None, CommitTicket(ParentQC), GenesisTicket}
    BY <2>1 DEF InitialState
  <2>4. \A M : st[n].ticket # None => TicketOK(st[n].ticket, M)
    BY <2>3 DEF TicketOK, CommitTicket, GenesisTicket
  <2>5. st[n].cp.slot = 0
    BY <2>2 DEF DefaultProposal
  <2>6. RoleOK(n, st[n]) /\ CurrentOK(st[n], {}) /\ ViewOK(st[n], {})
    BY <2>2, <2>5 DEF RoleOK, CurrentOK, ViewOK
  <2>7. RequestsOK(st[n], {}) /\ HoldsOK(st[n], {}) /\ ChainOK(st[n], {})
    BY <2>2, <2>4 DEF RequestsOK, HoldsOK, ChainOK
  <2> QED  BY <2>2, <2>6, <2>7 DEF Sound
<1>4. Certified = {}
  BY <1>3 DEF Certified, CertifiedBy
<1>5. Prepares({}) = {} /\ Proposals({}) = {}
  BY DEF Prepares, Proposals
<1>6. Consistent({}, {}) /\ LeadersOK
  BY <1>2, <1>5 DEF Consistent, OneProposal, LeadersOK
<1> QED
  BY <1>2, <1>3, <1>4, <1>6 DEF EInv, Evidence

LEMMA EvidenceNext ==
    ASSUME EInv, [Next]_vars
    PROVE  EInv'
<1>1. CASE Next
  <2>1. PICK n \in Validators : ValidatorStep(n)
    BY <1>1 DEF Next
  <2>2. IInv' /\ \A v \in Validators : st'[v].out = <<>>
    BY <2>1, StepOK, OutboxEmpty DEF EInv
  <2>3. restarts' = 0 => restarts = 0 /\ ~Restart(n)
    <3>1. restarts \in Nat
      BY DEF EInv, IInv, TypeOK
    <3>2. Restart(n) => restarts' = restarts + 1
      BY DEF Restart
    <3>3. ~Restart(n) => restarts' = restarts
      BY <2>1 DEF ValidatorStep, StartNewSlot, FastForward, Receives, TimeoutTick,
           NewBlock, OnPrepare, OnSyncReply, OnPrepareVote, OnConfirm, OnConfirmAck,
           OnCommit, OnTimeout, OnTimeoutCertificate, OnSyncRequest, Becomes
    <3> QED  BY <3>1, <3>2, <3>3
  <2>4. restarts' = 0 => Evidence'
    BY <2>1, <2>3, StepFineOK DEF EInv
  <2> QED  BY <2>2, <2>4 DEF EInv
<1>2. CASE UNCHANGED vars
  <2>1. st' = st /\ msgs' = msgs /\ restarts' = restarts
    BY <1>2 DEF vars
  <2>2. IInv'
    BY NextOK DEF EInv
  <2>3. Heard' = Heard /\ Certified' = Certified
    BY <2>1 DEF Heard, Certified
  <2>4. Evidence => Evidence'
    BY <2>1, <2>3 DEF Evidence, LeadersOK
  <2> QED  BY <2>1, <2>2, <2>4 DEF EInv
<1> QED
  BY <1>1, <1>2

\* For as long as nobody restarted, everything that validators hold and sent is
\* backed by messages that were sent and by proposals that were committed with
\* a certificate.
THEOREM AlwaysBacked == Spec => []EInv
<1>1. EInv /\ [Next]_vars => EInv'
  BY EvidenceNext
<1> QED
  BY <1>1, EvidenceInit, PTL DEF Spec

\* Until a validator restarts, a leader makes one proposal per slot and view,
\* whatever tickets, reproposals and delays (start_round) brought it there.
THEOREM OneProposalAlways == Spec => [](restarts = 0 => OneProposalPerView)
<1>1. EInv => (restarts = 0 => OneProposalPerView)
  <2>1. Messages("Prepare") = Prepares(Heard)
    BY DEF Messages, Prepares, Heard
  <2> QED
    BY <2>1 DEF EInv, Evidence, Consistent, OneProposal, OneProposalPerView
<1> QED
  BY <1>1, AlwaysBacked, PTL

\* Until a validator restarts, each one that is in a view above 0, by its own
\* certificate, a TimeoutCertificate or the ticket of a Prepare, is there
\* because a quorum asked to leave the view before.
THEOREM ViewChangesAlwaysCertified ==
    Spec => [](restarts = 0 => ViewChangesAreCertified)
<1>1. EInv => (restarts = 0 => ViewChangesAreCertified)
  <2> SUFFICES ASSUME EInv, restarts = 0, NEW n \in Validators, st[n].view > 0
               PROVE  IsQuorum(compute_voting_power(
                        {m.src : m \in {m \in Messages("Timeout") :
                                          /\ m.slot = st[n].slot
                                          /\ m.view = st[n].view - 1}}))
    BY DEF ViewChangesAreCertified
  <2>1. PICK l : l = st[n].slot
    OBVIOUS
  <2>2. PICK v : v = st[n].view - 1
    OBVIOUS
  <2>3. Askers(Heard, l, v)
          = {m.src : m \in {m \in Messages("Timeout") : m.slot = l /\ m.view = v}}
    BY DEF Askers, Asks, Heard, Messages
  <2>4. IsQuorum(compute_voting_power(Askers(Heard, l, v)))
    BY <2>1, <2>2 DEF EInv, Evidence, Sound, ViewOK
  <2> QED  BY <2>1, <2>2, <2>3, <2>4
<1> QED
  BY <1>1, AlwaysBacked, PTL

\* Until a validator restarts, fast-forwarding is safe: what ForceCommit commits
\* without a certificate, on the ticket of the next slot, is a proposal that some
\* validator committed with one.
THEOREM ForcedAlwaysCertified ==
    Spec => [](restarts = 0 => ForcedCommitsAreCertified)
<1>1. EInv => (restarts = 0 => ForcedCommitsAreCertified)
  <2> SUFFICES ASSUME EInv, restarts = 0, NEW n \in Validators, NEW c \in Commits(n)
               PROVE  \E m \in Validators : \E d \in Commits(m) :
                        d.prop = c.prop /\ d.qc # EmptyQC
    BY DEF ForcedCommitsAreCertified
  <2>1. c.prop \in Certified
    BY DEF EInv, Evidence, Sound, ChainOK, Commits
  <2>2. PICK m \in Validators : c.prop \in CertifiedBy(st[m])
    BY <2>1 DEF Certified
  <2>3. PICK i \in DOMAIN st[m].commits :
          st[m].commits[i].qc # EmptyQC /\ c.prop = st[m].commits[i].prop
    BY <2>2 DEF CertifiedBy
  <2>4. st[m].commits[i] \in Commits(m)
    BY DEF Commits
  <2> QED  BY <2>3, <2>4
<1> QED
  BY <1>1, AlwaysBacked, PTL

-----------------------------------------------------------------------------
(* Certificates: what stands behind a commit certificate, restarts or not.  *)
(* The evidence here is the votes that were cast, so nothing is asked of a  *)
(* validator's past: a state that was saved and loaded again is as good as  *)
(* one that was not.                                                        *)

VotersIn(M, type, h) == {m.src : m \in {m \in M : m.type = type /\ m.hash = h}}

\* Somebody proposed what h is the hash of, and has a quorum of votes for it,
\* its own included.
Voted(h, M) ==
    \E p \in Prepares(M) :
      /\ hashed(p.prop) = h
      /\ IsQuorum(compute_voting_power(VotersIn(M, "PrepareVote", h) \cup {p.src}))

\* Every signer but the one that collected the signatures acknowledged it.
Acked(qc, M) ==
    /\ Voted(qc.hash, M)
    /\ \E l \in Validators :
         qc.signers \subseteq VotersIn(M, "ConfirmAck", qc.hash) \cup {l}

\* The certificate of the block that the run begins after has no votes in it.
CommitQCOK(qc, M) == qc.hash.slot > 0 => Acked(qc, M)

\* A prepare certificate sent in a timeout message of the slot.
KindVoted(kind, slot, M) ==
    KindOK(kind, slot, M) /\ (kind # NilProposal => Voted(kind.qc.hash, M))

TCVoted(qc, kind, M) == KindVoted(kind, qc.hash.slot, M) /\ qc.hash.view < MaxView

TicketVoted(ticket, M) ==
    /\ ticket.type = "CommitQC" => CommitQCOK(ticket.qc, M)
    /\ ticket.type = "TimeoutQC" => TCVoted(ticket.qc, ticket.kind, M)

\* A Prepare was sent by its source, perhaps with another ticket.
PrepareVoted(p, M) ==
    /\ TicketVoted(p.ticket, M)
    /\ \E q \in Prepares(M) : q.src = p.src /\ q.prop = p.prop /\ q.view = p.view

MessageVoted(m, M) ==
    /\ m.type = "Prepare" => TicketVoted(m.ticket, M)
    /\ m.type = "SyncReply" => PrepareVoted(m.prepare, M)
    /\ m.type = "Confirm" => Voted(m.qc.hash, M)
    /\ m.type = "ConfirmAck" => Voted(m.hash, M)
    /\ m.type = "Commit" => CommitQCOK(m.qc, M)
    /\ m.type = "Timeout" => KindVoted(m.kind, m.slot, M) /\ m.view < MaxView
    /\ m.type = "TimeoutCertificate" => TCVoted(m.qc, m.kind, M)

\* A vote is not sent to the validator that casts it.
Addressed(e) ==
    e.msg.type \in {"PrepareVote", "ConfirmAck"} => e.msg.src \notin e.to

EnvelopeVoted(e, M) == MessageVoted(e.msg, M) /\ Addressed(e)

-----------------------------------------------------------------------------
(* The same of the state s of validator n.                                  *)

\* c was committed with a certificate, or on the word of the next slot.
CommitVoted(c, M) ==
    c.qc # EmptyQC =>
      /\ c.qc.hash = hashed(c.prop) /\ c.prop \in Proposals(M)
      /\ IsQuorum(compute_voting_power(c.qc.signers)) /\ Acked(c.qc, M)

\* The certificates, tickets and Prepares that s keeps.
Keeps(s, M) ==
    /\ s.slot > 0 /\ s.view <= MaxView
    /\ s.cp.slot >= s.slot => s.cp \in Proposals(M)
    /\ s.hqc # None => Voted(s.hqc.qc.hash, M)
    /\ s.ticket # None => TicketVoted(s.ticket, M)
    /\ \A p \in s.prepares : PrepareVoted(p, M)
    /\ s.next # None => PrepareVoted(s.next, M)
    /\ \A i \in DOMAIN s.commits : CommitVoted(s.commits[i], M)

\* The votes that s counts were cast by others.
Collects(n, s, M) ==
    /\ \A v \in s.votes : v.src # n /\ v.src \in VotersIn(M, "PrepareVote", v.hash)
    /\ \A v \in s.acks : v.src # n /\ v.src \in VotersIn(M, "ConfirmAck", v.hash)

\* A leader leads its view, and collects votes for what it proposed, or for what
\* it has already seen a certificate of.
Leads(n, s, M) ==
    s.tag = "Leader" =>
      /\ round_leader(s.slot, s.view) = n
      /\ s.step = "PrepareVote" =>
           \/ Voted(hashed(s.cp), M)
           \/ \E q \in Prepares(M) : q.src = n /\ hashed(q.prop) = hashed(s.cp)

Holds(n, s, M) == Keeps(s, M) /\ Collects(n, s, M) /\ Leads(n, s, M)

\* s has left the view, or is done proposing in it.
Past(slot, view, s) ==
    /\ s.tag # "Joining"
    /\ \/ slot < s.slot
       \/ slot = s.slot /\ view < s.view
       \/ slot = s.slot /\ view = s.view /\ s.step # "StartNewSlot"

\* p was first made by the leader of a view, in its life l, and that leader (f
\* holds the states) has left the view or this life.
Made(p, f) ==
    \E l \in Nat : \E v \in 0 .. MaxView :
      LET s == f[round_leader(p.slot, v)]
      IN  /\ p.born = v + l * (MaxView + 1)
          /\ l <= s.life /\ (l = s.life => Past(p.slot, v, s))

\* The hash of a proposal tells it from the others.
HashesTell(M) == \A p, q \in Proposals(M) : hashed(p) = hashed(q) => p = q

Certificates ==
    /\ \A n \in Validators : Holds(n, st[n], Heard)
    /\ \A e \in msgs : EnvelopeVoted(e, Heard)
    /\ \A p \in Proposals(Heard) : Made(p, st)
    /\ HashesTell(Heard)

\* The outbox is empty between two steps.
CInv == IInv /\ (\A n \in Validators : st[n].out = <<>>) /\ Certificates

\* What a handler has sent so far: no proposal, and nothing without evidence.
Sends(s, M) ==
    \A i \in DOMAIN s.out :
      s.out[i].msg.type # "Prepare" /\ EnvelopeVoted(s.out[i], M)

\* The state in the middle of a handler of n, which received what is in M.
Holding(n, s, M) == Holds(n, s, M) /\ Sends(s, M)

\* t is later than s in the same life of a validator.
Later(s, t) ==
    t.life = s.life /\ (s.tag # "Joining" => t.tag # "Joining" /\ Progress(s, t))

\* What a handler that makes no proposal must do.
Kept(n, s, t, M) == Holding(n, t, M) /\ Later(s, t)

LEMMA LaterTransitive ==
    ASSUME NEW s \in State, NEW t \in State, NEW u \in State, Later(s, t), Later(t, u)
    PROVE  Later(s, u)
BY ProgressTransitive DEF Later

LEMMA KeptTransitive ==
    ASSUME NEW s \in State, NEW t \in State, NEW u \in State, NEW n, NEW M,
           Kept(n, s, t, M), Kept(n, t, u, M)
    PROVE  Kept(n, s, u, M)
BY LaterTransitive DEF Kept

LEMMA KeptSelf ==
    ASSUME NEW s, NEW n, NEW M, Holding(n, s, M)
    PROVE  Kept(n, s, s, M)
BY DEF Kept, Later, Progress

-----------------------------------------------------------------------------
(* More votes back whatever fewer did.                                      *)

LEMMA VotersType ==
    ASSUME NEW M \in SUBSET Message, NEW h, NEW type \in {"PrepareVote", "ConfirmAck"}
    PROVE  VotersIn(M, type, h) \in SUBSET Validators
<1>1. \A m \in Message : m.type \in {"PrepareVote", "ConfirmAck"} => m.src \in Validators
  BY DEF Message
<1> QED
  BY <1>1 DEF VotersIn

LEMMA PrepareSource ==
    ASSUME NEW M \in SUBSET Message, NEW p \in Prepares(M)
    PROVE  p.src \in Validators /\ p.prop \in Prop /\ p.ticket \in Ticket /\ p.view \in Nat
<1>1. p \in Message /\ p.type = "Prepare"
  BY DEF Prepares
<1> QED
  BY <1>1 DEF Message

LEMMA MoreVoted ==
    ASSUME NEW M \in SUBSET Message, NEW N \in SUBSET Message, M \subseteq N, NEW h,
           Voted(h, M)
    PROVE  Voted(h, N)
<1>1. PICK p \in Prepares(M) :
        /\ hashed(p.prop) = h
        /\ IsQuorum(compute_voting_power(VotersIn(M, "PrepareVote", h) \cup {p.src}))
  BY DEF Voted
<1>2. PICK U : U = VotersIn(M, "PrepareVote", h) \cup {p.src}
  OBVIOUS
<1>3. PICK V : V = VotersIn(N, "PrepareVote", h) \cup {p.src}
  OBVIOUS
<1>4. U \in SUBSET Validators /\ V \in SUBSET Validators
  BY <1>2, <1>3, VotersType, PrepareSource
<1>5. U \subseteq V /\ p \in Prepares(N)
  BY <1>2, <1>3 DEF VotersIn, Prepares
<1>6. IsQuorum(compute_voting_power(V))
  BY <1>1, <1>2, <1>4, <1>5, QuorumOK
<1> QED
  BY <1>1, <1>3, <1>5, <1>6 DEF Voted

LEMMA MoreVotes ==
    ASSUME NEW M \in SUBSET Message, NEW N \in SUBSET Message, M \subseteq N
    PROVE  /\ \A h : Voted(h, M) => Voted(h, N)
           /\ \A k : TicketVoted(k, M) => TicketVoted(k, N)
           /\ \A p : PrepareVoted(p, M) => PrepareVoted(p, N)
           /\ \A m : MessageVoted(m, M) => MessageVoted(m, N)
           /\ \A c : CommitVoted(c, M) => CommitVoted(c, N)
           /\ \A type, h : VotersIn(M, type, h) \subseteq VotersIn(N, type, h)
<1>1. \A h : Voted(h, M) => Voted(h, N)
  BY MoreVoted
<1>2. \A type, h : VotersIn(M, type, h) \subseteq VotersIn(N, type, h)
  BY DEF VotersIn
<1>3. \A q : Acked(q, M) => Acked(q, N)
  BY <1>1, <1>2 DEF Acked
<1>4. \A q : CommitQCOK(q, M) => CommitQCOK(q, N)
  BY <1>3 DEF CommitQCOK
<1>5. \A k, l : KindVoted(k, l, M) => KindVoted(k, l, N)
  BY <1>1, MoreEvidence DEF KindVoted
<1>6. \A q, k : TCVoted(q, k, M) => TCVoted(q, k, N)
  BY <1>5 DEF TCVoted
<1>7. \A k : TicketVoted(k, M) => TicketVoted(k, N)
  BY <1>4, <1>6 DEF TicketVoted
<1>8. \A p : PrepareVoted(p, M) => PrepareVoted(p, N)
  BY <1>7 DEF PrepareVoted, Prepares
<1>9. \A m : MessageVoted(m, M) => MessageVoted(m, N)
  BY <1>1, <1>4, <1>5, <1>6, <1>7, <1>8 DEF MessageVoted
<1>10. \A c : CommitVoted(c, M) => CommitVoted(c, N)
  BY <1>3, MoreEvidence DEF CommitVoted
<1> QED
  BY <1>1, <1>2, <1>7, <1>8, <1>9, <1>10

LEMMA MoreHolds ==
    ASSUME NEW M \in SUBSET Message, NEW N \in SUBSET Message, M \subseteq N,
           NEW n, NEW s, Holds(n, s, M)
    PROVE  Holds(n, s, N)
<1>1. Keeps(s, N)
  BY MoreVotes, MoreEvidence DEF Holds, Keeps
<1>2. Collects(n, s, N)
  BY MoreVotes DEF Holds, Collects
<1>3. Leads(n, s, N)
  BY MoreVotes DEF Holds, Leads, Prepares
<1> QED
  BY <1>1, <1>2, <1>3 DEF Holds

-----------------------------------------------------------------------------
(* The operations that handlers are made of.                                *)

\* What the certificates are not about.
Ledger == {"parent", "bqc", "children", "reqs", "tstate", "synced", "applied", "cmds"}

\* t differs from s in the fields F, and in those, only.
Apart(s, t, F) == Differs(s, t, F \cup Ledger)

LEMMA ApartFields ==
    ASSUME NEW s, NEW t, NEW F, Apart(s, t, F)
    PROVE  \A f \in Fields \ (F \cup Ledger) : t[f] = s[f]
BY DEF Apart, Differs

\* Roles aside.
LEMMA SameKeeps ==
    ASSUME NEW s, NEW t, Apart(s, t, {"tag", "step", "votes", "acks", "life", "out"}),
           NEW M, Keeps(s, M)
    PROVE  Keeps(t, M)
<1>1. /\ t.slot = s.slot /\ t.view = s.view /\ t.cp = s.cp /\ t.ticket = s.ticket
      /\ t.prepares = s.prepares /\ t.next = s.next /\ t.hqc = s.hqc
      /\ t.commits = s.commits
  BY ApartFields DEF Fields, Ledger
<1> QED
  BY <1>1 DEF Keeps

LEMMA SameSends ==
    ASSUME NEW s, NEW t, t.out = s.out, NEW M, Sends(s, M)
    PROVE  Sends(t, M)
BY DEF Sends

LEMMA ApartKept ==
    ASSUME NEW s, NEW t, Apart(s, t, {}), NEW n, NEW M, Holding(n, s, M)
    PROVE  Kept(n, s, t, M)
<1>1. /\ t.slot = s.slot /\ t.view = s.view /\ t.cp = s.cp /\ t.ticket = s.ticket
      /\ t.prepares = s.prepares /\ t.next = s.next /\ t.hqc = s.hqc
      /\ t.commits = s.commits /\ t.tag = s.tag /\ t.step = s.step
      /\ t.votes = s.votes /\ t.acks = s.acks /\ t.life = s.life /\ t.out = s.out
  BY ApartFields DEF Fields, Ledger
<1> QED
  BY <1>1 DEF Kept, Later, Progress, Holding, Holds, Keeps, Collects, Leads, Sends

\* Sending what is backed by the messages received.
LEMMA SendSends ==
    ASSUME NEW s \in State, NEW n, NEW M, Sends(s, M),
           NEW to, NEW m, m.type # "Prepare", MessageVoted(m, M),
           m.type \in {"PrepareVote", "ConfirmAck"} => m.src = n
    PROVE  LET t == Send(n, s, to, m)
           IN  Sends(t, M) /\ Differs(s, t, {"out"})
<1> DEFINE e == [to |-> to \ {n}, msg |-> m]
           o == Append(s.out, e)
           t == Send(n, s, to, m)
<1>1. s.out \in Seq(Envelope)
  BY DEF State
<1>2. DOMAIN s = Fields
  BY StateFields
<1>3. t.out = o /\ Differs(s, t, {"out"})
  BY <1>2 DEF Send, Fields, Differs
<1> HIDE DEF t
<1>4. e.msg = m /\ EnvelopeVoted(e, M)
  BY DEF EnvelopeVoted, Addressed
<1> HIDE DEF e
<1>5. DOMAIN o = DOMAIN s.out \cup {Len(s.out) + 1} /\ o[Len(s.out) + 1] = e
      /\ \A i \in DOMAIN s.out : o[i] = s.out[i]
  BY <1>1
<1> HIDE DEF o
<1>6. Sends(t, M)
  BY <1>3, <1>4, <1>5 DEF Sends
<1> QED
  BY <1>3, <1>6 DEF t

LEMMA SendKept ==
    ASSUME NEW s \in State, NEW n, NEW M, Holding(n, s, M),
           NEW to, NEW m, m.type # "Prepare", MessageVoted(m, M),
           m.type \in {"PrepareVote", "ConfirmAck"} => m.src = n
    PROVE  LET t == Send(n, s, to, m)
           IN  Kept(n, s, t, M) /\ Differs(s, t, {"out"})
<1>0. PICK t : t = Send(n, s, to, m)
  OBVIOUS
<1>1. Sends(t, M) /\ Differs(s, t, {"out"})
  BY <1>0, SendSends DEF Holding
<1>2. /\ t.slot = s.slot /\ t.view = s.view /\ t.cp = s.cp /\ t.ticket = s.ticket
      /\ t.prepares = s.prepares /\ t.next = s.next /\ t.hqc = s.hqc
      /\ t.commits = s.commits /\ t.tag = s.tag /\ t.step = s.step
      /\ t.votes = s.votes /\ t.acks = s.acks /\ t.life = s.life
  BY <1>1 DEF Differs, Fields
<1>3. Holds(n, t, M)
  BY <1>2 DEF Holding, Holds, Keeps, Collects, Leads
<1> QED
  BY <1>0, <1>1, <1>2, <1>3 DEF Kept, Holding, Later, Progress

LEMMA PushKept ==
    ASSUME NEW s \in State, NEW n, NEW M, Holding(n, s, M), NEW p, PrepareVoted(p, M)
    PROVE  LET t == push(s, p)
           IN  Kept(n, s, t, M) /\ Differs(s, t, {"prepares", "children"})
<1> DEFINE t == push(s, p)
<1>1. DOMAIN s = Fields
  BY StateFields
<1>2. /\ DOMAIN t = Fields
      /\ t.prepares = {q \in s.prepares : hashed(q.prop) # hashed(p.prop)} \cup {p}
      /\ \A f \in Fields \ {"prepares", "children"} : t[f] = s[f]
  BY <1>1 DEF push, Fields
<1> HIDE DEF t
<1>3. /\ t.slot = s.slot /\ t.view = s.view /\ t.cp = s.cp /\ t.ticket = s.ticket
      /\ t.next = s.next /\ t.hqc = s.hqc
      /\ t.commits = s.commits /\ t.tag = s.tag /\ t.step = s.step
      /\ t.votes = s.votes /\ t.acks = s.acks /\ t.life = s.life /\ t.out = s.out
  BY <1>2 DEF Fields
<1>4. Holding(n, t, M)
  BY <1>2, <1>3 DEF Holding, Holds, Keeps, Collects, Leads, Sends
<1> QED
  BY <1>2, <1>3, <1>4 DEF Kept, Later, Progress, Differs, t

\* A view change on the word of a certificate.
LEMMA ViewKept ==
    ASSUME NEW s \in State, NEW n \in Validators, NEW M, Keeps(s, M), Sends(s, M),
           s.tag # "Joining", s.view < MaxView,
           NEW ticket \in Ticket, ticket.type = "TimeoutQC", TicketVoted(ticket, M)
    PROVE  LET t == advance_round(n, s, ticket)
           IN  /\ t \in State /\ Holding(n, t, M) /\ t.tag # "Joining"
               /\ t.life = s.life /\ t.slot = s.slot /\ t.view = s.view + 1
<1>0. PICK t : t = advance_round(n, s, ticket)
  OBVIOUS
<1>1. s.view \in Nat /\ s.slot \in Nat /\ MaxView \in Nat
  BY BoundsAssumption DEF State
<1>2. /\ t \in State /\ t.step = "StartNewSlot" /\ t.tag # "Joining"
      /\ t.votes = {} /\ t.acks = {}
      /\ t.tag = "Leader" <=> round_leader(t.slot, t.view) = n
      /\ t.ticket \in {None, ticket}
      /\ t.hqc = s.hqc /\ t.prepares = s.prepares /\ t.next = s.next
      /\ t.life = s.life /\ t.commits = s.commits /\ t.out = s.out
      /\ t.slot = s.slot /\ t.view = s.view + 1 /\ t.cp = s.cp
  <2>1. ticket \in AnyTicket
    BY DEF AnyTicket
  <2> QED  BY <1>0, <2>1, AdvanceFields
<1>3. t.view <= MaxView
  BY <1>1, <1>2
<1>4. Keeps(t, M)
  BY <1>2, <1>3 DEF Keeps
<1>5. Collects(n, t, M) /\ Leads(n, t, M) /\ Sends(t, M)
  BY <1>2 DEF Collects, Leads, Sends
<1> QED
  BY <1>0, <1>2, <1>4, <1>5 DEF Holding, Holds

\* A commit, with a certificate or on the word of the next slot.
LEMMA CommitKept ==
    ASSUME NEW s \in State, NEW n \in Validators, NEW M, Keeps(s, M), Sends(s, M),
           s.tag # "Joining", current_slot_prepare_is_present(s),
           NEW qc \in QC, CommitVoted([prop |-> s.cp, qc |-> qc], M),
           NEW ticket \in AnyTicket, ticket.type # "TimeoutQC", TicketVoted(ticket, M)
    PROVE  LET t == advance_round(n, emit_commit_event(s, qc), ticket)
           IN  /\ t \in State /\ Holding(n, t, M) /\ t.tag # "Joining"
               /\ t.life = s.life /\ t.slot = s.slot + 1
<1> DEFINE c == [prop |-> s.cp, qc |-> qc]
           cs == Append(s.commits, c)
           e == emit_commit_event(s, qc)
<1>0. PICK t : t = advance_round(n, e, ticket)
  OBVIOUS
<1>1. /\ s.slot \in Nat /\ s.cp.slot = s.slot /\ s.commits \in Seq(Committed)
      /\ s.cp \in Prop /\ 0 <= MaxView
  BY BoundsAssumption DEF State, current_slot_prepare_is_present
<1>2. c \in Committed /\ CommitVoted(c, M)
  BY <1>1 DEF Committed
<1> HIDE DEF c
<1>3. /\ cs \in Seq(Committed) /\ DOMAIN cs = DOMAIN s.commits \cup {Len(s.commits) + 1}
      /\ cs[Len(s.commits) + 1] = c /\ \A i \in DOMAIN s.commits : cs[i] = s.commits[i]
  BY <1>1, <1>2
<1>4. DOMAIN s = Fields
  BY StateFields
<1>5. e = [s EXCEPT !.commits = cs]
  BY DEF emit_commit_event, c
<1> HIDE DEF cs, e
<1>6. e \in State /\ DOMAIN e = Fields /\ e.commits = cs
      /\ \A f \in Fields \ {"commits"} : e[f] = s[f]
  <2>1. e \in State
    BY <1>3, <1>5 DEF State
  <2> QED  BY <1>4, <1>5, <2>1 DEF Fields
<1>7. /\ e.tag # "Joining" /\ e.slot = s.slot /\ e.cp = s.cp /\ e.hqc = s.hqc
      /\ e.prepares = s.prepares /\ e.next = s.next /\ e.life = s.life /\ e.out = s.out
  BY <1>6 DEF Fields
<1>8. /\ t \in State /\ t.step = "StartNewSlot" /\ t.tag # "Joining"
      /\ t.votes = {} /\ t.acks = {}
      /\ t.tag = "Leader" <=> round_leader(t.slot, t.view) = n
      /\ t.ticket \in {None, ticket}
      /\ t.hqc = e.hqc /\ t.prepares = e.prepares /\ t.next = e.next
      /\ t.life = e.life /\ t.commits = e.commits /\ t.out = e.out
      /\ t.slot = e.slot + 1 /\ t.view = 0 /\ t.cp.slot = e.cp.slot
  BY <1>0, <1>6, <1>7, AdvanceFields
<1>9. \A i \in DOMAIN t.commits : CommitVoted(t.commits[i], M)
  BY <1>2, <1>3, <1>6, <1>8 DEF Keeps
<1>10. t.slot > 0 /\ t.view <= MaxView /\ ~(t.cp.slot >= t.slot)
  BY <1>1, <1>7, <1>8
<1>11. Keeps(t, M)
  BY <1>7, <1>8, <1>9, <1>10 DEF Keeps
<1>12. Collects(n, t, M) /\ Leads(n, t, M) /\ Sends(t, M)
  BY <1>7, <1>8 DEF Collects, Leads, Sends
<1> QED
  BY <1>0, <1>7, <1>8, <1>11, <1>12 DEF Holding, Holds, e

\* A commit with a certificate that was verified.
LEMMA CommitQCKept ==
    ASSUME NEW s \in State, NEW n \in Validators, NEW M, Keeps(s, M), Sends(s, M),
           s.tag # "Joining", current_slot_prepare_is_present(s),
           NEW qc \in QC, CommitQCOK(qc, M), qc.hash = hashed(s.cp),
           IsQuorum(compute_voting_power(qc.signers))
    PROVE  LET t == CommitAndAdvance(n, s, qc)
           IN  /\ t \in State /\ Holding(n, t, M) /\ t.tag # "Joining"
               /\ t.life = s.life /\ t.slot = s.slot + 1
<1> DEFINE c == [prop |-> s.cp, qc |-> qc]
<1>1. s.slot \in Nat /\ s.slot > 0 /\ s.cp.slot = s.slot /\ s.cp \in Proposals(M)
  BY DEF State, Keeps, current_slot_prepare_is_present
<1>2. qc.hash.slot = s.slot
  BY <1>1 DEF hashed
<1>3. CommitVoted(c, M)
  BY <1>1, <1>2 DEF CommitVoted, CommitQCOK
<1> HIDE DEF c
<1>4. /\ CommitTicket(qc) \in AnyTicket /\ CommitTicket(qc).type = "CommitQC"
      /\ CommitTicket(qc).qc = qc
  BY DEF CommitTicket, AnyTicket, Ticket
<1>5. TicketVoted(CommitTicket(qc), M)
  BY <1>4 DEF TicketVoted
<1>6. PICK k : k = CommitTicket(qc)
  OBVIOUS
<1>7. k \in AnyTicket /\ k.type # "TimeoutQC" /\ TicketVoted(k, M)
  BY <1>4, <1>5, <1>6
<1>8. PICK t : t = advance_round(n, emit_commit_event(s, qc), k)
  OBVIOUS
<1>9. /\ t \in State /\ Holding(n, t, M) /\ t.tag # "Joining"
      /\ t.life = s.life /\ t.slot = s.slot + 1
  BY <1>3, <1>7, <1>8, CommitKept DEF c
<1> QED
  BY <1>6, <1>8, <1>9 DEF CommitAndAdvance

-----------------------------------------------------------------------------
(* Timeouts.                                                                *)

\* What a validator says of its prepare certificate is backed.
LEMMA KindKept ==
    ASSUME NEW s \in State, NEW n \in Validators, NEW M, Keeps(s, M), s.view < MaxView
    PROVE  /\ KindVoted(TimeoutKind(s), s.slot, M)
           /\ MessageVoted(get_timeout_message(n, s), M)
           /\ get_timeout_message(n, s).type = "Timeout"
           /\ get_timeout_message(n, s).view = s.view
<1>1. CurrentOK(s, M)
  BY DEF CurrentOK, Keeps, State
<1>2. KindOK(TimeoutKind(s), s.slot, M)
  BY <1>1, KindFine
<1>3. TimeoutKind(s) # NilProposal => Voted(TimeoutKind(s).qc.hash, M)
  BY DEF TimeoutKind, HasPrepareQCForSlot, Keeps
<1>4. KindVoted(TimeoutKind(s), s.slot, M)
  BY <1>2, <1>3 DEF KindVoted
<1>5. LET m == get_timeout_message(n, s)
      IN  /\ m.type = "Timeout" /\ m.slot = s.slot /\ m.kind = TimeoutKind(s)
          /\ m.view = s.view
  BY DEF get_timeout_message
<1> QED
  BY <1>4, <1>5 DEF MessageVoted

\* A proposal that is adopted with its prepare certificate was voted for.
LEMMA AdoptKept ==
    ASSUME NEW s \in State, Good(s), NEW n \in Validators, NEW M, Holding(n, s, M),
           NEW kind \in Kind, kind # NilProposal, PrepareQCValid(kind, s.slot),
           KindVoted(kind, s.slot, M)
    PROVE  LET t == AdoptPrepareQC(s, s.slot, kind)
           IN  /\ t \in State /\ Good(t) /\ Kept(n, s, t, M)
               /\ t.slot = s.slot /\ t.view = s.view /\ t.parent = s.parent
               /\ t.tag = s.tag
<1>0. PICK t : t = AdoptPrepareQC(s, s.slot, kind)
  OBVIOUS
<1>1. kind.prop.slot = s.slot /\ hashed(kind.prop) = kind.qc.hash
  BY DEF PrepareQCValid, verify_quorum_certificate
<1>2. kind.prop \in Proposals(M) /\ Voted(kind.qc.hash, M)
  BY <1>1 DEF KindVoted, KindOK
<1>3. t \in State /\ Good(t) /\ Frame(s, t) /\ t.tag = s.tag
  BY <1>0, <1>1, AdoptOK
<1>4. CASE ~IsHighest(s, s.slot)
  <2>1. t = s
    BY <1>0, <1>4 DEF AdoptPrepareQC
  <2> QED  BY <1>0, <1>3, <2>1, KeptSelf
<1>5. CASE IsHighest(s, s.slot)
  <2> DEFINE h == [slot |-> s.slot, qc |-> kind.qc]
             c == kind.prop
  <2>1. t = [s EXCEPT !.hqc = h, !.cp = c]
    BY <1>0, <1>5 DEF AdoptPrepareQC, update_highest_seen_prepare_qc
  <2>2. DOMAIN s = Fields
    BY StateFields
  <2>3. h.qc = kind.qc
    OBVIOUS
  <2> HIDE DEF h, c
  <2>4. t.hqc = h /\ t.cp = c /\ \A f \in Fields \ {"hqc", "cp"} : t[f] = s[f]
    BY <2>1, <2>2 DEF Fields
  <2>5. /\ t.slot = s.slot /\ t.view = s.view /\ t.parent = s.parent /\ t.step = s.step
        /\ t.ticket = s.ticket /\ t.prepares = s.prepares /\ t.next = s.next
        /\ t.life = s.life /\ t.commits = s.commits /\ t.out = s.out
        /\ t.votes = s.votes /\ t.acks = s.acks
    BY <2>4 DEF Fields
  <2>6. Voted(t.hqc.qc.hash, M) /\ Voted(hashed(t.cp), M) /\ t.cp \in Proposals(M)
    BY <1>1, <1>2, <2>3, <2>4 DEF c
  <2>7. Keeps(t, M)
    BY <2>5, <2>6 DEF Holding, Holds, Keeps
  <2>8. Collects(n, t, M) /\ Leads(n, t, M) /\ Sends(t, M)
    BY <1>3, <2>5, <2>6 DEF Holding, Holds, Collects, Leads, Sends
  <2>9. Later(s, t)
    BY <1>3, <2>5 DEF Later, Progress
  <2> QED  BY <1>0, <1>3, <2>5, <2>7, <2>8, <2>9 DEF Kept, Holding, Holds
<1> QED
  BY <1>4, <1>5

LEMMA MutinyKept ==
    ASSUME NEW s \in State, NEW n \in Validators, NEW M, Holding(n, s, M),
           s.view < MaxView
    PROVE  LET t == JoinMutiny(n, s)
           IN  /\ t \in State /\ Kept(n, s, t, M)
               /\ t.slot = s.slot /\ t.view = s.view /\ t.parent = s.parent
               /\ t.tag = s.tag
<1> DEFINE own == get_timeout_message(n, s)
           b == Broadcast(n, s, own)
           R == b.reqs \cup {[src |-> n, kind |-> own.kind]}
           j == [b EXCEPT !.reqs = R, !.tstate = "Scheduled"]
<1>0. PICK t : t = JoinMutiny(n, s)
  OBVIOUS
<1>1. t \in State
  BY <1>0, JoinMutinyOK
<1>2. t = s \/ t = j
  BY <1>0 DEF JoinMutiny
<1>3. ASSUME t = j
      PROVE  /\ Kept(n, s, t, M) /\ t.slot = s.slot /\ t.view = s.view
             /\ t.parent = s.parent /\ t.tag = s.tag
  <2>1. own.type # "Prepare" /\ own.type \notin {"PrepareVote", "ConfirmAck"}
        /\ MessageVoted(own, M) /\ own \in Message
    BY KindKept, TimeoutMessage DEF Holding, Holds
  <2> HIDE DEF own
  <2>2. b = Send(n, s, Validators, own)
    BY DEF Broadcast
  <2>3. b \in State
    BY <2>1, SendType
  <2>4. Kept(n, s, b, M) /\ Differs(s, b, {"out"})
    <3>1. PICK to : to = Validators
      OBVIOUS
    <3>2. PICK y : y = Send(n, s, to, own)
      OBVIOUS
    <3>3. Kept(n, s, y, M) /\ Differs(s, y, {"out"})
      BY <2>1, <3>2, SendKept
    <3> QED  BY <2>2, <3>1, <3>2, <3>3
  <2> HIDE DEF b, R
  <2>5. Apart(b, t, {})
    BY <1>3, <2>3, StateFields DEF Apart, Differs, Ledger, Fields
  <2>6. Kept(n, b, t, M)
    BY <2>4, <2>5, ApartKept DEF Kept
  <2>7. Kept(n, s, t, M)
    BY <1>1, <2>3, <2>4, <2>6, KeptTransitive
  <2>8. /\ b.slot = s.slot /\ b.view = s.view /\ b.parent = s.parent /\ b.tag = s.tag
    BY <2>4 DEF Differs, Fields
  <2>9. /\ t.slot = b.slot /\ t.view = b.view /\ t.parent = b.parent /\ t.tag = b.tag
    BY <1>3, <2>3, StateFields DEF Fields
  <2> QED  BY <2>7, <2>8, <2>9
<1>4. CASE t = s
  BY <1>0, <1>1, <1>4, KeptSelf
<1> HIDE DEF j
<1> QED
  BY <1>0, <1>1, <1>2, <1>3, <1>4

LEMMA RegisteredKept ==
    ASSUME NEW s \in State, Good(s), NEW n \in Validators, NEW M, Holding(n, s, M),
           s.view < MaxView, NEW m, m.src \in Validators, m.kind \in Kind,
           m.slot = s.slot, ~MalformedTimeout(m), KindVoted(m.kind, m.slot, M)
    PROVE  LET t == Registered(n, s, m)
           IN  /\ t \in State /\ Kept(n, s, t, M)
               /\ t.slot = s.slot /\ t.view = s.view /\ t.tag = s.tag
<1> DEFINE adopted == IF m.kind = NilProposal THEN s
                      ELSE AdoptPrepareQC(s, m.slot, m.kind)
           r == Request(m)
           R == adopted.reqs \cup {r}
           u == [adopted EXCEPT !.reqs = R]
<1>1. Registered(n, s, m) =
        IF Request(m) \in s.reqs THEN adopted ELSE JoinMutiny(n, u)
  BY DEF Registered
<1>2. /\ adopted \in State /\ Kept(n, s, adopted, M)
      /\ adopted.slot = s.slot /\ adopted.view = s.view /\ adopted.tag = s.tag
  <2>1. CASE m.kind = NilProposal
    BY <2>1, KeptSelf
  <2>2. CASE m.kind # NilProposal
    <3>1. PICK k : k = m.kind
      OBVIOUS
    <3>2. k \in Kind /\ k # NilProposal /\ PrepareQCValid(k, s.slot)
          /\ KindVoted(k, s.slot, M) /\ adopted = AdoptPrepareQC(s, s.slot, k)
      BY <2>2, <3>1 DEF MalformedTimeout
    <3>3. PICK a : a = AdoptPrepareQC(s, s.slot, k)
      OBVIOUS
    <3>4. /\ a \in State /\ Kept(n, s, a, M)
          /\ a.slot = s.slot /\ a.view = s.view /\ a.tag = s.tag
      BY <3>2, <3>3, AdoptKept
    <3> HIDE DEF adopted
    <3> QED  BY <3>2, <3>3, <3>4
  <2> QED  BY <2>1, <2>2
<1> HIDE DEF adopted
<1>3. R \in SUBSET Requests
  <2>1. r \in Requests /\ adopted.reqs \in SUBSET Requests
    BY <1>2 DEF Request, Requests, State
  <2> QED  BY <2>1
<1> HIDE DEF R
<1>4. u \in State /\ Apart(adopted, u, {})
  BY <1>2, <1>3, StateFields DEF State, Apart, Differs, Ledger, Fields
<1>5. u.slot = s.slot /\ u.view = s.view /\ u.tag = s.tag
  BY <1>2, <1>4, ApartFields DEF Fields, Ledger
<1> HIDE DEF u
<1>6. Kept(n, adopted, u, M)
  BY <1>2, <1>4, ApartKept DEF Kept
<1>7. Kept(n, s, u, M)
  BY <1>2, <1>4, <1>6, KeptTransitive
<1>8. PICK t : t = JoinMutiny(n, u)
  OBVIOUS
<1>9. /\ t \in State /\ Kept(n, u, t, M)
      /\ t.slot = u.slot /\ t.view = u.view /\ t.tag = u.tag
  BY <1>4, <1>5, <1>7, <1>8, MutinyKept DEF Kept
<1>10. Kept(n, s, t, M)
  BY <1>4, <1>7, <1>9, KeptTransitive
<1> QED
  BY <1>1, <1>2, <1>5, <1>8, <1>9, <1>10

\* A joining validator may make a certificate as a leader, for one moment.
LEMMA CreateTCKept ==
    ASSUME NEW s \in State, NEW n \in Validators, NEW M, Holding(n, s, M),
           s.view < MaxView
    PROVE  LET t == CreateTC(n, s) IN t \in State /\ Kept(n, s, t, M)
<1> DEFINE qc == QuorumCertificate("ConsensusTimeout",
                   TimeoutPayload(s.slot, s.view, s.parent),
                   {r.src : r \in s.reqs} \cup {n})
           kind == TimeoutKind(s)
           m == [type |-> "TimeoutCertificate", qc |-> qc, kind |-> kind,
                 slot |-> s.slot, view |-> s.view]
           told1 == [s EXCEPT !.tstate = "Scheduled",
                              !.tag = IF @ = "Joining" THEN "Leader" ELSE @]
           e == [s EXCEPT !.tstate = "CertificateEmitted"]
           told2 == Broadcast(n, e, m)
           ticket == TimeoutTicket(qc, kind)
<1>1. /\ s.slot \in Nat /\ s.view \in Nat /\ s.parent \in Hash /\ MaxView \in Nat
      /\ s.reqs \in SUBSET Requests /\ s.tag \in {"Joining", "Leader", "Follower"}
  BY BoundsAssumption DEF State
<1>2. qc \in QC /\ qc.hash.slot = s.slot /\ qc.hash.view = s.view
  BY <1>1 DEF QC, QuorumCertificate, TimeoutPayload, Payload, Requests
<1>3. kind \in Kind /\ KindVoted(kind, s.slot, M)
  BY TimeoutMessage, KindKept DEF Holding, Holds
<1> HIDE DEF qc, kind
<1>4. TCVoted(qc, kind, M)
  BY <1>2, <1>3 DEF TCVoted
<1>5. m \in Message /\ ticket \in Ticket /\ ticket.type = "TimeoutQC"
      /\ m.type = "TimeoutCertificate" /\ m.qc = qc /\ m.kind = kind
      /\ ticket.qc = qc /\ ticket.kind = kind
  BY <1>1, <1>2, <1>3 DEF Message, Ticket, TimeoutTicket
<1> HIDE DEF m, ticket
<1>6. TicketVoted(ticket, M) /\ MessageVoted(m, M)
  BY <1>4, <1>5 DEF TicketVoted, MessageVoted
<1>7. DOMAIN s = Fields
  BY StateFields
<1>8. /\ told1 \in State /\ Apart(s, told1, {"tag"}) /\ told1.tag # "Joining"
  BY <1>1, <1>7 DEF State, Apart, Differs, Ledger, Fields
<1>9. /\ e \in State /\ Apart(s, e, {})
  BY <1>7 DEF State, Apart, Differs, Ledger, Fields
<1>10. CreateTC(n, s) =
        advance_round(n, IF next_view_leader(s) = n THEN told1 ELSE told2, ticket)
  BY DEF CreateTC, m, ticket, qc, kind
<1> HIDE DEF told1, e
<1>11. told1.slot = s.slot /\ told1.view = s.view /\ told1.life = s.life
       /\ Keeps(told1, M) /\ Sends(told1, M)
  <2>1. Apart(s, told1, {"tag", "step", "votes", "acks", "life", "out"})
    BY <1>8 DEF Apart, Differs
  <2>2. told1.slot = s.slot /\ told1.view = s.view /\ told1.life = s.life
        /\ told1.out = s.out
    BY <1>8, ApartFields DEF Fields, Ledger
  <2> QED  BY <2>1, <2>2, SameKeeps, SameSends DEF Holding, Holds
<1>12. Kept(n, s, e, M) /\ e.slot = s.slot /\ e.view = s.view /\ e.tag = s.tag
  BY <1>9, ApartKept, ApartFields DEF Fields, Ledger
<1>13. /\ told2 \in State /\ Kept(n, s, told2, M)
       /\ told2.slot = s.slot /\ told2.view = s.view /\ told2.tag = s.tag
  <2>1. told2 \in State
    BY <1>5, <1>9, SendType
  <2>2. PICK to : to = Validators
    OBVIOUS
  <2>3. PICK y : y = Send(n, e, to, m)
    OBVIOUS
  <2>4. Kept(n, e, y, M) /\ Differs(e, y, {"out"})
    <3>1. m.type # "Prepare" /\ m.type \notin {"PrepareVote", "ConfirmAck"}
      BY <1>5
    <3> QED  BY <1>6, <1>9, <1>12, <2>3, <3>1, SendKept DEF Kept
  <2>5. y = told2
    BY <2>2, <2>3 DEF Broadcast
  <2>6. y.slot = e.slot /\ y.view = e.view /\ y.tag = e.tag
    BY <2>4 DEF Differs, Fields
  <2> HIDE DEF told2
  <2>7. Kept(n, s, told2, M)
    BY <1>9, <1>12, <2>1, <2>4, <2>5, KeptTransitive
  <2> QED  BY <1>12, <2>1, <2>5, <2>6, <2>7
<1> HIDE DEF told2
<1>14. ASSUME NEW u \in State, Keeps(u, M), Sends(u, M), u.tag # "Joining",
              u.slot = s.slot, u.view = s.view, u.life = s.life
       PROVE  LET t == advance_round(n, u, ticket) IN t \in State /\ Kept(n, s, t, M)
  <2>1. PICK t : t = advance_round(n, u, ticket)
    OBVIOUS
  <2>2. /\ t \in State /\ Holding(n, t, M) /\ t.tag # "Joining"
        /\ t.life = u.life /\ t.slot = u.slot /\ t.view = u.view + 1
    BY <1>5, <1>6, <1>14, <2>1, ViewKept
  <2>3. Later(s, t)
    BY <1>1, <1>14, <2>2 DEF Later, Progress
  <2> QED  BY <2>1, <2>2, <2>3 DEF Kept
<1>15. CASE next_view_leader(s) = n
  BY <1>8, <1>10, <1>11, <1>14, <1>15
<1>16. CASE next_view_leader(s) # n
  <2>1. CreateTC(n, s) = advance_round(n, told2, ticket)
    BY <1>10, <1>16
  <2>2. CASE told2.tag = "Joining"
    <3>1. CreateTC(n, s) = told2
      BY <2>1, <2>2 DEF advance_round
    <3> QED  BY <1>13, <3>1
  <2>3. CASE told2.tag # "Joining"
    BY <1>13, <1>14, <2>1, <2>3 DEF Kept, Holding, Holds, Later
  <2> QED  BY <2>2, <2>3
<1> QED
  BY <1>15, <1>16

\* A timeout request that was made, or is about to be.
LEMMA OnTimeoutKept ==
    ASSUME NEW s \in State, Good(s), NEW n \in Validators, NEW M, Holding(n, s, M),
           NEW m, m.src \in Validators, m.kind \in Kind, m.view < MaxView,
           KindVoted(m.kind, m.slot, M)
    PROVE  LET t == on_timeout(n, s, m) IN t \in State /\ Kept(n, s, t, M)
<1>0. PICK r : r = Registered(n, s, m)
  OBVIOUS
<1>1. CASE \/ m.parent # s.parent \/ m.slot # s.slot \/ m.view # s.view
           \/ MalformedTimeout(m)
  BY <1>1, KeptSelf DEF on_timeout
<1>2. CASE ~(\/ m.parent # s.parent \/ m.slot # s.slot \/ m.view # s.view
             \/ MalformedTimeout(m))
  <2>1. /\ r \in State /\ Kept(n, s, r, M) /\ r.view < MaxView
    BY <1>0, <1>2, RegisteredKept
  <2>2. CASE Request(m) \notin s.reqs /\ EnoughRequests(r) /\ CanCertify(r)
    <3>1. PICK t : t = CreateTC(n, r)
      OBVIOUS
    <3>2. t \in State /\ Kept(n, r, t, M)
      BY <2>1, <3>1, CreateTCKept DEF Kept
    <3>3. Kept(n, s, t, M)
      BY <2>1, <3>2, KeptTransitive
    <3>4. on_timeout(n, s, m) = t
      BY <1>0, <1>2, <2>2, <3>1 DEF on_timeout
    <3> QED  BY <3>2, <3>3, <3>4
  <2>3. CASE ~(Request(m) \notin s.reqs /\ EnoughRequests(r) /\ CanCertify(r))
    <3>1. on_timeout(n, s, m) = r
      BY <1>0, <1>2, <2>3 DEF on_timeout
    <3> QED  BY <2>1, <3>1
  <2> QED  BY <2>2, <2>3
<1> QED
  BY <1>1, <1>2

LEMMA TickKept ==
    ASSUME NEW s \in State, Good(s), NEW n \in Validators, NEW M, Holding(n, s, M),
           s.view < MaxView
    PROVE  Kept(n, s, on_timeout_tick(n, s), M)
<1> DEFINE own == get_timeout_message(n, s)
           r == on_timeout(n, s, own)
           q == [r EXCEPT !.tstate = "Scheduled"]
           t == Broadcast(n, q, own)
<1>1. /\ own \in Message /\ own.src = n /\ own.kind \in Kind /\ own.view < MaxView
      /\ own.type = "Timeout" /\ MessageVoted(own, M) /\ own.slot = s.slot
  BY TimeoutMessage, KindKept DEF Holding, Holds
<1>2. on_timeout_tick(n, s) = r \/ on_timeout_tick(n, s) = t
  BY DEF on_timeout_tick
<1> HIDE DEF own
<1>3. KindVoted(own.kind, own.slot, M)
  BY <1>1 DEF MessageVoted
<1>4. r \in State /\ Kept(n, s, r, M)
  BY <1>1, <1>3, OnTimeoutKept
<1> HIDE DEF r
<1>5. q \in State /\ Apart(r, q, {})
  <2>1. DOMAIN r = Fields
    BY <1>4, StateFields
  <2>2. q \in State
    BY <1>4, UpdateType
  <2> QED  BY <2>1, <2>2 DEF Apart, Differs, Ledger, Fields
<1> HIDE DEF q
<1>6. Kept(n, r, q, M)
  BY <1>4, <1>5, ApartKept DEF Kept
<1>7. t \in State /\ Kept(n, q, t, M)
  <2>1. t \in State
    BY <1>1, <1>5, SendType
  <2>2. PICK to : to = Validators
    OBVIOUS
  <2>3. PICK y : y = Send(n, q, to, own)
    OBVIOUS
  <2>4. own.type # "Prepare" /\ own.type \notin {"PrepareVote", "ConfirmAck"}
    BY <1>1
  <2>5. Kept(n, q, y, M)
    BY <1>1, <1>5, <1>6, <2>3, <2>4, SendKept DEF Kept
  <2> QED  BY <2>1, <2>2, <2>3, <2>5 DEF Broadcast
<1> HIDE DEF t
<1>8. Kept(n, s, t, M)
  BY <1>4, <1>5, <1>6, <1>7, KeptTransitive
<1> QED
  BY <1>2, <1>4, <1>8

\* The proposal of a valid timeout certificate is adopted.
LEMMA VerifyTCKept ==
    ASSUME NEW s \in State, Good(s), NEW n \in Validators, NEW M, Holding(n, s, M),
           NEW qc, NEW kind \in Kind, NEW view,
           TCValid(s, qc, kind, s.slot, view), KindVoted(kind, s.slot, M)
    PROVE  LET t == verify_tc(s, kind, s.slot)
           IN  /\ t \in State /\ Good(t) /\ Kept(n, s, t, M)
               /\ t.slot = s.slot /\ t.view = s.view /\ t.tag = s.tag
<1>1. CASE kind = NilProposal
  BY <1>1, KeptSelf DEF verify_tc
<1>2. CASE kind # NilProposal
  <2>1. PrepareQCValid(kind, s.slot)
    BY <1>2 DEF TCValid
  <2>2. PICK t : t = AdoptPrepareQC(s, s.slot, kind)
    OBVIOUS
  <2>3. /\ t \in State /\ Good(t) /\ Kept(n, s, t, M)
        /\ t.slot = s.slot /\ t.view = s.view /\ t.tag = s.tag
    BY <1>2, <2>1, <2>2, AdoptKept
  <2> QED  BY <1>2, <2>2, <2>3 DEF verify_tc
<1> QED
  BY <1>1, <1>2

LEMMA OnTimeoutCertificateKept ==
    ASSUME NEW s \in State, Good(s), NEW n \in Validators, NEW M, Holding(n, s, M),
           NEW m, m.qc \in QC, m.kind \in Kind, TCVoted(m.qc, m.kind, M)
    PROVE  Kept(n, s, on_timeout_certificate(n, s, m), M)
<1> DEFINE t == verify_tc(s, m.kind, m.slot)
           tag == IF next_view_leader(s) # n /\ t.tag = "Joining"
                  THEN "Leader" ELSE t.tag
           u == [t EXCEPT !.tag = tag]
           ticket == TimeoutTicket(m.qc, m.kind)
<1>1. CASE /\ m.slot = s.slot /\ m.view = s.view
           /\ TCValid(s, m.qc, m.kind, m.slot, m.view)
  <2>1. /\ ticket \in Ticket /\ ticket.type = "TimeoutQC" /\ ticket.qc = m.qc
        /\ ticket.kind = m.kind
    BY DEF Ticket, TimeoutTicket
  <2>2. on_timeout_certificate(n, s, m) = advance_round(n, u, ticket)
    BY <1>1 DEF on_timeout_certificate
  <2> HIDE DEF ticket
  <2>3. TicketVoted(ticket, M)
    BY <2>1 DEF TicketVoted
  <2>4. m.qc.hash.slot = s.slot /\ m.qc.hash.view = s.view
    BY <1>1 DEF TCValid, verify_quorum_certificate, TimeoutPayload
  <2>5. KindVoted(m.kind, s.slot, M) /\ s.view < MaxView
    BY <2>4 DEF TCVoted
  <2>6. /\ t \in State /\ Kept(n, s, t, M)
        /\ t.slot = s.slot /\ t.view = s.view /\ t.tag = s.tag
    <3>1. PICK kind : kind = m.kind
      OBVIOUS
    <3>2. PICK qc : qc = m.qc
      OBVIOUS
    <3>3. kind \in Kind /\ TCValid(s, qc, kind, s.slot, s.view)
          /\ KindVoted(kind, s.slot, M)
      BY <1>1, <2>5, <3>1, <3>2
    <3>4. PICK y : y = verify_tc(s, kind, s.slot)
      OBVIOUS
    <3>5. /\ y \in State /\ Kept(n, s, y, M)
          /\ y.slot = s.slot /\ y.view = s.view /\ y.tag = s.tag
      BY <3>3, <3>4, VerifyTCKept
    <3> QED  BY <1>1, <3>1, <3>4, <3>5
  <2> HIDE DEF t
  <2>7. t.tag \in {"Joining", "Leader", "Follower"} /\ DOMAIN t = Fields
    BY <2>6, StateFields DEF State
  <2>8. tag \in {"Joining", "Leader", "Follower"}
    BY <2>7
  <2>9. t.tag # "Joining" => tag # "Joining"
    OBVIOUS
  <2>10. tag = "Joining" => tag = t.tag
    OBVIOUS
  <2> HIDE DEF tag
  <2>11. u \in State /\ Apart(t, u, {"tag"}) /\ u.tag = tag
    <3>1. t \in State
      BY <2>6
    <3>2. u \in State
      BY <2>8, <3>1, UpdateType
    <3> QED  BY <2>7, <3>2 DEF Apart, Differs, Ledger, Fields
  <2>12. tag = t.tag => u = t
    <3>1. t = [t EXCEPT !.tag = t.tag]
      BY <2>6 DEF State
    <3> QED  BY <3>1
  <2> HIDE DEF u
  <2>13. CASE tag = "Joining"
    <3>1. u = t
      BY <2>10, <2>12, <2>13
    <3>2. advance_round(n, u, ticket) = u
      BY <2>11, <2>13 DEF advance_round
    <3> QED  BY <2>2, <2>6, <3>1, <3>2
  <2>14. CASE tag # "Joining"
    <3>1. Apart(t, u, {"tag", "step", "votes", "acks", "life", "out"})
      BY <2>11 DEF Apart, Differs
    <3>2. u.out = t.out /\ u.slot = t.slot /\ u.view = t.view /\ u.life = t.life
      BY <2>11, ApartFields DEF Fields, Ledger
    <3>3. Keeps(u, M) /\ Sends(u, M)
      BY <2>6, <3>1, <3>2, SameKeeps, SameSends DEF Kept, Holding, Holds
    <3>4. PICK w : w = advance_round(n, u, ticket)
      OBVIOUS
    <3>5. /\ w \in State /\ Holding(n, w, M) /\ w.tag # "Joining"
          /\ w.life = u.life /\ w.slot = u.slot /\ w.view = u.view + 1
      BY <2>1, <2>3, <2>5, <2>6, <2>11, <2>14, <3>2, <3>3, <3>4, ViewKept
    <3>6. s.view \in Nat
      BY DEF State
    <3>7. Later(s, w)
      BY <2>6, <3>2, <3>5, <3>6 DEF Kept, Later, Progress
    <3> QED  BY <2>2, <3>4, <3>5, <3>7 DEF Kept
  <2> QED  BY <2>13, <2>14
<1>2. CASE ~(/\ m.slot = s.slot /\ m.view = s.view
             /\ TCValid(s, m.qc, m.kind, m.slot, m.view))
  <2>1. on_timeout_certificate(n, s, m) = s
    BY <1>2 DEF on_timeout_certificate
  <2> QED  BY <2>1, KeptSelf
<1> QED
  BY <1>1, <1>2

-----------------------------------------------------------------------------
(* Tickets and Prepares.                                                    *)

LEMMA ForceCommitKept ==
    ASSUME NEW s \in State, Good(s), NEW n \in Validators, NEW M, Holding(n, s, M),
           s.tag # "Joining", NEW p
    PROVE  LET t == ForceCommit(n, s, p)
           IN  t \in State /\ Good(t) /\ t.tag # "Joining" /\ Kept(n, s, t, M)
<1>0. PICK t : t = ForceCommit(n, s, p)
  OBVIOUS
<1>1. t \in State /\ Good(t) /\ t.tag # "Joining"
  BY <1>0, ForceCommitOK DEF HandlerOK
<1>2. CASE IsNextSlotAndPresent(s, p) /\ p.prop.parent = hashed(s.cp)
  <2>1. EmptyQC \in QC
    BY DEF EmptyQC, QuorumCertificate, QC, NoHash, Hash
  <2>2. /\ ForcedTicket \in AnyTicket /\ ForcedTicket.type # "TimeoutQC"
        /\ TicketVoted(ForcedTicket, M)
    BY DEF ForcedTicket, AnyTicket, TicketVoted
  <2>3. current_slot_prepare_is_present(s) /\ s.slot \in Nat
    BY <1>2 DEF IsNextSlotAndPresent, State
  <2>4. CommitVoted([prop |-> s.cp, qc |-> EmptyQC], M)
    BY DEF CommitVoted
  <2>5. t = advance_round(n, emit_commit_event(s, EmptyQC), ForcedTicket)
    BY <1>0, <1>2 DEF ForceCommit
  <2>6. Keeps(s, M) /\ Sends(s, M)
    BY DEF Holding, Holds
  <2>7. Holding(n, t, M) /\ t.life = s.life /\ t.slot = s.slot + 1
    BY <2>1, <2>2, <2>3, <2>4, <2>5, <2>6, CommitKept
  <2>8. Later(s, t)
    BY <1>1, <2>3, <2>7 DEF Later, Progress
  <2> QED  BY <1>0, <1>1, <2>7, <2>8 DEF Kept
<1>3. CASE ~(IsNextSlotAndPresent(s, p) /\ p.prop.parent = hashed(s.cp))
  <2>1. t = s
    BY <1>0, <1>3 DEF ForceCommit
  <2> QED  BY <1>0, <1>1, <2>1, KeptSelf
<1> QED
  BY <1>2, <1>3

\* A commit with a certificate that was verified, in the middle of a handler.
LEMMA CommittedKept ==
    ASSUME NEW s \in State, NEW n \in Validators, NEW M, Holding(n, s, M),
           s.tag # "Joining", current_slot_prepare_is_present(s),
           NEW qc \in QC, CommitQCOK(qc, M),
           verify_quorum_certificate("ConfirmAck", hashed(s.cp), qc)
    PROVE  LET t == CommitAndAdvance(n, s, qc)
           IN  t \in State /\ t.tag # "Joining" /\ Kept(n, s, t, M)
<1>0. PICK t : t = CommitAndAdvance(n, s, qc)
  OBVIOUS
<1>1. Keeps(s, M) /\ Sends(s, M) /\ s.slot \in Nat
  BY DEF Holding, Holds, State
<1>2. qc.hash = hashed(s.cp) /\ IsQuorum(compute_voting_power(qc.signers))
  BY DEF verify_quorum_certificate
<1>3. /\ t \in State /\ Holding(n, t, M) /\ t.tag # "Joining"
      /\ t.life = s.life /\ t.slot = s.slot + 1
  BY <1>0, <1>1, <1>2, CommitQCKept
<1>4. Later(s, t)
  BY <1>1, <1>3 DEF Later, Progress
<1> QED
  BY <1>0, <1>3, <1>4 DEF Kept

LEMMA CommitTicketKept ==
    ASSUME NEW s \in State, NEW n \in Validators, NEW M, Holding(n, s, M),
           s.tag # "Joining", NEW p \in Prepare, p.ticket.type = "CommitQC",
           TicketVoted(p.ticket, M)
    PROVE  Kept(n, s, verify_and_process_commit_ticket(n, s, p).state, M)
<1> DEFINE r == verify_and_process_commit_ticket(n, s, p)
           c == CommitAndAdvance(n, s, p.ticket.qc)
           Commit == /\ current_slot_prepare_is_present(s)
                      /\ verify_quorum_certificate("ConfirmAck", hashed(s.cp), p.ticket.qc)
<1>1. r.state = s \/ (r.state = c /\ Commit)
  <2>1. \/ r = NotProcessed(s) \/ r = Processed(s) \/ r = Failed(s)
        \/ r = Processed(c) /\ Commit
    <3> HIDE DEF c
    <3>1. CASE ~TicketApplies(s, p) \/ p.ticket.qc = s.bqc
      BY <3>1, Zenon DEF verify_and_process_commit_ticket
    <3>2. CASE ~(~TicketApplies(s, p) \/ p.ticket.qc = s.bqc)
      BY <3>2, Zenon DEF verify_and_process_commit_ticket, c
    <3> QED  BY <3>1, <3>2
  <2> HIDE DEF r, c
  <2> QED  BY <2>1 DEF NotProcessed, Processed, Failed
<1>2. PICK qc : qc = p.ticket.qc
  OBVIOUS
<1>3. qc \in QC /\ CommitQCOK(qc, M)
  BY <1>2 DEF Prepare, Ticket, GenesisTicket, TicketVoted
<1>4. Commit => Kept(n, s, c, M)
  <2>1. PICK y : y = CommitAndAdvance(n, s, qc)
    OBVIOUS
  <2>2. Commit => Kept(n, s, y, M)
    BY <1>2, <1>3, <2>1, CommittedKept
  <2> QED  BY <1>2, <2>1, <2>2
<1>5. Kept(n, s, s, M)
  BY KeptSelf
<1> HIDE DEF r, c, Commit
<1>6. Kept(n, s, r.state, M)
  BY <1>1, <1>4, <1>5
<1> QED
  BY <1>6 DEF r

LEMMA TimeoutTicketKept ==
    ASSUME NEW s \in State, Good(s), NEW n \in Validators, NEW M, Holding(n, s, M),
           s.tag # "Joining", NEW p \in Prepare, p.ticket.type = "TimeoutQC",
           TicketVoted(p.ticket, M)
    PROVE  Kept(n, s, verify_and_process_tc_ticket(n, s, p).state, M)
<1> DEFINE r == verify_and_process_tc_ticket(n, s, p)
           kind == p.ticket.kind
           qc == p.ticket.qc
           t == ForceCommit(n, s, p)
           u == verify_tc(t, kind, t.slot)
           w == advance_round(n, u, p.ticket)
<1>1. p.ticket \in Ticket /\ kind \in Kind /\ qc \in QC /\ p.view \in Nat
  BY DEF Prepare, Ticket, GenesisTicket
<1>2. TCVoted(qc, kind, M)
  BY DEF TicketVoted
<1>3. t \in State /\ Good(t) /\ t.tag # "Joining" /\ Kept(n, s, t, M)
  BY ForceCommitKept
<1>4. \/ r.state = s \/ r.state = t
      \/ /\ r.state = u \/ (r.state = w /\ p.view = t.view + 1)
         /\ TCValid(t, qc, kind, t.slot, p.view - 1)
  BY DEF verify_and_process_tc_ticket, Processed, NotProcessed, Failed
<1> HIDE DEF t
<1>5. ASSUME TCValid(t, qc, kind, t.slot, p.view - 1)
      PROVE  /\ u \in State /\ Kept(n, t, u, M) /\ u.slot = t.slot /\ u.view = t.view
             /\ u.tag # "Joining"
  <2>1. qc.hash.slot = t.slot
    BY <1>5 DEF TCValid, verify_quorum_certificate, TimeoutPayload
  <2>2. KindVoted(kind, t.slot, M)
    BY <1>2, <2>1 DEF TCVoted
  <2>3. PICK k : k = kind
    OBVIOUS
  <2>4. PICK q : q = qc
    OBVIOUS
  <2>5. PICK v : v = p.view - 1
    OBVIOUS
  <2>6. k \in Kind /\ TCValid(t, q, k, t.slot, v) /\ KindVoted(k, t.slot, M)
    BY <1>1, <1>5, <2>2, <2>3, <2>4, <2>5
  <2>7. PICK y : y = verify_tc(t, k, t.slot)
    OBVIOUS
  <2>8. /\ y \in State /\ Kept(n, t, y, M) /\ y.slot = t.slot /\ y.view = t.view
        /\ y.tag = t.tag
    BY <1>3, <2>6, <2>7, VerifyTCKept DEF Kept
  <2>9. y = u
    BY <2>3, <2>7
  <2> HIDE DEF u
  <2> QED  BY <1>3, <2>8, <2>9
<1>6. ASSUME TCValid(t, qc, kind, t.slot, p.view - 1)
      PROVE  Kept(n, s, u, M)
  <2>1. u \in State /\ Kept(n, t, u, M)
    BY <1>5, <1>6
  <2> HIDE DEF u
  <2> QED  BY <1>3, <2>1, KeptTransitive
<1>7. ASSUME TCValid(t, qc, kind, t.slot, p.view - 1), p.view = t.view + 1
      PROVE  Kept(n, s, w, M)
  <2>1. t.view \in Nat
    BY <1>3 DEF State
  <2>2. p.view - 1 = t.view
    BY <1>1, <1>7, <2>1
  <2>3. qc.hash.view = t.view
    BY <1>7, <2>2 DEF TCValid, verify_quorum_certificate, TimeoutPayload
  <2>4. t.view < MaxView
    BY <1>2, <2>3 DEF TCVoted
  <2>5. /\ u \in State /\ Kept(n, t, u, M) /\ u.slot = t.slot /\ u.view = t.view
        /\ u.tag # "Joining"
    BY <1>5, <1>7
  <2>6. Kept(n, s, u, M)
    BY <1>6, <1>7
  <2> HIDE DEF u
  <2>7. PICK k : k = p.ticket
    OBVIOUS
  <2>8. k \in Ticket /\ k.type = "TimeoutQC" /\ TicketVoted(k, M)
    BY <1>1, <2>7
  <2>9. PICK y : y = advance_round(n, u, k)
    OBVIOUS
  <2>10. Keeps(u, M) /\ Sends(u, M) /\ u.view < MaxView
    BY <2>4, <2>5 DEF Kept, Holding, Holds
  <2>11. /\ y \in State /\ Holding(n, y, M) /\ y.tag # "Joining"
         /\ y.life = u.life /\ y.slot = u.slot /\ y.view = u.view + 1
    BY <2>5, <2>8, <2>9, <2>10, ViewKept
  <2>12. Kept(n, u, y, M)
    BY <2>1, <2>5, <2>11 DEF Kept, Later, Progress
  <2>13. Kept(n, s, y, M)
    BY <2>5, <2>6, <2>11, <2>12, KeptTransitive
  <2> QED  BY <2>7, <2>9, <2>13
<1>8. Kept(n, s, s, M)
  BY KeptSelf
<1> HIDE DEF r, u, w, kind, qc
<1>9. Kept(n, s, r.state, M)
  BY <1>3, <1>4, <1>6, <1>7, <1>8
<1> QED
  BY <1>9 DEF r

LEMMA ProcessTicketKept ==
    ASSUME NEW s \in State, Good(s), NEW n \in Validators, NEW M, Holding(n, s, M),
           s.tag # "Joining", NEW p \in Prepare, TicketVoted(p.ticket, M)
    PROVE  Kept(n, s, process_ticket(n, s, p).state, M)
<1>1. p.ticket.type \in {"Genesis", "CommitQC", "TimeoutQC"}
  BY DEF Prepare, Ticket, GenesisTicket
<1>2. CASE p.ticket.type = "Genesis"
  <2>1. process_ticket(n, s, p).state = s
    BY <1>2 DEF process_ticket, Processed, Failed
  <2> QED  BY <2>1, KeptSelf
<1>3. CASE p.ticket.type = "CommitQC"
  BY <1>3, CommitTicketKept DEF process_ticket
<1>4. CASE p.ticket.type = "TimeoutQC"
  BY <1>4, TimeoutTicketKept DEF process_ticket
<1> QED
  BY <1>1, <1>2, <1>3, <1>4

-----------------------------------------------------------------------------
(* A follower's handlers.                                                   *)

\* The proposal of the slot, or the Prepare to handle next, is replaced, or a
\* validator stops joining.
LEMMA ReplaceKept ==
    ASSUME NEW s \in State, NEW n, NEW M, Holding(n, s, M),
           NEW t, Apart(s, t, {"cp", "next", "tag"}),
           t.tag = s.tag \/ (s.tag = "Joining" /\ t.tag = "Follower"),
           \/ t.cp = s.cp
           \/ /\ t.cp \in Proposals(M)
              /\ s.tag # "Leader" \/ \E q \in Prepares(M) :
                    q.src = round_leader(s.slot, s.view) /\ q.prop = t.cp,
           t.next = s.next \/ t.next = None \/ PrepareVoted(t.next, M)
    PROVE  Kept(n, s, t, M)
<1>1. /\ t.slot = s.slot /\ t.view = s.view /\ t.step = s.step
      /\ t.ticket = s.ticket /\ t.prepares = s.prepares
      /\ t.hqc = s.hqc /\ t.life = s.life /\ t.votes = s.votes /\ t.acks = s.acks
      /\ t.commits = s.commits /\ t.out = s.out
  BY ApartFields DEF Fields, Ledger
<1>2. Keeps(t, M)
  BY <1>1 DEF Holding, Holds, Keeps
<1>3. Collects(n, t, M) /\ Sends(t, M)
  BY <1>1 DEF Holding, Holds, Collects, Sends
<1>4. Leads(n, t, M)
  BY <1>1 DEF Holding, Holds, Leads
<1>5. Later(s, t)
  BY <1>1 DEF Later, Progress
<1> QED
  BY <1>2, <1>3, <1>4, <1>5 DEF Kept, Holding, Holds

LEMMA HighestKept ==
    ASSUME NEW s \in State, NEW n \in Validators, NEW M, Holding(n, s, M),
           NEW qc \in QC, Voted(qc.hash, M)
    PROVE  LET t == update_highest_seen_prepare_qc(s, s.slot, qc)
           IN  t \in State /\ Kept(n, s, t, M)
<1>0. PICK t : t = update_highest_seen_prepare_qc(s, s.slot, qc)
  OBVIOUS
<1>1. s.slot \in Nat
  BY DEF State
<1>2. t \in State
  BY <1>0, <1>1, HighestType
<1>3. CASE ~IsHighest(s, s.slot)
  <2>1. t = s
    BY <1>0, <1>3 DEF update_highest_seen_prepare_qc
  <2> QED  BY <1>0, <1>2, <2>1, KeptSelf
<1>4. CASE IsHighest(s, s.slot)
  <2> DEFINE q == [slot |-> s.slot, qc |-> qc]
  <2>1. DOMAIN s = Fields /\ t = [s EXCEPT !.hqc = q] /\ q.qc = qc
    BY <1>0, <1>4, StateFields DEF update_highest_seen_prepare_qc
  <2> HIDE DEF q
  <2>2. t.hqc = q /\ \A f \in Fields \ {"hqc"} : t[f] = s[f]
    BY <2>1 DEF Fields
  <2>3. /\ t.slot = s.slot /\ t.view = s.view /\ t.cp = s.cp
        /\ t.tag = s.tag /\ t.ticket = s.ticket /\ t.prepares = s.prepares
        /\ t.next = s.next /\ t.life = s.life /\ t.votes = s.votes /\ t.acks = s.acks
        /\ t.commits = s.commits /\ t.out = s.out /\ t.step = s.step
    BY <2>2 DEF Fields
  <2>4. Keeps(t, M)
    BY <2>1, <2>2, <2>3 DEF Holding, Holds, Keeps
  <2>5. Collects(n, t, M) /\ Leads(n, t, M) /\ Sends(t, M)
    BY <2>3 DEF Holding, Holds, Collects, Leads, Sends
  <2>6. Kept(n, s, t, M)
    BY <2>3, <2>4, <2>5 DEF Kept, Holding, Holds, Later, Progress
  <2> QED  BY <1>0, <1>2, <2>6
<1> QED
  BY <1>3, <1>4

LEMMA BufferKept ==
    ASSUME NEW s \in State, NEW n \in Validators, NEW M, Holding(n, s, M),
           NEW p \in Prepare, PrepareVoted(p, M)
    PROVE  LET t == buffer_prepare_message_and_fetch_missing_parent(n, s, p)
           IN  t \in State /\ Kept(n, s, t, M)
<1> DEFINE t == IF contains(s, hashed(p.prop)) THEN s ELSE push(s, p)
           missing == {h \in Ancestors(t, p.prop) : ~contains(t, h)}
           x == CHOOSE h \in missing : TRUE
           m == [type |-> "SyncRequest", src |-> n, hash |-> x]
           y == Broadcast(n, t, m)
<1>0. PICK b : b = buffer_prepare_message_and_fetch_missing_parent(n, s, p)
  OBVIOUS
<1>1. b = IF missing = {} THEN t ELSE y
  BY <1>0 DEF buffer_prepare_message_and_fetch_missing_parent
<1>2. t \in State /\ b \in State
  BY <1>0, PushType, BufferType
<1>3. Kept(n, s, t, M)
  BY PushKept, KeptSelf
<1> HIDE DEF t, x
<1>4. m.type = "SyncRequest"
  OBVIOUS
<1> HIDE DEF m, missing
<1>5. Kept(n, t, y, M)
  <2>1. m.type # "Prepare" /\ m.type \notin {"PrepareVote", "ConfirmAck"}
    BY <1>4
  <2>2. MessageVoted(m, M)
    BY <1>4 DEF MessageVoted
  <2>3. PICK to : to = Validators
    OBVIOUS
  <2>4. PICK z : z = Send(n, t, to, m)
    OBVIOUS
  <2>5. Kept(n, t, z, M)
    BY <1>2, <1>3, <2>1, <2>2, <2>4, SendKept DEF Kept
  <2> QED  BY <2>3, <2>4, <2>5 DEF Broadcast
<1> HIDE DEF y
<1>6. b = y => Kept(n, s, b, M)
  BY <1>2, <1>3, <1>5, KeptTransitive
<1> QED
  BY <1>0, <1>1, <1>2, <1>3, <1>6

LEMMA AcceptProposalKept ==
    ASSUME NEW s \in State, NEW n \in Validators, NEW M, Holding(n, s, M),
           NEW p \in Prepare, PrepareVoted(p, M), p.prop.slot = s.slot,
           p.src = round_leader(s.slot, s.view)
    PROVE  LET t == AcceptProposal(n, s, p)
           IN  t \in State /\ Kept(n, s, t, M)
<1> DEFINE q == [s EXCEPT !.cp = p.prop]
           t == push(q, p)
           next == Children(t, hashed(p.prop))
           x == CHOOSE child \in next : TRUE
           u == [t EXCEPT !.next = x]
           m == [type |-> "PrepareVote", src |-> n, hash |-> hashed(p.prop)]
           to == {round_leader(s.slot, s.view)}
           v == Send(n, t, to, m)
<1>0. PICK a : a = AcceptProposal(n, s, p)
  OBVIOUS
<1>1. a = IF next # {} THEN u ELSE v
  BY <1>0 DEF AcceptProposal
<1>2. a \in State
  BY <1>0, AcceptProposalOK
<1>3. p.prop \in Prop
  BY DEF Prepare
<1>4. q \in State /\ Apart(s, q, {"cp", "next", "tag"}) /\ q.cp = p.prop
      /\ q.next = s.next /\ q.tag = s.tag
  <2>1. q \in State
    BY <1>3 DEF State
  <2>2. DOMAIN s = Fields
    BY StateFields
  <2> QED  BY <2>1, <2>2 DEF Apart, Differs, Ledger, Fields
<1>5. m.type = "PrepareVote" /\ m.src = n
  OBVIOUS
<1> HIDE DEF q, m, to
<1>6. Kept(n, s, q, M)
  <2>1. PICK r \in Prepares(M) : r.src = p.src /\ r.prop = p.prop
    BY DEF PrepareVoted
  <2>2. q.cp \in Proposals(M)
    BY <1>4, <2>1 DEF Proposals
  <2> QED  BY <1>4, <2>1, <2>2, ReplaceKept
<1>7. t \in State /\ Kept(n, q, t, M)
  BY <1>4, <1>6, PushType, PushKept DEF Kept
<1> HIDE DEF t
<1>8. Kept(n, s, t, M)
  BY <1>4, <1>6, <1>7, KeptTransitive
<1>9. ASSUME next # {}
      PROVE  Kept(n, t, u, M)
  <2>1. next \subseteq t.prepares
    BY DEF Children
  <2> HIDE DEF next
  <2>2. x \in t.prepares
    BY <1>9, <2>1
  <2> HIDE DEF x
  <2>3. PrepareVoted(x, M)
    BY <1>7, <2>2 DEF Kept, Holding, Holds, Keeps
  <2>4. DOMAIN t = Fields
    BY <1>7, StateFields
  <2>5. Apart(t, u, {"cp", "next", "tag"}) /\ u.next = x /\ u.cp = t.cp /\ u.tag = t.tag
    BY <2>4 DEF Apart, Differs, Ledger, Fields
  <2> HIDE DEF u
  <2> QED  BY <1>7, <2>3, <2>5, ReplaceKept DEF Kept
<1>10. Kept(n, t, v, M)
  <2>1. m.type # "Prepare" /\ MessageVoted(m, M)
    BY <1>5 DEF MessageVoted
  <2>2. PICK y : y = Send(n, t, to, m)
    OBVIOUS
  <2>3. Kept(n, t, y, M)
    BY <1>5, <1>7, <2>1, <2>2, SendKept DEF Kept
  <2> QED  BY <2>2, <2>3
<1> HIDE DEF u, v, next
<1>11. Kept(n, t, a, M)
  BY <1>1, <1>9, <1>10
<1>12. Kept(n, s, a, M)
  BY <1>2, <1>7, <1>8, <1>11, KeptTransitive
<1> QED
  BY <1>0, <1>2, <1>12

LEMMA OnPrepareKept ==
    ASSUME NEW s0 \in State, Good(s0), NEW n \in Validators, NEW M, Holding(n, s0, M),
           NEW p \in Prepare, PrepareVoted(p, M), NEW valid
    PROVE  Kept(n, s0, on_prepare(n, s0, p, valid), M)
<1> DEFINE g == IF s0.tag = "Joining" /\ ExpectedWhileJoining(s0, p)
                THEN "Follower" ELSE s0.tag
           s == [s0 EXCEPT !.next = None, !.tag = g]
           r == process_ticket(n, s, p)
           t == r.state
           b == buffer_prepare_message_and_fetch_missing_parent(n, t, p)
           a == AcceptProposal(n, t, p)
           h == push(s, p)
<1>1. on_prepare(n, s0, p, valid) =
        IF s.tag = "Joining" THEN h
        ELSE IF p.prop.slot < s.slot THEN s
        ELSE IF r.result = "Err" THEN t
        ELSE IF r.result = "NotProcessed" THEN b
        ELSE IF /\ p.prop.slot = t.slot /\ p.view = t.view
                /\ p.src = round_leader(t.slot, t.view) /\ valid
        THEN a ELSE t
  BY DEF on_prepare
<1>2. DOMAIN s0 = Fields /\ s0.tag \in {"Joining", "Leader", "Follower"}
  BY StateFields DEF State
<1>3. g \in {"Joining", "Leader", "Follower"}
      /\ (g = s0.tag \/ (s0.tag = "Joining" /\ g = "Follower"))
  BY <1>2
<1> HIDE DEF g
<1>4. /\ s \in State /\ Apart(s0, s, {"cp", "next", "tag"}) /\ s.tag = g
      /\ s.cp = s0.cp /\ s.next = None /\ s.step = s0.step /\ s.slot = s0.slot
  <2>1. s.tag = g /\ s.cp = s0.cp /\ s.next = None /\ s.step = s0.step /\ s.slot = s0.slot
    BY <1>2 DEF Fields
  <2>2. Apart(s0, s, {"cp", "next", "tag"})
    BY <1>2 DEF Apart, Differs, Fields, Ledger
  <2>3. s \in State
    BY <1>3 DEF State
  <2> QED  BY <2>1, <2>2, <2>3
<1> HIDE DEF s
<1>5. Kept(n, s0, s, M)
  BY <1>3, <1>4, ReplaceKept
<1>6. Good(s)
  BY <1>3, <1>4 DEF Good, current_slot_prepare_is_present
<1>7. TicketVoted(p.ticket, M)
  BY DEF PrepareVoted
<1>8. ASSUME s.tag # "Joining"
      PROVE  t \in State /\ Kept(n, s0, t, M)
  <2>1. t \in State
    BY <1>4, <1>6, <1>8, ProcessTicketOK DEF HandlerOK
  <2>2. Kept(n, s, t, M)
    BY <1>4, <1>5, <1>6, <1>7, <1>8, ProcessTicketKept DEF Kept
  <2> HIDE DEF r, t
  <2> QED  BY <1>4, <1>5, <2>1, <2>2, KeptTransitive
<1>9. h \in State /\ Kept(n, s, h, M)
  BY <1>4, <1>5, PushType, PushKept DEF Kept
<1> HIDE DEF r, t, h
<1>10. Kept(n, s0, h, M)
  BY <1>4, <1>5, <1>9, KeptTransitive
<1>11. ASSUME s.tag # "Joining"
       PROVE  Kept(n, s0, b, M)
  <2>1. b \in State /\ Kept(n, t, b, M)
    BY <1>8, <1>11, BufferKept DEF Kept
  <2> HIDE DEF b
  <2> QED  BY <1>8, <1>11, <2>1, KeptTransitive
<1>12. ASSUME s.tag # "Joining", p.prop.slot = t.slot, p.src = round_leader(t.slot, t.view)
       PROVE  Kept(n, s0, a, M)
  <2>1. a \in State /\ Kept(n, t, a, M)
    BY <1>8, <1>12, AcceptProposalKept DEF Kept
  <2> HIDE DEF a
  <2> QED  BY <1>8, <1>12, <2>1, KeptTransitive
<1> HIDE DEF a, b
<1> QED
  BY <1>1, <1>5, <1>8, <1>10, <1>11, <1>12

LEMMA OnConfirmKept ==
    ASSUME NEW s \in State, NEW n \in Validators, NEW M, Holding(n, s, M),
           NEW m, m.hash \in Hash, m.qc \in QC, Voted(m.qc.hash, M)
    PROVE  Kept(n, s, on_confirm(n, s, m), M)
<1> DEFINE u == update_highest_seen_prepare_qc(s, s.slot, m.qc)
           a == [type |-> "ConfirmAck", src |-> n, hash |-> m.hash]
           to == {round_leader(s.slot, s.view)}
           t == Send(n, u, to, a)
<1>1. \/ on_confirm(n, s, m) = t /\ m.qc.hash = m.hash
      \/ on_confirm(n, s, m) = s
  BY DEF on_confirm, verify_quorum_certificate
<1>2. a \in Message /\ a.type = "ConfirmAck" /\ a.src = n /\ a.hash = m.hash
      /\ to \in SUBSET Validators
  BY LeaderType DEF Message, State
<1> HIDE DEF a, to
<1>3. u \in State /\ Kept(n, s, u, M)
  <2>1. PICK qc : qc = m.qc
    OBVIOUS
  <2>2. PICK y : y = update_highest_seen_prepare_qc(s, s.slot, qc)
    OBVIOUS
  <2>3. y \in State /\ Kept(n, s, y, M)
    BY <2>1, <2>2, HighestKept
  <2> QED  BY <2>1, <2>2, <2>3
<1> HIDE DEF u
<1>4. ASSUME m.qc.hash = m.hash
      PROVE  Kept(n, s, t, M)
  <2>1. MessageVoted(a, M) /\ a.type # "Prepare"
    BY <1>2, <1>4 DEF MessageVoted
  <2>2. PICK y : y = Send(n, u, to, a)
    OBVIOUS
  <2>3. y \in State
    BY <1>2, <1>3, <2>2, SendType
  <2>4. Kept(n, u, y, M)
    BY <1>2, <1>3, <2>1, <2>2, SendKept DEF Kept
  <2>5. Kept(n, s, y, M)
    BY <1>3, <2>3, <2>4, KeptTransitive
  <2> QED  BY <2>2, <2>5
<1>5. Kept(n, s, s, M)
  BY KeptSelf
<1> HIDE DEF t
<1> QED
  BY <1>1, <1>4, <1>5

-----------------------------------------------------------------------------
(* A leader's handlers.                                                     *)

\* The vote that a leader adds to those it received is its own.
LEMMA OwnVote ==
    ASSUME NEW n \in Validators, NEW A \in SUBSET Validators, n \notin A,
           IsQuorum(compute_voting_power(A) + Stake[n])
    PROVE  IsQuorum(compute_voting_power(A \cup {n}))
<1>1. PICK B : B = A \cup {n}
  OBVIOUS
<1>2. B \in SUBSET Validators /\ n \in B /\ B \ {n} = A
  BY <1>1
<1>3. compute_voting_power(B) = Stake[n] + compute_voting_power(A)
  BY <1>2, PowerOfOne
<1>4. compute_voting_power(A) \in Nat /\ Stake[n] \in Nat
  BY PowerOfOne, BondedAssumption
<1>5. compute_voting_power(B) = compute_voting_power(A) + Stake[n]
  BY <1>3, <1>4
<1> QED
  BY <1>1, <1>5

\* Roles, votes and steps: what a leader changes while it collects votes.
LEMMA CollectKept ==
    ASSUME NEW s \in State, NEW n, NEW M, Holding(n, s, M),
           NEW t, Apart(s, t, {"votes", "acks", "step"}), Collects(n, t, M),
           t.step = s.step \/ t.step = "ConfirmAck"
    PROVE  Kept(n, s, t, M)
<1>1. /\ t.slot = s.slot /\ t.view = s.view /\ t.cp = s.cp /\ t.tag = s.tag
      /\ t.life = s.life /\ t.out = s.out
  BY ApartFields DEF Fields, Ledger
<1>2. Apart(s, t, {"tag", "step", "votes", "acks", "life", "out"})
  BY DEF Apart, Differs
<1>3. Keeps(t, M) /\ Sends(t, M)
  BY <1>1, <1>2, SameKeeps, SameSends DEF Holding, Holds
<1>4. Leads(n, t, M)
  BY <1>1 DEF Holding, Holds, Leads
<1> QED
  BY <1>1, <1>3, <1>4 DEF Kept, Holding, Holds, Later, Progress

LEMMA OnPrepareVoteKept ==
    ASSUME NEW s \in State, NEW n \in Validators, NEW M \in SUBSET Message,
           Holding(n, s, M), NEW m \in M, m.type = "PrepareVote", m.src # n,
           m.src \in Validators, m.hash \in Hash
    PROVE  Kept(n, s, on_prepare_vote(n, s, m), M)
<1> DEFINE V == s.votes \cup {[src |-> m.src, hash |-> m.hash]}
           A == {v.src : v \in V}
           t == [s EXCEPT !.votes = V]
           u == [t EXCEPT !.step = "ConfirmAck"]
           c == [type |-> "Confirm", hash |-> m.hash,
                 qc |-> QuorumCertificate("PrepareVote", m.hash, A \cup {n})]
           y == Broadcast(n, u, c)
<1>1. \/ on_prepare_vote(n, s, m) = s
      \/ on_prepare_vote(n, s, m) = t
      \/ /\ on_prepare_vote(n, s, m) = y
         /\ s.tag = "Leader" /\ s.step = "PrepareVote" /\ m.hash = hashed(s.cp)
         /\ IsQuorum(compute_voting_power(A) + Stake[n])
         /\ \A v \in V : v.hash = m.hash
  <2>1. t.votes = V /\ t.cp = s.cp
    BY DEF State
  <2> QED  BY <2>1 DEF on_prepare_vote, CanAggregate
<1>2. V \in SUBSET Vote /\ A \in SUBSET Validators
  BY DEF State, Vote
<1>3. m.src \in VotersIn(M, "PrepareVote", m.hash)
  BY DEF VotersIn
<1>4. \A v \in V : v.src # n /\ v.src \in VotersIn(M, "PrepareVote", v.hash)
  <2>1. \A v \in s.votes : v.src # n /\ v.src \in VotersIn(M, "PrepareVote", v.hash)
    BY DEF Holding, Holds, Collects
  <2> QED  BY <1>3, <2>1
<1>5. n \notin A
  BY <1>4
<1>6. c.type = "Confirm" /\ c.qc.hash = m.hash /\ c \in Message
  <2>1. A \cup {n} \in SUBSET Validators
    BY <1>2
  <2>2. c.qc \in QC
    BY <2>1 DEF QuorumCertificate, QC
  <2> QED  BY <2>2 DEF QuorumCertificate, Message
<1>7. (\A v \in V : v.hash = m.hash) => A \subseteq VotersIn(M, "PrepareVote", m.hash)
  BY <1>4
<1> HIDE DEF A, c
<1>8. \A v \in s.acks : v.src # n /\ v.src \in VotersIn(M, "ConfirmAck", v.hash)
  BY DEF Holding, Holds, Collects
<1>9. DOMAIN s = Fields
  BY StateFields
<1> HIDE DEF V
<1>10. /\ t \in State /\ Apart(s, t, {"votes", "acks", "step"}) /\ t.votes = V
       /\ t.acks = s.acks /\ t.step = s.step
  <2>1. t \in State
    BY <1>2 DEF State
  <2> QED  BY <1>9, <2>1 DEF Apart, Differs, Ledger, Fields
<1>11. /\ u \in State /\ Apart(s, u, {"votes", "acks", "step"}) /\ u.votes = V
       /\ u.acks = s.acks /\ u.step = "ConfirmAck"
  <2>1. u \in State
    BY <1>2 DEF State
  <2> QED  BY <1>9, <2>1 DEF Apart, Differs, Ledger, Fields
<1> HIDE DEF t, u
<1>12. Kept(n, s, t, M) /\ Kept(n, s, u, M)
  <2>1. Collects(n, t, M) /\ Collects(n, u, M)
    BY <1>4, <1>8, <1>10, <1>11 DEF Collects
  <2> QED  BY <1>10, <1>11, <2>1, CollectKept
<1>13. ASSUME s.tag = "Leader", s.step = "PrepareVote", m.hash = hashed(s.cp),
              IsQuorum(compute_voting_power(A) + Stake[n]),
              \A v \in V : v.hash = m.hash
       PROVE  Kept(n, s, y, M)
  <2>1. Voted(m.hash, M)
    <3>1. CASE Voted(hashed(s.cp), M)
      BY <1>13, <3>1
    <3>2. CASE \E q \in Prepares(M) : q.src = n /\ hashed(q.prop) = hashed(s.cp)
      <4>1. PICK q \in Prepares(M) : q.src = n /\ hashed(q.prop) = m.hash
        BY <1>13, <3>2
      <4>2. PICK W : W = VotersIn(M, "PrepareVote", m.hash) \cup {n}
        OBVIOUS
      <4>3. W \in SUBSET Validators /\ A \cup {n} \in SUBSET Validators
            /\ A \cup {n} \subseteq W
        BY <1>2, <1>7, <1>13, <4>2, VotersType
      <4>4. IsQuorum(compute_voting_power(A \cup {n}))
        BY <1>2, <1>5, <1>13, OwnVote
      <4>5. IsQuorum(compute_voting_power(W))
        BY <4>3, <4>4, QuorumOK
      <4> QED  BY <4>1, <4>2, <4>5 DEF Voted
    <3> QED  BY <1>13, <3>1, <3>2 DEF Holding, Holds, Leads
  <2>2. c.type # "Prepare" /\ c.type \notin {"PrepareVote", "ConfirmAck"}
        /\ MessageVoted(c, M)
    BY <1>6, <2>1 DEF MessageVoted
  <2>3. PICK to : to = Validators
    OBVIOUS
  <2>4. PICK z : z = Send(n, u, to, c)
    OBVIOUS
  <2>5. z \in State
    BY <1>6, <1>11, <2>3, <2>4, SendType
  <2>6. Kept(n, u, z, M)
    BY <1>11, <1>12, <2>2, <2>4, SendKept DEF Kept
  <2>7. Kept(n, s, z, M)
    BY <1>11, <1>12, <2>5, <2>6, KeptTransitive
  <2> QED  BY <2>3, <2>4, <2>7 DEF Broadcast
<1>14. Kept(n, s, s, M)
  BY KeptSelf
<1> HIDE DEF y
<1> QED
  BY <1>1, <1>12, <1>13, <1>14

LEMMA OnConfirmAckKept ==
    ASSUME NEW s \in State, Good(s), NEW n \in Validators, NEW M \in SUBSET Message,
           Holding(n, s, M), NEW m \in M, m.type = "ConfirmAck", m.src # n,
           m.src \in Validators, m.hash \in Hash, Voted(m.hash, M)
    PROVE  Kept(n, s, on_confirm_ack(n, s, m), M)
<1> DEFINE V == s.acks \cup {[src |-> m.src, hash |-> m.hash]}
           A == {v.src : v \in V}
           t == [s EXCEPT !.acks = V]
           qc == QuorumCertificate("ConfirmAck", m.hash, A \cup {n})
           c == [type |-> "Commit", hash |-> m.hash, qc |-> qc]
           y == Broadcast(n, t, c)
           w == CommitAndAdvance(n, y, qc)
<1>1. \/ on_confirm_ack(n, s, m) = s
      \/ on_confirm_ack(n, s, m) = t
      \/ /\ on_confirm_ack(n, s, m) = w
         /\ s.tag = "Leader" /\ s.step = "ConfirmAck" /\ m.hash = hashed(s.cp)
         /\ IsQuorum(compute_voting_power(A) + Stake[n])
         /\ \A v \in V : v.hash = m.hash
  <2>1. t.acks = V /\ t.cp = s.cp
    BY DEF State
  <2> QED  BY <2>1 DEF on_confirm_ack, CanAggregate
<1>2. V \in SUBSET Vote /\ A \in SUBSET Validators
  BY DEF State, Vote
<1>3. m.src \in VotersIn(M, "ConfirmAck", m.hash)
  BY DEF VotersIn
<1>4. \A v \in V : v.src # n /\ v.src \in VotersIn(M, "ConfirmAck", v.hash)
  <2>1. \A v \in s.acks : v.src # n /\ v.src \in VotersIn(M, "ConfirmAck", v.hash)
    BY DEF Holding, Holds, Collects
  <2> QED  BY <1>3, <2>1
<1>5. n \notin A
  BY <1>4
<1>6. qc \in QC /\ qc.hash = m.hash /\ qc.signers = A \cup {n} /\ qc.marker = "ConfirmAck"
  <2>1. A \cup {n} \in SUBSET Validators
    BY <1>2
  <2> QED  BY <2>1 DEF QuorumCertificate, QC
<1>7. (\A v \in V : v.hash = m.hash) => A \subseteq VotersIn(M, "ConfirmAck", m.hash)
  BY <1>4
<1> HIDE DEF A, qc
<1>8. c.type = "Commit" /\ c.qc = qc /\ c \in Message
  BY <1>6 DEF Message
<1> HIDE DEF c
<1>9. \A v \in s.votes : v.src # n /\ v.src \in VotersIn(M, "PrepareVote", v.hash)
  BY DEF Holding, Holds, Collects
<1>10. DOMAIN s = Fields
  BY StateFields
<1> HIDE DEF V
<1>11. /\ t \in State /\ Apart(s, t, {"votes", "acks", "step"}) /\ t.acks = V
       /\ t.votes = s.votes /\ t.step = s.step /\ t.cp = s.cp /\ t.slot = s.slot
       /\ t.tag = s.tag
  <2>1. t \in State
    BY <1>2 DEF State
  <2> QED  BY <1>10, <2>1 DEF Apart, Differs, Ledger, Fields
<1> HIDE DEF t
<1>12. Kept(n, s, t, M)
  <2>1. Collects(n, t, M)
    BY <1>4, <1>9, <1>11 DEF Collects
  <2> QED  BY <1>11, <2>1, CollectKept
<1>13. ASSUME s.tag = "Leader", s.step = "ConfirmAck", m.hash = hashed(s.cp),
              IsQuorum(compute_voting_power(A) + Stake[n]),
              \A v \in V : v.hash = m.hash
       PROVE  Kept(n, s, w, M)
  <2>1. IsQuorum(compute_voting_power(qc.signers))
    BY <1>2, <1>5, <1>6, <1>13, OwnVote
  <2>2. CommitQCOK(qc, M)
    BY <1>6, <1>7, <1>13 DEF CommitQCOK, Acked
  <2>3. c.type # "Prepare" /\ c.type \notin {"PrepareVote", "ConfirmAck"}
        /\ MessageVoted(c, M)
    BY <1>8, <2>2 DEF MessageVoted
  <2>4. PICK to : to = Validators
    OBVIOUS
  <2>5. PICK z : z = Send(n, t, to, c)
    OBVIOUS
  <2>6. z \in State
    BY <1>8, <1>11, <2>4, <2>5, SendType
  <2>7. Kept(n, t, z, M) /\ Differs(t, z, {"out"})
    BY <1>11, <1>12, <2>3, <2>5, SendKept DEF Kept
  <2>8. z.cp = s.cp /\ z.slot = s.slot /\ z.tag = "Leader"
    BY <1>11, <1>13, <2>7 DEF Differs, Fields
  <2>9. Kept(n, s, z, M)
    BY <1>11, <1>12, <2>6, <2>7, KeptTransitive
  <2>10. /\ current_slot_prepare_is_present(z)
         /\ verify_quorum_certificate("ConfirmAck", hashed(z.cp), qc)
    BY <1>6, <1>13, <2>1, <2>8 DEF Good, current_slot_prepare_is_present,
                                   verify_quorum_certificate
  <2>11. PICK x : x = CommitAndAdvance(n, z, qc)
    OBVIOUS
  <2>12. x \in State /\ Kept(n, z, x, M)
    BY <1>6, <2>2, <2>6, <2>7, <2>8, <2>10, <2>11, CommittedKept DEF Kept
  <2>13. Kept(n, s, x, M)
    BY <2>6, <2>9, <2>12, KeptTransitive
  <2>14. z = y
    BY <2>4, <2>5 DEF Broadcast
  <2> QED  BY <2>11, <2>13, <2>14
<1>14. Kept(n, s, s, M)
  BY KeptSelf
<1> HIDE DEF w
<1> QED
  BY <1>1, <1>12, <1>13, <1>14

-----------------------------------------------------------------------------
(* Commits, synchronisation, blocks and restarts.                           *)

\* A joining validator that has the proposal takes up the round after it.
LEMMA OnCommitWhileJoiningKept ==
    ASSUME NEW s \in State, NEW n \in Validators, NEW M, Holding(n, s, M),
           s.tag = "Joining", NEW m, m.qc \in QC, CommitQCOK(m.qc, M)
    PROVE  Kept(n, s, on_commit_while_joining(n, s, m), M)
<1> DEFINE p == get(s, m.hash).prop
           t == [s EXCEPT !.cp = p]
           u == [t EXCEPT !.slot = p.slot, !.view = 0, !.tag = "Follower"]
           w == CommitAndAdvance(n, u, m.qc)
<1>1. \/ on_commit_while_joining(n, s, m) = s
      \/ /\ contains(s, m.hash) /\ ~(p.slot <= s.slot)
         /\ \/ on_commit_while_joining(n, s, m) = t
            \/ /\ on_commit_while_joining(n, s, m) = w
               /\ verify_quorum_certificate("ConfirmAck", hashed(p), m.qc)
  <2> HIDE DEF w, t
  <2>1. CASE ~contains(s, m.hash) \/ p.slot <= s.slot \/ s.synced + 1 < p.slot
    BY <2>1, Zenon DEF on_commit_while_joining
  <2>2. CASE ~(~contains(s, m.hash) \/ p.slot <= s.slot \/ s.synced + 1 < p.slot)
    <3>1. CASE verify_quorum_certificate("ConfirmAck", hashed(p), m.qc)
      BY <2>2, <3>1, Zenon DEF on_commit_while_joining, w, t
    <3>2. CASE ~verify_quorum_certificate("ConfirmAck", hashed(p), m.qc)
      BY <2>2, <3>2, Zenon DEF on_commit_while_joining, t
    <3> QED  BY <3>1, <3>2
  <2> QED  BY <2>1, <2>2
<1>2. Kept(n, s, s, M)
  BY KeptSelf
<1>3. ASSUME contains(s, m.hash), ~(p.slot <= s.slot)
      PROVE  /\ Kept(n, s, t, M)
             /\ verify_quorum_certificate("ConfirmAck", hashed(p), m.qc)
                  => Kept(n, s, w, M)
  <2>1. get(s, m.hash) \in s.prepares
    <3>1. Buffered(s, m.hash) # {} /\ Buffered(s, m.hash) \subseteq s.prepares
      BY <1>3 DEF contains, Buffered
    <3> QED  BY <3>1 DEF get
  <2>2. p \in Prop /\ p \in Proposals(M)
    BY <2>1 DEF State, Prepare, Holding, Holds, Keeps, PrepareVoted, Proposals
  <2> HIDE DEF p
  <2>3. p.slot \in Nat /\ s.slot \in Nat /\ s.slot > 0 /\ p.slot > 0 /\ 0 <= MaxView
    <3>1. p.slot \in Nat /\ s.slot \in Nat /\ s.slot > 0 /\ MaxView \in Nat
      BY <2>2, BoundsAssumption DEF Prop, State, Holding, Holds, Keeps
    <3> QED  BY <1>3, <3>1
  <2>4. DOMAIN s = Fields
    BY StateFields
  <2>5. Apart(s, t, {"cp", "next", "tag"}) /\ t.cp = p /\ t.tag = s.tag /\ t.next = s.next
    BY <2>4 DEF Apart, Differs, Ledger, Fields
  <2>6. Kept(n, s, t, M)
    BY <2>2, <2>5, ReplaceKept
  <2>7. /\ u \in State /\ u.slot = p.slot /\ u.view = 0 /\ u.tag = "Follower"
        /\ u.cp = p /\ u.hqc = s.hqc /\ u.ticket = s.ticket /\ u.prepares = s.prepares
        /\ u.next = s.next /\ u.life = s.life /\ u.commits = s.commits /\ u.out = s.out
    <3>1. u = [s EXCEPT !.cp = p, !.slot = p.slot, !.view = 0, !.tag = "Follower"]
      OBVIOUS
    <3>2. PICK l : l = p.slot
      OBVIOUS
    <3>3. u = [s EXCEPT !.cp = p, !.slot = l, !.view = 0, !.tag = "Follower"] /\ l \in Nat
      BY <2>3, <3>1, <3>2
    <3> HIDE DEF u
    <3>4. u \in State
      BY <2>2, <3>3 DEF State
    <3> QED  BY <2>4, <3>2, <3>3, <3>4 DEF Fields
  <2> HIDE DEF t, u
  <2>8. Keeps(u, M) /\ Sends(u, M)
    BY <2>2, <2>3, <2>7 DEF Holding, Holds, Keeps, Sends
  <2>9. ASSUME verify_quorum_certificate("ConfirmAck", hashed(p), m.qc)
        PROVE  Kept(n, s, w, M)
    <3>1. PICK qc : qc = m.qc
      OBVIOUS
    <3>2. /\ qc \in QC /\ CommitQCOK(qc, M) /\ qc.hash = hashed(u.cp)
          /\ IsQuorum(compute_voting_power(qc.signers))
          /\ current_slot_prepare_is_present(u)
      BY <2>7, <2>9, <3>1 DEF verify_quorum_certificate, current_slot_prepare_is_present
    <3>3. PICK x : x = CommitAndAdvance(n, u, qc)
      OBVIOUS
    <3>4. /\ x \in State /\ Holding(n, x, M) /\ x.tag # "Joining"
          /\ x.life = u.life /\ x.slot = u.slot + 1
      BY <2>7, <2>8, <3>2, <3>3, CommitQCKept
    <3>5. Kept(n, s, x, M)
      BY <2>7, <3>4 DEF Kept, Later
    <3> QED  BY <3>1, <3>3, <3>5
  <2> QED  BY <2>6, <2>9
<1> HIDE DEF w, t, p
<1> QED
  BY <1>1, <1>2, <1>3

LEMMA OnCommitKept ==
    ASSUME NEW s \in State, NEW n \in Validators, NEW M, Holding(n, s, M),
           NEW m, m.qc \in QC, CommitQCOK(m.qc, M)
    PROVE  Kept(n, s, on_commit(n, s, m), M)
<1>1. CASE s.tag = "Joining"
  BY <1>1, OnCommitWhileJoiningKept DEF on_commit
<1>2. CASE s.tag # "Joining"
  <2>1. \/ on_commit(n, s, m) = s
        \/ /\ on_commit(n, s, m) = CommitAndAdvance(n, s, m.qc)
           /\ current_slot_prepare_is_present(s) /\ m.hash = hashed(s.cp)
           /\ verify_quorum_certificate("ConfirmAck", m.hash, m.qc)
    BY <1>2 DEF on_commit
  <2>2. PICK qc : qc = m.qc
    OBVIOUS
  <2>3. PICK x : x = CommitAndAdvance(n, s, qc)
    OBVIOUS
  <2>4. ASSUME current_slot_prepare_is_present(s),
               verify_quorum_certificate("ConfirmAck", hashed(s.cp), qc)
        PROVE  Kept(n, s, x, M)
    BY <1>2, <2>2, <2>3, <2>4, CommittedKept
  <2> QED  BY <2>1, <2>2, <2>3, <2>4, KeptSelf
<1> QED
  BY <1>1, <1>2

LEMMA OnSyncRequestKept ==
    ASSUME NEW s \in State, NEW n \in Validators, NEW M, Holding(n, s, M), NEW m
    PROVE  Kept(n, s, on_sync_request(n, s, m), M)
<1>1. CASE contains(s, m.hash)
  <2>1. PICK p : p = get(s, m.hash)
    OBVIOUS
  <2>2. p \in s.prepares
    <3>1. Buffered(s, m.hash) # {} /\ Buffered(s, m.hash) \subseteq s.prepares
      BY <1>1 DEF contains, Buffered
    <3> QED  BY <2>1, <3>1 DEF get
  <2>3. PICK a : a = [type |-> "SyncReply", prepare |-> p]
    OBVIOUS
  <2>4. a.type = "SyncReply" /\ a.prepare = p
    BY <2>3
  <2>5. MessageVoted(a, M)
    BY <2>2, <2>4 DEF MessageVoted, Holding, Holds, Keeps
  <2>6. PICK to : to = {m.src}
    OBVIOUS
  <2>7. PICK z : z = Send(n, s, to, a)
    OBVIOUS
  <2>8. a.type # "Prepare" /\ a.type \notin {"PrepareVote", "ConfirmAck"}
    BY <2>4
  <2>9. Kept(n, s, z, M)
    BY <2>5, <2>7, <2>8, SendKept
  <2> QED  BY <1>1, <2>1, <2>3, <2>6, <2>7, <2>9 DEF on_sync_request
<1>2. CASE ~contains(s, m.hash)
  BY <1>2, KeptSelf DEF on_sync_request
<1> QED
  BY <1>1, <1>2

\* A block may take a joining validator to another slot, and even back.
LEMMA NodeStateEventKept ==
    ASSUME NEW s \in State, NEW n \in Validators, NEW M, Holding(n, s, M),
           NEW block \in Prop
    PROVE  Kept(n, s, handle_node_state_event(s, block), M)
<1> DEFINE x == block.slot
           y == x + 1
           h == hashed(block)
           d == DefaultProposal(x)
           t == [s EXCEPT !.applied = x]
           u == [t EXCEPT !.synced = x, !.slot = y, !.view = 0, !.parent = h,
                          !.cp = d, !.reqs = {}]
<1>1. \/ handle_node_state_event(s, block) = t
      \/ handle_node_state_event(s, block) = u /\ s.tag = "Joining"
  BY DEF handle_node_state_event
<1>2. x \in Nat /\ y \in Nat /\ y > 0 /\ d.slot = x /\ ~(x >= y) /\ 0 <= MaxView
  <2>1. x \in Nat /\ MaxView \in Nat
    BY BoundsAssumption DEF Prop
  <2> QED  BY <2>1 DEF DefaultProposal
<1> HIDE DEF x, y, h, d
<1>3. DOMAIN s = Fields
  BY StateFields
<1>4. Apart(s, t, {})
  BY <1>3 DEF Apart, Differs, Ledger, Fields
<1>5. Kept(n, s, t, M)
  BY <1>4, ApartKept
<1>6. /\ u.slot = y /\ u.view = 0 /\ u.cp = d /\ u.tag = s.tag
      /\ u.hqc = s.hqc /\ u.ticket = s.ticket /\ u.prepares = s.prepares
      /\ u.votes = s.votes /\ u.acks = s.acks
      /\ u.next = s.next /\ u.life = s.life /\ u.commits = s.commits /\ u.out = s.out
  BY <1>3 DEF Fields
<1> HIDE DEF t, u
<1>7. ASSUME s.tag = "Joining"
      PROVE  Kept(n, s, u, M)
  <2>1. Keeps(u, M)
    BY <1>2, <1>6 DEF Holding, Holds, Keeps
  <2>2. Collects(n, u, M) /\ Leads(n, u, M) /\ Sends(u, M)
    BY <1>6, <1>7 DEF Holding, Holds, Collects, Leads, Sends
  <2> QED  BY <1>6, <1>7, <2>1, <2>2 DEF Kept, Holding, Holds, Later
<1> QED
  BY <1>1, <1>5, <1>7

LEMMA RestartHolds ==
    ASSUME NEW s \in State, NEW n \in Validators, NEW M, Holds(n, s, M), NEW height
    PROVE  LET t == wait_genesis(s, height)
           IN  Holds(n, t, M) /\ t.life = s.life + 1 /\ t.out = s.out
<1> DEFINE k == s.life + 1
           t == [s EXCEPT !.tag = "Joining", !.tstate = "Scheduled", !.cmds = {},
                          !.applied = height, !.life = k]
<1>1. t = wait_genesis(s, height)
  BY DEF wait_genesis
<1>2. DOMAIN s = Fields
  BY StateFields
<1>3. t.life = k
  BY <1>2 DEF Fields
<1> HIDE DEF k
<1>4. Apart(s, t, {"tag", "step", "votes", "acks", "life", "out"})
  BY <1>2 DEF Apart, Differs, Ledger, Fields
<1>5. t.tag = "Joining" /\ t.votes = s.votes /\ t.acks = s.acks /\ t.out = s.out
  BY <1>2 DEF Fields
<1> HIDE DEF t
<1>6. Keeps(t, M)
  BY <1>4, SameKeeps DEF Holds
<1>7. Collects(n, t, M) /\ Leads(n, t, M)
  BY <1>5 DEF Holds, Collects, Leads
<1> QED
  BY <1>1, <1>3, <1>5, <1>6, <1>7 DEF Holds, k

\* Every message handler, on the messages that were heard.
LEMMA HandleNetMessageKept ==
    ASSUME NEW s \in State, Good(s), NEW n \in Validators,
           NEW M \in SUBSET Message, Holding(n, s, M), NEW m \in M, MessageVoted(m, M),
           m.type \in {"PrepareVote", "ConfirmAck"} => m.src # n, NEW valid
    PROVE  Kept(n, s, handle_net_message(n, s, m, valid), M)
<1> DEFINE h == handle_net_message(n, s, m, valid)
<1>0. m \in Message
  OBVIOUS
<1>1. CASE m.type = "Prepare"
  <2> DEFINE p == [src |-> m.src, prop |-> m.prop, ticket |-> m.ticket,
                   view |-> m.view]
  <2>1. /\ p \in Prepare /\ p.prop = m.prop /\ p.ticket = m.ticket
        /\ p.src = m.src /\ p.view = m.view
    BY <1>0, <1>1 DEF Message, Prepare
  <2>2. h = on_prepare(n, s, p, valid)
    BY <1>1, Zenon DEF handle_net_message
  <2> HIDE DEF p, h
  <2>3. PrepareVoted(p, M)
    BY <1>1, <2>1 DEF MessageVoted, PrepareVoted, Prepares
  <2>4. Kept(n, s, h, M)
    BY <2>1, <2>2, <2>3, OnPrepareKept
  <2> QED  BY <2>4 DEF h
<1>2. CASE m.type = "SyncReply"
  <2>1. PICK p : p = m.prepare
    OBVIOUS
  <2>2. p \in Prepare /\ PrepareVoted(p, M)
    BY <1>0, <1>2, <2>1 DEF Message, MessageVoted
  <2>3. h = on_prepare(n, s, p, valid)
    BY <1>2, <2>1 DEF handle_net_message
  <2> HIDE DEF h
  <2>4. Kept(n, s, h, M)
    BY <2>2, <2>3, OnPrepareKept
  <2> QED  BY <2>4 DEF h
<1>3. CASE m.type = "PrepareVote"
  <2>1. m.src \in Validators /\ m.hash \in Hash /\ m.src # n
    BY <1>0, <1>3 DEF Message
  <2>2. h = on_prepare_vote(n, s, m)
    BY <1>3 DEF handle_net_message
  <2> HIDE DEF h
  <2>3. Kept(n, s, h, M)
    BY <1>3, <2>1, <2>2, OnPrepareVoteKept
  <2> QED  BY <2>3 DEF h
<1>4. CASE m.type = "Confirm"
  <2>1. m.hash \in Hash /\ m.qc \in QC /\ Voted(m.qc.hash, M)
    BY <1>0, <1>4 DEF Message, MessageVoted
  <2>2. h = on_confirm(n, s, m)
    BY <1>4 DEF handle_net_message
  <2> QED  BY <2>1, <2>2, OnConfirmKept
<1>5. CASE m.type = "ConfirmAck"
  <2>1. m.src \in Validators /\ m.hash \in Hash /\ m.src # n /\ Voted(m.hash, M)
    BY <1>0, <1>5 DEF Message, MessageVoted
  <2>2. h = on_confirm_ack(n, s, m)
    BY <1>5 DEF handle_net_message
  <2> HIDE DEF h
  <2>3. Kept(n, s, h, M)
    BY <1>5, <2>1, <2>2, OnConfirmAckKept
  <2> QED  BY <2>3 DEF h
<1>6. CASE m.type = "Commit"
  <2>1. m.qc \in QC /\ CommitQCOK(m.qc, M)
    BY <1>0, <1>6 DEF Message, MessageVoted
  <2>2. h = on_commit(n, s, m)
    BY <1>6 DEF handle_net_message
  <2> QED  BY <2>1, <2>2, OnCommitKept
<1>7. CASE m.type = "Timeout"
  <2>1. m.src \in Validators /\ m.kind \in Kind /\ m.view < MaxView
        /\ KindVoted(m.kind, m.slot, M)
    BY <1>0, <1>7 DEF Message, MessageVoted
  <2>2. h = on_timeout(n, s, m)
    BY <1>7 DEF handle_net_message
  <2> HIDE DEF h
  <2>3. Kept(n, s, h, M)
    BY <2>1, <2>2, OnTimeoutKept
  <2> QED  BY <2>3 DEF h
<1>8. CASE m.type = "TimeoutCertificate"
  <2>1. m.qc \in QC /\ m.kind \in Kind /\ TCVoted(m.qc, m.kind, M)
    BY <1>0, <1>8 DEF Message, MessageVoted
  <2>2. h = on_timeout_certificate(n, s, m)
    BY <1>8 DEF handle_net_message
  <2> QED  BY <2>1, <2>2, OnTimeoutCertificateKept
<1>9. CASE m.type = "SyncRequest"
  <2>1. h = on_sync_request(n, s, m)
    BY <1>9 DEF handle_net_message
  <2> QED  BY <2>1, OnSyncRequestKept
<1>10. m.type \in {"Prepare", "SyncReply", "PrepareVote", "Confirm", "ConfirmAck",
                   "Commit", "Timeout", "TimeoutCertificate", "SyncRequest"}
  BY <1>0 DEF Message
<1> HIDE DEF h
<1> QED
  BY <1>1, <1>2, <1>3, <1>4, <1>5, <1>6, <1>7, <1>8, <1>9, <1>10 DEF h

-----------------------------------------------------------------------------
(* A step of a validator keeps the certificates backed.                     *)

\* x is what n newly proposes on its way from s to w.
Fresh(x, n, s, w) ==
    /\ s.tag = "Leader" /\ s.step = "StartNewSlot"
    /\ round_leader(s.slot, s.view) = n
    /\ x.slot = s.slot /\ x.born = Moment(s)
    /\ w.slot = s.slot /\ w.view = s.view /\ w.life = s.life
    /\ w.tag # "Joining" /\ w.step # "StartNewSlot"

\* What the step of n from s to w must have done: N has the messages after it.
Upholds(n, s, w, M) ==
    LET N == M \cup Outs(w)
    IN  /\ Holds(n, w, N) /\ Later(s, w)
        /\ \A i \in DOMAIN w.out : EnvelopeVoted(w.out[i], N)
        /\ \A x \in Proposals(N) : x \in Proposals(M) \/ Fresh(x, n, s, w)
        /\ \A x, y \in Proposals(N) \ Proposals(M) : x = y

\* The moment of a proposal tells the view and the life of its leader.
LEMMA MomentTells ==
    ASSUME NEW K \in Nat, NEW v \in Nat, NEW w \in Nat, v < K, w < K,
           NEW k \in Nat, NEW l \in Nat, v + k * K = w + l * K
    PROVE  v = w /\ k = l
<1>1. ASSUME NEW a \in Nat, NEW b \in Nat, NEW x \in Nat, NEW y \in Nat,
             x < K, y < K, a < b
      PROVE  x + a * K < y + b * K
  <2>1. PICK d \in Nat : b = a + (1 + d)
    <3>1. b - (a + 1) \in Nat /\ b = a + (1 + (b - (a + 1)))
      BY <1>1
    <3> QED  BY <3>1
  <2>2. b * K = a * K + (1 + d) * K
    BY <2>1
  <2>3. (1 + d) * K = K + d * K
    OBVIOUS
  <2>4. a * K \in Nat /\ d * K \in Nat
    OBVIOUS
  <2> QED  BY <1>1, <2>2, <2>3, <2>4
<1>2. k * K \in Nat /\ l * K \in Nat
  OBVIOUS
<1>3. ~(k < l) /\ ~(l < k)
  <2>1. k < l => v + k * K < w + l * K
    BY <1>1
  <2>2. l < k => w + l * K < v + k * K
    BY <1>1
  <2> QED  BY <1>2, <2>1, <2>2
<1>4. k = l
  BY <1>3
<1> QED
  BY <1>2, <1>4

LEMMA PastLater ==
    ASSUME NEW s \in State, NEW t \in State, Later(s, t), NEW slot \in Nat,
           NEW view \in Nat, Past(slot, view, s)
    PROVE  Past(slot, view, t)
<1>1. s.slot \in Nat /\ t.slot \in Nat /\ s.view \in Nat /\ t.view \in Nat
  BY DEF State
<1>2. Progress(s, t) /\ t.tag # "Joining"
  BY DEF Later, Past
<1> QED
  BY <1>1, <1>2 DEF Past, Progress

\* A handler that makes no proposal.
LEMMA HandlerUpholds ==
    ASSUME NEW s \in State, NEW w \in State, NEW n \in Validators,
           NEW M \in SUBSET Message, Kept(n, s, w, M)
    PROVE  Upholds(n, s, w, M)
<1>1. PICK N : N = M \cup Outs(w)
  OBVIOUS
<1>2. N \in SUBSET Message /\ M \subseteq N
  BY <1>1, OutsType
<1>3. Holds(n, w, N) /\ Later(s, w)
  BY <1>2, MoreHolds DEF Kept, Holding
<1>4. \A i \in DOMAIN w.out : EnvelopeVoted(w.out[i], N)
  BY <1>2, MoreVotes DEF Kept, Holding, Sends, EnvelopeVoted
<1>5. Prepares(N) = Prepares(M)
  BY <1>1 DEF Prepares, Outs, Kept, Holding, Sends
<1>6. Proposals(N) = Proposals(M)
  BY <1>5 DEF Proposals
<1> QED
  BY <1>1, <1>3, <1>4, <1>6 DEF Upholds

\* A leader proposes: what it has at hand, or something new.
LEMMA ProposeUpholds ==
    ASSUME NEW s \in State, NEW n \in Validators, NEW M \in SUBSET Message,
           Holds(n, s, M), s.out = <<>>,
           NEW ticket \in Ticket, TicketVoted(ticket, M),
           NEW prop \in Prop, prop.slot = s.slot,
           prop \in Proposals(M) \/ prop.born = Moment(s),
           s.tag = "Leader", s.step = "StartNewSlot"
    PROVE  Upholds(n, s, Propose(n, s, prop, ticket), M)
<1> DEFINE a == [s EXCEPT !.cp = prop, !.step = "PrepareVote", !.ticket = None]
           p == [src |-> n, prop |-> prop, ticket |-> ticket, view |-> s.view]
           m == [type |-> "Prepare", src |-> n, prop |-> prop, ticket |-> ticket,
                 view |-> s.view]
           b == push(a, p)
           w == Broadcast(n, b, m)
           e == [to |-> Validators \ {n}, msg |-> m]
           N == M \cup {m}
<1>1. Propose(n, s, prop, ticket) = w
  BY DEF Propose
<1>2. s.view \in Nat /\ s.slot \in Nat /\ DOMAIN s = Fields
  BY StateFields DEF State
<1>3. /\ DOMAIN a = Fields /\ a.cp = prop /\ a.step = "PrepareVote" /\ a.ticket = None
      /\ \A f \in Fields \ {"cp", "step", "ticket"} : a[f] = s[f]
  BY <1>2 DEF Fields
<1>4. /\ DOMAIN b = Fields
      /\ b.prepares = {q \in a.prepares : hashed(q.prop) # hashed(p.prop)} \cup {p}
      /\ \A f \in Fields \ {"prepares", "children"} : b[f] = a[f]
  <2> HIDE DEF a, p
  <2> QED  BY <1>3 DEF push, Fields
<1> HIDE DEF b
<1>5. /\ DOMAIN w = Fields /\ w.out = Append(b.out, e)
      /\ \A f \in Fields \ {"out"} : w[f] = b[f]
  <2> HIDE DEF m
  <2> QED  BY <1>4 DEF Broadcast, Send, Fields
<1> HIDE DEF a, w
<1>6. /\ m \in Message /\ m.type = "Prepare" /\ m.src = n /\ m.prop = prop
      /\ m.ticket = ticket /\ p.prop = prop /\ p.ticket = ticket /\ p.src = n
      /\ m.view = s.view /\ p.view = s.view
  BY <1>2 DEF Message
<1> HIDE DEF m, p
<1>7. /\ w.slot = s.slot /\ w.view = s.view /\ w.tag = s.tag
      /\ w.next = s.next /\ w.hqc = s.hqc /\ w.life = s.life
      /\ w.votes = s.votes /\ w.acks = s.acks
      /\ w.commits = s.commits /\ w.cp = prop /\ w.step = "PrepareVote"
      /\ w.ticket = None
  BY <1>3, <1>4, <1>5 DEF Fields
<1>8. w.prepares \subseteq s.prepares \cup {p}
  BY <1>3, <1>4, <1>5 DEF Fields
<1>9. w.out = <<e>> /\ e.msg = m
  <2>1. b.out = <<>>
    BY <1>3, <1>4 DEF Fields
  <2> QED  BY <1>5, <2>1
<1> HIDE DEF e
<1>10. DOMAIN w.out = {1} /\ w.out[1] = e
  BY <1>9
<1>11. Outs(w) = {m}
  BY <1>9, <1>10 DEF Outs
<1>12. PICK K : K = N
  OBVIOUS
<1>13. K \in SUBSET Message /\ M \subseteq K /\ m \in Prepares(K)
  BY <1>6, <1>12 DEF Prepares
<1>14. Prepares(K) = Prepares(M) \cup {m} /\ Proposals(K) = Proposals(M) \cup {prop}
  BY <1>6, <1>12 DEF Prepares, Proposals
<1>15. Holds(n, s, K) /\ TicketVoted(ticket, K)
  BY <1>13, MoreHolds, MoreVotes
<1>16. PrepareVoted(p, K)
  BY <1>6, <1>13, <1>15 DEF PrepareVoted
<1>17. Keeps(w, K)
  BY <1>7, <1>8, <1>14, <1>15, <1>16 DEF Holds, Keeps
<1>18. Collects(n, w, K) /\ Leads(n, w, K)
  BY <1>6, <1>7, <1>13, <1>15 DEF Holds, Collects, Leads
<1>19. \A i \in DOMAIN w.out : EnvelopeVoted(w.out[i], K)
  BY <1>6, <1>9, <1>10, <1>15 DEF EnvelopeVoted, MessageVoted, Addressed
<1>20. Later(s, w)
  BY <1>7 DEF Later, Progress
<1>21. prop \in Proposals(M) \/ Fresh(prop, n, s, w)
  BY <1>7, <1>15 DEF Fresh, Holds, Leads
<1>22. M \cup Outs(w) = K
  BY <1>11, <1>12
<1>23. Upholds(n, s, w, M)
  BY <1>14, <1>17, <1>18, <1>19, <1>20, <1>21, <1>22 DEF Upholds, Holds
<1> QED
  BY <1>1, <1>23

LEMMA StartRoundUpholds ==
    ASSUME NEW s \in State, Good(s), NEW n \in Validators, NEW M \in SUBSET Message,
           Holds(n, s, M), s.out = <<>>, NEW may_delay, NEW delay, NEW fees \in BOOLEAN
    PROVE  Upholds(n, s, start_round(n, s, may_delay, delay, fees), M)
<1> DEFINE now == Moment(s)
           new == [slot |-> s.slot, born |-> now, fees |-> fees, parent |-> s.parent]
           c == s.cmds \cup {FALSE}
           d == [s EXCEPT !.cmds = c]
           w == start_round(n, s, may_delay, delay, fees)
           Starts == s.tag = "Leader" /\ s.step = "StartNewSlot" /\ s.ticket # None
<1>1. \/ w = s \/ w = d
      \/ w = Propose(n, s, new, s.ticket) /\ Starts
      \/ /\ w = Propose(n, s, s.cp, s.ticket) /\ Starts
         /\ current_slot_prepare_is_present(s)
  BY DEF start_round
<1>2. /\ s.view \in Nat /\ s.slot \in Nat /\ s.cp \in Prop /\ s.parent \in Hash
      /\ s.life \in Nat /\ (s.ticket # None => s.ticket \in Ticket)
  BY DEF State
<1>3. w \in State
  BY StartRoundOK DEF HandlerOK
<1>4. now \in Int
  BY <1>2, BoundsAssumption DEF Moment
<1> HIDE DEF now
<1>5. new \in Prop /\ new.slot = s.slot /\ new.born = now
  BY <1>2, <1>4 DEF Prop
<1> HIDE DEF new
<1>6. Holding(n, s, M)
  BY DEF Holding, Sends
<1>7. Upholds(n, s, s, M)
  BY <1>6, KeptSelf, HandlerUpholds
<1>8. w = d => Upholds(n, s, w, M)
  <2>1. DOMAIN s = Fields
    BY StateFields
  <2>2. Apart(s, d, {})
    BY <2>1 DEF Apart, Differs, Fields, Ledger
  <2> HIDE DEF d, w
  <2>3. Kept(n, s, d, M)
    BY <1>6, <2>2, ApartKept
  <2> QED  BY <1>3, <2>3, HandlerUpholds
<1>9. ASSUME Starts, NEW prop \in Prop, prop.slot = s.slot,
             prop \in Proposals(M) \/ prop.born = Moment(s)
      PROVE  Upholds(n, s, Propose(n, s, prop, s.ticket), M)
  <2>1. PICK k : k = s.ticket
    OBVIOUS
  <2>2. k \in Ticket /\ TicketVoted(k, M)
    BY <1>2, <1>9, <2>1 DEF Holds, Keeps
  <2>3. Upholds(n, s, Propose(n, s, prop, k), M)
    BY <1>9, <2>2, ProposeUpholds
  <2> QED  BY <2>1, <2>3
<1>10. current_slot_prepare_is_present(s) => s.cp.slot = s.slot /\ s.cp \in Proposals(M)
  BY <1>2 DEF current_slot_prepare_is_present, Holds, Keeps
<1> HIDE DEF w, d, Starts
<1>11. Upholds(n, s, w, M)
  BY <1>1, <1>2, <1>5, <1>7, <1>8, <1>9, <1>10 DEF now
<1> QED
  BY <1>11 DEF w

-----------------------------------------------------------------------------
(* All the validators together.                                             *)

\* The same as facts about a function and a set.
CertificatesOf(f, sent, M) ==
    /\ \A n \in Validators : Holds(n, f[n], M)
    /\ \A e \in sent : EnvelopeVoted(e, M)
    /\ \A p \in Proposals(M) : Made(p, f)
    /\ HashesTell(M)

LEMMA CInvTypes ==
    ASSUME CInv
    PROVE  /\ st \in [Validators -> State] /\ Heard \in SUBSET Message
           /\ \A v \in Validators : Good(st[v]) /\ st[v].out = <<>>
BY DEF CInv, IInv, TypeOK, Heard, Envelope

\* A moment at which n has not proposed is nobody else's.
LEMMA FreshTells ==
    ASSUME CInv, NEW n \in Validators, NEW w, NEW x, Fresh(x, n, st[n], w),
           NEW p \in Proposals(Heard)
    PROVE  hashed(p) # hashed(x)
<1> SUFFICES ASSUME p.slot = x.slot, p.born = x.born PROVE FALSE
  BY DEF hashed
<1>1. st[n] \in State /\ Holds(n, st[n], Heard) /\ Made(p, st)
  BY CInvTypes DEF CInv, Certificates
<1>2. PICK l \in Nat, v \in 0 .. MaxView :
        LET s == st[round_leader(p.slot, v)]
        IN  /\ p.born = v + l * (MaxView + 1)
            /\ l <= s.life /\ (l = s.life => Past(p.slot, v, s))
  BY <1>1 DEF Made
<1>3. /\ st[n].view \in Nat /\ st[n].life \in Nat /\ MaxView \in Nat
      /\ st[n].view <= MaxView /\ st[n].slot \in Nat
  BY <1>1, BoundsAssumption DEF State, Holds, Keeps
<1>4. p.born = st[n].view + st[n].life * (MaxView + 1) /\ p.slot = st[n].slot
      /\ round_leader(st[n].slot, st[n].view) = n /\ st[n].step = "StartNewSlot"
  BY DEF Fresh, Moment
<1>5. PICK K : K = MaxView + 1
  OBVIOUS
<1>6. PICK k : k = st[n].life
  OBVIOUS
<1>7. PICK u : u = st[n].view
  OBVIOUS
<1>8. K \in Nat /\ v \in Nat /\ u \in Nat /\ k \in Nat /\ v < K /\ u < K
  BY <1>3, <1>5, <1>6, <1>7
<1>9. v + l * K = u + k * K
  BY <1>2, <1>4, <1>5, <1>6, <1>7
<1>10. v = u /\ l = k
  BY <1>8, <1>9, MomentTells
<1>11. Past(st[n].slot, st[n].view, st[n])
  BY <1>2, <1>4, <1>6, <1>7, <1>10
<1> QED
  BY <1>3, <1>4, <1>11 DEF Past

LEMMA BecomesUpheld ==
    ASSUME CInv, NEW n \in Validators, NEW w \in State,
           Upholds(n, st[n], w, Heard), Becomes(n, w)
    PROVE  Certificates'
<1> DEFINE t == [w EXCEPT !.out = <<>>]
<1>1. /\ st \in [Validators -> State] /\ Heard \in SUBSET Message
      /\ CertificatesOf(st, msgs, Heard)
  BY CInvTypes DEF CInv, Certificates, CertificatesOf
<1>2. DOMAIN w = Fields
  BY StateFields
<1>3. \A f \in Fields \ {"out"} : t[f] = w[f]
  BY <1>2 DEF Fields
<1>4. /\ t.slot = w.slot /\ t.view = w.view /\ t.cp = w.cp
      /\ t.tag = w.tag /\ t.ticket = w.ticket /\ t.prepares = w.prepares
      /\ t.next = w.next /\ t.hqc = w.hqc /\ t.life = w.life
      /\ t.commits = w.commits /\ t.step = w.step /\ t.votes = w.votes /\ t.acks = w.acks
  BY <1>3 DEF Fields
<1>5. st' = [st EXCEPT ![n] = t] /\ msgs' = msgs \cup {w.out[i] : i \in DOMAIN w.out}
  BY DEF Becomes
<1> HIDE DEF t
<1>6. \A v \in Validators : st'[v] = IF v = n THEN t ELSE st[v]
  BY <1>1, <1>5
<1>7. PICK N : N = Heard \cup Outs(w)
  OBVIOUS
<1>8. Heard' = N
  BY <1>5, <1>7 DEF Heard, Outs
<1>9. N \in SUBSET Message /\ Heard \subseteq N
  BY <1>1, <1>7, OutsType
<1>10. /\ Holds(n, w, N) /\ Later(st[n], w)
       /\ \A i \in DOMAIN w.out : EnvelopeVoted(w.out[i], N)
       /\ \A x \in Proposals(N) : x \in Proposals(Heard) \/ Fresh(x, n, st[n], w)
       /\ \A x, y \in Proposals(N) \ Proposals(Heard) : x = y
  BY <1>7 DEF Upholds
<1>11. ASSUME NEW v \in Validators
       PROVE  Holds(v, st'[v], N)
  <2>1. Holds(n, t, N)
    BY <1>4, <1>10 DEF Holds, Keeps, Collects, Leads
  <2>2. Holds(v, st[v], Heard)
    BY <1>1 DEF CertificatesOf
  <2>3. Holds(v, st[v], N)
    BY <1>1, <1>9, <2>2, MoreHolds
  <2> QED  BY <1>6, <2>1, <2>3
<1>12. \A e \in msgs' : EnvelopeVoted(e, N)
  <2>1. \A e \in msgs : EnvelopeVoted(e, N)
    BY <1>1, <1>9, MoreVotes DEF CertificatesOf, EnvelopeVoted
  <2> QED  BY <1>5, <1>10, <2>1
<1>13. ASSUME NEW p \in Proposals(N)
       PROVE  Made(p, st')
  <2>1. CASE p \in Proposals(Heard)
    <3>1. Made(p, st)
      BY <1>1, <2>1 DEF CertificatesOf
    <3>2. PICK l \in Nat, v \in 0 .. MaxView :
            LET s == st[round_leader(p.slot, v)]
            IN  /\ p.born = v + l * (MaxView + 1)
                /\ l <= s.life /\ (l = s.life => Past(p.slot, v, s))
      BY <3>1 DEF Made
    <3>3. p.slot \in Nat /\ v \in Nat
      <4>1. p \in Prop
        BY <1>1, <2>1, PrepareSource DEF Proposals
      <4> QED  BY <4>1, BoundsAssumption DEF Prop
    <3>4. PICK r : r = round_leader(p.slot, v)
      OBVIOUS
    <3>5. r \in Validators
      BY <3>3, <3>4, LeaderType
    <3>6. l <= st'[r].life /\ (l = st'[r].life => Past(p.slot, v, st'[r]))
      <4>1. l <= st[r].life /\ (l = st[r].life => Past(p.slot, v, st[r]))
        BY <3>2, <3>4
      <4>2. CASE r # n
        BY <1>6, <3>5, <4>1, <4>2
      <4>3. CASE r = n
        <5>1. w.life = st[n].life /\ st[n] \in State
          BY <1>1, <1>10 DEF Later
        <5>2. l = w.life => Past(p.slot, v, w)
          BY <1>10, <3>3, <4>1, <4>3, <5>1, PastLater
        <5>3. l = t.life => Past(p.slot, v, t)
          BY <1>4, <5>2 DEF Past
        <5> QED  BY <1>4, <1>6, <4>1, <4>3, <5>1, <5>3
      <4> QED  BY <4>2, <4>3
    <3> QED  BY <3>2, <3>4, <3>6 DEF Made
  <2>2. CASE Fresh(p, n, st[n], w)
    <3>1. st[n].view \in Nat /\ st[n].life \in Nat /\ st[n].view <= MaxView
          /\ MaxView \in Nat
      BY <1>1, BoundsAssumption DEF State, CertificatesOf, Holds, Keeps
    <3>2. st[n].view \in 0 .. MaxView
      BY <3>1
    <3>3. st'[round_leader(p.slot, st[n].view)] = t
      BY <1>6, <2>2 DEF Fresh
    <3>4. p.born = st[n].view + st[n].life * (MaxView + 1)
      BY <2>2 DEF Fresh, Moment
    <3>5. st[n].life <= t.life /\ Past(p.slot, st[n].view, t)
      BY <1>4, <2>2, <3>1 DEF Fresh, Past
    <3> QED  BY <3>1, <3>2, <3>3, <3>4, <3>5 DEF Made
  <2> QED  BY <1>10, <2>1, <2>2
<1>14. HashesTell(N)
  <2> SUFFICES ASSUME NEW p \in Proposals(N), NEW q \in Proposals(N),
                      hashed(p) = hashed(q)
               PROVE  p = q
    BY DEF HashesTell
  <2>1. CASE p \in Proposals(Heard) /\ q \in Proposals(Heard)
    BY <1>1, <2>1 DEF CertificatesOf, HashesTell
  <2>2. CASE p \in Proposals(Heard) /\ q \notin Proposals(Heard)
    BY <1>10, <2>2, FreshTells
  <2>3. CASE p \notin Proposals(Heard) /\ q \in Proposals(Heard)
    BY <1>10, <2>3, FreshTells
  <2>4. CASE p \notin Proposals(Heard) /\ q \notin Proposals(Heard)
    BY <1>10, <2>4
  <2> QED  BY <2>1, <2>2, <2>3, <2>4
<1>15. CertificatesOf(st', msgs', Heard')
  BY <1>8, <1>11, <1>12, <1>13, <1>14 DEF CertificatesOf
<1> QED
  BY <1>15 DEF Certificates, CertificatesOf

-----------------------------------------------------------------------------
(* Every step keeps the certificates backed.                                *)

LEMMA HandledUpheld ==
    ASSUME CInv, NEW n \in Validators, NEW w, HandlerOK(st[n], w),
           Kept(n, st[n], w, Heard), Becomes(n, w)
    PROVE  Certificates'
<1>1. st[n] \in State /\ Heard \in SUBSET Message
  BY CInvTypes
<1>2. w \in State
  BY DEF HandlerOK
<1>3. Upholds(n, st[n], w, Heard)
  BY <1>1, <1>2, HandlerUpholds
<1> QED
  BY <1>2, <1>3, BecomesUpheld

\* What a validator may start from.
LEMMA CInvReady ==
    ASSUME CInv, NEW n \in Validators
    PROVE  /\ st[n] \in State /\ Good(st[n]) /\ Heard \in SUBSET Message
           /\ Holds(n, st[n], Heard) /\ Holding(n, st[n], Heard)
<1>1. st[n] \in State /\ Good(st[n]) /\ Heard \in SUBSET Message /\ st[n].out = <<>>
  BY CInvTypes
<1>2. Holds(n, st[n], Heard)
  BY DEF CInv, Certificates
<1>3. Sends(st[n], Heard)
  BY <1>1 DEF Sends
<1> QED
  BY <1>1, <1>2, <1>3 DEF Holding

LEMMA ReceivesUpheld ==
    ASSUME CInv, NEW n \in Validators, NEW type, Receives(n, type)
    PROVE  Certificates'
<1>1. /\ st[n] \in State /\ Good(st[n]) /\ Heard \in SUBSET Message
      /\ Holding(n, st[n], Heard)
  BY CInvReady
<1>2. PICK m \in Inbox(n, type) : \E valid \in OutcomesOf(m) :
        Becomes(n, handle_net_message(n, st[n], m, valid))
  BY DEF Receives
<1>3. PICK valid \in OutcomesOf(m) :
        Becomes(n, handle_net_message(n, st[n], m, valid))
  BY <1>2
<1>4. PICK e \in msgs : n \in e.to /\ e.msg = m
  BY <1>2 DEF Inbox
<1>5. m \in Heard /\ m \in Message
  BY <1>1, <1>4 DEF Heard
<1>6. EnvelopeVoted(e, Heard)
  BY DEF CInv, Certificates
<1>7. MessageVoted(m, Heard)
  BY <1>4, <1>6 DEF EnvelopeVoted
<1>8. m.type \in {"PrepareVote", "ConfirmAck"} => m.src # n
  BY <1>4, <1>6 DEF EnvelopeVoted, Addressed
<1>9. PICK w : w = handle_net_message(n, st[n], m, valid)
  OBVIOUS
<1>10. HandlerOK(st[n], w)
  BY <1>1, <1>5, <1>9, HandleNetMessageOK
<1>11. Kept(n, st[n], w, Heard)
  BY <1>1, <1>5, <1>7, <1>8, <1>9, HandleNetMessageKept
<1> QED
  BY <1>3, <1>9, <1>10, <1>11, HandledUpheld

LEMMA StartNewSlotUpheld ==
    ASSUME CInv, NEW n \in Validators, StartNewSlot(n)
    PROVE  Certificates'
<1>1. /\ st[n] \in State /\ Good(st[n]) /\ Heard \in SUBSET Message
      /\ Holding(n, st[n], Heard) /\ st[n].out = <<>>
  BY CInvReady, CInvTypes
<1>2. PICK may_delay \in st[n].cmds, delay \in BOOLEAN, fees \in Fees :
        Becomes(n, start_round(n, [st[n] EXCEPT !.cmds = @ \ {may_delay}],
                               may_delay, delay, fees))
  BY DEF StartNewSlot
<1> DEFINE c == st[n].cmds \ {may_delay}
           s == [st[n] EXCEPT !.cmds = c]
           w == start_round(n, s, may_delay, delay, fees)
<1>3. c \in SUBSET BOOLEAN /\ fees \in BOOLEAN /\ DOMAIN st[n] = Fields
  BY <1>1, BoundsAssumption, StateFields DEF State
<1>4. Becomes(n, w)
  BY <1>2
<1> HIDE DEF c
<1>5. s \in State /\ Quiet(st[n], s)
  BY <1>1, <1>3 DEF State, Quiet, Frame
<1>6. Apart(st[n], s, {})
  BY <1>3 DEF Apart, Differs, Fields, Ledger
<1>7. /\ s.slot = st[n].slot /\ s.view = st[n].view /\ s.tag = st[n].tag
      /\ s.step = st[n].step /\ s.life = st[n].life /\ s.out = st[n].out
  BY <1>3 DEF Fields
<1> HIDE DEF s
<1>8. Good(s)
  BY <1>1, <1>5, QuietOK DEF HandlerOK
<1>9. HandlerOK(s, w)
  BY <1>3, <1>5, <1>8, StartRoundOK
<1>10. Holds(n, s, Heard)
  BY <1>1, <1>6, ApartKept DEF Kept, Holding
<1>11. Upholds(n, s, w, Heard)
  BY <1>1, <1>3, <1>5, <1>7, <1>8, <1>10, StartRoundUpholds
<1> HIDE DEF w
<1>12. w \in State
  BY <1>9 DEF HandlerOK
<1>13. Later(s, w) => Later(st[n], w)
  BY <1>7 DEF Later, Progress
<1>14. \A x : Fresh(x, n, s, w) => Fresh(x, n, st[n], w)
  BY <1>7 DEF Fresh, Moment
<1>15. Upholds(n, st[n], w, Heard)
  BY <1>11, <1>13, <1>14 DEF Upholds
<1> QED
  BY <1>4, <1>12, <1>15, BecomesUpheld

LEMMA NewBlockUpheld ==
    ASSUME CInv, NEW n \in Validators, NewBlock(n)
    PROVE  Certificates'
<1>1. /\ st[n] \in State /\ Good(st[n]) /\ Heard \in SUBSET Message
      /\ Holding(n, st[n], Heard) /\ st \in [Validators -> State]
  BY CInvReady, CInvTypes
<1>2. PICK v \in Validators : \E i \in DOMAIN st[v].commits :
        /\ st[v].commits[i].prop.slot = st[n].applied + 1
        /\ Becomes(n, handle_node_state_event(st[n], st[v].commits[i].prop))
  BY DEF NewBlock
<1>3. PICK i \in DOMAIN st[v].commits :
        /\ st[v].commits[i].prop.slot = st[n].applied + 1
        /\ Becomes(n, handle_node_state_event(st[n], st[v].commits[i].prop))
  BY <1>2
<1>4. PICK b : b = st[v].commits[i].prop
  OBVIOUS
<1>5. b \in Prop
  <2>1. st[v].commits \in Seq(Committed)
    BY <1>1 DEF State
  <2>2. st[v].commits[i] \in Committed
    BY <1>3, <2>1
  <2> QED  BY <1>4, <2>2 DEF Committed
<1>6. PICK w : w = handle_node_state_event(st[n], b)
  OBVIOUS
<1>7. b.slot = st[n].applied + 1 /\ Becomes(n, w)
  BY <1>3, <1>4, <1>6
<1>8. HandlerOK(st[n], w)
  BY <1>1, <1>5, <1>6, <1>7, NodeStateEventOK
<1>9. Kept(n, st[n], w, Heard)
  BY <1>1, <1>5, <1>6, NodeStateEventKept
<1> QED
  BY <1>7, <1>8, <1>9, HandledUpheld

\* A restarted validator holds what it held, and begins a new life.
LEMMA RestartUpheld ==
    ASSUME CInv, NEW n \in Validators, Restart(n)
    PROVE  Certificates'
<1>1. /\ st[n] \in State /\ Heard \in SUBSET Message
      /\ Holds(n, st[n], Heard) /\ st \in [Validators -> State]
      /\ CertificatesOf(st, msgs, Heard)
  BY CInvReady, CInvTypes DEF CInv, Certificates, CertificatesOf
<1>2. PICK height : st' = [st EXCEPT ![n] = wait_genesis(st[n], height)]
  BY DEF Restart
<1>3. PICK t : t = wait_genesis(st[n], height)
  OBVIOUS
<1>4. Holds(n, t, Heard) /\ t.life = st[n].life + 1
  BY <1>1, <1>3, RestartHolds
<1>5. \A v \in Validators : st'[v] = IF v = n THEN t ELSE st[v]
  BY <1>1, <1>2, <1>3
<1>6. msgs' = msgs /\ Heard' = Heard
  BY DEF Restart, Heard
<1>7. \A v \in Validators : Holds(v, st'[v], Heard)
  BY <1>1, <1>4, <1>5 DEF CertificatesOf
<1>8. ASSUME NEW p \in Proposals(Heard)
      PROVE  Made(p, st')
  <2>1. Made(p, st)
    BY <1>1 DEF CertificatesOf
  <2>2. PICK l \in Nat, v \in 0 .. MaxView :
          LET s == st[round_leader(p.slot, v)]
          IN  /\ p.born = v + l * (MaxView + 1)
              /\ l <= s.life /\ (l = s.life => Past(p.slot, v, s))
    BY <2>1 DEF Made
  <2>3. p.slot \in Nat /\ v \in Nat
    <3>1. p \in Prop
      BY <1>1, PrepareSource DEF Proposals
    <3> QED  BY <3>1, BoundsAssumption DEF Prop
  <2>4. PICK r : r = round_leader(p.slot, v)
    OBVIOUS
  <2>5. r \in Validators
    BY <2>3, <2>4, LeaderType
  <2>6. st[n].life \in Nat
    BY <1>1 DEF State
  <2>7. l <= st'[r].life /\ (l = st'[r].life => Past(p.slot, v, st'[r]))
    <3>1. l <= st[r].life /\ (l = st[r].life => Past(p.slot, v, st[r]))
      BY <2>2, <2>4
    <3>2. CASE r # n
      BY <1>5, <2>5, <3>1, <3>2
    <3>3. CASE r = n
      <4>1. st'[r].life = st[n].life + 1
        BY <1>4, <1>5, <2>5, <3>3
      <4> QED  BY <2>6, <3>1, <3>3, <4>1
    <3> QED  BY <3>2, <3>3
  <2> QED  BY <2>2, <2>4, <2>7 DEF Made
<1>9. CertificatesOf(st', msgs', Heard')
  BY <1>1, <1>6, <1>7, <1>8 DEF CertificatesOf
<1> QED
  BY <1>9 DEF Certificates, CertificatesOf

LEMMA StepUpheld ==
    ASSUME CInv, NEW n \in Validators, ValidatorStep(n)
    PROVE  Certificates'
<1>1. /\ st[n] \in State /\ Good(st[n]) /\ Heard \in SUBSET Message
      /\ Holds(n, st[n], Heard) /\ Holding(n, st[n], Heard)
  BY CInvReady
<1>2. CASE FastForward(n)
  <2>1. PICK p : p = st[n].next
    OBVIOUS
  <2>2. PICK valid : Becomes(n, on_prepare(n, st[n], p, valid))
    BY <1>2, <2>1 DEF FastForward
  <2>3. p \in Prepare /\ PrepareVoted(p, Heard)
    BY <1>1, <1>2, <2>1 DEF FastForward, Idle, State, Holds, Keeps
  <2>4. PICK w : w = on_prepare(n, st[n], p, valid)
    OBVIOUS
  <2>5. HandlerOK(st[n], w)
    BY <1>1, <2>3, <2>4, OnPrepareOK
  <2>6. Kept(n, st[n], w, Heard)
    BY <1>1, <2>3, <2>4, OnPrepareKept
  <2> QED  BY <2>2, <2>4, <2>5, <2>6, HandledUpheld
<1>3. CASE TimeoutTick(n)
  <2>1. PICK w : w = on_timeout_tick(n, st[n])
    OBVIOUS
  <2>2. Becomes(n, w) /\ st[n].view < MaxView
    BY <1>3, <2>1 DEF TimeoutTick
  <2>3. HandlerOK(st[n], w)
    BY <1>1, <2>1, OnTimeoutTickOK
  <2>4. Kept(n, st[n], w, Heard)
    BY <1>1, <2>1, <2>2, TickKept
  <2> QED  BY <2>2, <2>3, <2>4, HandledUpheld
<1>4. CASE \E type : Receives(n, type)
  BY <1>4, ReceivesUpheld
<1> QED
  BY <1>2, <1>3, <1>4, StartNewSlotUpheld, NewBlockUpheld, RestartUpheld
     DEF ValidatorStep, OnPrepare, OnSyncReply, OnPrepareVote, OnConfirm,
         OnConfirmAck, OnCommit, OnTimeout, OnTimeoutCertificate, OnSyncRequest

LEMMA CertificatesInit == Init => CInv
<1> SUFFICES ASSUME Init PROVE CInv
  OBVIOUS
<1>1. PICK boot \in Boots : st = [n \in Validators |-> InitialState(n, boot)]
  BY DEF Init
<1>2. IInv /\ msgs = {} /\ Heard = {}
  BY InitOK DEF Init, Heard
<1>3. ASSUME NEW n \in Validators
      PROVE  st[n].out = <<>> /\ Holds(n, st[n], {})
  <2>1. st[n] = InitialState(n, boot)
    BY <1>1
  <2>2. /\ st[n].slot = 1 /\ st[n].view = 0 /\ st[n].cp = DefaultProposal(0)
        /\ st[n].tag = IF round_leader(1, 0) = n THEN "Leader" ELSE "Follower"
        /\ st[n].prepares = {} /\ st[n].next = None /\ st[n].votes = {}
        /\ st[n].hqc = None /\ st[n].acks = {} /\ st[n].commits = <<>>
        /\ st[n].out = <<>> /\ st[n].step = "StartNewSlot"
    BY <2>1 DEF InitialState
  <2>3. st[n].ticket \in {None, CommitTicket(ParentQC), GenesisTicket}
    BY <2>1 DEF InitialState
  <2>4. st[n].cp.slot = 0
    BY <2>2 DEF DefaultProposal
  <2>5. CommitQCOK(ParentQC, {})
    BY DEF CommitQCOK, ParentQC, QuorumCertificate, NoHash
  <2>6. st[n].ticket # None => TicketVoted(st[n].ticket, {})
    <3>1. TicketVoted(CommitTicket(ParentQC), {})
      BY <2>5 DEF TicketVoted, CommitTicket
    <3>2. TicketVoted(GenesisTicket, {})
      BY DEF TicketVoted, GenesisTicket
    <3> QED  BY <2>3, <3>1, <3>2
  <2>7. Keeps(st[n], {})
    BY <2>2, <2>4, <2>6, BoundsAssumption DEF Keeps
  <2>8. Collects(n, st[n], {}) /\ Leads(n, st[n], {})
    BY <2>2 DEF Collects, Leads
  <2> QED  BY <2>2, <2>7, <2>8 DEF Holds
<1>4. Proposals({}) = {}
  BY DEF Prepares, Proposals
<1>5. Certificates
  BY <1>2, <1>3, <1>4 DEF Certificates, HashesTell
<1> QED
  BY <1>2, <1>3, <1>5 DEF CInv

LEMMA CertificatesNext ==
    ASSUME CInv, [Next]_vars
    PROVE  CInv'
<1>1. CASE Next
  <2>1. PICK n \in Validators : ValidatorStep(n)
    BY <1>1 DEF Next
  <2>2. IInv' /\ \A v \in Validators : st'[v].out = <<>>
    BY <2>1, StepOK, OutboxEmpty DEF CInv
  <2>3. Certificates'
    BY <2>1, StepUpheld
  <2> QED  BY <2>2, <2>3 DEF CInv
<1>2. CASE UNCHANGED vars
  <2>1. st' = st /\ msgs' = msgs /\ restarts' = restarts
    BY <1>2 DEF vars
  <2>2. IInv'
    BY NextOK DEF CInv
  <2>3. Heard' = Heard
    BY <2>1 DEF Heard
  <2>4. CertificatesOf(st, msgs, Heard)
    BY DEF CInv, Certificates, CertificatesOf
  <2>5. CertificatesOf(st', msgs', Heard')
    BY <2>1, <2>3, <2>4
  <2> QED  BY <2>1, <2>2, <2>5 DEF CInv, Certificates, CertificatesOf
<1> QED
  BY <1>1, <1>2

\* Restarts or not, behind every certificate, ticket and Prepare that a
\* validator holds or sent are the votes that were cast for it, no two
\* proposals share a hash, and whoever proposed did it once per view and life.
THEOREM CertificatesHold == Spec => []CInv
<1>1. CInv /\ [Next]_vars => CInv'
  BY CertificatesNext
<1> QED
  BY <1>1, CertificatesInit, PTL DEF Spec

\* Behind every commit certificate, whichever path it took (on_confirm_ack,
\* on_commit, the ticket of a Prepare, a SyncReply, and over restarts), there is
\* a proposal with a quorum of PrepareVotes, its leader's power included, and a
\* quorum that signed the certificate, each but its collector by a ConfirmAck.
THEOREM CommitsAlwaysCertified == Spec => []CertifiedCommits
<1>1. CInv => CertifiedCommits
  <2> SUFFICES ASSUME CInv, NEW n \in Validators, NEW c \in Commits(n), c.qc # EmptyQC
               PROVE  /\ c.qc.hash = hashed(c.prop)
                      /\ \E p \in Messages("Prepare") :
                           /\ p.prop = c.prop
                           /\ IsQuorum(compute_voting_power(
                                Voters("PrepareVote", c.qc.hash) \cup {p.src}))
                      /\ IsQuorum(compute_voting_power(c.qc.signers))
                      /\ \E leader \in Validators :
                           c.qc.signers \subseteq
                             Voters("ConfirmAck", c.qc.hash) \cup {leader}
    BY DEF CertifiedCommits
  <2>1. Holds(n, st[n], Heard) /\ HashesTell(Heard)
    BY DEF CInv, Certificates
  <2>2. CommitVoted(c, Heard)
    BY <2>1 DEF Holds, Keeps, Commits
  <2>3. /\ c.qc.hash = hashed(c.prop) /\ c.prop \in Proposals(Heard)
        /\ IsQuorum(compute_voting_power(c.qc.signers)) /\ Acked(c.qc, Heard)
    BY <2>2 DEF CommitVoted
  <2>4. Messages("Prepare") = Prepares(Heard)
    BY DEF Messages, Prepares, Heard
  <2>5. \A type, h : Voters(type, h) = VotersIn(Heard, type, h)
    BY DEF Voters, VotersIn, Messages, Heard
  <2>6. PICK p \in Prepares(Heard) :
          /\ hashed(p.prop) = c.qc.hash
          /\ IsQuorum(compute_voting_power(
               VotersIn(Heard, "PrepareVote", c.qc.hash) \cup {p.src}))
    BY <2>3 DEF Acked, Voted
  <2>7. p.prop \in Proposals(Heard)
    BY DEF Proposals
  <2>8. p.prop = c.prop
    BY <2>1, <2>3, <2>6, <2>7 DEF HashesTell
  <2>9. PICK leader \in Validators :
          c.qc.signers \subseteq VotersIn(Heard, "ConfirmAck", c.qc.hash) \cup {leader}
    BY <2>3 DEF Acked
  <2> QED  BY <2>3, <2>4, <2>5, <2>6, <2>8, <2>9
<1> QED
  BY <1>1, CertificatesHold, PTL

-----------------------------------------------------------------------------
(* Reproposals: what a leader is to propose after the first view change of  *)
(* a slot, for as long as no validator has restarted.                       *)

\* No view of the slot but the first was left so far.
FirstOnly(slot, M) ==
    \A m \in M : m.type = "Timeout" /\ m.slot = slot => m.view = 0

\* A timeout certificate that comes with a prepare certificate of the slot.
Certifies(ticket, slot) ==
    /\ ticket.type = "TimeoutQC" /\ ticket.kind # NilProposal
    /\ ticket.kind.qc.hash.slot = slot

\* A leader proposed what its ticket certifies.
Repeats(p, M) ==
    Certifies(p.ticket, p.prop.slot) /\ FirstOnly(p.prop.slot, M)
      => p.prop = p.ticket.kind.prop

\* The highest prepare certificate is not ahead of the slot, and one of the slot
\* comes with the proposal of the slot.
HighestOK(s) ==
    s.hqc # None =>
      /\ s.hqc.slot <= s.slot
      /\ s.hqc.slot = s.slot /\ s.hqc.qc.hash.slot = s.slot => s.cp.slot = s.slot

\* Only a leader that has not proposed yet holds a ticket.
WaitsOK(s) == s.ticket # None => s.tag = "Leader" /\ s.step = "StartNewSlot"

\* The proposal at hand is the one that the ticket certifies.
MatchesOK(s, M) ==
    s.ticket # None /\ Certifies(s.ticket, s.slot) /\ FirstOnly(s.slot, M)
      => s.view > 0 /\ s.cp.slot = s.slot /\ s.cp = s.ticket.kind.prop

\* M is what was sent before the step: what is sent later makes it weaker.
Reproposes(s, M) ==
    s.tag # "Joining" /\ HighestOK(s) /\ WaitsOK(s) /\ MatchesOK(s, M)

\* Every Prepare that n sent is of a view that n, in state s, is done with.
Done(n, s, M) == \A p \in Prepares(M) : p.src = n => Behind(p, s)

\* A Prepare is as the leader of its view sent it, perhaps with another ticket.
Genuine(p, M) ==
    /\ p.src = round_leader(p.prop.slot, p.view)
    /\ \E q \in Prepares(M) : q.src = p.src /\ q.prop = p.prop /\ q.view = p.view

-----------------------------------------------------------------------------
(* The operations that handlers are made of.                                *)

\* Two states that reproposals do not tell apart.
Unmoved(s, t) ==
    /\ t.slot = s.slot /\ t.view = s.view /\ t.cp = s.cp /\ t.tag = s.tag
    /\ t.step = s.step /\ t.ticket = s.ticket /\ t.hqc = s.hqc

LEMMA UnmovedReproposes ==
    ASSUME NEW s, NEW t, Unmoved(s, t), NEW M, Reproposes(s, M)
    PROVE  Reproposes(t, M)
BY DEF Unmoved, Reproposes, HighestOK, WaitsOK, MatchesOK

LEMMA SendUnmoved ==
    ASSUME NEW s \in State, NEW n, NEW to, NEW m
    PROVE  Unmoved(s, Send(n, s, to, m)) /\ Unmoved(s, Broadcast(n, s, m))
<1>1. DOMAIN s = Fields
  BY StateFields
<1>2. ASSUME NEW V
      PROVE  Unmoved(s, Send(n, s, V, m))
  <2> DEFINE o == Append(s.out, [to |-> V \ {n}, msg |-> m])
             t == [s EXCEPT !.out = o]
  <2>1. Send(n, s, V, m) = t
    BY DEF Send
  <2> HIDE DEF o
  <2>2. Unmoved(s, t)
    BY <1>1 DEF Unmoved, Fields
  <2> QED  BY <2>1, <2>2
<1> QED
  BY <1>2 DEF Broadcast

LEMMA PushUnmoved ==
    ASSUME NEW s \in State, NEW p
    PROVE  Unmoved(s, push(s, p))
<1>1. DOMAIN s = Fields
  BY StateFields
<1> QED
  BY <1>1 DEF push, Unmoved, Fields

\* The ticket of a new round certifies what the round before it had at hand.
LEMMA AdvanceReproposes ==
    ASSUME NEW s \in State, NEW n \in Validators, NEW ticket \in AnyTicket,
           s.tag # "Joining", HighestOK(s),
           Certifies(ticket, s.slot) => s.cp.slot = s.slot /\ s.cp = ticket.kind.prop,
           NEW M
    PROVE  LET t == advance_round(n, s, ticket)
           IN  t \in State /\ Reproposes(t, M) /\ t.ticket \in {None, ticket}
<1>0. PICK t : t = advance_round(n, s, ticket)
  OBVIOUS
<1>1. /\ t \in State /\ t.step = "StartNewSlot" /\ t.tag # "Joining"
      /\ t.ticket \in {None, ticket} /\ t.hqc = s.hqc
      /\ t.ticket # None => t.tag = "Leader"
      /\ ticket.type = "TimeoutQC" =>
           t.slot = s.slot /\ t.view = s.view + 1 /\ t.cp = s.cp
      /\ ticket.type # "TimeoutQC" => t.slot = s.slot + 1
  BY <1>0, AdvanceFields
<1>2. s.slot \in Nat /\ s.view \in Nat /\ (s.hqc # None => s.hqc.slot \in Nat)
  BY DEF State, HighestQC
<1>3. HighestOK(t)
  BY <1>1, <1>2 DEF HighestOK
<1>4. WaitsOK(t)
  BY <1>1 DEF WaitsOK
<1>5. MatchesOK(t, M)
  <2>1. CASE ticket.type = "TimeoutQC"
    BY <1>1, <1>2, <2>1 DEF MatchesOK
  <2>2. CASE ticket.type # "TimeoutQC"
    BY <1>1, <2>2 DEF MatchesOK, Certifies
  <2> QED  BY <2>1, <2>2
<1> QED
  BY <1>0, <1>1, <1>3, <1>4, <1>5 DEF Reproposes

LEMMA CommitReproposes ==
    ASSUME NEW s \in State, NEW n \in Validators, NEW qc \in QC,
           NEW ticket \in AnyTicket, ticket.type # "TimeoutQC",
           NEW M, Reproposes(s, M)
    PROVE  LET t == advance_round(n, emit_commit_event(s, qc), ticket)
           IN  t \in State /\ Reproposes(t, M) /\ t.ticket \in {None, ticket}
<1> DEFINE c == [prop |-> s.cp, qc |-> qc]
           cs == Append(s.commits, c)
           e == [s EXCEPT !.commits = cs]
<1>1. emit_commit_event(s, qc) = e
  BY DEF emit_commit_event
<1>2. c \in Committed
  BY DEF Committed, State
<1> HIDE DEF c
<1>3. cs \in Seq(Committed)
  BY <1>2 DEF State
<1> HIDE DEF cs
<1>4. e \in State /\ Unmoved(s, e)
  <2>1. DOMAIN s = Fields
    BY StateFields
  <2> QED  BY <1>3, <2>1 DEF State, Unmoved, Fields
<1> HIDE DEF e
<1>5. Reproposes(e, M)
  BY <1>4, UnmovedReproposes
<1>6. e.tag # "Joining" /\ HighestOK(e) /\ ~Certifies(ticket, e.slot)
  BY <1>5 DEF Reproposes, Certifies
<1> QED
  BY <1>1, <1>4, <1>6, AdvanceReproposes

LEMMA CommitAndAdvanceReproposes ==
    ASSUME NEW s \in State, NEW n \in Validators, NEW qc \in QC,
           NEW M, Reproposes(s, M)
    PROVE  Reproposes(CommitAndAdvance(n, s, qc), M)
<1>1. CommitTicket(qc) \in AnyTicket /\ CommitTicket(qc).type # "TimeoutQC"
  BY DEF CommitTicket, AnyTicket, Ticket
<1> QED
  BY <1>1, CommitReproposes DEF CommitAndAdvance

\* A prepare certificate of the slot that comes with its proposal is adopted.
LEMMA AdoptHighest ==
    ASSUME NEW s \in State, HighestOK(s), NEW kind \in Kind, kind # NilProposal,
           kind.prop.slot = s.slot
    PROVE  LET t == AdoptPrepareQC(s, s.slot, kind)
           IN  /\ t \in State /\ HighestOK(t) /\ t.cp = kind.prop
               /\ t.slot = s.slot /\ t.view = s.view /\ t.tag = s.tag
               /\ t.step = s.step /\ t.ticket = s.ticket
<1> DEFINE h == [slot |-> s.slot, qc |-> kind.qc]
           t == [s EXCEPT !.hqc = h, !.cp = kind.prop]
<1>1. AdoptPrepareQC(s, s.slot, kind) = t
  <2>1. IsHighest(s, s.slot)
    BY DEF HighestOK, IsHighest
  <2> QED  BY <2>1 DEF AdoptPrepareQC, update_highest_seen_prepare_qc
<1>2. s.slot \in Nat /\ kind.qc \in QC /\ kind.prop \in Prop
  BY DEF State, Kind
<1>3. h \in HighestQC /\ h.slot = s.slot
  BY <1>2 DEF HighestQC
<1>4. DOMAIN s = Fields
  BY StateFields
<1> HIDE DEF h
<1>5. /\ t \in State /\ t.hqc = h /\ t.cp = kind.prop
      /\ t.slot = s.slot /\ t.view = s.view /\ t.tag = s.tag
      /\ t.step = s.step /\ t.ticket = s.ticket
  <2>1. t \in State
    BY <1>2, <1>3 DEF State
  <2> QED  BY <1>4, <2>1 DEF Fields
<1> HIDE DEF t
<1>6. HighestOK(t)
  BY <1>2, <1>3, <1>5 DEF HighestOK
<1> QED
  BY <1>1, <1>5, <1>6

\* verify_tc on a certificate that is valid.
LEMMA VerifyTCHighest ==
    ASSUME NEW s \in State, HighestOK(s), NEW kind \in Kind, NEW qc, NEW view,
           TCValid(s, qc, kind, s.slot, view)
    PROVE  LET t == verify_tc(s, kind, s.slot)
           IN  /\ t \in State /\ HighestOK(t)
               /\ t.slot = s.slot /\ t.view = s.view /\ t.tag = s.tag
               /\ t.step = s.step /\ t.ticket = s.ticket
               /\ kind # NilProposal => t.cp = kind.prop /\ kind.prop.slot = s.slot
<1>1. CASE kind = NilProposal
  BY <1>1 DEF verify_tc
<1>2. CASE kind # NilProposal
  <2>1. kind.prop.slot = s.slot
    BY <1>2 DEF TCValid, PrepareQCValid
  <2>2. PICK t : t = AdoptPrepareQC(s, s.slot, kind)
    OBVIOUS
  <2>3. /\ t \in State /\ HighestOK(t) /\ t.cp = kind.prop
        /\ t.slot = s.slot /\ t.view = s.view /\ t.tag = s.tag
        /\ t.step = s.step /\ t.ticket = s.ticket
    BY <1>2, <2>1, <2>2, AdoptHighest
  <2> QED  BY <1>2, <2>1, <2>2, <2>3 DEF verify_tc
<1> QED
  BY <1>1, <1>2

\* A valid certificate ends the view: the ticket certifies what was adopted.
LEMMA CertifiedViewReproposes ==
    ASSUME NEW s \in State, s.tag # "Joining", HighestOK(s), NEW n \in Validators,
           NEW ticket \in Ticket, ticket.type = "TimeoutQC", NEW view,
           TCValid(s, ticket.qc, ticket.kind, s.slot, view), NEW M
    PROVE  Reproposes(advance_round(n, verify_tc(s, ticket.kind, s.slot), ticket), M)
<1>1. PICK kind : kind = ticket.kind
  OBVIOUS
<1>2. PICK qc : qc = ticket.qc
  OBVIOUS
<1>3. kind \in Kind /\ TCValid(s, qc, kind, s.slot, view)
  BY <1>1, <1>2 DEF Ticket, GenesisTicket
<1>4. PICK u : u = verify_tc(s, kind, s.slot)
  OBVIOUS
<1>5. /\ u \in State /\ HighestOK(u) /\ u.slot = s.slot /\ u.tag = s.tag
      /\ kind # NilProposal => u.cp = kind.prop /\ kind.prop.slot = s.slot
  BY <1>3, <1>4, VerifyTCHighest
<1>6. Certifies(ticket, u.slot) => u.cp.slot = u.slot /\ u.cp = ticket.kind.prop
  BY <1>1, <1>5 DEF Certifies
<1>7. ticket \in AnyTicket
  BY DEF AnyTicket
<1>8. Reproposes(advance_round(n, u, ticket), M)
  BY <1>5, <1>6, <1>7, AdvanceReproposes
<1> QED
  BY <1>1, <1>4, <1>8

LEMMA MutinyUnmoved ==
    ASSUME NEW s \in State, NEW n \in Validators
    PROVE  Unmoved(s, JoinMutiny(n, s))
<1> DEFINE own == get_timeout_message(n, s)
           b == Broadcast(n, s, own)
           R == b.reqs \cup {[src |-> n, kind |-> own.kind]}
           j == [b EXCEPT !.reqs = R, !.tstate = "Scheduled"]
<1>1. JoinMutiny(n, s) = j \/ JoinMutiny(n, s) = s
  BY DEF JoinMutiny
<1>2. own \in Message
  BY TimeoutMessage
<1> HIDE DEF own
<1>3. b \in State /\ Unmoved(s, b)
  BY <1>2, SendType, SendUnmoved
<1> HIDE DEF b
<1>4. DOMAIN b = Fields
  BY <1>3, StateFields
<1> HIDE DEF R
<1>5. Unmoved(b, j)
  BY <1>4 DEF Unmoved, Fields
<1> HIDE DEF j
<1>6. Unmoved(s, j) /\ Unmoved(s, s)
  BY <1>3, <1>5 DEF Unmoved
<1> QED
  BY <1>1, <1>6

\* A request of the current view: another's, which was sent, or our own.
Requested(s, m, M) == m \in M \/ m.kind = TimeoutKind(s)

LEMMA RegisteredReproposes ==
    ASSUME NEW s \in State, NEW n \in Validators, NEW M, Reproposes(s, M),
           NEW m \in Message, m.type = "Timeout", Requested(s, m, M),
           m.slot = s.slot, m.view = s.view, ~MalformedTimeout(m)
    PROVE  LET t == Registered(n, s, m) IN t \in State /\ Reproposes(t, M)
<1> DEFINE a == IF m.kind = NilProposal THEN s ELSE AdoptPrepareQC(s, m.slot, m.kind)
           R == a.reqs \cup {Request(m)}
           u == [a EXCEPT !.reqs = R]
           j == JoinMutiny(n, u)
<1>1. Registered(n, s, m) = a \/ Registered(n, s, m) = j
  BY DEF Registered
<1>2. m.src \in Validators /\ m.kind \in Kind /\ Request(m) \in Requests
  BY DEF Message, Request, Requests
<1>3. a \in State /\ Reproposes(a, M)
  <2>1. CASE m.kind = NilProposal
    BY <2>1
  <2>2. CASE m.kind # NilProposal
    <3>1. PICK kind : kind = m.kind
      OBVIOUS
    <3>2. PICK b : b = AdoptPrepareQC(s, s.slot, kind)
      OBVIOUS
    <3>3. kind.prop.slot = s.slot
      BY <2>2, <3>1 DEF MalformedTimeout, PrepareQCValid
    <3>4. /\ b \in State /\ HighestOK(b) /\ b.cp = kind.prop
          /\ b.slot = s.slot /\ b.view = s.view /\ b.tag = s.tag
          /\ b.step = s.step /\ b.ticket = s.ticket
      BY <1>2, <2>2, <3>1, <3>2, <3>3, AdoptHighest DEF Reproposes
    <3>5. MatchesOK(b, M)
      <4>1. CASE m \in M
        <5>1. FirstOnly(s.slot, M) => s.view = 0
          BY <4>1 DEF FirstOnly
        <5> QED  BY <3>4, <5>1 DEF Reproposes, MatchesOK
      <4>2. CASE m.kind = TimeoutKind(s)
        <5>1. kind.prop = s.cp
          BY <2>2, <3>1, <4>2 DEF TimeoutKind, NilProposal
        <5> QED  BY <3>4, <5>1 DEF Reproposes, MatchesOK
      <4> QED  BY <4>1, <4>2 DEF Requested
    <3>6. WaitsOK(b) /\ b.tag # "Joining"
      BY <3>4 DEF Reproposes, WaitsOK
    <3>7. a = b
      BY <2>2, <3>1, <3>2
    <3> QED  BY <3>4, <3>5, <3>6, <3>7 DEF Reproposes
  <2> QED  BY <2>1, <2>2
<1> HIDE DEF a
<1>4. u \in State /\ Unmoved(a, u)
  <2>1. R \in SUBSET Requests
    BY <1>2, <1>3 DEF State
  <2>2. DOMAIN a = Fields
    BY <1>3, StateFields
  <2> HIDE DEF R
  <2>3. u \in State
    BY <1>3, <2>1 DEF State
  <2> QED  BY <2>2, <2>3 DEF Unmoved, Fields
<1> HIDE DEF u
<1>5. j \in State /\ Unmoved(u, j)
  BY <1>4, JoinMutinyOK, MutinyUnmoved
<1> HIDE DEF j
<1>6. Reproposes(u, M)
  BY <1>3, <1>4, UnmovedReproposes
<1>7. Reproposes(j, M)
  BY <1>5, <1>6, UnmovedReproposes
<1> QED
  BY <1>1, <1>3, <1>5, <1>7

LEMMA CreateTCReproposes ==
    ASSUME NEW s \in State, NEW n \in Validators, NEW M, Reproposes(s, M)
    PROVE  Reproposes(CreateTC(n, s), M)
<1> DEFINE qc == QuorumCertificate("ConsensusTimeout",
                   TimeoutPayload(s.slot, s.view, s.parent),
                   {r.src : r \in s.reqs} \cup {n})
           kind == TimeoutKind(s)
           m == [type |-> "TimeoutCertificate", qc |-> qc, kind |-> kind,
                 slot |-> s.slot, view |-> s.view]
           g == IF s.tag = "Joining" THEN "Leader" ELSE s.tag
           told1 == [s EXCEPT !.tstate = "Scheduled", !.tag = g]
           e == [s EXCEPT !.tstate = "CertificateEmitted"]
           told2 == Broadcast(n, e, m)
           ticket == TimeoutTicket(qc, kind)
<1>1. CreateTC(n, s) = advance_round(n, IF next_view_leader(s) = n THEN told1 ELSE told2,
                                     ticket)
  BY DEF CreateTC
<1>2. kind \in Kind /\ s.slot \in Nat /\ s.view \in Nat /\ s.parent \in Hash
  BY TimeoutMessage DEF State
<1>3. qc \in QC
  <2>1. {r.src : r \in s.reqs} \cup {n} \in SUBSET Validators
    BY DEF State, Requests
  <2> QED  BY <1>2, <2>1 DEF QuorumCertificate, QC, TimeoutPayload, Payload
<1>4. Certifies(ticket, s.slot) => s.cp.slot = s.slot /\ s.cp = ticket.kind.prop
  BY DEF Certifies, TimeoutTicket, TimeoutKind, NilProposal, HasPrepareQCForSlot,
         Reproposes, HighestOK
<1> HIDE DEF qc, kind
<1>5. ticket \in AnyTicket
  BY <1>2, <1>3 DEF TimeoutTicket, AnyTicket, Ticket
<1> HIDE DEF ticket
<1>6. s.tag # "Joining" /\ DOMAIN s = Fields
  BY StateFields DEF Reproposes
<1>7. told1 \in State /\ Unmoved(s, told1)
  <2>1. g = s.tag
    BY <1>6
  <2>2. g \in {"Joining", "Leader", "Follower"}
    BY <2>1 DEF State
  <2> HIDE DEF g
  <2>3. told1 \in State
    BY <2>2 DEF State
  <2> QED  BY <1>6, <2>1, <2>3 DEF Unmoved, Fields
<1>8. e \in State /\ Unmoved(s, e)
  BY <1>6 DEF State, Unmoved, Fields
<1>9. m \in Message
  BY <1>2, <1>3 DEF Message
<1> HIDE DEF e, m, told1
<1>10. told2 \in State /\ Unmoved(e, told2)
  BY <1>8, <1>9, SendType, SendUnmoved
<1> HIDE DEF told2
<1>11. Unmoved(s, told2)
  BY <1>8, <1>10 DEF Unmoved
<1>12. ASSUME NEW x \in State, Unmoved(s, x)
       PROVE  Reproposes(advance_round(n, x, ticket), M)
  <2>1. x.tag # "Joining" /\ HighestOK(x)
    BY <1>12, UnmovedReproposes DEF Reproposes
  <2>2. Certifies(ticket, x.slot) => x.cp.slot = x.slot /\ x.cp = ticket.kind.prop
    BY <1>4, <1>12 DEF Unmoved
  <2> QED  BY <1>5, <2>1, <2>2, AdvanceReproposes
<1> QED
  BY <1>1, <1>7, <1>10, <1>11, <1>12

LEMMA OnTimeoutReproposes ==
    ASSUME NEW s \in State, Good(s), NEW n \in Validators, NEW M, Reproposes(s, M),
           NEW m \in Message, m.type = "Timeout", Requested(s, m, M)
    PROVE  Reproposes(on_timeout(n, s, m), M)
<1>0. PICK r : r = Registered(n, s, m)
  OBVIOUS
<1>1. CASE \/ m.parent # s.parent \/ m.slot # s.slot \/ m.view # s.view
           \/ MalformedTimeout(m)
  BY <1>1 DEF on_timeout
<1>2. CASE ~(\/ m.parent # s.parent \/ m.slot # s.slot \/ m.view # s.view
             \/ MalformedTimeout(m))
  <2>1. r \in State /\ Reproposes(r, M)
    BY <1>0, <1>2, RegisteredReproposes
  <2>2. Reproposes(CreateTC(n, r), M)
    BY <2>1, CreateTCReproposes
  <2>3. on_timeout(n, s, m) \in {CreateTC(n, r), r}
    BY <1>0, <1>2 DEF on_timeout
  <2> QED  BY <2>1, <2>2, <2>3
<1> QED
  BY <1>1, <1>2

LEMMA TickReproposes ==
    ASSUME NEW s \in State, Good(s), NEW n \in Validators, NEW M, Reproposes(s, M)
    PROVE  Reproposes(on_timeout_tick(n, s), M)
<1>1. PICK own : own = get_timeout_message(n, s)
  OBVIOUS
<1>2. PICK r : r = on_timeout(n, s, own)
  OBVIOUS
<1> DEFINE q == [r EXCEPT !.tstate = "Scheduled"]
<1>3. on_timeout_tick(n, s) \in {r, Broadcast(n, q, own)}
  BY <1>1, <1>2 DEF on_timeout_tick
<1>4. /\ own \in Message /\ own.type = "Timeout" /\ own.kind = TimeoutKind(s)
      /\ own.src \in Validators /\ own.kind \in Kind
  BY <1>1, TimeoutMessage DEF get_timeout_message
<1>5. r \in State /\ Reproposes(r, M)
  BY <1>2, <1>4, OnTimeoutOK, OnTimeoutReproposes DEF Requested
<1>6. q \in State /\ Unmoved(r, q)
  <2>1. DOMAIN r = Fields
    BY <1>5, StateFields
  <2>2. q \in State
    BY <1>5, UpdateType
  <2> QED  BY <2>1, <2>2 DEF Unmoved, Fields
<1> HIDE DEF q
<1>7. Reproposes(q, M) /\ Unmoved(q, Broadcast(n, q, own))
  BY <1>5, <1>6, UnmovedReproposes, SendUnmoved
<1>8. Reproposes(Broadcast(n, q, own), M)
  BY <1>7, UnmovedReproposes
<1> QED
  BY <1>3, <1>5, <1>8

LEMMA OnTimeoutCertificateReproposes ==
    ASSUME NEW s \in State, NEW n \in Validators, NEW M, Reproposes(s, M),
           NEW m, m.qc \in QC, m.kind \in Kind
    PROVE  Reproposes(on_timeout_certificate(n, s, m), M)
<1>1. CASE ~(/\ m.slot = s.slot /\ m.view = s.view
             /\ TCValid(s, m.qc, m.kind, m.slot, m.view))
  BY <1>1 DEF on_timeout_certificate
<1>2. CASE /\ m.slot = s.slot /\ m.view = s.view
           /\ TCValid(s, m.qc, m.kind, m.slot, m.view)
  <2>1. PICK kind : kind = m.kind
    OBVIOUS
  <2>2. PICK qc : qc = m.qc
    OBVIOUS
  <2>3. PICK ticket : ticket = TimeoutTicket(qc, kind)
    OBVIOUS
  <2>4. kind \in Kind /\ qc \in QC
    BY <2>1, <2>2
  <2>5. /\ ticket \in Ticket /\ ticket.type = "TimeoutQC" /\ ticket.qc = qc
        /\ ticket.kind = kind
    BY <2>3, <2>4 DEF Ticket, TimeoutTicket
  <2>6. PICK t : t = verify_tc(s, kind, s.slot)
    OBVIOUS
  <2>7. s.tag # "Joining" /\ HighestOK(s)
    BY DEF Reproposes
  <2>8. TCValid(s, qc, kind, s.slot, s.view)
    BY <1>2, <2>1, <2>2
  <2>9. t \in State /\ t.tag = s.tag
    BY <2>4, <2>6, <2>7, <2>8, VerifyTCHighest
  <2>10. on_timeout_certificate(n, s, m) = advance_round(n, t, ticket)
    <3> DEFINE g == IF next_view_leader(s) # n /\ t.tag = "Joining"
                    THEN "Leader" ELSE t.tag
               u == [t EXCEPT !.tag = g]
    <3>1. on_timeout_certificate(n, s, m) = advance_round(n, u, ticket)
      BY <1>2, <2>1, <2>2, <2>3, <2>6 DEF on_timeout_certificate
    <3>2. g = t.tag
      BY <2>7, <2>9
    <3> HIDE DEF g
    <3>3. u = t
      BY <2>9, <3>2 DEF State
    <3> HIDE DEF u
    <3> QED  BY <3>1, <3>3
  <2>11. Reproposes(advance_round(n, verify_tc(s, ticket.kind, s.slot), ticket), M)
    <3>1. TCValid(s, ticket.qc, ticket.kind, s.slot, s.view)
      BY <2>5, <2>8
    <3>2. PICK v : v = s.view
      OBVIOUS
    <3>3. TCValid(s, ticket.qc, ticket.kind, s.slot, v)
      BY <3>1, <3>2
    <3> QED  BY <2>5, <2>7, <3>3, CertifiedViewReproposes
  <2> QED  BY <2>5, <2>6, <2>10, <2>11
<1> QED
  BY <1>1, <1>2

-----------------------------------------------------------------------------
(* Tickets and Prepares.                                                    *)

\* Committing on the word of the next slot leaves no ticket that certifies.
LEMMA ForceCommitReproposes ==
    ASSUME NEW s \in State, NEW n \in Validators, NEW M, Reproposes(s, M), NEW p
    PROVE  LET t == ForceCommit(n, s, p)
           IN  /\ t \in State /\ Reproposes(t, M)
               /\ t = s \/ t.ticket = None \/ ~Certifies(t.ticket, t.slot)
<1>0. PICK t : t = ForceCommit(n, s, p)
  OBVIOUS
<1>1. CASE IsNextSlotAndPresent(s, p) /\ p.prop.parent = hashed(s.cp)
  <2>1. EmptyQC \in QC
    BY DEF EmptyQC, QuorumCertificate, QC, NoHash, Hash
  <2>2. PICK ticket : ticket = ForcedTicket
    OBVIOUS
  <2>3. PICK qc : qc = EmptyQC
    OBVIOUS
  <2>4. ticket \in AnyTicket /\ ticket.type # "TimeoutQC" /\ qc \in QC
    BY <2>1, <2>2, <2>3 DEF ForcedTicket, AnyTicket
  <2>5. t = advance_round(n, emit_commit_event(s, qc), ticket)
    BY <1>0, <1>1, <2>2, <2>3 DEF ForceCommit
  <2>6. t \in State /\ Reproposes(t, M) /\ t.ticket \in {None, ticket}
    BY <2>4, <2>5, CommitReproposes
  <2>7. t.ticket = None \/ ~Certifies(t.ticket, t.slot)
    BY <2>4, <2>6 DEF Certifies
  <2> QED  BY <1>0, <2>6, <2>7
<1>2. CASE ~(IsNextSlotAndPresent(s, p) /\ p.prop.parent = hashed(s.cp))
  BY <1>2 DEF ForceCommit
<1> QED
  BY <1>1, <1>2

LEMMA CommitTicketReproposes ==
    ASSUME NEW s \in State, NEW n \in Validators, NEW M, Reproposes(s, M),
           NEW p \in Prepare, p.ticket.type = "CommitQC"
    PROVE  Reproposes(verify_and_process_commit_ticket(n, s, p).state, M)
<1> DEFINE r == verify_and_process_commit_ticket(n, s, p)
           c == CommitAndAdvance(n, s, p.ticket.qc)
<1>1. r.state = s \/ r.state = c
  <2>1. \/ r = NotProcessed(s) \/ r = Processed(s) \/ r = Failed(s)
        \/ r = Processed(c)
    <3> HIDE DEF c
    <3>1. CASE ~TicketApplies(s, p) \/ p.ticket.qc = s.bqc
      BY <3>1, Zenon DEF verify_and_process_commit_ticket
    <3>2. CASE ~(~TicketApplies(s, p) \/ p.ticket.qc = s.bqc)
      BY <3>2, Zenon DEF verify_and_process_commit_ticket, c
    <3> QED  BY <3>1, <3>2
  <2> HIDE DEF r, c
  <2> QED  BY <2>1 DEF NotProcessed, Processed, Failed
<1>2. PICK qc : qc = p.ticket.qc
  OBVIOUS
<1>3. qc \in QC
  BY <1>2 DEF Prepare, Ticket, GenesisTicket
<1>4. Reproposes(CommitAndAdvance(n, s, qc), M)
  BY <1>3, CommitAndAdvanceReproposes
<1> HIDE DEF r
<1>5. Reproposes(r.state, M)
  BY <1>1, <1>2, <1>4
<1> QED
  BY <1>5 DEF r

\* A quorum that asked to leave a view other than the first.
LEMMA FirstLeft ==
    ASSUME NEW M, NEW slot, FirstOnly(slot, M), NEW view, NEW V,
           V \subseteq Askers(M, slot, view), IsQuorum(compute_voting_power(V))
    PROVE  view = 0
<1>1. V # {}
  BY QuorumOK
<1> QED
  BY <1>1 DEF Askers, Asks, FirstOnly

\* The ticket of a Prepare that the leader of this view did not send itself.
LEMMA TimeoutTicketReproposes ==
    ASSUME NEW s \in State, NEW n \in Validators, NEW M, Reproposes(s, M),
           RoleOK(n, s), ViewOK(s, M), Done(n, s, M),
           NEW p \in Prepare, p.ticket.type = "TimeoutQC", TicketOK(p.ticket, M),
           Genuine(p, M)
    PROVE  Reproposes(verify_and_process_tc_ticket(n, s, p).state, M)
<1> DEFINE r == verify_and_process_tc_ticket(n, s, p)
<1>1. PICK kind : kind = p.ticket.kind
  OBVIOUS
<1>2. PICK qc : qc = p.ticket.qc
  OBVIOUS
<1>3. PICK t : t = ForceCommit(n, s, p)
  OBVIOUS
<1>4. PICK u : u = verify_tc(t, kind, t.slot)
  OBVIOUS
<1>5. PICK ticket : ticket = p.ticket
  OBVIOUS
<1>6. PICK w : w = advance_round(n, u, ticket)
  OBVIOUS
<1>7. /\ ticket \in Ticket /\ kind \in Kind /\ qc \in QC /\ p.view \in Nat
      /\ ticket.type = "TimeoutQC" /\ ticket.kind = kind /\ ticket.qc = qc
  BY <1>1, <1>2, <1>5 DEF Prepare, Ticket, GenesisTicket
<1>8. /\ t \in State /\ Reproposes(t, M)
      /\ t = s \/ t.ticket = None \/ ~Certifies(t.ticket, t.slot)
  BY <1>3, ForceCommitReproposes
<1>9. \/ r.state = s \/ r.state = t
      \/ /\ r.state = u \/ (r.state = w /\ p.view = t.view + 1)
         /\ TCValid(t, qc, kind, t.slot, p.view - 1) /\ p.prop.slot = t.slot
  BY <1>1, <1>2, <1>3, <1>4, <1>5, <1>6
     DEF verify_and_process_tc_ticket, Processed, NotProcessed, Failed
<1>10. ASSUME TCValid(t, qc, kind, t.slot, p.view - 1)
       PROVE  Reproposes(w, M)
  <2>1. PICK v : v = p.view - 1
    OBVIOUS
  <2>2. TCValid(t, ticket.qc, ticket.kind, t.slot, v)
    BY <1>7, <1>10, <2>1
  <2>3. Reproposes(advance_round(n, verify_tc(t, ticket.kind, t.slot), ticket), M)
    BY <1>7, <1>8, <2>2, CertifiedViewReproposes DEF Reproposes
  <2> QED  BY <1>4, <1>6, <1>7, <2>3
<1>11. ASSUME TCValid(t, qc, kind, t.slot, p.view - 1), p.prop.slot = t.slot
       PROVE  Reproposes(u, M)
  <2>1. PICK v : v = p.view - 1
    OBVIOUS
  <2>2. TCValid(t, qc, kind, t.slot, v)
    BY <1>11, <2>1
  <2>3. /\ u \in State /\ HighestOK(u)
        /\ u.slot = t.slot /\ u.view = t.view /\ u.tag = t.tag
        /\ u.step = t.step /\ u.ticket = t.ticket
    BY <1>4, <1>7, <1>8, <2>2, VerifyTCHighest DEF Reproposes
  <2>4. WaitsOK(u) /\ u.tag # "Joining"
    BY <1>8, <2>3 DEF Reproposes, WaitsOK
  <2>5. ~(t.ticket # None /\ Certifies(t.ticket, t.slot) /\ FirstOnly(t.slot, M))
    <3> SUFFICES ASSUME t.ticket # None, Certifies(t.ticket, t.slot),
                        FirstOnly(t.slot, M)
                 PROVE  FALSE
      OBVIOUS
    <3>1. t = s
      BY <1>8
    <3>2. s.view \in Nat /\ s.slot \in Nat
      BY DEF State
    <3>3. s.view > 0 /\ s.tag = "Leader" /\ s.step = "StartNewSlot"
      BY <3>1 DEF Reproposes, WaitsOK, MatchesOK
    <3>4. s.view - 1 = 0
      <4>1. PICK V : V = Askers(M, s.slot, s.view - 1)
        OBVIOUS
      <4>2. PICK x : x = s.view - 1
        OBVIOUS
      <4>3. IsQuorum(compute_voting_power(V)) /\ V \subseteq Askers(M, s.slot, x)
        BY <3>3, <4>1, <4>2 DEF ViewOK
      <4>4. FirstOnly(s.slot, M)
        BY <3>1
      <4> QED  BY <4>2, <4>3, <4>4, FirstLeft
    <3>5. v = 0
      <4>1. qc.hash.slot = s.slot /\ qc.hash.view = v
            /\ IsQuorum(compute_voting_power(qc.signers))
        BY <2>2, <3>1 DEF TCValid, verify_quorum_certificate, TimeoutPayload
      <4>2. qc.signers \subseteq Askers(M, s.slot, v)
        BY <1>2, <4>1 DEF TicketOK, TimeoutOK
      <4>3. PICK V : V = qc.signers
        OBVIOUS
      <4>4. FirstOnly(s.slot, M)
        BY <3>1
      <4> QED  BY <4>1, <4>2, <4>3, <4>4, FirstLeft
    <3>6. p.view = s.view /\ p.prop.slot = s.slot
      BY <1>7, <1>11, <2>1, <3>1, <3>2, <3>4, <3>5
    <3>7. p.src = n
      BY <3>3, <3>6 DEF RoleOK, Genuine
    <3>8. PICK q \in Prepares(M) : q.prop = p.prop /\ q.view = p.view /\ q.src = p.src
      BY DEF Genuine
    <3>9. Behind(q, s)
      BY <3>7, <3>8 DEF Done
    <3> QED  BY <3>2, <3>3, <3>6, <3>8, <3>9 DEF Behind
  <2>6. MatchesOK(u, M)
    BY <2>3, <2>5 DEF MatchesOK
  <2> QED  BY <2>3, <2>4, <2>6 DEF Reproposes
<1> HIDE DEF r
<1>12. Reproposes(r.state, M)
  BY <1>8, <1>9, <1>10, <1>11
<1> QED
  BY <1>12 DEF r

LEMMA ProcessTicketReproposes ==
    ASSUME NEW s \in State, NEW n \in Validators, NEW M, Reproposes(s, M),
           RoleOK(n, s), ViewOK(s, M), Done(n, s, M),
           NEW p \in Prepare, TicketOK(p.ticket, M),
           Genuine(p, M)
    PROVE  Reproposes(process_ticket(n, s, p).state, M)
<1>1. p.ticket.type \in {"Genesis", "CommitQC", "TimeoutQC"}
  BY DEF Prepare, Ticket, GenesisTicket
<1>2. CASE p.ticket.type = "Genesis"
  BY <1>2 DEF process_ticket, Processed, Failed
<1>3. CASE p.ticket.type = "CommitQC"
  BY <1>3, CommitTicketReproposes DEF process_ticket
<1>4. CASE p.ticket.type = "TimeoutQC"
  BY <1>4, TimeoutTicketReproposes DEF process_ticket
<1> QED
  BY <1>1, <1>2, <1>3, <1>4

LEMMA BufferReproposes ==
    ASSUME NEW s \in State, NEW n \in Validators, NEW M, Reproposes(s, M),
           NEW p \in Prepare
    PROVE  Reproposes(buffer_prepare_message_and_fetch_missing_parent(n, s, p), M)
<1> DEFINE t == IF contains(s, hashed(p.prop)) THEN s ELSE push(s, p)
           missing == {h \in Ancestors(t, p.prop) : ~contains(t, h)}
           x == CHOOSE h \in missing : TRUE
           m == [type |-> "SyncRequest", src |-> n, hash |-> x]
           y == Broadcast(n, t, m)
           b == buffer_prepare_message_and_fetch_missing_parent(n, s, p)
<1>1. b = IF missing = {} THEN t ELSE y
  BY DEF buffer_prepare_message_and_fetch_missing_parent
<1>2. t \in State /\ Reproposes(t, M)
  <2>1. push(s, p) \in State /\ Reproposes(push(s, p), M)
    BY PushType, PushUnmoved, UnmovedReproposes
  <2> QED  BY <2>1
<1> HIDE DEF t, m, missing, b
<1>3. Unmoved(t, y)
  BY <1>2, SendUnmoved
<1> HIDE DEF y
<1>4. Reproposes(y, M)
  BY <1>2, <1>3, UnmovedReproposes
<1>5. Reproposes(b, M)
  BY <1>1, <1>2, <1>4
<1> QED
  BY <1>5 DEF b

\* A leader does not accept what it has not sent: it holds no ticket any more.
LEMMA AcceptProposalReproposes ==
    ASSUME NEW s \in State, NEW n \in Validators, NEW M, Reproposes(s, M),
           RoleOK(n, s), Done(n, s, M), NEW p \in Prepare, Genuine(p, M),
           p.prop.slot = s.slot, p.view = s.view
    PROVE  Reproposes(AcceptProposal(n, s, p), M)
<1> DEFINE q == [s EXCEPT !.cp = p.prop]
           t == push(q, p)
           next == Children(t, hashed(p.prop))
           x == CHOOSE child \in next : TRUE
           u == [t EXCEPT !.next = x]
           m == [type |-> "PrepareVote", src |-> n, hash |-> hashed(p.prop)]
           to == {round_leader(s.slot, s.view)}
           v == Send(n, t, to, m)
<1>1. AcceptProposal(n, s, p) = IF next # {} THEN u ELSE v
  BY DEF AcceptProposal
<1>2. s.ticket = None
  <2> SUFFICES ASSUME s.ticket # None PROVE FALSE
    OBVIOUS
  <2>1. s.tag = "Leader" /\ s.step = "StartNewSlot"
    BY DEF Reproposes, WaitsOK
  <2>2. p.src = n
    BY <2>1 DEF RoleOK, Genuine
  <2>3. PICK y \in Prepares(M) : y.src = p.src /\ y.prop = p.prop /\ y.view = p.view
    BY DEF Genuine
  <2>4. Behind(y, s)
    BY <2>2, <2>3 DEF Done
  <2>5. s.slot \in Nat /\ s.view \in Nat
    BY DEF State
  <2> QED  BY <2>1, <2>3, <2>4, <2>5 DEF Behind
<1>3. /\ q \in State /\ q.cp = p.prop /\ q.slot = s.slot /\ q.tag = s.tag
      /\ q.ticket = s.ticket /\ q.hqc = s.hqc
  <2>1. p.prop \in Prop /\ DOMAIN s = Fields
    BY StateFields DEF Prepare
  <2>2. q \in State
    BY <2>1 DEF State
  <2> QED  BY <2>1, <2>2 DEF Fields
<1> HIDE DEF q
<1>4. Reproposes(q, M)
  BY <1>2, <1>3 DEF Reproposes, HighestOK, WaitsOK, MatchesOK
<1>5. t \in State /\ Unmoved(q, t)
  BY <1>3, PushType, PushUnmoved
<1> HIDE DEF t, m, to
<1>6. Reproposes(t, M)
  BY <1>4, <1>5, UnmovedReproposes
<1>7. Unmoved(t, u)
  <2>1. DOMAIN t = Fields
    BY <1>5, StateFields
  <2> HIDE DEF x
  <2> QED  BY <2>1 DEF Unmoved, Fields
<1>8. Unmoved(t, v)
  BY <1>5, SendUnmoved
<1> HIDE DEF u, v, next
<1>9. Reproposes(u, M) /\ Reproposes(v, M)
  BY <1>6, <1>7, <1>8, UnmovedReproposes
<1> QED
  BY <1>1, <1>9

LEMMA OnPrepareReproposes ==
    ASSUME NEW s0 \in State, Good(s0), NEW n \in Validators,
           NEW M \in SUBSET Message, NEW C, Consistent(M, C), Midway(n, s0, M, C),
           Outs(s0) = {}, Reproposes(s0, M), Done(n, s0, M),
           NEW p \in Prepare, PrepareOK(p, M), Genuine(p, M), NEW valid
    PROVE  Reproposes(on_prepare(n, s0, p, valid), M)
<1> DEFINE g == IF s0.tag = "Joining" /\ ExpectedWhileJoining(s0, p)
                THEN "Follower" ELSE s0.tag
           s == [s0 EXCEPT !.next = None, !.tag = g]
           r == process_ticket(n, s, p)
           t == r.state
           b == buffer_prepare_message_and_fetch_missing_parent(n, t, p)
           a == AcceptProposal(n, t, p)
<1>1. on_prepare(n, s0, p, valid) =
        IF s.tag = "Joining" THEN push(s, p)
        ELSE IF p.prop.slot < s.slot THEN s
        ELSE IF r.result = "Err" THEN t
        ELSE IF r.result = "NotProcessed" THEN b
        ELSE IF /\ p.prop.slot = t.slot /\ p.view = t.view
                /\ p.src = round_leader(t.slot, t.view) /\ valid
        THEN a ELSE t
  BY DEF on_prepare
<1>2. g = s0.tag /\ s0.tag # "Joining" /\ DOMAIN s0 = Fields
  BY StateFields DEF Reproposes
<1> HIDE DEF g
<1>3. s \in State /\ Unmoved(s0, s)
  <2>1. g \in {"Joining", "Leader", "Follower"}
    BY <1>2 DEF State
  <2>2. s \in State
    BY <2>1 DEF State
  <2> QED  BY <1>2, <2>2 DEF Unmoved, Fields
<1>4. Differs(s0, s, {"cp", "next"}) /\ s.next = None /\ s.out = s0.out /\ s.cp = s0.cp
  BY <1>2 DEF Differs, Fields
<1> HIDE DEF s
<1>5. Midway(n, s, M, C)
  BY <1>4, ReplaceFine DEF Fine
<1>6. Good(s) /\ Reproposes(s, M) /\ Done(n, s, M) /\ s.tag # "Joining"
  <2>1. Reproposes(s, M)
    BY <1>3, UnmovedReproposes
  <2> QED  BY <1>2, <1>3, <2>1 DEF Good, Unmoved, current_slot_prepare_is_present,
                                   Done, Behind
<1>7. RoleOK(n, s) /\ ViewOK(s, M)
  <2>1. M \cup Outs(s) = M
    BY <1>4 DEF Outs
  <2> QED  BY <1>5, <2>1 DEF Midway, Sound
<1>8. t \in State
  BY <1>3, <1>6, ProcessTicketOK DEF HandlerOK
<1>9. Fine(n, s, t, M, C)
  BY <1>3, <1>5, <1>6, ProcessTicketFine
<1>10. Reproposes(t, M)
  <2>1. TicketOK(p.ticket, M)
    BY DEF PrepareOK
  <2> QED  BY <1>3, <1>6, <1>7, <2>1, ProcessTicketReproposes
<1> HIDE DEF r, t
<1>11. RoleOK(n, t)
  BY <1>9 DEF Fine, Midway, Sound
<1>12. Done(n, t, M)
  <2> SUFFICES ASSUME NEW q \in Prepares(M), q.src = n PROVE Behind(q, t)
    BY DEF Done
  <2>1. q.prop.slot \in Nat /\ q.view \in Nat
    BY PrepareSource DEF Prop
  <2>2. Behind(q, s) /\ Progress(s, t)
    BY <1>6, <1>9 DEF Done, Fine
  <2> QED  BY <1>3, <1>8, <2>1, <2>2, BehindProgress
<1>13. Reproposes(b, M)
  BY <1>8, <1>10, BufferReproposes
<1>14. ASSUME p.prop.slot = t.slot, p.view = t.view
       PROVE  Reproposes(a, M)
  BY <1>8, <1>10, <1>11, <1>12, <1>14, AcceptProposalReproposes
<1> HIDE DEF a, b
<1> QED
  BY <1>1, <1>6, <1>10, <1>13, <1>14

LEMMA OnConfirmReproposes ==
    ASSUME NEW s \in State, NEW n \in Validators, NEW M, Reproposes(s, M),
           NEW m, m.qc \in QC
    PROVE  Reproposes(on_confirm(n, s, m), M)
<1> DEFINE u == update_highest_seen_prepare_qc(s, s.slot, m.qc)
           a == [type |-> "ConfirmAck", src |-> n, hash |-> m.hash]
           to == {round_leader(s.slot, s.view)}
           y == Send(n, u, to, a)
           h == [slot |-> s.slot, qc |-> m.qc]
           v == [s EXCEPT !.hqc = h]
<1>1. CASE ~(/\ s.tag = "Follower" /\ m.hash = hashed(s.cp)
             /\ verify_quorum_certificate("PrepareVote", m.hash, m.qc))
  BY <1>1 DEF on_confirm
<1>2. CASE /\ s.tag = "Follower" /\ m.hash = hashed(s.cp)
           /\ verify_quorum_certificate("PrepareVote", m.hash, m.qc)
  <2>1. on_confirm(n, s, m) = y
    BY <1>2 DEF on_confirm
  <2>2. HighestOK(s) /\ s.slot \in Nat /\ DOMAIN s = Fields
    BY StateFields DEF Reproposes, State
  <2>3. u = v
    BY <2>2 DEF HighestOK, IsHighest, update_highest_seen_prepare_qc
  <2>4. h.slot = s.slot /\ h.qc.hash.slot = s.cp.slot
    BY <1>2 DEF verify_quorum_certificate, hashed
  <2> HIDE DEF h
  <2>5. /\ v.hqc = h /\ v.slot = s.slot /\ v.view = s.view /\ v.cp = s.cp
        /\ v.tag = s.tag /\ v.step = s.step /\ v.ticket = s.ticket
    BY <2>2 DEF Fields
  <2> HIDE DEF v
  <2>6. Reproposes(u, M)
    BY <2>2, <2>3, <2>4, <2>5 DEF Reproposes, HighestOK, WaitsOK, MatchesOK
  <2>7. u \in State
    BY <2>2, HighestType
  <2> HIDE DEF u, a, to
  <2>8. Unmoved(u, y)
    BY <2>7, SendUnmoved
  <2> HIDE DEF y
  <2> QED  BY <2>1, <2>6, <2>8, UnmovedReproposes
<1> QED
  BY <1>1, <1>2

\* Votes come to a leader that has proposed: it holds no ticket any more.
LEMMA OnPrepareVoteReproposes ==
    ASSUME NEW s \in State, NEW n \in Validators, NEW M, Reproposes(s, M),
           NEW m, m.src \in Validators, m.hash \in Hash
    PROVE  Reproposes(on_prepare_vote(n, s, m), M)
<1> DEFINE V == s.votes \cup {[src |-> m.src, hash |-> m.hash]}
           t == [s EXCEPT !.votes = V]
           u == [t EXCEPT !.step = "ConfirmAck"]
           c == [type |-> "Confirm", hash |-> m.hash,
                 qc |-> QuorumCertificate("PrepareVote", m.hash,
                          {v.src : v \in V} \cup {n})]
           y == Broadcast(n, u, c)
<1>1. /\ on_prepare_vote(n, s, m) \in {s, t, y}
      /\ on_prepare_vote(n, s, m) = s \/ s.step = "PrepareVote"
  BY DEF on_prepare_vote
<1>2. V \in SUBSET Vote
  BY DEF State, Vote
<1> HIDE DEF V, c
<1>3. DOMAIN s = Fields
  BY StateFields
<1>4. t \in State /\ Unmoved(s, t)
  <2>1. t \in State
    BY <1>2 DEF State
  <2> QED  BY <1>3, <2>1 DEF Unmoved, Fields
<1>5. /\ u \in State /\ u.slot = s.slot /\ u.view = s.view /\ u.cp = s.cp
      /\ u.tag = s.tag /\ u.ticket = s.ticket /\ u.hqc = s.hqc
  <2>1. u \in State
    BY <1>2 DEF State
  <2> QED  BY <1>3, <2>1 DEF Fields
<1> HIDE DEF t, u
<1>6. Reproposes(t, M)
  BY <1>4, UnmovedReproposes
<1>7. ASSUME s.step = "PrepareVote"
      PROVE  Reproposes(u, M)
  <2>1. s.ticket = None
    BY <1>7 DEF Reproposes, WaitsOK
  <2> QED  BY <1>5, <2>1 DEF Reproposes, HighestOK, WaitsOK, MatchesOK
<1>8. Unmoved(u, y)
  BY <1>5, SendUnmoved
<1> HIDE DEF y
<1> QED
  BY <1>1, <1>6, <1>7, <1>8, UnmovedReproposes

LEMMA OnConfirmAckReproposes ==
    ASSUME NEW s \in State, NEW n \in Validators, NEW M, Reproposes(s, M),
           NEW m, m.src \in Validators, m.hash \in Hash
    PROVE  Reproposes(on_confirm_ack(n, s, m), M)
<1> DEFINE V == s.acks \cup {[src |-> m.src, hash |-> m.hash]}
           t == [s EXCEPT !.acks = V]
           qc == QuorumCertificate("ConfirmAck", m.hash, {v.src : v \in V} \cup {n})
           c == [type |-> "Commit", hash |-> m.hash, qc |-> qc]
           y == Broadcast(n, t, c)
           w == CommitAndAdvance(n, y, qc)
<1>1. on_confirm_ack(n, s, m) \in {s, t, w}
  BY DEF on_confirm_ack
<1>2. V \in SUBSET Vote
  BY DEF State, Vote
<1>3. qc \in QC
  <2>1. {v.src : v \in V} \cup {n} \in SUBSET Validators
    BY <1>2 DEF Vote
  <2> QED  BY <2>1 DEF QuorumCertificate, QC
<1> HIDE DEF qc
<1>4. c \in Message
  BY <1>3 DEF Message
<1> HIDE DEF V, c
<1>5. t \in State /\ Unmoved(s, t)
  <2>1. DOMAIN s = Fields
    BY StateFields
  <2>2. t \in State
    BY <1>2 DEF State
  <2> QED  BY <2>1, <2>2 DEF Unmoved, Fields
<1> HIDE DEF t
<1>6. Reproposes(t, M)
  BY <1>5, UnmovedReproposes
<1>7. y \in State /\ Unmoved(t, y)
  BY <1>4, <1>5, SendType, SendUnmoved
<1> HIDE DEF y
<1>8. Reproposes(y, M)
  BY <1>6, <1>7, UnmovedReproposes
<1>9. Reproposes(w, M)
  BY <1>3, <1>7, <1>8, CommitAndAdvanceReproposes
<1> HIDE DEF w
<1> QED
  BY <1>1, <1>6, <1>9

LEMMA OnCommitReproposes ==
    ASSUME NEW s \in State, NEW n \in Validators, NEW M, Reproposes(s, M),
           NEW m, m.qc \in QC
    PROVE  Reproposes(on_commit(n, s, m), M)
<1>1. s.tag # "Joining"
  BY DEF Reproposes
<1>2. PICK qc : qc = m.qc
  OBVIOUS
<1>3. on_commit(n, s, m) \in {s, CommitAndAdvance(n, s, qc)}
  BY <1>1, <1>2 DEF on_commit
<1> QED
  BY <1>2, <1>3, CommitAndAdvanceReproposes

LEMMA OnSyncRequestReproposes ==
    ASSUME NEW s \in State, NEW n \in Validators, NEW M, Reproposes(s, M), NEW m
    PROVE  Reproposes(on_sync_request(n, s, m), M)
<1>1. PICK a : a = [type |-> "SyncReply", prepare |-> get(s, m.hash)]
  OBVIOUS
<1>2. PICK to : to = {m.src}
  OBVIOUS
<1>3. PICK y : y = Send(n, s, to, a)
  OBVIOUS
<1>4. on_sync_request(n, s, m) \in {s, y}
  BY <1>1, <1>2, <1>3 DEF on_sync_request
<1>5. Reproposes(y, M)
  BY <1>3, SendUnmoved, UnmovedReproposes
<1> QED
  BY <1>4, <1>5

\* Every message handler, on the messages that were heard.
LEMMA HandleNetMessageReproposes ==
    ASSUME NEW s \in State, Good(s), NEW n \in Validators,
           NEW M \in SUBSET Message, NEW C, Consistent(M, C), Midway(n, s, M, C),
           Outs(s) = {}, Reproposes(s, M), Done(n, s, M),
           \A q \in Prepares(M) : q.src = round_leader(q.prop.slot, q.view),
           NEW m \in M, MessageVoted(m, M), NEW valid
    PROVE  Reproposes(handle_net_message(n, s, m, valid), M)
<1> DEFINE h == handle_net_message(n, s, m, valid)
<1>0. m \in Message /\ MessageOK(m, M)
  BY DEF Consistent
<1>1. ASSUME NEW p \in Prepare, PrepareOK(p, M), PrepareVoted(p, M)
      PROVE  Reproposes(on_prepare(n, s, p, valid), M)
  <2>1. Genuine(p, M)
    BY <1>1 DEF PrepareVoted, Genuine
  <2> QED  BY <1>1, <2>1, OnPrepareReproposes
<1>2. CASE m.type = "Prepare"
  <2> DEFINE p == [src |-> m.src, prop |-> m.prop, ticket |-> m.ticket,
                   view |-> m.view]
  <2>1. /\ p \in Prepare /\ p.prop = m.prop /\ p.ticket = m.ticket
        /\ p.src = m.src /\ p.view = m.view
    BY <1>0, <1>2 DEF Message, Prepare
  <2>2. h = on_prepare(n, s, p, valid)
    BY <1>2, Zenon DEF handle_net_message
  <2> HIDE DEF p, h
  <2>3. PrepareVoted(p, M)
    BY <1>2, <2>1 DEF MessageVoted, PrepareVoted, Prepares
  <2>4. PrepareOK(p, M)
    BY <1>0, <1>2, <2>1 DEF MessageOK, PrepareOK, Proposals, Prepares
  <2>5. Reproposes(h, M)
    BY <1>1, <2>1, <2>2, <2>3, <2>4
  <2> QED  BY <2>5 DEF h
<1>3. CASE m.type = "SyncReply"
  <2>1. PICK p : p = m.prepare
    OBVIOUS
  <2>2. p \in Prepare /\ PrepareVoted(p, M) /\ PrepareOK(p, M)
    BY <1>0, <1>3, <2>1 DEF Message, MessageVoted, MessageOK
  <2>3. h = on_prepare(n, s, p, valid)
    BY <1>3, <2>1 DEF handle_net_message
  <2> HIDE DEF h
  <2>4. Reproposes(h, M)
    BY <1>1, <2>2, <2>3
  <2> QED  BY <2>4 DEF h
<1>4. CASE m.type = "PrepareVote"
  <2>1. m.src \in Validators /\ m.hash \in Hash
    BY <1>0, <1>4 DEF Message
  <2>2. h = on_prepare_vote(n, s, m)
    BY <1>4 DEF handle_net_message
  <2> HIDE DEF h
  <2>3. Reproposes(h, M)
    BY <2>1, <2>2, OnPrepareVoteReproposes
  <2> QED  BY <2>3 DEF h
<1>5. CASE m.type = "Confirm"
  <2>1. m.qc \in QC
    BY <1>0, <1>5 DEF Message
  <2>2. h = on_confirm(n, s, m)
    BY <1>5 DEF handle_net_message
  <2> QED  BY <2>1, <2>2, OnConfirmReproposes
<1>6. CASE m.type = "ConfirmAck"
  <2>1. m.src \in Validators /\ m.hash \in Hash
    BY <1>0, <1>6 DEF Message
  <2>2. h = on_confirm_ack(n, s, m)
    BY <1>6 DEF handle_net_message
  <2> HIDE DEF h
  <2>3. Reproposes(h, M)
    BY <2>1, <2>2, OnConfirmAckReproposes
  <2> QED  BY <2>3 DEF h
<1>7. CASE m.type = "Commit"
  <2>1. m.qc \in QC
    BY <1>0, <1>7 DEF Message
  <2>2. h = on_commit(n, s, m)
    BY <1>7 DEF handle_net_message
  <2> QED  BY <2>1, <2>2, OnCommitReproposes
<1>8. CASE m.type = "Timeout"
  <2>1. h = on_timeout(n, s, m)
    BY <1>8 DEF handle_net_message
  <2> QED  BY <1>0, <1>8, <2>1, OnTimeoutReproposes DEF Requested
<1>9. CASE m.type = "TimeoutCertificate"
  <2>1. m.qc \in QC /\ m.kind \in Kind
    BY <1>0, <1>9 DEF Message
  <2>2. h = on_timeout_certificate(n, s, m)
    BY <1>9 DEF handle_net_message
  <2> QED  BY <2>1, <2>2, OnTimeoutCertificateReproposes
<1>10. CASE m.type = "SyncRequest"
  <2>1. h = on_sync_request(n, s, m)
    BY <1>10 DEF handle_net_message
  <2> QED  BY <2>1, OnSyncRequestReproposes
<1> QED
  BY <1>0, <1>2, <1>3, <1>4, <1>5, <1>6, <1>7, <1>8, <1>9, <1>10 DEF Message

-----------------------------------------------------------------------------
(* A step of a validator keeps what leaders are to propose.                 *)

\* What the step that leaves the state w must have done.
StepRepeats(w, M) ==
    LET N == M \cup Outs(w)
    IN  Reproposes(w, N) /\ \A p \in Prepares(Outs(w)) : Repeats(p, N)

\* What was sent later cannot ask more of a leader.
LEMMA MoreRepeats ==
    ASSUME NEW M, NEW N, M \subseteq N
    PROVE  /\ \A s : Reproposes(s, M) => Reproposes(s, N)
           /\ \A p : Repeats(p, M) => Repeats(p, N)
<1>1. \A slot : FirstOnly(slot, N) => FirstOnly(slot, M)
  BY DEF FirstOnly
<1>2. \A s : MatchesOK(s, M) => MatchesOK(s, N)
  BY <1>1 DEF MatchesOK
<1> QED
  BY <1>1, <1>2 DEF Reproposes, Repeats

\* A handler that makes no proposal.
LEMMA HandlerRepeats ==
    ASSUME NEW s, NEW w, NEW n, NEW M, NEW C, Fine(n, s, w, M, C), Reproposes(w, M)
    PROVE  StepRepeats(w, M)
<1>1. PICK N : N = M \cup Outs(w)
  OBVIOUS
<1>2. Prepares(Outs(w)) = {}
  BY DEF Fine, Midway, SentOK, Prepares
<1>3. Reproposes(w, N)
  BY <1>1, MoreRepeats
<1> QED
  BY <1>1, <1>2, <1>3 DEF StepRepeats

\* A leader proposes the proposal at hand, if it has one of the slot.
LEMMA ProposeRepeats ==
    ASSUME NEW s \in State, NEW n \in Validators, NEW M, Reproposes(s, M),
           s.out = <<>>, NEW ticket, ticket = s.ticket, ticket # None,
           NEW prop, prop.slot = s.slot, s.cp.slot = s.slot => prop = s.cp
    PROVE  StepRepeats(Propose(n, s, prop, ticket), M)
<1> DEFINE a == [s EXCEPT !.cp = prop, !.step = "PrepareVote", !.ticket = None]
           p == [src |-> n, prop |-> prop, ticket |-> ticket, view |-> s.view]
           m == [type |-> "Prepare", src |-> n, prop |-> prop, ticket |-> ticket,
                 view |-> s.view]
           b == push(a, p)
           w == Broadcast(n, b, m)
<1>1. Propose(n, s, prop, ticket) = w
  BY DEF Propose
<1>2. DOMAIN s = Fields
  BY StateFields
<1>3. /\ DOMAIN a = Fields /\ a.cp = prop /\ a.step = "PrepareVote" /\ a.ticket = None
      /\ \A f \in Fields \ {"cp", "step", "ticket"} : a[f] = s[f]
  BY <1>2 DEF Fields
<1>4. DOMAIN b = Fields /\ \A f \in Fields \ {"prepares", "children"} : b[f] = a[f]
  <2> HIDE DEF a, p
  <2> QED  BY <1>3 DEF push, Fields
<1> HIDE DEF b
<1>5. /\ DOMAIN w = Fields /\ w.out = Append(b.out, [to |-> Validators \ {n}, msg |-> m])
      /\ \A f \in Fields \ {"out"} : w[f] = b[f]
  <2> HIDE DEF m
  <2> QED  BY <1>4 DEF Broadcast, Send, Fields
<1> HIDE DEF a, w
<1>6. m.prop = prop /\ m.ticket = ticket
  OBVIOUS
<1> HIDE DEF m
<1>7. /\ w.slot = s.slot /\ w.view = s.view /\ w.tag = s.tag /\ w.hqc = s.hqc
      /\ w.cp = prop /\ w.step = "PrepareVote" /\ w.ticket = None
  BY <1>3, <1>4, <1>5 DEF Fields
<1>8. Outs(w) = {m}
  <2>1. b.out = <<>>
    BY <1>3, <1>4 DEF Fields
  <2>2. PICK e : e = [to |-> Validators \ {n}, msg |-> m]
    OBVIOUS
  <2>3. w.out = <<e>> /\ e.msg = m
    BY <1>5, <2>1, <2>2
  <2>4. DOMAIN w.out = {1} /\ w.out[1] = e
    BY <2>3
  <2> QED  BY <2>3, <2>4 DEF Outs
<1>9. PICK N : N = M \cup Outs(w)
  OBVIOUS
<1>10. Reproposes(s, N)
  BY <1>9, MoreRepeats
<1>11. Reproposes(w, N)
  BY <1>7, <1>10 DEF Reproposes, HighestOK, WaitsOK, MatchesOK
<1>12. Repeats(m, N)
  BY <1>6, <1>10 DEF Reproposes, MatchesOK, Repeats
<1>13. \A q \in Prepares(Outs(w)) : Repeats(q, N)
  BY <1>8, <1>12 DEF Prepares
<1> QED
  BY <1>1, <1>9, <1>11, <1>13 DEF StepRepeats

LEMMA StartRoundRepeats ==
    ASSUME NEW s \in State, NEW n \in Validators, NEW M, Reproposes(s, M),
           s.out = <<>>, NEW may_delay, NEW delay, NEW fees
    PROVE  StepRepeats(start_round(n, s, may_delay, delay, fees), M)
<1> DEFINE new == [slot |-> s.slot, born |-> Moment(s), fees |-> fees,
                   parent |-> s.parent]
           c == s.cmds \cup {FALSE}
           d == [s EXCEPT !.cmds = c]
           w == start_round(n, s, may_delay, delay, fees)
<1>1. \/ w \in {s, d}
      \/ /\ w = Propose(n, s, new, s.ticket) /\ s.ticket # None
         /\ s.cp.slot # s.slot
      \/ /\ w = Propose(n, s, s.cp, s.ticket) /\ s.ticket # None
         /\ s.cp.slot = s.slot
  BY DEF start_round, current_slot_prepare_is_present
<1>2. new.slot = s.slot
  OBVIOUS
<1> HIDE DEF new, c
<1>3. Unmoved(s, s) /\ Unmoved(s, d) /\ d.out = <<>>
  <2>1. DOMAIN s = Fields
    BY StateFields
  <2> QED  BY <2>1 DEF Unmoved, Fields
<1> HIDE DEF d
<1>4. ASSUME NEW t, Unmoved(s, t), t.out = <<>>
      PROVE  StepRepeats(t, M)
  <2>1. Outs(t) = {}
    BY <1>4 DEF Outs
  <2>2. M \cup Outs(t) = M /\ Prepares(Outs(t)) = {}
    BY <2>1 DEF Prepares
  <2>3. Reproposes(t, M)
    BY <1>4, UnmovedReproposes
  <2> QED  BY <2>2, <2>3 DEF StepRepeats
<1>5. PICK ticket : ticket = s.ticket
  OBVIOUS
<1>6. ASSUME ticket # None, NEW prop, prop.slot = s.slot,
             s.cp.slot = s.slot => prop = s.cp
      PROVE  StepRepeats(Propose(n, s, prop, s.ticket), M)
  <2>1. StepRepeats(Propose(n, s, prop, ticket), M)
    BY <1>5, <1>6, ProposeRepeats
  <2> QED  BY <1>5, <2>1
<1> HIDE DEF w
<1>7. StepRepeats(s, M) /\ StepRepeats(d, M)
  BY <1>3, <1>4
<1>8. StepRepeats(w, M)
  BY <1>1, <1>2, <1>5, <1>6, <1>7
<1> QED
  BY <1>8 DEF w

\* Every leader proposes, and proposed, what its ticket certifies.
ReproposalsOf(f, M) ==
    /\ \A n \in Validators : Reproposes(f[n], M)
    /\ \A p \in Prepares(M) : Repeats(p, M)

Reproposals == ReproposalsOf(st, Heard)

\* With the evidence and the certificates that it rests on.
RInv == EInv /\ CInv /\ (restarts = 0 => Reproposals)

LEMMA BecomesRepeats ==
    ASSUME IInv, Reproposals, NEW n \in Validators, NEW w \in State,
           StepRepeats(w, Heard), Becomes(n, w)
    PROVE  Reproposals'
<1> DEFINE e == <<>>
           t == [w EXCEPT !.out = e]
<1>1. st' = [st EXCEPT ![n] = t]
  BY DEF Becomes
<1>2. Unmoved(w, t)
  <2>1. DOMAIN w = Fields
    BY StateFields
  <2> QED  BY <2>1 DEF Unmoved, Fields
<1> HIDE DEF t
<1>3. \A v \in Validators : st'[v] = IF v = n THEN t ELSE st[v]
  BY <1>1 DEF IInv, TypeOK
<1>4. PICK N : N = Heard \cup Outs(w)
  OBVIOUS
<1>5. Heard' = N
  BY <1>4 DEF Becomes, Heard, Outs
<1>6. Reproposes(w, N) /\ \A p \in Prepares(Outs(w)) : Repeats(p, N)
  BY <1>4 DEF StepRepeats
<1>7. Reproposes(t, N)
  BY <1>2, <1>6, UnmovedReproposes
<1>8. \A v \in Validators : Reproposes(st[v], N)
  BY <1>4, MoreRepeats DEF Reproposals, ReproposalsOf
<1>9. \A v \in Validators : Reproposes(st'[v], N)
  BY <1>3, <1>7, <1>8
<1>10. \A p \in Prepares(N) : Repeats(p, N)
  <2>1. \A p \in Prepares(Heard) : Repeats(p, N)
    BY <1>4, MoreRepeats DEF Reproposals, ReproposalsOf
  <2> QED  BY <1>4, <1>6, <2>1 DEF Prepares
<1>11. ReproposalsOf(st', Heard')
  BY <1>5, <1>9, <1>10 DEF ReproposalsOf
<1> QED
  BY <1>11 DEF Reproposals

\* Between two steps, a validator's state is as a handler may find it.
LEMMA ReproposalsReady ==
    ASSUME EInv, CInv, restarts = 0, Reproposals, NEW n \in Validators
    PROVE  /\ IInv /\ st[n] \in State /\ Good(st[n]) /\ Heard \in SUBSET Message
           /\ Midway(n, st[n], Heard, Certified) /\ Consistent(Heard, Certified)
           /\ Outs(st[n]) = {} /\ st[n].out = <<>>
           /\ Reproposes(st[n], Heard) /\ Done(n, st[n], Heard)
           /\ \A q \in Prepares(Heard) : q.src = round_leader(q.prop.slot, q.view)
<1>1. IInv /\ Evidence /\ st[n].out = <<>>
  BY DEF EInv
<1>2. /\ st[n] \in State /\ Good(st[n]) /\ Heard \in SUBSET Message
      /\ Midway(n, st[n], Heard, Certified) /\ Outs(st[n]) = {}
  BY <1>1, Ready
<1>3. Consistent(Heard, Certified) /\ LeadersOK
  BY <1>1 DEF Evidence
<1>4. Reproposes(st[n], Heard)
  BY DEF Reproposals, ReproposalsOf
<1>5. Done(n, st[n], Heard)
  BY <1>3 DEF LeadersOK, Done
<1> QED
  BY <1>1, <1>2, <1>3, <1>4, <1>5 DEF LeadersOK

LEMMA ReceivesRepeats ==
    ASSUME EInv, CInv, restarts = 0, Reproposals,
           NEW n \in Validators, NEW type, Receives(n, type)
    PROVE  Reproposals'
<1>1. /\ IInv /\ st[n] \in State /\ Good(st[n]) /\ Heard \in SUBSET Message
      /\ Midway(n, st[n], Heard, Certified) /\ Consistent(Heard, Certified)
      /\ Outs(st[n]) = {}
      /\ Reproposes(st[n], Heard) /\ Done(n, st[n], Heard)
      /\ \A q \in Prepares(Heard) : q.src = round_leader(q.prop.slot, q.view)
  BY ReproposalsReady
<1>2. PICK m \in Inbox(n, type) : \E valid \in OutcomesOf(m) :
        Becomes(n, handle_net_message(n, st[n], m, valid))
  BY DEF Receives
<1>3. PICK valid \in OutcomesOf(m) :
        Becomes(n, handle_net_message(n, st[n], m, valid))
  BY <1>2
<1>4. PICK e \in msgs : n \in e.to /\ e.msg = m
  BY <1>2 DEF Inbox
<1>5. m \in Heard /\ m \in Message
  BY <1>1, <1>4 DEF Heard
<1>6. MessageVoted(m, Heard)
  BY <1>4 DEF CInv, Certificates, EnvelopeVoted
<1>7. PICK w : w = handle_net_message(n, st[n], m, valid)
  OBVIOUS
<1>8. w \in State
  BY <1>1, <1>5, <1>7, HandleNetMessageOK DEF HandlerOK
<1>9. Fine(n, st[n], w, Heard, Certified)
  BY <1>1, <1>5, <1>7, HandleNetMessageFine
<1>10. Reproposes(w, Heard)
  BY <1>1, <1>5, <1>6, <1>7, HandleNetMessageReproposes
<1>11. StepRepeats(w, Heard)
  BY <1>9, <1>10, HandlerRepeats
<1> QED
  BY <1>1, <1>3, <1>7, <1>8, <1>11, BecomesRepeats

LEMMA StartNewSlotRepeats ==
    ASSUME EInv, CInv, restarts = 0, Reproposals,
           NEW n \in Validators, StartNewSlot(n)
    PROVE  Reproposals'
<1>1. /\ IInv /\ st[n] \in State /\ Good(st[n]) /\ st[n].out = <<>>
      /\ Reproposes(st[n], Heard)
  BY ReproposalsReady
<1>2. PICK may_delay \in st[n].cmds, delay \in BOOLEAN, fees \in Fees :
        Becomes(n, start_round(n, [st[n] EXCEPT !.cmds = @ \ {may_delay}],
                               may_delay, delay, fees))
  BY DEF StartNewSlot
<1> DEFINE c == st[n].cmds \ {may_delay}
           s == [st[n] EXCEPT !.cmds = c]
           w == start_round(n, s, may_delay, delay, fees)
<1>3. c \in SUBSET BOOLEAN /\ fees \in BOOLEAN /\ DOMAIN st[n] = Fields
  BY <1>1, BoundsAssumption, StateFields DEF State
<1>4. Becomes(n, w)
  BY <1>2
<1> HIDE DEF c
<1>5. s \in State /\ Quiet(st[n], s)
  BY <1>1, <1>3 DEF State, Quiet, Frame
<1>6. Unmoved(st[n], s) /\ s.out = <<>>
  BY <1>1, <1>3 DEF Unmoved, Fields
<1> HIDE DEF s
<1>7. Good(s)
  BY <1>1, <1>5, QuietOK DEF HandlerOK
<1>8. w \in State
  BY <1>3, <1>5, <1>7, StartRoundOK DEF HandlerOK
<1>9. Reproposes(s, Heard)
  BY <1>1, <1>6, UnmovedReproposes
<1>10. StepRepeats(w, Heard)
  BY <1>5, <1>6, <1>9, StartRoundRepeats
<1> HIDE DEF w
<1> QED
  BY <1>1, <1>4, <1>8, <1>10, BecomesRepeats

LEMMA StepRepeatsOK ==
    ASSUME EInv, CInv, restarts = 0, Reproposals,
           NEW n \in Validators, ValidatorStep(n), ~Restart(n)
    PROVE  Reproposals'
<1>1. /\ IInv /\ st[n] \in State /\ Good(st[n]) /\ Heard \in SUBSET Message
      /\ Midway(n, st[n], Heard, Certified) /\ Consistent(Heard, Certified)
      /\ Outs(st[n]) = {}
      /\ Reproposes(st[n], Heard) /\ Done(n, st[n], Heard)
      /\ \A q \in Prepares(Heard) : q.src = round_leader(q.prop.slot, q.view)
  BY ReproposalsReady
<1>2. Sound(n, st[n], Heard, Certified) /\ Holds(n, st[n], Heard)
  BY DEF EInv, Evidence, CInv, Certificates
<1>3. CASE FastForward(n)
  <2>1. PICK p : p = st[n].next
    OBVIOUS
  <2>2. PICK valid : Becomes(n, on_prepare(n, st[n], p, valid))
    BY <1>3, <2>1 DEF FastForward
  <2>3. p \in Prepare /\ PrepareOK(p, Heard) /\ PrepareVoted(p, Heard)
    BY <1>1, <1>2, <1>3, <2>1 DEF FastForward, Idle, State, Sound, HoldsOK,
                                  Holds, Keeps
  <2>4. Genuine(p, Heard)
    BY <1>1, <2>3 DEF PrepareVoted, Genuine
  <2>5. PICK w : w = on_prepare(n, st[n], p, valid)
    OBVIOUS
  <2>6. w \in State
    BY <1>1, <2>3, <2>5, OnPrepareOK DEF HandlerOK
  <2>7. Fine(n, st[n], w, Heard, Certified)
    BY <1>1, <2>3, <2>5, OnPrepareFine
  <2>8. Reproposes(w, Heard)
    BY <1>1, <2>3, <2>4, <2>5, OnPrepareReproposes
  <2>9. StepRepeats(w, Heard)
    BY <2>7, <2>8, HandlerRepeats
  <2> QED  BY <1>1, <2>2, <2>5, <2>6, <2>9, BecomesRepeats
<1>4. CASE TimeoutTick(n)
  <2>1. PICK w : w = on_timeout_tick(n, st[n])
    OBVIOUS
  <2>2. Becomes(n, w)
    BY <1>4, <2>1 DEF TimeoutTick
  <2>3. w \in State
    BY <1>1, <2>1, OnTimeoutTickOK DEF HandlerOK
  <2>4. Fine(n, st[n], w, Heard, Certified)
    BY <1>1, <2>1, TickFine
  <2>5. Reproposes(w, Heard)
    BY <1>1, <2>1, TickReproposes
  <2>6. StepRepeats(w, Heard)
    BY <2>4, <2>5, HandlerRepeats
  <2> QED  BY <1>1, <2>2, <2>3, <2>6, BecomesRepeats
<1>5. ~NewBlock(n)
  BY <1>2 DEF NewBlock, Sound, RoleOK
<1>6. CASE StartNewSlot(n)
  BY <1>6, StartNewSlotRepeats
<1>7. CASE \E type : Receives(n, type)
  BY <1>7, ReceivesRepeats
<1> QED
  BY <1>3, <1>4, <1>5, <1>6, <1>7
     DEF ValidatorStep, OnPrepare, OnSyncReply, OnPrepareVote, OnConfirm,
         OnConfirmAck, OnCommit, OnTimeout, OnTimeoutCertificate, OnSyncRequest

LEMMA ReproposalsInit == Init => RInv
<1> SUFFICES ASSUME Init PROVE RInv
  OBVIOUS
<1>1. PICK boot \in Boots : st = [n \in Validators |-> InitialState(n, boot)]
  BY DEF Init
<1>2. EInv /\ CInv /\ Heard = {}
  BY EvidenceInit, CertificatesInit DEF Init, Heard
<1>3. ASSUME NEW n \in Validators
      PROVE  Reproposes(st[n], {})
  <2>1. st[n] = InitialState(n, boot)
    BY <1>1
  <2>2. /\ st[n].tag = IF round_leader(1, 0) = n THEN "Leader" ELSE "Follower"
        /\ st[n].hqc = None /\ st[n].step = "StartNewSlot"
    BY <2>1 DEF InitialState
  <2>3. /\ st[n].ticket \in {None, CommitTicket(ParentQC), GenesisTicket}
        /\ round_leader(1, 0) # n => st[n].ticket = None
    BY <2>1 DEF InitialState
  <2>4. st[n].ticket # None => ~Certifies(st[n].ticket, st[n].slot)
    BY <2>3 DEF Certifies, CommitTicket, GenesisTicket
  <2> QED  BY <2>2, <2>3, <2>4 DEF Reproposes, HighestOK, WaitsOK, MatchesOK
<1>4. Reproposals
  BY <1>2, <1>3 DEF Reproposals, ReproposalsOf, Prepares
<1> QED
  BY <1>2, <1>4 DEF RInv

LEMMA ReproposalsNext ==
    ASSUME RInv, [Next]_vars
    PROVE  RInv'
<1>1. EInv' /\ CInv'
  BY EvidenceNext, CertificatesNext DEF RInv
<1>2. CASE Next
  <2>1. PICK n \in Validators : ValidatorStep(n)
    BY <1>2 DEF Next
  <2>2. restarts' = 0 => restarts = 0 /\ ~Restart(n)
    <3>1. restarts \in Nat
      BY DEF RInv, EInv, IInv, TypeOK
    <3>2. Restart(n) => restarts' = restarts + 1
      BY DEF Restart
    <3>3. ~Restart(n) => restarts' = restarts
      BY <2>1 DEF ValidatorStep, StartNewSlot, FastForward, Receives, TimeoutTick,
           NewBlock, OnPrepare, OnSyncReply, OnPrepareVote, OnConfirm, OnConfirmAck,
           OnCommit, OnTimeout, OnTimeoutCertificate, OnSyncRequest, Becomes
    <3> QED  BY <3>1, <3>2, <3>3
  <2>3. restarts' = 0 => Reproposals'
    BY <2>1, <2>2, StepRepeatsOK DEF RInv
  <2> QED  BY <1>1, <2>3 DEF RInv
<1>3. CASE UNCHANGED vars
  <2>1. st' = st /\ Heard' = Heard /\ restarts' = restarts
    BY <1>3 DEF vars, Heard
  <2>2. Reproposals => Reproposals'
    BY <2>1 DEF Reproposals, ReproposalsOf
  <2> QED  BY <1>1, <2>1, <2>2 DEF RInv
<1> QED
  BY <1>2, <1>3

\* Until a validator restarts, a leader that enters the second view of a slot
\* with a prepare certificate of the slot proposes what was certified, whichever
\* way (on_timeout, on_timeout_certificate, the ticket of a Prepare, on_confirm)
\* the certificate and its proposal came to it.
THEOREM ReproposesAlwaysCertified == Spec => [](restarts = 0 => ReproposesCertified)
<1>1. RInv => (restarts = 0 => ReproposesCertified)
  <2> SUFFICES ASSUME RInv, restarts = 0,
                      NEW p \in Messages("Prepare"),
                      p.ticket.type = "TimeoutQC", p.ticket.kind # NilProposal,
                      p.ticket.kind.qc.hash.slot = p.prop.slot,
                      FirstChange(p.prop.slot)
               PROVE  p.prop = p.ticket.kind.prop
    BY DEF ReproposesCertified
  <2>1. Messages("Prepare") = Prepares(Heard)
    BY DEF Messages, Prepares, Heard
  <2>2. Repeats(p, Heard)
    BY <2>1 DEF RInv, Reproposals, ReproposalsOf
  <2>3. FirstOnly(p.prop.slot, Heard)
    BY DEF FirstChange, FirstOnly, Messages, Heard
  <2>4. Certifies(p.ticket, p.prop.slot)
    BY DEF Certifies
  <2> QED  BY <2>2, <2>3, <2>4 DEF Repeats
<1>2. RInv /\ [Next]_vars => RInv'
  BY ReproposalsNext
<1> QED
  BY <1>1, <1>2, ReproposalsInit, PTL DEF Spec

=============================================================================
