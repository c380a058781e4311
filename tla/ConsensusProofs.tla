--------------------------- MODULE ConsensusProofs ---------------------------
(* Theorems about Consensus, for any number of validators, any stakes and   *)
(* any bounds.                                                              *)
EXTENDS Consensus, TLAPS, FiniteSetTheorems

-----------------------------------------------------------------------------
(* What the proofs say of a state and of what a handler does to it.         *)

\* A leader that is collecting votes or acks holds a proposal of its slot.
Good(s) ==
    s.tag = "Leader" /\ s.step # "StartNewSlot" => current_slot_prepare_is_present(s)

\* The handler neither commits nor moves to another slot.
Frame(s, t) ==
    /\ t.commits = s.commits /\ t.slot = s.slot /\ t.parent = s.parent
    /\ t.applied = s.applied /\ t.synced = s.synced

\* ... nor does it touch the proposal and the role.
Quiet(s, t) ==
    Frame(s, t) /\ t.cp = s.cp /\ t.tag = s.tag /\ t.step = s.step

\* NoGap, as a fact about one state: the consensus committed the slots below its
\* own, or its node state has them.  What it is synced to, it has.
GapFree(s) ==
    /\ s.synced <= s.applied
    /\ \A k \in 1 .. s.slot - 1 :
         k <= s.applied \/ \E i \in DOMAIN s.commits : s.commits[i].prop.slot = k

\* A handler leaves a slot by committing it, and leaves no slot out.
Moves(s, t) == CommitStep(s, t) /\ (GapFree(s) => GapFree(t))

\* What is proved of every handler.
HandlerOK(s, t) == t \in State /\ Good(t) /\ Moves(s, t)

LEMMA QuietOK ==
    ASSUME NEW s \in State, Good(s), NEW t \in State, Quiet(s, t)
    PROVE  HandlerOK(s, t)
<1>1. Good(t) /\ CommitStep(s, t)
  BY DEF Quiet, Frame, Good, CommitStep, current_slot_prepare_is_present
<1>2. GapFree(s) => GapFree(t)
  BY DEF Quiet, Frame, GapFree
<1> QED
  BY <1>1, <1>2 DEF HandlerOK, Moves

LEMMA FrameLeft ==
    ASSUME NEW s, NEW t, NEW u, Frame(s, t), Moves(t, u),
           t.tag = "Joining" => s.tag = "Joining"
    PROVE  Moves(s, u)
<1>1. CommitStep(s, u)
  BY DEF Frame, CommitStep, Moves
<1>2. GapFree(s) => GapFree(t)
  BY DEF Frame, GapFree
<1> QED
  BY <1>1, <1>2 DEF Moves

LEMMA FrameRight ==
    ASSUME NEW s, NEW t, NEW u, Moves(s, t), Frame(t, u)
    PROVE  Moves(s, u)
<1>1. CommitStep(s, u)
  BY DEF Frame, CommitStep, Moves
<1>2. GapFree(t) => GapFree(u)
  BY DEF Frame, GapFree
<1> QED
  BY <1>1, <1>2 DEF Moves

-----------------------------------------------------------------------------
(* Every handler leaves a well-typed state.                                 *)

LEMMA HashType ==
    ASSUME NEW p \in Prop
    PROVE  hashed(p) \in Hash
BY DEF hashed, Prop, Hash

LEMMA PushType ==
    ASSUME NEW s \in State, NEW p \in Prepare
    PROVE  push(s, p) \in State /\ Quiet(s, push(s, p))
<1> DEFINE P == {q \in s.prepares : hashed(q.prop) # hashed(p.prop)} \cup {p}
           C == {c \in s.children : c.parent # p.prop.parent}
                  \cup {[parent |-> p.prop.parent, child |-> hashed(p.prop)]}
<1>1. p.prop \in Prop /\ p.prop.parent \in Hash /\ hashed(p.prop) \in Hash
  BY HashType DEF Prepare, Prop
<1>2. P \in SUBSET Prepare
  BY DEF State
<1>3. C \in SUBSET Child
  BY <1>1 DEF State, Child
<1>4. push(s, p) = [s EXCEPT !.prepares = P, !.children = C]
  BY DEF push
<1> HIDE DEF P, C
<1> QED
  BY <1>2, <1>3, <1>4 DEF State, Quiet, Frame

LEMMA SendType ==
    ASSUME NEW s \in State, NEW n \in Validators, NEW to \in SUBSET Validators,
           NEW m \in Message
    PROVE  /\ Send(n, s, to, m) \in State /\ Quiet(s, Send(n, s, to, m))
           /\ Broadcast(n, s, m) \in State /\ Quiet(s, Broadcast(n, s, m))
<1>1. ASSUME NEW V \in SUBSET Validators
      PROVE  Send(n, s, V, m) \in State /\ Quiet(s, Send(n, s, V, m))
  <2> DEFINE o == Append(s.out, [to |-> V \ {n}, msg |-> m])
  <2>1. o \in Seq(Envelope)
    <3>1. s.out \in Seq(Envelope) /\ [to |-> V \ {n}, msg |-> m] \in Envelope
      BY DEF State, Envelope
    <3> QED  BY <3>1
  <2> HIDE DEF o
  <2>2. [s EXCEPT !.out = o] \in State /\ Quiet(s, [s EXCEPT !.out = o])
    BY <2>1 DEF State, Quiet, Frame
  <2> QED  BY <2>2 DEF Send, o
<1> QED
  BY <1>1 DEF Broadcast

LEMMA LeaderType ==
    ASSUME NEW slot \in Nat, NEW view \in Nat
    PROVE  round_leader(slot, view) \in Validators
BY BondedAssumption DEF round_leader, Validators

LEMMA EnterRoundType ==
    ASSUME NEW s \in State, NEW n \in Validators
    PROVE  LET t == EnterRound(n, s)
           IN  /\ t \in State /\ t.tag # "Joining"
               /\ Frame(s, t) /\ t.cp = s.cp /\ t.step = s.step
BY DEF EnterRound, State, Frame

-----------------------------------------------------------------------------
(* Ending a round.                                                         *)

AnyTicket == Ticket \cup {ForcedTicket}

LEMMA SlotType ==
    ASSUME NEW s \in State, NEW l \in Nat, NEW d \in Hash
    PROVE  LET t == [s EXCEPT !.slot = l, !.view = 0, !.parent = d]
           IN  /\ t \in State /\ t.step = s.step /\ t.commits = s.commits
               /\ t.slot = l /\ t.parent = d
               /\ t.applied = s.applied /\ t.synced = s.synced
BY DEF State

LEMMA ProposalType ==
    ASSUME NEW s \in State, NEW q \in QC \cup {None}, NEW c \in Prop
    PROVE  LET t == [s EXCEPT !.bqc = q, !.cp = c]
           IN  /\ t \in State /\ t.step = s.step /\ t.commits = s.commits
               /\ t.slot = s.slot /\ t.parent = s.parent
               /\ t.applied = s.applied /\ t.synced = s.synced
BY DEF State

LEMMA ApplyTicket ==
    ASSUME NEW s \in State, NEW n \in Validators, NEW ticket \in AnyTicket
    PROVE  LET t == apply_ticket(n, s, ticket)
           IN  /\ t \in State /\ t.tag # "Joining" /\ t.step = "StartNewSlot"
               /\ t.commits = s.commits
               /\ t.applied = s.applied /\ t.synced = s.synced
               /\ IF ticket.type = "TimeoutQC"
                  THEN t.slot = s.slot /\ t.parent = s.parent
                  ELSE t.slot = s.slot + 1 /\ t.parent = hashed(s.cp)
<1> DEFINE reset == [s EXCEPT !.step = "StartNewSlot", !.votes = {}, !.acks = {},
                              !.ticket = None, !.reqs = {}]
           v == reset.view + 1
           l == reset.slot + 1
           viewed == [reset EXCEPT !.view = v, !.bqc = None]
           q == IF ticket.type = "CommitQC" THEN ticket.qc ELSE None
           c == [s.cp EXCEPT !.fees = FALSE]
           slotted == [reset EXCEPT !.slot = l, !.view = 0,
                                    !.parent = hashed(s.cp), !.bqc = q,
                                    !.cp.fees = FALSE]
<1>1. reset \in State /\ Frame(s, reset) /\ reset.cp = s.cp
      /\ reset.step = "StartNewSlot"
  BY DEF State, Frame
<1>2. q \in QC \cup {None}
  BY DEF AnyTicket, Ticket, ForcedTicket, GenesisTicket
<1>3. hashed(s.cp) \in Hash /\ c \in Prop
  BY HashType DEF State, Prop
<1> HIDE DEF reset, q
<1>7. v \in Nat /\ l \in Nat /\ l = s.slot + 1
  BY <1>1 DEF State, Frame
<1> HIDE DEF v, l
<1>4. viewed \in State /\ viewed.step = "StartNewSlot" /\ Frame(s, viewed)
  BY <1>1, <1>7 DEF State, Frame
<1>5. /\ slotted \in State /\ slotted.step = "StartNewSlot"
      /\ slotted.commits = s.commits /\ slotted.slot = s.slot + 1
      /\ slotted.parent = hashed(s.cp)
      /\ slotted.applied = s.applied /\ slotted.synced = s.synced
  <2>1. slotted = [reset EXCEPT !.slot = l, !.view = 0,
                                !.parent = hashed(s.cp), !.bqc = q, !.cp = c]
    BY <1>1 DEF State
  <2> DEFINE d == hashed(s.cp)
             y == [reset EXCEPT !.slot = l, !.view = 0, !.parent = d]
             z == [y EXCEPT !.bqc = q, !.cp = c]
  <2>2. d \in Hash /\ slotted = z
    BY <2>1, <1>1, <1>3 DEF State
  <2> HIDE DEF c, d, slotted
  <2>3. /\ y \in State /\ y.step = reset.step /\ y.commits = reset.commits
        /\ y.slot = l /\ y.parent = d
        /\ y.applied = reset.applied /\ y.synced = reset.synced
    <3>1. reset \in State /\ l \in Nat /\ d \in Hash
      BY <2>2, <1>1, <1>7
    <3> HIDE DEF l
    <3>2. y.step = reset.step /\ y.commits = reset.commits /\ y.slot = l
      BY <3>1 DEF State
    <3>3. y.parent = d /\ y.applied = reset.applied /\ y.synced = reset.synced
      BY <3>1 DEF State
    <3>4. y \in State
      BY <3>1, SlotType
    <3> QED  BY <3>2, <3>3, <3>4
  <2> HIDE DEF y
  <2>4. /\ z \in State /\ z.step = y.step /\ z.commits = y.commits
        /\ z.slot = y.slot /\ z.parent = y.parent
        /\ z.applied = y.applied /\ z.synced = y.synced
    BY <2>3, <1>2, <1>3, ProposalType
  <2> HIDE DEF z
  <2> QED  BY <1>1, <2>2, <2>3, <2>4, <1>7 DEF d, Frame
<1>6. apply_ticket(n, s, ticket) =
        EnterRound(n, IF ticket.type = "TimeoutQC" THEN viewed ELSE slotted)
  BY DEF apply_ticket, reset, q, v, l
<1> HIDE DEF viewed, slotted
<1> QED
  BY <1>4, <1>5, <1>6, EnterRoundType DEF Frame

LEMMA AdvanceRound ==
    ASSUME NEW s \in State, NEW n \in Validators, NEW ticket \in AnyTicket,
           s.tag # "Joining"
    PROVE  LET t == advance_round(n, s, ticket)
           IN  /\ t \in State /\ t.tag # "Joining" /\ t.step = "StartNewSlot"
               /\ t.commits = s.commits
               /\ t.applied = s.applied /\ t.synced = s.synced
               /\ IF ticket.type = "TimeoutQC"
                  THEN t.slot = s.slot /\ t.parent = s.parent
                  ELSE t.slot = s.slot + 1 /\ t.parent = hashed(s.cp)
<1> DEFINE a == apply_ticket(n, s, ticket)
           c == a.cmds \cup {TRUE}
           b == [a EXCEPT !.ticket = ticket, !.cmds = c]
<1>1. a \in State
  BY ApplyTicket
<1>2. ticket # ForcedTicket => ticket \in Ticket \cup {None}
  BY DEF AnyTicket
<1>3. c \in SUBSET BOOLEAN
  BY <1>1 DEF State
<1>4. advance_round(n, s, ticket) =
        IF /\ a.tag = "Leader" /\ has_no_buffered_children(a)
           /\ ticket.type # "ForcedCommitQc"
        THEN b ELSE a
  BY DEF advance_round
<1>5. ticket.type # "ForcedCommitQc" =>
        /\ b \in State /\ b.tag = a.tag /\ b.step = a.step
        /\ b.commits = a.commits /\ b.slot = a.slot /\ b.parent = a.parent
        /\ b.applied = a.applied /\ b.synced = a.synced
  <2>1. ticket.type # "ForcedCommitQc" => ticket \in Ticket \cup {None}
    BY <1>2 DEF ForcedTicket
  <2> HIDE DEF a, c
  <2> QED  BY <1>1, <1>3, <2>1 DEF State
<1> HIDE DEF b
<1> QED
  BY <1>4, <1>5, ApplyTicket

\* The commit of the current proposal, with a certificate or without.
LEMMA CommitOK ==
    ASSUME NEW s \in State, NEW n \in Validators, NEW qc \in QC,
           NEW ticket \in AnyTicket, ticket.type # "TimeoutQC",
           s.tag # "Joining", current_slot_prepare_is_present(s)
    PROVE  LET t == advance_round(n, emit_commit_event(s, qc), ticket)
           IN  HandlerOK(s, t) /\ t.tag # "Joining"
<1> DEFINE c == [prop |-> s.cp, qc |-> qc]
           cs == Append(s.commits, c)
           e == [s EXCEPT !.commits = cs]
           t == advance_round(n, e, ticket)
<1>1. c \in Committed /\ s.commits \in Seq(Committed) /\ s.slot \in Nat
  BY DEF State, Committed
<1>2. /\ cs \in Seq(Committed) /\ Len(cs) = Len(s.commits) + 1
      /\ cs[Len(cs)] = c
  <2> HIDE DEF c
  <2> QED  BY <1>1
<1>3. e = emit_commit_event(s, qc)
  BY DEF emit_commit_event
<1> HIDE DEF cs
<1>4. /\ e \in State /\ e.tag # "Joining" /\ e.commits = cs
      /\ e.slot = s.slot /\ e.cp = s.cp
      /\ e.applied = s.applied /\ e.synced = s.synced
  BY <1>2 DEF State
<1> HIDE DEF e
<1>5. /\ t \in State /\ t.tag # "Joining" /\ t.step = "StartNewSlot"
      /\ t.commits = cs /\ t.slot = s.slot + 1 /\ t.parent = hashed(s.cp)
      /\ t.applied = s.applied /\ t.synced = s.synced
  BY <1>4, AdvanceRound
<1> HIDE DEF t
<1>6. CommitStep(s, t)
  <2>1. t.commits[Len(t.commits)] = c /\ t.commits = Append(s.commits, c)
    BY <1>2, <1>5 DEF cs
  <2>2. t.slot = c.prop.slot + 1 /\ t.parent = hashed(c.prop)
    BY <1>5 DEF current_slot_prepare_is_present
  <2>3. t.commits # s.commits
    <3>1. Len(cs) # Len(s.commits)
      <4> HIDE DEF c
      <4> QED  BY <1>1, <1>2
    <3> QED  BY <3>1, <1>5
  <2> HIDE DEF c
  <2> QED  BY <2>1, <2>2, <2>3, <1>5 DEF CommitStep
<1>7. GapFree(s) => GapFree(t)
  <2> SUFFICES ASSUME GapFree(s) PROVE GapFree(t)
    OBVIOUS
  <2>1. ASSUME NEW k \in 1 .. t.slot - 1
        PROVE  k <= t.applied \/ \E i \in DOMAIN cs : cs[i].prop.slot = k
    <3>1. CASE k = s.slot
      <4>1. Len(cs) \in DOMAIN cs /\ c.prop.slot = k
        BY <1>1, <1>2, <3>1 DEF current_slot_prepare_is_present
      <4> QED  BY <4>1, <1>2
    <3>2. CASE k # s.slot
      <4>1. k \in 1 .. s.slot - 1
        BY <1>1, <1>5, <3>2
      <4>2. ASSUME NEW i \in DOMAIN s.commits, s.commits[i].prop.slot = k
            PROVE  i \in DOMAIN cs /\ cs[i].prop.slot = k
        <5> HIDE DEF c
        <5>1. i \in DOMAIN cs /\ cs[i] = s.commits[i]
          BY <1>1 DEF cs
        <5> QED  BY <5>1, <4>2
      <4> QED  BY <4>1, <4>2, <1>5 DEF GapFree
    <3> QED  BY <3>1, <3>2
  <2> QED  BY <2>1, <1>5 DEF GapFree
<1> QED
  BY <1>3, <1>5, <1>6, <1>7 DEF HandlerOK, Moves, Good, t

LEMMA CommitAndAdvanceOK ==
    ASSUME NEW s \in State, NEW n \in Validators, NEW qc \in QC,
           s.tag # "Joining", current_slot_prepare_is_present(s)
    PROVE  LET t == CommitAndAdvance(n, s, qc)
           IN  HandlerOK(s, t) /\ t.tag # "Joining"
<1>1. CommitTicket(qc) \in AnyTicket /\ CommitTicket(qc).type # "TimeoutQC"
  BY DEF CommitTicket, AnyTicket, Ticket
<1> QED
  BY <1>1, CommitOK DEF CommitAndAdvance

\* A view change keeps slot and commits.
LEMMA ViewChangeOK ==
    ASSUME NEW s \in State, NEW n \in Validators, NEW ticket \in Ticket,
           ticket.type = "TimeoutQC", s.tag # "Joining"
    PROVE  LET t == advance_round(n, s, ticket)
           IN  t \in State /\ Good(t) /\ Frame(s, t) /\ t.tag # "Joining"
<1>1. ticket \in AnyTicket
  BY DEF AnyTicket
<1> QED
  BY <1>1, AdvanceRound DEF Good, Frame

-----------------------------------------------------------------------------
(* Timeouts.                                                               *)

LEMMA HighestType ==
    ASSUME NEW s \in State, NEW slot \in Nat, NEW qc \in QC
    PROVE  LET t == update_highest_seen_prepare_qc(s, slot, qc)
           IN  t \in State /\ Quiet(s, t)
<1> DEFINE q == [slot |-> slot, qc |-> qc]
<1>1. q \in HighestQC \cup {None}
  BY DEF HighestQC
<1> HIDE DEF q
<1>2. [s EXCEPT !.hqc = q] \in State /\ Quiet(s, [s EXCEPT !.hqc = q])
  BY <1>1 DEF State, Quiet, Frame
<1>3. Quiet(s, s)
  BY DEF Quiet, Frame
<1> QED
  BY <1>2, <1>3 DEF update_highest_seen_prepare_qc, q

LEMMA AdoptOK ==
    ASSUME NEW s \in State, Good(s), NEW kind \in Kind, kind # NilProposal,
           kind.prop.slot = s.slot
    PROVE  LET t == AdoptPrepareQC(s, s.slot, kind)
           IN  /\ t \in State /\ Good(t) /\ Frame(s, t)
               /\ t.tag = s.tag /\ t.step = s.step
<1> DEFINE u == update_highest_seen_prepare_qc(s, s.slot, kind.qc)
           t == [u EXCEPT !.cp = kind.prop]
<1>1. kind.qc \in QC /\ kind.prop \in Prop /\ s.slot \in Nat
  BY DEF Kind, State
<1>2. u \in State /\ Quiet(s, u)
  BY <1>1, HighestType
<1>3. AdoptPrepareQC(s, s.slot, kind) = IF IsHighest(s, s.slot) THEN t ELSE s
  BY DEF AdoptPrepareQC
<1> HIDE DEF u
<1>4. /\ t \in State /\ Frame(s, t) /\ t.tag = s.tag /\ t.step = s.step
      /\ t.cp.slot = t.slot
  BY <1>1, <1>2 DEF State, Quiet, Frame
<1> QED
  BY <1>3, <1>4 DEF Good, Frame, current_slot_prepare_is_present

LEMMA VerifyTC ==
    ASSUME NEW s \in State, Good(s), NEW kind \in Kind, NEW qc, NEW view,
           TCValid(s, qc, kind, s.slot, view)
    PROVE  LET t == verify_tc(s, kind, s.slot)
           IN  /\ t \in State /\ Good(t) /\ Frame(s, t)
               /\ t.tag = s.tag /\ t.step = s.step
<1>1. CASE kind = NilProposal
  BY <1>1 DEF verify_tc, Frame
<1>2. CASE kind # NilProposal
  <2>1. kind.prop.slot = s.slot
    BY <1>2 DEF TCValid, PrepareQCValid
  <2> QED  BY <1>2, <2>1, AdoptOK DEF verify_tc
<1> QED  BY <1>1, <1>2

LEMMA TimeoutMessage ==
    ASSUME NEW s \in State, NEW n \in Validators
    PROVE  /\ TimeoutKind(s) \in Kind
           /\ get_timeout_message(n, s) \in Message
           /\ get_timeout_message(n, s).kind = TimeoutKind(s)
           /\ get_timeout_message(n, s).slot = s.slot
           /\ get_timeout_message(n, s).src = n
<1>1. TimeoutKind(s) \in Kind
  <2>1. HasPrepareQCForSlot(s) => s.hqc.qc \in QC /\ s.cp \in Prop
    BY DEF State, HighestQC, HasPrepareQCForSlot
  <2> QED  BY <2>1 DEF TimeoutKind, Kind
<1>2. s.slot \in Nat /\ s.view \in Nat /\ s.parent \in Hash
  BY DEF State
<1> QED
  BY <1>1, <1>2 DEF get_timeout_message, Message

\* Updates of single fields.
LEMMA UpdateType ==
    ASSUME NEW s \in State
    PROVE  /\ \A x \in {"Inactive", "Scheduled", "CertificateEmitted"} :
                LET t == [s EXCEPT !.tstate = x] IN t \in State /\ Quiet(s, t)
           /\ \A R \in SUBSET Requests :
                LET t == [s EXCEPT !.reqs = R, !.tstate = "Scheduled"]
                IN  t \in State /\ Quiet(s, t)
           /\ \A x \in {"Joining", "Leader", "Follower"} :
                LET t == [s EXCEPT !.tag = x]
                IN  /\ t \in State /\ Frame(s, t) /\ t.tag = x
                    /\ t.cp = s.cp /\ t.step = s.step
<1>1. ASSUME NEW x \in {"Inactive", "Scheduled", "CertificateEmitted"}
      PROVE  LET t == [s EXCEPT !.tstate = x] IN t \in State /\ Quiet(s, t)
  BY DEF State, Quiet, Frame
<1>2. ASSUME NEW R \in SUBSET Requests
      PROVE  LET t == [s EXCEPT !.reqs = R, !.tstate = "Scheduled"]
             IN  t \in State /\ Quiet(s, t)
  BY DEF State, Quiet, Frame
<1>3. ASSUME NEW x \in {"Joining", "Leader", "Follower"}
      PROVE  LET t == [s EXCEPT !.tag = x]
             IN  /\ t \in State /\ Frame(s, t) /\ t.tag = x
                 /\ t.cp = s.cp /\ t.step = s.step
  BY DEF State, Frame
<1> QED
  BY <1>1, <1>2, <1>3

LEMMA CreateTCOK ==
    ASSUME NEW s \in State, Good(s), NEW n \in Validators
    PROVE  LET t == CreateTC(n, s)
           IN  t \in State /\ Good(t) /\ Frame(s, t)
<1> DEFINE qc == QuorumCertificate("ConsensusTimeout",
                   TimeoutPayload(s.slot, s.view, s.parent),
                   {r.src : r \in s.reqs} \cup {n})
           kind == TimeoutKind(s)
           m == [type |-> "TimeoutCertificate", qc |-> qc, kind |-> kind,
                 slot |-> s.slot, view |-> s.view]
           g == IF s.tag = "Joining" THEN "Leader" ELSE s.tag
           told1 == [s EXCEPT !.tstate = "Scheduled", !.tag = g]
           e == [s EXCEPT !.tstate = "CertificateEmitted"]
           told2 == Broadcast(n, e, m)
           ticket == TimeoutTicket(qc, kind)
<1>1. s.slot \in Nat /\ s.view \in Nat /\ s.parent \in Hash
      /\ s.reqs \in SUBSET Requests
  BY DEF State
<1>2. qc \in QC
  BY <1>1 DEF QC, QuorumCertificate, TimeoutPayload, Payload, Requests
<1>3. kind \in Kind
  BY TimeoutMessage
<1> HIDE DEF qc, kind
<1>4. m \in Message /\ ticket \in Ticket /\ ticket.type = "TimeoutQC"
  BY <1>1, <1>2, <1>3 DEF Message, Ticket, TimeoutTicket
<1>5. told1 \in State /\ Frame(s, told1) /\ told1.tag # "Joining"
  BY DEF State, Frame
<1>6. e \in State /\ Frame(s, e) /\ e.tag = s.tag /\ Good(e)
  BY DEF State, Frame, Good, current_slot_prepare_is_present
<1> HIDE DEF told1, e, m, ticket
<1>7. told2 \in State /\ Frame(s, told2) /\ told2.tag = s.tag /\ Good(told2)
  BY <1>4, <1>6, SendType DEF Quiet, Frame, Good, current_slot_prepare_is_present
<1> HIDE DEF told2
<1>8. CreateTC(n, s) =
        advance_round(n, IF next_view_leader(s) = n THEN told1 ELSE told2, ticket)
  BY DEF CreateTC, told1, told2, e, m, ticket, qc, kind
<1>9. CASE next_view_leader(s) = n
  BY <1>4, <1>5, <1>8, <1>9, ViewChangeOK DEF Frame
<1>10. CASE next_view_leader(s) # n /\ s.tag # "Joining"
  BY <1>4, <1>7, <1>8, <1>10, ViewChangeOK DEF Frame
<1>11. CASE next_view_leader(s) # n /\ s.tag = "Joining"
  BY <1>7, <1>8, <1>11 DEF advance_round
<1> QED
  BY <1>9, <1>10, <1>11

LEMMA JoinMutinyOK ==
    ASSUME NEW s \in State, NEW n \in Validators
    PROVE  LET t == JoinMutiny(n, s)
           IN  t \in State /\ Quiet(s, t)
<1> DEFINE own == get_timeout_message(n, s)
           b == Broadcast(n, s, own)
           R == b.reqs \cup {[src |-> n, kind |-> own.kind]}
           t == [b EXCEPT !.reqs = R, !.tstate = "Scheduled"]
<1>1. own \in Message /\ own.kind \in Kind
  BY TimeoutMessage
<1>2. b \in State /\ Quiet(s, b)
  BY <1>1, SendType
<1>3. JoinMutiny(n, s) = t \/ JoinMutiny(n, s) = s
  BY DEF JoinMutiny
<1> HIDE DEF own, b
<1>4. R \in SUBSET Requests
  BY <1>1, <1>2 DEF State, Requests
<1> HIDE DEF R
<1>5. t \in State /\ Quiet(b, t)
  <2>1. b \in State
    BY <1>2
  <2> QED  BY <2>1, <1>4, UpdateType
<1> HIDE DEF t
<1> QED
  BY <1>2, <1>3, <1>5 DEF Quiet, Frame

LEMMA RegisteredOK ==
    ASSUME NEW s \in State, Good(s), NEW n \in Validators,
           NEW m, m.src \in Validators, m.kind \in Kind, m.slot = s.slot,
           ~MalformedTimeout(m)
    PROVE  LET t == Registered(n, s, m)
           IN  t \in State /\ Good(t) /\ Frame(s, t) /\ t.tag = s.tag
<1> DEFINE adopted == IF m.kind = NilProposal THEN s
                      ELSE AdoptPrepareQC(s, m.slot, m.kind)
           R == adopted.reqs \cup {Request(m)}
           u == [adopted EXCEPT !.reqs = R]
<1>1. adopted \in State /\ Good(adopted) /\ Frame(s, adopted) /\ adopted.tag = s.tag
  <2>1. m.kind # NilProposal => m.kind.prop.slot = s.slot
    BY DEF MalformedTimeout, PrepareQCValid
  <2> QED  BY <2>1, AdoptOK DEF Frame
<1>2. Registered(n, s, m) =
        IF Request(m) \in s.reqs THEN adopted ELSE JoinMutiny(n, u)
  BY DEF Registered
<1> HIDE DEF adopted
<1>3. R \in SUBSET Requests
  BY <1>1 DEF State, Requests, Request
<1> HIDE DEF R
<1>4. u \in State /\ Quiet(adopted, u)
  BY <1>1, <1>3 DEF State, Quiet, Frame
<1> HIDE DEF u
<1>5. JoinMutiny(n, u) \in State /\ Quiet(u, JoinMutiny(n, u))
  BY <1>4, JoinMutinyOK
<1> QED
  BY <1>1, <1>2, <1>4, <1>5
     DEF Quiet, Frame, Good, current_slot_prepare_is_present

LEMMA OnTimeoutOK ==
    ASSUME NEW s \in State, Good(s), NEW n \in Validators,
           NEW m, m.src \in Validators, m.kind \in Kind
    PROVE  LET t == on_timeout(n, s, m)
           IN  t \in State /\ Good(t) /\ Frame(s, t)
<1> DEFINE r == Registered(n, s, m)
<1>1. CASE m.slot # s.slot \/ MalformedTimeout(m)
  BY <1>1 DEF on_timeout, Frame
<1>2. CASE m.slot = s.slot /\ ~MalformedTimeout(m)
  <2>1. r \in State /\ Good(r) /\ Frame(s, r)
    BY <1>2, RegisteredOK
  <2>2. LET t == CreateTC(n, r)
        IN  t \in State /\ Good(t) /\ Frame(r, t)
    BY <2>1, CreateTCOK
  <2>3. on_timeout(n, s, m) \in {s, r, CreateTC(n, r)}
    BY DEF on_timeout
  <2> HIDE DEF r
  <2> QED  BY <2>1, <2>2, <2>3 DEF Frame
<1> QED  BY <1>1, <1>2

LEMMA FrameOK ==
    ASSUME NEW s \in State, NEW t \in State, Good(t), Frame(s, t)
    PROVE  HandlerOK(s, t)
BY DEF Frame, HandlerOK, Moves, CommitStep, GapFree

LEMMA OnTimeoutTickOK ==
    ASSUME NEW s \in State, Good(s), NEW n \in Validators
    PROVE  HandlerOK(s, on_timeout_tick(n, s))
<1> DEFINE own == get_timeout_message(n, s)
           r == on_timeout(n, s, own)
           q == [r EXCEPT !.tstate = "Scheduled"]
           t == Broadcast(n, q, own)
<1>1. own \in Message /\ own.kind \in Kind /\ own.src \in Validators
  BY TimeoutMessage
<1>2. r \in State /\ Good(r) /\ Frame(s, r)
  BY <1>1, OnTimeoutOK
<1>3. on_timeout_tick(n, s) \in {r, t}
  BY DEF on_timeout_tick
<1> HIDE DEF r, own
<1>4. q \in State /\ Quiet(r, q)
  <2>1. r \in State
    BY <1>2
  <2> QED  BY <2>1, UpdateType
<1> HIDE DEF q
<1>5. t \in State /\ Quiet(q, t)
  BY <1>1, <1>4, SendType
<1> HIDE DEF t
<1>6. Good(t) /\ Frame(s, t)
  BY <1>2, <1>4, <1>5 DEF Quiet, Frame, Good, current_slot_prepare_is_present
<1> QED
  BY <1>2, <1>3, <1>5, <1>6, FrameOK

LEMMA OnTimeoutCertificateOK ==
    ASSUME NEW s \in State, Good(s), NEW n \in Validators,
           NEW m, m.qc \in QC, m.kind \in Kind
    PROVE  HandlerOK(s, on_timeout_certificate(n, s, m))
<1> DEFINE t == verify_tc(s, m.kind, m.slot)
           g == IF next_view_leader(s) # n /\ t.tag = "Joining" THEN "Leader"
                ELSE t.tag
           u == [t EXCEPT !.tag = g]
           ticket == TimeoutTicket(m.qc, m.kind)
           r == advance_round(n, u, ticket)
<1>1. CASE /\ m.slot = s.slot /\ m.view = s.view
           /\ TCValid(s, m.qc, m.kind, m.slot, m.view)
  <2>1. t \in State /\ Good(t) /\ Frame(s, t) /\ t.step = s.step /\ t.tag = s.tag
    BY <1>1, VerifyTC
  <2>2. on_timeout_certificate(n, s, m) = r
    BY <1>1 DEF on_timeout_certificate
  <2>3. ticket \in Ticket /\ ticket.type = "TimeoutQC"
    BY DEF Ticket, TimeoutTicket
  <2> HIDE DEF t, ticket
  <2>4. u \in State /\ Frame(t, u) /\ (u.tag = "Joining" => Good(u))
    <3>1. t \in State
      BY <2>1
    <3>2. g \in {"Joining", "Leader", "Follower"}
      BY <3>1 DEF State
    <3> HIDE DEF g
    <3> QED  BY <3>1, <3>2, UpdateType DEF Good
  <2> HIDE DEF u
  <2>5. CASE u.tag = "Joining"
    BY <2>1, <2>2, <2>4, <2>5, FrameOK DEF advance_round, Frame
  <2>6. CASE u.tag # "Joining"
    BY <2>1, <2>2, <2>3, <2>4, <2>6, ViewChangeOK, FrameOK DEF Frame
  <2> QED  BY <2>5, <2>6
<1>2. CASE ~(/\ m.slot = s.slot /\ m.view = s.view
             /\ TCValid(s, m.qc, m.kind, m.slot, m.view))
  BY <1>2, FrameOK DEF on_timeout_certificate, Frame
<1> QED  BY <1>1, <1>2

-----------------------------------------------------------------------------
(* The leader's handlers.                                                  *)

LEMMA ProposeOK ==
    ASSUME NEW s \in State, NEW n \in Validators, NEW prop \in Prop,
           NEW ticket \in Ticket, prop.slot = s.slot
    PROVE  HandlerOK(s, Propose(n, s, prop, ticket))
<1> DEFINE q == [s EXCEPT !.cp = prop, !.step = "PrepareVote", !.ticket = None]
           p == [src |-> n, prop |-> prop, ticket |-> ticket, view |-> s.view]
           m == [type |-> "Prepare", src |-> n, prop |-> prop,
                 ticket |-> ticket, view |-> s.view]
<1>1. q \in State /\ Frame(s, q) /\ q.cp = prop
  BY DEF State, Frame
<1>2. p \in Prepare /\ m \in Message
  BY DEF State, Prepare, Message
<1>3. Propose(n, s, prop, ticket) = Broadcast(n, push(q, p), m)
  BY DEF Propose
<1> HIDE DEF q, p, m
<1>4. push(q, p) \in State /\ Quiet(q, push(q, p))
  BY <1>1, <1>2, PushType
<1>5. LET t == Broadcast(n, push(q, p), m)
      IN  t \in State /\ Quiet(push(q, p), t)
  BY <1>2, <1>4, SendType
<1>6. LET t == Broadcast(n, push(q, p), m)
      IN  Frame(s, t) /\ Good(t)
  BY <1>1, <1>4, <1>5 DEF Quiet, Frame, Good, current_slot_prepare_is_present
<1> QED
  BY <1>3, <1>5, <1>6, FrameOK

LEMMA StartRoundOK ==
    ASSUME NEW s \in State, Good(s), NEW n \in Validators, NEW may_delay,
           NEW delay, NEW fees \in BOOLEAN
    PROVE  HandlerOK(s, start_round(n, s, may_delay, delay, fees))
<1> DEFINE now == Moment(s)
           new == [slot |-> s.slot, born |-> now, fees |-> fees,
                   parent |-> s.parent]
           C == s.cmds \cup {FALSE}
           d == [s EXCEPT !.cmds = C]
<1>1. new \in Prop /\ new.slot = s.slot /\ s.cp \in Prop
      /\ (s.ticket # None => s.ticket \in Ticket)
  <2>1. s.view \in Int /\ s.life \in Int /\ MaxView + 1 \in Int
    BY BoundsAssumption DEF State
  <2>2. now \in Int
    BY <2>1 DEF Moment
  <2> HIDE DEF now
  <2> QED  BY <2>2 DEF State, Prop
<1>2. HandlerOK(s, s)
  BY FrameOK DEF Frame
<1>3. HandlerOK(s, d)
  <2>1. C \in SUBSET BOOLEAN
    BY DEF State
  <2> HIDE DEF C
  <2>2. d \in State /\ Quiet(s, d)
    BY <2>1 DEF State, Quiet, Frame
  <2> QED  BY <2>2, QuietOK
<1>4. s.ticket # None => HandlerOK(s, Propose(n, s, new, s.ticket))
  BY <1>1, ProposeOK
<1>5. s.ticket # None /\ current_slot_prepare_is_present(s)
        => HandlerOK(s, Propose(n, s, s.cp, s.ticket))
  BY <1>1, ProposeOK DEF current_slot_prepare_is_present
<1> QED
  BY <1>2, <1>3, <1>4, <1>5 DEF start_round

LEMMA SignersType ==
    ASSUME NEW V \in SUBSET Vote, NEW n \in Validators, NEW hash \in Hash,
           NEW marker \in {"PrepareVote", "ConfirmAck"}
    PROVE  QuorumCertificate(marker, hash, {v.src : v \in V} \cup {n}) \in QC
BY DEF Vote, QC, QuorumCertificate

LEMMA OnPrepareVoteOK ==
    ASSUME NEW s \in State, Good(s), NEW n \in Validators,
           NEW m, m.src \in Validators, m.hash \in Hash
    PROVE  HandlerOK(s, on_prepare_vote(n, s, m))
<1> DEFINE V == s.votes \cup {[src |-> m.src, hash |-> m.hash]}
           t == [s EXCEPT !.votes = V]
           u == [t EXCEPT !.step = "ConfirmAck"]
           c == [type |-> "Confirm", hash |-> m.hash,
                 qc |-> QuorumCertificate("PrepareVote", m.hash,
                          {v.src : v \in V} \cup {n})]
<1>1. V \in SUBSET Vote
  BY DEF State, Vote
<1>2. c \in Message
  BY <1>1, SignersType DEF Message
<1> HIDE DEF V, c
<1>3. t \in State /\ Quiet(s, t) /\ t.votes = V
  BY <1>1 DEF State, Quiet, Frame
<1>4. u \in State /\ Frame(s, u) /\ u.cp = s.cp /\ u.tag = s.tag
  BY <1>1 DEF State, Frame
<1>5. HandlerOK(s, t)
  BY <1>3, QuietOK
<1>6. on_prepare_vote(n, s, m) = s \/ on_prepare_vote(n, s, m) = t
      \/ /\ s.tag = "Leader" /\ s.step = "PrepareVote"
         /\ on_prepare_vote(n, s, m) = Broadcast(n, u, c)
  BY <1>3 DEF on_prepare_vote, V, c
<1> HIDE DEF t, u
<1>7. ASSUME s.tag = "Leader", s.step = "PrepareVote"
      PROVE  HandlerOK(s, Broadcast(n, u, c))
  <2>1. Broadcast(n, u, c) \in State /\ Quiet(u, Broadcast(n, u, c))
    BY <1>2, <1>4, SendType
  <2> QED
    BY <1>4, <1>7, <2>1, FrameOK
       DEF Quiet, Frame, Good, current_slot_prepare_is_present
<1>8. HandlerOK(s, s)
  BY FrameOK DEF Frame
<1> QED
  BY <1>5, <1>6, <1>7, <1>8

LEMMA OnConfirmAckOK ==
    ASSUME NEW s \in State, Good(s), NEW n \in Validators,
           NEW m, m.src \in Validators, m.hash \in Hash
    PROVE  HandlerOK(s, on_confirm_ack(n, s, m))
<1> DEFINE V == s.acks \cup {[src |-> m.src, hash |-> m.hash]}
           t == [s EXCEPT !.acks = V]
           qc == QuorumCertificate("ConfirmAck", m.hash,
                   {v.src : v \in V} \cup {n})
           c == [type |-> "Commit", hash |-> m.hash, qc |-> qc]
           u == Broadcast(n, t, c)
<1>1. V \in SUBSET Vote
  BY DEF State, Vote
<1>2. qc \in QC /\ c \in Message
  BY <1>1, SignersType DEF Message
<1> HIDE DEF V
<1>3. t \in State /\ Quiet(s, t) /\ t.acks = V
  BY <1>1 DEF State, Quiet, Frame
<1>4. on_confirm_ack(n, s, m) = s \/ on_confirm_ack(n, s, m) = t
      \/ /\ s.tag = "Leader" /\ s.step = "ConfirmAck"
         /\ on_confirm_ack(n, s, m) = CommitAndAdvance(n, u, qc)
  BY <1>3 DEF on_confirm_ack, V
<1> HIDE DEF t, qc, c
<1>5. u \in State /\ Quiet(t, u)
  BY <1>2, <1>3, SendType
<1> HIDE DEF u
<1>6. ASSUME s.tag = "Leader", s.step = "ConfirmAck"
      PROVE  HandlerOK(s, CommitAndAdvance(n, u, qc))
  <2>1. Frame(s, u) /\ u.tag = s.tag /\ current_slot_prepare_is_present(u)
    BY <1>3, <1>5, <1>6
       DEF Quiet, Frame, Good, current_slot_prepare_is_present
  <2>2. HandlerOK(u, CommitAndAdvance(n, u, qc))
    BY <1>2, <1>5, <1>6, <2>1, CommitAndAdvanceOK
  <2> QED
    BY <2>1, <2>2, FrameLeft DEF HandlerOK
<1>7. HandlerOK(s, s) /\ HandlerOK(s, t)
  BY <1>3, QuietOK DEF Quiet, Frame
<1> QED
  BY <1>4, <1>6, <1>7

-----------------------------------------------------------------------------
(* The follower's handlers.                                                *)

LEMMA CommitTicketOK ==
    ASSUME NEW s \in State, Good(s), s.tag # "Joining", NEW n \in Validators,
           NEW p \in Prepare, p.ticket.type = "CommitQC"
    PROVE  LET t == verify_and_process_commit_ticket(n, s, p).state
           IN  HandlerOK(s, t) /\ t.tag # "Joining"
<1> DEFINE r == verify_and_process_commit_ticket(n, s, p)
           c == CommitAndAdvance(n, s, p.ticket.qc)
<1>1. r.state = s \/ (r.state = c /\ current_slot_prepare_is_present(s))
  <2>1. \/ r = NotProcessed(s) \/ r = Processed(s) \/ r = Failed(s)
        \/ r = Processed(c) /\ current_slot_prepare_is_present(s)
    <3> HIDE DEF c
    <3>1. CASE ~TicketApplies(s, p) \/ p.ticket.qc = s.bqc
      BY <3>1, Zenon DEF verify_and_process_commit_ticket
    <3>2. CASE ~(~TicketApplies(s, p) \/ p.ticket.qc = s.bqc)
      BY <3>2, Zenon DEF verify_and_process_commit_ticket, c
    <3> QED  BY <3>1, <3>2
  <2> HIDE DEF r, c
  <2> QED  BY <2>1 DEF NotProcessed, Processed, Failed
<1>2. p.ticket.qc \in QC
  BY DEF Prepare, Ticket, GenesisTicket
<1>3. current_slot_prepare_is_present(s) => HandlerOK(s, c) /\ c.tag # "Joining"
  BY <1>2, CommitAndAdvanceOK
<1>4. HandlerOK(s, s)
  BY FrameOK DEF Frame
<1> QED
  BY <1>1, <1>3, <1>4

LEMMA ForceCommitOK ==
    ASSUME NEW s \in State, Good(s), s.tag # "Joining", NEW n \in Validators,
           NEW p
    PROVE  LET t == ForceCommit(n, s, p)
           IN  HandlerOK(s, t) /\ t.tag # "Joining"
<1>1. EmptyQC \in QC
  BY DEF EmptyQC, QuorumCertificate, QC, NoHash, Hash
<1>2. ForcedTicket \in AnyTicket /\ ForcedTicket.type # "TimeoutQC"
  BY DEF ForcedTicket, AnyTicket
<1>3. HandlerOK(s, s)
  BY FrameOK DEF Frame
<1> QED
  BY <1>1, <1>2, <1>3, CommitOK DEF ForceCommit, IsNextSlotAndPresent

LEMMA TimeoutTicketOK ==
    ASSUME NEW s \in State, Good(s), s.tag # "Joining", NEW n \in Validators,
           NEW p \in Prepare, p.ticket.type = "TimeoutQC"
    PROVE  LET t == verify_and_process_tc_ticket(n, s, p).state
           IN  HandlerOK(s, t) /\ t.tag # "Joining"
<1> DEFINE r == verify_and_process_tc_ticket(n, s, p)
           kind == p.ticket.kind
           t == ForceCommit(n, s, p)
           u == verify_tc(t, kind, t.slot)
           w == advance_round(n, u, p.ticket)
<1>1. p.ticket \in Ticket /\ kind \in Kind
  BY DEF Prepare, Ticket, GenesisTicket
<1>2. HandlerOK(s, t) /\ t.tag # "Joining"
  BY ForceCommitOK
<1>3. \/ r.state = s \/ r.state = t
      \/ /\ r.state = u \/ r.state = w
         /\ TCValid(t, p.ticket.qc, kind, t.slot, p.view - 1)
  BY DEF verify_and_process_tc_ticket, Processed, NotProcessed, Failed
<1> HIDE DEF t, kind
<1>4. ASSUME TCValid(t, p.ticket.qc, kind, t.slot, p.view - 1)
      PROVE  /\ HandlerOK(s, u) /\ u.tag # "Joining"
             /\ HandlerOK(s, w) /\ w.tag # "Joining"
  <2>1. u \in State /\ Good(u) /\ Frame(t, u) /\ u.tag # "Joining"
    BY <1>1, <1>2, <1>4, VerifyTC DEF HandlerOK
  <2> HIDE DEF u
  <2>2. w \in State /\ Good(w) /\ Frame(u, w) /\ w.tag # "Joining"
    BY <1>1, <2>1, ViewChangeOK
  <2> HIDE DEF w
  <2>3. Frame(t, w)
    BY <2>1, <2>2 DEF Frame
  <2> QED
    BY <1>2, <2>1, <2>2, <2>3, FrameRight DEF HandlerOK
<1>5. HandlerOK(s, s)
  BY FrameOK DEF Frame
<1> HIDE DEF u, w
<1> QED
  BY <1>2, <1>3, <1>4, <1>5

LEMMA ProcessTicketOK ==
    ASSUME NEW s \in State, Good(s), s.tag # "Joining", NEW n \in Validators,
           NEW p \in Prepare
    PROVE  LET t == process_ticket(n, s, p).state
           IN  HandlerOK(s, t) /\ t.tag # "Joining"
<1>1. p.ticket.type \in {"Genesis", "CommitQC", "TimeoutQC"}
  BY DEF Prepare, Ticket, GenesisTicket
<1>2. CASE p.ticket.type = "Genesis"
  BY <1>2, FrameOK DEF process_ticket, Processed, Failed, Frame
<1>3. CASE p.ticket.type = "CommitQC"
  BY <1>3, CommitTicketOK DEF process_ticket
<1>4. CASE p.ticket.type = "TimeoutQC"
  BY <1>4, TimeoutTicketOK DEF process_ticket
<1> QED
  BY <1>1, <1>2, <1>3, <1>4

LEMMA BufferType ==
    ASSUME NEW s \in State, NEW n \in Validators, NEW p \in Prepare
    PROVE  LET t == buffer_prepare_message_and_fetch_missing_parent(n, s, p)
           IN  t \in State /\ Quiet(s, t)
<1> DEFINE t == IF contains(s, hashed(p.prop)) THEN s ELSE push(s, p)
           missing == {h \in Ancestors(t, p.prop) : ~contains(t, h)}
           m == [type |-> "SyncRequest", src |-> n,
                 hash |-> CHOOSE h \in missing : TRUE]
<1>1. t \in State /\ Quiet(s, t)
  BY PushType DEF Quiet, Frame
<1>2. buffer_prepare_message_and_fetch_missing_parent(n, s, p) =
        IF missing = {} THEN t ELSE Broadcast(n, t, m)
  BY DEF buffer_prepare_message_and_fetch_missing_parent
<1> HIDE DEF t
<1>3. Ancestors(t, p.prop) \subseteq Hash
  <2>1. t.prepares \in SUBSET Prepare
    BY <1>1 DEF State
  <2> QED  BY <2>1 DEF Ancestors, Prepare, Prop
<1>4. missing # {} => m \in Message
  <2>1. missing \subseteq Hash
    BY <1>3
  <2> HIDE DEF missing
  <2>2. missing # {} => (CHOOSE h \in missing : TRUE) \in Hash
    BY <2>1
  <2> QED  BY <2>2 DEF Message
<1> HIDE DEF m, missing
<1>5. missing # {} => LET b == Broadcast(n, t, m)
                      IN  b \in State /\ Quiet(t, b)
  BY <1>1, <1>4, SendType
<1> QED
  BY <1>1, <1>2, <1>5 DEF Quiet, Frame

LEMMA AcceptProposalOK ==
    ASSUME NEW s \in State, NEW n \in Validators, NEW p \in Prepare,
           p.prop.slot = s.slot
    PROVE  LET t == AcceptProposal(n, s, p)
           IN  t \in State /\ Good(t) /\ Frame(s, t)
<1> DEFINE q == [s EXCEPT !.cp = p.prop]
           t == push(q, p)
           next == Children(t, hashed(p.prop))
           x == CHOOSE child \in next : TRUE
           u == [t EXCEPT !.next = x]
           m == [type |-> "PrepareVote", src |-> n, hash |-> hashed(p.prop)]
           v == Send(n, t, {round_leader(s.slot, s.view)}, m)
<1>1. p.prop \in Prop
  BY DEF Prepare
<1>2. q \in State /\ Frame(s, q) /\ q.cp = p.prop
  BY <1>1 DEF State, Frame
<1>3. m \in Message /\ round_leader(s.slot, s.view) \in Validators
  BY <1>1, HashType, LeaderType DEF Message, State
<1>4. AcceptProposal(n, s, p) = IF next # {} THEN u ELSE v
  BY DEF AcceptProposal
<1> HIDE DEF q, m
<1>5. t \in State /\ Quiet(q, t)
  BY <1>2, PushType
<1>6. next # {} => x \in Prepare
  <2>1. next \subseteq Prepare
    BY <1>5 DEF Children, State
  <2> HIDE DEF next
  <2> QED  BY <2>1
<1> HIDE DEF x, next, t
<1>7. x \in Prepare => u \in State /\ Quiet(t, u)
  BY <1>5 DEF State, Quiet, Frame
<1>8. v \in State /\ Quiet(t, v)
  BY <1>3, <1>5, SendType
<1> HIDE DEF u, v
<1> QED
  BY <1>2, <1>4, <1>5, <1>6, <1>7, <1>8
     DEF Quiet, Frame, Good, current_slot_prepare_is_present

LEMMA OnPrepareOK ==
    ASSUME NEW s0 \in State, Good(s0), NEW n \in Validators,
           NEW p \in Prepare, NEW valid
    PROVE  HandlerOK(s0, on_prepare(n, s0, p, valid))
<1> DEFINE g == IF s0.tag = "Joining" /\ ExpectedWhileJoining(s0, p)
                THEN "Follower" ELSE s0.tag
           s == [s0 EXCEPT !.next = None, !.tag = g]
           r == process_ticket(n, s, p)
           t == r.state
           b == buffer_prepare_message_and_fetch_missing_parent(n, t, p)
           a == AcceptProposal(n, t, p)
<1>1. g \in {"Joining", "Leader", "Follower"}
      /\ (g = "Joining" => s0.tag = "Joining") /\ (g = "Leader" => s0.tag = "Leader")
  BY DEF State
<1> HIDE DEF g
<1>2. /\ s \in State /\ Frame(s0, s) /\ s.tag = g
      /\ s.cp = s0.cp /\ s.step = s0.step
  BY <1>1 DEF State, Frame
<1>3. Good(s)
  BY <1>1, <1>2 DEF Good, Frame, current_slot_prepare_is_present
<1>4. on_prepare(n, s0, p, valid) =
        IF s.tag = "Joining" THEN push(s, p)
        ELSE IF p.prop.slot < s.slot THEN s
        ELSE IF r.result = "Err" THEN t
        ELSE IF r.result = "NotProcessed" THEN b
        ELSE IF /\ p.prop.slot = t.slot /\ p.view = t.view
                /\ p.src = round_leader(t.slot, t.view) /\ valid
        THEN a ELSE t
  BY DEF on_prepare, g
<1> HIDE DEF s
<1>5. HandlerOK(s, s)
  BY <1>2, <1>3, FrameOK DEF Frame
<1>6. CASE s.tag = "Joining"
  <2>1. HandlerOK(s, push(s, p))
    BY <1>2, <1>3, PushType, QuietOK
  <2> QED
    BY <1>1, <1>2, <1>4, <1>6, <2>1, FrameLeft DEF HandlerOK
<1>7. CASE s.tag # "Joining"
  <2>1. HandlerOK(s, t)
    BY <1>2, <1>3, <1>7, ProcessTicketOK
  <2> HIDE DEF r, t
  <2>2. HandlerOK(s, b)
    <3>1. t \in State /\ Good(t) /\ Moves(s, t)
      BY <2>1 DEF HandlerOK
    <3>2. b \in State /\ Quiet(t, b)
      BY <3>1, BufferType
    <3> HIDE DEF b
    <3>3. Good(b) /\ Frame(t, b)
      BY <3>1, <3>2 DEF Quiet, Frame, Good, current_slot_prepare_is_present
    <3> QED  BY <3>1, <3>2, <3>3, FrameRight DEF HandlerOK
  <2>3. p.prop.slot = t.slot => HandlerOK(s, a)
    <3>1. t \in State /\ Moves(s, t)
      BY <2>1 DEF HandlerOK
    <3> QED  BY <3>1, AcceptProposalOK, FrameRight DEF HandlerOK
  <2> HIDE DEF a, b
  <2>4. HandlerOK(s, on_prepare(n, s0, p, valid))
    BY <1>4, <1>5, <1>7, <2>1, <2>2, <2>3
  <2> QED
    BY <1>1, <1>2, <2>4, FrameLeft DEF HandlerOK
<1> QED
  BY <1>6, <1>7

LEMMA OnConfirmOK ==
    ASSUME NEW s \in State, Good(s), NEW n \in Validators,
           NEW m, m.hash \in Hash, m.qc \in QC
    PROVE  HandlerOK(s, on_confirm(n, s, m))
<1> DEFINE u == update_highest_seen_prepare_qc(s, s.slot, m.qc)
           a == [type |-> "ConfirmAck", src |-> n, hash |-> m.hash]
           t == Send(n, u, {round_leader(s.slot, s.view)}, a)
<1>1. s.slot \in Nat /\ s.view \in Nat /\ a \in Message
  BY DEF State, Message
<1>2. u \in State /\ Quiet(s, u)
  BY <1>1, HighestType
<1>3. on_confirm(n, s, m) \in {s, t}
  BY DEF on_confirm
<1> HIDE DEF u, a
<1>4. t \in State /\ Quiet(u, t)
  BY <1>1, <1>2, SendType, LeaderType
<1> HIDE DEF t
<1>5. Quiet(s, t) /\ Quiet(s, s)
  BY <1>2, <1>4 DEF Quiet, Frame
<1> QED
  BY <1>3, <1>4, <1>5, QuietOK

LEMMA GetType ==
    ASSUME NEW s \in State, NEW h, contains(s, h)
    PROVE  get(s, h) \in Prepare /\ hashed(get(s, h).prop) = h
<1>1. Buffered(s, h) # {} /\ Buffered(s, h) \subseteq Prepare
      /\ \A p \in Buffered(s, h) : hashed(p.prop) = h
  BY DEF contains, Buffered, State
<1> QED
  BY <1>1 DEF get

LEMMA OnCommitWhileJoiningOK ==
    ASSUME NEW s \in State, s.tag = "Joining", NEW n \in Validators,
           NEW m, m.qc \in QC
    PROVE  HandlerOK(s, on_commit_while_joining(n, s, m))
<1> DEFINE p == get(s, m.hash).prop
           t == [s EXCEPT !.cp = p]
           u == [t EXCEPT !.slot = p.slot, !.view = 0, !.tag = "Follower"]
           w == CommitAndAdvance(n, u, m.qc)
<1>1. HandlerOK(s, s)
  BY FrameOK DEF Frame, Good
<1>2. CASE ~contains(s, m.hash)
  BY <1>1, <1>2 DEF on_commit_while_joining
<1>3. CASE contains(s, m.hash)
  <2>1. p \in Prop
    BY <1>3, GetType DEF Prepare
  <2>2. \/ on_commit_while_joining(n, s, m) \in {s, t}
        \/ /\ on_commit_while_joining(n, s, m) = w
           /\ ~(s.synced + 1 < p.slot)
    BY DEF on_commit_while_joining
  <2> HIDE DEF p
  <2>3. t \in State /\ Frame(s, t) /\ t.tag = "Joining"
    BY <2>1 DEF State, Frame
  <2>4. p.slot \in Nat
    BY <2>1 DEF Prop
  <2>5. /\ u \in State /\ u.tag = "Follower" /\ u.commits = s.commits
        /\ u.cp = p /\ u.slot = p.slot
        /\ u.applied = s.applied /\ u.synced = s.synced
    BY <2>1, <2>4 DEF State
  <2> HIDE DEF u
  <2>6. HandlerOK(s, t)
    BY <2>3, FrameOK DEF Good
  <2>7. HandlerOK(u, w)
    BY <2>5, CommitAndAdvanceOK DEF current_slot_prepare_is_present
  <2>8. ASSUME ~(s.synced + 1 < p.slot)
        PROVE  HandlerOK(s, w)
    <3>1. s.synced \in Nat /\ s.applied \in Nat
      BY DEF State
    <3>2. GapFree(s) => GapFree(u)
      BY <2>4, <2>5, <2>8, <3>1 DEF GapFree
    <3>3. w \in State /\ Good(w) /\ CommitStep(u, w) /\ (GapFree(u) => GapFree(w))
      BY <2>7 DEF HandlerOK, Moves
    <3> HIDE DEF w
    <3>4. CommitStep(s, w)
      BY <2>5, <3>3 DEF CommitStep
    <3> QED  BY <3>2, <3>3, <3>4 DEF HandlerOK, Moves
  <2> QED
    BY <1>1, <2>2, <2>6, <2>8
<1> QED
  BY <1>2, <1>3

LEMMA OnCommitOK ==
    ASSUME NEW s \in State, Good(s), NEW n \in Validators, NEW m, m.qc \in QC
    PROVE  HandlerOK(s, on_commit(n, s, m))
<1>1. HandlerOK(s, s)
  BY FrameOK DEF Frame
<1>2. CASE s.tag = "Joining"
  BY <1>2, OnCommitWhileJoiningOK DEF on_commit
<1>3. CASE s.tag # "Joining"
  BY <1>1, <1>3, CommitAndAdvanceOK DEF on_commit
<1> QED
  BY <1>2, <1>3

LEMMA OnSyncRequestOK ==
    ASSUME NEW s \in State, Good(s), NEW n \in Validators,
           NEW m, m.src \in Validators
    PROVE  HandlerOK(s, on_sync_request(n, s, m))
<1> DEFINE r == [type |-> "SyncReply", prepare |-> get(s, m.hash)]
<1>1. HandlerOK(s, s)
  BY FrameOK DEF Frame
<1>2. contains(s, m.hash) => r \in Message
  BY GetType DEF Message
<1>3. contains(s, m.hash) => HandlerOK(s, Send(n, s, {m.src}, r))
  BY <1>2, SendType, QuietOK
<1> QED
  BY <1>1, <1>3 DEF on_sync_request

LEMMA NodeStateEventOK ==
    ASSUME NEW s \in State, Good(s), NEW block \in Prop,
           block.slot = s.applied + 1
    PROVE  HandlerOK(s, handle_node_state_event(s, block))
<1> DEFINE x == block.slot
           y == x + 1
           h == hashed(block)
           d == DefaultProposal(x)
           t == [s EXCEPT !.applied = x]
           u == [t EXCEPT !.synced = x, !.slot = y, !.view = 0, !.parent = h,
                          !.cp = d, !.reqs = {}]
<1>1. x \in Nat /\ y \in Nat /\ h \in Hash /\ d \in Prop
  BY HashType DEF Prop, DefaultProposal, NoHash, Hash
<1>2. \/ handle_node_state_event(s, block) = t
      \/ s.tag = "Joining" /\ handle_node_state_event(s, block) = u
  BY DEF handle_node_state_event
<1> HIDE DEF x, y, h, d
<1>3. /\ t \in State /\ t.commits = s.commits /\ t.slot = s.slot /\ t.tag = s.tag
      /\ t.cp = s.cp /\ t.step = s.step /\ t.applied = x /\ t.synced = s.synced
  BY <1>1 DEF State
<1>4. /\ u \in State /\ u.tag = t.tag /\ u.commits = t.commits
      /\ u.slot = y /\ u.applied = t.applied /\ u.synced = x
  <2>1. t \in State
    BY <1>3
  <2> HIDE DEF t
  <2>2. u \in State
    BY <1>1, <2>1 DEF State
  <2>3. u.tag = t.tag /\ u.commits = t.commits /\ u.applied = t.applied
    BY <2>1 DEF State
  <2>4. u.slot = y /\ u.synced = x
    BY <2>1 DEF State
  <2> HIDE DEF u
  <2> QED  BY <2>2, <2>3, <2>4
<1> HIDE DEF t, u
<1>7. s.applied \in Nat /\ s.slot \in Nat /\ x = s.applied + 1 /\ y = x + 1
      /\ s.synced \in Nat
  BY DEF State, x, y
<1>8. GapFree(s) => GapFree(t) /\ GapFree(u)
  BY <1>3, <1>4, <1>7 DEF GapFree
<1>5. HandlerOK(s, t)
  BY <1>3, <1>8 DEF HandlerOK, Moves, Good, CommitStep, current_slot_prepare_is_present
<1>6. s.tag = "Joining" => HandlerOK(s, u)
  BY <1>3, <1>4, <1>8 DEF HandlerOK, Moves, Good, CommitStep
<1> QED
  BY <1>2, <1>5, <1>6

LEMMA RestartOK ==
    ASSUME NEW s \in State, NEW height \in Nat, s.applied <= height
    PROVE  HandlerOK(s, wait_genesis(s, height))
<1> DEFINE k == s.life + 1
           t == [s EXCEPT !.tag = "Joining", !.tstate = "Scheduled", !.cmds = {},
                          !.applied = height, !.life = k]
<1>0. k \in Nat /\ t = wait_genesis(s, height)
  BY DEF wait_genesis, State
<1> HIDE DEF k
<1>1. /\ t \in State /\ t.tag = "Joining" /\ t.commits = s.commits /\ t.slot = s.slot
      /\ t.applied = height /\ t.synced = s.synced
  BY <1>0 DEF State
<1> HIDE DEF t
<1>3. s.applied \in Nat /\ s.synced \in Nat /\ s.slot \in Nat
  BY DEF State
<1>4. GapFree(s) => GapFree(t)
  BY <1>1, <1>3 DEF GapFree
<1>2. HandlerOK(s, t)
  BY <1>1, <1>4 DEF HandlerOK, Moves, Good, CommitStep
<1> QED
  BY <1>0, <1>2

LEMMA HandleNetMessageOK ==
    ASSUME NEW s \in State, Good(s), NEW n \in Validators,
           NEW m \in Message, NEW valid
    PROVE  HandlerOK(s, handle_net_message(n, s, m, valid))
<1> DEFINE h == handle_net_message(n, s, m, valid)
<1>1. CASE m.type = "Prepare"
  <2> DEFINE p == [src |-> m.src, prop |-> m.prop, ticket |-> m.ticket,
                   view |-> m.view]
  <2>1. p \in Prepare
    BY <1>1 DEF Message, Prepare
  <2>2. h = on_prepare(n, s, p, valid)
    BY <1>1, Zenon DEF handle_net_message
  <2> HIDE DEF p
  <2> QED  BY <2>1, <2>2, OnPrepareOK
<1>2. CASE m.type = "SyncReply"
  <2>1. m.prepare \in Prepare
    BY <1>2 DEF Message
  <2>2. h = on_prepare(n, s, m.prepare, valid)
    BY <1>2 DEF handle_net_message
  <2> QED  BY <2>1, <2>2, OnPrepareOK
<1>3. CASE m.type = "PrepareVote"
  <2>1. m.src \in Validators /\ m.hash \in Hash
    BY <1>3 DEF Message
  <2>2. h = on_prepare_vote(n, s, m)
    BY <1>3 DEF handle_net_message
  <2> QED  BY <2>1, <2>2, OnPrepareVoteOK
<1>4. CASE m.type = "Confirm"
  <2>1. m.hash \in Hash /\ m.qc \in QC
    BY <1>4 DEF Message
  <2>2. h = on_confirm(n, s, m)
    BY <1>4 DEF handle_net_message
  <2> QED  BY <2>1, <2>2, OnConfirmOK
<1>5. CASE m.type = "ConfirmAck"
  <2>1. m.src \in Validators /\ m.hash \in Hash
    BY <1>5 DEF Message
  <2>2. h = on_confirm_ack(n, s, m)
    BY <1>5 DEF handle_net_message
  <2> QED  BY <2>1, <2>2, OnConfirmAckOK
<1>6. CASE m.type = "Commit"
  <2>1. m.qc \in QC
    BY <1>6 DEF Message
  <2>2. h = on_commit(n, s, m)
    BY <1>6 DEF handle_net_message
  <2> QED  BY <2>1, <2>2, OnCommitOK
<1>7. CASE m.type = "Timeout"
  <2>1. m.src \in Validators /\ m.slot \in Nat /\ m.kind \in Kind
    BY <1>7 DEF Message
  <2>2. h = on_timeout(n, s, m)
    BY <1>7 DEF handle_net_message
  <2>3. h \in State /\ Good(h) /\ Frame(s, h)
    BY <2>1, <2>2, OnTimeoutOK
  <2> QED  BY <2>3, FrameOK
<1>8. CASE m.type = "TimeoutCertificate"
  <2>1. m.qc \in QC /\ m.kind \in Kind
    BY <1>8 DEF Message
  <2>2. h = on_timeout_certificate(n, s, m)
    BY <1>8 DEF handle_net_message
  <2> QED  BY <2>1, <2>2, OnTimeoutCertificateOK
<1>9. CASE m.type = "SyncRequest"
  <2>1. m.src \in Validators
    BY <1>9 DEF Message
  <2>2. h = on_sync_request(n, s, m)
    BY <1>9 DEF handle_net_message
  <2> QED  BY <2>1, <2>2, OnSyncRequestOK
<1>10. m.type \in {"Prepare", "SyncReply", "PrepareVote", "Confirm", "ConfirmAck",
                   "Commit", "Timeout", "TimeoutCertificate", "SyncRequest"}
  BY DEF Message
<1> HIDE DEF h
<1> QED
  BY <1>1, <1>2, <1>3, <1>4, <1>5, <1>6, <1>7, <1>8, <1>9, <1>10 DEF h

-----------------------------------------------------------------------------
(* The inductive invariant, and the theorems.                               *)

\* TypeOK alone is not enough for CommitStream: that an ack completes a quorum
\* for a proposal of the current slot is known only because the leader holds
\* such a proposal whenever it collects acks.
IInv == TypeOK /\ \A n \in Validators : Good(st[n]) /\ GapFree(st[n])

Stream == \A n \in Validators : CommitStep(st[n], st'[n])

\* A handler that does its part keeps the invariant when its result is stored.
LEMMA StoreOK ==
    ASSUME IInv, NEW n \in Validators, NEW w, HandlerOK(st[n], w),
           st' = [st EXCEPT ![n] = w]
    PROVE  /\ st' \in [Validators -> State] /\ Stream
           /\ \A v \in Validators : Good(st'[v]) /\ GapFree(st'[v])
<1>1. /\ st \in [Validators -> State]
      /\ \A v \in Validators : Good(st[v]) /\ GapFree(st[v])
  BY DEF IInv, TypeOK
<1>2. \A v \in Validators : st'[v] = IF v = n THEN w ELSE st[v]
  BY <1>1
<1>3. w \in State /\ Good(w) /\ GapFree(w) /\ CommitStep(st[n], w)
  BY <1>1 DEF HandlerOK, Moves
<1>4. \A v \in Validators : CommitStep(st[v], st[v])
  BY DEF CommitStep
<1>5. st' \in [Validators -> State]
  BY <1>1, <1>3
<1> QED
  BY <1>1, <1>2, <1>3, <1>4, <1>5 DEF Stream

LEMMA BecomesOK ==
    ASSUME IInv, NEW n \in Validators, NEW w, HandlerOK(st[n], w), Becomes(n, w)
    PROVE  IInv' /\ Stream
<1> DEFINE e == <<>>
           t == [w EXCEPT !.out = e]
           sent == {w.out[i] : i \in DOMAIN w.out}
<1>1. w \in State
  BY DEF HandlerOK
<1>2. t \in State /\ Quiet(w, t)
  <2>1. e \in Seq(Envelope)
    OBVIOUS
  <2> HIDE DEF e
  <2> QED  BY <1>1, <2>1 DEF State, Quiet, Frame
<1>3. sent \subseteq Envelope
  <2>1. w.out \in Seq(Envelope)
    BY <1>1 DEF State
  <2> QED  BY <2>1
<1>4. st' = [st EXCEPT ![n] = t] /\ msgs' = msgs \cup sent /\ restarts' = restarts
  BY DEF Becomes
<1> HIDE DEF t, sent
<1>5. HandlerOK(st[n], t)
  <2>1. Good(w) /\ Moves(st[n], w)
    BY DEF HandlerOK
  <2>2. Good(t)
    BY <1>1, <1>2, <2>1, QuietOK DEF HandlerOK
  <2>3. Moves(st[n], t)
    BY <1>2, <2>1, FrameRight DEF Quiet
  <2> QED  BY <1>2, <2>2, <2>3 DEF HandlerOK
<1>6. /\ st' \in [Validators -> State] /\ Stream
      /\ \A v \in Validators : Good(st'[v]) /\ GapFree(st'[v])
  BY <1>4, <1>5, StoreOK
<1> QED
  BY <1>3, <1>4, <1>6 DEF IInv, TypeOK

LEMMA InitialStateOK ==
    ASSUME NEW n \in Validators, NEW boot
    PROVE  /\ InitialState(n, boot) \in State /\ Good(InitialState(n, boot))
           /\ GapFree(InitialState(n, boot))
<1>1. /\ NoHash \in Hash /\ DefaultProposal(0) \in Prop /\ ParentQC \in QC
  BY DEF NoHash, Hash, DefaultProposal, Prop, ParentQC, QC, QuorumCertificate
<1>2. CommitTicket(ParentQC) \in Ticket /\ GenesisTicket \in Ticket
  BY <1>1 DEF CommitTicket, Ticket, GenesisTicket
<1> DEFINE k == InitialState(n, boot).ticket
           b == InitialState(n, boot).bqc
           c == InitialState(n, boot).cmds
           d == DefaultProposal(0)
           x == InitialState(n, boot).tstate
           g == InitialState(n, boot).tag
<1>3. /\ k \in Ticket \cup {None} /\ b \in QC \cup {None} /\ c \in SUBSET BOOLEAN
      /\ x \in {"Inactive", "Scheduled", "CertificateEmitted"}
      /\ g \in {"Joining", "Leader", "Follower"}
  BY <1>1, <1>2 DEF InitialState
<1>4. InitialState(n, boot) =
        [slot |-> 1, view |-> 0, parent |-> NoHash, cp |-> d, tag |-> g,
         step |-> "StartNewSlot", votes |-> {}, acks |-> {},
         ticket |-> k, bqc |-> b, prepares |-> {}, children |-> {},
         next |-> None, reqs |-> {}, tstate |-> x, hqc |-> None,
         synced |-> 0, applied |-> 0, cmds |-> c, life |-> 0, commits |-> <<>>,
         out |-> <<>>]
  BY DEF InitialState
<1> HIDE DEF k, b, c, d, x, g
<1>5. InitialState(n, boot) \in State
  BY <1>1, <1>3, <1>4 DEF State, d
<1>6. /\ InitialState(n, boot).step = "StartNewSlot"
      /\ InitialState(n, boot).slot = 1
      /\ InitialState(n, boot).synced = 0 /\ InitialState(n, boot).applied = 0
  BY <1>4
<1> QED
  BY <1>5, <1>6 DEF Good, GapFree

LEMMA InitOK == Init => IInv
<1> SUFFICES ASSUME Init PROVE IInv
  OBVIOUS
<1>1. PICK boot \in Boots : st = [n \in Validators |-> InitialState(n, boot)]
  BY DEF Init
<1>2. msgs = {} /\ restarts = 0 /\ 0 \in 0 .. MaxRestarts
  BY BoundsAssumption DEF Init
<1> QED
  BY <1>1, <1>2, InitialStateOK DEF IInv, TypeOK

LEMMA ReceivesOK ==
    ASSUME IInv, NEW n \in Validators, NEW type, Receives(n, type)
    PROVE  IInv' /\ Stream
<1>1. st[n] \in State /\ Good(st[n]) /\ msgs \in SUBSET Envelope
  BY DEF IInv, TypeOK
<1>0. PICK m \in Inbox(n, type) : \E valid \in OutcomesOf(m) :
        Becomes(n, handle_net_message(n, st[n], m, valid))
  BY DEF Receives
<1>2. PICK valid \in OutcomesOf(m) :
        Becomes(n, handle_net_message(n, st[n], m, valid))
  BY <1>0
<1>3. m \in Message
  BY <1>1, <1>0 DEF Inbox, Envelope
<1>4. HandlerOK(st[n], handle_net_message(n, st[n], m, valid))
  BY <1>1, <1>3, HandleNetMessageOK
<1> QED
  BY <1>2, <1>4, BecomesOK

LEMMA StepOK ==
    ASSUME IInv, NEW n \in Validators, ValidatorStep(n)
    PROVE  IInv' /\ Stream
<1>1. st[n] \in State /\ Good(st[n])
  BY DEF IInv, TypeOK
<1>2. CASE StartNewSlot(n)
  <2>1. PICK may_delay \in st[n].cmds, delay \in BOOLEAN, fees \in Fees :
          Becomes(n, start_round(n, [st[n] EXCEPT !.cmds = @ \ {may_delay}],
                                 may_delay, delay, fees))
    BY <1>2 DEF StartNewSlot
  <2> DEFINE c == st[n].cmds \ {may_delay}
             s == [st[n] EXCEPT !.cmds = c]
             w == start_round(n, s, may_delay, delay, fees)
  <2>2. c \in SUBSET BOOLEAN /\ fees \in BOOLEAN
    BY <1>1, BoundsAssumption DEF State
  <2>3. Becomes(n, w)
    BY <2>1
  <2> HIDE DEF c
  <2>4. s \in State /\ Quiet(st[n], s)
    BY <1>1, <2>2 DEF State, Quiet, Frame
  <2> HIDE DEF s
  <2>5. Good(s)
    BY <1>1, <2>4, QuietOK DEF HandlerOK
  <2>6. HandlerOK(s, w)
    BY <2>2, <2>4, <2>5, StartRoundOK
  <2> HIDE DEF w
  <2>7. HandlerOK(st[n], w)
    BY <2>4, <2>6, FrameLeft DEF HandlerOK, Quiet
  <2> QED  BY <2>3, <2>7, BecomesOK
<1>3. CASE FastForward(n)
  <2>1. PICK valid : Becomes(n, on_prepare(n, st[n], st[n].next, valid))
    BY <1>3 DEF FastForward
  <2>2. st[n].next \in Prepare
    BY <1>1, <1>3 DEF FastForward, Idle, State
  <2>3. HandlerOK(st[n], on_prepare(n, st[n], st[n].next, valid))
    BY <1>1, <2>2, OnPrepareOK
  <2> QED  BY <2>1, <2>3, BecomesOK
<1>4. CASE TimeoutTick(n)
  <2>1. Becomes(n, on_timeout_tick(n, st[n]))
    BY <1>4 DEF TimeoutTick
  <2>2. HandlerOK(st[n], on_timeout_tick(n, st[n]))
    BY <1>1, OnTimeoutTickOK
  <2> QED  BY <2>1, <2>2, BecomesOK
<1>5. CASE NewBlock(n)
  <2>1. PICK v \in Validators : \E i \in DOMAIN st[v].commits :
          /\ st[v].commits[i].prop.slot = st[n].applied + 1
          /\ Becomes(n, handle_node_state_event(st[n], st[v].commits[i].prop))
    BY <1>5 DEF NewBlock
  <2>2. PICK i \in DOMAIN st[v].commits :
          /\ st[v].commits[i].prop.slot = st[n].applied + 1
          /\ Becomes(n, handle_node_state_event(st[n], st[v].commits[i].prop))
    BY <2>1
  <2>3. st[v].commits[i] \in Committed
    <3>1. st[v] \in State
      BY DEF IInv, TypeOK
    <3>2. st[v].commits \in Seq(Committed)
      BY <3>1 DEF State
    <3> QED  BY <2>2, <3>2
  <2>4. st[v].commits[i].prop \in Prop
    BY <2>3 DEF Committed
  <2>5. HandlerOK(st[n], handle_node_state_event(st[n], st[v].commits[i].prop))
    BY <1>1, <2>2, <2>4, NodeStateEventOK
  <2> QED  BY <2>2, <2>5, BecomesOK
<1>6. CASE Restart(n)
  <2>1. PICK height \in st[n].applied .. st[n].slot - 1 :
          st' = [st EXCEPT ![n] = wait_genesis(st[n], height)]
    BY <1>6 DEF Restart
  <2>2. height \in Nat /\ st[n].applied <= height
    BY <1>1, <2>1 DEF State
  <2>3. HandlerOK(st[n], wait_genesis(st[n], height))
    BY <1>1, <2>2, RestartOK
  <2>4. restarts' \in 0 .. MaxRestarts /\ msgs' = msgs
    BY <1>6, BoundsAssumption DEF Restart, IInv, TypeOK
  <2>5. /\ st' \in [Validators -> State] /\ Stream
        /\ \A v \in Validators : Good(st'[v]) /\ GapFree(st'[v])
    BY <2>1, <2>3, StoreOK
  <2> QED  BY <2>4, <2>5 DEF IInv, TypeOK
<1>7. CASE \E type : Receives(n, type)
  BY <1>7, ReceivesOK
<1> QED
  BY <1>2, <1>3, <1>4, <1>5, <1>6, <1>7
     DEF ValidatorStep, OnPrepare, OnSyncReply, OnPrepareVote, OnConfirm,
         OnConfirmAck, OnCommit, OnTimeout, OnTimeoutCertificate, OnSyncRequest

LEMMA NextOK ==
    ASSUME IInv, [Next]_vars
    PROVE  IInv'
<1>1. CASE Next
  BY <1>1, StepOK DEF Next
<1>2. CASE UNCHANGED vars
  BY <1>2 DEF vars, IInv, TypeOK
<1> QED
  BY <1>1, <1>2

\* Types, and a proposal of the slot behind every vote count, are never lost.
THEOREM Inductive == Spec => []IInv
<1>1. IInv /\ [Next]_vars => IInv'
  BY NextOK
<1> QED
  BY <1>1, InitOK, PTL DEF Spec

\* Every message a validator sends and every state a handler leaves is well
\* typed, whatever the validators, stakes and bounds: no handler meets a field
\* it does not expect.
THEOREM TypeCorrect == Spec => []TypeOK
<1>1. IInv => TypeOK
  BY DEF IInv
<1> QED
  BY <1>1, Inductive, PTL

\* Restarts included, however late the node state is when its validator stops
\* and wherever the validator rejoins, no slot is left out between what its
\* consensus commits and what its node state is given.
THEOREM NeverAGap == Spec => []NoGap
<1>1. IInv => NoGap
  BY DEF IInv, GapFree, NoGap, Commits
<1> QED
  BY <1>1, Inductive, PTL

\* Along every commit path (own quorum, Commit message, commit ticket, forced
\* commit, catching up while Joining) a validator leaves a slot exactly by
\* committing the proposal of that slot, and builds the next one on it.
THEOREM CommitStreamCorrect == Spec => CommitStream
<1>1. IInv /\ [Next]_vars
        => [\A n \in Validators : CommitStep(st[n], st'[n])]_vars
  <2> SUFFICES ASSUME IInv, Next
               PROVE  \A n \in Validators : CommitStep(st[n], st'[n])
    OBVIOUS
  <2> QED
    BY StepOK DEF Next, Stream
<1> QED
  BY <1>1, Inductive, PTL DEF Spec, CommitStream

=============================================================================
