------------------------------ MODULE Consensus ------------------------------
(***************************************************************************)
(* The BFT consensus of the Hyli node (manual_Scaffold/hyli/src/consensus) *)
(* for a fixed set of bonded validators: Prepare / PrepareVote / Confirm / *)
(* ConfirmAck / Commit rounds led by a rotating leader, tickets that prove *)
(* how the previous round ended, timeouts with their certificates,         *)
(* buffered Prepares with parent synchronisation, and the Joining mode a   *)
(* validator is in after a restart.                                        *)
(*                                                                         *)
(* A validator's BFTRoundState is the record st[n].  A handler of the code *)
(* is an operator from such a record to the record the handler leaves,     *)
(* early returns and errors included: what was assigned before a `bail!`   *)
(* stays assigned.  Messages sent by the handler collect in the field out. *)
(* msgs holds every message ever sent, so a message may be delivered late, *)
(* repeatedly, in any order, or never.                                     *)
(***************************************************************************)
EXTENDS Integers, Sequences, FiniteSets, FiniteSetsExt

CONSTANTS
    Bonded,       \* the bonded validators, in the order of staking.bonded()
    Stake,        \* voting power of each of them
    Boots,        \* how the run may begin: "genesis" or "steady", see Init
    Fees,         \* may a new proposal carry staking actions? a set of BOOLEAN
    RejectSlots,  \* slots whose proposals a validator may find invalid (0: none)
    MaxSlot,      \* bound: no round is started after this slot
    MaxView,      \* bound: no timeout is triggered in this view or later
    Impatient,    \* bound: the validators whose own timeout may expire; the
                  \* others only join a mutiny
    Lost,         \* bound: <<receiver, type>> of messages that never arrive
    Restarting,   \* bound: the validators that may restart ...
    MaxRestarts,  \* ... and how often, over all of them
    None          \* Rust's Option::None

Validators == {Bonded[i] : i \in DOMAIN Bonded}

ASSUME BondedAssumption ==
    /\ Bonded \in Seq(Validators) /\ Len(Bonded) \in Nat \ {0}
    /\ Cardinality(Validators) = Len(Bonded)
    /\ Stake \in [Validators -> Nat \ {0}]

ASSUME BoundsAssumption ==
    /\ Boots \subseteq {"genesis", "steady"} /\ Fees \subseteq BOOLEAN
    /\ RejectSlots \subseteq Nat
    /\ Impatient \subseteq Validators /\ Restarting \subseteq Validators
    /\ Lost \subseteq Validators \X STRING
    /\ MaxSlot \in Nat /\ MaxView \in Nat /\ MaxRestarts \in Nat

VARIABLES
    st,        \* st[n]: the BFTRoundState of validator n, and what it emitted
    msgs,      \* the messages sent so far
    restarts   \* the number of restarts so far

vars == <<st, msgs, restarts>>

-----------------------------------------------------------------------------
(* Voting power and leaders.                                               *)

compute_voting_power(V) == MapThenSumSet(LAMBDA v : Stake[v], V)
compute_f == compute_voting_power(Validators) \div 3

\* The code tests `voting_power > 2 * f` and, in certificates, `< 2 * f + 1`.
IsQuorum(power) == power > 2 * compute_f

\* Round-robin on slot + view; called with slot + view >= 1 only.
round_leader(slot, view) == Bonded[((slot + view - 1) % Len(Bonded)) + 1]
next_view_leader(s) == round_leader(s.slot, s.view + 1)

-----------------------------------------------------------------------------
(* Proposals and certificates.  A proposal's content (cut, timestamp) is    *)
(* abstracted to the view, and the life of its leader between restarts, in  *)
(* which it was first proposed; fees says whether its staking_actions are   *)
(* non-empty.  The hash covers slot, content, staking actions and parent,   *)
(* which the others determine, and not the view in which a proposal is      *)
(* (re)proposed.                                                            *)

hashed(p) == [slot |-> p.slot, born |-> p.born, fees |-> p.fees]

NoHash == [slot |-> 0, born |-> -1, fees |-> FALSE]

\* ConsensusProposal { slot, ..Default::default() }
DefaultProposal(slot) ==
    [slot |-> slot, born |-> -1, fees |-> FALSE, parent |-> NoHash]

QuorumCertificate(marker, hash, signers) ==
    [marker |-> marker, hash |-> hash, signers |-> signers]

verify_quorum_certificate(marker, hash, qc) ==
    /\ qc.marker = marker /\ qc.hash = hash
    /\ IsQuorum(compute_voting_power(qc.signers))

\* What the validators of a timeout certificate signed.
TimeoutPayload(slot, view, parent) ==
    [slot |-> slot, view |-> view, parent |-> parent]

NilProposal == [qc |-> None, prop |-> None]

GenesisTicket      == [type |-> "Genesis"]
CommitTicket(qc)   == [type |-> "CommitQC", qc |-> qc]
TimeoutTicket(q,k) == [type |-> "TimeoutQC", qc |-> q, kind |-> k]
ForcedTicket       == [type |-> "ForcedCommitQc"]

-----------------------------------------------------------------------------
(* BufferedPrepares: prepares by the hash of their proposal, and the child  *)
(* last seen of a hash.                                                    *)

push(s, p) ==
    LET h == hashed(p.prop)
    IN  [s EXCEPT
           !.prepares = {q \in @ : hashed(q.prop) # h} \cup {p},
           !.children = {c \in @ : c.parent # p.prop.parent}
                          \cup {[parent |-> p.prop.parent, child |-> h]}]

Buffered(s, h) == {p \in s.prepares : hashed(p.prop) = h}

Children(s, h) ==
    {p \in s.prepares : [parent |-> h, child |-> hashed(p.prop)] \in s.children}

contains(s, h) == Buffered(s, h) # {}
get(s, h) == CHOOSE p \in Buffered(s, h) : TRUE

has_no_buffered_children(s) == Children(s, hashed(s.cp)) = {}

current_slot_prepare_is_present(s) == s.cp.slot = s.slot

\* The p2p layer never delivers a message to its own sender.
Send(n, s, to, m) == [s EXCEPT !.out = Append(@, [to |-> to \ {n}, msg |-> m])]
Broadcast(n, s, m) == Send(n, s, Validators, m)

-----------------------------------------------------------------------------
(* Ending a round.                                                         *)

\* Mutants of EnterRound: a leader is never demoted; no timeout is scheduled.
EnterRound_NotDemoted(n, s) ==
    IF round_leader(s.slot, s.view) = n
    THEN [s EXCEPT !.tag = "Leader"]
    ELSE [s EXCEPT !.tag = IF @ = "Leader" THEN @ ELSE "Follower",
                   !.tstate = "Scheduled"]

EnterRound_NotScheduled(n, s) ==
    [s EXCEPT !.tag = IF round_leader(s.slot, s.view) = n
                      THEN "Leader" ELSE "Follower"]

\* The part of apply_ticket that every ticket shares: who leads the new round.
\* Only a follower (re)schedules its timeout.
EnterRound(n, s) ==
    IF round_leader(s.slot, s.view) = n
    THEN [s EXCEPT !.tag = "Leader"]
    ELSE [s EXCEPT !.tag = "Follower", !.tstate = "Scheduled"]

\* Mutant of apply_ticket: the parent hash is taken after the staking actions.
apply_ticket_LateHash(n, s, ticket) ==
    LET cp == [s.cp EXCEPT !.fees = FALSE]
        reset == [s EXCEPT !.step = "StartNewSlot", !.votes = {}, !.acks = {},
                           !.ticket = None, !.reqs = {}]
    IN  EnterRound(n,
          IF ticket.type = "TimeoutQC"
          THEN [reset EXCEPT !.view = @ + 1, !.bqc = None]
          ELSE [reset EXCEPT !.slot = @ + 1, !.view = 0, !.cp = cp,
                             !.parent = hashed(cp),
                             !.bqc = IF ticket.type = "CommitQC"
                                     THEN ticket.qc ELSE None])

\* Taking the staking actions out of current_proposal changes its hash.
apply_ticket(n, s, ticket) ==
    LET reset == [s EXCEPT !.step = "StartNewSlot", !.votes = {}, !.acks = {},
                           !.ticket = None, !.reqs = {}]
    IN  EnterRound(n,
          IF ticket.type = "TimeoutQC"
          THEN [reset EXCEPT !.view = @ + 1, !.bqc = None]
          ELSE [reset EXCEPT !.slot = @ + 1, !.view = 0,
                             !.parent = hashed(s.cp),
                             !.bqc = IF ticket.type = "CommitQC"
                                     THEN ticket.qc ELSE None,
                             !.cp.fees = FALSE])

\* An error (and no change) in Joining mode.
advance_round(n, s, ticket) ==
    LET a == apply_ticket(n, s, ticket)
    IN  IF s.tag = "Joining" THEN s
        ELSE IF /\ a.tag = "Leader" /\ has_no_buffered_children(a)
                /\ ticket.type # "ForcedCommitQc"
             THEN [a EXCEPT !.ticket = ticket, !.cmds = @ \cup {TRUE}]
             ELSE a

\* ConsensusEvent::CommitConsensusProposal, then the next round.
emit_commit_event(s, qc) ==
    [s EXCEPT !.commits = Append(@, [prop |-> s.cp, qc |-> qc])]

CommitAndAdvance(n, s, qc) ==
    advance_round(n, emit_commit_event(s, qc), CommitTicket(qc))

-----------------------------------------------------------------------------
(* Timeouts.                                                               *)

\* Only the slot is compared: a certificate of an earlier view of the same
\* slot replaces the one of a later view.
IsHighest(s, slot) == s.hqc = None \/ s.hqc.slot <= slot

update_highest_seen_prepare_qc(s, slot, qc) ==
    IF IsHighest(s, slot) THEN [s EXCEPT !.hqc = [slot |-> slot, qc |-> qc]]
    ELSE s

\* A prepare certificate received with its proposal replaces our proposal.
AdoptPrepareQC(s, slot, kind) ==
    IF IsHighest(s, slot)
    THEN [update_highest_seen_prepare_qc(s, slot, kind.qc)
            EXCEPT !.cp = kind.prop]
    ELSE s

PrepareQCValid(kind, slot) ==
    /\ kind.prop.slot = slot
    /\ verify_quorum_certificate("PrepareVote", hashed(kind.prop), kind.qc)

\* The two kinds of certificate are verified against the same signed message.
TCValid(s, qc, kind, slot, view) ==
    /\ verify_quorum_certificate(
          "ConsensusTimeout", TimeoutPayload(slot, view, s.parent), qc)
    /\ kind = NilProposal \/ PrepareQCValid(kind, slot)

\* What verify_tc does to the state when the certificate is valid.
verify_tc(s, kind, slot) ==
    IF kind = NilProposal THEN s ELSE AdoptPrepareQC(s, slot, kind)

HasPrepareQCForSlot(s) == s.hqc # None /\ s.hqc.slot = s.slot

TimeoutKind(s) ==
    IF HasPrepareQCForSlot(s)
    THEN [qc |-> s.hqc.qc, prop |-> s.cp] ELSE NilProposal

get_timeout_message(n, s) ==
    [type |-> "Timeout", src |-> n, slot |-> s.slot, view |-> s.view,
     parent |-> s.parent, kind |-> TimeoutKind(s)]

\* Aggregate the requests into a timeout certificate, tell the others unless
\* we lead the next view, and move to the next view.
CreateTC(n, s) ==
    LET qc == QuorumCertificate("ConsensusTimeout",
                TimeoutPayload(s.slot, s.view, s.parent),
                {r.src : r \in s.reqs} \cup {n})
        kind == TimeoutKind(s)
        told ==
          IF next_view_leader(s) = n
          THEN [s EXCEPT !.tstate = "Scheduled",
                         !.tag = IF @ = "Joining" THEN "Leader" ELSE @]
          ELSE Broadcast(n, [s EXCEPT !.tstate = "CertificateEmitted"],
                 [type |-> "TimeoutCertificate", qc |-> qc, kind |-> kind,
                  slot |-> s.slot, view |-> s.view])
    IN  advance_round(n, told, TimeoutTicket(qc, kind))

\* f + 1 requests and ours not among them: join the mutiny.
JoinMutiny(n, s) ==
    LET V == {r.src : r \in s.reqs}
        own == get_timeout_message(n, s)
    IN  IF compute_voting_power(V) > compute_f /\ n \notin V
        THEN [Broadcast(n, s, own) EXCEPT
                !.reqs = @ \cup {[src |-> n, kind |-> own.kind]},
                !.tstate = "Scheduled"]
        ELSE s

\* Mutant of EnoughRequests: f + 1 requests, enough to join a mutiny.
EnoughRequests_OneHonest(s) ==
    /\ compute_voting_power({r.src : r \in s.reqs}) > compute_f
    /\ s.tstate # "CertificateEmitted"

\* Enough requests for a certificate that is not out yet ...
EnoughRequests(s) ==
    /\ IsQuorum(compute_voting_power({r.src : r \in s.reqs}))
    /\ s.tstate # "CertificateEmitted"

\* ... which needs a prepare certificate of the slot, or nil requests only.
CanCertify(s) ==
    HasPrepareQCForSlot(s) \/ \A r \in s.reqs : r.kind = NilProposal

Request(m) == [src |-> m.src, kind |-> m.kind]

\* The state in which the request m has been registered.
Registered(n, s, m) ==
    LET adopted == IF m.kind = NilProposal THEN s
                   ELSE AdoptPrepareQC(s, m.slot, m.kind)
    IN  IF Request(m) \in s.reqs THEN adopted
        ELSE JoinMutiny(n, [adopted EXCEPT !.reqs = @ \cup {Request(m)}])

\* The prepare certificate is not for the proposal or the slot it comes with.
MalformedTimeout(m) ==
    m.kind # NilProposal /\ ~PrepareQCValid(m.kind, m.slot)

on_timeout(n, s, m) ==
    LET r == Registered(n, s, m)
    IN  IF \/ m.parent # s.parent \/ m.slot # s.slot \/ m.view # s.view
           \/ MalformedTimeout(m)
        THEN s
        ELSE IF Request(m) \notin s.reqs /\ EnoughRequests(r) /\ CanCertify(r)
             THEN CreateTC(n, r) ELSE r

\* The error returns of on_timeout for a request of the current view.
on_timeout_errs(n, s, m) ==
    LET r == Registered(n, s, m)
    IN  \/ MalformedTimeout(m)
        \/ /\ Request(m) \notin s.reqs /\ EnoughRequests(r)
           /\ CanCertify(r) => s.tag = "Joining" /\ next_view_leader(s) # n

on_timeout_certificate(n, s, m) ==
    LET t == verify_tc(s, m.kind, m.slot)
        \* `is_next_view_leader` holds when somebody else leads the next view
        is_next_view_leader == next_view_leader(s) # n
        u == [t EXCEPT !.tag = IF is_next_view_leader /\ @ = "Joining"
                               THEN "Leader" ELSE @]
    IN  IF /\ m.slot = s.slot /\ m.view = s.view
           /\ TCValid(s, m.qc, m.kind, m.slot, m.view)
        THEN advance_round(n, u, TimeoutTicket(m.qc, m.kind)) ELSE s

\* The request is broadcast and the timeout rearmed only if on_timeout succeeds,
\* and after it may already have moved us to the next view.
on_timeout_tick(n, s) ==
    LET own == get_timeout_message(n, s)
        r == on_timeout(n, s, own)
    IN  IF on_timeout_errs(n, s, own) THEN r
        ELSE Broadcast(n, [r EXCEPT !.tstate = "Scheduled"], own)

-----------------------------------------------------------------------------
(* The leader's half of a round.                                           *)

Propose(n, s, prop, ticket) ==
    Broadcast(n,
      push([s EXCEPT !.cp = prop, !.step = "PrepareVote", !.ticket = None],
           [src |-> n, prop |-> prop, ticket |-> ticket, view |-> s.view]),
      [type |-> "Prepare", src |-> n, prop |-> prop, ticket |-> ticket,
       view |-> s.view])

\* When the leader in state s proposes, as far as contents differ by it.
Moment(s) == s.view + s.life * (MaxView + 1)

\* Mutant of start_round: the proposal at hand is not proposed again.
start_round_Afresh(n, s, may_delay, delay, fees) ==
    LET new == [slot |-> s.slot, born |-> Moment(s), fees |-> fees,
                parent |-> s.parent]
    IN  IF \/ s.step # "StartNewSlot" \/ s.tag # "Leader" \/ s.ticket = None
        THEN s
        ELSE IF may_delay /\ s.ticket.type # "TimeoutQC" /\ delay
        THEN [s EXCEPT !.cmds = @ \cup {FALSE}]
        ELSE Propose(n, s, new, s.ticket)

\* StartNewSlot(may_delay).  delay: the mempool's cut is the parent's;
\* fees: the new proposal has staking actions.
start_round(n, s, may_delay, delay, fees) ==
    LET new == [slot |-> s.slot, born |-> Moment(s), fees |-> fees,
                parent |-> s.parent]
    IN  IF \/ s.step # "StartNewSlot" \/ s.tag # "Leader" \/ s.ticket = None
        THEN s
        ELSE IF current_slot_prepare_is_present(s)
        THEN Propose(n, s, s.cp, s.ticket)
        ELSE IF may_delay /\ s.ticket.type # "TimeoutQC" /\ delay
        THEN [s EXCEPT !.cmds = @ \cup {FALSE}]
        ELSE Propose(n, s, new, s.ticket)

\* sign_aggregate fails when the votes are not all for the current proposal.
CanAggregate(n, s, votes) ==
    /\ IsQuorum(compute_voting_power({v.src : v \in votes}) + Stake[n])
    /\ \A v \in votes : v.hash = hashed(s.cp)

on_prepare_vote(n, s, m) ==
    LET t == [s EXCEPT !.votes = @ \cup {[src |-> m.src, hash |-> m.hash]}]
    IN  IF s.tag # "Leader" \/ s.step # "PrepareVote" \/ m.hash # hashed(s.cp)
        THEN s
        ELSE IF CanAggregate(n, t, t.votes)
        THEN Broadcast(n, [t EXCEPT !.step = "ConfirmAck"],
               [type |-> "Confirm", hash |-> m.hash,
                qc |-> QuorumCertificate("PrepareVote", m.hash,
                         {v.src : v \in t.votes} \cup {n})])
        ELSE t

\* Mutant of on_confirm_ack: the votes of the first phase are counted.
on_confirm_ack_CountsVotes(n, s, m) ==
    LET ack == [src |-> m.src, hash |-> m.hash]
        t == [s EXCEPT !.acks = @ \cup {ack}]
        qc == QuorumCertificate("ConfirmAck", m.hash,
                {v.src : v \in t.acks} \cup {n})
    IN  IF \/ s.tag # "Leader" \/ s.step # "ConfirmAck"
           \/ m.hash # hashed(s.cp) \/ ack \in s.acks
        THEN s
        ELSE IF CanAggregate(n, t, t.votes)
        THEN CommitAndAdvance(n,
               Broadcast(n, t, [type |-> "Commit", hash |-> m.hash, qc |-> qc]),
               qc)
        ELSE t

on_confirm_ack(n, s, m) ==
    LET ack == [src |-> m.src, hash |-> m.hash]
        t == [s EXCEPT !.acks = @ \cup {ack}]
        qc == QuorumCertificate("ConfirmAck", m.hash,
                {v.src : v \in t.acks} \cup {n})
    IN  IF \/ s.tag # "Leader" \/ s.step # "ConfirmAck"
           \/ m.hash # hashed(s.cp) \/ ack \in s.acks
        THEN s
        ELSE IF CanAggregate(n, t, t.acks)
        THEN CommitAndAdvance(n,
               Broadcast(n, t, [type |-> "Commit", hash |-> m.hash, qc |-> qc]),
               qc)
        ELSE t

-----------------------------------------------------------------------------
(* The follower's half of a round.                                         *)

\* TicketVerifyAndProcess, or an error; in every case the state it leaves.
Processed(s)    == [state |-> s, result |-> "Processed"]
NotProcessed(s) == [state |-> s, result |-> "NotProcessed"]
Failed(s)       == [state |-> s, result |-> "Err"]

IsNextSlotAndPresent(s, p) ==
    p.prop.slot = s.slot + 1 /\ current_slot_prepare_is_present(s)

TicketApplies(s, p) == p.prop.slot = s.slot \/ IsNextSlotAndPresent(s, p)

verify_and_process_commit_ticket(n, s, p) ==
    LET qc == p.ticket.qc
    IN  IF ~TicketApplies(s, p) THEN NotProcessed(s)
        ELSE IF qc = s.bqc THEN Processed(s)
        ELSE IF ~current_slot_prepare_is_present(s)
        THEN IF verify_quorum_certificate("ConfirmAck", s.parent, qc)
             THEN Processed(s) ELSE Failed(s)
        ELSE IF verify_quorum_certificate("ConfirmAck", hashed(s.cp), qc)
             THEN Processed(CommitAndAdvance(n, s, qc)) ELSE Failed(s)

\* QuorumCertificate(AggregateSignature::default(), ConfirmAckMarker)
EmptyQC == QuorumCertificate("ConfirmAck", NoHash, {})

\* Mutant of ForceCommit: the child is committed.
ForceCommit_Child(n, s, p) ==
    IF IsNextSlotAndPresent(s, p) /\ p.prop.parent = hashed(s.cp)
    THEN advance_round(n, emit_commit_event([s EXCEPT !.cp = p.prop], EmptyQC),
                       ForcedTicket)
    ELSE s

\* A timeout certificate of the next slot, for a child of our proposal:
\* commit our proposal without a certificate for it.
ForceCommit(n, s, p) ==
    IF IsNextSlotAndPresent(s, p) /\ p.prop.parent = hashed(s.cp)
    THEN advance_round(n, emit_commit_event(s, EmptyQC), ForcedTicket)
    ELSE s

verify_and_process_tc_ticket(n, s, p) ==
    LET kind == p.ticket.kind
        t == ForceCommit(n, s, p)
        u == verify_tc(t, kind, t.slot)
    IN  IF ~TicketApplies(s, p) THEN NotProcessed(s)
        ELSE IF kind # NilProposal /\ kind.prop # p.prop THEN Failed(s)
        ELSE IF \/ p.prop.slot # t.slot
                \/ ~TCValid(t, p.ticket.qc, kind, t.slot, p.view - 1)
        THEN Failed(t)
        ELSE IF p.view = t.view + 1
        THEN Processed(advance_round(n, u, p.ticket)) ELSE Processed(u)

process_ticket(n, s, p) ==
    CASE p.ticket.type = "Genesis"   -> IF s.slot = 1 THEN Processed(s)
                                        ELSE Failed(s)
      [] p.ticket.type = "CommitQC"  -> verify_and_process_commit_ticket(n, s, p)
      [] p.ticket.type = "TimeoutQC" -> verify_and_process_tc_ticket(n, s, p)

\* The hashes met on the walk from the parent of prop up the buffered ancestors,
\* which ends at our current proposal or at a proposal that is not buffered.
Ancestors(s, prop) ==
    LET parents == {prop.parent} \cup {q.prop.parent : q \in s.prepares}
        walked(R) ==
          /\ prop.parent \in R
          /\ \A q \in s.prepares :
               hashed(q.prop) \in R /\ hashed(q.prop) # hashed(s.cp)
                 => q.prop.parent \in R
    IN  {h \in parents : \A R \in SUBSET parents : walked(R) => h \in R}

\* A random bonded validator is asked for the missing ancestor.
buffer_prepare_message_and_fetch_missing_parent(n, s, p) ==
    LET t == IF contains(s, hashed(p.prop)) THEN s ELSE push(s, p)
        missing == {h \in Ancestors(t, p.prop) : ~contains(t, h)}
    IN  IF missing = {} THEN t
        ELSE Broadcast(n, t, [type |-> "SyncRequest", src |-> n,
                              hash |-> CHOOSE h \in missing : TRUE])

ExpectedWhileJoining(s, p) ==
    \/ p.prop.slot = s.slot /\ ~current_slot_prepare_is_present(s)
    \/ /\ current_slot_prepare_is_present(s)
       /\ \/ p.prop.slot = s.slot + 1
          \/ p.prop.slot = s.slot /\ p.view > s.view

\* Accept the proposal: fast-forward to a buffered child of it, or vote.  The
\* tail call on_prepare(child) is the action FastForward; next holds its argument.
AcceptProposal(n, s, p) ==
    LET t == push([s EXCEPT !.cp = p.prop], p)
        next_prepare == Children(t, hashed(p.prop))
    IN  IF next_prepare # {}
        THEN [t EXCEPT !.next = CHOOSE child \in next_prepare : TRUE]
        ELSE Send(n, t, {round_leader(s.slot, s.view)},
               [type |-> "PrepareVote", src |-> n, hash |-> hashed(p.prop)])

\* valid: the outcome of verify_poda, verify_staking_actions, verify_timestamp.
on_prepare(n, s0, p, valid) ==
    LET s == [s0 EXCEPT !.next = None,
                        !.tag = IF @ = "Joining" /\ ExpectedWhileJoining(s0, p)
                                THEN "Follower" ELSE @]
        r == process_ticket(n, s, p)
        t == r.state
    IN  IF s.tag = "Joining" THEN push(s, p)
        ELSE IF p.prop.slot < s.slot THEN s
        ELSE IF r.result = "Err" THEN t
        ELSE IF r.result = "NotProcessed"
        THEN buffer_prepare_message_and_fetch_missing_parent(n, t, p)
        ELSE IF /\ p.prop.slot = t.slot /\ p.view = t.view
                /\ p.src = round_leader(t.slot, t.view) /\ valid
        THEN AcceptProposal(n, t, p) ELSE t

on_confirm(n, s, m) ==
    IF /\ s.tag = "Follower" /\ m.hash = hashed(s.cp)
       /\ verify_quorum_certificate("PrepareVote", m.hash, m.qc)
    THEN Send(n, update_highest_seen_prepare_qc(s, s.slot, m.qc),
           {round_leader(s.slot, s.view)},
           [type |-> "ConfirmAck", src |-> n, hash |-> m.hash])
    ELSE s

\* Mutant of on_commit_while_joining: commits before the node state is there.
on_commit_while_joining_Early(n, s, m) ==
    LET p == get(s, m.hash).prop
        t == [s EXCEPT !.cp = p]
    IN  IF ~contains(s, m.hash) \/ p.slot <= s.slot
        THEN s
        ELSE IF ~verify_quorum_certificate("ConfirmAck", hashed(p), m.qc) THEN t
        ELSE CommitAndAdvance(n, [t EXCEPT !.slot = p.slot, !.view = 0,
                                           !.tag = "Follower"], m.qc)

on_commit_while_joining(n, s, m) ==
    LET p == get(s, m.hash).prop
        t == [s EXCEPT !.cp = p]
    IN  IF \/ ~contains(s, m.hash) \/ p.slot <= s.slot
           \/ s.synced + 1 < p.slot
        THEN s
        ELSE IF ~verify_quorum_certificate("ConfirmAck", hashed(p), m.qc) THEN t
        ELSE CommitAndAdvance(n, [t EXCEPT !.slot = p.slot, !.view = 0,
                                           !.tag = "Follower"], m.qc)

on_commit(n, s, m) ==
    IF s.tag = "Joining" THEN on_commit_while_joining(n, s, m)
    ELSE IF /\ s.tag = "Follower" /\ current_slot_prepare_is_present(s)
            /\ m.hash = hashed(s.cp)
            /\ verify_quorum_certificate("ConfirmAck", m.hash, m.qc)
    THEN CommitAndAdvance(n, s, m.qc) ELSE s

-----------------------------------------------------------------------------
(* Synchronisation, blocks of the node state, restarts.                    *)

on_sync_request(n, s, m) ==
    IF contains(s, m.hash)
    THEN Send(n, s, {m.src}, [type |-> "SyncReply", prepare |-> get(s, m.hash)])
    ELSE s

\* handle_node_state_event of a block: only a Joining validator follows it.
handle_node_state_event(s, block) ==
    LET t == [s EXCEPT !.applied = block.slot]
    IN  IF s.tag = "Joining" /\ s.synced < block.slot
        THEN [t EXCEPT !.synced = block.slot, !.slot = block.slot + 1,
                       !.view = 0, !.parent = hashed(block),
                       !.cp = DefaultProposal(block.slot), !.reqs = {}]
        ELSE t

\* Graceful stop, the store saved, then wait_genesis with NoGenesis.  height is
\* how far the node state had come, which may be behind the consensus.
wait_genesis(s, height) ==
    [s EXCEPT !.tag = "Joining", !.tstate = "Scheduled", !.cmds = {},
              !.applied = height, !.life = @ + 1]

-----------------------------------------------------------------------------
(* The actions.                                                            *)

Idle(n) == st[n].next = None

Becomes(n, w) ==
    /\ st' = [st EXCEPT ![n] = [w EXCEPT !.out = <<>>]]
    /\ msgs' = msgs \cup {w.out[i] : i \in DOMAIN w.out}
    /\ UNCHANGED restarts

\* The messages of a type that may be handed to n.
Inbox(n, type) ==
    {e.msg : e \in {e \in msgs : /\ n \in e.to /\ e.msg.type = type
                               /\ <<n, type>> \notin Lost}}

\* handle_net_message: the handler of each kind of message.
handle_net_message(n, s, m, valid) ==
    CASE m.type = "Prepare" ->
           on_prepare(n, s, [src |-> m.src, prop |-> m.prop,
                             ticket |-> m.ticket, view |-> m.view], valid)
      [] m.type = "SyncReply"   -> on_prepare(n, s, m.prepare, valid)
      [] m.type = "PrepareVote" -> on_prepare_vote(n, s, m)
      [] m.type = "Confirm"     -> on_confirm(n, s, m)
      [] m.type = "ConfirmAck"  -> on_confirm_ack(n, s, m)
      [] m.type = "Commit"      -> on_commit(n, s, m)
      [] m.type = "Timeout"     -> on_timeout(n, s, m)
      [] m.type = "TimeoutCertificate" -> on_timeout_certificate(n, s, m)
      [] m.type = "SyncRequest" -> on_sync_request(n, s, m)

Outcomes(prop) == IF prop.slot \in RejectSlots THEN BOOLEAN ELSE {TRUE}

OutcomesOf(m) ==
    CASE m.type = "Prepare"   -> Outcomes(m.prop)
      [] m.type = "SyncReply" -> Outcomes(m.prepare.prop)
      [] OTHER -> {TRUE}

Receives(n, type) ==
    /\ Idle(n)
    /\ \E m \in Inbox(n, type) : \E valid \in OutcomesOf(m) :
         Becomes(n, handle_net_message(n, st[n], m, valid))

StartNewSlot(n) ==
    /\ Idle(n) /\ st[n].slot <= MaxSlot
    /\ \E may_delay \in st[n].cmds, delay \in BOOLEAN, fees \in Fees :
         Becomes(n, start_round(n, [st[n] EXCEPT !.cmds = @ \ {may_delay}],
                                may_delay, delay, fees))

FastForward(n) ==
    /\ ~Idle(n)
    /\ \E valid \in Outcomes(st[n].next.prop) :
         Becomes(n, on_prepare(n, st[n], st[n].next, valid))

OnPrepare(n)            == Receives(n, "Prepare")
OnSyncReply(n)          == Receives(n, "SyncReply")
OnPrepareVote(n)        == Receives(n, "PrepareVote")
OnConfirm(n)            == Receives(n, "Confirm")
OnConfirmAck(n)         == Receives(n, "ConfirmAck")
OnCommit(n)             == Receives(n, "Commit")
OnTimeout(n)            == Receives(n, "Timeout")
OnTimeoutCertificate(n) == Receives(n, "TimeoutCertificate")
OnSyncRequest(n)        == Receives(n, "SyncRequest")

TimeoutTick(n) ==
    /\ Idle(n) /\ st[n].tstate = "Scheduled"
    /\ n \in Impatient /\ st[n].view < MaxView
    /\ Becomes(n, on_timeout_tick(n, st[n]))

\* Blocks reach the node state in order, once some validator committed them.
NewBlock(n) ==
    /\ Idle(n) /\ st[n].tag = "Joining"
    /\ \E v \in Validators : \E i \in DOMAIN st[v].commits :
         /\ st[v].commits[i].prop.slot = st[n].applied + 1
         /\ Becomes(n, handle_node_state_event(st[n], st[v].commits[i].prop))

Restart(n) ==
    /\ Idle(n) /\ n \in Restarting /\ restarts < MaxRestarts
    /\ restarts' = restarts + 1
    /\ \E height \in st[n].applied .. st[n].slot - 1 :
         st' = [st EXCEPT ![n] = wait_genesis(st[n], height)]
    /\ UNCHANGED msgs

-----------------------------------------------------------------------------
(* Initial states: slot 1 after the genesis block, where no timeout is      *)
(* scheduled, or any later slot (numbered 1) right after everybody committed *)
(* the one before.                                                         *)

ParentQC == QuorumCertificate("ConfirmAck", NoHash, Validators)

InitialState(n, boot) ==
    LET leads == round_leader(1, 0) = n
        steady == boot = "steady"
    IN  [slot |-> 1, view |-> 0, parent |-> NoHash, cp |-> DefaultProposal(0),
         tag |-> IF leads THEN "Leader" ELSE "Follower",
         step |-> "StartNewSlot", votes |-> {}, acks |-> {},
         ticket |-> IF ~leads THEN None
                    ELSE IF steady THEN CommitTicket(ParentQC)
                    ELSE GenesisTicket,
         bqc |-> IF steady THEN ParentQC ELSE None,
         prepares |-> {}, children |-> {}, next |-> None,
         reqs |-> {}, tstate |-> IF steady THEN "Scheduled" ELSE "Inactive",
         hqc |-> None, synced |-> 0, applied |-> 0,
         cmds |-> IF leads THEN {TRUE} ELSE {},
         life |-> 0, commits |-> <<>>, out |-> <<>>]

Init ==
    /\ \E boot \in Boots : st = [n \in Validators |-> InitialState(n, boot)]
    /\ msgs = {} /\ restarts = 0

ValidatorStep(n) ==
    \/ StartNewSlot(n) \/ OnPrepare(n) \/ OnSyncReply(n) \/ FastForward(n)
    \/ OnPrepareVote(n) \/ OnConfirm(n) \/ OnConfirmAck(n) \/ OnCommit(n)
    \/ OnTimeout(n) \/ OnTimeoutCertificate(n) \/ OnSyncRequest(n)
    \/ TimeoutTick(n) \/ NewBlock(n) \/ Restart(n)

Next == \E n \in Validators : ValidatorStep(n)

Spec == Init /\ [][Next]_vars

-----------------------------------------------------------------------------
(* Types.                                                                  *)

Hash    == [slot : Nat, born : Int, fees : BOOLEAN]
Prop    == [slot : Nat, born : Int, fees : BOOLEAN, parent : Hash]
Payload == [slot : Nat, view : Int, parent : Hash]
QC      == [marker : {"PrepareVote", "ConfirmAck", "ConsensusTimeout"},
            hash : Hash \cup Payload, signers : SUBSET Validators]
Kind    == {NilProposal} \cup [qc : QC, prop : Prop]
Ticket  == {GenesisTicket} \cup [type : {"CommitQC"}, qc : QC]
             \cup [type : {"TimeoutQC"}, qc : QC, kind : Kind]
Prepare == [src : Validators, prop : Prop, ticket : Ticket, view : Nat]

\* The content of a network message, by type.
Message ==
         [type : {"Prepare"}, src : Validators, prop : Prop, ticket : Ticket,
          view : Nat]
    \cup [type : {"PrepareVote", "ConfirmAck", "SyncRequest"},
          src : Validators, hash : Hash]
    \cup [type : {"Confirm", "Commit"}, hash : Hash, qc : QC]
    \cup [type : {"Timeout"}, src : Validators, slot : Nat, view : Nat,
          parent : Hash, kind : Kind]
    \cup [type : {"TimeoutCertificate"}, qc : QC, kind : Kind, slot : Nat,
          view : Nat]
    \cup [type : {"SyncReply"}, prepare : Prepare]

Envelope == [to : SUBSET Validators, msg : Message]

Vote      == [src : Validators, hash : Hash]
Child     == [parent : Hash, child : Hash]
Requests  == [src : Validators, kind : Kind]
HighestQC == [slot : Nat, qc : QC]
Committed == [prop : Prop, qc : QC]

State ==
    [slot : Nat, view : Nat, parent : Hash, cp : Prop,
     tag : {"Joining", "Leader", "Follower"},
     step : {"StartNewSlot", "PrepareVote", "ConfirmAck"},
     votes : SUBSET Vote, acks : SUBSET Vote,
     ticket : Ticket \cup {None}, bqc : QC \cup {None},
     prepares : SUBSET Prepare, children : SUBSET Child,
     next : Prepare \cup {None}, reqs : SUBSET Requests,
     tstate : {"Inactive", "Scheduled", "CertificateEmitted"},
     hqc : HighestQC \cup {None}, synced : Nat, applied : Nat,
     cmds : SUBSET BOOLEAN, life : Nat, commits : Seq(Committed), out : Seq(Envelope)]

\* None is the absence of a value.
ASSUME NoneAssumption == None \notin HighestQC \cup Prepare \cup Ticket \cup QC

TypeOK ==
    /\ st \in [Validators -> State]
    /\ msgs \in SUBSET Envelope
    /\ restarts \in 0 .. MaxRestarts

-----------------------------------------------------------------------------
(* Properties.                                                             *)

Messages(type) == {e.msg : e \in {e \in msgs : e.msg.type = type}}

Commits(n) == {st[n].commits[i] : i \in DOMAIN st[n].commits}

\* Two validators never commit different proposals for a slot.  The code does
\* NOT have this property once a view can change: see the README.
Agreement ==
    \A m, n \in Validators : \A c \in Commits(m), d \in Commits(n) :
      c.prop.slot = d.prop.slot => c.prop = d.prop

\* A leader makes one proposal per view: every Prepare of a slot and view,
\* reproposals after a timeout included, carries the same proposal.
OneProposalPerView ==
    \A p, q \in Messages("Prepare") :
      p.prop.slot = q.prop.slot /\ p.view = q.view => p.prop = q.prop

\* No view of the slot but the first was left so far.
FirstChange(slot) ==
    \A m \in Messages("Timeout") : m.slot = slot => m.view = 0

\* "There is a chance one had committed on some validator and we must propose
\* the same": at the first view change of a slot, a leader whose timeout
\* certificate comes with a prepare certificate of the slot proposes what was
\* certified.  At later ones, and once a validator has restarted, the code does
\* not: see the README.
ReproposesCertified ==
    \A p \in Messages("Prepare") :
      (/\ p.ticket.type = "TimeoutQC" /\ p.ticket.kind # NilProposal
       /\ p.ticket.kind.qc.hash.slot = p.prop.slot /\ FirstChange(p.prop.slot))
        => p.prop = p.ticket.kind.prop

Voters(type, hash) == {m.src : m \in {m \in Messages(type) : m.hash = hash}}

\* Behind every commit certificate, whichever path it took to the validator,
\* there is a leader that proposed exactly this proposal and has, with its own
\* voting power, a quorum of PrepareVotes for it, and a quorum that signed the
\* certificate: each of them sent a ConfirmAck for it, except for the one
\* validator that collected them.
CertifiedCommits ==
    \A n \in Validators : \A c \in Commits(n) :
      c.qc # EmptyQC =>
        /\ c.qc.hash = hashed(c.prop)
        /\ \E p \in Messages("Prepare") :
             /\ p.prop = c.prop
             /\ IsQuorum(compute_voting_power(
                           Voters("PrepareVote", c.qc.hash) \cup {p.src}))
        /\ IsQuorum(compute_voting_power(c.qc.signers))
        /\ \E leader \in Validators :
             c.qc.signers \subseteq Voters("ConfirmAck", c.qc.hash) \cup {leader}

\* "It's safe to fast-forward": a proposal committed without a certificate on
\* the word of a timeout certificate of the next slot was committed by some
\* validator with a certificate.
ForcedCommitsAreCertified ==
    \A n \in Validators : \A c \in Commits(n) :
      c.qc = EmptyQC =>
        \E m \in Validators : \E d \in Commits(m) :
          d.prop = c.prop /\ d.qc # EmptyQC

\* A validator is in view v + 1 only if a quorum asked to leave view v.
ViewChangesAreCertified ==
    \A n \in Validators :
      st[n].view > 0 =>
        IsQuorum(compute_voting_power(
          {m.src : m \in {m \in Messages("Timeout") :
                            /\ m.slot = st[n].slot
                            /\ m.view = st[n].view - 1}}))

\* A validator moves from a slot to the next exactly when it commits the
\* proposal of the slot it leaves, on every one of the commit paths, and the
\* next slot builds on what was committed.  Only a Joining validator jumps.
CommitStep(s, t) ==
    \/ t.commits = s.commits /\ (t.slot = s.slot \/ s.tag = "Joining")
    \/ /\ t.commits # s.commits
       /\ t.commits = Append(s.commits, t.commits[Len(t.commits)])
       /\ LET c == t.commits[Len(t.commits)]
          IN  /\ t.slot = c.prop.slot + 1 /\ t.parent = hashed(c.prop)
              /\ t.slot = s.slot + 1 \/ s.tag = "Joining"

CommitStream == [][\A n \in Validators : CommitStep(st[n], st'[n])]_vars

\* No slot is skipped: each one below the current slot was committed by the
\* validator's consensus or delivered to it as a block, restarts included.
NoGap ==
    \A n \in Validators : \A k \in 1 .. st[n].slot - 1 :
      k <= st[n].applied \/ \E c \in Commits(n) : c.prop.slot = k

\* A timeout request with a prepare certificate carries the proposal the
\* certificate is for.  The code does NOT have this property.
TimeoutsCarryMatchingProposal ==
    \A m \in Messages("Timeout") :
      m.kind # NilProposal => m.kind.qc.hash = hashed(m.kind.prop)

=============================================================================
