---------------------------- MODULE ConsensusFifo ----------------------------
(***************************************************************************)
(* Consensus over the links it really runs on between live nodes: one TCP  *)
(* connection per pair of validators, which delivers every message once and *)
(* in the order sent.  Some validators may be dead from the beginning.      *)
(* The handlers are those of Consensus; here progress can be asked for.     *)
(***************************************************************************)
EXTENDS Consensus

CONSTANT DeadSets   \* which sets of validators may be dead from the beginning

ASSUME DeadAssumption == DeadSets \subseteq SUBSET Validators /\ Lost = {}

VARIABLES
    links,  \* links[<<m, n>>]: what m sent to n and n has not handled yet
    dead    \* the validators that never take a step

fifoVars == <<vars, links, dead>>

FifoInit ==
    /\ Init
    /\ links = [l \in Validators \X Validators |-> <<>>]
    /\ dead \in DeadSets

\* Put on its links what n sent in the step that left it in state w.
SentTo(w, n) == SelectSeq(w.out, LAMBDA e : n \in e.to)

\* The step that leaves n in state w, after taking the head of the links in R.
LinkStep(n, w, R) ==
    /\ n \notin dead /\ UNCHANGED dead
    /\ Becomes(n, w)
    /\ links' = [l \in DOMAIN links |->
         LET rest == IF l \in R THEN Tail(links[l]) ELSE links[l]
         IN  IF l[1] = n THEN rest \o SentTo(w, l[2]) ELSE rest]

Deliver(m, n) ==
    /\ Idle(n) /\ links[<<m, n>>] # <<>>
    /\ LET msg == Head(links[<<m, n>>]).msg
       IN  \E valid \in OutcomesOf(msg) :
             LinkStep(n, handle_net_message(n, st[n], msg, valid), {<<m, n>>})

FifoStartNewSlot(n) ==
    /\ Idle(n) /\ st[n].slot <= MaxSlot
    /\ \E may_delay \in st[n].cmds, delay \in BOOLEAN, fees \in Fees :
         LinkStep(n, start_round(n, [st[n] EXCEPT !.cmds = @ \ {may_delay}],
                                 may_delay, delay, fees), {})

FifoFastForward(n) ==
    /\ ~Idle(n)
    /\ \E valid \in Outcomes(st[n].next.prop) :
         LinkStep(n, on_prepare(n, st[n], st[n].next, valid), {})

\* TIMEOUT_SECS is long compared to a round: it expires only in a round whose
\* leader is dead.  bound: once per view, as nothing is lost.
FifoTimeoutTick(n) ==
    /\ Idle(n) /\ st[n].tstate = "Scheduled"
    /\ n \in Impatient /\ st[n].view < MaxView
    /\ round_leader(st[n].slot, st[n].view) \in dead
    /\ \A r \in st[n].reqs : r.src # n
    /\ LinkStep(n, on_timeout_tick(n, st[n]), {})

FifoNext ==
    \E n \in Validators :
      \/ FifoStartNewSlot(n) \/ FifoFastForward(n) \/ FifoTimeoutTick(n)
      \/ \E m \in Validators : Deliver(m, n)

\* Connections deliver, the bus delivers, the ticker ticks.
FifoFairness ==
    \A n \in Validators :
      /\ WF_fifoVars(FifoStartNewSlot(n)) /\ WF_fifoVars(FifoFastForward(n))
      /\ WF_fifoVars(FifoTimeoutTick(n))
      /\ \A m \in Validators : WF_fifoVars(Deliver(m, n))

FifoSpec == FifoInit /\ [][FifoNext]_fifoVars /\ FifoFairness

-----------------------------------------------------------------------------

\* Every slot is eventually committed, through a dead leader's slots too, as
\* long as the live validators form a quorum; and every live validator commits
\* all of them except, when the system stops there, the last: a Commit that
\* overtakes its Prepare is dropped, and made good by the next slot's ticket.
EverySlotCommitted ==
    /\ <>(\E n \in Validators : st[n].slot > MaxSlot)
    /\ <>(\A n \in Validators \ dead : st[n].slot >= MaxSlot)

=============================================================================
