---------------------------- MODULE SlotConsensus ----------------------------
(***************************************************************************)
(* One slot of the log, decided by QuePaxa among N replicas: the recorder  *)
(* role (on_record), the proposer role (activate, drive, on_record_reply,  *)
(* retransmit_due) and the dissemination of the decision (decide_slot) of  *)
(* src/replica.rs, over the registers of Isr and the runs of ProposerRun.  *)
(*                                                                         *)
(* The network loses, duplicates and reorders: a message once sent stays   *)
(* in its set and may be handled any number of times, at any time, or      *)
(* never.  Time is abstracted: a hedging or retransmission deadline may    *)
(* pass whenever it likes, so any replica may activate at any moment.  A   *)
(* crashed replica (the model is crash-stop) is one that takes no more     *)
(* steps.  A slot that a replica has freed (slot <= gc_floor) is one it    *)
(* no longer answers for, which is message loss.                           *)
(***************************************************************************)
EXTENDS Isr, ProposerRun

CONSTANTS Up,       \* the replicas that ever take a step (the others are dead)
          Batches,  \* for each replica, the batches it may activate with
          MaxStep   \* bound: no run advances past this step

ASSUME UpAssumption == Up \subseteq Replica
ASSUME BatchesAssumption == Batches \in [Replica -> SUBSET Value]
ASSUME MaxStepAssumption == MaxStep \in Nat /\ MaxStep >= 4

VARIABLES
  isr,      \* the open register of each recorder (RecorderSlot::Open)
  decided,  \* its decided value (RecorderSlot::Decided), or NoValue
  run,      \* each replica's run (ProposerState::Running), or NotRunning
  records, replies, decides,  \* messages sent
  firsts, aggs  \* history: the first and the greatest proposal each recorder
                \* has recorded in each step

vars == <<isr, decided, run, records, replies, decides, firsts, aggs>>

NoValue == 0
Steps == 0..MaxStep

RecordMsg == [from : Replica, to : Replica, step : Nat, proposal : Proposal]
ReplyMsg == [from : Replica, to : Replica, req : Nat, step : Nat,
             first : ProposalOrNil, prior : ProposalOrNil]
DecideMsg == [from : Replica, to : Replica, value : Value]

Running(i) == run[i].step > 0
Open(i) == decided[i] = NoValue

Init ==
  /\ isr = [i \in Replica |-> EmptyIsr]
  /\ decided = [i \in Replica |-> NoValue]
  /\ run = [i \in Replica |-> NotRunning]
  /\ records = {} /\ replies = {} /\ decides = {}
  /\ firsts = [i \in Replica |-> [s \in Steps |-> Nil]]
  /\ aggs = [i \in Replica |-> [s \in Steps |-> Nil]]

-----------------------------------------------------------------------------
\* Recorder i records p at `step`, its register becoming `after`.
RecordAt(i, step, p) ==
  LET after == Recorded(isr[i], step, p)
  IN  /\ isr' = [isr EXCEPT ![i] = after]
      /\ firsts' = [firsts EXCEPT ![i][after.step] = after.first]
      /\ aggs' = [aggs EXCEPT ![i][after.step] = after.cur]

\* Mutant: a proposer forgets to count its own recorder.
NeverFolded(r, i, mine) == r

\* drive: the run r once it has folded the summary of its own recorder.
LocallyFolded(r, i, mine) ==
  IF Counts(r, i, r.step, mine.step) THEN Counted(r, i, mine.first, mine.prior) ELSE r

\* drive, once i's own recorder is not ahead of the run r: record locally,
\* fold the local summary, and send the step to every other recorder.
Transmit(i, r) ==
  LET mine == Recorded(isr[i], r.step, ProposalFor(r, i))
  IN  /\ RecordAt(i, r.step, ProposalFor(r, i))
      /\ run' = [run EXCEPT ![i] = LocallyFolded(r, i, mine)]
      /\ records' = records \cup
           {[from |-> i, to |-> j, step |-> r.step,
             proposal |-> ProposalFor(r, j)] : j \in Replica \ {i}}
      /\ UNCHANGED <<decided, replies, decides>>

\* Mutant: catching up, a proposer keeps its own value.
CaughtUpKeepingValue(i, r, step, first, draws) ==
  BegunStep(i, step, [first EXCEPT !.value = r.proposal.value], draws)

\* fold, first outcome: the run r of i catches up with a recorder that is ahead.
CaughtUp(i, r, step, first, draws) == BegunStep(i, step, first, draws)

\* drive: if the local recorder is ahead, the run first catches up with it.
\* (With N >= 2 the local summary alone is never a quorum.)
Drive(i, r) ==
  \/ /\ ~IsAhead(r, isr[i].step)
     /\ Transmit(i, r)
  \/ /\ IsAhead(r, isr[i].step)
     /\ \E draws \in Draws(i, isr[i].step) :
          Transmit(i, CaughtUp(i, r, isr[i].step, isr[i].first, draws))

\* activate, on behalf of the leader's pipeline or of a due hedge.
Activate(i) ==
  /\ Open(i) /\ ~Running(i)
  /\ \E v \in Batches[i], draws \in Draws(i, 4) : Drive(i, Started(i, v, draws))

\* Mutant: a retransmission draws its priorities anew.
RetransmitRedrawn(i) ==
  /\ Running(i)
  /\ \E draws \in Draws(i, run[i].step) : Drive(i, [run[i] EXCEPT !.draws = draws])

\* retransmit_due: send the current step again as it is.
Retransmit(i) ==
  /\ Running(i)
  /\ Drive(i, run[i])

\* decide_slot for an undecided slot.
Decided(i, v) ==
  /\ decided' = [decided EXCEPT ![i] = v]
  /\ isr' = [isr EXCEPT ![i] = EmptyIsr]
  /\ run' = [run EXCEPT ![i] = NotRunning]
  /\ UNCHANGED <<records, replies, firsts, aggs>>

\* The decider tells every other replica, once.
DecideAndTell(i, v) ==
  /\ Decided(i, v)
  /\ decides' = decides \cup
       {[from |-> i, to |-> j, value |-> v] : j \in Replica \ {i}}

-----------------------------------------------------------------------------
\* on_record, slot decided: answer with the decision.
OnRecordDecided(i) ==
  /\ ~Open(i)
  /\ \E m \in records :
       /\ m.to = i
       /\ decides' = decides \cup {[from |-> i, to |-> m.from, value |-> decided[i]]}
  /\ UNCHANGED <<isr, decided, run, records, replies, firsts, aggs>>

\* on_record, slot open: record, and answer with the summary.
OnRecordOpen(i) ==
  /\ Open(i)
  /\ \E m \in records :
       LET after == Recorded(isr[i], m.step, m.proposal)
       IN  /\ m.to = i
           /\ RecordAt(i, m.step, m.proposal)
           /\ replies' = replies \cup
                {[from |-> i, to |-> m.from, req |-> m.step, step |-> after.step,
                  first |-> ReplyFirst(after, m.step, m.proposal),
                  prior |-> after.prior]}
  /\ UNCHANGED <<decided, run, records, decides>>

\* The quorum branch of on_record_reply: step_complete on the run r.
Complete(i, r) ==
  \/ DecidesFast(r) /\ DecideAndTell(i, r.bestFirst.value)
  \/ DecidesSlow(r) /\ DecideAndTell(i, r.proposal.value)
  \/ /\ Stalls(r)
     /\ run' = [run EXCEPT ![i] = ResetTracking(r)]
     /\ UNCHANGED <<isr, decided, records, replies, decides, firsts, aggs>>
  \/ /\ ~DecidesFast(r) /\ ~DecidesSlow(r) /\ ~Stalls(r)
     /\ r.step < MaxStep
     /\ \E draws \in Draws(i, r.step + 1) :
          Drive(i, BegunStep(i, r.step + 1, NextProposal(r), draws))

\* Mutant: an echo stands for the proposal before its priority was drawn.
ResolvedToTemplate(r, m) == IF m.first = Echo THEN r.proposal ELSE m.first

\* on_record_reply: the `first` of the reply m to the run r.
Resolved(r, m) == IF m.first = Echo THEN ProposalFor(r, m.from) ELSE m.first

\* on_record_reply.  An echo can only be resolved while the send it refers
\* to is the run's current one.
OnRecordReply(i) ==
  /\ Running(i)
  /\ \E m \in replies :
       LET first == Resolved(run[i], m)
           counted == Counted(run[i], m.from, first, m.prior)
       IN  /\ m.to = i
           /\ m.first = Echo => m.req = run[i].step
           /\ \/ /\ IsAhead(run[i], m.step)
                 /\ \E draws \in Draws(i, m.step) :
                      Drive(i, CaughtUp(i, run[i], m.step, first, draws))
              \/ /\ Counts(run[i], m.from, m.req, m.step)
                 /\ \/ /\ ~HasQuorum(counted)
                       /\ run' = [run EXCEPT ![i] = counted]
                       /\ UNCHANGED <<isr, decided, records, replies, decides,
                                      firsts, aggs>>
                    \/ HasQuorum(counted) /\ Complete(i, counted)

\* receive(Decide) for a slot still open.
OnDecide(i) ==
  /\ Open(i)
  /\ \E m \in decides : m.to = i /\ Decided(i, m.value)
  /\ UNCHANGED decides

Next ==
  \E i \in Up :
    \/ Activate(i) \/ Retransmit(i)
    \/ OnRecordDecided(i) \/ OnRecordOpen(i) \/ OnRecordReply(i) \/ OnDecide(i)

Spec == Init /\ [][Next]_vars

\* Fairness, for slots with a single proposer.  A tick eventually activates
\* and retransmits, and a message retransmitted for ever is eventually handled
\* by a replica that is up.  Nothing is assumed of OnDecide: a decision is
\* broadcast once.
Fairness ==
  \A i \in Up : /\ WF_vars(Activate(i)) /\ WF_vars(Retransmit(i))
                /\ WF_vars(OnRecordOpen(i)) /\ WF_vars(OnRecordDecided(i))
                /\ WF_vars(OnRecordReply(i))

FairSpec == Spec /\ Fairness

-----------------------------------------------------------------------------
(* Properties. *)

\* The types of the variables.
TypeOK ==
  /\ isr \in [Replica -> IsrSlot]
  /\ decided \in [Replica -> Value \cup {NoValue}]
  /\ run \in [Replica -> Run]
  /\ records \subseteq RecordMsg
  /\ replies \subseteq ReplyMsg
  /\ decides \subseteq DecideMsg
  /\ firsts \in [Replica -> [Steps -> ProposalOrNil]]
  /\ aggs \in [Replica -> [Steps -> ProposalOrNil]]

\* Two replicas that have decided the slot have decided the same value,
\* whether through the fast path, phase 2 or a Decide message (decide_slot).
Agreement ==
  \A i, j \in Replica : ~Open(i) /\ ~Open(j) => decided[i] = decided[j]

\* The slot implements Consensus: a decision is a value some proposer sent, it
\* agrees with every earlier one, and a replica never changes its mind.
C == INSTANCE Consensus WITH proposed <- {m.proposal.value : m \in records},
                             decision <- decided
ImplementsConsensus == C!Spec

\* Within a step a proposer never throws away the replies it has counted: the
\* defensive stall of step_complete ("phase-3 quorum returned only nil
\* aggregates", a debug_assert) is never reached.
NeverStalls ==
  [][\A i \in Replica :
       Running(i) /\ run'[i].step = run[i].step => run[i].replied \subseteq run'[i].replied
    ]_vars

\* What a proposer has folded is what the recorders hold: its best first and
\* best aggregate are those of the recorders it counted (an elided echo is
\* resolved to the proposal really recorded first), and each of these
\* recorders has taken its own proposal of the step into account.
Faithful(F, A, r) ==
  /\ IsHighest(r.bestFirst, {F[j][r.step] : j \in r.replied} \cup {Nil})
  /\ IsHighest(r.bestAgg, {A[j][r.step - 1] : j \in r.replied} \cup {Nil})
  /\ r.allHigh <=> \A j \in r.replied : F[j][r.step].priority = PriorityH
  /\ \A j \in r.replied : Leq(ProposalFor(r, j), A[j][r.step])

FoldIsFaithful == \A i \in Replica : Running(i) => Faithful(firsts, aggs, run[i])

Quorums == {Q \in SUBSET Replica : Cardinality(Q) = QuorumSize}

\* What phases 0 and 1 establish for phase 2 (the paper's threshold broadcast):
\* every proposal of a phase 2 had been taken into account by a majority of the
\* recorders in phase 1, so that no phase-2 aggregate of a majority misses it.
SpreadBeforePhase2 ==
  \A m \in records : Phase(m.step) = 2 =>
    \E Q \in Quorums : \A j \in Q : Leq(m.proposal, aggs[j][m.step - 1])

\* A proposer has one identity per recorder and step, and one for all of them
\* outside a randomized phase 0: no retransmission ("byte-identical") and no
\* catch-up gives it a second one.
OneProposalPerStep ==
  \A m1, m2 \in records :
    /\ m1.from = m2.from /\ m1.step = m2.step
    /\ m1.to = m2.to \/ NoDraws \in Draws(m1.from, m1.step)
    => m1.proposal = m2.proposal

\* New values enter a slot in its first step only (Run::start): whatever is
\* proposed later was proposed in the step it was gathered from, the previous
\* one or, for a new round, phase 2 of the round before, whether the proposer
\* advanced or caught up.
GatheredFrom(step) == IF Phase(step) = 0 THEN step - 2 ELSE step - 1

NoNewValues ==
  \A m \in records : m.step > 4 =>
    \E m0 \in records : /\ m0.step = GatheredFrom(m.step)
                        /\ m0.proposal.value = m.proposal.value

\* "Its value is already unbeatable": once a majority of recorders have seen a
\* reserved-priority proposal first in round 1, every proposal of a later step
\* carries that value, although nobody may have decided yet.
FastPathUnbeatable ==
  \A v \in Value :
    (\E Q \in Quorums :
       \A j \in Q : firsts[j][4].priority = PriorityH /\ firsts[j][4].value = v)
    => \A m \in records : m.step > 4 => m.proposal.value = v

\* A proposer that is alone, with a majority up, decides the slot: in any
\* position of the schedule and with any minority dead.
ProposersDecide ==
  \A i \in Up : Batches[i] # {} => <>(~Open(i))
=============================================================================
