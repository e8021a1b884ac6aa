---------------------------- MODULE SlotInvariant ----------------------------
(***************************************************************************)
(* An inductive invariant of SlotConsensus, strong enough for Agreement.   *)
(* It says what every message, run and register owes to the history of the *)
(* recorders (firsts and aggs), and what a proposal of each phase owes to  *)
(* the majority it was gathered from.                                      *)
(*                                                                         *)
(* The operators that are evaluated both before and after a step take the  *)
(* history they speak of as parameters: F for firsts, A for aggs, R for    *)
(* records.                                                                *)
(***************************************************************************)
EXTENDS SlotConsensus

\* Only a register that has recorded nothing, and only a replica without a run,
\* have Nil for a proposal.
ProposalsPresent ==
  \A i \in Replica : /\ isr[i].step > 0 => isr[i].first \in Proposal
                     /\ Running(i) => run[i].proposal \in Proposal

TypeInv == TypeOK /\ ProposalsPresent

-----------------------------------------------------------------------------
(* What was recorded, sent and answered. *)

\* The register x of recorder i holds the end of its history.
HoldsHistory(F, A, x, i) ==
  /\ x.step = 0 \/ x.step \in 4..MaxStep
  /\ \A t \in Steps : t > x.step => F[i][t] = Nil /\ A[i][t] = Nil
  /\ x.step > 0 => /\ x.first = F[i][x.step]
                   /\ x.cur = A[i][x.step]
                   /\ x.prior = A[i][x.step - 1]

RegistersHoldHistory ==
  \A i \in Replica : Open(i) => HoldsHistory(firsts, aggs, isr[i], i)

\* p was proposed in step s.  In a randomized phase 0 its priority is that of
\* one recorder, and only its value counts.
SentAs(R, s, p) ==
  \E m \in R :
    /\ m.step = s
    /\ m.proposal.value = p.value
    /\ Phase(s) # 0 \/ p.priority = PriorityH => m.proposal = p

\* What is recorded was proposed.
HistoryIsSent ==
  \A i \in Replica, s \in Steps :
    /\ firsts[i][s] = Nil <=> aggs[i][s] = Nil
    /\ firsts[i][s] # Nil =>
         SentAs(records, s, firsts[i][s]) /\ SentAs(records, s, aggs[i][s])

\* A run is in the last step that its proposer has sent, and has sent it to all.
RunsAreSent ==
  \A i \in Replica : Running(i) =>
    /\ Open(i)
    /\ run[i].step \in 4..MaxStep /\ run[i].step <= isr[i].step
    /\ run[i].draws \in Draws(i, run[i].step)
    /\ \A j \in Replica \ {i} :
         [from |-> i, to |-> j, step |-> run[i].step,
          proposal |-> ProposalFor(run[i], j)] \in records

SendersRun ==
  \A m \in records : Open(m.from) =>
    /\ Running(m.from)
    /\ m.step <= run[m.from].step
    /\ m.step = run[m.from].step => m.proposal = ProposalFor(run[m.from], m.to)

RecordsInRange == \A m \in records : m.step \in 4..MaxStep

\* The reserved priority is the leader's, in the first step.
HighIsLeaders ==
  \A m \in records :
    Phase(m.step) = 0 /\ m.proposal.priority = PriorityH => m.step = 4 /\ m.from = Leader

\* A reply tells the history of its recorder, and that the record it answers
\* has been taken into account.
TellsHistory(F, A, R, m) ==
  /\ m.step \in 4..MaxStep
  /\ F[m.from][m.step] # Nil
  /\ m.prior = A[m.from][m.step - 1]
  /\ m.first # Echo => m.first = F[m.from][m.step]
  /\ \E rec \in R :
       /\ rec.from = m.to /\ rec.to = m.from /\ rec.step = m.req
       /\ m.req = m.step => Leq(rec.proposal, A[m.from][m.step])
       /\ m.first = Echo => m.req = m.step /\ rec.proposal = F[m.from][m.step]

RepliesTellHistory == \A m \in replies : TellsHistory(firsts, aggs, records, m)

-----------------------------------------------------------------------------
(* Why a proposal is proposed. *)

\* A phase-1 proposal is the best of a majority's first proposals of phase 0.
Gathered(F, s, p) ==
  \E Q \in Quorums : /\ \A j \in Q : F[j][s - 1] # Nil
                     /\ IsHighest(p, {F[j][s - 1] : j \in Q})

\* A majority took a proposal of phase 2 or 3 into account in the step before.
Spread(A, s, p) ==
  \E Q \in Quorums : \A j \in Q : Leq(p, A[j][s - 1])

\* A new round starts from the best that a majority had seen in phase 2 when it
\* was over.
Carried(F, A, s, v) ==
  \E Q \in Quorums, p \in Proposal :
    /\ p.value = v
    /\ IsHighest(p, {A[j][s - 2] : j \in Q})
    /\ \A j \in Q : F[j][s - 1] # Nil

\* The value has been proposed in every step, except perhaps phases 3, before s.
Inherited(R, s, v) ==
  \A t \in 4..(s - 1) : Phase(t) # 3 => \E m \in R : m.step = t /\ m.proposal.value = v

Justified(F, A, R, s, p) ==
  /\ Phase(s) = 1 => Gathered(F, s, p)
  /\ Phase(s) \in {2, 3} => Spread(A, s, p)
  /\ Phase(s) = 0 /\ s > 4 => Carried(F, A, s, p.value)
  /\ Inherited(R, s, p.value)

AllJustified == \A m \in records : Justified(firsts, aggs, records, m.step, m.proposal)

-----------------------------------------------------------------------------
(* What a majority of recorders shows when v has been decided. *)

\* In phase 0: all of them saw v first, under the reserved priority.
FastDecision(F, v) ==
  \E Q \in Quorums : \A j \in Q : F[j][4].priority = PriorityH /\ F[j][4].value = v

\* In phase 2: p was the best of their phase 1, and got into their phase 2.
Confirmed(A, s, p, Q) ==
  /\ s > 4 /\ Phase(s) = 2
  /\ IsHighest(p, {A[j][s - 1] : j \in Q})
  /\ \A j \in Q : Leq(p, A[j][s])

SlowDecision(A, v) ==
  \E s \in Steps, p \in Proposal, Q \in Quorums : p.value = v /\ Confirmed(A, s, p, Q)

Decision(F, A, v) == FastDecision(F, v) \/ SlowDecision(A, v)

DecisionsAreBacked ==
  /\ \A i \in Replica : ~Open(i) => Decision(firsts, aggs, decided[i])
  /\ \A m \in decides : Decision(firsts, aggs, m.value)

Inv ==
  /\ TypeInv
  /\ RegistersHoldHistory /\ HistoryIsSent /\ RunsAreSent /\ SendersRun
  /\ RecordsInRange /\ OneProposalPerStep /\ HighIsLeaders
  /\ RepliesTellHistory /\ FoldIsFaithful
  /\ AllJustified /\ DecisionsAreBacked
=============================================================================
