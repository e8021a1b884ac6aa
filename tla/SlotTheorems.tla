---------------------------- MODULE SlotTheorems ----------------------------
(***************************************************************************)
(* What follows from Inv: the safety properties of SlotConsensus, for any  *)
(* number of replicas, any priorities, any values and any number of steps. *)
(***************************************************************************)
EXTENDS SlotSafety

-----------------------------------------------------------------------------
(* A decision is final. *)

\* Two majorities share a replica.
LEMMA QuorumsMeet ==
  ASSUME NEW P \in Quorums, NEW Q \in Quorums
  PROVE  \E k \in Replica : k \in P /\ k \in Q
<1>1. P \cap Q # {} /\ P \subseteq Replica
  BY MajoritiesIntersect DEF Quorums
<1>. QED  BY <1>1

LEMMA HistoryTyped ==
  ASSUME Inv
  PROVE  /\ firsts \in History /\ aggs \in History
         /\ \A m \in records : m.step \in 4..MaxStep /\ m.step \in Nat /\ m.proposal \in Proposal
BY DEF Inv, TypeInv, TypeOK, History, RecordsInRange, RecordMsg

\* What a recorder has as its greatest was proposed, with its justification.
LEMMA AggIsSent ==
  ASSUME Inv, NEW j \in Replica, NEW s \in Steps, aggs[j][s] # Nil
  PROVE  /\ SentAs(records, s, aggs[j][s])
         /\ Justified(firsts, aggs, records, s, aggs[j][s])
<1>1. SentAs(records, s, aggs[j][s])
  BY DEF Inv, HistoryIsSent
<1>. QED  BY <1>1, SentIsJustified

\* Once a majority has seen the fast path's proposal first, whatever is proposed
\* later carries its value.
LEMMA FastIsFinal ==
  ASSUME Inv, NEW v, FastDecision(firsts, v), NEW m \in records, m.step > 4
  PROVE  m.proposal.value = v
<1>1. PICK Q \in Quorums : \A j \in Q : firsts[j][4].priority = PriorityH /\ firsts[j][4].value = v
  BY DEF FastDecision
<1>2. 4 \in Steps /\ Phase(4) = 0
  BY MaxStepAssumption DEF Steps, Phase
<1>3. ASSUME NEW x \in records, x.step = 5 PROVE x.proposal.value = v
  <2>1. Gathered(firsts, 5, x.proposal)
    <3>1. Justified(firsts, aggs, records, 5, x.proposal)
      BY <1>3 DEF Inv, AllJustified
    <3>. QED  BY <3>1 DEF Justified, Phase
  <2>2. PICK P \in Quorums : IsHighest(x.proposal, {firsts[j][4] : j \in P})
    <3>1. 5 - 1 = 4
      OBVIOUS
    <3>. QED  BY <2>1, <3>1, Zenon DEF Gathered
  <2>3. PICK k \in Replica : k \in P /\ k \in Q
    BY <1>1, <2>2, QuorumsMeet
  <2>4. PICK j \in P : x.proposal = firsts[j][4]
    BY <2>2 DEF IsHighest
  <2>5. Leq(firsts[k][4], x.proposal) /\ firsts[k][4].priority = PriorityH
    BY <1>1, <2>2, <2>3 DEF IsHighest
  <2>6. x.proposal.priority = PriorityH
    <3>1. x.proposal \in Proposal /\ firsts[k][4] \in ProposalOrNil
      BY <1>2, <2>3, HistoryTyped DEF History
    <3>. QED  BY <2>5, <3>1, PriorityAssumption, ProposalFields DEF Leq, Less
  <2>7. j \in Replica
    BY <2>2 DEF Quorums
  <2>8. firsts[j][4] = firsts[k][4]
    BY <1>2, <2>3, <2>4, <2>5, <2>6, <2>7, HighFirsts
  <2>. QED  BY <1>1, <2>3, <2>4, <2>8
<1>4. CASE m.step = 5
  BY <1>3, <1>4
<1>5. CASE m.step # 5
  <2>1. m.step \in Nat /\ 5 \in 4..(m.step - 1) /\ Phase(5) # 3
    BY <1>5, HistoryTyped DEF Phase
  <2>2. Inherited(records, m.step, m.proposal.value)
    BY DEF Inv, AllJustified, Justified
  <2>3. PICK x \in records : x.step = 5 /\ x.proposal.value = m.proposal.value
    BY <2>1, <2>2 DEF Inherited
  <2>. QED  BY <1>3, <2>3
<1>. QED  BY <1>4, <1>5

\* A proposal confirmed in a phase 2 is the greatest of that phase 2: all the
\* others had been spread to a majority before.
LEMMA ConfirmedIsGreatest ==
  ASSUME Inv, NEW s \in Steps, NEW p \in Proposal, NEW Q \in Quorums, Confirmed(aggs, s, p, Q),
         NEW j \in Replica
  PROVE  Leq(aggs[j][s], p)
<1>1. /\ s > 4 /\ Phase(s) = 2 /\ s - 1 \in Steps /\ s \in 4..MaxStep
      /\ \A k \in Q : Leq(aggs[k][s - 1], p)
  BY MaxStepAssumption DEF Confirmed, IsHighest, Steps
<1>2. p \in ProposalOrNil
  BY ProposalFields
<1>3. CASE aggs[j][s] = Nil
  BY <1>2, <1>3, NilIsLeast
<1>4. CASE aggs[j][s] # Nil
  <2>1. Spread(aggs, s, aggs[j][s])
    BY <1>1, <1>4, AggIsSent DEF Justified
  <2>2. PICK P \in Quorums : \A k \in P : Leq(aggs[j][s], aggs[k][s - 1])
    BY <2>1 DEF Spread
  <2>3. PICK k \in Replica : k \in P /\ k \in Q
    BY <2>2, QuorumsMeet
  <2>4. Leq(aggs[j][s], aggs[k][s - 1]) /\ Leq(aggs[k][s - 1], p)
    BY <1>1, <2>2, <2>3
  <2>5. aggs[j][s] \in ProposalOrNil /\ aggs[k][s - 1] \in ProposalOrNil
    BY <1>1, <2>3, HistoryTyped DEF History
  <2>. QED  BY <1>2, <2>4, <2>5, LeqTransitive
<1>. QED  BY <1>3, <1>4

\* From the round after it on, every proposal carries a confirmed value.
LEMMA ConfirmedIsFinal ==
  ASSUME Inv, NEW s \in Steps, NEW p \in Proposal, NEW Q \in Quorums, Confirmed(aggs, s, p, Q),
         NEW m \in records, m.step >= s + 2
  PROVE  m.proposal.value = p.value
<1>1. s > 4 /\ Phase(s) = 2 /\ s \in Nat /\ \A j \in Q : Leq(p, aggs[j][s])
  BY DEF Confirmed, Steps
<1>2. (s + 2) - 2 = s /\ s + 2 > 4 /\ Phase(s + 2) = 0
  BY <1>1 DEF Phase
<1>3. ASSUME NEW x \in records, x.step = s + 2 PROVE x.proposal.value = p.value
  <2>1. Justified(firsts, aggs, records, s + 2, x.proposal)
    BY <1>3 DEF Inv, AllJustified
  <2>2. Carried(firsts, aggs, s + 2, x.proposal.value)
    BY <1>2, <2>1 DEF Justified
  <2>3. PICK P \in Quorums, q \in Proposal : /\ q.value = x.proposal.value
                                             /\ IsHighest(q, {aggs[j][s] : j \in P})
    BY <1>2, <2>2 DEF Carried
  <2>4. PICK k \in Replica : k \in P /\ k \in Q
    BY <2>3, QuorumsMeet
  <2>5. Leq(p, aggs[k][s]) /\ Leq(aggs[k][s], q)
    BY <1>1, <2>3, <2>4 DEF IsHighest
  <2>6. PICK j \in P : q = aggs[j][s]
    BY <2>3 DEF IsHighest
  <2>7. Leq(q, p)
    BY <2>3, <2>6, ConfirmedIsGreatest DEF Quorums
  <2>8. /\ p \in ProposalOrNil /\ q \in ProposalOrNil /\ aggs[k][s] \in ProposalOrNil
    BY <2>4, HistoryTyped, ProposalFields DEF History
  <2>9. Leq(p, q)
    BY <2>5, <2>8, LeqTransitive
  <2>10. p = q
    BY <2>7, <2>8, <2>9, LeqAntisymmetric
  <2>. QED  BY <2>3, <2>10
<1>4. CASE m.step = s + 2
  BY <1>3, <1>4
<1>5. CASE m.step # s + 2
  <2>1. m.step \in Nat /\ s + 2 \in 4..(m.step - 1) /\ Phase(s + 2) # 3
    BY <1>1, <1>2, <1>5, HistoryTyped
  <2>2. Inherited(records, m.step, m.proposal.value)
    BY DEF Inv, AllJustified, Justified
  <2>3. PICK x \in records : x.step = s + 2 /\ x.proposal.value = m.proposal.value
    BY <2>1, <2>2 DEF Inherited
  <2>. QED  BY <1>3, <2>3
<1>. QED  BY <1>4, <1>5

\* A confirmed proposal was proposed in the phase 1 before.
LEMMA ConfirmedIsSent ==
  ASSUME Inv, NEW s \in Steps, NEW p \in Proposal, NEW Q \in Quorums, Confirmed(aggs, s, p, Q)
  PROVE  \E m \in records : m.step = s - 1 /\ m.proposal.value = p.value
<1>1. s - 1 \in Steps /\ IsHighest(p, {aggs[j][s - 1] : j \in Q}) /\ Q \subseteq Replica
  BY MaxStepAssumption DEF Confirmed, Steps, Quorums
<1>2. PICK j \in Q : p = aggs[j][s - 1]
  BY <1>1 DEF IsHighest
<1>3. SentAs(records, s - 1, p)
  BY <1>1, <1>2, AggIsSent, ProposalFields
<1>. QED  BY <1>3 DEF SentAs

\* No two different values are ever decidable.
LEMMA DecisionUnique ==
  ASSUME Inv, NEW v, NEW w, Decision(firsts, aggs, v), Decision(firsts, aggs, w)
  PROVE  v = w
<1>1. ASSUME NEW x, NEW y, FastDecision(firsts, x), FastDecision(firsts, y)
      PROVE  x = y
  <2>1. PICK P \in Quorums : \A j \in P : firsts[j][4].value = x
    BY <1>1 DEF FastDecision
  <2>2. PICK Q \in Quorums : \A j \in Q : firsts[j][4].value = y
    BY <1>1 DEF FastDecision
  <2>. QED  BY <2>1, <2>2, QuorumsMeet
<1>2. ASSUME NEW x, NEW y, FastDecision(firsts, x), SlowDecision(aggs, y)
      PROVE  x = y
  <2>1. PICK s \in Steps, p \in Proposal, Q \in Quorums : p.value = y /\ Confirmed(aggs, s, p, Q)
    BY <1>2 DEF SlowDecision
  <2>2. PICK m \in records : m.step = s - 1 /\ m.proposal.value = y
    BY <2>1, ConfirmedIsSent
  <2>3. m.step > 4
    BY <2>1, <2>2 DEF Confirmed, Phase, Steps
  <2>. QED  BY <1>2, <2>2, <2>3, FastIsFinal
<1>3. ASSUME NEW s \in Steps, NEW p \in Proposal, NEW P \in Quorums, Confirmed(aggs, s, p, P),
             NEW t \in Steps, NEW q \in Proposal, NEW Q \in Quorums, Confirmed(aggs, t, q, Q),
             s <= t
      PROVE  p.value = q.value
  <2>1. CASE s = t
    <3>1. ASSUME NEW a \in Proposal, NEW b \in Proposal, NEW A \in Quorums, NEW B \in Quorums,
                 Confirmed(aggs, s, a, A), Confirmed(aggs, s, b, B)
          PROVE  Leq(a, b)
      <4>1. PICK j \in Replica : j \in A /\ j \in B
        BY <3>1, QuorumsMeet
      <4>2. Leq(a, aggs[j][s])
        BY <3>1, <4>1 DEF Confirmed
      <4>3. Leq(aggs[j][s], b)
        BY <3>1, <4>1, ConfirmedIsGreatest
      <4>4. a \in ProposalOrNil /\ b \in ProposalOrNil /\ aggs[j][s] \in ProposalOrNil
        BY <4>1, HistoryTyped, ProposalFields DEF History
      <4>. QED  BY <4>2, <4>3, <4>4, LeqTransitive
    <3>2. Leq(p, q) /\ Leq(q, p)
      BY <1>3, <2>1, <3>1
    <3>3. p \in ProposalOrNil /\ q \in ProposalOrNil
      BY ProposalFields
    <3>. QED  BY <3>2, <3>3, LeqAntisymmetric
  <2>2. CASE s # t
    <3>1. PICK m \in records : m.step = t - 1 /\ m.proposal.value = q.value
      BY <1>3, ConfirmedIsSent
    <3>2. t - 1 >= s + 2
      BY <1>3, <2>2 DEF Confirmed, Phase, Steps
    <3>. QED  BY <1>3, <3>1, <3>2, ConfirmedIsFinal
  <2>. QED  BY <2>1, <2>2
<1>4. ASSUME NEW x, NEW y, SlowDecision(aggs, x), SlowDecision(aggs, y)
      PROVE  x = y
  <2>1. PICK s \in Steps, p \in Proposal, P \in Quorums : p.value = x /\ Confirmed(aggs, s, p, P)
    BY <1>4 DEF SlowDecision
  <2>2. PICK t \in Steps, q \in Proposal, Q \in Quorums : q.value = y /\ Confirmed(aggs, t, q, Q)
    BY <1>4 DEF SlowDecision
  <2>3. s <= t \/ t <= s
    BY DEF Steps
  <2>. QED  BY <1>3, <2>1, <2>2, <2>3
<1>. QED  BY <1>1, <1>2, <1>4 DEF Decision

\* What is decidable has been proposed.
LEMMA DecisionIsProposed ==
  ASSUME Inv, NEW v, Decision(firsts, aggs, v)
  PROVE  \E m \in records : m.proposal.value = v
<1>1. CASE FastDecision(firsts, v)
  <2>1. PICK Q \in Quorums : \A j \in Q : firsts[j][4].priority = PriorityH /\ firsts[j][4].value = v
    BY <1>1 DEF FastDecision
  <2>2. PICK j \in Replica : j \in Q
    BY <2>1, QuorumsMeet
  <2>3. firsts[j][4] # Nil /\ 4 \in Steps
    BY <2>1, <2>2, PriorityAssumption, MaxStepAssumption DEF Nil, Steps
  <2>4. SentAs(records, 4, firsts[j][4])
    BY <2>2, <2>3 DEF Inv, HistoryIsSent
  <2>. QED  BY <2>1, <2>2, <2>4 DEF SentAs
<1>2. CASE SlowDecision(aggs, v)
  BY <1>2, ConfirmedIsSent DEF SlowDecision
<1>. QED  BY <1>1, <1>2 DEF Decision

-----------------------------------------------------------------------------
(* The properties of SlotConsensus. *)

LEMMA InvAgreement == Inv => Agreement
<1>. SUFFICES ASSUME Inv, NEW i \in Replica, NEW j \in Replica, ~Open(i), ~Open(j)
     PROVE  decided[i] = decided[j]
  BY DEF Agreement
<1>1. Decision(firsts, aggs, decided[i]) /\ Decision(firsts, aggs, decided[j])
  BY DEF Inv, DecisionsAreBacked
<1>. QED  BY <1>1, DecisionUnique

\* Two replicas never decide the slot differently, however they come to decide:
\* on the fast path, in phase 2, or told by another (decide_slot).
THEOREM AgreementHolds == Spec => []Agreement
BY InvHolds, InvAgreement, PTL

\* What a proposer has folded is what the recorders hold (fold, and the
\* resolution of echoes in on_record_reply).
THEOREM FoldIsFaithfulHolds == Spec => []FoldIsFaithful
<1>1. Inv => FoldIsFaithful
  BY DEF Inv
<1>. QED  BY <1>1, InvHolds, PTL

\* Retransmission and catch-up never give a proposer a second proposal for a
\* step it has sent (retransmit_due, begin_step).
THEOREM OneProposalPerStepHolds == Spec => []OneProposalPerStep
<1>1. Inv => OneProposalPerStep
  BY DEF Inv
<1>. QED  BY <1>1, InvHolds, PTL

\* A phase-2 proposal has been taken into account by a majority in phase 1
\* (step_complete).
THEOREM SpreadBeforePhase2Holds == Spec => []SpreadBeforePhase2
<1>1. Inv => SpreadBeforePhase2
  BY DEF Inv, AllJustified, Justified, Spread, SpreadBeforePhase2
<1>. QED  BY <1>1, InvHolds, PTL

\* Only the first step of a slot brings in values (Run::start, begin_step).
THEOREM NoNewValuesHolds == Spec => []NoNewValues
<1>1. Inv => NoNewValues
  <2>1. SUFFICES ASSUME Inv, NEW m \in records, m.step > 4
        PROVE  \E m0 \in records : /\ m0.step = GatheredFrom(m.step)
                                   /\ m0.proposal.value = m.proposal.value
    BY DEF NoNewValues
  <2>2. GatheredFrom(m.step) \in 4..(m.step - 1) /\ Phase(GatheredFrom(m.step)) # 3
    <3>1. m.step \in Nat
      BY <2>1, HistoryTyped
    <3>. QED  BY <2>1, <3>1 DEF GatheredFrom, Phase
  <2>3. Inherited(records, m.step, m.proposal.value)
    BY <2>1 DEF Inv, AllJustified, Justified
  <2>. QED  BY <2>2, <2>3 DEF Inherited
<1>. QED  BY <1>1, InvHolds, PTL

\* The leader's value is unbeatable from the moment a majority of recorders has
\* seen it first, decided or not (step_complete, phase 0).
THEOREM FastPathUnbeatableHolds == Spec => []FastPathUnbeatable
<1>1. Inv => FastPathUnbeatable
  BY FastIsFinal DEF FastPathUnbeatable, FastDecision
<1>. QED  BY <1>1, InvHolds, PTL

-----------------------------------------------------------------------------
(* A step of a run never goes back. *)

\* drive leaves the other runs alone, and its own in the step it was given or a
\* later one.
LEMMA DriveAdvances ==
  ASSUME TypeInv, NEW i \in Replica, NEW r, SendableRun(r), Drive(i, r)
  PROVE  /\ \A j \in Replica : j # i => run'[j] = run[j]
         /\ run'[i].step \in Nat /\ run'[i].step >= r.step
         /\ run'[i].step = r.step => r.replied \subseteq run'[i].replied
<1>1. ASSUME NEW q, SendableRun(q), Transmit(i, q)
      PROVE  /\ \A j \in Replica : j # i => run'[j] = run[j]
             /\ run'[i].step = q.step /\ q.replied \subseteq run'[i].replied
  <2>. DEFINE mine == Recorded(isr[i], q.step, ProposalFor(q, i))
              f == LocallyFolded(q, i, mine)
  <2>1. run' = [run EXCEPT ![i] = f] /\ run \in [Replica -> Run] /\ q \in Run
    BY <1>1 DEF Transmit, TypeInv, TypeOK, SendableRun
  <2>. HIDE DEF mine
  <2>2. f.step = q.step /\ q.replied \subseteq f.replied
    <3>1. CASE f = q
      BY <3>1
    <3>2. CASE f = Counted(q, i, mine.first, mine.prior)
      BY <2>1, <3>2 DEF Counted, Run
    <3>. QED  BY <3>1, <3>2 DEF LocallyFolded
  <2>. HIDE DEF f
  <2>. QED  BY <2>1, <2>2
<1>2. CASE Transmit(i, r)
  BY <1>1, <1>2 DEF SendableRun
<1>3. ASSUME IsAhead(r, isr[i].step), NEW draws \in Draws(i, isr[i].step),
             SendableRun(BegunStep(i, isr[i].step, isr[i].first, draws)),
             Transmit(i, BegunStep(i, isr[i].step, isr[i].first, draws))
      PROVE  /\ \A j \in Replica : j # i => run'[j] = run[j]
             /\ run'[i].step \in Nat /\ run'[i].step > r.step
  <2>1. BegunStep(i, isr[i].step, isr[i].first, draws).step = isr[i].step
    BY DEF BegunStep
  <2>2. isr[i].step \in Nat
    BY DEF TypeInv, TypeOK, IsrSlot
  <2>. QED  BY <1>1, <1>3, <2>1, <2>2 DEF IsAhead
<1>. QED
  <2>1. r.step \in Nat
    BY DEF SendableRun
  <2>. QED  BY <1>2, <1>3, <2>1, DriveTransmits

\* A phase 3 that has counted a quorum has seen a proposal of phase 2.
LEMMA QuorumsDoNotStall ==
  ASSUME Inv, NEW i \in Replica, NEW r, Completed(i, r)
  PROVE  ~Stalls(r)
<1>. SUFFICES ASSUME Stalls(r) PROVE FALSE
  OBVIOUS
<1>1. Phase(r.step) = 3 /\ Phase(r.step) # 0 /\ r.bestAgg = Nil
  BY DEF Stalls
<1>2. /\ SentAs(records, r.step, r.proposal) /\ r.proposal \in Proposal
      /\ r.step - 1 \in Steps
  BY <1>1, CompletedFacts
<1>3. Spread(aggs, r.step, r.proposal)
  BY <1>1, <1>2, SentIsJustified DEF Justified
<1>4. PICK Q \in Quorums : \A j \in Q : Leq(r.proposal, aggs[j][r.step - 1])
  BY <1>3 DEF Spread
<1>5. PICK k \in Replica : k \in Q /\ k \in r.replied
  BY <1>4, QuorumsMeet DEF Completed
<1>6. Leq(aggs[k][r.step - 1], Nil)
  BY <1>1, <1>5 DEF Completed, Faithful, IsHighest
<1>7. aggs[k][r.step - 1] \in ProposalOrNil /\ r.proposal \in ProposalOrNil
  BY <1>2, <1>5, HistoryTyped, ProposalFields DEF History
<1>8. aggs[k][r.step - 1] = Nil
  BY <1>6, <1>7, NilIsLeast
<1>9. Leq(r.proposal, Nil)
  BY <1>4, <1>5, <1>8
<1>. QED  BY <1>2, <1>7, <1>9, NilIsLeast, ProposalFields

\* The replies that the run of j has counted in its step stay counted.
KeepsReplies(j) ==
  Running(j) /\ run'[j].step = run[j].step => run[j].replied \subseteq run'[j].replied

LEMMA DriveKeepsReplies ==
  ASSUME TypeInv, NEW i \in Replica, NEW r, SendableRun(r), Drive(i, r),
         Running(i) => r = run[i] \/ run[i].step < r.step,
         NEW j \in Replica
  PROVE  KeepsReplies(j)
<1>1. run[i].step \in Nat /\ r.step \in Nat
  BY DEF SendableRun, TypeInv, TypeOK, Run
<1>2. CASE j = i
  BY <1>1, <1>2, DriveAdvances DEF KeepsReplies
<1>3. CASE j # i
  BY <1>3, DriveAdvances DEF KeepsReplies
<1>. QED  BY <1>2, <1>3

LEMMA ReplyKeepsReplies ==
  ASSUME Inv, NEW i \in Up, OnRecordReply(i), NEW j \in Replica
  PROVE  KeepsReplies(j)
<1>1. i \in Replica /\ Running(i) /\ SendableRun(run[i]) /\ run \in [Replica -> Run] /\ TypeInv
  BY UpAssumption, RunningRun DEF OnRecordReply, Inv, TypeInv, TypeOK
<1>2. PICK m \in replies :
        LET first == Resolved(run[i], m)
            counted == Counted(run[i], m.from, first, m.prior)
        IN  /\ m.to = i
            /\ \/ /\ IsAhead(run[i], m.step)
                  /\ \E draws \in Draws(i, m.step) :
                       Drive(i, CaughtUp(i, run[i], m.step, first, draws))
               \/ /\ Counts(run[i], m.from, m.req, m.step)
                  /\ \/ run' = [run EXCEPT ![i] = counted]
                     \/ HasQuorum(counted) /\ Complete(i, counted)
  BY DEF OnRecordReply
<1>. DEFINE first == Resolved(run[i], m)
            c == Counted(run[i], m.from, first, m.prior)
<1>3. ASSUME IsAhead(run[i], m.step), NEW draws \in Draws(i, m.step),
             Drive(i, CaughtUp(i, run[i], m.step, first, draws))
      PROVE  KeepsReplies(j)
  <2>1. first \in Proposal /\ m.step \in Nat
    BY <1>1, ResolvedTypes
  <2>. HIDE DEF first
  <2>2. m.step \in Nat \ {0} /\ run[i].step < m.step
    BY <1>1, <1>3, <2>1 DEF IsAhead, SendableRun
  <2>. DEFINE r == BegunStep(i, m.step, first, draws)
  <2>3. SendableRun(r) /\ r.step = m.step
    BY <1>1, <2>1, <2>2, BegunStepRun
  <2>4. Drive(i, r)
    BY <1>3 DEF CaughtUp
  <2>. HIDE DEF r
  <2>. QED  BY <1>1, <2>2, <2>3, <2>4, DriveKeepsReplies
<1>. HIDE DEF first
<1>4. ASSUME Counts(run[i], m.from, m.req, m.step)
      PROVE  /\ SendableRun(c) /\ c.step = run[i].step
             /\ run[i].replied \subseteq c.replied
             /\ HasQuorum(c) => Completed(i, c)
  BY <1>1, <1>2, <1>4, CountedReply DEF first
<1>. HIDE DEF c
<1>5. ASSUME Counts(run[i], m.from, m.req, m.step), run' = [run EXCEPT ![i] = c]
      PROVE  KeepsReplies(j)
  BY <1>1, <1>4, <1>5 DEF KeepsReplies
<1>6. ASSUME Counts(run[i], m.from, m.req, m.step), HasQuorum(c), Complete(i, c)
      PROVE  KeepsReplies(j)
  <2>1. Completed(i, c) /\ ~Stalls(c) /\ c.step \in Nat
    BY <1>1, <1>4, <1>6, QuorumsDoNotStall, CompletedFacts
  <2>2. ASSUME NEW v, Decided(i, v) PROVE KeepsReplies(j)
    BY <1>1, <2>2 DEF Decided, KeepsReplies, Running, NotRunning
  <2>3. ASSUME NEW draws \in Draws(i, c.step + 1),
               Drive(i, BegunStep(i, c.step + 1, NextProposal(c), draws))
        PROVE  KeepsReplies(j)
    <3>. DEFINE p == NextProposal(c)
                r == BegunStep(i, c.step + 1, p, draws)
    <3>1. p \in Proposal /\ c.step + 1 \in Nat \ {0}
      BY <1>1, <2>1, NextIsJustified
    <3>. HIDE DEF p
    <3>2. SendableRun(r) /\ r.step = c.step + 1
      BY <1>1, <3>1, BegunStepRun
    <3>3. Drive(i, r)
      BY <2>3 DEF p
    <3>4. run[i].step < r.step
      BY <1>4, <1>6, <2>1, <3>2
    <3>. HIDE DEF r
    <3>. QED  BY <1>1, <3>2, <3>3, <3>4, DriveKeepsReplies
  <2>. QED  BY <1>6, <2>1, <2>2, <2>3 DEF Complete, DecideAndTell
<1>. QED  BY <1>2, <1>3, <1>5, <1>6 DEF first, c

LEMMA NextKeepsReplies ==
  ASSUME Inv, [Next]_vars, NEW j \in Replica
  PROVE  KeepsReplies(j)
<1>1. CASE UNCHANGED vars
  BY <1>1 DEF vars, KeepsReplies
<1>2. ASSUME NEW i \in Up, Activate(i) PROVE KeepsReplies(j)
  <2>1. PICK v \in Batches[i], draws \in Draws(i, 4) : Drive(i, Started(i, v, draws))
    BY <1>2 DEF Activate
  <2>2. i \in Replica /\ v \in Value /\ ~Running(i)
    BY <1>2, UpAssumption, BatchesAssumption DEF Activate
  <2>. QED  BY <2>1, <2>2, StartedRun, DriveKeepsReplies DEF Inv
<1>3. ASSUME NEW i \in Up, Retransmit(i) PROVE KeepsReplies(j)
  BY <1>3, UpAssumption, RunningRun, DriveKeepsReplies DEF Retransmit, Inv
<1>4. ASSUME NEW i \in Up, OnRecordDecided(i) \/ OnRecordOpen(i) PROVE KeepsReplies(j)
  BY <1>4 DEF OnRecordDecided, OnRecordOpen, KeepsReplies
<1>5. ASSUME NEW i \in Up, OnDecide(i) PROVE KeepsReplies(j)
  <2>1. PICK v : Decided(i, v)
    BY <1>5 DEF OnDecide
  <2>2. run \in [Replica -> Run] /\ i \in Replica
    BY UpAssumption DEF Inv, TypeInv, TypeOK
  <2>. QED  BY <2>1, <2>2 DEF Decided, KeepsReplies, Running, NotRunning
<1>. QED  BY <1>1, <1>2, <1>3, <1>4, <1>5, ReplyKeepsReplies DEF Next

\* The defensive stall of step_complete is never reached: replies that have been
\* counted in a step are never thrown away.
THEOREM NeverStallsHolds == Spec => NeverStalls
<1>1. Inv /\ [Next]_vars =>
        [\A i \in Replica :
           Running(i) /\ run'[i].step = run[i].step => run[i].replied \subseteq run'[i].replied
        ]_vars
  BY NextKeepsReplies DEF KeepsReplies
<1>. QED  BY <1>1, InvHolds, PTL DEF Spec, NeverStalls

-----------------------------------------------------------------------------
(* The slot implements Consensus. *)

\* The actions that decide nothing can only propose.
LEMMA ProposalsOnly ==
  ASSUME TypeInv', records \subseteq records', UNCHANGED decided
  PROVE  C!Propose
<1>. DEFINE V == {m.proposal.value : m \in records'}
<1>1. V \in SUBSET Value
  BY DEF TypeInv, TypeOK, RecordMsg, Proposal
<1>2. {m.proposal.value : m \in records'} = {m.proposal.value : m \in records} \cup V
  OBVIOUS
<1>. HIDE DEF V
<1>. QED  BY <1>1, <1>2 DEF C!Propose

LEMMA DriveProposes ==
  ASSUME TypeInv, NEW i \in Replica, NEW r, SendableRun(r), Drive(i, r)
  PROVE  C!Propose
<1>1. records \subseteq records' /\ UNCHANGED decided
  BY DriveTransmits DEF Transmit
<1>. QED  BY <1>1, DriveTypes, ProposalsOnly

\* A decision is that of Consensus.
LEMMA DecidesInConsensus ==
  ASSUME Inv, Inv', NEW i \in Replica, Open(i), NEW v \in Value, Decision(firsts, aggs, v),
         Decided(i, v)
  PROVE  C!Decide(i)
<1>1. v \in {m.proposal.value : m \in records}
  BY DecisionIsProposed
<1>2. ASSUME NEW j \in Replica PROVE decided[j] \in {NoValue, v}
  <2>1. CASE Open(j)
    BY <2>1 DEF Open
  <2>2. CASE ~Open(j)
    <3>1. Decision(firsts, aggs, decided[j])
      BY <2>2 DEF Inv, DecisionsAreBacked
    <3>. QED  BY <3>1, DecisionUnique
  <2>. QED  BY <2>1, <2>2
<1>3. decided' = [decided EXCEPT ![i] = v] /\ records' = records
  BY DEF Decided
<1>. QED  BY <1>1, <1>2, <1>3 DEF C!Decide, Open

\* Every step of a slot is a step of Consensus, or one it does not see.
LEMMA StepImplementsConsensus ==
  ASSUME Inv, Inv', [Next]_vars
  PROVE  C!Next \/ UNCHANGED <<{m.proposal.value : m \in records}, decided>>
<1>1. CASE UNCHANGED vars
  BY <1>1 DEF vars
<1>2. ASSUME NEW i \in Up, Activate(i) PROVE C!Propose
  <2>1. PICK v \in Batches[i], draws \in Draws(i, 4) : Drive(i, Started(i, v, draws))
    BY <1>2 DEF Activate
  <2>2. i \in Replica /\ v \in Value
    BY UpAssumption, BatchesAssumption
  <2>. QED  BY <2>1, <2>2, StartedRun, DriveProposes DEF Inv
<1>3. ASSUME NEW i \in Up, Retransmit(i) PROVE C!Propose
  BY <1>3, UpAssumption, RunningRun, DriveProposes DEF Retransmit, Inv
<1>4. ASSUME NEW i \in Up, OnRecordDecided(i) \/ OnRecordOpen(i)
      PROVE  UNCHANGED <<{m.proposal.value : m \in records}, decided>>
  BY <1>4 DEF OnRecordDecided, OnRecordOpen
<1>5. ASSUME NEW i \in Up, OnDecide(i) PROVE C!Decide(i)
  <2>1. PICK m \in decides : Decided(i, m.value)
    BY <1>5 DEF OnDecide
  <2>2. i \in Replica /\ Open(i) /\ m.value \in Value /\ Decision(firsts, aggs, m.value)
    BY <1>5, UpAssumption DEF OnDecide, Inv, TypeInv, TypeOK, DecideMsg, DecisionsAreBacked
  <2>. QED  BY <2>1, <2>2, DecidesInConsensus
<1>6. ASSUME NEW i \in Up, OnRecordReply(i)
      PROVE  C!Next \/ UNCHANGED <<{m.proposal.value : m \in records}, decided>>
  <2>1. i \in Replica /\ Open(i)
    BY <1>6, UpAssumption, RunningRun DEF OnRecordReply
  <2>2. CASE \E v : Decided(i, v)
    <3>1. PICK v : Decided(i, v)
      BY <2>2
    <3>2. decided'[i] = v /\ firsts' = firsts /\ aggs' = aggs
      BY <2>1, <3>1 DEF Decided, Inv, TypeInv, TypeOK
    <3>3. CASE v = NoValue
      BY <2>1, <3>1, <3>3 DEF Decided, Open, Inv, TypeInv, TypeOK
    <3>4. CASE v # NoValue
      <4>1. v \in Value
        BY <2>1, <3>2, <3>4 DEF Inv, TypeInv, TypeOK
      <4>2. Decision(firsts, aggs, v)
        BY <2>1, <3>2, <3>4 DEF Inv, DecisionsAreBacked, Open
      <4>. QED  BY <2>1, <3>1, <4>1, <4>2, DecidesInConsensus DEF C!Next
    <3>. QED  BY <3>3, <3>4
  <2>3. CASE ~\E v : Decided(i, v)
    <3>1. ASSUME NEW q, Drive(i, q) PROVE records \subseteq records' /\ UNCHANGED decided
      <4>1. \A r : Transmit(i, r) => records \subseteq records' /\ UNCHANGED decided
        BY DEF Transmit
      <4>. QED  BY <3>1, <4>1 DEF Drive
    <3>2. ASSUME NEW r, Complete(i, r) PROVE records \subseteq records' /\ UNCHANGED decided
      BY <2>3, <3>1, <3>2 DEF Complete, DecideAndTell
    <3>3. records \subseteq records' /\ UNCHANGED decided
      BY <1>6, <3>1, <3>2 DEF OnRecordReply
    <3>. QED  BY <3>3, ProposalsOnly DEF C!Next, Inv
  <2>. QED  BY <2>2, <2>3
<1>. QED
  BY <1>1, <1>2, <1>3, <1>4, <1>5, <1>6, UpAssumption DEF Next, C!Next

LEMMA InitImplementsConsensus == Init => C!Init
BY DEF Init, C!Init

\* The decisions of a slot are those of Consensus: each is a value that a
\* proposer had sent, it agrees with the ones before it, and no replica revises
\* its own (decide_slot).
THEOREM ImplementsConsensusHolds == Spec => ImplementsConsensus
<1>1. Inv /\ Inv' /\ [Next]_vars => [C!Next]_<<{m.proposal.value : m \in records}, decided>>
  BY StepImplementsConsensus
<1>. QED
  BY <1>1, InitImplementsConsensus, InvHolds, PTL DEF Spec, ImplementsConsensus, C!Spec
=============================================================================
