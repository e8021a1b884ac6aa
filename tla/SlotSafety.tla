----------------------------- MODULE SlotSafety -----------------------------
(***************************************************************************)
(* The slot protocol is safe: Inv is an inductive invariant, and Agreement *)
(* and the other invariants of SlotConsensus follow from it.               *)
(***************************************************************************)
EXTENDS SlotTypes

-----------------------------------------------------------------------------
(* How the history grows, and what is stable under it. *)

History == [Replica -> [Steps -> ProposalOrNil]]

\* F and A agree on what has been reached.
Matched(F, A) == \A j \in Replica, t \in Steps : F[j][t] = Nil <=> A[j][t] = Nil

\* First proposals stay, aggregates go up, and those of a step that has been
\* left no longer change.
Grows(F, A, F1, A1) ==
  /\ \A j \in Replica, t \in Steps : F[j][t] # Nil => F1[j][t] = F[j][t]
  /\ \A j \in Replica, t \in Steps : Leq(A[j][t], A1[j][t])
  /\ \A j \in Replica, t \in Steps, u \in Steps :
       t < u /\ F[j][u] # Nil => A1[j][t] = A[j][t]

LEMMA StepsInRange ==
  ASSUME NEW s \in 4..MaxStep
  PROVE  s \in Steps /\ s - 1 \in Steps /\ s - 2 \in Steps /\ s \in Nat
BY MaxStepAssumption DEF Steps

LEMMA GatheredStable ==
  ASSUME NEW F \in History, NEW A \in History, NEW F1 \in History, NEW A1 \in History,
         Grows(F, A, F1, A1), NEW s \in 4..MaxStep, NEW p, Gathered(F, s, p)
  PROVE  Gathered(F1, s, p)
<1>1. PICK Q \in Quorums : /\ \A j \in Q : F[j][s - 1] # Nil
                           /\ IsHighest(p, {F[j][s - 1] : j \in Q})
  BY DEF Gathered
<1>2. \A j \in Q : F1[j][s - 1] = F[j][s - 1]
  BY <1>1, StepsInRange DEF Grows, Quorums
<1>3. {F1[j][s - 1] : j \in Q} = {F[j][s - 1] : j \in Q}
  BY <1>2
<1>. QED  BY <1>1, <1>2, <1>3 DEF Gathered

LEMMA SpreadStable ==
  ASSUME NEW F \in History, NEW A \in History, NEW F1 \in History, NEW A1 \in History,
         Grows(F, A, F1, A1), NEW s \in 4..MaxStep, NEW p \in Proposal, Spread(A, s, p)
  PROVE  Spread(A1, s, p)
<1>1. PICK Q \in Quorums : \A j \in Q : Leq(p, A[j][s - 1])
  BY DEF Spread
<1>2. ASSUME NEW j \in Q PROVE Leq(p, A1[j][s - 1])
  <2>1. j \in Replica /\ s - 1 \in Steps
    BY <1>1, StepsInRange DEF Quorums
  <2>2. A[j][s - 1] \in ProposalOrNil /\ A1[j][s - 1] \in ProposalOrNil /\ p \in ProposalOrNil
    BY <2>1, ProposalFields DEF History
  <2>3. Leq(A[j][s - 1], A1[j][s - 1])
    BY <2>1 DEF Grows
  <2>. QED  BY <1>1, <2>2, <2>3, LeqTransitive
<1>. QED  BY <1>1, <1>2 DEF Spread

LEMMA CarriedStable ==
  ASSUME NEW F \in History, NEW A \in History, NEW F1 \in History, NEW A1 \in History,
         Grows(F, A, F1, A1), NEW s \in 4..MaxStep, NEW v, Carried(F, A, s, v)
  PROVE  Carried(F1, A1, s, v)
<1>1. PICK Q \in Quorums, p \in Proposal :
        /\ p.value = v
        /\ IsHighest(p, {A[j][s - 2] : j \in Q})
        /\ \A j \in Q : F[j][s - 1] # Nil
  BY DEF Carried
<1>2. /\ \A j \in Q : F1[j][s - 1] = F[j][s - 1]
      /\ \A j \in Q : A1[j][s - 2] = A[j][s - 2]
  <2>1. Q \subseteq Replica /\ s - 1 \in Steps /\ s - 2 \in Steps /\ s - 2 < s - 1
    BY <1>1, StepsInRange DEF Quorums
  <2>. QED  BY <1>1, <2>1 DEF Grows
<1>3. {A1[j][s - 2] : j \in Q} = {A[j][s - 2] : j \in Q}
  BY <1>2
<1>. QED  BY <1>1, <1>2, <1>3 DEF Carried

LEMMA JustifiedStable ==
  ASSUME NEW F \in History, NEW A \in History, NEW F1 \in History, NEW A1 \in History,
         Grows(F, A, F1, A1), NEW R, NEW R1, R \subseteq R1,
         NEW s \in 4..MaxStep, NEW p \in Proposal, Justified(F, A, R, s, p)
  PROVE  Justified(F1, A1, R1, s, p)
<1>1. Inherited(R1, s, p.value)
  BY DEF Justified, Inherited
<1>. QED  BY <1>1, GatheredStable, SpreadStable, CarriedStable DEF Justified

LEMMA TellsHistoryStable ==
  ASSUME NEW F \in History, NEW A \in History, NEW F1 \in History, NEW A1 \in History,
         Grows(F, A, F1, A1), NEW R \in SUBSET RecordMsg, NEW R1, R \subseteq R1,
         NEW m \in ReplyMsg, TellsHistory(F, A, R, m)
  PROVE  TellsHistory(F1, A1, R1, m)
<1>1. m.from \in Replica /\ m.step \in Steps /\ m.step - 1 \in Steps /\ m.step - 1 < m.step
  BY StepsInRange DEF TellsHistory, ReplyMsg
<1>2. F1[m.from][m.step] = F[m.from][m.step] /\ A1[m.from][m.step - 1] = A[m.from][m.step - 1]
  BY <1>1 DEF TellsHistory, Grows
<1>3. \A rec \in R : Leq(rec.proposal, A[m.from][m.step]) => Leq(rec.proposal, A1[m.from][m.step])
  <2>1. A[m.from][m.step] \in ProposalOrNil /\ A1[m.from][m.step] \in ProposalOrNil
    BY <1>1 DEF History
  <2>2. Leq(A[m.from][m.step], A1[m.from][m.step])
    BY <1>1 DEF Grows
  <2>3. \A rec \in R : rec.proposal \in ProposalOrNil
    BY ProposalFields DEF RecordMsg
  <2>. QED  BY <2>1, <2>2, <2>3, LeqTransitive
<1>. QED  BY <1>1, <1>2, <1>3 DEF TellsHistory

\* Whoever has taken a proposal into account has reached the step.
LEMMA CountedHaveReached ==
  ASSUME NEW F \in History, NEW A \in History, Matched(F, A), NEW j \in Replica,
         NEW t \in Steps, NEW p \in Proposal, Leq(p, A[j][t])
  PROVE  F[j][t] # Nil
<1>1. A[j][t] # Nil
  BY NilIsLeast, ProposalFields
<1>. QED  BY <1>1 DEF Matched

LEMMA FaithfulStable ==
  ASSUME NEW F \in History, NEW A \in History, NEW F1 \in History, NEW A1 \in History,
         Grows(F, A, F1, A1), Matched(F, A),
         NEW r, SendableRun(r), r.step \in 4..MaxStep, Faithful(F, A, r)
  PROVE  Faithful(F1, A1, r)
<1>1. r.replied \subseteq Replica /\ r.step \in Steps /\ r.step - 1 \in Steps
      /\ r.step - 1 < r.step
  BY StepsInRange DEF SendableRun, Run
<1>2. \A j \in r.replied : ProposalFor(r, j) \in Proposal
  BY <1>1, ProposalForRecorder
<1>3. \A j \in r.replied : F[j][r.step] # Nil
  BY <1>1, <1>2, CountedHaveReached DEF Faithful
<1>4. /\ \A j \in r.replied : F1[j][r.step] = F[j][r.step]
      /\ \A j \in r.replied : A1[j][r.step - 1] = A[j][r.step - 1]
  BY <1>1, <1>3 DEF Grows
<1>5. /\ {F1[j][r.step] : j \in r.replied} = {F[j][r.step] : j \in r.replied}
      /\ {A1[j][r.step - 1] : j \in r.replied} = {A[j][r.step - 1] : j \in r.replied}
  BY <1>4
<1>6. ASSUME NEW j \in r.replied PROVE Leq(ProposalFor(r, j), A1[j][r.step])
  <2>1. /\ A[j][r.step] \in ProposalOrNil /\ A1[j][r.step] \in ProposalOrNil
        /\ ProposalFor(r, j) \in ProposalOrNil
    BY <1>1, <1>2, ProposalFields DEF History
  <2>2. Leq(ProposalFor(r, j), A[j][r.step]) /\ Leq(A[j][r.step], A1[j][r.step])
    BY <1>1 DEF Faithful, Grows
  <2>. QED  BY <2>1, <2>2, LeqTransitive
<1>7. /\ IsHighest(r.bestFirst, {F1[j][r.step] : j \in r.replied} \cup {Nil})
      /\ IsHighest(r.bestAgg, {A1[j][r.step - 1] : j \in r.replied} \cup {Nil})
  BY <1>5 DEF Faithful
<1>8. r.allHigh <=> \A j \in r.replied : F1[j][r.step].priority = PriorityH
  BY <1>4 DEF Faithful
<1>. QED  BY <1>6, <1>7, <1>8 DEF Faithful

LEMMA DecisionStable ==
  ASSUME NEW F \in History, NEW A \in History, NEW F1 \in History, NEW A1 \in History,
         Grows(F, A, F1, A1), Matched(F, A), NEW v, Decision(F, A, v)
  PROVE  Decision(F1, A1, v)
<1>1. CASE FastDecision(F, v)
  <2>1. PICK Q \in Quorums : \A j \in Q : F[j][4].priority = PriorityH /\ F[j][4].value = v
    BY <1>1 DEF FastDecision
  <2>2. \A j \in Q : F1[j][4] = F[j][4]
    <3>1. 4 \in Steps /\ Q \subseteq Replica
      BY MaxStepAssumption DEF Steps, Quorums
    <3>2. \A j \in Q : F[j][4] # Nil
      BY <2>1, PriorityAssumption DEF Nil
    <3>. QED  BY <3>1, <3>2 DEF Grows
  <2>. QED  BY <2>1, <2>2 DEF Decision, FastDecision
<1>2. CASE SlowDecision(A, v)
  <2>1. PICK s \in Steps, p \in Proposal, Q \in Quorums : p.value = v /\ Confirmed(A, s, p, Q)
    BY <1>2 DEF SlowDecision
  <2>2. /\ s > 4 /\ Phase(s) = 2 /\ IsHighest(p, {A[j][s - 1] : j \in Q})
        /\ \A j \in Q : Leq(p, A[j][s])
    BY <2>1 DEF Confirmed
  <2>3. s - 1 \in Steps /\ s - 1 < s /\ Q \subseteq Replica
    BY <2>2, MaxStepAssumption DEF Steps, Quorums
  <2>4. ASSUME NEW j \in Q PROVE A1[j][s - 1] = A[j][s - 1] /\ Leq(p, A1[j][s])
    <3>1. Leq(p, A[j][s]) /\ F[j][s] # Nil
      BY <2>2, <2>3, CountedHaveReached
    <3>2. A1[j][s - 1] = A[j][s - 1] /\ Leq(A[j][s], A1[j][s])
      BY <2>3, <3>1 DEF Grows
    <3>3. p \in ProposalOrNil /\ A[j][s] \in ProposalOrNil /\ A1[j][s] \in ProposalOrNil
      BY <2>3, ProposalFields DEF History
    <3>. QED  BY <3>1, <3>2, <3>3, LeqTransitive
  <2>5. {A1[j][s - 1] : j \in Q} = {A[j][s - 1] : j \in Q}
    BY <2>4
  <2>6. Confirmed(A1, s, p, Q)
    BY <2>2, <2>4, <2>5 DEF Confirmed
  <2>. QED  BY <2>1, <2>6 DEF Decision, SlowDecision
<1>. QED  BY <1>1, <1>2 DEF Decision

-----------------------------------------------------------------------------
(* Recording. *)

\* What record adds to the history of an open recorder: at most p, at `step`,
\* and the summary tells whether p is now accounted for.
Effect(i, step, p) ==
  /\ \A j \in Replica, t \in Steps :
       j # i \/ t # step => firsts'[j][t] = firsts[j][t] /\ aggs'[j][t] = aggs[j][t]
  /\ firsts'[i][step] \in {firsts[i][step], p}
  /\ aggs'[i][step] \in {aggs[i][step], p}
  /\ firsts'[i][step] = Nil <=> aggs'[i][step] = Nil
  /\ firsts[i][step] # Nil => firsts'[i][step] = firsts[i][step]
  /\ Leq(aggs[i][step], aggs'[i][step])
  /\ aggs'[i][step] # aggs[i][step] =>
       \A u \in Steps : u > step => firsts[i][u] = Nil
  /\ HoldsHistory(firsts', aggs', isr'[i], i)
  /\ isr'[i].step \in 4..MaxStep /\ isr'[i].step >= step /\ isr'[i].step >= isr[i].step
  /\ isr'[i].step = step => Leq(p, aggs'[i][step])

LEMMA RecordAtEffect ==
  ASSUME TypeInv, RegistersHoldHistory, Matched(firsts, aggs),
         NEW i \in Replica, Open(i), NEW step \in 4..MaxStep, NEW p \in Proposal,
         RecordAt(i, step, p)
  PROVE  Effect(i, step, p)
<1>. DEFINE x == isr[i]
            after == Recorded(x, step, p)
<1>1. /\ x \in IsrSlot /\ x.step \in Nat
      /\ firsts \in History /\ aggs \in History
      /\ step \in Nat /\ step \in Steps /\ step - 1 \in Steps
  BY StepsInRange DEF TypeInv, TypeOK, IsrSlot, History
<1>2. HoldsHistory(firsts, aggs, x, i)
  BY DEF RegistersHoldHistory
<1>3. /\ isr'[i] = after
      /\ firsts' = [firsts EXCEPT ![i][after.step] = after.first]
      /\ aggs' = [aggs EXCEPT ![i][after.step] = after.cur]
  BY DEF RecordAt, TypeInv, TypeOK
<1>4. p \in ProposalOrNil /\ p # Nil /\ Nil \in ProposalOrNil
  BY ProposalFields
<1>5. CASE step > x.step
  <2>1. /\ after.step = step /\ after.first = p /\ after.cur = p
        /\ after.prior = IF step = x.step + 1 THEN x.cur ELSE Nil
    BY <1>1, <1>5, RecordedCases
  <2>. HIDE DEF after
  <2>2. firsts[i][step] = Nil /\ aggs[i][step] = Nil
    BY <1>1, <1>2, <1>5 DEF HoldsHistory
  <2>3. /\ firsts' = [firsts EXCEPT ![i] = [firsts[i] EXCEPT ![step] = p]]
        /\ aggs' = [aggs EXCEPT ![i] = [aggs[i] EXCEPT ![step] = p]]
    BY <1>3, <2>1
  <2>4. /\ firsts'[i][step] = p /\ aggs'[i][step] = p
        /\ \A j \in Replica, t \in Steps :
             j # i \/ t # step => firsts'[j][t] = firsts[j][t] /\ aggs'[j][t] = aggs[j][t]
    BY <1>1, <2>3 DEF History
  <2>5. after.prior = aggs[i][step - 1]
    <3>1. CASE step = x.step + 1
      BY <1>1, <1>2, <2>1, <3>1 DEF HoldsHistory
    <3>2. CASE step # x.step + 1
      BY <1>1, <1>2, <1>5, <2>1, <3>2 DEF HoldsHistory
    <3>. QED  BY <3>1, <3>2
  <2>6. HoldsHistory(firsts', aggs', isr'[i], i)
    <3>1. aggs'[i][step - 1] = aggs[i][step - 1]
      BY <1>1, <2>4
    <3>2. \A t \in Steps : t > step => firsts'[i][t] = Nil /\ aggs'[i][t] = Nil
      BY <1>1, <1>2, <1>5, <2>4 DEF HoldsHistory, Steps
    <3>. QED  BY <1>3, <2>1, <2>4, <2>5, <3>1, <3>2 DEF HoldsHistory
  <2>7. \A u \in Steps : u > step => firsts[i][u] = Nil
    BY <1>1, <1>2, <1>5 DEF HoldsHistory, Steps
  <2>8. Leq(aggs[i][step], aggs'[i][step]) /\ Leq(p, aggs'[i][step])
    BY <1>4, <2>2, <2>4, NilIsLeast, LeqReflexive
  <2>9. isr'[i].step = step
    BY <1>3, <2>1
  <2>. QED  BY <1>1, <1>4, <1>5, <2>2, <2>4, <2>6, <2>7, <2>8, <2>9 DEF Effect
<1>6. CASE step = x.step
  <2>1. /\ after.step = step /\ after.first = x.first
        /\ after.cur = Highest(x.cur, p) /\ after.prior = x.prior
    BY <1>1, <1>6, RecordedCases
  <2>2. /\ x.first = firsts[i][step] /\ x.cur = aggs[i][step] /\ x.prior = aggs[i][step - 1]
        /\ \A t \in Steps : t > step => firsts[i][t] = Nil /\ aggs[i][t] = Nil
    BY <1>1, <1>2, <1>6 DEF HoldsHistory
  <2>3. firsts[i][step] # Nil /\ aggs[i][step] # Nil
    <3>1. firsts[i][step] \in Proposal
      BY <1>6, <2>2 DEF TypeInv, ProposalsPresent
    <3>. QED  BY <1>1, <3>1, ProposalFields DEF Matched
  <2>. HIDE DEF after
  <2>4. /\ firsts' = [firsts EXCEPT ![i] = [firsts[i] EXCEPT ![step] = firsts[i][step]]]
        /\ aggs' = [aggs EXCEPT ![i] = [aggs[i] EXCEPT ![step] = Highest(aggs[i][step], p)]]
    BY <1>3, <2>1, <2>2
  <2>5. /\ firsts'[i][step] = firsts[i][step]
        /\ aggs'[i][step] = Highest(aggs[i][step], p)
        /\ \A j \in Replica, t \in Steps :
             j # i \/ t # step => firsts'[j][t] = firsts[j][t] /\ aggs'[j][t] = aggs[j][t]
    BY <1>1, <2>4 DEF History
  <2>6. /\ Highest(aggs[i][step], p) \in {aggs[i][step], p}
        /\ Leq(aggs[i][step], aggs'[i][step]) /\ Leq(p, aggs'[i][step])
    BY <1>1, <1>4, <2>5, HighestIsMaximum DEF History
  <2>7. HoldsHistory(firsts', aggs', isr'[i], i)
    <3>1. aggs'[i][step - 1] = aggs[i][step - 1]
      BY <1>1, <2>5
    <3>2. \A t \in Steps : t > step => firsts'[i][t] = Nil /\ aggs'[i][t] = Nil
      BY <1>1, <2>2, <2>5 DEF Steps
    <3>. QED  BY <1>3, <2>1, <2>2, <2>5, <3>1, <3>2 DEF HoldsHistory
  <2>8. isr'[i].step = step
    BY <1>3, <2>1
  <2>. QED  BY <1>1, <1>4, <1>6, <2>2, <2>3, <2>5, <2>6, <2>7, <2>8 DEF Effect
<1>7. CASE step < x.step
  <2>1. after = x
    BY <1>1, <1>7, RecordedCases
  <2>2. /\ x.step \in 4..MaxStep /\ x.first = firsts[i][x.step] /\ x.cur = aggs[i][x.step]
    BY <1>1, <1>2, <1>7 DEF HoldsHistory
  <2>3. /\ firsts' = [firsts EXCEPT ![i] = [firsts[i] EXCEPT ![x.step] = firsts[i][x.step]]]
        /\ aggs' = [aggs EXCEPT ![i] = [aggs[i] EXCEPT ![x.step] = aggs[i][x.step]]]
    BY <1>3, <2>1, <2>2
  <2>4. firsts' = firsts /\ aggs' = aggs
    BY <1>1, <2>2, <2>3, StepsInRange DEF History
  <2>5. HoldsHistory(firsts', aggs', isr'[i], i) /\ isr'[i] = x
    BY <1>2, <1>3, <2>1, <2>4
  <2>. QED
    BY <1>1, <1>4, <1>7, <2>2, <2>4, <2>5, LeqReflexive DEF Effect, Matched
<1>. QED  BY <1>1, <1>5, <1>6, <1>7

LEMMA EffectGrows ==
  ASSUME TypeInv, TypeInv', NEW i \in Replica, NEW step \in Steps, NEW p, Effect(i, step, p)
  PROVE  Grows(firsts, aggs, firsts', aggs')
<1>1. ASSUME NEW j \in Replica, NEW t \in Steps, firsts[j][t] # Nil
      PROVE  firsts'[j][t] = firsts[j][t]
  BY <1>1 DEF Effect
<1>2. ASSUME NEW j \in Replica, NEW t \in Steps PROVE Leq(aggs[j][t], aggs'[j][t])
  <2>1. CASE j = i /\ t = step
    BY <2>1 DEF Effect
  <2>2. CASE j # i \/ t # step
    <3>1. aggs'[j][t] = aggs[j][t]
      BY <2>2 DEF Effect
    <3>. QED  BY <3>1, LeqReflexive
  <2>. QED  BY <2>1, <2>2
<1>3. ASSUME NEW j \in Replica, NEW t \in Steps, NEW u \in Steps, t < u, firsts[j][u] # Nil
      PROVE  aggs'[j][t] = aggs[j][t]
  BY <1>3 DEF Effect
<1>. QED  BY <1>1, <1>2, <1>3 DEF Grows

LEMMA SentAsMore ==
  ASSUME NEW R, NEW R1, R \subseteq R1, NEW s, NEW p, SentAs(R, s, p)
  PROVE  SentAs(R1, s, p)
BY DEF SentAs

LEMMA EffectIsSent ==
  ASSUME HistoryIsSent, NEW i \in Replica, NEW step \in Steps, NEW p, Effect(i, step, p),
         records \subseteq records', SentAs(records', step, p)
  PROVE  HistoryIsSent'
<1>1. SUFFICES ASSUME NEW j \in Replica, NEW t \in Steps
      PROVE  /\ firsts'[j][t] = Nil <=> aggs'[j][t] = Nil
             /\ firsts'[j][t] # Nil =>
                  SentAs(records', t, firsts'[j][t]) /\ SentAs(records', t, aggs'[j][t])
  BY DEF HistoryIsSent
<1>2. /\ firsts[j][t] = Nil <=> aggs[j][t] = Nil
      /\ firsts[j][t] # Nil =>
           SentAs(records', t, firsts[j][t]) /\ SentAs(records', t, aggs[j][t])
  BY SentAsMore DEF HistoryIsSent
<1>3. CASE j # i \/ t # step
  <2>1. firsts'[j][t] = firsts[j][t] /\ aggs'[j][t] = aggs[j][t]
    BY <1>3 DEF Effect
  <2>. QED  BY <1>2, <2>1
<1>4. CASE j = i /\ t = step
  <2>1. /\ firsts'[j][t] = Nil <=> aggs'[j][t] = Nil
        /\ firsts'[j][t] \in {firsts[j][t], p} /\ aggs'[j][t] \in {aggs[j][t], p}
    BY <1>4 DEF Effect
  <2>. QED  BY <1>2, <1>4, <2>1
<1>. QED  BY <1>3, <1>4

\* What a recording leaves of the invariant, apart from what it does to runs
\* and messages.
LEMMA RecordingKeeps ==
  ASSUME Inv, TypeInv', NEW i \in Replica, Open(i), NEW step \in 4..MaxStep,
         NEW p \in Proposal, RecordAt(i, step, p),
         records \subseteq records', SentAs(records', step, p), decided' = decided
  PROVE  /\ Effect(i, step, p)
         /\ RegistersHoldHistory' /\ HistoryIsSent'
         /\ \A j \in Replica : isr'[j].step >= isr[j].step
         /\ \A m \in replies : TellsHistory(firsts', aggs', records', m)
         /\ \A m \in records : Justified(firsts', aggs', records', m.step, m.proposal)
         /\ \A v : Decision(firsts, aggs, v) => Decision(firsts', aggs', v)
         /\ \A r : SendableRun(r) /\ r.step \in 4..MaxStep /\ Faithful(firsts, aggs, r)
                    => Faithful(firsts', aggs', r)
         /\ \A s \in 4..MaxStep, q \in Proposal :
              Justified(firsts, aggs, records, s, q) => Justified(firsts', aggs', records', s, q)
<1>1. /\ firsts \in History /\ aggs \in History /\ firsts' \in History /\ aggs' \in History
      /\ step \in Steps /\ isr \in [Replica -> IsrSlot]
      /\ records \subseteq RecordMsg /\ replies \subseteq ReplyMsg
  BY StepsInRange DEF Inv, TypeInv, TypeOK, History
<1>2. Matched(firsts, aggs)
  BY DEF Inv, HistoryIsSent, Matched
<1>3. Effect(i, step, p)
  BY <1>2, RecordAtEffect DEF Inv
<1>4. Grows(firsts, aggs, firsts', aggs')
  BY <1>1, <1>3, EffectGrows DEF Inv
<1>5. HistoryIsSent'
  BY <1>1, <1>3, EffectIsSent DEF Inv
<1>6. \A j \in Replica : j # i => isr'[j] = isr[j]
  BY <1>1 DEF RecordAt
<1>7. RegistersHoldHistory'
  <2>1. SUFFICES ASSUME NEW j \in Replica, Open(j)
        PROVE  HoldsHistory(firsts', aggs', isr'[j], j)
    BY DEF RegistersHoldHistory, Open
  <2>2. CASE j = i
    BY <1>3, <2>2 DEF Effect
  <2>3. CASE j # i
    <3>1. HoldsHistory(firsts, aggs, isr[j], j)
      BY <2>1 DEF Inv, RegistersHoldHistory
    <3>2. \A t \in Steps : firsts'[j][t] = firsts[j][t] /\ aggs'[j][t] = aggs[j][t]
      BY <1>3, <2>3 DEF Effect
    <3>3. isr[j].step > 0 => isr[j].step \in Steps /\ isr[j].step - 1 \in Steps
      BY <3>1, StepsInRange DEF HoldsHistory
    <3>. QED  BY <1>6, <2>3, <3>1, <3>2, <3>3 DEF HoldsHistory
  <2>. QED  BY <2>2, <2>3
<1>8. \A j \in Replica : isr'[j].step >= isr[j].step
  BY <1>1, <1>3, <1>6 DEF Effect, IsrSlot
<1>9. \A m \in replies : TellsHistory(firsts', aggs', records', m)
  BY <1>1, <1>4, TellsHistoryStable DEF Inv, RepliesTellHistory
<1>10. \A s \in 4..MaxStep, q \in Proposal :
         Justified(firsts, aggs, records, s, q) => Justified(firsts', aggs', records', s, q)
  BY <1>1, <1>4, JustifiedStable
<1>11. \A m \in records : Justified(firsts', aggs', records', m.step, m.proposal)
  BY <1>1, <1>10 DEF Inv, AllJustified, RecordsInRange, RecordMsg
<1>12. \A v : Decision(firsts, aggs, v) => Decision(firsts', aggs', v)
  BY <1>1, <1>2, <1>4, DecisionStable
<1>13. \A r : SendableRun(r) /\ r.step \in 4..MaxStep /\ Faithful(firsts, aggs, r)
             => Faithful(firsts', aggs', r)
  BY <1>1, <1>2, <1>4, FaithfulStable
<1>. QED  BY <1>3, <1>5, <1>7, <1>8, <1>9, <1>10, <1>11, <1>12, <1>13

-----------------------------------------------------------------------------
(* Counting. *)

LEMMA FreshIsFaithful ==
  ASSUME NEW F, NEW A, NEW r, Fresh(r)
  PROVE  Faithful(F, A, r)
<1>1. r.replied = {} /\ r.bestFirst = Nil /\ r.bestAgg = Nil /\ r.allHigh = TRUE
  BY DEF Fresh
<1>2. /\ {F[j][r.step] : j \in r.replied} \cup {Nil} = {Nil}
      /\ {A[j][r.step - 1] : j \in r.replied} \cup {Nil} = {Nil}
  BY <1>1
<1>3. IsHighest(Nil, {Nil})
  BY LeqReflexive DEF IsHighest
<1>. QED  BY <1>1, <1>2, <1>3 DEF Faithful

LEMMA CountedIsFaithful ==
  ASSUME NEW F \in History, NEW A \in History, NEW r, SendableRun(r), r.step \in 4..MaxStep,
         Faithful(F, A, r), NEW j \in Replica, F[j][r.step] \in Proposal,
         Leq(ProposalFor(r, j), A[j][r.step])
  PROVE  Faithful(F, A, Counted(r, j, F[j][r.step], A[j][r.step - 1]))
<1>. DEFINE first == F[j][r.step]
            prior == A[j][r.step - 1]
            q == Counted(r, j, first, prior)
<1>1. /\ r.step \in Steps /\ r.step - 1 \in Steps /\ r.replied \subseteq Replica
      /\ r.bestFirst \in ProposalOrNil /\ r.bestAgg \in ProposalOrNil
  BY StepsInRange DEF SendableRun, Run
<1>2. first \in Proposal /\ first \in ProposalOrNil /\ prior \in ProposalOrNil
  BY <1>1, ProposalFields DEF History
<1>. HIDE DEF first, prior
<1>3. /\ q.step = r.step /\ q.proposal = r.proposal /\ q.draws = r.draws
      /\ q.replied = r.replied \cup {j}
      /\ q.bestFirst = Highest(r.bestFirst, first)
      /\ q.bestAgg = Highest(r.bestAgg, prior)
      /\ q.allHigh = (r.allHigh /\ first.priority = PriorityH)
  BY <1>2, CountedRun
<1>. HIDE DEF q
<1>4. \A k \in Replica : ProposalFor(q, k) = ProposalFor(r, k)
  BY <1>3 DEF ProposalFor
<1>5. IsHighest(q.bestFirst, {F[k][q.step] : k \in q.replied} \cup {Nil})
  <2>1. {F[k][q.step] : k \in q.replied} \cup {Nil}
          = ({F[k][r.step] : k \in r.replied} \cup {Nil}) \cup {first}
    BY <1>3 DEF first
  <2>2. {F[k][r.step] : k \in r.replied} \cup {Nil} \subseteq ProposalOrNil
    BY <1>1, ProposalFields DEF History
  <2>3. IsHighest(r.bestFirst, {F[k][r.step] : k \in r.replied} \cup {Nil})
    BY DEF Faithful
  <2>4. IsHighest(Highest(r.bestFirst, first),
                  ({F[k][r.step] : k \in r.replied} \cup {Nil}) \cup {first})
    BY <1>2, <2>2, <2>3, HighestOfMore
  <2>. QED  BY <1>3, <2>1, <2>4
<1>6. IsHighest(q.bestAgg, {A[k][q.step - 1] : k \in q.replied} \cup {Nil})
  <2>1. {A[k][q.step - 1] : k \in q.replied} \cup {Nil}
          = ({A[k][r.step - 1] : k \in r.replied} \cup {Nil}) \cup {prior}
    BY <1>3 DEF prior
  <2>2. {A[k][r.step - 1] : k \in r.replied} \cup {Nil} \subseteq ProposalOrNil
    BY <1>1, ProposalFields DEF History
  <2>3. IsHighest(r.bestAgg, {A[k][r.step - 1] : k \in r.replied} \cup {Nil})
    BY DEF Faithful
  <2>4. IsHighest(Highest(r.bestAgg, prior),
                  ({A[k][r.step - 1] : k \in r.replied} \cup {Nil}) \cup {prior})
    BY <1>2, <2>2, <2>3, HighestOfMore
  <2>. QED  BY <1>3, <2>1, <2>4
<1>7. q.allHigh <=> \A k \in q.replied : F[k][q.step].priority = PriorityH
  <2>1. r.allHigh <=> \A k \in r.replied : F[k][r.step].priority = PriorityH
    BY DEF Faithful
  <2>2. q.allHigh <=> (r.allHigh /\ first.priority = PriorityH)
    BY <1>3
  <2>. QED  BY <1>3, <2>1, <2>2 DEF first
<1>8. \A k \in q.replied : Leq(ProposalFor(q, k), A[k][q.step])
  BY <1>1, <1>3, <1>4 DEF Faithful
<1>. QED  BY <1>5, <1>6, <1>7, <1>8 DEF Faithful, q, first, prior

-----------------------------------------------------------------------------
(* Sending a step. *)

\* With two replicas or more there is somebody else to send to.
LEMMA SomebodyElse ==
  ASSUME NEW i \in Replica
  PROVE  \E j \in Replica : j # i
BY NAssumption DEF Replica

\* Only a randomized phase 0 has draws, and only the leader's first step goes
\* without them in a phase 0.
LEMMA DrawsByPhase ==
  ASSUME NEW i, NEW s, NEW draws \in Draws(i, s)
  PROVE  /\ Phase(s) # 0 => draws = NoDraws
         /\ Phase(s) = 0 /\ draws = NoDraws => s = 4 /\ i = Leader
         /\ NoDraws \in Draws(i, s) => draws = NoDraws
BY DrawsAreLow DEF Draws

\* What a run sends to the others justifies what its own recorder records.
LEMMA OwnProposalIsSent ==
  ASSUME NEW i \in Replica, NEW r, SendableRun(r), r.draws \in Draws(i, r.step), NEW R,
         \A j \in Replica \ {i} :
           [from |-> i, to |-> j, step |-> r.step, proposal |-> ProposalFor(r, j)] \in R,
         NEW k \in Replica
  PROVE  SentAs(R, r.step, ProposalFor(r, k))
<1>1. PICK j \in Replica : j # i
  BY SomebodyElse
<1>. DEFINE m == [from |-> i, to |-> j, step |-> r.step, proposal |-> ProposalFor(r, j)]
<1>2. m \in R /\ m.step = r.step /\ m.proposal = ProposalFor(r, j)
  BY <1>1
<1>. HIDE DEF m
<1>3. ProposalFor(r, j).value = ProposalFor(r, k).value
  BY ProposalForRecorder
<1>4. CASE r.draws = NoDraws
  <2>1. ProposalFor(r, j) = ProposalFor(r, k)
    BY <1>4, ProposalForRecorder
  <2>. QED  BY <1>2, <2>1 DEF SentAs
<1>5. CASE r.draws # NoDraws
  <2>1. Phase(r.step) = 0
    BY <1>5, DrawsByPhase
  <2>2. ProposalFor(r, k).priority < PriorityH /\ ProposalFor(r, k).priority \in Nat
    BY <1>5, ProposalForRecorder, ProposalFields
  <2>3. ProposalFor(r, k).priority # PriorityH
    BY <2>2, PriorityAssumption
  <2>. QED  BY <1>2, <1>3, <2>1, <2>3 DEF SentAs
<1>. QED  BY <1>4, <1>5

\* A run that replica i may send: its own once more, or one for a later step.
MaySend(i, r) ==
  /\ SendableRun(r) /\ r.step \in 4..MaxStep /\ r.step >= isr[i].step
  /\ r.draws \in Draws(i, r.step)
  /\ Justified(firsts, aggs, records, r.step, r.proposal)
  /\ Faithful(firsts, aggs, r)
  /\ Running(i) => \/ r = run[i]
                   \/ run[i].step < r.step

\* The local half of sending a step: the run has faithfully counted its own
\* recorder, if it had not done so before.
LEMMA TransmitFoldsLocally ==
  ASSUME Inv, NEW i \in Replica, Open(i), NEW r, MaySend(i, r), Transmit(i, r)
  PROVE  /\ TypeInv'
         /\ records' = records \cup
              {[from |-> i, to |-> j, step |-> r.step,
                proposal |-> ProposalFor(r, j)] : j \in Replica \ {i}}
         /\ UNCHANGED <<decided, replies, decides>>
         /\ RecordAt(i, r.step, ProposalFor(r, i))
         /\ SentAs(records', r.step, ProposalFor(r, i))
         /\ isr'[i].step = r.step
         /\ \A j \in Replica : j # i => run'[j] = run[j]
         /\ SendableRun(run'[i]) /\ run'[i].step = r.step
         /\ run'[i].proposal = r.proposal /\ run'[i].draws = r.draws
         /\ Faithful(firsts', aggs', run'[i])
<1>. DEFINE p == ProposalFor(r, i)
            mine == Recorded(isr[i], r.step, p)
            q == LocallyFolded(r, i, mine)
<1>1. /\ SendableRun(r) /\ r.step \in 4..MaxStep /\ r.step >= isr[i].step
      /\ r.draws \in Draws(i, r.step) /\ Faithful(firsts, aggs, r)
  BY DEF MaySend
<1>2. TypeInv'
  BY <1>1, TransmitTypes DEF Inv
<1>3. /\ records' = records \cup
           {[from |-> i, to |-> j, step |-> r.step,
             proposal |-> ProposalFor(r, j)] : j \in Replica \ {i}}
      /\ UNCHANGED <<decided, replies, decides>>
      /\ RecordAt(i, r.step, p)
      /\ run' = [run EXCEPT ![i] = q]
  BY DEF Transmit
<1>4. p \in Proposal
  BY <1>1, ProposalForRecorder
<1>5. SentAs(records', r.step, p)
  <2>1. \A j \in Replica \ {i} :
          [from |-> i, to |-> j, step |-> r.step, proposal |-> ProposalFor(r, j)] \in records'
    BY <1>3
  <2>. QED  BY <1>1, <2>1, OwnProposalIsSent
<1>6. isr[i] \in IsrSlot /\ isr'[i] = mine /\ r.step \in Nat /\ run \in [Replica -> Run]
  BY <1>1, <1>3 DEF RecordAt, SendableRun, Inv, TypeInv, TypeOK
<1>7. isr'[i].step = r.step
  <2>1. isr[i].step \in Nat
    BY <1>6 DEF IsrSlot
  <2>2. r.step > isr[i].step \/ r.step = isr[i].step
    BY <1>1, <1>6, <2>1
  <2>. QED  BY <1>4, <1>6, <2>2, RecordedCases
<1>8. /\ Effect(i, r.step, p)
      /\ Faithful(firsts', aggs', r)
  BY <1>1, <1>2, <1>3, <1>4, <1>5, RecordingKeeps
<1>9. run'[i] = q /\ \A j \in Replica : j # i => run'[j] = run[j]
  BY <1>3, <1>6
<1>10. SendableRun(q) /\ q.step = r.step /\ q.proposal = r.proposal /\ q.draws = r.draws
       /\ Faithful(firsts', aggs', q)
  <2>1. CASE Counts(r, i, r.step, mine.step)
    <3>1. /\ mine.first = firsts'[i][r.step] /\ mine.prior = aggs'[i][r.step - 1]
          /\ Leq(p, aggs'[i][r.step])
      BY <1>1, <1>6, <1>7, <1>8 DEF Effect, HoldsHistory
    <3>2. mine.first \in Proposal /\ mine.prior \in ProposalOrNil
      BY <1>1, <1>2, <1>6, <1>7 DEF TypeInv, TypeOK, ProposalsPresent, IsrSlot
    <3>3. firsts' \in History /\ aggs' \in History
      BY <1>2 DEF TypeInv, TypeOK, History
    <3>4. q = Counted(r, i, mine.first, mine.prior)
      BY <2>1 DEF LocallyFolded
    <3>. HIDE DEF mine, q
    <3>5. Faithful(firsts', aggs', Counted(r, i, firsts'[i][r.step], aggs'[i][r.step - 1]))
      BY <1>1, <1>8, <3>1, <3>2, <3>3, CountedIsFaithful
    <3>. QED  BY <1>1, <3>1, <3>2, <3>4, <3>5, CountedRun
  <2>2. CASE ~Counts(r, i, r.step, mine.step)
    BY <1>1, <1>8, <2>2 DEF LocallyFolded
  <2>. QED  BY <2>1, <2>2
<1>. HIDE DEF p, mine, q
<1>. QED  BY <1>2, <1>3, <1>5, <1>7, <1>9, <1>10 DEF p

\* Sending a step keeps the invariant.
LEMMA TransmitKeepsInv ==
  ASSUME Inv, NEW i \in Replica, Open(i), NEW r, MaySend(i, r), Transmit(i, r)
  PROVE  Inv'
<1>. DEFINE sent(j) == [from |-> i, to |-> j, step |-> r.step, proposal |-> ProposalFor(r, j)]
<1>1. /\ SendableRun(r) /\ r.step \in 4..MaxStep /\ r.step >= isr[i].step
      /\ r.draws \in Draws(i, r.step)
      /\ Justified(firsts, aggs, records, r.step, r.proposal)
      /\ Running(i) => r = run[i] \/ run[i].step < r.step
  BY DEF MaySend
<1>2. \A j \in Replica :
        /\ ProposalFor(r, j) \in Proposal
        /\ ProposalFor(r, j).value = r.proposal.value
        /\ r.draws = NoDraws => ProposalFor(r, j) = r.proposal
        /\ r.draws # NoDraws => ProposalFor(r, j).priority < PriorityH
  BY <1>1, ProposalForRecorder
<1>3. /\ TypeInv'
      /\ records' = records \cup {sent(j) : j \in Replica \ {i}}
      /\ decided' = decided /\ replies' = replies /\ decides' = decides
      /\ RecordAt(i, r.step, ProposalFor(r, i))
      /\ SentAs(records', r.step, ProposalFor(r, i))
      /\ isr'[i].step = r.step
      /\ \A j \in Replica : j # i => run'[j] = run[j]
      /\ SendableRun(run'[i]) /\ run'[i].step = r.step
      /\ run'[i].proposal = r.proposal /\ run'[i].draws = r.draws
      /\ Faithful(firsts', aggs', run'[i])
  BY TransmitFoldsLocally
<1>4. /\ RegistersHoldHistory' /\ HistoryIsSent'
      /\ \A j \in Replica : isr'[j].step >= isr[j].step
      /\ \A m \in replies : TellsHistory(firsts', aggs', records', m)
      /\ \A m \in records : Justified(firsts', aggs', records', m.step, m.proposal)
      /\ \A v : Decision(firsts, aggs, v) => Decision(firsts', aggs', v)
      /\ \A q : SendableRun(q) /\ q.step \in 4..MaxStep /\ Faithful(firsts, aggs, q)
               => Faithful(firsts', aggs', q)
      /\ Justified(firsts', aggs', records', r.step, r.proposal)
  <2>1. records \subseteq records' /\ r.proposal \in Proposal
    BY <1>1, <1>3 DEF SendableRun
  <2>. QED  BY <1>1, <1>2, <1>3, <2>1, RecordingKeeps
<1>5. \A j \in Replica :
        /\ sent(j).from = i /\ sent(j).to = j /\ sent(j).step = r.step
        /\ sent(j).proposal = ProposalFor(r, j)
  OBVIOUS
<1>6. \A j \in Replica : ProposalFor(run'[i], j) = ProposalFor(r, j)
  BY <1>3 DEF ProposalFor
<1>7. \A j \in Replica : Running(j)' <=> Running(j) \/ j = i
  BY <1>1, <1>3 DEF Running, SendableRun
<1>8. Open(i)' /\ \A j \in Replica : Open(j)' <=> Open(j)
  BY <1>3 DEF Open
<1>9. \A j \in Replica : isr[j].step \in Nat /\ isr'[j].step \in Nat /\ run[j].step \in Nat
  BY <1>3 DEF Inv, TypeInv, TypeOK, IsrSlot, Run
<1>10. \A m \in records : m.from \in Replica /\ m.to \in Replica /\ m.step \in Nat
                         /\ m.step \in 4..MaxStep
  BY DEF Inv, TypeInv, TypeOK, RecordMsg, RecordsInRange
<1>. HIDE DEF sent
<1>11. RunsAreSent'
  <2>1. SUFFICES ASSUME NEW k \in Replica, Running(k)'
        PROVE  /\ Open(k)'
               /\ run'[k].step \in 4..MaxStep /\ run'[k].step <= isr'[k].step
               /\ run'[k].draws \in Draws(k, run'[k].step)
               /\ \A j \in Replica \ {k} :
                    [from |-> k, to |-> j, step |-> run'[k].step,
                     proposal |-> ProposalFor(run'[k], j)] \in records'
    BY DEF RunsAreSent
  <2>2. CASE k = i
    <3>1. \A j \in Replica \ {k} :
            [from |-> k, to |-> j, step |-> run'[k].step,
             proposal |-> ProposalFor(run'[k], j)] \in records'
      BY <1>3, <1>6, <2>2 DEF sent
    <3>. QED  BY <1>1, <1>3, <1>8, <1>9, <2>2, <3>1
  <2>3. CASE k # i
    <3>1. Running(k) /\ run'[k] = run[k]
      BY <1>3, <1>7, <2>1, <2>3
    <3>2. /\ Open(k)
          /\ run[k].step \in 4..MaxStep /\ run[k].step <= isr[k].step
          /\ run[k].draws \in Draws(k, run[k].step)
          /\ \A j \in Replica \ {k} :
               [from |-> k, to |-> j, step |-> run[k].step,
                proposal |-> ProposalFor(run[k], j)] \in records
      BY <3>1 DEF Inv, RunsAreSent
    <3>3. run[k].step <= isr'[k].step
      BY <1>4, <1>9, <3>2
    <3>. QED  BY <1>3, <1>8, <3>1, <3>2, <3>3
  <2>. QED  BY <2>2, <2>3
<1>12. SendersRun'
  <2>1. SUFFICES ASSUME NEW m \in records', Open(m.from)'
        PROVE  /\ Running(m.from)'
               /\ m.step <= run'[m.from].step
               /\ m.step = run'[m.from].step => m.proposal = ProposalFor(run'[m.from], m.to)
    BY DEF SendersRun
  <2>2. CASE m \notin records
    <3>1. PICK j \in Replica \ {i} : m = sent(j)
      BY <1>3, <2>2
    <3>2. m.from = i /\ m.to = j /\ m.step = r.step /\ m.proposal = ProposalFor(r, j)
      BY <1>5, <3>1
    <3>3. m.step <= run'[i].step
      BY <1>1, <1>3, <3>2
    <3>. QED  BY <1>3, <1>6, <1>7, <3>2, <3>3
  <2>3. CASE m \in records /\ m.from = i
    <3>1. Open(m.from)
      BY <2>3
    <3>2. /\ Running(i) /\ m.step <= run[i].step
          /\ m.step = run[i].step => m.proposal = ProposalFor(run[i], m.to)
      BY <2>3, <3>1 DEF Inv, SendersRun
    <3>3. CASE r = run[i]
      BY <1>3, <1>6, <1>7, <1>10, <2>3, <3>2, <3>3
    <3>4. CASE run[i].step < r.step
      <4>1. m.step < r.step
        BY <1>1, <1>9, <1>10, <2>3, <3>2, <3>4
      <4>. QED  BY <1>1, <1>3, <1>7, <1>10, <2>3, <4>1
    <3>. QED  BY <1>1, <3>2, <3>3, <3>4
  <2>4. CASE m \in records /\ m.from # i
    <3>1. m.from \in Replica /\ Open(m.from) /\ run'[m.from] = run[m.from]
      BY <1>3, <1>8, <1>10, <2>1, <2>4
    <3>. QED  BY <1>7, <2>4, <3>1 DEF Inv, SendersRun
  <2>. QED  BY <2>2, <2>3, <2>4
<1>13. RecordsInRange'
  <2>1. SUFFICES ASSUME NEW m \in records' PROVE m.step \in 4..MaxStep
    BY DEF RecordsInRange
  <2>. QED  BY <1>1, <1>3, <1>5, <1>10
<1>14. HighIsLeaders'
  <2>1. SUFFICES ASSUME NEW m \in records', Phase(m.step) = 0, m.proposal.priority = PriorityH
        PROVE  m.step = 4 /\ m.from = Leader
    BY DEF HighIsLeaders
  <2>2. CASE m \in records
    BY <2>1, <2>2 DEF Inv, HighIsLeaders
  <2>3. CASE m \notin records
    <3>1. PICK j \in Replica \ {i} : m = sent(j)
      BY <1>3, <2>3
    <3>2. m.from = i /\ m.step = r.step /\ m.proposal = ProposalFor(r, j)
      BY <1>5, <3>1
    <3>3. r.draws = NoDraws
      BY <1>2, <2>1, <3>2, PriorityAssumption
    <3>. QED  BY <1>1, <2>1, <3>2, <3>3, DrawsByPhase
  <2>. QED  BY <2>2, <2>3
<1>15. OneProposalPerStep'
  <2>1. SUFFICES ASSUME NEW m1 \in records', NEW m2 \in records',
                        m1.from = m2.from, m1.step = m2.step,
                        m1.to = m2.to \/ NoDraws \in Draws(m1.from, m1.step)
        PROVE  m1.proposal = m2.proposal
    BY DEF OneProposalPerStep
  <2>2. ASSUME NEW m \in records', m.from = i, m.step = r.step
        PROVE  m.proposal = ProposalFor(r, m.to) /\ m.to \in Replica
    <3>1. m.proposal = ProposalFor(run'[i], m.to)
      BY <1>3, <1>8, <1>12, <2>2 DEF SendersRun
    <3>2. m.to \in Replica
      BY <1>3 DEF TypeInv, TypeOK, RecordMsg
    <3>. QED  BY <1>6, <3>1, <3>2
  <2>3. CASE m1.from = i /\ m1.step = r.step
    <3>1. /\ m1.proposal = ProposalFor(r, m1.to) /\ m1.to \in Replica
          /\ m2.proposal = ProposalFor(r, m2.to) /\ m2.to \in Replica
      BY <2>1, <2>2, <2>3
    <3>2. NoDraws \in Draws(m1.from, m1.step) => r.draws = NoDraws
      BY <1>1, <2>3, DrawsByPhase
    <3>. QED  BY <1>2, <2>1, <3>1, <3>2
  <2>4. CASE ~(m1.from = i /\ m1.step = r.step)
    <3>1. m1 \in records /\ m2 \in records
      BY <1>3, <1>5, <2>1, <2>4
    <3>. QED  BY <2>1, <3>1 DEF Inv, OneProposalPerStep
  <2>. QED  BY <2>3, <2>4
<1>16. RepliesTellHistory'
  BY <1>3, <1>4 DEF RepliesTellHistory
<1>17. FoldIsFaithful'
  <2>1. SUFFICES ASSUME NEW k \in Replica, Running(k)'
        PROVE  Faithful(firsts', aggs', run'[k])
    BY DEF FoldIsFaithful
  <2>2. CASE k = i
    BY <1>3, <2>2
  <2>3. CASE k # i
    <3>1. Running(k) /\ run'[k] = run[k]
      BY <1>3, <1>7, <2>1, <2>3
    <3>2. SendableRun(run[k]) /\ run[k].step \in 4..MaxStep /\ Faithful(firsts, aggs, run[k])
      BY <3>1, <1>9 DEF Inv, TypeInv, TypeOK, ProposalsPresent, RunsAreSent, FoldIsFaithful,
                   SendableRun, Running
    <3>. QED  BY <1>4, <3>1, <3>2
  <2>. QED  BY <2>2, <2>3
<1>18. AllJustified'
  <2>1. SUFFICES ASSUME NEW m \in records'
        PROVE  Justified(firsts', aggs', records', m.step, m.proposal)
    BY DEF AllJustified
  <2>2. CASE m \in records
    BY <1>4, <2>2
  <2>3. CASE m \notin records
    <3>1. PICK j \in Replica \ {i} : m = sent(j)
      BY <1>3, <2>3
    <3>2. m.step = r.step /\ m.proposal = ProposalFor(r, j)
      BY <1>5, <3>1
    <3>3. m.proposal.value = r.proposal.value
      BY <1>2, <3>2
    <3>4. Phase(r.step) # 0 => m.proposal = r.proposal
      BY <1>1, <1>2, <3>2, DrawsByPhase
    <3>. QED  BY <1>4, <3>2, <3>3, <3>4 DEF Justified
  <2>. QED  BY <2>2, <2>3
<1>19. DecisionsAreBacked'
  BY <1>3, <1>4, <1>8 DEF Inv, DecisionsAreBacked
<1>. QED
  BY <1>3, <1>4, <1>11, <1>12, <1>13, <1>14, <1>15, <1>16, <1>17, <1>18, <1>19 DEF Inv

\* What has been proposed in a step may be proposed in it again.
LEMMA SentIsJustified ==
  ASSUME Inv, NEW s, NEW p, SentAs(records, s, p)
  PROVE  Justified(firsts, aggs, records, s, p)
<1>1. PICK m \in records : /\ m.step = s /\ m.proposal.value = p.value
                           /\ Phase(s) # 0 => m.proposal = p
  BY DEF SentAs
<1>2. Justified(firsts, aggs, records, s, m.proposal)
  BY <1>1 DEF Inv, AllJustified
<1>. QED  BY <1>1, <1>2 DEF Justified

\* A step that begins with a justified proposal may be sent.
LEMMA BegunMaySend ==
  ASSUME NEW i \in Replica, NEW s \in 4..MaxStep, s >= isr[i].step,
         NEW p \in Proposal, Justified(firsts, aggs, records, s, p),
         NEW draws \in Draws(i, s), Running(i) => run[i].step < s
  PROVE  MaySend(i, BegunStep(i, s, p, draws))
<1>. DEFINE r == BegunStep(i, s, p, draws)
<1>1. s \in Nat \ {0}
  BY StepsInRange
<1>2. /\ SendableRun(r) /\ r.step = s /\ r.draws = draws
      /\ r.proposal.value = p.value
      /\ draws = NoDraws => r.proposal = p
      /\ Fresh(r)
  BY <1>1, BegunStepRun
<1>. HIDE DEF r
<1>3. Phase(s) # 0 => r.proposal = p
  BY <1>2, DrawsByPhase
<1>4. Justified(firsts, aggs, records, s, r.proposal)
  BY <1>2, <1>3 DEF Justified
<1>5. Faithful(firsts, aggs, r)
  BY <1>2, FreshIsFaithful
<1>6. MaySend(i, r)
  BY <1>2, <1>4, <1>5 DEF MaySend
<1>. QED  BY <1>6 DEF r

\* drive keeps the invariant.
LEMMA DriveKeepsInv ==
  ASSUME Inv, NEW i \in Replica, Open(i), NEW r, SendableRun(r),
         r.step >= isr[i].step => MaySend(i, r),
         Running(i) => run[i].step <= r.step,
         Drive(i, r)
  PROVE  Inv'
<1>1. /\ isr[i] \in IsrSlot /\ isr[i].step \in Nat /\ run[i].step \in Nat
      /\ r.step \in Nat
  BY DEF Inv, TypeInv, TypeOK, IsrSlot, Run, SendableRun
<1>2. CASE ~IsAhead(r, isr[i].step)
  <2>1. Transmit(i, r)
    BY <1>2 DEF Drive
  <2>2. r.step >= isr[i].step
    BY <1>1, <1>2 DEF IsAhead
  <2>. QED  BY <2>1, <2>2, TransmitKeepsInv
<1>3. CASE IsAhead(r, isr[i].step)
  <2>1. PICK draws \in Draws(i, isr[i].step) :
          Transmit(i, BegunStep(i, isr[i].step, isr[i].first, draws))
    BY <1>3 DEF Drive, CaughtUp
  <2>2. isr[i].step > r.step /\ isr[i].step > 0
    BY <1>1, <1>3 DEF IsAhead
  <2>3. /\ isr[i].step \in 4..MaxStep
        /\ isr[i].first = firsts[i][isr[i].step]
        /\ isr[i].first \in Proposal
    BY <1>1, <2>2 DEF Inv, RegistersHoldHistory, HoldsHistory, TypeInv, ProposalsPresent
  <2>4. SentAs(records, isr[i].step, isr[i].first)
    BY <2>3, StepsInRange, ProposalFields DEF Inv, HistoryIsSent
  <2>5. Justified(firsts, aggs, records, isr[i].step, isr[i].first)
    BY <2>4, SentIsJustified
  <2>6. Running(i) => run[i].step < isr[i].step
    BY <1>1, <2>2
  <2>7. isr[i].step >= isr[i].step
    BY <1>1
  <2>8. MaySend(i, BegunStep(i, isr[i].step, isr[i].first, draws))
    BY <2>3, <2>5, <2>6, <2>7, BegunMaySend
  <2>. QED  BY <2>1, <2>8, TransmitKeepsInv
<1>. QED  BY <1>2, <1>3

-----------------------------------------------------------------------------
(* The actions of a proposer. *)

LEMMA ActivateKeepsInv ==
  ASSUME Inv, NEW i \in Up, Activate(i)
  PROVE  Inv'
<1>1. PICK v \in Batches[i], draws \in Draws(i, 4) : Drive(i, Started(i, v, draws))
  BY DEF Activate
<1>2. i \in Replica /\ v \in Value /\ Open(i) /\ ~Running(i)
  BY UpAssumption, BatchesAssumption DEF Activate
<1>. DEFINE p == [priority |-> PriorityH, proposer |-> i, value |-> v]
<1>3. p \in Proposal
  BY <1>2, PriorityAssumption DEF Proposal
<1>4. Started(i, v, draws) = BegunStep(i, 4, p, draws)
  BY DEF Started
<1>. HIDE DEF p
<1>5. 4 \in 4..MaxStep
  BY MaxStepAssumption
<1>6. Justified(firsts, aggs, records, 4, p)
  BY DEF Justified, Phase, Inherited
<1>7. 4 >= isr[i].step => MaySend(i, Started(i, v, draws))
  BY <1>2, <1>3, <1>4, <1>5, <1>6, BegunMaySend
<1>8. SendableRun(Started(i, v, draws)) /\ Started(i, v, draws).step = 4
  BY <1>2, StartedRun
<1>. QED  BY <1>1, <1>2, <1>7, <1>8, DriveKeepsInv

LEMMA RunningRun ==
  ASSUME Inv, NEW i \in Replica, Running(i)
  PROVE  /\ Open(i)
         /\ SendableRun(run[i]) /\ run[i].step \in 4..MaxStep /\ run[i].step \in Nat
         /\ run[i].draws \in Draws(i, run[i].step)
         /\ Justified(firsts, aggs, records, run[i].step, run[i].proposal)
         /\ Faithful(firsts, aggs, run[i])
         /\ run[i].step <= isr[i].step
         /\ \A j \in Replica : SentAs(records, run[i].step, ProposalFor(run[i], j))
<1>1. /\ Open(i) /\ run[i].step \in 4..MaxStep /\ run[i].step <= isr[i].step
      /\ run[i].draws \in Draws(i, run[i].step)
      /\ \A j \in Replica \ {i} :
           [from |-> i, to |-> j, step |-> run[i].step,
            proposal |-> ProposalFor(run[i], j)] \in records
  BY DEF Inv, RunsAreSent
<1>2. SendableRun(run[i]) /\ run[i].step \in Nat
  BY DEF Inv, TypeInv, TypeOK, ProposalsPresent, Running, SendableRun, Run
<1>3. Faithful(firsts, aggs, run[i])
  BY DEF Inv, FoldIsFaithful
<1>4. \A j \in Replica : SentAs(records, run[i].step, ProposalFor(run[i], j))
  BY <1>1, <1>2, OwnProposalIsSent
<1>5. /\ ProposalFor(run[i], i).value = run[i].proposal.value
      /\ Phase(run[i].step) # 0 => ProposalFor(run[i], i) = run[i].proposal
  BY <1>1, <1>2, ProposalForRecorder, DrawsByPhase
<1>6. Justified(firsts, aggs, records, run[i].step, run[i].proposal)
  <2>1. Justified(firsts, aggs, records, run[i].step, ProposalFor(run[i], i))
    BY <1>4, SentIsJustified
  <2>. QED  BY <1>5, <2>1 DEF Justified
<1>. QED  BY <1>1, <1>2, <1>3, <1>4, <1>6

LEMMA RetransmitKeepsInv ==
  ASSUME Inv, NEW i \in Up, Retransmit(i)
  PROVE  Inv'
<1>1. i \in Replica /\ Running(i) /\ Drive(i, run[i])
  BY UpAssumption DEF Retransmit
<1>2. run[i].step >= isr[i].step => MaySend(i, run[i])
  BY <1>1, RunningRun DEF MaySend
<1>3. run[i].step <= run[i].step
  BY <1>1, RunningRun
<1>. QED  BY <1>1, <1>2, <1>3, RunningRun, DriveKeepsInv

\* Deciding keeps the invariant: the replica gives up its register and its run.
LEMMA DecideKeepsInv ==
  ASSUME Inv, NEW i \in Replica, NEW v \in Value, Decision(firsts, aggs, v), Decided(i, v),
         decides' \subseteq DecideMsg, \A m \in decides' : m \in decides \/ m.value = v
  PROVE  Inv'
<1>1. TypeInv'
  BY DecidedTypes DEF Inv
<1>2. UNCHANGED <<records, replies, firsts, aggs>>
  BY DEF Decided
<1>3. /\ isr \in [Replica -> IsrSlot] /\ run \in [Replica -> Run]
      /\ decided \in [Replica -> Value \cup {NoValue}]
      /\ records \subseteq RecordMsg
  BY DEF Inv, TypeInv, TypeOK
<1>4. /\ decided'[i] = v /\ v # NoValue /\ ~Running(i)' /\ ~Open(i)'
      /\ \A j \in Replica : j # i => /\ isr'[j] = isr[j] /\ run'[j] = run[j]
                                     /\ decided'[j] = decided[j]
  BY <1>3, ValueAssumption DEF Decided, NotRunning, Running, Open, NoValue
<1>5. \A j \in Replica : j # i => (Running(j)' <=> Running(j)) /\ (Open(j)' <=> Open(j))
  BY <1>4 DEF Running, Open
<1>6. RegistersHoldHistory'
  BY <1>2, <1>4, <1>5 DEF Inv, RegistersHoldHistory
<1>7. /\ HistoryIsSent' /\ RecordsInRange' /\ OneProposalPerStep' /\ HighIsLeaders'
      /\ RepliesTellHistory' /\ AllJustified'
  BY <1>2 DEF Inv, HistoryIsSent, RecordsInRange, OneProposalPerStep, HighIsLeaders,
              RepliesTellHistory, AllJustified
<1>8. RunsAreSent'
  BY <1>2, <1>4, <1>5 DEF Inv, RunsAreSent
<1>9. SendersRun'
  BY <1>2, <1>3, <1>4, <1>5 DEF Inv, SendersRun, RecordMsg
<1>10. FoldIsFaithful'
  BY <1>2, <1>4, <1>5 DEF Inv, FoldIsFaithful
<1>11. DecisionsAreBacked'
  BY <1>2, <1>4, <1>5 DEF Inv, DecisionsAreBacked
<1>. QED  BY <1>1, <1>6, <1>7, <1>8, <1>9, <1>10, <1>11 DEF Inv

\* The fast path is one: in phase 0 the reserved priority is on the leader's
\* one proposal of step 4.
LEMMA HighFirsts ==
  ASSUME Inv, NEW s \in Steps, Phase(s) = 0, NEW j \in Replica, NEW k \in Replica,
         firsts[j][s].priority = PriorityH, firsts[k][s].priority = PriorityH
  PROVE  s = 4 /\ firsts[j][s] = firsts[k][s]
<1>1. firsts[j][s] # Nil /\ firsts[k][s] # Nil
  BY PriorityAssumption DEF Nil
<1>2. SentAs(records, s, firsts[j][s]) /\ SentAs(records, s, firsts[k][s])
  BY <1>1 DEF Inv, HistoryIsSent
<1>3. PICK m1 \in records : m1.step = s /\ m1.proposal = firsts[j][s]
  BY <1>2 DEF SentAs
<1>4. PICK m2 \in records : m2.step = s /\ m2.proposal = firsts[k][s]
  BY <1>2 DEF SentAs
<1>5. m1.step = 4 /\ m1.from = Leader /\ m2.step = 4 /\ m2.from = Leader
  BY <1>3, <1>4 DEF Inv, HighIsLeaders
<1>6. NoDraws \in Draws(Leader, 4)
  BY DEF Draws
<1>. QED  BY <1>3, <1>4, <1>5, <1>6 DEF Inv, OneProposalPerStep

\* Phases follow each other.
LEMMA PhasesCycle ==
  ASSUME NEW s \in Nat
  PROVE  /\ Phase(s) \in 0..3
         /\ Phase(s) = 0 => Phase(s + 1) = 1
         /\ Phase(s) = 1 => Phase(s + 1) = 2
         /\ Phase(s) = 2 => Phase(s + 1) = 3
         /\ Phase(s) = 3 => Phase(s + 1) = 0
BY DEF Phase

\* A run of i that has counted a quorum in its step.
Completed(i, r) ==
  /\ SendableRun(r) /\ r.step \in 4..MaxStep /\ r.step = run[i].step
  /\ r.draws \in Draws(i, r.step)
  /\ Faithful(firsts, aggs, r)
  /\ r.bestFirst \in Proposal
  /\ r.replied \in Quorums
  /\ \A j \in Replica : SentAs(records, r.step, ProposalFor(r, j))

LEMMA CompletedFacts ==
  ASSUME Inv, NEW i \in Replica, NEW r, Completed(i, r)
  PROVE  /\ r.step \in Steps /\ r.step - 1 \in Steps /\ r.step \in Nat
         /\ r.proposal \in Proposal /\ r.bestAgg \in ProposalOrNil
         /\ r.replied \subseteq Replica
         /\ \A j \in r.replied : firsts[j][r.step] # Nil
         /\ IsHighest(r.bestFirst, {firsts[j][r.step] : j \in r.replied})
         /\ SentAs(records, r.step, r.bestFirst)
         /\ r.bestAgg # Nil =>
              /\ IsHighest(r.bestAgg, {aggs[j][r.step - 1] : j \in r.replied})
              /\ SentAs(records, r.step - 1, r.bestAgg)
         /\ Phase(r.step) # 0 =>
              /\ \A j \in r.replied : Leq(r.proposal, aggs[j][r.step])
              /\ SentAs(records, r.step, r.proposal)
<1>1. /\ r.step \in Steps /\ r.step - 1 \in Steps /\ r.step \in Nat
      /\ r.proposal \in Proposal /\ r.bestAgg \in ProposalOrNil
      /\ r.replied \subseteq Replica
      /\ firsts \in History /\ aggs \in History /\ Matched(firsts, aggs)
  BY StepsInRange DEF Completed, SendableRun, Run, Inv, TypeInv, TypeOK, HistoryIsSent,
                      History, Matched
<1>2. \A j \in r.replied : ProposalFor(r, j) \in Proposal
  BY <1>1, ProposalForRecorder DEF Completed
<1>3. \A j \in r.replied : firsts[j][r.step] # Nil
  BY <1>1, <1>2, CountedHaveReached DEF Completed, Faithful
<1>4. IsHighest(r.bestFirst, {firsts[j][r.step] : j \in r.replied})
  <2>1. IsHighest(r.bestFirst, {firsts[j][r.step] : j \in r.replied} \cup {Nil})
    BY DEF Completed, Faithful
  <2>2. r.bestFirst # Nil
    BY ProposalFields DEF Completed
  <2>. QED  BY <2>1, <2>2 DEF IsHighest
<1>5. SentAs(records, r.step, r.bestFirst)
  <2>1. PICK j \in r.replied : r.bestFirst = firsts[j][r.step]
    BY <1>4 DEF IsHighest
  <2>. QED  BY <1>1, <1>3, <2>1 DEF Inv, HistoryIsSent
<1>6. ASSUME r.bestAgg # Nil
      PROVE  /\ IsHighest(r.bestAgg, {aggs[j][r.step - 1] : j \in r.replied})
             /\ SentAs(records, r.step - 1, r.bestAgg)
  <2>1. IsHighest(r.bestAgg, {aggs[j][r.step - 1] : j \in r.replied} \cup {Nil})
    BY DEF Completed, Faithful
  <2>2. IsHighest(r.bestAgg, {aggs[j][r.step - 1] : j \in r.replied})
    BY <1>6, <2>1 DEF IsHighest
  <2>3. PICK j \in r.replied : r.bestAgg = aggs[j][r.step - 1]
    BY <2>2 DEF IsHighest
  <2>. QED  BY <1>1, <1>6, <2>2, <2>3 DEF Inv, HistoryIsSent
<1>7. ASSUME Phase(r.step) # 0
      PROVE  /\ \A j \in r.replied : Leq(r.proposal, aggs[j][r.step])
             /\ SentAs(records, r.step, r.proposal)
  <2>1. r.draws = NoDraws
    BY <1>7, DrawsByPhase DEF Completed
  <2>2. \A j \in Replica : ProposalFor(r, j) = r.proposal
    BY <2>1 DEF ProposalFor
  <2>3. Leader \in Replica
    BY NAssumption DEF Leader, Replica
  <2>. QED  BY <1>1, <2>2, <2>3 DEF Completed, Faithful
<1>. QED  BY <1>1, <1>3, <1>4, <1>5, <1>6, <1>7

\* What step_complete decides is backed by the quorum it has counted.
LEMMA FastIsBacked ==
  ASSUME Inv, NEW i \in Replica, NEW r, Completed(i, r), DecidesFast(r)
  PROVE  FastDecision(firsts, r.bestFirst.value)
<1>1. /\ r.step \in Steps /\ Phase(r.step) = 0 /\ r.replied \in Quorums
      /\ r.replied \subseteq Replica
      /\ \A j \in r.replied : firsts[j][r.step].priority = PriorityH
  BY CompletedFacts DEF DecidesFast, Completed, Faithful
<1>2. PICK k \in r.replied : r.bestFirst = firsts[k][r.step]
  BY CompletedFacts DEF IsHighest
<1>3. \A j \in r.replied : r.step = 4 /\ firsts[j][r.step] = firsts[k][r.step]
  BY <1>1, HighFirsts
<1>. QED  BY <1>1, <1>2, <1>3 DEF FastDecision

LEMMA SlowIsBacked ==
  ASSUME Inv, NEW i \in Replica, NEW r, Completed(i, r), DecidesSlow(r)
  PROVE  SlowDecision(aggs, r.proposal.value)
<1>1. /\ r.step \in Steps /\ Phase(r.step) = 2 /\ r.replied \in Quorums
      /\ r.proposal \in Proposal /\ r.bestAgg = r.proposal
  BY CompletedFacts DEF DecidesSlow, Completed
<1>2. r.step > 4
  BY <1>1 DEF Completed, Phase
<1>3. r.bestAgg # Nil /\ Phase(r.step) # 0
  BY <1>1, ProposalFields
<1>4. /\ IsHighest(r.proposal, {aggs[j][r.step - 1] : j \in r.replied})
      /\ \A j \in r.replied : Leq(r.proposal, aggs[j][r.step])
  BY <1>1, <1>3, CompletedFacts
<1>. QED  BY <1>1, <1>2, <1>4 DEF SlowDecision, Confirmed

\* What is proposed in a step goes on to be inherited by the next.
LEMMA InheritedNext ==
  ASSUME NEW R, NEW s \in Nat, NEW p, SentAs(R, s, p), Inherited(R, s, p.value)
  PROVE  Inherited(R, s + 1, p.value)
<1>1. \E m \in R : m.step = s /\ m.proposal.value = p.value
  BY DEF SentAs
<1>2. \A t \in 4..((s + 1) - 1) : t = s \/ t \in 4..(s - 1)
  OBVIOUS
<1>. QED  BY <1>1, <1>2 DEF Inherited

\* The proposal that step_complete carries to the next step is justified in it.
LEMMA NextIsJustified ==
  ASSUME Inv, NEW i \in Replica, NEW r, Completed(i, r), ~Stalls(r)
  PROVE  /\ NextProposal(r) \in Proposal
         /\ Justified(firsts, aggs, records, r.step + 1, NextProposal(r))
<1>. DEFINE s == r.step + 1
            p == NextProposal(r)
<1>1. /\ r.step \in Nat /\ r.replied \in Quorums /\ s - 1 = r.step /\ s - 2 = r.step - 1
      /\ r.bestAgg \in ProposalOrNil /\ r.bestFirst \in Proposal /\ r.proposal \in Proposal
  <2>1. /\ r.step \in Nat /\ r.bestAgg \in ProposalOrNil /\ r.proposal \in Proposal
    BY CompletedFacts
  <2>2. r.replied \in Quorums /\ r.bestFirst \in Proposal
    BY DEF Completed
  <2>. QED  BY <2>1, <2>2
<1>2. CASE Phase(r.step) = 0
  <2>1. p = r.bestFirst /\ Phase(s) = 1
    BY <1>1, <1>2, PhasesCycle DEF NextProposal
  <2>2. Gathered(firsts, s, p)
    BY <1>1, <2>1, CompletedFacts DEF Gathered
  <2>3. Inherited(records, s, p.value)
    BY <1>1, <2>1, CompletedFacts, SentIsJustified, InheritedNext DEF Justified
  <2>. QED  BY <1>1, <2>1, <2>2, <2>3 DEF Justified
<1>3. CASE Phase(r.step) \in {1, 2}
  <2>1. p = r.proposal /\ Phase(s) \in {2, 3}
    BY <1>1, <1>3, PhasesCycle DEF NextProposal
  <2>2. /\ \A j \in r.replied : Leq(r.proposal, aggs[j][r.step])
        /\ SentAs(records, r.step, r.proposal)
    <3>1. Phase(r.step) # 0
      BY <1>3
    <3>. QED  BY <3>1, CompletedFacts
  <2>3. Spread(aggs, s, p)
    <3>1. r.replied \in Quorums /\ s - 1 = r.step
      BY <1>1
    <3>. QED  BY <2>1, <2>2, <3>1 DEF Spread
  <2>4. Inherited(records, s, p.value)
    <3>1. SentAs(records, r.step, p)
      BY <2>1, <2>2
    <3>2. Inherited(records, r.step, p.value)
      BY <3>1, SentIsJustified DEF Justified
    <3>. QED  BY <1>1, <3>1, <3>2, InheritedNext
  <2>. QED  BY <1>1, <2>1, <2>3, <2>4 DEF Justified
<1>4. CASE Phase(r.step) = 3
  <2>1. p = r.bestAgg /\ Phase(s) = 0 /\ p # Nil /\ p \in Proposal
    BY <1>1, <1>4, PhasesCycle DEF NextProposal, Stalls, ProposalOrNil
  <2>2. Carried(firsts, aggs, s, p.value)
    BY <1>1, <2>1, CompletedFacts DEF Carried
  <2>3. Inherited(records, r.step, p.value)
    <3>1. r.step - 1 \in Nat /\ (r.step - 1) + 1 = r.step
      BY <1>1 DEF Completed
    <3>2. SentAs(records, r.step - 1, p) /\ Inherited(records, r.step - 1, p.value)
      BY <2>1, CompletedFacts, SentIsJustified DEF Justified
    <3>. QED  BY <3>1, <3>2, InheritedNext
  <2>4. Inherited(records, s, p.value)
    <3>1. \A t \in 4..(s - 1) : t = r.step \/ t \in 4..(r.step - 1)
      BY <1>1
    <3>. QED  BY <1>4, <2>3, <3>1 DEF Inherited
  <2>. QED  BY <2>1, <2>2, <2>4 DEF Justified
<1>. QED  BY <1>1, <1>2, <1>3, <1>4, PhasesCycle

-----------------------------------------------------------------------------
(* The replies. *)

\* Changing only what a run has counted keeps the invariant.
LEMMA CountingKeepsInv ==
  ASSUME Inv, NEW i \in Replica, Running(i), NEW q, SendableRun(q),
         q.step = run[i].step, q.proposal = run[i].proposal, q.draws = run[i].draws,
         Faithful(firsts, aggs, q),
         run' = [run EXCEPT ![i] = q],
         UNCHANGED <<isr, decided, records, replies, decides, firsts, aggs>>
  PROVE  Inv'
<1>1. run \in [Replica -> Run] /\ q \in Run /\ q.proposal \in Proposal /\ records \subseteq RecordMsg
  BY DEF SendableRun, Inv, TypeInv, TypeOK
<1>2. /\ run' \in [Replica -> Run] /\ run'[i] = q
      /\ \A j \in Replica : j # i => run'[j] = run[j]
  BY <1>1
<1>3. \A j \in Replica : /\ run'[j].step = run[j].step
                         /\ run'[j].proposal = run[j].proposal
                         /\ run'[j].draws = run[j].draws
  BY <1>2
<1>4. \A j, k \in Replica : /\ Running(j)' <=> Running(j)
                            /\ Open(j)' <=> Open(j)
                            /\ ProposalFor(run'[j], k) = ProposalFor(run[j], k)
  BY <1>3 DEF Running, Open, ProposalFor
<1>5. TypeInv'
  BY <1>2, <1>3, <1>4 DEF Inv, TypeInv, TypeOK, ProposalsPresent
<1>6. /\ RegistersHoldHistory' /\ HistoryIsSent' /\ RecordsInRange' /\ OneProposalPerStep'
      /\ HighIsLeaders' /\ RepliesTellHistory' /\ AllJustified' /\ DecisionsAreBacked'
  BY DEF Inv, RegistersHoldHistory, HistoryIsSent, RecordsInRange, OneProposalPerStep,
         HighIsLeaders, RepliesTellHistory, AllJustified, DecisionsAreBacked, Open
<1>7. RunsAreSent'
  BY <1>3, <1>4 DEF Inv, RunsAreSent
<1>8. SendersRun'
  BY <1>1, <1>3, <1>4 DEF Inv, SendersRun, RecordMsg
<1>9. FoldIsFaithful'
  BY <1>2, <1>4 DEF Inv, FoldIsFaithful
<1>. QED  BY <1>5, <1>6, <1>7, <1>8, <1>9 DEF Inv

\* What a reply tells a run: an echo is resolved to what its recorder has first,
\* because it is only resolved against the proposal that was really sent.
LEMMA ReplyTells ==
  ASSUME Inv, NEW i \in Replica, Running(i), NEW m \in replies, m.to = i,
         m.first = Echo => m.req = run[i].step
  PROVE  /\ m.from \in Replica /\ m.step \in 4..MaxStep
         /\ Resolved(run[i], m) = firsts[m.from][m.step]
         /\ Resolved(run[i], m) \in Proposal
         /\ m.prior = aggs[m.from][m.step - 1]
         /\ m.req = run[i].step /\ m.step = run[i].step =>
              Leq(ProposalFor(run[i], m.from), aggs[m.from][m.step])
<1>1. TellsHistory(firsts, aggs, records, m)
  BY DEF Inv, RepliesTellHistory
<1>2. PICK rec \in records :
        /\ rec.from = i /\ rec.to = m.from /\ rec.step = m.req
        /\ m.req = m.step => Leq(rec.proposal, aggs[m.from][m.step])
        /\ m.first = Echo => m.req = m.step /\ rec.proposal = firsts[m.from][m.step]
  BY <1>1 DEF TellsHistory
<1>3. Open(i)
  BY RunningRun
<1>4. m.req = run[i].step => rec.proposal = ProposalFor(run[i], m.from)
  BY <1>2, <1>3 DEF Inv, SendersRun
<1>5. Resolved(run[i], m) = firsts[m.from][m.step]
  BY <1>1, <1>2, <1>4 DEF Resolved, TellsHistory
<1>6. /\ m.from \in Replica /\ m.step \in 4..MaxStep /\ m.prior = aggs[m.from][m.step - 1]
      /\ Resolved(run[i], m) \in Proposal
  BY <1>1, ResolvedTypes DEF Inv, TellsHistory
<1>. QED  BY <1>2, <1>4, <1>5, <1>6

\* Completing a step keeps the invariant, whichever way it goes.
LEMMA CompleteKeepsInv ==
  ASSUME Inv, NEW i \in Replica, Running(i), NEW r, Completed(i, r),
         r.proposal = run[i].proposal, r.draws = run[i].draws, Complete(i, r)
  PROVE  Inv'
<1>1. Open(i)
  BY RunningRun
<1>2. SendableRun(r) /\ r.step \in Nat /\ r.bestFirst \in Proposal /\ r.proposal \in Proposal
  BY CompletedFacts DEF Completed
<1>3. ASSUME NEW v \in Value, Decision(firsts, aggs, v), DecideAndTell(i, v) PROVE Inv'
  <2>1. decides' \subseteq DecideMsg
    BY <1>3 DEF DecideAndTell, DecideMsg, Inv, TypeInv, TypeOK
  <2>2. \A m \in decides' : m \in decides \/ m.value = v
    BY <1>3 DEF DecideAndTell
  <2>. QED  BY <1>3, <2>1, <2>2, DecideKeepsInv DEF DecideAndTell
<1>4. CASE DecidesFast(r) /\ DecideAndTell(i, r.bestFirst.value)
  <2>1. r.bestFirst.value \in Value /\ Decision(firsts, aggs, r.bestFirst.value)
    BY <1>2, <1>4, ProposalFields, FastIsBacked DEF Decision
  <2>. QED  BY <1>3, <1>4, <2>1
<1>5. CASE DecidesSlow(r) /\ DecideAndTell(i, r.proposal.value)
  <2>1. r.proposal.value \in Value /\ Decision(firsts, aggs, r.proposal.value)
    BY <1>2, <1>5, ProposalFields, SlowIsBacked DEF Decision
  <2>. QED  BY <1>3, <1>5, <2>1
<1>6. CASE /\ Stalls(r)
           /\ run' = [run EXCEPT ![i] = ResetTracking(r)]
           /\ UNCHANGED <<isr, decided, records, replies, decides, firsts, aggs>>
  <2>. DEFINE q == ResetTracking(r)
  <2>1. /\ SendableRun(q) /\ q.step = r.step /\ q.proposal = r.proposal /\ q.draws = r.draws
        /\ Fresh(q)
    BY <1>2, ProposalFields DEF ResetTracking, SendableRun, Run, Fresh
  <2>2. Faithful(firsts, aggs, q)
    BY <2>1, FreshIsFaithful
  <2>. HIDE DEF q
  <2>3. q.step = run[i].step
    BY <2>1 DEF Completed
  <2>. QED  BY <1>6, <2>1, <2>2, <2>3, CountingKeepsInv DEF q
<1>7. ASSUME ~Stalls(r), r.step < MaxStep, NEW draws \in Draws(i, r.step + 1),
             Drive(i, BegunStep(i, r.step + 1, NextProposal(r), draws))
      PROVE  Inv'
  <2>. DEFINE s == r.step + 1
              p == NextProposal(r)
  <2>1. s \in 4..MaxStep /\ s \in Nat \ {0}
    BY <1>2, <1>7, MaxStepAssumption DEF Completed
  <2>2. p \in Proposal /\ Justified(firsts, aggs, records, s, p)
    BY <1>7, NextIsJustified
  <2>3. run[i].step < s
    BY <1>2 DEF Completed
  <2>. HIDE DEF s, p
  <2>4. SendableRun(BegunStep(i, s, p, draws)) /\ BegunStep(i, s, p, draws).step = s
    BY <1>7, <2>1, <2>2, BegunStepRun DEF s
  <2>5. s >= isr[i].step => MaySend(i, BegunStep(i, s, p, draws))
    BY <1>7, <2>1, <2>2, <2>3, BegunMaySend DEF s
  <2>6. run[i].step <= BegunStep(i, s, p, draws).step
    BY <2>1, <2>3, <2>4, RunningRun
  <2>. QED  BY <1>1, <1>7, <2>4, <2>5, <2>6, DriveKeepsInv DEF s, p
<1>. QED  BY <1>4, <1>5, <1>6, <1>7 DEF Complete

\* Counting a reply of a recorder that is in step: the run stays faithful, and
\* completes its step with the last of a quorum.
LEMMA CountedReply ==
  ASSUME Inv, NEW i \in Replica, Running(i), NEW m \in replies, m.to = i,
         Counts(run[i], m.from, m.req, m.step),
         NEW c, c = Counted(run[i], m.from, Resolved(run[i], m), m.prior)
  PROVE  /\ SendableRun(c) /\ c.step = run[i].step
         /\ c.proposal = run[i].proposal /\ c.draws = run[i].draws
         /\ c.replied = run[i].replied \cup {m.from}
         /\ Faithful(firsts, aggs, c)
         /\ HasQuorum(c) => Completed(i, c)
<1>. DEFINE first == Resolved(run[i], m)
<1>1. m.req = run[i].step /\ m.step = run[i].step
  BY DEF Counts
<1>2. /\ m.from \in Replica /\ first = firsts[m.from][m.step] /\ first \in Proposal
      /\ m.prior = aggs[m.from][m.step - 1]
      /\ Leq(ProposalFor(run[i], m.from), aggs[m.from][m.step])
  BY <1>1, ReplyTells
<1>3. /\ SendableRun(run[i]) /\ run[i].step \in 4..MaxStep
      /\ run[i].draws \in Draws(i, run[i].step)
      /\ Faithful(firsts, aggs, run[i])
      /\ \A j \in Replica : SentAs(records, run[i].step, ProposalFor(run[i], j))
  BY RunningRun
<1>. HIDE DEF first
<1>4. m.prior \in ProposalOrNil
  BY ResolvedTypes DEF Inv
<1>5. /\ SendableRun(c) /\ c.step = run[i].step
      /\ c.proposal = run[i].proposal /\ c.draws = run[i].draws
      /\ c.replied = run[i].replied \cup {m.from}
      /\ c.bestFirst \in Proposal
  BY <1>2, <1>3, <1>4, CountedRun DEF first
<1>6. firsts \in History /\ aggs \in History
  BY DEF Inv, TypeInv, TypeOK, History
<1>7. Faithful(firsts, aggs, c)
  <2>1. Faithful(firsts, aggs, Counted(run[i], m.from, firsts[m.from][run[i].step],
                                       aggs[m.from][run[i].step - 1]))
    BY <1>1, <1>2, <1>3, <1>6, CountedIsFaithful
  <2>. QED  BY <1>1, <1>2, <2>1 DEF first
<1>8. ASSUME HasQuorum(c) PROVE Completed(i, c)
  <2>1. c.replied \in Quorums
    BY <1>5, <1>8 DEF HasQuorum, Quorums, SendableRun, Run
  <2>2. \A j \in Replica : ProposalFor(c, j) = ProposalFor(run[i], j)
    BY <1>5 DEF ProposalFor
  <2>. QED  BY <1>3, <1>5, <1>7, <2>1, <2>2 DEF Completed
<1>. QED  BY <1>5, <1>7, <1>8

LEMMA OnRecordReplyKeepsInv ==
  ASSUME Inv, NEW i \in Up, OnRecordReply(i)
  PROVE  Inv'
<1>1. i \in Replica /\ Running(i)
  BY UpAssumption DEF OnRecordReply
<1>2. PICK m \in replies :
        LET first == Resolved(run[i], m)
            counted == Counted(run[i], m.from, first, m.prior)
        IN  /\ m.to = i
            /\ m.first = Echo => m.req = run[i].step
            /\ \/ /\ IsAhead(run[i], m.step)
                  /\ \E draws \in Draws(i, m.step) :
                       Drive(i, CaughtUp(i, run[i], m.step, first, draws))
               \/ /\ Counts(run[i], m.from, m.req, m.step)
                  /\ \/ /\ ~HasQuorum(counted)
                        /\ run' = [run EXCEPT ![i] = counted]
                        /\ UNCHANGED <<isr, decided, records, replies, decides,
                                       firsts, aggs>>
                     \/ HasQuorum(counted) /\ Complete(i, counted)
  BY DEF OnRecordReply
<1>. DEFINE first == Resolved(run[i], m)
            counted == Counted(run[i], m.from, first, m.prior)
<1>3. ASSUME IsAhead(run[i], m.step), NEW draws \in Draws(i, m.step),
             Drive(i, CaughtUp(i, run[i], m.step, first, draws))
      PROVE  Inv'
  <2>1. /\ m.from \in Replica /\ m.step \in 4..MaxStep
        /\ first = firsts[m.from][m.step] /\ first \in Proposal
    BY <1>1, <1>2, ReplyTells
  <2>. HIDE DEF first
  <2>2. SentAs(records, m.step, first)
    BY <2>1, StepsInRange, ProposalFields DEF Inv, HistoryIsSent
  <2>3. Justified(firsts, aggs, records, m.step, first)
    BY <2>2, SentIsJustified
  <2>4. run[i].step < m.step /\ run[i].step <= m.step /\ m.step \in Nat \ {0}
    BY <1>1, <1>3, <2>1, RunningRun DEF IsAhead
  <2>. DEFINE r == BegunStep(i, m.step, first, draws)
  <2>5. SendableRun(r) /\ r.step = m.step
    BY <1>1, <2>1, <2>4, BegunStepRun
  <2>6. m.step >= isr[i].step => MaySend(i, r)
    BY <1>1, <2>1, <2>3, <2>4, BegunMaySend
  <2>7. Drive(i, r) /\ Open(i)
    BY <1>1, <1>3, RunningRun DEF CaughtUp
  <2>. HIDE DEF r
  <2>. QED  BY <1>1, <2>4, <2>5, <2>6, <2>7, DriveKeepsInv
<1>. HIDE DEF first
<1>4. ASSUME Counts(run[i], m.from, m.req, m.step)
      PROVE  /\ SendableRun(counted) /\ counted.step = run[i].step
             /\ counted.proposal = run[i].proposal /\ counted.draws = run[i].draws
             /\ Faithful(firsts, aggs, counted)
             /\ HasQuorum(counted) => Completed(i, counted)
  BY <1>1, <1>2, <1>4, CountedReply DEF first
<1>. HIDE DEF counted
<1>5. ASSUME Counts(run[i], m.from, m.req, m.step),
             run' = [run EXCEPT ![i] = counted],
             UNCHANGED <<isr, decided, records, replies, decides, firsts, aggs>>
      PROVE  Inv'
  BY <1>1, <1>4, <1>5, CountingKeepsInv
<1>6. ASSUME Counts(run[i], m.from, m.req, m.step), HasQuorum(counted), Complete(i, counted)
      PROVE  Inv'
  BY <1>1, <1>4, <1>6, CompleteKeepsInv
<1>. QED  BY <1>2, <1>3, <1>5, <1>6 DEF first, counted

-----------------------------------------------------------------------------
(* The recorder, and the decisions. *)

LEMMA OnRecordOpenKeepsInv ==
  ASSUME Inv, NEW i \in Up, OnRecordOpen(i)
  PROVE  Inv'
<1>. DEFINE after(m) == Recorded(isr[i], m.step, m.proposal)
            reply(m) == [from |-> i, to |-> m.from, req |-> m.step, step |-> after(m).step,
                         first |-> ReplyFirst(after(m), m.step, m.proposal),
                         prior |-> after(m).prior]
<1>1. i \in Replica /\ Open(i)
  BY UpAssumption DEF OnRecordOpen
<1>2. PICK m \in records : /\ m.to = i
                           /\ RecordAt(i, m.step, m.proposal)
                           /\ replies' = replies \cup {reply(m)}
  BY DEF OnRecordOpen
<1>3. UNCHANGED <<decided, run, records, decides>>
  BY DEF OnRecordOpen
<1>4. m.step \in 4..MaxStep /\ m.step \in Nat /\ m.proposal \in Proposal /\ m.from \in Replica
  BY DEF Inv, TypeInv, TypeOK, RecordMsg, RecordsInRange
<1>5. TypeInv'
  <2>1. Next
    BY DEF Next
  <2>. QED  BY <2>1, TypeInvInductive DEF Inv
<1>6. SentAs(records', m.step, m.proposal)
  BY <1>3 DEF SentAs
<1>7. /\ Effect(i, m.step, m.proposal)
      /\ RegistersHoldHistory' /\ HistoryIsSent'
      /\ \A j \in Replica : isr'[j].step >= isr[j].step
      /\ \A x \in replies : TellsHistory(firsts', aggs', records', x)
      /\ \A x \in records : Justified(firsts', aggs', records', x.step, x.proposal)
      /\ \A v : Decision(firsts, aggs, v) => Decision(firsts', aggs', v)
      /\ \A r : SendableRun(r) /\ r.step \in 4..MaxStep /\ Faithful(firsts, aggs, r)
                 => Faithful(firsts', aggs', r)
  BY <1>1, <1>2, <1>3, <1>4, <1>5, <1>6, RecordingKeeps
<1>8. /\ reply(m).from = i /\ reply(m).to = m.from /\ reply(m).req = m.step
      /\ reply(m).step = after(m).step /\ reply(m).prior = after(m).prior
      /\ reply(m).first = ReplyFirst(after(m), m.step, m.proposal)
  OBVIOUS
<1>9. after(m) = isr'[i]
  BY <1>1, <1>2 DEF RecordAt, Inv, TypeInv, TypeOK
<1>. HIDE DEF after, reply
<1>10. TellsHistory(firsts', aggs', records', reply(m))
  <2>1. /\ isr'[i].step \in 4..MaxStep /\ isr'[i].step > 0
        /\ isr'[i].first = firsts'[i][isr'[i].step]
        /\ isr'[i].prior = aggs'[i][isr'[i].step - 1]
        /\ isr'[i].step = m.step => Leq(m.proposal, aggs'[i][m.step])
    BY <1>7 DEF Effect, HoldsHistory
  <2>2. isr'[i].first \in Proposal /\ isr'[i].first # Nil
    BY <1>1, <1>5, <2>1, ProposalFields DEF TypeInv, ProposalsPresent
  <2>3. reply(m).first # Echo => reply(m).first = isr'[i].first
    BY <1>8, <1>9 DEF ReplyFirst
  <2>4. reply(m).first = Echo => isr'[i].step = m.step /\ isr'[i].first = m.proposal
    BY <1>8, <1>9, <2>2 DEF ReplyFirst, Echo
  <2>. QED  BY <1>2, <1>3, <1>8, <1>9, <2>1, <2>2, <2>3, <2>4 DEF TellsHistory
<1>11. RepliesTellHistory'
  BY <1>2, <1>7, <1>10 DEF RepliesTellHistory
<1>12. \A j \in Replica : /\ Running(j)' <=> Running(j)
                          /\ Open(j)' <=> Open(j)
  BY <1>3 DEF Running, Open
<1>13. RunsAreSent'
  <2>1. \A j \in Replica : isr'[j].step \in Nat /\ isr[j].step \in Nat /\ run[j].step \in Nat
    BY <1>5 DEF Inv, TypeInv, TypeOK, IsrSlot, Run
  <2>. QED  BY <1>3, <1>7, <1>12, <2>1 DEF Inv, RunsAreSent
<1>14. FoldIsFaithful'
  <2>1. \A k \in Replica : Running(k) =>
          SendableRun(run[k]) /\ run[k].step \in 4..MaxStep /\ Faithful(firsts, aggs, run[k])
    BY RunningRun
  <2>. QED  BY <1>3, <1>7, <1>12, <2>1 DEF FoldIsFaithful
<1>15. SendersRun' /\ RecordsInRange' /\ OneProposalPerStep' /\ HighIsLeaders'
  BY <1>3 DEF Inv, SendersRun, RecordsInRange, OneProposalPerStep, HighIsLeaders, Open, Running
<1>16. AllJustified' /\ DecisionsAreBacked'
  BY <1>3, <1>7, <1>12 DEF Inv, AllJustified, DecisionsAreBacked
<1>. QED  BY <1>5, <1>7, <1>11, <1>13, <1>14, <1>15, <1>16 DEF Inv

LEMMA OnRecordDecidedKeepsInv ==
  ASSUME Inv, NEW i \in Up, OnRecordDecided(i)
  PROVE  Inv'
<1>1. i \in Replica /\ ~Open(i)
  BY UpAssumption DEF OnRecordDecided
<1>2. PICK m \in records :
        decides' = decides \cup {[from |-> i, to |-> m.from, value |-> decided[i]]}
  BY DEF OnRecordDecided
<1>3. UNCHANGED <<isr, decided, run, records, replies, firsts, aggs>>
  BY DEF OnRecordDecided
<1>4. TypeInv'
  <2>1. Next
    BY DEF Next
  <2>. QED  BY <2>1, TypeInvInductive DEF Inv
<1>5. DecisionsAreBacked'
  BY <1>1, <1>2, <1>3 DEF Inv, DecisionsAreBacked, Open
<1>6. /\ RegistersHoldHistory' /\ HistoryIsSent' /\ RunsAreSent' /\ SendersRun'
      /\ RecordsInRange' /\ OneProposalPerStep' /\ HighIsLeaders'
      /\ RepliesTellHistory' /\ FoldIsFaithful' /\ AllJustified'
  BY <1>3 DEF Inv, RegistersHoldHistory, HistoryIsSent, RunsAreSent, SendersRun, RecordsInRange,
     OneProposalPerStep, HighIsLeaders, RepliesTellHistory, FoldIsFaithful, AllJustified,
     Running, Open
<1>. QED  BY <1>4, <1>5, <1>6 DEF Inv

LEMMA OnDecideKeepsInv ==
  ASSUME Inv, NEW i \in Up, OnDecide(i)
  PROVE  Inv'
<1>1. i \in Replica /\ decides' = decides
  BY UpAssumption DEF OnDecide
<1>2. PICK m \in decides : Decided(i, m.value)
  BY DEF OnDecide
<1>3. m.value \in Value /\ decides \subseteq DecideMsg /\ Decision(firsts, aggs, m.value)
  BY DEF Inv, TypeInv, TypeOK, DecideMsg, DecisionsAreBacked
<1>. QED  BY <1>1, <1>2, <1>3, DecideKeepsInv

LEMMA InvInitially == Init => Inv
<1>. SUFFICES ASSUME Init PROVE Inv
  OBVIOUS
<1>1. TypeInv
  BY TypeInvInitially
<1>2. \A i \in Replica : isr[i].step = 0 /\ ~Running(i) /\ Open(i)
  BY DEF Init, EmptyIsr, NotRunning, Running, Open
<1>3. RegistersHoldHistory /\ HistoryIsSent
  BY <1>2 DEF Init, RegistersHoldHistory, HoldsHistory, HistoryIsSent
<1>4. RunsAreSent /\ FoldIsFaithful
  BY <1>2 DEF RunsAreSent, FoldIsFaithful
<1>5. /\ SendersRun /\ RecordsInRange /\ OneProposalPerStep /\ HighIsLeaders
      /\ RepliesTellHistory /\ AllJustified /\ DecisionsAreBacked
  BY <1>2 DEF Init, SendersRun, RecordsInRange, OneProposalPerStep, HighIsLeaders,
              RepliesTellHistory, AllJustified, DecisionsAreBacked
<1>. QED  BY <1>1, <1>3, <1>4, <1>5 DEF Inv

LEMMA InvInductive == Inv /\ [Next]_vars => Inv'
<1>. SUFFICES ASSUME Inv, [Next]_vars PROVE Inv'
  OBVIOUS
<1>1. CASE UNCHANGED vars
  <2>1. TypeInv'
    BY TypeInvInductive DEF Inv
  <2>. QED
    BY <1>1, <2>1 DEF vars, Inv, RegistersHoldHistory, HistoryIsSent, RunsAreSent, SendersRun,
       RecordsInRange, OneProposalPerStep, HighIsLeaders, RepliesTellHistory, FoldIsFaithful,
       AllJustified, DecisionsAreBacked, Running, Open
<1>2. CASE Next
  BY <1>2, ActivateKeepsInv, RetransmitKeepsInv, OnRecordDecidedKeepsInv,
     OnRecordOpenKeepsInv, OnRecordReplyKeepsInv, OnDecideKeepsInv DEF Next
<1>. QED  BY <1>1, <1>2

THEOREM InvHolds == Spec => []Inv
BY InvInitially, InvInductive, PTL DEF Spec
=============================================================================
