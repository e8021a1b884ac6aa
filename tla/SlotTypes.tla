------------------------------ MODULE SlotTypes ------------------------------
(***************************************************************************)
(* SlotConsensus is type correct.  TypeOK is not inductive by itself: a    *)
(* record carries a proposal, never Nil, because every register that has   *)
(* reached a step and every run have one (ProposalsPresent).  Before that, *)
(* lemmas about the order of proposals and about majorities (Proposals),   *)
(* registers (Isr) and runs (ProposerRun).                                 *)
(***************************************************************************)
EXTENDS SlotInvariant, FiniteSetTheorems, TLAPS

-----------------------------------------------------------------------------
(* Proposals. *)

\* A proposal is determined by its three fields (derive(PartialEq)).
LEMMA ProposalExtensional ==
  ASSUME NEW p \in ProposalOrNil, NEW q \in ProposalOrNil,
         p.priority = q.priority, p.proposer = q.proposer, p.value = q.value
  PROVE  p = q
BY DEF ProposalOrNil, Proposal, Nil

\* The fields of a proposal are natural numbers, and Nil is no proposal.
LEMMA ProposalFields ==
  /\ \A p \in ProposalOrNil : p.priority \in Nat /\ p.proposer \in Nat /\ p.value \in Nat
  /\ \A p \in Proposal : p.priority \in 1..PriorityH /\ p.value \in Value /\ p # Nil
  /\ Nil \notin Proposal /\ Nil \in ProposalOrNil /\ Proposal \subseteq ProposalOrNil
<1>1. \A p \in Proposal : /\ p.priority \in 1..PriorityH /\ p.proposer \in 1..N
                          /\ p.value \in Value
  BY DEF Proposal, Replica
<1>2. \A p \in Proposal : p.priority \in Nat /\ p.proposer \in Nat /\ p.value \in Nat
  <2>. SUFFICES ASSUME NEW p \in Proposal
       PROVE  p.priority \in Nat /\ p.proposer \in Nat /\ p.value \in Nat
    OBVIOUS
  <2>1. p.priority \in 1..PriorityH /\ p.proposer \in 1..N /\ p.value \in Value
    BY <1>1
  <2>2. p.priority \in Nat
    BY <2>1, PriorityAssumption
  <2>3. p.proposer \in Nat
    BY <2>1, NAssumption
  <2>4. p.value \in Nat
    BY <2>1, ValueAssumption
  <2>. QED  BY <2>2, <2>3, <2>4
<1>3. \A p \in Proposal : p # Nil
  BY <1>1 DEF Nil
<1>4. Nil.priority \in Nat /\ Nil.proposer \in Nat /\ Nil.value \in Nat
  BY DEF Nil
<1>. QED  BY <1>1, <1>2, <1>3, <1>4 DEF ProposalOrNil

\* impl Ord for Proposal is a total order, with Nil below every proposal.
LEMMA LeqReflexive == \A p : Leq(p, p)
BY DEF Leq

LEMMA LeqTotal ==
  ASSUME NEW p \in ProposalOrNil, NEW q \in ProposalOrNil
  PROVE  Leq(p, q) \/ Less(q, p)
BY ProposalFields, ProposalExtensional DEF Leq, Less

LEMMA LeqAntisymmetric ==
  ASSUME NEW p \in ProposalOrNil, NEW q \in ProposalOrNil, Leq(p, q), Leq(q, p)
  PROVE  p = q
BY ProposalFields DEF Leq, Less

LEMMA LeqTransitive ==
  ASSUME NEW p \in ProposalOrNil, NEW q \in ProposalOrNil, NEW r \in ProposalOrNil,
         Leq(p, q), Leq(q, r)
  PROVE  Leq(p, r)
BY ProposalFields DEF Leq, Less

LEMMA NilIsLeast ==
  ASSUME NEW p \in ProposalOrNil
  PROVE  Leq(Nil, p) /\ (Leq(p, Nil) => p = Nil) /\ (p \in Proposal => Less(Nil, p))
<1>1. p \in Proposal => Less(Nil, p)
  BY ProposalFields DEF Less, Nil
<1>2. Leq(Nil, p)
  BY <1>1 DEF Leq, ProposalOrNil
<1>. QED  BY <1>1, <1>2, LeqAntisymmetric, ProposalFields

\* Highest is the maximum of two proposals.
LEMMA HighestIsMaximum ==
  ASSUME NEW p \in ProposalOrNil, NEW q \in ProposalOrNil
  PROVE  /\ Highest(p, q) \in {p, q}
         /\ Leq(p, Highest(p, q)) /\ Leq(q, Highest(p, q))
         /\ q \in Proposal => Highest(p, q) \in Proposal
         /\ p \in Proposal => Highest(p, q) \in Proposal
<1>1. CASE Less(p, q)
  <2>1. Highest(p, q) = q
    BY <1>1 DEF Highest
  <2>2. q \in Proposal
    BY <1>1, NilIsLeast DEF ProposalOrNil, Less, Nil, Proposal
  <2>. QED  BY <1>1, <2>1, <2>2 DEF Leq
<1>2. CASE ~Less(p, q)
  <2>1. Highest(p, q) = p
    BY <1>2 DEF Highest
  <2>2. Leq(q, p)
    BY <1>2, LeqTotal DEF Leq
  <2>3. q \in Proposal => p \in Proposal
    BY <1>2, NilIsLeast DEF ProposalOrNil
  <2>. QED  BY <2>1, <2>2, <2>3 DEF Leq
<1>. QED  BY <1>1, <1>2

\* Adding q to a set whose highest element is p makes Highest(p, q) its highest.
LEMMA HighestOfMore ==
  ASSUME NEW S \in SUBSET ProposalOrNil, NEW p, NEW q \in ProposalOrNil, IsHighest(p, S)
  PROVE  IsHighest(Highest(p, q), S \cup {q})
<1>1. p \in ProposalOrNil
  BY DEF IsHighest
<1>2. Highest(p, q) \in S \cup {q}
  BY <1>1, HighestIsMaximum DEF IsHighest
<1>3. ASSUME NEW x \in S \cup {q} PROVE Leq(x, Highest(p, q))
  <2>1. Highest(p, q) \in ProposalOrNil
    BY <1>2
  <2>2. CASE x \in S
    <3>1. Leq(x, p)
      BY <2>2 DEF IsHighest
    <3>. QED  BY <1>1, <2>1, <2>2, <3>1, HighestIsMaximum, LeqTransitive
  <2>3. CASE x = q
    BY <1>1, <2>3, HighestIsMaximum
  <2>. QED  BY <2>2, <2>3
<1>. QED  BY <1>2, <1>3 DEF IsHighest

\* Any two majorities have a replica in common.
LEMMA MajoritiesIntersect ==
  ASSUME NEW P \in SUBSET Replica, NEW Q \in SUBSET Replica,
         Cardinality(P) = QuorumSize, Cardinality(Q) = QuorumSize
  PROVE  P \cap Q # {}
<1>1. IsFiniteSet(Replica) /\ Cardinality(Replica) = N
  BY FS_Interval, NAssumption DEF Replica
<1>2. Cardinality(P) + Cardinality(Q) > Cardinality(Replica)
  BY <1>1, NAssumption DEF QuorumSize
<1>. QED  BY <1>1, <1>2, FS_MajoritiesIntersect

-----------------------------------------------------------------------------
(* Registers and runs. *)

\* What record does to a register, in each of its three cases.
LEMMA RecordedCases ==
  ASSUME NEW reg \in IsrSlot, NEW step \in Nat, NEW p \in Proposal
  PROVE  /\ Recorded(reg, step, p) \in IsrSlot
         /\ step > reg.step =>
              /\ Recorded(reg, step, p).step = step
              /\ Recorded(reg, step, p).first = p
              /\ Recorded(reg, step, p).cur = p
              /\ Recorded(reg, step, p).prior =
                   IF step = reg.step + 1 THEN reg.cur ELSE Nil
         /\ step = reg.step =>
              /\ Recorded(reg, step, p).step = reg.step
              /\ Recorded(reg, step, p).first = reg.first
              /\ Recorded(reg, step, p).cur = Highest(reg.cur, p)
              /\ Recorded(reg, step, p).prior = reg.prior
         /\ step < reg.step => Recorded(reg, step, p) = reg
<1>1. /\ reg.step \in Nat /\ reg.first \in ProposalOrNil /\ reg.cur \in ProposalOrNil
      /\ reg.prior \in ProposalOrNil /\ p \in ProposalOrNil /\ Nil \in ProposalOrNil
  BY ProposalFields DEF IsrSlot
<1>2. CASE step > reg.step
  <2>1. Recorded(reg, step, p) =
          [step |-> step, first |-> p, cur |-> p,
           prior |-> IF step = reg.step + 1 THEN reg.cur ELSE Nil]
    BY <1>1, <1>2 DEF Recorded
  <2>. QED  BY <1>1, <1>2, <2>1 DEF IsrSlot
<1>3. CASE step = reg.step
  <2>1. Recorded(reg, step, p) = [reg EXCEPT !.cur = Highest(@, p)]
    BY <1>1, <1>3 DEF Recorded
  <2>2. Highest(reg.cur, p) \in ProposalOrNil
    BY <1>1, HighestIsMaximum
  <2>. QED  BY <1>1, <1>3, <2>1, <2>2 DEF IsrSlot
<1>4. CASE step < reg.step
  BY <1>1, <1>4 DEF Recorded
<1>. QED  BY <1>1, <1>2, <1>3, <1>4

\* The draws of a randomized phase 0 are below the reserved priority, and are
\* told from no draws at all.
LEMMA DrawsAreLow ==
  /\ NoDraws \notin DrawnPriorities
  /\ \A draws \in DrawnPriorities, j \in Replica :
       draws[j] \in 1..PriorityH /\ draws[j] < PriorityH
  /\ \A i, step : Draws(i, step) \subseteq DrawnPriorities \cup {NoDraws}
<1>1. Leader \in Replica
  BY NAssumption DEF Leader, Replica
<1>2. NoDraws \notin DrawnPriorities
  BY <1>1 DEF NoDraws, DrawnPriorities
<1>3. \A draws \in DrawnPriorities, j \in Replica :
        draws[j] \in 1..PriorityH /\ draws[j] < PriorityH
  BY PriorityAssumption DEF DrawnPriorities
<1>4. \A i, step : Draws(i, step) \subseteq DrawnPriorities \cup {NoDraws}
  BY DEF Draws
<1>. QED  BY <1>2, <1>3, <1>4

\* A run that may be transmitted.
SendableRun(r) == r \in Run /\ r.step \in Nat \ {0} /\ r.proposal \in Proposal

\* What a recorder is sent has the value of the run, and unless priorities were
\* drawn it is the proposal of the run.
LEMMA ProposalForRecorder ==
  ASSUME NEW r, SendableRun(r), NEW j \in Replica
  PROVE  /\ ProposalFor(r, j) \in Proposal
         /\ ProposalFor(r, j).value = r.proposal.value
         /\ r.draws = NoDraws => ProposalFor(r, j) = r.proposal
         /\ r.draws # NoDraws => ProposalFor(r, j).priority < PriorityH
<1>1. r.proposal \in Proposal /\ r.draws \in DrawnPriorities \cup {NoDraws}
  BY DEF SendableRun, Run
<1>2. CASE r.draws = NoDraws
  BY <1>1, <1>2 DEF ProposalFor
<1>3. CASE r.draws # NoDraws
  <2>1. r.draws[j] \in 1..PriorityH /\ r.draws[j] < PriorityH
    BY <1>1, <1>3, DrawsAreLow
  <2>2. ProposalFor(r, j) = [r.proposal EXCEPT !.priority = r.draws[j]]
    BY <1>3 DEF ProposalFor
  <2>. QED  BY <1>1, <1>3, <2>1, <2>2 DEF Proposal
<1>. QED  BY <1>2, <1>3

\* A run that has counted nobody.
Fresh(r) == r.replied = {} /\ r.bestFirst = Nil /\ r.bestAgg = Nil /\ r.allHigh = TRUE

\* A step that has just begun carries the value it was given, and has counted
\* nobody.
LEMMA BegunStepRun ==
  ASSUME NEW i \in Replica, NEW step \in Nat \ {0}, NEW p \in Proposal,
         NEW draws \in Draws(i, step)
  PROVE  /\ SendableRun(BegunStep(i, step, p, draws))
         /\ BegunStep(i, step, p, draws).step = step
         /\ BegunStep(i, step, p, draws).draws = draws
         /\ BegunStep(i, step, p, draws).proposal.value = p.value
         /\ draws = NoDraws => BegunStep(i, step, p, draws).proposal = p
         /\ Fresh(BegunStep(i, step, p, draws))
<1>. DEFINE r == BegunStep(i, step, p, draws)
<1>1. draws \in DrawnPriorities \cup {NoDraws}
  BY DrawsAreLow
<1>2. r.proposal \in Proposal /\ r.proposal.value = p.value
  <2>1. CASE draws = NoDraws
    BY <2>1 DEF BegunStep
  <2>2. CASE draws # NoDraws
    <3>1. draws[i] \in 1..PriorityH
      BY <1>1, <2>2, DrawsAreLow
    <3>2. r.proposal = [p EXCEPT !.proposer = i, !.priority = draws[i]]
      BY <2>2 DEF BegunStep
    <3>. QED  BY <3>1, <3>2 DEF Proposal
  <2>. QED  BY <2>1, <2>2
<1>3. /\ r.step = step /\ r.draws = draws
      /\ r.replied = {} /\ r.bestFirst = Nil /\ r.bestAgg = Nil /\ r.allHigh = TRUE
      /\ draws = NoDraws => r.proposal = p
  BY DEF BegunStep
<1>4. r = [step |-> r.step, proposal |-> r.proposal, draws |-> r.draws,
           replied |-> r.replied, bestFirst |-> r.bestFirst, bestAgg |-> r.bestAgg,
           allHigh |-> r.allHigh]
  BY DEF BegunStep
<1>5. r \in Run
  <2>1. r.proposal \in ProposalOrNil /\ Nil \in ProposalOrNil
    BY <1>2, ProposalFields
  <2>. HIDE DEF r
  <2>. QED  BY <1>1, <1>3, <1>4, <2>1 DEF Run
<1>. QED  BY <1>2, <1>3, <1>5 DEF SendableRun, Fresh

\* Run::start.
LEMMA StartedRun ==
  ASSUME NEW i \in Replica, NEW v \in Value, NEW draws \in Draws(i, 4)
  PROVE  /\ SendableRun(Started(i, v, draws))
         /\ Started(i, v, draws).step = 4
         /\ Started(i, v, draws).draws = draws
         /\ Started(i, v, draws).proposal.value = v
         /\ Fresh(Started(i, v, draws))
<1>. DEFINE p == [priority |-> PriorityH, proposer |-> i, value |-> v]
<1>1. p \in Proposal /\ p.value = v
  BY PriorityAssumption DEF Proposal
<1>2. Started(i, v, draws) = BegunStep(i, 4, p, draws)
  BY DEF Started
<1>. HIDE DEF p
<1>. QED  BY <1>1, <1>2, BegunStepRun

\* The run after counting a reply.
LEMMA CountedRun ==
  ASSUME NEW r, SendableRun(r), NEW j \in Replica,
         NEW first \in Proposal, NEW prior \in ProposalOrNil
  PROVE  /\ SendableRun(Counted(r, j, first, prior))
         /\ Counted(r, j, first, prior).step = r.step
         /\ Counted(r, j, first, prior).proposal = r.proposal
         /\ Counted(r, j, first, prior).draws = r.draws
         /\ Counted(r, j, first, prior).replied = r.replied \cup {j}
         /\ Counted(r, j, first, prior).bestFirst = Highest(r.bestFirst, first)
         /\ Counted(r, j, first, prior).bestFirst \in Proposal
         /\ Counted(r, j, first, prior).bestAgg = Highest(r.bestAgg, prior)
         /\ Counted(r, j, first, prior).bestAgg \in ProposalOrNil
         /\ Counted(r, j, first, prior).allHigh = (r.allHigh /\ first.priority = PriorityH)
<1>. DEFINE q == Counted(r, j, first, prior)
<1>1. r \in Run /\ r.step \in Nat \ {0} /\ r.proposal \in Proposal
  BY DEF SendableRun
<1>2. r.bestFirst \in ProposalOrNil /\ r.bestAgg \in ProposalOrNil /\ first \in ProposalOrNil
  BY <1>1, ProposalFields DEF Run
<1>3. Highest(r.bestFirst, first) \in Proposal
  BY <1>2, HighestIsMaximum
<1>4. Highest(r.bestAgg, prior) \in ProposalOrNil
  BY <1>2, HighestIsMaximum
<1>5. /\ q.step = r.step /\ q.proposal = r.proposal /\ q.draws = r.draws
      /\ q.replied = r.replied \cup {j}
      /\ q.bestFirst = Highest(r.bestFirst, first)
      /\ q.bestAgg = Highest(r.bestAgg, prior)
      /\ q.allHigh = (r.allHigh /\ first.priority = PriorityH)
  BY <1>1 DEF Counted, Run
<1>6. q \in Run
  BY <1>1, <1>2, <1>3, <1>4 DEF Counted, Run, ProposalOrNil
<1>. QED  BY <1>1, <1>3, <1>4, <1>5, <1>6 DEF SendableRun

-----------------------------------------------------------------------------
(* Slots. *)

\* Recording keeps registers and history typed.
LEMMA RecordAtTypes ==
  ASSUME TypeInv, NEW i \in Replica, NEW step \in Nat, NEW p \in Proposal,
         RecordAt(i, step, p)
  PROVE  /\ isr' \in [Replica -> IsrSlot]
         /\ isr' = [isr EXCEPT ![i] = Recorded(isr[i], step, p)]
         /\ firsts' \in [Replica -> [Steps -> ProposalOrNil]]
         /\ aggs' \in [Replica -> [Steps -> ProposalOrNil]]
         /\ \A j \in Replica : isr'[j].step > 0 => isr'[j].first \in Proposal
<1>. DEFINE after == Recorded(isr[i], step, p)
<1>1. isr[i] \in IsrSlot /\ isr \in [Replica -> IsrSlot]
  BY DEF TypeInv, TypeOK
<1>2. after \in IsrSlot
  BY <1>1, RecordedCases
<1>3. after.step > 0 => after.first \in Proposal
  <2>1. step \in Nat /\ isr[i].step \in Nat
    BY <1>1 DEF IsrSlot
  <2>2. isr[i].step > 0 => isr[i].first \in Proposal
    BY DEF TypeInv, ProposalsPresent
  <2>3. CASE step > isr[i].step
    BY <1>1, <2>1, <2>3, RecordedCases
  <2>4. CASE step = isr[i].step
    BY <1>1, <2>1, <2>2, <2>4, RecordedCases
  <2>5. CASE step < isr[i].step
    BY <1>1, <2>1, <2>2, <2>5, RecordedCases
  <2>. QED  BY <2>1, <2>3, <2>4, <2>5
<1>4. after.first \in ProposalOrNil /\ after.cur \in ProposalOrNil
  BY <1>2 DEF IsrSlot
<1>5. /\ isr' = [isr EXCEPT ![i] = after]
      /\ firsts' = [firsts EXCEPT ![i][after.step] = after.first]
      /\ aggs' = [aggs EXCEPT ![i][after.step] = after.cur]
  BY DEF RecordAt
<1>. HIDE DEF after
<1>6. isr' \in [Replica -> IsrSlot]
  BY <1>1, <1>2, <1>5
<1>7. firsts' \in [Replica -> [Steps -> ProposalOrNil]]
  BY <1>4, <1>5 DEF TypeInv, TypeOK
<1>8. aggs' \in [Replica -> [Steps -> ProposalOrNil]]
  BY <1>4, <1>5 DEF TypeInv, TypeOK
<1>9. ASSUME NEW j \in Replica, isr'[j].step > 0 PROVE isr'[j].first \in Proposal
  <2>1. CASE j = i
    BY <1>1, <1>3, <1>5, <1>9, <2>1
  <2>2. CASE j # i
    BY <1>1, <1>5, <1>9, <2>2 DEF TypeInv, ProposalsPresent
  <2>. QED  BY <2>1, <2>2
<1>. QED  BY <1>5, <1>6, <1>7, <1>8, <1>9 DEF after

\* The registers, and what TypeInv asks of them, do not depend on the rest.
LEMMA TransmitTypes ==
  ASSUME TypeInv, NEW i \in Replica, NEW r, SendableRun(r), Transmit(i, r)
  PROVE  TypeInv'
<1>. DEFINE p == ProposalFor(r, i)
            mine == Recorded(isr[i], r.step, p)
<1>1. r \in Run /\ r.step \in Nat \ {0} /\ r.step \in Nat /\ r.proposal \in Proposal
  BY DEF SendableRun
<1>2. \A j \in Replica : ProposalFor(r, j) \in Proposal
  BY ProposalForRecorder
<1>3. RecordAt(i, r.step, p)
  BY DEF Transmit
<1>4. /\ isr' \in [Replica -> IsrSlot]
      /\ isr'[i] = mine
      /\ firsts' \in [Replica -> [Steps -> ProposalOrNil]]
      /\ aggs' \in [Replica -> [Steps -> ProposalOrNil]]
      /\ \A j \in Replica : isr'[j].step > 0 => isr'[j].first \in Proposal
  BY <1>1, <1>2, <1>3, RecordAtTypes DEF TypeInv, TypeOK
<1>5. SendableRun(LocallyFolded(r, i, mine))
  <2>1. mine \in IsrSlot
    BY <1>4
  <2>2. CASE Counts(r, i, r.step, mine.step)
    <3>1. mine.step > 0
      BY <1>1, <2>2 DEF Counts
    <3>2. mine.first \in Proposal /\ mine.prior \in ProposalOrNil
      BY <1>4, <2>1, <3>1 DEF IsrSlot
    <3>3. LocallyFolded(r, i, mine) = Counted(r, i, mine.first, mine.prior)
      BY <2>2 DEF LocallyFolded
    <3>. QED  BY <3>2, <3>3, CountedRun
  <2>3. CASE ~Counts(r, i, r.step, mine.step)
    BY <2>3 DEF LocallyFolded
  <2>. QED  BY <2>2, <2>3
<1>6. run' = [run EXCEPT ![i] = LocallyFolded(r, i, mine)]
  BY DEF Transmit
<1>. HIDE DEF mine, p
<1>7. run' \in [Replica -> Run]
  BY <1>5, <1>6 DEF TypeInv, TypeOK, SendableRun
<1>8. \A j \in Replica : run'[j].step > 0 => run'[j].proposal \in Proposal
  BY <1>5, <1>6 DEF TypeInv, TypeOK, ProposalsPresent, Running, SendableRun
<1>9. records' \subseteq RecordMsg
  BY <1>1, <1>2 DEF Transmit, TypeInv, TypeOK, RecordMsg
<1>10. UNCHANGED <<decided, replies, decides>>
  BY DEF Transmit
<1>. QED  BY <1>4, <1>7, <1>8, <1>9, <1>10 DEF TypeInv, TypeOK, ProposalsPresent, Running

\* Drive transmits either r or the step that r catches up with.
LEMMA DriveTransmits ==
  ASSUME TypeInv, NEW i \in Replica, NEW r, SendableRun(r), Drive(i, r)
  PROVE  \/ Transmit(i, r) /\ ~IsAhead(r, isr[i].step)
         \/ /\ IsAhead(r, isr[i].step)
            /\ \E draws \in Draws(i, isr[i].step) :
                 LET q == BegunStep(i, isr[i].step, isr[i].first, draws)
                 IN  SendableRun(q) /\ Transmit(i, q)
<1>1. CASE ~IsAhead(r, isr[i].step)
  BY <1>1 DEF Drive
<1>2. CASE IsAhead(r, isr[i].step)
  <2>1. PICK draws \in Draws(i, isr[i].step) :
          Transmit(i, BegunStep(i, isr[i].step, isr[i].first, draws))
    BY <1>2 DEF Drive, CaughtUp
  <2>2. isr[i].step \in Nat \ {0} /\ isr[i].first \in Proposal
    BY <1>2 DEF IsAhead, SendableRun, TypeInv, TypeOK, ProposalsPresent, IsrSlot
  <2>3. SendableRun(BegunStep(i, isr[i].step, isr[i].first, draws))
    BY <2>2, BegunStepRun
  <2>. QED  BY <1>2, <2>1, <2>3
<1>. QED  BY <1>1, <1>2

LEMMA DriveTypes ==
  ASSUME TypeInv, NEW i \in Replica, NEW r, SendableRun(r), Drive(i, r)
  PROVE  TypeInv'
BY DriveTransmits, TransmitTypes

\* Deciding keeps the types.
LEMMA DecidedTypes ==
  ASSUME TypeInv, NEW i \in Replica, NEW v \in Value, Decided(i, v),
         decides' \subseteq DecideMsg
  PROVE  TypeInv'
<1>1. EmptyIsr \in IsrSlot /\ EmptyIsr.step = 0
  BY ProposalFields DEF EmptyIsr, IsrSlot
<1>2. NotRunning \in Run /\ NotRunning.step = 0
  BY ProposalFields DEF NotRunning, Run
<1>3. isr' \in [Replica -> IsrSlot] /\ run' \in [Replica -> Run]
  BY <1>1, <1>2 DEF Decided, TypeInv, TypeOK
<1>4. decided' \in [Replica -> Value \cup {NoValue}]
  BY DEF Decided, TypeInv, TypeOK
<1>5. ProposalsPresent'
  BY <1>1, <1>2 DEF Decided, TypeInv, TypeOK, ProposalsPresent, Running
<1>. QED  BY <1>3, <1>4, <1>5 DEF Decided, TypeInv, TypeOK

\* The first proposal of a reply, once an echo is resolved.
LEMMA ResolvedTypes ==
  ASSUME TypeInv, NEW i \in Replica, Running(i), NEW m \in replies
  PROVE  /\ SendableRun(run[i])
         /\ Resolved(run[i], m) \in Proposal
         /\ m.from \in Replica /\ m.step \in Nat /\ m.prior \in ProposalOrNil
<1>1. m.from \in Replica /\ m.step \in Nat /\ m.first \in ProposalOrNil
      /\ m.prior \in ProposalOrNil
  BY DEF TypeInv, TypeOK, ReplyMsg
<1>2. SendableRun(run[i])
  BY DEF TypeInv, TypeOK, ProposalsPresent, Running, SendableRun, Run
<1>3. m.first # Echo => m.first \in Proposal
  BY <1>1 DEF Echo, ProposalOrNil
<1>. QED  BY <1>1, <1>2, <1>3, ProposalForRecorder DEF Resolved

\* Completing a step keeps the types: a quorum is not empty, so there is a best
\* first proposal.
LEMMA CompleteTypes ==
  ASSUME TypeInv, NEW i \in Replica, NEW r, SendableRun(r), r.bestFirst \in Proposal,
         Complete(i, r)
  PROVE  TypeInv'
<1>1. r \in Run /\ r.step \in Nat \ {0} /\ r.proposal \in Proposal
      /\ r.bestAgg \in ProposalOrNil
  BY DEF SendableRun, Run
<1>2. ASSUME NEW v \in Value, DecideAndTell(i, v) PROVE TypeInv'
  <2>1. decides' \subseteq DecideMsg
    BY <1>2 DEF DecideAndTell, DecideMsg, TypeInv, TypeOK
  <2>. QED  BY <1>2, <2>1, DecidedTypes DEF DecideAndTell
<1>3. CASE DecidesFast(r) /\ DecideAndTell(i, r.bestFirst.value)
  BY <1>2, <1>3, ProposalFields
<1>4. CASE DecidesSlow(r) /\ DecideAndTell(i, r.proposal.value)
  BY <1>1, <1>2, <1>4, ProposalFields
<1>5. CASE /\ Stalls(r)
           /\ run' = [run EXCEPT ![i] = ResetTracking(r)]
           /\ UNCHANGED <<isr, decided, records, replies, decides, firsts, aggs>>
  <2>1. ResetTracking(r) \in Run /\ ResetTracking(r).proposal \in Proposal
    BY <1>1, ProposalFields DEF ResetTracking, Run
  <2>. QED  BY <1>5, <2>1 DEF TypeInv, TypeOK, ProposalsPresent, Running
<1>6. ASSUME ~Stalls(r), NEW draws \in Draws(i, r.step + 1),
             Drive(i, BegunStep(i, r.step + 1, NextProposal(r), draws))
      PROVE  TypeInv'
  <2>1. NextProposal(r) \in Proposal
    <3>1. Phase(r.step) = 3 => r.bestAgg \in Proposal
      BY <1>1, <1>6 DEF Stalls, ProposalOrNil
    <3>. QED  BY <1>1, <3>1 DEF NextProposal
  <2>2. r.step + 1 \in Nat \ {0}
    BY <1>1
  <2>. QED  BY <1>6, <2>1, <2>2, BegunStepRun, DriveTypes
<1>. QED  BY <1>3, <1>4, <1>5, <1>6 DEF Complete

\* Every action keeps TypeInv.
LEMMA TypeInvInductive == TypeInv /\ [Next]_vars => TypeInv'
<1>. SUFFICES ASSUME TypeInv, [Next]_vars PROVE TypeInv'
  OBVIOUS
<1>1. CASE UNCHANGED vars
  BY <1>1 DEF vars, TypeInv, TypeOK, ProposalsPresent, Running
<1>2. ASSUME NEW i \in Up, Activate(i) PROVE TypeInv'
  <2>1. PICK v \in Batches[i], draws \in Draws(i, 4) : Drive(i, Started(i, v, draws))
    BY <1>2 DEF Activate
  <2>2. i \in Replica /\ v \in Value
    BY UpAssumption, BatchesAssumption
  <2>. QED  BY <2>1, <2>2, StartedRun, DriveTypes
<1>3. ASSUME NEW i \in Up, Retransmit(i) PROVE TypeInv'
  <2>1. i \in Replica
    BY UpAssumption
  <2>2. SendableRun(run[i])
    BY <1>3, <2>1 DEF Retransmit, TypeInv, TypeOK, ProposalsPresent, Running, SendableRun, Run
  <2>. QED  BY <1>3, <2>1, <2>2, DriveTypes DEF Retransmit
<1>4. ASSUME NEW i \in Up, OnRecordDecided(i) PROVE TypeInv'
  <2>1. i \in Replica
    BY UpAssumption
  <2>2. decided[i] \in Value
    BY <1>4, <2>1 DEF OnRecordDecided, Open, TypeInv, TypeOK
  <2>3. decides' \subseteq DecideMsg
    BY <1>4, <2>1, <2>2 DEF OnRecordDecided, TypeInv, TypeOK, RecordMsg, DecideMsg
  <2>. QED
    BY <1>4, <2>3 DEF OnRecordDecided, TypeInv, TypeOK, ProposalsPresent, Running
<1>5. ASSUME NEW i \in Up, OnRecordOpen(i) PROVE TypeInv'
  <2>. DEFINE after(m) == Recorded(isr[i], m.step, m.proposal)
              reply(m) == [from |-> i, to |-> m.from, req |-> m.step, step |-> after(m).step,
                           first |-> ReplyFirst(after(m), m.step, m.proposal),
                           prior |-> after(m).prior]
  <2>1. i \in Replica
    BY UpAssumption
  <2>2. PICK m \in records : /\ RecordAt(i, m.step, m.proposal)
                             /\ replies' = replies \cup {reply(m)}
    BY <1>5 DEF OnRecordOpen
  <2>3. m.from \in Replica /\ m.step \in Nat /\ m.proposal \in Proposal
    BY DEF TypeInv, TypeOK, RecordMsg
  <2>4. after(m) \in IsrSlot
    BY <2>1, <2>3, RecordedCases DEF TypeInv, TypeOK
  <2>5. reply(m) \in ReplyMsg
    <3>1. ReplyFirst(after(m), m.step, m.proposal) \in ProposalOrNil
      BY <2>4, ProposalFields DEF ReplyFirst, Echo, IsrSlot
    <3>2. after(m).step \in Nat /\ after(m).prior \in ProposalOrNil
      BY <2>4 DEF IsrSlot
    <3>. HIDE DEF after
    <3>. QED  BY <2>1, <2>3, <3>1, <3>2 DEF ReplyMsg
  <2>. HIDE DEF after, reply
  <2>6. /\ isr' \in [Replica -> IsrSlot]
        /\ firsts' \in [Replica -> [Steps -> ProposalOrNil]]
        /\ aggs' \in [Replica -> [Steps -> ProposalOrNil]]
        /\ \A j \in Replica : isr'[j].step > 0 => isr'[j].first \in Proposal
    BY <2>1, <2>2, <2>3, RecordAtTypes
  <2>. QED
    BY <1>5, <2>2, <2>5, <2>6 DEF OnRecordOpen, TypeInv, TypeOK, ProposalsPresent, Running
<1>6. ASSUME NEW i \in Up, OnRecordReply(i) PROVE TypeInv'
  <2>1. i \in Replica /\ Running(i)
    BY <1>6, UpAssumption DEF OnRecordReply
  <2>2. PICK m \in replies :
          LET first == Resolved(run[i], m)
              counted == Counted(run[i], m.from, first, m.prior)
          IN  \/ /\ IsAhead(run[i], m.step)
                 /\ \E draws \in Draws(i, m.step) :
                      Drive(i, CaughtUp(i, run[i], m.step, first, draws))
              \/ /\ run' = [run EXCEPT ![i] = counted]
                 /\ UNCHANGED <<isr, decided, records, replies, decides, firsts, aggs>>
              \/ Complete(i, counted)
    BY <1>6 DEF OnRecordReply
  <2>. DEFINE first == Resolved(run[i], m)
              counted == Counted(run[i], m.from, first, m.prior)
  <2>3. /\ SendableRun(run[i]) /\ first \in Proposal
        /\ m.from \in Replica /\ m.step \in Nat /\ m.prior \in ProposalOrNil
    BY <2>1, ResolvedTypes
  <2>4. SendableRun(counted) /\ counted.bestFirst \in Proposal
    BY <2>3, CountedRun
  <2>. HIDE DEF first, counted
  <2>5. ASSUME IsAhead(run[i], m.step), NEW draws \in Draws(i, m.step),
               Drive(i, CaughtUp(i, run[i], m.step, first, draws))
        PROVE  TypeInv'
    <3>1. m.step \in Nat \ {0}
      BY <2>3, <2>5 DEF IsAhead, SendableRun
    <3>2. SendableRun(BegunStep(i, m.step, first, draws))
      BY <2>1, <2>3, <3>1, BegunStepRun
    <3>. QED  BY <2>1, <2>5, <3>2, DriveTypes DEF CaughtUp
  <2>6. ASSUME run' = [run EXCEPT ![i] = counted],
               UNCHANGED <<isr, decided, records, replies, decides, firsts, aggs>>
        PROVE  TypeInv'
    BY <2>1, <2>4, <2>6 DEF TypeInv, TypeOK, ProposalsPresent, Running, SendableRun
  <2>7. ASSUME Complete(i, counted) PROVE TypeInv'
    BY <2>1, <2>4, <2>7, CompleteTypes
  <2>. QED  BY <2>2, <2>5, <2>6, <2>7 DEF first, counted
<1>7. ASSUME NEW i \in Up, OnDecide(i) PROVE TypeInv'
  <2>1. i \in Replica
    BY UpAssumption
  <2>2. PICK m \in decides : Decided(i, m.value)
    BY <1>7 DEF OnDecide
  <2>3. m.value \in Value /\ decides' \subseteq DecideMsg
    BY <1>7 DEF OnDecide, TypeInv, TypeOK, DecideMsg
  <2>. QED  BY <2>1, <2>2, <2>3, DecidedTypes
<1>. QED  BY <1>1, <1>2, <1>3, <1>4, <1>5, <1>6, <1>7 DEF Next

LEMMA TypeInvInitially == Init => TypeInv
<1>1. EmptyIsr \in IsrSlot /\ EmptyIsr.step = 0
  BY ProposalFields DEF EmptyIsr, IsrSlot
<1>2. NotRunning \in Run /\ NotRunning.step = 0
  BY ProposalFields DEF NotRunning, Run
<1>3. Nil \in ProposalOrNil
  BY ProposalFields
<1>. QED
  BY <1>1, <1>2, <1>3
  DEF Init, TypeInv, TypeOK, ProposalsPresent, Running

\* Every message, register and run has the type the code gives it, for any
\* number of replicas and any priorities: in particular, the nil priority "is
\* never sent".
THEOREM TypeCorrect == Spec => []TypeOK
<1>1. Spec => []TypeInv
  BY TypeInvInitially, TypeInvInductive, PTL DEF Spec
<1>2. TypeInv => TypeOK
  BY DEF TypeInv
<1>. QED  BY <1>1, <1>2, PTL
=============================================================================
