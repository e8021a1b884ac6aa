---------------------------- MODULE ProposerRun ----------------------------
(***************************************************************************)
(* An active proposer's state for one slot (src/proposer.rs, struct Run)   *)
(* and the pure functions on it.  A step is 4 * round + phase; round 1     *)
(* phase 0 is step 4.  Timers (sent_at) are left to whoever drives a run:  *)
(* a step may be retransmitted at any time.                                *)
(***************************************************************************)
EXTENDS Proposals

Phase(step) == step % 4

\* Mutants: a draw may be the nil priority, or the reserved one.
DrawsFrom0 == [Replica -> 0..(PriorityH - 1)]
DrawsUpToH == [Replica -> 1..PriorityH]

\* phase0_priorities, one per recorder.  NoDraws is the empty vector.
NoDraws == [r \in Replica |-> 0]
DrawnPriorities == [Replica -> 1..(PriorityH - 1)]

\* The vectors begin_step can leave: fresh draws for a phase 0, except in the
\* leader's first round, which goes out under the reserved priority.
Draws(i, step) ==
  IF Phase(step) = 0 /\ ~(step = 4 /\ i = Leader)
    THEN DrawnPriorities
    ELSE {NoDraws}

Run == [step : Nat, proposal : ProposalOrNil,
        draws : DrawnPriorities \cup {NoDraws}, replied : SUBSET Replica,
        bestFirst : ProposalOrNil, bestAgg : ProposalOrNil, allHigh : BOOLEAN]

\* No run: ProposerState::Idle, or Done once the slot is decided.
NotRunning == [step |-> 0, proposal |-> Nil, draws |-> NoDraws, replied |-> {},
               bestFirst |-> Nil, bestAgg |-> Nil, allHigh |-> TRUE]

\* reset_tracking.  reply_count is the size of `replied`.
ResetTracking(r) == [r EXCEPT !.replied = {}, !.bestFirst = Nil,
                              !.bestAgg = Nil, !.allHigh = TRUE]

\* begin_step (with draw_priorities) at `step` with proposal p: a randomized
\* phase 0 proposes the carried value under the proposer's own identity.
BegunStep(i, step, p, draws) ==
  [step |-> step,
   proposal |-> IF draws = NoDraws
                  THEN p
                  ELSE [p EXCEPT !.proposer = i, !.priority = draws[i]],
   draws |-> draws, replied |-> {},
   bestFirst |-> Nil, bestAgg |-> Nil, allHigh |-> TRUE]

\* Run::start: "the only way a new value ever enters a slot".
Started(i, v, draws) ==
  BegunStep(i, 4, [priority |-> PriorityH, proposer |-> i, value |-> v], draws)

\* proposal_for: what recorder j is sent in the current step.
ProposalFor(r, j) ==
  IF r.draws = NoDraws THEN r.proposal
                       ELSE [r.proposal EXCEPT !.priority = r.draws[j]]

\* fold, first outcome: the recorder is ahead.
IsAhead(r, step) == step > r.step

\* Mutant: the step of the request is not compared.
CountsStaleRequests(r, j, req, step) == step = r.step /\ j \notin r.replied

\* fold: whether a reply of recorder j counts towards the current step ...
Counts(r, j, req, step) == req = r.step /\ step = r.step /\ j \notin r.replied

\* ... and the run once it has been counted.
Counted(r, j, first, prior) ==
  [r EXCEPT !.replied = @ \cup {j},
            !.allHigh = @ /\ first.priority = PriorityH,
            !.bestFirst = Highest(@, first),
            !.bestAgg = Highest(@, prior)]

HasQuorum(r) == Cardinality(r.replied) = QuorumSize

\* Mutants: one reserved priority is enough to decide; phase 0, or phase 3,
\* keeps the proposer's own proposal.
DecidesOnAnyHigh(r) == Phase(r.step) = 0 /\ r.bestFirst.priority = PriorityH
KeepsOwnUntilPhase3(r) == IF Phase(r.step) = 3 THEN r.bestAgg ELSE r.proposal
KeepsOwnProposal(r) == IF Phase(r.step) = 0 THEN r.bestFirst ELSE r.proposal

\* step_complete: the two ways to decide, the defensive stall, and the
\* proposal carried to the next step.
DecidesFast(r) == Phase(r.step) = 0 /\ r.allHigh
DecidesSlow(r) == Phase(r.step) = 2 /\ r.bestAgg = r.proposal
Stalls(r) == Phase(r.step) = 3 /\ r.bestAgg = Nil
NextProposal(r) ==
  CASE Phase(r.step) = 0 -> r.bestFirst
    [] Phase(r.step) = 3 -> r.bestAgg
    [] OTHER -> r.proposal
=============================================================================
