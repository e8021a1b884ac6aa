--------------------------------- MODULE Isr ---------------------------------
(***************************************************************************)
(* The interval summary register (src/recorder.rs): all a recorder keeps   *)
(* of a slot while the slot is undecided.                                  *)
(***************************************************************************)
EXTENDS Proposals

\* IsrSlot.  A register that has recorded nothing is at step 0.
EmptyIsr == [step |-> 0, first |-> Nil, cur |-> Nil, prior |-> Nil]

IsrSlot == [step : Nat, first : ProposalOrNil,
            cur : ProposalOrNil, prior : ProposalOrNil]

\* Mutant: every new step forgets the one before it.
RecordedForgettingPrior(isr, step, p) ==
  CASE step = isr.step -> [isr EXCEPT !.cur = Highest(@, p)]
    [] step > isr.step -> [step |-> step, first |-> p, cur |-> p, prior |-> Nil]
    [] step < isr.step -> isr

\* The register after record(step, p).  A new step keeps the aggregate of the
\* step just before it and forgets everything older; a stale step changes
\* nothing.
Recorded(isr, step, p) ==
  CASE step = isr.step -> [isr EXCEPT !.cur = Highest(@, p)]
    [] step > isr.step ->
         [step |-> step, first |-> p, cur |-> p,
          prior |-> IF step = isr.step + 1 THEN isr.cur ELSE Nil]
    [] step < isr.step -> isr

\* ReplyFirst::Echo stands for "first is the very proposal you sent"; it is
\* written Nil, which a full reply never carries.
Echo == Nil

\* The `first` field of a RecordReply to record(step, p), from the register
\* as it is afterwards: elided when the reply is for the request's own step.
ReplyFirst(isr, step, p) ==
  IF isr.step = step /\ isr.first = p THEN Echo ELSE isr.first
=============================================================================
