------------------------------- MODULE MCSlot -------------------------------
(***************************************************************************)
(* Small instances of SlotConsensus.  Replica i proposes the value i.      *)
(***************************************************************************)
EXTENDS SlotInvariant

CONSTANTS Proposers,   \* the replicas whose proposer may activate
          MaxReplies   \* bound on the replies in flight (BoundedReplies)

MCBatches == [i \in Replica |-> IF i \in Proposers THEN {i} ELSE {}]

(***************************************************************************)
(* Messages that can still matter.  The rest have been overtaken: whenever *)
(* they are handled nothing changes but, at most, the set of overtaken     *)
(* messages, so TLC need not tell apart two states that differ in them     *)
(* only (VIEW View).  A reply is overtaken when its proposer has counted   *)
(* that recorder or left the step; a record is when its recorder has taken *)
(* it into account or left the step and its proposer has left it too.      *)
(***************************************************************************)
LiveReply(m) ==
  Running(m.to) /\ (IsAhead(run[m.to], m.step) \/ Counts(run[m.to], m.from, m.req, m.step))

LiveRecord(m) ==
  IF Open(m.to)
    THEN \/ m.step > isr[m.to].step
         \/ m.step = isr[m.to].step /\ Less(isr[m.to].cur, m.proposal)
         \/ m.step = run[m.from].step
    ELSE Running(m.from)

LiveDecide(m) == Open(m.to)

\* The part of the history of the recorders that the invariants look at.
CurrentHistory ==
  [i \in Replica |->
     [j \in Replica |->
        IF Running(i) THEN <<firsts[j][run[i].step], aggs[j][run[i].step - 1]>>
                      ELSE <<>>]]

View ==
  <<isr, decided, run, {m \in records : LiveRecord(m)}, {m \in replies : LiveReply(m)},
    {m \in decides : LiveDecide(m)}, CurrentHistory, [j \in Replica |-> firsts[j][4]],
    {<<m.step, m.proposal>> : m \in records}>>

\* At most MaxReplies replies wait to be handled.
BoundedReplies == Cardinality({m \in replies : LiveReply(m)}) <= MaxReplies
=============================================================================
