----------------------------- MODULE LeaderLoad -----------------------------
(***************************************************************************)
(* The leader's pool under a constant load (src/replica.rs): submit,       *)
(* on_forward, maybe_open_slots and take_unassigned_batch at the leader,   *)
(* who submits without end, and a command that a follower has forwarded.   *)
(* Slots are decided in order and before any hedging deadline, so nobody   *)
(* but the leader proposes.                                                *)
(*                                                                         *)
(* CommandPool numbers the commands and so bounds them; here the leader's  *)
(* own are only counted.  Every command costs 1.  Membership is sorted and *)
(* the leader is its first member, so that all its own commands come       *)
(* before the follower's in the order of the ids.                          *)
(***************************************************************************)
EXTENDS Integers, SequencesExt

CONSTANTS Pipeline,  \* config.pipeline; none of the three is 0
          MaxBatch,  \* config.max_batch_bytes, in commands
          MaxPool    \* config.max_pool_bytes, in commands

VARIABLES own,      \* the leader's own commands that wait in its pool
          theirs,   \* where the follower's is: "origin", "waiting", "riding", "delivered"
          inFlight  \* of each open slot in order, how many of the leader's own it has
                    \* and whether it has the follower's

vars == <<own, theirs, inFlight>>

Init == own = 0 /\ theirs = "origin" /\ inFlight = <<>>

\* Pool::bytes: what waits and what rides is in the pool.
PoolBytes(r) ==
  r.own + FoldLeft(LAMBDA n, b : n + b.own, 0, r.inFlight)
  + (IF r.theirs \in {"waiting", "riding"} THEN 1 ELSE 0)

\* take_unassigned_batch: the lowest ids first, while there is room.
BatchOf(r) ==
  LET count == IF r.own < MaxBatch THEN r.own ELSE MaxBatch
  IN  [own |-> count, theirs |-> r.theirs = "waiting" /\ count < MaxBatch]

\* maybe_open_slots, one pass of its loop.
OpenedOne(r) ==
  IF Len(r.inFlight) >= Pipeline \/ BatchOf(r) = [own |-> 0, theirs |-> FALSE]
    THEN r
    ELSE [own |-> r.own - BatchOf(r).own,
          theirs |-> IF BatchOf(r).theirs THEN "riding" ELSE r.theirs,
          inFlight |-> Append(r.inFlight, BatchOf(r))]

\* maybe_open_slots.
Opened(r) == FoldLeft(LAMBDA q, k : OpenedOne(q), r, [k \in 1..Pipeline |-> k])

Current == [own |-> own, theirs |-> theirs, inFlight |-> inFlight]
Become(r) == own' = r.own /\ theirs' = r.theirs /\ inFlight' = r.inFlight

\* submit, at the leader.
Submit ==
  /\ PoolBytes(Current) + 1 <= MaxPool
  /\ Become(Opened([Current EXCEPT !.own = @ + 1]))

\* on_forward, when there is room for the command; otherwise it is dropped, and
\* the follower forwards it again.
OnForward ==
  /\ theirs = "origin" /\ PoolBytes(Current) + 1 <= MaxPool
  /\ Become(Opened([Current EXCEPT !.theirs = "waiting"]))

\* decide_slot and try_deliver, for the oldest open slot.
Decide ==
  /\ inFlight # <<>>
  /\ LET delivered == IF Head(inFlight).theirs THEN "delivered" ELSE theirs
     IN  Become(Opened([Current EXCEPT !.theirs = delivered, !.inFlight = Tail(@)]))

Next == Submit \/ OnForward \/ Decide

\* Open slots are decided, and the follower forwards its command until it is in.
Spec == Init /\ [][Next]_vars /\ WF_vars(Decide) /\ SF_vars(OnForward)

-----------------------------------------------------------------------------
\* "It will be delivered exactly once [...] (as long as this process stays up to
\* keep re-proposing it)" (submit): once the leader has it in its pool, a
\* follower's command is delivered, whatever else is submitted.
ForwardedIsDelivered == theirs = "waiting" ~> theirs = "delivered"
=============================================================================
