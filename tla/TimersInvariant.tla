-------------------------- MODULE TimersInvariant --------------------------
(***************************************************************************)
(* The inductive invariant of Timers, from which its safety properties     *)
(* follow (TimersTheorems).                                                *)
(***************************************************************************)
EXTENDS Timers

\* Whatever the leader could open a slot for, it has opened one for: commands
\* that wait do so because the pipeline is full or because of their window.
NothingToOpen == me = Leader => Openable(rep) = {}

\* The schedule of an undecided idle slot starts with the last change of its
\* register: not later, whatever is retransmitted, and not earlier.
IdleSinceLastChange ==
  \A s \in In(rep, "idle") : rep.slots[s].since = quiet[s]

Inv ==
  /\ TypeOK
  /\ PendingIsReal
  /\ NothingToOpen
  /\ IdleSinceLastChange
  /\ RescueInTime
=============================================================================
