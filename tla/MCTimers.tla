------------------------------ MODULE MCTimers ------------------------------
(***************************************************************************)
(* Small instances of Timers: the leader, or the last of three replicas.   *)
(***************************************************************************)
EXTENDS TimersInvariant

MCPositions == {0, 2}

\* Two commands submitted here, the second beyond the sequencing window of the
\* first, and the second command of another replica, beyond it for good unless
\* a batch of that replica is decided.
MCCommands ==
  [k \in MCPositions |-> {[origin |-> k, seq |-> 1], [origin |-> k, seq |-> 2],
                          [origin |-> 2 - k, seq |-> 2]}]

\* What matters of a timestamp is its age, and of that no more than the delay it
\* is compared with: two states that agree on the ages have the same future.
Age(t, most) == IF now - t < most THEN now - t ELSE most

SlotAge(s) ==
  CASE rep.slots[s].phase = "idle" ->
         <<"idle", Age(rep.slots[s].since, me * Hedge), Age(quiet[s], me * Hedge + 1)>>
    [] s \in In(rep, "running") -> <<"running", Age(rep.slots[s].since, Retransmit)>>
    [] OTHER -> <<rep.slots[s].phase>>

View ==
  <<me, rep.contig, rep.maxOpen, [s \in Slot |-> SlotAge(s)],
    [s \in Slot |-> IF s > rep.contig THEN rep.values[s] ELSE {}],
    [c \in Command |->
       <<rep.pool[c].slot,
         IF c.origin = me /\ me # Leader THEN Age(rep.pool[c].forwarded, ForwardInterval) ELSE 0>>],
    rep.delivered, rep.nextSeq, rep.pendingSince = {},
    {Age(sent, Retransmit) : sent \in rep.learnSent}, rep.heard,
    Age(rep.lastPing, PingInterval)>>
=============================================================================
