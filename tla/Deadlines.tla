------------------------------ MODULE Deadlines ------------------------------
(***************************************************************************)
(* The clock arithmetic of a replica: the delays a Config accepts          *)
(* (src/config.rs), the tests by which tick finds that something has come  *)
(* due, and the deadlines that next_wakeup advertises for the same timers  *)
(* (src/replica.rs).  Times and delays are u64 nanoseconds whose sums and  *)
(* products saturate at MaxTime, so that a maximal delay means "never".    *)
(***************************************************************************)
EXTENDS Integers

CONSTANTS MaxTime,          \* u64::MAX
          MaxDelay,         \* the ceiling of a delay, 1 << 55
          MinDelay,         \* the floor of a retransmission delay, 1 ms
          HedgeWanted,      \* the delays that the application asks for
          RetransmitWanted,
          PingInterval      \* PING_INTERVAL

ASSUME DelaysAssumption ==
  /\ {MaxTime, MaxDelay, MinDelay, HedgeWanted, RetransmitWanted, PingInterval} \subseteq Nat
  /\ 0 < MinDelay /\ MinDelay <= MaxDelay /\ MaxDelay <= MaxTime
  /\ 0 < PingInterval /\ PingInterval <= MaxTime

Time == 0..MaxTime

SatAdd(a, b) == IF a + b > MaxTime THEN MaxTime ELSE a + b
SatMul(a, b) == IF a * b > MaxTime THEN MaxTime ELSE a * b
SatSub(a, b) == IF a < b THEN 0 ELSE a - b

\* Mutant: the delay is not clamped from below.
RetransmitUnclamped(wanted) == IF wanted > MaxDelay THEN MaxDelay ELSE wanted

\* Config::hedge_delay and Config::retransmit_delay.
HedgeDelay(wanted) == IF wanted > MaxDelay THEN MaxDelay ELSE wanted
RetransmitDelay(wanted) ==
  CASE wanted < MinDelay -> MinDelay
    [] wanted > MaxDelay -> MaxDelay
    [] OTHER -> wanted

Hedge == HedgeDelay(HedgeWanted)
Retransmit == RetransmitDelay(RetransmitWanted)

\* forward_interval.
ForwardInterval ==
  IF SatMul(Hedge, 2) > Retransmit THEN SatMul(Hedge, 2) ELSE Retransmit

\* hedge_activate_due and next_wakeup: replica at position k of the schedule
\* (the leader is at 0) activates in a slot that last made progress at `base`.
HedgeDeadline(k, base) == SatAdd(base, SatMul(k, Hedge))
HedgeDue(t, k, base) == t >= HedgeDeadline(k, base)

\* Every other timer was last served at time `last` and has the given delay.
\* retransmit_due, reforward_due, learn_tick and ping_tick test its age;
\* next_wakeup advertises a deadline.
TimerDue(t, last, delay) == SatSub(t, last) >= delay
TimerDeadline(last, delay) == SatAdd(last, delay)
=============================================================================
