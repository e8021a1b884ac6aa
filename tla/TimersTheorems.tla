--------------------------- MODULE TimersTheorems ---------------------------
(***************************************************************************)
(* Facts about the clock arithmetic of Deadlines, for every delay and all  *)
(* times, up to the edge of u64 where sums saturate; and the properties of *)
(* Timers, for a replica anywhere in the schedule, any commands, and any   *)
(* pipeline, batch size, window and number of slots.                       *)
(***************************************************************************)
EXTENDS TimersInvariant, CountingTheorems

-----------------------------------------------------------------------------
(* The clock. *)

\* What the setters of Config leave of a wanted delay: a retransmission delay
\* is never zero, and no delay exceeds the ceiling.
LEMMA DelaysClamped ==
  /\ Hedge \in Nat /\ Hedge <= MaxDelay
  /\ Retransmit \in Nat /\ 0 < Retransmit /\ Retransmit <= MaxDelay
BY DelaysAssumption DEF Hedge, Retransmit, HedgeDelay, RetransmitDelay

LEMMA ForwardIntervalPositive ==
  ForwardInterval \in Nat /\ Retransmit <= ForwardInterval
<1>1. SatMul(Hedge, 2) \in Nat
  BY DelaysClamped, DelaysAssumption DEF SatMul
<1> QED
  BY <1>1, DelaysClamped DEF ForwardInterval

\* Saturating sums stay within u64 and never come before their first term.
LEMMA SatAddBounds ==
  ASSUME NEW a \in Time, NEW b \in Nat
  PROVE  SatAdd(a, b) \in Time /\ a <= SatAdd(a, b)
BY DelaysAssumption DEF SatAdd, Time

LEMMA SatMulBounds ==
  ASSUME NEW a \in Nat, NEW b \in Nat
  PROVE  SatMul(a, b) \in Time
<1>1. a * b \in Nat
  OBVIOUS
<1> QED
  BY <1>1, DelaysAssumption DEF SatMul, Time

\* tick and next_wakeup agree on every timer but the hedging one, although one
\* tests an age and the other advertises a deadline: the timer is due exactly
\* from its deadline on, also one whose deadline has saturated, as long as the
\* clock itself is short of u64::MAX.
THEOREM DueFromDeadlineOn ==
  ASSUME NEW t \in Time, NEW last \in Time, NEW delay \in Nat \ {0}, t < MaxTime
  PROVE  TimerDue(t, last, delay) <=> t >= TimerDeadline(last, delay)
BY DelaysAssumption DEF TimerDue, TimerDeadline, SatSub, SatAdd, Time

\* A timer that is served restarts with a deadline ahead of the clock, so that a
\* caller that sleeps until each wakeup never spins: retransmissions, forwards,
\* Learn requests and pings, with every delay a Config can have.
THEOREM ServedTimerIsAhead ==
  ASSUME NEW t \in Time, t < MaxTime,
         NEW delay \in {Retransmit, ForwardInterval, PingInterval}
  PROVE  TimerDeadline(t, delay) > t
<1>1. delay \in Nat \ {0}
  BY DelaysClamped, ForwardIntervalPositive, DelaysAssumption
<1> QED
  BY <1>1, DelaysAssumption DEF TimerDeadline, SatAdd, Time

-----------------------------------------------------------------------------
(* Types. *)

LEMMA SlotsAreNumbers ==
  /\ Slot \subseteq Nat /\ MaxSlot \in Nat /\ IsFiniteSet(Slot)
  /\ \A s : s \in Slot <=> s \in Int /\ 1 <= s /\ s <= MaxSlot
  /\ Pipeline \in Nat /\ Pipeline >= 1 /\ MaxBatch \in Nat /\ MaxBatch >= 1
  /\ 0 \in Time /\ Time \subseteq Nat
<1>1. /\ MaxSlot \in Nat /\ Pipeline \in Nat /\ Pipeline >= 1 /\ MaxBatch \in Nat
      /\ MaxBatch >= 1
  BY BoundsAssumption
<1>2. IsFiniteSet(Slot)
  BY <1>1, FS_Interval DEF Slot
<1>3. 0 \in Time /\ Time \subseteq Nat
  BY DelaysAssumption DEF Time
<1>4. Slot \subseteq Nat /\ \A s : s \in Slot <=> s \in Int /\ 1 <= s /\ s <= MaxSlot
  BY <1>1 DEF Slot
<1>. QED  BY <1>1, <1>2, <1>3, <1>4

LEMMA CommandsAreFew ==
  ASSUME me \in Positions
  PROVE  /\ IsFiniteSet(Command)
         /\ \A c \in Command : c.origin \in Nat /\ c.seq \in Nat /\ c \in [origin : Positions, seq : Nat \ {0}]
<1>1. Command \subseteq [origin : Positions, seq : Nat \ {0}]
  BY CommandsAssumption DEF Command
<1>2. Positions \subseteq Nat
  BY BoundsAssumption
<1>. QED  BY <1>1, <1>2, CommandsAssumption DEF Command

LEMMA StateTyped ==
  ASSUME NEW r \in ReplicaState
  PROVE  /\ r.contig \in 0..MaxSlot /\ r.maxOpen \in 0..MaxSlot /\ r.heard \in 0..MaxSlot
         /\ r.slots \in [Slot -> SlotState] /\ r.pool \in [Command -> PoolEntry]
         /\ r.values \in [Slot -> SUBSET Command] /\ r.delivered \in SUBSET Command
         /\ r.nextSeq \in Nat /\ r.lastPing \in Time
         /\ r.pendingSince \in SUBSET Time /\ r.learnSent \in SUBSET Time
         /\ r.contig \in Nat /\ r.maxOpen \in Nat /\ r.heard \in Nat
BY SlotsAreNumbers DEF ReplicaState

LEMMA SlotTyped ==
  ASSUME NEW r \in ReplicaState, NEW s \in Slot
  PROVE  /\ r.slots[s] \in SlotState /\ r.slots[s].since \in Time
         /\ r.slots[s].phase \in {"none", "idle", "running", "decided"}
         /\ r.slots[s] = [phase |-> r.slots[s].phase, since |-> r.slots[s].since]
BY StateTyped DEF SlotState

LEMMA EntryTyped ==
  ASSUME NEW r \in ReplicaState, NEW c \in Command
  PROVE  /\ r.pool[c] \in PoolEntry /\ r.pool[c].slot \in -1..MaxSlot
         /\ r.pool[c].forwarded \in Time
         /\ r.pool[c] = [slot |-> r.pool[c].slot, forwarded |-> r.pool[c].forwarded]
BY StateTyped DEF PoolEntry

\* An Option.
AtMostOne(S) == \A x, y \in S : x = y

LEMMA OptionCardinality ==
  ASSUME NEW S \in SUBSET Time
  PROVE  Cardinality(S) <= 1 <=> AtMostOne(S)
<1>1. IsFiniteSet(S) /\ Cardinality(S) \in Nat
  <2>1. IsFiniteSet(Time)
    BY DelaysAssumption, FS_Interval DEF Time
  <2>. QED  BY <2>1, FS_Subset, FS_CardinalityType
<1>2. CASE S = {}
  BY <1>2, FS_EmptySet DEF AtMostOne
<1>3. CASE S # {}
  <2>1. PICK x \in S : TRUE
    BY <1>3
  <2>2. S = {x} => Cardinality(S) = 1 /\ AtMostOne(S)
    BY FS_Singleton DEF AtMostOne
  <2>3. AtMostOne(S) => S = {x}
    BY <2>1 DEF AtMostOne
  <2>4. Cardinality(S) <= 1 => S = {x}
    <3>1. ASSUME Cardinality(S) <= 1 PROVE S = {x}
      <4>1. {x} \in SUBSET S /\ Cardinality({x}) = 1
        BY <2>1, FS_Singleton
      <4>2. Cardinality(S) # 0
        BY <1>1, <1>3, FS_EmptySet
      <4>. QED  BY <1>1, <3>1, <4>1, <4>2, FS_Subset
    <3>. QED  BY <3>1
  <2>. QED  BY <2>2, <2>3, <2>4
<1>. QED  BY <1>2, <1>3

\* No timestamp of r is later than t.
Stamped(r, t) ==
  /\ r \in ReplicaState
  /\ AtMostOne(r.pendingSince) /\ AtMostOne(r.learnSent)
  /\ \A s \in Slot : r.slots[s].since <= t
  /\ \A u \in r.pendingSince \cup r.learnSent \cup {r.lastPing} : u <= t

\* r and q differ in timestamps and in what has been heard, but the slots and the
\* commands have the same roles.
SameWork(r, q) ==
  /\ q.contig = r.contig /\ q.maxOpen = r.maxOpen /\ q.delivered = r.delivered
  /\ \A s \in Slot : q.slots[s].phase = r.slots[s].phase
  /\ \A c \in Command : q.pool[c].slot = r.pool[c].slot

LEMMA SameWorkSame ==
  ASSUME NEW r, NEW q, SameWork(r, q)
  PROVE  /\ Known(q) = Known(r) /\ \A p : In(q, p) = In(r, p)
         /\ Unassigned(q) = Unassigned(r) /\ Batchable(q) = Batchable(r)
         /\ \A k : Batch(q, k) = Batch(r, k)
         /\ FirstToOpen(q) = FirstToOpen(r) /\ Openable(q) = Openable(r)
         /\ FrontierMissing(q) <=> FrontierMissing(r)
         /\ SlotsBeyond(q) <=> SlotsBeyond(r)
         /\ OwnWaiting(q) = OwnWaiting(r)
<1>1. Known(q) = Known(r) /\ \A p : In(q, p) = In(r, p)
  BY DEF SameWork, Known, In
<1>2. Unassigned(q) = Unassigned(r)
  BY DEF SameWork, Unassigned
<1>3. Batchable(q) = Batchable(r)
  <2>1. \A o : HighWater(q, o) = HighWater(r, o)
    BY DEF SameWork, HighWater
  <2>. QED  BY <1>2, <2>1 DEF Batchable
<1>4. \A k : Batch(q, k) = Batch(r, k)
  BY <1>3 DEF Batch
<1>5. FirstToOpen(q) = FirstToOpen(r)
  BY <1>1 DEF SameWork, FirstToOpen
<1>6. Openable(q) = Openable(r)
  BY <1>1, <1>4, <1>5 DEF SameWork, Openable
<1>7. /\ FrontierMissing(q) <=> FrontierMissing(r)
      /\ SlotsBeyond(q) <=> SlotsBeyond(r)
  BY <1>1 DEF SameWork, FrontierMissing, SlotsBeyond, Frontier
<1>8. OwnWaiting(q) = OwnWaiting(r)
  BY <1>2 DEF OwnWaiting
<1>. QED  BY <1>1, <1>2, <1>3, <1>4, <1>5, <1>6, <1>7, <1>8

\* From r to q, at the time t, the watermark only rises, no known slot is
\* forgotten, and an idle slot has been so since the same time or restarts its
\* schedule now; outside S it restarts only because it is new.
Onward(r, q, S, t) ==
  /\ r.contig <= q.contig
  /\ Known(r) \subseteq Known(q)
  /\ \A s \in Slot \ S : q.slots[s].phase = "idle" =>
       q.slots[s] = r.slots[s] \/ r.slots[s].phase = "none"
  /\ \A s \in Slot : q.slots[s].phase = "idle" =>
       q.slots[s] = r.slots[s] \/ q.slots[s].since = t

LEMMA OnwardOn ==
  ASSUME NEW r \in ReplicaState, NEW q \in ReplicaState, NEW u \in ReplicaState, NEW S, NEW t,
         Onward(r, q, S, t), Onward(q, u, S, t)
  PROVE  Onward(r, u, S, t)
<1>1. r.contig <= u.contig
  BY StateTyped DEF Onward
<1>2. Known(r) \subseteq Known(u)
  BY DEF Onward
<1>3. ASSUME NEW s \in Slot \ S, u.slots[s].phase = "idle"
      PROVE  u.slots[s] = r.slots[s] \/ r.slots[s].phase = "none"
  <2>1. r.slots[s].phase # "none" => q.slots[s].phase # "none"
    BY DEF Onward, Known
  <2>2. u.slots[s] = q.slots[s] \/ q.slots[s].phase = "none"
    BY <1>3 DEF Onward
  <2>. QED  BY <1>3, <2>1, <2>2 DEF Onward
<1>4. \A s \in Slot : u.slots[s].phase = "idle" =>
        u.slots[s] = r.slots[s] \/ u.slots[s].since = t
  BY DEF Onward
<1>. QED  BY <1>1, <1>2, <1>3, <1>4 DEF Onward

-----------------------------------------------------------------------------
(* The pool and the runs. *)

\* The hedging trigger tells whether commands wait.
PendingReal(r) == r.pendingSince # {} <=> Unassigned(r) # {}

\* refresh_pool_pending.
LEMMA RefreshedFits ==
  ASSUME NEW t \in Time, NEW r, Stamped(r, t)
  PROVE  LET q == Refreshed(r, t)
         IN  /\ Stamped(q, t) /\ SameWork(r, q) /\ PendingReal(q) /\ Onward(r, q, {}, t)
             /\ (PendingReal(r) => q = r)
<1> DEFINE q == Refreshed(r, t)
           p == CASE Unassigned(r) = {} -> {}
                  [] Unassigned(r) # {} /\ r.pendingSince = {} -> {t}
                  [] OTHER -> r.pendingSince
<1>1. r \in ReplicaState
  BY DEF Stamped
<1>2. /\ p \in SUBSET Time /\ AtMostOne(p) /\ \A u \in p : u <= t
      /\ p # {} <=> Unassigned(r) # {}
  <2>1. r.pendingSince \in SUBSET Time
    BY <1>1, StateTyped
  <2>2. CASE Unassigned(r) = {}
    BY <2>2 DEF AtMostOne
  <2>3. CASE Unassigned(r) # {} /\ r.pendingSince = {}
    BY <2>3, SlotsAreNumbers DEF AtMostOne
  <2>4. CASE Unassigned(r) # {} /\ r.pendingSince # {}
    BY <2>1, <2>4 DEF Stamped
  <2>. QED  BY <2>2, <2>3, <2>4
<1>3. PendingReal(r) => p = r.pendingSince
  BY DEF PendingReal
<1>4. q = [r EXCEPT !.pendingSince = p]
  BY DEF Refreshed
<1>. HIDE DEF p, q
<1>5. q \in ReplicaState
  BY <1>1, <1>2, <1>4 DEF ReplicaState
<1>6. /\ q.pendingSince = p /\ q.learnSent = r.learnSent /\ q.lastPing = r.lastPing
      /\ q.slots = r.slots /\ q.pool = r.pool /\ q.contig = r.contig
      /\ q.maxOpen = r.maxOpen /\ q.delivered = r.delivered
  BY <1>1, <1>4 DEF ReplicaState
<1>7. SameWork(r, q)
  BY <1>6 DEF SameWork
<1>8. Stamped(q, t)
  BY <1>2, <1>5, <1>6 DEF Stamped
<1>9. PendingReal(q)
  BY <1>2, <1>6, <1>7, SameWorkSame DEF PendingReal
<1>10. Onward(r, q, {}, t)
  BY <1>1, <1>6, StateTyped DEF Onward, Known
<1>11. PendingReal(r) => q = r
  BY <1>1, <1>3, <1>4 DEF ReplicaState
<1>. QED  BY <1>7, <1>8, <1>9, <1>10, <1>11 DEF q

\* The run started in slot s, one of those in S, claims the command c.
Claims(r, S, s, c) == c \in Batch(r, Cardinality({u \in S : u <= s}))

LEMMA ActivatedFits ==
  ASSUME NEW t \in Time, NEW r, Stamped(r, t), NEW S \in SUBSET Slot
  PROVE  LET q == Activated(r, S, t)
         IN  /\ Stamped(q, t) /\ Onward(r, q, {}, t)
             /\ q.contig = r.contig /\ q.maxOpen = r.maxOpen /\ q.delivered = r.delivered
             /\ q.pendingSince = r.pendingSince
             /\ \A s \in Slot : q.slots[s] = IF s \in S THEN [phase |-> "running", since |-> t]
                                                       ELSE r.slots[s]
             /\ Unassigned(q) \subseteq Unassigned(r)
             /\ \A c \in Unassigned(q), s \in S : ~Claims(r, S, s, c)
             /\ (S = {} => q = r)
<1> DEFINE q == Activated(r, S, t)
           slots == [s \in Slot |-> IF s \in S THEN [phase |-> "running", since |-> t]
                                               ELSE r.slots[s]]
           pool == [c \in Command |->
                      IF \E s \in S : Claims(r, S, s, c)
                        THEN [r.pool[c] EXCEPT !.slot = CHOOSE s \in S : Claims(r, S, s, c)]
                        ELSE r.pool[c]]
<1>1. r \in ReplicaState
  BY DEF Stamped
<1>2. q = [r EXCEPT !.slots = slots, !.pool = pool]
  BY DEF Activated, Claims
<1>3. slots \in [Slot -> SlotState]
  BY <1>1, SlotTyped DEF SlotState
<1>4. \A c \in Command : /\ pool[c] \in PoolEntry
                         /\ pool[c].slot = 0 => /\ r.pool[c].slot = 0
                                                /\ \A s \in S : ~Claims(r, S, s, c)
  <2>. TAKE c \in Command
  <2>1. CASE \E s \in S : Claims(r, S, s, c)
    <3> DEFINE s == CHOOSE u \in S : Claims(r, S, u, c)
    <3>1. s \in S
      BY <2>1
    <3>2. pool[c] = [r.pool[c] EXCEPT !.slot = s]
      BY <2>1
    <3>3. s \in Int /\ 1 <= s /\ s <= MaxSlot
      BY <3>1, SlotsAreNumbers
    <3>. HIDE DEF s, pool
    <3>4. pool[c] = [slot |-> s, forwarded |-> r.pool[c].forwarded]
      <4> DEFINE e == r.pool[c]
      <4>1. e = [slot |-> e.slot, forwarded |-> e.forwarded]
        BY <1>1, EntryTyped
      <4>2. pool[c] = [e EXCEPT !.slot = s]
        BY <3>2
      <4>. HIDE DEF e
      <4>3. pool[c] = [slot |-> s, forwarded |-> e.forwarded]
        BY <4>1, <4>2
      <4>. QED  BY <4>3 DEF e
    <3>5. \A f \in Time : /\ [slot |-> s, forwarded |-> f].slot = s
                          /\ [slot |-> s, forwarded |-> f] \in PoolEntry
      BY <3>3, SlotsAreNumbers DEF PoolEntry
    <3>6. r.pool[c].forwarded \in Time
      BY <1>1, EntryTyped
    <3>. QED  BY <3>3, <3>4, <3>5, <3>6
  <2>2. CASE ~ \E s \in S : Claims(r, S, s, c)
    BY <1>1, <2>2, EntryTyped
  <2>. QED  BY <2>1, <2>2
<1>5. pool \in [Command -> PoolEntry]
  <2>1. pool = [c \in Command |-> pool[c]]
    OBVIOUS
  <2>. HIDE DEF pool
  <2>. QED  BY <1>4, <2>1
<1>6. S = {} => slots = r.slots /\ pool = r.pool
  BY <1>1, StateTyped
<1>. HIDE DEF q, pool
<1>7. q \in ReplicaState
  BY <1>1, <1>2, <1>3, <1>5 DEF ReplicaState
<1>8. /\ q.slots = slots /\ q.pool = pool /\ q.contig = r.contig /\ q.maxOpen = r.maxOpen
      /\ q.delivered = r.delivered /\ q.pendingSince = r.pendingSince
      /\ q.learnSent = r.learnSent /\ q.lastPing = r.lastPing
  BY <1>1, <1>2 DEF ReplicaState
<1>9. S = {} => q = r
  BY <1>1, <1>2, <1>6 DEF ReplicaState
<1>10. Unassigned(q) \subseteq Unassigned(r) /\ \A c \in Unassigned(q), s \in S : ~Claims(r, S, s, c)
  BY <1>4, <1>8 DEF Unassigned
<1>11. \A s \in Slot : q.slots[s].since <= t
  <2>. TAKE s \in Slot
  <2>1. t <= t
    BY SlotsAreNumbers
  <2>. QED  BY <1>8, <2>1 DEF Stamped
<1>12. Stamped(q, t)
  BY <1>7, <1>8, <1>11 DEF Stamped
<1>13. Onward(r, q, {}, t)
  BY <1>1, <1>8, StateTyped DEF Onward, Known
<1>. QED  BY <1>8, <1>9, <1>10, <1>12, <1>13 DEF q

-----------------------------------------------------------------------------
(* Batches and the slots they open. *)

\* Commands are ordered by origin and number.
LEMMA CommandsInOrder ==
  ASSUME me \in Positions, NEW B \in SUBSET Command
  PROVE  StrictOrder({p \in B \X B : Before(p[1], p[2])}, B)
<1> DEFINE R == {p \in B \X B : Before(p[1], p[2])}
<1>1. \A c, d \in B : <<c, d>> \in R <=> Before(c, d)
  OBVIOUS
<1>2. \A c \in B : /\ c.origin \in Nat /\ c.seq \in Nat
                   /\ c = [origin |-> c.origin, seq |-> c.seq]
  BY CommandsAreFew
<1>3. \A c \in B : ~Before(c, c)
  BY <1>2 DEF Before
<1>4. \A c, d, e \in B : Before(c, d) /\ Before(d, e) => Before(c, e)
  <2>. TAKE c, d, e \in B
  <2>1. /\ c.origin \in Nat /\ c.seq \in Nat /\ d.origin \in Nat /\ d.seq \in Nat
        /\ e.origin \in Nat /\ e.seq \in Nat
    BY <1>2
  <2>. QED  BY <2>1 DEF Before
<1>5. \A c, d \in B : c = d \/ Before(c, d) \/ Before(d, c)
  <2>. TAKE c, d \in B
  <2>1. /\ c.origin \in Nat /\ c.seq \in Nat /\ d.origin \in Nat /\ d.seq \in Nat
        /\ c = [origin |-> c.origin, seq |-> c.seq] /\ d = [origin |-> d.origin, seq |-> d.seq]
    BY <1>2
  <2>2. CASE c.origin # d.origin
    BY <2>1, <2>2 DEF Before
  <2>3. CASE c.origin = d.origin /\ c.seq # d.seq
    BY <2>1, <2>3 DEF Before
  <2>4. CASE c.origin = d.origin /\ c.seq = d.seq
    BY <2>1, <2>4
  <2>. QED  BY <2>2, <2>3, <2>4
<1>. HIDE DEF R
<1>. QED  BY <1>1, <1>3, <1>4, <1>5 DEF StrictOrder

\* Where the command c stands among those that can be batched.
Rank(r, c) == Cardinality({d \in Batchable(r) : Before(d, c)})

LEMMA RankIsLess ==
  ASSUME me \in Positions, NEW r, NEW c \in Batchable(r)
  PROVE  /\ IsFiniteSet(Batchable(r)) /\ Cardinality(Batchable(r)) \in Nat
         /\ Rank(r, c) \in Nat /\ Rank(r, c) < Cardinality(Batchable(r))
<1> DEFINE B == Batchable(r)
           L == {d \in B : Before(d, c)}
<1>1. B \subseteq Command
  BY DEF Batchable, Unassigned
<1>2. IsFiniteSet(B) /\ Cardinality(B) \in Nat
  BY <1>1, CommandsAreFew, FS_Subset, FS_CardinalityType
<1>3. ~Before(c, c)
  BY <1>1, CommandsAreFew DEF Before
<1>4. L \in SUBSET B /\ L # B
  BY <1>3
<1>. HIDE DEF B, L
<1>5. IsFiniteSet(L) /\ Cardinality(L) \in Nat /\ Cardinality(L) < Cardinality(B)
  <2>1. IsFiniteSet(L) /\ Cardinality(L) <= Cardinality(B) /\ Cardinality(L) # Cardinality(B)
    BY <1>2, <1>4, FS_Subset
  <2>. QED  BY <1>2, <2>1, FS_CardinalityType
<1>. QED  BY <1>2, <1>5 DEF Rank, B, L

LEMMA RankTaken ==
  ASSUME me \in Positions, NEW r, NEW n \in Nat, NEW c \in Batchable(r), n <= Rank(r, c)
  PROVE  \E d \in Batchable(r) : Rank(r, d) = n
<1> DEFINE B == Batchable(r)
           R == {p \in B \X B : Before(p[1], p[2])}
<1>1. B \in SUBSET Command
  BY DEF Batchable, Unassigned
<1>2. StrictOrder(R, B)
  <2>. HIDE DEF B
  <2>. QED  BY <1>1, CommandsInOrder
<1>3. IsFiniteSet(B) /\ n < Cardinality(B)
  BY RankIsLess
<1>4. \A c1, d1 \in B : <<c1, d1>> \in R <=> Before(c1, d1)
  OBVIOUS
<1>5. HasRank(R, B, n)
  <2>. HIDE DEF R, B
  <2>. QED  BY <1>2, <1>3, OrderedRankExists
<1>6. \A d \in B : {k \in B : <<k, d>> \in R} = {k \in B : Before(k, d)}
  BY <1>4
<1>. QED  BY <1>5, <1>6 DEF HasRank, Rank

LEMMA DivIsThe ==
  ASSUME NEW m \in Nat, m >= 1, NEW n \in Nat
  PROVE  /\ n \div m \in Nat /\ m * (n \div m) <= n
         /\ \A q \in Nat : (m * q) \div m = q
<1>1. n \div m \in Nat /\ m * (n \div m) <= n
  OBVIOUS
<1>2. ASSUME NEW q \in Nat PROVE (m * q) \div m = q
  OBVIOUS
<1>. QED  BY <1>1, <1>2

LEMMA InBatch ==
  ASSUME me \in Positions, NEW r, NEW c, NEW k \in Nat
  PROVE  c \in Batch(r, k) <=> c \in Batchable(r) /\ Rank(r, c) \div MaxBatch = k - 1
BY DEF Batch, Rank

\* No batch is empty before one that is not.
LEMMA BatchesInOrder ==
  ASSUME me \in Positions, NEW r, NEW k \in Nat, NEW j \in Nat, 1 <= j, j <= k, Batch(r, k) # {}
  PROVE  Batch(r, j) # {}
<1>1. PICK c \in Batchable(r) : Rank(r, c) \div MaxBatch = k - 1
  <2>1. PICK c : c \in Batch(r, k)
    OBVIOUS
  <2>. QED  BY <2>1, InBatch
<1> DEFINE n == MaxBatch * (j - 1)
<1>2. n \in Nat /\ n <= MaxBatch * (k - 1) /\ n \div MaxBatch = j - 1
  <2>1. j - 1 \in Nat /\ k - 1 \in Nat /\ j - 1 <= k - 1
    OBVIOUS
  <2>2. n \in Nat /\ n <= MaxBatch * (k - 1)
    BY <2>1, SlotsAreNumbers
  <2>. QED  BY <2>1, <2>2, SlotsAreNumbers, DivIsThe
<1>. HIDE DEF n
<1>3. Rank(r, c) \in Nat
  BY RankIsLess
<1>4. MaxBatch * (k - 1) <= Rank(r, c)
  BY <1>1, <1>3, SlotsAreNumbers, DivIsThe
<1>5. n <= Rank(r, c)
  <2>1. MaxBatch * (k - 1) \in Nat
    <3>1. k - 1 \in Nat
      OBVIOUS
    <3>. QED  BY <3>1, SlotsAreNumbers
  <2>. QED  BY <1>2, <1>3, <1>4, <2>1
<1>6. PICK d \in Batchable(r) : Rank(r, d) = n
  BY <1>2, <1>5, RankTaken
<1>7. d \in Batch(r, j)
  BY <1>2, <1>6, InBatch
<1>. QED  BY <1>7

\* Once a batch is empty, those before it have everything.
LEMMA BatchedBefore ==
  ASSUME me \in Positions, NEW r, NEW n \in Nat, Batch(r, n + 1) = {}, NEW c \in Batchable(r)
  PROVE  \E k \in 1..n : c \in Batch(r, k)
<1> DEFINE k == (Rank(r, c) \div MaxBatch) + 1
<1>1. k \in Nat /\ 1 <= k /\ Rank(r, c) \div MaxBatch = k - 1
  <2>1. Rank(r, c) \in Nat
    BY RankIsLess
  <2>2. Rank(r, c) \div MaxBatch \in Nat
    BY <2>1, SlotsAreNumbers, DivIsThe
  <2>. HIDE DEF Rank
  <2>. QED  BY <2>2
<1>. HIDE DEF k
<1>2. c \in Batch(r, k)
  BY <1>1, InBatch
<1>3. ~(n + 1 <= k)
  BY <1>1, <1>2, BatchesInOrder
<1>. QED  BY <1>1, <1>2, <1>3

\* The slots that maybe_open_slots counts from: those known, max_open and the
\* watermark.
CountedFrom(r) == Known(r) \cup {r.maxOpen, r.contig}

LEMMA FirstIsAfterCounted ==
  ASSUME NEW r \in ReplicaState
  PROVE  LET f == FirstToOpen(r)
         IN  /\ f \in 1..(MaxSlot + 1) /\ f \in Nat /\ f - 1 \in CountedFrom(r)
             /\ \A s \in CountedFrom(r) : s \in Nat /\ s < f
<1> DEFINE K == CountedFrom(r)
           P(f) == f - 1 \in K /\ \A s \in K : s < f
<1>1. K \subseteq 0..MaxSlot /\ K # {}
  BY StateTyped, SlotsAreNumbers DEF CountedFrom, Known
<1>2. \E f \in 1..(MaxSlot + 1) : P(f)
  <2>. HIDE DEF K
  <2>1. PICK m \in K : \A s \in K : s <= m
    BY <1>1, SlotsAreNumbers, GreatestNumber
  <2>2. m + 1 \in 1..(MaxSlot + 1) /\ (m + 1) - 1 = m
    BY <1>1, SlotsAreNumbers
  <2>3. \A s \in K : s < m + 1
    BY <1>1, <2>1, SlotsAreNumbers
  <2>. QED  BY <2>1, <2>2, <2>3
<1>3. FirstToOpen(r) = CHOOSE f \in 1..(MaxSlot + 1) : P(f)
  BY DEF FirstToOpen, CountedFrom
<1>. HIDE DEF P
<1>4. FirstToOpen(r) \in 1..(MaxSlot + 1) /\ P(FirstToOpen(r))
  BY <1>2, <1>3
<1>5. FirstToOpen(r) \in Nat
  BY <1>4, SlotsAreNumbers
<1>. QED  BY <1>1, <1>4, <1>5, SlotsAreNumbers DEF P

LEMMA FirstIsOnly ==
  ASSUME NEW r \in ReplicaState, NEW g \in Nat, g - 1 \in CountedFrom(r),
         \A s \in CountedFrom(r) : s < g
  PROVE  FirstToOpen(r) = g
<1> DEFINE f == FirstToOpen(r)
<1>1. f \in Nat /\ f - 1 \in CountedFrom(r) /\ \A s \in CountedFrom(r) : s \in Nat /\ s < f
  BY FirstIsAfterCounted
<1>. HIDE DEF f
<1>2. f - 1 < g /\ g - 1 < f
  BY <1>1
<1>. QED  BY <1>1, <1>2 DEF f

\* A slot can be opened as the k-th.
CanOpen(r, k) ==
  /\ FirstToOpen(r) + k - 1 <= r.contig + Pipeline
  /\ Cardinality(In(r, "running")) + k <= Pipeline
  /\ Batch(r, k) # {}

LEMMA OpenableIs ==
  ASSUME NEW r \in ReplicaState, NEW s \in Slot
  PROVE  LET k == s - FirstToOpen(r) + 1
         IN  /\ s \in Openable(r) <=> k >= 1 /\ CanOpen(r, k)
             /\ k \in Int /\ FirstToOpen(r) + k - 1 = s
<1> DEFINE f == FirstToOpen(r)
           k == s - f + 1
<1>1. f \in Nat
  BY FirstIsAfterCounted
<1>. HIDE DEF f
<1>2. k \in Int /\ f + k - 1 = s
  BY <1>1, SlotsAreNumbers
<1>3. s \in Openable(r) <=> /\ k >= 1 /\ s <= r.contig + Pipeline
                            /\ Cardinality(In(r, "running")) + k <= Pipeline
                            /\ Batch(r, k) # {}
  BY DEF Openable, f
<1>. QED  BY <1>2, <1>3 DEF CanOpen, f

LEMMA RunningAreFew ==
  ASSUME NEW r
  PROVE  /\ IsFiniteSet(In(r, "running")) /\ Cardinality(In(r, "running")) \in Nat
         /\ In(r, "running") \subseteq Slot /\ In(r, "running") \subseteq Known(r)
<1>1. In(r, "running") \subseteq Slot
  BY DEF In
<1>. QED  BY <1>1, SlotsAreNumbers, FS_Subset, FS_CardinalityType DEF In, Known

\* The slots to open are those from the first on, as many as there are.
LEMMA OpenableIsRange ==
  ASSUME me \in Positions, NEW r \in ReplicaState, Openable(r) # {}
  PROVE  \E g \in Slot :
           LET f == FirstToOpen(r)
           IN  /\ f <= g /\ Openable(r) = f..g /\ Cardinality(Openable(r)) = g - f + 1
               /\ g + 1 \notin Openable(r) /\ f \in Slot
<1> DEFINE S == Openable(r)
           f == FirstToOpen(r)
<1>1. S \subseteq Slot /\ S \subseteq 0..MaxSlot
  BY SlotsAreNumbers DEF Openable
<1>2. PICK g \in S : \A s \in S : s <= g
  <2>. HIDE DEF S
  <2>. QED  BY <1>1, SlotsAreNumbers, GreatestNumber DEF S
<1>3. f \in Nat /\ 1 <= f
  BY FirstIsAfterCounted
<1>4. g \in Slot /\ g \in Nat
  BY <1>1, SlotsAreNumbers
<1>5. g - f + 1 >= 1 /\ CanOpen(r, g - f + 1)
  BY <1>1, <1>2, OpenableIs
<1>6. f <= g
  <2>. HIDE DEF f, S
  <2>. QED  BY <1>3, <1>4, <1>5 DEF f
<1>7. ASSUME NEW s \in f..g PROVE s \in S
  <2> DEFINE k == s - f + 1
             m == g - f + 1
  <2>1. s \in Slot /\ k \in Nat /\ m \in Nat /\ 1 <= k /\ k <= m
    <3>. HIDE DEF f, S
    <3>. QED  BY <1>3, <1>4, SlotsAreNumbers
  <2>2. Batch(r, k) # {}
    <3>1. Batch(r, m) # {}
      BY <1>5 DEF CanOpen
    <3>. HIDE DEF k, m
    <3>. QED  BY <2>1, <3>1, BatchesInOrder
  <2>3. f + k - 1 <= r.contig + Pipeline /\ Cardinality(In(r, "running")) + k <= Pipeline
    <3>1. f + m - 1 <= r.contig + Pipeline /\ Cardinality(In(r, "running")) + m <= Pipeline
      BY <1>5 DEF CanOpen
    <3>2. r.contig + Pipeline \in Nat /\ Cardinality(In(r, "running")) \in Nat /\ Pipeline \in Nat
      BY StateTyped, SlotsAreNumbers, RunningAreFew
    <3> DEFINE c == Cardinality(In(r, "running"))
               l == r.contig + Pipeline
    <3>. HIDE DEF f, k, m, c, l
    <3>. QED  BY <1>3, <2>1, <3>1, <3>2 DEF c, l
  <2>4. CanOpen(r, k)
    BY <2>2, <2>3 DEF CanOpen
  <2>5. k >= 1
    BY <2>1
  <2>. QED  BY <2>1, <2>4, <2>5, OpenableIs
<1>8. S = f..g
  <2>1. ASSUME NEW s \in S PROVE s \in f..g
    <3>1. s \in Slot /\ s - f + 1 >= 1
      BY <1>1, OpenableIs
    <3>2. s <= g
      BY <1>2
    <3>. HIDE DEF f, S
    <3>. QED  BY <1>3, <1>4, <3>1, <3>2, SlotsAreNumbers
  <2>. HIDE DEF f, S
  <2>. QED  BY <1>7, <2>1
<1>9. Cardinality(f..g) = g - f + 1
  <2>. HIDE DEF f, S
  <2>. QED  BY <1>3, <1>4, <1>6, FS_Interval
<1>10. g + 1 \notin S /\ f \in S
  <2>. HIDE DEF f, S
  <2>. QED  BY <1>3, <1>4, <1>6, <1>8
<1>11. f \in Slot
  BY <1>1, <1>10
<1>. QED  BY <1>4, <1>6, <1>8, <1>9, <1>10, <1>11

\* After maybe_open_slots nothing is left to open: the pipeline is full, or
\* reaches no further, or every command that could be batched is claimed.
LEMMA NothingLeftToOpen ==
  ASSUME me \in Positions, NEW r \in ReplicaState, NEW q \in ReplicaState, Openable(r) # {},
         q.contig = r.contig, q.delivered = r.delivered,
         q.maxOpen = FirstToOpen(r) + Cardinality(Openable(r)) - 1,
         \A s \in Slot : q.slots[s].phase = IF s \in Openable(r) THEN "running"
                                                               ELSE r.slots[s].phase,
         Unassigned(q) \subseteq Unassigned(r),
         \A c \in Unassigned(q), s \in Openable(r) : ~Claims(r, Openable(r), s, c)
  PROVE  Openable(q) = {}
<1> DEFINE S == Openable(r)
           f == FirstToOpen(r)
<1>1. PICK g \in Slot : /\ f <= g /\ S = f..g /\ Cardinality(S) = g - f + 1
                        /\ g + 1 \notin S /\ f \in Slot
  BY OpenableIsRange
<1>2. /\ f \in Nat /\ f - 1 \in CountedFrom(r) /\ \A s \in CountedFrom(r) : s \in Nat /\ s < f
      /\ g \in Nat /\ g - f + 1 \in Nat
  <2>1. /\ f \in Nat /\ f - 1 \in CountedFrom(r) /\ \A s \in CountedFrom(r) : s \in Nat /\ s < f
    BY FirstIsAfterCounted
  <2>2. g \in Nat
    BY SlotsAreNumbers
  <2>. HIDE DEF f
  <2>. QED  BY <1>1, <2>1, <2>2
<1> DEFINE n == g - f + 1
<1>3. n \in Nat /\ n >= 1 /\ f + n - 1 = g
  <2>. HIDE DEF f
  <2>. QED  BY <1>1, <1>2
<1>4. q.maxOpen = g
  <2>. HIDE DEF f, S
  <2>. QED  BY <1>1, <1>3 DEF f, S
<1>5. Known(q) = Known(r) \cup S
  <2>1. S \subseteq Slot
    BY DEF Openable
  <2>. QED  BY <2>1 DEF Known
<1>6. FirstToOpen(q) = g + 1
  <2>1. g \in CountedFrom(q)
    BY <1>4 DEF CountedFrom
  <2>2. ASSUME NEW s \in CountedFrom(q) PROVE s < g + 1
    <3>1. s \in CountedFrom(r) \/ s \in f..g \/ s = g
      BY <1>1, <1>4, <1>5 DEF CountedFrom
    <3>. HIDE DEF f
    <3>. QED  BY <1>1, <1>2, <3>1
  <2>3. g + 1 \in Nat /\ (g + 1) - 1 = g
    BY <1>2
  <2>. QED  BY <2>1, <2>2, <2>3, FirstIsOnly
<1>7. Cardinality(In(q, "running")) = Cardinality(In(r, "running")) + n
  <2>1. In(q, "running") = In(r, "running") \cup S
    <3>1. \A s \in S : s > r.contig
      <4>1. r.contig < f
        BY <1>2 DEF CountedFrom
      <4>2. r.contig \in Nat
        BY StateTyped
      <4>. HIDE DEF f
      <4>. QED  BY <1>1, <1>2, <4>1, <4>2
    <3>2. S \subseteq Slot
      BY DEF Openable
    <3>. QED  BY <3>1, <3>2 DEF In
  <2>2. In(r, "running") \cap S = {}
    <3>1. \A s \in In(r, "running") : s \in Nat /\ s < f
      BY <1>2, RunningAreFew DEF CountedFrom
    <3>. HIDE DEF f
    <3>. QED  BY <1>1, <1>2, <3>1
  <2>3. IsFiniteSet(S)
    <3>1. S \subseteq Slot
      BY DEF Openable
    <3>. QED  BY <3>1, SlotsAreNumbers, FS_Subset
  <2>4. IsFiniteSet(In(r, "running"))
    BY RunningAreFew
  <2> DEFINE A == In(r, "running")
             C == In(q, "running")
  <2>. HIDE DEF S, A, C
  <2>5. A \cap S = {} /\ C = A \cup S /\ IsFiniteSet(A)
    BY <2>1, <2>2, <2>4 DEF A, C
  <2>6. Cardinality(A \cap S) = 0
    BY <2>5, FS_EmptySet
  <2>7. Cardinality(C) = Cardinality(A) + Cardinality(S) - Cardinality(A \cap S)
    BY <2>3, <2>5, FS_Union
  <2>8. Cardinality(A) \in Nat /\ Cardinality(S) = n
    BY <1>1, <2>5, FS_CardinalityType
  <2>. HIDE DEF n
  <2>. QED  BY <1>3, <2>6, <2>7, <2>8 DEF A, C
<1>8. Batch(r, n + 1) = {} => Batchable(q) = {}
  <2>1. ASSUME Batch(r, n + 1) = {}, NEW c \in Batchable(q) PROVE FALSE
    <3>1. c \in Unassigned(q) /\ c \in Batchable(r)
      <4>1. c \in Unassigned(q) /\ c \in Unassigned(r) /\ c.seq <= HighWater(q, c.origin) + Window
        BY <2>1 DEF Batchable
      <4>2. HighWater(q, c.origin) = HighWater(r, c.origin)
        BY DEF HighWater
      <4>. QED  BY <4>1, <4>2 DEF Batchable
    <3>2. PICK k \in 1..n : c \in Batch(r, k)
      <4>. HIDE DEF n
      <4>. QED  BY <1>3, <2>1, <3>1, BatchedBefore
    <3> DEFINE s == f + k - 1
    <3>3. s \in S /\ s \in f..g /\ s \in Nat /\ s - f + 1 = k
      <4>1. s \in f..g /\ s \in Nat /\ s - f + 1 = k
        <5>. HIDE DEF f
        <5>. QED  BY <1>2, <1>3
      <4>. QED  BY <1>1, <4>1
    <3>4. Cardinality({u \in S : u <= s}) = k
      <4>. HIDE DEF f, s
      <4>1. {u \in f..g : u <= s} = f..s
        BY <1>2, <3>3
      <4>2. Cardinality(f..s) = k
        <5>1. f \in Int /\ s \in Int /\ f <= s
          BY <1>2, <3>3
        <5>2. Cardinality(f..s) = s - f + 1
          BY <5>1, FS_Interval
        <5>. QED  BY <3>3, <5>2
      <4>. QED  BY <1>1, <4>1, <4>2
    <3>5. Claims(r, S, s, c)
      <4>. HIDE DEF s, S
      <4>. QED  BY <3>2, <3>4 DEF Claims
    <3>. QED  BY <3>1, <3>3, <3>5
  <2>. QED  BY <2>1
<1>9. ASSUME NEW s \in Openable(q) PROVE FALSE
  <2>1. s \in Slot /\ s \in Nat
    BY SlotsAreNumbers DEF Openable
  <2> DEFINE k == s - (g + 1) + 1
  <2>2. k \in Nat /\ k >= 1 /\ CanOpen(q, k) /\ (g + 1) + k - 1 = s
    <3>1. k \in Int /\ k >= 1 /\ CanOpen(q, k) /\ (g + 1) + k - 1 = s
      BY <1>6, <1>9, <2>1, OpenableIs
    <3>. QED  BY <3>1
  <2>. HIDE DEF k
  <2>3. CanOpen(r, n + 1)
    <3>1. f + (n + 1) - 1 <= r.contig + Pipeline
      <4>1. (g + 1) + k - 1 <= r.contig + Pipeline
        BY <1>6, <2>2 DEF CanOpen
      <4>2. r.contig + Pipeline \in Nat
        BY StateTyped, SlotsAreNumbers
      <4>. HIDE DEF f, n
      <4>. QED  BY <1>2, <1>3, <2>2, <4>1, <4>2
    <3>2. Cardinality(In(r, "running")) + (n + 1) <= Pipeline
      <4>1. (Cardinality(In(r, "running")) + n) + k <= Pipeline
        BY <1>7, <2>2 DEF CanOpen
      <4>2. Cardinality(In(r, "running")) \in Nat /\ Pipeline \in Nat
        BY SlotsAreNumbers, RunningAreFew
      <4>. HIDE DEF n
      <4>. QED  BY <1>3, <2>2, <4>1, <4>2
    <3>3. Batch(r, n + 1) # {}
      <4>1. Batch(q, k) # {}
        BY <2>2 DEF CanOpen
      <4>2. Batchable(q) # {}
        BY <4>1 DEF Batch
      <4>. QED  BY <1>8, <4>2
    <3>. QED  BY <3>1, <3>2, <3>3 DEF CanOpen
  <2>4. g + 1 \in Slot /\ (g + 1) - f + 1 = n + 1 /\ n + 1 >= 1
    <3>1. g + 1 <= s
      BY <1>2, <2>1, <2>2
    <3>2. g + 1 \in Slot
      BY <1>2, <2>1, <3>1, SlotsAreNumbers
    <3>. HIDE DEF f
    <3>. QED  BY <1>2, <3>2
  <2>5. g + 1 \in S
    <3>. HIDE DEF n
    <3>. QED  BY <2>3, <2>4, OpenableIs
  <2>. QED  BY <1>1, <2>5
<1>. QED  BY <1>9

\* maybe_open_slots.
LEMMA OpenedFits ==
  ASSUME me \in Positions, NEW t \in Time, NEW r, Stamped(r, t)
  PROVE  LET q == Opened(r, t)
         IN  /\ Stamped(q, t) /\ Onward(r, q, {}, t) /\ q.contig = r.contig
             /\ \A s \in Slot : q.slots[s].phase = "idle" => q.slots[s] = r.slots[s]
             /\ me = Leader => PendingReal(q) /\ Openable(q) = {}
             /\ me # Leader => q = r
             /\ Openable(r) = {} => SameWork(r, q) /\ (PendingReal(r) => q = r)
<1> DEFINE q == Opened(r, t)
<1>1. r \in ReplicaState
  BY DEF Stamped
<1>2. CASE me # Leader
  <2>1. q = r
    BY <1>2 DEF Opened
  <2>2. Onward(r, r, {}, t) /\ SameWork(r, r)
    BY <1>1, StateTyped DEF Onward, SameWork
  <2>. HIDE DEF q
  <2>. QED  BY <1>2, <2>1, <2>2 DEF q
<1>3. CASE me = Leader /\ Openable(r) = {}
  <2> DEFINE p == Refreshed(r, t)
  <2>1. q = p
    BY <1>3 DEF Opened
  <2>2. Stamped(p, t) /\ SameWork(r, p) /\ PendingReal(p) /\ Onward(r, p, {}, t) /\ (PendingReal(r) => p = r)
    BY RefreshedFits
  <2>3. p.contig = r.contig /\ p.slots = r.slots
    <3>1. p.slots = r.slots
      BY <1>1 DEF Refreshed, ReplicaState
    <3>. QED  BY <2>2, <3>1 DEF SameWork
  <2>. HIDE DEF q, p
  <2>4. Openable(p) = {}
    BY <1>3, <2>2, SameWorkSame
  <2>. QED  BY <1>3, <2>1, <2>2, <2>3, <2>4 DEF q
<1>4. CASE me = Leader /\ Openable(r) # {}
  <2> DEFINE S == Openable(r)
             a == Activated(r, S, t)
             m == FirstToOpen(r) + Cardinality(S) - 1
             b == [a EXCEPT !.maxOpen = m]
             p == Refreshed(b, t)
  <2>1. q = p
    BY <1>4 DEF Opened
  <2>2. S \in SUBSET Slot
    BY DEF Openable
  <2>3. /\ Stamped(a, t) /\ Onward(r, a, {}, t)
        /\ a.contig = r.contig /\ a.maxOpen = r.maxOpen /\ a.delivered = r.delivered
        /\ a.pendingSince = r.pendingSince
        /\ \A s \in Slot : a.slots[s] = IF s \in S THEN [phase |-> "running", since |-> t]
                                                  ELSE r.slots[s]
        /\ Unassigned(a) \subseteq Unassigned(r)
        /\ \A c \in Unassigned(a), s \in S : ~Claims(r, S, s, c)
    <3>. HIDE DEF S
    <3>. QED  BY <2>2, ActivatedFits
  <2>4. m \in 0..MaxSlot
    <3> DEFINE f == FirstToOpen(r)
    <3>1. PICK g \in Slot : f <= g /\ Cardinality(S) = g - f + 1
      BY <1>1, <1>4, OpenableIsRange
    <3>2. f \in Nat /\ g \in Nat /\ g <= MaxSlot
      BY <1>1, FirstIsAfterCounted, SlotsAreNumbers
    <3>3. m = f + Cardinality(S) - 1
      OBVIOUS
    <3>. HIDE DEF f, S, m
    <3>4. m = g
      BY <3>1, <3>2, <3>3
    <3>. QED  BY <3>2, <3>4
  <2>. HIDE DEF q, a, m, S
  <2>5. a \in ReplicaState
    BY <2>3 DEF Stamped
  <2>6. b \in ReplicaState
    BY <2>4, <2>5 DEF ReplicaState
  <2>7. /\ b.maxOpen = m /\ b.contig = a.contig /\ b.slots = a.slots /\ b.pool = a.pool
        /\ b.delivered = a.delivered /\ b.pendingSince = a.pendingSince
        /\ b.learnSent = a.learnSent /\ b.lastPing = a.lastPing
    BY <2>5 DEF ReplicaState
  <2>. HIDE DEF b
  <2>8. Stamped(b, t)
    BY <2>3, <2>6, <2>7 DEF Stamped
  <2>9. Unassigned(b) = Unassigned(a)
    BY <2>7 DEF Unassigned
  <2>10. Openable(b) = {}
    <3>1. \A s \in Slot : b.slots[s].phase = IF s \in S THEN "running" ELSE r.slots[s].phase
      BY <2>3, <2>7
    <3>2. b.contig = r.contig /\ b.delivered = r.delivered
      BY <2>3, <2>7
    <3>3. /\ Unassigned(b) \subseteq Unassigned(r)
          /\ \A c \in Unassigned(b), s \in S : ~Claims(r, S, s, c)
      BY <2>3, <2>9
    <3>4. b.maxOpen = FirstToOpen(r) + Cardinality(S) - 1
      BY <2>7 DEF m
    <3>. QED  BY <1>1, <1>4, <2>6, <3>1, <3>2, <3>3, <3>4, NothingLeftToOpen DEF S
  <2>11. Stamped(p, t) /\ SameWork(b, p) /\ PendingReal(p) /\ Onward(b, p, {}, t)
    BY <2>8, RefreshedFits
  <2>12. p.slots = b.slots
    BY <2>6 DEF Refreshed, ReplicaState
  <2>. HIDE DEF p
  <2>13. p.contig = r.contig /\ Openable(p) = {}
    BY <2>3, <2>7, <2>10, <2>11, SameWorkSame DEF SameWork
  <2>14. \A s \in Slot : p.slots[s].phase = "idle" => p.slots[s] = r.slots[s]
    BY <2>3, <2>7, <2>12
  <2>15. Onward(r, p, {}, t)
    <3>1. r.contig <= p.contig
      BY <1>1, <2>13, StateTyped
    <3>2. Known(r) \subseteq Known(p)
      BY <2>3, <2>7, <2>12 DEF Known
    <3>. QED  BY <2>14, <3>1, <3>2 DEF Onward
  <2>. QED  BY <1>4, <2>1, <2>11, <2>13, <2>14, <2>15 DEF q, S
<1>. QED  BY <1>2, <1>3, <1>4

\* What holds of a replica between two inputs, at the time t.
Good(r, t) ==
  /\ Stamped(r, t) /\ PendingReal(r)
  /\ me = Leader => Openable(r) = {}

LEMMA SameWorkGood ==
  ASSUME NEW t \in Time, NEW r, Good(r, t), NEW q, Stamped(q, t), SameWork(r, q),
         q.pendingSince = r.pendingSince
  PROVE  Good(q, t)
BY SameWorkSame DEF Good, PendingReal

\* What refresh_pool_pending and maybe_open_slots leave, one after the other.
LEMMA OpenedRefreshedGood ==
  ASSUME me \in Positions, NEW t \in Time, NEW r, Stamped(r, t)
  PROVE  LET q == Opened(Refreshed(r, t), t) IN Good(q, t) /\ Onward(r, q, {}, t)
<1> DEFINE p == Refreshed(r, t)
           q == Opened(p, t)
<1>1. Stamped(p, t) /\ PendingReal(p) /\ Onward(r, p, {}, t)
  BY RefreshedFits
<1>. HIDE DEF p
<1>2. /\ Stamped(q, t) /\ Onward(p, q, {}, t)
      /\ me = Leader => PendingReal(q) /\ Openable(q) = {}
      /\ me # Leader => q = p
  BY <1>1, OpenedFits
<1>. HIDE DEF q
<1>3. Good(q, t)
  BY <1>1, <1>2 DEF Good
<1>4. Onward(r, q, {}, t)
  BY <1>1, <1>2, OnwardOn DEF Stamped
<1>. QED  BY <1>3, <1>4 DEF p, q

\* The same in the order of submit.
LEMMA RefreshedOpenedGood ==
  ASSUME me \in Positions, NEW t \in Time, NEW r, Stamped(r, t)
  PROVE  LET q == Refreshed(Opened(r, t), t) IN Good(q, t) /\ Onward(r, q, {}, t)
<1> DEFINE p == Opened(r, t)
           q == Refreshed(p, t)
<1>1. Stamped(p, t) /\ Onward(r, p, {}, t) /\ (me = Leader => Openable(p) = {})
  BY OpenedFits
<1>. HIDE DEF p
<1>2. Stamped(q, t) /\ SameWork(p, q) /\ PendingReal(q) /\ Onward(p, q, {}, t)
  BY <1>1, RefreshedFits
<1>. HIDE DEF q
<1>3. Good(q, t)
  BY <1>1, <1>2, SameWorkSame DEF Good
<1>4. Onward(r, q, {}, t)
  BY <1>1, <1>2, OnwardOn DEF Stamped
<1>. QED  BY <1>3, <1>4 DEF p, q

-----------------------------------------------------------------------------
(* Decisions. *)

LEMMA DeliverableIsBounded ==
  ASSUME NEW r \in ReplicaState
  PROVE  /\ Cardinality(Deliverable(r)) \in Nat
         /\ r.contig + Cardinality(Deliverable(r)) \in 0..MaxSlot
<1> DEFINE D == Deliverable(r)
           I == (r.contig + 1)..MaxSlot
<1>1. r.contig \in Nat /\ r.contig <= MaxSlot /\ MaxSlot \in Nat
  BY StateTyped, SlotsAreNumbers
<1>2. D \subseteq I
  BY <1>1, SlotsAreNumbers DEF Deliverable
<1>3. IsFiniteSet(I) /\ Cardinality(I) = MaxSlot - r.contig
  <2>1. r.contig + 1 \in Int /\ MaxSlot \in Int /\ (r.contig + 1 > MaxSlot => MaxSlot - r.contig = 0)
        /\ MaxSlot - (r.contig + 1) + 1 = MaxSlot - r.contig
    BY <1>1
  <2>. QED  BY <2>1, FS_Interval
<1>. HIDE DEF D, I
<1>4. Cardinality(D) \in Nat /\ Cardinality(D) <= MaxSlot - r.contig
  <2>1. IsFiniteSet(D) /\ Cardinality(D) <= Cardinality(I)
    BY <1>2, <1>3, FS_Subset
  <2>. QED  BY <1>3, <2>1, FS_CardinalityType
<1>5. r.contig + Cardinality(D) \in 0..MaxSlot
  BY <1>1, <1>4
<1>. QED  BY <1>4, <1>5 DEF D

\* try_deliver.
LEMMA DeliverAllFits ==
  ASSUME NEW t \in Time, NEW r, Stamped(r, t)
  PROVE  LET q == DeliverAll(r) IN Stamped(q, t) /\ Onward(r, q, {}, t)
<1> DEFINE q == DeliverAll(r)
           c == r.contig + Cardinality(Deliverable(r))
           new == UNION {r.values[s] : s \in Deliverable(r)}
           pool == [k \in Command |-> IF k \in new THEN Absent ELSE r.pool[k]]
           done == r.delivered \cup new
<1>1. r \in ReplicaState
  BY DEF Stamped
<1>2. c \in 0..MaxSlot /\ r.contig <= c
  <2>1. r.contig \in Nat /\ Cardinality(Deliverable(r)) \in Nat
    BY <1>1, StateTyped, DeliverableIsBounded
  <2>. QED  BY <1>1, <2>1, DeliverableIsBounded
<1>3. new \subseteq Command
  BY <1>1, StateTyped DEF Deliverable
<1>4. pool \in [Command -> PoolEntry]
  <2>1. Absent \in PoolEntry
    BY SlotsAreNumbers DEF Absent, PoolEntry
  <2>. HIDE DEF new
  <2>. QED  BY <1>1, <2>1, EntryTyped
<1>5. done \in SUBSET Command
  BY <1>1, <1>3, StateTyped
<1>6. q = [r EXCEPT !.contig = c, !.delivered = done, !.pool = pool]
  BY DEF DeliverAll
<1>. HIDE DEF q, c, new, pool, done
<1>7. q \in ReplicaState
  BY <1>1, <1>2, <1>4, <1>5, <1>6 DEF ReplicaState
<1>8. /\ q.contig = c /\ q.slots = r.slots /\ q.pendingSince = r.pendingSince
      /\ q.learnSent = r.learnSent /\ q.lastPing = r.lastPing
  BY <1>1, <1>6 DEF ReplicaState
<1>9. Stamped(q, t)
  BY <1>7, <1>8 DEF Stamped
<1>10. Onward(r, q, {}, t)
  BY <1>2, <1>8 DEF Onward, Known
<1>. QED  BY <1>9, <1>10 DEF q

\* decide_slot.
LEMMA DecideSlotGood ==
  ASSUME me \in Positions, NEW t \in Time, NEW r, Good(r, t), NEW s \in Slot,
         NEW v \in SUBSET Command
  PROVE  LET q == DecideSlot(r, s, v, t) IN Good(q, t) /\ Onward(r, q, {}, t)
<1> DEFINE slots == [r.slots EXCEPT ![s] = [phase |-> "decided", since |-> t]]
           values == [r.values EXCEPT ![s] = v]
           pool == [c \in Command |->
                      IF r.pool[c].slot = s /\ c \notin v THEN [r.pool[c] EXCEPT !.slot = 0]
                                                          ELSE r.pool[c]]
           a == [r EXCEPT !.slots = slots, !.values = values, !.pool = pool]
           q == DecideSlot(r, s, v, t)
<1>1. Stamped(r, t) /\ r \in ReplicaState
  BY DEF Stamped, Good
<1>2. CASE s <= r.contig \/ r.slots[s].phase = "decided"
  <2>1. q = r
    BY <1>2 DEF DecideSlot
  <2>2. Onward(r, r, {}, t)
    BY <1>1, StateTyped DEF Onward
  <2>. QED  BY <2>1, <2>2
<1>3. CASE ~(s <= r.contig \/ r.slots[s].phase = "decided")
  <2>1. q = Opened(Refreshed(DeliverAll(a), t), t)
    <3>1. a = [r EXCEPT !.slots[s] = [phase |-> "decided", since |-> t],
                     !.values[s] = v,
                     !.pool = [c \in Command |->
                                 IF @[c].slot = s /\ c \notin v THEN [@[c] EXCEPT !.slot = 0]
                                                                ELSE @[c]]]
      OBVIOUS
    <3>. HIDE DEF a
    <3>. QED  BY <1>3, <3>1 DEF DecideSlot
  <2>2. /\ slots \in [Slot -> SlotState]
        /\ \A u \in Slot : slots[u] = IF u = s THEN [phase |-> "decided", since |-> t] ELSE r.slots[u]
    <3>1. [phase |-> "decided", since |-> t] \in SlotState
      BY DEF SlotState
    <3>. QED  BY <1>1, <3>1, StateTyped
  <2>3. values \in [Slot -> SUBSET Command]
    BY <1>1, StateTyped
  <2>4. pool \in [Command -> PoolEntry]
    <3>1. \A e \in PoolEntry : [e EXCEPT !.slot = 0] \in PoolEntry
      BY SlotsAreNumbers DEF PoolEntry
    <3>. QED  BY <1>1, <3>1, EntryTyped
  <2>. HIDE DEF slots, values, pool
  <2>5. a \in ReplicaState
    BY <1>1, <2>2, <2>3, <2>4 DEF ReplicaState
  <2>6. /\ a.slots = slots /\ a.contig = r.contig /\ a.pendingSince = r.pendingSince
        /\ a.learnSent = r.learnSent /\ a.lastPing = r.lastPing
    BY <1>1 DEF ReplicaState
  <2>. HIDE DEF a, q
  <2>7. Stamped(a, t)
    <3>1. \A u \in Slot : a.slots[u].since <= t
      <4>1. t <= t
        BY SlotsAreNumbers
      <4>. QED  BY <1>1, <2>2, <2>6, <4>1 DEF Stamped
    <3>. QED  BY <1>1, <2>5, <2>6, <3>1 DEF Stamped
  <2>8. Onward(r, a, {}, t)
    <3>1. r.contig <= a.contig
      BY <1>1, <2>6, StateTyped
    <3>. QED  BY <2>2, <2>6, <3>1 DEF Onward, Known
  <2> DEFINE b == DeliverAll(a)
  <2>9. Stamped(b, t) /\ Onward(a, b, {}, t)
    BY <2>7, DeliverAllFits
  <2>. HIDE DEF b
  <2>10. Good(q, t) /\ Onward(b, q, {}, t)
    BY <2>1, <2>9, OpenedRefreshedGood DEF b
  <2>11. Onward(r, b, {}, t) /\ b \in ReplicaState /\ q \in ReplicaState
    BY <1>1, <2>5, <2>8, <2>9, <2>10, OnwardOn DEF Stamped, Good
  <2>12. Onward(r, q, {}, t)
    BY <1>1, <2>10, <2>11, OnwardOn
  <2>. QED  BY <2>10, <2>12 DEF q
<1>. QED  BY <1>2, <1>3

-----------------------------------------------------------------------------
(* The parts of tick. *)

\* ensure_frontier_observed: the frontier is missing afterwards only if nothing
\* calls for it.
LEMMA FrontierObservedFits ==
  ASSUME NEW t \in Time, NEW r, Stamped(r, t)
  PROVE  LET q == FrontierObserved(r, t)
         IN  /\ Stamped(q, t) /\ Onward(r, q, {}, t)
             /\ PendingReal(r) => PendingReal(q)
             /\ FrontierMissing(q) => q.pendingSince = {} /\ ~SlotsBeyond(q)
             /\ ~(FrontierMissing(r) /\ (r.pendingSince # {} \/ SlotsBeyond(r))) => q = r
<1> DEFINE q == FrontierObserved(r, t)
           s == Frontier(r)
           slots == [r.slots EXCEPT ![s] = [phase |-> "idle", since |-> t]]
<1>1. r \in ReplicaState
  BY DEF Stamped
<1>2. CASE ~(FrontierMissing(r) /\ (r.pendingSince # {} \/ SlotsBeyond(r)))
  <2>1. q = r
    BY <1>2 DEF FrontierObserved
  <2>2. Onward(r, r, {}, t)
    BY <1>1, StateTyped DEF Onward
  <2>. HIDE DEF q
  <2>. QED  BY <1>2, <2>1, <2>2 DEF q
<1>3. CASE FrontierMissing(r) /\ (r.pendingSince # {} \/ SlotsBeyond(r))
  <2>1. q = [r EXCEPT !.slots = slots]
    BY <1>3 DEF FrontierObserved
  <2>2. s \in Slot /\ r.slots[s].phase = "none"
    BY <1>3 DEF FrontierMissing, Known
  <2>3. slots \in [Slot -> SlotState]
    <3>1. [phase |-> "idle", since |-> t] \in SlotState
      BY DEF SlotState
    <3>. QED  BY <1>1, <3>1, StateTyped
  <2>4. \A u \in Slot : slots[u] = IF u = s THEN [phase |-> "idle", since |-> t] ELSE r.slots[u]
    BY <1>1, StateTyped
  <2>. HIDE DEF q, slots, s
  <2>5. q \in ReplicaState
    BY <1>1, <2>1, <2>3 DEF ReplicaState
  <2>6. /\ q.slots = slots /\ q.pendingSince = r.pendingSince /\ q.contig = r.contig
        /\ q.learnSent = r.learnSent /\ q.lastPing = r.lastPing /\ q.pool = r.pool
    BY <1>1, <2>1 DEF ReplicaState
  <2>7. Stamped(q, t)
    <3>1. \A u \in Slot : q.slots[u].since <= t
      <4>1. t <= t
        BY SlotsAreNumbers
      <4>. QED  BY <2>4, <2>6, <4>1 DEF Stamped
    <3>. QED  BY <2>5, <2>6, <3>1 DEF Stamped
  <2>8. Onward(r, q, {}, t)
    <3>1. r.contig <= q.contig
      BY <1>1, <2>6, StateTyped
    <3>. QED  BY <2>2, <2>4, <2>6, <3>1 DEF Onward, Known
  <2>9. PendingReal(r) => PendingReal(q)
    BY <2>6 DEF PendingReal, Unassigned
  <2>10. ~FrontierMissing(q)
    BY <2>2, <2>4, <2>6 DEF FrontierMissing, Frontier, Known, s
  <2>. QED  BY <1>3, <2>7, <2>8, <2>9, <2>10 DEF q
<1>. QED  BY <1>2, <1>3

\* hedge_activate_due: no slot stays idle past its deadline, and the trigger is
\* cleared with the last waiting command.
LEMMA HedgesActivatedFits ==
  ASSUME me \in Positions, NEW t \in Time, NEW r, Stamped(r, t), PendingReal(r)
  PROVE  LET q == HedgesActivated(r, t)
         IN  /\ Stamped(q, t) /\ Onward(r, q, {}, t) /\ PendingReal(q)
             /\ \A s \in In(q, "idle") : ~HedgeDue(t, me, q.slots[s].since)
             /\ FrontierMissing(q) => FrontierMissing(r)
             /\ SlotsBeyond(q) => SlotsBeyond(r)
             /\ q.pendingSince \subseteq r.pendingSince
             /\ (\A s \in In(r, "idle") : ~HedgeDue(t, me, r.slots[s].since)) => q = r
<1> DEFINE S == {s \in In(r, "idle") : HedgeDue(t, me, r.slots[s].since)}
           a == Activated(r, S, t)
           q == PendingCleared(a)
           p == IF Unassigned(a) = {} THEN {} ELSE a.pendingSince
<1>1. q = HedgesActivated(r, t)
  BY DEF HedgesActivated
<1>2. r \in ReplicaState
  BY DEF Stamped
<1>3. S \in SUBSET Slot /\ S \subseteq Known(r)
  BY DEF In, Known
<1>4. /\ Stamped(a, t) /\ Onward(r, a, {}, t)
      /\ a.contig = r.contig /\ a.pendingSince = r.pendingSince
      /\ \A s \in Slot : a.slots[s] = IF s \in S THEN [phase |-> "running", since |-> t]
                                                ELSE r.slots[s]
      /\ Unassigned(a) \subseteq Unassigned(r)
      /\ (S = {} => a = r)
  <2>. HIDE DEF S
  <2>. QED  BY <1>3, ActivatedFits
<1>5. ASSUME NEW s \in In(a, "idle") PROVE ~HedgeDue(t, me, a.slots[s].since)
  <2>1. s \in Slot /\ s > r.contig /\ a.slots[s].phase = "idle"
    BY <1>4 DEF In
  <2>2. s \notin S /\ a.slots[s] = r.slots[s]
    <3>. HIDE DEF a, S
    <3>. QED  BY <1>4, <2>1
  <2>. HIDE DEF a
  <2>3. s \in In(r, "idle")
    BY <2>1, <2>2 DEF In
  <2>. QED  BY <2>2, <2>3
<1>6. (\A s \in In(r, "idle") : ~HedgeDue(t, me, r.slots[s].since)) => S = {}
  OBVIOUS
<1>7. Known(a) = Known(r)
  <2>. HIDE DEF a, S
  <2>. QED  BY <1>3, <1>4 DEF Known
<1>. HIDE DEF a, S
<1>8. a \in ReplicaState
  BY <1>4 DEF Stamped
<1>9. p \in SUBSET Time /\ AtMostOne(p) /\ p \subseteq a.pendingSince
  <2>1. a.pendingSince \in SUBSET Time /\ AtMostOne(a.pendingSince)
    BY <1>4, <1>8, StateTyped DEF Stamped
  <2>. QED  BY <2>1 DEF AtMostOne
<1>10. q = [a EXCEPT !.pendingSince = p]
  <2>1. CASE Unassigned(a) = {}
    BY <2>1 DEF PendingCleared
  <2>2. CASE Unassigned(a) # {}
    BY <1>8, <2>2 DEF PendingCleared, ReplicaState
  <2>. QED  BY <2>1, <2>2
<1>11. p # {} <=> Unassigned(a) # {}
  BY <1>4 DEF PendingReal
<1>12. p = a.pendingSince => q = a
  BY <1>8, <1>10 DEF ReplicaState
<1>. HIDE DEF q, p
<1>13. /\ q \in ReplicaState /\ q.pendingSince = p /\ q.slots = a.slots /\ q.contig = a.contig
       /\ q.learnSent = a.learnSent /\ q.lastPing = a.lastPing /\ q.pool = a.pool
  BY <1>8, <1>9, <1>10 DEF ReplicaState
<1>14. Stamped(q, t)
  BY <1>4, <1>9, <1>13 DEF Stamped
<1>15. PendingReal(q)
  BY <1>11, <1>13 DEF PendingReal, Unassigned
<1>16. Onward(r, q, {}, t)
  BY <1>4, <1>13 DEF Onward, Known
<1>17. Known(q) = Known(r) /\ In(q, "idle") = In(a, "idle")
  BY <1>7, <1>13 DEF Known, In
<1>18. /\ FrontierMissing(q) => FrontierMissing(r)
       /\ SlotsBeyond(q) => SlotsBeyond(r)
  BY <1>4, <1>13, <1>17 DEF FrontierMissing, SlotsBeyond, Frontier
<1>19. \A s \in In(q, "idle") : ~HedgeDue(t, me, q.slots[s].since)
  BY <1>5, <1>13, <1>17
<1>20. q.pendingSince \subseteq r.pendingSince
  BY <1>4, <1>9, <1>13
<1>21. S = {} => q = r
  <2>1. ASSUME S = {} PROVE q = r
    <3>1. a = r
      BY <1>4, <2>1
    <3>2. p = a.pendingSince
      <4>1. Unassigned(a) = {} => a.pendingSince = {}
        BY <3>1 DEF PendingReal
      <4>. QED  BY <4>1 DEF p
    <3>. QED  BY <1>12, <3>1, <3>2
  <2>. QED  BY <2>1
<1>. QED  BY <1>1, <1>6, <1>14, <1>15, <1>16, <1>18, <1>19, <1>20, <1>21

\* A timer that a tick has looked at: it is not due, or has just been served.
Served(t, last, delay) == ~TimerDue(t, last, delay) \/ last = t

LEMMA ServedIsAhead ==
  ASSUME NEW t \in Time, t < MaxTime, NEW last \in Time,
         NEW delay \in {Retransmit, ForwardInterval, PingInterval}, Served(t, last, delay)
  PROVE  TimerDeadline(last, delay) > t
<1>1. delay \in Nat \ {0}
  BY DelaysClamped, ForwardIntervalPositive, DelaysAssumption
<1>2. CASE last = t
  BY <1>2, ServedTimerIsAhead
<1>3. CASE ~TimerDue(t, last, delay)
  <2>1. ~(t >= TimerDeadline(last, delay))
    BY <1>1, <1>3, DueFromDeadlineOn
  <2>2. TimerDeadline(last, delay) \in Nat /\ t \in Nat
    BY <1>1, SatAddBounds, SlotsAreNumbers DEF TimerDeadline
  <2>. QED  BY <2>1, <2>2
<1>. QED  BY <1>2, <1>3 DEF Served

\* retransmit_due.
LEMMA RetransmittedFits ==
  ASSUME NEW t \in Time, NEW r, Stamped(r, t)
  PROVE  LET q == Retransmitted(r, t)
         IN  /\ Stamped(q, t) /\ SameWork(r, q) /\ Onward(r, q, {}, t)
             /\ q.pendingSince = r.pendingSince
             /\ \A s \in Slot : q.slots[s].phase = "idle" => q.slots[s] = r.slots[s]
             /\ \A s \in In(q, "running") : Served(t, q.slots[s].since, Retransmit)
             /\ (\A s \in In(r, "running") : ~TimerDue(t, r.slots[s].since, Retransmit)) => q = r
<1> DEFINE q == Retransmitted(r, t)
           Due(s) == s \in In(r, "running") /\ TimerDue(t, r.slots[s].since, Retransmit)
           slots == [s \in Slot |-> IF Due(s) THEN [r.slots[s] EXCEPT !.since = t] ELSE r.slots[s]]
<1>1. r \in ReplicaState /\ t \in Nat
  BY SlotsAreNumbers DEF Stamped
<1>2. q = [r EXCEPT !.slots = slots]
  BY DEF Retransmitted
<1>3. ASSUME NEW s \in Slot
      PROVE  /\ slots[s] \in SlotState /\ slots[s].phase = r.slots[s].phase
             /\ slots[s].since <= t
             /\ ~Due(s) => slots[s] = r.slots[s]
             /\ Due(s) => slots[s].since = t
  <2>1. r.slots[s] \in SlotState /\ r.slots[s].since <= t
    BY <1>1, SlotTyped DEF Stamped
  <2>2. CASE Due(s)
    <3>1. slots[s] = [r.slots[s] EXCEPT !.since = t]
      BY <2>2
    <3>2. \A e \in SlotState : /\ [e EXCEPT !.since = t] \in SlotState
                               /\ [e EXCEPT !.since = t].phase = e.phase
                               /\ [e EXCEPT !.since = t].since = t
      BY DEF SlotState
    <3>. HIDE DEF slots
    <3>. QED  BY <1>1, <2>1, <2>2, <3>1, <3>2
  <2>3. CASE ~Due(s)
    <3>1. slots[s] = r.slots[s]
      BY <2>3
    <3>. HIDE DEF slots
    <3>. QED  BY <2>1, <2>3, <3>1
  <2>. QED  BY <2>2, <2>3
<1>4. slots \in [Slot -> SlotState]
  <2>1. slots = [s \in Slot |-> slots[s]]
    OBVIOUS
  <2>. HIDE DEF slots
  <2>. QED  BY <1>3, <2>1
<1>5. ASSUME \A s \in In(r, "running") : ~TimerDue(t, r.slots[s].since, Retransmit)
      PROVE  q = r
  <2>1. slots = r.slots
    <3>1. \A s \in Slot : ~Due(s)
      BY <1>5
    <3>. QED  BY <1>1, <3>1, StateTyped
  <2>. HIDE DEF q, slots
  <2>. QED  BY <1>1, <1>2, <2>1 DEF ReplicaState
<1>. HIDE DEF q, slots
<1>6. /\ q \in ReplicaState /\ q.slots = slots /\ q.contig = r.contig /\ q.pool = r.pool
      /\ q.maxOpen = r.maxOpen /\ q.delivered = r.delivered /\ q.pendingSince = r.pendingSince
      /\ q.learnSent = r.learnSent /\ q.lastPing = r.lastPing
  BY <1>1, <1>2, <1>4 DEF ReplicaState
<1>7. SameWork(r, q)
  BY <1>3, <1>6 DEF SameWork
<1>8. Stamped(q, t)
  BY <1>3, <1>6 DEF Stamped
<1>9. \A s \in Slot : q.slots[s].phase = "idle" => q.slots[s] = r.slots[s]
  BY <1>3, <1>6 DEF In
<1>10. ASSUME NEW s \in In(q, "running") PROVE Served(t, q.slots[s].since, Retransmit)
  <2>1. s \in Slot /\ s \in In(r, "running")
    BY <1>3, <1>6 DEF In
  <2>2. CASE Due(s)
    BY <1>3, <1>6, <2>1, <2>2 DEF Served
  <2>3. CASE ~Due(s)
    BY <1>3, <1>6, <2>1, <2>3 DEF Served
  <2>. QED  BY <2>2, <2>3
<1>11. Onward(r, q, {}, t)
  BY <1>1, <1>3, <1>6, <1>9, StateTyped DEF Onward, Known
<1>. QED  BY <1>5, <1>6, <1>7, <1>8, <1>9, <1>10, <1>11 DEF q

\* reforward_due.
LEMMA ReforwardedFits ==
  ASSUME NEW t \in Time, NEW r, Stamped(r, t)
  PROVE  LET q == Reforwarded(r, t)
         IN  /\ Stamped(q, t) /\ SameWork(r, q) /\ Onward(r, q, {}, t)
             /\ q.pendingSince = r.pendingSince /\ q.slots = r.slots
             /\ \A c \in OwnWaiting(q) : Served(t, q.pool[c].forwarded, ForwardInterval)
             /\ (\A c \in OwnWaiting(r) : ~TimerDue(t, r.pool[c].forwarded, ForwardInterval)) => q = r
<1> DEFINE q == Reforwarded(r, t)
           Due(c) == c \in OwnWaiting(r) /\ TimerDue(t, r.pool[c].forwarded, ForwardInterval)
           pool == [c \in Command |-> IF Due(c) THEN [r.pool[c] EXCEPT !.forwarded = t] ELSE r.pool[c]]
<1>1. r \in ReplicaState
  BY DEF Stamped
<1>2. q = [r EXCEPT !.pool = pool]
  BY DEF Reforwarded
<1>3. ASSUME NEW c \in Command
      PROVE  /\ pool[c] \in PoolEntry /\ pool[c].slot = r.pool[c].slot
             /\ ~Due(c) => pool[c] = r.pool[c]
             /\ Due(c) => pool[c].forwarded = t
  <2>1. r.pool[c] \in PoolEntry
    BY <1>1, EntryTyped
  <2>2. CASE Due(c)
    <3>1. pool[c] = [r.pool[c] EXCEPT !.forwarded = t]
      BY <2>2
    <3>2. \A e \in PoolEntry : /\ [e EXCEPT !.forwarded = t] \in PoolEntry
                               /\ [e EXCEPT !.forwarded = t].slot = e.slot
                               /\ [e EXCEPT !.forwarded = t].forwarded = t
      BY DEF PoolEntry
    <3>. HIDE DEF pool
    <3>. QED  BY <2>1, <2>2, <3>1, <3>2
  <2>3. CASE ~Due(c)
    <3>1. pool[c] = r.pool[c]
      BY <2>3
    <3>. HIDE DEF pool
    <3>. QED  BY <2>1, <2>3, <3>1
  <2>. QED  BY <2>2, <2>3
<1>4. pool \in [Command -> PoolEntry]
  <2>1. pool = [c \in Command |-> pool[c]]
    OBVIOUS
  <2>. HIDE DEF pool
  <2>. QED  BY <1>3, <2>1
<1>5. ASSUME \A c \in OwnWaiting(r) : ~TimerDue(t, r.pool[c].forwarded, ForwardInterval)
      PROVE  q = r
  <2>1. pool = r.pool
    <3>1. \A c \in Command : ~Due(c)
      BY <1>5
    <3>. QED  BY <1>1, <3>1, StateTyped
  <2>. HIDE DEF q, pool
  <2>. QED  BY <1>1, <1>2, <2>1 DEF ReplicaState
<1>. HIDE DEF q, pool
<1>6. /\ q \in ReplicaState /\ q.slots = r.slots /\ q.contig = r.contig /\ q.pool = pool
      /\ q.maxOpen = r.maxOpen /\ q.delivered = r.delivered /\ q.pendingSince = r.pendingSince
      /\ q.learnSent = r.learnSent /\ q.lastPing = r.lastPing
  BY <1>1, <1>2, <1>4 DEF ReplicaState
<1>7. SameWork(r, q)
  BY <1>3, <1>6 DEF SameWork
<1>8. Stamped(q, t)
  BY <1>6 DEF Stamped
<1>9. ASSUME NEW c \in OwnWaiting(q) PROVE Served(t, q.pool[c].forwarded, ForwardInterval)
  <2>1. c \in Command /\ c \in OwnWaiting(r)
    <3>1. OwnWaiting(q) = OwnWaiting(r)
      BY <1>7, SameWorkSame
    <3>2. OwnWaiting(r) \subseteq Command
      BY DEF OwnWaiting, Unassigned
    <3>. QED  BY <1>9, <3>1, <3>2
  <2>2. CASE Due(c)
    BY <1>3, <1>6, <2>1, <2>2 DEF Served
  <2>3. CASE ~Due(c)
    BY <1>3, <1>6, <2>1, <2>3 DEF Served
  <2>. QED  BY <2>2, <2>3
<1>10. Onward(r, q, {}, t)
  BY <1>1, <1>6, StateTyped DEF Onward, Known
<1>. QED  BY <1>5, <1>6, <1>7, <1>8, <1>9, <1>10 DEF q

\* maybe_request_learn.
LEMMA LearnAskedFits ==
  ASSUME NEW t \in Time, NEW r, Stamped(r, t), NEW w
  PROVE  LET q == LearnAsked(r, w, t)
         IN  /\ Stamped(q, t) /\ SameWork(r, q) /\ Onward(r, q, {}, t)
             /\ q.pendingSince = r.pendingSince /\ q.slots = r.slots /\ q.pool = r.pool
             /\ q.heard = r.heard
             /\ q = r \/ q.learnSent = {t}
<1> DEFINE q == LearnAsked(r, w, t)
<1>1. r \in ReplicaState /\ t <= t /\ AtMostOne({t})
  BY SlotsAreNumbers DEF Stamped, AtMostOne
<1>2. CASE q = r
  <2>1. SameWork(r, r) /\ Onward(r, r, {}, t)
    BY <1>1, StateTyped DEF SameWork, Onward
  <2>. HIDE DEF q
  <2>. QED  BY <1>2, <2>1 DEF q
<1>3. CASE q # r
  <2>1. q = [r EXCEPT !.learnSent = {t}]
    BY <1>3 DEF LearnAsked
  <2>. HIDE DEF q
  <2>2. /\ q \in ReplicaState /\ q.slots = r.slots /\ q.contig = r.contig /\ q.pool = r.pool
        /\ q.maxOpen = r.maxOpen /\ q.delivered = r.delivered /\ q.pendingSince = r.pendingSince
        /\ q.learnSent = {t} /\ q.lastPing = r.lastPing /\ q.heard = r.heard
    BY <1>1, <2>1 DEF ReplicaState
  <2>3. SameWork(r, q) /\ Stamped(q, t)
    BY <1>1, <2>2 DEF SameWork, Stamped
  <2>4. Onward(r, q, {}, t)
    BY <1>1, <2>2, StateTyped DEF Onward, Known
  <2>. QED  BY <2>2, <2>3, <2>4 DEF q
<1>. QED  BY <1>2, <1>3

\* learn_tick: a request in flight has not timed out, and without one no peer is
\* known to be ahead.
LEMMA LearnTickedFits ==
  ASSUME NEW t \in Time, NEW r, Stamped(r, t)
  PROVE  LET q == LearnTicked(r, t)
         IN  /\ Stamped(q, t) /\ SameWork(r, q) /\ Onward(r, q, {}, t)
             /\ q.pendingSince = r.pendingSince /\ q.slots = r.slots /\ q.pool = r.pool
             /\ \A sent \in q.learnSent : Served(t, sent, Retransmit)
             /\ q.learnSent = {} => q.heard <= q.contig
             /\ (/\ \A sent \in r.learnSent : ~TimerDue(t, sent, Retransmit)
                 /\ r.learnSent = {} => r.heard <= r.contig) => q = r
<1> DEFINE a == LearnExpired(r, t)
           left == {sent \in r.learnSent : ~TimerDue(t, sent, Retransmit)}
           b == LearnAsked(a, a.heard, t)
           q == LearnTicked(r, t)
<1>1. r \in ReplicaState
  BY DEF Stamped
<1>2. a = [r EXCEPT !.learnSent = left]
  BY DEF LearnExpired
<1>3. left \in SUBSET Time /\ AtMostOne(left) /\ left \subseteq r.learnSent
  BY <1>1, StateTyped DEF Stamped, AtMostOne
<1>4. q = IF a.learnSent = {} THEN b ELSE a
  BY DEF LearnTicked
<1>5. \A sent \in left : ~TimerDue(t, sent, Retransmit)
  OBVIOUS
<1>6. (\A sent \in r.learnSent : ~TimerDue(t, sent, Retransmit)) => left = r.learnSent
  OBVIOUS
<1>. HIDE DEF a, left
<1>7. /\ a \in ReplicaState /\ a.slots = r.slots /\ a.contig = r.contig /\ a.pool = r.pool
      /\ a.maxOpen = r.maxOpen /\ a.delivered = r.delivered /\ a.pendingSince = r.pendingSince
      /\ a.learnSent = left /\ a.lastPing = r.lastPing /\ a.heard = r.heard
      /\ (left = r.learnSent => a = r)
  BY <1>1, <1>2, <1>3 DEF ReplicaState
<1>8. SameWork(r, a) /\ Stamped(a, t) /\ Onward(r, a, {}, t)
  <2>1. SameWork(r, a)
    BY <1>7 DEF SameWork
  <2>2. Stamped(a, t)
    BY <1>3, <1>7 DEF Stamped
  <2>3. Onward(r, a, {}, t)
    BY <1>1, <1>7, StateTyped DEF Onward, Known
  <2>. QED  BY <2>1, <2>2, <2>3
<1>9. /\ Stamped(b, t) /\ SameWork(a, b) /\ Onward(a, b, {}, t)
      /\ b.pendingSince = a.pendingSince /\ b.slots = a.slots /\ b.pool = a.pool
      /\ b.heard = a.heard
      /\ b = a \/ b.learnSent = {t}
  BY <1>8, LearnAskedFits
<1>10. b.learnSent = {} => b.heard <= b.contig
  <2>1. ASSUME b.learnSent = {} PROVE b.heard <= b.contig
    <3>1. b = a
      BY <1>9, <2>1
    <3>2. CASE a.heard > a.contig
      <4>1. \A sent \in a.learnSent : TimerDue(t, sent, Retransmit)
        BY <2>1, <3>1
      <4>2. b = [a EXCEPT !.learnSent = {t}]
        BY <3>2, <4>1 DEF LearnAsked
      <4>3. b.learnSent = {t}
        BY <1>7, <4>2 DEF ReplicaState
      <4>. QED  BY <2>1, <4>3
    <3>3. CASE ~(a.heard > a.contig)
      <4>1. a.heard \in Nat /\ a.contig \in Nat
        BY <1>7, StateTyped
      <4>. QED  BY <3>1, <3>3, <4>1
    <3>. QED  BY <3>2, <3>3
  <2>. QED  BY <2>1
<1>11. ASSUME a.heard <= a.contig PROVE b = a
  <2>1. a.heard \in Nat /\ a.contig \in Nat
    BY <1>7, StateTyped
  <2>2. ~(a.heard > a.contig)
    BY <1>11, <2>1
  <2>. QED  BY <2>2 DEF LearnAsked
<1>. HIDE DEF b
<1>12. SameWork(r, b) /\ Onward(r, b, {}, t)
  <2>1. SameWork(r, b)
    BY <1>8, <1>9 DEF SameWork
  <2>2. b \in ReplicaState
    BY <1>9 DEF Stamped
  <2>. QED  BY <1>1, <1>7, <1>8, <1>9, <2>1, <2>2, OnwardOn
<1>13. CASE a.learnSent = {}
  <2>1. q = b
    BY <1>4, <1>13
  <2>2. \A sent \in b.learnSent : Served(t, sent, Retransmit)
    BY <1>9, <1>13 DEF Served
  <2>3. ASSUME \A sent \in r.learnSent : ~TimerDue(t, sent, Retransmit),
               r.learnSent = {} => r.heard <= r.contig
        PROVE  b = r
    <3>1. a = r
      BY <1>6, <1>7, <2>3
    <3>. QED  BY <1>11, <1>13, <2>3, <3>1
  <2>. HIDE DEF q
  <2>. QED  BY <1>7, <1>9, <1>10, <1>12, <2>1, <2>2, <2>3 DEF q
<1>14. CASE a.learnSent # {}
  <2>1. q = a
    BY <1>4, <1>14
  <2>2. \A sent \in a.learnSent : Served(t, sent, Retransmit)
    BY <1>5, <1>7 DEF Served
  <2>3. (\A sent \in r.learnSent : ~TimerDue(t, sent, Retransmit)) => a = r
    BY <1>6, <1>7
  <2>. HIDE DEF q
  <2>. QED  BY <1>7, <1>8, <1>14, <2>1, <2>2, <2>3 DEF q
<1>. QED  BY <1>13, <1>14

\* ping_tick.
LEMMA PingedFits ==
  ASSUME NEW t \in Time, NEW r, Stamped(r, t)
  PROVE  LET q == Pinged(r, t)
         IN  /\ Stamped(q, t) /\ SameWork(r, q) /\ Onward(r, q, {}, t)
             /\ q.pendingSince = r.pendingSince /\ q.slots = r.slots /\ q.pool = r.pool
             /\ q.learnSent = r.learnSent /\ q.heard = r.heard
             /\ Served(t, q.lastPing, PingInterval)
             /\ ~TimerDue(t, r.lastPing, PingInterval) => q = r
<1> DEFINE q == Pinged(r, t)
<1>1. r \in ReplicaState /\ t <= t
  BY SlotsAreNumbers DEF Stamped
<1>2. CASE ~TimerDue(t, r.lastPing, PingInterval)
  <2>1. q = r
    BY <1>2 DEF Pinged
  <2>2. SameWork(r, r) /\ Onward(r, r, {}, t)
    BY <1>1, StateTyped DEF SameWork, Onward
  <2>. HIDE DEF q
  <2>. QED  BY <1>2, <2>1, <2>2 DEF q, Served
<1>3. CASE TimerDue(t, r.lastPing, PingInterval)
  <2>1. q = [r EXCEPT !.lastPing = t]
    BY <1>3 DEF Pinged
  <2>. HIDE DEF q
  <2>2. /\ q \in ReplicaState /\ q.slots = r.slots /\ q.contig = r.contig /\ q.pool = r.pool
        /\ q.maxOpen = r.maxOpen /\ q.delivered = r.delivered /\ q.pendingSince = r.pendingSince
        /\ q.learnSent = r.learnSent /\ q.lastPing = t /\ q.heard = r.heard
    BY <1>1, <2>1 DEF ReplicaState
  <2>3. SameWork(r, q) /\ Stamped(q, t)
    BY <1>1, <2>2 DEF SameWork, Stamped
  <2>4. Onward(r, q, {}, t)
    BY <1>1, <2>2, StateTyped DEF Onward, Known
  <2>5. Served(t, q.lastPing, PingInterval)
    BY <2>2 DEF Served
  <2>. QED  BY <1>3, <2>2, <2>3, <2>4, <2>5 DEF q
<1>. QED  BY <1>2, <1>3

-----------------------------------------------------------------------------
(* tick as a whole. *)

LEMMA NothingWaits ==
  ASSUME NEW r, Unassigned(r) = {}
  PROVE  Openable(r) = {}
<1>1. Batchable(r) = {}
  BY DEF Batchable
<1>2. \A k : Batch(r, k) = {}
  BY <1>1 DEF Batch
<1>. QED  BY <1>2 DEF Openable

\* Everything that tick looks after has been looked after at the time t.
AllServed(r, t) ==
  /\ \A s \in In(r, "idle") : ~HedgeDue(t, me, r.slots[s].since)
  /\ \A s \in In(r, "running") : Served(t, r.slots[s].since, Retransmit)
  /\ FrontierMissing(r) => r.pendingSince = {} /\ ~SlotsBeyond(r)
  /\ \A c \in OwnWaiting(r) : Served(t, r.pool[c].forwarded, ForwardInterval)
  /\ \A sent \in r.learnSent : Served(t, sent, Retransmit)
  /\ r.learnSent = {} => r.heard <= r.contig
  /\ Served(t, r.lastPing, PingInterval)

LEMMA TickedServes ==
  ASSUME me \in Positions, NEW t \in Time, NEW r, Good(r, t)
  PROVE  LET q == Ticked(r, t) IN Good(q, t) /\ Onward(r, q, {}, t) /\ AllServed(q, t)
<1> DEFINE r1 == FrontierObserved(r, t)
           r2 == HedgesActivated(r1, t)
           r3 == Opened(r2, t)
           r4 == Retransmitted(r3, t)
           r5 == Reforwarded(r4, t)
           r6 == LearnTicked(r5, t)
           r7 == Pinged(r6, t)
<1>1. r7 = Ticked(r, t)
  BY DEF Ticked
<1>2. /\ Stamped(r1, t) /\ Onward(r, r1, {}, t) /\ PendingReal(r1)
      /\ FrontierMissing(r1) => r1.pendingSince = {} /\ ~SlotsBeyond(r1)
  BY FrontierObservedFits DEF Good
<1>. HIDE DEF r1
<1>3. /\ Stamped(r2, t) /\ Onward(r1, r2, {}, t) /\ PendingReal(r2)
      /\ \A s \in In(r2, "idle") : ~HedgeDue(t, me, r2.slots[s].since)
      /\ FrontierMissing(r2) => FrontierMissing(r1)
      /\ SlotsBeyond(r2) => SlotsBeyond(r1)
      /\ r2.pendingSince \subseteq r1.pendingSince
  BY <1>2, HedgesActivatedFits
<1>. HIDE DEF r2
<1>4. /\ Stamped(r3, t) /\ Onward(r2, r3, {}, t) /\ r3.contig = r2.contig
      /\ \A s \in Slot : r3.slots[s].phase = "idle" => r3.slots[s] = r2.slots[s]
      /\ me = Leader => PendingReal(r3) /\ Openable(r3) = {}
      /\ me # Leader => r3 = r2
      /\ Openable(r2) = {} => (PendingReal(r2) => r3 = r2)
  BY <1>3, OpenedFits
<1>. HIDE DEF r3
<1>5. /\ Stamped(r4, t) /\ SameWork(r3, r4) /\ Onward(r3, r4, {}, t)
      /\ r4.pendingSince = r3.pendingSince
      /\ \A s \in Slot : r4.slots[s].phase = "idle" => r4.slots[s] = r3.slots[s]
      /\ \A s \in In(r4, "running") : Served(t, r4.slots[s].since, Retransmit)
  BY <1>4, RetransmittedFits
<1>. HIDE DEF r4
<1>6. /\ Stamped(r5, t) /\ SameWork(r4, r5) /\ Onward(r4, r5, {}, t)
      /\ r5.pendingSince = r4.pendingSince /\ r5.slots = r4.slots
      /\ \A c \in OwnWaiting(r5) : Served(t, r5.pool[c].forwarded, ForwardInterval)
  BY <1>5, ReforwardedFits
<1>. HIDE DEF r5
<1>7. /\ Stamped(r6, t) /\ SameWork(r5, r6) /\ Onward(r5, r6, {}, t)
      /\ r6.pendingSince = r5.pendingSince /\ r6.slots = r5.slots /\ r6.pool = r5.pool
      /\ \A sent \in r6.learnSent : Served(t, sent, Retransmit)
      /\ r6.learnSent = {} => r6.heard <= r6.contig
  BY <1>6, LearnTickedFits
<1>. HIDE DEF r6
<1>8. /\ Stamped(r7, t) /\ SameWork(r6, r7) /\ Onward(r6, r7, {}, t)
      /\ r7.pendingSince = r6.pendingSince /\ r7.slots = r6.slots /\ r7.pool = r6.pool
      /\ r7.learnSent = r6.learnSent /\ r7.heard = r6.heard
      /\ Served(t, r7.lastPing, PingInterval)
  BY <1>7, PingedFits
<1>. HIDE DEF r7
<1>9. /\ r \in ReplicaState /\ r1 \in ReplicaState /\ r2 \in ReplicaState /\ r3 \in ReplicaState
      /\ r4 \in ReplicaState /\ r5 \in ReplicaState /\ r6 \in ReplicaState /\ r7 \in ReplicaState
  BY <1>2, <1>3, <1>4, <1>5, <1>6, <1>7, <1>8 DEF Stamped, Good
<1>10. Onward(r, r7, {}, t)
  <2>1. Onward(r, r2, {}, t)
    BY <1>2, <1>3, <1>9, OnwardOn
  <2>2. Onward(r, r3, {}, t)
    BY <1>4, <1>9, <2>1, OnwardOn
  <2>3. Onward(r, r4, {}, t)
    BY <1>5, <1>9, <2>2, OnwardOn
  <2>4. Onward(r, r5, {}, t)
    BY <1>6, <1>9, <2>3, OnwardOn
  <2>5. Onward(r, r6, {}, t)
    BY <1>7, <1>9, <2>4, OnwardOn
  <2>. QED  BY <1>8, <1>9, <2>5, OnwardOn
<1>11. SameWork(r3, r7) /\ SameWork(r4, r7) /\ SameWork(r5, r7)
  <2>1. SameWork(r3, r7)
    BY <1>5, <1>6, <1>7, <1>8 DEF SameWork
  <2>2. SameWork(r4, r7)
    BY <1>6, <1>7, <1>8 DEF SameWork
  <2>3. SameWork(r5, r7)
    BY <1>7, <1>8 DEF SameWork
  <2>. QED  BY <2>1, <2>2, <2>3
<1>12. Good(r7, t)
  <2>1. PendingReal(r3)
    BY <1>3, <1>4
  <2>2. Good(r3, t)
    BY <1>4, <2>1 DEF Good
  <2>3. r7.pendingSince = r3.pendingSince
    BY <1>5, <1>6, <1>7, <1>8
  <2>. QED  BY <1>8, <1>11, <2>2, <2>3, SameWorkGood
<1>13. ASSUME NEW s \in In(r7, "idle") PROVE ~HedgeDue(t, me, r7.slots[s].since)
  <2>1. s \in Slot /\ s > r7.contig /\ r7.slots[s].phase = "idle" /\ r7.contig = r2.contig
    BY <1>4, <1>11 DEF In, SameWork
  <2>2. r7.slots[s] = r4.slots[s]
    BY <1>6, <1>7, <1>8
  <2>3. r4.slots[s] = r3.slots[s] /\ r3.slots[s] = r2.slots[s]
    BY <1>4, <1>5, <2>1, <2>2
  <2>4. s \in In(r2, "idle")
    BY <2>1, <2>2, <2>3 DEF In
  <2>. QED  BY <1>3, <2>2, <2>3, <2>4
<1>14. ASSUME NEW s \in In(r7, "running") PROVE Served(t, r7.slots[s].since, Retransmit)
  <2>1. In(r7, "running") = In(r4, "running")
    BY <1>11, SameWorkSame
  <2>2. r7.slots = r4.slots
    BY <1>6, <1>7, <1>8
  <2>. QED  BY <1>5, <1>14, <2>1, <2>2
<1>15. ASSUME FrontierMissing(r7) PROVE r7.pendingSince = {} /\ ~SlotsBeyond(r7)
  <2>1. FrontierMissing(r3) /\ (SlotsBeyond(r7) <=> SlotsBeyond(r3))
    BY <1>11, <1>15, SameWorkSame
  <2>2. FrontierMissing(r2)
    BY <1>4, <2>1 DEF FrontierMissing, Frontier, Onward
  <2>3. r2.pendingSince = {} /\ ~SlotsBeyond(r2)
    BY <1>2, <1>3, <2>2
  <2>4. Openable(r2) = {}
    BY <1>3, <2>3, NothingWaits DEF PendingReal
  <2>5. r3 = r2
    BY <1>3, <1>4, <2>4
  <2>. QED  BY <1>5, <1>6, <1>7, <1>8, <2>1, <2>3, <2>5
<1>16. ASSUME NEW c \in OwnWaiting(r7) PROVE Served(t, r7.pool[c].forwarded, ForwardInterval)
  <2>1. OwnWaiting(r7) = OwnWaiting(r5)
    BY <1>11, SameWorkSame
  <2>. QED  BY <1>6, <1>7, <1>8, <1>16, <2>1
<1>17. /\ \A sent \in r7.learnSent : Served(t, sent, Retransmit)
       /\ r7.learnSent = {} => r7.heard <= r7.contig
  BY <1>7, <1>8 DEF SameWork
<1>18. AllServed(r7, t)
  BY <1>8, <1>13, <1>14, <1>15, <1>16, <1>17 DEF AllServed
<1>. QED  BY <1>1, <1>10, <1>12, <1>18

LEMMA PositionTyped ==
  ASSUME me \in Positions
  PROVE  me \in Nat
BY BoundsAssumption

LEMMA HedgeDeadlineTyped ==
  ASSUME NEW k \in Nat, NEW base \in Time
  PROVE  /\ HedgeDeadline(k, base) \in Time /\ HedgeDeadline(k, base) <= base + k * Hedge
         /\ k * Hedge \in Nat
<1>1. Hedge \in Nat
  BY DelaysClamped
<1>2. SatMul(k, Hedge) \in Time
  BY <1>1, SatMulBounds
<1> DEFINE h == k * Hedge
<1>3. h \in Nat
  BY <1>1
<1>4. SatMul(k, Hedge) \in Nat /\ SatMul(k, Hedge) <= h
  <2>1. SatMul(k, Hedge) = IF h > MaxTime THEN MaxTime ELSE h
    BY DEF SatMul
  <2>. HIDE DEF h
  <2>. QED  BY <1>3, <2>1, DelaysAssumption
<1>5. HedgeDeadline(k, base) \in Time
  BY <1>2, <1>4, SatAddBounds DEF HedgeDeadline
<1>6. HedgeDeadline(k, base) <= base + h
  <2> DEFINE m == SatMul(k, Hedge)
  <2>1. m \in Nat /\ m <= h
    BY <1>4
  <2>2. HedgeDeadline(k, base) = IF base + m > MaxTime THEN MaxTime ELSE base + m
    BY DEF HedgeDeadline, SatAdd
  <2>3. base \in Nat
    BY SlotsAreNumbers
  <2>. HIDE DEF m, h
  <2>. QED  BY <1>3, <2>1, <2>2, <2>3, DelaysAssumption
<1>. QED  BY <1>3, <1>5, <1>6

LEMMA TimerDeadlineTyped ==
  ASSUME NEW last \in Time, NEW delay \in {Retransmit, ForwardInterval, PingInterval}
  PROVE  TimerDeadline(last, delay) \in Time /\ delay \in Nat \ {0}
<1>1. delay \in Nat \ {0}
  BY DelaysClamped, ForwardIntervalPositive, DelaysAssumption
<1>. QED  BY <1>1, SatAddBounds DEF TimerDeadline

\* next_wakeup is the earliest of the deadlines.
LEMMA WakeupIsEarliest ==
  ASSUME me \in Positions, NEW r \in ReplicaState
  PROVE  /\ Wakeups(r) \subseteq Time
         /\ NextWakeup(r) \in Wakeups(r) /\ \A e \in Wakeups(r) : NextWakeup(r) <= e
<1>1. SlotDeadlines(r) \subseteq Time
  <2>1. ASSUME NEW s \in Slot
        PROVE  /\ TimerDeadline(r.slots[s].since, Retransmit) \in Time
               /\ HedgeDeadline(me, r.slots[s].since) \in Time
    BY SlotTyped, TimerDeadlineTyped, HedgeDeadlineTyped, PositionTyped
  <2>. QED  BY <2>1 DEF SlotDeadlines, In
<1>2. FrontierDeadlines(r) \subseteq Time
  BY StateTyped, SlotsAreNumbers DEF FrontierDeadlines
<1>3. ForwardDeadlines(r) \subseteq Time
  <2>1. ASSUME NEW c \in Command PROVE TimerDeadline(r.pool[c].forwarded, ForwardInterval) \in Time
    BY EntryTyped, TimerDeadlineTyped
  <2>2. OwnWaiting(r) \subseteq Command
    BY DEF OwnWaiting, Unassigned
  <2>. QED  BY <2>1, <2>2 DEF ForwardDeadlines
<1>4. LearnDeadlines(r) \subseteq Time
  <2>1. ASSUME NEW sent \in r.learnSent PROVE TimerDeadline(sent, Retransmit) \in Time
    BY StateTyped, TimerDeadlineTyped
  <2>. QED  BY <2>1, SlotsAreNumbers DEF LearnDeadlines
<1>5. TimerDeadline(r.lastPing, PingInterval) \in Time
  BY StateTyped, TimerDeadlineTyped
<1>6. Wakeups(r) \subseteq Time /\ Wakeups(r) # {}
  BY <1>1, <1>2, <1>3, <1>4, <1>5 DEF Wakeups
<1>7. Wakeups(r) \subseteq Nat
  BY <1>6, SlotsAreNumbers
<1>8. \E k \in Wakeups(r) : \A m \in Wakeups(r) : k <= m
  BY <1>6, <1>7, SmallestNumber
<1>. QED  BY <1>6, <1>8 DEF NextWakeup

\* What has been served has its next deadline ahead of the clock.
LEMMA ServedWakeupsAhead ==
  ASSUME me \in Positions, NEW t \in Time, t < MaxTime, NEW r, Stamped(r, t), AllServed(r, t)
  PROVE  \A d \in Wakeups(r) : d > t
<1>1. r \in ReplicaState /\ t \in Nat
  BY SlotsAreNumbers DEF Stamped
<1>2. ASSUME NEW s \in In(r, "running") PROVE TimerDeadline(r.slots[s].since, Retransmit) > t
  <2>1. s \in Slot
    BY DEF In
  <2>2. r.slots[s].since \in Time
    BY <1>1, <2>1, SlotTyped
  <2>. QED  BY <1>2, <2>2, ServedIsAhead DEF AllServed
<1>3. ASSUME NEW s \in In(r, "idle") PROVE HedgeDeadline(me, r.slots[s].since) > t
  <2>1. s \in Slot
    BY DEF In
  <2>2. HedgeDeadline(me, r.slots[s].since) \in Nat
    BY <1>1, <2>1, SlotTyped, HedgeDeadlineTyped, PositionTyped, SlotsAreNumbers
  <2>3. ~(t >= HedgeDeadline(me, r.slots[s].since))
    BY <1>3 DEF AllServed, HedgeDue
  <2>. QED  BY <1>1, <2>2, <2>3
<1>4. \A d \in SlotDeadlines(r) : d > t
  BY <1>2, <1>3 DEF SlotDeadlines
<1>5. FrontierDeadlines(r) = {}
  BY DEF AllServed, FrontierDeadlines
<1>6. \A d \in ForwardDeadlines(r) : d > t
  <2>1. ASSUME NEW c \in OwnWaiting(r)
        PROVE  TimerDeadline(r.pool[c].forwarded, ForwardInterval) > t
    <3>1. c \in Command
      BY DEF OwnWaiting, Unassigned
    <3>2. r.pool[c].forwarded \in Time
      BY <1>1, <3>1, EntryTyped
    <3>. QED  BY <2>1, <3>2, ServedIsAhead DEF AllServed
  <2>. QED  BY <2>1 DEF ForwardDeadlines
<1>7. \A d \in LearnDeadlines(r) : d > t
  <2>1. CASE r.learnSent # {}
    <3>1. ASSUME NEW sent \in r.learnSent PROVE TimerDeadline(sent, Retransmit) > t
      <4>1. sent \in Time
        BY <1>1, StateTyped
      <4>. QED  BY <3>1, <4>1, ServedIsAhead DEF AllServed
    <3>. QED  BY <2>1, <3>1 DEF LearnDeadlines
  <2>2. CASE r.learnSent = {}
    <3>1. ~(r.heard > r.contig)
      <4>1. r.heard \in Nat /\ r.contig \in Nat
        BY <1>1, StateTyped
      <4>. QED  BY <2>2, <4>1 DEF AllServed
    <3>. QED  BY <2>2, <3>1 DEF LearnDeadlines
  <2>. QED  BY <2>1, <2>2
<1>8. TimerDeadline(r.lastPing, PingInterval) > t
  <2>1. r.lastPing \in Time
    BY <1>1, StateTyped
  <2>. QED  BY <2>1, ServedIsAhead DEF AllServed
<1>. QED  BY <1>4, <1>5, <1>6, <1>7, <1>8 DEF Wakeups

\* Before a deadline its timer is not due.
LEMMA NotDueBefore ==
  ASSUME NEW t \in Time, NEW last \in Time,
         NEW delay \in {Retransmit, ForwardInterval, PingInterval},
         TimerDeadline(last, delay) > t
  PROVE  ~TimerDue(t, last, delay)
<1>1. delay \in Nat \ {0} /\ TimerDeadline(last, delay) \in Time
  BY TimerDeadlineTyped
<1>2. t < MaxTime
  BY <1>1, DelaysAssumption DEF Time
<1>3. TimerDue(t, last, delay) <=> t >= TimerDeadline(last, delay)
  BY <1>1, <1>2, DueFromDeadlineOn
<1>4. TimerDeadline(last, delay) \in Nat /\ t \in Nat
  BY <1>1, SlotsAreNumbers
<1>. QED  BY <1>3, <1>4

\* With every deadline ahead, each part of tick leaves the state alone.
LEMMA NothingToServe ==
  ASSUME me \in Positions, NEW t \in Time, NEW r, Good(r, t), \A d \in Wakeups(r) : d > t
  PROVE  Ticked(r, t) = r
<1>1. Stamped(r, t) /\ PendingReal(r) /\ r \in ReplicaState /\ t \in Nat
  BY SlotsAreNumbers DEF Good, Stamped
<1>2. FrontierObserved(r, t) = r
  <2>1. ASSUME FrontierMissing(r), r.pendingSince # {} PROVE FALSE
    <3>1. PICK u \in r.pendingSince : TRUE
      BY <2>1
    <3>2. u \in Wakeups(r)
      BY <2>1, <3>1 DEF Wakeups, FrontierDeadlines
    <3>3. u <= t /\ u \in Nat
      BY <1>1, <3>1, StateTyped, SlotsAreNumbers DEF Stamped
    <3>. QED  BY <1>1, <3>2, <3>3
  <2>2. ASSUME FrontierMissing(r), r.pendingSince = {}, SlotsBeyond(r) PROVE FALSE
    <3>1. 0 \in Wakeups(r)
      BY <2>2 DEF Wakeups, FrontierDeadlines
    <3>. QED  BY <1>1, <3>1
  <2>. QED  BY <1>1, <2>1, <2>2, FrontierObservedFits
<1>3. HedgesActivated(r, t) = r
  <2>1. ASSUME NEW s \in In(r, "idle") PROVE ~HedgeDue(t, me, r.slots[s].since)
    <3>1. HedgeDeadline(me, r.slots[s].since) \in Wakeups(r)
      BY <2>1 DEF Wakeups, SlotDeadlines
    <3>2. HedgeDeadline(me, r.slots[s].since) \in Nat
      BY <1>1, <3>1, WakeupIsEarliest, SlotsAreNumbers
    <3>3. HedgeDeadline(me, r.slots[s].since) > t
      BY <3>1
    <3>. QED  BY <1>1, <3>2, <3>3 DEF HedgeDue
  <2>. QED  BY <1>1, <2>1, HedgesActivatedFits
<1>4. Opened(r, t) = r
  <2>1. CASE me = Leader
    BY <1>1, <2>1, OpenedFits DEF Good
  <2>2. CASE me # Leader
    BY <2>2 DEF Opened
  <2>. QED  BY <2>1, <2>2
<1>5. Retransmitted(r, t) = r
  <2>1. ASSUME NEW s \in In(r, "running") PROVE ~TimerDue(t, r.slots[s].since, Retransmit)
    <3>1. TimerDeadline(r.slots[s].since, Retransmit) \in Wakeups(r)
      BY <2>1 DEF Wakeups, SlotDeadlines
    <3>2. s \in Slot
      BY DEF In
    <3>3. r.slots[s].since \in Time
      BY <1>1, <3>2, SlotTyped
    <3>. QED  BY <3>1, <3>3, NotDueBefore
  <2>. QED  BY <1>1, <2>1, RetransmittedFits
<1>6. Reforwarded(r, t) = r
  <2>1. ASSUME NEW c \in OwnWaiting(r) PROVE ~TimerDue(t, r.pool[c].forwarded, ForwardInterval)
    <3>1. TimerDeadline(r.pool[c].forwarded, ForwardInterval) \in Wakeups(r)
      BY <2>1 DEF Wakeups, ForwardDeadlines
    <3>2. c \in Command
      BY DEF OwnWaiting, Unassigned
    <3>3. r.pool[c].forwarded \in Time
      BY <1>1, <3>2, EntryTyped
    <3>. QED  BY <3>1, <3>3, NotDueBefore
  <2>. QED  BY <1>1, <2>1, ReforwardedFits
<1>7. LearnTicked(r, t) = r
  <2>1. ASSUME NEW sent \in r.learnSent PROVE ~TimerDue(t, sent, Retransmit)
    <3>1. TimerDeadline(sent, Retransmit) \in Wakeups(r)
      BY <2>1 DEF Wakeups, LearnDeadlines
    <3>2. sent \in Time
      BY <1>1, StateTyped
    <3>. QED  BY <3>1, <3>2, NotDueBefore
  <2>2. ASSUME r.learnSent = {} PROVE r.heard <= r.contig
    <3>1. ASSUME r.heard > r.contig PROVE FALSE
      <4>1. 0 \in Wakeups(r)
        BY <2>2, <3>1 DEF Wakeups, LearnDeadlines
      <4>. QED  BY <1>1, <4>1
    <3>2. r.heard \in Nat /\ r.contig \in Nat
      BY <1>1, StateTyped
    <3>. QED  BY <3>1, <3>2
  <2>. QED  BY <1>1, <2>1, <2>2, LearnTickedFits
<1>8. Pinged(r, t) = r
  <2>1. TimerDeadline(r.lastPing, PingInterval) \in Wakeups(r) /\ r.lastPing \in Time
    BY <1>1, StateTyped DEF Wakeups
  <2>2. ~TimerDue(t, r.lastPing, PingInterval)
    BY <2>1, NotDueBefore
  <2>. QED  BY <1>1, <2>2, PingedFits
<1>. QED  BY <1>2, <1>3, <1>4, <1>5, <1>6, <1>7, <1>8 DEF Ticked

-----------------------------------------------------------------------------
(* Actions. *)

LEMMA InvIsGood ==
  ASSUME Inv
  PROVE  me \in Positions /\ me \in Nat /\ now \in Time /\ now \in Nat /\ Good(rep, now)
<1>1. me \in Positions /\ now \in Time /\ rep \in ReplicaState
  BY DEF Inv, TypeOK
<1>2. AtMostOne(rep.pendingSince) /\ AtMostOne(rep.learnSent)
  <2>1. rep.pendingSince \in SUBSET Time /\ rep.learnSent \in SUBSET Time
    BY <1>1, StateTyped
  <2>. QED  BY <2>1, OptionCardinality DEF Inv, TypeOK
<1>3. Stamped(rep, now)
  BY <1>1, <1>2 DEF Stamped, Inv, TypeOK
<1>4. PendingReal(rep) /\ (me = Leader => Openable(rep) = {})
  BY DEF Inv, PendingIsReal, PendingReal, NothingToOpen
<1>. QED  BY <1>1, <1>3, <1>4, PositionTyped, SlotsAreNumbers DEF Good

\* The position never changes, so the operators mean the same after a step.
LEMMA SamePosition ==
  ASSUME me' = me
  PROVE  /\ Command' = Command /\ ReplicaState' = ReplicaState
         /\ Unassigned(rep)' = Unassigned(rep') /\ Openable(rep)' = Openable(rep')
<1>1. Command' = Command
  BY DEF Command
<1>2. ReplicaState' = ReplicaState
  BY <1>1 DEF ReplicaState
<1>3. Unassigned(rep)' = Unassigned(rep')
  BY <1>1 DEF Unassigned
<1>4. Batchable(rep)' = Batchable(rep')
  BY <1>3 DEF Batchable, HighWater
<1>5. \A k : Batch(rep, k)' = Batch(rep', k)
  BY <1>4 DEF Batch
<1>6. Openable(rep)' = Openable(rep')
  <2>1. FirstToOpen(rep)' = FirstToOpen(rep')
    BY DEF FirstToOpen, Known
  <2>2. In(rep, "running")' = In(rep', "running")
    BY DEF In
  <2>. QED  BY <1>5, <2>1, <2>2 DEF Openable
<1>. QED  BY <1>1, <1>2, <1>3, <1>6

\* The idle slots of S have their schedule restarted at the time t.
Restarted(r, S, t) == \A s \in S : r.slots[s].phase = "idle" => r.slots[s].since = t

\* An input or a tick leaves the invariant when what it makes of the replica is
\* good, and the slots whose schedule it restarts have had their register changed.
LEMMA MoveKeepsInv ==
  ASSUME Inv, NEW r, NEW S, Good(r, now), Onward(rep, r, S, now), Restarted(r, S, now), Move(r, S)
  PROVE  Inv'
<1>1. /\ me \in Positions /\ me \in Nat /\ now \in Time /\ now \in Nat /\ Good(rep, now)
      /\ rep \in ReplicaState /\ quiet \in [Slot -> 0..now]
  BY InvIsGood DEF Inv, TypeOK
<1>2. /\ rep' = r /\ now' = now /\ me' = me
      /\ quiet' = [s \in Slot |-> IF s \in S \cup (Known(r) \ Known(rep)) THEN now ELSE quiet[s]]
  BY DEF Move
<1>3. /\ r \in ReplicaState /\ Stamped(r, now)
      /\ r.pendingSince \in SUBSET Time /\ r.learnSent \in SUBSET Time
  BY StateTyped DEF Good, Stamped
<1>4. quiet' \in [Slot -> 0..now]
  BY <1>1, <1>2
<1>5. TypeOK'
  <2>1. Cardinality(r.pendingSince) <= 1 /\ Cardinality(r.learnSent) <= 1
    BY <1>3, OptionCardinality DEF Stamped
  <2>2. rep' \in ReplicaState'
    BY <1>2, <1>3, SamePosition
  <2>. QED  BY <1>1, <1>2, <1>3, <1>4, <2>1, <2>2 DEF TypeOK, Stamped
<1>6. PendingIsReal'
  BY <1>2, SamePosition DEF PendingIsReal, Good, PendingReal
<1>7. NothingToOpen'
  BY <1>2, SamePosition DEF NothingToOpen, Good
<1>8. ASSUME NEW s \in In(r, "idle")
      PROVE  /\ s \in Slot /\ r.slots[s].since = quiet'[s]
             /\ now <= quiet'[s] + me * Hedge
  <2>1. s \in Slot /\ s > r.contig /\ r.slots[s].phase = "idle" /\ s \in Nat
    BY SlotsAreNumbers DEF In
  <2>2. me * Hedge \in Nat
    BY <1>1, HedgeDeadlineTyped, SlotsAreNumbers
  <2>3. CASE s \in S \cup (Known(r) \ Known(rep))
    <3>1. quiet'[s] = now
      BY <1>2, <2>1, <2>3
    <3> DEFINE h == me * Hedge
    <3>. HIDE DEF h
    <3>2. now <= now + h
      BY <1>1, <2>2 DEF h
    <3>3. r.slots[s].since = now
      <4>1. CASE s \in S
        BY <2>1, <4>1 DEF Restarted
      <4>2. CASE s \in Known(r) \ Known(rep)
        <5>1. rep.slots[s].phase = "none"
          BY <2>1, <4>2 DEF Known
        <5>. QED  BY <2>1, <5>1 DEF Onward
      <4>. QED  BY <2>3, <4>1, <4>2
    <3>. QED  BY <2>1, <3>1, <3>2, <3>3 DEF h
  <2>4. CASE s \notin S \cup (Known(r) \ Known(rep))
    <3>1. quiet'[s] = quiet[s]
      BY <1>2, <2>1, <2>4
    <3>2. s \in Known(rep) /\ s \in Slot \ S
      BY <2>1, <2>4 DEF Known
    <3>3. r.slots[s] = rep.slots[s]
      BY <2>1, <3>2 DEF Onward, Known
    <3>4. s \in In(rep, "idle")
      <4>1. rep.contig <= r.contig /\ rep.contig \in Nat /\ r.contig \in Nat
        BY <1>1, <1>3, StateTyped DEF Onward
      <4>. QED  BY <2>1, <3>3, <4>1 DEF In
    <3>. QED  BY <2>1, <3>1, <3>3, <3>4 DEF Inv, IdleSinceLastChange, RescueInTime
  <2>. QED  BY <2>1, <2>3, <2>4
<1>9. In(rep, "idle")' = In(r, "idle")
  BY <1>2 DEF In
<1>10. IdleSinceLastChange'
  BY <1>2, <1>8, <1>9 DEF IdleSinceLastChange
<1>11. RescueInTime'
  BY <1>2, <1>8, <1>9 DEF RescueInTime
<1>. QED  BY <1>5, <1>6, <1>7, <1>10, <1>11 DEF Inv

\* Time passes only up to the next wakeup, which is no later than the hedging
\* deadline of any idle slot.
LEMMA ElapseKeepsInv ==
  ASSUME Inv, Elapse
  PROVE  Inv'
<1>1. /\ me \in Positions /\ me \in Nat /\ now \in Time /\ now \in Nat
      /\ rep \in ReplicaState /\ quiet \in [Slot -> 0..now]
  BY InvIsGood DEF Inv, TypeOK
<1>2. now' = now + 1 /\ rep' = rep /\ me' = me /\ quiet' = quiet /\ now < NextWakeup(rep)
  BY DEF Elapse
<1>3. now' \in Time /\ now <= now' /\ now' \in Nat
  <2>1. NextWakeup(rep) \in Time
    BY <1>1, WakeupIsEarliest
  <2>. QED  BY <1>1, <1>2, <2>1, DelaysAssumption DEF Time
<1>4. TypeOK'
  <2>1. rep' \in ReplicaState'
    BY <1>1, <1>2, SamePosition
  <2>2. quiet' \in [Slot -> 0..now']
    BY <1>1, <1>2, <1>3
  <2>3. \A s \in Slot : rep.slots[s].since <= now'
    <3>. TAKE s \in Slot
    <3>1. rep.slots[s].since <= now /\ rep.slots[s].since \in Nat
      BY <1>1, SlotTyped, SlotsAreNumbers DEF Inv, TypeOK
    <3>. QED  BY <1>1, <1>3, <3>1
  <2>4. \A t \in rep.pendingSince \cup rep.learnSent \cup {rep.lastPing} : t <= now'
    <3>. TAKE t \in rep.pendingSince \cup rep.learnSent \cup {rep.lastPing}
    <3>1. t <= now /\ t \in Nat
      BY <1>1, StateTyped, SlotsAreNumbers DEF Inv, TypeOK
    <3>. QED  BY <1>1, <1>3, <3>1
  <2>. QED  BY <1>1, <1>2, <1>3, <2>1, <2>2, <2>3, <2>4 DEF TypeOK, Inv
<1>5. PendingIsReal' /\ NothingToOpen'
  BY <1>2, SamePosition DEF Inv, PendingIsReal, NothingToOpen
<1>6. In(rep, "idle")' = In(rep, "idle")
  BY <1>2 DEF In
<1>7. IdleSinceLastChange'
  BY <1>2, <1>6 DEF Inv, IdleSinceLastChange
<1>8. ASSUME NEW s \in In(rep, "idle") PROVE now + 1 <= quiet[s] + me * Hedge
  <2> DEFINE b == rep.slots[s].since
             h == me * Hedge
  <2>1. s \in Slot /\ b \in Time /\ b \in Nat
    <3>1. s \in Slot
      BY DEF In
    <3>. QED  BY <1>1, <3>1, SlotTyped, SlotsAreNumbers
  <2>2. HedgeDeadline(me, b) \in Wakeups(rep)
    BY <1>8 DEF Wakeups, SlotDeadlines
  <2>3. NextWakeup(rep) <= HedgeDeadline(me, b) /\ NextWakeup(rep) \in Nat
    BY <1>1, <2>2, WakeupIsEarliest, SlotsAreNumbers
  <2>4. HedgeDeadline(me, b) \in Nat /\ HedgeDeadline(me, b) <= b + h /\ h \in Nat
    BY <1>1, <2>1, HedgeDeadlineTyped, SlotsAreNumbers
  <2>5. b <= quiet[s] /\ quiet[s] \in Nat
    BY <1>1, <1>8, <2>1 DEF Inv, IdleSinceLastChange
  <2>. HIDE DEF b, h
  <2>. QED  BY <1>1, <1>2, <2>1, <2>3, <2>4, <2>5 DEF h
<1>9. RescueInTime'
  BY <1>2, <1>6, <1>8 DEF RescueInTime
<1>. QED  BY <1>4, <1>5, <1>7, <1>9 DEF Inv

LEMMA TickKeepsInv ==
  ASSUME Inv, Tick
  PROVE  Inv'
<1> DEFINE r == Ticked(rep, now)
<1>1. Good(r, now) /\ Onward(rep, r, {}, now)
  BY InvIsGood, TickedServes
<1>2. Move(r, {})
  BY DEF Tick
<1>3. Restarted(r, {}, now)
  BY DEF Restarted
<1>. HIDE DEF r
<1>. QED  BY <1>1, <1>2, <1>3, MoveKeepsInv

\* The pool once the commands C have come into it.
WithWaiting(r, C, t) == [c \in Command |-> IF c \in C THEN Waiting(t) ELSE r.pool[c]]

\* Commands come into the pool.
LEMMA WaitingFits ==
  ASSUME NEW t \in Time, NEW r, Stamped(r, t), NEW n \in Nat, NEW C
  PROVE  LET q == [r EXCEPT !.nextSeq = n, !.pool = WithWaiting(r, C, t)]
         IN  Stamped(q, t) /\ Onward(r, q, {}, t)
<1> DEFINE pool == WithWaiting(r, C, t)
           q == [r EXCEPT !.nextSeq = n, !.pool = pool]
<1>1. r \in ReplicaState
  BY DEF Stamped
<1>2. pool \in [Command -> PoolEntry]
  <2>1. Waiting(t) \in PoolEntry
    BY SlotsAreNumbers DEF Waiting, PoolEntry
  <2>2. \A c \in Command : (IF c \in C THEN Waiting(t) ELSE r.pool[c]) \in PoolEntry
    BY <1>1, <2>1, StateTyped
  <2>. QED  BY <2>2 DEF WithWaiting
<1>. HIDE DEF pool
<1>4. /\ q \in ReplicaState /\ q.slots = r.slots /\ q.contig = r.contig
      /\ q.pendingSince = r.pendingSince /\ q.learnSent = r.learnSent /\ q.lastPing = r.lastPing
  BY <1>1, <1>2 DEF ReplicaState
<1>. HIDE DEF q
<1>5. Stamped(q, t)
  BY <1>4 DEF Stamped
<1>6. Onward(r, q, {}, t)
  BY <1>1, <1>4, StateTyped DEF Onward, Known
<1>. QED  BY <1>5, <1>6 DEF q, pool

LEMMA SubmitKeepsInv ==
  ASSUME Inv, Submit
  PROVE  Inv'
<1> DEFINE c == [origin |-> me, seq |-> rep.nextSeq + 1]
           pool == WithWaiting(rep, {c}, now)
           a == [rep EXCEPT !.nextSeq = rep.nextSeq + 1, !.pool = pool]
           r == Refreshed(Opened(a, now), now)
<1>1. me \in Positions /\ now \in Time /\ Stamped(rep, now) /\ rep \in ReplicaState
  BY InvIsGood DEF Good, Stamped
<1>2. c \in Command /\ Move(r, {})
  <2>1. c \in Command
    BY DEF Submit
  <2>2. [rep.pool EXCEPT ![c] = Waiting(now)] = pool
    <3>. HIDE DEF c
    <3>. QED  BY <1>1, <2>1, StateTyped DEF WithWaiting
  <2>. HIDE DEF pool
  <2>3. a = [rep EXCEPT !.nextSeq = rep.nextSeq + 1, !.pool[c] = Waiting(now)]
    BY <2>2
  <2>. HIDE DEF a
  <2>. QED  BY <2>1, <2>3 DEF Submit
<1>3. rep.nextSeq + 1 \in Nat
  BY <1>1, StateTyped
<1>4. Stamped(a, now) /\ Onward(rep, a, {}, now)
  <2>. HIDE DEF c
  <2>. QED  BY <1>1, <1>3, WaitingFits
<1>. HIDE DEF a
<1>5. Good(r, now) /\ Onward(a, r, {}, now)
  BY <1>1, <1>4, RefreshedOpenedGood
<1>. HIDE DEF r
<1>6. Onward(rep, r, {}, now)
  BY <1>1, <1>4, <1>5, OnwardOn DEF Good, Stamped
<1>7. Restarted(r, {}, now)
  BY DEF Restarted
<1>. QED  BY <1>2, <1>5, <1>6, <1>7, MoveKeepsInv

\* receive: the end of every message handler.
LEMMA ReceiveKeepsInv ==
  ASSUME Inv, NEW r, NEW w, NEW S, Good(r, now), Onward(rep, r, S, now),
         Restarted(r, S, now), Receive(r, w, S)
  PROVE  Inv'
<1> DEFINE q == LearnAsked(r, w, now)
<1>1. now \in Time /\ rep \in ReplicaState /\ Stamped(r, now) /\ r \in ReplicaState
  BY InvIsGood DEF Good, Stamped
<1>2. /\ Stamped(q, now) /\ SameWork(r, q) /\ Onward(r, q, {}, now)
      /\ q.pendingSince = r.pendingSince
  BY <1>1, LearnAskedFits
<1>3. Move(q, S)
  BY DEF Receive
<1>. HIDE DEF q
<1>4. Good(q, now)
  BY <1>1, <1>2, SameWorkGood
<1>5. Onward(r, q, S, now)
  BY <1>2 DEF Onward
<1>6. Onward(rep, q, S, now)
  BY <1>1, <1>2, <1>5, OnwardOn DEF Stamped
<1>7. Restarted(q, S, now)
  <2>1. ASSUME NEW s \in S, q.slots[s].phase = "idle" PROVE q.slots[s].since = now
    <3>1. q.slots = r.slots
      BY <1>1 DEF q, LearnAsked, ReplicaState
    <3>. QED  BY <2>1, <3>1 DEF Restarted
  <2>. QED  BY <2>1 DEF Restarted
<1>. QED  BY <1>3, <1>4, <1>6, <1>7, MoveKeepsInv

LEMMA HeadedGood ==
  ASSUME Inv, NEW w \in 0..MaxSlot
  PROVE  LET q == Headed(rep, w)
         IN  /\ Good(q, now) /\ Onward(rep, q, {}, now) /\ q.slots = rep.slots
             /\ q.contig = rep.contig /\ q.nextSeq = rep.nextSeq
<1> DEFINE h == IF rep.heard < w THEN w ELSE rep.heard
           q == Headed(rep, w)
<1>1. now \in Time /\ Good(rep, now) /\ Stamped(rep, now) /\ rep \in ReplicaState
  BY InvIsGood DEF Good, Stamped
<1>2. h \in 0..MaxSlot
  BY <1>1, StateTyped
<1>3. q = [rep EXCEPT !.heard = h]
  BY DEF Headed
<1>. HIDE DEF h, q
<1>4. /\ q \in ReplicaState /\ q.slots = rep.slots /\ q.contig = rep.contig /\ q.pool = rep.pool
      /\ q.maxOpen = rep.maxOpen /\ q.delivered = rep.delivered /\ q.nextSeq = rep.nextSeq
      /\ q.pendingSince = rep.pendingSince /\ q.learnSent = rep.learnSent
      /\ q.lastPing = rep.lastPing
  BY <1>1, <1>2, <1>3 DEF ReplicaState
<1>5. Stamped(q, now) /\ SameWork(rep, q)
  BY <1>1, <1>4 DEF Stamped, SameWork
<1>6. Good(q, now)
  BY <1>1, <1>4, <1>5, SameWorkGood
<1>7. Onward(rep, q, {}, now)
  BY <1>1, <1>4, StateTyped DEF Onward, Known
<1>. QED  BY <1>4, <1>6, <1>7 DEF q

LEMMA HeardKeepsInv ==
  ASSUME Inv, NEW w \in 0..MaxSlot, Heard(w)
  PROVE  Inv'
<1> DEFINE q == Headed(rep, w)
<1>1. Good(q, now) /\ Onward(rep, q, {}, now)
  BY HeadedGood
<1>2. Receive(q, w, {})
  BY DEF Heard
<1>. HIDE DEF q
<1>3. Restarted(q, {}, now)
  BY DEF Restarted
<1>. QED  BY <1>1, <1>2, <1>3, ReceiveKeepsInv

LEMMA OnForwardKeepsInv ==
  ASSUME Inv, NEW w \in 0..MaxSlot, OnForward(w)
  PROVE  Inv'
<1> DEFINE q == Headed(rep, w)
<1>1. /\ me \in Positions /\ now \in Time /\ Good(q, now) /\ Stamped(q, now)
      /\ Onward(rep, q, {}, now) /\ q \in ReplicaState /\ rep \in ReplicaState
  BY InvIsGood, HeadedGood DEF Good, Stamped
<1>2. PICK C \in SUBSET Command :
        Receive(Opened(Refreshed([q EXCEPT !.pool = WithWaiting(q, C, now)], now), now), w, {})
  <2>1. PICK C \in SUBSET Command :
          Receive(Opened(Refreshed(
            [q EXCEPT !.pool = [c \in Command |-> IF c \in C THEN Waiting(now) ELSE @[c]]],
            now), now), w, {})
    BY DEF OnForward
  <2>. HIDE DEF q
  <2>. QED  BY <2>1 DEF WithWaiting
<1>. HIDE DEF q
<1> DEFINE pool == WithWaiting(q, C, now)
           a == [q EXCEPT !.nextSeq = q.nextSeq, !.pool = pool]
           r == Opened(Refreshed(a, now), now)
<1>3. a = [q EXCEPT !.pool = pool]
  <2>. HIDE DEF pool
  <2>. QED  BY <1>1 DEF ReplicaState
<1>4. Stamped(a, now) /\ Onward(q, a, {}, now)
  <2>1. q.nextSeq \in Nat
    BY <1>1, StateTyped
  <2>. QED  BY <1>1, <2>1, WaitingFits
<1>5. Receive(r, w, {})
  <2>. HIDE DEF a
  <2>. QED  BY <1>2, <1>3
<1>. HIDE DEF a
<1>6. Good(r, now) /\ Onward(a, r, {}, now)
  BY <1>1, <1>4, OpenedRefreshedGood
<1>. HIDE DEF r
<1>7. Onward(rep, r, {}, now)
  <2>1. a \in ReplicaState /\ r \in ReplicaState
    BY <1>4, <1>6 DEF Good, Stamped
  <2>2. Onward(rep, a, {}, now)
    BY <1>1, <1>4, <2>1, OnwardOn
  <2>. QED  BY <1>1, <1>6, <2>1, <2>2, OnwardOn
<1>8. Restarted(r, {}, now)
  BY DEF Restarted
<1>. QED  BY <1>5, <1>6, <1>7, <1>8, ReceiveKeepsInv

\* A slot changes its timestamp, or becomes idle if it was unknown: that gives
\* the leader nothing to open.
LEMMA TouchedGood ==
  ASSUME me \in Positions, NEW t \in Time, NEW r, Good(r, t), NEW s \in Slot, NEW p,
         p = IF r.slots[s].phase = "none" THEN "idle" ELSE r.slots[s].phase
  PROVE  LET q == [r EXCEPT !.slots[s] = [phase |-> p, since |-> t]]
         IN  /\ Good(q, t) /\ Onward(r, q, {s}, t)
             /\ p # "idle" => Onward(r, q, {}, t)
<1> DEFINE slots == [r.slots EXCEPT ![s] = [phase |-> p, since |-> t]]
           q == [r EXCEPT !.slots = slots]
<1>1. r \in ReplicaState /\ Stamped(r, t) /\ t <= t
  BY SlotsAreNumbers DEF Good, Stamped
<1>2. p \in {"idle", "running", "decided"}
  BY <1>1, SlotTyped
<1>3. slots \in [Slot -> SlotState]
  <2>1. [phase |-> p, since |-> t] \in SlotState
    BY <1>2 DEF SlotState
  <2>. QED  BY <1>1, <2>1, StateTyped
<1>4. \A u \in Slot : slots[u] = IF u = s THEN [phase |-> p, since |-> t] ELSE r.slots[u]
  BY <1>1, StateTyped
<1>5. q = [r EXCEPT !.slots[s] = [phase |-> p, since |-> t]]
  OBVIOUS
<1>. HIDE DEF slots
<1>6. /\ q \in ReplicaState /\ q.slots = slots /\ q.contig = r.contig /\ q.pool = r.pool
      /\ q.maxOpen = r.maxOpen /\ q.delivered = r.delivered
      /\ q.pendingSince = r.pendingSince /\ q.learnSent = r.learnSent /\ q.lastPing = r.lastPing
  BY <1>1, <1>3 DEF ReplicaState
<1>. HIDE DEF q
<1>7. Stamped(q, t)
  <2>1. \A u \in Slot : q.slots[u].since <= t
    BY <1>1, <1>4, <1>6 DEF Stamped
  <2>. QED  BY <1>1, <1>6, <2>1 DEF Stamped
<1>8. Known(r) \subseteq Known(q) /\ In(q, "running") = In(r, "running")
  BY <1>2, <1>4, <1>6 DEF Known, In
<1>9. Unassigned(q) = Unassigned(r) /\ Batchable(q) = Batchable(r)
  <2>1. Unassigned(q) = Unassigned(r)
    BY <1>6 DEF Unassigned
  <2>2. \A o : HighWater(q, o) = HighWater(r, o)
    BY <1>6 DEF HighWater
  <2>. QED  BY <2>1, <2>2 DEF Batchable
<1>10. \A k : Batch(q, k) = Batch(r, k)
  BY <1>9 DEF Batch
<1>11. ASSUME NEW u \in Openable(q) PROVE Openable(r) # {}
  <2> DEFINE f == FirstToOpen(r)
             g == FirstToOpen(q)
             k == u - g + 1
             c == Cardinality(In(r, "running"))
  <2>1. u \in Slot /\ u \in Nat /\ u <= MaxSlot
    BY SlotsAreNumbers DEF Openable
  <2>2. k >= 1 /\ CanOpen(q, k) /\ k \in Int /\ g + k - 1 = u
    BY <1>6, <1>11, <2>1, OpenableIs
  <2>3. f \in Nat /\ 1 <= f /\ f - 1 \in CountedFrom(r)
    BY <1>1, FirstIsAfterCounted
  <2>4. g \in Nat /\ \A v \in CountedFrom(q) : v < g
    BY <1>6, FirstIsAfterCounted
  <2>5. f <= g
    <3>1. f - 1 \in CountedFrom(q)
      BY <1>6, <1>8, <2>3 DEF CountedFrom
    <3>2. f - 1 < g
      BY <2>4, <3>1
    <3>. HIDE DEF f, g
    <3>. QED  BY <2>3, <2>4, <3>2
  <2>6. c \in Nat /\ Pipeline \in Nat /\ r.contig \in Nat /\ MaxSlot \in Nat
    BY <1>1, RunningAreFew, StateTyped, SlotsAreNumbers
  <2>7. g + k - 1 <= r.contig + Pipeline /\ c + k <= Pipeline /\ Batch(r, k) # {}
    BY <1>6, <1>8, <1>10, <2>2 DEF CanOpen
  <2>. HIDE DEF f, g, k, c
  <2>8. f \in Slot /\ f + 1 - 1 <= r.contig + Pipeline /\ c + 1 <= Pipeline
        /\ f - f + 1 = 1 /\ k \in Nat /\ 1 >= 1
    <3>1. f <= u
      BY <2>1, <2>2, <2>3, <2>4, <2>5
    <3>2. f \in Slot
      BY <2>1, <2>3, <3>1, SlotsAreNumbers
    <3>3. f + 1 - 1 <= r.contig + Pipeline /\ c + 1 <= Pipeline
      BY <2>1, <2>2, <2>3, <2>6, <2>7, <3>1
    <3>. QED  BY <2>2, <2>3, <3>2, <3>3
  <2>9. Batch(r, 1) # {}
    BY <2>2, <2>7, <2>8, BatchesInOrder
  <2>10. CanOpen(r, 1)
    BY <2>8, <2>9 DEF CanOpen, f, c
  <2>11. f \in Openable(r)
    BY <1>1, <2>8, <2>10, OpenableIs DEF f
  <2>. QED  BY <2>11
<1>12. Good(q, t)
  BY <1>6, <1>7, <1>9, <1>11 DEF Good, PendingReal
<1>13. Onward(r, q, {s}, t)
  <2>1. r.contig <= q.contig
    BY <1>1, <1>6, StateTyped
  <2>. QED  BY <1>4, <1>6, <1>8, <2>1 DEF Onward
<1>14. p # "idle" => Onward(r, q, {}, t)
  BY <1>4, <1>6, <1>13 DEF Onward
<1>. QED  BY <1>5, <1>12, <1>13, <1>14 DEF q

\* on_record.
LEMMA OnRecordKeepsInv ==
  ASSUME Inv, NEW w \in 0..MaxSlot, OnRecord(w)
  PROVE  Inv'
<1> DEFINE q == Headed(rep, w)
<1>1. PICK s \in Slot :
        \E changed \in BOOLEAN :
          /\ s > rep.contig /\ rep.slots[s].phase # "decided"
          /\ s \notin Known(rep) => changed
          /\ Receive(Progressed(RecordSeen(q, s), s, changed), w, IF changed THEN {s} ELSE {})
  BY DEF OnRecord
<1>2. PICK changed \in BOOLEAN :
        /\ s \notin Known(rep) => changed
        /\ Receive(Progressed(RecordSeen(q, s), s, changed), w, IF changed THEN {s} ELSE {})
  BY <1>1
<1>3. /\ me \in Positions /\ now \in Time /\ Good(q, now) /\ Onward(rep, q, {}, now)
      /\ q.slots = rep.slots /\ q \in ReplicaState /\ rep \in ReplicaState
  BY InvIsGood, HeadedGood DEF Good, Stamped
<1>. HIDE DEF q
<1>4. Known(q) = Known(rep)
  BY <1>3 DEF Known
<1> DEFINE a == RecordSeen(q, s)
           r == Progressed(a, s, changed)
           S == IF changed THEN {s} ELSE {}
           p == IF q.slots[s].phase = "none" THEN "idle" ELSE q.slots[s].phase
           b == [q EXCEPT !.slots[s] = [phase |-> p, since |-> now]]
<1>5. Good(b, now) /\ Onward(q, b, {s}, now)
  <2>. HIDE DEF p
  <2>. QED  BY <1>3, TouchedGood DEF p
<1>6. r = q \/ (changed /\ r = b)
  <2>1. CASE s \in Known(q)
    <3>1. a = q /\ p = q.slots[s].phase
      BY <2>1 DEF RecordSeen, Known
    <3>2. CASE changed /\ q.slots[s].phase = "idle"
      <4>1. r = [q EXCEPT !.slots[s].since = now]
        BY <3>1, <3>2 DEF Progressed
      <4>2. [q.slots[s] EXCEPT !.since = now] = [phase |-> p, since |-> now]
        <5> DEFINE e == q.slots[s]
        <5>1. e = [phase |-> e.phase, since |-> e.since] /\ p = e.phase
          BY <1>3, <3>1, SlotTyped
        <5>. HIDE DEF e, p
        <5>2. [e EXCEPT !.since = now] = [phase |-> p, since |-> now]
          BY <5>1
        <5>. QED  BY <5>2 DEF e
      <4>3. r = [q EXCEPT !.slots[s] = [q.slots[s] EXCEPT !.since = now]]
        BY <4>1
      <4>. QED  BY <3>2, <4>2, <4>3
    <3>3. CASE ~(changed /\ q.slots[s].phase = "idle")
      BY <3>1, <3>3 DEF Progressed
    <3>. QED  BY <3>2, <3>3
  <2>2. CASE s \notin Known(q)
    <3>1. q.slots[s].phase = "none" /\ p = "idle" /\ changed
      BY <1>2, <1>4, <2>2 DEF Known
    <3>2. a = b
      BY <2>2, <3>1 DEF RecordSeen
    <3>3. b.slots[s] = [phase |-> "idle", since |-> now] /\ b \in ReplicaState
      <4>1. b \in ReplicaState
        BY <1>5 DEF Good, Stamped
      <4>2. q.slots \in [Slot -> SlotState]
        BY <1>3, StateTyped
      <4>3. b.slots = [q.slots EXCEPT ![s] = [phase |-> "idle", since |-> now]]
        BY <1>3, <3>1 DEF ReplicaState
      <4>. HIDE DEF b
      <4>. QED  BY <4>1, <4>2, <4>3
    <3>. HIDE DEF b
    <3>4. r = [b EXCEPT !.slots[s].since = now]
      BY <3>1, <3>2, <3>3 DEF Progressed
    <3>5. [b EXCEPT !.slots[s].since = now] = b
      <4> DEFINE sl == b.slots
      <4>1. sl \in [Slot -> SlotState] /\ sl[s] = [phase |-> "idle", since |-> now]
        BY <3>3, StateTyped
      <4>. HIDE DEF sl
      <4>2. [sl[s] EXCEPT !.since = now] = sl[s]
        BY <4>1
      <4>3. [sl EXCEPT ![s].since = now] = sl
        BY <4>1, <4>2
      <4>4. [b EXCEPT !.slots[s].since = now] = [b EXCEPT !.slots = sl]
        BY <4>3 DEF sl
      <4>5. [b EXCEPT !.slots = sl] = b
        BY <3>3 DEF sl, ReplicaState
      <4>. QED  BY <4>4, <4>5
    <3>. QED  BY <3>1, <3>4, <3>5
  <2>. QED  BY <2>1, <2>2
<1>7. Restarted(r, S, now)
  <2>1. CASE ~changed
    BY <2>1 DEF Restarted
  <2>2. CASE changed
    <3>1. a.slots \in [Slot -> SlotState]
      <4>1. q.slots \in [Slot -> SlotState]
        BY <1>3, StateTyped
      <4>2. [phase |-> "idle", since |-> now] \in SlotState
        BY <1>3 DEF SlotState
      <4>3. a.slots = q.slots \/ a.slots = [q.slots EXCEPT ![s] = [phase |-> "idle", since |-> now]]
        BY <1>3 DEF RecordSeen, ReplicaState
      <4>. HIDE DEF a
      <4>. QED  BY <4>1, <4>2, <4>3
    <3>2. a.slots[s].phase = "idle" => r.slots = [a.slots EXCEPT ![s].since = now]
      <4>1. a \in ReplicaState \/ "slots" \in DOMAIN a
        BY <1>3 DEF RecordSeen, ReplicaState
      <4>. HIDE DEF a
      <4>. QED  BY <2>2, <4>1 DEF Progressed, ReplicaState
    <3>3. a.slots[s].phase # "idle" => r = a
      BY DEF Progressed
    <3>. HIDE DEF a, r
    <3>4. r.slots[s].phase = "idle" => r.slots[s].since = now
      BY <3>1, <3>2, <3>3 DEF SlotState
    <3>. QED  BY <3>4 DEF Restarted
  <2>. QED  BY <2>1, <2>2
<1>8. Receive(r, w, S)
  BY <1>2
<1>. HIDE DEF r, b
<1>9. Good(r, now)
  BY <1>3, <1>5, <1>6
<1>10. Onward(q, r, S, now)
  <2>1. CASE r = q
    BY <1>3, <2>1, StateTyped DEF Onward
  <2>2. CASE changed /\ r = b
    BY <1>5, <2>2
  <2>. QED  BY <1>6, <2>1, <2>2
<1>11. Onward(rep, r, S, now)
  <2>1. Onward(rep, q, S, now)
    BY <1>3 DEF Onward
  <2>. QED  BY <1>3, <1>9, <1>10, <2>1, OnwardOn DEF Good, Stamped
<1>. HIDE DEF S
<1>. QED  BY <1>7, <1>8, <1>9, <1>11, ReceiveKeepsInv

\* on_record_reply: a run begins another step.
LEMMA OnRecordReplyKeepsInv ==
  ASSUME Inv, NEW w \in 0..MaxSlot, OnRecordReply(w)
  PROVE  Inv'
<1> DEFINE q == Headed(rep, w)
<1>1. PICK s \in In(rep, "running") : Receive([q EXCEPT !.slots[s].since = now], w, {})
  BY DEF OnRecordReply
<1>2. /\ me \in Positions /\ now \in Time /\ Good(q, now) /\ Onward(rep, q, {}, now)
      /\ q.slots = rep.slots /\ q \in ReplicaState /\ rep \in ReplicaState
  BY InvIsGood, HeadedGood DEF Good, Stamped
<1>3. s \in Slot /\ q.slots[s].phase = "running"
  BY <1>2 DEF In
<1>. HIDE DEF q
<1> DEFINE p == IF q.slots[s].phase = "none" THEN "idle" ELSE q.slots[s].phase
           r == [q EXCEPT !.slots[s] = [phase |-> p, since |-> now]]
<1>4. p = "running"
  BY <1>3
<1>5. Good(r, now) /\ Onward(q, r, {}, now)
  <2>. HIDE DEF p
  <2>. QED  BY <1>2, <1>3, <1>4, TouchedGood DEF p
<1>6. [q EXCEPT !.slots[s].since = now] = r
  <2>1. [q.slots[s] EXCEPT !.since = now] = [phase |-> "running", since |-> now]
    <3> DEFINE e == q.slots[s]
    <3>1. e = [phase |-> e.phase, since |-> e.since] /\ e.phase = "running"
      BY <1>2, <1>3, SlotTyped
    <3>. HIDE DEF e
    <3>2. [e EXCEPT !.since = now] = [phase |-> "running", since |-> now]
      BY <3>1
    <3>. QED  BY <3>2 DEF e
  <2>. HIDE DEF p
  <2>2. [q EXCEPT !.slots[s].since = now] = [q EXCEPT !.slots[s] = [q.slots[s] EXCEPT !.since = now]]
    OBVIOUS
  <2>. QED  BY <1>4, <2>1, <2>2
<1>7. Receive(r, w, {})
  <2>. HIDE DEF r
  <2>. QED  BY <1>1, <1>6
<1>. HIDE DEF r
<1>8. Onward(rep, r, {}, now)
  BY <1>2, <1>5, OnwardOn DEF Good, Stamped
<1>9. Restarted(r, {}, now)
  BY DEF Restarted
<1>. QED  BY <1>5, <1>7, <1>8, <1>9, ReceiveKeepsInv

LEMMA OnDecideKeepsInv ==
  ASSUME Inv, NEW w \in 0..MaxSlot, OnDecide(w)
  PROVE  Inv'
<1> DEFINE q == Headed(rep, w)
<1>1. PICK s \in Slot : \E v \in Decidable : Receive(DecideSlot(q, s, v, now), w, {})
  BY DEF OnDecide
<1>2. PICK v \in Decidable : Receive(DecideSlot(q, s, v, now), w, {})
  BY <1>1
<1>3. /\ me \in Positions /\ now \in Time /\ Good(q, now) /\ Onward(rep, q, {}, now)
      /\ q \in ReplicaState /\ rep \in ReplicaState /\ v \in SUBSET Command
  BY InvIsGood, HeadedGood DEF Good, Stamped, Decidable
<1>. HIDE DEF q
<1> DEFINE r == DecideSlot(q, s, v, now)
<1>4. Good(r, now) /\ Onward(q, r, {}, now)
  BY <1>3, DecideSlotGood
<1>5. Receive(r, w, {})
  BY <1>2
<1>. HIDE DEF r
<1>6. Onward(rep, r, {}, now)
  BY <1>3, <1>4, OnwardOn DEF Good, Stamped
<1>7. Restarted(r, {}, now)
  BY DEF Restarted
<1>. QED  BY <1>4, <1>5, <1>6, <1>7, ReceiveKeepsInv

LEMMA OnLearnReplyKeepsInv ==
  ASSUME Inv, NEW w \in 0..MaxSlot, OnLearnReply(w)
  PROVE  Inv'
<1> DEFINE q == Headed(rep, w)
           a == [q EXCEPT !.learnSent = {}]
<1>1. /\ me \in Positions /\ now \in Time /\ Good(q, now) /\ Onward(rep, q, {}, now)
      /\ q \in ReplicaState /\ rep \in ReplicaState /\ Stamped(q, now)
  BY InvIsGood, HeadedGood DEF Good, Stamped
<1>2. \/ Receive(a, w, {})
      \/ /\ rep.contig < MaxSlot
         /\ \E v \in Decidable : Receive(DecideSlot(a, rep.contig + 1, v, now), w, {})
  BY DEF OnLearnReply
<1>. HIDE DEF q
<1>3. /\ a \in ReplicaState /\ a.slots = q.slots /\ a.contig = q.contig /\ a.pool = q.pool
      /\ a.maxOpen = q.maxOpen /\ a.delivered = q.delivered /\ a.pendingSince = q.pendingSince
      /\ a.learnSent = {} /\ a.lastPing = q.lastPing
  BY <1>1 DEF ReplicaState
<1>. HIDE DEF a
<1>4. Good(a, now) /\ Onward(q, a, {}, now)
  <2>1. SameWork(q, a) /\ Stamped(a, now)
    BY <1>1, <1>3 DEF SameWork, Stamped, AtMostOne
  <2>2. Onward(q, a, {}, now)
    BY <1>1, <1>3, StateTyped DEF Onward, Known
  <2>. QED  BY <1>1, <1>3, <2>1, <2>2, SameWorkGood
<1>5. Onward(rep, a, {}, now)
  BY <1>1, <1>3, <1>4, OnwardOn
<1>6. CASE Receive(a, w, {})
  BY <1>4, <1>5, <1>6, ReceiveKeepsInv DEF Restarted
<1>7. ASSUME rep.contig < MaxSlot, NEW v \in Decidable,
             Receive(DecideSlot(a, rep.contig + 1, v, now), w, {})
      PROVE  Inv'
  <2> DEFINE s == rep.contig + 1
             r == DecideSlot(a, s, v, now)
  <2>1. s \in Slot /\ v \in SUBSET Command
    <3>1. rep.contig \in Nat
      BY <1>1, StateTyped
    <3>. QED  BY <1>7, <3>1, SlotsAreNumbers DEF Decidable
  <2>. HIDE DEF s
  <2>2. Good(r, now) /\ Onward(a, r, {}, now)
    BY <1>1, <1>4, <2>1, DecideSlotGood
  <2>3. Receive(r, w, {})
    BY <1>7 DEF s
  <2>. HIDE DEF r
  <2>4. Onward(rep, r, {}, now)
    BY <1>1, <1>3, <1>5, <2>2, OnwardOn DEF Good, Stamped
  <2>. QED  BY <2>2, <2>3, <2>4, ReceiveKeepsInv DEF Restarted
<1>. QED  BY <1>2, <1>6, <1>7

-----------------------------------------------------------------------------
(* Theorems about the specification. *)

\* Init is Replica::new, whose commands are all absent from the pool.
LEMMA InitIsInv ==
  ASSUME Init
  PROVE  Inv
<1>1. /\ now = 0 /\ me \in Positions /\ rep = NewReplica /\ quiet = [s \in Slot |-> 0]
      /\ me \in Nat /\ 0 \in Time /\ 0 \in 0..MaxSlot
  BY SlotsAreNumbers, PositionTyped DEF Init
<1>2. /\ NoSlot \in SlotState /\ Absent \in PoolEntry
      /\ NoSlot.phase = "none" /\ NoSlot.since = 0 /\ Absent.slot = -1
  BY <1>1, SlotsAreNumbers DEF NoSlot, SlotState, Absent, PoolEntry
<1>3. rep \in ReplicaState
  <2>1. /\ [s \in Slot |-> NoSlot] \in [Slot -> SlotState]
        /\ [c \in Command |-> Absent] \in [Command -> PoolEntry]
        /\ [s \in Slot |-> {}] \in [Slot -> SUBSET Command]
    BY <1>2
  <2>. HIDE DEF NoSlot, Absent
  <2>. QED  BY <1>1, <2>1 DEF NewReplica, ReplicaState
<1>4. /\ \A s \in Slot : rep.slots[s] = NoSlot
      /\ \A c \in Command : rep.pool[c] = Absent
      /\ rep.pendingSince = {} /\ rep.learnSent = {} /\ rep.lastPing = 0
  BY <1>1 DEF NewReplica
<1>5. TypeOK
  <2>1. Cardinality({}) = 0
    BY FS_EmptySet
  <2>2. quiet \in [Slot -> 0..now]
    BY <1>1
  <2>. QED  BY <1>1, <1>2, <1>3, <1>4, <2>1, <2>2 DEF TypeOK
<1>6. Unassigned(rep) = {} /\ In(rep, "idle") = {}
  BY <1>2, <1>4 DEF Unassigned, In
<1>. QED  BY <1>4, <1>5, <1>6, NothingWaits
     DEF Inv, PendingIsReal, NothingToOpen, IdleSinceLastChange, RescueInTime

LEMMA InvInductive ==
  ASSUME Inv, [Next]_vars
  PROVE  Inv'
<1>1. CASE UNCHANGED vars
  <2>1. now' = now /\ me' = me /\ rep' = rep /\ quiet' = quiet
    BY <1>1 DEF vars
  <2>2. TypeOK'
    <3>1. rep' \in ReplicaState'
      BY <2>1, SamePosition DEF Inv, TypeOK
    <3>. QED  BY <2>1, <3>1 DEF Inv, TypeOK
  <2>3. PendingIsReal' /\ NothingToOpen'
    BY <2>1, SamePosition DEF Inv, PendingIsReal, NothingToOpen
  <2>4. IdleSinceLastChange' /\ RescueInTime'
    BY <2>1 DEF Inv, IdleSinceLastChange, RescueInTime, In
  <2>. QED  BY <2>2, <2>3, <2>4 DEF Inv
<1>2. CASE Elapse
  BY <1>2, ElapseKeepsInv
<1>3. CASE Tick
  BY <1>3, TickKeepsInv
<1>4. CASE Submit
  BY <1>4, SubmitKeepsInv
<1>5. ASSUME NEW w \in 0..MaxSlot,
             \/ Heard(w) \/ OnForward(w) \/ OnRecord(w) \/ OnRecordReply(w)
             \/ OnDecide(w) \/ OnLearnReply(w)
      PROVE  Inv'
  BY <1>5, HeardKeepsInv, OnForwardKeepsInv, OnRecordKeepsInv, OnRecordReplyKeepsInv,
     OnDecideKeepsInv, OnLearnReplyKeepsInv
<1>. QED  BY <1>1, <1>2, <1>3, <1>4, <1>5 DEF Next

\* The inductive invariant of the timers: besides the properties themselves,
\* the leader has opened whatever it can, and an idle slot's schedule starts with
\* the last change of its register.
THEOREM InvHolds == Spec => []Inv
<1>1. Inv /\ [Next]_vars => Inv'
  BY InvInductive
<1>. QED  BY <1>1, InitIsInv, PTL DEF Spec

\* The types of the variables; no timestamp is ahead of the clock.
THEOREM TypeOKHolds == Spec => []TypeOK
<1>1. Inv => TypeOK
  BY DEF Inv
<1>. QED  BY <1>1, InvHolds, PTL

\* pool_pending_since tells whether commands wait unassigned
\* (refresh_pool_pending, hedge_activate_due).
THEOREM PendingIsRealHolds == Spec => []PendingIsReal
<1>1. Inv => PendingIsReal
  BY DEF Inv
<1>. QED  BY <1>1, InvHolds, PTL

\* No undecided slot stays idle for longer than its position's share of the
\* hedging schedule after the last change of its register, whatever the peers
\* retransmit (on_record, hedge_activate_due, next_wakeup).
THEOREM RescueInTimeHolds == Spec => []RescueInTime
<1>1. Inv => RescueInTime
  BY DEF Inv
<1>. QED  BY <1>1, InvHolds, PTL

-----------------------------------------------------------------------------
(* The start of a proposer. *)

\* In q no proposer runs that does not run in r.
NoneStarts(r, q) ==
  \A s \in Slot : q.slots[s].phase = "running" => r.slots[s].phase = "running"

LEMMA SameSlots ==
  ASSUME NEW t, NEW r, "slots" \in DOMAIN r
  PROVE  /\ Refreshed(r, t).slots = r.slots /\ DOMAIN Refreshed(r, t) = DOMAIN r
         /\ DeliverAll(r).slots = r.slots /\ DOMAIN DeliverAll(r) = DOMAIN r
         /\ \A w : LearnAsked(r, w, t).slots = r.slots
BY DEF LearnAsked, Refreshed, DeliverAll

\* A decision starts no proposer, except at the leader.
LEMMA DecideSlotStartsNone ==
  ASSUME me # Leader, NEW t, NEW r \in ReplicaState, NEW s \in Slot, NEW v
  PROVE  LET q == DecideSlot(r, s, v, t) IN NoneStarts(r, q) /\ "slots" \in DOMAIN q
<1> DEFINE a == [r EXCEPT !.slots[s] = [phase |-> "decided", since |-> t],
                     !.values[s] = v,
                     !.pool = [c \in Command |->
                                 IF @[c].slot = s /\ c \notin v THEN [@[c] EXCEPT !.slot = 0]
                                                                ELSE @[c]]]
           q == DecideSlot(r, s, v, t)
<1>1. q = r \/ q = Refreshed(DeliverAll(a), t)
  BY DEF DecideSlot, Opened
<1>2. /\ "slots" \in DOMAIN a
      /\ a.slots = [r.slots EXCEPT ![s] = [phase |-> "decided", since |-> t]]
  BY DEF ReplicaState
<1>. HIDE DEF a, q
<1>3. LET u == Refreshed(DeliverAll(a), t) IN u.slots = a.slots /\ "slots" \in DOMAIN u
  BY <1>2, SameSlots
<1>4. NoneStarts(r, r) /\ "slots" \in DOMAIN r
  BY DEF NoneStarts, ReplicaState
<1>5. ASSUME q = Refreshed(DeliverAll(a), t) PROVE NoneStarts(r, q)
  <2>1. r.slots \in [Slot -> SlotState]
    BY StateTyped
  <2>2. \A u \in Slot : u # s => q.slots[u] = r.slots[u]
    BY <1>2, <1>3, <1>5, <2>1
  <2>3. q.slots[s].phase # "running"
    BY <1>2, <1>3, <1>5, <2>1
  <2>. QED  BY <2>2, <2>3 DEF NoneStarts
<1>. QED  BY <1>1, <1>3, <1>4, <1>5 DEF q

\* receive: a message starts no proposer if its payload has started none.
LEMMA ReceiveStartsNone ==
  ASSUME NEW r, "slots" \in DOMAIN r, NEW w, NEW S, NoneStarts(rep, r), Receive(r, w, S)
  PROVE  NoneStarts(rep, rep')
<1>1. rep' = LearnAsked(r, w, now)
  BY DEF Receive, Move
<1>2. LearnAsked(r, w, now).slots = r.slots
  BY SameSlots
<1>3. rep'.slots = r.slots
  BY <1>1, <1>2
<1>. QED  BY <1>3 DEF NoneStarts

\* Except at the leader, no message and no submission starts a proposer: that is
\* left to the hedging schedule.
LEMMA InputStartsNone ==
  ASSUME Inv, me # Leader, NEW w \in 0..MaxSlot,
         \/ Submit \/ Heard(w) \/ OnForward(w) \/ OnRecord(w) \/ OnRecordReply(w)
         \/ OnDecide(w) \/ OnLearnReply(w)
  PROVE  NoneStarts(rep, rep')
<1> DEFINE q == Headed(rep, w)
<1>1. /\ q \in ReplicaState /\ rep \in ReplicaState /\ q.slots = rep.slots /\ now \in Time
      /\ "slots" \in DOMAIN q /\ "slots" \in DOMAIN rep
  <2>1. q \in ReplicaState /\ rep \in ReplicaState /\ q.slots = rep.slots /\ now \in Time
    BY InvIsGood, HeadedGood DEF Good, Stamped
  <2>. QED  BY <2>1 DEF ReplicaState
<1>2. \A r : r.slots = q.slots => NoneStarts(rep, r)
  BY <1>1 DEF NoneStarts
<1>3. \A r, t : Opened(r, t) = r
  BY DEF Opened
<1>4. ASSUME Submit PROVE NoneStarts(rep, rep')
  <2> DEFINE c == [origin |-> me, seq |-> rep.nextSeq + 1]
             a == [rep EXCEPT !.nextSeq = @ + 1, !.pool[c] = Waiting(now)]
  <2>1. rep' = Refreshed(a, now)
    BY <1>3, <1>4 DEF Submit, Move
  <2>2. "slots" \in DOMAIN a /\ a.slots = rep.slots
    BY <1>1 DEF ReplicaState
  <2>. HIDE DEF a
  <2>3. Refreshed(a, now).slots = a.slots
    BY <2>2, SameSlots
  <2>. QED  BY <2>1, <2>2, <2>3 DEF NoneStarts
<1>. HIDE DEF q
<1>5. ASSUME Heard(w) PROVE NoneStarts(rep, rep')
  <2>1. Receive(q, w, {})
    BY <1>5 DEF Heard, q
  <2>. QED  BY <1>1, <1>2, <2>1, ReceiveStartsNone
<1>6. ASSUME OnForward(w) PROVE NoneStarts(rep, rep')
  <2>1. PICK C \in SUBSET Command : Receive(Opened(Refreshed(
          [q EXCEPT !.pool = [c \in Command |-> IF c \in C THEN Waiting(now) ELSE @[c]]],
          now), now), w, {})
    BY <1>6 DEF OnForward, q
  <2> DEFINE a == [q EXCEPT !.pool = [c \in Command |-> IF c \in C THEN Waiting(now) ELSE @[c]]]
             r == Refreshed(a, now)
  <2>2. "slots" \in DOMAIN a /\ a.slots = q.slots
    BY <1>1 DEF ReplicaState
  <2>3. Receive(r, w, {})
    <3>. HIDE DEF r
    <3>1. Opened(r, now) = r
      BY <1>3
    <3>. QED  BY <2>1, <3>1 DEF r
  <2>4. "slots" \in DOMAIN r
    <3>. HIDE DEF a
    <3>. QED  BY <2>2 DEF Refreshed
  <2>. HIDE DEF a
  <2>5. r.slots = q.slots
    BY <2>2, SameSlots
  <2>. HIDE DEF r
  <2>. QED  BY <1>2, <2>3, <2>4, <2>5, ReceiveStartsNone
<1>7. ASSUME OnRecord(w) PROVE NoneStarts(rep, rep')
  <2>1. PICK s \in Slot, changed \in BOOLEAN :
          Receive(Progressed(RecordSeen(q, s), s, changed), w, IF changed THEN {s} ELSE {})
    BY <1>7 DEF OnRecord, q
  <2> DEFINE a == RecordSeen(q, s)
             r == Progressed(a, s, changed)
  <2>2. /\ "slots" \in DOMAIN a /\ a.slots \in [Slot -> SlotState]
        /\ \A u \in Slot : a.slots[u].phase = "running" => q.slots[u].phase = "running"
    <3>1. q.slots \in [Slot -> SlotState] /\ [phase |-> "idle", since |-> now] \in SlotState
      BY <1>1, StateTyped DEF SlotState
    <3>2. a = q \/ a = [q EXCEPT !.slots[s] = [phase |-> "idle", since |-> now]]
      BY DEF RecordSeen
    <3>3. DOMAIN a = DOMAIN q
      BY <3>2
    <3>4. a.slots = q.slots \/ a.slots = [q.slots EXCEPT ![s] = [phase |-> "idle", since |-> now]]
      BY <1>1, <3>2
    <3>. HIDE DEF a
    <3>. QED  BY <1>1, <3>1, <3>3, <3>4
  <2>. HIDE DEF a
  <2>3. r = a \/ (r = [a EXCEPT !.slots[s].since = now] /\ a.slots[s].phase = "idle")
    BY DEF Progressed
  <2>4. "slots" \in DOMAIN r /\ \A u \in Slot : r.slots[u].phase = a.slots[u].phase
    <3>1. r.slots = a.slots \/ r.slots = [a.slots EXCEPT ![s].since = now]
      BY <2>2, <2>3
    <3>2. DOMAIN r = DOMAIN a
      BY <2>3
    <3>. HIDE DEF r
    <3>. QED  BY <2>2, <3>1, <3>2 DEF SlotState
  <2>. HIDE DEF r
  <2>5. NoneStarts(rep, r)
    BY <1>1, <2>2, <2>4 DEF NoneStarts
  <2> DEFINE S == IF changed THEN {s} ELSE {}
  <2>6. Receive(r, w, S)
    BY <2>1 DEF r, a
  <2>. HIDE DEF S
  <2>. QED  BY <2>4, <2>5, <2>6, ReceiveStartsNone
<1>8. ASSUME OnRecordReply(w) PROVE NoneStarts(rep, rep')
  <2>1. PICK s \in In(rep, "running") : Receive([q EXCEPT !.slots[s].since = now], w, {})
    BY <1>8 DEF OnRecordReply, q
  <2> DEFINE r == [q EXCEPT !.slots[s].since = now]
  <2>2. "slots" \in DOMAIN r /\ r.slots = [q.slots EXCEPT ![s].since = now]
    BY <1>1
  <2>3. NoneStarts(rep, r)
    <3>1. q.slots \in [Slot -> SlotState]
      BY <1>1, StateTyped
    <3>. HIDE DEF r
    <3>. QED  BY <1>1, <2>2, <3>1 DEF NoneStarts, SlotState
  <2>. HIDE DEF r
  <2>. QED  BY <2>1, <2>2, <2>3, ReceiveStartsNone DEF r
<1>9. ASSUME NEW r \in ReplicaState, r.slots = q.slots, NEW s \in Slot, NEW v,
             Receive(DecideSlot(r, s, v, now), w, {})
      PROVE  NoneStarts(rep, rep')
  <2> DEFINE d == DecideSlot(r, s, v, now)
  <2>1. NoneStarts(r, d) /\ "slots" \in DOMAIN d
    BY DecideSlotStartsNone
  <2>2. Receive(d, w, {})
    BY <1>9
  <2>. HIDE DEF d
  <2>3. NoneStarts(rep, d)
    BY <1>1, <1>9, <2>1 DEF NoneStarts
  <2>. QED  BY <2>1, <2>2, <2>3, ReceiveStartsNone
<1>10. ASSUME OnDecide(w) PROVE NoneStarts(rep, rep')
  <2>1. PICK s \in Slot, v \in Decidable : Receive(DecideSlot(q, s, v, now), w, {})
    BY <1>10 DEF OnDecide, q
  <2>. QED  BY <1>1, <1>9, <2>1
<1>11. ASSUME OnLearnReply(w) PROVE NoneStarts(rep, rep')
  <2> DEFINE r == [q EXCEPT !.learnSent = {}]
  <2>1. r \in ReplicaState /\ "slots" \in DOMAIN r /\ r.slots = q.slots
    BY <1>1 DEF ReplicaState
  <2>2. \/ Receive(r, w, {})
        \/ /\ rep.contig < MaxSlot
           /\ \E v \in Decidable : Receive(DecideSlot(r, rep.contig + 1, v, now), w, {})
    BY <1>11 DEF OnLearnReply, q
  <2>. HIDE DEF r
  <2>3. rep.contig < MaxSlot => rep.contig + 1 \in Slot
    BY <1>1, StateTyped, SlotsAreNumbers DEF Slot
  <2>4. ASSUME Receive(r, w, {}) PROVE NoneStarts(rep, rep')
    BY <1>2, <2>1, <2>4, ReceiveStartsNone
  <2>. QED  BY <1>9, <2>1, <2>2, <2>3, <2>4
<1>. QED  BY <1>4, <1>5, <1>6, <1>7, <1>8, <1>10, <1>11

\* A tick starts proposers in the slots whose turn has come, as it sees them
\* once the frontier has been observed.
LEMMA TickStartsDue ==
  ASSUME me \in Positions, me # Leader, NEW t \in Time, NEW r, Good(r, t), NEW s \in Slot,
         Ticked(r, t).slots[s].phase = "running", r.slots[s].phase # "running"
  PROVE  LET q == FrontierObserved(r, t)
         IN  /\ q \in ReplicaState /\ Onward(r, q, {}, t)
             /\ s \in In(q, "idle") /\ HedgeDue(t, me, q.slots[s].since)
<1> DEFINE r1 == FrontierObserved(r, t)
           S == {u \in In(r1, "idle") : HedgeDue(t, me, r1.slots[u].since)}
           r2 == HedgesActivated(r1, t)
           r4 == Retransmitted(r2, t)
           r5 == Reforwarded(r4, t)
           r6 == LearnTicked(r5, t)
           r7 == Pinged(r6, t)
<1>1. r7 = Ticked(r, t)
  BY DEF Ticked, Opened
<1>2. /\ Stamped(r1, t) /\ Onward(r, r1, {}, t) /\ PendingReal(r1) /\ r1 \in ReplicaState
  BY FrontierObservedFits DEF Good, Stamped
<1>3. r1.slots[s].phase = "running" => r.slots[s].phase = "running"
  BY StateTyped DEF FrontierObserved, FrontierMissing, Known, Good, Stamped, ReplicaState
<1>. HIDE DEF r1
<1>4. Stamped(r2, t)
  BY <1>2, HedgesActivatedFits
<1>5. \A u \in Slot : r2.slots[u].phase = "running" => u \in S \/ r1.slots[u].phase = "running"
  <2> DEFINE a == Activated(r1, S, t)
  <2>1. S \in SUBSET Slot
    BY DEF In
  <2>2. a.slots = r2.slots
    <3>1. "slots" \in DOMAIN a
      BY <1>2 DEF Activated, ReplicaState
    <3>2. r2 = PendingCleared(a)
      BY DEF HedgesActivated
    <3>. HIDE DEF a, r2
    <3>. QED  BY <3>1, <3>2 DEF PendingCleared
  <2>. HIDE DEF S
  <2>3. \A u \in Slot : a.slots[u] = IF u \in S THEN [phase |-> "running", since |-> t] ELSE r1.slots[u]
    BY <1>2, <2>1, ActivatedFits
  <2>. HIDE DEF a, r2
  <2>. QED  BY <2>2, <2>3
<1>. HIDE DEF r2
<1>6. Stamped(r4, t) /\ SameWork(r2, r4)
  BY <1>4, RetransmittedFits
<1>. HIDE DEF r4
<1>7. Stamped(r5, t) /\ r5.slots = r4.slots
  BY <1>6, ReforwardedFits
<1>. HIDE DEF r5
<1>8. Stamped(r6, t) /\ r6.slots = r5.slots
  BY <1>7, LearnTickedFits
<1>. HIDE DEF r6
<1>9. r7.slots = r6.slots
  BY <1>8, PingedFits
<1>. HIDE DEF r7
<1>10. r2.slots[s].phase = "running"
  BY <1>1, <1>6, <1>7, <1>8, <1>9 DEF SameWork
<1>11. s \in S
  BY <1>3, <1>5, <1>10
<1>. QED  BY <1>2, <1>11 DEF r1

\* Position k waits k * hedge_delay (hedge_activate_due): no input and no tick
\* starts a proposer in a slot before the replica's share of the schedule has
\* passed, on its own clock, since the register of the slot last changed as the
\* replica has seen it (on_record), or since it created the slot.
THEOREM HedgesInTurnHolds == Spec => HedgesInTurn
<1>1. ASSUME Inv, Inv', Next, NEW s \in Slot, rep.slots[s].phase # "running",
             rep'.slots[s].phase = "running"
      PROVE  HedgeDue(now, me, quiet'[s])
  <2>1. /\ me \in Positions /\ now \in Time /\ Good(rep, now) /\ rep \in ReplicaState
        /\ quiet \in [Slot -> 0..now]
    BY <1>1, InvIsGood DEF Good, Stamped, Inv, TypeOK
  <2>2. now' = now
    BY <1>1 DEF Next, Elapse, Tick, Submit, Heard, OnForward, OnRecord, OnRecordReply,
                OnDecide, OnLearnReply, Receive, Move
  <2>3. CASE me = Leader
    <3>1. quiet'[s] \in Nat /\ quiet'[s] <= now
      BY <1>1, <2>1, <2>2, SlotsAreNumbers DEF Inv, TypeOK
    <3>2. HedgeDeadline(0, quiet'[s]) = quiet'[s]
      <4>1. SatMul(0, Hedge) = 0
        BY DelaysClamped, DelaysAssumption DEF SatMul
      <4>. QED  BY <2>1, <3>1, <4>1, SlotsAreNumbers, DelaysAssumption
                DEF HedgeDeadline, SatAdd, Time
    <3>. QED  BY <2>1, <2>3, <3>1, <3>2, SlotsAreNumbers DEF HedgeDue, Leader
  <2>4. CASE me # Leader /\ Tick
    <3> DEFINE q == FrontierObserved(rep, now)
    <3>1. rep' = Ticked(rep, now) /\ \A u \in Slot :
            quiet'[u] = IF u \in Known(rep') \ Known(rep) THEN now ELSE quiet[u]
      BY <2>4 DEF Tick, Move, Known
    <3>2. /\ q \in ReplicaState /\ Onward(rep, q, {}, now)
          /\ s \in In(q, "idle") /\ HedgeDue(now, me, q.slots[s].since)
      BY <1>1, <2>1, <2>4, <3>1, TickStartsDue
    <3>. HIDE DEF q
    <3>3. s > q.contig /\ q.slots[s].phase = "idle" /\ s \in Known(rep')
      BY <1>1, <3>2 DEF In, Known
    <3>4. CASE s \in Known(rep)
      <4>1. q.slots[s] = rep.slots[s]
        BY <3>2, <3>3, <3>4 DEF Onward, Known
      <4>2. s \in In(rep, "idle")
        <5>1. rep.contig <= q.contig /\ rep.contig \in Nat /\ q.contig \in Nat
          BY <2>1, <3>2, StateTyped DEF Onward
        <5>. QED  BY <3>3, <4>1, <5>1, SlotsAreNumbers DEF In
      <4>3. quiet'[s] = rep.slots[s].since
        BY <1>1, <3>1, <3>4, <4>2 DEF Inv, IdleSinceLastChange
      <4>. QED  BY <3>2, <4>1, <4>3
    <3>5. CASE s \notin Known(rep)
      <4>1. q.slots[s].since = now
        BY <3>2, <3>3, <3>5 DEF Onward, Known
      <4>. QED  BY <3>1, <3>2, <3>3, <3>5, <4>1
    <3>. QED  BY <3>4, <3>5
  <2>5. CASE me # Leader /\ ~Tick
    <3>1. ~Elapse
      BY <1>1 DEF Elapse
    <3>2. PICK w \in 0..MaxSlot :
            \/ Submit \/ Heard(w) \/ OnForward(w) \/ OnRecord(w) \/ OnRecordReply(w)
            \/ OnDecide(w) \/ OnLearnReply(w)
      BY <1>1, <2>5, <3>1, SlotsAreNumbers, BoundsAssumption DEF Next
    <3>3. NoneStarts(rep, rep')
      BY <1>1, <2>5, <3>2, InputStartsNone
    <3>. QED  BY <1>1, <3>3 DEF NoneStarts
  <2>. QED  BY <2>3, <2>4, <2>5
<1>2. Inv /\ Inv' /\ [Next]_vars =>
        [\A s \in Slot : rep.slots[s].phase # "running" /\ rep'.slots[s].phase = "running" =>
           HedgeDue(now, me, quiet'[s])]_vars
  BY <1>1
<1>. QED  BY <1>2, InvHolds, PTL DEF Spec, HedgesInTurn

\* Before the wakeup that next_wakeup advertises, each of the seven parts of a
\* tick would do nothing.
THEOREM WakeupIsCompleteHolds == Spec => []WakeupIsComplete
<1>1. Inv => WakeupIsComplete
  <2>1. ASSUME Inv, NextWakeup(rep) > now PROVE Ticked(rep, now) = rep
    <3>1. me \in Positions /\ now \in Time /\ now \in Nat /\ Good(rep, now) /\ rep \in ReplicaState
      BY <2>1, InvIsGood DEF Good, Stamped
    <3>2. \A d \in Wakeups(rep) : d > now
      <4>. TAKE d \in Wakeups(rep)
      <4>1. NextWakeup(rep) <= d /\ NextWakeup(rep) \in Nat /\ d \in Nat
        BY <3>1, WakeupIsEarliest, SlotsAreNumbers
      <4>. QED  BY <2>1, <3>1, <4>1
    <3>. QED  BY <3>1, <3>2, NothingToServe
  <2>. QED  BY <2>1 DEF WakeupIsComplete
<1>. QED  BY <1>1, InvHolds, PTL

\* A tick leaves every deadline ahead of the clock, so a caller that sleeps
\* until each wakeup does not spin, with any delays a Config accepts, until the
\* clock has reached u64::MAX (tick, next_wakeup).
THEOREM WakeupAdvancesHolds == Spec => []WakeupAdvances
<1>1. Inv => WakeupAdvances
  <2>1. ASSUME Inv, now < MaxTime PROVE NextWakeup(Ticked(rep, now)) > now
    <3> DEFINE q == Ticked(rep, now)
    <3>1. me \in Positions /\ now \in Time /\ Good(rep, now)
      BY <2>1, InvIsGood
    <3>2. Good(q, now) /\ AllServed(q, now)
      BY <3>1, TickedServes
    <3>. HIDE DEF q
    <3>3. Stamped(q, now) /\ q \in ReplicaState
      BY <3>2 DEF Good, Stamped
    <3>4. \A d \in Wakeups(q) : d > now
      BY <2>1, <3>1, <3>2, <3>3, ServedWakeupsAhead
    <3>5. NextWakeup(q) > now
      BY <3>1, <3>3, <3>4, WakeupIsEarliest
    <3>. QED  BY <3>5 DEF q
  <2>. QED  BY <2>1 DEF WakeupAdvances
<1>. QED  BY <1>1, InvHolds, PTL

=============================================================================
