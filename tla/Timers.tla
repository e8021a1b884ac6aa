------------------------------- MODULE Timers -------------------------------
(***************************************************************************)
(* The clock of one replica (src/replica.rs): what tick does, in its whole *)
(* order, what each input does to the timestamps that tick looks at, and   *)
(* the deadline that next_wakeup advertises for it.                        *)
(*                                                                         *)
(* The replica is driven by an exact-deadline scheduler: "a caller         *)
(* sleeping exactly until each wakeup".  Time passes only while the next   *)
(* wakeup is ahead; ticks may also come early.  The peers, and the slot    *)
(* protocol they take part in, are the environment: any message may arrive *)
(* at any time.  A message that the replica ignores, because the slot is   *)
(* freed, too far ahead or over budget, is one whose payload does nothing  *)
(* (Heard).  Commands have size 1.                                         *)
(***************************************************************************)
EXTENDS Deadlines, FiniteSets

CONSTANTS Positions,  \* the positions in the schedule the replica may have
          Commands,   \* the commands a replica in each position may meet
          MaxSlot,    \* bound: no slot past this one is looked at
          Pipeline,   \* config.pipeline
          MaxBatch,   \* config.max_batch_bytes, in commands
          Window      \* DEDUP_WINDOW

Slot == 1..MaxSlot
Leader == 0

ASSUME CommandsAssumption ==
  /\ Commands \in [Positions -> SUBSET [origin : Positions, seq : Nat \ {0}]]
  /\ \A k \in Positions : IsFiniteSet(Commands[k])
ASSUME BoundsAssumption ==
  /\ Positions \subseteq Nat
  /\ MaxSlot \in Nat
  /\ {Pipeline, MaxBatch, Window} \subseteq Nat \ {0}

VARIABLES
  now,   \* the caller's clock
  me,    \* me_idx, the replica's position in the hedging schedule
  rep,   \* its state
  quiet  \* history: when the register of each slot was created or last changed

vars == <<now, me, rep, quiet>>

Command == Commands[me]

\* A slot's roles, as in LogReplica, and the timestamp that counts in its
\* phase: of an idle slot its last_progress (first_observed is never later), of
\* a running one the run's sent_at.
SlotState == [phase : {"none", "idle", "running", "decided"}, since : Time]
NoSlot == [phase |-> "none", since |-> 0]

\* PoolEntry: slot 0 is no slot, and a command that is not in the pool has the
\* entry Absent.
PoolEntry == [slot : -1..MaxSlot, forwarded : Time]
Absent == [slot |-> -1, forwarded |-> 0]
Waiting(t) == [slot |-> 0, forwarded |-> t]

\* An Option<u64> is a set of at most one time.
ReplicaState ==
  [contig : 0..MaxSlot,                                   \* decided_contig
   maxOpen : 0..MaxSlot,                                  \* max_open
   slots : [Slot -> SlotState],
   values : [Slot -> SUBSET Command],                     \* retained, {} if none
   pool : [Command -> PoolEntry],
   delivered : SUBSET Command,                            \* dedup
   nextSeq : Nat,
   pendingSince : SUBSET Time,                            \* pool_pending_since
   learnSent : SUBSET Time,                               \* learn_in_flight
   heard : 0..MaxSlot,                                    \* greatest of peer_acked
   lastPing : Time]

\* Replica::new.
NewReplica ==
  [contig |-> 0, maxOpen |-> 0, slots |-> [s \in Slot |-> NoSlot],
   values |-> [s \in Slot |-> {}], pool |-> [c \in Command |-> Absent], delivered |-> {}, nextSeq |-> 0,
   pendingSince |-> {}, learnSent |-> {}, heard |-> 0, lastPing |-> 0]

Init == /\ now = 0 /\ me \in Positions
        /\ rep = NewReplica
        /\ quiet = [s \in Slot |-> 0]

-----------------------------------------------------------------------------
(* Slots and the pool. *)

Known(r) == {s \in Slot : r.slots[s].phase # "none"}
In(r, phase) == {s \in Slot : s > r.contig /\ r.slots[s].phase = phase}

Unassigned(r) == {c \in Command : r.pool[c].slot = 0}

Before(c, d) == c.origin < d.origin \/ (c.origin = d.origin /\ c.seq < d.seq)

\* take_unassigned_batch: the commands within the sequencing window, and the
\* batch that the k-th of several calls in a row takes, the lowest ids first.
HighWater(r, origin) ==
  CHOOSE h \in 0..Cardinality(r.delivered) :
    LET done == {c.seq : c \in {d \in r.delivered : d.origin = origin}}
    IN  1..h \subseteq done /\ h + 1 \notin done

Batchable(r) == {c \in Unassigned(r) : c.seq <= HighWater(r, c.origin) + Window}
Batch(r, k) ==
  {c \in Batchable(r) :
     Cardinality({d \in Batchable(r) : Before(d, c)}) \div MaxBatch = k - 1}

\* refresh_pool_pending.
Refreshed(r, t) ==
  [r EXCEPT !.pendingSince = CASE Unassigned(r) = {} -> {}
                               [] Unassigned(r) # {} /\ @ = {} -> {t}
                               [] OTHER -> @]

\* activate and drive: runs start in the slots S, the lowest first, and each
\* claims the next batch.
Activated(r, S, t) ==
  LET Takes(s, c) == c \in Batch(r, Cardinality({u \in S : u <= s}))
  IN  [r EXCEPT !.slots = [s \in Slot |-> IF s \in S THEN [phase |-> "running", since |-> t]
                                                     ELSE @[s]],
                !.pool = [c \in Command |->
                            IF \E s \in S : Takes(s, c)
                              THEN [@[c] EXCEPT !.slot = CHOOSE s \in S : Takes(s, c)]
                              ELSE @[c]]]

\* maybe_open_slots: the slots the leader opens, after the last one it knows, as
\* far as the pipeline goes and as long as there are batches.
FirstToOpen(r) ==
  CHOOSE f \in 1..(MaxSlot + 1) :
    LET known == Known(r) \cup {r.maxOpen, r.contig}
    IN  f - 1 \in known /\ \A s \in known : s < f

Openable(r) ==
  {s \in Slot : LET k == s - FirstToOpen(r) + 1
                IN  /\ k >= 1 /\ s <= r.contig + Pipeline
                    /\ Cardinality(In(r, "running")) + k <= Pipeline
                    /\ Batch(r, k) # {}}

Opened(r, t) ==
  CASE me # Leader -> r
    [] me = Leader /\ Openable(r) = {} -> Refreshed(r, t)
    [] me = Leader /\ Openable(r) # {} ->
         Refreshed([Activated(r, Openable(r), t) EXCEPT
           !.maxOpen = FirstToOpen(r) + Cardinality(Openable(r)) - 1], t)

\* try_deliver: the decided slots that follow the watermark without a gap.
Deliverable(r) ==
  {s \in Slot : s > r.contig /\ \A u \in (r.contig + 1)..s : r.slots[u].phase = "decided"}

DeliverAll(r) ==
  LET new == UNION {r.values[s] : s \in Deliverable(r)}
  IN  [r EXCEPT !.contig = @ + Cardinality(Deliverable(r)),
                !.delivered = @ \cup new,
                !.pool = [c \in Command |-> IF c \in new THEN Absent ELSE @[c]]]

\* Mutant: a decision does not make the leader open further slots.
DecideSlotOnly(r, s, v, t) ==
  IF s <= r.contig \/ r.slots[s].phase = "decided"
    THEN r
    ELSE Refreshed(DeliverAll(
           [r EXCEPT !.slots[s] = [phase |-> "decided", since |-> t],
                     !.values[s] = v,
                     !.pool = [c \in Command |->
                                 IF @[c].slot = s /\ c \notin v THEN [@[c] EXCEPT !.slot = 0]
                                                                ELSE @[c]]]), t)

\* decide_slot: slot s is decided with the commands v; its other commands are
\* free again.
DecideSlot(r, s, v, t) ==
  IF s <= r.contig \/ r.slots[s].phase = "decided"
    THEN r
    ELSE Opened(Refreshed(DeliverAll(
           [r EXCEPT !.slots[s] = [phase |-> "decided", since |-> t],
                     !.values[s] = v,
                     !.pool = [c \in Command |->
                                 IF @[c].slot = s /\ c \notin v THEN [@[c] EXCEPT !.slot = 0]
                                                                ELSE @[c]]]), t), t)

-----------------------------------------------------------------------------
(* tick. *)

Frontier(r) == r.contig + 1
FrontierMissing(r) == Frontier(r) \in Slot \ Known(r)
SlotsBeyond(r) == \E s \in Known(r) : s > Frontier(r)

\* ensure_frontier_observed.
FrontierObserved(r, t) ==
  IF FrontierMissing(r) /\ (r.pendingSince # {} \/ SlotsBeyond(r))
    THEN [r EXCEPT !.slots[Frontier(r)] = [phase |-> "idle", since |-> t]]
    ELSE r

\* Mutant: the hedging trigger stays set.
PendingKept(r) == r

\* hedge_activate_due, the end.
PendingCleared(r) == IF Unassigned(r) = {} THEN [r EXCEPT !.pendingSince = {}] ELSE r

\* hedge_activate_due: lowest slot first.
HedgesActivated(r, t) ==
  PendingCleared(Activated(r, {s \in In(r, "idle") : HedgeDue(t, me, r.slots[s].since)}, t))

\* retransmit_due.
Retransmitted(r, t) ==
  [r EXCEPT !.slots = [s \in Slot |->
     IF s \in In(r, "running") /\ TimerDue(t, @[s].since, Retransmit)
       THEN [@[s] EXCEPT !.since = t] ELSE @[s]]]

\* reforward_due: its own commands that ride in no slot.
OwnWaiting(r) == IF me = Leader THEN {} ELSE {c \in Unassigned(r) : c.origin = me}

Reforwarded(r, t) ==
  [r EXCEPT !.pool = [c \in Command |->
     IF c \in OwnWaiting(r) /\ TimerDue(t, @[c].forwarded, ForwardInterval)
       THEN [@[c] EXCEPT !.forwarded = t] ELSE @[c]]]

\* maybe_request_learn: a request that has timed out does not count.
LearnAsked(r, w, t) ==
  IF w > r.contig /\ \A sent \in r.learnSent : TimerDue(t, sent, Retransmit)
    THEN [r EXCEPT !.learnSent = {t}]
    ELSE r

\* learn_tick: the timeout, and another request if some peer is ahead.
LearnExpired(r, t) ==
  [r EXCEPT !.learnSent = {sent \in @ : ~TimerDue(t, sent, Retransmit)}]

LearnTicked(r, t) ==
  LET q == LearnExpired(r, t)
  IN  IF q.learnSent = {} THEN LearnAsked(q, q.heard, t) ELSE q

\* ping_tick.
Pinged(r, t) == IF TimerDue(t, r.lastPing, PingInterval) THEN [r EXCEPT !.lastPing = t] ELSE r

Ticked(r, t) ==
  Pinged(LearnTicked(Reforwarded(Retransmitted(
    Opened(HedgesActivated(FrontierObserved(r, t), t), t), t), t), t), t)

-----------------------------------------------------------------------------
(* next_wakeup: the deadlines it folds, and the earliest of them. *)

SlotDeadlines(r) ==
  {TimerDeadline(r.slots[s].since, Retransmit) : s \in In(r, "running")}
  \cup {HedgeDeadline(me, r.slots[s].since) : s \in In(r, "idle")}

\* Mutant: only waiting commands wake the caller for the frontier.
FrontierDeadlinesPending(r) == IF FrontierMissing(r) THEN r.pendingSince ELSE {}

\* A frontier slot that tick would create is due at once.
FrontierDeadlines(r) ==
  CASE FrontierMissing(r) /\ r.pendingSince # {} -> r.pendingSince
    [] FrontierMissing(r) /\ r.pendingSince = {} /\ SlotsBeyond(r) -> {0}
    [] OTHER -> {}

ForwardDeadlines(r) ==
  {TimerDeadline(r.pool[c].forwarded, ForwardInterval) : c \in OwnWaiting(r)}

LearnDeadlines(r) ==
  CASE r.learnSent # {} -> {TimerDeadline(sent, Retransmit) : sent \in r.learnSent}
    [] r.learnSent = {} /\ r.heard > r.contig -> {0}
    [] OTHER -> {}

Wakeups(r) ==
  SlotDeadlines(r) \cup FrontierDeadlines(r) \cup ForwardDeadlines(r)
    \cup LearnDeadlines(r) \cup {TimerDeadline(r.lastPing, PingInterval)}

NextWakeup(r) == CHOOSE d \in Wakeups(r) : \A e \in Wakeups(r) : d <= e

-----------------------------------------------------------------------------
(* Actions. *)

Elapse ==
  /\ now < NextWakeup(rep)
  /\ now' = now + 1
  /\ UNCHANGED <<me, rep, quiet>>

\* The replica moves to the state r; the slots in S have had a change of their
\* register, as has any slot just created.
Move(r, S) ==
  /\ rep' = r
  /\ quiet' = [s \in Slot |-> IF s \in S \cup (Known(r) \ Known(rep)) THEN now ELSE quiet[s]]
  /\ UNCHANGED <<now, me>>

Tick == Move(Ticked(rep, now), {})

\* submit.
Submit ==
  LET c == [origin |-> me, seq |-> rep.nextSeq + 1]
  IN  /\ c \in Command
      /\ Move(Refreshed(Opened(
           [rep EXCEPT !.nextSeq = @ + 1, !.pool[c] = Waiting(now)], now), now), {})

\* receive: the header's watermark w, whatever the payload has made of the
\* replica's state, and then maybe_request_learn.
Headed(r, w) == [r EXCEPT !.heard = IF @ < w THEN w ELSE @]
Receive(r, w, S) == Move(LearnAsked(r, w, now), S)

\* receive of a Ping or a Learn, or of anything the replica ignores.
Heard(w) == w > 0 /\ Receive(Headed(rep, w), w, {})

\* on_forward: C are the commands of the message, of other origins, that are
\* neither known here nor dropped for lack of room; there may be none.
OnForward(w) ==
  \E C \in SUBSET {c \in Command : c.origin # me /\ c \notin rep.delivered
                                                 /\ rep.pool[c] = Absent} :
    Receive(Opened(Refreshed(
      [Headed(rep, w) EXCEPT !.pool = [c \in Command |-> IF c \in C THEN Waiting(now) ELSE @[c]]],
      now), now), w, {})

\* Mutant: any traffic counts as progress.
ProgressedAlways(r, s, changed) == [r EXCEPT !.slots[s].since = now]

\* Mutant: the progress of other proposers does not put off the hedging.
ProgressIgnored(r, s, changed) == r

\* on_record: "only genuine register changes extend hedging deadlines".
Progressed(r, s, changed) ==
  IF changed /\ r.slots[s].phase = "idle" THEN [r EXCEPT !.slots[s].since = now] ELSE r

RecordSeen(r, s) ==
  IF s \in Known(r) THEN r ELSE [r EXCEPT !.slots[s] = [phase |-> "idle", since |-> now]]

\* A Record for an undecided slot; a new register always changes.
OnRecord(w) ==
  \E s \in Slot, changed \in BOOLEAN :
    /\ s > rep.contig /\ rep.slots[s].phase # "decided"
    /\ s \notin Known(rep) => changed
    /\ Receive(Progressed(RecordSeen(Headed(rep, w), s), s, changed), w,
               IF changed THEN {s} ELSE {})

\* on_record_reply that moves the run to another step: begin_step and drive.
OnRecordReply(w) ==
  \E s \in In(rep, "running") :
    Receive([Headed(rep, w) EXCEPT !.slots[s].since = now], w, {})

\* The batches that a slot may be decided with.  A command of this replica was
\* submitted before it was proposed anywhere.
Decidable ==
  {v \in SUBSET Command : Cardinality(v) <= MaxBatch /\
     \A c \in v : c.origin = me => c.seq <= rep.nextSeq}

\* A Decide, or the last RecordReply a run of this replica needs.
OnDecide(w) ==
  \E s \in Slot, v \in Decidable :
    /\ s > rep.contig /\ rep.slots[s].phase # "decided"
    /\ Receive(DecideSlot(Headed(rep, w), s, v, now), w, {})

\* on_learn_reply, with a chunk of a single value at most: that of the frontier,
\* or of a slot already decided, which is ignored.
OnLearnReply(w) ==
  LET r == [Headed(rep, w) EXCEPT !.learnSent = {}]
  IN  \/ Receive(r, w, {})
      \/ /\ rep.contig < MaxSlot
         /\ \E v \in Decidable : Receive(DecideSlot(r, rep.contig + 1, v, now), w, {})

Next ==
  \/ Elapse \/ Tick \/ Submit
  \/ \E w \in 0..MaxSlot :
       Heard(w) \/ OnForward(w) \/ OnRecord(w) \/ OnRecordReply(w) \/ OnDecide(w)
         \/ OnLearnReply(w)

Spec == Init /\ [][Next]_vars

-----------------------------------------------------------------------------
(* Properties. *)

\* The types of the variables; no timestamp is in the future.
TypeOK ==
  /\ now \in Time /\ me \in Positions
  /\ rep \in ReplicaState
  /\ quiet \in [Slot -> 0..now]
  /\ Cardinality(rep.pendingSince) <= 1 /\ Cardinality(rep.learnSent) <= 1
  /\ \A s \in Slot : rep.slots[s].since <= now
  /\ \A t \in rep.pendingSince \cup rep.learnSent \cup {rep.lastPing} : t <= now

\* "Every returned deadline is retired or advanced by the tick that services
\* it, so a caller sleeping exactly until each wakeup makes progress"
\* (next_wakeup): whenever the caller ticks, early or late, also when the tick
\* finds nothing to do, it is not told to tick again at once, except at the end
\* of time, where deadlines have saturated.
WakeupAdvances == now < MaxTime => NextWakeup(Ticked(rep, now)) > now

\* next_wakeup misses nothing: before the wakeup it advertises, a tick, in all
\* of its seven parts, would do nothing.
WakeupIsComplete == NextWakeup(rep) > now => Ticked(rep, now) = rep

\* pool_pending_since tells whether commands wait unassigned, whatever has been
\* claimed, released or delivered: it is what makes a replica hedge the
\* frontier, and what CommandPool takes it for.
PendingIsReal == rep.pendingSince # {} <=> Unassigned(rep) # {}

\* "A proposer stuck retransmitting the same step must not suppress the hedged
\* proposers that would rescue the slot" (on_record): no undecided slot stays
\* idle for longer than k * hedge_delay after the last change of its register,
\* whatever is retransmitted.
RescueInTime ==
  \A s \in In(rep, "idle") : now <= quiet[s] + me * Hedge

\* The other side of it, "position k waits k * hedge_delay"
\* (hedge_activate_due): whatever message, submission or tick starts a proposer
\* in a slot, on this replica's clock its share of the schedule has passed since
\* the register of the slot last changed.
HedgesInTurn ==
  [][\A s \in Slot : rep.slots[s].phase # "running" /\ rep'.slots[s].phase = "running" =>
       HedgeDue(now, me, quiet'[s])]_vars
=============================================================================
