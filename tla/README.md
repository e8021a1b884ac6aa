# Verification of raxos

raxos replicates a log of commands with QuePaxa: each slot of the log is one
instance of a randomized, leader-optional consensus protocol, and a `Replica` is
a deterministic state machine that is fed submissions, messages and time and
answers with `Send` and `Deliver` actions. This directory holds TLA+ modules
translated from `src/src/*.rs`, the TLC instances that check them and the
TLAPS proofs about them. `PROJECT.json` is the machine-readable index: runs,
mutants, the source lines of every definition, hazards, findings, theorems.

## 1. Inventory

| Part | State | Operations | Source |
|---|---|---|---|
| Proposal order | none | `cmp` on (priority, proposer, value); `H` reserved, 0 is nil | `types.rs` |
| Recorder register (ISR) | step, first, current and prior aggregate | `record`, `reply_first` | `recorder.rs` |
| Proposer run | step, proposal, draws, whom it has counted, best first, best aggregate | `start`, `begin_step`, `fold`, `step_complete`, `proposal_for` | `proposer.rs` |
| Slot consensus | one register and one run per replica and slot | `on_record`, `activate`, `drive`, `on_record_reply`, `retransmit_due`, `decide_slot` | `replica.rs` |
| Replicated log | watermark, retained values, acknowledgements, GC floor, Learn request in flight | `receive`, `try_deliver`, `maybe_gc`, `maybe_open_slots`, `on_learn`, `on_learn_reply`, `learn_tick`, `ping_tick` | `replica.rs` |
| Command pool and dedup | entries with claim and forward count; per origin a mark and a sparse set | `submit`, `on_forward`, `take_unassigned_batch`, `reforward_due`, `mark_delivered` | `replica.rs`, `pool.rs` |
| Timers | `first_observed`, `last_progress`, `sent_at`, `last_forward`, `learn_in_flight`, `last_ping`, `pool_pending_since` | `tick` and its seven parts, `next_wakeup`, `refresh_pool_pending` | `replica.rs`, `config.rs` |
| Wire format | none | `encode`, `decode`, `encode_batch`, `decode_batch` | `wire.rs`, `types.rs` |
| Configuration, random numbers, simulator | limits; generator; test network | `Config::new`, setters; `range_inclusive`; `Sim` | `config.rs`, `rng.rs`, `sim.rs` |

**How they interact.** `tick`, `submit` and `receive` are the only inputs.
A submission goes to the origin's pool; the leader (position 0 of the hedging
schedule) opens a slot for a batch, a follower forwards the command to it. A run sends
`Record` to the recorders of all replicas, its own included, and folds their
`RecordReply`s; at a majority it moves to the next step or decides. A decision
is broadcast once (`Decide`), installed by `decide_slot`, delivered in order,
retained, and freed when every replica's watermark, which every message header
carries, has passed it. A replica that hears a higher watermark asks for what
it misses (`Learn`).

**What is hard.** Several proposers in one slot with catch-up in both
directions; replies that are late, repeated, or elided (`Echo`); decisions that
arrive ahead of the frontier, by three routes, under a memory budget; garbage
collection that trusts stale watermarks; a command that is forwarded, batched
and decided more than once; a leader or a decider that dies; timers whose
deadlines one function tests and another advertises. Nothing is
persisted and the model is crash-stop, so there is no restart to model.
The hazards, each at its line, are listed in `PROJECT.json`.

**What makes each part correct.**
* Slot: at most one decision, a proposed one, although it may be reached on the
  fast path, in phase 2 of any round, or by hearsay; a proposer with a majority
  finishes.
* Log: everyone delivers prefixes of one log; retention has no holes; nothing that
  somebody needs is freed, except by the budget; laggards catch up.
* Pool: each command is delivered at most once, in the same slot everywhere;
  none is stranded; pools, batches and the dedup state are bounded.
* Timers: a caller that sleeps until each wakeup neither spins nor oversleeps; what a
  stuck proposer repeats does not hold back those who would rescue the slot, and none of them starts before its turn.
* Wire: bytes decode to what was encoded, or not at all, and in one way only.

## 2. Modules

```
Proposals -- Isr ----------\
          \- ProposerRun -- SlotConsensus ==> Consensus           MCSlot
LogReplica -- ReplicaLog ==> OrderedLog                           MCLog
CommandPool ==> ExactlyOnce                                       MCPool
LeaderLoad
Deadlines -- Timers                                               MCTimers
Wire                                                              MCWire

Invariants:  SlotInvariant, LogInvariant, PoolInvariant, TimersInvariant
Proofs:      SlotTypes -- SlotSafety -- SlotTheorems
             CountingTheorems -- LogTheorems, PoolTheorems, TimersTheorems, WireTheorems
```
(`==>`: implements, checked by TLC as a refinement and proved.) Each component's inductive
invariant is a module between the component and its proofs, so that the run that checks it
does not load a proof module.

The three machines are stacked by contract. `ReplicaLog` replaces the slot
protocol by what `SlotConsensus` guarantees: slot *s* can only be decided with
one value. `CommandPool` replaces both by: a slot is decided with one of the batches
proposed in it, and any replica may come by the decision at any time. In these three
a timer may fire whenever it likes; `Timers` is the other side, one replica with its clock,
whose peers do what they like. `Wire` stands alone.

### Slot consensus
`Isr` and `ProposerRun` are the pure functions of `recorder.rs` and
`proposer.rs`: `Recorded` is `record`, `Counted` the counting half of `fold`,
`DecidesFast`, `DecidesSlow`, `Stalls` and `NextProposal` the arms of
`step_complete`. `SlotConsensus` runs them: `Activate`, `Drive` (local record,
local fold, broadcast), `Retransmit`, `OnRecordOpen`, `OnRecordDecided`,
`OnRecordReply`, `OnDecide`. `firsts` and `aggs` are history: what each recorder
recorded in each step. `decided` and `run` together are `RecorderSlot` and
`ProposerState`.

Abstractions. A replica is its position in the sorted membership, from 1, so the
order on positions is the order on ids that breaks ties. A value is an integer; only
its order matters. A message stays in its set once sent and may be handled
any number of times, at any time or never: loss, duplication and reordering need
no action. Deadlines may pass whenever they like. A replica outside `Up` is
dead from the start; one that dies later is one that takes no more steps, which
safety runs include. `Echo` is written `Nil`: `first` of a full reply is
never nil. A group of one, whose runs complete inside `drive`, is not
modelled (`N >= 2`).

### Replicated log
`LogReplica` is what a replica keeps and the functions that handlers share;
`ReplicaLog` the handlers and timers, one action each. `tick` runs its seven
parts in a row; here each is an action, so every whole tick is a sequence of
steps of the model and further interleavings are checked too.
`receive` is: `Heard` (the header), the handler, `Epilogue`
(`maybe_request_learn`, then `maybe_gc`). `decide_slot` is `DecideSlot`, with
`try_deliver`, `maybe_gc` and `maybe_open_slots` inside. `on_learn_reply`
takes one step for each value, and the replica does nothing else until it is
through. Values have sizes: the budget and the chunks count bytes, and `retained_bytes` is
a counter of its own, kept by the same additions and subtractions. Commands
are a free choice: whenever the code would look for a batch there may be one.
`learn_attempts` is kept modulo `Attempts`, a multiple of every number of
candidates that occurs, as the code only uses it so.

### Command pool
`CommandPool` follows a command: `Submit`, `OnForward`, `Reforward`, the batching
operators `Batchable`, `BatchOf` and `Batch` (`take_unassigned_batch`, with the costs of the commands), `Opened`
(`maybe_open_slots`, with as many slots and batches as the code's loop takes),
`Hedge`, and `Decide` (`decide_slot`: release the losers, `try_deliver`, open
further slots). `Marked` is `mark_delivered` for a set of commands.
`pool_pending_since` is `Unassigned(r) # {}`, which `Timers` shows to be right
(`PendingIsReal`). A Forward message of `reforward_due` is a step;
`forward_attempts` is kept modulo the number of targets. Retention is left
out, since a delivered slot plays no part here, and with it the refusal by the budget,
which is a decision that comes later.

`LeaderLoad` is the leader's pool when submissions never end: its own commands are
counted instead of numbered, and a follower's waits among them.

### Timers
`Deadlines` is the arithmetic: the clamps of `Config`, the saturating sums, and for each
timer the test that `tick` makes (`HedgeDue`, `TimerDue`) next to the deadline that `next_wakeup`
advertises (`HedgeDeadline`, `TimerDeadline`). `Timers` is one replica, the leader or another:
`Ticked` is `tick` with its seven parts in their order, `Wakeups` the deadlines that `next_wakeup` folds,
and every other action one input with all that it does to a timestamp. The caller is the one
of `next_wakeup`'s doc: time passes (`Elapse`) only up to the next wakeup; it may tick early, and
any message may come at any time. A slot has one timestamp, the one that counts
in its phase: `last_progress` when idle (`first_observed` is never later), `sent_at` when running.

### Wire format
`Encode`, `Decode`, `EncodeBatch`, `DecodeBatch` work on sequences of bytes; `Then` is Rust's `?`, and `Layout`
lists what `decode` reads for each kind. A byte is a digit in base `Base` and the widths of u32 and u64 are
constants, so that the greatest numbers are in reach; `Power` is the recursive function of the powers of `Base`.
The fields of a payload, a proposal or a command are a tuple in the order of the code. `IsMessage` and `IsBatch` say what the
program can encode: every number fits its width, every list has a u32 length (which `MAX_COMMAND_BYTES` and
`MAX_BATCH_BYTES_LIMIT` see to), and ids and priorities are not zero where zero is reserved. Between sender and receiver the bytes may be cut short,
extended or changed.

## 3. Runs

| Run | Asks | Instance |
|---|---|---|
| `slot_rounds` | `TypeOK`, `Agreement`, `SpreadBeforePhase2`, `NoNewValues`, `FastPathUnbeatable`, `NeverStalls`, `ImplementsConsensus` | 3 replicas, leader and a follower propose, through phase 2 of round 2, one reply in flight |
| `slot_alone` | `OneProposalPerStep`, `FoldIsFaithful`, `Inv`, `ProposersDecide` | 4 replicas, the leader dead, so that all others are needed; one proposer, fairness |
| `log_two` | `LogPrefix`, `RetentionContiguous`, `BudgetHolds`, `ProposersNearFrontier`, `LearnedIsInPlace`, `Inv`, `ImplementsOrderedLog` | 2 replicas, 3 slots of 1, 1 and 2 bytes, pipeline and ahead window 2, chunks and a budget of 2 bytes |
| `log_three` | `NothingNeededIsFreed`, `WatermarksAreReal`, `SettledStaysSettled` | 3 replicas, 2 slots |
| `log_lagging` | `LaggardsCatchUp` | 3 replicas, leader may crash, fairness |
| `pool_two` | `TypeOK`, `NothingStranded`, `PoolForgetsDelivered`, `DedupWithinWindow`, `BatchesFit`, `Inv`, `ImplementsExactlyOnce` | 2 replicas, 4 commands, 3 of them of one origin, one of them larger than a batch, 3 slots, pools of 4 bytes, window 2 |
| `pool_alone` | `LogKeepsMoving` | 3 replicas, leader dead, fairness |
| `timers` | `WakeupAdvances`, `WakeupIsComplete`, `PendingIsReal`, `RescueInTime`, `HedgesInTurn`, `Inv` | the leader, or the last of 3, 2 slots, 3 commands, one of them of another replica and beyond its window |
| `wire` | `TypeOK`, `RoundTrip`, `PrefixFree`, `Canonical` | every kind of payload, bytes of 8 values, u32 of 2 and u64 of 3 of them |
| `log_ahead`, `log_freed`, `pool_load` | three statements of the code's docs | violated, see section 6 |

In the log and the timers `TypeOK` is checked as the first conjunct of `Inv`. Each property of a passing run has a mutant, a plausible bug in a mapped
definition that the run must catch.

**Why the bounds are enough.** Two proposers are the least for a conflict, and
three replicas the least for two majorities that share a single recorder; four
make a proposer wait for two remote replies. `slot_alone` has a single proposer, so that its own recorder is
never ahead of its run; that case of `drive` arises in `slot_rounds`, where two proposers use each other's
recorders (`NoNewValues`, `Agreement`), and in the proof of `Inv`. `PriorityH = 2` leaves followers the one
priority 1, so every tie is broken by the proposer; 3 leaves two. `MaxStep`
(6 is phase 2 of round 1, 10 of round 2) ends runs that would otherwise go on. For the log, three slots are the least with a frontier, a gap and
a decision beyond it, and a chunk that spans the frontier; a budget of
2 bytes for 4 lets every value after the first force the escape hatch or be refused, and an ahead window of 2 puts
the third slot out of reach of a stuck frontier. For the pool, three slots let a command lose, be batched
again, and win twice; three commands of one origin exceed a window of two; one of them
exceeds a batch, and with another fills a pool. For the timers two slots are a frontier and a slot beyond, and the delays
(hedging 1, retransmission asked for as 0 and clamped to 2, pings 3) differ, so that deadlines come in every order; saturation, out of reach of
a small clock, is proved (section 5), and so is what a Forward message of several commands does, as only one command of `timers` is
another replica's.
`AheadWindow` is `ahead_window()`, 68 or more in the code and 2 or 3 here;
`MaxSlot` is where the log ends.

**Reductions.** `VIEW` leaves out messages that have been overtaken: those
whose handling changes nothing any more, whenever it happens. Each MC module
defines them next to the handler's condition (`LiveRecord`, `LiveReply`, ...);
parts of the history that an invariant of the run looks at are in the view.
`slot_alone`, which checks `Inv` and `OneProposalPerStep` on all that was ever sent, has no view. `BoundedReplies`
and `BoundedNetwork` limit the live messages in flight, and
`FewProposers` the replicas whose proposers are explored in the log. In the slot a replica can
always get rid of a live reply by handling it, and `slot_alone` goes without the limit; in the log, `Lose` discards a live message to make
room, as loss is otherwise implicit. `log_lagging` starts from a reachable state
(`LaggingInit`: the leader proposes, one follower has taken part, pings are under way) and has the actions that
`Fairness` speaks of, the leader's decision and its crash.
`timers` replaces each timestamp in its view by its age, up to the delay that it is compared with,
which is all that the future depends on; so the clock need not be bounded.
The properties proved in section 5 hold without any of these.

**Deadlock** is checked for the slot, the log, the timers and the load. The pool's instances turn it
off: a replica whose commands are all delivered has nothing to do; and in `wire` a message that has arrived stays.

## 4. Fairness

* Slot: `tick` is called for ever, so a replica eventually activates and
  retransmits, and what is retransmitted for ever is eventually handled.
  Nothing is assumed of `Decide`, which is broadcast once. With one proposer that is enough
  (`ProposersDecide`). With several, termination is a matter of probability: the priorities
  are random, and an adversary that chose them could go on for ever.
* Log: weak fairness of the pings, of `learn_tick` and of the messages they repeat.
  Nothing of `Decide` or of proposers. `OnPingInTime` keeps the assumption
  from hiding the rotation: a ping need not arrive when a request happens to have timed out.
* Pool: a replica eventually looks at its frontier, hedges, and comes by the decision of
  a slot it runs in, given a majority. Nothing of `Forward`.
* Load: the leader's slots are decided, and the follower's command gets into the leader's pool; even so it is not delivered.

## 5. Proofs

Every safety property that a passing run checks is proved for all values of the
constants that the named assumptions allow. For the four state machines of the protocol it goes the same way: an
inductive invariant `Inv`, checked by a run first; what every operator of the model makes of a state
that satisfies it; one lemma per action; and the properties as consequences. The wire format is an algorithm, and
its proof is one about data.

### The slot

About `SlotConsensus`, for every `N >= 2`, `PriorityH >= 2`, set
of values, set of live replicas, batches and step bound; the assumptions are
`NAssumption`, `PriorityAssumption`, `ValueAssumption`, `UpAssumption`,
`BatchesAssumption` and `MaxStepAssumption`.

| Theorem | States |
|---|---|
| `TypeCorrect` (`SlotTypes`) | `Spec => []TypeOK` |
| `InvHolds` (`SlotSafety`) | `Spec => []Inv` |
| `AgreementHolds`, `FastPathUnbeatableHolds`, `SpreadBeforePhase2Holds`, `NoNewValuesHolds`, `OneProposalPerStepHolds`, `FoldIsFaithfulHolds` (`SlotTheorems`) | the safety invariants |
| `NeverStallsHolds` | the action property |
| `ImplementsConsensusHolds` | `Spec => C!Spec`: the refinement |

**The argument.** `Agreement` is far from inductive: it says nothing of
proposals under way. `Inv` (`SlotInvariant`) has three layers.
1. *Bookkeeping.* A register holds the end of its recorder's history; what was recorded was
   sent; a run is in the last step its proposer sent; a reply tells what its recorder had;
   a run has folded what the counted recorders hold (`FoldIsFaithful`).
2. *Justification.* A phase-1 proposal is the best that a majority recorded first
   (`Gathered`); a phase-2 or phase-3 proposal had reached a majority one step earlier (`Spread`);
   a new round starts from the best of a majority's phase 2 once it was over (`Carried`);
   each value has been proposed in every step before (`Inherited`).
3. *Decisions.* Behind each decision or `Decide` message stands a majority that saw the leader's
   proposal first in step 4 (`FastDecision`), or one whose best of phase 1 got into its phase 2
   (`SlowDecision`, `Confirmed`).

All the majorities are stated about the history, which only grows, so they are stable
(`GatheredStable`, `SpreadStable`, ...), and `InvInductive` has one lemma per action.
From `Inv`: a fast decision binds every proposal after step 4 (`FastIsFinal`), a confirmed
proposal is the greatest of its phase 2 and binds all later rounds
(`ConfirmedIsGreatest`, `ConfirmedIsFinal`), each because two majorities meet
(`QuorumsMeet`); hence decisions are unique (`DecisionUnique`). `NeverStalls`
follows because a phase-3 majority meets the phase-2 majority its step came from.

### The log

About `ReplicaLog`, for every `N >= 2`, number of slots, sizes of values, log (`Chosen`), pipeline, ahead window no smaller, budget, chunk size and
number of crashes: `NAssumption`, `SlotAssumption`, `SizeAssumption`, `ChosenAssumption`, `LimitsAssumption`,
`AttemptsAssumption` and `NetworkAssumption`, all in `LogTheorems`.

| Theorem | States |
|---|---|
| `InvHolds`, `TypeOKHolds` | `Spec => []Inv`, `Spec => []TypeOK` |
| `LogPrefixHolds`, `RetentionContiguousHolds`, `WatermarksAreRealHolds`, `NothingNeededIsFreedHolds`, `BudgetHoldsAlways`, `ProposersNearFrontierHolds`, `LearnedIsInPlaceHolds` | the safety invariants |
| `SettledStaysSettledHolds` | the action property |
| `ImplementsOrderedLogHolds` | the refinement of `OrderedLog` |

None of them is inductive alone. `Inv` (`LogInvariant`) has four parts.
* `Sound`, of one replica also in the middle of a handler: it retains exactly the slots that it has decided and not freed,
  without a hole between the floor and the watermark, each with its value; `retained_bytes` is the sum of their sizes, so the
  subtractions of `maybe_gc` never go below zero; undecided slots are near the frontier.
* `AtRest`, between two inputs: `try_deliver` has gone as far as it can, and `maybe_gc` has met the budget if it can be met.
  It is what makes a decision beyond the frontier harmless to the budget: the loop that frees never has to pass the watermark.
* `MessagesReal`: a watermark in a header, however old, does not exceed what its sender has delivered by now; a `LearnReply` holds
  the values of its slots, starts no later than the asker's frontier (which only moves on), and ends within the watermark in its header.
* `ChunksReal`: the same for a chunk half installed.

`WatermarksAreReal` closes the circle: the floor of the GC is the least acknowledged watermark, which is real, so
nobody needs what is freed below it. `NothingNeededIsFreed` is stated where the budget holds the whole log, since the escape hatch
frees regardless. The refinement maps a step to one of `OrderedLog`, or to a stutter, because an action
moves one replica, and the log is that of a replica that is furthest (`LongestExists`, `OneMoves`).

### The pool

About `CommandPool`, for every `N >= 2`, set of live replicas, numbers of commands, sizes, pipeline, batch and pool limits and window:
`NAssumption`, `SubmissionsAssumption`, `LimitsAssumption`, `SizeAssumption`, all in `PoolTheorems`.

| Theorem | States |
|---|---|
| `InvHolds`, `TypeOKHolds` | `Spec => []Inv`, `Spec => []TypeOK` |
| `NothingStrandedHolds`, `PoolForgetsDeliveredHolds`, `BatchesFitHolds`, `DedupWithinWindowHolds` | the safety invariants |
| `ImplementsExactlyOnceHolds` | the refinement of `ExactlyOnce` |

`Inv` (`PoolInvariant`) says that what a replica keeps follows from the decisions of the slots that it has delivered, and from nothing else (`Consistent`):
its mark and sparse set hold the numbers decided so far, with the mark as far up as can be; its log has each command in its first slot; its
pool has none of them; and a claimed entry is claimed for a slot that is still to be delivered, in which
the replica runs or which the command has won. The last is why `NothingStranded` holds: `decide_slot` releases what
lost, delivery forgets what won, and there is no third case.

`DedupWithinWindow` needs more than one replica. A batcher checks the window against its *own* mark, whereas the sparse
sets that must stay small are everyone's, and others may be behind or ahead. `ProposedWithinWindow` relates
the two: the batcher's mark is the mark of a prefix of the one log that ends before the slot it opens, so what
it vouches for has been delivered by everybody who delivers that slot. `KeptByOrigin` lets `Submit` number
a new command without meeting an old one.

### The timers

About `Deadlines` and `Timers`, for all delays and times, any position in the schedule, and all limits, slots and commands (finitely many):
`DelaysAssumption`, `CommandsAssumption`, `BoundsAssumption`, all in `TimersTheorems`.

| Theorem | States |
|---|---|
| `DueFromDeadlineOn` | `tick`'s test of an age and `next_wakeup`'s deadline agree on every timer but the hedging one, as long as the clock is short of `u64::MAX` |
| `ServedTimerIsAhead` | a timer served now has its next deadline ahead of the clock |
| `InvHolds`, `TypeOKHolds` | `Spec => []Inv`, `Spec => []TypeOK` |
| `PendingIsRealHolds`, `WakeupIsCompleteHolds`, `RescueInTimeHolds`, `WakeupAdvancesHolds` | the safety invariants |
| `HedgesInTurnHolds` | the action property: position k starts a proposer in a slot only k * hedge_delay after the last change of its register |

The first two rest on the clamps (`DelaysClamped`, `ForwardIntervalPositive`): with a retransmission delay of zero the second would be false.
They reach sums at the edge of u64, which `timers` cannot. They also show what
is true there: at the last instant a saturated deadline is not ahead of the clock, so `WakeupAdvances` speaks of ticks before it.

`Inv` (`TimersInvariant`) adds two facts to `TypeOK` and `PendingIsReal`. `NothingToOpen`: after every input the leader has opened a slot
for all that it could. Without it `WakeupIsComplete` would fail, as `next_wakeup` advertises no
deadline for the leader's batches and `tick` opens slots for them. It holds because every input of the
leader's that brings commands or makes room for them ends with `maybe_open_slots`, and one call of it leaves nothing (`NothingLeftToOpen`), which is an argument about
the ranks of commands in the order of batching (`RankExists`). `IdleSinceLastChange`: an idle slot counts its
age from the last change of its register. That it is no earlier change is what `HedgesInTurn` rests on, that it is nothing later, such as a
retransmission, what `RescueInTime` needs of a slot before it is due. Both speak of one replica and its own clock: each replica
has its own view of a slot's progress, and nothing is claimed of the order in which two of them hedge.
`TickedServes` goes through the seven parts of `tick` in their order and shows that none undoes what an
earlier one has served; then all deadlines are ahead (`ServedWakeupsAhead`), and the other way round, before the earliest of them every part does nothing (`NothingToServe`).

### The wire format

About `Wire`, for every base above 7, all widths of u32 and u64, and all messages and batches:
`WidthsAssumption` (a byte holds the version, the kinds and the tags) and `MessagesAssumption` (what is sent is what
the program's types allow). The code is the instance 256, 4, 8.

| Theorem (`WireTheorems`) | States |
|---|---|
| `DecodeInvertsEncode`, `DecodeInvertsEncodeBatch` | each decoder inverts its encoder, refuses any bytes after what was encoded, and accepts nothing else |
| `WireInvariantHolds` | `Spec => []WireInvariant` |
| `TypeOKHolds`, `RoundTripHolds`, `PrefixFreeHolds`, `CanonicalHolds` | the safety invariants |

**The argument.** A *format* (`IsFormat`) is a way to put the values of a set into bytes and to read them back such that, whatever
follows, the reader gives back the value and leaves exactly what follows; and bytes it reads start with
the bytes of some value. This is stronger than the round trip and is what composes:
formats one after the other (`TupleFormat`, for `InOrder`), a head whose value selects the format of the rest
(`HeadedFormat`, for tags, counts and the kind of a payload), and a format some of whose values are refused
(`FilterFormat`, for nil proposals and the header). A number of a width is a format because the digits of a number are unique
(`NumberOfDigits`, `DigitsOfNumber`). From these, type by type: numbers and byte strings, proposals, commands, options, lists, each payload,
`MessageFormat` and `BatchFormat`. A reader that must also reach the end (`Finished`) makes of a format a decoder
(`FinishedFormat`, `IsDecoder`).
`RoundTrip`, `Canonical` and what `TypeOK` says of decoded values are the three laws of a decoder. `PrefixFree` needs `WireInvariant`, which says how damaged
bytes come from those that were sent: if bytes without their end decoded, they would be the encoding of another message,
and then those of the message sent would go on after it and be refused.

The provers cannot use a rule of induction with an operator parameter. Here a recursive definition is the limit of iterated
steps (`IteratesExist`, `IteratesAre`), so that `InOrder`, `Number`, `Power` and `FlattenSeq` over any number of items are
what one step after another makes of them, and a property of all the steps holds because there is no smallest step that violates it.

### Counting

`CountingTheorems` has what the others need of data of any size, and what would otherwise call for induction: sums over finite sets (`SumWith`, `SumOfUnion`, ...,
for the bytes of a budget, a batch or a pool), a least and a greatest element, ranks in a finite strict order, and the
mark of a set of numbers. Each is proved by a smallest counterexample: a smallest set (`SmallestSubset`, by cardinality) or
number (`SmallestNumber`) that violates it, from the library's facts about finite sets.

**Model-checked only.** Liveness under fairness (`ProposersDecide`, `LaggardsCatchUp`, `LogKeepsMoving`), which TLAPS does not
prove.

## 6. Findings

Three statements are not what the code does; none harms safety.
* `replica.rs:689-691`: "proposers only run within the pipeline of the frontier". A follower hedges
  any idle slot above its frontier, and `on_record` creates such slots up to
  `4 * pipeline + 64` ahead (`log_ahead`). What bounds a replica's own decisions ahead of its frontier is that window.
* `replica.rs:442-444`: "Freed slots are only ever probed by stragglers that have themselves delivered past
  them". The escape hatch of `maybe_gc` frees slots whatever the others have delivered, and a replica that still needs such a slot
  probes it and gets no answer (`log_freed`).
* `replica.rs:215-217`: "It will be delivered exactly once [...] (as long as this process stays up to keep re-proposing it)". Batches take the lowest
  ids first and the leader has the lowest origin, so while the leader's own submissions fill every batch a follower's command stays in its pool; and
  as the slots are decided in time, nobody hedges (`pool_load`).

## 7. Not modelled

* `rng.rs`: any draw in range is possible. `lib.rs`: no code.
* `sim.rs`: the test harness. Its network and its crashes are the environment of the models.
* `config.rs`: the errors of `Config::new`. Its clamps are the assumptions on the constants, those of the delays are in `Deadlines`.
* Clocks of several replicas together: `Timers` has one, and the others' timers fire at any time.
* Groups of one replica, whose runs complete inside `drive`. Restarts: the crate is crash-stop, and a boot id only separates the commands of
  a process from those of another life.

## 8. Plan

Done: the slot protocol, the log, the pool, the timers and the wire format, each with its proofs. Next: whether the
contracts between the machines can be stated as refinements. `ReplicaLog`'s one value per slot is `Agreement`,
but the two modules keep different states of a slot.
