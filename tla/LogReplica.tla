----------------------------- MODULE LogReplica -----------------------------
(***************************************************************************)
(* What one replica keeps of the log (src/replica.rs, struct Replica), and *)
(* the functions on it that the message handlers and the timers share:     *)
(* decide_slot, try_deliver, maybe_gc and maybe_open_slots.                *)
(*                                                                         *)
(* The slot protocol is replaced by what SlotConsensus shows of it: slot s *)
(* can only be decided with the one value Chosen[s].  The command pool is  *)
(* replaced by a free choice: whenever the code would look for unassigned  *)
(* commands there may or may not be some.                                  *)
(*                                                                         *)
(* An operation whose result depends on such a choice, or is the end of a  *)
(* loop, is given as the set of states it can leave the replica in.        *)
(***************************************************************************)
EXTENDS Integers, FiniteSetsExt, Sequences

CONSTANTS N,            \* number of replicas
          Value,
          Size,         \* the size of each value in bytes (never 0: encode_batch)
          MaxSlot,      \* bound: no slot past this one is opened
          Chosen,       \* the value of each slot, should it be decided
          Pipeline,     \* config.pipeline
          AheadWindow,  \* ahead_window(), 4 * pipeline + 64 in the code
          MaxRetained,  \* config.max_retained_bytes
          Attempts      \* learn_attempts is kept modulo this number

Replica == 1..N
Leader == 1
Slot == 1..MaxSlot
Watermark == 0..MaxSlot

ASSUME NAssumption == N \in Nat /\ N >= 2
ASSUME SlotAssumption == MaxSlot \in Nat \ {0}
ASSUME SizeAssumption == Size \in [Value -> Nat \ {0}]
ASSUME ChosenAssumption == Chosen \in [Slot -> Value]
ASSUME LimitsAssumption ==
  /\ Pipeline \in Nat \ {0} /\ AheadWindow \in Nat /\ AheadWindow >= Pipeline
  /\ MaxRetained \in Nat
ASSUME AttemptsAssumption == Attempts \in Nat \ {0}

\* A state of a slot: SlotState with its recorder and proposer roles.  The two
\* become Decided and Done together.
SlotStates == {"idle", "running", "decided"}

\* Functions from some of the slots (the BTreeMaps `slots` and `retained`).
SlotMap(S) == UNION {[D -> S] : D \in SUBSET Slot}

ReplicaState ==
  [contig : Watermark,                \* decided_contig
   gcFloor : Watermark,               \* gc_floor
   slots : SlotMap(SlotStates),
   retained : SlotMap(Value),
   bytes : Nat,                       \* retained_bytes
   acked : [Replica -> Watermark],    \* peer_acked
   maxOpen : Watermark,               \* max_open
   learning : BOOLEAN,                \* learn_in_flight is Some
   attempts : 0..(Attempts - 1),      \* learn_attempts
   delivered : Seq(Value),            \* history: every Deliver action so far
   recorded : SUBSET Slot]            \* history: slots its recorder took part in

\* Replica::new.
NewReplica ==
  [contig |-> 0, gcFloor |-> 0, slots |-> <<>>, retained |-> <<>>, bytes |-> 0,
   acked |-> [j \in Replica |-> 0], maxOpen |-> 0,
   learning |-> FALSE, attempts |-> 0, delivered |-> <<>>, recorded |-> {}]

Put(f, s, x) == [t \in DOMAIN f \cup {s} |-> IF t = s THEN x ELSE f[t]]
Without(f, S) == [t \in DOMAIN f \ S |-> f[t]]

\* The sizes of the values of some of the retained slots, together.
SizeOf(r, S) ==
  SumFunctionOnSet([s \in DOMAIN r.retained |-> Size[r.retained[s]]], S \cap DOMAIN r.retained)

HasSlot(r, s) == s \in DOMAIN r.slots
IsDecided(r, s) == HasSlot(r, s) /\ r.slots[s] = "decided"
RunningSlots(r) == {s \in DOMAIN r.slots : s > r.contig /\ r.slots[s] = "running"}

\* The entry of the slot, created if need be.
Observed(r, s) == IF HasSlot(r, s) THEN r ELSE [r EXCEPT !.slots = Put(@, s, "idle")]

-----------------------------------------------------------------------------
\* try_deliver: deliver the retained slots that follow the watermark, as far
\* as they go without a gap.
DeliverableTo(r) ==
  {c \in r.contig..MaxSlot :
     /\ \A s \in (r.contig + 1)..c : s \in DOMAIN r.retained
     /\ c + 1 \notin DOMAIN r.retained}

DeliveredTo(i, r, c) ==
  [r EXCEPT !.contig = c,
            !.acked[i] = c,
            !.delivered = @ \o [k \in 1..(c - r.contig) |-> r.retained[r.contig + k]]]

\* Mutant: a majority is enough.
MajorityAcked(r) ==
  CHOOSE w \in Watermark :
    /\ 2 * Cardinality({j \in Replica : r.acked[j] >= w}) > N
    /\ 2 * Cardinality({j \in Replica : r.acked[j] > w}) <= N

\* maybe_gc, first loop: everything that all replicas have acknowledged.
LeastAcked(r) ==
  CHOOSE w \in Watermark : /\ \E j \in Replica : r.acked[j] = w
                           /\ \A j \in Replica : w <= r.acked[j]
AckedFloor(r) == IF LeastAcked(r) > r.gcFloor THEN LeastAcked(r) ELSE r.gcFloor

\* Mutant: no escape hatch.
FloorsWithoutBudget(r) == {AckedFloor(r)}

\* maybe_gc, second loop: then the oldest delivered slots, one by one, while
\* the retained values exceed the budget.
LeftAt(r, floor) == r.bytes - SizeOf(r, (r.gcFloor + 1)..floor)

StopsAt(r, floor) ==
  \/ LeftAt(r, floor) <= MaxRetained
  \/ \A s \in DOMAIN r.retained : s > floor => s > r.contig

FloorsAfter(r) ==
  LET candidates == {AckedFloor(r)} \cup
                    {s \in DOMAIN r.retained : AckedFloor(r) < s /\ s <= r.contig}
  IN  {f \in candidates :
         StopsAt(r, f) /\ \A g \in candidates : g < f => ~StopsAt(r, g)}

\* Mutant: the floor does not follow what is freed.
FreedBelowOldFloor(r, floor) ==
  LET freed == (r.gcFloor + 1)..floor
  IN  [r EXCEPT !.gcFloor = AckedFloor(r), !.bytes = LeftAt(r, floor),
                !.slots = Without(@, freed), !.retained = Without(@, freed)]

Freed(r, floor) ==
  LET freed == (r.gcFloor + 1)..floor
  IN  [r EXCEPT !.gcFloor = floor, !.bytes = LeftAt(r, floor),
                !.slots = Without(@, freed), !.retained = Without(@, freed)]

Collected(r) == {Freed(r, f) : f \in FloorsAfter(r)}

\* maybe_open_slots: the leader opens as many slots as it has batches for,
\* within the pipeline and its distance from the frontier.
LastKnown(r) ==
  {w \in Watermark : /\ w = 0 \/ HasSlot(r, w)
                     /\ \A s \in DOMAIN r.slots : s <= w}

FirstToOpen(r) ==
  {w + 1 : w \in {x \in LastKnown(r) \cup {r.maxOpen, r.contig} :
                    \A y \in LastKnown(r) \cup {r.maxOpen, r.contig} : y <= x}}

OpenedUpTo(r, first, last) ==
  [r EXCEPT !.slots = [s \in DOMAIN @ \cup (first..last) |->
                         IF s \in first..last THEN "running" ELSE @[s]],
            !.recorded = @ \cup (first..last),
            !.maxOpen = IF last >= first THEN last ELSE @]

\* Mutant: only the running proposers count.
InPipelineAnywhere(r, first, last) ==
  Cardinality(RunningSlots(r)) + (last - first + 1) <= Pipeline

InPipeline(r, first, last) ==
  /\ Cardinality(RunningSlots(r)) + (last - first + 1) <= Pipeline
  /\ last <= r.contig + Pipeline

Opened(i, r) ==
  IF i # Leader
    THEN {r}
    ELSE UNION {{OpenedUpTo(r, first, last) :
                   last \in {l \in (first - 1)..MaxSlot :
                               l >= first => InPipeline(r, first, l)}} :
                first \in FirstToOpen(r)}

\* decide_slot.  A remote decision ahead of the frontier is refused once the
\* retention budget is used up, and so is anything already freed.
Refuses(r, s, v, isDecider) ==
  \/ s <= r.gcFloor
  \/ ~isDecider /\ s > r.contig + 1 /\ r.bytes + Size[v] > MaxRetained

Installed(r, s, v) ==
  [r EXCEPT !.slots = Put(@, s, "decided"), !.retained = Put(@, s, v),
            !.bytes = IF s \in DOMAIN r.retained THEN @ ELSE @ + Size[v]]

AfterInstalling(i, r) ==
  UNION {UNION {Opened(i, q) : q \in Collected(DeliveredTo(i, r, c))} :
           c \in DeliverableTo(r)}

DecideSlot(i, r, s, v, isDecider) ==
  IF Refuses(r, s, v, isDecider) \/ IsDecided(r, s)
    THEN {r}
    ELSE AfterInstalling(i, Installed(r, s, v))

\* Replicas known to be ahead of the watermark.
PeersAhead(i, r) == {j \in Replica \ {i} : r.acked[j] > r.contig}

\* The candidate that learn_tick asks: the list of peers ahead, in schedule
\* order, indexed by the number of timeouts.
LearnTarget(i, r) ==
  CHOOSE j \in PeersAhead(i, r) :
    Cardinality({k \in PeersAhead(i, r) : k < j}) =
      r.attempts % Cardinality(PeersAhead(i, r))
=============================================================================
