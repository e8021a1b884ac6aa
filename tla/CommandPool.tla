----------------------------- MODULE CommandPool -----------------------------
(***************************************************************************)
(* The life of a command (src/replica.rs: submit, on_forward,              *)
(* maybe_open_slots, take_unassigned_batch, hedge_activate_due,            *)
(* reforward_due, and the pool's share of decide_slot and try_deliver;     *)
(* src/pool.rs): it is put into its origin's pool, forwarded, batched into *)
(* a slot, batched anew if it loses the slot, and delivered once.          *)
(*                                                                         *)
(* A slot is decided as SlotConsensus shows, with one of the batches       *)
(* proposed in it.  Any replica may come by a decision at any time, as in  *)
(* ReplicaLog; retention is left out, for slots once delivered play no     *)
(* part here.  A process submits under a single boot id.                   *)
(***************************************************************************)
EXTENDS Integers, FiniteSetsExt, Sequences

CONSTANTS N,
          Up,           \* the replicas that ever take a step
          Submissions,  \* how many commands each replica submits
          Size,         \* Pool::cost of each command, its overhead included
          MaxSlot,      \* bound: no slot past this one is opened
          Pipeline,     \* config.pipeline
          MaxBatch,     \* config.max_batch_bytes
          MaxPool,      \* config.max_pool_bytes
          Window        \* DEDUP_WINDOW

Replica == 1..N
Leader == 1
Slot == 1..MaxSlot

ASSUME NAssumption == N \in Nat /\ N >= 2 /\ Up \subseteq Replica
ASSUME SubmissionsAssumption == Submissions \in [Replica -> Nat]
ASSUME LimitsAssumption ==
  /\ MaxSlot \in Nat
  /\ {Pipeline, MaxBatch, MaxPool, Window} \subseteq Nat \ {0}

\* CommandId, in its order.
Command == UNION {[origin : {i}, seq : 1..Submissions[i]] : i \in Replica}
Before(c, d) == c.origin < d.origin \/ (c.origin = d.origin /\ c.seq < d.seq)
Cost(C) == SumFunctionOnSet(Size, C)

ASSUME SizeAssumption == Size \in [Command -> Nat \ {0}]

VARIABLES
  rep,        \* the state of each replica
  forwards,   \* the Forward messages sent
  proposals,  \* the batches proposed in each slot
  decisions   \* the decided batch of each slot, in a set, or {}

vars == <<rep, forwards, proposals, decisions>>

\* PoolEntry: slot 0 is no slot; forward_attempts is kept modulo the number of
\* targets.
PoolEntry == [proposedIn : 0..MaxSlot, attempts : 0..(N - 2)]
Pools == UNION {[C -> PoolEntry] : C \in SUBSET Command}
OriginDedup == [highWater : Nat, above : SUBSET Nat]

ReplicaState ==
  [contig : 0..MaxSlot,                                      \* decided_contig
   slots : [Slot -> {"none", "idle", "running", "decided"}],
   maxOpen : 0..MaxSlot,
   pool : Pools,
   dedup : [Replica -> OriginDedup],
   nextSeq : Nat,
   log : Seq(SUBSET Command)]                   \* history: every Deliver action

NewReplica ==
  [contig |-> 0, slots |-> [s \in Slot |-> "none"], maxOpen |-> 0, pool |-> <<>>,
   dedup |-> [o \in Replica |-> [highWater |-> 0, above |-> {}]],
   nextSeq |-> 0, log |-> <<>>]

Init == /\ rep = [i \in Replica |-> NewReplica]
        /\ forwards = {}
        /\ proposals = [s \in Slot |-> {}]
        /\ decisions = [s \in Slot |-> {}]

-----------------------------------------------------------------------------
(* The pool and the batches drawn from it. *)

Inserted(p, C, attempts) ==
  [c \in DOMAIN p \cup C |->
     IF c \in DOMAIN p THEN p[c] ELSE [proposedIn |-> 0, attempts |-> attempts]]
Removed(p, C) == [c \in DOMAIN p \ C |-> p[c]]
Unassigned(r) == {c \in DOMAIN r.pool : r.pool[c].proposedIn = 0}
ClaimedFor(r, s) == {c \in DOMAIN r.pool : r.pool[c].proposedIn = s}

\* Dedup: is_delivered, and mark_delivered for all of the commands C.
IsDelivered(d, c) ==
  c.seq <= d[c.origin].highWater \/ c.seq \in d[c.origin].above

Marked(d, C) ==
  [o \in Replica |->
     LET all == (1..d[o].highWater) \cup d[o].above
                \cup {c.seq : c \in {b \in C : b.origin = o}}
         mark == CHOOSE h \in 0..Cardinality(all) : 1..h \subseteq all /\ h + 1 \notin all
     IN  [highWater |-> mark, above |-> all \ (1..mark)]]

\* take_unassigned_batch: the commands within the sequencing window of their origin.
Batchable(r) ==
  {c \in Unassigned(r) : c.seq <= r.dedup[c.origin].highWater + Window}

\* Mutant: the limit is looked at too late.
BatchOfOverfull(C) ==
  {c \in C : Cost({d \in C : Before(d, c)}) < MaxBatch}

\* take_unassigned_batch: as many of C as fit a batch, the lowest ids first, or a
\* single one that is too large.
BatchOf(C) ==
  UNION {P \in {{d \in C : ~Before(c, d)} : c \in C} : Cost(P) <= MaxBatch \/ Cardinality(P) = 1}

\* The batch that the k-th of several calls in a row takes.
Batch(r, k) ==
  LET taken[n \in 0..k] ==
        IF n = 0 THEN {} ELSE taken[n - 1] \cup BatchOf(Batchable(r) \ taken[n - 1])
  IN  taken[k] \ taken[k - 1]

\* maybe_open_slots: the leader opens the slots after the last one it knows, a
\* batch in each, as far as the pipeline goes and as long as there are batches.
Running(r) == {s \in Slot : s > r.contig /\ r.slots[s] = "running"}

FirstToOpen(r) ==
  CHOOSE f \in 1..(MaxSlot + 1) :
    LET known == {r.maxOpen, r.contig} \cup {s \in Slot : r.slots[s] # "none"}
    IN  f - 1 \in known /\ \A s \in known : s < f

Openable(r) ==
  {k \in 1..MaxSlot : LET s == FirstToOpen(r) + k - 1
                      IN  /\ Cardinality(Running(r)) + k <= Pipeline
                          /\ s <= r.contig + Pipeline /\ s <= MaxSlot
                          /\ Batch(r, k) # {}}

\* The replica activates in the slots from first on, the k-th with batch k.
Activated(r, first, count) ==
  [r EXCEPT
    !.slots = [s \in Slot |-> IF s \in first..(first + count - 1) THEN "running" ELSE @[s]],
    !.pool = [c \in DOMAIN @ |->
                LET k == {n \in 1..count : c \in Batch(r, n)}
                IN  IF k = {} THEN @[c] ELSE [@[c] EXCEPT !.proposedIn = first + Max(k) - 1]]]

Opened(i, r) ==
  IF i # Leader \/ Openable(r) = {}
    THEN r
    ELSE [Activated(r, FirstToOpen(r), Cardinality(Openable(r)))
            EXCEPT !.maxOpen = FirstToOpen(r) + Cardinality(Openable(r)) - 1]

\* Replica i moves to the state r.  Where it starts a run it proposes the
\* commands it has claimed for the slot.
Move(i, r) ==
  /\ rep' = [rep EXCEPT ![i] = r]
  /\ proposals' =
       [s \in Slot |-> proposals[s] \cup
          IF s \in Running(r) \ Running(rep[i]) THEN {ClaimedFor(r, s)} ELSE {}]

-----------------------------------------------------------------------------
\* forward_target: the other replicas in turn, the leader first.
Target(i, attempts) ==
  CHOOSE j \in Replica \ {i} :
    Cardinality({h \in Replica \ {i} : h < j}) = attempts % (N - 1)

\* submit.
Submit(i) ==
  LET r == rep[i]
      c == [origin |-> i, seq |-> r.nextSeq + 1]
      attempts == IF i = Leader THEN 0 ELSE 1 % (N - 1)
      after == [r EXCEPT !.nextSeq = @ + 1, !.pool = Inserted(@, {c}, attempts)]
  IN  /\ r.nextSeq < Submissions[i]
      /\ Cost(DOMAIN r.pool) + Size[c] <= MaxPool
      /\ Move(i, Opened(i, after))
      /\ forwards' = IF i = Leader THEN forwards
                     ELSE forwards \cup {[to |-> Target(i, 0), commands |-> {c}]}
      /\ UNCHANGED decisions

\* Mutants: commands that have been delivered, or exceed the limit, are let in.
FreshUnchecked(r, C) == {c \in C : c \notin DOMAIN r.pool}
AcceptedAll(r, C) == {C}

\* on_forward: new commands are taken in, in their order, each if there is room
\* for it besides those before.
Fresh(r, C) == {c \in C : ~IsDelivered(r.dedup, c) /\ c \notin DOMAIN r.pool}
Accepted(r, C) ==
  {A \in SUBSET C :
     \A c \in C : LET before == {d \in A : Before(d, c)}
                  IN  c \in A <=> Cost(DOMAIN r.pool \cup before) + Size[c] <= MaxPool}

OnForward(i) ==
  /\ \E m \in forwards : \E A \in Accepted(rep[i], Fresh(rep[i], m.commands)) :
       /\ m.to = i
       /\ Move(i, Opened(i, [rep[i] EXCEPT !.pool = Inserted(@, A, 0)]))
  /\ UNCHANGED <<forwards, decisions>>

\* reforward_due, one Forward message: own unassigned commands that have come
\* due and have the same target.
Reforward(i) ==
  /\ i # Leader
  /\ \E C \in SUBSET Unassigned(rep[i]), a \in 0..(N - 2) :
       /\ C # {} /\ (Cost(C) <= MaxBatch \/ Cardinality(C) = 1)
       /\ \A c \in C : c.origin = i /\ rep[i].pool[c].attempts = a
       /\ forwards' = forwards \cup {[to |-> Target(i, a), commands |-> C]}
       /\ Move(i, [rep[i] EXCEPT
            !.pool = [c \in DOMAIN @ |->
              IF c \in C THEN [@[c] EXCEPT !.attempts = (a + 1) % (N - 1)] ELSE @[c]]])
  /\ UNCHANGED decisions

-----------------------------------------------------------------------------
\* on_record, for a slot not seen before.
OnRecord(i) ==
  /\ \E s \in Slot : /\ proposals[s] # {} /\ rep[i].slots[s] = "none"
                     /\ Move(i, [rep[i] EXCEPT !.slots[s] = "idle"])
  /\ UNCHANGED <<forwards, decisions>>

\* Mutant: commands that wait are no reason to look at the frontier.
FrontierNeededBeyond(r) ==
  \E s \in Slot : s > r.contig + 1 /\ r.slots[s] # "none"

\* ensure_frontier_observed: commands wait (pool_pending_since), or a slot
\* beyond is known.
FrontierNeeded(r) ==
  \/ Unassigned(r) # {}
  \/ \E s \in Slot : s > r.contig + 1 /\ r.slots[s] # "none"

ObserveFrontier(i) ==
  /\ rep[i].contig < MaxSlot
  /\ rep[i].slots[rep[i].contig + 1] = "none"
  /\ FrontierNeeded(rep[i])
  /\ Move(i, [rep[i] EXCEPT !.slots[rep[i].contig + 1] = "idle"])
  /\ UNCHANGED <<forwards, decisions>>

\* hedge_activate_due, for a slot that has come due; the batch may be empty.
Hedge(i) ==
  /\ \E s \in Slot : /\ s > rep[i].contig /\ rep[i].slots[s] = "idle"
                     /\ Move(i, Activated(rep[i], s, 1))
  /\ UNCHANGED <<forwards, decisions>>

-----------------------------------------------------------------------------
\* Mutant: the claims of a decided slot stand.
ReleasesNone(p, s, v) == p

\* decide_slot: the commands that rode in slot s but are not in its value v.
Released(p, s, v) ==
  [c \in DOMAIN p |-> IF p[c].proposedIn = s /\ c \notin v
                        THEN [p[c] EXCEPT !.proposedIn = 0] ELSE p[c]]

\* Mutant: only what waits in the pool is delivered.
NewInPool(r, v) == {c \in v : c \in DOMAIN r.pool}

\* try_deliver, one slot with the value v: the commands not delivered before.
New(r, v) == {c \in v : ~IsDelivered(r.dedup, c)}
DeliverNext(r, v) ==
  [r EXCEPT !.contig = @ + 1,
            !.dedup = Marked(@, New(r, v)),
            !.pool = Removed(@, New(r, v)),
            !.log = Append(@, New(r, v))]

\* try_deliver: all decided slots from the frontier on; D gives their values.
DeliverAll(r, D) ==
  LET last == CHOOSE c \in r.contig..MaxSlot :
                /\ \A s \in (r.contig + 1)..c : r.slots[s] = "decided"
                /\ c < MaxSlot => r.slots[c + 1] # "decided"
      upTo[c \in r.contig..MaxSlot] ==
        IF c = r.contig THEN r ELSE DeliverNext(upTo[c - 1], CHOOSE v \in D[c] : TRUE)
  IN  upTo[last]

\* The values slot s can be decided with at replica i: the one decided before,
\* or if i runs in the slot, any that is proposed there.
Decidable(i, s) ==
  CASE decisions[s] # {} -> decisions[s]
    [] decisions[s] = {} /\ s \in Running(rep[i]) -> proposals[s]
    [] OTHER -> {}

Decide(i) ==
  /\ \E s \in Slot : \E v \in Decidable(i, s) :
       LET r == [rep[i] EXCEPT !.slots[s] = "decided", !.pool = Released(@, s, v)]
       IN  /\ rep[i].slots[s] # "decided"
           /\ decisions' = [decisions EXCEPT ![s] = {v}]
           /\ \E q \in {Opened(i, DeliverAll(r, decisions'))} : Move(i, q)
  /\ UNCHANGED forwards

Next ==
  \E i \in Up :
    \/ Submit(i) \/ OnForward(i) \/ Reforward(i)
    \/ OnRecord(i) \/ ObserveFrontier(i) \/ Hedge(i) \/ Decide(i)

Spec == Init /\ [][Next]_vars

\* A replica keeps ticking, and once it runs in a slot, with a majority up, it
\* comes by the decision.  Nothing is assumed of Forward messages.
Fairness ==
  \A i \in Up : WF_vars(ObserveFrontier(i)) /\ WF_vars(Hedge(i)) /\ WF_vars(Decide(i))

FairSpec == Spec /\ Fairness

-----------------------------------------------------------------------------
(* Properties. *)

\* The types of the variables, and the pool's limit.
TypeOK ==
  /\ rep \in [Replica -> ReplicaState]
  /\ forwards \subseteq [to : Replica, commands : SUBSET Command]
  /\ proposals \in [Slot -> SUBSET SUBSET Command]
  /\ decisions \in [Slot -> SUBSET SUBSET Command]
  /\ \A i \in Replica : Cost(DOMAIN rep[i].pool) <= MaxPool

Submitted == {c \in Command : c.seq <= rep[c.origin].nextSeq}
LongestLog ==
  LET i == CHOOSE x \in Replica : \A y \in Replica : rep[y].contig <= rep[x].contig
  IN  rep[i].log

\* "It will be delivered exactly once, in the same slot, on every replica"
\* (submit), although it may be forwarded to several replicas, proposed in
\* several slots and decided in more than one: Dedup is a function of the log.
E == INSTANCE ExactlyOnce WITH submitted <- Submitted, log <- LongestLog,
                               delivered <- [i \in Replica |-> rep[i].log]
ImplementsExactlyOnce == E!Spec

\* No command is stranded: until its origin delivers it, it is in the origin's
\* pool, and there it is free to be batched, or rides in a run of the origin
\* that is still to be decided, or has won a slot still to be delivered.
NothingStranded ==
  \A c \in Submitted :
    LET r == rep[c.origin]
    IN  IsDelivered(r.dedup, c) \/
        /\ c \in DOMAIN r.pool
        /\ LET s == r.pool[c].proposedIn
           IN  \/ s = 0
               \/ s \in Running(r)
               \/ s > r.contig /\ r.slots[s] = "decided" /\ c \in UNION decisions[s]

\* The window "bounds the sparse dedup state": wherever a batch is decided, the
\* sequence numbers delivered above a mark are within the window, although
\* the batch was built against the mark of another replica.
DedupWithinWindow ==
  \A i, o \in Replica :
    LET d == rep[i].dedup[o] IN d.above \subseteq (d.highWater + 2)..(d.highWater + Window)

\* A delivered command does not return to the pool, however late or often it
\* is forwarded; there it would be proposed again for ever.
PoolForgetsDelivered ==
  \A i \in Replica : \A c \in DOMAIN rep[i].pool : ~IsDelivered(rep[i].dedup, c)

\* "The clamp [...] keeps every encoded batch within the wire format's u32 length
\* fields" (max_batch_bytes): whatever was claimed, released and claimed again,
\* no value and no Forward exceeds the limit, unless it is a single command,
\* which has a limit of its own; lengths and counts are cast to u32 unchecked.
BatchesFit ==
  \A C \in (UNION {proposals[s] : s \in Slot}) \cup {m.commands : m \in forwards} :
    Cost(C) <= MaxBatch \/ Cardinality(C) = 1

\* While a command waits at a replica that is up, the log of that replica
\* grows, although the leader may be dead and every Forward lost.
LogKeepsMoving ==
  \A i \in Up : \A k \in 1..Submissions[i] :
    (rep[i].nextSeq >= k) ~>
      (IsDelivered(rep[i].dedup, [origin |-> i, seq |-> k]) \/ rep[i].contig = MaxSlot)
=============================================================================
