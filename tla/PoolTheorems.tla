---------------------------- MODULE PoolTheorems ----------------------------
(***************************************************************************)
(* The safety properties of CommandPool, for any number of replicas, any   *)
(* of which may be dead, any numbers and sizes of commands, and any        *)
(* limits.                                                                 *)
(***************************************************************************)
EXTENDS PoolInvariant, CountingTheorems, SequenceTheorems

-----------------------------------------------------------------------------
(* Commands and their sizes. *)

LEMMA ReplicasTyped ==
  /\ IsFiniteSet(Replica) /\ Replica \subseteq Nat /\ Leader \in Replica /\ Up \subseteq Replica
  /\ Slot \subseteq Nat /\ MaxSlot \in Nat
  /\ \A s : s \in Slot <=> s \in Int /\ 1 <= s /\ s <= MaxSlot
<1>1. N \in Nat /\ N >= 2 /\ MaxSlot \in Nat
  BY NAssumption, LimitsAssumption
<1>2. IsFiniteSet(Replica)
  BY <1>1, FS_Interval DEF Replica
<1>3. Replica \subseteq Nat /\ Leader \in Replica /\ Up \subseteq Replica
  BY <1>1, NAssumption DEF Replica, Leader
<1>4. Slot \subseteq Nat /\ \A s : s \in Slot <=> s \in Int /\ 1 <= s /\ s <= MaxSlot
  BY <1>1 DEF Slot
<1>. QED  BY <1>1, <1>2, <1>3, <1>4

LEMMA CommandsTyped ==
  /\ \A c \in Command : /\ c.origin \in Replica /\ c.seq \in 1..Submissions[c.origin]
                        /\ c.seq \in Nat /\ c = [origin |-> c.origin, seq |-> c.seq]
  /\ \A i \in Replica : \A k \in 1..Submissions[i] : [origin |-> i, seq |-> k] \in Command
BY SubmissionsAssumption DEF Command

LEMMA CommandsFinite == IsFiniteSet(Command)
<1> DEFINE Of(i) == [origin : {i}, seq : 1..Submissions[i]]
           all == {Of(i) : i \in Replica}
<1>1. ASSUME NEW i \in Replica PROVE IsFiniteSet(Of(i))
  <2> DEFINE f == [k \in 1..Submissions[i] |-> [origin |-> i, seq |-> k]]
  <2>1. Submissions[i] \in Nat
    BY SubmissionsAssumption
  <2>2. IsFiniteSet(1..Submissions[i])
    BY <2>1, FS_Interval
  <2>3. f \in [1..Submissions[i] -> Of(i)]
    OBVIOUS
  <2>4. ASSUME NEW c \in Of(i) PROVE \E k \in 1..Submissions[i] : f[k] = c
    BY <2>4
  <2>5. f \in Surjection(1..Submissions[i], Of(i))
    BY <2>3, <2>4 DEF Surjection
  <2>. HIDE DEF f, Of
  <2>. QED  BY <2>2, <2>5, FS_Surjection
<1>2. IsFiniteSet(all)
  <2> DEFINE g == [i \in Replica |-> Of(i)]
  <2>1. g \in Surjection(Replica, all)
    <3>. HIDE DEF Of
    <3>. QED  BY DEF Surjection
  <2>. HIDE DEF g, all
  <2>. QED  BY <2>1, ReplicasTyped, FS_Surjection
<1>3. \A T \in all : IsFiniteSet(T)
  BY <1>1
<1>4. Command = UNION all
  BY DEF Command
<1>. HIDE DEF all
<1>. QED  BY <1>2, <1>3, <1>4, FS_UNION

LEMMA CostTyped ==
  ASSUME NEW C \in SUBSET Command
  PROVE  IsFiniteSet(C) /\ IsNatOn(Size, C) /\ Cost(C) \in Nat /\ Cardinality(C) \in Nat
<1>1. IsFiniteSet(C) /\ IsNatOn(Size, C)
  BY CommandsFinite, FS_Subset, SizeAssumption DEF IsNatOn
<1>. QED  BY <1>1, SumIsNat, FS_CardinalityType DEF Cost

LEMMA CostOfSubset ==
  ASSUME NEW C \in SUBSET Command, NEW D \in SUBSET C
  PROVE  Cost(D) <= Cost(C)
BY CostTyped, SumOfSubset DEF Cost

LEMMA CostWith ==
  ASSUME NEW C \in SUBSET Command, NEW c \in Command, c \notin C
  PROVE  Cost(C \cup {c}) = Cost(C) + Size[c]
<1>1. C \cup {c} \in SUBSET Command
  OBVIOUS
<1>2. IsFiniteSet(C) /\ IsNatOn(Size, C \cup {c}) /\ Cost(C) \in Nat /\ Size[c] \in Nat
  BY <1>1, CostTyped, SizeAssumption
<1>3. SumFunctionOnSet(Size, C \cup {c}) = Size[c] + SumFunctionOnSet(Size, C)
  BY <1>2, SumWith
<1>. QED  BY <1>2, <1>3 DEF Cost

\* What fits a batch.
Fits(C) == Cost(C) <= MaxBatch \/ Cardinality(C) = 1

LEMMA SubsetFits ==
  ASSUME NEW C \in SUBSET Command, Fits(C), NEW D \in SUBSET C
  PROVE  Fits(D)
<1>1. /\ Cost(C) \in Nat /\ Cost(D) \in Nat /\ Cost(D) <= Cost(C) /\ MaxBatch \in Nat
      /\ IsFiniteSet(C) /\ IsFiniteSet(D)
  BY CostTyped, CostOfSubset, LimitsAssumption
<1>2. CASE Cost(C) <= MaxBatch
  BY <1>1, <1>2 DEF Fits
<1>3. CASE Cardinality(C) = 1
  <2>1. PICK x : C = {x}
    BY <1>1, <1>3, FS_Singleton
  <2>2. CASE D = {}
    BY <1>1, <2>2, SumOfNone DEF Fits, Cost
  <2>3. CASE D = C
    BY <1>3, <2>3 DEF Fits
  <2>. QED  BY <2>1, <2>2, <2>3
<1>. QED  BY <1>2, <1>3 DEF Fits

LEMMA BeforeIsTotal ==
  ASSUME NEW c \in Command, NEW d \in Command
  PROVE  Before(c, d) \/ Before(d, c) \/ c = d
<1>1. /\ c.origin \in Nat /\ d.origin \in Nat /\ c.seq \in Nat /\ d.seq \in Nat
      /\ c.origin = d.origin /\ c.seq = d.seq => c = d
  BY CommandsTyped, ReplicasTyped
<1>. QED  BY <1>1 DEF Before

LEMMA BeforeIsTransitive ==
  ASSUME NEW c \in Command, NEW d \in Command, NEW e \in Command, Before(c, d), Before(d, e)
  PROVE  Before(c, e) /\ ~Before(d, c)
<1>1. /\ c.origin \in Nat /\ d.origin \in Nat /\ c.seq \in Nat /\ d.seq \in Nat
      /\ e.origin \in Nat /\ e.seq \in Nat
  BY CommandsTyped, ReplicasTyped
<1>. QED  BY <1>1 DEF Before

LEMMA BeforeIsStrict ==
  ASSUME NEW c \in Command, NEW d \in Command, Before(c, d)
  PROVE  ~Before(d, c) /\ c # d
<1>1. c.origin \in Nat /\ d.origin \in Nat /\ c.seq \in Nat /\ d.seq \in Nat
  BY CommandsTyped, ReplicasTyped
<1>. QED  BY <1>1 DEF Before

\* take_unassigned_batch gives a batch that fits: the prefixes of C in the
\* order of the ids are a chain, so the largest one that fits is all of them.
LEMMA BatchOfFits ==
  ASSUME NEW C \in SUBSET Command
  PROVE  BatchOf(C) \in SUBSET C /\ Fits(BatchOf(C))
<1> DEFINE UpTo(c) == {d \in C : ~Before(c, d)}
           B == {P \in {UpTo(c) : c \in C} : Fits(P)}
<1>1. BatchOf(C) = UNION B
  BY DEF BatchOf, Fits
<1>2. B \subseteq SUBSET C
  OBVIOUS
<1>3. CASE B = {}
  <2>1. BatchOf(C) = {}
    BY <1>1, <1>3
  <2>. QED  BY <2>1, SumOfNone, LimitsAssumption DEF Fits, Cost
<1>4. CASE B # {}
  <2>1. PICK T \in B : \A U \in B : T \subseteq U => U = T
    <3>1. IsFiniteSet(C)
      BY CostTyped
    <3>. HIDE DEF B
    <3>. QED  BY <1>2, <1>4, <3>1, LargestSubset
  <2>2. ASSUME NEW U \in B PROVE U \subseteq T
    <3>1. PICK c \in C : T = UpTo(c)
      BY <2>1
    <3>2. PICK d \in C : U = UpTo(d)
      OBVIOUS
    <3>3. c \in Command /\ d \in Command /\ \A x \in C : x \in Command
      OBVIOUS
    <3>4. CASE Before(c, d)
      <4>1. ASSUME NEW x \in C, ~Before(c, x) PROVE ~Before(d, x)
        BY <3>3, <3>4, <4>1, BeforeIsTransitive
      <4>2. T \subseteq U
        BY <3>1, <3>2, <4>1
      <4>. QED  BY <2>1, <4>2
    <3>5. CASE Before(d, c)
      <4>1. ASSUME NEW x \in C, ~Before(d, x) PROVE ~Before(c, x)
        BY <3>3, <3>5, <4>1, BeforeIsTransitive
      <4>. QED  BY <3>1, <3>2, <4>1
    <3>6. CASE c = d
      BY <3>1, <3>2, <3>6
    <3>. QED  BY <3>3, <3>4, <3>5, <3>6, BeforeIsTotal
  <2>3. UNION B = T
    <3>. HIDE DEF B
    <3>. QED  BY <2>1, <2>2
  <2>4. T \in SUBSET C /\ Fits(T)
    BY <2>1
  <2>. QED  BY <1>1, <2>3, <2>4
<1>. QED  BY <1>3, <1>4

-----------------------------------------------------------------------------
(* Several batches in a row. *)

AreTaken(r, k, g) ==
  g = [n \in 0..k |-> IF n = 0 THEN {} ELSE g[n - 1] \cup BatchOf(Batchable(r) \ g[n - 1])]

LEMMA TakenExist ==
  ASSUME NEW r, NEW k \in Nat
  PROVE  \E g : AreTaken(r, k, g)
<1> DEFINE B == {n \in Nat : ~ \E g : AreTaken(r, n, g)}
<1>1. 0 \notin B
  <2> DEFINE g == [n \in 0..0 |-> {}]
  <2>1. AreTaken(r, 0, g)
    BY DEF AreTaken
  <2>. QED  BY <2>1
<1>2. B = {}
  <2>. SUFFICES ASSUME B # {} PROVE FALSE
    OBVIOUS
  <2>. B \subseteq Nat
    OBVIOUS
  <2>1. PICK n \in B : \A m \in B : n <= m
    <3>. HIDE DEF B
    <3>. QED  BY SmallestNumber
  <2>2. n # 0 /\ n \in Nat /\ n - 1 \in Nat /\ n - 1 \notin B
    BY <1>1, <2>1
  <2>3. PICK g : AreTaken(r, n - 1, g)
    BY <2>2
  <2> DEFINE Next1(T) == T \cup BatchOf(Batchable(r) \ T)
             h == [m \in 0..n |-> IF m = n THEN Next1(g[n - 1]) ELSE g[m]]
  <2>4. g = [m \in 0..(n - 1) |-> IF m = 0 THEN {} ELSE Next1(g[m - 1])]
    BY <2>3 DEF AreTaken
  <2>. HIDE DEF Next1
  <2>5. ASSUME NEW m \in 0..n
        PROVE  h[m] = IF m = 0 THEN {} ELSE Next1(h[m - 1])
    <3>1. CASE m = n
      BY <2>2, <3>1
    <3>2. CASE m # n
      <4>1. m \in 0..(n - 1) /\ (m # 0 => m - 1 \in 0..n /\ m - 1 # n)
        BY <2>2, <3>2
      <4>. QED  BY <2>4, <3>2, <4>1
    <3>. QED  BY <3>1, <3>2
  <2>6. h = [m \in 0..n |-> IF m = 0 THEN {} ELSE Next1(h[m - 1])]
    BY <2>5
  <2>7. AreTaken(r, n, h)
    BY <2>6 DEF AreTaken, Next1
  <2>. QED  BY <2>1, <2>7
<1>. QED  BY <1>2

LEMMA BatchFits ==
  ASSUME NEW r, Batchable(r) \in SUBSET Command, NEW k \in Nat \ {0}
  PROVE  Batch(r, k) \in SUBSET Batchable(r) /\ Fits(Batch(r, k))
<1> DEFINE g == CHOOSE g : AreTaken(r, k, g)
<1>1. Batch(r, k) = g[k] \ g[k - 1]
  BY DEF Batch, AreTaken
<1>2. AreTaken(r, k, g)
  <2>1. \E f : AreTaken(r, k, f)
    BY TakenExist
  <2>. QED  BY <2>1, Zenon
<1>. HIDE DEF g
<1> DEFINE b == BatchOf(Batchable(r) \ g[k - 1])
<1>3. g[k] = g[k - 1] \cup b
  <2>1. \A n \in 0..k :
          g[n] = IF n = 0 THEN {} ELSE g[n - 1] \cup BatchOf(Batchable(r) \ g[n - 1])
    BY <1>2 DEF AreTaken
  <2>2. k \in 0..k /\ k # 0
    OBVIOUS
  <2>. QED  BY <2>1, <2>2, Zenon
<1>4. b \in SUBSET (Batchable(r) \ g[k - 1]) /\ Fits(b)
  BY BatchOfFits
<1>. HIDE DEF b
<1>5. Batch(r, k) = b
  BY <1>1, <1>3, <1>4
<1>. QED  BY <1>4, <1>5

-----------------------------------------------------------------------------
(* The state of a replica. *)

Decisions == [Slot -> SUBSET SUBSET Command]

LEMMA PoolTyped ==
  ASSUME NEW p \in Pools
  PROVE  /\ DOMAIN p \in SUBSET Command /\ p \in [DOMAIN p -> PoolEntry]
         /\ \A c \in DOMAIN p : p[c] \in PoolEntry /\ p[c].proposedIn \in 0..MaxSlot
                                 /\ p[c].attempts \in 0..(N - 2)
<1>1. DOMAIN p \in SUBSET Command /\ p \in [DOMAIN p -> PoolEntry]
  BY DEF Pools
<1>. QED  BY <1>1 DEF PoolEntry

LEMMA IsPool ==
  ASSUME NEW C \in SUBSET Command, NEW p \in [C -> PoolEntry]
  PROVE  p \in Pools
BY DEF Pools

LEMMA StateTyped ==
  ASSUME NEW r \in ReplicaState
  PROVE  /\ r.contig \in 0..MaxSlot /\ r.contig \in Nat /\ r.contig <= MaxSlot
         /\ r.slots \in [Slot -> {"none", "idle", "running", "decided"}]
         /\ r.maxOpen \in 0..MaxSlot /\ r.pool \in Pools /\ DOMAIN r.pool \in SUBSET Command
         /\ \A c \in DOMAIN r.pool : /\ r.pool[c].proposedIn \in 0..MaxSlot
                                     /\ r.pool[c].proposedIn \in Nat
                                     /\ r.pool[c].proposedIn # 0 => r.pool[c].proposedIn \in Slot
         /\ r.dedup \in [Replica -> OriginDedup]
         /\ \A o \in Replica : r.dedup[o].highWater \in Nat /\ r.dedup[o].above \subseteq Nat
         /\ r.nextSeq \in Nat /\ r.log \in Seq(SUBSET Command)
<1>1. /\ r.contig \in 0..MaxSlot /\ r.slots \in [Slot -> {"none", "idle", "running", "decided"}]
      /\ r.maxOpen \in 0..MaxSlot /\ r.pool \in Pools /\ r.dedup \in [Replica -> OriginDedup]
      /\ r.nextSeq \in Nat /\ r.log \in Seq(SUBSET Command)
  BY DEF ReplicaState
<1>2. DOMAIN r.pool \in SUBSET Command /\ \A c \in DOMAIN r.pool : r.pool[c].proposedIn \in 0..MaxSlot
  BY <1>1, PoolTyped
<1>3. \A o \in Replica : r.dedup[o].highWater \in Nat /\ r.dedup[o].above \subseteq Nat
  BY <1>1 DEF OriginDedup
<1>. QED  BY <1>1, <1>2, <1>3, ReplicasTyped

\* What has been decided up to a slot, and its numbers.
LEMMA DecidedTyped ==
  ASSUME NEW D \in Decisions, NEW k \in 0..MaxSlot
  PROVE  /\ DecidedTo(D, k) \in SUBSET Command
         /\ \A c : c \in DecidedTo(D, k) <=> \E s \in Slot : s <= k /\ c \in UNION D[s]
<1>1. 1..k \subseteq Slot /\ \A s \in Slot : s \in 1..k <=> s <= k
  BY ReplicasTyped
<1>2. \A s \in Slot : UNION D[s] \in SUBSET Command
  BY DEF Decisions
<1>3. \A c : c \in DecidedTo(D, k) <=> \E s \in 1..k : c \in UNION D[s]
  BY DEF DecidedTo
<1>4. \A c : c \in DecidedTo(D, k) <=> \E s \in Slot : s <= k /\ c \in UNION D[s]
  BY <1>1, <1>3
<1>. QED  BY <1>2, <1>4

LEMMA SeqsTyped ==
  ASSUME NEW D \in Decisions, NEW o \in Replica, NEW k \in 0..MaxSlot
  PROVE  /\ \A c \in Command : c.origin = o => (c.seq \in SeqsTo(D, o, k) <=> c \in DecidedTo(D, k))
         /\ SeqsTo(D, o, k) \subseteq 1..Submissions[o] /\ IsFiniteSet(SeqsTo(D, o, k))
<1>1. DecidedTo(D, k) \in SUBSET Command
  BY DecidedTyped
<1>2. ASSUME NEW c \in Command, c.origin = o, c.seq \in SeqsTo(D, o, k)
      PROVE  c \in DecidedTo(D, k)
  <2>1. PICK b \in DecidedTo(D, k) : b.origin = o /\ b.seq = c.seq
    BY <1>2 DEF SeqsTo
  <2>2. b = [origin |-> b.origin, seq |-> b.seq] /\ c = [origin |-> c.origin, seq |-> c.seq]
    BY <1>1, CommandsTyped
  <2>3. b = c
    BY <1>2, <2>1, <2>2
  <2>. QED  BY <2>1, <2>3
<1>3. ASSUME NEW n \in SeqsTo(D, o, k) PROVE n \in 1..Submissions[o]
  <2>1. PICK b \in DecidedTo(D, k) : b.origin = o /\ b.seq = n
    BY <1>3 DEF SeqsTo
  <2>. QED  BY <1>1, <2>1, CommandsTyped
<1>4. \A c \in DecidedTo(D, k) : c.origin = o => c.seq \in SeqsTo(D, o, k)
  BY DEF SeqsTo
<1>5. IsFiniteSet(1..Submissions[o])
  <2>1. Submissions[o] \in Nat
    BY SubmissionsAssumption
  <2>. QED  BY <2>1, FS_Interval
<1>6. SeqsTo(D, o, k) \subseteq 1..Submissions[o]
  BY <1>3
<1>. QED  BY <1>2, <1>4, <1>5, <1>6, FS_Subset

\* Dedup knows exactly the commands of the slots delivered.
LEMMA DeliveredIsDecided ==
  ASSUME NEW D \in Decisions, NEW r, Consistent(r, D), NEW c \in Command
  PROVE  IsDelivered(r.dedup, c) <=> c \in DecidedTo(D, r.contig)
<1> DEFINE d == r.dedup[c.origin]
<1>1. /\ r \in ReplicaState /\ r.contig \in 0..MaxSlot
      /\ c.origin \in Replica /\ c.seq \in Nat /\ c.seq >= 1
      /\ d.highWater \in Nat /\ d.above \subseteq Nat
  BY StateTyped, CommandsTyped DEF Consistent
<1>2. (1..d.highWater) \cup d.above = SeqsTo(D, c.origin, r.contig)
  BY <1>1 DEF Consistent
<1>3. IsDelivered(r.dedup, c) <=> c.seq \in (1..d.highWater) \cup d.above
  BY <1>1 DEF IsDelivered
<1>. HIDE DEF d
<1>. QED  BY <1>1, <1>2, <1>3, SeqsTyped

\* mark_delivered: the mark goes as far up as it can.
LEMMA MarkedTyped ==
  ASSUME NEW d \in [Replica -> OriginDedup], NEW C \in SUBSET Command,
         \A o \in Replica : IsFiniteSet(d[o].above) /\ \A n \in d[o].above : n > d[o].highWater + 1
  PROVE  /\ Marked(d, C) \in [Replica -> OriginDedup]
         /\ \A o \in Replica :
              LET e == Marked(d, C)[o]
              IN  /\ (1..e.highWater) \cup e.above
                       = (1..d[o].highWater) \cup d[o].above
                         \cup {c.seq : c \in {b \in C : b.origin = o}}
                  /\ \A n \in e.above : n > e.highWater + 1
<1>. SUFFICES ASSUME NEW o \in Replica
     PROVE  LET e == Marked(d, C)[o]
            IN  /\ e \in OriginDedup
                /\ (1..e.highWater) \cup e.above
                       = (1..d[o].highWater) \cup d[o].above
                         \cup {c.seq : c \in {b \in C : b.origin = o}}
                /\ \A n \in e.above : n > e.highWater + 1
  BY DEF Marked
<1> DEFINE seqs == {c.seq : c \in {b \in C : b.origin = o}}
           all == (1..d[o].highWater) \cup d[o].above \cup seqs
           mark == CHOOSE h \in 0..Cardinality(all) : 1..h \subseteq all /\ h + 1 \notin all
           e == Marked(d, C)[o]
<1>1. e = [highWater |-> mark, above |-> all \ (1..mark)]
  BY DEF Marked
<1>2. d[o].highWater \in Nat /\ d[o].above \subseteq Nat
  BY DEF OriginDedup
<1>3. seqs \subseteq 1..Submissions[o] /\ Submissions[o] \in Nat
  BY CommandsTyped, SubmissionsAssumption
<1>4. \A n \in all : n \in Nat /\ n >= 1
  <2>1. \A n \in seqs : n \in Nat /\ n >= 1
    <3>. HIDE DEF seqs
    <3>. QED  BY <1>3
  <2>2. \A n \in 1..d[o].highWater : n \in Nat /\ n >= 1
    BY <1>2
  <2>3. \A n \in d[o].above : n \in Nat /\ n >= 1
    BY <1>2
  <2>. HIDE DEF seqs
  <2>. QED  BY <2>1, <2>2, <2>3
<1>5. IsFiniteSet(all)
  <2>1. IsFiniteSet(1..d[o].highWater) /\ IsFiniteSet(d[o].above)
    BY <1>2, FS_Interval
  <2>2. IsFiniteSet(seqs)
    <3>1. IsFiniteSet(1..Submissions[o])
      BY <1>3, FS_Interval
    <3>. HIDE DEF seqs
    <3>. QED  BY <1>3, <3>1, FS_Subset
  <2>. HIDE DEF seqs
  <2>. QED  BY <2>1, <2>2, FS_Union
<1>6. mark \in 0..Cardinality(all) /\ 1..mark \subseteq all /\ mark + 1 \notin all
  <2>1. all \subseteq Nat
    BY <1>4
  <2>. HIDE DEF all
  <2>2. \E h \in 0..Cardinality(all) : 1..h \subseteq all /\ h + 1 \notin all
    BY <1>5, <2>1, MarkExists
  <2>. QED  BY <2>2
<1>7. mark \in Nat
  <2>. HIDE DEF all, mark
  <2>1. Cardinality(all) \in Nat
    BY <1>5, FS_CardinalityType
  <2>. QED  BY <1>6, <2>1
<1>. HIDE DEF all, mark, e
<1>8. e.highWater = mark /\ e.above = all \ (1..mark) /\ e \in OriginDedup
  <2>1. all \ (1..mark) \in SUBSET Nat
    BY <1>4
  <2>. QED  BY <1>1, <1>7, <2>1 DEF OriginDedup
<1>9. (1..e.highWater) \cup e.above = all
  BY <1>6, <1>8
<1>10. ASSUME NEW n \in e.above PROVE n > e.highWater + 1
  <2>1. n \in all /\ n \notin 1..mark
    BY <1>8
  <2>2. n \in Nat /\ n >= 1 /\ n # mark + 1
    BY <1>4, <1>6, <2>1
  <2>. QED  BY <1>7, <1>8, <2>1, <2>2
<1>. QED  BY <1>8, <1>9, <1>10 DEF all, e

-----------------------------------------------------------------------------
(* Activations: idle and unknown slots become known or run, and waiting     *)
(* commands are claimed for slots in which a run starts.                    *)

Activates(r, q) ==
  /\ q \in ReplicaState
  /\ q.contig = r.contig /\ q.dedup = r.dedup /\ q.log = r.log /\ q.nextSeq = r.nextSeq
  /\ DOMAIN q.pool = DOMAIN r.pool
  /\ \A s \in Slot : q.slots[s] # r.slots[s] =>
       /\ s > r.contig /\ r.slots[s] \in {"none", "idle"} /\ q.slots[s] \in {"idle", "running"}
  /\ \A c \in DOMAIN r.pool : q.pool[c].proposedIn # r.pool[c].proposedIn =>
       r.pool[c].proposedIn = 0 /\ q.pool[c].proposedIn \in Running(q)
  /\ \A s \in Running(q) \ Running(r) : ClaimedFor(q, s) \subseteq Batchable(r) /\ Fits(ClaimedFor(q, s))

LEMMA ActivatesNothing ==
  ASSUME NEW r \in ReplicaState
  PROVE  Activates(r, r)
BY DEF Activates

LEMMA ActivatesKeepsConsistent ==
  ASSUME NEW D, NEW r, Consistent(r, D), NEW q, Activates(r, q)
  PROVE  Consistent(q, D)
<1>1. /\ q \in ReplicaState /\ q.contig = r.contig /\ q.dedup = r.dedup /\ q.log = r.log
      /\ DOMAIN q.pool = DOMAIN r.pool /\ r \in ReplicaState
  BY DEF Activates, Consistent
<1>2. ASSUME NEW s \in Slot, r.slots[s] = "decided" \/ q.slots[s] = "decided" \/ r.slots[s] = "running"
      PROVE  q.slots[s] = r.slots[s]
  BY <1>2 DEF Activates
<1>3. ASSUME NEW c \in DOMAIN q.pool, q.pool[c].proposedIn # 0
      PROVE  LET s == q.pool[c].proposedIn
             IN  s > q.contig /\ (\/ q.slots[s] = "running"
                                  \/ q.slots[s] = "decided" /\ c \in UNION D[s])
  <2> DEFINE s == q.pool[c].proposedIn
  <2>1. s \in Slot
    BY <1>1, <1>3, StateTyped
  <2>2. CASE s = r.pool[c].proposedIn
    <3>1. s > r.contig /\ (\/ r.slots[s] = "running"
                           \/ r.slots[s] = "decided" /\ c \in UNION D[s])
      BY <1>1, <1>3, <2>2 DEF Consistent
    <3>2. q.slots[s] = r.slots[s]
      BY <1>2, <2>1, <3>1
    <3>. QED  BY <1>1, <3>1, <3>2
  <2>3. CASE s # r.pool[c].proposedIn
    <3>1. s \in Running(q)
      BY <1>1, <2>3 DEF Activates
    <3>. QED  BY <3>1 DEF Running
  <2>. QED  BY <2>2, <2>3
<1>4. /\ \A s \in Slot : s <= q.contig => q.slots[s] = "decided"
      /\ \A s \in Slot : q.slots[s] = "decided" => D[s] # {}
  <2>1. ASSUME NEW s \in Slot, s <= q.contig PROVE q.slots[s] = "decided"
    BY <1>1, <1>2, <2>1 DEF Consistent
  <2>2. ASSUME NEW s \in Slot, q.slots[s] = "decided" PROVE D[s] # {}
    BY <1>2, <2>2 DEF Consistent
  <2>. QED  BY <2>1, <2>2
<1>. QED  BY <1>1, <1>3, <1>4 DEF Consistent

\* A slot becomes known (on_record, ensure_frontier_observed).
LEMMA ActivatesIdle ==
  ASSUME NEW r \in ReplicaState, NEW s \in Slot, s > r.contig, r.slots[s] = "none"
  PROVE  Activates(r, [r EXCEPT !.slots[s] = "idle"])
<1> DEFINE q == [r EXCEPT !.slots[s] = "idle"]
<1>1. /\ q.contig = r.contig /\ q.dedup = r.dedup /\ q.log = r.log /\ q.nextSeq = r.nextSeq
      /\ q.pool = r.pool /\ q.slots = [r.slots EXCEPT ![s] = "idle"] /\ q \in ReplicaState
  BY DEF ReplicaState
<1>2. \A t \in Slot : q.slots[t] = IF t = s THEN "idle" ELSE r.slots[t]
  BY <1>1, StateTyped
<1>. HIDE DEF q
<1>3. Running(q) \subseteq Running(r)
  BY <1>1, <1>2 DEF Running
<1>4. \A t \in Slot : q.slots[t] # r.slots[t] =>
        /\ t > r.contig /\ r.slots[t] \in {"none", "idle"} /\ q.slots[t] \in {"idle", "running"}
  BY <1>2
<1>. QED  BY <1>1, <1>3, <1>4 DEF Activates, q

LEMMA BatchableTyped ==
  ASSUME NEW r \in ReplicaState
  PROVE  Batchable(r) \in SUBSET Command /\ Batchable(r) \subseteq DOMAIN r.pool
BY StateTyped DEF Batchable, Unassigned

\* maybe_open_slots and hedge_activate_due: a run starts in each of count slots.
LEMMA ActivatesRuns ==
  ASSUME NEW D, NEW r, Consistent(r, D), NEW first \in Slot, NEW count \in Nat \ {0},
         first > r.contig, first + count - 1 <= MaxSlot,
         \A s \in first..(first + count - 1) : r.slots[s] \in {"none", "idle"}
  PROVE  Activates(r, Activated(r, first, count))
<1> DEFINE q == Activated(r, first, count)
           Ks(c) == {n \in 1..count : c \in Batch(r, n)}
           Entry(c) == IF Ks(c) = {} THEN r.pool[c]
                       ELSE [r.pool[c] EXCEPT !.proposedIn = first + Max(Ks(c)) - 1]
           opened == first..(first + count - 1)
<1>1. r \in ReplicaState /\ first \in Nat /\ opened \subseteq Slot
  BY ReplicasTyped DEF Consistent
<1>2. ASSUME NEW c, Ks(c) # {}
      PROVE  Max(Ks(c)) \in Ks(c) /\ Max(Ks(c)) \in Nat /\ first + Max(Ks(c)) - 1 \in opened
  <2>1. Ks(c) \subseteq 1..count /\ Ks(c) \subseteq Nat /\ IsFiniteSet(1..count)
    BY FS_Interval
  <2>. HIDE DEF Ks
  <2>2. \E x \in Ks(c) : \A y \in Ks(c) : x >= y
    <3>1. PICK g \in Ks(c) : \A m \in Ks(c) : m <= g
      BY <1>2, <2>1, GreatestNumber
    <3>. QED  BY <2>1, <3>1
  <2>3. Max(Ks(c)) \in Ks(c)
    BY <2>2 DEF Max
  <2>. HIDE DEF opened
  <2>4. Max(Ks(c)) \in 1..count
    BY <2>1, <2>3
  <2>. QED  BY <1>1, <2>3, <2>4 DEF opened
<1>3. \A c \in DOMAIN r.pool : Entry(c) \in PoolEntry
  <2>1. ASSUME NEW c \in DOMAIN r.pool, Ks(c) # {} PROVE Entry(c) \in PoolEntry
    <3>1. first + Max(Ks(c)) - 1 \in 0..MaxSlot
      <4>. HIDE DEF Ks, opened
      <4>1. first + Max(Ks(c)) - 1 \in Slot
        BY <1>1, <1>2, <2>1
      <4>. QED  BY <4>1, ReplicasTyped
    <3>2. r.pool[c] \in PoolEntry
      BY <1>1, StateTyped, PoolTyped
    <3>. HIDE DEF Ks
    <3>. QED  BY <2>1, <3>1, <3>2 DEF PoolEntry
  <2>2. ASSUME NEW c \in DOMAIN r.pool, Ks(c) = {} PROVE Entry(c) \in PoolEntry
    BY <1>1, <2>2, StateTyped, PoolTyped
  <2>. HIDE DEF Entry, Ks
  <2>. QED  BY <2>1, <2>2
<1>4. /\ q.contig = r.contig /\ q.dedup = r.dedup /\ q.log = r.log /\ q.nextSeq = r.nextSeq
      /\ q.maxOpen = r.maxOpen
      /\ q.slots = [s \in Slot |-> IF s \in opened THEN "running" ELSE r.slots[s]]
      /\ q.pool = [c \in DOMAIN r.pool |-> Entry(c)]
  <2>. HIDE DEF Ks
  <2>. QED  BY <1>1 DEF Activated, ReplicaState, Ks
<1>5. q \in ReplicaState
  <2>1. q.slots \in [Slot -> {"none", "idle", "running", "decided"}]
    <3>. HIDE DEF q, opened
    <3>. QED  BY <1>1, <1>4, StateTyped
  <2>2. q.pool \in Pools
    <3>1. q.pool \in [DOMAIN r.pool -> PoolEntry]
      <4>. HIDE DEF q, Entry
      <4>. QED  BY <1>3, <1>4
    <3>. HIDE DEF q
    <3>. QED  BY <1>1, <3>1, StateTyped, IsPool
  <2>3. q = [r EXCEPT !.slots = q.slots, !.pool = q.pool]
    <3>1. q = [r EXCEPT !.slots = [s \in Slot |-> IF s \in opened THEN "running" ELSE r.slots[s]],
                        !.pool = [c \in DOMAIN r.pool |-> Entry(c)]]
      <4>. HIDE DEF Ks
      <4>. QED  BY <1>1 DEF Activated, ReplicaState, Ks
    <3>. HIDE DEF q, Entry, opened
    <3>. QED  BY <1>4, <3>1
  <2>. HIDE DEF q
  <2>. QED  BY <1>1, <2>1, <2>2, <2>3 DEF ReplicaState
<1>. HIDE DEF q
<1>6. \A s \in Slot : q.slots[s] = IF s \in opened THEN "running" ELSE r.slots[s]
  BY <1>4
<1>7. \A s \in opened : s \in Slot /\ s > r.contig /\ r.slots[s] \in {"none", "idle"} /\ q.slots[s] = "running"
  <2>1. \A s \in opened : s > r.contig
    BY <1>1, StateTyped
  <2>. QED  BY <1>1, <1>6, <2>1
<1>8. \A s \in opened : s \in Running(q)
  BY <1>4, <1>7 DEF Running
<1>9. \A s \in Running(q) \ Running(r) : s \in opened
  BY <1>4, <1>6 DEF Running
<1>. HIDE DEF opened
<1>10. ASSUME NEW c \in DOMAIN r.pool, q.pool[c].proposedIn # r.pool[c].proposedIn
       PROVE  /\ Ks(c) # {} /\ q.pool[c].proposedIn = first + Max(Ks(c)) - 1
              /\ r.pool[c].proposedIn = 0 /\ c \in Batchable(r) /\ q.pool[c].proposedIn \in Running(q)
  <2>1. q.pool[c] = Entry(c)
    BY <1>4
  <2>2. r.pool[c] \in PoolEntry
    BY <1>1, StateTyped, PoolTyped
  <2>3. Ks(c) # {} /\ q.pool[c].proposedIn = first + Max(Ks(c)) - 1
    <3>1. CASE Ks(c) = {}
      BY <1>10, <2>1, <3>1
    <3>2. CASE Ks(c) # {}
      <4>1. q.pool[c] = [r.pool[c] EXCEPT !.proposedIn = first + Max(Ks(c)) - 1]
        BY <2>1, <3>2
      <4>. HIDE DEF Ks
      <4>. QED  BY <2>2, <3>2, <4>1 DEF PoolEntry
    <3>. QED  BY <3>1, <3>2
  <2>4. c \in Batchable(r)
    <3>1. PICK n \in 1..count : c \in Batch(r, n)
      BY <2>3
    <3>2. n \in Nat \ {0}
      OBVIOUS
    <3>. QED  BY <1>1, <3>1, <3>2, BatchFits, BatchableTyped
  <2>5. r.pool[c].proposedIn = 0
    BY <2>4 DEF Batchable, Unassigned
  <2>6. first + Max(Ks(c)) - 1 \in opened
    <3>. HIDE DEF Ks
    <3>. QED  BY <1>2, <2>3
  <2>. HIDE DEF Ks
  <2>. QED  BY <1>8, <2>3, <2>4, <2>5, <2>6
<1>11. ASSUME NEW s \in Running(q) \ Running(r)
       PROVE  ClaimedFor(q, s) \subseteq Batchable(r) /\ Fits(ClaimedFor(q, s))
  <2>1. s \in opened /\ s \in Slot /\ r.slots[s] \in {"none", "idle"}
    BY <1>7, <1>9
  <2> DEFINE j == s - first + 1
  <2>2. j \in 1..count /\ j \in Nat \ {0} /\ s \in Nat /\ s # 0
    BY <1>1, <2>1, ReplicasTyped DEF opened
  <2>3. ASSUME NEW c \in ClaimedFor(q, s) PROVE c \in Batch(r, j)
    <3>1. c \in DOMAIN r.pool /\ q.pool[c].proposedIn = s
      BY <1>4, <2>3 DEF ClaimedFor
    <3>2. r.pool[c].proposedIn # s
      <4>1. r.pool[c].proposedIn = s => r.slots[s] \in {"running", "decided"}
        BY <2>2, <3>1 DEF Consistent
      <4>. QED  BY <2>1, <4>1
    <3>3. Ks(c) # {} /\ s = first + Max(Ks(c)) - 1
      BY <1>10, <3>1, <3>2
    <3>4. Max(Ks(c)) \in Ks(c) /\ Max(Ks(c)) \in Nat
      <4>. HIDE DEF Ks
      <4>. QED  BY <1>2, <3>3
    <3>5. Max(Ks(c)) = j
      <4>. HIDE DEF Ks
      <4>. QED  BY <1>1, <2>2, <3>3, <3>4
    <3>6. j \in Ks(c)
      <4>. HIDE DEF Ks, j
      <4>. QED  BY <3>4, <3>5
    <3>. HIDE DEF j
    <3>. QED  BY <3>6
  <2>. HIDE DEF j
  <2>4. ClaimedFor(q, s) \subseteq Batch(r, j) /\ Batchable(r) \in SUBSET Command
    BY <1>1, <2>3, BatchableTyped
  <2>5. Batch(r, j) \in SUBSET Batchable(r) /\ Fits(Batch(r, j))
    BY <2>2, <2>4, BatchFits
  <2>. QED  BY <2>4, <2>5, SubsetFits
<1>12. \A s \in Slot : q.slots[s] # r.slots[s] =>
         /\ s > r.contig /\ r.slots[s] \in {"none", "idle"} /\ q.slots[s] \in {"idle", "running"}
  BY <1>6, <1>7
<1>13. DOMAIN q.pool = DOMAIN r.pool
  BY <1>4
<1>. HIDE DEF Ks, Entry
<1>. QED  BY <1>4, <1>5, <1>10, <1>11, <1>12, <1>13 DEF Activates, q

LEMMA ActivatesMaxOpen ==
  ASSUME NEW r, NEW q, Activates(r, q), NEW m \in 0..MaxSlot
  PROVE  Activates(r, [q EXCEPT !.maxOpen = m])
<1> DEFINE p == [q EXCEPT !.maxOpen = m]
<1>1. q \in ReplicaState
  BY DEF Activates
<1>2. /\ p.contig = q.contig /\ p.dedup = q.dedup /\ p.log = q.log /\ p.nextSeq = q.nextSeq
      /\ p.pool = q.pool /\ p.slots = q.slots /\ p \in ReplicaState
  BY <1>1 DEF ReplicaState
<1>. HIDE DEF p
<1>3. Running(p) = Running(q) /\ \A s : ClaimedFor(p, s) = ClaimedFor(q, s)
  BY <1>2 DEF Running, ClaimedFor
<1>. QED  BY <1>2, <1>3 DEF Activates, p

\* The first slot to open is past all those known.
LEMMA FirstIsUnknown ==
  ASSUME NEW r \in ReplicaState
  PROVE  /\ FirstToOpen(r) \in 1..(MaxSlot + 1) /\ FirstToOpen(r) > r.contig
         /\ \A s \in Slot : s >= FirstToOpen(r) => r.slots[s] = "none"
<1> DEFINE known == {r.maxOpen, r.contig} \cup {s \in Slot : r.slots[s] # "none"}
<1>1. known \subseteq 0..MaxSlot /\ known \subseteq Nat /\ known # {} /\ r.contig \in known
  BY StateTyped, ReplicasTyped
<1>2. MaxSlot \in Nat
  BY ReplicasTyped
<1>3. PICK g \in known : \A m \in known : m <= g
  <2>. HIDE DEF known
  <2>. QED  BY <1>1, <1>2, GreatestNumber
<1>4. \E f \in 1..(MaxSlot + 1) : f - 1 \in known /\ \A s \in known : s < f
  <2>. HIDE DEF known
  <2>1. g \in 0..MaxSlot /\ MaxSlot \in Nat
    BY <1>1, ReplicasTyped
  <2>2. g + 1 \in 1..(MaxSlot + 1) /\ (g + 1) - 1 = g
    BY <2>1
  <2>3. \A s \in known : s < g + 1
    BY <1>1, <1>3, <2>1
  <2>. QED  BY <1>3, <2>2, <2>3
<1>5. FirstToOpen(r) \in 1..(MaxSlot + 1) /\ \A s \in known : s < FirstToOpen(r)
  <2>1. FirstToOpen(r) = CHOOSE f \in 1..(MaxSlot + 1) : f - 1 \in known /\ \A s \in known : s < f
    BY DEF FirstToOpen
  <2>. HIDE DEF known
  <2>. QED  BY <1>4, <2>1
<1>6. \A s \in Slot : s >= FirstToOpen(r) => s \notin known
  <2>. HIDE DEF known
  <2>. QED  BY <1>5, ReplicasTyped
<1>7. FirstToOpen(r) > r.contig
  <2>. HIDE DEF known
  <2>. QED  BY <1>1, <1>5
<1>. QED  BY <1>5, <1>6, <1>7

LEMMA ActivatesOpened ==
  ASSUME NEW D, NEW r, Consistent(r, D), NEW i
  PROVE  Activates(r, Opened(i, r))
<1>1. r \in ReplicaState
  BY DEF Consistent
<1>2. CASE i # Leader \/ Openable(r) = {}
  BY <1>1, <1>2, ActivatesNothing DEF Opened
<1>3. CASE ~(i # Leader \/ Openable(r) = {})
  <2> DEFINE f == FirstToOpen(r)
             count == Cardinality(Openable(r))
  <2>1. f \in 1..(MaxSlot + 1) /\ f > r.contig /\ \A s \in Slot : s >= f => r.slots[s] = "none"
    BY <1>1, FirstIsUnknown
  <2>2. MaxSlot \in Nat
    BY ReplicasTyped
  <2>3. Openable(r) \subseteq 1..MaxSlot /\ \A k \in Openable(r) : f + k - 1 <= MaxSlot
    BY DEF Openable
  <2>4. IsFiniteSet(1..MaxSlot) /\ Openable(r) \subseteq Nat
    BY <2>2, <2>3, FS_Interval
  <2>5. PICK g \in Openable(r) : \A m \in Openable(r) : m <= g
    <3>1. Openable(r) \subseteq 0..MaxSlot /\ Openable(r) # {}
      BY <1>3, <2>3
    <3>. QED  BY <2>2, <3>1, GreatestNumber
  <2>6. Openable(r) \subseteq 1..g /\ g \in Nat
    BY <2>3, <2>4, <2>5
  <2>7. count \in Nat \ {0} /\ count <= g
    <3>1. IsFiniteSet(1..g) /\ Cardinality(1..g) = g
      BY <2>6, FS_Interval
    <3>2. Cardinality(Openable(r)) <= g /\ IsFiniteSet(Openable(r))
      BY <2>6, <3>1, FS_Subset
    <3>3. Cardinality(Openable(r)) \in Nat /\ Cardinality(Openable(r)) # 0
      BY <1>3, <3>2, FS_CardinalityType, FS_EmptySet
    <3>. QED  BY <3>2, <3>3
  <2>8. f + g - 1 <= MaxSlot
    BY <2>3
  <2>9. Opened(i, r) = [Activated(r, f, count) EXCEPT !.maxOpen = f + count - 1]
    BY <1>3 DEF Opened
  <2>. HIDE DEF f, count
  <2>10. f + count - 1 \in 0..MaxSlot /\ f \in Slot /\ f + count - 1 <= MaxSlot
    BY <2>1, <2>2, <2>6, <2>7, <2>8, ReplicasTyped
  <2>11. \A s \in f..(f + count - 1) : s \in Slot /\ s >= f
    BY <2>10, ReplicasTyped
  <2>12. Activates(r, Activated(r, f, count))
    BY <2>1, <2>7, <2>10, <2>11, ActivatesRuns
  <2>. QED  BY <2>9, <2>10, <2>12, ActivatesMaxOpen
<1>. QED  BY <1>2, <1>3

-----------------------------------------------------------------------------
(* Commands come into the pool, and are forwarded. *)

\* A change of the pool alone, by which nothing new is claimed.
LEMMA PoolChange ==
  ASSUME NEW D, NEW r, Consistent(r, D), NEW q \in ReplicaState,
         q.contig = r.contig, q.slots = r.slots, q.dedup = r.dedup, q.log = r.log,
         \A c \in DOMAIN q.pool :
           /\ ~IsDelivered(r.dedup, c)
           /\ q.pool[c].proposedIn # 0 =>
                c \in DOMAIN r.pool /\ q.pool[c].proposedIn = r.pool[c].proposedIn,
         Cost(DOMAIN q.pool) <= MaxPool
  PROVE  Consistent(q, D) /\ Running(q) = Running(r)
<1>1. ASSUME NEW c \in DOMAIN q.pool, q.pool[c].proposedIn # 0
      PROVE  LET s == q.pool[c].proposedIn
             IN  s > q.contig /\ (\/ q.slots[s] = "running"
                                  \/ q.slots[s] = "decided" /\ c \in UNION D[s])
  BY <1>1 DEF Consistent
<1>2. Running(q) = Running(r)
  BY DEF Running
<1>. QED  BY <1>1, <1>2 DEF Consistent

LEMMA InsertedTyped ==
  ASSUME NEW p \in Pools, NEW C \in SUBSET Command, NEW a \in 0..(N - 2)
  PROVE  /\ Inserted(p, C, a) \in Pools /\ DOMAIN Inserted(p, C, a) = DOMAIN p \cup C
         /\ \A c \in DOMAIN Inserted(p, C, a) : Inserted(p, C, a)[c].proposedIn # 0 =>
              c \in DOMAIN p /\ Inserted(p, C, a)[c].proposedIn = p[c].proposedIn
<1> DEFINE q == Inserted(p, C, a)
           new == [proposedIn |-> 0, attempts |-> a]
<1>1. new \in PoolEntry
  BY ReplicasTyped DEF PoolEntry
<1>2. q = [c \in DOMAIN p \cup C |-> IF c \in DOMAIN p THEN p[c] ELSE new]
  BY DEF Inserted
<1>3. \A c \in DOMAIN p : p[c] \in PoolEntry
  BY PoolTyped
<1>4. DOMAIN p \cup C \in SUBSET Command
  BY PoolTyped
<1>5. DOMAIN q = DOMAIN p \cup C /\ \A c \in DOMAIN p \cup C : q[c] = IF c \in DOMAIN p THEN p[c] ELSE new
  BY <1>2
<1>6. new.proposedIn = 0
  OBVIOUS
<1>. HIDE DEF new
<1>7. q \in [DOMAIN p \cup C -> PoolEntry]
  <2>. HIDE DEF q
  <2>. QED  BY <1>1, <1>2, <1>3
<1>. HIDE DEF q
<1>8. \A c \in DOMAIN q : q[c].proposedIn # 0 => c \in DOMAIN p /\ q[c].proposedIn = p[c].proposedIn
  BY <1>5, <1>6
<1>. QED  BY <1>4, <1>5, <1>7, <1>8, IsPool DEF q

\* The commands of a nonempty set have a last one.
LEMMA LastExists ==
  ASSUME NEW A \in SUBSET Command, A # {}
  PROVE  \E x \in A : \A y \in A : y = x \/ Before(y, x)
<1> DEFINE UpTo(c) == {d \in A : ~Before(c, d)}
           B == {UpTo(c) : c \in A}
<1>1. IsFiniteSet(A) /\ B \subseteq SUBSET A /\ B # {}
  BY CostTyped
<1>2. PICK T \in B : \A U \in B : T \subseteq U => U = T
  <2>. HIDE DEF B
  <2>. QED  BY <1>1, LargestSubset
<1>3. PICK x \in A : T = UpTo(x)
  BY <1>2
<1>4. ASSUME NEW y \in A, Before(x, y) PROVE FALSE
  <2>1. \A d \in A : ~Before(x, d) => ~Before(y, d)
    BY <1>4, BeforeIsTransitive
  <2>2. y \in UpTo(y) /\ y \notin UpTo(x) /\ UpTo(y) \in B
    BY <1>4, BeforeIsStrict
  <2>3. UpTo(x) \subseteq UpTo(y)
    BY <2>1
  <2>. HIDE DEF UpTo, B
  <2>. QED  BY <1>2, <1>3, <2>2, <2>3
<1>. QED  BY <1>4, BeforeIsTotal

\* on_forward keeps the limit: when the last of the commands was taken in there
\* was room for it besides all the others.
LEMMA AcceptedFit ==
  ASSUME NEW r, DOMAIN r.pool \in SUBSET Command, Cost(DOMAIN r.pool) <= MaxPool,
         NEW C \in SUBSET Command, C \cap DOMAIN r.pool = {}, NEW A \in Accepted(r, C)
  PROVE  A \in SUBSET C /\ Cost(DOMAIN r.pool \cup A) <= MaxPool
<1> DEFINE P == DOMAIN r.pool
           before(c) == {d \in A : Before(d, c)}
<1>1. A \in SUBSET C /\ \A c \in A : Cost(P \cup before(c)) + Size[c] <= MaxPool
  BY DEF Accepted
<1>2. CASE A = {}
  BY <1>1, <1>2
<1>3. CASE A # {}
  <2>1. PICK x \in A : \A y \in A : y = x \/ Before(y, x)
    BY <1>1, <1>3, LastExists
  <2>2. x \notin P \cup before(x) /\ P \cup before(x) \in SUBSET Command /\ x \in Command
    BY <1>1, BeforeIsStrict
  <2>3. P \cup A = (P \cup before(x)) \cup {x}
    BY <2>1
  <2>4. Cost(P \cup before(x)) + Size[x] <= MaxPool
    BY <1>1
  <2>. HIDE DEF P, before
  <2>5. Cost((P \cup before(x)) \cup {x}) <= MaxPool
    BY <2>2, <2>4, CostWith
  <2>6. A \in SUBSET C
    BY <1>1
  <2>7. Cost(P \cup A) <= MaxPool
    BY <2>3, <2>5
  <2>. QED  BY <2>6, <2>7 DEF P
<1>. QED  BY <1>2, <1>3

\* A command is forwarded to another replica.
LEMMA TargetTyped ==
  ASSUME NEW i \in Replica, NEW a \in Nat
  PROVE  Target(i, a) \in Replica \ {i}
<1>1. N \in Nat /\ N >= 2
  BY NAssumption
<1>2. IsFiniteSet(Replica) /\ Cardinality(Replica) = N
  BY <1>1, FS_Interval DEF Replica
<1>3. IsFiniteSet(Replica \ {i}) /\ Cardinality(Replica \ {i}) = N - 1 /\ Replica \ {i} \subseteq Nat
  BY <1>1, <1>2, FS_RemoveElement, ReplicasTyped
<1>4. a % (N - 1) \in Nat /\ a % (N - 1) < N - 1
  BY <1>1
<1> DEFINE k == a % (N - 1)
           others == Replica \ {i}
<1>. HIDE DEF k, others
<1>5. \E j \in others : Cardinality({h \in others : h < j}) = k
  BY <1>3, <1>4, RankExists DEF k, others
<1>. QED  BY <1>5 DEF Target, k, others

-----------------------------------------------------------------------------
(* Decisions. *)

\* One value at most is decided in a slot.
SingleValued(D) == \A s \in Slot : \A v, w \in D[s] : v = w

\* Decisions that are added leave what has been delivered alone.
LEMMA DecisionsGrow ==
  ASSUME NEW D \in Decisions, NEW E1 \in Decisions, NEW r, Consistent(r, D), SingleValued(E1),
         \A s \in Slot : D[s] \subseteq E1[s]
  PROVE  Consistent(r, E1)
<1>1. /\ r \in ReplicaState /\ r.contig \in 0..MaxSlot /\ r.contig \in Nat
      /\ \A k \in 0..r.contig : k \in 0..MaxSlot
  BY StateTyped, ReplicasTyped DEF Consistent
<1>2. ASSUME NEW s \in Slot, D[s] # {} PROVE E1[s] = D[s]
  BY <1>2 DEF SingleValued
<1>3. \A s \in Slot : r.slots[s] = "decided" => D[s] # {} /\ E1[s] = D[s]
  BY <1>2 DEF Consistent
<1>4. \A s \in Slot : s <= r.contig => E1[s] = D[s]
  BY <1>3 DEF Consistent
<1>5. ASSUME NEW k \in 0..r.contig PROVE DecidedTo(E1, k) = DecidedTo(D, k)
  <2>1. \A s \in Slot : s <= k => E1[s] = D[s]
    BY <1>1, <1>4, ReplicasTyped
  <2>2. k \in 0..MaxSlot
    BY <1>1
  <2>3. ASSUME NEW c PROVE c \in DecidedTo(E1, k) <=> c \in DecidedTo(D, k)
    BY <2>1, <2>2, DecidedTyped
  <2>. QED  BY <2>3
<1>6. \A o : SeqsTo(E1, o, r.contig) = SeqsTo(D, o, r.contig)
  BY <1>1, <1>5 DEF SeqsTo
<1>7. r.log = [k \in 1..r.contig |-> (UNION E1[k]) \ DecidedTo(E1, k - 1)]
  <2>1. \A k \in 1..r.contig : k \in Slot /\ k <= r.contig /\ k - 1 \in 0..r.contig
    BY <1>1, ReplicasTyped
  <2>2. \A k \in 1..r.contig :
          (UNION E1[k]) \ DecidedTo(E1, k - 1) = (UNION D[k]) \ DecidedTo(D, k - 1)
    BY <1>4, <1>5, <2>1
  <2>3. r.log = [k \in 1..r.contig |-> (UNION D[k]) \ DecidedTo(D, k - 1)]
    BY DEF Consistent
  <2>. QED  BY <2>2, <2>3
<1>8. \A s \in Slot : r.slots[s] = "decided" => E1[s] # {}
  BY <1>3
<1>9. ASSUME NEW c \in DOMAIN r.pool, r.pool[c].proposedIn # 0
      PROVE  LET s == r.pool[c].proposedIn
             IN  s > r.contig /\ (\/ r.slots[s] = "running"
                                  \/ r.slots[s] = "decided" /\ c \in UNION E1[s])
  <2>1. r.pool[c].proposedIn \in Slot
    BY <1>1, <1>9, StateTyped
  <2>. QED  BY <1>3, <1>9, <2>1 DEF Consistent
<1>. QED  BY <1>6, <1>7, <1>8, <1>9 DEF Consistent

DecidedIn(r, s, v) == [r EXCEPT !.slots[s] = "decided", !.pool = Released(@, s, v)]

\* decide_slot: the commands that lost the slot are free again, those that won
\* it keep their claim until it is delivered.
LEMMA DecidedKeeps ==
  ASSUME NEW D \in Decisions, NEW r, Consistent(r, D), NEW s \in Slot, NEW v \in D[s],
         r.slots[s] # "decided", NEW q, q = DecidedIn(r, s, v)
  PROVE  /\ Consistent(q, D) /\ Running(q) \subseteq Running(r) /\ q.nextSeq = r.nextSeq
         /\ DOMAIN q.pool = DOMAIN r.pool /\ q.dedup = r.dedup /\ q.contig = r.contig
<1>1. /\ r \in ReplicaState
      /\ r.slots \in [Slot -> {"none", "idle", "running", "decided"}] /\ r.pool \in Pools
  BY StateTyped DEF Consistent
<1>2. /\ q.contig = r.contig /\ q.dedup = r.dedup /\ q.log = r.log /\ q.nextSeq = r.nextSeq
      /\ q.maxOpen = r.maxOpen /\ q.slots = [r.slots EXCEPT ![s] = "decided"]
      /\ q.pool = Released(r.pool, s, v)
  BY <1>1 DEF ReplicaState, DecidedIn
<1>3. \A t \in Slot : q.slots[t] = IF t = s THEN "decided" ELSE r.slots[t]
  BY <1>1, <1>2
<1>4. /\ DOMAIN q.pool = DOMAIN r.pool
      /\ \A c \in DOMAIN r.pool :
           q.pool[c] = IF r.pool[c].proposedIn = s /\ c \notin v
                         THEN [r.pool[c] EXCEPT !.proposedIn = 0] ELSE r.pool[c]
  BY <1>2 DEF Released
<1>5. \A c \in DOMAIN r.pool : r.pool[c] \in PoolEntry /\ q.pool[c] \in PoolEntry
  <2>1. \A c \in DOMAIN r.pool : r.pool[c] \in PoolEntry
    BY <1>1, PoolTyped
  <2>2. \A e \in PoolEntry : [e EXCEPT !.proposedIn = 0] \in PoolEntry
    BY ReplicasTyped DEF PoolEntry
  <2>. QED  BY <1>4, <2>1, <2>2
<1>6. \A c \in DOMAIN r.pool : q.pool[c].proposedIn # 0 =>
        /\ q.pool[c].proposedIn = r.pool[c].proposedIn
        /\ r.pool[c].proposedIn = s => c \in v
  <2>1. \A e \in PoolEntry : [e EXCEPT !.proposedIn = 0].proposedIn = 0
    BY DEF PoolEntry
  <2>. QED  BY <1>4, <1>5, <2>1
<1>7. q \in ReplicaState
  <2>1. q.pool \in Pools
    <3>1. q.pool \in [DOMAIN r.pool -> PoolEntry]
      <4>1. q.pool = [c \in DOMAIN r.pool |-> q.pool[c]]
        BY <1>2 DEF Released
      <4>. QED  BY <1>5, <4>1
    <3>. QED  BY <1>1, <3>1, PoolTyped, IsPool
  <2>2. q.slots \in [Slot -> {"none", "idle", "running", "decided"}]
    BY <1>1, <1>2
  <2>3. q = [r EXCEPT !.slots = q.slots, !.pool = q.pool]
    BY <1>1, <1>2 DEF ReplicaState, DecidedIn
  <2>. QED  BY <1>1, <2>1, <2>2, <2>3 DEF ReplicaState
<1>8. Running(q) \subseteq Running(r)
  BY <1>2, <1>3 DEF Running
<1>9. ASSUME NEW c \in DOMAIN q.pool, q.pool[c].proposedIn # 0
      PROVE  LET t == q.pool[c].proposedIn
             IN  t > q.contig /\ (\/ q.slots[t] = "running"
                                  \/ q.slots[t] = "decided" /\ c \in UNION D[t])
  <2> DEFINE t == r.pool[c].proposedIn
  <2>1. q.pool[c].proposedIn = t /\ t # 0 /\ (t = s => c \in v) /\ t \in Slot
    BY <1>1, <1>4, <1>6, <1>9, StateTyped
  <2>2. t > r.contig /\ (\/ r.slots[t] = "running"
                         \/ r.slots[t] = "decided" /\ c \in UNION D[t])
    BY <1>4, <2>1 DEF Consistent
  <2>. HIDE DEF t
  <2>. QED  BY <1>2, <1>3, <2>1, <2>2
<1>10. /\ \A t \in Slot : t <= q.contig => q.slots[t] = "decided"
       /\ \A t \in Slot : q.slots[t] = "decided" => D[t] # {}
  BY <1>2, <1>3 DEF Consistent
<1>. QED  BY <1>2, <1>4, <1>7, <1>8, <1>9, <1>10 DEF Consistent

\* What Dedup knows, from the numbers it holds.
LEMMA DedupKnows ==
  ASSUME NEW D \in Decisions, NEW d \in [Replica -> OriginDedup], NEW c \in Command, NEW k \in 0..MaxSlot,
         (1..d[c.origin].highWater) \cup d[c.origin].above = SeqsTo(D, c.origin, k)
  PROVE  IsDelivered(d, c) <=> c \in DecidedTo(D, k)
<1>1. /\ c.origin \in Replica /\ c.seq \in Nat /\ c.seq >= 1
      /\ d[c.origin].highWater \in Nat /\ d[c.origin].above \subseteq Nat
  BY CommandsTyped DEF OriginDedup
<1>2. IsDelivered(d, c) <=> c.seq \in (1..d[c.origin].highWater) \cup d[c.origin].above
  BY <1>1 DEF IsDelivered
<1>. QED  BY <1>1, <1>2, SeqsTyped

-----------------------------------------------------------------------------
(* Deliveries. *)

\* The replica goes on from r to q without losing a command.
Follows(r, q, D) ==
  /\ Consistent(q, D) /\ q.contig >= r.contig /\ q.nextSeq = r.nextSeq
  /\ Running(q) \subseteq Running(r) /\ DOMAIN q.pool \subseteq DOMAIN r.pool
  /\ \A c \in Command : (c \in DOMAIN r.pool \/ IsDelivered(r.dedup, c)) =>
                          (c \in DOMAIN q.pool \/ IsDelivered(q.dedup, c))

LEMMA FollowsNothing ==
  ASSUME NEW D, NEW r, Consistent(r, D)
  PROVE  Follows(r, r, D)
BY StateTyped DEF Follows, Consistent

LEMMA FollowsTransitive ==
  ASSUME NEW D, NEW r, Consistent(r, D), NEW q, Follows(r, q, D), NEW p, Follows(q, p, D)
  PROVE  Follows(r, p, D)
<1>1. r.contig \in Nat /\ q.contig \in Nat /\ p.contig \in Nat
  BY StateTyped DEF Follows, Consistent
<1>. QED  BY <1>1 DEF Follows

\* try_deliver, one slot.
LEMMA DeliverNextKeeps ==
  ASSUME NEW D \in Decisions, SingleValued(D), NEW r, Consistent(r, D), r.contig < MaxSlot,
         r.slots[r.contig + 1] = "decided", NEW v \in D[r.contig + 1]
  PROVE  LET q == DeliverNext(r, v)
         IN  Follows(r, q, D) /\ q.contig = r.contig + 1 /\ q.slots = r.slots
<1> DEFINE q == DeliverNext(r, v)
           new == New(r, v)
           k == r.contig
<1>1. /\ r \in ReplicaState /\ k \in 0..MaxSlot /\ k \in Nat /\ k + 1 \in Slot /\ k + 1 \in 0..MaxSlot
      /\ k + 1 \in Nat /\ r.pool \in Pools /\ DOMAIN r.pool \in SUBSET Command /\ r.log \in Seq(SUBSET Command)
      /\ r.dedup \in [Replica -> OriginDedup]
  BY StateTyped, ReplicasTyped DEF Consistent
<1>2. v \in SUBSET Command /\ UNION D[k + 1] = v
  BY <1>1 DEF Decisions, SingleValued
<1>3. new \in SUBSET Command /\ \A c \in Command : c \in new <=> c \in v /\ ~IsDelivered(r.dedup, c)
  BY <1>2 DEF New
<1>4. /\ q.contig = k + 1 /\ q.slots = r.slots /\ q.maxOpen = r.maxOpen /\ q.nextSeq = r.nextSeq
      /\ q.dedup = Marked(r.dedup, new) /\ q.pool = Removed(r.pool, new) /\ q.log = Append(r.log, new)
  BY <1>1 DEF DeliverNext, ReplicaState
<1>. HIDE DEF q, new
<1>5. ASSUME NEW o \in Replica
      PROVE  IsFiniteSet(r.dedup[o].above) /\ \A n \in r.dedup[o].above : n > r.dedup[o].highWater + 1
  <2>1. r.dedup[o].above \subseteq SeqsTo(D, o, k) /\ IsFiniteSet(SeqsTo(D, o, k))
    BY <1>1, SeqsTyped DEF Consistent
  <2>2. IsFiniteSet(r.dedup[o].above)
    BY <2>1, FS_Subset
  <2>. QED  BY <2>2 DEF Consistent
<1>6. ASSUME NEW c \in Command
      PROVE  c \in DecidedTo(D, k + 1) <=> c \in DecidedTo(D, k) \/ c \in v
  <2>1. \A s \in Slot : s <= k + 1 <=> s <= k \/ s = k + 1
    BY <1>1, ReplicasTyped
  <2>. QED  BY <1>1, <1>2, <2>1, DecidedTyped
<1>7. \A c \in Command : c \in new <=> c \in v /\ c \notin DecidedTo(D, k)
  BY <1>3, DeliveredIsDecided
<1>8. ASSUME NEW o \in Replica
      PROVE  /\ (1..q.dedup[o].highWater) \cup q.dedup[o].above = SeqsTo(D, o, k + 1)
             /\ \A n \in q.dedup[o].above : n > q.dedup[o].highWater + 1
             /\ q.dedup \in [Replica -> OriginDedup]
  <2> DEFINE seqs == {c.seq : c \in {b \in new : b.origin = o}}
  <2>1. /\ (1..q.dedup[o].highWater) \cup q.dedup[o].above
             = (1..r.dedup[o].highWater) \cup r.dedup[o].above \cup seqs
        /\ \A n \in q.dedup[o].above : n > q.dedup[o].highWater + 1
        /\ q.dedup \in [Replica -> OriginDedup]
    BY <1>1, <1>3, <1>4, <1>5, MarkedTyped
  <2>2. (1..r.dedup[o].highWater) \cup r.dedup[o].above = SeqsTo(D, o, k)
    BY DEF Consistent
  <2>3. SeqsTo(D, o, k + 1) = SeqsTo(D, o, k) \cup seqs
    <3>1. DecidedTo(D, k) \in SUBSET Command /\ DecidedTo(D, k + 1) \in SUBSET Command
      BY <1>1, DecidedTyped
    <3>2. DecidedTo(D, k + 1) = DecidedTo(D, k) \cup new
      BY <1>3, <1>6, <1>7, <3>1
    <3>. QED  BY <3>2 DEF SeqsTo
  <2>. HIDE DEF seqs
  <2>. QED  BY <2>1, <2>2, <2>3
<1>9. \A c \in Command : IsDelivered(q.dedup, c) <=> c \in DecidedTo(D, k + 1)
  <2>. SUFFICES ASSUME NEW c \in Command PROVE IsDelivered(q.dedup, c) <=> c \in DecidedTo(D, k + 1)
    OBVIOUS
  <2>1. c.origin \in Replica
    BY CommandsTyped
  <2>. QED  BY <1>1, <1>8, <2>1, DedupKnows
<1>10. /\ DOMAIN q.pool = DOMAIN r.pool \ new /\ \A c \in DOMAIN q.pool : q.pool[c] = r.pool[c]
       /\ q.pool \in Pools
  <2>1. q.pool = [c \in DOMAIN r.pool \ new |-> r.pool[c]]
    BY <1>4 DEF Removed
  <2>2. \A c \in DOMAIN r.pool : r.pool[c] \in PoolEntry
    BY <1>1, PoolTyped
  <2>3. q.pool \in [DOMAIN r.pool \ new -> PoolEntry]
    BY <2>1, <2>2
  <2>. QED  BY <1>1, <2>1, <2>3, IsPool
<1>11. q \in ReplicaState
  <2>1. q.log \in Seq(SUBSET Command)
    BY <1>1, <1>3, <1>4, AppendProperties
  <2>2. q = [r EXCEPT !.contig = q.contig, !.dedup = q.dedup, !.pool = q.pool, !.log = q.log]
    <3>1. q = [r EXCEPT !.contig = @ + 1, !.dedup = Marked(@, new), !.pool = Removed(@, new),
                        !.log = Append(@, new)]
      BY DEF q, new, DeliverNext
    <3>. QED  BY <1>1, <1>4, <3>1 DEF ReplicaState
  <2>3. q.dedup \in [Replica -> OriginDedup]
    BY <1>8, ReplicasTyped
  <2>. QED  BY <1>1, <1>4, <1>10, <2>1, <2>2, <2>3 DEF ReplicaState
<1>12. q.log = [n \in 1..(k + 1) |-> (UNION D[n]) \ DecidedTo(D, n - 1)]
  <2> DEFINE at(n) == (UNION D[n]) \ DecidedTo(D, n - 1)
  <2>1. r.log = [n \in 1..k |-> at(n)]
    BY DEF Consistent
  <2>2. at(k + 1) = new
    <3>1. (k + 1) - 1 = k
      BY <1>1
    <3>. QED  BY <1>2, <1>3, <1>7, <3>1
  <2>. HIDE DEF at
  <2>3. DOMAIN r.log = 1..k /\ Len(r.log) = k
    <3>1. DOMAIN r.log = 1..k
      BY <2>1
    <3>. QED  BY <1>1, <3>1, LenProperties
  <2>4. /\ Len(q.log) = k + 1 /\ q.log[k + 1] = new
        /\ \A n \in 1..k : q.log[n] = r.log[n]
        /\ q.log \in Seq(SUBSET Command)
    BY <1>1, <1>3, <1>4, <2>3, AppendProperties
  <2>5. DOMAIN q.log = 1..(k + 1) /\ q.log = [n \in 1..(k + 1) |-> q.log[n]]
    BY <2>4, LenProperties
  <2>6. \A n \in 1..(k + 1) : q.log[n] = at(n)
    <3>1. \A n \in 1..(k + 1) : n = k + 1 \/ n \in 1..k
      BY <1>1
    <3>. QED  BY <2>1, <2>2, <2>4, <3>1
  <2>. QED  BY <2>5, <2>6 DEF at
<1>13. \A c \in DOMAIN q.pool : ~IsDelivered(q.dedup, c)
  <2>1. \A c \in DOMAIN q.pool : c \in Command /\ c \notin new /\ ~IsDelivered(r.dedup, c)
    BY <1>1, <1>10 DEF Consistent
  <2>2. \A c \in DOMAIN q.pool : c \notin DecidedTo(D, k)
    BY <2>1, DeliveredIsDecided
  <2>. QED  BY <1>6, <1>7, <1>9, <2>1, <2>2
<1>14. ASSUME NEW c \in DOMAIN q.pool, q.pool[c].proposedIn # 0
       PROVE  LET t == q.pool[c].proposedIn
              IN  t > q.contig /\ (\/ q.slots[t] = "running"
                                   \/ q.slots[t] = "decided" /\ c \in UNION D[t])
  <2> DEFINE t == q.pool[c].proposedIn
  <2>1. c \in DOMAIN r.pool /\ t = r.pool[c].proposedIn /\ c \in Command /\ c \notin new
    BY <1>1, <1>10
  <2>2. /\ t > k /\ t \in Nat
        /\ \/ r.slots[t] = "running"
           \/ r.slots[t] = "decided" /\ c \in UNION D[t]
    BY <1>1, <1>14, <2>1, StateTyped DEF Consistent
  <2>3. t # k + 1
    <3>. SUFFICES ASSUME t = k + 1 PROVE FALSE
      OBVIOUS
    <3>1. c \in v
      BY <1>2, <2>2
    <3>2. ~IsDelivered(r.dedup, c)
      BY <2>1 DEF Consistent
    <3>. QED  BY <1>3, <2>1, <3>1, <3>2
  <2>. HIDE DEF t
  <2>4. t > k + 1
    BY <1>1, <2>2, <2>3
  <2>. QED  BY <1>4, <2>2, <2>4 DEF t
<1>15. Cost(DOMAIN q.pool) <= MaxPool
  <2>1. DOMAIN q.pool \in SUBSET (DOMAIN r.pool) /\ DOMAIN q.pool \in SUBSET Command
    BY <1>1, <1>10
  <2>2. Cost(DOMAIN q.pool) <= Cost(DOMAIN r.pool) /\ Cost(DOMAIN r.pool) <= MaxPool
    BY <1>1, <2>1, CostOfSubset DEF Consistent
  <2>3. Cost(DOMAIN q.pool) \in Nat /\ Cost(DOMAIN r.pool) \in Nat /\ MaxPool \in Nat
    BY <1>1, <2>1, CostTyped, LimitsAssumption
  <2>. QED  BY <2>2, <2>3
<1>16. /\ \A s \in Slot : s <= q.contig => q.slots[s] = "decided"
       /\ \A s \in Slot : q.slots[s] = "decided" => D[s] # {}
  <2>1. \A s \in Slot : s <= k + 1 => s <= k \/ s = k + 1
    BY <1>1, ReplicasTyped
  <2>. QED  BY <1>4, <2>1 DEF Consistent
<1>17. Consistent(q, D)
  BY <1>4, <1>8, <1>11, <1>12, <1>13, <1>14, <1>15, <1>16 DEF Consistent
<1>18. Running(q) \subseteq Running(r)
  <2>1. \A s \in Slot : s > k + 1 => s > k
    BY <1>1, ReplicasTyped
  <2>. QED  BY <1>4, <2>1 DEF Running
<1>19. \A c \in Command : (c \in DOMAIN r.pool \/ IsDelivered(r.dedup, c)) =>
                          (c \in DOMAIN q.pool \/ IsDelivered(q.dedup, c))
  <2>1. \A c \in Command : IsDelivered(r.dedup, c) => IsDelivered(q.dedup, c)
    BY <1>6, <1>9, DeliveredIsDecided
  <2>2. \A c \in new : IsDelivered(q.dedup, c)
    BY <1>3, <1>6, <1>9
  <2>. QED  BY <1>10, <2>1, <2>2
<1>20. q.contig >= r.contig
  BY <1>1, <1>4
<1>. QED  BY <1>4, <1>10, <1>17, <1>18, <1>19, <1>20 DEF Follows, q

AreDeliveries(r, D, n, g) ==
  g = [c \in r.contig..n |->
         IF c = r.contig THEN r ELSE DeliverNext(g[c - 1], CHOOSE v \in D[c] : TRUE)]

\* The recursion of try_deliver is well defined.
LEMMA DeliveriesExist ==
  ASSUME NEW r, r.contig \in Nat, NEW D, NEW k \in Nat
  PROVE  \E g : AreDeliveries(r, D, r.contig + k, g)
<1> DEFINE a == r.contig
           B == {n \in Nat : ~ \E g : AreDeliveries(r, D, a + n, g)}
<1>1. 0 \notin B
  <2> DEFINE g == [c \in a..(a + 0) |-> r]
  <2>1. g = [c \in a..(a + 0) |-> IF c = a THEN r ELSE DeliverNext(g[c - 1], CHOOSE v \in D[c] : TRUE)]
    <3>1. \A c \in a..(a + 0) : c = a
      OBVIOUS
    <3>. QED  BY <3>1
  <2>2. AreDeliveries(r, D, a + 0, g)
    BY <2>1 DEF AreDeliveries
  <2>. QED  BY <2>2
<1>2. B = {}
  <2>. SUFFICES ASSUME B # {} PROVE FALSE
    OBVIOUS
  <2>. B \subseteq Nat
    OBVIOUS
  <2>1. PICK n \in B : \A m \in B : n <= m
    <3>. HIDE DEF B
    <3>. QED  BY SmallestNumber
  <2>2. n # 0 /\ n \in Nat /\ n - 1 \in Nat /\ n - 1 \notin B
    BY <1>1, <2>1
  <2>3. PICK g : AreDeliveries(r, D, a + (n - 1), g)
    BY <2>2
  <2> DEFINE Next1(q, c) == DeliverNext(q, CHOOSE v \in D[c] : TRUE)
             last == a + n
             h == [c \in a..last |-> IF c = last THEN Next1(g[c - 1], c) ELSE g[c]]
  <2>4. g = [c \in a..(last - 1) |-> IF c = a THEN r ELSE Next1(g[c - 1], c)]
    <3>1. a + (n - 1) = last - 1
      BY <2>2
    <3>. QED  BY <2>3, <3>1 DEF AreDeliveries
  <2>5. last \in Nat /\ last > a
    BY <2>2
  <2>. HIDE DEF Next1, last
  <2>6. ASSUME NEW c \in a..last
        PROVE  h[c] = IF c = a THEN r ELSE Next1(h[c - 1], c)
    <3>1. CASE c = last
      <4>1. c # a /\ c - 1 \in a..last /\ c - 1 # last
        BY <2>5, <3>1
      <4>. QED  BY <3>1, <4>1
    <3>2. CASE c # last
      <4>1. c \in a..(last - 1) /\ (c # a => c - 1 \in a..last /\ c - 1 # last)
        BY <2>5, <3>2
      <4>. QED  BY <2>4, <3>2, <4>1
    <3>. QED  BY <3>1, <3>2
  <2>7. h = [c \in a..last |-> IF c = a THEN r ELSE Next1(h[c - 1], c)]
    BY <2>6
  <2>8. AreDeliveries(r, D, last, h)
    BY <2>7 DEF AreDeliveries, Next1
  <2>. QED  BY <2>1, <2>8 DEF last
<1>. QED  BY <1>2

\* try_deliver, all slots.
LEMMA DeliverAllKeeps ==
  ASSUME NEW D \in Decisions, SingleValued(D), NEW r, Consistent(r, D)
  PROVE  Follows(r, DeliverAll(r, D), D)
<1> DEFINE a == r.contig
           Ready(c) == \A s \in (a + 1)..c : r.slots[s] = "decided"
           last == CHOOSE c \in a..MaxSlot : Ready(c) /\ (c < MaxSlot => r.slots[c + 1] # "decided")
           g == CHOOSE g : AreDeliveries(r, D, MaxSlot, g)
<1>1. DeliverAll(r, D) = g[last]
  BY DEF DeliverAll, AreDeliveries
<1>2. a \in Nat /\ MaxSlot \in Nat /\ a <= MaxSlot /\ \A s \in (a + 1)..MaxSlot : s \in Slot
  BY StateTyped, ReplicasTyped DEF Consistent
<1>3. last \in a..MaxSlot /\ Ready(last)
  <2> DEFINE B == {c \in a..MaxSlot : Ready(c)}
  <2>1. B \subseteq 0..MaxSlot
    BY <1>2
  <2>2. a \in B
    BY <1>2
  <2>. HIDE DEF Ready
  <2>3. PICK c \in B : \A m \in B : m <= c
    <3>. HIDE DEF B
    <3>. QED  BY <1>2, <2>1, <2>2, GreatestNumber
  <2>4. c \in a..MaxSlot /\ Ready(c) /\ c \in Nat
    BY <1>2, <2>3
  <2>5. ASSUME c < MaxSlot, r.slots[c + 1] = "decided" PROVE FALSE
    <3>1. Ready(c + 1)
      <4>1. \A s \in (a + 1)..(c + 1) : s = c + 1 \/ s \in (a + 1)..c
        BY <1>2, <2>4
      <4>. QED  BY <2>4, <2>5, <4>1 DEF Ready
    <3>2. c + 1 \in B
      BY <1>2, <2>4, <2>5, <3>1
    <3>3. c + 1 <= c
      <4>. HIDE DEF B
      <4>. QED  BY <2>3, <3>2
    <3>. QED  BY <2>4, <3>3
  <2>. QED  BY <2>4, <2>5
<1>4. AreDeliveries(r, D, MaxSlot, g)
  <2>1. \E f : AreDeliveries(r, D, MaxSlot, f)
    <3>1. MaxSlot - a \in Nat /\ a + (MaxSlot - a) = MaxSlot
      BY <1>2
    <3>2. \E f : AreDeliveries(r, D, a + (MaxSlot - a), f)
      BY <1>2, <3>1, DeliveriesExist
    <3>. QED  BY <3>1, <3>2
  <2>. QED  BY <2>1, Zenon
<1>. HIDE DEF g, last
<1>5. \A c \in a..MaxSlot :
        g[c] = IF c = a THEN r ELSE DeliverNext(g[c - 1], CHOOSE v \in D[c] : TRUE)
  BY <1>4 DEF AreDeliveries
<1> DEFINE Good(c) == Follows(r, g[c], D) /\ g[c].contig = c /\ g[c].slots = r.slots
           Bad == {c \in a..last : ~Good(c)}
<1>6. Bad = {}
  <2>. SUFFICES ASSUME Bad # {} PROVE FALSE
    OBVIOUS
  <2>1. Bad \subseteq Nat
    BY <1>2, <1>3
  <2>2. PICK c \in Bad : \A m \in Bad : c <= m
    <3>. HIDE DEF Bad
    <3>. QED  BY <2>1, SmallestNumber
  <2>3. c \in a..last /\ ~Good(c) /\ c \in a..MaxSlot /\ c \in Nat
    BY <1>2, <1>3, <2>2
  <2>4. c # a
    <3>. SUFFICES ASSUME c = a PROVE FALSE
      OBVIOUS
    <3>1. g[c] = r
      BY <1>5, <2>3
    <3>2. Follows(r, r, D)
      BY FollowsNothing
    <3>. QED  BY <2>3, <3>1, <3>2
  <2>5. c - 1 \in a..last /\ Good(c - 1)
    <3>1. c - 1 \in a..last /\ ~(c <= c - 1)
      BY <1>2, <1>3, <2>3, <2>4
    <3>2. c - 1 \notin Bad
      BY <2>2, <3>1
    <3>. HIDE DEF Good
    <3>. QED  BY <3>1, <3>2
  <2> DEFINE p == g[c - 1]
             v == CHOOSE v \in D[c] : TRUE
  <2>6. p.contig = c - 1 /\ p.slots = r.slots /\ Consistent(p, D) /\ Follows(r, p, D)
    BY <2>5 DEF Follows
  <2>7. g[c] = DeliverNext(p, v)
    BY <1>5, <2>3, <2>4
  <2>8. r.slots[c] = "decided" /\ c \in Slot /\ (c - 1) + 1 = c /\ c - 1 < MaxSlot
    <3>1. c \in (a + 1)..last /\ c \in (a + 1)..MaxSlot
      BY <1>2, <1>3, <2>3, <2>4
    <3>. QED  BY <1>2, <1>3, <2>3, <3>1
  <2>9. v \in D[c]
    <3>1. D[c] # {}
      BY <2>8 DEF Consistent
    <3>. QED  BY <3>1
  <2>. HIDE DEF p, v, Good
  <2>10. p.contig < MaxSlot /\ p.slots[p.contig + 1] = "decided" /\ v \in D[p.contig + 1]
    BY <2>6, <2>8, <2>9
  <2>11. Follows(p, g[c], D) /\ g[c].contig = c /\ g[c].slots = p.slots
    BY <2>6, <2>7, <2>8, <2>10, DeliverNextKeeps
  <2>12. Follows(r, g[c], D)
    BY <2>6, <2>11, FollowsTransitive
  <2>. QED  BY <2>3, <2>6, <2>11, <2>12 DEF Good
<1>7. last \in a..last
  BY <1>2, <1>3
<1>8. Good(last)
  BY <1>6, <1>7
<1>. QED  BY <1>1, <1>8

-----------------------------------------------------------------------------
(* A step of a replica. *)

LEMMA InvTyped ==
  Inv => /\ rep \in [Replica -> ReplicaState] /\ decisions \in Decisions
         /\ proposals \in [Slot -> SUBSET SUBSET Command]
         /\ SingleValued(decisions)
         /\ \A i \in Replica : rep[i] \in ReplicaState /\ Consistent(rep[i], decisions)
BY DEF Inv, TypeOK, Decisions, DecisionsReal, SingleValued

LEMMA SeqsGrow ==
  ASSUME NEW D \in Decisions, NEW E1 \in Decisions, \A s \in Slot : D[s] \subseteq E1[s],
         NEW o \in Replica, NEW k \in 0..MaxSlot, NEW l \in 0..MaxSlot, k <= l
  PROVE  SeqsTo(D, o, k) \subseteq SeqsTo(E1, o, l)
<1>1. ASSUME NEW c \in DecidedTo(D, k) PROVE c \in DecidedTo(E1, l)
  <2>1. PICK s \in Slot : s <= k /\ c \in UNION D[s]
    BY DecidedTyped
  <2>2. s <= l /\ c \in UNION E1[s]
    BY <2>1, ReplicasTyped
  <2>. QED  BY <2>2, DecidedTyped
<1>. QED  BY <1>1 DEF SeqsTo

LEMMA SubmittedGrows ==
  ASSUME Inv, NEW i \in Replica, NEW q, Move(i, q), NEW n \in Nat, q.nextSeq = n, n >= rep[i].nextSeq
  PROVE  /\ Submitted \subseteq Submitted' /\ Submitted' \in SUBSET Command
         /\ \A c \in Command : c.origin = i => (c \in Submitted' <=> c.seq <= n)
         /\ \A c \in Command : c.origin # i => (c \in Submitted' <=> c \in Submitted)
<1>1. \A j \in Replica : rep'[j] = IF j = i THEN q ELSE rep[j]
  BY InvTyped DEF Move
<1>2. \A c \in Command : c.origin \in Replica /\ c.seq \in Nat
  BY CommandsTyped
<1>3. \A c \in Command : c.origin = i => (c \in Submitted' <=> c.seq <= n)
  BY <1>1, <1>2 DEF Submitted
<1>4. \A c \in Command : c.origin # i => (c \in Submitted' <=> c \in Submitted)
  BY <1>1, <1>2 DEF Submitted
<1>5. rep[i].nextSeq \in Nat
  BY InvTyped, StateTyped
<1>6. \A c \in Submitted : c \in Command /\ (c.origin = i => c.seq <= rep[i].nextSeq)
  BY <1>2 DEF Submitted
<1>7. ASSUME NEW c \in Submitted PROVE c \in Submitted'
  <2>1. CASE c.origin = i
    BY <1>2, <1>3, <1>5, <1>6, <2>1
  <2>2. CASE c.origin # i
    BY <1>4, <1>6, <2>2
  <2>. QED  BY <2>1, <2>2
<1>8. Submitted' \in SUBSET Command
  BY DEF Submitted
<1>. QED  BY <1>3, <1>4, <1>7, <1>8

\* A replica alone goes on, and what is decided stays.
Advances(i) ==
  /\ rep' = [rep EXCEPT ![i] = rep'[i]] /\ rep'[i].contig >= rep[i].contig
  /\ \A s \in Slot : decisions[s] \subseteq decisions'[s]

\* What every action is made of: the replica changes its pool or its log, to a
\* consistent state mid, and then starts runs.
LEMMA StepKeeps ==
  ASSUME Inv, NEW i \in Replica, NEW mid, NEW q, Move(i, q), Activates(mid, q),
         Consistent(mid, decisions'), Running(mid) \subseteq Running(rep[i]),
         mid.nextSeq >= rep[i].nextSeq, mid.contig >= rep[i].contig,
         decisions' \in Decisions, SingleValued(decisions'),
         \A s \in Slot : decisions[s] \subseteq decisions'[s] /\ decisions'[s] \subseteq proposals[s],
         DOMAIN mid.pool \subseteq Submitted',
         \A c \in Command : c.origin = i /\ c.seq <= mid.nextSeq =>
                              c \in DOMAIN mid.pool \/ IsDelivered(mid.dedup, c),
         \A m \in forwards' : /\ m \in [to : Replica, commands : SUBSET Command]
                              /\ m.commands \subseteq Submitted' /\ Fits(m.commands)
  PROVE  Inv' /\ Advances(i) /\ rep'[i].nextSeq = mid.nextSeq /\ rep'[i].contig = mid.contig
<1>1. /\ rep \in [Replica -> ReplicaState] /\ decisions \in Decisions
      /\ proposals \in [Slot -> SUBSET SUBSET Command] /\ SingleValued(decisions)
      /\ \A j \in Replica : rep[j] \in ReplicaState /\ Consistent(rep[j], decisions)
  BY InvTyped
<1>2. /\ mid \in ReplicaState /\ q \in ReplicaState /\ q.contig = mid.contig /\ q.dedup = mid.dedup
      /\ q.nextSeq = mid.nextSeq /\ DOMAIN q.pool = DOMAIN mid.pool
  BY DEF Activates, Consistent
<1>3. /\ rep' \in [Replica -> ReplicaState]
      /\ \A j \in Replica : rep'[j] = IF j = i THEN q ELSE rep[j]
  BY <1>1, <1>2 DEF Move
<1>4. Consistent(q, decisions')
  BY ActivatesKeepsConsistent
<1>5. \A j \in Replica : Consistent(rep'[j], decisions')
  <2>1. ASSUME NEW j \in Replica PROVE Consistent(rep[j], decisions')
    BY <1>1, DecisionsGrow
  <2>. QED  BY <1>3, <1>4, <2>1
<1>6. ASSUME NEW s \in Slot
      PROVE  /\ proposals[s] \subseteq proposals'[s]
             /\ \A C \in proposals'[s] :
                  \/ C \in proposals[s]
                  \/ /\ C \in SUBSET Batchable(mid) /\ Fits(C) /\ C \in SUBSET Command
                     /\ s > mid.contig
  <2>1. proposals'[s] = proposals[s] \cup
          IF s \in Running(q) \ Running(rep[i]) THEN {ClaimedFor(q, s)} ELSE {}
    BY DEF Move
  <2>2. ASSUME s \in Running(q) \ Running(rep[i])
        PROVE  /\ ClaimedFor(q, s) \in SUBSET Batchable(mid) /\ Fits(ClaimedFor(q, s))
               /\ ClaimedFor(q, s) \in SUBSET Command /\ s > mid.contig
    <3>1. s \in Running(q) \ Running(mid)
      BY <2>2
    <3>2. ClaimedFor(q, s) \subseteq Batchable(mid) /\ Fits(ClaimedFor(q, s))
      BY <3>1 DEF Activates
    <3>3. s > q.contig
      BY <2>2 DEF Running
    <3>. QED  BY <1>2, <3>2, <3>3, BatchableTyped
  <2>. QED  BY <2>1, <2>2
<1>7. proposals' \in [Slot -> SUBSET SUBSET Command]
  <2>1. \A s \in Slot : proposals'[s] \in SUBSET SUBSET Command
    BY <1>1, <1>6
  <2>2. proposals' = [s \in Slot |-> proposals'[s]]
    BY DEF Move
  <2>. QED  BY <2>1, <2>2
<1>8. /\ Submitted \subseteq Submitted'
      /\ \A c \in Command : c.origin = i => (c \in Submitted' <=> c.seq <= mid.nextSeq)
      /\ \A c \in Command : c.origin # i => (c \in Submitted' <=> c \in Submitted)
  <2>1. mid.nextSeq \in Nat
    BY <1>2, StateTyped
  <2>. QED  BY <1>2, <2>1, SubmittedGrows
<1>9. TypeOK'
  <2>1. \A j \in Replica : Cost(DOMAIN rep'[j].pool) <= MaxPool
    BY <1>5 DEF Consistent
  <2>2. decisions' \in [Slot -> SUBSET SUBSET Command]
    BY DEF Decisions
  <2>. QED  BY <1>3, <1>7, <2>1, <2>2 DEF TypeOK
<1>10. DecisionsReal'
  BY <1>6 DEF DecisionsReal, SingleValued
<1>11. AllSubmitted'
  <2>1. ASSUME NEW s \in Slot, NEW C \in proposals'[s] PROVE C \subseteq Submitted'
    <3>1. CASE C \in proposals[s]
      BY <1>8, <3>1 DEF Inv, AllSubmitted
    <3>2. CASE C \in SUBSET Batchable(mid)
      BY <1>2, <3>2, BatchableTyped
    <3>. QED  BY <1>6, <3>1, <3>2
  <2>2. ASSUME NEW j \in Replica PROVE DOMAIN rep'[j].pool \subseteq Submitted'
    <3>1. CASE j = i
      BY <1>2, <1>3, <3>1
    <3>2. CASE j # i
      BY <1>3, <1>8, <3>2 DEF Inv, AllSubmitted
    <3>. QED  BY <3>1, <3>2
  <2>3. \A s \in Slot : UNION proposals'[s] \subseteq Submitted'
    BY <2>1
  <2>4. \A m \in forwards' : m.commands \subseteq Submitted'
    OBVIOUS
  <2>. QED  BY <2>2, <2>3, <2>4 DEF AllSubmitted
<1>12. ProposedWithinWindow'
  <2>. SUFFICES ASSUME NEW s \in Slot, NEW C \in proposals'[s], NEW c \in C
       PROVE  1..(c.seq - Window) \subseteq SeqsTo(decisions', c.origin, s - 1)
    BY DEF ProposedWithinWindow
  <2>1. C \in SUBSET Command /\ c \in Command /\ c.origin \in Replica /\ c.seq \in Nat
    BY <1>7, CommandsTyped
  <2>2. s - 1 \in 0..MaxSlot
    BY ReplicasTyped
  <2>3. CASE C \in proposals[s]
    <3>1. 1..(c.seq - Window) \subseteq SeqsTo(decisions, c.origin, s - 1)
      BY <2>3 DEF Inv, ProposedWithinWindow
    <3>2. SeqsTo(decisions, c.origin, s - 1) \subseteq SeqsTo(decisions', c.origin, s - 1)
      BY <1>1, <2>1, <2>2, SeqsGrow
    <3>. QED  BY <3>1, <3>2
  <2>4. CASE C \in SUBSET Batchable(mid) /\ s > mid.contig
    <3> DEFINE mark == mid.dedup[c.origin].highWater
    <3>1. c.seq <= mark + Window
      BY <2>4 DEF Batchable
    <3>2. 1..mark \subseteq SeqsTo(decisions', c.origin, mid.contig)
      BY <2>1 DEF Consistent
    <3>3. mark \in Nat /\ mid.contig \in 0..MaxSlot /\ Window \in Nat /\ mid.contig <= s - 1
      <4>1. mark \in Nat /\ mid.contig \in 0..MaxSlot /\ mid.contig \in Nat
        BY <1>2, <2>1, StateTyped
      <4>2. s \in Int /\ s > mid.contig
        BY <2>4, ReplicasTyped
      <4>. QED  BY <4>1, <4>2, LimitsAssumption
    <3>4. SeqsTo(decisions', c.origin, mid.contig) \subseteq SeqsTo(decisions', c.origin, s - 1)
      BY <2>1, <2>2, <3>3, SeqsGrow
    <3>. HIDE DEF mark
    <3>5. 1..(c.seq - Window) \subseteq 1..mark
      BY <2>1, <3>1, <3>3
    <3>. QED  BY <3>2, <3>4, <3>5 DEF mark
  <2>. QED  BY <1>6, <2>3, <2>4
<1>13. KeptByOrigin'
  <2>. SUFFICES ASSUME NEW c \in Submitted'
       PROVE  c \in DOMAIN rep'[c.origin].pool \/ IsDelivered(rep'[c.origin].dedup, c)
    BY DEF KeptByOrigin
  <2>1. c \in Command /\ c.origin \in Replica
    BY CommandsTyped DEF Submitted
  <2>2. CASE c.origin = i
    BY <1>2, <1>3, <1>8, <2>1, <2>2
  <2>3. CASE c.origin # i
    <3>1. c \in Submitted
      BY <1>8, <2>1, <2>3
    <3>2. c \in DOMAIN rep[c.origin].pool \/ IsDelivered(rep[c.origin].dedup, c)
      BY <3>1 DEF Inv, KeptByOrigin
    <3>. QED  BY <1>3, <2>1, <2>3, <3>2
  <2>. QED  BY <2>2, <2>3
<1>14. BatchesFit'
  <2>1. ASSUME NEW s \in Slot, NEW C \in proposals'[s] PROVE Fits(C)
    <3>1. CASE C \in proposals[s]
      BY <3>1 DEF Inv, BatchesFit, Fits
    <3>. QED  BY <1>6, <3>1
  <2>2. \A C \in UNION {proposals'[s] : s \in Slot} : Fits(C)
    BY <2>1
  <2>3. \A C \in {m.commands : m \in forwards'} : Fits(C)
    OBVIOUS
  <2>. QED  BY <2>2, <2>3, Zenon DEF BatchesFit, Fits
<1>15. Inv'
  BY <1>5, <1>9, <1>10, <1>11, <1>12, <1>13, <1>14 DEF Inv
<1>16. Advances(i) /\ rep'[i].nextSeq = mid.nextSeq /\ rep'[i].contig = mid.contig
  BY <1>1, <1>2, <1>3 DEF Advances, Move
<1>. QED  BY <1>15, <1>16

-----------------------------------------------------------------------------
(* The actions. *)

\* Where nothing is decided and no Forward sent.
LEMMA QuietStep ==
  ASSUME Inv, NEW i \in Replica, NEW mid, NEW q, Move(i, q), Activates(mid, q),
         UNCHANGED decisions, forwards' \subseteq forwards,
         Consistent(mid, decisions), Running(mid) \subseteq Running(rep[i]),
         mid.nextSeq = rep[i].nextSeq, mid.dedup = rep[i].dedup, mid.contig = rep[i].contig,
         DOMAIN rep[i].pool \subseteq DOMAIN mid.pool, DOMAIN mid.pool \subseteq Submitted
  PROVE  Inv' /\ Advances(i) /\ rep'[i].nextSeq = rep[i].nextSeq
<1>1. /\ decisions \in Decisions /\ SingleValued(decisions)
      /\ rep[i] \in ReplicaState
  BY InvTyped
<1>2. /\ mid.nextSeq \in Nat /\ mid.nextSeq >= rep[i].nextSeq /\ q.nextSeq = mid.nextSeq
      /\ mid.contig >= rep[i].contig
  BY <1>1, StateTyped DEF Activates
<1>3. Submitted \subseteq Submitted'
  BY <1>1, <1>2, SubmittedGrows
<1>4. \A s \in Slot : decisions[s] \subseteq decisions'[s] /\ decisions'[s] \subseteq proposals[s]
  BY DEF Inv, DecisionsReal
<1>5. \A m \in forwards' : /\ m \in [to : Replica, commands : SUBSET Command]
                           /\ m.commands \subseteq Submitted' /\ Fits(m.commands)
  <2>1. \A m \in forwards : m \in [to : Replica, commands : SUBSET Command]
    BY DEF Inv, TypeOK
  <2>2. \A m \in forwards : m.commands \subseteq Submitted
    BY DEF Inv, AllSubmitted
  <2>3. \A m \in forwards : Fits(m.commands)
    BY DEF Inv, BatchesFit, Fits
  <2>. QED  BY <1>3, <2>1, <2>2, <2>3
<1>6. \A c \in Command : c.origin = i /\ c.seq <= mid.nextSeq =>
                           c \in DOMAIN mid.pool \/ IsDelivered(mid.dedup, c)
  <2>1. \A c \in Command : c.origin = i /\ c.seq <= mid.nextSeq => c \in Submitted
    BY <1>2 DEF Submitted
  <2>. QED  BY <2>1 DEF Inv, KeptByOrigin
<1>. QED  BY <1>1, <1>2, <1>3, <1>4, <1>5, <1>6, StepKeeps

LEMMA SlotBeyond ==
  ASSUME NEW D, NEW r, Consistent(r, D), NEW s \in Slot, r.slots[s] \in {"none", "idle"}
  PROVE  s > r.contig
<1>1. r.contig \in Nat /\ s \in Nat
  BY StateTyped, ReplicasTyped DEF Consistent
<1>. QED  BY <1>1 DEF Consistent

LEMMA OnRecordKeeps ==
  ASSUME Inv, NEW i \in Up, OnRecord(i)
  PROVE  Inv' /\ Advances(i) /\ rep'[i].nextSeq = rep[i].nextSeq
<1>1. i \in Replica /\ rep[i] \in ReplicaState /\ Consistent(rep[i], decisions)
  BY InvTyped, ReplicasTyped
<1>2. PICK s \in Slot : rep[i].slots[s] = "none" /\ Move(i, [rep[i] EXCEPT !.slots[s] = "idle"])
  BY DEF OnRecord
<1>3. Activates(rep[i], [rep[i] EXCEPT !.slots[s] = "idle"])
  BY <1>1, <1>2, SlotBeyond, ActivatesIdle
<1>4. DOMAIN rep[i].pool \subseteq Submitted
  BY <1>1 DEF Inv, AllSubmitted
<1>5. UNCHANGED <<forwards, decisions>>
  BY DEF OnRecord
<1>. QED  BY <1>1, <1>2, <1>3, <1>4, <1>5, QuietStep

LEMMA ObserveFrontierKeeps ==
  ASSUME Inv, NEW i \in Up, ObserveFrontier(i)
  PROVE  Inv' /\ Advances(i) /\ rep'[i].nextSeq = rep[i].nextSeq
<1> DEFINE s == rep[i].contig + 1
<1>1. i \in Replica /\ rep[i] \in ReplicaState /\ Consistent(rep[i], decisions)
  BY InvTyped, ReplicasTyped
<1>2. /\ s \in Slot /\ rep[i].slots[s] = "none"
      /\ Move(i, [rep[i] EXCEPT !.slots[s] = "idle"])
  <2>1. rep[i].contig \in Nat /\ rep[i].contig < MaxSlot
    BY <1>1, StateTyped DEF ObserveFrontier
  <2>. QED  BY <2>1, ReplicasTyped DEF ObserveFrontier
<1>. HIDE DEF s
<1>3. Activates(rep[i], [rep[i] EXCEPT !.slots[s] = "idle"])
  BY <1>1, <1>2, SlotBeyond, ActivatesIdle
<1>4. DOMAIN rep[i].pool \subseteq Submitted
  BY <1>1 DEF Inv, AllSubmitted
<1>5. UNCHANGED <<forwards, decisions>>
  BY DEF ObserveFrontier
<1>. QED  BY <1>1, <1>2, <1>3, <1>4, <1>5, QuietStep

LEMMA HedgeKeeps ==
  ASSUME Inv, NEW i \in Up, Hedge(i)
  PROVE  Inv' /\ Advances(i) /\ rep'[i].nextSeq = rep[i].nextSeq
<1>1. i \in Replica /\ rep[i] \in ReplicaState /\ Consistent(rep[i], decisions)
  BY InvTyped, ReplicasTyped
<1>2. PICK s \in Slot : /\ s > rep[i].contig /\ rep[i].slots[s] = "idle"
                        /\ Move(i, Activated(rep[i], s, 1))
  BY DEF Hedge
<1>3. Activates(rep[i], Activated(rep[i], s, 1))
  <2>1. s \in Int /\ s + 1 - 1 = s /\ s <= MaxSlot /\ MaxSlot \in Nat
    BY ReplicasTyped
  <2>2. \A t \in s..(s + 1 - 1) : t = s
    BY <2>1
  <2>. QED  BY <1>1, <1>2, <2>1, <2>2, ActivatesRuns
<1>4. DOMAIN rep[i].pool \subseteq Submitted
  BY <1>1 DEF Inv, AllSubmitted
<1>5. UNCHANGED <<forwards, decisions>>
  BY DEF Hedge
<1>. QED  BY <1>1, <1>2, <1>3, <1>4, <1>5, QuietStep

LEMMA OnForwardKeeps ==
  ASSUME Inv, NEW i \in Up, OnForward(i)
  PROVE  Inv' /\ Advances(i) /\ rep'[i].nextSeq = rep[i].nextSeq
<1> DEFINE r == rep[i]
<1>1. i \in Replica /\ r \in ReplicaState /\ Consistent(r, decisions)
  BY InvTyped, ReplicasTyped
<1>2. PICK m \in forwards : \E A \in Accepted(r, Fresh(r, m.commands)) :
         Move(i, Opened(i, [r EXCEPT !.pool = Inserted(@, A, 0)]))
  BY DEF OnForward
<1>3. PICK A \in Accepted(r, Fresh(r, m.commands)) :
         Move(i, Opened(i, [r EXCEPT !.pool = Inserted(@, A, 0)]))
  BY <1>2
<1> DEFINE mid == [r EXCEPT !.pool = Inserted(@, A, 0)]
<1>4. m.commands \subseteq Submitted /\ m.commands \in SUBSET Command
  BY DEF Inv, AllSubmitted, TypeOK
<1>5. /\ A \subseteq m.commands /\ A \in SUBSET Command /\ Cost(DOMAIN r.pool \cup A) <= MaxPool
      /\ \A c \in A : ~IsDelivered(r.dedup, c)
  <2> DEFINE C == Fresh(r, m.commands)
  <2>1. /\ C \subseteq m.commands /\ C \cap DOMAIN r.pool = {}
        /\ \A c \in C : ~IsDelivered(r.dedup, c)
    BY DEF Fresh
  <2>2. DOMAIN r.pool \in SUBSET Command /\ Cost(DOMAIN r.pool) <= MaxPool
    BY <1>1, StateTyped DEF Consistent
  <2>. HIDE DEF C, r
  <2>3. C \in SUBSET Command /\ A \in Accepted(r, C)
    BY <1>3, <1>4, <2>1 DEF C
  <2>4. A \in SUBSET C /\ Cost(DOMAIN r.pool \cup A) <= MaxPool
    BY <2>1, <2>2, <2>3, AcceptedFit
  <2>. QED  BY <1>4, <2>1, <2>4
<1>. HIDE DEF r
<1>6. /\ r.pool \in Pools
      /\ \A c \in DOMAIN r.pool : ~IsDelivered(r.dedup, c)
  BY <1>1, StateTyped DEF Consistent
<1>7. 0 \in 0..(N - 2)
  BY NAssumption
<1> DEFINE p == Inserted(r.pool, A, 0)
<1>8. /\ p \in Pools /\ DOMAIN p = DOMAIN r.pool \cup A
      /\ \A c \in DOMAIN p : p[c].proposedIn # 0 =>
              c \in DOMAIN r.pool /\ p[c].proposedIn = r.pool[c].proposedIn
  BY <1>5, <1>6, <1>7, InsertedTyped
<1>. HIDE DEF p
<1>9. /\ mid.contig = r.contig /\ mid.slots = r.slots /\ mid.dedup = r.dedup /\ mid.log = r.log
      /\ mid.nextSeq = r.nextSeq /\ mid.pool = p /\ mid \in ReplicaState
  <2>1. mid = [r EXCEPT !.pool = p]
    BY DEF p
  <2>. HIDE DEF mid
  <2>. QED  BY <1>1, <1>8, <2>1 DEF ReplicaState
<1>. HIDE DEF mid
<1>10. Consistent(mid, decisions) /\ Running(mid) = Running(r)
  BY <1>1, <1>5, <1>6, <1>8, <1>9, PoolChange
<1>11. Activates(mid, Opened(i, mid)) /\ Move(i, Opened(i, mid))
  BY <1>3, <1>10, ActivatesOpened DEF mid
<1>12. DOMAIN r.pool \subseteq Submitted
  BY <1>1 DEF Inv, AllSubmitted, r
<1>13. DOMAIN r.pool \subseteq DOMAIN mid.pool /\ DOMAIN mid.pool \subseteq Submitted
  BY <1>4, <1>5, <1>8, <1>9, <1>12
<1>14. UNCHANGED <<forwards, decisions>>
  BY DEF OnForward
<1>. QED  BY <1>1, <1>9, <1>10, <1>11, <1>13, <1>14, QuietStep DEF r

\* All that has been decided or waits anywhere has been submitted.
LEMMA KnownIsSubmitted ==
  ASSUME Inv, NEW i \in Replica
  PROVE  /\ DOMAIN rep[i].pool \subseteq Submitted
         /\ \A c \in Command : IsDelivered(rep[i].dedup, c) => c \in Submitted
<1>1. /\ Consistent(rep[i], decisions) /\ rep[i].contig \in 0..MaxSlot /\ decisions \in Decisions
  BY InvTyped, StateTyped
<1>2. ASSUME NEW c \in Command, IsDelivered(rep[i].dedup, c) PROVE c \in Submitted
  <2>1. c \in DecidedTo(decisions, rep[i].contig)
    BY <1>1, <1>2, DeliveredIsDecided
  <2>2. PICK s \in Slot : c \in UNION decisions[s]
    BY <1>1, <2>1, DecidedTyped
  <2>3. c \in UNION proposals[s]
    BY <2>2 DEF Inv, DecisionsReal
  <2>. QED  BY <2>3 DEF Inv, AllSubmitted
<1>. QED  BY <1>2 DEF Inv, AllSubmitted

LEMMA SubmitKeeps ==
  ASSUME Inv, NEW i \in Up, Submit(i)
  PROVE  /\ Inv' /\ Advances(i) /\ UNCHANGED decisions
         /\ rep'[i].nextSeq = rep[i].nextSeq + 1 /\ rep'[i].contig = rep[i].contig
<1> DEFINE r == rep[i]
           c == [origin |-> i, seq |-> r.nextSeq + 1]
           attempts == IF i = Leader THEN 0 ELSE 1 % (N - 1)
           mid == [r EXCEPT !.nextSeq = @ + 1, !.pool = Inserted(@, {c}, attempts)]
           q == Opened(i, mid)
           p == Inserted(r.pool, {c}, attempts)
<1>1. /\ i \in Replica /\ r \in ReplicaState /\ Consistent(r, decisions)
      /\ decisions \in Decisions /\ SingleValued(decisions)
  BY InvTyped, ReplicasTyped
<1>2. /\ r.nextSeq < Submissions[i] /\ Cost(DOMAIN r.pool) + Size[c] <= MaxPool
      /\ Move(i, q) /\ UNCHANGED decisions
      /\ forwards' = IF i = Leader THEN forwards
                     ELSE forwards \cup {[to |-> Target(i, 0), commands |-> {c}]}
  BY DEF Submit
<1>3. r.nextSeq \in Nat /\ r.pool \in Pools /\ DOMAIN r.pool \in SUBSET Command
  BY <1>1, StateTyped
<1>4. c \in Command /\ c.origin = i /\ c.seq = r.nextSeq + 1
  <2>1. r.nextSeq + 1 \in 1..Submissions[i]
    BY <1>1, <1>2, <1>3, SubmissionsAssumption
  <2>. HIDE DEF r
  <2>. QED  BY <1>1, <2>1, CommandsTyped
<1>5. c \notin Submitted
  BY <1>3, <1>4 DEF Submitted
<1>6. c \notin DOMAIN r.pool /\ ~IsDelivered(r.dedup, c) /\ DOMAIN r.pool \subseteq Submitted
  BY <1>1, <1>4, <1>5, KnownIsSubmitted
<1>7. attempts \in 0..(N - 2)
  <2>1. N \in Nat /\ N >= 2
    BY NAssumption
  <2>2. 1 % (N - 1) \in 0..(N - 2)
    BY <2>1
  <2>. QED  BY <2>1, <2>2
<1>. HIDE DEF c, attempts
<1>8. /\ p \in Pools /\ DOMAIN p = DOMAIN r.pool \cup {c}
      /\ \A d \in DOMAIN p : p[d].proposedIn # 0 =>
              d \in DOMAIN r.pool /\ p[d].proposedIn = r.pool[d].proposedIn
  <2>1. {c} \in SUBSET Command
    BY <1>4
  <2>. HIDE DEF r
  <2>. QED  BY <1>3, <1>7, <2>1, InsertedTyped
<1>9. /\ mid.contig = r.contig /\ mid.slots = r.slots /\ mid.dedup = r.dedup /\ mid.log = r.log
      /\ mid.nextSeq = r.nextSeq + 1 /\ mid.pool = p /\ mid \in ReplicaState
  <2>1. mid = [r EXCEPT !.nextSeq = r.nextSeq + 1, !.pool = p]
    BY <1>1 DEF ReplicaState
  <2>2. r.nextSeq + 1 \in Nat
    BY <1>3
  <2>. HIDE DEF mid, p, r
  <2>. QED  BY <1>1, <1>8, <2>1, <2>2 DEF ReplicaState
<1>. HIDE DEF mid, p
<1>10. Consistent(mid, decisions) /\ Running(mid) = Running(r)
  <2>1. \A d \in DOMAIN mid.pool :
          /\ ~IsDelivered(r.dedup, d)
          /\ mid.pool[d].proposedIn # 0 =>
               d \in DOMAIN r.pool /\ mid.pool[d].proposedIn = r.pool[d].proposedIn
    BY <1>1, <1>6, <1>8, <1>9 DEF Consistent
  <2>2. Cost(DOMAIN mid.pool) <= MaxPool
    <3>. HIDE DEF r
    <3>1. Cost(DOMAIN r.pool \cup {c}) = Cost(DOMAIN r.pool) + Size[c]
      BY <1>3, <1>4, <1>6, CostWith
    <3>. QED  BY <1>2, <1>8, <1>9, <3>1
  <2>. HIDE DEF r
  <2>. QED  BY <1>1, <1>9, <2>1, <2>2, PoolChange
<1>11. Activates(mid, q)
  BY <1>10, ActivatesOpened
<1>. HIDE DEF q
<1>12. /\ Submitted \subseteq Submitted' /\ c \in Submitted'
       /\ \A d \in Command : d.origin = i => (d \in Submitted' <=> d.seq <= mid.nextSeq)
  <2>1. q.nextSeq = mid.nextSeq /\ mid.nextSeq \in Nat /\ mid.nextSeq >= rep[i].nextSeq
    BY <1>3, <1>9, <1>11 DEF Activates
  <2>2. /\ Submitted \subseteq Submitted'
        /\ \A d \in Command : d.origin = i => (d \in Submitted' <=> d.seq <= mid.nextSeq)
    BY <1>1, <1>2, <2>1, SubmittedGrows
  <2>3. c.seq <= mid.nextSeq
    BY <1>3, <1>4, <1>9
  <2>. QED  BY <1>4, <2>2, <2>3
<1>13. DOMAIN mid.pool \subseteq Submitted'
  BY <1>6, <1>8, <1>9, <1>12
<1>14. \A d \in Command : d.origin = i /\ d.seq <= mid.nextSeq =>
                            d \in DOMAIN mid.pool \/ IsDelivered(mid.dedup, d)
  <2>. SUFFICES ASSUME NEW d \in Command, d.origin = i, d.seq <= mid.nextSeq, d # c
       PROVE  d \in DOMAIN mid.pool \/ IsDelivered(mid.dedup, d)
    BY <1>8, <1>9
  <2>1. d.seq \in Nat /\ d.seq # c.seq
    BY <1>4, CommandsTyped
  <2>2. d \in Submitted
    BY <1>3, <1>4, <1>9, <2>1 DEF Submitted
  <2>. QED  BY <1>8, <1>9, <2>2 DEF Inv, KeptByOrigin
<1>15. \A m \in forwards' : /\ m \in [to : Replica, commands : SUBSET Command]
                            /\ m.commands \subseteq Submitted' /\ Fits(m.commands)
  <2>1. \A m \in forwards : /\ m \in [to : Replica, commands : SUBSET Command]
                            /\ m.commands \subseteq Submitted' /\ Fits(m.commands)
    BY <1>12 DEF Inv, TypeOK, AllSubmitted, BatchesFit, Fits
  <2> DEFINE m == [to |-> Target(i, 0), commands |-> {c}]
  <2>2. /\ m \in [to : Replica, commands : SUBSET Command]
        /\ m.commands \subseteq Submitted' /\ Fits(m.commands)
    <3>1. Target(i, 0) \in Replica
      BY <1>1, TargetTyped
    <3>2. Cardinality({c}) = 1
      BY FS_Singleton
    <3>. QED  BY <1>4, <1>12, <3>1, <3>2 DEF Fits
  <2>. HIDE DEF m
  <2>3. \A n \in forwards' : n \in forwards \/ n = m
    BY <1>2 DEF m
  <2>. QED  BY <2>1, <2>2, <2>3
<1>16. \A s \in Slot : decisions[s] \subseteq decisions'[s] /\ decisions'[s] \subseteq proposals[s]
  BY <1>2 DEF Inv, DecisionsReal
<1>17. /\ Running(mid) \subseteq Running(rep[i]) /\ mid.nextSeq >= rep[i].nextSeq
       /\ mid.contig = rep[i].contig /\ mid.contig >= rep[i].contig
       /\ mid.nextSeq = rep[i].nextSeq + 1
  BY <1>1, <1>3, <1>9, <1>10, StateTyped
<1>. HIDE DEF r
<1>. QED  BY <1>1, <1>2, <1>10, <1>11, <1>13, <1>14, <1>15, <1>16, <1>17, StepKeeps

LEMMA ReforwardKeeps ==
  ASSUME Inv, NEW i \in Up, Reforward(i)
  PROVE  Inv' /\ Advances(i) /\ rep'[i].nextSeq = rep[i].nextSeq
<1> DEFINE r == rep[i]
<1>1. /\ i \in Replica /\ r \in ReplicaState /\ Consistent(r, decisions)
      /\ decisions \in Decisions /\ SingleValued(decisions)
  BY InvTyped, ReplicasTyped
<1>2. PICK C \in SUBSET Unassigned(r), a \in 0..(N - 2) :
        /\ Fits(C)
        /\ forwards' = forwards \cup {[to |-> Target(i, a), commands |-> C]}
        /\ Move(i, [r EXCEPT
              !.pool = [c \in DOMAIN @ |->
                IF c \in C THEN [@[c] EXCEPT !.attempts = (a + 1) % (N - 1)] ELSE @[c]]])
  BY DEF Reforward, Fits
<1> DEFINE Entry(c) == IF c \in C THEN [r.pool[c] EXCEPT !.attempts = (a + 1) % (N - 1)] ELSE r.pool[c]
           p == [c \in DOMAIN r.pool |-> Entry(c)]
           q == [r EXCEPT !.pool = p]
<1>3. Move(i, q)
  BY <1>1, <1>2 DEF ReplicaState
<1>4. r.nextSeq \in Nat /\ r.pool \in Pools /\ DOMAIN r.pool \in SUBSET Command
  BY <1>1, StateTyped
<1>5. \A c \in DOMAIN r.pool : Entry(c) \in PoolEntry /\ Entry(c).proposedIn = r.pool[c].proposedIn
  <2>1. (a + 1) % (N - 1) \in 0..(N - 2) /\ a \in Nat
    BY NAssumption
  <2>2. \A e \in PoolEntry, x \in 0..(N - 2) :
          [e EXCEPT !.attempts = x] \in PoolEntry /\ [e EXCEPT !.attempts = x].proposedIn = e.proposedIn
    BY DEF PoolEntry
  <2>3. \A c \in DOMAIN r.pool : r.pool[c] \in PoolEntry
    BY <1>4, PoolTyped
  <2>. HIDE DEF r
  <2>. QED  BY <2>1, <2>2, <2>3
<1>6. p \in Pools
  <2>1. p \in [DOMAIN r.pool -> PoolEntry]
    <3>. HIDE DEF Entry
    <3>. QED  BY <1>5
  <2>. HIDE DEF p, r
  <2>. QED  BY <1>4, <2>1, IsPool
<1>7. DOMAIN p = DOMAIN r.pool /\ \A c \in DOMAIN p : p[c].proposedIn = r.pool[c].proposedIn
  <2>. HIDE DEF Entry
  <2>. QED  BY <1>5
<1>. HIDE DEF p
<1>8. /\ q.contig = r.contig /\ q.slots = r.slots /\ q.dedup = r.dedup /\ q.log = r.log
      /\ q.nextSeq = r.nextSeq /\ q.pool = p /\ q \in ReplicaState
  BY <1>1, <1>6 DEF ReplicaState
<1>. HIDE DEF q, r
<1>9. Consistent(q, decisions) /\ Running(q) = Running(r)
  <2>1. \A c \in DOMAIN q.pool :
          /\ ~IsDelivered(r.dedup, c)
          /\ q.pool[c].proposedIn # 0 =>
               c \in DOMAIN r.pool /\ q.pool[c].proposedIn = r.pool[c].proposedIn
    BY <1>1, <1>7, <1>8 DEF Consistent
  <2>2. Cost(DOMAIN q.pool) <= MaxPool
    BY <1>1, <1>7, <1>8 DEF Consistent
  <2>. QED  BY <1>1, <1>8, <2>1, <2>2, PoolChange
<1>10. Activates(q, q)
  BY <1>8, ActivatesNothing
<1>11. DOMAIN r.pool \subseteq Submitted
  BY <1>1, KnownIsSubmitted DEF r
<1>12. /\ r.nextSeq \in Nat /\ q.nextSeq >= r.nextSeq /\ q.nextSeq >= rep[i].nextSeq
       /\ q.contig >= rep[i].contig /\ q.nextSeq = rep[i].nextSeq
  BY <1>1, <1>4, <1>8, StateTyped DEF r
<1>13. Submitted \subseteq Submitted'
  BY <1>1, <1>3, <1>8, <1>12, SubmittedGrows
<1>14. \A c \in Command : c.origin = i /\ c.seq <= q.nextSeq =>
                            c \in DOMAIN q.pool \/ IsDelivered(q.dedup, c)
  <2>1. \A c \in Command : c.origin = i /\ c.seq <= q.nextSeq => c \in Submitted
    BY <1>8 DEF Submitted, r
  <2>. QED  BY <1>7, <1>8, <2>1 DEF Inv, KeptByOrigin, r
<1>15. \A m \in forwards' : /\ m \in [to : Replica, commands : SUBSET Command]
                            /\ m.commands \subseteq Submitted' /\ Fits(m.commands)
  <2>1. \A m \in forwards : /\ m \in [to : Replica, commands : SUBSET Command]
                            /\ m.commands \subseteq Submitted' /\ Fits(m.commands)
    BY <1>13 DEF Inv, TypeOK, AllSubmitted, BatchesFit, Fits
  <2> DEFINE m == [to |-> Target(i, a), commands |-> C]
  <2>2. C \subseteq DOMAIN r.pool
    BY <1>2 DEF Unassigned
  <2>3. /\ m \in [to : Replica, commands : SUBSET Command]
        /\ m.commands \subseteq Submitted' /\ Fits(m.commands)
    <3>1. Target(i, a) \in Replica
      <4>1. a \in Nat
        BY NAssumption
      <4>. QED  BY <1>1, <4>1, TargetTyped
    <3>. QED  BY <1>2, <1>4, <1>11, <1>13, <2>2, <3>1
  <2>. HIDE DEF m
  <2>4. \A n \in forwards' : n \in forwards \/ n = m
    BY <1>2 DEF m
  <2>. QED  BY <2>1, <2>3, <2>4
<1>16. UNCHANGED decisions
  BY DEF Reforward
<1>17. \A s \in Slot : decisions[s] \subseteq decisions'[s] /\ decisions'[s] \subseteq proposals[s]
  BY <1>16 DEF Inv, DecisionsReal
<1>18. DOMAIN q.pool \subseteq Submitted'
  BY <1>7, <1>8, <1>11, <1>13
<1>19. Running(q) \subseteq Running(rep[i])
  BY <1>9 DEF r
<1>. QED  BY <1>1, <1>3, <1>9, <1>10, <1>12, <1>14, <1>15, <1>16, <1>17, <1>18, <1>19, StepKeeps

LEMMA DecideKeeps ==
  ASSUME Inv, NEW i \in Up, Decide(i)
  PROVE  Inv' /\ Advances(i) /\ rep'[i].nextSeq = rep[i].nextSeq
<1>1. /\ i \in Replica /\ rep[i] \in ReplicaState /\ Consistent(rep[i], decisions)
      /\ decisions \in Decisions /\ SingleValued(decisions)
      /\ proposals \in [Slot -> SUBSET SUBSET Command]
  BY InvTyped, ReplicasTyped
<1>2. PICK s \in Slot : \E v \in Decidable(i, s) :
        LET r == [rep[i] EXCEPT !.slots[s] = "decided", !.pool = Released(@, s, v)]
        IN  /\ rep[i].slots[s] # "decided"
            /\ decisions' = [decisions EXCEPT ![s] = {v}]
            /\ Move(i, Opened(i, DeliverAll(r, decisions')))
  BY DEF Decide
<1>3. PICK v \in Decidable(i, s) :
        LET r == [rep[i] EXCEPT !.slots[s] = "decided", !.pool = Released(@, s, v)]
        IN  /\ rep[i].slots[s] # "decided"
            /\ decisions' = [decisions EXCEPT ![s] = {v}]
            /\ Move(i, Opened(i, DeliverAll(r, decisions')))
  BY <1>2
<1> DEFINE r == [rep[i] EXCEPT !.slots[s] = "decided", !.pool = Released(@, s, v)]
           mid == DeliverAll(r, decisions')
           q == Opened(i, mid)
<1>4. /\ rep[i].slots[s] # "decided" /\ decisions' = [decisions EXCEPT ![s] = {v}] /\ Move(i, q)
  BY <1>3
<1>5. v \in decisions[s] \/ (decisions[s] = {} /\ v \in proposals[s])
  BY DEF Decidable
<1>6. v \in proposals[s] /\ (decisions[s] = {} \/ decisions[s] = {v})
  BY <1>1, <1>5 DEF Inv, DecisionsReal
<1>7. \A t \in Slot : decisions'[t] = IF t = s THEN {v} ELSE decisions[t]
  BY <1>1, <1>4 DEF Decisions
<1>8. decisions' \in Decisions /\ SingleValued(decisions')
  <2>1. {v} \in SUBSET SUBSET Command
    BY <1>1, <1>6
  <2>2. decisions' \in Decisions
    BY <1>1, <1>4, <2>1 DEF Decisions
  <2>3. SingleValued(decisions')
    BY <1>1, <1>7 DEF SingleValued
  <2>. QED  BY <2>2, <2>3
<1>9. \A t \in Slot : decisions[t] \subseteq decisions'[t] /\ decisions'[t] \subseteq proposals[t]
  BY <1>6, <1>7 DEF Inv, DecisionsReal
<1>10. Consistent(rep[i], decisions')
  BY <1>1, <1>8, <1>9, DecisionsGrow
<1>11. v \in decisions'[s]
  BY <1>7
<1>12. r = DecidedIn(rep[i], s, v)
  BY DEF DecidedIn
<1>13. /\ Consistent(r, decisions') /\ Running(r) \subseteq Running(rep[i])
       /\ r.nextSeq = rep[i].nextSeq /\ DOMAIN r.pool = DOMAIN rep[i].pool
       /\ r.dedup = rep[i].dedup /\ r.contig = rep[i].contig
  <2> DEFINE D == decisions'
             was == rep[i]
  <2>1. /\ D \in Decisions /\ Consistent(was, D) /\ v \in D[s] /\ was.slots[s] # "decided"
        /\ r = DecidedIn(was, s, v)
    BY <1>4, <1>8, <1>10, <1>11, <1>12
  <2>. HIDE DEF r, D, was
  <2>2. /\ Consistent(r, D) /\ Running(r) \subseteq Running(was) /\ r.nextSeq = was.nextSeq
        /\ DOMAIN r.pool = DOMAIN was.pool /\ r.dedup = was.dedup /\ r.contig = was.contig
    BY <2>1, DecidedKeeps
  <2>. QED  BY <2>2 DEF D, was
<1>. HIDE DEF r
<1>14. Follows(r, mid, decisions')
  BY <1>8, <1>13, DeliverAllKeeps
<1>. HIDE DEF mid
<1>15. /\ Consistent(mid, decisions') /\ Running(mid) \subseteq Running(rep[i])
       /\ mid.nextSeq = rep[i].nextSeq /\ DOMAIN mid.pool \subseteq DOMAIN rep[i].pool
       /\ mid.contig >= rep[i].contig
       /\ \A c \in Command : (c \in DOMAIN rep[i].pool \/ IsDelivered(rep[i].dedup, c)) =>
                               (c \in DOMAIN mid.pool \/ IsDelivered(mid.dedup, c))
  BY <1>13, <1>14 DEF Follows
<1>16. Activates(mid, q)
  BY <1>15, ActivatesOpened
<1>. HIDE DEF q
<1>17. mid.nextSeq \in Nat /\ mid.nextSeq >= rep[i].nextSeq /\ q.nextSeq = mid.nextSeq
  BY <1>1, <1>15, <1>16, StateTyped DEF Activates
<1>18. Submitted \subseteq Submitted'
  BY <1>1, <1>4, <1>17, SubmittedGrows
<1>19. DOMAIN mid.pool \subseteq Submitted'
  BY <1>1, <1>15, <1>18, KnownIsSubmitted
<1>20. \A c \in Command : c.origin = i /\ c.seq <= mid.nextSeq =>
                            c \in DOMAIN mid.pool \/ IsDelivered(mid.dedup, c)
  <2>1. \A c \in Command : c.origin = i /\ c.seq <= mid.nextSeq => c \in Submitted
    BY <1>15 DEF Submitted
  <2>. QED  BY <1>15, <2>1 DEF Inv, KeptByOrigin
<1>21. \A m \in forwards' : /\ m \in [to : Replica, commands : SUBSET Command]
                            /\ m.commands \subseteq Submitted' /\ Fits(m.commands)
  <2>1. forwards' = forwards
    BY DEF Decide
  <2>. QED  BY <1>18, <2>1 DEF Inv, TypeOK, AllSubmitted, BatchesFit, Fits
<1>. QED  BY <1>1, <1>4, <1>8, <1>9, <1>15, <1>16, <1>17, <1>19, <1>20, <1>21, StepKeeps

-----------------------------------------------------------------------------
(* The invariant. *)

LEMMA InitInv == Init => Inv
<1>. SUFFICES ASSUME Init PROVE Inv
  OBVIOUS
<1>1. /\ \A i \in Replica : rep[i] = NewReplica
      /\ rep = [i \in Replica |-> NewReplica]
      /\ forwards = {} /\ proposals = [s \in Slot |-> {}] /\ decisions = [s \in Slot |-> {}]
  BY DEF Init
<1> DEFINE r == NewReplica
           dedup == [o \in Replica |-> [highWater |-> 0, above |-> {}]]
<1>2. /\ r.contig = 0 /\ r.slots = [s \in Slot |-> "none"] /\ r.maxOpen = 0 /\ r.pool = <<>>
      /\ r.dedup = dedup /\ r.nextSeq = 0 /\ r.log = <<>>
  BY DEF NewReplica
<1>3. DOMAIN r.pool = {} /\ r.pool \in Pools
  <2>1. DOMAIN <<>> = {} /\ <<>> \in [{} -> PoolEntry]
    OBVIOUS
  <2>2. {} \in SUBSET Command
    OBVIOUS
  <2>. HIDE DEF r
  <2>. QED  BY <1>2, <2>1, <2>2, IsPool
<1>4. r \in ReplicaState
  <2>1. 0 \in 0..MaxSlot
    BY ReplicasTyped
  <2>2. dedup \in [Replica -> OriginDedup]
    BY DEF OriginDedup
  <2>3. r.log \in Seq(SUBSET Command)
    BY <1>2
  <2>4. r.slots \in [Slot -> {"none", "idle", "running", "decided"}]
    BY <1>2
  <2>. HIDE DEF dedup
  <2>. QED  BY <1>2, <1>3, <2>1, <2>2, <2>3, <2>4 DEF ReplicaState, NewReplica
<1>. HIDE DEF r, dedup
<1>5. decisions \in Decisions /\ \A s \in Slot : decisions[s] = {}
  BY <1>1 DEF Decisions
<1>6. DecidedTo(decisions, 0) = {} /\ \A o : SeqsTo(decisions, o, 0) = {}
  <2>1. 1..0 = {}
    OBVIOUS
  <2>2. DecidedTo(decisions, 0) = {}
    BY <2>1 DEF DecidedTo
  <2>. QED  BY <2>2 DEF SeqsTo
<1>7. Cost(DOMAIN r.pool) <= MaxPool
  BY <1>3, SumOfNone, LimitsAssumption DEF Cost
<1>8. \A o \in Replica :
        /\ (1..r.dedup[o].highWater) \cup r.dedup[o].above = {}
        /\ \A n \in r.dedup[o].above : n > r.dedup[o].highWater + 1
  <2>. SUFFICES ASSUME NEW o \in Replica
       PROVE  /\ (1..r.dedup[o].highWater) \cup r.dedup[o].above = {}
              /\ \A n \in r.dedup[o].above : n > r.dedup[o].highWater + 1
    OBVIOUS
  <2>1. r.dedup[o].highWater = 0 /\ r.dedup[o].above = {}
    BY <1>2 DEF dedup
  <2>. QED  BY <2>1
<1>9. r.log = [k \in 1..r.contig |-> (UNION decisions[k]) \ DecidedTo(decisions, k - 1)]
  <2>1. 1..0 = {}
    OBVIOUS
  <2>. QED  BY <1>2, <2>1
<1>10. \A s \in Slot : r.slots[s] = "none" /\ ~(s <= r.contig)
  BY <1>2, ReplicasTyped
<1>11. Consistent(r, decisions)
  BY <1>2, <1>3, <1>4, <1>6, <1>7, <1>8, <1>9, <1>10 DEF Consistent
<1>12. Submitted = {}
  <2>1. \A c \in Command : c.origin \in Replica /\ c.seq \in Nat /\ c.seq >= 1
    BY CommandsTyped
  <2>2. \A c \in Command : ~(c.seq <= rep[c.origin].nextSeq)
    BY <1>1, <1>2, <2>1 DEF r
  <2>. QED  BY <2>2 DEF Submitted
<1>13. TypeOK
  <2>1. rep \in [Replica -> ReplicaState]
    BY <1>1, <1>4 DEF r
  <2>2. \A i \in Replica : Cost(DOMAIN rep[i].pool) <= MaxPool
    BY <1>1, <1>7 DEF r
  <2>. QED  BY <1>1, <1>5, <2>1, <2>2 DEF TypeOK, Decisions
<1>14. DecisionsReal
  BY <1>5 DEF DecisionsReal
<1>15. \A s \in Slot : proposals[s] = {}
  BY <1>1
<1>16. AllSubmitted /\ ProposedWithinWindow /\ BatchesFit
  <2>1. \A i \in Replica : DOMAIN rep[i].pool = {}
    BY <1>1, <1>3 DEF r
  <2>2. AllSubmitted
    BY <1>1, <1>15, <2>1 DEF AllSubmitted
  <2>3. ProposedWithinWindow
    BY <1>15 DEF ProposedWithinWindow
  <2>4. BatchesFit
    BY <1>1, <1>15 DEF BatchesFit
  <2>. QED  BY <2>2, <2>3, <2>4
<1>17. KeptByOrigin
  BY <1>12 DEF KeptByOrigin
<1>18. \A i \in Replica : Consistent(rep[i], decisions)
  BY <1>1, <1>11 DEF r
<1>. QED  BY <1>13, <1>14, <1>16, <1>17, <1>18 DEF Inv

LEMMA StepKeepsInv ==
  ASSUME Inv, [Next]_vars
  PROVE  Inv'
<1>1. CASE UNCHANGED vars
  <2>1. rep' = rep /\ forwards' = forwards /\ proposals' = proposals /\ decisions' = decisions
    BY <1>1 DEF vars
  <2>2. Submitted' = Submitted
    BY <2>1 DEF Submitted
  <2>3. TypeOK' /\ DecisionsReal' /\ AllSubmitted'
    BY <2>1, <2>2 DEF Inv, TypeOK, DecisionsReal, AllSubmitted
  <2>4. ProposedWithinWindow' /\ KeptByOrigin'
    BY <2>1, <2>2 DEF Inv, ProposedWithinWindow, KeptByOrigin
  <2>5. BatchesFit'
    BY <2>1 DEF Inv, BatchesFit
  <2>6. \A i \in Replica : Consistent(rep'[i], decisions')
    BY <2>1 DEF Inv
  <2>. QED  BY <2>3, <2>4, <2>5, <2>6 DEF Inv
<1>2. ASSUME NEW i \in Up,
             \/ Submit(i) \/ OnForward(i) \/ Reforward(i)
             \/ OnRecord(i) \/ ObserveFrontier(i) \/ Hedge(i) \/ Decide(i)
      PROVE  Inv'
  BY <1>2, SubmitKeeps, OnForwardKeeps, ReforwardKeeps, OnRecordKeeps, ObserveFrontierKeeps,
     HedgeKeeps, DecideKeeps
<1>. QED  BY <1>1, <1>2 DEF Next

\* The inductive invariant of the pool: what each replica keeps follows from
\* the slots it has delivered, whatever goes around was submitted and fits, and
\* a command stays with its origin until it is delivered there.
THEOREM InvHolds == Spec => []Inv
<1>1. Inv /\ [Next]_vars => Inv'
  BY StepKeepsInv
<1>. QED  BY <1>1, InitInv, PTL DEF Spec

\* The types of the variables, and the pool's limit (submit, on_forward).
THEOREM TypeOKHolds == Spec => []TypeOK
<1>1. Inv => TypeOK
  BY DEF Inv
<1>. QED  BY <1>1, InvHolds, PTL

\* No command is stranded: until its origin delivers it, it can be proposed, or
\* rides in a run, or has won a slot (decide_slot, try_deliver).
THEOREM NothingStrandedHolds == Spec => []NothingStranded
<1>1. Inv => NothingStranded
  <2>. SUFFICES ASSUME Inv, NEW c \in Submitted, ~IsDelivered(rep[c.origin].dedup, c)
       PROVE  LET r == rep[c.origin]
                  s == r.pool[c].proposedIn
              IN  /\ c \in DOMAIN r.pool
                  /\ \/ s = 0
                     \/ s \in Running(r)
                     \/ s > r.contig /\ r.slots[s] = "decided" /\ c \in UNION decisions[s]
    BY DEF NothingStranded
  <2> DEFINE r == rep[c.origin]
             s == r.pool[c].proposedIn
  <2>1. c.origin \in Replica /\ r \in ReplicaState /\ Consistent(r, decisions)
    BY InvTyped, CommandsTyped DEF Submitted
  <2>2. c \in DOMAIN r.pool
    BY DEF Inv, KeptByOrigin
  <2>3. CASE s # 0
    <3>1. s \in Slot
      BY <2>1, <2>2, <2>3, StateTyped
    <3>2. /\ s > r.contig
          /\ \/ r.slots[s] = "running"
             \/ r.slots[s] = "decided" /\ c \in UNION decisions[s]
      BY <2>1, <2>2, <2>3 DEF Consistent
    <3>. QED  BY <2>2, <3>1, <3>2 DEF Running
  <2>. QED  BY <2>2, <2>3
<1>. QED  BY <1>1, InvHolds, PTL

\* What is delivered is not in the pool, and does not come back to it (on_forward,
\* try_deliver).
THEOREM PoolForgetsDeliveredHolds == Spec => []PoolForgetsDelivered
<1>1. Inv => PoolForgetsDelivered
  BY DEF Inv, Consistent, PoolForgetsDelivered
<1>. QED  BY <1>1, InvHolds, PTL

\* Every batch and every Forward fits, or is a single command
\* (take_unassigned_batch, reforward_due).
THEOREM BatchesFitHolds == Spec => []BatchesFit
<1>1. Inv => BatchesFit
  BY DEF Inv
<1>. QED  BY <1>1, InvHolds, PTL

\* The sequence numbers that Dedup holds above a mark are within the window
\* (take_unassigned_batch, mark_delivered).
THEOREM DedupWithinWindowHolds == Spec => []DedupWithinWindow
<1>1. Inv => DedupWithinWindow
  <2>. SUFFICES ASSUME Inv, NEW i \in Replica, NEW o \in Replica, NEW n \in rep[i].dedup[o].above
       PROVE  n \in (rep[i].dedup[o].highWater + 2)..(rep[i].dedup[o].highWater + Window)
    BY DEF DedupWithinWindow
  <2> DEFINE r == rep[i]
             mark == r.dedup[o].highWater
             seen == (1..mark) \cup r.dedup[o].above
  <2>1. /\ r \in ReplicaState /\ Consistent(r, decisions) /\ decisions \in Decisions
        /\ r.contig \in 0..MaxSlot /\ r.contig \in Nat
        /\ mark \in Nat /\ n \in Nat /\ Window \in Nat /\ r.dedup[o].above \subseteq Nat
    BY InvTyped, StateTyped, LimitsAssumption
  <2>2. n > mark + 1 /\ mark + 1 \notin seen
    <3>1. \A m \in r.dedup[o].above : m > mark + 1
      BY <2>1 DEF Consistent
    <3>. HIDE DEF mark
    <3>2. mark + 1 \notin r.dedup[o].above
      BY <2>1, <3>1
    <3>. QED  BY <2>1, <3>1, <3>2
  <2>3. seen = SeqsTo(decisions, o, r.contig)
    BY <2>1 DEF Consistent
  <2>4. PICK b \in DecidedTo(decisions, r.contig) : b.origin = o /\ b.seq = n
    <3>1. n \in SeqsTo(decisions, o, r.contig)
      BY <2>3
    <3>. QED  BY <3>1 DEF SeqsTo
  <2>5. PICK t \in Slot : t <= r.contig /\ b \in UNION decisions[t]
    BY <2>1, <2>4, DecidedTyped
  <2>6. 1..(n - Window) \subseteq SeqsTo(decisions, o, t - 1)
    <3>1. b \in UNION proposals[t]
      BY <2>5 DEF Inv, DecisionsReal
    <3>. QED  BY <2>4, <3>1 DEF Inv, ProposedWithinWindow
  <2>7. SeqsTo(decisions, o, t - 1) \subseteq SeqsTo(decisions, o, r.contig)
    <3>1. t - 1 \in 0..MaxSlot /\ t - 1 <= r.contig
      BY <2>1, <2>5, ReplicasTyped
    <3>. QED  BY <2>1, <3>1, SeqsGrow
  <2>8. mark + 1 \notin 1..(n - Window)
    BY <2>2, <2>3, <2>6, <2>7
  <2>. HIDE DEF mark
  <2>9. n <= mark + Window
    BY <2>1, <2>8
  <2>. QED  BY <2>1, <2>2, <2>9 DEF mark
<1>. QED  BY <1>1, InvHolds, PTL

-----------------------------------------------------------------------------
(* The pool and its log implement ExactlyOnce. *)

LogTo(D, m) == [k \in 1..m |-> (UNION D[k]) \ DecidedTo(D, k - 1)]

LEMMA LogToIsLog ==
  ASSUME NEW D \in Decisions, NEW m \in 0..MaxSlot
  PROVE  /\ LogTo(D, m) \in Seq(SUBSET Command) /\ Len(LogTo(D, m)) = m
         /\ \A k \in 1..m : LogTo(D, m)[k] = (UNION D[k]) \ DecidedTo(D, k - 1)
<1> DEFINE at(k) == (UNION D[k]) \ DecidedTo(D, k - 1)
<1>1. m \in Nat /\ 1..m \subseteq Slot
  BY ReplicasTyped
<1>2. \A k \in 1..m : at(k) \in SUBSET Command
  BY <1>1 DEF Decisions
<1>3. LogTo(D, m) = [k \in 1..m |-> at(k)]
  BY DEF LogTo
<1>. HIDE DEF at
<1>4. LogTo(D, m) \in [1..m -> SUBSET Command]
  BY <1>2, <1>3
<1>5. LogTo(D, m) \in Seq(SUBSET Command)
  BY <1>1, <1>4, SeqDef
<1>6. Len(LogTo(D, m)) = m
  <2>1. DOMAIN LogTo(D, m) = 1..m
    BY <1>3
  <2>. QED  BY <1>1, <1>5, <2>1, LenProperties
<1>. QED  BY <1>3, <1>5, <1>6 DEF at

LEMMA PrefixOfLog ==
  ASSUME NEW D \in Decisions, NEW m \in 0..MaxSlot, NEW n \in 0..MaxSlot, m <= n
  PROVE  E!IsPrefix(LogTo(D, m), LogTo(D, n))
<1>1. \A k \in 1..m : k \in 1..n
  BY ReplicasTyped
<1>2. \A k \in 1..m : LogTo(D, m)[k] = LogTo(D, n)[k]
  BY <1>1, LogToIsLog
<1>. QED  BY <1>2, LogToIsLog DEF E!IsPrefix

\* No command is delivered in two slots.
LEMMA LogIsDisjoint ==
  ASSUME NEW D \in Decisions, NEW m \in 0..MaxSlot, NEW k \in 1..m, NEW l \in 1..m, k # l
  PROVE  LogTo(D, m)[k] \cap LogTo(D, m)[l] = {}
<1>1. ASSUME NEW a \in 1..m, NEW b \in 1..m, a < b, NEW c \in LogTo(D, m)[a] PROVE c \notin LogTo(D, m)[b]
  <2>1. a \in Slot /\ b - 1 \in 0..MaxSlot /\ a <= b - 1
    BY <1>1, ReplicasTyped
  <2>2. c \in UNION D[a]
    BY <1>1, LogToIsLog
  <2>3. c \in DecidedTo(D, b - 1)
    BY <2>1, <2>2, DecidedTyped
  <2>. QED  BY <2>3, LogToIsLog
<1>2. k < l \/ l < k
  OBVIOUS
<1>. QED  BY <1>1, <1>2

LongestIsReached ==
  \E x \in Replica : /\ LongestLog = rep[x].log
                     /\ \A y \in Replica : rep[y].contig <= rep[x].contig

LEMMA LongestExists == Inv => LongestIsReached
<1>. SUFFICES ASSUME Inv PROVE LongestIsReached
  OBVIOUS
<1> DEFINE B == {rep[y].contig : y \in Replica}
<1>1. B \subseteq 0..MaxSlot /\ B # {} /\ MaxSlot \in Nat
  <2>1. \A y \in Replica : rep[y].contig \in 0..MaxSlot
    BY InvTyped, StateTyped
  <2>. QED  BY <2>1, ReplicasTyped
<1>2. PICK c \in B : \A m \in B : m <= c
  <2>. HIDE DEF B
  <2>. QED  BY <1>1, GreatestNumber
<1>3. \E x \in Replica : \A y \in Replica : rep[y].contig <= rep[x].contig
  BY <1>2
<1>. QED  BY <1>3 DEF LongestLog, LongestIsReached

LEMMA LongestExistsNext == Inv' => LongestIsReached'
BY LongestExists, PTL

LEMMA InvTypedNext ==
  Inv' => /\ decisions' \in Decisions
          /\ \A j \in Replica : /\ rep'[j] \in ReplicaState /\ rep'[j].contig \in 0..MaxSlot
                                /\ rep'[j].log = LogTo(decisions', rep'[j].contig)
<1>1. Inv' => /\ decisions' \in Decisions
              /\ \A j \in Replica : rep'[j] \in ReplicaState /\ Consistent(rep'[j], decisions')
  BY DEF Inv, TypeOK, Decisions
<1>. QED  BY <1>1, StateTyped DEF Consistent, LogTo

\* The logs after a step of replica i.
LEMMA LogsAfter ==
  ASSUME Inv, Inv', NEW i \in Replica, Advances(i)
  PROVE  \E x, z \in Replica :
           /\ LongestLog = LogTo(decisions', rep[x].contig)
           /\ LongestLog' = LogTo(decisions', rep'[z].contig)
           /\ \A j \in Replica : /\ rep[j].contig \in 0..MaxSlot /\ rep'[j].contig \in 0..MaxSlot
                                 /\ rep[j].log = LogTo(decisions', rep[j].contig)
                                 /\ rep'[j].log = LogTo(decisions', rep'[j].contig)
                                 /\ rep[j].contig <= rep'[j].contig
                                 /\ rep[j].contig <= rep[x].contig
                                 /\ rep'[j].contig <= rep'[z].contig
                                 /\ j # i => rep'[j] = rep[j]
<1>1. PICK x \in Replica : /\ LongestLog = rep[x].log
                           /\ \A y \in Replica : rep[y].contig <= rep[x].contig
  BY LongestExists DEF LongestIsReached
<1>2. PICK z \in Replica : /\ LongestLog' = rep'[z].log
                           /\ \A y \in Replica : rep'[y].contig <= rep'[z].contig
  BY LongestExistsNext DEF LongestIsReached
<1>3. /\ decisions \in Decisions /\ decisions' \in Decisions /\ rep \in [Replica -> ReplicaState]
      /\ \A j \in Replica : rep[j] \in ReplicaState /\ Consistent(rep[j], decisions)
  BY InvTyped, InvTypedNext
<1>4. SingleValued(decisions')
  BY DEF Inv, DecisionsReal, SingleValued
<1>5. ASSUME NEW j \in Replica
      PROVE  /\ rep[j].contig \in 0..MaxSlot /\ rep'[j].contig \in 0..MaxSlot
             /\ rep[j].log = LogTo(decisions', rep[j].contig)
             /\ rep'[j].log = LogTo(decisions', rep'[j].contig)
             /\ rep[j].contig <= rep'[j].contig
             /\ j # i => rep'[j] = rep[j]
  <2>1. Consistent(rep[j], decisions')
    BY <1>3, <1>4, DecisionsGrow DEF Advances
  <2>2. rep[j].log = LogTo(decisions', rep[j].contig) /\ rep[j].contig \in 0..MaxSlot /\ rep[j].contig \in Nat
    BY <1>3, <2>1, StateTyped DEF Consistent, LogTo
  <2>3. j # i => rep'[j] = rep[j]
    BY <1>3 DEF Advances
  <2>4. rep[j].contig <= rep'[j].contig
    <3>1. CASE j = i
      BY <2>2, <3>1, InvTypedNext, StateTyped DEF Advances
    <3>2. CASE j # i
      BY <2>2, <2>3, <3>2
    <3>. QED  BY <3>1, <3>2
  <2>. QED  BY <2>2, <2>3, <2>4, InvTypedNext
<1>. QED  BY <1>1, <1>2, <1>5

\* A step in which nothing is submitted delivers, if anything.
LEMMA StepDelivers ==
  ASSUME Inv, Inv', NEW i \in Replica, Advances(i), rep'[i].nextSeq = rep[i].nextSeq
  PROVE  E!Deliver(i)
<1> DEFINE L == [j \in Replica |-> rep[j].log]
<1>1. /\ decisions' \in Decisions /\ rep \in [Replica -> ReplicaState]
  BY InvTyped, InvTypedNext
<1>2. PICK x \in Replica, z \in Replica :
           /\ LongestLog = LogTo(decisions', rep[x].contig)
           /\ LongestLog' = LogTo(decisions', rep'[z].contig)
           /\ \A j \in Replica : /\ rep[j].contig \in 0..MaxSlot /\ rep'[j].contig \in 0..MaxSlot
                                 /\ rep[j].log = LogTo(decisions', rep[j].contig)
                                 /\ rep'[j].log = LogTo(decisions', rep'[j].contig)
                                 /\ rep[j].contig <= rep'[j].contig
                                 /\ rep[j].contig <= rep[x].contig
                                 /\ rep'[j].contig <= rep'[z].contig
                                 /\ j # i => rep'[j] = rep[j]
  BY LogsAfter
<1>3. \A j \in Replica : rep'[j].nextSeq = rep[j].nextSeq
  BY <1>2
<1>4. Submitted' = Submitted
  <2>1. \A c \in Command : c.origin \in Replica
    BY CommandsTyped
  <2>. QED  BY <1>3, <2>1 DEF Submitted
<1> DEFINE m == rep'[z].contig
<1>5. m \in 0..MaxSlot /\ m \in Nat /\ rep[x].contig <= m
  BY <1>2, ReplicasTyped
<1>. HIDE DEF m
<1>6. LongestLog' = LogTo(decisions', m)
  BY <1>2 DEF m
<1>7. E!IsPrefix(LongestLog, LongestLog')
  BY <1>1, <1>2, <1>5, <1>6, PrefixOfLog
<1>8. \A k \in 1..Len(LongestLog') : LongestLog'[k] \subseteq Submitted
  <2>. SUFFICES ASSUME NEW k \in 1..m, NEW c \in LogTo(decisions', m)[k] PROVE c \in Submitted
    BY <1>1, <1>5, <1>6, LogToIsLog
  <2>1. k \in Slot /\ c \in UNION decisions'[k]
    BY <1>1, <1>5, LogToIsLog, ReplicasTyped
  <2>2. c \in UNION proposals'[k]
    BY <2>1 DEF Inv, DecisionsReal
  <2>3. c \in Submitted'
    BY <2>1, <2>2 DEF Inv, AllSubmitted
  <2>. QED  BY <1>4, <2>3
<1>9. \A k, l \in 1..Len(LongestLog') : k # l => LongestLog'[k] \cap LongestLog'[l] = {}
  BY <1>1, <1>5, <1>6, LogToIsLog, LogIsDisjoint
<1>10. E!Extends(LongestLog')
  BY <1>7, <1>8, <1>9 DEF E!Extends, E!IsPrefix
<1>11. E!IsPrefix(rep[i].log, rep'[i].log) /\ E!IsPrefix(rep'[i].log, LongestLog')
  BY <1>1, <1>2, <1>5, <1>6, PrefixOfLog DEF m
<1>12. L' = [L EXCEPT ![i] = L'[i]]
  BY <1>2
<1>13. L[i] = rep[i].log /\ L'[i] = rep'[i].log
  OBVIOUS
<1>. QED  BY <1>4, <1>10, <1>11, <1>12, <1>13 DEF E!Deliver

LEMMA StepSubmits ==
  ASSUME Inv, NEW i \in Up, Submit(i)
  PROVE  \E c \in Command : E!Submit(c)
<1> DEFINE c == [origin |-> i, seq |-> rep[i].nextSeq + 1]
           L == [j \in Replica |-> rep[j].log]
<1>1. /\ Inv' /\ Advances(i) /\ UNCHANGED decisions
      /\ rep'[i].nextSeq = rep[i].nextSeq + 1 /\ rep'[i].contig = rep[i].contig
  BY SubmitKeeps
<1>2. i \in Replica /\ rep[i] \in ReplicaState /\ rep[i].nextSeq \in Nat
  BY InvTyped, StateTyped, ReplicasTyped
<1>3. c \in Command /\ c.origin = i /\ c.seq = rep[i].nextSeq + 1
  <2>1. rep[i].nextSeq + 1 \in 1..Submissions[i]
    BY <1>2, SubmissionsAssumption DEF Submit
  <2>. QED  BY <1>2, <2>1, CommandsTyped
<1>4. PICK x \in Replica, z \in Replica :
           /\ LongestLog = LogTo(decisions', rep[x].contig)
           /\ LongestLog' = LogTo(decisions', rep'[z].contig)
           /\ \A j \in Replica : /\ rep[j].contig \in 0..MaxSlot /\ rep'[j].contig \in 0..MaxSlot
                                 /\ rep[j].log = LogTo(decisions', rep[j].contig)
                                 /\ rep'[j].log = LogTo(decisions', rep'[j].contig)
                                 /\ rep[j].contig <= rep'[j].contig
                                 /\ rep[j].contig <= rep[x].contig
                                 /\ rep'[j].contig <= rep'[z].contig
                                 /\ j # i => rep'[j] = rep[j]
  BY <1>1, <1>2, LogsAfter
<1>5. \A j \in Replica : rep'[j].contig = rep[j].contig /\ rep'[j].log = rep[j].log
  BY <1>1, <1>4
<1>6. L' = L
  BY <1>5
<1>7. rep[x].contig = rep'[z].contig
  <2>1. rep[x].contig \in Nat /\ rep[z].contig \in Nat
    BY <1>4, ReplicasTyped
  <2>. QED  BY <1>4, <1>5, <2>1
<1>8. LongestLog' = LongestLog
  BY <1>4, <1>7
<1>. HIDE DEF c
<1>9. c \notin Submitted
  BY <1>2, <1>3 DEF Submitted
<1>10. Submitted' = Submitted \cup {c}
  <2>. SUFFICES ASSUME NEW d \in Command PROVE d \in Submitted' <=> d \in Submitted \/ d = c
    BY <1>3 DEF Submitted
  <2>1. d.origin \in Replica /\ d.seq \in Nat
    BY CommandsTyped
  <2>2. CASE d.origin # i
    BY <1>3, <1>4, <2>1, <2>2 DEF Submitted
  <2>3. CASE d.origin = i
    <3>1. d = c <=> d.seq = rep[i].nextSeq + 1
      <4>1. d = [origin |-> d.origin, seq |-> d.seq] /\ c = [origin |-> c.origin, seq |-> c.seq]
        BY <1>3, CommandsTyped
      <4>. QED  BY <1>3, <2>3, <4>1
    <3>2. d \in Submitted' <=> d.seq <= rep[i].nextSeq + 1
      BY <1>1, <2>3 DEF Submitted
    <3>3. d \in Submitted <=> d.seq <= rep[i].nextSeq
      BY <2>3 DEF Submitted
    <3>. QED  BY <1>2, <2>1, <3>1, <3>2, <3>3
  <2>. QED  BY <2>2, <2>3
<1>11. E!Submit(c)
  BY <1>6, <1>8, <1>9, <1>10 DEF E!Submit
<1>. QED  BY <1>3, <1>11

LEMMA StepImplementsExactlyOnce ==
  ASSUME Inv, Inv', [Next]_vars
  PROVE  [E!Next]_<<Submitted, LongestLog, [i \in Replica |-> rep[i].log]>>
<1>1. CASE UNCHANGED vars
  BY <1>1 DEF vars, LongestLog, Submitted
<1>2. CASE Next
  <2>1. PICK i \in Up : \/ Submit(i) \/ OnForward(i) \/ Reforward(i)
                        \/ OnRecord(i) \/ ObserveFrontier(i) \/ Hedge(i) \/ Decide(i)
    BY <1>2 DEF Next
  <2>2. CASE Submit(i)
    BY <2>2, StepSubmits DEF E!Next
  <2>3. CASE ~Submit(i)
    <3>1. Advances(i) /\ rep'[i].nextSeq = rep[i].nextSeq /\ i \in Replica
      BY <2>1, <2>3, OnForwardKeeps, ReforwardKeeps, OnRecordKeeps, ObserveFrontierKeeps,
         HedgeKeeps, DecideKeeps, ReplicasTyped
    <3>2. E!Deliver(i)
      BY <3>1, StepDelivers
    <3>. QED  BY <3>1, <3>2 DEF E!Next
  <2>. QED  BY <2>2, <2>3
<1>. QED  BY <1>1, <1>2

LEMMA InitImplementsExactlyOnce == Init => E!Init
<1>. SUFFICES ASSUME Init PROVE E!Init
  OBVIOUS
<1>1. \A i \in Replica : rep[i].log = <<>> /\ rep[i].nextSeq = 0
  BY DEF Init, NewReplica
<1>2. PICK x \in Replica : LongestLog = rep[x].log
  BY InitInv, LongestExists DEF LongestIsReached
<1>3. Submitted = {}
  <2>1. \A c \in Command : c.origin \in Replica /\ c.seq \in Nat /\ c.seq >= 1
    BY CommandsTyped
  <2>. QED  BY <1>1, <2>1 DEF Submitted
<1>. QED  BY <1>1, <1>2, <1>3 DEF E!Init

\* A command is delivered at most once, in the same slot by every replica, and
\* only after it was submitted, although several replicas may propose it in
\* several slots (submit, try_deliver).
THEOREM ImplementsExactlyOnceHolds == Spec => ImplementsExactlyOnce
<1>1. Inv /\ Inv' /\ [Next]_vars =>
        [E!Next]_<<Submitted, LongestLog, [i \in Replica |-> rep[i].log]>>
  BY StepImplementsExactlyOnce
<1>. QED
  BY <1>1, InitImplementsExactlyOnce, InvHolds, PTL DEF Spec, ImplementsExactlyOnce, E!Spec

=============================================================================
