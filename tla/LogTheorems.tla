---------------------------- MODULE LogTheorems ----------------------------
(***************************************************************************)
(* The safety properties of ReplicaLog, for any number of replicas, any    *)
(* values with any sizes, any pipeline, ahead window, retention budget and *)
(* chunk size, and a log of any length.  Inv is shown to hold in three     *)
(* parts: what each function of a replica leaves of Sound, what each       *)
(* handler leaves of AtRest, and what each action adds to the messages.    *)
(***************************************************************************)
EXTENDS LogInvariant, CountingTheorems, SequenceTheorems

-----------------------------------------------------------------------------
(* Types. *)

LEMMA SlotsAreNumbers ==
  /\ Slot \subseteq Nat /\ Watermark \subseteq Nat /\ IsFiniteSet(Slot)
  /\ \A s : s \in Slot <=> s \in Int /\ 1 <= s /\ s <= MaxSlot
  /\ \A s : s \in Watermark <=> s \in Int /\ 0 <= s /\ s <= MaxSlot
  /\ MaxSlot \in Nat /\ 1 \in Slot
BY SlotAssumption, FS_Interval DEF Slot, Watermark

LEMMA SlotMapTyped ==
  ASSUME NEW S, NEW f \in SlotMap(S)
  PROVE  DOMAIN f \subseteq Slot /\ f \in [DOMAIN f -> S]
BY DEF SlotMap

LEMMA IsSlotMap ==
  ASSUME NEW S, NEW D \in SUBSET Slot, NEW f \in [D -> S]
  PROVE  f \in SlotMap(S)
BY DEF SlotMap

LEMMA PutTyped ==
  ASSUME NEW S, NEW f \in SlotMap(S), NEW s \in Slot, NEW x \in S
  PROVE  /\ Put(f, s, x) \in SlotMap(S)
         /\ DOMAIN Put(f, s, x) = DOMAIN f \cup {s}
         /\ \A t \in DOMAIN Put(f, s, x) : Put(f, s, x)[t] = IF t = s THEN x ELSE f[t]
<1>1. DOMAIN f \subseteq Slot /\ f \in [DOMAIN f -> S]
  BY SlotMapTyped
<1>2. Put(f, s, x) \in [DOMAIN f \cup {s} -> S]
  BY <1>1 DEF Put
<1>. QED  BY <1>1, <1>2, IsSlotMap DEF Put

LEMMA WithoutTyped ==
  ASSUME NEW S, NEW f \in SlotMap(S), NEW T
  PROVE  /\ Without(f, T) \in SlotMap(S)
         /\ DOMAIN Without(f, T) = DOMAIN f \ T
         /\ \A t \in DOMAIN f \ T : Without(f, T)[t] = f[t]
<1>1. DOMAIN f \subseteq Slot /\ f \in [DOMAIN f -> S]
  BY SlotMapTyped
<1>2. Without(f, T) \in [DOMAIN f \ T -> S]
  BY <1>1 DEF Without
<1>. QED  BY <1>1, <1>2, IsSlotMap DEF Without

LEMMA StateTyped ==
  ASSUME NEW r \in ReplicaState
  PROVE  /\ r.contig \in Watermark /\ r.gcFloor \in Watermark
         /\ r.contig \in Nat /\ r.gcFloor \in Nat /\ r.bytes \in Nat
         /\ DOMAIN r.slots \subseteq Slot /\ r.slots \in SlotMap(SlotStates)
         /\ \A s \in DOMAIN r.slots : r.slots[s] \in SlotStates
         /\ DOMAIN r.retained \subseteq Slot /\ r.retained \in SlotMap(Value)
         /\ \A s \in DOMAIN r.retained : r.retained[s] \in Value /\ s \in Nat
         /\ r.acked \in [Replica -> Watermark] /\ \A j \in Replica : r.acked[j] \in Nat
         /\ r.maxOpen \in Watermark /\ r.recorded \subseteq Slot
         /\ r.delivered \in Seq(Value) /\ r.learning \in BOOLEAN
<1>1. /\ r.contig \in Watermark /\ r.gcFloor \in Watermark /\ r.bytes \in Nat
      /\ r.slots \in SlotMap(SlotStates) /\ r.retained \in SlotMap(Value)
      /\ r.acked \in [Replica -> Watermark]
      /\ r.maxOpen \in Watermark /\ r.recorded \subseteq Slot
      /\ r.delivered \in Seq(Value) /\ r.learning \in BOOLEAN
  BY DEF ReplicaState
<1>2. /\ DOMAIN r.slots \subseteq Slot /\ r.slots \in [DOMAIN r.slots -> SlotStates]
      /\ DOMAIN r.retained \subseteq Slot /\ r.retained \in [DOMAIN r.retained -> Value]
  BY <1>1, SlotMapTyped
<1>. QED  BY <1>1, <1>2, SlotsAreNumbers

-----------------------------------------------------------------------------
(* Sizes. *)

Sizes(r) == [s \in DOMAIN r.retained |-> Size[r.retained[s]]]

LEMMA SizesTyped ==
  ASSUME NEW r \in ReplicaState, NEW S
  PROVE  /\ IsFiniteSet(DOMAIN r.retained) /\ IsFiniteSet(S \cap DOMAIN r.retained)
         /\ IsNatOn(Sizes(r), DOMAIN r.retained) /\ IsNatOn(Sizes(r), S \cap DOMAIN r.retained)
         /\ SizeOf(r, S) = SumFunctionOnSet(Sizes(r), S \cap DOMAIN r.retained)
         /\ SizeOf(r, S) \in Nat
<1>1. IsFiniteSet(DOMAIN r.retained) /\ IsFiniteSet(S \cap DOMAIN r.retained)
  BY StateTyped, SlotsAreNumbers, FS_Subset
<1>2. /\ IsNatOn(Sizes(r), DOMAIN r.retained) /\ IsNatOn(Sizes(r), S \cap DOMAIN r.retained)
  BY StateTyped, SizeAssumption DEF IsNatOn, Sizes
<1>3. SizeOf(r, S) = SumFunctionOnSet(Sizes(r), S \cap DOMAIN r.retained)
  BY DEF SizeOf, Sizes
<1>. QED  BY <1>1, <1>2, <1>3, SumIsNat

LEMMA SizeOfNothing ==
  ASSUME NEW r, NEW S, S \cap DOMAIN r.retained = {}
  PROVE  SizeOf(r, S) = 0
BY SumOfNone DEF SizeOf

LEMMA SizeOfSlots ==
  ASSUME NEW r \in ReplicaState
  PROVE  SizeOf(r, Slot) = SumFunctionOnSet(Sizes(r), DOMAIN r.retained)
<1>1. Slot \cap DOMAIN r.retained = DOMAIN r.retained
  BY StateTyped
<1>. QED  BY <1>1, SizesTyped

\* A new value adds its size.
LEMMA SizeWithNew ==
  ASSUME NEW r \in ReplicaState, NEW q \in ReplicaState, NEW s \in Slot, NEW v \in Value,
         s \notin DOMAIN r.retained, q.retained = Put(r.retained, s, v)
  PROVE  SizeOf(q, Slot) = SizeOf(r, Slot) + Size[v]
<1> DEFINE D == DOMAIN r.retained
<1>1. DOMAIN q.retained = D \cup {s} /\ \A t \in D \cup {s} :
        q.retained[t] = IF t = s THEN v ELSE r.retained[t]
  BY DEF Put
<1>2. /\ Sizes(q)[s] = Size[v] /\ Size[v] \in Nat
      /\ \A t \in D : Sizes(q)[t] = Sizes(r)[t]
  BY <1>1, SizeAssumption DEF Sizes
<1>3. IsNatOn(Sizes(q), D \cup {s})
  BY <1>1, SizesTyped
<1>4. SumFunctionOnSet(Sizes(q), D \cup {s}) = Size[v] + SumFunctionOnSet(Sizes(q), D)
  <2>1. IsFiniteSet(D) /\ s \notin D
    BY SizesTyped
  <2> DEFINE f == Sizes(q)
  <2>. HIDE DEF D, f
  <2>2. IsNatOn(f, D \cup {s})
    BY <1>3 DEF f
  <2>3. SumFunctionOnSet(f, D \cup {s}) = f[s] + SumFunctionOnSet(f, D)
    BY <2>1, <2>2, SumWith
  <2>. QED  BY <1>2, <2>3 DEF f
<1>5. SumFunctionOnSet(Sizes(q), D) = SumFunctionOnSet(Sizes(r), D)
  BY <1>2, SizesTyped, SumsAgree
<1>6. SizeOf(r, Slot) \in Nat
  BY SizesTyped
<1>. QED  BY <1>1, <1>2, <1>4, <1>5, <1>6, SizeOfSlots

\* What is freed takes its size with it.
LEMMA SizeWithout ==
  ASSUME NEW r \in ReplicaState, NEW q \in ReplicaState, NEW S,
         q.retained = Without(r.retained, S)
  PROVE  SizeOf(q, Slot) = SizeOf(r, Slot) - SizeOf(r, S)
<1> DEFINE D == DOMAIN r.retained
<1>1. DOMAIN q.retained = D \ S /\ \A t \in D \ S : q.retained[t] = r.retained[t]
  BY DEF Without
<1>2. \A t \in D \ S : Sizes(q)[t] = Sizes(r)[t]
  BY <1>1 DEF Sizes
<1>3. D \ S = D \ (S \cap D) /\ S \cap D \in SUBSET D
  OBVIOUS
<1>4. SumFunctionOnSet(Sizes(q), D \ S) = SumFunctionOnSet(Sizes(r), D \ S)
  <2>1. IsFiniteSet(D \ S)
    BY <1>1, SizesTyped
  <2>. QED  BY <1>2, <2>1, SumsAgree
<1>5. SumFunctionOnSet(Sizes(r), D \ (S \cap D))
        = SumFunctionOnSet(Sizes(r), D) - SumFunctionOnSet(Sizes(r), S \cap D)
  <2>1. IsFiniteSet(D) /\ IsNatOn(Sizes(r), D)
    BY SizesTyped
  <2>. HIDE DEF D
  <2>. QED  BY <1>3, <2>1, SumOfSubset
<1>. QED  BY <1>1, <1>3, <1>4, <1>5, SizeOfSlots, SizesTyped

LEMMA SizeOfPart ==
  ASSUME NEW r \in ReplicaState, NEW S
  PROVE  SizeOf(r, S) <= SizeOf(r, Slot)
<1> DEFINE D == DOMAIN r.retained
<1>1. S \cap D \in SUBSET D
  OBVIOUS
<1>2. IsFiniteSet(D) /\ IsNatOn(Sizes(r), D)
  BY SizesTyped
<1>3. SumFunctionOnSet(Sizes(r), S \cap D) <= SumFunctionOnSet(Sizes(r), D)
  <2>. HIDE DEF D
  <2>. QED  BY <1>1, <1>2, SumOfSubset
<1>. QED  BY <1>3, SizeOfSlots, SizesTyped

LEMMA AllBytesTyped == AllBytes \in Nat
<1> DEFINE all == [s \in Slot |-> Size[Chosen[s]]]
<1>1. IsNatOn(all, Slot) /\ IsFiniteSet(Slot) /\ DOMAIN all = Slot
  BY ChosenAssumption, SizeAssumption, SlotsAreNumbers DEF IsNatOn
<1>2. AllBytes = SumFunctionOnSet(all, Slot)
  BY DEF AllBytes, SumFunction
<1>. HIDE DEF all
<1>. QED  BY <1>1, <1>2, SumIsNat

\* A replica never retains more than the whole log.
LEMMA SizeOfLog ==
  ASSUME NEW r \in ReplicaState, \A s \in DOMAIN r.retained : r.retained[s] = Chosen[s]
  PROVE  SizeOf(r, Slot) <= AllBytes
<1> DEFINE all == [s \in Slot |-> Size[Chosen[s]]]
           D == DOMAIN r.retained
<1>1. D \in SUBSET Slot /\ IsFiniteSet(D) /\ IsFiniteSet(Slot)
  BY StateTyped, SizesTyped, SlotsAreNumbers
<1>2. IsNatOn(all, Slot)
  BY ChosenAssumption, SizeAssumption DEF IsNatOn
<1>3. \A s \in D : Sizes(r)[s] = all[s]
  BY <1>1 DEF Sizes
<1>4. AllBytes = SumFunctionOnSet(all, Slot)
  BY DEF AllBytes, SumFunction
<1>. HIDE DEF all, D
<1>5. SumFunctionOnSet(all, D) <= SumFunctionOnSet(all, Slot)
  BY <1>1, <1>2, SumOfSubset
<1>6. SumFunctionOnSet(Sizes(r), D) = SumFunctionOnSet(all, D)
  BY <1>1, <1>3, SumsAgree
<1>. QED  BY <1>4, <1>5, <1>6, SizeOfSlots DEF D

-----------------------------------------------------------------------------
(* The functions of a replica and Sound. *)

\* What a replica has settled stays settled: the watermarks only grow, and a
\* decided slot stays decided until it is freed.
Advances(r, q) ==
  /\ r.contig <= q.contig /\ r.gcFloor <= q.gcFloor
  /\ \A s \in Slot : IsDecided(r, s) => IsDecided(q, s) \/ s <= q.gcFloor

LEMMA AdvancesTransitive ==
  ASSUME NEW r \in ReplicaState, NEW p \in ReplicaState, NEW q \in ReplicaState,
         Advances(r, p), Advances(p, q)
  PROVE  Advances(r, q)
BY StateTyped, SlotsAreNumbers DEF Advances

LEMMA SoundFacts ==
  ASSUME NEW r, Sound(r)
  PROVE  /\ r \in ReplicaState
         /\ \A s \in DOMAIN r.retained : s > r.gcFloor /\ s \in Slot /\ IsDecided(r, s)
         /\ \A s \in (r.gcFloor + 1)..r.contig : s \in DOMAIN r.retained
BY StateTyped DEF Sound, IsDecided, HasSlot

LEMMA InstalledSound ==
  ASSUME NEW r, Sound(r), NEW s \in Slot, s > r.gcFloor, ~IsDecided(r, s)
  PROVE  LET q == Installed(r, s, Chosen[s])
         IN  /\ Sound(q) /\ Advances(r, q)
             /\ q.contig = r.contig /\ q.acked = r.acked
             /\ DOMAIN q.retained = DOMAIN r.retained \cup {s}
<1> DEFINE v == Chosen[s]
           q == Installed(r, s, v)
<1>1. v \in Value /\ s \in Nat /\ Size[v] \in Nat /\ s \notin DOMAIN r.retained
  BY ChosenAssumption, SizeAssumption, SlotsAreNumbers DEF Sound
<1>2. r \in ReplicaState /\ "decided" \in SlotStates
  BY DEF Sound, SlotStates
<1>3. /\ q.slots = Put(r.slots, s, "decided") /\ q.retained = Put(r.retained, s, v)
      /\ q.bytes = r.bytes + Size[v]
      /\ q.contig = r.contig /\ q.gcFloor = r.gcFloor /\ q.acked = r.acked
      /\ q.delivered = r.delivered
  BY <1>1, <1>2 DEF Installed, ReplicaState
<1>4. q \in ReplicaState
  <2>1. r.slots \in SlotMap(SlotStates) /\ r.retained \in SlotMap(Value) /\ r.bytes \in Nat
    BY <1>2, StateTyped
  <2>2. Put(r.slots, s, "decided") \in SlotMap(SlotStates)
    BY <1>2, <2>1, PutTyped
  <2>3. Put(r.retained, s, v) \in SlotMap(Value)
    BY <1>1, <2>1, PutTyped
  <2>4. r.bytes + Size[v] \in Nat
    BY <1>1, <2>1
  <2>. QED  BY <1>1, <1>2, <2>2, <2>3, <2>4 DEF Installed, ReplicaState
<1>5. /\ DOMAIN q.slots = DOMAIN r.slots \cup {s}
      /\ \A t \in DOMAIN q.slots : q.slots[t] = IF t = s THEN "decided" ELSE r.slots[t]
      /\ DOMAIN q.retained = DOMAIN r.retained \cup {s}
      /\ \A t \in DOMAIN q.retained : q.retained[t] = IF t = s THEN v ELSE r.retained[t]
  BY <1>3 DEF Put
<1>6. \A t \in Slot : IsDecided(q, t) <=> t = s \/ IsDecided(r, t)
  BY <1>5 DEF IsDecided, HasSlot
<1>7. q.bytes = SizeOf(q, Slot)
  BY <1>1, <1>2, <1>3, <1>4, SizeWithNew DEF Sound
<1>. HIDE DEF q
<1>8. Sound(q)
  <2>1. \A t \in DOMAIN q.slots : t > q.gcFloor
    BY <1>3, <1>5 DEF Sound
  <2>2. \A t \in Slot : t \in DOMAIN q.retained <=> IsDecided(q, t)
    BY <1>5, <1>6 DEF Sound
  <2>3. \A t \in DOMAIN q.retained : q.retained[t] = Chosen[t]
    BY <1>5 DEF Sound
  <2>4. \A t \in DOMAIN q.slots : q.slots[t] # "decided" => t <= q.contig + AheadWindow
    BY <1>3, <1>5 DEF Sound
  <2>. QED  BY <1>3, <1>4, <1>5, <1>7, <2>1, <2>2, <2>3, <2>4 DEF Sound
<1>9. Advances(r, q)
  BY <1>2, <1>3, <1>6, StateTyped DEF Advances
<1>. QED  BY <1>3, <1>5, <1>8, <1>9 DEF q

LEMMA PrefixExtended ==
  ASSUME NEW a \in Nat, NEW b \in Nat, a <= b, NEW f
  PROVE  [k \in 1..a |-> f[k]] \o [k \in 1..(b - a) |-> f[a + k]] = [k \in 1..b |-> f[k]]
<1> DEFINE x == [k \in 1..a |-> f[k]]
           y == [k \in 1..(b - a) |-> f[a + k]]
<1>1. Len(x) = a /\ Len(y) = b - a /\ a + (b - a) = b
  OBVIOUS
<1>2. ASSUME NEW k \in 1..b
      PROVE  (IF k <= Len(x) THEN x[k] ELSE y[k - Len(x)]) = f[k]
  <2>1. CASE k <= a
    <3>1. k \in 1..a
      BY <2>1
    <3>. QED  BY <1>1, <3>1
  <2>2. CASE k > a
    <3>1. k - a \in 1..(b - a) /\ a + (k - a) = k
      BY <2>2
    <3>. QED  BY <1>1, <2>2, <3>1
  <2>. QED  BY <2>1, <2>2
<1>3. /\ Len(x \o y) = Len(x) + Len(y) /\ x \o y \in Seq({f[k] : k \in 1..b})
      /\ \A k \in 1..(Len(x) + Len(y)) : (x \o y)[k] = IF k <= Len(x) THEN x[k] ELSE y[k - Len(x)]
  <2> DEFINE S == {f[k] : k \in 1..b}
  <2>1. ASSUME NEW k \in 1..a PROVE f[k] \in S
    OBVIOUS
  <2>2. ASSUME NEW k \in 1..(b - a) PROVE f[a + k] \in S
    <3>1. a + k \in 1..b
      OBVIOUS
    <3>. QED  BY <3>1
  <2>. HIDE DEF S
  <2>3. x \in [1..a -> S] /\ y \in [1..(b - a) -> S]
    BY <2>1, <2>2
  <2>4. x \in Seq(S) /\ y \in Seq(S)
    <3>. HIDE DEF x, y
    <3>1. b - a \in Nat
      OBVIOUS
    <3>. QED  BY <2>3, <3>1, SeqDef
  <2>. HIDE DEF x, y
  <2>5. x \o y \in Seq(S)
    BY <2>4, ConcatProperties
  <2>6. Len(x \o y) = Len(x) + Len(y)
    BY <2>4, ConcatProperties
  <2>7. \A k \in 1..(Len(x) + Len(y)) : (x \o y)[k] = IF k <= Len(x) THEN x[k] ELSE y[k - Len(x)]
    BY <2>4, ConcatProperties
  <2>. QED  BY <2>5, <2>6, <2>7 DEF S
<1>4. x \o y = [k \in 1..Len(x \o y) |-> (x \o y)[k]]
  <2>. HIDE DEF x, y
  <2> DEFINE z == x \o y
             S == {f[k] : k \in 1..b}
  <2>1. z \in Seq(S)
    BY <1>3
  <2>. HIDE DEF z, S
  <2>2. z \in [1..Len(z) -> S]
    BY <2>1, LenProperties
  <2>3. z = [k \in 1..Len(z) |-> z[k]]
    BY <2>2
  <2>. QED  BY <2>3 DEF z
<1>5. Len(x) + Len(y) = b
  BY <1>1
<1>. HIDE DEF x, y
<1>6. \A k \in 1..b : (x \o y)[k] = f[k]
  BY <1>2, <1>3, <1>5
<1>7. x \o y = [k \in 1..b |-> f[k]]
  BY <1>3, <1>4, <1>5, <1>6
<1>. QED  BY <1>7 DEF x, y

LEMMA DeliveredSound ==
  ASSUME NEW i \in Replica, NEW r, Sound(r), NEW c \in DeliverableTo(r)
  PROVE  LET q == DeliveredTo(i, r, c)
         IN  /\ Sound(q) /\ Advances(r, q)
             /\ q.contig = c /\ q.acked[i] = c /\ q.retained = r.retained
             /\ \A j \in Replica \ {i} : q.acked[j] = r.acked[j]
             /\ c + 1 \notin DOMAIN q.retained
<1> DEFINE q == DeliveredTo(i, r, c)
<1>1. r \in ReplicaState
  BY DEF Sound
<1>2. /\ c \in Nat /\ r.contig \in Nat /\ r.gcFloor \in Nat /\ r.contig <= c /\ c \in Watermark
      /\ \A s \in (r.contig + 1)..c : s \in DOMAIN r.retained
      /\ c + 1 \notin DOMAIN r.retained
  BY <1>1, StateTyped, SlotsAreNumbers DEF DeliverableTo
<1> DEFINE more == [k \in 1..(c - r.contig) |-> r.retained[r.contig + k]]
           log == [s \in 1..c |-> Chosen[s]]
<1>3. more = [k \in 1..(c - r.contig) |-> Chosen[r.contig + k]]
  <2>1. ASSUME NEW k \in 1..(c - r.contig) PROVE r.retained[r.contig + k] = Chosen[r.contig + k]
    <3>1. r.contig + k \in (r.contig + 1)..c
      BY <1>2
    <3>. QED  BY <1>2, <3>1 DEF Sound
  <2>. QED  BY <2>1
<1>4. log \in Seq(Value)
  <2>1. 1..c \subseteq Slot
    BY <1>2, SlotsAreNumbers
  <2>2. log \in [1..c -> Value]
    BY <2>1, ChosenAssumption
  <2>. QED  BY <1>2, <2>2, SeqDef
<1>5. r.delivered \o more = log
  <2>1. r.delivered = [s \in 1..r.contig |-> Chosen[s]]
    BY DEF Sound
  <2> DEFINE a == r.contig
  <2>2. a \in Nat /\ a <= c
    BY <1>2
  <2>. HIDE DEF a
  <2>3. [k \in 1..a |-> Chosen[k]] \o [k \in 1..(c - a) |-> Chosen[a + k]] = [k \in 1..c |-> Chosen[k]]
    BY <1>2, <2>2, PrefixExtended
  <2>. QED  BY <1>3, <2>1, <2>3 DEF a
<1>6. /\ q.contig = c /\ q.delivered = log
      /\ q.acked = [r.acked EXCEPT ![i] = c]
      /\ q.slots = r.slots /\ q.retained = r.retained /\ q.gcFloor = r.gcFloor
      /\ q.bytes = r.bytes
  BY <1>1, <1>5 DEF DeliveredTo, ReplicaState
<1>7. [r.acked EXCEPT ![i] = c] \in [Replica -> Watermark]
  BY <1>1, <1>2, StateTyped
<1>8. q \in ReplicaState
  <2> DEFINE acked == [r.acked EXCEPT ![i] = c]
  <2>1. q = [r EXCEPT !.contig = c, !.acked = acked, !.delivered = log]
    BY <1>5 DEF DeliveredTo
  <2>2. acked \in [Replica -> Watermark]
    BY <1>7
  <2>. HIDE DEF q, acked, log
  <2>. QED  BY <1>1, <1>2, <1>4, <2>1, <2>2 DEF ReplicaState
<1>9. \A j \in Replica : q.acked[j] = IF j = i THEN c ELSE r.acked[j]
  BY <1>1, <1>6, StateTyped
<1>10. SizeOf(q, Slot) = SizeOf(r, Slot) /\ \A s \in Slot : IsDecided(q, s) <=> IsDecided(r, s)
  BY <1>6 DEF SizeOf, IsDecided, HasSlot
<1>. HIDE DEF q, log, more
<1>11. Sound(q)
  <2>1. (q.gcFloor + 1)..q.contig \subseteq DOMAIN q.retained
    <3>1. ASSUME NEW s \in (r.gcFloor + 1)..c PROVE s \in DOMAIN r.retained
      <4>1. CASE s <= r.contig
        BY <1>2, <4>1, SoundFacts
      <4>2. CASE s > r.contig
        BY <1>2, <4>2
      <4>. QED  BY <1>2, <4>1, <4>2
    <3>. QED  BY <1>6, <3>1
  <2>2. \A s \in DOMAIN q.slots : q.slots[s] # "decided" => s <= q.contig + AheadWindow
    <3>1. DOMAIN r.slots \subseteq Nat
      BY <1>1, StateTyped, SlotsAreNumbers
    <3>. QED  BY <1>2, <1>6, <3>1, LimitsAssumption DEF Sound
  <2>3. MaxRetained >= AllBytes => \A j \in Replica : q.gcFloor <= q.acked[j]
    BY <1>2, <1>6, <1>9 DEF Sound
  <2>4. q.gcFloor <= q.contig
    BY <1>2, <1>6 DEF Sound
  <2>. QED  BY <1>6, <1>8, <1>10, <2>1, <2>2, <2>3, <2>4 DEF Sound, log
<1>12. Advances(r, q)
  BY <1>2, <1>6, <1>10 DEF Advances
<1>. QED  BY <1>2, <1>6, <1>9, <1>11, <1>12 DEF q

LEMMA LeastAckedExists ==
  ASSUME NEW r \in ReplicaState
  PROVE  /\ LeastAcked(r) \in Watermark
         /\ \A j \in Replica : LeastAcked(r) <= r.acked[j]
<1> DEFINE B == {r.acked[j] : j \in Replica}
<1>1. B \subseteq Nat /\ B # {}
  <2>1. 1 \in Replica
    BY NAssumption DEF Replica
  <2>. QED  BY <2>1, StateTyped
<1>2. PICK w \in B : \A m \in B : w <= m
  <2>. HIDE DEF B
  <2>. QED  BY <1>1, SmallestNumber
<1>3. w \in Watermark /\ (\E j \in Replica : r.acked[j] = w) /\ \A j \in Replica : w <= r.acked[j]
  BY <1>2, StateTyped
<1>. QED  BY <1>3 DEF LeastAcked

LEMMA FloorsTyped ==
  ASSUME NEW i \in Replica, NEW r, Sound(r), r.acked[i] = r.contig, NEW f \in FloorsAfter(r)
  PROVE  /\ f \in Watermark /\ f \in Nat /\ r.gcFloor <= f /\ f <= r.contig
         /\ AckedFloor(r) \in Nat /\ r.gcFloor <= AckedFloor(r)
         /\ f # AckedFloor(r) => AckedFloor(r) < f /\ ~StopsAt(r, AckedFloor(r))
         /\ StopsAt(r, f)
<1>1. r \in ReplicaState /\ r.gcFloor \in Nat /\ r.contig \in Nat /\ r.gcFloor <= r.contig
  BY StateTyped DEF Sound
<1>2. LeastAcked(r) \in Nat /\ LeastAcked(r) <= r.contig
  BY <1>1, LeastAckedExists, SlotsAreNumbers
<1>3. AckedFloor(r) \in Nat /\ r.gcFloor <= AckedFloor(r) /\ AckedFloor(r) <= r.contig
  BY <1>1, <1>2 DEF AckedFloor
<1>4. /\ f = AckedFloor(r) \/ (f \in DOMAIN r.retained /\ AckedFloor(r) < f /\ f <= r.contig)
      /\ StopsAt(r, f)
      /\ AckedFloor(r) < f => ~StopsAt(r, AckedFloor(r))
  BY DEF FloorsAfter
<1>5. f \in Nat
  BY <1>1, <1>3, <1>4, StateTyped
<1>6. f \in Watermark
  BY <1>1, <1>3, <1>4, <1>5, StateTyped, SlotsAreNumbers
<1>. QED  BY <1>1, <1>3, <1>4, <1>5, <1>6

\* maybe_gc: a state whose own acknowledgement is right stays sound, and ends
\* within the budget.
LEMMA FreedSound ==
  ASSUME NEW i \in Replica, NEW r, Sound(r), r.acked[i] = r.contig, NEW f \in FloorsAfter(r)
  PROVE  LET q == Freed(r, f)
         IN  /\ Sound(q) /\ WithinBudget(q) /\ Advances(r, q)
             /\ q.contig = r.contig /\ q.acked = r.acked
             /\ DOMAIN q.retained \subseteq DOMAIN r.retained
<1> DEFINE q == Freed(r, f)
           freed == (r.gcFloor + 1)..f
<1>1. /\ r \in ReplicaState /\ r.gcFloor \in Nat /\ r.contig \in Nat
      /\ f \in Watermark /\ f \in Nat /\ r.gcFloor <= f /\ f <= r.contig
  BY FloorsTyped, StateTyped DEF Sound
<1>2. /\ r.bytes = SizeOf(r, Slot) /\ SizeOf(r, freed) <= SizeOf(r, Slot)
      /\ SizeOf(r, freed) \in Nat /\ SizeOf(r, Slot) \in Nat
  BY <1>1, SizesTyped, SizeOfPart DEF Sound
<1>3. LeftAt(r, f) = r.bytes - SizeOf(r, freed) /\ LeftAt(r, f) \in Nat
  BY <1>2 DEF LeftAt
<1>4. /\ q.slots = Without(r.slots, freed) /\ q.retained = Without(r.retained, freed)
      /\ q.bytes = LeftAt(r, f) /\ q.gcFloor = f
      /\ q.contig = r.contig /\ q.acked = r.acked /\ q.delivered = r.delivered
  BY <1>1 DEF Freed, ReplicaState
<1>5. q \in ReplicaState
  <2>1. /\ Without(r.slots, freed) \in SlotMap(SlotStates)
        /\ Without(r.retained, freed) \in SlotMap(Value)
    BY <1>1, StateTyped, WithoutTyped
  <2>. QED  BY <1>1, <1>3, <2>1 DEF Freed, ReplicaState
<1>6. /\ DOMAIN q.slots = DOMAIN r.slots \ freed
      /\ \A s \in DOMAIN q.slots : q.slots[s] = r.slots[s]
      /\ DOMAIN q.retained = DOMAIN r.retained \ freed
      /\ \A s \in DOMAIN q.retained : q.retained[s] = r.retained[s]
  BY <1>4 DEF Without
<1>7. \A s \in DOMAIN r.slots \cup DOMAIN r.retained : s \in Nat /\ s \in Slot /\ s > r.gcFloor
  BY <1>1, StateTyped, SlotsAreNumbers, SoundFacts DEF Sound
<1>8. \A s \in Slot : IsDecided(q, s) <=> IsDecided(r, s) /\ s \notin freed
  BY <1>6 DEF IsDecided, HasSlot
<1>9. q.bytes = SizeOf(q, Slot)
  BY <1>1, <1>2, <1>3, <1>4, <1>5, SizeWithout
<1>10. WithinBudget(q)
  <2>1. CASE LeftAt(r, f) <= MaxRetained
    BY <1>3, <1>4, <1>9, <2>1, LimitsAssumption DEF WithinBudget
  <2>2. CASE \A s \in DOMAIN r.retained : s > f => s > r.contig
    BY <1>1, <1>4, <1>6, <1>7, <2>2 DEF WithinBudget
  <2>. QED  BY <2>1, <2>2, FloorsTyped DEF StopsAt
<1>11. MaxRetained >= AllBytes => \A j \in Replica : f <= r.acked[j]
  <2>1. SUFFICES ASSUME MaxRetained >= AllBytes PROVE \A j \in Replica : f <= r.acked[j]
    OBVIOUS
  <2>2. StopsAt(r, AckedFloor(r))
    <3>1. SizeOf(r, Slot) <= AllBytes
      BY <1>1, SizeOfLog DEF Sound
    <3>2. SizeOf(r, (r.gcFloor + 1)..AckedFloor(r)) \in Nat
      BY <1>1, SizesTyped
    <3>3. AllBytes \in Nat
      BY AllBytesTyped
    <3>. QED  BY <1>2, <2>1, <3>1, <3>2, <3>3, LimitsAssumption DEF StopsAt, LeftAt
  <2>3. f = AckedFloor(r)
    BY <2>2, FloorsTyped
  <2>. QED  BY <1>1, <2>1, <2>3, LeastAckedExists DEF AckedFloor, Sound
<1>. HIDE DEF q
<1>12. Sound(q)
  <2>1. (q.gcFloor + 1)..q.contig \subseteq DOMAIN q.retained
    <3>1. ASSUME NEW s \in (f + 1)..r.contig PROVE s \in DOMAIN r.retained /\ s \notin freed
      BY <1>1, SoundFacts
    <3>. QED  BY <1>4, <1>6, <3>1
  <2>2. \A s \in DOMAIN q.slots : s > q.gcFloor
    BY <1>1, <1>4, <1>6, <1>7
  <2>3. \A s \in Slot : s \in DOMAIN q.retained <=> IsDecided(q, s)
    BY <1>6, <1>8 DEF Sound
  <2>4. \A s \in DOMAIN q.retained : q.retained[s] = Chosen[s]
    BY <1>6 DEF Sound
  <2>5. \A s \in DOMAIN q.slots : q.slots[s] # "decided" => s <= q.contig + AheadWindow
    BY <1>4, <1>6 DEF Sound
  <2>6. q.gcFloor <= q.contig /\ q.delivered = [s \in 1..q.contig |-> Chosen[s]]
    BY <1>1, <1>4 DEF Sound
  <2>7. MaxRetained >= AllBytes => \A j \in Replica : q.gcFloor <= q.acked[j]
    BY <1>4, <1>11
  <2>. QED  BY <1>5, <1>9, <2>1, <2>2, <2>3, <2>4, <2>5, <2>6, <2>7 DEF Sound
<1>13. Advances(r, q)
  <2>1. \A s \in Slot : IsDecided(r, s) => IsDecided(q, s) \/ s <= f
    BY <1>1, <1>8
  <2>. QED  BY <1>1, <1>4, <2>1 DEF Advances
<1>. QED  BY <1>4, <1>6, <1>10, <1>12, <1>13 DEF q

\* maybe_open_slots, for the state of the leader.
LEMMA LastKnownExists ==
  ASSUME NEW r \in ReplicaState
  PROVE  \E w \in Watermark : LastKnown(r) = {w} /\ \A s \in DOMAIN r.slots : s <= w
<1> DEFINE B == {0} \cup DOMAIN r.slots
<1>1. B \subseteq 0..MaxSlot /\ B # {} /\ MaxSlot \in Nat
  BY StateTyped, SlotsAreNumbers DEF Slot
<1>2. PICK w \in B : \A m \in B : m <= w
  <2>. HIDE DEF B
  <2>. QED  BY <1>1, GreatestNumber
<1>3. w \in Watermark /\ w \in LastKnown(r)
  BY <1>1, <1>2 DEF LastKnown, HasSlot, Watermark
<1>4. \A x \in LastKnown(r) : x = w
  <2>1. ASSUME NEW x \in LastKnown(r) PROVE x = w
    <3>1. x \in Nat /\ w \in Nat /\ w <= x
      BY <1>2, <1>3, <2>1, SlotsAreNumbers DEF LastKnown
    <3>2. x <= w
      BY <1>2 DEF LastKnown, HasSlot
    <3>. QED  BY <3>1, <3>2
  <2>. QED  BY <2>1
<1>. QED  BY <1>2, <1>3, <1>4

LEMMA FirstToOpenTyped ==
  ASSUME NEW r \in ReplicaState, NEW first \in FirstToOpen(r)
  PROVE  /\ first \in Nat \ {0} /\ first > r.contig
         /\ \A s \in DOMAIN r.slots : s < first
<1>1. PICK w \in Watermark : LastKnown(r) = {w} /\ \A s \in DOMAIN r.slots : s <= w
  BY LastKnownExists
<1>2. PICK x \in {w, r.maxOpen, r.contig} :
        first = x + 1 /\ \A y \in {w, r.maxOpen, r.contig} : y <= x
  BY <1>1 DEF FirstToOpen
<1>3. w \in Nat /\ x \in Nat /\ r.contig \in Nat /\ w <= x /\ r.contig <= x
  BY <1>2, StateTyped, SlotsAreNumbers
<1>4. \A s \in DOMAIN r.slots : s \in Nat /\ s <= w
  BY <1>1, StateTyped, SlotsAreNumbers
<1>. QED  BY <1>2, <1>3, <1>4

\* What all that neither decides, delivers nor frees has in common: only slots
\* that are new or open are touched, near the frontier, and none is decided by
\* it, and no acknowledgement is taken back.
Touches(r, q) ==
  /\ q \in ReplicaState
  /\ q.contig = r.contig /\ q.gcFloor = r.gcFloor /\ q.retained = r.retained
  /\ q.bytes = r.bytes /\ q.delivered = r.delivered
  /\ \A j \in Replica : r.acked[j] <= q.acked[j]
  /\ DOMAIN r.slots \subseteq DOMAIN q.slots
  /\ \A s \in DOMAIN q.slots : 
       \/ s \in DOMAIN r.slots /\ q.slots[s] = r.slots[s]
       \/ ~IsDecided(r, s) /\ q.slots[s] # "decided" /\ s > r.gcFloor /\ s <= r.contig + AheadWindow

LEMMA TouchedSound ==
  ASSUME NEW r, Sound(r), NEW q, Touches(r, q)
  PROVE  /\ Sound(q) /\ Advances(r, q) /\ q.contig = r.contig
         /\ WithinBudget(r) => WithinBudget(q)
         /\ \A i \in Replica : AtRest(i, r) /\ q.acked[i] = r.acked[i] => AtRest(i, q)
<1>1. /\ r \in ReplicaState /\ r.contig \in Nat /\ r.gcFloor \in Nat
      /\ q \in ReplicaState /\ \A j \in Replica : r.acked[j] \in Nat /\ q.acked[j] \in Nat
  BY StateTyped DEF Sound, Touches
<1>2. \A s \in Slot : IsDecided(q, s) <=> IsDecided(r, s)
  BY DEF Touches, IsDecided, HasSlot
<1>3. \A S : SizeOf(q, S) = SizeOf(r, S)
  BY DEF Touches, SizeOf
<1>4. /\ \A s \in DOMAIN q.slots : s > q.gcFloor
      /\ \A s \in DOMAIN q.slots : q.slots[s] # "decided" => s <= q.contig + AheadWindow
  BY DEF Touches, Sound
<1>5. MaxRetained >= AllBytes => \A j \in Replica : q.gcFloor <= q.acked[j]
  BY <1>1 DEF Touches, Sound
<1>6. Sound(q)
  BY <1>2, <1>3, <1>4, <1>5 DEF Touches, Sound
<1>7. Advances(r, q)
  BY <1>1, <1>2 DEF Touches, Advances
<1>8. WithinBudget(r) => WithinBudget(q)
  BY <1>3 DEF Touches, WithinBudget
<1>. QED  BY <1>6, <1>7, <1>8 DEF Touches, AtRest

LEMMA OpenedTouches ==
  ASSUME NEW i \in Replica, NEW r, Sound(r), NEW q \in Opened(i, r)
  PROVE  Touches(r, q) /\ q.acked = r.acked
<1>1. /\ r \in ReplicaState /\ r.contig \in Nat /\ r.gcFloor \in Nat /\ r.gcFloor <= r.contig
      /\ \A j \in Replica : r.acked[j] \in Nat
  BY StateTyped DEF Sound
<1>2. CASE q = r
  BY <1>1, <1>2 DEF Touches
<1>3. CASE i = Leader
  <2>1. PICK first \in FirstToOpen(r) : \E last \in {l \in (first - 1)..MaxSlot :
                               l >= first => InPipeline(r, first, l)} : q = OpenedUpTo(r, first, last)
    BY <1>3 DEF Opened
  <2>2. PICK last \in (first - 1)..MaxSlot : 
          (last >= first => InPipeline(r, first, last)) /\ q = OpenedUpTo(r, first, last)
    BY <2>1
  <2>3. /\ first \in Nat \ {0} /\ first > r.contig
        /\ \A s \in DOMAIN r.slots : s < first
    BY <1>1, FirstToOpenTyped
  <2>4. last \in Int /\ last <= MaxSlot /\ first..last \subseteq Slot
    BY <2>2, <2>3, SlotsAreNumbers
  <2> DEFINE slots == [s \in DOMAIN r.slots \cup (first..last) |->
                         IF s \in first..last THEN "running" ELSE r.slots[s]]
  <2>5. /\ q.slots = slots /\ q.recorded = r.recorded \cup (first..last)
        /\ q.contig = r.contig /\ q.gcFloor = r.gcFloor /\ q.retained = r.retained
        /\ q.bytes = r.bytes /\ q.acked = r.acked /\ q.delivered = r.delivered
    BY <1>1, <2>2 DEF OpenedUpTo, ReplicaState
  <2>6. q \in ReplicaState
    <3>1. slots \in SlotMap(SlotStates)
      <4>1. DOMAIN r.slots \cup (first..last) \in SUBSET Slot
        BY <1>1, <2>4, StateTyped
      <4>2. slots \in [DOMAIN r.slots \cup (first..last) -> SlotStates]
        BY <1>1, StateTyped DEF SlotStates
      <4>. QED  BY <4>1, <4>2, IsSlotMap
    <3>2. (IF last >= first THEN last ELSE r.maxOpen) \in Watermark
      BY <1>1, <2>3, <2>4, StateTyped, SlotsAreNumbers
    <3>3. r.recorded \cup (first..last) \subseteq Slot
      BY <1>1, <2>4, StateTyped
    <3>. QED  BY <1>1, <2>2, <3>1, <3>2, <3>3 DEF OpenedUpTo, ReplicaState
  <2>7. ASSUME NEW s \in first..last
        PROVE  /\ s \notin DOMAIN r.slots /\ q.slots[s] = "running"
               /\ s > r.gcFloor /\ s <= r.contig + AheadWindow
    <3>1. s <= r.contig + Pipeline
      BY <1>1, <2>2, <2>3, <2>4, <2>7, LimitsAssumption DEF InPipeline
    <3>. QED  BY <1>1, <2>3, <2>4, <2>5, <2>7, <3>1, LimitsAssumption
  <2>8. \A s \in DOMAIN r.slots : s \in DOMAIN q.slots /\ q.slots[s] = r.slots[s]
    BY <2>5, <2>7
  <2>9. DOMAIN q.slots = DOMAIN r.slots \cup (first..last)
    BY <2>5
  <2>. HIDE DEF slots
  <2>. QED  BY <1>1, <2>5, <2>6, <2>7, <2>8, <2>9 DEF Touches, IsDecided, HasSlot
<1>. QED  BY <1>2, <1>3 DEF Opened

-----------------------------------------------------------------------------
(* decide_slot. *)

\* A replica moves on to a state in which it is at rest, and has heard nothing.
MovesOn(i, r, q) ==
  /\ AtRest(i, q) /\ Advances(r, q)
  /\ \A j \in Replica \ {i} : q.acked[j] = r.acked[j]

LEMMA AfterInstallingAtRest ==
  ASSUME NEW i \in Replica, NEW r, Sound(r), NEW q \in AfterInstalling(i, r)
  PROVE  /\ MovesOn(i, r, q)
         /\ r.contig + 1 \in DOMAIN r.retained => r.contig + 1 <= q.contig
<1>1. PICK c \in DeliverableTo(r) :
        \E p \in Collected(DeliveredTo(i, r, c)) : q \in Opened(i, p)
  BY DEF AfterInstalling
<1> DEFINE d == DeliveredTo(i, r, c)
<1>2. PICK p \in Collected(d) : q \in Opened(i, p)
  BY <1>1
<1>3. /\ Sound(d) /\ Advances(r, d) /\ d.contig = c /\ d.acked[i] = c
      /\ c + 1 \notin DOMAIN d.retained /\ d.retained = r.retained
      /\ \A j \in Replica \ {i} : d.acked[j] = r.acked[j]
  BY DeliveredSound
<1>4. PICK f \in FloorsAfter(d) : p = Freed(d, f)
  BY <1>2 DEF Collected
<1>. HIDE DEF d
<1>5. /\ Sound(p) /\ WithinBudget(p) /\ Advances(d, p)
      /\ p.contig = c /\ p.acked = d.acked /\ DOMAIN p.retained \subseteq DOMAIN d.retained
  BY <1>3, <1>4, FreedSound
<1>6. AtRest(i, p)
  BY <1>3, <1>5 DEF AtRest
<1>7. Touches(p, q) /\ q.acked = p.acked
  BY <1>2, <1>5, OpenedTouches
<1>8. AtRest(i, q) /\ Advances(p, q) /\ q.contig = c
  BY <1>5, <1>6, <1>7, TouchedSound
<1>9. r \in ReplicaState /\ d \in ReplicaState /\ p \in ReplicaState /\ q \in ReplicaState
  BY <1>3, <1>5, <1>8 DEF Sound, AtRest
<1>10. Advances(r, q)
  BY <1>3, <1>5, <1>8, <1>9, AdvancesTransitive
<1>11. r.contig + 1 \in DOMAIN r.retained => r.contig + 1 <= c
  <2>1. r.contig \in Nat /\ c \in Nat /\ r.contig <= c
    BY <1>1, <1>9, StateTyped DEF DeliverableTo
  <2>. QED  BY <1>3, <2>1
<1>. QED  BY <1>3, <1>5, <1>7, <1>8, <1>10, <1>11 DEF MovesOn

\* What a remote decision or a learned value does to a replica: it is never
\* refused at the frontier, and afterwards the slot is behind the frontier.
LEMMA DecideSlotAtRest ==
  ASSUME NEW i \in Replica, NEW r, AtRest(i, r), NEW s \in Slot, NEW b \in BOOLEAN,
         NEW q \in DecideSlot(i, r, s, Chosen[s], b)
  PROVE  /\ MovesOn(i, r, q)
         /\ ~b /\ s <= r.contig + 1 => s <= q.contig
<1>1. /\ Sound(r) /\ r \in ReplicaState /\ r.contig \in Nat /\ r.gcFloor \in Nat /\ s \in Nat
      /\ r.gcFloor <= r.contig /\ r.contig + 1 \notin DOMAIN r.retained
  BY StateTyped, SlotsAreNumbers DEF AtRest, Sound
<1>2. CASE Refuses(r, s, Chosen[s], b) \/ IsDecided(r, s)
  <2>1. q = r
    BY <1>2 DEF DecideSlot
  <2>2. MovesOn(i, r, q)
    BY <1>1, <2>1 DEF MovesOn, Advances
  <2>3. ~b /\ s <= r.contig + 1 => s <= r.contig
    <3>1. CASE Refuses(r, s, Chosen[s], b)
      BY <1>1, <3>1 DEF Refuses
    <3>2. CASE IsDecided(r, s)
      BY <1>1, <3>2 DEF Sound
    <3>. QED  BY <1>2, <3>1, <3>2
  <2>. QED  BY <2>1, <2>2, <2>3
<1>3. CASE ~Refuses(r, s, Chosen[s], b) /\ ~IsDecided(r, s)
  <2> DEFINE p == Installed(r, s, Chosen[s])
  <2>1. s > r.gcFloor
    BY <1>1, <1>3 DEF Refuses
  <2>2. /\ Sound(p) /\ Advances(r, p) /\ p.contig = r.contig /\ p.acked = r.acked
        /\ DOMAIN p.retained = DOMAIN r.retained \cup {s}
    BY <1>1, <1>3, <2>1, InstalledSound
  <2>3. q \in AfterInstalling(i, p)
    BY <1>3 DEF DecideSlot
  <2>. HIDE DEF p
  <2>4. MovesOn(i, p, q) /\ (p.contig + 1 \in DOMAIN p.retained => p.contig + 1 <= q.contig)
    BY <2>2, <2>3, AfterInstallingAtRest
  <2>5. p \in ReplicaState /\ q \in ReplicaState /\ q.contig \in Nat
    BY <2>2, <2>4, StateTyped DEF MovesOn, AtRest, Sound
  <2>6. Advances(r, q)
    BY <1>1, <2>2, <2>4, <2>5, AdvancesTransitive DEF MovesOn
  <2>7. s <= r.contig + 1 => s <= q.contig
    BY <1>1, <2>2, <2>4, <2>5, <2>6 DEF Advances
  <2>. QED  BY <2>2, <2>4, <2>6, <2>7 DEF MovesOn
<1>. QED  BY <1>2, <1>3

-----------------------------------------------------------------------------
(* What a replica notes down. *)

LEMMA HeardTouches ==
  ASSUME NEW r \in ReplicaState, NEW j \in Replica, NEW w \in Watermark
  PROVE  LET q == Heard(r, j, w)
         IN  /\ q \in ReplicaState
             /\ Sound(r) => Touches(r, q)
             /\ q.contig = r.contig
             /\ \A k \in Replica : q.acked[k] = IF k = j /\ r.acked[k] < w THEN w ELSE r.acked[k]
<1> DEFINE q == Heard(r, j, w)
           acked == [r.acked EXCEPT ![j] = IF @ < w THEN w ELSE @]
<1>1. /\ acked \in [Replica -> Watermark]
      /\ \A k \in Replica : acked[k] = IF k = j /\ r.acked[k] < w THEN w ELSE r.acked[k]
  BY StateTyped
<1>2. /\ q.contig = r.contig /\ q.gcFloor = r.gcFloor /\ q.retained = r.retained
      /\ q.bytes = r.bytes /\ q.delivered = r.delivered /\ q.slots = r.slots
      /\ q.acked = acked
  BY DEF Heard, ReplicaState
<1>3. q \in ReplicaState
  BY <1>1 DEF Heard, ReplicaState
<1>. HIDE DEF q, acked
<1>4. \A k \in Replica : r.acked[k] <= q.acked[k]
  BY <1>1, <1>2, StateTyped, SlotsAreNumbers
<1>5. Touches(r, q)
  BY <1>2, <1>3, <1>4 DEF Touches
<1>. QED  BY <1>1, <1>2, <1>3, <1>5 DEF q

LEMMA LearningTouches ==
  ASSUME NEW r \in ReplicaState, NEW b \in BOOLEAN
  PROVE  LET q == [r EXCEPT !.learning = b]
         IN  Touches(r, q) /\ q.acked = r.acked /\ q.contig = r.contig
<1> DEFINE q == [r EXCEPT !.learning = b]
<1>1. /\ q.contig = r.contig /\ q.gcFloor = r.gcFloor /\ q.retained = r.retained
      /\ q.bytes = r.bytes /\ q.delivered = r.delivered /\ q.slots = r.slots
      /\ q.acked = r.acked /\ q \in ReplicaState
  BY DEF ReplicaState
<1>. HIDE DEF q
<1>2. \A k \in Replica : r.acked[k] <= q.acked[k]
  BY <1>1, StateTyped
<1>. QED  BY <1>1, <1>2 DEF Touches, q

LEMMA TimedOutTouches ==
  ASSUME NEW r \in ReplicaState
  PROVE  Touches(r, TimedOut(r)) /\ TimedOut(r).acked = r.acked
         /\ TimedOut(r).attempts \in 0..(Attempts - 1)
<1> DEFINE q == TimedOut(r)
<1>1. r.attempts \in 0..(Attempts - 1) /\ (r.attempts + 1) % Attempts \in 0..(Attempts - 1)
  BY AttemptsAssumption DEF ReplicaState
<1>2. /\ q.contig = r.contig /\ q.gcFloor = r.gcFloor /\ q.retained = r.retained
      /\ q.bytes = r.bytes /\ q.delivered = r.delivered /\ q.slots = r.slots
      /\ q.acked = r.acked /\ q \in ReplicaState /\ q.attempts \in 0..(Attempts - 1)
  BY <1>1 DEF ReplicaState, TimedOut
<1>. HIDE DEF q
<1>3. \A k \in Replica : r.acked[k] <= q.acked[k]
  BY <1>2, StateTyped
<1>. QED  BY <1>2, <1>3 DEF Touches, q

\* An entry that is made or changed for a slot that is not decided.
LEMMA PutTouches ==
  ASSUME NEW r, Sound(r), NEW s \in Slot, ~IsDecided(r, s), s > r.gcFloor,
         s <= r.contig + AheadWindow, NEW x \in {"idle", "running"},
         NEW q \in ReplicaState,
         q.contig = r.contig, q.gcFloor = r.gcFloor, q.retained = r.retained,
         q.bytes = r.bytes, q.delivered = r.delivered, q.acked = r.acked,
         q.slots = Put(r.slots, s, x)
  PROVE  Touches(r, q)
<1>1. \A k \in Replica : r.acked[k] \in Nat
  BY StateTyped DEF Sound
<1>2. /\ DOMAIN q.slots = DOMAIN r.slots \cup {s}
      /\ \A t \in DOMAIN q.slots : q.slots[t] = IF t = s THEN x ELSE r.slots[t]
  BY DEF Put
<1>. QED  BY <1>1, <1>2 DEF Touches

LEMMA ObservedTouches ==
  ASSUME NEW r, Sound(r), NEW s \in Slot, s > r.gcFloor, s <= r.contig + AheadWindow
  PROVE  Touches(r, Observed(r, s)) /\ Observed(r, s).acked = r.acked
<1>1. r \in ReplicaState /\ \A j \in Replica : r.acked[j] \in Nat
  BY StateTyped DEF Sound
<1>2. CASE HasSlot(r, s)
  BY <1>1, <1>2 DEF Observed, Touches
<1>3. CASE ~HasSlot(r, s)
  <2> DEFINE q == [r EXCEPT !.slots = Put(@, s, "idle")]
  <2>1. /\ q.contig = r.contig /\ q.gcFloor = r.gcFloor /\ q.retained = r.retained
        /\ q.bytes = r.bytes /\ q.delivered = r.delivered /\ q.acked = r.acked
        /\ q.slots = Put(r.slots, s, "idle")
    BY <1>1 DEF ReplicaState
  <2>2. Put(r.slots, s, "idle") \in SlotMap(SlotStates)
    BY <1>1, StateTyped, PutTyped DEF SlotStates
  <2>3. q \in ReplicaState
    BY <1>1, <2>2 DEF ReplicaState
  <2>4. Observed(r, s) = q /\ ~IsDecided(r, s)
    BY <1>3 DEF Observed, IsDecided
  <2>. HIDE DEF q
  <2>. QED  BY <2>1, <2>3, <2>4, PutTouches
<1>. QED  BY <1>2, <1>3

LEMMA HedgedTouches ==
  ASSUME NEW r, Sound(r), NEW s \in DOMAIN r.slots, s > r.contig, r.slots[s] = "idle"
  PROVE  LET q == [r EXCEPT !.slots = Put(@, s, "running"), !.recorded = @ \cup {s}]
         IN  Touches(r, q) /\ q.acked = r.acked
<1> DEFINE q == [r EXCEPT !.slots = Put(@, s, "running"), !.recorded = @ \cup {s}]
<1>1. /\ r \in ReplicaState /\ s \in Slot /\ ~IsDecided(r, s) /\ s > r.gcFloor
      /\ s <= r.contig + AheadWindow
  BY StateTyped DEF Sound, IsDecided
<1>2. /\ q.contig = r.contig /\ q.gcFloor = r.gcFloor /\ q.retained = r.retained
      /\ q.bytes = r.bytes /\ q.delivered = r.delivered /\ q.acked = r.acked
      /\ q.slots = Put(r.slots, s, "running")
  BY <1>1 DEF ReplicaState
<1>3. q \in ReplicaState
  <2>1. Put(r.slots, s, "running") \in SlotMap(SlotStates) /\ r.recorded \cup {s} \subseteq Slot
    BY <1>1, StateTyped, PutTyped DEF SlotStates
  <2>. QED  BY <1>1, <2>1 DEF ReplicaState
<1>. HIDE DEF q
<1>4. Touches(r, q)
  BY <1>1, <1>2, <1>3, PutTouches
<1>. QED  BY <1>2, <1>4 DEF q

LEMMA TookPartTouches ==
  ASSUME NEW r, Sound(r), NEW s \in Slot, ~Ignores(r, s), ~IsDecided(r, s)
  PROVE  Touches(r, TookPart(r, s)) /\ TookPart(r, s).acked = r.acked
<1>1. s > r.gcFloor /\ s <= r.contig + AheadWindow /\ s \in Nat
  BY StateTyped, SlotsAreNumbers, LimitsAssumption DEF Ignores, Sound
<1> DEFINE p == Observed(r, s)
           q == TookPart(r, s)
<1>2. Touches(r, p) /\ p.acked = r.acked /\ p \in ReplicaState
  BY <1>1, ObservedTouches DEF Touches
<1>3. q = [p EXCEPT !.recorded = @ \cup {s}]
  BY DEF TookPart
<1>. HIDE DEF p, q
<1>4. /\ q.contig = p.contig /\ q.gcFloor = p.gcFloor /\ q.retained = p.retained
      /\ q.bytes = p.bytes /\ q.delivered = p.delivered /\ q.acked = p.acked
      /\ q.slots = p.slots /\ q \in ReplicaState
  BY <1>2, <1>3 DEF ReplicaState
<1>. QED  BY <1>2, <1>4 DEF Touches, q

-----------------------------------------------------------------------------
(* What the inputs of one replica leave of the invariant. *)

\* Every replica is at rest again, nothing settled is taken back, and what is
\* believed of the peers still holds.
Onward ==
  /\ \A j \in Replica : AtRest(j, rep'[j]) /\ Advances(rep[j], rep'[j])
  /\ WatermarksAreReal'

LEMMA InvFacts ==
  ASSUME Inv
  PROVE  /\ TypeOK /\ WatermarksAreReal /\ MessagesReal /\ ChunksReal
         /\ \A j \in Replica : AtRest(j, rep[j]) /\ Sound(rep[j]) /\ rep[j] \in ReplicaState
BY DEF Inv, AtRest, Sound

LEMMA RepUnchanged ==
  ASSUME Inv, UNCHANGED rep
  PROVE  Onward /\ rep' \in [Replica -> ReplicaState]
<1>1. Onward
  BY InvFacts, StateTyped, SlotsAreNumbers DEF Onward, Advances, WatermarksAreReal
<1>. QED  BY <1>1, InvFacts DEF TypeOK

\* A state that replica i may move to: what it believes of the others is true.
MayMoveTo(i, q) ==
  /\ AtRest(i, q) /\ Advances(rep[i], q)
  /\ \A j \in Replica \ {i} : q.acked[j] <= rep[j].contig

LEMMA OneMovesOn ==
  ASSUME Inv, NEW i \in Replica, NEW q, MayMoveTo(i, q), rep' = [rep EXCEPT ![i] = q]
  PROVE  Onward /\ rep'[i] = q /\ rep' \in [Replica -> ReplicaState]
<1>1. \A j \in Replica : rep'[j] = IF j = i THEN q ELSE rep[j]
  BY InvFacts DEF TypeOK
<1>2. \A j \in Replica : AtRest(j, rep'[j]) /\ Advances(rep[j], rep'[j])
  BY <1>1, InvFacts, StateTyped, SlotsAreNumbers DEF Advances, MayMoveTo
<1>3. ASSUME NEW j \in Replica, NEW k \in Replica
      PROVE  rep'[j].acked[k] <= rep'[k].contig
  <2>1. /\ rep[j] \in ReplicaState /\ rep[k] \in ReplicaState /\ q \in ReplicaState
        /\ rep[k].contig \in Nat /\ rep[j].acked[k] \in Nat /\ q.acked[k] \in Nat /\ q.contig \in Nat
    BY InvFacts, StateTyped DEF AtRest, Sound, MayMoveTo
  <2>2. rep[j].acked[k] <= rep[k].contig
    BY InvFacts DEF WatermarksAreReal
  <2>3. CASE j = i /\ k = i
    BY <1>1, <2>1, <2>3 DEF AtRest, MayMoveTo
  <2>4. CASE j = i /\ k # i
    BY <1>1, <2>1, <2>4 DEF MayMoveTo
  <2>5. CASE j # i
    BY <1>1, <2>1, <2>2, <2>5 DEF Advances, MayMoveTo
  <2>. QED  BY <2>3, <2>4, <2>5
<1>4. q \in ReplicaState
  BY DEF MayMoveTo, AtRest, Sound
<1>. QED  BY <1>1, <1>2, <1>3, <1>4, InvFacts DEF Onward, WatermarksAreReal, TypeOK

\* A message stays real while the replicas move on.
LEMMA HeaderStaysReal ==
  ASSUME Inv, Onward, NEW m, m.from \in Replica, m.decided \in Watermark, HeaderReal(rep, m)
  PROVE  HeaderReal(rep', m)
<1>1. /\ rep[m.from].contig \in Nat /\ rep'[m.from].contig \in Nat /\ m.decided \in Nat
      /\ rep[m.from].contig <= rep'[m.from].contig
  BY InvFacts, StateTyped, SlotsAreNumbers DEF Onward, AtRest, Sound, Advances
<1>. QED  BY <1>1 DEF HeaderReal

LEMMA ChunkStaysReal ==
  ASSUME Inv, Onward, NEW m \in LearnReplyMsg, ChunkReal(rep, m)
  PROVE  ChunkReal(rep', m)
<1>1. /\ m.from \in Replica /\ m.to \in Replica /\ m.decided \in Watermark
      /\ m.first \in Nat
  BY SlotsAreNumbers DEF LearnReplyMsg
<1>2. HeaderReal(rep', m)
  BY <1>1, HeaderStaysReal DEF ChunkReal
<1>3. /\ rep[m.to].contig \in Nat /\ rep'[m.to].contig \in Nat
      /\ rep[m.to].contig <= rep'[m.to].contig
  BY <1>1, InvFacts, StateTyped DEF Onward, AtRest, Sound, Advances
<1>4. m.first <= rep'[m.to].contig + 1
  BY <1>1, <1>3 DEF ChunkReal
<1>. QED  BY <1>2, <1>4 DEF ChunkReal

\* So it is enough to look at what an action adds.
NewRecordsReal ==
  \A m \in records' : m \in records \/ (m \in RecordMsg /\ HeaderReal(rep', m))
NewPingsReal ==
  \A m \in pings' : m \in pings \/ (m \in PingMsg /\ HeaderReal(rep', m))
NewDecidesReal ==
  \A m \in decides' :
    m \in decides \/ (m \in DecideMsg /\ HeaderReal(rep', m) /\ m.value = Chosen[m.slot])
NewLearnsReal ==
  \A m \in learns' :
    \/ m \in learns
    \/ m \in LearnMsg /\ HeaderReal(rep', m) /\ m.fromSlot <= rep'[m.from].contig + 1
NewRepliesReal ==
  \A m \in learnReplies' : m \in learnReplies \/ (m \in LearnReplyMsg /\ ChunkReal(rep', m))
NewChunksReal ==
  /\ chunk' \in [Replica -> LearnReplyMsg]
  /\ \A j \in Replica : \/ chunk'[j] = chunk[j] \/ chunk'[j].values = <<>>
                        \/ chunk'[j].to = j /\ ChunkReal(rep', chunk'[j])

LEMMA OnlyNewMessages ==
  ASSUME Inv, Onward, rep' \in [Replica -> ReplicaState], up' \subseteq Replica,
         NewRecordsReal, NewPingsReal, NewDecidesReal, NewLearnsReal, NewRepliesReal,
         NewChunksReal
  PROVE  Inv'
<1>1. TypeOK'
  <2>1. records' \subseteq RecordMsg /\ pings' \subseteq PingMsg /\ decides' \subseteq DecideMsg
    BY InvFacts DEF TypeOK, NewRecordsReal, NewPingsReal, NewDecidesReal
  <2>2. learns' \subseteq LearnMsg /\ learnReplies' \subseteq LearnReplyMsg
    BY InvFacts DEF TypeOK, NewLearnsReal, NewRepliesReal
  <2>. QED  BY <2>1, <2>2 DEF TypeOK, NewChunksReal
<1>2. MessagesReal'
  <2>1. ASSUME NEW m \in records' \cup pings' PROVE HeaderReal(rep', m)
    <3>1. CASE m \in records \cup pings
      <4>1. m.from \in Replica /\ m.decided \in Watermark /\ HeaderReal(rep, m)
        BY <3>1, InvFacts DEF TypeOK, MessagesReal, RecordMsg, PingMsg
      <4>. QED  BY <4>1, HeaderStaysReal
    <3>. QED  BY <3>1 DEF NewRecordsReal, NewPingsReal
  <2>2. ASSUME NEW m \in decides' PROVE HeaderReal(rep', m) /\ m.value = Chosen[m.slot]
    <3>1. CASE m \in decides
      <4>1. m.from \in Replica /\ m.decided \in Watermark /\ HeaderReal(rep, m)
            /\ m.value = Chosen[m.slot]
        BY <3>1, InvFacts DEF TypeOK, MessagesReal, DecideMsg
      <4>. QED  BY <4>1, HeaderStaysReal
    <3>. QED  BY <3>1 DEF NewDecidesReal
  <2>3. ASSUME NEW m \in learns'
        PROVE  HeaderReal(rep', m) /\ m.fromSlot <= rep'[m.from].contig + 1
    <3>1. CASE m \in learns
      <4>1. m.from \in Replica /\ m.decided \in Watermark /\ HeaderReal(rep, m)
            /\ m.fromSlot <= rep[m.from].contig + 1 /\ m.fromSlot \in Nat
        BY <3>1, InvFacts DEF TypeOK, MessagesReal, LearnMsg
      <4>2. /\ rep[m.from].contig \in Nat /\ rep'[m.from].contig \in Nat
            /\ rep[m.from].contig <= rep'[m.from].contig
        BY <4>1, InvFacts, StateTyped DEF Onward, AtRest, Sound, Advances
      <4>. QED  BY <4>1, <4>2, HeaderStaysReal
    <3>. QED  BY <3>1 DEF NewLearnsReal
  <2>4. ASSUME NEW m \in learnReplies' PROVE ChunkReal(rep', m)
    <3>1. CASE m \in learnReplies
      <4>1. m \in LearnReplyMsg /\ ChunkReal(rep, m)
        BY <3>1, InvFacts DEF TypeOK, MessagesReal
      <4>. QED  BY <4>1, ChunkStaysReal
    <3>. QED  BY <3>1 DEF NewRepliesReal
  <2>. QED  BY <2>1, <2>2, <2>3, <2>4 DEF MessagesReal
<1>3. ChunksReal'
  <2>1. ASSUME NEW j \in Replica, chunk'[j].values # <<>>
        PROVE  chunk'[j].to = j /\ ChunkReal(rep', chunk'[j])
    <3>1. CASE chunk'[j] = chunk[j]
      <4>1. chunk[j] \in LearnReplyMsg /\ chunk[j].to = j /\ ChunkReal(rep, chunk[j])
        BY <2>1, <3>1, InvFacts DEF TypeOK, ChunksReal, Idle
      <4>. QED  BY <3>1, <4>1, ChunkStaysReal
    <3>. QED  BY <2>1, <3>1 DEF NewChunksReal
  <2>. QED  BY <2>1 DEF ChunksReal, Idle
<1>. QED  BY <1>1, <1>2, <1>3 DEF Inv, Onward

LEMMA MayHear ==
  ASSUME Inv, NEW i \in Replica, NEW j \in Replica, NEW w \in Watermark, w <= rep[j].contig
  PROVE  LET q == Heard(rep[i], j, w)
         IN  MayMoveTo(i, q) /\ q.contig = rep[i].contig
<1> DEFINE q == Heard(rep[i], j, w)
<1>1. /\ AtRest(i, rep[i]) /\ Sound(rep[i]) /\ rep[i] \in ReplicaState /\ w \in Nat
      /\ rep[i].contig \in Nat /\ rep[i].acked[i] = rep[i].contig
  BY InvFacts, StateTyped, SlotsAreNumbers DEF AtRest
<1>2. /\ Touches(rep[i], q) /\ q.contig = rep[i].contig
      /\ \A k \in Replica :
           q.acked[k] = IF k = j /\ rep[i].acked[k] < w THEN w ELSE rep[i].acked[k]
  BY <1>1, HeardTouches
<1>. HIDE DEF q
<1>3. q.acked[i] = rep[i].acked[i]
  BY <1>1, <1>2
<1>4. AtRest(i, q) /\ Advances(rep[i], q)
  BY <1>1, <1>2, <1>3, TouchedSound
<1>5. \A k \in Replica \ {i} : q.acked[k] <= rep[k].contig
  BY <1>2, InvFacts DEF WatermarksAreReal
<1>. QED  BY <1>2, <1>4, <1>5 DEF MayMoveTo, q

LEMMA MayStay ==
  ASSUME Inv, NEW i \in Replica
  PROVE  MayMoveTo(i, rep[i])
BY InvFacts, StateTyped DEF MayMoveTo, Advances, WatermarksAreReal

LEMMA MayTouch ==
  ASSUME Inv, NEW i \in Replica, NEW r, MayMoveTo(i, r), NEW q, Touches(r, q), q.acked = r.acked
  PROVE  MayMoveTo(i, q) /\ q.contig = r.contig
<1>1. /\ AtRest(i, r) /\ Sound(r) /\ r \in ReplicaState /\ rep[i] \in ReplicaState
      /\ q \in ReplicaState
  BY InvFacts DEF MayMoveTo, AtRest, Sound, Touches
<1>2. AtRest(i, q) /\ Advances(r, q) /\ q.contig = r.contig
  BY <1>1, TouchedSound
<1>3. Advances(rep[i], q)
  BY <1>1, <1>2, AdvancesTransitive DEF MayMoveTo
<1>. QED  BY <1>2, <1>3 DEF MayMoveTo

LEMMA MayDecide ==
  ASSUME Inv, NEW i \in Replica, NEW r, MayMoveTo(i, r), NEW s \in Slot, NEW b \in BOOLEAN,
         NEW q \in DecideSlot(i, r, s, Chosen[s], b)
  PROVE  /\ MayMoveTo(i, q) /\ r.contig <= q.contig
         /\ ~b /\ s <= r.contig + 1 => s <= q.contig
<1>1. /\ AtRest(i, r) /\ r \in ReplicaState /\ rep[i] \in ReplicaState
  BY InvFacts DEF MayMoveTo, AtRest, Sound
<1>2. MovesOn(i, r, q) /\ (~b /\ s <= r.contig + 1 => s <= q.contig)
  BY <1>1, DecideSlotAtRest
<1>3. q \in ReplicaState
  BY <1>2 DEF MovesOn, AtRest, Sound
<1>4. Advances(rep[i], q)
  BY <1>1, <1>2, <1>3, AdvancesTransitive DEF MayMoveTo, MovesOn
<1>. QED  BY <1>2, <1>4 DEF MayMoveTo, MovesOn, Advances

LEMMA MayCollect ==
  ASSUME Inv, NEW i \in Replica, NEW r, MayMoveTo(i, r), NEW q \in Collected(r)
  PROVE  MayMoveTo(i, q) /\ q.contig = r.contig
<1>1. /\ AtRest(i, r) /\ Sound(r) /\ r.acked[i] = r.contig /\ r \in ReplicaState
      /\ rep[i] \in ReplicaState
  BY InvFacts DEF MayMoveTo, AtRest, Sound
<1>2. PICK f \in FloorsAfter(r) : q = Freed(r, f)
  BY DEF Collected
<1>3. /\ Sound(q) /\ WithinBudget(q) /\ Advances(r, q)
      /\ q.contig = r.contig /\ q.acked = r.acked
      /\ DOMAIN q.retained \subseteq DOMAIN r.retained
  BY <1>1, <1>2, FreedSound
<1>4. AtRest(i, q) /\ q \in ReplicaState
  BY <1>1, <1>3 DEF AtRest, Sound
<1>5. Advances(rep[i], q)
  BY <1>1, <1>3, <1>4, AdvancesTransitive DEF MayMoveTo
<1>. QED  BY <1>3, <1>4, <1>5 DEF MayMoveTo

\* What a replica sends under its own watermark.
LEMMA MoveReal ==
  ASSUME Inv, NEW i \in Replica, NEW q, MayMoveTo(i, q), Move(i, q)
  PROVE  /\ Onward /\ rep'[i] = q /\ rep' \in [Replica -> ReplicaState]
         /\ NewRecordsReal
<1>1. Onward /\ rep'[i] = q /\ rep' \in [Replica -> ReplicaState]
  BY OneMovesOn DEF Move
<1>2. q \in ReplicaState /\ q.contig \in Watermark /\ q.contig \in Nat
  BY StateTyped DEF MayMoveTo, AtRest, Sound
<1>3. ASSUME NEW s \in RunningSlots(q)
      PROVE  LET m == [from |-> i, slot |-> s, decided |-> q.contig]
             IN  m \in RecordMsg /\ HeaderReal(rep', m)
  <2>1. s \in Slot
    BY <1>2, StateTyped DEF RunningSlots
  <2>. QED  BY <1>1, <1>2, <2>1 DEF RecordMsg, HeaderReal
<1>. QED  BY <1>1, <1>3 DEF Move, NewRecordsReal

LEMMA LearnRequestReal ==
  ASSUME NEW i \in Replica, NEW r \in ReplicaState, NEW j \in Replica, rep'[i].contig = r.contig
  PROVE  LET m == LearnRequest(i, r, j)
         IN  m \in LearnMsg /\ HeaderReal(rep', m) /\ m.fromSlot <= rep'[m.from].contig + 1
<1>1. r.contig \in Watermark /\ r.contig \in Nat
  BY StateTyped
<1>. QED  BY <1>1 DEF LearnRequest, LearnMsg, HeaderReal

LEMMA EpilogueReal ==
  ASSUME Inv, NEW i \in Replica, NEW r, MayMoveTo(i, r), NEW j \in Replica, NEW w,
         Epilogue(i, r, j, w)
  PROVE  /\ Onward /\ rep' \in [Replica -> ReplicaState] /\ rep'[i].contig = r.contig
         /\ NewRecordsReal /\ NewLearnsReal
<1>1. r \in ReplicaState
  BY DEF MayMoveTo, AtRest, Sound
<1>2. CASE /\ \E q \in Collected(r) : Move(i, q)
           /\ UNCHANGED learns
  <2>1. PICK q \in Collected(r) : Move(i, q)
    BY <1>2
  <2>2. MayMoveTo(i, q) /\ q.contig = r.contig
    BY <2>1, MayCollect
  <2>. QED  BY <1>2, <2>1, <2>2, MoveReal DEF NewLearnsReal
<1>3. CASE /\ \E q \in Collected([r EXCEPT !.learning = TRUE]) : Move(i, q)
           /\ learns' = learns \cup {LearnRequest(i, r, j)}
  <2> DEFINE p == [r EXCEPT !.learning = TRUE]
  <2>1. PICK q \in Collected(p) : Move(i, q)
    BY <1>3
  <2>2. Touches(r, p) /\ p.acked = r.acked /\ p.contig = r.contig
    BY <1>1, LearningTouches
  <2>. HIDE DEF p
  <2>3. MayMoveTo(i, p)
    BY <2>2, MayTouch
  <2>4. MayMoveTo(i, q) /\ q.contig = r.contig
    BY <2>1, <2>2, <2>3, MayCollect
  <2>5. /\ Onward /\ rep' \in [Replica -> ReplicaState] /\ rep'[i].contig = r.contig
        /\ NewRecordsReal
    BY <2>1, <2>4, MoveReal
  <2>6. NewLearnsReal
    BY <1>1, <1>3, <2>5, LearnRequestReal DEF NewLearnsReal
  <2>. QED  BY <2>5, <2>6
<1>. QED  BY <1>2, <1>3 DEF Epilogue

-----------------------------------------------------------------------------
(* The actions. *)

LEMMA NothingNew ==
  ASSUME Inv
  PROVE  /\ records' = records => NewRecordsReal
         /\ pings' = pings => NewPingsReal
         /\ decides' = decides => NewDecidesReal
         /\ learns' = learns => NewLearnsReal
         /\ learnReplies' = learnReplies => NewRepliesReal
         /\ chunk' = chunk => NewChunksReal
         /\ up \subseteq Replica
BY InvFacts DEF TypeOK, NewRecordsReal, NewPingsReal, NewDecidesReal, NewLearnsReal,
                NewRepliesReal, NewChunksReal

LEMMA OnPingKeepsInv ==
  ASSUME Inv, NEW i \in Replica, OnPing(i)
  PROVE  Inv' /\ Onward
<1>1. PICK m \in pings :
        Epilogue(i, Heard(rep[i], m.from, m.decided), m.from, m.decided)
  BY DEF OnPing
<1>2. m.from \in Replica /\ m.decided \in Watermark /\ m.decided <= rep[m.from].contig
  BY InvFacts DEF TypeOK, PingMsg, MessagesReal, HeaderReal
<1>3. MayMoveTo(i, Heard(rep[i], m.from, m.decided))
  BY <1>2, MayHear
<1>4. /\ Onward /\ rep' \in [Replica -> ReplicaState]
      /\ NewRecordsReal /\ NewLearnsReal
  BY <1>1, <1>2, <1>3, EpilogueReal
<1>5. UNCHANGED <<chunk, up, decides, learnReplies, pings>>
  BY DEF OnPing
<1>. QED  BY <1>4, <1>5, NothingNew, OnlyNewMessages

LEMMA OnRecordKeepsInv ==
  ASSUME Inv, NEW i \in Replica, OnRecord(i)
  PROVE  Inv' /\ Onward
<1>1. PICK m \in records :
       LET r == Heard(rep[i], m.from, m.decided)
       IN  /\ IF ~Ignores(r, m.slot) /\ IsDecided(r, m.slot)
                THEN decides' = decides \cup
                       {[from |-> i, to |-> m.from, slot |-> m.slot,
                         value |-> r.retained[m.slot], decided |-> r.contig]}
                ELSE UNCHANGED decides
           /\ IF ~Ignores(r, m.slot) /\ ~IsDecided(r, m.slot)
                THEN Epilogue(i, TookPart(r, m.slot), m.from, m.decided)
                ELSE Epilogue(i, r, m.from, m.decided)
  BY DEF OnRecord
<1> DEFINE r == Heard(rep[i], m.from, m.decided)
<1>2. /\ m.from \in Replica /\ m.decided \in Watermark /\ m.slot \in Slot
      /\ m.decided <= rep[m.from].contig
  BY InvFacts DEF TypeOK, RecordMsg, MessagesReal, HeaderReal
<1>3. MayMoveTo(i, r)
  BY <1>2, MayHear
<1>4. /\ ~Ignores(r, m.slot) /\ IsDecided(r, m.slot)
           => decides' = decides \cup
                {[from |-> i, to |-> m.from, slot |-> m.slot,
                  value |-> r.retained[m.slot], decided |-> r.contig]}
      /\ ~(~Ignores(r, m.slot) /\ IsDecided(r, m.slot)) => decides' = decides
      /\ ~Ignores(r, m.slot) /\ ~IsDecided(r, m.slot)
           => Epilogue(i, TookPart(r, m.slot), m.from, m.decided)
      /\ ~(~Ignores(r, m.slot) /\ ~IsDecided(r, m.slot))
           => Epilogue(i, r, m.from, m.decided)
  BY <1>1
<1>. HIDE DEF r
<1>5. Sound(r) /\ r \in ReplicaState /\ r.contig \in Watermark /\ r.contig \in Nat
  BY <1>3, StateTyped DEF MayMoveTo, AtRest, Sound
<1>6. /\ Onward /\ rep' \in [Replica -> ReplicaState] /\ rep'[i].contig = r.contig
      /\ NewRecordsReal /\ NewLearnsReal
  <2>1. CASE ~Ignores(r, m.slot) /\ ~IsDecided(r, m.slot)
    <3>1. MayMoveTo(i, TookPart(r, m.slot)) /\ TookPart(r, m.slot).contig = r.contig
      BY <1>2, <1>3, <1>5, <2>1, TookPartTouches, MayTouch
    <3>. QED  BY <1>2, <1>4, <2>1, <3>1, EpilogueReal
  <2>2. CASE ~(~Ignores(r, m.slot) /\ ~IsDecided(r, m.slot))
    BY <1>2, <1>3, <1>4, <2>2, EpilogueReal
  <2>. QED  BY <2>1, <2>2
<1>7. NewDecidesReal
  <2>1. CASE ~Ignores(r, m.slot) /\ IsDecided(r, m.slot)
    <3> DEFINE d == [from |-> i, to |-> m.from, slot |-> m.slot,
                     value |-> r.retained[m.slot], decided |-> r.contig]
    <3>1. r.retained[m.slot] = Chosen[m.slot] /\ Chosen[m.slot] \in Value
      BY <1>2, <1>5, <2>1, ChosenAssumption DEF Sound
    <3>2. d \in DecideMsg /\ HeaderReal(rep', d) /\ d.value = Chosen[d.slot]
      BY <1>2, <1>5, <1>6, <3>1 DEF DecideMsg, HeaderReal
    <3>3. decides' = decides \cup {d}
      BY <1>4, <2>1
    <3>. QED  BY <3>2, <3>3 DEF NewDecidesReal
  <2>2. CASE ~(~Ignores(r, m.slot) /\ IsDecided(r, m.slot))
    BY <1>4, <2>2 DEF NewDecidesReal
  <2>. QED  BY <2>1, <2>2
<1>8. UNCHANGED <<chunk, up, learnReplies, pings>>
  BY DEF OnRecord
<1>. QED  BY <1>6, <1>7, <1>8, NothingNew, OnlyNewMessages

LEMMA OnDecideKeepsInv ==
  ASSUME Inv, NEW i \in Replica, OnDecide(i)
  PROVE  Inv' /\ Onward
<1>1. PICK m \in decides :
        \E q \in DecideSlot(i, Heard(rep[i], m.from, m.decided), m.slot, m.value, FALSE) :
          Epilogue(i, q, m.from, m.decided)
  BY DEF OnDecide
<1> DEFINE r == Heard(rep[i], m.from, m.decided)
<1>2. /\ m.from \in Replica /\ m.decided \in Watermark /\ m.slot \in Slot
      /\ m.decided <= rep[m.from].contig /\ m.value = Chosen[m.slot]
  BY InvFacts DEF TypeOK, DecideMsg, MessagesReal, HeaderReal
<1>3. MayMoveTo(i, r)
  BY <1>2, MayHear
<1>4. PICK q \in DecideSlot(i, r, m.slot, Chosen[m.slot], FALSE) :
        Epilogue(i, q, m.from, m.decided)
  BY <1>1, <1>2
<1>. HIDE DEF r
<1>5. MayMoveTo(i, q)
  BY <1>2, <1>3, <1>4, MayDecide
<1>6. /\ Onward /\ rep' \in [Replica -> ReplicaState]
      /\ NewRecordsReal /\ NewLearnsReal
  BY <1>2, <1>4, <1>5, EpilogueReal
<1>7. UNCHANGED <<chunk, up, decides, learnReplies, pings>>
  BY DEF OnDecide
<1>. QED  BY <1>6, <1>7, NothingNew, OnlyNewMessages

\* The chunk of a LearnReply ends at a slot that exists: the values from the
\* first one on, up to the one that fills it.
LEMMA LastOfChunkExists ==
  ASSUME NEW r \in ReplicaState, NEW from \in Nat, from <= r.contig
  PROVE  LastOfChunk(r, from) \in from..r.contig
<1>1. r.contig \in Nat /\ ChunkBytes \in Nat /\ ChunkBytes > 0
  BY StateTyped, NetworkAssumption
<1> DEFINE Full(l) == l = r.contig \/ SizeOf(r, from..l) >= ChunkBytes
           B == {l \in from..r.contig : Full(l)}
<1>2. B \subseteq Nat /\ B # {}
  <2>1. r.contig \in B
    BY <1>1
  <2>. QED  BY <1>1, <2>1
<1>3. PICK l \in B : \A k \in B : l <= k
  <2>. HIDE DEF B
  <2>. QED  BY <1>2, SmallestNumber
<1>4. SizeOf(r, from..(l - 1)) < ChunkBytes
  <2>1. SizeOf(r, from..(l - 1)) \in Nat
    BY SizesTyped
  <2>2. CASE l = from
    <3>1. from..(l - 1) = {}
      BY <2>2
    <3>. QED  BY <1>1, <3>1, SizeOfNothing
  <2>3. CASE l # from
    <3>1. l - 1 \in from..r.contig /\ l - 1 < l
      BY <1>1, <1>3, <2>3
    <3>2. l - 1 \notin B
      BY <1>1, <1>3, <3>1
    <3>. QED  BY <1>1, <2>1, <3>1, <3>2
  <2>. QED  BY <2>2, <2>3
<1>. QED  BY <1>3, <1>4 DEF LastOfChunk

LEMMA OnLearnKeepsInv ==
  ASSUME Inv, NEW i \in Replica, OnLearn(i)
  PROVE  Inv' /\ Onward
<1>1. PICK m \in learns :
       LET r == Heard(rep[i], m.from, m.decided)
       IN  /\ IF m.fromSlot <= r.gcFloor \/ m.fromSlot > r.contig
                THEN UNCHANGED learnReplies
                ELSE learnReplies' = learnReplies \cup
                       {[from |-> i, to |-> m.from, first |-> m.fromSlot,
                         values |-> [k \in 1..(LastOfChunk(r, m.fromSlot) - m.fromSlot + 1) |->
                                       r.retained[m.fromSlot + k - 1]],
                         decided |-> r.contig]}
           /\ Epilogue(i, r, m.from, m.decided)
  BY DEF OnLearn
<1> DEFINE r == Heard(rep[i], m.from, m.decided)
           last == LastOfChunk(r, m.fromSlot)
           vals == [k \in 1..(last - m.fromSlot + 1) |-> r.retained[m.fromSlot + k - 1]]
           d == [from |-> i, to |-> m.from, first |-> m.fromSlot, values |-> vals,
                 decided |-> r.contig]
<1>2. /\ m.from \in Replica /\ m.decided \in Watermark /\ m.fromSlot \in Nat
      /\ m.decided <= rep[m.from].contig /\ m.fromSlot <= rep[m.from].contig + 1
  BY InvFacts DEF TypeOK, LearnMsg, MessagesReal, HeaderReal
<1>3. MayMoveTo(i, r)
  BY <1>2, MayHear
<1>4. /\ m.fromSlot <= r.gcFloor \/ m.fromSlot > r.contig => learnReplies' = learnReplies
      /\ ~(m.fromSlot <= r.gcFloor \/ m.fromSlot > r.contig)
           => learnReplies' = learnReplies \cup {d}
      /\ Epilogue(i, r, m.from, m.decided)
  BY <1>1
<1>. HIDE DEF r
<1>5. /\ Sound(r) /\ r \in ReplicaState /\ r.contig \in Watermark /\ r.contig \in Nat
      /\ r.gcFloor \in Nat
  BY <1>3, StateTyped DEF MayMoveTo, AtRest, Sound
<1>6. /\ Onward /\ rep' \in [Replica -> ReplicaState] /\ rep'[i].contig = r.contig
      /\ NewRecordsReal /\ NewLearnsReal
  BY <1>2, <1>3, <1>4, EpilogueReal
<1>7. NewRepliesReal
  <2>1. CASE m.fromSlot <= r.gcFloor \/ m.fromSlot > r.contig
    BY <1>4, <2>1 DEF NewRepliesReal
  <2>2. CASE ~(m.fromSlot <= r.gcFloor \/ m.fromSlot > r.contig)
    <3>1. r.gcFloor < m.fromSlot /\ m.fromSlot <= r.contig
      BY <1>2, <1>5, <2>2
    <3>2. last \in m.fromSlot..r.contig
      BY <1>2, <1>5, <3>1, LastOfChunkExists
    <3>. HIDE DEF last
    <3>3. ASSUME NEW k \in 1..(last - m.fromSlot + 1)
          PROVE  /\ r.retained[m.fromSlot + k - 1] = Chosen[m.fromSlot + k - 1]
                 /\ Chosen[m.fromSlot + k - 1] \in Value
      <4>1. m.fromSlot + k - 1 \in (r.gcFloor + 1)..r.contig
        BY <1>2, <1>5, <3>1, <3>2
      <4>2. m.fromSlot + k - 1 \in DOMAIN r.retained
        BY <1>5, <4>1, SoundFacts
      <4>. QED  BY <1>5, <4>2, StateTyped, ChosenAssumption DEF Sound
    <3>4. vals \in Seq(Value) /\ Len(vals) = last - m.fromSlot + 1 /\ vals # <<>>
      <4>1. last - m.fromSlot + 1 \in Nat /\ last - m.fromSlot + 1 >= 1
        BY <1>2, <1>5, <3>2
      <4>2. vals \in [1..(last - m.fromSlot + 1) -> Value]
        BY <3>3
      <4>. HIDE DEF vals
      <4>3. vals \in Seq(Value) /\ Len(vals) = last - m.fromSlot + 1
        BY <4>1, <4>2, SeqDef
      <4>. QED  BY <4>1, <4>3
    <3>5. \A k \in 1..Len(vals) : vals[k] = Chosen[m.fromSlot + k - 1]
      BY <3>3, <3>4
    <3>. HIDE DEF vals
    <3>6. m.fromSlot \in Slot /\ m.fromSlot + Len(vals) - 1 <= r.contig
      <4>1. r.contig <= MaxSlot
        BY <1>5, SlotsAreNumbers
      <4>2. m.fromSlot + Len(vals) - 1 = last
        BY <1>2, <1>5, <3>2, <3>4
      <4>. QED  BY <1>2, <1>5, <3>1, <3>2, <4>1, <4>2, SlotsAreNumbers
    <3>7. m.fromSlot <= rep'[m.from].contig + 1
      <4>1. /\ rep[m.from].contig \in Nat /\ rep'[m.from].contig \in Nat
            /\ rep[m.from].contig <= rep'[m.from].contig
        BY <1>2, <1>6, InvFacts, StateTyped DEF Onward, Advances
      <4>. QED  BY <1>2, <4>1
    <3>8. d \in LearnReplyMsg
      BY <1>2, <1>5, <3>4, <3>6 DEF LearnReplyMsg
    <3>9. ChunkReal(rep', d)
      BY <1>5, <1>6, <3>4, <3>5, <3>6, <3>7 DEF ChunkReal, HeaderReal
    <3>. HIDE DEF d
    <3>. QED  BY <1>4, <2>2, <3>8, <3>9 DEF NewRepliesReal
  <2>. QED  BY <2>1, <2>2
<1>8. UNCHANGED <<chunk, up, decides, pings>>
  BY DEF OnLearn
<1>. QED  BY <1>6, <1>7, <1>8, NothingNew, OnlyNewMessages

\* on_learn_reply: each value goes into its slot, which is never refused, and
\* what is left of the chunk begins at the frontier or before it.
LEMMA InstallReal ==
  ASSUME Inv, NEW i \in Replica, NEW r, MayMoveTo(i, r), NEW m \in LearnReplyMsg, m.to = i,
         ChunkReal(rep, m), Install(i, r, m)
  PROVE  /\ Onward /\ rep' \in [Replica -> ReplicaState]
         /\ NewRecordsReal /\ NewLearnsReal /\ NewChunksReal
<1>1. /\ m.first \in Slot /\ m.first \in Nat /\ m.values \in Seq(Value) /\ m.values # <<>>
      /\ m.from \in Replica /\ m.decided \in Watermark /\ m.decided \in Nat
      /\ m.decided <= MaxSlot
  BY SlotsAreNumbers DEF LearnReplyMsg, ChunkReal
<1>2. /\ Len(m.values) \in Nat /\ Len(m.values) >= 1
      /\ Head(m.values) = m.values[1] /\ Tail(m.values) \in Seq(Value)
      /\ Len(Tail(m.values)) = Len(m.values) - 1
      /\ \A k \in 1..Len(Tail(m.values)) : Tail(m.values)[k] = m.values[k + 1]
  BY <1>1
<1>3. Head(m.values) = Chosen[m.first]
  <2>1. 1 \in 1..Len(m.values) /\ m.first + 1 - 1 = m.first
    BY <1>1, <1>2
  <2>. QED  BY <1>2, <2>1 DEF ChunkReal
<1>4. PICK q \in DecideSlot(i, r, m.first, Chosen[m.first], FALSE) :
        IF Len(m.values) = 1
          THEN /\ chunk' = [chunk EXCEPT ![i] = NoChunk(i)]
               /\ Epilogue(i, q, m.from, m.decided)
          ELSE /\ chunk' = [chunk EXCEPT ![i] = Rest(m, q)]
               /\ Move(i, q)
               /\ UNCHANGED learns
  BY <1>3 DEF Install
<1>5. /\ rep[i].contig \in Nat /\ r.contig \in Nat /\ rep[i].contig <= r.contig
  BY InvFacts, StateTyped DEF MayMoveTo, AtRest, Sound, Advances
<1>6. m.first <= r.contig + 1
  BY <1>1, <1>5 DEF ChunkReal
<1>7. MayMoveTo(i, q) /\ m.first <= q.contig /\ q.contig \in Nat
  <2>1. MayMoveTo(i, q) /\ m.first <= q.contig
    BY <1>1, <1>4, <1>6, MayDecide
  <2>. QED  BY <2>1, StateTyped DEF MayMoveTo, AtRest, Sound
<1>8. chunk \in [Replica -> LearnReplyMsg]
  BY InvFacts DEF TypeOK
<1>9. CASE Len(m.values) = 1
  <2>1. chunk' = [chunk EXCEPT ![i] = NoChunk(i)] /\ Epilogue(i, q, m.from, m.decided)
    BY <1>4, <1>9
  <2>2. NoChunk(i) \in LearnReplyMsg /\ NoChunk(i).values = <<>>
    BY SlotsAreNumbers DEF NoChunk, LearnReplyMsg
  <2>3. NewChunksReal
    BY <1>8, <2>1, <2>2 DEF NewChunksReal
  <2>. QED  BY <1>1, <1>7, <2>1, <2>3, EpilogueReal
<1>10. CASE Len(m.values) # 1
  <2> DEFINE n == Rest(m, q)
  <2>1. chunk' = [chunk EXCEPT ![i] = n] /\ Move(i, q) /\ UNCHANGED learns
    BY <1>4, <1>10
  <2>2. /\ Onward /\ rep'[i] = q /\ rep' \in [Replica -> ReplicaState]
        /\ NewRecordsReal /\ NewLearnsReal
    BY <1>7, <2>1, MoveReal DEF NewLearnsReal
  <2>3. /\ n.from = m.from /\ n.to = i /\ n.first = m.first + 1 /\ n.decided = m.decided
        /\ n.values = Tail(m.values)
    BY DEF Rest, LearnReplyMsg
  <2>4. m.first + 1 \in Slot
    <3>1. m.first + Len(m.values) - 1 <= m.decided
      BY DEF ChunkReal
    <3>2. MaxSlot \in Nat /\ m.first >= 1
      BY <1>1, SlotsAreNumbers
    <3> DEFINE l == Len(m.values)
               f == m.first
               w == m.decided
    <3>3. f + l - 1 <= w /\ l \in Nat /\ f \in Nat /\ w \in Nat /\ w <= MaxSlot
      BY <1>1, <1>2, <3>1
    <3>4. l >= 1 /\ l # 1
      BY <1>2, <1>10
    <3>. HIDE DEF l, f, w
    <3>5. f + 1 <= MaxSlot
      BY <3>2, <3>3, <3>4
    <3>. QED  BY <1>1, <3>2, <3>5, SlotsAreNumbers DEF f
  <2>5. n \in LearnReplyMsg
    BY <1>2, <2>4 DEF Rest, LearnReplyMsg
  <2>. HIDE DEF n
  <2>6. HeaderReal(rep', n)
    <3>1. HeaderReal(rep', m)
      BY <1>1, <2>2, HeaderStaysReal DEF ChunkReal
    <3>. QED  BY <2>3, <3>1 DEF HeaderReal
  <2>7. \A k \in 1..Len(n.values) : n.values[k] = Chosen[n.first + k - 1]
    <3>1. ASSUME NEW k \in 1..Len(Tail(m.values))
          PROVE  Tail(m.values)[k] = Chosen[m.first + 1 + k - 1]
      <4>1. k + 1 \in 1..Len(m.values) /\ m.first + (k + 1) - 1 = m.first + 1 + k - 1
        BY <1>1, <1>2
      <4>2. m.values[k + 1] = Chosen[m.first + (k + 1) - 1]
        BY <4>1 DEF ChunkReal
      <4>. QED  BY <1>2, <4>1, <4>2
    <3>. QED  BY <2>3, <3>1
  <2>8. /\ n.values # <<>> /\ n.first + Len(n.values) - 1 <= n.decided
        /\ n.first <= rep'[n.to].contig + 1
    <3>1. m.first + Len(m.values) - 1 <= m.decided
      BY DEF ChunkReal
    <3>2. Len(Tail(m.values)) # 0
      BY <1>2, <1>10
    <3>3. Tail(m.values) # <<>>
      <4>1. \A v : Len(v) # 0 => v # <<>>
        OBVIOUS
      <4>. QED  BY <3>2, <4>1, Zenon
    <3>4. m.first + 1 + (Len(m.values) - 1) - 1 <= m.decided
      BY <1>1, <1>2, <3>1
    <3>. QED  BY <1>1, <1>2, <1>7, <2>2, <2>3, <3>3, <3>4
  <2>9. ChunkReal(rep', n)
    BY <2>6, <2>7, <2>8 DEF ChunkReal
  <2>10. NewChunksReal
    BY <1>8, <2>1, <2>3, <2>5, <2>9 DEF NewChunksReal
  <2>. QED  BY <2>2, <2>10
<1>. QED  BY <1>9, <1>10

LEMMA OnLearnReplyKeepsInv ==
  ASSUME Inv, NEW i \in Replica, OnLearnReply(i)
  PROVE  Inv' /\ Onward
<1>1. PICK m \in learnReplies :
        /\ m.to = i
        /\ Install(i, [Heard(rep[i], m.from, m.decided) EXCEPT !.learning = FALSE], m)
  BY DEF OnLearnReply
<1> DEFINE r == Heard(rep[i], m.from, m.decided)
           q == [r EXCEPT !.learning = FALSE]
<1>2. m \in LearnReplyMsg /\ ChunkReal(rep, m)
  BY InvFacts DEF TypeOK, MessagesReal
<1>3. m.from \in Replica /\ m.decided \in Watermark /\ m.decided <= rep[m.from].contig
  BY <1>2 DEF LearnReplyMsg, ChunkReal, HeaderReal
<1>4. MayMoveTo(i, r)
  BY <1>3, MayHear
<1>. HIDE DEF r
<1>5. Touches(r, q) /\ q.acked = r.acked
  BY <1>4, LearningTouches DEF MayMoveTo, AtRest, Sound
<1>6. Install(i, q, m)
  BY <1>1 DEF r
<1>. HIDE DEF q
<1>7. MayMoveTo(i, q)
  BY <1>4, <1>5, MayTouch
<1>8. /\ Onward /\ rep' \in [Replica -> ReplicaState]
      /\ NewRecordsReal /\ NewLearnsReal /\ NewChunksReal
  BY <1>1, <1>2, <1>6, <1>7, InstallReal
<1>9. UNCHANGED <<up, decides, learnReplies, pings>>
  BY DEF OnLearnReply
<1>. QED  BY <1>8, <1>9, NothingNew, OnlyNewMessages

LEMMA InstallLearnedKeepsInv ==
  ASSUME Inv, NEW i \in Replica, InstallLearned(i)
  PROVE  Inv' /\ Onward
<1>1. chunk[i] \in LearnReplyMsg /\ chunk[i].to = i /\ ChunkReal(rep, chunk[i])
  BY InvFacts DEF InstallLearned, TypeOK, ChunksReal
<1>2. /\ Onward /\ rep' \in [Replica -> ReplicaState]
      /\ NewRecordsReal /\ NewLearnsReal /\ NewChunksReal
  BY <1>1, MayStay, InstallReal DEF InstallLearned
<1>3. UNCHANGED <<up, decides, learnReplies, pings>>
  BY DEF InstallLearned
<1>. QED  BY <1>2, <1>3, NothingNew, OnlyNewMessages

LEMMA DecideRunningKeepsInv ==
  ASSUME Inv, NEW i \in Replica, DecideRunning(i)
  PROVE  Inv' /\ Onward
<1>1. PICK s \in RunningSlots(rep[i]) :
        /\ \E q \in DecideSlot(i, rep[i], s, Chosen[s], TRUE) : Move(i, q)
        /\ decides' = decides \cup
            {[from |-> i, to |-> j, slot |-> s, value |-> Chosen[s],
              decided |-> rep[i].contig] : j \in Replica \ {i}}
  BY DEF DecideRunning
<1>2. PICK q \in DecideSlot(i, rep[i], s, Chosen[s], TRUE) : Move(i, q)
  BY <1>1
<1>3. /\ s \in Slot /\ rep[i].contig \in Watermark /\ rep[i].contig \in Nat
      /\ Chosen[s] \in Value
  BY InvFacts, StateTyped, ChosenAssumption DEF RunningSlots
<1>4. MayMoveTo(i, q) /\ rep[i].contig <= q.contig
  BY <1>2, <1>3, MayStay, MayDecide
<1>5. Onward /\ rep'[i] = q /\ rep' \in [Replica -> ReplicaState] /\ NewRecordsReal
  BY <1>2, <1>4, MoveReal
<1>6. ASSUME NEW j \in Replica \ {i}
      PROVE  LET m == [from |-> i, to |-> j, slot |-> s, value |-> Chosen[s],
                       decided |-> rep[i].contig]
             IN  m \in DecideMsg /\ HeaderReal(rep', m) /\ m.value = Chosen[m.slot]
  BY <1>3, <1>4, <1>5 DEF DecideMsg, HeaderReal
<1>7. NewDecidesReal
  BY <1>1, <1>6 DEF NewDecidesReal
<1>8. UNCHANGED <<chunk, up, learns, learnReplies, pings>>
  BY DEF DecideRunning
<1>. QED  BY <1>5, <1>7, <1>8, NothingNew, OnlyNewMessages

\* The actions that only move a replica.
LEMMA MovingKeepsInv ==
  ASSUME Inv, NEW i \in Replica, NEW q, Touches(rep[i], q), q.acked = rep[i].acked, Move(i, q),
         UNCHANGED <<chunk, up, decides, learns, learnReplies, pings>>
  PROVE  Inv' /\ Onward
<1>1. MayMoveTo(i, q)
  BY MayStay, MayTouch
<1>2. Onward /\ rep' \in [Replica -> ReplicaState] /\ NewRecordsReal
  BY <1>1, MoveReal
<1>. QED  BY <1>2, NothingNew, OnlyNewMessages

LEMMA OpenSlotsKeepsInv ==
  ASSUME Inv, NEW i \in Replica, OpenSlots(i)
  PROVE  Inv' /\ Onward
<1>1. PICK q \in Opened(i, rep[i]) : Move(i, q)
  BY DEF OpenSlots
<1>2. Touches(rep[i], q) /\ q.acked = rep[i].acked
  BY InvFacts, OpenedTouches
<1>. QED  BY <1>1, <1>2, MovingKeepsInv DEF OpenSlots

LEMMA ObserveFrontierKeepsInv ==
  ASSUME Inv, NEW i \in Replica, ObserveFrontier(i)
  PROVE  Inv' /\ Onward
<1> DEFINE s == rep[i].contig + 1
<1>1. /\ Sound(rep[i]) /\ rep[i].contig \in Nat /\ rep[i].contig < MaxSlot
      /\ rep[i].gcFloor \in Nat /\ rep[i].gcFloor <= rep[i].contig
  BY InvFacts, StateTyped DEF ObserveFrontier, Sound
<1>2. s \in Slot /\ s > rep[i].gcFloor /\ s <= rep[i].contig + AheadWindow
  BY <1>1, SlotsAreNumbers, LimitsAssumption
<1>3. Touches(rep[i], Observed(rep[i], s)) /\ Observed(rep[i], s).acked = rep[i].acked
  BY <1>1, <1>2, ObservedTouches
<1>. QED  BY <1>3, MovingKeepsInv DEF ObserveFrontier

LEMMA HedgeKeepsInv ==
  ASSUME Inv, NEW i \in Replica, Hedge(i)
  PROVE  Inv' /\ Onward
<1>1. PICK s \in DOMAIN rep[i].slots :
        /\ s > rep[i].contig /\ rep[i].slots[s] = "idle"
        /\ Move(i, [rep[i] EXCEPT !.slots = Put(@, s, "running"), !.recorded = @ \cup {s}])
  BY DEF Hedge
<1> DEFINE q == [rep[i] EXCEPT !.slots = Put(@, s, "running"), !.recorded = @ \cup {s}]
<1>2. Touches(rep[i], q) /\ q.acked = rep[i].acked
  BY <1>1, InvFacts, HedgedTouches
<1>3. Move(i, q)
  BY <1>1
<1>. HIDE DEF q
<1>. QED  BY <1>2, <1>3, MovingKeepsInv DEF Hedge

LEMMA RetransmitKeepsInv ==
  ASSUME Inv, NEW i \in Replica, Retransmit(i)
  PROVE  Inv' /\ Onward
<1>1. UNCHANGED <<rep, chunk, up, decides, learns, learnReplies, pings>>
  BY DEF Retransmit
<1>2. PICK s \in RunningSlots(rep[i]) :
        records' = records \cup {[from |-> i, slot |-> s, decided |-> rep[i].contig]}
  BY DEF Retransmit
<1>3. s \in Slot /\ rep[i].contig \in Watermark /\ rep[i].contig \in Nat
  BY InvFacts, StateTyped DEF RunningSlots
<1> DEFINE m == [from |-> i, slot |-> s, decided |-> rep[i].contig]
<1>4. m \in RecordMsg /\ HeaderReal(rep', m)
  BY <1>1, <1>3 DEF RecordMsg, HeaderReal
<1>5. NewRecordsReal
  BY <1>2, <1>4 DEF NewRecordsReal
<1>. QED  BY <1>1, <1>5, RepUnchanged, NothingNew, OnlyNewMessages

LEMMA PingTickKeepsInv ==
  ASSUME Inv, NEW i \in Replica, PingTick(i)
  PROVE  Inv' /\ Onward
<1>1. UNCHANGED <<rep, chunk, up, records, decides, learns, learnReplies>>
  BY DEF PingTick
<1> DEFINE m == [from |-> i, decided |-> rep[i].contig]
<1>2. rep[i].contig \in Watermark /\ rep[i].contig \in Nat
  BY InvFacts, StateTyped
<1>3. m \in PingMsg /\ HeaderReal(rep', m)
  BY <1>1, <1>2 DEF PingMsg, HeaderReal
<1>4. NewPingsReal
  BY <1>3 DEF PingTick, NewPingsReal
<1>. QED  BY <1>1, <1>4, RepUnchanged, NothingNew, OnlyNewMessages

LEMMA CrashKeepsInv ==
  ASSUME Inv, NEW i \in Replica, Crash(i)
  PROVE  Inv' /\ Onward
<1>1. UNCHANGED <<rep, chunk, records, decides, learns, learnReplies, pings>>
  BY DEF Crash
<1>2. up' \subseteq Replica
  BY InvFacts DEF Crash, TypeOK
<1>. QED  BY <1>1, <1>2, RepUnchanged, NothingNew, OnlyNewMessages

\* The peer that learn_tick asks exists: the count of timeouts, modulo the
\* number of candidates, is the rank of one.
LEMMA LearnTargetExists ==
  ASSUME NEW i \in Replica, NEW r \in ReplicaState, r.attempts \in Nat, PeersAhead(i, r) # {}
  PROVE  LearnTarget(i, r) \in PeersAhead(i, r)
<1> DEFINE P == PeersAhead(i, r)
           n == r.attempts % Cardinality(P)
<1>1. P \subseteq Nat /\ IsFiniteSet(P)
  <2>1. IsFiniteSet(1..N) /\ 1..N \subseteq Nat
    BY NAssumption, FS_Interval
  <2>2. P \subseteq 1..N
    BY DEF Replica, PeersAhead
  <2>. HIDE DEF P
  <2>. QED  BY <2>1, <2>2, FS_Subset
<1>2. Cardinality(P) \in Nat /\ Cardinality(P) > 0
  BY <1>1, FS_CardinalityType, FS_EmptySet
<1>3. n \in Nat /\ n < Cardinality(P)
  BY <1>2
<1>4. \E j \in P : Cardinality({k \in P : k < j}) = n
  <2>. HIDE DEF P, n
  <2>. QED  BY <1>1, <1>3, RankExists
<1>. QED  BY <1>4 DEF LearnTarget

LEMMA LearnTickKeepsInv ==
  ASSUME Inv, NEW i \in Replica, LearnTick(i)
  PROVE  Inv' /\ Onward
<1> DEFINE r == TimedOut(rep[i])
<1>1. rep[i] \in ReplicaState
  BY InvFacts
<1>2. Touches(rep[i], r) /\ r.acked = rep[i].acked /\ r.attempts \in Nat
  <2>1. Touches(rep[i], r) /\ r.acked = rep[i].acked /\ r.attempts \in 0..(Attempts - 1)
    BY <1>1, TimedOutTouches
  <2>. QED  BY <2>1, AttemptsAssumption
<1>3. /\ PeersAhead(i, r) = {} => rep' = [rep EXCEPT ![i] = r] /\ UNCHANGED learns
      /\ PeersAhead(i, r) # {}
           => /\ rep' = [rep EXCEPT ![i] = [r EXCEPT !.learning = TRUE]]
              /\ learns' = learns \cup {LearnRequest(i, r, LearnTarget(i, r))}
  BY DEF LearnTick
<1>4. UNCHANGED <<chunk, up, records, decides, learnReplies, pings>>
  BY DEF LearnTick
<1>. HIDE DEF r
<1>5. MayMoveTo(i, r) /\ r \in ReplicaState
  BY <1>2, MayStay, MayTouch DEF Touches
<1>6. CASE PeersAhead(i, r) = {}
  <2>1. Onward /\ rep' \in [Replica -> ReplicaState]
    BY <1>3, <1>5, <1>6, OneMovesOn
  <2>. QED  BY <1>3, <1>4, <1>6, <2>1, NothingNew, OnlyNewMessages
<1>7. CASE PeersAhead(i, r) # {}
  <2> DEFINE q == [r EXCEPT !.learning = TRUE]
  <2>1. Touches(r, q) /\ q.acked = r.acked /\ q.contig = r.contig
    BY <1>5, LearningTouches
  <2>2. rep' = [rep EXCEPT ![i] = q]
    BY <1>3, <1>7
  <2>. HIDE DEF q
  <2>3. MayMoveTo(i, q)
    BY <1>5, <2>1, MayTouch
  <2>4. Onward /\ rep' \in [Replica -> ReplicaState] /\ rep'[i].contig = r.contig
    BY <2>1, <2>2, <2>3, OneMovesOn
  <2>5. LearnTarget(i, r) \in Replica
    BY <1>2, <1>5, <1>7, LearnTargetExists DEF PeersAhead
  <2>6. NewLearnsReal
    BY <1>3, <1>5, <1>7, <2>4, <2>5, LearnRequestReal DEF NewLearnsReal
  <2>. QED  BY <1>4, <2>4, <2>6, NothingNew, OnlyNewMessages
<1>. QED  BY <1>6, <1>7

-----------------------------------------------------------------------------
(* The theorems. *)

LEMMA NewReplicaAtRest ==
  ASSUME NEW i \in Replica
  PROVE  AtRest(i, NewReplica) /\ NewReplica \in ReplicaState
<1> DEFINE r == NewReplica
<1>1. /\ r.contig = 0 /\ r.gcFloor = 0 /\ r.bytes = 0 /\ r.delivered = <<>>
      /\ DOMAIN r.slots = {} /\ DOMAIN r.retained = {}
      /\ \A j \in Replica : r.acked[j] = 0
  BY DEF NewReplica
<1>2. r \in ReplicaState
  <2>1. \A S : <<>> \in SlotMap(S)
    BY DEF SlotMap
  <2>2. 0 \in Watermark /\ 0 \in 0..(Attempts - 1)
    BY SlotsAreNumbers, AttemptsAssumption
  <2>3. [j \in Replica |-> 0] \in [Replica -> Watermark]
    BY <2>2
  <2>. QED  BY <2>1, <2>2, <2>3 DEF NewReplica, ReplicaState
<1>3. SizeOf(r, Slot) = 0
  BY <1>1, SizeOfNothing
<1>. HIDE DEF r
<1>4. \A s \in Slot : ~IsDecided(r, s)
  BY <1>1 DEF IsDecided, HasSlot
<1>5. Sound(r)
  BY <1>1, <1>2, <1>3, <1>4 DEF Sound
<1>6. AtRest(i, r)
  BY <1>1, <1>3, <1>5, LimitsAssumption DEF AtRest, WithinBudget
<1>. QED  BY <1>2, <1>6 DEF r

LEMMA InitInv == Init => Inv
<1>. SUFFICES ASSUME Init PROVE Inv
  OBVIOUS
<1>1. \A i \in Replica : rep[i] = NewReplica /\ chunk[i] = NoChunk(i)
  BY DEF Init
<1>2. \A i \in Replica : AtRest(i, rep[i])
  BY <1>1, NewReplicaAtRest
<1>3. TypeOK
  <2>1. \A i \in Replica : NoChunk(i) \in LearnReplyMsg
    BY SlotsAreNumbers DEF NoChunk, LearnReplyMsg
  <2>2. \A i \in Replica : NewReplica \in ReplicaState
    BY NewReplicaAtRest
  <2>3. rep \in [Replica -> ReplicaState] /\ chunk \in [Replica -> LearnReplyMsg]
    BY <2>1, <2>2 DEF Init
  <2>. QED  BY <2>3 DEF Init, TypeOK
<1>4. WatermarksAreReal
  <2>1. \A j \in Replica : NewReplica.acked[j] = 0 /\ NewReplica.contig = 0
    BY DEF NewReplica
  <2>. QED  BY <1>1, <2>1 DEF WatermarksAreReal
<1>5. MessagesReal
  BY DEF Init, MessagesReal
<1>6. ChunksReal
  <2>1. \A i \in Replica : NoChunk(i).values = <<>>
    BY DEF NoChunk
  <2>. QED  BY <1>1, <2>1 DEF ChunksReal, Idle
<1>. QED  BY <1>2, <1>3, <1>4, <1>5, <1>6 DEF Inv

LEMMA StepKeepsInv ==
  ASSUME Inv, [Next]_vars
  PROVE  Inv' /\ Onward
<1>1. CASE UNCHANGED vars
  <2>1. UNCHANGED <<rep, chunk, up, records, decides, learns, learnReplies, pings>>
    BY <1>1 DEF vars
  <2>. QED  BY <2>1, RepUnchanged, NothingNew, OnlyNewMessages
<1>2. CASE Next
  <2>1. PICK i \in Replica :
          \/ OnPing(i) \/ OnRecord(i) \/ OnDecide(i) \/ OnLearn(i) \/ OnLearnReply(i)
          \/ InstallLearned(i) \/ DecideRunning(i)
          \/ OpenSlots(i) \/ ObserveFrontier(i) \/ Hedge(i) \/ Retransmit(i)
          \/ LearnTick(i) \/ PingTick(i)
          \/ Crash(i)
    BY <1>2 DEF Next
  <2>. QED
    BY <2>1, OnPingKeepsInv, OnRecordKeepsInv, OnDecideKeepsInv, OnLearnKeepsInv,
       OnLearnReplyKeepsInv, InstallLearnedKeepsInv, DecideRunningKeepsInv,
       OpenSlotsKeepsInv, ObserveFrontierKeepsInv, HedgeKeepsInv, RetransmitKeepsInv,
       LearnTickKeepsInv, PingTickKeepsInv, CrashKeepsInv
<1>. QED  BY <1>1, <1>2

\* The inductive invariant of the log: what each replica keeps is consistent,
\* what it believes of the others is true, and every message is real.
THEOREM InvHolds == Spec => []Inv
<1>1. Inv /\ [Next]_vars => Inv'
  BY StepKeepsInv
<1>. QED  BY <1>1, InitInv, PTL DEF Spec

\* The types of the variables.
THEOREM TypeOKHolds == Spec => []TypeOK
<1>1. Inv => TypeOK
  BY DEF Inv
<1>. QED  BY <1>1, InvHolds, PTL

\* Every replica has delivered a prefix of the log, each value in its slot
\* (try_deliver, on_learn_reply).
THEOREM LogPrefixHolds == Spec => []LogPrefix
<1>1. Inv => LogPrefix
  BY InvFacts DEF LogPrefix, Sound
<1>. QED  BY <1>1, InvHolds, PTL

\* Freeing leaves no hole below the watermark: the expect() of on_learn.
THEOREM RetentionContiguousHolds == Spec => []RetentionContiguous
<1>1. Inv => RetentionContiguous
  BY InvFacts DEF RetentionContiguous, Sound
<1>. QED  BY <1>1, InvHolds, PTL

\* A watermark received from a peer is one the peer has reached (receive).
THEOREM WatermarksAreRealHolds == Spec => []WatermarksAreReal
<1>1. Inv => WatermarksAreReal
  BY DEF Inv
<1>. QED  BY <1>1, InvHolds, PTL

\* While the budget allows, no replica frees a slot that another one has still
\* to deliver (maybe_gc).
THEOREM NothingNeededIsFreedHolds == Spec => []NothingNeededIsFreed
<1>1. Inv => NothingNeededIsFreed
  <2>1. SUFFICES ASSUME Inv, MaxRetained >= AllBytes, NEW i \in Replica, NEW j \in Replica
        PROVE  rep[i].gcFloor <= rep[j].contig
    BY DEF NothingNeededIsFreed, AllBytes
  <2>2. rep[i].gcFloor <= rep[i].acked[j] /\ rep[i].acked[j] <= rep[j].contig
    BY <2>1, InvFacts DEF Sound, WatermarksAreReal
  <2>3. rep[i].gcFloor \in Nat /\ rep[i].acked[j] \in Nat /\ rep[j].contig \in Nat
    BY <2>1, InvFacts, StateTyped
  <2>. QED  BY <2>2, <2>3
<1>. QED  BY <1>1, InvHolds, PTL

\* The count of the retained bytes is exact, and beyond the budget a replica
\* keeps only what it has not delivered (decide_slot, maybe_gc).
THEOREM BudgetHoldsAlways == Spec => []BudgetHolds
<1>1. Inv => BudgetHolds
  BY InvFacts DEF BudgetHolds, Sound, AtRest, WithinBudget
<1>. QED  BY <1>1, InvHolds, PTL

\* Proposers stay within the ahead window of the frontier (maybe_open_slots,
\* on_record, hedge_activate_due).
THEOREM ProposersNearFrontierHolds == Spec => []ProposersNearFrontier
<1>1. Inv => ProposersNearFrontier
  BY InvFacts DEF ProposersNearFrontier, Sound, RunningSlots
<1>. QED  BY <1>1, InvHolds, PTL

\* A learned value is always at the frontier or delivered already, so the
\* budget never refuses it (on_learn_reply, decide_slot).
THEOREM LearnedIsInPlaceHolds == Spec => []LearnedIsInPlace
<1>1. Inv => LearnedIsInPlace
  <2>1. SUFFICES ASSUME Inv PROVE LearnedIsInPlace
    OBVIOUS
  <2>2. \A m \in learnReplies : m.first <= rep[m.to].contig + 1
    BY <2>1, InvFacts DEF MessagesReal, ChunkReal
  <2>3. \A i \in Replica : ~Idle(i) => chunk[i].first <= rep[i].contig + 1
    BY <2>1, InvFacts DEF ChunksReal, ChunkReal
  <2>. QED  BY <2>2, <2>3 DEF LearnedIsInPlace
<1>. QED  BY <1>1, InvHolds, PTL

\* A slot that is decided or freed gets no fresh register (decide_slot,
\* on_record, maybe_gc).
THEOREM SettledStaysSettledHolds == Spec => SettledStaysSettled
<1>1. Inv /\ [Next]_vars =>
        [\A i \in Replica, s \in Slot :
           s <= rep[i].gcFloor \/ IsDecided(rep[i], s) =>
             /\ s <= rep'[i].gcFloor \/ IsDecided(rep'[i], s)
             /\ s <= rep'[i].gcFloor => s \notin DOMAIN rep'[i].slots]_vars
  <2>1. SUFFICES ASSUME Inv, [Next]_vars, NEW i \in Replica, NEW s \in Slot,
                        s <= rep[i].gcFloor \/ IsDecided(rep[i], s)
        PROVE  /\ s <= rep'[i].gcFloor \/ IsDecided(rep'[i], s)
               /\ s <= rep'[i].gcFloor => s \notin DOMAIN rep'[i].slots
    OBVIOUS
  <2>2. AtRest(i, rep'[i]) /\ Advances(rep[i], rep'[i])
    BY <2>1, StepKeepsInv DEF Onward
  <2>3. /\ rep[i].gcFloor \in Nat /\ rep'[i].gcFloor \in Nat /\ s \in Nat
        /\ Sound(rep'[i])
    BY <2>1, <2>2, InvFacts, StateTyped, SlotsAreNumbers DEF AtRest, Sound
  <2>. QED  BY <2>1, <2>2, <2>3 DEF Advances, Sound
<1>. QED  BY <1>1, InvHolds, PTL DEF Spec, SettledStaysSettled

-----------------------------------------------------------------------------
(* The refinement of OrderedLog. *)

LongestIsReached ==
  \E x \in Replica : /\ LongestLog = rep[x].delivered
                     /\ \A y \in Replica : rep[y].contig <= rep[x].contig

LEMMA LongestExists == Inv => LongestIsReached
<1>. SUFFICES ASSUME Inv PROVE LongestIsReached
  OBVIOUS
<1> DEFINE B == {rep[y].contig : y \in Replica}
<1>1. B \subseteq 0..MaxSlot /\ B # {} /\ MaxSlot \in Nat
  <2>1. 1 \in Replica
    BY NAssumption DEF Replica
  <2>2. \A y \in Replica : rep[y].contig \in 0..MaxSlot
    BY InvFacts, StateTyped DEF Watermark
  <2>. QED  BY <2>1, <2>2, SlotsAreNumbers
<1>2. PICK c \in B : \A m \in B : m <= c
  <2>. HIDE DEF B
  <2>. QED  BY <1>1, GreatestNumber
<1>3. \E x \in Replica : \A y \in Replica : rep[y].contig <= rep[x].contig
  BY <1>2
<1>. QED  BY <1>3 DEF LongestLog, LongestIsReached

LEMMA LongestExistsNext == Inv' => LongestIsReached'
BY LongestExists, PTL

LEMMA OneMoves ==
  ASSUME Next
  PROVE  \E i \in Replica : rep' = rep \/ \E q : rep' = [rep EXCEPT ![i] = q]
<1>1. PICK i \in Replica :
        \/ OnPing(i) \/ OnRecord(i) \/ OnDecide(i) \/ OnLearn(i) \/ OnLearnReply(i)
        \/ InstallLearned(i) \/ DecideRunning(i)
        \/ OpenSlots(i) \/ ObserveFrontier(i) \/ Hedge(i) \/ Retransmit(i)
        \/ LearnTick(i) \/ PingTick(i)
        \/ Crash(i)
  BY DEF Next
<1> DEFINE Moves == \E q : rep' = [rep EXCEPT ![i] = q]
<1>2. \A q : Move(i, q) => Moves
  BY DEF Move
<1>3. \A r, j, w : Epilogue(i, r, j, w) => Moves
  BY <1>2 DEF Epilogue
<1>4. \A r, m : Install(i, r, m) => Moves
  BY <1>2, <1>3 DEF Install
<1>5. CASE OnPing(i) \/ OnRecord(i) \/ OnDecide(i) \/ OnLearn(i)
  BY <1>3, <1>5 DEF OnPing, OnRecord, OnDecide, OnLearn
<1>6. CASE OnLearnReply(i) \/ InstallLearned(i)
  BY <1>4, <1>6 DEF OnLearnReply, InstallLearned
<1>7. CASE DecideRunning(i) \/ OpenSlots(i) \/ ObserveFrontier(i) \/ Hedge(i)
  BY <1>2, <1>7 DEF DecideRunning, OpenSlots, ObserveFrontier, Hedge
<1>8. CASE LearnTick(i)
  BY <1>8 DEF LearnTick
<1>9. CASE Retransmit(i) \/ PingTick(i) \/ Crash(i)
  BY <1>9 DEF Retransmit, PingTick, Crash
<1>. QED  BY <1>1, <1>5, <1>6, <1>7, <1>8, <1>9

LogTo(c) == [s \in 1..c |-> Chosen[s]]

LEMMA PrefixOfLog ==
  ASSUME NEW a \in Watermark, NEW b \in Watermark, a <= b
  PROVE  O!IsPrefix(LogTo(a), LogTo(b))
<1>1. a \in Nat /\ b \in Nat /\ b <= MaxSlot
  BY SlotsAreNumbers
<1>2. ASSUME NEW c \in Watermark PROVE LogTo(c) \in Seq(Value) /\ Len(LogTo(c)) = c
  <2>1. c \in Nat /\ 1..c \subseteq Slot
    BY SlotsAreNumbers
  <2>2. LogTo(c) \in [1..c -> Value]
    BY <2>1, ChosenAssumption DEF LogTo
  <2>. QED  BY <2>1, <2>2, SeqDef
<1>3. \A k \in 1..a : LogTo(a)[k] = LogTo(b)[k]
  BY <1>1 DEF LogTo
<1>. QED  BY <1>1, <1>2, <1>3 DEF O!IsPrefix

LEMMA StepImplementsOrderedLog ==
  ASSUME Inv, Inv', [Next]_vars
  PROVE  [O!Next]_<<LongestLog, [i \in Replica |-> rep[i].delivered]>>
<1> DEFINE D == [i \in Replica |-> rep[i].delivered]
<1>1. CASE UNCHANGED rep
  BY <1>1 DEF LongestLog
<1>2. CASE Next /\ rep' # rep
  <2>1. PICK i \in Replica : \E q : rep' = [rep EXCEPT ![i] = q]
    BY <1>2, OneMoves
  <2>2. \A j \in Replica : j # i => rep'[j] = rep[j]
    BY <2>1, InvFacts DEF TypeOK
  <2>3. PICK x \in Replica : /\ LongestLog = rep[x].delivered
                             /\ \A y \in Replica : rep[y].contig <= rep[x].contig
    BY LongestExists DEF LongestIsReached
  <2>4. PICK z \in Replica : /\ LongestLog' = rep'[z].delivered
                             /\ \A y \in Replica : rep'[y].contig <= rep'[z].contig
    BY LongestExistsNext DEF LongestIsReached
  <2>5. ASSUME NEW j \in Replica
        PROVE  /\ rep[j].contig \in Watermark /\ rep'[j].contig \in Watermark
               /\ rep[j].contig \in Nat /\ rep'[j].contig \in Nat
               /\ rep[j].contig <= rep'[j].contig
               /\ rep[j].delivered = LogTo(rep[j].contig)
               /\ rep'[j].delivered = LogTo(rep'[j].contig)
    BY InvFacts, StepKeepsInv, StateTyped DEF Onward, AtRest, Sound, Advances, LogTo
  <2>6. rep[x].contig <= rep'[z].contig
    BY <2>3, <2>4, <2>5
  <2>7. O!IsPrefix(LongestLog, LongestLog')
    BY <2>3, <2>4, <2>5, <2>6, PrefixOfLog
  <2>8. /\ O!IsPrefix(rep[i].delivered, rep'[i].delivered)
        /\ O!IsPrefix(rep'[i].delivered, LongestLog')
    BY <2>4, <2>5, PrefixOfLog
  <2>9. D' = [D EXCEPT ![i] = D'[i]]
    BY <2>2
  <2>10. D[i] = rep[i].delivered /\ D'[i] = rep'[i].delivered
    OBVIOUS
  <2>11. O!Deliver(i)
    BY <2>7, <2>8, <2>9, <2>10 DEF O!Deliver
  <2>. QED  BY <2>11 DEF O!Next
<1>. QED  BY <1>1, <1>2 DEF vars

LEMMA InitImplementsOrderedLog == Init => O!Init
<1>. SUFFICES ASSUME Init PROVE O!Init
  OBVIOUS
<1>1. \A i \in Replica : rep[i].delivered = <<>>
  BY DEF Init, NewReplica
<1>2. PICK x \in Replica : LongestLog = rep[x].delivered
  BY InitInv, LongestExists DEF LongestIsReached
<1>. QED  BY <1>1, <1>2 DEF O!Init

\* There is one log, it only grows, and every replica delivers it in order,
\* without gaps and without repetition, however it came by the decisions
\* (Action::Deliver).
THEOREM ImplementsOrderedLogHolds == Spec => ImplementsOrderedLog
<1>1. Inv /\ Inv' /\ [Next]_vars => [O!Next]_<<LongestLog, [i \in Replica |-> rep[i].delivered]>>
  BY StepImplementsOrderedLog
<1>. QED
  BY <1>1, InitImplementsOrderedLog, InvHolds, PTL DEF Spec, ImplementsOrderedLog, O!Spec
=============================================================================
