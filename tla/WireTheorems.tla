---------------------------- MODULE WireTheorems ----------------------------
(***************************************************************************)
(* The properties of Wire, for every base, all widths of u32 and u64, and  *)
(* all messages and batches: what is encoded decodes to itself, and what   *)
(* decodes was encoded so.                                                 *)
(***************************************************************************)
EXTENDS Wire, CountingTheorems, SequenceTheorems

-----------------------------------------------------------------------------
(* Recursion over 0..m: the sequences of reads, of bytes and of numbers    *)
(* that the definitions build step by step exist.                          *)

AreIterates(g, a, step, m) ==
  g = [n \in 0..m |-> IF n = 0 THEN a ELSE step[n][g[n - 1]]]
HaveIterates(V, a, step, m) ==
  \E g \in [0..m -> V] : AreIterates(g, a, step, m)

LEMMA NextIterate ==
  ASSUME NEW V, NEW a \in V, NEW m \in Nat, NEW step \in [1..(m + 1) -> [V -> V]],
         HaveIterates(V, a, step, m)
  PROVE  HaveIterates(V, a, step, m + 1)
<1>1. PICK g \in [0..m -> V] : AreIterates(g, a, step, m)
  BY DEF HaveIterates
<1> DEFINE h == [n \in 0..(m + 1) |-> IF n <= m THEN g[n] ELSE step[n][g[m]]]
<1>2. h \in [0..(m + 1) -> V]
  <2>1. ASSUME NEW n \in 0..(m + 1) PROVE (IF n <= m THEN g[n] ELSE step[n][g[m]]) \in V
    <3>1. CASE n <= m
      BY <3>1
    <3>2. CASE ~(n <= m)
      <4>1. n = m + 1 /\ n \in 1..(m + 1) /\ m \in 0..m
        BY <3>2
      <4>. QED  BY <3>2, <4>1
    <3>. QED  BY <3>1, <3>2
  <2>. QED  BY <2>1
<1>3. ASSUME NEW n \in 0..(m + 1)
      PROVE  h[n] = IF n = 0 THEN a ELSE step[n][h[n - 1]]
  <2>1. CASE n = 0
    BY <1>1, <2>1 DEF AreIterates
  <2>2. CASE n # 0 /\ n <= m
    <3>1. n \in 0..m /\ n - 1 \in 0..m /\ n - 1 \in 0..(m + 1) /\ n - 1 <= m
      BY <2>2
    <3>2. g[n] = step[n][g[n - 1]]
      BY <1>1, <2>2, <3>1 DEF AreIterates
    <3>. QED  BY <2>2, <3>1, <3>2
  <2>3. CASE ~(n <= m)
    <3>1. n = m + 1 /\ n # 0 /\ n - 1 = m /\ m \in 0..(m + 1) /\ m <= m
      BY <2>3
    <3>. QED  BY <2>3, <3>1
  <2>. QED  BY <2>1, <2>2, <2>3
<1>4. AreIterates(h, a, step, m + 1)
  <2>. HIDE DEF h
  <2>. QED  BY <1>2, <1>3 DEF AreIterates
<1>. QED  BY <1>2, <1>4 DEF HaveIterates

LEMMA IteratesExist ==
  ASSUME NEW V, NEW a \in V, NEW m \in Nat, NEW step \in [1..m -> [V -> V]]
  PROVE  HaveIterates(V, a, step, m)
<1> DEFINE upTo(k) == [n \in 1..k |-> step[n]]
           B == {k \in 0..m : ~HaveIterates(V, a, upTo(k), k)}
<1>1. 0 \notin B
  <2> DEFINE g == [n \in 0..0 |-> a]
  <2>1. g \in [0..0 -> V]
    OBVIOUS
  <2>2. g = [n \in 0..0 |-> IF n = 0 THEN a ELSE upTo(0)[n][g[n - 1]]]
    OBVIOUS
  <2>. HIDE DEF g
  <2>. QED  BY <2>1, <2>2 DEF HaveIterates, AreIterates
<1>2. B = {}
  <2>. SUFFICES ASSUME B # {} PROVE FALSE
    OBVIOUS
  <2>. B \subseteq Nat
    OBVIOUS
  <2>1. PICK k \in B : \A j \in B : k <= j
    <3>. HIDE DEF B
    <3>. QED  BY SmallestNumber
  <2>2. k # 0 /\ k \in 0..m /\ k - 1 \in 0..m /\ k - 1 \in Nat /\ (k - 1) + 1 = k
    BY <1>1, <2>1
  <2>3. HaveIterates(V, a, upTo(k - 1), k - 1)
    BY <2>1, <2>2
  <2>4. HaveIterates(V, a, upTo(k), k - 1)
    <3>1. PICK g \in [0..(k - 1) -> V] : AreIterates(g, a, upTo(k - 1), k - 1)
      BY <2>3 DEF HaveIterates
    <3>2. \A n \in 0..(k - 1) : n # 0 => upTo(k)[n] = upTo(k - 1)[n]
      BY <2>2
    <3>3. AreIterates(g, a, upTo(k), k - 1)
      <4>. HIDE DEF upTo
      <4>. QED  BY <3>1, <3>2 DEF AreIterates
    <3>. QED  BY <3>1, <3>3 DEF HaveIterates
  <2>5. upTo(k) \in [1..((k - 1) + 1) -> [V -> V]]
    BY <2>2
  <2>6. HaveIterates(V, a, upTo(k), (k - 1) + 1)
    <3>. HIDE DEF upTo
    <3>. QED  BY <2>2, <2>4, <2>5, NextIterate
  <2>. QED  BY <2>1, <2>2, <2>6
<1>3. upTo(m) = step
  OBVIOUS
<1>4. m \in 0..m
  OBVIOUS
<1>. QED  BY <1>2, <1>3, <1>4

\* What a recursion defines does not depend on where it ends.
LEMMA IteratesAgree ==
  ASSUME NEW a, NEW step, NEW l \in Nat, NEW m \in Nat, l <= m,
         NEW g, AreIterates(g, a, step, l), NEW h, AreIterates(h, a, step, m)
  PROVE  \A n \in 0..l : g[n] = h[n]
<1> DEFINE B == {n \in 0..l : g[n] # h[n]}
<1>1. ASSUME B # {} PROVE FALSE
  <2>. B \subseteq Nat
    OBVIOUS
  <2>1. PICK n \in B : \A k \in B : n <= k
    <3>. HIDE DEF B
    <3>. QED  BY <1>1, SmallestNumber
  <2>2. n \in 0..l /\ n \in 0..m
    OBVIOUS
  <2>3. CASE n = 0
    BY <2>1, <2>2, <2>3 DEF AreIterates
  <2>4. CASE n # 0
    <3>1. n - 1 \in 0..l /\ n - 1 \notin B
      BY <2>1, <2>2, <2>4
    <3>2. g[n - 1] = h[n - 1]
      BY <3>1
    <3>3. g[n] = step[n][g[n - 1]] /\ h[n] = step[n][h[n - 1]]
      BY <2>2, <2>4 DEF AreIterates
    <3>. QED  BY <2>1, <3>2, <3>3
  <2>. QED  BY <2>3, <2>4
<1>. QED  BY <1>1

-----------------------------------------------------------------------------
(* Powers of the base. *)

LEMMA BasePositive == Base \in Nat /\ Base > 7
BY WidthsAssumption

\* The powers up to the m-th, and all of them.
PowerSteps(m) == [n \in 1..m |-> [v \in Nat |-> Base * v]]
FirstPowers(m) == CHOOSE g \in [0..m -> Nat] : AreIterates(g, 1, PowerSteps(m), m)

LEMMA FirstPowersAre ==
  ASSUME NEW m \in Nat
  PROVE  /\ FirstPowers(m) \in [0..m -> Nat]
         /\ FirstPowers(m)[0] = 1
         /\ \A n \in 1..m : FirstPowers(m)[n] = Base * FirstPowers(m)[n - 1]
<1>1. PowerSteps(m) \in [1..m -> [Nat -> Nat]]
  BY BasePositive DEF PowerSteps
<1>2. HaveIterates(Nat, 1, PowerSteps(m), m)
  BY <1>1, IteratesExist
<1>3. FirstPowers(m) \in [0..m -> Nat] /\ AreIterates(FirstPowers(m), 1, PowerSteps(m), m)
  BY <1>2 DEF HaveIterates, FirstPowers
<1> DEFINE g == FirstPowers(m)
<1>. HIDE DEF g
<1>4. g \in [0..m -> Nat] /\ AreIterates(g, 1, PowerSteps(m), m)
  BY <1>3 DEF g
<1>5. g[0] = 1
  BY <1>4 DEF AreIterates
<1>6. ASSUME NEW n \in 1..m PROVE g[n] = Base * g[n - 1]
  <2>1. n \in 0..m /\ n # 0 /\ n - 1 \in 0..m
    OBVIOUS
  <2>2. g[n] = PowerSteps(m)[n][g[n - 1]] /\ g[n - 1] \in Nat
    BY <1>4, <2>1 DEF AreIterates
  <2>3. PowerSteps(m)[n] = [v \in Nat |-> Base * v]
    BY DEF PowerSteps
  <2>. QED  BY <2>2, <2>3
<1>. QED  BY <1>4, <1>5, <1>6 DEF g

LEMMA FirstPowersAgree ==
  ASSUME NEW m \in Nat, NEW l \in Nat, l <= m
  PROVE  FirstPowers(m)[l] = FirstPowers(l)[l]
<1> DEFINE g == FirstPowers(m)
           h == FirstPowers(l)
           B == {n \in 0..l : g[n] # h[n]}
<1>1. ASSUME B # {} PROVE FALSE
  <2>. B \subseteq Nat
    OBVIOUS
  <2>1. PICK n \in B : \A k \in B : n <= k
    <3>. HIDE DEF B
    <3>. QED  BY <1>1, SmallestNumber
  <2>2. n # 0
    BY <2>1, FirstPowersAre
  <2>3. n \in 1..l /\ n \in 1..m /\ n - 1 \in 0..l /\ n - 1 \notin B
    BY <2>1, <2>2
  <2>4. g[n] = Base * g[n - 1] /\ h[n] = Base * h[n - 1]
    BY <2>3, FirstPowersAre
  <2>. QED  BY <2>1, <2>3, <2>4
<1>. QED  BY <1>1

LEMMA PowerDefined == Power = [k \in Nat |-> IF k = 0 THEN 1 ELSE Base * Power[k - 1]]
<1> DEFINE p == [k \in Nat |-> FirstPowers(k)[k]]
<1>1. ASSUME NEW k \in Nat PROVE p[k] = IF k = 0 THEN 1 ELSE Base * p[k - 1]
  <2>1. CASE k = 0
    BY <2>1, FirstPowersAre
  <2>2. CASE k # 0
    <3>1. k - 1 \in Nat /\ k - 1 <= k /\ k \in 1..k
      BY <2>2
    <3>2. FirstPowers(k)[k] = Base * FirstPowers(k)[k - 1]
      BY <3>1, FirstPowersAre
    <3>3. FirstPowers(k)[k - 1] = FirstPowers(k - 1)[k - 1]
      BY <3>1, FirstPowersAgree
    <3>. QED  BY <2>2, <3>1, <3>2, <3>3
  <2>. QED  BY <2>1, <2>2
<1>2. p = [k \in Nat |-> IF k = 0 THEN 1 ELSE Base * p[k - 1]]
  <2>1. \A k \in Nat : p[k] = IF k = 0 THEN 1 ELSE Base * p[k - 1]
    BY <1>1
  <2>2. DOMAIN p = Nat /\ p = [k \in Nat |-> p[k]]
    OBVIOUS
  <2>. HIDE DEF p
  <2>. QED  BY <2>1, <2>2
<1>. HIDE DEF p
<1>. QED  BY <1>2, Zenon DEF Power

LEMMA PowerIs ==
  /\ Power[0] = 1
  /\ \A k \in Nat : Power[k] \in Nat /\ Power[k] >= 1 /\ Power[k + 1] = Base * Power[k]
<1>1. Power[0] = 1
  BY PowerDefined
<1>2. ASSUME NEW k \in Nat PROVE Power[k + 1] = Base * Power[k]
  <2>1. k + 1 \in Nat /\ k + 1 # 0 /\ (k + 1) - 1 = k
    OBVIOUS
  <2> DEFINE p == Power
  <2>2. p[k + 1] = Base * p[(k + 1) - 1]
    BY <2>1, PowerDefined
  <2>. QED  BY <2>1, <2>2
<1> DEFINE B == {k \in Nat : ~(Power[k] \in Nat /\ Power[k] >= 1)}
<1>3. ASSUME B # {} PROVE FALSE
  <2>1. PICK k \in B : \A j \in B : k <= j
    <3>. B \subseteq Nat
      OBVIOUS
    <3>. HIDE DEF B
    <3>. QED  BY <1>3, SmallestNumber
  <2>2. k # 0
    BY <1>1, <2>1
  <2>3. k - 1 \in Nat /\ k - 1 \notin B /\ (k - 1) + 1 = k
    BY <2>1, <2>2
  <2>4. Power[k - 1] \in Nat /\ Power[k - 1] >= 1
    BY <2>3
  <2>5. Power[k] = Base * Power[k - 1]
    BY <1>2, <2>3
  <2> DEFINE q == Power[k - 1]
  <2>6. q \in Nat /\ q >= 1 /\ Power[k] = Base * q
    BY <2>4, <2>5
  <2>. HIDE DEF q
  <2>7. Base * q \in Nat /\ Base * q >= 1
    BY <2>6, BasePositive
  <2>. QED  BY <2>1, <2>6, <2>7
<1>. QED  BY <1>1, <1>2, <1>3

-----------------------------------------------------------------------------
(* Numbers and their digits. *)

LEMMA DivisionIs ==
  ASSUME NEW a \in Nat, NEW b \in Nat, b >= 1
  PROVE  /\ a \div b \in Nat /\ a % b \in 0..(b - 1)
         /\ a = b * (a \div b) + (a % b)
OBVIOUS

LEMMA QuotientIs ==
  ASSUME NEW b \in Nat, b >= 1, NEW q \in Nat, NEW r \in 0..(b - 1)
  PROVE  (b * q + r) \div b = q /\ (b * q + r) % b = r
<1> DEFINE a == b * q + r
           d == a \div b
           e == a % b
<1>1. b * q \in Nat /\ a \in Nat
  OBVIOUS
<1>2. d \in Nat /\ e \in 0..(b - 1) /\ a = b * d + e
  BY <1>1, DivisionIs
<1>3. b * d + e = b * q + r
  BY <1>2
<1>. HIDE DEF a, d, e
<1>4. d <= q
  <2>. SUFFICES ASSUME d >= q + 1 PROVE FALSE
    BY <1>2
  <2>1. b * d >= b * (q + 1)
    BY <1>2
  <2>2. b * (q + 1) = b * q + b /\ b * q \in Nat /\ b * d \in Nat
    BY <1>2
  <2>. QED  BY <1>2, <1>3, <2>1, <2>2
<1>5. q <= d
  <2>. SUFFICES ASSUME q >= d + 1 PROVE FALSE
    BY <1>2
  <2>1. b * q >= b * (d + 1)
    BY <1>2
  <2>2. b * (d + 1) = b * d + b /\ b * q \in Nat /\ b * d \in Nat
    BY <1>2
  <2>. QED  BY <1>2, <1>3, <2>1, <2>2
<1>6. d = q
  BY <1>2, <1>4, <1>5
<1>7. e = r
  <2>1. b * q \in Nat
    OBVIOUS
  <2>. QED  BY <1>2, <1>3, <1>6, <2>1
<1>. QED  BY <1>6, <1>7 DEF a, d, e

\* Dividing twice is dividing once by the product.
LEMMA DivideTwice ==
  ASSUME NEW a \in Nat, NEW b \in Nat, b >= 1, NEW c \in Nat, c >= 1
  PROVE  a \div (b * c) = (a \div b) \div c
<1> DEFINE d == a \div b
           e == a % b
           f == d \div c
           g == d % c
           r == b * g + e
<1>1. d \in Nat /\ e \in 0..(b - 1) /\ a = b * d + e
  BY DivisionIs
<1>. HIDE DEF d, e
<1>2. f \in Nat /\ g \in 0..(c - 1) /\ d = c * f + g
  BY <1>1, DivisionIs
<1>. HIDE DEF f, g
<1>3. b * c \in Nat /\ b * c >= 1
  OBVIOUS
<1>4. a = (b * c) * f + r
  BY <1>1, <1>2
<1>5. r \in 0..(b * c - 1)
  <2>1. b * g \in Nat /\ b * g <= b * (c - 1)
    BY <1>2
  <2>2. b * (c - 1) = b * c - b
    OBVIOUS
  <2>. QED  BY <1>1, <1>3, <2>1, <2>2
<1>. HIDE DEF r
<1> DEFINE m == b * c
<1>6. m \in Nat /\ m >= 1 /\ a = m * f + r /\ r \in 0..(m - 1)
  BY <1>3, <1>4, <1>5
<1>. HIDE DEF m
<1>7. a \div m = f
  BY <1>2, <1>6, QuotientIs
<1>. QED  BY <1>7 DEF m, f, d

\* The digits of a number, and those of what is left without the last one.
LEMMA DigitsShift ==
  ASSUME NEW n \in Nat, NEW k \in Nat
  PROVE  /\ n \div Power[0] = n
         /\ n \div Power[k] \in Nat
         /\ n \div Power[k + 1] = (n \div Power[k]) \div Base
         /\ n \div Power[k + 1] = (n \div Base) \div Power[k]
<1>1. Power[k] \in Nat /\ Power[k] >= 1 /\ Power[k + 1] = Base * Power[k] /\ Power[0] = 1
  BY PowerIs
<1> DEFINE p == Power[k]
<1>2. p \in Nat /\ p >= 1 /\ Power[k + 1] = Base * p
  BY <1>1
<1>3. Base \in Nat /\ Base >= 1
  BY BasePositive
<1>. HIDE DEF p
<1>4. Base * p = p * Base
  BY <1>2, <1>3
<1>5. n \div (p * Base) = (n \div p) \div Base /\ n \div (Base * p) = (n \div Base) \div p
  BY <1>2, <1>3, DivideTwice
<1>6. n \div p \in Nat
  BY <1>2, DivisionIs
<1>7. n \div 1 = n
  OBVIOUS
<1>. QED  BY <1>1, <1>2, <1>4, <1>5, <1>6, <1>7 DEF p

\* A recursion in LET is one of its solutions, and its steps stay in V.
LEMMA IteratesAre ==
  ASSUME NEW V, NEW a \in V, NEW m \in Nat, NEW step \in [1..m -> [V -> V]],
         NEW t, t[0] = a,
         \A n \in 1..m : t[n - 1] \in V => t[n] = step[n][t[n - 1]]
  PROVE  /\ \A n \in 0..m : t[n] \in V
         /\ \A n \in 1..m : t[n] = step[n][t[n - 1]]
<1> DEFINE B == {n \in 0..m : t[n] \notin V}
<1>1. ASSUME B # {} PROVE FALSE
  <2>. B \subseteq Nat
    OBVIOUS
  <2>1. PICK n \in B : \A k \in B : n <= k
    <3>. HIDE DEF B
    <3>. QED  BY <1>1, SmallestNumber
  <2>2. n \in 1..m /\ n - 1 \in 0..m /\ n - 1 \notin B
    BY <2>1
  <2>3. t[n] = step[n][t[n - 1]] /\ t[n - 1] \in V
    BY <2>2
  <2>. QED  BY <2>2, <2>3
<1>2. \A n \in 0..m : t[n] \in V
  BY <1>1
<1>3. ASSUME NEW n \in 1..m PROVE t[n] = step[n][t[n - 1]]
  <2>1. n - 1 \in 0..m
    OBVIOUS
  <2>. QED  BY <1>2, <2>1
<1>. QED  BY <1>2, <1>3

IsHorner(top, digits) ==
  /\ top \in [0..Len(digits) -> Nat] /\ top[0] = 0
  /\ \A k \in 1..Len(digits) : top[k] = digits[Len(digits) - k + 1] + Base * top[k - 1]
HasHorner(digits) == \E top : IsHorner(top, digits) /\ Number(digits) = top[Len(digits)]

LEMMA NumberIs ==
  ASSUME NEW digits \in Seq(Byte)
  PROVE  HasHorner(digits)
<1> DEFINE m == Len(digits)
           F(top) == [k \in 0..m |-> IF k = 0 THEN 0 ELSE digits[m - k + 1] + Base * top[k - 1]]
           step == [k \in 1..m |-> [v \in Nat |-> digits[m - k + 1] + Base * v]]
           t == CHOOSE top : top = F(top)
<1>1. m \in Nat /\ Number(digits) = t[m]
  BY DEF Number
<1>2. step \in [1..m -> [Nat -> Nat]]
  <2>1. ASSUME NEW k \in 1..m, NEW v \in Nat PROVE digits[m - k + 1] + Base * v \in Nat
    <3>1. m - k + 1 \in 1..m /\ digits[m - k + 1] \in Byte
      OBVIOUS
    <3>2. digits[m - k + 1] \in Nat /\ Base * v \in Nat
      BY <3>1, BasePositive DEF Byte
    <3>. QED  BY <3>2
  <2>. QED  BY <2>1
<1>. HIDE DEF m, F, step
<1>3. PICK g \in [0..m -> Nat] : AreIterates(g, 0, step, m)
  BY <1>1, <1>2, IteratesExist DEF HaveIterates
<1>4. \E top : top = F(top)
  <2>1. ASSUME NEW k \in 0..m, k # 0
        PROVE  step[k][g[k - 1]] = digits[m - k + 1] + Base * g[k - 1]
    <3>1. k \in 1..m /\ k - 1 \in 0..m /\ g[k - 1] \in Nat
      BY <1>1, <2>1
    <3>. QED  BY <3>1 DEF step
  <2>2. g = F(g)
    BY <1>3, <2>1 DEF AreIterates, F
  <2>. QED  BY <2>2
<1>5. t = F(t)
  BY <1>4
<1>. HIDE DEF t
<1>6. t[0] = 0 /\ \A k \in 1..m : t[k] = digits[m - k + 1] + Base * t[k - 1]
  <2>. DEFINE u == t
  <2>1. u = F(t)
    BY <1>5
  <2>. HIDE DEF u
  <2>2. u[0] = 0 /\ \A k \in 1..m : u[k] = digits[m - k + 1] + Base * t[k - 1]
    BY <1>1, <2>1 DEF F
  <2>. QED  BY <2>2 DEF u
<1>7. \A k \in 0..m : t[k] \in Nat
  <2>1. \A k \in 1..m : t[k - 1] \in Nat => t[k] = step[k][t[k - 1]]
    BY <1>6 DEF step
  <2>2. m \in Nat /\ 0 \in Nat /\ t[0] = 0
    BY <1>1, <1>6
  <2>. QED  BY <1>2, <2>1, <2>2, IteratesAre, ZenonT(60)
<1>8. t \in [0..m -> Nat]
  <2>1. t = [k \in 0..m |-> IF k = 0 THEN 0 ELSE digits[m - k + 1] + Base * t[k - 1]]
    BY <1>5 DEF F
  <2>2. \A k \in 0..m : t[k] \in Nat
    BY <1>7
  <2>3. DOMAIN t = 0..m /\ t = [k \in 0..m |-> t[k]]
    BY <2>1, Zenon
  <2>. QED  BY <2>2, <2>3
<1>. QED  BY <1>1, <1>6, <1>8 DEF m, IsHorner, HasHorner

LEMMA LittleEndianIs ==
  ASSUME NEW n \in Nat, NEW w \in Nat
  PROVE  /\ LittleEndian(n, w) \in [1..w -> Byte]
         /\ LittleEndian(n, w) \in Seq(Byte) /\ Len(LittleEndian(n, w)) = w
         /\ \A k \in 1..w : LittleEndian(n, w)[k] = (n \div Power[k - 1]) % Base
<1>1. ASSUME NEW k \in 1..w PROVE (n \div Power[k - 1]) % Base \in Byte
  <2>1. k - 1 \in Nat
    OBVIOUS
  <2>2. n \div Power[k - 1] \in Nat
    BY <2>1, DigitsShift
  <2> DEFINE q == n \div Power[k - 1]
  <2>3. q \in Nat
    BY <2>2
  <2>. HIDE DEF q
  <2>4. q % Base \in 0..(Base - 1)
    BY <2>3, BasePositive, DivisionIs
  <2>. QED  BY <2>4 DEF q, Byte
<1>2. LittleEndian(n, w) \in [1..w -> Byte]
  BY <1>1 DEF LittleEndian
<1>3. \A k \in 1..w : LittleEndian(n, w)[k] = (n \div Power[k - 1]) % Base
  BY DEF LittleEndian
<1>. QED  BY <1>2, <1>3

\* What is written as digits is read back.
LEMMA NumberOfDigits ==
  ASSUME NEW w \in Nat, NEW n \in 0..(Power[w] - 1)
  PROVE  Number(LittleEndian(n, w)) = n
<1> DEFINE d == LittleEndian(n, w)
<1>. Power[w] \in Nat /\ n \in Nat
  BY PowerIs
<1>1. /\ d \in [1..w -> Byte] /\ d \in Seq(Byte) /\ Len(d) = w
      /\ \A k \in 1..w : d[k] = (n \div Power[k - 1]) % Base
  BY LittleEndianIs
<1>. HIDE DEF d
<1>2. PICK top : IsHorner(top, d) /\ Number(d) = top[Len(d)]
  BY <1>1, NumberIs DEF HasHorner
<1> DEFINE B == {k \in 0..w : top[k] # n \div Power[w - k]}
<1>3. ASSUME B # {} PROVE FALSE
  <2>. B \subseteq Nat
    OBVIOUS
  <2>1. PICK k \in B : \A j \in B : k <= j
    <3>. HIDE DEF B
    <3>. QED  BY <1>3, SmallestNumber
  <2>2. CASE k = 0
    <3>1. top[0] = 0
      BY <1>2 DEF IsHorner
    <3>2. n \div Power[w] = 0
      <4> DEFINE p == Power[w]
      <4>1. p \in Nat /\ n \in 0..(p - 1)
        OBVIOUS
      <4>. HIDE DEF p
      <4>2. p >= 1 /\ n = p * 0 + n
        BY <4>1
      <4>3. (p * 0 + n) \div p = 0
        BY <4>1, <4>2, QuotientIs
      <4>4. n \div p = 0
        BY <4>2, <4>3
      <4>. QED  BY <4>4 DEF p
    <3>3. w - 0 = w
      OBVIOUS
    <3>. QED  BY <2>1, <2>2, <3>1, <3>2, <3>3
  <2>3. CASE k # 0
    <3>1. /\ k \in 1..w /\ k - 1 \in 0..w /\ k - 1 \notin B
          /\ w - k \in Nat /\ w - (k - 1) = (w - k) + 1
          /\ w - k + 1 \in 1..w /\ (w - k + 1) - 1 = w - k
      BY <2>1, <2>3
    <3> DEFINE q == n \div Power[w - k]
    <3>2. q \in Nat /\ n \div Power[(w - k) + 1] = q \div Base
      BY <3>1, DigitsShift
    <3>3. top[k - 1] = q \div Base
      BY <3>1, <3>2
    <3>4. d[w - k + 1] = q % Base
      BY <1>1, <3>1
    <3>. HIDE DEF q
    <3>5. top[k] = (q % Base) + Base * (q \div Base)
      BY <1>1, <1>2, <3>1, <3>3, <3>4 DEF IsHorner
    <3>6. q \div Base \in Nat /\ q % Base \in 0..(Base - 1) /\ q = Base * (q \div Base) + (q % Base)
      <4>1. q \in Nat /\ Base \in Nat /\ Base >= 1
        BY <3>2, BasePositive
      <4>. QED  BY <4>1, DivisionIs
    <3>7. top[k] = q
      BY <3>5, <3>6, BasePositive
    <3>. QED  BY <2>1, <3>7 DEF q
  <2>. QED  BY <2>2, <2>3
<1>4. top[w] = n \div Power[w - w] /\ w - w = 0
  <2>1. w \in 0..w
    OBVIOUS
  <2>. QED  BY <1>3, <2>1
<1>5. n \div Power[0] = n
  BY DigitsShift
<1>. QED  BY <1>1, <1>2, <1>4, <1>5 DEF d

\* What is read as a number has its width, and its digits are those that were read.
LEMMA DigitsOfNumber ==
  ASSUME NEW w \in Nat, NEW d \in Seq(Byte), Len(d) = w
  PROVE  Number(d) \in 0..(Power[w] - 1) /\ LittleEndian(Number(d), w) = d
<1>1. PICK top : IsHorner(top, d) /\ Number(d) = top[Len(d)]
  BY NumberIs DEF HasHorner
<1>2. top[0] = 0 /\ \A k \in 0..w : top[k] \in Nat
  BY <1>1 DEF IsHorner
<1>3. \A k \in 1..w : d[k] \in Byte
  OBVIOUS
<1> DEFINE Digits(k) == \A j \in 1..k : (top[k] \div Power[j - 1]) % Base = d[w - k + j]
           Good(k) == top[k] \in 0..(Power[k] - 1) /\ Digits(k)
           B == {k \in 0..w : ~Good(k)}
<1>4. ASSUME B # {} PROVE FALSE
  <2>. B \subseteq Nat
    OBVIOUS
  <2>1. PICK k \in B : \A j \in B : k <= j
    <3>. HIDE DEF B
    <3>. QED  BY <1>4, SmallestNumber
  <2>2. CASE k = 0
    <3>1. top[0] \in 0..(Power[0] - 1)
      BY <1>2, PowerIs
    <3>2. Digits(0)
      OBVIOUS
    <3>. QED  BY <2>1, <2>2, <3>1, <3>2
  <2>3. CASE k # 0
    <3>1. k \in 1..w /\ k - 1 \in 0..w /\ k - 1 \in Nat /\ (k - 1) + 1 = k /\ Good(k - 1)
      BY <2>1, <2>3
    <3> DEFINE x == d[w - k + 1]
               v == top[k - 1]
               p == Power[k - 1]
    <3>2. top[k] = x + Base * v
      BY <1>1, <3>1 DEF IsHorner
    <3>3. x \in Byte
      <4>1. w - k + 1 \in 1..w
        BY <3>1
      <4>. QED  BY <1>3, <4>1
    <3>4. v \in 0..(p - 1)
      BY <3>1
    <3>5. Power[k] = Base * p /\ p \in Nat /\ p >= 1
      BY <3>1, PowerIs
    <3>6. Digits(k - 1)
      BY <3>1
    <3>. HIDE DEF Digits, x, v, p
    <3>7. x \in 0..(Base - 1) /\ v \in Nat
      BY <3>3, <3>4, <3>5 DEF Byte
    <3>8. top[k] \div Base = v /\ top[k] % Base = x
      <4>1. top[k] = Base * v + x
        BY <3>2, <3>7, BasePositive
      <4>2. (Base * v + x) \div Base = v /\ (Base * v + x) % Base = x
        <5>1. Base \in Nat /\ Base >= 1 /\ v \in Nat /\ x \in 0..(Base - 1)
          BY <3>7, BasePositive
        <5>. QED  BY <5>1, QuotientIs
      <4>. QED  BY <4>1, <4>2, Zenon
    <3>9. top[k] \in 0..(Power[k] - 1)
      <4>1. Base * v \in Nat /\ Base * v <= Base * (p - 1)
        BY <3>4, <3>5, BasePositive
      <4>2. Base * (p - 1) = Base * p - Base /\ Base * p \in Nat
        BY <3>5, BasePositive
      <4>. QED  BY <3>2, <3>5, <3>7, <4>1, <4>2, BasePositive
    <3>10. top[k] \in Nat
      BY <1>2, <3>1
    <3>11. ASSUME NEW j \in 1..k PROVE (top[k] \div Power[j - 1]) % Base = d[w - k + j]
      <4>1. CASE j = 1
        <5> DEFINE t == top[k]
        <5>. t \in Nat
          BY <3>10
        <5>. HIDE DEF t
        <5>1. j - 1 = 0 /\ w - k + j = w - k + 1 /\ t \div Power[0] = t
          BY <4>1, DigitsShift
        <5>. USE DEF t
        <5>. QED  BY <3>8, <5>1 DEF x
      <4>2. CASE j # 1
        <5>1. /\ j - 1 \in 1..(k - 1) /\ (j - 1) - 1 \in Nat /\ ((j - 1) - 1) + 1 = j - 1
              /\ w - (k - 1) + (j - 1) = w - k + j
          BY <3>1, <4>2
        <5>2. (v \div Power[(j - 1) - 1]) % Base = d[w - (k - 1) + (j - 1)]
          BY <3>6, <5>1 DEF Digits, v
        <5>3. top[k] \div Power[j - 1] = (top[k] \div Base) \div Power[(j - 1) - 1]
          <6> DEFINE t == top[k]
                     i == (j - 1) - 1
          <6>. t \in Nat /\ i \in Nat /\ i + 1 = j - 1
            BY <3>10, <5>1
          <6>. HIDE DEF t, i
          <6>1. t \div Power[i + 1] = (t \div Base) \div Power[i]
            BY DigitsShift
          <6>2. t \div Power[j - 1] = (t \div Base) \div Power[i]
            BY <6>1
          <6>. QED  BY <6>2 DEF t, i
        <5>. QED  BY <3>8, <5>1, <5>2, <5>3
      <4>. QED  BY <4>1, <4>2
    <3>12. Digits(k)
      BY <3>11 DEF Digits
    <3>. QED  BY <2>1, <3>9, <3>12
  <2>. QED  BY <2>2, <2>3
<1>5. Good(w)
  <2>1. w \in 0..w
    OBVIOUS
  <2>. QED  BY <1>4, <2>1
<1>6. Number(d) = top[w]
  BY <1>1
<1>7. Number(d) \in 0..(Power[w] - 1)
  BY <1>5, <1>6
<1>8. LittleEndian(Number(d), w) = d
  <2>1. ASSUME NEW k \in 1..w PROVE LittleEndian(Number(d), w)[k] = d[k]
    <3>1. (top[w] \div Power[k - 1]) % Base = d[w - w + k] /\ w - w + k = k
      BY <1>5
    <3>. QED  BY <1>6, <3>1 DEF LittleEndian
  <2>2. Number(d) \in Nat
    BY <1>7, PowerIs
  <2>3. LittleEndian(Number(d), w) \in [1..w -> Byte]
    BY <2>2, LittleEndianIs
  <2>4. d \in [1..w -> Byte]
    BY LenProperties
  <2>. QED  BY <2>1, <2>3, <2>4
<1>. QED  BY <1>7, <1>8

-----------------------------------------------------------------------------
(* Byte strings, one after the other. *)

Bytes == Seq(Byte)

JoinSteps(pieces) == [k \in 1..Len(pieces) |-> [b \in Bytes |-> b \o pieces[k]]]
IsJoin(g, pieces) ==
  g \in [0..Len(pieces) -> Bytes] /\ AreIterates(g, <<>>, JoinSteps(pieces), Len(pieces))

LEMMA JoinSteppings ==
  ASSUME NEW pieces \in Seq(Bytes)
  PROVE  JoinSteps(pieces) \in [1..Len(pieces) -> [Bytes -> Bytes]]
<1>1. ASSUME NEW k \in 1..Len(pieces), NEW b \in Bytes PROVE b \o pieces[k] \in Bytes
  <2>1. pieces[k] \in Bytes
    OBVIOUS
  <2>. QED  BY <2>1, ConcatProperties DEF Bytes
<1>. QED  BY <1>1 DEF JoinSteps

LEMMA FlattenIs ==
  ASSUME NEW pieces \in Seq(Bytes)
  PROVE  \E g : IsJoin(g, pieces) /\ FlattenSeq(pieces) = g[Len(pieces)]
<1> DEFINE m == Len(pieces)
           step == JoinSteps(pieces)
           F(f) == [i \in 1..m |-> IF i = 1 THEN pieces[i] ELSE f[i - 1] \o pieces[i]]
           f == CHOOSE h : h = F(h)
<1>1. m \in Nat /\ (m # 0 => FlattenSeq(pieces) = f[m]) /\ (m = 0 => FlattenSeq(pieces) = <<>>)
  BY EmptySeq DEF FlattenSeq
<1>2. step \in [1..m -> [Bytes -> Bytes]] /\ <<>> \in Bytes
  BY JoinSteppings DEF Bytes
<1>3. \A k \in 1..m : pieces[k] \in Bytes
  OBVIOUS
<1>4. \A k \in 1..m, b \in Bytes : step[k][b] = b \o pieces[k]
  BY DEF JoinSteps
<1>. HIDE DEF m, F, step
<1>5. PICK g \in [0..m -> Bytes] : AreIterates(g, <<>>, step, m)
  BY <1>1, <1>2, IteratesExist DEF HaveIterates
<1>6. g[0] = <<>> /\ \A k \in 1..m : g[k] = g[k - 1] \o pieces[k]
  <2>1. g[0] = <<>>
    BY <1>1, <1>5 DEF AreIterates
  <2>2. ASSUME NEW k \in 1..m PROVE g[k] = g[k - 1] \o pieces[k]
    <3>1. k \in 0..m /\ k # 0 /\ k - 1 \in 0..m
      BY <1>1
    <3>2. g[k] = step[k][g[k - 1]] /\ g[k - 1] \in Bytes
      BY <1>5, <3>1 DEF AreIterates
    <3>. QED  BY <1>4, <3>2
  <2>. QED  BY <2>1, <2>2
<1>7. \E h : h = F(h)
  <2> DEFINE h == [i \in 1..m |-> g[i]]
  <2>1. ASSUME NEW i \in 1..m
        PROVE  h[i] = IF i = 1 THEN pieces[i] ELSE h[i - 1] \o pieces[i]
    <3>1. CASE i = 1
      <4>1. g[i] = <<>> \o pieces[i]
        <5>1. g[i] = g[i - 1] \o pieces[i] /\ g[0] = <<>>
          BY <1>6, Zenon
        <5>2. i - 1 = 0
          BY <3>1
        <5>. QED  BY <5>1, <5>2, Zenon
      <4>2. <<>> \o pieces[i] = pieces[i]
        BY <1>3, ConcatEmptySeq DEF Bytes
      <4>. QED  BY <3>1, <4>1, <4>2
    <3>2. CASE i # 1
      <4>1. i - 1 \in 1..m
        BY <1>1, <3>2
      <4>2. g[i] = g[i - 1] \o pieces[i]
        BY <1>6, Zenon
      <4>. QED  BY <3>2, <4>1, <4>2
    <3>. QED  BY <3>1, <3>2
  <2>2. h = [i \in 1..m |-> h[i]]
    OBVIOUS
  <2>. HIDE DEF h
  <2>3. h = F(h)
    BY <2>1, <2>2 DEF F
  <2>. QED  BY <2>3
<1>8. f = F(f)
  BY <1>7
<1>. HIDE DEF f
<1>9. \A i \in 1..m : f[i] = IF i = 1 THEN pieces[i] ELSE f[i - 1] \o pieces[i]
  <2> DEFINE u == f
  <2>1. u = F(f)
    BY <1>8
  <2>. HIDE DEF u
  <2>2. \A i \in 1..m : u[i] = IF i = 1 THEN pieces[i] ELSE f[i - 1] \o pieces[i]
    BY <2>1 DEF F
  <2>. QED  BY <2>2 DEF u
<1> DEFINE B == {i \in 1..m : f[i] # g[i]}
<1>10. ASSUME B # {} PROVE FALSE
  <2>. B \subseteq Nat
    OBVIOUS
  <2>1. PICK i \in B : \A j \in B : i <= j
    <3>. HIDE DEF B
    <3>. QED  BY <1>10, SmallestNumber
  <2>2. CASE i = 1
    <3>1. g[i] = <<>> \o pieces[i]
      <4>1. g[i] = g[i - 1] \o pieces[i] /\ g[0] = <<>>
        BY <1>6, Zenon
      <4>2. i - 1 = 0
        BY <2>2
      <4>. QED  BY <4>1, <4>2, Zenon
    <3>2. <<>> \o pieces[i] = pieces[i]
      BY <1>3, ConcatEmptySeq DEF Bytes
    <3>. QED  BY <1>9, <2>1, <2>2, <3>1, <3>2
  <2>3. CASE i # 1
    <3>1. i - 1 \in 1..m /\ i - 1 \notin B
      BY <1>1, <2>1, <2>3
    <3>2. f[i - 1] = g[i - 1]
      BY <3>1
    <3>. QED  BY <1>6, <1>9, <2>1, <2>3, <3>2
  <2>. QED  BY <2>2, <2>3
<1>11. FlattenSeq(pieces) = g[m]
  <2>1. CASE m = 0
    BY <1>1, <1>6, <2>1
  <2>2. CASE m # 0
    <3>1. m \in 1..m
      BY <1>1, <2>2
    <3>. QED  BY <1>1, <1>10, <2>2, <3>1
  <2>. QED  BY <2>1, <2>2
<1>. QED  BY <1>5, <1>11 DEF IsJoin, m, step

LEMMA FlattenProperties ==
  ASSUME NEW pieces \in Seq(Bytes)
  PROVE  /\ FlattenSeq(pieces) \in Bytes
         /\ pieces = <<>> => FlattenSeq(pieces) = <<>>
         /\ \A b \in Bytes : FlattenSeq(Append(pieces, b)) = FlattenSeq(pieces) \o b
<1> DEFINE m == Len(pieces)
<1>1. PICK g : IsJoin(g, pieces) /\ FlattenSeq(pieces) = g[Len(pieces)]
  BY FlattenIs
<1>2. m \in Nat /\ m \in 0..m
  OBVIOUS
<1>3. FlattenSeq(pieces) \in Bytes
  BY <1>1, <1>2 DEF IsJoin
<1>4. pieces = <<>> => FlattenSeq(pieces) = <<>>
  BY DEF FlattenSeq
<1>5. ASSUME NEW b \in Bytes PROVE FlattenSeq(Append(pieces, b)) = FlattenSeq(pieces) \o b
  <2> DEFINE more == Append(pieces, b)
             step == JoinSteps(more)
  <2>1. /\ more \in Seq(Bytes) /\ Len(more) = m + 1 /\ more[m + 1] = b
        /\ \A k \in 1..m : more[k] = pieces[k]
    BY AppendProperties
  <2>2. PICK h : IsJoin(h, more) /\ FlattenSeq(more) = h[Len(more)]
    BY <2>1, FlattenIs
  <2>. HIDE DEF more
  <2>3. \A k \in 1..m : step[k] = JoinSteps(pieces)[k]
    <3>. SUFFICES ASSUME NEW k \in 1..m PROVE step[k] = JoinSteps(pieces)[k]
      OBVIOUS
    <3>1. k \in 1..(m + 1) /\ more[k] = pieces[k]
      BY <1>2, <2>1
    <3>2. JoinSteps(pieces)[k] = [c \in Bytes |-> c \o pieces[k]]
      BY DEF JoinSteps
    <3>3. step[k] = [c \in Bytes |-> c \o more[k]]
      BY <2>1, <3>1 DEF JoinSteps
    <3>. QED  BY <3>1, <3>2, <3>3
  <2>4. AreIterates(g, <<>>, step, m)
    <3>1. AreIterates(g, <<>>, JoinSteps(pieces), m)
      BY <1>1 DEF IsJoin
    <3>2. \A n \in 0..m : n # 0 => step[n] = JoinSteps(pieces)[n]
      BY <2>3
    <3>. HIDE DEF step, m
    <3>. QED  BY <3>1, <3>2 DEF AreIterates
  <2>5. AreIterates(h, <<>>, step, m + 1) /\ h \in [0..(m + 1) -> Bytes]
    BY <2>1, <2>2 DEF IsJoin
  <2>6. step[m + 1] = [c \in Bytes |-> c \o b]
    <3>1. m + 1 \in 1..Len(more)
      BY <1>2, <2>1
    <3>2. step[m + 1] = [c \in Bytes |-> c \o more[m + 1]]
      BY <3>1 DEF JoinSteps
    <3>. QED  BY <2>1, <3>2
  <2>. HIDE DEF step, m
  <2>7. m + 1 \in Nat /\ m <= m + 1 /\ m + 1 \in 0..(m + 1) /\ m \in 0..(m + 1) /\ (m + 1) - 1 = m
    BY <1>2
  <2>8. \A n \in 0..m : g[n] = h[n]
    <3> DEFINE l == m + 1
    <3>1. m \in Nat /\ l \in Nat /\ m <= l
      BY <1>2, <2>7
    <3>2. AreIterates(h, <<>>, step, l)
      BY <2>5
    <3>. HIDE DEF l
    <3>. QED  BY <2>4, <3>1, <3>2, IteratesAgree
  <2>9. h[m + 1] = step[m + 1][h[m]] /\ h[m] \in Bytes
    <3>1. h[m + 1] = step[m + 1][h[(m + 1) - 1]]
      BY <2>5, <2>7, <1>2 DEF AreIterates
    <3>. QED  BY <2>5, <2>7, <3>1
  <2>10. h[m + 1] = g[m] \o b
    BY <1>2, <2>6, <2>8, <2>9
  <2>. QED  BY <1>1, <2>1, <2>2, <2>10 DEF more, m
<1>. QED  BY <1>3, <1>4, <1>5

-----------------------------------------------------------------------------
(* Formats: read undoes put on the values of T, whatever follows them, and *)
(* reads nothing else.                                                     *)

IsFormat(T, put, read) ==
  /\ \A x \in T : put[x] \in Bytes
  /\ \A x \in T, c \in Bytes : read[put[x] \o c] = Got(x, c)
  /\ \A b \in Bytes : read[b] = Fail \/ \E x \in T, c \in Bytes : b = put[x] \o c

LEMMA FormatReads ==
  ASSUME NEW T, NEW put, NEW read, IsFormat(T, put, read), NEW b \in Bytes, read[b] # Fail
  PROVE  \E x \in T, c \in Bytes : b = put[x] \o c /\ read[b] = Got(x, c)
<1>1. PICK x \in T, c \in Bytes : b = put[x] \o c
  BY DEF IsFormat
<1>2. read[put[x] \o c] = Got(x, c)
  BY DEF IsFormat
<1>. QED  BY <1>1, <1>2

LEMMA GotIsNotFail ==
  ASSUME NEW x, NEW c
  PROVE  Got(x, c) # Fail /\ Got(x, c).ok /\ Got(x, c).value = x /\ Got(x, c).rest = c /\ ~Fail.ok
BY DEF Got, Fail

-----------------------------------------------------------------------------
(* Values of the formats T[1], ..., T[m], one after the other, as InOrder  *)
(* reads them; U has the values of all of them.                            *)

Tuples(T, U, n) == {v \in [1..n -> U] : \A k \in 1..n : v[k] \in T[k]}
Pieces(put, v, n) == [k \in 1..n |-> put[k][v[k]]]
TuplePut(T, U, put, n) == [v \in Tuples(T, U, n) |-> FlattenSeq(Pieces(put, v, n))]

Outcomes(U) == {Fail} \cup [ok : {TRUE}, value : Seq(U), rest : Bytes]
ReadSteps(U, read, m) ==
  [n \in 1..m |-> [r \in Outcomes(U) |->
    Then(r, LAMBDA values, rest :
      Then(read[n][rest], LAMBDA v, rest2 : Got(Append(values, v), rest2)))]]
IsReading(g, U, read, m, b) ==
  g \in [0..m -> Outcomes(U)] /\ AreIterates(g, Got(<<>>, b), ReadSteps(U, read, m), m)
Reading(U, read, m, b) == CHOOSE g : IsReading(g, U, read, m, b)
TupleRead(U, read, m, n) == [b \in Bytes |-> Reading(U, read, m, b)[n]]

AreFormats(T, U, put, read, m) ==
  \A k \in 1..m : T[k] \subseteq U /\ IsFormat(T[k], put[k], read[k])

LEMMA OutcomesAre ==
  ASSUME NEW U
  PROVE  /\ Fail \in Outcomes(U)
         /\ \A v \in Seq(U), c \in Bytes : Got(v, c) \in Outcomes(U)
         /\ \A r \in Outcomes(U) : r = Fail \/ \E v \in Seq(U), c \in Bytes : r = Got(v, c)
<1>1. ASSUME NEW v \in Seq(U), NEW c \in Bytes PROVE Got(v, c) \in Outcomes(U)
  BY DEF Outcomes, Got
<1>2. ASSUME NEW r \in [ok : {TRUE}, value : Seq(U), rest : Bytes]
      PROVE  r.value \in Seq(U) /\ r.rest \in Bytes /\ r = Got(r.value, r.rest)
  BY DEF Got
<1>. QED  BY <1>1, <1>2, Zenon DEF Outcomes

LEMMA ReadStepsAre ==
  ASSUME NEW U, NEW m \in Nat, NEW read, NEW n \in 1..m, NEW r \in Outcomes(U)
  PROVE  /\ r = Fail => ReadSteps(U, read, m)[n][r] = Fail
         /\ \A v \in Seq(U), c \in Bytes : r = Got(v, c) =>
              /\ read[n][c] = Fail => ReadSteps(U, read, m)[n][r] = Fail
              /\ \A x, d : read[n][c] = Got(x, d) =>
                   ReadSteps(U, read, m)[n][r] = Got(Append(v, x), d)
<1>1. ReadSteps(U, read, m)[n][r] =
        Then(r, LAMBDA values, rest :
          Then(read[n][rest], LAMBDA v, rest2 : Got(Append(values, v), rest2)))
  BY DEF ReadSteps
<1>2. ReadSteps(U, read, m)[n][r] =
        IF r.ok THEN IF read[n][r.rest].ok
                       THEN Got(Append(r.value, read[n][r.rest].value), read[n][r.rest].rest)
                       ELSE Fail
                ELSE Fail
  BY <1>1 DEF Then
<1>. QED  BY <1>2, GotIsNotFail

LEMMA ReadSteppings ==
  ASSUME NEW U, NEW T, NEW put, NEW read, NEW m \in Nat, AreFormats(T, U, put, read, m)
  PROVE  ReadSteps(U, read, m) \in [1..m -> [Outcomes(U) -> Outcomes(U)]]
<1>1. ASSUME NEW n \in 1..m, NEW r \in Outcomes(U)
      PROVE  ReadSteps(U, read, m)[n][r] \in Outcomes(U)
  <2>1. CASE r = Fail
    BY <2>1, ReadStepsAre, OutcomesAre
  <2>2. ASSUME NEW v \in Seq(U), NEW c \in Bytes, r = Got(v, c)
        PROVE  ReadSteps(U, read, m)[n][r] \in Outcomes(U)
    <3>1. CASE read[n][c] = Fail
      BY <2>2, <3>1, ReadStepsAre, OutcomesAre
    <3>2. CASE read[n][c] # Fail
      <4>1. PICK x \in T[n], d \in Bytes : read[n][c] = Got(x, d)
        BY <3>2, FormatReads DEF AreFormats
      <4>2. ReadSteps(U, read, m)[n][r] = Got(Append(v, x), d)
        BY <2>2, <4>1, ReadStepsAre
      <4>3. Append(v, x) \in Seq(U)
        BY <4>1, AppendProperties DEF AreFormats
      <4>. QED  BY <4>1, <4>2, <4>3, OutcomesAre
    <3>. QED  BY <3>1, <3>2
  <2>. QED  BY <2>1, <2>2, OutcomesAre
<1> DEFINE step == ReadSteps(U, read, m)
<1>2. /\ step = [n \in 1..m |-> step[n]]
      /\ \A n \in 1..m : step[n] = [r \in Outcomes(U) |-> step[n][r]]
  BY DEF ReadSteps
<1>3. \A n \in 1..m, r \in Outcomes(U) : step[n][r] \in Outcomes(U)
  BY <1>1
<1>. HIDE DEF step
<1>4. \A n \in 1..m : step[n] \in [Outcomes(U) -> Outcomes(U)]
  BY <1>2, <1>3
<1>5. step \in [1..m -> [Outcomes(U) -> Outcomes(U)]]
  BY <1>2, <1>4
<1>. QED  BY <1>5 DEF step

LEMMA ReadingIs ==
  ASSUME NEW U, NEW T, NEW put, NEW read, NEW m \in Nat, AreFormats(T, U, put, read, m),
         NEW b \in Bytes
  PROVE  IsReading(Reading(U, read, m, b), U, read, m, b)
<1>1. Got(<<>>, b) \in Outcomes(U)
  BY EmptySeq, OutcomesAre
<1>2. HaveIterates(Outcomes(U), Got(<<>>, b), ReadSteps(U, read, m), m)
  BY <1>1, ReadSteppings, IteratesExist
<1>3. \E g : IsReading(g, U, read, m, b)
  BY <1>2 DEF HaveIterates, IsReading
<1>. QED  BY <1>3 DEF Reading

LEMMA ReadingSteps ==
  ASSUME NEW U, NEW T, NEW put, NEW read, NEW m \in Nat, AreFormats(T, U, put, read, m),
         NEW b \in Bytes, NEW n \in 1..m
  PROVE  /\ Reading(U, read, m, b)[n - 1] \in Outcomes(U)
         /\ Reading(U, read, m, b)[n] =
              ReadSteps(U, read, m)[n][Reading(U, read, m, b)[n - 1]]
<1> DEFINE g == Reading(U, read, m, b)
<1>1. g \in [0..m -> Outcomes(U)] /\ AreIterates(g, Got(<<>>, b), ReadSteps(U, read, m), m)
  BY ReadingIs DEF IsReading
<1>. HIDE DEF g
<1>2. n \in 0..m /\ n # 0 /\ n - 1 \in 0..m
  OBVIOUS
<1>3. g[n] = ReadSteps(U, read, m)[n][g[n - 1]]
  BY <1>1, <1>2 DEF AreIterates
<1>. QED  BY <1>1, <1>2, <1>3 DEF g

LEMMA TuplesAreSequences ==
  ASSUME NEW T, NEW U, NEW n \in Nat, NEW v \in Tuples(T, U, n)
  PROVE  v \in Seq(U) /\ Len(v) = n /\ \A k \in 1..n : v[k] \in T[k]
<1>1. v \in [1..n -> U] /\ \A k \in 1..n : v[k] \in T[k]
  BY DEF Tuples
<1>. QED  BY <1>1, IsASeq

LEMMA PiecesAre ==
  ASSUME NEW U, NEW T, NEW put, NEW read, NEW m \in Nat, AreFormats(T, U, put, read, m),
         NEW n \in 0..m, NEW v \in Tuples(T, U, n)
  PROVE  /\ Pieces(put, v, n) \in Seq(Bytes) /\ Len(Pieces(put, v, n)) = n
         /\ TuplePut(T, U, put, n)[v] = FlattenSeq(Pieces(put, v, n))
         /\ TuplePut(T, U, put, n)[v] \in Bytes
<1>1. ASSUME NEW k \in 1..n PROVE put[k][v[k]] \in Bytes
  <2>1. k \in 1..m /\ v[k] \in T[k]
    BY DEF Tuples
  <2>. QED  BY <2>1 DEF AreFormats, IsFormat
<1>2. Pieces(put, v, n) \in [1..n -> Bytes]
  BY <1>1 DEF Pieces
<1>3. n \in Nat
  OBVIOUS
<1>4. Pieces(put, v, n) \in Seq(Bytes) /\ Len(Pieces(put, v, n)) = n
  BY <1>2, <1>3, IsASeq
<1>. QED  BY <1>4, FlattenProperties DEF TuplePut

AddsPiece(T, U, put, n, w, x) ==
  TuplePut(T, U, put, n)[Append(w, x)] = TuplePut(T, U, put, n - 1)[w] \o put[n][x]

LEMMA TupleAppend ==
  ASSUME NEW U, NEW T, NEW put, NEW read, NEW m \in Nat, AreFormats(T, U, put, read, m),
         NEW n \in 1..m, NEW w \in Tuples(T, U, n - 1), NEW x \in T[n]
  PROVE  Append(w, x) \in Tuples(T, U, n) /\ AddsPiece(T, U, put, n, w, x)
<1> DEFINE v == Append(w, x)
<1>1. n - 1 \in Nat /\ n - 1 \in 0..m /\ n \in 0..m /\ n \in Nat /\ (n - 1) + 1 = n
  OBVIOUS
<1>2. w \in Seq(U) /\ Len(w) = n - 1 /\ \A k \in 1..(n - 1) : w[k] \in T[k]
  BY <1>1, TuplesAreSequences
<1>3. x \in U
  BY DEF AreFormats
<1>4. v \in Seq(U) /\ Len(v) = n /\ v[n] = x /\ \A k \in 1..(n - 1) : v[k] = w[k]
  BY <1>1, <1>2, <1>3, AppendProperties
<1>. HIDE DEF v
<1>5. v \in Tuples(T, U, n)
  <2>1. v \in [1..n -> U]
    BY <1>4
  <2>2. ASSUME NEW k \in 1..n PROVE v[k] \in T[k]
    <3>1. CASE k = n
      BY <1>4, <3>1
    <3>2. CASE k # n
      <4>1. k \in 1..(n - 1)
        BY <3>2
      <4>. QED  BY <1>2, <1>4, <4>1
    <3>. QED  BY <3>1, <3>2
  <2>. QED  BY <2>1, <2>2 DEF Tuples
<1> DEFINE p == Pieces(put, w, n - 1)
           q == Pieces(put, v, n)
           y == put[n][x]
<1>6. /\ p \in Seq(Bytes) /\ Len(p) = n - 1
      /\ TuplePut(T, U, put, n - 1)[w] = FlattenSeq(p)
  BY <1>1, PiecesAre
<1>7. q \in Seq(Bytes) /\ Len(q) = n /\ TuplePut(T, U, put, n)[v] = FlattenSeq(q)
  BY <1>1, <1>5, PiecesAre
<1>8. y \in Bytes
  BY DEF AreFormats, IsFormat
<1>9. /\ \A k \in 1..(n - 1) : p[k] = put[k][w[k]]
      /\ \A k \in 1..n : q[k] = put[k][v[k]]
  BY DEF Pieces
<1>. HIDE DEF p, q
<1>10. q = Append(p, y)
  <2>1. /\ Append(p, y) \in Seq(Bytes) /\ Len(Append(p, y)) = n /\ Append(p, y)[n] = y
        /\ \A k \in 1..(n - 1) : Append(p, y)[k] = p[k]
    BY <1>1, <1>6, <1>8, AppendProperties
  <2>2. ASSUME NEW k \in 1..n PROVE q[k] = Append(p, y)[k]
    <3>1. CASE k = n
      BY <1>4, <1>9, <2>1, <3>1
    <3>2. CASE k # n
      <4>1. k \in 1..(n - 1)
        BY <3>2
      <4>. QED  BY <1>4, <1>9, <2>1, <4>1
    <3>. QED  BY <3>1, <3>2
  <2>. QED  BY <1>7, <2>1, <2>2, SeqEqual
<1>11. FlattenSeq(q) = FlattenSeq(p) \o y
  BY <1>6, <1>8, <1>10, FlattenProperties
<1>. QED  BY <1>5, <1>6, <1>7, <1>11 DEF v, AddsPiece

LEMMA TupleSplit ==
  ASSUME NEW U, NEW T, NEW n \in Nat, n # 0, NEW v \in Tuples(T, U, n)
  PROVE  \E w \in Tuples(T, U, n - 1), x \in T[n] : v = Append(w, x)
<1> DEFINE w == [k \in 1..(n - 1) |-> v[k]]
           x == v[n]
<1>1. v \in Seq(U) /\ Len(v) = n /\ \A k \in 1..n : v[k] \in T[k]
  BY TuplesAreSequences
<1>2. n - 1 \in Nat /\ (n - 1) + 1 = n
  OBVIOUS
<1>3. x \in U /\ x \in T[n]
  BY <1>1
<1>4. w \in [1..(n - 1) -> U] /\ \A k \in 1..(n - 1) : w[k] = v[k] /\ w[k] \in T[k]
  BY <1>1
<1>. HIDE DEF w
<1>5. w \in Tuples(T, U, n - 1)
  BY <1>4 DEF Tuples
<1>6. w \in Seq(U) /\ Len(w) = n - 1
  BY <1>2, <1>5, TuplesAreSequences
<1>7. /\ Append(w, x) \in Seq(U) /\ Len(Append(w, x)) = n /\ Append(w, x)[n] = x
      /\ \A k \in 1..(n - 1) : Append(w, x)[k] = w[k]
  BY <1>2, <1>3, <1>6, AppendProperties
<1>8. ASSUME NEW k \in 1..n PROVE v[k] = Append(w, x)[k]
  <2>1. CASE k = n
    BY <1>7, <2>1
  <2>2. CASE k # n
    <3>1. k \in 1..(n - 1)
      BY <2>2
    <3>. QED  BY <1>4, <1>7, <3>1
  <2>. QED  BY <2>1, <2>2
<1>9. v = Append(w, x)
  BY <1>1, <1>7, <1>8, SeqEqual
<1>. QED  BY <1>3, <1>5, <1>9

LEMMA NoTuple ==
  ASSUME NEW T, NEW U, NEW put
  PROVE  Tuples(T, U, 0) = {<<>>} /\ TuplePut(T, U, put, 0)[<<>>] = <<>>
<1>1. \A v : v \in [1..0 -> U] <=> v = <<>>
  <2>1. ASSUME NEW v \in [1..0 -> U] PROVE v = <<>>
    <3>1. v \in Seq(U) /\ Len(v) = 0
      BY IsASeq
    <3>. QED  BY <3>1, EmptySeq
  <2>2. <<>> \in [1..0 -> U]
    OBVIOUS
  <2>. QED  BY <2>1, <2>2
<1>2. Tuples(T, U, 0) = {<<>>}
  BY <1>1 DEF Tuples
<1>3. Pieces(put, <<>>, 0) = <<>>
  BY DEF Pieces
<1>4. FlattenSeq(<<>>) = <<>>
  BY EmptySeq, FlattenProperties
<1>. QED  BY <1>2, <1>3, <1>4 DEF TuplePut

LEMMA NextTupleFormat ==
  ASSUME NEW U, NEW T, NEW put, NEW read, NEW m \in Nat, AreFormats(T, U, put, read, m),
         NEW n \in 1..m,
         IsFormat(Tuples(T, U, n - 1), TuplePut(T, U, put, n - 1), TupleRead(U, read, m, n - 1))
  PROVE  IsFormat(Tuples(T, U, n), TuplePut(T, U, put, n), TupleRead(U, read, m, n))
<1> DEFINE S == Tuples(T, U, n - 1)
           before == TuplePut(T, U, put, n - 1)
           R(b) == Reading(U, read, m, b)
           step == ReadSteps(U, read, m)
<1>1. n - 1 \in Nat /\ n \in Nat /\ n # 0 /\ n \in 0..m
  OBVIOUS
<1>2. \A v \in Tuples(T, U, n) : TuplePut(T, U, put, n)[v] \in Bytes
  BY <1>1, PiecesAre
<1>3. \A b \in Bytes : /\ TupleRead(U, read, m, n - 1)[b] = R(b)[n - 1]
                       /\ TupleRead(U, read, m, n)[b] = R(b)[n]
  BY DEF TupleRead
<1>4. \A w \in S : before[w] \in Bytes
  BY DEF IsFormat
<1>5. (\A x \in T[n] : put[n][x] \in Bytes) /\ IsFormat(T[n], put[n], read[n])
  BY DEF AreFormats, IsFormat
<1>6. \A w \in S, c \in Bytes : TupleRead(U, read, m, n - 1)[before[w] \o c] = Got(w, c)
  BY DEF IsFormat
<1>7. \A b \in Bytes : R(b)[n - 1] \in Outcomes(U) /\ R(b)[n] = step[n][R(b)[n - 1]]
  BY ReadingSteps
<1>8. \A w \in S : w \in Seq(U)
  BY <1>1, TuplesAreSequences
<1>9. \A b \in Bytes : R(b)[n - 1] = Fail \/ \E w \in S, c \in Bytes : b = before[w] \o c
  BY <1>3 DEF IsFormat
<1>11. ASSUME NEW w \in S, NEW x \in T[n]
       PROVE  /\ Append(w, x) \in Tuples(T, U, n)
              /\ TuplePut(T, U, put, n)[Append(w, x)] = before[w] \o put[n][x]
  <2>. HIDE DEF S, before
  <2>1. w \in Tuples(T, U, n - 1)
    BY DEF S
  <2>2. Append(w, x) \in Tuples(T, U, n) /\ AddsPiece(T, U, put, n, w, x)
    BY <2>1, TupleAppend
  <2>. QED  BY <2>2, Zenon DEF before, AddsPiece
<1>14. ASSUME NEW v \in Tuples(T, U, n) PROVE \E w \in S, x \in T[n] : v = Append(w, x)
  BY <1>1, TupleSplit
<1>. HIDE DEF S, before, R, step
<1>10. ASSUME NEW w \in S, NEW x \in T[n], NEW c \in Bytes
       PROVE  /\ (before[w] \o put[n][x]) \o c \in Bytes
              /\ (before[w] \o put[n][x]) \o c = before[w] \o (put[n][x] \o c)
              /\ R((before[w] \o put[n][x]) \o c)[n] = Got(Append(w, x), c)
  <2> DEFINE p == before[w]
             q == put[n][x]
             b == (p \o q) \o c
  <2>1. p \in Bytes /\ q \in Bytes
    BY <1>4, <1>5
  <2>2. read[n][q \o c] = Got(x, c)
    BY <1>5 DEF IsFormat
  <2>3. \A d \in Bytes : p \o d \in Bytes /\ R(p \o d)[n - 1] = Got(w, d)
    BY <1>3, <1>6, <2>1, ConcatProperties DEF Bytes
  <2>. HIDE DEF p, q
  <2>4. q \o c \in Bytes /\ b \in Bytes /\ b = p \o (q \o c)
    BY <2>1, ConcatProperties, ConcatAssociative DEF Bytes
  <2>. HIDE DEF b
  <2>5. R(b)[n - 1] = Got(w, q \o c)
    BY <2>3, <2>4
  <2>6. R(b)[n] = step[n][R(b)[n - 1]] /\ R(b)[n - 1] \in Outcomes(U)
    BY <1>7, <2>4
  <2>7. R(b)[n] = Got(Append(w, x), c)
    BY <1>8, <2>2, <2>4, <2>5, <2>6, ReadStepsAre DEF step
  <2>. QED  BY <2>4, <2>7 DEF b, p, q
<1>12. ASSUME NEW v \in Tuples(T, U, n), NEW c \in Bytes
       PROVE  TupleRead(U, read, m, n)[TuplePut(T, U, put, n)[v] \o c] = Got(v, c)
  <2>1. PICK w \in S, x \in T[n] : v = Append(w, x)
    BY <1>14
  <2>2. TuplePut(T, U, put, n)[v] = before[w] \o put[n][x]
    BY <1>11, <2>1
  <2> DEFINE b == (before[w] \o put[n][x]) \o c
  <2>3. b \in Bytes /\ R(b)[n] = Got(Append(w, x), c)
    BY <1>10
  <2>. HIDE DEF b
  <2>4. TupleRead(U, read, m, n)[b] = Got(v, c)
    BY <1>3, <2>1, <2>3
  <2>. QED  BY <2>2, <2>4 DEF b
<1>13. ASSUME NEW b \in Bytes
       PROVE  \/ TupleRead(U, read, m, n)[b] = Fail
              \/ \E v \in Tuples(T, U, n), c \in Bytes : b = TuplePut(T, U, put, n)[v] \o c
  <2>1. R(b)[n] = step[n][R(b)[n - 1]] /\ R(b)[n - 1] \in Outcomes(U)
    BY <1>7
  <2>2. CASE R(b)[n - 1] = Fail
    <3>1. R(b)[n] = Fail
      BY <2>1, <2>2, ReadStepsAre DEF step
    <3>. QED  BY <1>3, <3>1
  <2>3. CASE R(b)[n - 1] # Fail
    <3>1. PICK w \in S, d \in Bytes : b = before[w] \o d
      BY <1>9, <2>3
    <3>2. R(b)[n - 1] = Got(w, d)
      BY <1>3, <1>6, <3>1
    <3>3. CASE read[n][d] = Fail
      <4>1. R(b)[n] = Fail
        BY <1>8, <2>1, <3>2, <3>3, ReadStepsAre DEF step
      <4>. QED  BY <1>3, <4>1
    <3>4. CASE read[n][d] # Fail
      <4>1. PICK x \in T[n], c \in Bytes : d = put[n][x] \o c
        BY <1>5, <3>4 DEF IsFormat
      <4>2. b = (before[w] \o put[n][x]) \o c
        BY <1>10, <3>1, <4>1
      <4>3. /\ Append(w, x) \in Tuples(T, U, n)
            /\ TuplePut(T, U, put, n)[Append(w, x)] = before[w] \o put[n][x]
        BY <1>11
      <4>4. b = TuplePut(T, U, put, n)[Append(w, x)] \o c
        BY <4>2, <4>3
      <4>. QED  BY <4>3, <4>4
    <3>. QED  BY <3>3, <3>4
  <2>. QED  BY <2>2, <2>3
<1>. QED  BY <1>2, <1>12, <1>13 DEF IsFormat

\* Values of some formats, one after the other, are a format.
LEMMA TupleFormat ==
  ASSUME NEW U, NEW T, NEW put, NEW read, NEW m \in Nat, AreFormats(T, U, put, read, m)
  PROVE  \A n \in 0..m :
           IsFormat(Tuples(T, U, n), TuplePut(T, U, put, n), TupleRead(U, read, m, n))
<1> DEFINE Good(n) == IsFormat(Tuples(T, U, n), TuplePut(T, U, put, n), TupleRead(U, read, m, n))
           B == {n \in 0..m : ~Good(n)}
<1>1. Good(0)
  <2>1. \A b \in Bytes : TupleRead(U, read, m, 0)[b] = Got(<<>>, b)
    <3>. SUFFICES ASSUME NEW b \in Bytes PROVE Reading(U, read, m, b)[0] = Got(<<>>, b)
      BY DEF TupleRead
    <3>1. AreIterates(Reading(U, read, m, b), Got(<<>>, b), ReadSteps(U, read, m), m)
      BY ReadingIs DEF IsReading
    <3>2. 0 \in 0..m
      OBVIOUS
    <3>. QED  BY <3>1, <3>2 DEF AreIterates
  <2>2. /\ Tuples(T, U, 0) = {<<>>} /\ TuplePut(T, U, put, 0)[<<>>] = <<>>
        /\ <<>> \in Bytes
    <3>1. <<>> \in Bytes
      BY EmptySeq DEF Bytes
    <3>. QED  BY <3>1, NoTuple
  <2>3. \A c \in Bytes : <<>> \o c = c
    BY ConcatEmptySeq DEF Bytes
  <2>. QED  BY <2>1, <2>2, <2>3 DEF IsFormat
<1>2. ASSUME B # {} PROVE FALSE
  <2>1. PICK n \in B : \A k \in B : n <= k
    <3>. B \subseteq Nat
      OBVIOUS
    <3>. HIDE DEF B
    <3>. QED  BY <1>2, SmallestNumber
  <2>2. n # 0
    BY <1>1, <2>1
  <2>3. n \in 1..m /\ n - 1 \in 0..m /\ n - 1 \notin B /\ ~Good(n)
    BY <2>1, <2>2
  <2>4. Good(n - 1)
    BY <2>3
  <2>. QED  BY <2>3, <2>4, NextTupleFormat
<1>. QED  BY <1>2

-----------------------------------------------------------------------------
(* InOrder is that reading, for the three kinds of items it is used with.  *)

Follows(t, V, a, step, m) ==
  t[0] = a /\ \A n \in 1..m : t[n - 1] \in V => t[n] = step[n][t[n - 1]]

LEMMA IteratesFound ==
  ASSUME NEW V, NEW a, NEW m \in Nat, NEW step,
         NEW g \in [0..m -> V], AreIterates(g, a, step, m),
         NEW t, Follows(t, V, a, step, m)
  PROVE  t[m] = g[m]
<1> DEFINE B == {n \in 0..m : t[n] # g[n]}
<1>1. ASSUME B # {} PROVE FALSE
  <2>. B \subseteq Nat
    OBVIOUS
  <2>1. PICK n \in B : \A k \in B : n <= k
    <3>. HIDE DEF B
    <3>. QED  BY <1>1, SmallestNumber
  <2>2. CASE n = 0
    BY <2>1, <2>2 DEF AreIterates, Follows
  <2>3. CASE n # 0
    <3>1. n \in 0..m /\ n \in 1..m /\ n - 1 \in 0..m /\ n - 1 \notin B
      BY <2>1, <2>3
    <3>2. t[n - 1] = g[n - 1] /\ g[n - 1] \in V
      BY <3>1
    <3>3. g[n] = step[n][g[n - 1]]
      BY <2>3, <3>1 DEF AreIterates
    <3>. QED  BY <2>1, <3>1, <3>2, <3>3 DEF Follows
  <2>. QED  BY <2>2, <2>3
<1>2. m \in 0..m
  OBVIOUS
<1>. QED  BY <1>1, <1>2

Item(reader, type, b) ==
  CASE reader = "primitive" -> Take(type, b)
    [] reader = "element" -> TakeElement(type, b)
    [] reader = "field" -> TakeField(type, b)
Extended(reader, type, r) ==
  Then(r, LAMBDA values, rest :
    Then(Item(reader, type, rest), LAMBDA v, rest2 : Got(Append(values, v), rest2)))
ReadsItems(read, m, reader, types) ==
  Len(types) = m /\ \A n \in 1..m, c \in Bytes : read[n][c] = Item(reader, types[n], c)
InOrderSteps(reader, types, b, u) ==
  [n \in 0..Len(types) |-> IF n = 0 THEN Got(<<>>, b) ELSE Extended(reader, types[n], u[n - 1])]

LEMMA ExtendedIs ==
  ASSUME NEW U, NEW T, NEW put, NEW read, NEW m \in Nat, AreFormats(T, U, put, read, m),
         NEW reader, NEW types, ReadsItems(read, m, reader, types), NEW n \in 1..m,
         NEW r \in Outcomes(U)
  PROVE  Extended(reader, types[n], r) = ReadSteps(U, read, m)[n][r]
<1> DEFINE e == Extended(reader, types[n], r)
<1>1. CASE r = Fail
  <2>1. e = Fail
    BY <1>1, GotIsNotFail DEF Then, Extended
  <2>. HIDE DEF e
  <2>2. e = ReadSteps(U, read, m)[n][r]
    BY <1>1, <2>1, ReadStepsAre
  <2>. QED  BY <2>2 DEF e
<1>2. CASE r # Fail
  <2>1. PICK v \in Seq(U), c \in Bytes : r = Got(v, c)
    BY <1>2, OutcomesAre
  <2>2. Item(reader, types[n], c) = read[n][c]
    BY DEF ReadsItems
  <2>3. e = Then(read[n][c], LAMBDA x, d : Got(Append(v, x), d))
    BY <2>1, <2>2, GotIsNotFail DEF Then, Extended
  <2>4. read[n][c] = Fail => e = Fail
    BY <2>3, GotIsNotFail DEF Then
  <2>5. \A x, d : read[n][c] = Got(x, d) => e = Got(Append(v, x), d)
    BY <2>3, GotIsNotFail DEF Then
  <2>6. read[n][c] # Fail => \E x \in T[n], d \in Bytes : read[n][c] = Got(x, d)
    <3>1. IsFormat(T[n], put[n], read[n])
      BY DEF AreFormats
    <3>. QED  BY <3>1, FormatReads
  <2>. HIDE DEF e
  <2>7. CASE read[n][c] = Fail
    <3>1. ReadSteps(U, read, m)[n][r] = Fail
      BY <2>1, <2>7, ReadStepsAre
    <3>. QED  BY <2>4, <2>7, <3>1 DEF e
  <2>8. CASE read[n][c] # Fail
    <3>1. PICK x \in T[n], d \in Bytes : read[n][c] = Got(x, d)
      BY <2>6, <2>8
    <3>2. ReadSteps(U, read, m)[n][r] = Got(Append(v, x), d)
      BY <2>1, <3>1, ReadStepsAre
    <3>. QED  BY <2>5, <3>1, <3>2 DEF e
  <2>. QED  BY <2>7, <2>8
<1>. QED  BY <1>1, <1>2

\* The recursion of InOrder has a solution, and any solution ends as the reading does.
LEMMA InOrderSolved ==
  ASSUME NEW U, NEW T, NEW put, NEW read, NEW m \in Nat, AreFormats(T, U, put, read, m),
         NEW reader, NEW types, ReadsItems(read, m, reader, types), NEW b \in Bytes
  PROVE  /\ \E u : u = InOrderSteps(reader, types, b, u)
         /\ \A t : t = InOrderSteps(reader, types, b, t) => t[m] = Reading(U, read, m, b)[m]
<1> DEFINE g == Reading(U, read, m, b)
           step == ReadSteps(U, read, m)
           V == Outcomes(U)
           a == Got(<<>>, b)
<1>1. g \in [0..m -> V] /\ AreIterates(g, a, step, m)
  BY ReadingIs DEF IsReading
<1>2. \A n \in 1..m, r \in V : Extended(reader, types[n], r) = step[n][r]
  BY ExtendedIs
<1>. HIDE DEF g, step, V, a
<1>3. \E u : u = InOrderSteps(reader, types, b, u)
  <2>1. ASSUME NEW n \in 0..m
        PROVE  g[n] = IF n = 0 THEN a ELSE Extended(reader, types[n], g[n - 1])
    <3>1. CASE n = 0
      BY <1>1, <3>1 DEF AreIterates
    <3>2. CASE n # 0
      <4>1. n \in 1..m /\ n - 1 \in 0..m
        BY <3>2
      <4>2. g[n - 1] \in V
        BY <1>1, <4>1
      <4>3. g[n] = step[n][g[n - 1]]
        BY <1>1, <3>2 DEF AreIterates
      <4>. QED  BY <1>2, <3>2, <4>1, <4>2, <4>3
    <3>. QED  BY <3>1, <3>2
  <2>2. g = [n \in 0..m |-> g[n]]
    BY <1>1
  <2>3. g = InOrderSteps(reader, types, b, g)
    BY <2>1, <2>2 DEF InOrderSteps, a, ReadsItems
  <2>. QED  BY <2>3
<1>4. ASSUME NEW t, t = InOrderSteps(reader, types, b, t)
      PROVE  t[m] = g[m]
  <2> DEFINE u == InOrderSteps(reader, types, b, t)
  <2>1. u[0] = a /\ \A n \in 1..m : u[n] = Extended(reader, types[n], t[n - 1])
    BY DEF InOrderSteps, a, ReadsItems
  <2>2. t = u
    BY <1>4
  <2>. HIDE DEF u
  <2>3. t[0] = a
    BY <2>1, <2>2
  <2>4. \A n \in 1..m : t[n - 1] \in V => t[n] = step[n][t[n - 1]]
    BY <1>2, <2>1, <2>2
  <2>5. Follows(t, V, a, step, m)
    BY <2>3, <2>4 DEF Follows
  <2>. QED  BY <1>1, <2>5, IteratesFound
<1>. QED  BY <1>3, <1>4 DEF g

LEMMA InOrderOfTake ==
  ASSUME NEW U, NEW T, NEW put, NEW read, NEW m \in Nat, AreFormats(T, U, put, read, m),
         NEW types, ReadsItems(read, m, "primitive", types), NEW b \in Bytes
  PROVE  InOrder(Take, types, b) = Reading(U, read, m, b)[m]
<1> DEFINE E(n, r) == Then(r, LAMBDA values, rest :
              Then(Take(types[n], rest), LAMBDA v, rest2 : Got(Append(values, v), rest2)))
           F(u) == [n \in 0..Len(types) |-> IF n = 0 THEN Got(<<>>, b) ELSE E(n, u[n - 1])]
           t == CHOOSE u : u = F(u)
<1>1. InOrder(Take, types, b) = t[m]
  BY DEF InOrder, ReadsItems
<1>2. \A n, r : Extended("primitive", types[n], r) = E(n, r)
  BY DEF Extended, Item, Then
<1>. HIDE DEF E
<1>3. \A u : F(u) = InOrderSteps("primitive", types, b, u)
  BY <1>2 DEF InOrderSteps
<1>. HIDE DEF F
<1>4. /\ \E u : u = InOrderSteps("primitive", types, b, u)
      /\ \A u : u = InOrderSteps("primitive", types, b, u) => u[m] = Reading(U, read, m, b)[m]
  BY InOrderSolved
<1>5. t = F(t)
  BY <1>3, <1>4
<1>. HIDE DEF t
<1>. QED  BY <1>1, <1>3, <1>4, <1>5

LEMMA InOrderOfTakeElement ==
  ASSUME NEW U, NEW T, NEW put, NEW read, NEW m \in Nat, AreFormats(T, U, put, read, m),
         NEW types, ReadsItems(read, m, "element", types), NEW b \in Bytes
  PROVE  InOrder(TakeElement, types, b) = Reading(U, read, m, b)[m]
<1> DEFINE E(n, r) == Then(r, LAMBDA values, rest :
              Then(TakeElement(types[n], rest), LAMBDA v, rest2 : Got(Append(values, v), rest2)))
           F(u) == [n \in 0..Len(types) |-> IF n = 0 THEN Got(<<>>, b) ELSE E(n, u[n - 1])]
           t == CHOOSE u : u = F(u)
<1>1. InOrder(TakeElement, types, b) = t[m]
  BY DEF InOrder, ReadsItems
<1>2. \A n, r : Extended("element", types[n], r) = E(n, r)
  BY DEF Extended, Item, Then
<1>. HIDE DEF E
<1>3. \A u : F(u) = InOrderSteps("element", types, b, u)
  BY <1>2 DEF InOrderSteps
<1>. HIDE DEF F
<1>4. /\ \E u : u = InOrderSteps("element", types, b, u)
      /\ \A u : u = InOrderSteps("element", types, b, u) => u[m] = Reading(U, read, m, b)[m]
  BY InOrderSolved
<1>5. t = F(t)
  BY <1>3, <1>4
<1>. HIDE DEF t
<1>. QED  BY <1>1, <1>3, <1>4, <1>5

LEMMA InOrderOfTakeField ==
  ASSUME NEW U, NEW T, NEW put, NEW read, NEW m \in Nat, AreFormats(T, U, put, read, m),
         NEW types, ReadsItems(read, m, "field", types), NEW b \in Bytes
  PROVE  InOrder(TakeField, types, b) = Reading(U, read, m, b)[m]
<1> DEFINE E(n, r) == Then(r, LAMBDA values, rest :
              Then(TakeField(types[n], rest), LAMBDA v, rest2 : Got(Append(values, v), rest2)))
           F(u) == [n \in 0..Len(types) |-> IF n = 0 THEN Got(<<>>, b) ELSE E(n, u[n - 1])]
           t == CHOOSE u : u = F(u)
<1>1. InOrder(TakeField, types, b) = t[m]
  BY DEF InOrder, ReadsItems
<1>2. \A n, r : Extended("field", types[n], r) = E(n, r)
  BY DEF Extended, Item, Then
<1>. HIDE DEF E
<1>3. \A u : F(u) = InOrderSteps("field", types, b, u)
  BY <1>2 DEF InOrderSteps
<1>. HIDE DEF F
<1>4. /\ \E u : u = InOrderSteps("field", types, b, u)
      /\ \A u : u = InOrderSteps("field", types, b, u) => u[m] = Reading(U, read, m, b)[m]
  BY InOrderSolved
<1>5. t = F(t)
  BY <1>3, <1>4
<1>. HIDE DEF t
<1>. QED  BY <1>1, <1>3, <1>4, <1>5

-----------------------------------------------------------------------------
(* Formats from formats. *)

LEMMA SameFormat ==
  ASSUME NEW T, NEW put, NEW read, IsFormat(T, put, read),
         NEW like, \A x \in T : like[x] = put[x],
         NEW alike, \A b \in Bytes : alike[b] = read[b]
  PROVE  IsFormat(T, like, alike)
<1>1. \A x \in T, c \in Bytes : put[x] \o c \in Bytes
  BY ConcatProperties DEF Bytes, IsFormat
<1>. QED  BY <1>1 DEF IsFormat

\* Some of the values are let in.
Filters(alike, S, read) ==
  \A b \in Bytes : alike[b] = IF read[b].ok /\ read[b].value \in S THEN read[b] ELSE Fail

LEMMA FilterFormat ==
  ASSUME NEW T, NEW put, NEW read, IsFormat(T, put, read),
         NEW S \in SUBSET T, NEW alike, Filters(alike, S, read)
  PROVE  IsFormat(S, put, alike)
<1>1. \A x \in S : put[x] \in Bytes
  BY DEF IsFormat
<1>2. ASSUME NEW x \in S, NEW c \in Bytes PROVE alike[put[x] \o c] = Got(x, c)
  <2> DEFINE b == put[x] \o c
  <2>1. b \in Bytes
    BY <1>1, ConcatProperties DEF Bytes
  <2>2. read[b] = Got(x, c)
    BY DEF IsFormat
  <2>. HIDE DEF b
  <2>3. alike[b] = Got(x, c)
    BY <2>1, <2>2, GotIsNotFail DEF Filters
  <2>. QED  BY <2>3 DEF b
<1>3. ASSUME NEW b \in Bytes, alike[b] # Fail
      PROVE  \E x \in S, c \in Bytes : b = put[x] \o c
  <2>1. read[b].ok /\ read[b].value \in S
    BY <1>3 DEF Filters
  <2>2. PICK x \in T, c \in Bytes : b = put[x] \o c /\ read[b] = Got(x, c)
    <3>1. read[b] # Fail
      BY <2>1, GotIsNotFail
    <3>. QED  BY <3>1, FormatReads
  <2>3. x \in S
    BY <2>1, <2>2, GotIsNotFail
  <2>. QED  BY <2>2, <2>3
<1>. QED  BY <1>1, <1>2, <1>3 DEF IsFormat

\* A head, and then a part whose format depends on it.
IsHeaded(T, head, part, put, alike, hput, hread, pread) ==
  /\ \A v \in T : put[v] = hput[head[v]] \o part[v]
  /\ \A b \in Bytes : alike[b] = IF hread[b].ok THEN pread[hread[b].value][hread[b].rest] ELSE Fail

LEMMA HeadedFormat ==
  ASSUME NEW H, NEW hput, NEW hread, IsFormat(H, hput, hread),
         NEW T, NEW head \in [T -> H], NEW part, NEW pread,
         \A x \in H : IsFormat({v \in T : head[v] = x}, part, pread[x]),
         NEW put, NEW alike, IsHeaded(T, head, part, put, alike, hput, hread, pread)
  PROVE  IsFormat(T, put, alike)
<1>1. ASSUME NEW v \in T
      PROVE  /\ head[v] \in H /\ hput[head[v]] \in Bytes /\ part[v] \in Bytes
             /\ put[v] = hput[head[v]] \o part[v] /\ put[v] \in Bytes
             /\ \A c \in Bytes : pread[head[v]][part[v] \o c] = Got(v, c)
  <2>1. head[v] \in H /\ hput[head[v]] \in Bytes /\ put[v] = hput[head[v]] \o part[v]
    BY DEF IsFormat, IsHeaded
  <2>2. IsFormat({w \in T : head[w] = head[v]}, part, pread[head[v]])
    BY <2>1
  <2>3. part[v] \in Bytes /\ \A c \in Bytes : pread[head[v]][part[v] \o c] = Got(v, c)
    BY <2>2 DEF IsFormat
  <2>4. put[v] \in Bytes
    BY <2>1, <2>3, ConcatProperties DEF Bytes
  <2>. QED  BY <2>1, <2>3, <2>4
<1>2. ASSUME NEW v \in T, NEW c \in Bytes PROVE alike[put[v] \o c] = Got(v, c)
  <2> DEFINE x == head[v]
             p == hput[x]
             q == part[v]
             b == p \o (q \o c)
  <2>1. x \in H /\ p \in Bytes /\ q \in Bytes /\ put[v] = p \o q /\ pread[x][q \o c] = Got(v, c)
    BY <1>1
  <2>2. hread[p \o (q \o c)] = Got(x, q \o c)
    <3>1. q \o c \in Bytes
      BY <2>1, ConcatProperties DEF Bytes
    <3>. QED  BY <2>1, <3>1 DEF IsFormat
  <2>. HIDE DEF x, p, q
  <2>3. b \in Bytes /\ (p \o q) \o c = b
    BY <2>1, ConcatProperties, ConcatAssociative DEF Bytes
  <2>4. hread[b] = Got(x, q \o c)
    BY <2>2
  <2>. HIDE DEF b
  <2>5. alike[b] = pread[x][q \o c]
    BY <2>3, <2>4, GotIsNotFail DEF IsHeaded
  <2>6. put[v] \o c = b
    BY <2>1, <2>3
  <2>7. pread[x][q \o c] = Got(v, c)
    BY <2>1
  <2>. QED  BY <2>5, <2>6, <2>7, Zenon
<1>3. ASSUME NEW b \in Bytes, alike[b] # Fail
      PROVE  \E v \in T, c \in Bytes : b = put[v] \o c
  <2>1. hread[b].ok /\ alike[b] = pread[hread[b].value][hread[b].rest]
    BY <1>3 DEF IsHeaded
  <2>2. PICK x \in H, d \in Bytes : b = hput[x] \o d /\ hread[b] = Got(x, d)
    <3>1. hread[b] # Fail
      BY <2>1, GotIsNotFail
    <3>. QED  BY <3>1, FormatReads
  <2>3. pread[x][d] # Fail
    BY <1>3, <2>1, <2>2, GotIsNotFail
  <2>4. PICK v \in {w \in T : head[w] = x}, c \in Bytes : d = part[v] \o c
    BY <2>3 DEF IsFormat
  <2> DEFINE p == hput[x]
             q == part[v]
  <2>5. v \in T /\ p \in Bytes /\ q \in Bytes /\ put[v] = p \o q /\ b = p \o (q \o c)
    BY <1>1, <2>2, <2>4
  <2>. HIDE DEF p, q
  <2>6. p \o (q \o c) = (p \o q) \o c
    <3>1. p \in Seq(Byte) /\ q \in Seq(Byte) /\ c \in Seq(Byte)
      BY <2>5 DEF Bytes
    <3>. QED  BY <3>1, ConcatAssociative, SMTT(30)
  <2>7. b = put[v] \o c
    BY <2>5, <2>6
  <2>. QED  BY <2>5, <2>7
<1>. QED  BY <1>1, <1>2, <1>3 DEF IsFormat

-----------------------------------------------------------------------------
(* The primitives. *)

LEMMA TakeBytesGets ==
  ASSUME NEW d \in Bytes, NEW c \in Bytes
  PROVE  TakeBytes(Len(d), d \o c) = Got(d, c)
<1> DEFINE n == Len(d)
           b == d \o c
<1>1. d \in Seq(Byte) /\ c \in Seq(Byte) /\ n \in Nat /\ Len(c) \in Nat
  BY LenProperties DEF Bytes
<1>2. /\ b \in Seq(Byte) /\ Len(b) = n + Len(c)
      /\ \A i \in 1..(n + Len(c)) : b[i] = IF i <= n THEN d[i] ELSE c[i - n]
  BY <1>1, ConcatProperties
<1>. HIDE DEF b, n
<1>3. SubSeq(b, 1, n) = d
  <2>1. \A i \in 1..n : b[i] \in Byte
    BY <1>1, <1>2
  <2>2. /\ SubSeq(b, 1, n) \in Seq(Byte)
        /\ Len(SubSeq(b, 1, n)) = IF 1 <= n THEN n - 1 + 1 ELSE 0
        /\ \A i \in 1..(n - 1 + 1) : SubSeq(b, 1, n)[i] = b[1 + i - 1]
    BY <1>1, <2>1, SubSeqProperties
  <2>3. Len(SubSeq(b, 1, n)) = n
    BY <1>1, <2>2
  <2>4. ASSUME NEW i \in 1..n PROVE SubSeq(b, 1, n)[i] = d[i]
    BY <1>1, <1>2, <2>2
  <2>. QED  BY <1>1, <2>2, <2>3, <2>4, SeqEqual DEF n
<1>4. SubSeq(b, n + 1, Len(b)) = c
  <2> DEFINE l == Len(b)
             s == SubSeq(b, n + 1, l)
             k == Len(c)
  <2>1. l = n + k /\ k \in Nat /\ l \in Nat
    BY <1>1, <1>2
  <2>2. \A i \in (n + 1)..l : b[i] \in Byte
    BY <1>1, <1>2
  <2>. HIDE DEF l, k
  <2>3. /\ s \in Seq(Byte)
        /\ Len(s) = IF n + 1 <= l THEN l - (n + 1) + 1 ELSE 0
        /\ \A i \in 1..(l - (n + 1) + 1) : s[i] = b[n + 1 + i - 1]
    BY <1>1, <2>1, <2>2, SubSeqProperties
  <2>. HIDE DEF s
  <2>4. Len(s) = k
    BY <1>1, <2>1, <2>3
  <2>5. ASSUME NEW i \in 1..k PROVE s[i] = c[i]
    <3>1. i \in 1..(l - (n + 1) + 1) /\ n + 1 + i - 1 = n + i
      BY <1>1, <2>1
    <3>2. n + i \in 1..(n + k) /\ ~(n + i <= n) /\ (n + i) - n = i
      BY <1>1, <2>1
    <3>3. b[n + i] = c[i]
      BY <1>2, <3>2 DEF k
    <3>. QED  BY <2>3, <3>1, <3>3
  <2>6. s = c
    BY <1>1, <2>3, <2>4, <2>5, SeqEqual DEF k
  <2>. QED  BY <2>6 DEF s, l
<1>5. ~(n > Len(b))
  BY <1>1, <1>2
<1>. QED  BY <1>3, <1>4, <1>5 DEF TakeBytes, n, b

\* Bytes are their first n and the rest.
LEMMA BytesSplit ==
  ASSUME NEW b \in Bytes, NEW n \in 0..Len(b)
  PROVE  /\ SubSeq(b, 1, n) \in Bytes /\ Len(SubSeq(b, 1, n)) = n
         /\ SubSeq(b, n + 1, Len(b)) \in Bytes
         /\ Len(SubSeq(b, n + 1, Len(b))) = Len(b) - n
         /\ SubSeq(b, 1, n) \o SubSeq(b, n + 1, Len(b)) = b
<1>1. b \in Seq(Byte) /\ Len(b) \in Nat /\ n \in Nat /\ n <= Len(b)
  BY LenProperties DEF Bytes
<1> DEFINE d == SubSeq(b, 1, n)
           c == SubSeq(b, n + 1, Len(b))
<1>2. d \in Seq(Byte) /\ Len(d) = n
  <2>1. \A i \in 1..n : b[i] \in Byte
    BY <1>1
  <2>2. d \in Seq(Byte) /\ Len(d) = IF 1 <= n THEN n - 1 + 1 ELSE 0
    BY <1>1, <2>1, SubSeqProperties
  <2>. QED  BY <1>1, <2>2
<1>3. c \in Seq(Byte) /\ Len(c) = Len(b) - n
  <2>1. \A i \in (n + 1)..Len(b) : b[i] \in Byte
    BY <1>1
  <2>2. n + 1 \in Int /\ Len(b) \in Int
    BY <1>1
  <2>3. c \in Seq(Byte) /\ Len(c) = IF n + 1 <= Len(b) THEN Len(b) - (n + 1) + 1 ELSE 0
    BY <2>1, <2>2, SubSeqProperties
  <2>. QED  BY <1>1, <2>3
<1>4. d \o c = b
  <2>1. 1 \in 1..(Len(b) + 1) /\ n \in (1 - 1)..Len(b) /\ Len(b) \in n..Len(b)
    BY <1>1
  <2>2. d \o c = SubSeq(b, 1, Len(b))
    BY <1>1, <2>1, ConcatAdjacentSubSeq
  <2>. QED  BY <1>1, <2>2, SubSeqFull
<1>. QED  BY <1>2, <1>3, <1>4 DEF Bytes

LEMMA TakeBytesSplits ==
  ASSUME NEW n \in Nat, NEW b \in Bytes, TakeBytes(n, b) # Fail
  PROVE  \E d \in Bytes, c \in Bytes : Len(d) = n /\ b = d \o c
<1>1. n \in 0..Len(b)
  BY LenProperties DEF TakeBytes, Bytes
<1> DEFINE d == SubSeq(b, 1, n)
           c == SubSeq(b, n + 1, Len(b))
<1>2. d \in Bytes /\ c \in Bytes /\ Len(d) = n /\ d \o c = b
  BY <1>1, BytesSplit
<1>. HIDE DEF d, c
<1>. QED  BY <1>2

PutNumber(w) == [n \in 0..(Power[w] - 1) |-> LittleEndian(n, w)]
ReadNumber(w) == [b \in Bytes |-> TakeNumber(w, b)]

LEMMA NumberFormat ==
  ASSUME NEW w \in Nat
  PROVE  IsFormat(0..(Power[w] - 1), PutNumber(w), ReadNumber(w))
<1> DEFINE N == 0..(Power[w] - 1)
<1>1. N \subseteq Nat
  BY PowerIs
<1>2. ASSUME NEW n \in N
      PROVE  /\ PutNumber(w)[n] = LittleEndian(n, w) /\ LittleEndian(n, w) \in Bytes
             /\ Len(LittleEndian(n, w)) = w /\ Number(LittleEndian(n, w)) = n
  BY <1>1, LittleEndianIs, NumberOfDigits DEF Bytes, PutNumber
<1>3. \A b \in Bytes : ReadNumber(w)[b] =
        IF TakeBytes(w, b).ok THEN Got(Number(TakeBytes(w, b).value), TakeBytes(w, b).rest)
                              ELSE Fail
  BY DEF ReadNumber, TakeNumber, Then
<1>. HIDE DEF N
<1>4. ASSUME NEW n \in N, NEW c \in Bytes PROVE ReadNumber(w)[PutNumber(w)[n] \o c] = Got(n, c)
  <2> DEFINE d == LittleEndian(n, w)
             b == d \o c
  <2>1. d \in Bytes /\ Len(d) = w /\ Number(d) = n /\ PutNumber(w)[n] = d
    BY <1>2
  <2>. HIDE DEF d
  <2>2. b \in Bytes /\ TakeBytes(w, b) = Got(d, c)
    BY <2>1, TakeBytesGets, ConcatProperties DEF Bytes
  <2>. HIDE DEF b
  <2>3. ReadNumber(w)[b] = Got(n, c)
    BY <1>3, <2>1, <2>2, GotIsNotFail
  <2>. QED  BY <2>1, <2>3 DEF b
<1>5. ASSUME NEW b \in Bytes, ReadNumber(w)[b] # Fail
      PROVE  \E n \in N, c \in Bytes : b = PutNumber(w)[n] \o c
  <2>1. TakeBytes(w, b) # Fail
    BY <1>3, <1>5, GotIsNotFail
  <2>2. PICK d \in Bytes, c \in Bytes : Len(d) = w /\ b = d \o c
    BY <2>1, TakeBytesSplits
  <2>3. Number(d) \in N /\ LittleEndian(Number(d), w) = d
    BY <2>2, DigitsOfNumber DEF Bytes, N
  <2>4. PutNumber(w)[Number(d)] = d
    BY <1>2, <2>3
  <2>. QED  BY <2>2, <2>3, <2>4
<1>6. IsFormat(N, PutNumber(w), ReadNumber(w))
  BY <1>2, <1>4, <1>5 DEF IsFormat
<1>. QED  BY <1>6 DEF N

-----------------------------------------------------------------------------
(* The types that Take, TakeElement and TakeField read. *)

Primitives == {"u8", "u32", "u64", "bytes"}
FieldTypes == Primitives \cup {"proposal", "optional", "commands", "values"}

ValuesOf(type) ==
  CASE type = "u8" -> Byte
    [] type = "u32" -> U32
    [] type = "u64" -> U64
    [] type = "bytes" -> Value
    [] type = "command" -> Command
    [] type = "proposal" -> Proposal
    [] type = "optional" -> Optional
    [] type = "commands" -> List(Command)
    [] type = "values" -> List(Value)

PutAs(type, x) ==
  CASE type = "u8" -> <<x>>
    [] type = "u32" -> Put32(x)
    [] type = "u64" -> Put64(x)
    [] type = "bytes" -> PutBytes(x)
    [] type = "command" -> PutCommand(x)
    [] type = "proposal" -> PutProposal(x)
    [] type = "optional" -> PutOptional(x)
    [] type = "commands" -> PutList("command", x)
    [] type = "values" -> PutList("bytes", x)

PutOf(type) == [x \in ValuesOf(type) |-> PutAs(type, x)]
ReadOf(type) ==
  [b \in Bytes |-> IF type = "command" THEN TakeElement(type, b) ELSE TakeField(type, b)]
HasFormat(type) == IsFormat(ValuesOf(type), PutOf(type), ReadOf(type))

LEMMA WidthsAre == Width32 \in Nat /\ Width64 \in Nat /\ U32 \subseteq Nat /\ U64 \subseteq Nat
<1>1. Width32 \in Nat /\ Width64 \in Nat
  BY WidthsAssumption
<1>. QED  BY <1>1, PowerIs DEF U32, U64

LEMMA ByteIsANumber ==
  /\ 0..(Power[1] - 1) = Byte
  /\ \A x \in Byte : LittleEndian(x, 1) = <<x>>
<1>1. Power[0] = 1 /\ Power[0 + 1] = Base * Power[0]
  BY PowerIs
<1>2. Power[1] = Base
  BY <1>1, BasePositive
<1>3. ASSUME NEW x \in Byte PROVE LittleEndian(x, 1) = <<x>>
  <2>1. x \in Nat /\ x \in 0..(Base - 1)
    BY BasePositive DEF Byte
  <2>2. /\ LittleEndian(x, 1) \in Seq(Byte) /\ Len(LittleEndian(x, 1)) = 1
        /\ LittleEndian(x, 1)[1] = (x \div Power[0]) % Base
    <3>1. /\ LittleEndian(x, 1) \in Seq(Byte) /\ Len(LittleEndian(x, 1)) = 1
          /\ \A k \in 1..1 : LittleEndian(x, 1)[k] = (x \div Power[k - 1]) % Base
      BY <2>1, LittleEndianIs
    <3>2. 1 \in 1..1 /\ 1 - 1 = 0
      OBVIOUS
    <3>3. LittleEndian(x, 1)[1] = (x \div Power[1 - 1]) % Base
      BY <3>1, <3>2, Zenon
    <3>. QED  BY <3>1, <3>2, <3>3
  <2>3. x \div Power[0] = x
    BY <2>1, DigitsShift
  <2>4. (Base * 0 + x) % Base = x
    BY <2>1, BasePositive, QuotientIs
  <2>5. Base * 0 + x = x
    BY <2>1, BasePositive
  <2>6. LittleEndian(x, 1)[1] = x
    BY <2>2, <2>3, <2>4, <2>5
  <2>. QED  BY <2>2, <2>6
<1>. QED  BY <1>2, <1>3 DEF Byte

LEMMA ReadPrimitive ==
  /\ \A type \in FieldTypes : ReadOf(type) = [b \in Bytes |-> TakeField(type, b)]
  /\ \A type \in Primitives : ReadOf(type) = [b \in Bytes |-> Take(type, b)]
  /\ ReadOf("command") = [b \in Bytes |-> TakeElement("command", b)]
  /\ \A type \in Primitives : \A b : TakeElement(type, b) = Take(type, b)
  /\ \A type \in Primitives : \A b : TakeField(type, b) = Take(type, b)
BY DEF ReadOf, TakeField, TakeElement, Primitives, FieldTypes

LEMMA U8Format == HasFormat("u8")
<1>1. IsFormat(Byte, PutNumber(1), ReadNumber(1))
  BY NumberFormat, ByteIsANumber
<1>2. \A x \in Byte : PutOf("u8")[x] = PutNumber(1)[x]
  BY ByteIsANumber DEF PutOf, PutAs, ValuesOf, PutNumber
<1>3. \A b \in Bytes : ReadOf("u8")[b] = ReadNumber(1)[b]
  BY ReadPrimitive DEF ReadNumber, Take, Primitives
<1>4. ValuesOf("u8") = Byte
  BY DEF ValuesOf
<1>. QED  BY <1>1, <1>2, <1>3, <1>4, SameFormat DEF HasFormat

LEMMA U32Format == HasFormat("u32")
<1>1. IsFormat(U32, PutNumber(Width32), ReadNumber(Width32))
  BY NumberFormat, WidthsAre DEF U32
<1>2. \A x \in U32 : PutOf("u32")[x] = PutNumber(Width32)[x]
  BY DEF PutOf, PutAs, Put32, ValuesOf, PutNumber, U32
<1>3. \A b \in Bytes : ReadOf("u32")[b] = ReadNumber(Width32)[b]
  BY ReadPrimitive DEF ReadNumber, Take, Primitives
<1>4. ValuesOf("u32") = U32
  BY DEF ValuesOf
<1>. QED  BY <1>1, <1>2, <1>3, <1>4, SameFormat DEF HasFormat

LEMMA U64Format == HasFormat("u64")
<1>1. IsFormat(U64, PutNumber(Width64), ReadNumber(Width64))
  BY NumberFormat, WidthsAre DEF U64
<1>2. \A x \in U64 : PutOf("u64")[x] = PutNumber(Width64)[x]
  BY DEF PutOf, PutAs, Put64, ValuesOf, PutNumber, U64
<1>3. \A b \in Bytes : ReadOf("u64")[b] = ReadNumber(Width64)[b]
  BY ReadPrimitive DEF ReadNumber, Take, Primitives
<1>4. ValuesOf("u64") = U64
  BY DEF ValuesOf
<1>. QED  BY <1>1, <1>2, <1>3, <1>4, SameFormat DEF HasFormat

\* A count, and as many bytes.
LEMMA BytesFormat == HasFormat("bytes")
<1> DEFINE head == [v \in Value |-> Len(v)]
           part == [v \in Value |-> v]
           pread == [n \in U32 |-> [b \in Bytes |-> TakeBytes(n, b)]]
           put == PutOf("bytes")
           read == ReadOf("bytes")
<1>1. \A v \in Value : v \in Bytes /\ Len(v) \in U32
  BY DEF Value, List, Bytes
<1>2. \A v \in Bytes : Len(v) \in U32 => v \in Value
  BY DEF Value, List, Bytes
<1>3. head \in [Value -> U32]
  BY <1>1
<1>4. ASSUME NEW n \in U32 PROVE IsFormat({v \in Value : head[v] = n}, part, pread[n])
  <2>1. ASSUME NEW v \in Value, head[v] = n, NEW c \in Bytes
        PROVE  part[v] \in Bytes /\ pread[n][part[v] \o c] = Got(v, c)
    <3>1. v \in Bytes /\ Len(v) = n /\ part[v] = v
      BY <1>1, <2>1
    <3>2. v \o c \in Bytes
      BY <3>1, ConcatProperties DEF Bytes
    <3>3. TakeBytes(n, v \o c) = Got(v, c)
      BY <3>1, TakeBytesGets
    <3>. QED  BY <3>1, <3>2, <3>3
  <2>2. ASSUME NEW b \in Bytes, pread[n][b] # Fail
        PROVE  \E v \in {v \in Value : head[v] = n}, c \in Bytes : b = part[v] \o c
    <3>1. n \in Nat /\ TakeBytes(n, b) # Fail
      BY <2>2, WidthsAre
    <3>2. PICK v \in Bytes, c \in Bytes : Len(v) = n /\ b = v \o c
      BY <3>1, TakeBytesSplits
    <3>3. v \in Value /\ head[v] = n /\ part[v] = v
      BY <1>2, <3>2
    <3>. QED  BY <3>2, <3>3
  <2>3. <<>> \in Bytes
    BY EmptySeq DEF Bytes
  <2>. QED  BY <2>1, <2>2, <2>3 DEF IsFormat
<1>5. \A v \in Value : put[v] = PutOf("u32")[head[v]] \o part[v]
  BY <1>1 DEF PutOf, PutAs, PutBytes, ValuesOf
<1>6. ASSUME NEW b \in Bytes
      PROVE  read[b] = LET r == ReadOf("u32")[b] IN IF r.ok THEN pread[r.value][r.rest] ELSE Fail
  <2>1. read[b] = Then(TakeNumber(Width32, b), TakeBytes)
    BY ReadPrimitive DEF Take, Primitives
  <2>2. ReadOf("u32")[b] = TakeNumber(Width32, b)
    BY ReadPrimitive DEF Take, Primitives
  <2>3. ReadOf("u32")[b] # Fail =>
          \E n \in U32, c \in Bytes : ReadOf("u32")[b] = Got(n, c)
    BY U32Format, FormatReads DEF HasFormat, ValuesOf
  <2>. QED  BY <2>1, <2>2, <2>3, GotIsNotFail DEF Then
<1>. HIDE DEF head, part, pread
<1>7. IsHeaded(Value, head, part, put, read, PutOf("u32"), ReadOf("u32"), pread)
  BY <1>5, <1>6 DEF IsHeaded
<1>. HIDE DEF put, read
<1>8. IsFormat(U32, PutOf("u32"), ReadOf("u32"))
  BY U32Format DEF HasFormat, ValuesOf
<1>9. IsFormat(Value, put, read)
  BY <1>3, <1>4, <1>7, <1>8, HeadedFormat
<1>10. ValuesOf("bytes") = Value
  BY DEF ValuesOf
<1>. QED  BY <1>9, <1>10 DEF put, read, HasFormat

-----------------------------------------------------------------------------
(* Items of given types, one after the other. *)

SeriesT(types) == [k \in 1..Len(types) |-> ValuesOf(types[k])]
SeriesU(types) == UNION {ValuesOf(types[k]) : k \in 1..Len(types)}
SeriesPut(types) == [k \in 1..Len(types) |-> PutOf(types[k])]
SeriesRead(types) == [k \in 1..Len(types) |-> ReadOf(types[k])]

Series(types) == Tuples(SeriesT(types), SeriesU(types), Len(types))
PutSeries(types) == TuplePut(SeriesT(types), SeriesU(types), SeriesPut(types), Len(types))
ReadSeries(types) == TupleRead(SeriesU(types), SeriesRead(types), Len(types), Len(types))

HaveFormats(types) == Len(types) \in Nat /\ \A k \in 1..Len(types) : HasFormat(types[k])

LEMMA SeriesFormats ==
  ASSUME NEW types, HaveFormats(types)
  PROVE  AreFormats(SeriesT(types), SeriesU(types), SeriesPut(types), SeriesRead(types), Len(types))
<1>1. ASSUME NEW k \in 1..Len(types)
      PROVE  /\ SeriesT(types)[k] \subseteq SeriesU(types)
             /\ IsFormat(SeriesT(types)[k], SeriesPut(types)[k], SeriesRead(types)[k])
  <2>1. /\ SeriesT(types)[k] = ValuesOf(types[k]) /\ SeriesPut(types)[k] = PutOf(types[k])
        /\ SeriesRead(types)[k] = ReadOf(types[k])
    BY DEF SeriesT, SeriesPut, SeriesRead
  <2>2. HasFormat(types[k])
    BY DEF HaveFormats
  <2>3. IsFormat(ValuesOf(types[k]), PutOf(types[k]), ReadOf(types[k]))
    BY <2>2 DEF HasFormat
  <2>4. ValuesOf(types[k]) \subseteq SeriesU(types)
    BY DEF SeriesU
  <2>. QED  BY <2>1, <2>3, <2>4
<1>. QED  BY <1>1 DEF AreFormats

LEMMA SeriesFormat ==
  ASSUME NEW types, HaveFormats(types)
  PROVE  IsFormat(Series(types), PutSeries(types), ReadSeries(types))
<1> DEFINE m == Len(types)
           T == SeriesT(types)
           U == SeriesU(types)
           put == SeriesPut(types)
           read == SeriesRead(types)
<1>1. m \in Nat /\ AreFormats(T, U, put, read, m)
  BY SeriesFormats DEF HaveFormats
<1>. HIDE DEF m, T, U, put, read
<1>2. m \in 0..m
  BY <1>1
<1>3. IsFormat(Tuples(T, U, m), TuplePut(T, U, put, m), TupleRead(U, read, m, m))
  BY <1>1, <1>2, TupleFormat
<1>. QED  BY <1>3 DEF m, T, U, put, read, Series, PutSeries, ReadSeries

LEMMA SeriesAre ==
  ASSUME NEW types, Len(types) \in Nat
  PROVE  /\ \A v : v \in Series(types) <=>
              /\ v = [k \in 1..Len(types) |-> v[k]]
              /\ \A k \in 1..Len(types) : v[k] \in ValuesOf(types[k])
         /\ \A v \in Series(types) : PutSeries(types)[v] =
              FlattenSeq([k \in 1..Len(types) |-> PutAs(types[k], v[k])])
<1> DEFINE m == Len(types)
<1>1. ASSUME NEW v \in Series(types)
      PROVE  v = [k \in 1..m |-> v[k]] /\ \A k \in 1..m : v[k] \in ValuesOf(types[k])
  BY DEF Series, Tuples, SeriesT
<1>2. ASSUME NEW v, v = [k \in 1..m |-> v[k]], \A k \in 1..m : v[k] \in ValuesOf(types[k])
      PROVE  v \in Series(types)
  <2>1. \A k \in 1..m : v[k] \in SeriesU(types)
    BY <1>2 DEF SeriesU
  <2>2. v \in [1..m -> SeriesU(types)]
    BY <1>2, <2>1
  <2>. QED  BY <1>2, <2>2 DEF Series, Tuples, SeriesT
<1>3. ASSUME NEW v \in Series(types)
      PROVE  PutSeries(types)[v] = FlattenSeq([k \in 1..m |-> PutAs(types[k], v[k])])
  <2>1. Pieces(SeriesPut(types), v, m) = [k \in 1..m |-> PutAs(types[k], v[k])]
    BY <1>1 DEF Pieces, SeriesPut, PutOf
  <2>. QED  BY <2>1 DEF PutSeries, Series, TuplePut
<1>. QED  BY <1>1, <1>2, <1>3

\* What InOrder does with them.
LEMMA SeriesOfTake ==
  ASSUME NEW types, HaveFormats(types), \A k \in 1..Len(types) : types[k] \in Primitives,
         NEW b \in Bytes
  PROVE  InOrder(Take, types, b) = ReadSeries(types)[b]
<1> DEFINE m == Len(types)
           read == SeriesRead(types)
<1>1. ReadsItems(read, m, "primitive", types)
  BY ReadPrimitive DEF ReadsItems, SeriesRead, Item
<1>2. m \in Nat /\ AreFormats(SeriesT(types), SeriesU(types), SeriesPut(types), read, m)
  BY SeriesFormats DEF HaveFormats
<1>. HIDE DEF m, read
<1>3. InOrder(Take, types, b) = Reading(SeriesU(types), read, m, b)[m]
  BY <1>1, <1>2, InOrderOfTake
<1>. QED  BY <1>3 DEF m, read, ReadSeries, TupleRead

LEMMA SeriesOfTakeElement ==
  ASSUME NEW types, HaveFormats(types),
         \A k \in 1..Len(types) : types[k] \in Primitives \cup {"command"},
         NEW b \in Bytes
  PROVE  InOrder(TakeElement, types, b) = ReadSeries(types)[b]
<1> DEFINE m == Len(types)
           read == SeriesRead(types)
<1>1. ReadsItems(read, m, "element", types)
  BY ReadPrimitive DEF ReadsItems, SeriesRead, Item
<1>2. m \in Nat /\ AreFormats(SeriesT(types), SeriesU(types), SeriesPut(types), read, m)
  BY SeriesFormats DEF HaveFormats
<1>. HIDE DEF m, read
<1>3. InOrder(TakeElement, types, b) = Reading(SeriesU(types), read, m, b)[m]
  BY <1>1, <1>2, InOrderOfTakeElement
<1>. QED  BY <1>3 DEF m, read, ReadSeries, TupleRead

LEMMA SeriesOfTakeField ==
  ASSUME NEW types, HaveFormats(types), \A k \in 1..Len(types) : types[k] \in FieldTypes,
         NEW b \in Bytes
  PROVE  InOrder(TakeField, types, b) = ReadSeries(types)[b]
<1> DEFINE m == Len(types)
           read == SeriesRead(types)
<1>1. ReadsItems(read, m, "field", types)
  BY ReadPrimitive DEF ReadsItems, SeriesRead, Item
<1>2. m \in Nat /\ AreFormats(SeriesT(types), SeriesU(types), SeriesPut(types), read, m)
  BY SeriesFormats DEF HaveFormats
<1>. HIDE DEF m, read
<1>3. InOrder(TakeField, types, b) = Reading(SeriesU(types), read, m, b)[m]
  BY <1>1, <1>2, InOrderOfTakeField
<1>. QED  BY <1>3 DEF m, read, ReadSeries, TupleRead

-----------------------------------------------------------------------------
(* Up to five items. *)

LEMMA FlattenOf1 ==
  ASSUME NEW a \in Bytes
  PROVE  FlattenSeq(<<a>>) = a
<1>1. <<>> \in Seq(Bytes) /\ <<a>> = Append(<<>>, a)
  BY EmptySeq
<1>2. FlattenSeq(<<a>>) = FlattenSeq(<<>>) \o a /\ FlattenSeq(<<>>) = <<>>
  BY <1>1, FlattenProperties
<1>3. <<>> \o a = a
  BY ConcatEmptySeq DEF Bytes
<1>. QED  BY <1>2, <1>3

LEMMA FlattenOf2 ==
  ASSUME NEW a \in Bytes, NEW b \in Bytes
  PROVE  FlattenSeq(<<a, b>>) = a \o b
<1>1. <<a>> \in Seq(Bytes) /\ <<a, b>> = Append(<<a>>, b)
  OBVIOUS
<1>2. FlattenSeq(<<a, b>>) = FlattenSeq(<<a>>) \o b
  BY <1>1, FlattenProperties
<1>3. FlattenSeq(<<a>>) = a
  BY FlattenOf1, Zenon
<1>. QED  BY <1>2, <1>3, Zenon

LEMMA FlattenOf3 ==
  ASSUME NEW a \in Bytes, NEW b \in Bytes, NEW c \in Bytes
  PROVE  FlattenSeq(<<a, b, c>>) = a \o b \o c
<1>1. <<a, b>> \in Seq(Bytes) /\ <<a, b, c>> = Append(<<a, b>>, c)
  OBVIOUS
<1>2. FlattenSeq(<<a, b, c>>) = FlattenSeq(<<a, b>>) \o c
  BY <1>1, FlattenProperties
<1>3. FlattenSeq(<<a, b>>) = a \o b
  BY FlattenOf2, Zenon
<1>. QED  BY <1>2, <1>3, Zenon

LEMMA PutIsBytes ==
  ASSUME NEW type, HasFormat(type), NEW x \in ValuesOf(type)
  PROVE  PutAs(type, x) \in Bytes /\ PutOf(type)[x] = PutAs(type, x)
BY DEF HasFormat, IsFormat, PutOf

LEMMA SeriesOf0 ==
  HaveFormats(<<>>) /\ Series(<<>>) = {<<>>} /\ PutSeries(<<>>)[<<>>] = <<>>
<1>1. Len(<<>>) = 0
  OBVIOUS
<1>2. HaveFormats(<<>>)
  BY <1>1 DEF HaveFormats
<1>. QED  BY <1>1, <1>2, NoTuple DEF Series, PutSeries

LEMMA SeriesOf1 ==
  ASSUME NEW a, HasFormat(a)
  PROVE  /\ HaveFormats(<<a>>)
         /\ Series(<<a>>) = [1..1 -> ValuesOf(a)]
         /\ \A v \in Series(<<a>>) : PutSeries(<<a>>)[v] =
              PutAs(a, v[1])
<1> DEFINE types == <<a>>
<1>1. Len(types) = 1 /\ types[1] = a
  OBVIOUS
<1>. HIDE DEF types
<1>2. HaveFormats(types)
  BY <1>1 DEF HaveFormats
<1>3. ASSUME NEW v
      PROVE  v \in Series(types) <=> v \in [1..1 -> ValuesOf(a)]
  <2>1. v \in Series(types) <=> /\ v = [k \in 1..1 |-> v[k]]
                                /\ \A k \in 1..1 : v[k] \in ValuesOf(types[k])
    BY <1>1, SeriesAre
  <2>2. (\A k \in 1..1 : v[k] \in ValuesOf(types[k])) <=>
          v[1] \in ValuesOf(a)
    BY <1>1
  <2>3. [k \in 1..1 |-> v[k]] = <<v[1]>>
    OBVIOUS
  <2>. QED  BY <2>1, <2>2, <2>3
<1>4. ASSUME NEW v \in Series(types)
      PROVE  PutSeries(types)[v] =
               PutAs(a, v[1])
  <2> DEFINE x == PutAs(a, v[1])
  <2>1. v[1] \in ValuesOf(a)
    BY <1>3
  <2>2. x \in Bytes
    BY <2>1, PutIsBytes
  <2>3. PutSeries(types)[v] = FlattenSeq([k \in 1..1 |-> PutAs(types[k], v[k])])
    <3>1. Len(types) = 1 /\ Len(types) \in Nat
      BY <1>1
    <3>2. PutSeries(types)[v] = FlattenSeq([k \in 1..Len(types) |-> PutAs(types[k], v[k])])
      BY <3>1, SeriesAre, Zenon
    <3>. QED  BY <3>1, <3>2
  <2>4. [k \in 1..1 |-> PutAs(types[k], v[k])] = <<x>>
    BY <1>1
  <2>. HIDE DEF x
  <2>5. FlattenSeq(<<x>>) = x
    BY <2>2, FlattenOf1, Zenon
  <2>6. PutSeries(types)[v] = x
    BY <2>3, <2>4, <2>5
  <2>. QED  BY <2>6 DEF x
<1>. QED  BY <1>2, <1>3, <1>4 DEF types

LEMMA SeriesOf2 ==
  ASSUME NEW a, NEW b, HasFormat(a), HasFormat(b)
  PROVE  /\ HaveFormats(<<a, b>>)
         /\ Series(<<a, b>>) = ValuesOf(a) \X ValuesOf(b)
         /\ \A v \in Series(<<a, b>>) : PutSeries(<<a, b>>)[v] =
              PutAs(a, v[1]) \o PutAs(b, v[2])
<1> DEFINE types == <<a, b>>
<1>1. Len(types) = 2 /\ types[1] = a /\ types[2] = b
  OBVIOUS
<1>. HIDE DEF types
<1>2. HaveFormats(types)
  BY <1>1 DEF HaveFormats
<1>3. ASSUME NEW v
      PROVE  v \in Series(types) <=> v \in ValuesOf(a) \X ValuesOf(b)
  <2>1. v \in Series(types) <=> /\ v = [k \in 1..2 |-> v[k]]
                                /\ \A k \in 1..2 : v[k] \in ValuesOf(types[k])
    BY <1>1, SeriesAre
  <2>2. (\A k \in 1..2 : v[k] \in ValuesOf(types[k])) <=>
          v[1] \in ValuesOf(a) /\ v[2] \in ValuesOf(b)
    BY <1>1
  <2>3. [k \in 1..2 |-> v[k]] = <<v[1], v[2]>>
    OBVIOUS
  <2>. QED  BY <2>1, <2>2, <2>3
<1>4. ASSUME NEW v \in Series(types)
      PROVE  PutSeries(types)[v] =
               PutAs(a, v[1]) \o PutAs(b, v[2])
  <2> DEFINE x == PutAs(a, v[1])
             y == PutAs(b, v[2])
  <2>1. v[1] \in ValuesOf(a) /\ v[2] \in ValuesOf(b)
    BY <1>3
  <2>2. x \in Bytes /\ y \in Bytes
    BY <2>1, PutIsBytes
  <2>3. PutSeries(types)[v] = FlattenSeq([k \in 1..2 |-> PutAs(types[k], v[k])])
    <3>1. Len(types) = 2 /\ Len(types) \in Nat
      BY <1>1
    <3>2. PutSeries(types)[v] = FlattenSeq([k \in 1..Len(types) |-> PutAs(types[k], v[k])])
      BY <3>1, SeriesAre, Zenon
    <3>. QED  BY <3>1, <3>2
  <2>4. [k \in 1..2 |-> PutAs(types[k], v[k])] = <<x, y>>
    BY <1>1
  <2>. HIDE DEF x, y
  <2>5. FlattenSeq(<<x, y>>) = x \o y
    BY <2>2, FlattenOf2, Zenon
  <2>6. PutSeries(types)[v] = x \o y
    BY <2>3, <2>4, <2>5
  <2>. QED  BY <2>6 DEF x, y
<1>. QED  BY <1>2, <1>3, <1>4 DEF types

AreSeriesOf3(a, b, c) ==
  /\ HaveFormats(<<a, b, c>>)
  /\ Series(<<a, b, c>>) = ValuesOf(a) \X ValuesOf(b) \X ValuesOf(c)
  /\ \A v \in Series(<<a, b, c>>) : PutSeries(<<a, b, c>>)[v] =
       PutAs(a, v[1]) \o PutAs(b, v[2]) \o PutAs(c, v[3])

LEMMA SeriesOf3 ==
  ASSUME NEW a, NEW b, NEW c, HasFormat(a), HasFormat(b), HasFormat(c)
  PROVE  AreSeriesOf3(a, b, c)
<1> DEFINE types == <<a, b, c>>
<1>1. Len(types) = 3 /\ types[1] = a /\ types[2] = b /\ types[3] = c
  OBVIOUS
<1>. HIDE DEF types
<1>2. HaveFormats(types)
  BY <1>1 DEF HaveFormats
<1>3. ASSUME NEW v
      PROVE  v \in Series(types) <=> v \in ValuesOf(a) \X ValuesOf(b) \X ValuesOf(c)
  <2>1. v \in Series(types) <=> /\ v = [k \in 1..3 |-> v[k]]
                                /\ \A k \in 1..3 : v[k] \in ValuesOf(types[k])
    BY <1>1, SeriesAre
  <2>2. (\A k \in 1..3 : v[k] \in ValuesOf(types[k])) <=>
          v[1] \in ValuesOf(a) /\ v[2] \in ValuesOf(b) /\ v[3] \in ValuesOf(c)
    BY <1>1
  <2>3. [k \in 1..3 |-> v[k]] = <<v[1], v[2], v[3]>>
    OBVIOUS
  <2>. QED  BY <2>1, <2>2, <2>3
<1>4. ASSUME NEW v \in Series(types)
      PROVE  PutSeries(types)[v] =
               PutAs(a, v[1]) \o PutAs(b, v[2]) \o PutAs(c, v[3])
  <2> DEFINE x == PutAs(a, v[1])
             y == PutAs(b, v[2])
             z == PutAs(c, v[3])
  <2>1. v[1] \in ValuesOf(a) /\ v[2] \in ValuesOf(b) /\ v[3] \in ValuesOf(c)
    BY <1>3
  <2>2. x \in Bytes /\ y \in Bytes /\ z \in Bytes
    BY <2>1, PutIsBytes
  <2>3. PutSeries(types)[v] = FlattenSeq([k \in 1..3 |-> PutAs(types[k], v[k])])
    <3>1. Len(types) = 3 /\ Len(types) \in Nat
      BY <1>1
    <3>2. PutSeries(types)[v] = FlattenSeq([k \in 1..Len(types) |-> PutAs(types[k], v[k])])
      BY <3>1, SeriesAre, Zenon
    <3>. QED  BY <3>1, <3>2
  <2>4. [k \in 1..3 |-> PutAs(types[k], v[k])] = <<x, y, z>>
    BY <1>1
  <2>. HIDE DEF x, y, z
  <2>5. FlattenSeq(<<x, y, z>>) = x \o y \o z
    BY <2>2, FlattenOf3, Zenon
  <2>6. PutSeries(types)[v] = x \o y \o z
    BY <2>3, <2>4, <2>5
  <2>. QED  BY <2>6 DEF x, y, z
<1>. QED  BY <1>2, <1>3, <1>4 DEF types, AreSeriesOf3

AreSeriesOf4(a, b, c, d) ==
  /\ HaveFormats(<<a, b, c, d>>)
  /\ Series(<<a, b, c, d>>) = ValuesOf(a) \X ValuesOf(b) \X ValuesOf(c) \X ValuesOf(d)
  /\ \A v \in Series(<<a, b, c, d>>) : PutSeries(<<a, b, c, d>>)[v] =
       PutAs(a, v[1]) \o PutAs(b, v[2]) \o PutAs(c, v[3]) \o PutAs(d, v[4])

LEMMA SeriesOf4 ==
  ASSUME NEW a, NEW b, NEW c, NEW d, HasFormat(a), HasFormat(b), HasFormat(c), HasFormat(d)
  PROVE  AreSeriesOf4(a, b, c, d)
<1> DEFINE types == <<a, b, c, d>>
<1>1. Len(types) = 4 /\ types[1] = a /\ types[2] = b /\ types[3] = c /\ types[4] = d
  OBVIOUS
<1>. HIDE DEF types
<1>2. HaveFormats(types)
  BY <1>1 DEF HaveFormats
<1>3. ASSUME NEW v
      PROVE  v \in Series(types) <=>
               v \in ValuesOf(a) \X ValuesOf(b) \X ValuesOf(c) \X ValuesOf(d)
  <2>1. v \in Series(types) <=> /\ v = [k \in 1..4 |-> v[k]]
                                /\ \A k \in 1..4 : v[k] \in ValuesOf(types[k])
    BY <1>1, SeriesAre
  <2>2. (\A k \in 1..4 : v[k] \in ValuesOf(types[k])) <=>
          /\ v[1] \in ValuesOf(a) /\ v[2] \in ValuesOf(b)
          /\ v[3] \in ValuesOf(c) /\ v[4] \in ValuesOf(d)
    BY <1>1
  <2>3. [k \in 1..4 |-> v[k]] = <<v[1], v[2], v[3], v[4]>>
    OBVIOUS
  <2>. QED  BY <2>1, <2>2, <2>3
<1>4. ASSUME NEW v \in Series(types)
      PROVE  PutSeries(types)[v] =
               PutAs(a, v[1]) \o PutAs(b, v[2]) \o PutAs(c, v[3]) \o PutAs(d, v[4])
  <2> DEFINE x == PutAs(a, v[1])
             y == PutAs(b, v[2])
             z == PutAs(c, v[3])
             p == PutAs(d, v[4])
  <2>1. /\ v[1] \in ValuesOf(a) /\ v[2] \in ValuesOf(b)
        /\ v[3] \in ValuesOf(c) /\ v[4] \in ValuesOf(d)
    BY <1>3
  <2>2. x \in Bytes /\ y \in Bytes /\ z \in Bytes /\ p \in Bytes
    BY <2>1, PutIsBytes
  <2>3. PutSeries(types)[v] = FlattenSeq([k \in 1..4 |-> PutAs(types[k], v[k])])
    <3>1. Len(types) = 4 /\ Len(types) \in Nat
      BY <1>1
    <3>2. PutSeries(types)[v] = FlattenSeq([k \in 1..Len(types) |-> PutAs(types[k], v[k])])
      BY <3>1, SeriesAre, Zenon
    <3>. QED  BY <3>1, <3>2
  <2>4. [k \in 1..4 |-> PutAs(types[k], v[k])] = <<x, y, z, p>>
    BY <1>1
  <2>. HIDE DEF x, y, z, p
  <2>5. FlattenSeq(<<x, y, z, p>>) = x \o y \o z \o p
    <3>1. FlattenSeq(<<x, y, z>>) = x \o y \o z
      BY <2>2, FlattenOf3, Zenon
    <3>2. <<x, y, z>> \in Seq(Bytes) /\ <<x, y, z, p>> = Append(<<x, y, z>>, p)
      BY <2>2
    <3>3. FlattenSeq(<<x, y, z, p>>) = FlattenSeq(<<x, y, z>>) \o p
      BY <2>2, <3>2, FlattenProperties
    <3>. QED  BY <3>1, <3>3
  <2>6. PutSeries(types)[v] = x \o y \o z \o p
    BY <2>3, <2>4, <2>5
  <2>. QED  BY <2>6 DEF x, y, z, p
<1>. QED  BY <1>2, <1>3, <1>4 DEF types, AreSeriesOf4

AreSeriesOf5(a, b, c, d, e) ==
  /\ HaveFormats(<<a, b, c, d, e>>)
  /\ Series(<<a, b, c, d, e>>) =
       ValuesOf(a) \X ValuesOf(b) \X ValuesOf(c) \X ValuesOf(d) \X ValuesOf(e)
  /\ \A v \in Series(<<a, b, c, d, e>>) : PutSeries(<<a, b, c, d, e>>)[v] =
       PutAs(a, v[1]) \o PutAs(b, v[2]) \o PutAs(c, v[3]) \o
         PutAs(d, v[4]) \o PutAs(e, v[5])

LEMMA SeriesOf5 ==
  ASSUME NEW a, NEW b, NEW c, NEW d, NEW e,
         HasFormat(a), HasFormat(b), HasFormat(c), HasFormat(d), HasFormat(e)
  PROVE  AreSeriesOf5(a, b, c, d, e)
<1> DEFINE types == <<a, b, c, d, e>>
<1>1. Len(types) = 5 /\ types[1] = a /\ types[2] = b /\ types[3] = c /\ types[4] = d /\ types[5] = e
  OBVIOUS
<1>. HIDE DEF types
<1>2. HaveFormats(types)
  BY <1>1 DEF HaveFormats
<1>3. ASSUME NEW v
      PROVE  v \in Series(types) <=>
               v \in ValuesOf(a) \X ValuesOf(b) \X ValuesOf(c) \X ValuesOf(d) \X ValuesOf(e)
  <2>1. v \in Series(types) <=> /\ v = [k \in 1..5 |-> v[k]]
                                /\ \A k \in 1..5 : v[k] \in ValuesOf(types[k])
    BY <1>1, SeriesAre
  <2>2. (\A k \in 1..5 : v[k] \in ValuesOf(types[k])) <=>
          /\ v[1] \in ValuesOf(a) /\ v[2] \in ValuesOf(b) /\ v[3] \in ValuesOf(c)
          /\ v[4] \in ValuesOf(d) /\ v[5] \in ValuesOf(e)
    BY <1>1
  <2>3. [k \in 1..5 |-> v[k]] = <<v[1], v[2], v[3], v[4], v[5]>>
    OBVIOUS
  <2>. QED  BY <2>1, <2>2, <2>3
<1>4. ASSUME NEW v \in Series(types)
      PROVE  PutSeries(types)[v] =
               PutAs(a, v[1]) \o PutAs(b, v[2]) \o PutAs(c, v[3]) \o
                PutAs(d, v[4]) \o PutAs(e, v[5])
  <2> DEFINE x == PutAs(a, v[1])
             y == PutAs(b, v[2])
             z == PutAs(c, v[3])
             p == PutAs(d, v[4])
             q == PutAs(e, v[5])
  <2>1. /\ v[1] \in ValuesOf(a) /\ v[2] \in ValuesOf(b) /\ v[3] \in ValuesOf(c)
        /\ v[4] \in ValuesOf(d) /\ v[5] \in ValuesOf(e)
    BY <1>3
  <2>2. x \in Bytes /\ y \in Bytes /\ z \in Bytes /\ p \in Bytes /\ q \in Bytes
    BY <2>1, PutIsBytes
  <2>3. PutSeries(types)[v] = FlattenSeq([k \in 1..5 |-> PutAs(types[k], v[k])])
    <3>1. Len(types) = 5 /\ Len(types) \in Nat
      BY <1>1
    <3>2. PutSeries(types)[v] = FlattenSeq([k \in 1..Len(types) |-> PutAs(types[k], v[k])])
      BY <3>1, SeriesAre, Zenon
    <3>. QED  BY <3>1, <3>2
  <2>4. [k \in 1..5 |-> PutAs(types[k], v[k])] = <<x, y, z, p, q>>
    BY <1>1
  <2>. HIDE DEF x, y, z, p, q
  <2>5. FlattenSeq(<<x, y, z, p, q>>) = x \o y \o z \o p \o q
    <3>1. FlattenSeq(<<x, y, z>>) = x \o y \o z
      BY <2>2, FlattenOf3, Zenon
    <3>2. <<x, y, z>> \in Seq(Bytes) /\ <<x, y, z, p>> = Append(<<x, y, z>>, p)
      BY <2>2
    <3>3. FlattenSeq(<<x, y, z, p>>) = FlattenSeq(<<x, y, z>>) \o p
      BY <2>2, <3>2, FlattenProperties
    <3>4. <<x, y, z, p>> \in Seq(Bytes) /\ <<x, y, z, p, q>> = Append(<<x, y, z, p>>, q)
      BY <2>2
    <3>5. FlattenSeq(<<x, y, z, p, q>>) = FlattenSeq(<<x, y, z, p>>) \o q
      BY <2>2, <3>4, FlattenProperties
    <3>. QED  BY <3>1, <3>3, <3>5
  <2>6. PutSeries(types)[v] = x \o y \o z \o p \o q
    BY <2>3, <2>4, <2>5
  <2>. QED  BY <2>6 DEF x, y, z, p, q
<1>. QED  BY <1>2, <1>3, <1>4 DEF types, AreSeriesOf5

-----------------------------------------------------------------------------
(* Proposals, commands, and optional proposals. *)

LEMMA PrimitiveFormats == \A type \in Primitives : HasFormat(type)
BY U8Format, U32Format, U64Format, BytesFormat DEF Primitives

LEMMA PrimitiveValues ==
  /\ ValuesOf("u8") = Byte /\ ValuesOf("u32") = U32 /\ ValuesOf("u64") = U64
  /\ ValuesOf("bytes") = Value
  /\ \A x : /\ PutAs("u8", x) = <<x>> /\ PutAs("u32", x) = Put32(x) /\ PutAs("u64", x) = Put64(x)
            /\ PutAs("bytes", x) = PutBytes(x)
BY DEF ValuesOf, PutAs

LEMMA ProposalFormat == HasFormat("proposal")
<1> DEFINE types == <<"u32", "u64", "bytes">>
           T == U32 \X U64 \X Value
           read == ReadOf("proposal")
<1>1. HasFormat("u32") /\ HasFormat("u64") /\ HasFormat("bytes")
  BY U32Format, U64Format, BytesFormat
<1>2. /\ HaveFormats(types) /\ Series(types) = T
      /\ \A v \in T : PutSeries(types)[v] = PutProposal(v)
  <2>1. AreSeriesOf3("u32", "u64", "bytes")
    BY <1>1, SeriesOf3
  <2>2. /\ HaveFormats(types)
        /\ Series(types) = ValuesOf("u32") \X ValuesOf("u64") \X ValuesOf("bytes")
        /\ \A v \in Series(types) : PutSeries(types)[v] =
             PutAs("u32", v[1]) \o PutAs("u64", v[2]) \o PutAs("bytes", v[3])
    BY <2>1, Zenon DEF AreSeriesOf3
  <2>. HIDE DEF types
  <2>. QED  BY <2>2, PrimitiveValues DEF PutProposal
<1>3. \A k \in 1..Len(types) : types[k] \in Primitives
  BY DEF Primitives
<1>. HIDE DEF types, T
<1>4. IsFormat(T, PutSeries(types), ReadSeries(types))
  BY <1>2, SeriesFormat
<1>5. Proposal \subseteq T /\ \A p \in T : p \in Proposal <=> p[1] # 0 /\ p[2] # 0
  BY DEF T, Proposal
<1>6. ASSUME NEW b \in Bytes
      PROVE  LET r == ReadSeries(types)[b] IN
             read[b] = IF r.ok /\ r.value \in Proposal THEN r ELSE Fail
  <2> DEFINE r == ReadSeries(types)[b]
  <2>1. InOrder(Take, types, b) = r
    BY <1>2, <1>3, SeriesOfTake
  <2>2. read[b] = TakeProposal(b)
    BY ReadPrimitive DEF TakeField, FieldTypes
  <2>3. r = Fail \/ \E p \in T, c \in Bytes : r = Got(p, c)
    BY <1>4, FormatReads
  <2>. HIDE DEF r, read
  <2>4. TakeProposal(b) =
          IF r.ok THEN IF r.value[1] = 0 \/ r.value[2] = 0 THEN Fail ELSE Got(r.value, r.rest)
                  ELSE Fail
    BY <2>1 DEF TakeProposal, Then, types
  <2>5. read[b] = IF r.ok /\ r.value \in Proposal THEN r ELSE Fail
    BY <1>5, <2>2, <2>3, <2>4, GotIsNotFail
  <2>. QED  BY <2>5 DEF r
<1>. HIDE DEF read
<1>7. Filters(read, Proposal, ReadSeries(types))
  BY <1>6 DEF Filters
<1>8. IsFormat(Proposal, PutSeries(types), read)
  BY <1>4, <1>5, <1>7, FilterFormat
<1>9. ValuesOf("proposal") = Proposal /\ \A p \in Proposal : PutOf("proposal")[p] = PutProposal(p)
  BY DEF ValuesOf, PutOf, PutAs
<1>10. \A p \in Proposal : PutOf("proposal")[p] = PutSeries(types)[p]
  BY <1>2, <1>5, <1>9
<1>11. IsFormat(Proposal, PutOf("proposal"), read)
  BY <1>8, <1>10, SameFormat
<1>. QED  BY <1>9, <1>11 DEF HasFormat, read

LEMMA CommandFormat == HasFormat("command")
<1> DEFINE types == <<"u64", "u64", "u64", "bytes">>
<1>1. HasFormat("u64") /\ HasFormat("bytes")
  BY U64Format, BytesFormat
<1>2. /\ HaveFormats(types) /\ Series(types) = Command
      /\ \A v \in Command : PutSeries(types)[v] = PutCommand(v)
  <2>1. /\ HaveFormats(types)
        /\ Series(types) =
             ValuesOf("u64") \X ValuesOf("u64") \X ValuesOf("u64") \X ValuesOf("bytes")
        /\ \A v \in Series(types) : PutSeries(types)[v] =
             PutAs("u64", v[1]) \o PutAs("u64", v[2]) \o PutAs("u64", v[3]) \o PutAs("bytes", v[4])
    <3>1. AreSeriesOf4("u64", "u64", "u64", "bytes")
      BY <1>1, SeriesOf4
    <3>. QED  BY <3>1, Zenon DEF AreSeriesOf4
  <2>. HIDE DEF types
  <2>2. Series(types) = Command
    BY <2>1, PrimitiveValues DEF Command
  <2>3. ASSUME NEW v \in Command PROVE PutSeries(types)[v] = PutCommand(v)
    BY <2>1, <2>2, PrimitiveValues, Zenon DEF PutCommand
  <2>. QED  BY <2>1, <2>2, <2>3
<1>3. \A k \in 1..Len(types) : types[k] \in Primitives
  BY DEF Primitives
<1>4. \A b \in Bytes : ReadOf("command")[b] = InOrder(Take, types, b)
  BY ReadPrimitive DEF TakeElement
<1>. HIDE DEF types
<1>5. IsFormat(Command, PutSeries(types), ReadSeries(types))
  BY <1>2, SeriesFormat
<1>6. \A b \in Bytes : ReadOf("command")[b] = ReadSeries(types)[b]
  BY <1>2, <1>3, <1>4, SeriesOfTake
<1>7. ValuesOf("command") = Command /\ \A c \in Command : PutOf("command")[c] = PutCommand(c)
  BY DEF ValuesOf, PutOf, PutAs
<1>8. \A c \in Command : PutOf("command")[c] = PutSeries(types)[c]
  BY <1>2, <1>7
<1>9. IsFormat(Command, PutOf("command"), ReadOf("command"))
  BY <1>5, <1>6, <1>8, SameFormat
<1>. QED  BY <1>7, <1>9 DEF HasFormat

\* A tag, and a proposal if it is 1.
LEMMA OptionalFormat == HasFormat("optional")
<1> DEFINE head == [v \in Optional |-> IF v = <<>> THEN 0 ELSE 1]
           part == [v \in Optional |-> IF v = <<>> THEN <<>> ELSE PutProposal(v)]
           pread == [tag \in Byte |-> [b \in Bytes |->
                      CASE tag = 0 -> Got(<<>>, b) [] tag = 1 -> TakeProposal(b) [] OTHER -> Fail]]
           put == PutOf("optional")
           read == ReadOf("optional")
<1>1. <<>> \notin Proposal /\ Optional = Proposal \cup {<<>>} /\ 0 \in Byte /\ 1 \in Byte
  BY BasePositive DEF Proposal, Optional, Byte
<1>2. head \in [Optional -> Byte]
  BY <1>1
<1>3. IsFormat(Proposal, PutOf("proposal"), ReadOf("proposal"))
  BY ProposalFormat DEF HasFormat, ValuesOf
<1>4. /\ \A p \in Proposal : PutOf("proposal")[p] = PutProposal(p)
      /\ \A b \in Bytes : ReadOf("proposal")[b] = TakeProposal(b)
  BY ReadPrimitive DEF PutOf, PutAs, ValuesOf, TakeField, FieldTypes
<1>5. ASSUME NEW tag \in Byte
      PROVE  IsFormat({v \in Optional : head[v] = tag}, part, pread[tag])
  <2>1. CASE tag = 0
    <3>1. {v \in Optional : head[v] = tag} = {<<>>}
      BY <1>1, <2>1
    <3>2. part[<<>>] = <<>> /\ <<>> \in Bytes
      BY <1>1, EmptySeq DEF Bytes
    <3>3. \A b \in Bytes : pread[tag][b] = Got(<<>>, b) /\ <<>> \o b = b
      BY <2>1, ConcatEmptySeq DEF Bytes
    <3>. HIDE DEF head, part, pread
    <3>. QED  BY <3>1, <3>2, <3>3 DEF IsFormat
  <2>2. CASE tag = 1
    <3>1. {v \in Optional : head[v] = tag} = Proposal
      BY <1>1, <2>2
    <3>2. \A p \in Proposal : part[p] = PutOf("proposal")[p]
      BY <1>1, <1>4
    <3>3. \A b \in Bytes : pread[tag][b] = ReadOf("proposal")[b]
      BY <1>4, <2>2
    <3>. HIDE DEF head, part, pread
    <3>. QED  BY <1>3, <3>1, <3>2, <3>3, SameFormat
  <2>3. CASE tag # 0 /\ tag # 1
    <3>1. {v \in Optional : head[v] = tag} = {}
      BY <2>3
    <3>2. \A b \in Bytes : pread[tag][b] = Fail
      BY <2>3
    <3>. HIDE DEF head, part, pread
    <3>. QED  BY <3>1, <3>2 DEF IsFormat
  <2>. QED  BY <2>1, <2>2, <2>3
<1>6. ASSUME NEW v \in Optional PROVE put[v] = PutOf("u8")[head[v]] \o part[v]
  <2>1. put[v] = PutOptional(v) /\ \A x \in Byte : PutOf("u8")[x] = <<x>>
    BY DEF PutOf, PutAs, ValuesOf
  <2>2. CASE v = <<>>
    <3>1. put[v] = <<0>> /\ part[v] = <<>> /\ head[v] = 0
      BY <2>1, <2>2 DEF PutOptional
    <3>2. <<0>> \o <<>> = <<0>>
      OBVIOUS
    <3>. QED  BY <1>1, <2>1, <3>1, <3>2
  <2>3. CASE v # <<>>
    BY <1>1, <2>1, <2>3 DEF PutOptional
  <2>. QED  BY <2>2, <2>3
<1>7. ASSUME NEW b \in Bytes
      PROVE  read[b] = LET r == ReadOf("u8")[b] IN IF r.ok THEN pread[r.value][r.rest] ELSE Fail
  <2> DEFINE r == ReadOf("u8")[b]
  <2>1. read[b] = TakeOptional(b)
    BY ReadPrimitive DEF TakeField, FieldTypes
  <2>2. r = Take("u8", b)
    BY ReadPrimitive DEF Primitives
  <2>3. r = Fail \/ \E n \in Byte, c \in Bytes : r = Got(n, c)
    BY U8Format, FormatReads DEF HasFormat, ValuesOf
  <2>. HIDE DEF r, read
  <2>4. TakeOptional(b) =
          IF r.ok THEN CASE r.value = 0 -> Got(<<>>, r.rest)
                         [] r.value = 1 -> TakeProposal(r.rest)
                         [] OTHER -> Fail
                  ELSE Fail
    BY <2>2 DEF TakeOptional, Then
  <2>5. r.ok => r.value \in Byte /\ r.rest \in Bytes
    BY <2>3, GotIsNotFail
  <2>6. read[b] = IF r.ok THEN pread[r.value][r.rest] ELSE Fail
    BY <2>1, <2>4, <2>5
  <2>. QED  BY <2>6 DEF r
<1>. HIDE DEF head, part, pread
<1>8. IsHeaded(Optional, head, part, put, read, PutOf("u8"), ReadOf("u8"), pread)
  BY <1>6, <1>7 DEF IsHeaded
<1>. HIDE DEF put, read
<1>9. IsFormat(Byte, PutOf("u8"), ReadOf("u8"))
  BY U8Format DEF HasFormat, ValuesOf
<1>10. IsFormat(Optional, put, read)
  BY <1>2, <1>5, <1>8, <1>9, HeadedFormat
<1>11. ValuesOf("optional") = Optional
  BY DEF ValuesOf
<1>. QED  BY <1>10, <1>11 DEF put, read, HasFormat

-----------------------------------------------------------------------------
(* Lists: a count, and as many elements. *)

Alike(type, n) == [k \in 1..n |-> type]
PutListOf(type) == [s \in List(ValuesOf(type)) |-> PutList(type, s)]
ReadListOf(type) == [b \in Bytes |-> TakeList(type, b)]

LEMMA ListFormat ==
  ASSUME NEW type \in {"command", "bytes"}, HasFormat(type)
  PROVE  IsFormat(List(ValuesOf(type)), PutListOf(type), ReadListOf(type))
<1> DEFINE T == ValuesOf(type)
           L == List(T)
           head == [s \in L |-> Len(s)]
           part == [s \in L |-> FlattenSeq([k \in 1..Len(s) |-> PutAs(type, s[k])])]
           pread == [n \in U32 |-> ReadSeries(Alike(type, n))]
           put == PutListOf(type)
           read == ReadListOf(type)
<1>1. \A s : s \in L <=> s \in Seq(T) /\ Len(s) \in U32
  BY DEF List
<1>2. head \in [L -> U32]
  BY <1>1
<1>3. ASSUME NEW n \in U32
      PROVE  /\ n \in Nat /\ Len(Alike(type, n)) = n
             /\ \A k \in 1..n : Alike(type, n)[k] = type
             /\ HaveFormats(Alike(type, n))
             /\ \A k \in 1..Len(Alike(type, n)) : Alike(type, n)[k] \in Primitives \cup {"command"}
  <2>1. n \in Nat
    BY WidthsAre
  <2>2. Len(Alike(type, n)) = n /\ \A k \in 1..n : Alike(type, n)[k] = type
    BY <2>1 DEF Alike
  <2>. QED  BY <2>1, <2>2 DEF HaveFormats, Primitives
<1>4. ASSUME NEW n \in U32
      PROVE  IsFormat({s \in L : head[s] = n}, part, pread[n])
  <2> DEFINE types == Alike(type, n)
  <2>1. IsFormat(Series(types), PutSeries(types), ReadSeries(types))
    BY <1>3, SeriesFormat
  <2>2. ASSUME NEW v PROVE v \in Series(types) <=> v \in L /\ Len(v) = n
    <3>1. v \in Series(types) <=> v = [k \in 1..n |-> v[k]] /\ \A k \in 1..n : v[k] \in T
      BY <1>3, SeriesAre
    <3>2. ASSUME v \in Series(types) PROVE v \in L /\ Len(v) = n
      <4>1. v \in [1..n -> T]
        BY <3>1, <3>2
      <4>2. v \in Seq(T) /\ Len(v) = n
        BY <1>3, <4>1, IsASeq
      <4>. QED  BY <1>1, <4>2
    <3>3. ASSUME v \in L, Len(v) = n PROVE v \in Series(types)
      <4>1. v \in [1..n -> T]
        BY <1>1, <3>3, LenProperties
      <4>. QED  BY <3>1, <4>1
    <3>. QED  BY <3>2, <3>3
  <2>3. {s \in L : head[s] = n} = Series(types)
    BY <2>2
  <2>4. ASSUME NEW v \in Series(types) PROVE part[v] = PutSeries(types)[v]
    <3>1. v \in L /\ Len(v) = n
      BY <2>2
    <3>2. part[v] = FlattenSeq([k \in 1..n |-> PutAs(type, v[k])])
      BY <3>1
    <3>3. PutSeries(types)[v] = FlattenSeq([k \in 1..n |-> PutAs(types[k], v[k])])
      BY <1>3, SeriesAre
    <3>4. [k \in 1..n |-> PutAs(types[k], v[k])] = [k \in 1..n |-> PutAs(type, v[k])]
      BY <1>3
    <3>. QED  BY <3>2, <3>3, <3>4
  <2>5. pread[n] = ReadSeries(types)
    OBVIOUS
  <2>. HIDE DEF types, head, part, pread, L
  <2>6. IsFormat(Series(types), part, pread[n])
    BY <2>1, <2>4, <2>5, SameFormat
  <2>. QED  BY <2>3, <2>6
<1>5. ASSUME NEW s \in L PROVE put[s] = PutOf("u32")[head[s]] \o part[s]
  <2>1. \A x : PutAs(type, x) = IF type = "command" THEN PutCommand(x) ELSE PutBytes(x)
    BY DEF PutAs
  <2>2. part[s] = FlattenSeq([k \in 1..Len(s) |->
                    IF type = "command" THEN PutCommand(s[k]) ELSE PutBytes(s[k])])
    BY <2>1
  <2>3. Len(s) \in U32
    BY <1>1
  <2>4. PutOf("u32")[Len(s)] = Put32(Len(s))
    BY <2>3 DEF PutOf, PutAs, ValuesOf
  <2>5. put[s] = PutList(type, s)
    BY DEF PutListOf
  <2>6. head[s] = Len(s)
    OBVIOUS
  <2>. HIDE DEF head, part, put, L
  <2>. QED  BY <2>2, <2>4, <2>5, <2>6 DEF PutList
<1>6. ASSUME NEW b \in Bytes
      PROVE  read[b] = LET r == ReadOf("u32")[b] IN IF r.ok THEN pread[r.value][r.rest] ELSE Fail
  <2> DEFINE r == ReadOf("u32")[b]
  <2>1. read[b] = TakeList(type, b)
    BY DEF ReadListOf
  <2>2. r = Take("u32", b)
    BY ReadPrimitive DEF Primitives
  <2>3. r = Fail \/ \E n \in U32, c \in Bytes : r = Got(n, c)
    BY U32Format, FormatReads DEF HasFormat, ValuesOf
  <2>. HIDE DEF r, read
  <2>4. TakeList(type, b) =
          IF r.ok THEN InOrder(TakeElement, Alike(type, r.value), r.rest) ELSE Fail
    BY <2>2 DEF TakeList, Then, Alike
  <2>5. r.ok => r.value \in U32 /\ r.rest \in Bytes
    BY <2>3, GotIsNotFail
  <2>6. ASSUME r.ok
        PROVE  InOrder(TakeElement, Alike(type, r.value), r.rest) = pread[r.value][r.rest]
    <3> DEFINE types == Alike(type, r.value)
    <3>1. HaveFormats(types) /\ \A k \in 1..Len(types) : types[k] \in Primitives \cup {"command"}
      BY <1>3, <2>5, <2>6
    <3>2. pread[r.value] = ReadSeries(types)
      BY <2>5, <2>6
    <3>. HIDE DEF types, pread
    <3>3. InOrder(TakeElement, types, r.rest) = ReadSeries(types)[r.rest]
      BY <2>5, <2>6, <3>1, SeriesOfTakeElement
    <3>. QED  BY <3>2, <3>3 DEF types
  <2>. HIDE DEF pread
  <2>7. read[b] = IF r.ok THEN pread[r.value][r.rest] ELSE Fail
    BY <2>1, <2>4, <2>6
  <2>. QED  BY <2>7 DEF r
<1>. HIDE DEF head, part, pread, L
<1>7. IsHeaded(L, head, part, put, read, PutOf("u32"), ReadOf("u32"), pread)
  BY <1>5, <1>6 DEF IsHeaded
<1>. HIDE DEF put, read
<1>8. IsFormat(U32, PutOf("u32"), ReadOf("u32"))
  BY U32Format DEF HasFormat, ValuesOf
<1>9. IsFormat(L, put, read)
  BY <1>2, <1>4, <1>7, <1>8, HeadedFormat
<1>. QED  BY <1>9 DEF L, put, read

LEMMA CommandsFormat == HasFormat("commands")
<1>1. IsFormat(List(Command), PutListOf("command"), ReadListOf("command"))
  BY CommandFormat, ListFormat DEF ValuesOf
<1>2. /\ ValuesOf("commands") = List(Command)
      /\ \A s \in List(Command) : PutOf("commands")[s] = PutListOf("command")[s]
  BY DEF ValuesOf, PutOf, PutAs, PutListOf
<1>3. \A b \in Bytes : ReadOf("commands")[b] = ReadListOf("command")[b]
  BY ReadPrimitive DEF TakeField, FieldTypes, ReadListOf
<1>. QED  BY <1>1, <1>2, <1>3, SameFormat DEF HasFormat

LEMMA ValuesFormat == HasFormat("values")
<1>1. IsFormat(List(Value), PutListOf("bytes"), ReadListOf("bytes"))
  BY BytesFormat, ListFormat DEF ValuesOf
<1>2. /\ ValuesOf("values") = List(Value)
      /\ \A s \in List(Value) : PutOf("values")[s] = PutListOf("bytes")[s]
  BY DEF ValuesOf, PutOf, PutAs, PutListOf
<1>3. \A b \in Bytes : ReadOf("values")[b] = ReadListOf("bytes")[b]
  BY ReadPrimitive DEF TakeField, FieldTypes, ReadListOf
<1>. QED  BY <1>1, <1>2, <1>3, SameFormat DEF HasFormat

-----------------------------------------------------------------------------
(* Payloads and messages. *)

IsPayload(kind) ==
  /\ HaveFormats(Layout[kind]) /\ \A k \in 1..Len(Layout[kind]) : Layout[kind][k] \in FieldTypes
  /\ Series(Layout[kind]) = Fields(kind)
  /\ \A f \in Fields(kind) : PutSeries(Layout[kind])[f] = PutPayload(kind, f)

LEMMA FieldFormats == \A type \in FieldTypes : HasFormat(type)
BY PrimitiveFormats, ProposalFormat, OptionalFormat, CommandsFormat, ValuesFormat
   DEF FieldTypes

LEMMA FieldValues ==
  /\ ValuesOf("proposal") = Proposal /\ ValuesOf("optional") = Optional
  /\ ValuesOf("commands") = List(Command) /\ ValuesOf("values") = List(Value)
  /\ \A x : /\ PutAs("proposal", x) = PutProposal(x) /\ PutAs("optional", x) = PutOptional(x)
            /\ PutAs("commands", x) = PutList("command", x)
            /\ PutAs("values", x) = PutList("bytes", x)
BY DEF ValuesOf, PutAs

LEMMA KindsAre ==
  /\ Kind = {1, 2, 3, 4, 5, 6, 7} /\ Kind \subseteq Byte /\ Version \in Byte
  /\ Record = 1 /\ RecordReply = 2 /\ Decide = 3 /\ Forward = 4 /\ Learn = 5 /\ LearnReply = 6
  /\ Ping = 7
<1>1. Kind = {1, 2, 3, 4, 5, 6, 7}
  BY DEF Kind, Record, Ping
<1>. QED  BY <1>1, BasePositive
          DEF Byte, Version, Record, RecordReply, Decide, Forward, Learn, LearnReply, Ping

LEMMA PayloadIs ==
  ASSUME NEW kind \in Kind
  PROVE  IsPayload(kind)
<1>1. /\ HasFormat("u32") /\ HasFormat("u64") /\ HasFormat("bytes") /\ HasFormat("proposal")
      /\ HasFormat("optional") /\ HasFormat("commands") /\ HasFormat("values")
  BY FieldFormats DEF FieldTypes, Primitives
<1>2. CASE kind = Record
  <2> DEFINE types == <<"u64", "u32", "proposal">>
  <2>1. Layout[kind] = types /\ \A k \in 1..Len(types) : types[k] \in FieldTypes
    BY <1>2, KindsAre DEF Layout, FieldTypes, Primitives
  <2>2. /\ HaveFormats(types) /\ Series(types) = U64 \X U32 \X Proposal
        /\ \A v \in Series(types) :
             PutSeries(types)[v] = Put64(v[1]) \o Put32(v[2]) \o PutProposal(v[3])
    <3>1. /\ HaveFormats(types)
          /\ Series(types) = ValuesOf("u64") \X ValuesOf("u32") \X ValuesOf("proposal")
          /\ \A v \in Series(types) : PutSeries(types)[v] =
               PutAs("u64", v[1]) \o PutAs("u32", v[2]) \o PutAs("proposal", v[3])
      <4>1. AreSeriesOf3("u64", "u32", "proposal")
        BY <1>1, SeriesOf3
      <4>. QED  BY <4>1, Zenon DEF AreSeriesOf3
    <3>. HIDE DEF types
    <3>. QED  BY <3>1, PrimitiveValues, FieldValues
  <2>3. Fields(kind) = U64 \X U32 \X Proposal
    BY <1>2, KindsAre DEF Fields
  <2>4. \A f : PutPayload(kind, f) = Put64(f[1]) \o Put32(f[2]) \o PutProposal(f[3])
    BY <1>2, KindsAre DEF PutPayload
  <2>. HIDE DEF types
  <2>. QED  BY <2>1, <2>2, <2>3, <2>4 DEF IsPayload
<1>3. CASE kind = RecordReply
  <2> DEFINE types == <<"u64", "u32", "u32", "optional", "optional">>
  <2>1. Layout[kind] = types /\ \A k \in 1..Len(types) : types[k] \in FieldTypes
    BY <1>3, KindsAre DEF Layout, FieldTypes, Primitives
  <2>2. AreSeriesOf5("u64", "u32", "u32", "optional", "optional")
    BY <1>1, SeriesOf5
  <2>3. /\ HaveFormats(types)
        /\ Series(types) = ValuesOf("u64") \X ValuesOf("u32") \X ValuesOf("u32") \X
                             ValuesOf("optional") \X ValuesOf("optional")
        /\ \A v \in Series(types) : PutSeries(types)[v] =
             PutAs("u64", v[1]) \o PutAs("u32", v[2]) \o PutAs("u32", v[3]) \o
               PutAs("optional", v[4]) \o PutAs("optional", v[5])
    BY <2>2, Zenon DEF AreSeriesOf5
  <2>4. Fields(kind) = U64 \X U32 \X U32 \X Optional \X Optional
    BY <1>3, KindsAre DEF Fields
  <2>5. \A f : PutPayload(kind, f) =
          Put64(f[1]) \o Put32(f[2]) \o Put32(f[3]) \o PutOptional(f[4]) \o PutOptional(f[5])
    BY <1>3, KindsAre DEF PutPayload
  <2>. HIDE DEF types
  <2>6. Series(types) = Fields(kind)
    BY <2>3, <2>4, PrimitiveValues, FieldValues
  <2>7. ASSUME NEW f \in Fields(kind) PROVE PutSeries(types)[f] = PutPayload(kind, f)
    <3>1. PutSeries(types)[f] =
            PutAs("u64", f[1]) \o PutAs("u32", f[2]) \o PutAs("u32", f[3]) \o
              PutAs("optional", f[4]) \o PutAs("optional", f[5])
      BY <2>3, <2>6, Zenon
    <3>2. /\ PutAs("u64", f[1]) = Put64(f[1]) /\ PutAs("u32", f[2]) = Put32(f[2])
          /\ PutAs("u32", f[3]) = Put32(f[3]) /\ PutAs("optional", f[4]) = PutOptional(f[4])
          /\ PutAs("optional", f[5]) = PutOptional(f[5])
      BY PrimitiveValues, FieldValues
    <3>. QED  BY <2>5, <3>1, <3>2
  <2>. QED  BY <2>1, <2>3, <2>6, <2>7 DEF IsPayload
<1>4. CASE kind = Decide
  <2> DEFINE types == <<"u64", "bytes">>
  <2>1. Layout[kind] = types /\ \A k \in 1..Len(types) : types[k] \in FieldTypes
    BY <1>4, KindsAre DEF Layout, FieldTypes, Primitives
  <2>2. /\ HaveFormats(types) /\ Series(types) = U64 \X Value
        /\ \A v \in Series(types) : PutSeries(types)[v] = Put64(v[1]) \o PutBytes(v[2])
    BY <1>1, SeriesOf2, PrimitiveValues
  <2>3. Fields(kind) = U64 \X Value /\ \A f : PutPayload(kind, f) = Put64(f[1]) \o PutBytes(f[2])
    BY <1>4, KindsAre DEF Fields, PutPayload
  <2>. HIDE DEF types
  <2>. QED  BY <2>1, <2>2, <2>3 DEF IsPayload
<1>5. CASE kind = Forward
  <2> DEFINE types == <<"commands">>
  <2>1. Layout[kind] = types /\ \A k \in 1..Len(types) : types[k] \in FieldTypes
    BY <1>5, KindsAre DEF Layout, FieldTypes
  <2>2. /\ HaveFormats(types) /\ Series(types) = [1..1 -> List(Command)]
        /\ \A v \in Series(types) : PutSeries(types)[v] = PutList("command", v[1])
    BY <1>1, SeriesOf1, FieldValues
  <2>3. Fields(kind) = [1..1 -> List(Command)]
        /\ \A f : PutPayload(kind, f) = PutList("command", f[1])
    BY <1>5, KindsAre DEF Fields, PutPayload
  <2>. HIDE DEF types
  <2>. QED  BY <2>1, <2>2, <2>3 DEF IsPayload
<1>6. CASE kind = Learn
  <2> DEFINE types == <<"u64">>
  <2>1. Layout[kind] = types /\ \A k \in 1..Len(types) : types[k] \in FieldTypes
    BY <1>6, KindsAre DEF Layout, FieldTypes, Primitives
  <2>2. /\ HaveFormats(types) /\ Series(types) = [1..1 -> U64]
        /\ \A v \in Series(types) : PutSeries(types)[v] = Put64(v[1])
    BY <1>1, SeriesOf1, PrimitiveValues
  <2>3. Fields(kind) = [1..1 -> U64] /\ \A f : PutPayload(kind, f) = Put64(f[1])
    BY <1>6, KindsAre DEF Fields, PutPayload
  <2>. HIDE DEF types
  <2>. QED  BY <2>1, <2>2, <2>3 DEF IsPayload
<1>7. CASE kind = LearnReply
  <2> DEFINE types == <<"u64", "values">>
  <2>1. Layout[kind] = types /\ \A k \in 1..Len(types) : types[k] \in FieldTypes
    BY <1>7, KindsAre DEF Layout, FieldTypes, Primitives
  <2>2. /\ HaveFormats(types) /\ Series(types) = U64 \X List(Value)
        /\ \A v \in Series(types) : PutSeries(types)[v] = Put64(v[1]) \o PutList("bytes", v[2])
    <3>1. /\ HaveFormats(types)
          /\ Series(types) = ValuesOf("u64") \X ValuesOf("values")
          /\ \A v \in Series(types) : PutSeries(types)[v] =
               PutAs("u64", v[1]) \o PutAs("values", v[2])
      <4>1. HasFormat("u64") /\ HasFormat("values")
        BY <1>1
      <4>. QED  BY <4>1, SeriesOf2, SMTT(30)
    <3>. HIDE DEF types
    <3>. QED  BY <3>1, PrimitiveValues, FieldValues
  <2>3. Fields(kind) = U64 \X List(Value)
    BY <1>7, KindsAre DEF Fields
  <2>4. \A f : PutPayload(kind, f) = Put64(f[1]) \o PutList("bytes", f[2])
    BY <1>7, KindsAre DEF PutPayload
  <2>. HIDE DEF types
  <2>. QED  BY <2>1, <2>2, <2>3, <2>4 DEF IsPayload
<1>8. CASE kind = Ping
  <2>1. Layout[kind] = <<>> /\ Fields(kind) = {<<>>} /\ PutPayload(kind, <<>>) = <<>>
    BY <1>8, KindsAre DEF Layout, Fields, PutPayload
  <2>2. Len(<<>>) = 0
    OBVIOUS
  <2>. QED  BY <2>1, <2>2, SeriesOf0 DEF IsPayload
<1>. QED  BY <1>2, <1>3, <1>4, <1>5, <1>6, <1>7, <1>8, KindsAre

LEMMA PayloadFormat ==
  ASSUME NEW kind \in Kind
  PROVE  /\ IsFormat(Fields(kind), PutSeries(Layout[kind]), ReadSeries(Layout[kind]))
         /\ \A f \in Fields(kind) : PutSeries(Layout[kind])[f] = PutPayload(kind, f)
         /\ \A b \in Bytes : InOrder(TakeField, Layout[kind], b) = ReadSeries(Layout[kind])[b]
<1> DEFINE types == Layout[kind]
<1>1. IsPayload(kind)
  BY PayloadIs
<1>2. /\ HaveFormats(types) /\ \A k \in 1..Len(types) : types[k] \in FieldTypes
      /\ Series(types) = Fields(kind)
      /\ \A f \in Fields(kind) : PutSeries(types)[f] = PutPayload(kind, f)
  BY <1>1 DEF IsPayload
<1>. HIDE DEF types
<1>3. IsFormat(Fields(kind), PutSeries(types), ReadSeries(types))
  BY <1>2, SeriesFormat
<1>4. \A b \in Bytes : InOrder(TakeField, types, b) = ReadSeries(types)[b]
  BY <1>2, SeriesOfTakeField
<1>. QED  BY <1>2, <1>3, <1>4 DEF types

\* The version, the kind, the sender and its decided count.
HeaderTypes == <<"u8", "u8", "u64", "u64">>
Header == {h \in Byte \X Byte \X U64 \X U64 : h[1] = Version /\ h[2] \in Kind /\ h[3] # 0}
PutHeader(h) == <<h[1]>> \o <<h[2]>> \o Put64(h[3]) \o Put64(h[4])
HeaderRead ==
  [b \in Bytes |-> LET r == ReadSeries(HeaderTypes)[b] IN
                   IF r.ok /\ r.value \in Header THEN r ELSE Fail]

LEMMA HeaderIs ==
  /\ HaveFormats(HeaderTypes) /\ \A k \in 1..Len(HeaderTypes) : HeaderTypes[k] \in Primitives
  /\ Series(HeaderTypes) = Byte \X Byte \X U64 \X U64
  /\ \A h \in Series(HeaderTypes) : PutSeries(HeaderTypes)[h] = PutHeader(h)
<1>1. HasFormat("u8") /\ HasFormat("u64")
  BY U8Format, U64Format
<1>2. AreSeriesOf4("u8", "u8", "u64", "u64")
  BY <1>1, SeriesOf4
<1>3. /\ HaveFormats(HeaderTypes)
      /\ Series(HeaderTypes) =
           ValuesOf("u8") \X ValuesOf("u8") \X ValuesOf("u64") \X ValuesOf("u64")
      /\ \A h \in Series(HeaderTypes) : PutSeries(HeaderTypes)[h] =
           PutAs("u8", h[1]) \o PutAs("u8", h[2]) \o PutAs("u64", h[3]) \o PutAs("u64", h[4])
  BY <1>2, Zenon DEF AreSeriesOf4, HeaderTypes
<1>4. ASSUME NEW h \in Series(HeaderTypes) PROVE PutSeries(HeaderTypes)[h] = PutHeader(h)
  BY <1>3, PrimitiveValues, Zenon DEF PutHeader
<1>5. \A k \in 1..Len(HeaderTypes) : HeaderTypes[k] \in Primitives
  BY DEF HeaderTypes, Primitives
<1>. QED  BY <1>3, <1>4, <1>5, PrimitiveValues

LEMMA HeaderFormat == IsFormat(Header, PutSeries(HeaderTypes), HeaderRead)
<1>1. IsFormat(Byte \X Byte \X U64 \X U64, PutSeries(HeaderTypes), ReadSeries(HeaderTypes))
  BY HeaderIs, SeriesFormat
<1>2. Filters(HeaderRead, Header, ReadSeries(HeaderTypes))
  BY DEF Filters, HeaderRead
<1>3. Header \subseteq Byte \X Byte \X U64 \X U64
  BY DEF Header
<1>. QED  BY <1>1, <1>2, <1>3, FilterFormat

AllMessages ==
  {m \in [kind : Kind, from : U64 \ {0}, decided : U64, fields : UNION {Fields(k) : k \in Kind}] :
     m.fields \in Fields(m.kind)}

LEMMA AllMessagesAre ==
  ASSUME NEW m
  PROVE  IsMessage(m) <=> m \in AllMessages
<1>1. ASSUME IsMessage(m) PROVE m \in AllMessages
  <2>1. m.kind \in Kind
        /\ m \in [kind : Kind, from : U64 \ {0}, decided : U64, fields : Fields(m.kind)]
    BY <1>1 DEF IsMessage
  <2>2. Fields(m.kind) \subseteq UNION {Fields(k) : k \in Kind}
    BY <2>1
  <2>. QED  BY <2>1, <2>2 DEF AllMessages
<1>2. ASSUME m \in AllMessages PROVE IsMessage(m)
  BY <1>2 DEF AllMessages, IsMessage
<1>. QED  BY <1>1, <1>2

WithHeader(h, fields) == [kind |-> h[2], from |-> h[3], decided |-> h[4], fields |-> fields]
HeaderOf == [m \in AllMessages |-> <<Version, m.kind, m.from, m.decided>>]
PayloadOf == [m \in AllMessages |-> PutPayload(m.kind, m.fields)]
PayloadRead ==
  [h \in Header |-> [b \in Bytes |->
    LET r == ReadSeries(Layout[h[2]])[b] IN
    IF r.ok THEN Got(WithHeader(h, r.value), r.rest) ELSE Fail]]
PutMessage == [m \in AllMessages |-> Encode(m)]
MessageRead ==
  [b \in Bytes |-> LET r == HeaderRead[b] IN
                   IF r.ok THEN PayloadRead[r.value][r.rest] ELSE Fail]

LEMMA HeadersAre ==
  /\ \A h : h \in Header <=>
       /\ h = <<Version, h[2], h[3], h[4]>> /\ h[2] \in Kind /\ h[3] \in U64 \ {0} /\ h[4] \in U64
  /\ HeaderOf \in [AllMessages -> Header]
  /\ \A h \in Header : \A f \in Fields(h[2]) :
       WithHeader(h, f) \in AllMessages /\ HeaderOf[WithHeader(h, f)] = h
  /\ \A m \in AllMessages :
       m = WithHeader(HeaderOf[m], m.fields) /\ m.fields \in Fields(HeaderOf[m][2])
<1>1. ASSUME NEW h
      PROVE  h \in Header <=>
               /\ h = <<Version, h[2], h[3], h[4]>> /\ h[2] \in Kind
               /\ h[3] \in U64 \ {0} /\ h[4] \in U64
  BY KindsAre DEF Header
<1>2. ASSUME NEW m \in AllMessages
      PROVE  /\ HeaderOf[m] \in Header
             /\ m = WithHeader(HeaderOf[m], m.fields) /\ m.fields \in Fields(HeaderOf[m][2])
  <2>1. /\ m.kind \in Kind /\ m.from \in U64 \ {0} /\ m.decided \in U64
        /\ m.fields \in Fields(m.kind)
        /\ m = [kind |-> m.kind, from |-> m.from, decided |-> m.decided, fields |-> m.fields]
    BY DEF AllMessages
  <2>2. HeaderOf[m] = <<Version, m.kind, m.from, m.decided>>
    BY DEF HeaderOf
  <2>3. HeaderOf[m] \in Header
    BY <1>1, <2>1, <2>2
  <2>. QED  BY <2>1, <2>2, <2>3 DEF WithHeader
<1>3. ASSUME NEW h \in Header, NEW f \in Fields(h[2])
      PROVE  WithHeader(h, f) \in AllMessages /\ HeaderOf[WithHeader(h, f)] = h
  <2> DEFINE m == WithHeader(h, f)
  <2>1. h = <<Version, h[2], h[3], h[4]>> /\ h[2] \in Kind /\ h[3] \in U64 \ {0} /\ h[4] \in U64
    BY <1>1
  <2>2. m = [kind |-> h[2], from |-> h[3], decided |-> h[4], fields |-> f]
    BY DEF WithHeader
  <2>3. f \in UNION {Fields(k) : k \in Kind}
    BY <2>1
  <2>. HIDE DEF m
  <2>4. m \in AllMessages
    BY <2>1, <2>2, <2>3 DEF AllMessages
  <2>5. HeaderOf[m] = <<Version, h[2], h[3], h[4]>>
    BY <2>2, <2>4 DEF HeaderOf
  <2>. QED  BY <2>1, <2>4, <2>5 DEF m
<1>4. HeaderOf \in [AllMessages -> Header]
  BY <1>2 DEF HeaderOf
<1>. QED  BY <1>1, <1>2, <1>3, <1>4

LEMMA TwoBytes ==
  ASSUME NEW x \in Byte, NEW y \in Byte
  PROVE  <<x>> \o <<y>> = <<x, y>>
<1>1. <<x>> \in Seq(Byte) /\ <<x, y>> = Append(<<x>>, y)
  OBVIOUS
<1>. QED  BY <1>1, AppendIsConcat

LEMMA MessageFormat == IsFormat(AllMessages, PutMessage, MessageRead)
<1>1. HeaderOf \in [AllMessages -> Header]
  BY HeadersAre
<1>2. ASSUME NEW h \in Header
      PROVE  IsFormat({m \in AllMessages : HeaderOf[m] = h}, PayloadOf, PayloadRead[h])
  <2> DEFINE kind == h[2]
             M == {m \in AllMessages : HeaderOf[m] = h}
             read == ReadSeries(Layout[kind])
  <2>1. kind \in Kind
    BY HeadersAre
  <2>2. /\ IsFormat(Fields(kind), PutSeries(Layout[kind]), read)
        /\ \A f \in Fields(kind) : PutSeries(Layout[kind])[f] = PutPayload(kind, f)
    BY <2>1, PayloadFormat
  <2>3. \A b \in Bytes : PayloadRead[h][b] =
          IF read[b].ok THEN Got(WithHeader(h, read[b].value), read[b].rest) ELSE Fail
    BY DEF PayloadRead
  <2>4. ASSUME NEW m \in M
        PROVE  /\ m.fields \in Fields(kind) /\ m = WithHeader(h, m.fields)
               /\ PayloadOf[m] = PutPayload(kind, m.fields)
    <3>1. m \in AllMessages /\ HeaderOf[m] = h
      OBVIOUS
    <3>2. m.fields \in Fields(kind) /\ m = WithHeader(h, m.fields)
      BY <3>1, HeadersAre
    <3>3. m.kind = kind
      BY <3>2 DEF WithHeader
    <3>4. PayloadOf[m] = PutPayload(m.kind, m.fields)
      BY <3>1 DEF PayloadOf
    <3>. QED  BY <3>2, <3>3, <3>4
  <2>5. \A f \in Fields(kind) : WithHeader(h, f) \in M
    BY HeadersAre
  <2>. HIDE DEF M, kind, read
  <2>6. \A f \in Fields(kind) : PutPayload(kind, f) \in Bytes
    BY <2>2 DEF IsFormat
  <2>7. ASSUME NEW m \in M, NEW c \in Bytes
        PROVE  PayloadRead[h][PayloadOf[m] \o c] = Got(m, c)
    <3> DEFINE p == PutPayload(kind, m.fields)
               b == p \o c
    <3>1. p \in Bytes /\ PayloadOf[m] = p /\ read[p \o c] = Got(m.fields, c)
      BY <2>2, <2>4, <2>6 DEF IsFormat
    <3>. HIDE DEF p
    <3>2. b \in Bytes /\ read[b] = Got(m.fields, c)
      BY <3>1, ConcatProperties DEF Bytes
    <3>. HIDE DEF b
    <3>3. PayloadRead[h][b] = Got(m, c)
      BY <2>3, <2>4, <3>2, GotIsNotFail
    <3>. QED  BY <3>1, <3>3 DEF b
  <2>8. ASSUME NEW b \in Bytes, PayloadRead[h][b] # Fail
        PROVE  \E m \in M, c \in Bytes : b = PayloadOf[m] \o c
    <3>1. read[b] # Fail
      BY <2>3, <2>8, GotIsNotFail
    <3>2. PICK f \in Fields(kind), c \in Bytes : b = PutSeries(Layout[kind])[f] \o c
      BY <2>2, <3>1, FormatReads
    <3> DEFINE m == WithHeader(h, f)
    <3>3. m \in M /\ m.fields = f
      BY <2>5 DEF WithHeader
    <3>. HIDE DEF m
    <3>4. b = PutPayload(kind, f) \o c /\ PayloadOf[m] = PutPayload(kind, f)
      BY <2>2, <2>4, <3>2, <3>3
    <3>. QED  BY <3>3, <3>4
  <2>9. \A m \in M : PayloadOf[m] \in Bytes
    BY <2>4, <2>6
  <2>10. IsFormat(M, PayloadOf, PayloadRead[h])
    BY <2>7, <2>8, <2>9 DEF IsFormat
  <2>. QED  BY <2>10 DEF M
<1>3. ASSUME NEW m \in AllMessages
      PROVE  PutMessage[m] = PutSeries(HeaderTypes)[HeaderOf[m]] \o PayloadOf[m]
  <2> DEFINE h == HeaderOf[m]
  <2>1. h \in Header /\ h = <<Version, m.kind, m.from, m.decided>>
    BY HeadersAre DEF HeaderOf
  <2>2. Header \subseteq Series(HeaderTypes)
    BY HeaderIs DEF Header
  <2>3. PutSeries(HeaderTypes)[h] = PutHeader(h)
    BY <2>1, <2>2, HeaderIs
  <2>4. PutHeader(h) = <<Version>> \o <<m.kind>> \o Put64(m.from) \o Put64(m.decided)
    BY <2>1 DEF PutHeader
  <2>5. <<Version>> \o <<m.kind>> = <<Version, m.kind>>
    <3>1. Version \in Byte /\ m.kind \in Byte
      BY KindsAre DEF AllMessages
    <3>. QED  BY <3>1, TwoBytes
  <2>6. PutMessage[m] = Encode(m) /\ PayloadOf[m] = PutPayload(m.kind, m.fields)
    BY DEF PutMessage, PayloadOf
  <2>. HIDE DEF h
  <2>7. PutSeries(HeaderTypes)[h] = <<Version, m.kind>> \o Put64(m.from) \o Put64(m.decided)
    BY <2>3, <2>4, <2>5, Zenon
  <2>8. PutMessage[m] = PutSeries(HeaderTypes)[h] \o PayloadOf[m]
    BY <2>6, <2>7, Zenon DEF Encode
  <2>. QED  BY <2>8 DEF h
<1>4. IsHeaded(AllMessages, HeaderOf, PayloadOf, PutMessage, MessageRead,
               PutSeries(HeaderTypes), HeaderRead, PayloadRead)
  BY <1>3 DEF IsHeaded, MessageRead
<1>. QED  BY <1>1, <1>2, <1>4, HeaderFormat, HeadedFormat

\* A zero, and a list of commands.
PutBatch == [s \in List(Command) |-> EncodeBatch(s)]
BatchTail == [tag \in Byte |-> IF tag = 0 THEN ReadListOf("command") ELSE [b \in Bytes |-> Fail]]
BatchRead ==
  [b \in Bytes |-> LET r == ReadOf("u8")[b] IN IF r.ok THEN BatchTail[r.value][r.rest] ELSE Fail]

LEMMA BatchFormat == IsFormat(List(Command), PutBatch, BatchRead)
<1> DEFINE L == List(Command)
           head == [s \in L |-> 0]
           part == PutListOf("command")
<1>1. IsFormat(L, part, ReadListOf("command"))
  BY CommandFormat, ListFormat DEF ValuesOf
<1>2. 0 \in Byte
  BY BasePositive DEF Byte
<1>3. head \in [L -> Byte]
  BY <1>2
<1>4. ASSUME NEW tag \in Byte PROVE IsFormat({s \in L : head[s] = tag}, part, BatchTail[tag])
  <2>1. CASE tag = 0
    <3>1. {s \in L : head[s] = tag} = L
      BY <2>1
    <3>2. BatchTail[tag] = ReadListOf("command")
      BY <2>1 DEF BatchTail
    <3>. HIDE DEF head, part, L
    <3>. QED  BY <1>1, <3>1, <3>2
  <2>2. CASE tag # 0
    <3>1. {s \in L : head[s] = tag} = {}
      BY <2>2
    <3>2. \A b \in Bytes : BatchTail[tag][b] = Fail
      BY <2>2 DEF BatchTail
    <3>. HIDE DEF head, part, L
    <3>. QED  BY <3>1, <3>2 DEF IsFormat
  <2>. QED  BY <2>1, <2>2
<1>5. ASSUME NEW s \in L PROVE PutBatch[s] = PutOf("u8")[head[s]] \o part[s]
  <2>1. PutOf("u8")[head[s]] = <<0>>
    BY <1>2 DEF PutOf, PutAs, ValuesOf
  <2>2. part[s] = PutList("command", s)
    BY DEF PutListOf, ValuesOf
  <2>3. PutBatch[s] = <<0>> \o PutList("command", s)
    BY DEF PutBatch, EncodeBatch
  <2>. HIDE DEF head, part
  <2>. QED  BY <2>1, <2>2, <2>3
<1>. HIDE DEF head, part, L
<1>6. IsHeaded(L, head, part, PutBatch, BatchRead, PutOf("u8"), ReadOf("u8"), BatchTail)
  BY <1>5 DEF IsHeaded, BatchRead
<1>7. IsFormat(Byte, PutOf("u8"), ReadOf("u8"))
  BY U8Format DEF HasFormat, ValuesOf
<1>8. IsFormat(L, PutBatch, BatchRead)
  BY <1>3, <1>4, <1>6, <1>7, HeadedFormat
<1>. QED  BY <1>8 DEF L

-----------------------------------------------------------------------------
(* Decoding: nothing may be left over. *)

IsDecoder(T, put, decode) ==
  /\ \A x \in T : put[x] \in Bytes /\ decode[put[x]] = Got(x, <<>>)
  /\ \A x \in T, c \in Bytes : c # <<>> => ~decode[put[x] \o c].ok
  /\ \A b \in Bytes : decode[b].ok => \E x \in T : b = put[x] /\ decode[b] = Got(x, <<>>)
Finishes(decode, read) ==
  \A b \in Bytes : decode[b] = IF read[b].ok /\ read[b].rest = <<>> THEN read[b] ELSE Fail

LEMMA FinishedFormat ==
  ASSUME NEW T, NEW put, NEW read, IsFormat(T, put, read), NEW decode, Finishes(decode, read)
  PROVE  IsDecoder(T, put, decode)
<1>1. ASSUME NEW x \in T, NEW c \in Bytes
      PROVE  decode[put[x] \o c] = IF c = <<>> THEN Got(x, <<>>) ELSE Fail
  <2> DEFINE b == put[x] \o c
  <2>1. b \in Bytes /\ read[b] = Got(x, c)
    BY ConcatProperties DEF IsFormat, Bytes
  <2>. HIDE DEF b
  <2>2. decode[b] = IF c = <<>> THEN Got(x, <<>>) ELSE Fail
    BY <2>1, GotIsNotFail DEF Finishes
  <2>. QED  BY <2>2 DEF b
<1>2. \A x \in T : put[x] \in Bytes /\ put[x] \o <<>> = put[x] /\ <<>> \in Bytes
  BY ConcatEmptySeq, EmptySeq DEF IsFormat, Bytes
<1>3. \A x \in T : decode[put[x]] = Got(x, <<>>)
  BY <1>1, <1>2
<1>4. \A x \in T, c \in Bytes : c # <<>> => ~decode[put[x] \o c].ok
  BY <1>1, GotIsNotFail
<1>5. ASSUME NEW b \in Bytes, decode[b].ok
      PROVE  \E x \in T : b = put[x] /\ decode[b] = Got(x, <<>>)
  <2>1. read[b] # Fail /\ read[b].rest = <<>> /\ decode[b] = read[b]
    BY <1>5, GotIsNotFail DEF Finishes
  <2>2. PICK x \in T, c \in Bytes : b = put[x] \o c /\ read[b] = Got(x, c)
    BY <2>1, FormatReads
  <2>3. c = <<>>
    BY <2>1, <2>2, GotIsNotFail
  <2>. QED  BY <1>2, <2>1, <2>2, <2>3
<1>. QED  BY <1>2, <1>3, <1>4, <1>5 DEF IsDecoder

LEMMA DecodeIs ==
  ASSUME NEW b \in Bytes
  PROVE  Decode(b) = IF MessageRead[b].ok /\ MessageRead[b].rest = <<>>
                       THEN MessageRead[b] ELSE Fail
<1> DEFINE h == ReadSeries(HeaderTypes)[b]
           kind == h.value[2]
           f == ReadSeries(Layout[kind])[h.rest]
<1>1. InOrder(Take, <<"u8", "u8", "u64", "u64">>, b) = h
  BY HeaderIs, SeriesOfTake DEF HeaderTypes
<1>2. h = Fail \/ \E x \in Byte \X Byte \X U64 \X U64, c \in Bytes : h = Got(x, c)
  <2>1. IsFormat(Series(HeaderTypes), PutSeries(HeaderTypes), ReadSeries(HeaderTypes))
    BY HeaderIs, SeriesFormat
  <2>2. Series(HeaderTypes) = Byte \X Byte \X U64 \X U64
    BY HeaderIs
  <2>. QED  BY <2>1, <2>2, FormatReads
<1>. HIDE DEF h
<1>3. h.ok => h.value \in Byte \X Byte \X U64 \X U64 /\ h.rest \in Bytes
  BY <1>2, GotIsNotFail
<1>4. Decode(b) =
        IF h.ok
        THEN IF h.value[1] # Version \/ h.value[2] \notin Kind \/ h.value[3] = 0 THEN Fail
             ELSE Then(InOrder(TakeField, Layout[kind], h.rest), LAMBDA fields, rest :
                    Finished(WithHeader(h.value, fields), rest))
        ELSE Fail
  BY <1>1, Zenon DEF Decode, Then, WithHeader
<1>5. CASE h.ok /\ h.value \in Header
  <2>1. kind \in Kind /\ h.rest \in Bytes
    BY <1>3, <1>5 DEF Header
  <2>2. InOrder(TakeField, Layout[kind], h.rest) = f
    BY <2>1, PayloadFormat
  <2>3. HeaderRead[b] = h
    BY <1>5 DEF HeaderRead, h
  <2>4. MessageRead[b] = PayloadRead[h.value][h.rest]
    BY <1>5, <2>3 DEF MessageRead
  <2>5. MessageRead[b] = IF f.ok THEN Got(WithHeader(h.value, f.value), f.rest) ELSE Fail
    BY <1>5, <2>1, <2>4 DEF PayloadRead
  <2>6. ~(h.value[1] # Version \/ h.value[2] \notin Kind \/ h.value[3] = 0)
    BY <1>5 DEF Header
  <2>. HIDE DEF f, kind
  <2>7. Decode(b) = IF f.ok THEN Finished(WithHeader(h.value, f.value), f.rest) ELSE Fail
    BY <1>4, <1>5, <2>2, <2>6 DEF Then
  <2>. QED  BY <2>5, <2>7, GotIsNotFail DEF Finished
<1>6. CASE ~(h.ok /\ h.value \in Header)
  <2>1. HeaderRead[b] = Fail
    BY <1>6 DEF HeaderRead, h
  <2>2. MessageRead[b] = Fail
    BY <2>1, GotIsNotFail DEF MessageRead
  <2>3. h.ok => h.value[1] # Version \/ h.value[2] \notin Kind \/ h.value[3] = 0
    BY <1>3, <1>6 DEF Header
  <2>4. Decode(b) = Fail
    BY <1>4, <2>3
  <2>. QED  BY <2>2, <2>4, GotIsNotFail
<1>. QED  BY <1>5, <1>6

LEMMA DecodeBatchIs ==
  ASSUME NEW b \in Bytes
  PROVE  DecodeBatch(b) = IF BatchRead[b].ok /\ BatchRead[b].rest = <<>> THEN BatchRead[b] ELSE Fail
<1> DEFINE r == ReadOf("u8")[b]
           l == TakeList("command", r.rest)
<1>1. r = Take("u8", b)
  BY ReadPrimitive DEF Primitives
<1>2. r = Fail \/ \E n \in Byte, c \in Bytes : r = Got(n, c)
  BY U8Format, FormatReads DEF HasFormat, ValuesOf
<1>3. BatchRead[b] = IF r.ok THEN BatchTail[r.value][r.rest] ELSE Fail
  BY DEF BatchRead
<1>. HIDE DEF r
<1>4. r.ok => r.value \in Byte /\ r.rest \in Bytes
  BY <1>2, GotIsNotFail
<1>5. r.ok => BatchTail[r.value][r.rest] = IF r.value = 0 THEN l ELSE Fail
  BY <1>4 DEF BatchTail, ReadListOf
<1>6. DecodeBatch(b) =
        IF r.ok THEN IF r.value # 0 THEN Fail
                     ELSE IF l.ok THEN Finished(l.value, l.rest) ELSE Fail
                ELSE Fail
  BY <1>1 DEF DecodeBatch, Then
<1>7. r.ok => l = Fail \/ \E s \in List(Command), c \in Bytes : l = Got(s, c)
  <2>1. IsFormat(List(Command), PutListOf("command"), ReadListOf("command"))
    BY CommandFormat, ListFormat DEF ValuesOf
  <2>2. \A d \in Bytes : ReadListOf("command")[d] = TakeList("command", d)
    BY DEF ReadListOf
  <2>3. \A d \in Bytes : \/ TakeList("command", d) = Fail
                         \/ \E s \in List(Command), c \in Bytes : TakeList("command", d) = Got(s, c)
    BY <2>1, <2>2, FormatReads
  <2>. QED  BY <1>4, <2>3
<1>. HIDE DEF l
<1>. QED  BY <1>3, <1>5, <1>6, <1>7, GotIsNotFail DEF Finished

\* Message::decode inverts Message::encode: what is encoded decodes to itself, bytes
\* after it are refused, and so is all else.
THEOREM DecodeInvertsEncode ==
  IsDecoder(AllMessages, [m \in AllMessages |-> Encode(m)], [b \in Bytes |-> Decode(b)])
<1> DEFINE decode == [b \in Bytes |-> Decode(b)]
<1>1. \A b \in Bytes : decode[b] = Decode(b)
  OBVIOUS
<1>. HIDE DEF decode
<1>2. Finishes(decode, MessageRead)
  BY <1>1, DecodeIs DEF Finishes
<1>3. IsDecoder(AllMessages, PutMessage, decode)
  BY <1>2, MessageFormat, FinishedFormat
<1>. QED  BY <1>3 DEF decode, PutMessage

\* The same for encode_batch and decode_batch: equal batches have equal bytes, and
\* bytes are the encoding of at most one batch.
THEOREM DecodeInvertsEncodeBatch ==
  IsDecoder(List(Command), [s \in List(Command) |-> EncodeBatch(s)],
            [b \in Bytes |-> DecodeBatch(b)])
<1> DEFINE decode == [b \in Bytes |-> DecodeBatch(b)]
<1>1. \A b \in Bytes : decode[b] = DecodeBatch(b)
  OBVIOUS
<1>. HIDE DEF decode
<1>2. Finishes(decode, BatchRead)
  BY <1>1, DecodeBatchIs DEF Finishes
<1>3. IsDecoder(List(Command), PutBatch, decode)
  BY <1>2, BatchFormat, FinishedFormat
<1>. QED  BY <1>3 DEF decode, PutBatch

-----------------------------------------------------------------------------
(* The state: what is on its way is what was encoded, but for the damage.  *)

Encoded == IF codec = "message" THEN Encode(sent) ELSE EncodeBatch(sent)

\* One message or batch is under way, undamaged, without its end, with one byte
\* more, or with any bytes at all.
WireInvariant ==
  /\ codec \in {"message", "batch"} /\ damage \in {"none", "cut", "extended", "changed"}
  /\ IF codec = "message" THEN IsMessage(sent) ELSE IsBatch(sent)
  /\ wire \in Seq(Byte)
  /\ damage = "none" => wire = Encoded
  /\ damage = "cut" => \E n \in 0..(Len(Encoded) - 1) : wire = SubSeq(Encoded, 1, n)
  /\ damage = "extended" => \E d \in Byte : wire = Append(Encoded, d)

\* The two codecs, as one: what can be sent, its bytes, and what bytes decode to.
Meant == IF codec = "message" THEN AllMessages ELSE List(Command)
PutMeant ==
  [x \in Meant |-> IF codec = "message" THEN Encode(x) ELSE EncodeBatch(x)]
DecodeMeant ==
  [b \in Bytes |-> IF codec = "message" THEN Decode(b) ELSE DecodeBatch(b)]

LEMMA CodecDecodes ==
  ASSUME codec \in {"message", "batch"}
  PROVE  IsDecoder(Meant, PutMeant, DecodeMeant)
<1>1. CASE codec = "message"
  <2>1. /\ Meant = AllMessages /\ PutMeant = [m \in AllMessages |-> Encode(m)]
        /\ DecodeMeant = [b \in Bytes |-> Decode(b)]
    BY <1>1 DEF Meant, PutMeant, DecodeMeant
  <2>. QED  BY <2>1, DecodeInvertsEncode
<1>2. CASE codec = "batch"
  <2>1. /\ Meant = List(Command) /\ PutMeant = [s \in List(Command) |-> EncodeBatch(s)]
        /\ DecodeMeant = [b \in Bytes |-> DecodeBatch(b)]
    BY <1>2 DEF Meant, PutMeant, DecodeMeant
  <2>. QED  BY <2>1, DecodeInvertsEncodeBatch
<1>. QED  BY <1>1, <1>2

\* What was sent, its bytes and what arrived are those of the codec.
LEMMA SentIsMeant ==
  ASSUME codec \in {"message", "batch"},
         IF codec = "message" THEN IsMessage(sent) ELSE IsBatch(sent)
  PROVE  sent \in Meant /\ Encoded = PutMeant[sent] /\ Encoded \in Seq(Byte)
<1>1. sent \in Meant
  BY AllMessagesAre DEF Meant, IsBatch
<1>2. Encoded = PutMeant[sent]
  BY <1>1 DEF Encoded, PutMeant
<1>3. PutMeant[sent] \in Bytes
  BY <1>1, CodecDecodes DEF IsDecoder
<1>. QED  BY <1>1, <1>2, <1>3 DEF Bytes

LEMMA ArrivedIs ==
  ASSUME wire \in Seq(Byte)
  PROVE  Arrived = DecodeMeant[wire]
BY DEF Arrived, DecodeMeant, Bytes

LEMMA InitWireInvariant ==
  ASSUME Init
  PROVE  WireInvariant
<1>1. codec \in {"message", "batch"} /\ damage = "none" /\ wire = Encoded
  BY DEF Init, Encoded
<1>2. IF codec = "message" THEN IsMessage(sent) ELSE IsBatch(sent)
  BY MessagesAssumption DEF Init
<1>3. wire \in Seq(Byte)
  BY <1>1, <1>2, SentIsMeant
<1>. QED  BY <1>1, <1>2, <1>3 DEF WireInvariant

LEMMA NextWireInvariant ==
  ASSUME WireInvariant, [Next]_vars
  PROVE  WireInvariant'
<1>1. Encoded \in Seq(Byte) /\ codec \in {"message", "batch"}
  BY SentIsMeant DEF WireInvariant
<1>2. ASSUME Next PROVE damage = "none" /\ wire = Encoded /\ Encoded' = Encoded
                        /\ codec' = codec /\ sent' = sent
  BY <1>2 DEF Next, Cut, Extend, Change, Damage, WireInvariant, Encoded
<1>3. ASSUME Next
      PROVE  /\ codec' \in {"message", "batch"}
             /\ (IF codec = "message" THEN IsMessage(sent) ELSE IsBatch(sent))'
  BY <1>2, <1>3 DEF WireInvariant, IsMessage, IsBatch
<1>4. CASE Cut
  <2>1. damage' = "cut" /\ Next
    BY <1>4 DEF Cut, Damage, Next
  <2>2. PICK n \in 0..(Len(Encoded) - 1) : wire' = SubSeq(Encoded, 1, n)
    BY <1>2, <1>4, <2>1 DEF Cut
  <2>3. wire' \in Seq(Byte)
    BY <1>1, <2>2
  <2>. QED  BY <1>2, <1>3, <2>1, <2>2, <2>3 DEF WireInvariant
<1>5. CASE Extend
  <2>1. damage' = "extended" /\ Next
    BY <1>5 DEF Extend, Damage, Next
  <2>2. PICK d \in Byte : wire' = Append(Encoded, d)
    BY <1>2, <1>5, <2>1 DEF Extend
  <2>3. wire' \in Seq(Byte)
    BY <1>1, <2>2
  <2>. QED  BY <1>2, <1>3, <2>1, <2>2, <2>3 DEF WireInvariant
<1>6. CASE Change
  <2>1. damage' = "changed" /\ Next
    BY <1>6 DEF Change, Damage, Next
  <2>2. wire' \in Seq(Byte)
    BY <1>1, <1>2, <1>6, <2>1 DEF Change
  <2>. QED  BY <1>3, <2>1, <2>2 DEF WireInvariant
<1>7. CASE UNCHANGED vars
  BY <1>7 DEF vars, WireInvariant, Encoded, IsMessage, IsBatch
<1>. QED  BY <1>4, <1>5, <1>6, <1>7 DEF Next

\* Reachable states satisfy the inductive invariant.
THEOREM WireInvariantHolds == Spec => []WireInvariant
<1>1. Init => WireInvariant
  BY InitWireInvariant
<1>2. WireInvariant /\ [Next]_vars => WireInvariant'
  BY NextWireInvariant
<1>. QED  BY <1>1, <1>2, PTL DEF Spec

\* The variables keep their types; and whatever was done to the bytes, what decodes
\* is a message or a batch, with a sender and without a nil proposal.
THEOREM TypeOKHolds == Spec => []TypeOK
<1>1. ASSUME WireInvariant PROVE TypeOK
  <2>1. codec \in {"message", "batch"} /\ wire \in Bytes /\ Arrived = DecodeMeant[wire]
    BY <1>1, ArrivedIs DEF WireInvariant, Bytes
  <2>2. ASSUME Arrived.ok
        PROVE  IF codec = "message" THEN IsMessage(Arrived.value) ELSE IsBatch(Arrived.value)
    <3>1. PICK x \in Meant : DecodeMeant[wire] = Got(x, <<>>)
      BY <2>1, <2>2, CodecDecodes DEF IsDecoder
    <3>2. Arrived.value = x
      BY <2>1, <3>1, GotIsNotFail
    <3>3. IF codec = "message" THEN IsMessage(x) ELSE IsBatch(x)
      BY AllMessagesAre DEF Meant, IsBatch
    <3>. QED  BY <3>2, <3>3
  <2>. QED  BY <1>1, <2>2 DEF TypeOK, WireInvariant
<1>. QED  BY <1>1, WireInvariantHolds, PTL

\* What is encoded decodes to itself, for every message and every batch.
THEOREM RoundTripHolds == Spec => []RoundTrip
<1>1. ASSUME WireInvariant PROVE RoundTrip
  <2>. SUFFICES ASSUME damage = "none" PROVE Arrived = Got(sent, <<>>)
    BY DEF RoundTrip
  <2>1. sent \in Meant /\ wire = PutMeant[sent] /\ codec \in {"message", "batch"}
    BY <1>1, SentIsMeant DEF WireInvariant
  <2>2. Arrived = DecodeMeant[wire]
    BY <1>1, ArrivedIs DEF WireInvariant
  <2>. QED  BY <2>1, <2>2, CodecDecodes DEF IsDecoder
<1>. QED  BY <1>1, WireInvariantHolds, PTL

\* A message or batch that lost its end, or to which a byte was added, is refused.
THEOREM PrefixFreeHolds == Spec => []PrefixFree
<1>1. ASSUME WireInvariant PROVE PrefixFree
  <2>1. /\ sent \in Meant /\ Encoded = PutMeant[sent] /\ Encoded \in Bytes
        /\ codec \in {"message", "batch"}
    BY <1>1, SentIsMeant DEF WireInvariant, Bytes
  <2>2. wire \in Bytes /\ Arrived = DecodeMeant[wire]
    BY <1>1, ArrivedIs DEF WireInvariant, Bytes
  <2>3. CASE damage = "cut"
    <3>1. PICK n \in 0..(Len(Encoded) - 1) : wire = SubSeq(Encoded, 1, n)
      BY <1>1, <2>3 DEF WireInvariant
    <3> DEFINE c == SubSeq(Encoded, n + 1, Len(Encoded))
    <3>2. c \in Bytes /\ c # <<>> /\ Encoded = wire \o c
      <4>1. n \in 0..Len(Encoded) /\ Len(Encoded) - n > 0
        BY <2>1, <3>1, LenProperties DEF Bytes
      <4>2. c \in Bytes /\ Len(c) > 0 /\ wire \o c = Encoded
        BY <2>1, <3>1, <4>1, BytesSplit
      <4>3. Len(<<>>) = 0
        OBVIOUS
      <4>4. c # <<>>
        <5>1. SUFFICES ASSUME c = <<>> PROVE FALSE
          OBVIOUS
        <5>2. Len(c) = 0
          BY <4>3, <5>1, Zenon
        <5>. QED  BY <4>2, <5>2
      <4>. QED  BY <4>2, <4>4
    <3>. HIDE DEF c
    <3>3. ASSUME Arrived.ok PROVE FALSE
      <4>1. PICK x \in Meant : wire = PutMeant[x]
        BY <2>1, <2>2, <3>3, CodecDecodes DEF IsDecoder
      <4>2. ~DecodeMeant[Encoded].ok
        BY <2>1, <3>2, <4>1, CodecDecodes DEF IsDecoder
      <4>3. DecodeMeant[Encoded] = Got(sent, <<>>)
        BY <2>1, CodecDecodes DEF IsDecoder
      <4>. QED  BY <4>2, <4>3, GotIsNotFail
    <3>. QED  BY <3>3 DEF PrefixFree
  <2>4. CASE damage = "extended"
    <3>1. PICK d \in Byte : wire = Append(Encoded, d)
      BY <1>1, <2>4 DEF WireInvariant
    <3>2. wire = Encoded \o <<d>> /\ <<d>> \in Bytes /\ <<d>> # <<>>
      BY <2>1, <3>1, AppendProperties DEF Bytes
    <3>3. ~DecodeMeant[wire].ok
      BY <2>1, <3>2, CodecDecodes DEF IsDecoder
    <3>. QED  BY <2>2, <3>3 DEF PrefixFree
  <2>. QED  BY <2>3, <2>4 DEF PrefixFree
<1>. QED  BY <1>1, WireInvariantHolds, PTL

\* Bytes that decode are the encoding of what they decode to, whatever their origin.
THEOREM CanonicalHolds == Spec => []Canonical
<1>1. ASSUME WireInvariant PROVE Canonical
  <2>. SUFFICES ASSUME Arrived.ok
       PROVE  wire = IF codec = "message" THEN Encode(Arrived.value)
                                          ELSE EncodeBatch(Arrived.value)
    BY DEF Canonical
  <2>1. codec \in {"message", "batch"} /\ wire \in Bytes /\ Arrived = DecodeMeant[wire]
    BY <1>1, ArrivedIs DEF WireInvariant, Bytes
  <2>2. PICK x \in Meant : wire = PutMeant[x] /\ DecodeMeant[wire] = Got(x, <<>>)
    BY <2>1, CodecDecodes DEF IsDecoder
  <2>3. Arrived.value = x
    BY <2>1, <2>2, GotIsNotFail
  <2>. QED  BY <2>2, <2>3 DEF PutMeant
<1>. QED  BY <1>1, WireInvariantHolds, PTL
=============================================================================
