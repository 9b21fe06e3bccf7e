----------------------------- MODULE SizingProofs -----------------------------
(***************************************************************************)
(* Theorems about Sizing, for every file, machine, plan, catalogue, list   *)
(* of read steps and drift of the server.                                  *)
(***************************************************************************)
EXTENDS Sizing, FiniteSetTheorems, FunctionTheorems, WellFoundedInduction, TLAPS

(***************************************************************************)
(* Arithmetic.                                                             *)
(***************************************************************************)

\* Division leaves less than the divisor.
LEMMA DivBounds ==
    ASSUME NEW a \in Nat, NEW b \in Nat \ {0}
    PROVE  /\ a \div b \in Nat
           /\ (a \div b) * b <= a
           /\ a < (a \div b) * b + b
OBVIOUS

\* Rounding up: enough, and by less than one too many.
LEMMA CeilDivBounds ==
    ASSUME NEW a \in Nat, NEW b \in Nat \ {0}
    PROVE  /\ CeilDiv(a, b) \in Nat
           /\ a <= CeilDiv(a, b) * b
           /\ CeilDiv(a, b) * b < a + b
<1>1. a + b - 1 \in Nat
  OBVIOUS
<1>2. CeilDiv(a, b) \in Nat /\ CeilDiv(a, b) * b <= a + b - 1 /\ a + b - 1 < CeilDiv(a, b) * b + b
  BY <1>1, DivBounds DEF CeilDiv
<1> DEFINE p == CeilDiv(a, b) * b
<1>3. p \in Nat
  BY <1>2
<1>4. a <= p /\ p < a + b
  BY <1>2, <1>3
<1> QED
  BY <1>2, <1>4

(***************************************************************************)
(* The largest of finitely many heads exists, so a model has typed fields. *)
(***************************************************************************)

LEMMA LeastExists ==
    ASSUME NEW S \in SUBSET Nat, S # {}
    PROVE  \E n \in S : \A k \in S : n <= k
<1>1. PICK n \in S : \A k \in S : <<k, n>> \notin OpToRel(<, Nat)
  BY NatLessThanWellFounded, WFMin, Zenon
<1>2. \A k \in S : ~(k < n)
  <2> TAKE k \in S
  <2>1. <<k, n>> \in Nat \X Nat
    OBVIOUS
  <2> QED
    BY <1>1, <2>1, Zenon DEF OpToRel
<1> QED
  BY <1>2

\* Were there prefixes without a bound, the shortest could be bounded.
LEMMA HeadsBounded ==
    ASSUME NEW h \in Seq(Nat)
    PROVE  \E b \in Nat : \A i \in 1..Len(h) : h[i] <= b
<1> DEFINE Bounded(k) == \E b \in Nat : \A i \in 1..k : h[i] <= b
           Without == {k \in 0..Len(h) : ~Bounded(k)}
<1>0. Without \in SUBSET Nat
  OBVIOUS
<1>h. Len(h) \in Nat /\ \A i \in 1..Len(h) : h[i] \in Nat
  OBVIOUS
<1>1. ASSUME Without # {} PROVE FALSE
  <2>1. PICK k \in Without : \A j \in Without : k <= j
    <3> HIDE DEF Without
    <3> QED
      BY <1>0, <1>1, LeastExists
  <2>2. k \in 0..Len(h) /\ ~Bounded(k)
    BY <2>1
  <2>3. Bounded(0)
    <3>1. \A i \in 1..0 : h[i] <= 0
      OBVIOUS
    <3> QED
      BY <3>1
  <2>4. k # 0
    <3> HIDE DEF Bounded
    <3> QED
      BY <2>2, <2>3
  <2>5. Bounded(k - 1)
    <3> HIDE DEF Bounded
    <3>1. k - 1 \in 0..Len(h)
      BY <2>2, <2>4
    <3>2. k - 1 \notin Without
      <4> HIDE DEF Without
      <4> QED
        BY <2>1, <2>2
    <3> QED
      BY <3>1, <3>2
  <2>6. PICK b \in Nat : \A i \in 1..(k - 1) : h[i] <= b
    BY <2>5
  <2>7. k \in Nat /\ \A i \in 1..k : h[i] \in Nat
    BY <1>h, <2>2
  <2>8. Bounded(k)
    <3>0. k \in Nat \ {0} /\ h[k] \in Nat
      BY <2>4, <2>7
    <3> HIDE DEF Bounded, Without
    <3>1. PICK c \in Nat : b <= c /\ h[k] <= c
      BY <3>0, <2>6
    <3>2. ASSUME NEW i \in 1..k PROVE h[i] <= c
      <4>1. i = k \/ i \in 1..(k - 1)
        BY <3>0
      <4>2. CASE i = k
        BY <4>2, <3>1
      <4>3. CASE i \in 1..(k - 1)
        <5>1. h[i] \in Nat /\ h[i] <= b
          BY <4>3, <2>6, <2>7
        <5> QED
          BY <5>1, <3>1
      <4> QED
        BY <4>1, <4>2, <4>3
    <3> USE DEF Bounded
    <3> QED
      BY <3>1, <3>2
  <2> QED
    BY <2>2, <2>8
<1>2. Len(h) \in 0..Len(h)
  OBVIOUS
<1> QED
  BY <1>1, <1>2

\* The least bound of a set of naturals is one of them.
LEMMA GreatestExists ==
    ASSUME NEW S \in SUBSET Nat, S # {}, NEW b \in Nat, \A x \in S : x <= b
    PROVE  \E n \in S : \A x \in S : x <= n
<1> DEFINE Bounds == {c \in Nat : \A x \in S : x <= c}
<1>1. PICK n \in Bounds : \A c \in Bounds : n <= c
  <2>1. Bounds # {} /\ Bounds \in SUBSET Nat
    OBVIOUS
  <2> HIDE DEF Bounds
  <2> QED
    BY <2>1, LeastExists
<1>2. ASSUME n \notin S PROVE FALSE
  <2>1. PICK x \in S : x \in Nat
    OBVIOUS
  <2>2. n \in Nat /\ \A y \in S : y <= n
    BY <1>1
  <2>3. \A y \in S : y <= n - 1
    BY <1>2, <2>2
  <2>4. n - 1 \in Nat
    BY <2>1, <2>2, <2>3
  <2>5. n - 1 \in Bounds
    BY <2>3, <2>4
  <2> QED
    BY <1>1, <2>2, <2>5
<1> QED
  BY <1>1, <1>2

LEMMA LargestType ==
    ASSUME NEW f \in FileType, NEW layers \in SUBSET (1..Layers(f))
    PROVE  /\ Largest(f, layers) \in Nat
           /\ \A i \in layers : f.heads[i] <= Largest(f, layers)
<1> DEFINE H == {f.heads[i] : i \in layers}
<1>1. f.heads \in Seq(Nat)
  BY DEF FileType
<1>2. H \in SUBSET Nat
  BY <1>1 DEF Layers
<1>3. CASE layers = {}
  BY <1>3 DEF Largest
<1>4. CASE layers # {}
  <2>1. PICK b \in Nat : \A x \in H : x <= b
    BY <1>1, HeadsBounded DEF Layers
  <2>2. H # {} /\ \A i \in layers : f.heads[i] \in H
    BY <1>4
  <2>3. Largest(f, layers) = Max(H)
    BY <1>4 DEF Largest
  <2> HIDE DEF H
  <2>4. \E n \in H : \A x \in H : x <= n
    BY <1>2, <2>1, <2>2, GreatestExists
  <2>5. Max(H) \in H /\ \A y \in H : Max(H) >= y
    <3>1. \E n \in H : \A x \in H : n >= x
      BY <1>2, <2>4
    <3> QED
      BY <3>1 DEF Max
  <2> QED
    BY <1>2, <2>2, <2>3, <2>5
<1> QED
  BY <1>3, <1>4

LEMMA LayersTypes ==
    ASSUME NEW f \in FileType
    PROVE  /\ Layers(f) \in Nat \ {0}
           /\ FullAttention(f) \in 0..Layers(f)
           /\ SlidingLayers(f) \in Nat
           /\ KvHeads(f) \in Nat
<1>1. Layers(f) \in Nat \ {0}
  BY DEF Layers, FileType
<1>2. /\ GlobalLayers(f) \subseteq 1..Layers(f) /\ CachingLayers(f) \subseteq 1..Layers(f)
      /\ IsFiniteSet(1..Layers(f)) /\ Cardinality(1..Layers(f)) = Layers(f)
  BY <1>1, FS_Interval DEF GlobalLayers, CachingLayers
<1>3. Cardinality(GlobalLayers(f)) \in 0..Layers(f) /\ Cardinality(CachingLayers(f)) \in 0..Layers(f)
  BY <1>1, <1>2, FS_Subset, FS_CardinalityType
<1>4. \A s \in Nat \ {0} : Layers(f) \div s \in 0..Layers(f)
  <2> TAKE s \in Nat \ {0}
  <2> DEFINE q == Layers(f) \div s
  <2>1. q \in Nat /\ q * s <= Layers(f)
    BY <1>1, DivBounds
  <2>2. q <= q * s
    BY <2>1
  <2> QED
    BY <1>1, <2>1, <2>2
<1>5. f.stride \in Nat /\ f.known \in Nat
  BY DEF FileType
<1>6. FullAttention(f) \in 0..Layers(f)
  BY <1>1, <1>3, <1>4, <1>5 DEF FullAttention, AtLeastOne
<1>7. SlidingLayers(f) \in Nat
  BY <1>1, <1>6 DEF SlidingLayers
<1>8. KvHeads(f) \in Nat
  BY <1>2, LargestType DEF KvHeads
<1> QED
  BY <1>1, <1>6, <1>7, <1>8

LEMMA DivExact ==
    ASSUME NEW a \in Nat, NEW b \in Nat \ {0}, a % b = 0
    PROVE  a \div b \in Nat /\ a = (a \div b) * b
OBVIOUS

LEMMA UpToIsFinite ==
    ASSUME NEW n \in Nat
    PROVE  IsFiniteSet(1..n) /\ Cardinality(1..n) = n
<1>1. IsFiniteSet(1..n) /\ Cardinality(1..n) = IF 1 > n THEN 0 ELSE n - 1 + 1
  BY FS_Interval
<1> QED
  BY <1>1

\* There are no more multiples of n up to L than L div n.
LEMMA MultiplesUpTo ==
    ASSUME NEW L \in Nat, NEW n \in Nat \ {0}, NEW S \in SUBSET (1..L),
           \A i \in S : i % n = 0
    PROVE  Cardinality(S) <= L \div n
<1> DEFINE q == L \div n
           quotient == [i \in S |-> i \div n]
<1>1. q \in Nat /\ q * n <= L /\ L < q * n + n
  BY DivBounds
<1>2. ASSUME NEW i \in S PROVE i = (i \div n) * n /\ i \div n \in 1..q
  <2>1. i \in Nat /\ 1 <= i /\ i <= L /\ i % n = 0
    OBVIOUS
  <2>2. PICK k \in Nat : k = i \div n /\ i = k * n
    BY <2>1, DivExact
  <2>3. k # 0
    BY <2>1, <2>2
  <2>4. ASSUME q + 1 <= k PROVE FALSE
    <3>1. (q + 1) * n <= k * n
      BY <1>1, <2>4
    <3>2. (q + 1) * n = q * n + n
      BY <1>1
    <3>3. q * n \in Nat /\ k * n \in Nat
      BY <1>1
    <3> HIDE DEF q
    <3> QED
      BY <1>1, <2>1, <2>2, <3>1, <3>2, <3>3
  <2> HIDE DEF q
  <2>5. k \in 1..q
    BY <1>1, <2>3, <2>4
  <2> QED
    BY <2>2, <2>5
<1> HIDE DEF q
<1>3. quotient \in Injection(S, 1..q)
  <2>1. quotient \in [S -> 1..q]
    BY <1>2
  <2>2. ASSUME NEW i \in S, NEW j \in S, quotient[i] = quotient[j] PROVE i = j
    <3>1. i \div n = j \div n
      BY <2>2
    <3> QED
      BY <1>2, <3>1
  <2> HIDE DEF quotient
  <2> QED
    BY <2>1, <2>2, Fun_IsInj
<1>4. Cardinality(S) <= Cardinality(1..q)
  BY <1>1, <1>3, UpToIsFinite, FS_Injection
<1> QED
  BY <1>1, <1>4, UpToIsFinite DEF q

\* n_kv_heads is no less than the heads of any global layer, and full_attn_layers
\* no less than the number of those that keep a cache, whichever of its four
\* sources the number comes from.
LEMMA GrowingLayersCounted ==
    ASSUME NEW f \in FileType, Truthful(f)
    PROVE  LET growing == GlobalLayers(f) \cap CachingLayers(f)
           IN  /\ \A i \in growing : f.heads[i] <= KvHeads(f)
               /\ IsFiniteSet(growing)
               /\ Cardinality(growing) <= FullAttention(f)
<1> DEFINE growing == GlobalLayers(f) \cap CachingLayers(f)
           L == Layers(f)
<1>1. /\ L \in Nat \ {0} /\ f.stride \in Nat /\ f.known \in Nat
      /\ f.says \in {"list", "stride", "nothing"}
  BY LayersTypes DEF FileType
<1>2. /\ GlobalLayers(f) \in SUBSET (1..L) /\ CachingLayers(f) \in SUBSET (1..L)
      /\ IsFiniteSet(1..L) /\ Cardinality(1..L) = L
  BY <1>1, UpToIsFinite DEF GlobalLayers, CachingLayers
<1>3. /\ IsFiniteSet(growing) /\ Cardinality(growing) \in Nat
      /\ Cardinality(growing) <= Cardinality(GlobalLayers(f))
      /\ Cardinality(growing) <= Cardinality(CachingLayers(f))
      /\ Cardinality(GlobalLayers(f)) <= L
      /\ Cardinality(GlobalLayers(f)) \in Nat /\ Cardinality(CachingLayers(f)) \in Nat
  <2>1. IsFiniteSet(GlobalLayers(f)) /\ IsFiniteSet(CachingLayers(f)) /\ IsFiniteSet(growing)
    BY <1>2, FS_Subset
  <2>2. Cardinality(GlobalLayers(f)) <= L
    BY <1>2, FS_Subset
  <2> QED
    BY <2>1, <2>2, FS_Subset, FS_CardinalityType
<1>4. ASSUME NEW i \in growing PROVE f.heads[i] <= KvHeads(f)
  <2>1. growing # {} /\ growing \in SUBSET (1..L)
    BY <1>2
  <2>2. f.heads[i] <= Largest(f, growing) /\ f.heads[i] <= Largest(f, CachingLayers(f))
    BY <1>2, <2>1, LargestType
  <2> QED
    BY <2>1, <2>2 DEF KvHeads
<1>5. ASSUME NEW n \in Nat \ {0}, Alternates(f, n)
      PROVE  Cardinality(GlobalLayers(f)) <= L \div n
  <2>1. \A i \in GlobalLayers(f) : i % n = 0
    BY <1>2, <1>5 DEF Alternates, GlobalLayers
  <2> QED
    BY <1>1, <1>2, <2>1, MultiplesUpTo
<1>6. \A n \in Nat \ {0} : L \div n \in Nat
  BY <1>1, DivBounds
<1>7. Cardinality(growing) <= FullAttention(f)
  <2>1. CASE f.listed /\ CachingLayers(f) # 1..L
    BY <1>3, <2>1 DEF FullAttention
  <2>2. CASE ~(f.listed /\ CachingLayers(f) # 1..L) /\ f.says = "list"
    <3>1. FullAttention(f) = AtLeastOne(Cardinality(GlobalLayers(f)))
      BY <2>2 DEF FullAttention
    <3> QED
      BY <1>3, <3>1 DEF AtLeastOne
  <2>3. CASE ~(f.listed /\ CachingLayers(f) # 1..L) /\ f.says = "stride" /\ f.stride > 1
    <3>1. FullAttention(f) = AtLeastOne(L \div f.stride)
      BY <2>3 DEF FullAttention
    <3>2. Cardinality(GlobalLayers(f)) <= L \div f.stride /\ L \div f.stride \in Nat
      BY <1>1, <1>5, <1>6, <2>3 DEF Truthful
    <3> QED
      BY <1>3, <3>1, <3>2 DEF AtLeastOne
  <2>4. CASE /\ ~(f.listed /\ CachingLayers(f) # 1..L) /\ f.says # "list"
             /\ ~(f.says = "stride" /\ f.stride > 1) /\ Windowed(f) /\ f.known > 1
    <3>1. FullAttention(f) = AtLeastOne(L \div f.known)
      BY <2>4 DEF FullAttention
    <3>2. f.says = "nothing"
      <4>1. ASSUME f.says = "stride" PROVE FALSE
        <5>1. f.stride = 1 /\ Alternates(f, 1)
          BY <1>1, <2>4, <4>1 DEF Truthful
        <5>2. PICK i \in 1..L : f.sliding[i]
          BY <2>4 DEF Windowed
        <5>3. i % 1 = 0
          BY <1>1
        <5> QED
          BY <5>1, <5>2, <5>3 DEF Alternates
      <4> QED
        BY <1>1, <2>4, <4>1
    <3>3. Cardinality(GlobalLayers(f)) <= L \div f.known /\ L \div f.known \in Nat
      BY <1>1, <1>5, <1>6, <2>4, <3>2 DEF Truthful
    <3> QED
      BY <1>3, <3>1, <3>3 DEF AtLeastOne
  <2>5. CASE /\ ~(f.listed /\ CachingLayers(f) # 1..L) /\ f.says # "list"
             /\ ~(f.says = "stride" /\ f.stride > 1) /\ ~(Windowed(f) /\ f.known > 1)
    <3>1. FullAttention(f) = L
      BY <2>5 DEF FullAttention
    <3> QED
      BY <1>1, <1>3, <3>1
  <2> QED
    BY <2>1, <2>2, <2>3, <2>4, <2>5
<1> QED
  BY <1>3, <1>4, <1>7

\* So their product counts every head that grows with the context.
LEMMA GrowingHeadsCounted ==
    ASSUME NEW f \in FileType, Truthful(f)
    PROVE  Cardinality(GrowingHeads(f)) \in 0..(KvHeads(f) * FullAttention(f))
<1> DEFINE growing == GlobalLayers(f) \cap CachingLayers(f)
           pairs == growing \X (1..KvHeads(f))
<1>1. /\ \A i \in growing : f.heads[i] <= KvHeads(f)
      /\ IsFiniteSet(growing) /\ Cardinality(growing) <= FullAttention(f)
  BY GrowingLayersCounted
<1>2. KvHeads(f) \in Nat /\ FullAttention(f) \in Nat /\ Cardinality(growing) \in Nat
  BY <1>1, LayersTypes, FS_CardinalityType
<1>3. IsFiniteSet(1..KvHeads(f)) /\ Cardinality(1..KvHeads(f)) = KvHeads(f)
  BY <1>2, FS_Interval
<1>4. IsFiniteSet(pairs) /\ Cardinality(pairs) = Cardinality(growing) * KvHeads(f)
  BY <1>1, <1>3, FS_Product
<1>5. GrowingHeads(f) \subseteq pairs
  <2> SUFFICES ASSUME NEW p \in GrowingHeads(f) PROVE p \in pairs
    OBVIOUS
  <2>1. /\ p \in GlobalLayers(f) \X (1..Largest(f, 1..Layers(f))) /\ p[2] <= f.heads[p[1]]
    BY DEF GrowingHeads
  <2>2. /\ p = <<p[1], p[2]>> /\ p[1] \in GlobalLayers(f) /\ p[1] \in 1..Layers(f)
        /\ p[2] \in 1..Largest(f, 1..Layers(f))
    BY <2>1 DEF GlobalLayers
  <2>3. Largest(f, 1..Layers(f)) \in Nat /\ f.heads[p[1]] \in Nat
    <3>1. 1..Layers(f) \in SUBSET (1..Layers(f))
      OBVIOUS
    <3>2. f.heads \in Seq(Nat)
      BY DEF FileType
    <3> QED
      BY <2>2, <3>1, <3>2, LargestType DEF Layers
  <2>4. p[2] \in Nat /\ 1 <= p[2] /\ f.heads[p[1]] # 0
    BY <2>1, <2>2, <2>3
  <2>5. p[1] \in growing
    BY <2>2, <2>4 DEF CachingLayers
  <2>6. p[2] \in 1..KvHeads(f)
    BY <1>1, <1>2, <2>1, <2>3, <2>4, <2>5
  <2> HIDE DEF growing
  <2> QED
    BY <2>2, <2>5, <2>6
<1>6. Cardinality(GrowingHeads(f)) \in Nat /\ Cardinality(GrowingHeads(f)) <= Cardinality(pairs)
  BY <1>4, <1>5, FS_Subset, FS_CardinalityType
<1> HIDE DEF growing, pairs
<1>7. Cardinality(growing) * KvHeads(f) <= KvHeads(f) * FullAttention(f)
  <2>1. \A a, b, c \in Nat : a <= c => a * b <= b * c
    OBVIOUS
  <2> QED
    BY <1>1, <1>2, <2>1
<1>8. KvHeads(f) * FullAttention(f) \in Nat /\ Cardinality(growing) * KvHeads(f) \in Nat
  BY <1>2
<1> QED
  BY <1>4, <1>6, <1>7, <1>8

LEMMA ModelOfType ==
    ASSUME NEW f \in FileType, NEW measured \in BOOLEAN
    PROVE  ModelOf(f, measured) \in ModelType
<1>1. /\ f.weights \in Nat /\ f.dense \in Nat /\ f.dense <= f.weights /\ f.moe \in BOOLEAN
      /\ f.dim \in Nat /\ f.maxContext \in Nat
  BY DEF FileType
<1>2. Dense(f, measured) \in 0..f.weights
  BY <1>1 DEF Dense
<1>3. /\ Layers(f) \in Nat \ {0}
      /\ f.dim * KvHeads(f) * FullAttention(f) \in Nat
      /\ f.dim * KvHeads(f) * SlidingLayers(f) \in Nat
  BY <1>1, LayersTypes
<1> QED
  BY <1>1, <1>2, <1>3 DEF ModelOf, ModelType

(***************************************************************************)
(* The solver.                                                             *)
(***************************************************************************)

LEMMA UsableTypes ==
    ASSUME NEW h \in MachineType
    PROVE  UsableVram(h) \in Nat /\ UsableRam(h) \in Nat
<1>1. /\ h.vram \in Nat /\ h.ram \in Nat
      /\ h.freeVram \in Nat \union {Unmeasured} /\ h.freeRam \in Nat \union {Unmeasured}
  BY DEF MachineType
<1> QED
  BY <1>1, UnitsAssumption
  DEF UsableVram, UsableRam, Lesser, Positive, Unmeasured, RamSafety

LEMMA SumTypes ==
    ASSUME NEW h \in MachineType, NEW m \in ModelType, NEW p \in PlanType
    PROVE  /\ KvCache(m, p) \in Nat
           /\ PromptCache(p) \in Nat
           /\ Room(h, m, p) \in Int
           /\ Spilled(h, m, p) \in Nat
           /\ Headroom(h, m, p) \in Int
           /\ ~Refuse(h, m, p) => Spilled(h, m, p) <= m.weights
<1>1. /\ m.weights \in Nat /\ m.growing \in Nat /\ m.fixed \in Nat
      /\ p.context \in Nat /\ p.slots \in Nat
  BY DEF ModelType, PlanType
<1>2. KvCache(m, p) \in Nat
  <2>1. m.growing * KvHead * p.context \in Nat /\ m.fixed * KvWindow \in Nat
    BY <1>1, UnitsAssumption
  <2>2. m.growing * KvHead * p.context + m.fixed * KvWindow \in Nat
    BY <2>1
  <2> QED
    BY <1>1, <2>2 DEF KvCache
<1>3. PromptCache(p) \in Nat
  BY UnitsAssumption DEF PromptCache
<1>4. Room(h, m, p) \in Int
  BY <1>2, UsableTypes, UnitsAssumption DEF Room
<1>5. Spilled(h, m, p) \in Nat /\ (Room(h, m, p) > 0 => Spilled(h, m, p) <= m.weights)
  BY <1>1, <1>4 DEF Spilled, Positive
<1>6. Headroom(h, m, p) \in Int
  BY <1>3, <1>5, UsableTypes, UnitsAssumption DEF Headroom, RamNeeded
<1> QED
  BY <1>2, <1>3, <1>4, <1>5, <1>6 DEF Refuse

\* Half of the order on machines and plans: a larger machine has more to give, and
\* a smaller plan asks for less.
LEMMA MoreToGive ==
    ASSUME NEW g \in MachineType, NEW h \in MachineType, AtLeast(h, g),
           NEW q \in PlanType, NEW p \in PlanType, p.context <= q.context, p.slots <= q.slots,
           NEW m \in ModelType
    PROVE  /\ UsableVram(g) <= UsableVram(h) /\ UsableRam(g) <= UsableRam(h)
           /\ KvCache(m, p) <= KvCache(m, q)
           /\ PromptCache(p) <= PromptCache(q)
<1>1. /\ g.vram \in Nat /\ g.ram \in Nat /\ h.vram \in Nat /\ h.ram \in Nat
      /\ g.freeVram \in Nat \union {Unmeasured} /\ g.freeRam \in Nat \union {Unmeasured}
      /\ h.freeVram \in Nat \union {Unmeasured} /\ h.freeRam \in Nat \union {Unmeasured}
      /\ p.context \in Nat /\ p.slots \in Nat \ {0} /\ q.context \in Nat /\ q.slots \in Nat \ {0}
      /\ m.growing \in Nat /\ m.fixed \in Nat
  BY DEF MachineType, PlanType, ModelType
<1>2. UsableVram(g) <= UsableVram(h)
  BY <1>1, UnitsAssumption DEF AtLeast, UsableVram, Lesser, Positive, Unmeasured
<1>3. UsableRam(g) <= UsableRam(h)
  BY <1>1, UnitsAssumption DEF AtLeast, UsableRam, Lesser, Positive, Unmeasured, RamSafety
<1>4. KvCache(m, p) <= KvCache(m, q)
  <2> DEFINE a == m.growing * KvHead
             b == m.fixed * KvWindow
  <2>1. a \in Nat /\ b \in Nat
    BY <1>1, UnitsAssumption
  <2>2. KvCache(m, p) = (a * p.context + b) * p.slots /\ KvCache(m, q) = (a * q.context + b) * q.slots
    BY DEF KvCache
  <2> HIDE DEF a, b
  <2>3. \A x, y, k \in Nat : x <= y => k * x <= k * y /\ x * k <= y * k
    OBVIOUS
  <2>4. PICK c \in Nat, d \in Nat : c = a * p.context + b /\ d = a * q.context + b
    BY <1>1, <2>1
  <2>5. c <= d
    <3>1. a * p.context <= a * q.context
      BY <1>1, <2>1, <2>3
    <3>2. a * p.context \in Nat /\ a * q.context \in Nat
      BY <1>1, <2>1
    <3> QED
      BY <2>1, <2>4, <3>1, <3>2
  <2>6. c * p.slots <= d * p.slots /\ d * p.slots <= d * q.slots
    BY <1>1, <2>3, <2>5
  <2>7. c * p.slots \in Nat /\ d * p.slots \in Nat /\ d * q.slots \in Nat
    BY <1>1
  <2> QED
    BY <2>2, <2>4, <2>6, <2>7
<1>5. PromptCache(p) <= PromptCache(q)
  BY <1>1, UnitsAssumption DEF PromptCache
<1> QED
  BY <1>2, <1>3, <1>4, <1>5

\* So a verdict is no worse.
LEMMA VerdictNoWorse ==
    ASSUME NEW g \in MachineType, NEW h \in MachineType, AtLeast(h, g),
           NEW q \in PlanType, NEW p \in PlanType, p.context <= q.context, p.slots <= q.slots,
           NEW m \in ModelType
    PROVE  /\ Runs(Solve(g, m, q)) => Runs(Solve(h, m, p))
           /\ Solve(g, m, q).status = "FITS" => Solve(h, m, p).status = "FITS"
<1>1. /\ UsableVram(g) <= UsableVram(h) /\ UsableRam(g) <= UsableRam(h)
      /\ KvCache(m, p) <= KvCache(m, q) /\ PromptCache(p) <= PromptCache(q)
  BY MoreToGive
<1>2. /\ UsableVram(g) \in Nat /\ UsableVram(h) \in Nat
      /\ UsableRam(g) \in Nat /\ UsableRam(h) \in Nat
      /\ KvCache(m, p) \in Nat /\ KvCache(m, q) \in Nat
      /\ PromptCache(p) \in Nat /\ PromptCache(q) \in Nat
      /\ ComputeBuffer \in Nat /\ Overhead \in Nat /\ TightMargin \in Nat
      /\ m.weights \in Nat /\ m.maxContext \in Nat /\ p.context \in Nat /\ q.context \in Nat
  BY UsableTypes, SumTypes, UnitsAssumption DEF TightMargin, ModelType, PlanType
<1>3. /\ Room(g, m, q) <= Room(h, m, p) /\ Room(g, m, q) \in Int /\ Room(h, m, p) \in Int
  BY <1>1, <1>2 DEF Room
<1>4. /\ Spilled(h, m, p) <= Spilled(g, m, q)
      /\ Spilled(g, m, q) \in Nat /\ Spilled(h, m, p) \in Nat
  BY <1>2, <1>3 DEF Spilled, Positive
<1>5. /\ Headroom(g, m, q) <= Headroom(h, m, p)
      /\ Headroom(g, m, q) \in Int /\ Headroom(h, m, p) \in Int
  BY <1>1, <1>2, <1>4 DEF Headroom, RamNeeded
<1>6. Refuse(h, m, p) => Refuse(g, m, q)
  BY <1>2, <1>3, <1>5 DEF Refuse
<1>7. /\ Solve(g, m, q).status = Status(g, m, q) /\ Solve(h, m, p).status = Status(h, m, p)
  BY DEF Solve
<1> QED
  BY <1>2, <1>5, <1>6, <1>7 DEF Runs, Status

\* Enough layers of E / L each to hold s, but no more than there are.
LEMMA LeastLayers ==
    ASSUME NEW s \in Nat, NEW E \in Nat \ {0}, NEW L \in Nat,
           NEW c \in Nat, c = CeilDiv(s * L, E)
    PROVE  /\ Lesser(L, c) \in 0..L
           /\ Lesser(L, c) * E <= s * L + E
           /\ s <= E => s * L <= Lesser(L, c) * E
<1>1. s * L \in Nat
  OBVIOUS
<1>2. s * L <= c * E /\ c * E < s * L + E
  BY <1>1, CeilDivBounds
<1>3. c * E \in Nat /\ L * E \in Nat
  OBVIOUS
<1>4. CASE c <= L
  <2>1. Lesser(L, c) = c
    BY <1>4 DEF Lesser
  <2>2. c * E <= s * L + E
    BY <1>1, <1>2, <1>3
  <2> QED
    BY <1>2, <1>4, <2>1, <2>2
<1>5. CASE L < c
  <2>1. Lesser(L, c) = L
    BY <1>5 DEF Lesser
  <2>2. L * E <= c * E
    BY <1>5
  <2>3. L * E <= s * L + E
    BY <1>1, <1>2, <1>3, <2>2
  <2>4. s <= E => s * L <= L * E
    OBVIOUS
  <2> QED
    BY <2>1, <2>3, <2>4
<1> QED
  BY <1>4, <1>5

\* As many layers of w / L each as remain within w - s; the others hold s.
LEMMA MostLayers ==
    ASSUME NEW w \in Nat \ {0}, NEW s \in 0..w, NEW L \in Nat,
           NEW n \in Nat, n = ((w - s) * L) \div w
    PROVE  /\ n \in 0..L
           /\ (L - n) * w <= s * L + w
           /\ s * L <= (L - n) * w
<1>1. (w - s) * L \in Nat
  OBVIOUS
<1>2. n * w <= (w - s) * L /\ (w - s) * L < n * w + w
  BY <1>1, DivBounds
<1>3. (w - s) * L = w * L - s * L /\ s * L \in Nat /\ w * L \in Nat /\ n * w \in Nat
  OBVIOUS
<1>4. n <= L
  <2>1. ASSUME n >= L + 1 PROVE FALSE
    <3>1. (L + 1) * w <= n * w
      BY <2>1
    <3>2. (L + 1) * w = w * L + w
      OBVIOUS
    <3> QED
      BY <1>2, <1>3, <3>1, <3>2
  <2> QED
    BY <2>1
<1>5. (L - n) * w = w * L - n * w
  OBVIOUS
<1> QED
  BY <1>2, <1>3, <1>4, <1>5

\* -ncmoe moves at least what must be moved, if the experts hold that much, and
\* less than one layer too much.
LEMMA MoeSplit ==
    ASSUME NEW m \in ModelType, m.moe, NEW s \in Nat
    PROVE  /\ CpuMoe(m, s) \in 0..m.layers
           /\ CpuMoe(m, s) * (m.weights - m.dense) <= s * m.layers + (m.weights - m.dense)
           /\ s <= m.weights - m.dense =>
                 s * m.layers <= CpuMoe(m, s) * (m.weights - m.dense)
<1>1. m.weights - m.dense \in Nat /\ m.layers \in Nat /\ m.weights \in Nat /\ m.dense \in Nat
  BY DEF ModelType
<1>2. PICK E \in Nat, L \in Nat : E = m.weights - m.dense /\ L = m.layers
  BY <1>1
<1>3. CASE s = 0 \/ E = 0
  <2>1. CpuMoe(m, s) = 0
    BY <1>1, <1>2, <1>3 DEF CpuMoe
  <2>2. s * L \in Nat /\ 0 * E = 0 /\ (s <= E => s * L = 0)
    BY <1>3
  <2> QED
    BY <1>2, <2>1, <2>2
<1>4. CASE s > 0 /\ E > 0
  <2>1. CeilDiv(s * L, E) \in Nat
    <3>1. s * L \in Nat
      OBVIOUS
    <3> QED
      BY <1>4, <3>1, CeilDivBounds
  <2>2. CpuMoe(m, s) = Lesser(L, CeilDiv(s * L, E))
    BY <1>1, <1>2, <1>4 DEF CpuMoe
  <2>3. /\ Lesser(L, CeilDiv(s * L, E)) \in 0..L
        /\ Lesser(L, CeilDiv(s * L, E)) * E <= s * L + E
        /\ s <= E => s * L <= Lesser(L, CeilDiv(s * L, E)) * E
    <3>1. PICK c \in Nat : c = CeilDiv(s * L, E)
      BY <2>1
    <3>2. E \in Nat \ {0}
      BY <1>4
    <3>3. Lesser(L, c) \in 0..L /\ Lesser(L, c) * E <= s * L + E
          /\ (s <= E => s * L <= Lesser(L, c) * E)
      BY <3>1, <3>2, LeastLayers
    <3> QED
      BY <3>1, <3>3
  <2> QED
    BY <1>2, <2>2, <2>3
<1> QED
  BY <1>3, <1>4

\* The same for the whole layers of a dense model.
LEMMA DenseSplit ==
    ASSUME NEW m \in ModelType, ~m.moe, NEW s \in 0..m.weights
    PROVE  /\ GpuLayers(m, s) \in 0..m.layers
           /\ (m.layers - GpuLayers(m, s)) * m.weights <= s * m.layers + m.weights
           /\ s * m.layers <= (m.layers - GpuLayers(m, s)) * m.weights
<1>1. m.layers \in Nat /\ m.weights \in Nat
  BY DEF ModelType
<1>2. PICK w \in Nat, L \in Nat : w = m.weights /\ L = m.layers
  BY <1>1
<1>3. CASE s = 0
  <2>1. GpuLayers(m, s) = L
    BY <1>2, <1>3 DEF GpuLayers
  <2>2. (L - L) * w = 0 /\ s * L = 0
    BY <1>3
  <2>3. L \in 0..L /\ (L - L) * w <= s * L + w /\ s * L <= (L - L) * w
    BY <2>2
  <2> QED
    BY <1>2, <2>1, <2>3
<1>4. CASE s > 0
  <2>1. w \in Nat \ {0} /\ s \in 0..w
    BY <1>2, <1>4
  <2>2. (w - s) * L \in Nat
    BY <2>1
  <2>3. ((w - s) * L) \div w \in Nat
    BY <2>1, <2>2, DivBounds
  <2>4. GpuLayers(m, s) = ((w - s) * L) \div w
    BY <1>1, <1>2, <1>4, <2>1 DEF GpuLayers
  <2>5. PICK n \in Nat : n = ((w - s) * L) \div w
    BY <2>3
  <2>6. n \in 0..L /\ (L - n) * w <= s * L + w /\ s * L <= (L - n) * w
    BY <2>1, <2>5, MostLayers
  <2> QED
    BY <1>2, <2>4, <2>5, <2>6
<1> QED
  BY <1>3, <1>4

\* What the flags move to RAM: what must be moved, and at most a layer more.
LEMMA RamShareBounds ==
    ASSUME NEW f \in FileType, NEW h \in MachineType, NEW p \in PlanType,
           NEW m \in ModelType, m.weights = f.weights, m.dense = f.dense,
           m.moe = f.moe, m.layers = Layers(f), ~Refuse(h, m, p)
    PROVE  LET v == Solve(h, m, p)
               layer == IF f.moe THEN Experts(f) ELSE f.weights
           IN  /\ RamShare(f, v) \in Nat
               /\ RamShare(f, v) <= v.spilled * Layers(f) + layer
               /\ (f.moe => f.dense <= Room(h, m, p)) =>
                     v.spilled * Layers(f) <= RamShare(f, v)
<1> DEFINE v == Solve(h, m, p)
           s == Spilled(h, m, p)
<1>0. m.weights \in Nat /\ m.dense \in Nat /\ m.layers \in Nat /\ m.dense <= m.weights
  BY DEF ModelType
<1>2. f.moe \in BOOLEAN
  BY DEF FileType
<1>3. s \in Nat /\ s <= m.weights /\ Room(h, m, p) \in Int
  BY SumTypes
<1>4. v.spilled = s /\ v.cpuMoe = CpuMoe(m, s) /\ v.gpuLayers = GpuLayers(m, s)
  BY DEF Solve
<1>5. CASE f.moe
  <2>1. RamShare(f, v) = CpuMoe(m, s) * (m.weights - m.dense)
    BY <1>4, <1>5 DEF RamShare, Experts
  <2>2. m.dense <= Room(h, m, p) => s <= m.weights - m.dense
    BY <1>0, <1>3 DEF Spilled, Positive
  <2>3. CpuMoe(m, s) \in Nat
        /\ CpuMoe(m, s) * (m.weights - m.dense) <= s * m.layers + (m.weights - m.dense)
        /\ (s <= m.weights - m.dense => s * m.layers <= CpuMoe(m, s) * (m.weights - m.dense))
    <3>1. m.moe
      BY <1>5
    <3>2. CpuMoe(m, s) \in 0..m.layers
      BY <1>3, <3>1, MoeSplit
    <3>3. CpuMoe(m, s) \in Nat
      BY <1>0, <3>2
    <3> QED
      BY <1>3, <3>1, <3>3, MoeSplit
  <2>4. CpuMoe(m, s) * (m.weights - m.dense) \in Nat
    <3>1. m.weights - m.dense \in Nat
      BY <1>0
    <3> HIDE DEF s
    <3> QED
      BY <2>3, <3>1
  <2>5. Experts(f) = m.weights - m.dense
    BY DEF Experts
  <2> HIDE DEF s
  <2> QED
    BY <1>0, <1>4, <1>5, <2>1, <2>2, <2>3, <2>4, <2>5
<1>6. CASE ~f.moe
  <2>1. RamShare(f, v) = (m.layers - GpuLayers(m, s)) * m.weights
    BY <1>4, <1>6 DEF RamShare
  <2>2. GpuLayers(m, s) \in 0..m.layers
        /\ (m.layers - GpuLayers(m, s)) * m.weights <= s * m.layers + m.weights
        /\ s * m.layers <= (m.layers - GpuLayers(m, s)) * m.weights
    <3>1. ~m.moe /\ s \in 0..m.weights
      BY <1>0, <1>3, <1>6
    <3> QED
      BY <3>1, DenseSplit
  <2>3. (m.layers - GpuLayers(m, s)) * m.weights \in Nat
    <3> HIDE DEF s
    <3>1. m.layers - GpuLayers(m, s) \in Nat
      BY <1>0, <2>2
    <3> QED
      BY <1>0, <3>1
  <2> HIDE DEF s
  <2> QED
    BY <1>4, <1>6, <2>1, <2>2, <2>3
<1> QED
  BY <1>2, <1>5, <1>6

\* What is planned for the card is what it has to give.
LEMMA PlannedWithinCard ==
    ASSUME NEW h \in MachineType, NEW m \in ModelType, NEW p \in PlanType,
           ~Refuse(h, m, p)
    PROVE  /\ VramUsed(Solve(h, m, p)) <= UsableVram(h)
           /\ m.weights - Spilled(h, m, p) <= Room(h, m, p)
<1>1. /\ m.weights \in Nat /\ KvCache(m, p) \in Nat /\ UsableVram(h) \in Nat
      /\ ComputeBuffer \in Nat /\ Room(h, m, p) \in Int
  BY SumTypes, UsableTypes, UnitsAssumption DEF ModelType
<1>2. m.weights - Spilled(h, m, p) <= Room(h, m, p)
  BY <1>1 DEF Spilled, Positive, Refuse
<1>3. Spilled(h, m, p) \in Nat
  BY SumTypes
<1> QED
  BY <1>1, <1>2, <1>3 DEF VramUsed, Solve, Room

\* A verdict that runs has a split within the model.
LEMMA SolveTypes ==
    ASSUME NEW h \in MachineType, NEW m \in ModelType, NEW p \in PlanType,
           Runs(Solve(h, m, p))
    PROVE  /\ ~Refuse(h, m, p)
           /\ Solve(h, m, p).model = m
           /\ Solve(h, m, p).spilled \in 0..m.weights
           /\ Solve(h, m, p).cpuMoe \in 0..m.layers
           /\ Solve(h, m, p).gpuLayers \in 0..m.layers
<1>1. ~Refuse(h, m, p)
  BY DEF Runs, Solve, Status
<1>2. Spilled(h, m, p) \in 0..m.weights
  BY <1>1, SumTypes DEF ModelType
<1>3. m.layers \in Nat \ {0} /\ m.moe \in BOOLEAN
  BY DEF ModelType
<1>4. CpuMoe(m, Spilled(h, m, p)) \in 0..m.layers
  <2>1. CASE m.moe
    BY <1>2, <2>1, MoeSplit
  <2>2. CASE ~m.moe
    BY <1>3, <2>2 DEF CpuMoe
  <2> QED
    BY <2>1, <2>2
<1>5. GpuLayers(m, Spilled(h, m, p)) \in 0..m.layers
  <2>1. CASE m.moe
    BY <1>3, <2>1 DEF GpuLayers
  <2>2. CASE ~m.moe
    BY <1>2, <2>2, DenseSplit
  <2> QED
    BY <2>1, <2>2
<1> QED
  BY <1>1, <1>2, <1>4, <1>5 DEF Solve

(***************************************************************************)
(* The inductive invariant.  The properties speak of single moments; it    *)
(* adds where the verdict of such a moment came from.                      *)
(***************************************************************************)

\* A model that was read comes from the file that was asked for.
ModelFromFile ==
    found = "model" => \E measured \in BOOLEAN : model = ModelOf(ask.file, measured)

\* The verdict the server is started with is for this file on this machine;
\* the one it is compared with is for some model, on the machine as it is seen.
VerdictFromSolve ==
    /\ pc = "start" => /\ cmd = "plan" /\ found = "model" /\ Runs(verdict)
                       /\ verdict = Solve(hw, model, ask.plan)
    /\ pc = "compare" => /\ Runs(verdict)
                         /\ \E m \in ModelType : verdict = Solve(hw, m, ask.plan)

ServerFields ==
    /\ cmd = "plan" => server = NoServer
    /\ server.gpu => server.vramWeights \in Nat /\ server.kv \in Nat /\ server.compute \in Nat

SizingInv ==
    /\ TypeOK
    /\ hw \in MachineType
    /\ ModelFromFile
    /\ VerdictFromSolve
    /\ ServerFields

LEMMA AskTypes ==
    ASSUME ask \in Asks
    PROVE  /\ ask.file \in FileType /\ ask.way \in {"local", "url"}
           /\ ask.hw \in MachineType /\ ask.plan \in PlanType
BY SizingAssumption

\* In every verdict of the catalogue is a model of the catalogue.
LEMMA VerdictsOnSolve ==
    ASSUME SizingInv, NEW v \in VerdictsOn(hw, ask.plan)
    PROVE  \E m \in ModelType : /\ v = Solve(hw, m, ask.plan)
                                /\ found = "model" => m = model
<1>1. ask.file \in FileType
  BY AskTypes DEF SizingInv, TypeOK
<1>2. CASE found = "model"
  <2>1. model \in ModelType
    BY <1>1, <1>2, ModelOfType DEF SizingInv, ModelFromFile
  <2> QED
    BY <1>2, <2>1 DEF VerdictsOn
<1>3. CASE found # "model"
  <2>1. PICK i \in 1..Len(Catalogue) : v = Solve(hw, Catalogue[i], ask.plan)
    BY <1>3 DEF VerdictsOn, Recommended
  <2>2. Catalogue[i] \in ModelType
    BY <2>1, SizingAssumption
  <2> QED
    BY <1>3, <2>1, <2>2
<1> QED
  BY <1>2, <1>3

LEMMA SizingInvInit == Init => SizingInv
<1> SUFFICES ASSUME Init PROVE SizingInv
  OBVIOUS
<1>1. ask \in Asks /\ hw \in MachineType
  BY AskTypes DEF Init
<1>2. step \in 1..Len(Steps)
  BY SizingAssumption DEF Init
<1>3. ~Runs(verdict) /\ ~server.up /\ ~server.gpu
  BY DEF Init, Runs, NoVerdict, NoServer
<1> QED
  BY <1>1, <1>2, <1>3
  DEF Init, SizingInv, TypeOK, ModelFromFile, VerdictFromSolve, ServerFields

\* A prefix that is parsed yields a model of the file, or none: of an incomplete
\* one, and of one whose size is not known.
LEMMA ParseKeeps ==
    ASSUME SizingInv, NEW prefix, NEW sized \in BOOLEAN, Parse(ask.file, prefix, sized)
    PROVE  /\ found' \in {"model", "unreadable"} /\ pc' = "solve"
           /\ found' = "model" =>
                 /\ \E measured \in BOOLEAN : model' = ModelOf(ask.file, measured)
                 /\ model'.dense \in 0..model'.weights /\ model'.growing \in Nat
           /\ found' = "unreadable" => ~ask.file.complete \/ ~sized
<1>1. ask.file \in FileType
  BY AskTypes DEF SizingInv, TypeOK
<1>2. CASE ask.file.complete /\ sized
  <2> DEFINE b == HoldsIndex(ask.file, prefix)
  <2>1. b \in BOOLEAN /\ found' = "model" /\ pc' = "solve" /\ model' = ModelOf(ask.file, b)
    BY <1>2 DEF Parse, Ends, HoldsIndex
  <2>2. ModelOf(ask.file, b) \in ModelType
    BY <1>1, <2>1, ModelOfType
  <2>3. model' \in ModelType
    BY <2>1, <2>2
  <2>4. model'.dense \in 0..model'.weights /\ model'.growing \in Nat
    BY <2>3 DEF ModelType
  <2> QED
    BY <2>1, <2>4
<1>3. CASE ~(ask.file.complete /\ sized)
  BY <1>3 DEF Parse, Ends
<1> QED
  BY <1>2, <1>3

\* What every way of ending the read has to show.
LEMMA ReadKeeps ==
    ASSUME SizingInv, pc = "read", pc' \in {"read", "solve"}, step' \in 1..Len(Steps),
           found' \in {"no", "model", "unreadable", "lost"},
           found' = "model" =>
              /\ \E measured \in BOOLEAN : model' = ModelOf(ask.file, measured)
              /\ model'.dense \in 0..model'.weights /\ model'.growing \in Nat,
           UNCHANGED <<ask, hw, cmd, verdict, server, report>>
    PROVE  SizingInv'
<1>1. TypeOK'
  BY DEF SizingInv, TypeOK, Runs
<1>2. ModelFromFile' /\ VerdictFromSolve' /\ ServerFields'
  BY DEF SizingInv, ModelFromFile, VerdictFromSolve, ServerFields
<1> QED
  BY <1>1, <1>2 DEF SizingInv

LEMMA ReadLocalKeeps == SizingInv /\ ReadLocal => SizingInv'
<1> SUFFICES ASSUME SizingInv, ReadLocal PROVE SizingInv'
  OBVIOUS
<1> DEFINE f == ask.file
           prefix == Lesser(LocalRead, f.length)
<1>1. /\ step' \in 1..Len(Steps) /\ pc = "read"
      /\ UNCHANGED <<ask, hw, cmd, verdict, server, report>>
  BY DEF SizingInv, TypeOK, ReadLocal
<1>2. CASE Parse(f, prefix, TRUE)
  BY <1>1, <1>2, ParseKeeps, ReadKeeps
<1>3. CASE Ends("unreadable", NoModel)
  BY <1>1, <1>3, ReadKeeps DEF Ends
<1> QED
  BY <1>2, <1>3 DEF ReadLocal

LEMMA ReadUrlKeeps ==
    SizingInv /\ (\E got \in Replies(ask.file), sized \in BOOLEAN : ReadUrl(got, sized))
       => SizingInv'
<1> SUFFICES ASSUME SizingInv, NEW got \in Replies(ask.file), NEW sized \in BOOLEAN,
                    ReadUrl(got, sized)
             PROVE  SizingInv'
  OBVIOUS
<1>1. /\ pc = "read" /\ step \in 1..Len(Steps) /\ Len(Steps) \in Nat
      /\ UNCHANGED <<ask, hw, cmd, verdict, server, report>>
  BY SizingAssumption DEF SizingInv, TypeOK, ReadUrl
<1>2. CASE Parse(ask.file, got, sized) /\ UNCHANGED step
  BY <1>1, <1>2, ParseKeeps, ReadKeeps
<1>3. CASE Ends("unreadable", NoModel) /\ UNCHANGED step
  BY <1>1, <1>3, ReadKeeps DEF Ends
<1>4. CASE step < Len(Steps) /\ step' = step + 1 /\ UNCHANGED <<pc, found, model>>
  <2>1. step' \in 1..Len(Steps)
    BY <1>1, <1>4
  <2>2. /\ found' = "model" =>
              /\ \E measured \in BOOLEAN : model' = ModelOf(ask.file, measured)
              /\ model'.dense \in 0..model'.weights /\ model'.growing \in Nat
        /\ found' \in {"no", "model", "unreadable", "lost"} /\ pc' = "read"
    BY <1>1, <1>4 DEF SizingInv, TypeOK, ModelFromFile
  <2> QED
    BY <1>1, <2>1, <2>2, ReadKeeps
<1> QED
  BY <1>2, <1>3, <1>4 DEF ReadUrl

LEMMA ReadBreaksKeeps == SizingInv /\ ReadBreaks => SizingInv'
BY DEF ReadBreaks, SizingInv, TypeOK, Runs, ModelFromFile, VerdictFromSolve, ServerFields

LEMMA ReadFailsKeeps == SizingInv /\ ReadFails => SizingInv'
<1> SUFFICES ASSUME SizingInv, ReadFails PROVE SizingInv'
  OBVIOUS
<1>1. step' \in 1..Len(Steps) /\ found' = "lost" /\ pc' = "solve" /\ pc = "read"
      /\ UNCHANGED <<ask, hw, cmd, verdict, server, report>>
  BY DEF ReadFails, Ends, SizingInv, TypeOK
<1> QED
  BY <1>1, ReadKeeps

LEMMA DecideKeeps == SizingInv /\ Decide => SizingInv'
<1> SUFFICES ASSUME SizingInv, Decide PROVE SizingInv'
  OBVIOUS
<1>1. /\ UNCHANGED <<ask, hw, cmd, step, found, model, server>> /\ pc = "solve"
      /\ ask.plan \in PlanType /\ hw \in MachineType /\ cmd \in {"plan", "verify"}
  BY AskTypes DEF Decide, SizingInv, TypeOK
<1>2. CASE pc' = "done" /\ report' = "refused" /\ UNCHANGED verdict
  BY <1>1, <1>2
  DEF SizingInv, TypeOK, Runs, ModelFromFile, VerdictFromSolve, ServerFields
<1>3. ASSUME NEW v \in VerdictsOn(hw, ask.plan), Runs(v), verdict' = v,
             IF cmd = "verify" THEN pc' = "compare" /\ UNCHANGED report
             ELSE pc' = (IF found = "model" THEN "start" ELSE "done") /\ report' = "planned"
      PROVE  SizingInv'
  <2>1. PICK m \in ModelType : v = Solve(hw, m, ask.plan) /\ (found = "model" => m = model)
    BY VerdictsOnSolve
  <2>2. /\ v.model = m /\ v.spilled \in 0..m.weights /\ v.cpuMoe \in 0..m.layers
        /\ v.gpuLayers \in 0..m.layers
    BY <1>1, <1>3, <2>1, SolveTypes
  <2>3. TypeOK'
    BY <1>1, <1>3, <2>2 DEF SizingInv, TypeOK
  <2>4. VerdictFromSolve'
    <3>1. pc' = "start" => /\ cmd' = "plan" /\ found' = "model" /\ Runs(verdict')
                           /\ verdict' = Solve(hw', model', ask'.plan)
      BY <1>1, <1>3, <2>1
    <3>2. pc' = "compare" => Runs(verdict') /\ verdict' = Solve(hw', m, ask'.plan)
      BY <1>1, <1>3, <2>1
    <3> QED
      BY <3>1, <3>2 DEF VerdictFromSolve, Runs
  <2>5. ModelFromFile' /\ ServerFields'
    BY <1>1 DEF SizingInv, ModelFromFile, ServerFields
  <2> QED
    BY <1>1, <2>3, <2>4, <2>5 DEF SizingInv
<1> QED
  BY <1>2, <1>3 DEF Decide

\* What a running server holds of the weights are two parts of the file.
LEMMA ServerWeights ==
    ASSUME SizingInv, pc = "start", NEW gpu \in BOOLEAN
    PROVE  LET f == ask.file
               ram == IF gpu THEN RamShare(f, verdict) \div Layers(f) ELSE f.weights
           IN  ram \in Nat /\ f.weights - ram \in Nat
<1> DEFINE f == ask.file
           w == f.weights
           L == Layers(f)
<1>1. /\ f \in FileType /\ hw \in MachineType /\ ask.plan \in PlanType
      /\ w \in Nat /\ f.dense \in Nat /\ f.dense <= w /\ L \in Nat \ {0}
  BY AskTypes, LayersTypes DEF SizingInv, TypeOK, FileType
<1>2. model \in ModelType /\ model.layers = L
  <2>1. PICK b \in BOOLEAN : model = ModelOf(f, b)
    BY DEF SizingInv, ModelFromFile, VerdictFromSolve
  <2> QED
    BY <1>1, <2>1, ModelOfType DEF ModelOf
<1>3. verdict.cpuMoe \in 0..L /\ verdict.gpuLayers \in 0..L
  BY <1>1, <1>2, SolveTypes DEF SizingInv, VerdictFromSolve
<1>4. RamShare(f, verdict) \in Nat /\ RamShare(f, verdict) <= w * L
  <2>1. \A a, b \in Nat : a <= L /\ b <= w => a * b \in Nat /\ a * b <= w * L
    <3> SUFFICES ASSUME NEW a \in Nat, NEW b \in Nat, a <= L, b <= w, NEW l \in Nat, l = L,
                        NEW x \in Nat, x = w
                 PROVE  a * b \in Nat /\ a * b <= x * l
      BY <1>1
    <3>1. a * b <= l * b /\ l * b <= l * x
      OBVIOUS
    <3> QED
      BY <3>1
  <2>2. CASE f.moe
    <3>1. verdict.cpuMoe \in Nat /\ verdict.cpuMoe <= L /\ Experts(f) \in Nat /\ Experts(f) <= w
      BY <1>1, <1>3 DEF Experts
    <3> QED
      BY <2>1, <2>2, <3>1 DEF RamShare
  <2>3. CASE ~f.moe
    <3>1. L - verdict.gpuLayers \in Nat /\ L - verdict.gpuLayers <= L
      BY <1>1, <1>3
    <3> QED
      BY <1>1, <2>1, <2>3, <3>1 DEF RamShare
  <2> QED
    BY <2>2, <2>3
<1>5. RamShare(f, verdict) \div L \in Nat /\ RamShare(f, verdict) \div L <= w
  <2>1. PICK r \in Nat, l \in Nat \ {0}, x \in Nat : r = RamShare(f, verdict) /\ l = L /\ x = w
    BY <1>1, <1>4
  <2>2. r \div l \in Nat /\ (r \div l) * l <= r
    BY DivBounds
  <2>3. PICK q \in Nat : q = r \div l
    BY <2>2
  <2>4. q * l <= r /\ r <= x * l
    BY <1>4, <2>1, <2>2, <2>3
  <2>5. q <= x
    <3>1. ASSUME q >= x + 1 PROVE FALSE
      <4>1. (x + 1) * l <= q * l /\ (x + 1) * l = x * l + l
        BY <3>1
      <4>2. q * l \in Nat /\ x * l \in Nat
        OBVIOUS
      <4> QED
        BY <2>4, <4>1, <4>2
    <3> QED
      BY <3>1
  <2> QED
    BY <2>1, <2>3, <2>5
<1> QED
  BY <1>1, <1>5

LEMMA StartKeeps ==
    SizingInv /\ (\E gpu \in BOOLEAN, d, e \in Drift : Start(gpu, d, e)) => SizingInv'
<1> SUFFICES ASSUME SizingInv, NEW gpu \in BOOLEAN, NEW d \in Drift, NEW e \in Drift,
                    Start(gpu, d, e)
             PROVE  SizingInv'
  OBVIOUS
<1> DEFINE f == ask.file
           ram == IF gpu THEN RamShare(f, verdict) \div Layers(f) ELSE f.weights
           s == [gpu |-> gpu, up |-> TRUE,
                 vramWeights |-> f.weights - ram, ramWeights |-> ram,
                 kv |-> Positive(verdict.kv + d), compute |-> Positive(ComputeBuffer + e),
                 layers |-> Layers(f), experts |-> IF gpu THEN verdict.cpuMoe ELSE 0]
<1>1. /\ pc = "start" /\ cmd = "plan" /\ server = NoServer /\ Runs(verdict)
      /\ UNCHANGED <<ask, verdict>> /\ hw \in MachineType
  BY DEF Start, SizingInv, VerdictFromSolve, ServerFields
<1>2. CASE /\ gpu /\ Taken(s) > hw.vram /\ pc' = "done" /\ report' = "crashed"
           /\ UNCHANGED <<hw, cmd, step, found, model, server>>
  <2>1. TypeOK'
    BY <1>1, <1>2 DEF SizingInv, TypeOK, Runs
  <2>2. ~server'.gpu
    BY <1>1, <1>2 DEF NoServer
  <2> QED
    BY <1>1, <1>2, <2>1, <2>2
    DEF SizingInv, ModelFromFile, VerdictFromSolve, ServerFields
<1>3. CASE /\ server' = s /\ hw' \in SeenLater(s) /\ cmd' = "verify" /\ pc' = "read"
           /\ step' = 1 /\ found' = "no" /\ model' = NoModel /\ report' = "none"
  <2>1. ram \in Nat /\ f.weights - ram \in Nat
    BY <1>1, ServerWeights
  <2>2. s.kv \in Nat /\ s.compute \in Nat
    <3>1. ask.plan \in PlanType /\ f \in FileType
      BY AskTypes DEF SizingInv, TypeOK
    <3>2. PICK b \in BOOLEAN : model = ModelOf(f, b)
      BY <1>1 DEF SizingInv, ModelFromFile, VerdictFromSolve
    <3>3. verdict.kv \in Nat
      <4>1. model \in ModelType
        BY <3>1, <3>2, ModelOfType
      <4>2. verdict.kv = KvCache(model, ask.plan)
        BY <1>1 DEF SizingInv, VerdictFromSolve, Solve
      <4> QED
        BY <1>1, <3>1, <4>1, <4>2, SumTypes
    <3>4. d \in Int /\ e \in Int /\ ComputeBuffer \in Nat
      BY SizingAssumption, UnitsAssumption
    <3> QED
      BY <3>3, <3>4 DEF Positive
  <2> DEFINE t == s.vramWeights + s.kv + s.compute
  <2>3. t \in Nat /\ s.ramWeights \in Nat /\ s.vramWeights \in Nat /\ Taken(s) = t
    <3> HIDE DEF ram
    <3>1. s.vramWeights = f.weights - ram /\ s.ramWeights = ram
      OBVIOUS
    <3> HIDE DEF s
    <3> QED
      BY <2>1, <2>2, <3>1 DEF Taken
  <2>4. server'.vramWeights \in Nat /\ server'.kv \in Nat /\ server'.compute \in Nat
        /\ server'.ramWeights \in Nat
    <3> HIDE DEF s
    <3> QED
      BY <1>3, <2>2, <2>3
  <2>5. hw' \in MachineType
    <3> HIDE DEF s, t
    <3>1. \A h, a, b : h \in MachineType
             /\ a \in Nat \union {Unmeasured} /\ b \in Nat \union {Unmeasured} =>
             [h EXCEPT !.freeVram = a, !.freeRam = b] \in MachineType
      BY DEF MachineType
    <3>2. \A a \in Int : Positive(a) \in Nat
      BY DEF Positive
    <3>3. \A a \in Nat \union {Unmeasured}, b \in Nat :
             (IF a = Unmeasured THEN a ELSE Positive(a - b)) \in Nat \union {Unmeasured}
      BY <3>2
    <3>4. hw.freeVram \in Nat \union {Unmeasured} /\ hw.freeRam \in Nat \union {Unmeasured}
      BY <1>1 DEF MachineType
    <3>5. CASE hw' = [hw EXCEPT !.freeVram = Unmeasured, !.freeRam = Unmeasured]
      BY <1>1, <3>1, <3>5
    <3>6. ASSUME NEW r \in {0, s.ramWeights},
                 hw' = [hw EXCEPT
                    !.freeVram = IF @ = Unmeasured THEN @ ELSE Positive(@ - Taken(s)),
                    !.freeRam = IF @ = Unmeasured THEN @ ELSE Positive(@ - r)]
          PROVE  hw' \in MachineType
      <4> DEFINE a == IF hw.freeVram = Unmeasured THEN hw.freeVram
                      ELSE Positive(hw.freeVram - Taken(s))
                 b == IF hw.freeRam = Unmeasured THEN hw.freeRam ELSE Positive(hw.freeRam - r)
      <4>1. a \in Nat \union {Unmeasured} /\ b \in Nat \union {Unmeasured}
        BY <2>3, <3>3, <3>4
      <4>2. hw' = [hw EXCEPT !.freeVram = a, !.freeRam = b]
        BY <3>6
      <4> HIDE DEF a, b
      <4> QED
        BY <1>1, <3>1, <4>1, <4>2
    <3> QED
      BY <1>3, <3>5, <3>6 DEF SeenLater
  <2>6. TypeOK'
    <3> HIDE DEF s
    <3>1. step' \in 1..Len(Steps)
      BY <1>3, SizingAssumption
    <3> QED
      BY <1>1, <1>3, <2>4, <3>1 DEF SizingInv, TypeOK, Runs
  <2> HIDE DEF s
  <2> QED
    BY <1>1, <1>3, <2>4, <2>5, <2>6
    DEF SizingInv, ModelFromFile, VerdictFromSolve, ServerFields
<1> QED
  BY <1>2, <1>3 DEF Start

\* An amount that is not judged a failure is below the plan plus UnderFail.
LEMMA JudgedBounds ==
    ASSUME NEW predicted \in Nat, NEW actual \in Nat, Judged(predicted, actual) # "FAIL"
    PROVE  actual < predicted + UnderFail
<1>1. PICK quarter \in Nat \ {0} : GB = 4 * quarter
  <2>1. GB = 4 * (GB \div 4) /\ GB \div 4 \in Nat
    BY UnitsAssumption
  <2> QED
    BY <2>1, UnitsAssumption
<1>2. Tolerance = quarter /\ UnderFail = 2 * quarter
  BY <1>1 DEF Tolerance, UnderFail
<1> QED
  BY <1>1, <1>2 DEF Judged

LEMMA CompareKeeps ==
    SizingInv /\ (\E logged \in SUBSET Parts : Compare(logged)) => SizingInv'
BY DEF Compare, SizingInv, TypeOK, Runs, ModelFromFile, VerdictFromSolve, ServerFields

THEOREM SizingInvariant == Spec => []SizingInv
<1>1. Init => SizingInv
  BY SizingInvInit
<1>2. SizingInv /\ [Next]_vars => SizingInv'
  <2> SUFFICES ASSUME SizingInv, [Next]_vars PROVE SizingInv'
    OBVIOUS
  <2>1. CASE ReadLocal
    BY <2>1, ReadLocalKeeps
  <2>2. CASE \E got \in Replies(ask.file), sized \in BOOLEAN : ReadUrl(got, sized)
    BY <2>2, ReadUrlKeeps
  <2>8. CASE ReadBreaks
    BY <2>8, ReadBreaksKeeps
  <2>3. CASE ReadFails
    BY <2>3, ReadFailsKeeps
  <2>4. CASE Decide
    BY <2>4, DecideKeeps
  <2>5. CASE \E gpu \in BOOLEAN, d, e \in Drift : Start(gpu, d, e)
    BY <2>5, StartKeeps
  <2>6. CASE \E logged \in SUBSET Parts : Compare(logged)
    BY <2>6, CompareKeeps
  <2>7. CASE UNCHANGED vars
    BY <2>7
    DEF vars, SizingInv, TypeOK, Runs, ModelFromFile, VerdictFromSolve, ServerFields
  <2> QED
    BY <2>1, <2>2, <2>3, <2>4, <2>5, <2>6, <2>7, <2>8 DEF Next
<1> QED
  BY <1>1, <1>2, PTL DEF Spec

(***************************************************************************)
(* The theorems.                                                           *)
(***************************************************************************)

\* Every amount of memory that `plan`, the server and `verify` work with has
\* the range its name says, whatever the file and the machine.
THEOREM SizingTypes == Spec => []TypeOK
<1>1. SizingInv => TypeOK
  BY DEF SizingInv
<1> QED
  BY <1>1, SizingInvariant, PTL

\* One reply after which read_gguf_url gives up, though it was as long as it
\* could be and told the size.
LEMMA GivesUpForAReason ==
    ASSUME SizingInv, NEW got \in Replies(ask.file), NEW sized \in BOOLEAN, ReadUrl(got, sized),
           found = "no", found' = "unreadable", got >= AskedFor(ask.file), sized
    PROVE  \/ ~ask.file.complete \/ ask.file.header > ask.file.length
           \/ ask.file.header > Steps[Len(Steps)]
<1> DEFINE f == ask.file
<1>1. f.header \in Nat /\ f.length \in Nat /\ step \in 1..Len(Steps)
  BY AskTypes DEF SizingInv, TypeOK, FileType
<1>2. Steps[step] \in Nat
  BY <1>1, SizingAssumption
<1>3. got = f.length \/ got = AskedFor(f)
  BY <1>1, <1>2 DEF Replies, AskedFor, Lesser
<1>4. CASE Parse(f, got, sized)
  BY <1>4, ParseKeeps
<1>5. CASE ~HoldsHeader(f, got) /\ (Exhausted(f, got) \/ step = Len(Steps))
  BY <1>1, <1>2, <1>3, <1>5 DEF HoldsHeader, Exhausted, AskedFor, Lesser
<1>6. CASE UNCHANGED found
  BY <1>6
<1> QED
  BY <1>4, <1>5, <1>6 DEF ReadUrl

LEMMA ReadLocalForAReason ==
    ASSUME SizingInv, ReadLocal, found' = "unreadable"
    PROVE  \/ ~ask.file.complete \/ ask.file.header > ask.file.length
           \/ ask.way = "local" /\ ask.file.header > LocalRead
<1> DEFINE f == ask.file
           prefix == Lesser(LocalRead, f.length)
<1>1. f.header \in Nat /\ f.length \in Nat /\ LocalRead \in Nat /\ ask.way = "local"
  BY AskTypes, SizingAssumption DEF SizingInv, TypeOK, ReadLocal, FileType
<1>2. CASE HoldsHeader(f, prefix)
  BY <1>2, ParseKeeps DEF ReadLocal
<1>3. CASE ~HoldsHeader(f, prefix)
  BY <1>1, <1>3 DEF HoldsHeader, Lesser
<1> QED
  BY <1>2, <1>3

\* Whatever the read steps of read_gguf_url are, wherever the header of a file
\* ends and whatever the replies hold, the reader gives up only past the last step
\* or the end of the file, or on a reply that is short of what there is or does
\* not tell the size.
THEOREM ReadsFarEnough == Spec => ReadReaches
<1> DEFINE Reason ==
      LET f == ask.file
      IN  \/ ~f.complete \/ f.header > f.length
          \/ ask.way = "local" /\ f.header > LocalRead
          \/ ask.way = "url" /\ f.header > Steps[Len(Steps)]
          \/ /\ ask.way = "url"
             /\ \A got \in Replies(f), sized \in BOOLEAN :
                   ReadUrl(got, sized) => got < AskedFor(f) \/ ~sized
<1>1. SizingInv /\ [Next]_vars => (found' = "unreadable" /\ found = "no" => Reason)
  <2> SUFFICES ASSUME SizingInv, [Next]_vars, found' = "unreadable", found = "no"
               PROVE  Reason
    OBVIOUS
  <2>1. ReadLocal \/ \E got \in Replies(ask.file), sized \in BOOLEAN : ReadUrl(got, sized)
    BY DEF Next, vars, ReadBreaks, ReadFails, Ends, Decide, Start, Compare
  <2>2. CASE ReadLocal
    BY <2>2, ReadLocalForAReason
  <2>3. CASE \E got \in Replies(ask.file), sized \in BOOLEAN : ReadUrl(got, sized)
    <3>1. ask.way = "url"
      BY <2>3 DEF ReadUrl
    <3>2. SUFFICES ASSUME ~(\/ ~ask.file.complete \/ ask.file.header > ask.file.length
                           \/ ask.file.header > Steps[Len(Steps)]),
                          NEW got \in Replies(ask.file), NEW sized \in BOOLEAN,
                          ReadUrl(got, sized)
                   PROVE  got < AskedFor(ask.file) \/ ~sized
      BY <3>1
    <3>3. got \in Int /\ AskedFor(ask.file) \in Int
      <4>1. ask.file.length \in Nat
        BY AskTypes DEF SizingInv, TypeOK, FileType
      <4>2. step \in 1..Len(Steps) /\ Steps[step] \in Nat
        BY SizingAssumption DEF SizingInv, TypeOK
      <4>3. AskedFor(ask.file) \in Nat
        BY <4>1, <4>2 DEF AskedFor, Lesser
      <4> QED
        BY <3>2, <4>1, <4>3 DEF Replies
    <3> QED
      BY <3>2, <3>3, GivesUpForAReason
  <2> QED
    BY <2>1, <2>2, <2>3
<1> QED
  BY <1>1, SizingInvariant, PTL DEF Spec, ReadReaches

\* Whatever the number of layers, their heads and the way a file describes them,
\* model_from_gguf plans for at least the heads whose cache grows with the
\* context, if a stride that is published, or known of the architecture, is right.
THEOREM CacheIsCovered == Spec => []KvCovered
<1>1. SizingInv => KvCovered
  <2> SUFFICES ASSUME SizingInv, found = "model"
               PROVE  model.growing >= ask.file.dim * Cardinality(GrowingHeads(ask.file))
    BY DEF KvCovered
  <2> DEFINE f == ask.file
             n == Cardinality(GrowingHeads(f))
  <2>1. f \in FileType /\ Truthful(f)
    BY AskTypes, TruthfulAssumption DEF SizingInv, TypeOK
  <2>2. PICK b \in BOOLEAN : model = ModelOf(f, b)
    BY DEF SizingInv, ModelFromFile
  <2>3. model.growing = f.dim * KvHeads(f) * FullAttention(f)
    BY <2>2 DEF ModelOf
  <2>4. /\ f.dim \in Nat /\ KvHeads(f) \in Nat /\ FullAttention(f) \in Nat
        /\ n \in 0..(KvHeads(f) * FullAttention(f))
    BY <2>1, LayersTypes, GrowingHeadsCounted DEF FileType
  <2>5. \A a, b2, c \in Nat, d \in Nat : a <= b2 * c => d * b2 * c >= d * a
    <3> SUFFICES ASSUME NEW a \in Nat, NEW b2 \in Nat, NEW c \in Nat, NEW d \in Nat,
                        a <= b2 * c
                 PROVE  d * b2 * c >= d * a
      OBVIOUS
    <3>1. b2 * c \in Nat /\ d * (b2 * c) >= d * a /\ d * (b2 * c) = d * b2 * c
      OBVIOUS
    <3> QED
      BY <3>1
  <2> HIDE DEF n
  <2> QED
    BY <2>3, <2>4, <2>5 DEF n
<1> QED
  BY <1>1, SizingInvariant, PTL

\* For every model, machine and plan that solve() does not refuse, the flags
\* leave no more weights on the card than there is room for.
THEOREM NeverBeyondRoom == Spec => []VramRespected
<1>1. SizingInv => VramRespected
  <2> SUFFICES ASSUME SizingInv, pc = "start", model.measured,
                      model.moe => model.dense <= Room(hw, model, ask.plan)
               PROVE  VramShare(ask.file, verdict)
                         <= Layers(ask.file) * Room(hw, model, ask.plan)
    BY DEF VramRespected
  <2> DEFINE f == ask.file
             L == Layers(f)
  <2>1. /\ f \in FileType /\ ask.plan \in PlanType /\ hw \in MachineType /\ Runs(verdict)
        /\ verdict = Solve(hw, model, ask.plan)
    BY AskTypes DEF SizingInv, TypeOK, VerdictFromSolve
  <2>2. model = ModelOf(f, TRUE)
    <3>1. PICK b \in BOOLEAN : model = ModelOf(f, b)
      BY DEF SizingInv, ModelFromFile, VerdictFromSolve
    <3>2. model.measured = b
      BY <3>1 DEF ModelOf
    <3> QED
      BY <3>1, <3>2
  <2>3. /\ model \in ModelType /\ model.weights = f.weights /\ model.dense = f.dense
        /\ model.moe = f.moe /\ model.layers = L
    BY <2>1, <2>2, ModelOfType, Zenon DEF ModelOf, Dense
  <2>4. ~Refuse(hw, model, ask.plan) /\ verdict.spilled = Spilled(hw, model, ask.plan)
    BY <2>1, <2>3, SolveTypes DEF Solve
  <2>5. /\ RamShare(f, verdict) \in Nat /\ verdict.spilled * L <= RamShare(f, verdict)
    BY <2>1, <2>3, <2>4, RamShareBounds
  <2>6. f.weights - verdict.spilled <= Room(hw, model, ask.plan)
    BY <2>1, <2>3, <2>4, PlannedWithinCard
  <2>7. /\ f.weights \in Nat /\ L \in Nat /\ verdict.spilled \in Nat
        /\ Room(hw, model, ask.plan) \in Int
    <3>1. f.weights \in Nat /\ L \in Nat
      BY <2>1, LayersTypes DEF FileType
    <3>2. verdict.spilled \in Nat /\ Room(hw, model, ask.plan) \in Int
      BY <2>1, <2>3, <2>4, SumTypes
    <3> QED
      BY <3>1, <3>2
  <2>8. \A w, s, l \in Nat, r \in Int : w - s <= r => l * w - s * l <= l * r
    <3> SUFFICES ASSUME NEW w \in Nat, NEW s \in Nat, NEW l \in Nat, NEW r \in Int, w - s <= r
                 PROVE  l * w - s * l <= l * r
      OBVIOUS
    <3>1. l * (w - s) <= l * r /\ l * (w - s) = l * w - s * l
      OBVIOUS
    <3> QED
      BY <3>1
  <2>9. L * f.weights - verdict.spilled * L <= L * Room(hw, model, ask.plan)
    BY <2>6, <2>7, <2>8
  <2>10. /\ L * f.weights \in Nat /\ verdict.spilled * L \in Nat
         /\ L * Room(hw, model, ask.plan) \in Int
    BY <2>7
  <2>11. VramShare(f, verdict) = L * f.weights - RamShare(f, verdict)
    BY DEF VramShare
  <2> HIDE DEF L
  <2> QED
    BY <2>5, <2>9, <2>10, <2>11 DEF L
<1> QED
  BY <1>1, SizingInvariant, PTL

\* For every model and machine, a plan that FITS asks for no more RAM than is
\* usable, although whole layers are moved.
THEOREM NeverPages == Spec => []FitsNeverPages
<1>1. SizingInv => FitsNeverPages
  <2> SUFFICES ASSUME SizingInv, pc = "start", model.measured, verdict.status = "FITS",
                      LayerWithinMargin(ask.file)
               PROVE  RamShare(ask.file, verdict) <=
                         Layers(ask.file) * (UsableRam(hw) - PromptCache(ask.plan) - Overhead)
    BY DEF FitsNeverPages
  <2> DEFINE f == ask.file
             L == Layers(f)
             s == Spilled(hw, model, ask.plan)
             u == UsableRam(hw) - PromptCache(ask.plan) - Overhead
             layer == IF f.moe THEN Experts(f) ELSE f.weights
  <2>1. /\ f \in FileType /\ ask.plan \in PlanType /\ hw \in MachineType /\ Runs(verdict)
        /\ verdict = Solve(hw, model, ask.plan)
    BY AskTypes DEF SizingInv, TypeOK, VerdictFromSolve
  <2>2. model = ModelOf(f, TRUE)
    <3>1. PICK b \in BOOLEAN : model = ModelOf(f, b)
      BY DEF SizingInv, ModelFromFile, VerdictFromSolve
    <3>2. model.measured = b
      BY <3>1 DEF ModelOf
    <3> QED
      BY <3>1, <3>2
  <2>3. /\ model \in ModelType /\ model.weights = f.weights /\ model.dense = f.dense
        /\ model.moe = f.moe /\ model.layers = L
    BY <2>1, <2>2, ModelOfType, Zenon DEF ModelOf, Dense
  <2>4. ~Refuse(hw, model, ask.plan) /\ verdict.spilled = s
    BY <2>1, <2>3, SolveTypes DEF Solve
  <2>5. /\ RamShare(f, verdict) \in Nat /\ RamShare(f, verdict) <= s * L + layer
    BY <2>1, <2>3, <2>4, RamShareBounds
  <2>6. /\ L \in Nat /\ s \in Nat /\ UsableRam(hw) \in Nat /\ PromptCache(ask.plan) \in Nat
        /\ Overhead \in Nat /\ TightMargin \in Nat /\ layer \in Int
    <3>1. L \in Nat /\ layer \in Int
      <4>1. f.weights \in Nat /\ f.dense \in Nat
        BY <2>1 DEF FileType
      <4>2. L \in Nat
        BY <2>1, LayersTypes
      <4> QED
        BY <4>1, <4>2 DEF Experts
    <3>2. s \in Nat /\ UsableRam(hw) \in Nat /\ PromptCache(ask.plan) \in Nat
      BY <2>1, <2>3, SumTypes, UsableTypes
    <3>3. Overhead \in Nat /\ TightMargin \in Nat
      BY UnitsAssumption DEF TightMargin
    <3> QED
      BY <3>1, <3>2, <3>3
  <2>7. s + TightMargin <= u /\ u \in Int
    <3>1. Headroom(hw, model, ask.plan) >= TightMargin
      <4>1. Headroom(hw, model, ask.plan) \in Int
        BY <2>1, <2>3, SumTypes
      <4>2. Status(hw, model, ask.plan) = "FITS"
        BY <2>1 DEF Solve
      <4> QED
        BY <2>4, <2>6, <4>1, <4>2 DEF Status
    <3> HIDE DEF s
    <3> QED
      BY <2>6, <3>1 DEF Headroom, RamNeeded, s
  <2>8. layer <= L * TightMargin
    BY DEF LayerWithinMargin
  <2>9. \A l, x, t \in Nat, v \in Int : x + t <= v => x * l + l * t <= l * v
    <3> SUFFICES ASSUME NEW l \in Nat, NEW x \in Nat, NEW t \in Nat, NEW v \in Int, x + t <= v
                 PROVE  x * l + l * t <= l * v
      OBVIOUS
    <3>1. l * (x + t) <= l * v /\ l * (x + t) = x * l + l * t
      OBVIOUS
    <3> QED
      BY <3>1
  <2> HIDE DEF L, s, u, layer
  <2>10. s * L + L * TightMargin <= L * u
    BY <2>6, <2>7, <2>9
  <2>11. PICK a \in Nat, b \in Nat, c \in Int :
            a = s * L /\ b = L * TightMargin /\ c = L * u
    BY <2>6, <2>7
  <2> QED
    BY <2>5, <2>6, <2>8, <2>10, <2>11 DEF L, u
<1> QED
  BY <1>1, SizingInvariant, PTL

\* Whichever model of the catalogue runs, `recommend` has one to name that it does
\* not rank below it: FITS before TIGHT, then native models, then the score, and of
\* equals the first.
LEMMA RecommendsTheBest ==
    ASSUME NEW h \in MachineType, NEW p \in PlanType, NEW k \in 1..Len(Catalogue),
           Runs(Solve(h, Catalogue[k], p))
    PROVE  \E v \in Recommended(h, Catalogue, p) :
              Runs(v) /\ ~Better(Solve(h, Catalogue[k], p), v)
<1> DEFINE V(i) == Solve(h, Catalogue[i], p)
           R == {i \in 1..Len(Catalogue) : V(i).status # "REFUSE"}
           F == {i \in R : V(i).status = "FITS"}
           A == IF F = {} THEN R ELSE F
           N == {i \in A : Catalogue[i].native}
           B == IF N = {} THEN A ELSE N
           scores == [i \in 1..Len(Catalogue) |-> Catalogue[i].score]
           S == {scores[i] : i \in B}
<1>1. /\ \A i \in 1..Len(Catalogue) :
            /\ Catalogue[i].score \in Nat /\ Catalogue[i].native \in BOOLEAN
            /\ V(i).model = Catalogue[i] /\ V(i).status \in {"REFUSE", "TIGHT", "FITS"}
      /\ Len(Catalogue) \in Nat
  <2>1. Catalogue \in Seq(ModelType)
    BY SizingAssumption
  <2>2. ASSUME NEW i \in 1..Len(Catalogue)
        PROVE  /\ Catalogue[i].score \in Nat /\ Catalogue[i].native \in BOOLEAN
               /\ V(i).model = Catalogue[i] /\ V(i).status \in {"REFUSE", "TIGHT", "FITS"}
    <3>1. Catalogue[i] \in ModelType
      BY <2>1
    <3> QED
      BY <3>1 DEF ModelType, Solve, Status
  <2> QED
    BY <2>1, <2>2
<1> HIDE DEF V
<1>2. /\ k \in R /\ R \subseteq 1..Len(Catalogue) /\ B # {} /\ B \subseteq R
      /\ \A i \in R : Runs(V(i))
  BY <1>1 DEF Runs, V
<1>3. PICK b \in B : \A i \in B : Catalogue[i].score <= Catalogue[b].score
  <2>1. scores \in Seq(Nat) /\ Len(scores) = Len(Catalogue)
    BY <1>1
  <2>2. PICK c \in Nat : \A i \in 1..Len(scores) : scores[i] <= c
    BY <2>1, HeadsBounded
  <2>3. /\ \A i \in B : scores[i] = Catalogue[i].score /\ scores[i] <= c
        /\ S \in SUBSET Nat /\ S # {} /\ \A x \in S : x <= c
    <3> HIDE DEF B, R
    <3>1. \A i \in B : i \in 1..Len(Catalogue)
      BY <1>2
    <3>2. \A i \in B : scores[i] = Catalogue[i].score /\ scores[i] <= c /\ scores[i] \in Nat
      BY <1>1, <2>1, <2>2, <3>1
    <3> HIDE DEF scores
    <3> QED
      BY <1>2, <3>2
  <2>4. PICK n \in S : \A x \in S : x <= n
    <3> HIDE DEF S
    <3> QED
      BY <2>3, GreatestExists
  <2>5. PICK b \in B : n = scores[b]
    OBVIOUS
  <2>6. \A i \in B : scores[i] \in S
    OBVIOUS
  <2> HIDE DEF S, scores, B
  <2> QED
    BY <2>3, <2>4, <2>5, <2>6
<1> DEFINE C == {i \in B : Catalogue[i].score = Catalogue[b].score}
<1>4. PICK t \in C : \A i \in C : t <= i
  <2>1. C \in SUBSET Nat /\ C # {}
    BY <1>1, <1>2
  <2> HIDE DEF C
  <2> QED
    BY <2>1, LeastExists
<1>5. t \in R /\ t \in B /\ Catalogue[t].score = Catalogue[b].score
  BY <1>2, <1>4
<1>6. ASSUME NEW j \in R
      PROVE  ~Better(V(j), V(t)) /\ (j < t => Better(V(t), V(j)))
  <2>1. /\ V(j).model = Catalogue[j] /\ V(t).model = Catalogue[t]
        /\ Catalogue[j].score \in Nat /\ Catalogue[t].score \in Nat
        /\ Catalogue[j].native \in BOOLEAN /\ Catalogue[t].native \in BOOLEAN
    BY <1>1, <1>2, <1>5
  <2>2. CASE j \notin A
    <3>1. V(t).status = "FITS" /\ V(j).status # "FITS"
      BY <1>5, <2>2
    <3> QED
      BY <3>1 DEF Better
  <2>3. CASE j \in A /\ j \notin B
    <3>1. (V(t).status = "FITS") = (V(j).status = "FITS")
      BY <1>5, <2>3
    <3>2. Catalogue[t].native /\ ~Catalogue[j].native
      BY <1>5, <2>3
    <3> QED
      BY <2>1, <3>1, <3>2 DEF Better
  <2>4. CASE j \in B
    <3>1. (V(t).status = "FITS") = (V(j).status = "FITS")
          /\ Catalogue[t].native = Catalogue[j].native
      BY <1>5, <2>1, <2>4
    <3>2. Catalogue[j].score <= Catalogue[t].score
      BY <1>3, <1>5, <2>4
    <3>3. j < t => Catalogue[j].score # Catalogue[t].score
      <4>1. j \in Nat /\ t \in Nat
        BY <1>1, <1>2, <1>5
      <4> QED
        BY <1>4, <1>5, <2>4, <4>1
    <3> HIDE DEF A, B, C
    <3> QED
      BY <2>1, <3>1, <3>2, <3>3 DEF Better
  <2> QED
    BY <2>2, <2>3, <2>4
<1>7. V(t) \in Recommended(h, Catalogue, p)
  <2> HIDE DEF A, B, C, F, N
  <2> QED
    BY <1>5, <1>6 DEF Recommended, V
<1> HIDE DEF A, B, C, F, N
<1> QED
  BY <1>2, <1>5, <1>6, <1>7 DEF V

\* The verdict in use is one that was to be had for the model that was read, or from
\* the catalogue.
VerdictInUse == pc \in {"start", "compare"} => verdict \in VerdictsOn(hw, ask.plan) /\ Runs(verdict)

LEMMA VerdictInUseHolds == Spec => []VerdictInUse
<1>1. Init => VerdictInUse
  BY DEF Init, VerdictInUse
<1>2. VerdictInUse /\ [Next]_vars => VerdictInUse'
  <2> SUFFICES ASSUME VerdictInUse, [Next]_vars PROVE VerdictInUse'
    OBVIOUS
  <2>1. CASE \/ ReadLocal \/ ReadFails \/ ReadBreaks
             \/ \E got \in Replies(ask.file), sized \in BOOLEAN : ReadUrl(got, sized)
    <3>1. pc' \notin {"start", "compare"}
      BY <2>1 DEF ReadLocal, ReadFails, ReadBreaks, ReadUrl, Parse, Ends
    <3> QED
      BY <3>1 DEF VerdictInUse
  <2>2. CASE Decide
    <3>1. UNCHANGED <<hw, ask, found, model>>
      BY <2>2 DEF Decide
    <3>2. pc' \in {"start", "compare"} => verdict' \in VerdictsOn(hw, ask.plan) /\ Runs(verdict')
      BY <2>2 DEF Decide
    <3> QED
      BY <3>1, <3>2 DEF VerdictInUse, VerdictsOn, Runs
  <2>3. CASE \/ \E gpu \in BOOLEAN, d, e \in Drift : Start(gpu, d, e)
             \/ \E logged \in SUBSET Parts : Compare(logged)
    <3>1. pc' \notin {"start", "compare"}
      BY <2>3 DEF Start, Compare
    <3> QED
      BY <3>1 DEF VerdictInUse
  <2>4. CASE UNCHANGED vars
    BY <2>4 DEF vars, VerdictInUse, VerdictsOn, Runs
  <2> QED
    BY <2>1, <2>2, <2>3, <2>4 DEF Next
<1> QED
  BY <1>1, <1>2, PTL DEF Spec

\* For every model, catalogue and machine: more memory, a shorter context or fewer
\* slots never turn a plan that runs into a refusal or one that FITS into a tight
\* one, and never make `recommend` name a model that it ranked lower before.
THEOREM MoreIsNoWorse == Spec => []MoreNeverHurts
<1>1. SizingInv /\ VerdictInUse => MoreNeverHurts
  <2> SUFFICES ASSUME SizingInv, VerdictInUse, pc \in {"start", "compare"},
                      NEW h \in Machines, NEW p \in SmallerPlans, AtLeast(h, hw)
               PROVE  \E v \in VerdictsOn(h, p) : Runs(v) /\ ~Better(verdict, v)
    BY DEF MoreNeverHurts
  <2>1. /\ hw \in MachineType /\ h \in MachineType /\ ask.plan \in PlanType /\ p \in PlanType
        /\ p.context <= ask.plan.context /\ p.slots <= ask.plan.slots
    <3>1. hw \in MachineType /\ h \in MachineType /\ ask.plan \in PlanType
      BY AskTypes, SizingAssumption DEF SizingInv, TypeOK
    <3> QED
      BY <3>1 DEF SmallerPlans, PlanType
  <2>2. verdict \in VerdictsOn(hw, ask.plan) /\ Runs(verdict)
    BY DEF VerdictInUse
  <2>3. ASSUME NEW m \in ModelType, verdict = Solve(hw, m, ask.plan)
        PROVE  /\ Runs(Solve(h, m, p))
               /\ \A w : Better(verdict, w) => Better(Solve(h, m, p), w)
    <3>1. /\ Runs(verdict) => Runs(Solve(h, m, p))
          /\ verdict.status = "FITS" => Solve(h, m, p).status = "FITS"
      BY <2>1, <2>3, VerdictNoWorse
    <3>2. verdict.model = m /\ Solve(h, m, p).model = m
      BY <2>3 DEF Solve
    <3> QED
      BY <2>2, <3>1, <3>2 DEF Better
  <2>4. CASE found = "model"
    <3>1. model \in ModelType
      BY <2>4, AskTypes, ModelOfType DEF SizingInv, TypeOK, ModelFromFile
    <3>2. verdict = Solve(hw, model, ask.plan) /\ VerdictsOn(h, p) = {Solve(h, model, p)}
      BY <2>2, <2>4 DEF VerdictsOn
    <3>3. ~Better(verdict, Solve(h, model, p))
      <4>1. (verdict.status = "FITS" => Solve(h, model, p).status = "FITS")
            /\ verdict.model = model /\ Solve(h, model, p).model = model
        BY <2>1, <3>1, <3>2, VerdictNoWorse DEF Solve
      <4>2. model.score \in Nat
        BY <3>1 DEF ModelType
      <4> QED
        BY <4>1, <4>2 DEF Better
    <3> QED
      BY <2>3, <3>1, <3>2, <3>3
  <2>5. CASE found # "model"
    <3>1. PICK k \in 1..Len(Catalogue) : verdict = Solve(hw, Catalogue[k], ask.plan)
      BY <2>2, <2>5 DEF VerdictsOn, Recommended
    <3>2. Catalogue[k] \in ModelType
      BY <3>1, SizingAssumption
    <3>3. PICK v \in Recommended(h, Catalogue, p) :
             Runs(v) /\ ~Better(Solve(h, Catalogue[k], p), v)
      BY <2>1, <2>3, <3>1, <3>2, RecommendsTheBest
    <3>4. ~Better(verdict, v)
      BY <2>3, <3>1, <3>2, <3>3
    <3> QED
      BY <2>5, <3>3, <3>4 DEF VerdictsOn
  <2> QED
    BY <2>4, <2>5
<1> QED
  BY <1>1, SizingInvariant, VerdictInUseHolds, PTL

\* What a comparison that finds no failure says of each part: a part it does not
\* judge counts as planned.
LEMMA CompareCatches ==
    ASSUME SizingInv, NEW logged \in SUBSET Parts, Compare(logged), server.gpu,
           report' \in {"warn", "ok"}
    PROVE  ~(Accounted(logged) >= UsableVram(hw) + 2 * UnderFail + Tolerance)
<1>1. PICK m \in ModelType : verdict = Solve(hw, m, ask.plan) /\ Runs(verdict)
  BY DEF SizingInv, VerdictFromSolve, Compare
<1>2. hw \in MachineType /\ ask.plan \in PlanType
  BY AskTypes DEF SizingInv, TypeOK
<1> DEFINE planned == m.weights - verdict.spilled
<1>3. /\ verdict.model = m /\ planned \in Nat
  <2>1. verdict.model = m /\ verdict.spilled \in 0..m.weights /\ m.weights \in Nat
    BY <1>1, <1>2, SolveTypes DEF ModelType
  <2> QED
    BY <2>1
<1>4. verdict.kv \in Nat /\ UsableVram(hw) \in Nat
      /\ planned + verdict.kv + ComputeBuffer <= UsableVram(hw)
  <2>1. verdict.kv = KvCache(m, ask.plan)
    BY <1>1 DEF Solve
  <2>2. VramUsed(verdict) <= UsableVram(hw)
    BY <1>1, <1>2, SolveTypes, PlannedWithinCard
  <2> QED
    BY <1>2, <1>3, <2>1, <2>2, SumTypes, UsableTypes DEF VramUsed
<1>5. /\ server.vramWeights \in Nat /\ server.kv \in Nat /\ server.compute \in Nat
      /\ ComputeBuffer \in Nat /\ Tolerance \in Nat /\ UnderFail \in Nat \ {0}
  BY UnitsAssumption DEF SizingInv, ServerFields, Tolerance, UnderFail
<1>6. GpuInUse(logged) /\ "FAIL" \notin Findings(logged)
  BY DEF Compare
<1>7. ASSUME NEW part \in logged, part \in {"vram", "kv", "compute"}
      PROVE  Judgements[part] # "FAIL"
  <2>1. part \in DOMAIN Judgements
    BY <1>7 DEF Judgements
  <2> QED
    BY <1>6, <1>7, <2>1 DEF Findings
<1>8. server.vramWeights < planned + UnderFail
  <2>1. Judged(planned, server.vramWeights) # "FAIL"
    BY <1>3, <1>6, <1>7 DEF GpuInUse, Judgements
  <2> QED
    BY <1>3, <1>5, <2>1, JudgedBounds
<1>9. (IF "kv" \in logged THEN server.kv ELSE verdict.kv) < verdict.kv + UnderFail
  <2>1. CASE "kv" \in logged
    <3>1. Judged(verdict.kv, server.kv) # "FAIL"
      BY <1>7, <2>1 DEF Judgements
    <3> QED
      BY <1>4, <1>5, <2>1, <3>1, JudgedBounds
  <2>2. CASE "kv" \notin logged
    BY <1>4, <1>5, <2>2
  <2> QED
    BY <2>1, <2>2
<1>10. (IF "compute" \in logged THEN server.compute ELSE ComputeBuffer)
          <= ComputeBuffer + Tolerance
  <2>1. CASE "compute" \in logged
    <3>1. JudgedCompute(server.compute) # "FAIL"
      BY <1>7, <2>1 DEF Judgements
    <3> QED
      BY <1>5, <2>1, <3>1 DEF JudgedCompute
  <2>2. CASE "compute" \notin logged
    BY <1>5, <2>2
  <2> QED
    BY <2>1, <2>2
<1> HIDE DEF planned
<1> QED
  BY <1>3, <1>4, <1>5, <1>8, <1>9, <1>10 DEF Accounted

\* Whatever part of a server outgrew its plan, whichever lines its log has and
\* wherever verify's second verdict came from, a server whose log accounts for
\* more than the card can give, beyond the sum of the tolerances, is reported as a
\* failure.  A part that is not logged counts as planned: beyond that verify
\* catches nothing of it.
THEOREM OvercommitNeverPassed == Spec => OvercommitCaught
<1> DEFINE Caught == \A logged \in SUBSET Parts :
              Compare(logged) /\ server.gpu
                  /\ Accounted(logged) >= UsableVram(hw) + 2 * UnderFail + Tolerance
              => report' \notin {"warn", "ok"}
<1>1. SizingInv /\ [Next]_vars => Caught
  BY CompareCatches
<1> QED
  BY <1>1, SizingInvariant, PTL DEF Spec, OvercommitCaught
=============================================================================
