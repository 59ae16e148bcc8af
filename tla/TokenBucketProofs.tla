-------------------------- MODULE TokenBucketProofs --------------------------
(***************************************************************************)
(* Proofs about TokenBucket.  What the bucket holds, with what the time    *)
(* since the last refill is worth at most, never exceeds the level of a    *)
(* bucket that is refilled on every tick, unless that one is full.         *)
(***************************************************************************)
EXTENDS TokenBucket, TLAPS

\* The bucket against one of capacity cap (in tokens) and rate r at a level.
Covers(level, cap, r) ==
  /\ level \in Int /\ tokens <= level
  /\ level = cap * Unit \/ tokens + since * r <= level

BucketInv ==
  /\ BucketTypeOK
  /\ Covers(ideal, BaseCapacity, BaseRate)
  /\ Covers(quota, capacity, rate)

LEMMA Product == \A m, n \in Nat : m * n \in Nat
OBVIOUS

LEMMA ProductMonotone ==
  ASSUME NEW k \in Nat, NEW m \in Nat, NEW n \in Nat, m <= n
  PROVE  k * m <= k * n /\ m * k <= n * k
OBVIOUS

LEMMA ProductStep ==
  ASSUME NEW m \in Nat, NEW n \in Nat
  PROVE  (m + 1) * n = m * n + n
OBVIOUS

LEMMA ShareBounds ==
  ASSUME NEW s \in 0..100, NEW p \in 0..100
  PROVE  (s * p) \div 100 \in 0..100
<1>1. s * p \in Nat /\ s * p <= 100 * 100
  <2>1. s * p <= s * 100
    BY ProductMonotone
  <2>2. s * p \in Nat
    BY Product
  <2> QED
    BY <2>1, <2>2
<1> QED
  BY <1>1

\* Nothing that adapt sets is above the base or below its minimum.
LEMMA ShrunkBounds ==
  ASSUME NEW severity \in 0..100
  PROVE  /\ ShrunkCapacity(severity) \in 1..BaseCapacity
         /\ ShrunkRate(severity) \in MinRate..BaseRate
<1> DEFINE f == Factor(severity)
<1>1. f \in 0..100
  <2>1. 100 - FloorPercent \in 0..100
    BY BucketOptions
  <2> QED
    BY <2>1, ShareBounds DEF Factor
<1>2. /\ BaseCapacity * f \in Nat /\ BaseCapacity * f <= BaseCapacity * 100
      /\ BaseRate * f \in Nat /\ BaseRate * f <= BaseRate * 100
  BY <1>1, Product, ProductMonotone, BucketOptions
<1>3. /\ (BaseCapacity * f + 50) \div 100 \in 0..BaseCapacity
      /\ (BaseRate * f) \div 100 \in 0..BaseRate
  <2> HIDE DEF f
  <2> QED
    BY <1>2, BucketOptions
<1> QED
  BY <1>3, BucketOptions DEF ShrunkCapacity, ShrunkRate, AtLeast

-----------------------------------------------------------------------------
LEMMA BucketInitial == BucketInit => BucketInv
<1> SUFFICES ASSUME BucketInit PROVE BucketInv
  OBVIOUS
<1>1. BaseCapacity * Unit \in Nat
  BY Product, BucketOptions
<1> QED
  BY <1>1, BucketOptions
  DEF BucketInit, BucketInv, BucketTypeOK, Covers

LEMMA PassCovers ==
  ASSUME NEW level \in Int, NEW cap \in Nat, NEW r \in Nat,
         BucketTypeOK, Covers(level, cap, r), Pass,
         capacity * Unit <= cap * Unit
  PROVE  /\ tokens <= AtMost(cap * Unit, level + r)
         /\ \/ AtMost(cap * Unit, level + r) = cap * Unit
            \/ tokens + since' * r <= AtMost(cap * Unit, level + r)
<1>1. /\ since \in Nat /\ since' \in Nat /\ since' <= since + 1
      /\ tokens \in Nat /\ tokens <= cap * Unit
  BY BucketOptions, Product DEF Pass, AtMost, BucketTypeOK
<1>2. since' * r <= since * r + r /\ since * r \in Nat /\ since' * r \in Nat
  <2>1. since' * r <= (since + 1) * r
    <3>1. since + 1 \in Nat
      BY <1>1
    <3> QED
      BY <1>1, <3>1, ProductMonotone, Zenon
  <2>2. (since + 1) * r = since * r + r
    BY <1>1, ProductStep
  <2>3. since * r \in Nat /\ since' * r \in Nat
    BY <1>1, Product, Zenon
  <2> QED
    BY <2>1, <2>2, <2>3
<1>3. cap * Unit \in Nat
  BY Product, BucketOptions
<1> QED
  BY <1>1, <1>2, <1>3 DEF Covers, AtMost

\* What a refill credits is covered by every bucket that is no smaller and no
\* slower than this one.
LEMMA RefillCovered ==
  ASSUME NEW level \in Int, NEW cap \in Nat, NEW r \in Nat,
         BucketTypeOK, Covers(level, cap, r), capacity <= cap, rate <= r
  PROVE  /\ Refilled \in 0..(capacity * Unit) /\ Refilled <= level
<1>1. /\ since \in Nat /\ rate \in Nat /\ capacity \in Nat
      /\ tokens \in Nat /\ tokens <= capacity * Unit
  BY BucketOptions, Product DEF BucketTypeOK
<1>2. /\ since * rate \in Nat /\ since * rate <= since * r
      /\ since * r \in Nat
      /\ capacity * Unit \in Nat /\ capacity * Unit <= cap * Unit
  BY <1>1, Product, ProductMonotone, BucketOptions
<1> QED
  BY <1>1, <1>2 DEF Covers, Refilled, AtMost

LEMMA BucketStep == BucketInv /\ [BucketNext]_bucketVars => BucketInv'
<1> SUFFICES ASSUME BucketInv, [BucketNext]_bucketVars
             PROVE  BucketInv'
  OBVIOUS
<1> USE DEF BucketInv
<1>0. /\ capacity \in Nat /\ BaseCapacity \in Nat
      /\ rate \in Nat /\ BaseRate \in Nat /\ Unit \in Nat
      /\ capacity <= BaseCapacity /\ rate <= BaseRate
      /\ capacity * Unit <= BaseCapacity * Unit
      /\ capacity * Unit \in Nat /\ BaseCapacity * Unit \in Nat
      /\ ideal \in Int /\ quota \in Int
  BY BucketOptions, Product, ProductMonotone DEF BucketTypeOK
<1>1. CASE Pass
  <2>1. BucketTypeOK'
    BY <1>0, <1>1, BucketOptions DEF Pass, BucketTypeOK, AtMost
  <2>2. Covers(ideal, BaseCapacity, BaseRate)'
    BY <1>0, <1>1, PassCovers DEF Covers, Pass, AtMost
  <2>3. Covers(quota, capacity, rate)'
    BY <1>0, <1>1, PassCovers DEF Covers, Pass, AtMost
  <2> QED
    BY <2>1, <2>2, <2>3
<1>2. CASE Grant \/ Deny
  <2>1. /\ Refilled \in 0..(capacity * Unit)
        /\ Refilled <= ideal /\ Refilled <= quota
    BY <1>0, RefillCovered
  <2>2. since' = 0 /\ capacity' = capacity /\ rate' = rate
    BY <1>2 DEF Grant, Deny, Refill
  <2>3. \/ /\ Refilled >= Unit /\ tokens' = Refilled - Unit
           /\ ideal' = ideal - Unit /\ quota' = quota - Unit
        \/ /\ tokens' = Refilled - 0
           /\ ideal' = ideal /\ quota' = quota
    BY <1>2 DEF Grant, Deny, Refill
  <2>4. BucketTypeOK'
    BY <1>0, <2>1, <2>2, <2>3, BucketOptions DEF BucketTypeOK
  <2>5. /\ tokens' \in Int /\ tokens' <= ideal' /\ ideal' \in Int
        /\ tokens' <= quota' /\ quota' \in Int
    BY <1>0, <2>1, <2>3
  <2>6. since' * BaseRate = 0 /\ since' * rate' = 0
    BY <1>0, <2>2
  <2>7. /\ tokens' + since' * BaseRate <= ideal'
        /\ tokens' + since' * rate' <= quota'
    BY <2>5, <2>6
  <2> QED
    BY <2>4, <2>5, <2>7, Zenon DEF Covers
<1>3. ASSUME NEW severity \in 0..100, Adapt(severity)
      PROVE  BucketInv'
  <2>0. capacity' = ShrunkCapacity(severity) /\ rate' = ShrunkRate(severity)
    BY <1>3 DEF Adapt
  <2>1. capacity' \in 1..BaseCapacity /\ rate' \in MinRate..BaseRate
    BY <1>3, <2>0, ShrunkBounds, Zenon
  <2>2. capacity' * Unit \in Nat
    <3>1. capacity' \in Nat
      BY <1>0, <2>1
    <3> QED
      BY <1>0, <3>1, Product, Zenon
  <2>3. /\ tokens' \in 0..(capacity' * Unit) /\ tokens' <= tokens
        /\ since' = since /\ ideal' = ideal
        /\ quota' = capacity' * Unit
    BY <1>0, <1>3, <2>2 DEF Adapt, AtMost, BucketTypeOK
  <2>4. BucketTypeOK'
    <3>1. quota' \in Int
      BY <2>2, <2>3
    <3>2. since' \in 0..Horizon /\ ideal' \in Int
      BY <2>3 DEF BucketTypeOK
    <3> QED
      BY <2>1, <2>3, <3>1, <3>2, Zenon DEF BucketTypeOK
  <2>5. Covers(ideal, BaseCapacity, BaseRate)'
    <3>1. since * BaseRate \in Nat /\ tokens \in Nat
      BY <1>0, Product DEF BucketTypeOK
    <3> QED
      BY <1>0, <2>2, <2>3, <3>1 DEF Covers
  <2> QED
    BY <2>2, <2>3, <2>4, <2>5 DEF Covers
<1>4. CASE Reset
  <2>1. /\ tokens' = tokens /\ since' = since /\ ideal' = ideal
        /\ capacity' = BaseCapacity /\ rate' = BaseRate
        /\ quota' = BaseCapacity * Unit
    BY <1>4 DEF Reset
  <2> QED
    BY <1>0, <2>1, BucketOptions DEF BucketTypeOK, Covers
<1>5. CASE UNCHANGED bucketVars
  BY <1>5 DEF bucketVars, BucketTypeOK, Covers
<1> QED
  BY <1>1, <1>2, <1>3, <1>4, <1>5 DEF BucketNext

-----------------------------------------------------------------------------
\* BucketTypeOK for every capacity, rate, floor and order of calls
\* (token-bucket.ts): tokens stay within the current capacity.
THEOREM BucketTypeCorrect == BucketSpec => []BucketTypeOK
<1>1. BucketInv => BucketTypeOK
  BY DEF BucketInv
<1> QED
  BY BucketInitial, BucketStep, <1>1, PTL DEF BucketSpec

\* No interval sees more grants than the configured rate and burst allow,
\* whatever adapt and reset do between two refills (token-bucket.ts:50-78).
THEOREM RateIsKept == BucketSpec => []NeverExceedsRate
<1>1. BucketInv => NeverExceedsRate
  <2> SUFFICES ASSUME BucketInv PROVE ideal >= 0
    BY DEF NeverExceedsRate
  <2>1. tokens \in Nat /\ ideal \in Int /\ tokens <= ideal
    BY Product, BucketOptions DEF BucketInv, BucketTypeOK, Covers
  <2> QED
    BY <2>1
<1> QED
  BY BucketInitial, BucketStep, <1>1, PTL DEF BucketSpec

\* From an adapt or reset on, no more is granted than the bucket it set up
\* allows (token-bucket.ts:62-78).
THEOREM ThrottleIsKept == BucketSpec => []ThrottleHolds
<1>1. BucketInv => ThrottleHolds
  <2> SUFFICES ASSUME BucketInv PROVE quota >= 0
    BY DEF ThrottleHolds
  <2>1. tokens \in Nat /\ quota \in Int /\ tokens <= quota
    BY Product, BucketOptions DEF BucketInv, BucketTypeOK, Covers
  <2> QED
    BY <2>1
<1> QED
  BY BucketInitial, BucketStep, <1>1, PTL DEF BucketSpec
=============================================================================
