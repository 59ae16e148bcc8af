----------------------------- MODULE TokenBucket -----------------------------
(***************************************************************************)
(* The token bucket of one gateway.  It is refilled lazily, when somebody  *)
(* asks, at whatever rate is then current, although adapt and reset change *)
(* the rate without a refill.  Time passes in ticks; tokens are counted in *)
(* units fine enough for what a tick adds.                                 *)
(***************************************************************************)
EXTENDS Integers

CONSTANTS
  BaseCapacity,  \* baseCapacity, in tokens
  BaseRate,      \* baseRefillPerSec, in units per tick
  MinRate,       \* the 0.5 per second below which adapt does not go
  FloorPercent,  \* minCapacityFraction
  Unit,          \* units in a token
  Horizon        \* ticks that fill the bucket at any rate; more of them are
                 \* not told apart

ASSUME BucketOptions ==
  /\ BaseCapacity \in Nat \ {0} /\ Unit \in Nat \ {0}
  /\ MinRate \in Nat \ {0} /\ BaseRate \in Nat /\ MinRate <= BaseRate
  /\ FloorPercent \in 0..100
  /\ Horizon \in Nat /\ BaseCapacity * Unit <= Horizon * MinRate

VARIABLES
  tokens,    \* in units
  capacity,  \* currentCapacity, in tokens
  rate,      \* currentRefillPerSec, in units per tick
  since,     \* ticks since lastRefillMs
  ideal,     \* ghost: level of a bucket that is refilled on every tick at the
             \* base rate and pays for everything granted
  quota      \* ghost: the same, started full at the last adapt or reset with
             \* the capacity and rate then set

bucketVars == <<tokens, capacity, rate, since, ideal, quota>>

BucketTypeOK ==
  /\ capacity \in 1..BaseCapacity /\ tokens \in 0..(capacity * Unit)
  /\ rate \in MinRate..BaseRate /\ since \in 0..Horizon
  /\ ideal \in Int /\ quota \in Int

BucketInit ==
  /\ tokens = BaseCapacity * Unit /\ since = 0
  /\ capacity = BaseCapacity /\ rate = BaseRate
  /\ ideal = BaseCapacity * Unit /\ quota = BaseCapacity * Unit

AtMost(m, n) == IF n > m THEN m ELSE n
AtLeast(m, n) == IF n < m THEN m ELSE n

Pass ==
  /\ since' = AtMost(Horizon, since + 1)
  /\ ideal' = AtMost(BaseCapacity * Unit, ideal + BaseRate)
  /\ quota' = AtMost(capacity * Unit, quota + rate)
  /\ UNCHANGED <<tokens, capacity, rate>>

\* Faulty variant of Refilled: the capacity does not bound it.
RefilledWithoutBound == tokens + since * rate

\* The tokens after refill().
Refilled == IF since = 0 THEN tokens
                         ELSE AtMost(capacity * Unit, tokens + since * rate)

\* Faulty variant of Refill: lastRefillMs is not moved.
RefillKeepingClock(cost) ==
  /\ tokens' = Refilled - cost
  /\ UNCHANGED <<since, capacity, rate>>

Refill(cost) ==
  /\ tokens' = Refilled - cost
  /\ since' = 0
  /\ UNCHANGED <<capacity, rate>>

\* tryConsume() = true.
Grant == /\ Refilled >= Unit
         /\ Refill(Unit)
         /\ ideal' = ideal - Unit /\ quota' = quota - Unit

\* tryConsume() = false; msUntilAvailable refills once more, to no effect.
Deny == /\ Refilled < Unit
        /\ Refill(0)
        /\ UNCHANGED <<ideal, quota>>

\* 1 - clamped * (1 - floor), in percent like the severity.
Factor(severity) == 100 - (severity * (100 - FloorPercent)) \div 100

\* Faulty variant of ShrunkCapacity: rounded down, against which
\* token-bucket.ts:66 warns.
ShrunkCapacityRoundedDown(severity) ==
  AtLeast(1, (BaseCapacity * Factor(severity)) \div 100)

\* Math.round of a positive number rounds halves up.
ShrunkCapacity(severity) ==
  AtLeast(1, (BaseCapacity * Factor(severity) + 50) \div 100)
ShrunkRate(severity) == AtLeast(MinRate, (BaseRate * Factor(severity)) \div 100)

\* Faulty variant of Adapt: saved tokens above the new capacity are kept.
AdaptKeepingTokens(severity) ==
  /\ capacity' = ShrunkCapacity(severity) /\ rate' = ShrunkRate(severity)
  /\ quota' = capacity' * Unit
  /\ UNCHANGED <<tokens, since, ideal>>

Adapt(severity) ==
  /\ capacity' = ShrunkCapacity(severity) /\ rate' = ShrunkRate(severity)
  /\ tokens' = AtMost(capacity' * Unit, tokens)
  /\ quota' = capacity' * Unit
  /\ UNCHANGED <<since, ideal>>

Reset ==
  /\ capacity' = BaseCapacity /\ rate' = BaseRate
  /\ quota' = BaseCapacity * Unit
  /\ UNCHANGED <<tokens, since, ideal>>

\* A bucket whose methods are called in any order.
BucketNext == \/ Pass \/ Grant \/ Deny \/ Reset
              \/ \E severity \in 0..100 : Adapt(severity)

BucketSpec == BucketInit /\ [][BucketNext]_bucketVars

-----------------------------------------------------------------------------
\* However often the breaker shrinks and restores the bucket, and however
\* long ago the last refill was, no more is granted in any interval than the
\* configured rate and burst allow: adapt and reset leave the time since the
\* last refill to be credited at the new rate (token-bucket.ts:54).
NeverExceedsRate == ideal >= 0

\* ... nor, from an adapt or reset on, more than the bucket it set up allows,
\* whatever was saved before.
ThrottleHolds == quota >= 0
=============================================================================
