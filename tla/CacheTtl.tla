------------------------------ MODULE CacheTtl ------------------------------
(***************************************************************************)
(* The TTL of a cached tree: CACHE_TTL as config.Load lets it through and  *)
(* the random jitter that newTTLJitter adds, in time.Duration, a signed    *)
(* integer that wraps around above MaxDuration.                            *)
(***************************************************************************)
EXTENDS Integers

CONSTANT MaxDuration        \* the largest Duration, 2^63 - 1 ns in the code

ASSUME DurationAssumption == MaxDuration \in Nat \ {0}

Duration == -MaxDuration - 1 .. MaxDuration

\* The sum of two durations in two's complement.
Plus(a, b) ==
    LET sum == a + b IN
    IF sum > MaxDuration THEN sum - 2 * (MaxDuration + 1)
    ELSE IF sum < -MaxDuration - 1 THEN sum + 2 * (MaxDuration + 1)
    ELSE sum

\* parsePositiveDuration, of what ParseDuration has understood
Positive(ttl) == ttl > 0

\* Mutant: the jitter is not cut at the largest Duration.
MaxJitterUncut(base) == base \div 10

MaxJitter(base) ==
    LET tenth == base \div 10
        remaining == MaxDuration - base
    IN  IF tenth > remaining THEN remaining ELSE tenth

\* The results of newTTLJitter for this base; Int63n includes 0 and the maximum.
Jittered(base) ==
    IF base <= 0 THEN {base} ELSE {Plus(base, j) : j \in 0 .. MaxJitter(base)}

\* Set refuses what would never expire, or be refused by Redis.
SetAccepts(ttl) == ttl > 0
=============================================================================
