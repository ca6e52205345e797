------------------------------ MODULE RateLimit ------------------------------
(***************************************************************************)
(* The token and the rate limiter before every handler of the API: one     *)
(* bucket for each source, filled lazily.  Time is counted in ticks and    *)
(* tokens in the ticks that refill them, so that a tick fills in one.      *)
(***************************************************************************)
EXTENDS Integers, FiniteSets

CONSTANTS
  Source,      \* client addresses
  Token,       \* ticks that refill one token
  Burst,       \* what a bucket holds, in ticks
  MaxBuckets   \* past which all are dropped

ASSUME LimiterAssumption ==
  /\ Token \in Nat \ {0} /\ Burst \in Nat /\ Burst >= Token
  /\ MaxBuckets \in Nat

VARIABLES clock, buckets

limiterVars == <<clock, buckets>>

(* taken and made are history: what the bucket gave, and since when.       *)
Bucket == [tokens : Int, last : Nat, taken : Nat, made : Nat]

LimiterTypeOK ==
  /\ clock \in Nat
  /\ DOMAIN buckets \subseteq Source
  /\ \A s \in DOMAIN buckets : buckets[s] \in Bucket

NoBuckets == [s \in {} |-> 0]

LimiterInit == clock = 0 /\ buckets = NoBuckets

(* A request reads the clock before it waits for the lock.                 *)
Kept ==
  IF Cardinality(DOMAIN buckets) > MaxBuckets THEN NoBuckets ELSE buckets

Full(now) == [tokens |-> Burst, last |-> now, taken |-> 0, made |-> now]

(* Mutant: a bucket that is not emptied keeps the time it was filled at.   *)
RefilledSinceMade(b, now) ==
  LET filled == b.tokens + (now - b.made)
  IN [tokens |-> IF filled < Burst THEN filled ELSE Burst, last |-> now,
      taken |-> b.taken, made |-> b.made]

Refilled(b, now) ==
  LET filled == b.tokens + (now - b.last)
  IN [tokens |-> IF filled < Burst THEN filled ELSE Burst, last |-> now,
      taken |-> b.taken, made |-> b.made]

BucketOf(s, now) ==
  IF s \in DOMAIN Kept THEN Refilled(Kept[s], now) ELSE Full(now)

Allowed(s, now) == BucketOf(s, now).tokens >= Token

Taken(b) ==
  [tokens |-> b.tokens - Token, last |-> b.last,
   taken |-> b.taken + Token, made |-> b.made]

Allow(s, now) ==
  LET b == BucketOf(s, now)
  IN buckets' = [t \in DOMAIN Kept \cup {s} |->
       IF t # s THEN Kept[t]
       ELSE IF b.tokens >= Token THEN Taken(b) ELSE b]

Tick == clock' = clock + 1 /\ UNCHANGED buckets

-----------------------------------------------------------------------------
(* A bucket never gives more than it holds and what was refilled since it  *)
(* was made, though requests reach it in another order than they read the  *)
(* clock in; and there are never many.                                     *)
RateHolds ==
  /\ \A s \in DOMAIN buckets :
       buckets[s].taken <= Burst + (clock - buckets[s].made)
  /\ Cardinality(DOMAIN buckets) <= MaxBuckets + 1
=============================================================================
