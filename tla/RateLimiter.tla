----------------------------- MODULE RateLimiter -----------------------------
(***************************************************************************)
(* RateLimiter and its Lua script (src/app/core/rate_limit.py) with the    *)
(* dependency that applies it (src/app/api/deps.py:100-130), for the       *)
(* bucket of one client.  The script is one atomic Redis step.  The unit   *)
(* of tokens is what one clock tick refills, so refill_per_second is       *)
(* TicksPerSecond units and a request costs Cost units.  Between requests  *)
(* the stored bucket does not move: it is refilled when it is read, and    *)
(* dropped when EXPIRE runs out.                                           *)
(***************************************************************************)
EXTENDS Integers

CONSTANTS
  Capacity,        \* rate_limit_capacity, in units
  Cost,            \* the price of a request, in units
  TicksPerSecond,
  FailOpen,        \* rate_limit_fail_open
  MaxClock,        \* bound: the Redis clock stops here
  MaxForward       \* bound: ticks of forward motion a behaviour may hold

ASSUME LimiterAssumption ==
  /\ Capacity \in Nat \ {0} /\ Cost \in 1..Capacity
  /\ TicksPerSecond \in Nat \ {0}
  /\ FailOpen \in BOOLEAN
  /\ MaxClock \in Nat /\ MaxForward \in Nat

VARIABLES
  clock,     \* Redis TIME, in ticks
  bucket,    \* the hash at the client's key, or NoBucket
  redisUp,   \* Redis answers the limiter
  answer,    \* how the last request was answered
  retryAt,   \* when the last 429 said to come back, if nobody asked since
  served,    \* ghost: units the requests served in this window are worth
  forward    \* ghost: ticks the clock moved forward in this window

limiterVars == <<clock, bucket, redisUp, answer, retryAt, served, forward>>

Never == -1
NoBucket == [tokens |-> Never, ts |-> 0, expireAt |-> 0]

CeilDiv(a, b) == (a + b - 1) \div b
Least(a, b) == IF a <= b THEN a ELSE b
Most(a, b) == IF a >= b THEN a ELSE b

(* Faulty: the key may expire before the bucket is full again. *)
LifetimeTooShort == TicksPerSecond * CeilDiv(Capacity, 2 * TicksPerSecond)

(* EXPIRE key ceil(capacity / refill) + 1, in ticks.                       *)
Lifetime == TicksPerSecond * (CeilDiv(Capacity, TicksPerSecond) + 1)

(* The bucket's content as the script sees it: full when there is no key.  *)
Level ==
  IF bucket = NoBucket THEN Capacity
  ELSE Least(Capacity, bucket.tokens + Most(0, clock - bucket.ts))

(* Faulty: rounded down instead of up. *)
RetryAfterRoundedDown(tokens) == (Cost - tokens) \div TicksPerSecond

(* Whole seconds until the missing units are refilled, rounded up.         *)
RetryAfter(tokens) == CeilDiv(Cost - tokens, TicksPerSecond)

LimiterTypeOK ==
  /\ clock \in 0..MaxClock
  /\ bucket \in [tokens : Never..Capacity, ts : 0..MaxClock, expireAt : Nat]
  /\ redisUp \in BOOLEAN
  /\ answer \in {"none", "ok", "ok_unlimited", "429", "503"}
  /\ retryAt \in {Never} \cup Nat
  /\ served \in Nat
  /\ forward \in 0..MaxForward

LimiterInit ==
  /\ clock = 0
  /\ bucket = NoBucket
  /\ redisUp = TRUE
  /\ answer = "none"
  /\ retryAt = Never
  /\ served = 0
  /\ forward = 0

Store(tokens) ==
  bucket' = [tokens |-> tokens, ts |-> clock, expireAt |-> clock + Lifetime]

(* Redis answers: spend and serve, or 429 with Retry-After.                *)
HitAllowed ==
  /\ redisUp
  /\ Level >= Cost
  /\ Store(Level - Cost)
  /\ answer' = "ok"
  /\ retryAt' = Never
  /\ served' = served + Cost
  /\ UNCHANGED <<clock, redisUp, forward>>

HitRefused ==
  /\ redisUp
  /\ Level < Cost
  /\ Store(Level)
  /\ answer' = "429"
  /\ retryAt' = clock + TicksPerSecond * RetryAfter(Level)
  /\ UNCHANGED <<clock, redisUp, served, forward>>

(* Faulty: strict mode serves the request all the same. *)
DegradedServes ==
  /\ answer' = IF FailOpen THEN "ok_unlimited" ELSE "503"
  /\ served' = served + Cost

(* What hit() and enforce_rate_limit do without an answer from Redis.      *)
Degraded ==
  /\ answer' = IF FailOpen THEN "ok_unlimited" ELSE "503"
  /\ served' = IF FailOpen THEN served + Cost ELSE served

(* Redis unreachable, or the breaker open: degraded.                       *)
HitWithoutRedis ==
  /\ ~redisUp
  /\ Degraded
  /\ UNCHANGED <<clock, bucket, redisUp, retryAt, forward>>

(* The script ran and its reply was lost: degraded, the token is gone.     *)
HitReplyLost ==
  /\ redisUp
  /\ Store(IF Level >= Cost THEN Level - Cost ELSE Level)
  /\ Degraded
  /\ retryAt' = Never
  /\ UNCHANGED <<clock, redisUp, forward>>

Tick ==
  /\ clock < MaxClock
  /\ forward < MaxForward
  /\ clock' = clock + 1
  /\ forward' = forward + 1
  /\ UNCHANGED <<bucket, redisUp, answer, retryAt, served>>

(* The clock of the Redis host is set back.                                *)
StepBack ==
  /\ clock > 0
  /\ clock' = clock - 1
  /\ retryAt' = Never
  /\ UNCHANGED <<bucket, redisUp, answer, served, forward>>

Expire ==
  /\ bucket # NoBucket
  /\ clock >= bucket.expireAt
  /\ bucket' = NoBucket
  /\ UNCHANGED <<clock, redisUp, answer, retryAt, served, forward>>

RedisChanges ==
  /\ redisUp' = ~redisUp
  /\ UNCHANGED <<clock, bucket, answer, retryAt, served, forward>>

(* Observation starts anew: the bound must hold for every window.          *)
NewWindow ==
  /\ served' = 0
  /\ forward' = 0
  /\ UNCHANGED <<clock, bucket, redisUp, answer, retryAt>>

LimiterNext ==
  \/ HitAllowed \/ HitRefused \/ HitWithoutRedis \/ HitReplyLost
  \/ Tick \/ StepBack \/ Expire \/ RedisChanges \/ NewWindow

LimiterSpec == LimiterInit /\ [][LimiterNext]_limiterVars

-----------------------------------------------------------------------------
(* "the long-run rate is capped": whatever window is observed, the requests *)
(* served in it are worth at most one full bucket and what was refilled     *)
(* meanwhile; through expiry, outages in strict mode and clock steps        *)
(* (rate_limit.py:3-6, 65-68).                                              *)
WindowBound == served <= Capacity + forward

(* "a client that waits exactly that long is guaranteed a token"           *)
(* (rate_limit.py:141-142), when nobody else spends from its bucket.       *)
RetryAfterIsEnough == retryAt # Never /\ clock >= retryAt => Level >= Cost

(* Dropping the key of an idle bucket changes nothing a client can see:    *)
(* with or without it the limiter is a bucket that is kept for ever.       *)
Bucket == INSTANCE TokenBucket WITH level <- Level
ImplementsBucket == Bucket!Spec
=============================================================================
