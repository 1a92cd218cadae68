---------------------------- MODULE RedisLimiter ----------------------------
(***************************************************************************)
(* RedisRateLimiter (utils/redis_rate_limiter.py) for one user and one     *)
(* endpoint: a token bucket in Redis that the server processes share, and  *)
(* one in the RAM of each process for when Redis does not answer.          *)
(*                                                                         *)
(* A check takes the time, reads the bucket with one pipeline and writes   *)
(* it back with another; the middleware calls it on the event loop, so a   *)
(* process has one check at a time, and the checks of several processes    *)
(* interleave.  Tokens are counted in units of 1/Window of a request, so   *)
(* that the refill of a time step is the whole number Limit.               *)
(***************************************************************************)
EXTENDS Naturals, FiniteSets

CONSTANTS
    Workers,       \* server processes
    Limit, Window, \* requests per window
    LimiterEnd,    \* bound of the clock
    Outages,       \* bound on the times Redis goes down
    NoBucket

ASSUME LimiterAssumption ==
    /\ IsFiniteSet(Workers)
    /\ Limit \in Nat
    /\ Window \in Nat \ {0}
    /\ LimiterEnd \in Nat
    /\ Outages \in Nat
    /\ NoBucket \notin [tokens : Nat, time : Nat]
    /\ NoBucket \notin [tokens : Nat, time : Nat, written : Nat]

VARIABLES
    second,     \* the clock
    redis,      \* "up" or "down"
    outages,    \* how often it went down
    bucket,     \* the two keys in Redis, which are written together
    ram,        \* ram[w]: _memory_buckets of process w
    check,      \* check[w]: the check under way in process w
    burst,      \* history: requests admitted by Redis in this second, since
                \* the bucket was last lost or deleted
    spent       \* history: spent[w], requests process w admitted by itself

limiterVars == <<second, redis, outages, bucket, ram, check, burst, spent>>

Token == Window
Full == Limit * Window

NoCheck == [at |-> "none", time |-> 0, tokens |-> 0]

LimiterInit ==
    /\ second = 0
    /\ redis = "up"
    /\ outages = 0
    /\ bucket = NoBucket
    /\ ram = [w \in Workers |-> NoBucket]
    /\ check = [w \in Workers |-> NoCheck]
    /\ burst = 0
    /\ spent = [w \in Workers |-> 0]

Smaller(a, b) == IF a < b THEN a ELSE b

\* The tokens of bucket b at time t: what it was left with and what has
\* flowed in since, up to the limit; a bucket not seen before is full.
Refilled(b, t) ==
    IF b = NoBucket THEN Full ELSE Smaller(Full, b.tokens + (t - b.time) * Limit)

\* A second passes.  Redis drops keys two windows after they were written.
LimiterTick ==
    /\ second < LimiterEnd
    /\ second' = second + 1
    /\ bucket' = IF bucket # NoBucket /\ second' >= bucket.written + 2 * Window
                 THEN NoBucket ELSE bucket
    /\ burst' = 0
    /\ UNCHANGED <<redis, outages, ram, check, spent>>

\* Redis stops answering, and comes back with its keys or without them.
RedisFails ==
    /\ redis = "up" /\ outages < Outages
    /\ redis' = "down"
    /\ outages' = outages + 1
    /\ UNCHANGED <<second, bucket, ram, check, burst, spent>>

RedisReturns ==
    /\ redis = "down"
    /\ redis' = "up"
    /\ \/ UNCHANGED <<bucket, burst>>
       \/ bucket' = NoBucket /\ burst' = 0
    /\ UNCHANGED <<second, outages, ram, check, spent>>

\* redis_rate_limit_middleware: a request; current_time = self._now()
CheckStarts(w) ==
    /\ check[w].at = "none"
    /\ check' = [check EXCEPT ![w] = [NoCheck EXCEPT !.at = "read", !.time = second]]
    /\ UNCHANGED <<second, redis, outages, bucket, ram, burst, spent>>

\* Faulty variant: the token is taken out after the bucket was written.
ReadBucketOnly(w) ==
    /\ check[w].at = "read" /\ redis = "up"
    /\ LET tokens == Refilled(bucket, check[w].time)
       IN  check' = [check EXCEPT ![w] =
               IF tokens >= Token THEN [@ EXCEPT !.at = "consume", !.tokens = tokens]
               ELSE NoCheck]
    /\ UNCHANGED <<second, redis, outages, bucket, ram, burst, spent>>

\* _read_bucket_state, _refill_bucket: go on to _consume_token, or _reject_request
ReadBucket(w) ==
    /\ check[w].at = "read" /\ redis = "up"
    /\ LET tokens == Refilled(bucket, check[w].time)
       IN  check' = [check EXCEPT ![w] =
               IF tokens >= Token THEN [@ EXCEPT !.at = "consume", !.tokens = tokens - Token]
               ELSE NoCheck]
    /\ UNCHANGED <<second, redis, outages, bucket, ram, burst, spent>>

WriteBucket(w) ==
    bucket' = [tokens |-> check[w].tokens, time |-> check[w].time, written |-> second]

\* _consume_token: the request is admitted
ConsumeToken(w) ==
    /\ check[w].at = "consume" /\ redis = "up"
    /\ WriteBucket(w)
    /\ burst' = burst + 1
    /\ check' = [check EXCEPT ![w] = NoCheck]
    /\ UNCHANGED <<second, redis, outages, ram, spent>>

\* Faulty variant: the time of the refill is not written back.
CheckMemoryUndated(w) ==
    LET tokens == Refilled(ram[w], check[w].time)
        admitted == tokens >= Token
    IN  /\ ram' = [ram EXCEPT ![w] =
               [tokens |-> IF admitted THEN tokens - Token ELSE tokens,
                time |-> IF ram[w] = NoBucket THEN check[w].time ELSE ram[w].time]]
        /\ spent' = IF admitted THEN [spent EXCEPT ![w] = @ + 1] ELSE spent
        /\ check' = [check EXCEPT ![w] = NoCheck]

\* _check_rate_limit_memory: the bucket of the process, under its lock
CheckMemory(w) ==
    LET tokens == Refilled(ram[w], check[w].time)
        admitted == tokens >= Token
    IN  /\ ram' = [ram EXCEPT ![w] =
               [tokens |-> IF admitted THEN tokens - Token ELSE tokens, time |-> check[w].time]]
        /\ spent' = IF admitted THEN [spent EXCEPT ![w] = @ + 1] ELSE spent
        /\ check' = [check EXCEPT ![w] = NoCheck]

\* Either pipeline raises: the check is made again in RAM.
RedisDoesNotAnswer(w) ==
    /\ check[w].at \in {"read", "consume"} /\ redis = "down"
    /\ CheckMemory(w)
    /\ UNCHANGED <<second, redis, outages, bucket, burst>>

\* The bucket is written, and the answer to the write is lost.
AnswerLost(w) ==
    /\ check[w].at = "consume" /\ redis = "up" /\ outages < Outages
    /\ redis' = "down"
    /\ outages' = outages + 1
    /\ WriteBucket(w)
    /\ CheckMemory(w)
    /\ UNCHANGED <<second, burst>>

\* reset_rate_limit
ResetRateLimit ==
    /\ redis = "up" /\ bucket # NoBucket
    /\ bucket' = NoBucket
    /\ burst' = 0
    /\ UNCHANGED <<second, redis, outages, ram, check, spent>>

\* cleanup_expired_keys does not ask whether a key has expired: it deletes all.
\* A bucket that has lost one of its two keys counts as gone.
CleanupExpiredKeys == ResetRateLimit

LimiterNext ==
    \/ LimiterTick \/ RedisFails \/ RedisReturns \/ ResetRateLimit \/ CleanupExpiredKeys
    \/ \E w \in Workers :
         CheckStarts(w) \/ ReadBucket(w) \/ ConsumeToken(w) \/ RedisDoesNotAnswer(w) \/ AnswerLost(w)

LimiterSpec == LimiterInit /\ [][LimiterNext]_limiterVars

-----------------------------------------------------------------------------
LimiterTypeOK ==
    /\ second \in 0 .. LimiterEnd
    /\ redis \in {"up", "down"}
    /\ outages \in 0 .. Outages
    /\ bucket \in [tokens : 0 .. Full, time : 0 .. LimiterEnd, written : 0 .. LimiterEnd] \union {NoBucket}
    /\ ram \in [Workers -> [tokens : 0 .. Full, time : 0 .. LimiterEnd] \union {NoBucket}]
    /\ check \in [Workers -> [at : {"none", "read", "consume"}, time : 0 .. LimiterEnd, tokens : 0 .. Full]]
    /\ burst \in Nat
    /\ spent \in [Workers -> Nat]

\* Binomial[n][k]: n over k, as the rows of Pascal's triangle give it.
Binomial[n \in Nat] ==
    [k \in Nat |-> IF k = 0 THEN 1 ELSE IF n = 0 THEN 0 ELSE Binomial[n - 1][k - 1] + Binomial[n - 1][k]]

\* How far the processes together overspend the bucket they share: a check
\* that is overtaken writes back a level the others have drained since, they
\* drain it again, and so on, as often as there are checks to be overtaken.
OverspendBounded ==
    burst <= Binomial[Limit + 1 + Cardinality(Workers)][Cardinality(Workers)] - 1

\* However often Redis fails and returns, a process admits by itself at most
\* one full bucket and what flows into it by its last check.
RamBucketLaw ==
    \A w \in Workers : ram[w] # NoBucket =>
        spent[w] * Token + ram[w].tokens <= Full + ram[w].time * Limit

\* What is admitted is bounded on either way, and on both together when Redis
\* fails and returns between the checks.
AdmissionBounded == OverspendBounded /\ RamBucketLaw
=============================================================================
