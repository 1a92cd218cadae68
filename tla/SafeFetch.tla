----------------------------- MODULE SafeFetch -----------------------------
(***************************************************************************)
(* SafeFetcher (utils/safe_fetch.py) with its RequestThrottler             *)
(* (utils/rate_limiter.py): the path of a fetch past the circuit breaker,  *)
(* robots.txt and the limiter, the request with its retries and redirects, *)
(* and the download.  Threads share the fetcher.                           *)
(*                                                                         *)
(* Time is counted in units of the limiter's interval.  The request is     *)
(* retried by tenacity with reraise=False: what its caller sees after the  *)
(* last attempt is tenacity's RetryError, no RequestException.  Validation *)
(* of addresses, the blacklist and the proxy only let a fetch pass or not; *)
(* a fetch that is refused changes nothing after the breaker was asked.    *)
(***************************************************************************)
EXTENDS Naturals

CONSTANTS
    Fetchers,         \* threads
    Domains,
    Interval,         \* min_interval
    CrawlDelay,       \* the delay a robots.txt may ask for
    BreakerTimeout,   \* circuit_breaker_timeout
    RobotsTtl,        \* cache_ttl
    FetchEnd,         \* bound on the clock
    BreaksMax,        \* bound on the downloads that break
    Never             \* no time

ASSUME SafeFetchAssumption ==
    /\ {Interval, CrawlDelay, BreakerTimeout, RobotsTtl, FetchEnd, BreaksMax} \subseteq Nat
    /\ Never \notin Nat

Clocked == 0 .. FetchEnd

VARIABLES
    fetchClock,        \* time.time()
    lastRequest,   \* RateLimiter.last_request_time
    queueing,      \* the thread that holds RateLimiter.lock, or Never
    robots,        \* RobotsChecker.parsers with last_fetch
    failedAt,      \* failed_domains
    permanent,     \* permanent_failures
    failureCounts,      \* _failure_counts, 0 when there is no entry
    fetch,         \* fetch[t]: where thread t is, for which domain, since when
    grants,        \* history: the latest two grants of the limiter per domain
    broken         \* history: per domain, the downloads that broke, and
                   \* whether one broke with an error that counts as permanent

fetchVars ==
    <<fetchClock, lastRequest, queueing, robots, failedAt, permanent, failureCounts, fetch, grants, broken>>

breaker == <<failedAt, permanent, failureCounts, broken>>
limiter == <<lastRequest, queueing, grants>>

Verdicts == {"unknown", "refused", "allowed", "delayed"}
NotFetching == [at |-> "none", domain |-> Never, since |-> 0]

FetchInit ==
    /\ fetchClock = 0
    /\ lastRequest = [d \in Domains |-> Never]
    /\ queueing = Never
    /\ robots = [d \in Domains |-> [verdict |-> "unknown", since |-> 0]]
    /\ failedAt = [d \in Domains |-> Never]
    /\ permanent = {}
    /\ failureCounts = [d \in Domains |-> 0]
    /\ fetch = [t \in Fetchers |-> NotFetching]
    /\ grants = [d \in Domains |-> <<Never, Never>>]
    /\ broken = [d \in Domains |-> [count |-> 0, named |-> FALSE]]

FetchAt(t, label) == fetch[t].at = label
FetchGoes(t, label) == fetch' = [fetch EXCEPT ![t].at = label]
FetchEnds(t) == fetch' = [fetch EXCEPT ![t] = NotFetching]
Within(d) == failedAt[d] # Never /\ fetchClock - failedAt[d] < BreakerTimeout

\* _enforce_pre_fetch_policies, _is_domain_blocked: a domain that is not blocked
\* any more loses its entry, but not its count of failures
PassBreaker(t, d) ==
    /\ FetchAt(t, "none")
    /\ d \notin permanent /\ ~Within(d)
    /\ failedAt' = [failedAt EXCEPT ![d] = Never]
    /\ \/ fetch' = [fetch EXCEPT ![t] = [at |-> "robots", domain |-> d, since |-> 0]]
       \/ UNCHANGED fetch
    /\ UNCHANGED <<fetchClock, limiter, robots, permanent, failureCounts, broken>>

\* RobotsChecker.can_fetch: a failure to get robots.txt refuses everything
AskRobots(t) ==
    LET d == fetch[t].domain
        old == robots[d]
        stale == old.verdict = "unknown" \/ fetchClock - old.since >= RobotsTtl IN
    /\ FetchAt(t, "robots")
    /\ \E v \in Verdicts \ {"unknown"} :
         /\ stale \/ v = old.verdict
         /\ robots' = IF stale THEN [robots EXCEPT ![d] = [verdict |-> v, since |-> fetchClock]] ELSE robots
         /\ IF v = "refused" THEN FetchEnds(t) ELSE FetchGoes(t, "wait")
    /\ UNCHANGED <<fetchClock, limiter, breaker>>

\* wait_if_needed: a crawl delay, which leaves no trace, or the limiter.  The
\* verdict may be a newer one than the fetch was let in by.
StartWaiting(t) ==
    /\ FetchAt(t, "wait")
    /\ IF robots[fetch[t].domain].verdict = "delayed"
       THEN /\ fetch' = [fetch EXCEPT ![t].at = "delay", ![t].since = fetchClock]
            /\ UNCHANGED queueing
       ELSE /\ queueing = Never
            /\ queueing' = t
            /\ FetchGoes(t, "limiter")
    /\ UNCHANGED <<fetchClock, lastRequest, grants, robots, breaker>>

DelayOver(t) ==
    /\ FetchAt(t, "delay") /\ fetchClock - fetch[t].since >= CrawlDelay
    /\ FetchGoes(t, "send")
    /\ UNCHANGED <<fetchClock, limiter, robots, breaker>>

Granted(t) ==
    LET d == fetch[t].domain IN
    /\ lastRequest' = [lastRequest EXCEPT ![d] = fetchClock]
    /\ grants' = [grants EXCEPT ![d] = <<@[2], fetchClock>>]
    /\ queueing' = Never
    /\ FetchGoes(t, "send")

\* Faulty variant: the sleep is taken without looking at the last request again.
GrantUnspaced(t) ==
    FetchAt(t, "limiter") /\ Granted(t) /\ UNCHANGED <<fetchClock, robots, breaker>>

\* RateLimiter.wait: it sleeps with the lock held
Grant(t) ==
    /\ FetchAt(t, "limiter")
    /\ lastRequest[fetch[t].domain] # Never => fetchClock - lastRequest[fetch[t].domain] >= Interval
    /\ Granted(t)
    /\ UNCHANGED <<fetchClock, robots, breaker>>

-----------------------------------------------------------------------------
\* _record_failure
RecordFailure(d, named) ==
    LET n == failureCounts[d] + 1 IN
    IF named THEN permanent' = permanent \union {d} /\ UNCHANGED <<failedAt, failureCounts>>
    ELSE /\ failureCounts' = IF Within(d) THEN [failureCounts EXCEPT ![d] = n] ELSE failureCounts
         /\ IF Within(d) /\ n >= 3
            THEN permanent' = permanent \union {d} /\ UNCHANGED failedAt
            ELSE failedAt' = [failedAt EXCEPT ![d] = fetchClock] /\ UNCHANGED permanent

\* Faulty variant: the errors of the request itself reach the handlers of fetch.
SendReraising(t) ==
    /\ FetchAt(t, "send")
    /\ \/ FetchGoes(t, "download") /\ UNCHANGED breaker
       \/ /\ FetchEnds(t)
          /\ \E named \in BOOLEAN : RecordFailure(fetch[t].domain, named)
          /\ UNCHANGED broken
    /\ UNCHANGED <<fetchClock, limiter, robots>>

\* _send_request: a response after at most max_redirects hops, each tried three
\* times; or ValueError, TooManyRedirects or RetryError, which leave no trace
Send(t) ==
    /\ FetchAt(t, "send")
    /\ FetchGoes(t, "download") \/ FetchEnds(t)
    /\ UNCHANGED <<fetchClock, limiter, robots, breaker>>

\* _download_with_size_limit and _clear_failure_state
DownloadDone(t) ==
    LET d == fetch[t].domain IN
    /\ FetchAt(t, "download")
    /\ FetchEnds(t)
    /\ failedAt' = [failedAt EXCEPT ![d] = Never]
    /\ failureCounts' = IF failedAt[d] = Never THEN failureCounts ELSE [failureCounts EXCEPT ![d] = 0]
    /\ UNCHANGED <<fetchClock, limiter, robots, permanent, broken>>

\* the response is too large, or another error that fetch does not record
DownloadRefused(t) ==
    /\ FetchAt(t, "download")
    /\ FetchEnds(t)
    /\ UNCHANGED <<fetchClock, limiter, robots, breaker>>

\* iter_content raises ConnectionError, whose text may name a permanent reason,
\* or another RequestException
DownloadBreaks(t) ==
    LET d == fetch[t].domain IN
    /\ FetchAt(t, "download")
    /\ broken[d].count < BreaksMax
    /\ FetchEnds(t)
    /\ \E named \in BOOLEAN :
         /\ RecordFailure(d, named)
         /\ broken' = [broken EXCEPT ![d] = [count |-> @.count + 1, named |-> @.named \/ named]]
    /\ UNCHANGED <<fetchClock, limiter, robots>>

FetchTick ==
    /\ fetchClock < FetchEnd
    /\ fetchClock' = fetchClock + 1
    /\ UNCHANGED <<limiter, robots, breaker, fetch>>

FetchStep(t) ==
    \/ \E d \in Domains : PassBreaker(t, d)
    \/ AskRobots(t) \/ StartWaiting(t) \/ DelayOver(t) \/ Grant(t)
    \/ Send(t) \/ DownloadDone(t) \/ DownloadRefused(t) \/ DownloadBreaks(t)

FetchNext == FetchTick \/ \E t \in Fetchers : FetchStep(t)

FetchSpec == FetchInit /\ [][FetchNext]_fetchVars

-----------------------------------------------------------------------------
FetchTypeOK ==
    /\ fetchClock \in Clocked
    /\ lastRequest \in [Domains -> Clocked \union {Never}]
    /\ queueing \in Fetchers \union {Never}
    /\ robots \in [Domains -> [verdict : Verdicts, since : Clocked]]
    /\ failedAt \in [Domains -> Clocked \union {Never}]
    /\ permanent \subseteq Domains
    /\ failureCounts \in [Domains -> Nat]
    /\ fetch \in [Fetchers -> [at : {"none", "robots", "wait", "delay", "limiter", "send", "download"},
                               domain : Domains \union {Never}, since : Clocked]]
    /\ grants \in [Domains -> (Clocked \union {Never}) \X (Clocked \union {Never})]
    /\ broken \in [Domains -> [count : 0 .. BreaksMax, named : BOOLEAN]]

\* Two grants of the limiter for one domain are an interval apart, whichever
\* threads they went to and whatever they wait for in between.
GrantsSpaced ==
    \A d \in Domains : grants[d][1] # Never => grants[d][2] - grants[d][1] >= Interval

\* The breaker never learns of a request that failed, only of downloads that
\* broke: a domain is barred after one of them; for good after one that names
\* a permanent reason, or after four.
BreakerEvidence ==
    \A d \in Domains :
        /\ failedAt[d] # Never => broken[d].count >= 1
        /\ d \in permanent => broken[d].named \/ broken[d].count >= 4
=============================================================================
