--------------------------- MODULE RequestWindows ---------------------------
(***************************************************************************)
(* The dependencies every route runs first (api/dependencies.py), in one   *)
(* server process: verify_api_key with its budget of failures per address, *)
(* and check_rate_limit with its budget of requests per key.  Both keep    *)
(* the time stamps of the last minute in a dictionary of the process.      *)
(*                                                                         *)
(* The lock around each dictionary is never contended: nothing awaits      *)
(* inside it.  The two dependencies therefore run as one step of the event *)
(* loop.  A stamp is a time and a serial number, so that the list of a key *)
(* is a set.  Development mode, which skips the key check for requests of  *)
(* the machine itself and counts by address, is left out.                  *)
(***************************************************************************)
EXTENDS Naturals, FiniteSets

CONSTANTS
    Addresses,
    BootstrapKey,
    ManagedKeys,    \* what APIKeyManager.validate_key accepts
    OtherKeys,      \* anything else a client may send
    NoKey,          \* no X-API-Key header
    Minute,
    RateLimit,      \* RATE_LIMIT
    FailureLimit,   \* AUTH_FAILURE_LIMIT
    TrackedMax,     \* the 1024 of the dictionaries
    WindowsEnd,     \* bound of the clock
    RequestsMax     \* bound on the requests of a history

GoodKeys == {BootstrapKey} \union ManagedKeys

WindowStamps == [time : 0 .. WindowsEnd, nr : 1 .. RequestsMax]

ASSUME WindowsAssumption ==
    {Minute, RateLimit, FailureLimit, TrackedMax, WindowsEnd, RequestsMax} \subseteq Nat

VARIABLES
    minuteClock,
    served,        \* requests so far, the next serial number
    authFailures,      \* auth_failure_counts: address to stamps
    requests,      \* request_counts: key to stamps
    failed,        \* history: failed[a], every refused key of address a
    admitted       \* history: admitted[k], every request let in with key k

windowsVars == <<minuteClock, served, authFailures, requests, failed, admitted>>

WindowsInit ==
    /\ minuteClock = 0
    /\ served = 0
    /\ authFailures = [a \in {} |-> {}]
    /\ requests = [k \in {} |-> {}]
    /\ failed = [a \in Addresses |-> {}]
    /\ admitted = [k \in GoodKeys |-> {}]

WindowsTick ==
    /\ minuteClock < WindowsEnd
    /\ minuteClock' = minuteClock + 1
    /\ UNCHANGED <<served, authFailures, requests, failed, admitted>>

Stamp == [time |-> minuteClock, nr |-> served + 1]

\* The stamps of the last minute.
Recent(stamps) == {s \in stamps : minuteClock - s.time < Minute}
RecentOf(dict, x) == IF x \in DOMAIN dict THEN Recent(dict[x]) ELSE {}

\* dict[x] = stamps
Put(dict, x, stamps) ==
    [y \in DOMAIN dict \union {x} |-> IF y = x THEN stamps ELSE dict[y]]

\* Faulty variant: a dictionary with too many entries is emptied.
PrunedWhole(dict) ==
    [x \in {y \in DOMAIN dict : Cardinality(DOMAIN dict) <= TrackedMax} |-> dict[x]]

\* A dictionary with too many entries loses those without a recent stamp.
Pruned(dict) ==
    IF Cardinality(DOMAIN dict) > TrackedMax
    THEN [x \in {y \in DOMAIN dict : Recent(dict[y]) # {}} |-> dict[x]]
    ELSE dict

\* _auth_failure_budget_ok: what it leaves, and whether the budget is left
Looked(a) == Put(Pruned(authFailures), a, RecentOf(Pruned(authFailures), a))
BudgetLeft(a) == Cardinality(RecentOf(Pruned(authFailures), a)) < FailureLimit

Request(a) ==
    /\ a \in Addresses
    /\ served < RequestsMax
    /\ served' = served + 1
    /\ UNCHANGED minuteClock

\* 429: the key is not even looked at
TooManyFailures(a) ==
    /\ Request(a)
    /\ ~BudgetLeft(a)
    /\ authFailures' = Looked(a)
    /\ UNCHANGED <<requests, failed, admitted>>

\* 401: _record_auth_failure.  A managed key fails as well when its store does.
Unauthorized(a, key) ==
    /\ Request(a)
    /\ BudgetLeft(a)
    /\ key \in OtherKeys \union ManagedKeys \union {NoKey}
    /\ authFailures' = Put(Looked(a), a, Looked(a)[a] \union {Stamp})
    /\ failed' = [failed EXCEPT ![a] = @ \union {Stamp}]
    /\ UNCHANGED <<requests, admitted>>

\* check_rate_limit: the key's own stamps, after the pruning
Counted(key) == RecentOf(Pruned(requests), key)

Authorized(a, key) ==
    /\ Request(a)
    /\ BudgetLeft(a)
    /\ key \in GoodKeys
    /\ authFailures' = Looked(a)
    /\ UNCHANGED failed

\* 429: the window of the key is full
RateLimited(a, key) ==
    /\ Authorized(a, key)
    /\ Cardinality(Counted(key)) >= RateLimit
    /\ requests' = Put(Pruned(requests), key, Counted(key))
    /\ UNCHANGED admitted

Admitted(a, key) ==
    /\ Authorized(a, key)
    /\ Cardinality(Counted(key)) < RateLimit
    /\ requests' = Put(Pruned(requests), key, Counted(key) \union {Stamp})
    /\ admitted' = [admitted EXCEPT ![key] = @ \union {Stamp}]

WindowsNext ==
    \/ WindowsTick
    \/ \E a \in Addresses :
         \/ TooManyFailures(a)
         \/ \E key \in GoodKeys \union OtherKeys \union {NoKey} :
              Unauthorized(a, key) \/ RateLimited(a, key) \/ Admitted(a, key)

WindowsSpec == WindowsInit /\ [][WindowsNext]_windowsVars

-----------------------------------------------------------------------------
WindowsTypeOK ==
    /\ minuteClock \in 0 .. WindowsEnd
    /\ served \in 0 .. RequestsMax
    /\ DOMAIN authFailures \subseteq Addresses
    /\ authFailures \in [DOMAIN authFailures -> SUBSET WindowStamps]
    /\ DOMAIN requests \subseteq GoodKeys
    /\ requests \in [DOMAIN requests -> SUBSET WindowStamps]
    /\ failed \in [Addresses -> SUBSET WindowStamps]
    /\ admitted \in [GoodKeys -> SUBSET WindowStamps]

\* The stamps of the minute that ends with t.
MinuteTo(t, stamps) == {s \in stamps : s.time <= t /\ t - s.time < Minute}

\* Whatever is forgotten in between (the lists are cut at each visit, idle
\* entries dropped when there are too many), in no minute does an address
\* have more keys refused than AUTH_FAILURE_LIMIT, nor a key more requests
\* admitted than RATE_LIMIT.
WindowLimits ==
    \A t \in 0 .. WindowsEnd :
        /\ \A a \in Addresses : Cardinality(MinuteTo(t, failed[a])) <= FailureLimit
        /\ \A k \in GoodKeys : Cardinality(MinuteTo(t, admitted[k])) <= RateLimit
=============================================================================
