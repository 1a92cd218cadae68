---------------------------- MODULE AccessStores ----------------------------
(***************************************************************************)
(* Roles (core/rbac_manager.py) and CSRF tokens (core/csrf_manager.py):    *)
(* each server process looks in Redis first and falls back to a dictionary *)
(* of its own.  Redis fails and returns; a process that does not reach it  *)
(* at its start never asks it again.  A request to an admin endpoint       *)
(* passes its dependencies one by one, and other processes run between.    *)
(* DEV_MODE, in which a loopback client skips both checks, is left out.    *)
(***************************************************************************)
EXTENDS Naturals

CONSTANTS
    Servers,          \* processes of the API server
    Principals,       \* hashes of API keys
    Bootstrap,        \* the principal that is an admin from the start
    TokenExpiry,      \* token_expiry, in steps of the clock
    AccessEnd,        \* bound on the clock
    TokensMax,        \* bound on the tokens
    ChangesMax,       \* bound on the changes of roles
    StoreFailures,    \* bound on the failures of Redis
    NoRole,
    NoToken

Roles == {"read_only", "user", "admin"}

ASSUME AccessAssumption ==
    /\ Bootstrap \in Principals /\ NoRole \notin Roles
    /\ {TokenExpiry, AccessEnd, TokensMax, ChangesMax, StoreFailures} \subseteq Nat

DefaultRole == "read_only"
CsrfTokens == [nr : 1 .. TokensMax, until : 0 .. AccessEnd + TokenExpiry]

NoCheckedCall == [at |-> "none", for |-> Bootstrap, on |-> Bootstrap, role |-> NoRole]

VARIABLES
    accessClock,
    storeUp,         \* Redis answers
    failuresLeft,
    roleStore,       \* rbac:role:* in Redis
    tokenStore,      \* csrf:* in Redis
    backend,         \* backend[s]: "off", or what the managers of s found at its start
    memoryRoles,     \* memory_roles of a process
    memoryTokens,    \* memory_tokens
    checked,         \* checked[s]: the request of s and what it has passed
    tokens,          \* how many have been generated
    changes,         \* assignments and revocations
    latest,          \* history: the role that Redis was told last
    missed,          \* history: principals of whom it missed a change
    newest           \* history: the token that it was told last

redisStores == <<roleStore, tokenStore>>
accessHistory == <<latest, missed, newest>>
accessVars ==
    <<accessClock, storeUp, failuresLeft, redisStores, backend, memoryRoles, memoryTokens, checked,
      tokens, changes, accessHistory>>

AccessInit ==
    /\ accessClock = 0
    /\ storeUp = TRUE /\ failuresLeft = StoreFailures
    /\ roleStore = [k \in Principals |-> NoRole]
    /\ tokenStore = [k \in Principals |-> NoToken]
    /\ backend = [s \in Servers |-> "off"]
    /\ memoryRoles = [s \in Servers |-> roleStore]
    /\ memoryTokens = [s \in Servers |-> tokenStore]
    /\ checked = [s \in Servers |-> NoCheckedCall]
    /\ tokens = 0 /\ changes = 0
    /\ latest = [k \in Principals |-> DefaultRole]
    /\ missed = {}
    /\ newest = [k \in Principals |-> 0]

Reached(s) == backend[s] = "redis" /\ storeUp

-----------------------------------------------------------------------------
\* get_role: Redis, or, if it does not answer or has none, the memory
RoleOf(s, k) ==
    IF Reached(s) /\ roleStore[k] # NoRole THEN roleStore[k]
    ELSE IF memoryRoles[s][k] # NoRole THEN memoryRoles[s][k]
    ELSE DefaultRole

Live(token) == token # NoToken /\ accessClock < token.until

\* Faulty variant: a token that Redis does not have is looked up in memory.
FoundAnywhere(s, k) ==
    IF Reached(s) /\ Live(tokenStore[k]) THEN {tokenStore[k].nr}
    ELSE IF memoryTokens[s][k] # NoToken /\ accessClock <= memoryTokens[s][k].until
         THEN {memoryTokens[s][k].nr} ELSE {}

\* validate_token: the tokens of k that s takes for valid.  Redis drops a token
\* at the end of its time, the memory takes it to the end and then deletes it.
ValidTokens(s, k) ==
    IF Reached(s) THEN IF Live(tokenStore[k]) THEN {tokenStore[k].nr} ELSE {}
    ELSE IF memoryTokens[s][k] # NoToken /\ accessClock <= memoryTokens[s][k].until
         THEN {memoryTokens[s][k].nr} ELSE {}

\* generate_token, from the csrf-token endpoint
GenerateToken(s) ==
    /\ backend[s] # "off" /\ tokens < TokensMax
    /\ tokens' = tokens + 1
    /\ \E k \in Principals :
         LET token == [nr |-> tokens + 1, until |-> accessClock + TokenExpiry] IN
         IF Reached(s) THEN /\ tokenStore' = [tokenStore EXCEPT ![k] = token]
                            /\ newest' = [newest EXCEPT ![k] = tokens + 1]
                            /\ UNCHANGED memoryTokens
         ELSE /\ memoryTokens' = [memoryTokens EXCEPT ![s][k] = token]
              /\ UNCHANGED <<tokenStore, newest>>
    /\ UNCHANGED <<accessClock, storeUp, failuresLeft, roleStore, backend, memoryRoles,
                   checked, changes, latest, missed>>

-----------------------------------------------------------------------------
\* Process s notes a role that Redis does not take, in its memory.
InMemory(s, k, role) ==
    /\ memoryRoles' = [memoryRoles EXCEPT ![s][k] = role]
    /\ missed' = IF backend[s] = "redis" THEN missed \union {k} ELSE missed

\* assign_role, the first of two commands: the role
Stored(s, k, role) ==
    /\ roleStore' = [roleStore EXCEPT ![k] = role]
    /\ latest' = [latest EXCEPT ![k] = role]
    /\ checked' = [checked EXCEPT ![s] = [at |-> "meta", for |-> Bootstrap, on |-> k, role |-> role]]
    /\ UNCHANGED <<memoryRoles, missed>>

SetRole(s, k, role) ==
    IF Reached(s) THEN Stored(s, k, role)
    ELSE /\ InMemory(s, k, role)
         /\ checked' = [checked EXCEPT ![s] = NoCheckedCall]
         /\ UNCHANGED <<roleStore, latest>>

\* The second, the metadata: if it fails the role is in the memory too.
SetMetadata(s) ==
    /\ checked[s].at = "meta"
    /\ checked' = [checked EXCEPT ![s] = NoCheckedCall]
    /\ IF storeUp THEN UNCHANGED <<memoryRoles,
                                   missed>> ELSE InMemory(s, checked[s].on, checked[s].role)
    /\ UNCHANGED <<accessClock, storeUp, failuresLeft, redisStores, backend, memoryTokens,
                   tokens, changes, latest, newest>>

\* A process starts: the managers look for Redis, then the bootstrap key is made admin.
StartServer(s) ==
    /\ backend[s] = "off" /\ changes < ChangesMax
    /\ changes' = changes + 1
    /\ backend' = [backend EXCEPT ![s] = IF storeUp THEN "redis" ELSE "memory"]
    /\ IF storeUp THEN Stored(s, Bootstrap, "admin")
       ELSE /\ memoryRoles' = [memoryRoles EXCEPT ![s][Bootstrap] = "admin"]
            /\ UNCHANGED <<roleStore, latest, missed, checked>>
    /\ UNCHANGED <<accessClock, storeUp, failuresLeft, tokenStore, memoryTokens, tokens,
                   newest>>

\* Its memory is gone.
StopServer(s) ==
    /\ backend[s] # "off"
    /\ backend' = [backend EXCEPT ![s] = "off"]
    /\ memoryRoles' = [memoryRoles EXCEPT ![s] = [k \in Principals |-> NoRole]]
    /\ memoryTokens' = [memoryTokens EXCEPT ![s] = [k \in Principals |-> NoToken]]
    /\ checked' = [checked EXCEPT ![s] = NoCheckedCall]
    /\ UNCHANGED <<accessClock, storeUp, failuresLeft, redisStores, tokens, changes,
                   accessHistory>>

\* verify_csrf_token
PassesCsrf(s) ==
    /\ backend[s] # "off" /\ checked[s].at = "none"
    /\ \E k \in Principals :
         /\ ValidTokens(s, k) # {}
         /\ checked' = [checked EXCEPT ![s] = [NoCheckedCall EXCEPT !.at = "role", !.for = k]]
    /\ UNCHANGED <<accessClock, storeUp, failuresLeft, redisStores, backend, memoryRoles,
                   memoryTokens, tokens, changes, accessHistory>>

\* verify_role(ADMIN); a refusal ends the request.
PassesRole(s) ==
    /\ checked[s].at = "role"
    /\ checked' = [checked EXCEPT ![s] =
            IF RoleOf(s, checked[s].for) = "admin" THEN [NoCheckedCall EXCEPT !.at = "act"] ELSE NoCheckedCall]
    /\ UNCHANGED <<accessClock, storeUp, failuresLeft, redisStores, backend, memoryRoles,
                   memoryTokens, tokens, changes, accessHistory>>

\* The assign endpoint
Assigns(s) ==
    /\ checked[s].at = "act" /\ changes < ChangesMax
    /\ changes' = changes + 1
    /\ \E k \in Principals, role \in Roles : SetRole(s, k, role)
    /\ UNCHANGED <<accessClock, storeUp, failuresLeft, tokenStore, backend, memoryTokens,
                   tokens, newest>>

\* The revoke endpoint: the memory is looked at when Redis fails or has nothing.
Revokes(s) ==
    /\ checked[s].at = "act" /\ changes < ChangesMax
    /\ changes' = changes + 1
    /\ checked' = [checked EXCEPT ![s] = NoCheckedCall]
    /\ \E k \in Principals :
         /\ IF Reached(s) THEN roleStore' = [roleStore EXCEPT ![k] = NoRole] /\ latest' = [latest EXCEPT ![k] = DefaultRole]
            ELSE UNCHANGED <<roleStore, latest>>
         /\ memoryRoles' = IF Reached(s) /\ roleStore[k] # NoRole THEN memoryRoles
                           ELSE [memoryRoles EXCEPT ![s][k] = NoRole]
         /\ missed' = IF backend[s] = "redis" /\ ~storeUp THEN missed \union {k} ELSE missed
    /\ UNCHANGED <<accessClock, storeUp, failuresLeft, tokenStore, backend, memoryTokens,
                   tokens, newest>>

\* Redis
StoreFails ==
    /\ storeUp /\ failuresLeft > 0
    /\ storeUp' = FALSE /\ failuresLeft' = failuresLeft - 1
    /\ UNCHANGED <<accessClock, redisStores, backend, memoryRoles, memoryTokens, checked,
                   tokens, changes, accessHistory>>

StoreReturns ==
    /\ ~storeUp /\ storeUp' = TRUE
    /\ UNCHANGED <<accessClock, failuresLeft, redisStores, backend, memoryRoles,
                   memoryTokens, checked, tokens, changes, accessHistory>>

AccessTick ==
    /\ accessClock < AccessEnd /\ accessClock' = accessClock + 1
    /\ UNCHANGED <<storeUp, failuresLeft, redisStores, backend, memoryRoles, memoryTokens,
                   checked, tokens, changes, accessHistory>>

AccessNext ==
    \/ StoreFails \/ StoreReturns \/ AccessTick
    \/ \E s \in Servers :
         \/ StartServer(s) \/ StopServer(s) \/ GenerateToken(s)
         \/ PassesCsrf(s) \/ PassesRole(s) \/ Assigns(s) \/ SetMetadata(s) \/ Revokes(s)

AccessSpec == AccessInit /\ [][AccessNext]_accessVars

-----------------------------------------------------------------------------
AccessTypeOK ==
    /\ accessClock \in 0 .. AccessEnd /\ storeUp \in BOOLEAN /\ failuresLeft \in 0 .. StoreFailures
    /\ roleStore \in [Principals -> Roles \union {NoRole}]
    /\ tokenStore \in [Principals -> CsrfTokens \union {NoToken}]
    /\ backend \in [Servers -> {"off", "redis", "memory"}]
    /\ memoryRoles \in [Servers -> [Principals -> Roles \union {NoRole}]]
    /\ memoryTokens \in [Servers -> [Principals -> CsrfTokens \union {NoToken}]]
    /\ checked \in [Servers -> [at : {"none", "role", "act", "meta"}, for : Principals, on : Principals, role : Roles \union {NoRole}]]
    /\ tokens \in 0 .. TokensMax /\ changes \in 0 .. ChangesMax
    /\ latest \in [Principals -> Roles] /\ missed \subseteq Principals
    /\ newest \in [Principals -> 0 .. TokensMax]

\* While Redis answers, every process that uses it gives a principal the role
\* of the latest change, unless Redis missed a change of it, and takes no token
\* but the newest that Redis was told: a failure alone, or the dictionary of
\* another process, changes neither.
AccessIsLatest ==
    storeUp => \A s \in Servers : backend[s] = "redis" => \A k \in Principals :
        /\ k \notin missed => RoleOf(s, k) = latest[k]
        /\ ValidTokens(s, k) \subseteq {newest[k]}
=============================================================================
