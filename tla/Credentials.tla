----------------------------- MODULE Credentials -----------------------------
(***************************************************************************)
(* APIKeyManager (core/api_key_manager.py): the records of the issued API  *)
(* keys, in Redis, or in one file while Redis does not answer.  The server *)
(* processes share both.  A process serves one call at a time (all callers *)
(* are coroutines of its event loop), and the calls of several processes   *)
(* interleave between their reads and writes of the stores.                *)
(*                                                                         *)
(* A key stands for its id and its hash; a record is active or not.  The   *)
(* three Redis keys of a record (by hash, by id, the set of its user) are  *)
(* written one after the other, the last two as one step here.  A read of  *)
(* a store, and a rewrite of the file, is one step.  All keys belong to    *)
(* one user.                                                               *)
(***************************************************************************)
EXTENDS Naturals, FiniteSets

CONSTANTS
    Processes,
    ApiKeys,
    MaxKeys,      \* max_keys_per_user
    Failures,     \* bound on the times Redis goes down
    NoRecord

ASSUME CredentialsAssumption ==
    /\ IsFiniteSet(ApiKeys)
    /\ MaxKeys \in Nat
    /\ Failures \in Nat
    /\ NoRecord \notin BOOLEAN

VARIABLES
    keyRedis,    \* "up" or "down"
    faults,      \* how often it went down
    byHash,      \* byHash[k]: the record in Redis under the hash of k
    byId,        \* keys whose id Redis knows
    inFile,      \* inFile[k]: the record in the file
    expired,     \* keys whose time is over
    call,        \* call[p]: what process p is doing with which key
    revoked,     \* history: keys whose revocation has been written
    excused      \* history: keys of which a process held an active copy
                 \* when they were revoked, or for which Redis was down

credentialsVars ==
    <<keyRedis, faults, byHash, byId, inFile, expired, call, revoked, excused>>

NoCall == [at |-> "none", key |-> NoRecord, active |-> FALSE]
Calls == {"none", "validate", "touch", "store", "fetch", "revoke", "index", "count", "insert"}

CredentialsInit ==
    /\ keyRedis = "up"
    /\ faults = 0
    /\ byHash = [k \in ApiKeys |-> NoRecord]
    /\ byId = {}
    /\ inFile = [k \in ApiKeys |-> NoRecord]
    /\ expired = {}
    /\ call = [p \in Processes |-> NoCall]
    /\ revoked = {}
    /\ excused = {}

\* _get_key_by_hash: Redis first; the file when Redis fails or has nothing
RecordOf(k) == IF keyRedis = "up" /\ byHash[k] # NoRecord THEN byHash[k] ELSE inFile[k]

\* _get_key_by_id
RecordOfId(k) == IF keyRedis = "up" /\ k \in byId THEN RecordOf(k) ELSE inFile[k]

Finish(p) == call' = [call EXCEPT ![p] = NoCall]
Go(p, at) == call' = [call EXCEPT ![p].at = at]
StoresUnchanged == UNCHANGED <<byHash, byId, inFile>>
HistoryUnchanged == UNCHANGED <<revoked, excused>>

KeyRedisFails ==
    /\ keyRedis = "up" /\ faults < Failures
    /\ keyRedis' = "down"
    /\ faults' = faults + 1
    /\ excused' = ApiKeys
    /\ StoresUnchanged
    /\ UNCHANGED <<expired, call, revoked>>

KeyRedisReturns ==
    /\ keyRedis = "down"
    /\ keyRedis' = "up"
    /\ StoresUnchanged
    /\ HistoryUnchanged
    /\ UNCHANGED <<faults, expired, call>>

Expires(k) ==
    /\ k \notin expired /\ (byHash[k] # NoRecord \/ inFile[k] # NoRecord)
    /\ expired' = expired \union {k}
    /\ StoresUnchanged
    /\ HistoryUnchanged
    /\ UNCHANGED <<keyRedis, faults, call>>

\* A request brings key k to process p, or an administrator its id.
Begins(p) ==
    /\ call[p].at = "none"
    /\ \E k \in ApiKeys, at \in {"validate", "fetch", "count"} :
         call' = [call EXCEPT ![p] = [NoCall EXCEPT !.at = at, !.key = k]]
    /\ StoresUnchanged
    /\ HistoryUnchanged
    /\ UNCHANGED <<keyRedis, faults, expired>>

\* validate_key: unknown or inactive keys are refused, expired ones revoked
Validates(p) ==
    LET k == call[p].key IN
    /\ call[p].at = "validate"
    /\ IF RecordOf(k) \in {NoRecord, FALSE} THEN Finish(p)
       ELSE IF k \in expired THEN Go(p, "fetch")
       ELSE Go(p, "touch")
    /\ StoresUnchanged
    /\ HistoryUnchanged
    /\ UNCHANGED <<keyRedis, faults, expired>>

\* Faulty variant: the record that validate_key has found active is written back.
TouchesStale(p) ==
    /\ call[p].at = "touch"
    /\ call' = [call EXCEPT ![p] = [@ EXCEPT !.at = "store", !.active = TRUE]]
    /\ StoresUnchanged
    /\ HistoryUnchanged
    /\ UNCHANGED <<keyRedis, faults, expired>>

\* _update_last_used reads the record again ...
Touches(p) ==
    LET record == RecordOfId(call[p].key) IN
    /\ call[p].at = "touch"
    /\ IF record = NoRecord THEN Finish(p)
       ELSE call' = [call EXCEPT ![p] = [@ EXCEPT !.at = "store", !.active = record]]
    /\ StoresUnchanged
    /\ HistoryUnchanged
    /\ UNCHANGED <<keyRedis, faults, expired>>

\* revoke_key: the record by its id, and it is made inactive in the copy
FetchesToRevoke(p) ==
    /\ call[p].at = "fetch"
    /\ IF RecordOfId(call[p].key) = NoRecord THEN Finish(p)
       ELSE call' = [call EXCEPT ![p] = [@ EXCEPT !.at = "revoke", !.active = FALSE]]
    /\ StoresUnchanged
    /\ HistoryUnchanged
    /\ UNCHANGED <<keyRedis, faults, expired>>

\* list_keys(active_only), _get_keys_by_user
Listed ==
    (IF keyRedis = "up" THEN {k \in byId : RecordOf(k) = TRUE} ELSE {k \in ApiKeys : inFile[k] = TRUE})
    \ expired

\* generate_key: a new key when there is room
CountsKeys(p) ==
    LET k == call[p].key IN
    /\ call[p].at = "count"
    /\ IF Cardinality(Listed) < MaxKeys
            /\ byHash[k] = NoRecord /\ inFile[k] = NoRecord
            /\ \A q \in Processes \ {p} : call[q].key = k => call[q].at \notin {"insert", "index"}
       THEN call' = [call EXCEPT ![p] = [@ EXCEPT !.at = "insert", !.active = TRUE]]
       ELSE Finish(p)
    /\ StoresUnchanged
    /\ HistoryUnchanged
    /\ UNCHANGED <<keyRedis, faults, expired>>

\* Another process is about to write a copy that says the key is active.
HeldActive(p, k) ==
    \E q \in Processes \ {p} : call[q].key = k /\ call[q].at = "store" /\ call[q].active

RevocationNoted(p) ==
    LET k == call[p].key IN
    IF call[p].at = "revoke"
    THEN /\ revoked' = revoked \union {k}
         /\ excused' = IF HeldActive(p, k) THEN excused \union {k} ELSE excused
    ELSE HistoryUnchanged

\* _store_key: the record by its hash, then the rest of it
StoresInRedis(p) ==
    /\ call[p].at \in {"store", "revoke", "insert"} /\ keyRedis = "up"
    /\ byHash' = [byHash EXCEPT ![call[p].key] = call[p].active]
    /\ RevocationNoted(p)
    /\ Go(p, "index")
    /\ UNCHANGED <<keyRedis, faults, byId, inFile, expired>>

IndexesInRedis(p) ==
    /\ call[p].at = "index" /\ keyRedis = "up"
    /\ byId' = byId \union {call[p].key}
    /\ Finish(p)
    /\ HistoryUnchanged
    /\ UNCHANGED <<keyRedis, faults, byHash, inFile, expired>>

\* _store_key_file: Redis failed before or in the middle of the three writes
StoresInFile(p) ==
    /\ call[p].at \in {"store", "revoke", "insert", "index"} /\ keyRedis = "down"
    /\ inFile' = [inFile EXCEPT ![call[p].key] = call[p].active]
    /\ RevocationNoted(p)
    /\ Finish(p)
    /\ UNCHANGED <<keyRedis, faults, byHash, byId, expired>>

CredentialsNext ==
    \/ KeyRedisFails \/ KeyRedisReturns
    \/ \E k \in ApiKeys : Expires(k)
    \/ \E p \in Processes :
         \/ Begins(p) \/ Validates(p) \/ Touches(p) \/ FetchesToRevoke(p) \/ CountsKeys(p)
         \/ StoresInRedis(p) \/ IndexesInRedis(p) \/ StoresInFile(p)

CredentialsSpec == CredentialsInit /\ [][CredentialsNext]_credentialsVars

-----------------------------------------------------------------------------
CredentialsTypeOK ==
    /\ keyRedis \in {"up", "down"}
    /\ faults \in 0 .. Failures
    /\ byHash \in [ApiKeys -> BOOLEAN \union {NoRecord}]
    /\ byId \subseteq ApiKeys
    /\ inFile \in [ApiKeys -> BOOLEAN \union {NoRecord}]
    /\ expired \subseteq ApiKeys
    /\ call \in [Processes -> [at : Calls, key : ApiKeys \union {NoRecord}, active : BOOLEAN]]
    /\ revoked \subseteq ApiKeys
    /\ excused \subseteq ApiKeys

\* A revoked key is refused from then on: only a validation that had read the
\* record before the revocation was written, and writes its time of use after
\* it, or an outage of Redis, which splits the records over two stores, can
\* make it active again.
RevokedStaysRevoked ==
    \A k \in revoked \ excused : RecordOf(k) # TRUE /\ inFile[k] # TRUE
=============================================================================
